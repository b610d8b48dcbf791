----------------------------- MODULE FetchUnit -----------------------------
(***************************************************************************)
(* The instruction fetch unit (lib/fetch_unit.sv): one request at a time   *)
(* over a valid/ready channel, one response at a time back, one fetched    *)
(* word held for the frontend.  A presented request is never withdrawn, so *)
(* a stop or a redirect drains the request and its response before the new *)
(* path starts.                                                            *)
(*                                                                         *)
(* Registers are variables; the clock edge is Tick, whose arguments are    *)
(* the wires sampled at the edge.  Reset is the edge with reset asserted.  *)
(***************************************************************************)
EXTENDS Integers

CONSTANT PcModulus        \* addresses are bytes modulo PcModulus (2^32 in the code)
CONSTANT NoFetch          \* the reset value of out_data

ASSUME PcModulusAssumption ==
  PcModulus \in Nat /\ PcModulus > 4 /\ PcModulus % 4 = 0

Address == 0 .. PcModulus - 1

IMEM_OK == "ok"
IMEM_END == "end"
IMEM_FAULT == "access_fault"
ImemStatus == {IMEM_OK, IMEM_END, IMEM_FAULT}

VARIABLES
  req_valid, req_addr,            \* request channel, towards the memory
  pc, pending_pc,                 \* next address; address of the outstanding request
  outstanding,                    \* a request was accepted and not yet answered
  stopped,                        \* provisional end of this path
  redirect_pending, restart_pc,   \* a redirect waits for the old path to drain
  out_valid, out_data             \* fetched word, towards the instruction fifo

fetchVars == <<req_valid, req_addr, pc, pending_pc, outstanding, stopped,
               redirect_pending, restart_pc, out_valid, out_data>>

NextPc(a) == (a + 4) % PcModulus

(* The old path is being given up: nothing of it is asked for or delivered.*)
draining_forgets_pending(stop, redirect) == stop \/ stopped \/ redirect.valid
draining(stop, redirect) == stop \/ stopped \/ redirect.valid \/ redirect_pending

(* rsp_ready and idle are combinational outputs. *)
rsp_ready_only_if_wanted(stop, redirect, out_ready) ==
  outstanding /\ ~draining(stop, redirect) /\ (~out_valid \/ out_ready)
rsp_ready(stop, redirect, out_ready) ==
  outstanding /\ (draining(stop, redirect) \/ ~out_valid \/ out_ready)

idle == ~req_valid /\ ~outstanding /\ ~out_valid /\ ~redirect_pending

Init ==
  /\ req_valid = FALSE /\ req_addr = 0
  /\ pc = 0 /\ pending_pc = 0
  /\ outstanding = FALSE /\ stopped = FALSE
  /\ redirect_pending = FALSE /\ restart_pc = 0
  /\ out_valid = FALSE /\ out_data = NoFetch

Reset ==
  /\ req_valid' = FALSE /\ req_addr' = 0
  /\ pc' = 0 /\ pending_pc' = 0
  /\ outstanding' = FALSE /\ stopped' = FALSE
  /\ redirect_pending' = FALSE /\ restart_pc' = 0
  /\ out_valid' = FALSE /\ out_data' = NoFetch

(* redirect is [valid, pc]; rsp is [valid, data, status].                   *)
issue_ahead(stop, redirect) == ~req_valid /\ ~outstanding /\ ~draining(stop, redirect)
issue(stop, redirect) == ~req_valid /\ ~outstanding /\ ~out_valid /\ ~draining(stop, redirect)
restart_at_once(redirect) == ~redirect.valid /\ redirect_pending
restart_unless_stopped(redirect) ==
  ~redirect.valid /\ redirect_pending /\ ~req_valid /\ ~outstanding /\ ~stopped
restart(redirect) == ~redirect.valid /\ redirect_pending /\ ~req_valid /\ ~outstanding

(* The request channel: what is asked of the memory, and what is asked next.*)
RequestEdge_withdrawn(stop, redirect, req_ready) ==
  LET accept == req_valid /\ req_ready
      wanted == req_valid /\ ~redirect.valid
  IN /\ req_valid' = (~accept /\ (wanted \/ issue(stop, redirect)))
     /\ req_addr' = IF issue(stop, redirect) THEN pc ELSE req_addr
     /\ pending_pc' = IF accept THEN req_addr ELSE pending_pc
     /\ pc' = IF restart(redirect) THEN restart_pc ELSE IF accept THEN NextPc(pc) ELSE pc
RequestEdge(stop, redirect, req_ready) ==
  LET accept == req_valid /\ req_ready
  IN /\ req_valid' = (~accept /\ (req_valid \/ issue(stop, redirect)))
     /\ req_addr' = IF issue(stop, redirect) THEN pc ELSE req_addr
     /\ pending_pc' = IF accept THEN req_addr ELSE pending_pc
     /\ pc' = IF restart(redirect) THEN restart_pc ELSE IF accept THEN NextPc(pc) ELSE pc

(* The assignments of the clocked block, the later ones winning.           *)
Tick(stop, redirect, req_ready, rsp, out_ready) ==
  LET response == rsp.valid /\ rsp_ready(stop, redirect, out_ready)
      deliver  == response /\ ~draining(stop, redirect)
  IN /\ RequestEdge(stop, redirect, req_ready)
     /\ outstanding' = (~response /\ (outstanding \/ (req_valid /\ req_ready)))
     /\ out_valid' = (deliver \/ (out_valid /\ ~out_ready /\ ~stop /\ ~redirect.valid))
     /\ out_data' = IF deliver
                    THEN [pc |-> pending_pc, instruction |-> rsp.data, status |-> rsp.status]
                    ELSE out_data
     /\ stopped' = ( /\ ~redirect.valid
                     /\ stopped \/ stop \/ (deliver /\ rsp.status # IMEM_OK))
     /\ redirect_pending' = (redirect.valid \/ (redirect_pending /\ ~restart(redirect)))
     /\ restart_pc' = IF redirect.valid THEN redirect.pc ELSE restart_pc
=============================================================================
