---------------------------- MODULE FetchMemory ----------------------------
(***************************************************************************)
(* The fetch unit attached to the instruction memory, one clock edge per   *)
(* step, with the rest of the pipeline as environment: on any edge it may  *)
(* stop the fetch, redirect it to any aligned address (branch targets that *)
(* are not aligned fault instead, and mtvec and mepc are aligned by the    *)
(* CSR file), and have room for a fetched word or not.                     *)
(***************************************************************************)
EXTENDS FetchUnit, InstructionMemory

CONSTANTS Programs,       \* the programs the memory may hold: sequences of words
          Timings,        \* the timings it may have
          Nowhere         \* the address of the next word of a path that ended

ASSUME ProgramsAssumption == \A p \in Programs : p \in Seq({p[i] : i \in DOMAIN p})

ASSUME TimingsAssumption ==
  Timings \subseteq [request_wait_cycles : Nat, response_latency_cycles : Nat \ {0}]

ASSUME NowhereAssumption == Nowhere \notin Address

vars == <<fetchVars, memVars>>

AlignedAddress == {a \in Address : a % 4 = 0}
RedirectWire == [valid : {FALSE}, pc : {0}] \cup [valid : {TRUE}, pc : AlignedAddress]

System_Init ==
  /\ program \in Programs /\ timing \in Timings
  /\ Init /\ MemInit

ClockEdge(stop, redirect, out_ready) ==
  /\ Tick(stop, redirect, mem_req_ready, mem_rsp, out_ready)
  /\ MemTick(req_valid, req_addr, rsp_ready(stop, redirect, out_ready))

ResetEdge == Reset /\ reset_protocol

RunningEdge ==
  \E stop, out_ready \in BOOLEAN, redirect \in RedirectWire :
    ClockEdge(stop, redirect, out_ready)

System_Next == RunningEdge \/ ResetEdge

Spec == System_Init /\ [][System_Next]_vars

(* Liveness is stated between resets.  The clock keeps running, and again  *)
(* and again there is an edge on which the frontend takes the word and no  *)
(* redirect arrives: a fifo that is full drains or is flushed, and taken   *)
(* branches and traps are not retired on every edge.  Stop is unrestrained.*)
QuietEdge ==
  \E stop \in BOOLEAN : ClockEdge(stop, [valid |-> FALSE, pc |-> 0], TRUE)

LiveSpec == System_Init /\ [][RunningEdge]_vars /\ WF_vars(QuietEdge)

-----------------------------------------------------------------------------
(* Types of the registers of the two components.                           *)
Words == {NoWord} \cup UNION {{p[i] : i \in DOMAIN p} : p \in Programs}
FetchRecord == [pc : Address, instruction : Words, status : ImemStatus]

TypeOK ==
  /\ req_valid \in BOOLEAN /\ req_addr \in Address
  /\ pc \in Address /\ pending_pc \in Address
  /\ outstanding \in BOOLEAN /\ stopped \in BOOLEAN
  /\ redirect_pending \in BOOLEAN /\ restart_pc \in Address
  /\ out_valid \in BOOLEAN /\ out_data \in FetchRecord \cup {NoFetch}
  /\ program \in Programs /\ timing \in Timings
  /\ mem_state \in MemState
  /\ request_wait_count \in 0 .. timing.request_wait_cycles
  /\ response_cycles_remaining \in 0 .. timing.response_latency_cycles
  /\ pending_address \in Address
  /\ mem_req_ready \in BOOLEAN
  /\ mem_rsp \in [valid : BOOLEAN, data : Words, status : ImemStatus \cup {"reserved"}]

(* At most one request exists, in exactly one place: presented, accepted   *)
(* and waiting in the memory, or answered and held; and while one exists   *)
(* the fetched-word register is empty, so an answer always has room and    *)
(* rsp_ready never waits for the frontend (lib/fetch_unit.sv:22-23,41).    *)
SingleRequest ==
  /\ ~(req_valid /\ outstanding)
  /\ outstanding <=> mem_state # "AcceptingRequest"
  /\ mem_rsp.valid <=> mem_state = "HoldingResponse"
  /\ (req_valid \/ outstanding) => ~out_valid

(* The addresses of the request, of the fetch unit's copy and of the       *)
(* memory's copy agree, and pc is the address or its successor.            *)
AddressesAgree ==
  /\ req_valid => req_addr = pc
  /\ outstanding => pc = NextPc(pending_pc) /\ pending_address = pending_pc
  /\ mem_rsp.valid =>
       /\ mem_rsp.data = ReadWord(pending_pc).data
       /\ mem_rsp.status = ReadWord(pending_pc).status

(* A held answer is taken on the next edge whatever the pipeline does      *)
(* short of a reset: back-pressure never reaches the memory.               *)
AnswerTaken ==
  [][ mem_rsp.valid => ~mem_rsp'.valid ]_vars

(* A presented request that is not accepted stays, with its address, even  *)
(* if the path it belongs to has been abandoned (lib/fetch_unit.sv:72-73). *)
RequestStable ==
  [][ (req_valid /\ ~mem_req_ready /\ ~ResetEdge)
        => (req_valid' /\ req_addr' = req_addr) ]_vars

(* Everything the frontend sees is the stream of one path: no word of a    *)
(* path abandoned by a redirect or a stop, none skipped, none repeated,    *)
(* each with the contents of its own address, and kept until it is taken.  *)
(* The stream takes every edge with the inputs of the fetch unit: a path   *)
(* is begun by the redirect wire and reset only, and always by them.       *)
Stream == INSTANCE FetchStream WITH
  Redirects <- RedirectWire,
  NextAddress <- NextPc,
  memory <- [a \in Address |-> ReadWord(a)],
  next <- IF stopped THEN Nowhere
          ELSE IF redirect_pending THEN restart_pc
          ELSE IF outstanding THEN pending_pc ELSE pc,
  word <- IF out_valid THEN out_data ELSE NoFetch

EdgeImplemented ==
  /\ ResetEdge => Stream!Reset
  /\ \A stop, out_ready \in BOOLEAN, redirect \in RedirectWire :
       ClockEdge(stop, redirect, out_ready) => Stream!Step(stop, redirect, out_ready)

StreamImplemented == Stream!StreamSpec /\ [][EdgeImplemented]_vars

(* A redirect is acted upon: the old path always drains.                   *)
RedirectDrains == redirect_pending ~> ~redirect_pending

(* A stopped fetch unit becomes idle unless it is redirected: the idle     *)
(* output that the end of the program waits for (lib/retire_unit.sv:23).   *)
StoppedBecomesIdle == stopped ~> (idle \/ ~stopped)

(* A path that is neither stopped nor redirected keeps yielding words.     *)
PathProgresses == (~stopped /\ ~out_valid) ~> (out_valid \/ stopped \/ redirect_pending)
=============================================================================
