---------------------------- MODULE ReferenceCpu ----------------------------
(***************************************************************************)
(* The reference CPU as it runs (riscv_emulator/src/                       *)
(* rv32im_reference_cpu.cpp): one instruction at a time, each requested    *)
(* from the instruction memory, awaited and executed.  Module Isa says what*)
(* an instruction does; this module says when.                             *)
(***************************************************************************)
EXTENDS Isa

VARIABLES
  state, imem_req_valid, imem_req_addr, imem_rsp_ready

State == {"IssueRequest", "WaitForRequest", "WaitForResponse", "Stopped"}
referenceVars == <<arch, retired, state, imem_req_valid, imem_req_addr, imem_rsp_ready>>

ReferenceInit ==
  /\ IsaInit /\ state = "IssueRequest"
  /\ imem_req_valid = FALSE /\ imem_req_addr = 0 /\ imem_rsp_ready = FALSE

reset_state ==
  /\ arch' = ResetState /\ retired' = <<>> /\ state' = "IssueRequest"
  /\ imem_req_valid' = FALSE /\ imem_req_addr' = 0 /\ imem_rsp_ready' = FALSE

(* An interrupt is taken between instructions only, and the request that   *)
(* is issued on the same edge is for its handler.                          *)
interrupted_ungated == ENABLE_TRAPS /\ arch.csr.meie /\ irq_external
interrupted == ENABLE_TRAPS /\ arch.csr.mie /\ arch.csr.meie /\ irq_external

IssueRequest ==
  LET m == IF interrupted THEN Trap(arch, CAUSE_EXTERNAL, 0) ELSE arch
  IN /\ state = "IssueRequest"
     /\ arch' = m /\ retired' = <<>> /\ state' = "WaitForRequest"
     /\ imem_req_valid' = TRUE /\ imem_req_addr' = m.pc
     /\ UNCHANGED imem_rsp_ready

WaitForRequest(req_ready) ==
  LET accepted == imem_req_valid /\ req_ready
  IN /\ state = "WaitForRequest"
     /\ state' = IF accepted THEN "WaitForResponse" ELSE state
     /\ imem_req_valid' = (imem_req_valid /\ ~accepted)
     /\ imem_rsp_ready' = (imem_rsp_ready \/ accepted)
     /\ retired' = <<>>
     /\ UNCHANGED <<arch, imem_req_addr>>

(* The response channel's handshake.                                       *)
answered(rsp) == rsp.valid /\ imem_rsp_ready

WaitForResponse(rsp) ==
  LET outcome == Answer(arch, rsp.status, rsp.data)
  IN /\ state = "WaitForResponse"
     /\ IF answered(rsp)
        THEN /\ arch' = outcome.m /\ retired' = outcome.retired /\ imem_rsp_ready' = FALSE
             /\ state' = IF outcome.m.halted \/ outcome.m.fault THEN "Stopped" ELSE "IssueRequest"
        ELSE retired' = <<>> /\ UNCHANGED <<arch, state, imem_rsp_ready>>
     /\ UNCHANGED <<imem_req_valid, imem_req_addr>>

Stopped == state = "Stopped" /\ retired' = <<>>
           /\ UNCHANGED <<arch, state, imem_req_valid, imem_req_addr, imem_rsp_ready>>

ReferenceTick(req_ready, rsp) ==
  IssueRequest \/ WaitForRequest(req_ready) \/ WaitForResponse(rsp) \/ Stopped

(* Whatever the memory's pace, the reference CPU executes the instructions *)
(* of the program one after the other, and takes its interrupts between    *)
(* two of them (rv32im_reference_cpu.cpp:110-175).                         *)
ReferenceImplemented == IsaSpec
=============================================================================
