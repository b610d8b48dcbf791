---------------------------- MODULE CorePipeline ---------------------------
(***************************************************************************)
(* The pipeline (lib/core_pipeline.sv) with its instruction memory: every  *)
(* component on one clock, a step being one clock edge.  The wires between *)
(* the components are records, w of retirement and recovery and d of       *)
(* dispatch, whose fields depend on registers and on earlier fields only.  *)
(***************************************************************************)
EXTENDS Decode, Execution, CompletionQueue, RetireUnit, IssueQueue, Rename,
        InorderOperands, BranchControl, MachineCsr

CONSTANTS
  FifoDepth,            \* depth of the instruction fifo (8 in the code)
  NoFetch, NoWord,      \* see FetchUnit and InstructionMemory
  Programs, Timings,    \* what the memory may hold, and its timings
  MaxInterrupts,        \* how often the interrupt line rises
  MaxResets             \* how often reset is asserted

ASSUME FifoAssumption == FifoDepth \in Nat \ {0}
ASSUME CoreProgramsAssumption == Programs \subseteq Seq(instruction_t)
ASSUME CoreTimingsAssumption ==
  Timings \subseteq [request_wait_cycles : Nat, response_latency_cycles : Nat \ {0}]

(* The packets that carry an instruction: fetched, decoded, in the         *)
(* completion queue.  Only a word fetched without error is an instruction; *)
(* a terminal packet ends the program, a serial one retires alone.         *)
fetch_t ==
  {f \in [pc : Word, instruction : instruction_t \cup {NoWord},
          status : {"ok", "end", "access_fault"}] :
     f.status = "ok" => f.instruction \in instruction_t}
decode_t ==
  {d \in [pc : Word, instruction : instruction_t \cup {NoWord}, op : op_t,
          rs1 : Arch, rs2 : Arch, rd : Arch, immediate : Word, immediate_b : BOOLEAN,
          terminal : BOOLEAN, serial : BOOLEAN, fault : FaultCode, trap_cause : Word] :
     /\ d.terminal => ~d.serial /\ d.rd = 0 /\ d.op = "ADD"
     /\ d.serial => ENABLE_TRAPS /\ d.op = "ADD" /\ d.instruction \in instruction_t
     /\ d.fault = FAULT_ILLEGAL => d.instruction \in instruction_t
     /\ ~d.terminal => d.fault = FAULT_NONE}
rob_entry_t ==
  {e \in [done : BOOLEAN, terminal : BOOLEAN, serial : BOOLEAN, fault : FaultCode,
          trap_cause : Word, instruction : instruction_t \cup {NoWord}, meta : meta_t,
          value : Word, branch : branch_result_t] :
     /\ e.terminal \/ e.serial => e.done
     /\ e.serial => ENABLE_TRAPS /\ e.instruction \in instruction_t
     /\ e.fault = FAULT_ILLEGAL => e.instruction \in instruction_t
     /\ ~e.terminal => e.fault = FAULT_NONE}

ASSUME EmptyEntryAssumption == Empty \notin rob_entry_t

VARIABLES
  req_valid, req_addr, fetch_pc, pending_pc, outstanding, stopped,
  redirect_pending, restart_pc, out_valid, out_data,            \* fetch unit
  program, timing, mem_state, request_wait_count, response_cycles_remaining,
  pending_address, mem_req_ready, mem_rsp,                      \* memory
  fifo_q, if_q, id_q,                                           \* frontend queues
  fetch_stopped, terminal_enqueued,                             \* end of the path seen
  sys_pending,                                                  \* a serial instruction is in flight
  arch_next_pc,                                                 \* address after the last retired
  registers,                                                    \* register bank
  irq_external, interrupts,                                     \* interrupt line; times it rose
  resets,                                                       \* edges with reset asserted
  clk                                                           \* changes at every edge

Fetch == INSTANCE FetchUnit WITH PcModulus <- WordModulus, pc <- fetch_pc
Memory == INSTANCE InstructionMemory
Fifo == INSTANCE PacketQueue WITH Depth <- FifoDepth, q <- fifo_q
IfId == INSTANCE PacketQueue WITH Depth <- 2, q <- if_q
IdDispatch == INSTANCE PacketQueue WITH Depth <- 2, q <- id_q

frontVars == <<req_valid, req_addr, fetch_pc, pending_pc, outstanding, stopped, redirect_pending,
               restart_pc, out_valid, out_data, fifo_q, if_q, id_q, fetch_stopped, terminal_enqueued>>
memoryVars == <<program, timing, mem_state, request_wait_count, response_cycles_remaining,
                pending_address, mem_req_ready, mem_rsp>>
backVars == <<sys_pending, arch_next_pc, registers, busy, producer, pending, csr>>
vars == <<frontVars, memoryVars, backVars, renameVars, iq, executionVars,
          robVars, retireVars, irq_external, interrupts, resets, clk>>

RegisterWords == IF OUT_OF_ORDER THEN Phys ELSE Arch

Init ==
  /\ program \in Programs /\ timing \in Timings
  /\ Fetch!Init /\ Memory!MemInit
  /\ Fifo!QueueInit /\ IfId!QueueInit /\ IdDispatch!QueueInit
  /\ fetch_stopped = FALSE /\ terminal_enqueued = FALSE /\ sys_pending = FALSE
  /\ arch_next_pc = 0 /\ registers = [r \in RegisterWords |-> 0]
  /\ ExecutionInit /\ CompletionInit /\ RetireInit /\ IssueInit
  /\ RenameInit /\ InorderInit /\ BranchInit /\ CsrInit
  /\ irq_external = FALSE /\ interrupts = 0 /\ resets = 0 /\ clk = FALSE

-----------------------------------------------------------------------------
(* Wires that depend on registers only.                                    *)
hd0 == head_data(0)
hd1 == head_data(1)
EntryAt(p) == IF p = 0 THEN hd0 ELSE hd1

trap_exception ==
  /\ ENABLE_TRAPS /\ ~halted /\ ~fault
  /\ Done(hd0) /\ hd0.terminal /\ hd0.fault # FAULT_NONE
trap_interrupt ==
  /\ ENABLE_TRAPS /\ ~halted /\ ~fault
  /\ interrupt_enabled(irq_external) /\ ~trap_exception
trap_taken == trap_exception \/ trap_interrupt

trap_cause ==
  CASE trap_interrupt -> CAUSE_EXTERNAL
    [] ~trap_interrupt /\ hd0.trap_cause # 0 -> hd0.trap_cause
    [] ~trap_interrupt /\ hd0.trap_cause = 0 /\ hd0.fault = FAULT_MISALIGNED -> CAUSE_INSTR_MISALIGNED
    [] ~trap_interrupt /\ hd0.trap_cause = 0 /\ hd0.fault = FAULT_ACCESS -> CAUSE_INSTR_ACCESS
    [] OTHER -> CAUSE_ILLEGAL
trap_tval ==
  CASE trap_interrupt -> 0
    [] ~trap_interrupt /\ hd0.fault = FAULT_MISALIGNED -> hd0.branch.target
    [] ~trap_interrupt /\ hd0.fault = FAULT_ACCESS -> hd0.meta.pc
    [] ~trap_interrupt /\ hd0.fault = FAULT_ILLEGAL /\ trap_cause = CAUSE_ILLEGAL ->
         hd0.instruction.bits
    [] OTHER -> 0

NoTrap == [valid |-> FALSE, pc |-> 0, cause |-> 0, tval |-> 0]
trap_wire ==
  IF ~trap_taken THEN NoTrap
  ELSE [valid |-> TRUE, pc |-> IF trap_exception THEN hd0.meta.pc ELSE arch_next_pc,
        cause |-> trap_cause, tval |-> trap_tval]

decoded == [i \in 1 .. IfId!pop_available |-> rv32_decode(IfId!pop_data[i])]
dispatch_data == IdDispatch!pop_data

(* The address after a retired entry.                                      *)
NextAddress_sequential(e) == (e.meta.pc + 4) % WordModulus
NextAddress(e) ==
  IF TakenBranch(e) THEN e.branch.target ELSE (e.meta.pc + 4) % WordModulus

(* What dispatch offers: a prefix of the decoded instructions for which    *)
(* every queue has room; a serial instruction goes alone.                  *)
offer_count_unserialised(blocked) ==
  IF blocked THEN 0
  ELSE Lower(Lower(Lower(IdDispatch!pop_available, ISSUE_WIDTH), Lower(rob_capacity, iq_capacity)),
             dispatch_limit(dispatch_data))
offer_count(blocked) ==
  LET available == IdDispatch!pop_available
      room == Lower(Lower(Lower(available, ISSUE_WIDTH), Lower(rob_capacity, iq_capacity)),
                    dispatch_limit(dispatch_data))
  IN IF sys_pending \/ blocked THEN 0
     ELSE IF available # 0 /\ dispatch_data[1].serial THEN Lower(room, 1) ELSE room

(* The rename maps are recovered with a taken branch at retirement and     *)
(* with a trap or its return.                                              *)
recovers_branches_only(branch, system) == branch
recovers(branch, system) == branch \/ (OUT_OF_ORDER /\ system)

(* The wires between retirement, recovery and the frontend: each group is  *)
(* computed from the groups before it, which it adds to.                   *)
Joined(w, more) ==
  [wire \in DOMAIN w \cup DOMAIN more |-> IF wire \in DOMAIN w THEN w[wire] ELSE more[wire]]

RetirementWires(trap) ==
  [trap |-> trap, retiring |-> retire_count(hd0, hd1, trap.valid, retire_limit(hd0, hd1)),
   finishing |-> finish(hd0, trap.valid, Fetch!idle)]

CommitWires(w) ==
  LET sys_retire == w.retiring # 0 /\ hd0.serial
      mret == hd0.instruction.op = "MRET"
  IN Joined(w, [sys_retire |-> sys_retire,
                mret_commit |-> ENABLE_TRAPS /\ sys_retire /\ mret,
                csr_commit |-> ENABLE_TRAPS /\ sys_retire /\ ~mret,
                recovered |-> retire_redirect(hd0, w.retiring, w.finishing)])

FlushWires(w) ==
  LET system == w.trap.valid \/ w.mret_commit
  IN Joined(w, [backend_flush |-> w.finishing \/ system \/ w.recovered.valid,
                restore |-> recovers(w.recovered.valid, system)])

WritebackWires(w) ==
  LET valid == {p \in Lane : wb[p] # Empty /\ ~w.backend_flush /\ ~halted /\ ~fault}
  IN Joined(w, [wb_valid |-> valid, completions |-> {wb[p] : p \in valid}])

BranchWires(w) ==
  Joined(w, [branch_fault |-> \E r \in w.completions : r.branch.fault # FAULT_NONE,
             branch |-> IF w.recovered.valid THEN w.recovered
                        ELSE blocking_redirect(w.completions, w.finishing)])

RedirectWires(w) ==
  Joined(w, [redirect |-> IF w.trap.valid THEN [valid |-> TRUE, pc |-> csr.mtvec]
                          ELSE IF w.mret_commit THEN [valid |-> TRUE, pc |-> csr.mepc]
                          ELSE w.branch,
             fetch_stop |-> \/ fetch_stopped \/ w.branch_fault
                            \/ \E i \in DOMAIN decoded : decoded[i].terminal])

RecoveryWires ==
  RedirectWires(BranchWires(WritebackWires(FlushWires(CommitWires(RetirementWires(trap_wire))))))

fetched_ready == Fifo!push_capacity # 0

(* The response channel's ready, as the memory sees it.                    *)
rsp_ready_wire(w) == Fetch!rsp_ready(w.fetch_stop, w.redirect, fetched_ready)
imem_rsp_ready_wire == rsp_ready_wire(RecoveryWires)

(* The wires of dispatch: how many go, and as what.                        *)
allow_count(offer) ==
  IF OUT_OF_ORDER THEN rename_allow_count(dispatch_data, offer)
  ELSE inorder_allow_count(dispatch_data, offer)

DispatchWires(n) ==
  LET tags == [p \in Lane |-> allocate_tag(p)]
      dispatched == SubSeq(dispatch_data, 1, n)
  IN [n |-> n, tags |-> tags, dispatched |-> dispatched,
      prepared |-> IF OUT_OF_ORDER THEN rename_prepared(dispatch_data, n, tags, registers)
                   ELSE inorder_prepared(dispatch_data, n, tags, rob, registers),
      terminal |-> \E i \in 1 .. n : dispatched[i].terminal,
      enqueued |-> Cardinality({i \in 1 .. n : ~dispatched[i].terminal /\ ~dispatched[i].serial})]

Dispatch(w) ==
  DispatchWires(allow_count(offer_count(terminal_enqueued \/ halted \/ fault \/ w.backend_flush
                                        \/ w.branch.valid \/ w.branch_fault)))

(* What issues, per lane.                                                  *)
IssueWires(w) ==
  LET md_available == muldiv_available /\ \A p \in Lane : ex[p] # Empty => ~is_muldiv(ex[p].op)
      ready == [p \in Lane |-> /\ stage_ready(p) /\ p < ISSUE_WIDTH
                               /\ ~w.backend_flush /\ ~halted /\ ~fault]
  IN Scheduled(ready, md_available, head)

(* The register bank's write ports; a CSR instruction that retires takes   *)
(* port 0.                                                                 *)
csr_old_value(w) ==
  IF w.sys_retire /\ ~w.mret_commit THEN csr_read(hd0.instruction.csr, irq_external) ELSE 0

WritePort(w, p) ==
  IF p = 0 /\ w.sys_retire /\ hd0.meta.rd # 0
  THEN [valid |-> TRUE, value |-> csr_old_value(w),
        address |-> IF OUT_OF_ORDER THEN committed_map[hd0.meta.rd] ELSE hd0.meta.rd]
  ELSE IF OUT_OF_ORDER /\ p \in w.wb_valid
  THEN [valid |-> TRUE, address |-> wb[p].meta.pdst, value |-> wb[p].value]
  ELSE IF ~OUT_OF_ORDER /\ p < w.retiring
  THEN [valid |-> TRUE, address |-> EntryAt(p).meta.rd, value |-> EntryAt(p).value]
  ELSE [valid |-> FALSE, address |-> 0, value |-> 0]

AllocatedEntry(d, meta) ==
  [done |-> d.terminal \/ d.serial, terminal |-> d.terminal, serial |-> d.serial,
   fault |-> d.fault, trap_cause |-> d.trap_cause, instruction |-> d.instruction,
   meta |-> meta, value |-> 0, branch |-> NoBranch]

(* The register bank: port 1 after port 0, register 0 stays zero.          *)
RegisterTick(port) ==
  registers' = [r \in RegisterWords |->
                  IF r = 0 THEN 0
                  ELSE IF port[1].valid /\ port[1].address = r THEN port[1].value
                  ELSE IF port[0].valid /\ port[0].address = r THEN port[0].value
                  ELSE registers[r]]

(* The interrupt line is the environment's: it rises at any time, at most  *)
(* MaxInterrupts times, and falls at any time.                             *)
InterruptLine ==
  \/ UNCHANGED <<irq_external, interrupts>>
  \/ /\ ~irq_external /\ interrupts < MaxInterrupts
     /\ irq_external' = TRUE /\ interrupts' = interrupts + 1
  \/ irq_external /\ irq_external' = FALSE /\ UNCHANGED interrupts

(* The ends of the path and the serial instruction in flight, at reset.    *)
PathReset == fetch_stopped' = FALSE /\ terminal_enqueued' = FALSE /\ sys_pending' = FALSE

-----------------------------------------------------------------------------
(* The frontend: fetch unit, memory, queues, and the ends of the path.     *)
FrontEdge(w, d) ==
  LET flush    == d.terminal \/ w.finishing \/ w.branch.valid \/ w.branch_fault
                  \/ w.trap.valid \/ w.mret_commit
      fetched  == IF out_valid /\ ~terminal_enqueued /\ fetched_ready THEN <<out_data>> ELSE <<>>
      fifo_pop == Lower(Fifo!pop_available, IfId!push_capacity)
      id_pop   == Lower(IfId!pop_available, IdDispatch!push_capacity)
  IN /\ Fetch!Tick(w.fetch_stop, w.redirect, mem_req_ready, mem_rsp, fetched_ready)
     /\ Memory!MemTick(req_valid, req_addr, rsp_ready_wire(w))
     /\ Fifo!QueueTick(flush, fetched, fifo_pop)
     /\ IfId!QueueTick(flush, SubSeq(Fifo!pop_data, 1, fifo_pop), id_pop)
     /\ IdDispatch!QueueTick(flush, SubSeq(decoded, 1, id_pop), d.n)
     /\ fetch_stopped' = (~w.redirect.valid /\ (fetch_stopped \/ w.fetch_stop))
     /\ terminal_enqueued' = ( /\ ~w.redirect.valid
                               /\ terminal_enqueued \/ d.terminal \/ w.branch_fault)

(* Architectural state outside the register bank, and the serial           *)
(* instruction in flight.                                                  *)
SystemEdge(w, d) ==
  LET rs1 == hd0.instruction.rs1
      source == registers[IF OUT_OF_ORDER THEN committed_map[rs1] ELSE rs1]
  IN /\ sys_pending' = ( /\ ~w.backend_flush /\ ~w.sys_retire
                         /\ sys_pending \/ \E i \in 1 .. d.n : d.dispatched[i].serial)
     /\ arch_next_pc' = IF w.trap.valid THEN csr.mtvec
                        ELSE IF w.mret_commit THEN csr.mepc
                        ELSE IF w.retiring = 0 THEN arch_next_pc
                        ELSE NextAddress(EntryAt(w.retiring - 1))
     /\ CsrTick(w.trap, w.mret_commit, w.csr_commit, hd0.instruction, source, irq_external)
     /\ RetireTick([p \in Lane |-> EntryAt(p)], w.retiring, w.finishing, csr_old_value(w))

(* From dispatch to retirement.                                            *)
BackEdge(w, d, chosen) ==
  LET writers  == [i \in 1 .. d.enqueued |-> d.prepared[i].meta]
      leaving  == IF w.sys_retire THEN <<>> ELSE [i \in 1 .. w.retiring |-> EntryAt(i - 1).meta]
  IN /\ RegisterTick([p \in Lane |-> WritePort(w, p)])
     /\ IF OUT_OF_ORDER
        THEN RenameTick(w.restore, writers, w.completions, leaving) /\ UNCHANGED inorderVars
        ELSE InorderTick(w.backend_flush, writers, leaving) /\ UNCHANGED renameVars
     /\ BranchTick(w.finishing, w.trap.valid \/ w.mret_commit,
                   [i \in 1 .. d.n |-> [op |-> d.dispatched[i].op, tag |-> d.tags[i - 1]]], w.completions)
     /\ IssueTick(w.backend_flush, {chosen[p] : p \in Lane} \ {Empty},
                  SubSeq(d.prepared, 1, d.enqueued), w.completions)
     /\ ExecutionTick(w.backend_flush, [p \in Lane |-> Issued(chosen[p])])
     /\ CompletionTick(w.backend_flush,
                       [i \in 1 .. d.n |-> AllocatedEntry(d.dispatched[i], d.prepared[i].meta)],
                       w.completions, w.retiring)

EdgeWith(w, d) ==
  FrontEdge(w, d) /\ SystemEdge(w, d) /\ BackEdge(w, d, IssueWires(w)) /\ UNCHANGED resets
EdgeAfter(w) == EdgeWith(w, Dispatch(w))
ClockEdge == EdgeAfter(RecoveryWires)

(* An edge with reset asserted: the reset branch of every register, and    *)
(* the memory's.                                                           *)
ResetEdge ==
  /\ resets < MaxResets /\ resets' = resets + 1
  /\ Fetch!Reset /\ Memory!reset_protocol
  /\ Fifo!QueueTick(TRUE, <<>>, 0) /\ IfId!QueueTick(TRUE, <<>>, 0) /\ IdDispatch!QueueTick(TRUE, <<>>, 0)
  /\ PathReset /\ arch_next_pc' = 0 /\ registers' = [r \in RegisterWords |-> 0]
  /\ CsrReset /\ RetireReset /\ RenameReset /\ InorderTick(TRUE, <<>>, <<>>)
  /\ BranchTick(TRUE, FALSE, <<>>, {}) /\ IssueTick(TRUE, {}, <<>>, {})
  /\ ExecutionTick(TRUE, [p \in Lane |-> Empty]) /\ CompletionTick(TRUE, <<>>, {}, 0)

ClockRuns == clk' = ~clk
Next == (ClockEdge \/ ResetEdge) /\ InterruptLine /\ ClockRuns

(* The clock never stops: an edge at which nothing else changes is a step  *)
(* like any other.                                                         *)
Spec == Init /\ [][Next]_vars
FairSpec == Spec /\ WF_clk(ClockRuns)

-----------------------------------------------------------------------------
(* The pipeline implements the instruction set: what retires, and the      *)
(* registers, addresses, CSRs and end of the program it leaves.            *)
Architecture == INSTANCE Isa WITH
  arch <- [x |-> [r \in Arch |-> IF OUT_OF_ORDER THEN registers[committed_map[r]] ELSE registers[r]],
           pc |-> arch_next_pc, csr |-> csr,
           halted |-> halted, fault |-> fault, fault_code |-> fault_code]

IsaImplemented == Architecture!IsaSpec
=============================================================================
