------------------------------ MODULE Lockstep ------------------------------
(***************************************************************************)
(* The RTL core, the SystemC CPU and the reference CPU side by side, as    *)
(* the core tests run them (rtl/sim/core_tests.cpp): the same program,     *)
(* clock and reset, each with an instruction memory of its own.  The tests *)
(* compare the ports of the first two after every edge.  The interrupt     *)
(* line of the reference CPU, a signal of its own in the tests, is driven  *)
(* here together with that of the other two.                               *)
(***************************************************************************)
EXTENDS CoreProperties

VARIABLES
  cpu, imem_rsp_ready,                                    \* see SystemcCpu
  systemc_state, systemc_wait_count, systemc_latency,     \* its memory, see
  systemc_address, systemc_req_ready, systemc_rsp,        \* InstructionMemory
  reference_arch, reference_retired, reference_state,     \* see ReferenceCpu
  reference_req_valid, reference_req_addr, reference_rsp_ready,
  refmem_state, refmem_wait_count, refmem_latency,        \* its memory
  refmem_address, refmem_req_ready, refmem_rsp

Systemc == INSTANCE SystemcCpu
SystemcMemory == INSTANCE InstructionMemory WITH
  mem_state <- systemc_state, request_wait_count <- systemc_wait_count,
  response_cycles_remaining <- systemc_latency, pending_address <- systemc_address,
  mem_req_ready <- systemc_req_ready, mem_rsp <- systemc_rsp

Reference == INSTANCE ReferenceCpu WITH
  arch <- reference_arch, retired <- reference_retired, state <- reference_state,
  imem_req_valid <- reference_req_valid, imem_req_addr <- reference_req_addr,
  imem_rsp_ready <- reference_rsp_ready
ReferenceMemory == INSTANCE InstructionMemory WITH
  mem_state <- refmem_state, request_wait_count <- refmem_wait_count,
  response_cycles_remaining <- refmem_latency, pending_address <- refmem_address,
  mem_req_ready <- refmem_req_ready, mem_rsp <- refmem_rsp

twinVars ==
  <<cpu, imem_rsp_ready, systemc_state, systemc_wait_count, systemc_latency,
    systemc_address, systemc_req_ready, systemc_rsp,
    reference_arch, reference_retired, reference_state, reference_req_valid,
    reference_req_addr, reference_rsp_ready, refmem_state, refmem_wait_count,
    refmem_latency, refmem_address, refmem_req_ready, refmem_rsp>>
lockstepVars == <<vars, twinVars>>

LockstepInit ==
  /\ Init
  /\ Systemc!CpuInit /\ SystemcMemory!MemInit
  /\ Reference!ReferenceInit /\ ReferenceMemory!MemInit

AllClock ==
  /\ ClockEdge
  /\ Systemc!tick(FALSE, systemc_req_ready, systemc_rsp)
  /\ SystemcMemory!MemTick(cpu.req_valid, cpu.req_addr, imem_rsp_ready)
  /\ Reference!ReferenceTick(refmem_req_ready, refmem_rsp)
  /\ ReferenceMemory!MemTick(reference_req_valid, reference_req_addr, reference_rsp_ready)

AllReset ==
  /\ ResetEdge
  /\ Systemc!tick(TRUE, systemc_req_ready, systemc_rsp)
  /\ SystemcMemory!reset_protocol
  /\ Reference!reset_state /\ ReferenceMemory!reset_protocol

LockstepNext == InterruptLine /\ ClockRuns /\ (AllClock \/ AllReset)
LockstepSpec == LockstepInit /\ [][LockstepNext]_lockstepVars
FairLockstepSpec == LockstepSpec /\ WF_clk(ClockRuns)

(* The interrupt line may also change between two edges, as it does in the *)
(* tests, which write it when the clock falls.  Nothing is clocked then,   *)
(* and drive_outputs, which waits for the state to change, does not run.   *)
LineMoves ==
  /\ InterruptLine /\ irq_external' # irq_external
  /\ UNCHANGED <<frontVars, memoryVars, backVars, renameVars, iq, executionVars,
                 robVars, retireVars, resets, clk, twinVars>>
BetweenEdgesSpec ==
  LockstepInit /\ [][LockstepNext \/ LineMoves]_lockstepVars

-----------------------------------------------------------------------------
(* What the tests compare: the ports of the two cores and of their         *)
(* memories agree (core_tests.cpp:315-342).                                *)
PortsAgree ==
  /\ req_valid = cpu.req_valid /\ (req_valid => req_addr = cpu.req_addr)
  /\ mem_req_ready = systemc_req_ready /\ mem_rsp.valid = systemc_rsp.valid
  /\ imem_rsp_ready_wire = imem_rsp_ready
  /\ mem_rsp.valid => mem_rsp = systemc_rsp
  /\ retired = cpu.retired
  /\ halted = cpu.halted /\ fault = cpu.fault /\ fault_code = cpu.fault_code

(* More than the ports show: behind them the two cores are in the same     *)
(* state, register by register (rv32im_cpu.cpp:290-334 against the         *)
(* registers of the RTL).                                                  *)
SameOperand(o, q) == o.ready = q.ready /\ (o.ready => o.value = q.value) /\ (~o.ready => o.tag = q.reg)
SameQueues ==
  /\ fifo_q = cpu.fifo /\ if_q = cpu.if2id /\ id_q = cpu.id2dispatch
  /\ \A s \in Slot : IF iq[s] = Empty \/ cpu.iq[s] = Empty THEN iq[s] = cpu.iq[s]
                     ELSE /\ iq[s].meta = cpu.iq[s].meta /\ iq[s].op = cpu.iq[s].op
                          /\ iq[s].branch_offset = cpu.iq[s].branch_offset
                          /\ SameOperand(iq[s].a, cpu.iq[s].a) /\ SameOperand(iq[s].b, cpu.iq[s].b)
  /\ \A t \in RobTag : IF rob[t] = Empty \/ cpu.rob[t] = Empty THEN rob[t] = cpu.rob[t]
                       ELSE LET e == cpu.rob[t] IN
                            rob[t] = [done |-> e.done, terminal |-> e.terminal, serial |-> e.serial,
                                      fault |-> e.fault, trap_cause |-> e.trap_cause,
                                      instruction |-> e.instruction, meta |-> e.result.meta,
                                      value |-> e.result.value, branch |-> e.result.branch]
SameFetch ==
  /\ <<outstanding, stopped, redirect_pending, fetch_stopped, terminal_enqueued>>
       = <<cpu.outstanding, cpu.fetch_local_stopped, cpu.redirect_pending, cpu.fetch_stopped,
           cpu.terminal_enqueued>>
  /\ fetch_pc = cpu.fetch_pc /\ pending_pc = cpu.pending_pc /\ restart_pc = cpu.restart_pc
  /\ cpu.fetched = IF out_valid THEN out_data ELSE Empty
SameRegisters ==
  /\ \A r \in RegisterWords : registers[r] = cpu.registers[r]
  /\ IF OUT_OF_ORDER
     THEN /\ speculative_map = cpu.speculative_map /\ committed_map = cpu.committed_map
          /\ free_q = cpu.free_register /\ ready_q = cpu.ready_register
     ELSE busy = cpu.busy /\ \A r \in busy : producer[r] = cpu.producer[r]
StatesAgree ==
  /\ SameFetch /\ SameQueues /\ SameRegisters
  /\ csr = cpu.csrs /\ arch_next_pc = cpu.arch_next_pc
  /\ pending = cpu.branch_tag /\ sys_pending = cpu.sys_pending
  /\ head = cpu.head /\ tail = cpu.tail /\ count = cpu.count
  /\ ex = cpu.issue2ex /\ alu = cpu.alu /\ wb = cpu.ex2wb /\ next_q = cpu.arbiter_next
  /\ md.busy = cpu.md_busy /\ md.out = cpu.md_output /\ (md.busy => md.step = cpu.md_step)

(* In every state the two cores agree, at their ports and behind them: no  *)
(* divergence is on its way to a port.                                     *)
CoresAgree == PortsAgree /\ StatesAgree

ReferenceImplemented == Reference!ReferenceImplemented
=============================================================================
