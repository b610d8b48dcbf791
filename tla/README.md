# TINY5: a TLA+ model of the RV32IM cores

TINY5 is a family of small RV32IM processor cores written in SystemVerilog
(`src/rtl`) with a C++ emulator, an instruction memory model and a sequential
reference CPU beside them (`src/riscv_emulator`).  One parameterised pipeline,
`lib/core_pipeline.sv`, is built into four tops: single-issue in order,
dual-issue in order, dual-issue out of order with blocking branches, and
dual-issue out of order with branches that wait for retirement.  Machine-mode
traps are an opt-in of every top.

The emulator (`riscv_emulator/src/rv32im_cpu.cpp`) describes the same pipelines
once more, in SystemC, and the tests keep the two in step edge by edge.

This directory holds a specification of the RTL pipeline, register by register
and edge by edge; of its SystemC twin; of the reference CPU and of the
instruction set it executes; of the instruction memory attached to each; of the
scoreboards the core tests judge them by; and of the three instruction decoders.
TLC configurations run them against each other.  TLAPS proofs, for every value of
the constants, cover the fetch path, alone and inside the core, the multiply and
divide unit, every invariant of the core itself (its types, queues, window,
renaming, wakeups, serial instructions, branches, end, memory channel, and the
values it computes), and from these that the core implements the instruction set;
that the reference CPU does; and that the three decoders read every word alike.

Paths below are relative to `src/`; RTL file names are relative to `src/rtl/`.

## 1. The system

One synchronous clock drives everything.  A component is a set of registers
updated on the rising edge from the values they had before it; components
talk over wires that are functions of the registers.  Packets move through
ready/valid channels: an item moves on an edge on which the sender says valid
and the receiver says ready.  Three broadcasts go backwards: the *flush*
(front end, or front end and back end), the *redirect* of the fetch unit and
the *restore* of the rename maps.

| component | state | operations | talks to |
|---|---|---|---|
| fetch unit (`lib/fetch_unit.sv`) | request, pc, outstanding, stopped, pending redirect, fetched word | issue a request, take an answer, stop, redirect, reset | memory (channel), fifo (channel), pipeline (stop, redirect, idle) |
| instruction memory (`riscv_emulator/src/instruction_memory.cpp`) | program, timing, state machine, two counters | tick, reset_protocol | fetch unit |
| frontend queues (`lib/packet_queue.sv`: instruction fifo, if2id, id2dispatch) | a short queue each | push, pop up to two, flush | fetch, decode, dispatch |
| decoder (`lib/rv32_decode.sv`) | none | a word to a decoded instruction or a terminal | if2id to id2dispatch |
| issue queue, schedulers (`lib/issue_queue.sv`, `control/*_scheduler.sv`) | one slot per waiting instruction | enqueue, wake, select, remove, flush | dispatch, writeback, execution |
| renaming (`control/rename_control.sv`, `control/free_list.sv`) | two maps, free list, ready bits | rename a bundle, complete, release, recover | dispatch, writeback, retirement |
| in-order operands (`control/inorder_operands.sv`) | busy bits, producer tags | accept, retire, flush | dispatch, completion queue, retirement |
| branch policies (`control/branch_control_*.sv`) | the pending branch (blocking policy) | block dispatch, redirect at resolution or at retirement | dispatch, writeback, retirement, fetch |
| execution cluster (`lib/execution_cluster.sv`, `lib/elastic_reg.sv`, `lib/writeback_arbiter.sv`) | issue, result and writeback registers, rotation | assign to a unit, execute, arbitrate, flush | issue queue, writeback |
| ALU, branch comparator (`lib/integer_alu.sv`) | none | compute | execution cluster |
| multiply and divide (`lib/muldiv_iterative.sv`) | accumulators, counter, output register | accept, iterate, finish, deliver, flush | execution cluster |
| completion queue (`lib/completion_queue.sv`) | ring of entries, head, tail, count | allocate, complete, retire, flush | dispatch, writeback, retirement |
| retirement (`lib/retire_unit.sv`) | retirement outputs, halted, fault | retire up to two, finish, fault | all |
| CSRs (`lib/machine_csr.sv`) | interrupt enables, mtvec, mepc, mcause, mtval, mscratch | read, write, trap entry, MRET | retirement |
| register bank (`lib/register_file.sv`) | one word per register | write, read | writeback or retirement, dispatch |
| core pipeline, tops (`lib/core_pipeline.sv`, `tops/*.sv`) | the program end seen, serial pending, next address of the retired path | one edge of everything above | memory, interrupt line |
| reference CPU (`riscv_emulator/src/rv32im_reference_cpu.cpp`) | x, pc, CSRs, halted, fault | tick, execute, raise_fault, trap | the same memory |
| SystemC CPU (`riscv_emulator/src/rv32im_cpu.cpp`) | one record `Pipeline` with all of the above in it | controls, advance, tick, drive_outputs, reset | a memory of its own, interrupt line |
| scoreboards, cycle counter (`riscv_emulator/include/retirement_state.h`, `dual_retirement_scoreboard.h`, `program_cycle_counter.h`) | registers as retired, the trace, a count | sample an edge, reset | retirement outputs of each CPU |
| core testbench (`sim/core_tests.cpp`) | the three CPUs on one clock | reset, clock, compare | all of the above |
| test catalogues, component tests, build | | | not modelled, see section 7 |

What makes them hard.  Nothing here is asynchronous: the difficulty is that a
dozen events meet on *one edge*.  A result is written back while its consumer is
dispatched; a redirect arrives while a memory request that cannot be recalled
is under way; a branch faults while older instructions are still running; a
queue fills and drains on one edge; an interrupt arrives on the edge on which
a branch, a CSR write or the end of the program retires.  A second difficulty
is reuse: tags, queue slots and physical registers are used again, and a stale
one names another instruction.  The third is that everything must drain: the
program ends only if the wrong path, the memory channel and both queues become
quiet.  Failures (crashes, lost messages) do not exist in this system; what comes
nearest is a reset on an arbitrary edge, which must leave nothing behind in any
of some fifty registers, each with a reset branch of its own.

The fourth is that everything is written twice or three times.  The SystemC CPU
does with one function and an order of statements what the RTL does with two
dozen clocked blocks; the two must agree on every edge, also with an interrupt line
that moves between edges.  The decoding of a word is written three times, in
three styles.

What makes each component correct, and where that is stated:

| component | correct when | property |
|---|---|---|
| fetch unit and memory | at most one request, never withdrawn, its answer always taken; the frontend sees the words of one path, none skipped, none repeated, each held until taken; a redirect or reset, and nothing else, begins a path | `SingleRequest` `AddressesAgree` `RequestStable` `AnswerTaken` `StreamImplemented` |
| | a redirect takes effect; a stop leads to idle; a path goes on | `RedirectDrains` `StoppedBecomesIdle` `PathProgresses` |
| multiply, divide | every step keeps the arithmetic invariant; the unit delivers the value of each operation once and holds it until taken; a flush, and nothing else, discards it | `IterationExact` `PortImplemented` `OperationFinishes` |
| completion queue | valid entries are the window from head to tail | `WindowContiguous` |
| issue queue, execution | every unfinished instruction is in exactly one place; no wakeup is missed; age order | `EachInOnePlace` `NoMissedWakeup` `IssueInOrder` |
| renaming | no register leaked or given twice; the map is the committed map replayed; ready bits exact | `RegistersConserved` `MapsReplay` `ReadyBitsExact` |
| in-order operands | busy and producer name the one writer in flight | `BusyExact` |
| branch policies, retirement | the blocking branch is the youngest; after the end all is quiet | `PendingBranchYoungest` `QuietAfterEnd` |
| serial instructions | they are alone when they retire | `SerialAlone` |
| the whole core | it retires what the instruction set says, in order; it never stalls for good | `IsaImplemented` `Progress` |
| SystemC CPU | after every edge its ports and its registers are those of the RTL | `CoresAgree` |
| reference CPU | on its own clock and memory it executes the instruction set | `ReferenceImplemented` |
| core testbench | a terminated program leaves the three CPUs and their scoreboards equal | `TestPasses` |
| decoders | they read every word alike: legal or not, operation, operands, serial, terminal | `DecodersAgree` |

`PROJECT.json` lists the hazards line by line, each with the properties that
would show it going wrong.

## 2. Modules

| module | models | kind |
|---|---|---|
| `Tiny5` | sizes, enumerations, word arithmetic (`pkg/tiny5_pkg.sv`) | constants, operators |
| `FetchUnit` | `lib/fetch_unit.sv` | component |
| `InstructionMemory` | `instruction_memory.cpp` | component |
| `FetchStream` | the stream of one path, with the inputs of each edge | abstract specification |
| `FetchMemory` | fetch unit and memory, any pipeline around them | composition; implements `FetchStream` |
| `FetchMemoryProofs` | theorems about `FetchMemory` | proofs |
| `PacketQueue` | `lib/packet_queue.sv`, instantiated three times | component |
| `Decode` | `lib/rv32_decode.sv`, on named operations | operators |
| `Encoding` | the bits of a word as `lib/rv32_decode.sv`, `rv32im_cpu.cpp` and `rv32im_reference_cpu.cpp` read them | component |
| `IntegerAlu` | `lib/integer_alu.sv`, branch comparator | operators |
| `MulDiv`, `MulDivUnit` | `lib/muldiv_iterative.sv`; the unit with any requester | component |
| `MulDivReference`, `MulDivPort` | what the operations are; a port that holds one, with the inputs of each edge | abstract specification of `MulDivUnit` |
| `MulDivUnitProofs` | the loop invariant and the refinement of `MulDivUnit` | proofs |
| `IssueQueue`, `Rename`, `InorderOperands`, `BranchControl`, `Execution`, `CompletionQueue`, `RetireUnit`, `MachineCsr` | the files of the same names | components |
| `CorePipeline` | `lib/core_pipeline.sv` and the tops: every register and wire of one edge | composition |
| `Isa` | what `rv32im_reference_cpu.cpp` does with one instruction, a trap, a reset | abstract specification of `CorePipeline` and of `ReferenceCpu` |
| `CoreProperties` | invariants and action properties of the pipeline | properties |
| `WordProofs` | words, bits and packets: what the operators of `Tiny5`, `Execution` and `MachineCsr` return | lemmas |
| `CoreTypesProofs` | queues, end and memory channel of `CorePipeline`; the wires of an edge and the type of every register; the completion queue as a window; in-order operands | proofs |
| `CoreFlightProofs` | where an instruction is between dispatch and writeback; serial instructions, branches, the end; the fetch path inside the core; maps, free list, ready bits, wakeups | proofs |
| `CoreProgramProofs` | what the pipeline holds is the program, and every value in it the one the program computes | proofs |
| `CoreIsaProofs` | the core implements `Isa` | proofs |
| `ReferenceCpu` | the state machine of `rv32im_reference_cpu.cpp` and its memory protocol | component; implements `Isa` |
| `SystemcCpu` | `rv32im_cpu.cpp` | component |
| `Lockstep` | the RTL core, its twin and the reference CPU, each with its memory, on one clock and reset | composition |
| `ReferenceProofs` | the reference CPU implements `Isa`; it and the two decoders read every word alike | proofs |
| `RetirementState` | scoreboards and cycle counter | operators |
| `Testbench` | `Lockstep` with scoreboards and counters attached (`sim/core_tests.cpp`) | composition |
| `MCFetchMemory`, `MCMulDiv`, `MCCore`, `MCLockstep`, `MCTestbench`, `MCEncoding` | instances for TLC | |

`CorePipeline` extends the back-end components and instantiates `FetchUnit`,
`InstructionMemory`, `PacketQueue` (three times) and `Isa`.  `Lockstep` extends
`CoreProperties` and instantiates `SystemcCpu`, `ReferenceCpu` and
`InstructionMemory` twice; `Testbench` extends `Lockstep`.

### How state and actions correspond to the code

* **One step is one rising edge.**  Each component has a `...Tick` operator
  that gives the next value of all its registers, with the priorities of its
  `always_ff` block (reset, flush, then the rest); `CorePipeline!ClockEdge`
  computes the wires in the order of the code and conjoins the ticks.  A
  register keeps its name from the code.
* `ResetEdge` is an edge with reset asserted: every register of the core, the
  memory's protocol, and in `Lockstep` the twin, the reference CPU and the other
  memories, return to their reset values on the same edge.  The memory's program
  stays.  The abstract `Isa` has it as a step `Reset`.
* The interrupt line is an input.  It may change at every edge; in `trap_ooo`
  it also moves between edges, where only what is computed from it without a
  clock (the SystemC method `drive_outputs`) can react.
* The SystemC CPU is `Controls`, a record of what the edge decides, followed by
  `advance`, one operator per block of the function in the order of its
  statements: a block writes into the state the earlier ones have built and
  reads the state from before the edge, or the new one where the code does.
  A slot whose `valid` flag is clear is `Empty`.
* A word of an instruction, where its bits matter (`Encoding`), is the set of the
  positions of its one bits; a field of it is a set too.  The operators
  `rtl_decode`, `systemc_decode` and `reference_execute` each follow the tests of
  one of the three decoders in their order, and `DecodersAgree` compares what
  follows from them.  It also ties the words to the named instructions that
  `Decode` and the rest of the model use.
* A register with a valid bit is one variable that holds a record or `Empty`.
  The data of an invalid register is never read by the code where the model
  says `Empty`.
* The four tops are the values of four constants: `ISSUE_WIDTH`,
  `OUT_OF_ORDER`, `BRANCH_AT_RETIRE`, `ENABLE_TRAPS`.
* Words have `XLEN` bits and wrap.  TLC computes with 32-bit integers and
  small words reach every corner sooner, so runs use 4, 8 or 16.
* An instruction is a record of its fields with its operation by name; the
  legality of a word, what is terminal and what is serial is `Decode`.
* The instruction memory keeps its counters exactly: a request is held
  `request_wait_cycles` and answered `response_latency_cycles` later.
* The order within an edge matters where the C++ memory is ticked by a
  testbench: it samples the request wires before the edge and its outputs
  change after it, as in `sim/rtl_adapter.h`; so both sides read unprimed
  values.

### Mutation operators

Next to many operators there is one named `<operator>_<slip>` that is never
used by the specification: the same operator with one plausible slip (a guard
dropped, an order swapped, a reset forgotten).  Each property has at least
one, listed in `PROJECT.json`; replacing the operator by it makes TLC find the
property violated.  They document what each property is able to notice.

## 3. What the runs check

| run | question | bounds |
|---|---|---|
| `fetch_memory` | is the fetch path safe under every stop, redirect, back-pressure and reset, and does it implement `FetchStream`? | 16 byte addresses, programs of 1 and 2 words, two timings |
| `fetch_liveness` | does it drain, become idle, go on? | the same, without reset |
| `muldiv_unit` | is every operation right on every operand pair, with flush and back-pressure at any edge? | 4-bit words: all 8 operations on all 256 pairs, then corner requests behind them |
| `core_single` | do the three CPUs pass the core tests, whatever the memory's timing and whenever they are reset? | 8-bit words, every operation on corner operands; one reset on any edge |
| `core_dual` | dual issue in order: windows, busy bits, issue order | three of five colliding pairs behind two divisions, at both alignments |
| `core_ooo` | out of order with blocking branches: ages, wakeups, ready bits, places | the same programs; 6 physical registers, 3 slots, 8 entries |
| `branch_inorder` | branches, illegal words on the path not taken, misaligned targets | three of five pairs behind two divisions, at both alignments |
| `branch_retire` | out of order with branches at retirement: recovery of the maps, reset, and progress | the same programs; one reset on any edge |
| `trap_inorder` | exceptions, CSR instructions, interrupts at any edge, MRET; progress | exceptions in sequences of up to 2, four interrupt bodies, one interrupt |
| `trap_ooo` | the same out of order, with recovery; does the reference CPU execute `Isa`? | the same; the line also moves between edges |
| `decode_table` | do the three decoders agree? | 192 instructions and every word at most two bits from one: about 71 000 words |

The two abstract specifications of components take the inputs of a clock edge as
parameters.  `StreamImplemented` and `PortImplemented` say that every edge of the unit
is the abstract step with the *same* inputs (redirect, stop, `out_ready`; flush, the
offered instruction, `out_ready`).  Those determine the step except for one choice,
when a word arrives or an operation is done: a redirect that is ignored, a path begun
without one, a word asked for again and given twice, an operation lost, a result
dropped before it is taken or left behind by a flush all violate them.  That what is
awaited does come is said by `PathProgresses` and `OperationFinishes`.  As every
property of this form they let a step pass that changes nothing; for those edges
there are the theorems about single edges in section 4.

`CoresAgree` is checked by `core_dual`, `core_ooo`, `branch_retire`,
`trap_inorder` and `trap_ooo`.  Its first part, `PortsAgree`, is what the tests
compare after every edge (`sim/core_tests.cpp:315-342`); its second, `StatesAgree`,
compares the registers behind the ports, which a test cannot see and which tell
of a divergence long before a port does.

`TestPasses` (`core_single`) is the end of a core test: once the program has
terminated on all three, retired registers, traces, end and fault agree, the
scoreboards saw no protocol error, and the two pipelines took the same number of
cycles.  It compares the core with the reference CPU as a whole instead
of instruction by instruction.

`IsaImplemented` is checked by every core run but `core_single`: the retired
instructions and the architectural state (registers through the committed map,
the address after the last retirement, CSRs, halted, fault) behave as the reference CPU does, one
step or two in a row at a time.  It says that no effect of a discarded path,
of a stale tag or of a register given twice ever reaches the programmer.
`RegistersConserved` is stronger than the two assertions of
`control/rename_control.sv:120-129`.  It, `MapsReplay` and `ReadyBitsExact` speak of a
core that has not ended its program: a fault discards younger instructions
without recovering the maps, which only a reset uses again.

### Bounds, and why they are enough

* `RobDepth` 4 (8 in `core_ooo`), `IqDepth` 2 or 3, `FifoDepth` 2.  A bundle is
  two wide, so these are the smallest sizes at which a queue can have no room,
  room for one of two, and room for both, with something older in it.
  `RobDepth` stays a power of two, as the code's tags wrap.
* The programs of the core runs are built so that these sizes are met.  Fetch
  yields a word every third edge at best, so instructions come in pairs only
  after something has held them up: the programs begin with two divisions, the
  second waiting for the first, behind which the queues and the front end fill,
  and go on with every three of a menu of five pairs, in step with the bundles
  and shifted by one.  Among the situations this reaches: a full completion
  queue; one free entry with two on offer; one free slot with two on offer
  (`core_ooo`); no free register and one with two wanted; both instructions of
  a bundle writing one register; tags used again with older ones in flight.
* One situation the core does not reach with these programs: a division that is
  finished but refused by the writeback arbiter.  It is covered by
  `muldiv_unit`, where the consumer refuses at will.
* `PhysRegs` 6 with 3 architectural registers: 3 physical registers to rename
  to, fewer than the completion queue has entries, so the free list runs out,
  also in the middle of a bundle, and every register is used again.
* Three registers are x0 and two others: enough for write after write, write
  after read, both writers in one bundle, and for the register that is never
  written.
* `XLEN` 16 is the least width at which the CSR bits used (11 and 12) exist;
  8 and 4 are used where only values matter.
* `MaxInterrupts` 1 caps how often the interrupt line is raised; it may be
  raised on any edge and stays until lowered on any later edge.
* `MaxResets` 1 caps the resets, in the two runs that have any.  What a reset could
  leave behind is left by the first; a second finds the states the first found.
  It falls on every reachable edge, also after the end of the program.
* `MaxFlips` 2: a decoder tests a field against a code or two; the reserved codes
  next to a legal one (a function code, `funct7`, the zero fields of the system
  instructions) are one or two bits away, and so are the neighbouring opcodes.
  Three bits would be some 900 000 words and reach no further kind of field; the
  theorem `DecodersAlwaysAgree` covers all words.
* No symmetry is used.  Deadlock is checked in every run but `decode_table`: the
  clock can always tick.  `decode_table` enumerates words, and stops when
  `MaxFlips` bits are flipped.

### Fairness

The clock does not stop: `FairSpec` is `Spec` with weak fairness of the toggle
of `clk`, which every clock edge makes.  An edge is deterministic but for the
interrupt line and the reset, and both are bounded, so nothing else is assumed
for `Progress`; the twin takes the same edges (`FairLockstepSpec`).  For the fetch path
alone (`LiveSpec`) the rest of the pipeline is environment: again and again
there is an edge without a redirect on which the frontend takes a fetched
word.  The code justifies it: the fifo drains or is flushed, and redirects come
from branches and traps, which need fetched words.  `StoppedBecomesIdle` and
`RedirectDrains` speak of what happens when the pipeline lets them.  For the
multiply and divide unit (`UnitSpec`) the consumer takes results again and
again and does not flush for ever.

## 4. What is proved

`FetchMemoryProofs` proves, for every address space size, set of programs and
set of timings:

| theorem | statement |
|---|---|
| `FetchTypes` | `Spec => []TypeOK` |
| `FetchSingleRequest` | `Spec => []SingleRequest` |
| `FetchAddressesAgree` | `Spec => []AddressesAgree` |
| `FetchAnswerTaken` | `Spec => AnswerTaken` |
| `FetchRequestStable` | `Spec => RequestStable` |
| `FetchEdgeIsStreamStep` | from `IInv`, `ClockEdge(stop, redirect, out_ready)` is `Stream!Step(stop, redirect, out_ready)` |
| `FetchImplementsStream` | `Spec => StreamImplemented` |

Assumptions, all in the modules that declare the constants:
`PcModulusAssumption` (the address space is a whole number of words),
`ProgramsAssumption` (programs are sequences, of whatever a word is),
`TimingsAssumption` (a latency is at least one cycle, as
`instruction_memory.cpp` demands) and `NowhereAssumption` (the mark of a path
that has ended is not an address).

The argument.  The inductive invariant is
`IInv == TypeOK /\ SingleRequest /\ AddressesAgree`.  Neither of the last two
is inductive alone.  That an answer never meets a full register needs
`SingleRequest`: while a request exists the register is empty, and a request is
only made when it is.  That the word written into the register belongs to the
current path needs `AddressesAgree`: the address in the memory is the one the
fetch unit remembers.  The proof of the step has one lemma per conjunct
(`TickTypes` and `MemTickTypes`, `EdgePreservesSingleRequest`,
`EdgePreservesAddresses`) and one for the reset; each splits on the memory's
three states.  `FetchStream` is implemented under the mapping that
reads the next address of the path from the registers: nowhere when stopped,
the restart address when a redirect is pending, else the address of the request
on its way, else pc.  `FetchEdgeIsStreamStep` splits an edge as the code does: a
redirect, a stop, a path that drains, an answer delivered, none; in the last three the
word that waits is held exactly while `out_ready` is low (`HeldOrAwaited`).

`CoreTypesProofs` proves of the whole core, in each of its configurations, with
and without traps, at every depth of its queues, for any programs and memory
timings, and with the interrupt line and the reset free to move on any edge:

| theorem | statement |
|---|---|
| `CoreQueues` | `Spec => [](QueuesBounded /\ NothingOutside)`: `count` stays within the completion queue, `tail` is `head` plus `count`, every entry outside that window is invalid, no frontend queue overflows |
| `CoreEndsOnce` | `Spec => []OneEnd`: never halted and faulted, nothing retired with the end or after it |
| `CoreSingleRequest` | `Spec => [](Path!SingleRequest /\ (imem_rsp_ready_wire <=> outstanding))` |
| `CoreAnswerTaken` | `Spec => Path!AnswerTaken` |
| `CoreRequestStable` | `Spec => Path!RequestStable` |

`Path` is `FetchMemory` (with its theorems) read in the variables of the core.  The assumptions are
`ConfigurationAssumption` and `Tiny5Assumption` (the configurations and sizes the
code can be built in) and `FifoAssumption` (the instruction fifo has an entry).

The argument.  `QueuesInv` adds to the two statements of `CoreQueues` that the
three frontend queues are sequences.  A queue pushes no more than
`push_capacity` says and pops no more than `pop_available` (`FrontQueuesStep`);
dispatch allocates no more than `rob_capacity`, and retirement takes no more
than `count` because an entry that is not there is `Empty`
(`CompletionStep`, with the arithmetic of the ring in `Advances` and
`Distances`).  The converse of `NothingOutside`, that inside the window
every entry is valid, needs the types of the decoded instructions and follows
below (`CoreWindow`).  `OneEnd` is inductive as
it stands.  `ChannelInv` is `SingleRequest` with the types of the handshake's
control bits.  It leaves open what the addresses and the words are, and that is
enough: whether a request exists does not depend on them.  The step needs of
the rest of the core only that `fetch_stop` and the redirect's valid bit are
Boolean, which follows the wires of an edge through their
definitions (`StopAndRedirect`).

It and the modules above it, each of which extends the one before, prove every
invariant and the one action property that the runs check of the core (those of
`CoreProperties`), and its refinement, with the same generality:

| theorem | statement | module |
|---|---|---|
| `CoreTypes` | `Spec => []TypeOK` | `CoreTypesProofs` |
| `CoreWindow` | `Spec => []WindowContiguous` | `CoreTypesProofs` |
| `CoreBusy` | `Spec => []BusyExact` | `CoreTypesProofs` |
| `CorePlaces` | `Spec => []EachInOnePlace` | `CoreFlightProofs` |
| `CoreSerial` | `Spec => []SerialAlone` | `CoreFlightProofs` |
| `CoreBlocking` | `Spec => []PendingBranchYoungest` | `CoreFlightProofs` |
| `CoreQuiet` | `Spec => []QuietAfterEnd` | `CoreFlightProofs` |
| `CoreIssueOrder` | `Spec => IssueInOrder` | `CoreFlightProofs` |
| `CorePath` | `Spec => Path!Spec`: the core implements `FetchMemory` | `CoreFlightProofs` |
| `CoreAddresses` | `Spec => []Path!AddressesAgree` | `CoreFlightProofs` |
| `CoreStream` | `Spec => Path!StreamImplemented /\ [][StreamEdge]_vars`: the stream, driven by the core's own redirect, stop and fifo | `CoreFlightProofs` |
| `CoreMaps` | `Spec => []MapsReplay` | `CoreFlightProofs` |
| `CoreRegisters` | `Spec => []RegistersConserved` | `CoreFlightProofs` |
| `CoreReady` | `Spec => []ReadyBitsExact` | `CoreFlightProofs` |
| `CoreWakeup` | `Spec => []NoMissedWakeup` | `CoreFlightProofs` |
| `ValuesTrue` | `Spec => []ValueInv`: what is in flight is the program, with the values it computes | `CoreProgramProofs` |
| `CoreImplementsIsa` | `Spec => IsaImplemented`: the core implements the instruction set | `CoreIsaProofs` |

Further assumptions: `CoreProgramsAssumption` (the memory holds instructions),
`CoreTimingsAssumption` (a latency is at least one cycle: `set_timing` of
`instruction_memory.cpp` rejects 0),
`TrapsAssumption` (a core with traps has the 16 bits its CSRs use),
`PowerAssumption` (the powers of two up to `2 ^ XLEN`: the provers know nothing
of exponentiation; TLC evaluates it in every run), and `EmptyAssumption` and
`EmptyEntryAssumption` (the mark of an invalid register is not a packet).

The argument.  Every invariant is inductive only together with earlier ones:

* `TypesInv` is `TypeOK` with the bounds of the queues.  A packet is followed from
  the memory's answer through the decoder, dispatch, the units and retirement.
  The types carry what a reader of a packet relies on: a word fetched without error
  is an instruction, a serial entry has one, a terminal entry is done, only a
  terminal one has a fault.  The wires of an edge are typed once, as a record, and
  each register's next value from it.
* `WindowInv` adds that the entry at each place of the window is valid and carries
  its own tag.  Tags are positions modulo the depth; the lemmas on distances from
  the head (`PositionOf` and its kin) turn them into positions `1 .. count` once,
  and `WindowAfter` says what an edge does to the window: the oldest leave,
  the rest stay, perhaps with their result, the newly dispatched follow.  All
  later proofs start from that sentence (`EdgeHolds` is an edge without reset) and
  never see the ring again.
* `SerialLast` (a serial entry is the youngest, `sys_pending` says whether there is
  one) and `BusyInv` (a busy register has one writer in flight, which `producer`
  names) are inductive over the window.  `BusyInv` needs `SerialLast`: a serial
  instruction has a destination but sets no busy bit.
* `PlaceInv` is `EachInOnePlace` with two facts it needs: the multiply and divide
  unit never works and holds a result at once, and a core that has ended has no
  entries (else a fault would leave some behind whose units were flushed).
* `BranchInv` adds that only a branch faults on its way, that an entry with a
  faulted branch is terminal, and, with the blocking policy, that the pending
  branch is the only one among the instructions in flight (wherever they are) and
  the youngest entry.  It is needed because a branch that resolves is recognised
  by its tag alone.
* `EndInv` adds, for the end of a program, that a terminal packet in the last
  frontend register or in the window has stopped the fetch unit, and that dispatch is
  closed behind a terminal entry.  So a program ends on an edge that leaves nothing
  behind it; `ChannelInv` gives the memory's side.
* `AlignedInv` says that whatever the core may redirect to is the address of a word:
  `mtvec`, `mepc` and the next address of the retired path, the pc of every packet,
  and the target of every taken branch that did not fault, as long as its result is on
  the way or its entry in the window.  The environment of `FetchMemory` redirects to
  words and to nothing else, so this makes the pipeline one of its
  environments (`PathStep`): every edge of the core is an edge of `FetchMemory`, and the
  theorems of `FetchMemoryProofs` become theorems about the core.
  `PathConstants` derives their assumptions from those of the core.
* `RenameInv` says that the entries given a register are those that write
  one, and `WellKept`: every physical register is free, committed or given,
  exactly once, and the speculative map is the committed one after the instructions
  in flight.  `WellKept` is stated of any stretch `lo + 1 .. hi` of a sequence of
  instructions, so an edge that retires two and dispatches two is taken one
  instruction at a time (`KeptRetires`, `KeptGives`), and a recovery is a stretch
  cut off (`KeptRestored`).  `RegistersConserved` follows by counting: the
  three kinds of register are disjoint and cover all.
* `WakeBase` adds the ready bits, and `WaitInv` that each waiting operand is
  *promised*: an instruction older than the waiting one has no result yet and
  writes the register the operand names.  Out of order the promise comes from the
  map and its ready bit, in order from `BusyInv`; an operand that becomes ready on
  the edge of its dispatch sees the same results as the queue.

These invariants say that the core keeps its books; `Base` is all of them together.
The next ones say what the books are about:

* `FrontTrue` and `WindowTrue`: a packet in the front end is the memory's word at its
  pc or what the decoder makes of it (`CodeAt`), and an entry of the window has the
  destination, the instruction, the cause and the end of the word at its pc, and no
  value or branch outcome before its result; `OpsTrue` says of a packet in a unit that
  its operation and offset are those of the word.
* `PathInv` adds that the addresses in flight are one path: the oldest entry is at
  `arch_next_pc`, each entry at the address its predecessor goes on to, and the
  front end, the fetch unit and the memory's answer follow the youngest, unless the
  core has ended or is about to.  A branch that waits for retirement is followed
  at its next word until it redirects.
* `Written`: out of order, the register bank holds the result of every finished
  instruction in flight under the physical register it was given; x0 reads as zero.
* `UnitHolds`: the multiply and divide unit works on the operands of the request it
  remembers.  It is `UnitInv` of `MulDivUnitProofs`, read in the core's variables:
  `MdOffers` instantiates its requests by the packets the cluster can send.
* `PacketsTrue` and `EntriesExact`: an operand that is ready holds what the last older
  writer of its register has computed, else the committed value; one that is not
  names the register that writer will write (`Supplied`); a packet in a unit has
  the inputs, and a result or a finished entry the value and the branch outcome,
  that the instruction set defines on them (`InputsAre`, `ExactAs`).

`ValueInv` is their conjunction.  "The value register `r` has before
place `k` of the window" is `Before`, a statement about the entries and the committed
registers and not about maps, tags or banks; the three ways an operand gets
its value (the bank, a result on its way past, a wakeup in the queue) are shown to
give that value in one lemma each, in order and out of order apart.

`CoreImplementsIsa` then follows an edge through its cases: a reset, an edge on which
nothing retires, one plain instruction, two of them (the second
reads what the first wrote), a CSR instruction, `MRET`, a trap (an exception or an
interrupt), and the end of the program, alone or behind a plain instruction.  `IsaInv`
adds to the invariants that a running core has no fault code.  In each
case `Machine`, the state of `Isa` read from the core, takes the step, or two in a row,
that the retirement outputs show; otherwise it stays.

`ReferenceProofs` proves of the reference CPU with its memory, at any latency and
with resets on any edge:

| theorem | statement |
|---|---|
| `ReferenceImplementsIsa` | `LockstepSpec => ReferenceImplemented` |

`ReferenceInv` says where the CPU and its memory are in an access: no request and a
quiet channel, a request for the instruction at the program counter, or an answer
to it awaited or held; so the answer that executes is the word at the pc.

The same module proves of the decoders, from `CanonicalAssumption` (a word is a set of
positions from 0 to 31) and for every set of words to start from:

| theorem | statement |
|---|---|
| `DecodersAlwaysAgree` | `WordSpec => []DecodersAgree` |

A flipped bit leaves a word a word, so the theorem is about words and not about
steps (`AllWordsAgree`).  What it needs of the fields is `Readable`: the function code
is one of eight, so that it indexes a table, and `ECALL`, `EBREAK` and `MRET` have
their opcode and function code.  The immediates, which the three put together with
shifts of their own, are shown equal bit by bit (`PlainImmediate`, `BranchOffset`).
`SystemcDecodes` then goes opcode by opcode: the SystemC CPU corrects fields of a
first reading, the RTL computes each field once.  `NamesLegal` and `NamesDecode` tie
the names of `Decode` to the bits, `ReferenceReads` the reference CPU to the names.

`MulDivUnitProofs` proves of the multiply and divide unit, at every word size and for
every set of requests, with flushes and refused results at any edge:

| theorem | statement |
|---|---|
| `MulDivExact` | `UnitSpec => []IterationExact` |
| `MulDivEdgeIsPortStep` | from `UnitInv`, `Edge(flush, out_ready)` is `Port!Step(flush, offered, out_ready)` |
| `MulDivImplementsPort` | `UnitSpec => PortImplemented /\ Port!PortSpec` |

`FollowingAssumption` and `RequestsAssumption` say what the requests are (the
cluster sends only multiplications and divisions, `lib/execution_cluster.sv:24`).
The invariant `UnitInv` is `IterationExact` with the types, the signs the
unit remembers (which the port needs for the final value, the loop does not) and
`ResultTaken`, that the unit works only with an empty output register, so
that a finished operation never overwrites a result.  The step of the
multiplication splits the multiplier at bit `k`, the step of the division splits the
dividend at bit `XLEN - k`; both are arithmetic about `2 ^ k` and `2 ^ (XLEN - k)`
as numbers with their product fixed (`MultiplyArithmetic`, `DivideArithmetic`).
After the last step the split is trivial, and `ProductSigns` and `QuotientSigns`
turn magnitudes into what `MulDivReference` says, division by zero and the
overflow included.

## 5. What is only model-checked

* `CoresAgree` and `TestPasses`, which compare whole machines edge by edge.  Both
  sides of `CoresAgree` are deterministic functions of the same inputs written in
  two styles; a proof would be some forty lemmas that equate operators block by block
  and would say nothing of the core that `CoreImplementsIsa` does not.
* All liveness (`Progress`, `RedirectDrains`, `StoppedBecomesIdle`,
  `PathProgresses`, `OperationFinishes`): liveness under fairness and `ENABLED` are
  out of the reach of the installed provers.

No module uses a RECURSIVE operator.  Induction over data is not needed: the loops
of the code are steps of the model, and their invariants are proved as such.

## 6. Differences between text and code

`docs/rtl_architecture.md:11-13` lists traps among what the RTL leaves out; it
predates the opt-in configuration that `README.md:14` and
`riscv_emulator/README.md:58` describe.  It is a matter of documentation that
no behaviour of the model contradicts, so no run is made of it.

The twins agree in every run.  One place looks as if they might not: the RTL
computes `imem_rsp_ready` from the interrupt line continuously, the SystemC CPU
only when `drive_outputs` runs.  A line that moves in between makes no difference,
because ready matters only while a request is outstanding, and then the fetched
word's register is empty, so that
ready is `outstanding` and does not depend on the interrupt at all: `CoreSingleRequest`
proves it of the RTL, and `trap_ooo` checks the twin (`BetweenEdgesSpec`).

## 7. What is not modelled

* **32-bit words**, and multiplication at 16 bits: TLC's integers are 32 bits
  wide.  The divider and the multiplier run on 4-bit words, for all operands.  The
  theorems of section 4 cover them.
* **Programs that are not a whole number of words**, and the argument checks of
  `load_program`, `set_timing` and the constructors, which throw.
* **Values without a valid bit.**  The data of an invalid register or output, the
  debug outputs and the C++ assertions.
* **Parts of the testbench**: the statistics of `observe()`, the waits for
  particular cycles, `filter_status` and the reserved memory statuses it lets
  through, the comparison of catalogues.  The reference CPU's interrupt line is a
  signal of its own in the tests; here it is driven together with the others'.
* **The scalar `RetirementScoreboard`**: no program or test instantiates it.
* **Test catalogues and component tests**: the assembled programs and the stimuli
  of single components are data; the model enumerates its own.  The adapter
  (`sim/rtl_adapter.h`) converts the types of ports; its order of evaluation is
  modelled, its conversions have no state.
* **Build scripts, containers, the SystemC example**: no state of interest.

## 8. Plan

Done: the fetch path with its refinement and proofs; the multiply and divide
unit; the whole pipeline in its four configurations with and without traps,
against the instruction set; reset of the running cores; the SystemC twin in
lockstep; the reference CPU's state machine; the core tests' scoreboards; the
decoders against each other; every invariant of the core proved for every
configuration; the core as an implementation of the fetch path's composition, and so
of the stream of one path; the loop and the port of the multiply and divide unit for
every word size; the values in flight; the core and the reference CPU as
implementations of the instruction set; the decoders on every word.

Next, in this order:

1. `CoresAgree` as a theorem: with `Joined`, the RTL core and its twin as one mapping
   of registers that every edge preserves, operator by operator.
2. `PacketQueue` as a bounded first-in first-out queue.
3. More than one interrupt; the single-issue core with traps; the out-of-order
   core with blocking branches and traps.
4. The encoders of the test assembler against `rtl_decode`.
