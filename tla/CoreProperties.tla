--------------------------- MODULE CoreProperties --------------------------
(***************************************************************************)
(* What must hold inside the pipeline on every clock edge.                 *)
(***************************************************************************)
EXTENDS CorePipeline

(* The entries in the completion queue, oldest first.                      *)
Window == [i \in 1 .. count |-> rob[(head + i - 1) % RobDepth]]
Writes(e) == e.meta.pdst # 0
Distance(tag) == (tag - head) % RobDepth       \* 0 for the oldest entry
WritersOf(r) == {i \in DOMAIN Window : Writes(Window[i]) /\ Window[i].meta.rd = r}
LastOf(S) == CHOOSE i \in S : \A j \in S : j <= i

(* Every instruction between dispatch and writeback, with the place it is. *)
InFlight ==
  {<<"iq", s, iq[s].meta>> : s \in Occupied}
    \cup {<<"ex", p, ex[p].meta>> : p \in {l \in Lane : ex[l] # Empty}}
    \cup {<<"alu", u, alu[u].meta>> : u \in {l \in Lane : alu[l] # Empty}}
    \cup (IF md.busy THEN {<<"md", 0, md.request.meta>>} ELSE {})
    \cup (IF md.out # Empty THEN {<<"md", 1, md.out.meta>>} ELSE {})
    \cup {<<"wb", p, wb[p].meta>> : p \in {l \in Lane : wb[l] # Empty}}

-----------------------------------------------------------------------------
(* No queue of the pipeline overflows or is popped empty                   *)
(* (lib/packet_queue.sv:38-42, lib/completion_queue.sv:56-58).             *)
QueuesBounded ==
  /\ head \in RobTag /\ count \in 0 .. RobDepth /\ tail = (head + count) % RobDepth
  /\ Len(fifo_q) \in 0 .. FifoDepth /\ Len(if_q) \in 0 .. 2 /\ Len(id_q) \in 0 .. 2

(* The types of the registers, by part of the pipeline.  A word taken from *)
(* the memory without error is an instruction of the program.              *)
FrontTypes ==
  /\ req_valid \in BOOLEAN /\ outstanding \in BOOLEAN /\ stopped \in BOOLEAN
  /\ redirect_pending \in BOOLEAN /\ out_valid \in BOOLEAN
  /\ req_addr \in Word /\ fetch_pc \in Word /\ pending_pc \in Word /\ restart_pc \in Word
  /\ out_valid => out_data \in fetch_t
  /\ fifo_q \in Seq(fetch_t) /\ if_q \in Seq(fetch_t) /\ id_q \in Seq(decode_t)
  /\ fetch_stopped \in BOOLEAN /\ terminal_enqueued \in BOOLEAN /\ sys_pending \in BOOLEAN
MemoryTypes ==
  /\ program \in Seq(instruction_t) /\ pending_address \in Word
  /\ mem_state \in Memory!MemState /\ mem_req_ready \in BOOLEAN
  /\ mem_rsp \in [valid : BOOLEAN, data : instruction_t \cup {NoWord},
                 status : {"ok", "end", "access_fault", "reserved"}]
  /\ mem_rsp.valid => /\ mem_rsp.status \in {"ok", "end", "access_fault"}
                      /\ mem_rsp.status = "ok" => mem_rsp.data \in instruction_t
RenameTypes ==
  /\ speculative_map \in [Arch -> Phys] /\ committed_map \in [Arch -> Phys]
  /\ free_q \subseteq Phys /\ ready_q \in [Phys -> BOOLEAN]
  /\ busy \subseteq Arch /\ producer \in [Arch -> RobTag]
ExecutionTypes ==
  /\ iq \in [Slot -> issue_t \cup {Empty}]
  /\ ex \in [Lane -> execute_t \cup {Empty}]
  /\ alu \in [Lane -> result_t \cup {Empty}] /\ wb \in [Lane -> result_t \cup {Empty}]
  /\ next_q \in Unit /\ MdTypes
RetireTypes ==
  /\ rob \in [RobTag -> rob_entry_t \cup {Empty}] /\ tail \in RobTag
  /\ pending \in RobTag \cup {Empty}
  /\ registers \in [RegisterWords -> Word] /\ arch_next_pc \in Word
  /\ csr \in CsrRegisters /\ irq_external \in BOOLEAN
  /\ halted \in BOOLEAN /\ fault \in BOOLEAN /\ fault_code \in FaultCode

TypeOK ==
  /\ QueuesBounded /\ FrontTypes /\ MemoryTypes /\ RenameTypes /\ ExecutionTypes /\ RetireTypes

(* The valid entries are the window from head to tail: tags that are used  *)
(* again never leave a hole or overlap (lib/completion_queue.sv:47-52).    *)
WindowContiguous ==
  /\ tail = (head + count) % RobDepth
  /\ {t \in RobTag : rob[t] # Empty} = {(head + i) % RobDepth : i \in 0 .. count - 1}
  /\ \A t \in RobTag : rob[t] # Empty => rob[t].meta.tag = t

(* Every entry that is not done is in exactly one place between the issue  *)
(* queue and writeback, as itself; nothing else is there.  This is what    *)
(* makes a tag name one instruction: a result is never lost, delivered     *)
(* twice, or delivered to a later user of its tag                          *)
(* (lib/completion_queue.sv:60-67, lib/issue_queue.sv:53-60).              *)
EachInOnePlace ==
  /\ \A a, b \in InFlight : a[3].tag = b[3].tag => a = b
  /\ \A a \in InFlight : LET e == rob[a[3].tag] IN e # Empty /\ ~e.done /\ e.meta = a[3]
  /\ \A t \in RobTag : rob[t] # Empty /\ ~rob[t].done => \E a \in InFlight : a[3].tag = t

(* The rename maps are in use.  A core that has stopped keeps what it       *)
(* discarded, without a recovery, until it is reset.                       *)
Renaming == OUT_OF_ORDER /\ ~halted /\ ~fault

(* The physical registers other than 0 are the free ones, the committed    *)
(* ones and those given to instructions in flight, each in one place: none *)
(* is lost and none is given twice, through retirement and recovery        *)
(* (control/free_list.sv:24-43, control/rename_control.sv:29-33).          *)
RegistersConserved ==
  Renaming =>
    LET committed == {committed_map[r] : r \in Arch \ {0}}
        given     == {Window[i].meta.pdst : i \in {j \in DOMAIN Window : Writes(Window[j])}}
    IN /\ free_q \cup committed \cup given = Phys \ {0}
       /\ Cardinality(free_q) + Cardinality(Arch \ {0})
            + Cardinality({j \in DOMAIN Window : Writes(Window[j])}) = PhysRegs - 1

(* The speculative map is the committed map after the instructions in      *)
(* flight, and each of them remembers the register it replaced.            *)
MapsReplay ==
  Renaming =>
    /\ \A r \in Arch : speculative_map[r] =
         IF WritersOf(r) = {} THEN committed_map[r]
         ELSE Window[LastOf(WritersOf(r))].meta.pdst
    /\ \A i \in DOMAIN Window : Writes(Window[i]) =>
         LET r == Window[i].meta.rd
             earlier == {j \in WritersOf(r) : j < i}
         IN Window[i].meta.old_pdst =
              IF earlier = {} THEN committed_map[r] ELSE Window[LastOf(earlier)].meta.pdst

(* A physical register is not ready exactly while the instruction it was   *)
(* given to has no result.                                                 *)
ReadyBitsExact ==
  Renaming =>
    \A p \in Phys : ~ready_q[p] <=>
      \E i \in DOMAIN Window : Window[i].meta.pdst = p /\ p # 0 /\ ~Window[i].done

(* In order: a register is busy exactly while it has a writer in flight,   *)
(* it has one such writer, and producer names it                           *)
(* (control/inorder_operands.sv:58-61,66-80).                              *)
BusyExact ==
  ~OUT_OF_ORDER =>
    \A r \in Arch \ {0} :
      LET writers == {i \in DOMAIN Window : Window[i].meta.rd = r /\ ~Window[i].serial}
      IN /\ r \in busy <=> writers # {}
         /\ Cardinality(writers) <= 1
         /\ \A i \in writers : producer[r] = Window[i].meta.tag

(* An operand that waits, waits for an older instruction whose result is   *)
(* still to come: no wakeup is missed, even when dispatch and writeback    *)
(* meet on one edge (lib/issue_queue.sv:30-44).                            *)
NoMissedWakeup ==
  \A s \in Occupied : \A o \in {iq[s].a, iq[s].b} :
    ~o.ready => \E e \in {Window[i] : i \in DOMAIN Window} :
                  /\ ~e.done /\ e.meta.rd # 0 /\ e.meta.pdst = o.tag
                  /\ Distance(e.meta.tag) < Distance(iq[s].meta.tag)

(* A serial instruction is the youngest in flight and sys_pending says that*)
(* there is one; so when it retires nothing else is in flight, and its use *)
(* of register write port 0 displaces no other write                       *)
(* (core_pipeline.sv:150-155,222-227).                                     *)
SerialAlone ==
  /\ sys_pending <=> \E i \in DOMAIN Window : Window[i].serial
  /\ \A i \in DOMAIN Window : Window[i].serial => i = count
  /\ (count > 0 /\ Window[1].serial) => InFlight = {}

(* Blocking policy: the branch that blocks dispatch is the youngest entry  *)
(* and has no result, or has faulted                                       *)
(* (control/branch_control_blocking.sv:36-51).                             *)
PendingBranchYoungest ==
  ~BRANCH_AT_RETIRE =>
    /\ pending # Empty =>
         /\ count > 0 /\ Window[count].meta.tag = pending
         /\ Window[count].done => Window[count].branch.fault # FAULT_NONE

(* Once the program has ended nothing is in flight anywhere, the fetch unit*)
(* included: the memory channel is quiet (lib/retire_unit.sv:22-23).       *)
QuietAfterEnd ==
  halted \/ fault =>
    /\ count = 0 /\ InFlight = {} /\ id_q = <<>> /\ if_q = <<>> /\ fifo_q = <<>>
    /\ Fetch!idle /\ mem_state = "AcceptingRequest"
    /\ ~(halted /\ fault)

-----------------------------------------------------------------------------
(* In order, an instruction leaves the issue queue only with everything    *)
(* older (control/inorder_scheduler.sv:25-43).                             *)
Stays(s) == iq'[s] # Empty /\ iq'[s].meta = iq[s].meta
IssueInOrder ==
  [][ ~OUT_OF_ORDER =>
        \A s, t \in Occupied : Stays(s) /\ ~Stays(t) => Distance(iq[t].meta.tag) < Distance(iq[s].meta.tag) ]_vars

(* The pipeline never stalls for good: again and again it retires or takes *)
(* a trap, or the program has ended.                                       *)
Progress == []<>(retired # <<>> \/ trap_taken \/ halted \/ fault)
=============================================================================
