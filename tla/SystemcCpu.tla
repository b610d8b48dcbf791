----------------------------- MODULE SystemcCpu -----------------------------
(***************************************************************************)
(* The SystemC model of the same pipelines (riscv_emulator/src/            *)
(* rv32im_cpu.cpp): not a description of hardware but one function from    *)
(* the state before an edge to the state after it, in two parts.  Controls *)
(* decides from the state and the interrupt line what the edge does;       *)
(* advance does it.  The state is one record, struct Pipeline; a slot whose*)
(* valid flag is clear is Empty.                                           *)
(***************************************************************************)
EXTENDS IntegerAlu, MulDivReference, SequencesExt

CONSTANT FifoDepth

VARIABLES
  cpu,                  \* pipeline_
  irq_external,         \* the interrupt line
  imem_rsp_ready        \* the port drive_outputs writes that is not a field of cpu

Slot == 0 .. IqDepth - 1
Unit == 0 .. 2                  \* ALU 0, ALU 1, multiply and divide

MachineCsrs ==
  [mie |-> FALSE, mpie |-> FALSE, meie |-> FALSE,
   mtvec |-> 0, mscratch |-> 0, mepc |-> 0, mcause |-> 0, mtval |-> 0]

(* branch_tag is Empty unless branch_pending.                              *)
Pipeline ==
  LET identity == [r \in Arch |-> IF OUT_OF_ORDER THEN r ELSE 0]
  IN [sys_pending |-> FALSE, arch_next_pc |-> 0, csrs |-> MachineCsrs, branch_tag |-> Empty,
      redirect_pending |-> FALSE, restart_pc |-> 0, req_valid |-> FALSE, outstanding |-> FALSE,
      fetch_local_stopped |-> FALSE, fetch_stopped |-> FALSE, terminal_enqueued |-> FALSE,
      req_addr |-> 0, fetch_pc |-> 0, pending_pc |-> 0, fetched |-> Empty,
      fifo |-> <<>>, if2id |-> <<>>, id2dispatch |-> <<>>,
      iq |-> [s \in Slot |-> Empty], rob |-> [t \in RobTag |-> Empty],
      head |-> 0, tail |-> 0, count |-> 0,
      registers |-> [r \in Phys |-> 0], busy |-> {}, producer |-> [r \in Arch |-> 0],
      speculative_map |-> identity, committed_map |-> identity,
      free_register |-> IF OUT_OF_ORDER THEN Phys \ Arch ELSE {},
      ready_register |-> [r \in Phys |-> OUT_OF_ORDER],
      issue2ex |-> [p \in Lane |-> Empty], alu |-> [u \in Lane |-> Empty],
      md_output |-> Empty, md_busy |-> FALSE, md_step |-> 0, md_result |-> Empty,
      arbiter_next |-> 0, ex2wb |-> [p \in Lane |-> Empty], retired |-> <<>>,
      halted |-> FALSE, fault |-> FALSE, fault_code |-> FAULT_NONE]

-----------------------------------------------------------------------------
(* Control and status registers.                                           *)
known_csr == {"mstatus", "misa", "mie", "mtvec", "mscratch", "mepc", "mcause",
              "mtval", "mip", "mhartid"}
interrupt_enabled(csrs, irq) == csrs.mie /\ csrs.meie /\ irq

Flag(p, b) == IF p THEN 2 ^ b ELSE 0
read(csrs, address, irq) ==
  CASE address = "mstatus" -> (6144 + Flag(csrs.mpie, 7) + Flag(csrs.mie, 3)) % WordModulus
    [] address = "misa" -> 1073746176 % WordModulus
    [] address = "mie" -> Flag(csrs.meie, 11)
    [] address = "mip" -> Flag(irq, 11)
    [] address \in DOMAIN csrs \ {"mie"} -> csrs[address]
    [] OTHER -> 0

csr_writes(i) == i.op \in {"CSRRW", "CSRRWI"} \/ i.rs1 # 0
write(csrs, i, source, irq) ==
  LET operand == IF i.op \in {"CSRRWI", "CSRRSI", "CSRRCI"} THEN i.rs1 ELSE source
      old == read(csrs, i.csr, irq)
      value == CASE i.op \in {"CSRRW", "CSRRWI"} -> operand
                 [] i.op \in {"CSRRS", "CSRRSI"} -> IntegerValue("OR", old, operand)
                 [] OTHER -> IntegerValue("AND", old, WordModulus - 1 - operand)
  IN CASE ~csr_writes(i) -> csrs
       [] csr_writes(i) /\ i.csr = "mstatus" ->
            [csrs EXCEPT !.mie = Bit(value, 3) = 1, !.mpie = Bit(value, 7) = 1]
       [] csr_writes(i) /\ i.csr = "mie" -> [csrs EXCEPT !.meie = Bit(value, 11) = 1]
       [] csr_writes(i) /\ i.csr \in {"mtvec", "mepc"} ->
            [csrs EXCEPT ![i.csr] = value - (value % 4)]
       [] csr_writes(i) /\ i.csr \in {"mscratch", "mcause", "mtval"} ->
            [csrs EXCEPT ![i.csr] = value]
       [] OTHER -> csrs

trap(csrs, pc, cause, tval) ==
  [csrs EXCEPT !.mpie = csrs.mie, !.mie = FALSE, !.mepc = pc, !.mcause = cause, !.mtval = tval]
mret_keeps_mpie(csrs) == [csrs EXCEPT !.mie = csrs.mpie]
mret(csrs) == [csrs EXCEPT !.mie = csrs.mpie, !.mpie = TRUE]

-----------------------------------------------------------------------------
(* Decoding, at the level of module Decode's instruction records; the      *)
(* immediate of an entry that ends is never used and is 0 here.            *)
legal(i) ==
  \/ i.opcode = "OP-IMM" /\ i.op \in IntegerOps \ {"SUB"}
  \/ i.opcode = "OP" /\ i.op \in IntegerOps \cup MulOps \cup DivOps
  \/ i.opcode = "BRANCH" /\ i.op \in BranchOps
  \/ /\ i.opcode = "SYSTEM" /\ ENABLE_TRAPS
     /\ \/ i.op \in {"ECALL", "EBREAK", "MRET"}
        \/ /\ i.op \in {"CSRRW", "CSRRS", "CSRRC", "CSRRWI", "CSRRSI", "CSRRCI"}
           /\ i.csr \in known_csr /\ ~(i.csr = "mhartid" /\ csr_writes(i))

decode(f) ==
  LET i == f.instruction
      system == i.opcode = "SYSTEM"
      bare == i.op \in {"ECALL", "EBREAK", "MRET"}
      call == i.op \in {"ECALL", "EBREAK"}
      Ends(code, cause) ==
        [pc |-> f.pc, instruction |-> i, op |-> "ADD", rs1 |-> 0, rs2 |-> 0, rd |-> 0,
         immediate |-> 0, immediate_b |-> FALSE, terminal |-> TRUE, serial |-> FALSE,
         fault |-> code, trap_cause |-> cause]
  IN CASE f.status = "end" -> Ends(FAULT_NONE, 0)
       [] f.status \notin {"ok", "end"} -> Ends(FAULT_ACCESS, 1)
       [] f.status = "ok" /\ ~legal(i) -> Ends(FAULT_ILLEGAL, 2)
       [] OTHER ->
            [pc |-> f.pc, instruction |-> i, op |-> IF system THEN "ADD" ELSE i.op,
             rs1 |-> IF bare THEN 0 ELSE i.rs1,
             rs2 |-> IF i.opcode = "OP-IMM" \/ system THEN 0 ELSE i.rs2,
             rd |-> IF bare \/ i.opcode = "BRANCH" THEN 0 ELSE i.rd,
             immediate |-> i.imm, immediate_b |-> i.opcode = "OP-IMM",
             terminal |-> call, serial |-> system /\ ~call,
             fault |-> IF call THEN FAULT_ILLEGAL ELSE FAULT_NONE,
             trap_cause |-> IF i.op = "ECALL" THEN 11 ELSE IF i.op = "EBREAK" THEN 3 ELSE 0]

(* The result of an instruction, known as soon as it starts.               *)
execute(e) ==
  LET taken == BranchTaken(e.op, e.a, e.b)
      target == (e.meta.pc + e.branch_offset) % WordModulus
      misaligned == taken /\ target % 4 # 0
  IN [meta |-> e.meta,
      value |-> CASE e.meta.rd = 0 -> 0
                  [] e.meta.rd # 0 /\ is_muldiv(e.op) -> MulDivValue(e.op, e.a, e.b)
                  [] OTHER -> IntegerValue(e.op, e.a, e.b),
      branch |-> IF ~is_branch(e.op) THEN NoBranch
                 ELSE [valid |-> TRUE, taken |-> taken, target |-> target,
                       fault |-> IF misaligned THEN FAULT_MISALIGNED ELSE FAULT_NONE]]

-----------------------------------------------------------------------------
(* Controls, first part: traps, retirement, redirection, fetch.            *)
Taken_any_branch(e) == e # Empty /\ e.result.branch.valid
Taken(e) == e # Empty /\ e.result.branch.valid /\ e.result.branch.taken
HeadDone(p) == ~p.halted /\ ~p.fault /\ p.count # 0 /\ p.rob[p.head].done
TrapException(p) ==
  ENABLE_TRAPS /\ HeadDone(p) /\ p.rob[p.head].terminal /\ p.rob[p.head].fault # FAULT_NONE
TrapTaken_after_end(p, irq) ==
  TrapException(p) \/ (ENABLE_TRAPS /\ interrupt_enabled(p.csrs, irq))
TrapTaken(p, irq) ==
  \/ TrapException(p)
  \/ ENABLE_TRAPS /\ ~p.halted /\ ~p.fault /\ interrupt_enabled(p.csrs, irq)

RetireCount(p, trap_taken) ==
  LET first == p.rob[p.head]
      second == p.rob[(p.head + 1) % RobDepth]
      limit_retire == BRANCH_AT_RETIRE /\ (Taken(first) \/ Taken(second))
  IN IF trap_taken \/ ~HeadDone(p) \/ first.terminal THEN 0
     ELSE IF /\ ISSUE_WIDTH = 2 /\ p.count > 1 /\ second.done /\ ~limit_retire
             /\ ~first.serial /\ ~second.serial /\ ~second.terminal
          THEN 2 ELSE 1

TrapValues(p) ==
  LET e == p.rob[p.head]
      cause == IF e.trap_cause # 0 THEN e.trap_cause
               ELSE IF e.fault = FAULT_MISALIGNED THEN 0
               ELSE IF e.fault = FAULT_ACCESS THEN 1 ELSE 2
  IN IF ~TrapException(p)
     THEN [pc |-> p.arch_next_pc, cause |-> CAUSE_EXTERNAL, tval |-> 0]
     ELSE [pc |-> e.result.meta.pc, cause |-> cause,
           tval |-> IF e.fault = FAULT_MISALIGNED THEN e.result.branch.target
                    ELSE IF e.fault = FAULT_ACCESS THEN e.result.meta.pc
                    ELSE IF cause = 2 THEN e.instruction.bits ELSE 0]

HeadControls(p, trap_taken) ==
  LET idle == ~p.req_valid /\ ~p.outstanding /\ p.fetched = Empty /\ ~p.redirect_pending
  IN [trap_taken |-> trap_taken, retire_count |-> RetireCount(p, trap_taken),
      finish |-> /\ ~trap_taken /\ HeadDone(p) /\ p.rob[p.head].terminal /\ idle
                 /\ ~ENABLE_TRAPS \/ p.rob[p.head].fault = FAULT_NONE]

CommitControls(p, c, irq) ==
  LET e == p.rob[p.head]
      sys_retire == c.retire_count # 0 /\ e.serial
      mret_retires == e.instruction.op = "MRET"
  IN c @@ [sys_retire |-> sys_retire,
           mret_commit |-> ENABLE_TRAPS /\ sys_retire /\ mret_retires,
           csr_commit |-> ENABLE_TRAPS /\ sys_retire /\ ~mret_retires,
           system_value |-> IF sys_retire /\ ~mret_retires THEN read(p.csrs, e.instruction.csr, irq) ELSE 0,
           recovery |-> BRANCH_AT_RETIRE /\ ~c.finish /\ c.retire_count # 0 /\ Taken(e) /\ ~e.terminal]

WritebackControls(p, c) ==
  LET flush == c.finish \/ c.trap_taken \/ c.mret_commit \/ c.recovery
  IN c @@ [backend_flush |-> flush,
           wb |-> {l \in Lane : p.ex2wb[l] # Empty /\ ~flush /\ ~p.halted /\ ~p.fault}]

(* The result of the branch that blocks dispatch, if it is among those     *)
(* that are written back.                                                  *)
BranchControls(p, c) ==
  c @@ [branch_fault |-> \E l \in c.wb : p.ex2wb[l].branch.fault # FAULT_NONE,
        resolved |-> {l \in c.wb : /\ ~BRANCH_AT_RETIRE /\ p.branch_tag # Empty
                                   /\ p.ex2wb[l].meta.tag = p.branch_tag
                                   /\ p.ex2wb[l].branch.valid /\ p.ex2wb[l].branch.fault = FAULT_NONE}]

RedirectControls(p, c) ==
  LET leaving == {l \in c.resolved : p.ex2wb[l].branch.taken}
  IN c @@ [redirect |-> c.trap_taken \/ c.mret_commit \/ c.recovery \/ leaving # {},
           redirect_pc |-> IF c.trap_taken THEN p.csrs.mtvec
                           ELSE IF c.mret_commit THEN p.csrs.mepc
                           ELSE IF c.recovery THEN p.rob[p.head].result.branch.target
                           ELSE IF leaving = {} THEN 0
                           ELSE p.ex2wb[CHOOSE l \in leaving : TRUE].branch.target,
           stop |-> \/ p.fetch_stopped \/ c.branch_fault
                    \/ \E i \in DOMAIN p.if2id : decode(p.if2id[i]).terminal]

RetireControls(p, irq) ==
  RedirectControls(p, BranchControls(p, WritebackControls(p,
    CommitControls(p, HeadControls(p, TrapTaken(p, irq)), irq))))

rsp_ready(p, c) ==
  /\ p.outstanding
  /\ \/ c.stop \/ p.fetch_local_stopped \/ c.redirect \/ p.redirect_pending
     \/ p.fetched = Empty \/ Len(p.fifo) < FifoDepth

-----------------------------------------------------------------------------
(* Second part: dispatch.                                                  *)
Ends(d) == d.terminal \/ d.serial
Writer(d) == ~Ends(d) /\ d.rd # 0
Largest(S) == CHOOSE n \in S : \A m \in S : m <= n
Smallest(S) == CHOOSE n \in S : \A m \in S : n <= m

OfferCount(p, c) ==
  LET space == Cardinality({s \in Slot : p.iq[s] = Empty})
      room == Smallest({Len(p.id2dispatch), ISSUE_WIDTH, RobDepth - p.count, space})
      alone == /\ p.id2dispatch # <<>>
               /\ \/ p.id2dispatch[1].serial
                  \/ ~BRANCH_AT_RETIRE /\ is_branch(p.id2dispatch[1].op)
  IN IF \/ p.branch_tag # Empty \/ p.sys_pending
        \/ p.terminal_enqueued \/ p.halted \/ p.fault
        \/ c.backend_flush \/ c.redirect \/ c.branch_fault THEN 0
     ELSE IF alone THEN Lower(room, 1) ELSE room

(* The longest prefix of the offer that can go: nothing follows an entry   *)
(* that ends or is serial; out of order every writer finds a free register,*)
(* in order it finds its register without a writer.                        *)
available(p) ==
  LET free == p.free_register \ {0}
      r0 == Smallest(free)
  IN IF free = {} THEN <<>>
     ELSE IF free = {r0} THEN <<r0>> ELSE <<r0, Smallest(free \ {r0})>>

CanGo(p, n) ==
  LET d == p.id2dispatch
      writers == {k \in 1 .. n : Writer(d[k])}
  IN /\ \A k \in 1 .. n - 1 : ~Ends(d[k])
     /\ IF OUT_OF_ORDER THEN Cardinality(writers) <= Len(available(p))
        ELSE \A k \in writers : d[k].rd \notin p.busy /\ \A j \in writers : j < k => d[j].rd # d[k].rd

Constant(value) == [ready |-> TRUE, reg |-> 0, value |-> value]

PreparedOoo(p, n) ==
  LET d == p.id2dispatch
      free == available(p)
      Under(k, map, ready, reg) ==
        LET Read(r) == [ready |-> ready[map[r]], reg |-> map[r], value |-> p.registers[map[r]]]
        IN [op |-> d[k].op, branch_offset |-> d[k].immediate,
            meta |-> [pc |-> d[k].pc, rd |-> d[k].rd, tag |-> (p.tail + k - 1) % RobDepth,
                      pdst |-> IF Writer(d[k]) THEN reg ELSE 0,
                      old_pdst |-> IF Writer(d[k]) THEN map[d[k].rd] ELSE 0],
            a |-> Read(d[k].rs1),
            b |-> IF d[k].immediate_b THEN Constant(d[k].immediate) ELSE Read(d[k].rs2)]
      first == Under(1, p.speculative_map, p.ready_register, IF free = <<>> THEN 0 ELSE free[1])
  IN IF n = 0 THEN <<>>
     ELSE IF n = 1 THEN <<first>>
     ELSE IF ~Writer(d[1])
     THEN <<first, Under(2, p.speculative_map, p.ready_register, IF free = <<>> THEN 0 ELSE free[1])>>
     ELSE <<first, Under(2, [p.speculative_map EXCEPT ![d[1].rd] = free[1]],
                         [p.ready_register EXCEPT ![free[1]] = FALSE],
                         IF Len(free) < 2 THEN 0 ELSE free[2])>>

operand_unforwarded(p, r) ==
  IF r = 0 THEN Constant(0)
  ELSE [ready |-> r \notin p.busy, reg |-> r, value |-> p.registers[r]]
operand(p, r) ==
  LET e == p.rob[p.producer[r]]
      done == e # Empty /\ e.done
  IN IF r = 0 THEN Constant(0)
     ELSE IF r \notin p.busy THEN [ready |-> TRUE, reg |-> r, value |-> p.registers[r]]
     ELSE [ready |-> done, reg |-> r, value |-> IF e = Empty THEN 0 ELSE e.result.value]

PreparedInorder(p, n) ==
  LET d == p.id2dispatch
      Read(k, r) == IF k = 2 /\ r # 0 /\ r = d[1].rd /\ ~d[1].terminal
                    THEN [ready |-> FALSE, reg |-> r, value |-> 0] ELSE operand(p, r)
  IN [k \in 1 .. n |->
        [op |-> d[k].op, branch_offset |-> d[k].immediate,
         meta |-> [pc |-> d[k].pc, rd |-> d[k].rd, tag |-> (p.tail + k - 1) % RobDepth,
                   pdst |-> d[k].rd, old_pdst |-> 0],
         a |-> Read(k, d[k].rs1),
         b |-> IF d[k].immediate_b THEN Constant(d[k].immediate) ELSE Read(k, d[k].rs2)]]

-----------------------------------------------------------------------------
(* Third part: writeback grants, units, issue.  -1 of the code is Empty.   *)
UnitResult(p, u) == IF u = 2 THEN p.md_output ELSE p.alu[u]
FirstFrom(p, units) ==
  IF units = {} THEN Empty
  ELSE CHOOSE u \in units : \A v \in units : (u - p.arbiter_next) % 3 <= (v - p.arbiter_next) % 3
grants(p) ==
  LET finished == {u \in Unit : UnitResult(p, u) # Empty}
      g == FirstFrom(p, finished)
  IN <<g, FirstFrom(p, finished \ {g})>>

unit_ready(p, granted, u) ==
  /\ UnitResult(p, u) = Empty \/ u \in granted
  /\ IF u = 2 THEN ~p.md_busy ELSE u < ISSUE_WIDTH
ex_unit(p, granted) ==
  LET Lowest(l, used) ==
        LET able == {u \in Unit \ used : unit_ready(p, granted, u) /\ (u = 2 <=> is_muldiv(p.issue2ex[l].op))}
        IN IF p.issue2ex[l] = Empty \/ able = {} THEN Empty ELSE Smallest(able)
      u0 == Lowest(0, {})
  IN [l \in Lane |-> IF l = 0 THEN u0 ELSE Lowest(1, {u0})]

age_raw(p, s) == p.iq[s].meta.tag
age(p, s) == (p.iq[s].meta.tag - p.head) % RobDepth
OldestOf(p, slots) == CHOOSE s \in slots : \A t \in slots : age(p, s) <= age(p, t)
CanIssue(p, s, md_free) ==
  p.iq[s].a.ready /\ p.iq[s].b.ready /\ (is_muldiv(p.iq[s].op) => md_free)

(* Lane 1 after lane 0.  In order, only the oldest entry left may go, and  *)
(* one that cannot blocks the lanes that follow.                           *)
issue_index(p, c, ex, md_free) ==
  LET valid == {s \in Slot : p.iq[s] # Empty}
      open(l) == /\ l < ISSUE_WIDTH /\ (p.issue2ex[l] = Empty \/ ex[l] # Empty)
                 /\ ~c.backend_flush /\ ~p.halted /\ ~p.fault
      Choose(l, slots, free) ==
        LET able == {s \in (IF OUT_OF_ORDER \/ slots = {} THEN slots ELSE {OldestOf(p, slots)}) :
                       CanIssue(p, s, free)}
        IN IF open(l) /\ able # {} THEN OldestOf(p, able) ELSE Empty
      s0 == Choose(0, valid, md_free)
      blocked == ~OUT_OF_ORDER /\ open(0) /\ valid # {} /\ s0 = Empty
      md_left == md_free /\ (s0 # Empty => ~is_muldiv(p.iq[s0].op))
  IN [l \in Lane |-> IF l = 0 THEN s0
                     ELSE IF blocked THEN Empty ELSE Choose(1, valid \ {s0}, md_left)]

(* All of Controls: what RetireControls says, and the three other parts.   *)
DispatchControls(p, c, n) ==
  c @@ [dispatched |-> SubSeq(p.id2dispatch, 1, n),
        prepared |-> IF OUT_OF_ORDER THEN PreparedOoo(p, n) ELSE PreparedInorder(p, n),
        fifo_pop |-> Smallest({Len(p.fifo), 2, 2 - Len(p.if2id)}),
        id_pop |-> Lower(Len(p.if2id), 2 - Len(p.id2dispatch))]

IssueControls(p, c, granted) ==
  LET ex == ex_unit(p, granted)
      md_free == /\ unit_ready(p, granted, 2)
                 /\ \A l \in Lane : p.issue2ex[l] # Empty => ~is_muldiv(p.issue2ex[l].op)
  IN c @@ [ex_unit |-> ex, issue_index |-> issue_index(p, c, ex, md_free)]

ControlsAfter(p, c, granted) ==
  IssueControls(p, DispatchControls(p, c @@ [grants |-> granted],
                                    Largest({m \in 0 .. OfferCount(p, c) : CanGo(p, m)})),
                {granted[1], granted[2]})
Controls(p, irq) == ControlsAfter(p, RetireControls(p, irq), grants(p))

-----------------------------------------------------------------------------
(* advance: what an edge makes of the state p under the controls c.  Each  *)
(* part takes the state the parts before it have made, next, and changes   *)
(* the fields of its own lines; decisions are made from p and c only.      *)
SystemEdge(next, p, c, irq) ==
  LET e == p.rob[p.head]
      last == p.rob[(p.head + c.retire_count - 1) % RobDepth]
      rs1 == e.instruction.rs1
      source == p.registers[IF OUT_OF_ORDER THEN p.committed_map[rs1] ELSE rs1]
  IN [next EXCEPT
        !.csrs = IF c.trap_taken
                 THEN LET t == TrapValues(p) IN trap(@, t.pc, t.cause, t.tval)
                 ELSE IF c.mret_commit THEN mret(@)
                 ELSE IF c.csr_commit THEN write(@, e.instruction, source, irq) ELSE @,
        !.arch_next_pc = IF c.trap_taken THEN p.csrs.mtvec
                         ELSE IF c.mret_commit THEN p.csrs.mepc
                         ELSE IF c.retire_count = 0 THEN @
                         ELSE IF Taken(last) THEN last.result.branch.target
                         ELSE (last.result.meta.pc + 4) % WordModulus]

FetchEdge(next, p, c, req_ready, rsp) ==
  LET start == /\ ~p.req_valid /\ ~p.outstanding /\ p.fetched = Empty
               /\ ~c.stop /\ ~p.fetch_local_stopped /\ ~c.redirect /\ ~p.redirect_pending
      accepted == p.req_valid /\ req_ready
      answered == rsp.valid /\ rsp_ready(p, c)
      wanted == /\ answered
                /\ ~c.stop /\ ~p.fetch_local_stopped /\ ~c.redirect /\ ~p.redirect_pending
      restart == ~c.redirect /\ p.redirect_pending /\ ~p.req_valid /\ ~p.outstanding
  IN [next EXCEPT
        !.req_valid = ~accepted /\ (@ \/ start),
        !.req_addr = IF start THEN p.fetch_pc ELSE @,
        !.outstanding = ~answered /\ (@ \/ accepted),
        !.pending_pc = IF accepted THEN p.req_addr ELSE @,
        !.fetch_pc = IF restart THEN p.restart_pc
                     ELSE IF accepted THEN (@ + 4) % WordModulus ELSE @,
        !.fetched = IF wanted THEN [pc |-> p.pending_pc, instruction |-> rsp.data, status |-> rsp.status]
                    ELSE IF Len(p.fifo) < FifoDepth \/ c.stop \/ c.redirect THEN Empty ELSE @,
        !.fetch_local_stopped = ~c.redirect /\ (@ \/ c.stop \/ (wanted /\ rsp.status # "ok")),
        !.restart_pc = IF c.redirect THEN c.redirect_pc ELSE @,
        !.redirect_pending = c.redirect \/ (@ /\ ~restart)]

(* The ends of the path that were seen, the branch that blocks dispatch,   *)
(* the serial instruction in flight.                                       *)
PathEdge(next, p, c) ==
  LET n == Len(c.dispatched)
      ended == n > 0 /\ c.dispatched[n].terminal
      branches == {k \in 1 .. n : is_branch(c.dispatched[k].op)}
  IN [next EXCEPT
        !.fetch_stopped = ~c.redirect /\ (@ \/ c.stop),
        !.terminal_enqueued = ~c.redirect /\ (@ \/ ended \/ c.branch_fault),
        !.branch_tag =
          IF c.finish \/ c.trap_taken \/ c.mret_commit \/ c.resolved # {} THEN Empty
          ELSE IF BRANCH_AT_RETIRE \/ branches = {} THEN @
          ELSE c.prepared[Largest(branches)].meta.tag,
        !.sys_pending = /\ ~c.backend_flush /\ ~c.sys_retire
                        /\ @ \/ \E k \in 1 .. n : c.dispatched[k].serial]

FrontEdge(next, p, c) ==
  LET n == Len(c.dispatched)
      flush == (n > 0 /\ c.dispatched[n].terminal) \/ c.finish \/ c.redirect \/ c.branch_fault
      arrives == p.fetched # Empty /\ ~p.terminal_enqueued /\ Len(p.fifo) < FifoDepth
      After(q, k) == SubSeq(q, k + 1, Len(q))
  IN IF flush
     THEN [next EXCEPT !.fifo = <<>>, !.if2id = <<>>, !.id2dispatch = <<>>]
     ELSE [next EXCEPT
             !.fifo = After(@, c.fifo_pop) \o (IF arrives THEN <<p.fetched>> ELSE <<>>),
             !.if2id = After(@, c.id_pop) \o SubSeq(p.fifo, 1, c.fifo_pop),
             !.id2dispatch = After(@, n) \o [k \in 1 .. c.id_pop |-> decode(p.if2id[k])]]

(* The entries that retire, the older first.                               *)
RetireEdge(next, p, c) ==
  LET Value(e) == IF e.serial /\ e.result.meta.rd # 0 THEN c.system_value ELSE e.result.value
      RetireOne(s, e) ==
        LET m == e.result.meta
        IN IF m.rd = 0 THEN s
           ELSE IF e.serial
           THEN [s EXCEPT !.registers[IF OUT_OF_ORDER THEN p.committed_map[m.rd] ELSE m.rd] = c.system_value]
           ELSE IF OUT_OF_ORDER
           THEN [s EXCEPT !.free_register = @ \cup {m.old_pdst}, !.committed_map[m.rd] = m.pdst]
           ELSE [s EXCEPT !.registers[m.rd] = e.result.value, !.busy = @ \ {m.rd}]
      leaving == [k \in 1 .. c.retire_count |-> p.rob[(p.head + k - 1) % RobDepth]]
  IN [FoldLeft(RetireOne, next, leaving) EXCEPT
        !.retired = [k \in 1 .. c.retire_count |->
                       [pc |-> leaving[k].result.meta.pc, rd |-> leaving[k].result.meta.rd,
                        value |-> Value(leaving[k])]]]

FlushEdge(next, p, c) ==
  LET e == p.rob[p.head]
      fresh == Pipeline
      restore == OUT_OF_ORDER /\ (c.trap_taken \/ c.mret_commit \/ (BRANCH_AT_RETIRE /\ c.redirect))
  IN [next EXCEPT
        !.halted = IF c.finish THEN e.fault = FAULT_NONE ELSE @,
        !.fault = IF c.finish THEN e.fault # FAULT_NONE ELSE @,
        !.fault_code = IF c.finish THEN e.fault ELSE @,
        !.speculative_map = IF restore THEN p.committed_map ELSE @,
        !.free_register = IF restore THEN Phys \ ({0} \cup {p.committed_map[r] : r \in Arch}) ELSE @,
        !.ready_register = IF restore THEN fresh.ready_register ELSE @,
        !.iq = fresh.iq, !.rob = fresh.rob, !.head = 0, !.tail = 0, !.count = 0,
        !.busy = {}, !.producer = fresh.producer,
        !.issue2ex = fresh.issue2ex, !.alu = fresh.alu, !.ex2wb = fresh.ex2wb, !.arbiter_next = 0,
        !.md_output = Empty, !.md_busy = FALSE, !.md_step = 0, !.md_result = Empty]

(* Completion, retirement, then allocation of completion entries.          *)
CompleteOne(s, r) ==
  LET fault == r.branch.fault # FAULT_NONE
      done == [s EXCEPT !.rob[r.meta.tag].done = TRUE,
                        !.rob[r.meta.tag].result.value = r.value,
                        !.rob[r.meta.tag].result.branch = r.branch,
                        !.rob[r.meta.tag].terminal = @ \/ fault,
                        !.rob[r.meta.tag].fault = IF fault THEN r.branch.fault ELSE @]
  IN IF OUT_OF_ORDER /\ r.meta.rd # 0
     THEN [done EXCEPT !.registers[r.meta.pdst] = r.value, !.ready_register[r.meta.pdst] = TRUE]
     ELSE done

Allocate(s, d, meta) ==
  LET entry == [s EXCEPT !.rob[meta.tag] =
                  [done |-> Ends(d), terminal |-> d.terminal, serial |-> d.serial, fault |-> d.fault,
                   trap_cause |-> d.trap_cause, instruction |-> d.instruction,
                   result |-> [meta |-> meta, value |-> 0, branch |-> NoBranch]]]
  IN IF ~Writer(d) THEN entry
     ELSE IF OUT_OF_ORDER
     THEN [entry EXCEPT !.free_register = @ \ {meta.pdst}, !.ready_register[meta.pdst] = FALSE,
                        !.speculative_map[d.rd] = meta.pdst]
     ELSE [entry EXCEPT !.busy = @ \cup {d.rd}, !.producer[d.rd] = meta.tag]

Enqueue(queue, x) == [queue EXCEPT ![Smallest({s \in Slot : queue[s] = Empty})] = x]

Woken(o, results) ==
  LET Hears(r) == r.meta.rd # 0 /\ o.reg = (IF OUT_OF_ORDER THEN r.meta.pdst ELSE r.meta.rd)
      heard == {r \in results : Hears(r)}
  IN IF o.ready \/ heard = {} THEN o
     ELSE [o EXCEPT !.ready = TRUE, !.value = (CHOOSE r \in heard : TRUE).value]

CompletionEdge(next, p, c) ==
  LET n == Len(c.dispatched)
      completed == FoldLeft(CompleteOne, next, SetToSeq({p.ex2wb[l] : l \in c.wb}))
      gone == {(p.head + k) % RobDepth : k \in 0 .. c.retire_count - 1}
      cleared == [completed EXCEPT !.rob = [t \in RobTag |-> IF t \in gone THEN Empty ELSE @[t]]]
      allocated == FoldLeft(LAMBDA s, k : Allocate(s, c.dispatched[k], c.prepared[k].meta),
                            cleared, [k \in 1 .. n |-> k])
  IN [allocated EXCEPT !.head = (@ + c.retire_count) % RobDepth, !.tail = (@ + n) % RobDepth,
                       !.count = @ + n - c.retire_count]

QueueEdge(next, p, c) ==
  LET issued == {c.issue_index[l] : l \in Lane}
      kept == [s \in Slot |-> IF s \in issued THEN Empty ELSE p.iq[s]]
      n == Len(c.dispatched)
      entering == SubSeq(c.prepared, 1, IF n > 0 /\ Ends(c.dispatched[n]) THEN n - 1 ELSE n)
      queue == FoldLeft(Enqueue, kept, entering)
      results == {p.ex2wb[l] : l \in c.wb}
  IN [next EXCEPT !.iq = [s \in Slot |-> IF queue[s] = Empty THEN Empty
                            ELSE [queue[s] EXCEPT !.a = Woken(@, results), !.b = Woken(@, results)]]]

ExecutionEdge(next, p, c) ==
  LET Issued(s) == IF s = Empty THEN Empty
                   ELSE [meta |-> p.iq[s].meta, op |-> p.iq[s].op, a |-> p.iq[s].a.value,
                         b |-> p.iq[s].b.value, branch_offset |-> p.iq[s].branch_offset]
      granted == {c.grants[1], c.grants[2]}
      On(u) == {l \in Lane : c.ex_unit[l] = u}
      started(u) == IF On(u) = {} THEN Empty ELSE execute(p.issue2ex[CHOOSE l \in On(u) : TRUE])
      last == IF c.grants[2] # Empty THEN c.grants[2] ELSE c.grants[1]
      md_start == On(2) # {}
      md_last == ~md_start /\ p.md_busy /\ p.md_step = XLEN
  IN [next EXCEPT
        !.issue2ex = [l \in Lane |-> IF @[l] = Empty \/ c.ex_unit[l] # Empty
                                     THEN Issued(c.issue_index[l]) ELSE @[l]],
        !.alu = [u \in Lane |-> IF u < ISSUE_WIDTH /\ (@[u] = Empty \/ u \in granted)
                                THEN started(u) ELSE @[u]],
        !.md_output = IF md_last THEN p.md_result ELSE IF 2 \in granted THEN Empty ELSE @,
        !.md_busy = md_start \/ (@ /\ ~md_last),
        !.md_step = IF md_start THEN 0 ELSE IF p.md_busy /\ ~md_last THEN @ + 1 ELSE @,
        !.md_result = IF md_start THEN started(2) ELSE @,
        !.ex2wb = [l \in Lane |-> IF c.grants[l + 1] = Empty THEN Empty ELSE UnitResult(p, c.grants[l + 1])],
        !.arbiter_next = IF last = Empty THEN @ ELSE (last + 1) % 3]

advance(p, c, req_ready, rsp, irq) ==
  LET system == SystemEdge(p, p, c, irq)
      fetch == FetchEdge(system, p, c, req_ready, rsp)
      path == PathEdge(fetch, p, c)
      front == FrontEdge(path, p, c)
      retire == RetireEdge(front, p, c)
  IN IF c.backend_flush THEN FlushEdge(retire, p, c)
     ELSE ExecutionEdge(QueueEdge(CompletionEdge(retire, p, c), p, c), p, c)

-----------------------------------------------------------------------------
(* rsp_ready is a function of the state and the interrupt line, written by *)
(* drive_outputs each time the state has changed, and then only.           *)
drive_outputs(p, irq) == rsp_ready(p, RetireControls(p, irq))

CpuInit == cpu = Pipeline /\ imem_rsp_ready = drive_outputs(Pipeline, irq_external)

(* rsp is [valid, data, status]; the ports are read before the edge, the   *)
(* outputs driven after it.                                                *)
tick(reset, req_ready, rsp) ==
  /\ cpu' = IF reset THEN Pipeline
            ELSE advance(cpu, Controls(cpu, irq_external), req_ready, rsp, irq_external)
  /\ imem_rsp_ready' = drive_outputs(cpu', irq_external')
=============================================================================
