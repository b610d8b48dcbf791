--------------------------- MODULE CoreIsaProofs ----------------------------
(***************************************************************************)
(* The pipeline implements the instruction set: what retires, traps or     *)
(* ends the program on an edge is a step of the reference CPU.             *)
(***************************************************************************)
EXTENDS CoreProgramProofs

-----------------------------------------------------------------------------
(* The instruction set computes what the units do.                         *)
LEMMA IsaValue ==
  ASSUME NEW op, NEW a, NEW b
  PROVE  /\ Architecture!Value(op, a, b) = Computed(op, a, b)
         /\ Architecture!IntegerValue(op, a, b) = IntegerValue(op, a, b)
         /\ Architecture!BranchTaken(op, a, b) = BranchTaken(op, a, b)
<1>1. Architecture!WordModulus = WordModulus /\ MdUnit!WordModulus = WordModulus
  BY DEF Architecture!WordModulus, WordModulus, MdUnit!WordModulus
<1>2. \A v : Architecture!Signed(v) = Signed(v) /\ MdUnit!Signed(v) = Signed(v)
  BY <1>1 DEF Architecture!Signed, Signed, MdUnit!Signed, Architecture!Negative, Negative,
     MdUnit!Negative, Architecture!Bit, Bit, MdUnit!Bit
<1>3. Architecture!MulDivValue(op, a, b) = MdUnit!MulDivValue(op, a, b)
  <2>1. \A i, j : Architecture!Quotient(i, j) = MdUnit!Quotient(i, j)
    BY DEF Architecture!Quotient, MdUnit!Quotient, Architecture!Abs, MdUnit!Abs
  <2>2. \A i : Architecture!HighWord(i) = MdUnit!HighWord(i)
    BY <1>1 DEF Architecture!HighWord, MdUnit!HighWord
  <2> QED
    BY <1>1, <1>2, <2>1, <2>2 DEF Architecture!MulDivValue, MdUnit!MulDivValue
<1>4. Architecture!IntegerValue(op, a, b) = IntegerValue(op, a, b)
  BY <1>1, <1>2 DEF Architecture!IntegerValue, IntegerValue, Architecture!BoolWord, BoolWord,
     Architecture!Sra, Sra, Architecture!ShiftAmount, ShiftAmount, Architecture!WordOfBits, WordOfBits,
     Architecture!XorBits, XorBits, Architecture!OrBits, OrBits, Architecture!AndBits, AndBits,
     Architecture!Bit, Bit
<1>5. Architecture!is_muldiv(op) <=> is_muldiv(op)
  BY DEF Architecture!is_muldiv, is_muldiv, Architecture!MulOps, MulOps, Architecture!DivOps, DivOps
<1>6. Architecture!BranchTaken(op, a, b) = BranchTaken(op, a, b)
  BY <1>2 DEF Architecture!BranchTaken, BranchTaken
<1> QED
  BY <1>3, <1>4, <1>5, <1>6 DEF Architecture!Value, Computed

(* Its fault and cause codes are the pipeline's.                           *)
LEMMA IsaCodes ==
  /\ Architecture!WordModulus = WordModulus
  /\ Architecture!FAULT_NONE = FAULT_NONE /\ Architecture!FAULT_ILLEGAL = FAULT_ILLEGAL
  /\ Architecture!FAULT_ACCESS = FAULT_ACCESS /\ Architecture!FAULT_MISALIGNED = FAULT_MISALIGNED
  /\ Architecture!CAUSE_INSTR_MISALIGNED = CAUSE_INSTR_MISALIGNED
  /\ Architecture!CAUSE_INSTR_ACCESS = CAUSE_INSTR_ACCESS
  /\ Architecture!CAUSE_ILLEGAL = CAUSE_ILLEGAL
  /\ Architecture!CAUSE_BREAKPOINT = CAUSE_BREAKPOINT
  /\ Architecture!CAUSE_ECALL_M = CAUSE_ECALL_M
  /\ Architecture!CAUSE_EXTERNAL = CAUSE_EXTERNAL
  /\ Architecture!IntegerOps = IntegerOps /\ Architecture!MulOps = MulOps
  /\ Architecture!DivOps = DivOps /\ Architecture!BranchOps = BranchOps
BY DEF Architecture!WordModulus, WordModulus, Architecture!FAULT_NONE, FAULT_NONE,
   Architecture!FAULT_ILLEGAL, FAULT_ILLEGAL, Architecture!FAULT_ACCESS, FAULT_ACCESS,
   Architecture!FAULT_MISALIGNED, FAULT_MISALIGNED,
   Architecture!CAUSE_INSTR_MISALIGNED, CAUSE_INSTR_MISALIGNED,
   Architecture!CAUSE_INSTR_ACCESS, CAUSE_INSTR_ACCESS, Architecture!CAUSE_ILLEGAL, CAUSE_ILLEGAL,
   Architecture!CAUSE_BREAKPOINT, CAUSE_BREAKPOINT, Architecture!CAUSE_ECALL_M, CAUSE_ECALL_M,
   Architecture!CAUSE_EXTERNAL, CAUSE_EXTERNAL, Architecture!IntegerOps, IntegerOps,
   Architecture!MulOps, MulOps, Architecture!DivOps, DivOps, Architecture!BranchOps, BranchOps

(* It fetches what the memory holds.                                       *)
LEMMA IsaFetch ==
  ASSUME NEW m
  PROVE  /\ Architecture!Fetched(m) = FetchedAt(m.pc).status
         /\ FetchedAt(m.pc).status = "ok" => FetchedAt(m.pc).instruction = program[m.pc \div 4 + 1]
         /\ FetchedAt(m.pc).status \in {"ok", "end", "access_fault"}
BY DEF Architecture!Fetched, FetchedAt, Memory!ReadWord

(* The address a word of code D ends the program or faults with.           *)
TrapValue(D) ==
  IF D.fault = FAULT_ACCESS THEN D.pc
  ELSE IF D.fault = FAULT_ILLEGAL /\ D.trap_cause = CAUSE_ILLEGAL THEN D.instruction.bits ELSE 0

(* What does not decode ends the program, or faults.                       *)
LEMMA IsaTerminal ==
  ASSUME NEW m, NEW D, D = CodeAt(m.pc), D.terminal
  PROVE  /\ D.fault = FAULT_NONE =>
              Architecture!StepOf(m) = Architecture!NoRetire([m EXCEPT !.halted = TRUE])
         /\ D.fault # FAULT_NONE =>
              /\ D.trap_cause # 0
              /\ Architecture!StepOf(m) =
                   Architecture!NoRetire(Architecture!raise_fault(m, D.fault, D.trap_cause, TrapValue(D)))
<1> DEFINE f == FetchedAt(m.pc)
           i == f.instruction
           s == f.status
<1>1. /\ Architecture!Fetched(m) = s /\ (s = "ok" => program[m.pc \div 4 + 1] = i)
      /\ s \in {"ok", "end", "access_fault"} /\ f.pc = m.pc
  BY IsaFetch, CodePlace
<1>2. D = rv32_decode(f)
  BY DEF CodeAt
<1>3. Architecture!StepOf(m) = Architecture!Answer(m, s, program[m.pc \div 4 + 1])
  BY <1>1 DEF Architecture!StepOf
<1> HIDE DEF s, i, f
<1>4. CASE s = "end"
  <2>1. D = Terminal(f, FAULT_NONE, 0)
    BY <1>2, <1>4 DEF rv32_decode, s
  <2>2. D.fault = FAULT_NONE
    BY <2>1 DEF Terminal
  <2> QED
    BY <1>3, <1>4, <2>2 DEF Architecture!Answer
<1>5. CASE s = "access_fault"
  <2>1. D = Terminal(f, FAULT_ACCESS, CAUSE_INSTR_ACCESS)
    BY <1>2, <1>5 DEF rv32_decode, s
  <2>2. D.fault = FAULT_ACCESS /\ D.trap_cause = CAUSE_INSTR_ACCESS /\ D.pc = m.pc
    BY <1>1, <2>1 DEF Terminal
  <2>3. Architecture!StepOf(m) = Architecture!NoRetire(Architecture!raise_fault(m, FAULT_ACCESS, CAUSE_INSTR_ACCESS, m.pc))
    BY <1>3, <1>5, IsaCodes DEF Architecture!Answer
  <2> QED
    BY <2>2, <2>3 DEF TrapValue, FAULT_ACCESS, FAULT_NONE, CAUSE_INSTR_ACCESS
<1>6. CASE s = "ok"
  <2>1. Architecture!StepOf(m) = Architecture!execute(m, i)
    BY <1>1, <1>3, <1>6 DEF Architecture!Answer
  <2>2. CASE ~legal(i)
    <3>1. D = Terminal(f, FAULT_ILLEGAL, CAUSE_ILLEGAL)
      BY <1>2, <1>6, <2>2 DEF rv32_decode, s, i
    <3>2. D.fault = FAULT_ILLEGAL /\ D.trap_cause = CAUSE_ILLEGAL /\ D.instruction = i
      BY <3>1 DEF Terminal, i
    <3>3. Architecture!execute(m, i) = Architecture!Illegal(m, i)
      <4>1. CASE i.opcode = "SYSTEM"
        <5>1. Architecture!execute(m, i) = Architecture!System(m, i)
          BY <4>1 DEF Architecture!execute
        <5>2. CASE ~ENABLE_TRAPS
          BY <5>1, <5>2 DEF Architecture!System
        <5>3. CASE ENABLE_TRAPS /\ i.op \notin CsrOps
          BY <2>2, <4>1, <5>1, <5>3 DEF Architecture!System, legal, CsrOps
        <5>4. CASE ENABLE_TRAPS /\ i.op \in CsrOps
          <6>1. Architecture!System(m, i) = Architecture!Csr(m, i)
            BY <5>4 DEF Architecture!System, CsrOps
          <6> QED
            BY <2>2, <4>1, <5>1, <5>4, <6>1 DEF Architecture!Csr, legal, CsrOps, KnownCsr, csr_write
        <5> QED
          BY <5>2, <5>3, <5>4
      <4>2. CASE i.opcode # "SYSTEM"
        BY <2>2, <4>2, IsaCodes DEF Architecture!execute, legal
      <4> QED
        BY <4>1, <4>2
    <3> QED
      BY <2>1, <3>2, <3>3, IsaCodes
      DEF TrapValue, FAULT_ACCESS, FAULT_NONE, FAULT_ILLEGAL, CAUSE_ILLEGAL, Architecture!Illegal
  <2>3. CASE legal(i)
    <3>1. i.op \in {"ECALL", "EBREAK"}
      BY <1>2, <1>6, <2>3 DEF rv32_decode, Legal, s, i
    <3>2. i.opcode = "SYSTEM" /\ ENABLE_TRAPS
      BY <2>3, <3>1 DEF legal, IntegerOps, MulOps, DivOps, BranchOps
    <3>3. D = IF i.op = "ECALL" THEN Terminal(f, FAULT_ILLEGAL, CAUSE_ECALL_M)
              ELSE Terminal(f, FAULT_ILLEGAL, CAUSE_BREAKPOINT)
      BY <1>2, <1>6, <2>3, <3>1 DEF rv32_decode, s, i
    <3>4. /\ D.fault = FAULT_ILLEGAL
          /\ D.trap_cause = IF i.op = "ECALL" THEN CAUSE_ECALL_M ELSE CAUSE_BREAKPOINT
      BY <3>3 DEF Terminal
    <3>5. TrapValue(D) = 0 /\ D.trap_cause # 0
      BY <3>4 DEF TrapValue, FAULT_ILLEGAL, FAULT_ACCESS, CAUSE_ILLEGAL, CAUSE_ECALL_M, CAUSE_BREAKPOINT
    <3>6. Architecture!execute(m, i) = Architecture!NoRetire(Architecture!Trap(m, D.trap_cause, 0))
      BY <3>1, <3>2, <3>4, IsaCodes DEF Architecture!execute, Architecture!System
    <3> QED
      BY <2>1, <3>2, <3>4, <3>5, <3>6 DEF Architecture!raise_fault, FAULT_ILLEGAL, FAULT_NONE
  <2> QED
    BY <2>2, <2>3
<1> QED
  BY <1>1, <1>4, <1>5, <1>6

(* A word that decodes to no end of the program is a legal instruction,    *)
(* and its fields are the decoded ones.                                    *)
LEMMA DecodeLegal ==
  ASSUME NEW f, f.status \in {"ok", "end", "access_fault"}, NEW D, D = rv32_decode(f), ~D.terminal,
         NEW i, i = f.instruction
  PROVE  /\ f.status = "ok" /\ legal(i) /\ i.op \notin {"ECALL", "EBREAK"}
         /\ D.instruction = i /\ D.immediate = i.imm
         /\ D.op = (IF i.opcode = "SYSTEM" THEN "ADD" ELSE i.op)
         /\ D.rs1 = (IF i.op = "MRET" THEN 0 ELSE i.rs1)
         /\ D.rs2 = (IF i.opcode \in {"OP", "BRANCH"} THEN i.rs2 ELSE 0)
         /\ D.rd = (IF i.op = "MRET" \/ i.opcode = "BRANCH" THEN 0 ELSE i.rd)
         /\ (D.immediate_b <=> i.opcode = "OP-IMM") /\ (D.serial <=> i.opcode = "SYSTEM")
<1>1. \A g, c : Terminal(f, g, c).terminal
  BY DEF Terminal
<1>2. f.status = "ok"
  <2>1. f.status # "end"
    BY <1>1 DEF rv32_decode
  <2>2. f.status # "access_fault"
    BY <1>1 DEF rv32_decode
  <2> QED
    BY <2>1, <2>2
<1>3. legal(i)
  BY <1>1, <1>2 DEF rv32_decode
<1>4. i.op # "ECALL" /\ i.op # "EBREAK"
  <2>1. i.op # "ECALL"
    BY <1>1, <1>2, <1>3 DEF rv32_decode
  <2>2. i.op # "EBREAK"
    BY <1>1, <1>2, <1>3 DEF rv32_decode
  <2> QED
    BY <2>1, <2>2
<1>5. D = Legal(f)
  BY <1>2, <1>3, <1>4 DEF rv32_decode
<1>6. /\ D.instruction = i /\ D.immediate = i.imm
      /\ D.op = (IF i.opcode = "SYSTEM" THEN "ADD" ELSE i.op)
      /\ D.rs2 = (IF i.opcode \in {"OP", "BRANCH"} THEN i.rs2 ELSE 0)
  BY <1>5 DEF Legal
<1>7. /\ D.rs1 = (IF i.op = "MRET" THEN 0 ELSE i.rs1)
      /\ D.rd = (IF i.op = "MRET" \/ i.opcode = "BRANCH" THEN 0 ELSE i.rd)
  BY <1>4, <1>5 DEF Legal
<1>8. D.immediate_b = (i.opcode = "OP-IMM")
  BY <1>5 DEF Legal
<1>9. D.serial = (i.opcode = "SYSTEM")
  BY <1>5 DEF Legal
<1> QED
  BY <1>2, <1>3, <1>4, <1>6, <1>7, <1>8, <1>9

(* What the instruction set makes of a branch.                             *)
LEMMA IsaBranch ==
  ASSUME NEW m, NEW i, i.opcode = "BRANCH", i.op \in BranchOps,
         NEW taken, taken = BranchTaken(i.op, m.x[i.rs1], m.x[i.rs2]),
         NEW q, q = (m.pc + i.imm) % WordModulus
  PROVE  Architecture!execute(m, i) =
           IF taken /\ q % 4 # 0
           THEN Architecture!NoRetire(Architecture!raise_fault(m, FAULT_MISALIGNED, CAUSE_INSTR_MISALIGNED, q))
           ELSE Architecture!Retire(m, 0, 0, IF taken THEN q ELSE (m.pc + 4) % WordModulus)
<1>1. Architecture!execute(m, i) = Architecture!Branch(m, i)
  BY IsaCodes DEF Architecture!execute
<1>2. Architecture!BranchTaken(i.op, m.x[i.rs1], m.x[i.rs2]) = taken
  BY IsaValue
<1>3. /\ Architecture!WordModulus = WordModulus /\ Architecture!FAULT_MISALIGNED = FAULT_MISALIGNED
      /\ Architecture!CAUSE_INSTR_MISALIGNED = CAUSE_INSTR_MISALIGNED
  BY IsaCodes
<1>4. CASE taken
  BY <1>1, <1>2, <1>3, <1>4 DEF Architecture!Branch, Architecture!NextOf
<1>5. CASE ~taken
  BY <1>1, <1>2, <1>3, <1>5 DEF Architecture!Branch, Architecture!NextOf
<1> QED
  BY <1>4, <1>5

(* And of the other instructions that compute.                             *)
LEMMA IsaComputes ==
  ASSUME NEW m, NEW i, legal(i), i.opcode \in {"OP-IMM", "OP"}, NEW a, a = m.x[i.rs1],
         NEW b, b = IF i.opcode = "OP-IMM" THEN i.imm ELSE m.x[i.rs2]
  PROVE  Architecture!execute(m, i) = Architecture!Retire(m, i.rd, Computed(i.op, a, b), (m.pc + 4) % WordModulus)
<1>1. Architecture!NextOf(m) = (m.pc + 4) % WordModulus
  BY IsaCodes DEF Architecture!NextOf
<1>2. Architecture!Value(i.op, a, b) = Computed(i.op, a, b)
  BY IsaValue
<1>3. /\ Architecture!IntegerOps = IntegerOps /\ Architecture!MulOps = MulOps
      /\ Architecture!DivOps = DivOps
  BY IsaCodes
<1>4. CASE i.opcode = "OP-IMM"
  <2>1. i.op \in IntegerOps \ {"SUB"}
    BY <1>4 DEF legal
  <2>2. Architecture!execute(m, i) =
          Architecture!Retire(m, i.rd, Architecture!Value(i.op, m.x[i.rs1], i.imm), Architecture!NextOf(m))
    BY <1>3, <1>4, <2>1 DEF Architecture!execute
  <2> QED
    BY <1>1, <1>2, <1>4, <2>2
<1>5. CASE i.opcode = "OP"
  <2>1. i.op \in IntegerOps \cup MulOps \cup DivOps
    BY <1>5 DEF legal
  <2>2. Architecture!execute(m, i) =
          Architecture!Retire(m, i.rd, Architecture!Value(i.op, m.x[i.rs1], m.x[i.rs2]), Architecture!NextOf(m))
    BY <1>3, <1>5, <2>1 DEF Architecture!execute
  <2> QED
    BY <1>1, <1>2, <1>5, <2>2
<1> QED
  BY <1>4, <1>5

(* r is what a word that decodes, and is not serial, computes on a machine *)
(* m from the inputs a and b; and what the instruction set does then.      *)
PlainAt(m, D, a, b, t, r) ==
  /\ D = CodeAt(m.pc) /\ ~D.terminal /\ ~D.serial /\ a = m.x[D.rs1]
  /\ b = (IF D.immediate_b THEN D.immediate ELSE m.x[D.rs2])
  /\ t.pc = m.pc /\ t.rd = D.rd /\ r = Outcome(D, t, a, b)
PlainStep(m, D, r) ==
  /\ r.branch.fault # FAULT_NONE =>
       /\ r.branch.fault = FAULT_MISALIGNED
       /\ Architecture!StepOf(m) =
            Architecture!NoRetire(Architecture!raise_fault(m, FAULT_MISALIGNED,
                                    CAUSE_INSTR_MISALIGNED, r.branch.target))
  /\ r.branch.fault = FAULT_NONE =>
       Architecture!StepOf(m) =
         Architecture!Retire(m, D.rd, r.value,
           IF r.branch.valid /\ r.branch.taken THEN r.branch.target ELSE (m.pc + 4) % WordModulus)
  /\ r.branch.valid => D.rd = 0

(* The instruction set executes an instruction that neither branches nor   *)
(* is serial as PlainStep says.                                            *)
LEMMA IsaPlain ==
  ASSUME NEW m, NEW D, NEW a, NEW b, NEW t, NEW r, PlainAt(m, D, a, b, t, r)
  PROVE  PlainStep(m, D, r)
<1> DEFINE f == FetchedAt(m.pc)
           i == f.instruction
           s == f.status
           n == (m.pc + 4) % WordModulus
<1>1. /\ D = CodeAt(m.pc) /\ ~D.terminal /\ ~D.serial /\ a = m.x[D.rs1]
      /\ b = (IF D.immediate_b THEN D.immediate ELSE m.x[D.rs2])
      /\ t.pc = m.pc /\ t.rd = D.rd /\ r = Outcome(D, t, a, b)
  BY DEF PlainAt
<1>2. /\ Architecture!Fetched(m) = s /\ (s = "ok" => program[m.pc \div 4 + 1] = i)
      /\ s \in {"ok", "end", "access_fault"}
  BY IsaFetch, CodePlace
<1>3. D = rv32_decode(f)
  BY <1>1 DEF CodeAt
<1>4. Architecture!StepOf(m) = Architecture!Answer(m, s, program[m.pc \div 4 + 1])
  BY <1>2 DEF Architecture!StepOf
<1> HIDE DEF s, i, f
<1>5. /\ s = "ok" /\ legal(i) /\ D.immediate = i.imm
      /\ D.op = (IF i.opcode = "SYSTEM" THEN "ADD" ELSE i.op)
      /\ D.rs1 = (IF i.op = "MRET" THEN 0 ELSE i.rs1)
      /\ D.rs2 = (IF i.opcode \in {"OP", "BRANCH"} THEN i.rs2 ELSE 0)
      /\ D.rd = (IF i.op = "MRET" \/ i.opcode = "BRANCH" THEN 0 ELSE i.rd)
      /\ (D.immediate_b <=> i.opcode = "OP-IMM") /\ (D.serial <=> i.opcode = "SYSTEM")
  BY <1>1, <1>2, <1>3, DecodeLegal DEF s, i
<1>6. Architecture!StepOf(m) = Architecture!execute(m, i)
  BY <1>2, <1>4, <1>5 DEF Architecture!Answer
<1>7. i.opcode # "SYSTEM" /\ D.op = i.op /\ D.immediate = i.imm
  BY <1>1, <1>5
<1>8. \/ i.opcode = "BRANCH" /\ i.op \in BranchOps
      \/ i.opcode \in {"OP-IMM", "OP"} /\ i.op \in IntegerOps \cup MulOps \cup DivOps
  BY <1>5, <1>7 DEF legal
<1>9. i.op # "MRET" /\ (is_branch(i.op) <=> i.opcode = "BRANCH")
  <2>1. \A op \in BranchOps : op # "MRET" /\ is_branch(op)
    BY DEF BranchOps, is_branch
  <2>2. \A op \in IntegerOps \cup MulOps \cup DivOps : op # "MRET" /\ ~is_branch(op)
    BY DEF BranchOps, is_branch, IntegerOps, MulOps, DivOps
  <2> QED
    BY <1>8, <2>1, <2>2
<1>10. /\ a = m.x[i.rs1] /\ (i.opcode \in {"OP", "BRANCH"} => b = m.x[i.rs2])
       /\ (i.opcode = "OP-IMM" => b = i.imm) /\ (i.opcode # "BRANCH" => D.rd = i.rd)
       /\ (i.opcode = "BRANCH" => D.rd = 0)
  BY <1>1, <1>5, <1>7, <1>9
<1> HIDE DEF n
<1>11. CASE i.opcode = "BRANCH"
  <2> DEFINE taken == BranchTaken(i.op, a, b)
             q == (m.pc + i.imm) % WordModulus
             code == IF MisalignedBranch(taken, q) THEN FAULT_MISALIGNED ELSE FAULT_NONE
  <2>1. r.branch = [valid |-> TRUE, taken |-> taken, target |-> q, fault |-> code]
    BY <1>1, <1>7, <1>9, <1>11 DEF Outcome, AluResult
  <2>2. D.rd = 0 /\ taken = BranchTaken(i.op, m.x[i.rs1], m.x[i.rs2]) /\ i.op \in BranchOps
    BY <1>8, <1>10, <1>11
  <2>3. q = (m.pc + i.imm) % WordModulus
    OBVIOUS
  <2>4. MisalignedBranch(taken, q) <=> taken /\ q % 4 # 0
    BY DEF MisalignedBranch
  <2> HIDE DEF taken, q
  <2>5. Architecture!StepOf(m) =
          IF taken /\ q % 4 # 0
          THEN Architecture!NoRetire(Architecture!raise_fault(m, FAULT_MISALIGNED, CAUSE_INSTR_MISALIGNED, q))
          ELSE Architecture!Retire(m, 0, 0, IF taken THEN q ELSE n)
    BY <1>6, <1>11, <2>2, <2>3, IsaBranch DEF n
  <2>6. r.branch.valid /\ r.branch.taken = taken /\ r.branch.target = q /\ r.branch.fault = code
    <3> HIDE DEF code
    <3> QED
      BY <2>1
  <2>7. r.value = 0
    BY <1>1, <2>2 DEF Outcome
  <2>8. CASE taken /\ q % 4 # 0
    BY <2>2, <2>4, <2>5, <2>6, <2>8 DEF PlainStep, FAULT_MISALIGNED, FAULT_NONE
  <2>9. CASE ~(taken /\ q % 4 # 0)
    <3>1. Architecture!StepOf(m) = Architecture!Retire(m, 0, 0, IF taken THEN q ELSE n)
      BY <2>5, <2>9
    <3>2. r.branch.fault = FAULT_NONE
      BY <2>4, <2>6, <2>9
    <3> QED
      BY <2>2, <2>6, <2>7, <3>1, <3>2 DEF PlainStep, n
  <2> QED
    BY <2>8, <2>9
<1>12. CASE i.opcode \in {"OP-IMM", "OP"}
  <2>1. r.branch = NoBranch
    BY <1>1, <1>7, <1>9, <1>12 DEF Outcome, AluResult
  <2>2. r.value = (IF i.rd = 0 THEN 0 ELSE Computed(i.op, a, b)) /\ D.rd = i.rd
    BY <1>1, <1>7, <1>10, <1>12 DEF Outcome
  <2>3. a = m.x[i.rs1] /\ b = IF i.opcode = "OP-IMM" THEN i.imm ELSE m.x[i.rs2]
    BY <1>10, <1>12
  <2>4. Architecture!StepOf(m) = Architecture!Retire(m, i.rd, Computed(i.op, a, b), n)
    BY <1>5, <1>6, <1>12, <2>3, IsaComputes DEF n
  <2>5. \A v : Architecture!Retire(m, i.rd, v, n) = Architecture!Retire(m, i.rd, IF i.rd = 0 THEN 0 ELSE v, n)
    BY DEF Architecture!Retire
  <2>6. Architecture!StepOf(m) = Architecture!Retire(m, D.rd, r.value, n)
    BY <2>2, <2>4, <2>5
  <2>7. r.branch.fault = FAULT_NONE /\ ~r.branch.valid
    BY <2>1 DEF NoBranch
  <2> QED
    BY <2>6, <2>7 DEF PlainStep, n
<1> QED
  BY <1>8, <1>11, <1>12

-----------------------------------------------------------------------------
(* A CSR instruction that decodes names a CSR, and may read it; the others *)
(* that are serial return from a trap.                                     *)
LEMMA SerialLegal ==
  ASSUME NEW a, NEW D, D = CodeAt(a), ~D.terminal, D.serial, NEW i, i = D.instruction
  PROVE  /\ FetchedAt(a).status = "ok" /\ program[a \div 4 + 1] = i /\ i.opcode = "SYSTEM"
         /\ ENABLE_TRAPS
         /\ i.op = "MRET" \/ (i.op \in CsrOps /\ i.csr \in KnownCsr /\ ~(i.csr = "mhartid" /\ csr_write(i)))
         /\ D.rd = (IF i.op = "MRET" THEN 0 ELSE i.rd) /\ D.rs1 = (IF i.op = "MRET" THEN 0 ELSE i.rs1)
<1>1. /\ FetchedAt(a).status \in {"ok", "end", "access_fault"}
      /\ FetchedAt(a).status = "ok" => FetchedAt(a).instruction = program[a \div 4 + 1]
  <2> DEFINE q == [pc |-> a]
  <2>1. q.pc = a
    OBVIOUS
  <2> HIDE DEF q
  <2> QED
    BY <2>1, IsaFetch
<1>2. D = rv32_decode(FetchedAt(a))
  BY DEF CodeAt
<1> DEFINE f == FetchedAt(a)
<1>3. f.status \in {"ok", "end", "access_fault"} /\ D = rv32_decode(f)
  BY <1>1, <1>2
<1> HIDE DEF f
<1>4. /\ f.status = "ok" /\ legal(i) /\ i.opcode = "SYSTEM" /\ i = f.instruction
      /\ i.op \notin {"ECALL", "EBREAK"}
      /\ D.rd = (IF i.op = "MRET" \/ i.opcode = "BRANCH" THEN 0 ELSE i.rd)
      /\ D.rs1 = (IF i.op = "MRET" THEN 0 ELSE i.rs1)
  <2> DEFINE j == f.instruction
             s == f.status
  <2>1. s \in {"ok", "end", "access_fault"}
    BY <1>3
  <2>2. D = rv32_decode(f)
    BY <1>3
  <2>3. D.instruction = j
    BY <2>1, <2>2, DecodeLegal
  <2>4. s = "ok" /\ j.op \notin {"ECALL", "EBREAK"}
    BY <2>1, <2>2, DecodeLegal
  <2>6. legal(j)
    BY <2>1, <2>2, DecodeLegal
  <2>7. j.opcode = "SYSTEM"
    BY <2>1, <2>2, DecodeLegal
  <2>5. /\ D.rd = (IF j.op = "MRET" \/ j.opcode = "BRANCH" THEN 0 ELSE j.rd)
        /\ D.rs1 = (IF j.op = "MRET" THEN 0 ELSE j.rs1)
    BY <2>1, <2>2, DecodeLegal
  <2> QED
    BY <2>3, <2>4, <2>5, <2>6, <2>7
<1>5. i.opcode = "SYSTEM"
  BY <1>4
<1>6. /\ ENABLE_TRAPS
      /\ i.op = "MRET" \/ (i.op \in CsrOps /\ i.csr \in KnownCsr /\ ~(i.csr = "mhartid" /\ csr_write(i)))
  BY <1>4, <1>5 DEF legal
<1> QED
  BY <1>1, <1>4, <1>5, <1>6 DEF f

(* The instruction set reads and writes the CSRs as the pipeline does.     *)
LEMMA IsaReads ==
  ASSUME NEW m, m.csr = csr, NEW c \in KnownCsr
  PROVE  Architecture!read_csr(m, c) = csr_read(c, irq_external)
<1>1. Architecture!WordModulus = WordModulus
  BY IsaCodes
<1>2. \A p, b : Architecture!AsFlag(p, b) = Flag(p, b)
  BY DEF Architecture!AsFlag, Flag
<1>3. CASE c \in {"mstatus", "misa", "mie", "mip", "mhartid"}
  BY <1>1, <1>2, <1>3 DEF Architecture!read_csr, csr_read, RV32IM_MISA
<1>4. CASE c \in {"mtvec", "mscratch", "mepc", "mcause", "mtval"}
  <2>1. Architecture!read_csr(m, c) = csr[c]
    BY <1>4 DEF Architecture!read_csr
  <2>2. csr_read(c, irq_external) = csr[c]
    BY <1>4 DEF csr_read
  <2> QED
    BY <2>1, <2>2
<1> QED
  BY <1>3, <1>4 DEF KnownCsr

(* What a CSR write of the instruction set leaves in the machine.          *)
LEMMA IsaWrites ==
  ASSUME csr \in CsrRegisters, NEW m, NEW x, NEW pc, NEW h, NEW g, NEW k,
         m = [x |-> x, pc |-> pc, csr |-> csr, halted |-> h, fault |-> g, fault_code |-> k],
         NEW c \in KnownCsr, NEW v
  PROVE  Architecture!write_csr(m, c, v)
           = [x |-> x, pc |-> pc, csr |-> WrittenCsr(c, v), halted |-> h, fault |-> g, fault_code |-> k]
<1>1. \A b : Architecture!Bit(v, b) = Bit(v, b)
  BY DEF Architecture!Bit, Bit
<1>2. CASE c \in {"mstatus", "mie"}
  BY <1>1, <1>2 DEF Architecture!write_csr, WrittenCsr, CsrRegisters
<1>3. CASE c \in {"mtvec", "mepc"}
  BY <1>3 DEF Architecture!write_csr, WrittenCsr, CsrRegisters, Aligned
<1>4. CASE c \in {"mscratch", "mcause", "mtval"}
  BY <1>4 DEF Architecture!write_csr, WrittenCsr, CsrRegisters
<1>5. CASE c \in {"misa", "mip", "mhartid"}
  BY <1>5 DEF Architecture!write_csr, WrittenCsr, CsrRegisters
<1> QED
  BY <1>2, <1>3, <1>4, <1>5 DEF KnownCsr

(* The programmer's machine written out as a record, and the two kinds of  *)
(* serial step on it.                                                      *)
MachineOf(x, pc, c, h, g, k) ==
  [x |-> x, pc |-> pc, csr |-> c, halted |-> h, fault |-> g, fault_code |-> k]
SerialAt(m, x, pc, h, g, k, D) ==
  /\ m = MachineOf(x, pc, csr, h, g, k) /\ D = CodeAt(pc) /\ ~D.terminal /\ D.serial
MretStep(m, x, pc, h, g, k, D) ==
  D.instruction.op = "MRET" =>
    /\ D.rd = 0
    /\ Architecture!StepOf(m) =
         Architecture!Retire(MachineOf(x, pc, [csr EXCEPT !.mie = csr.mpie, !.mpie = TRUE], h, g, k),
                             0, 0, csr.mepc)
CommittedCsr(i, source) ==
  IF csr_written(i)
  THEN WrittenCsr(i.csr, csr_new_value(i, csr_read(i.csr, irq_external), csr_operand(i, source)))
  ELSE csr
WriteStep(m, x, pc, h, g, k, D) ==
  D.instruction.op # "MRET" =>
    /\ D.rd = D.instruction.rd /\ D.rs1 = D.instruction.rs1
    /\ Architecture!StepOf(m) =
         Architecture!Retire(
           MachineOf(x, pc, CommittedCsr(D.instruction, x[D.instruction.rs1]), h, g, k),
           D.instruction.rd, csr_read(D.instruction.csr, irq_external), (pc + 4) % WordModulus)

(* A serial word returns from a trap or reads a CSR and perhaps writes it. *)
LEMMA IsaSerial ==
  ASSUME csr \in CsrRegisters, NEW m, NEW x, NEW pc, NEW h, NEW g, NEW k, NEW D,
         SerialAt(m, x, pc, h, g, k, D)
  PROVE  MretStep(m, x, pc, h, g, k, D) /\ WriteStep(m, x, pc, h, g, k, D)
<1> DEFINE i == D.instruction
<1>7. /\ m = [x |-> x, pc |-> pc, csr |-> csr, halted |-> h, fault |-> g, fault_code |-> k]
      /\ D = CodeAt(pc) /\ ~D.terminal /\ D.serial /\ i = D.instruction
  BY DEF SerialAt, MachineOf
<1> USE <1>7
<1> HIDE DEF i
<1>1. /\ FetchedAt(pc).status = "ok" /\ program[pc \div 4 + 1] = i /\ i.opcode = "SYSTEM"
      /\ ENABLE_TRAPS
      /\ i.op = "MRET" \/ (i.op \in CsrOps /\ i.csr \in KnownCsr /\ ~(i.csr = "mhartid" /\ csr_write(i)))
      /\ D.rd = (IF i.op = "MRET" THEN 0 ELSE i.rd) /\ D.rs1 = (IF i.op = "MRET" THEN 0 ELSE i.rs1)
  BY SerialLegal
<1>2. m.pc = pc /\ m.csr = csr /\ m.x = x
  OBVIOUS
<1>3. Architecture!StepOf(m) = Architecture!execute(m, i)
  <2>1. Architecture!Fetched(m) = "ok"
    BY <1>1, <1>2, IsaFetch
  <2> QED
    BY <1>1, <1>2, <2>1 DEF Architecture!StepOf, Architecture!Answer
<1>4. Architecture!execute(m, i) = Architecture!System(m, i)
  BY <1>1 DEF Architecture!execute
<1>5. CASE i.op = "MRET"
  <2>1. Architecture!System(m, i) = Architecture!Mret(m)
    BY <1>1, <1>5 DEF Architecture!System
  <2>2. [m EXCEPT !.csr.mie = m.csr.mpie, !.csr.mpie = TRUE]
          = [x |-> x, pc |-> pc, csr |-> [csr EXCEPT !.mie = csr.mpie, !.mpie = TRUE],
             halted |-> h, fault |-> g, fault_code |-> k]
    <3> DEFINE c1 == [csr EXCEPT !.mie = csr.mpie]
               m1 == [x |-> x, pc |-> pc, csr |-> c1, halted |-> h, fault |-> g, fault_code |-> k]
    <3>1. [m EXCEPT !.csr.mie = m.csr.mpie] = m1
      OBVIOUS
    <3>2. [c1 EXCEPT !.mpie = TRUE] = [csr EXCEPT !.mie = csr.mpie, !.mpie = TRUE]
      OBVIOUS
    <3>5. c1 \in CsrRegisters
      BY DEF CsrRegisters
    <3> DEFINE c2 == [c1 EXCEPT !.mpie = TRUE]
    <3> HIDE DEF c1
    <3>3. [m1 EXCEPT !.csr.mpie = TRUE]
            = [x |-> x, pc |-> pc, csr |-> c2, halted |-> h, fault |-> g, fault_code |-> k]
      <4>1. ASSUME NEW b
            PROVE  [m1 EXCEPT !.csr.mpie = b]
                     = [x |-> x, pc |-> pc, csr |-> [c1 EXCEPT !.mpie = b],
                        halted |-> h, fault |-> g, fault_code |-> k]
        BY <3>5 DEF CsrRegisters
      <4> HIDE DEF m1
      <4> QED
        BY <4>1
    <3> HIDE DEF m1, c2
    <3>4. [m EXCEPT !.csr.mie = m.csr.mpie, !.csr.mpie = TRUE]
            = [[m EXCEPT !.csr.mie = m.csr.mpie] EXCEPT !.csr.mpie = TRUE]
      OBVIOUS
    <3> QED
      BY <3>1, <3>2, <3>3, <3>4 DEF c2
  <2>3. Architecture!Mret(m) = Architecture!Retire(
          [x |-> x, pc |-> pc, csr |-> [csr EXCEPT !.mie = csr.mpie, !.mpie = TRUE],
           halted |-> h, fault |-> g, fault_code |-> k], 0, 0, csr.mepc)
    BY <1>2, <2>2 DEF Architecture!Mret
  <2>4. D.rd = 0 /\ Architecture!StepOf(m) = Architecture!Retire(
          [x |-> x, pc |-> pc, csr |-> [csr EXCEPT !.mie = csr.mpie, !.mpie = TRUE],
           halted |-> h, fault |-> g, fault_code |-> k], 0, 0, csr.mepc)
    BY <1>1, <1>3, <1>4, <1>5, <2>1, <2>3
  <2> QED
    BY <1>5, <2>4 DEF MretStep, WriteStep, MachineOf, i
<1>6. CASE i.op # "MRET"
  <2>1. i.op \in CsrOps /\ i.csr \in KnownCsr /\ ~(i.csr = "mhartid" /\ csr_write(i))
    BY <1>1, <1>6
  <2>2. Architecture!System(m, i) = Architecture!Csr(m, i)
    BY <1>1, <2>1 DEF Architecture!System, CsrOps
  <2> DEFINE old == csr_read(i.csr, irq_external)
             src == csr_operand(i, x[i.rs1])
             new == csr_new_value(i, old, src)
  <2>3. Architecture!read_csr(m, i.csr) = old
    BY <1>2, <2>1, IsaReads
  <2>4. (i.op \in {"CSRRW", "CSRRWI"} \/ i.rs1 # 0) <=> csr_written(i)
    BY <2>1 DEF csr_written, CsrOps
  <2>5. csr_write(i) <=> csr_written(i)
    BY <2>4 DEF csr_write
  <2>6. (IF i.op \in {"CSRRWI", "CSRRSI", "CSRRCI"} THEN i.rs1 ELSE m.x[i.rs1]) = src
    BY <1>2 DEF csr_operand
  <2> HIDE DEF old, src
  <2> DEFINE reg == IF i.op \in {"CSRRWI", "CSRRSI", "CSRRCI"} THEN i.rs1 ELSE m.x[i.rs1]
             val == CASE i.op \in {"CSRRW", "CSRRWI"} -> reg
                      [] i.op \in {"CSRRS", "CSRRSI"} ->
                           Architecture!IntegerValue("OR", Architecture!read_csr(m, i.csr), reg)
                      [] i.op \in {"CSRRC", "CSRRCI"} ->
                           Architecture!IntegerValue("AND", Architecture!read_csr(m, i.csr),
                                                     Architecture!WordModulus - 1 - reg)
             writes == i.op \in {"CSRRW", "CSRRWI"} \/ i.rs1 # 0
  <2>7. val = new
    <3>1. \A u, v : Architecture!IntegerValue("OR", u, v) = IntegerValue("OR", u, v)
                   /\ Architecture!IntegerValue("AND", u, v) = IntegerValue("AND", u, v)
      BY IsaValue
    <3>2. Architecture!WordModulus = WordModulus
      BY IsaCodes
    <3>3. reg = src
      BY <2>6
    <3> HIDE DEF reg
    <3> QED
      BY <2>1, <2>3, <3>1, <3>2, <3>3 DEF csr_new_value, CsrOps
  <2>13. Architecture!Csr(m, i) =
          IF ~(i.csr \in KnownCsr) \/ (i.csr = "mhartid" /\ writes) THEN Architecture!Illegal(m, i)
          ELSE Architecture!Retire(IF writes THEN Architecture!write_csr(m, i.csr, val) ELSE m, i.rd,
                                   Architecture!read_csr(m, i.csr), Architecture!NextOf(m))
    BY DEF Architecture!Csr, KnownCsr
  <2> HIDE DEF val, writes, reg
  <2> HIDE DEF new
  <2>8. Architecture!write_csr(m, i.csr, new)
           = [x |-> x, pc |-> pc, csr |-> WrittenCsr(i.csr, new), halted |-> h, fault |-> g, fault_code |-> k]
    BY <2>1, IsaWrites
  <2>9. Architecture!NextOf(m) = (pc + 4) % WordModulus
    BY <1>2, IsaCodes DEF Architecture!NextOf
  <2> DEFINE after == IF csr_written(i) THEN Architecture!write_csr(m, i.csr, new) ELSE m
  <2>10. Architecture!Csr(m, i) = Architecture!Retire(after, i.rd, old, (pc + 4) % WordModulus)
    <3>1. writes <=> csr_written(i)
      BY <2>4 DEF writes
    <3>2. (IF writes THEN Architecture!write_csr(m, i.csr, val) ELSE m) = after
      BY <2>7, <3>1
    <3>3. i.csr \in KnownCsr /\ ~(i.csr = "mhartid" /\ writes)
      BY <2>1, <2>5, <3>1
    <3> HIDE DEF after
    <3> QED
      BY <2>3, <2>9, <2>13, <3>2, <3>3
  <2>11. after = [x |-> x, pc |-> pc, csr |-> IF csr_written(i) THEN WrittenCsr(i.csr, new) ELSE csr,
                  halted |-> h, fault |-> g, fault_code |-> k]
    BY <2>8
  <2> HIDE DEF after
  <2>12. D.rd = i.rd /\ D.rs1 = i.rs1
    BY <1>1, <1>6
  <2>14. Architecture!StepOf(m) = Architecture!Retire(
           [x |-> x, pc |-> pc, csr |-> IF csr_written(i) THEN WrittenCsr(i.csr, new) ELSE csr,
            halted |-> h, fault |-> g, fault_code |-> k], i.rd, old, (pc + 4) % WordModulus)
    BY <1>3, <1>4, <2>2, <2>10, <2>11
  <2>15. CommittedCsr(i, x[i.rs1]) = IF csr_written(i) THEN WrittenCsr(i.csr, new) ELSE csr
    BY DEF CommittedCsr, new, src, old
  <2>16. Architecture!StepOf(m) =
           Architecture!Retire(MachineOf(x, pc, CommittedCsr(i, x[i.rs1]), h, g, k), i.rd, old,
                               (pc + 4) % WordModulus)
    BY <2>14, <2>15 DEF MachineOf
  <2> QED
    BY <1>6, <2>12, <2>16 DEF MretStep, WriteStep, i, old
<1> QED
  BY <1>5, <1>6

-----------------------------------------------------------------------------
(* The steps of the instruction set on that machine.                       *)
LEMMA RetireIs ==
  ASSUME NEW x, NEW pc, NEW c, NEW h, NEW g, NEW k, NEW rd, NEW v, NEW n
  PROVE  Architecture!Retire(MachineOf(x, pc, c, h, g, k), rd, v, n)
           = [m |-> MachineOf([x EXCEPT ![rd] = IF rd = 0 THEN 0 ELSE v], n, c, h, g, k),
              retired |-> <<[pc |-> pc, rd |-> rd, value |-> IF rd = 0 THEN 0 ELSE v]>>]
<1> DEFINE u == IF rd = 0 THEN 0 ELSE v
           M == MachineOf(x, pc, c, h, g, k)
<1>1. M.pc = pc
  BY DEF MachineOf
<1>2. [M EXCEPT !.x[rd] = u, !.pc = n] = MachineOf([x EXCEPT ![rd] = u], n, c, h, g, k)
  <2> HIDE DEF u
  <2>1. [M EXCEPT !.x[rd] = u] = MachineOf([x EXCEPT ![rd] = u], pc, c, h, g, k)
    BY DEF MachineOf
  <2>2. \A z : [MachineOf(z, pc, c, h, g, k) EXCEPT !.pc = n] = MachineOf(z, n, c, h, g, k)
    BY DEF MachineOf
  <2>3. [M EXCEPT !.x[rd] = u, !.pc = n] = [[M EXCEPT !.x[rd] = u] EXCEPT !.pc = n]
    OBVIOUS
  <2> QED
    BY <2>1, <2>2, <2>3
<1> HIDE DEF u, M
<1>3. Architecture!Retire(M, rd, v, n) = [m |-> [M EXCEPT !.x[rd] = u, !.pc = n],
                                          retired |-> <<[pc |-> M.pc, rd |-> rd, value |-> u]>>]
  BY DEF Architecture!Retire, u
<1> QED
  BY <1>1, <1>2, <1>3 DEF M, u

(* What a trap leaves in the CSRs.                                         *)
Trapped(c, pc, cause, tval) ==
  [c EXCEPT !.mpie = c.mie, !.mie = FALSE, !.mepc = pc, !.mcause = cause, !.mtval = tval]

(* What a trap of the instruction set leaves in the machine.               *)
LEMMA TrapIs ==
  ASSUME NEW x, NEW pc \in Word, NEW c \in CsrRegisters, NEW h, NEW g, NEW k,
         NEW cause \in Word, NEW tval \in Word
  PROVE  Architecture!Trap(MachineOf(x, pc, c, h, g, k), cause, tval)
           = MachineOf(x, c.mtvec, Trapped(c, pc, cause, tval), h, g, k)
<1> DEFINE M == MachineOf(x, pc, c, h, g, k)
<1>1. M.pc = pc /\ M.csr = c
  BY DEF MachineOf
<1> DEFINE P1(m, b) == [m EXCEPT !.csr.mpie = b]
           P2(m, b) == [m EXCEPT !.csr.mie = b]
           P3(m, b) == [m EXCEPT !.csr.mepc = b]
           P4(m, b) == [m EXCEPT !.csr.mcause = b]
           P5(m, b) == [m EXCEPT !.csr.mtval = b]
           P6(m, b) == [m EXCEPT !.pc = b]
           S1(e, b) == [e EXCEPT !.mpie = b]
           S2(e, b) == [e EXCEPT !.mie = b]
           S3(e, b) == [e EXCEPT !.mepc = b]
           S4(e, b) == [e EXCEPT !.mcause = b]
           S5(e, b) == [e EXCEPT !.mtval = b]
<1>2. ASSUME NEW q, NEW e \in CsrRegisters, NEW b
      PROVE  /\ P1(MachineOf(x, q, e, h, g, k), b) = MachineOf(x, q, S1(e, b), h, g, k)
             /\ P2(MachineOf(x, q, e, h, g, k), b) = MachineOf(x, q, S2(e, b), h, g, k)
             /\ P3(MachineOf(x, q, e, h, g, k), b) = MachineOf(x, q, S3(e, b), h, g, k)
             /\ P4(MachineOf(x, q, e, h, g, k), b) = MachineOf(x, q, S4(e, b), h, g, k)
             /\ P5(MachineOf(x, q, e, h, g, k), b) = MachineOf(x, q, S5(e, b), h, g, k)
             /\ P6(MachineOf(x, q, e, h, g, k), b) = MachineOf(x, b, e, h, g, k)
  <2>1. DOMAIN e = {"mie", "mpie", "meie", "mtvec", "mscratch", "mepc", "mcause", "mtval"}
    BY DEF CsrRegisters
  <2>2. P1(MachineOf(x, q, e, h, g, k), b) = MachineOf(x, q, S1(e, b), h, g, k)
    BY <2>1 DEF MachineOf, CsrRegisters
  <2>3. P2(MachineOf(x, q, e, h, g, k), b) = MachineOf(x, q, S2(e, b), h, g, k)
    BY <2>1 DEF MachineOf, CsrRegisters
  <2>4. P3(MachineOf(x, q, e, h, g, k), b) = MachineOf(x, q, S3(e, b), h, g, k)
    BY <2>1 DEF MachineOf, CsrRegisters
  <2>5. P4(MachineOf(x, q, e, h, g, k), b) = MachineOf(x, q, S4(e, b), h, g, k)
    BY <2>1 DEF MachineOf, CsrRegisters
  <2>6. P5(MachineOf(x, q, e, h, g, k), b) = MachineOf(x, q, S5(e, b), h, g, k)
    BY <2>1 DEF MachineOf, CsrRegisters
  <2>7. P6(MachineOf(x, q, e, h, g, k), b) = MachineOf(x, b, e, h, g, k)
    BY DEF MachineOf
  <2> HIDE DEF P1, P2, P3, P4, P5, P6, S1, S2, S3, S4, S5
  <2> QED
    BY <2>2, <2>3, <2>4, <2>5, <2>6, <2>7
<1>3. Architecture!Trap(M, cause, tval) = P6(P5(P4(P3(P2(P1(M, c.mie), FALSE), pc), cause), tval), c.mtvec)
  <2> HIDE DEF M
  <2>1. Architecture!Trap(M, cause, tval) =
          [M EXCEPT !.csr.mpie = c.mie, !.csr.mie = FALSE, !.csr.mepc = pc,
                    !.csr.mcause = cause, !.csr.mtval = tval, !.pc = c.mtvec]
    BY <1>1 DEF Architecture!Trap
  <2> QED
    BY <2>1
<1> DEFINE c1 == S1(c, c.mie)
           c2 == S2(c1, FALSE)
           c3 == S3(c2, pc)
           c4 == S4(c3, cause)
           c5 == S5(c4, tval)
<1>4. Trapped(c, pc, cause, tval) = c5
  BY DEF Trapped
<1>5. c1 \in CsrRegisters
  BY DEF CsrRegisters
<1> HIDE DEF c1
<1>6. c2 \in CsrRegisters
  BY <1>5 DEF CsrRegisters
<1> HIDE DEF c2
<1>7. c3 \in CsrRegisters
  BY <1>6 DEF CsrRegisters
<1> HIDE DEF c3
<1>8. c4 \in CsrRegisters
  BY <1>7 DEF CsrRegisters
<1> HIDE DEF c4
<1>9. c5 \in CsrRegisters
  BY <1>8 DEF CsrRegisters
<1> HIDE DEF c5
<1> HIDE DEF P1, P2, P3, P4, P5, P6, S1, S2, S3, S4, S5, M
<1>10. P1(M, c.mie) = MachineOf(x, pc, c1, h, g, k)
  BY <1>2 DEF c1, M
<1>11. P2(MachineOf(x, pc, c1, h, g, k), FALSE) = MachineOf(x, pc, c2, h, g, k)
  <2>1. \A b : P2(MachineOf(x, pc, c1, h, g, k), b) = MachineOf(x, pc, S2(c1, b), h, g, k)
    BY <1>2, <1>5
  <2> QED
    BY <2>1 DEF c2
<1>12. P3(MachineOf(x, pc, c2, h, g, k), pc) = MachineOf(x, pc, c3, h, g, k)
  BY <1>2, <1>6 DEF c3
<1>13. P4(MachineOf(x, pc, c3, h, g, k), cause) = MachineOf(x, pc, c4, h, g, k)
  BY <1>2, <1>7 DEF c4
<1>14. P5(MachineOf(x, pc, c4, h, g, k), tval) = MachineOf(x, pc, c5, h, g, k)
  BY <1>2, <1>8 DEF c5
<1>15. P6(MachineOf(x, pc, c5, h, g, k), c.mtvec) = MachineOf(x, c.mtvec, c5, h, g, k)
  BY <1>2, <1>9
<1> QED
  BY <1>3, <1>4, <1>10, <1>11, <1>12, <1>13, <1>14, <1>15 DEF M

-----------------------------------------------------------------------------
(* The registers after one more instruction.                               *)
LEMMA BeforeNext ==
  ASSUME NEW V, NEW x, NEW k \in Nat \ {0}, NEW S, NEW y \in [Arch -> S], y[0] = 0,
         \A r \in Arch : Before(V, x, k, r, y[r]), V[k].done, NEW e, e = V[k].meta.rd, e \in Arch,
         NEW z, z = [y EXCEPT ![e] = IF e = 0 THEN 0 ELSE V[k].value], NEW n, n = k + 1
  PROVE  z[0] = 0 /\ z = [r \in Arch |-> z[r]] /\ \A r \in Arch : Before(V, x, n, r, z[r])
<1>1. n - 1 = k /\ k \in 1 .. k
  OBVIOUS
<1>2. \A r \in Arch : z[r] = IF r = e THEN (IF e = 0 THEN 0 ELSE V[k].value) ELSE y[r]
  OBVIOUS
<1>3. 0 \in Arch
  BY SmallWords
<1>4. ASSUME NEW r \in Arch PROVE Before(V, x, n, r, z[r])
  <2>1. CASE WritesReg(V[k], r)
    <3>1. z[r] = V[k].value
      BY <1>2, <2>1 DEF WritesReg
    <3>2. \A i \in k + 1 .. n - 1 : FALSE
      BY <1>1
    <3> QED
      BY <1>1, <2>1, <3>1, <3>2 DEF Before
  <2>2. CASE ~WritesReg(V[k], r)
    <3>1. z[r] = y[r]
      BY <1>2, <2>2 DEF WritesReg
    <3>2. Before(V, x, k, r, y[r])
      OBVIOUS
    <3>3. \A j \in 1 .. n - 1 : j \in 1 .. k - 1 \/ j = k
      BY <1>1
    <3>4. \A j \in 1 .. k - 1 : j \in 1 .. n - 1 /\ \A i \in j + 1 .. n - 1 : i \in j + 1 .. k - 1 \/ i = k
      BY <1>1
    <3> QED
      BY <2>2, <3>1, <3>2, <3>3, <3>4 DEF Before
  <2> QED
    BY <2>1, <2>2
<1> QED
  BY <1>2, <1>3, <1>4

(* One step of the instruction set does what an entry of the queue holds.  *)
LEMMA EntryStep ==
  ASSUME Base, ValueInv, NEW i \in 1 .. count, NEW e, e = Window[i], e.done, ~e.serial,
         NEW D, D = CodeAt(e.meta.pc), ~D.terminal, NEW S, NEW y \in [Arch -> S],
         \A r \in Arch : Before(Window, Committed, i, r, y[r]), NEW c, NEW h, NEW g, NEW k,
         NEW m, m = MachineOf(y, e.meta.pc, c, h, g, k)
  PROVE  /\ e.branch.fault # FAULT_NONE =>
              /\ e.branch.fault = FAULT_MISALIGNED
              /\ Architecture!StepOf(m) =
                   Architecture!NoRetire(Architecture!raise_fault(m, FAULT_MISALIGNED,
                                           CAUSE_INSTR_MISALIGNED, e.branch.target))
         /\ e.branch.fault = FAULT_NONE =>
              Architecture!StepOf(m) = Architecture!Retire(m, e.meta.rd, e.value, NextAddress(e))
         /\ e.meta.rd = 0 => e.value = 0
         /\ e.branch.valid => e.meta.rd = 0
<1>1. e \in rob_entry_t /\ e # Empty /\ MemoryTypes /\ count \in Nat
  BY BaseIs, WindowIs DEF WindowInv, TypesInv, TypeOK, QueuesBounded
<1>2. D \in decode_t
  BY <1>1, CodeType DEF rob_entry_t, meta_t
<1>3. e.meta.rd = D.rd /\ e.serial = D.serial
  BY DEF ValueInv, PathInv, WindowTrue, EntryTrue
<1>4. ExactAs(D, Window, Committed, i, Recorded(e))
  BY DEF ValueInv, EntriesExact, EntryExact, Plain
<1>5. PICK a \in Word, b \in Word :
        InputsAre(D, Window, Committed, i, a, b) /\ Recorded(e) = Outcome(D, Recorded(e).meta, a, b)
  BY <1>4 DEF ExactAs
<1>6. Recorded(e).meta = e.meta /\ Recorded(e).value = e.value /\ Recorded(e).branch = e.branch
  BY DEF Recorded
<1>7. D.rs1 \in Arch /\ D.rs2 \in Arch
  BY <1>2 DEF decode_t
<1>8. a = y[D.rs1]
  <2>1. Before(Window, Committed, i, D.rs1, a) /\ Before(Window, Committed, i, D.rs1, y[D.rs1])
    BY <1>5, <1>7 DEF InputsAre
  <2> QED
    BY <1>1, <2>1, BeforeOnce
<1>9. b = IF D.immediate_b THEN D.immediate ELSE y[D.rs2]
  <2>1. CASE D.immediate_b
    BY <1>5, <2>1 DEF InputsAre
  <2>2. CASE ~D.immediate_b
    <3>1. Before(Window, Committed, i, D.rs2, b) /\ Before(Window, Committed, i, D.rs2, y[D.rs2])
      BY <1>5, <1>7, <2>2 DEF InputsAre
    <3> QED
      BY <1>1, <2>2, <3>1, BeforeOnce
  <2> QED
    BY <2>1, <2>2
<1>10. m.pc = e.meta.pc /\ m.x = y
  BY DEF MachineOf
<1> DEFINE r == Recorded(e)
<1>11. r = Outcome(D, e.meta, a, b)
  BY <1>5, <1>6
<1>12. /\ r.branch.fault # FAULT_NONE =>
              /\ r.branch.fault = FAULT_MISALIGNED
              /\ Architecture!StepOf(m) =
                   Architecture!NoRetire(Architecture!raise_fault(m, FAULT_MISALIGNED,
                                           CAUSE_INSTR_MISALIGNED, r.branch.target))
       /\ r.branch.fault = FAULT_NONE =>
              Architecture!StepOf(m) =
                Architecture!Retire(m, D.rd, r.value,
                  IF r.branch.valid /\ r.branch.taken THEN r.branch.target ELSE (m.pc + 4) % WordModulus)
       /\ r.branch.valid => D.rd = 0
  <2> HIDE DEF r
  <2>1. D = CodeAt(m.pc) /\ ~D.serial
    BY <1>3, <1>10
  <2>2. a = m.x[D.rs1] /\ b = IF D.immediate_b THEN D.immediate ELSE m.x[D.rs2]
    BY <1>8, <1>9, <1>10
  <2> DEFINE t == e.meta
  <2>3. t.pc = m.pc /\ t.rd = D.rd
    BY <1>3, <1>10
  <2>5. r = Outcome(D, t, a, b)
    BY <1>11, Zenon
  <2> HIDE DEF t
  <2>4. PlainAt(m, D, a, b, t, r)
    BY <2>1, <2>2, <2>3, <2>5, Zenon DEF PlainAt
  <2> QED
    BY <2>4, IsaPlain DEF PlainStep
<1>13. NextAddress(e) = IF e.branch.valid /\ e.branch.taken THEN e.branch.target ELSE (e.meta.pc + 4) % WordModulus
  BY <1>1 DEF NextAddress, TakenBranch
<1>14. e.meta.rd = 0 => e.value = 0
  BY <1>6, <1>11 DEF Outcome
<1> QED
  BY <1>3, <1>6, <1>10, <1>12, <1>13, <1>14

(* A flush commits nothing: the branch or the return it comes from writes  *)
(* no register.                                                            *)
LEMMA FlushCommitted ==
  ASSUME Base, Written, WindowTrue, NEW w, NEW d, NEW chosen, EdgeHolds(w, d, chosen), w.backend_flush
  PROVE  \A r \in Arch : Committed'[r] = Committed[r]
<1>1. /\ WindowInv /\ QueuesBounded /\ RenameTypes /\ WiresHold(w) /\ BackSteps(w, d, chosen)
      /\ w.wb_valid = {} /\ w.backend_flush = (w.finishing \/ (w.trap.valid \/ w.mret_commit) \/ w.recovered.valid)
  BY BaseIs DEF EdgeHolds, WiresHold
<1>2. /\ w.retiring \in 0 .. 2 /\ w.retiring <= count
      /\ w.retiring > 0 => ~w.trap.valid /\ ~w.finishing
  BY <1>1, RetiringIs
<1>3. w.retiring > 0 => 1 \in 1 .. count /\ hd0 = Window[1] /\ hd0 \in rob_entry_t /\ EntryTrue(hd0)
  BY <1>1, <1>2, HeadIs DEF WindowTrue, WindowInv, TypesInv, TypeOK, QueuesBounded
<1>4. w.recovered.valid => BRANCH_AT_RETIRE /\ OUT_OF_ORDER /\ TakenBranch(hd0)
  BY <1>1, ConfigurationAssumption DEF WiresHold, retire_redirect, NoRedirect
<1>5. w.sys_retire => w.retiring = 1 /\ hd0.serial
  BY <1>1, SerialRetires DEF WiresHold
<1>6. w.sys_retire => hd0.meta.rd = 0
  <2> SUFFICES ASSUME w.sys_retire PROVE hd0.meta.rd = 0
    OBVIOUS
  <2>1. w.retiring = 1 /\ hd0.serial /\ EntryTrue(hd0)
    BY <1>3, <1>5
  <2> DEFINE D == CodeAt(hd0.meta.pc)
  <2>2. /\ D.serial /\ hd0.meta.rd = D.rd /\ hd0.instruction = D.instruction /\ hd0.branch = NoBranch
    BY <2>1 DEF EntryTrue
  <2>3. ~D.terminal
    <3>1. D \in decode_t
      BY <1>1, <1>3, <2>1, CodeType, BaseIs DEF rob_entry_t, meta_t
    <3> QED
      BY <2>2, <3>1 DEF decode_t
  <2>4. ~w.recovered.valid
    BY <1>4, <2>2 DEF TakenBranch, NoBranch
  <2>5. w.mret_commit
    <3>1. ~w.trap.valid /\ ~w.finishing
      BY <1>2, <2>1
    <3>2. w.finishing \/ (w.trap.valid \/ w.mret_commit) \/ w.recovered.valid
      BY <1>1
    <3> QED
      BY <2>4, <3>1, <3>2
  <2>6. hd0.instruction.op = "MRET"
    BY <1>1, <2>5 DEF WiresHold
  <2> HIDE DEF D
  <2>7. D.instruction.op = "MRET"
    BY <2>2, <2>6
  <2>8. D.rd = 0
    BY <2>2, <2>3, <2>7, SerialLegal DEF D
  <2> QED
    BY <2>2, <2>8
<1>7. ASSUME NEW q \in Lane, WritePort(w, q).valid PROVE WritePort(w, q).address = 0
  <2>1. ~(q = 0 /\ w.sys_retire /\ hd0.meta.rd # 0)
    BY <1>6
  <2>2. q \notin w.wb_valid
    BY <1>1
  <2>3. WritePort(w, q) =
          IF ~OUT_OF_ORDER /\ q < w.retiring
          THEN [valid |-> TRUE, address |-> EntryAt(q).meta.rd, value |-> EntryAt(q).value]
          ELSE [valid |-> FALSE, address |-> 0, value |-> 0]
    BY <2>1, <2>2 DEF WritePort
  <2>4. ~OUT_OF_ORDER /\ q < w.retiring
    BY <1>7, <2>3
  <2>5. w.sys_retire /\ q = 0
    <3>1. w.retiring > 0 /\ q \in {0, 1}
      BY <1>2, <2>4 DEF Lane
    <3>2. w.mret_commit
      BY <1>1, <1>2, <1>4, <2>4, <3>1
    <3>3. w.sys_retire
      BY <1>1, <3>2 DEF WiresHold
    <3> QED
      BY <1>5, <2>4, <3>1, <3>3
  <2> QED
    BY <1>6, <2>3, <2>4, <2>5 DEF EntryAt
<1>8. \A p \in RegisterWords : registers'[p] = registers[p]
  <2> SUFFICES ASSUME NEW p \in RegisterWords PROVE registers'[p] = registers[p]
    OBVIOUS
  <2>1. p = 0 \/ (\A q \in Lane : WritePort(w, q).valid => WritePort(w, q).address # p)
    BY <1>7
  <2> QED
    BY <2>1, RegisterWritten DEF Written
<1>9. OUT_OF_ORDER => \A r \in Arch : committed_map'[r] = committed_map[r]
  <2> SUFFICES ASSUME OUT_OF_ORDER PROVE \A r \in Arch : committed_map'[r] = committed_map[r]
    OBVIOUS
  <2>1. RenameTick(w.restore, Writers(d), w.completions, Leaving(w))
    BY <1>1 DEF BackSteps
  <2>2. CASE w.restore
    BY <2>1, <2>2 DEF RenameTick
  <2>3. CASE ~w.restore
    <3>1. w.restore = (w.recovered.valid \/ (w.trap.valid \/ w.mret_commit))
      BY <1>1 DEF WiresHold, recovers
    <3>2. w.finishing /\ w.retiring = 0
      BY <1>1, <1>2, <2>3, <3>1
    <3>3. DOMAIN Leaving(w) = {}
      BY <3>2 DEF Leaving, WiresHold
    <3>4. committed_map' = Remapped(committed_map, Leaving(w))
      BY <2>1, <2>3 DEF RenameTick
    <3> QED
      BY <3>3, <3>4 DEF Remapped
  <2> QED
    BY <2>2, <2>3
<1>10. ASSUME NEW r \in Arch PROVE Committed'[r] = Committed[r]
  <2>1. CASE OUT_OF_ORDER
    <3>1. committed_map[r] \in RegisterWords
      BY <1>1, <2>1 DEF RenameTypes, RegisterWords
    <3> QED
      BY <1>8, <1>9, <2>1, <3>1 DEF Committed
  <2>2. CASE ~OUT_OF_ORDER
    <3>1. r \in RegisterWords
      BY <2>2 DEF RegisterWords
    <3> QED
      BY <1>8, <2>2, <3>1 DEF Committed
  <2> QED
    BY <2>1, <2>2
<1> QED
  BY <1>10

-----------------------------------------------------------------------------
(* The machine the programmer sees.                                        *)
Machine == MachineOf(Committed, arch_next_pc, csr, halted, fault, fault_code)

(* A program that has not ended has no fault to report.                    *)
NoCode == Awake => fault_code = FAULT_NONE
IsaInv == Base /\ ValueInv /\ NoCode

(* The machine of the core is one of the instruction set, and the          *)
(* invariants of the pipeline hold behind it.                              *)
LEMMA MachineTypes ==
  ASSUME IsaInv
  PROVE  /\ Committed \in [Arch -> Word] /\ arch_next_pc \in Word /\ csr \in CsrRegisters
         /\ Awake => Committed[0] = 0
         /\ TypesInv /\ QueuesBounded /\ RetireTypes /\ MemoryTypes /\ WindowInv /\ Base /\ Written
         /\ WindowTrue /\ WindowFollows /\ ValueInv /\ irq_external \in BOOLEAN
<1>1. /\ TypesInv /\ QueuesBounded /\ RetireTypes /\ MemoryTypes /\ WindowInv /\ RenameTypes /\ RenameInv
      /\ Base /\ Written /\ WindowTrue /\ WindowFollows /\ ValueInv
  BY BaseIs DEF IsaInv, ValueInv, PathInv
<1>2. \A r \in Arch : Committed[r] \in Word
  <2> SUFFICES ASSUME NEW r \in Arch PROVE Committed[r] \in Word
    OBVIOUS
  <2>1. CASE OUT_OF_ORDER
    BY <1>1, <2>1 DEF Committed, RenameTypes, RetireTypes, RegisterWords
  <2>2. CASE ~OUT_OF_ORDER
    BY <1>1, <2>2 DEF Committed, RetireTypes, RegisterWords
  <2> QED
    BY <2>1, <2>2
<1>3. Committed \in [Arch -> Word]
  <2>1. Committed = [r \in Arch |-> Committed[r]]
    BY DEF Committed
  <2> QED
    BY <1>2, <2>1
<1>4. Awake => Committed[0] = 0
  <2> SUFFICES ASSUME Awake PROVE Committed[0] = 0
    OBVIOUS
  <2>1. 0 \in Arch /\ registers[0] = 0
    BY <1>1, SmallWords DEF Written
  <2>2. OUT_OF_ORDER => committed_map[0] = 0
    BY <1>1 DEF RenameInv, RegistersKept, WellKept, PlacesApart, Renaming, Awake
  <2> QED
    BY <2>1, <2>2 DEF Committed
<1> QED
  BY <1>1, <1>3, <1>4 DEF RetireTypes

(* What an edge shows of a retired entry.                                  *)
Shows(w, e) ==
  [pc |-> e.meta.pc, rd |-> e.meta.rd,
   value |-> IF e.serial /\ e.meta.rd # 0 THEN csr_old_value(w) ELSE e.value]

(* What an edge shows of retirement: the instructions that retired, and    *)
(* the end of the program.                                                 *)
LEMMA EdgeShows ==
  ASSUME Base, NEW w, NEW d, NEW chosen, EdgeHolds(w, d, chosen)
  PROVE  /\ w.retiring = 0 => retired' = <<>>
         /\ w.retiring = 1 => retired' = <<Shows(w, hd0)>>
         /\ w.retiring = 2 => retired' = <<Shows(w, hd0), Shows(w, hd1)>>
         /\ ~w.finishing => halted' = halted /\ fault' = fault /\ fault_code' = fault_code
         /\ w.finishing => /\ halted' = (hd0.fault = FAULT_NONE)
                           /\ fault' = (hd0.fault # FAULT_NONE) /\ fault_code' = hd0.fault
         /\ w.trap = trap_wire /\ w.finishing \in BOOLEAN
<1> DEFINE hd == [p \in Lane |-> EntryAt(p)]
<1>1. RetireTick(hd, w.retiring, w.finishing, csr_old_value(w)) /\ WiresHold(w)
  BY DEF EdgeHolds, SystemEdge
<1>2. hd[0] = hd0 /\ hd[1] = hd1
  BY DEF EntryAt, Lane
<1> HIDE DEF hd
<1>3. retired' = [i \in 1 .. w.retiring |-> Shows(w, hd[i - 1])]
  BY <1>1 DEF RetireTick, Shows
<1>4. Shows(w, hd[1 - 1]) = Shows(w, hd0) /\ Shows(w, hd[2 - 1]) = Shows(w, hd1)
  <2>1. 1 - 1 = 0 /\ 2 - 1 = 1
    OBVIOUS
  <2> QED
    BY <1>2, <2>1
<1> DEFINE f(i) == Shows(w, hd[i - 1])
<1>5. f(1) = Shows(w, hd0) /\ f(2) = Shows(w, hd1) /\ retired' = [i \in 1 .. w.retiring |-> f(i)]
  BY <1>3, <1>4
<1> HIDE DEF f
<1>6. w.retiring = 0 => retired' = <<>>
  BY <1>5
<1>7. w.retiring = 1 => retired' = <<Shows(w, hd0)>>
  <2> DEFINE a == Shows(w, hd0)
  <2>1. f(1) = a
    BY <1>5
  <2> HIDE DEF a
  <2> SUFFICES ASSUME w.retiring = 1 PROVE retired' = <<a>>
    BY DEF a
  <2>2. retired' = [i \in 1 .. 1 |-> f(i)]
    BY <1>5
  <2>3. \A i \in 1 .. 1 : f(i) = a
    BY <2>1
  <2> QED
    BY <2>2, <2>3
<1>8. w.retiring = 2 => retired' = <<Shows(w, hd0), Shows(w, hd1)>>
  <2> DEFINE a == Shows(w, hd0)
             b == Shows(w, hd1)
  <2>1. f(1) = a /\ f(2) = b
    BY <1>5
  <2> HIDE DEF a, b
  <2> SUFFICES ASSUME w.retiring = 2 PROVE retired' = <<a, b>>
    BY DEF a, b
  <2>2. retired' = [i \in 1 .. 2 |-> f(i)]
    BY <1>5
  <2> QED
    BY <2>1, <2>2
<1>9. /\ ~w.finishing => halted' = halted /\ fault' = fault /\ fault_code' = fault_code
      /\ w.finishing => /\ halted' = (hd0.fault = FAULT_NONE)
                        /\ fault' = (hd0.fault # FAULT_NONE) /\ fault_code' = hd0.fault
  BY <1>1, <1>2 DEF RetireTick
<1>10. w.trap = trap_wire /\ w.finishing \in BOOLEAN
  BY <1>1 DEF WiresHold, finish
<1> QED
  BY <1>6, <1>7, <1>8, <1>9, <1>10

(* What is no end and no flush without retirement leaves the machine as it *)
(* is; the steps below say what else an edge does to it.                   *)
LEMMA CommittedIs ==
  ASSUME NEW x, x = [r \in Arch |-> x[r]], \A r \in Arch : Committed'[r] = x[r]
  PROVE  Committed' = x
<1>1. Committed' = [r \in Arch |-> Committed'[r]]
  BY DEF Committed
<1> QED
  BY <1>1

(* The machine behind an edge, field by field.                             *)
LEMMA MachineAfter ==
  ASSUME Base, NEW w, NEW d, NEW chosen, EdgeHolds(w, d, chosen), NEW x, Committed' = x
  PROVE  Machine' = MachineOf(x, arch_next_pc', csr', halted', fault', fault_code')
BY DEF Machine

(* Each way to show that an edge is a step of the instruction set.         *)
LEMMA IsaSteps ==
  /\ Awake /\ Machine' = Architecture!StepOf(Machine).m /\ retired' = Architecture!StepOf(Machine).retired
       => Architecture!ExecuteOne
  /\ Machine' = Machine /\ retired' = <<>> => Architecture!Idle
  /\ Awake /\ ENABLE_TRAPS /\ csr.mie /\ csr.meie /\ irq_external
       /\ Machine' = Architecture!Trap(Machine, CAUSE_EXTERNAL, 0) /\ retired' = <<>> => Architecture!Interrupt
  /\ \A a, b : Awake /\ ISSUE_WIDTH = 2 /\ a = Architecture!StepOf(Machine) /\ a.retired # <<>>
       /\ b = Architecture!StepOf(a.m) /\ b.retired # <<>> /\ Machine' = b.m
       /\ retired' = a.retired \o b.retired => Architecture!ExecuteTwo
  /\ Machine' = Architecture!ResetState /\ retired' = <<>> /\ resets' # resets => Architecture!Reset
<1> DEFINE A == [x |-> [r \in Arch |-> IF OUT_OF_ORDER THEN registers[committed_map[r]] ELSE registers[r]],
                 pc |-> arch_next_pc, csr |-> csr,
                 halted |-> halted, fault |-> fault, fault_code |-> fault_code]
<1>1. Machine = A
  BY DEF Machine, MachineOf, Committed
<1>2. Machine' = A'
  BY DEF Machine, MachineOf, Committed
<1>3. A.halted = halted /\ A.fault = fault /\ A.csr = csr
  OBVIOUS
<1>4. Architecture!Running <=> Awake
  BY <1>3 DEF Architecture!Running, Awake
<1>5. Awake /\ Machine' = Architecture!StepOf(Machine).m /\ retired' = Architecture!StepOf(Machine).retired
       => Architecture!ExecuteOne
  <2>1. Architecture!ExecuteOne <=>
          Awake /\ A' = Architecture!StepOf(A).m /\ retired' = Architecture!StepOf(A).retired
    BY <1>4 DEF Architecture!ExecuteOne
  <2> HIDE DEF A
  <2> QED
    BY <1>1, <1>2, <2>1
<1>6. Machine' = Machine /\ retired' = <<>> => Architecture!Idle
  <2>1. Architecture!Idle <=> A' = A /\ retired' = <<>>
    BY DEF Architecture!Idle
  <2> HIDE DEF A
  <2> QED
    BY <1>1, <1>2, <2>1
<1>7. Awake /\ ENABLE_TRAPS /\ csr.mie /\ csr.meie /\ irq_external
       /\ Machine' = Architecture!Trap(Machine, CAUSE_EXTERNAL, 0) /\ retired' = <<>> => Architecture!Interrupt
  <2>1. Architecture!Interrupt <=>
          /\ Awake /\ ENABLE_TRAPS /\ A.csr.mie /\ A.csr.meie /\ irq_external
          /\ A' = Architecture!Trap(A, Architecture!CAUSE_EXTERNAL, 0) /\ retired' = <<>>
    BY <1>4 DEF Architecture!Interrupt
  <2> HIDE DEF A
  <2> QED
    BY <1>1, <1>2, <1>3, <2>1, IsaCodes
<1>8. ASSUME NEW a, NEW b, Awake, ISSUE_WIDTH = 2, a = Architecture!StepOf(Machine), a.retired # <<>>,
             b = Architecture!StepOf(a.m), b.retired # <<>>, Machine' = b.m,
             retired' = a.retired \o b.retired
      PROVE  Architecture!ExecuteTwo
  <2>1. Architecture!ExecuteTwo <=>
          /\ Awake /\ ISSUE_WIDTH = 2
          /\ Architecture!StepOf(A).retired # <<>>
          /\ Architecture!StepOf(Architecture!StepOf(A).m).retired # <<>>
          /\ A' = Architecture!StepOf(Architecture!StepOf(A).m).m
          /\ retired' = Architecture!StepOf(A).retired \o Architecture!StepOf(Architecture!StepOf(A).m).retired
    BY <1>4 DEF Architecture!ExecuteTwo
  <2> HIDE DEF A
  <2> QED
    BY <1>1, <1>2, <1>8, <2>1
<1>9. Machine' = Architecture!ResetState /\ retired' = <<>> /\ resets' # resets => Architecture!Reset
  <2>1. Architecture!Reset <=> resets' # resets /\ A' = Architecture!ResetState /\ retired' = <<>>
    BY DEF Architecture!Reset
  <2> HIDE DEF A
  <2> QED
    BY <1>1, <1>2, <2>1
<1> HIDE DEF A
<1> QED
  BY <1>5, <1>6, <1>7, <1>8, <1>9

-----------------------------------------------------------------------------
(* What an edge does to the rest of the machine: the address after what    *)
(* retired, and the CSRs.                                                  *)
LEMMA EdgeLeaves ==
  ASSUME Base, NEW w, NEW d, NEW chosen, EdgeHolds(w, d, chosen)
  PROVE  /\ arch_next_pc' = IF w.trap.valid THEN csr.mtvec
                            ELSE IF w.mret_commit THEN csr.mepc
                            ELSE IF w.retiring = 0 THEN arch_next_pc
                            ELSE NextAddress(EntryAt(w.retiring - 1))
         /\ w.trap.valid => csr' = Trapped(csr, w.trap.pc, w.trap.cause, w.trap.tval)
         /\ ~w.trap.valid /\ w.mret_commit => csr' = [csr EXCEPT !.mie = csr.mpie, !.mpie = TRUE]
         /\ ~w.trap.valid /\ ~w.sys_retire => csr' = csr
         /\ ~w.trap.valid /\ ~w.mret_commit /\ w.csr_commit =>
              csr' = IF csr_written(hd0.instruction)
                     THEN WrittenCsr(hd0.instruction.csr,
                            csr_new_value(hd0.instruction, csr_read(hd0.instruction.csr, irq_external),
                                          csr_operand(hd0.instruction, CommitSource)))
                     ELSE csr
<1>1. /\ SystemEdge(w, d) /\ w.mret_commit = (ENABLE_TRAPS /\ w.sys_retire /\ hd0.instruction.op = "MRET")
      /\ w.csr_commit = (ENABLE_TRAPS /\ w.sys_retire /\ ~(hd0.instruction.op = "MRET"))
  BY DEF EdgeHolds, WiresHold
<1>2. /\ arch_next_pc' = IF w.trap.valid THEN csr.mtvec
                         ELSE IF w.mret_commit THEN csr.mepc
                         ELSE IF w.retiring = 0 THEN arch_next_pc
                         ELSE NextAddress(EntryAt(w.retiring - 1))
      /\ CsrTick(w.trap, w.mret_commit, w.csr_commit, hd0.instruction, CommitSource, irq_external)
  <2> HIDE DEF hd0
  <2> QED
    BY <1>1 DEF SystemEdge, CommitSource
<1> HIDE DEF hd0
<1>3. w.trap.valid => csr' = Trapped(csr, w.trap.pc, w.trap.cause, w.trap.tval)
  BY <1>2 DEF CsrTick, Trapped
<1>4. ~w.trap.valid /\ w.mret_commit => csr' = [csr EXCEPT !.mie = csr.mpie, !.mpie = TRUE]
  BY <1>2 DEF CsrTick
<1>5. ~w.trap.valid /\ ~w.sys_retire => csr' = csr
  BY <1>1, <1>2 DEF CsrTick
<1>6. ~w.trap.valid /\ ~w.mret_commit /\ w.csr_commit =>
              csr' = IF csr_written(hd0.instruction)
                     THEN WrittenCsr(hd0.instruction.csr,
                            csr_new_value(hd0.instruction, csr_read(hd0.instruction.csr, irq_external),
                                          csr_operand(hd0.instruction, CommitSource)))
                     ELSE csr
  BY <1>2 DEF CsrTick
<1> QED
  BY <1>2, <1>3, <1>4, <1>5, <1>6

(* An edge at which nothing retires, ends or traps changes nothing the     *)
(* programmer sees.                                                        *)
LEMMA QuietEdge ==
  ASSUME IsaInv, NEW w, NEW d, NEW chosen, EdgeHolds(w, d, chosen),
         w.retiring = 0, ~w.finishing, ~w.trap.valid
  PROVE  Architecture!Idle
<1>1. Base /\ Written /\ Committed \in [Arch -> Word]
  BY MachineTypes
<1>2. WiresHold(w)
  BY DEF EdgeHolds
<1>3. ~w.sys_retire /\ ~w.mret_commit /\ ~w.recovered.valid /\ ~w.backend_flush
  <2>1. /\ w.sys_retire = (w.retiring # 0 /\ hd0.serial)
        /\ w.mret_commit = (ENABLE_TRAPS /\ w.sys_retire /\ hd0.instruction.op = "MRET")
        /\ w.recovered = retire_redirect(hd0, w.retiring, w.finishing)
        /\ w.backend_flush = (w.finishing \/ (w.trap.valid \/ w.mret_commit) \/ w.recovered.valid)
    BY <1>2 DEF WiresHold
  <2> HIDE DEF hd0
  <2>2. ~w.sys_retire
    BY <2>1
  <2>3. ~w.mret_commit
    BY <2>1, <2>2
  <2>4. ~w.recovered.valid
    BY <2>1 DEF retire_redirect, NoRedirect
  <2> QED
    BY <2>1, <2>2, <2>3, <2>4
<1>4. \A r \in Arch : Committed'[r] = Committed[r]
  <2> SUFFICES ASSUME NEW r \in Arch PROVE Committed'[r] = Committed[r]
    OBVIOUS
  <2> DEFINE v == Committed[r]
  <2>1. Before(Window, Committed, 1, r, v)
    BY DEF Before
  <2> HIDE DEF v
  <2>2. 1 = w.retiring + 1
    OBVIOUS
  <2>3. Committed'[r] = v
    BY <1>1, <1>3, <2>1, <2>2, RegistersAfter
  <2> QED
    BY <2>3 DEF v
<1>5. Committed' = Committed
  BY <1>1, <1>4, CommittedIs
<1>6. /\ arch_next_pc' = arch_next_pc /\ csr' = csr /\ retired' = <<>>
      /\ halted' = halted /\ fault' = fault /\ fault_code' = fault_code
  BY <1>1, <1>3, EdgeLeaves, EdgeShows
<1>7. Machine' = Machine
  BY <1>5, <1>6 DEF Machine
<1> QED
  BY <1>6, <1>7, IsaSteps

(* A trap or the end of the program leaves the registers as they are.      *)
LEMMA FlushKeeps ==
  ASSUME IsaInv, NEW w, NEW d, NEW chosen, EdgeHolds(w, d, chosen), w.backend_flush
  PROVE  Committed' = Committed
<1>1. \A r \in Arch : Committed'[r] = Committed[r]
  BY MachineTypes, FlushCommitted
<1> QED
  BY <1>1, MachineTypes, CommittedIs

(* A trap: nothing retires and the program goes on at mtvec.               *)
LEMMA TrapEdge ==
  ASSUME IsaInv, NEW w, NEW d, NEW chosen, EdgeHolds(w, d, chosen), w.trap.valid
  PROVE  /\ Awake /\ ENABLE_TRAPS /\ retired' = <<>> /\ w.trap = trap_wire /\ trap_wire.valid
         /\ Machine' = MachineOf(Committed, csr.mtvec,
                                 Trapped(csr, w.trap.pc, w.trap.cause, w.trap.tval), halted, fault, fault_code)
<1>1. Base /\ QueuesBounded /\ RetireTypes
  BY MachineTypes
<1>2. WiresHold(w) /\ w.trap = trap_wire /\ trap_wire.valid
  BY DEF EdgeHolds, WiresHold
<1>3. Awake /\ ENABLE_TRAPS
  BY <1>2 DEF trap_wire, NoTrap, trap_taken, trap_exception, trap_interrupt, Awake
<1>4. w.retiring = 0 /\ ~w.finishing
  BY <1>2 DEF WiresHold, retire_count, finish, MayRetire
<1>5. w.backend_flush
  BY <1>2 DEF WiresHold
<1>6. Committed' = Committed
  BY <1>5, FlushKeeps
<1>7. /\ arch_next_pc' = csr.mtvec /\ csr' = Trapped(csr, w.trap.pc, w.trap.cause, w.trap.tval)
      /\ retired' = <<>> /\ halted' = halted /\ fault' = fault /\ fault_code' = fault_code
  BY <1>1, <1>4, EdgeLeaves, EdgeShows
<1>8. Machine' = MachineOf(Committed, csr.mtvec,
                           Trapped(csr, w.trap.pc, w.trap.cause, w.trap.tval), halted, fault, fault_code)
  BY <1>6, <1>7 DEF Machine
<1> QED
  BY <1>2, <1>3, <1>7, <1>8

(* An interrupt is taken between two instructions.                         *)
LEMMA InterruptEdge ==
  ASSUME IsaInv, NEW w, NEW d, NEW chosen, EdgeHolds(w, d, chosen), trap_interrupt
  PROVE  Architecture!Interrupt
<1>1. /\ csr.mie /\ csr.meie /\ irq_external /\ ~trap_exception /\ trap_taken
  BY DEF trap_interrupt, interrupt_enabled, trap_taken
<1>2. /\ trap_wire.valid /\ trap_wire.pc = arch_next_pc /\ trap_wire.cause = CAUSE_EXTERNAL
      /\ trap_wire.tval = 0
  BY <1>1 DEF trap_wire, trap_cause, trap_tval
<1>3. w.trap = trap_wire
  BY DEF EdgeHolds, WiresHold
<1>4. /\ Awake /\ ENABLE_TRAPS /\ retired' = <<>>
      /\ Machine' = MachineOf(Committed, csr.mtvec, Trapped(csr, arch_next_pc, CAUSE_EXTERNAL, 0),
                              halted, fault, fault_code)
  BY <1>2, <1>3, TrapEdge
<1>5. arch_next_pc \in Word /\ csr \in CsrRegisters /\ CAUSE_EXTERNAL \in Word /\ 0 \in Word
  <2>1. QueuesBounded /\ RetireTypes /\ arch_next_pc \in Word /\ csr \in CsrRegisters
    BY MachineTypes
  <2>2. trap_wire.cause \in Word
    BY <1>2, <2>1, TrapTypes
  <2> QED
    BY <1>2, <2>1, <2>2, SmallWords
<1>6. Architecture!Trap(Machine, CAUSE_EXTERNAL, 0)
        = MachineOf(Committed, csr.mtvec, Trapped(csr, arch_next_pc, CAUSE_EXTERNAL, 0),
                    halted, fault, fault_code)
  BY <1>5, TrapIs DEF Machine
<1> QED
  BY <1>1, <1>4, <1>6, IsaSteps

(* The program's ends, as changes of the machine's fields.                 *)
Ended(m, b) == [m EXCEPT !.halted = b]
Faulted(m, b, j) == [m EXCEPT !.fault = b, !.fault_code = j]
(* Ending a program changes three fields of the machine.                   *)
LEMMA EndedIs ==
  ASSUME NEW x, NEW n, NEW c, NEW f, NEW g, NEW k, NEW b
  PROVE  Ended(MachineOf(x, n, c, f, g, k), b) = MachineOf(x, n, c, b, g, k)
BY DEF MachineOf, Ended

(* A fault sets two fields.                                                *)
LEMMA FaultedIs ==
  ASSUME NEW x, NEW n, NEW c, NEW f, NEW g, NEW k, NEW b, NEW j
  PROVE  Faulted(MachineOf(x, n, c, f, g, k), b, j) = MachineOf(x, n, c, f, b, j)
<1> DEFINE P(m) == [m EXCEPT !.fault = b]
           R(m) == [m EXCEPT !.fault_code = j]
<1>1. P(MachineOf(x, n, c, f, g, k)) = MachineOf(x, n, c, f, b, k)
  BY DEF MachineOf
<1>2. R(MachineOf(x, n, c, f, b, k)) = MachineOf(x, n, c, f, b, j)
  BY DEF MachineOf
<1>3. Faulted(MachineOf(x, n, c, f, g, k), b, j) = R(P(MachineOf(x, n, c, f, g, k)))
  BY DEF Faulted
<1> HIDE DEF P, R
<1> QED
  BY <1>1, <1>2, <1>3

(* A legal instruction raises no cause of its own.                         *)
LEMMA LegalCause ==
  ASSUME NEW a, ~CodeAt(a).terminal
  PROVE  CodeAt(a).trap_cause = 0
<1> DEFINE f == FetchedAt(a)
<1>1. CodeAt(a) = rv32_decode(f)
  BY DEF CodeAt
<1> HIDE DEF f
<1>2. \A c, n : Terminal(f, c, n).terminal
  BY DEF Terminal
<1>3. Legal(f).trap_cause = 0
  BY DEF Legal
<1>4. \/ rv32_decode(f) = Legal(f)
      \/ \E c, n : rv32_decode(f) = Terminal(f, c, n)
  BY DEF rv32_decode
<1> QED
  BY <1>1, <1>2, <1>3, <1>4

(* The entry at the head is the machine's next instruction.                *)
LEMMA HeadNext ==
  ASSUME IsaInv, Awake, hd0 # Empty
  PROVE  /\ 1 \in 1 .. count /\ hd0 = Window[1] /\ hd0 \in rob_entry_t /\ EntryTrue(hd0)
         /\ hd0.meta.pc = arch_next_pc /\ CodeAt(arch_next_pc) \in decode_t
<1>1. /\ WindowInv /\ WindowTrue /\ WindowFollows /\ MemoryTypes /\ arch_next_pc \in Word
  BY MachineTypes
<1>2. count > 0 /\ 1 \in 1 .. count /\ hd0 = Window[1] /\ hd0 \in rob_entry_t
  BY <1>1, HeadIs
<1>3. EntryTrue(hd0)
  BY <1>1, <1>2 DEF WindowTrue
<1>4. hd0.meta.pc = arch_next_pc
  BY <1>1, <1>2 DEF WindowFollows
<1> QED
  BY <1>1, <1>2, <1>3, <1>4, CodeType

(* A fault at the head is the fault of that instruction, with the cause    *)
(* and the value that a trap reports.                                      *)
LEMMA HeadEnds ==
  ASSUME IsaInv, Awake, Done(hd0), hd0.terminal
  PROVE  /\ hd0.fault = FAULT_NONE =>
              Architecture!StepOf(Machine) = Architecture!NoRetire([Machine EXCEPT !.halted = TRUE])
         /\ hd0.fault # FAULT_NONE => \E c, v :
              /\ Architecture!StepOf(Machine) =
                   Architecture!NoRetire(Architecture!raise_fault(Machine, hd0.fault, c, v))
              /\ ~trap_interrupt => c = trap_cause /\ v = trap_tval
<1> DEFINE e == hd0
           D == CodeAt(arch_next_pc)
<1>1. /\ 1 \in 1 .. count /\ e = Window[1] /\ e \in rob_entry_t /\ EntryTrue(e)
      /\ e.meta.pc = arch_next_pc /\ D \in decode_t /\ e.terminal /\ e.done
  BY HeadNext DEF Done
<1>2. /\ Base /\ ValueInv /\ Committed \in [Arch -> Word] /\ D.pc = arch_next_pc
      /\ Machine.pc = arch_next_pc
  BY MachineTypes, CodePlace DEF Machine, MachineOf
<1>3. /\ trap_cause = (IF trap_interrupt THEN CAUSE_EXTERNAL
                       ELSE IF e.trap_cause # 0 THEN e.trap_cause
                       ELSE IF e.fault = FAULT_MISALIGNED THEN CAUSE_INSTR_MISALIGNED
                       ELSE IF e.fault = FAULT_ACCESS THEN CAUSE_INSTR_ACCESS ELSE CAUSE_ILLEGAL)
      /\ trap_tval = (IF trap_interrupt THEN 0
                      ELSE IF e.fault = FAULT_MISALIGNED THEN e.branch.target
                      ELSE IF e.fault = FAULT_ACCESS THEN e.meta.pc
                      ELSE IF e.fault = FAULT_ILLEGAL /\ trap_cause = CAUSE_ILLEGAL
                      THEN e.instruction.bits ELSE 0)
  <2> HIDE DEF hd0
  <2>1. trap_cause = (IF trap_interrupt THEN CAUSE_EXTERNAL
                       ELSE IF e.trap_cause # 0 THEN e.trap_cause
                       ELSE IF e.fault = FAULT_MISALIGNED THEN CAUSE_INSTR_MISALIGNED
                       ELSE IF e.fault = FAULT_ACCESS THEN CAUSE_INSTR_ACCESS ELSE CAUSE_ILLEGAL)
    BY DEF trap_cause, FAULT_ACCESS, FAULT_MISALIGNED
  <2>2. trap_tval = (IF trap_interrupt THEN 0
                      ELSE IF e.fault = FAULT_MISALIGNED THEN e.branch.target
                      ELSE IF e.fault = FAULT_ACCESS THEN e.meta.pc
                      ELSE IF e.fault = FAULT_ILLEGAL /\ trap_cause = CAUSE_ILLEGAL
                      THEN e.instruction.bits ELSE 0)
    BY DEF trap_tval, FAULT_ACCESS, FAULT_MISALIGNED, FAULT_ILLEGAL
  <2> QED
    BY <2>1, <2>2
<1> HIDE DEF e
<1>4. CASE D.terminal
  <2>1. /\ e.fault = D.fault /\ e.trap_cause = D.trap_cause /\ e.instruction = D.instruction
        /\ e.branch.target = 0
    BY <1>1, <1>4 DEF EntryTrue, NoBranch
  <2> HIDE DEF D
  <2> DEFINE m == Machine
  <2>2. D = CodeAt(m.pc)
    BY <1>2 DEF D
  <2> HIDE DEF m
  <2>3. /\ D.fault = FAULT_NONE =>
              Architecture!StepOf(m) = Architecture!NoRetire([m EXCEPT !.halted = TRUE])
        /\ D.fault # FAULT_NONE =>
              /\ D.trap_cause # 0
              /\ Architecture!StepOf(m) =
                   Architecture!NoRetire(Architecture!raise_fault(m, D.fault, D.trap_cause, TrapValue(D)))
    BY <1>4, <2>2, IsaTerminal
  <2>4. D.fault # FAULT_NONE /\ ~trap_interrupt => D.trap_cause = trap_cause /\ TrapValue(D) = trap_tval
    BY <1>1, <1>2, <1>3, <2>1, <2>3 DEF TrapValue, FAULT_ACCESS, FAULT_MISALIGNED, FAULT_ILLEGAL, FAULT_NONE
  <2> QED
    BY <2>1, <2>3, <2>4 DEF m, e
<1>5. CASE ~D.terminal
  <2>1. e.branch.fault # FAULT_NONE /\ e.fault = e.branch.fault /\ e.serial = D.serial
    BY <1>1, <1>5 DEF EntryTrue
  <2>2. ~e.serial
    BY <1>1, <2>1 DEF EntryTrue, NoBranch
  <2>3. e.trap_cause = 0
    BY <1>1, <1>5, LegalCause DEF EntryTrue
  <2>4. \A r \in Arch : Before(Window, Committed, 1, r, Committed[r])
    BY DEF Before
  <2> DEFINE y == Committed
             c == csr
             h == halted
             g == fault
             k == fault_code
             m == Machine
  <2>5. m = MachineOf(y, e.meta.pc, c, h, g, k)
    BY <1>1 DEF Machine
  <2>6. y \in [Arch -> Word] /\ \A r \in Arch : Before(Window, Committed, 1, r, y[r])
    BY <1>2, <2>4
  <2> HIDE DEF y, c, h, g, k, m
  <2>7. D = CodeAt(e.meta.pc)
    BY <1>1
  <2> HIDE DEF D
  <2>8. /\ e.branch.fault = FAULT_MISALIGNED
        /\ Architecture!StepOf(m) =
                   Architecture!NoRetire(Architecture!raise_fault(m, FAULT_MISALIGNED,
                                           CAUSE_INSTR_MISALIGNED, e.branch.target))
    BY <1>1, <1>2, <1>5, <2>1, <2>2, <2>5, <2>6, <2>7, EntryStep
  <2>9. ~trap_interrupt => CAUSE_INSTR_MISALIGNED = trap_cause /\ e.branch.target = trap_tval
    BY <1>3, <2>1, <2>3, <2>8
  <2> QED
    BY <2>1, <2>8, <2>9 DEF e, m
<1> QED
  BY <1>4, <1>5

(* An exception is taken when its instruction is the oldest.               *)
LEMMA ExceptionEdge ==
  ASSUME IsaInv, NEW w, NEW d, NEW chosen, EdgeHolds(w, d, chosen), trap_exception
  PROVE  Architecture!ExecuteOne
<1>1. Done(hd0) /\ hd0.terminal /\ hd0.fault # FAULT_NONE /\ ENABLE_TRAPS /\ ~trap_interrupt /\ hd0 # Empty
  BY DEF trap_exception, trap_interrupt, Done
<1>2. /\ trap_wire.valid /\ trap_wire.pc = hd0.meta.pc /\ trap_wire.cause = trap_cause
      /\ trap_wire.tval = trap_tval
  <2> HIDE DEF hd0
  <2> QED
    BY DEF trap_wire, trap_taken
<1>3. w.trap = trap_wire
  BY DEF EdgeHolds, WiresHold
<1>4. /\ Awake /\ retired' = <<>>
      /\ Machine' = MachineOf(Committed, csr.mtvec,
                              Trapped(csr, hd0.meta.pc, trap_cause, trap_tval), halted, fault, fault_code)
  BY <1>2, <1>3, TrapEdge
<1>5. hd0.meta.pc = arch_next_pc
  BY <1>1, <1>4, HeadNext
<1>6. PICK c, v : /\ Architecture!StepOf(Machine) =
                       Architecture!NoRetire(Architecture!raise_fault(Machine, hd0.fault, c, v))
                  /\ c = trap_cause /\ v = trap_tval
  BY <1>1, <1>4, HeadEnds
<1>7. Architecture!StepOf(Machine) =
        Architecture!NoRetire(Architecture!Trap(Machine, trap_cause, trap_tval))
  BY <1>1, <1>6 DEF Architecture!raise_fault
<1>8. arch_next_pc \in Word /\ csr \in CsrRegisters /\ trap_cause \in Word /\ trap_tval \in Word
  BY <1>2, MachineTypes, TrapTypes
<1>9. Architecture!Trap(Machine, trap_cause, trap_tval) = Machine'
  BY <1>4, <1>5, <1>8, TrapIs DEF Machine
<1>10. /\ Architecture!StepOf(Machine).m = Machine' /\ Architecture!StepOf(Machine).retired = <<>>
  BY <1>7, <1>9 DEF Architecture!NoRetire
<1> QED
  BY <1>4, <1>10, IsaSteps

(* The end of the program, or without traps its fault.                     *)
LEMMA FinishEdge ==
  ASSUME IsaInv, NEW w, NEW d, NEW chosen, EdgeHolds(w, d, chosen), w.finishing
  PROVE  Architecture!ExecuteOne
<1>1. /\ Base /\ QueuesBounded /\ WiresHold(w)
  BY MachineTypes DEF EdgeHolds
<1>2. /\ Done(hd0) /\ hd0.terminal /\ Awake /\ hd0 # Empty
      /\ ~ENABLE_TRAPS \/ hd0.fault = FAULT_NONE
      /\ ~w.trap.valid /\ w.retiring = 0 /\ w.backend_flush
  <2>1. w.finishing = finish(hd0, w.trap.valid, Fetch!idle)
    BY <1>1 DEF WiresHold
  <2>2. w.retiring = retire_count(hd0, hd1, w.trap.valid, retire_limit(hd0, hd1)) /\ w.backend_flush
    BY <1>1 DEF WiresHold
  <2> HIDE DEF hd0, hd1
  <2>3. /\ Done(hd0) /\ hd0.terminal /\ Awake /\ hd0 # Empty
        /\ ~ENABLE_TRAPS \/ hd0.fault = FAULT_NONE
        /\ ~w.trap.valid
    BY <2>1 DEF finish, MayRetire, Done, Awake
  <2> QED
    BY <2>2, <2>3 DEF retire_count
<1>3. ~w.sys_retire /\ ~w.mret_commit
  BY <1>1, <1>2 DEF WiresHold
<1>4. Committed' = Committed
  BY <1>2, FlushKeeps
<1>5. /\ arch_next_pc' = arch_next_pc /\ csr' = csr /\ retired' = <<>>
      /\ halted' = (hd0.fault = FAULT_NONE)
      /\ fault' = (hd0.fault # FAULT_NONE) /\ fault_code' = hd0.fault
  BY <1>1, <1>2, <1>3, EdgeLeaves, EdgeShows
<1>6. halted = FALSE /\ fault = FALSE /\ fault_code = FAULT_NONE
  BY <1>2, MachineTypes DEF Awake, RetireTypes, IsaInv, NoCode
<1>7. Machine' = MachineOf(Committed, arch_next_pc, csr, hd0.fault = FAULT_NONE,
                           hd0.fault # FAULT_NONE, hd0.fault)
  BY <1>4, <1>5 DEF Machine
<1>8. Machine = MachineOf(Committed, arch_next_pc, csr, FALSE, FALSE, FAULT_NONE)
  BY <1>6 DEF Machine
<1>9. CASE hd0.fault = FAULT_NONE
  <2>1. Architecture!StepOf(Machine) = Architecture!NoRetire([Machine EXCEPT !.halted = TRUE])
    BY <1>2, <1>9, HeadEnds
  <2> DEFINE x == Committed
             M == Machine
             c == csr
             n == arch_next_pc
             j == FAULT_NONE
             b == TRUE
             f == FALSE
  <2>2. M = MachineOf(x, n, c, f, f, j) /\ [Machine EXCEPT !.halted = TRUE] = Ended(M, b)
    BY <1>8 DEF Ended
  <2> HIDE DEF x, M, c, n, j, b, f
  <2>6. Ended(M, b) = MachineOf(x, n, c, b, f, j)
    BY <2>2, EndedIs
  <2>3. [Machine EXCEPT !.halted = TRUE] = MachineOf(Committed, arch_next_pc, csr, TRUE, FALSE, FAULT_NONE)
    BY <2>2, <2>6 DEF x, M, c, n, j, b, f
  <2>4. Machine' = MachineOf(Committed, arch_next_pc, csr, TRUE, FALSE, FAULT_NONE)
    <3>1. (hd0.fault = FAULT_NONE) = TRUE /\ (hd0.fault # FAULT_NONE) = FALSE
      BY <1>9
    <3> QED
      BY <1>7, <1>9, <3>1
  <2>5. /\ Architecture!StepOf(Machine).m = Machine' /\ Architecture!StepOf(Machine).retired = <<>>
    BY <2>1, <2>3, <2>4 DEF Architecture!NoRetire
  <2> QED
    BY <1>2, <1>5, <2>5, IsaSteps
<1>10. CASE hd0.fault # FAULT_NONE
  <2>1. \E c, v : Architecture!StepOf(Machine) =
                   Architecture!NoRetire(Architecture!raise_fault(Machine, hd0.fault, c, v))
    BY <1>2, <1>10, HeadEnds
  <2>2. ~ENABLE_TRAPS
    BY <1>2, <1>10
  <2>3. Architecture!StepOf(Machine) =
          Architecture!NoRetire([Machine EXCEPT !.fault = TRUE, !.fault_code = hd0.fault])
    BY <2>1, <2>2 DEF Architecture!raise_fault
  <2> DEFINE x == Committed
             M == Machine
             c == csr
             n == arch_next_pc
             j == FAULT_NONE
             b == TRUE
             f == FALSE
             k == hd0.fault
  <2>4. M = MachineOf(x, n, c, f, f, j) /\ [Machine EXCEPT !.fault = TRUE, !.fault_code = hd0.fault] = Faulted(M, b, k)
    BY <1>8 DEF Faulted
  <2> HIDE DEF x, M, c, n, j, b, f, k
  <2>8. Faulted(M, b, k) = MachineOf(x, n, c, f, b, k)
    BY <2>4, FaultedIs
  <2>5. [Machine EXCEPT !.fault = TRUE, !.fault_code = hd0.fault]
          = MachineOf(Committed, arch_next_pc, csr, FALSE, TRUE, hd0.fault)
    BY <2>4, <2>8 DEF x, M, c, n, j, b, f, k
  <2>6. Machine' = MachineOf(Committed, arch_next_pc, csr, FALSE, TRUE, hd0.fault)
    <3>1. (hd0.fault = FAULT_NONE) = FALSE /\ (hd0.fault # FAULT_NONE) = TRUE
      BY <1>10
    <3> QED
      BY <1>7, <3>1
  <2>7. /\ Architecture!StepOf(Machine).m = Machine' /\ Architecture!StepOf(Machine).retired = <<>>
    BY <2>3, <2>5, <2>6 DEF Architecture!NoRetire
  <2> QED
    BY <1>2, <1>5, <2>7, IsaSteps
<1> QED
  BY <1>9, <1>10

(* A serial entry that retires is the only one in flight, and the next     *)
(* instruction of the machine.                                             *)
LEMMA SystemHead ==
  ASSUME IsaInv, NEW w, NEW d, NEW chosen, EdgeHolds(w, d, chosen), w.sys_retire
  PROVE  /\ Awake /\ w.retiring = 1 /\ ~w.trap.valid /\ ~w.finishing /\ hd0 # Empty
         /\ ~w.recovered.valid /\ w.wb_valid = {} /\ retired' = <<Shows(w, hd0)>>
         /\ hd0.serial /\ hd0.value = 0 /\ hd0 = Window[1] /\ 1 \in 1 .. count /\ hd0 \in rob_entry_t
         /\ hd0.meta.pc = arch_next_pc /\ hd0.instruction \in instruction_t
         /\ hd0.meta.rd = CodeAt(arch_next_pc).rd /\ hd0.instruction = CodeAt(arch_next_pc).instruction
         /\ CodeAt(arch_next_pc).serial /\ ~CodeAt(arch_next_pc).terminal /\ NextAddress(hd0) = (arch_next_pc + 4) % WordModulus
         /\ halted' = halted /\ fault' = fault /\ fault_code' = fault_code
<1> DEFINE e == hd0
           D == CodeAt(arch_next_pc)
<1>1. Base /\ QueuesBounded /\ WiresHold(w)
  BY MachineTypes DEF EdgeHolds
<1>2. w.retiring = 1 /\ w.completions = {} /\ e.serial
  <2> HIDE DEF hd0
  <2> QED
    BY <1>1, SerialRetires DEF WiresHold
<1>3. Done(e) /\ Awake /\ ~w.trap.valid /\ ~w.finishing
  BY <1>1, <1>2, RetiringIs DEF Awake
<1>4. /\ e = Window[1] /\ 1 \in 1 .. count /\ e \in rob_entry_t /\ EntryTrue(e)
      /\ e.meta.pc = arch_next_pc /\ D \in decode_t
  BY <1>3, HeadNext DEF Done
<1> HIDE DEF e
<1>5. D.serial /\ e.value = 0 /\ e.branch = NoBranch /\ e.meta.rd = D.rd /\ e.instruction = D.instruction
  BY <1>2, <1>4 DEF EntryTrue
<1>6. ~D.terminal /\ D.instruction \in instruction_t
  BY <1>4, <1>5 DEF decode_t
<1>7. ~TakenBranch(e) /\ NextAddress(e) = (arch_next_pc + 4) % WordModulus
  BY <1>4, <1>5 DEF TakenBranch, NextAddress, NoBranch
<1>8. ~w.recovered.valid
  <2>1. w.recovered = retire_redirect(e, w.retiring, w.finishing)
    BY <1>1 DEF WiresHold, e
  <2> QED
    BY <1>7, <2>1 DEF retire_redirect, NoRedirect
<1>9. w.wb_valid = {}
  <2>1. w.completions = {wb[p] : p \in w.wb_valid}
    BY <1>1 DEF WiresHold
  <2> QED
    BY <1>2, <2>1
<1>10. /\ retired' = <<Shows(w, hd0)>> /\ halted' = halted /\ fault' = fault /\ fault_code' = fault_code
  BY <1>1, <1>2, <1>3, EdgeShows
<1>11. e # Empty
  BY <1>3 DEF Done
<1>12. /\ Awake /\ w.retiring = 1 /\ ~w.trap.valid /\ ~w.finishing /\ e # Empty
       /\ ~w.recovered.valid /\ w.wb_valid = {}
       /\ e.serial /\ e.value = 0 /\ e = Window[1] /\ 1 \in 1 .. count /\ e \in rob_entry_t
       /\ e.meta.pc = arch_next_pc /\ e.instruction \in instruction_t
       /\ e.meta.rd = D.rd /\ e.instruction = D.instruction
       /\ D.serial /\ ~D.terminal /\ NextAddress(e) = (arch_next_pc + 4) % WordModulus
  BY <1>2, <1>3, <1>4, <1>5, <1>6, <1>7, <1>8, <1>9, <1>11
<1> QED
  BY <1>10, <1>12 DEF e

(* MRET leaves the registers alone and the CSRs as before the trap.        *)
LEMMA MretEdge ==
  ASSUME IsaInv, NEW w, NEW d, NEW chosen, EdgeHolds(w, d, chosen), w.sys_retire, w.mret_commit
  PROVE  Architecture!ExecuteOne
<1> DEFINE e == hd0
           D == CodeAt(arch_next_pc)
           i == D.instruction
           c == csr
           h == halted
           g == fault
           k == fault_code
           p == arch_next_pc
           x == Committed
           n == [csr EXCEPT !.mie = csr.mpie, !.mpie = TRUE]
<1>1. /\ Awake /\ ~w.trap.valid /\ retired' = <<Shows(w, e)>> /\ e.value = 0 /\ e.meta.pc = arch_next_pc
      /\ e.meta.rd = D.rd /\ e.instruction = D.instruction /\ D.serial /\ ~D.terminal
      /\ halted' = h /\ fault' = g /\ fault_code' = k
  BY SystemHead
<1>2. w.backend_flush /\ i.op = "MRET"
  <2>1. w.backend_flush /\ hd0.instruction.op = "MRET"
    BY DEF EdgeHolds, WiresHold
  <2> QED
    BY <1>1, <2>1
<1>3. Committed' = x
  BY <1>2, FlushKeeps
<1>4. Base /\ c \in CsrRegisters /\ x \in [Arch -> Word] /\ x[0] = 0 /\ 0 \in Arch
  BY <1>1, MachineTypes, SmallWords
<1>5. arch_next_pc' = c.mepc /\ csr' = n
  BY <1>1, <1>4, EdgeLeaves
<1>6. Machine = MachineOf(x, p, c, h, g, k) /\ Machine' = MachineOf(x, c.mepc, n, h, g, k)
  BY <1>1, <1>3, <1>5 DEF Machine
<1>7. D = CodeAt(p) /\ c = csr
  OBVIOUS
<1>8. Shows(w, e) = [pc |-> p, rd |-> e.meta.rd,
                     value |-> IF e.serial /\ e.meta.rd # 0 THEN csr_old_value(w) ELSE 0]
  <2> HIDE DEF hd0
  <2> QED
    BY <1>1 DEF Shows
<1> HIDE DEF e, D, i, h, g, k, p, x
<1>9. /\ D.rd = 0
      /\ Architecture!StepOf(MachineOf(x, p, c, h, g, k)) =
           Architecture!Retire(MachineOf(x, p, n, h, g, k), 0, 0, c.mepc)
  <2>1. SerialAt(MachineOf(x, p, c, h, g, k), x, p, h, g, k, D)
    BY <1>1, <1>7 DEF SerialAt
  <2>2. MretStep(MachineOf(x, p, c, h, g, k), x, p, h, g, k, D)
    BY <1>4, <2>1, IsaSerial
  <2> QED
    BY <1>2, <2>2 DEF MretStep, i
<1> HIDE DEF c, n
<1>10. Architecture!Retire(MachineOf(x, p, n, h, g, k), 0, 0, c.mepc)
         = [m |-> MachineOf([x EXCEPT ![0] = 0], c.mepc, n, h, g, k),
            retired |-> <<[pc |-> p, rd |-> 0, value |-> 0]>>]
  <2> DEFINE z == 0
             t == c.mepc
  <2>1. z = 0
    OBVIOUS
  <2> HIDE DEF z, t
  <2>2. Architecture!Retire(MachineOf(x, p, n, h, g, k), z, z, t)
         = [m |-> MachineOf([x EXCEPT ![z] = IF z = 0 THEN 0 ELSE z], t, n, h, g, k),
            retired |-> <<[pc |-> p, rd |-> z, value |-> IF z = 0 THEN 0 ELSE z]>>]
    BY RetireIs
  <2> QED
    BY <2>1, <2>2 DEF t
<1>11. [x EXCEPT ![0] = 0] = x
  BY <1>4
<1>12. Shows(w, e) = [pc |-> p, rd |-> 0, value |-> 0]
  BY <1>1, <1>8, <1>9
<1>13. /\ Architecture!StepOf(Machine).m = Machine'
       /\ Architecture!StepOf(Machine).retired = retired'
  BY <1>1, <1>6, <1>9, <1>10, <1>11, <1>12
<1> QED
  BY <1>1, <1>13, IsaSteps

(* A CSR instruction writes its register through port 0 of the bank.       *)
LEMMA SystemWrites ==
  ASSUME IsaInv, NEW w, NEW d, NEW chosen, EdgeHolds(w, d, chosen), w.sys_retire, ~w.backend_flush,
         NEW r \in Arch
  PROVE  Committed'[r] = IF r = hd0.meta.rd /\ r # 0 THEN csr_old_value(w) ELSE Committed[r]
<1> DEFINE e == hd0
           v == csr_old_value(w)
           a == IF OUT_OF_ORDER THEN committed_map[r] ELSE r
           b == IF OUT_OF_ORDER THEN committed_map[e.meta.rd] ELSE e.meta.rd
<1>1. /\ Base /\ registers[0] = 0 /\ TypesInv /\ WindowInv /\ RenameTypes /\ RenameInv
  BY MachineTypes, BaseIs DEF Written
<1>2. /\ Awake /\ w.retiring = 1 /\ w.wb_valid = {} /\ e.serial /\ e = Window[1] /\ e \in rob_entry_t
      /\ e.value = 0 /\ 1 \in 1 .. count
  BY SystemHead
<1>3. a \in RegisterWords
  BY <1>1 DEF RenameTypes, RegisterWords
<1>4. e.meta.rd \in Arch
  <2> HIDE DEF e
  <2> QED
    BY <1>2 DEF rob_entry_t, meta_t
<1>5. Committed[r] = registers[a]
  BY DEF Committed
<1>6. Committed'[r] = registers'[a]
  <2>1. CASE OUT_OF_ORDER
    <3>1. e.meta.pdst = 0
      <4> HIDE DEF hd0
      <4> QED
        BY <1>1, <1>2, <2>1 DEF RenameInv, WritersGiven
    <3>2. \A j \in 1 .. w.retiring : j = 1
      BY <1>2
    <3>3. committed_map'[r] = committed_map[r]
      BY <1>1, <1>2, <2>1, <3>1, <3>2, CommittedMapAfter DEF WritesTo
    <3> QED
      BY <2>1, <3>3 DEF Committed
  <2>2. CASE ~OUT_OF_ORDER
    BY <2>2 DEF Committed
  <2> QED
    BY <2>1, <2>2
<1>7. /\ WritePort(w, 0) = IF e.meta.rd # 0 THEN [valid |-> TRUE, value |-> v, address |-> b]
                           ELSE IF ~OUT_OF_ORDER THEN [valid |-> TRUE, address |-> 0, value |-> 0]
                           ELSE [valid |-> FALSE, address |-> 0, value |-> 0]
      /\ WritePort(w, 1) = [valid |-> FALSE, address |-> 0, value |-> 0]
  <2>1. EntryAt(0) = e
    BY DEF EntryAt
  <2> HIDE DEF hd0
  <2>2. WritePort(w, 0) = IF e.meta.rd # 0 THEN [valid |-> TRUE, value |-> v, address |-> b]
                           ELSE IF ~OUT_OF_ORDER THEN [valid |-> TRUE, address |-> 0, value |-> 0]
                           ELSE [valid |-> FALSE, address |-> 0, value |-> 0]
    <3>1. CASE e.meta.rd # 0
      BY <3>1 DEF WritePort
    <3>2. CASE e.meta.rd = 0
      <4>1. WritePort(w, 0) = IF ~OUT_OF_ORDER /\ 0 < w.retiring
                              THEN [valid |-> TRUE, address |-> EntryAt(0).meta.rd, value |-> EntryAt(0).value]
                              ELSE [valid |-> FALSE, address |-> 0, value |-> 0]
        BY <1>2, <3>2 DEF WritePort
      <4>2. 0 < w.retiring /\ EntryAt(0).meta.rd = 0 /\ EntryAt(0).value = 0
        BY <1>2, <2>1, <3>2
      <4> QED
        BY <3>2, <4>1, <4>2
    <3> QED
      BY <3>1, <3>2
  <2>3. WritePort(w, 1) = [valid |-> FALSE, address |-> 0, value |-> 0]
    BY <1>2 DEF WritePort
  <2> QED
    BY <2>2, <2>3
<1>8. OUT_OF_ORDER => committed_map[0] = 0 /\ \A s \in Arch : committed_map[r] = committed_map[s] => r = s
  BY <1>1, <1>2 DEF RenameInv, RegistersKept, Renaming, Awake, WellKept, PlacesApart
<1>9. 0 \in Arch /\ (a = 0 <=> r = 0) /\ (a = b <=> r = e.meta.rd)
  BY <1>4, <1>8, SmallWords
<1> HIDE DEF e, v, a, b
<1>10. CASE r = e.meta.rd /\ r # 0
  <2>1. /\ a # 0 /\ WritePort(w, 0).valid /\ WritePort(w, 0).address = a /\ WritePort(w, 0).value = v
        /\ ~WritePort(w, 1).valid /\ 0 \in Lane
    BY <1>7, <1>9, <1>10 DEF Lane
  <2>2. \A s \in Lane : s > 0 => ~(WritePort(w, s).valid /\ WritePort(w, s).address = a)
    BY <2>1 DEF Lane
  <2>3. registers'[a] = WritePort(w, 0).value
    BY <1>1, <1>3, <2>1, <2>2, RegisterWritten
  <2> QED
    BY <1>6, <1>10, <2>1, <2>3 DEF e, v
<1>11. CASE ~(r = e.meta.rd /\ r # 0)
  <2>1. a = 0 \/ (\A q \in Lane : WritePort(w, q).valid => WritePort(w, q).address # a)
    <3> SUFFICES ASSUME a # 0, NEW q \in Lane, WritePort(w, q).valid PROVE WritePort(w, q).address # a
      OBVIOUS
    <3>1. q = 0
      BY <1>7 DEF Lane
    <3> QED
      BY <1>7, <1>9, <1>11, <3>1
  <2>2. registers'[a] = registers[a]
    BY <1>1, <1>3, <2>1, RegisterWritten
  <2> QED
    BY <1>5, <1>6, <1>11, <2>2 DEF e
<1> QED
  BY <1>10, <1>11

(* A CSR instruction reads the old value, and writes the CSR if it must.   *)
LEMMA CsrEdge ==
  ASSUME IsaInv, NEW w, NEW d, NEW chosen, EdgeHolds(w, d, chosen), w.sys_retire, ~w.mret_commit
  PROVE  Architecture!ExecuteOne
<1> DEFINE e == hd0
           D == CodeAt(arch_next_pc)
           i == D.instruction
           c == csr
           h == halted
           g == fault
           k == fault_code
           p == arch_next_pc
           x == Committed
           v == csr_read(i.csr, irq_external)
           n == CommittedCsr(i, x[i.rs1])
           q == (arch_next_pc + 4) % WordModulus
           y == [x EXCEPT ![i.rd] = IF i.rd = 0 THEN 0 ELSE v]
<1>1. /\ Awake /\ ~w.trap.valid /\ ~w.finishing /\ ~w.recovered.valid /\ w.retiring = 1
      /\ retired' = <<Shows(w, e)>> /\ e.value = 0 /\ e.meta.pc = arch_next_pc /\ e.serial
      /\ e.meta.rd = D.rd /\ e.instruction = i /\ i \in instruction_t /\ D.serial /\ ~D.terminal
      /\ halted' = h /\ fault' = g /\ fault_code' = k /\ NextAddress(e) = q
  BY SystemHead
<1>2. ~w.backend_flush /\ w.csr_commit /\ e.instruction.op # "MRET" /\ csr_old_value(w) = csr_read(e.instruction.csr, irq_external)
  <2>1. /\ w.backend_flush = (w.finishing \/ (w.trap.valid \/ w.mret_commit) \/ w.recovered.valid)
        /\ w.mret_commit = (ENABLE_TRAPS /\ w.sys_retire /\ e.instruction.op = "MRET")
        /\ w.csr_commit = (ENABLE_TRAPS /\ w.sys_retire /\ ~(e.instruction.op = "MRET"))
    BY DEF EdgeHolds, WiresHold
  <2>2. ENABLE_TRAPS
    BY <1>1, SerialLegal
  <2>3. csr_old_value(w) = csr_read(e.instruction.csr, irq_external)
    BY DEF csr_old_value
  <2> HIDE DEF e
  <2> QED
    BY <1>1, <2>1, <2>2, <2>3
<1>3. Base /\ c \in CsrRegisters /\ x \in [Arch -> Word] /\ x[0] = 0 /\ 0 \in Arch
  BY <1>1, MachineTypes, SmallWords
<1>4. i.rd \in Arch /\ i.rs1 \in Arch
  BY <1>1 DEF instruction_t
<1>5. CommitSource = x[i.rs1]
  <2>1. CommitSource = registers[IF OUT_OF_ORDER THEN committed_map[i.rs1] ELSE i.rs1]
    BY <1>1 DEF CommitSource
  <2> HIDE DEF i
  <2> QED
    BY <1>4, <2>1 DEF Committed
<1>6. arch_next_pc' = q /\ csr' = n
  <2>1. /\ arch_next_pc' = NextAddress(EntryAt(w.retiring - 1))
        /\ csr' = IF csr_written(e.instruction)
                  THEN WrittenCsr(e.instruction.csr,
                         csr_new_value(e.instruction, csr_read(e.instruction.csr, irq_external),
                                       csr_operand(e.instruction, CommitSource)))
                  ELSE csr
    BY <1>1, <1>2, <1>3, EdgeLeaves
  <2>2. EntryAt(w.retiring - 1) = e
    BY <1>1 DEF EntryAt
  <2> HIDE DEF e
  <2>3. csr' = CommittedCsr(e.instruction, CommitSource)
    BY <2>1 DEF CommittedCsr
  <2> QED
    BY <1>1, <1>5, <2>1, <2>2, <2>3
<1>7. D = CodeAt(p) /\ c = csr
  OBVIOUS
<1>8. SerialAt(MachineOf(x, p, c, h, g, k), x, p, h, g, k, D)
  <2> HIDE DEF D, x, h, g, k, p
  <2> QED
    BY <1>1, <1>7 DEF SerialAt
<1>9. WriteStep(MachineOf(x, p, c, h, g, k), x, p, h, g, k, D)
  <2> HIDE DEF D, x, h, g, k, p, c
  <2> QED
    BY <1>3, <1>7, <1>8, IsaSerial
<1>10. /\ D.rd = i.rd
       /\ Architecture!StepOf(MachineOf(x, p, c, h, g, k)) =
            Architecture!Retire(MachineOf(x, p, n, h, g, k), i.rd, v, q)
  BY <1>1, <1>2, <1>9 DEF WriteStep
<1>11. Shows(w, e) = [pc |-> p, rd |-> i.rd, value |-> IF i.rd = 0 THEN 0 ELSE v]
  <2> DEFINE u == csr_old_value(w)
  <2>1. Shows(w, e) = [pc |-> e.meta.pc, rd |-> e.meta.rd, value |-> IF e.serial /\ e.meta.rd # 0 THEN u ELSE e.value]
    BY DEF Shows
  <2>2. e.meta.pc = p /\ e.meta.rd = i.rd /\ e.serial /\ u = v /\ e.value = 0
    BY <1>1, <1>2, <1>10
  <2> HIDE DEF u, e, i, v, p
  <2> QED
    BY <2>1, <2>2
<1>12. Committed' = y
  <2>1. ASSUME NEW r \in Arch PROVE Committed'[r] = y[r]
    <3>1. Committed'[r] = IF r = e.meta.rd /\ r # 0 THEN csr_old_value(w) ELSE x[r]
      BY <1>2, SystemWrites
    <3>2. e.meta.rd = i.rd /\ csr_old_value(w) = v
      BY <1>1, <1>2, <1>10
    <3> DEFINE u == csr_old_value(w)
    <3> HIDE DEF u, v, x, i, e
    <3>3. y[r] = IF r = i.rd THEN IF r = 0 THEN 0 ELSE v ELSE x[r]
      BY <1>3, <1>4
    <3> QED
      BY <1>3, <3>1, <3>2, <3>3 DEF u
  <2>2. y = [r \in Arch |-> y[r]]
    <3> HIDE DEF v, i, x
    <3> QED
      BY <1>3
  <2> HIDE DEF y
  <2> QED
    BY <2>1, <2>2, CommittedIs
<1> HIDE DEF D, i, x, v, n, q, e, c, h, g, k, p
<1>13. Machine = MachineOf(x, p, c, h, g, k)
  BY DEF Machine, x, p, c, h, g, k
<1>14. Machine' = MachineOf(y, q, n, h, g, k)
  BY <1>1, <1>6, <1>12 DEF Machine
<1>15. Architecture!Retire(MachineOf(x, p, n, h, g, k), i.rd, v, q)
         = [m |-> MachineOf(y, q, n, h, g, k),
            retired |-> <<[pc |-> p, rd |-> i.rd, value |-> IF i.rd = 0 THEN 0 ELSE v]>>]
  BY RetireIs
<1>16. /\ Architecture!StepOf(Machine).m = Machine'
       /\ Architecture!StepOf(Machine).retired = retired'
  BY <1>1, <1>10, <1>11, <1>13, <1>14, <1>15
<1> QED
  BY <1>1, <1>16, IsaSteps

(* The registers after an entry that retires.                              *)
Given(y, e) == [y EXCEPT ![e.meta.rd] = IF e.meta.rd = 0 THEN 0 ELSE e.value]

(* What an entry that may retire does to the machine at its address.       *)
RetiresAs(i, y, e) ==
  /\ i \in 1 .. count /\ e = Window[i] /\ e.done /\ ~e.terminal /\ ~e.serial
  /\ y \in [Arch -> Word] /\ y[0] = 0 /\ \A r \in Arch : Before(Window, Committed, i, r, y[r])
Shown(e) == [pc |-> e.meta.pc, rd |-> e.meta.rd, value |-> e.value]

RetiresSteps(i, y, e, c, h, g, k) ==
  /\ Architecture!StepOf(MachineOf(y, e.meta.pc, c, h, g, k))
       = [m |-> MachineOf(Given(y, e), NextAddress(e), c, h, g, k), retired |-> <<Shown(e)>>]
  /\ e.branch.valid => Given(y, e) = y
  /\ Given(y, e) \in [Arch -> Word] /\ Given(y, e)[0] = 0
  /\ \A r \in Arch : Before(Window, Committed, i + 1, r, Given(y, e)[r])

(* One retiring entry more, as a relation of the registers before and after. *)
Retiring(V, x, k, y, e, z, n) ==
  /\ k \in Nat \ {0} /\ n = k + 1 /\ y \in [Arch -> Word] /\ y[0] = 0
  /\ \A r \in Arch : Before(V, x, k, r, y[r])
  /\ V[k].done /\ e = V[k].meta.rd /\ e \in Arch
  /\ z = [y EXCEPT ![e] = IF e = 0 THEN 0 ELSE V[k].value]
Standing(V, x, n, z) == \A r \in Arch : Before(V, x, n, r, z[r])

(* Where retiring an instruction leaves the machine, the next one stands.  *)
LEMMA RetiringNext ==
  ASSUME NEW V, NEW x, NEW k, NEW y, NEW e, NEW z, NEW n, Retiring(V, x, k, y, e, z, n)
  PROVE  Standing(V, x, n, z)
<1>1. /\ k \in Nat \ {0} /\ n = k + 1 /\ y \in [Arch -> Word] /\ y[0] = 0
      /\ \A r \in Arch : Before(V, x, k, r, y[r])
      /\ V[k].done /\ e = V[k].meta.rd /\ e \in Arch
      /\ z = [y EXCEPT ![e] = IF e = 0 THEN 0 ELSE V[k].value]
  BY DEF Retiring
<1>11. n - 1 = k /\ k \in 1 .. k
  BY <1>1
<1>12. \A r \in Arch : z[r] = IF r = e THEN (IF e = 0 THEN 0 ELSE V[k].value) ELSE y[r]
  BY <1>1
<1>13. 0 \in Arch
  BY SmallWords
<1>14. ASSUME NEW r \in Arch PROVE Before(V, x, n, r, z[r])
  <2>1. CASE WritesReg(V[k], r)
    <3>1. z[r] = V[k].value
      BY <1>1, <1>12, <2>1 DEF WritesReg
    <3>2. \A i \in k + 1 .. n - 1 : FALSE
      BY <1>1
    <3> QED
      BY <1>1, <1>11, <2>1, <3>1, <3>2 DEF Before
  <2>2. CASE ~WritesReg(V[k], r)
    <3>1. z[r] = y[r]
      BY <1>1, <1>12, <2>2 DEF WritesReg
    <3>2. Before(V, x, k, r, y[r])
      BY <1>1
    <3>3. \A j \in 1 .. n - 1 : j \in 1 .. k - 1 \/ j = k
      BY <1>1
    <3>4. \A j \in 1 .. k - 1 : j \in 1 .. n - 1 /\ \A i \in j + 1 .. n - 1 : i \in j + 1 .. k - 1 \/ i = k
      BY <1>1
    <3> QED
      BY <2>2, <3>1, <3>2, <3>3, <3>4 DEF Before
  <2> QED
    BY <2>1, <2>2
<1> QED
  BY <1>14 DEF Standing

(* What such an entry does to the reference's machine is what the core shows. *)
LEMMA RetiresStep ==
  ASSUME IsaInv, NEW i, NEW y, NEW e, RetiresAs(i, y, e), NEW c, NEW h, NEW g, NEW k
  PROVE  RetiresSteps(i, y, e, c, h, g, k)
<1> DEFINE D == CodeAt(e.meta.pc)
           m == MachineOf(y, e.meta.pc, c, h, g, k)
           z == Given(y, e)
           n == i + 1
           rd == e.meta.rd
           v == e.value
           p == e.meta.pc
           q == NextAddress(e)
<1>1. /\ Base /\ ValueInv /\ WindowTrue /\ WindowInv /\ TypesInv
      /\ i \in 1 .. count /\ e = Window[i] /\ e.done /\ ~e.terminal /\ ~e.serial
      /\ y \in [Arch -> Word] /\ y[0] = 0 /\ \A r \in Arch : Before(Window, Committed, i, r, y[r])
  BY MachineTypes DEF RetiresAs
<1>2. e \in rob_entry_t /\ rd \in Arch /\ v \in Word /\ i \in Nat \ {0} /\ 0 \in Word
  <2>1. e \in rob_entry_t /\ count \in Nat
    BY <1>1, WindowIs DEF WindowInv
  <2> QED
    BY <1>1, <2>1, SmallWords DEF rob_entry_t, meta_t
<1>3. EntryTrue(e)
  BY <1>1 DEF WindowTrue
<1>4. ~D.terminal /\ e.branch.fault = FAULT_NONE
  BY <1>1, <1>3 DEF EntryTrue
<1>5. D = CodeAt(e.meta.pc) /\ m = MachineOf(y, e.meta.pc, c, h, g, k)
  OBVIOUS
<1>6. /\ Architecture!StepOf(m) = Architecture!Retire(m, rd, v, q)
      /\ rd = 0 => v = 0
      /\ e.branch.valid => rd = 0
  <2> HIDE DEF D, m
  <2>1. Architecture!StepOf(m) = Architecture!Retire(m, rd, v, q)
    BY <1>1, <1>4, <1>5, EntryStep
  <2>2. rd = 0 => v = 0
    BY <1>1, <1>4, <1>5, EntryStep
  <2>3. e.branch.valid => rd = 0
    BY <1>1, <1>4, <1>5, EntryStep
  <2> QED
    BY <2>1, <2>2, <2>3
<1>7. z = [y EXCEPT ![rd] = IF rd = 0 THEN 0 ELSE v]
  BY DEF Given
<1>8. Architecture!StepOf(m) = [m |-> MachineOf(z, q, c, h, g, k), retired |-> <<Shown(e)>>]
  <2>1. Shown(e) = [pc |-> p, rd |-> rd, value |-> v]
    BY DEF Shown
  <2> HIDE DEF z, rd, v, q, p
  <2>2. Architecture!Retire(MachineOf(y, p, c, h, g, k), rd, v, q)
         = [m |-> MachineOf([y EXCEPT ![rd] = IF rd = 0 THEN 0 ELSE v], q, c, h, g, k),
            retired |-> <<[pc |-> p, rd |-> rd, value |-> IF rd = 0 THEN 0 ELSE v]>>]
    BY RetireIs
  <2>3. (IF rd = 0 THEN 0 ELSE v) = v
    BY <1>6
  <2>4. m = MachineOf(y, p, c, h, g, k)
    BY DEF p
  <2> HIDE DEF m
  <2> QED
    BY <1>6, <1>7, <2>1, <2>2, <2>3, <2>4
<1>9. e.branch.valid => z = y
  <2> HIDE DEF z, rd, v
  <2> QED
    BY <1>1, <1>2, <1>6, <1>7
<1>10. z[0] = 0 /\ \A r \in Arch : Before(Window, Committed, n, r, z[r])
  <2>1. n = i + 1 /\ rd = Window[i].meta.rd /\ v = Window[i].value /\ Window[i].done
    BY <1>1
  <2> HIDE DEF z, rd, v, n
  <2>2. z = [y EXCEPT ![rd] = IF rd = 0 THEN 0 ELSE Window[i].value]
    BY <1>7, <2>1
  <2>3. z[0] = 0
    BY <1>1, <1>2, <2>1, <2>2, BeforeNext
  <2>4. \A r \in Arch : Before(Window, Committed, n, r, z[r])
    <3>1. Retiring(Window, Committed, i, y, rd, z, n)
      BY <1>1, <1>2, <2>1, <2>2 DEF Retiring
    <3> QED
      BY <3>1, RetiringNext DEF Standing
  <2> QED
    BY <2>3, <2>4
<1>11. z \in [Arch -> Word]
  <2> HIDE DEF z, rd, v
  <2> QED
    BY <1>1, <1>2, <1>7
<1> QED
  BY <1>8, <1>9, <1>10, <1>11 DEF RetiresSteps

(* The oldest entry, when it retires.                                      *)
LEMMA OldestRetires ==
  ASSUME IsaInv, NEW w, NEW d, NEW chosen, EdgeHolds(w, d, chosen), w.retiring > 0, ~w.sys_retire
  PROVE  /\ Awake /\ ~w.trap.valid /\ ~w.finishing /\ ~w.mret_commit
         /\ RetiresAs(1, Committed, hd0) /\ hd0.meta.pc = arch_next_pc
         /\ Shows(w, hd0) = Shown(hd0) /\ csr' = csr
         /\ arch_next_pc' = NextAddress(EntryAt(w.retiring - 1))
         /\ halted' = halted /\ fault' = fault /\ fault_code' = fault_code
<1>1. Base /\ QueuesBounded /\ WiresHold(w) /\ Committed \in [Arch -> Word]
  BY MachineTypes DEF EdgeHolds
<1>2. Done(hd0) /\ ~hd0.terminal /\ Awake /\ ~w.trap.valid /\ ~w.finishing /\ w.retiring \in 0 .. 2
  BY <1>1, RetiringIs DEF Awake
<1>3. ~hd0.serial /\ ~w.mret_commit
  <2>1. /\ w.sys_retire = (w.retiring # 0 /\ hd0.serial)
        /\ w.mret_commit = (ENABLE_TRAPS /\ w.sys_retire /\ hd0.instruction.op = "MRET")
    BY <1>1 DEF WiresHold
  <2>4. w.retiring # 0
    BY <1>2
  <2> HIDE DEF hd0
  <2>5. w.sys_retire = (w.retiring # 0 /\ hd0.serial)
    BY <2>1
  <2>2. ~hd0.serial
    BY <2>4, <2>5, Zenon
  <2>3. ~w.mret_commit
    BY <2>1
  <2> QED
    BY <2>2, <2>3
<1>4. hd0 # Empty /\ hd0.done
  BY <1>2 DEF Done
<1>5. /\ 1 \in 1 .. count /\ hd0 = Window[1] /\ hd0.meta.pc = arch_next_pc
  BY <1>2, <1>4, HeadNext
<1>6. Committed[0] = 0
  BY <1>2, MachineTypes
<1>7. \A r \in Arch : Before(Window, Committed, 1, r, Committed[r])
  BY DEF Before
<1>8. RetiresAs(1, Committed, hd0)
  BY <1>1, <1>2, <1>3, <1>4, <1>5, <1>6, <1>7 DEF RetiresAs
<1>9. Shows(w, hd0) = Shown(hd0)
  <2> HIDE DEF hd0
  <2> QED
    BY <1>3 DEF Shows, Shown
<1>10. arch_next_pc' = NextAddress(EntryAt(w.retiring - 1)) /\ csr' = csr
  BY <1>1, <1>2, <1>3, EdgeLeaves
<1>11. halted' = halted /\ fault' = fault /\ fault_code' = fault_code
  BY <1>1, <1>2, EdgeShows
<1> QED
  BY <1>2, <1>3, <1>5, <1>8, <1>9, <1>10, <1>11

(* One entry retires, perhaps a taken branch that discards the rest.       *)
LEMMA OneEdge ==
  ASSUME IsaInv, NEW w, NEW d, NEW chosen, EdgeHolds(w, d, chosen), w.retiring = 1, ~w.sys_retire
  PROVE  Architecture!ExecuteOne
<1> DEFINE e == hd0
           x == Committed
           y == Given(x, e)
           p == arch_next_pc
           q == NextAddress(e)
           c == csr
           h == halted
           g == fault
           k == fault_code
<1>1. w.retiring > 0
  OBVIOUS
<1>2. /\ Awake /\ ~w.trap.valid /\ ~w.finishing /\ ~w.mret_commit
      /\ RetiresAs(1, x, e) /\ e.meta.pc = p /\ Shows(w, e) = Shown(e) /\ csr' = c
      /\ arch_next_pc' = NextAddress(EntryAt(w.retiring - 1))
      /\ halted' = h /\ fault' = g /\ fault_code' = k
  BY <1>1, OldestRetires
<1>3. arch_next_pc' = q
  <2>1. EntryAt(w.retiring - 1) = e
    BY DEF EntryAt
  <2> QED
    BY <1>2, <2>1
<1>4. Base /\ Written
  BY MachineTypes
<1>5. retired' = <<Shown(e)>>
  BY <1>2, <1>4, EdgeShows
<1>6. Machine = MachineOf(x, e.meta.pc, c, h, g, k)
  BY <1>2 DEF Machine
<1>7. /\ Architecture!StepOf(MachineOf(x, e.meta.pc, c, h, g, k))
           = [m |-> MachineOf(y, q, c, h, g, k), retired |-> <<Shown(e)>>]
      /\ e.branch.valid => y = x
      /\ y \in [Arch -> Word]
      /\ \A r \in Arch : Before(Window, Committed, 1 + 1, r, y[r])
  <2> HIDE DEF x, e, c, h, g, k
  <2>1. RetiresSteps(1, x, e, c, h, g, k)
    BY <1>2, RetiresStep
  <2> QED
    BY <2>1 DEF RetiresSteps
<1>8. Committed' = y
  <2>1. CASE w.backend_flush
    <3>1. Committed' = x
      BY <2>1, FlushKeeps
    <3>2. /\ w.backend_flush = (w.finishing \/ (w.trap.valid \/ w.mret_commit) \/ w.recovered.valid)
          /\ w.recovered = retire_redirect(e, w.retiring, w.finishing)
      BY DEF EdgeHolds, WiresHold
    <3> HIDE DEF e, x, y
    <3>3. w.recovered.valid
      BY <1>2, <2>1, <3>2
    <3>4. e.branch.valid
      BY <3>2, <3>3 DEF retire_redirect, NoRedirect, TakenBranch
    <3> QED
      BY <1>7, <3>1, <3>4
  <2>2. CASE ~w.backend_flush
    <3> HIDE DEF y
    <3>1. ASSUME NEW r \in Arch PROVE Committed'[r] = y[r]
      <4> DEFINE v == y[r]
      <4>1. Before(Window, Committed, 2, r, v)
        <5>1. 1 + 1 = 2
          OBVIOUS
        <5> QED
          BY <1>7, <5>1
      <4>2. 2 = w.retiring + 1
        OBVIOUS
      <4> HIDE DEF v
      <4>3. Committed'[r] = v
        BY <1>4, <2>2, <4>1, <4>2, RegistersAfter
      <4> QED
        BY <4>3 DEF v
    <3>2. y = [r \in Arch |-> y[r]]
      BY <1>7
    <3> QED
      BY <3>1, <3>2, CommittedIs
  <2> QED
    BY <2>1, <2>2
<1> HIDE DEF e, x, y, p, q, c, h, g, k
<1>9. Machine' = MachineOf(y, q, c, h, g, k)
  BY <1>2, <1>3, <1>8 DEF Machine
<1>10. /\ Architecture!StepOf(Machine).m = Machine'
       /\ Architecture!StepOf(Machine).retired = retired'
  BY <1>5, <1>6, <1>7, <1>9
<1> QED
  BY <1>2, <1>10, IsaSteps

(* Two entries retire: the second is where the first one leads.            *)
LEMMA TwoEdge ==
  ASSUME IsaInv, NEW w, NEW d, NEW chosen, EdgeHolds(w, d, chosen), w.retiring = 2, ~w.sys_retire
  PROVE  Architecture!ExecuteTwo
<1> DEFINE e == hd0
           f == hd1
           x == Committed
           y == Given(x, e)
           z == Given(y, f)
           q == NextAddress(f)
           c == csr
           h == halted
           g == fault
           k == fault_code
           a == [m |-> MachineOf(y, NextAddress(e), c, h, g, k), retired |-> <<Shown(e)>>]
           b == [m |-> MachineOf(z, q, c, h, g, k), retired |-> <<Shown(f)>>]
<1>1. w.retiring > 0 /\ w.retiring > 1
  OBVIOUS
<1>2. /\ Awake /\ ~w.trap.valid /\ ~w.finishing /\ ~w.mret_commit
      /\ RetiresAs(1, x, e) /\ e.meta.pc = arch_next_pc /\ Shows(w, e) = Shown(e) /\ csr' = c
      /\ arch_next_pc' = NextAddress(EntryAt(w.retiring - 1))
      /\ halted' = h /\ fault' = g /\ fault_code' = k
  BY <1>1, OldestRetires
<1>3. arch_next_pc' = q
  <2>1. 2 - 1 = 1
    OBVIOUS
  <2>2. EntryAt(w.retiring - 1) = f
    BY <2>1 DEF EntryAt
  <2> QED
    BY <1>2, <2>2
<1>4. /\ Base /\ Written /\ WindowInv /\ WindowFollows /\ QueuesBounded /\ WiresHold(w)
  BY MachineTypes DEF EdgeHolds
<1>5. /\ Done(f) /\ ~f.terminal /\ ~f.serial
  BY <1>1, <1>4, RetiringIs
<1>6. 2 \in 1 .. count /\ f = Window[2] /\ f.done /\ 1 \in 1 .. count - 1 /\ count \in Nat
  <2>1. f # Empty /\ f.done
    BY <1>5 DEF Done
  <2>2. count > 1 /\ 2 \in 1 .. count /\ f = Window[2]
    BY <1>4, <2>1, HeadIs
  <2> HIDE DEF f
  <2> QED
    BY <1>4, <2>1, <2>2 DEF QueuesBounded
<1>7. ~w.backend_flush /\ ISSUE_WIDTH = 2
  <2>1. /\ w.retiring = retire_count(e, f, w.trap.valid, retire_limit(e, f))
        /\ w.backend_flush = (w.finishing \/ (w.trap.valid \/ w.mret_commit) \/ w.recovered.valid)
        /\ w.recovered = retire_redirect(e, w.retiring, w.finishing)
    BY <1>4 DEF WiresHold
  <2> HIDE DEF e, f
  <2>2. ISSUE_WIDTH = 2 /\ retire_limit(e, f) > 1
    BY <2>1 DEF retire_count
  <2>3. ~(BRANCH_AT_RETIRE /\ TakenBranch(e))
    BY <2>2 DEF retire_limit
  <2>4. ~w.recovered.valid
    BY <2>1, <2>3 DEF retire_redirect, NoRedirect
  <2> QED
    BY <1>2, <2>1, <2>2, <2>4
<1>8. f.meta.pc = NextAddress(e)
  <2>1. Window[1] = e /\ 1 \in 1 .. w.retiring
    BY <1>2 DEF RetiresAs
  <2>2. NextAddress(Window[1]) = After(Window[1])
    BY <1>4, <1>7, <2>1, RetiredAfter
  <2>3. Window[1 + 1].meta.pc = After(Window[1])
    BY <1>2, <1>4, <1>6 DEF WindowFollows
  <2>4. 1 + 1 = 2
    OBVIOUS
  <2> HIDE DEF e, f
  <2> QED
    BY <1>6, <2>1, <2>2, <2>3, <2>4
<1>9. retired' = <<Shown(e), Shown(f)>>
  <2>1. retired' = <<Shows(w, e), Shows(w, f)>>
    BY <1>4, EdgeShows
  <2>2. Shows(w, f) = Shown(f)
    <3> HIDE DEF f
    <3> QED
      BY <1>5 DEF Shows, Shown
  <2> QED
    BY <1>2, <2>1, <2>2
<1>10. Machine = MachineOf(x, e.meta.pc, c, h, g, k)
  BY <1>2 DEF Machine
<1> HIDE DEF e, f, x, q, c, h, g, k
<1>11. /\ Architecture!StepOf(MachineOf(x, e.meta.pc, c, h, g, k)) = a
       /\ y \in [Arch -> Word] /\ y[0] = 0
       /\ \A r \in Arch : Before(Window, Committed, 1 + 1, r, y[r])
  <2>1. RetiresSteps(1, x, e, c, h, g, k)
    BY <1>2, RetiresStep
  <2> QED
    BY <2>1 DEF RetiresSteps
<1> HIDE DEF y
<1>12. RetiresAs(2, y, f)
  <2>1. 1 + 1 = 2
    OBVIOUS
  <2> QED
    BY <1>5, <1>6, <1>11, <2>1 DEF RetiresAs
<1>13. /\ Architecture!StepOf(MachineOf(y, f.meta.pc, c, h, g, k)) = b
       /\ z \in [Arch -> Word]
       /\ \A r \in Arch : Before(Window, Committed, 2 + 1, r, z[r])
  <2>1. RetiresSteps(2, y, f, c, h, g, k)
    BY <1>12, RetiresStep
  <2> QED
    BY <2>1 DEF RetiresSteps, q
<1> HIDE DEF z, a, b
<1>14. Committed' = z
  <2>1. ASSUME NEW r \in Arch PROVE Committed'[r] = z[r]
    <3> DEFINE v == z[r]
    <3>1. Before(Window, Committed, 3, r, v)
      <4>1. 2 + 1 = 3
        OBVIOUS
      <4> QED
        BY <1>13, <4>1
    <3>2. 3 = w.retiring + 1
      OBVIOUS
    <3>4. Base /\ Written /\ ~w.backend_flush
      BY <1>4, <1>7
    <3> HIDE DEF v
    <3>3. Committed'[r] = v
      BY <3>1, <3>2, <3>4, RegistersAfter
    <3> QED
      BY <3>3 DEF v
  <2>2. z = [r \in Arch |-> z[r]]
    BY <1>13
  <2> QED
    BY <2>1, <2>2, CommittedIs
<1>15. Machine' = MachineOf(z, q, c, h, g, k)
  <2>1. arch_next_pc' = q /\ csr' = c /\ halted' = h /\ fault' = g /\ fault_code' = k
    BY <1>2, <1>3
  <2> QED
    BY <1>14, <2>1 DEF Machine
<1>16. /\ a.retired = <<Shown(e)>> /\ b.retired = <<Shown(f)>> /\ a.m = MachineOf(y, f.meta.pc, c, h, g, k)
       /\ b.m = MachineOf(z, q, c, h, g, k)
  BY <1>8 DEF a, b
<1>17. a.retired # <<>> /\ b.retired # <<>> /\ retired' = a.retired \o b.retired
  BY <1>9, <1>16
<1>18. a = Architecture!StepOf(Machine) /\ b = Architecture!StepOf(a.m) /\ Machine' = b.m
  BY <1>10, <1>11, <1>13, <1>15, <1>16
<1> QED
  BY <1>2, <1>7, <1>17, <1>18, IsaSteps

-----------------------------------------------------------------------------
(* An edge of the core does what one step of the instruction set may do:   *)
(* one instruction, two, an interrupt or nothing.                          *)
LEMMA EdgeImplements ==
  ASSUME IsaInv, NEW w, NEW d, NEW chosen, EdgeHolds(w, d, chosen)
  PROVE  \/ Architecture!ExecuteOne \/ Architecture!ExecuteTwo
         \/ Architecture!Interrupt \/ Architecture!Idle
<1>1. CASE w.trap.valid
  <2>1. w.trap = trap_wire /\ trap_wire.valid
    BY <1>1, TrapEdge
  <2>2. trap_exception \/ trap_interrupt
    BY <2>1 DEF trap_wire, NoTrap, trap_taken
  <2> QED
    BY <2>2, ExceptionEdge, InterruptEdge
<1>2. CASE w.finishing
  BY <1>2, FinishEdge
<1>3. CASE w.sys_retire
  BY <1>3, MretEdge, CsrEdge
<1>4. CASE ~w.trap.valid /\ ~w.finishing /\ ~w.sys_retire
  <2>1. w.retiring \in 0 .. 2
    BY MachineTypes, RetiringIs DEF EdgeHolds
  <2>2. CASE w.retiring = 0
    BY <1>4, <2>2, QuietEdge
  <2>3. CASE w.retiring = 1
    BY <1>4, <2>3, OneEdge
  <2>4. CASE w.retiring = 2
    BY <1>4, <2>4, TwoEdge
  <2> QED
    BY <2>1, <2>2, <2>3, <2>4
<1> QED
  BY <1>1, <1>2, <1>3, <1>4

(* A reset leaves the machine as it starts.                                *)
LEMMA ResetImplements ==
  ASSUME IsaInv, ResetEdge
  PROVE  Architecture!Reset
<1>1. /\ registers' = [r \in RegisterWords |-> 0] /\ arch_next_pc' = 0 /\ retired' = <<>>
      /\ csr' = CsrResetValue /\ halted' = FALSE /\ fault' = FALSE /\ fault_code' = FAULT_NONE
      /\ committed_map' = [r \in Arch |-> r] /\ resets' = resets + 1
  BY DEF ResetEdge, CsrReset, RetireReset, RenameReset
<1>2. resets' # resets
  BY <1>1, MachineTypes DEF TypesInv, TypeOK
<1>3. Committed' = [r \in Arch |-> 0]
  <2>1. \A r \in Arch : r \in RegisterWords
    BY Tiny5Assumption DEF RegisterWords, Arch, Phys
  <2>2. \A r \in Arch : Committed'[r] = 0
    BY <1>1, <2>1 DEF Committed
  <2> DEFINE x == [r \in Arch |-> 0]
  <2>3. x = [r \in Arch |-> x[r]] /\ \A r \in Arch : Committed'[r] = x[r]
    BY <2>2
  <2> HIDE DEF x
  <2>4. Committed' = x
    BY <2>3, CommittedIs
  <2> QED
    BY <2>4 DEF x
<1>4. Machine' = Architecture!ResetState
  BY <1>1, <1>3, IsaCodes DEF Machine, MachineOf, Architecture!ResetState, CsrResetValue, Architecture!Arch, Arch
<1> QED
  BY <1>1, <1>2, <1>4, IsaSteps

(* As long as the core runs it has reported no fault.                      *)
LEMMA NoCodeStep == IsaInv /\ [Next]_vars => NoCode'
<1> SUFFICES ASSUME IsaInv, [Next]_vars, Awake' PROVE fault_code' = FAULT_NONE
  BY DEF NoCode
<1>1. Awake => fault_code = FAULT_NONE
  BY DEF IsaInv, NoCode
<1>2. CASE ResetEdge
  BY <1>2 DEF ResetEdge, RetireReset
<1>3. ASSUME NEW w, NEW d, NEW chosen, EdgeHolds(w, d, chosen)
      PROVE  fault_code' = FAULT_NONE
  <2>1. Awake /\ ~w.finishing
    BY <1>3, AwakeBefore
  <2>2. fault_code' = fault_code
    BY <1>3, <2>1, MachineTypes, EdgeShows
  <2> QED
    BY <1>1, <2>1, <2>2
<1>4. CASE UNCHANGED vars
  BY <1>1, <1>4 DEF vars, retireVars, Awake
<1> QED
  BY <1>2, <1>3, <1>4, CoreSteps DEF IsaInv

(* Every step of the core is a step of the instruction set, or none.       *)
LEMMA IsaStep == IsaInv /\ [Next]_vars => [Architecture!IsaNext]_Architecture!isaVars
<1> SUFFICES ASSUME IsaInv, [Next]_vars
             PROVE  [Architecture!IsaNext]_Architecture!isaVars
  OBVIOUS
<1>1. program' = program
  BY ProgramStays
<1>2. CASE ClockEdge
  <2>1. resets' = resets
    BY <1>2 DEF ClockEdge, EdgeAfter, EdgeWith
  <2>2. \E w, d, chosen : EdgeHolds(w, d, chosen)
    BY <1>2, BaseIs, EdgeIs DEF IsaInv, FrontTypes, ExecutionTypes
  <2> QED
    BY <1>1, <2>1, <2>2, EdgeImplements DEF Architecture!IsaNext
<1>3. CASE ResetEdge
  BY <1>1, <1>3, ResetImplements DEF Architecture!IsaNext
<1>4. CASE UNCHANGED vars
  BY <1>4 DEF vars, memoryVars, backVars, renameVars, retireVars, Architecture!isaVars
<1> QED
  BY <1>2, <1>3, <1>4 DEF Next

(* The core starts as the instruction set does.                            *)
LEMMA IsaStart == Init => NoCode /\ Architecture!IsaInit
<1> SUFFICES ASSUME Init PROVE NoCode /\ Architecture!IsaInit
  OBVIOUS
<1>1. /\ registers = [r \in RegisterWords |-> 0] /\ arch_next_pc = 0 /\ retired = <<>>
      /\ csr = CsrResetValue /\ halted = FALSE /\ fault = FALSE /\ fault_code = FAULT_NONE
      /\ committed_map = [r \in Arch |-> r]
  BY DEF Init, CsrInit, RetireInit, RenameInit
<1>2. \A r \in Arch : r \in RegisterWords
  BY Tiny5Assumption DEF RegisterWords, Arch, Phys
<1>3. [r \in Arch |-> IF OUT_OF_ORDER THEN registers[committed_map[r]] ELSE registers[r]]
        = [r \in Arch |-> 0]
  BY <1>1, <1>2
<1>4. Architecture!IsaInit
  BY <1>1, <1>3, IsaCodes DEF Architecture!IsaInit, Architecture!ResetState, CsrResetValue,
     Architecture!Arch, Arch
<1> QED
  BY <1>1, <1>4 DEF NoCode

(* The core implements the instruction set: for every configuration of the *)
(* pipeline, every program and every timing of the memory, what retires,   *)
(* the committed registers, the next address, the CSRs, the faults and the *)
(* end of the program are those of the reference CPU, which executes one   *)
(* instruction after the other (rv32im_reference_cpu.cpp).                 *)
THEOREM CoreImplementsIsa == Spec => IsaImplemented
<1>1. Init /\ Base /\ ValueInv => IsaInv /\ Architecture!IsaInit
  BY IsaStart DEF IsaInv
<1>2. IsaInv /\ [Next]_vars => NoCode' /\ [Architecture!IsaNext]_Architecture!isaVars
  BY NoCodeStep, IsaStep
<1>3. IsaInv <=> Base /\ ValueInv /\ NoCode
  BY DEF IsaInv
<1> QED
  BY <1>1, <1>2, <1>3, BaseHolds, ValuesTrue, PTL DEF Spec, IsaImplemented, Architecture!IsaSpec
=============================================================================
