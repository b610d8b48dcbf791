----------------------------- MODULE IntegerAlu ----------------------------
(***************************************************************************)
(* What the integer ALU and the branch comparator compute                  *)
(* (lib/integer_alu.sv), on words of XLEN bits.                            *)
(***************************************************************************)
EXTENDS Tiny5

(* The word whose bit i is one where bit[i] holds.                         *)
WordOfBits(bit) ==
  LET low[n \in 0 .. XLEN] ==            \* its n lowest bits
        IF n = 0 THEN 0 ELSE low[n - 1] + (IF bit[n - 1] THEN 2 ^ (n - 1) ELSE 0)
  IN low[XLEN]
XorBits(a, b) == [i \in 0 .. XLEN - 1 |-> Bit(a, i) # Bit(b, i)]
OrBits(a, b) == [i \in 0 .. XLEN - 1 |-> Bit(a, i) = 1 \/ Bit(b, i) = 1]
AndBits(a, b) == [i \in 0 .. XLEN - 1 |-> Bit(a, i) = 1 /\ Bit(b, i) = 1]

ShiftAmount(b) == b % XLEN          \* b[4:0]: the low bits of the operand
BoolWord(p) == IF p THEN 1 ELSE 0

Sra(a, n) == (Signed(a) \div 2 ^ n) % WordModulus

IntegerValue(op, a, b) ==
  CASE op = "ADD"  -> (a + b) % WordModulus
    [] op = "SUB"  -> (a - b) % WordModulus
    [] op = "SLL"  -> (a * 2 ^ ShiftAmount(b)) % WordModulus
    [] op = "SLT"  -> BoolWord(Signed(a) < Signed(b))
    [] op = "SLTU" -> BoolWord(a < b)
    [] op = "XOR"  -> WordOfBits(XorBits(a, b))
    [] op = "SRL"  -> a \div 2 ^ ShiftAmount(b)
    [] op = "SRA"  -> Sra(a, ShiftAmount(b))
    [] op = "OR"   -> WordOfBits(OrBits(a, b))
    [] op = "AND"  -> WordOfBits(AndBits(a, b))
    [] OTHER -> 0

BranchTaken(op, a, b) ==
  CASE op = "BEQ"  -> a = b
    [] op = "BNE"  -> a # b
    [] op = "BLT"  -> Signed(a) < Signed(b)
    [] op = "BGE"  -> Signed(a) >= Signed(b)
    [] op = "BLTU" -> a < b
    [] op = "BGEU" -> a >= b

MisalignedBranch_untaken(taken, target) == target % 4 # 0
MisalignedBranch(taken, target) == taken /\ target % 4 # 0

(* result_t of one instruction x = [meta, op, a, b, branch_offset].        *)
AluResult(x) ==
  LET taken  == BranchTaken(x.op, x.a, x.b)
      target == (x.meta.pc + x.branch_offset) % WordModulus
  IN [meta |-> x.meta,
      value |-> IF x.meta.rd = 0 THEN 0 ELSE IntegerValue(x.op, x.a, x.b),
      branch |-> IF ~is_branch(x.op) THEN NoBranch
                 ELSE [valid |-> TRUE, taken |-> taken, target |-> target,
                       fault |-> IF MisalignedBranch(taken, target)
                                 THEN FAULT_MISALIGNED ELSE FAULT_NONE]]
=============================================================================
