------------------------------- MODULE Tiny5 -------------------------------
(***************************************************************************)
(* Types shared by the pipeline (pkg/tiny5_pkg.sv): operations, fault and  *)
(* cause codes, machine words.  A word has XLEN bits (32 in the code); the *)
(* depths of the code (ROB 16, issue queue 8, 64 physical and 32           *)
(* architectural registers) are parameters.  An elastic register or a slot *)
(* whose valid bit is clear is Empty: stale data behind a clear valid bit  *)
(* is not kept.                                                            *)
(***************************************************************************)
EXTENDS Integers, Sequences, FiniteSets

CONSTANTS XLEN, RobDepth, IqDepth, PhysRegs, ArchRegs, Empty

(* Parameters of core_pipeline.  Its instances are tiny5_single_inorder,   *)
(* tiny5_dual_inorder, tiny5_dual_ooo and tiny5_dual_ooo_retire.           *)
CONSTANTS ISSUE_WIDTH, OUT_OF_ORDER, BRANCH_AT_RETIRE, ENABLE_TRAPS

ASSUME ConfigurationAssumption ==
  /\ ISSUE_WIDTH \in {1, 2}
  /\ OUT_OF_ORDER \in BOOLEAN /\ BRANCH_AT_RETIRE \in BOOLEAN /\ ENABLE_TRAPS \in BOOLEAN
  /\ BRANCH_AT_RETIRE => OUT_OF_ORDER              \* core_pipeline.sv:267

ASSUME Tiny5Assumption ==
  /\ XLEN \in {4, 8, 16, 32}
  /\ RobDepth \in Nat /\ RobDepth >= 2
  /\ IqDepth \in Nat /\ IqDepth >= 2
  /\ ArchRegs \in Nat /\ ArchRegs >= 1
  /\ PhysRegs \in Nat /\ PhysRegs >= ArchRegs

(* What the provers need to be told of powers of two.                      *)
ASSUME PowerAssumption ==
  2 ^ 0 = 1 /\ \A n \in 0 .. XLEN - 1 : 2 ^ n \in Nat /\ 2 ^ (n + 1) = 2 * 2 ^ n

WordModulus == 2 ^ XLEN
Word == 0 .. WordModulus - 1
Bit(a, i) == (a \div 2 ^ i) % 2
Negative(a) == Bit(a, XLEN - 1) = 1
Signed(a) == IF Negative(a) THEN a - WordModulus ELSE a

OneOrTwo(n) == IF n >= 2 THEN 2 ELSE n        \* counts travel on two-bit wires
Lower(a, b) == IF a < b THEN a ELSE b

RobTag == 0 .. RobDepth - 1
Phys == 0 .. PhysRegs - 1
Arch == 0 .. ArchRegs - 1
Lane == 0 .. 1

MulOps == {"MUL", "MULH", "MULHSU", "MULHU"}
DivOps == {"DIV", "DIVU", "REM", "REMU"}
BranchOps == {"BEQ", "BNE", "BLT", "BGE", "BLTU", "BGEU"}
IntegerOps == {"ADD", "SUB", "SLL", "SLT", "SLTU", "XOR", "SRL", "SRA", "OR", "AND"}
op_t == IntegerOps \cup MulOps \cup DivOps \cup BranchOps
is_muldiv(op) == op \in MulOps \cup DivOps
is_branch(op) == op \in BranchOps

FAULT_NONE == "none"
FAULT_ILLEGAL == "illegal"
FAULT_ACCESS == "access"
FAULT_MISALIGNED == "misaligned"

CAUSE_INSTR_MISALIGNED == 0
CAUSE_INSTR_ACCESS == 1
CAUSE_ILLEGAL == 2
CAUSE_BREAKPOINT == 3
CAUSE_ECALL_M == 11
CAUSE_EXTERNAL == 2 ^ (XLEN - 1) + 11

FaultCode == {FAULT_NONE, FAULT_ILLEGAL, FAULT_ACCESS, FAULT_MISALIGNED}

(* The packets between the components.                                     *)
meta_t == [pc : Word, rd : Arch, tag : RobTag, pdst : Phys, old_pdst : Phys]
operand_t == [ready : BOOLEAN, tag : Phys, value : Word]
issue_t == [meta : meta_t, op : op_t, a : operand_t, b : operand_t, branch_offset : Word]
execute_t == [meta : meta_t, op : op_t, a : Word, b : Word, branch_offset : Word]
branch_result_t ==
  [valid : BOOLEAN, taken : BOOLEAN, target : Word, fault : {FAULT_NONE, FAULT_MISALIGNED}]
result_t == [meta : meta_t, value : Word, branch : branch_result_t]

ASSUME EmptyAssumption ==
  Empty \notin Nat /\ Empty \notin issue_t /\ Empty \notin execute_t /\ Empty \notin result_t

NoBranch == [valid |-> FALSE, taken |-> FALSE, target |-> 0, fault |-> FAULT_NONE]
=============================================================================
