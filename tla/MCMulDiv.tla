------------------------------ MODULE MCMulDiv -----------------------------
(***************************************************************************)
(* Every operation on every pair of four-bit words first; then the corners:*)
(* overflow, division by zero and by one, a discarded result.              *)
(***************************************************************************)
EXTENDS MulDivUnit

Ask(op, a, b, rd) ==
  [op |-> op, a |-> a, b |-> b, branch_offset |-> 0,
   meta |-> [pc |-> 0, rd |-> rd, tag |-> 0, pdst |-> rd, old_pdst |-> 0]]

Corners == {Ask("DIV", 8, 15, 1), Ask("REM", 9, 0, 1), Ask("MULHSU", 8, 15, 1), Ask("DIVU", 15, 1, 0)}
EveryRequest == {Ask(op, a, b, 1) : op \in MulOps \cup DivOps, a \in Word, b \in Word} \cup Corners
=============================================================================
