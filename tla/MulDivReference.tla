-------------------------- MODULE MulDivReference --------------------------
(***************************************************************************)
(* Multiplication and division on the integers the words stand for, as the *)
(* reference CPU computes them                                             *)
(* (riscv_emulator/src/rv32im_reference_cpu.cpp:305-363).                  *)
(***************************************************************************)
EXTENDS Tiny5

Abs(i) == IF i < 0 THEN -i ELSE i
Quotient(i, j) == LET q == Abs(i) \div Abs(j) IN IF (i < 0) = (j < 0) THEN q ELSE -q
HighWord(product) == (product \div WordModulus) % WordModulus

MulDivValue(op, a, b) ==
  CASE op = "MUL"    -> (a * b) % WordModulus
    [] op = "MULH"   -> HighWord(Signed(a) * Signed(b))
    [] op = "MULHSU" -> HighWord(Signed(a) * b)
    [] op = "MULHU"  -> HighWord(a * b)
    [] op = "DIV"    -> IF b = 0 THEN WordModulus - 1
                        ELSE Quotient(Signed(a), Signed(b)) % WordModulus
    [] op = "DIVU"   -> IF b = 0 THEN WordModulus - 1 ELSE a \div b
    [] op = "REM"    -> IF b = 0 THEN a
                        ELSE (Signed(a) - Signed(b) * Quotient(Signed(a), Signed(b))) % WordModulus
    [] op = "REMU"   -> IF b = 0 THEN a ELSE a % b
=============================================================================
