------------------------------- MODULE MulDiv ------------------------------
(***************************************************************************)
(* The iterative multiply and divide unit (lib/muldiv_iterative.sv): one   *)
(* operation at a time, XLEN steps of shift-and-add or of restoring        *)
(* division on the magnitudes, and one step that corrects the signs.       *)
(***************************************************************************)
EXTENDS Tiny5

VARIABLE md     \* registers of the unit; md.out is the result register

MdRegisters ==
  [busy : BOOLEAN, step : 0 .. XLEN, request : execute_t \cup {Empty},
   negative_a : BOOLEAN, negative_b : BOOLEAN,
   product : Nat, multiplicand : Nat, multiplier : Word,
   quotient : Word, divisor : Word, remainder : Nat, out : result_t \cup {Empty}]
MdTypes ==
  /\ md \in MdRegisters
  /\ md.busy => md.request \in execute_t /\ is_muldiv(md.request.op)
  /\ md.product \div WordModulus \in Word

MdReset ==
  [busy |-> FALSE, step |-> 0, request |-> Empty,
   negative_a |-> FALSE, negative_b |-> FALSE,
   product |-> 0, multiplicand |-> 0, multiplier |-> 0,
   quotient |-> 0, divisor |-> 0, remainder |-> 0, out |-> Empty]

Negate(a) == (-a) % WordModulus
SignedA(x) == Negative(x.a) /\ x.op \in {"MULH", "MULHSU", "DIV", "REM"}
SignedB_mulhsu(x) == Negative(x.b) /\ x.op \in {"MULH", "MULHSU", "DIV", "REM"}
SignedB(x) == Negative(x.b) /\ x.op \in {"MULH", "DIV", "REM"}

md_in_ready_overrun(out_ready) == md.out = Empty \/ out_ready
md_in_ready(out_ready) == ~md.busy /\ (md.out = Empty \/ out_ready)

Accept(x) ==
  LET magnitude_a == IF SignedA(x) THEN Negate(x.a) ELSE x.a
      magnitude_b == IF SignedB(x) THEN Negate(x.b) ELSE x.b
  IN [md EXCEPT !.busy = TRUE, !.request = x, !.step = 0,
        !.negative_a = SignedA(x), !.negative_b = SignedB(x),
        !.product = 0, !.multiplicand = magnitude_a, !.multiplier = magnitude_b,
        !.quotient = magnitude_a, !.divisor = magnitude_b, !.remainder = 0]

MultiplyStep ==
  [md EXCEPT !.step = @ + 1,
     !.product = IF md.multiplier % 2 = 1
                 THEN (@ + md.multiplicand) % (WordModulus * WordModulus) ELSE @,
     !.multiplicand = (@ * 2) % (WordModulus * WordModulus),
     !.multiplier = @ \div 2]

Fits_strictly(trial) == trial > md.divisor
Fits(trial) == trial >= md.divisor

DivideStep ==
  LET trial == 2 * (md.remainder % WordModulus) + Bit(md.quotient, XLEN - 1)
      fits  == Fits(trial)
      shifted == (2 * md.quotient) % WordModulus
  IN [md EXCEPT !.step = @ + 1,
        !.remainder = IF fits THEN trial - md.divisor ELSE trial,
        !.quotient = IF fits THEN shifted + 1 ELSE shifted]

final_value ==
  LET r == md.request
      opposite == md.negative_a # md.negative_b
      product == IF opposite THEN (-md.product) % (WordModulus * WordModulus)
                 ELSE md.product
      quotient == IF opposite THEN Negate(md.quotient) ELSE md.quotient
      rest == md.remainder % WordModulus
      remainder == IF md.negative_a THEN Negate(rest) ELSE rest
  IN CASE r.meta.rd = 0 -> 0
       [] r.meta.rd # 0 /\ r.op = "MUL" -> product % WordModulus
       [] r.meta.rd # 0 /\ r.op \in MulOps \ {"MUL"} -> product \div WordModulus
       [] r.meta.rd # 0 /\ r.op \in {"DIV", "DIVU"} ->
            IF r.b = 0 THEN WordModulus - 1 ELSE quotient
       [] r.meta.rd # 0 /\ r.op \in {"REM", "REMU"} ->
            IF r.b = 0 THEN r.a ELSE remainder

Complete ==
  [md EXCEPT !.busy = FALSE,
     !.out = [meta |-> md.request.meta, value |-> final_value, branch |-> NoBranch]]

(* The registers after an edge; x is the instruction offered, or Empty.    *)
(* A result taken on this edge is cleared before a new one is written.     *)
MdEdge(x, out_ready) ==
  IF md.busy /\ md.step = XLEN THEN Complete
  ELSE [ (IF x # Empty /\ md_in_ready(out_ready) THEN Accept(x)
          ELSE IF ~md.busy THEN md
          ELSE IF md.request.op \in MulOps THEN MultiplyStep
          ELSE DivideStep)
         EXCEPT !.out = IF out_ready THEN Empty ELSE @ ]

MdInit == md = MdReset
MdTick_flushed_when_done(flush, x, out_ready) ==
  md' = IF flush /\ ~md.busy THEN MdReset ELSE MdEdge(x, out_ready)
MdTick(flush, x, out_ready) == md' = IF flush THEN MdReset ELSE MdEdge(x, out_ready)
=============================================================================
