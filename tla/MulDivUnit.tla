----------------------------- MODULE MulDivUnit ----------------------------
(***************************************************************************)
(* The multiply and divide unit with a user that offers it instructions,   *)
(* holding each until it is accepted or flushed, and takes results when it *)
(* likes, as the issue registers and the writeback arbiter do.             *)
(***************************************************************************)
EXTENDS MulDiv, MulDivReference

CONSTANTS Requests,     \* the instructions it may be offered: any of them first,
          Following     \* and these after another one

ASSUME FollowingAssumption == Following \subseteq Requests

(* The cluster sends it nothing else (lib/execution_cluster.sv:24).     *)
ASSUME RequestsAssumption == \A x \in Requests : x \in execute_t /\ is_muldiv(x.op)

VARIABLE offered        \* the instruction waiting at the unit, or Empty

unitVars == <<md, offered>>

UnitInit == MdInit /\ offered \in Requests

Edge(flush, out_ready) ==
  /\ MdTick(flush, offered, out_ready)
  /\ IF flush \/ offered = Empty \/ md_in_ready(out_ready)
     THEN offered' \in Following \cup {Empty}
     ELSE offered' = offered

UnitNext == \E flush, out_ready \in BOOLEAN : Edge(flush, out_ready)

(* The clock runs, and flushes are not for ever.                           *)
UnitSpec == UnitInit /\ [][UnitNext]_unitVars /\ WF_unitVars(\E r \in BOOLEAN : Edge(FALSE, r))

-----------------------------------------------------------------------------
Magnitude(a, signed) == IF signed THEN Negate(a) ELSE a

(* After k steps: the product of one factor and the low k bits of the other*)
(* (lib/muldiv_iterative.sv:71-74); quotient and remainder of the high k   *)
(* bits of the dividend, whose low bits stand above the quotient           *)
(* (lib/muldiv_iterative.sv:75-83).                                        *)
IterationExact ==
  md.busy =>
    LET x == md.request
        a == Magnitude(x.a, md.negative_a)
        b == Magnitude(x.b, md.negative_b)
        k == md.step
        high == a \div 2 ^ (XLEN - k)
        low  == a % 2 ^ (XLEN - k)
    IN IF x.op \in MulOps
       THEN /\ md.product = a * (b % 2 ^ k)
            /\ md.multiplicand = a * 2 ^ k /\ md.multiplier = b \div 2 ^ k
       ELSE /\ md.divisor = b /\ md.quotient \div 2 ^ k = low
            /\ high = b * (md.quotient % 2 ^ k) + (IF b = 0 THEN high ELSE md.remainder)
            /\ b # 0 => md.remainder < b

(* The unit keeps the promise of its port: one instruction at a time, each *)
(* answered once, with the right value and destination, the answer held    *)
(* until it is taken, none lost without a flush and none left over after   *)
(* one.  The port takes every edge with the unit's own flush, offered      *)
(* instruction and out_ready.                                              *)
Port == INSTANCE MulDivPort WITH
  working <- IF md.busy THEN md.request ELSE Empty,
  result <- md.out

EdgeImplemented ==
  \A flush, out_ready \in BOOLEAN :
    Edge(flush, out_ready) => Port!Step(flush, offered, out_ready)

PortImplemented == Port!PortInit /\ [][EdgeImplemented]_unitVars

(* An accepted instruction is finished or flushed in the end: the step     *)
(* counter reaches XLEN.                                                   *)
OperationFinishes == md.busy ~> ~md.busy
=============================================================================
