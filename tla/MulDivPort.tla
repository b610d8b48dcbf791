----------------------------- MODULE MulDivPort ----------------------------
(***************************************************************************)
(* What the multiply and divide unit promises its user: it works on one    *)
(* instruction at a time, and then holds the instruction's result, with    *)
(* the value arithmetic gives it, until it is taken.  A flush forgets      *)
(* both.  A step takes the inputs of a clock edge, and they determine it   *)
(* but for one thing: when the result is ready.                            *)
(***************************************************************************)
EXTENDS MulDivReference

CONSTANT Requests       \* the instructions it may be offered

VARIABLES working,      \* the instruction it works on, or Empty
          result        \* the result it holds, or Empty

Answer(x) ==
  [meta |-> x.meta, branch |-> NoBranch,
   value |-> IF x.meta.rd = 0 THEN 0 ELSE MulDivValue(x.op, x.a, x.b)]

PortInit == working = Empty /\ result = Empty

(* It accepts what is offered as soon as it has nothing to do and its      *)
(* result register is empty or being emptied.                              *)
Accepted(x, out_ready) == x # Empty /\ working = Empty /\ (result = Empty \/ out_ready)

Forget == working' = Empty /\ result' = Empty
Start(x) == working' = x /\ result' = Empty
Finish == working # Empty /\ result = Empty /\ result' = Answer(working) /\ working' = Empty
Work == working # Empty /\ working' = working /\ result' = result
Hold(out_ready) ==
  /\ working = Empty /\ working' = Empty
  /\ result' = IF out_ready THEN Empty ELSE result

(* A clock edge; x is the instruction offered, or Empty.                   *)
Step(flush, x, out_ready) ==
  \/ flush /\ Forget
  \/ ~flush /\ Accepted(x, out_ready) /\ Start(x)
  \/ ~flush /\ ~Accepted(x, out_ready) /\ (Finish \/ Work \/ Hold(out_ready))

PortNext == \E flush, out_ready \in BOOLEAN, x \in Requests \cup {Empty} : Step(flush, x, out_ready)

PortSpec == PortInit /\ [][PortNext]_<<working, result>>
=============================================================================
