----------------------------- MODULE Execution -----------------------------
(***************************************************************************)
(* The execution cluster between the issue registers and the writeback     *)
(* registers (lib/execution_cluster.sv, lib/writeback_arbiter.sv,          *)
(* lib/elastic_reg.sv): two issue lanes share the ALUs and the multiply    *)
(* and divide unit, and the units share two writeback ports in rotation.   *)
(***************************************************************************)
EXTENDS IntegerAlu, MulDiv

VARIABLES ex,           \* issue2ex registers: lane -> execute_t or Empty
          alu,          \* result registers of the two ALUs: result_t or Empty
          next_q,       \* the arbiter's rotating first choice among the units
          wb            \* ex2wb registers: lane -> result_t or Empty

executionVars == <<ex, alu, md, next_q, wb>>

(* An elastic register takes a new word when it is empty or being emptied. *)
ElasticReady(reg, out_ready) == reg = Empty \/ out_ready
ElasticEdge(reg, in, out_ready) == IF ElasticReady(reg, out_ready) THEN in ELSE reg

Unit == 0 .. 2                  \* ALU 0, ALU 1, multiply and divide
MULDIV == 2
UnitResult(u) == IF u = MULDIV THEN md.out ELSE alu[u]
WaitingUnits == {u \in Unit : UnitResult(u) # Empty}

(* The arbiter grants port 0, then port 1, to the first unit in rotation   *)
(* that has a result.  The writeback registers are emptied on every edge,  *)
(* so both ports are always ready (core_pipeline.sv:245-248).              *)
Rotation(u) == (u - next_q) % 3
FirstOf(units) ==
  IF units = {} THEN Empty ELSE CHOOSE u \in units : \A v \in units : Rotation(u) <= Rotation(v)

Granted == LET g0 == FirstOf(WaitingUnits)
           IN [p \in Lane |-> IF p = 0 THEN g0 ELSE FirstOf(WaitingUnits \ {g0})]
result_ready(u) == \E p \in Lane : Granted[p] = u

unit_ready(u) ==
  IF u = MULDIV THEN md_in_ready(result_ready(u))
  ELSE u < ISSUE_WIDTH /\ ElasticReady(alu[u], result_ready(u))
muldiv_available == unit_ready(MULDIV)

(* The unit each lane's instruction starts on, or Empty: lane 0 first, each*)
(* lane on the lowest free unit of its kind.                               *)
UnitsFor(p) ==
  IF ex[p] = Empty THEN {}
  ELSE {u \in Unit : unit_ready(u) /\ (u = MULDIV <=> is_muldiv(ex[p].op))}
LowestOf(units) == IF units = {} THEN Empty ELSE CHOOSE u \in units : \A v \in units : u <= v
Started == LET s0 == LowestOf(UnitsFor(0))
           IN [p \in Lane |-> IF p = 0 THEN s0 ELSE LowestOf(UnitsFor(1) \ {s0})]

(* The instruction offered to a unit on this edge, or Empty.               *)
UnitInput(started, u) ==
  IF \E p \in Lane : started[p] = u THEN ex[CHOOSE p \in Lane : started[p] = u] ELSE Empty

(* in_ready of a lane, as the issue registers see it: an empty lane is     *)
(* ready whatever the units say.                                           *)
stage_ready(p) == ex[p] = Empty \/ Started[p] # Empty

ExecutionInit ==
  /\ ex = [p \in Lane |-> Empty] /\ alu = [u \in Lane |-> Empty]
  /\ next_q = 0 /\ wb = [p \in Lane |-> Empty] /\ MdInit

(* issued is lane -> execute_t or Empty, what the scheduler sends.         *)
ExecutionTick(flush, issued) ==
  LET started == Started
      granted == Granted
      taken(u) == \E p \in Lane : granted[p] = u
      last == IF granted[1] # Empty THEN granted[1] ELSE granted[0]
      Computed(x) == IF x = Empty THEN Empty ELSE AluResult(x)
  IN /\ ex' = [p \in Lane |-> IF flush THEN Empty
                              ELSE ElasticEdge(ex[p], issued[p], started[p] # Empty)]
     /\ alu' = [u \in Lane |-> IF flush THEN Empty
                               ELSE ElasticEdge(alu[u], Computed(UnitInput(started, u)), taken(u))]
     /\ MdTick(flush, UnitInput(started, MULDIV), taken(MULDIV))
     /\ wb' = [p \in Lane |-> IF flush \/ granted[p] = Empty THEN Empty
                              ELSE UnitResult(granted[p])]
     /\ next_q' = IF flush THEN 0 ELSE IF last = Empty THEN next_q ELSE (last + 1) % 3
=============================================================================
