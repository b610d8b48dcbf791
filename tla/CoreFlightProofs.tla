-------------------------- MODULE CoreFlightProofs --------------------------
(***************************************************************************)
(* The instructions in flight: where each of them is, and that it is there *)
(* once, as itself; then register renaming and the operands that wait: no  *)
(* physical register is lost or given twice, and no waiting operand misses *)
(* its result.                                                             *)
(***************************************************************************)
EXTENDS CoreTypesProofs

-----------------------------------------------------------------------------
(* The issue queue on an edge.                                             *)
Woke(q, completions) ==
  [q EXCEPT !.a = WokenOperand(@, completions), !.b = WokenOperand(@, completions)]

(* A woken instruction is the same instruction with its operands woken.    *)
LEMMA WokeIs ==
  ASSUME NEW completions \in SUBSET result_t, NEW q \in issue_t
  PROVE  /\ Woke(q, completions) \in issue_t /\ Woke(q, completions) # Empty
         /\ Woke(q, completions).meta = q.meta /\ Woke(q, completions).op = q.op
         /\ Woke(q, completions).a = WokenOperand(q.a, completions)
         /\ Woke(q, completions).b = WokenOperand(q.b, completions)
<1> DEFINE a == WokenOperand(q.a, completions)
           b == WokenOperand(q.b, completions)
           new == Woke(q, completions)
<1>1. a \in operand_t /\ b \in operand_t
  BY WokenType DEF issue_t
<1>2. new = [q EXCEPT !.a = a, !.b = b]
  BY DEF Woke
<1> HIDE DEF a, b, new
<1>3. new \in issue_t /\ new.meta = q.meta /\ new.op = q.op /\ new.a = a /\ new.b = b
  BY <1>1, <1>2 DEF issue_t
<1> QED
  BY <1>3, EmptyAssumption DEF new, a, b

(* New entries take the slots seat[1], seat[2]; the others stay or leave.  *)
Seated(seat, remove, enqueue, completions) ==
  /\ \A i \in 1 .. Len(enqueue) :
       /\ seat[i] \in Slot /\ (iq[seat[i]] = Empty \/ seat[i] \in remove)
       /\ iq'[seat[i]] = Woke(enqueue[i], completions)
  /\ Len(enqueue) = 2 => seat[1] # seat[2]
  /\ \A s \in Slot : (~ \E i \in 1 .. Len(enqueue) : seat[i] = s) =>
       iq'[s] = IF s \in remove \/ iq[s] = Empty THEN Empty ELSE Woke(iq[s], completions)

(* Waking the queue wakes each entry in its slot.                          *)
LEMMA WakeIs ==
  ASSUME NEW completions, NEW queue, NEW s \in Slot
  PROVE  Wake(queue, completions)[s] = IF queue[s] = Empty THEN Empty ELSE Woke(queue[s], completions)
BY DEF Wake, Woke

(* An instruction enqueued takes one free slot and disturbs no other.      *)
LEMMA TakesSlot ==
  ASSUME NEW queue \in [Slot -> issue_t \cup {Empty}], NEW entry \in issue_t, FreeSlots(queue) # {}
  PROVE  /\ Enqueue(queue, entry) \in [Slot -> issue_t \cup {Empty}]
         /\ \E s \in FreeSlots(queue) : Enqueue(queue, entry) = [queue EXCEPT ![s] = entry]
BY EnqueueIs

(* A set of two has another element than a given one.                      *)
LEMMA TwoElements ==
  ASSUME NEW S, IsFiniteSet(S), Cardinality(S) >= 2, NEW x
  PROVE  S \ {x} # {}
<1>1. Cardinality(S) \in Nat
  BY FS_CardinalityType
<1>2. CASE x \in S
  <2>1. Cardinality(S \ {x}) = Cardinality(S) - 1 /\ IsFiniteSet(S \ {x})
    BY <1>2, FS_RemoveElement
  <2>2. Cardinality(S \ {x}) # 0
    BY <1>1, <2>1
  <2> QED
    BY <2>1, <2>2, FS_EmptySet
<1>3. CASE x \notin S
  <2>1. S \ {x} = S
    BY <1>3
  <2>2. S # {}
    BY <1>1, FS_EmptySet
  <2> QED
    BY <2>1, <2>2
<1> QED
  BY <1>2, <1>3

(* An edge of the issue queue seats every new instruction in a slot of its *)
(* own, free or freed on the edge, and keeps the others                    *)
(* (lib/issue_queue.sv).                                                   *)
LEMMA SeatedIs ==
  ASSUME iq \in [Slot -> issue_t \cup {Empty}], NEW remove, NEW enqueue \in Seq(issue_t),
         Len(enqueue) \in 0 .. 2, Len(enqueue) <= iq_capacity,
         NEW completions \in SUBSET result_t, NEW flush, ~flush,
         IssueTick(flush, remove, enqueue, completions)
  PROVE  \E seat : Seated(seat, remove, enqueue, completions)
<1> DEFINE Q == [Slot -> issue_t \cup {Empty}]
           n == Len(enqueue)
           kept == Without(iq, remove)
           first == IF n >= 1 THEN Enqueue(kept, enqueue[1]) ELSE kept
           both == IF n = 2 THEN Enqueue(first, enqueue[2]) ELSE first
<1>1. kept \in Q /\ \A s \in Slot : kept[s] = IF s \in remove THEN Empty ELSE iq[s]
  BY DEF Without
<1>2. (n >= 1 => enqueue[1] \in issue_t) /\ (n = 2 => enqueue[2] \in issue_t)
  BY LenProperties
<1>3. iq' = Wake(both, completions)
  BY DEF IssueTick
<1>4. /\ FreeSlots(iq) \subseteq Slot /\ IsFiniteSet(FreeSlots(iq))
      /\ Cardinality(FreeSlots(iq)) \in Nat
  <2>1. IsFiniteSet(Slot)
    BY FS_Interval, Tiny5Assumption DEF Slot
  <2> QED
    BY <2>1, FS_Subset, FS_CardinalityType DEF FreeSlots
<1>5. /\ n >= 1 => Cardinality(FreeSlots(iq)) >= 1
      /\ n = 2 => Cardinality(FreeSlots(iq)) >= 2
  <2> HIDE DEF n
  <2>1. n \in 0 .. 2 /\ n <= iq_capacity
    BY DEF n
  <2> QED
    BY <1>4, <2>1 DEF iq_capacity, OneOrTwo
<1>6. FreeSlots(iq) \subseteq FreeSlots(kept)
  BY <1>1 DEF FreeSlots
<1>7. n >= 1 => FreeSlots(kept) # {}
  <2>1. n >= 1 => FreeSlots(iq) # {}
    BY <1>4, <1>5, FS_EmptySet
  <2> QED
    BY <1>6, <2>1
<1> HIDE DEF kept
<1>8. n >= 1 => first \in Q /\ \E s \in FreeSlots(kept) : first = [kept EXCEPT ![s] = enqueue[1]]
  <2> SUFFICES ASSUME n >= 1
               PROVE  first \in Q /\ \E s \in FreeSlots(kept) : first = [kept EXCEPT ![s] = enqueue[1]]
    OBVIOUS
  <2>1. first = Enqueue(kept, enqueue[1])
    OBVIOUS
  <2>2. kept \in [Slot -> issue_t \cup {Empty}] /\ enqueue[1] \in issue_t /\ FreeSlots(kept) # {}
    BY <1>1, <1>2, <1>7
  <2> HIDE DEF first
  <2> QED
    BY <2>1, <2>2, TakesSlot
<1>9. ~(n >= 1) => first = kept
  OBVIOUS
<1> HIDE DEF first
<1>10. n \in 0 .. 2
  OBVIOUS
<1> HIDE DEF n
<1>11. CASE n = 0
  <2>1. iq' = Wake(kept, completions)
    BY <1>3, <1>9, <1>11 DEF both
  <2>2. \A s \in Slot : iq'[s] = IF kept[s] = Empty THEN Empty ELSE Woke(kept[s], completions)
    BY <2>1, WakeIs
  <2>3. Seated(<<>>, remove, enqueue, completions)
    <3>1. 1 .. Len(enqueue) = {} /\ Len(enqueue) # 2
      BY <1>11 DEF n
    <3> QED
      BY <1>1, <2>2, <3>1 DEF Seated
  <2> QED
    BY <2>3
<1>12. CASE n = 1
  <2>1. PICK s1 \in FreeSlots(kept) : first = [kept EXCEPT ![s1] = enqueue[1]]
    BY <1>8, <1>12
  <2>2. iq' = Wake(first, completions) /\ first \in Q
    BY <1>3, <1>8, <1>12 DEF both
  <2>3. \A s \in Slot : iq'[s] = IF first[s] = Empty THEN Empty ELSE Woke(first[s], completions)
    BY <2>2, WakeIs
  <2>4. s1 \in Slot /\ kept[s1] = Empty /\ enqueue[1] \in issue_t /\ enqueue[1] # Empty
    BY <1>2, <1>12, <2>1, EmptyAssumption DEF FreeSlots
  <2>5. /\ first[s1] = enqueue[1] /\ \A s \in Slot : s # s1 => first[s] = kept[s]
    BY <1>1, <2>1, <2>4
  <2> DEFINE seat == [i \in 1 .. 2 |-> s1]
  <2>6. /\ iq'[s1] = Woke(enqueue[1], completions)
        /\ \A s \in Slot : s # s1 =>
             iq'[s] = IF s \in remove \/ iq[s] = Empty THEN Empty ELSE Woke(iq[s], completions)
    BY <1>1, <2>3, <2>4, <2>5
  <2>7. \A i \in 1 .. Len(enqueue) : i = 1 /\ seat[i] = s1
    BY <1>12 DEF n
  <2>8. 1 \in 1 .. Len(enqueue) /\ Len(enqueue) # 2
    BY <1>12 DEF n
  <2>9. iq[s1] = Empty \/ s1 \in remove
    BY <1>1, <2>4
  <2> HIDE DEF seat
  <2>10. Seated(seat, remove, enqueue, completions)
    BY <2>4, <2>6, <2>7, <2>8, <2>9 DEF Seated
  <2> QED
    BY <2>10
<1>13. CASE n = 2
  <2>1. PICK s1 \in FreeSlots(kept) : first = [kept EXCEPT ![s1] = enqueue[1]]
    BY <1>8, <1>13
  <2>2. s1 \in Slot /\ kept[s1] = Empty /\ enqueue[1] \in issue_t /\ enqueue[1] # Empty
    BY <1>2, <1>13, <2>1, EmptyAssumption DEF FreeSlots
  <2>3. first \in Q /\ first[s1] = enqueue[1] /\ \A s \in Slot : s # s1 => first[s] = kept[s]
    BY <1>1, <1>8, <1>13, <2>1, <2>2
  <2>4. FreeSlots(first) # {}
    <3>1. FreeSlots(iq) \ {s1} # {}
      BY <1>4, <1>5, <1>13, TwoElements
    <3>2. FreeSlots(kept) \ {s1} \subseteq FreeSlots(first)
      BY <2>3 DEF FreeSlots
    <3> QED
      BY <1>6, <3>1, <3>2
  <2>5. enqueue[2] \in issue_t /\ enqueue[2] # Empty
    BY <1>2, <1>13, EmptyAssumption
  <2>6. both = Enqueue(first, enqueue[2])
    BY <1>13 DEF both
  <2> HIDE DEF both
  <2>7. both \in Q /\ \E s \in FreeSlots(first) : both = [first EXCEPT ![s] = enqueue[2]]
    <3>1. first \in [Slot -> issue_t \cup {Empty}]
      BY <2>3
    <3> QED
      BY <2>4, <2>5, <2>6, <3>1, TakesSlot
  <2>8. PICK s2 \in FreeSlots(first) : both = [first EXCEPT ![s2] = enqueue[2]]
    BY <2>7
  <2>9. s2 \in Slot /\ first[s2] = Empty /\ s2 # s1
    BY <2>2, <2>3, <2>8 DEF FreeSlots
  <2>10. /\ both[s2] = enqueue[2] /\ both[s1] = enqueue[1]
         /\ \A s \in Slot : s # s1 /\ s # s2 => both[s] = kept[s]
    BY <2>2, <2>3, <2>8, <2>9
  <2>11. \A s \in Slot : iq'[s] = IF both[s] = Empty THEN Empty ELSE Woke(both[s], completions)
    BY <1>3, WakeIs
  <2> DEFINE seat == [i \in 1 .. 2 |-> IF i = 1 THEN s1 ELSE s2]
  <2>12. /\ iq'[s1] = Woke(enqueue[1], completions) /\ iq'[s2] = Woke(enqueue[2], completions)
         /\ \A s \in Slot : s # s1 /\ s # s2 =>
              iq'[s] = IF s \in remove \/ iq[s] = Empty THEN Empty ELSE Woke(iq[s], completions)
    BY <1>1, <2>2, <2>5, <2>9, <2>10, <2>11
  <2>13. seat[1] = s1 /\ seat[2] = s2
    OBVIOUS
  <2>14. Len(enqueue) = 2 /\ \A i \in 1 .. Len(enqueue) : i = 1 \/ i = 2
    BY <1>13 DEF n
  <2>15. 1 \in 1 .. Len(enqueue) /\ 2 \in 1 .. Len(enqueue)
    BY <2>14
  <2>16. (iq[s1] = Empty \/ s1 \in remove) /\ (iq[s2] = Empty \/ s2 \in remove)
    BY <1>1, <2>2, <2>3, <2>9
  <2> HIDE DEF seat
  <2>17. /\ \A i \in 1 .. Len(enqueue) :
               /\ seat[i] \in Slot /\ (iq[seat[i]] = Empty \/ seat[i] \in remove)
               /\ iq'[seat[i]] = Woke(enqueue[i], completions)
    BY <2>2, <2>9, <2>12, <2>13, <2>14, <2>16
  <2>18. Seated(seat, remove, enqueue, completions)
    BY <2>9, <2>12, <2>13, <2>15, <2>17 DEF Seated
  <2> QED
    BY <2>18
<1> QED
  BY <1>10, <1>11, <1>12, <1>13

-----------------------------------------------------------------------------
(* The multiply and divide unit: it holds one instruction, either at work  *)
(* or as a result.                                                         *)
MdOne == md.busy => md.out = Empty

(* What an edge does to an operation in the multiply and divide unit:      *)
(* accepted, worked on, finished, delivered or kept.                       *)
LEMMA MdFlow ==
  ASSUME MdTypes, MdOne, NEW x \in execute_t \cup {Empty}, NEW taken,
         x # Empty => md_in_ready(taken), MdTick(FALSE, x, taken)
  PROVE  /\ MdOne'
         /\ x # Empty => /\ md'.busy /\ md'.request = x /\ md'.out = Empty
                         /\ ~md.busy /\ (md.out = Empty \/ taken)
         /\ x = Empty /\ md.busy /\ md.step = XLEN =>
              /\ ~md'.busy /\ md'.out # Empty /\ md'.out.meta = md.request.meta
              /\ md'.out.branch = NoBranch
         /\ x = Empty /\ md.busy /\ md.step # XLEN =>
              md'.busy /\ md'.request = md.request /\ md'.out = Empty
         /\ x = Empty /\ ~md.busy => ~md'.busy /\ md'.out = IF taken THEN Empty ELSE md.out
<1>1. md \in MdRegisters /\ (md.busy => md.request \in execute_t) /\ md.busy \in BOOLEAN
  BY DEF MdTypes, MdRegisters
<1>2. md' = MdEdge(x, taken)
  BY DEF MdTick
<1>3. x # Empty => ~md.busy /\ (md.out = Empty \/ taken)
  BY DEF md_in_ready
<1>4. CASE md.busy /\ md.step = XLEN
  <2> DEFINE r == [meta |-> md.request.meta, value |-> final_value, branch |-> NoBranch]
  <2>1. md' = [md EXCEPT !.busy = FALSE, !.out = r]
    BY <1>2, <1>4 DEF MdEdge, Complete
  <2>2. r \in result_t
    <3>1. final_value \in Word /\ md.request \in execute_t /\ 0 \in Word
      BY <1>4, FinalValueType, WordSize DEF MdTypes, Word
    <3> QED
      BY <3>1 DEF result_t, execute_t, NoBranch, branch_result_t
  <2>3. r.meta = md.request.meta /\ r # Empty /\ r.branch = NoBranch
    BY <2>2, EmptyAssumption
  <2> HIDE DEF r
  <2>4. md'.busy = FALSE /\ md'.out = r
    BY <1>1, <2>1 DEF MdRegisters
  <2> QED
    BY <1>3, <1>4, <2>3, <2>4 DEF MdOne
<1>5. CASE ~(md.busy /\ md.step = XLEN) /\ x # Empty
  <2> DEFINE m == Accept(x)
  <2>1. md' = [m EXCEPT !.out = IF taken THEN Empty ELSE @]
    BY <1>2, <1>5 DEF MdEdge
  <2>2. m.busy = TRUE /\ m.request = x /\ m.out = md.out /\ DOMAIN m = DOMAIN md
    BY <1>1 DEF Accept, MdRegisters
  <2>3. DOMAIN md = {"busy", "step", "request", "negative_a", "negative_b", "product",
                     "multiplicand", "multiplier", "quotient", "divisor", "remainder", "out"}
    BY <1>1 DEF MdRegisters
  <2> HIDE DEF m
  <2>4. md'.busy = TRUE /\ md'.request = x /\ md'.out = IF taken THEN Empty ELSE md.out
    BY <2>1, <2>2, <2>3
  <2> QED
    BY <1>3, <1>5, <2>4 DEF MdOne
<1>6. CASE ~(md.busy /\ md.step = XLEN) /\ x = Empty /\ ~md.busy
  <2>1. md' = [md EXCEPT !.out = IF taken THEN Empty ELSE @]
    BY <1>2, <1>6 DEF MdEdge
  <2>2. md'.busy = md.busy /\ md'.out = IF taken THEN Empty ELSE md.out
    BY <1>1, <2>1 DEF MdRegisters
  <2> QED
    BY <1>6, <2>2 DEF MdOne
<1>7. CASE ~(md.busy /\ md.step = XLEN) /\ x = Empty /\ md.busy
  <2> DEFINE m == IF md.request.op \in MulOps THEN MultiplyStep ELSE DivideStep
  <2>1. md' = [m EXCEPT !.out = IF taken THEN Empty ELSE @]
    BY <1>2, <1>7 DEF MdEdge
  <2>2. m.busy = md.busy /\ m.request = md.request /\ m.out = md.out /\ DOMAIN m = DOMAIN md
    BY <1>1 DEF MultiplyStep, DivideStep, MdRegisters
  <2>3. DOMAIN md = {"busy", "step", "request", "negative_a", "negative_b", "product",
                     "multiplicand", "multiplier", "quotient", "divisor", "remainder", "out"}
    BY <1>1 DEF MdRegisters
  <2> HIDE DEF m
  <2>4. md'.busy = md.busy /\ md'.request = md.request /\ md'.out = IF taken THEN Empty ELSE md.out
    BY <2>1, <2>2, <2>3
  <2> QED
    BY <1>7, <2>4 DEF MdOne
<1> QED
  BY <1>1, <1>4, <1>5, <1>6, <1>7

-----------------------------------------------------------------------------
(* The execution cluster on an edge: where the instruction of each register*)
(* goes, and where the instruction of each register comes from.            *)
Starts(u) == \E p \in Lane : Started[p] = u
Leaves(u) == \E p \in Lane : Granted[p] = u

ExecutionMoves(issued) ==
  /\ \A p \in Lane : ex'[p] = IF stage_ready(p) THEN issued[p] ELSE ex[p]
  /\ \A u \in Lane : \A p \in Lane : Started[p] = u => alu'[u] = AluResult(ex[p])
  /\ \A u \in Lane : Starts(u) => alu[u] = Empty \/ Leaves(u)
  /\ \A u \in Lane : ~Starts(u) => alu'[u] = IF Leaves(u) THEN Empty ELSE alu[u]
  /\ \A p \in Lane : wb'[p] = IF Granted[p] = Empty THEN Empty ELSE UnitResult(Granted[p])
  /\ \A p \in Lane : Started[p] = MULDIV =>
       /\ md'.busy /\ md'.request = ex[p] /\ md'.out = Empty
       /\ ~md.busy /\ (md.out = Empty \/ Leaves(MULDIV))
  /\ ~Starts(MULDIV) /\ md.busy /\ md.step = XLEN =>
       /\ ~md'.busy /\ md'.out # Empty /\ md'.out.meta = md.request.meta
       /\ md'.out.branch = NoBranch
  /\ ~Starts(MULDIV) /\ md.busy /\ md.step # XLEN =>
       md'.busy /\ md'.request = md.request /\ md'.out = Empty
  /\ ~Starts(MULDIV) /\ ~md.busy => ~md'.busy /\ md'.out = IF Leaves(MULDIV) THEN Empty ELSE md.out

(* Through the execution cluster an instruction moves on or stays: none is *)
(* dropped, doubled or mixed with another.                                 *)
LEMMA ExecutionFlow ==
  ASSUME ExecutionTypes, MdOne, NEW issued, NEW flush, ~flush, ExecutionTick(flush, issued)
  PROVE  ExecutionMoves(issued) /\ MdOne'
<1> DEFINE input(u) == UnitInput(Started, u)
           taken(u) == \E p \in Lane : Granted[p] = u
           Computed(x) == IF x = Empty THEN Empty ELSE AluResult(x)
<1>1. /\ ex' = [p \in Lane |-> IF flush THEN Empty
                               ELSE ElasticEdge(ex[p], issued[p], Started[p] # Empty)]
      /\ alu' = [u \in Lane |-> IF flush THEN Empty
                                ELSE ElasticEdge(alu[u], Computed(input(u)), taken(u))]
      /\ MdTick(flush, input(MULDIV), taken(MULDIV))
      /\ wb' = [p \in Lane |-> IF flush \/ Granted[p] = Empty THEN Empty
                               ELSE UnitResult(Granted[p])]
  BY DEF ExecutionTick
<1>2. Lane \subseteq Unit /\ MULDIV \in Unit /\ \A u \in Lane : u # MULDIV
  BY DEF Lane, Unit, MULDIV
<1>3. \A u \in Unit : /\ input(u) \in execute_t \cup {Empty}
                      /\ input(u) # Empty => unit_ready(u)
                      /\ input(u) # Empty <=> \E p \in Lane : Started[p] = u
                      /\ \A p \in Lane : Started[p] = u => input(u) = ex[p] /\ ex[p] # Empty
  BY UnitInputIs
<1> HIDE DEF input
<1>4. \A p \in Lane : ex'[p] = IF stage_ready(p) THEN issued[p] ELSE ex[p]
  BY <1>1 DEF ElasticEdge, ElasticReady, stage_ready
<1>5. \A u \in Lane : input(u) # Empty => alu[u] = Empty \/ taken(u)
  BY <1>2, <1>3 DEF unit_ready, ElasticReady, result_ready
<1>6. \A u \in Lane : alu'[u] = IF alu[u] = Empty \/ taken(u) THEN Computed(input(u)) ELSE alu[u]
  BY <1>1 DEF ElasticEdge, ElasticReady
<1>7. \A u \in Lane : \A p \in Lane : Started[p] = u => alu'[u] = AluResult(ex[p])
  <2> SUFFICES ASSUME NEW u \in Lane, NEW p \in Lane, Started[p] = u PROVE alu'[u] = AluResult(ex[p])
    OBVIOUS
  <2>1. input(u) = ex[p] /\ input(u) # Empty
    BY <1>2, <1>3
  <2> QED
    BY <1>5, <1>6, <2>1
<1>8. \A u \in Lane : Starts(u) => alu[u] = Empty \/ Leaves(u)
  BY <1>2, <1>3, <1>5 DEF Starts, Leaves
<1>9. \A u \in Lane : ~Starts(u) => alu'[u] = IF Leaves(u) THEN Empty ELSE alu[u]
  <2> SUFFICES ASSUME NEW u \in Lane, ~Starts(u) PROVE alu'[u] = IF Leaves(u) THEN Empty ELSE alu[u]
    OBVIOUS
  <2>1. input(u) = Empty
    BY <1>2, <1>3 DEF Starts
  <2> QED
    BY <1>6, <2>1 DEF Leaves
<1>10. \A p \in Lane : wb'[p] = IF Granted[p] = Empty THEN Empty ELSE UnitResult(Granted[p])
  BY <1>1
<1>11. input(MULDIV) # Empty => md_in_ready(taken(MULDIV))
  BY <1>2, <1>3 DEF unit_ready, result_ready
<1>12. MdTick(FALSE, input(MULDIV), taken(MULDIV)) /\ MdTypes
       /\ input(MULDIV) \in execute_t \cup {Empty}
  BY <1>1, <1>2, <1>3 DEF MdTick, ExecutionTypes
<1> DEFINE x == input(MULDIV)
           gone == taken(MULDIV)
<1>13. (x # Empty <=> Starts(MULDIV)) /\ gone = Leaves(MULDIV)
       /\ \A p \in Lane : Started[p] = MULDIV => x = ex[p] /\ x # Empty
  BY <1>2, <1>3 DEF Starts, Leaves
<1> HIDE DEF x, gone
<1>14. /\ MdOne'
       /\ x # Empty => /\ md'.busy /\ md'.request = x /\ md'.out = Empty
                       /\ ~md.busy /\ (md.out = Empty \/ gone)
       /\ x = Empty /\ md.busy /\ md.step = XLEN =>
            /\ ~md'.busy /\ md'.out # Empty /\ md'.out.meta = md.request.meta
            /\ md'.out.branch = NoBranch
       /\ x = Empty /\ md.busy /\ md.step # XLEN =>
            md'.busy /\ md'.request = md.request /\ md'.out = Empty
       /\ x = Empty /\ ~md.busy => ~md'.busy /\ md'.out = IF gone THEN Empty ELSE md.out
  <2>1. MdTick(FALSE, x, gone) /\ x \in execute_t \cup {Empty} /\ (x # Empty => md_in_ready(gone)) /\ MdTypes
    BY <1>11, <1>12 DEF x, gone
  <2> QED
    BY <2>1, MdFlow
<1>15. \A p \in Lane : Started[p] = MULDIV =>
         /\ md'.busy /\ md'.request = ex[p] /\ md'.out = Empty
         /\ ~md.busy /\ (md.out = Empty \/ Leaves(MULDIV))
  BY <1>13, <1>14
<1>16. /\ ~Starts(MULDIV) /\ md.busy /\ md.step = XLEN =>
            /\ ~md'.busy /\ md'.out # Empty /\ md'.out.meta = md.request.meta
            /\ md'.out.branch = NoBranch
       /\ ~Starts(MULDIV) /\ md.busy /\ md.step # XLEN =>
            md'.busy /\ md'.request = md.request /\ md'.out = Empty
       /\ ~Starts(MULDIV) /\ ~md.busy => ~md'.busy /\ md'.out = IF Leaves(MULDIV) THEN Empty ELSE md.out
  BY <1>13, <1>14
<1> QED
  BY <1>4, <1>7, <1>8, <1>9, <1>10, <1>14, <1>15, <1>16 DEF ExecutionMoves

-----------------------------------------------------------------------------
(* Where an instruction in flight is after an edge, if it has not reached  *)
(* writeback already.                                                      *)
LaneWith(f, x) == CHOOSE p \in Lane : f[p] = x
MovesTo(a, chosen) ==
  CASE a[1] = "iq" -> IF a[2] \in Removed(chosen) THEN <<"ex", LaneWith(chosen, a[2]), a[3]>> ELSE a
    [] a[1] = "ex" -> IF Started[a[2]] = Empty THEN a
                      ELSE IF Started[a[2]] = MULDIV THEN <<"md", 0, a[3]>>
                      ELSE <<"alu", Started[a[2]], a[3]>>
    [] a[1] = "alu" -> IF Leaves(a[2]) THEN <<"wb", LaneWith(Granted, a[2]), a[3]>> ELSE a
    [] a[1] = "md" -> IF a[2] = 0 THEN IF md.step = XLEN THEN <<"md", 1, a[3]>> ELSE a
                      ELSE IF Leaves(MULDIV) THEN <<"wb", LaneWith(Granted, MULDIV), a[3]>> ELSE a
    [] OTHER -> a

(* Where two lanes hold different things, what a lane holds identifies it. *)
LEMMA LaneWithIs ==
  ASSUME NEW f, f[0] # Empty => f[1] # f[0], NEW p \in Lane, f[p] # Empty
  PROVE  LaneWith(f, f[p]) = p
<1>1. \A q \in Lane : f[q] = f[p] => q = p
  BY DEF Lane
<1> QED
  BY <1>1 DEF LaneWith

(* The places of the instructions in flight, spelled out.                  *)
LEMMA Places ==
  ASSUME NEW a
  PROVE  a \in InFlight <=>
           \/ \E s \in Slot : iq[s] # Empty /\ a = <<"iq", s, iq[s].meta>>
           \/ \E p \in Lane : ex[p] # Empty /\ a = <<"ex", p, ex[p].meta>>
           \/ \E u \in Lane : alu[u] # Empty /\ a = <<"alu", u, alu[u].meta>>
           \/ md.busy /\ a = <<"md", 0, md.request.meta>>
           \/ md.out # Empty /\ a = <<"md", 1, md.out.meta>>
           \/ \E p \in Lane : wb[p] # Empty /\ a = <<"wb", p, wb[p].meta>>
BY DEF InFlight, Occupied

(* The same after a step.                                                  *)
LEMMA PlacesAfter ==
  ASSUME NEW a
  PROVE  a \in InFlight' <=>
           \/ \E s \in Slot : iq'[s] # Empty /\ a = <<"iq", s, iq'[s].meta>>
           \/ \E p \in Lane : ex'[p] # Empty /\ a = <<"ex", p, ex'[p].meta>>
           \/ \E u \in Lane : alu'[u] # Empty /\ a = <<"alu", u, alu'[u].meta>>
           \/ md'.busy /\ a = <<"md", 0, md'.request.meta>>
           \/ md'.out # Empty /\ a = <<"md", 1, md'.out.meta>>
           \/ \E p \in Lane : wb'[p] # Empty /\ a = <<"wb", p, wb'[p].meta>>
BY DEF InFlight, Occupied

(* What is chosen, started and granted, and what that does to the units.   *)
FlightMoves(w, d, chosen, seat) ==
  /\ \A p \in Lane : chosen[p] # Empty => chosen[p] \in Occupied /\ stage_ready(p)
  /\ chosen[0] # Empty => chosen[1] # chosen[0]
  /\ \A p \in Lane : Started[p] # Empty => Started[p] \in UnitsFor(p)
  /\ Started[0] # Empty => Started[1] # Started[0]
  /\ \A p \in Lane : Granted[p] # Empty => Granted[p] \in WaitingUnits
  /\ Granted[0] # Empty => Granted[1] # Granted[0]
  /\ ExecutionMoves(Sent(chosen))
  /\ \A i \in 1 .. d.enqueued :
       /\ seat[i] \in Slot /\ (iq[seat[i]] = Empty \/ seat[i] \in Removed(chosen))
       /\ iq'[seat[i]] = Woke(d.prepared[i], w.completions)
  /\ d.enqueued = 2 => seat[1] # seat[2]
  /\ \A s \in Slot : (~ \E i \in 1 .. d.enqueued : seat[i] = s) =>
       iq'[s] = IF s \in Removed(chosen) \/ iq[s] = Empty THEN Empty ELSE Woke(iq[s], w.completions)
  /\ w.completions \in SUBSET result_t
  /\ d.enqueued \in 0 .. 2 /\ \A i \in 1 .. d.enqueued : i \in 1 .. d.n /\ d.prepared[i] \in issue_t

(* An edge without a flush moves the instructions in flight: each new      *)
(* place is one of a dispatched instruction or of one that was in flight   *)
(* before.                                                                 *)
LEMMA FlightMovesIs ==
  ASSUME TypesInv, MdOne, NEW w, NEW d, NEW chosen, EdgeHolds(w, d, chosen), ~w.backend_flush
  PROVE  MdOne' /\ \E seat : FlightMoves(w, d, chosen, seat)
<1>1. /\ QueuesBounded /\ RenameTypes /\ RetireTypes /\ ExecutionTypes /\ WiresHold(w) /\ DispatchFacts(w, d)
      /\ IssueTick(w.backend_flush, Removed(chosen), SubSeq(d.prepared, 1, d.enqueued), w.completions)
      /\ ExecutionTick(w.backend_flush, Sent(chosen))
      /\ iq \in [Slot -> issue_t \cup {Empty}] /\ next_q \in Unit
  BY DEF EdgeHolds, BackSteps, TypesInv, TypeOK, ExecutionTypes
<1> DEFINE new == SubSeq(d.prepared, 1, d.enqueued)
           k == d.enqueued
           n == d.n
<1>2. /\ new \in Seq(issue_t) /\ Len(new) = k /\ \A i \in 1 .. k : new[i] = d.prepared[i]
      /\ 1 .. k \subseteq 1 .. n
  BY <1>1, BundleTypes
<1>3. /\ k \in 0 .. n /\ n \in 0 .. 2 /\ n <= iq_capacity
  BY <1>1 DEF DispatchFacts
<1>4. w.completions \in SUBSET result_t
  BY <1>1, CompletionsTypes
<1>5. ExecutionMoves(Sent(chosen)) /\ MdOne'
  BY <1>1, ExecutionFlow
<1>6. \A i \in 1 .. n : d.prepared[i] \in issue_t
  BY <1>1, PreparedTypes
<1>7. /\ \A p \in Lane : chosen[p] # Empty => chosen[p] \in Occupied /\ stage_ready(p)
      /\ chosen[0] # Empty => chosen[1] # chosen[0]
  BY DEF EdgeHolds
<1>8. IssueTick(w.backend_flush, Removed(chosen), new, w.completions)
  BY <1>1
<1> HIDE DEF new, k, n
<1>9. Len(new) \in 0 .. 2 /\ Len(new) <= iq_capacity /\ k \in 0 .. 2
  BY <1>2, <1>3, IssueRoom
<1>10. PICK seat : Seated(seat, Removed(chosen), new, w.completions)
  <2> DEFINE remove == Removed(chosen)
             comps == w.completions
             flush == w.backend_flush
  <2>1. IssueTick(flush, remove, new, comps) /\ ~flush /\ comps \in SUBSET result_t
    BY <1>4, <1>8
  <2>2. iq \in [Slot -> issue_t \cup {Empty}] /\ new \in Seq(issue_t)
    BY <1>1, <1>2
  <2>3. Len(new) \in 0 .. 2 /\ Len(new) <= iq_capacity
    BY <1>9
  <2> HIDE DEF remove, comps, flush
  <2>4. \E seat : Seated(seat, remove, new, comps)
    BY <2>1, <2>2, <2>3, SeatedIs
  <2> QED
    BY <2>4 DEF remove, comps
<1>11. /\ \A i \in 1 .. k :
            /\ seat[i] \in Slot /\ (iq[seat[i]] = Empty \/ seat[i] \in Removed(chosen))
            /\ iq'[seat[i]] = Woke(d.prepared[i], w.completions)
       /\ k = 2 => seat[1] # seat[2]
       /\ \A s \in Slot : (~ \E i \in 1 .. k : seat[i] = s) =>
            iq'[s] = IF s \in Removed(chosen) \/ iq[s] = Empty THEN Empty ELSE Woke(iq[s], w.completions)
  BY <1>2, <1>10 DEF Seated
<1>12. \A i \in 1 .. k : i \in 1 .. n /\ d.prepared[i] \in issue_t
  BY <1>2, <1>6
<1>13. FlightMoves(w, d, chosen, seat)
  BY <1>1, <1>4, <1>5, <1>7, <1>9, <1>11, <1>12, StartedIs, GrantedIs DEF FlightMoves, k, n
<1> QED
  BY <1>5, <1>13

(* What the units compute keeps the instruction it is computed for.        *)
LEMMA SameMeta ==
  ASSUME TypesInv, NEW w, NEW d, NEW chosen, NEW seat, FlightMoves(w, d, chosen, seat)
  PROVE  /\ \A s \in Slot : iq[s] # Empty =>
              Woke(iq[s], w.completions) # Empty /\ Woke(iq[s], w.completions).meta = iq[s].meta
         /\ \A i \in 1 .. d.enqueued :
              /\ Woke(d.prepared[i], w.completions) # Empty
              /\ Woke(d.prepared[i], w.completions).meta = d.prepared[i].meta
         /\ \A p \in Lane : (Sent(chosen)[p] = Empty <=> chosen[p] = Empty)
         /\ \A p \in Lane : chosen[p] # Empty => Sent(chosen)[p].meta = iq[chosen[p]].meta
         /\ \A p \in Lane : ex[p] # Empty => AluResult(ex[p]) # Empty /\ AluResult(ex[p]).meta = ex[p].meta
<1>1. /\ iq \in [Slot -> issue_t \cup {Empty}] /\ ex \in [Lane -> execute_t \cup {Empty}]
      /\ w.completions \in SUBSET result_t /\ \A i \in 1 .. d.enqueued : d.prepared[i] \in issue_t
      /\ \A p \in Lane : chosen[p] # Empty => chosen[p] \in Occupied
  BY DEF TypesInv, TypeOK, ExecutionTypes, FlightMoves
<1> DEFINE comps == w.completions
<1>2. \A q \in issue_t : Woke(q, comps) # Empty /\ Woke(q, comps).meta = q.meta
  <2> HIDE DEF comps
  <2>1. comps \in SUBSET result_t
    BY <1>1 DEF comps
  <2> SUFFICES ASSUME NEW q \in issue_t PROVE Woke(q, comps) # Empty /\ Woke(q, comps).meta = q.meta
    OBVIOUS
  <2> QED
    BY <2>1, WokeIs
<1>3. \A p \in Lane : /\ Sent(chosen)[p] = Empty <=> chosen[p] = Empty
                      /\ chosen[p] # Empty => Sent(chosen)[p].meta = iq[chosen[p]].meta
  <2> SUFFICES ASSUME NEW p \in Lane
               PROVE  /\ Sent(chosen)[p] = Empty <=> chosen[p] = Empty
                      /\ chosen[p] # Empty => Sent(chosen)[p].meta = iq[chosen[p]].meta
    OBVIOUS
  <2> DEFINE s == chosen[p]
  <2>1. Sent(chosen)[p] = Issued(s) /\ (s # Empty => s \in Occupied)
    BY <1>1 DEF Sent
  <2> HIDE DEF s
  <2>2. (Issued(s) = Empty <=> s = Empty) /\ (s # Empty => Issued(s).meta = iq[s].meta)
    BY <1>1, <2>1, IssuedType
  <2> QED
    BY <2>1, <2>2 DEF s
<1>4. \A x \in execute_t : AluResult(x) # Empty /\ AluResult(x).meta = x.meta
  BY AluResultType, EmptyAssumption
<1> QED
  BY <1>1, <1>2, <1>3, <1>4 DEF comps

(* Whatever is in flight after an edge came from where it was, or was      *)
(* dispatched on that edge.                                                *)
LEMMA FlowBack ==
  ASSUME TypesInv, MdOne, NEW w, NEW d, NEW chosen, NEW seat, FlightMoves(w, d, chosen, seat),
         NEW a \in InFlight'
  PROVE  \/ \E b \in InFlight : b[1] # "wb" /\ a = MovesTo(b, chosen) /\ a[3] = b[3]
         \/ \E i \in 1 .. d.enqueued : a = <<"iq", seat[i], d.prepared[i].meta>>
<1> DEFINE Old == \E b \in InFlight : b[1] # "wb" /\ a = MovesTo(b, chosen) /\ a[3] = b[3]
           New == \E i \in 1 .. d.enqueued : a = <<"iq", seat[i], d.prepared[i].meta>>
<1>1. ExecutionMoves(Sent(chosen))
  BY DEF FlightMoves
<1>2. \A u \in Lane : u # MULDIV /\ u # Empty
  BY NotEmpty DEF Lane, MULDIV
<1>3. md.busy \in BOOLEAN /\ (md.out = Empty \/ md.out # Empty)
  BY DEF TypesInv, TypeOK, ExecutionTypes, MdTypes, MdRegisters
<1>4. ASSUME NEW s \in Slot, iq'[s] # Empty, a = <<"iq", s, iq'[s].meta>> PROVE Old \/ New
  <2>1. CASE \E i \in 1 .. d.enqueued : seat[i] = s
    <3>1. PICK i \in 1 .. d.enqueued : seat[i] = s
      BY <2>1
    <3>2. iq'[s] = Woke(d.prepared[i], w.completions)
      BY <3>1 DEF FlightMoves
    <3>3. iq'[s].meta = d.prepared[i].meta
      BY <3>2, SameMeta
    <3> QED
      BY <1>4, <3>1, <3>3
  <2>2. CASE ~ \E i \in 1 .. d.enqueued : seat[i] = s
    <3>1. s \notin Removed(chosen) /\ iq[s] # Empty /\ iq'[s] = Woke(iq[s], w.completions)
      BY <1>4, <2>2 DEF FlightMoves
    <3>2. iq'[s].meta = iq[s].meta
      BY <3>1, SameMeta
    <3> DEFINE b == <<"iq", s, iq[s].meta>>
    <3>3. b \in InFlight /\ b[1] # "wb" /\ a = b
      BY <1>4, <3>1, <3>2, Places
    <3>4. MovesTo(b, chosen) = b
      BY <3>1 DEF MovesTo
    <3> QED
      BY <3>3, <3>4
  <2> QED
    BY <2>1, <2>2
<1>5. ASSUME NEW p \in Lane, ex'[p] # Empty, a = <<"ex", p, ex'[p].meta>> PROVE Old
  <2>1. CASE stage_ready(p)
    <3>1. ex'[p] = Sent(chosen)[p]
      BY <1>1, <2>1 DEF ExecutionMoves
    <3> DEFINE s == chosen[p]
    <3>2. s # Empty /\ ex'[p].meta = iq[s].meta /\ s \in Occupied
      BY <1>5, <3>1, SameMeta DEF FlightMoves
    <3>3. s \in Removed(chosen) /\ LaneWith(chosen, s) = p
      <4>1. chosen[0] # Empty => chosen[1] # chosen[0]
        BY DEF FlightMoves
      <4> QED
        BY <3>2, <4>1, LaneWithIs DEF Removed
    <3> HIDE DEF s
    <3> DEFINE b == <<"iq", s, iq[s].meta>>
    <3>4. b \in InFlight /\ b[1] # "wb" /\ b[3] = iq[s].meta
      BY <3>2, Places DEF Occupied
    <3>5. MovesTo(b, chosen) = <<"ex", p, iq[s].meta>>
      BY <3>3 DEF MovesTo
    <3> QED
      BY <1>5, <3>2, <3>4, <3>5
  <2>2. CASE ~stage_ready(p)
    <3>1. ex'[p] = ex[p] /\ Started[p] = Empty
      BY <1>1, <2>2 DEF ExecutionMoves, stage_ready
    <3>2. a \in InFlight /\ a[1] # "wb"
      BY <1>5, <3>1, Places
    <3>3. MovesTo(a, chosen) = a
      BY <1>5, <3>1 DEF MovesTo
    <3> QED
      BY <3>2, <3>3
  <2> QED
    BY <2>1, <2>2
<1>6. ASSUME NEW u \in Lane, alu'[u] # Empty, a = <<"alu", u, alu'[u].meta>> PROVE Old
  <2>1. CASE Starts(u)
    <3>1. PICK p \in Lane : Started[p] = u
      BY <2>1 DEF Starts
    <3>2. ex[p] # Empty /\ alu'[u] = AluResult(ex[p])
      BY <1>1, <1>2, <3>1 DEF ExecutionMoves, FlightMoves, UnitsFor
    <3>3. alu'[u].meta = ex[p].meta
      BY <3>2, SameMeta
    <3> DEFINE b == <<"ex", p, ex[p].meta>>
    <3>4. b \in InFlight /\ b[1] # "wb" /\ b[3] = ex[p].meta
      BY <3>2, Places
    <3>5. MovesTo(b, chosen) = <<"alu", u, ex[p].meta>>
      BY <1>2, <3>1 DEF MovesTo
    <3> QED
      BY <1>6, <3>3, <3>4, <3>5
  <2>2. CASE ~Starts(u)
    <3>1. alu'[u] = alu[u] /\ ~Leaves(u)
      BY <1>1, <1>6, <2>2 DEF ExecutionMoves
    <3>2. a \in InFlight /\ a[1] # "wb"
      BY <1>6, <3>1, Places
    <3>3. MovesTo(a, chosen) = a
      BY <1>6, <3>1 DEF MovesTo
    <3> QED
      BY <3>2, <3>3
  <2> QED
    BY <2>1, <2>2
<1>7. ASSUME md'.busy, a = <<"md", 0, md'.request.meta>> PROVE Old
  <2>1. CASE Starts(MULDIV)
    <3>1. PICK p \in Lane : Started[p] = MULDIV
      BY <2>1 DEF Starts
    <3>2. ex[p] # Empty /\ md'.request = ex[p] /\ Started[p] # Empty
      <4>1. Started[p] # Empty
        BY <3>1, NotEmpty DEF MULDIV
      <4>2. ex[p] # Empty
        BY <4>1 DEF FlightMoves, UnitsFor
      <4>3. md'.request = ex[p]
        BY <1>1, <3>1 DEF ExecutionMoves
      <4> QED
        BY <4>1, <4>2, <4>3
    <3> DEFINE b == <<"ex", p, ex[p].meta>>
    <3>3. b \in InFlight /\ b[1] # "wb" /\ b[3] = ex[p].meta
      BY <3>2, Places
    <3>4. MovesTo(b, chosen) = <<"md", 0, ex[p].meta>>
      BY <3>1, <3>2 DEF MovesTo
    <3> QED
      BY <1>7, <3>2, <3>3, <3>4
  <2>2. CASE ~Starts(MULDIV)
    <3>1. md.busy /\ md.step # XLEN /\ md'.request = md.request
      BY <1>1, <1>3, <1>7, <2>2 DEF ExecutionMoves
    <3>2. a \in InFlight /\ a[1] # "wb"
      BY <1>7, <3>1, Places
    <3>3. MovesTo(a, chosen) = a
      BY <1>7, <3>1 DEF MovesTo
    <3> QED
      BY <3>2, <3>3
  <2> QED
    BY <2>1, <2>2
<1>8. ASSUME md'.out # Empty, a = <<"md", 1, md'.out.meta>> PROVE Old
  <2>1. ~Starts(MULDIV)
    BY <1>1, <1>8 DEF ExecutionMoves, Starts
  <2>2. CASE md.busy
    <3>1. md.step = XLEN /\ md'.out.meta = md.request.meta
      BY <1>1, <1>8, <2>1, <2>2 DEF ExecutionMoves
    <3> DEFINE b == <<"md", 0, md.request.meta>>
    <3>2. b \in InFlight /\ b[1] # "wb" /\ b[3] = md.request.meta
      BY <2>2, Places
    <3>3. MovesTo(b, chosen) = <<"md", 1, md.request.meta>>
      BY <3>1 DEF MovesTo
    <3> QED
      BY <1>8, <3>1, <3>2, <3>3
  <2>3. CASE ~md.busy
    <3>1. md'.out = md.out /\ ~Leaves(MULDIV)
      BY <1>1, <1>8, <2>1, <2>3 DEF ExecutionMoves
    <3>2. a \in InFlight /\ a[1] # "wb"
      BY <1>8, <3>1, Places
    <3>3. MovesTo(a, chosen) = a
      BY <1>8, <3>1 DEF MovesTo
    <3> QED
      BY <3>2, <3>3
  <2> QED
    BY <2>2, <2>3
<1>9. ASSUME NEW p \in Lane, wb'[p] # Empty, a = <<"wb", p, wb'[p].meta>> PROVE Old
  <2> DEFINE u == Granted[p]
  <2>1. u # Empty /\ wb'[p] = UnitResult(u) /\ u \in WaitingUnits
    BY <1>1, <1>9 DEF ExecutionMoves, FlightMoves
  <2>2. LaneWith(Granted, u) = p /\ Leaves(u)
    <3>1. Granted[0] # Empty => Granted[1] # Granted[0]
      BY DEF FlightMoves
    <3> QED
      BY <2>1, <3>1, LaneWithIs DEF Leaves
  <2> HIDE DEF u
  <2>3. u \in Unit /\ UnitResult(u) # Empty
    BY <2>1 DEF WaitingUnits
  <2>4. CASE u = MULDIV
    <3> DEFINE b == <<"md", 1, md.out.meta>>
    <3>1. md.out # Empty /\ wb'[p] = md.out
      BY <2>1, <2>3, <2>4 DEF UnitResult
    <3>2. b \in InFlight /\ b[1] # "wb" /\ b[3] = md.out.meta
      BY <3>1, Places
    <3>3. MovesTo(b, chosen) = <<"wb", p, md.out.meta>>
      BY <2>2, <2>4 DEF MovesTo
    <3> QED
      BY <1>9, <3>1, <3>2, <3>3
  <2>5. CASE u # MULDIV
    <3> DEFINE b == <<"alu", u, alu[u].meta>>
    <3>1. u \in Lane /\ alu[u] # Empty /\ wb'[p] = alu[u]
      BY <2>1, <2>3, <2>5 DEF UnitResult, Unit, MULDIV, Lane
    <3>2. b \in InFlight /\ b[1] # "wb" /\ b[3] = alu[u].meta
      BY <3>1, Places
    <3>3. MovesTo(b, chosen) = <<"wb", p, alu[u].meta>>
      BY <2>2 DEF MovesTo
    <3> QED
      BY <1>9, <3>1, <3>2, <3>3
  <2> QED
    BY <2>4, <2>5
<1> QED
  BY <1>4, <1>5, <1>6, <1>7, <1>8, <1>9, PlacesAfter

(* Whatever is in flight and not at writeback is still in flight after the *)
(* edge, where MovesTo says.                                               *)
LEMMA FlowOn ==
  ASSUME TypesInv, MdOne, NEW w, NEW d, NEW chosen, NEW seat, FlightMoves(w, d, chosen, seat),
         NEW b \in InFlight, b[1] # "wb"
  PROVE  MovesTo(b, chosen) \in InFlight' /\ MovesTo(b, chosen)[3] = b[3]
<1> DEFINE a == MovesTo(b, chosen)
           There == a \in InFlight' /\ a[3] = b[3]
<1>1. ExecutionMoves(Sent(chosen)) /\ next_q \in Unit
  BY DEF FlightMoves, TypesInv, TypeOK, ExecutionTypes
<1>2. \A u \in Lane : u # MULDIV /\ u # Empty
  BY NotEmpty DEF Lane, MULDIV
<1>3. md.busy \in BOOLEAN
  BY DEF TypesInv, TypeOK, ExecutionTypes, MdTypes, MdRegisters
<1>4. ASSUME NEW s \in Slot, iq[s] # Empty, b = <<"iq", s, iq[s].meta>> PROVE There
  <2>1. CASE s \in Removed(chosen)
    <3>1. PICK p \in Lane : chosen[p] = s /\ s # Empty
      BY <2>1 DEF Removed
    <3>2. stage_ready(p) /\ (chosen[0] # Empty => chosen[1] # chosen[0])
      BY <3>1 DEF FlightMoves
    <3>3. LaneWith(chosen, s) = p
      BY <3>1, <3>2, LaneWithIs
    <3>4. ex'[p] = Sent(chosen)[p]
      BY <1>1, <3>2 DEF ExecutionMoves
    <3>5. ex'[p] # Empty /\ ex'[p].meta = iq[s].meta
      BY <3>1, <3>4, SameMeta
    <3>6. a = <<"ex", p, iq[s].meta>>
      BY <1>4, <2>1, <3>3 DEF MovesTo
    <3> QED
      BY <1>4, <3>5, <3>6, PlacesAfter
  <2>2. CASE s \notin Removed(chosen)
    <3>1. ~ \E i \in 1 .. d.enqueued : seat[i] = s
      BY <1>4, <2>2 DEF FlightMoves
    <3>2. iq'[s] = Woke(iq[s], w.completions)
      BY <1>4, <2>2, <3>1 DEF FlightMoves
    <3>3. iq'[s] # Empty /\ iq'[s].meta = iq[s].meta
      BY <1>4, <3>2, SameMeta
    <3>4. a = b
      BY <1>4, <2>2 DEF MovesTo
    <3> QED
      BY <1>4, <3>3, <3>4, PlacesAfter
  <2> QED
    BY <2>1, <2>2
<1>5. ASSUME NEW p \in Lane, ex[p] # Empty, b = <<"ex", p, ex[p].meta>> PROVE There
  <2>1. CASE Started[p] = Empty
    <3>1. ex'[p] = ex[p]
      BY <1>1, <1>5, <2>1 DEF ExecutionMoves, stage_ready
    <3>2. a = b
      BY <1>5, <2>1 DEF MovesTo
    <3> QED
      BY <1>5, <3>1, <3>2, PlacesAfter
  <2>2. CASE Started[p] # Empty /\ Started[p] = MULDIV
    <3>1. md'.busy /\ md'.request = ex[p]
      BY <1>1, <2>2 DEF ExecutionMoves
    <3>2. a = <<"md", 0, ex[p].meta>>
      BY <1>5, <2>2 DEF MovesTo
    <3> QED
      BY <1>5, <3>1, <3>2, PlacesAfter
  <2>3. CASE Started[p] # Empty /\ Started[p] # MULDIV
    <3> DEFINE u == Started[p]
    <3>1. u \in UnitsFor(p)
      BY <2>3 DEF FlightMoves
    <3>2. u \in Lane
      BY <2>3, <3>1 DEF UnitsFor, Unit, MULDIV, Lane
    <3>3. alu'[u] = AluResult(ex[p])
      BY <1>1, <3>2 DEF ExecutionMoves
    <3>4. alu'[u] # Empty /\ alu'[u].meta = ex[p].meta
      BY <1>5, <3>3, SameMeta
    <3>5. a = <<"alu", u, ex[p].meta>>
      BY <1>5, <2>3 DEF MovesTo
    <3> HIDE DEF u, a
    <3> QED
      BY <1>5, <3>2, <3>4, <3>5, PlacesAfter
  <2> QED
    BY <2>1, <2>2, <2>3
<1>6. ASSUME NEW u \in Unit, Leaves(u), UnitResult(u) # Empty, b[3] = UnitResult(u).meta,
             a = <<"wb", LaneWith(Granted, u), b[3]>>
      PROVE  There
  <2>1. PICK p \in Lane : Granted[p] = u
    BY <1>6 DEF Leaves
  <2>2. u # Empty
    BY NotEmpty DEF Unit
  <2>3. LaneWith(Granted, u) = p
    <3>1. Granted[0] # Empty => Granted[1] # Granted[0]
      BY DEF FlightMoves
    <3> QED
      BY <2>1, <2>2, <3>1, LaneWithIs
  <2>4. wb'[p] = UnitResult(u)
    BY <1>1, <2>1, <2>2 DEF ExecutionMoves
  <2> HIDE DEF a
  <2> QED
    BY <1>6, <2>3, <2>4, PlacesAfter
<1>7. ASSUME NEW u \in Lane, alu[u] # Empty, b = <<"alu", u, alu[u].meta>> PROVE There
  <2>1. CASE Leaves(u)
    <3>1. a = <<"wb", LaneWith(Granted, u), b[3]>>
      BY <1>7, <2>1 DEF MovesTo
    <3>2. u \in Unit /\ UnitResult(u) = alu[u]
      BY <1>2 DEF Unit, Lane, UnitResult
    <3> HIDE DEF a
    <3> QED
      BY <1>6, <1>7, <2>1, <3>1, <3>2
  <2>2. CASE ~Leaves(u)
    <3>1. ~Starts(u)
      BY <1>1, <1>7, <2>2 DEF ExecutionMoves
    <3>2. alu'[u] = alu[u]
      BY <1>1, <2>2, <3>1 DEF ExecutionMoves
    <3>3. a = b
      BY <1>7, <2>2 DEF MovesTo
    <3> QED
      BY <1>7, <3>2, <3>3, PlacesAfter
  <2> QED
    BY <2>1, <2>2
<1>8. ASSUME md.busy, b = <<"md", 0, md.request.meta>> PROVE There
  <2>1. ~Starts(MULDIV)
    BY <1>1, <1>8 DEF ExecutionMoves, Starts
  <2>2. CASE md.step = XLEN
    <3>1. md'.out # Empty /\ md'.out.meta = md.request.meta
      BY <1>1, <1>8, <2>1, <2>2 DEF ExecutionMoves
    <3>2. a = <<"md", 1, md.request.meta>>
      BY <1>8, <2>2 DEF MovesTo
    <3> QED
      BY <1>8, <3>1, <3>2, PlacesAfter
  <2>3. CASE md.step # XLEN
    <3>1. md'.busy /\ md'.request = md.request
      BY <1>1, <1>8, <2>1, <2>3 DEF ExecutionMoves
    <3>2. a = b
      BY <1>8, <2>3 DEF MovesTo
    <3> QED
      BY <1>8, <3>1, <3>2, PlacesAfter
  <2> QED
    BY <2>2, <2>3
<1>9. ASSUME md.out # Empty, b = <<"md", 1, md.out.meta>> PROVE There
  <2>1. CASE Leaves(MULDIV)
    <3>1. a = <<"wb", LaneWith(Granted, MULDIV), b[3]>>
      BY <1>9, <2>1 DEF MovesTo
    <3>2. MULDIV \in Unit /\ UnitResult(MULDIV) = md.out
      BY DEF Unit, MULDIV, UnitResult
    <3> HIDE DEF a
    <3> QED
      BY <1>6, <1>9, <2>1, <3>1, <3>2
  <2>2. CASE ~Leaves(MULDIV)
    <3>1. ~Starts(MULDIV)
      BY <1>1, <1>9, <2>2 DEF ExecutionMoves, Starts
    <3>2. md'.out = md.out
      BY <1>1, <1>3, <1>9, <2>2, <3>1 DEF ExecutionMoves, MdOne
    <3>3. a = b
      BY <1>9, <2>2 DEF MovesTo
    <3> QED
      BY <1>9, <3>2, <3>3, PlacesAfter
  <2> QED
    BY <2>1, <2>2
<1> QED
  BY <1>4, <1>5, <1>7, <1>8, <1>9, Places

(* The instructions of a bundle that execute are in flight from then on.   *)
LEMMA FlowIn ==
  ASSUME TypesInv, NEW w, NEW d, NEW chosen, NEW seat, FlightMoves(w, d, chosen, seat),
         NEW i \in 1 .. d.enqueued
  PROVE  <<"iq", seat[i], d.prepared[i].meta>> \in InFlight'
<1>1. seat[i] \in Slot /\ iq'[seat[i]] = Woke(d.prepared[i], w.completions)
  BY DEF FlightMoves
<1>2. iq'[seat[i]] # Empty /\ iq'[seat[i]].meta = d.prepared[i].meta
  BY <1>1, SameMeta
<1> QED
  BY <1>1, <1>2, PlacesAfter

-----------------------------------------------------------------------------
(* Every entry that is not done is in exactly one place.  Once the program *)
(* has ended there are no entries.                                         *)
EndedEmpty == halted \/ fault => count = 0

(* What is in flight carries a tag.                                        *)
LEMMA FlightTypes ==
  ASSUME TypesInv, NEW b \in InFlight
  PROVE  b[3] \in meta_t /\ b[3].tag \in RobTag
<1>1. /\ iq \in [Slot -> issue_t \cup {Empty}] /\ ex \in [Lane -> execute_t \cup {Empty}]
      /\ alu \in [Lane -> result_t \cup {Empty}] /\ wb \in [Lane -> result_t \cup {Empty}]
      /\ md.busy => md.request \in execute_t
      /\ md.out \in result_t \cup {Empty}
  BY DEF TypesInv, TypeOK, ExecutionTypes, MdTypes, MdRegisters
<1>2. /\ \A x \in issue_t : x.meta \in meta_t
      /\ \A x \in execute_t : x.meta \in meta_t
      /\ \A x \in result_t : x.meta \in meta_t
  BY DEF issue_t, execute_t, result_t
<1>3. b[3] \in meta_t
  BY <1>1, <1>2, Places
<1> QED
  BY <1>3 DEF meta_t

(* A core that has ended has no entries, and an edge brings it none.       *)
LEMMA EndedEdge ==
  ASSUME TypesInv, EndedEmpty, NEW w, NEW d, NEW chosen, EdgeHolds(w, d, chosen), ~w.backend_flush
  PROVE  EndedEmpty'
<1>1. WiresHold(w) /\ DispatchFacts(w, d) /\ SystemEdge(w, d) /\ QueuesBounded
  BY DEF EdgeHolds, TypesInv, TypeOK
<1>2. ~w.finishing
  BY <1>1 DEF WiresHold
<1>3. halted' = halted /\ fault' = fault
  BY <1>1, <1>2 DEF SystemEdge, RetireTick
<1>4. halted \/ fault => d.n = 0 /\ w.retiring = 0
  <2>1. halted \/ fault => d.n = 0
    BY <1>1 DEF DispatchFacts
  <2>2. w.retiring \in 0 .. 2 /\ (w.retiring > 0 => ~halted /\ ~fault)
    BY <1>1, RetiringIs
  <2> QED
    BY <2>1, <2>2
<1>5. count' = count + d.n - w.retiring
  BY Moved
<1> QED
  BY <1>3, <1>4, <1>5 DEF EndedEmpty

PlaceInv == WindowInv /\ MdOne /\ EndedEmpty /\ EachInOnePlace

(* What an edge does to the entry of an instruction in flight.             *)
LEMMA PlaceKept ==
  ASSUME PlaceInv, NEW w, NEW d, NEW chosen, EdgeHolds(w, d, chosen), ~w.backend_flush,
         NEW b \in InFlight
  PROVE  LET t == b[3].tag
         IN /\ t \in RobTag /\ rob[t] # Empty /\ ~rob[t].done /\ rob[t].meta = b[3]
            /\ b[1] # "wb" => rob'[t] = rob[t]
            /\ b[1] = "wb" => rob'[t].done
<1> DEFINE t == b[3].tag
<1>1. TypesInv /\ WindowFull /\ WiresHold(w) /\ EachInOnePlace /\ EndedEmpty
  BY DEF PlaceInv, WindowInv, EdgeHolds
<1>2. t \in RobTag /\ rob[t] # Empty /\ ~rob[t].done /\ rob[t].meta = b[3]
  BY <1>1, FlightTypes DEF EachInOnePlace
<1> HIDE DEF t
<1>3. /\ rob[t] \in rob_entry_t /\ rob[t].meta.tag = t
      /\ Distance(t) + 1 \in 1 .. count /\ Window[Distance(t) + 1] = rob[t]
  BY <1>1, <1>2, WindowIs
<1>4. Distance(t) \in 0 .. RobDepth - 1 /\ RobDepth \in Nat /\ count \in 0 .. RobDepth
      /\ w.retiring \in 0 .. 2
  BY <1>1, <1>2, DistanceOf, Moved DEF Distance
<1>5. w.retiring <= Distance(t)
  <2>1. ~(Distance(t) + 1 \in 1 .. w.retiring)
    BY <1>2, <1>3, Retires DEF PlaceInv, EdgeHolds
  <2> QED
    BY <1>4, <2>1
<1>6. Kept(rob'[t], rob[t], w.completions)
  BY <1>1, <1>2, <1>3, <1>4, <1>5, RobEdge
<1>7. w.completions = {wb[p] : p \in w.wb_valid} /\ w.completions \in SUBSET result_t
      /\ w.wb_valid = {p \in Lane : wb[p] # Empty /\ ~w.backend_flush /\ ~halted /\ ~fault}
  BY <1>1, CompletionsTypes DEF WiresHold, TypesInv, TypeOK
<1>8. ASSUME b[1] # "wb" PROVE rob'[t] = rob[t]
  <2>1. ASSUME NEW r \in w.completions, r.meta.tag = t PROVE FALSE
    <3>1. PICK p \in Lane : wb[p] # Empty /\ r = wb[p]
      BY <1>7
    <3> DEFINE c == <<"wb", p, wb[p].meta>>
    <3>2. c \in InFlight /\ c[3].tag = t /\ c[1] = "wb"
      BY <2>1, <3>1, Places
    <3>3. c = b
      BY <1>1, <3>2 DEF EachInOnePlace, t
    <3> QED
      BY <1>8, <3>2, <3>3
  <2> QED
    BY <1>3, <1>6, <2>1 DEF Kept
<1>9. ASSUME b[1] = "wb" PROVE rob'[t].done
  <2>1. PICK p \in Lane : wb[p] # Empty /\ b = <<"wb", p, wb[p].meta>>
    BY <1>9, Places
  <2>2. ~halted /\ ~fault
    BY <1>1, <1>3, <1>4 DEF EndedEmpty
  <2>3. wb[p] \in w.completions /\ wb[p].meta.tag = rob[t].meta.tag
    BY <1>2, <1>7, <2>1, <2>2
  <2> DEFINE comps == w.completions
  <2>4. comps \in SUBSET result_t /\ Kept(rob'[t], rob[t], comps) /\ wb[p] \in comps
    BY <1>6, <1>7, <2>3
  <2> HIDE DEF comps
  <2> QED
    BY <1>3, <2>3, <2>4, KeptIs
<1> QED
  BY <1>2, <1>8, <1>9 DEF t

(* A dispatched instruction gets a tag that nothing else uses, and an      *)
(* entry that waits for a result exactly if it enters the issue queue.     *)
LEMMA PlaceNew ==
  ASSUME PlaceInv, NEW w, NEW d, NEW chosen, EdgeHolds(w, d, chosen), ~w.backend_flush,
         NEW i \in 1 .. d.n
  PROVE  LET t == allocate_tag(i - 1)
         IN /\ t \in RobTag /\ rob[t] = Empty /\ Distance(t) = count + i - 1
            /\ d.prepared[i].meta.tag = t
            /\ rob'[t] = NewEntry(d, i) /\ NewEntry(d, i) # Empty
            /\ NewEntry(d, i).meta = d.prepared[i].meta
            /\ (i <= d.enqueued <=> ~NewEntry(d, i).done)
<1>1. TypesInv /\ WindowFull /\ DispatchFacts(w, d)
  BY DEF PlaceInv, WindowInv, EdgeHolds
<1> DEFINE p == i - 1
           n == d.n
<1>2. n \in 0 .. 2 /\ n <= RobDepth - count /\ count \in 0 .. RobDepth /\ RobDepth \in Nat
  BY <1>1, Moved
<1>3. i \in 1 .. n
  OBVIOUS
<1> HIDE DEF n
<1>4. p \in Lane /\ count + p < RobDepth /\ p < n
  BY <1>2, <1>3 DEF Lane
<1>5. i - 1 = p /\ count + i - 1 = count + p /\ count + p - count = p /\ count + p - count + 1 = i
      /\ count <= count + p /\ count + p < count + n
  BY <1>2, <1>3, <1>4
<1> HIDE DEF p
<1>6. /\ allocate_tag(p) \in RobTag /\ Distance(allocate_tag(p)) = count + p
      /\ rob[allocate_tag(p)] = Empty
  BY <1>1, <1>4, NewTags
<1> DEFINE t == allocate_tag(p)
<1>7. t \in RobTag /\ Distance(t) = count + p
  BY <1>6
<1> HIDE DEF t
<1>8. rob'[t] = NewEntry(d, i)
  <2>1. count <= Distance(t) /\ Distance(t) < count + d.n => rob'[t] = NewEntry(d, Distance(t) - count + 1)
    BY <1>1, <1>7, RobEdge
  <2>2. count <= Distance(t) /\ Distance(t) < count + n /\ Distance(t) - count + 1 = i
    <3> DEFINE k == Distance(t)
    <3>1. k = count + p
      BY <1>7
    <3> HIDE DEF k
    <3>2. count <= k /\ k < count + n /\ k - count + 1 = i
      BY <1>2, <1>3, <1>4, <1>5, <3>1 DEF Lane
    <3> QED
      BY <3>2 DEF k
  <2> QED
    BY <2>1, <2>2 DEF n
<1>9. /\ NewEntry(d, i) \in rob_entry_t /\ NewEntry(d, i).meta.tag = allocate_tag(i - 1)
      /\ d.prepared[i].meta = NewEntry(d, i).meta
      /\ NewEntry(d, i).done = (id_q[i].terminal \/ id_q[i].serial)
  BY <1>1, NewEntryIs
<1>10. i <= d.enqueued <=> ~id_q[i].terminal /\ ~id_q[i].serial
  BY <1>1 DEF DispatchFacts
<1> QED
  BY <1>5, <1>6, <1>7, <1>8, <1>9, <1>10, EmptyEntryAssumption DEF t

(* An edge without a flush keeps every unfinished instruction in one       *)
(* place: a tag is used again only after its last user has left.           *)
LEMMA PlaceEdge ==
  ASSUME PlaceInv, NEW w, NEW d, NEW chosen, EdgeHolds(w, d, chosen), ~w.backend_flush
  PROVE  EachInOnePlace'
<1>1. TypesInv /\ WindowFull /\ WiresHold(w) /\ DispatchFacts(w, d) /\ EachInOnePlace /\ MdOne
  BY DEF PlaceInv, WindowInv, EdgeHolds
<1>2. PICK seat : FlightMoves(w, d, chosen, seat)
  BY <1>1, FlightMovesIs
<1>3. d.n \in 0 .. 2 /\ d.enqueued \in 0 .. d.n /\ count \in 0 .. RobDepth /\ RobDepth \in Nat
  BY <1>1, Moved DEF DispatchFacts
<1>4. \A i \in 1 .. d.enqueued : i \in 1 .. d.n
  BY <1>3
<1> DEFINE FromOld(a) == \E b \in InFlight : b[1] # "wb" /\ a = MovesTo(b, chosen) /\ a[3] = b[3]
           FromNew(a) == \E i \in 1 .. d.enqueued : a = <<"iq", seat[i], d.prepared[i].meta>>
<1>5. \A a \in InFlight' : FromOld(a) \/ FromNew(a)
  BY <1>1, <1>2, FlowBack
<1>6. \A a : FromOld(a) => LET t == a[3].tag IN
               rob[t] # Empty /\ rob'[t] # Empty /\ ~rob'[t].done /\ rob'[t].meta = a[3]
  BY PlaceKept
<1>7. \A a : FromNew(a) => LET t == a[3].tag IN
               rob[t] = Empty /\ rob'[t] # Empty /\ ~rob'[t].done /\ rob'[t].meta = a[3]
  <2> SUFFICES ASSUME NEW a, NEW i \in 1 .. d.enqueued, a = <<"iq", seat[i], d.prepared[i].meta>>
               PROVE  LET t == a[3].tag IN
                        rob[t] = Empty /\ rob'[t] # Empty /\ ~rob'[t].done /\ rob'[t].meta = a[3]
    OBVIOUS
  <2>1. i \in 1 .. d.n /\ i <= d.enqueued
    BY <1>3, <1>4
  <2>2. a[3] = d.prepared[i].meta
    OBVIOUS
  <2> QED
    BY <2>1, <2>2, PlaceNew
<1>8. \A a \in InFlight' : LET e == rob'[a[3].tag] IN e # Empty /\ ~e.done /\ e.meta = a[3]
  BY <1>5, <1>6, <1>7
<1>9. ASSUME NEW a \in InFlight', NEW c \in InFlight', a[3].tag = c[3].tag PROVE a = c
  <2>1. CASE FromOld(a) /\ FromOld(c)
    <3>1. PICK b1 \in InFlight : b1[1] # "wb" /\ a = MovesTo(b1, chosen) /\ a[3] = b1[3]
      BY <2>1
    <3>2. PICK b2 \in InFlight : b2[1] # "wb" /\ c = MovesTo(b2, chosen) /\ c[3] = b2[3]
      BY <2>1
    <3>3. b1 = b2
      BY <1>1, <1>9, <3>1, <3>2 DEF EachInOnePlace
    <3> QED
      BY <3>1, <3>2, <3>3
  <2>2. CASE FromNew(a) /\ FromNew(c)
    <3>1. PICK i \in 1 .. d.enqueued : a = <<"iq", seat[i], d.prepared[i].meta>>
      BY <2>2
    <3>2. PICK j \in 1 .. d.enqueued : c = <<"iq", seat[j], d.prepared[j].meta>>
      BY <2>2
    <3>3. /\ d.prepared[i].meta.tag = allocate_tag(i - 1)
          /\ d.prepared[j].meta.tag = allocate_tag(j - 1)
          /\ Distance(allocate_tag(i - 1)) = count + i - 1
          /\ Distance(allocate_tag(j - 1)) = count + j - 1
      BY <1>4, PlaceNew
    <3>4. count + i - 1 = count + j - 1
      BY <1>9, <3>1, <3>2, <3>3
    <3>5. i = j
      BY <1>3, <3>4
    <3> QED
      BY <3>1, <3>2, <3>5
  <2>3. ~(FromOld(a) /\ FromNew(c)) /\ ~(FromOld(c) /\ FromNew(a))
    BY <1>6, <1>7, <1>9
  <2> QED
    BY <1>5, <2>1, <2>2, <2>3
<1>10. ASSUME NEW t \in RobTag, rob'[t] # Empty, ~rob'[t].done
       PROVE  \E a \in InFlight' : a[3].tag = t
  <2>1. CASE rob[t] # Empty /\ Kept(rob'[t], rob[t], w.completions)
    <3>1. rob[t] \in rob_entry_t
      BY <1>1, <2>1, WindowIs
    <3> DEFINE comps == w.completions
    <3>2. comps \in SUBSET result_t /\ Kept(rob'[t], rob[t], comps)
      BY <1>1, <2>1, CompletionsTypes DEF TypesInv, TypeOK
    <3> HIDE DEF comps
    <3>3. ~rob[t].done
      BY <1>10, <3>1, <3>2, KeptIs
    <3>4. PICK b \in InFlight : b[3].tag = t
      BY <1>1, <2>1, <3>3 DEF EachInOnePlace
    <3>5. b[1] # "wb"
      BY <1>10, <3>4, PlaceKept
    <3>6. MovesTo(b, chosen) \in InFlight' /\ MovesTo(b, chosen)[3] = b[3]
      BY <1>1, <1>2, <3>5, FlowOn
    <3> QED
      BY <3>4, <3>6
  <2>2. CASE /\ Distance(t) - count + 1 \in 1 .. d.n /\ t = allocate_tag(Distance(t) - count)
             /\ rob'[t] = NewEntry(d, Distance(t) - count + 1)
    <3> DEFINE i == Distance(t) - count + 1
    <3>1. i \in 1 .. d.n /\ rob'[t] = NewEntry(d, i)
      BY <2>2
    <3>2. Distance(t) - count = i - 1
      BY <1>1, <1>3, DistanceOf, Moved DEF Distance
    <3> HIDE DEF i
    <3>3. d.prepared[i].meta.tag = t /\ (i <= d.enqueued <=> ~NewEntry(d, i).done)
      BY <2>2, <3>1, <3>2, PlaceNew
    <3>4. i \in 1 .. d.enqueued
      BY <1>3, <1>10, <3>1, <3>3
    <3> DEFINE a == <<"iq", seat[i], d.prepared[i].meta>>
    <3>5. a \in InFlight' /\ a[3].tag = t
      BY <1>1, <1>2, <3>3, <3>4, FlowIn
    <3> QED
      BY <3>5
  <2> QED
    BY <1>1, <1>10, <2>1, <2>2, EntryAfter
<1> QED
  BY <1>8, <1>9, <1>10 DEF EachInOnePlace

(* With nothing in flight nothing is in two places.                        *)
LEMMA ClearedPlaces == Cleared => MdOne /\ EndedEmpty /\ EachInOnePlace
<1> SUFFICES ASSUME Cleared PROVE MdOne /\ EndedEmpty /\ EachInOnePlace
  OBVIOUS
<1>1. InFlight = {} /\ rob = [t \in RobTag |-> Empty] /\ count = 0 /\ md.busy = FALSE
  BY ClearedWindow DEF Cleared
<1> QED
  BY <1>1 DEF MdOne, EndedEmpty, EachInOnePlace

(* A step that changes nothing moves nothing.                              *)
LEMMA StayPlaces ==
  ASSUME MdOne, EndedEmpty, EachInOnePlace, UNCHANGED vars
  PROVE  MdOne' /\ EndedEmpty' /\ EachInOnePlace'
<1>1. UNCHANGED <<rob, count, iq, ex, alu, md, wb, halted, fault>>
  BY DEF vars, robVars, executionVars, retireVars
<1>2. InFlight' = InFlight
  BY <1>1 DEF InFlight, Occupied
<1> QED
  BY <1>1, <1>2 DEF MdOne, EndedEmpty, EachInOnePlace

(* Every step preserves the invariant of the places.                       *)
LEMMA PlaceStep == PlaceInv /\ [Next]_vars => PlaceInv'
<1>1. Cleared' => MdOne' /\ EndedEmpty' /\ EachInOnePlace'
  BY ClearedPlaces, PTL
<1> SUFFICES ASSUME PlaceInv, [Next]_vars PROVE PlaceInv'
  OBVIOUS
<1>2. WindowInv /\ TypesInv /\ WindowInv'
  BY WindowInvStep, TypesStep DEF PlaceInv, WindowInv
<1>3. ASSUME NEW w, NEW d, NEW chosen, EdgeHolds(w, d, chosen), ~w.backend_flush
      PROVE  MdOne' /\ EndedEmpty' /\ EachInOnePlace'
  BY <1>2, <1>3, FlightMovesIs, EndedEdge, PlaceEdge DEF PlaceInv
<1>4. UNCHANGED vars => MdOne' /\ EndedEmpty' /\ EachInOnePlace'
  BY StayPlaces DEF PlaceInv
<1> QED
  BY <1>1, <1>2, <1>3, <1>4, Steps DEF PlaceInv

(* The initial states satisfy the invariant of the places.                 *)
LEMMA PlaceInit == Init => PlaceInv
  BY WindowInvInit, ClearedInit, ClearedPlaces DEF PlaceInv

(* A tag names one instruction: every entry that is not done is in exactly *)
(* one place between dispatch and writeback, as itself, and nothing else   *)
(* is there; a result is never lost, delivered twice, or delivered to a    *)
(* later user of its tag (lib/completion_queue.sv:60-67).                  *)
THEOREM CorePlaces == Spec => []EachInOnePlace
<1>1. PlaceInv => EachInOnePlace
  BY DEF PlaceInv
<1> QED
  BY <1>1, PlaceInit, PlaceStep, PTL DEF Spec

(* When a serial instruction is the oldest, being the youngest too, it is  *)
(* alone.                                                                  *)
LEMMA SerialIsAlone == PlaceInv /\ SerialLast => SerialAlone
<1> SUFFICES ASSUME PlaceInv, SerialLast PROVE SerialAlone
  OBVIOUS
<1>1. TypesInv /\ WindowFull /\ EachInOnePlace
  BY DEF PlaceInv, WindowInv
<1>2. ASSUME count > 0, Window[1].serial, NEW a \in InFlight PROVE FALSE
  <2> DEFINE t == a[3].tag
  <2>1. t \in RobTag /\ rob[t] # Empty /\ ~rob[t].done
    BY <1>1, FlightTypes DEF EachInOnePlace
  <2>2. Distance(t) + 1 \in 1 .. count /\ Window[Distance(t) + 1] = rob[t]
    BY <1>1, <2>1, WindowIs
  <2>3. DOMAIN Window = 1 .. count /\ count \in 0 .. RobDepth /\ RobDepth \in Nat
    BY <1>1, WindowIs, Tiny5Assumption
  <2>4. 1 \in 1 .. count /\ Window[1] \in rob_entry_t
    BY <1>1, <1>2, <2>3, WindowIs
  <2>5. count = 1
    BY <1>2, <2>3, <2>4 DEF SerialLast
  <2>6. Distance(t) + 1 = 1
    BY <2>2, <2>5
  <2>7. ~Window[1].done
    BY <2>1, <2>2, <2>6
  <2> QED
    BY <1>2, <2>4, <2>7 DEF rob_entry_t
<1> QED
  BY <1>2 DEF SerialAlone, SerialLast

(* A serial instruction is the youngest in flight, and sys_pending says    *)
(* whether there is one; at the head it is alone in the pipeline, so the   *)
(* write port it takes displaces no other write                            *)
(* (core_pipeline.sv:150-155,222-227).                                     *)
THEOREM CoreSerial == Spec => []SerialAlone
<1> DEFINE I == PlaceInv /\ SerialLast
<1>1. Init => I
  BY PlaceInit, ClearedInit, ClearedOperands
<1>2. I /\ [Next]_vars => I'
  BY PlaceStep, SerialStep DEF PlaceInv
<1>3. I => SerialAlone
  BY SerialIsAlone
<1> QED
  BY <1>1, <1>2, <1>3, PTL DEF Spec

-----------------------------------------------------------------------------
(* The branches among the instructions in flight: known by their operation *)
(* until they are computed, and by their result from then on.              *)
BranchAt(a) ==
  CASE a[1] = "iq" -> is_branch(iq[a[2]].op)
    [] a[1] = "ex" -> is_branch(ex[a[2]].op)
    [] a[1] = "alu" -> alu[a[2]].branch.valid
    [] a[1] = "wb" -> wb[a[2]].branch.valid
    [] OTHER -> FALSE

(* No result of the multiply and divide unit is that of a branch, and only *)
(* a branch faults on its way.                                             *)
MdPlain == md.out # Empty => md.out.branch = NoBranch
BranchFaults ==
  /\ \A u \in Lane : alu[u] # Empty /\ alu[u].branch.fault # FAULT_NONE => alu[u].branch.valid
  /\ \A p \in Lane : wb[p] # Empty /\ wb[p].branch.fault # FAULT_NONE => wb[p].branch.valid

(* Only a branch has a branch's result, and only a branch faults           *)
(* (lib/integer_alu.sv:33-38).                                             *)
LEMMA ComputedBranch ==
  ASSUME NEW x \in execute_t
  PROVE  /\ AluResult(x).branch.valid <=> is_branch(x.op)
         /\ AluResult(x).branch.fault # FAULT_NONE => is_branch(x.op)
<1> DEFINE taken == BranchTaken(x.op, x.a, x.b)
           target == (x.meta.pc + x.branch_offset) % WordModulus
           value == IF x.meta.rd = 0 THEN 0 ELSE IntegerValue(x.op, x.a, x.b)
           branch == IF ~is_branch(x.op) THEN NoBranch
                     ELSE [valid |-> TRUE, taken |-> taken, target |-> target,
                           fault |-> IF MisalignedBranch(taken, target)
                                     THEN FAULT_MISALIGNED ELSE FAULT_NONE]
<1>1. AluResult(x) = [meta |-> x.meta, value |-> value, branch |-> branch]
  BY DEF AluResult
<1> HIDE DEF taken, target, value
<1>2. CASE is_branch(x.op)
  BY <1>1, <1>2
<1>3. CASE ~is_branch(x.op)
  BY <1>1, <1>3 DEF NoBranch
<1> QED
  BY <1>2, <1>3

(* An instruction keeps its operation on its way from dispatch to a unit.  *)
LEMMA SameOp ==
  ASSUME TypesInv, NEW w, NEW d, NEW chosen, NEW seat, FlightMoves(w, d, chosen, seat)
  PROVE  /\ \A s \in Slot : iq[s] # Empty => Woke(iq[s], w.completions).op = iq[s].op
         /\ \A i \in 1 .. d.enqueued : Woke(d.prepared[i], w.completions).op = d.prepared[i].op
         /\ \A p \in Lane : chosen[p] # Empty => Sent(chosen)[p].op = iq[chosen[p]].op
         /\ \A p \in Lane : ex[p] # Empty => ex[p] \in execute_t
<1>1. /\ iq \in [Slot -> issue_t \cup {Empty}] /\ ex \in [Lane -> execute_t \cup {Empty}]
      /\ w.completions \in SUBSET result_t /\ \A i \in 1 .. d.enqueued : d.prepared[i] \in issue_t
      /\ \A p \in Lane : chosen[p] # Empty => chosen[p] \in Occupied
  BY DEF TypesInv, TypeOK, ExecutionTypes, FlightMoves
<1> DEFINE comps == w.completions
<1>2. \A q \in issue_t : Woke(q, comps).op = q.op
  <2> HIDE DEF comps
  <2>1. comps \in SUBSET result_t
    BY <1>1 DEF comps
  <2> SUFFICES ASSUME NEW q \in issue_t PROVE Woke(q, comps).op = q.op
    OBVIOUS
  <2> QED
    BY <2>1, WokeIs
<1>3. \A p \in Lane : chosen[p] # Empty => Sent(chosen)[p].op = iq[chosen[p]].op
  <2> SUFFICES ASSUME NEW p \in Lane, chosen[p] # Empty PROVE Sent(chosen)[p].op = iq[chosen[p]].op
    OBVIOUS
  <2> DEFINE s == chosen[p]
  <2>1. Sent(chosen)[p] = Issued(s) /\ s # Empty /\ s \in Occupied
    BY <1>1 DEF Sent
  <2> HIDE DEF s
  <2>2. Issued(s).op = iq[s].op
    BY <1>1, <2>1, IssuedType
  <2> QED
    BY <2>1, <2>2 DEF s
<1> QED
  BY <1>1, <1>2, <1>3 DEF comps

(* A branch stays one on its way to writeback, and nothing else becomes one*)
LEMMA BranchFlow ==
  ASSUME TypesInv, MdOne, MdPlain, NEW w, NEW d, NEW chosen, NEW seat,
         FlightMoves(w, d, chosen, seat),
         NEW b \in InFlight, b[1] # "wb", NEW a, a = MovesTo(b, chosen)
  PROVE  BranchAt(a)' <=> BranchAt(b)
<1> DEFINE Same == BranchAt(a)' <=> BranchAt(b)
<1>1. ExecutionMoves(Sent(chosen))
  BY DEF FlightMoves
<1>2. \A u \in Lane : u # MULDIV /\ u # Empty
  BY NotEmpty DEF Lane, MULDIV
<1>3. ASSUME NEW s \in Slot, iq[s] # Empty, b = <<"iq", s, iq[s].meta>> PROVE Same
  <2>1. CASE s \in Removed(chosen)
    <3>1. PICK p \in Lane : chosen[p] = s /\ s # Empty
      BY <2>1 DEF Removed
    <3>2. stage_ready(p) /\ (chosen[0] # Empty => chosen[1] # chosen[0])
      BY <3>1 DEF FlightMoves
    <3>3. LaneWith(chosen, s) = p
      BY <3>1, <3>2, LaneWithIs
    <3>4. ex'[p] = Sent(chosen)[p]
      BY <1>1, <3>2 DEF ExecutionMoves
    <3>5. ex'[p].op = iq[s].op
      BY <3>1, <3>4, SameOp
    <3>6. a = <<"ex", p, iq[s].meta>>
      BY <1>3, <2>1, <3>3 DEF MovesTo
    <3> QED
      BY <1>3, <3>5, <3>6 DEF BranchAt
  <2>2. CASE s \notin Removed(chosen)
    <3>1. ~ \E i \in 1 .. d.enqueued : seat[i] = s
      BY <1>3, <2>2 DEF FlightMoves
    <3>2. iq'[s] = Woke(iq[s], w.completions)
      BY <1>3, <2>2, <3>1 DEF FlightMoves
    <3>3. iq'[s].op = iq[s].op
      BY <1>3, <3>2, SameOp
    <3>4. a = b
      BY <1>3, <2>2 DEF MovesTo
    <3> QED
      BY <1>3, <3>3, <3>4 DEF BranchAt
  <2> QED
    BY <2>1, <2>2
<1>4. ASSUME NEW p \in Lane, ex[p] # Empty, b = <<"ex", p, ex[p].meta>> PROVE Same
  <2>1. CASE Started[p] = Empty
    <3>1. ex'[p] = ex[p]
      BY <1>1, <1>4, <2>1 DEF ExecutionMoves, stage_ready
    <3>2. a = b
      BY <1>4, <2>1 DEF MovesTo
    <3> QED
      BY <1>4, <3>1, <3>2 DEF BranchAt
  <2>2. CASE Started[p] # Empty /\ Started[p] = MULDIV
    <3>1. is_muldiv(ex[p].op)
      BY <2>2 DEF FlightMoves, UnitsFor
    <3>2. ~is_branch(ex[p].op)
      BY <3>1 DEF is_muldiv, is_branch, MulOps, DivOps, BranchOps
    <3>3. a = <<"md", 0, ex[p].meta>>
      BY <1>4, <2>2 DEF MovesTo
    <3> QED
      BY <1>4, <3>2, <3>3 DEF BranchAt
  <2>3. CASE Started[p] # Empty /\ Started[p] # MULDIV
    <3> DEFINE u == Started[p]
    <3>1. u \in UnitsFor(p)
      BY <2>3 DEF FlightMoves
    <3>2. u \in Lane
      BY <2>3, <3>1 DEF UnitsFor, Unit, MULDIV, Lane
    <3>3. alu'[u] = AluResult(ex[p])
      BY <1>1, <3>2 DEF ExecutionMoves
    <3>4. alu'[u].branch.valid <=> is_branch(ex[p].op)
      BY <1>4, <3>3, SameOp, ComputedBranch
    <3>5. a = <<"alu", u, ex[p].meta>>
      BY <1>4, <2>3 DEF MovesTo
    <3>6. PICK v \in Lane : v = u
      BY <3>2
    <3> HIDE DEF u
    <3>7. a[1] = "alu" /\ a[2] = v /\ (alu'[v].branch.valid <=> is_branch(ex[p].op))
      BY <3>4, <3>5, <3>6
    <3>8. BranchAt(a)' <=> alu'[v].branch.valid
      BY <3>7 DEF BranchAt
    <3>9. BranchAt(b) <=> is_branch(ex[p].op)
      BY <1>4 DEF BranchAt
    <3> QED
      BY <3>7, <3>8, <3>9
  <2> QED
    BY <2>1, <2>2, <2>3
<1>5. ASSUME NEW u \in Unit, Leaves(u)
      PROVE  LaneWith(Granted, u) \in Lane /\ wb'[LaneWith(Granted, u)] = UnitResult(u)
  <2>1. PICK p \in Lane : Granted[p] = u
    BY <1>5 DEF Leaves
  <2>2. u # Empty
    BY NotEmpty DEF Unit
  <2>3. LaneWith(Granted, u) = p
    <3>1. Granted[0] # Empty => Granted[1] # Granted[0]
      BY DEF FlightMoves
    <3> QED
      BY <2>1, <2>2, <3>1, LaneWithIs
  <2>4. wb'[p] = UnitResult(u)
    BY <1>1, <2>1, <2>2 DEF ExecutionMoves
  <2> QED
    BY <2>3, <2>4
<1>6. ASSUME NEW u \in Lane, alu[u] # Empty, b = <<"alu", u, alu[u].meta>> PROVE Same
  <2>1. CASE Leaves(u)
    <3>1. u \in Unit /\ UnitResult(u) = alu[u]
      BY <1>2 DEF Unit, Lane, UnitResult
    <3>2. a[1] = "wb" /\ a[2] = LaneWith(Granted, u)
      BY <1>6, <2>1 DEF MovesTo
    <3>3. wb'[a[2]] = alu[u]
      BY <1>5, <2>1, <3>1, <3>2
    <3>4. BranchAt(a)' <=> wb'[a[2]].branch.valid
      BY <3>2 DEF BranchAt
    <3>5. BranchAt(b) <=> alu[u].branch.valid
      BY <1>6 DEF BranchAt
    <3> QED
      BY <3>3, <3>4, <3>5
  <2>2. CASE ~Leaves(u)
    <3>1. ~Starts(u)
      BY <1>1, <1>6, <2>2 DEF ExecutionMoves
    <3>2. alu'[u] = alu[u]
      BY <1>1, <2>2, <3>1 DEF ExecutionMoves
    <3>3. a = b
      BY <1>6, <2>2 DEF MovesTo
    <3> QED
      BY <1>6, <3>2, <3>3 DEF BranchAt
  <2> QED
    BY <2>1, <2>2
<1>7. ASSUME md.busy, b = <<"md", 0, md.request.meta>> PROVE Same
  <2>1. a[1] = "md" /\ b[1] = "md"
    BY <1>7 DEF MovesTo
  <2> QED
    BY <2>1 DEF BranchAt
<1>8. ASSUME md.out # Empty, b = <<"md", 1, md.out.meta>> PROVE Same
  <2>1. CASE Leaves(MULDIV)
    <3>1. MULDIV \in Unit /\ UnitResult(MULDIV) = md.out
      BY DEF Unit, MULDIV, UnitResult
    <3>2. a[1] = "wb" /\ a[2] = LaneWith(Granted, MULDIV)
      BY <1>8, <2>1 DEF MovesTo
    <3>3. wb'[a[2]] = md.out
      BY <1>5, <2>1, <3>1, <3>2
    <3>4. BranchAt(a)' <=> wb'[a[2]].branch.valid
      BY <3>2 DEF BranchAt
    <3>5. ~md.out.branch.valid
      BY <1>8 DEF MdPlain, NoBranch
    <3>6. ~BranchAt(b)
      BY <1>8 DEF BranchAt
    <3> QED
      BY <3>3, <3>4, <3>5, <3>6
  <2>2. CASE ~Leaves(MULDIV)
    <3>1. a[1] = "md" /\ b[1] = "md"
      BY <1>8, <2>2 DEF MovesTo
    <3> QED
      BY <3>1 DEF BranchAt
  <2> QED
    BY <2>1, <2>2
<1> QED
  BY <1>3, <1>4, <1>6, <1>7, <1>8, Places

(* An edge keeps branch results to branches: a multiplication or division  *)
(* carries none.                                                           *)
LEMMA ResultsEdge ==
  ASSUME TypesInv, MdOne, MdPlain, BranchFaults, NEW w, NEW d, NEW chosen, NEW seat,
         FlightMoves(w, d, chosen, seat)
  PROVE  MdPlain' /\ BranchFaults'
<1>1. ExecutionMoves(Sent(chosen))
  BY DEF FlightMoves
<1>2. \A u \in Lane : u # MULDIV /\ u # Empty
  BY NotEmpty DEF Lane, MULDIV
<1>3. md.busy \in BOOLEAN
  BY DEF TypesInv, TypeOK, ExecutionTypes, MdTypes, MdRegisters
<1>4. MdPlain'
  <2> SUFFICES ASSUME md'.out # Empty PROVE md'.out.branch = NoBranch
    BY DEF MdPlain
  <2>1. ~Starts(MULDIV)
    BY <1>1 DEF ExecutionMoves, Starts
  <2>2. CASE md.busy
    BY <1>1, <2>1, <2>2 DEF ExecutionMoves
  <2>3. CASE ~md.busy
    <3>1. md'.out = md.out
      BY <1>1, <2>1, <2>3 DEF ExecutionMoves
    <3> QED
      BY <3>1 DEF MdPlain
  <2> QED
    BY <2>2, <2>3
<1>5. ASSUME NEW u \in Lane, alu'[u] # Empty, alu'[u].branch.fault # FAULT_NONE
      PROVE  alu'[u].branch.valid
  <2>1. CASE Starts(u)
    <3>1. PICK p \in Lane : Started[p] = u
      BY <2>1 DEF Starts
    <3>2. ex[p] # Empty /\ alu'[u] = AluResult(ex[p])
      BY <1>1, <1>2, <3>1 DEF ExecutionMoves, FlightMoves, UnitsFor
    <3> QED
      BY <1>5, <3>2, SameOp, ComputedBranch
  <2>2. CASE ~Starts(u)
    <3>1. alu'[u] = alu[u]
      BY <1>1, <1>5, <2>2 DEF ExecutionMoves
    <3> QED
      BY <1>5, <3>1 DEF BranchFaults
  <2> QED
    BY <2>1, <2>2
<1>6. ASSUME NEW p \in Lane, wb'[p] # Empty, wb'[p].branch.fault # FAULT_NONE
      PROVE  wb'[p].branch.valid
  <2> DEFINE u == Granted[p]
  <2>1. u # Empty /\ wb'[p] = UnitResult(u) /\ u \in WaitingUnits
    BY <1>1, <1>6 DEF ExecutionMoves, FlightMoves
  <2> HIDE DEF u
  <2>2. u \in Unit /\ UnitResult(u) # Empty
    BY <2>1 DEF WaitingUnits
  <2>3. CASE u = MULDIV
    <3>1. wb'[p] = md.out /\ md.out # Empty
      BY <2>1, <2>2, <2>3 DEF UnitResult
    <3> QED
      BY <1>6, <3>1 DEF MdPlain, NoBranch
  <2>4. CASE u # MULDIV
    <3>1. u \in Lane /\ alu[u] # Empty /\ wb'[p] = alu[u]
      BY <2>1, <2>2, <2>4 DEF UnitResult, Unit, MULDIV, Lane
    <3> QED
      BY <1>6, <3>1 DEF BranchFaults
  <2> QED
    BY <2>3, <2>4
<1> QED
  BY <1>4, <1>5, <1>6 DEF BranchFaults

(* A branch that has faulted is terminal.                                  *)
FaultedEnds ==
  \A i \in 1 .. count : Window[i].branch.fault # FAULT_NONE => Window[i].terminal

(* An entry that stays is unchanged or takes over the branch result        *)
(* written under its tag (lib/completion_queue.sv:37-46).                  *)
LEMMA KeptBranch ==
  ASSUME NEW old \in rob_entry_t, NEW new, NEW completions \in SUBSET result_t,
         Kept(new, old, completions)
  PROVE  \/ new = old /\ ~ \E r \in completions : r.meta.tag = old.meta.tag
         \/ \E r \in completions : /\ r.meta.tag = old.meta.tag /\ new.branch = r.branch /\ new.done
                                   /\ new.terminal = (old.terminal \/ r.branch.fault # FAULT_NONE)
<1>1. CASE ~(\E r \in completions : r.meta.tag = old.meta.tag) /\ new = old
  BY <1>1
<1>2. CASE \E r \in completions : r.meta.tag = old.meta.tag /\ new = CompletedEntry(old, r)
  <2>1. PICK r \in completions : r.meta.tag = old.meta.tag /\ new = CompletedEntry(old, r)
    BY <1>2
  <2>2. new.terminal = (old.terminal \/ r.branch.fault # FAULT_NONE) /\ new.branch = r.branch
        /\ new.done = TRUE
    <3>1. new = [old EXCEPT !.done = TRUE, !.value = r.value, !.branch = r.branch,
                   !.terminal = old.terminal \/ r.branch.fault # FAULT_NONE,
                   !.fault = IF r.branch.fault # FAULT_NONE THEN r.branch.fault ELSE old.fault]
      BY <2>1 DEF CompletedEntry
    <3>2. old \in [done : BOOLEAN, terminal : BOOLEAN, serial : BOOLEAN, fault : FaultCode,
               trap_cause : Word, instruction : instruction_t \cup {NoWord}, meta : meta_t,
               value : Word, branch : branch_result_t]
      BY DEF rob_entry_t
    <3> QED
      BY <3>1, <3>2
  <2> QED
    BY <2>1, <2>2
<1> QED
  BY <1>1, <1>2 DEF Kept

(* An edge keeps entries with a faulted branch terminal.                   *)
LEMMA FaultedEdge ==
  ASSUME WindowInv, FaultedEnds, NEW w, NEW d, NEW chosen, EdgeHolds(w, d, chosen), ~w.backend_flush
  PROVE  FaultedEnds'
<1> DEFINE keep == count - w.retiring
           comps == w.completions
<1>1. TypesInv /\ WindowFull
  BY DEF WindowInv
<1>2. comps \in SUBSET result_t
  BY CompletionsTypes DEF EdgeHolds, WindowInv, TypesInv, TypeOK
<1>3. ASSUME NEW i \in 1 .. count', Window'[i].branch.fault # FAULT_NONE PROVE Window'[i].terminal
  <2>1. CASE i <= keep
    <3> DEFINE j == i + w.retiring
    <3>1. j \in 1 .. count /\ Kept(Window'[i], Window[j], comps)
      BY <1>1, <2>1, WindowAfter
    <3> HIDE DEF j, comps
    <3>2. Window[j] \in rob_entry_t
      BY <1>1, <3>1, WindowIs
    <3>3. \/ Window'[i] = Window[j]
          \/ \E r \in comps : /\ Window'[i].branch = r.branch
                              /\ Window'[i].terminal = (Window[j].terminal \/ r.branch.fault # FAULT_NONE)
      BY <1>2, <3>1, <3>2, KeptBranch
    <3> QED
      BY <1>3, <3>1, <3>3 DEF FaultedEnds
  <2>2. CASE i > keep
    <3> DEFINE j == i - keep
    <3>1. j \in 1 .. d.n /\ Window'[i] = NewEntry(d, j)
      BY <1>1, <2>2, WindowAfter
    <3> HIDE DEF j
    <3>2. NewEntry(d, j).branch = NoBranch
      BY <1>1, <3>1, NewEntryIs
    <3> QED
      BY <1>3, <3>1, <3>2 DEF NoBranch
  <2>3. i <= keep \/ i > keep
    <3>1. count \in 0 .. RobDepth /\ RobDepth \in Nat /\ w.retiring \in 0 .. 2 /\ count' \in 0 .. RobDepth
      BY <1>1, Moved
    <3> HIDE DEF comps
    <3> QED
      BY <3>1
  <2> QED
    BY <2>1, <2>2, <2>3
<1> QED
  BY <1>3 DEF FaultedEnds

-----------------------------------------------------------------------------
(* Blocking policy: the branch that blocks dispatch is the only branch in  *)
(* flight and the youngest entry.                                          *)
OneBranch == \A a \in InFlight : BranchAt(a) <=> a[3].tag = pending
PendingLast ==
  pending # Empty =>
    /\ count > 0 /\ Window[count].meta.tag = pending
    /\ Window[count].done => Window[count].branch.fault # FAULT_NONE
BlockingInv == ~BRANCH_AT_RETIRE => OneBranch /\ PendingLast
BranchInv == PlaceInv /\ MdPlain /\ BranchFaults /\ FaultedEnds /\ BlockingInv

(* Under the blocking policy nothing is dispatched behind a pending        *)
(* branch, nor behind a branch of the same bundle.                         *)
LEMMA BlockedDispatch ==
  ASSUME ~BRANCH_AT_RETIRE, QueuesBounded, NEW w, NEW d, DispatchFacts(w, d)
  PROVE  /\ pending # Empty => d.n = 0
         /\ d.n = 2 => ~is_branch(id_q[1].op)
<1> DEFINE n == d.n
           limit == dispatch_limit(dispatch_data)
<1>1. n \in 0 .. 2 /\ n <= limit /\ n <= Len(id_q)
      /\ \A i \in 1 .. n : dispatch_data[i] = id_q[i] /\ id_q[i] \in decode_t
  BY DEF DispatchFacts
<1>2. limit = IF pending # Empty THEN 0
              ELSE IF Len(dispatch_data) > 0 /\ is_branch(dispatch_data[1].op) THEN 1 ELSE 2
  BY DEF dispatch_limit
<1> HIDE DEF n, limit
<1>3. pending # Empty => n = 0
  BY <1>1, <1>2
<1>4. ASSUME n = 2 PROVE ~is_branch(id_q[1].op)
  <2>1. Len(id_q) \in 0 .. 2
    BY DEF QueuesBounded
  <2> DEFINE l == Len(id_q)
  <2>2. IdDispatch!pop_available = IF l >= 2 THEN 2 ELSE l
    BY DEF IdDispatch!pop_available
  <2>3. dispatch_data = SubSeq(id_q, 1, IdDispatch!pop_available)
    BY DEF dispatch_data, IdDispatch!pop_data
  <2>4. l = 2
    BY <1>1, <1>4, <2>1
  <2>5. IdDispatch!pop_available = 2
    BY <2>2, <2>4
  <2>6. Len(dispatch_data) = 2
    BY <2>3, <2>5
  <2>7. dispatch_data[1] = id_q[1]
    <3>1. 1 \in 1 .. n
      BY <1>4
    <3> QED
      BY <1>1, <3>1
  <2> HIDE DEF l
  <2> QED
    BY <1>1, <1>2, <1>4, <2>6, <2>7
<1> QED
  BY <1>3, <1>4 DEF n

(* What becomes of the pending branch on an edge: it resolves, it stays,   *)
(* or one is dispatched (control/branch_control_blocking.sv).              *)
LEMMA PendingNext ==
  ASSUME ~BRANCH_AT_RETIRE, TypesInv, NEW w, NEW d, NEW chosen, EdgeHolds(w, d, chosen),
         ~w.backend_flush
  PROVE  \/ Resolving(w.completions) # {} /\ pending' = Empty
         \/ /\ Resolving(w.completions) = {} /\ pending' = pending
            /\ \A i \in 1 .. d.n : ~is_branch(id_q[i].op)
         \/ /\ Resolving(w.completions) = {} /\ pending = Empty
            /\ d.n \in 1 .. 2 /\ is_branch(id_q[d.n].op) /\ pending' = allocate_tag(d.n - 1)
            /\ \A i \in 1 .. d.n : is_branch(id_q[i].op) => i = d.n
<1>1. QueuesBounded /\ RenameTypes /\ RetireTypes /\ WiresHold(w) /\ DispatchFacts(w, d)
      /\ BranchTick(w.finishing, w.trap.valid \/ w.mret_commit, Bundle(d), w.completions)
  BY DEF EdgeHolds, BackSteps, TypesInv, TypeOK
<1>2. ~w.finishing /\ ~(w.trap.valid \/ w.mret_commit)
  BY <1>1 DEF WiresHold
<1> DEFINE n == d.n
           branches == {i \in 1 .. n : is_branch(id_q[i].op)}
           Last == CHOOSE i \in branches : \A j \in branches : j <= i
<1>3. /\ DOMAIN Bundle(d) = 1 .. n
      /\ \A i \in 1 .. n : Bundle(d)[i].tag = allocate_tag(i - 1) /\ Bundle(d)[i].op = id_q[i].op
  BY <1>1, BundleTypes
<1>4. n \in 0 .. 2 /\ (pending # Empty => n = 0) /\ (n = 2 => ~is_branch(id_q[1].op))
  BY <1>1, BlockedDispatch DEF DispatchFacts
<1>5. {i \in DOMAIN Bundle(d) : is_branch(Bundle(d)[i].op)} = branches
  BY <1>3
<1>6. pending' = IF Resolving(w.completions) # {} THEN Empty
                 ELSE IF branches = {} THEN pending ELSE Bundle(d)[Last].tag
  <2> DEFINE picked == {i \in DOMAIN Bundle(d) : is_branch(Bundle(d)[i].op)}
             First == CHOOSE i \in picked : \A j \in picked : j <= i
  <2>1. pending' = IF BRANCH_AT_RETIRE \/ w.finishing \/ (w.trap.valid \/ w.mret_commit) THEN Empty
                   ELSE IF Resolving(w.completions) # {} THEN Empty
                   ELSE IF picked = {} THEN pending ELSE Bundle(d)[First].tag
    BY <1>1 DEF BranchTick
  <2>2. picked = branches
    BY <1>5
  <2>3. First = Last
    <3> HIDE DEF picked, branches
    <3> QED
      BY <2>2
  <2> HIDE DEF picked, First, branches, Last
  <2> QED
    BY <1>2, <2>1, <2>2, <2>3
<1> HIDE DEF n
<1>7. branches # {} => n \in 1 .. 2 /\ branches = {n}
  BY <1>4
<1>8. branches # {} => Last = n
  <2> SUFFICES ASSUME branches # {} PROVE Last = n
    OBVIOUS
  <2>1. branches = {n} /\ n \in 1 .. 2
    BY <1>7
  <2> HIDE DEF branches
  <2> QED
    BY <2>1
<1>9. branches # {} => Bundle(d)[Last].tag = allocate_tag(n - 1)
  <2> HIDE DEF Last, branches
  <2> QED
    BY <1>3, <1>7, <1>8
<1>10. branches # {} => is_branch(id_q[n].op) /\ \A i \in 1 .. n : is_branch(id_q[i].op) => i = n
  BY <1>7
<1>11. branches # {} => pending = Empty
  BY <1>4
<1>12. branches = {} => \A i \in 1 .. n : ~is_branch(id_q[i].op)
  OBVIOUS
<1> HIDE DEF branches, Last
<1> QED
  BY <1>6, <1>7, <1>9, <1>10, <1>11, <1>12 DEF n

(* A result written back was in flight, in a writeback register.           *)
LEMMA CompletionAt ==
  ASSUME NEW w, WiresHold(w), NEW r \in w.completions
  PROVE  \E p \in Lane : wb[p] # Empty /\ r = wb[p] /\ <<"wb", p, r.meta>> \in InFlight
<1>1. PICK p \in Lane : wb[p] # Empty /\ r = wb[p]
  BY DEF WiresHold
<1> QED
  BY <1>1, Places

(* An edge keeps the pending branch the only branch in flight.             *)
LEMMA OneBranchEdge ==
  ASSUME BranchInv, ~BRANCH_AT_RETIRE, NEW w, NEW d, NEW chosen, EdgeHolds(w, d, chosen),
         ~w.backend_flush
  PROVE  OneBranch'
<1>1. TypesInv /\ MdOne /\ MdPlain /\ WiresHold(w) /\ DispatchFacts(w, d) /\ PlaceInv
      /\ OneBranch /\ EachInOnePlace /\ QueuesBounded
  BY DEF BranchInv, PlaceInv, WindowInv, EdgeHolds, BlockingInv, TypesInv, TypeOK
<1>2. PICK seat : FlightMoves(w, d, chosen, seat)
  BY <1>1, FlightMovesIs
<1> SUFFICES ASSUME NEW a \in InFlight' PROVE (BranchAt(a)' <=> a[3].tag = pending')
  BY DEF OneBranch
<1>3. d.n \in 0 .. 2 /\ d.enqueued \in 0 .. d.n /\ (pending # Empty => d.n = 0)
  BY <1>1, BlockedDispatch DEF DispatchFacts
<1>4. \A t \in RobTag : t # Empty
  BY NotEmpty DEF RobTag
<1>5. ASSUME NEW b \in InFlight, b[1] # "wb", a = MovesTo(b, chosen), a[3] = b[3]
      PROVE  BranchAt(a)' <=> a[3].tag = pending'
  <2>1. BranchAt(a)' <=> b[3].tag = pending
    BY <1>1, <1>2, <1>5, BranchFlow DEF OneBranch
  <2>2. b[3].tag \in RobTag /\ rob[b[3].tag] # Empty
    BY <1>1, FlightTypes DEF EachInOnePlace
  <2>3. CASE Resolving(w.completions) # {} /\ pending' = Empty
    <3>1. PICK r \in w.completions : r.meta.tag = pending
      BY <2>3 DEF Resolving
    <3>2. PICK p \in Lane : wb[p] # Empty /\ r = wb[p] /\ <<"wb", p, r.meta>> \in InFlight
      BY <1>1, CompletionAt
    <3>3. b[3].tag = pending => b = <<"wb", p, r.meta>>
      BY <1>1, <3>1, <3>2 DEF EachInOnePlace
    <3>4. b[3].tag # pending
      BY <1>5, <3>3
    <3> QED
      BY <1>4, <1>5, <2>1, <2>2, <2>3, <3>4
  <2>4. CASE pending' = pending
    BY <1>5, <2>1, <2>4
  <2>5. CASE pending = Empty /\ d.n \in 1 .. 2 /\ pending' = allocate_tag(d.n - 1)
    <3>1. d.n \in 1 .. d.n
      BY <2>5
    <3>2. rob[allocate_tag(d.n - 1)] = Empty
      BY <1>1, <3>1, PlaceNew
    <3>3. b[3].tag # pending'
      BY <2>2, <2>5, <3>2
    <3>4. b[3].tag # pending
      BY <1>4, <2>2, <2>5
    <3> QED
      BY <1>5, <2>1, <3>3, <3>4
  <2> QED
    BY <1>1, <2>3, <2>4, <2>5, PendingNext
<1>6. ASSUME NEW i \in 1 .. d.enqueued, a = <<"iq", seat[i], d.prepared[i].meta>>
      PROVE  BranchAt(a)' <=> a[3].tag = pending'
  <2>1. i \in 1 .. d.n /\ d.n # 0 /\ d.n \in 1 .. d.n
    BY <1>3
  <2>2. iq'[seat[i]] = Woke(d.prepared[i], w.completions)
    BY <1>2 DEF FlightMoves
  <2>3. d.prepared[i].op = id_q[i].op
    BY <1>1, <2>1, NewEntryIs
  <2>4. iq'[seat[i]].op = id_q[i].op
    BY <1>1, <1>2, <2>2, <2>3, SameOp
  <2>5. BranchAt(a)' <=> is_branch(id_q[i].op)
    BY <1>6, <2>4 DEF BranchAt
  <2>6. a[3].tag = allocate_tag(i - 1) /\ a[3].tag \in RobTag
        /\ Distance(allocate_tag(i - 1)) = count + i - 1
    BY <1>1, <1>6, <2>1, PlaceNew
  <2>7. pending = Empty
    BY <1>3, <2>1
  <2>8. CASE pending' = Empty
    <3>1. Resolving(w.completions) = {}
      BY <2>7 DEF Resolving
    <3>2. pending' = allocate_tag(d.n - 1) => FALSE
      <4>1. allocate_tag(d.n - 1) \in RobTag
        BY <1>1, <2>1, PlaceNew
      <4> QED
        BY <1>4, <2>8, <4>1
    <3>3. ~is_branch(id_q[i].op)
      BY <1>1, <2>1, <3>1, <3>2, PendingNext
    <3> QED
      BY <1>4, <2>5, <2>6, <2>8, <3>3
  <2>9. CASE /\ is_branch(id_q[d.n].op) /\ pending' = allocate_tag(d.n - 1)
             /\ \A j \in 1 .. d.n : is_branch(id_q[j].op) => j = d.n
    <3>1. is_branch(id_q[i].op) <=> i = d.n
      BY <2>1, <2>9
    <3>2. Distance(allocate_tag(d.n - 1)) = count + d.n - 1
      BY <1>1, <2>1, PlaceNew
    <3>3. count \in 0 .. RobDepth /\ RobDepth \in Nat
      BY <1>1, Moved
    <3>4. i # d.n => count + i - 1 # count + d.n - 1
      BY <1>3, <2>1, <3>3
    <3> QED
      BY <2>5, <2>6, <2>9, <3>1, <3>2, <3>4
  <2> QED
    BY <1>1, <2>7, <2>8, <2>9, PendingNext
<1> QED
  BY <1>1, <1>2, <1>5, <1>6, FlowBack

(* An edge keeps the pending branch the youngest entry.                    *)
LEMMA PendingLastEdge ==
  ASSUME BranchInv, ~BRANCH_AT_RETIRE, NEW w, NEW d, NEW chosen, EdgeHolds(w, d, chosen),
         ~w.backend_flush
  PROVE  PendingLast'
<1> DEFINE n == d.n
           e == w.retiring
           comps == w.completions
<1>1. TypesInv /\ WindowInv /\ WindowFull /\ WiresHold(w) /\ DispatchFacts(w, d) /\ OneBranch
      /\ PendingLast /\ FaultedEnds /\ QueuesBounded
  BY DEF BranchInv, PlaceInv, WindowInv, EdgeHolds, BlockingInv, TypesInv, TypeOK
<1>2. comps \in SUBSET result_t
  BY <1>1, CompletionsTypes DEF TypesInv, TypeOK
<1>3. /\ e \in 0 .. 2 /\ e <= count /\ n \in 0 .. 2 /\ count \in 0 .. RobDepth /\ RobDepth \in Nat
      /\ count' = count + n - e
  BY <1>1, Moved
<1>4. CASE Resolving(comps) = {} /\ pending' = pending /\ pending # Empty
  <2>1. n = 0
    BY <1>1, <1>4, BlockedDispatch
  <2>2. /\ count \in 1 .. count /\ count > 0 /\ Window[count].meta.tag = pending
        /\ Window[count].done => Window[count].branch.fault # FAULT_NONE
    BY <1>1, <1>3, <1>4 DEF PendingLast
  <2>3. e # count
    <3> SUFFICES ASSUME e = count PROVE FALSE
      OBVIOUS
    <3>1. count \in 1 .. w.retiring
      BY <2>2
    <3>2. Window[count].done /\ ~Window[count].terminal
      BY <1>1, <3>1, Retires
    <3> QED
      BY <1>1, <2>2, <3>2 DEF FaultedEnds
  <2>4. count' \in 1 .. count' /\ count' > 0 /\ count' <= count - e /\ count' + e = count
    BY <1>3, <2>1, <2>3
  <2>5. Kept(Window'[count'], Window[count], comps)
    <3>1. Kept(Window'[count'], Window[count' + w.retiring], w.completions)
      BY <1>1, <2>4, WindowAfter
    <3> QED
      BY <2>4, <3>1
  <2>6. Window[count] \in rob_entry_t
    BY <1>1, <2>2, WindowIs
  <2> HIDE DEF comps
  <2>7. Window'[count'].meta.tag = pending
    BY <1>2, <2>2, <2>5, <2>6, KeptIs
  <2>8. Window'[count'].done => Window'[count'].branch.fault # FAULT_NONE
    <3>1. CASE Window'[count'] = Window[count]
      BY <2>2, <3>1
    <3>2. CASE \E r \in comps : r.meta.tag = Window[count].meta.tag /\ Window'[count'].branch = r.branch
      <4>1. PICK r \in comps : r.meta.tag = pending /\ Window'[count'].branch = r.branch
        BY <2>2, <3>2
      <4>2. PICK p \in Lane : wb[p] # Empty /\ r = wb[p] /\ <<"wb", p, r.meta>> \in InFlight
        BY <1>1, <4>1, CompletionAt DEF comps
      <4>3. BranchAt(<<"wb", p, r.meta>>)
        BY <1>1, <4>1, <4>2 DEF OneBranch
      <4>4. r.branch.valid
        BY <4>2, <4>3 DEF BranchAt
      <4>5. r \notin Resolving(comps)
        BY <1>4
      <4> QED
        BY <1>4, <4>1, <4>4, <4>5 DEF Resolving
    <3> QED
      BY <1>2, <2>5, <2>6, <3>1, <3>2, KeptBranch
  <2> QED
    BY <1>4, <2>4, <2>7, <2>8 DEF PendingLast
<1>5. CASE n \in 1 .. 2 /\ is_branch(id_q[n].op) /\ pending' = allocate_tag(n - 1)
  <2>1. count' \in 1 .. count' /\ count' > 0 /\ count' > count - e /\ count' - (count - e) = n
        /\ n \in 1 .. n
    BY <1>3, <1>5
  <2>2. Window'[count'] = NewEntry(d, n)
    <3>1. Window'[count'] = NewEntry(d, count' - (count - w.retiring))
      BY <1>1, <2>1, WindowAfter
    <3> QED
      BY <2>1, <3>1
  <2>3. /\ id_q[n] \in decode_t /\ NewEntry(d, n).meta.tag = allocate_tag(n - 1)
        /\ NewEntry(d, n).done = (id_q[n].terminal \/ id_q[n].serial)
    BY <1>1, <2>1, NewEntryIs
  <2>4. id_q[n].op # "ADD"
    BY <1>5 DEF is_branch, BranchOps
  <2>5. ~id_q[n].terminal /\ ~id_q[n].serial
    BY <2>3, <2>4 DEF decode_t
  <2> QED
    BY <1>5, <2>1, <2>2, <2>3, <2>5 DEF PendingLast
<1>6. pending' # Empty => \/ Resolving(comps) = {} /\ pending' = pending /\ pending # Empty
                          \/ n \in 1 .. 2 /\ is_branch(id_q[n].op) /\ pending' = allocate_tag(n - 1)
  BY <1>1, PendingNext
<1> HIDE DEF n, e, comps
<1> QED
  BY <1>4, <1>5, <1>6 DEF PendingLast

(* With nothing in flight no branch pends.                                 *)
LEMMA ClearedBranches == Cleared => MdPlain /\ BranchFaults /\ FaultedEnds /\ BlockingInv
<1> SUFFICES ASSUME Cleared PROVE MdPlain /\ BranchFaults /\ FaultedEnds /\ BlockingInv
  OBVIOUS
<1>1. InFlight = {} /\ count = 0 /\ pending = Empty /\ md.out = Empty
  BY ClearedWindow DEF Cleared
<1>2. \A p \in Lane : alu[p] = Empty /\ wb[p] = Empty
  BY DEF Cleared
<1>3. \A i \in 1 .. count : FALSE
  BY <1>1
<1> QED
  BY <1>1, <1>2, <1>3 DEF MdPlain, BranchFaults, FaultedEnds, BlockingInv, OneBranch, PendingLast

(* A step that changes nothing keeps the branches as they are.             *)
LEMMA StayBranches ==
  ASSUME MdPlain, BranchFaults, FaultedEnds, BlockingInv, UNCHANGED vars
  PROVE  MdPlain' /\ BranchFaults' /\ FaultedEnds' /\ BlockingInv'
<1>1. UNCHANGED <<rob, head, count, iq, ex, alu, md, wb, pending>>
  BY DEF vars, robVars, executionVars, backVars
<1>2. InFlight' = InFlight /\ Window' = Window
  BY <1>1 DEF InFlight, Occupied, Window
<1>3. \A a \in InFlight : BranchAt(a)' <=> BranchAt(a)
  BY <1>1 DEF BranchAt
<1>4. OneBranch => OneBranch'
  BY <1>1, <1>2, <1>3 DEF OneBranch
<1>5. PendingLast => PendingLast'
  BY <1>1, <1>2 DEF PendingLast
<1> QED
  BY <1>1, <1>2, <1>4, <1>5 DEF MdPlain, BranchFaults, FaultedEnds, BlockingInv

(* Every step preserves the invariant of the branches.                     *)
LEMMA BranchStep == BranchInv /\ [Next]_vars => BranchInv'
<1>1. Cleared' => MdPlain' /\ BranchFaults' /\ FaultedEnds' /\ BlockingInv'
  BY ClearedBranches, PTL
<1> SUFFICES ASSUME BranchInv, [Next]_vars PROVE BranchInv'
  OBVIOUS
<1>2. PlaceInv /\ PlaceInv' /\ WindowInv /\ TypesInv /\ MdOne
  BY PlaceStep DEF BranchInv, PlaceInv, WindowInv
<1>3. ASSUME NEW w, NEW d, NEW chosen, EdgeHolds(w, d, chosen), ~w.backend_flush
      PROVE  MdPlain' /\ BranchFaults' /\ FaultedEnds' /\ BlockingInv'
  <2>1. PICK seat : FlightMoves(w, d, chosen, seat)
    BY <1>2, <1>3, FlightMovesIs
  <2>2. MdPlain' /\ BranchFaults'
    BY <1>2, <2>1, ResultsEdge DEF BranchInv
  <2>3. FaultedEnds'
    BY <1>2, <1>3, FaultedEdge DEF BranchInv
  <2>4. BlockingInv'
    BY <1>3, OneBranchEdge, PendingLastEdge DEF BlockingInv
  <2> QED
    BY <2>2, <2>3, <2>4
<1>4. UNCHANGED vars => MdPlain' /\ BranchFaults' /\ FaultedEnds' /\ BlockingInv'
  BY StayBranches DEF BranchInv
<1> QED
  BY <1>1, <1>2, <1>3, <1>4, Steps DEF BranchInv

(* The initial states satisfy the invariant of the branches.               *)
LEMMA BranchInvInit == Init => BranchInv
  BY PlaceInit, ClearedInit, ClearedBranches DEF BranchInv

(* Blocking policy: the branch that blocks dispatch is the youngest entry  *)
(* and has no result, or has faulted, whatever is computed, retired or     *)
(* flushed meanwhile (control/branch_control_blocking.sv:36-51).           *)
THEOREM CoreBlocking == Spec => []PendingBranchYoungest
<1>1. BranchInv => PendingBranchYoungest
  BY DEF BranchInv, BlockingInv, PendingLast, PendingBranchYoungest
<1> QED
  BY <1>1, BranchInvInit, BranchStep, PTL DEF Spec

-----------------------------------------------------------------------------
(* The end of the program.  A terminal entry has stopped the fetch unit    *)
(* and closed dispatch, and with the blocking policy it is the youngest;   *)
(* a terminal packet that waits for dispatch has stopped the fetch unit;   *)
(* a core that has ended has an empty front end.                           *)
Stopping(stops) == {x \in decode_t : x.terminal => stops}
TerminalsStop == id_q \in Seq(Stopping(fetch_stopped))
TerminalsLast ==
  \A i \in 1 .. count : Window[i].terminal =>
    fetch_stopped /\ terminal_enqueued /\ (~BRANCH_AT_RETIRE => i = count)
FrontIdle == Fetch!idle /\ fetch_stopped /\ fifo_q = <<>> /\ if_q = <<>> /\ id_q = <<>>
EndedStops == halted \/ fault => FrontIdle

(* A redirect always flushes the front end; it is a trap's, an MRET's or a *)
(* branch's.                                                               *)
LEMMA RedirectFlushes ==
  ASSUME NEW w, WiresHold(w)
  PROVE  w.redirect.valid => w.trap.valid \/ w.mret_commit \/ w.branch.valid
<1>1. w.redirect = IF w.trap.valid THEN [valid |-> TRUE, pc |-> csr.mtvec]
                   ELSE IF w.mret_commit THEN [valid |-> TRUE, pc |-> csr.mepc]
                   ELSE w.branch
  BY DEF WiresHold
<1> QED
  BY <1>1

(* What stops the frontend after an edge (lib/core_pipeline.sv:141-149).   *)
LEMMA StopsFront ==
  ASSUME NEW w, NEW d, FrontEdge(w, d)
  PROVE  /\ fetch_stopped' = (~w.redirect.valid /\ (fetch_stopped \/ w.fetch_stop))
         /\ terminal_enqueued' = ( /\ ~w.redirect.valid
                                   /\ terminal_enqueued \/ d.terminal \/ w.branch_fault)
  BY DEF FrontEdge

(* Without a flush of the back end a redirect is the blocking policy's: of *)
(* a branch that had no result.                                            *)
LEMMA RedirectFrom ==
  ASSUME PlaceInv, NEW w, WiresHold(w), ~w.backend_flush, w.redirect.valid
  PROVE  /\ ~BRANCH_AT_RETIRE /\ w.branch.valid
         /\ \E r \in Resolving(w.completions), p \in Lane :
              /\ wb[p] # Empty /\ r = wb[p] /\ <<"wb", p, r.meta>> \in InFlight
              /\ r.meta.tag = pending /\ pending # Empty /\ r.branch.fault = FAULT_NONE
              /\ rob[pending] # Empty /\ ~rob[pending].done
<1>1. w.branch.valid /\ ~w.recovered.valid
  BY RedirectFlushes DEF WiresHold
<1>2. w.branch = blocking_redirect(w.completions, w.finishing)
  BY <1>1 DEF WiresHold
<1> DEFINE taken == {r \in Resolving(w.completions) : r.branch.taken}
<1>3. ~BRANCH_AT_RETIRE /\ taken # {}
  BY <1>1, <1>2 DEF blocking_redirect, NoRedirect
<1>4. PICK r \in Resolving(w.completions) : r.branch.taken
  BY <1>3
<1>5. r \in w.completions /\ r.meta.tag = pending /\ pending # Empty /\ r.branch.fault = FAULT_NONE
  BY <1>4 DEF Resolving
<1>6. PICK p \in Lane : wb[p] # Empty /\ r = wb[p] /\ <<"wb", p, r.meta>> \in InFlight
  BY <1>5, CompletionAt
<1>7. rob[r.meta.tag] # Empty /\ ~rob[r.meta.tag].done
  <2> DEFINE a == <<"wb", p, r.meta>>
  <2>1. a[3] = r.meta /\ a \in InFlight
    BY <1>6
  <2> HIDE DEF a
  <2> QED
    BY <2>1 DEF PlaceInv, EachInOnePlace
<1> QED
  BY <1>1, <1>3, <1>4, <1>5, <1>6, <1>7

(* An edge keeps the fetch unit stopped while a terminal packet waits      *)
(* before dispatch.                                                        *)
LEMMA TerminalsStopEdge ==
  ASSUME TypesInv, TerminalsStop, NEW w, NEW d, WiresHold(w), DispatchFacts(w, d), FrontEdge(w, d)
  PROVE  TerminalsStop'
<1> DEFINE flush == \/ d.terminal \/ w.finishing \/ w.branch.valid \/ w.branch_fault
                    \/ w.trap.valid \/ w.mret_commit
           id_pop == Lower(IfId!pop_available, IdDispatch!push_capacity)
           from_if == SubSeq(decoded, 1, id_pop)
           S == Stopping(fetch_stopped')
<1>1. IdDispatch!QueueTick(flush, from_if, d.n)
  BY DEF FrontEdge
<1>2. fetch_stopped' = (~w.redirect.valid /\ (fetch_stopped \/ w.fetch_stop))
  BY StopsFront
<1>3. QueuesBounded /\ if_q \in Seq(fetch_t) /\ id_q \in Seq(decode_t)
  BY DEF TypesInv, TypeOK, FrontTypes
<1>4. CASE flush
  <2>1. id_q' = <<>>
    BY <1>1, <1>4 DEF IdDispatch!QueueTick
  <2> QED
    BY <2>1, EmptySeq DEF TerminalsStop
<1>5. CASE ~flush
  <2>1. ~w.redirect.valid
    BY <1>5, RedirectFlushes
  <2>2. fetch_stopped' = (fetch_stopped \/ w.fetch_stop)
    BY <1>2, <2>1
  <2>3. Stopping(fetch_stopped) \subseteq S
    BY <2>2 DEF Stopping
  <2>4. id_q \in Seq(S)
    <3> HIDE DEF S
    <3> QED
      BY <2>3, SeqMonotonic DEF TerminalsStop
  <2>5. IfId!pop_available \in 0 .. Len(if_q) /\ id_pop \in 0 .. IfId!pop_available
    <3> DEFINE in_if == Len(if_q)
               in_id == Len(id_q)
    <3>1. in_if \in 0 .. 2 /\ in_id \in 0 .. 2
      BY <1>3 DEF QueuesBounded
    <3>2. /\ IfId!pop_available = IF in_if >= 2 THEN 2 ELSE in_if
          /\ IdDispatch!push_capacity = IF 2 - in_id >= 2 THEN 2 ELSE 2 - in_id
      BY DEF IfId!pop_available, IdDispatch!push_capacity
    <3> HIDE DEF in_if, in_id
    <3>3. IfId!pop_available \in 0 .. in_if /\ id_pop \in 0 .. IfId!pop_available
      BY <3>1, <3>2 DEF Lower
    <3> QED
      BY <3>3 DEF in_if
  <2>6. from_if \in Seq(S)
    <3> DEFINE n == IfId!pop_available
    <3>1. n \in Nat
      BY <2>5
    <3>2. \A i \in 1 .. n : IfId!pop_data[i] \in fetch_t
      BY <1>3, <2>5, PrefixTypes DEF IfId!pop_data
    <3>3. \A i \in 1 .. n : rv32_decode(IfId!pop_data[i]) \in decode_t
      BY <3>2, DecodeType
    <3>4. \A i \in 1 .. n : decoded[i] \in S
      <4> SUFFICES ASSUME NEW i \in 1 .. n PROVE decoded[i] \in S
        OBVIOUS
      <4>1. decoded[i] = rv32_decode(IfId!pop_data[i]) /\ DOMAIN decoded = 1 .. n
        BY DEF decoded
      <4>2. decoded[i].terminal => w.fetch_stop
        BY <4>1 DEF WiresHold
      <4> QED
        BY <2>2, <3>3, <4>1, <4>2 DEF Stopping
    <3>5. decoded \in [1 .. n -> S]
      BY <3>4 DEF decoded
    <3> HIDE DEF n, S
    <3>6. decoded \in Seq(S) /\ Len(decoded) = n
      BY <3>1, <3>5, SeqDef, LenProperties
    <3> QED
      BY <2>5, <3>6, PrefixTypes DEF n
  <2>7. d.n \in 0 .. Len(id_q)
    BY <1>3 DEF DispatchFacts, QueuesBounded
  <2> HIDE DEF from_if, S
  <2>8. id_q' = SubSeq(id_q, d.n + 1, Len(id_q)) \o from_if
    BY <1>1, <1>5 DEF IdDispatch!QueueTick
  <2>9. id_q' \in Seq(S)
    BY <2>4, <2>6, <2>7, <2>8, QueueTypes
  <2> QED
    BY <2>9 DEF S, TerminalsStop
<1> QED
  BY <1>4, <1>5

(* An edge keeps the frontend stopped behind a terminal entry, which under *)
(* the blocking policy stays the youngest.                                 *)
LEMMA TerminalsLastEdge ==
  ASSUME BranchInv, TerminalsLast, TerminalsStop, NEW w, NEW d, NEW chosen,
         EdgeHolds(w, d, chosen), ~w.backend_flush
  PROVE  TerminalsLast'
<1> DEFINE n == d.n
           e == w.retiring
           comps == w.completions
           Stops == fetch_stopped' /\ terminal_enqueued'
<1>1. /\ TypesInv /\ PlaceInv /\ WindowInv /\ WindowFull /\ WiresHold(w) /\ DispatchFacts(w, d)
      /\ QueuesBounded /\ FrontEdge(w, d) /\ EachInOnePlace
  BY DEF BranchInv, PlaceInv, WindowInv, EdgeHolds, TypesInv, TypeOK
<1>2. comps \in SUBSET result_t
  BY <1>1, CompletionsTypes DEF TypesInv, TypeOK
<1>3. /\ e \in 0 .. 2 /\ e <= count /\ n \in 0 .. 2 /\ count \in 0 .. RobDepth /\ RobDepth \in Nat
      /\ count' = count + n - e /\ count' \in 0 .. RobDepth
  BY <1>1, Moved
<1>4. /\ fetch_stopped' = (~w.redirect.valid /\ (fetch_stopped \/ w.fetch_stop))
      /\ terminal_enqueued' = ( /\ ~w.redirect.valid
                                /\ terminal_enqueued \/ d.terminal \/ w.branch_fault)
  BY <1>1, StopsFront
<1>5. /\ ~BRANCH_AT_RETIRE => OneBranch /\ PendingLast
      /\ BranchFaults
  BY DEF BranchInv, BlockingInv
<1>6. ASSUME NEW j \in 1 .. count, Window[j].terminal
      PROVE  Stops /\ n = 0 /\ (~BRANCH_AT_RETIRE => j = count)
  <2>1. fetch_stopped /\ terminal_enqueued /\ (~BRANCH_AT_RETIRE => j = count)
    BY <1>6 DEF TerminalsLast
  <2>2. n = 0
    BY <1>1, <2>1 DEF DispatchFacts
  <2>3. ~w.redirect.valid
    <3> SUFFICES ASSUME w.redirect.valid PROVE FALSE
      OBVIOUS
    <3>1. ~BRANCH_AT_RETIRE /\ pending # Empty /\ rob[pending] # Empty /\ ~rob[pending].done
      BY <1>1, RedirectFrom
    <3>2. count \in 1 .. count /\ j = count /\ Window[count].meta.tag = pending
      BY <1>3, <1>5, <2>1, <3>1 DEF PendingLast
    <3>3. Window[count] \in rob_entry_t /\ rob[pending] = Window[count]
      BY <1>1, <3>2, WindowIs
    <3> QED
      BY <1>6, <3>1, <3>2, <3>3 DEF rob_entry_t
  <2> QED
    BY <1>4, <2>1, <2>2, <2>3
<1>7. ASSUME NEW j \in 1 .. count, NEW r \in comps, r.meta.tag = Window[j].meta.tag,
             r.branch.fault # FAULT_NONE
      PROVE  Stops /\ (~BRANCH_AT_RETIRE => n = 0 /\ j = count)
  <2>1. w.branch_fault
    BY <1>1, <1>7 DEF WiresHold
  <2>2. w.fetch_stop
    BY <1>1, <2>1 DEF WiresHold
  <2>3. PICK p \in Lane : wb[p] # Empty /\ r = wb[p] /\ <<"wb", p, r.meta>> \in InFlight
    BY <1>1, <1>7, CompletionAt
  <2>4. ~BRANCH_AT_RETIRE => pending = Window[j].meta.tag
    <3> SUFFICES ASSUME ~BRANCH_AT_RETIRE PROVE pending = Window[j].meta.tag
      OBVIOUS
    <3>1. r.branch.valid
      BY <1>5, <1>7, <2>3 DEF BranchFaults
    <3>2. BranchAt(<<"wb", p, r.meta>>)
      BY <2>3, <3>1 DEF BranchAt
    <3>3. r.meta.tag = pending
      BY <1>5, <2>3, <3>2 DEF OneBranch
    <3> QED
      BY <1>7, <3>3
  <2>5. Window[j] \in rob_entry_t /\ Window[j].meta.tag \in RobTag
        /\ Distance(Window[j].meta.tag) = j - 1
    BY <1>1, WindowIs
  <2>6. ~BRANCH_AT_RETIRE => n = 0 /\ j = count
    <3> SUFFICES ASSUME ~BRANCH_AT_RETIRE PROVE n = 0 /\ j = count
      OBVIOUS
    <3>1. pending # Empty
      BY <2>4, <2>5, NotEmpty DEF RobTag
    <3>2. n = 0
      BY <1>1, <3>1, BlockedDispatch
    <3>3. count \in 1 .. count /\ Window[count].meta.tag = pending
      BY <1>3, <1>5, <3>1 DEF PendingLast
    <3>4. Distance(pending) = count - 1
      BY <1>1, <3>3, WindowIs
    <3>5. j - 1 = count - 1
      BY <2>4, <2>5, <3>4
    <3> QED
      BY <1>3, <3>2, <3>5
  <2>7. ~w.redirect.valid
    <3> SUFFICES ASSUME w.redirect.valid PROVE FALSE
      OBVIOUS
    <3>1. PICK s \in Resolving(comps), q \in Lane :
            /\ wb[q] # Empty /\ s = wb[q] /\ <<"wb", q, s.meta>> \in InFlight
            /\ s.meta.tag = pending /\ s.branch.fault = FAULT_NONE
      BY <1>1, RedirectFrom
    <3>2. ~BRANCH_AT_RETIRE
      BY <1>1, RedirectFrom
    <3>3. r.meta.tag = s.meta.tag
      BY <1>7, <2>4, <3>1, <3>2
    <3>4. <<"wb", p, r.meta>> = <<"wb", q, s.meta>>
      BY <1>1, <2>3, <3>1, <3>3 DEF EachInOnePlace
    <3>5. r = s
      BY <2>3, <3>1, <3>4
    <3> QED
      BY <1>7, <3>1, <3>5
  <2> QED
    BY <1>4, <2>1, <2>2, <2>6, <2>7
<1>8. ASSUME NEW j \in 1 .. n, id_q[j].terminal
      PROVE  Stops /\ j = n
  <2>1. n # 0
    OBVIOUS
  <2>2. ~w.branch.valid /\ ~w.branch_fault
    BY <1>1, <2>1 DEF DispatchFacts
  <2>3. ~w.redirect.valid
    BY <1>1, <2>2, RedirectFlushes DEF WiresHold
  <2>4. d.terminal
    BY <1>1, <1>8 DEF DispatchFacts
  <2>5. fetch_stopped
    <3>1. id_q \in [1 .. Len(id_q) -> Stopping(fetch_stopped)] /\ Len(id_q) \in Nat
      BY LenProperties DEF TerminalsStop
    <3>2. j \in 1 .. Len(id_q)
      BY <1>1, <1>3, <3>1 DEF DispatchFacts
    <3> QED
      BY <1>8, <3>1, <3>2 DEF Stopping
  <2>6. j = n
    BY <1>1, <1>3, <1>8 DEF DispatchFacts
  <2> QED
    BY <1>4, <2>3, <2>4, <2>5, <2>6
<1> HIDE DEF Stops
<1>9. ASSUME NEW i \in 1 .. count', Window'[i].terminal
      PROVE  Stops /\ (~BRANCH_AT_RETIRE => i = count')
  <2>1. CASE i <= count - e
    <3> DEFINE j == i + e
    <3>1. j \in 1 .. count /\ Kept(Window'[i], Window[j], comps)
      BY <1>1, <2>1, WindowAfter
    <3>2. Window[j] \in rob_entry_t
      BY <1>1, <3>1, WindowIs
    <3>3. j = count /\ n = 0 => i = count'
      BY <1>3
    <3> HIDE DEF j, comps, n
    <3>4. CASE Window[j].terminal
      BY <1>6, <3>1, <3>3, <3>4
    <3>5. CASE ~Window[j].terminal
      <4>0. \/ Window'[i] = Window[j] /\ ~ \E r \in comps : r.meta.tag = Window[j].meta.tag
            \/ \E r \in comps : /\ r.meta.tag = Window[j].meta.tag
                               /\ Window'[i].branch = r.branch /\ Window'[i].done
                               /\ Window'[i].terminal = (Window[j].terminal \/ r.branch.fault # FAULT_NONE)
        BY <1>2, <3>1, <3>2, KeptBranch
      <4>1. PICK r \in comps : /\ r.meta.tag = Window[j].meta.tag
                               /\ Window'[i].terminal = (Window[j].terminal \/ r.branch.fault # FAULT_NONE)
        BY <1>9, <3>5, <4>0
      <4>2. r.branch.fault # FAULT_NONE
        BY <1>9, <3>5, <4>1
      <4> QED
        BY <1>7, <3>1, <3>3, <4>1, <4>2
    <3> QED
      BY <3>4, <3>5
  <2>2. CASE i > count - e
    <3> DEFINE j == i - (count - e)
    <3>1. j \in 1 .. n /\ Window'[i] = NewEntry(d, j)
      BY <1>1, <2>2, WindowAfter
    <3>2. NewEntry(d, j).terminal = id_q[j].terminal
      BY <1>1, <3>1, NewEntryIs
    <3>3. j = n => i = count'
      BY <1>3
    <3> HIDE DEF j, n
    <3> QED
      BY <1>8, <1>9, <3>1, <3>2, <3>3
  <2>3. i <= count - e \/ i > count - e
    BY <1>3
  <2> QED
    BY <2>1, <2>2, <2>3
<1> QED
  BY <1>9 DEF Stops, TerminalsLast

(* An idle fetch unit that is stopped and not redirected stays idle.       *)
LEMMA StaysIdle ==
  ASSUME NEW w, NEW d, FrontEdge(w, d), Fetch!idle, fetch_stopped, w.fetch_stop, ~w.redirect.valid
  PROVE  Fetch!idle' /\ fetch_stopped'
<1>1. Fetch!Tick(w.fetch_stop, w.redirect, mem_req_ready, mem_rsp, fetched_ready)
  BY DEF FrontEdge
<1>2. ~req_valid /\ ~outstanding /\ ~out_valid /\ ~redirect_pending
  BY DEF Fetch!idle
<1>3. Fetch!draining(w.fetch_stop, w.redirect)
  BY DEF Fetch!draining
<1>4. ~Fetch!rsp_ready(w.fetch_stop, w.redirect, fetched_ready)
  BY <1>2 DEF Fetch!rsp_ready
<1>5. ~Fetch!issue(w.fetch_stop, w.redirect)
  BY <1>3 DEF Fetch!issue
<1>6. ~req_valid'
  BY <1>1, <1>2, <1>5 DEF Fetch!Tick, Fetch!RequestEdge
<1>7. ~outstanding' /\ ~out_valid' /\ ~redirect_pending'
  BY <1>1, <1>2, <1>4 DEF Fetch!Tick
<1>8. fetch_stopped'
  BY StopsFront
<1> QED
  BY <1>6, <1>7, <1>8 DEF Fetch!idle

(* Nothing moves through an empty front end.                               *)
LEMMA StaysEmpty ==
  ASSUME NEW w, NEW d, FrontEdge(w, d), ~out_valid, d.n = 0,
         fifo_q = <<>>, if_q = <<>>, id_q = <<>>
  PROVE  fifo_q' = <<>> /\ if_q' = <<>> /\ id_q' = <<>>
<1> DEFINE flush == \/ d.terminal \/ w.finishing \/ w.branch.valid \/ w.branch_fault
                    \/ w.trap.valid \/ w.mret_commit
           fifo_pop == Lower(Fifo!pop_available, IfId!push_capacity)
           id_pop == Lower(IfId!pop_available, IdDispatch!push_capacity)
           from_fifo == SubSeq(Fifo!pop_data, 1, fifo_pop)
           from_if == SubSeq(decoded, 1, id_pop)
<1>1. /\ Fifo!QueueTick(flush, <<>>, fifo_pop)
      /\ IfId!QueueTick(flush, from_fifo, id_pop)
      /\ IdDispatch!QueueTick(flush, from_if, d.n)
  BY DEF FrontEdge
<1>2. Len(fifo_q) = 0 /\ Len(if_q) = 0 /\ Len(id_q) = 0
  OBVIOUS
<1>3. fifo_pop = 0 /\ id_pop = 0
  <2>1. Fifo!pop_available = 0 /\ IfId!pop_available = 0
    BY <1>2 DEF Fifo!pop_available, IfId!pop_available
  <2>2. IfId!push_capacity = 2 /\ IdDispatch!push_capacity = 2
    BY <1>2 DEF IfId!push_capacity, IdDispatch!push_capacity
  <2> QED
    BY <2>1, <2>2 DEF Lower
<1>4. \A q : SubSeq(q, 1, 0) = <<>>
  OBVIOUS
<1>5. from_fifo = <<>> /\ from_if = <<>>
  BY <1>3, <1>4
<1>6. SubSeq(<<>>, 0 + 1, 0) \o <<>> = <<>>
  OBVIOUS
<1> HIDE DEF flush, fifo_pop, id_pop, from_fifo, from_if
<1> QED
  BY <1>1, <1>2, <1>3, <1>5, <1>6 DEF Fifo!QueueTick, IfId!QueueTick, IdDispatch!QueueTick

(* The end of the program waits for an idle fetch unit, and nothing wakes  *)
(* it: what ends is a terminal entry, which has stopped it.                *)
LEMMA FinishingIs ==
  ASSUME WindowInv, TerminalsLast, NEW w, WiresHold(w), w.finishing
  PROVE  Fetch!idle /\ fetch_stopped /\ ~w.redirect.valid
<1>1. w.finishing = finish(hd0, w.trap.valid, Fetch!idle) /\ QueuesBounded
      /\ w.retiring = retire_count(hd0, hd1, w.trap.valid, retire_limit(hd0, hd1))
  BY DEF WiresHold, WindowInv, TypesInv, TypeOK
<1>2. Fetch!idle /\ hd0 # Empty /\ hd0.terminal /\ ~w.trap.valid
  BY <1>1 DEF finish, MayRetire, Done
<1>3. 1 \in 1 .. count /\ hd0 = Window[1]
  <2>1. count \in 0 .. RobDepth /\ RobDepth \in Nat /\ count > 0
    BY <1>1, <1>2, HeadIs, Tiny5Assumption DEF QueuesBounded
  <2> QED
    BY <2>1, HeadIs
<1>4. fetch_stopped
  BY <1>2, <1>3 DEF TerminalsLast
<1>5. w.retiring = 0
  BY <1>1, <1>2 DEF retire_count
<1>6. ~w.mret_commit /\ ~w.recovered.valid
  <2>1. w.mret_commit => w.retiring # 0
    BY DEF WiresHold
  <2>2. w.recovered = retire_redirect(hd0, w.retiring, w.finishing)
    BY DEF WiresHold
  <2>3. w.recovered = [valid |-> FALSE, pc |-> 0]
    BY <2>2, <1>5 DEF retire_redirect, NoRedirect
  <2> QED
    BY <2>1, <2>3, <1>5
<1>7. w.branch = blocking_redirect(w.completions, w.finishing)
  BY <1>6 DEF WiresHold
<1>8. ~w.branch.valid
  BY <1>7 DEF blocking_redirect, NoRedirect
<1> QED
  BY <1>2, <1>4, <1>6, <1>8, RedirectFlushes

(* A core that has ended takes no trap, retires nothing and is not         *)
(* redirected.                                                             *)
LEMMA EndedWires ==
  ASSUME QueuesBounded, NEW w, WiresHold(w), halted \/ fault
  PROVE  ~w.redirect.valid /\ ~w.finishing
<1>1. w.trap = trap_wire /\ ~trap_taken
  BY DEF WiresHold, trap_taken, trap_exception, trap_interrupt
<1>2. ~w.trap.valid
  BY <1>1 DEF trap_wire, NoTrap
<1>3. ~w.finishing /\ w.retiring = 0
  BY RetiringIs
<1>4. ~w.mret_commit /\ ~w.recovered.valid
  <2>1. w.mret_commit => w.retiring # 0
    BY DEF WiresHold
  <2>2. w.recovered = retire_redirect(hd0, w.retiring, w.finishing)
    BY DEF WiresHold
  <2>3. w.recovered = [valid |-> FALSE, pc |-> 0]
    BY <2>2, <1>3 DEF retire_redirect, NoRedirect
  <2> QED
    BY <2>1, <2>3, <1>3
<1>5. w.completions = {}
  BY DEF WiresHold
<1>6. w.branch = blocking_redirect({}, w.finishing)
  BY <1>4, <1>5 DEF WiresHold
<1>7. ~w.branch.valid
  BY <1>6 DEF blocking_redirect, Resolving, NoRedirect
<1> QED
  BY <1>2, <1>3, <1>4, <1>7, RedirectFlushes

(* An edge that ends the program, or follows its end, leaves the frontend  *)
(* stopped.                                                                *)
LEMMA EndedStopsEdge ==
  ASSUME WindowInv, TerminalsLast, EndedStops, NEW w, NEW d, NEW chosen, EdgeHolds(w, d, chosen)
  PROVE  EndedStops'
<1>1. WiresHold(w) /\ DispatchFacts(w, d) /\ FrontEdge(w, d) /\ SystemEdge(w, d) /\ QueuesBounded
  BY DEF EdgeHolds, WindowInv, TypesInv, TypeOK
<1>2. ~w.finishing => halted' = halted /\ fault' = fault
  BY <1>1 DEF SystemEdge, RetireTick
<1>3. fetch_stopped => w.fetch_stop
  BY <1>1 DEF WiresHold
<1>4. CASE w.finishing
  <2>1. Fetch!idle' /\ fetch_stopped'
    BY <1>1, <1>3, <1>4, FinishingIs, StaysIdle
  <2>2. fifo_q' = <<>> /\ if_q' = <<>> /\ id_q' = <<>>
    BY <1>1, <1>4 DEF FrontEdge, Fifo!QueueTick, IfId!QueueTick, IdDispatch!QueueTick
  <2> QED
    BY <2>1, <2>2 DEF EndedStops, FrontIdle
<1>5. CASE ~w.finishing /\ (halted \/ fault)
  <2>1. FrontIdle /\ ~w.redirect.valid
    BY <1>1, <1>5, EndedWires DEF EndedStops
  <2>2. Fetch!idle' /\ fetch_stopped'
    BY <1>1, <1>3, <2>1, StaysIdle DEF FrontIdle
  <2>3. d.n = 0
    BY <1>1, <1>5 DEF DispatchFacts
  <2>4. fifo_q' = <<>> /\ if_q' = <<>> /\ id_q' = <<>>
    BY <1>1, <2>1, <2>3, StaysEmpty DEF FrontIdle, Fetch!idle
  <2> QED
    BY <2>2, <2>4 DEF EndedStops, FrontIdle
<1> QED
  BY <1>2, <1>4, <1>5 DEF EndedStops

EndInv == BranchInv /\ ChannelInv /\ OneEnd /\ TerminalsStop /\ TerminalsLast /\ EndedStops

(* An edge keeps the three parts of the invariant of the end.              *)
LEMMA EndEdge ==
  ASSUME EndInv, NEW w, NEW d, NEW chosen, EdgeHolds(w, d, chosen)
  PROVE  TerminalsStop' /\ TerminalsLast' /\ EndedStops'
<1>1. TypesInv /\ WindowInv /\ WiresHold(w) /\ DispatchFacts(w, d) /\ FrontEdge(w, d)
  BY DEF EndInv, BranchInv, PlaceInv, WindowInv, EdgeHolds
<1>2. TerminalsStop' /\ EndedStops'
  BY <1>1, TerminalsStopEdge, EndedStopsEdge DEF EndInv
<1>3. CASE w.backend_flush
  <2>1. count' = 0
    BY <1>3, ClearedFlush DEF Cleared
  <2>2. \A i \in 1 .. count' : FALSE
    BY <2>1
  <2> QED
    BY <1>2, <2>2 DEF TerminalsLast
<1>4. CASE ~w.backend_flush
  BY <1>2, <1>4, TerminalsLastEdge DEF EndInv
<1> QED
  BY <1>3, <1>4

(* The core starts with its frontend running.                              *)
LEMMA EndInit == Init => TerminalsStop /\ TerminalsLast /\ EndedStops
<1> SUFFICES ASSUME Init PROVE TerminalsStop /\ TerminalsLast /\ EndedStops
  OBVIOUS
<1>1. id_q = <<>> /\ halted = FALSE /\ fault = FALSE /\ count = 0
  BY DEF Init, IdDispatch!QueueInit, RetireInit, CompletionInit
<1>2. \A i \in 1 .. count : FALSE
  BY <1>1
<1>3. <<>> \in Seq(Stopping(fetch_stopped))
  BY EmptySeq
<1> QED
  BY <1>1, <1>2, <1>3 DEF TerminalsStop, TerminalsLast, EndedStops

(* A reset starts the frontend again.                                      *)
LEMMA EndReset == ResetEdge => TerminalsStop' /\ TerminalsLast' /\ EndedStops'
<1> SUFFICES ASSUME ResetEdge PROVE TerminalsStop' /\ TerminalsLast' /\ EndedStops'
  OBVIOUS
<1>1. id_q' = <<>> /\ halted' = FALSE /\ fault' = FALSE /\ count' = 0
  BY DEF ResetEdge, IdDispatch!QueueTick, RetireReset, CompletionTick
<1>2. \A i \in 1 .. count' : FALSE
  BY <1>1
<1>3. <<>> \in Seq(Stopping(fetch_stopped'))
  BY EmptySeq
<1> QED
  BY <1>1, <1>2, <1>3 DEF TerminalsStop, TerminalsLast, EndedStops

(* A step that changes nothing keeps the end as it is.                     *)
LEMMA EndStutter ==
  ASSUME TerminalsStop, TerminalsLast, EndedStops, UNCHANGED vars
  PROVE  TerminalsStop' /\ TerminalsLast' /\ EndedStops'
<1>1. UNCHANGED <<rob, head, count, id_q, if_q, fifo_q, fetch_stopped, terminal_enqueued, halted, fault,
                  req_valid, outstanding, out_valid, redirect_pending>>
  BY DEF vars, robVars, frontVars, retireVars
<1>2. Window' = Window
  BY <1>1 DEF Window
<1> QED
  BY <1>1, <1>2 DEF TerminalsStop, TerminalsLast, EndedStops, FrontIdle, Fetch!idle

(* Every step preserves the invariant of the end.                          *)
LEMMA EndInvStep == EndInv /\ [Next]_vars => EndInv'
<1> SUFFICES ASSUME EndInv, [Next]_vars PROVE EndInv'
  OBVIOUS
<1>1. BranchInv' /\ ChannelInv' /\ OneEnd'
  BY BranchStep, ChannelInvStep, OneEndStep DEF EndInv
<1>2. CASE ClockEdge
  <2>1. QueuesBounded /\ id_q \in Seq(decode_t) /\ iq \in [Slot -> issue_t \cup {Empty}]
    BY DEF EndInv, BranchInv, PlaceInv, WindowInv, TypesInv, TypeOK, FrontTypes, ExecutionTypes
  <2>2. PICK w, d, chosen : EdgeHolds(w, d, chosen)
    BY <1>2, <2>1, EdgeIs
  <2> QED
    BY <1>1, <2>2, EndEdge DEF EndInv
<1>3. CASE ResetEdge
  BY <1>1, <1>3, EndReset DEF EndInv
<1>4. CASE UNCHANGED vars
  BY <1>1, <1>4, EndStutter DEF EndInv
<1> QED
  BY <1>2, <1>3, <1>4 DEF Next

(* The invariant of the end is what the runs check: nothing is left in     *)
(* flight.                                                                 *)
LEMMA EndIsQuiet == EndInv => QuietAfterEnd
<1> SUFFICES ASSUME EndInv, halted \/ fault
             PROVE  /\ count = 0 /\ InFlight = {} /\ id_q = <<>> /\ if_q = <<>> /\ fifo_q = <<>>
                    /\ Fetch!idle /\ mem_state = "AcceptingRequest" /\ ~(halted /\ fault)
  BY DEF QuietAfterEnd
<1>1. /\ TypesInv /\ WindowFull /\ EndedEmpty /\ EachInOnePlace
      /\ ChannelInv /\ OneEnd /\ EndedStops
  BY DEF EndInv, BranchInv, PlaceInv, WindowInv
<1>2. count = 0 /\ FrontIdle /\ ~(halted /\ fault)
  BY <1>1 DEF EndedEmpty, EndedStops, OneEnd
<1>3. InFlight = {}
  <2> SUFFICES ASSUME NEW a \in InFlight PROVE FALSE
    OBVIOUS
  <2>1. a[3].tag \in RobTag /\ rob[a[3].tag] # Empty
    BY <1>1, FlightTypes DEF EachInOnePlace
  <2>2. Distance(a[3].tag) + 1 \in 1 .. count
    BY <1>1, <2>1, WindowIs
  <2> QED
    BY <1>2, <2>2
<1>4. mem_state = "AcceptingRequest"
  BY <1>1, <1>2 DEF ChannelInv, Path!SingleRequest, FrontIdle, Fetch!idle,
                    ChannelTypes, Memory!MemState
<1> QED
  BY <1>2, <1>3, <1>4 DEF FrontIdle

(* Once the program has ended nothing is in flight anywhere, the front end *)
(* is empty, the fetch unit idle and the memory channel quiet, until reset *)
(* (lib/retire_unit.sv:22-23, lib/fetch_unit.sv:24,40).                    *)
THEOREM CoreQuiet == Spec => []QuietAfterEnd
<1>1. Init => EndInv
  BY BranchInvInit, ChannelInvInit, EndInit, OneEndInit DEF EndInv
<1> QED
  BY <1>1, EndInvStep, EndIsQuiet, PTL DEF Spec

-----------------------------------------------------------------------------
(* In order, what issues is older than what stays.                         *)
LEMMA OldestIssue ==
  ASSUME ~OUT_OF_ORDER, iq \in [Slot -> issue_t \cup {Empty}], head \in RobTag,
         NEW ready, NEW available, NEW chosen, chosen = Scheduled(ready, available, head),
         NEW p \in Lane, chosen[p] # Empty, NEW s \in Occupied, \A q \in Lane : chosen[q] # s
  PROVE  Age(chosen[p], head) <= Age(s, head)
<1> DEFINE Chooses(k, before, blocked) == InorderChoice(k, before, blocked, ready, available, head)
           ino0 == Chooses(0, Empty, FALSE)
           blocks == ready[0] /\ Occupied # {} /\ ino0 = Empty
           ino1 == Chooses(1, ino0, blocks)
<1>1. ASSUME NEW k, NEW before, NEW blocked, Chooses(k, before, blocked) # Empty, before # s
      PROVE  Age(Chooses(k, before, blocked), head) <= Age(s, head)
  <2> DEFINE rest == Occupied \ {before}
  <2>1. Chooses(k, before, blocked) = Oldest(rest, head) /\ rest # {}
    BY <1>1 DEF InorderChoice
  <2>2. s \in rest /\ rest \in SUBSET Occupied
    BY <1>1
  <2> HIDE DEF rest, Chooses
  <2> QED
    BY <2>1, <2>2, OldestIs
<1>2. chosen = [k \in Lane |-> IF k = 0 THEN ino0 ELSE ino1]
  BY DEF Scheduled
<1> HIDE DEF Chooses, blocks
<1>3. chosen[0] = ino0 /\ chosen[1] = ino1 /\ 0 \in Lane /\ 1 \in Lane
  BY <1>2 DEF Lane
<1>4. Empty # s
  <2>1. s \in Slot
    BY DEF Occupied
  <2> QED
    BY <2>1, NotEmpty, Tiny5Assumption DEF Slot
<1>5. CASE p = 0
  BY <1>1, <1>3, <1>4, <1>5
<1>6. CASE p = 1
  BY <1>1, <1>3, <1>6
<1> QED
  BY <1>5, <1>6 DEF Lane

(* The edge issues what the scheduler of the configuration chooses.        *)
LEMMA EdgeIssues ==
  ASSUME TypesInv, ClockEdge
  PROVE  \E w, d, chosen, ready, available :
           EdgeHolds(w, d, chosen) /\ chosen = Scheduled(ready, available, head)
<1> DEFINE w == RecoveryWires
           d == Dispatch(w)
           chosen == IssueWires(w)
           Ready(p) == /\ stage_ready(p) /\ p < ISSUE_WIDTH
                       /\ ~w.backend_flush /\ ~halted /\ ~fault
           ready == [p \in Lane |-> Ready(p)]
           available == muldiv_available /\ \A p \in Lane : ex[p] # Empty => ~is_muldiv(ex[p].op)
<1>0. QueuesBounded /\ id_q \in Seq(decode_t) /\ iq \in [Slot -> issue_t \cup {Empty}]
  BY DEF TypesInv, TypeOK, FrontTypes, ExecutionTypes
<1>1. WiresHold(w)
  BY Wires
<1>2. DispatchFacts(w, d)
  <2> HIDE DEF w
  <2> QED
    BY <1>0, DispatchIs
<1>3. chosen = Scheduled(ready, available, head)
  BY DEF IssueWires
<1>4. FrontEdge(w, d) /\ SystemEdge(w, d) /\ BackEdge(w, d, chosen)
  BY DEF ClockEdge, EdgeAfter, EdgeWith
<1> HIDE DEF w, d, chosen
<1>5. /\ DOMAIN chosen = Lane
      /\ \A p \in Lane : chosen[p] # Empty =>
           chosen[p] \in Occupied /\ ready[p] /\ OperandsReady(chosen[p])
      /\ chosen[0] # Empty => chosen[1] # chosen[0]
  <2> HIDE DEF ready, available
  <2>1. head \in RobTag
    BY <1>0 DEF QueuesBounded
  <2> QED
    BY <1>0, <1>3, <2>1, ScheduledIs
<1>6. \A p \in Lane : ready[p] = Ready(p)
  OBVIOUS
<1>7. BackSteps(w, d, chosen)
  BY <1>4, BackIs
<1>8. EdgeHolds(w, d, chosen)
  BY <1>1, <1>2, <1>4, <1>5, <1>6, <1>7 DEF EdgeHolds
<1> HIDE DEF ready, available
<1> QED
  BY <1>3, <1>8

(* A slot keeps its instruction over an edge exactly if it does not issue. *)
LEMMA StaysUnissued ==
  ASSUME PlaceInv, NEW w, NEW d, NEW chosen, EdgeHolds(w, d, chosen), ~w.backend_flush,
         NEW s \in Occupied
  PROVE  Stays(s) <=> \A p \in Lane : chosen[p] # s
<1>1. TypesInv /\ MdOne /\ WindowInv
  BY DEF PlaceInv, WindowInv
<1>2. PICK seat : FlightMoves(w, d, chosen, seat)
  BY <1>1, FlightMovesIs
<1>3. s \in Slot /\ iq[s] # Empty
  BY DEF Occupied
<1>4. s \in Removed(chosen) <=> \E p \in Lane : chosen[p] = s
  <2>1. s # Empty
    BY <1>3, NotEmpty, Tiny5Assumption DEF Slot
  <2> QED
    BY <2>1 DEF Removed
<1>5. ASSUME NEW i \in 1 .. d.enqueued, seat[i] = s PROVE s \in Removed(chosen) /\ ~Stays(s)
  <2>1. s \in Removed(chosen) /\ iq'[s] = Woke(d.prepared[i], w.completions) /\ i \in 1 .. d.n
    BY <1>2, <1>3, <1>5 DEF FlightMoves
  <2>2. iq'[s].meta = d.prepared[i].meta
    BY <1>1, <1>2, <2>1, SameMeta
  <2>3. /\ d.prepared[i].meta.tag = allocate_tag(i - 1) /\ rob[allocate_tag(i - 1)] = Empty
    BY <2>1, PlaceNew
  <2> DEFINE b == <<"iq", s, iq[s].meta>>
  <2>4. b \in InFlight /\ b[3] = iq[s].meta
    <3>1. b \in InFlight
      BY <1>3, Places
    <3> QED
      BY <3>1
  <2> HIDE DEF b
  <2>5. rob[iq[s].meta.tag] # Empty
    BY <2>4, PlaceKept
  <2>6. iq'[s].meta # iq[s].meta
    BY <2>2, <2>3, <2>5
  <2> QED
    BY <2>1, <2>6 DEF Stays
<1>6. ASSUME ~ \E i \in 1 .. d.enqueued : seat[i] = s
      PROVE  Stays(s) <=> s \notin Removed(chosen)
  <2>1. iq'[s] = IF s \in Removed(chosen) \/ iq[s] = Empty THEN Empty ELSE Woke(iq[s], w.completions)
    BY <1>2, <1>3, <1>6 DEF FlightMoves
  <2>2. Woke(iq[s], w.completions) # Empty /\ Woke(iq[s], w.completions).meta = iq[s].meta
    BY <1>1, <1>2, <1>3, SameMeta
  <2> QED
    BY <1>3, <2>1, <2>2 DEF Stays
<1> QED
  BY <1>4, <1>5, <1>6

(* In order, what leaves the issue queue on an edge is older than what     *)
(* stays (control/inorder_scheduler.sv).                                   *)
LEMMA IssuesInOrder ==
  ASSUME PlaceInv, [Next]_vars, ~OUT_OF_ORDER, NEW s \in Occupied, NEW t \in Occupied,
         Stays(s), ~Stays(t)
  PROVE  Distance(iq[t].meta.tag) < Distance(iq[s].meta.tag)
<1>1. WindowInv /\ TypesInv /\ EachInOnePlace /\ head \in RobTag
      /\ iq \in [Slot -> issue_t \cup {Empty}]
  BY DEF PlaceInv, WindowInv, TypesInv, TypeOK, QueuesBounded, ExecutionTypes
<1>2. s \in Slot /\ iq[s] # Empty /\ t \in Slot /\ iq[t] # Empty /\ iq'[s] # Empty
  BY DEF Occupied, Stays
<1>3. ~(UNCHANGED vars) /\ ~Cleared'
  <2>1. UNCHANGED vars => Stays(t)
    BY <1>2 DEF vars, Stays
  <2>2. Cleared' => iq'[s] = Empty
    BY <1>2 DEF Cleared
  <2> QED
    BY <1>2, <2>1, <2>2
<1>4. ClockEdge
  <2>1. ResetEdge => Cleared'
    BY ClearedReset
  <2> QED
    BY <1>3, <2>1 DEF Next
<1>5. PICK w, d, chosen, ready, available :
        EdgeHolds(w, d, chosen) /\ chosen = Scheduled(ready, available, head)
  BY <1>1, <1>4, EdgeIssues
<1>6. ~w.backend_flush
  BY <1>3, <1>5, ClearedFlush
<1>7. PICK p \in Lane : chosen[p] = t
  BY <1>5, <1>6, StaysUnissued
<1>8. \A q \in Lane : chosen[q] # s
  BY <1>5, <1>6, StaysUnissued
<1>9. t # Empty
  BY <1>2, NotEmpty, Tiny5Assumption DEF Slot
<1>10. Age(t, head) <= Age(s, head)
  BY <1>1, <1>5, <1>7, <1>8, <1>9, OldestIssue
<1> DEFINE a == <<"iq", s, iq[s].meta>>
           b == <<"iq", t, iq[t].meta>>
<1>11. a \in InFlight /\ a[3] = iq[s].meta /\ b \in InFlight /\ b[3] = iq[t].meta /\ a # b
  <2>1. a \in InFlight /\ b \in InFlight
    BY <1>2, Places
  <2>2. s # t
    OBVIOUS
  <2> QED
    BY <2>1, <2>2
<1> HIDE DEF a, b
<1>12. iq[s].meta.tag # iq[t].meta.tag
  BY <1>1, <1>11 DEF EachInOnePlace
<1>13. iq[s].meta.tag \in RobTag /\ iq[t].meta.tag \in RobTag
  BY <1>1, <1>11, FlightTypes
<1> DEFINE m == Distance(iq[t].meta.tag)
           n == Distance(iq[s].meta.tag)
<1>14. m # n /\ m \in Int /\ n \in Int
  <2>1. /\ m \in 0 .. RobDepth - 1 /\ (head + m) % RobDepth = iq[t].meta.tag
        /\ n \in 0 .. RobDepth - 1 /\ (head + n) % RobDepth = iq[s].meta.tag
    BY <1>1, <1>13, DistanceOf DEF Distance
  <2>2. m \in Int /\ n \in Int
    BY <2>1, Tiny5Assumption
  <2> QED
    BY <1>12, <2>1, <2>2
<1>15. m <= n
  BY <1>10 DEF Age, Distance
<1> HIDE DEF m, n
<1>16. m < n
  BY <1>14, <1>15
<1> QED
  BY <1>16 DEF m, n

(* In order, an instruction leaves the issue queue only after, or together *)
(* with, everything older that waits there: its two lanes take the oldest  *)
(* entries, and a lane that cannot go holds back the one after it          *)
(* (control/inorder_scheduler.sv:25-43).                                   *)
THEOREM CoreIssueOrder == Spec => IssueInOrder
<1>1. PlaceInv /\ [Next]_vars =>
        [ ~OUT_OF_ORDER =>
            \A s, t \in Occupied : Stays(s) /\ ~Stays(t) => Distance(iq[t].meta.tag) < Distance(iq[s].meta.tag) ]_vars
  BY IssuesInOrder
<1> QED
  BY <1>1, PlaceInit, PlaceStep, PTL DEF Spec, IssueInOrder

-----------------------------------------------------------------------------
(* Addresses.  Every address the pipeline would fetch from or return to is *)
(* that of a word: a branch that is taken to any other address is a fault, *)
(* and mtvec and mepc have no bits below the word's.                       *)
OnWord(a) == a % 4 = 0
SoundBranch(b) == b.taken /\ b.fault = FAULT_NONE => OnWord(b.target)
Placed(S) == {x \in S : OnWord(x.pc)}

FetchAligned ==
  /\ OnWord(fetch_pc) /\ OnWord(req_addr) /\ OnWord(pending_pc) /\ OnWord(restart_pc)
  /\ out_valid => OnWord(out_data.pc)
QueuesAligned ==
  fifo_q \in Seq(Placed(fetch_t)) /\ if_q \in Seq(Placed(fetch_t)) /\ id_q \in Seq(Placed(decode_t))
ResultsAligned ==
  /\ \A u \in Lane : alu[u] # Empty => SoundBranch(alu[u].branch)
  /\ \A p \in Lane : wb[p] # Empty => SoundBranch(wb[p].branch)
EntriesAligned ==
  \A i \in 1 .. count : OnWord(Window[i].meta.pc) /\ SoundBranch(Window[i].branch)
CsrAligned ==
  OnWord(csr.mtvec) /\ OnWord(csr.mepc) /\ (~halted /\ ~fault => OnWord(arch_next_pc))
AlignedInv ==
  BranchInv /\ FetchAligned /\ QueuesAligned /\ ResultsAligned /\ EntriesAligned /\ CsrAligned

(* The address after a word's is a word's, also where addresses wrap.      *)
LEMMA NextOnWord ==
  ASSUME NEW a \in Word, OnWord(a)
  PROVE  OnWord((a + 4) % WordModulus)
<1> DEFINE m == WordModulus
<1>1. m \in Nat /\ m >= 16 /\ m % 4 = 0 /\ a \in 0 .. m - 1 /\ a % 4 = 0
  BY WordSize DEF Word, OnWord
<1> HIDE DEF m
<1>2. a + 4 <= m
  BY <1>1
<1>3. CASE a + 4 < m
  <2>1. (a + 4) % m = a + 4
    BY <1>1, <1>3
  <2>2. (a + 4) % 4 = 0
    BY <1>1
  <2> QED
    BY <2>1, <2>2 DEF OnWord, m
<1>4. CASE a + 4 = m
  <2>1. (a + 4) % m = 0
    BY <1>1, <1>4
  <2> QED
    BY <2>1 DEF OnWord, m
<1> QED
  BY <1>1, <1>2, <1>3, <1>4

(* Clearing the two lowest bits, as mtvec and mepc do, gives the address   *)
(* of a word (lib/machine_csr.sv:80-82).                                   *)
LEMMA ClearedBits == \A v \in Word : OnWord(Aligned(v))
<1> SUFFICES ASSUME NEW v \in Nat PROVE (v - (v % 4)) % 4 = 0
  BY WordSize DEF Word, OnWord, Aligned
<1> QED
  OBVIOUS

(* Decoding keeps the pc.                                                  *)
LEMMA DecodedPlace == \A x \in Placed(fetch_t) : rv32_decode(x) \in Placed(decode_t)
<1> SUFFICES ASSUME NEW x \in Placed(fetch_t) PROVE rv32_decode(x) \in Placed(decode_t)
  OBVIOUS
<1>1. x \in fetch_t /\ OnWord(x.pc)
  BY DEF Placed
<1>2. rv32_decode(x) \in decode_t
  BY <1>1, DecodeType
<1>3. x.status \in {"ok", "end", "access_fault"}
  BY <1>1 DEF fetch_t
<1>4. \/ \E f, c : rv32_decode(x) = Terminal(x, f, c)
      \/ rv32_decode(x) = Legal(x)
  BY <1>3 DEF rv32_decode
<1>5. rv32_decode(x).pc = x.pc
  <2>1. \A f, c : Terminal(x, f, c).pc = x.pc
    BY DEF Terminal
  <2>2. Legal(x).pc = x.pc
    BY DEF Legal
  <2> QED
    BY <1>4, <2>1, <2>2
<1> QED
  BY <1>1, <1>2, <1>5 DEF Placed

(* A branch is computed, and reported as a fault if it leaves the words.   *)
LEMMA ComputedTarget ==
  ASSUME NEW x
  PROVE  SoundBranch(AluResult(x).branch)
<1> DEFINE taken == BranchTaken(x.op, x.a, x.b)
           target == (x.meta.pc + x.branch_offset) % WordModulus
           value == IF x.meta.rd = 0 THEN 0 ELSE IntegerValue(x.op, x.a, x.b)
           branch == IF ~is_branch(x.op) THEN NoBranch
                     ELSE [valid |-> TRUE, taken |-> taken, target |-> target,
                           fault |-> IF MisalignedBranch(taken, target)
                                     THEN FAULT_MISALIGNED ELSE FAULT_NONE]
<1>1. AluResult(x) = [meta |-> x.meta, value |-> value, branch |-> branch]
  BY DEF AluResult
<1> HIDE DEF taken, target, value
<1>2. AluResult(x).branch = branch
  BY <1>1
<1>3. FAULT_MISALIGNED # FAULT_NONE
  BY DEF FAULT_MISALIGNED, FAULT_NONE
<1>4. CASE is_branch(x.op)
  <2>1. /\ AluResult(x).branch.taken = taken /\ AluResult(x).branch.target = target
        /\ AluResult(x).branch.fault = IF MisalignedBranch(taken, target)
                                       THEN FAULT_MISALIGNED ELSE FAULT_NONE
    BY <1>2, <1>4
  <2> QED
    BY <1>3, <2>1 DEF SoundBranch, MisalignedBranch, OnWord
<1>5. CASE ~is_branch(x.op)
  BY <1>2, <1>5 DEF NoBranch, SoundBranch
<1> QED
  BY <1>4, <1>5

(* What is no branch has no target to go wrong.                            *)
LEMMA NoBranchSound == SoundBranch(NoBranch)
  BY DEF NoBranch, SoundBranch

(* The ALU faults a taken branch to an address that is not a word's, and a *)
(* result keeps its branch until it is written back                        *)
(* (lib/integer_alu.sv:33-38).                                             *)
LEMMA ResultsAlignedEdge ==
  ASSUME MdPlain, ResultsAligned, NEW w, NEW d, NEW chosen, NEW seat, FlightMoves(w, d, chosen, seat)
  PROVE  ResultsAligned'
<1>1. ExecutionMoves(Sent(chosen))
  BY DEF FlightMoves
<1>2. ASSUME NEW u \in Lane, alu'[u] # Empty PROVE SoundBranch(alu'[u].branch)
  <2>1. CASE Starts(u)
    <3>1. PICK p \in Lane : Started[p] = u
      BY <2>1 DEF Starts
    <3>2. alu'[u] = AluResult(ex[p])
      BY <1>1, <3>1 DEF ExecutionMoves
    <3> QED
      BY <3>2, ComputedTarget
  <2>2. CASE ~Starts(u)
    <3>1. alu'[u] = alu[u]
      BY <1>1, <1>2, <2>2 DEF ExecutionMoves
    <3> QED
      BY <1>2, <3>1 DEF ResultsAligned
  <2> QED
    BY <2>1, <2>2
<1>3. ASSUME NEW p \in Lane, wb'[p] # Empty PROVE SoundBranch(wb'[p].branch)
  <2> DEFINE u == Granted[p]
  <2>1. u # Empty /\ wb'[p] = UnitResult(u) /\ u \in WaitingUnits
    BY <1>1, <1>3 DEF ExecutionMoves, FlightMoves
  <2> HIDE DEF u
  <2>2. u \in Unit /\ UnitResult(u) # Empty
    BY <2>1 DEF WaitingUnits
  <2>3. CASE u = MULDIV
    <3>1. wb'[p] = md.out /\ md.out # Empty
      BY <2>1, <2>2, <2>3 DEF UnitResult
    <3> QED
      BY <3>1, NoBranchSound DEF MdPlain
  <2>4. CASE u # MULDIV
    <3>1. u \in Lane /\ alu[u] # Empty /\ wb'[p] = alu[u]
      BY <2>1, <2>2, <2>4 DEF UnitResult, Unit, MULDIV, Lane
    <3> QED
      BY <3>1 DEF ResultsAligned
  <2> QED
    BY <2>3, <2>4
<1> QED
  BY <1>2, <1>3 DEF ResultsAligned

(* A result written back has a sound branch.                               *)
LEMMA CompletionsAligned ==
  ASSUME ResultsAligned, NEW w, WiresHold(w), NEW r \in w.completions
  PROVE  SoundBranch(r.branch)
  BY CompletionAt DEF ResultsAligned

(* An entry that stays keeps its pc, and a sound branch.                   *)
LEMMA KeptSound ==
  ASSUME NEW old \in rob_entry_t, NEW new, NEW completions \in SUBSET result_t,
         Kept(new, old, completions), SoundBranch(old.branch),
         \A r \in completions : SoundBranch(r.branch)
  PROVE  SoundBranch(new.branch) /\ new.meta = old.meta
<1>1. new.meta = old.meta
  BY KeptIs
<1>2. new = old \/ \E r \in completions : new.branch = r.branch
  BY KeptBranch
<1> QED
  BY <1>1, <1>2

(* An edge without a flush keeps the pc and the branch of every entry      *)
(* sound.                                                                  *)
LEMMA EntriesAlignedEdge ==
  ASSUME WindowInv, ResultsAligned, EntriesAligned, QueuesAligned,
         NEW w, NEW d, NEW chosen, EdgeHolds(w, d, chosen), ~w.backend_flush
  PROVE  EntriesAligned'
<1> DEFINE keep == count - w.retiring
           comps == w.completions
<1>1. TypesInv /\ WindowFull /\ WiresHold(w) /\ DispatchFacts(w, d) /\ QueuesBounded /\ RenameTypes /\ RetireTypes
  BY DEF WindowInv, EdgeHolds, TypesInv, TypeOK
<1>2. comps \in SUBSET result_t /\ \A r \in comps : SoundBranch(r.branch)
  BY <1>1, CompletionsTypes, CompletionsAligned DEF TypesInv, TypeOK
<1>3. ASSUME NEW i \in 1 .. count' PROVE OnWord(Window'[i].meta.pc) /\ SoundBranch(Window'[i].branch)
  <2>1. CASE i <= keep
    <3> DEFINE j == i + w.retiring
    <3>1. j \in 1 .. count /\ Kept(Window'[i], Window[j], comps)
      BY <1>1, <2>1, WindowAfter
    <3> HIDE DEF j, comps
    <3>2. Window[j] \in rob_entry_t /\ OnWord(Window[j].meta.pc) /\ SoundBranch(Window[j].branch)
      BY <1>1, <3>1, WindowIs DEF EntriesAligned
    <3>3. SoundBranch(Window'[i].branch) /\ Window'[i].meta = Window[j].meta
      BY <1>2, <3>1, <3>2, KeptSound
    <3> QED
      BY <3>2, <3>3
  <2>2. CASE i > keep
    <3> DEFINE j == i - keep
    <3>1. j \in 1 .. d.n /\ Window'[i] = NewEntry(d, j)
      BY <1>1, <2>2, WindowAfter
    <3> HIDE DEF j
    <3>2. NewEntry(d, j).branch = NoBranch /\ NewEntry(d, j).meta = d.prepared[j].meta
      BY <1>1, <3>1, NewEntryIs
    <3>3. d.prepared[j].meta = [pc |-> id_q[j].pc, rd |-> id_q[j].rd, tag |-> allocate_tag(j - 1),
                                pdst |-> Destination(j), old_pdst |-> Replaced(j)]
      BY <1>1, <3>1, PreparedTypes
    <3>4. OnWord(id_q[j].pc)
      <4>1. j \in 1 .. Len(id_q)
        <5> DEFINE n == d.n
                   l == Len(id_q)
        <5>1. n \in 0 .. 2 /\ n <= l /\ l \in Nat /\ j \in 1 .. n
          BY <1>1, <3>1, LenProperties DEF DispatchFacts, QueuesAligned
        <5> HIDE DEF n, l
        <5>2. j \in 1 .. l
          BY <5>1
        <5> QED
          BY <5>2 DEF l
      <4>2. id_q[j] \in Placed(decode_t)
        BY <4>1, LenProperties DEF QueuesAligned
      <4> QED
        BY <4>2 DEF Placed
    <3> QED
      BY <3>1, <3>2, <3>3, <3>4, NoBranchSound
  <2>3. i <= keep \/ i > keep
    <3>1. count \in 0 .. RobDepth /\ RobDepth \in Nat /\ w.retiring \in 0 .. 2 /\ count' \in 0 .. RobDepth
      BY <1>1, Moved
    <3> HIDE DEF comps
    <3> QED
      BY <3>1
  <2> QED
    BY <2>1, <2>2, <2>3
<1> QED
  BY <1>3 DEF EntriesAligned

(* Where a redirect goes.                                                  *)
LEMMA RedirectAligned ==
  ASSUME AlignedInv, NEW w, WiresHold(w)
  PROVE  /\ w.redirect.valid => OnWord(w.redirect.pc)
         /\ w.redirect \in [valid : {FALSE}, pc : {0}] \cup [valid : {TRUE}, pc : {a \in Word : a % 4 = 0}]
<1> DEFINE Good(r) == r \in [valid : {FALSE}, pc : {0}] \cup [valid : {TRUE}, pc : {a \in Word : a % 4 = 0}]
<1>1. /\ WindowInv /\ QueuesBounded /\ RetireTypes /\ ExecutionTypes /\ FaultedEnds
      /\ ResultsAligned /\ EntriesAligned /\ CsrAligned
  BY DEF AlignedInv, BranchInv, PlaceInv, WindowInv, TypesInv, TypeOK
<1>2. Good(NoRedirect) /\ \A t \in Word : t % 4 = 0 => Good([valid |-> TRUE, pc |-> t])
  BY DEF NoRedirect
<1>3. Good(w.recovered)
  <2>1. w.recovered = retire_redirect(hd0, w.retiring, w.finishing)
    BY DEF WiresHold
  <2>2. TakenBranch(hd0) /\ ~hd0.terminal => hd0.branch.target \in Word /\ hd0.branch.target % 4 = 0
    <3> SUFFICES ASSUME TakenBranch(hd0), ~hd0.terminal
                 PROVE  hd0.branch.target \in Word /\ hd0.branch.target % 4 = 0
      OBVIOUS
    <3>1. hd0 # Empty /\ hd0.branch.taken
      BY DEF TakenBranch
    <3>2. 1 \in 1 .. count /\ hd0 = Window[1] /\ hd0 \in rob_entry_t
      BY <1>1, <3>1, HeadIs
    <3>3. hd0.branch.fault = FAULT_NONE /\ SoundBranch(hd0.branch)
      BY <1>1, <3>2 DEF FaultedEnds, EntriesAligned
    <3>4. hd0.branch.target \in Word
      BY <3>2 DEF rob_entry_t, branch_result_t
    <3> QED
      BY <3>1, <3>3, <3>4 DEF SoundBranch, OnWord
  <2> DEFINE t == hd0.branch.target
  <2>3. w.recovered = NoRedirect \/ (TakenBranch(hd0) /\ ~hd0.terminal /\ w.recovered = [valid |-> TRUE, pc |-> t])
    BY <2>1 DEF retire_redirect
  <2>4. TakenBranch(hd0) /\ ~hd0.terminal => t \in Word /\ t % 4 = 0
    BY <2>2
  <2> HIDE DEF t, Good
  <2> QED
    BY <1>2, <2>3, <2>4
<1>4. Good(blocking_redirect(w.completions, w.finishing))
  <2> DEFINE taken == {r \in Resolving(w.completions) : r.branch.taken}
             first == CHOOSE r \in taken : TRUE
             b == blocking_redirect(w.completions, w.finishing)
             t == first.branch.target
  <2>1. taken # {} => t \in Word /\ t % 4 = 0
    <3> SUFFICES ASSUME taken # {} PROVE t \in Word /\ t % 4 = 0
      OBVIOUS
    <3>1. first \in taken
      OBVIOUS
    <3>2. first \in w.completions /\ first.branch.taken /\ first.branch.fault = FAULT_NONE
      BY <3>1 DEF Resolving
    <3> HIDE DEF first
    <3>3. first \in result_t /\ SoundBranch(first.branch)
      BY <1>1, <3>2, CompletionsTypes, CompletionsAligned
    <3>4. first.branch.target \in Word
      BY <3>3 DEF result_t, branch_result_t
    <3> QED
      BY <3>2, <3>3, <3>4 DEF SoundBranch, OnWord
  <2>2. b = IF BRANCH_AT_RETIRE \/ w.finishing \/ taken = {} THEN NoRedirect
            ELSE [valid |-> TRUE, pc |-> t]
    BY DEF blocking_redirect
  <2> HIDE DEF taken, t, b
  <2>3. Good(b)
    BY <1>2, <2>1, <2>2
  <2> QED
    BY <2>3 DEF b
<1>5. Good(w.branch)
  <2>1. w.branch = w.recovered \/ w.branch = blocking_redirect(w.completions, w.finishing)
    BY DEF WiresHold
  <2> HIDE DEF Good
  <2> QED
    BY <1>3, <1>4, <2>1
<1>6. /\ csr.mtvec \in Word /\ csr.mtvec % 4 = 0
      /\ csr.mepc \in Word /\ csr.mepc % 4 = 0
  BY <1>1 DEF RetireTypes, CsrRegisters, CsrAligned, OnWord
<1>7. Good([valid |-> TRUE, pc |-> csr.mtvec]) /\ Good([valid |-> TRUE, pc |-> csr.mepc])
  <2> HIDE DEF Good
  <2> QED
    BY <1>2, <1>6
<1>8. Good(w.redirect)
  <2>1. w.redirect = IF w.trap.valid THEN [valid |-> TRUE, pc |-> csr.mtvec]
                     ELSE IF w.mret_commit THEN [valid |-> TRUE, pc |-> csr.mepc]
                     ELSE w.branch
    BY DEF WiresHold
  <2> HIDE DEF Good
  <2> QED
    BY <1>5, <1>7, <2>1
<1>9. w.redirect.valid => OnWord(w.redirect.pc)
  BY <1>8 DEF OnWord
<1> QED
  BY <1>8, <1>9

(* The fetch unit only adds 4 or takes a redirect, so its addresses stay   *)
(* those of words (lib/fetch_unit.sv:40-68).                               *)
LEMMA FetchAlignedEdge ==
  ASSUME FrontTypes, FetchAligned, NEW stop, NEW redirect, redirect.valid => OnWord(redirect.pc),
         NEW room, Fetch!Tick(stop, redirect, mem_req_ready, mem_rsp, room)
  PROVE  FetchAligned'
<1>1. /\ OnWord(fetch_pc) /\ OnWord(req_addr) /\ OnWord(pending_pc) /\ OnWord(restart_pc)
      /\ out_valid => OnWord(out_data.pc)
  BY DEF FetchAligned
<1>2. Fetch!RequestEdge(stop, redirect, mem_req_ready)
  BY DEF Fetch!Tick
<1>3. OnWord(Fetch!NextPc(fetch_pc))
  BY <1>1, NextOnWord DEF FrontTypes, Fetch!NextPc
<1>4. /\ req_addr' \in {fetch_pc, req_addr} /\ pending_pc' \in {req_addr, pending_pc}
      /\ fetch_pc' \in {restart_pc, Fetch!NextPc(fetch_pc), fetch_pc}
  BY <1>2 DEF Fetch!RequestEdge
<1>5. restart_pc' = IF redirect.valid THEN redirect.pc ELSE restart_pc
  BY DEF Fetch!Tick
<1>6. \/ out_data' = [pc |-> pending_pc, instruction |-> mem_rsp.data, status |-> mem_rsp.status]
      \/ out_data' = out_data /\ (out_valid' => out_valid)
  BY DEF Fetch!Tick
<1>7. out_valid' => OnWord(out_data'.pc)
  BY <1>1, <1>6
<1> QED
  BY <1>1, <1>3, <1>4, <1>5, <1>7 DEF FetchAligned

(* mtvec and mepc are written with their lowest bits cleared, or with the  *)
(* pc of a trap.                                                           *)
LEMMA CsrAlignedTick ==
  ASSUME csr \in CsrRegisters, OnWord(csr.mtvec), OnWord(csr.mepc),
         NEW trap, NEW mret, NEW commit, NEW i, NEW source, NEW line,
         trap.valid => OnWord(trap.pc),
         commit => ENABLE_TRAPS /\ i.rs1 \in Word /\ source \in Word,
         CsrTick(trap, mret, commit, i, source, line)
  PROVE  OnWord(csr'.mtvec) /\ OnWord(csr'.mepc)
<1> DEFINE v == csr_new_value(i, csr_read(i.csr, line), csr_operand(i, source))
<1>1. commit => v \in Word
  BY CsrValueType
<1>2. commit => OnWord(Aligned(v))
  BY <1>1, ClearedBits
<1>3. csr' = IF trap.valid
             THEN [csr EXCEPT !.mpie = csr.mie, !.mie = FALSE, !.mepc = trap.pc,
                              !.mcause = trap.cause, !.mtval = trap.tval]
             ELSE IF mret THEN [csr EXCEPT !.mie = csr.mpie, !.mpie = TRUE]
             ELSE IF commit /\ csr_written(i) THEN WrittenCsr(i.csr, v) ELSE csr
  BY DEF CsrTick
<1> HIDE DEF v
<1>4. csr \in [mie : BOOLEAN, mpie : BOOLEAN, meie : BOOLEAN,
               mtvec : Word, mscratch : Word, mepc : Word, mcause : Word, mtval : Word]
  BY DEF CsrRegisters
<1> DEFINE c == WrittenCsr(i.csr, v)
<1>5. /\ c.mtvec = csr.mtvec \/ c.mtvec = Aligned(v)
      /\ c.mepc = csr.mepc \/ c.mepc = Aligned(v)
  BY <1>4 DEF WrittenCsr
<1> HIDE DEF c
<1>6. CASE trap.valid
  BY <1>3, <1>4, <1>6
<1>7. CASE ~trap.valid /\ mret
  BY <1>3, <1>4, <1>7
<1>8. CASE ~trap.valid /\ ~mret /\ commit /\ csr_written(i)
  BY <1>2, <1>3, <1>5, <1>8 DEF c
<1>9. CASE ~trap.valid /\ ~mret /\ ~(commit /\ csr_written(i))
  BY <1>3, <1>9
<1> QED
  BY <1>6, <1>7, <1>8, <1>9

(* The address after an instruction without a fault is a word's, also      *)
(* after a taken branch.                                                   *)
LEMMA NextOfSound ==
  ASSUME NEW e \in rob_entry_t, OnWord(e.meta.pc), SoundBranch(e.branch), e.branch.fault = FAULT_NONE
  PROVE  OnWord(NextAddress(e))
<1>1. e.meta.pc \in Word
  BY DEF rob_entry_t, meta_t
<1>2. OnWord((e.meta.pc + 4) % WordModulus)
  BY <1>1, NextOnWord
<1>3. TakenBranch(e) => OnWord(e.branch.target)
  BY DEF TakenBranch, SoundBranch
<1> QED
  BY <1>2, <1>3 DEF NextAddress

(* An edge keeps the addresses in the CSRs, and the next one of the        *)
(* retired path, those of words.                                           *)
LEMMA CsrAlignedEdge ==
  ASSUME AlignedInv, NEW w, WiresHold(w), NEW d, SystemEdge(w, d)
  PROVE  CsrAligned'
<1> DEFINE rs1 == hd0.instruction.rs1
           source == registers[IF OUT_OF_ORDER THEN committed_map[rs1] ELSE rs1]
           last == EntryAt(w.retiring - 1)
           hd == [p \in Lane |-> EntryAt(p)]
<1>1. /\ WindowInv /\ QueuesBounded /\ RetireTypes /\ RenameTypes /\ FaultedEnds
      /\ EntriesAligned /\ CsrAligned /\ csr \in CsrRegisters
  BY DEF AlignedInv, BranchInv, PlaceInv, WindowInv, TypesInv, TypeOK, RetireTypes
<1>2. OnWord(csr.mtvec) /\ OnWord(csr.mepc) /\ (~halted /\ ~fault => OnWord(arch_next_pc))
  BY <1>1 DEF CsrAligned
<1>3. w.trap.valid => OnWord(w.trap.pc)
  <2> SUFFICES ASSUME trap_wire.valid PROVE OnWord(trap_wire.pc)
    BY DEF WiresHold
  <2>1. trap_taken /\ trap_wire.pc = IF trap_exception THEN hd0.meta.pc ELSE arch_next_pc
    BY DEF trap_wire, NoTrap
  <2>2. CASE trap_exception
    <3>1. hd0 # Empty
      BY <2>2 DEF trap_exception, Done
    <3>2. 1 \in 1 .. count /\ hd0 = Window[1]
      BY <1>1, <3>1, HeadIs
    <3> QED
      BY <1>1, <2>1, <2>2, <3>2 DEF EntriesAligned
  <2>3. CASE ~trap_exception
    <3>1. ~halted /\ ~fault
      BY <2>1, <2>3 DEF trap_taken, trap_interrupt
    <3> QED
      BY <1>2, <2>1, <2>3, <3>1
  <2> QED
    BY <2>2, <2>3
<1>4. OnWord(csr'.mtvec) /\ OnWord(csr'.mepc)
  <2>1. CsrTick(w.trap, w.mret_commit, w.csr_commit, hd0.instruction, source, irq_external)
    BY DEF SystemEdge
  <2>2. w.csr_commit => ENABLE_TRAPS /\ rs1 \in Word /\ source \in Word
    BY <1>1, CommitTypes DEF CommitSource
  <2> HIDE DEF source
  <2> QED
    BY <1>1, <1>2, <1>3, <2>1, <2>2, CsrAlignedTick
<1>5. ~w.finishing => halted' = halted /\ fault' = fault
  <2>1. RetireTick(hd, w.retiring, w.finishing, csr_old_value(w))
    BY DEF SystemEdge
  <2> HIDE DEF hd
  <2> QED
    BY <2>1 DEF RetireTick
<1>6. w.finishing => halted' \/ fault'
  <2>1. RetireTick(hd, w.retiring, w.finishing, csr_old_value(w))
    BY DEF SystemEdge
  <2> HIDE DEF hd
  <2> QED
    BY <2>1 DEF RetireTick
<1>7. w.retiring # 0 => OnWord(NextAddress(last))
  <2> SUFFICES ASSUME w.retiring # 0 PROVE OnWord(NextAddress(last))
    OBVIOUS
  <2> DEFINE n == w.retiring
  <2>1. n \in 0 .. 2
    BY <1>1, RetiringIs
  <2> HIDE DEF n
  <2>2. n \in 1 .. n
    BY <2>1 DEF n
  <2>3. n \in 1 .. count /\ ~Window[n].terminal /\ Window[n] = EntryAt(n - 1)
    <3> PICK i : i = n
      OBVIOUS
    <3>1. i \in 1 .. w.retiring
      BY <2>2 DEF n
    <3>2. i \in 1 .. count /\ ~Window[i].terminal /\ Window[i] = EntryAt(i - 1)
      BY <1>1, <3>1, Retires
    <3> QED
      BY <3>2
  <2>4. Window[n] \in rob_entry_t
    BY <1>1, <2>3, WindowIs DEF WindowInv
  <2>5. OnWord(Window[n].meta.pc) /\ SoundBranch(Window[n].branch) /\ Window[n].branch.fault = FAULT_NONE
    BY <1>1, <2>3 DEF EntriesAligned, FaultedEnds
  <2>6. OnWord(NextAddress(Window[n]))
    BY <2>4, <2>5, NextOfSound
  <2> QED
    BY <2>3, <2>6 DEF n
<1>8. arch_next_pc' = IF w.trap.valid THEN csr.mtvec
                      ELSE IF w.mret_commit THEN csr.mepc
                      ELSE IF w.retiring = 0 THEN arch_next_pc
                      ELSE NextAddress(last)
  BY DEF SystemEdge
<1> HIDE DEF last
<1>9. ~halted' /\ ~fault' => OnWord(arch_next_pc')
  BY <1>2, <1>5, <1>6, <1>7, <1>8
<1> QED
  BY <1>4, <1>9 DEF CsrAligned

(* With nothing in flight no branch can be unsound.                        *)
LEMMA ClearedAligned == Cleared => ResultsAligned /\ EntriesAligned
<1> SUFFICES ASSUME Cleared PROVE ResultsAligned /\ EntriesAligned
  OBVIOUS
<1>1. \A p \in Lane : alu[p] = Empty /\ wb[p] = Empty
  BY DEF Cleared
<1>2. \A i \in 1 .. count : FALSE
  BY DEF Cleared
<1> QED
  BY <1>1, <1>2 DEF ResultsAligned, EntriesAligned

(* Initially all addresses are those of words: they are zero.              *)
LEMMA AlignedInit == Init => AlignedInv
<1> SUFFICES ASSUME Init PROVE AlignedInv
  OBVIOUS
<1>1. BranchInv /\ ResultsAligned /\ EntriesAligned
  BY BranchInvInit, ClearedInit, ClearedAligned
<1>2. OnWord(0)
  BY DEF OnWord
<1>3. FetchAligned
  BY <1>2 DEF Init, Fetch!Init, FetchAligned
<1>4. QueuesAligned
  <2>1. fifo_q = <<>> /\ if_q = <<>> /\ id_q = <<>>
    BY DEF Init, Fifo!QueueInit, IfId!QueueInit, IdDispatch!QueueInit
  <2> QED
    BY <2>1, EmptySeq DEF QueuesAligned
<1>5. CsrAligned
  BY <1>2 DEF Init, CsrInit, CsrResetValue, CsrAligned
<1> QED
  BY <1>1, <1>3, <1>4, <1>5 DEF AlignedInv

(* A reset sets the addresses to zero.                                     *)
LEMMA AlignedReset == ResetEdge => FetchAligned' /\ QueuesAligned' /\ CsrAligned'
<1> SUFFICES ASSUME ResetEdge PROVE FetchAligned' /\ QueuesAligned' /\ CsrAligned'
  OBVIOUS
<1>2. OnWord(0)
  BY DEF OnWord
<1>3. FetchAligned'
  BY <1>2 DEF ResetEdge, Fetch!Reset, FetchAligned
<1>4. QueuesAligned'
  <2>1. fifo_q' = <<>> /\ if_q' = <<>> /\ id_q' = <<>>
    <3>1. Fifo!QueueTick(TRUE, <<>>, 0) /\ IfId!QueueTick(TRUE, <<>>, 0) /\ IdDispatch!QueueTick(TRUE, <<>>, 0)
      BY DEF ResetEdge
    <3> QED
      BY <3>1 DEF Fifo!QueueTick, IfId!QueueTick, IdDispatch!QueueTick
  <2> QED
    BY <2>1, EmptySeq DEF QueuesAligned
<1>5. CsrAligned'
  <2>1. csr' = CsrResetValue /\ arch_next_pc' = 0
    BY DEF ResetEdge, CsrReset
  <2> QED
    BY <1>2, <2>1 DEF CsrResetValue, CsrAligned
<1> QED
  BY <1>3, <1>4, <1>5

(* A step that changes nothing keeps the addresses.                        *)
LEMMA AlignedStutter ==
  ASSUME UNCHANGED vars, FetchAligned, QueuesAligned, ResultsAligned, EntriesAligned, CsrAligned
  PROVE  FetchAligned' /\ QueuesAligned' /\ ResultsAligned' /\ EntriesAligned' /\ CsrAligned'
<1>1. UNCHANGED <<rob, head, count, alu, wb, id_q, if_q, fifo_q, fetch_pc, req_addr, pending_pc, restart_pc,
                  out_valid, out_data, csr, halted, fault, arch_next_pc>>
  BY DEF vars, robVars, executionVars, frontVars, backVars, retireVars
<1>2. Window' = Window
  BY <1>1 DEF Window
<1> QED
  BY <1>1, <1>2 DEF FetchAligned, QueuesAligned, ResultsAligned, EntriesAligned, CsrAligned

(* An edge that is not reset, as the fetch path sees it.                   *)
LEMMA AlignedEdge ==
  ASSUME AlignedInv, NEW w, NEW d, NEW chosen, EdgeHolds(w, d, chosen)
  PROVE  FetchAligned' /\ QueuesAligned' /\ ResultsAligned' /\ EntriesAligned' /\ CsrAligned'
<1>1. /\ TypesInv /\ WindowInv /\ PlaceInv /\ MdOne /\ MdPlain /\ QueuesInv /\ FrontTypes
      /\ FetchAligned /\ QueuesAligned /\ ResultsAligned /\ EntriesAligned
      /\ WiresHold(w) /\ DispatchFacts(w, d) /\ FrontEdge(w, d) /\ SystemEdge(w, d)
  BY DEF AlignedInv, BranchInv, PlaceInv, WindowInv, TypesInv, TypeOK, EdgeHolds
<1>2. FetchAligned'
  <2>1. Fetch!Tick(w.fetch_stop, w.redirect, mem_req_ready, mem_rsp, fetched_ready)
    BY <1>1 DEF FrontEdge
  <2>2. w.redirect.valid => OnWord(w.redirect.pc)
    BY <1>1, RedirectAligned
  <2> QED
    BY <1>1, <2>1, <2>2, FetchAlignedEdge
<1>3. QueuesAligned'
  <2> DEFINE F == Placed(fetch_t)
             D == Placed(decode_t)
  <2>1. fifo_q \in Seq(F) /\ if_q \in Seq(F) /\ id_q \in Seq(D)
    BY <1>1 DEF QueuesAligned
  <2>2. out_valid => out_data \in F
    BY <1>1 DEF FrontTypes, FetchAligned, Placed
  <2>3. \A x \in F : rv32_decode(x) \in D
    BY DecodedPlace
  <2>4. d.n \in 0 .. 2 /\ d.n <= Len(id_q)
    BY <1>1 DEF DispatchFacts
  <2> HIDE DEF F, D
  <2>5. fifo_q' \in Seq(F) /\ if_q' \in Seq(F) /\ id_q' \in Seq(D)
    BY <1>1, <2>1, <2>2, <2>3, <2>4, QueuesCarry
  <2> QED
    BY <2>5 DEF QueuesAligned, F, D
<1>4. CsrAligned'
  BY <1>1, CsrAlignedEdge
<1>5. CASE w.backend_flush
  <2>1. Cleared'
    BY <1>5, ClearedFlush
  <2>2. Cleared' => ResultsAligned' /\ EntriesAligned'
    <3>1. ASSUME Cleared' PROVE (\A p \in Lane : alu'[p] = Empty /\ wb'[p] = Empty) /\ count' = 0
      BY <3>1 DEF Cleared
    <3>2. Cleared' => \A i \in 1 .. count' : FALSE
      BY <3>1
    <3> QED
      BY <3>1, <3>2 DEF ResultsAligned, EntriesAligned
  <2> QED
    BY <1>2, <1>3, <1>4, <2>1, <2>2
<1>6. CASE ~w.backend_flush
  <2>1. PICK seat : FlightMoves(w, d, chosen, seat)
    BY <1>1, <1>6, FlightMovesIs
  <2>2. ResultsAligned'
    BY <1>1, <2>1, ResultsAlignedEdge
  <2>3. EntriesAligned'
    BY <1>1, <1>6, EntriesAlignedEdge
  <2> QED
    BY <1>2, <1>3, <1>4, <2>2, <2>3
<1> QED
  BY <1>5, <1>6

(* Every step keeps every address the core may go to a word's.             *)
LEMMA AlignedStep == AlignedInv /\ [Next]_vars => AlignedInv'
<1>1. Cleared' => ResultsAligned' /\ EntriesAligned'
  BY ClearedAligned, PTL
<1> SUFFICES ASSUME AlignedInv, [Next]_vars PROVE AlignedInv'
  OBVIOUS
<1>2. BranchInv'
  BY BranchStep DEF AlignedInv
<1>3. CASE ClockEdge
  <2>1. QueuesBounded /\ id_q \in Seq(decode_t) /\ iq \in [Slot -> issue_t \cup {Empty}]
    BY DEF AlignedInv, BranchInv, PlaceInv, WindowInv, TypesInv, TypeOK, FrontTypes, ExecutionTypes
  <2>2. PICK w, d, chosen : EdgeHolds(w, d, chosen)
    BY <1>3, <2>1, EdgeIs
  <2> QED
    BY <1>2, <2>2, AlignedEdge DEF AlignedInv
<1>4. CASE ResetEdge
  <2>1. Cleared'
    BY <1>4, ClearedReset
  <2> QED
    BY <1>1, <1>2, <1>4, <2>1, AlignedReset DEF AlignedInv
<1>5. CASE UNCHANGED vars
  BY <1>2, <1>5, AlignedStutter DEF AlignedInv
<1> QED
  BY <1>3, <1>4, <1>5 DEF Next

-----------------------------------------------------------------------------
(* The core is one of the environments that module FetchMemory allows: what*)
(* is proved there of the fetch unit and the memory holds in the core.     *)
LEMMA PathConstants ==
  Path!PcModulusAssumption /\ Path!ProgramsAssumption /\ Path!TimingsAssumption /\ Path!NowhereAssumption
<1>1. Path!PcModulusAssumption
  BY WordSize DEF Path!PcModulusAssumption
<1>2. Path!ProgramsAssumption
  <2>1. \A p \in Seq(instruction_t) : Listing(p)
    BY SequencesAreListings
  <2> QED
    BY <2>1, CoreProgramsAssumption DEF Path!ProgramsAssumption, Listing
<1>3. Path!TimingsAssumption
  BY CoreTimingsAssumption DEF Path!TimingsAssumption
<1>4. Path!NowhereAssumption
  BY EmptyAssumption, WordSize DEF Path!NowhereAssumption, Path!Address
<1> QED
  BY <1>1, <1>2, <1>3, <1>4

(* A tick of the fetch unit and of the memory in the core is a clock edge  *)
(* of FetchMemory with the pipeline's wires as inputs.                     *)
LEMMA PathTick ==
  ASSUME NEW stop, NEW redirect, NEW room,
         Fetch!Tick(stop, redirect, mem_req_ready, mem_rsp, room),
         Memory!MemTick(req_valid, req_addr, Fetch!rsp_ready(stop, redirect, room))
  PROVE  Path!ClockEdge(stop, redirect, room)
<1> DEFINE ready == Fetch!rsp_ready(stop, redirect, room)
<1>1. Path!rsp_ready(stop, redirect, room) = ready
  BY DEF Path!rsp_ready, Path!draining, Fetch!rsp_ready, Fetch!draining
<1>2. Path!Tick(stop, redirect, mem_req_ready, mem_rsp, room)
  BY DEF Path!Tick, Path!RequestEdge, Path!rsp_ready, Path!draining, Path!issue, Path!restart, Path!NextPc,
         Path!IMEM_OK, Fetch!Tick, Fetch!RequestEdge, Fetch!rsp_ready, Fetch!draining, Fetch!issue,
         Fetch!restart, Fetch!NextPc, Fetch!IMEM_OK
<1> HIDE DEF ready
<1>3. Path!MemTick(req_valid, req_addr, ready)
  BY DEF Path!MemTick, Path!AcceptRequest, Path!Waited, Path!WaitForResponse, Path!latency_left,
         Path!ReadWord, Path!HoldResponse, Memory!MemTick, Memory!AcceptRequest, Memory!Waited,
         Memory!WaitForResponse, Memory!latency_left, Memory!ReadWord, Memory!HoldResponse, ready
<1> QED
  BY <1>1, <1>2, <1>3 DEF Path!ClockEdge

(* The core starts where FetchMemory starts.                               *)
LEMMA PathInit == Init => Path!System_Init
<1> SUFFICES ASSUME Init PROVE Path!System_Init
  OBVIOUS
<1>1. Fetch!Init /\ Memory!MemInit /\ program \in Programs /\ timing \in Timings
  BY DEF Init
<1>2. Path!Init
  BY <1>1 DEF Path!Init, Fetch!Init
<1>3. Path!MemInit
  BY <1>1 DEF Path!MemInit, Path!NoResponse, Memory!MemInit, Memory!NoResponse
<1> QED
  BY <1>1, <1>2, <1>3 DEF Path!System_Init

(* A clock edge of the core is a clock edge of FetchMemory with the core's *)
(* own stop, redirect and room for a word.                                 *)
LEMMA PathEdge ==
  ASSUME AlignedInv, ClockEdge
  PROVE  /\ RecoveryWires.fetch_stop \in BOOLEAN /\ fetched_ready \in BOOLEAN
         /\ RecoveryWires.redirect \in Path!RedirectWire
         /\ Path!ClockEdge(RecoveryWires.fetch_stop, RecoveryWires.redirect, fetched_ready)
<1> DEFINE w == RecoveryWires
           room == fetched_ready
           stop == w.fetch_stop
<1>1. /\ Fetch!Tick(stop, w.redirect, mem_req_ready, mem_rsp, room)
      /\ Memory!MemTick(req_valid, req_addr, Fetch!rsp_ready(stop, w.redirect, room))
  BY DEF ClockEdge, EdgeAfter, EdgeWith, FrontEdge, rsp_ready_wire
<1>2. WiresHold(w) /\ stop \in BOOLEAN
  BY Wires, StopAndRedirect
<1>3. room \in BOOLEAN
  BY DEF fetched_ready
<1> HIDE DEF w, room
<1>4. w.redirect \in Path!RedirectWire
  BY <1>2, RedirectAligned DEF Path!RedirectWire, Path!AlignedAddress, Path!Address, Word
<1>5. Path!ClockEdge(stop, w.redirect, room)
  <2> HIDE DEF stop
  <2> QED
    BY <1>1, PathTick
<1> QED
  BY <1>2, <1>3, <1>4, <1>5 DEF w, room

(* Every step of the core is a step of FetchMemory or leaves it alone.     *)
LEMMA PathStep == AlignedInv /\ [Next]_vars => [Path!System_Next]_(Path!vars)
<1> SUFFICES ASSUME AlignedInv, [Next]_vars PROVE Path!System_Next \/ UNCHANGED Path!vars
  OBVIOUS
<1>1. CASE ClockEdge
  BY <1>1, PathEdge DEF Path!System_Next, Path!RunningEdge
<1>2. CASE ResetEdge
  <2>1. Fetch!Reset /\ Memory!reset_protocol
    BY <1>2 DEF ResetEdge
  <2> QED
    BY <2>1 DEF Path!System_Next, Path!ResetEdge, Path!Reset, Path!reset_protocol, Path!NoResponse,
                Fetch!Reset, Memory!reset_protocol, Memory!NoResponse
<1>3. CASE UNCHANGED vars
  BY <1>3, ChannelStutter
<1> QED
  BY <1>1, <1>2, <1>3 DEF Next

(* The pipeline implements the environment of module FetchMemory: whatever *)
(* it computes, it redirects the fetch unit to words only, the targets of  *)
(* branches that did not fault, mtvec and mepc                             *)
(* (lib/core_pipeline.sv:87-88, lib/integer_alu.sv:35-37,                  *)
(* lib/machine_csr.sv:80-82).                                              *)
THEOREM CorePath == Spec => Path!Spec
<1> QED
  BY AlignedInit, AlignedStep, PathInit, PathStep, PTL DEF Spec, Path!Spec

(* In the core the addresses of the request, of the fetch unit's copy and  *)
(* of the memory's agree (lib/fetch_unit.sv:40-50).                        *)
THEOREM CoreAddresses == Spec => []Path!AddressesAgree
<1>1. Path!Spec => []Path!AddressesAgree
  BY PathConstants, Path!FetchAddressesAgree
  DEF Path!PcModulusAssumption, Path!ProgramsAssumption, Path!TimingsAssumption, Path!NowhereAssumption
<1> QED
  BY <1>1, CorePath

(* What is proved of FetchMemory's own invariant and edges holds here.     *)
LEMMA PathInvariant == Path!Spec => []Path!IInv
<1>1. Path!Spec => []Path!TypeOK /\ []Path!SingleRequest /\ []Path!AddressesAgree
  BY PathConstants, Path!FetchTypes, Path!FetchSingleRequest, Path!FetchAddressesAgree
  DEF Path!PcModulusAssumption, Path!ProgramsAssumption, Path!TimingsAssumption, Path!NowhereAssumption
<1>2. Path!TypeOK /\ Path!SingleRequest /\ Path!AddressesAgree => Path!IInv
  BY DEF Path!IInv
<1> QED
  BY <1>1, <1>2, PTL

(* A clock edge of the path is the stream's step with the same inputs.     *)
LEMMA PathEdgeIsStreamStep ==
  ASSUME Path!IInv, NEW stop \in BOOLEAN, NEW redirect \in Path!RedirectWire,
         NEW out_ready \in BOOLEAN, Path!ClockEdge(stop, redirect, out_ready)
  PROVE  Path!Stream!Step(stop, redirect, out_ready)
BY PathConstants, Path!FetchEdgeIsStreamStep
DEF Path!PcModulusAssumption, Path!ProgramsAssumption, Path!TimingsAssumption, Path!NowhereAssumption

(* Each edge of the core is the stream's step with the core's own redirect *)
(* (a recovery, a resolved branch, a trap or a return), its own stop and   *)
(* the room in its instruction fifo (lib/core_pipeline.sv:87-92,137-140).  *)
StreamEdge ==
  ClockEdge => Path!Stream!Step(RecoveryWires.fetch_stop, RecoveryWires.redirect, fetched_ready)

(* What the frontend of the core is given is the stream of one path of the *)
(* program: no word of a path left by a branch, a trap or a stop, none     *)
(* skipped, none twice; the core's redirects begin its paths, all of them  *)
(* and nothing else but reset (lib/fetch_unit.sv:51-68).                   *)
THEOREM CoreStream == Spec => Path!StreamImplemented /\ [][StreamEdge]_vars
<1>1. Path!Spec => Path!StreamImplemented
  BY PathConstants, Path!FetchImplementsStream
  DEF Path!PcModulusAssumption, Path!ProgramsAssumption, Path!TimingsAssumption, Path!NowhereAssumption
<1>2. AlignedInv /\ Path!IInv => StreamEdge
  BY PathEdge, PathEdgeIsStreamStep DEF StreamEdge
<1>3. AlignedInv /\ Path!IInv /\ [Next]_vars => [StreamEdge]_vars
  BY <1>2
<1> QED
  BY <1>1, <1>3, CorePath, PathInvariant, AlignedInit, AlignedStep, PTL DEF Spec

-----------------------------------------------------------------------------

(* Instruction i of V writes register r; p is the register of r after the  *)
(* instructions lo + 1 to k of V, in a core that had committed map.        *)
WritesTo(m, r) == m.pdst # 0 /\ m.rd = r
Holds(map, V, lo, k, r, p) ==
  \/ p = map[r] /\ \A j \in lo + 1 .. k : ~WritesTo(V[j], r)
  \/ \E i \in lo + 1 .. k : /\ WritesTo(V[i], r) /\ p = V[i].pdst
                            /\ \A j \in lo + 1 .. k : WritesTo(V[j], r) => j <= i

(* The registers are well kept while the instructions lo + 1 to hi of V    *)
(* are in flight: each free, committed or given to one of them, exactly    *)
(* once, and the maps differ by what the instructions write.               *)
PlacesTyped(free, committed, map, V, lo, hi) ==
  /\ free \subseteq Phys \ {0} /\ committed \in [Arch -> Phys] /\ map \in [Arch -> Phys]
  /\ \A i \in lo + 1 .. hi : V[i] \in meta_t
MapsFollow(committed, map, V, lo, hi) ==
  /\ \A r \in Arch : Holds(committed, V, lo, hi, r, map[r])
  /\ \A i \in lo + 1 .. hi : V[i].pdst # 0 =>
       V[i].rd # 0 /\ Holds(committed, V, lo, i - 1, V[i].rd, V[i].old_pdst)
PlacesApart(free, committed, V, lo, hi) ==
  /\ committed[0] = 0
  /\ \A r, s \in Arch : committed[r] = committed[s] => r = s
  /\ \A r \in Arch : committed[r] \notin free
  /\ \A i \in lo + 1 .. hi : V[i].pdst # 0 =>
       /\ V[i].pdst \notin free
       /\ \A r \in Arch : committed[r] # V[i].pdst
       /\ \A j \in lo + 1 .. hi : V[j].pdst = V[i].pdst => j = i
PlacesAll(free, committed, V, lo, hi) ==
  \A p \in Phys : \/ p \in free \/ \E r \in Arch : committed[r] = p
                  \/ p # 0 /\ \E i \in lo + 1 .. hi : V[i].pdst = p
WellKept(free, committed, map, V, lo, hi) ==
  /\ PlacesTyped(free, committed, map, V, lo, hi) /\ MapsFollow(committed, map, V, lo, hi)
  /\ PlacesApart(free, committed, V, lo, hi) /\ PlacesAll(free, committed, V, lo, hi)

Mapped(map, m) == IF m.pdst = 0 THEN map ELSE [map EXCEPT ![m.rd] = m.pdst]
FreedBy(free, m) == IF m.pdst = 0 THEN free ELSE free \cup {m.old_pdst}

(* A map after one instruction: its destination names its register, the    *)
(* others are as before.                                                   *)
LEMMA MappedAt ==
  ASSUME NEW map \in [Arch -> Phys], NEW m \in meta_t
  PROVE  /\ Mapped(map, m) \in [Arch -> Phys]
         /\ \A r \in Arch : Mapped(map, m)[r] = IF WritesTo(m, r) THEN m.pdst ELSE map[r]
<1>1. m.pdst \in Phys /\ m.rd \in Arch
  BY DEF meta_t
<1> QED
  BY <1>1 DEF Mapped, WritesTo

(* What an instruction that retires does to a register's place.            *)
LEMMA HoldsRetire ==
  ASSUME NEW C \in [Arch -> Phys], NEW V, NEW lo \in Nat, NEW k \in Nat, k > lo, V[lo + 1] \in meta_t,
         NEW r \in Arch, NEW p, Holds(C, V, lo, k, r, p)
  PROVE  Holds(Mapped(C, V[lo + 1]), V, lo + 1, k, r, p)
<1> DEFINE m == V[lo + 1]
           C2 == Mapped(C, m)
<1>1. C2[r] = IF WritesTo(m, r) THEN m.pdst ELSE C[r]
  BY MappedAt
<1>2. \A j : j \in lo + 1 .. k <=> j = lo + 1 \/ j \in (lo + 1) + 1 .. k
  OBVIOUS
<1>3. CASE p = C[r] /\ \A j \in lo + 1 .. k : ~WritesTo(V[j], r)
  <2>1. p = C2[r] /\ \A j \in (lo + 1) + 1 .. k : ~WritesTo(V[j], r)
    BY <1>1, <1>2, <1>3
  <2> QED
    BY <2>1 DEF Holds
<1>4. ASSUME NEW i \in lo + 1 .. k, WritesTo(V[i], r), p = V[i].pdst,
             \A j \in lo + 1 .. k : WritesTo(V[j], r) => j <= i
      PROVE  Holds(C2, V, lo + 1, k, r, p)
  <2>1. CASE i = lo + 1
    <3>1. p = C2[r]
      BY <1>1, <1>4, <2>1
    <3>2. \A j \in (lo + 1) + 1 .. k : ~WritesTo(V[j], r)
      BY <1>4, <2>1
    <3> QED
      BY <3>1, <3>2 DEF Holds
  <2>2. CASE i \in (lo + 1) + 1 .. k
    <3>1. \A j \in (lo + 1) + 1 .. k : WritesTo(V[j], r) => j <= i
      BY <1>2, <1>4
    <3> QED
      BY <1>4, <2>2, <3>1 DEF Holds
  <2> QED
    BY <1>2, <1>4, <2>1, <2>2
<1> QED
  BY <1>3, <1>4 DEF Holds

(* And one that is dispatched.                                             *)
LEMMA HoldsGive ==
  ASSUME NEW C, NEW S \in [Arch -> Phys], NEW V, NEW lo \in Nat, NEW k \in Nat, k >= lo, V[k + 1] \in meta_t,
         NEW r \in Arch, Holds(C, V, lo, k, r, S[r])
  PROVE  Holds(C, V, lo, k + 1, r, Mapped(S, V[k + 1])[r])
<1> DEFINE m == V[k + 1]
           p == Mapped(S, m)[r]
<1>1. p = IF WritesTo(m, r) THEN m.pdst ELSE S[r]
  BY MappedAt
<1>2. \A j : j \in lo + 1 .. k + 1 <=> j = k + 1 \/ j \in lo + 1 .. k
  OBVIOUS
<1> HIDE DEF p
<1>3. CASE WritesTo(m, r)
  <2>1. k + 1 \in lo + 1 .. k + 1 /\ \A j \in lo + 1 .. k + 1 : j <= k + 1
    OBVIOUS
  <2>2. Holds(C, V, lo, k + 1, r, p)
    BY <1>1, <1>3, <2>1 DEF Holds
  <2> QED
    BY <2>2 DEF p
<1>4. CASE ~WritesTo(m, r)
  <2>1. p = S[r]
    BY <1>1, <1>4
  <2>2. ASSUME p = C[r], \A j \in lo + 1 .. k : ~WritesTo(V[j], r)
        PROVE  Holds(C, V, lo, k + 1, r, p)
    <3>1. \A j \in lo + 1 .. k + 1 : ~WritesTo(V[j], r)
      BY <1>2, <1>4, <2>2
    <3>2. Holds(C, V, lo, k + 1, r, p)
      BY <2>2, <3>1 DEF Holds
    <3> QED
      BY <3>2
  <2>3. ASSUME NEW i \in lo + 1 .. k, WritesTo(V[i], r), p = V[i].pdst,
               \A j \in lo + 1 .. k : WritesTo(V[j], r) => j <= i
        PROVE  Holds(C, V, lo, k + 1, r, p)
    <3>1. i \in lo + 1 .. k + 1 /\ \A j \in lo + 1 .. k + 1 : WritesTo(V[j], r) => j <= i
      BY <1>2, <1>4, <2>3
    <3> QED
      BY <2>3, <3>1 DEF Holds
  <2>4. Holds(C, V, lo, k + 1, r, p)
    <3>1. Holds(C, V, lo, k, r, p)
      BY <2>1
    <3>2. \/ p = C[r] /\ \A j \in lo + 1 .. k : ~WritesTo(V[j], r)
          \/ \E i \in lo + 1 .. k : /\ WritesTo(V[i], r) /\ p = V[i].pdst
                                    /\ \A j \in lo + 1 .. k : WritesTo(V[j], r) => j <= i
      BY <3>1 DEF Holds
    <3> QED
      BY <2>2, <2>3, <3>2
  <2> QED
    BY <2>4 DEF p
<1> QED
  BY <1>3, <1>4

(* The oldest instruction retires: its register is committed, the one it   *)
(* replaced is free.                                                       *)
LEMMA KeptRetire ==
  ASSUME NEW F, NEW C, NEW S, NEW V, NEW lo \in Nat, NEW hi \in Nat, hi > lo,
         WellKept(F, C, S, V, lo, hi)
  PROVE  LET m == V[lo + 1] IN WellKept(FreedBy(F, m), Mapped(C, m), S, V, lo + 1, hi)
<1> DEFINE m == V[lo + 1]
           C2 == Mapped(C, m)
           F2 == FreedBy(F, m)
<1>1. /\ PlacesTyped(F, C, S, V, lo, hi) /\ MapsFollow(C, S, V, lo, hi)
      /\ PlacesApart(F, C, V, lo, hi) /\ PlacesAll(F, C, V, lo, hi)
  BY DEF WellKept
<1>2. \A j : j \in lo + 1 .. hi <=> j = lo + 1 \/ j \in (lo + 1) + 1 .. hi
  OBVIOUS
<1>3. /\ m \in meta_t /\ C \in [Arch -> Phys] /\ F \subseteq Phys \ {0}
      /\ m.pdst \in Phys /\ m.rd \in Arch /\ 0 \in Arch
  BY <1>1, <1>2, SmallWords DEF PlacesTyped, meta_t
<1>4. C2 \in [Arch -> Phys] /\ \A r \in Arch : C2[r] = IF WritesTo(m, r) THEN m.pdst ELSE C[r]
  BY <1>3, MappedAt
<1>5. m.pdst # 0 => m.rd # 0 /\ m.old_pdst = C[m.rd]
  <2> SUFFICES ASSUME m.pdst # 0 PROVE m.rd # 0 /\ m.old_pdst = C[m.rd]
    OBVIOUS
  <2>1. m.rd # 0 /\ Holds(C, V, lo, (lo + 1) - 1, m.rd, m.old_pdst)
    BY <1>1, <1>2 DEF MapsFollow
  <2>2. lo + 1 .. (lo + 1) - 1 = {}
    OBVIOUS
  <2> QED
    BY <2>1, <2>2 DEF Holds
<1>6. /\ C[0] = 0
      /\ \A r, s \in Arch : C[r] = C[s] => r = s
      /\ \A r \in Arch : C[r] \notin F
      /\ \A i \in lo + 1 .. hi : V[i].pdst # 0 =>
           /\ V[i].pdst \notin F
           /\ \A r \in Arch : C[r] # V[i].pdst
           /\ \A j \in lo + 1 .. hi : V[j].pdst = V[i].pdst => j = i
  BY <1>1 DEF PlacesApart
<1>7. /\ m.pdst # 0 => /\ m.pdst \notin F /\ \A r \in Arch : C[r] # m.pdst
                       /\ \A j \in (lo + 1) + 1 .. hi : V[j].pdst # m.pdst
      /\ m.pdst = 0 => F2 = F /\ \A r \in Arch : C2[r] = C[r]
      /\ m.pdst # 0 => F2 = F \cup {C[m.rd]} /\ C2[m.rd] = m.pdst
                       /\ \A r \in Arch : r # m.rd => C2[r] = C[r]
  <2>1. m.pdst # 0 => \A j \in (lo + 1) + 1 .. hi : V[j].pdst # m.pdst
    BY <1>2, <1>6
  <2> QED
    BY <2>1, <1>2, <1>3, <1>4, <1>5, <1>6 DEF FreedBy, WritesTo
<1>8. PlacesTyped(F2, C2, S, V, lo + 1, hi)
  <2>1. F2 \subseteq Phys \ {0}
    BY <1>3, <1>5, <1>6, <1>7
  <2> QED
    BY <1>1, <1>2, <1>4, <2>1 DEF PlacesTyped
<1>9. MapsFollow(C2, S, V, lo + 1, hi)
  <2>1. ASSUME NEW r \in Arch PROVE Holds(C2, V, lo + 1, hi, r, S[r])
    <3>1. Holds(C, V, lo, hi, r, S[r])
      BY <1>1 DEF MapsFollow
    <3> HIDE DEF C2, m
    <3> QED
      BY <1>3, <3>1, HoldsRetire DEF C2, m
  <2>2. ASSUME NEW i \in (lo + 1) + 1 .. hi, V[i].pdst # 0
        PROVE  V[i].rd # 0 /\ Holds(C2, V, lo + 1, i - 1, V[i].rd, V[i].old_pdst)
    <3>1. V[i].rd # 0 /\ Holds(C, V, lo, i - 1, V[i].rd, V[i].old_pdst) /\ V[i] \in meta_t
      BY <1>1, <1>2, <2>2 DEF MapsFollow, PlacesTyped
    <3>2. i - 1 \in Nat /\ i - 1 > lo /\ V[i].rd \in Arch
      BY <3>1 DEF meta_t
    <3> QED
      BY <1>3, <3>1, <3>2, HoldsRetire
  <2> QED
    BY <2>1, <2>2 DEF MapsFollow
<1> HIDE DEF C2, F2, m
<1>10. PlacesApart(F2, C2, V, lo + 1, hi)
  <2>1. C2[0] = 0
    BY <1>3, <1>5, <1>6, <1>7
  <2>2. ASSUME NEW r \in Arch, NEW s \in Arch, C2[r] = C2[s] PROVE r = s
    BY <2>2, <1>3, <1>6, <1>7
  <2>3. ASSUME NEW r \in Arch PROVE C2[r] \notin F2
    BY <2>3, <1>3, <1>6, <1>7
  <2>4. ASSUME NEW i \in (lo + 1) + 1 .. hi, V[i].pdst # 0
        PROVE  /\ V[i].pdst \notin F2
               /\ \A r \in Arch : C2[r] # V[i].pdst
               /\ \A j \in (lo + 1) + 1 .. hi : V[j].pdst = V[i].pdst => j = i
    <3>1. i \in lo + 1 .. hi
      BY <1>2, <2>4
    <3>2. V[i].pdst \notin F /\ \A r \in Arch : C[r] # V[i].pdst
      BY <3>1, <2>4, <1>6
    <3>3. m.pdst # 0 => V[i].pdst # m.pdst
      BY <1>7, <2>4
    <3>4. \A j \in (lo + 1) + 1 .. hi : V[j].pdst = V[i].pdst => j = i
      BY <3>1, <2>4, <1>2, <1>6
    <3> QED
      BY <3>2, <3>3, <3>4, <1>3, <1>7
  <2> QED
    BY <2>1, <2>2, <2>3, <2>4 DEF PlacesApart
<1>11. PlacesAll(F2, C2, V, lo + 1, hi)
  <2> SUFFICES ASSUME NEW p \in Phys
               PROVE  \/ p \in F2 \/ \E r \in Arch : C2[r] = p
                      \/ p # 0 /\ \E i \in (lo + 1) + 1 .. hi : V[i].pdst = p
    BY DEF PlacesAll
  <2>1. \/ p \in F \/ \E r \in Arch : C[r] = p
        \/ p # 0 /\ \E i \in lo + 1 .. hi : V[i].pdst = p
    BY <1>1 DEF PlacesAll
  <2>2. p \in F => p \in F2
    BY <1>7
  <2>3. (\E r \in Arch : C[r] = p) => p \in F2 \/ \E r \in Arch : C2[r] = p
    BY <1>3, <1>7
  <2>4. p # 0 /\ p = m.pdst => \E r \in Arch : C2[r] = p
    BY <1>3, <1>7
  <2> QED
    BY <2>1, <2>2, <2>3, <2>4, <1>2 DEF m
<1> QED
  BY <1>8, <1>9, <1>10, <1>11 DEF WellKept, C2, F2, m

(* An instruction is dispatched: it takes a free register, if it writes.   *)
LEMMA KeptGive ==
  ASSUME NEW F, NEW C, NEW S, NEW V, NEW lo \in Nat, NEW hi \in Nat, hi >= lo,
         WellKept(F, C, S, V, lo, hi), V[hi + 1] \in meta_t,
         V[hi + 1].pdst # 0 => /\ V[hi + 1].pdst \in F /\ V[hi + 1].rd # 0
                               /\ V[hi + 1].old_pdst = S[V[hi + 1].rd]
  PROVE  WellKept(F \ {V[hi + 1].pdst}, C, Mapped(S, V[hi + 1]), V, lo, hi + 1)
<1> DEFINE m == V[hi + 1]
           S2 == Mapped(S, m)
           F2 == F \ {m.pdst}
<1>1. /\ PlacesTyped(F, C, S, V, lo, hi) /\ MapsFollow(C, S, V, lo, hi)
      /\ PlacesApart(F, C, V, lo, hi) /\ PlacesAll(F, C, V, lo, hi)
  BY DEF WellKept
<1>2. \A j : j \in lo + 1 .. hi + 1 <=> j = hi + 1 \/ j \in lo + 1 .. hi
  OBVIOUS
<1>3. /\ C \in [Arch -> Phys] /\ S \in [Arch -> Phys] /\ F \subseteq Phys \ {0}
      /\ m.pdst \in Phys /\ m.rd \in Arch
  BY <1>1 DEF PlacesTyped, meta_t
<1>4. S2 \in [Arch -> Phys]
  BY <1>3, MappedAt
<1>5. PlacesTyped(F2, C, S2, V, lo, hi + 1)
  BY <1>1, <1>2, <1>3, <1>4 DEF PlacesTyped
<1>6. MapsFollow(C, S2, V, lo, hi + 1)
  <2>1. ASSUME NEW r \in Arch PROVE Holds(C, V, lo, hi + 1, r, S2[r])
    <3>1. Holds(C, V, lo, hi, r, S[r])
      BY <1>1 DEF MapsFollow
    <3> HIDE DEF S2, m
    <3> QED
      BY <1>3, <3>1, HoldsGive DEF S2, m
  <2>2. ASSUME NEW i \in lo + 1 .. hi + 1, V[i].pdst # 0
        PROVE  V[i].rd # 0 /\ Holds(C, V, lo, i - 1, V[i].rd, V[i].old_pdst)
    <3>1. CASE i = hi + 1
      <4>1. (hi + 1) - 1 = hi
        OBVIOUS
      <4>2. Holds(C, V, lo, hi, m.rd, S[m.rd])
        BY <1>1, <1>3 DEF MapsFollow
      <4> QED
        BY <2>2, <3>1, <4>1, <4>2
    <3>2. CASE i \in lo + 1 .. hi
      BY <1>1, <2>2, <3>2 DEF MapsFollow
    <3> QED
      BY <1>2, <2>2, <3>1, <3>2
  <2> QED
    BY <2>1, <2>2 DEF MapsFollow
<1>7. /\ C[0] = 0
      /\ \A r, s \in Arch : C[r] = C[s] => r = s
      /\ \A r \in Arch : C[r] \notin F
      /\ \A i \in lo + 1 .. hi : V[i].pdst # 0 =>
           /\ V[i].pdst \notin F
           /\ \A r \in Arch : C[r] # V[i].pdst
           /\ \A j \in lo + 1 .. hi : V[j].pdst = V[i].pdst => j = i
  BY <1>1 DEF PlacesApart
<1>8. m.pdst # 0 => m.pdst \in F
  OBVIOUS
<1> HIDE DEF F2
<1>9. PlacesApart(F2, C, V, lo, hi + 1)
  <2>1. \A r \in Arch : C[r] \notin F2
    BY <1>7 DEF F2
  <2>2. ASSUME NEW i \in lo + 1 .. hi + 1, V[i].pdst # 0
        PROVE  /\ V[i].pdst \notin F2
               /\ \A r \in Arch : C[r] # V[i].pdst
               /\ \A j \in lo + 1 .. hi + 1 : V[j].pdst = V[i].pdst => j = i
    <3>1. V[i].pdst \notin F2 /\ \A r \in Arch : C[r] # V[i].pdst
      <4>1. CASE i = hi + 1
        BY <4>1, <2>2, <1>7, <1>8 DEF F2
      <4>2. CASE i \in lo + 1 .. hi
        BY <4>2, <2>2, <1>7 DEF F2
      <4> QED
        BY <4>1, <4>2, <1>2
    <3>2. ASSUME NEW j \in lo + 1 .. hi + 1, V[j].pdst = V[i].pdst PROVE j = i
      <4> HIDE DEF m
      <4>1. i = hi + 1 \/ i \in lo + 1 .. hi
        BY <1>2
      <4>2. j = hi + 1 \/ j \in lo + 1 .. hi
        BY <1>2
      <4>3. \A k \in lo + 1 .. hi : V[k].pdst # 0 => V[k].pdst # V[hi + 1].pdst
        BY <1>7, <1>8 DEF m
      <4> QED
        BY <4>1, <4>2, <4>3, <3>2, <2>2, <1>7
    <3> QED
      BY <3>1, <3>2
  <2> QED
    BY <1>7, <2>1, <2>2 DEF PlacesApart
<1>10. PlacesAll(F2, C, V, lo, hi + 1)
  <2> SUFFICES ASSUME NEW p \in Phys
               PROVE  \/ p \in F2 \/ \E r \in Arch : C[r] = p
                      \/ p # 0 /\ \E i \in lo + 1 .. hi + 1 : V[i].pdst = p
    BY DEF PlacesAll
  <2>1. \/ p \in F \/ \E r \in Arch : C[r] = p
        \/ p # 0 /\ \E i \in lo + 1 .. hi : V[i].pdst = p
    BY <1>1 DEF PlacesAll
  <2>2. p \in F => p \in F2 \/ (p = m.pdst /\ p # 0)
    BY <1>3 DEF F2
  <2> QED
    BY <2>1, <2>2, <1>2
<1> QED
  BY <1>5, <1>6, <1>9, <1>10 DEF WellKept, F2

(* Nothing in flight: the maps agree, and every register outside them is   *)
(* free.                                                                   *)
LEMMA KeptRestored ==
  ASSUME NEW C \in [Arch -> Phys], C[0] = 0, \A r, s \in Arch : C[r] = C[s] => r = s, NEW V
  PROVE  WellKept((Phys \ {0}) \ {C[r] : r \in Arch}, C, C, V, 0, 0)
<1> DEFINE F == (Phys \ {0}) \ {C[r] : r \in Arch}
<1>1. \A i \in 0 + 1 .. 0 : FALSE
  OBVIOUS
<1>2. PlacesTyped(F, C, C, V, 0, 0)
  BY <1>1 DEF PlacesTyped
<1>3. MapsFollow(C, C, V, 0, 0)
  BY <1>1 DEF MapsFollow, Holds
<1>4. PlacesApart(F, C, V, 0, 0)
  BY <1>1 DEF PlacesApart
<1>5. PlacesAll(F, C, V, 0, 0)
  <2>1. 0 \in Arch
    BY SmallWords
  <2> QED
    BY <2>1 DEF PlacesAll
<1> QED
  BY <1>2, <1>3, <1>4, <1>5 DEF WellKept

(* The window counts its entries from its own head.                        *)
LEMMA KeptShift ==
  ASSUME NEW F, NEW C, NEW S, NEW V, NEW V2, NEW lo \in Nat, NEW n \in Nat,
         \A i \in 1 .. n : V2[i] = V[i + lo], WellKept(F, C, S, V, lo, lo + n)
  PROVE  WellKept(F, C, S, V2, 0, n)
<1>1. /\ PlacesTyped(F, C, S, V, lo, lo + n) /\ MapsFollow(C, S, V, lo, lo + n)
      /\ PlacesApart(F, C, V, lo, lo + n) /\ PlacesAll(F, C, V, lo, lo + n)
  BY DEF WellKept
<1>2. \A i \in 0 + 1 .. n : /\ i \in 1 .. n /\ i + lo \in lo + 1 .. lo + n
                            /\ V2[i] = V[i + lo] /\ (i + lo) - lo = i
  OBVIOUS
<1>3. \A j \in lo + 1 .. lo + n : j - lo \in 0 + 1 .. n /\ (j - lo) + lo = j /\ V[j] = V2[j - lo]
  <2> SUFFICES ASSUME NEW j \in lo + 1 .. lo + n
               PROVE  j - lo \in 0 + 1 .. n /\ (j - lo) + lo = j /\ V[j] = V2[j - lo]
    OBVIOUS
  <2>1. j - lo \in 1 .. n /\ (j - lo) + lo = j
    OBVIOUS
  <2> QED
    BY <2>1
<1>4. ASSUME NEW k \in 0 .. n, NEW r, NEW p, Holds(C, V, lo, lo + k, r, p)
      PROVE  Holds(C, V2, 0, k, r, p)
  <2>1. \A i \in 0 + 1 .. k : i \in 0 + 1 .. n /\ i + lo \in lo + 1 .. lo + k /\ V2[i] = V[i + lo]
    <3> SUFFICES ASSUME NEW i \in 0 + 1 .. k
                 PROVE  i \in 0 + 1 .. n /\ i + lo \in lo + 1 .. lo + k /\ V2[i] = V[i + lo]
      OBVIOUS
    <3>1. i \in 0 + 1 .. n /\ i + lo \in lo + 1 .. lo + k
      OBVIOUS
    <3> QED
      BY <3>1, <1>2
  <2>2. CASE p = C[r] /\ \A j \in lo + 1 .. lo + k : ~WritesTo(V[j], r)
    <3>1. \A j \in 0 + 1 .. k : ~WritesTo(V2[j], r)
      BY <2>1, <2>2
    <3> QED
      BY <2>2, <3>1 DEF Holds
  <2>3. ASSUME NEW i \in lo + 1 .. lo + k, WritesTo(V[i], r), p = V[i].pdst,
               \A j \in lo + 1 .. lo + k : WritesTo(V[j], r) => j <= i
        PROVE  Holds(C, V2, 0, k, r, p)
    <3>1. i \in lo + 1 .. lo + n /\ i - lo \in 0 + 1 .. k
      OBVIOUS
    <3>2. V2[i - lo] = V[i]
      BY <3>1, <1>3
    <3>3. ASSUME NEW j \in 0 + 1 .. k, WritesTo(V2[j], r) PROVE j <= i - lo
      <4>1. j + lo <= i
        BY <3>3, <2>1, <2>3
      <4> QED
        BY <4>1
    <3> QED
      BY <3>1, <3>2, <3>3, <2>3 DEF Holds
  <2>4. \/ p = C[r] /\ \A j \in lo + 1 .. lo + k : ~WritesTo(V[j], r)
        \/ \E i \in lo + 1 .. lo + k : /\ WritesTo(V[i], r) /\ p = V[i].pdst
                                       /\ \A j \in lo + 1 .. lo + k : WritesTo(V[j], r) => j <= i
    BY <1>4 DEF Holds
  <2> QED
    BY <2>2, <2>3, <2>4
<1>5. PlacesTyped(F, C, S, V2, 0, n)
  BY <1>1, <1>2 DEF PlacesTyped
<1>6. MapsFollow(C, S, V2, 0, n)
  <2>1. ASSUME NEW r \in Arch PROVE Holds(C, V2, 0, n, r, S[r])
    BY <1>1, <1>4 DEF MapsFollow
  <2>2. ASSUME NEW i \in 0 + 1 .. n, V2[i].pdst # 0
        PROVE  V2[i].rd # 0 /\ Holds(C, V2, 0, i - 1, V2[i].rd, V2[i].old_pdst)
    <3>1. i + lo \in lo + 1 .. lo + n /\ V2[i] = V[i + lo]
      BY <1>2
    <3>2. i - 1 \in 0 .. n /\ (i + lo) - 1 = lo + (i - 1)
      OBVIOUS
    <3>3. V[i + lo].rd # 0 /\ Holds(C, V, lo, lo + (i - 1), V[i + lo].rd, V[i + lo].old_pdst)
      BY <1>1, <2>2, <3>1, <3>2 DEF MapsFollow
    <3> QED
      BY <1>4, <3>1, <3>2, <3>3
  <2> QED
    BY <2>1, <2>2 DEF MapsFollow
<1>7. PlacesApart(F, C, V2, 0, n)
  <2>1. /\ C[0] = 0
        /\ \A r, s \in Arch : C[r] = C[s] => r = s
        /\ \A r \in Arch : C[r] \notin F
        /\ \A i \in lo + 1 .. lo + n : V[i].pdst # 0 =>
             /\ V[i].pdst \notin F
             /\ \A r \in Arch : C[r] # V[i].pdst
             /\ \A j \in lo + 1 .. lo + n : V[j].pdst = V[i].pdst => j = i
    BY <1>1 DEF PlacesApart
  <2>2. ASSUME NEW i \in 0 + 1 .. n, V2[i].pdst # 0
        PROVE  /\ V2[i].pdst \notin F
               /\ \A r \in Arch : C[r] # V2[i].pdst
               /\ \A j \in 0 + 1 .. n : V2[j].pdst = V2[i].pdst => j = i
    <3>1. i + lo \in lo + 1 .. lo + n /\ V2[i] = V[i + lo]
      BY <1>2
    <3>2. ASSUME NEW j \in 0 + 1 .. n, V2[j].pdst = V2[i].pdst PROVE j = i
      <4>1. j + lo \in lo + 1 .. lo + n /\ V2[j] = V[j + lo]
        BY <1>2
      <4>2. j + lo = i + lo
        BY <2>1, <2>2, <3>1, <3>2, <4>1
      <4> QED
        BY <4>2
    <3> QED
      BY <2>1, <2>2, <3>1, <3>2
  <2> QED
    BY <2>1, <2>2 DEF PlacesApart
<1>8. PlacesAll(F, C, V2, 0, n)
  <2> SUFFICES ASSUME NEW p \in Phys
               PROVE  \/ p \in F \/ \E r \in Arch : C[r] = p
                      \/ p # 0 /\ \E i \in 0 + 1 .. n : V2[i].pdst = p
    BY DEF PlacesAll
  <2>1. \/ p \in F \/ \E r \in Arch : C[r] = p
        \/ p # 0 /\ \E i \in lo + 1 .. lo + n : V[i].pdst = p
    BY <1>1 DEF PlacesAll
  <2> QED
    BY <2>1, <1>3
<1> QED
  BY <1>5, <1>6, <1>7, <1>8 DEF WellKept

(* Up to two instructions, one after the other.                            *)
MapOver(map, V, lo, n) ==
  IF n = 0 THEN map ELSE IF n = 1 THEN Mapped(map, V[lo + 1])
  ELSE Mapped(Mapped(map, V[lo + 1]), V[lo + 2])
FreedOver(F, V, lo, n) ==
  IF n = 0 THEN F ELSE IF n = 1 THEN FreedBy(F, V[lo + 1])
  ELSE FreedBy(FreedBy(F, V[lo + 1]), V[lo + 2])
TakenOver(F, V, lo, n) ==
  IF n = 0 THEN F ELSE IF n = 1 THEN F \ {V[lo + 1].pdst}
  ELSE (F \ {V[lo + 1].pdst}) \ {V[lo + 2].pdst}

(* Retiring the oldest of a stretch frees the registers they replaced and  *)
(* keeps every register accounted for.                                     *)
LEMMA KeptRetires ==
  ASSUME NEW F, NEW C, NEW S, NEW V, NEW n \in 0 .. 2, NEW hi \in Nat, n <= hi,
         WellKept(F, C, S, V, 0, hi)
  PROVE  WellKept(FreedOver(F, V, 0, n), MapOver(C, V, 0, n), S, V, n, hi)
<1>1. CASE n = 0
  BY <1>1 DEF FreedOver, MapOver
<1>2. ASSUME n # 0
      PROVE  WellKept(FreedBy(F, V[0 + 1]), Mapped(C, V[0 + 1]), S, V, 0 + 1, hi)
  BY <1>2, KeptRetire
<1>3. CASE n = 1
  BY <1>2, <1>3 DEF FreedOver, MapOver
<1>4. CASE n = 2
  <2> DEFINE F1 == FreedBy(F, V[0 + 1])
             C1 == Mapped(C, V[0 + 1])
  <2>1. WellKept(F1, C1, S, V, 1, hi) /\ hi > 1
    BY <1>2, <1>4
  <2> HIDE DEF F1, C1
  <2>2. WellKept(FreedBy(F1, V[1 + 1]), Mapped(C1, V[1 + 1]), S, V, 1 + 1, hi)
    BY <2>1, KeptRetire
  <2>3. 1 + 1 = 2 /\ 0 + 2 = 2
    OBVIOUS
  <2> QED
    BY <1>4, <2>2, <2>3 DEF FreedOver, MapOver, F1, C1
<1> QED
  BY <1>1, <1>3, <1>4

(* Dispatching at the end of a stretch takes registers from the free ones  *)
(* and keeps every register accounted for.                                 *)
LEMMA KeptGives ==
  ASSUME NEW F, NEW C, NEW S, NEW V, NEW lo \in Nat, NEW hi \in Nat, hi >= lo, NEW n \in 0 .. 2,
         WellKept(F, C, S, V, lo, hi), \A i \in 1 .. n : V[hi + i] \in meta_t,
         \A i \in 1 .. n : V[hi + i].pdst # 0 =>
           /\ V[hi + i].pdst \in TakenOver(F, V, hi, i - 1) /\ V[hi + i].rd # 0
           /\ V[hi + i].old_pdst = MapOver(S, V, hi, i - 1)[V[hi + i].rd]
  PROVE  WellKept(TakenOver(F, V, hi, n), C, MapOver(S, V, hi, n), V, lo, hi + n)
<1>1. CASE n = 0
  BY <1>1 DEF TakenOver, MapOver
<1>2. ASSUME n # 0
      PROVE  WellKept(F \ {V[hi + 1].pdst}, C, Mapped(S, V[hi + 1]), V, lo, hi + 1)
  <2>1. 1 \in 1 .. n /\ 1 - 1 = 0 /\ TakenOver(F, V, hi, 0) = F /\ MapOver(S, V, hi, 0) = S
    BY <1>2 DEF TakenOver, MapOver
  <2> QED
    BY <2>1, KeptGive
<1>3. CASE n = 1
  BY <1>2, <1>3 DEF TakenOver, MapOver
<1>4. CASE n = 2
  <2> DEFINE F1 == F \ {V[hi + 1].pdst}
             S1 == Mapped(S, V[hi + 1])
  <2>1. WellKept(F1, C, S1, V, lo, hi + 1) /\ hi + 1 \in Nat /\ hi + 1 >= lo
    BY <1>2, <1>4
  <2>2. 2 \in 1 .. n /\ 2 - 1 = 1 /\ TakenOver(F, V, hi, 1) = F1 /\ MapOver(S, V, hi, 1) = S1
    BY <1>4 DEF TakenOver, MapOver
  <2> HIDE DEF F1, S1
  <2>3. (hi + 1) + 1 = hi + 2
    OBVIOUS
  <2>4. WellKept(F1 \ {V[hi + 2].pdst}, C, Mapped(S1, V[hi + 2]), V, lo, hi + 2)
    <3> DEFINE e == hi + 1
    <3>1. e \in Nat /\ e >= lo /\ e + 1 = hi + 2 /\ WellKept(F1, C, S1, V, lo, e)
      BY <2>1, <2>3
    <3> HIDE DEF e
    <3>2. /\ V[e + 1] \in meta_t
          /\ V[e + 1].pdst # 0 => /\ V[e + 1].pdst \in F1 /\ V[e + 1].rd # 0
                                  /\ V[e + 1].old_pdst = S1[V[e + 1].rd]
      BY <2>2, <3>1
    <3>3. WellKept(F1 \ {V[e + 1].pdst}, C, Mapped(S1, V[e + 1]), V, lo, e + 1)
      BY <3>1, <3>2, KeptGive
    <3> QED
      BY <3>1, <3>3
  <2> QED
    BY <1>4, <2>4 DEF TakenOver, MapOver, F1, S1
<1> QED
  BY <1>1, <1>3, <1>4

(* What the maps and the free list do with a bundle is that.               *)
LEMMA RemappedIs ==
  ASSUME NEW map \in [Arch -> Phys], NEW metas, NEW k \in 0 .. 2, DOMAIN metas = 1 .. k,
         \A i \in 1 .. k : metas[i] \in meta_t /\ (metas[i].pdst # 0 <=> metas[i].rd # 0)
  PROVE  Remapped(map, metas) = MapOver(map, metas, 0, k)
<1> DEFINE writers(r) == {i \in DOMAIN metas : metas[i].rd = r}
           last(r) == CHOOSE i \in writers(r) : \A j \in writers(r) : j <= i
<1>1. \A i \in 1 .. k : WritesTo(metas[i], metas[i].rd) <=> metas[i].rd # 0
  BY DEF WritesTo
<1>2. ASSUME NEW r \in Arch, NEW i \in writers(r), \A j \in writers(r) : j <= i
      PROVE  last(r) = i
  <2>1. last(r) \in writers(r) /\ \A j \in writers(r) : j <= last(r)
    BY <1>2
  <2>2. last(r) <= i /\ i <= last(r)
    BY <2>1, <1>2
  <2>3. last(r) \in 1 .. k /\ i \in 1 .. k
    BY <2>1, <1>2
  <2> HIDE DEF last, writers
  <2> QED
    BY <2>2, <2>3
<1>3. Remapped(map, metas) = [r \in Arch |-> IF r = 0 \/ writers(r) = {} THEN map[r]
                                            ELSE metas[last(r)].pdst]
  BY DEF Remapped
<1> HIDE DEF last
<1>4. CASE k = 0
  <2>1. \A r \in Arch : writers(r) = {}
    BY <1>4
  <2>2. Remapped(map, metas) = [r \in Arch |-> map[r]]
    BY <1>3, <2>1
  <2> QED
    BY <1>4, <2>2 DEF MapOver
<1>5. CASE k = 1
  <2> DEFINE m1 == metas[1]
  <2>1. m1 \in meta_t /\ (m1.pdst # 0 <=> m1.rd # 0)
    BY <1>5
  <2>2. /\ Mapped(map, m1) \in [Arch -> Phys]
        /\ \A r \in Arch : Mapped(map, m1)[r] = IF WritesTo(m1, r) THEN m1.pdst ELSE map[r]
    BY <2>1, MappedAt
  <2>3. ASSUME NEW r \in Arch
        PROVE  Mapped(map, m1)[r] = IF r = 0 \/ writers(r) = {} THEN map[r] ELSE metas[last(r)].pdst
    <3>1. CASE r = 0
      BY <2>1, <2>2, <3>1 DEF WritesTo
    <3>2. CASE r # 0 /\ m1.rd # r
      <4>1. writers(r) = {}
        BY <1>5, <3>2
      <4> QED
        BY <2>2, <3>2, <4>1 DEF WritesTo
    <3>3. CASE r # 0 /\ m1.rd = r
      <4>1. 1 \in writers(r) /\ \A j \in writers(r) : j <= 1
        BY <1>5, <3>3
      <4>2. last(r) = 1 /\ writers(r) # {}
        BY <1>2, <4>1
      <4> QED
        BY <2>1, <2>2, <3>3, <4>2 DEF WritesTo
    <3> QED
      BY <3>1, <3>2, <3>3
  <2> HIDE DEF writers
  <2>4. Mapped(map, m1) = [r \in Arch |-> IF r = 0 \/ writers(r) = {} THEN map[r]
                                          ELSE metas[last(r)].pdst]
    BY <2>2, <2>3
  <2>5. MapOver(map, metas, 0, k) = Mapped(map, m1)
    BY <1>5 DEF MapOver
  <2> QED
    BY <1>3, <2>4, <2>5 DEF writers
<1>6. CASE k = 2
  <2> DEFINE m1 == metas[1]
             m2 == metas[2]
             map1 == Mapped(map, m1)
             map2 == Mapped(map1, m2)
  <2>1. /\ m1 \in meta_t /\ (m1.pdst # 0 <=> m1.rd # 0)
        /\ m2 \in meta_t /\ (m2.pdst # 0 <=> m2.rd # 0)
    BY <1>6
  <2>2. /\ map1 \in [Arch -> Phys]
        /\ \A r \in Arch : map1[r] = IF WritesTo(m1, r) THEN m1.pdst ELSE map[r]
    BY <2>1, MappedAt
  <2> HIDE DEF map1
  <2>3. /\ map2 \in [Arch -> Phys]
        /\ \A r \in Arch : map2[r] = IF WritesTo(m2, r) THEN m2.pdst ELSE map1[r]
    BY <2>1, <2>2, MappedAt
  <2> HIDE DEF map2
  <2>4. ASSUME NEW r \in Arch
        PROVE  map2[r] = IF r = 0 \/ writers(r) = {} THEN map[r] ELSE metas[last(r)].pdst
    <3>1. CASE r = 0
      BY <2>1, <2>2, <2>3, <3>1 DEF WritesTo
    <3>2. CASE r # 0 /\ m1.rd # r /\ m2.rd # r
      <4>1. writers(r) = {}
        BY <1>6, <3>2
      <4> QED
        BY <2>2, <2>3, <3>2, <4>1 DEF WritesTo
    <3>3. CASE r # 0 /\ m2.rd = r
      <4>1. 2 \in writers(r) /\ \A j \in writers(r) : j <= 2
        BY <1>6, <3>3
      <4>2. last(r) = 2 /\ writers(r) # {}
        BY <1>2, <4>1
      <4> QED
        BY <2>1, <2>3, <3>3, <4>2 DEF WritesTo
    <3>4. CASE r # 0 /\ m1.rd = r /\ m2.rd # r
      <4>1. 1 \in writers(r) /\ \A j \in writers(r) : j <= 1
        BY <1>6, <3>4
      <4>2. last(r) = 1 /\ writers(r) # {}
        BY <1>2, <4>1
      <4> QED
        BY <2>1, <2>2, <2>3, <3>4, <4>2 DEF WritesTo
    <3> QED
      BY <3>1, <3>2, <3>3, <3>4
  <2> HIDE DEF writers
  <2>5. map2 = [r \in Arch |-> IF r = 0 \/ writers(r) = {} THEN map[r] ELSE metas[last(r)].pdst]
    BY <2>3, <2>4
  <2>6. MapOver(map, metas, 0, k) = map2
    BY <1>6 DEF MapOver, map1, map2
  <2> QED
    BY <1>3, <2>5, <2>6 DEF writers
<1> QED
  BY <1>4, <1>5, <1>6

(* Releasing a bundle at once is releasing its instructions one after the  *)
(* other.                                                                  *)
LEMMA ReleasedIs ==
  ASSUME NEW F, NEW metas, NEW k \in 0 .. 2, DOMAIN metas = 1 .. k,
         \A i \in 1 .. k : metas[i] \in meta_t /\ (metas[i].pdst # 0 <=> metas[i].rd # 0),
         0 \notin FreedOver(F, metas, 0, k)
  PROVE  F \cup Released(metas) = FreedOver(F, metas, 0, k)
<1>1. Released(metas) = {metas[i].old_pdst : i \in {j \in 1 .. k : metas[j].rd # 0}} \ {0}
  BY DEF Released
<1>2. CASE k = 0
  BY <1>1, <1>2 DEF FreedOver
<1>3. CASE k = 1
  <2>1. Released(metas) = (IF metas[1].rd # 0 THEN {metas[1].old_pdst} ELSE {}) \ {0}
    BY <1>1, <1>3
  <2>2. 1 \in 1 .. k
    BY <1>3
  <2> QED
    BY <1>3, <2>1, <2>2 DEF FreedOver, FreedBy
<1>4. CASE k = 2
  <2>1. 1 \in 1 .. k /\ 2 \in 1 .. k /\ \A j \in 1 .. k : j = 1 \/ j = 2
    BY <1>4
  <2>2. Released(metas) = ((IF metas[1].rd # 0 THEN {metas[1].old_pdst} ELSE {})
                             \cup (IF metas[2].rd # 0 THEN {metas[2].old_pdst} ELSE {})) \ {0}
    BY <1>1, <2>1
  <2>3. FreedOver(F, metas, 0, k) = FreedBy(FreedBy(F, metas[1]), metas[2])
    BY <1>4 DEF FreedOver
  <2> QED
    BY <2>1, <2>2, <2>3 DEF FreedBy
<1> QED
  BY <1>2, <1>3, <1>4

(* Taking registers for a bundle at once is taking them one after the      *)
(* other.                                                                  *)
LEMMA TakenIs ==
  ASSUME NEW F, 0 \notin F, NEW metas, NEW k \in 0 .. 2, DOMAIN metas = 1 .. k
  PROVE  F \ ({metas[i].pdst : i \in DOMAIN metas} \ {0}) = TakenOver(F, metas, 0, k)
<1>1. CASE k = 0
  BY <1>1 DEF TakenOver
<1>2. CASE k = 1
  <2>1. {metas[i].pdst : i \in DOMAIN metas} = {metas[1].pdst}
    BY <1>2
  <2> QED
    BY <1>2, <2>1 DEF TakenOver
<1>3. CASE k = 2
  <2>1. {metas[i].pdst : i \in DOMAIN metas} = {metas[1].pdst, metas[2].pdst}
    BY <1>3
  <2> QED
    BY <1>3, <2>1 DEF TakenOver
<1> QED
  BY <1>1, <1>2, <1>3

(* Out of order, the entries that were given a register are those that     *)
(* write one, the serial instructions excepted (core_pipeline.sv:150-155). *)
WritersGiven ==
  OUT_OF_ORDER => \A i \in 1 .. count :
    Window[i].meta.pdst # 0 <=> Window[i].meta.rd # 0 /\ ~Window[i].serial

(* A dispatched instruction that writes a register is given a free one and *)
(* remembers the one it replaces, in the order of the bundle.              *)
LEMMA NewGiven ==
  ASSUME OUT_OF_ORDER, TypesInv, NEW w, NEW d, NEW chosen, EdgeHolds(w, d, chosen), NEW i \in 1 .. d.n
  PROVE  /\ NewEntry(d, i).meta.pdst # 0 <=> Allocates(id_q[i])
         /\ Allocates(id_q[i]) <=> id_q[i].rd # 0 /\ ~id_q[i].serial
         /\ Allocates(id_q[i]) => /\ NewEntry(d, i).meta.pdst = GivenTo(i - 1)
                                  /\ NewEntry(d, i).meta.pdst \in Offered
                                  /\ NewEntry(d, i).meta.old_pdst = MapBefore(i)[id_q[i].rd]
         /\ i <= d.enqueued <=> ~id_q[i].terminal /\ ~id_q[i].serial
<1>1. DispatchFacts(w, d) /\ QueuesBounded /\ RenameTypes /\ RetireTypes
  BY DEF EdgeHolds, TypesInv, TypeOK
<1>2. OUT_OF_ORDER /\ Allocates(id_q[i]) => Destination(i) \in Offered
  BY <1>1, PreparedTypes
<1>3. /\ NewEntry(d, i).meta.pdst = Destination(i) /\ NewEntry(d, i).meta.old_pdst = Replaced(i)
      /\ id_q[i] \in decode_t
  BY NewEntryIs
<1>4. id_q[i].terminal => id_q[i].rd = 0
  BY <1>3 DEF decode_t
<1>5. Allocates(id_q[i]) <=> id_q[i].rd # 0 /\ ~id_q[i].serial
  BY <1>4 DEF Allocates, EndsBundle
<1>6. i <= d.enqueued <=> ~id_q[i].terminal /\ ~id_q[i].serial
  BY <1>1 DEF DispatchFacts
<1> QED
  BY <1>2, <1>3, <1>5, <1>6 DEF Destination, Replaced, Offered

(* An edge keeps registers to those entries that write one.                *)
LEMMA WritersGivenEdge ==
  ASSUME WindowInv, WritersGiven, NEW w, NEW d, NEW chosen, EdgeHolds(w, d, chosen), ~w.backend_flush
  PROVE  WritersGiven'
<1> SUFFICES ASSUME OUT_OF_ORDER, NEW i \in 1 .. count'
             PROVE  Window'[i].meta.pdst # 0 <=> Window'[i].meta.rd # 0 /\ ~Window'[i].serial
  BY DEF WritersGiven
<1>1. TypesInv /\ WindowFull
  BY DEF WindowInv
<1>2. /\ i <= count - w.retiring =>
           i + w.retiring \in 1 .. count /\ Kept(Window'[i], Window[i + w.retiring], w.completions)
      /\ i > count - w.retiring =>
           /\ i - (count - w.retiring) \in 1 .. d.n
           /\ Window'[i] = NewEntry(d, i - (count - w.retiring))
  BY <1>1, WindowAfter
<1>3. CASE i <= count - w.retiring
  <2>1. Window[i + w.retiring] \in rob_entry_t
    BY <1>1, <1>2, <1>3, WindowIs
  <2>2. w.completions \in SUBSET result_t
    BY <1>1, CompletionsTypes DEF EdgeHolds, TypesInv, TypeOK
  <2>3. Window'[i].meta = Window[i + w.retiring].meta /\ Window'[i].serial = Window[i + w.retiring].serial
    BY <1>2, <1>3, <2>1, <2>2, KeptIs
  <2> QED
    BY <1>2, <1>3, <2>3 DEF WritersGiven
<1>4. CASE i > count - w.retiring
  <2> DEFINE j == i - (count - w.retiring)
  <2>1. j \in 1 .. d.n /\ Window'[i] = NewEntry(d, j)
    BY <1>2, <1>4
  <2> HIDE DEF j
  <2>2. /\ NewEntry(d, j).meta.pdst # 0 <=> Allocates(id_q[j])
        /\ Allocates(id_q[j]) <=> id_q[j].rd # 0 /\ ~id_q[j].serial
    BY <1>1, <2>1, NewGiven
  <2>3. NewEntry(d, j).meta.rd = id_q[j].rd /\ NewEntry(d, j).serial = id_q[j].serial
    BY <1>1, <2>1, NewEntryIs
  <2> QED
    BY <2>1, <2>2, <2>3
<1>5. count - w.retiring \in Int /\ i \in Int
  BY <1>1, Moved
<1> QED
  BY <1>3, <1>4, <1>5

(* The window and the bundle after it, as one list of what the entries     *)
(* carry.                                                                  *)
Metas == [i \in 1 .. count |-> Window[i].meta]
Queued(d) == [i \in 1 .. count + d.n |-> IF i <= count THEN Window[i].meta ELSE d.prepared[i - count].meta]

(* The window after an edge is the one before it, with the dispatched      *)
(* behind and the retired cut off.                                         *)
LEMMA QueuedIs ==
  ASSUME WindowInv, NEW w, NEW d, NEW chosen, EdgeHolds(w, d, chosen), ~w.backend_flush
  PROVE  /\ \A i \in 1 .. count : Queued(d)[i] = Window[i].meta /\ Queued(d)[i] \in meta_t
         /\ \A i \in 1 .. d.n : /\ Queued(d)[count + i] = NewEntry(d, i).meta
                                /\ Queued(d)[count + i] \in meta_t
         /\ \A i \in 1 .. count' : Metas'[i] = Queued(d)[i + w.retiring]
         /\ \A i \in 1 .. w.retiring : i \in 1 .. count
         /\ count' = (count + d.n) - w.retiring
<1>1. TypesInv /\ WindowFull
  BY DEF WindowInv
<1>2. /\ count \in Nat /\ d.n \in 0 .. 2 /\ w.retiring \in 0 .. 2 /\ w.retiring <= count
      /\ count' = count + d.n - w.retiring
  BY <1>1, Moved
<1>3. \A i \in 1 .. count : /\ i \in 1 .. count + d.n /\ i <= count
                            /\ Window[i] \in rob_entry_t /\ Window[i].meta \in meta_t
  <2>1. \A i \in 1 .. count : Window[i] \in rob_entry_t
    BY <1>1, WindowIs
  <2> QED
    BY <1>2, <2>1 DEF rob_entry_t
<1>4. \A i \in 1 .. count : Queued(d)[i] = Window[i].meta
  BY <1>3 DEF Queued
<1>5. ASSUME NEW i \in 1 .. d.n
      PROVE  Queued(d)[count + i] = NewEntry(d, i).meta /\ NewEntry(d, i).meta \in meta_t
  <2>1. count + i \in 1 .. count + d.n /\ ~(count + i <= count) /\ (count + i) - count = i
    BY <1>2
  <2>2. d.prepared[i].meta = NewEntry(d, i).meta /\ NewEntry(d, i) \in rob_entry_t
    BY <1>1, NewEntryIs
  <2> QED
    BY <2>1, <2>2 DEF Queued, rob_entry_t
<1>6. ASSUME NEW i \in 1 .. count' PROVE Metas'[i] = Queued(d)[i + w.retiring]
  <2>1. Metas'[i] = Window'[i].meta
    BY DEF Metas
  <2>2. /\ i <= count - w.retiring =>
             i + w.retiring \in 1 .. count /\ Kept(Window'[i], Window[i + w.retiring], w.completions)
        /\ i > count - w.retiring =>
             /\ i - (count - w.retiring) \in 1 .. d.n
             /\ Window'[i] = NewEntry(d, i - (count - w.retiring))
    BY <1>1, WindowAfter
  <2>3. CASE i <= count - w.retiring
    <3>1. w.completions \in SUBSET result_t
      BY <1>1, CompletionsTypes DEF EdgeHolds, TypesInv, TypeOK
    <3>2. Window'[i].meta = Window[i + w.retiring].meta
      BY <1>3, <2>2, <2>3, <3>1, KeptIs
    <3> QED
      BY <1>4, <2>1, <2>2, <2>3, <3>2
  <2>4. CASE i > count - w.retiring
    <3> DEFINE j == i - (count - w.retiring)
    <3>1. j \in 1 .. d.n /\ Window'[i] = NewEntry(d, j)
      BY <2>2, <2>4
    <3>2. count + j = i + w.retiring
      BY <1>2
    <3> HIDE DEF j
    <3>3. Queued(d)[count + j] = NewEntry(d, j).meta
      BY <1>5, <3>1
    <3> QED
      BY <2>1, <3>1, <3>2, <3>3
  <2> QED
    BY <1>2, <2>3, <2>4
<1> QED
  BY <1>2, <1>3, <1>4, <1>5, <1>6

(* The k instructions of U are the first of V's n from lo on, and the rest *)
(* of them write nothing.                                                  *)
WritersAre(U, k, V, lo, n) ==
  /\ lo \in Nat /\ n \in 0 .. 2 /\ k \in 0 .. n
  /\ \A i \in 1 .. k : U[i] = V[lo + i]
  /\ \A i \in 1 .. n : i > k => V[lo + i].pdst = 0

(* Instructions that write nothing change neither map nor free list.       *)
LEMMA OverWriters ==
  ASSUME NEW map, NEW F, NEW V, NEW U, NEW lo, NEW n, NEW k, WritersAre(U, k, V, lo, n)
  PROVE  /\ MapOver(map, V, lo, n) = MapOver(map, U, 0, k)
         /\ FreedOver(F, V, lo, n) = FreedOver(F, U, 0, k)
         /\ 0 \notin F => TakenOver(F, V, lo, n) = TakenOver(F, U, 0, k)
<1>0. /\ lo \in Nat /\ n \in 0 .. 2 /\ k \in 0 .. n
      /\ \A i \in 1 .. k : U[i] = V[lo + i]
      /\ \A i \in 1 .. n : i > k => V[lo + i].pdst = 0
  BY DEF WritersAre
<1>1. CASE n = 0
  BY <1>0, <1>1 DEF MapOver, FreedOver, TakenOver
<1>2. CASE n = 1 /\ k = 0
  <2>1. V[lo + 1].pdst = 0
    BY <1>0, <1>2
  <2> QED
    BY <1>2, <2>1 DEF MapOver, FreedOver, TakenOver, Mapped, FreedBy
<1>3. CASE n = 1 /\ k = 1
  <2>1. U[0 + 1] = V[lo + 1]
    BY <1>0, <1>3
  <2> QED
    BY <1>3, <2>1 DEF MapOver, FreedOver, TakenOver
<1>4. CASE n = 2 /\ k = 0
  <2>1. V[lo + 1].pdst = 0 /\ V[lo + 2].pdst = 0
    BY <1>0, <1>4
  <2> QED
    BY <1>4, <2>1 DEF MapOver, FreedOver, TakenOver, Mapped, FreedBy
<1>5. CASE n = 2 /\ k = 1
  <2>1. U[0 + 1] = V[lo + 1] /\ V[lo + 2].pdst = 0
    BY <1>0, <1>5
  <2> QED
    BY <1>5, <2>1 DEF MapOver, FreedOver, TakenOver, Mapped, FreedBy
<1>6. CASE n = 2 /\ k = 2
  <2>1. U[0 + 1] = V[lo + 1] /\ U[0 + 2] = V[lo + 2]
    BY <1>0, <1>6
  <2> QED
    BY <1>6, <2>1 DEF MapOver, FreedOver, TakenOver
<1> QED
  BY <1>0, <1>1, <1>2, <1>3, <1>4, <1>5, <1>6

(* What leaves is the front of the window, a serial instruction excepted.  *)
LEMMA LeavingIs ==
  ASSUME OUT_OF_ORDER, WindowInv, WritersGiven, NEW w, WiresHold(w), NEW V,
         \A i \in 1 .. count : V[i] = Window[i].meta /\ V[i] \in meta_t
  PROVE  \E k \in 0 .. w.retiring :
           /\ DOMAIN Leaving(w) = 1 .. k /\ \A i \in 1 .. k : Leaving(w)[i] = V[0 + i]
           /\ \A i \in 1 .. k : Leaving(w)[i] \in meta_t /\
                                (Leaving(w)[i].pdst # 0 <=> Leaving(w)[i].rd # 0)
           /\ \A i \in 1 .. w.retiring : i > k => V[0 + i].pdst = 0
<1>1. w.retiring \in 0 .. 2
  BY RetiringIs DEF WindowInv, TypesInv, TypeOK
<1>2. \A i \in 1 .. w.retiring :
        /\ i \in 1 .. count /\ Window[i] = EntryAt(i - 1)
        /\ w.sys_retire <=> Window[1].serial
        /\ Window[i].serial => w.retiring = 1 /\ i = 1
  BY Retires
<1>3. CASE w.sys_retire
  <2>1. w.retiring # 0
    BY <1>3 DEF WiresHold
  <2>2. 1 \in 1 .. w.retiring /\ Window[1].serial /\ w.retiring = 1
    BY <1>1, <1>2, <1>3, <2>1
  <2>3. V[0 + 1].pdst = 0
    BY <1>2, <2>2 DEF WritersGiven
  <2>4. DOMAIN Leaving(w) = 1 .. 0
    BY <1>3 DEF Leaving
  <2> QED
    BY <2>2, <2>3, <2>4
<1>4. CASE ~w.sys_retire
  <2>1. Leaving(w) = [i \in 1 .. w.retiring |-> EntryAt(i - 1).meta]
    BY <1>4 DEF Leaving
  <2>2. ASSUME NEW i \in 1 .. w.retiring
        PROVE  Leaving(w)[i] = V[0 + i] /\ V[i] \in meta_t /\ (V[i].pdst # 0 <=> V[i].rd # 0)
    <3>1. i \in 1 .. count /\ Window[i] = EntryAt(i - 1) /\ ~Window[i].serial
      BY <1>2, <1>4, <2>2
    <3> QED
      BY <2>1, <3>1 DEF WritersGiven
  <2>3. \A i \in 1 .. w.retiring : 0 + i = i
    BY <1>1
  <2>4. w.retiring \in 0 .. w.retiring /\ \A i \in 1 .. w.retiring : ~(i > w.retiring)
    BY <1>1
  <2>5. DOMAIN Leaving(w) = 1 .. w.retiring /\ \A i \in 1 .. w.retiring : Leaving(w)[i] = V[0 + i]
    BY <2>1, <2>2
  <2>6. \A i \in 1 .. w.retiring : /\ Leaving(w)[i] \in meta_t
                                   /\ Leaving(w)[i].pdst # 0 <=> Leaving(w)[i].rd # 0
    BY <2>2, <2>3
  <2> QED
    BY <2>4, <2>5, <2>6
<1> QED
  BY <1>3, <1>4

(* What is dispatched is the bundle, a terminal or serial instruction      *)
(* excepted.                                                               *)
LEMMA ArrivingIs ==
  ASSUME OUT_OF_ORDER, WindowInv, NEW w, NEW d, NEW chosen, EdgeHolds(w, d, chosen), ~w.backend_flush
  PROVE  /\ d.enqueued \in 0 .. d.n
         /\ DOMAIN Writers(d) = 1 .. d.enqueued
         /\ \A i \in 1 .. d.enqueued :
              /\ Writers(d)[i] = Queued(d)[count + i] /\ Writers(d)[i] \in meta_t
              /\ Writers(d)[i].pdst # 0 <=> Writers(d)[i].rd # 0
         /\ \A i \in 1 .. d.n : i > d.enqueued => Queued(d)[count + i].pdst = 0
<1>1. /\ TypesInv /\ WiresHold(w) /\ DispatchFacts(w, d)
      /\ QueuesBounded /\ RenameTypes /\ RetireTypes
  BY DEF WindowInv, EdgeHolds, TypesInv, TypeOK
<1>2. d.enqueued \in 0 .. d.n /\ d.n \in 0 .. 2
  BY <1>1 DEF DispatchFacts
<1>3. /\ DOMAIN Writers(d) = 1 .. d.enqueued /\ 1 .. d.enqueued \subseteq 1 .. d.n
      /\ \A i \in 1 .. d.enqueued : Writers(d)[i] = d.prepared[i].meta /\ Writers(d)[i] \in meta_t
  BY <1>1, BundleTypes
<1>4. \A i \in 1 .. d.n : Queued(d)[count + i] = NewEntry(d, i).meta
  BY QueuedIs
<1>5. \A i \in 1 .. d.n : /\ NewEntry(d, i).meta.pdst # 0 <=> Allocates(id_q[i])
                          /\ Allocates(id_q[i]) <=> id_q[i].rd # 0 /\ ~id_q[i].serial
                          /\ i <= d.enqueued <=> ~id_q[i].terminal /\ ~id_q[i].serial
  BY <1>1, NewGiven
<1>6. \A i \in 1 .. d.n : /\ d.prepared[i].meta = NewEntry(d, i).meta
                          /\ NewEntry(d, i).meta.rd = id_q[i].rd /\ id_q[i] \in decode_t
  BY <1>1, NewEntryIs
<1>7. ASSUME NEW i \in 1 .. d.n, i > d.enqueued PROVE Queued(d)[count + i].pdst = 0
  <2>1. id_q[i].terminal \/ id_q[i].serial
    BY <1>2, <1>5, <1>7
  <2>2. ~Allocates(id_q[i])
    BY <2>1 DEF Allocates, EndsBundle
  <2> QED
    BY <1>4, <1>5, <2>2
<1>8. ASSUME NEW i \in 1 .. d.enqueued
      PROVE  /\ Writers(d)[i] = Queued(d)[count + i]
             /\ Writers(d)[i].pdst # 0 <=> Writers(d)[i].rd # 0
  <2>1. i \in 1 .. d.n /\ i <= d.enqueued
    BY <1>2
  <2> QED
    BY <1>3, <1>4, <1>5, <1>6, <2>1
<1> QED
  BY <1>2, <1>3, <1>7, <1>8

RegistersKept == Renaming => WellKept(free_q, committed_map, speculative_map, Metas, 0, count)
RenameInv == WindowInv /\ WritersGiven /\ RegistersKept

(* A core that goes on after an edge did not end before it.                *)
LEMMA RenamingBefore ==
  ASSUME NEW w, NEW d, NEW chosen, EdgeHolds(w, d, chosen), Renaming'
  PROVE  OUT_OF_ORDER /\ Renaming /\ ~w.finishing
<1>1. SystemEdge(w, d) /\ WiresHold(w)
  BY DEF EdgeHolds
<1>2. /\ halted' = IF w.finishing THEN EntryAt(0).fault = FAULT_NONE ELSE halted
      /\ fault' = IF w.finishing THEN EntryAt(0).fault # FAULT_NONE ELSE fault
  <2> DEFINE hd == [p \in Lane |-> EntryAt(p)]
  <2>1. hd[0] = EntryAt(0)
    BY DEF Lane
  <2> HIDE DEF hd
  <2>2. /\ halted' = IF w.finishing THEN hd[0].fault = FAULT_NONE ELSE halted
        /\ fault' = IF w.finishing THEN hd[0].fault # FAULT_NONE ELSE fault
    BY <1>1 DEF SystemEdge, RetireTick, hd
  <2> QED
    BY <2>1, <2>2
<1>3. ~halted' /\ ~fault' /\ OUT_OF_ORDER
  BY DEF Renaming
<1> HIDE DEF EntryAt
<1> QED
  BY <1>2, <1>3 DEF Renaming

(* An edge without a flush keeps every physical register free, committed   *)
(* or given, exactly once (control/rename_control.sv).                     *)
LEMMA RegistersKeptEdge ==
  ASSUME RenameInv, NEW w, NEW d, NEW chosen, EdgeHolds(w, d, chosen), ~w.backend_flush
  PROVE  RegistersKept'
<1> SUFFICES ASSUME Renaming'
             PROVE  WellKept(free_q', committed_map', speculative_map', Metas', 0, count')
  BY DEF RegistersKept
<1> DEFINE F == free_q
           C == committed_map
           S == speculative_map
           V == Queued(d)
           n == w.retiring
           F1 == FreedOver(F, V, 0, n)
           C1 == MapOver(C, V, 0, n)
           F2 == TakenOver(F1, V, count, d.n)
           S2 == MapOver(S, V, count, d.n)
<1>1. OUT_OF_ORDER /\ WindowInv /\ TypesInv /\ WritersGiven /\ WellKept(F, C, S, Metas, 0, count)
  BY RenamingBefore DEF RenameInv, RegistersKept, WindowInv
<1>2. /\ count \in Nat /\ n \in 0 .. 2 /\ n <= count /\ d.n \in 0 .. 2
  BY <1>1, Moved
<1>3. /\ \A i \in 1 .. count : V[i] = Window[i].meta /\ V[i] \in meta_t
      /\ \A i \in 1 .. d.n : V[count + i] = NewEntry(d, i).meta /\ V[count + i] \in meta_t
      /\ \A i \in 1 .. count' : Metas'[i] = V[i + n]
      /\ count' = (count + d.n) - n
  BY <1>1, QueuedIs
<1>4. WiresHold(w) /\ DispatchFacts(w, d) /\ BackSteps(w, d, chosen)
      /\ RenameTypes /\ QueuesBounded
  BY <1>1 DEF EdgeHolds, TypesInv, TypeOK
<1>5. /\ C \in [Arch -> Phys] /\ S \in [Arch -> Phys] /\ F \subseteq Phys
  BY <1>4 DEF RenameTypes
<1>6. WellKept(F, C, S, V, 0, count)
  <2>1. \A i \in 1 .. count : V[i] = Metas[i + 0]
    BY <1>2, <1>3 DEF Metas
  <2>2. 0 + count = count
    BY <1>2
  <2> HIDE DEF V, F, C, S
  <2> QED
    BY <1>1, <1>2, <2>1, <2>2, KeptShift
<1>7. WellKept(F1, C1, S, V, n, count)
  <2> HIDE DEF V, F, C, S, n
  <2> QED
    BY <1>2, <1>6, KeptRetires
<1>8. 0 \notin F1
  BY <1>7 DEF WellKept, PlacesTyped
<1>9. \A i \in 1 .. d.n : V[count + i].pdst # 0 =>
        /\ V[count + i].pdst \in TakenOver(F1, V, count, i - 1) /\ V[count + i].rd # 0
        /\ V[count + i].old_pdst = MapOver(S, V, count, i - 1)[V[count + i].rd]
  <2>1. \A i \in 1 .. d.n :
          /\ V[count + i].pdst # 0 <=> Allocates(id_q[i])
          /\ Allocates(id_q[i]) => /\ id_q[i].rd # 0 /\ V[count + i].pdst = GivenTo(i - 1)
                                   /\ V[count + i].pdst \in Offered
                                   /\ V[count + i].old_pdst = MapBefore(i)[id_q[i].rd]
          /\ V[count + i].rd = id_q[i].rd
          /\ dispatch_data[i] = id_q[i]
    <3> SUFFICES ASSUME NEW i \in 1 .. d.n
                 PROVE  /\ V[count + i].pdst # 0 <=> Allocates(id_q[i])
                        /\ Allocates(id_q[i]) => /\ id_q[i].rd # 0 /\ V[count + i].pdst = GivenTo(i - 1)
                                                 /\ V[count + i].pdst \in Offered
                                                 /\ V[count + i].old_pdst = MapBefore(i)[id_q[i].rd]
                        /\ V[count + i].rd = id_q[i].rd
                        /\ dispatch_data[i] = id_q[i]
      OBVIOUS
    <3>1. V[count + i] = NewEntry(d, i).meta
      BY <1>3
    <3>2. /\ NewEntry(d, i).meta.pdst # 0 <=> Allocates(id_q[i])
          /\ Allocates(id_q[i]) <=> id_q[i].rd # 0 /\ ~id_q[i].serial
          /\ Allocates(id_q[i]) => /\ NewEntry(d, i).meta.pdst = GivenTo(i - 1)
                                   /\ NewEntry(d, i).meta.pdst \in Offered
                                   /\ NewEntry(d, i).meta.old_pdst = MapBefore(i)[id_q[i].rd]
      BY <1>1, NewGiven
    <3>3. NewEntry(d, i).meta.rd = id_q[i].rd
      BY <1>1, NewEntryIs
    <3>4. dispatch_data[i] = id_q[i]
      BY <1>4 DEF DispatchFacts
    <3> HIDE DEF V
    <3> QED
      BY <3>1, <3>2, <3>3, <3>4
  <2>2. F \subseteq F1
    <3> HIDE DEF V, F, n
    <3> QED
      BY DEF FreedOver, FreedBy
  <2>3. Offered \subseteq F /\ 0 \notin Offered
    BY DEF Offered
  <2> HIDE DEF V, F, F1, S
  <2>4. ASSUME 1 \in 1 .. d.n, V[count + 1].pdst # 0
        PROVE  /\ V[count + 1].pdst \in TakenOver(F1, V, count, 1 - 1) /\ V[count + 1].rd # 0
               /\ V[count + 1].old_pdst = MapOver(S, V, count, 1 - 1)[V[count + 1].rd]
    <3>1. TakenOver(F1, V, count, 1 - 1) = F1 /\ MapOver(S, V, count, 1 - 1) = S
      BY DEF TakenOver, MapOver
    <3>2. MapBefore(1) = S
      BY DEF MapBefore, S
    <3> QED
      BY <2>1, <2>2, <2>3, <2>4, <3>1, <3>2
  <2>5. ASSUME 2 \in 1 .. d.n, V[count + 2].pdst # 0
        PROVE  /\ V[count + 2].pdst \in TakenOver(F1, V, count, 2 - 1) /\ V[count + 2].rd # 0
               /\ V[count + 2].old_pdst = MapOver(S, V, count, 2 - 1)[V[count + 2].rd]
    <3>1. TakenOver(F1, V, count, 2 - 1) = F1 \ {V[count + 1].pdst}
          /\ MapOver(S, V, count, 2 - 1) = Mapped(S, V[count + 1])
      BY DEF TakenOver, MapOver
    <3>2. 1 \in 1 .. d.n /\ d.n = 2 /\ 1 - 1 = 0 /\ 2 - 1 = 1
      BY <1>2, <2>5
    <3>3. V[count + 1].pdst # V[count + 2].pdst
      <4>1. CASE V[count + 1].pdst = 0
        BY <2>5, <4>1
      <4>2. CASE V[count + 1].pdst # 0
        <5> DEFINE blocked == \/ terminal_enqueued \/ halted \/ fault \/ w.backend_flush
                              \/ w.branch.valid \/ w.branch_fault
        <5>1. offer_count(blocked) \in 0 .. 2
          BY <1>4, OfferIs
        <5>2. d.n = allow_count(offer_count(blocked))
          BY <1>4 DEF DispatchFacts
        <5> HIDE DEF blocked
        <5>3. Allocates(dispatch_data[1]) /\ Allocates(dispatch_data[2])
          BY <2>1, <2>5, <3>2, <4>2
        <5>4. GivenTo(0) # GivenTo(1)
          BY <1>1, <1>5, <3>2, <5>1, <5>2, <5>3, GivenIs DEF F
        <5> QED
          BY <2>1, <2>5, <3>2, <4>2, <5>4
      <4> QED
        BY <4>1, <4>2
    <3>4. MapBefore(2) = Mapped(S, V[count + 1])
      <4>1. Allocates(dispatch_data[1]) <=> V[count + 1].pdst # 0
        BY <2>1, <3>2
      <4>2. Allocates(dispatch_data[1]) => /\ V[count + 1].pdst = GivenTo(0)
                                           /\ V[count + 1].rd = dispatch_data[1].rd
        BY <2>1, <3>2
      <4> QED
        BY <4>1, <4>2 DEF MapBefore, Mapped, S
    <3> QED
      BY <2>1, <2>2, <2>3, <2>5, <3>1, <3>3, <3>4
  <2>6. \A i \in 1 .. d.n : i = 1 \/ i = 2
    BY <1>2
  <2> QED
    BY <2>4, <2>5, <2>6
<1>10. WellKept(F2, C1, S2, V, n, count + d.n)
  <2>1. count >= n /\ n \in Nat /\ \A i \in 1 .. d.n : V[count + i] \in meta_t
    BY <1>2, <1>3
  <2> HIDE DEF V, F1, C1, S, n
  <2> QED
    BY <1>2, <1>7, <1>9, <2>1, KeptGives
<1>11. committed_map' = C1 /\ speculative_map' = S2 /\ free_q' = F2
  <2>1. ~w.restore
    <3>1. ~w.recovered.valid /\ ~(w.trap.valid \/ w.mret_commit)
          /\ w.restore = recovers(w.recovered.valid, w.trap.valid \/ w.mret_commit)
      BY <1>4 DEF WiresHold
    <3> QED
      BY <3>1 DEF recovers
  <2>2. RenameTick(w.restore, Writers(d), w.completions, Leaving(w))
    BY <1>1, <1>4 DEF BackSteps
  <2> DEFINE A == Writers(d)
             L == Leaving(w)
  <2>3. /\ speculative_map' = Remapped(S, A) /\ committed_map' = Remapped(C, L)
        /\ free_q' = (F \cup Released(L)) \ ({A[i].pdst : i \in DOMAIN A} \ {0})
    BY <2>1, <2>2 DEF RenameTick
  <2>4. PICK k \in 0 .. n :
           /\ DOMAIN L = 1 .. k /\ \A i \in 1 .. k : L[i] = V[0 + i]
           /\ \A i \in 1 .. k : L[i] \in meta_t /\ (L[i].pdst # 0 <=> L[i].rd # 0)
           /\ \A i \in 1 .. n : i > k => V[0 + i].pdst = 0
    <3> HIDE DEF V
    <3> QED
      BY <1>1, <1>3, <1>4, LeavingIs
  <2>5. /\ d.enqueued \in 0 .. d.n
        /\ DOMAIN A = 1 .. d.enqueued
        /\ \A i \in 1 .. d.enqueued : /\ A[i] = V[count + i] /\ A[i] \in meta_t
                                      /\ A[i].pdst # 0 <=> A[i].rd # 0
        /\ \A i \in 1 .. d.n : i > d.enqueued => V[count + i].pdst = 0
    BY <1>1, ArrivingIs
  <2> HIDE DEF V, F, C, S, n, A, L
  <2>6. k \in 0 .. 2 /\ d.enqueued \in 0 .. 2
    BY <1>2, <2>4, <2>5
  <2>7. /\ MapOver(C, V, 0, n) = MapOver(C, L, 0, k)
        /\ FreedOver(F, V, 0, n) = FreedOver(F, L, 0, k)
    <3>1. WritersAre(L, k, V, 0, n)
      BY <1>2, <2>4 DEF WritersAre
    <3> QED
      BY <3>1, OverWriters
  <2>8. /\ MapOver(S, V, count, d.n) = MapOver(S, A, 0, d.enqueued)
        /\ TakenOver(F1, V, count, d.n) = TakenOver(F1, A, 0, d.enqueued)
    <3> HIDE DEF F1
    <3>1. WritersAre(A, d.enqueued, V, count, d.n)
      BY <1>2, <2>5 DEF WritersAre
    <3>2. /\ MapOver(S, V, count, d.n) = MapOver(S, A, 0, d.enqueued)
          /\ 0 \notin F1 => TakenOver(F1, V, count, d.n) = TakenOver(F1, A, 0, d.enqueued)
      BY <3>1, OverWriters
    <3> QED
      BY <1>8, <3>2
  <2>9. Remapped(C, L) = MapOver(C, L, 0, k)
    BY <1>5, <2>4, <2>6, RemappedIs
  <2>10. Remapped(S, A) = MapOver(S, A, 0, d.enqueued)
    BY <1>5, <2>5, <2>6, RemappedIs
  <2>11. F \cup Released(L) = F1
    <3>1. 0 \notin FreedOver(F, L, 0, k)
      BY <1>8, <2>7
    <3> QED
      BY <2>4, <2>6, <2>7, <3>1, ReleasedIs
  <2>12. F1 \ ({A[i].pdst : i \in DOMAIN A} \ {0}) = TakenOver(F1, A, 0, d.enqueued)
    <3> HIDE DEF F1
    <3> DEFINE e == d.enqueued
    <3>1. e \in 0 .. 2 /\ DOMAIN A = 1 .. e
      BY <2>5, <2>6
    <3> HIDE DEF e
    <3>2. F1 \ ({A[i].pdst : i \in DOMAIN A} \ {0}) = TakenOver(F1, A, 0, e)
      BY <1>8, <3>1, TakenIs
    <3> QED
      BY <3>2 DEF e
  <2> HIDE DEF F1
  <2> QED
    BY <2>3, <2>7, <2>8, <2>9, <2>10, <2>11, <2>12
<1>12. WellKept(F2, C1, S2, Metas', 0, count')
  <2>1. /\ n + count' = count + d.n /\ count' \in Nat /\ n \in Nat
        /\ \A i \in 1 .. count' : Metas'[i] = V[i + n]
    BY <1>2, <1>3
  <2> HIDE DEF F2, C1, S2, V, n
  <2>2. WellKept(F2, C1, S2, V, n, n + count')
    BY <1>10, <2>1
  <2> DEFINE M == Metas'
             c == count'
  <2>3. /\ c \in Nat /\ \A i \in 1 .. c : M[i] = V[i + n]
        /\ WellKept(F2, C1, S2, V, n, n + c)
    BY <2>1, <2>2
  <2> HIDE DEF M, c
  <2>4. WellKept(F2, C1, S2, M, 0, c)
    BY <2>1, <2>3, KeptShift
  <2> QED
    BY <2>4 DEF M, c
<1> QED
  BY <1>11, <1>12

(* Recovery: the committed map again, and all the rest is free.            *)
LEMMA RegistersKeptFlush ==
  ASSUME RenameInv, NEW w, NEW d, NEW chosen, EdgeHolds(w, d, chosen), w.backend_flush
  PROVE  RegistersKept'
<1> SUFFICES ASSUME Renaming'
             PROVE  WellKept(free_q', committed_map', speculative_map', Metas', 0, count')
  BY DEF RegistersKept
<1>1. OUT_OF_ORDER /\ ~w.finishing /\ TypesInv /\ WiresHold(w) /\ BackSteps(w, d, chosen)
      /\ WellKept(free_q, committed_map, speculative_map, Metas, 0, count)
  BY RenamingBefore DEF RenameInv, RegistersKept, WindowInv, EdgeHolds
<1>2. w.restore
  <2>1. /\ w.backend_flush = (w.finishing \/ (w.trap.valid \/ w.mret_commit) \/ w.recovered.valid)
        /\ w.restore = recovers(w.recovered.valid, w.trap.valid \/ w.mret_commit)
    BY <1>1 DEF WiresHold
  <2> QED
    BY <1>1, <2>1 DEF recovers
<1>3. /\ speculative_map' = committed_map /\ committed_map' = committed_map
      /\ free_q' = (Phys \ {0}) \ {committed_map[r] : r \in Arch}
  <2>1. RenameTick(w.restore, Writers(d), w.completions, Leaving(w))
    BY <1>1 DEF BackSteps
  <2> QED
    BY <1>2, <2>1 DEF RenameTick, RestoredMap, RestoredFree
<1>4. /\ committed_map \in [Arch -> Phys] /\ committed_map[0] = 0
      /\ \A r, s \in Arch : committed_map[r] = committed_map[s] => r = s
  BY <1>1 DEF WellKept, PlacesTyped, PlacesApart
<1>5. count' = 0
  BY ClearedFlush DEF Cleared
<1> DEFINE M == Metas'
<1> HIDE DEF M
<1>6. WellKept((Phys \ {0}) \ {committed_map[r] : r \in Arch}, committed_map, committed_map, M, 0, 0)
  BY <1>4, KeptRestored
<1> QED
  BY <1>3, <1>5, <1>6 DEF M

(* Of the reset values every register is free or committed.                *)
LEMMA FirstRegisters ==
  ASSUME NEW V
  PROVE  WellKept(Phys \ Arch, [r \in Arch |-> r], [r \in Arch |-> r], V, 0, 0)
<1> DEFINE C == [r \in Arch |-> r]
<1>1. C \in [Arch -> Phys] /\ 0 \in Arch /\ \A r \in Arch : C[r] = r
  BY SmallWords
<1>2. Phys \ Arch = (Phys \ {0}) \ {C[r] : r \in Arch}
  BY <1>1
<1> HIDE DEF C
<1>3. WellKept((Phys \ {0}) \ {C[r] : r \in Arch}, C, C, V, 0, 0)
  BY <1>1, KeptRestored
<1> QED
  BY <1>2, <1>3 DEF C

(* The initial states satisfy the invariant of renaming.                   *)
LEMMA RenameInvInit == Init => RenameInv
<1> SUFFICES ASSUME Init PROVE RenameInv
  OBVIOUS
<1>1. WindowInv /\ count = 0
  BY WindowInvInit DEF Init, CompletionInit
<1>2. WritersGiven
  BY <1>1 DEF WritersGiven
<1>3. /\ speculative_map = [r \in Arch |-> r] /\ committed_map = [r \in Arch |-> r]
      /\ free_q = Phys \ Arch
  BY DEF Init, RenameInit
<1>4. WellKept(free_q, committed_map, speculative_map, Metas, 0, count)
  <2> DEFINE M == Metas
  <2> HIDE DEF M
  <2>1. WellKept(Phys \ Arch, [r \in Arch |-> r], [r \in Arch |-> r], M, 0, 0)
    BY FirstRegisters
  <2> QED
    BY <1>1, <1>3, <2>1 DEF M
<1> QED
  BY <1>1, <1>2, <1>4 DEF RenameInv, RegistersKept

(* A reset satisfies it.                                                   *)
LEMMA RenameReseted ==
  ASSUME ResetEdge
  PROVE  WritersGiven' /\ RegistersKept'
<1>1. count' = 0
  BY ClearedReset DEF Cleared
<1>2. /\ speculative_map' = [r \in Arch |-> r] /\ committed_map' = [r \in Arch |-> r]
      /\ free_q' = Phys \ Arch
  BY DEF ResetEdge, RenameReset
<1>3. WritersGiven'
  BY <1>1 DEF WritersGiven
<1>4. WellKept(free_q', committed_map', speculative_map', Metas', 0, count')
  <2> DEFINE M == Metas'
  <2> HIDE DEF M
  <2>1. WellKept(Phys \ Arch, [r \in Arch |-> r], [r \in Arch |-> r], M, 0, 0)
    BY FirstRegisters
  <2> QED
    BY <1>1, <1>2, <2>1 DEF M
<1> QED
  BY <1>3, <1>4 DEF RegistersKept

(* Every step preserves the invariant of renaming.                         *)
LEMMA RenameInvStep == RenameInv /\ [Next]_vars => RenameInv'
<1> SUFFICES ASSUME RenameInv, [Next]_vars PROVE RenameInv'
  OBVIOUS
<1>1. WindowInv /\ TypesInv /\ WindowInv'
  BY TypesStep, WindowInvStep DEF RenameInv, WindowInv
<1>2. CASE ClockEdge
  <2>1. QueuesBounded /\ id_q \in Seq(decode_t) /\ iq \in [Slot -> issue_t \cup {Empty}]
    BY <1>1 DEF TypesInv, TypeOK, FrontTypes, ExecutionTypes
  <2>2. PICK w, d, chosen : EdgeHolds(w, d, chosen)
    BY <1>2, <2>1, EdgeIs
  <2>3. CASE w.backend_flush
    <3>1. count' = 0
      BY <2>2, <2>3, ClearedFlush DEF Cleared
    <3>2. WritersGiven'
      BY <3>1 DEF WritersGiven
    <3> QED
      BY <1>1, <2>2, <2>3, <3>2, RegistersKeptFlush DEF RenameInv
  <2>4. CASE ~w.backend_flush
    BY <1>1, <2>2, <2>4, RegistersKeptEdge, WritersGivenEdge DEF RenameInv
  <2> QED
    BY <2>3, <2>4
<1>3. CASE ResetEdge
  BY <1>1, <1>3, RenameReseted DEF RenameInv
<1>4. CASE UNCHANGED vars
  <2>1. UNCHANGED <<rob, head, count, free_q, committed_map, speculative_map, halted, fault>>
    BY <1>4 DEF vars, robVars, renameVars, retireVars
  <2>2. Window' = Window
    BY <2>1 DEF Window
  <2> QED
    BY <1>1, <2>1, <2>2 DEF RenameInv, WritersGiven, RegistersKept, Renaming, Metas
<1> QED
  BY <1>2, <1>3, <1>4 DEF Next

(* The youngest of some entries of the window.                             *)
LEMMA LastOfIs ==
  ASSUME NEW n \in Nat, NEW S \in SUBSET (1 .. n), NEW i \in S, \A j \in S : j <= i
  PROVE  LastOf(S) = i
<1>1. LastOf(S) \in S /\ \A j \in S : j <= LastOf(S)
  BY DEF LastOf
<1>2. \A x \in S : x \in Int
  OBVIOUS
<1>3. LastOf(S) <= i /\ i <= LastOf(S) /\ LastOf(S) \in Int /\ i \in Int
  BY <1>1, <1>2
<1> QED
  BY <1>3

(* A register's place in the map is that of its last writer in the window, *)
(* or the committed one.                                                   *)
LEMMA HoldsLast ==
  ASSUME WindowInv, NEW k \in 0 .. count, NEW r, NEW p, Holds(committed_map, Metas, 0, k, r, p)
  PROVE  LET earlier == {j \in WritersOf(r) : j <= k}
         IN p = IF earlier = {} THEN committed_map[r] ELSE Window[LastOf(earlier)].meta.pdst
<1> DEFINE earlier == {j \in WritersOf(r) : j <= k}
           last == IF earlier = {} THEN committed_map[r] ELSE Window[LastOf(earlier)].meta.pdst
<1>1. DOMAIN Window = 1 .. count /\ count \in Nat
  BY WindowIs DEF WindowInv
<1>2. \A j \in 0 + 1 .. k : j \in 1 .. count /\ Metas[j] = Window[j].meta
  BY <1>1 DEF Metas
<1>3. ASSUME NEW j PROVE j \in earlier <=> j \in 0 + 1 .. k /\ WritesTo(Metas[j], r)
  <2>1. j \in earlier => j \in 1 .. count /\ j <= k
    BY <1>1 DEF WritersOf
  <2>2. j \in earlier => j \in 0 + 1 .. k
    BY <2>1
  <2>3. j \in 0 + 1 .. k => j \in DOMAIN Window /\ j <= k
    BY <1>1, <1>2
  <2> QED
    BY <1>2, <2>2, <2>3 DEF WritersOf, Writes, WritesTo
<1>4. ASSUME p = committed_map[r], \A j \in 0 + 1 .. k : ~WritesTo(Metas[j], r)
      PROVE  p = last
  <2>1. earlier = {}
    BY <1>3, <1>4
  <2> QED
    BY <1>4, <2>1
<1>5. ASSUME NEW i \in 0 + 1 .. k, WritesTo(Metas[i], r), p = Metas[i].pdst,
             \A j \in 0 + 1 .. k : WritesTo(Metas[j], r) => j <= i
      PROVE  p = last
  <2>1. i \in earlier /\ \A j \in earlier : j <= i
    BY <1>3, <1>5
  <2>2. earlier \in SUBSET (1 .. count)
    BY <1>2, <1>3
  <2> HIDE DEF earlier
  <2>3. LastOf(earlier) = i
    BY <1>1, <2>1, <2>2, LastOfIs
  <2> QED
    BY <1>2, <1>5, <2>1, <2>3
<1>6. \/ p = committed_map[r] /\ \A j \in 0 + 1 .. k : ~WritesTo(Metas[j], r)
      \/ \E i \in 0 + 1 .. k : /\ WritesTo(Metas[i], r) /\ p = Metas[i].pdst
                               /\ \A j \in 0 + 1 .. k : WritesTo(Metas[j], r) => j <= i
  BY DEF Holds
<1> HIDE DEF last
<1>7. p = last
  BY <1>4, <1>5, <1>6
<1> QED
  BY <1>7 DEF last

(* The speculative map is the replay of the window over the committed one. *)
LEMMA RenameReplays == RenameInv => MapsReplay
<1> SUFFICES ASSUME RenameInv, Renaming
             PROVE  /\ \A r \in Arch : speculative_map[r] =
                         IF WritersOf(r) = {} THEN committed_map[r]
                         ELSE Window[LastOf(WritersOf(r))].meta.pdst
                    /\ \A i \in DOMAIN Window : Writes(Window[i]) =>
                         LET r == Window[i].meta.rd
                             earlier == {j \in WritersOf(r) : j < i}
                         IN Window[i].meta.old_pdst =
                              IF earlier = {} THEN committed_map[r]
                              ELSE Window[LastOf(earlier)].meta.pdst
  BY DEF MapsReplay
<1>1. WindowInv /\ MapsFollow(committed_map, speculative_map, Metas, 0, count)
  BY DEF RenameInv, RegistersKept, WellKept
<1>2. DOMAIN Window = 1 .. count /\ count \in Nat
  BY <1>1, WindowIs DEF WindowInv
<1>3. ASSUME NEW r \in Arch
      PROVE  speculative_map[r] = IF WritersOf(r) = {} THEN committed_map[r]
                                  ELSE Window[LastOf(WritersOf(r))].meta.pdst
  <2>1. Holds(committed_map, Metas, 0, count, r, speculative_map[r]) /\ count \in 0 .. count
    BY <1>1, <1>2 DEF MapsFollow
  <2>2. {j \in WritersOf(r) : j <= count} = WritersOf(r)
    BY <1>2 DEF WritersOf
  <2> QED
    BY <1>1, <2>1, <2>2, HoldsLast
<1>4. ASSUME NEW i \in DOMAIN Window, Writes(Window[i])
      PROVE  LET r == Window[i].meta.rd
                 earlier == {j \in WritersOf(r) : j < i}
             IN Window[i].meta.old_pdst = IF earlier = {} THEN committed_map[r]
                                          ELSE Window[LastOf(earlier)].meta.pdst
  <2> DEFINE r == Window[i].meta.rd
             earlier == {j \in WritersOf(r) : j < i}
  <2>1. i \in 0 + 1 .. count /\ Metas[i] = Window[i].meta /\ Metas[i].pdst # 0 /\ i - 1 \in 0 .. count
    BY <1>2, <1>4 DEF Metas, Writes
  <2>2. Holds(committed_map, Metas, 0, i - 1, r, Window[i].meta.old_pdst)
    BY <1>1, <2>1 DEF MapsFollow
  <2>3. {j \in WritersOf(r) : j <= i - 1} = earlier
    BY <1>2 DEF WritersOf
  <2> QED
    BY <1>1, <2>1, <2>2, <2>3, HoldsLast
<1> QED
  BY <1>3, <1>4

(* Every instruction in flight remembers the register it replaced, and the *)
(* speculative map is the committed one after all of them                  *)
(* (control/rename_control.sv:29-33).                                      *)
THEOREM CoreMaps == Spec => []MapsReplay
  BY RenameInvInit, RenameInvStep, RenameReplays, PTL DEF Spec

-----------------------------------------------------------------------------
(* Counting the registers.                                                 *)
LEMMA ImageCount ==
  ASSUME NEW f, IsFiniteSet(DOMAIN f), f \in [DOMAIN f -> {f[a] : a \in DOMAIN f}],
         \A a, b \in DOMAIN f : f[a] = f[b] => a = b
  PROVE  /\ IsFiniteSet({f[a] : a \in DOMAIN f})
         /\ Cardinality({f[a] : a \in DOMAIN f}) = Cardinality(DOMAIN f)
<1> DEFINE S == DOMAIN f
           T == {f[a] : a \in S}
<1>1. f \in Surjection(S, T) /\ f \in Injection(S, T)
  BY DEF Surjection, Injection, IsInjective
<1> QED
  BY <1>1, FS_Surjection

(* Counting the registers: those free, committed and given are all there   *)
(* are.                                                                    *)
LEMMA RenameConserves == RenameInv => RegistersConserved
<1> SUFFICES ASSUME RenameInv, Renaming PROVE RegistersConserved
  BY DEF RegistersConserved
<1> DEFINE J == {j \in DOMAIN Window : Writes(Window[j])}
           committed == {committed_map[r] : r \in Arch \ {0}}
           given == {Window[i].meta.pdst : i \in J}
           C == [r \in Arch \ {0} |-> committed_map[r]]
           G == [i \in J |-> Window[i].meta.pdst]
<1>1. /\ WindowInv /\ PlacesTyped(free_q, committed_map, speculative_map, Metas, 0, count)
      /\ PlacesApart(free_q, committed_map, Metas, 0, count)
      /\ PlacesAll(free_q, committed_map, Metas, 0, count)
  BY DEF RenameInv, RegistersKept, WellKept
<1>2. /\ DOMAIN Window = 1 .. count /\ count \in Nat
      /\ \A i \in 1 .. count : i \in 0 + 1 .. count /\ Metas[i] = Window[i].meta
  BY <1>1, WindowIs DEF WindowInv, Metas
<1>3. J = {j \in 1 .. count : Window[j].meta.pdst # 0}
  BY <1>2 DEF Writes
<1>4. 0 \in Arch /\ Arch \subseteq Phys /\ PhysRegs \in Nat /\ PhysRegs >= 1 /\ ArchRegs \in Nat
  BY SmallWords, Tiny5Assumption
<1>5. free_q \subseteq Phys \ {0} /\ committed_map \in [Arch -> Phys]
      /\ \A i \in 1 .. count : Window[i].meta.pdst \in Phys
  BY <1>1, <1>2 DEF PlacesTyped, meta_t
<1>6. /\ committed_map[0] = 0
      /\ \A r, s \in Arch : committed_map[r] = committed_map[s] => r = s
      /\ \A r \in Arch : committed_map[r] \notin free_q
  BY <1>1 DEF PlacesApart
<1>7. \A i \in J : /\ Window[i].meta.pdst \notin free_q
                   /\ \A r \in Arch : committed_map[r] # Window[i].meta.pdst
                   /\ \A j \in J : Window[j].meta.pdst = Window[i].meta.pdst => j = i
  BY <1>1, <1>2, <1>3 DEF PlacesApart
<1>8. (free_q \cup committed) \cup given = Phys \ {0}
  <2>1. ASSUME NEW p \in Phys, p # 0 PROVE p \in (free_q \cup committed) \cup given
    <3>1. \/ p \in free_q \/ \E r \in Arch : committed_map[r] = p
          \/ \E i \in 0 + 1 .. count : Metas[i].pdst = p
      BY <1>1 DEF PlacesAll
    <3> QED
      BY <1>2, <1>3, <1>6, <2>1, <3>1
  <2>2. committed \subseteq Phys \ {0}
    BY <1>4, <1>5, <1>6
  <2>3. given \subseteq Phys \ {0}
    BY <1>3, <1>5
  <2> QED
    BY <1>5, <2>1, <2>2, <2>3
<1>9. IsFiniteSet(Phys \ {0}) /\ Cardinality(Phys \ {0}) = PhysRegs - 1
  <2>1. IsFiniteSet(Phys) /\ Cardinality(Phys) = PhysRegs
    <3>1. 0 \in Int /\ PhysRegs - 1 \in Int /\ ~(0 > PhysRegs - 1) /\ (PhysRegs - 1) - 0 + 1 = PhysRegs
      BY <1>4
    <3> QED
      BY <3>1, FS_Interval DEF Phys
  <2>2. 0 \in Phys
    BY <1>4
  <2> QED
    BY <2>1, <2>2, FS_RemoveElement
<1>10. /\ IsFiniteSet(committed) /\ Cardinality(committed) = Cardinality(Arch \ {0})
  <2>1. IsFiniteSet(Arch \ {0})
    <3>1. IsFiniteSet(Arch)
      BY <1>4, FS_Interval DEF Arch
    <3> QED
      BY <3>1, FS_RemoveElement
  <2>2. DOMAIN C = Arch \ {0} /\ {C[a] : a \in DOMAIN C} = committed
        /\ C \in [DOMAIN C -> {C[a] : a \in DOMAIN C}]
    OBVIOUS
  <2>3. \A a, b \in DOMAIN C : C[a] = C[b] => a = b
    BY <1>6, <2>2
  <2> HIDE DEF C, committed
  <2> QED
    BY <2>1, <2>2, <2>3, ImageCount
<1>11. /\ IsFiniteSet(given) /\ Cardinality(given) = Cardinality(J)
  <2>1. IsFiniteSet(J)
    <3>1. IsFiniteSet(1 .. count) /\ J \in SUBSET (1 .. count)
      BY <1>2, <1>3, FS_Interval
    <3> QED
      BY <3>1, FS_Subset
  <2>2. DOMAIN G = J /\ {G[a] : a \in DOMAIN G} = given
        /\ G \in [DOMAIN G -> {G[a] : a \in DOMAIN G}]
    OBVIOUS
  <2>3. \A a, b \in DOMAIN G : G[a] = G[b] => a = b
    BY <1>7, <2>2
  <2> HIDE DEF G, given
  <2> QED
    BY <2>1, <2>2, <2>3, ImageCount
<1>12. free_q \cap committed = {} /\ (free_q \cup committed) \cap given = {}
  BY <1>4, <1>6, <1>7
<1>13. IsFiniteSet(free_q)
  BY <1>5, <1>9, FS_Subset
<1> HIDE DEF committed, given, J
<1>14. Cardinality(free_q) + Cardinality(Arch \ {0}) + Cardinality(J) = PhysRegs - 1
  <2>1. Cardinality({}) = 0
    BY FS_EmptySet
  <2>2. /\ IsFiniteSet(free_q \cup committed)
        /\ Cardinality(free_q \cup committed) = Cardinality(free_q) + Cardinality(committed) - 0
    BY <1>10, <1>12, <1>13, <2>1, FS_Union
  <2>3. Cardinality((free_q \cup committed) \cup given)
          = Cardinality(free_q \cup committed) + Cardinality(given) - 0
    BY <1>11, <1>12, <2>1, <2>2, FS_Union
  <2>4. /\ Cardinality(free_q) \in Nat /\ Cardinality(committed) \in Nat /\ Cardinality(given) \in Nat
    BY <1>10, <1>11, <1>13, FS_CardinalityType
  <2> DEFINE f == Cardinality(free_q)
             c == Cardinality(committed)
             g == Cardinality(given)
             all == Cardinality(Phys \ {0})
             both == Cardinality(free_q \cup committed)
  <2>5. all = PhysRegs - 1 /\ all = both + g - 0 /\ both = f + c - 0 /\ PhysRegs \in Nat
        /\ f \in Nat /\ c \in Nat /\ g \in Nat
    BY <1>4, <1>8, <1>9, <2>2, <2>3, <2>4
  <2> HIDE DEF f, c, g, all, both
  <2>6. f + c + g = PhysRegs - 1
    BY <2>5
  <2> QED
    BY <1>10, <1>11, <2>6 DEF f, c, g
<1> QED
  BY <1>8, <1>14 DEF RegistersConserved, committed, given, J

(* No physical register is lost or given twice: apart from register 0,     *)
(* each is free, committed, or given to one instruction in flight, through *)
(* retirement and recovery (control/free_list.sv:24-43,                    *)
(* control/rename_control.sv:29-33).                                       *)
THEOREM CoreRegisters == Spec => []RegistersConserved
  BY RenameInvInit, RenameInvStep, RenameConserves, PTL DEF Spec

-----------------------------------------------------------------------------
(* A result is that of one entry of the window, which has none yet.        *)
LEMMA ResultOf ==
  ASSUME PlaceInv, NEW w, NEW d, NEW chosen, EdgeHolds(w, d, chosen), ~w.backend_flush,
         NEW r \in w.completions
  PROVE  LET i == Distance(r.meta.tag) + 1
         IN /\ i \in 1 .. count /\ i > w.retiring /\ Window[i].meta = r.meta /\ ~Window[i].done
            /\ \A j \in 1 .. count : Window[j].meta.tag = r.meta.tag => j = i
<1>1. WiresHold(w) /\ TypesInv /\ WindowFull /\ WindowInv
  BY DEF EdgeHolds, PlaceInv, WindowInv
<1>2. PICK p \in Lane : r = wb[p] /\ <<"wb", p, r.meta>> \in InFlight
  BY <1>1, CompletionAt
<1> DEFINE b == <<"wb", p, r.meta>>
           t == r.meta.tag
<1>3. b \in InFlight /\ b[3] = r.meta /\ b[3].tag = t
  BY <1>2
<1> HIDE DEF b
<1>4. t \in RobTag /\ rob[t] # Empty /\ ~rob[t].done /\ rob[t].meta = r.meta
  BY <1>3, PlaceKept
<1>5. Distance(t) + 1 \in 1 .. count /\ Window[Distance(t) + 1] = rob[t]
  BY <1>1, <1>4, WindowIs
<1>6. ASSUME NEW j \in 1 .. count, Window[j].meta.tag = t PROVE j = Distance(t) + 1
  <2>1. Distance(Window[j].meta.tag) = j - 1
    BY <1>1, WindowIs
  <2>2. Distance(t) = j - 1
    BY <1>6, <2>1
  <2> HIDE DEF t
  <2> QED
    BY <2>2
<1>7. Distance(t) + 1 > w.retiring
  <2> DEFINE i == Distance(t) + 1
  <2>1. i \in 1 .. count /\ ~Window[i].done
    BY <1>4, <1>5
  <2> HIDE DEF i
  <2>2. w.retiring \in 0 .. 2
    BY <1>1, RetiringIs DEF TypesInv, TypeOK
  <2>3. i \in 1 .. w.retiring => Window[i].done
    BY <1>1, Retires
  <2>4. i > w.retiring
    BY <2>1, <2>2, <2>3
  <2> QED
    BY <2>4 DEF i
<1> QED
  BY <1>4, <1>5, <1>6, <1>7

(* An entry that has no result after the edge had none before; one that    *)
(* had none stays, and has one only if it is delivered on this edge.       *)
LEMMA UndoneStays ==
  ASSUME PlaceInv, NEW w, NEW d, NEW chosen, EdgeHolds(w, d, chosen), ~w.backend_flush,
         NEW i \in 1 .. count, ~Window[i].done,
         ~ \E r \in w.completions : r.meta = Window[i].meta
  PROVE  LET k == i - w.retiring
         IN k \in 1 .. count' /\ Window'[k].meta = Window[i].meta /\ ~Window'[k].done
<1> DEFINE k == i - w.retiring
<1>1. WiresHold(w) /\ TypesInv /\ WindowFull /\ WindowInv
  BY DEF EdgeHolds, PlaceInv, WindowInv
<1>2. /\ w.retiring \in 0 .. 2 /\ d.n \in 0 .. 2 /\ count \in Nat
      /\ count' = count + d.n - w.retiring
  BY <1>1, Moved
<1>3. i \in 1 .. w.retiring => Window[i].done
  BY <1>1, Retires
<1>4. k \in 1 .. count' /\ k <= count - w.retiring /\ k + w.retiring = i
  BY <1>2, <1>3
<1> HIDE DEF k
<1>5. Kept(Window'[k], Window[i], w.completions)
  BY <1>1, <1>4, WindowAfter
<1>6. Window[i] \in rob_entry_t /\ w.completions \in SUBSET result_t
  BY <1>1, WindowIs, CompletionsTypes DEF TypesInv, TypeOK
<1>7. ~ \E r \in w.completions : r.meta.tag = Window[i].meta.tag
  <2> SUFFICES ASSUME NEW r \in w.completions, r.meta.tag = Window[i].meta.tag PROVE FALSE
    OBVIOUS
  <2> DEFINE m == Distance(r.meta.tag) + 1
  <2>1. /\ m \in 1 .. count /\ Window[m].meta = r.meta
        /\ \A j \in 1 .. count : Window[j].meta.tag = r.meta.tag => j = m
    BY ResultOf
  <2> HIDE DEF m
  <2>2. i = m
    BY <2>1
  <2> QED
    BY <2>1, <2>2
<1>8. Window'[k].meta = Window[i].meta /\ (Window'[k].done => Window[i].done)
  BY <1>5, <1>6, <1>7, KeptIs
<1> QED
  BY <1>4, <1>8 DEF k

(* An entry without a result after an edge had none before, and none was   *)
(* written under its tag.                                                  *)
LEMMA UndoneWas ==
  ASSUME PlaceInv, NEW w, NEW d, NEW chosen, EdgeHolds(w, d, chosen), ~w.backend_flush,
         NEW k \in 1 .. count', k <= count - w.retiring, ~Window'[k].done
  PROVE  LET i == k + w.retiring
         IN /\ i \in 1 .. count /\ Window'[k].meta = Window[i].meta /\ ~Window[i].done
            /\ ~ \E r \in w.completions : r.meta.tag = Window[i].meta.tag
<1> DEFINE i == k + w.retiring
<1>1. TypesInv /\ WindowFull /\ WindowInv /\ WiresHold(w)
  BY DEF PlaceInv, WindowInv, EdgeHolds
<1>2. i \in 1 .. count /\ Kept(Window'[k], Window[i], w.completions)
  BY <1>1, WindowAfter
<1> HIDE DEF i
<1>3. Window[i] \in rob_entry_t /\ w.completions \in SUBSET result_t
  BY <1>1, <1>2, WindowIs, CompletionsTypes DEF TypesInv, TypeOK
<1>4. /\ Window'[k].meta = Window[i].meta
      /\ Window[i].done => Window'[k].done
      /\ (\E r \in w.completions : r.meta.tag = Window[i].meta.tag) => Window'[k].done
  BY <1>2, <1>3, KeptIs
<1> QED
  BY <1>2, <1>4 DEF i

-----------------------------------------------------------------------------
(* Where the bundle is in the window after the edge.                       *)
LEMMA NewAt ==
  ASSUME WindowInv, NEW w, NEW d, NEW chosen, EdgeHolds(w, d, chosen), ~w.backend_flush,
         NEW j \in 1 .. d.n
  PROVE  LET k == (count - w.retiring) + j
         IN k \in 1 .. count' /\ Window'[k] = NewEntry(d, j)
<1> DEFINE k == (count - w.retiring) + j
<1>1. TypesInv /\ WindowFull
  BY DEF WindowInv
<1>2. /\ w.retiring \in 0 .. 2 /\ w.retiring <= count /\ d.n \in 0 .. 2 /\ count \in Nat
      /\ count' = count + d.n - w.retiring
  BY <1>1, Moved
<1>3. k \in 1 .. count' /\ k > count - w.retiring /\ k - (count - w.retiring) = j
  BY <1>2
<1> HIDE DEF k
<1>4. Window'[k] = NewEntry(d, k - (count - w.retiring))
  BY <1>1, <1>3, WindowAfter
<1> QED
  BY <1>3, <1>4 DEF k

(* A physical register whose instruction has no result yet.                *)
Unwritten(p) == \E i \in 1 .. count : Window[i].meta.pdst = p /\ p # 0 /\ ~Window[i].done
ReadyInv == Renaming => \A p \in Phys : ~ready_q[p] <=> Unwritten(p)
WakeBase == PlaceInv /\ RenameInv /\ ReadyInv

(* Two entries in flight have different registers.                         *)
LEMMA OneOwner ==
  ASSUME RenameInv, Renaming, NEW i \in 1 .. count, NEW j \in 1 .. count,
         Window[i].meta.pdst # 0, Window[j].meta.pdst = Window[i].meta.pdst
  PROVE  j = i
<1>1. PlacesApart(free_q, committed_map, Metas, 0, count)
  BY DEF RenameInv, RegistersKept, WellKept
<1>2. count \in Nat
  BY WindowIs DEF RenameInv, WindowInv
<1>3. /\ i \in 0 + 1 .. count /\ j \in 0 + 1 .. count
      /\ Metas[i] = Window[i].meta /\ Metas[j] = Window[j].meta
  BY <1>2 DEF Metas
<1> QED
  BY <1>1, <1>3 DEF PlacesApart

(* An edge without a flush keeps a register's ready bit clear exactly      *)
(* while its writer has no result, also when it is given again on the      *)
(* edge.                                                                   *)
LEMMA ReadyEdge ==
  ASSUME WakeBase, NEW w, NEW d, NEW chosen, EdgeHolds(w, d, chosen), ~w.backend_flush,
         Renaming', NEW p \in Phys
  PROVE  ~ready_q'[p] <=> Unwritten(p)'
<1> DEFINE allocated == {Writers(d)[i].pdst : i \in DOMAIN Writers(d)} \ {0}
           written == {r.meta.pdst : r \in {c \in w.completions : c.meta.rd # 0}}
<1>1. /\ OUT_OF_ORDER /\ Renaming /\ PlaceInv /\ RenameInv /\ WindowInv /\ TypesInv
      /\ WritersGiven /\ RenameTypes /\ ExecutionTypes
  BY RenamingBefore DEF WakeBase, PlaceInv, RenameInv, WindowInv, TypesInv, TypeOK
<1>2. ~ready_q[p] <=> Unwritten(p)
  BY <1>1 DEF WakeBase, ReadyInv
<1>3. ready_q'[p] <=> p \notin allocated /\ (ready_q[p] \/ p \in written)
  <2>1. ~w.restore
    BY <1>1 DEF EdgeHolds, WiresHold, recovers
  <2>2. RenameTick(w.restore, Writers(d), w.completions, Leaving(w))
    BY <1>1 DEF EdgeHolds, BackSteps
  <2>3. ready_q' = ReadyAfter(allocated, written)
    BY <2>1, <2>2 DEF RenameTick
  <2> HIDE DEF allocated, written
  <2> QED
    BY <2>3 DEF ReadyAfter
<1>4. ASSUME NEW j \in 1 .. d.n
      PROVE  NewEntry(d, j).meta.pdst = p /\ p # 0 /\ ~NewEntry(d, j).done
               <=> j \in DOMAIN Writers(d) /\ Writers(d)[j].pdst = p /\ p # 0
  <2>1. /\ DOMAIN Writers(d) = 1 .. d.enqueued /\ d.enqueued \in 0 .. d.n /\ d.n \in 0 .. 2
        /\ \A i \in 1 .. d.enqueued : Writers(d)[i] = Queued(d)[count + i]
    <3>1. d.n \in 0 .. 2
      BY <1>1, Moved
    <3>2. /\ DOMAIN Writers(d) = 1 .. d.enqueued /\ d.enqueued \in 0 .. d.n
          /\ \A i \in 1 .. d.enqueued : Writers(d)[i] = Queued(d)[count + i]
      BY <1>1, ArrivingIs
    <3> QED
      BY <3>1, <3>2
  <2>2. Queued(d)[count + j] = NewEntry(d, j).meta
    BY <1>1, QueuedIs
  <2>3. NewEntry(d, j).done <=> id_q[j].terminal \/ id_q[j].serial
    BY <1>1, NewEntryIs
  <2>4. j <= d.enqueued <=> ~id_q[j].terminal /\ ~id_q[j].serial
    BY <1>1, NewGiven
  <2>5. j \in 1 .. d.enqueued <=> j <= d.enqueued
    BY <2>1
  <2> QED
    BY <2>1, <2>2, <2>3, <2>4, <2>5
<1>5. ASSUME p \in allocated PROVE Unwritten(p)'
  <2>1. PICK j \in DOMAIN Writers(d) : Writers(d)[j].pdst = p /\ p # 0
    BY <1>5
  <2>2. j \in 1 .. d.n
    <3>1. d.n \in 0 .. 2
      BY <1>1, Moved
    <3>2. DOMAIN Writers(d) = 1 .. d.enqueued /\ d.enqueued \in 0 .. d.n
      BY <1>1, ArrivingIs
    <3> QED
      BY <2>1, <3>1, <3>2
  <2>3. NewEntry(d, j).meta.pdst = p /\ p # 0 /\ ~NewEntry(d, j).done
    BY <1>4, <2>1, <2>2
  <2> DEFINE k == (count - w.retiring) + j
  <2>4. k \in 1 .. count' /\ Window'[k] = NewEntry(d, j)
    BY <1>1, <2>2, NewAt
  <2> HIDE DEF k
  <2> QED
    BY <2>3, <2>4 DEF Unwritten
<1>6. ASSUME ~ready_q[p], p \notin written PROVE Unwritten(p)'
  <2>1. PICK i \in 1 .. count : Window[i].meta.pdst = p /\ p # 0 /\ ~Window[i].done
    BY <1>2, <1>6 DEF Unwritten
  <2>2. Window[i].meta.rd # 0
    BY <1>1, <2>1 DEF WritersGiven
  <2>3. ~ \E r \in w.completions : r.meta = Window[i].meta
    BY <1>6, <2>1, <2>2
  <2> DEFINE k == i - w.retiring
  <2>4. k \in 1 .. count' /\ Window'[k].meta = Window[i].meta /\ ~Window'[k].done
    BY <1>1, <2>1, <2>3, UndoneStays
  <2> HIDE DEF k
  <2> QED
    BY <2>1, <2>4 DEF Unwritten
<1>7. ASSUME Unwritten(p)' PROVE p \in allocated \/ (~ready_q[p] /\ p \notin written)
  <2>1. PICK k \in 1 .. count' : Window'[k].meta.pdst = p /\ p # 0 /\ ~Window'[k].done
    BY <1>7 DEF Unwritten
  <2>2. CASE k <= count - w.retiring
    <3> DEFINE i == k + w.retiring
    <3>1. /\ i \in 1 .. count /\ Window'[k].meta = Window[i].meta /\ ~Window[i].done
          /\ ~ \E r \in w.completions : r.meta.tag = Window[i].meta.tag
      BY <1>1, <2>1, <2>2, UndoneWas
    <3> HIDE DEF i
    <3>2. ~ready_q[p]
      BY <1>2, <2>1, <3>1 DEF Unwritten
    <3>3. ASSUME NEW r \in w.completions, r.meta.pdst = p PROVE FALSE
      <4> DEFINE m == Distance(r.meta.tag) + 1
      <4>1. m \in 1 .. count /\ Window[m].meta = r.meta
        BY <1>1, ResultOf
      <4> HIDE DEF m
      <4>2. m = i
        BY <1>1, <2>1, <3>1, <3>3, <4>1, OneOwner
      <4> QED
        BY <3>1, <4>1, <4>2
    <3> QED
      BY <3>2, <3>3
  <2>3. CASE k > count - w.retiring
    <3> DEFINE j == k - (count - w.retiring)
    <3>1. j \in 1 .. d.n /\ Window'[k] = NewEntry(d, j)
      BY <1>1, <2>1, <2>3, WindowAfter DEF WindowInv
    <3> HIDE DEF j
    <3>2. j \in DOMAIN Writers(d) /\ Writers(d)[j].pdst = p
      BY <1>4, <2>1, <3>1
    <3> QED
      BY <2>1, <3>2
  <2>4. count - w.retiring \in Int /\ k \in Int
    BY <1>1, Moved
  <2> QED
    BY <2>2, <2>3, <2>4
<1> QED
  BY <1>3, <1>5, <1>6, <1>7

(* With nothing in flight every register is ready.                         *)
LEMMA ReadyCleared ==
  ASSUME count' = 0, ready_q' = [p \in Phys |-> TRUE]
  PROVE  ReadyInv'
<1>1. \A p \in Phys : ready_q'[p] /\ ~Unwritten(p)'
  BY DEF Unwritten
<1> QED
  BY <1>1 DEF ReadyInv

(* Every step keeps the ready bits exact.                                  *)
LEMMA ReadyStep == WakeBase /\ [Next]_vars => WakeBase'
<1> SUFFICES ASSUME WakeBase, [Next]_vars PROVE WakeBase'
  OBVIOUS
<1>1. PlaceInv /\ RenameInv /\ TypesInv /\ PlaceInv' /\ RenameInv'
  BY PlaceStep, RenameInvStep DEF WakeBase, PlaceInv, WindowInv
<1>2. CASE ClockEdge
  <2>1. QueuesBounded /\ id_q \in Seq(decode_t) /\ iq \in [Slot -> issue_t \cup {Empty}]
    BY <1>1 DEF TypesInv, TypeOK, FrontTypes, ExecutionTypes
  <2>2. PICK w, d, chosen : EdgeHolds(w, d, chosen)
    BY <1>2, <2>1, EdgeIs
  <2>3. CASE w.backend_flush
    <3> SUFFICES ASSUME Renaming' PROVE ReadyInv'
      BY <1>1 DEF WakeBase, ReadyInv
    <3>1. OUT_OF_ORDER /\ ~w.finishing
      BY <2>2, RenamingBefore
    <3>2. w.restore
      BY <2>2, <2>3, <3>1 DEF EdgeHolds, WiresHold, recovers
    <3>3. RenameTick(w.restore, Writers(d), w.completions, Leaving(w))
      BY <2>2, <3>1 DEF EdgeHolds, BackSteps
    <3>4. ready_q' = [p \in Phys |-> TRUE]
      BY <3>2, <3>3 DEF RenameTick
    <3>5. count' = 0
      BY <2>2, <2>3, ClearedFlush DEF Cleared
    <3> QED
      BY <3>4, <3>5, ReadyCleared
  <2>4. CASE ~w.backend_flush
    <3> SUFFICES ASSUME Renaming', NEW p \in Phys PROVE ~ready_q'[p] <=> Unwritten(p)'
      BY <1>1 DEF WakeBase, ReadyInv
    <3> QED
      BY <2>2, <2>4, ReadyEdge
  <2> QED
    BY <2>3, <2>4
<1>3. CASE ResetEdge
  <2>1. count' = 0
    BY <1>3, ClearedReset DEF Cleared
  <2>2. ready_q' = [p \in Phys |-> TRUE]
    BY <1>3 DEF ResetEdge, RenameReset
  <2> QED
    BY <1>1, <2>1, <2>2, ReadyCleared DEF WakeBase
<1>4. CASE UNCHANGED vars
  <2>1. UNCHANGED <<rob, head, count, ready_q, halted, fault>>
    BY <1>4 DEF vars, robVars, renameVars, retireVars
  <2>2. Window' = Window
    BY <2>1 DEF Window
  <2> QED
    BY <1>1, <2>1, <2>2 DEF WakeBase, ReadyInv, Renaming, Unwritten
<1> QED
  BY <1>2, <1>3, <1>4 DEF Next

(* The initial states satisfy the invariant of the ready bits.             *)
LEMMA ReadyInit == Init => WakeBase
<1> SUFFICES ASSUME Init PROVE WakeBase
  OBVIOUS
<1>1. PlaceInv /\ RenameInv
  BY PlaceInit, RenameInvInit
<1>2. count = 0 /\ ready_q = [p \in Phys |-> TRUE]
  BY DEF Init, CompletionInit, RenameInit
<1>3. \A p \in Phys : ready_q[p] /\ ~Unwritten(p)
  BY <1>2 DEF Unwritten
<1> QED
  BY <1>1, <1>3 DEF WakeBase, ReadyInv

(* The invariant of the ready bits is what the runs check.                 *)
LEMMA ReadyIsExact == WakeBase => ReadyBitsExact
<1> SUFFICES ASSUME WakeBase, Renaming, NEW p \in Phys
             PROVE  ~ready_q[p] <=>
                      \E i \in DOMAIN Window : Window[i].meta.pdst = p /\ p # 0 /\ ~Window[i].done
  BY DEF ReadyBitsExact
<1>1. DOMAIN Window = 1 .. count
  BY WindowIs DEF WakeBase, PlaceInv, WindowInv
<1> QED
  BY <1>1 DEF WakeBase, ReadyInv, Unwritten

(* A physical register is marked not ready exactly while the instruction   *)
(* it was given to has no result, also when it is given and another is     *)
(* written on one edge (control/rename_control.sv:107-113).                *)
THEOREM CoreReady == Spec => []ReadyBitsExact
  BY ReadyInit, ReadyStep, ReadyIsExact, PTL DEF Spec

-----------------------------------------------------------------------------
(* In order the destination of an entry is its register; there is no other *)
(* name for it (control/inorder_operands.sv).                              *)
InorderNamed == ~OUT_OF_ORDER => \A i \in 1 .. count : Window[i].meta.pdst = Window[i].meta.rd

(* In order, an edge keeps the destination of every entry an architectural *)
(* register: pdst is rd.                                                   *)
LEMMA InorderNamedEdge ==
  ASSUME WindowInv, InorderNamed, NEW w, NEW d, NEW chosen, EdgeHolds(w, d, chosen), ~w.backend_flush
  PROVE  InorderNamed'
<1> SUFFICES ASSUME ~OUT_OF_ORDER, NEW i \in 1 .. count'
             PROVE  Window'[i].meta.pdst = Window'[i].meta.rd
  BY DEF InorderNamed
<1>1. TypesInv /\ WindowFull
  BY DEF WindowInv
<1>2. /\ i <= count - w.retiring =>
           i + w.retiring \in 1 .. count /\ Kept(Window'[i], Window[i + w.retiring], w.completions)
      /\ i > count - w.retiring =>
           /\ i - (count - w.retiring) \in 1 .. d.n
           /\ Window'[i] = NewEntry(d, i - (count - w.retiring))
  BY <1>1, WindowAfter
<1>3. CASE i <= count - w.retiring
  <2>1. Window[i + w.retiring] \in rob_entry_t
    BY <1>1, <1>2, <1>3, WindowIs
  <2>2. w.completions \in SUBSET result_t
    BY <1>1, CompletionsTypes DEF EdgeHolds, TypesInv, TypeOK
  <2>3. Window'[i].meta = Window[i + w.retiring].meta
    BY <1>2, <1>3, <2>1, <2>2, KeptIs
  <2> QED
    BY <1>2, <1>3, <2>3 DEF InorderNamed
<1>4. CASE i > count - w.retiring
  <2> DEFINE j == i - (count - w.retiring)
  <2>1. j \in 1 .. d.n /\ Window'[i] = NewEntry(d, j)
    BY <1>2, <1>4
  <2> HIDE DEF j
  <2>2. NewEntry(d, j).meta.rd = id_q[j].rd /\ NewEntry(d, j).meta.pdst = Destination(j)
    BY <1>1, <2>1, NewEntryIs
  <2> QED
    BY <2>1, <2>2 DEF Destination
<1>5. count - w.retiring \in Int /\ i \in Int
  BY <1>1, Moved
<1> QED
  BY <1>3, <1>4, <1>5

(* One of the n oldest instructions in flight will still write what the    *)
(* operand waits for.                                                      *)
Promised(o, n) ==
  \E i \in 1 .. n : ~Window[i].done /\ Window[i].meta.rd # 0 /\ Window[i].meta.pdst = o.tag
WakeInv ==
  \A s \in Slot : iq[s] # Empty =>
    \A o \in {iq[s].a, iq[s].b} : ~o.ready => Promised(o, Distance(iq[s].meta.tag))

(* An operand that still waits after the wakeup of the edge is as it was,  *)
(* and no result of the edge was for it.                                   *)
LEMMA StillWaits ==
  ASSUME NEW o \in operand_t, NEW completions, ~WokenOperand(o, completions).ready
  PROVE  /\ ~o.ready /\ WokenOperand(o, completions) = o
         /\ \A r \in completions : r.meta.rd # 0 => r.meta.pdst # o.tag
<1> DEFINE producers == {r \in completions : r.meta.rd # 0 /\ r.meta.pdst = o.tag}
           x == (CHOOSE r \in producers : TRUE).value
<1> HIDE DEF x
<1>1. WokenOperand(o, completions)
        = IF o.ready \/ producers = {} THEN o ELSE [o EXCEPT !.ready = TRUE, !.value = x]
  BY DEF WokenOperand, x
<1> HIDE DEF producers
<1>2. [o EXCEPT !.ready = TRUE, !.value = x].ready
  BY DEF operand_t
<1>3. ~o.ready /\ producers = {}
  BY <1>1, <1>2
<1> QED
  BY <1>1, <1>3 DEF producers

(* A promise is kept through an edge: the older instruction still has no   *)
(* result, or its result has just woken the operand.                       *)
LEMMA PromiseKept ==
  ASSUME PlaceInv, NEW w, NEW d, NEW chosen, EdgeHolds(w, d, chosen), ~w.backend_flush,
         NEW o \in operand_t, ~WokenOperand(o, w.completions).ready,
         NEW n \in 0 .. count, Promised(o, n), NEW m \in Nat, m >= n - w.retiring
  PROVE  Promised(WokenOperand(o, w.completions), m)'
<1> DEFINE c == w.completions
           x == WokenOperand(o, c)
<1>1. TypesInv /\ count \in Nat /\ w.retiring \in 0 .. 2
  BY Moved DEF PlaceInv, WindowInv
<1>2. x = o /\ \A r \in c : r.meta.rd # 0 => r.meta.pdst # o.tag
  BY StillWaits
<1> HIDE DEF x, c
<1>3. PICK i \in 1 .. n : ~Window[i].done /\ Window[i].meta.rd # 0 /\ Window[i].meta.pdst = o.tag
  BY DEF Promised
<1>4. i \in 1 .. count
  BY <1>1
<1>5. ~ \E r \in w.completions : r.meta = Window[i].meta
  BY <1>2, <1>3 DEF c
<1> DEFINE k == i - w.retiring
<1>6. k \in 1 .. count' /\ Window'[k].meta = Window[i].meta /\ ~Window'[k].done
  BY <1>3, <1>4, <1>5, UndoneStays
<1>7. k \in 1 .. m
  BY <1>1, <1>6
<1> HIDE DEF k
<1>8. Window'[k].meta.rd # 0 /\ Window'[k].meta.pdst = o.tag
  BY <1>3, <1>6
<1>9. \E j \in 1 .. m : ~Window'[j].done /\ Window'[j].meta.rd # 0 /\ Window'[j].meta.pdst = x.tag
  BY <1>2, <1>6, <1>7, <1>8
<1> QED
  BY <1>9 DEF Promised, x, c

-----------------------------------------------------------------------------
(* An operand that dispatch finds not ready is promised by an instruction  *)
(* in flight, or by the one before it in its bundle.                       *)
BundlePromise(d, j, o) ==
  j = 2 /\ NewEntry(d, 1).meta.rd # 0 /\ ~NewEntry(d, 1).done /\ NewEntry(d, 1).meta.pdst = o.tag

(* Out of order, an operand that is not ready at dispatch is promised by   *)
(* an entry of the window or by the instruction before it in its bundle.   *)
LEMMA RenamedOperand ==
  ASSUME OUT_OF_ORDER, WakeBase, NEW w, NEW d, NEW chosen, EdgeHolds(w, d, chosen),
         NEW j \in 1 .. d.n, NEW r \in Arch, NEW o,
         o = [ready |-> ReadyBefore(j)[MapBefore(j)[r]], tag |-> MapBefore(j)[r],
              value |-> registers[MapBefore(j)[r]]],
         ~o.ready
  PROVE  Promised(o, count) \/ BundlePromise(d, j, o)
<1>1. /\ TypesInv /\ RenameTypes /\ WritersGiven /\ DispatchFacts(w, d) /\ d.n \in 0 .. 2
  BY DEF WakeBase, PlaceInv, RenameInv, WindowInv, TypesInv, TypeOK, EdgeHolds, DispatchFacts
<1>2. /\ speculative_map \in [Arch -> Phys] /\ ready_q \in [Phys -> BOOLEAN]
      /\ Renaming /\ dispatch_data[1] = id_q[1] /\ 1 \in 1 .. d.n
  BY <1>1 DEF RenameTypes, DispatchFacts, Renaming
<1> DEFINE p == o.tag
<1>3. p = MapBefore(j)[r] /\ ~ReadyBefore(j)[p]
  OBVIOUS
<1> HIDE DEF p
<1>4. CASE j = 2 /\ Allocates(id_q[1]) /\ p = GivenTo(0)
  <2>1. /\ NewEntry(d, 1).meta.pdst = GivenTo(1 - 1) /\ id_q[1].rd # 0
    BY <1>1, <1>2, <1>4, NewGiven
  <2>2. /\ NewEntry(d, 1).meta.rd = id_q[1].rd
        /\ NewEntry(d, 1).done = (id_q[1].terminal \/ id_q[1].serial)
    BY <1>1, <1>2, NewEntryIs
  <2>3. 1 - 1 = 0
    OBVIOUS
  <2> QED
    BY <1>4, <2>1, <2>2, <2>3 DEF BundlePromise, Allocates, EndsBundle, p
<1>5. CASE ~(j = 2 /\ Allocates(id_q[1]) /\ p = GivenTo(0))
  <2>1. p = speculative_map[r] /\ ~ready_q[p]
    <3>1. CASE j = 2 /\ Allocates(id_q[1])
      <4>1. /\ MapBefore(j) = [speculative_map EXCEPT ![id_q[1].rd] = GivenTo(0)]
            /\ ReadyBefore(j) = [ready_q EXCEPT ![GivenTo(0)] = FALSE]
        BY <1>2, <3>1 DEF MapBefore, ReadyBefore
      <4>2. p # GivenTo(0)
        BY <1>5, <3>1
      <4>3. p = speculative_map[r]
        BY <1>2, <1>3, <4>1, <4>2
      <4>4. p \in Phys
        BY <1>2, <4>3
      <4> QED
        BY <1>2, <1>3, <4>1, <4>2, <4>3, <4>4
    <3>2. CASE ~(j = 2 /\ Allocates(id_q[1]))
      <4>1. MapBefore(j) = speculative_map /\ ReadyBefore(j) = ready_q
        BY <1>2, <3>2 DEF MapBefore, ReadyBefore
      <4> QED
        BY <1>3, <4>1
    <3> QED
      BY <3>1, <3>2
  <2>2. p \in Phys
    BY <1>2, <2>1
  <2>3. Unwritten(p)
    BY <1>2, <2>1, <2>2 DEF WakeBase, ReadyInv
  <2>4. PICK i \in 1 .. count : Window[i].meta.pdst = p /\ p # 0 /\ ~Window[i].done
    BY <2>3 DEF Unwritten
  <2>5. Window[i].meta.rd # 0
    BY <1>1, <2>4 DEF WritersGiven
  <2> QED
    BY <2>4, <2>5 DEF Promised, p
<1> QED
  BY <1>4, <1>5

(* In order, the same: the busy bit and the producer name the entry that   *)
(* will write it.                                                          *)
LEMMA SelectedOperand ==
  ASSUME ~OUT_OF_ORDER, PlaceInv, BusyInv, InorderNamed,
         NEW w, NEW d, NEW chosen, EdgeHolds(w, d, chosen),
         NEW j \in 1 .. d.n, NEW r \in Arch, NEW o,
         o = SelectOperand(r, WrittenBefore(j), rob, registers), ~o.ready
  PROVE  Promised(o, count) \/ BundlePromise(d, j, o)
<1>1. TypesInv /\ WindowFull /\ DispatchFacts(w, d) /\ d.n \in 0 .. 2
  BY DEF PlaceInv, WindowInv, EdgeHolds, DispatchFacts
<1> DEFINE entry == rob[producer[r]]
           earlier == WrittenBefore(j)
<1>2. /\ r # 0 /\ o.tag = r /\ (r \in busy \/ r \in earlier)
      /\ r \in earlier \/ ~(entry # Empty /\ entry.done)
  <2> HIDE DEF entry, earlier
  <2>1. r # 0
    BY DEF SelectOperand, entry, earlier
  <2> DEFINE f == \/ ~(r \in busy \/ r \in earlier)
                  \/ entry # Empty /\ entry.done /\ ~(r \in earlier)
             v == IF ~(r \in busy \/ r \in earlier) THEN registers[r]
                  ELSE IF entry # Empty THEN entry.value ELSE 0
  <2>2. o = [tag |-> r, ready |-> f, value |-> v]
    BY <2>1 DEF SelectOperand, entry, earlier
  <2> HIDE DEF f, v
  <2>3. ~f /\ o.tag = r
    BY <2>2
  <2> QED
    BY <2>1, <2>3 DEF f
<1>3. CASE r \in earlier
  <2>1. j # 1 /\ r \in WrittenBy(dispatch_data[1])
    BY <1>3 DEF WrittenBefore
  <2>2. j = 2 /\ d.n = 2 /\ 1 \in 1 .. d.n
    BY <1>1, <2>1
  <2>3. dispatch_data[1] = id_q[1] /\ ~id_q[1].terminal /\ ~id_q[1].serial
    BY <1>1, <2>2 DEF DispatchFacts
  <2>4. r = id_q[1].rd
    BY <2>1, <2>3 DEF WrittenBy
  <2>5. /\ NewEntry(d, 1).meta.rd = id_q[1].rd /\ NewEntry(d, 1).meta.pdst = Destination(1)
        /\ NewEntry(d, 1).done = (id_q[1].terminal \/ id_q[1].serial)
    BY <1>1, <2>2, NewEntryIs
  <2>6. Destination(1) = id_q[1].rd
    BY DEF Destination
  <2> QED
    BY <1>2, <2>2, <2>3, <2>4, <2>5, <2>6 DEF BundlePromise
<1>4. CASE r \notin earlier
  <2>1. r \in busy /\ BusyOf(r)
    BY <1>2, <1>4 DEF BusyInv
  <2>2. PICK i \in 1 .. count : WriterAt(i, r) /\ producer[r] = Window[i].meta.tag
    BY <2>1 DEF BusyOf
  <2>3. entry = Window[i] /\ Window[i] # Empty
    BY <1>1, <2>2, WindowIs
  <2>4. ~Window[i].done
    BY <1>2, <1>4, <2>3
  <2>5. Window[i].meta.rd = r /\ Window[i].meta.pdst = r
    BY <2>2 DEF WriterAt, InorderNamed
  <2> QED
    BY <1>2, <2>4, <2>5 DEF Promised
<1> QED
  BY <1>3, <1>4

WaitInv == WakeBase /\ SerialLast /\ BusyInv /\ InorderNamed /\ WakeInv

(* The same under either operand scheme.                                   *)
LEMMA OperandFrom ==
  ASSUME WaitInv, NEW w, NEW d, NEW chosen, EdgeHolds(w, d, chosen), NEW j \in 1 .. d.n,
         NEW o \in {d.prepared[j].a, d.prepared[j].b}, ~o.ready
  PROVE  Promised(o, count) \/ BundlePromise(d, j, o)
<1>1. /\ WakeBase /\ PlaceInv /\ BusyInv /\ InorderNamed /\ TypesInv /\ DispatchFacts(w, d)
  BY DEF WaitInv, WakeBase, PlaceInv, WindowInv, EdgeHolds
<1>2. d.prepared[j] = PreparedAs(j) /\ id_q[j] \in decode_t
  <2>1. d.prepared[j] = PreparedAs(j)
    BY <1>1, PreparedIs
  <2>2. id_q[j] \in decode_t
    BY <1>1 DEF DispatchFacts
  <2> QED
    BY <2>1, <2>2
<1>3. id_q[j].rs1 \in Arch /\ id_q[j].rs2 \in Arch
  BY <1>2 DEF decode_t
<1> DEFINE Ooo(r) == [ready |-> ReadyBefore(j)[MapBefore(j)[r]], tag |-> MapBefore(j)[r],
                      value |-> registers[MapBefore(j)[r]]]
           Ino(r) == SelectOperand(r, WrittenBefore(j), rob, registers)
<1>4. CASE OUT_OF_ORDER
  <2>1. /\ PreparedAs(j).a = Ooo(id_q[j].rs1)
        /\ PreparedAs(j).b = IF id_q[j].immediate_b THEN [ready |-> TRUE, tag |-> 0, value |-> id_q[j].immediate]
                             ELSE Ooo(id_q[j].rs2)
    BY <1>4 DEF PreparedAs, Renamed
  <2>2. \E r \in Arch : o = Ooo(r)
    BY <1>2, <1>3, <2>1
  <2> QED
    BY <1>1, <1>4, <2>2, RenamedOperand
<1>5. CASE ~OUT_OF_ORDER
  <2>1. /\ PreparedAs(j).a = Ino(id_q[j].rs1)
        /\ PreparedAs(j).b = IF id_q[j].immediate_b THEN [ready |-> TRUE, tag |-> 0, value |-> id_q[j].immediate]
                             ELSE Ino(id_q[j].rs2)
    BY <1>5 DEF PreparedAs, InorderPrepared
  <2>2. \E r \in Arch : o = Ino(r)
    BY <1>2, <1>3, <2>1
  <2> QED
    BY <1>1, <1>5, <2>2, SelectedOperand
<1> QED
  BY <1>4, <1>5

-----------------------------------------------------------------------------
(* The operands of the new entries, and of those that stay, after the edge.*)
LEMMA NewPromise ==
  ASSUME WaitInv, NEW w, NEW d, NEW chosen, EdgeHolds(w, d, chosen), ~w.backend_flush,
         NEW j \in 1 .. d.n, NEW o \in {d.prepared[j].a, d.prepared[j].b},
         ~WokenOperand(o, w.completions).ready, NEW m, m = (count - w.retiring) + j - 1
  PROVE  Promised(WokenOperand(o, w.completions), m)'
<1> DEFINE c == w.completions
           x == WokenOperand(o, c)
<1>1. /\ PlaceInv /\ WindowInv /\ TypesInv
      /\ count \in Nat /\ w.retiring \in 0 .. 2 /\ w.retiring <= count /\ d.n \in 0 .. 2
  BY Moved DEF WaitInv, WakeBase, PlaceInv, WindowInv
<1>2. o \in operand_t
  <2>1. d.prepared[j] \in issue_t
    BY <1>1, NewEntryIs
  <2> QED
    BY <2>1 DEF issue_t
<1>3. ~o.ready /\ x = o
  BY <1>2, StillWaits
<1>4. m \in Nat /\ m >= count - w.retiring
  BY <1>1
<1>5. CASE Promised(o, count)
  <2>1. count \in 0 .. count
    BY <1>1
  <2> HIDE DEF x, c
  <2> QED
    BY <1>1, <1>2, <1>4, <1>5, <2>1, PromiseKept
<1>6. CASE BundlePromise(d, j, o)
  <2> DEFINE k == (count - w.retiring) + 1
  <2>1. 1 \in 1 .. d.n /\ k \in 1 .. m
    BY <1>1, <1>6 DEF BundlePromise
  <2>2. Window'[k] = NewEntry(d, 1)
    BY <1>1, <2>1, NewAt
  <2> HIDE DEF k, x, c
  <2>3. ~Window'[k].done /\ Window'[k].meta.rd # 0 /\ Window'[k].meta.pdst = o.tag
    BY <1>6, <2>2 DEF BundlePromise
  <2>4. \E i \in 1 .. m : ~Window'[i].done /\ Window'[i].meta.rd # 0 /\ Window'[i].meta.pdst = x.tag
    BY <1>3, <2>1, <2>3
  <2> QED
    BY <2>4 DEF Promised, x, c
<1>7. Promised(o, count) \/ BundlePromise(d, j, o)
  BY <1>3, OperandFrom
<1> QED
  BY <1>5, <1>6, <1>7

(* An operand that waited before an edge and still waits is promised after *)
(* it.                                                                     *)
LEMMA OldPromise ==
  ASSUME WaitInv, NEW w, NEW d, NEW chosen, EdgeHolds(w, d, chosen), ~w.backend_flush,
         NEW s \in Slot, iq[s] # Empty, NEW o \in {iq[s].a, iq[s].b},
         ~WokenOperand(o, w.completions).ready, NEW t, t = iq[s].meta.tag,
         NEW m, m = Distance(t)'
  PROVE  Promised(WokenOperand(o, w.completions), m)'
<1> DEFINE n == Distance(t)
<1>1. PlaceInv /\ WindowInv /\ TypesInv /\ WindowFull /\ WakeInv /\ WiresHold(w)
  BY DEF WaitInv, WakeBase, PlaceInv, WindowInv, EdgeHolds
<1>2. iq[s] \in issue_t /\ o \in operand_t
  <2>1. iq[s] \in issue_t
    BY <1>1 DEF TypesInv, TypeOK, ExecutionTypes
  <2> QED
    BY <2>1 DEF issue_t
<1> DEFINE b == <<"iq", s, iq[s].meta>>
<1>3. b \in InFlight /\ b[3] = iq[s].meta
  <2>1. b \in InFlight
    BY Places
  <2> QED
    BY <2>1
<1> HIDE DEF b
<1>4. t \in RobTag /\ rob[t] # Empty /\ ~rob[t].done
  BY <1>1, <1>3, PlaceKept
<1>5. n + 1 \in 1 .. count /\ Window[n + 1] = rob[t]
  BY <1>1, <1>4, WindowIs
<1>6. count \in Nat /\ w.retiring \in 0 .. 2 /\ head \in RobTag
  BY <1>1, Moved
<1>7. n \in 0 .. RobDepth - 1 /\ RobDepth \in Nat
  BY <1>4, <1>6, DistanceOf, Tiny5Assumption DEF Distance
<1>8. n + 1 > w.retiring
  <2> HIDE DEF n
  <2>1. n + 1 \in 1 .. w.retiring => Window[n + 1].done
    BY <1>1, Retires
  <2> QED
    BY <1>4, <1>5, <1>6, <1>7, <2>1
<1>9. m = n - w.retiring
  <2>1. w.retiring <= n
    <3> HIDE DEF n
    <3> QED
      BY <1>6, <1>7, <1>8
  <2> QED
    BY <1>1, <1>4, <2>1, Moved
<1>10. Promised(o, n)
  <2>1. ~o.ready
    BY <1>2, StillWaits
  <2> QED
    BY <1>1, <2>1 DEF WakeInv
<1> HIDE DEF n
<1>11. n \in 0 .. count /\ m \in Nat /\ m >= n - w.retiring
  BY <1>5, <1>6, <1>7, <1>8, <1>9
<1> QED
  BY <1>1, <1>2, <1>10, <1>11, PromiseKept

(* What is shown of the two operands of an entry holds of all it waits     *)
(* for.                                                                    *)
LEMMA WaitsAfter ==
  ASSUME NEW s \in Slot, NEW a, NEW b, NEW t, NEW m, m = Distance(t)',
         iq'[s].meta.tag = t, iq'[s].a = a, iq'[s].b = b,
         ~a.ready => Promised(a, m)', ~b.ready => Promised(b, m)'
  PROVE  \A o \in {iq[s].a, iq[s].b}' : ~o.ready => Promised(o, Distance(iq[s].meta.tag))'
<1> SUFFICES ASSUME NEW o \in {iq[s].a, iq[s].b}', ~o.ready
             PROVE  Promised(o, Distance(iq[s].meta.tag))'
  OBVIOUS
<1>1. o = a \/ o = b
  OBVIOUS
<1>2. Promised(o, m)'
  BY <1>1
<1>3. Distance(iq[s].meta.tag)' = m
  BY DEF Distance
<1> HIDE DEF Distance
<1> QED
  BY <1>2, <1>3 DEF Promised

(* An edge without a flush keeps every waiting operand promised: dispatch, *)
(* writeback and retirement on one edge miss no wakeup.                    *)
LEMMA WakeEdge ==
  ASSUME WaitInv, NEW w, NEW d, NEW chosen, EdgeHolds(w, d, chosen), ~w.backend_flush
  PROVE  WakeInv'
<1> SUFFICES ASSUME NEW s \in Slot, iq'[s] # Empty
             PROVE  \A o \in {iq[s].a, iq[s].b}' : ~o.ready => Promised(o, Distance(iq[s].meta.tag))'
  BY DEF WakeInv
<1> DEFINE c == w.completions
<1>1. PlaceInv /\ WindowInv /\ TypesInv /\ MdOne
  BY DEF WaitInv, WakeBase, PlaceInv, WindowInv
<1>2. PICK seat : FlightMoves(w, d, chosen, seat)
  BY <1>1, FlightMovesIs
<1>3. /\ \A i \in 1 .. d.enqueued : iq'[seat[i]] = Woke(d.prepared[i], c)
      /\ (~ \E i \in 1 .. d.enqueued : seat[i] = s) =>
           iq'[s] = IF s \in Removed(chosen) \/ iq[s] = Empty THEN Empty ELSE Woke(iq[s], c)
      /\ c \in SUBSET result_t
      /\ \A i \in 1 .. d.enqueued : i \in 1 .. d.n /\ d.prepared[i] \in issue_t
  BY <1>2 DEF FlightMoves
<1>4. ASSUME NEW i \in 1 .. d.enqueued, seat[i] = s
      PROVE  \A o \in {iq[s].a, iq[s].b}' : ~o.ready => Promised(o, Distance(iq[s].meta.tag))'
  <2>1. PICK t : t = allocate_tag(i - 1)
    OBVIOUS
  <2>2. PICK m : m = Distance(t)'
    OBVIOUS
  <2>3. PICK q : q = d.prepared[i]
    OBVIOUS
  <2>4. PICK a : a = WokenOperand(q.a, w.completions)
    OBVIOUS
  <2>5. PICK b : b = WokenOperand(q.b, w.completions)
    OBVIOUS
  <2>6. i \in 1 .. d.n /\ q \in issue_t /\ iq'[s] = Woke(q, w.completions)
    BY <1>3, <1>4, <2>3
  <2>7. iq'[s].meta = q.meta /\ iq'[s].a = a /\ iq'[s].b = b
    BY <1>3, <2>4, <2>5, <2>6, WokeIs
  <2>8. t \in RobTag /\ Distance(t) = count + i - 1 /\ q.meta.tag = t
    BY <1>1, <2>1, <2>3, <2>6, PlaceNew
  <2>9. m = (count - w.retiring) + i - 1
    <3>1. w.retiring \in 0 .. 2 /\ w.retiring <= count /\ count \in Nat /\ d.n \in 0 .. 2
      BY <1>1, Moved
    <3>2. w.retiring <= Distance(t)
      BY <2>6, <2>8, <3>1
    <3>3. m = Distance(t) - w.retiring
      BY <1>1, <2>2, <2>8, <3>2, Moved
    <3> QED
      BY <2>6, <2>8, <3>1, <3>3
  <2>10. ~a.ready => Promised(a, m)'
    BY <2>3, <2>4, <2>6, <2>9, NewPromise
  <2>11. ~b.ready => Promised(b, m)'
    BY <2>3, <2>5, <2>6, <2>9, NewPromise
  <2>12. iq'[s].meta.tag = t
    BY <2>7, <2>8
  <2> QED
    BY <2>2, <2>7, <2>10, <2>11, <2>12, WaitsAfter
<1>5. ASSUME ~ \E i \in 1 .. d.enqueued : seat[i] = s
      PROVE  \A o \in {iq[s].a, iq[s].b}' : ~o.ready => Promised(o, Distance(iq[s].meta.tag))'
  <2>1. PICK q : q = iq[s]
    OBVIOUS
  <2>2. PICK t : t = q.meta.tag
    OBVIOUS
  <2>3. PICK m : m = Distance(t)'
    OBVIOUS
  <2>4. PICK a : a = WokenOperand(q.a, w.completions)
    OBVIOUS
  <2>5. PICK b : b = WokenOperand(q.b, w.completions)
    OBVIOUS
  <2>6. iq[s] # Empty /\ iq'[s] = Woke(q, w.completions)
    BY <1>3, <1>5, <2>1
  <2>7. q \in issue_t
    BY <1>1, <2>1, <2>6 DEF TypesInv, TypeOK, ExecutionTypes
  <2>8. iq'[s].meta = q.meta /\ iq'[s].a = a /\ iq'[s].b = b
    BY <1>3, <2>4, <2>5, <2>6, <2>7, WokeIs
  <2>9. ~a.ready => Promised(a, m)'
    BY <2>1, <2>2, <2>3, <2>4, <2>6, OldPromise
  <2>10. ~b.ready => Promised(b, m)'
    BY <2>1, <2>2, <2>3, <2>5, <2>6, OldPromise
  <2>11. iq'[s].meta.tag = t
    BY <2>2, <2>8
  <2> QED
    BY <2>3, <2>8, <2>9, <2>10, <2>11, WaitsAfter
<1> QED
  BY <1>4, <1>5

(* With nothing in flight nothing waits.                                   *)
LEMMA ClearedWaits == Cleared => InorderNamed /\ WakeInv
<1> SUFFICES ASSUME Cleared PROVE InorderNamed /\ WakeInv
  OBVIOUS
<1>1. count = 0 /\ \A s \in Slot : iq[s] = Empty
  BY DEF Cleared
<1> QED
  BY <1>1 DEF InorderNamed, WakeInv

(* Every step keeps every waiting operand promised.                        *)
LEMMA WaitStep == WaitInv /\ [Next]_vars => WaitInv'
<1>1. Cleared' => InorderNamed' /\ WakeInv'
  BY ClearedWaits, PTL
<1> SUFFICES ASSUME WaitInv, [Next]_vars PROVE WaitInv'
  OBVIOUS
<1>2. WakeBase /\ PlaceInv /\ WindowInv /\ TypesInv
  BY DEF WaitInv, WakeBase, PlaceInv, WindowInv
<1>3. WakeBase' /\ SerialLast' /\ BusyInv'
  BY <1>2, ReadyStep, SerialStep, BusyStep DEF WaitInv
<1>4. ASSUME NEW w, NEW d, NEW chosen, EdgeHolds(w, d, chosen), ~w.backend_flush
      PROVE  InorderNamed' /\ WakeInv'
  BY <1>2, <1>4, InorderNamedEdge, WakeEdge DEF WaitInv
<1>5. UNCHANGED vars => InorderNamed' /\ WakeInv'
  <2> SUFFICES ASSUME UNCHANGED vars PROVE InorderNamed' /\ WakeInv'
    OBVIOUS
  <2>1. UNCHANGED <<rob, head, count, iq>>
    BY DEF vars, robVars
  <2>2. Window' = Window /\ \A t : Distance(t)' = Distance(t)
    BY <2>1 DEF Window, Distance
  <2>3. InorderNamed'
    BY <2>1, <2>2 DEF WaitInv, InorderNamed
  <2>4. WakeInv'
    BY <2>1, <2>2 DEF WaitInv, WakeInv, Promised, Distance
  <2> QED
    BY <2>3, <2>4
<1> QED
  BY <1>1, <1>2, <1>3, <1>4, <1>5, Steps DEF WaitInv

(* The initial states satisfy the invariant of the wakeups.                *)
LEMMA WaitInit == Init => WaitInv
  BY ReadyInit, ClearedInit, ClearedOperands, ClearedWaits DEF WaitInv

(* The invariant of the wakeups is what the runs check.                    *)
LEMMA WaitIsWoken == WaitInv => NoMissedWakeup
<1> SUFFICES ASSUME WaitInv, NEW s \in Occupied, NEW o \in {iq[s].a, iq[s].b}, ~o.ready
             PROVE  \E e \in {Window[i] : i \in DOMAIN Window} :
                      /\ ~e.done /\ e.meta.rd # 0 /\ e.meta.pdst = o.tag
                      /\ Distance(e.meta.tag) < Distance(iq[s].meta.tag)
  BY DEF NoMissedWakeup
<1>1. PlaceInv /\ EachInOnePlace /\ TypesInv /\ WindowFull /\ WakeInv
  BY DEF WaitInv, WakeBase, PlaceInv, WindowInv
<1> DEFINE b == <<"iq", s, iq[s].meta>>
           t == iq[s].meta.tag
<1>2. s \in Slot /\ iq[s] # Empty /\ b \in InFlight /\ b[3] = iq[s].meta
  <2>1. s \in Slot /\ iq[s] # Empty
    BY DEF Occupied
  <2>2. b \in InFlight
    BY <2>1, Places
  <2> QED
    BY <2>1, <2>2
<1> HIDE DEF b
<1>3. rob[t] # Empty
  BY <1>1, <1>2 DEF EachInOnePlace
<1>4. t \in RobTag
  BY <1>1, <1>2, FlightTypes
<1>5. Distance(t) + 1 \in 1 .. count /\ count \in Nat
  BY <1>1, <1>3, <1>4, WindowIs
<1>6. Distance(t) \in 0 .. RobDepth - 1 /\ RobDepth \in Nat
  BY <1>1, <1>4, DistanceOf, Tiny5Assumption DEF Distance, TypesInv, TypeOK, QueuesBounded
<1>7. PICK i \in 1 .. Distance(t) : ~Window[i].done /\ Window[i].meta.rd # 0 /\ Window[i].meta.pdst = o.tag
  BY <1>1, <1>2 DEF WakeInv, Promised
<1> DEFINE n == Distance(t)
<1> HIDE DEF n
<1>8. i \in 1 .. count /\ i - 1 < Distance(t)
  <2>1. i \in 1 .. n /\ n \in Nat /\ n + 1 \in 1 .. count
    BY <1>5, <1>6, <1>7 DEF n
  <2>2. i \in 1 .. count /\ i - 1 < n
    BY <1>5, <2>1
  <2> QED
    BY <2>2 DEF n
<1>9. i \in DOMAIN Window /\ Distance(Window[i].meta.tag) = i - 1
  BY <1>1, <1>8, WindowIs
<1> HIDE DEF Distance
<1> QED
  BY <1>7, <1>8, <1>9

(* No wakeup is missed: an operand that waits in the issue queue waits for *)
(* an older instruction whose result is still to come, also when dispatch, *)
(* writeback and retirement meet on one edge (lib/issue_queue.sv:30-44).   *)
THEOREM CoreWakeup == Spec => []NoMissedWakeup
  BY WaitInit, WaitStep, WaitIsWoken, PTL DEF Spec
=============================================================================
