----------------------------- MODULE IssueQueue ----------------------------
(***************************************************************************)
(* The unordered issue queue (lib/issue_queue.sv) and the two schedulers   *)
(* that choose from it by age (control/inorder_scheduler.sv,               *)
(* control/ooo_scheduler.sv).                                              *)
(***************************************************************************)
EXTENDS Tiny5

VARIABLE iq             \* slots: issue_t or Empty

Slot == 0 .. IqDepth - 1
FreeSlots(queue) == {s \in Slot : queue[s] = Empty}
iq_capacity_in_pairs == IF FreeSlots(iq) # {} THEN 2 ELSE 0
iq_capacity == OneOrTwo(Cardinality(FreeSlots(iq)))

(* Operands that wait for one of the results take its value.               *)
WokenOperand(o, completions) ==
  LET producers == {r \in completions : r.meta.rd # 0 /\ r.meta.pdst = o.tag}
  IN IF o.ready \/ producers = {} THEN o
     ELSE [o EXCEPT !.ready = TRUE, !.value = (CHOOSE r \in producers : TRUE).value]

(* Only what was in the queue before the edge hears the results.           *)
Wake_misses_new(queue, completions) ==
  [s \in Slot |-> IF queue[s] = Empty \/ iq[s] = Empty THEN queue[s]
                  ELSE [queue[s] EXCEPT !.a = WokenOperand(@, completions),
                                        !.b = WokenOperand(@, completions)]]
Wake(queue, completions) ==
  [s \in Slot |-> IF queue[s] = Empty THEN Empty
                  ELSE [queue[s] EXCEPT !.a = WokenOperand(@, completions),
                                        !.b = WokenOperand(@, completions)]]

Without(queue, slots) == [s \in Slot |-> IF s \in slots THEN Empty ELSE queue[s]]

(* A new entry takes the lowest free slot; without one it would be lost.   *)
Enqueue(queue, entry) ==
  LET free == FreeSlots(queue)
      lowest == CHOOSE s \in free : \A t \in free : s <= t
  IN IF free = {} THEN queue ELSE [queue EXCEPT ![lowest] = entry]

IssueInit == iq = [s \in Slot |-> Empty]

(* enqueue: sequence of issue_t.  Removal frees slots for the same edge,   *)
(* and the results of the edge wake the new entries too.                   *)
IssueTick(flush, remove, enqueue, completions) ==
  LET kept  == Without(iq, remove)
      first == IF Len(enqueue) >= 1 THEN Enqueue(kept, enqueue[1]) ELSE kept
      both  == IF Len(enqueue) = 2 THEN Enqueue(first, enqueue[2]) ELSE first
  IN iq' = IF flush THEN [s \in Slot |-> Empty] ELSE Wake(both, completions)

-----------------------------------------------------------------------------
(* Scheduling.  Age is the distance of an entry's tag from the head tag.   *)
Age_raw(s, head_tag) == iq[s].meta.tag
Age(s, head_tag) == (iq[s].meta.tag - head_tag) % RobDepth
Oldest(slots, head_tag) ==
  CHOOSE s \in slots : \A t \in slots : Age(s, head_tag) <= Age(t, head_tag)

Occupied == {s \in Slot : iq[s] # Empty}
OperandsReady(s) == iq[s].a.ready /\ iq[s].b.ready
MulDivFree(s, available) == is_muldiv(iq[s].op) => available
Unused(s, chosen) == chosen = Empty \/ (s # chosen /\ ~(is_muldiv(iq[s].op) /\ is_muldiv(iq[chosen].op)))

(* The slot lane p may issue, given the slot of the lane before, or Empty. *)
(* Out of order: the oldest entry that can go.                             *)
OooChoice(p, chosen, issue_ready, available, head_tag) ==
  LET able == {s \in Occupied : OperandsReady(s) /\ MulDivFree(s, available) /\ Unused(s, chosen)}
  IN IF issue_ready[p] /\ able # {} THEN Oldest(able, head_tag) ELSE Empty

(* In order: the oldest entry, if it can go; a lane that was ready and     *)
(* found an oldest entry that could not go blocks the lane after it.       *)
InorderChoice(p, chosen, blocked, issue_ready, available, head_tag) ==
  LET rest == Occupied \ {chosen}
      oldest == Oldest(rest, head_tag)
  IN IF /\ p < ISSUE_WIDTH /\ issue_ready[p] /\ ~blocked /\ rest # {}
        /\ OperandsReady(oldest) /\ MulDivFree(oldest, available) /\ Unused(oldest, chosen)
     THEN oldest ELSE Empty

(* lane -> slot or Empty, for the scheduler of the configuration.          *)
Scheduled(issue_ready, available, head_tag) ==
  LET ooo0 == OooChoice(0, Empty, issue_ready, available, head_tag)
      ino0 == InorderChoice(0, Empty, FALSE, issue_ready, available, head_tag)
      blocked == issue_ready[0] /\ Occupied # {} /\ ino0 = Empty
  IN IF OUT_OF_ORDER
     THEN [p \in Lane |-> IF p = 0 THEN ooo0
                          ELSE OooChoice(1, ooo0, issue_ready, available, head_tag)]
     ELSE [p \in Lane |-> IF p = 0 THEN ino0
                          ELSE InorderChoice(1, ino0, blocked, issue_ready, available, head_tag)]

(* execute_t of an issued slot.                                            *)
Issued(slot) ==
  IF slot = Empty THEN Empty
  ELSE [meta |-> iq[slot].meta, op |-> iq[slot].op, a |-> iq[slot].a.value,
        b |-> iq[slot].b.value, branch_offset |-> iq[slot].branch_offset]
=============================================================================
