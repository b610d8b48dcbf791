-------------------------- MODULE CompletionQueue --------------------------
(***************************************************************************)
(* The completion queue (reorder buffer, lib/completion_queue.sv): entries *)
(* are allocated at the tail in program order, marked done in any order by *)
(* the tag they were given, and leave from the head in program order.      *)
(* Tags are positions and are used again as soon as their entry has left.  *)
(***************************************************************************)
EXTENDS Tiny5

VARIABLES rob,          \* entries: tag -> rob_entry_t, Empty where valid is clear
          head, tail, count

robVars == <<rob, head, tail, count>>

rob_capacity_in_pairs == IF count < RobDepth THEN 2 ELSE 0
rob_capacity == OneOrTwo(RobDepth - count)
allocate_tag_of_first(p) == tail
allocate_tag(p) == (tail + p) % RobDepth
head_data(p) == IF count > p THEN rob[(head + p) % RobDepth] ELSE Empty

CompletionInit ==
  /\ rob = [t \in RobTag |-> Empty] /\ head = 0 /\ tail = 0 /\ count = 0

(* An entry whose result arrives: done, and terminal if its branch faults. *)
CompletedEntry(e, r) ==
  [e EXCEPT !.done = TRUE, !.value = r.value, !.branch = r.branch,
            !.terminal = @ \/ r.branch.fault # FAULT_NONE,
            !.fault = IF r.branch.fault # FAULT_NONE THEN r.branch.fault ELSE @]

(* allocate: sequence of new entries; completions: set of results.         *)
CompletionTick(flush, allocate, completions, retire_count) ==
  LET Results(t) == {r \in completions : r.meta.tag = t}
      Allocated(t) == {p \in Lane : p < Len(allocate) /\ allocate_tag(p) = t}
      Retired(t) == \E p \in Lane : p < retire_count /\ t = (head + p) % RobDepth
      Edge(t) ==
        IF Allocated(t) # {} THEN allocate[1 + CHOOSE p \in Allocated(t) : TRUE]
        ELSE IF Retired(t) \/ rob[t] = Empty THEN Empty
        ELSE IF Results(t) # {} THEN CompletedEntry(rob[t], CHOOSE r \in Results(t) : TRUE)
        ELSE rob[t]
  IN IF flush
     THEN rob' = [t \in RobTag |-> Empty] /\ head' = 0 /\ tail' = 0 /\ count' = 0
     ELSE /\ rob' = [t \in RobTag |-> Edge(t)]
          /\ head' = (head + retire_count) % RobDepth
          /\ tail' = (tail + Len(allocate)) % RobDepth
          /\ count' = count + Len(allocate) - retire_count
=============================================================================
