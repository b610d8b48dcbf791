--------------------------- MODULE BranchControl ---------------------------
(***************************************************************************)
(* The two branch policies.  Blocking (control/branch_control_blocking.sv):*)
(* nothing younger than a branch is dispatched until the branch has its    *)
(* result.  At retirement (control/branch_control_retire.sv): the          *)
(* sequential path is executed, and a taken branch retires alone and       *)
(* discards everything younger.                                            *)
(***************************************************************************)
EXTENDS Tiny5

VARIABLE pending        \* tag of the branch that blocks dispatch, or Empty

NoRedirect == [valid |-> FALSE, pc |-> 0]
TakenBranch(entry) == entry # Empty /\ entry.branch.valid /\ entry.branch.taken

dispatch_limit_lets_pass(decoded) == IF ~BRANCH_AT_RETIRE /\ pending # Empty THEN 0 ELSE 2
dispatch_limit(decoded) ==
  IF BRANCH_AT_RETIRE THEN 2
  ELSE IF pending # Empty THEN 0
  ELSE IF Len(decoded) > 0 /\ is_branch(decoded[1].op) THEN 1 ELSE 2

retire_limit_none(hd0, hd1) == 2
retire_limit(hd0, hd1) ==
  IF BRANCH_AT_RETIRE /\ (TakenBranch(hd0) \/ TakenBranch(hd1)) THEN 1 ELSE 2

(* A taken branch at the head is recovered as it retires.                  *)
retire_redirect(hd0, retire_count, finish) ==
  IF BRANCH_AT_RETIRE /\ ~finish /\ retire_count # 0 /\ TakenBranch(hd0) /\ ~hd0.terminal
  THEN [valid |-> TRUE, pc |-> hd0.branch.target] ELSE NoRedirect

(* The results of the pending branch that resolve it (a fault does not).   *)
Resolving(completions) ==
  {r \in completions : /\ pending # Empty /\ r.meta.tag = pending
                       /\ r.branch.valid /\ r.branch.fault = FAULT_NONE}

blocking_redirect(completions, finish) ==
  LET taken == {r \in Resolving(completions) : r.branch.taken}
  IN IF BRANCH_AT_RETIRE \/ finish \/ taken = {} THEN NoRedirect
     ELSE [valid |-> TRUE, pc |-> (CHOOSE r \in taken : TRUE).branch.target]

BranchInit == pending = Empty

(* dispatched: sequence of [op, tag] of the bundle.                        *)
BranchTick(finish, recovery, dispatched, completions) ==
  LET branches == {i \in DOMAIN dispatched : is_branch(dispatched[i].op)}
  IN pending' = IF BRANCH_AT_RETIRE \/ finish \/ recovery THEN Empty
                ELSE IF Resolving(completions) # {} THEN Empty
                ELSE IF branches = {} THEN pending
                ELSE dispatched[CHOOSE i \in branches : \A j \in branches : j <= i].tag
=============================================================================
