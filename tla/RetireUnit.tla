----------------------------- MODULE RetireUnit ----------------------------
(***************************************************************************)
(* Ordered retirement and termination (lib/retire_unit.sv): up to two done *)
(* entries leave the head of the completion queue; a terminal entry at the *)
(* head ends the program once the fetch unit is idle.                      *)
(***************************************************************************)
EXTENDS Tiny5

VARIABLES retired,                    \* what the retirement outputs show: the last edge's
          halted, fault, fault_code

retireVars == <<retired, halted, fault, fault_code>>

Done(entry) == entry # Empty /\ entry.done
MayRetire(hd0, suppress_retire) == ~halted /\ ~fault /\ Done(hd0) /\ ~suppress_retire

retire_count(hd0, hd1, suppress_retire, retire_limit) ==
  IF ~MayRetire(hd0, suppress_retire) \/ hd0.terminal THEN 0
  ELSE IF /\ ISSUE_WIDTH = 2 /\ retire_limit > 1 /\ ~hd0.serial
          /\ Done(hd1) /\ ~hd1.terminal /\ ~hd1.serial
       THEN 2 ELSE 1

finish_at_once(hd0, suppress_retire, fetch_idle) ==
  /\ MayRetire(hd0, suppress_retire) /\ hd0.terminal
  /\ ~ENABLE_TRAPS \/ hd0.fault = FAULT_NONE
finish(hd0, suppress_retire, fetch_idle) ==
  /\ MayRetire(hd0, suppress_retire) /\ hd0.terminal
  /\ ~ENABLE_TRAPS \/ hd0.fault = FAULT_NONE
  /\ fetch_idle

RetireInit == retired = <<>> /\ halted = FALSE /\ fault = FALSE /\ fault_code = FAULT_NONE

RetireReset_keeps_end == retired' = <<>> /\ UNCHANGED <<halted, fault, fault_code>>
RetireReset == retired' = <<>> /\ halted' = FALSE /\ fault' = FALSE /\ fault_code' = FAULT_NONE

RetireTick(hd, retiring, finishing, system_value) ==
  LET Shown(e) == [pc |-> e.meta.pc, rd |-> e.meta.rd,
                   value |-> IF e.serial /\ e.meta.rd # 0 THEN system_value ELSE e.value]
  IN /\ retired' = [i \in 1 .. retiring |-> Shown(hd[i - 1])]
     /\ halted' = IF finishing THEN hd[0].fault = FAULT_NONE ELSE halted
     /\ fault' = IF finishing THEN hd[0].fault # FAULT_NONE ELSE fault
     /\ fault_code' = IF finishing THEN hd[0].fault ELSE fault_code
=============================================================================
