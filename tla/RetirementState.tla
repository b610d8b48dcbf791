--------------------------- MODULE RetirementState --------------------------
(***************************************************************************)
(* What the tests keep of a CPU's outputs (riscv_emulator/include/         *)
(* retirement_state.h, dual_retirement_scoreboard.h and                    *)
(* program_cycle_counter.h): the registers as the retired instructions     *)
(* leave them, the trace of these, and the cycles the program took.        *)
(***************************************************************************)
EXTENDS Tiny5, SequencesExt

clear == [registers |-> [r \in Arch |-> 0], events |-> <<>>, protocol_error |-> FALSE]

(* An event is [pc, rd, value]; a value for register 0 is an error.        *)
accept(s, event) ==
  [s EXCEPT !.events = Append(@, event),
            !.protocol_error = @ \/ (event.rd = 0 /\ event.value # 0),
            !.registers[event.rd] = IF event.rd = 0 THEN @ ELSE event.value]

(* The scoreboard at an edge.  The outputs it reads there are what they    *)
(* were before the edge; the older instruction is in lane 0.               *)
ScoreboardEdge(s, outputs) == FoldLeft(accept, s, outputs)

NoCycles == [cycles |-> 0, stopped |-> FALSE]
sample(c, terminated) ==
  IF c.stopped THEN c ELSE [cycles |-> c.cycles + 1, stopped |-> terminated]
=============================================================================
