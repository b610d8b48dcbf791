----------------------------- MODULE Testbench ------------------------------
(***************************************************************************)
(* The three CPUs with what the core tests attach to them                  *)
(* (rtl/sim/core_tests.cpp): a scoreboard on the retirement outputs of each*)
(* and a cycle counter on each of the two pipelines.                       *)
(***************************************************************************)
EXTENDS Lockstep, RetirementState

VARIABLES
  scoreboard, systemc_scoreboard, reference_scoreboard,
  rtl_cycles, systemc_cycles

monitorVars == <<scoreboard, systemc_scoreboard, reference_scoreboard, rtl_cycles, systemc_cycles>>
benchVars == <<lockstepVars, monitorVars>>

MonitorInit ==
  /\ scoreboard = clear /\ systemc_scoreboard = clear /\ reference_scoreboard = clear
  /\ rtl_cycles = NoCycles /\ systemc_cycles = NoCycles

(* The scoreboards run on the rising edge, the counters on the falling one *)
(* after it, when the outputs have their new values.                       *)
MonitorClock ==
  /\ scoreboard' = ScoreboardEdge(scoreboard, retired)
  /\ systemc_scoreboard' = ScoreboardEdge(systemc_scoreboard, cpu.retired)
  /\ reference_scoreboard' = ScoreboardEdge(reference_scoreboard, reference_retired)
  /\ rtl_cycles' = sample(rtl_cycles, halted' \/ fault')
  /\ systemc_cycles' = sample(systemc_cycles, cpu'.halted \/ cpu'.fault)

MonitorReset ==
  /\ scoreboard' = clear /\ systemc_scoreboard' = clear /\ reference_scoreboard' = clear
  /\ rtl_cycles' = NoCycles /\ systemc_cycles' = NoCycles

BenchInit == LockstepInit /\ MonitorInit
BenchNext ==
  /\ InterruptLine /\ ClockRuns
  /\ \/ AllClock /\ MonitorClock
     \/ AllReset /\ MonitorReset
BenchSpec == BenchInit /\ [][BenchNext]_benchVars

-----------------------------------------------------------------------------
(* What the tests check of a program (core_tests.cpp:348-405), whatever it *)
(* is and whenever reset struck before: the two pipelines retire what the  *)
(* reference CPU retires, in its order, each as far as it has come; once   *)
(* all three have stopped the traces, the registers and the ends are the   *)
(* same, and the pipelines took the same cycles.                           *)
Compatible(s, t) == IsPrefix(s, t) \/ IsPrefix(t, s)
AllStopped ==
  (halted \/ fault) /\ (cpu.halted \/ cpu.fault) /\ (reference_arch.halted \/ reference_arch.fault)

TestPasses ==
  /\ ~scoreboard.protocol_error /\ ~systemc_scoreboard.protocol_error
  /\ Compatible(scoreboard.events, reference_scoreboard.events)
  /\ Compatible(systemc_scoreboard.events, reference_scoreboard.events)
  /\ AllStopped =>
       /\ scoreboard = reference_scoreboard /\ systemc_scoreboard = reference_scoreboard
       /\ scoreboard.registers = reference_arch.x
       /\ rtl_cycles = systemc_cycles
       /\ <<halted, fault, fault_code>>
            = <<reference_arch.halted, reference_arch.fault, reference_arch.fault_code>>
=============================================================================
