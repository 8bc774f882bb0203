---- MODULE MCHarness ----
(***************************************************************************)
(* Instances of HarnessRuns for TLC.                                       *)
(***************************************************************************)
EXTENDS HarnessRuns

CONSTANTS p1, p2

MCPhases == {"new", "completed"}
MCTerminal == {"completed"}
====
