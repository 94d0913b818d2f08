---------------------------- MODULE MCSuspension ----------------------------
(* A small instance of the suspension saga.                                *)
EXTENDS Suspension

CONSTANTS r1, r2

\* A message's run, and the run its answer starts
TwoRuns == {r1, r2}

\* The agents reserve one identity per run, whichever attempt asks
OnePerRun == [x \in TwoRuns \X (1..MaxAttempts) |-> x[1]]
=============================================================================
