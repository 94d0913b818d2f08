------------------------------ MODULE MCRunner ------------------------------
(* Instances of Runner for TLC: the owners of the runs.                     *)
EXTENDS RunnerPromises

CONSTANTS r1, r2, u1

OneRun   == {r1}
TwoRuns  == {r1, r2}
OneUser  == {u1}
OneOwner == [r \in Run |-> u1]
=============================================================================
