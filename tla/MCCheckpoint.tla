---------------------------- MODULE MCCheckpoint ----------------------------
(* Instance of Checkpoint for TLC: two runs that share one thread.  The     *)
(* second run has one attempt and uses one key.                             *)
EXTENDS Checkpoint, TLC

CONSTANTS r1, r2, t1, k1, k2, i1, i2, i3, c1, c2

ThreadOfRuns == [r \in Run |-> t1]
TwoRuns == {q \in Request : q.run = r2 => q.epoch = 1 /\ q.key = k1}
Symmetry == Permutations({c1, c2}) \cup Permutations({i1, i2, i3})
=============================================================================
