------------------------- MODULE CheckpointHistory -------------------------
(* What the Checkpoint API promises: every thread has one linear history of *)
(* checkpoints, a new one is added only by a writer that named the current  *)
(* end of it, and an attempt of a run adds nothing once a newer attempt of  *)
(* that run has been let in.  Every addition is announced once.             *)
EXTENDS Integers, Sequences

CONSTANTS Thread, Run, Id, Epoch

VARIABLES
  history,    \* the checkpoints of each thread, oldest first
  fence,      \* the newest epoch let in for each run
  announced   \* the events about checkpoints in the order of the additions

hvars == <<history, fence, announced>>

Entry == [id : Id, run : Run, epoch : Epoch]

HInit ==
  /\ history = [t \in Thread |-> <<>>]
  /\ fence = [r \in Run |-> 0]
  /\ announced = <<>>

\* The identifier of a checkpoint is never used twice, in any thread
Unused(i) == \A t \in Thread : \A v \in DOMAIN history[t] : history[t][v].id # i

Extend(t, x) ==
  /\ x.epoch >= fence[x.run]
  /\ Unused(x.id)
  /\ history' = [history EXCEPT ![t] = Append(@, x)]
  /\ fence' = [fence EXCEPT ![x.run] = x.epoch]
  /\ announced' = Append(announced, [id |-> x.id, run |-> x.run, epoch |-> x.epoch,
                                     thread |-> t, version |-> Len(history[t]) + 1])

\* A replayed request of a newer attempt lets that attempt in
LetIn(r, e) ==
  /\ e > fence[r]
  /\ fence' = [fence EXCEPT ![r] = e]
  /\ UNCHANGED <<history, announced>>

HNext ==
  \/ \E t \in Thread, x \in Entry : Extend(t, x)
  \/ \E r \in Run, e \in Epoch : LetIn(r, e)

HSpec == HInit /\ [][HNext]_hvars
=============================================================================
