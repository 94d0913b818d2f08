---------------------------- MODULE RunnerProofs ----------------------------
(* Proofs about Runner, for every set of runs, every number of attempts and *)
(* every bound.                                                             *)
(*                                                                          *)
(* TypeOK is inductive by itself.  LeaseIsNewest, LeaseMatchesState and     *)
(* RetriesBounded are inductive together: the newest attempt is the only    *)
(* one that can be lost, failed or retried, and a run that is over holds no *)
(* lease, so no late writer finds its attempt in active_attempt_id.         *)
(*                                                                          *)
(* Two invariants rest on these.  ConfirmedOK follows a proposal and its    *)
(* confirmations from the inbox to the completion of the run.  ContainerInv *)
(* follows the containers: it holds where podman rm removes what it is told *)
(* to, which the theorems that need it assume (~RemovalFails), for the code *)
(* does not look at the exit code of the command.                           *)
(* What it says of a waiting run supposes that podman container exists does *)
(* not fail either (~ProbeFails), for the code reads an error as absence.   *)
EXTENDS Runner, FiniteSetTheorems, TLAPS

-----------------------------------------------------------------------------
(* Data.                                                                    *)

\* Replacing one element of a sequence, or none when the index is outside it,
\* keeps its type, its length and every other element.
LEMMA ReplaceInSeq ==
  ASSUME NEW S, NEW s \in Seq(S), NEW i, NEW v, i \in 1..Len(s) => v \in S
  PROVE  /\ [s EXCEPT ![i] = v] \in Seq(S)
         /\ Len([s EXCEPT ![i] = v]) = Len(s)
         /\ \A j \in 1..Len(s) : [s EXCEPT ![i] = v][j] = IF j = i THEN v ELSE s[j]
<1> DEFINE t == [s EXCEPT ![i] = v]
<1>1. s \in [1..Len(s) -> S] /\ Len(s) \in Nat /\ DOMAIN s = 1..Len(s)
  OBVIOUS
<1>2. t \in [1..Len(s) -> S]
  BY <1>1
<1>3. t \in Seq(S)
  BY <1>2, <1>1
<1>4. Len(t) = Len(s)
  BY <1>2, <1>3, <1>1
<1> QED
  BY <1>1, <1>3, <1>4

\* A row update keeps every attempt where it is, with its lease epoch.
SameAttempts ==
  /\ attempts' \in [Run -> Seq(AttemptRow)]
  /\ \A q \in Run : /\ Len(attempts'[q]) = Len(attempts[q])
                    /\ \A j \in 1..Len(attempts[q]) :
                         attempts'[q][j].epoch = attempts[q][j].epoch

\* Replacing one attempt row by one with the same epoch keeps all the others.
LEMMA UpdateRow ==
  ASSUME DbOK, NEW r \in Run, NEW a, NEW v,
         a \in 1..Len(attempts[r]) => v \in AttemptRow /\ v.epoch = attempts[r][a].epoch,
         attempts' = [attempts EXCEPT ![r][a] = v]
  PROVE  SameAttempts
<1>1. attempts \in [Run -> Seq(AttemptRow)]
  BY DEF DbOK
<1>2. attempts[r] \in Seq(AttemptRow)
  BY <1>1
<1>3. attempts'[r] = [attempts[r] EXCEPT ![a] = v]
      /\ \A q \in Run \ {r} : attempts'[q] = attempts[q]
  BY <1>1
<1>4. /\ attempts'[r] \in Seq(AttemptRow)
      /\ Len(attempts'[r]) = Len(attempts[r])
      /\ \A j \in 1..Len(attempts[r]) : attempts'[r][j] = IF j = a THEN v ELSE attempts[r][j]
  <2> DEFINE t == [attempts[r] EXCEPT ![a] = v]
  <2>1. a \in 1..Len(attempts[r]) => v \in AttemptRow
    OBVIOUS
  <2>2. /\ t \in Seq(AttemptRow)
        /\ Len(t) = Len(attempts[r])
        /\ \A j \in 1..Len(attempts[r]) : t[j] = IF j = a THEN v ELSE attempts[r][j]
    BY <1>2, <2>1, ReplaceInSeq
  <2> QED
    BY <1>3, <2>2
<1>5. attempts' \in [Run -> Seq(AttemptRow)]
  BY <1>1, <1>4
<1> QED
  BY <1>3, <1>4, <1>5 DEF SameAttempts

\* An update of a run's row, with its attempts as they are but for their state.
LEMMA RowUpdateOK ==
  ASSUME DbOK, SameAttempts, NEW r \in Run,
         NEW x \in {"failed", "cancelling", "cancelled"},
         \/ UNCHANGED state
         \/ state' = [state EXCEPT ![r] = x],
         active' = active \/ active' = [active EXCEPT ![r] = 0],
         outbox' = outbox \/ outbox' \in [Run -> Seq(Notice)],
         UNCHANGED <<epoch, completion, confirmed, inbox>>
  PROVE  DbOK'
<1>1. x \in RunState
  BY DEF RunState, Idle, Terminal, Counted
<1>2. state' \in [Run -> RunState] /\ active' \in [Run -> Nat]
  <2>1. state \in [Run -> RunState] /\ active \in [Run -> Nat]
    BY DEF DbOK
  <2> QED
    BY <1>1, <2>1
<1>3. attempts' \in [Run -> Seq(AttemptRow)]
  BY DEF SameAttempts
<1>4. outbox' \in [Run -> Seq(Notice)]
  BY DEF DbOK
<1> QED
  BY <1>2, <1>3, <1>4 DEF DbOK

\* The three updates of an attempt row: its state, its container, its output.
LEMMA UpdateState ==
  ASSUME DbOK, NEW r \in Run, NEW a, NEW x \in LiveAttempt \cup {"failed", "exited"},
         attempts' = [attempts EXCEPT ![r][a].state = x]
  PROVE  SameAttempts
<1> DEFINE v == [attempts[r][a] EXCEPT !.state = x]
<1>1. a \in 1..Len(attempts[r]) => v \in AttemptRow /\ v.epoch = attempts[r][a].epoch
  <2>1. attempts[r] \in Seq(AttemptRow)
    BY DEF DbOK
  <2>2. a \in 1..Len(attempts[r]) => attempts[r][a] \in AttemptRow
    BY <2>1
  <2> QED
    BY <2>2 DEF AttemptRow
<1>2. attempts' = [attempts EXCEPT ![r][a] = v]
  OBVIOUS
<1> QED
  BY <1>1, <1>2, UpdateRow

\* The same when the row learns its container or its first visible output.
LEMMA UpdateFlag ==
  ASSUME DbOK, NEW r \in Run, NEW a,
         \/ attempts' = [attempts EXCEPT ![r][a].recorded = TRUE]
         \/ attempts' = [attempts EXCEPT ![r][a].visible = TRUE]
  PROVE  SameAttempts
<1>0. a \in 1..Len(attempts[r]) => attempts[r][a] \in AttemptRow
  <2>1. attempts[r] \in Seq(AttemptRow)
    BY DEF DbOK
  <2> QED
    BY <2>1
<1>1. CASE attempts' = [attempts EXCEPT ![r][a].recorded = TRUE]
  <2> DEFINE v == [attempts[r][a] EXCEPT !.recorded = TRUE]
  <2>1. a \in 1..Len(attempts[r]) => v \in AttemptRow /\ v.epoch = attempts[r][a].epoch
    BY <1>0 DEF AttemptRow
  <2>2. attempts' = [attempts EXCEPT ![r][a] = v]
    BY <1>1
  <2> QED
    BY <2>1, <2>2, UpdateRow
<1>2. CASE attempts' = [attempts EXCEPT ![r][a].visible = TRUE]
  <2> DEFINE v == [attempts[r][a] EXCEPT !.visible = TRUE]
  <2>1. a \in 1..Len(attempts[r]) => v \in AttemptRow /\ v.epoch = attempts[r][a].epoch
    BY <1>0 DEF AttemptRow
  <2>2. attempts' = [attempts EXCEPT ![r][a] = v]
    BY <1>2
  <2> QED
    BY <2>1, <2>2, UpdateRow
<1> QED
  BY <1>1, <1>2

\* The empty snapshot names a run and no attempt.
LEMMA NoRowOK == NoRow \in Row /\ NoRow.att = 0
  BY RunnerAssumption DEF NoRow, Row

\* An idle task has the type of its local state.
LEMMA IdleTasksOK ==
  SchedIdle \in SchedState /\ ConsIdle \in ConsState /\ CancelIdle \in CancelState
  BY RunnerAssumption, NoRowOK
     DEF SchedIdle, SchedState, ConsIdle, ConsState, CancelIdle, CancelState,
         Event, Suspended, Attempt

\* A snapshot names the run and the attempt it was taken of.
LEMMA SnapshotOK ==
  ASSUME DbOK, NEW r \in Run, NEW a \in Nat, a = 0 \/ a \in 1..Len(attempts[r])
  PROVE  /\ Snapshot(r, a) \in Row
         /\ Snapshot(r, a).run = r /\ Snapshot(r, a).att = a
<1>1. CASE a = 0
  <2>1. Snapshot(r, a) = [NoRow EXCEPT !.run = r]
    BY <1>1 DEF Snapshot
  <2> QED
    BY <2>1, NoRowOK, <1>1 DEF Row
<1>2. CASE a # 0
  <2>1. attempts[r] \in Seq(AttemptRow)
    BY DEF DbOK
  <2>2. attempts[r][a] \in AttemptRow
    BY <1>2, <2>1
  <2> QED
    BY <1>2, <2>2 DEF Snapshot, Row, AttemptRow
<1> QED
  BY <1>1, <1>2

\* Removing a container or its network keeps the types of Podman's state.
LEMMA RemoveOK ==
  ASSUME PodOK, NEW r \in Run, NEW a, NEW known \in BOOLEAN, Remove(r, a, known)
  PROVE  PodOK'
<1>1. box' \in [Run -> [Attempt -> {"none", "created", "running", "exited"}]]
  <2>1. CASE box' = [box EXCEPT ![r][a] = "none"]
    BY <2>1 DEF PodOK
  <2>2. CASE UNCHANGED box
    BY <2>2 DEF PodOK
  <2> QED
    BY <2>1, <2>2 DEF Remove
<1>2. net' \in [Run -> SUBSET Nat]
  BY DEF PodOK, Remove
<1> QED
  BY <1>1, <1>2 DEF PodOK

\* The interruption of an attempt is a notice.
LEMMA InterruptedOK ==
  ASSUME NEW w \in Row
  PROVE  Interrupted(w) \in Seq(Notice)
<1>1. <<"message.interrupted", w.att>> \in Notice
  BY DEF Notice, Row
<1>2. \A n \in Notice : <<n>> \in Seq(Notice)
  OBVIOUS
<1> QED
  BY <1>1, <1>2 DEF Interrupted

-----------------------------------------------------------------------------
(* The inductive invariant.                                                 *)

\* While the scheduler starts, probes or gives up an attempt, it holds one.
SchedHoldsAttempt ==
  /\ sched.pc \in {"prepare", "create", "record", "start", "mark", "undo", "fail",
                   "inspect", "remove", "loss"} => sched.row.att # 0
  /\ \A w \in sched.rows : w.att # 0

\* An attempt publishes finitely many events, so it can count them.
SentFinite == \A r \in Run : IsFiniteSet(sent[r])

LeaseInv == LeaseIsNewest /\ LeaseMatchesState /\ RetriesBounded
Inv == TypeOK /\ LeaseInv /\ SchedHoldsAttempt /\ SentFinite

\* A step that leaves the database alone keeps all that is said of it.
LEMMA SameLedger ==
  ASSUME DbOK, LeaseInv, UNCHANGED db
  PROVE  DbOK' /\ LeaseInv'
  BY DEF DbOK, LeaseInv, LeaseIsNewest, LeaseMatchesState, RetriesBounded, db

\* While attempts stay where they are, a lease stays with the newest or ends.
LEMMA NewestKept ==
  ASSUME DbOK, LeaseIsNewest, SameAttempts, UNCHANGED epoch,
         \A q \in Run : active'[q] \in {0, active[q]}
  PROVE  LeaseIsNewest'
<1> SUFFICES ASSUME NEW q \in Run
             PROVE  /\ epoch'[q] = Len(attempts'[q])
                    /\ active'[q] # 0 => /\ active'[q] = Len(attempts'[q])
                                         /\ attempts'[q][active'[q]].epoch = epoch'[q]
  BY DEF LeaseIsNewest
<1>1. Len(attempts'[q]) = Len(attempts[q]) /\ attempts[q] \in Seq(AttemptRow)
  BY DEF SameAttempts, DbOK
<1>2. epoch'[q] = Len(attempts'[q])
  BY <1>1 DEF LeaseIsNewest
<1>3. ASSUME active'[q] # 0
      PROVE  active'[q] = Len(attempts'[q]) /\ attempts'[q][active'[q]].epoch = epoch'[q]
  <2>1. active'[q] = active[q] /\ active[q] # 0
    BY <1>3
  <2>2. active[q] = Len(attempts[q]) /\ attempts[q][active[q]].epoch = epoch[q]
    BY <2>1 DEF LeaseIsNewest
  <2>3. active[q] \in 1..Len(attempts[q])
    BY <1>1, <2>1, <2>2
  <2>4. attempts'[q][active[q]].epoch = attempts[q][active[q]].epoch
    BY <2>3 DEF SameAttempts
  <2> QED
    BY <1>1, <2>1, <2>2, <2>4
<1> QED
  BY <1>2, <1>3

\* An update of attempt rows that leaves the run row alone keeps the lease.
LEMMA SameRunRow ==
  ASSUME DbOK, LeaseInv, SameAttempts, UNCHANGED <<state, active, epoch>>
  PROVE  LeaseInv'
<1>1. LeaseIsNewest'
  BY NewestKept DEF LeaseInv
<1>2. LeaseMatchesState'
  BY DEF LeaseInv, LeaseMatchesState
<1>3. RetriesBounded'
  BY DEF LeaseInv, RetriesBounded, SameAttempts
<1> QED
  BY <1>1, <1>2, <1>3 DEF LeaseInv

\* So does one that ends a lease; the run is started again only if it may be.
LEMMA EndLease ==
  ASSUME DbOK, LeaseInv, SameAttempts, NEW r \in Run, NEW s \in RunState,
         s = "scheduled" => Len(attempts[r]) < MaxAttempts,
         s \in {"scheduled", "waiting_for_input", "completed", "failed", "cancelled"},
         state' = [state EXCEPT ![r] = s],
         active' = [active EXCEPT ![r] = 0], UNCHANGED epoch
  PROVE  LeaseInv'
<1>1. LeaseIsNewest'
  <2>1. \A q \in Run : active'[q] \in {0, active[q]}
    BY DEF DbOK
  <2> QED
    BY <2>1, NewestKept DEF LeaseInv
<1>2. LeaseMatchesState'
  BY DEF DbOK, LeaseInv, LeaseMatchesState
<1>3. RetriesBounded'
  BY DEF DbOK, LeaseInv, RetriesBounded, SameAttempts
<1> QED
  BY <1>1, <1>2, <1>3 DEF LeaseInv

\* And one that moves a run that holds its lease to another state with a lease.
LEMMA KeepLease ==
  ASSUME DbOK, LeaseInv, SameAttempts, NEW r \in Run, NEW s \in RunState,
         s = "cancelling" \/ (s \notin Idle /\ active[r] # 0),
         state' = [state EXCEPT ![r] = s], UNCHANGED <<active, epoch>>
  PROVE  LeaseInv'
<1>1. LeaseIsNewest'
  BY NewestKept DEF LeaseInv
<1>2. LeaseMatchesState'
  BY DEF DbOK, LeaseInv, LeaseMatchesState, Idle, Terminal
<1>3. RetriesBounded'
  BY DEF DbOK, LeaseInv, RetriesBounded, SameAttempts, Idle
<1> QED
  BY <1>1, <1>2, <1>3 DEF LeaseInv

-----------------------------------------------------------------------------
(* The ledger: runs, attempts, leases.                                      *)

\* admit: a new run is accepted without an attempt.
LEMMA AdmitStep ==
  ASSUME Inv, NEW r \in Run, Admit(r)
  PROVE  DbOK' /\ LeaseInv'
<1>1. DbOK /\ LeaseInv
  BY DEF Inv, TypeOK
<1>2. <<"run.command.schedule">> \in Notice
  BY DEF Notice
<1>3. outbox' \in [Run -> Seq(Notice)]
  BY <1>1, <1>2 DEF Admit, DbOK
<1>4. DbOK'
  BY <1>1, <1>3 DEF Admit, DbOK, RunState, Idle
<1>5. LeaseIsNewest'
  BY <1>1 DEF Admit, LeaseInv, LeaseIsNewest
<1>6. LeaseMatchesState'
  BY <1>1 DEF Admit, DbOK, LeaseInv, LeaseMatchesState, Idle
<1>7. RetriesBounded'
  BY <1>1 DEF Admit, DbOK, LeaseInv, RetriesBounded
<1> QED
  BY <1>4, <1>5, <1>6, <1>7 DEF LeaseInv

\* schedule: the new attempt is the newest and gets the next epoch.
LEMMA ScheduleStep ==
  ASSUME Inv, NEW r \in Run, Schedule(r)
  PROVE  DbOK' /\ LeaseInv'
<1> DEFINE row == NewAttempt(r)
<1>1. DbOK /\ LeaseInv
  BY DEF Inv, TypeOK
<1>2. epoch'[r] = epoch[r] + 1 /\ epoch' \in [Run -> Nat] /\ epoch[r] = Len(attempts[r])
  BY <1>1 DEF Schedule, DbOK, LeaseInv, LeaseIsNewest
<1>3. row \in AttemptRow /\ row.epoch = epoch'[r]
  BY <1>2 DEF NewAttempt, AttemptRow, LiveAttempt
<1>4. attempts[r] \in Seq(AttemptRow) /\ attempts \in [Run -> Seq(AttemptRow)]
  BY <1>1 DEF DbOK
<1>5. attempts' = [attempts EXCEPT ![r] = Append(@, row)]
  BY DEF Schedule
<1> HIDE DEF row
<1>6. /\ attempts' \in [Run -> Seq(AttemptRow)]
      /\ Len(attempts'[r]) = Len(attempts[r]) + 1
      /\ attempts'[r][Len(attempts[r]) + 1] = row
      /\ \A q \in Run \ {r} : attempts'[q] = attempts[q]
  BY <1>3, <1>4, <1>5
<1>7. state[r] \in {"accepted", "scheduled"} /\ Len(attempts[r]) < MaxAttempts
  BY <1>1 DEF Schedule, Schedulable, Candidates, LeaseInv, RetriesBounded
<1>8. /\ state' = [state EXCEPT ![r] = "starting"]
      /\ active' = [active EXCEPT ![r] = Len(attempts[r]) + 1]
      /\ UNCHANGED <<completion, confirmed, inbox, outbox>>
  BY DEF Schedule
<1>9. DbOK'
  BY <1>1, <1>2, <1>4, <1>6, <1>8 DEF DbOK, RunState, Counted
<1>10. LeaseIsNewest'
  <2>1. ASSUME NEW q \in Run \ {r}
        PROVE  attempts'[q] = attempts[q] /\ epoch'[q] = epoch[q] /\ active'[q] = active[q]
    BY <1>1, <1>6, <1>8 DEF DbOK, Schedule
  <2>2. /\ active'[r] = Len(attempts'[r]) /\ epoch'[r] = Len(attempts'[r])
        /\ attempts'[r][active'[r]].epoch = epoch'[r]
    BY <1>1, <1>2, <1>3, <1>6, <1>8 DEF DbOK
  <2> QED
    BY <1>1, <2>1, <2>2 DEF LeaseInv, LeaseIsNewest
<1>11. LeaseMatchesState'
  BY <1>1, <1>4, <1>8 DEF DbOK, LeaseInv, LeaseMatchesState, Idle, Terminal
<1>12. RetriesBounded'
  BY <1>1, <1>4, <1>6, <1>7, <1>8, RunnerAssumption DEF DbOK, LeaseInv, RetriesBounded
<1> QED
  BY <1>9, <1>10, <1>11, <1>12 DEF LeaseInv

\* _start_attempt: the container is recorded in the attempt row.
LEMMA RecordStep ==
  ASSUME Inv, RecordContainer
  PROVE  DbOK' /\ LeaseInv'
<1>1. DbOK /\ LeaseInv /\ sched.row.run \in Run
  BY DEF Inv, TypeOK, TaskOK, SchedState, Row
<1>2. SameAttempts
  BY <1>1, UpdateFlag DEF RecordContainer
<1>3. DbOK'
  BY <1>1, <1>2 DEF RecordContainer, DbOK, SameAttempts
<1> QED
  BY <1>1, <1>2, <1>3, SameRunRow DEF RecordContainer

\* _start_attempt: the run is marked running only under the lease of the attempt.
LEMMA MarkStep ==
  ASSUME Inv, MarkRunning
  PROVE  DbOK' /\ LeaseInv'
<1> DEFINE r == sched.row.run
           a == sched.row.att
<1>1. DbOK /\ LeaseInv /\ r \in Run /\ a # 0
  BY DEF Inv, TypeOK, TaskOK, SchedState, Row, SchedHoldsAttempt, MarkRunning
<1>2. CASE UNCHANGED <<attempts, state>>
  BY <1>1, <1>2, SameLedger DEF MarkRunning, db
<1>3. CASE /\ attempts' = [attempts EXCEPT ![r][a].state = "running"]
           /\ state' = [state EXCEPT ![r] = IF active[r] = a THEN "running" ELSE @]
  <2>1. SameAttempts
    BY <1>1, <1>3, UpdateState DEF LiveAttempt
  <2>2. DbOK'
    BY <1>1, <1>3, <2>1 DEF MarkRunning, DbOK, SameAttempts, RunState, Counted
  <2>3. CASE active[r] = a
    BY <1>1, <1>3, <2>1, <2>2, <2>3, KeepLease
       DEF MarkRunning, RunState, Counted, Idle, Terminal
  <2>4. CASE active[r] # a
    <3>1. UNCHANGED <<state, active, epoch>>
      BY <1>1, <1>3, <2>4 DEF MarkRunning, DbOK
    <3> QED
      BY <1>1, <2>1, <2>2, <3>1, SameRunRow
  <2> QED
    BY <2>3, <2>4
<1> QED
  BY <1>2, <1>3 DEF MarkRunning, HasLease

\* _fail_start: a failed start ends the lease it still holds.
LEMMA FailStep ==
  ASSUME Inv, FailStart
  PROVE  DbOK' /\ LeaseInv'
<1> DEFINE r == sched.row.run
           a == sched.row.att
<1>1. DbOK /\ LeaseInv /\ r \in Run
  BY DEF Inv, TypeOK, TaskOK, SchedState, Row
<1>2. SameAttempts
  BY <1>1, UpdateState DEF FailStart
<1>3. DbOK'
  <2>1. \/ state' = [state EXCEPT ![r] = "failed"] /\ active' = [active EXCEPT ![r] = 0]
        \/ UNCHANGED <<state, active>>
    BY DEF FailStart
  <2>2. UNCHANGED <<epoch, completion, confirmed, inbox, outbox>>
    BY DEF FailStart
  <2> HIDE DEF r, a
  <2> QED
    BY <1>1, <1>2, <2>1, <2>2, RowUpdateOK
<1>4. CASE active[r] = a
  BY <1>1, <1>2, <1>3, <1>4, EndLease DEF FailStart, HasLease, RunState, Idle, Terminal
<1>5. CASE active[r] # a
  BY <1>1, <1>2, <1>3, <1>5, SameRunRow DEF FailStart, HasLease
<1> QED
  BY <1>4, <1>5

\* _handle_attempt_loss: a lost attempt ends its lease and may be followed by another.
LEMMA LossStep ==
  ASSUME Inv, HandleAttemptLoss
  PROVE  DbOK' /\ LeaseInv'
<1> DEFINE w == sched.row
           s == IF ~w.visible /\ RetryAllowed(w.run, w.att) THEN "scheduled" ELSE "failed"
<1>1. DbOK /\ LeaseInv /\ w \in Row /\ w.run \in Run /\ w.att \in Nat \ {0}
  BY DEF Inv, TypeOK, TaskOK, SchedState, Row, SchedHoldsAttempt, HandleAttemptLoss
<1>2. SameAttempts
  BY <1>1, UpdateState DEF HandleAttemptLoss
<1>3. Interrupted(w) \in Seq(Notice)
  BY <1>1, InterruptedOK
<1>4. outbox' \in [Run -> Seq(Notice)]
  BY <1>1, <1>3 DEF HandleAttemptLoss, DbOK
<1>5. DbOK'
  <2>1. state' \in [Run -> RunState] /\ active' \in [Run -> Nat]
    <3>1. s \in RunState
      BY DEF RunState, Idle, Terminal
    <3>2. /\ state' = state \/ state' = [state EXCEPT ![w.run] = s]
          /\ active' = active \/ active' = [active EXCEPT ![w.run] = 0]
      BY DEF HandleAttemptLoss
    <3> HIDE DEF s
    <3>3. state' \in [Run -> RunState]
      BY <1>1, <3>1, <3>2 DEF DbOK
    <3>4. active' \in [Run -> Nat]
      <4>1. active \in [Run -> Nat]
        BY <1>1 DEF DbOK
      <4>2. CASE active' = active
        BY <4>1, <4>2
      <4>3. CASE active' = [active EXCEPT ![w.run] = 0]
        BY <4>1, <4>3
      <4> QED
        BY <3>2, <4>2, <4>3
    <3> QED
      BY <3>3, <3>4
  <2> QED
    BY <1>1, <1>2, <1>4, <2>1 DEF HandleAttemptLoss, DbOK, SameAttempts
<1>6. CASE active[w.run] = w.att
  <2>1. active[w.run] = Len(attempts[w.run])
    BY <1>1, <1>6 DEF LeaseInv, LeaseIsNewest
  <2>2. s = "scheduled" => Len(attempts[w.run]) < MaxAttempts
    BY <1>6, <2>1 DEF RetryAllowed
  <2>3. /\ state' = [state EXCEPT ![w.run] = s]
        /\ active' = [active EXCEPT ![w.run] = 0]
        /\ UNCHANGED epoch
    BY <1>6 DEF HandleAttemptLoss, HasLease
  <2>4. s \in {"scheduled", "failed"}
    OBVIOUS
  <2> HIDE DEF s
  <2> QED
    BY <1>1, <1>2, <1>5, <2>2, <2>3, <2>4, EndLease DEF RunState, Idle, Terminal
<1>7. CASE active[w.run] # w.att
  BY <1>1, <1>2, <1>5, <1>7, SameRunRow DEF HandleAttemptLoss, HasLease
<1> QED
  BY <1>6, <1>7

\* cancel, first transaction: the lease is kept while the container stops.
LEMMA RequestCancelStep ==
  ASSUME Inv, NEW c \in Canceller, NEW r \in Run, RequestCancel(c, r)
  PROVE  DbOK' /\ LeaseInv'
<1>1. DbOK /\ LeaseInv /\ active[r] \in Nat
  BY DEF Inv, TypeOK, DbOK
<1>2. active[r] = 0 \/ active[r] \in 1..Len(attempts[r])
  <2>1. attempts[r] \in Seq(AttemptRow)
    BY <1>1 DEF DbOK
  <2> QED
    BY <1>1, <2>1 DEF LeaseInv, LeaseIsNewest
<1>3. SameAttempts
  <2>1. CASE attempts' = attempts
    BY <1>1, <2>1 DEF SameAttempts, DbOK
  <2>2. CASE attempts' = [attempts EXCEPT ![r][active[r]].state = "stopping"]
    BY <1>1, <2>2, UpdateState DEF LiveAttempt
  <2>3. Snapshot(r, active[r]).att = active[r]
    BY <1>1, <1>2, SnapshotOK
  <2>4. \/ attempts' = attempts
        \/ attempts' = [attempts EXCEPT ![r][active[r]].state = "stopping"]
    BY <2>3 DEF RequestCancel
  <2> QED
    BY <2>1, <2>2, <2>4
<1>4. DbOK'
  <2>1. state' = [state EXCEPT ![r] = "cancelling"]
        /\ UNCHANGED <<active, epoch, completion, confirmed, inbox, outbox>>
    BY DEF RequestCancel
  <2> QED
    BY <1>1, <1>3, <2>1, RowUpdateOK
<1> QED
  BY <1>1, <1>3, <1>4, KeepLease DEF RequestCancel, RunState, Counted

\* cancel, last transaction: the lease ends with the run.
LEMMA CloseCancelStep ==
  ASSUME Inv, NEW c \in Canceller, CloseCancel(c)
  PROVE  DbOK' /\ LeaseInv'
<1> DEFINE w == cancel[c].row
<1>1. DbOK /\ LeaseInv /\ w \in Row /\ w.run \in Run
  BY DEF Inv, TypeOK, TaskOK, CancelState, Row
<1>2. SameAttempts
  <2>1. CASE attempts' = attempts
    BY <1>1, <2>1 DEF SameAttempts, DbOK
  <2>2. CASE attempts' = [attempts EXCEPT ![w.run][w.att].state = "exited"]
    BY <1>1, <2>2, UpdateState
  <2> QED
    BY <2>1, <2>2 DEF CloseCancel
<1>3. outbox' \in [Run -> Seq(Notice)]
  <2>1. Interrupted(w) \in Seq(Notice)
    BY <1>1, InterruptedOK
  <2>2. <<<<"run.cancelled">>>> \in Seq(Notice)
    BY DEF Notice
  <2>3. outbox[w.run] \in Seq(Notice) /\ outbox \in [Run -> Seq(Notice)]
    BY <1>1 DEF DbOK
  <2>4. outbox[w.run] \o Interrupted(w) \o <<<<"run.cancelled">>>> \in Seq(Notice)
    BY <2>1, <2>2, <2>3
  <2> QED
    BY <2>3, <2>4 DEF CloseCancel
<1>4. DbOK'
  <2>1. \/ /\ state' = [state EXCEPT ![w.run] = "cancelled"]
           /\ active' = [active EXCEPT ![w.run] = 0]
        \/ UNCHANGED <<state, active>>
    BY DEF CloseCancel
  <2>2. UNCHANGED <<epoch, completion, confirmed, inbox>>
    BY DEF CloseCancel
  <2> HIDE DEF w
  <2> QED
    BY <1>1, <1>2, <1>3, <2>1, <2>2, RowUpdateOK
<1>5. CASE state[w.run] = "cancelling"
  BY <1>1, <1>2, <1>4, <1>5, EndLease DEF CloseCancel, RunState, Idle, Terminal
<1>6. CASE state[w.run] # "cancelling"
  BY <1>1, <1>2, <1>4, <1>6, SameRunRow DEF CloseCancel
<1> QED
  BY <1>5, <1>6

\* consume_run_event: visible output is noted in the attempt row.
LEMMA ConsumeStartedStep ==
  ASSUME Inv, NEW r \in Run, NEW e \in pending[r], ConsumeStarted(r, e)
  PROVE  DbOK' /\ LeaseInv'
<1>1. DbOK /\ LeaseInv /\ e \in Event
  BY DEF Inv, TypeOK, BusOK
<1>2. SameAttempts
  BY <1>1, UpdateFlag DEF ConsumeStarted
<1>3. DbOK'
  BY <1>1, <1>2 DEF ConsumeStarted, DbOK, SameAttempts
<1> QED
  BY <1>1, <1>2, <1>3, SameRunRow DEF ConsumeStarted

\* The completion row and the confirmation row keep their types.
LEMMA WithProposalOK ==
  ASSUME NEW p \in CompletionRow, NEW e \in Event
  PROVE  WithProposal(p, e) \in CompletionRow
<1>1. CASE e.type = "result_proposed"
  <2>1. e \in [type : {"result_proposed"}, att : Attempt, epoch : Nat, msgs : BOOLEAN, ckpt : Nat]
    BY <1>1 DEF Event
  <2>2. e.att \in Nat /\ e.epoch \in Nat /\ e.msgs \in BOOLEAN /\ e.ckpt \in Nat
    BY <2>1, RunnerAssumption DEF Attempt
  <2>3. p.att = 0 => WithProposal(p, e) = [att |-> e.att, epoch |-> e.epoch, msgs |-> e.msgs,
                       ckpt |-> e.ckpt, messagesOk |-> FALSE, checkpointOk |-> FALSE]
    BY <1>1 DEF WithProposal, NoProposal
  <2>4. p.att # 0 => WithProposal(p, e) = p
    BY DEF WithProposal
  <2>5. [att |-> e.att, epoch |-> e.epoch, msgs |-> e.msgs,
         ckpt |-> e.ckpt, messagesOk |-> FALSE, checkpointOk |-> FALSE] \in CompletionRow
    BY <2>2 DEF CompletionRow
  <2> QED
    BY <2>3, <2>4, <2>5
<1> QED
  BY <1>1 DEF WithProposal

\* A confirmation replaces the one kept of its kind.
LEMMA WithConfirmationOK ==
  ASSUME NEW f \in ConfirmationRow, NEW e \in Event
  PROVE  WithConfirmation(f, e) \in ConfirmationRow
<1>1. CASE e.type = "messages_committed"
  <2>1. e.att \in Nat
    BY <1>1, RunnerAssumption DEF Event, Attempt
  <2> QED
    BY <1>1, <2>1 DEF WithConfirmation, ConfirmationRow
<1>2. CASE e.type = "checkpoint_committed"
  <2>1. e \in [type : {"checkpoint_committed"}, att : Attempt, ckpt : Nat]
    BY <1>2 DEF Event
  <2>2. <<e.att, e.ckpt>> \in Nat \X Nat
    BY <2>1, RunnerAssumption DEF Attempt
  <2> QED
    BY <1>2, <2>2 DEF WithConfirmation, ConfirmationRow
<1> QED
  BY <1>1, <1>2 DEF WithConfirmation

\* _converge never changes which attempt the proposal names.
LEMMA RederivedOK ==
  ASSUME NEW p \in CompletionRow, NEW f
  PROVE  Rederived(p, f) \in CompletionRow /\ Rederived(p, f).att = p.att
<1>1. MessagesMatch(p, f.messages) \in BOOLEAN
  BY DEF MessagesMatch, CompletionRow
<1>2. CheckpointMatch(p, f.checkpoint[1], f.checkpoint[2]) \in BOOLEAN
  BY DEF CheckpointMatch
<1> QED
  BY <1>1, <1>2 DEF Rederived, CompletionRow

\* consume_run_event: a proposal keeps its lease until the run is completed.
LEMMA ConsumeRunEventStep ==
  ASSUME Inv, NEW r \in Run, NEW e \in pending[r], ConsumeRunEvent(r, e)
  PROVE  DbOK' /\ LeaseInv'
<1> DEFINE kept == WithConfirmation(confirmed[r], e)
           p == Rederived(WithProposal(completion[r], e), kept)
           proposes == /\ e.type = "result_proposed" /\ completion[r].att = 0
                       /\ state[r] \notin Terminal
           st == IF proposes THEN "completion_reconciling" ELSE state[r]
           ready == p.att # 0 /\ st \notin Terminal /\ Ready(p)
           done == ready /\ st = "completion_reconciling"
<1>1. DbOK /\ LeaseInv /\ e \in Event /\ state[r] \in RunState
  BY DEF Inv, TypeOK, BusOK, DbOK
<1>2. kept \in ConfirmationRow /\ p \in CompletionRow
  BY <1>1, WithConfirmationOK, WithProposalOK, RederivedOK DEF DbOK
<1>3. proposes => active[r] # 0
  <2>1. e.type = "result_proposed" => e.att \in Attempt
    BY <1>1 DEF Event
  <2> QED
    BY <2>1 DEF ConsumeRunEvent, Accepts, HoldsLease, HasLease, Attempt
<1>4. /\ inbox' = [inbox EXCEPT ![r] = @ \cup {e}]
      /\ confirmed' = [confirmed EXCEPT ![r] = kept]
      /\ completion' = [completion EXCEPT ![r] = p]
      /\ attempts' = IF ready THEN [attempts EXCEPT ![r][p.att].state = "exited"] ELSE attempts
      /\ state' = [state EXCEPT ![r] = IF done THEN "completed" ELSE st]
      /\ active' = [active EXCEPT ![r] = IF done THEN 0 ELSE @]
      /\ outbox' = [outbox EXCEPT ![r] = IF done THEN Append(@, <<"run.completed">>) ELSE @]
      /\ UNCHANGED epoch
  BY DEF ConsumeRunEvent
<1>5. st \in RunState /\ (st # state[r] => st = "completion_reconciling" /\ active[r] # 0)
  BY <1>1, <1>3 DEF RunState
<1>6. done => st = "completion_reconciling"
  OBVIOUS
<1>7. ready \in BOOLEAN /\ done \in BOOLEAN
  BY DEF Ready
<1> HIDE DEF kept, p, st, ready, done, proposes
<1>8. SameAttempts
  <2>1. CASE ready
    BY <1>1, <1>4, <2>1, UpdateState
  <2>2. CASE ~ready
    BY <1>1, <1>4, <2>2 DEF SameAttempts, DbOK
  <2> QED
    BY <2>1, <2>2
<1>9. DbOK'
  <2>1. state' \in [Run -> RunState]
    BY <1>1, <1>4, <1>5 DEF DbOK, RunState, Idle, Terminal
  <2>2. active' \in [Run -> Nat] /\ epoch' \in [Run -> Nat]
    BY <1>1, <1>4 DEF DbOK
  <2>3. outbox' \in [Run -> Seq(Notice)]
    <3>1. <<"run.completed">> \in Notice
      BY DEF Notice
    <3>2. outbox[r] \in Seq(Notice) /\ Append(outbox[r], <<"run.completed">>) \in Seq(Notice)
      BY <1>1, <3>1 DEF DbOK
    <3> QED
      BY <1>1, <1>4, <3>2 DEF DbOK
  <2>4. /\ inbox' \in [Run -> SUBSET Event]
        /\ confirmed' \in [Run -> ConfirmationRow]
        /\ completion' \in [Run -> CompletionRow]
    BY <1>1, <1>2, <1>4 DEF DbOK
  <2> QED
    BY <1>8, <2>1, <2>2, <2>3, <2>4 DEF DbOK, SameAttempts
<1>10. CASE done
  <2>1. state' = [state EXCEPT ![r] = "completed"] /\ active' = [active EXCEPT ![r] = 0]
    BY <1>4, <1>10
  <2> QED
    BY <1>1, <1>4, <1>8, <1>9, <2>1, EndLease DEF RunState, Idle, Terminal
<1>11. CASE ~done /\ st # state[r]
  <2>1. state' = [state EXCEPT ![r] = "completion_reconciling"] /\ UNCHANGED <<active, epoch>>
    BY <1>1, <1>4, <1>5, <1>11 DEF DbOK
  <2> QED
    BY <1>1, <1>5, <1>8, <1>9, <1>11, <2>1, KeepLease DEF RunState, Idle, Terminal
<1>12. CASE ~done /\ st = state[r]
  <2>1. UNCHANGED <<state, active, epoch>>
    BY <1>1, <1>4, <1>12 DEF DbOK
  <2> QED
    BY <1>1, <1>8, <1>9, <2>1, SameRunRow
<1> QED
  BY <1>9, <1>10, <1>11, <1>12

\* suspend, first transaction: the lease is kept while the container stops.
LEMMA BeginSuspendStep ==
  ASSUME Inv, NEW r \in Run, NEW e \in pending[r], BeginSuspend(r, e)
  PROVE  DbOK' /\ LeaseInv'
<1>1. DbOK /\ LeaseInv /\ e \in Event
  BY DEF Inv, TypeOK, BusOK
<1>2. SameAttempts
  BY <1>1, UpdateState DEF BeginSuspend, LiveAttempt
<1>3. DbOK'
  BY <1>1, <1>2 DEF BeginSuspend, DbOK, SameAttempts, RunState, Counted
<1>4. active[r] # 0
  BY <1>1 DEF BeginSuspend, CanSuspend, LeaseInv, LeaseMatchesState
<1> QED
  BY <1>1, <1>2, <1>3, <1>4, KeepLease DEF BeginSuspend, RunState, Counted, Idle, Terminal

\* suspend, last transaction: a waiting run holds no lease.
LEMMA CloseSuspendStep ==
  ASSUME Inv, CloseSuspend
  PROVE  DbOK' /\ LeaseInv'
<1> DEFINE w == cons.row
<1>1. DbOK /\ LeaseInv /\ w.run \in Run
  BY DEF Inv, TypeOK, TaskOK, ConsState, Row
<1>2. SameAttempts
  BY <1>1, UpdateState DEF CloseSuspend
<1>3. DbOK'
  <2>1. state' \in [Run -> RunState]
    BY <1>1 DEF CloseSuspend, DbOK, RunState, Idle
  <2>2. active' \in [Run -> Nat]
    <3>1. active \in [Run -> Nat]
      BY <1>1 DEF DbOK
    <3>2. CASE active' = active
      BY <3>1, <3>2
    <3>3. CASE active' = [active EXCEPT ![w.run] = 0]
      BY <3>1, <3>3
    <3> QED
      BY <3>2, <3>3 DEF CloseSuspend
  <2> QED
    BY <1>1, <1>2, <2>1, <2>2 DEF CloseSuspend, DbOK, SameAttempts
<1>4. CASE state[w.run] = "suspending"
  BY <1>1, <1>2, <1>3, <1>4, EndLease DEF CloseSuspend, RunState, Idle
<1>5. CASE state[w.run] # "suspending"
  BY <1>1, <1>2, <1>3, <1>5, SameRunRow DEF CloseSuspend
<1> QED
  BY <1>4, <1>5

\* Every other step leaves the database as it is.
LEMMA OtherSteps ==
  ASSUME Inv,
         \/ FetchBatch \/ PrepareStart \/ CreateContainer \/ StartContainer \/ UndoStart
         \/ ReadRows \/ ProbeRow \/ InspectRow \/ RemoveLost
         \/ ReadRecorded \/ ListManaged \/ SweepOrphan
         \/ StopSuspended \/ Crash
         \/ UNCHANGED vars
         \/ \E r \in Run : SkipSchedule(r) \/ DeadlinePasses(r)
         \/ \E c \in Canceller : CancelRemove(c)
         \/ \E r \in Run : \E e \in pending[r] : Discard(r, e)
         \/ \E r \in Run, a \in Attempt : Agent(r, a)
  PROVE  DbOK' /\ LeaseInv'
<1>1. UNCHANGED db
  BY Zenon DEF FetchBatch, PrepareStart, CreateContainer, StartContainer, UndoStart,
     ReadRows, ProbeRow, InspectRow, RemoveLost, ReadRecorded, ListManaged, SweepOrphan,
     StopSuspended, Crash, SkipSchedule, DeadlinePasses, CancelRemove, Discard, Agent,
     StartMessage, CommitCheckpoint, ProposeResult, CommitSuspension, ExitContainer,
     CommitMessages, vars
<1> QED
  BY <1>1, SameLedger DEF Inv, TypeOK

\* The database and its leases, over every step.
LEMMA LedgerStep ==
  ASSUME Inv, [Next]_vars
  PROVE  DbOK' /\ LeaseInv'
  BY AdmitStep, ScheduleStep, RecordStep, MarkStep, FailStep, LossStep, RequestCancelStep,
     CloseCancelStep, ConsumeStartedStep, ConsumeRunEventStep, BeginSuspendStep,
     CloseSuspendStep, OtherSteps
     DEF Next, Scheduler, Consume

-----------------------------------------------------------------------------
(* Containers and events.                                                   *)

\* Every container the Runner or the agent touches belongs to a known attempt.
LEMMA PodStep ==
  ASSUME Inv, [Next]_vars
  PROVE  PodOK'
<1>1. PodOK /\ sched \in SchedState /\ cons \in ConsState
      /\ cancel \in [Canceller -> CancelState]
  BY DEF Inv, TypeOK, TaskOK
<1>2. /\ sched.row \in Row /\ cons.row \in Row
      /\ sched.known \in SUBSET (Run \X Attempt)
      /\ \A c \in Canceller : cancel[c].row \in Row
  BY <1>1 DEF SchedState, ConsState, CancelState
<1>3. \A w \in Row : w.run \in Run /\ w.recorded \in BOOLEAN /\ w.att \in Nat
  BY DEF Row
<1>4. CASE UNCHANGED pod
  BY <1>1, <1>4 DEF PodOK, pod
<1>5. CASE CreateContainer
  BY <1>1, <1>2, <1>3, <1>5 DEF CreateContainer, PodOK, pod
<1>6. CASE StartContainer
  BY <1>1, <1>2, <1>3, <1>6 DEF StartContainer, PodOK
<1>7. CASE UndoStart \/ RemoveLost
  BY <1>1, <1>2, <1>3, <1>7, RemoveOK DEF UndoStart, RemoveLost
<1>8. CASE SweepOrphan
  <2>1. CASE sched.known = {}
    BY <1>4, <1>8, <2>1 DEF SweepOrphan
  <2>2. ASSUME NEW ra \in sched.known, Remove(ra[1], ra[2], TRUE)
        PROVE  PodOK'
    <3>1. ra \in Run \X Attempt
      BY <1>2, <2>2
    <3>2. ra[1] \in Run
      BY <3>1
    <3> QED
      BY <1>1, <2>2, <3>2, RemoveOK
  <2> QED
    BY <1>8, <2>1, <2>2 DEF SweepOrphan
<1>9. ASSUME NEW c \in Canceller, CancelRemove(c)
      PROVE  PodOK'
  BY <1>1, <1>2, <1>3, <1>9, RemoveOK DEF CancelRemove
<1>10. CASE StopSuspended
  <2>1. UNCHANGED pod \/ Remove(cons.row.run, cons.row.att, cons.row.recorded)
    BY <1>10 DEF StopSuspended
  <2> QED
    BY <1>1, <1>2, <1>3, <1>4, <2>1, RemoveOK
<1>11. ASSUME NEW r \in Run, NEW a \in Attempt, ExitContainer(r, a)
       PROVE  PodOK'
  BY <1>1, <1>11 DEF ExitContainer, PodOK
<1>12. CASE \/ FetchBatch \/ PrepareStart \/ RecordContainer \/ MarkRunning \/ FailStart
            \/ ReadRows \/ ProbeRow \/ InspectRow \/ HandleAttemptLoss
            \/ ReadRecorded \/ ListManaged
            \/ \E r \in Run : Schedule(r) \/ SkipSchedule(r)
  <2>1. UNCHANGED pod
    BY <1>12, Zenon DEF FetchBatch, PrepareStart, RecordContainer, MarkRunning, FailStart,
       ReadRows, ProbeRow, InspectRow, HandleAttemptLoss, ReadRecorded, ListManaged,
       Schedule, SkipSchedule
  <2> QED
    BY <1>4, <2>1
<1>13. CASE \/ CloseSuspend \/ Crash \/ UNCHANGED vars
            \/ \E r \in Run : Admit(r) \/ DeadlinePasses(r)
            \/ \E c \in Canceller : CloseCancel(c) \/ \E r \in Run : RequestCancel(c, r)
            \/ \E r \in Run, a \in Attempt :
                 StartMessage(r, a) \/ CommitCheckpoint(r, a) \/ ProposeResult(r, a)
                   \/ CommitSuspension(r, a) \/ CommitMessages(r, a)
  <2>1. UNCHANGED pod
    BY <1>13, Zenon DEF CloseSuspend, Crash, vars, Admit, DeadlinePasses,
       CloseCancel, RequestCancel,
       StartMessage, CommitCheckpoint, ProposeResult, CommitSuspension, CommitMessages
  <2> QED
    BY <1>4, <2>1
<1>14. ASSUME NEW r \in Run, Consume(r)
       PROVE  PodOK'
  <2>1. ASSUME NEW e, ConsumeStarted(r, e) \/ ConsumeRunEvent(r, e)
                        \/ BeginSuspend(r, e) \/ Discard(r, e)
        PROVE  UNCHANGED pod
    <3>1. CASE ConsumeStarted(r, e)
      BY <3>1, Zenon DEF ConsumeStarted
    <3>2. CASE ConsumeRunEvent(r, e)
      BY <3>2, Zenon DEF ConsumeRunEvent
    <3>3. CASE BeginSuspend(r, e) \/ Discard(r, e)
      BY <3>3, Zenon DEF BeginSuspend, Discard
    <3> QED
      BY <2>1, <3>1, <3>2, <3>3
  <2> QED
    BY <1>4, <1>14, <2>1 DEF Consume
<1> QED
  BY <1>5, <1>6, <1>7, <1>8, <1>9, <1>10, <1>11, <1>12, <1>13, <1>14
     DEF Next, Scheduler, Agent

\* An agent that may speak has an attempt row, so its events carry a real epoch.
LEMMA SpeakerOK ==
  ASSUME DbOK, NEW r \in Run, NEW a, CanSpeak(r, a)
  PROVE  attempts[r][a].epoch \in Nat
<1>1. attempts[r] \in Seq(AttemptRow)
  BY DEF DbOK
<1>2. attempts[r][a] \in AttemptRow
  BY <1>1 DEF CanSpeak
<1> QED
  BY <1>2 DEF AttemptRow

\* Publishing an event keeps the types of the stream.
LEMMA PublishOK ==
  ASSUME BusOK, NEW r \in Run, NEW e \in Event, Publish(r, e)
  PROVE  BusOK'
  BY DEF BusOK, Publish

\* One more event leaves an attempt with finitely many.
LEMMA PublishFinite ==
  ASSUME SentFinite, BusOK, NEW r \in Run, NEW e, Publish(r, e)
  PROVE  SentFinite'
<1>1. IsFiniteSet(sent[r] \cup {e})
  BY FS_AddElement DEF SentFinite
<1>2. sent'[r] = sent[r] \cup {e} /\ \A q \in Run \ {r} : sent'[q] = sent[q]
  BY DEF Publish, BusOK
<1> QED
  BY <1>1, <1>2 DEF SentFinite

\* What an agent and the Conversation Service publish is an event.
LEMMA AgentBusStep ==
  ASSUME Inv, NEW r \in Run, NEW a \in Attempt, Agent(r, a)
  PROVE  BusOK' /\ SentFinite'
<1>1. DbOK /\ BusOK /\ SentFinite
  BY DEF Inv, TypeOK
<1>2. \A type : Cardinality(SentBy(r, a, type)) \in Nat
  <2> SUFFICES ASSUME NEW type
               PROVE  Cardinality(SentBy(r, a, type)) \in Nat
    OBVIOUS
  <2>1. IsFiniteSet(SentBy(r, a, type))
    <3>1. SentBy(r, a, type) \subseteq sent[r] /\ IsFiniteSet(sent[r])
      BY <1>1 DEF SentBy, SentFinite
    <3> QED
      BY <3>1, FS_Subset
  <2> QED
    BY <2>1, FS_CardinalityType
<1>3. CASE StartMessage(r, a)
  <2>1. Started(a, attempts[r][a].epoch) \in Event
    BY <1>1, <1>3, SpeakerOK DEF StartMessage, Started, Event
  <2> QED
    BY <1>1, <1>3, <2>1, PublishOK, PublishFinite DEF StartMessage
<1>4. CASE CommitCheckpoint(r, a)
  <2> DEFINE k == Cardinality(SentBy(r, a, "checkpoint_committed"))
  <2>1. k + 1 \in Nat
    BY <1>2
  <2>2. Publish(r, Checkpoint(a, k + 1))
    BY <1>4 DEF CommitCheckpoint
  <2> HIDE DEF k
  <2>3. Checkpoint(a, k + 1) \in Event
    BY <2>1 DEF Checkpoint, Event
  <2> QED
    BY <1>1, <2>2, <2>3, PublishOK, PublishFinite
<1>5. CASE ProposeResult(r, a)
  <2> DEFINE m == SentBy(r, a, "message_started") # {}
             k == Cardinality(SentBy(r, a, "checkpoint_committed"))
  <2>1. Publish(r, Proposed(a, attempts[r][a].epoch, m, k)) /\ attempts[r][a].epoch \in Nat
    BY <1>1, <1>5, SpeakerOK DEF ProposeResult
  <2>2. m \in BOOLEAN /\ k \in Nat
    BY <1>2
  <2> HIDE DEF m, k
  <2>3. Proposed(a, attempts[r][a].epoch, m, k) \in Event
    BY <2>1, <2>2 DEF Proposed, Event
  <2> QED
    BY <1>1, <2>1, <2>3, PublishOK, PublishFinite
<1>6. CASE CommitSuspension(r, a)
  <2>1. Suspended(a, attempts[r][a].epoch) \in Event
    BY <1>1, <1>6, SpeakerOK DEF CommitSuspension, Suspended, Event
  <2> QED
    BY <1>1, <1>6, <2>1, PublishOK, PublishFinite DEF CommitSuspension
<1>7. CASE CommitMessages(r, a)
  <2>1. Messages(a) \in Event
    BY DEF Messages, Event
  <2> QED
    BY <1>1, <1>7, <2>1, PublishOK, PublishFinite DEF CommitMessages
<1>8. CASE ExitContainer(r, a)
  BY <1>1, <1>8 DEF ExitContainer, bus, BusOK, SentFinite
<1> QED
  BY <1>3, <1>4, <1>5, <1>6, <1>7, <1>8 DEF Agent

\* Every other step only takes events off the stream.
LEMMA BusStep ==
  ASSUME Inv, [Next]_vars
  PROVE  BusOK' /\ SentFinite'
<1>1. BusOK /\ SentFinite
  BY DEF Inv, TypeOK
<1>2. CASE \E r \in Run, a \in Attempt : Agent(r, a)
  BY <1>2, AgentBusStep
<1>3. CASE /\ sent' = sent
           /\ \/ pending' = pending
              \/ \E r, e : pending' = [pending EXCEPT ![r] = @ \ {e}]
  BY <1>1, <1>3 DEF BusOK, SentFinite
<1>4. CASE CloseSuspend
  <2>1. sent' = sent
    BY <1>4, Zenon DEF CloseSuspend
  <2>2. pending' = pending \/ \E r, e : pending' = [pending EXCEPT ![r] = @ \ {e}]
    BY <1>4, Zenon DEF CloseSuspend, Acknowledge
  <2> QED
    BY <1>3, <2>1, <2>2
<1>6. CASE StopSuspended
  <2>1. sent' = sent
    BY <1>6, Zenon DEF StopSuspended
  <2>2. pending' = pending \/ \E r, e : pending' = [pending EXCEPT ![r] = @ \ {e}]
    BY <1>6, Zenon DEF StopSuspended
  <2> QED
    BY <1>3, <2>1, <2>2
<1>7. ASSUME NEW r \in Run, NEW e \in pending[r],
             ConsumeStarted(r, e) \/ ConsumeRunEvent(r, e) \/ BeginSuspend(r, e) \/ Discard(r, e)
      PROVE  BusOK' /\ SentFinite'
  <2>1. CASE ConsumeStarted(r, e)
    BY <1>3, <2>1, Zenon DEF ConsumeStarted, Acknowledge
  <2>2. CASE ConsumeRunEvent(r, e)
    <3>1. Acknowledge(r, e) /\ sent' = sent
      BY <2>2, Zenon DEF ConsumeRunEvent
    <3> QED
      BY <1>3, <3>1, Zenon DEF Acknowledge
  <2>3. CASE BeginSuspend(r, e)
    BY <1>3, <2>3, Zenon DEF BeginSuspend, bus
  <2>4. CASE Discard(r, e)
    BY <1>3, <2>4, Zenon DEF Discard
  <2> QED
    BY <1>7, <2>1, <2>2, <2>3, <2>4
<1>5. CASE \/ Scheduler \/ Crash \/ UNCHANGED vars
           \/ \E r \in Run : Admit(r) \/ DeadlinePasses(r)
           \/ \E c \in Canceller : CancelRemove(c) \/ CloseCancel(c)
                                     \/ \E r \in Run : RequestCancel(c, r)
  <2>1. UNCHANGED bus
    BY <1>5, Zenon DEF Scheduler, FetchBatch, Schedule, SkipSchedule, PrepareStart,
       CreateContainer, RecordContainer, StartContainer, MarkRunning, UndoStart, FailStart,
       ReadRows, ProbeRow, InspectRow, RemoveLost, HandleAttemptLoss, ReadRecorded,
       ListManaged, SweepOrphan, Crash, vars, Admit, DeadlinePasses, CancelRemove,
       CloseCancel, RequestCancel
  <2> QED
    BY <1>3, <2>1 DEF bus
<1> QED
  BY <1>2, <1>4, <1>5, <1>6, <1>7 DEF Next, Consume

-----------------------------------------------------------------------------
(* The tasks.                                                               *)

\* A lease is an attempt of the run it is read from.
LEMMA LeaseIsAttempt ==
  ASSUME Inv, NEW r \in Run
  PROVE  active[r] \in Nat /\ (active[r] = 0 \/ active[r] \in 1..Len(attempts[r]))
<1>1. attempts[r] \in Seq(AttemptRow) /\ active[r] \in Nat
  BY DEF Inv, TypeOK, DbOK
<1> QED
  BY <1>1 DEF Inv, LeaseInv, LeaseIsNewest

\* The rows reconciliation reads each name an attempt that holds its lease.
LEMMA ReadRowsStep ==
  ASSUME Inv, ReadRows
  PROVE  sched' \in SchedState /\ SchedHoldsAttempt'
<1>1. DbOK /\ sched \in SchedState
  BY DEF Inv, TypeOK, TaskOK
<1> DEFINE leased == {q \in Run : state[q] \in Reconciled /\ active[q] # 0}
           read == {Snapshot(r, active[r]) : r \in leased}
<1>2. ASSUME NEW r \in leased
      PROVE  Snapshot(r, active[r]) \in Row /\ Snapshot(r, active[r]).att # 0
  <2>1. r \in Run /\ active[r] # 0
    OBVIOUS
  <2>2. active[r] \in Nat /\ (active[r] = 0 \/ active[r] \in 1..Len(attempts[r]))
    BY <2>1, LeaseIsAttempt
  <2> QED
    BY <1>1, <2>1, <2>2, SnapshotOK
<1>3. read \subseteq Row /\ \A w \in read : w.att # 0
  BY <1>2
<1>4. sched' = [sched EXCEPT !.pc = "rows", !.rows = read]
  BY DEF ReadRows
<1> HIDE DEF read
<1> QED
  BY <1>1, <1>3, <1>4 DEF SchedState, SchedHoldsAttempt

\* The steps of the scheduler that start an attempt.
LEMMA StartSteps ==
  ASSUME Inv,
         \/ FetchBatch \/ PrepareStart \/ CreateContainer \/ RecordContainer
         \/ StartContainer \/ MarkRunning \/ UndoStart \/ FailStart
         \/ \E r \in Run : SkipSchedule(r)
  PROVE  sched' \in SchedState /\ SchedHoldsAttempt'
<1>1. sched \in SchedState /\ SchedHoldsAttempt
  BY DEF Inv, TypeOK, TaskOK
<1>2. CASE FetchBatch
  <2>1. PICK S \in SUBSET Run : sched' = [sched EXCEPT !.pc = "batch", !.batch = S]
    BY <1>2 DEF FetchBatch, Candidates
  <2> QED
    BY <1>1, <2>1 DEF SchedState, SchedHoldsAttempt
<1>3. CASE PrepareStart
  BY <1>1, <1>3 DEF PrepareStart, SchedState, SchedHoldsAttempt
<1>4. CASE CreateContainer
  BY <1>1, <1>4 DEF CreateContainer, SchedState, SchedHoldsAttempt
<1>5. CASE RecordContainer
  <2>1. sched.row \in Row /\ sched.row.att # 0
    BY <1>1, <1>5 DEF SchedState, SchedHoldsAttempt, RecordContainer
  <2>2. [sched.row EXCEPT !.recorded = TRUE] \in Row
        /\ [sched.row EXCEPT !.recorded = TRUE].att # 0
    BY <2>1 DEF Row
  <2>3. sched' = [sched EXCEPT !.pc = "start", !.row = [sched.row EXCEPT !.recorded = TRUE]]
    BY <1>5 DEF RecordContainer
  <2> QED
    BY <1>1, <2>2, <2>3 DEF SchedState, SchedHoldsAttempt
<1>6. CASE StartContainer
  BY <1>1, <1>6 DEF StartContainer, SchedState, SchedHoldsAttempt
<1>7. CASE MarkRunning
  BY <1>1, <1>7 DEF MarkRunning, SchedState, SchedHoldsAttempt
<1>8. CASE UndoStart
  BY <1>1, <1>8 DEF UndoStart, SchedState, SchedHoldsAttempt
<1>9. CASE FailStart
  BY <1>1, <1>9 DEF FailStart, SchedState, SchedHoldsAttempt
<1>10. ASSUME NEW r \in Run, SkipSchedule(r)
       PROVE  sched' \in SchedState /\ SchedHoldsAttempt'
  BY <1>1, <1>10 DEF SkipSchedule, SchedState, SchedHoldsAttempt
<1> QED
  BY <1>2, <1>3, <1>4, <1>5, <1>6, <1>7, <1>8, <1>9, <1>10

\* The scheduler remembers the attempt it has just inserted.
LEMMA ScheduleTaskStep ==
  ASSUME Inv, NEW r \in Run, Schedule(r)
  PROVE  sched' \in SchedState /\ SchedHoldsAttempt'
<1> DEFINE a == Len(attempts[r]) + 1
           row == [NoRow EXCEPT !.run = r, !.att = a]
<1>1. sched \in SchedState /\ SchedHoldsAttempt
  BY DEF Inv, TypeOK, TaskOK
<1>2. a \in Nat /\ a # 0
  <2>1. attempts[r] \in Seq(AttemptRow)
    BY DEF Inv, TypeOK, DbOK
  <2> QED
    BY <2>1
<1>3. sched' = [sched EXCEPT !.pc = "prepare", !.batch = @ \ {r}, !.row = row]
  BY DEF Schedule
<1> HIDE DEF a
<1>4. row \in Row /\ row.att = a
  BY <1>2, NoRowOK DEF Row
<1> HIDE DEF row
<1> QED
  BY <1>1, <1>2, <1>3, <1>4 DEF SchedState, SchedHoldsAttempt

\* The steps of the scheduler that reconcile.
LEMMA ReconcileSteps ==
  ASSUME Inv,
         \/ ProbeRow \/ InspectRow \/ RemoveLost \/ HandleAttemptLoss
         \/ ReadRecorded \/ ListManaged \/ SweepOrphan
  PROVE  sched' \in SchedState /\ SchedHoldsAttempt'
<1>1. sched \in SchedState /\ SchedHoldsAttempt
  BY DEF Inv, TypeOK, TaskOK
<1>2. CASE ProbeRow
  <2>1. PICK w \in sched.rows : \E there \in ExistsAnswers(w.run, w.att) :
          sched' = [sched EXCEPT !.rows = @ \ {w}, !.row = w,
                      !.pc = IF w.recorded /\ there THEN "inspect" ELSE "remove"]
    BY <1>2 DEF ProbeRow
  <2>2. w \in Row /\ w.att # 0
    BY <1>1 DEF SchedState, SchedHoldsAttempt
  <2> QED
    BY <1>1, <2>1, <2>2 DEF SchedState, SchedHoldsAttempt
<1>3. CASE InspectRow
  <2>1. PICK q \in {"dead", "rows", "remove"} : sched' = [sched EXCEPT !.pc = q]
    BY <1>3 DEF InspectRow
  <2>2. sched.row.att # 0
    BY <1>1, <1>3 DEF InspectRow, SchedHoldsAttempt
  <2> QED
    BY <1>1, <2>1, <2>2 DEF SchedState, SchedHoldsAttempt
<1>4. CASE RemoveLost
  BY <1>1, <1>4 DEF RemoveLost, SchedState, SchedHoldsAttempt
<1>5. CASE HandleAttemptLoss
  BY <1>1, <1>5 DEF HandleAttemptLoss, SchedState, SchedHoldsAttempt
<1>6. CASE ReadRecorded
  <2>1. PICK K \in SUBSET (Run \X Attempt) : sched' = [sched EXCEPT !.pc = "list", !.known = K]
    BY <1>6 DEF ReadRecorded
  <2> QED
    BY <1>1, <2>1 DEF SchedState, SchedHoldsAttempt
<1>7. CASE ListManaged
  <2>1. \/ \E K \in SUBSET (Run \X Attempt) : sched' = [sched EXCEPT !.pc = "orphans", !.known = K]
        \/ sched' = [sched EXCEPT !.pc = "dead"]
    BY <1>7 DEF ListManaged
  <2> QED
    BY <1>1, <2>1 DEF SchedState, SchedHoldsAttempt
<1>8. CASE SweepOrphan
  <2>1. sched' = SchedIdle \/ \E x : sched' = [sched EXCEPT !.known = @ \ {x}]
    BY <1>8 DEF SweepOrphan
  <2>2. CASE sched' = SchedIdle
    BY <2>2, IdleTasksOK DEF SchedIdle, SchedHoldsAttempt
  <2>3. ASSUME NEW x, sched' = [sched EXCEPT !.known = @ \ {x}]
        PROVE  sched' \in SchedState /\ SchedHoldsAttempt'
    BY <1>1, <2>3 DEF SchedState, SchedHoldsAttempt
  <2> QED
    BY <2>1, <2>2, <2>3
<1> QED
  BY <1>2, <1>3, <1>4, <1>5, <1>6, <1>7, <1>8

\* The scheduler's local state, over every step.
LEMMA SchedulerStep ==
  ASSUME Inv, [Next]_vars
  PROVE  sched' \in SchedState /\ SchedHoldsAttempt'
<1>1. CASE Scheduler
  BY <1>1, ReadRowsStep, StartSteps, ScheduleTaskStep, ReconcileSteps DEF Scheduler
<1>2. CASE Crash
  BY <1>2, IdleTasksOK DEF Crash, SchedIdle, SchedHoldsAttempt
<1>3. CASE sched' = sched
  BY <1>3 DEF Inv, TypeOK, TaskOK, SchedHoldsAttempt
<1>4. CASE \/ StopSuspended \/ CloseSuspend \/ UNCHANGED vars
           \/ \E r \in Run : Admit(r) \/ DeadlinePasses(r)
           \/ \E c \in Canceller : CancelRemove(c) \/ CloseCancel(c)
                                     \/ \E r \in Run : RequestCancel(c, r)
  <2>1. sched' = sched
    BY <1>4, Zenon DEF StopSuspended, CloseSuspend, vars, task, Admit, DeadlinePasses,
       CancelRemove, CloseCancel, RequestCancel
  <2> QED
    BY <1>3, <2>1
<1>5. ASSUME NEW r \in Run, Consume(r)
      PROVE  sched' = sched
  <2>1. PICK e \in pending[r] : ConsumeStarted(r, e) \/ ConsumeRunEvent(r, e)
                                  \/ BeginSuspend(r, e) \/ Discard(r, e)
    BY <1>5 DEF Consume
  <2>2. CASE ConsumeRunEvent(r, e)
    BY <2>2, Zenon DEF ConsumeRunEvent, task
  <2> QED
    BY <2>1, <2>2, Zenon DEF ConsumeStarted, BeginSuspend, Discard, task
<1>6. ASSUME NEW r \in Run, NEW a \in Attempt, Agent(r, a)
      PROVE  sched' = sched
  BY <1>6, Zenon DEF Agent, StartMessage, CommitCheckpoint, ProposeResult, CommitSuspension,
     ExitContainer, CommitMessages, task
<1> QED
  BY <1>1, <1>2, <1>3, <1>4, <1>5, <1>6 DEF Next

\* The snapshot of a suspension or a cancellation names a run and its attempt.
LEMMA ConsumerStep ==
  ASSUME Inv, [Next]_vars
  PROVE  cons' \in ConsState
<1>1. cons \in ConsState /\ DbOK /\ pending \in [Run -> SUBSET Event]
  BY DEF Inv, TypeOK, TaskOK, BusOK
<1>2. ASSUME NEW r \in Run, NEW e \in pending[r], BeginSuspend(r, e)
      PROVE  cons' \in ConsState
  <2>1. e \in Event
    BY <1>1
  <2>2. e.att = active[r]
    BY <1>2 DEF BeginSuspend, CanSuspend, HoldsLease, HasLease
  <2>3. Snapshot(r, e.att) \in Row
    BY <1>1, <2>2, LeaseIsAttempt, SnapshotOK
  <2>4. cons' = [pc |-> "stop", row |-> Snapshot(r, e.att), event |-> e]
    BY <1>2 DEF BeginSuspend
  <2> QED
    BY <2>1, <2>3, <2>4 DEF ConsState
<1>3. CASE StopSuspended
  <2>1. cons' = [cons EXCEPT !.pc = "close"] \/ cons' = ConsIdle
    BY <1>3 DEF StopSuspended
  <2> QED
    BY <1>1, <2>1, IdleTasksOK DEF ConsState
<1>4. CASE CloseSuspend \/ Crash
  BY <1>4, IdleTasksOK DEF CloseSuspend, Crash
<1>5. CASE cons' = cons
  BY <1>1, <1>5
<1>6. CASE Scheduler \/ UNCHANGED vars
  BY <1>5, <1>6, Zenon DEF vars, task, Scheduler, FetchBatch, Schedule, SkipSchedule,
     PrepareStart, CreateContainer, RecordContainer, StartContainer, MarkRunning, UndoStart,
     FailStart, ReadRows, ProbeRow, InspectRow, RemoveLost, HandleAttemptLoss, ReadRecorded,
     ListManaged, SweepOrphan
<1>7. CASE \/ \E r \in Run : Admit(r) \/ DeadlinePasses(r)
           \/ \E c \in Canceller : CancelRemove(c) \/ CloseCancel(c)
                                     \/ \E r \in Run : RequestCancel(c, r)
           \/ \E r \in Run, a \in Attempt : Agent(r, a)
  BY <1>5, <1>7, Zenon DEF task, Admit, DeadlinePasses, CancelRemove, CloseCancel,
     RequestCancel, Agent, StartMessage, CommitCheckpoint, ProposeResult, CommitSuspension,
     ExitContainer, CommitMessages
<1>8. ASSUME NEW r \in Run, NEW e \in pending[r],
             ConsumeStarted(r, e) \/ ConsumeRunEvent(r, e) \/ Discard(r, e)
      PROVE  cons' = cons
  <2>1. CASE ConsumeRunEvent(r, e)
    BY <2>1, Zenon DEF ConsumeRunEvent, task
  <2> QED
    BY <1>8, <2>1, Zenon DEF ConsumeStarted, Discard, task
<1> QED
  BY <1>2, <1>3, <1>4, <1>5, <1>6, <1>7, <1>8 DEF Next, Consume

\* The local state of a cancel request, over every step.
LEMMA CancellerStep ==
  ASSUME Inv, [Next]_vars
  PROVE  cancel' \in [Canceller -> CancelState]
<1>1. cancel \in [Canceller -> CancelState] /\ DbOK
  BY DEF Inv, TypeOK, TaskOK
<1>2. ASSUME NEW c \in Canceller, NEW r \in Run, RequestCancel(c, r)
      PROVE  cancel' \in [Canceller -> CancelState]
  <2> DEFINE w == Snapshot(r, active[r])
  <2>1. w \in Row
    BY <1>1, LeaseIsAttempt, SnapshotOK
  <2>2. cancel' = [cancel EXCEPT ![c] =
                     [pc |-> IF w.att = 0 THEN "close" ELSE "remove", row |-> w]]
    BY <1>2 DEF RequestCancel
  <2> HIDE DEF w
  <2>3. [pc |-> IF w.att = 0 THEN "close" ELSE "remove", row |-> w] \in CancelState
    BY <2>1 DEF CancelState
  <2> QED
    BY <1>1, <2>2, <2>3
<1>3. ASSUME NEW c \in Canceller, CancelRemove(c)
      PROVE  cancel' \in [Canceller -> CancelState]
  BY <1>1, <1>3 DEF CancelRemove, CancelState
<1>4. ASSUME NEW c \in Canceller, CloseCancel(c)
      PROVE  cancel' \in [Canceller -> CancelState]
  <2>1. cancel' = [cancel EXCEPT ![c].pc = "done"]
    BY <1>4 DEF CloseCancel
  <2> QED
    BY <1>1, <2>1 DEF CancelState
<1>5. CASE Crash
  <2>1. \A c \in Canceller : [cancel[c] EXCEPT !.pc = "done"] \in CancelState
    BY <1>1 DEF CancelState
  <2> QED
    BY <1>1, <1>5, <2>1 DEF Crash
<1>6. CASE cancel' = cancel
  BY <1>1, <1>6
<1>7. CASE Scheduler \/ UNCHANGED vars
  BY <1>6, <1>7, Zenon DEF vars, task, Scheduler, FetchBatch, Schedule, SkipSchedule,
     PrepareStart, CreateContainer, RecordContainer, StartContainer, MarkRunning, UndoStart,
     FailStart, ReadRows, ProbeRow, InspectRow, RemoveLost, HandleAttemptLoss, ReadRecorded,
     ListManaged, SweepOrphan
<1>8. CASE \/ StopSuspended \/ CloseSuspend
           \/ \E r \in Run : Admit(r) \/ DeadlinePasses(r)
           \/ \E r \in Run, a \in Attempt : Agent(r, a)
  BY <1>6, <1>8, Zenon DEF task, Admit, DeadlinePasses, StopSuspended, CloseSuspend,
     Agent, StartMessage, CommitCheckpoint, ProposeResult, CommitSuspension,
     ExitContainer, CommitMessages
<1>9. ASSUME NEW r \in Run, NEW e \in pending[r],
             ConsumeStarted(r, e) \/ ConsumeRunEvent(r, e)
               \/ BeginSuspend(r, e) \/ Discard(r, e)
      PROVE  cancel' = cancel
  <2>1. CASE ConsumeRunEvent(r, e)
    BY <2>1, Zenon DEF ConsumeRunEvent, task
  <2> QED
    BY <1>9, <2>1, Zenon DEF ConsumeStarted, BeginSuspend, Discard, task
<1> QED
  BY <1>2, <1>3, <1>4, <1>5, <1>6, <1>7, <1>8, <1>9 DEF Next, Consume

-----------------------------------------------------------------------------
(* The invariant.                                                           *)

\* Deadlines only pass and crashes only add up to the bound.
LEMMA ClockStep ==
  ASSUME Inv, [Next]_vars
  PROVE  expired' \in [Run -> BOOLEAN] /\ crashes' \in 0..MaxCrash
<1>1. expired \in [Run -> BOOLEAN] /\ crashes \in 0..MaxCrash
  BY DEF Inv, TypeOK
<1>2. CASE \E r \in Run : DeadlinePasses(r)
  BY <1>1, <1>2 DEF DeadlinePasses
<1>3. CASE Crash
  BY <1>1, <1>3, RunnerAssumption DEF Crash
<1>4. CASE UNCHANGED <<expired, crashes>>
  BY <1>1, <1>4
<1>5. CASE Scheduler \/ UNCHANGED vars
  BY <1>4, <1>5, Zenon DEF vars, Scheduler, FetchBatch, Schedule, SkipSchedule,
     PrepareStart, CreateContainer, RecordContainer, StartContainer, MarkRunning, UndoStart,
     FailStart, ReadRows, ProbeRow, InspectRow, RemoveLost, HandleAttemptLoss, ReadRecorded,
     ListManaged, SweepOrphan
<1>6. CASE \/ StopSuspended \/ CloseSuspend
           \/ \E r \in Run : Admit(r)
           \/ \E c \in Canceller : CancelRemove(c) \/ CloseCancel(c)
                                     \/ \E r \in Run : RequestCancel(c, r)
           \/ \E r \in Run, a \in Attempt : Agent(r, a)
  BY <1>4, <1>6, Zenon DEF Admit, StopSuspended, CloseSuspend, CancelRemove, CloseCancel,
     RequestCancel, Agent, StartMessage, CommitCheckpoint, ProposeResult, CommitSuspension,
     ExitContainer, CommitMessages
<1>7. ASSUME NEW r \in Run, NEW e \in pending[r],
             ConsumeStarted(r, e) \/ ConsumeRunEvent(r, e)
               \/ BeginSuspend(r, e) \/ Discard(r, e)
      PROVE  UNCHANGED <<expired, crashes>>
  <2>1. CASE ConsumeRunEvent(r, e)
    BY <2>1, Zenon DEF ConsumeRunEvent
  <2> QED
    BY <1>7, <2>1, Zenon DEF ConsumeStarted, BeginSuspend, Discard
<1> QED
  BY <1>2, <1>3, <1>4, <1>5, <1>6, <1>7 DEF Next, Consume

\* The invariant holds when the database is empty.
LEMMA InitInv == Init => Inv
<1> SUFFICES ASSUME Init PROVE Inv
  OBVIOUS
<1>1. NoProposal \in CompletionRow /\ NoConfirmation \in ConfirmationRow
  BY DEF NoProposal, NoConfirmation, CompletionRow, ConfirmationRow
<1>2. DbOK
  BY <1>1 DEF Init, DbOK, RunState, Idle
<1>3. PodOK /\ BusOK
  BY DEF Init, PodOK, BusOK
<1>4. TaskOK
  BY IdleTasksOK DEF Init, TaskOK
<1>5. TypeOK
  BY <1>2, <1>3, <1>4, RunnerAssumption DEF Init, TypeOK
<1>6. LeaseInv
  BY RunnerAssumption
     DEF Init, LeaseInv, LeaseIsNewest, LeaseMatchesState, RetriesBounded, Idle
<1>7. SchedHoldsAttempt
  BY DEF Init, SchedIdle, SchedHoldsAttempt
<1>8. SentFinite
  BY FS_EmptySet DEF Init, SentFinite
<1> QED
  BY <1>5, <1>6, <1>7, <1>8 DEF Inv

\* Every step keeps the invariant.
LEMMA NextInv == Inv /\ [Next]_vars => Inv'
<1> SUFFICES ASSUME Inv, [Next]_vars PROVE Inv'
  OBVIOUS
<1>1. DbOK' /\ LeaseInv'
  BY LedgerStep
<1>2. PodOK' /\ BusOK' /\ SentFinite'
  BY PodStep, BusStep
<1>3. TaskOK' /\ SchedHoldsAttempt'
  BY SchedulerStep, ConsumerStep, CancellerStep DEF TaskOK
<1>4. TypeOK'
  BY <1>1, <1>2, <1>3, ClockStep DEF TypeOK
<1> QED
  BY <1>1, <1>2, <1>3, <1>4 DEF Inv

\* The inductive invariant holds in every state of every behaviour.
THEOREM InvHolds == Spec => []Inv
  BY InitInv, NextInv, PTL DEF Spec

\* Every variable keeps its type, whatever interleaves.
THEOREM TypeCorrect == Spec => []TypeOK
<1>1. Inv => TypeOK
  BY DEF Inv
<1> QED
  BY <1>1, InvHolds, PTL

\* service.py schedule / _handle_attempt_loss: a lease is always the newest
\* attempt's, so an attempt that lost its lease is fenced for ever.
THEOREM LeaseNewest == Spec => []LeaseIsNewest
<1>1. Inv => LeaseIsNewest
  BY DEF Inv, LeaseInv
<1> QED
  BY <1>1, InvHolds, PTL

\* The state of a run tells whether it holds a lease, which is what lets the
\* late writers of service.py guard on active_attempt_id alone.
THEOREM LeaseMatches == Spec => []LeaseMatchesState
<1>1. Inv => LeaseMatchesState
  BY DEF Inv, LeaseInv
<1> QED
  BY <1>1, InvHolds, PTL

\* _retry_allowed keeps a run within RUNNER_MAX_ATTEMPTS attempts.
THEOREM RetriesAreBounded == Spec => []RetriesBounded
<1>1. Inv => RetriesBounded
  BY DEF Inv, LeaseInv
<1> QED
  BY <1>1, InvHolds, PTL

-----------------------------------------------------------------------------
(* The end of a run is final: it holds no lease, so no late writer of the   *)
(* scheduler matches it, and every other writer looks at the state.         *)
LEMMA TerminalStep ==
  ASSUME Inv, [Next]_vars, NEW q \in Run, state[q] \in Terminal
  PROVE  state'[q] = state[q]
<1>1. DbOK /\ SchedHoldsAttempt /\ active[q] = 0
  BY DEF Inv, TypeOK, LeaseInv, LeaseMatchesState, Idle
<1>2. state \in [Run -> RunState]
  BY <1>1 DEF DbOK
<1>3. CASE state' = state
  BY <1>3
<1>4. CASE MarkRunning
  BY <1>1, <1>2, <1>4 DEF MarkRunning, HasLease, SchedHoldsAttempt
<1>5. CASE FailStart
  BY <1>1, <1>2, <1>5 DEF FailStart, HasLease, SchedHoldsAttempt
<1>6. CASE HandleAttemptLoss
  BY <1>1, <1>2, <1>6 DEF HandleAttemptLoss, HasLease, SchedHoldsAttempt
<1>7. ASSUME NEW r \in Run, Schedule(r) \/ Admit(r)
      PROVE  state'[q] = state[q]
  BY <1>2, <1>7 DEF Schedule, Schedulable, Candidates, Admit, Terminal
<1>8. ASSUME NEW c \in Canceller, CloseCancel(c) \/ \E r \in Run : RequestCancel(c, r)
      PROVE  state'[q] = state[q]
  BY <1>2, <1>8 DEF CloseCancel, RequestCancel, Terminal
<1>9. CASE CloseSuspend
  BY <1>2, <1>9 DEF CloseSuspend, Terminal
<1>10. ASSUME NEW r \in Run, NEW e \in pending[r], BeginSuspend(r, e)
       PROVE  state'[q] = state[q]
  BY <1>2, <1>10 DEF BeginSuspend, CanSuspend, Terminal
<1>11. ASSUME NEW r \in Run, NEW e \in pending[r], ConsumeRunEvent(r, e)
       PROVE  state'[q] = state[q]
  <2>1. PICK st, new :
          /\ new # st => st \notin Terminal
          /\ r = q => st = state[q]
          /\ state' = [state EXCEPT ![r] = new]
    <3> DEFINE p == Rederived(WithProposal(completion[r], e), WithConfirmation(confirmed[r], e))
               proposes == /\ e.type = "result_proposed" /\ completion[r].att = 0
                           /\ state[r] \notin Terminal
               st == IF proposes THEN "completion_reconciling" ELSE state[r]
               done == /\ p.att # 0 /\ st \notin Terminal /\ Ready(p)
                       /\ st = "completion_reconciling"
    <3>1. state' = [state EXCEPT ![r] = IF done THEN "completed" ELSE st]
      BY <1>11 DEF ConsumeRunEvent
    <3>2. done => st \notin Terminal
      OBVIOUS
    <3>3. r = q => st = state[q]
      OBVIOUS
    <3> DEFINE new == IF done THEN "completed" ELSE st
    <3>4. new # st => done
      OBVIOUS
    <3>5. state' = [state EXCEPT ![r] = new]
      BY <3>1
    <3> HIDE DEF done, st, new
    <3> QED
      BY <3>2, <3>3, <3>4, <3>5
  <2> QED
    BY <1>2, <2>1
<1>12. CASE \/ FetchBatch \/ PrepareStart \/ CreateContainer \/ RecordContainer
            \/ StartContainer \/ UndoStart \/ ReadRows \/ ProbeRow \/ InspectRow
            \/ RemoveLost \/ ReadRecorded \/ ListManaged \/ SweepOrphan
            \/ \E r \in Run : SkipSchedule(r)
  BY <1>3, <1>12, Zenon DEF db, FetchBatch, PrepareStart, CreateContainer, RecordContainer,
     StartContainer, UndoStart, ReadRows, ProbeRow, InspectRow, RemoveLost, ReadRecorded,
     ListManaged, SweepOrphan, SkipSchedule
<1>13. CASE \/ StopSuspended \/ Crash \/ UNCHANGED vars
            \/ \E r \in Run : DeadlinePasses(r)
            \/ \E c \in Canceller : CancelRemove(c)
            \/ \E r \in Run : \E e \in pending[r] : ConsumeStarted(r, e) \/ Discard(r, e)
            \/ \E r \in Run, a \in Attempt : Agent(r, a)
  BY <1>3, <1>13, Zenon DEF db, vars, StopSuspended, Crash, DeadlinePasses, CancelRemove,
     ConsumeStarted, Discard, Agent, StartMessage, CommitCheckpoint, ProposeResult,
     CommitSuspension, ExitContainer, CommitMessages
<1> QED
  BY <1>4, <1>5, <1>6, <1>7, <1>8, <1>9, <1>10, <1>11, <1>12, <1>13
     DEF Next, Scheduler, Consume

\* The first terminal transition of a run wins, however many tasks still hold
\* older snapshots of it.
THEOREM TerminalIsStable == Spec => TerminalStable
<1>1. Inv /\ [Next]_vars => [\A r \in Run : state[r] \in Terminal => state'[r] = state[r]]_vars
  BY TerminalStep
<1> QED
  BY <1>1, InvHolds, PTL DEF Spec, TerminalStable

-----------------------------------------------------------------------------
(* Completion.  A proposal, and each flag of it, was received; what makes a *)
(* run completion_reconciling is the proposal of its newest attempt, and    *)
(* what completes it is that proposal with its confirmations.               *)

\* What is kept of confirmations was received.
KeptReceived(f, received) ==
  /\ f.messages # 0 => Messages(f.messages) \in received
  /\ f.checkpoint[2] # 0 => Checkpoint(f.checkpoint[1], f.checkpoint[2]) \in received

\* A proposal was received, and its flags stand for what was received.
ProposalReceived(p, received) ==
  p.att # 0 => /\ Proposed(p.att, p.epoch, p.msgs, p.ckpt) \in received
               /\ p.messagesOk => Messages(p.att) \in received
               /\ p.checkpointOk => Checkpoint(p.att, p.ckpt) \in received

\* The proposal of the newest attempt.
NewestProposal(p, n) == p.att # 0 /\ p.att = n /\ p.epoch = n

Proposing == {"completion_reconciling", "completed"}

ConfirmedOK(r) ==
  /\ KeptReceived(confirmed[r], inbox[r])
  /\ ProposalReceived(completion[r], inbox[r])
  /\ state[r] \in Proposing => NewestProposal(completion[r], epoch[r])
  /\ state[r] = "completed" => Ready(completion[r])

CompletionInv == \A r \in Run : ConfirmedOK(r)

\* A confirmation that arrives is kept as it was received.
LEMMA ConfirmationKept ==
  ASSUME NEW f \in ConfirmationRow, NEW e \in Event, NEW received, KeptReceived(f, received)
  PROVE  KeptReceived(WithConfirmation(f, e), received \cup {e})
<1>1. CASE e.type = "messages_committed"
  <2>1. e = Messages(e.att)
    BY <1>1 DEF Event, Messages
  <2>2. /\ WithConfirmation(f, e).messages = e.att
        /\ WithConfirmation(f, e).checkpoint = f.checkpoint
    BY <1>1 DEF WithConfirmation, ConfirmationRow
  <2> QED BY <2>1, <2>2 DEF KeptReceived
<1>2. CASE e.type = "checkpoint_committed"
  <2>1. e = Checkpoint(e.att, e.ckpt)
    BY <1>2 DEF Event, Checkpoint
  <2>2. /\ WithConfirmation(f, e).messages = f.messages
        /\ WithConfirmation(f, e).checkpoint = <<e.att, e.ckpt>>
    BY <1>2 DEF WithConfirmation, ConfirmationRow
  <2>3. <<e.att, e.ckpt>>[1] = e.att /\ <<e.att, e.ckpt>>[2] = e.ckpt
    OBVIOUS
  <2> QED BY <2>1, <2>2, <2>3 DEF KeptReceived
<1>3. CASE e.type \notin {"messages_committed", "checkpoint_committed"}
  BY <1>3 DEF WithConfirmation, KeptReceived
<1> QED BY <1>1, <1>2, <1>3

\* The row of a proposal is made from the event that proposes.
LEMMA ProposalMade ==
  ASSUME NEW p \in CompletionRow, NEW e \in Event, NEW received, ProposalReceived(p, received)
  PROVE  /\ ProposalReceived(WithProposal(p, e), received \cup {e})
         /\ p.att # 0 => WithProposal(p, e) = p
         /\ p.att = 0 /\ e.type = "result_proposed" =>
              WithProposal(p, e).att = e.att /\ WithProposal(p, e).epoch = e.epoch
<1>1. CASE e.type = "result_proposed" /\ p.att = 0
  <2>1. e = Proposed(e.att, e.epoch, e.msgs, e.ckpt)
    BY <1>1 DEF Event, Proposed
  <2>2. WithProposal(p, e) = [att |-> e.att, epoch |-> e.epoch, msgs |-> e.msgs,
                              ckpt |-> e.ckpt, messagesOk |-> FALSE, checkpointOk |-> FALSE]
    BY <1>1 DEF WithProposal, NoProposal
  <2> QED BY <1>1, <2>1, <2>2 DEF ProposalReceived
<1>2. CASE ~(e.type = "result_proposed" /\ p.att = 0)
  BY <1>2 DEF WithProposal, ProposalReceived
<1> QED BY <1>1, <1>2

\* _converge raises a flag only for a confirmation that is kept, and lowers none.
LEMMA FlagsReceived ==
  ASSUME NEW p \in CompletionRow, NEW f \in ConfirmationRow, NEW received,
         ProposalReceived(p, received), KeptReceived(f, received)
  PROVE  /\ ProposalReceived(Rederived(p, f), received)
         /\ Rederived(p, f).att = p.att /\ Rederived(p, f).epoch = p.epoch
         /\ Ready(p) => Ready(Rederived(p, f))
<1>1. CASE p.att = 0
  BY <1>1 DEF Rederived
<1>2. CASE p.att # 0
  <2> DEFINE m == MessagesMatch(p, f.messages)
             k == CheckpointMatch(p, f.checkpoint[1], f.checkpoint[2])
  <2>1. m => f.messages = p.att
    BY DEF MessagesMatch
  <2>2. k => f.checkpoint[2] # 0 /\ f.checkpoint[1] = p.att /\ f.checkpoint[2] = p.ckpt
    BY DEF CheckpointMatch
  <2>3. Rederived(p, f) = [p EXCEPT !.messagesOk = p.messagesOk \/ m,
                                    !.checkpointOk = p.checkpointOk \/ k]
    BY <1>2 DEF Rederived
  <2> HIDE DEF m, k
  <2>4. /\ Rederived(p, f).att = p.att /\ Rederived(p, f).epoch = p.epoch
        /\ Rederived(p, f).msgs = p.msgs /\ Rederived(p, f).ckpt = p.ckpt
        /\ Rederived(p, f).messagesOk = (p.messagesOk \/ m)
        /\ Rederived(p, f).checkpointOk = (p.checkpointOk \/ k)
    BY <2>3 DEF CompletionRow
  <2>5. /\ m => Messages(p.att) \in received
        /\ k => Checkpoint(p.att, p.ckpt) \in received
    BY <1>2, <2>1, <2>2 DEF KeptReceived
  <2> QED BY <1>2, <2>4, <2>5 DEF ProposalReceived, Ready
<1> QED BY <1>1, <1>2

\* More events do not take back what was received.
LEMMA ReceivedStays ==
  ASSUME NEW f, NEW p, NEW received, NEW more, received \subseteq more
  PROVE  /\ KeptReceived(f, received) => KeptReceived(f, more)
         /\ ProposalReceived(p, received) => ProposalReceived(p, more)
  BY DEF KeptReceived, ProposalReceived

\* A step that leaves the completion of run q alone, and announces no completion.
Conserves(q) ==
  /\ confirmed'[q] = confirmed[q] /\ completion'[q] = completion[q]
  /\ inbox[q] \subseteq inbox'[q]
  /\ state'[q] \in Proposing => state'[q] = state[q] /\ epoch'[q] = epoch[q]
  /\ \/ outbox'[q] = outbox[q]
     \/ \E t \in Seq(Notice) : /\ outbox'[q] = outbox[q] \o t
                               /\ \A i \in 1..Len(t) : t[i] # <<"run.completed">>

\* What consume_run_event makes of the rows of a run.
Kept(r, e) == WithConfirmation(confirmed[r], e)
Converged(r, e) == Rederived(WithProposal(completion[r], e), Kept(r, e))
Reached(r, e) == IF /\ e.type = "result_proposed" /\ completion[r].att = 0
                    /\ state[r] \notin Terminal
                 THEN "completion_reconciling" ELSE state[r]
Completes(r, e) ==
  /\ Converged(r, e).att # 0 /\ Ready(Converged(r, e))
  /\ Reached(r, e) = "completion_reconciling"

\* What consume_run_event does to the run of the event, and to no other.
LEMMA RunEventDoes ==
  ASSUME DbOK, NEW r \in Run, NEW e, ConsumeRunEvent(r, e)
  PROVE  /\ inbox'[r] = inbox[r] \cup {e} /\ confirmed'[r] = Kept(r, e)
         /\ completion'[r] = Converged(r, e) /\ epoch' = epoch
         /\ state'[r] = IF Completes(r, e) THEN "completed" ELSE Reached(r, e)
         /\ outbox'[r] = IF Completes(r, e) THEN Append(outbox[r], <<"run.completed">>)
                         ELSE outbox[r]
         /\ \A q \in Run \ {r} : /\ inbox'[q] = inbox[q] /\ confirmed'[q] = confirmed[q]
                                 /\ completion'[q] = completion[q] /\ state'[q] = state[q]
                                 /\ outbox'[q] = outbox[q]
<1> DEFINE kept == WithConfirmation(confirmed[r], e)
           p == Rederived(WithProposal(completion[r], e), kept)
           st == IF /\ e.type = "result_proposed" /\ completion[r].att = 0
                    /\ state[r] \notin Terminal
                 THEN "completion_reconciling" ELSE state[r]
           done == (p.att # 0 /\ st \notin Terminal /\ Ready(p)) /\ st = "completion_reconciling"
<1>1. /\ inbox' = [inbox EXCEPT ![r] = @ \cup {e}]
      /\ confirmed' = [confirmed EXCEPT ![r] = kept]
      /\ completion' = [completion EXCEPT ![r] = p]
      /\ state' = [state EXCEPT ![r] = IF done THEN "completed" ELSE st]
      /\ outbox' = [outbox EXCEPT ![r] = IF done THEN Append(@, <<"run.completed">>) ELSE @]
      /\ epoch' = epoch
  BY Zenon DEF ConsumeRunEvent
<1>2. kept = Kept(r, e) /\ p = Converged(r, e) /\ st = Reached(r, e)
  BY DEF Kept, Converged, Reached
<1>3. done <=> Completes(r, e)
  BY <1>2 DEF Completes, Terminal
<1> HIDE DEF kept, p, st, done
<1> QED BY <1>1, <1>2, <1>3 DEF DbOK

\* Every step of the Runner and its environment, seen from one run: what is not
\* the consumption of one of its events conserves its completion.
LEMMA CompletionSteps ==
  ASSUME Inv, [Next]_vars, NEW q \in Run
  PROVE  Conserves(q) \/ \E e \in pending[q] : ConsumeRunEvent(q, e)
<1> SUFFICES ASSUME ~\E e \in pending[q] : ConsumeRunEvent(q, e)
             PROVE  Conserves(q)
  OBVIOUS
<1>1. DbOK /\ state \in [Run -> RunState] /\ TaskOK /\ BusOK
  BY DEF Inv, TypeOK, DbOK
<1>2. CASE UNCHANGED db
  BY <1>2 DEF db, Conserves
<1>3. CASE /\ UNCHANGED <<epoch, completion, confirmed, outbox>>
           /\ inbox[q] \subseteq inbox'[q]
           /\ state'[q] = state[q] \/ state'[q] \notin Proposing
  BY <1>3 DEF Conserves
<1>4. ASSUME NEW r \in Run, Admit(r)
      PROVE  Conserves(q)
  <2>1. state'[q] = state[q] \/ state'[q] \notin Proposing
    BY <1>1, <1>4 DEF Admit, Proposing
  <2>2. CASE q # r
    BY <1>1, <1>4, <2>1, <2>2 DEF Admit, Conserves, DbOK
  <2>3. CASE q = r
    <3>1. outbox'[q] = outbox[q] \o <<<<"run.command.schedule">>>>
      BY <1>1, <1>4, <2>3 DEF Admit, DbOK
    <3>2. <<<<"run.command.schedule">>>> \in Seq(Notice)
      BY DEF Notice
    <3>3. \A i \in 1..Len(<<<<"run.command.schedule">>>>) :
            <<<<"run.command.schedule">>>>[i] # <<"run.completed">>
      OBVIOUS
    <3> QED BY <1>4, <2>1, <3>1, <3>2, <3>3 DEF Admit, Conserves
  <2> QED BY <2>2, <2>3
<1>5. ASSUME NEW r \in Run, Schedule(r)
      PROVE  Conserves(q)
  <2>1. (state'[q] = state[q] /\ epoch'[q] = epoch[q]) \/ state'[q] \notin Proposing
    BY <1>1, <1>5 DEF Schedule, Proposing, DbOK
  <2> QED BY <1>5, <2>1 DEF Schedule, Conserves
<1>6. CASE RecordContainer
  BY <1>3, <1>6 DEF RecordContainer
<1>7. CASE MarkRunning
  <2>1. state'[q] = state[q] \/ state'[q] = "running"
    BY <1>1, <1>7 DEF MarkRunning
  <2> QED BY <1>3, <1>7, <2>1 DEF MarkRunning, Proposing
<1>8. CASE FailStart
  <2>1. state'[q] = state[q] \/ state'[q] = "failed"
    BY <1>1, <1>8 DEF FailStart
  <2> QED BY <1>3, <1>8, <2>1 DEF FailStart, Proposing
<1>9. CASE HandleAttemptLoss
  <2> DEFINE w == sched.row
  <2>1. state'[q] = state[q] \/ state'[q] \in {"scheduled", "failed"}
    BY <1>1, <1>9 DEF HandleAttemptLoss
  <2>2. outbox' = outbox \/ outbox' = [outbox EXCEPT ![w.run] = @ \o Interrupted(w)]
    <3>1. CASE ~w.visible /\ RetryAllowed(w.run, w.att)
      BY <1>1, <1>9, <3>1 DEF HandleAttemptLoss, DbOK
    <3>2. CASE ~(~w.visible /\ RetryAllowed(w.run, w.att))
      BY <1>9, <3>2 DEF HandleAttemptLoss
    <3> QED BY <3>1, <3>2
  <2>3. w \in Row
    BY <1>1 DEF TaskOK, SchedState
  <2>4. Interrupted(w) \in Seq(Notice)
    BY <2>3, InterruptedOK
  <2>5. \A i \in 1..Len(Interrupted(w)) : Interrupted(w)[i] # <<"run.completed">>
    BY DEF Interrupted
  <2>6. UNCHANGED <<epoch, completion, confirmed, inbox>>
    BY <1>9 DEF HandleAttemptLoss
  <2> HIDE DEF w
  <2>7. outbox'[q] = outbox[q] \/ outbox'[q] = outbox[q] \o Interrupted(w)
    BY <1>1, <2>2 DEF DbOK
  <2> QED BY <2>1, <2>4, <2>5, <2>6, <2>7 DEF Conserves, Proposing
<1>10. ASSUME NEW c \in Canceller, NEW r \in Run, RequestCancel(c, r)
       PROVE  Conserves(q)
  <2>1. state'[q] = state[q] \/ state'[q] = "cancelling"
    BY <1>1, <1>10 DEF RequestCancel
  <2> QED BY <1>3, <1>10, <2>1 DEF RequestCancel, Proposing
<1>11. ASSUME NEW c \in Canceller, CloseCancel(c)
       PROVE  Conserves(q)
  <2> DEFINE w == cancel[c].row
             t == Interrupted(w) \o <<<<"run.cancelled">>>>
  <2>1. state'[q] = state[q] \/ state'[q] = "cancelled"
    BY <1>1, <1>11 DEF CloseCancel
  <2>2. w \in Row
    BY <1>1 DEF TaskOK, CancelState
  <2>3. Interrupted(w) \in Seq(Notice) /\ <<<<"run.cancelled">>>> \in Seq(Notice)
    BY <2>2, InterruptedOK DEF Notice
  <2>4. t \in Seq(Notice) /\ \A i \in 1..Len(t) : t[i] # <<"run.completed">>
    BY <2>3 DEF Interrupted
  <2>5. UNCHANGED <<epoch, completion, confirmed, inbox>>
    BY <1>11 DEF CloseCancel
  <2>6. outbox'[q] = outbox[q] \/ outbox'[q] = outbox[q] \o t
    <3>1. outbox' = [outbox EXCEPT ![w.run] = @ \o Interrupted(w) \o <<<<"run.cancelled">>>>]
      BY <1>11 DEF CloseCancel
    <3>2. outbox[q] \in Seq(Notice)
      BY <1>1 DEF DbOK
    <3>3. outbox[q] \o Interrupted(w) \o <<<<"run.cancelled">>>> = outbox[q] \o t
      <4> HIDE DEF w
      <4>1. \A a, b, d \in Seq(Notice) : (a \o b) \o d = a \o (b \o d)
        OBVIOUS
      <4> QED BY <2>3, <3>2, <4>1
    <3> HIDE DEF w
    <3> QED BY <1>1, <3>1, <3>3 DEF DbOK
  <2> HIDE DEF t
  <2> QED BY <2>1, <2>4, <2>5, <2>6 DEF Conserves, Proposing
<1>12. CASE CloseSuspend
  <2>1. state'[q] = state[q] \/ state'[q] = "waiting_for_input"
    BY <1>1, <1>12 DEF CloseSuspend
  <2> QED BY <1>3, <1>12, <2>1 DEF CloseSuspend, Proposing
<1>13. ASSUME NEW r \in Run, NEW e \in pending[r], BeginSuspend(r, e)
       PROVE  Conserves(q)
  <2>1. (state'[q] = state[q] \/ state'[q] = "suspending") /\ inbox[q] \subseteq inbox'[q]
    BY <1>1, <1>13 DEF BeginSuspend, DbOK
  <2> QED BY <1>3, <1>13, <2>1 DEF BeginSuspend, Proposing
<1>14. ASSUME NEW r \in Run, NEW e \in pending[r], ConsumeStarted(r, e)
       PROVE  Conserves(q)
  <2>1. inbox[q] \subseteq inbox'[q]
    BY <1>1, <1>14 DEF ConsumeStarted, DbOK
  <2> QED BY <1>3, <1>14, <2>1 DEF ConsumeStarted
<1>15. ASSUME NEW r \in Run, NEW e \in pending[r], ConsumeRunEvent(r, e)
       PROVE  Conserves(q)
  <2>1. r # q
    BY <1>15
  <2> QED BY <1>1, <1>15, <2>1, RunEventDoes DEF Conserves
<1>16. CASE \/ FetchBatch \/ PrepareStart \/ CreateContainer
            \/ StartContainer \/ UndoStart \/ ReadRows \/ ProbeRow \/ InspectRow
            \/ RemoveLost \/ ReadRecorded \/ ListManaged \/ SweepOrphan
            \/ \E r \in Run : SkipSchedule(r)
  BY <1>2, <1>16, Zenon DEF FetchBatch, PrepareStart, CreateContainer,
     StartContainer, UndoStart, ReadRows, ProbeRow, InspectRow, RemoveLost, ReadRecorded,
     ListManaged, SweepOrphan, SkipSchedule
<1>17. CASE \/ StopSuspended \/ Crash \/ UNCHANGED vars
            \/ \E r \in Run : DeadlinePasses(r)
            \/ \E c \in Canceller : CancelRemove(c)
            \/ \E r \in Run : \E e \in pending[r] : Discard(r, e)
            \/ \E r \in Run, a \in Attempt : Agent(r, a)
  BY <1>2, <1>17, Zenon DEF vars, StopSuspended, Crash, DeadlinePasses, CancelRemove,
     Discard, Agent, StartMessage, CommitCheckpoint, ProposeResult,
     CommitSuspension, ExitContainer, CommitMessages
<1> QED
  BY <1>4, <1>5, <1>6, <1>7, <1>8, <1>9, <1>10, <1>11, <1>12, <1>13, <1>14, <1>15, <1>16, <1>17
     DEF Next, Scheduler, Consume

\* consume_run_event keeps the invariant of the run it is about.
LEMMA RunEventConfirms ==
  ASSUME Inv, NEW r \in Run, ConfirmedOK(r), NEW e \in pending[r], ConsumeRunEvent(r, e)
  PROVE  ConfirmedOK(r)'
<1> DEFINE p == WithProposal(completion[r], e)
           more == inbox[r] \cup {e}
<1>1. DbOK /\ e \in Event /\ completion[r] \in CompletionRow /\ confirmed[r] \in ConfirmationRow
  BY DEF Inv, TypeOK, DbOK, BusOK
<1>2. Kept(r, e) \in ConfirmationRow /\ KeptReceived(Kept(r, e), more)
  BY <1>1, WithConfirmationOK, ConfirmationKept DEF ConfirmedOK, Kept
<1>3. p \in CompletionRow /\ ProposalReceived(p, more)
  BY <1>1, WithProposalOK, ProposalMade DEF ConfirmedOK
<1>4. /\ completion[r].att # 0 => p = completion[r]
      /\ completion[r].att = 0 /\ e.type = "result_proposed" => p.att = e.att /\ p.epoch = e.epoch
  BY <1>1, ProposalMade DEF ConfirmedOK
<1>5. Converged(r, e) = Rederived(p, Kept(r, e))
  BY DEF Converged
<1> HIDE DEF p
<1>6. /\ ProposalReceived(Converged(r, e), more)
      /\ Converged(r, e).att = p.att /\ Converged(r, e).epoch = p.epoch
      /\ Ready(p) => Ready(Converged(r, e))
  BY <1>2, <1>3, <1>5, FlagsReceived
<1>7. Reached(r, e) \in Proposing => NewestProposal(Converged(r, e), epoch[r])
  <2>1. CASE state[r] \in Proposing
    BY <1>4, <1>6, <2>1 DEF ConfirmedOK, NewestProposal
  <2>2. CASE state[r] \notin Proposing /\ Reached(r, e) \in Proposing
    <3>1. e.type = "result_proposed" /\ completion[r].att = 0
      BY <2>2 DEF Reached
    <3>2. HoldsLease(r, e) /\ e.att \in Attempt
      BY <1>1, <3>1 DEF ConsumeRunEvent, Accepts, Event
    <3>3. e.att = active[r] /\ e.att # 0 /\ e.epoch = epoch[r]
      BY <3>2 DEF HoldsLease, HasLease, Attempt
    <3>4. active[r] = epoch[r]
      BY <3>3 DEF Inv, LeaseInv, LeaseIsNewest
    <3> QED BY <1>4, <1>6, <3>1, <3>3, <3>4 DEF NewestProposal
  <2> QED BY <2>1, <2>2
<1>8. Reached(r, e) = "completed" => Ready(Converged(r, e))
  <2>1. ASSUME Reached(r, e) = "completed"
        PROVE  state[r] = "completed"
    BY <2>1 DEF Reached
  <2> QED BY <1>4, <1>6, <2>1 DEF ConfirmedOK, NewestProposal, Proposing
<1>9. /\ inbox'[r] = more /\ confirmed'[r] = Kept(r, e)
      /\ completion'[r] = Converged(r, e) /\ epoch'[r] = epoch[r]
      /\ state'[r] = IF Completes(r, e) THEN "completed" ELSE Reached(r, e)
  BY <1>1, RunEventDoes
<1>10. Completes(r, e) => Ready(Converged(r, e)) /\ Reached(r, e) \in Proposing
  BY DEF Completes, Proposing
<1> HIDE DEF more
<1> QED BY <1>2, <1>6, <1>7, <1>8, <1>9, <1>10 DEF ConfirmedOK

\* Every other step keeps what it conserves.
LEMMA CompletionStep ==
  ASSUME Inv, CompletionInv, [Next]_vars
  PROVE  CompletionInv'
<1> SUFFICES ASSUME NEW q \in Run
             PROVE  ConfirmedOK(q)'
  BY DEF CompletionInv
<1>1. ConfirmedOK(q)
  BY DEF CompletionInv
<1>2. CASE Conserves(q)
  BY <1>1, <1>2, ReceivedStays DEF Conserves, ConfirmedOK, Proposing
<1>3. ASSUME NEW e \in pending[q], ConsumeRunEvent(q, e)
      PROVE  ConfirmedOK(q)'
  BY <1>1, <1>3, RunEventConfirms
<1> QED BY <1>2, <1>3, CompletionSteps

\* The invariant of the completion handshake.
THEOREM CompletionHolds == Spec => []CompletionInv
<1>1. Init => CompletionInv
  BY DEF Init, CompletionInv, ConfirmedOK, KeptReceived, ProposalReceived, NoConfirmation,
         NoProposal, Proposing
<1>2. Inv /\ CompletionInv /\ [Next]_vars => CompletionInv'
  BY CompletionStep
<1> QED BY <1>1, <1>2, InvHolds, PTL DEF Spec

\* completion.py: a run completes on the proposal of its newest attempt, and on
\* the confirmations which that proposal asks for, all of them received; no
\* confirmation of a replaced attempt or of another checkpoint counts.
THEOREM CompletedRunsAreConfirmed == Spec => []CompletedIsConfirmed
<1>1. Inv /\ CompletionInv => CompletedIsConfirmed
  <2> SUFFICES ASSUME Inv, CompletionInv, NEW r \in Run, state[r] = "completed"
               PROVE  LET p == completion[r] IN
                      /\ p.att = Len(attempts[r]) /\ p.epoch = epoch[r]
                      /\ Proposed(p.att, p.epoch, p.msgs, p.ckpt) \in inbox[r]
                      /\ p.msgs => Messages(p.att) \in inbox[r]
                      /\ p.ckpt # 0 => Checkpoint(p.att, p.ckpt) \in inbox[r]
    BY DEF CompletedIsConfirmed
  <2>1. epoch[r] = Len(attempts[r])
    BY DEF Inv, LeaseInv, LeaseIsNewest
  <2>2. ConfirmedOK(r)
    BY DEF CompletionInv
  <2> QED BY <2>1, <2>2 DEF ConfirmedOK, NewestProposal, ProposalReceived, Ready, Proposing
<1> QED BY <1>1, InvHolds, CompletionHolds, PTL

\* How often a notice is in an outbox.
Count(s, n) == Cardinality({i \in DOMAIN s : s[i] = n})

\* Other notices do not count ...
LEMMA CountOthers ==
  ASSUME NEW s \in Seq(Notice), NEW t \in Seq(Notice), NEW n, \A i \in 1..Len(t) : t[i] # n
  PROVE  Count(s \o t, n) = Count(s, n)
<1>1. {i \in DOMAIN (s \o t) : (s \o t)[i] = n} = {i \in DOMAIN s : s[i] = n}
  <2>1. /\ DOMAIN (s \o t) = 1..(Len(s) + Len(t)) /\ DOMAIN s = 1..Len(s)
        /\ Len(s) \in Nat /\ Len(t) \in Nat
    OBVIOUS
  <2>2. \A i \in 1..Len(s) : (s \o t)[i] = s[i]
    OBVIOUS
  <2>3. \A i \in 1..(Len(s) + Len(t)) : i \notin 1..Len(s) => (s \o t)[i] = t[i - Len(s)]
                                                       /\ i - Len(s) \in 1..Len(t)
    OBVIOUS
  <2> QED BY <2>1, <2>2, <2>3
<1> QED BY <1>1 DEF Count

\* ... and one more counts one more.
LEMMA CountAppend ==
  ASSUME NEW s \in Seq(Notice), NEW n
  PROVE  Count(s, n) \in Nat /\ Count(Append(s, n), n) = Count(s, n) + 1
<1> DEFINE S == {i \in DOMAIN s : s[i] = n}
<1>1. DOMAIN s = 1..Len(s) /\ Len(s) \in Nat
  OBVIOUS
<1>2. IsFiniteSet(S)
  <2>1. IsFiniteSet(1..Len(s)) /\ S \subseteq 1..Len(s)
    BY <1>1, FS_Interval
  <2> QED BY <2>1, FS_Subset
<1>3. Len(s) + 1 \notin S
  BY <1>1
<1>4. {i \in DOMAIN Append(s, n) : Append(s, n)[i] = n} = S \cup {Len(s) + 1}
  <2>1. DOMAIN Append(s, n) = 1..(Len(s) + 1)
    BY <1>1
  <2>2. \A i \in 1..(Len(s) + 1) : Append(s, n)[i] = IF i = Len(s) + 1 THEN n ELSE s[i]
    OBVIOUS
  <2> QED BY <1>1, <2>1, <2>2
<1>5. Cardinality(S \cup {Len(s) + 1}) = Cardinality(S) + 1
  BY <1>2, <1>3, FS_AddElement
<1>6. Cardinality(S) \in Nat
  BY <1>2, FS_CardinalityType
<1> QED BY <1>4, <1>5, <1>6 DEF Count

\* completion.py, _converge: run.completed is announced by the step that
\* completes the run, and by no other, however confirmations are delivered.
THEOREM AnnouncedOnce == Spec => []CompletedAnnouncedOnce
<1> DEFINE done == <<"run.completed">>
<1>1. Init => CompletedAnnouncedOnce
  <2>1. Count(<<>>, done) = 0
    BY FS_EmptySet DEF Count
  <2> QED BY <2>1 DEF Init, CompletedAnnouncedOnce, Notices, Count
<1>2. ASSUME Inv, CompletedAnnouncedOnce, [Next]_vars
      PROVE  CompletedAnnouncedOnce'
  <2> SUFFICES ASSUME NEW q \in Run
               PROVE  Count(outbox'[q], done) = IF state'[q] = "completed" THEN 1 ELSE 0
    BY DEF CompletedAnnouncedOnce, Notices, Count
  <2>1. Count(outbox[q], done) = IF state[q] = "completed" THEN 1 ELSE 0
    BY <1>2 DEF CompletedAnnouncedOnce, Notices, Count
  <2>2. outbox[q] \in Seq(Notice) /\ DbOK
    BY <1>2 DEF Inv, TypeOK, DbOK
  <2>3. state[q] = "completed" => state'[q] = "completed"
    BY <1>2, TerminalStep DEF Terminal
  <2> HIDE DEF done
  <2>4. CASE Conserves(q)
    <3>1. state'[q] = "completed" => state[q] = "completed"
      BY <2>4 DEF Conserves, Proposing
    <3>2. Count(outbox'[q], done) = Count(outbox[q], done)
      BY <2>2, <2>4, CountOthers DEF Conserves, done
    <3> QED BY <2>1, <2>3, <3>1, <3>2
  <2>5. ASSUME NEW e \in pending[q], ConsumeRunEvent(q, e)
        PROVE  Count(outbox'[q], done) = IF state'[q] = "completed" THEN 1 ELSE 0
    <3>1. CASE Completes(q, e)
      <4>1. state[q] # "completed" /\ state'[q] = "completed"
        BY <2>2, <2>5, <3>1, RunEventDoes DEF Completes, Reached, Terminal
      <4>2. outbox'[q] = Append(outbox[q], done)
        BY <2>2, <2>5, <3>1, RunEventDoes DEF done
      <4> QED BY <2>1, <2>2, <4>1, <4>2, CountAppend
    <3>2. CASE ~Completes(q, e)
      <4>1. outbox'[q] = outbox[q] /\ state'[q] = Reached(q, e)
        BY <2>2, <2>5, <3>2, RunEventDoes
      <4>2. state'[q] = "completed" => state[q] = "completed"
        BY <4>1 DEF Reached
      <4> QED BY <2>1, <2>3, <4>1, <4>2
    <3> QED BY <3>1, <3>2
  <2> QED BY <1>2, <2>4, <2>5, CompletionSteps
<1> QED BY <1>1, <1>2, InvHolds, PTL DEF Spec

-----------------------------------------------------------------------------
(* Containers.  Where podman rm does what it is asked, only the newest      *)
(* attempt of a run has a running container, and none while the run waits   *)
(* for an attempt; nor while it waits for a person, if podman container     *)
(* exists does not fail either.                                             *)

\* The container of attempt a was recorded before it was started.
RecordedAttempt(r, a) == a \in 1..Len(attempts[r]) /\ attempts[r][a].recorded

\* The states in which a run has nobody to work on it, and may get somebody.  A
\* suspension that was told its container is gone gives the run back with it.
Unheld ==
  {"absent", "accepted", "scheduled"} \cup (IF ProbeFails THEN {} ELSE {"waiting_for_input"})

RunningIsNewest ==
  \A r \in Run : \A a \in Attempt : box[r][a] = "running" =>
    a = Len(attempts[r]) /\ RecordedAttempt(r, a) /\ state[r] \notin Unheld

RunningIsRecorded ==
  \A r \in Run : state[r] \in {"running", "suspending"} => RecordedAttempt(r, active[r])

\* What the scheduler starts is the newest attempt; it can run only while the
\* run is not waiting for an attempt or for a person.
StartingIsNewest ==
  LET r == sched.row.run  a == sched.row.att IN
  /\ sched.pc \in {"prepare", "create", "record", "start", "mark"} =>
       a \in Attempt /\ a = Len(attempts[r])
  /\ sched.pc \in {"prepare", "create", "record"} =>
       ~attempts[r][a].recorded /\ state[r] \notin Unheld
  /\ sched.pc \in {"start", "mark"} => attempts[r][a].recorded
  /\ sched.pc = "start" => state[r] \notin Unheld \/ box[r][a] = "none"

\* The rows of a reconciliation know whether there is a container to remove, for
\* only the scheduler itself records one.
Accurate(w) ==
  w.att \in 1..Len(attempts[w.run]) /\ w.recorded = attempts[w.run][w.att].recorded

LostIsGone ==
  /\ sched.pc \in {"rows", "inspect", "remove", "loss"} => \A w \in sched.rows : Accurate(w)
  /\ sched.pc \in {"inspect", "remove", "loss"} => Accurate(sched.row)
  /\ sched.pc = "loss" => box[sched.row.run][sched.row.att] # "running"

\* A suspension knows the container of its attempt, and has removed it before it
\* closes, unless Podman failed to tell that there is one.
SuspendedIsGone ==
  LET r == cons.row.run  a == cons.row.att IN
  cons.pc # "idle" =>
    /\ cons.row.recorded /\ RecordedAttempt(r, a)
    /\ state[r] = "suspending" => active[r] = a
    /\ cons.pc = "close" /\ ~ProbeFails => box[r][a] = "none"

ContainerInv ==
  RunningIsNewest /\ RunningIsRecorded /\ StartingIsNewest /\ LostIsGone /\ SuspendedIsGone

\* A step keeps every attempt with its container ...
SameContainers ==
  \A q \in Run :
    /\ Len(attempts'[q]) = Len(attempts[q])
    /\ \A j \in 1..Len(attempts[q]) : attempts'[q][j].recorded = attempts[q][j].recorded

\* ... starts none ...
StartsNone ==
  \A q \in Run : \A a \in Attempt : /\ box'[q][a] = "running" => box[q][a] = "running"
                                    /\ box[q][a] = "none" => box'[q][a] = "none"

\* ... leaves no run to itself ...
LeavesNone == \A q \in Run : state'[q] \in Unheld => state[q] \in Unheld

\* ... and makes none running or suspending.
RunsNone ==
  \A q \in Run : state'[q] \in {"running", "suspending"} =>
                   state'[q] = state[q] /\ active'[q] = active[q]

\* An update of the state or of the output of an attempt is such a step.
LEMMA ContainersStay ==
  ASSUME DbOK, NEW r \in Run, NEW a, NEW x,
         \/ attempts' = attempts
         \/ attempts' = [attempts EXCEPT ![r][a].state = x]
         \/ attempts' = [attempts EXCEPT ![r][a].visible = x]
  PROVE  SameContainers
<1>1. attempts \in [Run -> Seq(AttemptRow)] /\ attempts[r] \in Seq(AttemptRow)
  BY DEF DbOK
<1>2. ASSUME NEW v, a \in 1..Len(attempts[r]) => v.recorded = attempts[r][a].recorded,
             attempts' = [attempts EXCEPT ![r][a] = v]
      PROVE  SameContainers
  <2> DEFINE s == attempts[r]
             t == [s EXCEPT ![a] = v]
  <2>1. attempts'[r] = t /\ \A q \in Run \ {r} : attempts'[q] = attempts[q]
    BY <1>1, <1>2
  <2>2. Len(t) = Len(s) /\ \A j \in 1..Len(s) : t[j] = IF j = a THEN v ELSE s[j]
    <3>1. s \in Seq(AttemptRow \cup {v})
      BY <1>1
    <3> QED BY <3>1, ReplaceInSeq
  <2>3. \A j \in 1..Len(s) : t[j].recorded = s[j].recorded
    BY <1>2, <2>2
  <2> HIDE DEF t
  <2> QED BY <2>1, <2>2, <2>3 DEF SameContainers
<1>3. a \in 1..Len(attempts[r]) => attempts[r][a] \in AttemptRow
  BY <1>1
<1>4. CASE attempts' = attempts
  BY <1>4 DEF SameContainers
<1>5. CASE attempts' = [attempts EXCEPT ![r][a].state = x]
  <2> DEFINE v == [attempts[r][a] EXCEPT !.state = x]
  <2>1. a \in 1..Len(attempts[r]) => v.recorded = attempts[r][a].recorded
    BY <1>3 DEF AttemptRow
  <2>2. attempts' = [attempts EXCEPT ![r][a] = v]
    BY <1>5
  <2> HIDE DEF v
  <2> QED BY <1>2, <2>1, <2>2
<1>6. CASE attempts' = [attempts EXCEPT ![r][a].visible = x]
  <2> DEFINE v == [attempts[r][a] EXCEPT !.visible = x]
  <2>1. a \in 1..Len(attempts[r]) => v.recorded = attempts[r][a].recorded
    BY <1>3 DEF AttemptRow
  <2>2. attempts' = [attempts EXCEPT ![r][a] = v]
    BY <1>6
  <2> HIDE DEF v
  <2> QED BY <1>2, <2>1, <2>2
<1> QED BY <1>4, <1>5, <1>6

\* A removal starts nothing, and removes what was recorded where podman rm works.
LEMMA RemoveStartsNone ==
  ASSUME PodOK, NEW r \in Run, NEW a, NEW known, Remove(r, a, known)
  PROVE  StartsNone /\ (~RemovalFails /\ known /\ a \in Attempt => box'[r][a] = "none")
<1>1. box \in [Run -> [Attempt -> {"none", "created", "running", "exited"}]]
  BY DEF PodOK
<1>2. CASE UNCHANGED box /\ (~known \/ RemovalFails)
  BY <1>2 DEF StartsNone
<1>3. CASE box' = [box EXCEPT ![r][a] = "none"]
  BY <1>1, <1>3 DEF StartsNone
<1> QED BY <1>2, <1>3 DEF Remove

\* A step that leaves the containers alone starts none and removes none.
LEMMA PodUnchanged ==
  ASSUME box' = box
  PROVE  StartsNone
  BY DEF StartsNone

\* The parts of the invariant under a step that starts, leaves and runs nothing.
LEMMA NewestStays ==
  ASSUME RunningIsNewest, SameContainers, StartsNone, LeavesNone
  PROVE  RunningIsNewest'
  BY DEF RunningIsNewest, SameContainers, StartsNone, LeavesNone, RecordedAttempt

\* A step of other tasks keeps the container of a running run recorded ...
LEMMA RecordedStays ==
  ASSUME RunningIsRecorded, SameContainers, RunsNone
  PROVE  RunningIsRecorded'
  BY DEF RunningIsRecorded, SameContainers, RunsNone, RecordedAttempt

\* ... the suspension in hand about a container it knows ...
LEMMA SuspendedStays ==
  ASSUME SuspendedIsGone, cons' = cons, cons.row.run \in Run, SameContainers, StartsNone, RunsNone,
         \A r \in Run : Len(attempts[r]) \in Nat /\ Len(attempts[r]) <= MaxAttempts
  PROVE  SuspendedIsGone'
<1> DEFINE r == cons.row.run
           a == cons.row.att
<1> SUFFICES ASSUME cons.pc # "idle"
             PROVE  /\ cons.row.recorded /\ RecordedAttempt(r, a)'
                    /\ state'[r] = "suspending" => active'[r] = a
                    /\ cons.pc = "close" /\ ~ProbeFails => box'[r][a] = "none"
  BY Zenon DEF SuspendedIsGone
<1>1. /\ cons.row.recorded /\ RecordedAttempt(r, a)
      /\ state[r] = "suspending" => active[r] = a
      /\ cons.pc = "close" /\ ~ProbeFails => box[r][a] = "none"
  BY DEF SuspendedIsGone
<1>2. a \in 1..Len(attempts[r]) /\ a \in Attempt
  BY <1>1, RunnerAssumption DEF RecordedAttempt, Attempt
<1>3. RecordedAttempt(r, a)'
  BY <1>1, <1>2 DEF RecordedAttempt, SameContainers
<1> QED BY <1>1, <1>2, <1>3 DEF StartsNone, RunsNone

\* ... the start in hand about the newest attempt ...
LEMMA StartingStays ==
  ASSUME StartingIsNewest, sched' = sched, sched.row.run \in Run,
         SameContainers, StartsNone, LeavesNone,
         \A r \in Run : Len(attempts[r]) \in Nat
  PROVE  StartingIsNewest'
<1> DEFINE r == sched.row.run
           a == sched.row.att
<1>1. a \in Attempt /\ a = Len(attempts[r]) =>
        a \in 1..Len(attempts[r]) /\ Len(attempts'[r]) = a
        /\ attempts'[r][a].recorded = attempts[r][a].recorded
  BY RunnerAssumption DEF SameContainers, Attempt
<1>2. a \in Attempt => (box[r][a] = "none" => box'[r][a] = "none")
  BY DEF StartsNone
<1>3. state[r] \notin Unheld => state'[r] \notin Unheld
  BY DEF LeavesNone
<1> QED BY <1>1, <1>2, <1>3 DEF StartingIsNewest

\* ... and a loss in hand about a container that is gone.
LEMMA LostStays ==
  ASSUME LostIsGone, sched' = sched, sched.row.run \in Run, sched.rows \subseteq Row,
         SameContainers, StartsNone,
         \A r \in Run : Len(attempts[r]) \in Nat /\ Len(attempts[r]) <= MaxAttempts
  PROVE  LostIsGone'
<1>1. ASSUME NEW w, w.run \in Run, Accurate(w)
      PROVE  Accurate(w)' /\ w.att \in Attempt
  BY <1>1, RunnerAssumption DEF Accurate, SameContainers, Attempt
<1>2. \A w \in sched.rows : w.run \in Run
  BY DEF Row
<1>3. sched.pc = "loss" => box'[sched.row.run][sched.row.att] # "running"
  BY <1>1 DEF LostIsGone, StartsNone
<1> QED BY <1>1, <1>2, <1>3 DEF LostIsGone


\* What the steps below need of the types.
LEMMA ContainerFacts ==
  ASSUME Inv
  PROVE  /\ DbOK /\ PodOK /\ state \in [Run -> RunState] /\ active \in [Run -> Nat]
         /\ \A r \in Run : /\ attempts[r] \in Seq(AttemptRow)
                           /\ Len(attempts[r]) \in Nat /\ Len(attempts[r]) <= MaxAttempts
         /\ sched \in SchedState /\ sched.row \in Row /\ sched.row.run \in Run
         /\ sched.row.recorded \in BOOLEAN /\ sched.rows \subseteq Row
         /\ cons \in ConsState /\ cons.row \in Row /\ cons.row.run \in Run
<1>1. DbOK /\ PodOK /\ TaskOK /\ RetriesBounded
  BY DEF Inv, TypeOK, LeaseInv
<1>2. sched \in SchedState /\ cons \in ConsState
  BY <1>1 DEF TaskOK
<1>3. sched.row \in Row /\ cons.row \in Row /\ sched.rows \subseteq Row
  BY <1>2 DEF SchedState, ConsState
<1>4. \A r \in Run : /\ attempts[r] \in Seq(AttemptRow)
                     /\ Len(attempts[r]) \in Nat /\ Len(attempts[r]) <= MaxAttempts
  BY <1>1 DEF DbOK, RetriesBounded
<1> QED BY <1>1, <1>2, <1>3, <1>4 DEF DbOK, Row

\* Steps of the other tasks and of the agents.
LEMMA QuietStep ==
  ASSUME Inv, ContainerInv, sched' = sched, cons' = cons,
         SameContainers, StartsNone, LeavesNone, RunsNone
  PROVE  ContainerInv'
<1>1. RunningIsNewest' /\ RunningIsRecorded'
  BY NewestStays, RecordedStays DEF ContainerInv
<1>2. StartingIsNewest'
  BY ContainerFacts, StartingStays DEF ContainerInv
<1>3. LostIsGone'
  BY ContainerFacts, LostStays DEF ContainerInv
<1>4. SuspendedIsGone'
  BY ContainerFacts, SuspendedStays DEF ContainerInv
<1> QED BY <1>1, <1>2, <1>3, <1>4 DEF ContainerInv

\* A step that leaves the runs and attempts alone.
LEMMA LedgerUnchanged ==
  ASSUME Inv, UNCHANGED <<attempts, state, active>>
  PROVE  SameContainers /\ LeavesNone /\ RunsNone
  BY DEF SameContainers, LeavesNone, RunsNone

\* Steps of the scheduler that leave the database alone and start nothing.
LEMMA SchedulerQuiet ==
  ASSUME Inv, ContainerInv, cons' = cons, SameContainers, StartsNone, LeavesNone, RunsNone
  PROVE  RunningIsNewest' /\ RunningIsRecorded' /\ SuspendedIsGone'
  BY NewestStays, RecordedStays, SuspendedStays, ContainerFacts DEF ContainerInv

\* A scheduler between its tasks holds no attempt.
LEMMA BetweenTasks ==
  ASSUME sched'.pc \in {"batch", "undo", "fail", "list", "orphans", "dead", "idle"}
  PROVE  StartingIsNewest' /\ LostIsGone'
  BY DEF StartingIsNewest, LostIsGone

\* The steps of the scheduler that only move it between its tasks.
LEMMA TaskContainers ==
  ASSUME Inv, ContainerInv,
         \/ FetchBatch \/ (\E r \in Run : SkipSchedule(r)) \/ UndoStart
         \/ ReadRecorded \/ ListManaged \/ SweepOrphan
  PROVE  ContainerInv'
<1>1. /\ UNCHANGED <<attempts, state, active>> /\ cons' = cons
  BY DEF FetchBatch, SkipSchedule, UndoStart, ReadRecorded, ListManaged, SweepOrphan, db
<1>2. sched'.pc \in {"batch", "undo", "fail", "list", "orphans", "dead", "idle"}
  <2>1. sched \in SchedState
    BY ContainerFacts
  <2>2. CASE FetchBatch
    BY <2>1, <2>2 DEF FetchBatch, SchedState
  <2>3. ASSUME NEW r \in Run, SkipSchedule(r)
        PROVE  sched'.pc = "batch"
    BY <2>1, <2>3 DEF SkipSchedule, SchedState
  <2>4. CASE UndoStart
    BY <2>1, <2>4 DEF UndoStart, SchedState
  <2>5. CASE ReadRecorded
    BY <2>1, <2>5 DEF ReadRecorded, SchedState
  <2>6. CASE ListManaged
    BY <2>1, <2>6 DEF ListManaged, SchedState
  <2>7. CASE SweepOrphan
    <3>1. \/ sched' = SchedIdle
          \/ sched.pc = "orphans" /\ \E S : sched' = [sched EXCEPT !.known = S]
      BY <2>7 DEF SweepOrphan
    <3> QED BY <2>1, <3>1 DEF SchedState, SchedIdle
  <2> QED BY <2>2, <2>3, <2>4, <2>5, <2>6, <2>7
<1>3. StartsNone
  <2>1. CASE UNCHANGED pod
    BY <2>1, PodUnchanged DEF pod
  <2>2. CASE UndoStart
    BY <2>2, ContainerFacts, RemoveStartsNone DEF UndoStart
  <2>3. ASSUME NEW ra \in sched.known, Remove(ra[1], ra[2], TRUE)
        PROVE  StartsNone
    <3>1. ra[1] \in Run
      BY ContainerFacts DEF SchedState
    <3> QED BY <2>3, <3>1, ContainerFacts, RemoveStartsNone
  <2> QED BY <2>1, <2>2, <2>3 DEF FetchBatch, SkipSchedule, ReadRecorded, ListManaged, SweepOrphan
<1> QED BY <1>1, <1>2, <1>3, LedgerUnchanged, SchedulerQuiet, BetweenTasks DEF ContainerInv

\* schedule: the run was held by nobody, so no container of it is running.
LEMMA ScheduleContainers ==
  ASSUME Inv, ContainerInv, NEW r \in Run, Schedule(r)
  PROVE  ContainerInv'
<1> DEFINE n == Len(attempts[r]) + 1
<1>1. DbOK /\ attempts[r] \in Seq(AttemptRow) /\ state[r] \in {"accepted", "scheduled"}
  BY ContainerFacts DEF Schedule, Schedulable, Candidates
<1>2. n \in Attempt
  <2>1. Len(attempts[r]) < MaxAttempts
    BY <1>1 DEF Inv, LeaseInv, RetriesBounded
  <2> QED BY <1>1, <2>1, RunnerAssumption DEF Attempt
<1>3. /\ attempts' = [attempts EXCEPT ![r] = Append(@, NewAttempt(r))]
      /\ state' = [state EXCEPT ![r] = "starting"]
      /\ active' = [active EXCEPT ![r] = n]
      /\ UNCHANGED <<box, cons>>
      /\ sched' = [sched EXCEPT !.pc = "prepare", !.batch = @ \ {r},
                                !.row = [NoRow EXCEPT !.run = r, !.att = n]]
  BY DEF Schedule, pod
<1>4. /\ Len(attempts'[r]) = n /\ attempts'[r][n] = NewAttempt(r)
      /\ \A j \in 1..Len(attempts[r]) : attempts'[r][j] = attempts[r][j]
      /\ \A q \in Run \ {r} : attempts'[q] = attempts[q]
  <2>1. \A v, j : j \in 1..Len(attempts[r]) => Append(attempts[r], v)[j] = attempts[r][j]
    BY <1>1
  <2>2. \A v : /\ Len(Append(attempts[r], v)) = n
               /\ Append(attempts[r], v)[n] = v
    BY <1>1
  <2> HIDE DEF n
  <2> QED BY <1>1, <1>3, <2>1, <2>2 DEF DbOK
<1> HIDE DEF n
<1>5. \A q \in Run : \A a : RecordedAttempt(q, a) => RecordedAttempt(q, a)'
  <2> SUFFICES ASSUME NEW q \in Run, NEW a, RecordedAttempt(q, a)
               PROVE  RecordedAttempt(q, a)'
    OBVIOUS
  <2>1. CASE q = r
    BY <1>1, <1>4, <2>1 DEF RecordedAttempt, n
  <2>2. CASE q # r
    BY <1>4, <2>2 DEF RecordedAttempt
  <2> QED BY <2>1, <2>2
<1>6. /\ \A q \in Run : state'[q] = IF q = r THEN "starting" ELSE state[q]
      /\ \A q \in Run \ {r} : active'[q] = active[q]
  BY <1>3, ContainerFacts
<1>7. RunningIsNewest'
  <2> SUFFICES ASSUME NEW q \in Run, NEW a \in Attempt, box[q][a] = "running"
               PROVE  a = Len(attempts'[q]) /\ RecordedAttempt(q, a)' /\ state'[q] \notin Unheld
    BY <1>3 DEF RunningIsNewest
  <2>1. a = Len(attempts[q]) /\ RecordedAttempt(q, a) /\ state[q] \notin Unheld
    BY DEF ContainerInv, RunningIsNewest
  <2>2. q # r
    BY <1>1, <2>1 DEF Unheld
  <2> QED BY <1>4, <1>5, <1>6, <2>1, <2>2
<1>8. RunningIsRecorded'
  BY <1>5, <1>6 DEF ContainerInv, RunningIsRecorded
<1>9. StartingIsNewest' /\ LostIsGone'
  <2>1. sched'.pc = "prepare" /\ sched'.row.run = r /\ sched'.row.att = n
    BY <1>3, ContainerFacts, NoRowOK DEF SchedState, Row
  <2>2. ~attempts'[r][n].recorded /\ state'[r] \notin Unheld
    BY <1>4, <1>6 DEF NewAttempt, Unheld
  <2> QED BY <1>2, <1>4, <2>1, <2>2 DEF StartingIsNewest, LostIsGone
<1>10. SuspendedIsGone'
  BY <1>3, <1>5, <1>6, ContainerFacts DEF ContainerInv, SuspendedIsGone
<1> QED BY <1>7, <1>8, <1>9, <1>10 DEF ContainerInv

\* _start_attempt, the steps before the container runs.
LEMMA PrepareContainers ==
  ASSUME Inv, ContainerInv, PrepareStart
  PROVE  ContainerInv'
<1>1. UNCHANGED <<attempts, state, active, box, cons>>
  BY DEF PrepareStart, db, pod
<1>2. RunningIsNewest' /\ RunningIsRecorded' /\ SuspendedIsGone'
  BY <1>1, LedgerUnchanged, PodUnchanged, SchedulerQuiet
<1>3. sched.pc = "prepare" /\ sched'.pc \in {"create", "batch"} /\ sched'.row = sched.row
  BY ContainerFacts DEF PrepareStart, SchedState
<1>4. StartingIsNewest' /\ LostIsGone'
  BY <1>1, <1>3 DEF ContainerInv, StartingIsNewest, LostIsGone
<1> QED BY <1>2, <1>4 DEF ContainerInv

\* Creating the container does not start it.
LEMMA CreateContainers ==
  ASSUME Inv, ContainerInv, CreateContainer
  PROVE  ContainerInv'
<1> DEFINE r == sched.row.run
           a == sched.row.att
<1>1. UNCHANGED <<attempts, state, active, cons>>
  BY DEF CreateContainer, db
<1>2. SameContainers /\ LeavesNone /\ RunsNone
  BY <1>1, LedgerUnchanged
<1>3. CASE UNCHANGED box /\ sched'.pc = "undo"
  BY <1>1, <1>2, <1>3, PodUnchanged, SchedulerQuiet, BetweenTasks DEF ContainerInv
<1>4. CASE box' = [box EXCEPT ![r][a] = "created"] /\ sched' = [sched EXCEPT !.pc = "record"]
  <2>1. /\ sched.pc = "create" /\ a \in Attempt /\ a = Len(attempts[r])
        /\ ~attempts[r][a].recorded /\ state[r] \notin Unheld
    BY DEF CreateContainer, ContainerInv, StartingIsNewest
  <2>2. \A q \in Run : \A b \in Attempt : IF q = r /\ b = a THEN box'[q][b] = "created"
                                            ELSE box'[q][b] = box[q][b]
    BY <1>4, <2>1, ContainerFacts DEF PodOK
  <2>3. RunningIsNewest'
    BY <1>1, <2>2 DEF ContainerInv, RunningIsNewest, RecordedAttempt
  <2>4. RunningIsRecorded'
    BY <1>2, RecordedStays DEF ContainerInv
  <2>5. sched'.pc = "record" /\ sched'.row = sched.row
    BY <1>4, ContainerFacts DEF SchedState
  <2>6. StartingIsNewest' /\ LostIsGone'
    BY <1>1, <2>1, <2>5 DEF StartingIsNewest, LostIsGone
  <2>7. SuspendedIsGone'
    <3> DEFINE s == cons.row.run
               b == cons.row.att
    <3>1. SUFFICES ASSUME cons.pc # "idle"
                   PROVE  /\ cons.row.recorded /\ RecordedAttempt(s, b)
                          /\ state[s] = "suspending" => active[s] = b
                          /\ cons.pc = "close" /\ ~ProbeFails => box'[s][b] = "none"
      BY <1>1, Zenon DEF SuspendedIsGone, RecordedAttempt
    <3>2. /\ cons.row.recorded /\ RecordedAttempt(s, b)
          /\ state[s] = "suspending" => active[s] = b
          /\ cons.pc = "close" /\ ~ProbeFails => box[s][b] = "none"
      BY <3>1 DEF ContainerInv, SuspendedIsGone
    <3>3. b \in Attempt /\ ~(s = r /\ b = a) /\ s \in Run
      BY <2>1, <3>2, ContainerFacts, RunnerAssumption DEF RecordedAttempt, Attempt
    <3> QED BY <2>2, <3>2, <3>3
  <2> QED BY <2>3, <2>4, <2>6, <2>7 DEF ContainerInv
<1>5. sched' = [sched EXCEPT !.pc = "undo"] => sched'.pc = "undo"
  BY ContainerFacts DEF SchedState
<1> QED BY <1>3, <1>4, <1>5 DEF CreateContainer, pod

\* Recording adds the container of the attempt that is being started.
LEMMA RecordContainers ==
  ASSUME Inv, ContainerInv, RecordContainer
  PROVE  ContainerInv'
<1> DEFINE r == sched.row.run
           a == sched.row.att
           v == [attempts[r][a] EXCEPT !.recorded = TRUE]
<1>1. UNCHANGED <<state, active, box, cons>>
  BY DEF RecordContainer, pod
<1>2. /\ sched.pc = "record" /\ a \in Attempt /\ a = Len(attempts[r])
      /\ state[r] \notin Unheld
  BY DEF RecordContainer, ContainerInv, StartingIsNewest
<1>3. r \in Run /\ attempts[r] \in Seq(AttemptRow) /\ a \in 1..Len(attempts[r])
  BY <1>2, ContainerFacts, RunnerAssumption DEF Attempt
<1>4. attempts[r][a] \in AttemptRow
  BY <1>3
<1>5. v \in AttemptRow /\ v.recorded = TRUE
  BY <1>4 DEF AttemptRow
<1>6. attempts' = [attempts EXCEPT ![r][a] = v]
  BY DEF RecordContainer
<1> HIDE DEF v
<1>7. attempts'[r] = [attempts[r] EXCEPT ![a] = v] /\ \A q \in Run \ {r} : attempts'[q] = attempts[q]
  BY <1>3, <1>6, ContainerFacts DEF DbOK
<1>8. /\ Len(attempts'[r]) = Len(attempts[r])
      /\ \A j \in 1..Len(attempts[r]) : attempts'[r][j] = IF j = a THEN v ELSE attempts[r][j]
  BY <1>3, <1>5, <1>7, ReplaceInSeq
<1> HIDE DEF r, a
<1>9. /\ \A q \in Run : Len(attempts'[q]) = Len(attempts[q])
      /\ \A q \in Run : \A b : RecordedAttempt(q, b) => RecordedAttempt(q, b)'
      /\ attempts'[r][a].recorded
  BY <1>3, <1>5, <1>7, <1>8 DEF RecordedAttempt
<1>10. RunningIsNewest' /\ RunningIsRecorded' /\ SuspendedIsGone'
  BY <1>1, <1>9, ContainerFacts
     DEF ContainerInv, RunningIsNewest, RunningIsRecorded, SuspendedIsGone
<1>11. sched'.pc = "start" /\ sched'.row.run = r /\ sched'.row.att = a
  BY ContainerFacts DEF RecordContainer, SchedState, Row, r, a
<1>12. StartingIsNewest' /\ LostIsGone'
  BY <1>1, <1>2, <1>9, <1>11, <1>3 DEF StartingIsNewest, LostIsGone, r, a
<1> QED BY <1>10, <1>12 DEF ContainerInv

\* The container that starts is the newest one of a run that is held.
LEMMA StartContainers ==
  ASSUME Inv, ContainerInv, StartContainer
  PROVE  ContainerInv'
<1> DEFINE r == sched.row.run
           a == sched.row.att
<1>1. UNCHANGED <<attempts, state, active, cons>>
  BY DEF StartContainer, db
<1>2. SameContainers /\ LeavesNone /\ RunsNone
  BY <1>1, LedgerUnchanged
<1>3. CASE UNCHANGED box /\ sched' = [sched EXCEPT !.pc = "undo"]
  <2>1. sched'.pc = "undo"
    BY <1>3, ContainerFacts DEF SchedState
  <2> QED BY <1>1, <1>2, <1>3, <2>1, PodUnchanged, SchedulerQuiet, BetweenTasks DEF ContainerInv
<1>4. CASE /\ box[r][a] = "created" /\ box' = [box EXCEPT ![r][a] = "running"]
           /\ sched' = [sched EXCEPT !.pc = "mark"]
  <2>1. /\ sched.pc = "start" /\ a \in Attempt /\ a = Len(attempts[r])
        /\ attempts[r][a].recorded /\ state[r] \notin Unheld
    BY <1>4 DEF StartContainer, ContainerInv, StartingIsNewest
  <2>2. \A q \in Run : \A b \in Attempt : IF q = r /\ b = a THEN box'[q][b] = "running"
                                            ELSE box'[q][b] = box[q][b]
    BY <1>4, <2>1, ContainerFacts DEF PodOK
  <2>3. RecordedAttempt(r, a)
    BY <2>1, ContainerFacts, RunnerAssumption DEF RecordedAttempt, Attempt
  <2>4. RunningIsNewest'
    BY <1>1, <2>1, <2>2, <2>3 DEF ContainerInv, RunningIsNewest, RecordedAttempt
  <2>5. RunningIsRecorded'
    BY <1>2, RecordedStays DEF ContainerInv
  <2>6. sched'.pc = "mark" /\ sched'.row = sched.row
    BY <1>4, ContainerFacts DEF SchedState
  <2>7. StartingIsNewest' /\ LostIsGone'
    BY <1>1, <2>1, <2>6 DEF StartingIsNewest, LostIsGone
  <2>8. SuspendedIsGone'
    <3> DEFINE s == cons.row.run
               b == cons.row.att
    <3>1. SUFFICES ASSUME cons.pc # "idle"
                   PROVE  /\ cons.row.recorded /\ RecordedAttempt(s, b)
                          /\ state[s] = "suspending" => active[s] = b
                          /\ cons.pc = "close" /\ ~ProbeFails => box'[s][b] = "none"
      BY <1>1, Zenon DEF SuspendedIsGone, RecordedAttempt
    <3>2. /\ cons.row.recorded /\ RecordedAttempt(s, b)
          /\ state[s] = "suspending" => active[s] = b
          /\ cons.pc = "close" /\ ~ProbeFails => box[s][b] = "none"
      BY <3>1 DEF ContainerInv, SuspendedIsGone
    <3>3. b \in Attempt /\ s \in Run
      BY <3>2, ContainerFacts, RunnerAssumption DEF RecordedAttempt, Attempt
    <3>4. cons.pc = "close" /\ ~ProbeFails => ~(s = r /\ b = a)
      BY <1>4, <3>2
    <3> QED BY <2>2, <3>2, <3>3, <3>4
  <2> QED BY <2>4, <2>5, <2>7, <2>8 DEF ContainerInv
<1> QED BY <1>3, <1>4 DEF StartContainer


\* Marking the run running knows that its container is recorded.
LEMMA MarkContainers ==
  ASSUME Inv, ContainerInv, MarkRunning
  PROVE  ContainerInv'
<1> DEFINE r == sched.row.run
           a == sched.row.att
<1>1. UNCHANGED <<active, box, cons>> /\ SameContainers
  <2>1. \/ attempts' = attempts
        \/ attempts' = [attempts EXCEPT ![r][a].state = "running"]
    BY DEF MarkRunning
  <2>2. r \in Run
    BY ContainerFacts DEF MarkRunning
  <2>3. SUFFICES SameContainers
    BY DEF MarkRunning, pod
  <2>4. CASE attempts' = [attempts EXCEPT ![r][a].state = "running"]
    BY <2>2, <2>4, ContainerFacts, ContainersStay
  <2>5. CASE attempts' = attempts
    BY <2>2, <2>5, ContainerFacts, ContainersStay
  <2> QED BY <2>1, <2>4, <2>5
<1>2. sched'.pc \in {"batch", "undo"}
  BY ContainerFacts DEF MarkRunning, SchedState
<1>3. sched.pc = "mark" /\ r \in Run /\ a \in Attempt /\ RecordedAttempt(r, a)
  BY ContainerFacts, RunnerAssumption
     DEF MarkRunning, ContainerInv, StartingIsNewest, RecordedAttempt, Attempt
<1>4. \A q \in Run : \/ state'[q] = state[q]
                     \/ state'[q] = "running" /\ q = r /\ active[q] = a
  BY <1>3, ContainerFacts DEF MarkRunning, HasLease
<1>5. LeavesNone
  BY <1>4 DEF LeavesNone, Unheld
<1>6. RunningIsNewest'
  BY <1>1, <1>5, PodUnchanged, NewestStays DEF ContainerInv
<1>7. RunningIsRecorded'
  BY <1>1, <1>3, <1>4 DEF ContainerInv, RunningIsRecorded, RecordedAttempt, SameContainers
<1>8. SuspendedIsGone'
  <2>1. \A q \in Run : state'[q] = "suspending" => state[q] = "suspending"
    BY <1>4
  <2> QED BY <1>1, <2>1, ContainerFacts
          DEF ContainerInv, SuspendedIsGone, RecordedAttempt, SameContainers
<1> QED BY <1>2, <1>6, <1>7, <1>8, BetweenTasks DEF ContainerInv

\* A failed start leaves the containers alone.
LEMMA FailContainers ==
  ASSUME Inv, ContainerInv, FailStart
  PROVE  ContainerInv'
<1> DEFINE r == sched.row.run
<1>1. UNCHANGED <<box, cons>> /\ SameContainers
  BY ContainerFacts, ContainersStay DEF FailStart, pod
<1>2. sched'.pc = "batch"
  BY ContainerFacts DEF FailStart, SchedState
<1>3. \A q \in Run : \/ state'[q] = state[q] /\ active'[q] = active[q]
                     \/ state'[q] = "failed"
  BY ContainerFacts DEF FailStart
<1>4. LeavesNone /\ RunsNone
  BY <1>3 DEF LeavesNone, RunsNone, Unheld
<1> QED BY <1>1, <1>2, <1>4, PodUnchanged, SchedulerQuiet, BetweenTasks DEF ContainerInv

\* A reconciliation reads which container it has to remove ...
LEMMA ReadContainers ==
  ASSUME Inv, ContainerInv, ReadRows \/ ProbeRow \/ InspectRow
  PROVE  ContainerInv'
<1>1. UNCHANGED <<attempts, state, active, box, cons>>
  BY DEF ReadRows, ProbeRow, InspectRow, db, pod
<1>2. RunningIsNewest' /\ RunningIsRecorded' /\ SuspendedIsGone'
  BY <1>1, LedgerUnchanged, PodUnchanged, SchedulerQuiet
<1>3. ASSUME NEW w, Accurate(w) PROVE Accurate(w)'
  BY <1>1, <1>3 DEF Accurate
<1>4. CASE ReadRows
  <2> DEFINE read == {Snapshot(r, active[r]) :
                        r \in {q \in Run : state[q] \in Reconciled /\ active[q] # 0}}
  <2>1. sched' = [sched EXCEPT !.pc = "rows", !.rows = read]
    BY <1>4 DEF ReadRows
  <2>2. \A w \in read : Accurate(w)
    <3> SUFFICES ASSUME NEW r \in Run, active[r] # 0
                 PROVE  Accurate(Snapshot(r, active[r]))
      OBVIOUS
    <3>1. active[r] \in 1..Len(attempts[r])
      BY LeaseIsAttempt
    <3> QED BY <3>1 DEF Snapshot, Accurate
  <2> HIDE DEF read
  <2>3. sched'.pc = "rows" /\ sched'.rows = read
    BY <2>1, ContainerFacts DEF SchedState
  <2>4. StartingIsNewest' /\ LostIsGone'
    BY <1>3, <2>2, <2>3 DEF StartingIsNewest, LostIsGone
  <2> QED BY <1>2, <2>4 DEF ContainerInv
<1>5. CASE ProbeRow
  <2>1. PICK w \in sched.rows : \E there \in ExistsAnswers(w.run, w.att) :
          sched' = [sched EXCEPT !.rows = @ \ {w}, !.row = w,
                      !.pc = IF w.recorded /\ there THEN "inspect" ELSE "remove"]
    BY <1>5 DEF ProbeRow
  <2>2. /\ sched'.rows \subseteq sched.rows /\ sched'.row = w /\ sched'.pc \in {"inspect", "remove"}
    BY <2>1, ContainerFacts DEF SchedState
  <2>3. \A x \in sched.rows : Accurate(x)
    BY <1>5 DEF ProbeRow, ContainerInv, LostIsGone
  <2>4. StartingIsNewest' /\ LostIsGone'
    BY <1>3, <2>2, <2>3 DEF StartingIsNewest, LostIsGone
  <2> QED BY <1>2, <2>4 DEF ContainerInv
<1>6. CASE InspectRow
  <2>1. sched.pc = "inspect" /\ sched'.rows = sched.rows /\ sched'.row = sched.row
        /\ sched'.pc \in {"rows", "remove", "dead"}
    BY <1>6, ContainerFacts DEF InspectRow, SchedState
  <2>2. Accurate(sched.row) /\ \A x \in sched.rows : Accurate(x)
    BY <2>1 DEF ContainerInv, LostIsGone
  <2>3. StartingIsNewest' /\ LostIsGone'
    BY <1>3, <2>1, <2>2 DEF StartingIsNewest, LostIsGone
  <2> QED BY <1>2, <2>3 DEF ContainerInv
<1> QED BY <1>4, <1>5, <1>6

\* ... removes it ...
LEMMA RemoveContainers ==
  ASSUME Inv, ContainerInv, ~RemovalFails, RemoveLost
  PROVE  ContainerInv'
<1> DEFINE r == sched.row.run
           a == sched.row.att
<1>1. UNCHANGED <<attempts, state, active, cons>>
  BY DEF RemoveLost, db
<1>2. /\ sched.pc = "remove" /\ sched'.pc = "loss"
      /\ sched'.row = sched.row /\ sched'.rows = sched.rows
  BY ContainerFacts DEF RemoveLost, SchedState
<1>3. Accurate(sched.row) /\ \A x \in sched.rows : Accurate(x)
  BY <1>2 DEF ContainerInv, LostIsGone
<1>4. a \in Attempt /\ r \in Run
  BY <1>3, ContainerFacts, RunnerAssumption DEF Accurate, Attempt
<1>5. StartsNone /\ (sched.row.recorded => box'[r][a] = "none")
  BY <1>4, ContainerFacts, RemoveStartsNone DEF RemoveLost
<1>6. RunningIsNewest' /\ RunningIsRecorded' /\ SuspendedIsGone'
  BY <1>1, <1>5, LedgerUnchanged, SchedulerQuiet
<1>7. box'[r][a] # "running"
  <2>1. ~sched.row.recorded => box[r][a] # "running"
    BY <1>3, <1>4 DEF Accurate, ContainerInv, RunningIsNewest, RecordedAttempt
  <2> QED BY <1>4, <1>5, <2>1 DEF StartsNone
<1>8. \A x : Accurate(x) => Accurate(x)'
  BY <1>1 DEF Accurate
<1>9. StartingIsNewest' /\ LostIsGone'
  BY <1>2, <1>3, <1>7, <1>8 DEF StartingIsNewest, LostIsGone
<1> QED BY <1>6, <1>9 DEF ContainerInv

\* ... and only then lets the run have another attempt.
LEMMA LossContainers ==
  ASSUME Inv, ContainerInv, HandleAttemptLoss
  PROVE  ContainerInv'
<1> DEFINE r == sched.row.run
           a == sched.row.att
<1>1. UNCHANGED <<box, cons>> /\ SameContainers
  BY ContainerFacts, ContainersStay DEF HandleAttemptLoss, pod
<1>2. sched.pc = "loss" /\ sched'.pc = "rows" /\ sched'.rows = sched.rows /\ sched.rows \subseteq Row
  BY ContainerFacts DEF HandleAttemptLoss, SchedState
<1>3. r \in Run /\ box[r][a] # "running" /\ a # 0 /\ \A x \in sched.rows : Accurate(x)
  BY <1>2, ContainerFacts DEF ContainerInv, LostIsGone, Inv, SchedHoldsAttempt
<1>4. \A q \in Run : \/ state'[q] = state[q] /\ active'[q] = active[q]
                     \/ /\ state'[q] \in {"scheduled", "failed"}
                        /\ q = r /\ active[r] = a
  BY <1>3, ContainerFacts DEF HandleAttemptLoss, HasLease
<1>5. active[r] = a => a = Len(attempts[r])
  BY <1>3 DEF Inv, LeaseInv, LeaseIsNewest
<1>6. RunsNone
  BY <1>4 DEF RunsNone
<1>7. RunningIsNewest'
  <2> SUFFICES ASSUME NEW q \in Run, NEW b \in Attempt, box[q][b] = "running"
               PROVE  b = Len(attempts'[q]) /\ RecordedAttempt(q, b)' /\ state'[q] \notin Unheld
    BY <1>1 DEF RunningIsNewest
  <2>1. b = Len(attempts[q]) /\ RecordedAttempt(q, b) /\ state[q] \notin Unheld
    BY DEF ContainerInv, RunningIsNewest
  <2>2. ~(q = r /\ active[r] = a)
    BY <1>3, <1>5, <2>1
  <2> QED BY <1>1, <1>4, <2>1, <2>2 DEF SameContainers, RecordedAttempt
<1>8. RunningIsRecorded' /\ SuspendedIsGone'
  BY <1>1, <1>6, RecordedStays, SuspendedStays, PodUnchanged, ContainerFacts DEF ContainerInv
<1>9. StartingIsNewest' /\ LostIsGone'
  <2>1. \A x \in sched.rows : Accurate(x)'
    BY <1>1, <1>2, <1>3 DEF Accurate, SameContainers, Row
  <2> QED BY <1>2, <2>1 DEF StartingIsNewest, LostIsGone
<1> QED BY <1>7, <1>8, <1>9 DEF ContainerInv

\* The steps of admissions, cancellations, run events and agents.
LEMMA OtherContainers ==
  ASSUME Inv, ContainerInv,
         \/ \E r \in Run : Admit(r) \/ DeadlinePasses(r)
         \/ \E c \in Canceller : CancelRemove(c) \/ CloseCancel(c)
                                   \/ \E r \in Run : RequestCancel(c, r)
         \/ \E r \in Run : \E e \in pending[r] : ConsumeStarted(r, e) \/ Discard(r, e)
         \/ \E r \in Run, a \in Attempt : Agent(r, a)
         \/ UNCHANGED vars
  PROVE  ContainerInv'
<1>0. DbOK /\ PodOK /\ state \in [Run -> RunState] /\ active \in [Run -> Nat]
  BY ContainerFacts
<1>1. CASE UNCHANGED <<attempts, state, active, box, sched, cons>>
  BY <1>1, LedgerUnchanged, PodUnchanged, QuietStep
<1>2. ASSUME NEW r \in Run, Admit(r)
      PROVE  ContainerInv'
  <2>1. UNCHANGED <<attempts, active, box, sched, cons>>
    BY <1>2 DEF Admit, pod, task
  <2>2. \A q \in Run : state'[q] = state[q] \/ (state[q] = "absent" /\ state'[q] = "accepted")
    BY <1>0, <1>2 DEF Admit
  <2>3. LeavesNone /\ RunsNone /\ SameContainers
    BY <2>1, <2>2 DEF LeavesNone, RunsNone, SameContainers, Unheld
  <2> QED BY <2>1, <2>3, PodUnchanged, QuietStep
<1>3. ASSUME NEW c \in Canceller, CancelRemove(c)
      PROVE  ContainerInv'
  <2>1. UNCHANGED <<attempts, state, active, sched, cons>>
    BY <1>3 DEF CancelRemove, db
  <2>2. cancel[c].row.run \in Run
    BY DEF Inv, TypeOK, TaskOK, CancelState, Row
  <2>3. StartsNone
    BY <1>0, <1>3, <2>2, RemoveStartsNone DEF CancelRemove
  <2> QED BY <2>1, <2>3, LedgerUnchanged, QuietStep
<1>4. ASSUME NEW c \in Canceller, CloseCancel(c)
      PROVE  ContainerInv'
  <2>1. UNCHANGED <<box, sched, cons>>
    BY <1>4 DEF CloseCancel, pod
  <2>2. cancel[c].row.run \in Run
    BY DEF Inv, TypeOK, TaskOK, CancelState, Row
  <2>3. SameContainers
    BY <1>0, <1>4, <2>2, ContainersStay DEF CloseCancel
  <2>4. \A q \in Run : \/ state'[q] = state[q] /\ active'[q] = active[q]
                       \/ state'[q] = "cancelled"
    BY <1>0, <1>4, <2>2 DEF CloseCancel
  <2>5. LeavesNone /\ RunsNone
    BY <2>4 DEF LeavesNone, RunsNone, Unheld
  <2> QED BY <2>1, <2>3, <2>5, PodUnchanged, QuietStep
<1>5. ASSUME NEW c \in Canceller, NEW r \in Run, RequestCancel(c, r)
      PROVE  ContainerInv'
  <2>1. UNCHANGED <<active, box, sched, cons>>
    BY <1>5 DEF RequestCancel, pod
  <2>2. SameContainers
    <3>1. \/ attempts' = attempts
          \/ attempts' = [attempts EXCEPT ![r][Snapshot(r, active[r]).att].state = "stopping"]
      BY <1>5 DEF RequestCancel
    <3> QED BY <1>0, <3>1, ContainersStay
  <2>3. \A q \in Run : state'[q] = state[q] \/ state'[q] = "cancelling"
    BY <1>0, <1>5 DEF RequestCancel
  <2>4. LeavesNone /\ RunsNone
    BY <2>1, <2>3 DEF LeavesNone, RunsNone, Unheld
  <2> QED BY <2>1, <2>2, <2>4, PodUnchanged, QuietStep
<1>6. ASSUME NEW r \in Run, NEW e \in pending[r], ConsumeStarted(r, e)
      PROVE  ContainerInv'
  <2>1. UNCHANGED <<state, active, box, sched, cons>>
    BY <1>6 DEF ConsumeStarted, pod, task
  <2>2. SameContainers
    BY <1>0, <1>6, ContainersStay DEF ConsumeStarted
  <2>3. LeavesNone /\ RunsNone
    BY <2>1 DEF LeavesNone, RunsNone
  <2> QED BY <2>1, <2>2, <2>3, PodUnchanged, QuietStep
<1>7. ASSUME NEW r \in Run, NEW a \in Attempt, ExitContainer(r, a)
      PROVE  ContainerInv'
  <2>1. UNCHANGED <<attempts, state, active, sched, cons>>
    BY <1>7 DEF ExitContainer, db, task
  <2>2. StartsNone
    BY <1>0, <1>7 DEF ExitContainer, PodOK, StartsNone
  <2> QED BY <2>1, <2>2, LedgerUnchanged, QuietStep
<1>8. ASSUME \/ \E r \in Run : DeadlinePasses(r)
             \/ \E r \in Run : \E e \in pending[r] : Discard(r, e)
             \/ \E r \in Run, a \in Attempt :
                  StartMessage(r, a) \/ CommitCheckpoint(r, a) \/ ProposeResult(r, a)
                    \/ CommitSuspension(r, a) \/ CommitMessages(r, a)
             \/ UNCHANGED vars
      PROVE  ContainerInv'
  <2>1. UNCHANGED <<db, pod, task>>
    BY <1>8, Zenon DEF vars, DeadlinePasses, Discard, StartMessage, CommitCheckpoint,
       ProposeResult, CommitSuspension, CommitMessages
  <2> QED BY <1>1, <2>1 DEF db, pod, task
<1> QED BY <1>2, <1>3, <1>4, <1>5, <1>6, <1>7, <1>8 DEF Agent

\* Whatever an event makes of a run, its containers stay as they are.
LEMMA RunEventContainers ==
  ASSUME Inv, ContainerInv, NEW r \in Run, NEW e \in pending[r], ConsumeRunEvent(r, e)
  PROVE  ContainerInv'
<1>1. UNCHANGED <<box, sched, cons>>
  BY Zenon DEF ConsumeRunEvent, pod, task
<1>2. SameContainers
  <2> DEFINE p == Rederived(WithProposal(completion[r], e), WithConfirmation(confirmed[r], e))
             st == IF /\ e.type = "result_proposed" /\ completion[r].att = 0
                      /\ state[r] \notin Terminal
                   THEN "completion_reconciling" ELSE state[r]
             ready == p.att # 0 /\ st \notin Terminal /\ Ready(p)
             a == p.att
  <2>1. attempts' = IF ready THEN [attempts EXCEPT ![r][a].state = "exited"] ELSE attempts
    BY Zenon DEF ConsumeRunEvent
  <2> HIDE DEF ready, a
  <2>2. \/ attempts' = attempts
        \/ attempts' = [attempts EXCEPT ![r][a].state = "exited"]
    BY <2>1
  <2>3. CASE attempts' = attempts
    BY <2>3, ContainerFacts, ContainersStay
  <2>4. CASE attempts' = [attempts EXCEPT ![r][a].state = "exited"]
    BY <2>4, ContainerFacts, ContainersStay
  <2> QED BY <2>2, <2>3, <2>4
<1>3. \A q \in Run : \/ state'[q] = state[q] /\ active'[q] = active[q]
                     \/ state'[q] \in Proposing
  <2>1. state'[r] \in Proposing \/ state'[r] = state[r]
    BY ContainerFacts, RunEventDoes DEF Reached, Proposing
  <2>2. \A q \in Run \ {r} : state'[q] = state[q]
    BY ContainerFacts, RunEventDoes
  <2>3. \E x : active' = [active EXCEPT ![r] = x] /\ (x = active[r] \/ state'[r] = "completed")
    <3> DEFINE p == Rederived(WithProposal(completion[r], e), WithConfirmation(confirmed[r], e))
               st == IF /\ e.type = "result_proposed" /\ completion[r].att = 0
                        /\ state[r] \notin Terminal
                     THEN "completion_reconciling" ELSE state[r]
               done == (p.att # 0 /\ st \notin Terminal /\ Ready(p)) /\ st = "completion_reconciling"
    <3>1. /\ state' = [state EXCEPT ![r] = IF done THEN "completed" ELSE st]
          /\ active' = [active EXCEPT ![r] = IF done THEN 0 ELSE @]
      BY Zenon DEF ConsumeRunEvent
    <3> HIDE DEF done, st
    <3> QED BY <3>1, ContainerFacts
  <2> QED BY <2>1, <2>2, <2>3, ContainerFacts DEF Proposing
<1>4. LeavesNone /\ RunsNone
  BY <1>3 DEF LeavesNone, RunsNone, Unheld, Proposing
<1> QED BY <1>1, <1>2, <1>4, PodUnchanged, QuietStep

\* suspend: the running attempt has a recorded container ...
LEMMA BeginSuspendContainers ==
  ASSUME Inv, ContainerInv, NEW r \in Run, NEW e \in pending[r], BeginSuspend(r, e)
  PROVE  ContainerInv'
<1>1. UNCHANGED <<active, box, sched>>
  BY DEF BeginSuspend, pod
<1>2. SameContainers
  BY ContainerFacts, ContainersStay DEF BeginSuspend
<1>3. /\ e.att = active[r] /\ state[r] \in {"running", "suspending"}
      /\ \A q \in Run : state'[q] = IF q = r THEN "suspending" ELSE state[q]
      /\ cons' = [pc |-> "stop", row |-> Snapshot(r, e.att), event |-> e]
  BY ContainerFacts DEF BeginSuspend, CanSuspend, HoldsLease, HasLease
<1>4. RecordedAttempt(r, e.att)
  BY <1>3 DEF ContainerInv, RunningIsRecorded
<1>5. LeavesNone
  BY <1>3 DEF LeavesNone, Unheld
<1>6. RunningIsNewest' /\ StartingIsNewest' /\ LostIsGone'
  BY <1>1, <1>2, <1>5, PodUnchanged, NewestStays, StartingStays, LostStays, ContainerFacts
     DEF ContainerInv
<1>7. RecordedAttempt(r, e.att)'
  BY <1>2, <1>4 DEF RecordedAttempt, SameContainers
<1>8. RunningIsRecorded'
  BY <1>1, <1>2, <1>3, <1>7 DEF ContainerInv, RunningIsRecorded, RecordedAttempt, SameContainers
<1>9. SuspendedIsGone'
  <2>1. /\ cons'.pc = "stop" /\ cons'.row = Snapshot(r, e.att)
        /\ e.att # 0 /\ Snapshot(r, e.att).run = r /\ Snapshot(r, e.att).att = e.att
        /\ Snapshot(r, e.att).recorded
    BY <1>3, <1>4 DEF RecordedAttempt, Snapshot
  <2> QED BY <1>1, <1>3, <1>7, <2>1 DEF SuspendedIsGone
<1> QED BY <1>6, <1>8, <1>9 DEF ContainerInv

\* ... which is gone when the run is handed over to the user, or was said to be.
LEMMA StopContainers ==
  ASSUME Inv, ContainerInv, ~RemovalFails, StopSuspended
  PROVE  ContainerInv'
<1> DEFINE w == cons.row
<1>1. UNCHANGED <<attempts, state, active, sched>>
  BY DEF StopSuspended, db
<1>2. /\ cons.pc = "stop" /\ w.run \in Run /\ w.recorded /\ RecordedAttempt(w.run, w.att)
      /\ state[w.run] = "suspending" => active[w.run] = w.att
  BY ContainerFacts DEF StopSuspended, ContainerInv, SuspendedIsGone
<1>3. w.att \in Attempt
  BY <1>2, ContainerFacts, RunnerAssumption DEF RecordedAttempt, Attempt
<1>4. StartsNone
  <2>1. UNCHANGED pod \/ Remove(w.run, w.att, w.recorded)
    BY DEF StopSuspended
  <2> QED BY <1>2, <2>1, ContainerFacts, RemoveStartsNone, PodUnchanged DEF pod
<1>5. SameContainers /\ LeavesNone /\ RunsNone
  BY <1>1, LedgerUnchanged
<1>6. RunningIsNewest' /\ RunningIsRecorded' /\ StartingIsNewest' /\ LostIsGone'
  BY <1>1, <1>4, <1>5, NewestStays, RecordedStays, StartingStays, LostStays, ContainerFacts
     DEF ContainerInv
<1>7. CASE cons' = ConsIdle
  BY <1>6, <1>7 DEF ContainerInv, SuspendedIsGone, ConsIdle
<1>8. ASSUME NEW there \in ExistsAnswers(w.run, w.att),
             IF w.recorded /\ ~there THEN UNCHANGED pod ELSE Remove(w.run, w.att, w.recorded),
             cons' = [cons EXCEPT !.pc = "close"]
      PROVE  ContainerInv'
  <2>1. ASSUME ~ProbeFails PROVE box'[w.run][w.att] = "none"
    <3>1. there = (box[w.run][w.att] # "none")
      BY <2>1 DEF ExistsAnswers
    <3> QED BY <1>2, <1>3, <1>8, <3>1, ContainerFacts, RemoveStartsNone DEF pod
  <2>2. cons'.row = w /\ cons'.pc = "close"
    BY <1>8, ContainerFacts DEF ConsState
  <2>3. SuspendedIsGone'
    BY <1>1, <1>2, <2>1, <2>2 DEF SuspendedIsGone, RecordedAttempt
  <2> QED BY <1>6, <2>3 DEF ContainerInv
<1> QED BY <1>7, <1>8 DEF StopSuspended

\* The second transaction of suspend gives the run back with its container gone.
LEMMA CloseSuspendContainers ==
  ASSUME Inv, ContainerInv, CloseSuspend
  PROVE  ContainerInv'
<1> DEFINE r == cons.row.run
           a == cons.row.att
<1>1. UNCHANGED <<box, sched>> /\ cons' = ConsIdle /\ SameContainers
  <2>1. attempts' = [attempts EXCEPT ![r][a].state = "exited"] /\ r \in Run
    BY ContainerFacts DEF CloseSuspend
  <2>2. SameContainers
    BY <2>1, ContainerFacts, ContainersStay
  <2> QED BY <2>2 DEF CloseSuspend, pod
<1>2. /\ r \in Run /\ RecordedAttempt(r, a) /\ (~ProbeFails => box[r][a] = "none")
      /\ state[r] = "suspending" => active[r] = a
  BY ContainerFacts DEF CloseSuspend, ContainerInv, SuspendedIsGone
<1>3. a # 0 /\ (active[r] = a => a = Len(attempts[r]))
  BY <1>2 DEF RecordedAttempt, Inv, LeaseInv, LeaseIsNewest
<1>4. \A q \in Run : \/ state'[q] = state[q] /\ active'[q] = active[q]
                     \/ /\ state'[q] = "waiting_for_input" /\ q = r
                        /\ a = Len(attempts[r])
  BY <1>2, <1>3, ContainerFacts DEF CloseSuspend
<1>5. RunsNone
  BY <1>4 DEF RunsNone
<1>6. RunningIsNewest'
  <2> SUFFICES ASSUME NEW q \in Run, NEW b \in Attempt, box[q][b] = "running"
               PROVE  b = Len(attempts'[q]) /\ RecordedAttempt(q, b)' /\ state'[q] \notin Unheld
    BY <1>1 DEF RunningIsNewest
  <2>1. b = Len(attempts[q]) /\ RecordedAttempt(q, b) /\ state[q] \notin Unheld
    BY DEF ContainerInv, RunningIsNewest
  <2>2. ~ProbeFails => ~(q = r /\ a = Len(attempts[r]))
    BY <1>2, <2>1
  <2>3. state'[q] \notin Unheld
    BY <1>4, <2>1, <2>2 DEF Unheld
  <2> QED BY <1>1, <2>1, <2>3 DEF SameContainers, RecordedAttempt
<1>7. RunningIsRecorded' /\ LostIsGone'
  BY <1>1, <1>5, RecordedStays, LostStays, PodUnchanged, ContainerFacts DEF ContainerInv
<1>8. SuspendedIsGone'
  BY <1>1 DEF SuspendedIsGone, ConsIdle
<1>9. StartingIsNewest'
  <2> DEFINE s == sched.row.run
             b == sched.row.att
  <2>1. sched.pc \in {"prepare", "create", "record", "start", "mark"} =>
          b \in Attempt /\ b = Len(attempts[s]) /\ b = Len(attempts'[s])
          /\ attempts'[s][b].recorded = attempts[s][b].recorded
    <3>1. sched.pc \in {"prepare", "create", "record", "start", "mark"} =>
            /\ s \in Run /\ b \in Attempt /\ b = Len(attempts[s])
      BY ContainerFacts DEF ContainerInv, StartingIsNewest
    <3>2. b \in Attempt /\ b = Len(attempts[s]) => b \in 1..Len(attempts[s])
      BY RunnerAssumption DEF Attempt
    <3> HIDE DEF s, b
    <3> QED BY <1>1, <3>1, <3>2 DEF SameContainers
  <2>2. sched.pc \in {"prepare", "create", "record"} =>
          ~attempts'[s][b].recorded /\ state'[s] \notin Unheld
    BY <1>2, <1>4, <2>1, ContainerFacts DEF ContainerInv, StartingIsNewest, RecordedAttempt
  <2>3. sched.pc \in {"start", "mark"} => attempts'[s][b].recorded
    BY <2>1 DEF ContainerInv, StartingIsNewest
  <2>4. sched.pc = "start" => state'[s] \notin Unheld \/ box[s][b] = "none"
    BY <1>2, <1>4, <2>1, ContainerFacts DEF ContainerInv, StartingIsNewest, Unheld
  <2> QED BY <1>1, <2>1, <2>2, <2>3, <2>4 DEF StartingIsNewest
<1> QED BY <1>6, <1>7, <1>8, <1>9 DEF ContainerInv

\* The Runner comes back with empty tasks, and finds the rows and the containers.
LEMMA CrashContainers ==
  ASSUME Inv, ContainerInv, Crash
  PROVE  ContainerInv'
<1>1. UNCHANGED <<attempts, state, active, box>> /\ sched' = SchedIdle /\ cons' = ConsIdle
  BY DEF Crash, db, pod
<1>2. RunningIsNewest' /\ RunningIsRecorded'
  BY <1>1, LedgerUnchanged, PodUnchanged, NewestStays, RecordedStays DEF ContainerInv
<1>3. StartingIsNewest' /\ LostIsGone' /\ SuspendedIsGone'
  BY <1>1 DEF StartingIsNewest, LostIsGone, SuspendedIsGone, SchedIdle, ConsIdle
<1> QED BY <1>2, <1>3 DEF ContainerInv

\* Every step keeps the containers where they belong.
LEMMA ContainerStep ==
  ASSUME Inv, ContainerInv, ~RemovalFails, [Next]_vars
  PROVE  ContainerInv'
<1>1. CASE Scheduler
  BY <1>1, TaskContainers, ScheduleContainers, PrepareContainers, CreateContainers,
     RecordContainers, StartContainers, MarkContainers, FailContainers, ReadContainers,
     RemoveContainers, LossContainers DEF Scheduler
<1>2. ASSUME NEW r \in Run, Consume(r)
      PROVE  ContainerInv'
  BY <1>2, OtherContainers, RunEventContainers, BeginSuspendContainers DEF Consume
<1> QED BY <1>1, <1>2, OtherContainers, StopContainers, CloseSuspendContainers, CrashContainers
        DEF Next

\* The invariant of the containers.
THEOREM ContainersHold == ~RemovalFails => (Spec => []ContainerInv)
<1> SUFFICES ASSUME ~RemovalFails PROVE Spec => []ContainerInv
  OBVIOUS
<1>1. Init => ContainerInv
  BY DEF Init, ContainerInv, RunningIsNewest, RunningIsRecorded, StartingIsNewest, LostIsGone,
         SuspendedIsGone, SchedIdle, ConsIdle, Unheld
<1>2. Inv /\ ContainerInv /\ [Next]_vars => ContainerInv'
  BY ContainerStep
<1> QED BY <1>1, <1>2, InvHolds, PTL DEF Spec

\* container.py, service.py: two containers of one run never run side by side,
\* whatever was cancelled, lost, restarted or started late, as long as podman rm
\* removes what it is told to (the code does not look at its exit code).
THEOREM ContainersAlone == ~RemovalFails => (Spec => []OneContainerPerRun)
<1>1. Inv /\ ContainerInv => OneContainerPerRun
  <2> SUFFICES ASSUME Inv, ContainerInv, NEW r \in Run
               PROVE  Cardinality({a \in Attempt : box[r][a] = "running"}) <= 1
    BY DEF OneContainerPerRun
  <2> DEFINE S == {a \in Attempt : box[r][a] = "running"}
             n == Len(attempts[r])
  <2>1. S = {} \/ S = {n}
    BY DEF ContainerInv, RunningIsNewest
  <2>2. Cardinality({}) = 0 /\ Cardinality({n}) = 1
    BY FS_EmptySet, FS_Singleton
  <2> HIDE DEF n
  <2> QED BY <2>1, <2>2
<1> QED BY <1>1, InvHolds, ContainersHold, PTL

\* service.py, suspend: a run that waits for a person holds no running container,
\* as long as podman rm removes what it is told to and podman container exists
\* does not fail (exists takes every error for "there is none").
THEOREM WaitingRunsHoldNothing ==
  ~RemovalFails /\ ~ProbeFails => (Spec => []NoContainerWhileWaiting)
<1> SUFFICES ASSUME ~RemovalFails, ~ProbeFails PROVE Spec => []NoContainerWhileWaiting
  OBVIOUS
<1>1. ContainerInv => NoContainerWhileWaiting
  BY DEF ContainerInv, RunningIsNewest, NoContainerWhileWaiting, Unheld
<1> QED BY <1>1, ContainersHold, PTL
=============================================================================
