------------------------------- MODULE Runner -------------------------------
(***************************************************************************)
(* The Agent Runner (services/agent-runner): run admission, leases, the    *)
(* life of attempt containers, cancellation, suspension, reconciliation    *)
(* and the completion handshake.                                           *)
(*                                                                         *)
(* The Runner is one process of several asyncio tasks over one database:   *)
(* the scheduler loop of main.py, the consumers of run events and of       *)
(* visible output, and one task per cancel request.  A database            *)
(* transaction is one atomic step; between two transactions, and between   *)
(* a transaction and a Podman command, every other task may run.  Each     *)
(* task therefore keeps the snapshot it took, and may act on it late.      *)
(*                                                                         *)
(* Podman, the agent in its container, the stream and the Conversation     *)
(* Service are environment, modelled as the Runner's code uses them.       *)
(***************************************************************************)
EXTENDS Integers, Sequences, FiniteSets

CONSTANTS
  Run,          \* run identities
  User,         \* run owners
  Owner,        \* the owner of each run
  Canceller,    \* cancel requests of the HTTP API, one call each
  GlobalLimit,  \* CapacityLimits.global_runs
  UserLimit,    \* CapacityLimits.per_user_runs
  MaxAttempts,  \* RunnerService.max_attempts
  BatchLimit,   \* LIMIT of the scheduler's query
  Kinds,        \* what the agents of the instance do with a run
  MaxCkpt,      \* bound: checkpoints one attempt commits
  MaxCrash,     \* bound: crashes of the Runner process
  AckLost,      \* whether an acknowledgement may be lost
  EngineFails,  \* whether a Podman command the code checks may fail or time out
  RemovalFails, \* whether podman rm, which the code does not check, may fail
  ProbeFails    \* whether podman container exists may fail: exists answers no

ASSUME RunnerAssumption ==
  /\ Run # {}
  /\ Owner \in [Run -> User]
  /\ MaxAttempts \in Nat \ {0}
  /\ GlobalLimit \in Nat \ {0} /\ UserLimit \in 1..GlobalLimit
  /\ BatchLimit \in Nat \ {0}
  /\ Kinds \subseteq {"message", "result", "suspension"}
  /\ MaxCkpt \in Nat /\ MaxCrash \in Nat
  /\ AckLost \in BOOLEAN /\ EngineFails \in BOOLEAN
  /\ RemovalFails \in BOOLEAN /\ ProbeFails \in BOOLEAN

VARIABLES
  state,       \* runs.state, "absent" before admission
  active,      \* runs.active_attempt_id as an attempt number, 0 for NULL
  epoch,       \* runs.lease_epoch
  attempts,    \* rows of table attempts by attempt number
  completion,  \* row of run_completion, att = 0 when there is none
  confirmed,   \* rows of run_confirmations: the payload kept for each kind
  inbox,       \* run_event_inbox
  outbox,      \* outbox_events in the order of their insertion
  expired,     \* whether runs.deadline_at has passed
  box,         \* container of each attempt in Podman
  net,         \* attempts whose network still reaches the Runtime API
  sent,        \* every event ever published about a run
  pending,     \* events the Runner's durable consumers still have to ack
  sched,       \* local state of the scheduler task
  cons,        \* local state of the task consuming run events
  cancel,      \* local state of each cancel request
  crashes      \* number of crashes so far

db   == <<state, active, epoch, attempts, completion, confirmed, inbox, outbox>>
pod  == <<box, net>>
bus  == <<sent, pending>>
task == <<sched, cons, cancel>>
vars == <<db, expired, pod, bus, task, crashes>>

-----------------------------------------------------------------------------
Attempt == 1..MaxAttempts

\* Mutant: TERMINAL_STATES without completed
TerminalLacksCompleted == {"failed", "cancelled"}
Terminal == {"completed", "failed", "cancelled"}

Counted == {"starting", "running", "suspending", "cancelling"}

\* Mutant: reconciliation that only looks at the runs already marked running
ReconciledLacksStarting == {"running", "cancelling"}
Reconciled == {"starting", "running", "cancelling"}

Idle      == {"absent", "accepted", "scheduled", "waiting_for_input"} \cup Terminal
RunState  == Counted \cup Idle \cup {"completion_reconciling"}

\* Mutant: the schema does not know an attempt that is being stopped
LiveAttemptLacksStopping == {"starting", "running"}

\* attempts_one_active_per_run_idx allows one attempt in these states per run
LiveAttempt == {"starting", "running", "stopping"}
AttemptRow == [state : LiveAttempt \cup {"failed", "exited"},
               epoch : Nat, recorded : BOOLEAN, visible : BOOLEAN]

Started(a, e)        == [type |-> "message_started", att |-> a, epoch |-> e]
Proposed(a, e, m, k) == [type |-> "result_proposed", att |-> a, epoch |-> e,
                         msgs |-> m, ckpt |-> k]
Suspended(a, e)      == [type |-> "suspension_committed", att |-> a, epoch |-> e]
Messages(a)          == [type |-> "messages_committed", att |-> a]
Checkpoint(a, k)     == [type |-> "checkpoint_committed", att |-> a, ckpt |-> k]

Event ==
  [type : {"message_started", "suspension_committed"}, att : Attempt, epoch : Nat]
    \cup [type : {"result_proposed"}, att : Attempt, epoch : Nat,
          msgs : BOOLEAN, ckpt : Nat]
    \cup [type : {"messages_committed"}, att : Attempt]
    \cup [type : {"checkpoint_committed"}, att : Attempt, ckpt : Nat]

\* The outbox rows that matter here: terminal run events and interruptions
Notice == {<<"run.command.schedule">>, <<"run.completed">>, <<"run.cancelled">>}
            \cup {"message.interrupted"} \X Nat

NoProposal == [att |-> 0, epoch |-> 0, msgs |-> FALSE, ckpt |-> 0,
               messagesOk |-> FALSE, checkpointOk |-> FALSE]
NoConfirmation == [messages |-> 0, checkpoint |-> <<0, 0>>]

Row == [run : Run, att : Nat, recorded : BOOLEAN, visible : BOOLEAN]
NoRow == [run |-> CHOOSE r \in Run : TRUE, att |-> 0,
          recorded |-> FALSE, visible |-> FALSE]

SchedIdle  == [pc |-> "idle", batch |-> {}, rows |-> {}, row |-> NoRow, known |-> {}]
ConsIdle   == [pc |-> "idle", row |-> NoRow, event |-> Suspended(1, 1)]
CancelIdle == [pc |-> "idle", row |-> NoRow]

\* What a task remembers of attempt a of run r when it leaves the transaction
Snapshot(r, a) ==
  IF a = 0 THEN [NoRow EXCEPT !.run = r]
  ELSE [run |-> r, att |-> a, recorded |-> attempts[r][a].recorded,
        visible |-> attempts[r][a].visible]

CompletionRow == [att : Nat, epoch : Nat, msgs : BOOLEAN, ckpt : Nat,
                  messagesOk : BOOLEAN, checkpointOk : BOOLEAN]
ConfirmationRow == [messages : Nat, checkpoint : Nat \X Nat]

SchedState ==
  [pc : {"idle", "batch", "prepare", "create", "record", "start", "mark", "undo", "fail",
         "rows", "inspect", "remove", "loss", "list", "orphans", "dead"},
   batch : SUBSET Run, rows : SUBSET Row, row : Row, known : SUBSET (Run \X Attempt)]
ConsState == [pc : {"idle", "stop", "close"}, row : Row, event : Event]
CancelState == [pc : {"idle", "remove", "close", "done"}, row : Row]

DbOK ==
  /\ state \in [Run -> RunState]
  /\ active \in [Run -> Nat] /\ epoch \in [Run -> Nat]
  /\ attempts \in [Run -> Seq(AttemptRow)]
  /\ completion \in [Run -> CompletionRow]
  /\ confirmed \in [Run -> ConfirmationRow]
  /\ inbox \in [Run -> SUBSET Event]
  /\ outbox \in [Run -> Seq(Notice)]

PodOK ==
  /\ box \in [Run -> [Attempt -> {"none", "created", "running", "exited"}]]
  /\ net \in [Run -> SUBSET Nat]

BusOK == sent \in [Run -> SUBSET Event] /\ pending \in [Run -> SUBSET Event]

TaskOK ==
  /\ sched \in SchedState
  /\ cons \in ConsState
  /\ cancel \in [Canceller -> CancelState]

TypeOK ==
  DbOK /\ PodOK /\ BusOK /\ TaskOK /\ expired \in [Run -> BOOLEAN] /\ crashes \in 0..MaxCrash

Init ==
  /\ state = [r \in Run |-> "absent"]
  /\ active = [r \in Run |-> 0]
  /\ epoch = [r \in Run |-> 0]
  /\ attempts = [r \in Run |-> <<>>]
  /\ completion = [r \in Run |-> NoProposal]
  /\ confirmed = [r \in Run |-> NoConfirmation]
  /\ inbox = [r \in Run |-> {}]
  /\ outbox = [r \in Run |-> <<>>]
  /\ expired = [r \in Run |-> FALSE]
  /\ box = [r \in Run |-> [a \in Attempt |-> "none"]]
  /\ net = [r \in Run |-> {}]
  /\ sent = [r \in Run |-> {}]
  /\ pending = [r \in Run |-> {}]
  /\ sched = SchedIdle
  /\ cons = ConsIdle
  /\ cancel = [c \in Canceller |-> CancelIdle]
  /\ crashes = 0

-----------------------------------------------------------------------------
(* Admission.  A repeated request replays the stored run and a conflicting *)
(* one raises: neither changes state.                                      *)
Admit(r) ==
  /\ state[r] = "absent"
  /\ state' = [state EXCEPT ![r] = "accepted"]
  /\ outbox' = [outbox EXCEPT ![r] = Append(@, <<"run.command.schedule">>)]
  /\ UNCHANGED <<active, epoch, attempts, completion, confirmed, inbox,
                 expired, pod, bus, task, crashes>>

DeadlinePasses(r) ==
  /\ state[r] # "absent" /\ ~expired[r]
  /\ expired' = [expired EXCEPT ![r] = TRUE]
  /\ UNCHANGED <<db, pod, bus, task, crashes>>

-----------------------------------------------------------------------------
(* The scheduler task: start the waiting runs, then reconcile, for ever.   *)
Candidates == {r \in Run : state[r] \in {"accepted", "scheduled"} /\ active[r] = 0}

FetchBatch ==
  /\ sched.pc = "idle"
  /\ \E S \in SUBSET Candidates :
       /\ Cardinality(S) = IF Cardinality(Candidates) > BatchLimit
                           THEN BatchLimit ELSE Cardinality(Candidates)
       /\ sched' = [sched EXCEPT !.pc = "batch", !.batch = S]
  /\ UNCHANGED <<db, expired, pod, bus, cons, cancel, crashes>>

HasCapacity(u) ==
  /\ Cardinality({r \in Run : state[r] \in Counted}) < GlobalLimit
  /\ Cardinality({r \in Run : Owner[r] = u /\ state[r] \in Counted}) < UserLimit

\* The guard `AND active_attempt_id=$2` of every late writer, and its mutant:
\* the guard left out of the statement
AnyWriter(r, a) == TRUE
HasLease(r, a) == active[r] = a

Schedulable(r) == r \in Candidates /\ HasCapacity(Owner[r])

\* The attempt row of a new lease, and its mutant: the epoch not advanced
StaleAttempt(r) == [state |-> "starting", epoch |-> epoch[r],
                    recorded |-> FALSE, visible |-> FALSE]
NewAttempt(r) == [state |-> "starting", epoch |-> epoch[r] + 1,
                  recorded |-> FALSE, visible |-> FALSE]

Schedule(r) ==
  /\ sched.pc = "batch" /\ r \in sched.batch
  /\ Schedulable(r)
  /\ epoch' = [epoch EXCEPT ![r] = @ + 1]
  /\ attempts' = [attempts EXCEPT ![r] = Append(@, NewAttempt(r))]
  /\ state' = [state EXCEPT ![r] = "starting"]
  /\ active' = [active EXCEPT ![r] = Len(attempts[r]) + 1]
  /\ sched' = [sched EXCEPT !.pc = "prepare", !.batch = @ \ {r},
                            !.row = [NoRow EXCEPT !.run = r, !.att = Len(attempts[r]) + 1]]
  /\ UNCHANGED <<completion, confirmed, inbox, outbox, expired, pod, bus, cons, cancel, crashes>>

SkipSchedule(r) ==
  /\ sched.pc = "batch" /\ r \in sched.batch
  /\ ~Schedulable(r)
  /\ sched' = [sched EXCEPT !.batch = @ \ {r}]
  /\ UNCHANGED <<db, expired, pod, bus, cons, cancel, crashes>>

\* _start_attempt reads the run again; if the attempt lost its lease the row
\* is missing, and what it reads may be no valid specification.  Either error
\* is raised outside the try: it is suppressed, nothing is undone, and a run
\* that holds its lease stays starting until reconciliation finds it.
PrepareStart ==
  /\ sched.pc = "prepare"
  /\ \/ /\ HasLease(sched.row.run, sched.row.att)
        /\ sched' = [sched EXCEPT !.pc = "create"]
     \/ sched' = [sched EXCEPT !.pc = "batch"]
  /\ UNCHANGED <<db, expired, pod, bus, cons, cancel, crashes>>

CreateContainer ==
  LET r == sched.row.run  a == sched.row.att IN
  /\ sched.pc = "create"
  /\ \/ /\ box' = [box EXCEPT ![r][a] = "created"]
        /\ net' = [net EXCEPT ![r] = @ \cup {a}]
        /\ sched' = [sched EXCEPT !.pc = "record"]
     \/ /\ EngineFails
        /\ sched' = [sched EXCEPT !.pc = "undo"]
        /\ UNCHANGED pod
  /\ UNCHANGED <<db, expired, bus, cons, cancel, crashes>>

\* Mutant: the container is started without its id being saved
ForgetContainer ==
  /\ sched.pc = "record"
  /\ sched' = [sched EXCEPT !.pc = "start", !.row.recorded = TRUE]
  /\ UNCHANGED <<db, expired, pod, bus, cons, cancel, crashes>>

RecordContainer ==
  LET r == sched.row.run  a == sched.row.att IN
  /\ sched.pc = "record"
  /\ attempts' = [attempts EXCEPT ![r][a].recorded = TRUE]
  /\ sched' = [sched EXCEPT !.pc = "start", !.row.recorded = TRUE]
  /\ UNCHANGED <<state, active, epoch, completion, confirmed, inbox, outbox,
                 expired, pod, bus, cons, cancel, crashes>>

\* podman start fails when a cancel removed the container in the meantime
StartContainer ==
  LET r == sched.row.run  a == sched.row.att IN
  /\ sched.pc = "start"
  /\ \/ /\ box[r][a] = "created"
        /\ box' = [box EXCEPT ![r][a] = "running"]
        /\ sched' = [sched EXCEPT !.pc = "mark"]
     \/ /\ box[r][a] # "created" \/ EngineFails
        /\ sched' = [sched EXCEPT !.pc = "undo"]
        /\ UNCHANGED box
  /\ UNCHANGED <<db, expired, net, bus, cons, cancel, crashes>>

\* The unique index refuses a second live attempt: the transaction aborts
MarkRunning ==
  LET r == sched.row.run  a == sched.row.att IN
  /\ sched.pc = "mark"
  /\ IF \E b \in DOMAIN attempts[r] \ {a} : attempts[r][b].state \in LiveAttempt
     THEN /\ sched' = [sched EXCEPT !.pc = "undo"]
          /\ UNCHANGED <<attempts, state>>
     ELSE /\ attempts' = [attempts EXCEPT ![r][a].state = "running"]
          /\ state' = [state EXCEPT ![r] = IF HasLease(r, a) THEN "running" ELSE @]
          /\ sched' = [sched EXCEPT !.pc = "batch"]
  /\ UNCHANGED <<active, epoch, completion, confirmed, inbox, outbox,
                 expired, pod, bus, cons, cancel, crashes>>

\* Mutant: podman rm without --force keeps a running container
RemoveUnforced(r, a, known) ==
  /\ box' = [box EXCEPT ![r][a] = IF known /\ @ # "running" THEN "none" ELSE @]
  /\ net' = [net EXCEPT ![r] = @ \ {a}]

\* ContainerBackend.remove: without a recorded id only the network goes, and
\* the exit codes of the commands are not looked at.
Remove(r, a, known) ==
  /\ \/ known /\ box' = [box EXCEPT ![r][a] = "none"]
     \/ (~known \/ RemovalFails) /\ UNCHANGED box
  /\ net' = [net EXCEPT ![r] = @ \ {a}]

UndoStart ==
  /\ sched.pc = "undo"
  /\ Remove(sched.row.run, sched.row.att, TRUE)
  /\ sched' = [sched EXCEPT !.pc = "fail"]
  /\ UNCHANGED <<db, expired, bus, cons, cancel, crashes>>

FailStart ==
  LET r == sched.row.run  a == sched.row.att IN
  /\ sched.pc = "fail"
  /\ attempts' = [attempts EXCEPT ![r][a].state = "failed"]
  /\ IF HasLease(r, a)
     THEN /\ state' = [state EXCEPT ![r] = "failed"]
          /\ active' = [active EXCEPT ![r] = 0]
     ELSE UNCHANGED <<state, active>>
  /\ sched' = [sched EXCEPT !.pc = "batch"]
  /\ UNCHANGED <<epoch, completion, confirmed, inbox, outbox,
                 expired, pod, bus, cons, cancel, crashes>>

-----------------------------------------------------------------------------
(* Reconciliation: every decision below is taken on the rows read here.    *)
ReadRows ==
  /\ sched.pc = "batch" /\ sched.batch = {}
  /\ sched' = [sched EXCEPT !.pc = "rows",
       !.rows = {Snapshot(r, active[r]) :
                   r \in {q \in Run : state[q] \in Reconciled /\ active[q] # 0}}]
  /\ UNCHANGED <<db, expired, pod, bus, cons, cancel, crashes>>

\* The answers of ContainerBackend.exists: any exit code but zero is read as
\* "no", also the one with which Podman reports an error of its own.
ExistsAnswers(r, a) == {box[r][a] # "none"} \cup (IF ProbeFails THEN {FALSE} ELSE {})

\* is_running, first command: does the container exist?
ProbeRow ==
  /\ sched.pc = "rows"
  /\ \E w \in sched.rows : \E there \in ExistsAnswers(w.run, w.att) :
       sched' = [sched EXCEPT !.rows = @ \ {w}, !.row = w,
                   !.pc = IF w.recorded /\ there THEN "inspect" ELSE "remove"]
  /\ UNCHANGED <<db, expired, pod, bus, cons, cancel, crashes>>

\* is_running, second command: podman inspect raises when the container is
\* gone, and nothing between here and the scheduler's while catches it.
InspectRow ==
  LET now == box[sched.row.run][sched.row.att] IN
  /\ sched.pc = "inspect"
  /\ \/ sched' = [sched EXCEPT !.pc = CASE now = "none"    -> "dead"
                                        [] now = "running" -> "rows"
                                        [] OTHER           -> "remove"]
     \/ EngineFails /\ sched' = [sched EXCEPT !.pc = "dead"]
  /\ UNCHANGED <<db, expired, pod, bus, cons, cancel, crashes>>

RemoveLost ==
  /\ sched.pc = "remove"
  /\ Remove(sched.row.run, sched.row.att, sched.row.recorded)
  /\ sched' = [sched EXCEPT !.pc = "loss"]
  /\ UNCHANGED <<db, expired, bus, cons, cancel, crashes>>

\* Mutant: one attempt too many
RetryAllowedOnceMore(r, a) == a <= MaxAttempts /\ ~expired[r]
RetryAllowed(r, a) == a < MaxAttempts /\ ~expired[r]

Interrupted(w) == IF w.visible THEN <<<<"message.interrupted", w.att>>>> ELSE <<>>

HandleAttemptLoss ==
  LET w == sched.row
      retry == ~w.visible /\ RetryAllowed(w.run, w.att)
  IN
  /\ sched.pc = "loss"
  /\ attempts' = [attempts EXCEPT ![w.run][w.att].state = "failed"]
  /\ IF HasLease(w.run, w.att)
     THEN /\ state' = [state EXCEPT ![w.run] = IF retry THEN "scheduled" ELSE "failed"]
          /\ active' = [active EXCEPT ![w.run] = 0]
     ELSE UNCHANGED <<state, active>>
  /\ outbox' = [outbox EXCEPT ![w.run] = IF retry THEN @ ELSE @ \o Interrupted(w)]
  /\ sched' = [sched EXCEPT !.pc = "rows"]
  /\ UNCHANGED <<epoch, completion, confirmed, inbox, expired, pod, bus, cons, cancel, crashes>>

\* The orphan sweep reads the recorded containers before it lists the live ones
ReadRecorded ==
  /\ sched.pc = "rows" /\ sched.rows = {}
  /\ sched' = [sched EXCEPT !.pc = "list",
       !.known = {ra \in Run \X Attempt :
                    ra[2] <= Len(attempts[ra[1]]) /\ attempts[ra[1]][ra[2]].recorded}]
  /\ UNCHANGED <<db, expired, pod, bus, cons, cancel, crashes>>

ListManaged ==
  /\ sched.pc = "list"
  /\ \/ sched' = [sched EXCEPT !.pc = "orphans",
          !.known = {ra \in Run \X Attempt : box[ra[1]][ra[2]] # "none"} \ @]
     \/ EngineFails /\ sched' = [sched EXCEPT !.pc = "dead"]
  /\ UNCHANGED <<db, expired, pod, bus, cons, cancel, crashes>>

SweepOrphan ==
  /\ sched.pc = "orphans"
  /\ IF sched.known = {}
     THEN sched' = SchedIdle /\ UNCHANGED pod
     ELSE \E ra \in sched.known :
            /\ Remove(ra[1], ra[2], TRUE)
            /\ sched' = [sched EXCEPT !.known = @ \ {ra}]
  /\ UNCHANGED <<db, expired, bus, cons, cancel, crashes>>

Scheduler ==
  \/ FetchBatch \/ \E r \in Run : Schedule(r) \/ SkipSchedule(r)
  \/ PrepareStart \/ CreateContainer \/ RecordContainer \/ StartContainer
  \/ MarkRunning \/ UndoStart \/ FailStart
  \/ ReadRows \/ ProbeRow \/ InspectRow \/ RemoveLost \/ HandleAttemptLoss
  \/ ReadRecorded \/ ListManaged \/ SweepOrphan

-----------------------------------------------------------------------------
(* Cancellation: a transaction, the removal, a second transaction.         *)
RequestCancel(c, r) ==
  LET w == Snapshot(r, active[r]) IN
  /\ cancel[c].pc = "idle"
  /\ state[r] \notin Terminal \cup {"absent"}
  /\ state' = [state EXCEPT ![r] = "cancelling"]
  /\ attempts' = IF w.att = 0 THEN attempts
                 ELSE [attempts EXCEPT ![r][w.att].state = "stopping"]
  /\ cancel' = [cancel EXCEPT ![c] =
                 [pc |-> IF w.att = 0 THEN "close" ELSE "remove", row |-> w]]
  /\ UNCHANGED <<active, epoch, completion, confirmed, inbox, outbox,
                 expired, pod, bus, sched, cons, crashes>>

CancelRemove(c) ==
  LET w == cancel[c].row IN
  /\ cancel[c].pc = "remove"
  /\ Remove(w.run, w.att, w.recorded)
  /\ cancel' = [cancel EXCEPT ![c].pc = "close"]
  /\ UNCHANGED <<db, expired, bus, sched, cons, crashes>>

CloseCancel(c) ==
  LET w == cancel[c].row IN
  /\ cancel[c].pc = "close"
  /\ attempts' = IF w.att = 0 THEN attempts
                 ELSE [attempts EXCEPT ![w.run][w.att].state = "exited"]
  /\ IF state[w.run] = "cancelling"
     THEN /\ state' = [state EXCEPT ![w.run] = "cancelled"]
          /\ active' = [active EXCEPT ![w.run] = 0]
     ELSE UNCHANGED <<state, active>>
  /\ outbox' = [outbox EXCEPT ![w.run] = @ \o Interrupted(w) \o <<<<"run.cancelled">>>>]
  /\ cancel' = [cancel EXCEPT ![c].pc = "done"]
  /\ UNCHANGED <<epoch, completion, confirmed, inbox, expired, pod, bus, sched, cons, crashes>>

-----------------------------------------------------------------------------
(* Run events.  The durable consumer hands over one event at a time; an    *)
(* event that raises is redelivered and, at the last delivery, moved to    *)
(* the dead letters.  A failed delivery changes nothing, so only the last  *)
(* one is a step (Discard).                                                *)
Acknowledge(r, e) ==
  \/ pending' = [pending EXCEPT ![r] = @ \ {e}]
  \/ AckLost /\ UNCHANGED pending

\* Mutant: the epoch alone, which outlives the lease of a lost attempt
HoldsEpoch(r, e) == e.epoch = epoch[r]
HoldsLease(r, e) == HasLease(r, e.att) /\ e.epoch = epoch[r]

SameProposal(p, e) ==
  /\ p.att = e.att /\ p.epoch = e.epoch /\ p.msgs = e.msgs /\ p.ckpt = e.ckpt

MessagesMatch(p, a) == p.msgs /\ p.att = a
CheckpointMatch(p, a, k) == p.ckpt # 0 /\ p.att = a /\ p.ckpt = k

Accepts(r, e) ==
  /\ e \notin inbox[r]
  /\ CASE e.type = "message_started" -> HoldsLease(r, e)
       [] e.type = "result_proposed" ->
            /\ HoldsLease(r, e)
            /\ completion[r].att = 0 \/ SameProposal(completion[r], e)
       [] e.type = "messages_committed" ->
            completion[r].att = 0 \/ MessagesMatch(completion[r], e.att)
       [] e.type = "checkpoint_committed" ->
            completion[r].att = 0 \/ CheckpointMatch(completion[r], e.att, e.ckpt)
       [] OTHER -> FALSE

\* The second consumer of the Runner, on the conversation event
ConsumeStarted(r, e) ==
  /\ e \in pending[r] /\ e.type = "message_started"
  /\ Accepts(r, e)
  /\ attempts' = [attempts EXCEPT ![r][e.att].visible = TRUE]
  /\ inbox' = [inbox EXCEPT ![r] = @ \cup {e}]
  /\ Acknowledge(r, e)
  /\ UNCHANGED <<state, active, epoch, completion, confirmed, outbox,
                 expired, pod, sent, task, crashes>>

WithProposal(p, e) ==
  IF e.type = "result_proposed" /\ p.att = 0
  THEN [NoProposal EXCEPT !.att = e.att, !.epoch = e.epoch, !.msgs = e.msgs, !.ckpt = e.ckpt]
  ELSE p

WithConfirmation(f, e) ==
  CASE e.type = "messages_committed"   -> [f EXCEPT !.messages = e.att]
    [] e.type = "checkpoint_committed" -> [f EXCEPT !.checkpoint = <<e.att, e.ckpt>>]
    [] OTHER -> f

\* _converge sets a flag from the kept payload and never clears one
Rederived(p, f) ==
  IF p.att = 0 THEN p
  ELSE [p EXCEPT
          !.messagesOk = @ \/ MessagesMatch(p, f.messages),
          !.checkpointOk = @ \/ CheckpointMatch(p, f.checkpoint[1], f.checkpoint[2])]

\* Mutant: one of two confirmations is enough
ReadyForOne(p) == (p.msgs => p.messagesOk) \/ (p.ckpt # 0 => p.checkpointOk)
Ready(p) == (p.msgs => p.messagesOk) /\ (p.ckpt # 0 => p.checkpointOk)

ConsumeRunEvent(r, e) ==
  LET kept == WithConfirmation(confirmed[r], e)
      p == Rederived(WithProposal(completion[r], e), kept)
      st == IF /\ e.type = "result_proposed" /\ completion[r].att = 0
               /\ state[r] \notin Terminal
            THEN "completion_reconciling" ELSE state[r]
      ready == p.att # 0 /\ st \notin Terminal /\ Ready(p)
      done == ready /\ st = "completion_reconciling"
  IN
  /\ cons.pc = "idle"
  /\ e \in pending[r] /\ e.type \notin {"message_started", "suspension_committed"}
  /\ Accepts(r, e)
  /\ inbox' = [inbox EXCEPT ![r] = @ \cup {e}]
  /\ confirmed' = [confirmed EXCEPT ![r] = kept]
  /\ completion' = [completion EXCEPT ![r] = p]
  /\ attempts' = IF ready THEN [attempts EXCEPT ![r][p.att].state = "exited"] ELSE attempts
  /\ state' = [state EXCEPT ![r] = IF done THEN "completed" ELSE st]
  /\ active' = [active EXCEPT ![r] = IF done THEN 0 ELSE @]
  /\ outbox' = [outbox EXCEPT ![r] = IF done THEN Append(@, <<"run.completed">>) ELSE @]
  /\ Acknowledge(r, e)
  /\ UNCHANGED <<epoch, expired, pod, sent, task, crashes>>

\* suspend, first transaction
CanSuspend(r, e) == HoldsLease(r, e) /\ state[r] \in {"running", "suspending"}

BeginSuspend(r, e) ==
  /\ cons.pc = "idle"
  /\ e \in pending[r] /\ e.type = "suspension_committed"
  /\ CanSuspend(r, e)
  /\ inbox' = [inbox EXCEPT ![r] = @ \cup {e}]
  /\ state' = [state EXCEPT ![r] = "suspending"]
  /\ attempts' = [attempts EXCEPT ![r][e.att].state = "stopping"]
  /\ cons' = [pc |-> "stop", row |-> Snapshot(r, e.att), event |-> e]
  /\ UNCHANGED <<active, epoch, completion, confirmed, outbox,
                 expired, pod, bus, sched, cancel, crashes>>

\* Nothing is removed when the container is said not to exist.  The removal is
\* given five seconds; when it times out the event is redelivered, and Podman
\* may or may not have finished the removal.
StopSuspended ==
  LET w == cons.row IN
  /\ cons.pc = "stop"
  /\ \E there \in ExistsAnswers(w.run, w.att) :
       \/ /\ IF w.recorded /\ ~there THEN UNCHANGED pod
             ELSE Remove(w.run, w.att, w.recorded)
          /\ cons' = [cons EXCEPT !.pc = "close"]
          /\ UNCHANGED pending
       \/ /\ EngineFails
          /\ ~w.recorded \/ there
          /\ Remove(w.run, w.att, w.recorded) \/ UNCHANGED pod
          /\ cons' = ConsIdle
          /\ pending' = [pending EXCEPT ![w.run] = @ \ {cons.event}] \/ UNCHANGED pending
  /\ UNCHANGED <<db, expired, sent, sched, cancel, crashes>>

CloseSuspend ==
  LET w == cons.row IN
  /\ cons.pc = "close"
  /\ attempts' = [attempts EXCEPT ![w.run][w.att].state = "exited"]
  /\ IF state[w.run] = "suspending"
     THEN /\ state' = [state EXCEPT ![w.run] = "waiting_for_input"]
          /\ active' = [active EXCEPT ![w.run] = 0]
     ELSE UNCHANGED <<state, active>>
  /\ cons' = ConsIdle
  /\ Acknowledge(w.run, cons.event)
  /\ UNCHANGED <<epoch, completion, confirmed, inbox, outbox,
                 expired, pod, sent, sched, cancel, crashes>>

\* A duplicate is acknowledged; an event that still raises at its last
\* delivery is moved to the dead letters.
Discard(r, e) ==
  /\ e \in pending[r]
  /\ e.type # "message_started" => cons.pc = "idle"
  /\ IF e.type = "suspension_committed" THEN ~CanSuspend(r, e) ELSE ~Accepts(r, e)
  /\ pending' = [pending EXCEPT ![r] = @ \ {e}]
  /\ UNCHANGED <<db, expired, pod, sent, task, crashes>>

Consume(r) ==
  \E e \in pending[r] : ConsumeStarted(r, e) \/ ConsumeRunEvent(r, e)
                          \/ BeginSuspend(r, e) \/ Discard(r, e)

-----------------------------------------------------------------------------
(* The Runner process dies and comes back with empty tasks.                *)
Crash ==
  /\ crashes < MaxCrash
  /\ crashes' = crashes + 1
  /\ sched' = SchedIdle
  /\ cons' = ConsIdle
  /\ cancel' = [c \in Canceller |-> IF cancel[c].pc = "idle" THEN cancel[c]
                                    ELSE [cancel[c] EXCEPT !.pc = "done"]]
  /\ UNCHANGED <<db, expired, pod, bus>>

-----------------------------------------------------------------------------
(* Environment: the agent in the container of attempt a, which speaks      *)
(* through the Runtime API and the State API with the epoch of its         *)
(* capability, and the Conversation Service.                               *)
Publish(r, e) ==
  /\ e \notin sent[r]
  /\ sent' = [sent EXCEPT ![r] = @ \cup {e}]
  /\ pending' = [pending EXCEPT ![r] = @ \cup {e}]

SentBy(r, a, type) == {e \in sent[r] : e.att = a /\ e.type = type}

\* An agent is finished once it proposed a result or committed a suspension
CanSpeak(r, a) ==
  /\ a \in DOMAIN attempts[r] /\ box[r][a] = "running" /\ a \in net[r]
  /\ SentBy(r, a, "result_proposed") \cup SentBy(r, a, "suspension_committed") = {}

StartMessage(r, a) ==
  /\ "message" \in Kinds
  /\ CanSpeak(r, a)
  /\ Publish(r, Started(a, attempts[r][a].epoch))
  /\ UNCHANGED <<db, expired, pod, task, crashes>>

CommitCheckpoint(r, a) ==
  LET k == Cardinality(SentBy(r, a, "checkpoint_committed")) IN
  /\ CanSpeak(r, a)
  /\ k < MaxCkpt
  /\ Publish(r, Checkpoint(a, k + 1))
  /\ UNCHANGED <<db, expired, pod, task, crashes>>

\* The result names the message the attempt wrote and its last checkpoint
ProposeResult(r, a) ==
  /\ "result" \in Kinds
  /\ CanSpeak(r, a)
  /\ Publish(r, Proposed(a, attempts[r][a].epoch,
                         SentBy(r, a, "message_started") # {},
                         Cardinality(SentBy(r, a, "checkpoint_committed"))))
  /\ UNCHANGED <<db, expired, pod, task, crashes>>

CommitSuspension(r, a) ==
  /\ "suspension" \in Kinds
  /\ CanSpeak(r, a)
  /\ Publish(r, Suspended(a, attempts[r][a].epoch))
  /\ UNCHANGED <<db, expired, pod, task, crashes>>

\* The agent finishes, fails or is killed
ExitContainer(r, a) ==
  /\ box[r][a] = "running"
  /\ box' = [box EXCEPT ![r][a] = "exited"]
  /\ UNCHANGED <<db, expired, net, bus, task, crashes>>

\* The Conversation Service confirms the messages of one proposal per run
CommitMessages(r, a) ==
  /\ \E e \in SentBy(r, a, "result_proposed") : e.msgs
  /\ \A e \in sent[r] : e.type # "messages_committed"
  /\ Publish(r, Messages(a))
  /\ UNCHANGED <<db, expired, pod, task, crashes>>

Agent(r, a) ==
  \/ StartMessage(r, a) \/ CommitCheckpoint(r, a) \/ ProposeResult(r, a)
  \/ CommitSuspension(r, a) \/ ExitContainer(r, a) \/ CommitMessages(r, a)

-----------------------------------------------------------------------------
Next ==
  \/ Scheduler
  \/ \E r \in Run : Admit(r) \/ DeadlinePasses(r) \/ Consume(r)
  \/ \E c \in Canceller : CancelRemove(c) \/ CloseCancel(c)
                            \/ \E r \in Run : RequestCancel(c, r)
  \/ StopSuspended \/ CloseSuspend
  \/ Crash
  \/ \E r \in Run, a \in Attempt : Agent(r, a)

Spec == Init /\ [][Next]_vars

(* The tasks of the Runner run for ever and a consumer is handed its next  *)
(* event as long as one is left; nothing forces an agent to do anything    *)
(* except that a container ends at last, and that the Conversation Service *)
(* confirms what it was sent.                                              *)
RunnerFairness ==
  /\ WF_vars(Scheduler)
  /\ \A r \in Run : WF_vars(Consume(r))
  /\ WF_vars(StopSuspended \/ CloseSuspend)
  /\ \A c \in Canceller : WF_vars(CancelRemove(c) \/ CloseCancel(c))

AgentFairness ==
  \A r \in Run, a \in Attempt :
    WF_vars(ExitContainer(r, a)) /\ WF_vars(CommitMessages(r, a))

FairSpec == Spec /\ RunnerFairness /\ AgentFairness

-----------------------------------------------------------------------------
(* Safety.                                                                 *)

\* Only the newest attempt ever holds the lease, and its epoch is the one the
\* run row carries: a fenced attempt cannot become current again.
LeaseIsNewest ==
  \A r \in Run :
    /\ epoch[r] = Len(attempts[r])
    /\ active[r] # 0 => /\ active[r] = Len(attempts[r])
                        /\ attempts[r][active[r]].epoch = epoch[r]

\* A run nobody works on holds no lease and a run under way holds one, so a
\* guard on active_attempt_id alone is enough for the late writers (mark
\* running, fail start, attempt loss).
LeaseMatchesState ==
  \A r \in Run :
    /\ state[r] \in Idle => active[r] = 0
    /\ state[r] \in {"starting", "running", "suspending", "completion_reconciling"}
         => active[r] # 0

\* The first terminal transition of a run wins, whichever tasks are still
\* holding older snapshots of it.
TerminalStable ==
  [][\A r \in Run : state[r] \in Terminal => state'[r] = state[r]]_vars

\* No interleaving of losses, cancels and failed starts creates more attempts
\* than RUNNER_MAX_ATTEMPTS.
RetriesBounded == \A r \in Run :
  /\ Len(attempts[r]) <= MaxAttempts
  /\ state[r] \in {"absent", "accepted", "scheduled"} => Len(attempts[r]) < MaxAttempts

\* A completed run carries the proposal of its newest attempt, and every
\* confirmation that proposal asks for was really received.
CompletedIsConfirmed ==
  \A r \in Run : state[r] = "completed" =>
    LET p == completion[r] IN
    /\ p.att = Len(attempts[r]) /\ p.epoch = epoch[r]
    /\ Proposed(p.att, p.epoch, p.msgs, p.ckpt) \in inbox[r]
    /\ p.msgs => Messages(p.att) \in inbox[r]
    /\ p.ckpt # 0 => Checkpoint(p.att, p.ckpt) \in inbox[r]

Notices(r, n) == Cardinality({i \in DOMAIN outbox[r] : outbox[r][i] = n})

\* run.completed is announced exactly once, by the step that completes the run
CompletedAnnouncedOnce ==
  \A r \in Run : Notices(r, <<"run.completed">>) = IF state[r] = "completed" THEN 1 ELSE 0

\* Two containers of one run never run side by side, whatever was cancelled,
\* lost, restarted or started late.
OneContainerPerRun ==
  \A r \in Run : Cardinality({a \in Attempt : box[r][a] = "running"}) <= 1

\* A run that waits for a person holds no running container, as long as
\* neither podman rm nor podman container exists fails (~RemovalFails and
\* ~ProbeFails): suspend looks at the exit code of the first not at all and
\* reads every error of the second as "there is no container".
NoContainerWhileWaiting ==
  \A r \in Run : state[r] = "waiting_for_input" => \A a \in Attempt : box[r][a] # "running"

\* Liveness: with agents that all end at last, every admitted run reaches an
\* end or waits for a person; lost attempts, crashes of the Runner and a full
\* Runner only delay it.
EveryRunSettles ==
  \A r \in Run : state[r] = "accepted" ~> state[r] \in Terminal \cup {"waiting_for_input"}
=============================================================================
