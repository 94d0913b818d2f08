----------------------------- MODULE Suspension -----------------------------
(***************************************************************************)
(* The suspension saga: an agent that needs the user's input stores a      *)
(* checkpoint, proposes the question, commits the suspension and ends; the *)
(* user's answer starts a run that goes on from the checkpoint.  It spans  *)
(* the SDK (suspension.py), the Checkpoint API, the Runtime API, the       *)
(* Conversation Service and the Runner, whose databases share nothing.     *)
(*                                                                         *)
(* The services take part at the grain their own modules justify: a put is *)
(* atomic (Checkpoint), the frames of an attempt are accepted in order     *)
(* under its lease (RuntimeStream), an event is taken in once in any order *)
(* (Conversation).  One thread; the agents show nothing before they ask.   *)
(***************************************************************************)
EXTENDS Integers, FiniteSets

CONSTANTS
  Run,          \* run identities
  Posted,       \* the runs a message asks for; a response asks for the others
  Cancellable,  \* bound: the runs a user cancels
  Urgent,       \* bound: the runs whose deadline passes before a second attempt
  MaxAttempts,  \* RunnerService.max_attempts
  Question,     \* suspension identities
  QuestionOf,   \* the identity an attempt of a run asks under
  none          \* no checkpoint to start from

ASSUME SuspensionAssumption ==
  /\ Posted \subseteq Run /\ Cancellable \subseteq Run /\ Urgent \subseteq Run
  /\ MaxAttempts \in Nat \ {0}
  /\ QuestionOf \in [Run \X (1..MaxAttempts) -> Question]
  /\ \A x, y \in Run \X (1..MaxAttempts) : QuestionOf[x] = QuestionOf[y] => x[1] = y[1]
  /\ none \notin Question

VARIABLES
  runs,         \* table runs of the Runner
  agent,        \* the container of each attempt and where its program is
  puts,         \* requests on their way to the Checkpoint API
  checkpoints,  \* table checkpoints with the key and hash they were put under
  leases,       \* checkpoint_leases.lease_epoch
  streams,      \* run_streams.lease_epoch of the Runtime API
  accepted,     \* the frames of each attempt the Runtime API has accepted
  taken,        \* inbox_events of the Conversation Service
  answers,      \* input_requests.response_run_id
  rows,         \* attempts the Runner's reconcile has read and still looks at
  suspender,    \* the task of the Runner that consumes run events
  canceller     \* a cancel request of the Runner's HTTP API

sdk    == <<agent, puts>>
store  == <<checkpoints, leases>>
stream == <<streams, accepted>>
user   == <<taken, answers>>
tasks  == <<rows, suspender, canceller>>
vars   == <<runs, sdk, store, stream, user, tasks>>

-----------------------------------------------------------------------------
Attempt == Run \X (1..MaxAttempts)
Task    == [pc : {"idle", "done"}]
             \cup [pc : {"remove", "close"}, run : Run, epoch : 0..MaxAttempts]
Idle    == [pc |-> "idle"]
Done    == [pc |-> "done"]

Events == [kind : {"request", "commitment"}, of : Attempt]

\* The two frames of a question, accepted in their order, are the two events
Announced ==
  {e \in Events : accepted[e.of] >= (IF e.kind = "request" THEN 1 ELSE 2)}

Absent == [state |-> "absent", epoch |-> 0, active |-> FALSE, start |-> none]

Init ==
  /\ runs = [r \in Run |-> [Absent EXCEPT !.state = IF r \in Posted THEN "requested"
                                                    ELSE "absent"]]
  /\ agent = [x \in Attempt |-> [pc |-> "absent", sent |-> 0]]
  /\ puts = {}
  /\ checkpoints = {}
  /\ leases = [r \in Run |-> 0]
  /\ streams = [r \in Run |-> 0]
  /\ accepted = [x \in Attempt |-> 0]
  /\ taken = {}
  /\ answers = [s \in Question |-> none]
  /\ rows = {}
  /\ suspender = Idle
  /\ canceller = Idle

-----------------------------------------------------------------------------
(* The agent and its SDK                                                    *)

Alive(x) == agent[x].pc \notin {"absent", "gone"}
Goto(x, pc) == agent' = [agent EXCEPT ![x].pc = pc]
Gone(x) == Goto(x, "gone")

\* connect: the Runtime API refuses an attempt older than one it has seen, and
\* otherwise hands over the trigger and the checkpoint to start from
Hello(x) ==
  /\ agent[x].pc = "started" /\ streams[x[1]] <= x[2]
  /\ streams' = [streams EXCEPT ![x[1]] = x[2]]
  /\ Goto(x, "connected")
  /\ UNCHANGED <<runs, puts, store, accepted, user, tasks>>

\* get_checkpoint, a version for the row that is there
Lookup(s) == {c.version : c \in {d \in checkpoints : d.id = s}}

\* list_checkpoints, the newest first
Newest ==
  IF checkpoints = {} THEN 0
  ELSE CHOOSE v \in {c.version : c \in checkpoints} : \A c \in checkpoints : c.version <= v

\* RunInput.starting_checkpoint_id
Start(r) == runs[r].start

\* The agent expects the version of the checkpoint it was started from, or the
\* newest of the thread
Expected(r) == {Newest} \cup (IF Start(r) = none THEN {0} ELSE Lookup(Start(r)))

\* CheckpointClient.put under the key that request_input derives; the payload
\* follows from what the agent has read
Put(x) ==
  /\ agent[x].pc = "connected"
  /\ \E v \in Expected(x[1]) : puts' = puts \cup {[of |-> x, expected |-> v]}
  /\ Goto(x, "putting")
  /\ UNCHANGED <<runs, store, stream, user, tasks>>

\* Mutant: the question goes out while the checkpoint is being put
Early == {"putting", "stored"}
Durable == {"stored"}

Send(x, pc) == agent' = [agent EXCEPT ![x] = [pc |-> pc, sent |-> @.sent + 1]]

\* The rest of request_input: the request, the commitment, and the end of the
\* activation.  A send may return although its frame is still on its way.
Ask(x) ==
  /\ \/ agent[x].pc \in Durable /\ Send(x, "proposed")
     \/ agent[x].pc = "proposed" /\ Send(x, "committed")
  /\ UNCHANGED <<runs, puts, store, stream, user, tasks>>

\* InputSuspended, an error or a timeout the agent lets out, or a crash
Exit(x) ==
  /\ Alive(x) /\ Gone(x)
  /\ UNCHANGED <<runs, puts, store, stream, user, tasks>>

-----------------------------------------------------------------------------
(* Checkpoint API and Runtime API                                           *)

\* Any request, also of a container that is gone; a request that is lost is one
\* never handled.  An error is raised in the agent, which ends
RowOf(p) == [id |-> QuestionOf[p.of], run |-> p.of[1], version |-> p.expected + 1]
Key(p) == {c \in checkpoints : c.id = QuestionOf[p.of]}

\* put_checkpoint succeeds: not fenced, and a replay of the same request or the
\* next version.  Mutant: a key that was used is answered whatever it was used for
AnyReplay(p) == p.of[2] >= leases[p.of[1]] /\ (Key(p) # {} \/ Newest = p.expected)
Admissible(p) ==
  /\ p.of[2] >= leases[p.of[1]]
  /\ IF Key(p) # {} THEN RowOf(p) \in checkpoints ELSE Newest = p.expected

\* The client, when it still waits, goes on with the answer or raises the error
Confirm(x) == IF agent[x].pc = "putting" THEN Goto(x, "stored") ELSE UNCHANGED agent
Refuse(x) == IF agent[x].pc = "putting" THEN Gone(x) ELSE UNCHANGED agent

HandlePut(p) ==
  /\ p \in puts
  /\ puts' = puts \ {p}
  /\ IF Admissible(p)
     THEN /\ checkpoints' = checkpoints \cup {RowOf(p)}
          /\ leases' = [leases EXCEPT ![p.of[1]] = p.of[2]]
          /\ Confirm(p.of)
     ELSE UNCHANGED store /\ Refuse(p.of)
  /\ UNCHANGED <<runs, stream, user, tasks>>

\* _accept, in the order of the frames.  Mutant: a frame sent again counts again
Frames(x) == agent[x].sent > 0
NextFrame(x) == accepted[x] < agent[x].sent
Accept(x) ==
  /\ NextFrame(x) /\ streams[x[1]] = x[2]
  /\ accepted' = [accepted EXCEPT ![x] = @ + 1]
  /\ UNCHANGED <<runs, sdk, store, streams, user, tasks>>

-----------------------------------------------------------------------------
(* Conversation Service                                                     *)

TakeIn(e) ==
  /\ e \in Announced \ taken
  /\ taken' = taken \cup {e}
  /\ UNCHANGED <<runs, sdk, store, stream, answers, tasks>>

Asked(s, kind) == \E e \in taken : e.kind = kind /\ QuestionOf[e.of] = s

Open(s) == Asked(s, "request") /\ Asked(s, "commitment")

\* answer_input: the user's response asks for a run, once
Respond(s, r) ==
  /\ Open(s) /\ answers[s] = none /\ runs[r].state = "absent"
  /\ answers' = [answers EXCEPT ![s] = r]
  /\ runs' = [runs EXCEPT ![r].state = "requested", ![r].start = s]
  /\ UNCHANGED <<sdk, store, stream, taken, tasks>>

-----------------------------------------------------------------------------
(* Agent Runner                                                             *)

Terminal == {"failed", "cancelled"}

Admit(r) ==
  /\ runs[r].state = "requested"
  /\ runs' = [runs EXCEPT ![r].state = "scheduled"]
  /\ UNCHANGED <<sdk, store, stream, user, tasks>>

\* schedule and _start_attempt, with their failure
Schedule(r) ==
  LET n == runs[r].epoch + 1 IN
  /\ rows = {} /\ runs[r].state = "scheduled"
  /\ \/ /\ runs' = [runs EXCEPT ![r] = [@ EXCEPT !.state = "running", !.epoch = n,
                                                 !.active = TRUE]]
        /\ Goto(<<r, n>>, "started")
     \/ /\ runs' = [runs EXCEPT ![r] = [@ EXCEPT !.state = "failed", !.epoch = n]]
        /\ UNCHANGED agent
  /\ UNCHANGED <<puts, store, stream, user, tasks>>

\* reconcile reads its rows, and then looks at one container after the other
ReadRows ==
  /\ rows = {}
  /\ rows' = {<<r, runs[r].epoch>> : r \in {q \in Run : runs[q].active /\
                                        runs[q].state \in {"running", "cancelling"}}}
  /\ UNCHANGED <<runs, sdk, store, stream, user, suspender, canceller>>

IsActive(x) == runs[x[1]].active /\ runs[x[1]].epoch = x[2]

MayRetry(x) == x[2] < MaxAttempts /\ x[1] \notin Urgent

\* The container runs, or _handle_attempt_loss; deadline_at may have passed
Inspect(x) ==
  /\ x \in rows /\ rows' = rows \ {x}
  /\ IF Alive(x) \/ ~IsActive(x) THEN UNCHANGED runs
     ELSE \E to \in {"failed"} \cup (IF MayRetry(x) THEN {"scheduled"} ELSE {}) :
            runs' = [runs EXCEPT ![x[1]] = [@ EXCEPT !.state = to, !.active = FALSE]]
  /\ UNCHANGED <<sdk, store, stream, user, suspender, canceller>>

\* The event the consumer hands to suspend.  Mutant: the request does as well
Proposed(x) == accepted[x] > 0
Committed(x) == accepted[x] = 2

\* suspend: first transaction.  A stale commitment is refused.
\* Mutant: one of a run that is in no state to be suspended is not
SuspendableAny(x) == runs[x[1]].state \notin Terminal
Suspendable(x) == IsActive(x) /\ runs[x[1]].state \in {"running", "suspending"}

BeginSuspend(x) ==
  /\ suspender = Idle /\ Committed(x) /\ Suspendable(x)
  /\ runs' = [runs EXCEPT ![x[1]].state = "suspending"]
  /\ suspender' = [pc |-> "remove", run |-> x[1], epoch |-> x[2]]
  /\ UNCHANGED <<sdk, store, stream, user, rows, canceller>>

\* podman rm, when there is a container; Podman does here what it is told to, its
\* failures are in Runner
Removed(r, n) ==
  IF n > 0 /\ Alive(<<r, n>>) THEN Gone(<<r, n>>) ELSE UNCHANGED agent

\* ... the removal, and the second transaction
EndSuspend ==
  /\ \/ /\ suspender.pc = "remove"
        /\ Removed(suspender.run, suspender.epoch)
        /\ suspender' = [suspender EXCEPT !.pc = "close"]
        /\ UNCHANGED runs
     \/ /\ suspender.pc = "close"
        /\ runs' = IF runs[suspender.run].state # "suspending" THEN runs
                   ELSE [runs EXCEPT ![suspender.run] =
                           [@ EXCEPT !.state = "waiting_for_input", !.active = FALSE]]
        /\ suspender' = Idle
        /\ UNCHANGED agent
  /\ UNCHANGED <<puts, store, stream, user, rows, canceller>>

\* A crash or a timeout: the event is delivered again
SuspendFails ==
  /\ suspender # Idle /\ suspender' = Idle
  /\ UNCHANGED <<runs, sdk, store, stream, user, rows, canceller>>

\* The Portal passes a cancel request on for the runs of the conversation's
\* messages and of its open questions
Cancels(r) ==
  r \in Cancellable /\ (r \in Posted \/ \E e \in taken : e.of[1] = r /\ Open(QuestionOf[e.of]))

\* cancel, once: first transaction, removal, second transaction
Cancel(r) ==
  /\ canceller = Idle /\ Cancels(r)
  /\ runs[r].state \notin Terminal \cup {"absent", "requested"}
  /\ runs' = [runs EXCEPT ![r].state = "cancelling"]
  /\ canceller' = [pc |-> "remove", run |-> r,
                   epoch |-> IF runs[r].active THEN runs[r].epoch ELSE 0]
  /\ UNCHANGED <<sdk, store, stream, user, rows, suspender>>

EndCancel ==
  /\ \/ /\ canceller.pc = "remove"
        /\ Removed(canceller.run, canceller.epoch)
        /\ canceller' = [canceller EXCEPT !.pc = "close"]
        /\ UNCHANGED runs
     \/ /\ canceller.pc = "close"
        /\ runs' = IF runs[canceller.run].state # "cancelling" THEN runs
                   ELSE [runs EXCEPT ![canceller.run] =
                           [@ EXCEPT !.state = "cancelled", !.active = FALSE]]
        /\ canceller' = Done
        /\ UNCHANGED agent
  /\ UNCHANGED <<puts, store, stream, user, rows, suspender>>

-----------------------------------------------------------------------------
Next ==
  \/ \E x \in Attempt : Hello(x) \/ Put(x) \/ Ask(x) \/ Exit(x)
                          \/ Accept(x) \/ Inspect(x) \/ BeginSuspend(x)
  \/ \E p \in puts : HandlePut(p)
  \/ \E e \in Events : TakeIn(e)
  \/ \E s \in Question, r \in Run : Respond(s, r)
  \/ \E r \in Run : Admit(r) \/ Schedule(r) \/ Cancel(r)
  \/ ReadRows \/ EndSuspend \/ SuspendFails \/ EndCancel

\* The Runtime API publishes what its outbox holds, and the Conversation
\* Service, whose consumer is durable, takes in what was published.
Spec == Init /\ [][Next]_vars /\ \A e \in Events : WF_vars(TakeIn(e))

-----------------------------------------------------------------------------
TypeOK ==
  /\ runs \in [Run -> [state : {"absent", "requested", "scheduled", "running", "suspending",
                                "waiting_for_input", "cancelling"} \cup Terminal,
                       epoch : 0..MaxAttempts, active : BOOLEAN,
                       start : Question \cup {none}]]
  /\ agent \in [Attempt -> [pc : {"absent", "started", "connected", "putting", "stored",
                                  "proposed", "committed", "gone"}, sent : 0..2]]
  /\ puts \subseteq [of : Attempt, expected : Nat]
  /\ checkpoints \subseteq [id : Question, run : Run, version : Nat]
  /\ leases \in [Run -> 0..MaxAttempts] /\ streams \in [Run -> 0..MaxAttempts]
  /\ accepted \in [Attempt -> 0..2]
  /\ taken \subseteq Events
  /\ answers \in [Question -> Run \cup {none}]
  /\ rows \subseteq Attempt
  /\ suspender \in Task /\ canceller \in Task

\* A question is open to the user only once the checkpoint it was asked with is
\* stored, by the run that asked, and that is one, whichever attempts have put it:
\* the run that the answer starts has one checkpoint to go on from.
AskedWithCheckpoint ==
  /\ \A s \in Question : Open(s) =>
       \E c \in checkpoints : c.id = s /\ \E e \in taken : QuestionOf[e.of] = s /\ e.of[1] = c.run
  /\ \A c, d \in checkpoints : c.id = d.id => c = d

\* A run waits for input only for a question the Runtime API has accepted in
\* full, and without a container that could ask another (where Podman works).
WaitingHasAsked ==
  \A r \in Run : runs[r].state = "waiting_for_input" =>
    LET x == <<r, runs[r].epoch>> IN accepted[x] = 2 /\ ~Alive(x)

\* A run that waits for input does not wait unseen: the user is shown its question.
WaitingIsShown ==
  \A r \in Run : runs[r].state = "waiting_for_input"
                   ~> \E n \in 1..MaxAttempts : Open(QuestionOf[<<r, n>>])

(* What the repository says and the code does not keep                      *)

\* SPECIFICATION.md: "Human-input suspension ends the current container attempt;
\* a response creates a new run".  A run whose suspension has been committed makes
\* no further attempt: the Runner may see its container gone before the event.
CommittedEndsRun ==
  [][\A x \in Attempt : accepted[x] = 2 => runs'[x[1]].epoch = runs[x[1]].epoch]_vars
=============================================================================
