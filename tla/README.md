# A verification of Porfirium in TLA+

Porfirium runs AI agents as containers on behalf of users. This directory models the platform in
TLA+, checks the models with TLC on small instances and proves what matters most with TLAPS for
all instances. Every definition is translated from the source in `src/`; `PROJECT.json` names the
lines.

- [The system](#the-system): components, state, operations, what is hard
- [The models](#the-models): how state and actions correspond to the code
- [What is checked](#what-is-checked): runs, properties, bounds, fairness
- [What is proved](#what-is-proved)
- [Where the code and its documents disagree](#where-the-code-and-its-documents-disagree)
- [Not modelled, and why](#not-modelled-and-why)
- [Plan](#plan)

To repeat the work: `tlc -config RunnerCore.cfg MCRunner`, and so on for the runs in the table
below; `tlapm RunnerProofs.tla`, and so on for the eight modules of proofs.

## The system

A user starts a *run* of an agent with a message in a *conversation*. The Portal has Identity
Delegation make a *grant* for it and the Conversation Service store it; that service asks the
Agent Runner for a run, which the Runner admits once the Agent Registry has resolved it to a
signed specification. The Runner gives the run an *attempt* with a *lease epoch*, creates a
container for it and watches it. The agent talks only to the platform: over a gRPC stream to the
Agent Runtime API (output, model and tool calls, result proposal), and over HTTP to the Checkpoint
API. Both record what they accept and publish it through a transactional outbox and NATS
JetStream. The Conversation Service projects the events into the conversation, and the Runner
completes the run when all that the agent's proposal names has been confirmed by the service that
owns it. An agent that needs the user stores a checkpoint, asks, and ends; the answer starts a run
that goes on from the checkpoint.

    user ──▶ Portal ──grant──▶ Identity Delegation ◀──token──┐
               │ message, answer, cancel                     │
               ▼                                             │
         Conversation ──request──▶ Runner ──Podman──▶ agent container
             ▲  ▲      (JetStream)  ▲  ▲ │              │ gRPC     │ HTTP
             │  │ messages committed│  │ └─▶ Registry   ▼          ▼
             │  └───────────────────┘  │           Runtime API   Checkpoint API
             └─────── JetStream ◀──────┴── outbox ──────┴──────────┘

| Component | State | Operations | Correct when |
|---|---|---|---|
| **Agent Runner**: runs (`service.py`, `completion.py`, `capacity.py`, `container.py`, scheduler in `main.py`) | tables `runs`, `attempts`, `run_completion`, `run_confirmations`, inbox; containers and networks in Podman | admit, schedule, start, reconcile, cancel, suspend; consume proposals, confirmations, visible output | one lease per run, the newest attempt's; attempts bounded; a terminal state is final and announced once; no completion without its confirmations; a waiting run holds no container and has asked; each run settles |
| **Agent Runner**: delivery (`messaging.py`, `deadletter.py`, `retention.py`) | outbox, dead letters | fetch, resolve, admit, nak and ack, dead-letter, replay, prune | no request is lost, each is admitted once, as the Registry specified it |
| **Checkpoint API** (`store.py`) | leases, checkpoints, idempotency rows, outbox | put, get, list | one linear history per thread; older attempts fenced; a repeated put gets the first answer |
| **Agent Runtime API**: stream (`runtime.py`) | `runtime_attempts`, `accepted_frames`, outbox; a handler per stream | activate, accept a frame | frames accepted once, in order, of the current epoch only |
| **Agent Runtime API**: gateways (`model_gateway.py`, `tool_gateway.py`, `runtime.py`) | `tool_invocations` | model call, tool call | a call with effects is not repeated |
| **Agent SDK** (`packages/agent-sdk-python`) | last acknowledged sequence, pending frames, the stream | connect, send, model, tool, message writer, propose, checkpoint, suspend | nothing unaccepted is forgotten; a call returns its own answer |
| **Conversation Service** (`store.py`, `domain.py`, `messaging.py`, `retention.py`) | conversations, messages, chunks, input requests, commitments, proposals, inbox, presentation events, outbox | create conversation and message, answer, project events, reconcile a suspension, confirm messages, load a projection, publish, prune | an event is shown once; what ended stays; first answer wins; a reader misses nothing but parts of messages that still stream |
| **Agent Registry** (`publication.py`, `lifecycle.py`, `access.py`, `resolution.py`) | releases, defaults, access grants, run specifications, idempotency rows | publish, set default, deprecate, grant, revoke, resolve; list what a user may see | a default is a published release; constraints hold under races; only calls that are refused anyway can deadlock |
| **Identity Delegation** (`main.py`, `store.py`) | grants, idempotency rows | create, revoke, exchange; authorize, which nothing calls | one grant per submission; no exchange beyond a grant or after its end |
| **Portal BFF** (`main.py`) | none of its own | post a message in three calls, answer, cancel | a submission is one run with one grant |
| **Configuration Service** | revisions | create, read | revisions are immutable |
| MCP servers, agents, web application, contracts, deployment | none, or clients of the above | | |

The components share nothing but messages: HTTP calls, a gRPC stream, and events. Within a
service all requests, consumers and loops are asyncio tasks over one PostgreSQL database, so
every `await` between two transactions, and every statement within one, lets others run.

What is hard here, and where the hazards in `PROJECT.json` come from:

- **Interleaving.** The Runner's scheduler loop, its consumers and every cancel request change
  the same run, and each holds a snapshot read before a Podman command that takes seconds. In the
  other services two transactions meet over a row, a key or a lock that is not there yet.
- **Attempts that will not die.** A container may survive its removal, and its agent goes on
  sending; only epochs fence it, and each service keeps its own idea of the current one.
- **Delivery.** Events are delivered at least once, late, and out of order between services.
- **Failure in the middle.** A service dies between two statements, a call and its row, a
  container and its row; a stream breaks between a frame and its acknowledgement; one of the
  Portal's three calls fails after it took effect.
- **Waiting.** A run waits for confirmations, a client for an acknowledgement, an accepted run for
  a slot, a user for a question: something must always end the wait.

## The models

| Module | Models | Uses |
|---|---|---|
| `Runner` | the Agent Runner, Podman, and what agents and events do to it | |
| `RunnerPromises` | promises of the documents that `Runner` breaks | `Runner` |
| `RunnerProofs` | theorems | `Runner` |
| `CheckpointHistory` | what the Checkpoint API promises: a linear, fenced history per thread | |
| `Checkpoint` | `put_checkpoint`, statement by statement | implements `CheckpointHistory` |
| `CheckpointProofs` | theorems, the refinement among them | `Checkpoint` |
| `RuntimeStream` | the stream, its handlers and tables, with `connect`, `send`, `model` and `tool` of the SDK | |
| `RuntimePromises` | promises of the documents that `RuntimeStream` breaks | `RuntimeStream` |
| `RuntimeProofs` | theorems | `RuntimeStream` |
| `MessageHistory` | what the Conversation Service promises about messages and confirmations | |
| `Conversation` | the Conversation Service, and what the SDK's writer and proposals announce to it | implements `MessageHistory` |
| `ConversationProofs` | theorems, the refinement among them | `Conversation` |
| `Registry` | the Agent Registry, lock by lock | |
| `RegistryProofs` | theorems | `Registry` |
| `Admission` | a run request from the conversation's outbox into the Runner, through the Registry | composes with `Registry` |
| `AdmissionProofs` | theorems | `Admission`, `RegistryProofs` |
| `Portal` | a user's submission, and the grants of Identity Delegation | |
| `ToolCalls` | tool and model calls of a run's attempts | composes with `Portal` |
| `ToolCallsProofs` | theorems | `ToolCalls` |
| `Suspension` | the suspension saga across SDK, Checkpoint API, Runtime API, Conversation Service and Runner | |
| `SuspensionProofs` | theorems | `Suspension` |

`MCRunner`, `MCCheckpoint`, `MCRuntime`, `MCConversation`, `MCRegistry`, `MCAdmission`,
`MCToolCalls`, `MCSuspension` give the constants their values for TLC.

### Runner

State. `state`, `active`, `epoch` are columns of `runs`; `attempts[r]` the rows of `attempts` in
order (attempt number = index); `completion`, `confirmed`, `inbox`, `outbox` the other tables.
`box[r][a]` is the container of an attempt in Podman and `net` the attempts whose network still
reaches the platform. `sent` and `pending` are the events published and those the Runner's
durable consumers still owe an acknowledgement. `sched`, `cons` and `cancel` are the local states
(program counter and snapshot) of the scheduler task, of the task consuming run events and of each
cancel request.

Steps. One database transaction is one step, and one Podman command is one step; a method such as
`_start_attempt` is therefore a chain: `Schedule`, `PrepareStart`, `CreateContainer`,
`RecordContainer`, `StartContainer`, `MarkRunning`, with `UndoStart` and `FailStart` for its
failures. `reconcile()` is `ReadRows`, then `ProbeRow`, `InspectRow`, `RemoveLost` and
`HandleAttemptLoss` for each row *as it was read*, then `ReadRecorded`, `ListManaged`,
`SweepOrphan`. `cancel()` is `RequestCancel`, `CancelRemove`, `CloseCancel`; `suspend()` is
`BeginSuspend`, `StopSuspended`, `CloseSuspend`. `consume_run_event` and `consume_event` are one
transaction each (`ConsumeRunEvent`, `ConsumeStarted`).

Environment. An agent may write, commit a checkpoint, propose a result, suspend, or end, whenever
its container runs and its network is there (`Agent`); `Kinds` and `MaxCkpt` choose which. The
Conversation Service confirms the messages of one proposal per run (`CommitMessages`).

Assumptions. The Runner is a single process; its push subscriptions have no queue group. A database
error in the Runner, an invalid signature and an error of admission change nothing and are left
out; a delivery that fails changes nothing either, so only the last one is a step (`Discard`, the
dead letter). `EngineFails`: a Podman command whose result is checked fails without effect, the network
`create` makes first being removed by its own handler; only the removal of a suspended run's
container may time out, having done its work or not. `RemovalFails`: `podman rm`, whose result
is not checked, leaves the container. `ProbeFails`: `podman container exists` fails, and `exists`
reads every exit code but zero as "there is none" (`container.py:82-87`), so that a reconciliation
takes a running attempt for lost and a suspension removes nothing. A start may fail before the `try`
of `_start_attempt` (`PrepareStart`); the run then stays `starting` until it is reconciled. Container
limits, capability contents and wording of events are left out. Deadlines are
one bit per run (`expired`), which is all the retry decision looks at.

### Checkpoint

A put is one transaction of several statements under read committed. Each statement is a step, so
that two transactions interleave as PostgreSQL lets them: `SeeNoLease`/`LockLease` (SELECT FOR
UPDATE), `InsertLease`, `Replay`/`NoReplay`, `CheckVersion`, `Write`. The lock on the lease row is
held to the end of the transaction (`lock`); rows that another transaction has not committed are
not visible, so what a call writes becomes visible in the step that commits. The three inserts and
the commit are one step because an INSERT waits for a transaction that has inserted the same key
and then succeeds or fails as if it had come after it. `Fail` rolls back at any point. An attempt is
identified with its epoch, as the Runner assigns them. `answers` is a history variable.

`CheckpointHistory` is the abstract specification. Its state is read off the tables: the history
of a thread is the checkpoints in order of their versions, the fence of a run is its lease epoch.

### RuntimeStream

State. `row`, `accepted`, `outbox` are `runtime_attempts`, `accepted_frames`, `outbox_events` for
one run. `stream[e]` are the streams an attempt has opened, each with its two directions and what
its handler expects next. `client[e]` is the local state of the attempt's `RuntimeClient`; `then`
says what `connect` returns to (the agent, the first part of `send`, its retry loop), `own` is the
frame it waits for, `got` whether a call has seen its result. `issued`, `returned` and `late` are
history variables.

Steps. `Activate`, `InsertRow` and `Accept` are transactions of the server; `Activate` and
`InsertRow` are the two statements of a *first* hello, which locks nothing. A frame that calls a
model or a tool has its call made again at each delivery, before anything is looked up, and that may
fail each time (`CallFails`). If it does not, the frame is answered by the result and then its
acknowledgement, or by an error when the result fits no message (`tool_response_invalid`), in which
case the frame is stored all the same (`Answers`).
The client's steps are the pieces of `connect`, `send`, `model` and `tool` between two reads:
`send` reads until an acknowledgement, whichever it is, and retries; a call compares the result
with its own request, raises at another's, and does not retry. `Reconnect` is an agent that calls
`connect` again, which closes the channel under the old stream. `Break` cuts a stream anywhere:
some of what was written arrives and none of what was not read does; the handler works on until it
is cancelled (`CancelHandler`), beside the handler of the client's next stream.

Abstractions. Heartbeats and cancellation notices are left out. A frame is its sequence, its key,
whether its content is acceptable (`valid`) and whether it calls. The key of a call is one the SDK
draws (a UUID); a caller may pass an identifier of its own (`runtime.py:266`, `:361`), and the model
assumes that it repeats none within an attempt. One send at a time, which is what the client's lock
enforces. What a call does is the subject of `ToolCalls`. `outbox` is in the
order of insertion; publication orders by `created_at`.

### Conversation

State. The tables, row by row: `conversations` (owner, last sequence, current grant), `messages`,
`chunks`, `requests` (input requests), `commitments` (of suspensions), `proposals`, `inbox`,
`idempotency`, `presented` (presentation events), `outbox`. `call[w]` is the event a delivery is
working on, and `view` what a reader who loads the conversation has seen and is still owed.

Steps. Every transaction but the first of a conversation locks the conversation's row before it
looks at anything else, so a transaction is one step: `CreateConversation`, `CreateMessage`,
`AnswerInput` for users, `Accept` for an event. Only the inbox is looked at before the lock:
`Deliver` is that look, and the primary key of the inbox row decides at `Accept`; `Nak` is every
failure. `Project` has one disjunct per kind of event: `ProjectStarted`, `ProjectDelta`,
`ProjectCompleted` (with `validate_completion` and the confirmation of the run's proposal),
`ProjectStopped`, `ProjectResult`, `ProjectNoMessages`, `ProjectRequest` and `ProjectCommitment`
(both with `_reconcile_suspension`). `PruneChunks` is the retention of chunks. `Read` is the
projection of a conversation: three queries, one step each, with anything in between. What a reader
is owed is everything that the events before the projection's sequence have told: messages begun and
ended, posts, each chunk, questions and answers. What it is shown is what the rows hold, and the text
of a message is in its row only once it has ended. `ProjectRequest` and `ProjectCommitment` compare
the identifiers of checkpoint and question by the run alone.

Events. `Announced` is the set of events that may ever be delivered, in any order and any number of
times; an event not announced yet, or lost, is one that is not delivered. `Written` is what the
SDK's `MessageStream` announces: a writer whose completion fails after its frame was accepted also
announces an interruption. `Proposed` is `propose_result`. A chunk is its number.

`MessageHistory` is the abstract specification: a message begins once, ends once with its text, and
a run is confirmed once, for completed messages.

### Registry

A call is one transaction at read committed. `Locks(q)` is the sequence of advisory and row locks
its statements ask for; `Lock` takes the next one when nobody holds it, and all are kept to the
end. After these come rows in no order of the code's (`LockRow`): the releases that a publication
clashes with, of its own agent or another, which `_store_release` selects FOR UPDATE (`ClashRows`),
and the rows that the foreign keys of an insert refer to, which are locked FOR KEY SHARE
(`References`). Of the rows that clash the driver fetches one, and the model lets PostgreSQL have
locked more of them or not. Between `Replay` (the idempotency record), `Check` (the reads) and
`Write` (the inserts and the commit) other transactions commit; `Unique` is what the constraints say
at `Write`, and `violations` collects transactions that break one. `Abandon` is a failure anywhere,
a conflict over an agent's description and the end of a deadlock among them. `grants` are the grants
that let a user run an agent (run or admin), which is what a resolution looks at; grants that only
let him find it, and the queries of lists, are not modelled. Identifiers that the service draws come
with the request.

### Admission

`Post` writes a run request into the Conversation Service's outbox. Its `publish_loop` sends a row
(`SendPending`, within JetStream's duplicate window or not) and then marks it (`Mark`), each of
which may fail, having worked or not. The stream stores copies; `Fetch` is a delivery with its
number, `CallRegistry` and `Answered` the resolve call, which is a transaction of `Registry`,
interleaved with an administrator's (`Administer`). Then `Admit`, `Ack`; on failure `Nak`, and at
the last delivery `DeadLetter` and, for one that cannot be resolved at all, `Diagnose`.
`ReplayDeadLetter` is the operator's command and `Prune` retention. Either service may restart
(`RestartPublisher`, `RestartConsumer`); `ConsumerEnds` is an exception that leaves the consumer's
loop. A release that is not published any more is refused by the Registry, which is one way to a
dead letter.

### Portal and ToolCalls

`Portal`: `create_message` is `ReadConversation`, `ReadRelease`, `CreateGrant`, `PostMessage`, each
a call to another service that may fail with or without having worked (`Fail`), and the client may
submit again at any time with the same key. The digest of a grant's idempotency key covers its
expiry, so a grant is made once per key and a repetition gets a conflict (`MayIssue`). `Revoke` and
the clock belong to Identity Delegation.

`ToolCalls`: a stream is a handler of `Connect`. A tool call is `Reserve`, one transaction that takes
an advisory lock, finds no row (SELECT ... FOR UPDATE) and inserts one into `tool_invocations`, or
`Replay` of a completed row; then `Exchange` of the run's grant for a token, `CallTool`, where the
tool acts and the answer comes back or is lost, `CallFails` with nothing done, `Record`, and only
then `Accept` of the frame, which looks at the epoch. The exchange is the one place where the grant
is looked at: the MCP gateway has a static list of tools (`deploy/agentgateway/config.yaml`), no code
asks Identity Delegation's authorize endpoints, and the tool acts when the request reaches it, however
late that is. So the model guards `CallTool` by nothing but the exchange (`granted` says when that
was). `CallModel`, `RetryModel`, `ModelEnds` are a model call. `Break` cancels a handler wherever it
waits. `effects` and `answers` are history variables.

### Suspension

The saga at the grain the other modules justify: a put is atomic (`Checkpoint`), the frames of an
attempt are accepted in order under its lease (`RuntimeStream`), an event is taken in once, in any
order (`Conversation`). The agent (`agent`) looks up the checkpoint to start from, puts the
checkpoint of its question, sends the request and the commitment, and ends; it may die anywhere and
its put may arrive after it was replaced (`puts`). `HandlePut` is the Checkpoint API, `Accept` the
Runtime API, `TakeIn` the Conversation Service, `Respond` the user through the Portal. The Runner
admits, schedules, reconciles on rows it read before (`ReadRows`, `Inspect`), suspends in two
transactions around the removal (`BeginSuspend`, `EndSuspend`, `SuspendFails`) and cancels likewise.
Podman does what it is told to here. One thread; the agents show nothing before they ask; the
identity of a question is an operator
parameter, so that several attempts may ask under one identity, as the documents want, or not.

## What is checked

| Run | Asks | Distinct states |
|---|---|---|
| `RunnerCore` | Do leases, retries and terminal states survive two attempts, a cancel request and late writers? | 1,339,061 |
| `RunnerConfirm` | Can a run complete without the confirmations of its own proposal, when they come in any order, old containers live on and probes fail? | 3,060,263 |
| `RunnerSuspend` | Does a suspended run ever hold a container, and do two containers of a run ever run together, with a crash, lost acks and failing Podman commands, `rm` and `container exists` excepted? | 293,800 |
| `RunnerSettles` | Does each of two runs sharing a slot settle, with lost attempts, failing probes and a crash? | 675,712 |
| `Checkpoint` | Is put_checkpoint a linear history per thread, and do replays agree? | 359,289 |
| `RuntimeStream` | Is what the platform stores what the clients sent, in order, and does a call return only with its frame stored? | 4,230,155 |
| `Conversation` | Two deliveries at work, events in any order and again, users who post, answer twice and read: is each event shown once, does what ended stay, does a reader miss nothing but parts of messages that still stream? | 934,500 |
| `Registry` | Do two transactions out of twelve requests keep the constraints, in any interleaving of their locks, and what can deadlock? | 178,581 |
| `Admission` | Is a run request ever lost, and does it settle, with lost acknowledgements, a failing Registry, restarts, dead letters and replays? | 584,849 |
| `ToolCalls` | Does a tool act once for an invocation, do answers agree, does a call get past the exchange once its grant has ended? | 770,190 |
| `Suspension` | Can what the user is asked be gone on from, and is a waiting run one whose question is seen? | 435,054 |
| `PromiseFenced` | Are calls of an attempt refused once a newer one connected? | a counterexample |

Properties, by the hazard they are for:

- `LeaseIsNewest`, `LeaseMatchesState`: the guards of the Runner's late writers look at
  `active_attempt_id` alone, which is only sound if a run that is over, or belongs to a newer
  attempt, never carries the old attempt there.
- `TerminalStable`, `CompletedAnnouncedOnce`: the first terminal transition wins, and a completion
  is announced by exactly one.
- `RetriesBounded`: lost attempts, failed starts and cancels use up the same budget.
- `CompletedIsConfirmed`: a completed run carries the proposal of its newest attempt and the inbox
  holds each confirmation that proposal needs.
- `OneContainerPerRun`, `NoContainerWhileWaiting`: the containers follow the database, not only
  the rows, where `podman rm` and `podman container exists` do not fail.
- `EveryRunSettles`: an accepted run reaches a terminal state or waits for a person.
- `LinearHistory`, `AnswersAgree` (`Checkpoint`): one fenced history per thread, and one answer to
  one idempotency key, whichever transactions meet over rows that are not there yet.
- `AcceptedAsIssued`, `NothingForgotten`, `OutboxInOrder`: exactly-once over a stream that breaks:
  no gap, no double; every frame in the client's buffer or durable; no event of an older attempt
  behind one of a newer.
- `CallsAreAccepted`: results of earlier frames are still on their way when a call waits for its
  own; no call returns with another's.
- `MessagesStayEnded`: the refinement of `MessageHistory`, against late, repeated and reordered
  events of several attempts.
- `PresentedOnce`: the inbox is looked at before the lock, so two deliveries of an event both find
  nothing; still a sequence number is never used twice.
- `ConfirmedWhenComplete`: proposal before messages or after, the confirmation comes with the last.
- `OpenWhenCommitted`, `OneRunPerTrigger`: request and commitment in either order; one run per
  answer and per message, whatever keys the requests carry.
- `NoGapForReaders`: what comes before the sequence a reader starts from is in what it loaded, but
  for parts of messages whose end is yet to come, on which a client loads the projection again.
- `DefaultIsPublished`, `NoUniqueViolation`, `DeadlocksAreRefusals`: the Registry's advisory locks
  are there so that constraints never fail, the row locks so that a default is not deprecated under
  it. Calls take them in one order, but for the releases that publications clash with: whatever
  circle of waiting calls there is, publications that are refused anyway wait in one of their own.
- `NoRequestLost`, `AdmittedAsSpecified`, `EveryRequestSettles`: at-least-once delivery with a
  bounded number of deliveries, and a specification that is resolved again after a lost answer.
- `SubmissionIsOne`, `EffectOnce`, `AnswersAgree` (`ToolCalls`), `ActedOnExchange`: a submission
  that is repeated, an invocation whose outcome is lost, a run, an old attempt or a repeated call
  that outlives its grant.
- `AskedWithCheckpoint`, `WaitingHasAsked`, `WaitingIsShown`: three databases and the Runner agree
  on a question without a common transaction.

`RunnerCore`, `Checkpoint`, `RuntimeStream`, `ToolCalls` and `Suspension` check the type invariant
of their module too. Those of `Conversation` and of the Registry part of `Admission` are
definitions (`TypeOK`, `RTypeOK`) to add to a `.cfg` by hand; both are proved.

**Bounds.**

- `Runner...`: two attempts are enough for every race between an attempt and its successor; the
  default of `RUNNER_MAX_ATTEMPTS` is 3, and the proofs hold for any number. One cancel request
  meets every state of a run; a second one finds the run cancelling and returns. One crash can fall
  between any two steps. `RunnerSettles` has two runs and one slot, so one waits for the other.
  `BatchLimit` is the code's 10 and never reached with two runs.
- `Checkpoint`: two handlers, since its conflicts are between pairs, over a lease row, a version or
  a key; three identifiers let the history grow past a conflict, and the second run is restricted to
  one attempt and one key because the first has both.
- `RuntimeStream`: two attempts, of which the older sends once and the newer twice, and two breaks:
  enough for a retransmission behind a broken stream whose handler is still at work, and one failed
  send before another. `Tries` is 2 instead of 4, so that both the retry and its exhaustion occur.
- `Conversation`: two deliveries at a time, because the inbox key is between pairs. Two attempts of
  one run write and propose one message each (one chunk, and none, so that completeness counts), the
  first is interrupted besides; one suspension is answered with two keys. One conversation: no
  transaction touches two.
- `Registry`: two agents with two publications each, which clash crosswise by version and by image,
  the default, deprecation, grants and resolutions of one of them, and two calls at a time, which
  makes every pair of the twelve requests. A deadlock of two refused publications is reached; that
  more calls make no other kind is proved.
- `Admission`: one request, two copies in the stream, two deliveries each (the last and one before
  it), one restart of either service, the Runner's resolve call against one administrator.
- `ToolCalls`: two users with the same key for one conversation, two handlers, two grants, two
  attempts, two streams, one invocation with two tools; the clock goes to 3 with a grant of 3, so
  a call may come before, at or after its end.
- `Suspension`: a run with two attempts and the run that the answer starts; both may be cancelled,
  and the second is past its deadline (`Urgent`), which takes from it the retry that the first
  shows. The identity of a question is per run, as the documents ask; see below for the other case.

All bounds are constants or guards. Symmetry is used over handlers, workers, callers, grants and
tools in runs without liveness.

**Deadlock** is checked in `RunnerConfirm`, `RunnerSettles`, `Checkpoint`, `Registry` and
`ToolCalls`. Elsewhere the system may stop: a run cancelled and gone, agents with nothing left to
send, a task that has died, every event taken in and acknowledged.

**Fairness.** Safety runs have none.

- `RunnerSettles` uses `FairSpec` of `Runner`: the scheduler task (a `while` loop that always comes
  round), the consumers (JetStream redelivers what is not acknowledged), the cancel tasks, a
  container ending and the Conversation Service confirming. That containers end is an assumption
  about agents: nothing in the Runner enforces a deadline on a running attempt.
- `Admission`: the publication loop, the consumer, and the Registry finishing the Runner's calls.
  Users, administrators, restarts and the operator owe nothing; a task that has ended stays ended,
  and the property says so.
- `Suspension`: an accepted event is taken in (`TakeIn`), by the Runtime API's publication loop and
  the Conversation Service's durable consumer. The Runner, the agents and the user owe nothing.
- `PromiseSendReturns` uses `FairSpec` of `RuntimeStream`: handlers work on what arrives and the
  client on what it reads; no agent has to send anything.

**Mutants.** Beside the definition of a guard or helper the modules define its mutated form
("Mutant: ..."), the way a plausible bug would change it: a SELECT without FOR UPDATE, a retry
counted one off, an ON CONFLICT DO NOTHING for a constraint, locks in another order, a proposal
counted before its message is marked. With the mutant in place of the definition TLC finds the
property violated, for every property of every passing run.

## What is proved

For every set of runs, threads, messages, users, tools, attempts, handlers and requests and every
bound, from the named assumptions on the constants; what a theorem assumes besides is said below:

| Theorem | Statement |
|---|---|
| `RunnerProofs!TypeCorrect` | `Spec => []TypeOK` |
| `RunnerProofs!LeaseNewest`, `LeaseMatches`, `RetriesAreBounded` | the three lease and retry invariants |
| `RunnerProofs!TerminalIsStable` | `Spec => TerminalStable` |
| `RunnerProofs!CompletionHolds` | `ConfirmedOK` for each run: what a completion rests on was received |
| `RunnerProofs!CompletedRunsAreConfirmed`, `AnnouncedOnce` | `CompletedIsConfirmed`, `CompletedAnnouncedOnce` |
| `RunnerProofs!ContainersHold` | `~RemovalFails => (Spec => []ContainerInv)` |
| `RunnerProofs!ContainersAlone`, `WaitingRunsHoldNothing` | `OneContainerPerRun` where `~RemovalFails`, `NoContainerWhileWaiting` where `~RemovalFails /\ ~ProbeFails` |
| `CheckpointProofs!CheckpointInvariant`, `CheckpointTypes`, `AnswersAlwaysAgree` | the inductive invariant, and `TypeOK` and `AnswersAgree` from it |
| `CheckpointProofs!ImplementsHistory` | `Spec => LinearHistory`: the service implements `CheckpointHistory` |
| `RuntimeProofs!EventsInOrder` | `Spec => []OutboxInOrder` |
| `RuntimeProofs!StreamInvariant`, `StreamTypes` | the inductive invariant of clients, streams, handlers and rows, and `TypeOK` |
| `RuntimeProofs!StoredAsSent`, `BufferKeepsWhatIsNotStored`, `ReturnedCallsAreStored` | `AcceptedAsIssued`, `NothingForgotten`, `CallsAreAccepted` |
| `ConversationProofs!ConversationInvariant`, `ConversationTypes` | the inductive invariant, and `TypeOK` |
| `ConversationProofs!OpenedWhenCommitted`, `OneRunIsAskedFor`, `NothingPresentedTwice` | `OpenWhenCommitted`, `OneRunPerTrigger`, `PresentedOnce` |
| `ConversationProofs!ReadersMissOnlyParts` | `NoGapForReaders` |
| `ConversationProofs!CompleteIsConfirmed` | `OwnMessages => (Spec => []ConfirmedWhenComplete)` |
| `ConversationProofs!MessagesKeepTheirEnd` | `Spec => MessagesStayEnded`: the service implements `MessageHistory` |
| `RegistryProofs!RegistryInvariant`, `RegistryTypes`, `RegistryMutualExclusion` | the inductive invariant, `RTypeOK`, and that a lock has one holder, rows that are shared excepted |
| `RegistryProofs!RegistryDefault`, `RegistryUniqueness`, `RegistryDeadlocksAreRefusals` | `DefaultIsPublished`, `NoUniqueViolation`, `DeadlocksAreRefusals` |
| `AdmissionProofs!AdmissionInvariant`, `AdmissionTypes` | the inductive invariant of outbox, JetStream, consumer and Registry, and `TypeOK` |
| `AdmissionProofs!NothingLost`, `SpecificationAdmitted`, `SpecificationImmutable` | `NoRequestLost`, `AdmittedAsSpecified`, and that a stored specification never changes |
| `ToolCallsProofs!ToolInvariant`, `ToolTypes` | the inductive invariant, and `TypeOK` |
| `ToolCallsProofs!OneGrantPerSubmission`, `EffectsHappenOnce`, `AnswersToCallsAgree`, `ActsOnExchange` | all four safety properties of the run |
| `SuspensionProofs!SuspensionInvariant`, `SuspensionTypes` | the inductive invariant, and `TypeOK` |
| `SuspensionProofs!QuestionsHaveCheckpoints`, `WaitingRunsHaveAsked` | `AskedWithCheckpoint`, `WaitingHasAsked` |

*Runner.* `TypeOK` is inductive. The lease invariants are so only together: a late writer's guard
`active_attempt_id = mine` proves that the run is under way (`LeaseMatchesState`) and that mine is
the newest attempt (`LeaseIsNewest`), hence that a retry stays within the budget
(`RetriesBounded`). `TerminalStable` follows: each step that changes a state starts from one that
holds a lease or is listed in its guard.

A completion is followed from the inbox (`ConfirmedOK`): a proposal, each of its flags, and what is
kept of confirmations that came before it stand for events the inbox holds; a run that is
`completion_reconciling` or completed carries the proposal of its newest attempt. Only the step of
`consume_run_event` that finds all flags set completes the run, and no step leaves `completed`, so
the announcement is one.

Containers need more than the lease. `ContainerInv` says that a running container is the newest
attempt's, is recorded, and belongs to a run somebody holds (`RunningIsNewest`); that the start in
hand is about the newest attempt, and that a run which was let go meanwhile has lost the container
before it could be started (`StartingIsNewest`); that a reconciliation, whose snapshot may be old,
still knows rightly whether there is a container to remove, for only the scheduler itself records
one (`LostIsGone`); that a suspension has removed a container it knew (`SuspendedIsGone`). All of
it rests on `podman rm` doing what it is told, which is what `~RemovalFails` assumes; the code does
not look at that command's exit code. What it says of a waiting run's container rests on `podman
container exists` besides (`~ProbeFails`): `exists` reads an error of Podman as "there is none", and
`suspend` then removes nothing and still commits `waiting_for_input`. With either failure TLC shows
`NoContainerWhileWaiting` false (`PromiseWaiting` for the second). `OneContainerPerRun` needs no
`~ProbeFails`, because a reconciliation removes the container also of an attempt it takes for gone; whether it
survives `RemovalFails` is left open.

*Checkpoint.* The invariant says what a handler still knows when other transactions have committed
since its last statement: past the lease statement it holds the lock of its run and its epoch is not
below the lease (`LockInv`); the version it has read is still a version of the thread, though
perhaps no longer the last (`WriterInv`); versions are an interval from 1 (`RowsInv`). So a write
whose version is still free extends the history by exactly one, and any other write breaks
UNIQUE(thread_id, version) and is rolled back. `answers` are backed by rows that never change
(`AnswersInv`). For the refinement each statement but three is a stutter; `Write` is `Extend`, and
`Replay` by a newer attempt is `LetIn`.

*RuntimeStream.* `OutboxInOrder` needs that the numbers of an epoch have no gaps, so that a free
number is behind all used ones (`GapFree`), and that no recorded event has a newer epoch than the
row, unless an attempt was late (`NewestRow`). That proof does not look at the client: the platform
orders events whatever a client sends.

The other properties relate five places at which a frame of one attempt can be: the agent's calls,
the client's buffer, a stream in either direction, a handler that works on after its stream is cut,
and the rows. `Good` says what each says of the others: every frame on a stream and every row was
issued under its key (`FromIssued`), and every frame issued is stored or in the buffer (`Kept`), where
the stored ones come first (`StoredFirst`); what the client has yet to read of its stream, a greeting
or an acknowledgement, lets it drop stored frames only (`Listening`, `Since`); a result on its way
and a call that has seen its own are about stored frames. What makes this hard is that an attempt
may be *set back*: when a late first hello of an older attempt has overwritten the row of the run, a
newer one that takes the run over again counts from 0 although its frames are stored, and two frames
may get one number. `SetBack` says that the row never gets as far as such a number again, so the
second of the two is never stored.
`Good` is a predicate on values; a lemma for each kind of change of client, stream and rows is
composed by the actions.

*Conversation.* Every step changes at most one message, one proposal and one request, and the first
lemmas say how (`MessageSteps`, `RequestSteps`, `OutboxSteps`). Beside the types the invariant needs
that a message without an end has no text, and that a proposal without a confirmation has none in
the outbox (`ConfirmedInv`); with it each step of the service is a `Begin`, an `End` or a `Confirm`
of `MessageHistory`, the last two possibly at once, or a stutter. `PresentedOnce` needs that
whatever was presented has left a trace which stays (`Traced`): in the inbox, or in the state of the
message or request it tells of. Something about to be presented has left none, so it is new, and
the sequence grows with the set. `NoGapForReaders` rests on the same traces: what was presented before
a sequence is in what a later query finds, because messages begun and ended, their texts and open
questions stay (`Owing`); of a message that still streams no text is in its row, and its parts are
what the property leaves out.
That a trigger names its type besides its identifier is an
assumption (`Message` and `Suspension` disjoint).

`ConfirmedWhenComplete` is proved for agents that complete messages of their own run only
(`OwnMessages`), which is how the SDK draws identifiers unless it is given one (`runtime.py:335`);
`MCConversation` assumes it of its instance. It does not hold of all agents: a completion is not
compared with the run of its message (`_require_streaming`), so one that completes another run's
message leaves that run's proposal unconfirmed. The invariant says that a streaming message was begun
by an event of its run, hence the proposal that `ProjectCompleted` looks at is the only one the
message can be missing from.

*Registry.* What a call has read stays true until it writes because a call that could change it needs
a lock the first one holds: locks are exclusive, a call past `Lock` holds all locks of its
operation, and each check is paired with the lock that covers it (`CatalogInv`). So the constraints
are never asked and a default stays published. For deadlocks the locks have levels that all operations
share: each takes its own in ascending order, and the rows that its inserts refer to last, so a call
that is waited for waits itself, at a higher level (`WantsAbove`). Only publications at the rows they
clash with are excepted: their order is PostgreSQL's. A circle without them would climb for ever; and
since these rows have the highest level, such a publication waits only for another one, in a circle of
their own. The assumption `RegistryIdentifiers` is about what callers and the service draw. Without its
last part `NoUniqueViolation` would be false: `resolve_run_specification` locks the run and not the
idempotency key. The Runner's consumer takes the key from the event that asks for the run
(`messaging.py:69`); its `POST /v1/runs` hands on the header of a caller, of which there is none in
the repository.

*Admission.* A request may only be forgotten by a part that knows it has got further. `DeliveryInv`
says so for each of the four: JetStream's duplicate window, the publisher about to mark a row, the
consumer about to acknowledge, and the outbox row itself. `SpecInv` follows a specification: what a
resolution stores or finds is what its request asks for, and the consumer admits with the answer to
its own call, also when an earlier call of its own is still at work after a restart.

*ToolCalls.* The invariant follows a call from its reservation to its answer. The row of an
invocation belongs to the one stream that inserted it: only that stream may be past `Reserve`
without a result, so nobody else calls the tool, and an executing row whose stream is gone stays
executing and is never called again. What the row records is what the tool did, so replays agree.
On the side of grants: a grant was made for one submission, a run keeps the grant its message was
stored with, and a call is past the exchange only if the grant was neither expired nor revoked when
it was made.

*Suspension.* The argument follows a question from the agent outwards: nothing is sent before the
checkpoint is stored (`AgentInv`, `StoreInv`), nothing is accepted that was not sent, nothing is
taken in that was not accepted (`TakenInv`), and the Runner, which hears of the commitment only,
suspends the attempt that made it (`RunsInv`) even when its two transactions are interrupted by
another attempt or another event (`SuspenderInv`).

*Model-checked only.* Liveness (`EveryRunSettles`, `EveryRequestSettles`, `WaitingIsShown`,
`SendReturns`, `AdmittedRunIsPickedUp`): fairness takes ENABLED, which the provers cannot reason
about. Every safety property of the runs is a theorem. No module under proof
uses RECURSIVE operators.

## Where the code and its documents disagree

`PromiseFenced` is one of the runs: `connect()` makes a model or tool call before `_accept` reads
the epoch, so an attempt that has been replaced still acts, against SPECIFICATION.md:114.

The other promises of the documents that the code breaks have a `.cfg` of their own and a property
in the module they are about; TLC finds a short counterexample to each:

| Configuration | Module | What happens |
|---|---|---|
| `PromiseCancelled` | `MCRunner` | `_start_attempt` marks a run running while it is being cancelled; `run.cancelled` is announced and the run goes on |
| `PromiseRetry` | `MCRunner` | reconciliation decides on `visible_output` as it read it earlier; a run is retried after its output has begun |
| `PromiseScheduler` | `MCRunner` | a container that vanishes between `podman container exists` and `podman inspect` raises out of the scheduler's loop; no run is scheduled any more |
| `PromiseWaiting` | `MCRunner` | `podman container exists` fails while a run is suspended: nothing is removed, and the run waits with its container alive (OPERATIONS.md:423, RUNTIME_MODEL.md:63) |
| `PromiseSendReturns` | `MCRuntime` | a lost acknowledgement of an accepted frame makes `send` wait for ever |
| `PromiseAcknowledged` | `MCRuntime` | `send` returns the acknowledgement of an earlier frame as its own |
| `PromiseEpoch` | `MCRuntime` | racing first hellos let an older attempt take a run back |
| `PromiseArrival` | `MCConversation` | only the first proposal of a run is kept: the one of the next attempt is never confirmed, though its messages are complete |
| `PromiseGap` | `MCConversation` | a client that joins while a message streams gets neither from the projection nor as events what was streamed before its sequence; it sees the text when the message ends (MESSAGING.md:141) |
| `PromiseExpiry` | `MCToolCalls` | a tool acts after the grant and the token of its call have expired: nothing looks after the exchange (IDENTITY_AND_SECURITY.md:39, :64) |
| `PromiseReplay` | `MCAdmission` | a replay within JetStream's duplicate window is swallowed, and the dead letter is marked replayed and pruned |
| `PromiseSuspended` | `MCSuspension` | the Runner finds the container of a committed suspension gone before it consumes the commitment, and starts another attempt |

Also met while modelling:

- Runner: a run in `completion_reconciling` may be failed by a reconciliation that read its rows
  before; it stays there when the confirmations of two checkpoints come out of order; a run cancelled
  before its first attempt stays in `cancelling` when the Runner dies between the two transactions.
  `EveryRunSettles` is therefore checked with agents that write and end but neither propose nor are
  cancelled. A late replay admits a run whose deadline has passed. An exception of `dead_letter`,
  `nak` or `ack` ends the consumer's task, and the publication loops of the Conversation Service and
  the Runtime API end with their first exception.
- Runner, capacity: `completion_reconciling` and completed runs are not counted although their
  containers still run (`capacity.py:23`); `LIMIT 10` is taken in order of creation before capacity
  is looked at, so ten old runs of a user at its limit hide the others (`main.py:46`); a deadline
  only stops retries (`service.py:69`).
- Conversation: an event for a message that has ended is refused on every delivery, for ever; deltas
  expire after 15 minutes, after which a completion never validates; a writer whose completion fails
  after its frame was accepted also sends an interruption, which is such an event; a question of a
  cancelled run stays open and can be answered; a request that is reserved and never committed is
  reconciled by nobody (RUNTIME_MODEL.md:57). Answering locks the request and then the conversation,
  projecting the other way round: PostgreSQL aborts one, and it is tried again.
- SDK: a call that fails in transport leaves its frame pending, and a model frame that is sent again
  calls the model again; `request_input` without a stable identity asks a second question after a
  retry (RUNTIME_MODEL.md:49); a frame is limited to 16 KiB, a completed message carries more.
- Tools and grants: the exchange of a capability looks at neither epoch nor cancellation; a
  reservation whose exchange failed stays executing; a run resumed after eight hours finds its grant
  expired; a submission that failed between grant and message can never be posted under its key,
  because the digest covers the expiry.
- Portal: `cancel_run` does not find a run that an answer started until it has a message or an open
  question. Registry: deprecation refuses messages in conversations that exist already
  (SPECIFICATION.md:99).

## Not modelled, and why

- Health checks, metrics, authentication and signatures, token formats, schema and manifest
  validation, OCI evidence: no state that changes.
- The Configuration Service: one transaction of two INSERTs under an idempotency key whose primary
  key undoes the second of two at once. No other service reads its revisions yet, and the Portal
  never names one.
- Retention of runtime rows, expiry of presentation events and of JetStream messages (a run request
  is kept for a week): the models keep what the code keeps for long enough.
- Heartbeats and cancellation notices on the stream; the event stream's polling; the publication
  loops of the Checkpoint and Runtime APIs, which work like the one in `Admission`.
- MCP servers, web application, contracts, deployment, scripts: stateless, clients, or data.
- The agents: the modules allow whatever any agent may do with the SDK.
- The in-memory store of the Conversation Service (`domain.py`), a double of the PostgreSQL store
  for its tests.

## Plan

Done: `Runner`, `Checkpoint`, `RuntimeStream`, `Conversation`, `Registry`, `Admission`, `Portal`,
`ToolCalls`, `Suspension`, with the proofs above.

Left, most important first:

1. `Scheduling`: the batch LIMIT against per-user capacity, with the limit as a parameter; capacity
   counted in containers.
2. The saga of completion across Runner, Runtime API, Checkpoint API and Conversation Service, as
   `Suspension` is for questions: the first-proposal rule against a retried attempt.
