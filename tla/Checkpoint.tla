----------------------------- MODULE Checkpoint -----------------------------
(***************************************************************************)
(* The Checkpoint API (services/checkpoint-api): concurrent puts of        *)
(* checkpoints by the attempts of runs that share threads.                 *)
(*                                                                         *)
(* A put is one transaction of several statements at the default isolation *)
(* level, read committed: every statement sees what other transactions     *)
(* committed before it.  The transaction holds the lock on the lease row   *)
(* of its run to its end, and nothing else orders the runs of one thread   *)
(* but the uniqueness of a version.  An insert waits for a transaction     *)
(* that has inserted the same key, so the inserts and the commit are one   *)
(* step.  An attempt is named by its epoch, as in the Runner.              *)
(***************************************************************************)
EXTENDS Integers, Sequences

CONSTANTS
  Run,        \* runs
  Thread,     \* threads
  ThreadOf,   \* the thread of each run, from its capability
  Epoch,      \* lease epochs of attempts
  Id,         \* checkpoint identifiers
  Key,        \* idempotency keys
  Call,       \* handlers of the service
  MaxVersion, \* bound: expected versions a writer asks for
  Requests    \* the requests the attempts of an instance send, in any order

ASSUME CheckpointAssumption ==
  /\ ThreadOf \in [Run -> Thread]
  /\ Epoch \subseteq Nat \ {0}
  /\ MaxVersion \in Nat
  /\ "free" \notin Call
  /\ Requests \subseteq [run : Run, epoch : Epoch, id : Id, expected : 0..MaxVersion, key : Key]

VARIABLES
  leases,       \* checkpoint_leases.lease_epoch, 0 when there is no row
  lock,         \* the call that holds the lease row of each run
  checkpoints,  \* table checkpoints
  idempotency,  \* table checkpoint_idempotency
  outbox,       \* outbox_events in the order of their insertion
  call,         \* local state of the handlers
  answers       \* every successful answer given so far

vars == <<leases, lock, checkpoints, idempotency, outbox, call, answers>>

Request == [run : Run, epoch : Epoch, id : Id, expected : 0..MaxVersion, key : Key]

\* request_hash: what must be the same when a key is used again
Hash(q) == [id |-> q.id, expected |-> q.expected]

Row == [id : Id, run : Run, epoch : Epoch, thread : Thread, version : 1..(MaxVersion + 1)]
\* Mutant: the version is counted on twice, before the INSERT and in it
RowOfCountedTwice(q, v) == [id |-> q.id, run |-> q.run, epoch |-> q.epoch,
                            thread |-> ThreadOf[q.run], version |-> v + 1]
RowOf(q, v) == [id |-> q.id, run |-> q.run, epoch |-> q.epoch,
                thread |-> ThreadOf[q.run], version |-> v]

IdempotencyRow ==
  [run : Run, key : Key, id : Id, hash : [id : Id, expected : 0..MaxVersion]]
Answer == [run : Run, key : Key, id : Id, version : Nat]

CallIdle == [pc |-> "idle"]
CallState == {CallIdle} \cup [pc : {"lease", "insert", "replay", "version", "write"},
                              request : Request]

TypeOK ==
  /\ leases \in [Run -> Nat]
  /\ lock \in [Run -> Call \cup {"free"}]
  /\ checkpoints \subseteq Row
  /\ idempotency \subseteq IdempotencyRow
  /\ outbox \in Seq(Row)
  /\ call \in [Call -> CallState]
  /\ answers \subseteq Answer

Init ==
  /\ leases = [r \in Run |-> 0]
  /\ lock = [r \in Run |-> "free"]
  /\ checkpoints = {}
  /\ idempotency = {}
  /\ outbox = <<>>
  /\ call = [c \in Call |-> CallIdle]
  /\ answers = {}

-----------------------------------------------------------------------------
InThread(t) == {x \in checkpoints : x.thread = t}

\* COALESCE(MAX(version), 0)
Current(t) ==
  IF InThread(t) = {} THEN 0
  ELSE CHOOSE v \in {x.version : x \in InThread(t)} : \A x \in InThread(t) : x.version <= v

Goto(c, pc) == call' = [call EXCEPT ![c].pc = pc]

\* The end of a transaction gives its lock back
EndCall(c) ==
  /\ call' = [call EXCEPT ![c] = CallIdle]
  /\ lock' = [r \in Run |-> IF lock[r] = c THEN "free" ELSE lock[r]]

\* An error rolls everything back, the bump of the lease included
Abort(c) ==
  /\ EndCall(c)
  /\ UNCHANGED <<leases, checkpoints, idempotency, outbox, answers>>

Receive(c, q) ==
  /\ call[c].pc = "idle"
  /\ call' = [call EXCEPT ![c] = [pc |-> "lease", request |-> q]]
  /\ UNCHANGED <<leases, lock, checkpoints, idempotency, outbox, answers>>

\* SELECT ... FOR UPDATE: without a committed row there is nothing to lock
SeeNoLease(c) ==
  /\ call[c].pc = "lease" /\ leases[call[c].request.run] = 0
  /\ Goto(c, "insert")
  /\ UNCHANGED <<leases, lock, checkpoints, idempotency, outbox, answers>>

TakeLock(c, r) ==
  /\ lock' = [lock EXCEPT ![r] = c]
  /\ Goto(c, "replay")
  /\ UNCHANGED <<leases, checkpoints, idempotency, outbox, answers>>

\* Mutant: SELECT without FOR UPDATE
Unlocked(r) == TRUE
LockFree(r) == lock[r] = "free"

LockLease(c) ==
  LET q == call[c].request IN
  /\ call[c].pc = "lease" /\ leases[q.run] # 0 /\ LockFree(q.run)
  /\ IF q.epoch >= leases[q.run] THEN TakeLock(c, q.run) ELSE Abort(c)

\* The first insert of a lease row wins, the next one violates its key
InsertLease(c) ==
  LET r == call[c].request.run IN
  /\ call[c].pc = "insert" /\ LockFree(r)
  /\ IF leases[r] = 0 THEN TakeLock(c, r) ELSE Abort(c)

Committed(c, x) ==
  LET q == call[c].request IN
  /\ leases' = [leases EXCEPT ![q.run] = q.epoch]
  /\ answers' = answers \cup
       {[run |-> q.run, key |-> q.key, id |-> x.id, version |-> x.version]}
  /\ EndCall(c)

Replays(q) == {i \in idempotency : i.run = q.run /\ i.key = q.key}

\* The checkpoint a replay answers with.  Mutant: the newest of the thread
NewestOfThread(q) ==
  {x \in InThread(ThreadOf[q.run]) : x.version = Current(ThreadOf[q.run])}
Stored(q) == {x \in checkpoints : \E i \in Replays(q) : i.id = x.id}

\* The first request with this key decides what every later one is answered
Replay(c) ==
  LET q == call[c].request IN
  /\ call[c].pc = "replay" /\ Replays(q) # {}
  /\ IF \E i \in Replays(q) : i.hash = Hash(q)
     THEN \E x \in Stored(q) :
            /\ Committed(c, x)
            /\ UNCHANGED <<checkpoints, idempotency, outbox>>
     ELSE Abort(c)

NoReplay(c) ==
  /\ call[c].pc = "replay" /\ Replays(call[c].request) = {}
  /\ Goto(c, "version")
  /\ UNCHANGED <<leases, lock, checkpoints, idempotency, outbox, answers>>

CheckVersion(c) ==
  LET q == call[c].request IN
  /\ call[c].pc = "version"
  /\ IF Current(ThreadOf[q.run]) = q.expected
     THEN /\ Goto(c, "write")
          /\ UNCHANGED <<leases, lock, checkpoints, idempotency, outbox, answers>>
     ELSE Abort(c)

\* The primary keys and UNIQUE(thread_id, version)
KeysFree(q, x) ==
  /\ \A y \in checkpoints : y.id # x.id /\ (y.thread # x.thread \/ y.version # x.version)
  /\ Replays(q) = {}

\* The inserts of the checkpoint, of its key and of its event, and the commit
Write(c) ==
  LET q == call[c].request
      x == RowOf(q, q.expected + 1)
  IN
  /\ call[c].pc = "write"
  /\ IF KeysFree(q, x)
     THEN /\ checkpoints' = checkpoints \cup {x}
          /\ idempotency' = idempotency \cup
               {[run |-> q.run, key |-> q.key, id |-> q.id, hash |-> Hash(q)]}
          /\ outbox' = Append(outbox, x)
          /\ Committed(c, x)
     ELSE Abort(c)

\* The connection to the database is lost, or the service dies
Fail(c) == call[c].pc # "idle" /\ Abort(c)

Step(c) ==
  \/ \E q \in Requests : Receive(c, q)
  \/ SeeNoLease(c) \/ LockLease(c) \/ InsertLease(c)
  \/ Replay(c) \/ NoReplay(c) \/ CheckVersion(c) \/ Write(c)
  \/ Fail(c)

Next == \E c \in Call : Step(c)

Spec == Init /\ [][Next]_vars

-----------------------------------------------------------------------------
EntryOf(x) == [id |-> x.id, run |-> x.run, epoch |-> x.epoch]

HistoryView ==
  [t \in Thread |->
     [v \in 1..Current(t) |-> EntryOf(CHOOSE x \in InThread(t) : x.version = v)]]

History == INSTANCE CheckpointHistory
             WITH history <- HistoryView, fence <- leases, announced <- outbox

\* However puts of several runs and attempts interleave, fail and repeat, what
\* is stored is one linear history per thread, which only attempts that are not
\* fenced extend, and each checkpoint is announced once with its own version.
LinearHistory == History!HSpec

\* All successful answers to one idempotency key name the same checkpoint and
\* version, whichever attempt of the run repeats the request and when.
AnswersAgree ==
  /\ \A a, b \in answers : a.run = b.run /\ a.key = b.key => a = b
  /\ \A a \in answers : \E x \in checkpoints : x.id = a.id /\ x.version = a.version
=============================================================================
