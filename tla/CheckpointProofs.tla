-------------------------- MODULE CheckpointProofs --------------------------
(***************************************************************************)
(* Proofs about Checkpoint: whatever the runs, threads, handlers and       *)
(* requests, the tables implement one linear history per thread, and all   *)
(* answers to a key agree.  The inductive invariant says that a handler    *)
(* past its lease statement holds the lock of its run and is not fenced,   *)
(* that the versions of a thread are an interval from 1, and that every    *)
(* answer is backed by rows that never change.                             *)
(***************************************************************************)
EXTENDS Checkpoint, TLAPS

\* The calls whose transaction holds the lease row of their run
Holding(c) == call[c].pc \in {"replay", "version", "write"}

LockInv ==
  \A c \in Call : Holding(c) =>
    /\ lock[call[c].request.run] = c
    /\ call[c].request.epoch >= leases[call[c].request.run]

Versions(t) == {x.version : x \in InThread(t)}

RowsInv ==
  /\ \A x, y \in checkpoints : x.id = y.id => x = y
  /\ \A x, y \in checkpoints : x.thread = y.thread /\ x.version = y.version => x = y
  /\ \A t \in Thread : \E n \in Nat : Versions(t) = 1..n

\* A writer past its version check may be late, never early
WriterInv ==
  \A c \in Call : call[c].pc = "write" =>
    call[c].request.expected \in {0} \cup Versions(ThreadOf[call[c].request.run])

AnswersInv ==
  /\ \A i, j \in idempotency : i.run = j.run /\ i.key = j.key => i = j
  /\ \A a \in answers :
       /\ \E i \in idempotency : i.run = a.run /\ i.key = a.key /\ i.id = a.id
       /\ \E x \in checkpoints : x.id = a.id /\ x.version = a.version

CInv == TypeOK /\ LockInv /\ RowsInv /\ WriterInv /\ AnswersInv

-----------------------------------------------------------------------------
\* What a call may be, in a form the provers use directly.
LEMMA CallShape ==
  ASSUME TypeOK, NEW c \in Call
  PROVE  /\ call[c].pc \in {"idle", "lease", "insert", "replay", "version", "write"}
         /\ call[c].pc # "idle" =>
              /\ call[c] = [pc |-> call[c].pc, request |-> call[c].request]
              /\ call[c].request \in Request
              /\ call[c].request.run \in Run
              /\ call[c].request.epoch \in Epoch
              /\ call[c].request.id \in Id
              /\ call[c].request.key \in Key
              /\ call[c].request.expected \in 0..MaxVersion
  BY DEF TypeOK, CallState, CallIdle, Request

\* The number COALESCE(MAX(version), 0) finds is the length of the interval.
LEMMA CurrentIsLast ==
  ASSUME NEW t \in Thread, NEW n \in Nat, Versions(t) = 1..n
  PROVE  Current(t) = n
<1>1. CASE n = 0
  <2>1. InThread(t) = {}
    BY <1>1 DEF Versions
  <2> QED BY <2>1, <1>1 DEF Current
<1>2. CASE n # 0
  <2>1. InThread(t) # {} /\ n \in Versions(t)
    BY <1>2 DEF Versions
  <2>2. \A x \in InThread(t) : x.version \in 1..n
    BY DEF Versions
  <2>3. \A v \in Versions(t) : (\A x \in InThread(t) : x.version <= v) => v = n
    <3> SUFFICES ASSUME NEW v \in Versions(t), \A x \in InThread(t) : x.version <= v
                 PROVE  v = n
      OBVIOUS
    <3>1. PICK x \in InThread(t) : x.version = n
      BY <2>1 DEF Versions
    <3> QED BY <3>1
  <2>4. n \in Versions(t) /\ \A x \in InThread(t) : x.version <= n
    BY <2>1, <2>2
  <2> QED BY <2>1, <2>3, <2>4 DEF Current, Versions
<1> QED BY <1>1, <1>2

\* The row of one version of a thread is in the table.
LEMMA RowAt ==
  ASSUME NEW t \in Thread, NEW v \in Versions(t)
  PROVE  /\ (CHOOSE x \in InThread(t) : x.version = v) \in InThread(t)
         /\ (CHOOSE x \in InThread(t) : x.version = v).version = v
  BY DEF Versions

\* What the assumption says of single elements.
LEMMA Ranges ==
  /\ \A e \in Epoch : e \in Nat /\ e > 0 /\ e >= 0
  /\ \A v \in 0..MaxVersion : v \in Nat
  /\ \A r \in Run : ThreadOf[r] \in Thread
<1>1. \A e \in Epoch : e \in Nat /\ e # 0
  BY CheckpointAssumption
<1>2. \A e \in Epoch : e > 0 /\ e >= 0
  BY <1>1
<1> QED BY <1>1, <1>2, CheckpointAssumption

\* A call that goes on keeps its request.
LEMMA Onward ==
  ASSUME TypeOK, NEW c \in Call, call[c].pc # "idle", NEW p
  PROVE  /\ [call[c] EXCEPT !.pc = p] = [pc |-> p, request |-> call[c].request]
         /\ p \in {"insert", "replay", "version", "write"} => [call[c] EXCEPT !.pc = p] \in CallState
<1> DEFINE e == call[c].pc
           f == call[c].request
<1>1. call[c] = [pc |-> e, request |-> f]
  BY CallShape
<1> HIDE DEF e, f
<1>2. [[pc |-> e, request |-> f] EXCEPT !.pc = p] = [pc |-> p, request |-> f]
  OBVIOUS
<1>3. f \in Request
  BY CallShape DEF f
<1> QED BY <1>1, <1>2, <1>3 DEF f, CallState

\* Typing: a step keeps every variable in its type.
LEMMA TypeStep == TypeOK /\ [Next]_vars => TypeOK'
<1> SUFFICES ASSUME TypeOK, [Next]_vars PROVE TypeOK'
  OBVIOUS
<1> USE CheckpointAssumption
<1>1. ASSUME NEW c \in Call, Abort(c) PROVE TypeOK'
  BY <1>1 DEF Abort, EndCall, TypeOK, CallState, CallIdle
<1>2. ASSUME NEW c \in Call, NEW q \in Requests, Receive(c, q) PROVE TypeOK'
  <2>1. q \in Request
    BY DEF Request
  <2> QED BY <1>2, <2>1 DEF Receive, TypeOK, CallState
<1>3. ASSUME NEW c \in Call, NEW p \in {"insert", "version", "write"}, call[c].pc # "idle",
             Goto(c, p), UNCHANGED <<leases, lock, checkpoints, idempotency, outbox, answers>>
      PROVE  TypeOK'
  <2>1. [call[c] EXCEPT !.pc = p] \in CallState
    BY <1>3, Onward
  <2> QED BY <1>3, <2>1 DEF Goto, TypeOK
<1>4. ASSUME NEW c \in Call, call[c].pc # "idle", TakeLock(c, call[c].request.run)
      PROVE  TypeOK'
  <2>1. [call[c] EXCEPT !.pc = "replay"] \in CallState /\ call[c].request.run \in Run
    BY <1>4, CallShape, Onward
  <2> QED BY <1>4, <2>1 DEF TakeLock, Goto, TypeOK
<1>5. ASSUME NEW c \in Call, call[c].pc # "idle", NEW x \in Row, Committed(c, x)
      PROVE  /\ leases' \in [Run -> Nat] /\ lock' \in [Run -> Call \cup {"free"}]
             /\ call' \in [Call -> CallState] /\ answers' \subseteq Answer
  <2>1. call[c].request.run \in Run /\ call[c].request.epoch \in Nat
        /\ call[c].request.key \in Key
    BY <1>5, CallShape, Ranges
  <2>2. [run |-> call[c].request.run, key |-> call[c].request.key, id |-> x.id,
         version |-> x.version] \in Answer
    BY <2>1 DEF Answer, Row
  <2> QED BY <1>5, <2>1, <2>2 DEF Committed, EndCall, TypeOK, CallState, CallIdle
<1>6. ASSUME NEW c \in Call, Replay(c) PROVE TypeOK'
  <2>1. CASE Abort(c)
    BY <2>1, <1>1
  <2>2. CASE \E x \in Stored(call[c].request) :
               Committed(c, x) /\ UNCHANGED <<checkpoints, idempotency, outbox>>
    BY <2>2, <1>5, <1>6 DEF Stored, Replay, TypeOK
  <2> QED BY <1>6, <2>1, <2>2 DEF Replay
<1>7. ASSUME NEW c \in Call, Write(c) PROVE TypeOK'
  <2> DEFINE q == call[c].request
             x == RowOf(q, q.expected + 1)
  <2>1. CASE Abort(c)
    BY <2>1, <1>1
  <2>2. CASE KeysFree(q, x)
    <3>1. /\ q.run \in Run /\ q.epoch \in Epoch /\ q.id \in Id /\ q.key \in Key
          /\ q.expected \in 0..MaxVersion /\ ThreadOf[q.run] \in Thread
      BY <1>7, CallShape DEF Write
    <3>2. x \in Row
      BY <3>1 DEF RowOf, Row
    <3>3. [run |-> q.run, key |-> q.key, id |-> q.id, hash |-> Hash(q)] \in IdempotencyRow
      BY <3>1 DEF IdempotencyRow, Hash
    <3>4. Committed(c, x) /\ checkpoints' = checkpoints \cup {x} /\ outbox' = Append(outbox, x)
          /\ idempotency' = idempotency \cup
               {[run |-> q.run, key |-> q.key, id |-> q.id, hash |-> Hash(q)]}
      BY <1>7, <2>2 DEF Write
    <3>5. call[c].pc # "idle"
      BY <1>7 DEF Write
    <3> HIDE DEF x, q
    <3>6. outbox' \in Seq(Row)
      BY <3>2, <3>4 DEF TypeOK
    <3>7. checkpoints' \subseteq Row /\ idempotency' \subseteq IdempotencyRow
      BY <3>2, <3>3, <3>4 DEF TypeOK
    <3> QED BY <3>2, <3>4, <3>5, <3>6, <3>7, <1>5 DEF TypeOK
  <2> QED BY <1>7, <2>1, <2>2 DEF Write
<1>8. CASE UNCHANGED vars
  BY <1>8 DEF vars, TypeOK
<1>9. ASSUME NEW c \in Call, Step(c) PROVE TypeOK'
  <2>1. CASE \E q \in Requests : Receive(c, q)
    BY <2>1, <1>2
  <2>2. CASE SeeNoLease(c)
    BY <2>2, <1>3 DEF SeeNoLease
  <2>3. CASE LockLease(c)
    BY <2>3, <1>1, <1>4 DEF LockLease
  <2>4. CASE InsertLease(c)
    BY <2>4, <1>1, <1>4 DEF InsertLease
  <2>5. CASE NoReplay(c)
    BY <2>5, <1>3 DEF NoReplay
  <2>6. CASE CheckVersion(c)
    BY <2>6, <1>1, <1>3 DEF CheckVersion
  <2>7. CASE Fail(c)
    BY <2>7, <1>1 DEF Fail
  <2> QED BY <1>9, <1>6, <1>7, <2>1, <2>2, <2>3, <2>4, <2>5, <2>6, <2>7 DEF Step
<1> QED BY <1>8, <1>9 DEF Next

-----------------------------------------------------------------------------
\* A call moved on by Goto keeps its request, and the others do not move.
LEMMA GotoMoves ==
  ASSUME TypeOK, NEW c \in Call, call[c].pc # "idle",
         NEW p \in {"insert", "replay", "version", "write"}, Goto(c, p)
  PROVE  /\ call'[c].pc = p /\ call'[c].request = call[c].request
         /\ \A d \in Call \ {c} : call'[d] = call[d]
<1>1. call'[c] = [pc |-> p, request |-> call[c].request]
  BY Onward DEF Goto, TypeOK
<1> QED BY <1>1 DEF Goto, TypeOK

\* A call that ends is idle, and the others do not move.
LEMMA EndMoves ==
  ASSUME TypeOK, NEW c \in Call, EndCall(c)
  PROVE  /\ call'[c].pc = "idle"
         /\ \A d \in Call \ {c} : call'[d] = call[d]
         /\ \A r \in Run : lock[r] # c => lock'[r] = lock[r]
  BY DEF EndCall, CallIdle, TypeOK

\* Whatever ends a call, the calls that go on keep their locks: no two of them
\* hold the same row, and only a holder changes the lease of its run.
LEMMA LockKept ==
  ASSUME TypeOK, LockInv, NEW c \in Call, EndCall(c),
         \A d \in Call \ {c} : Holding(d) => leases'[call[d].request.run] = leases[call[d].request.run]
  PROVE  LockInv'
<1> SUFFICES ASSUME NEW d \in Call, Holding(d)'
             PROVE  /\ lock'[call'[d].request.run] = d
                    /\ call'[d].request.epoch >= leases'[call'[d].request.run]
  BY DEF LockInv
<1>1. d # c
  BY EndMoves DEF Holding
<1>2. call'[d] = call[d] /\ Holding(d)
  BY <1>1, EndMoves DEF Holding
<1>3. call[d].request.run \in Run /\ lock[call[d].request.run] = d
      /\ call[d].request.epoch >= leases[call[d].request.run]
  BY <1>2, CallShape DEF Holding, LockInv
<1>4. lock'[call[d].request.run] = d
  BY <1>1, <1>3, EndMoves
<1> QED BY <1>1, <1>2, <1>3, <1>4

\* Two calls of one run never hold its lease row together.
LEMMA OneHolder ==
  ASSUME TypeOK, LockInv, NEW c \in Call, NEW d \in Call \ {c}, Holding(c), Holding(d)
  PROVE  call[c].request.run # call[d].request.run
  BY DEF LockInv

\* The lease statement lets in one call per run, and none that is fenced.
LEMMA TakesLock ==
  ASSUME TypeOK, LockInv, NEW c \in Call, call[c].pc # "idle", LockFree(call[c].request.run),
         call[c].request.epoch >= leases[call[c].request.run],
         TakeLock(c, call[c].request.run)
  PROVE  LockInv'
<1> DEFINE r == call[c].request.run
<1> SUFFICES ASSUME NEW d \in Call, Holding(d)'
             PROVE  /\ lock'[call'[d].request.run] = d
                    /\ call'[d].request.epoch >= leases'[call'[d].request.run]
  BY DEF LockInv
<1>1. r \in Run /\ lock' = [lock EXCEPT ![r] = c] /\ leases' = leases
  BY CallShape DEF TakeLock
<1>2. CASE d = c
  <2>1. call'[c].request = call[c].request
    BY GotoMoves DEF TakeLock
  <2> QED BY <1>1, <1>2, <2>1 DEF TypeOK
<1>3. CASE d # c
  <2>1. call'[d] = call[d]
    BY <1>3, GotoMoves DEF TakeLock
  <2>2. Holding(d) /\ call[d].request.run \in Run
    BY <2>1, CallShape DEF Holding
  <2>3. lock[call[d].request.run] = d /\ call[d].request.epoch >= leases[call[d].request.run]
    BY <2>2 DEF LockInv
  <2>4. call[d].request.run # r
    BY <2>3, CheckpointAssumption DEF LockFree
  <2> QED BY <1>1, <2>1, <2>2, <2>3, <2>4 DEF TypeOK
<1> QED BY <1>2, <1>3

\* A call that changes neither locks nor leases and does not enter the lease.
LEMMA LockUntouched ==
  ASSUME TypeOK, LockInv, NEW c \in Call, lock' = lock, leases' = leases,
         \A d \in Call \ {c} : call'[d] = call[d],
         Holding(c)' => Holding(c) /\ call'[c].request = call[c].request
  PROVE  LockInv'
  BY DEF LockInv, Holding

\* The fields a committed call leaves behind.
LEMMA CommitLease ==
  ASSUME TypeOK, LockInv, NEW c \in Call, Holding(c), NEW x, Committed(c, x)
  PROVE  LockInv'
<1>1. \A d \in Call \ {c} : Holding(d) => leases'[call[d].request.run] = leases[call[d].request.run]
  BY OneHolder, CallShape DEF Committed, Holding, TypeOK
<1> QED BY <1>1, LockKept DEF Committed

\* The lock invariant.
LEMMA LockStep == TypeOK /\ LockInv /\ [Next]_vars => LockInv'
<1> SUFFICES ASSUME TypeOK, LockInv, [Next]_vars PROVE LockInv'
  OBVIOUS
<1>1. ASSUME NEW c \in Call, Abort(c) PROVE LockInv'
  BY <1>1, LockKept DEF Abort
<1>2. ASSUME NEW c \in Call, Step(c) PROVE LockInv'
  <2>1. CASE \E q \in Requests : Receive(c, q)
    <3>1. \A d \in Call \ {c} : call'[d] = call[d]
      BY <2>1 DEF Receive, TypeOK
    <3>2. call'[c].pc = "lease"
      BY <2>1 DEF Receive, TypeOK
    <3> QED BY <2>1, <3>1, <3>2, LockUntouched DEF Receive, Holding
  <2>2. CASE SeeNoLease(c)
    BY <2>2, GotoMoves, LockUntouched DEF SeeNoLease, Holding
  <2>3. CASE LockLease(c)
    BY <2>3, <1>1, TakesLock DEF LockLease
  <2>4. CASE InsertLease(c)
    <3>1. call[c].request.epoch \in Nat /\ call[c].request.epoch >= 0
      <4>1. call[c].request.epoch \in Epoch
        BY <2>4, CallShape DEF InsertLease
      <4> QED BY <4>1, Ranges
    <3> QED BY <2>4, <3>1, <1>1, TakesLock DEF InsertLease
  <2>5. CASE Replay(c)
    BY <2>5, <1>1, CommitLease DEF Replay, Holding
  <2>6. CASE NoReplay(c)
    BY <2>6, GotoMoves, LockUntouched DEF NoReplay, Holding
  <2>7. CASE CheckVersion(c)
    BY <2>7, <1>1, GotoMoves, LockUntouched DEF CheckVersion, Holding
  <2>8. CASE Write(c)
    BY <2>8, <1>1, CommitLease DEF Write, Holding
  <2>9. CASE Fail(c)
    BY <2>9, <1>1 DEF Fail
  <2> QED BY <1>2, <2>1, <2>2, <2>3, <2>4, <2>5, <2>6, <2>7, <2>8, <2>9 DEF Step
<1>3. CASE UNCHANGED vars
  BY <1>3 DEF vars, LockInv, Holding
<1> QED BY <1>2, <1>3 DEF Next

-----------------------------------------------------------------------------
\* The step that adds a row: the writer's version is the next one of its thread.
LEMMA WriteFacts ==
  ASSUME CInv, NEW c \in Call, Write(c), ~Abort(c)
  PROVE  LET q == call[c].request
             x == RowOf(q, q.expected + 1)
         IN  /\ x \in Row /\ x.thread = ThreadOf[q.run] /\ x.thread \in Thread
             /\ x.id = q.id /\ x.run = q.run /\ x.epoch = q.epoch
             /\ Versions(x.thread) = 1..(x.version - 1) /\ x.version - 1 \in Nat
             /\ KeysFree(q, x) /\ Committed(c, x)
             /\ checkpoints' = checkpoints \cup {x}
             /\ outbox' = Append(outbox, x)
             /\ idempotency' = idempotency \cup
                  {[run |-> q.run, key |-> q.key, id |-> q.id, hash |-> Hash(q)]}
<1> DEFINE q == call[c].request
           x == RowOf(q, q.expected + 1)
           t == ThreadOf[q.run]
<1>1. /\ q.run \in Run /\ q.epoch \in Epoch /\ q.id \in Id
      /\ q.expected \in 0..MaxVersion /\ t \in Thread /\ q.expected \in Nat
  <2>1. call[c].pc = "write" /\ TypeOK
    BY DEF Write, CInv
  <2> QED BY <2>1, CallShape, Ranges
<1>2. /\ x \in Row /\ x.thread = t /\ x.id = q.id /\ x.run = q.run /\ x.epoch = q.epoch
      /\ x.version = q.expected + 1
  BY <1>1, CheckpointAssumption DEF RowOf, Row
<1>3. KeysFree(q, x) /\ Committed(c, x) /\ checkpoints' = checkpoints \cup {x}
      /\ outbox' = Append(outbox, x)
      /\ idempotency' = idempotency \cup
           {[run |-> q.run, key |-> q.key, id |-> q.id, hash |-> Hash(q)]}
  BY DEF Write
<1>4. PICK n \in Nat : Versions(t) = 1..n
  BY <1>1 DEF CInv, RowsInv
<1>5. q.expected \in {0} \cup 1..n
  BY <1>4 DEF CInv, WriterInv, Write
<1>6. q.expected + 1 \notin Versions(t)
  BY <1>2, <1>3 DEF KeysFree, Versions, InThread
<1>7. q.expected = n
  BY <1>1, <1>4, <1>5, <1>6
<1> HIDE DEF x, t
<1>8. Versions(x.thread) = 1..(x.version - 1) /\ x.version - 1 \in Nat
  BY <1>1, <1>2, <1>4, <1>7
<1> QED BY <1>1, <1>2, <1>3, <1>8 DEF x, t

\* Adding a row adds its version to its thread and to no other.
LEMMA VersionsGrow ==
  ASSUME NEW x, checkpoints' = checkpoints \cup {x}, NEW t
  PROVE  Versions(t)' = IF x.thread = t THEN Versions(t) \cup {x.version} ELSE Versions(t)
  BY DEF Versions, InThread

\* Every thread is an interval of versions from 1, and no row is stored twice.
LEMMA RowsStep == CInv /\ [Next]_vars => RowsInv'
<1> SUFFICES ASSUME CInv, [Next]_vars PROVE RowsInv'
  OBVIOUS
<1>1. CASE checkpoints' = checkpoints
  BY <1>1 DEF CInv, RowsInv, Versions, InThread
<1>2. ASSUME NEW c \in Call, Write(c), ~Abort(c) PROVE RowsInv'
  <2> DEFINE q == call[c].request
             x == RowOf(q, q.expected + 1)
  <2>1. /\ x.thread \in Thread /\ x.version - 1 \in Nat /\ x \in Row
        /\ Versions(x.thread) = 1..(x.version - 1)
        /\ checkpoints' = checkpoints \cup {x} /\ KeysFree(q, x)
    BY <1>2, WriteFacts
  <2> HIDE DEF x, q
  <2>2. \A y \in checkpoints : y.id # x.id /\ (y.thread # x.thread \/ y.version # x.version)
    BY <2>1 DEF KeysFree
  <2>3. /\ \A y, z \in checkpoints' : y.id = z.id => y = z
        /\ \A y, z \in checkpoints' : y.thread = z.thread /\ y.version = z.version => y = z
    BY <2>1, <2>2 DEF CInv, RowsInv
  <2>4. ASSUME NEW t \in Thread PROVE \E n \in Nat : Versions(t)' = 1..n
    <3>1. CASE x.thread = t
      <4>1. Versions(t)' = 1..(x.version - 1) \cup {x.version}
        BY <2>1, <3>1, VersionsGrow
      <4>2. x.version \in Nat /\ 1..(x.version - 1) \cup {x.version} = 1..x.version
        BY <2>1 DEF Row
      <4> QED BY <4>1, <4>2
    <3>2. CASE x.thread # t
      BY <2>1, <3>2, VersionsGrow DEF CInv, RowsInv
    <3> QED BY <3>1, <3>2
  <2> QED BY <2>3, <2>4 DEF RowsInv
<1>3. CASE UNCHANGED vars
  BY <1>1, <1>3 DEF vars
<1>4. ASSUME NEW c \in Call, Step(c) PROVE RowsInv'
  <2>1. checkpoints' = checkpoints \/ (Write(c) /\ ~Abort(c))
    BY <1>4 DEF Step, Receive, SeeNoLease, LockLease, InsertLease, TakeLock, Replay, NoReplay,
                CheckVersion, Fail, Abort
  <2> QED BY <2>1, <1>1, <1>2
<1> QED BY <1>3, <1>4 DEF Next

\* A writer that passed its version check stays at or behind the end of its
\* thread: rows are only added.
LEMMA WriterStep == CInv /\ [Next]_vars => WriterInv'
<1> SUFFICES ASSUME CInv, [Next]_vars, NEW d \in Call, call'[d].pc = "write",
                    NEW t, t = ThreadOf[call'[d].request.run]
             PROVE  call'[d].request.expected \in {0} \cup Versions(t)'
  BY DEF WriterInv, Versions, InThread
<1> USE DEF CInv
<1>1. Versions(t) \subseteq Versions(t)'
  <2>1. checkpoints \subseteq checkpoints'
    BY DEF Next, Step, Receive, SeeNoLease, LockLease, InsertLease, TakeLock, Replay, NoReplay,
           CheckVersion, Write, Fail, Abort, vars
  <2> QED BY <2>1 DEF Versions, InThread
<1>2. CASE call'[d] = call[d]
  BY <1>1, <1>2 DEF WriterInv
<1>3. CASE call'[d] # call[d]
  <2>1. PICK c \in Call : Step(c)
    BY <1>3 DEF Next, vars
  <2>2. ASSUME EndCall(c) PROVE FALSE
    BY <2>2, <1>3, EndMoves
  <2>3. ASSUME NEW p \in {"insert", "replay", "version"}, call[c].pc # "idle", Goto(c, p)
        PROVE  FALSE
    BY <2>3, <1>3, GotoMoves
  <2>4. ~Abort(c)
    BY <2>2 DEF Abort
  <2>5. CheckVersion(c)
    <3>1. ~(\E q \in Requests : Receive(c, q))
      BY <1>3 DEF Receive, TypeOK
    <3>2. ~SeeNoLease(c) /\ ~NoReplay(c)
      BY <2>3 DEF SeeNoLease, NoReplay
    <3>3. ~LockLease(c) /\ ~InsertLease(c)
      BY <2>3, <2>4 DEF LockLease, InsertLease, TakeLock
    <3>4. ~Replay(c) /\ ~Write(c) /\ ~Fail(c)
      BY <2>2, <2>4 DEF Replay, Write, Fail, Committed
    <3> QED BY <2>1, <3>1, <3>2, <3>3, <3>4 DEF Step
  <2>6. d = c /\ call'[c].request = call[c].request /\ call[c].pc = "version"
    BY <2>4, <2>5, <1>3, GotoMoves DEF CheckVersion
  <2>7. ThreadOf[call[c].request.run] \in Thread
    BY <2>6, CallShape, Ranges
  <2>8. PICK n \in Nat : Versions(ThreadOf[call[c].request.run]) = 1..n
    BY <2>7 DEF RowsInv
  <2>9. call[c].request.expected = n
    BY <2>4, <2>5, <2>7, <2>8, CurrentIsLast DEF CheckVersion
  <2> QED BY <1>1, <2>6, <2>8, <2>9
<1> QED BY <1>2, <1>3

\* Every answer stays backed by the row of its key and by its checkpoint.
LEMMA AnswersStep == CInv /\ [Next]_vars => AnswersInv'
<1> SUFFICES ASSUME CInv, [Next]_vars PROVE AnswersInv'
  OBVIOUS
<1>1. CASE UNCHANGED <<checkpoints, idempotency, answers>>
  BY <1>1 DEF CInv, AnswersInv
<1>2. ASSUME NEW c \in Call, Replay(c), ~Abort(c) PROVE AnswersInv'
  <2> DEFINE q == call[c].request
  <2>1. PICK x \in Stored(q) : Committed(c, x) /\ UNCHANGED <<checkpoints, idempotency, outbox>>
    BY <1>2 DEF Replay
  <2>2. PICK i \in Replays(q) : i.id = x.id /\ x \in checkpoints
    BY DEF Stored
  <2>3. answers' = answers \cup
          {[run |-> q.run, key |-> q.key, id |-> x.id, version |-> x.version]}
    BY <2>1 DEF Committed
  <2>4. i \in idempotency /\ i.run = q.run /\ i.key = q.key
    BY DEF Replays
  <2> QED BY <2>1, <2>2, <2>3, <2>4 DEF CInv, AnswersInv
<1>3. ASSUME NEW c \in Call, Write(c), ~Abort(c) PROVE AnswersInv'
  <2> DEFINE q == call[c].request
             x == RowOf(q, q.expected + 1)
             i == [run |-> q.run, key |-> q.key, id |-> q.id, hash |-> Hash(q)]
  <2>1. /\ checkpoints' = checkpoints \cup {x} /\ idempotency' = idempotency \cup {i}
        /\ KeysFree(q, x) /\ x.id = q.id /\ Committed(c, x)
    BY <1>3, WriteFacts
  <2>2. answers' = answers \cup
          {[run |-> q.run, key |-> q.key, id |-> x.id, version |-> x.version]}
    BY <2>1 DEF Committed
  <2>3. \A j \in idempotency : ~(j.run = q.run /\ j.key = q.key)
    BY <2>1 DEF KeysFree, Replays
  <2>4. i.run = q.run /\ i.key = q.key /\ i.id = x.id
    BY <2>1
  <2> HIDE DEF i, x, q
  <2>5. \A j, k \in idempotency' : j.run = k.run /\ j.key = k.key => j = k
    BY <2>1, <2>3, <2>4 DEF CInv, AnswersInv
  <2>6. ASSUME NEW a \in answers'
        PROVE  /\ \E j \in idempotency' : j.run = a.run /\ j.key = a.key /\ j.id = a.id
               /\ \E y \in checkpoints' : y.id = a.id /\ y.version = a.version
    <3>1. CASE a \in answers
      BY <2>1, <3>1 DEF CInv, AnswersInv
    <3>2. CASE a = [run |-> q.run, key |-> q.key, id |-> x.id, version |-> x.version]
      BY <2>1, <2>4, <3>2
    <3> QED BY <2>2, <3>1, <3>2
  <2> QED BY <2>5, <2>6 DEF AnswersInv
<1>4. ASSUME NEW c \in Call, Step(c) PROVE AnswersInv'
  <2>1. \/ UNCHANGED <<checkpoints, idempotency, answers>>
        \/ Replay(c) /\ ~Abort(c)
        \/ Write(c) /\ ~Abort(c)
    BY <1>4 DEF Step, Receive, SeeNoLease, LockLease, InsertLease, TakeLock, NoReplay,
                CheckVersion, Fail, Abort
  <2> QED BY <2>1, <1>1, <1>2, <1>3
<1> QED BY <1>1, <1>4 DEF Next, vars

\* The inductive invariant holds in every behaviour.
THEOREM CheckpointInvariant == Spec => []CInv
<1>1. Init => CInv
  <2> SUFFICES ASSUME Init PROVE CInv
    OBVIOUS
  <2>1. TypeOK
    BY DEF Init, TypeOK, CallState
  <2>2. LockInv /\ WriterInv
    BY DEF Init, LockInv, WriterInv, Holding, CallIdle
  <2>3. \A t \in Thread : Versions(t) = 1..0
    BY DEF Init, Versions, InThread
  <2>4. RowsInv /\ AnswersInv
    BY <2>3 DEF Init, RowsInv, AnswersInv
  <2> QED BY <2>1, <2>2, <2>4 DEF CInv
<1>2. CInv /\ [Next]_vars => CInv'
  BY TypeStep, LockStep, RowsStep, WriterStep, AnswersStep DEF CInv
<1> QED BY <1>1, <1>2, PTL DEF Spec

\* Every variable of the Checkpoint API keeps its type.
THEOREM CheckpointTypes == Spec => []TypeOK
<1>1. CInv => TypeOK
  BY DEF CInv
<1> QED BY <1>1, CheckpointInvariant, PTL

\* put_checkpoint answers every repetition of a key alike, for all requests.
THEOREM AnswersAlwaysAgree == Spec => []AnswersAgree
<1>1. CInv => AnswersAgree
  <2> SUFFICES ASSUME CInv PROVE AnswersAgree
    OBVIOUS
  <2>1. ASSUME NEW a \in answers, NEW b \in answers, a.run = b.run, a.key = b.key
        PROVE  a = b
    <3>1. a.id = b.id
      BY <2>1 DEF CInv, AnswersInv
    <3>2. a.version = b.version
      BY <2>1, <3>1 DEF CInv, AnswersInv, RowsInv
    <3>3. /\ a = [run |-> a.run, key |-> a.key, id |-> a.id, version |-> a.version]
          /\ b = [run |-> b.run, key |-> b.key, id |-> b.id, version |-> b.version]
      BY DEF CInv, TypeOK, Answer
    <3> QED BY <2>1, <3>1, <3>2, <3>3
  <2> QED BY <2>1 DEF AnswersAgree, CInv, AnswersInv
<1> QED BY <1>1, CheckpointInvariant, PTL

-----------------------------------------------------------------------------
\* The history of a thread is a sequence: as many entries as versions, and at each
\* version the entry of the row that carries it.
ViewOK ==
  \A t \in Thread :
    /\ HistoryView[t] \in Seq(History!Entry)
    /\ \A n \in Nat : Versions(t) = 1..n => Len(HistoryView[t]) = n
    /\ \A y \in InThread(t) : HistoryView[t][y.version] = EntryOf(y)

\* The tables read as sequences: see ViewOK.
LEMMA View == TypeOK /\ RowsInv => ViewOK
<1> SUFFICES ASSUME TypeOK, RowsInv, NEW t \in Thread
             PROVE  /\ HistoryView[t] \in Seq(History!Entry)
                    /\ \A n \in Nat : Versions(t) = 1..n => Len(HistoryView[t]) = n
                    /\ \A y \in InThread(t) : HistoryView[t][y.version] = EntryOf(y)
  BY DEF ViewOK
<1> DEFINE at(v) == CHOOSE x \in InThread(t) : x.version = v
<1>1. PICK n \in Nat : Versions(t) = 1..n
  BY DEF RowsInv
<1>2. HistoryView[t] = [v \in 1..n |-> EntryOf(at(v))]
  BY <1>1, CurrentIsLast DEF HistoryView
<1>3. \A v \in 1..n : at(v) \in InThread(t)
  BY <1>1, RowAt
<1>4. \A x \in InThread(t) : EntryOf(x) \in History!Entry
  BY DEF InThread, TypeOK, Row, EntryOf, History!Entry
<1>5. \A y \in InThread(t) : y.version \in 1..n /\ at(y.version) = y
  <2> SUFFICES ASSUME NEW y \in InThread(t) PROVE y.version \in 1..n /\ at(y.version) = y
    OBVIOUS
  <2>1. y.version \in Versions(t)
    BY DEF Versions
  <2>2. at(y.version) \in InThread(t) /\ at(y.version).version = y.version
    BY <2>1, RowAt
  <2> QED BY <1>1, <2>1, <2>2 DEF RowsInv, InThread
<1> HIDE DEF at
<1>6. HistoryView[t] \in Seq(History!Entry) /\ Len(HistoryView[t]) = n
  BY <1>2, <1>3, <1>4
<1>7. \A m \in Nat : 1..m = 1..n => m = n
  <2> SUFFICES ASSUME NEW m \in Nat, 1..m = 1..n, m # n PROVE FALSE
    OBVIOUS
  <2>1. CASE m < n
    <3>1. n \in 1..n /\ n \notin 1..m
      BY <2>1
    <3> QED BY <3>1
  <2>2. CASE n < m
    <3>1. m \in 1..m /\ m \notin 1..n
      BY <2>2
    <3> QED BY <3>1
  <2> QED BY <2>1, <2>2
<1>8. \A y \in InThread(t) : HistoryView[t][y.version] = EntryOf(y)
  BY <1>2, <1>5
<1> QED BY <1>1, <1>6, <1>7, <1>8

\* A put that commits is one extension of its thread.
LEMMA WriteRefines ==
  ASSUME CInv, CInv', NEW c \in Call, Write(c), ~Abort(c)
  PROVE  History!HNext
<1> DEFINE q == call[c].request
<1>1. PICK x \in Row :
        /\ x.thread \in Thread /\ x.run = q.run /\ x.epoch = q.epoch
        /\ Versions(x.thread) = 1..(x.version - 1) /\ x.version - 1 \in Nat
        /\ \A y \in checkpoints : y.id # x.id
        /\ Committed(c, x)
        /\ checkpoints' = checkpoints \cup {x} /\ outbox' = Append(outbox, x)
  <2>1. LET x == RowOf(q, q.expected + 1) IN
        /\ x \in Row /\ x.thread \in Thread /\ x.run = q.run /\ x.epoch = q.epoch
        /\ Versions(x.thread) = 1..(x.version - 1) /\ x.version - 1 \in Nat
        /\ KeysFree(q, x) /\ Committed(c, x)
        /\ checkpoints' = checkpoints \cup {x} /\ outbox' = Append(outbox, x)
    BY WriteFacts
  <2> QED BY <2>1 DEF KeysFree
<1> DEFINE t == x.thread
           e == EntryOf(x)
           n == x.version - 1
<1>2. q.epoch >= leases[q.run] /\ q.run \in Run /\ q.epoch \in Epoch
  BY CallShape DEF Write, CInv, LockInv, Holding
<1>3. leases' = [leases EXCEPT ![x.run] = x.epoch]
  BY <1>1 DEF Committed
<1>3a. x.version = n + 1 /\ n \in Nat
  BY <1>1 DEF Row
<1>4. x = [id |-> x.id, run |-> x.run, epoch |-> x.epoch, thread |-> t, version |-> n + 1]
  BY <1>1 DEF Row
<1>5. e \in History!Entry /\ e.id = x.id /\ e.run = x.run /\ e.epoch = x.epoch
  BY <1>1 DEF EntryOf, History!Entry, Row
<1>6. /\ HistoryView[t] \in Seq(History!Entry) /\ Len(HistoryView[t]) = n
      /\ \A u \in Thread : \A y \in InThread(u) : HistoryView[u][y.version] = EntryOf(y)
      /\ \A u \in Thread : HistoryView[u] \in Seq(History!Entry)
  BY <1>1, View DEF CInv, ViewOK
<1>7. (TypeOK /\ RowsInv => ViewOK)'
  BY View, PTL
<1>8. \A u \in Thread :
        /\ HistoryView'[u] \in Seq(History!Entry)
        /\ \A m \in Nat : Versions(u)' = 1..m => Len(HistoryView'[u]) = m
        /\ \A y \in InThread(u)' : HistoryView'[u][y.version] = EntryOf(y)
  BY <1>7 DEF CInv, ViewOK
<1>9. HistoryView'[t] = Append(HistoryView[t], e)
  <2>1. Versions(t)' = 1..(n + 1)
    <3>1. Versions(t)' = 1..n \cup {x.version}
      BY <1>1, VersionsGrow
    <3>2. 1..n \cup {n + 1} = 1..(n + 1)
      BY <1>3a
    <3> QED BY <3>1, <3>2, <1>3a
  <2>2. HistoryView'[t] \in Seq(History!Entry) /\ Len(HistoryView'[t]) = n + 1
    BY <1>1, <1>8, <2>1
  <2>3. HistoryView'[t][n + 1] = e
    <3>1. x \in InThread(t)' /\ x.version = n + 1
      BY <1>3a, <1>1 DEF InThread
    <3> QED BY <1>1, <1>8, <3>1
  <2>4. \A v \in 1..n : HistoryView'[t][v] = HistoryView[t][v]
    <3> SUFFICES ASSUME NEW v \in 1..n PROVE HistoryView'[t][v] = HistoryView[t][v]
      OBVIOUS
    <3>1. PICK y \in InThread(t) : y.version = v
      BY <1>1 DEF Versions
    <3>2. y \in InThread(t)'
      BY <1>1 DEF InThread
    <3> QED BY <1>1, <1>6, <1>8, <3>1, <3>2
  <2> HIDE DEF e, n
  <2> QED BY <1>1, <1>5, <1>6, <2>2, <2>3, <2>4
<1>10. \A u \in Thread : u # t => HistoryView'[u] = HistoryView[u]
  <2> SUFFICES ASSUME NEW u \in Thread, u # t PROVE HistoryView'[u] = HistoryView[u]
    OBVIOUS
  <2>1. InThread(u)' = InThread(u)
    BY <1>1 DEF InThread
  <2> QED BY <2>1 DEF HistoryView, Current, EntryOf
<1>11. HistoryView' = [HistoryView EXCEPT ![t] = Append(@, e)]
  <2>1. HistoryView' = [u \in Thread |-> HistoryView'[u]] /\ DOMAIN HistoryView = Thread
        /\ HistoryView = [u \in Thread |-> HistoryView[u]]
    BY DEF HistoryView
  <2> HIDE DEF e
  <2> QED BY <1>1, <1>9, <1>10, <2>1
<1>12. History!Unused(e.id)
  <2> SUFFICES ASSUME NEW u \in Thread, NEW v \in DOMAIN HistoryView[u]
               PROVE  HistoryView[u][v].id # e.id
    BY DEF History!Unused
  <2>1. PICK m \in Nat : Versions(u) = 1..m
    BY DEF CInv, RowsInv
  <2>2. v \in Versions(u)
    <3>1. Len(HistoryView[u]) = m
      BY <2>1, View DEF CInv, ViewOK
    <3> QED BY <2>1, <3>1, <1>6
  <2>3. PICK y \in InThread(u) : y.version = v
    BY <2>2 DEF Versions
  <2>4. HistoryView[u][v] = EntryOf(y) /\ y \in checkpoints
    BY <1>6, <2>3 DEF InThread
  <2>5. y.id # x.id
    BY <1>1, <2>4
  <2> QED BY <1>5, <2>4, <2>5 DEF EntryOf
<1>13. History!Extend(t, e)
  <2>1. e.epoch >= leases[e.run]
    BY <1>1, <1>2, <1>5
  <2>2. leases' = [leases EXCEPT ![e.run] = e.epoch]
    BY <1>3, <1>5
  <2>3. outbox' = Append(outbox, [id |-> e.id, run |-> e.run, epoch |-> e.epoch,
                                  thread |-> t, version |-> Len(HistoryView[t]) + 1])
    BY <1>1, <1>4, <1>5, <1>6
  <2> QED BY <1>11, <1>12, <2>1, <2>2, <2>3 DEF History!Extend
<1> QED BY <1>1, <1>5, <1>13 DEF History!HNext

\* The Checkpoint API implements one linear history per thread: whatever puts
\* race, fail or repeat, a step of put_checkpoint extends one thread by the next
\* version, lets a newer attempt in, or changes nothing that is stored.
THEOREM ImplementsHistory == Spec => LinearHistory
<1>1. Init => History!HInit
  <2> SUFFICES ASSUME Init PROVE History!HInit
    OBVIOUS
  <2>1. \A t \in Thread : Current(t) = 0
    BY DEF Init, Current, InThread
  <2>2. \A t \in Thread : HistoryView[t] = <<>>
    BY <2>1 DEF HistoryView
  <2>3. HistoryView = [t \in Thread |-> <<>>]
    BY <2>2 DEF HistoryView
  <2> QED BY <2>3 DEF Init, History!HInit
<1>2. CInv /\ CInv' /\ [Next]_vars => [History!HNext]_(History!hvars)
  <2> SUFFICES ASSUME CInv, CInv', [Next]_vars PROVE [History!HNext]_(History!hvars)
    OBVIOUS
  <2>1. CASE UNCHANGED <<leases, checkpoints, outbox>>
    <3>1. HistoryView' = HistoryView
      BY <2>1 DEF HistoryView, Current, InThread, EntryOf
    <3> QED BY <2>1, <3>1 DEF History!hvars
  <2>2. ASSUME NEW c \in Call, Replay(c), ~Abort(c) PROVE [History!HNext]_(History!hvars)
    <3> DEFINE q == call[c].request
    <3>1. q.epoch >= leases[q.run] /\ q.run \in Run /\ q.epoch \in Epoch
          /\ leases[q.run] \in Nat /\ q.epoch \in Nat
      <4>1. call[c].pc = "replay" /\ Holding(c) /\ TypeOK
        BY <2>2 DEF Replay, Holding, CInv
      <4> QED BY <4>1, CallShape, Ranges DEF CInv, LockInv, TypeOK
    <3>2. leases' = [leases EXCEPT ![q.run] = q.epoch] /\ UNCHANGED <<checkpoints, outbox>>
      BY <2>2 DEF Replay, Committed
    <3>3. HistoryView' = HistoryView
      BY <3>2 DEF HistoryView, Current, InThread, EntryOf
    <3>4. CASE q.epoch = leases[q.run]
      <4>1. leases' = leases
        BY <3>1, <3>2, <3>4 DEF CInv, TypeOK
      <4> QED BY <3>2, <3>3, <4>1 DEF History!hvars
    <3>5. CASE q.epoch > leases[q.run]
      BY <3>1, <3>2, <3>3, <3>5 DEF History!HNext, History!LetIn
    <3> QED BY <3>1, <3>4, <3>5
  <2>3. ASSUME NEW c \in Call, Step(c) PROVE [History!HNext]_(History!hvars)
    <3>1. \/ UNCHANGED <<leases, checkpoints, outbox>>
          \/ Replay(c) /\ ~Abort(c)
          \/ Write(c) /\ ~Abort(c)
      BY <2>3 DEF Step, Receive, SeeNoLease, LockLease, InsertLease, TakeLock, NoReplay,
                  CheckVersion, Fail, Abort
    <3> QED BY <3>1, <2>1, <2>2, WriteRefines
  <2> QED BY <2>1, <2>3 DEF Next, vars
<1> QED BY <1>1, <1>2, CheckpointInvariant, PTL DEF Spec, LinearHistory, History!HSpec
=============================================================================
