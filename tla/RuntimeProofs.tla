---------------------------- MODULE RuntimeProofs ----------------------------
(***************************************************************************)
(* The order of the events of a run, and what the Runtime stores of an     *)
(* attempt, for every set of attempts and every number of sends, breaks    *)
(* and tries.                                                              *)
(*                                                                         *)
(* OutboxInOrder is not inductive.  An accepted frame is appended behind   *)
(* all earlier ones of its epoch because these have no gaps (GapFree) and  *)
(* its own number is free, and behind those of all other epochs because    *)
(* the row of the run has the newest epoch (NewestRow), unless an attempt  *)
(* was late.  That proof does not look at the client at all.               *)
(*                                                                         *)
(* The other properties relate the client's buffer, what is on its way and *)
(* the rows of one attempt (Good).  The difficulty is that an attempt may  *)
(* be set back: the row of an older attempt is overwritten, and when the   *)
(* attempt takes the run over again it counts from 0 although its frames   *)
(* are stored.  Two frames may then have the same number; SetBack says     *)
(* that the second of them is never stored.                                *)
(*                                                                         *)
(* Good is a predicate on values, so that each of its parts of a step, a   *)
(* change of the client, of a stream or of the rows, is a lemma without    *)
(* actions; the proofs of the actions compose them.                        *)
(***************************************************************************)
EXTENDS RuntimeStream, FiniteSetTheorems, TLAPS

Recorded ==
  /\ outbox \in Seq(accepted)
  /\ \A x \in accepted : x.epoch \in Nat /\ x.seq \in Nat

RowOK == row \in [epoch : Nat, last : Nat] /\ late \subseteq Attempt

Taken(epoch, n) == \E y \in accepted : y.epoch = epoch /\ y.seq = n

GapFree == \A x \in accepted : \A k \in 1..x.seq : Taken(x.epoch, k)

NewestRow ==
  /\ row.epoch = 0 => accepted = {}
  /\ \A x \in accepted : x.epoch <= row.epoch \/ \E l \in late : l <= row.epoch
  /\ \A k \in 1..row.last : Taken(row.epoch, k)

OrderInv == Recorded /\ RowOK /\ GapFree /\ NewestRow /\ OutboxInOrder

-----------------------------------------------------------------------------
LEMMA InitOrder == Init => OrderInv
  BY DEF Init, OrderInv, Recorded, RowOK, GapFree, NewestRow, OutboxInOrder, Taken

\* Every step but Activate, InsertRow and Accept leaves the invariant's variables alone
LEMMA OrderStutters ==
  ASSUME OrderInv, UNCHANGED <<late, db>>
  PROVE  OrderInv'
  BY DEF OrderInv, Recorded, RowOK, GapFree, NewestRow, OutboxInOrder, Before, Taken, db

\* A hello changes the row alone, to a newer epoch or to that of a late attempt
LEMMA OrderActivate ==
  ASSUME OrderInv, NEW e \in Attempt, NEW s, Activate(e, s)
  PROVE  OrderInv'
<1>1. e \in Nat \ {0}
  BY StreamAssumption
<1>2. UNCHANGED <<late, accepted, outbox>>
  BY DEF Activate
<1>3. CASE UNCHANGED row
  BY <1>2, <1>3, OrderStutters DEF db
<1>4. CASE row.epoch \in 1..(e - 1) /\ row' = [epoch |-> e, last |-> 0]
  <2>0. RowOK'
    BY <1>1, <1>2, <1>4 DEF OrderInv, RowOK
  <2>1. Recorded' /\ GapFree' /\ OutboxInOrder'
    BY <1>2 DEF OrderInv, Recorded, GapFree, OutboxInOrder, Before, Taken
  <2>2. row'.epoch = e /\ row'.last = 0 /\ row.epoch \in Nat /\ row.epoch < e
    BY <1>1, <1>4 DEF OrderInv, RowOK
  <2>3. ASSUME NEW x \in accepted
        PROVE  x.epoch <= e \/ \E l \in late : l <= e
    <3>1. CASE x.epoch <= row.epoch
      BY <1>1, <2>2, <3>1 DEF OrderInv, Recorded
    <3>2. CASE \E l \in late : l <= row.epoch
      <4>1. PICK l \in late : l <= row.epoch
        BY <3>2
      <4>2. l \in Nat
        BY StreamAssumption DEF OrderInv, RowOK
      <4> QED BY <1>1, <2>2, <4>1, <4>2
    <3> QED BY <3>1, <3>2 DEF OrderInv, NewestRow
  <2>4. NewestRow'
    BY <1>1, <1>2, <2>2, <2>3 DEF NewestRow
  <2> QED BY <2>0, <2>1, <2>4 DEF OrderInv
<1> QED BY <1>3, <1>4 DEF Activate

\* The insert of the first row, also when another hello has inserted before.
LEMMA OrderInsertRow ==
  ASSUME OrderInv, NEW e \in Attempt, NEW s, InsertRow(e, s)
  PROVE  OrderInv'
<1>1. e \in Nat \ {0}
  BY StreamAssumption
<1>2. /\ UNCHANGED <<accepted, outbox>>
      /\ row' = [epoch |-> e, last |-> 0]
      /\ late' = IF row.epoch = 0 THEN late ELSE late \cup {e}
  BY DEF InsertRow
<1>3. Recorded' /\ RowOK' /\ GapFree'
  BY <1>1, <1>2 DEF OrderInv, Recorded, RowOK, GapFree, Taken
<1>4. late \subseteq late'
  BY <1>2
<1>5. OutboxInOrder'
  BY <1>2, <1>4 DEF OrderInv, OutboxInOrder, Before
<1>6. row'.epoch = e /\ row'.last = 0
  BY <1>2
<1>7. ASSUME NEW x \in accepted
      PROVE  \E l \in late' : l <= e
  <2>1. row.epoch # 0
    BY DEF OrderInv, NewestRow
  <2> QED BY <1>1, <1>2, <2>1
<1>8. NewestRow'
  BY <1>1, <1>2, <1>6, <1>7 DEF NewestRow
<1> QED BY <1>3, <1>5, <1>8 DEF OrderInv

-----------------------------------------------------------------------------
\* The only step that records an event
Records(e, x) ==
  /\ Current(e) /\ x.epoch = e /\ x.seq = row.last + 1
  /\ ~Taken(e, x.seq)
  /\ accepted' = accepted \cup {x}
  /\ outbox' = Append(outbox, x)
  /\ row' = [row EXCEPT !.last = x.seq]
  /\ UNCHANGED late

\* Accept either leaves the tables or records one frame.
LEMMA AcceptRecords ==
  ASSUME NEW e \in Attempt, NEW s, Accept(e, s)
  PROVE  \/ UNCHANGED <<late, db>>
         \/ \E x : Records(e, x)
<1> DEFINE f == Head(stream[e][s].up).frame
           x == [epoch |-> e, seq |-> f.seq, key |-> f.key]
<1>1. CASE /\ Current(e) /\ InOrder(f) /\ ~SeqTaken(e, f)
           /\ accepted' = accepted \cup {x}
           /\ outbox' = Append(outbox, x)
           /\ row' = [row EXCEPT !.last = f.seq]
  <2>1. UNCHANGED late
    BY DEF Accept
  <2>2. x.epoch = e /\ x.seq = f.seq
    OBVIOUS
  <2>3. Records(e, x)
    BY <1>1, <2>1, <2>2 DEF Records, InOrder, SeqTaken, Taken
  <2> QED BY <2>3
<1>2. CASE UNCHANGED db
  BY <1>2 DEF Accept
<1>3. CASE CallFails(e, s, f)
  BY <1>2, <1>3 DEF CallFails
<1> QED BY <1>1, <1>2, <1>3 DEF Accept

\* The row that is recorded comes after all others.
LEMMA OrderRecords ==
  ASSUME OrderInv, NEW e \in Attempt, NEW x, Records(e, x)
  PROVE  OrderInv'
<1>1. /\ e \in Nat \ {0} /\ x.epoch = e /\ row.epoch = e
      /\ row.last \in Nat /\ x.seq = row.last + 1 /\ x.seq \in Nat \ {0}
  BY StreamAssumption DEF Records, Current, OrderInv, RowOK
<1>2. row' = [epoch |-> e, last |-> x.seq] /\ late' = late
  BY <1>1 DEF Records, OrderInv, RowOK
<1>3. accepted' = accepted \cup {x} /\ outbox \in Seq(accepted')
  <2>1. accepted' = accepted \cup {x}
    BY DEF Records
  <2>2. outbox \in Seq(accepted)
    BY DEF OrderInv, Recorded
  <2> QED BY <2>1, <2>2
<1>4. Recorded' /\ RowOK'
  <2>1. outbox' \in Seq(accepted')
    BY <1>3 DEF Records
  <2> QED BY <1>1, <1>2, <1>3, <2>1 DEF OrderInv, Recorded, RowOK
<1>5. \A epoch, n : Taken(epoch, n) => Taken(epoch, n)'
  BY <1>3 DEF Taken
<1>6. Taken(e, x.seq)'
  BY <1>1, <1>3 DEF Taken
<1>7. \A k \in 1..x.seq : Taken(e, k)'
  <2>1. \A k \in 1..x.seq : k = x.seq \/ k \in 1..row.last
    BY <1>1
  <2>2. \A k \in 1..row.last : Taken(e, k)
    BY <1>1 DEF OrderInv, NewestRow
  <2> QED BY <1>5, <1>6, <2>1, <2>2
<1>8. GapFree'
  <2>1. ASSUME NEW y \in accepted', NEW k \in 1..y.seq
        PROVE  Taken(y.epoch, k)'
    <3>1. CASE y = x
      BY <1>1, <1>7, <3>1
    <3>2. CASE y \in accepted
      BY <1>5, <3>2 DEF OrderInv, GapFree
    <3> QED BY <1>3, <3>1, <3>2
  <2> QED BY <2>1 DEF GapFree
<1>9. NewestRow'
  <2>1. \A y \in accepted' : y.epoch <= e \/ \E l \in late : l <= e
    BY <1>1, <1>3 DEF OrderInv, NewestRow
  <2>2. row'.epoch = e /\ row'.last = x.seq
    BY <1>2
  <2> QED BY <1>1, <1>2, <1>7, <2>1, <2>2 DEF NewestRow
\* The numbers of an epoch have no gaps, so one that is free is above all of them
<1>10. ASSUME NEW y \in accepted, y.epoch = e
       PROVE  y.seq < x.seq
  <2>1. SUFFICES ASSUME x.seq <= y.seq PROVE FALSE
    BY <1>1 DEF OrderInv, Recorded
  <2>2. x.seq \in 1..y.seq
    BY <1>1, <2>1 DEF OrderInv, Recorded
  <2>3. Taken(e, x.seq)
    BY <1>10, <2>2 DEF OrderInv, GapFree
  <2> QED BY <2>3 DEF Records
<1>11. ASSUME NEW y \in accepted
       PROVE  \/ Before(y, x)
              \/ y.epoch # x.epoch /\ \E l \in late : l <= x.epoch
  <2>1. y.epoch \in Nat
    BY DEF OrderInv, Recorded
  <2>2. y.epoch <= e \/ \E l \in late : l <= e
    BY <1>1 DEF OrderInv, NewestRow
  <2>3. CASE y.epoch = e
    BY <1>1, <1>10, <2>3 DEF Before
  <2>4. CASE y.epoch # e
    BY <1>1, <2>1, <2>2, <2>4 DEF Before
  <2> QED BY <2>3, <2>4
<1>12. OutboxInOrder'
  <2>1. outbox' = Append(outbox, x) /\ outbox \in Seq(accepted)
    BY DEF Records, OrderInv, Recorded
  <2>2. SUFFICES ASSUME NEW i \in DOMAIN outbox', NEW j \in DOMAIN outbox', i < j
                 PROVE  \/ Before(outbox'[i], outbox'[j])
                        \/ /\ outbox'[i].epoch # outbox'[j].epoch
                           /\ \E l \in late : l <= outbox'[j].epoch
    BY <1>2 DEF OutboxInOrder, Before
  <2>3. i \in DOMAIN outbox /\ outbox'[i] = outbox[i] /\ outbox[i] \in accepted
    <3>1. j \in 1..(Len(outbox) + 1) /\ Len(outbox) \in Nat /\ i \in 1..(Len(outbox) + 1)
      BY <2>1, <2>2
    <3>2. i \in 1..Len(outbox)
      BY <2>2, <3>1
    <3> QED BY <2>1, <3>2
  <2>4. CASE j \in DOMAIN outbox
    <3>1. outbox'[j] = outbox[j]
      BY <2>1, <2>4
    <3> QED BY <2>2, <2>3, <2>4, <3>1 DEF OrderInv, OutboxInOrder
  <2>5. CASE j \notin DOMAIN outbox
    <3>1. outbox'[j] = x
      BY <2>1, <2>5
    <3> QED BY <1>11, <2>3, <3>1
  <2> QED BY <2>4, <2>5
<1> QED BY <1>4, <1>8, <1>9, <1>12 DEF OrderInv

-----------------------------------------------------------------------------
LEMMA OrderStep == OrderInv /\ [Next]_vars => OrderInv'
<1> SUFFICES ASSUME OrderInv, [Next]_vars PROVE OrderInv'
  OBVIOUS
<1>2. CASE UNCHANGED vars
  BY <1>2, OrderStutters DEF vars, db
<1>3. CASE Next
  <2>1. PICK e \in Attempt :
          \/ Connect(e) \/ Reconnect(e) \/ WriteFrame(e) \/ WriteCall(e) \/ Client(e)
          \/ \E s \in DOMAIN stream[e] : Handler(e, s) \/ Break(e, s)
    BY <1>3 DEF Next
  <2>2. CASE Connect(e) \/ Reconnect(e) \/ WriteFrame(e) \/ WriteCall(e)
    <3>1. UNCHANGED <<late, db>>
      BY <2>2 DEF Connect, Reconnect, WriteFrame, WriteCall
    <3> QED BY <3>1, OrderStutters
  <2>3. CASE Client(e)
    <3>1. UNCHANGED <<late, db>>
      BY <2>3 DEF Client, HelloReturns, ResultRead, AckReturns, CallReturns, ErrorReturns,
                  TransportError, FailureReturns
    <3> QED BY <3>1, OrderStutters
  <2>4. CASE \E s \in DOMAIN stream[e] : Break(e, s) \/ CancelHandler(e, s)
    <3>1. UNCHANGED <<late, db>>
      BY <2>4 DEF Break, CancelHandler
    <3> QED BY <3>1, OrderStutters
  <2>5. CASE \E s \in DOMAIN stream[e] : Activate(e, s)
    BY <2>5, OrderActivate
  <2>6. CASE \E s \in DOMAIN stream[e] : InsertRow(e, s)
    BY <2>6, OrderInsertRow
  <2>7. CASE \E s \in DOMAIN stream[e] : Accept(e, s)
    BY <2>7, AcceptRecords, OrderRecords, OrderStutters
  <2> QED BY <2>1, <2>2, <2>3, <2>4, <2>5, <2>6, <2>7 DEF Handler
<1> QED BY <1>2, <1>3

\* The events of a run are recorded in the order of its attempts and, within an
\* attempt, of their numbers; only a late first hello can disturb it.
THEOREM EventsInOrder == Spec => []OutboxInOrder
<1>1. OrderInv => OutboxInOrder
  BY DEF OrderInv
<1> QED BY <1>1, InitOrder, OrderStep, PTL DEF Spec

-----------------------------------------------------------------------------
(* Sequences by their elements                                              *)

InSeq(s, x) == \E i \in DOMAIN s : s[i] = x

\* What is in parts of a sequence is in it.
LEMMA InSeqParts ==
  ASSUME NEW S, NEW s \in Seq(S)
  PROVE  /\ \A x : ~InSeq(<<>>, x)
         /\ \A x : InSeq(s, x) => x \in S
         /\ \A n \in 0..Len(s) : /\ SubSeq(s, 1, n) \in Seq(S)
                                 /\ \A x : InSeq(SubSeq(s, 1, n), x) => InSeq(s, x)
         /\ s # <<>> => /\ Tail(s) \in Seq(S) /\ InSeq(s, Head(s))
                        /\ \A x : InSeq(Tail(s), x) => InSeq(s, x)
<1>1. \A x : ~InSeq(<<>>, x)
  BY DEF InSeq
<1>2. \A x : InSeq(s, x) => x \in S
  BY DEF InSeq
<1>3. ASSUME NEW n \in 0..Len(s)
      PROVE  /\ SubSeq(s, 1, n) \in Seq(S)
             /\ \A x : InSeq(SubSeq(s, 1, n), x) => InSeq(s, x)
  BY DEF InSeq
<1>4. ASSUME s # <<>>
      PROVE  /\ Tail(s) \in Seq(S) /\ InSeq(s, Head(s))
             /\ \A x : InSeq(Tail(s), x) => InSeq(s, x)
  BY <1>4 DEF InSeq
<1> QED BY <1>1, <1>2, <1>3, <1>4

LEMMA InSeqJoin ==
  ASSUME NEW S, NEW s \in Seq(S), NEW r \in Seq(S), NEW x
  PROVE  s \o r \in Seq(S) /\ (InSeq(s \o r, x) <=> InSeq(s, x) \/ InSeq(r, x))
<1>1. ASSUME NEW i \in DOMAIN r, r[i] = x
      PROVE  InSeq(s \o r, x)
  <2>1. Len(s) + i \in DOMAIN (s \o r) /\ (s \o r)[Len(s) + i] = r[i]
    OBVIOUS
  <2> QED BY <1>1, <2>1 DEF InSeq
<1>2. InSeq(s \o r, x) => InSeq(s, x) \/ InSeq(r, x)
  <2> SUFFICES ASSUME NEW i \in 1..(Len(s) + Len(r)), (s \o r)[i] = x
               PROVE  InSeq(s, x) \/ InSeq(r, x)
    BY DEF InSeq
  <2>1. CASE i <= Len(s)
    BY <2>1 DEF InSeq
  <2>2. CASE i > Len(s)
    <3>1. i - Len(s) \in DOMAIN r /\ r[i - Len(s)] = x
      BY <2>2
    <3> QED BY <3>1 DEF InSeq
  <2> QED BY <2>1, <2>2
<1>3. InSeq(s, x) => InSeq(s \o r, x)
  BY DEF InSeq
<1> QED BY <1>1, <1>2, <1>3 DEF InSeq

LEMMA InSeqAppend ==
  ASSUME NEW S, NEW s \in Seq(S), NEW a \in S, NEW x
  PROVE  Append(s, a) \in Seq(S) /\ (InSeq(Append(s, a), x) <=> InSeq(s, x) \/ x = a)
<1>1. InSeq(Append(s, a), x) => InSeq(s, x) \/ x = a
  BY DEF InSeq
<1>2. InSeq(s, x) => InSeq(Append(s, a), x)
  BY DEF InSeq
<1>3. InSeq(Append(s, a), a)
  <2>1. Len(s) + 1 \in DOMAIN Append(s, a) /\ Append(s, a)[Len(s) + 1] = a
    OBVIOUS
  <2> QED BY <2>1 DEF InSeq
<1> QED BY <1>1, <1>2, <1>3

-----------------------------------------------------------------------------
(* The frames after the one acknowledged last                               *)

InAscent(p) == \A i, j \in DOMAIN p : i < j => p[i].seq < p[j].seq

\* In ascending order, the frames up to n come first
LEMMA UnackedByNumber ==
  ASSUME NEW p \in Seq(Frame), InAscent(p), NEW n \in Nat
  PROVE  /\ Unacked(p, n) \in Seq(Frame) /\ InAscent(Unacked(p, n))
         /\ \A f : InSeq(Unacked(p, n), f) <=> InSeq(p, f) /\ f.seq > n
<1> DEFINE I == {i \in DOMAIN p : p[i].seq <= n}
           m == Cardinality(I)
           q == Unacked(p, n)
<1>0. \A i \in DOMAIN p : p[i].seq \in Nat
  <2>1. \A f \in Frame : f.seq \in Nat
    BY DEF Frame
  <2> QED BY <2>1
<1>1. IsFiniteSet(I) /\ m \in 0..Len(p)
  <2>1. I \subseteq 1..Len(p) /\ IsFiniteSet(1..Len(p)) /\ Cardinality(1..Len(p)) = Len(p)
    BY FS_Interval
  <2>2. IsFiniteSet(I) /\ m <= Len(p)
    BY <2>1, FS_Subset
  <2> QED BY <2>2, FS_CardinalityType
<1>2. \A i \in I : 1..i \subseteq I
  BY <1>0 DEF InAscent
<1>3. I \subseteq 1..m
  <2> SUFFICES ASSUME NEW i \in I PROVE i <= m
    BY <1>1
  <2>1. 1..i \in SUBSET I /\ i \in Nat /\ i >= 1
    BY <1>2
  <2>2. Cardinality(1..i) = i
    BY <2>1, FS_Interval
  <2>3. Cardinality(1..i) <= m
    BY <1>1, <2>1, FS_Subset
  <2> QED BY <2>2, <2>3
<1>4. I = 1..m
  <2>1. IsFiniteSet(1..m) /\ Cardinality(1..m) = m
    BY <1>1, FS_Interval
  <2> QED BY <1>3, <2>1, FS_Subset
<1>5. q = SubSeq(p, m + 1, Len(p))
  BY DEF Unacked
<1>6. /\ q \in Seq(Frame) /\ Len(q) = Len(p) - m
      /\ \A i \in 1..(Len(p) - m) : q[i] = p[m + i]
  <2> HIDE DEF I, m, q
  <2> QED BY <1>1, <1>5
<1>7. \A i \in DOMAIN p : p[i].seq > n <=> i > m
  <2> HIDE DEF m
  <2> QED BY <1>0, <1>1, <1>4
<1> HIDE DEF I, m, q
<1>8. InAscent(q)
  <2> SUFFICES ASSUME NEW i \in 1..(Len(p) - m), NEW j \in 1..(Len(p) - m), i < j
               PROVE  q[i].seq < q[j].seq
    BY <1>6 DEF InAscent
  <2>1. m + i \in DOMAIN p /\ m + j \in DOMAIN p /\ m + i < m + j
    BY <1>1
  <2> QED BY <1>6, <2>1 DEF InAscent
<1>9. ASSUME NEW f, InSeq(q, f)
      PROVE  InSeq(p, f) /\ f.seq > n
  <2>1. PICK i \in 1..(Len(p) - m) : p[m + i] = f
    BY <1>6, <1>9 DEF InSeq
  <2>2. m + i \in DOMAIN p /\ m + i > m
    BY <1>1
  <2> QED BY <1>7, <2>1, <2>2 DEF InSeq
<1>10. ASSUME NEW f, InSeq(p, f), f.seq > n
       PROVE  InSeq(q, f)
  <2>1. PICK i \in DOMAIN p : p[i] = f
    BY <1>10 DEF InSeq
  <2>2. i > m /\ i - m \in 1..(Len(p) - m)
    BY <1>1, <1>7, <1>10, <2>1
  <2>3. q[i - m] = f
    BY <1>1, <1>6, <2>1, <2>2
  <2> QED BY <1>6, <2>2, <2>3 DEF InSeq
<1> QED BY <1>6, <1>8, <1>9, <1>10 DEF q

-----------------------------------------------------------------------------
(* One attempt: its client c, its streams ss, the frames is it issued, the  *)
(* keys rt of what returned, the rows o of its accepted frames, and the     *)
(* row w of the run                                                         *)

Held(c, f) == InSeq(c.pending, f)
Sends(t, f) == InSeq(t.up, [type |-> "frame", frame |-> f])
Says(t, r) == InSeq(t.down, r)
Own(o, k) == \E x \in o : x.key = k

Typed(c, ss, is) == c \in ClientState /\ ss \in Seq(StreamState) /\ is \in Seq(Frame)

Shape(c, ss, is) ==
  /\ c.stream \in 0..Len(ss)
  /\ c.pc # "idle" => c.stream # 0
  /\ c.pc # "hello" => c.then = "none"
  /\ c.pc # "call" => ~c.got
  /\ c.pc = "read" \/ c.then = "read" => c.own \in DOMAIN is /\ ~is[c.own].call

\* Every frame and every row is one that was issued under its key
IsIssued(is, f) == f.key \in DOMAIN is /\ is[f.key] = f
FromIssued(c, ss, is, o) ==
  /\ \A k \in DOMAIN is : is[k].key = k
  /\ \A f \in Frame : Held(c, f) => IsIssued(is, f)
  /\ \A s \in DOMAIN ss, f \in Frame : Sends(ss[s], f) => IsIssued(is, f)
  /\ \A x \in o : x.key \in DOMAIN is /\ is[x.key].seq = x.seq

Numbered(c) == InAscent(c.pending) /\ \A f \in Frame : Held(c, f) => f.seq >= 1
Distinct(o) == \A x, y \in o : x.seq = y.seq \/ x.key = y.key => x = y
Kept(c, is, o) ==
  \A k \in DOMAIN is : Own(o, k) \/ \E f \in Frame : Held(c, f) /\ f.key = k

\* Of the pending frames, those that are stored come first
StoredFirst(c, o) ==
  \A f, g \in Frame : Held(c, f) /\ Held(c, g) /\ g.seq < f.seq /\ Own(o, f.key) => Own(o, g.key)

\* The number of a pending frame is another's: the attempt has been set back
\* and does not get so far again
SetBack(e, c, o, w) ==
  w.epoch = e => \A g \in Frame, x \in o :
    Held(c, g) /\ x.seq = g.seq /\ x.key # g.key => w.last < g.seq

\* What was stored since the client learned that n was the last is still pending
Since(e, n, c, o, w) ==
  w.epoch = e => \A x \in o :
    n < x.seq /\ x.seq <= w.last => \E f \in Frame : Held(c, f) /\ f.key = x.key

\* The stream t the client reads: nothing is sent before the hello is answered,
\* what is sent is pending or acknowledged, and an acknowledgement is for what is
\* stored, with all that is pending before it
Listening(e, c, t, o, w) ==
  /\ c.pc = "hello" =>
       /\ \A f \in Frame : ~Sends(t, f)
       /\ \A n \in Nat : ~Says(t, Ack(n)) /\ ~Says(t, Result(n))
       /\ \A n \in Nat : Says(t, HelloAccepted(n)) => Since(e, n, c, o, w)
  /\ \A f \in Frame : Sends(t, f) =>
       Held(c, f) \/ (f.seq <= c.last /\ \A g \in Frame : Held(c, g) => f.seq < g.seq)
  /\ \A n \in Nat : Says(t, Ack(n)) =>
       /\ \A g \in Frame : Held(c, g) /\ g.seq <= n => Own(o, g.key)
       /\ n <= c.last \/ \E g \in Frame : Held(c, g) /\ n <= g.seq

ResultsStored(ss, o) == \A s \in DOMAIN ss, k \in Nat : Says(ss[s], Result(k)) => Own(o, k)
GotStored(c, o) == c.got => Own(o, c.own)
CallsStored(rt, is, o) == \A k \in rt : k \in DOMAIN is /\ (is[k].call => Own(o, k))

Good(e, c, ss, is, rt, o, w) ==
  /\ Typed(c, ss, is) /\ Shape(c, ss, is) /\ FromIssued(c, ss, is, o) /\ Numbered(c)
  /\ Distinct(o) /\ Kept(c, is, o) /\ StoredFirst(c, o) /\ SetBack(e, c, o, w)
  /\ Since(e, c.last, c, o, w)
  /\ c.stream # 0 => Listening(e, c, ss[c.stream], o, w)
  /\ ResultsStored(ss, o) /\ GotStored(c, o) /\ CallsStored(rt, is, o)

\* The rows of one attempt, without gaps, and the row of the run
RowOf(e) == [epoch : {e}, seq : Nat, key : Nat]
RunRow == [epoch : Nat, last : Nat]
RowsOK(e, o, w) ==
  /\ o \subseteq RowOf(e) /\ w \in RunRow
  /\ \A x \in o : \A k \in 1..x.seq : \E y \in o : y.seq = k
  /\ w.epoch = e => \A k \in 1..w.last : \E y \in o : y.seq = k

\* No two pending frames have the same number
LEMMA OneNumber ==
  ASSUME NEW c, c.pending \in Seq(Frame), Numbered(c),
         NEW f \in Frame, NEW g \in Frame, Held(c, f), Held(c, g), f.seq = g.seq
  PROVE  f = g
<1> SUFFICES ASSUME NEW i \in DOMAIN c.pending, NEW j \in DOMAIN c.pending,
                    c.pending[i] = f, c.pending[j] = g
             PROVE  f = g
  BY DEF Held, InSeq
<1>1. i \in Nat /\ j \in Nat /\ f.seq \in Nat
  BY DEF Frame
<1>2. ~(i < j) /\ ~(j < i)
  BY <1>1 DEF Numbered, InAscent
<1> QED BY <1>1, <1>2

-----------------------------------------------------------------------------
(* What the server does                                                     *)

\* A hello of this or of another attempt
LEMMA GoodHello ==
  ASSUME NEW e, NEW c, NEW ss, NEW is, NEW rt, NEW o, NEW w, NEW v,
         Good(e, c, ss, is, rt, o, w), RowsOK(e, o, w),
         v.epoch # e \/ v.last = 0
  PROVE  Good(e, c, ss, is, rt, o, v)
<1>1. \A x \in o : x.seq \in Nat
  BY DEF RowsOK, RowOf
<1>2. \A n \in Nat : Since(e, n, c, o, v)
  BY <1>1 DEF Since
<1>3. c.last \in Nat
  BY DEF Good, Typed, ClientState
<1>4. SetBack(e, c, o, v)
  BY DEF SetBack, Good, Numbered, Frame
<1>5. c.stream # 0 => Listening(e, c, ss[c.stream], o, v)
  BY <1>2 DEF Good, Listening
<1> QED BY <1>2, <1>3, <1>4, <1>5 DEF Good

\* The frame f is stored as x
LEMMA GoodAccept ==
  ASSUME NEW e, NEW c, NEW ss, NEW is, NEW rt, NEW o, NEW w, NEW v, NEW f \in Frame, NEW x,
         Good(e, c, ss, is, rt, o, w), RowsOK(e, o, w),
         IsIssued(is, f), ~Own(o, f.key), w.epoch = e, f.seq = w.last + 1,
         ~\E y \in o : y.seq = f.seq,
         x = [epoch |-> e, seq |-> f.seq, key |-> f.key],
         v = [w EXCEPT !.last = f.seq]
  PROVE  Good(e, c, ss, is, rt, o \cup {x}, v)
<1> DEFINE p == o \cup {x}
<1>0. /\ x.key = f.key /\ x.seq = f.seq /\ f.seq \in Nat /\ f.key \in Nat
      /\ w.last \in Nat /\ v.epoch = e /\ v.last = f.seq
      /\ \A y \in o : y.seq \in Nat
      /\ \A g \in Frame : g.seq \in Nat
  BY DEF RowsOK, RowOf, RunRow, Frame
<1>1. Held(c, f)
  <2>1. PICK g \in Frame : Held(c, g) /\ g.key = f.key
    BY DEF Good, Kept, IsIssued
  <2>2. g = f
    BY <2>1 DEF Good, FromIssued, IsIssued
  <2> QED BY <2>1, <2>2
<1>2. \A g \in Frame : Held(c, g) /\ g.seq = f.seq => g = f
  BY <1>1, OneNumber DEF Good, Typed, ClientState
<1>3. \A k : Own(o, k) => Own(p, k)
  BY DEF Own
<1>4. \A k : Own(p, k) => Own(o, k) \/ k = f.key
  BY <1>0 DEF Own
<1>5. FromIssued(c, ss, is, p)
  BY <1>0 DEF Good, FromIssued, IsIssued
<1>6. Distinct(p)
  BY <1>0 DEF Good, Distinct, Own
<1>7. Kept(c, is, p) /\ ResultsStored(ss, p) /\ GotStored(c, p) /\ CallsStored(rt, is, p)
  BY <1>3 DEF Good, Kept, ResultsStored, GotStored, CallsStored
<1>8. StoredFirst(c, p)
  <2> SUFFICES ASSUME NEW a \in Frame, NEW b \in Frame, Held(c, a), Held(c, b), b.seq < a.seq,
                      Own(p, a.key)
               PROVE  Own(o, b.key)
    BY <1>3 DEF StoredFirst
  <2>1. CASE Own(o, a.key)
    BY <2>1 DEF Good, StoredFirst
  <2>2. CASE a.key = f.key
    <3>1. a = f
      BY <2>2 DEF Good, FromIssued, IsIssued
    <3>2. b.seq \in 1..w.last
      BY <1>0, <3>1 DEF Good, Numbered
    <3>3. PICK y \in o : y.seq = b.seq
      BY <3>2 DEF RowsOK
    <3>4. y.key = b.key
      BY <1>0, <3>2, <3>3 DEF Good, SetBack
    <3> QED BY <3>3, <3>4 DEF Own
  <2> QED BY <1>4, <2>1, <2>2
<1>9. SetBack(e, c, p, v)
  <2> SUFFICES ASSUME NEW g \in Frame, NEW y \in p, Held(c, g), y.seq = g.seq, y.key # g.key
               PROVE  f.seq < g.seq
    BY <1>0 DEF SetBack
  <2>1. y \in o
    BY <1>0, <1>2
  <2>2. w.last < g.seq
    BY <2>1 DEF Good, SetBack
  <2>3. f.seq \notin 1..y.seq
    BY <2>1 DEF RowsOK
  <2> QED BY <1>0, <2>2, <2>3
<1>10. ASSUME NEW n \in Nat, Since(e, n, c, o, w)
       PROVE  Since(e, n, c, p, v)
  <2> SUFFICES ASSUME NEW y \in p, n < y.seq, y.seq <= f.seq
               PROVE  \E g \in Frame : Held(c, g) /\ g.key = y.key
    BY <1>0 DEF Since
  <2>1. CASE y = x
    BY <1>0, <1>1, <2>1
  <2>2. CASE y \in o
    <3>1. y.seq <= w.last
      BY <1>0, <2>2
    <3> QED BY <1>10, <2>2, <3>1 DEF Since
  <2> QED BY <2>1, <2>2
<1>11. c.last \in Nat
  BY DEF Good, Typed, ClientState
<1>12. c.stream # 0 => Listening(e, c, ss[c.stream], p, v)
  BY <1>3, <1>10 DEF Good, Listening
<1> QED BY <1>5, <1>6, <1>7, <1>8, <1>9, <1>10, <1>11, <1>12 DEF Good

\* The stream s becomes u: the client writes what is pending, and the server
\* answers what it took
LEMMA GoodStream ==
  ASSUME NEW e, NEW c, NEW ss, NEW is, NEW rt, NEW o, NEW w,
         Good(e, c, ss, is, rt, o, w),
         NEW s \in DOMAIN ss, NEW u \in StreamState,
         \A f \in Frame : Sends(u, f) =>
           Sends(ss[s], f) \/ (s = c.stream /\ c.pc # "hello" /\ Held(c, f)),
         \A n \in Nat : Says(u, HelloAccepted(n)) =>
           Says(ss[s], HelloAccepted(n)) \/ Since(e, n, c, o, w),
         \A n \in Nat : Says(u, Ack(n)) =>
           \/ Says(ss[s], Ack(n))
           \/ \E f \in Frame : Sends(ss[s], f) /\ f.seq = n /\ Own(o, f.key),
         \A k \in Nat : Says(u, Result(k)) =>
           \/ Says(ss[s], Result(k))
           \/ Own(o, k) /\ \E f \in Frame : Sends(ss[s], f)
  PROVE  Good(e, c, [ss EXCEPT ![s] = u], is, rt, o, w)
<1> DEFINE t == ss[s]
           vs == [ss EXCEPT ![s] = u]
<1>1. /\ ss \in Seq(StreamState) /\ vs \in Seq(StreamState) /\ Len(vs) = Len(ss)
      /\ DOMAIN vs = DOMAIN ss /\ vs[s] = u /\ \A i \in DOMAIN ss \ {s} : vs[i] = ss[i]
  BY DEF Good, Typed
<1> HIDE DEF vs
<1>2. Typed(c, vs, is) /\ Shape(c, vs, is)
  BY <1>1 DEF Good, Typed, Shape
<1>3. FromIssued(c, vs, is, o)
  <2>1. \A i \in DOMAIN vs, f \in Frame : Sends(vs[i], f) => IsIssued(is, f)
    BY <1>1 DEF Good, FromIssued
  <2> QED BY <2>1 DEF Good, FromIssued
<1>4. ResultsStored(vs, o)
  BY <1>1 DEF Good, ResultsStored
<1>5. ASSUME c.stream # 0
      PROVE  Listening(e, c, vs[c.stream], o, w)
  <2>1. CASE c.stream # s
    <3>1. c.stream \in DOMAIN ss
      BY <1>1, <1>5 DEF Good, Shape
    <3> QED BY <1>1, <1>5, <2>1, <3>1 DEF Good
  <2>2. CASE c.stream = s
    <3>0. Listening(e, c, t, o, w) /\ vs[c.stream] = u
      BY <1>1, <1>5, <2>2 DEF Good
    <3>1. c.pc = "hello" =>
            /\ \A f \in Frame : ~Sends(u, f)
            /\ \A n \in Nat : ~Says(u, Ack(n)) /\ ~Says(u, Result(n))
            /\ \A n \in Nat : Says(u, HelloAccepted(n)) => Since(e, n, c, o, w)
      BY <3>0 DEF Listening
    <3>2. ASSUME NEW f \in Frame, Sends(u, f)
          PROVE  Held(c, f) \/ (f.seq <= c.last /\ \A g \in Frame : Held(c, g) => f.seq < g.seq)
      BY <3>0, <3>2 DEF Listening
    <3>3. ASSUME NEW n \in Nat, Says(u, Ack(n))
          PROVE  /\ \A g \in Frame : Held(c, g) /\ g.seq <= n => Own(o, g.key)
                 /\ n <= c.last \/ \E g \in Frame : Held(c, g) /\ n <= g.seq
      <4>1. CASE Says(t, Ack(n))
        BY <3>0, <4>1 DEF Listening
      <4>2. CASE \E f \in Frame : Sends(t, f) /\ f.seq = n /\ Own(o, f.key)
        <5>1. PICK f \in Frame : Sends(t, f) /\ f.seq = n /\ Own(o, f.key)
          BY <4>2
        <5>2. Held(c, f) \/ (n <= c.last /\ \A g \in Frame : Held(c, g) => n < g.seq)
          BY <3>0, <5>1 DEF Listening
        <5>3. \A g \in Frame : g.seq \in Nat
          BY DEF Frame
        <5>4. ASSUME NEW g \in Frame, Held(c, g), g.seq <= n
              PROVE  Own(o, g.key)
          <6>1. Held(c, f)
            BY <5>2, <5>3, <5>4
          <6>2. CASE g.seq < n
            BY <5>1, <5>4, <6>1, <6>2 DEF Good, StoredFirst
          <6>3. CASE g.seq = n
            <7>1. g = f
              BY <5>1, <5>4, <6>1, <6>3, OneNumber DEF Good, Typed, ClientState
            <7> QED BY <5>1, <7>1
          <6> QED BY <5>3, <5>4, <6>2, <6>3
        <5>5. n <= c.last \/ \E g \in Frame : Held(c, g) /\ n <= g.seq
          BY <5>1, <5>2
        <5> QED BY <5>4, <5>5
      <4> QED BY <3>3, <4>1, <4>2
    <3> QED BY <3>0, <3>1, <3>2, <3>3 DEF Listening
  <2> QED BY <2>1, <2>2
<1> QED BY <1>2, <1>3, <1>4, <1>5 DEF Good, vs

-----------------------------------------------------------------------------
(* What the client does                                                     *)

\* A change of the client that leaves its frames and does not wait for a hello anew
LEMMA GoodLocal ==
  ASSUME NEW e, NEW c, NEW ss, NEW is, NEW rt, NEW o, NEW w,
         Good(e, c, ss, is, rt, o, w),
         NEW d \in ClientState, d.pending = c.pending, d.last = c.last,
         Shape(d, ss, is), d.stream \in {0, c.stream}, d.pc = "hello" => c.pc = "hello",
         GotStored(d, o)
  PROVE  Good(e, d, ss, is, rt, o, w)
<1>1. \A f : Held(d, f) <=> Held(c, f)
  BY DEF Held
<1>2. Typed(d, ss, is)
  BY DEF Good, Typed
<1>3. FromIssued(d, ss, is, o) /\ Numbered(d) /\ Kept(d, is, o)
  BY <1>1 DEF Good, FromIssued, Numbered, Kept
<1>4. StoredFirst(d, o) /\ SetBack(e, d, o, w)
  BY <1>1 DEF Good, StoredFirst, SetBack
<1>5. \A n \in Nat : Since(e, n, c, o, w) => Since(e, n, d, o, w)
  BY <1>1 DEF Since
<1>6. Since(e, d.last, d, o, w)
  BY <1>5 DEF Good, ClientState
<1>7. d.stream # 0 => Listening(e, d, ss[d.stream], o, w)
  BY <1>1, <1>5 DEF Good, Listening
<1> QED BY <1>2, <1>3, <1>4, <1>6, <1>7 DEF Good

\* A new stream, on which nothing was said yet
LEMMA GoodDial ==
  ASSUME NEW e, NEW c, NEW ss, NEW is, NEW rt, NEW o, NEW w,
         Good(e, c, ss, is, rt, o, w),
         NEW d \in ClientState, d.pending = c.pending, d.last = c.last,
         d.pc = "hello", d.stream = Len(ss) + 1, d.got = FALSE,
         d.then = "read" => d.own \in DOMAIN is /\ ~is[d.own].call
  PROVE  Good(e, d, Append(ss, NewStream), is, rt, o, w)
<1> DEFINE vs == Append(ss, NewStream)
<1>0. NewStream \in StreamState
  <2>1. Hello \in Upward
    BY DEF Upward
  <2> QED BY <2>1 DEF NewStream, StreamState
<1>1. /\ ss \in Seq(StreamState) /\ vs \in Seq(StreamState) /\ Len(vs) = Len(ss) + 1
      /\ vs[d.stream] = NewStream /\ \A s \in DOMAIN ss : vs[s] = ss[s]
      /\ \A s \in DOMAIN vs : s \in DOMAIN ss \/ s = d.stream
      /\ d.stream \in 1..Len(vs)
  BY <1>0 DEF Good, Typed
<1>2. \A f : ~Sends(NewStream, f)
  BY DEF Sends, InSeq, NewStream, Hello
<1>3. \A r : ~Says(NewStream, r)
  BY DEF Says, InSeq, NewStream
<1> HIDE DEF vs
<1>4. \A f : Held(d, f) <=> Held(c, f)
  BY DEF Held
<1>5. Typed(d, vs, is) /\ Shape(d, vs, is)
  BY <1>1 DEF Good, Typed, Shape
<1>6. FromIssued(d, vs, is, o)
  <2>1. \A i \in DOMAIN vs, f \in Frame : Sends(vs[i], f) => IsIssued(is, f)
    BY <1>1, <1>2 DEF Good, FromIssued
  <2> QED BY <1>4, <2>1 DEF Good, FromIssued
<1>7. Numbered(d) /\ Kept(d, is, o)
  BY <1>4 DEF Good, Numbered, Kept
<1>8. StoredFirst(d, o) /\ SetBack(e, d, o, w) /\ Since(e, d.last, d, o, w)
  BY <1>4 DEF Good, StoredFirst, SetBack, Since
<1>9. Listening(e, d, vs[d.stream], o, w)
  BY <1>1, <1>2, <1>3 DEF Listening
<1>10. ResultsStored(vs, o) /\ GotStored(d, o)
  BY <1>1, <1>3 DEF Good, ResultsStored, GotStored
<1> QED BY <1>5, <1>6, <1>7, <1>8, <1>9, <1>10 DEF Good, vs

\* The client makes the frame f and keeps it
LEMMA GoodIssue ==
  ASSUME NEW e, NEW c, NEW ss, NEW is, NEW rt, NEW o, NEW w, NEW f \in Frame, NEW d,
         Good(e, c, ss, is, rt, o, w), \A x \in o : x.seq \in Nat, w.last \in Nat,
         c.pc = "idle", f.key = Len(is) + 1, f.seq = NextSeq(c), d = Pending(c, f)
  PROVE  Good(e, d, ss, Append(is, f), rt, o, w)
<1> DEFINE js == Append(is, f)
<1>0. c \in ClientState /\ c.pending \in Seq(Frame) /\ c.last \in Nat /\ is \in Seq(Frame)
  BY DEF Good, Typed, ClientState
<1>1. /\ js \in Seq(Frame) /\ DOMAIN js = DOMAIN is \cup {f.key} /\ js[f.key] = f
      /\ f.key \notin DOMAIN is /\ \A k \in DOMAIN is : js[k] = is[k]
  BY <1>0
<1>2. /\ d \in ClientState /\ d.pending = Append(c.pending, f) /\ d.own = f.key
      /\ d.pc = "idle" /\ d.then = c.then /\ d.last = c.last /\ d.got = c.got
      /\ d.stream = c.stream
  <2>1. Append(c.pending, f) \in Seq(Frame) /\ f.key \in Nat
    BY <1>0 DEF Frame
  <2> QED BY <1>0, <2>1 DEF Pending, ClientState
<1>3. \A g : Held(d, g) <=> Held(c, g) \/ g = f
  BY <1>0, <1>2, InSeqAppend DEF Held
<1>4. \A g \in Frame : g.seq \in Nat
  BY DEF Frame
<1>5. c.last < f.seq /\ \A i \in DOMAIN c.pending : c.pending[i].seq < f.seq
  <2>1. \A i \in DOMAIN c.pending : c.pending[i].seq \in Nat
    BY <1>0, <1>4
  <2>2. \A i \in DOMAIN c.pending : c.pending # <<>> /\ i <= Len(c.pending)
                                      /\ Len(c.pending) \in DOMAIN c.pending
    BY <1>0
  <2>3. \A i \in DOMAIN c.pending : c.pending[i].seq <= c.pending[Len(c.pending)].seq
    <3> SUFFICES ASSUME NEW i \in DOMAIN c.pending
                 PROVE  c.pending[i].seq <= c.pending[Len(c.pending)].seq
      OBVIOUS
    <3>1. i = Len(c.pending) \/ i < Len(c.pending)
      BY <1>0
    <3> QED BY <2>1, <2>2, <3>1 DEF Good, Numbered, InAscent
  <2>4. CASE c.pending = <<>>
    BY <1>0, <2>4 DEF NextSeq
  <2>5. CASE c.pending # <<>>
    <3>1. c.pending[Len(c.pending)].seq \in Nat
      <4>1. Len(c.pending) \in DOMAIN c.pending
        BY <1>0, <2>5
      <4> QED BY <2>1, <4>1
    <3>2. c.last < f.seq /\ c.pending[Len(c.pending)].seq < f.seq
      BY <1>0, <2>5, <3>1 DEF NextSeq
    <3> QED BY <1>4, <2>1, <2>3, <3>1, <3>2
  <2> QED BY <2>4, <2>5
<1>6. \A g \in Frame : Held(c, g) => g.seq < f.seq
  BY <1>5 DEF Held, InSeq
<1> HIDE DEF js
<1>7. Typed(d, ss, js) /\ Shape(d, ss, js)
  BY <1>1, <1>2 DEF Good, Typed, Shape
<1>8. FromIssued(d, ss, js, o)
  <2>1. \A g \in Frame : IsIssued(is, g) => IsIssued(js, g)
    BY <1>1 DEF IsIssued
  <2>2. IsIssued(js, f)
    BY <1>1 DEF IsIssued
  <2> QED BY <1>1, <1>3, <2>1, <2>2 DEF Good, FromIssued
<1>9. Numbered(d)
  <2>1. InAscent(d.pending)
    <3> SUFFICES ASSUME NEW i \in 1..(Len(c.pending) + 1), NEW j \in 1..(Len(c.pending) + 1), i < j
                 PROVE  d.pending[i].seq < d.pending[j].seq
      BY <1>0, <1>2 DEF InAscent
    <3>1. i \in DOMAIN c.pending /\ d.pending[i] = c.pending[i]
      BY <1>0, <1>2
    <3>2. CASE j \in DOMAIN c.pending
      <4>1. d.pending[j] = c.pending[j]
        BY <1>0, <1>2, <3>2
      <4> QED BY <3>1, <3>2, <4>1 DEF Good, Numbered, InAscent
    <3>3. CASE j \notin DOMAIN c.pending
      <4>1. d.pending[j] = f
        BY <1>0, <1>2, <3>3
      <4> QED BY <1>5, <3>1, <4>1
    <3> QED BY <3>2, <3>3
  <2>2. f.seq >= 1
    BY <1>0, <1>4, <1>5
  <2> QED BY <1>3, <2>1, <2>2 DEF Good, Numbered
<1>10. Kept(d, js, o)
  BY <1>1, <1>3 DEF Good, Kept
<1>11. ~Own(o, f.key)
  BY <1>1 DEF Good, FromIssued, Own
<1>12. StoredFirst(d, o)
  <2> SUFFICES ASSUME NEW a \in Frame, NEW b \in Frame, Held(d, a), Held(d, b), b.seq < a.seq,
                      Own(o, a.key)
               PROVE  Own(o, b.key)
    BY DEF StoredFirst
  <2>1. Held(c, a) /\ Held(c, b)
    BY <1>3, <1>4, <1>6, <1>11
  <2> QED BY <2>1 DEF Good, StoredFirst
<1>13. SetBack(e, d, o, w)
  <2> SUFFICES ASSUME NEW g \in Frame, NEW x \in o, Held(d, g), x.seq = g.seq, x.key # g.key,
                      w.epoch = e
               PROVE  w.last < g.seq
    BY DEF SetBack
  <2>1. CASE Held(c, g)
    BY <2>1 DEF Good, SetBack
  <2>2. CASE g = f
    <3>1. SUFFICES ASSUME ~(w.last < f.seq) PROVE FALSE
      BY <2>2
    <3>2. c.last < x.seq /\ x.seq <= w.last
      BY <1>5, <2>2, <3>1
    <3>3. PICK h \in Frame : Held(c, h) /\ h.key = x.key
      BY <3>2 DEF Good, Since
    <3>4. h.seq = x.seq
      BY <3>3 DEF Good, FromIssued, IsIssued
    <3> QED BY <1>4, <1>6, <2>2, <3>3, <3>4
  <2> QED BY <1>3, <2>1, <2>2
<1>14. Since(e, d.last, d, o, w)
  BY <1>2, <1>3 DEF Good, Since
<1>15. d.stream # 0 => Listening(e, d, ss[d.stream], o, w)
  <2> SUFFICES ASSUME c.stream # 0
               PROVE  Listening(e, d, ss[c.stream], o, w)
    BY <1>2
  <2>0. Listening(e, c, ss[c.stream], o, w)
    BY DEF Good
  <2>1. ASSUME NEW g \in Frame, Sends(ss[c.stream], g)
        PROVE  \/ Held(d, g)
               \/ g.seq <= d.last /\ \A h \in Frame : Held(d, h) => g.seq < h.seq
    <3>1. CASE Held(c, g)
      BY <1>3, <3>1
    <3>2. CASE g.seq <= c.last /\ \A h \in Frame : Held(c, h) => g.seq < h.seq
      BY <1>0, <1>2, <1>3, <1>4, <1>5, <3>2
    <3> QED BY <2>0, <2>1, <3>1, <3>2 DEF Listening
  <2>2. ASSUME NEW n \in Nat, Says(ss[c.stream], Ack(n))
        PROVE  /\ \A g \in Frame : Held(d, g) /\ g.seq <= n => Own(o, g.key)
               /\ n <= d.last \/ \E g \in Frame : Held(d, g) /\ n <= g.seq
    <3>1. n <= c.last \/ \E g \in Frame : Held(c, g) /\ n <= g.seq
      BY <2>0, <2>2 DEF Listening
    <3>2. n < f.seq
      BY <1>0, <1>4, <1>5, <1>6, <3>1
    <3>3. \A g \in Frame : Held(c, g) /\ g.seq <= n => Own(o, g.key)
      BY <2>0, <2>2 DEF Listening
    <3>4. \A g \in Frame : Held(d, g) /\ g.seq <= n => Held(c, g)
      BY <1>3, <1>4, <3>2
    <3> QED BY <1>2, <1>3, <3>1, <3>3, <3>4
  <2> QED BY <1>2, <2>1, <2>2 DEF Listening
<1>16. CallsStored(rt, js, o)
  BY <1>1 DEF Good, CallsStored
<1>17. GotStored(d, o)
  BY <1>2 DEF Good, Shape, GotStored
<1> QED BY <1>7, <1>8, <1>9, <1>10, <1>12, <1>13, <1>14, <1>15, <1>16, <1>17 DEF Good, js

\* The hello is answered: n is the last number the server has
Greeted(c, n) == [c EXCEPT !.last = n, !.then = "none",
                           !.pc = IF c.then = "read" THEN "read" ELSE "idle"]

\* A resume number drops from the buffer what is stored, and nothing else.
LEMMA GoodHelloReturn ==
  ASSUME NEW e, NEW c, NEW ss, NEW is, NEW rt, NEW o, NEW w, NEW n \in Nat,
         Good(e, c, ss, is, rt, o, w),
         c.pc = "hello", Says(ss[c.stream], HelloAccepted(n))
  PROVE  Good(e, Greeted(c, n), ss, is, rt, o, w)
<1> DEFINE d == Greeted(c, n)
<1>0. /\ d \in ClientState /\ d.pending = c.pending /\ d.last = n /\ d.then = "none"
      /\ d.pc \in {"read", "idle"} /\ (d.pc = "read" => c.then = "read")
      /\ d.own = c.own /\ d.got = c.got /\ d.stream = c.stream
  BY DEF Good, Typed, ClientState, Greeted
<1> HIDE DEF d
<1>1. \A f : Held(d, f) <=> Held(c, f)
  BY <1>0 DEF Held
<1>2. c.stream # 0 /\ Listening(e, c, ss[c.stream], o, w)
  BY DEF Good, Shape
<1>3. Typed(d, ss, is) /\ Shape(d, ss, is)
  BY <1>0 DEF Good, Typed, Shape
<1>4. FromIssued(d, ss, is, o) /\ Numbered(d) /\ Kept(d, is, o)
  BY <1>0, <1>1 DEF Good, FromIssued, Numbered, Kept
<1>5. StoredFirst(d, o) /\ SetBack(e, d, o, w)
  BY <1>1 DEF Good, StoredFirst, SetBack
<1>6. Since(e, d.last, d, o, w)
  BY <1>0, <1>1, <1>2 DEF Listening, Since
<1>7. Listening(e, d, ss[d.stream], o, w)
  BY <1>0, <1>2 DEF Listening
<1>8. GotStored(d, o)
  BY <1>0 DEF Good, GotStored
<1> QED BY <1>3, <1>4, <1>5, <1>6, <1>7, <1>8 DEF Good, d

\* The number n is acknowledged
LEMMA GoodAck ==
  ASSUME NEW e, NEW c, NEW ss, NEW is, NEW rt, NEW o, NEW w, NEW n \in Nat,
         Good(e, c, ss, is, rt, o, w), \A x \in o : x.seq \in Nat,
         c.pc # "hello", c.stream # 0, Says(ss[c.stream], Ack(n))
  PROVE  Good(e, Acked(c, n), ss, is, rt, o, w)
<1> DEFINE d == Acked(c, n)
<1>0. c \in ClientState /\ c.pending \in Seq(Frame) /\ c.last \in Nat /\ c.then = "none"
  BY DEF Good, Typed, ClientState, Shape
<1>1. /\ Unacked(c.pending, n) \in Seq(Frame) /\ InAscent(Unacked(c.pending, n))
      /\ \A f : InSeq(Unacked(c.pending, n), f) <=> InSeq(c.pending, f) /\ f.seq > n
  BY <1>0, UnackedByNumber DEF Good, Numbered
<1>2. /\ d \in ClientState /\ d.pending = Unacked(c.pending, n) /\ d.own = 0 /\ ~d.got
      /\ d.pc = "idle" /\ d.then = "none" /\ d.stream = c.stream
      /\ d.last = IF n > c.last THEN n ELSE c.last
  <2>1. (IF n > c.last THEN n ELSE c.last) \in Nat /\ 0 \in 0..(Tries - 1)
    BY <1>0, StreamAssumption
  <2> QED BY <1>0, <1>1, <2>1 DEF Acked, StillPending, ClientState
<1> HIDE DEF d
<1>3. \A f : Held(d, f) <=> Held(c, f) /\ f.seq > n
  BY <1>1, <1>2 DEF Held
<1>4. \A f \in Frame : f.seq \in Nat
  BY DEF Frame
<1>5. d.last \in Nat /\ n <= d.last /\ c.last <= d.last /\ (d.last = n \/ d.last = c.last)
  BY <1>0, <1>2
<1>6. Listening(e, c, ss[c.stream], o, w)
  BY DEF Good
<1>7. Typed(d, ss, is) /\ Shape(d, ss, is)
  BY <1>2 DEF Good, Typed, Shape
<1>8. FromIssued(d, ss, is, o) /\ Numbered(d)
  BY <1>1, <1>2, <1>3 DEF Good, FromIssued, Numbered
<1>9. Kept(d, is, o)
  <2> SUFFICES ASSUME NEW k \in DOMAIN is, ~Own(o, k)
               PROVE  \E f \in Frame : Held(d, f) /\ f.key = k
    BY DEF Kept
  <2>1. PICK f \in Frame : Held(c, f) /\ f.key = k
    BY DEF Good, Kept
  <2>2. ~(f.seq <= n)
    BY <1>6, <2>1 DEF Listening
  <2> QED BY <1>3, <1>4, <2>1, <2>2
<1>10. StoredFirst(d, o) /\ SetBack(e, d, o, w)
  BY <1>3 DEF Good, StoredFirst, SetBack
<1>11. Since(e, d.last, d, o, w)
  <2> SUFFICES ASSUME w.epoch = e, NEW x \in o, d.last < x.seq, x.seq <= w.last
               PROVE  \E f \in Frame : Held(d, f) /\ f.key = x.key
    BY DEF Since
  <2>1. c.last < x.seq /\ n < x.seq
    BY <1>0, <1>5
  <2>2. PICK f \in Frame : Held(c, f) /\ f.key = x.key
    BY <2>1 DEF Good, Since
  <2>3. f.seq = x.seq
    BY <2>2 DEF Good, FromIssued, IsIssued
  <2> QED BY <1>3, <2>1, <2>2, <2>3
<1>12. Listening(e, d, ss[d.stream], o, w)
  <2> DEFINE t == ss[c.stream]
  <2>1. ASSUME NEW f \in Frame, Sends(t, f)
        PROVE  Held(d, f) \/ (f.seq <= d.last /\ \A g \in Frame : Held(d, g) => f.seq < g.seq)
    <3>1. CASE Held(c, f)
      BY <1>3, <1>4, <1>5, <3>1
    <3>2. CASE f.seq <= c.last /\ \A g \in Frame : Held(c, g) => f.seq < g.seq
      BY <1>0, <1>3, <1>4, <1>5, <3>2
    <3> QED BY <1>6, <2>1, <3>1, <3>2 DEF Listening
  <2>2. ASSUME NEW m \in Nat, Says(t, Ack(m))
        PROVE  /\ \A g \in Frame : Held(d, g) /\ g.seq <= m => Own(o, g.key)
               /\ m <= d.last \/ \E g \in Frame : Held(d, g) /\ m <= g.seq
    <3>1. \A g \in Frame : Held(d, g) /\ g.seq <= m => Own(o, g.key)
      BY <1>3, <1>6, <2>2 DEF Listening
    <3>2. m <= c.last \/ \E g \in Frame : Held(c, g) /\ m <= g.seq
      BY <1>6, <2>2 DEF Listening
    <3>3. m <= d.last \/ \E g \in Frame : Held(d, g) /\ m <= g.seq
      BY <1>0, <1>3, <1>4, <1>5, <3>2
    <3> QED BY <3>1, <3>3
  <2> QED BY <1>2, <2>1, <2>2 DEF Listening
<1>13. GotStored(d, o)
  BY <1>2 DEF GotStored
<1> QED BY <1>7, <1>8, <1>9, <1>10, <1>11, <1>12, <1>13 DEF Good, d

\* A send or a call returns
LEMMA GoodReturn ==
  ASSUME NEW e, NEW c, NEW ss, NEW is, NEW rt, NEW o, NEW w,
         Good(e, c, ss, is, rt, o, w), c.pc = "read" \/ c.got
  PROVE  Good(e, c, ss, is, rt \cup {c.own}, o, w)
<1>1. c.own \in DOMAIN is /\ (is[c.own].call => Own(o, c.own))
  BY DEF Good, Shape, GotStored, FromIssued, Own
<1>2. CallsStored(rt \cup {c.own}, is, o)
  BY <1>1 DEF Good, CallsStored
<1> QED BY <1>2 DEF Good

-----------------------------------------------------------------------------
(* The streams                                                              *)

\* Sequences of one and two.
LEMMA InSeqFew ==
  /\ \A a, x : InSeq(<<a>>, x) <=> x = a
  /\ \A a, b, x : InSeq(<<a, b>>, x) <=> x = a \/ x = b
<1>1. \A a : DOMAIN <<a>> = {1} /\ <<a>>[1] = a
  OBVIOUS
<1>2. \A a, b : DOMAIN <<a, b>> = {1, 2} /\ <<a, b>>[1] = a /\ <<a, b>>[2] = b
  OBVIOUS
<1> QED BY <1>1, <1>2 DEF InSeq

\* Responses of different kinds are different.
LEMMA ResponseKinds ==
  /\ \A n \in Nat : HelloAccepted(n) \in Downward /\ Ack(n) \in Downward
                    /\ Refusal(n) \in Downward /\ Result(n) \in Downward
  /\ \A m, n : /\ HelloAccepted(m) # Ack(n) /\ HelloAccepted(m) # Refusal(n)
               /\ HelloAccepted(m) # Result(n) /\ Ack(m) # Refusal(n) /\ Ack(m) # Result(n)
               /\ Refusal(m) # Result(n)
  /\ \A m, n : /\ HelloAccepted(m) = HelloAccepted(n) => m = n
               /\ Ack(m) = Ack(n) => m = n
               /\ Result(m) = Result(n) => m = n
  /\ \A r \in Downward : /\ r.type = "hello_accepted" => r.seq \in Nat /\ r = HelloAccepted(r.seq)
                         /\ r.type = "ack" => r.seq \in Nat /\ r = Ack(r.seq)
                         /\ r.type = "result" => r.key \in Nat /\ r = Result(r.key)
<1>1. \A n \in Nat : HelloAccepted(n) \in Downward /\ Ack(n) \in Downward
                     /\ Refusal(n) \in Downward /\ Result(n) \in Downward
  BY DEF HelloAccepted, Ack, Refusal, Result, Downward
<1>2. \A n : /\ HelloAccepted(n).type = "hello_accepted" /\ HelloAccepted(n).seq = n
             /\ Ack(n).type = "ack" /\ Ack(n).seq = n
             /\ Refusal(n).type = "error" /\ Result(n).type = "result" /\ Result(n).key = n
  BY DEF HelloAccepted, Ack, Refusal, Result
<1>3. ASSUME NEW r \in Downward
      PROVE  /\ r.type = "hello_accepted" => r.seq \in Nat /\ r = HelloAccepted(r.seq)
             /\ r.type = "ack" => r.seq \in Nat /\ r = Ack(r.seq)
             /\ r.type = "result" => r.key \in Nat /\ r = Result(r.key)
  BY DEF HelloAccepted, Ack, Refusal, Result, Downward
<1> QED BY <1>1, <1>2, <1>3

\* Only what is to be written is written.
LEMMA WritesEach ==
  ASSUME NEW p \in Seq(Frame), NEW f
  PROVE  /\ Writes(p) \in Seq(Upward)
         /\ InSeq(Writes(p), [type |-> "frame", frame |-> f]) => InSeq(p, f)
<1>1. \A i \in DOMAIN p : [type |-> "frame", frame |-> p[i]] \in Upward
  BY DEF Upward
<1>2. DOMAIN Writes(p) = 1..Len(p) /\ Len(p) \in Nat
      /\ \A i \in DOMAIN p : Writes(p)[i] = [type |-> "frame", frame |-> p[i]]
  BY DEF Writes
<1>3. Writes(p) \in Seq(Upward)
  BY <1>1 DEF Writes
<1>4. \A i \in DOMAIN p : [type |-> "frame", frame |-> p[i]].frame = p[i]
  OBVIOUS
<1>5. InSeq(Writes(p), [type |-> "frame", frame |-> f]) => InSeq(p, f)
  <2> SUFFICES ASSUME NEW i \in DOMAIN p, Writes(p)[i] = [type |-> "frame", frame |-> f]
               PROVE  p[i] = f
    BY <1>2 DEF InSeq
  <2>1. [type |-> "frame", frame |-> p[i]] = [type |-> "frame", frame |-> f]
    BY <1>2
  <2>2. [type |-> "frame", frame |-> f].frame = f
    OBVIOUS
  <2> QED BY <1>4, <2>1, <2>2
<1> QED BY <1>3, <1>5

\* The client writes the frames p
Wrote(t, p) == [t EXCEPT !.up = @ \o Writes(p)]

\* A stream carries what was written to it and what it carried.
LEMMA StreamWritten ==
  ASSUME NEW t \in StreamState, NEW p \in Seq(Frame)
  PROVE  /\ Wrote(t, p) \in StreamState /\ Wrote(t, p).down = t.down
         /\ \A f \in Frame : Sends(Wrote(t, p), f) => Sends(t, f) \/ InSeq(p, f)
<1> DEFINE u == Wrote(t, p)
<1>1. t.up \in Seq(Upward) /\ Writes(p) \in Seq(Upward)
  BY WritesEach DEF StreamState
<1>2. t.up \o Writes(p) \in Seq(Upward)
  BY <1>1
<1>3. u \in StreamState /\ u.down = t.down /\ u.up = t.up \o Writes(p)
  BY <1>2 DEF StreamState, Wrote
<1> HIDE DEF u
<1>4. ASSUME NEW f \in Frame, Sends(u, f)
      PROVE  Sends(t, f) \/ InSeq(p, f)
  <2>1. InSeq(t.up, [type |-> "frame", frame |-> f])
        \/ InSeq(Writes(p), [type |-> "frame", frame |-> f])
    BY <1>1, <1>3, <1>4, InSeqJoin DEF Sends
  <2> QED BY <2>1, WritesEach DEF Sends
<1> QED BY <1>3, <1>4 DEF u

\* ... and takes a response
LEMMA StreamConsumed ==
  ASSUME NEW t \in StreamState, NEW p \in Seq(Frame), t.down # <<>>
  PROVE  /\ Read(t, p) \in StreamState
         /\ \A f \in Frame : Sends(Read(t, p), f) => Sends(t, f) \/ InSeq(p, f)
         /\ \A r : Says(Read(t, p), r) => Says(t, r)
<1> DEFINE v == Wrote(t, p)
           u == Read(t, p)
<1>1. v \in StreamState /\ v.down = t.down /\ \A f \in Frame : Sends(v, f) => Sends(t, f) \/ InSeq(p, f)
  BY StreamWritten
<1>2. u = [v EXCEPT !.down = Tail(@)]
  BY DEF StreamState, Read, Wrote
<1> HIDE DEF v, u
<1>3. t.down \in Seq(Downward)
  BY DEF StreamState
<1>4. Tail(t.down) \in Seq(Downward) /\ \A r : InSeq(Tail(t.down), r) => InSeq(t.down, r)
  BY <1>3, InSeqParts
<1>5. u \in StreamState /\ u.up = v.up /\ u.down = Tail(t.down)
  BY <1>1, <1>2, <1>4 DEF StreamState
<1>6. \A f \in Frame : Sends(u, f) => Sends(t, f) \/ InSeq(p, f)
  BY <1>1, <1>5 DEF Sends
<1>7. \A r : Says(u, r) => Says(t, r)
  BY <1>4, <1>5 DEF Says
<1> QED BY <1>5, <1>6, <1>7 DEF u

\* A handler answers with the responses q
LEMMA StreamReplied ==
  ASSUME NEW t \in StreamState, NEW q \in Seq(Downward),
         NEW b \in {"hello", "insert", "frame", "ended", "failed"}
  PROVE  /\ Reply(t, q, b) \in StreamState /\ Reply(t, q, b).up = t.up
         /\ \A r : Says(Reply(t, q, b), r) => Says(t, r) \/ InSeq(q, r)
<1> DEFINE u == Reply(t, q, b)
<1>1. t.down \in Seq(Downward)
  BY DEF StreamState
<1>2. t.down \o q \in Seq(Downward) /\ \A r : InSeq(t.down \o q, r) <=> InSeq(t.down, r) \/ InSeq(q, r)
  BY <1>1, InSeqJoin
<1>3. u \in StreamState /\ u.up = t.up /\ (u.down = t.down \/ u.down = t.down \o q)
  BY <1>1, <1>2 DEF Reply, StreamState
<1> HIDE DEF u
<1>4. \A r : Says(u, r) => Says(t, r) \/ InSeq(q, r)
  BY <1>2, <1>3 DEF Says
<1> QED BY <1>3, <1>4 DEF u

\* ... to what it takes
Answered(t, q, b) == Reply(Took(t), q, b)

\* A stream says what the server answered and what it said.
LEMMA StreamAnswered ==
  ASSUME NEW t \in StreamState, t.up # <<>>, NEW q \in Seq(Downward),
         NEW b \in {"hello", "insert", "frame", "ended", "failed"}
  PROVE  /\ Answered(t, q, b) \in StreamState
         /\ \A f \in Frame : Sends(Answered(t, q, b), f) => Sends(t, f)
         /\ \A r : Says(Answered(t, q, b), r) => Says(t, r) \/ InSeq(q, r)
<1> DEFINE v == Took(t)
           u == Answered(t, q, b)
<1>1. Tail(t.up) \in Seq(Upward) /\ \A x : InSeq(Tail(t.up), x) => InSeq(t.up, x)
  <2>1. t.up \in Seq(Upward)
    BY DEF StreamState
  <2> QED BY <2>1, InSeqParts
<1>2. v \in StreamState /\ v.up = Tail(t.up) /\ v.down = t.down
  BY <1>1 DEF StreamState, Took
<1>3. u = Reply(v, q, b)
  BY DEF Answered
<1> HIDE DEF v, u
<1>4. u \in StreamState /\ u.up = v.up /\ \A r : Says(u, r) => Says(v, r) \/ InSeq(q, r)
  BY <1>2, <1>3, StreamReplied
<1>5. \A f \in Frame : Sends(u, f) => Sends(t, f)
  BY <1>1, <1>2, <1>4 DEF Sends
<1>6. \A r : Says(u, r) => Says(t, r) \/ InSeq(q, r)
  BY <1>2, <1>4 DEF Says
<1> QED BY <1>4, <1>5, <1>6 DEF u

\* A stream breaks, or its handler ends: nothing is added
LEMMA StreamBroken ==
  ASSUME NEW t \in StreamState, NEW u \in Broken(t)
  PROVE  /\ u \in StreamState
         /\ \A f \in Frame : Sends(u, f) => Sends(t, f)
         /\ \A r : ~Says(u, r)
<1>1. PICK n \in 0..Len(t.up) :
        u = [t EXCEPT !.open = FALSE, !.down = <<>>, !.up = SubSeq(@, 1, n)]
  BY DEF Broken
<1>2. SubSeq(t.up, 1, n) \in Seq(Upward) /\ \A x : InSeq(SubSeq(t.up, 1, n), x) => InSeq(t.up, x)
  <2>1. t.up \in Seq(Upward)
    BY DEF StreamState
  <2> QED BY <2>1, InSeqParts
<1>3. u \in StreamState /\ u.up = SubSeq(t.up, 1, n) /\ u.down = <<>>
  <2> DEFINE p == SubSeq(t.up, 1, n)
  <2>1. <<>> \in Seq(Downward) /\ p \in Seq(Upward)
    BY <1>2
  <2>2. u = [t EXCEPT !.open = FALSE, !.down = <<>>, !.up = p]
    BY <1>1
  <2> HIDE DEF p
  <2>3. u \in StreamState /\ u.up = p /\ u.down = <<>>
    BY <2>1, <2>2 DEF StreamState
  <2> QED BY <2>3 DEF p
<1> QED BY <1>2, <1>3, InSeqParts DEF Sends, Says, InSeq

-----------------------------------------------------------------------------
(* The invariant of all attempts                                            *)

GoodAt(e) == Good(e, client[e], stream[e], issued[e], returned[e], OfEpoch(e), row)
StreamInv == OrderInv /\ TypeOK /\ \A e \in Attempt : GoodAt(e)

LEMMA InitStream == Init => StreamInv
<1> SUFFICES ASSUME Init PROVE StreamInv
  OBVIOUS
<1>0. 0 \in 0..(Tries - 1) /\ MaxBreaks \in Nat /\ 0 \in 0..MaxBreaks
  BY StreamAssumption
<1>1. ClientIdle \in ClientState
  BY <1>0 DEF ClientIdle, ClientState
<1>2. TypeOK
  BY <1>0, <1>1 DEF Init, TypeOK
<1>3. ASSUME NEW e \in Attempt
      PROVE  GoodAt(e)
  <2> DEFINE c == ClientIdle
  <2>1. client[e] = c /\ stream[e] = <<>> /\ issued[e] = <<>> /\ returned[e] = {}
        /\ OfEpoch(e) = {} /\ row = [epoch |-> 0, last |-> 0]
    BY DEF Init, OfEpoch
  <2>2. \A f : ~Held(c, f)
    BY DEF Held, InSeq, ClientIdle
  <2>3. Typed(c, <<>>, <<>>) /\ Shape(c, <<>>, <<>>) /\ c.stream = 0 /\ InAscent(c.pending)
    BY <1>1 DEF Typed, Shape, InAscent, ClientIdle
  <2>4. FromIssued(c, <<>>, <<>>, {}) /\ Numbered(c) /\ Distinct({}) /\ Kept(c, <<>>, {})
    BY <2>2, <2>3 DEF FromIssued, Numbered, Distinct, Kept
  <2>5. /\ StoredFirst(c, {}) /\ SetBack(e, c, {}, row) /\ Since(e, c.last, c, {}, row)
        /\ ResultsStored(<<>>, {}) /\ GotStored(c, {}) /\ CallsStored({}, <<>>, {})
    BY <2>2 DEF StoredFirst, SetBack, Since, ResultsStored, GotStored, CallsStored, ClientIdle
  <2> QED BY <2>1, <2>3, <2>4, <2>5 DEF GoodAt, Good
<1> QED BY <1>2, <1>3, InitOrder DEF StreamInv

\* The rows of an attempt are numbered without gaps up to the last one
LEMMA AttemptRows ==
  ASSUME StreamInv, NEW e \in Attempt
  PROVE  RowsOK(e, OfEpoch(e), row)
<1>1. OfEpoch(e) \subseteq RowOf(e)
  BY DEF OfEpoch, RowOf, StreamInv, TypeOK, AcceptedRow
<1>2. row \in RunRow
  BY DEF StreamInv, OrderInv, RowOK, RunRow
<1>3. \A x \in OfEpoch(e) : \A k \in 1..x.seq : \E y \in OfEpoch(e) : y.seq = k
  BY DEF OfEpoch, StreamInv, OrderInv, GapFree, Taken
<1>4. row.epoch = e => \A k \in 1..row.last : \E y \in OfEpoch(e) : y.seq = k
  BY DEF OfEpoch, StreamInv, OrderInv, NewestRow, Taken
<1> QED BY <1>1, <1>2, <1>3, <1>4 DEF RowsOK

\* A step of the attempt e leaves it good, and another attempt sees at most a newer row
NextGood(e) ==
  Good(e, client'[e], stream'[e], issued'[e], returned'[e], OfEpoch(e)', row')

\* The values after a step, taken together again.
LEMMA NextGoodAt ==
  ASSUME NEW e, NextGood(e)
  PROVE  GoodAt(e)'
BY DEF NextGood, GoodAt, Good, Typed, Shape, FromIssued, IsIssued, Numbered, Distinct, Kept,
       StoredFirst, SetBack, Since, Listening, ResultsStored, GotStored, CallsStored, Held, Own,
       Sends, Says, InSeq, InAscent, OfEpoch

Becomes(e, c, ss, is, rt) ==
  /\ client' = [client EXCEPT ![e] = c] /\ stream' = [stream EXCEPT ![e] = ss]
  /\ issued' = [issued EXCEPT ![e] = is] /\ returned' = [returned EXCEPT ![e] = rt]

\* A step of one attempt: it is enough to look at that attempt.
LEMMA OneAttempt ==
  ASSUME StreamInv, OrderInv', NEW e \in Attempt, NEW c, NEW ss, NEW is, NEW rt,
         Good(e, c, ss, is, rt, OfEpoch(e)', row'),
         Becomes(e, c, ss, is, rt),
         accepted' \subseteq AcceptedRow, outbox' \in Seq(AcceptedRow), late' \subseteq Attempt,
         breaks' \in 0..MaxBreaks, row' \in [epoch : Attempt \cup {0}, last : Nat],
         \A a \in Attempt \ {e} : OfEpoch(a)' = OfEpoch(a),
         row' = row \/ row'.epoch = e
  PROVE  StreamInv'
<1>1. /\ client \in [Attempt -> ClientState] /\ stream \in [Attempt -> Seq(StreamState)]
      /\ issued \in [Attempt -> Seq(Frame)] /\ returned \in [Attempt -> SUBSET Nat]
  BY DEF StreamInv, TypeOK
<1>2. /\ client'[e] = c /\ stream'[e] = ss /\ issued'[e] = is /\ returned'[e] = rt
      /\ \A a \in Attempt \ {e} : /\ client'[a] = client[a] /\ stream'[a] = stream[a]
                                  /\ issued'[a] = issued[a] /\ returned'[a] = returned[a]
  BY <1>1 DEF Becomes
<1>3. c \in ClientState /\ ss \in Seq(StreamState) /\ is \in Seq(Frame) /\ rt \subseteq Nat
  BY DEF Good, Typed, CallsStored
<1>4. TypeOK'
  BY <1>1, <1>3 DEF TypeOK, Becomes
<1>5. NextGood(e)
  BY <1>2 DEF NextGood
<1>6. ASSUME NEW a \in Attempt \ {e}
      PROVE  NextGood(a)
  <2>1. Good(a, client[a], stream[a], issued[a], returned[a], OfEpoch(a), row)
        /\ RowsOK(a, OfEpoch(a), row)
    BY AttemptRows DEF StreamInv, GoodAt
  <2>2. Good(a, client[a], stream[a], issued[a], returned[a], OfEpoch(a), row')
    <3>1. CASE row' = row
      BY <2>1, <3>1
    <3>2. CASE row'.epoch # a
      BY <2>1, <3>2, GoodHello
    <3> QED BY <3>1, <3>2
  <2> QED BY <1>2, <2>2 DEF NextGood
<1>7. \A a \in Attempt : GoodAt(a)'
  BY <1>5, <1>6, NextGoodAt
<1> QED BY <1>4, <1>7 DEF StreamInv

\* ... when the database does not change
LEMMA OneClient ==
  ASSUME StreamInv, UNCHANGED <<late, db>>, breaks' \in 0..MaxBreaks,
         NEW e \in Attempt, NEW c, NEW ss, NEW is, NEW rt,
         Good(e, c, ss, is, rt, OfEpoch(e), row),
         Becomes(e, c, ss, is, rt)
  PROVE  StreamInv'
<1>1. OrderInv'
  BY OrderStutters DEF StreamInv
<1>2. late' = late /\ row' = row /\ accepted' = accepted /\ outbox' = outbox
  BY DEF db
<1>3. \A a \in Attempt : OfEpoch(a)' = OfEpoch(a)
  BY <1>2 DEF OfEpoch
<1>4. Good(e, c, ss, is, rt, OfEpoch(e)', row')
  BY <1>2, <1>3
<1>5. /\ accepted' \subseteq AcceptedRow /\ outbox' \in Seq(AcceptedRow) /\ late' \subseteq Attempt
      /\ row' \in [epoch : Attempt \cup {0}, last : Nat]
  BY <1>2 DEF StreamInv, TypeOK
<1> HIDE DEF db
<1> QED BY <1>1, <1>2, <1>3, <1>4, <1>5, OneAttempt

\* What did not change
LEMMA SameAttempt ==
  ASSUME StreamInv, NEW e \in Attempt, UNCHANGED <<client, issued, returned>>, NEW ss,
         stream' = [stream EXCEPT ![e] = ss]
  PROVE  Becomes(e, client[e], ss, issued[e], returned[e])
  BY DEF StreamInv, TypeOK, Becomes

-----------------------------------------------------------------------------
(* The steps of the server and of the network                               *)

\* A hello, answered by a refusal or by the last number of the row
LEMMA StreamGreeted ==
  ASSUME StreamInv, OrderInv', NEW e \in Attempt, NEW s \in DOMAIN stream[e], NEW u \in StreamState,
         stream' = [stream EXCEPT ![e][s] = u],
         UNCHANGED <<accepted, outbox, client, issued, returned, breaks>>,
         late' \subseteq Attempt, row' \in [epoch : Attempt \cup {0}, last : Nat],
         row' = row \/ row' = [epoch |-> e, last |-> 0],
         \A f \in Frame : Sends(u, f) => Sends(stream[e][s], f),
         \A r : Says(u, r) =>
           \/ Says(stream[e][s], r) \/ r = Refusal(0)
           \/ row'.epoch = e /\ r = HelloAccepted(row'.last)
  PROVE  StreamInv'
<1> DEFINE ss == stream[e]
           o == OfEpoch(e)
<1>1. /\ Good(e, client[e], ss, issued[e], returned[e], o, row) /\ RowsOK(e, o, row)
      /\ \A x \in o : x.seq \in Nat
  BY AttemptRows DEF StreamInv, GoodAt, RowsOK, RowOf
<1>2. Good(e, client[e], ss, issued[e], returned[e], o, row')
  <2>1. CASE row' = row
    BY <1>1, <2>1
  <2>2. CASE row' = [epoch |-> e, last |-> 0]
    <3>1. row'.last = 0
      BY <2>2
    <3> QED BY <1>1, <3>1, GoodHello
  <2> QED BY <2>1, <2>2
<1>3. Since(e, row'.last, client[e], o, row')
  <2>1. row'.last \in Nat
    OBVIOUS
  <2> QED BY <1>1, <2>1 DEF Since
<1>4. /\ \A n \in Nat : Says(u, HelloAccepted(n)) =>
           Says(ss[s], HelloAccepted(n)) \/ Since(e, n, client[e], o, row')
      /\ \A n \in Nat : Says(u, Ack(n)) => Says(ss[s], Ack(n))
      /\ \A n \in Nat : Says(u, Result(n)) => Says(ss[s], Result(n))
  BY <1>3, ResponseKinds
<1>5. Good(e, client[e], [ss EXCEPT ![s] = u], issued[e], returned[e], o, row')
  <2> HIDE DEF o, ss
  <2>1. \A f \in Frame : Sends(u, f) => Sends(ss[s], f)
    BY DEF ss
  <2>2. s \in DOMAIN ss
    BY DEF ss
  <2> QED BY <1>2, <1>4, <2>1, <2>2, GoodStream
<1>6. stream' = [stream EXCEPT ![e] = [ss EXCEPT ![s] = u]]
  OBVIOUS
<1>7. Becomes(e, client[e], [ss EXCEPT ![s] = u], issued[e], returned[e])
  BY <1>6, SameAttempt
<1>8. \A a \in Attempt : OfEpoch(a)' = OfEpoch(a)
  BY DEF OfEpoch
<1>9. /\ accepted' \subseteq AcceptedRow /\ outbox' \in Seq(AcceptedRow)
      /\ breaks' \in 0..MaxBreaks
  BY DEF StreamInv, TypeOK
<1>10. row' = row \/ row'.epoch = e
  OBVIOUS
<1>11. Good(e, client[e], [ss EXCEPT ![s] = u], issued[e], returned[e], OfEpoch(e)', row')
  BY <1>5, <1>8
<1> HIDE DEF ss, o
<1> QED BY <1>7, <1>8, <1>9, <1>10, <1>11, OneAttempt

\* The steps of the platform.
LEMMA StreamActivate ==
  ASSUME StreamInv, NEW e \in Attempt, NEW s \in DOMAIN stream[e], Activate(e, s)
  PROVE  StreamInv'
<1> DEFINE t == stream[e][s]
           v == [Took(t) EXCEPT !.server = "insert"]
           g == Answered(t, <<HelloAccepted(row'.last)>>, "frame")
           h == Answered(t, <<Refusal(0)>>, "ended")
<1>1. OrderInv'
  BY OrderActivate DEF StreamInv
<1>2. t \in StreamState /\ t.up # <<>> /\ t.up \in Seq(Upward)
  <2>1. t \in StreamState
    BY DEF StreamInv, TypeOK
  <2>2. t.up # <<>>
    BY DEF Activate, Receives
  <2> QED BY <2>1, <2>2 DEF StreamState
<1>3. /\ UNCHANGED <<late, accepted, outbox, client, issued, returned, breaks>>
      /\ late' \subseteq Attempt
  BY DEF Activate, StreamInv, TypeOK
<1>4. /\ row' \in [epoch : Attempt \cup {0}, last : Nat]
      /\ row' = row \/ row' = [epoch |-> e, last |-> 0]
  BY DEF Activate, StreamInv, TypeOK
<1>5. row'.last \in Nat
  BY <1>4
<1>6. \/ row'.epoch = e /\ stream' = [stream EXCEPT ![e][s] = g]
      \/ stream' = [stream EXCEPT ![e][s] = h]
      \/ stream' = [stream EXCEPT ![e][s] = v]
  <2>1. CASE /\ row.epoch \in 1..(e - 1)
             /\ row' = [epoch |-> e, last |-> 0]
             /\ Answer(e, s, <<HelloAccepted(0)>>, "frame")
    <3>1. row'.epoch = e /\ row'.last = 0
      BY <2>1
    <3> QED BY <2>1, <3>1 DEF Answer, Answered
  <2>2. CASE /\ row.epoch = e
             /\ Answer(e, s, <<HelloAccepted(row.last)>>, "frame")
             /\ UNCHANGED row
    BY <2>2 DEF Answer, Answered
  <2>3. CASE Answer(e, s, <<Refusal(0)>>, "ended")
    BY <2>3 DEF Answer, Answered
  <2>4. CASE stream' = [stream EXCEPT ![e][s] = [Took(@) EXCEPT !.server = "insert"]]
    BY <2>4
  <2> QED BY <2>1, <2>2, <2>3, <2>4 DEF Activate
<1>7. /\ g \in StreamState
      /\ \A f \in Frame : Sends(g, f) => Sends(t, f)
      /\ \A r : Says(g, r) => Says(t, r) \/ r = HelloAccepted(row'.last)
  <2>1. <<HelloAccepted(row'.last)>> \in Seq(Downward)
    BY <1>5, ResponseKinds
  <2> QED BY <1>2, <2>1, StreamAnswered, InSeqFew
<1>8. /\ h \in StreamState
      /\ \A f \in Frame : Sends(h, f) => Sends(t, f)
      /\ \A r : Says(h, r) => Says(t, r) \/ r = Refusal(0)
  <2>1. <<Refusal(0)>> \in Seq(Downward)
    BY ResponseKinds
  <2> QED BY <1>2, <2>1, StreamAnswered, InSeqFew
<1>9. /\ v \in StreamState
      /\ \A f \in Frame : Sends(v, f) => Sends(t, f)
      /\ \A r : Says(v, r) => Says(t, r)
  <2>1. Tail(t.up) \in Seq(Upward) /\ \A x : InSeq(Tail(t.up), x) => InSeq(t.up, x)
    BY <1>2, InSeqParts
  <2> HIDE DEF t
  <2>2. v \in StreamState /\ v.up = Tail(t.up) /\ v.down = t.down
    BY <1>2, <2>1 DEF StreamState, Took
  <2> HIDE DEF v
  <2> QED BY <2>1, <2>2 DEF Sends, Says
<1> HIDE DEF g, h, v
<1>10. CASE row'.epoch = e /\ stream' = [stream EXCEPT ![e][s] = g]
  BY <1>1, <1>3, <1>4, <1>7, <1>10, StreamGreeted
<1>11. CASE stream' = [stream EXCEPT ![e][s] = h]
  BY <1>1, <1>3, <1>4, <1>8, <1>11, StreamGreeted
<1>12. CASE stream' = [stream EXCEPT ![e][s] = v]
  BY <1>1, <1>3, <1>4, <1>9, <1>12, StreamGreeted
<1> QED BY <1>6, <1>10, <1>11, <1>12

LEMMA StreamInsertRow ==
  ASSUME StreamInv, NEW e \in Attempt, NEW s \in DOMAIN stream[e], InsertRow(e, s)
  PROVE  StreamInv'
<1> DEFINE t == stream[e][s]
           g == Reply(t, <<HelloAccepted(0)>>, "frame")
<1>1. OrderInv'
  BY OrderInsertRow DEF StreamInv
<1>2. t \in StreamState
  BY DEF StreamInv, TypeOK
<1>3. /\ UNCHANGED <<accepted, outbox, client, issued, returned, breaks>>
      /\ late' \subseteq Attempt /\ row' = [epoch |-> e, last |-> 0]
      /\ stream' = [stream EXCEPT ![e][s] = g]
  BY DEF InsertRow, StreamInv, TypeOK
<1>4. row' \in [epoch : Attempt \cup {0}, last : Nat] /\ row'.epoch = e /\ row'.last = 0
  BY <1>3
<1>5. /\ g \in StreamState
      /\ \A f \in Frame : Sends(g, f) => Sends(t, f)
      /\ \A r : Says(g, r) => Says(t, r) \/ r = HelloAccepted(0)
  <2>1. <<HelloAccepted(0)>> \in Seq(Downward)
    BY ResponseKinds
  <2>2. g \in StreamState /\ g.up = t.up /\ \A r : Says(g, r) => Says(t, r) \/ InSeq(<<HelloAccepted(0)>>, r)
    BY <1>2, <2>1, StreamReplied
  <2> QED BY <2>2, InSeqFew DEF Sends
<1> HIDE DEF g
<1> QED BY <1>1, <1>3, <1>4, <1>5, StreamGreeted

\* A stream of the attempt changes and the database does not
LEMMA StreamChanged ==
  ASSUME StreamInv, NEW e \in Attempt, NEW s \in DOMAIN stream[e], NEW u \in StreamState,
         stream' = [stream EXCEPT ![e][s] = u], breaks' \in 0..MaxBreaks,
         UNCHANGED <<late, db, client, issued, returned>>,
         \A f \in Frame : Sends(u, f) => Sends(stream[e][s], f),
         \A n \in Nat : Says(u, HelloAccepted(n)) => Says(stream[e][s], HelloAccepted(n)),
         \A n \in Nat : Says(u, Ack(n)) =>
           \/ Says(stream[e][s], Ack(n))
           \/ \E f \in Frame : Sends(stream[e][s], f) /\ f.seq = n /\ Own(OfEpoch(e), f.key),
         \A k \in Nat : Says(u, Result(k)) =>
           \/ Says(stream[e][s], Result(k))
           \/ Own(OfEpoch(e), k) /\ \E f \in Frame : Sends(stream[e][s], f)
  PROVE  StreamInv'
<1> DEFINE ss == stream[e]
           vs == [ss EXCEPT ![s] = u]
<1>1. Good(e, client[e], ss, issued[e], returned[e], OfEpoch(e), row)
  BY DEF StreamInv, GoodAt
<1>2. Good(e, client[e], vs, issued[e], returned[e], OfEpoch(e), row)
  BY <1>1, GoodStream
<1>3. stream' = [stream EXCEPT ![e] = vs]
  OBVIOUS
<1>4. Becomes(e, client[e], vs, issued[e], returned[e])
  BY <1>3, SameAttempt
<1> HIDE DEF vs, ss
<1> QED BY <1>2, <1>4, OneClient

LEMMA StreamCancelHandler ==
  ASSUME StreamInv, NEW e \in Attempt, NEW s \in DOMAIN stream[e], CancelHandler(e, s)
  PROVE  StreamInv'
<1> DEFINE t == stream[e][s]
           u == [t EXCEPT !.up = <<>>, !.server = "ended"]
<1>1. t \in StreamState
  BY DEF StreamInv, TypeOK
<1>2. u \in StreamState /\ u.up = <<>> /\ u.down = t.down
  <2>1. <<>> \in Seq(Upward)
    OBVIOUS
  <2> QED BY <1>1, <2>1 DEF StreamState
<1>3. stream' = [stream EXCEPT ![e][s] = u] /\ UNCHANGED <<late, db, client, issued, returned, breaks>>
  BY DEF CancelHandler
<1>4. breaks' \in 0..MaxBreaks
  BY <1>3 DEF StreamInv, TypeOK
<1> HIDE DEF u
<1>5. /\ \A f : ~Sends(u, f)
      /\ \A r : Says(u, r) => Says(t, r)
  BY <1>2 DEF Sends, Says, InSeq
<1> QED BY <1>2, <1>3, <1>4, <1>5, StreamChanged

LEMMA StreamBreak ==
  ASSUME StreamInv, NEW e \in Attempt, NEW s \in DOMAIN stream[e], Break(e, s)
  PROVE  StreamInv'
<1>1. PICK u \in Broken(stream[e][s]) : stream' = [stream EXCEPT ![e] = [@ EXCEPT ![s] = u]]
  BY DEF Break
<1>2. stream[e][s] \in StreamState
  BY DEF StreamInv, TypeOK
<1>3. /\ u \in StreamState
      /\ \A f \in Frame : Sends(u, f) => Sends(stream[e][s], f)
      /\ \A r : ~Says(u, r)
  BY <1>2, StreamBroken
<1>4. breaks' \in 0..MaxBreaks
  <2>1. breaks < MaxBreaks /\ breaks' = breaks + 1 /\ breaks \in 0..MaxBreaks
    BY DEF Break, StreamInv, TypeOK
  <2> QED BY <2>1, StreamAssumption
<1>5. UNCHANGED <<late, db, client, issued, returned>>
  BY DEF Break
<1> QED BY <1>1, <1>3, <1>4, <1>5, StreamChanged

\* What connect answers says that the frame is stored, gives the call's result, or
\* refuses the frame.
LEMMA AnswersSay ==
  ASSUME NEW f \in Frame, NEW ans \in Answers(f)
  PROVE  /\ ans \in Seq(Downward)
         /\ \A r : InSeq(ans, r) => r = Ack(f.seq) \/ r = Result(f.key) \/ r = Refusal(f.seq)
<1>1. Ack(f.seq) \in Downward /\ Result(f.key) \in Downward /\ Refusal(f.seq) \in Downward
  BY ResponseKinds DEF Frame
<1>2. CASE ans = <<Result(f.key), Ack(f.seq)>>
  <2>1. <<Result(f.key), Ack(f.seq)>> \in Seq(Downward)
    BY <1>1
  <2> QED BY <1>2, <2>1, InSeqFew
<1>3. CASE ans = <<Ack(f.seq)>>
  <2>1. <<Ack(f.seq)>> \in Seq(Downward)
    BY <1>1
  <2> QED BY <1>3, <2>1, InSeqFew
<1>4. CASE ans = <<Refusal(f.seq)>>
  <2>1. <<Refusal(f.seq)>> \in Seq(Downward)
    BY <1>1
  <2> QED BY <1>4, <2>1, InSeqFew
<1> QED BY <1>2, <1>3, <1>4 DEF Answers

\* A frame is refused, or was accepted before, or ends the handler
LEMMA StreamNotAccepted ==
  ASSUME StreamInv, NEW e \in Attempt, NEW s \in DOMAIN stream[e], NEW u \in StreamState,
         NEW f \in Frame, Sends(stream[e][s], f),
         stream' = [stream EXCEPT ![e][s] = u],
         UNCHANGED <<late, db, client, issued, returned, breaks>>,
         \A g \in Frame : Sends(u, g) => Sends(stream[e][s], g),
         \A r : Says(u, r) =>
           \/ Says(stream[e][s], r) \/ r = Refusal(f.seq)
           \/ Own(OfEpoch(e), f.key) /\ (r = Ack(f.seq) \/ r = Result(f.key))
  PROVE  StreamInv'
<1>1. breaks' \in 0..MaxBreaks
  BY DEF StreamInv, TypeOK
<1>2. /\ \A n \in Nat : Says(u, HelloAccepted(n)) => Says(stream[e][s], HelloAccepted(n))
      /\ \A n \in Nat : Says(u, Ack(n)) =>
           \/ Says(stream[e][s], Ack(n))
           \/ \E g \in Frame : Sends(stream[e][s], g) /\ g.seq = n /\ Own(OfEpoch(e), g.key)
      /\ \A n \in Nat : Says(u, Result(n)) =>
           \/ Says(stream[e][s], Result(n))
           \/ Own(OfEpoch(e), n) /\ \E g \in Frame : Sends(stream[e][s], g)
  <2>1. /\ \A n \in Nat : Says(u, HelloAccepted(n)) => Says(stream[e][s], HelloAccepted(n))
        /\ \A n \in Nat : Says(u, Ack(n)) =>
             Says(stream[e][s], Ack(n)) \/ (Own(OfEpoch(e), f.key) /\ f.seq = n)
        /\ \A n \in Nat : Says(u, Result(n)) =>
             Says(stream[e][s], Result(n)) \/ (Own(OfEpoch(e), f.key) /\ f.key = n)
    BY ResponseKinds
  <2> QED BY <2>1
<1> QED BY <1>1, <1>2, StreamChanged

\* A frame is accepted
LEMMA StreamAccepted ==
  ASSUME StreamInv, OrderInv', NEW e \in Attempt, NEW s \in DOMAIN stream[e],
         NEW f \in Frame, NEW ans \in Answers(f), NEW x, Sends(stream[e][s], f),
         Current(e), Seen(e, f) = {}, InOrder(f), ~SeqTaken(e, f),
         x = [epoch |-> e, seq |-> f.seq, key |-> f.key],
         accepted' = accepted \cup {x}, outbox' = Append(outbox, x),
         row' = [row EXCEPT !.last = f.seq],
         stream' = [stream EXCEPT ![e][s] = Answered(@, ans, "frame")],
         UNCHANGED <<late, client, issued, returned, breaks>>
  PROVE  StreamInv'
<1> DEFINE ss == stream[e]
           o == OfEpoch(e)
           u == Answered(ss[s], ans, "frame")
           vs == [ss EXCEPT ![s] = u]
<1>0. /\ x \in AcceptedRow /\ x.epoch = e /\ x.key = f.key /\ f.seq \in Nat
      /\ row.epoch = e /\ row'.epoch = e
      /\ row' \in [epoch : Attempt \cup {0}, last : Nat]
  <2>1. f.seq \in Nat /\ f.key \in Nat
    BY DEF Frame
  <2>2. row \in [epoch : Attempt \cup {0}, last : Nat] /\ row.epoch = e
    BY DEF StreamInv, TypeOK, Current
  <2> QED BY <2>1, <2>2 DEF AcceptedRow
<1>1. OfEpoch(e)' = o \cup {x} /\ \A a \in Attempt \ {e} : OfEpoch(a)' = OfEpoch(a)
  BY <1>0 DEF OfEpoch
<1>2. Good(e, client[e], ss, issued[e], returned[e], o, row) /\ RowsOK(e, o, row)
  BY AttemptRows DEF StreamInv, GoodAt
<1>3. ~Own(o, f.key) /\ ~\E y \in o : y.seq = f.seq
  BY DEF Own, OfEpoch, Seen, SeqTaken
<1>4. IsIssued(issued[e], f) /\ f.seq = row.last + 1
  BY <1>2 DEF Good, FromIssued, InOrder
<1>5. Good(e, client[e], ss, issued[e], returned[e], o \cup {x}, row')
  <2> HIDE DEF ss, o
  <2> QED BY <1>0, <1>2, <1>3, <1>4, GoodAccept
<1>6. ss[s] \in StreamState /\ ss[s].up # <<>>
  <2>1. ss[s] \in StreamState
    BY DEF StreamInv, TypeOK
  <2>2. InSeq(ss[s].up, [type |-> "frame", frame |-> f])
    BY DEF Sends
  <2> HIDE DEF ss
  <2> QED BY <2>1, <2>2 DEF InSeq
<1>7. /\ u \in StreamState
      /\ \A g \in Frame : Sends(u, g) => Sends(ss[s], g)
      /\ \A r : Says(u, r) => Says(ss[s], r) \/ r = Ack(f.seq) \/ r = Result(f.key) \/ r = Refusal(f.seq)
  <2> HIDE DEF ss
  <2> QED BY <1>6, AnswersSay, StreamAnswered
<1>8. Own(o \cup {x}, f.key) /\ Sends(ss[s], f) /\ s \in DOMAIN ss
  BY <1>0 DEF Own
<1>9. Good(e, client[e], vs, issued[e], returned[e], o \cup {x}, row')
  <2> HIDE DEF ss, o, u
  <2>1. /\ \A n \in Nat : Says(u, HelloAccepted(n)) => Says(ss[s], HelloAccepted(n))
        /\ \A n \in Nat : Says(u, Ack(n)) => Says(ss[s], Ack(n)) \/ f.seq = n
        /\ \A n \in Nat : Says(u, Result(n)) => Says(ss[s], Result(n)) \/ f.key = n
    BY <1>7, ResponseKinds
  <2> QED BY <1>5, <1>7, <1>8, <2>1, GoodStream
<1>10. stream' = [stream EXCEPT ![e] = vs]
  OBVIOUS
<1>11. Becomes(e, client[e], vs, issued[e], returned[e])
  <2> HIDE DEF vs
  <2> QED BY <1>10, SameAttempt
<1>12. /\ accepted' \subseteq AcceptedRow /\ outbox' \in Seq(AcceptedRow)
       /\ late' \subseteq Attempt /\ breaks' \in 0..MaxBreaks
  <2>1. accepted \subseteq AcceptedRow /\ outbox \in Seq(AcceptedRow)
        /\ late \subseteq Attempt /\ breaks \in 0..MaxBreaks
    BY DEF StreamInv, TypeOK
  <2> QED BY <1>0, <2>1
<1>13. Good(e, client[e], vs, issued[e], returned[e], OfEpoch(e)', row')
  BY <1>1, <1>9
<1> HIDE DEF vs, ss, o, u
<1> QED BY <1>0, <1>1, <1>11, <1>12, <1>13, OneAttempt

LEMMA StreamAccept ==
  ASSUME StreamInv, NEW e \in Attempt, NEW s \in DOMAIN stream[e], Accept(e, s)
  PROVE  StreamInv'
<1> DEFINE t == stream[e][s]
           f == Head(t.up).frame
           x == [epoch |-> e, seq |-> f.seq, key |-> f.key]
<1>1. /\ t \in StreamState /\ t.up \in Seq(Upward) /\ t.up # <<>> /\ Head(t.up).type = "frame"
  <2>1. t \in StreamState
    BY DEF StreamInv, TypeOK
  <2> QED BY <2>1 DEF StreamState, Accept, Receives
<1>2. f \in Frame /\ Sends(t, f)
  <2>1. InSeq(t.up, Head(t.up)) /\ Head(t.up) \in Upward
    BY <1>1, InSeqParts
  <2>2. \A m \in Upward : m.type = "frame" => m.frame \in Frame /\ m = [type |-> "frame", frame |-> m.frame]
    BY DEF Upward, Hello
  <2> QED BY <1>1, <2>1, <2>2 DEF Sends
<1>3. f.seq \in Nat /\ <<Refusal(f.seq)>> \in Seq(Downward)
  <2>1. f.seq \in Nat
    BY <1>2 DEF Frame
  <2> QED BY <2>1, ResponseKinds
<1>4. UNCHANGED <<late, client, issued, returned, breaks>>
  BY DEF Accept
<1>5. ASSUME UNCHANGED db, NEW b \in {"frame", "ended"}, Answer(e, s, <<Refusal(f.seq)>>, b)
      PROVE  StreamInv'
  <2> DEFINE u == Answered(t, <<Refusal(f.seq)>>, b)
  <2>1. stream' = [stream EXCEPT ![e][s] = u]
    BY <1>5 DEF Answer, Answered
  <2>2. /\ u \in StreamState
        /\ \A g \in Frame : Sends(u, g) => Sends(t, g)
        /\ \A r : Says(u, r) => Says(t, r) \/ r = Refusal(f.seq)
    <3>1. b \in {"hello", "insert", "frame", "ended", "failed"}
      OBVIOUS
    <3> HIDE DEF t, f
    <3>2. /\ u \in StreamState
          /\ \A g \in Frame : Sends(u, g) => Sends(t, g)
          /\ \A r : Says(u, r) => Says(t, r) \/ InSeq(<<Refusal(f.seq)>>, r)
      BY <1>1, <1>3, <3>1, StreamAnswered
    <3> QED BY <3>2, InSeqFew
  <2> HIDE DEF u
  <2> QED BY <1>2, <1>4, <1>5, <2>1, <2>2, StreamNotAccepted
<1>6. ASSUME UNCHANGED db, NEW y \in Seen(e, f), NEW ans \in Answers(f),
             Answer(e, s, ans, "frame")
      PROVE  StreamInv'
  <2> DEFINE u == Answered(t, ans, "frame")
  <2>1. stream' = [stream EXCEPT ![e][s] = u]
    BY <1>6 DEF Answer, Answered
  <2>2. /\ u \in StreamState
        /\ \A g \in Frame : Sends(u, g) => Sends(t, g)
        /\ \A r : Says(u, r) =>
             Says(t, r) \/ r = Ack(f.seq) \/ r = Result(f.key) \/ r = Refusal(f.seq)
    <3> HIDE DEF t, f
    <3> QED BY <1>1, <1>2, StreamAnswered, AnswersSay
  <2>3. Own(OfEpoch(e), f.key)
    BY <1>6 DEF Own, OfEpoch, Seen
  <2> HIDE DEF u, f
  <2> QED BY <1>2, <1>4, <1>6, <2>1, <2>2, <2>3, StreamNotAccepted
<1>7. ASSUME UNCHANGED db, stream' = [stream EXCEPT ![e][s].server = "failed"]
      PROVE  StreamInv'
  <2> DEFINE u == [t EXCEPT !.server = "failed"]
  <2>1. stream' = [stream EXCEPT ![e][s] = u]
    BY <1>7
  <2>2. u \in StreamState /\ u.up = t.up /\ u.down = t.down
    BY <1>1 DEF StreamState
  <2> HIDE DEF u, f
  <2>3. /\ \A g \in Frame : Sends(u, g) => Sends(t, g)
        /\ \A r : Says(u, r) =>
             \/ Says(t, r) \/ r = Refusal(f.seq)
             \/ Own(OfEpoch(e), f.key) /\ (r = Ack(f.seq) \/ r = Result(f.key))
    BY <2>2 DEF Sends, Says
  <2>4. UNCHANGED db
    BY <1>7
  <2> HIDE DEF db
  <2> QED BY <1>2, <1>4, <2>1, <2>2, <2>3, <2>4, StreamNotAccepted
<1>8. ASSUME Current(e), Seen(e, f) = {}, InOrder(f), ~SeqTaken(e, f),
             accepted' = accepted \cup {x}, outbox' = Append(outbox, x),
             row' = [row EXCEPT !.last = f.seq],
             NEW ans \in Answers(f), Answer(e, s, ans, "frame")
      PROVE  StreamInv'
  <2>1. stream' = [stream EXCEPT ![e][s] = Answered(@, ans, "frame")]
    BY <1>8 DEF Answer, Answered
  <2>2. OrderInv'
    BY AcceptRecords, OrderRecords, OrderStutters DEF StreamInv
  <2> HIDE DEF f
  <2> QED BY <1>2, <1>4, <1>8, <2>1, <2>2, StreamAccepted
<1>9. \/ UNCHANGED db /\ Answer(e, s, <<Refusal(f.seq)>>, "ended")
      \/ UNCHANGED db /\ Seen(e, f) # {} /\ (\E ans \in Answers(f) : Answer(e, s, ans, "frame"))
      \/ UNCHANGED db /\ Answer(e, s, <<Refusal(f.seq)>>, "frame")
      \/ UNCHANGED db /\ stream' = [stream EXCEPT ![e][s].server = "failed"]
      \/ /\ Current(e) /\ Seen(e, f) = {} /\ InOrder(f) /\ ~SeqTaken(e, f)
         /\ accepted' = accepted \cup {x} /\ outbox' = Append(outbox, x)
         /\ row' = [row EXCEPT !.last = f.seq]
         /\ \E ans \in Answers(f) : Answer(e, s, ans, "frame")
  BY DEF Accept, CallFails
<1> QED BY <1>5, <1>6, <1>7, <1>8, <1>9

-----------------------------------------------------------------------------
(* The steps of the client                                                  *)

\* The client c opens a stream after the streams ss
Dialling(c, th, ss) == [c EXCEPT !.pc = "hello", !.then = th, !.stream = Len(ss) + 1]

\* A new stream starts with nothing on it.
LEMMA ClientDials ==
  ASSUME StreamInv, UNCHANGED <<late, db>>, breaks' \in 0..MaxBreaks,
         NEW e \in Attempt, NEW c, NEW ss, NEW is, NEW rt, NEW th \in {"none", "write", "read"},
         Good(e, c, ss, is, rt, OfEpoch(e), row), c.got = FALSE,
         th = "read" => c.own \in DOMAIN is /\ ~is[c.own].call,
         Becomes(e, Dialling(c, th, ss), Append(ss, NewStream), is, rt)
  PROVE  StreamInv'
<1> DEFINE d == Dialling(c, th, ss)
           vs == Append(ss, NewStream)
<1>1. c \in ClientState /\ Len(ss) + 1 \in Nat
  BY DEF Good, Typed
<1>2. /\ d \in ClientState /\ d.pending = c.pending /\ d.last = c.last /\ d.pc = "hello"
      /\ d.stream = Len(ss) + 1 /\ d.got = FALSE /\ d.then = th /\ d.own = c.own
  BY <1>1 DEF ClientState, Dialling
<1> HIDE DEF d
<1>3. Good(e, d, vs, is, rt, OfEpoch(e), row)
  BY <1>2, GoodDial
<1> HIDE DEF vs
<1> QED BY <1>3, OneClient DEF d, vs

\* send raises
LEMMA ClientRaises ==
  ASSUME StreamInv, UNCHANGED <<late, db, breaks>>, NEW e \in Attempt,
         NEW c, NEW r, NEW is, NEW rt,
         Good(e, c, stream[e], is, rt, OfEpoch(e), row),
         r = c \/ r = [c EXCEPT !.stream = 0], Raise(e, r),
         issued' = [issued EXCEPT ![e] = is], returned' = [returned EXCEPT ![e] = rt]
  PROVE  StreamInv'
<1> DEFINE d == [r EXCEPT !.pc = "idle", !.then = "none", !.own = 0, !.got = FALSE, !.tries = 0]
           ss == stream[e]
<1>0. breaks' \in 0..MaxBreaks /\ 0 \in 0..(Tries - 1)
  BY StreamAssumption DEF StreamInv, TypeOK
<1>1. c \in ClientState /\ Shape(c, ss, is)
  BY DEF Good, Typed
<1>2. r \in ClientState /\ r.pending = c.pending /\ r.last = c.last /\ r.stream \in {0, c.stream}
  BY <1>1 DEF ClientState
<1>3. /\ d \in ClientState /\ d.pending = c.pending /\ d.last = c.last /\ d.pc = "idle"
      /\ d.stream \in {0, c.stream} /\ d.then = "none" /\ d.got = FALSE
  BY <1>0, <1>2 DEF ClientState
<1>4. Becomes(e, d, ss, is, rt)
  <2>1. client' = [client EXCEPT ![e] = d] /\ stream' = stream
    BY DEF Raise
  <2> HIDE DEF d
  <2> QED BY <2>1 DEF Becomes, StreamInv, TypeOK
<1> HIDE DEF d
<1>5. Shape(d, ss, is) /\ GotStored(d, OfEpoch(e))
  <2>1. c.stream \in 0..Len(ss) /\ Len(ss) \in Nat
    BY <1>1 DEF Shape, Good, Typed
  <2>2. d.stream \in 0..Len(ss)
    BY <1>3, <2>1
  <2> QED BY <1>3, <2>2 DEF Shape, GotStored
<1>6. Good(e, d, ss, is, rt, OfEpoch(e), row)
  BY <1>3, <1>5, GoodLocal
<1> HIDE DEF ss
<1> QED BY <1>0, <1>4, <1>6, OneClient

\* ... or tries again
LEMMA ClientRetries ==
  ASSUME StreamInv, UNCHANGED <<late, db, breaks>>, NEW e \in Attempt, NEW c, NEW is, NEW rt,
         Good(e, c, stream[e], is, rt, OfEpoch(e), row), c.got = FALSE,
         c.own \in DOMAIN is /\ ~is[c.own].call, Retry(e, c),
         issued' = [issued EXCEPT ![e] = is], returned' = [returned EXCEPT ![e] = rt]
  PROVE  StreamInv'
<1>0. breaks' \in 0..MaxBreaks
  BY DEF StreamInv, TypeOK
<1>1. CASE c.tries + 1 = Tries
  <2>1. Raise(e, [c EXCEPT !.stream = 0])
    BY <1>1 DEF Retry
  <2> QED BY <2>1, ClientRaises
<1>2. CASE c.tries + 1 # Tries
  <2> DEFINE d == [c EXCEPT !.tries = @ + 1]
             ss == stream[e]
  <2>1. c \in ClientState /\ Shape(c, ss, is)
    BY DEF Good, Typed
  <2>2. c.tries + 1 \in 0..(Tries - 1)
    BY <1>2, <2>1, StreamAssumption DEF ClientState
  <2>3. /\ d \in ClientState /\ d.pending = c.pending /\ d.last = c.last /\ d.pc = c.pc
        /\ d.stream = c.stream /\ d.then = c.then /\ d.got = c.got /\ d.own = c.own
    BY <2>1, <2>2 DEF ClientState
  <2>4. Dial(e, d, "read")
    BY <1>2 DEF Retry
  <2> HIDE DEF d
  <2>5. Becomes(e, Dialling(d, "read", ss), Append(ss, NewStream), is, rt)
    BY <2>4 DEF Dial, Dialled, Dialling, Becomes
  <2>6. Shape(d, ss, is) /\ GotStored(d, OfEpoch(e))
    BY <2>1, <2>3 DEF Shape, GotStored
  <2> HIDE DEF ss
  <2>7. Good(e, d, ss, is, rt, OfEpoch(e), row)
    BY <2>3, <2>6, GoodLocal DEF ss
  <2> QED BY <1>0, <2>3, <2>5, <2>7, ClientDials
<1> QED BY <1>1, <1>2

LEMMA StreamConnect ==
  ASSUME StreamInv, NEW e \in Attempt, Connect(e)
  PROVE  StreamInv'
<1> DEFINE c == client[e]
<1>1. PICK th \in {"none", "write"} : Dial(e, c, th)
  BY DEF Connect
<1>2. /\ UNCHANGED <<late, db, issued, returned, breaks>> /\ c.pc = "idle"
      /\ breaks' \in 0..MaxBreaks
  BY DEF Connect, StreamInv, TypeOK
<1>3. Good(e, c, stream[e], issued[e], returned[e], OfEpoch(e), row)
  BY DEF StreamInv, GoodAt
<1>4. c.got = FALSE
  BY <1>2, <1>3 DEF Good, Shape, Typed, ClientState
<1>5. /\ issued' = [issued EXCEPT ![e] = issued[e]]
      /\ returned' = [returned EXCEPT ![e] = returned[e]]
  BY <1>2 DEF StreamInv, TypeOK
<1>6. Becomes(e, Dialling(c, th, stream[e]), Append(stream[e], NewStream), issued[e], returned[e])
  BY <1>1, <1>5 DEF Dial, Dialled, Dialling, Becomes
<1>7. th \in {"none", "write", "read"} /\ th # "read"
  OBVIOUS
<1> HIDE DEF c
<1> QED BY <1>2, <1>3, <1>4, <1>6, <1>7, ClientDials

LEMMA StreamReconnect ==
  ASSUME StreamInv, NEW e \in Attempt, Reconnect(e)
  PROVE  StreamInv'
<1> DEFINE c == client[e]
           ss == stream[e]
           s == c.stream
<1>1. PICK u \in Broken(ss[s]) :
        stream' = [stream EXCEPT ![e] = Append([@ EXCEPT ![client[e].stream] = u], NewStream)]
  BY DEF Reconnect, Call
<1>2. Good(e, c, ss, issued[e], returned[e], OfEpoch(e), row)
  BY DEF StreamInv, GoodAt
<1>3. UNCHANGED <<late, db, issued, returned>> /\ c.pc = "idle" /\ s # 0 /\ Dialled(e, c, "none")
  BY DEF Reconnect
<1>4. breaks' \in 0..MaxBreaks
  <2>1. breaks < MaxBreaks /\ breaks' = breaks + 1 /\ breaks \in 0..MaxBreaks
    BY DEF Reconnect, StreamInv, TypeOK
  <2> QED BY <2>1, StreamAssumption
<1>5. s \in DOMAIN ss /\ ss[s] \in StreamState /\ ss \in Seq(StreamState)
  BY <1>2, <1>3 DEF Good, Shape, Typed
<1>6. c.got = FALSE
  BY <1>2, <1>3 DEF Good, Shape, Typed, ClientState
<1> DEFINE vs == [ss EXCEPT ![s] = u]
<1>7. /\ issued' = [issued EXCEPT ![e] = issued[e]]
      /\ returned' = [returned EXCEPT ![e] = returned[e]]
  BY <1>3 DEF StreamInv, TypeOK
<1>8. stream' = [stream EXCEPT ![e] = Append(vs, NewStream)]
  BY <1>1
<1>9. Becomes(e, Dialling(c, "none", vs), Append(vs, NewStream), issued[e], returned[e])
  <2>1. Len(vs) = Len(ss)
    BY <1>5
  <2> HIDE DEF vs
  <2> QED BY <1>3, <1>7, <1>8, <2>1 DEF Dialled, Dialling, Becomes
<1> HIDE DEF c, s, ss
<1>10. /\ u \in StreamState
       /\ \A f \in Frame : Sends(u, f) => Sends(ss[s], f)
       /\ \A r : ~Says(u, r)
  BY <1>5, StreamBroken
<1>11. Good(e, c, vs, issued[e], returned[e], OfEpoch(e), row)
  BY <1>2, <1>5, <1>10, GoodStream
<1> HIDE DEF vs
<1> QED BY <1>3, <1>4, <1>6, <1>9, <1>11, ClientDials

\* The client reads a response and writes what is pending
LEMMA GoodRead ==
  ASSUME NEW e, NEW c, NEW ss, NEW is, NEW rt, NEW o, NEW w, NEW p \in Seq(Frame),
         Good(e, c, ss, is, rt, o, w), c.stream # 0, ss[c.stream].down # <<>>,
         c.pc # "hello" \/ p = <<>>, \A f \in Frame : InSeq(p, f) => Held(c, f)
  PROVE  Good(e, c, [ss EXCEPT ![c.stream] = Read(ss[c.stream], p)], is, rt, o, w)
<1> DEFINE s == c.stream
           u == Read(ss[s], p)
<1>1. s \in DOMAIN ss /\ ss[s] \in StreamState
  BY DEF Good, Shape, Typed
<1>2. /\ u \in StreamState
      /\ \A f \in Frame : Sends(u, f) => Sends(ss[s], f) \/ InSeq(p, f)
      /\ \A r : Says(u, r) => Says(ss[s], r)
  BY <1>1, StreamConsumed
<1>3. \A f \in Frame : InSeq(p, f) => c.pc # "hello" /\ Held(c, f)
  BY InSeqParts
<1> HIDE DEF u
<1>4. \A f \in Frame : Sends(u, f) => Sends(ss[s], f) \/ (s = c.stream /\ c.pc # "hello" /\ Held(c, f))
  BY <1>2, <1>3
<1> HIDE DEF s
<1>5. Good(e, c, [ss EXCEPT ![s] = u], is, rt, o, w)
  BY <1>1, <1>2, <1>4, GoodStream
<1> QED BY <1>5 DEF s, u

\* ... or writes a frame
LEMMA GoodWrite ==
  ASSUME NEW e, NEW c, NEW ss, NEW is, NEW rt, NEW o, NEW w, NEW f \in Frame,
         Good(e, c, ss, is, rt, o, w), c.stream # 0, c.pc # "hello", Held(c, f)
  PROVE  Good(e, c, [ss EXCEPT ![c.stream] = Wrote(ss[c.stream], <<f>>)], is, rt, o, w)
<1> DEFINE s == c.stream
           u == Wrote(ss[s], <<f>>)
<1>1. s \in DOMAIN ss /\ ss[s] \in StreamState
  BY DEF Good, Shape, Typed
<1>2. <<f>> \in Seq(Frame) /\ \A g : InSeq(<<f>>, g) => g = f
  BY InSeqFew
<1>3. /\ u \in StreamState /\ u.down = ss[s].down
      /\ \A g \in Frame : Sends(u, g) => Sends(ss[s], g) \/ InSeq(<<f>>, g)
  BY <1>1, <1>2, StreamWritten
<1> HIDE DEF u
<1>4. \A r : Says(u, r) => Says(ss[s], r)
  BY <1>3 DEF Says
<1>5. \A g \in Frame : Sends(u, g) => Sends(ss[s], g) \/ (s = c.stream /\ c.pc # "hello" /\ Held(c, g))
  BY <1>2, <1>3
<1> HIDE DEF s
<1>6. Good(e, c, [ss EXCEPT ![s] = u], is, rt, o, w)
  BY <1>1, <1>3, <1>4, <1>5, GoodStream
<1> QED BY <1>6 DEF s, u

\* The client waits for the answer to the frame that it wrote
LEMMA GoodReading ==
  ASSUME NEW e, NEW c, NEW ss, NEW is, NEW rt, NEW o, NEW w, NEW f \in Frame,
         Good(e, c, ss, is, rt, o, w), c.pc = "idle", c.stream # 0,
         c.own = f.key, f.key \in DOMAIN is, is[f.key] = f
  PROVE  Good(e, [c EXCEPT !.pc = Reading(f)], ss, is, rt, o, w)
<1> DEFINE d == [c EXCEPT !.pc = Reading(f)]
<1>1. c \in ClientState /\ Shape(c, ss, is) /\ GotStored(c, o)
  BY DEF Good, Typed
<1>2. /\ d \in ClientState /\ d.pending = c.pending /\ d.last = c.last /\ d.stream = c.stream
      /\ d.own = c.own /\ d.got = c.got /\ d.then = c.then
      /\ d.pc \in {"read", "call"} /\ (d.pc = "read" => ~f.call)
  BY <1>1 DEF ClientState, Reading
<1> HIDE DEF d
<1>3. Shape(d, ss, is) /\ GotStored(d, o)
  BY <1>1, <1>2 DEF Shape, GotStored
<1>4. Good(e, d, ss, is, rt, o, w)
  BY <1>2, <1>3, GoodLocal
<1> QED BY <1>4 DEF d

\* The client makes a frame of its own
IsNew(e, c, f) == \E valid, call \in BOOLEAN : f = NewFrame(e, c, valid, call)

Makes(e, c, ss, f, is, d) ==
  /\ f \in Frame /\ f.key \in DOMAIN is /\ is[f.key] = f
  /\ Good(e, d, ss, is, returned[e], OfEpoch(e), row)
  /\ d.pc = "idle" /\ d.stream = c.stream /\ d.own = f.key /\ d.got = FALSE
  /\ d.pending = Append(c.pending, f) /\ Held(d, f)

\* A new frame has the number and the key after all others.
LEMMA NewFrameIssued ==
  ASSUME StreamInv, NEW e \in Attempt, NEW c, NEW ss,
         Good(e, c, ss, issued[e], returned[e], OfEpoch(e), row), c.pc = "idle",
         NEW f, IsNew(e, c, f)
  PROVE  Makes(e, c, ss, f, Append(issued[e], f), Pending(c, f))
<1> DEFINE is == Append(issued[e], f)
           d == Pending(c, f)
<1>1. c \in ClientState /\ c.pending \in Seq(Frame) /\ issued[e] \in Seq(Frame) /\ c.last \in Nat
      /\ c.got = FALSE
  BY DEF Good, Typed, ClientState, Shape
<1>2. NextSeq(c) \in Nat
  <2>1. CASE c.pending = <<>>
    BY <1>1, <2>1 DEF NextSeq
  <2>2. CASE c.pending # <<>>
    <3>1. Len(c.pending) \in DOMAIN c.pending
      BY <1>1, <2>2
    <3>2. c.pending[Len(c.pending)] \in Frame
      BY <1>1, <3>1
    <3>3. c.pending[Len(c.pending)].seq \in Nat
      BY <3>2 DEF Frame
    <3> QED BY <1>1, <2>2, <3>3 DEF NextSeq
  <2> QED BY <2>1, <2>2
<1>3. /\ f \in Frame /\ f.key = Len(issued[e]) + 1 /\ f.seq = NextSeq(c)
  BY <1>1, <1>2 DEF IsNew, NewFrame, Frame
<1>4. f.key \in DOMAIN is /\ is[f.key] = f
  BY <1>1, <1>3
<1>5. \A x \in OfEpoch(e) : x.seq \in Nat
  BY AttemptRows DEF RowsOK, RowOf
<1>6. row.last \in Nat
  BY DEF StreamInv, TypeOK
<1>7. Good(e, d, ss, is, returned[e], OfEpoch(e), row)
  BY <1>3, <1>5, <1>6, GoodIssue
<1>8. /\ d.pc = "idle" /\ d.stream = c.stream /\ d.own = f.key /\ d.got = FALSE
      /\ d.pending = Append(c.pending, f)
  BY <1>1 DEF Pending, ClientState
<1>9. Held(d, f)
  BY <1>1, <1>3, <1>8, InSeqAppend DEF Held
<1> HIDE DEF is, d
<1> QED BY <1>3, <1>4, <1>7, <1>8, <1>9 DEF Makes, is, d

\* A client writes the frame it waits for.
LEMMA ClientWrites ==
  ASSUME StreamInv, UNCHANGED <<late, db, breaks, returned>>, NEW e \in Attempt, NEW f \in Frame,
         NEW is, NEW d, d = Pending(client[e], f),
         Good(e, d, stream[e], is, returned[e], OfEpoch(e), row),
         d.pc = "idle", d.stream = client[e].stream, d.stream # 0, d.own = f.key, Held(d, f),
         f.key \in DOMAIN is, is[f.key] = f,
         issued' = [issued EXCEPT ![e] = is], Written(e, f)
  PROVE  StreamInv'
<1> DEFINE ss == stream[e]
           s == client[e].stream
           u == Wrote(ss[d.stream], <<f>>)
           vs == [ss EXCEPT ![d.stream] = u]
           g == [d EXCEPT !.pc = Reading(f)]
<1>1. Good(e, d, vs, is, returned[e], OfEpoch(e), row)
  BY GoodWrite
<1> HIDE DEF vs
<1>2. Good(e, g, vs, is, returned[e], OfEpoch(e), row)
  BY <1>1, GoodReading
<1>3. Becomes(e, g, vs, is, returned[e])
  <2>1. client' = [client EXCEPT ![e] = g]
    BY DEF Written
  <2>2. stream' = [stream EXCEPT ![e] = vs]
    BY DEF Written, vs, Wrote
  <2>3. returned' = [returned EXCEPT ![e] = returned[e]]
    BY DEF StreamInv, TypeOK
  <2> QED BY <2>1, <2>2, <2>3 DEF Becomes
<1>4. breaks' \in 0..MaxBreaks
  BY DEF StreamInv, TypeOK
<1> HIDE DEF g
<1> QED BY <1>2, <1>3, <1>4, OneClient

LEMMA StreamWrite ==
  ASSUME StreamInv, NEW e \in Attempt, WriteFrame(e) \/ WriteCall(e)
  PROVE  StreamInv'
<1> DEFINE c == client[e]
<1>1. PICK f : /\ IsNew(e, c, f) /\ WithFrame(e, f)
               /\ \/ Written(e, f)
                  \/ ~f.call /\ Retry(e, Pending(c, f))
                  \/ Raise(e, Pending(c, f))
  <2>1. CASE WriteFrame(e)
    <3>1. \A v : ~NewFrame(e, c, v, FALSE).call
      BY DEF NewFrame
    <3> QED BY <2>1, <3>1 DEF WriteFrame, IsNew
  <2>2. CASE WriteCall(e)
    <3> DEFINE f == NewFrame(e, c, TRUE, TRUE)
    <3>1. IsNew(e, c, f)
      BY DEF IsNew
    <3>2. WithFrame(e, f) /\ (Written(e, f) \/ Raise(e, Pending(c, f)))
      BY <2>2 DEF WriteCall
    <3> QED BY <3>1, <3>2
  <2> QED BY <2>1, <2>2
<1> DEFINE is == Append(issued[e], f)
           d == Pending(c, f)
<1>2. UNCHANGED <<late, db, returned, breaks>> /\ c.pc = "idle" /\ c.stream # 0
  BY DEF WriteFrame, WriteCall
<1>3. Good(e, c, stream[e], issued[e], returned[e], OfEpoch(e), row)
  BY DEF StreamInv, GoodAt
<1>4. /\ f \in Frame /\ f.key \in DOMAIN is /\ is[f.key] = f
      /\ Good(e, d, stream[e], is, returned[e], OfEpoch(e), row)
      /\ d.pc = "idle" /\ d.stream = c.stream /\ d.own = f.key /\ d.got = FALSE /\ Held(d, f)
  <2>1. Makes(e, c, stream[e], f, is, d)
    BY <1>1, <1>2, <1>3, NewFrameIssued
  <2> HIDE DEF is, d, c
  <2> QED BY <2>1 DEF Makes
<1>5. issued' = [issued EXCEPT ![e] = is] /\ returned' = [returned EXCEPT ![e] = returned[e]]
  BY <1>1, <1>2 DEF WithFrame, StreamInv, TypeOK
<1>6. d = Pending(client[e], f) /\ d.stream = client[e].stream
  BY <1>4
<1>7. \/ Written(e, f)
      \/ ~f.call /\ Retry(e, d)
      \/ Raise(e, d)
  BY <1>1
<1> HIDE DEF is, d, c
<1>8. CASE Written(e, f)
  BY <1>2, <1>4, <1>5, <1>6, <1>8, ClientWrites
<1>9. CASE ~f.call /\ Retry(e, d)
  BY <1>2, <1>4, <1>5, <1>9, ClientRetries
<1>10. CASE Raise(e, d)
  BY <1>2, <1>4, <1>5, <1>10, ClientRaises
<1> QED BY <1>7, <1>8, <1>9, <1>10

\* What the client hears
LEMMA ClientHears ==
  ASSUME StreamInv, NEW e \in Attempt, NEW type, Reads(e, type)
  PROVE  /\ client[e].stream # 0 /\ Call(e) = stream[e][client[e].stream] /\ Call(e).down # <<>>
         /\ Head(Call(e).down) \in Downward /\ Head(Call(e).down).type = type
         /\ Says(stream[e][client[e].stream], Head(Call(e).down))
<1>1. client[e].stream # 0 /\ Call(e).down # <<>> /\ Head(Call(e).down).type = type
  BY DEF Reads
<1>2. Shape(client[e], stream[e], issued[e]) /\ Typed(client[e], stream[e], issued[e])
  BY DEF StreamInv, GoodAt, Good
<1>3. client[e].stream \in DOMAIN stream[e] /\ stream[e] \in Seq(StreamState)
  BY <1>1, <1>2 DEF Shape, Typed
<1>4. Call(e) \in StreamState
  BY <1>3 DEF Call
<1>5. Call(e).down \in Seq(Downward)
  BY <1>4 DEF StreamState
<1>6. Head(Call(e).down) \in Downward /\ InSeq(Call(e).down, Head(Call(e).down))
  BY <1>1, <1>5, InSeqParts
<1> QED BY <1>1, <1>6 DEF Says, Call

\* A client reads one response and may write frames it holds.
LEMMA ClientReads ==
  ASSUME StreamInv, UNCHANGED <<late, db, breaks>>, NEW e \in Attempt,
         NEW type, Reads(e, type), NEW d, NEW is, NEW rt, NEW p \in Seq(Frame),
         Good(e, d, stream[e], is, rt, OfEpoch(e), row), d.stream = client[e].stream,
         d.pc # "hello" \/ p = <<>>, \A f \in Frame : InSeq(p, f) => Held(d, f),
         Consumed(e, p), client' = [client EXCEPT ![e] = d],
         issued' = [issued EXCEPT ![e] = is], returned' = [returned EXCEPT ![e] = rt]
  PROVE  StreamInv'
<1> DEFINE ss == stream[e]
           vs == [ss EXCEPT ![d.stream] = Read(ss[d.stream], p)]
<1>1. d.stream # 0 /\ ss[d.stream].down # <<>> /\ breaks' \in 0..MaxBreaks
  BY ClientHears DEF StreamInv, TypeOK
<1>2. stream' = [stream EXCEPT ![e] = vs]
  BY DEF Consumed
<1>3. Becomes(e, d, vs, is, rt)
  <2> HIDE DEF vs
  <2> QED BY <1>2 DEF Becomes
<1>4. Good(e, d, vs, is, rt, OfEpoch(e), row)
  <2> HIDE DEF ss
  <2> QED BY <1>1, GoodRead DEF ss
<1> HIDE DEF vs
<1> QED BY <1>1, <1>3, <1>4, OneClient

\* Nothing to write
LEMMA ClientOnlyReads ==
  ASSUME StreamInv, UNCHANGED <<late, db, breaks, issued>>, NEW e \in Attempt,
         NEW type, Reads(e, type), NEW d, NEW rt,
         Good(e, d, stream[e], issued[e], rt, OfEpoch(e), row), d.stream = client[e].stream,
         Consumed(e, <<>>), client' = [client EXCEPT ![e] = d],
         returned' = [returned EXCEPT ![e] = rt]
  PROVE  StreamInv'
<1>1. issued' = [issued EXCEPT ![e] = issued[e]]
  BY DEF StreamInv, TypeOK
<1>2. <<>> \in Seq(Frame) /\ \A f : ~InSeq(<<>>, f)
  BY DEF InSeq
<1> QED BY <1>1, <1>2, ClientReads

\* The steps of the client that read.
LEMMA StreamHelloReturns ==
  ASSUME StreamInv, NEW e \in Attempt, HelloReturns(e)
  PROVE  StreamInv'
<1> DEFINE c == client[e]
           n == Head(Call(e).down).seq
           d == [c EXCEPT !.last = n, !.then = "none"]
           g == Greeted(c, n)
           p == Unacked(c.pending, n)
           ss == stream[e]
           o == OfEpoch(e)
<1>1. UNCHANGED <<late, db, returned, breaks>> /\ c.pc = "hello" /\ Reads(e, "hello_accepted")
  BY DEF HelloReturns
<1>2. n \in Nat /\ Says(ss[c.stream], HelloAccepted(n))
  BY <1>1, ClientHears, ResponseKinds
<1>3. Good(e, c, ss, issued[e], returned[e], o, row)
  BY DEF StreamInv, GoodAt
<1> HIDE DEF n
<1>4. Good(e, g, ss, issued[e], returned[e], o, row)
  <2> HIDE DEF c, ss, o
  <2> QED BY <1>1, <1>2, <1>3, GoodHelloReturn
<1>5. c \in ClientState /\ c.pending \in Seq(Frame)
  BY <1>3 DEF Good, Typed, ClientState
<1>6. /\ g.pending = c.pending /\ g.stream = c.stream /\ g.last = n
      /\ d.pending = c.pending /\ d.last = n /\ g.pc \in {"read", "idle"}
      /\ (c.then = "write" => g.pc = "idle" /\ g = [d EXCEPT !.pc = "idle"])
  BY <1>5 DEF ClientState, Greeted
<1>7. p \in Seq(Frame) /\ \A f \in Frame : InSeq(p, f) => Held(g, f)
  <2>1. InAscent(c.pending)
    BY <1>3 DEF Good, Numbered
  <2> HIDE DEF c
  <2> QED BY <1>2, <1>5, <1>6, <2>1, UnackedByNumber DEF Held
<1>8. returned' = [returned EXCEPT ![e] = returned[e]]
  BY <1>1 DEF StreamInv, TypeOK
<1>9. CASE /\ Consumed(e, p) /\ UNCHANGED issued
           /\ client' = [client EXCEPT ![e] =
                [d EXCEPT !.pc = IF c.then = "read" THEN "read" ELSE "idle"]]
  <2>1. client' = [client EXCEPT ![e] = g]
    BY <1>9 DEF Greeted
  <2>2. issued' = [issued EXCEPT ![e] = issued[e]]
    BY <1>9 DEF StreamInv, TypeOK
  <2> HIDE DEF g, p, d
  <2> QED BY <1>1, <1>4, <1>6, <1>7, <1>8, <1>9, <2>1, <2>2, ClientReads
<1>10. CASE /\ c.then = "write"
            /\ \E f : /\ IsNew(e, d, f) /\ WithFrame(e, f)
                      /\ Consumed(e, Append(p, f))
                      /\ client' = [client EXCEPT ![e] = [Pending(d, f) EXCEPT !.pc = Reading(f)]]
  <2>1. PICK f : /\ IsNew(e, d, f) /\ WithFrame(e, f)
                 /\ Consumed(e, Append(p, f))
                 /\ client' = [client EXCEPT ![e] = [Pending(d, f) EXCEPT !.pc = Reading(f)]]
    BY <1>10
  <2> DEFINE is == Append(issued[e], f)
             h == Pending(g, f)
             k == [h EXCEPT !.pc = Reading(f)]
             q == Append(p, f)
  <2>2. NextSeq(d) = NextSeq(g) /\ g = [d EXCEPT !.pc = "idle"] /\ g.pc = "idle"
    BY <1>6, <1>10 DEF NextSeq
  <2>3. IsNew(e, g, f)
    <3> HIDE DEF d, g
    <3> QED BY <2>1, <2>2 DEF IsNew, NewFrame
  <2>4. Makes(e, g, ss, f, is, h)
    <3> HIDE DEF g, ss
    <3> QED BY <1>4, <2>2, <2>3, NewFrameIssued
  <2>5. [Pending(d, f) EXCEPT !.pc = Reading(f)] = k
    <3>1. d \in [pc : {"hello"}, then : {"none"}, last : Nat, pending : Seq(Frame), own : Nat,
                 got : BOOLEAN, stream : Nat, tries : 0..(Tries - 1)]
      BY <1>1, <1>2, <1>5 DEF ClientState
    <3> HIDE DEF d, g
    <3> QED BY <2>2, <3>1 DEF Pending
  <2>6. client' = [client EXCEPT ![e] = k]
    BY <2>1, <2>5
  <2> HIDE DEF g, h, is
  <2>7. /\ f \in Frame /\ h.pc = "idle" /\ h.stream = c.stream /\ h.own = f.key
        /\ h.pending = Append(c.pending, f) /\ f.key \in DOMAIN is /\ is[f.key] = f
        /\ Good(e, h, ss, is, returned[e], o, row)
    BY <1>6, <2>4 DEF Makes
  <2>8. c.stream # 0
    BY <1>1, ClientHears
  <2>9. Good(e, k, ss, is, returned[e], o, row)
    <3> HIDE DEF c, ss, o
    <3> QED BY <2>7, <2>8, GoodReading
  <2>10. k.pending = h.pending /\ k.stream = h.stream /\ k.pc # "hello"
    <3>1. h \in ClientState
      BY <2>7 DEF Good, Typed
    <3> QED BY <3>1 DEF ClientState, Reading
  <2>11. q \in Seq(Frame) /\ \A x \in Frame : InSeq(q, x) => Held(k, x)
    <3>1. \A x : Held(k, x) <=> InSeq(c.pending, x) \/ x = f
      <4>1. k.pending = Append(c.pending, f)
        BY <2>7, <2>10
      <4> HIDE DEF k, c
      <4> QED BY <1>5, <2>7, <4>1, InSeqAppend DEF Held
    <3>2. \A x : InSeq(q, x) <=> InSeq(p, x) \/ x = f
      <4> HIDE DEF p
      <4> QED BY <1>7, <2>7, InSeqAppend
    <3>3. \A x \in Frame : InSeq(p, x) => InSeq(c.pending, x)
      BY <1>6, <1>7 DEF Held
    <3>4. q \in Seq(Frame)
      <4> HIDE DEF p
      <4> QED BY <1>7, <2>7
    <3> HIDE DEF q, k, p
    <3> QED BY <3>1, <3>2, <3>3, <3>4
  <2>12. issued' = [issued EXCEPT ![e] = is]
    BY <2>1 DEF WithFrame, is
  <2>13. Consumed(e, q) /\ k.stream = client[e].stream
    BY <2>1, <2>7, <2>10
  <2> HIDE DEF k, q, c, p, d, ss, o
  <2> QED BY <1>1, <1>8, <2>6, <2>9, <2>10, <2>11, <2>12, <2>13, ClientReads DEF ss, o
<1> QED
  <2>1. \/ /\ Consumed(e, p) /\ UNCHANGED issued
           /\ client' = [client EXCEPT ![e] =
                [d EXCEPT !.pc = IF c.then = "read" THEN "read" ELSE "idle"]]
        \/ /\ c.then = "write"
           /\ \E valid, call \in BOOLEAN :
                LET f == NewFrame(e, d, valid \/ call, call) IN
                /\ WithFrame(e, f)
                /\ Consumed(e, Append(p, f))
                /\ client' = [client EXCEPT ![e] = [Pending(d, f) EXCEPT !.pc = Reading(f)]]
    BY DEF HelloReturns, n
  <2>2. \A valid, call \in BOOLEAN : IsNew(e, d, NewFrame(e, d, valid \/ call, call))
    <3>1. \A valid, call \in BOOLEAN : (valid \/ call) \in BOOLEAN
      OBVIOUS
    <3> HIDE DEF d
    <3> QED BY <3>1 DEF IsNew
  <2> QED BY <1>9, <1>10, <2>1, <2>2

LEMMA StreamResultRead ==
  ASSUME StreamInv, NEW e \in Attempt, ResultRead(e)
  PROVE  StreamInv'
<1> DEFINE c == client[e]
           k == Head(Call(e).down).key
           ss == stream[e]
           o == OfEpoch(e)
           d == IF c.pc = "read" THEN c
                ELSE IF OwnResult(c, k) THEN [c EXCEPT !.got = TRUE]
                ELSE [c EXCEPT !.pc = "idle", !.own = 0, !.got = FALSE]
<1>1. /\ UNCHANGED <<late, db, issued, returned, breaks>> /\ Reads(e, "result")
      /\ c.pc \in {"read", "call"} /\ Consumed(e, <<>>) /\ client' = [client EXCEPT ![e] = d]
  BY DEF ResultRead
<1>2. Good(e, c, ss, issued[e], returned[e], o, row)
  BY DEF StreamInv, GoodAt
<1>3. k \in Nat /\ Says(ss[c.stream], Result(k)) /\ c.stream # 0
  BY <1>1, ClientHears, ResponseKinds
<1>4. Own(o, k) /\ c \in ClientState /\ Shape(c, ss, issued[e]) /\ GotStored(c, o)
  BY <1>2, <1>3 DEF Good, Typed, Shape, ResultsStored
<1> HIDE DEF k
<1>5. /\ d \in ClientState /\ d.pending = c.pending /\ d.last = c.last /\ d.stream = c.stream
      /\ d.then = c.then /\ d.pc # "hello" /\ (d.pc = "read" => d = c)
      /\ (d.pc # "call" => ~d.got) /\ (d.got => Own(o, d.own))
  <2>1. CASE c.pc = "read"
    BY <1>4, <2>1 DEF ClientState, Shape, GotStored
  <2>2. CASE c.pc = "call" /\ OwnResult(c, k)
    <3>1. d = [c EXCEPT !.got = TRUE] /\ c.own = k
      BY <2>2 DEF OwnResult
    <3> HIDE DEF d, c, o
    <3> QED BY <1>4, <2>2, <3>1 DEF ClientState
  <2>3. CASE c.pc = "call" /\ ~OwnResult(c, k)
    <3>1. d = [c EXCEPT !.pc = "idle", !.own = 0, !.got = FALSE]
      BY <2>3
    <3> HIDE DEF d, c, o
    <3> QED BY <1>4, <2>3, <3>1 DEF ClientState
  <2> HIDE DEF d, c
  <2> QED BY <1>1, <2>1, <2>2, <2>3
<1> HIDE DEF d
<1>6. Shape(d, ss, issued[e]) /\ GotStored(d, o)
  BY <1>1, <1>3, <1>4, <1>5 DEF Shape, GotStored
<1>7. Good(e, d, ss, issued[e], returned[e], o, row)
  BY <1>2, <1>5, <1>6, GoodLocal
<1>8. returned' = [returned EXCEPT ![e] = returned[e]] /\ d.stream = client[e].stream
  BY <1>1, <1>5 DEF StreamInv, TypeOK
<1> QED BY <1>1, <1>7, <1>8, ClientOnlyReads

\* A send or a call returns on the acknowledgement, or a call ends without its result
LEMMA ClientAcknowledged ==
  ASSUME StreamInv, NEW e \in Attempt, Reads(e, "ack"), client[e].pc # "hello",
         UNCHANGED <<late, db, issued, breaks>>, Consumed(e, <<>>),
         Acknowledged(e, Head(Call(e).down).seq),
         NEW rt, returned' = [returned EXCEPT ![e] = rt],
         Good(e, client[e], stream[e], issued[e], rt, OfEpoch(e), row)
  PROVE  StreamInv'
<1> DEFINE c == client[e]
           n == Head(Call(e).down).seq
           ss == stream[e]
           d == Acked(c, n)
<1>1. n \in Nat /\ Says(ss[c.stream], Ack(n)) /\ c.stream # 0
  BY ClientHears, ResponseKinds
<1>2. client' = [client EXCEPT ![e] = d]
  BY DEF Acknowledged
<1>3. \A x \in OfEpoch(e) : x.seq \in Nat
  BY AttemptRows DEF RowsOK, RowOf
<1>4. d.stream = client[e].stream
  BY DEF Acked, Good, Typed, ClientState
<1> HIDE DEF n
<1>5. Good(e, d, ss, issued[e], rt, OfEpoch(e), row)
  <2> HIDE DEF c, ss
  <2> QED BY <1>1, <1>3, GoodAck DEF c, ss
<1> HIDE DEF d
<1> QED BY <1>2, <1>4, <1>5, ClientOnlyReads

LEMMA StreamReturns ==
  ASSUME StreamInv, NEW e \in Attempt, AckReturns(e) \/ CallReturns(e)
  PROVE  StreamInv'
<1> DEFINE c == client[e]
           rt == returned[e]
<1>1. /\ UNCHANGED <<late, db, issued, breaks>> /\ Reads(e, "ack") /\ Consumed(e, <<>>)
      /\ Acknowledged(e, Head(Call(e).down).seq) /\ c.pc # "hello"
  BY DEF AckReturns, CallReturns
<1>2. Good(e, c, stream[e], issued[e], rt, OfEpoch(e), row)
  BY DEF StreamInv, GoodAt
<1>3. \/ returned' = [returned EXCEPT ![e] = rt]
      \/ (c.pc = "read" \/ c.got) /\ returned' = [returned EXCEPT ![e] = rt \cup {c.own}]
  BY DEF AckReturns, CallReturns, StreamInv, TypeOK
<1>4. CASE returned' = [returned EXCEPT ![e] = rt]
  BY <1>1, <1>2, <1>4, ClientAcknowledged
<1>5. CASE (c.pc = "read" \/ c.got) /\ returned' = [returned EXCEPT ![e] = rt \cup {c.own}]
  <2>1. Good(e, c, stream[e], issued[e], rt \cup {c.own}, OfEpoch(e), row)
    <3> HIDE DEF c, rt
    <3> QED BY <1>2, <1>5, GoodReturn
  <2> DEFINE st == rt \cup {c.own}
  <2> HIDE DEF st
  <2> QED BY <1>1, <1>5, <2>1, ClientAcknowledged DEF st
<1> QED BY <1>3, <1>4, <1>5

LEMMA StreamErrorReturns ==
  ASSUME StreamInv, NEW e \in Attempt, ErrorReturns(e)
  PROVE  StreamInv'
<1> DEFINE c == client[e]
           d == [c EXCEPT !.pc = "idle", !.then = "none", !.own = 0, !.got = FALSE, !.tries = 0]
           ss == stream[e]
           o == OfEpoch(e)
<1>1. /\ UNCHANGED <<late, db, issued, returned, breaks>> /\ Reads(e, "error")
      /\ Consumed(e, <<>>) /\ client' = [client EXCEPT ![e] = d]
  BY DEF ErrorReturns
<1>2. Good(e, c, ss, issued[e], returned[e], o, row)
  BY DEF StreamInv, GoodAt
<1>3. c \in ClientState /\ Shape(c, ss, issued[e]) /\ 0 \in 0..(Tries - 1)
  BY <1>2, StreamAssumption DEF Good, Typed
<1>4. /\ d \in ClientState /\ d.pending = c.pending /\ d.last = c.last /\ d.stream = c.stream
      /\ d.then = "none" /\ d.pc = "idle" /\ ~d.got
  <2> HIDE DEF c
  <2> QED BY <1>3 DEF ClientState
<1> HIDE DEF d
<1>5. Shape(d, ss, issued[e]) /\ GotStored(d, o)
  BY <1>3, <1>4 DEF Shape, GotStored
<1>6. Good(e, d, ss, issued[e], returned[e], o, row)
  BY <1>2, <1>4, <1>5, GoodLocal
<1>7. returned' = [returned EXCEPT ![e] = returned[e]] /\ d.stream = client[e].stream
  BY <1>1, <1>4 DEF StreamInv, TypeOK
<1> QED BY <1>1, <1>6, <1>7, ClientOnlyReads

\* The stream breaks, or its handler has failed
LEMMA StreamFails ==
  ASSUME StreamInv, NEW e \in Attempt, TransportError(e) \/ FailureReturns(e)
  PROVE  StreamInv'
<1> DEFINE c == client[e]
<1>1. UNCHANGED <<late, db, issued, returned, breaks>>
  BY DEF TransportError, FailureReturns
<1>2. Good(e, c, stream[e], issued[e], returned[e], OfEpoch(e), row)
  BY DEF StreamInv, GoodAt
<1>3. /\ issued' = [issued EXCEPT ![e] = issued[e]]
      /\ returned' = [returned EXCEPT ![e] = returned[e]]
  BY <1>1 DEF StreamInv, TypeOK
<1>4. \/ Guarded(c) /\ Retry(e, c)
      \/ \E r : (r = c \/ r = [c EXCEPT !.stream = 0]) /\ Raise(e, r)
  BY DEF TransportError, FailureReturns
<1> HIDE DEF c
<1>5. CASE Guarded(c) /\ Retry(e, c)
  <2>1. c \in ClientState /\ Shape(c, stream[e], issued[e])
    BY <1>2 DEF Good, Typed
  <2>2. c.got = FALSE /\ c.own \in DOMAIN issued[e] /\ ~issued[e][c.own].call
    BY <1>5, <2>1 DEF Guarded, Shape, ClientState
  <2> QED BY <1>1, <1>2, <1>3, <1>5, <2>2, ClientRetries
<1>6. ASSUME NEW r, r = c \/ r = [c EXCEPT !.stream = 0], Raise(e, r)
      PROVE  StreamInv'
  BY <1>1, <1>2, <1>3, <1>6, ClientRaises
<1> QED BY <1>4, <1>5, <1>6

-----------------------------------------------------------------------------
LEMMA StreamStutters ==
  ASSUME StreamInv, UNCHANGED vars
  PROVE  StreamInv'
<1>1. OrderInv'
  BY OrderStutters DEF StreamInv, vars, db
<1>2. TypeOK'
  BY DEF StreamInv, TypeOK, vars, db
<1>3. ASSUME NEW e \in Attempt
      PROVE  NextGood(e)
  BY DEF StreamInv, GoodAt, NextGood, OfEpoch, vars, db
<1> QED BY <1>1, <1>2, <1>3, NextGoodAt DEF StreamInv

LEMMA StreamStep == StreamInv /\ [Next]_vars => StreamInv'
<1> SUFFICES ASSUME StreamInv, [Next]_vars PROVE StreamInv'
  OBVIOUS
<1>1. CASE UNCHANGED vars
  BY <1>1, StreamStutters
<1>2. CASE Next
  <2>1. PICK e \in Attempt :
          \/ Connect(e) \/ Reconnect(e) \/ WriteFrame(e) \/ WriteCall(e) \/ Client(e)
          \/ \E s \in DOMAIN stream[e] : Handler(e, s) \/ Break(e, s)
    BY <1>2 DEF Next
  <2>2. CASE Connect(e)
    BY <2>2, StreamConnect
  <2>3. CASE Reconnect(e)
    BY <2>3, StreamReconnect
  <2>4. CASE WriteFrame(e) \/ WriteCall(e)
    BY <2>4, StreamWrite
  <2>5. CASE HelloReturns(e)
    BY <2>5, StreamHelloReturns
  <2>6. CASE ResultRead(e)
    BY <2>6, StreamResultRead
  <2>7. CASE AckReturns(e) \/ CallReturns(e)
    BY <2>7, StreamReturns
  <2>8. CASE ErrorReturns(e)
    BY <2>8, StreamErrorReturns
  <2>9. CASE TransportError(e) \/ FailureReturns(e)
    BY <2>9, StreamFails
  <2>10. CASE \E s \in DOMAIN stream[e] : Activate(e, s)
    BY <2>10, StreamActivate
  <2>11. CASE \E s \in DOMAIN stream[e] : InsertRow(e, s)
    BY <2>11, StreamInsertRow
  <2>12. CASE \E s \in DOMAIN stream[e] : Accept(e, s)
    BY <2>12, StreamAccept
  <2>13. CASE \E s \in DOMAIN stream[e] : CancelHandler(e, s)
    BY <2>13, StreamCancelHandler
  <2>14. CASE \E s \in DOMAIN stream[e] : Break(e, s)
    BY <2>14, StreamBreak
  <2> QED BY <2>1, <2>2, <2>3, <2>4, <2>5, <2>6, <2>7, <2>8, <2>9, <2>10, <2>11, <2>12, <2>13,
             <2>14 DEF Client, Handler
<1> QED BY <1>1, <1>2

\* The invariant of the stream, of which the properties below are consequences.
THEOREM StreamInvariant == Spec => []StreamInv
  BY InitStream, StreamStep, PTL DEF Spec

\* Every variable keeps its type: in particular no number and no key of a frame
\* leaves the range the protocol gives it.
THEOREM StreamTypes == Spec => []TypeOK
<1>1. StreamInv => TypeOK
  BY DEF StreamInv
<1> QED BY <1>1, StreamInvariant, PTL

\* Across broken streams, retransmissions and handlers of old streams, what
\* RuntimeService._accept stores for an attempt is what its client sent, in that
\* order, with nothing skipped, doubled or swapped.
THEOREM StoredAsSent == Spec => []AcceptedAsIssued
<1>1. ASSUME StreamInv PROVE AcceptedAsIssued
  <2> SUFFICES ASSUME NEW e \in Attempt
               PROVE  /\ \A x \in OfEpoch(e) : \A k \in 1..x.seq : \E y \in OfEpoch(e) : y.seq = k
                      /\ \A x, y \in OfEpoch(e) : x.seq = y.seq \/ x.key = y.key => x = y
                      /\ \A x \in OfEpoch(e) : issued[e][x.key].seq = x.seq
    BY DEF AcceptedAsIssued
  <2>1. GoodAt(e) /\ RowsOK(e, OfEpoch(e), row)
    BY <1>1, AttemptRows DEF StreamInv
  <2> QED BY <2>1 DEF GoodAt, Good, RowsOK, Distinct, FromIssued
<1> QED BY <1>1, StreamInvariant, PTL

\* The client (send, connect) drops a frame from its buffer only when it is
\* durable, so that any break can be repaired by sending the buffer again.
THEOREM BufferKeepsWhatIsNotStored == Spec => []NothingForgotten
<1>1. ASSUME StreamInv PROVE NothingForgotten
  <2> SUFFICES ASSUME NEW e \in Attempt, NEW k \in DOMAIN issued[e]
               PROVE  \/ \E i \in DOMAIN client[e].pending : client[e].pending[i].key = k
                      \/ \E x \in OfEpoch(e) : x.key = k
    BY DEF NothingForgotten
  <2>1. Kept(client[e], issued[e], OfEpoch(e))
    BY <1>1 DEF StreamInv, GoodAt, Good
  <2> QED BY <2>1 DEF Kept, Own, Held, InSeq
<1> QED BY <1>1, StreamInvariant, PTL

\* A call of a model or a tool (RuntimeClient.model, tool) that returns has its
\* frame stored, whatever answers of earlier frames arrive before its own.
THEOREM ReturnedCallsAreStored == Spec => []CallsAreAccepted
<1>1. ASSUME StreamInv PROVE CallsAreAccepted
  <2> SUFFICES ASSUME NEW e \in Attempt, NEW k \in returned[e], issued[e][k].call
               PROVE  \E x \in OfEpoch(e) : x.key = k
    BY DEF CallsAreAccepted
  <2>1. CallsStored(returned[e], issued[e], OfEpoch(e))
    BY <1>1 DEF StreamInv, GoodAt, Good
  <2> QED BY <2>1 DEF CallsStored, Own
<1> QED BY <1>1, StreamInvariant, PTL
=============================================================================
