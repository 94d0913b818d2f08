--------------------------- MODULE RegistryProofs ---------------------------
(***************************************************************************)
(* Proofs about Registry: whoever calls it at the same time, no two calls  *)
(* hold one lock, no calls wait for each other but publications that are   *)
(* refused, and what a call has checked still holds when it writes.        *)
(*                                                                         *)
(* The invariant is about the calls in progress.  A lock has one holder;   *)
(* a call that writes holds the locks of its operation; and what it read   *)
(* can only be changed by a call that would need one of them.              *)
(***************************************************************************)
EXTENDS Registry, SequenceTheorems, TLAPS

-----------------------------------------------------------------------------
(* The locks of a request by their position                                 *)

\* The locks of a request, in the order it takes them
First(q) == IF q.op = "resolve" THEN <<"run", q.run>> ELSE <<q.op, q.key>>
Second(q) ==
  CASE q.op = "publish" -> <<"agent", q.agent>>
    [] q.op \in {"default", "deprecate"} -> <<"agent row", q.agent>>
    [] q.op = "grant" -> <<"grant", q.agent, q.user>>
    [] q.op = "revoke" -> <<"grant row", q.grant>>
Third(q) == IF q.op = "publish" THEN <<"image", q.image>> ELSE <<"release", q.release>>
Fourth(q) == <<"agent row", q.agent>>
LockOf(q, i) ==
  CASE i = 1 -> First(q) [] i = 2 -> Second(q) [] i = 3 -> Third(q) [] i = 4 -> Fourth(q)

\* The locks of every request of the operation
FirstLocks(q) ==
  CASE q.op = "resolve" -> 1
    [] q.op \in {"grant", "revoke"} -> 2
    [] q.op \in {"publish", "default", "deprecate"} -> 3

\* A publication also takes the row of an agent that is there
LockCount(q) ==
  IF q.op = "publish" /\ AgentKnown(q.agent) THEN 4 ELSE FirstLocks(q)

Operation == {"publish", "default", "deprecate", "grant", "revoke", "resolve"}

\* The fields a request has, by its operation.
LEMMA RequestShape ==
  ASSUME NEW q \in Request
  PROVE  /\ q.op \in Operation /\ q.key \in Key
         /\ q.op = "publish" => /\ q.release \in Release /\ q.agent \in Agent
                                /\ q.version \in Version /\ q.image \in Image
         /\ q.op \in {"default", "deprecate"} => q.release \in Release /\ q.agent \in Agent
         /\ q.op = "grant" => q.grant \in AccessGrant /\ q.agent \in Agent /\ q.user \in User
         /\ q.op = "revoke" => q.grant \in AccessGrant
         /\ q.op = "resolve" => q.run \in Run /\ q.user \in User /\ q.release \in Release
  BY DEF Request, Publishing, Lifecycle, Granting, Revoking, Resolving, Operation

\* A request takes one to four locks.
LEMMA LockCountBounds ==
  ASSUME NEW q \in Request
  PROVE  /\ LockCount(q) \in 1..4 /\ FirstLocks(q) \in 1..3
         /\ FirstLocks(q) <= LockCount(q)
  BY RequestShape DEF LockCount, FirstLocks, Operation

\* The locks of a request, by position, as the model takes them.
LEMMA LocksByPosition ==
  ASSUME NEW q \in Request
  PROVE  /\ Len(Locks(q)) = LockCount(q) /\ DOMAIN Locks(q) = 1..LockCount(q)
         /\ \A i \in 1..LockCount(q) : Locks(q)[i] = LockOf(q, i)
<1> DEFINE k == <<q.op, q.key>>
<1>1. CASE q.op = "publish" /\ AgentKnown(q.agent)
  <2> DEFINE a == <<"agent", q.agent>>
             b == <<"image", q.image>>
             c == <<"agent row", q.agent>>
  <2>1. Locks(q) = <<k>> \o (<<a, b>> \o <<c>>)
    BY <1>1 DEF Locks, PublicationLocks, AgentRow
  <2>2. LockCount(q) = 4
    BY <1>1 DEF LockCount, FirstLocks
  <2>3. First(q) = k /\ Second(q) = a /\ Third(q) = b /\ Fourth(q) = c
    BY <1>1 DEF First, Second, Third, Fourth
  <2> HIDE DEF k, a, b, c
  <2> QED BY <2>1, <2>2, <2>3 DEF LockOf
<1>2. CASE q.op = "publish" /\ ~AgentKnown(q.agent)
  <2> DEFINE a == <<"agent", q.agent>>
             b == <<"image", q.image>>
  <2>1. Locks(q) = <<k>> \o (<<a, b>> \o <<>>)
    BY <1>2 DEF Locks, PublicationLocks, AgentRow
  <2>2. LockCount(q) = 3
    BY <1>2 DEF LockCount, FirstLocks
  <2>3. First(q) = k /\ Second(q) = a /\ Third(q) = b
    BY <1>2 DEF First, Second, Third
  <2> HIDE DEF k, a, b
  <2> QED BY <2>1, <2>2, <2>3 DEF LockOf
<1>3. CASE q.op \in {"default", "deprecate"}
  <2> DEFINE a == <<"agent row", q.agent>>
             b == <<"release", q.release>>
  <2>1. Locks(q) = <<k>> \o <<a, b>>
    BY <1>3 DEF Locks, DeprecationLocks
  <2>2. LockCount(q) = 3
    BY <1>3 DEF LockCount, FirstLocks
  <2>3. First(q) = k /\ Second(q) = a /\ Third(q) = b
    BY <1>3 DEF First, Second, Third
  <2> HIDE DEF k, a, b
  <2> QED BY <2>1, <2>2, <2>3 DEF LockOf
<1>4. CASE q.op = "grant"
  <2> DEFINE a == <<"grant", q.agent, q.user>>
  <2>1. Locks(q) = <<k>> \o <<a>>
    BY <1>4 DEF Locks
  <2>2. LockCount(q) = 2
    BY <1>4 DEF LockCount, FirstLocks
  <2>3. First(q) = k /\ Second(q) = a
    BY <1>4 DEF First, Second
  <2> HIDE DEF k, a
  <2> QED BY <2>1, <2>2, <2>3 DEF LockOf
<1>5. CASE q.op = "revoke"
  <2> DEFINE a == <<"grant row", q.grant>>
  <2>1. Locks(q) = <<k>> \o <<a>>
    BY <1>5 DEF Locks
  <2>2. LockCount(q) = 2
    BY <1>5 DEF LockCount, FirstLocks
  <2>3. First(q) = k /\ Second(q) = a
    BY <1>5 DEF First, Second
  <2> HIDE DEF k, a
  <2> QED BY <2>1, <2>2, <2>3 DEF LockOf
<1>6. CASE q.op = "resolve"
  <2>1. Locks(q) = <<<<"run", q.run>>>>
    BY <1>6 DEF Locks
  <2>2. LockCount(q) = 1
    BY <1>6 DEF LockCount, FirstLocks
  <2>3. First(q) = <<"run", q.run>>
    BY <1>6 DEF First
  <2> QED BY <2>1, <2>2, <2>3 DEF LockOf
<1> QED BY <1>1, <1>2, <1>3, <1>4, <1>5, <1>6, RequestShape DEF Operation

\* What a caller holds and what it waits for
HeldTo(q, n) == {LockOf(q, i) : i \in 1..n}

\* What a call holds and wants follows from how many locks it has taken.
LEMMA HeldByPosition ==
  ASSUME NEW c \in Caller, InProgress(c), call[c].request \in Request,
         call[c].locks \in 0..LockCount(call[c].request)
  PROVE  /\ HeldBy(c) = HeldTo(call[c].request, call[c].locks)
         /\ NextLock(c) = IF call[c].pc = "lock" /\ call[c].locks < LockCount(call[c].request)
                          THEN {LockOf(call[c].request, call[c].locks + 1)} ELSE {}
<1> DEFINE q == call[c].request
           n == call[c].locks
           s == Locks(q)
<1>1. /\ LockCount(q) \in Nat /\ Len(s) = LockCount(q)
      /\ \A i \in 1..LockCount(q) : s[i] = LockOf(q, i)
  BY LocksByPosition, LockCountBounds
<1>2. Held(c) = SubSeq(s, 1, n)
  BY DEF Held
<1>3. /\ DOMAIN SubSeq(s, 1, n) = 1..n
      /\ \A i \in 1..n : SubSeq(s, 1, n)[i] = s[i]
  <2> HIDE DEF q, n, s
  <2>1. n \in 0..Len(s)
    BY <1>1 DEF n, q
  <2> QED BY <2>1
<1>4. HeldBy(c) = HeldTo(q, n)
  <2>1. \A i \in 1..n : SubSeq(s, 1, n)[i] = LockOf(q, i)
    <3> HIDE DEF q, n, s
    <3>1. n \in 0..LockCount(q)
      BY DEF n, q
    <3> QED BY <1>1, <1>3, <3>1
  <2> HIDE DEF q, n, s
  <2> QED BY <1>2, <1>3, <2>1 DEF HeldBy, HeldTo
<1>5. n < LockCount(q) => s[n + 1] = LockOf(q, n + 1)
  BY <1>1
<1>6. NextLock(c) = IF call[c].pc = "lock" /\ n < Len(s) THEN {s[n + 1]} ELSE {}
  BY DEF NextLock
<1> HIDE DEF q, n, s
<1> QED BY <1>1, <1>4, <1>5, <1>6 DEF q, n

-----------------------------------------------------------------------------
(* The invariant                                                            *)

\* Calls in progress ask for what may be asked, and hold locks they asked for
CallsOK ==
  \A c \in Caller : InProgress(c) =>
    /\ call[c].request \in Asked
    /\ call[c].locks \in 0..LockCount(call[c].request)

\* A publication locks rows once it holds all else, and is then refused; other
\* calls lock the row that what they write refers to
RowsOK ==
  \A c \in Caller : InProgress(c) /\ call[c].rows # {} =>
    LET q == call[c].request IN
    \/ /\ call[c].pc = "lock" /\ q.op = "publish"
       /\ call[c].locks = LockCount(q) /\ ClashRows(q) # {}
    \/ call[c].pc = "write" /\ call[c].rows \subseteq References(q, call[c].found)

\* A lock has one holder
Exclusive ==
  \A c, d \in Caller : c # d /\ InProgress(c) /\ InProgress(d) =>
    \A i \in 1..call[c].locks, j \in 1..call[d].locks :
      LockOf(call[c].request, i) # LockOf(call[d].request, j)

\* Nobody else holds a row that a call has locked, and a publication has its rows alone
RowsApart ==
  \A c, d \in Caller : c # d /\ InProgress(c) /\ InProgress(d) =>
    \A l \in call[c].rows :
      /\ \A j \in 1..call[d].locks : l # LockOf(call[d].request, j)
      /\ call[c].request.op = "publish" => l \notin call[d].rows

\* A release is what its one publication says, but for its status
Origin ==
  /\ idempotency \subseteq Asked
  /\ \A d \in Release :
       IF releases[d].status = "absent" THEN releases[d] = NoRelease
       ELSE \E p \in idempotency :
              /\ p.op = "publish" /\ p.release = d
              /\ releases[d].agent = p.agent
              /\ releases[d].version = p.version /\ releases[d].image = p.image

\* No two releases share an image, or a version of an agent
Sole ==
  \A d, e \in Release : d # e /\ releases[d].status # "absent" /\ releases[e].status # "absent" =>
    /\ releases[d].image # releases[e].image
    /\ ~(releases[d].agent = releases[e].agent /\ releases[d].version = releases[e].version)

\* What a call found, which nobody else can change while it holds its locks
Found(q, found) ==
  /\ Unique(q, found)
  /\ q.op = "default" => Published(q.release) /\ releases[q.release].agent = q.agent
  /\ q.op = "deprecate" => /\ releases[q.release].status # "absent"
                           /\ default[q.agent] # q.release

Writing(c) == InProgress(c) /\ call[c].pc = "write"
Checked ==
  \A c \in Caller : Writing(c) =>
    /\ FirstLocks(call[c].request) <= call[c].locks
    /\ Found(call[c].request, call[c].found)

LockInv == RTypeOK /\ CallsOK /\ Exclusive
CatalogInv == Origin /\ Sole /\ Checked /\ DefaultIsPublished /\ NoUniqueViolation
RowInv == RowsOK /\ RowsApart
RInv == LockInv /\ CatalogInv /\ RowInv

-----------------------------------------------------------------------------
(* What a step does to the call it is a step of                             *)

Active == [pc : {"lock", "write"}, request : Request, locks : 0..4, rows : SUBSET RowLock,
           found : {"none", "row"} \cup AccessGrant]
Ready == {Idle} \cup [pc : {"idle"}, answer : {"stored", "refused"}]

\* The call ends, begins, takes its next lock, or passes the checks
Ends(c) == call'[c] \in Ready
Begins(c) ==
  /\ call'[c] \in Active /\ call'[c].request \in Asked /\ call'[c].pc = "lock"
  /\ call'[c].locks = 0 /\ call'[c].rows = {}
Keeps(c) ==
  /\ InProgress(c) /\ call[c].pc = "lock"
  /\ call'[c] \in Active /\ call'[c].request = call[c].request
  /\ call'[c].rows = call[c].rows
Takes(c) ==
  /\ Keeps(c) /\ call'[c].pc = "lock" /\ call'[c].locks = call[c].locks + 1
  /\ call[c].locks < LockCount(call[c].request)
  /\ \A d \in Caller \ {c} : InProgress(d) =>
       /\ LockOf(call[c].request, call[c].locks + 1) \notin call[d].rows
       /\ \A j \in 1..call[d].locks :
            LockOf(call[c].request, call[c].locks + 1) # LockOf(call[d].request, j)
TakesRow(c) ==
  /\ InProgress(c) /\ call'[c] \in Active /\ NextLock(c) = {}
  /\ \E l \in NextRows(c) :
       /\ call'[c] = [call[c] EXCEPT !.rows = call[c].rows \cup {l}]
       /\ \A d \in Caller \ {c} : ~InTheWay(d, c, l)
Passes(c) ==
  /\ Keeps(c) /\ call'[c].pc = "write" /\ call'[c].locks = call[c].locks
  /\ call[c].locks = LockCount(call[c].request)
  /\ Found(call[c].request, call'[c].found)

\* A call is ready or active, never both.
LEMMA CallTyped ==
  ASSUME RTypeOK, NEW c \in Caller
  PROVE  /\ call \in [Caller -> Ready \cup Active]
         /\ InProgress(c) => call[c] \in Active
         /\ call[c] \in Ready => ~InProgress(c)
<1>1. call \in [Caller -> Ready \cup Active]
  BY DEF RTypeOK, Ready, Active
<1>2. \A x \in Ready : x.pc = "idle"
  BY DEF Ready, Idle
<1> QED BY <1>1, <1>2 DEF InProgress

\* A call in progress: its request and its locks.
LEMMA CallPosition ==
  ASSUME RTypeOK, CallsOK, NEW c \in Caller, InProgress(c)
  PROVE  /\ call[c] \in Active /\ call[c].request \in Asked /\ call[c].request \in Request
         /\ call[c].locks \in 0..LockCount(call[c].request)
         /\ HeldBy(c) = HeldTo(call[c].request, call[c].locks)
         /\ NextLock(c) = IF call[c].pc = "lock" /\ call[c].locks < LockCount(call[c].request)
                          THEN {LockOf(call[c].request, call[c].locks + 1)} ELSE {}
<1>1. call[c] \in Active
  BY CallTyped
<1>2. call[c].request \in Request
  BY <1>1 DEF Active
<1>3. call[c].request \in Asked /\ call[c].locks \in 0..LockCount(call[c].request)
  BY DEF CallsOK
<1> QED BY <1>1, <1>2, <1>3, HeldByPosition

\* An answered call is ready for the next request.
LEMMA AnswerReady == \A q : Answer(q, "stored") \in Ready /\ Answer(q, "refused") \in Ready
  BY DEF Answer, Ready

\* Each kind of step, as what it does to the one call that takes it.
LEMMA ReceiveCalls ==
  ASSUME RTypeOK, NEW c \in Caller, NEW q \in Asked, Receive(c, q)
  PROVE  Begins(c) /\ \A d \in Caller \ {c} : call'[d] = call[d]
<1> DEFINE x == [pc |-> "lock", request |-> q, locks |-> 0, rows |-> {}, found |-> "none"]
<1>1. call' = [call EXCEPT ![c] = x]
  BY DEF Receive
<1>2. x \in Active /\ x.request \in Asked /\ x.locks = 0 /\ x.rows = {} /\ x.pc = "lock"
  BY RegistryAssumption DEF Active
<1> HIDE DEF x
<1> QED BY <1>1, <1>2, CallTyped DEF Begins

LEMMA LockCalls ==
  ASSUME RTypeOK, CallsOK, NEW c \in Caller, Lock(c)
  PROVE  Takes(c) /\ \A d \in Caller \ {c} : call'[d] = call[d]
<1> DEFINE x == [call[c] EXCEPT !.locks = call[c].locks + 1]
<1>1. InProgress(c) /\ call' = [call EXCEPT ![c] = x] /\ NextLock(c) # {}
  BY DEF Lock
<1>2. /\ call[c] \in Active /\ call[c].request \in Request
      /\ call[c].locks \in 0..LockCount(call[c].request)
      /\ call[c].locks < LockCount(call[c].request) /\ call[c].pc = "lock"
      /\ NextLock(c) = {LockOf(call[c].request, call[c].locks + 1)}
  BY <1>1, CallPosition
<1>3. LockCount(call[c].request) \in 1..4
  BY <1>2, LockCountBounds
<1>4. /\ x \in Active /\ x.request = call[c].request /\ x.pc = "lock"
      /\ x.locks = call[c].locks + 1 /\ x.rows = call[c].rows
  <2>1. call[c].locks + 1 \in 0..4
    BY <1>2, <1>3
  <2> QED BY <1>2, <2>1 DEF Active
<1>9. ASSUME NEW d \in Caller \ {c}, InProgress(d)
      PROVE  LockOf(call[c].request, call[c].locks + 1) \notin HeldBy(d) \cup call[d].rows
  <2>1. Wants(c) = NextLock(c)
    BY <1>1, Zenon DEF Wants
  <2>2. ~Blocks(d, c)
    BY DEF Lock
  <2>3. ~InTheWay(d, c, LockOf(call[c].request, call[c].locks + 1))
    BY <1>2, <2>1, <2>2 DEF Blocks
  <2> QED BY <1>2, <1>9, <2>3 DEF InTheWay, Taken, Shared, SharesRows
<1>5. ASSUME NEW d \in Caller \ {c}, InProgress(d), NEW j \in 1..call[d].locks
      PROVE  LockOf(call[c].request, call[c].locks + 1) # LockOf(call[d].request, j)
  <2>1. LockOf(call[d].request, j) \in HeldBy(d)
    BY <1>5, CallPosition DEF HeldTo
  <2> QED BY <1>5, <1>9, <2>1
<1> HIDE DEF x
<1>6. call'[c] = x /\ \A d \in Caller \ {c} : call'[d] = call[d]
  BY <1>1, CallTyped
<1> QED BY <1>1, <1>2, <1>4, <1>5, <1>6, <1>9 DEF Takes, Keeps

LEMMA EndCalls ==
  ASSUME RTypeOK, NEW c \in Caller, Replay(c) \/ Write(c) \/ Abandon(c)
  PROVE  Ends(c) /\ \A d \in Caller \ {c} : call'[d] = call[d]
<1>1. \E x \in Ready : call' = [call EXCEPT ![c] = x]
  <2>1. CASE Replay(c)
    <3>1. call' = [call EXCEPT ![c] =
              Answer(call[c].request,
                     IF call[c].request \in idempotency THEN "stored" ELSE "refused")]
      BY <2>1 DEF Replay
    <3> QED BY <3>1, AnswerReady
  <2>2. CASE Write(c)
    <3>1. \/ call' = [call EXCEPT ![c] = Answer(call[c].request, "stored")]
          \/ call' = [call EXCEPT ![c] = Answer(call[c].request, "refused")]
      BY <2>2 DEF Write
    <3> QED BY <3>1, AnswerReady
  <2>3. CASE Abandon(c)
    <3>1. call' = [call EXCEPT ![c] = Answer(call[c].request, "refused")]
      BY <2>3 DEF Abandon
    <3> QED BY <3>1, AnswerReady
  <2> QED BY <2>1, <2>2, <2>3
<1> QED BY <1>1, CallTyped DEF Ends

LEMMA LockRowCalls ==
  ASSUME RTypeOK, NEW c \in Caller, LockRow(c)
  PROVE  TakesRow(c) /\ \A d \in Caller \ {c} : call'[d] = call[d]
<1>1. InProgress(c) /\ NextLock(c) = {}
  BY DEF LockRow
<1>2. PICK l \in NextRows(c) : /\ call' = [call EXCEPT ![c].rows = @ \cup {l}]
                               /\ \A d \in Caller \ {c} : ~InTheWay(d, c, l)
  BY DEF LockRow
<1> DEFINE x == [call[c] EXCEPT !.rows = call[c].rows \cup {l}]
<1>3. call[c] \in Active /\ call[c].request \in Request
  BY <1>1, CallTyped DEF Active
<1>4. l \in RowLock
  <2>1. CASE l \in ClashRows(call[c].request)
    <3>1. PICK d \in Release : l = <<"release", d>>
      BY <2>1 DEF ClashRows
    <3> QED BY <3>1 DEF RowLock
  <2>2. CASE l \in References(call[c].request, call[c].found)
    <3>1. call[c].found \in {"none", "row"} \cup AccessGrant
      BY <1>3 DEF Active
    <3>2. \/ \E a \in Agent : l = <<"agent row", a>>
          \/ \E g \in AccessGrant : l = <<"grant row", g>>
          \/ \E d \in Release : l = <<"release", d>>
      BY <1>3, <2>2, <3>1, RequestShape DEF References
    <3>3. ASSUME NEW a \in Agent PROVE <<"agent row", a>> \in RowLock
      BY DEF RowLock
    <3>4. ASSUME NEW g \in AccessGrant PROVE <<"grant row", g>> \in RowLock
      BY DEF RowLock
    <3>5. ASSUME NEW d \in Release PROVE <<"release", d>> \in RowLock
      BY DEF RowLock
    <3> QED BY <3>2, <3>3, <3>4, <3>5
  <2> QED BY <2>1, <2>2 DEF NextRows
<1>5. x \in Active
  BY <1>3, <1>4 DEF Active
<1>6. call' = [call EXCEPT ![c] = x]
  BY <1>2
<1> HIDE DEF x
<1>7. call'[c] = x /\ \A d \in Caller \ {c} : call'[d] = call[d]
  BY <1>6, CallTyped
<1> QED BY <1>1, <1>2, <1>5, <1>7 DEF TakesRow, x

\* What the checks establish, as far as a later write needs it
LEMMA CheckFinds ==
  ASSUME NEW q \in Request, ~Replayed(q), ~Refused(q), NEW f \in Finds(q)
  PROVE  Found(q, f) /\ f \in {"none", "row"} \cup AccessGrant
<1>0. f \in {"none", "row"} \cup AccessGrant /\ (Existing(q) => f # "none")
  <2>1. CASE ~Existing(q)
    BY <2>1 DEF Finds
  <2>2. CASE Existing(q) /\ q.op = "grant"
    BY <2>2, RegistryAssumption DEF Finds
  <2>3. CASE Existing(q) /\ q.op # "grant"
    BY <2>3 DEF Finds
  <2> QED BY <2>1, <2>2, <2>3
<1>1. f = "none" => ~Existing(q)
  BY <1>0
<1>2. q.op = "publish" => /\ \A d \in Release : ~Clash(q, d)
                          /\ f = "none" => ~AgentKnown(q.agent)
  BY <1>1 DEF Refused, Existing
<1>3. q.op = "grant" /\ f = "none" => ~MayRun(q.user, q.agent)
  BY <1>1 DEF Existing
<1>4. q.op = "resolve" /\ f = "none" => specs[q.run] = NoSpec
  BY <1>1 DEF Existing
<1>5. q.op = "default" => Published(q.release) /\ releases[q.release].agent = q.agent
  BY DEF Refused
<1>6. q.op = "deprecate" => /\ releases[q.release].status # "absent"
                            /\ default[q.agent] # q.release
  BY DEF Refused
<1> QED BY <1>0, <1>2, <1>3, <1>4, <1>5, <1>6 DEF Found, Unique

LEMMA CheckCalls ==
  ASSUME RTypeOK, CallsOK, NEW c \in Caller, Check(c)
  PROVE  (Ends(c) \/ Passes(c)) /\ \A d \in Caller \ {c} : call'[d] = call[d]
<1> DEFINE q == call[c].request
           x(f) == [call[c] EXCEPT !.pc = "write", !.found = f]
<1>1. InProgress(c) /\ call[c].pc = "lock" /\ NextLock(c) = {} /\ ~Replayed(q)
  BY DEF Check, LocksTaken
<1>2. /\ call[c] \in Active /\ q \in Request /\ call[c].locks \in 0..LockCount(q)
      /\ call[c].locks = LockCount(q)
  <2>1. /\ call[c] \in Active /\ q \in Request /\ call[c].locks \in 0..LockCount(q)
        /\ ~(call[c].locks < LockCount(q))
    BY <1>1, CallPosition
  <2> HIDE DEF q
  <2>2. LockCount(q) \in Nat
    BY <2>1, LockCountBounds
  <2> QED BY <2>1, <2>2
<1>3. CASE Refused(q)
  <2>1. call' = [call EXCEPT ![c] = Answer(q, "refused")]
    BY <1>3 DEF Check
  <2> HIDE DEF q
  <2> QED BY <2>1, AnswerReady, CallTyped DEF Ends
<1>4. CASE ~Refused(q)
  <2>1. PICK f \in Finds(q) : call' = [call EXCEPT ![c] = x(f)]
    BY <1>4 DEF Check
  <2>2. Found(q, f) /\ f \in {"none", "row"} \cup AccessGrant
    <3> HIDE DEF q
    <3> QED BY <1>1, <1>2, <1>4, CheckFinds
  <2>3. /\ x(f) \in Active /\ x(f).request = q /\ x(f).pc = "write"
        /\ x(f).locks = call[c].locks /\ x(f).rows = call[c].rows /\ x(f).found = f
    BY <1>2, <2>2 DEF Active
  <2> HIDE DEF x
  <2>4. call'[c] = x(f) /\ \A d \in Caller \ {c} : call'[d] = call[d]
    BY <2>1, CallTyped
  <2>5. Passes(c)
    BY <1>1, <1>2, <2>2, <2>3, <2>4 DEF Passes, Keeps
  <2> QED BY <2>4, <2>5
<1> QED BY <1>3, <1>4

-----------------------------------------------------------------------------
(* Two calls that write hold different locks, so they touch different rows  *)

Apart(p, q) ==
  /\ ~SameKey(p, q)
  /\ p.op = "publish" /\ q.op = "publish" => p.agent # q.agent /\ p.image # q.image
  /\ p.op = "default" /\ q.op = "deprecate" => p.agent # q.agent
  /\ p.op = "deprecate" /\ q.op = "default" => p.release # q.release
  /\ p.op = "grant" /\ q.op = "grant" => ~(p.agent = q.agent /\ p.user = q.user)
  /\ p.op = "resolve" /\ q.op = "resolve" => p.run # q.run

\* Two requests whose first locks differ have different rows and keys.
LEMMA LocksApart ==
  ASSUME NEW p \in Asked, NEW q \in Asked,
         \A i \in 1..FirstLocks(p), j \in 1..FirstLocks(q) : LockOf(p, i) # LockOf(q, j)
  PROVE  Apart(p, q)
<1>1. p \in Request /\ q \in Request
  BY RegistryAssumption
<1>2. First(p) # First(q)
  <2>1. 1 \in 1..FirstLocks(p) /\ 1 \in 1..FirstLocks(q)
    BY <1>1, LockCountBounds
  <2> QED BY <2>1 DEF LockOf
<1>3. p.op # "resolve" /\ q.op # "resolve" => Second(p) # Second(q)
  <2>1. p.op # "resolve" /\ q.op # "resolve" => 2 \in 1..FirstLocks(p) /\ 2 \in 1..FirstLocks(q)
    BY <1>1, RequestShape DEF FirstLocks, Operation
  <2> QED BY <2>1 DEF LockOf
<1>4. p.op \in {"publish", "default", "deprecate"} /\ q.op \in {"publish", "default", "deprecate"}
        => Third(p) # Third(q)
  <2>1. p.op \in {"publish", "default", "deprecate"} /\ q.op \in {"publish", "default", "deprecate"}
          => 3 \in 1..FirstLocks(p) /\ 3 \in 1..FirstLocks(q)
    BY DEF FirstLocks
  <2> QED BY <2>1 DEF LockOf
<1>5. p.op = "resolve" /\ q.op = "resolve" => p.run # q.run
  BY <1>2 DEF First
<1>6. ~SameKey(p, q)
  <2> SUFFICES ASSUME p.op = q.op, p.key = q.key
               PROVE  FALSE
    BY DEF SameKey
  <2>1. CASE p.op = "resolve"
    BY <2>1, <1>5, RegistryIdentifiers
  <2>2. CASE p.op # "resolve"
    BY <2>2, <1>2 DEF First
  <2> QED BY <2>1, <2>2
<1>7. p.op = "publish" /\ q.op = "publish" => p.agent # q.agent /\ p.image # q.image
  BY <1>3, <1>4 DEF Second, Third
<1>8. p.op = "default" /\ q.op = "deprecate" => p.agent # q.agent
  BY <1>3 DEF Second
<1>9. p.op = "deprecate" /\ q.op = "default" => p.release # q.release
  BY <1>4 DEF Third
<1>10. p.op = "grant" /\ q.op = "grant" => ~(p.agent = q.agent /\ p.user = q.user)
  BY <1>3 DEF Second
<1> QED BY <1>5, <1>6, <1>7, <1>8, <1>9, <1>10 DEF Apart

\* Two calls that may write at the same time write different things.
LEMMA WritersApart ==
  ASSUME RInv, NEW c \in Caller, NEW d \in Caller, c # d, Writing(c), Writing(d)
  PROVE  Apart(call[c].request, call[d].request)
<1> DEFINE p == call[c].request
           q == call[d].request
<1>1. /\ InProgress(c) /\ InProgress(d)
      /\ FirstLocks(p) <= call[c].locks /\ FirstLocks(q) <= call[d].locks
  BY DEF RInv, CatalogInv, Checked, Writing
<1>2. /\ p \in Asked /\ p \in Request /\ q \in Asked /\ q \in Request
      /\ call[c].locks \in 0..LockCount(p) /\ call[d].locks \in 0..LockCount(q)
  BY <1>1, CallPosition DEF RInv, LockInv
<1>3. /\ FirstLocks(p) \in Nat /\ FirstLocks(q) \in Nat
      /\ LockCount(p) \in Nat /\ LockCount(q) \in Nat
  <2> HIDE DEF p, q
  <2> QED BY <1>2, LockCountBounds
<1>4. \A i \in 1..call[c].locks, j \in 1..call[d].locks : LockOf(p, i) # LockOf(q, j)
  BY <1>1 DEF RInv, LockInv, Exclusive
<1> HIDE DEF p, q
<1>5. \A i \in 1..FirstLocks(p), j \in 1..FirstLocks(q) : LockOf(p, i) # LockOf(q, j)
  <2>1. call[c].locks \in Nat /\ call[d].locks \in Nat
    BY <1>2, <1>3
  <2> QED BY <1>1, <1>3, <1>4, <2>1
<1>6. Apart(p, q)
  BY <1>2, <1>5, LocksApart
<1> QED BY <1>6 DEF p, q

-----------------------------------------------------------------------------
(* What a write does                                                        *)

\* The write of a request q that found what it needs
Does(q, found) ==
  /\ \/ Publish(q) \/ SetDefault(q) \/ Deprecate(q)
     \/ GrantAccess(q, found) \/ Revoke(q) \/ Resolve(q, found)
  /\ idempotency' = idempotency \cup {q}
  /\ UNCHANGED violations

\* A write does what its request asks, on what its call has found.
LEMMA WriteDoes ==
  ASSUME RInv, NEW c \in Caller, Write(c)
  PROVE  /\ Writing(c) /\ call[c] \in Active
         /\ call[c].request \in Asked /\ call[c].request \in Request
         /\ Found(call[c].request, call[c].found)
         /\ Does(call[c].request, call[c].found)
<1>1. Writing(c)
  BY DEF Write, Writing
<1>2. Found(call[c].request, call[c].found)
  BY <1>1 DEF RInv, CatalogInv, Checked
<1>3. call[c] \in Active /\ call[c].request \in Asked /\ call[c].request \in Request
  BY <1>1, CallPosition DEF RInv, LockInv, Writing
<1>4. Does(call[c].request, call[c].found)
  BY <1>2 DEF Found, Write, Does
<1> QED BY <1>1, <1>2, <1>3, <1>4

\* The columns of a release.
LEMMA ReleaseTyped ==
  ASSUME RTypeOK, NEW d \in Release
  PROVE  /\ DOMAIN releases = Release
         /\ releases[d] \in [status : {"absent", "published", "deprecated"},
                             agent : Agent \cup {"none"}, version : Version \cup {"none"},
                             image : Image \cup {"none"}]
  BY DEF RTypeOK

\* A publication of a release that is there is a replay
LEMMA PublishedOnce ==
  ASSUME RInv, NEW q \in Asked, q.op = "publish", q.release \in Release, ~Replayed(q)
  PROVE  releases[q.release] = NoRelease
<1> SUFFICES ASSUME releases[q.release].status # "absent"
             PROVE  FALSE
  BY DEF RInv, CatalogInv, Origin
<1>1. PICK p \in idempotency : p.op = "publish" /\ p.release = q.release
  BY DEF RInv, CatalogInv, Origin
<1>2. p \in Asked
  BY DEF RInv, CatalogInv, Origin
<1>3. p.key = q.key
  BY <1>1, <1>2, RegistryIdentifiers
<1> QED BY <1>1, <1>3 DEF Replayed, SameKey

\* Row by row: a write publishes an absent release, deprecates one, or keeps it
LEMMA ReleaseWritten ==
  ASSUME RInv, NEW q \in Asked, NEW f, Found(q, f), Does(q, f), NEW d \in Release
  PROVE  \/ /\ releases'[d] = releases[d] /\ ~(q.op = "publish" /\ q.release = d)
         \/ /\ q.op = "publish" /\ q.release = d /\ releases[d] = NoRelease
            /\ releases'[d] = ReleaseOf(q)
         \/ /\ q.op = "deprecate" /\ q.release = d /\ releases[d].status # "absent"
            /\ releases'[d] = [releases[d] EXCEPT !.status = "deprecated"]
<1>1. q \in Request
  BY RegistryAssumption
<1>2. DOMAIN releases = Release
  BY ReleaseTyped DEF RInv, LockInv
<1>3. CASE Publish(q)
  <2>1. q.op = "publish" /\ q.release \in Release /\ ~Replayed(q)
    BY <1>1, <1>3, RequestShape DEF Publish, Found, Unique
  <2>2. releases[q.release] = NoRelease
    BY <2>1, PublishedOnce
  <2>3. releases' = [releases EXCEPT ![q.release] = ReleaseOf(q)]
    BY <1>3 DEF Publish
  <2> QED BY <1>2, <2>1, <2>2, <2>3
<1>4. CASE Deprecate(q)
  <2>1. q.op = "deprecate" /\ releases[q.release].status # "absent"
    BY <1>4 DEF Deprecate, Found
  <2>2. releases' = [releases EXCEPT ![q.release].status = "deprecated"]
    BY <1>4 DEF Deprecate
  <2> QED BY <1>2, <2>1, <2>2
<1>5. CASE SetDefault(q) \/ GrantAccess(q, f) \/ Revoke(q) \/ Resolve(q, f)
  BY <1>5 DEF SetDefault, GrantAccess, Revoke, Resolve
<1> QED BY <1>3, <1>4, <1>5 DEF Does

\* A release that exists stays, with its identity; only deprecation changes it.
LEMMA ReleaseKept ==
  ASSUME RInv, NEW q \in Asked, NEW f, Found(q, f), Does(q, f), NEW d \in Release,
         releases[d].status # "absent"
  PROVE  /\ releases'[d].status # "absent" /\ releases'[d].agent = releases[d].agent
         /\ releases'[d].version = releases[d].version /\ releases'[d].image = releases[d].image
         /\ releases'[d].status = releases[d].status \/ (q.op = "deprecate" /\ q.release = d)
<1>1. releases[d] \in [status : {"absent", "published", "deprecated"},
                       agent : Agent \cup {"none"}, version : Version \cup {"none"},
                       image : Image \cup {"none"}]
  BY ReleaseTyped DEF RInv, LockInv
<1>2. releases[d] # NoRelease
  BY DEF NoRelease
<1>3. CASE releases'[d] = releases[d]
  BY <1>3
<1>4. CASE /\ q.op = "deprecate" /\ q.release = d
           /\ releases'[d] = [releases[d] EXCEPT !.status = "deprecated"]
  BY <1>1, <1>4
<1> QED BY <1>2, <1>3, <1>4, ReleaseWritten

\* An agent stays known, and so the locks a call has taken stay its locks
LEMMA KnownKept ==
  ASSUME RInv, NEW q \in Asked, NEW f, Found(q, f), Does(q, f), NEW a
  PROVE  /\ AgentKnown(a) => AgentKnown(a)'
         /\ AgentKnown(a)' => AgentKnown(a) \/ (q.op = "publish" /\ q.agent = a)
<1>1. AgentKnown(a) => AgentKnown(a)'
  BY ReleaseKept DEF AgentKnown
<1>2. ASSUME NEW d \in Release, releases'[d].status # "absent", releases'[d].agent = a
      PROVE  AgentKnown(a) \/ (q.op = "publish" /\ q.agent = a)
  <2>1. CASE releases[d].status # "absent"
    BY <1>2, <2>1, ReleaseKept DEF AgentKnown
  <2>2. CASE releases[d].status = "absent"
    <3>1. releases'[d] # releases[d]
      BY <1>2, <2>2
    <3>2. q.op = "publish" /\ releases'[d] = ReleaseOf(q)
      BY <2>2, <3>1, ReleaseWritten
    <3> QED BY <1>2, <3>2 DEF ReleaseOf
  <2> QED BY <2>1, <2>2
<1> QED BY <1>1, <1>2 DEF AgentKnown

\* Whatever one call writes, what another found is still there
LEMMA FoundKept ==
  ASSUME RInv, NEW p \in Asked, NEW f, Found(p, f), Does(p, f),
         NEW q \in Asked, NEW g, Found(q, g), Apart(p, q)
  PROVE  Found(q, g)'
<1>1. p \in Request /\ q \in Request
  BY RegistryAssumption
<1>2. ~Replayed(q)'
  BY DEF Found, Unique, Replayed, Does, Apart
<1>3. q.op = "publish" => /\ \A d \in Release : ~Clash(q, d)'
                          /\ g = "none" => ~AgentKnown(q.agent)'
  <2> SUFFICES ASSUME q.op = "publish"
               PROVE  /\ \A d \in Release : ~Clash(q, d)'
                      /\ g = "none" => ~AgentKnown(q.agent)'
    OBVIOUS
  <2>1. p.op = "publish" => p.agent # q.agent /\ p.image # q.image
    BY DEF Apart
  <2>2. ASSUME NEW d \in Release PROVE ~Clash(q, d)'
    <3>1. ~Clash(q, d)
      BY DEF Found, Unique
    <3>2. CASE releases[d].status # "absent"
      BY <3>1, <3>2, ReleaseKept DEF Clash
    <3>3. CASE p.op = "publish" /\ releases'[d] = ReleaseOf(p)
      BY <2>1, <3>3 DEF Clash, ReleaseOf
    <3>4. CASE releases'[d] = releases[d]
      BY <3>1, <3>4 DEF Clash
    <3> QED BY <3>2, <3>3, <3>4, ReleaseWritten
  <2>3. g = "none" => ~AgentKnown(q.agent)
    BY DEF Found, Unique
  <2> QED BY <2>1, <2>2, <2>3, KnownKept
<1>4. q.op = "grant" /\ g = "none" => ~MayRun(q.user, q.agent)'
  <2> SUFFICES ASSUME q.op = "grant", g = "none", NEW h \in AccessGrant,
                      grants'[h] = [state |-> "active", agent |-> q.agent, user |-> q.user]
               PROVE  FALSE
    BY DEF MayRun, GrantOf
  <2>1. grants[h] # [state |-> "active", agent |-> q.agent, user |-> q.user]
    BY DEF Found, Unique, MayRun, GrantOf
  <2>2. DOMAIN grants = AccessGrant
    BY DEF RInv, LockInv, RTypeOK
  <2>3. CASE GrantAccess(p, f)
    <3>1. p.op = "grant" /\ ~(p.agent = q.agent /\ p.user = q.user)
      BY <2>3 DEF GrantAccess, Apart
    <3>2. grants'[h] = GrantOf(p)
      BY <2>1, <2>2, <2>3 DEF GrantAccess
    <3> QED BY <3>1, <3>2 DEF GrantOf
  <2>4. CASE Revoke(p)
    <3>1. grants' = [grants EXCEPT ![p.grant].state = "revoked"]
      BY <2>4 DEF Revoke
    <3>2. h = p.grant
      BY <2>1, <3>1
    <3>3. grants'[h] = [grants[h] EXCEPT !.state = "revoked"]
      BY <2>2, <3>1, <3>2
    <3>4. grants[h] \in [state : {"absent", "active", "revoked"},
                         agent : Agent \cup {"none"}, user : User \cup {"none"}]
      BY DEF RInv, LockInv, RTypeOK
    <3>5. grants'[h].state = "revoked"
      BY <3>3, <3>4
    <3> QED BY <3>5
  <2>5. CASE Publish(p) \/ SetDefault(p) \/ Deprecate(p) \/ Resolve(p, f)
    BY <2>1, <2>5 DEF Publish, SetDefault, Deprecate, Resolve
  <2> QED BY <2>3, <2>4, <2>5 DEF Does
<1>5. q.op = "resolve" /\ g = "none" => specs'[q.run] = NoSpec
  <2> SUFFICES ASSUME q.op = "resolve", g = "none"
               PROVE  specs'[q.run] = NoSpec
    OBVIOUS
  <2>1. specs[q.run] = NoSpec
    BY DEF Found, Unique
  <2>2. CASE Resolve(p, f)
    <3>1. p.run # q.run
      BY <2>2 DEF Resolve, Apart
    <3> QED BY <2>1, <2>2, <3>1 DEF Resolve
  <2>3. CASE ~Resolve(p, f)
    BY <2>1, <2>3 DEF Does, Publish, SetDefault, Deprecate, GrantAccess, Revoke
  <2> QED BY <2>2, <2>3
<1>6. q.op = "default" => /\ Published(q.release)'
                          /\ releases'[q.release].agent = q.agent
  <2> SUFFICES ASSUME q.op = "default"
               PROVE  releases'[q.release].status = "published"
                      /\ releases'[q.release].agent = q.agent
    BY DEF Published
  <2>1. releases[q.release].status = "published" /\ releases[q.release].agent = q.agent
    BY DEF Found, Published
  <2>2. q.release \in Release
    BY <1>1, RequestShape
  <2>3. ~(p.op = "deprecate" /\ p.release = q.release)
    BY DEF Apart
  <2> QED BY <2>1, <2>2, <2>3, ReleaseKept
<1>7. q.op = "deprecate" => /\ releases'[q.release].status # "absent"
                            /\ default'[q.agent] # q.release
  <2> SUFFICES ASSUME q.op = "deprecate"
               PROVE  releases'[q.release].status # "absent" /\ default'[q.agent] # q.release
    OBVIOUS
  <2>1. releases[q.release].status # "absent" /\ default[q.agent] # q.release
    BY DEF Found
  <2>2. q.release \in Release
    BY <1>1, RequestShape
  <2>3. releases'[q.release].status # "absent"
    BY <2>1, <2>2, ReleaseKept
  <2>4. default'[q.agent] = default[q.agent]
    <3>1. CASE SetDefault(p)
      BY <3>1 DEF SetDefault, Apart
    <3>2. CASE ~SetDefault(p)
      BY <3>2 DEF Does, Publish, Deprecate, GrantAccess, Revoke, Resolve
    <3> QED BY <3>1, <3>2
  <2> QED BY <2>1, <2>3, <2>4
<1>8. Unique(q, g)'
  BY <1>2, <1>3, <1>4, <1>5 DEF Unique
<1> QED BY <1>6, <1>7, <1>8 DEF Found

-----------------------------------------------------------------------------
(* The invariant is kept                                                    *)

\* Every step begins, locks, checks or ends one call; only writes touch tables.
LEMMA StepKinds ==
  ASSUME RTypeOK, CallsOK, NEW c \in Caller, Step(c) \/ \E q \in Asked : Receive(c, q)
  PROVE  /\ \A d \in Caller \ {c} : call'[d] = call[d]
         /\ \E x : call' = [call EXCEPT ![c] = x]
         /\ Ends(c) \/ Begins(c) \/ Takes(c) \/ TakesRow(c) \/ Passes(c)
         /\ UNCHANGED registry \/ (Write(c) /\ Ends(c))
<1>1. CASE \E q \in Asked : Receive(c, q)
  BY <1>1, ReceiveCalls DEF Receive
<1>2. CASE Lock(c)
  BY <1>2, LockCalls DEF Lock
<1>3. CASE Check(c)
  BY <1>3, CheckCalls DEF Check
<1>4. CASE Replay(c) \/ Abandon(c)
  BY <1>4, EndCalls DEF Replay, Abandon
<1>5. CASE Write(c)
  BY <1>5, EndCalls DEF Write
<1>6. CASE LockRow(c)
  BY <1>6, LockRowCalls DEF LockRow
<1> QED BY <1>1, <1>2, <1>3, <1>4, <1>5, <1>6 DEF Step

\* Which locks a request has can only change by one more, its last
LEMMA LockCountKept ==
  ASSUME RInv, NEW c \in Caller, UNCHANGED registry \/ Write(c), NEW q \in Request
  PROVE  LockCount(q) <= LockCount(q)' /\ LockCount(q)' \in 1..4
<1>1. CASE UNCHANGED registry
  <2>1. LockCount(q)' = LockCount(q)
    BY <1>1 DEF registry, LockCount, AgentKnown
  <2> QED BY <2>1, LockCountBounds
<1>2. CASE Write(c)
  <2>1. AgentKnown(q.agent) => AgentKnown(q.agent)'
    BY <1>2, WriteDoes, KnownKept
  <2>2. FirstLocks(q) \in 1..3
    BY LockCountBounds
  <2> QED BY <2>1, <2>2 DEF LockCount
<1> QED BY <1>1, <1>2

\* Locks stay exclusive and calls stay well-formed.
LEMMA CallsKept ==
  ASSUME RInv, NEW c \in Caller, Step(c) \/ \E q \in Asked : Receive(c, q)
  PROVE  CallsOK' /\ Exclusive' /\ call' \in [Caller -> Ready \cup Active]
<1>1. RTypeOK /\ CallsOK /\ Exclusive
  BY DEF RInv, LockInv
<1>2. /\ \A d \in Caller \ {c} : call'[d] = call[d]
      /\ Ends(c) \/ Begins(c) \/ Takes(c) \/ TakesRow(c) \/ Passes(c)
      /\ UNCHANGED registry \/ Write(c)
  BY <1>1, StepKinds
<1>3. call' \in [Caller -> Ready \cup Active]
  <2>1. call'[c] \in Ready \cup Active
    BY <1>2 DEF Ends, Begins, Takes, TakesRow, Passes, Keeps
  <2>2. PICK x : call' = [call EXCEPT ![c] = x]
    BY <1>1, StepKinds
  <2>3. call \in [Caller -> Ready \cup Active]
    BY <1>1, CallTyped
  <2> QED BY <2>1, <2>2, <2>3
<1>4. \A x \in Ready : x.pc = "idle"
  BY DEF Ready, Idle
<1>5. \A x \in Active : x.pc # "idle" /\ x.request \in Request /\ x.locks \in 0..4
  BY DEF Active
\* What call c is afterwards, if it goes on
<1>6. call'[c].pc # "idle" =>
        \/ call'[c].locks = 0 /\ call'[c].request \in Asked
        \/ /\ InProgress(c) /\ call'[c].request = call[c].request
           /\ \/ call'[c].locks = call[c].locks
              \/ /\ call'[c].locks = call[c].locks + 1
                 /\ call[c].locks < LockCount(call[c].request)
                 /\ \A d \in Caller \ {c} : InProgress(d) => \A j \in 1..call[d].locks :
                      LockOf(call[c].request, call[c].locks + 1) # LockOf(call[d].request, j)
  <2>1. CASE TakesRow(c)
    BY <1>1, <2>1, CallTyped DEF TakesRow, Active
  <2>2. CASE ~TakesRow(c)
    BY <1>2, <1>4, <2>2 DEF Ends, Begins, Takes, Passes, Keeps
  <2> QED BY <2>1, <2>2
<1>7. CallsOK'
  <2> SUFFICES ASSUME NEW d \in Caller, call'[d].pc # "idle",
                      NEW q, q = call'[d].request, NEW n, n = call'[d].locks
               PROVE  q \in Asked /\ n \in 0..LockCount(q)'
    BY DEF CallsOK, InProgress, LockCount, AgentKnown, FirstLocks
  <2>3. call'[d] \in Active
    BY <1>3, <1>4
  <2>4. q \in Request /\ n \in 0..4
    BY <1>5, <2>3
  <2>5. LockCount(q) <= LockCount(q)' /\ LockCount(q)' \in 1..4 /\ LockCount(q) \in 1..4
    BY <1>2, <2>4, LockCountKept, LockCountBounds
  <2>6. q \in Asked /\ (n = 0 \/ n <= LockCount(q))
    <3>1. CASE d # c
      <4>1. call'[d] = call[d] /\ InProgress(d)
        BY <1>2, <3>1 DEF InProgress
      <4> QED BY <1>1, <2>5, <4>1 DEF CallsOK
    <3>2. CASE d = c /\ call'[c].locks = 0 /\ call'[c].request \in Asked
      BY <3>2
    <3>3. CASE /\ d = c /\ InProgress(c) /\ call'[c].request = call[c].request
               /\ \/ call'[c].locks = call[c].locks
                  \/ /\ call'[c].locks = call[c].locks + 1
                     /\ call[c].locks < LockCount(call[c].request)
      <4>1. q = call[c].request /\ q \in Asked /\ call[c].locks \in 0..LockCount(q)
        BY <1>1, <3>3 DEF CallsOK
      <4>2. \/ n = call[c].locks
            \/ n = call[c].locks + 1 /\ call[c].locks < LockCount(q)
        BY <3>3, <4>1
      <4> QED BY <2>5, <4>1, <4>2
    <3> QED BY <1>6, <3>1, <3>2, <3>3
  <2>7. n \in 0..LockCount(q)'
    BY <2>4, <2>5, <2>6
  <2> QED BY <2>6, <2>7
<1>8. Exclusive'
  <2>1. ASSUME NEW d \in Caller, d # c, call'[c].pc # "idle", call'[d].pc # "idle",
               NEW i \in 1..call'[c].locks, NEW j \in 1..call'[d].locks
        PROVE  LockOf(call'[c].request, i) # LockOf(call'[d].request, j)
    <3>1. call'[d] = call[d] /\ InProgress(d)
      BY <1>2, <2>1 DEF InProgress
    <3>2. i \in Int /\ call'[c].locks # 0
      <4>1. call'[c].locks \in 0..4
        BY <1>3, <1>4, <1>5, <2>1
      <4> QED BY <2>1, <4>1
    <3>3. InProgress(c) /\ call'[c].request = call[c].request
      BY <1>6, <2>1, <3>2
    <3>4. call[c].locks \in 0..4
      BY <1>1, <1>5, <3>3, CallTyped
    <3>5. CASE i \in 1..call[c].locks
      BY <1>1, <2>1, <3>1, <3>3, <3>5 DEF Exclusive
    <3>6. CASE i \notin 1..call[c].locks
      <4>1. i = call[c].locks + 1 /\ call'[c].locks = call[c].locks + 1
        BY <1>6, <2>1, <3>2, <3>4, <3>6
      <4>2. call[c].locks + 1 # call[c].locks
        BY <3>4
      <4>3. \A k \in 1..call[d].locks :
              LockOf(call[c].request, call[c].locks + 1) # LockOf(call[d].request, k)
        BY <1>6, <2>1, <3>1, <3>2, <4>1, <4>2
      <4> QED BY <2>1, <3>1, <3>3, <4>1, <4>3
    <3> QED BY <3>5, <3>6
  <2>2. ASSUME NEW d \in Caller, NEW e \in Caller, d # e, d # c, e # c,
               call'[d].pc # "idle", call'[e].pc # "idle",
               NEW i \in 1..call'[d].locks, NEW j \in 1..call'[e].locks
        PROVE  LockOf(call'[d].request, i) # LockOf(call'[e].request, j)
    <3>1. call'[d] = call[d] /\ call'[e] = call[e] /\ InProgress(d) /\ InProgress(e)
      BY <1>2, <2>2 DEF InProgress
    <3> QED BY <1>1, <2>2, <3>1 DEF Exclusive
  <2>3. ASSUME NEW d \in Caller, NEW e \in Caller, d # e,
               call'[d].pc # "idle", call'[e].pc # "idle",
               NEW i \in 1..call'[d].locks, NEW j \in 1..call'[e].locks
        PROVE  LockOf(call'[d].request, i) # LockOf(call'[e].request, j)
    <3>1. CASE d = c
      BY <2>1, <2>3, <3>1
    <3>2. CASE e = c
      BY <2>1, <2>3, <3>2
    <3> QED BY <2>2, <2>3, <3>1, <3>2
  <2> QED BY <2>3, ZenonT(40) DEF Exclusive, InProgress, LockOf, First, Second, Third, Fourth
<1> QED BY <1>3, <1>7, <1>8

\* The columns of the tables, after a write of q
LEMMA TablesKept ==
  ASSUME RTypeOK, NEW q \in Asked, NEW f, Does(q, f)
  PROVE  /\ releases' \in [Release -> [status : {"absent", "published", "deprecated"},
                                       agent : Agent \cup {"none"}, version : Version \cup {"none"},
                                       image : Image \cup {"none"}]]
         /\ default' \in [Agent -> Release \cup {"none"}]
         /\ grants' \in [AccessGrant -> [state : {"absent", "active", "revoked"},
                                         agent : Agent \cup {"none"}, user : User \cup {"none"}]]
         /\ specs' \in [Run -> [release : Release \cup {"none"}, user : User \cup {"none"}]]
         /\ idempotency' \subseteq Request
<1> DEFINE ReleaseRow == [status : {"absent", "published", "deprecated"},
                          agent : Agent \cup {"none"}, version : Version \cup {"none"},
                          image : Image \cup {"none"}]
           GrantRow == [state : {"absent", "active", "revoked"},
                        agent : Agent \cup {"none"}, user : User \cup {"none"}]
           SpecRow == [release : Release \cup {"none"}, user : User \cup {"none"}]
<1>1. /\ releases \in [Release -> ReleaseRow] /\ default \in [Agent -> Release \cup {"none"}]
      /\ grants \in [AccessGrant -> GrantRow] /\ specs \in [Run -> SpecRow]
      /\ idempotency \subseteq Request
  BY DEF RTypeOK
<1>2. q \in Request
  BY RegistryAssumption
<1>3. idempotency' \subseteq Request
  BY <1>1, <1>2 DEF Does
<1>4. CASE Publish(q)
  <2>1. ReleaseOf(q) \in ReleaseRow
    BY <1>2, <1>4, RequestShape DEF Publish, ReleaseOf
  <2>2. /\ releases' = [releases EXCEPT ![q.release] = ReleaseOf(q)]
        /\ UNCHANGED <<default, grants, specs>>
    BY <1>4 DEF Publish
  <2> HIDE DEF ReleaseRow, GrantRow, SpecRow
  <2>3. releases' \in [Release -> ReleaseRow]
    BY <1>1, <2>1, <2>2
  <2>4. UNCHANGED <<default, grants, specs>>
    BY <2>2
  <2> QED BY <1>1, <1>3, <2>3, <2>4 DEF ReleaseRow, GrantRow, SpecRow
<1>5. CASE Deprecate(q)
  <2>1. /\ releases' = [releases EXCEPT ![q.release].status = "deprecated"]
        /\ UNCHANGED <<default, grants, specs>>
    BY <1>5 DEF Deprecate
  <2>2. q.release \in Release
    BY <1>2, <1>5, RequestShape DEF Deprecate
  <2> DEFINE x == [releases[q.release] EXCEPT !.status = "deprecated"]
  <2>3. releases' = [releases EXCEPT ![q.release] = x]
    BY <2>1
  <2>4. x \in ReleaseRow
    <3>1. releases[q.release] \in ReleaseRow
      BY <1>1, <2>2
    <3> QED BY <3>1
  <2> HIDE DEF x, ReleaseRow
  <2>5. releases' \in [Release -> ReleaseRow]
    BY <1>1, <2>3, <2>4
  <2> QED BY <1>1, <1>3, <2>1, <2>5 DEF ReleaseRow
<1>6. CASE SetDefault(q)
  <2>1. q.release \in Release
    BY <1>2, <1>6, RequestShape DEF SetDefault
  <2>2. /\ default' = [default EXCEPT ![q.agent] = q.release]
        /\ UNCHANGED <<releases, grants, specs>>
    BY <1>6 DEF SetDefault
  <2> QED BY <1>1, <1>3, <2>1, <2>2
<1>7. CASE GrantAccess(q, f)
  <2>1. GrantOf(q) \in GrantRow
    BY <1>2, <1>7, RequestShape DEF GrantAccess, GrantOf
  <2>2. /\ grants' = grants \/ grants' = [grants EXCEPT ![q.grant] = GrantOf(q)]
        /\ UNCHANGED <<releases, default, specs>>
    BY <1>7 DEF GrantAccess
  <2>3. grants' \in [AccessGrant -> GrantRow]
    <3> HIDE DEF GrantRow
    <3> QED BY <1>1, <2>1, <2>2
  <2> QED BY <1>1, <1>3, <2>2, <2>3
<1>8. CASE Revoke(q)
  <2>1. /\ grants' = [grants EXCEPT ![q.grant].state = "revoked"]
        /\ UNCHANGED <<releases, default, specs>>
    BY <1>8 DEF Revoke
  <2>2. q.grant \in AccessGrant
    BY <1>2, <1>8, RequestShape DEF Revoke
  <2> DEFINE x == [grants[q.grant] EXCEPT !.state = "revoked"]
  <2>3. grants' = [grants EXCEPT ![q.grant] = x]
    BY <2>1
  <2>4. x \in GrantRow
    <3>1. grants[q.grant] \in GrantRow
      BY <1>1, <2>2
    <3> QED BY <3>1
  <2> HIDE DEF x, GrantRow
  <2>5. grants' \in [AccessGrant -> GrantRow]
    BY <1>1, <2>3, <2>4
  <2> QED BY <1>1, <1>3, <2>1, <2>5 DEF GrantRow
<1>9. CASE Resolve(q, f)
  <2>1. [release |-> q.release, user |-> q.user] \in SpecRow
    BY <1>2, <1>9, RequestShape DEF Resolve
  <2>2. /\ \/ specs' = specs
           \/ specs' = [specs EXCEPT ![q.run] = [release |-> q.release, user |-> q.user]]
        /\ UNCHANGED <<releases, default, grants>>
    BY <1>9 DEF Resolve
  <2>3. specs' \in [Run -> SpecRow]
    <3> HIDE DEF SpecRow
    <3> QED BY <1>1, <2>1, <2>2
  <2> QED BY <1>1, <1>3, <2>2, <2>3
<1> QED BY <1>4, <1>5, <1>6, <1>7, <1>8, <1>9 DEF Does

\* Types need no locks
LEMMA RTypesKept ==
  ASSUME RTypeOK, NEW c \in Caller, Step(c) \/ \E q \in Asked : Receive(c, q),
         InProgress(c) => call[c].request \in Asked
  PROVE  RTypeOK'
<1>1. \E x \in Ready \cup Active : call' = [call EXCEPT ![c] = x]
  <2>1. CASE \E q \in Asked : Receive(c, q)
    <3>1. PICK q \in Asked : Receive(c, q)
      BY <2>1
    <3>2. [pc |-> "lock", request |-> q, locks |-> 0, rows |-> {}, found |-> "none"] \in Active
      BY RegistryAssumption DEF Active
    <3> QED BY <3>1, <3>2 DEF Receive
  <2>2. CASE Lock(c)
    <3>1. call[c] \in Active /\ call[c].request \in Request
      BY <2>2, CallTyped DEF Lock, Active
    <3>2. Len(Locks(call[c].request)) \in 1..4
      BY <3>1, LocksByPosition, LockCountBounds
    <3>3. call[c].locks < Len(Locks(call[c].request))
      BY <2>2 DEF Lock, NextLock
    <3>4. call[c].locks \in 0..4
      BY <3>1 DEF Active
    <3>5. call[c].locks + 1 \in 0..4
      <4> DEFINE n == call[c].locks
                 m == Len(Locks(call[c].request))
      <4>1. n \in Nat /\ m \in 1..4 /\ n < m
        BY <3>2, <3>3, <3>4
      <4> HIDE DEF n, m
      <4>2. n + 1 \in 0..4
        BY <4>1
      <4> QED BY <4>2 DEF n
    <3>6. [call[c] EXCEPT !.locks = call[c].locks + 1] \in Active
      BY <3>1, <3>5 DEF Active
    <3>7. call' = [call EXCEPT ![c] = [call[c] EXCEPT !.locks = call[c].locks + 1]]
      BY <2>2 DEF Lock
    <3> QED BY <3>6, <3>7
  <2>3. CASE Check(c)
    <3>1. call[c] \in Active
      BY <2>3, CallTyped DEF Check
    <3>2. \A f \in {"none", "row"} \cup AccessGrant : [call[c] EXCEPT !.pc = "write", !.found = f] \in Active
      BY <3>1 DEF Active
    <3>3. \/ call' = [call EXCEPT ![c] = Answer(call[c].request, "refused")]
          \/ \E f \in {"none", "row"} \cup AccessGrant :
               call' = [call EXCEPT ![c] = [call[c] EXCEPT !.pc = "write", !.found = f]]
      BY <2>3 DEF Check, Finds
    <3> QED BY <3>2, <3>3, AnswerReady
  <2>4. CASE Replay(c)
    BY <2>4, AnswerReady DEF Replay
  <2>5. CASE Write(c)
    BY <2>5, AnswerReady DEF Write
  <2>6. CASE Abandon(c)
    BY <2>6, AnswerReady DEF Abandon
  <2>7. CASE LockRow(c)
    <3>1. TakesRow(c)
      BY <2>7, LockRowCalls
    <3>2. call'[c] \in Active /\ \E x : call' = [call EXCEPT ![c] = x]
      BY <2>7, <3>1 DEF TakesRow, LockRow
    <3> QED BY <3>2, CallTyped
  <2> QED BY <2>1, <2>2, <2>3, <2>4, <2>5, <2>6, <2>7 DEF Step
<1>2. call' \in [Caller -> Ready \cup Active]
  BY <1>1, CallTyped
<1>3. CASE UNCHANGED <<releases, default, grants, specs, idempotency>>
  BY <1>2, <1>3 DEF RTypeOK, Ready, Active
<1>4. CASE Write(c) /\ Does(call[c].request, call[c].found)
  <2>1. PICK q, f : q = call[c].request /\ f = call[c].found
    OBVIOUS
  <2>2. q \in Asked /\ Does(q, f)
    BY <1>4, <2>1 DEF Write
  <2> QED BY <1>2, <2>2, TablesKept DEF RTypeOK, Ready, Active
<1>5. UNCHANGED <<releases, default, grants, specs, idempotency>>
        \/ (Write(c) /\ Does(call[c].request, call[c].found))
  <2>1. CASE Write(c)
    BY <2>1 DEF Write, Does
  <2>2. CASE ~Write(c)
    BY <2>2 DEF Step, Lock, LockRow, Replay, Check, Abandon, Receive, registry
  <2> QED BY <2>1, <2>2
<1> QED BY <1>3, <1>4, <1>5

\* The catalog, after a write of q
LEMMA OriginKept ==
  ASSUME RInv, NEW q \in Asked, NEW f, Found(q, f), Does(q, f)
  PROVE  Origin'
<1>1. idempotency' = idempotency \cup {q} /\ idempotency \subseteq Asked
  BY DEF Does, RInv, CatalogInv, Origin
<1>2. ASSUME NEW d \in Release
      PROVE  IF releases'[d].status = "absent" THEN releases'[d] = NoRelease
             ELSE \E p \in idempotency' :
                    /\ p.op = "publish" /\ p.release = d
                    /\ releases'[d].agent = p.agent
                    /\ releases'[d].version = p.version /\ releases'[d].image = p.image
  <2>1. CASE releases[d].status # "absent"
    <3>1. PICK p \in idempotency :
             /\ p.op = "publish" /\ p.release = d
             /\ releases[d].agent = p.agent
             /\ releases[d].version = p.version /\ releases[d].image = p.image
      BY <2>1 DEF RInv, CatalogInv, Origin
    <3>2. /\ releases'[d].status # "absent" /\ releases'[d].agent = releases[d].agent
          /\ releases'[d].version = releases[d].version /\ releases'[d].image = releases[d].image
      BY <2>1, ReleaseKept
    <3> QED BY <1>1, <3>1, <3>2
  <2>2. CASE releases[d].status = "absent"
    <3>1. releases[d] = NoRelease
      BY <2>2 DEF RInv, CatalogInv, Origin
    <3>2. CASE releases'[d] = releases[d]
      BY <2>2, <3>1, <3>2
    <3>3. CASE q.op = "publish" /\ q.release = d /\ releases'[d] = ReleaseOf(q)
      BY <1>1, <3>3 DEF ReleaseOf
    <3> QED BY <2>2, <3>2, <3>3, ReleaseWritten
  <2> QED BY <2>1, <2>2
<1> QED BY <1>1, <1>2 DEF Origin

\* A write leaves no two rows that a unique constraint forbids.
LEMMA SoleKept ==
  ASSUME RInv, NEW q \in Asked, NEW f, Found(q, f), Does(q, f)
  PROVE  Sole'
<1> SUFFICES ASSUME NEW d \in Release, NEW e \in Release, d # e,
                    releases'[d].status # "absent", releases'[e].status # "absent"
             PROVE  /\ releases'[d].image # releases'[e].image
                    /\ ~(/\ releases'[d].agent = releases'[e].agent
                         /\ releases'[d].version = releases'[e].version)
  BY DEF Sole
<1>1. ASSUME NEW x \in Release, releases'[x].status # "absent", releases[x].status = "absent"
      PROVE  q.op = "publish" /\ q.release = x /\ releases'[x] = ReleaseOf(q)
  BY <1>1, ReleaseWritten
<1>2. ASSUME NEW x \in Release, NEW y \in Release, x # y, releases'[x].status # "absent",
             releases[x].status = "absent", releases'[y].status # "absent"
      PROVE  /\ releases'[x].image # releases'[y].image
             /\ ~(/\ releases'[x].agent = releases'[y].agent
                  /\ releases'[x].version = releases'[y].version)
  <2>1. q.op = "publish" /\ q.release = x /\ releases'[x] = ReleaseOf(q)
    BY <1>1, <1>2
  <2>2. releases[y].status # "absent"
    BY <1>1, <1>2, <2>1
  <2>3. ~Clash(q, y)
    BY <2>1 DEF Found, Unique
  <2>4. /\ releases'[y].agent = releases[y].agent
        /\ releases'[y].version = releases[y].version /\ releases'[y].image = releases[y].image
    BY <2>2, ReleaseKept
  <2> QED BY <2>1, <2>2, <2>3, <2>4 DEF Clash, ReleaseOf
<1>3. CASE releases[d].status # "absent" /\ releases[e].status # "absent"
  <2>1. /\ releases'[d].agent = releases[d].agent
        /\ releases'[d].version = releases[d].version /\ releases'[d].image = releases[d].image
    BY <1>3, ReleaseKept
  <2>2. /\ releases'[e].agent = releases[e].agent
        /\ releases'[e].version = releases[e].version /\ releases'[e].image = releases[e].image
    BY <1>3, ReleaseKept
  <2>3. /\ releases[d].image # releases[e].image
        /\ ~(releases[d].agent = releases[e].agent /\ releases[d].version = releases[e].version)
    BY <1>3 DEF RInv, CatalogInv, Sole
  <2> QED BY <2>1, <2>2, <2>3
<1> QED BY <1>2, <1>3

\* A write leaves the default of each agent one of its published releases.
LEMMA DefaultKept ==
  ASSUME RInv, NEW q \in Asked, NEW f, Found(q, f), Does(q, f)
  PROVE  DefaultIsPublished'
<1> SUFFICES ASSUME NEW a \in Agent, default'[a] # "none"
             PROVE  releases'[default'[a]].status = "published"
                    /\ releases'[default'[a]].agent = a
  BY DEF DefaultIsPublished, Published
<1>1. q \in Request
  BY RegistryAssumption
<1>2. CASE SetDefault(q) /\ q.agent = a
  <2>1. default'[a] = q.release /\ q.op = "default" /\ UNCHANGED releases
    BY <1>2 DEF SetDefault, RInv, LockInv, RTypeOK
  <2> QED BY <1>2, <2>1 DEF Found, Published
<1>3. CASE ~(SetDefault(q) /\ q.agent = a)
  <2>1. default'[a] = default[a]
    <3>1. CASE SetDefault(q)
      BY <1>3, <3>1 DEF SetDefault, RInv, LockInv, RTypeOK
    <3>2. CASE ~SetDefault(q)
      BY <3>2 DEF Does, Publish, Deprecate, GrantAccess, Revoke, Resolve
    <3> QED BY <3>1, <3>2
  <2>2. PICK d : d = default[a]
    OBVIOUS
  <2>3. d \in Release /\ releases[d].status = "published" /\ releases[d].agent = a
    BY <2>1, <2>2 DEF RInv, LockInv, RTypeOK, CatalogInv, DefaultIsPublished, Published
  <2>4. ~(q.op = "deprecate" /\ q.release = d)
    <3> SUFFICES ASSUME q.op = "deprecate", q.release = d
                 PROVE  FALSE
      OBVIOUS
    <3>1. PICK p \in idempotency : p.op = "publish" /\ p.release = d /\ releases[d].agent = p.agent
      BY <2>3 DEF RInv, CatalogInv, Origin
    <3>2. q.agent = a
      BY <2>3, <3>1, RegistryIdentifiers DEF RInv, CatalogInv, Origin
    <3> QED BY <2>2, <3>2 DEF Found
  <2>5. releases'[d].status = "published" /\ releases'[d].agent = a
    BY <2>3, <2>4, ReleaseKept
  <2> QED BY <2>1, <2>2, <2>5
<1> QED BY <1>2, <1>3

\* While tables stay, what a call has found stays true.
LEMMA FoundSame ==
  ASSUME UNCHANGED registry, NEW q, NEW g, Found(q, g)
  PROVE  Found(q, g)'
  BY DEF registry, Found, Unique, Replayed, Clash, AgentKnown, MayRun, GrantOf, Published

\* What a call has checked stays true until it writes, for its locks keep others off.
LEMMA CheckedKept ==
  ASSUME RInv, NEW c \in Caller, Step(c) \/ \E q \in Asked : Receive(c, q)
  PROVE  Checked'
<1>1. RTypeOK /\ CallsOK
  BY DEF RInv, LockInv
<1>2. /\ \A d \in Caller \ {c} : call'[d] = call[d]
      /\ Ends(c) \/ Begins(c) \/ Takes(c) \/ TakesRow(c) \/ Passes(c)
      /\ UNCHANGED registry \/ (Write(c) /\ Ends(c))
  BY <1>1, StepKinds
<1> SUFFICES ASSUME NEW d \in Caller, call'[d].pc = "write",
                    NEW q, q = call'[d].request, NEW g, g = call'[d].found
             PROVE  FirstLocks(q) <= call'[d].locks /\ Found(q, g)'
  BY ZenonT(40) DEF Checked, Writing, Found, FirstLocks, Unique, Replayed, SameKey, Clash, AgentKnown,
         MayRun, GrantOf, Published
<1>3. ASSUME UNCHANGED registry, Found(q, g) PROVE Found(q, g)'
  BY <1>3, FoundSame
<1>4. CASE d = c
  <2>1. (Passes(c) \/ TakesRow(c)) /\ UNCHANGED registry
    BY <1>2, <1>4 DEF Ends, Begins, Takes, Ready, Idle
  <2>2. CASE Passes(c)
    <3>1. /\ q = call[c].request /\ Found(q, g) /\ call'[c].locks = LockCount(q)
          /\ q \in Request
      BY <1>1, <1>4, <2>2, CallPosition DEF Passes, Keeps
    <3> QED BY <1>3, <1>4, <2>1, <3>1, LockCountBounds
  <2>3. CASE TakesRow(c)
    <3>1. /\ Writing(c) /\ q = call[c].request /\ g = call[c].found
          /\ call'[c].locks = call[c].locks
      BY <1>1, <1>4, <2>3, CallTyped DEF TakesRow, Active, Writing
    <3>2. FirstLocks(q) <= call[c].locks /\ Found(q, g)
      BY <3>1 DEF RInv, CatalogInv, Checked
    <3> QED BY <1>3, <1>4, <2>1, <3>1, <3>2
  <2> QED BY <2>1, <2>2, <2>3
<1>5. CASE d # c
  <2>1. call'[d] = call[d] /\ Writing(d)
    BY <1>2, <1>5 DEF Writing, InProgress
  <2>2. q = call[d].request /\ g = call[d].found
    BY <2>1
  <2>3. FirstLocks(q) <= call'[d].locks /\ Found(q, g)
    BY <2>1, <2>2 DEF RInv, CatalogInv, Checked
  <2>4. q \in Asked
    BY <1>1, <2>1, <2>2 DEF CallsOK, Writing
  <2>5. CASE Write(c)
    <3>1. PICK p, f : p = call[c].request /\ f = call[c].found
      OBVIOUS
    <3>2. Writing(c) /\ p \in Asked /\ Found(p, f) /\ Does(p, f)
      BY <2>5, <3>1, WriteDoes
    <3>3. Apart(p, q)
      BY <1>5, <2>1, <2>2, <3>1, <3>2, WritersApart
    <3> QED BY <2>3, <2>4, <3>2, <3>3, FoundKept
  <2> QED BY <1>2, <1>3, <2>3, <2>5
<1> QED BY <1>4, <1>5

\* A publication that has all its locks has them for good: while it holds the lock
\* of its agent no other publication makes the row of that agent.
LEMMA LocksStay ==
  ASSUME RInv, NEW c \in Caller, NEW d \in Caller, c # d, UNCHANGED registry \/ Write(c),
         InProgress(d), NEW q, q = call[d].request, q.op = "publish",
         call[d].locks = LockCount(q)
  PROVE  LockCount(q)' = LockCount(q)
<1>1. CASE UNCHANGED registry
  BY <1>1 DEF registry, LockCount, AgentKnown
<1>2. CASE Write(c)
  <2>1. PICK p, f : p = call[c].request /\ f = call[c].found
    OBVIOUS
  <2>2. Writing(c) /\ p \in Asked /\ p \in Request /\ Found(p, f) /\ Does(p, f)
    BY <1>2, <2>1, WriteDoes
  <2>3. ~(p.op = "publish" /\ p.agent = q.agent)
    <3> SUFFICES ASSUME p.op = "publish", p.agent = q.agent
                 PROVE  FALSE
      OBVIOUS
    <3>1. InProgress(c) /\ FirstLocks(p) <= call[c].locks /\ call[c].locks \in 0..LockCount(p)
      BY <2>1, <2>2 DEF Writing, RInv, LockInv, CallsOK, CatalogInv, Checked
    <3>2. FirstLocks(p) = 3 /\ LockCount(p) \in 1..4
      BY <2>2, LockCountBounds DEF FirstLocks
    <3>3. call[d].locks \in {3, 4}
      BY DEF LockCount, FirstLocks
    <3>4. 2 \in 1..call[c].locks /\ 2 \in 1..call[d].locks
      BY <3>1, <3>2, <3>3
    <3>5. LockOf(p, 2) = <<"agent", q.agent>> /\ LockOf(q, 2) = <<"agent", q.agent>>
      BY DEF LockOf, Second
    <3> QED BY <2>1, <3>1, <3>4, <3>5 DEF RInv, LockInv, Exclusive
  <2>4. PICK a : a = q.agent
    OBVIOUS
  <2>5. (AgentKnown(a) => AgentKnown(a)') /\ (AgentKnown(a)' => AgentKnown(a))
    BY <2>2, <2>3, <2>4, KnownKept
  <2> QED BY <2>4, <2>5 DEF LockCount, FirstLocks, AgentKnown
<1> QED BY <1>1, <1>2

\* Releases that clash with a publication stay there.
LEMMA ClashesStay ==
  ASSUME RInv, NEW c \in Caller, UNCHANGED registry \/ Write(c), NEW q, ClashRows(q) # {}
  PROVE  ClashRows(q)' # {}
<1>1. PICK e \in Release : Clash(q, e) /\ q.op = "publish"
  BY DEF ClashRows
<1>2. Clash(q, e)'
  <2>1. CASE UNCHANGED registry
    BY <1>1, <2>1 DEF registry, Clash
  <2>2. CASE Write(c)
    BY <1>1, <2>2, WriteDoes, ReleaseKept DEF Clash
  <2> QED BY <2>1, <2>2
<1> QED BY <1>1, <1>2 DEF ClashRows

\* Rows are locked last, and by no two calls that are in each other's way.
LEMMA RowsKept ==
  ASSUME RInv, NEW c \in Caller, Step(c) \/ \E q \in Asked : Receive(c, q)
  PROVE  RowsOK' /\ RowsApart'
<1>1. RTypeOK /\ CallsOK /\ RowsOK /\ RowsApart
  BY DEF RInv, LockInv, RowInv
<1>2. /\ \A d \in Caller \ {c} : call'[d] = call[d]
      /\ Ends(c) \/ Begins(c) \/ Takes(c) \/ TakesRow(c) \/ Passes(c)
      /\ UNCHANGED registry \/ (Write(c) /\ Ends(c))
  BY <1>1, StepKinds
<1>3. /\ \A x \in Ready : x.pc = "idle"
      /\ \A x \in Active : x.pc \in {"lock", "write"}
  BY DEF Ready, Idle, Active
<1>4. Ends(c) => call'[c].pc = "idle"
  BY <1>3 DEF Ends
<1>5. TakesRow(c) =>
        /\ call'[c].pc = call[c].pc /\ call'[c].request = call[c].request
        /\ call'[c].locks = call[c].locks /\ call'[c].found = call[c].found
        /\ \E l \in NextRows(c) : /\ call'[c].rows = call[c].rows \cup {l}
                                 /\ \A d \in Caller \ {c} : ~InTheWay(d, c, l)
  <2> SUFFICES ASSUME TakesRow(c)
               PROVE  /\ call'[c].pc = call[c].pc /\ call'[c].request = call[c].request
                      /\ call'[c].locks = call[c].locks /\ call'[c].found = call[c].found
                      /\ \E l \in NextRows(c) :
                           /\ call'[c].rows = call[c].rows \cup {l}
                           /\ \A d \in Caller \ {c} : ~InTheWay(d, c, l)
    OBVIOUS
  <2>1. call[c] \in Active
    BY <1>1, CallTyped DEF TakesRow
  <2>2. PICK l \in NextRows(c) :
           /\ call'[c] = [call[c] EXCEPT !.rows = call[c].rows \cup {l}]
           /\ \A d \in Caller \ {c} : ~InTheWay(d, c, l)
    BY DEF TakesRow
  <2> QED BY <2>1, <2>2 DEF Active
\* Rows that call c locks now, and what it is then
<1>6. TakesRow(c) =>
        LET q == call[c].request IN
        \/ /\ call[c].pc = "lock" /\ q.op = "publish"
           /\ call[c].locks = LockCount(q) /\ ClashRows(q) # {}
        \/ call[c].pc = "write" /\ call'[c].rows \subseteq References(q, call[c].found)
  <2> SUFFICES ASSUME TakesRow(c), NEW q, q = call[c].request
               PROVE  \/ /\ call[c].pc = "lock" /\ q.op = "publish"
                         /\ call[c].locks = LockCount(q) /\ ClashRows(q) # {}
                      \/ call[c].pc = "write" /\ call'[c].rows \subseteq References(q, call[c].found)
    OBVIOUS
  <2>1. InProgress(c) /\ NextLock(c) = {} /\ call[c] \in Active
    BY <1>1, CallTyped DEF TakesRow
  <2>2. CASE call[c].pc = "lock"
    <3>1. ClashRows(q) # {}
      BY <1>5, <2>2 DEF NextRows
    <3>2. q.op = "publish"
      BY <3>1 DEF ClashRows
    <3>3. /\ ~(call[c].locks < LockCount(q)) /\ call[c].locks \in 0..LockCount(q)
          /\ q \in Request
      BY <1>1, <2>1, <2>2, CallPosition
    <3>4. LockCount(q) \in Nat
      BY <3>3, LockCountBounds
    <3> QED BY <2>2, <3>1, <3>2, <3>3, <3>4
  <2>3. CASE call[c].pc = "write"
    <3>1. call[c].rows \subseteq References(q, call[c].found)
      BY <1>1, <2>1, <2>3 DEF RowsOK
    <3> QED BY <1>5, <2>3, <3>1 DEF NextRows
  <2> QED BY <1>3, <2>1, <2>2, <2>3
<1>7. RowsOK'
  <2> SUFFICES ASSUME NEW d \in Caller, call'[d].pc # "idle", call'[d].rows # {},
                      NEW q, q = call'[d].request
               PROVE  \/ /\ call'[d].pc = "lock" /\ q.op = "publish"
                         /\ call'[d].locks = LockCount(q)' /\ ClashRows(q)' # {}
                      \/ call'[d].pc = "write" /\ call'[d].rows \subseteq References(q, call'[d].found)
    BY DEF RowsOK, InProgress, LockCount, FirstLocks, AgentKnown, ClashRows, Clash, References
  <2>1. CASE d # c
    <3>1. call'[d] = call[d] /\ InProgress(d) /\ q = call[d].request
      BY <1>2, <2>1 DEF InProgress
    <3>2. \/ /\ call[d].pc = "lock" /\ q.op = "publish"
             /\ call[d].locks = LockCount(q) /\ ClashRows(q) # {}
          \/ call[d].pc = "write" /\ call[d].rows \subseteq References(q, call[d].found)
      BY <1>1, <3>1 DEF RowsOK
    <3> QED BY <1>2, <2>1, <3>1, <3>2, LocksStay, ClashesStay
  <2>2. CASE d = c
    <3>1. ~Ends(c) /\ ~Begins(c)
      BY <1>4, <2>2 DEF Begins
    <3>2. UNCHANGED registry
      BY <1>2, <3>1
    <3>3. ~Takes(c)
      <4> SUFFICES ASSUME Takes(c)
                   PROVE  FALSE
        OBVIOUS
      <4>1. InProgress(c) /\ call[c].pc = "lock" /\ call[c].rows # {}
        BY <2>2 DEF Takes, Keeps
      <4>2. call[c].locks = LockCount(call[c].request) /\ call[c].request \in Request
        BY <1>1, <4>1, CallPosition DEF RowsOK
      <4>3. LockCount(call[c].request) \in Nat
        BY <4>2, LockCountBounds
      <4> QED BY <4>2, <4>3 DEF Takes
    <3>4. ~Passes(c)
      <4> SUFFICES ASSUME Passes(c)
                   PROVE  FALSE
        OBVIOUS
      <4>1. InProgress(c) /\ call[c].pc = "lock" /\ call[c].rows # {}
        BY <2>2 DEF Passes, Keeps
      <4>2. call[c].request.op = "publish" /\ ClashRows(call[c].request) # {}
        BY <1>1, <4>1 DEF RowsOK
      <4> QED BY <4>2 DEF Passes, Found, Unique, ClashRows
    <3>5. TakesRow(c) /\ q = call[c].request
      BY <1>2, <1>5, <2>2, <3>1, <3>3, <3>4
    <3>6. LockCount(q)' = LockCount(q) /\ ClashRows(q)' = ClashRows(q)
      BY <3>2 DEF registry, LockCount, FirstLocks, AgentKnown, ClashRows, Clash
    <3> QED BY <1>5, <1>6, <2>2, <3>5, <3>6
  <2> QED BY <2>1, <2>2
<1>8. RowsApart'
  \* Between call c and another one d: the rows of both, and their locks
  <2>1. ASSUME NEW d \in Caller, d # c, call'[c].pc # "idle", call'[d].pc # "idle"
        PROVE  /\ \A l \in call'[c].rows :
                    /\ \A j \in 1..call'[d].locks : l # LockOf(call'[d].request, j)
                    /\ call'[c].request.op = "publish" => l \notin call'[d].rows
               /\ \A l \in call'[d].rows :
                    /\ \A j \in 1..call'[c].locks : l # LockOf(call'[c].request, j)
                    /\ call'[d].request.op = "publish" => l \notin call'[c].rows
    <3>1. call'[d] = call[d] /\ InProgress(d)
      BY <1>2, <2>1 DEF InProgress
    <3>2. CASE Begins(c)
      BY <3>2 DEF Begins
    <3>3. InProgress(c) /\ ~Begins(c) =>
            /\ \A l \in call[c].rows :
                 /\ \A j \in 1..call[d].locks : l # LockOf(call[d].request, j)
                 /\ call[c].request.op = "publish" => l \notin call[d].rows
            /\ \A l \in call[d].rows :
                 /\ \A j \in 1..call[c].locks : l # LockOf(call[c].request, j)
                 /\ call[d].request.op = "publish" => l \notin call[c].rows
      BY <1>1, <2>1, <3>1 DEF RowsApart
    <3>4. CASE Passes(c)
      BY <3>1, <3>3, <3>4 DEF Passes, Keeps, Begins
    <3>5. CASE Takes(c)
      <4>1. /\ InProgress(c) /\ call'[c].request = call[c].request /\ call'[c].rows = call[c].rows
            /\ call'[c].locks = call[c].locks + 1 /\ call[c].locks \in 0..4
            /\ LockOf(call[c].request, call[c].locks + 1) \notin call[d].rows
        BY <1>1, <2>1, <3>1, <3>5, CallTyped DEF Takes, Keeps, Active
      <4>2. ~Begins(c)
        BY <4>1 DEF Begins
      <4>3. \A j \in 1..call'[c].locks : j \in 1..call[c].locks \/ j = call[c].locks + 1
        BY <4>1
      <4> QED BY <3>1, <3>3, <4>1, <4>2, <4>3
    <3>6. CASE TakesRow(c)
      <4>1. InProgress(c) /\ call[c] \in Active
        BY <1>1, <3>6, CallTyped DEF TakesRow
      <4>2. PICK l \in NextRows(c) :
              call'[c].rows = call[c].rows \cup {l} /\ ~InTheWay(d, c, l)
        BY <1>5, <2>1, <3>6
      <4>3. HeldBy(d) = HeldTo(call[d].request, call[d].locks)
        BY <1>1, <3>1, CallPosition
      <4>4. \A j \in 1..call[d].locks : l # LockOf(call[d].request, j)
        BY <4>2, <4>3 DEF InTheWay, Taken, HeldTo
      <4>5. call[d].request.op = "publish" => l \notin call[d].rows
        BY <3>1, <4>2 DEF InTheWay, Taken, SharesRows
      <4>6. call[c].request.op = "publish" => call[c].pc # "write"
        BY <4>2 DEF NextRows, References
      <4>7. call[c].request.op = "publish" => l \notin call[d].rows
        BY <3>1, <4>2, <4>6 DEF InTheWay, Taken, Shared, SharesRows
      <4>8. ~Begins(c) \/ call'[c].rows = {}
        BY DEF Begins
      <4>9. call'[c].request = call[c].request /\ call'[c].locks = call[c].locks
        BY <1>5, <3>6
      <4> QED BY <3>1, <3>3, <4>1, <4>2, <4>4, <4>5, <4>7, <4>8, <4>9
    <3> QED BY <1>2, <1>4, <2>1, <3>2, <3>4, <3>5, <3>6
  <2>2. ASSUME NEW d \in Caller, NEW e \in Caller, d # e, d # c, e # c,
               call'[d].pc # "idle", call'[e].pc # "idle", NEW l \in call'[d].rows
        PROVE  /\ \A j \in 1..call'[e].locks : l # LockOf(call'[e].request, j)
               /\ call'[d].request.op = "publish" => l \notin call'[e].rows
    <3>1. call'[d] = call[d] /\ call'[e] = call[e] /\ InProgress(d) /\ InProgress(e)
      BY <1>2, <2>2 DEF InProgress
    <3> QED BY <1>1, <2>2, <3>1 DEF RowsApart
  <2>3. ASSUME NEW d \in Caller, NEW e \in Caller, d # e,
               call'[d].pc # "idle", call'[e].pc # "idle", NEW l \in call'[d].rows
        PROVE  /\ \A j \in 1..call'[e].locks : l # LockOf(call'[e].request, j)
               /\ call'[d].request.op = "publish" => l \notin call'[e].rows
    <3>1. CASE d = c
      BY <2>1, <2>3, <3>1
    <3>2. CASE e = c
      BY <2>1, <2>3, <3>2
    <3> QED BY <2>2, <2>3, <3>1, <3>2
  <2> QED BY <2>3, ZenonT(40) DEF RowsApart, InProgress, LockOf, First, Second, Third, Fourth
<1> QED BY <1>7, <1>8

\* No step of any call breaks the invariant.
LEMMA RInvKept == RInv /\ [RNext]_rvars => RInv'
<1> SUFFICES ASSUME RInv, [RNext]_rvars
             PROVE  RInv'
  OBVIOUS
<1>1. CASE UNCHANGED rvars
  <2>0. /\ RTypeOK /\ CallsOK /\ Exclusive
        /\ Origin /\ Sole /\ Checked /\ DefaultIsPublished /\ NoUniqueViolation
        /\ RowsOK /\ RowsApart
    BY DEF RInv, LockInv, CatalogInv, RowInv
  <2>1. RTypeOK' /\ Origin' /\ Sole' /\ DefaultIsPublished' /\ NoUniqueViolation'
    BY <1>1, <2>0 DEF rvars, registry, RTypeOK, Origin, Sole, DefaultIsPublished, Published,
                NoUniqueViolation
  <2>2. CallsOK'
    <3> SUFFICES ASSUME NEW d \in Caller, call'[d].pc # "idle", NEW q, q = call'[d].request
                 PROVE  q \in Asked /\ call'[d].locks \in 0..LockCount(q)'
      BY DEF CallsOK, InProgress, LockCount, AgentKnown, FirstLocks
    <3>1. call' = call /\ LockCount(q)' = LockCount(q)
      BY <1>1 DEF rvars, registry, LockCount, AgentKnown
    <3> QED BY <2>0, <3>1 DEF CallsOK, InProgress
  <2>3. Exclusive'
    <3> SUFFICES ASSUME NEW c \in Caller, NEW d \in Caller, c # d,
                        call'[c].pc # "idle", call'[d].pc # "idle",
                        NEW i \in 1..call'[c].locks, NEW j \in 1..call'[d].locks
                 PROVE  LockOf(call'[c].request, i) # LockOf(call'[d].request, j)
      BY DEF Exclusive, InProgress, LockOf, First, Second, Third, Fourth
    <3>1. call' = call
      BY <1>1 DEF rvars
    <3> QED BY <2>0, <3>1 DEF Exclusive, InProgress
  <2>4. Checked'
    <3>1. UNCHANGED registry
      BY <1>1 DEF rvars
    <3> SUFFICES ASSUME NEW d \in Caller, call'[d].pc = "write",
                        NEW q, q = call'[d].request, NEW g, g = call'[d].found
                 PROVE  FirstLocks(q) <= call'[d].locks /\ Found(q, g)'
      BY ZenonT(40) DEF Checked, Writing, Found, FirstLocks, Unique, Replayed, SameKey, Clash, AgentKnown,
             MayRun, GrantOf, Published
    <3>2. call' = call
      BY <1>1 DEF rvars
    <3>3. FirstLocks(q) <= call[d].locks /\ Found(q, g)
      BY <2>0, <3>2 DEF Checked, Writing, InProgress
    <3> QED BY <3>1, <3>2, <3>3, FoundSame
  <2>5. RowsOK'
    <3> SUFFICES ASSUME NEW d \in Caller, call'[d].pc # "idle", call'[d].rows # {},
                        NEW q, q = call'[d].request
                 PROVE  \/ /\ call'[d].pc = "lock" /\ q.op = "publish"
                           /\ call'[d].locks = LockCount(q)' /\ ClashRows(q)' # {}
                        \/ /\ call'[d].pc = "write"
                           /\ call'[d].rows \subseteq References(q, call'[d].found)
      BY DEF RowsOK, InProgress, LockCount, FirstLocks, AgentKnown, ClashRows, Clash, References
    <3>1. call' = call /\ LockCount(q)' = LockCount(q) /\ ClashRows(q)' = ClashRows(q)
      BY <1>1 DEF rvars, registry, LockCount, FirstLocks, AgentKnown, ClashRows, Clash
    <3> QED BY <2>0, <3>1 DEF RowsOK, InProgress
  <2>6. RowsApart'
    <3> SUFFICES ASSUME NEW c \in Caller, NEW d \in Caller, c # d,
                        call'[c].pc # "idle", call'[d].pc # "idle", NEW l \in call'[c].rows
                 PROVE  /\ \A j \in 1..call'[d].locks : l # LockOf(call'[d].request, j)
                        /\ call'[c].request.op = "publish" => l \notin call'[d].rows
      BY DEF RowsApart, InProgress, LockOf, First, Second, Third, Fourth
    <3>1. call' = call
      BY <1>1 DEF rvars
    <3> QED BY <2>0, <3>1 DEF RowsApart, InProgress
  <2> QED BY <2>1, <2>2, <2>3, <2>4, <2>5, <2>6 DEF RInv, LockInv, CatalogInv, RowInv
<1>2. ASSUME NEW c \in Caller, Step(c) \/ \E q \in Asked : Receive(c, q)
      PROVE  RInv'
  <2>1. CallsOK' /\ Exclusive' /\ call' \in [Caller -> Ready \cup Active] /\ Checked'
    BY <1>2, CallsKept, CheckedKept
  <2>5. RowInv'
    BY <1>2, RowsKept DEF RowInv
  <2>2. UNCHANGED registry \/ Write(c)
    BY <1>2, StepKinds DEF RInv, LockInv
  <2>3. CASE UNCHANGED registry
    <3>1. RTypeOK'
      BY <2>1, <2>3 DEF RInv, LockInv, RTypeOK, registry, Ready, Active
    <3>2. Origin' /\ Sole' /\ DefaultIsPublished' /\ NoUniqueViolation'
      BY <2>3 DEF RInv, CatalogInv, registry, Origin, Sole, DefaultIsPublished, Published,
                  NoUniqueViolation
    <3> QED BY <2>1, <2>5, <3>1, <3>2 DEF RInv, LockInv, CatalogInv
  <2>4. CASE Write(c)
    <3>1. PICK p, f : p = call[c].request /\ f = call[c].found
      OBVIOUS
    <3>2. p \in Asked /\ Found(p, f) /\ Does(p, f)
      BY <2>4, <3>1, WriteDoes
    <3>3. RTypeOK'
      <4>1. RTypeOK
        BY DEF RInv, LockInv
      <4> QED BY <4>1, <2>1, <3>2, TablesKept DEF RTypeOK, Ready, Active
    <3>4. Origin' /\ Sole' /\ DefaultIsPublished'
      BY <3>2, OriginKept, SoleKept, DefaultKept
    <3>5. NoUniqueViolation'
      BY <3>2 DEF Does, NoUniqueViolation, RInv, CatalogInv
    <3> QED BY <2>1, <2>5, <3>3, <3>4, <3>5 DEF RInv, LockInv, CatalogInv
  <2> QED BY <2>2, <2>3, <2>4
<1> QED BY <1>1, <1>2 DEF RNext

\* At the start there are no rows and no calls.
LEMMA RInvStart == RInit => RInv
<1> SUFFICES ASSUME RInit
             PROVE  RInv
  OBVIOUS
<1>1. \A c \in Caller : call[c].pc = "idle"
  BY DEF RInit, Idle
<1>2. RTypeOK
  BY DEF RInit, RTypeOK, NoRelease, NoGrant, NoSpec
<1>3. CallsOK /\ Exclusive /\ Checked /\ RowInv
  BY <1>1 DEF CallsOK, Exclusive, Checked, Writing, InProgress, RowInv, RowsOK, RowsApart
<1>4. Origin /\ Sole
  BY DEF RInit, Origin, Sole, NoRelease
<1>5. DefaultIsPublished /\ NoUniqueViolation
  BY DEF RInit, DefaultIsPublished, NoUniqueViolation
<1> QED BY <1>2, <1>3, <1>4, <1>5 DEF RInv, LockInv, CatalogInv

\* The inductive invariant of the Registry's transactions: types, locks, what calls
\* have checked, and the constraints on the tables.
THEOREM RegistryInvariant == RSpec => []RInv
  BY RInvStart, RInvKept, PTL DEF RSpec

-----------------------------------------------------------------------------
(* What it is for                                                           *)

\* Tables and calls have their types, however calls interleave.
THEOREM RegistryTypes == RSpec => []RTypeOK
  BY RegistryInvariant, PTL DEF RInv, LockInv

\* Two calls never hold one lock: what PostgreSQL grants to one it refuses to
\* all others until the transaction ends, except that rows which inserts refer
\* to are shared.
THEOREM RegistryMutualExclusion == RSpec => [](Exclusive /\ RowsApart)
  BY RegistryInvariant, PTL DEF RInv, LockInv, RowInv

\* The default of an agent is one of its published releases, whatever
\* set_default_release and deprecate_release are called at the same time.
THEOREM RegistryDefault == RSpec => []DefaultIsPublished
  BY RegistryInvariant, PTL DEF RInv, CatalogInv

\* The advisory locks of publish_release, grant_access and
\* resolve_run_specification leave no call to a unique constraint.
THEOREM RegistryUniqueness == RSpec => []NoUniqueViolation
  BY RegistryInvariant, PTL DEF RInv, CatalogInv

-----------------------------------------------------------------------------
(* Deadlocks.  Locks have levels that grow along the locks of a request and *)
(* on to the row that its writes refer to, so that along a chain of calls   *)
(* that wait the levels grow as well, but where publications lock the rows  *)
(* that clash with them.                                                    *)

Level(l) ==
  IF Len(l) = 3 \/ l[1] = "agent" THEN 2
  ELSE IF l[1] = "image" THEN 3
  ELSE IF l[1] = "agent row" THEN 4
  ELSE IF l[1] \in {"release", "grant row"} THEN 5 ELSE 1

\* Idempotency locks come first in the order of locks.
LEMMA KeyLevel ==
  ASSUME NEW s, Len(s) = 2, s[1] \in Operation
  PROVE  Level(s) = 1
<1>1. Len(s) # 3
  OBVIOUS
<1>2. \A o \in Operation :
        o # "agent" /\ o # "image" /\ o # "agent row" /\ o \notin {"release", "grant row"}
  BY DEF Operation
<1> QED BY <1>1, <1>2, Zenon DEF Level

\* A request takes its locks in the order of their levels.
LEMMA LevelsGrow ==
  ASSUME NEW q \in Request, NEW i \in 1..LockCount(q)
  PROVE  /\ Level(LockOf(q, i)) \in 1..5
         /\ \A j \in 1..(i - 1) : Level(LockOf(q, j)) < Level(LockOf(q, i))
         /\ q.op \in {"grant", "resolve"} => Level(LockOf(q, i)) \in 1..2
<1> DEFINE l(j) == Level(LockOf(q, j))
<1>1. l(1) = 1
  <2>1. LockOf(q, 1) = First(q)
    BY DEF LockOf
  <2>2. Level(First(q)) = 1
    <3>1. CASE q.op = "resolve"
      BY <3>1 DEF First, Level
    <3>2. CASE q.op # "resolve"
      <4>1. First(q) = <<q.op, q.key>>
        BY <3>2 DEF First
      <4>2. Len(<<q.op, q.key>>) = 2 /\ <<q.op, q.key>>[1] = q.op
        OBVIOUS
      <4>3. q.op \in Operation
        BY RequestShape
      <4> QED BY <4>1, <4>2, <4>3, KeyLevel
    <3> QED BY <3>1, <3>2
  <2> QED BY <2>1, <2>2
<1>2. LockCount(q) >= 2 => /\ l(2) \in {2, 4, 5}
                           /\ q.op \in {"publish", "grant"} => l(2) = 2
                           /\ q.op # "revoke" => l(2) \in {2, 4}
  <2>1. LockOf(q, 2) = Second(q)
    BY DEF LockOf
  <2>2. LockCount(q) >= 2 => q.op # "resolve"
    BY DEF LockCount, FirstLocks
  <2>3. q.op # "resolve" => /\ Level(Second(q)) \in {2, 4, 5}
                            /\ q.op \in {"publish", "grant"} => Level(Second(q)) = 2
                            /\ q.op # "revoke" => Level(Second(q)) \in {2, 4}
    BY RequestShape DEF Second, Level, Operation
  <2> QED BY <2>1, <2>2, <2>3
<1>3. l(3) = IF q.op = "publish" THEN 3 ELSE 5
  <2>1. LockOf(q, 3) = Third(q)
    BY DEF LockOf
  <2>2. Level(Third(q)) = IF q.op = "publish" THEN 3 ELSE 5
    BY DEF Third, Level
  <2> QED BY <2>1, <2>2
<1>4. l(4) = 4
  <2>1. LockOf(q, 4) = Fourth(q)
    BY DEF LockOf
  <2>2. Level(Fourth(q)) = 4
    BY DEF Fourth, Level
  <2> QED BY <2>1, <2>2
<1>5. /\ LockCount(q) = 4 => q.op = "publish"
      /\ LockCount(q) >= 3 => q.op # "revoke"
  BY RequestShape DEF LockCount, FirstLocks, Operation
<1>6. LockCount(q) \in 1..4
  BY LockCountBounds
<1> HIDE DEF l
<1>9. q.op \in {"grant", "resolve"} => l(i) \in 1..2
  <2> SUFFICES ASSUME q.op \in {"grant", "resolve"}
               PROVE  l(i) \in 1..2
    OBVIOUS
  <2>1. i = 1 \/ (i = 2 /\ LockCount(q) >= 2 /\ q.op = "grant")
    BY <1>6, RequestShape DEF LockCount, FirstLocks
  <2> QED BY <1>1, <1>2, <2>1
<1>7. l(i) \in 1..5 /\ \A j \in 1..(i - 1) : l(j) < l(i)
  <2>1. CASE i = 1
    BY <1>1, <2>1
  <2>2. CASE i = 2
    BY <1>1, <1>2, <1>6, <2>2
  <2>3. CASE i = 3
    BY <1>1, <1>2, <1>3, <1>5, <1>6, <2>3
  <2>4. CASE i = 4
    BY <1>1, <1>2, <1>3, <1>4, <1>5, <1>6, <2>4
  <2> QED BY <1>6, <2>1, <2>2, <2>3, <2>4
<1> QED BY <1>7, <1>9 DEF l

\* The rows that calls ask for come after all other locks.
LEMMA RowLevels ==
  /\ \A d : Level(<<"release", d>>) = 5
  /\ \A g : Level(<<"grant row", g>>) = 5
  /\ \A a : Level(<<"agent row", a>>) = 4
  BY DEF Level

\* What a call writes refers to one row at most.
LEMMA OneReference ==
  ASSUME NEW q, NEW f, NEW l \in References(q, f), NEW m \in References(q, f)
  PROVE  l = m
<1>1. CASE q.op = "grant" /\ f = "none"
  <2>1. References(q, f) = {<<"agent row", q.agent>>}
    BY <1>1, RegistryAssumption DEF References
  <2> QED BY <2>1
<1>2. CASE q.op = "grant" /\ f \in AccessGrant
  <2>1. References(q, f) = {<<"grant row", f>>}
    BY <1>2, RegistryAssumption DEF References
  <2> QED BY <2>1
<1>3. CASE q.op = "resolve" /\ f = "none"
  <2>1. References(q, f) = {<<"release", q.release>>}
    BY <1>3 DEF References
  <2> QED BY <2>1
<1>4. CASE /\ ~(q.op = "grant" /\ f = "none") /\ ~(q.op = "grant" /\ f \in AccessGrant)
           /\ ~(q.op = "resolve" /\ f = "none")
  <2>1. References(q, f) = {}
    BY <1>4 DEF References
  <2> QED BY <2>1
<1> QED BY <1>1, <1>2, <1>3, <1>4

\* What a call wants is above what it holds, but for the rows that clash with it.
LEMMA WantsAbove ==
  ASSUME RInv, NEW c \in Caller, NEW d \in Caller, NEW l, InTheWay(d, c, l),
         NEW m \in Wants(d), ~LocksClashes(d)
  PROVE  Level(l) \in 1..5 /\ Level(m) \in 1..5 /\ Level(l) < Level(m)
<1>1. RTypeOK /\ CallsOK /\ RowsOK
  BY DEF RInv, LockInv, RowInv
<1>2. InProgress(d)
  BY Zenon DEF Wants
<1> DEFINE q == call[d].request
           n == call[d].locks
<1>3. /\ call[d] \in Active /\ q \in Request /\ n \in 0..LockCount(q)
      /\ HeldBy(d) = HeldTo(q, n)
      /\ NextLock(d) = IF call[d].pc = "lock" /\ n < LockCount(q) THEN {LockOf(q, n + 1)} ELSE {}
  BY <1>1, <1>2, CallPosition
<1>4. LockCount(q) \in 1..4
  <2> HIDE DEF q
  <2> QED BY <1>3, LockCountBounds
<1>5. l \in HeldTo(q, n) \/ l \in call[d].rows
  <2>1. l \in Taken(d) \/ l \in Shared(d)
    BY DEF InTheWay
  <2> HIDE DEF q, n
  <2> QED BY <1>3, <2>1, Zenon DEF Taken, Shared
\* A call that has locked rows, and is not at those that clash, wants no more
<1>6. l \in HeldTo(q, n)
  <2> SUFFICES ASSUME l \in call[d].rows
               PROVE  FALSE
    BY <1>5
  <2>1. \/ /\ call[d].pc = "lock" /\ n = LockCount(q) /\ ClashRows(q) # {}
        \/ call[d].pc = "write" /\ call[d].rows \subseteq References(q, call[d].found)
    BY <1>1, <1>2 DEF RowsOK
  <2>2. NextLock(d) = {}
    BY <1>3, <1>4, <2>1
  <2>3. call[d].pc = "write" /\ call[d].rows \subseteq References(q, call[d].found)
    BY <1>2, <2>1, <2>2 DEF LocksClashes
  <2>4. m \in NextRows(d)
    BY <1>2, <2>2, Zenon DEF Wants
  <2>5. m \in References(q, call[d].found) /\ m # l /\ l \in References(q, call[d].found)
    BY <2>3, <2>4 DEF NextRows
  <2> QED BY <2>5, OneReference
<1>7. PICK j \in 1..n : l = LockOf(q, j)
  BY <1>6 DEF HeldTo
<1>8. j \in 1..LockCount(q)
  <2> HIDE DEF q, n
  <2> QED BY <1>3, <1>4, <1>7
<1>9. /\ Level(l) \in 1..5
      /\ q.op \in {"grant", "resolve"} => Level(l) \in 1..2
  <2> HIDE DEF q, n
  <2> QED BY <1>3, <1>7, <1>8, LevelsGrow
<1>10. CASE NextLock(d) # {}
  <2>1. m = LockOf(q, n + 1) /\ n < LockCount(q)
    BY <1>2, <1>3, <1>10, Zenon DEF Wants
  <2> HIDE DEF q, n
  <2>2. n + 1 \in 1..LockCount(q) /\ j \in 1..((n + 1) - 1)
    BY <1>3, <1>4, <1>7, <2>1
  <2> QED BY <1>3, <1>7, <1>9, <2>1, <2>2, LevelsGrow
<1>11. CASE NextLock(d) = {}
  <2>1. m \in NextRows(d)
    BY <1>2, <1>11, Zenon DEF Wants
  <2>2. call[d].pc = "write"
    BY <1>2, <1>11, <2>1 DEF LocksClashes, NextRows
  <2>3. m \in References(q, call[d].found)
    BY <2>1, <2>2 DEF NextRows
  <2> HIDE DEF q, n
  <2>4. /\ q.op \in {"grant", "resolve"}
        /\ \/ \E x : m = <<"release", x>>
           \/ \E x : m = <<"grant row", x>>
           \/ \E x : m = <<"agent row", x>>
    BY <2>3 DEF References
  <2>5. Level(m) \in {4, 5}
    BY <2>4, RowLevels
  <2>6. Level(l) \in 1..2
    BY <1>9, <2>4
  <2> QED BY <2>5, <2>6
<1> QED BY <1>10, <1>11

\* Whatever circle of waiting calls there is, publications that lock what clashes
\* with them wait in one of their own.
LEMMA OnlyRefusals == RInv => DeadlocksAreRefusals
<1> SUFFICES ASSUME RInv, NEW S \in SUBSET Caller, S # {},
                    \A c \in S : \E d \in S \ {c} : Blocks(d, c)
             PROVE  WaitInCircles({c \in S : LocksClashes(c)})
  BY DEF DeadlocksAreRefusals, WaitInCircles
<1> DEFINE T == {c \in S : LocksClashes(c)}
           At(c, l) == l \in Wants(c) /\ \E d \in S \ {c} : InTheWay(d, c, l)
           AtLeast(n) == \E c \in S : \E l : At(c, l) /\ Level(l) \in n..5
<1>1. ASSUME NEW c \in S
      PROVE  \E l : At(c, l)
  BY DEF Blocks
\* A call waits at a higher level than the one it blocks
<1>2. ASSUME NEW c \in S, NEW d \in S, NEW l, NEW m \in Wants(d),
             InTheWay(d, c, l), ~LocksClashes(d)
      PROVE  Level(l) \in 1..5 /\ Level(m) \in 1..5 /\ Level(l) < Level(m)
  BY <1>2, WantsAbove
<1>3. ASSUME NEW c \in T
      PROVE  \E d \in T \ {c} : Blocks(d, c)
  <2>1. PICK l \in Wants(c), d \in S \ {c} : InTheWay(d, c, l)
    BY <1>1
  <2>2. PICK m : m \in Wants(d)
    BY <1>1
  <2>3. InProgress(c) /\ NextLock(c) = {} /\ ClashRows(call[c].request) # {}
    BY DEF LocksClashes
  <2>4. l \in NextRows(c)
    BY <2>1, <2>3, Zenon DEF Wants
  <2>5. call[c].request.op = "publish"
    BY <2>3 DEF ClashRows
  <2>6. l \in ClashRows(call[c].request)
    BY <2>4, <2>5 DEF NextRows, References
  <2>7. Level(l) = 5
    BY <2>6, RowLevels DEF ClashRows
  <2>8. LocksClashes(d)
    <3> SUFFICES ASSUME ~LocksClashes(d)
                 PROVE  FALSE
      OBVIOUS
    <3>1. c \in S /\ d \in S
      OBVIOUS
    <3>2. Level(m) \in 1..5 /\ Level(l) < Level(m)
      BY <1>2, <2>1, <2>2, <3>1, Zenon
    <3> QED BY <2>7, <3>2
  <2> QED BY <2>1, <2>8 DEF Blocks
<1>4. T # {}
  <2> SUFFICES ASSUME T = {}
               PROVE  FALSE
    OBVIOUS
  <2>1. \A c \in S : ~LocksClashes(c)
    OBVIOUS
  \* The call that c waits for waits itself, higher up
  <2>2. ASSUME NEW c \in S, NEW l, At(c, l)
        PROVE  \E d \in S : \E m : /\ At(d, m) /\ Level(l) \in 1..5
                                  /\ Level(m) \in 1..5 /\ Level(l) < Level(m)
    <3>1. PICK d \in S : InTheWay(d, c, l)
      BY <2>2
    <3>2. PICK m : At(d, m)
      BY <1>1
    <3> QED BY <1>2, <2>1, <3>1, <3>2
  <2> HIDE DEF At, T
  <2>3. \A n \in 1..5 : AtLeast(n) => AtLeast(n + 1)
    <3> SUFFICES ASSUME NEW n \in 1..5, NEW c \in S, NEW l, At(c, l), Level(l) \in n..5
                 PROVE  \E d \in S : \E m : At(d, m) /\ Level(m) \in (n + 1)..5
      OBVIOUS
    <3>1. PICK d \in S : \E m : /\ At(d, m) /\ Level(l) \in 1..5
                                /\ Level(m) \in 1..5 /\ Level(l) < Level(m)
      BY <2>2
    <3>2. PICK m : /\ At(d, m) /\ Level(l) \in 1..5
                   /\ Level(m) \in 1..5 /\ Level(l) < Level(m)
      BY <3>1
    <3>3. Level(m) \in (n + 1)..5
      BY <3>2
    <3> QED BY <3>2, <3>3
  <2>4. AtLeast(1)
    BY <1>1, <2>2
  <2>5. ~AtLeast(6)
    OBVIOUS
  <2> HIDE DEF AtLeast
  <2> QED BY <2>3, <2>4, <2>5
<1> HIDE DEF T
<1> QED BY <1>3, <1>4 DEF T, WaitInCircles

\* A deadlock among publications, defaults, deprecations, grants, revocations and
\* resolutions is one of publications that are refused anyway.
THEOREM RegistryDeadlocksAreRefusals == RSpec => []DeadlocksAreRefusals
  BY RegistryInvariant, OnlyRefusals, PTL
=============================================================================
