------------------------------ MODULE Registry ------------------------------
(***************************************************************************)
(* The Agent Registry (services/agent-registry): releases and the default  *)
(* of an agent, access grants, run specifications.                         *)
(*                                                                         *)
(* A call is one transaction at read committed.  It takes its locks one    *)
(* after the other and keeps them to its end: advisory locks and rows, the *)
(* rows that clash with a publication, the rows that foreign keys of what  *)
(* it inserts refer to.  Between its reads and its writes other            *)
(* transactions commit.                                                    *)
(* Identifiers that the service draws come with the request here.          *)
(***************************************************************************)
EXTENDS Integers, Sequences, FiniteSets

CONSTANTS
  Agent, Release, Version, Image, AccessGrant, User, Run,
  Key,       \* idempotency keys
  Caller,    \* clients with a call in progress at a time
  Asked      \* the requests an instance makes, in any order and repeatedly

Publishing ==
  [op : {"publish"}, key : Key, release : Release, agent : Agent, version : Version, image : Image]
Lifecycle == [op : {"default", "deprecate"}, key : Key, release : Release, agent : Agent]
Granting == [op : {"grant"}, key : Key, grant : AccessGrant, agent : Agent, user : User]
Revoking == [op : {"revoke"}, key : Key, grant : AccessGrant]
Resolving == [op : {"resolve"}, key : Key, run : Run, user : User, release : Release]
Request == Publishing \cup Lifecycle \cup Granting \cup Revoking \cup Resolving

ASSUME RegistryAssumption ==
  /\ Asked \subseteq Request
  /\ "none" \notin Release \cup AccessGrant \cup Agent \cup User

\* Identifiers are drawn by the service: a release comes from one publication,
\* whose agent a deprecation of it finds in its row.  The Runner resolves a run
\* under the identifier of its request, or of the event that brought it.
ASSUME RegistryIdentifiers ==
  \A p, q \in Asked :
    /\ p.op = "publish" /\ q.op = "publish" /\ p.release = q.release => p.key = q.key
    /\ p.op = "publish" /\ q.op = "deprecate" /\ p.release = q.release => p.agent = q.agent
    /\ p.op = "resolve" /\ q.op = "resolve" /\ p.key = q.key => p.run = q.run

VARIABLES
  releases,      \* status, agent, version and image of each release
  default,       \* agents.default_release_id
  grants,        \* access_grants whose permission is run or admin
  specs,         \* run_specifications of each run
  idempotency,   \* idempotency_records: the request a key was first used for
  call,          \* the transaction of each caller
  violations     \* transactions that ended in a violated unique constraint

registry == <<releases, default, grants, specs, idempotency, violations>>
rvars == <<registry, call>>

NoRelease == [status |-> "absent", agent |-> "none", version |-> "none", image |-> "none"]
NoGrant == [state |-> "absent", agent |-> "none", user |-> "none"]
NoSpec == [release |-> "none", user |-> "none"]
Idle == [pc |-> "idle"]
\* The Runner reads what its call returned; what others read is not followed
Answer(q, kind) == IF q.op = "resolve" THEN [pc |-> "idle", answer |-> kind] ELSE Idle

RInit ==
  /\ releases = [d \in Release |-> NoRelease]
  /\ default = [a \in Agent |-> "none"]
  /\ grants = [g \in AccessGrant |-> NoGrant]
  /\ specs = [r \in Run |-> NoSpec]
  /\ idempotency = {}
  /\ call = [c \in Caller |-> Idle]
  /\ violations = {}

-----------------------------------------------------------------------------
(* Locks, in the order the code asks for them                               *)

\* Mutants: the row of the release before the row of its agent; no row locks
DeprecationLocksSwapped(q) == <<<<"release", q.release>>, <<"agent row", q.agent>>>>
DeprecationLocksNone(q) == <<>>
DeprecationLocks(q) == <<<<"agent row", q.agent>>, <<"release", q.release>>>>

\* The row of an agent can be locked once its first release made it
AgentKnown(a) == \E d \in Release : releases[d].status # "absent" /\ releases[d].agent = a
AgentRow(a) == IF AgentKnown(a) THEN <<<<"agent row", a>>>> ELSE <<>>

\* Mutant: publications of one agent are not serialised
PublicationLocksImage(q) == <<<<"image", q.image>>>> \o AgentRow(q.agent)
PublicationLocks(q) ==
  <<<<"agent", q.agent>>, <<"image", q.image>>>> \o AgentRow(q.agent)

Locks(q) ==
  LET key == <<<<q.op, q.key>>>> IN
  CASE q.op = "publish"   -> key \o PublicationLocks(q)
    [] q.op = "default"   -> key \o <<<<"agent row", q.agent>>, <<"release", q.release>>>>
    [] q.op = "deprecate" -> key \o DeprecationLocks(q)
    [] q.op = "grant"     -> key \o <<<<"grant", q.agent, q.user>>>>
    [] q.op = "revoke"    -> key \o <<<<"grant row", q.grant>>>>
    [] q.op = "resolve"   -> <<<<"run", q.run>>>>

\* Two releases with one image, or one version of an agent
Clash(q, d) ==
  /\ releases[d].status # "absent"
  /\ releases[d].image = q.image
       \/ (releases[d].agent = q.agent /\ releases[d].version = q.version)

\* SELECT ... FOR UPDATE of the rows that clash, of this agent or another one, in
\* the order in which PostgreSQL finds them
ClashRows(q) ==
  IF q.op = "publish" THEN {<<"release", d>> : d \in {e \in Release : Clash(q, e)}} ELSE {}

\* Foreign keys: the rows that an insert refers to, FOR KEY SHARE, if the call
\* has not locked or made them itself
References(q, found) ==
  CASE q.op = "grant" /\ found = "none" -> {<<"agent row", q.agent>>}
    [] q.op = "grant" /\ found \in AccessGrant -> {<<"grant row", found>>}
    [] q.op = "resolve" /\ found = "none" -> {<<"release", q.release>>}
    [] OTHER -> {}

InProgress(c) == call[c].pc # "idle"
Held(c) == IF InProgress(c) THEN SubSeq(Locks(call[c].request), 1, call[c].locks) ELSE <<>>
HeldBy(c) == {Held(c)[i] : i \in DOMAIN Held(c)}
NextLock(c) == IF call[c].pc = "lock" /\ call[c].locks < Len(Locks(call[c].request))
               THEN {Locks(call[c].request)[call[c].locks + 1]} ELSE {}
NextRows(c) == (IF call[c].pc = "write" THEN References(call[c].request, call[c].found)
                ELSE ClashRows(call[c].request)) \ call[c].rows

\* The locks a call may ask for now: the next in its order, then rows in any order
Wants(c) ==
  CASE ~InProgress(c) -> {}
    [] InProgress(c) /\ NextLock(c) # {} -> NextLock(c)
    [] InProgress(c) /\ NextLock(c) = {} -> NextRows(c)

\* Of the rows that clash the driver asks for the first: more may be locked or not
LocksTaken(c) == NextLock(c) = {} /\ (NextRows(c) = {} \/ call[c].rows # {})

\* What a call keeps for itself, and what it shares with others that refer to it
SharesRows(c) == InProgress(c) /\ call[c].request.op # "publish"
Taken(c) == HeldBy(c) \cup (IF InProgress(c) /\ ~SharesRows(c) THEN call[c].rows ELSE {})
Shared(c) == IF SharesRows(c) THEN call[c].rows ELSE {}

\* A row that others share can be shared, and not be locked
InTheWay(d, c, l) == l \in Taken(d) \/ (l \in Shared(d) /\ call[c].pc # "write")
Blocks(d, c) == \E l \in Wants(c) : InTheWay(d, c, l)

\* Requests with one key and one operation
SameKey(p, q) == p.op = q.op /\ p.key = q.key
Replayed(q) == \E p \in idempotency : SameKey(p, q)

Receive(c, q) ==
  /\ ~InProgress(c)
  /\ call' = [call EXCEPT ![c] =
                [pc |-> "lock", request |-> q, locks |-> 0, rows |-> {}, found |-> "none"]]
  /\ UNCHANGED registry

Lock(c) ==
  /\ InProgress(c) /\ NextLock(c) # {}
  /\ \A d \in Caller \ {c} : ~Blocks(d, c)
  /\ call[c].locks > 0 => ~Replayed(call[c].request)
  /\ call' = [call EXCEPT ![c].locks = @ + 1]
  /\ UNCHANGED registry

LockRow(c) ==
  /\ InProgress(c) /\ NextLock(c) = {}
  /\ \E l \in NextRows(c) :
       /\ \A d \in Caller \ {c} : ~InTheWay(d, c, l)
       /\ call' = [call EXCEPT ![c].rows = @ \cup {l}]
  /\ UNCHANGED registry

\* A key used before, under the first lock: the stored result, or a conflict
Replay(c) ==
  /\ InProgress(c) /\ call[c].pc = "lock" /\ call[c].locks > 0
  /\ Replayed(call[c].request)
  /\ call' = [call EXCEPT ![c] =
                Answer(@.request, IF @.request \in idempotency THEN "stored" ELSE "refused")]
  /\ UNCHANGED registry

-----------------------------------------------------------------------------
(* What each operation reads, and refuses                                   *)

Published(d) == releases[d].status = "published"
GrantOf(q) == [state |-> "active", agent |-> q.agent, user |-> q.user]
MayRun(u, a) == \E g \in AccessGrant : grants[g] = GrantOf([agent |-> a, user |-> u])

Refused(q) ==
  CASE q.op = "publish"   -> \E d \in Release : Clash(q, d)
    [] q.op = "default"   -> ~(Published(q.release) /\ releases[q.release].agent = q.agent)
    [] q.op = "deprecate" -> \/ releases[q.release].status = "absent"
                             \/ default[q.agent] = q.release
    [] q.op = "grant"     -> ~AgentKnown(q.agent)
    [] q.op = "revoke"    -> grants[q.grant].state = "absent"
    [] q.op = "resolve"   ->
         IF specs[q.run] # NoSpec
         THEN specs[q.run].release # q.release \/ specs[q.run].user # q.user
         ELSE ~(Published(q.release) /\ MayRun(q.user, releases[q.release].agent))

\* A row that is there already: the agent of a release, the active grant of
\* these two, the specification of this run
Existing(q) ==
  \/ q.op = "publish" /\ AgentKnown(q.agent)
  \/ q.op = "grant" /\ MayRun(q.user, q.agent)
  \/ q.op = "resolve" /\ specs[q.run] # NoSpec
Finds(q) ==
  CASE ~Existing(q) -> {"none"}
    [] Existing(q) /\ q.op = "grant" -> {g \in AccessGrant : grants[g] = GrantOf(q)}
    [] Existing(q) /\ q.op # "grant" -> {"row"}

Check(c) ==
  LET q == call[c].request IN
  /\ InProgress(c) /\ call[c].pc = "lock"
  /\ LocksTaken(c) /\ ~Replayed(q)
  /\ IF Refused(q) THEN call' = [call EXCEPT ![c] = Answer(q, "refused")]
     ELSE \E f \in Finds(q) :
            call' = [call EXCEPT ![c] = [@ EXCEPT !.pc = "write", !.found = f]]
  /\ UNCHANGED registry

-----------------------------------------------------------------------------
(* The writes of the operations                                             *)

ReleaseOf(q) ==
  [status |-> "published", agent |-> q.agent, version |-> q.version, image |-> q.image]

Publish(q) ==
  /\ q.op = "publish"
  /\ releases' = [releases EXCEPT ![q.release] = ReleaseOf(q)]
  /\ UNCHANGED <<default, grants, specs>>

SetDefault(q) ==
  /\ q.op = "default"
  /\ default' = [default EXCEPT ![q.agent] = q.release]
  /\ UNCHANGED <<releases, grants, specs>>

Deprecate(q) ==
  /\ q.op = "deprecate"
  /\ releases' = [releases EXCEPT ![q.release].status = "deprecated"]
  /\ UNCHANGED <<default, grants, specs>>

GrantAccess(q, found) ==
  /\ q.op = "grant"
  /\ grants' = IF found # "none" THEN grants
               ELSE [grants EXCEPT ![q.grant] = GrantOf(q)]
  /\ UNCHANGED <<releases, default, specs>>

Revoke(q) ==
  /\ q.op = "revoke"
  /\ grants' = [grants EXCEPT ![q.grant].state = "revoked"]
  /\ UNCHANGED <<releases, default, specs>>

\* The first specification of a run is the only one
Resolve(q, found) ==
  /\ q.op = "resolve"
  /\ specs' = IF found # "none" THEN specs
              ELSE [specs EXCEPT ![q.run] = [release |-> q.release, user |-> q.user]]
  /\ UNCHANGED <<releases, default, grants>>

\* The unique constraints of agents, releases, active grants, specifications
\* and keys
Unique(q, found) ==
  /\ ~Replayed(q)
  /\ q.op = "publish" => \A d \in Release : ~Clash(q, d)
  /\ q.op = "publish" /\ found = "none" => ~AgentKnown(q.agent)
  /\ q.op = "grant" /\ found = "none" => ~MayRun(q.user, q.agent)
  /\ q.op = "resolve" /\ found = "none" => specs[q.run] = NoSpec

Write(c) ==
  LET q == call[c].request
      found == call[c].found
  IN /\ InProgress(c) /\ call[c].pc = "write"
     /\ LocksTaken(c)
     /\ IF Unique(q, found)
        THEN /\ \/ Publish(q) \/ SetDefault(q) \/ Deprecate(q)
                \/ GrantAccess(q, found) \/ Revoke(q) \/ Resolve(q, found)
             /\ idempotency' = idempotency \cup {q}
             /\ call' = [call EXCEPT ![c] = Answer(q, "stored")]
             /\ UNCHANGED violations
        ELSE /\ violations' = violations \cup {q.op}
             /\ call' = [call EXCEPT ![c] = Answer(q, "refused")]
             /\ UNCHANGED <<releases, default, grants, specs, idempotency>>

\* The call fails, as a publication does that describes its agent differently or
\* a call that PostgreSQL finds in a deadlock, or its client is gone: the
\* transaction is rolled back
Abandon(c) ==
  /\ InProgress(c)
  /\ call' = [call EXCEPT ![c] = Answer(@.request, "refused")]
  /\ UNCHANGED registry

Step(c) == Lock(c) \/ LockRow(c) \/ Replay(c) \/ Check(c) \/ Write(c) \/ Abandon(c)

RNext == \E c \in Caller : Step(c) \/ \E q \in Asked : Receive(c, q)

RSpec == RInit /\ [][RNext]_rvars

-----------------------------------------------------------------------------
RowLock ==
  ({"release"} \X Release) \cup ({"agent row"} \X Agent) \cup ({"grant row"} \X AccessGrant)

RTypeOK ==
  /\ releases \in [Release -> [status : {"absent", "published", "deprecated"},
                               agent : Agent \cup {"none"}, version : Version \cup {"none"},
                               image : Image \cup {"none"}]]
  /\ default \in [Agent -> Release \cup {"none"}]
  /\ grants \in [AccessGrant -> [state : {"absent", "active", "revoked"},
                                 agent : Agent \cup {"none"}, user : User \cup {"none"}]]
  /\ specs \in [Run -> [release : Release \cup {"none"}, user : User \cup {"none"}]]
  /\ idempotency \subseteq Request
  /\ call \in [Caller -> {Idle} \cup [pc : {"idle"}, answer : {"stored", "refused"}]
                 \cup [pc : {"lock", "write"}, request : Request, locks : 0..4,
                       rows : SUBSET RowLock, found : {"none", "row"} \cup AccessGrant]]

\* Administrators choose a default and deprecate releases at the same time: the
\* default of an agent is always one of its published releases.
DefaultIsPublished ==
  \A a \in Agent :
    default[a] # "none" => /\ Published(default[a])
                           /\ releases[default[a]].agent = a

\* publication.py: "advisory locks avoid leaking driver-specific unique-violation
\* errors under concurrent publication", and so do those of grants and runs.
NoUniqueViolation == violations = {}

\* A publication that found its image or its version taken, and now locks the
\* releases that have them
LocksClashes(c) ==
  InProgress(c) /\ NextLock(c) = {} /\ ClashRows(call[c].request) # {}

\* Every call of the set waits for another one of it
WaitInCircles(S) == S # {} /\ \A c \in S : \E d \in S \ {c} : Blocks(d, c)

\* Calls take agents, releases and grants in one order, with the rows that their
\* inserts refer to last: no set of calls waits for its own locks.  Only the
\* rows of SELECT ... FOR UPDATE (publication.py:113) have no order: two
\* publications that lock them can wait for each other, if more rows than the
\* first are locked.  Both are refused anyway, and whatever circle there is,
\* such publications wait in one of their own.
DeadlocksAreRefusals ==
  \A S \in SUBSET Caller :
    WaitInCircles(S) => WaitInCircles({c \in S : LocksClashes(c)})
=============================================================================
