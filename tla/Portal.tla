------------------------------- MODULE Portal -------------------------------
(***************************************************************************)
(* How a user's message becomes a run with a delegation grant: the handler *)
(* create_message of the Portal BFF (services/portal-bff), its calls to    *)
(* the Conversation Service and the Registry, and the grants of Identity   *)
(* Delegation (services/identity-delegation).                              *)
(*                                                                         *)
(* A submission is a client's request with its idempotency key; the client *)
(* may repeat it while an earlier one is still being handled.  The Portal  *)
(* derives the keys of its own calls and the identifiers of message and    *)
(* run from conversation and key (uuid5), so that here a run is named by   *)
(* conversation and key.  Every call the Portal makes may fail, with or    *)
(* without having done its work.                                           *)
(***************************************************************************)
EXTENDS Integers, FiniteSets

CONSTANTS
  User, Conversation, Tool,
  Key,        \* idempotency keys of the clients
  Grant,      \* identifiers Identity Delegation may draw
  Handler,    \* requests the Portal handles at a time
  Owner,      \* the owner of each conversation
  Manifest,   \* the tools of the release each conversation is bound to
  Submitted,  \* the submissions of an instance
  GrantLife,  \* how long a grant lasts (eight hours)
  MaxTime     \* bound on the clock

Submission == [user : User, conversation : Conversation, key : Key]
Run == [conversation : Conversation, key : Key]

ASSUME PortalAssumption ==
  /\ Owner \in [Conversation -> User] /\ Manifest \in [Conversation -> SUBSET Tool]
  /\ Submitted \subseteq Submission
  /\ GrantLife \in Nat /\ MaxTime \in Nat
  /\ "none" \notin Grant \cup User \cup Conversation

VARIABLES
  now,      \* the clock
  handler,  \* the requests being handled by the Portal
  grants,   \* delegation_grants
  issued,   \* delegation_idempotency: the submission each grant was made for
  runs      \* the grant in the run request of each run, once its message is stored

portal == <<handler, grants, issued, runs>>

Resting == [pc |-> "idle"]
NoGrant == [state |-> "absent", user |-> "none", conversation |-> "none",
            scopes |-> {}, expires |-> 0, revoked |-> 0]

RunOf(q) == [conversation |-> q.conversation, key |-> q.key]

PInit ==
  /\ now = 0
  /\ handler = [h \in Handler |-> Resting]
  /\ grants = [g \in Grant |-> NoGrant]
  /\ issued = {}
  /\ runs = [r \in Run |-> "none"]

-----------------------------------------------------------------------------
Submit(h, q) ==
  /\ handler[h] = Resting
  /\ handler' = [handler EXCEPT ![h] = [pc |-> "conversation", request |-> q]]
  /\ UNCHANGED <<grants, issued, runs>>

\* GET the conversation: only its owner finds it
ReadConversation(h) ==
  /\ handler[h].pc = "conversation"
  /\ handler' = [handler EXCEPT ![h] =
       IF Owner[@.request.conversation] = @.request.user
       THEN [@ EXCEPT !.pc = "release"] ELSE Resting]
  /\ UNCHANGED <<grants, issued, runs>>

\* GET the release; its tools become the maximum scopes of the grant
ReadRelease(h) ==
  /\ handler[h].pc = "release"
  /\ handler' = [handler EXCEPT ![h] =
       [pc |-> "grant", request |-> @.request, scopes |-> Manifest[@.request.conversation]]]
  /\ UNCHANGED <<grants, issued, runs>>

\* Mutant: a row that is there does not stop the second grant
MayIssueAgain(q) == TRUE
\* The digest of a creation covers its time of expiry, so that no creation
\* equals an earlier one: a key that has a row is refused.
MayIssue(q) == \A x \in issued : x.request # q

NewGrant(q, scopes) ==
  [state |-> "active", user |-> q.user, conversation |-> q.conversation,
   scopes |-> scopes, expires |-> now + GrantLife, revoked |-> 0]

\* Two creations at once both find no row; the primary key of the row undoes
\* the one that comes second.
CreateGrant(h, g) ==
  LET q == handler[h].request IN
  /\ handler[h].pc = "grant"
  /\ MayIssue(q)
  /\ grants[g].state = "absent"
  /\ grants' = [grants EXCEPT ![g] = NewGrant(q, handler[h].scopes)]
  /\ issued' = issued \cup {[request |-> q, grant |-> g]}
  /\ \/ handler' = [handler EXCEPT ![h] = [pc |-> "post", request |-> q, grant |-> g]]
     \/ handler' = [handler EXCEPT ![h] = Resting]
  /\ UNCHANGED runs

\* The Conversation Service stores a message once and writes its run request;
\* the answer may be lost.
PostMessage(h) ==
  LET r == RunOf(handler[h].request) IN
  /\ handler[h].pc = "post"
  /\ runs' = IF runs[r] = "none" THEN [runs EXCEPT ![r] = handler[h].grant] ELSE runs
  /\ handler' = [handler EXCEPT ![h] = Resting]
  /\ UNCHANGED <<grants, issued>>

\* A call fails or is refused: the error is forwarded, the request is over
Fail(h) ==
  /\ handler[h].pc # "idle"
  /\ handler' = [handler EXCEPT ![h] = Resting]
  /\ UNCHANGED <<grants, issued, runs>>

\* The user of a grant revokes it; the first revocation counts
Revoke(g) ==
  /\ grants[g].state # "absent"
  /\ grants' = IF grants[g].state = "revoked" THEN grants
               ELSE [grants EXCEPT ![g].state = "revoked", ![g].revoked = now]
  /\ UNCHANGED <<handler, issued, runs>>

Serve(h) ==
  \/ \E q \in Submitted : Submit(h, q)
  \/ ReadConversation(h) \/ ReadRelease(h)
  \/ \E g \in Grant : CreateGrant(h, g)
  \/ PostMessage(h) \/ Fail(h)

PortalStep == (\E h \in Handler : Serve(h)) \/ (\E g \in Grant : Revoke(g))

-----------------------------------------------------------------------------
GrantRecord ==
  [state : {"absent", "active", "revoked"}, user : User \cup {"none"},
   conversation : Conversation \cup {"none"}, scopes : SUBSET Tool,
   expires : Nat, revoked : Nat]

PTypeOK ==
  /\ now \in Nat
  /\ handler \in [Handler -> {Resting}
       \cup [pc : {"conversation", "release"}, request : Submission]
       \cup [pc : {"grant"}, request : Submission, scopes : SUBSET Tool]
       \cup [pc : {"post"}, request : Submission, grant : Grant]]
  /\ grants \in [Grant -> GrantRecord]
  /\ issued \subseteq [request : Submission, grant : Grant]
  /\ runs \in [Run -> Grant \cup {"none"}]

\* However often a client repeats a submission, and however the repetitions
\* overlap and fail: it has one grant, and a run that came of it acts for the
\* owner of its conversation, with the tools of that conversation's release.
SubmissionIsOne ==
  /\ \A x, y \in issued : x.request = y.request \/ x.grant = y.grant => x = y
  /\ \A r \in Run : runs[r] # "none" =>
       /\ \E x \in issued : RunOf(x.request) = r /\ x.grant = runs[r]
       /\ grants[runs[r]].user = Owner[r.conversation]
       /\ grants[runs[r]].conversation = r.conversation
       /\ grants[runs[r]].scopes = Manifest[r.conversation]
=============================================================================
