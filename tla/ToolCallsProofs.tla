-------------------------- MODULE ToolCallsProofs --------------------------
(***************************************************************************)
(* Proofs about ToolCalls and Portal: whatever users submit, agents call   *)
(* and the network breaks, a submission has one grant, an invocation takes *)
(* effect once, all answers to it agree, and no tool acts beyond a grant.  *)
(*                                                                         *)
(* The invariant follows one call from its reservation to its answer: the  *)
(* row in tool_invocations belongs to the one stream that inserted it, so  *)
(* that nobody else calls the tool, and what the row records is what the   *)
(* tool did.                                                               *)
(***************************************************************************)
EXTENDS ToolCalls, FiniteSetTheorems, TLAPS

\* One row of the ledger
LedgerRow ==
  [state : {"absent", "executing", "completed"}, tool : Tool \cup {"none"}, result : Nat]

\* What a request at the Portal has established, and what the rows record
PortalInv ==
  /\ \A h \in Handler :
       /\ handler[h].pc \in {"release", "grant"} =>
            Owner[handler[h].request.conversation] = handler[h].request.user
       /\ handler[h].pc = "grant" =>
            handler[h].scopes = Manifest[handler[h].request.conversation]
       /\ handler[h].pc = "post" =>
            [request |-> handler[h].request, grant |-> handler[h].grant] \in issued
  /\ \A x \in issued :
       /\ grants[x.grant].state # "absent"
       /\ grants[x.grant].user = Owner[x.request.conversation]
       /\ grants[x.grant].conversation = x.request.conversation
       /\ grants[x.grant].scopes = Manifest[x.request.conversation]
  /\ \A x, y \in issued : x.request = y.request \/ x.grant = y.grant => x = y
  /\ \A r \in Run : runs[r] # "none" =>
       \E x \in issued : RunOf(x.request) = r /\ x.grant = runs[r]

-----------------------------------------------------------------------------
(* The Portal                                                               *)

\* What the Portal's step leaves as it was: its grants are revoked once, and a
\* run keeps its grant.
LEMMA PortalKeeps ==
  ASSUME PTypeOK, PortalStep
  PROVE  /\ \A g \in Grant : grants[g].state # "absent" =>
              /\ grants'[g].state # "absent"
              /\ grants'[g].user = grants[g].user
              /\ grants'[g].conversation = grants[g].conversation
              /\ grants'[g].scopes = grants[g].scopes
              /\ grants'[g].expires = grants[g].expires
              /\ \/ grants'[g] = grants[g]
                 \/ grants[g].state # "revoked" /\ grants'[g].revoked = now
         /\ \A r \in Run : runs[r] # "none" => runs'[r] = runs[r]
<1>1. ASSUME NEW h \in Handler, Serve(h)
      PROVE  /\ \A g \in Grant : grants[g].state # "absent" => grants'[g] = grants[g]
             /\ \A r \in Run : runs[r] # "none" => runs'[r] = runs[r]
  BY <1>1 DEF Serve, Submit, ReadConversation, ReadRelease, CreateGrant, PostMessage, Fail, PTypeOK
<1>2. ASSUME NEW k \in Grant, Revoke(k), NEW g \in Grant, grants[g].state # "absent"
      PROVE  /\ grants'[g].state # "absent"
             /\ grants'[g].user = grants[g].user
             /\ grants'[g].conversation = grants[g].conversation
             /\ grants'[g].scopes = grants[g].scopes
             /\ grants'[g].expires = grants[g].expires
             /\ \/ grants'[g] = grants[g]
                \/ grants[g].state # "revoked" /\ grants'[g].revoked = now
  BY <1>2 DEF Revoke, PTypeOK, GrantRecord
<1>3. ASSUME NEW k \in Grant, Revoke(k) PROVE runs' = runs
  BY <1>3 DEF Revoke
<1> QED BY <1>1, <1>2, <1>3 DEF PortalStep

\* The types a request at the Portal has, step by step.
LEMMA HandlerShape ==
  ASSUME PTypeOK, NEW h \in Handler
  PROVE  /\ handler[h].pc # "idle" => handler[h].request \in Submission
         /\ handler[h].pc \in {"conversation", "release"} =>
              handler[h] = [pc |-> handler[h].pc, request |-> handler[h].request]
         /\ handler[h].pc = "grant" => handler[h].scopes \in SUBSET Tool
         /\ handler[h].pc = "post" => handler[h].grant \in Grant
  BY DEF PTypeOK, Resting

\* Typing: the Portal's step keeps its variables in their types.
LEMMA PortalTypeStep ==
  ASSUME PTypeOK, PortalStep, now' = now
  PROVE  PTypeOK'
<1> USE PortalAssumption DEF PTypeOK
<1>1. ASSUME NEW h \in Handler, NEW q \in Submitted, Submit(h, q) PROVE PTypeOK'
  BY <1>1 DEF Submit
<1>2. ASSUME NEW h \in Handler, ReadConversation(h) PROVE PTypeOK'
  <2>1. handler[h].request \in Submission
        /\ [handler[h] EXCEPT !.pc = "release"] = [pc |-> "release", request |-> handler[h].request]
    BY <1>2, HandlerShape DEF ReadConversation
  <2> QED BY <1>2, <2>1 DEF ReadConversation
<1>3. ASSUME NEW h \in Handler, ReadRelease(h) PROVE PTypeOK'
  <2>1. handler[h].request \in Submission /\ Manifest[handler[h].request.conversation] \in SUBSET Tool
    BY <1>3, HandlerShape DEF ReadRelease, Submission
  <2> QED BY <1>3, <2>1 DEF ReadRelease
<1>4. ASSUME NEW h \in Handler, NEW g \in Grant, CreateGrant(h, g) PROVE PTypeOK'
  <2>1. handler[h].request \in Submission /\ handler[h].scopes \in SUBSET Tool
    BY <1>4, HandlerShape DEF CreateGrant
  <2>2. NewGrant(handler[h].request, handler[h].scopes) \in GrantRecord
    BY <2>1 DEF NewGrant, GrantRecord, Submission
  <2>3. [request |-> handler[h].request, grant |-> g] \in [request : Submission, grant : Grant]
    BY <2>1
  <2> QED BY <1>4, <2>1, <2>2, <2>3 DEF CreateGrant
<1>5. ASSUME NEW h \in Handler, PostMessage(h) PROVE PTypeOK'
  <2>1. handler[h].grant \in Grant
    BY <1>5, HandlerShape DEF PostMessage
  <2> QED BY <1>5, <2>1 DEF PostMessage
<1>6. ASSUME NEW h \in Handler, Fail(h) PROVE PTypeOK'
  BY <1>6 DEF Fail
<1>7. ASSUME NEW g \in Grant, Revoke(g) PROVE PTypeOK'
  <2>1. [grants[g] EXCEPT !.state = "revoked"] \in GrantRecord
    BY DEF GrantRecord
  <2>2. [[grants[g] EXCEPT !.state = "revoked"] EXCEPT !.revoked = now] \in GrantRecord
    BY <2>1 DEF GrantRecord
  <2>3. CASE grants' = grants
    BY <1>7, <2>3 DEF Revoke
  <2>4. CASE grants' = [grants EXCEPT ![g].state = "revoked", ![g].revoked = now]
    <3>1. grants' \in [Grant -> GrantRecord]
      BY <2>2, <2>4
    <3> QED BY <1>7, <3>1 DEF Revoke
  <2> QED BY <1>7, <2>3, <2>4 DEF Revoke
<1> QED BY <1>1, <1>2, <1>3, <1>4, <1>5, <1>6, <1>7 DEF PortalStep, Serve

\* A row of issued goes on describing its grant when grants are revoked.
LEMMA PortalInvStep ==
  ASSUME PTypeOK, PortalInv, PortalStep
  PROVE  PortalInv'
<1> USE DEF PortalInv
<1>1. ASSUME NEW h \in Handler, \/ \E q \in Submitted : Submit(h, q)
                                \/ ReadConversation(h) \/ ReadRelease(h) \/ Fail(h)
      PROVE  PortalInv'
  <2>1. UNCHANGED <<grants, issued, runs>>
    BY <1>1 DEF Submit, ReadConversation, ReadRelease, Fail
  <2>2. ASSUME NEW k \in Handler
        PROVE  /\ handler'[k].pc \in {"release", "grant"} =>
                    Owner[handler'[k].request.conversation] = handler'[k].request.user
               /\ handler'[k].pc = "grant" =>
                    handler'[k].scopes = Manifest[handler'[k].request.conversation]
               /\ handler'[k].pc = "post" =>
                    [request |-> handler'[k].request, grant |-> handler'[k].grant] \in issued
    <3>1. CASE k # h
      BY <1>1, <3>1 DEF Submit, ReadConversation, ReadRelease, Fail, PTypeOK
    <3>2. ASSUME k = h, NEW q \in Submitted, Submit(h, q) PROVE handler'[k].pc = "conversation"
      BY <3>2 DEF Submit, PTypeOK
    <3>3. ASSUME k = h, Fail(h) PROVE handler'[k].pc = "idle"
      BY <3>3 DEF Fail, PTypeOK, Resting
    <3>4. ASSUME k = h, ReadConversation(h)
          PROVE  \/ handler'[k].pc = "idle"
                 \/ /\ handler'[k].pc = "release"
                    /\ Owner[handler'[k].request.conversation] = handler'[k].request.user
      <4>1. handler[h] = [pc |-> "conversation", request |-> handler[h].request]
        BY <3>4, HandlerShape DEF ReadConversation
      <4> DEFINE q == handler[h].request
      <4>2. handler'[h] = IF Owner[q.conversation] = q.user
                          THEN [handler[h] EXCEPT !.pc = "release"] ELSE Resting
        BY <3>4 DEF ReadConversation, PTypeOK
      <4>3. [handler[h] EXCEPT !.pc = "release"] = [pc |-> "release", request |-> q]
        BY <4>1
      <4> QED BY <3>4, <4>2, <4>3 DEF Resting
    <3>5. ASSUME k = h, ReadRelease(h)
          PROVE  /\ handler'[k].pc = "grant"
                 /\ Owner[handler'[k].request.conversation] = handler'[k].request.user
                 /\ handler'[k].scopes = Manifest[handler'[k].request.conversation]
      BY <3>5 DEF ReadRelease, PTypeOK
    <3> QED BY <1>1, <3>1, <3>2, <3>3, <3>4, <3>5
  <2> QED BY <2>1, <2>2
<1>2. ASSUME NEW h \in Handler, NEW g \in Grant, CreateGrant(h, g) PROVE PortalInv'
  <2> DEFINE q == handler[h].request
             x == [request |-> q, grant |-> g]
  <2>1. /\ q \in Submission /\ handler[h].pc = "grant" /\ grants[g].state = "absent"
        /\ \A y \in issued : y.request # q
        /\ issued' = issued \cup {x} /\ runs' = runs
    BY <1>2, HandlerShape DEF CreateGrant, MayIssue
  <2>2. \A y \in issued : y \in [request : Submission, grant : Grant] /\ y.grant # g
    BY <2>1 DEF PTypeOK
  <2>3. grants'[g] = NewGrant(q, handler[h].scopes) /\ \A k \in Grant \ {g} : grants'[k] = grants[k]
    BY <1>2 DEF CreateGrant, PTypeOK
  <2>4. \A y \in issued' : /\ grants'[y.grant].state # "absent"
                           /\ grants'[y.grant].user = Owner[y.request.conversation]
                           /\ grants'[y.grant].conversation = y.request.conversation
                           /\ grants'[y.grant].scopes = Manifest[y.request.conversation]
    <3>1. \A y \in issued : grants'[y.grant] = grants[y.grant]
      BY <2>2, <2>3
    <3>2. /\ grants'[g].state # "absent" /\ grants'[g].user = Owner[q.conversation]
          /\ grants'[g].conversation = q.conversation
          /\ grants'[g].scopes = Manifest[q.conversation]
      <4>1. Owner[q.conversation] = q.user /\ handler[h].scopes = Manifest[q.conversation]
        BY <2>1
      <4> HIDE DEF PortalInv, q
      <4> QED BY <4>1, <2>3 DEF NewGrant
    <3>3. x.grant = g /\ x.request = q
      OBVIOUS
    <3> SUFFICES ASSUME NEW y \in issued'
                 PROVE  /\ grants'[y.grant].state # "absent"
                        /\ grants'[y.grant].user = Owner[y.request.conversation]
                        /\ grants'[y.grant].conversation = y.request.conversation
                        /\ grants'[y.grant].scopes = Manifest[y.request.conversation]
      OBVIOUS
    <3>4. CASE y \in issued
      BY <3>1, <3>4
    <3>5. CASE y = x
      BY <3>2, <3>3, <3>5
    <3> HIDE DEF x
    <3> QED BY <2>1, <3>4, <3>5
  <2>5. \A y, z \in issued' : y.request = z.request \/ y.grant = z.grant => y = z
    BY <2>1, <2>2
  <2>6. \A k \in Handler : /\ k # h => handler'[k] = handler[k]
                           /\ \/ handler'[h] = Resting
                              \/ handler'[h] = [pc |-> "post", request |-> q, grant |-> g]
    BY <1>2 DEF CreateGrant, PTypeOK
  <2>7. \A k \in Handler :
          /\ handler'[k].pc \in {"release", "grant"} =>
               Owner[handler'[k].request.conversation] = handler'[k].request.user
          /\ handler'[k].pc = "grant" =>
               handler'[k].scopes = Manifest[handler'[k].request.conversation]
          /\ handler'[k].pc = "post" =>
               [request |-> handler'[k].request, grant |-> handler'[k].grant] \in issued'
    BY <2>1, <2>6 DEF Resting
  <2> QED BY <2>1, <2>4, <2>5, <2>7
<1>3. ASSUME NEW h \in Handler, PostMessage(h) PROVE PortalInv'
  <2> DEFINE q == handler[h].request
             r == RunOf(q)
  <2>1. /\ q \in Submission /\ handler[h].grant \in Grant
        /\ [request |-> q, grant |-> handler[h].grant] \in issued
    BY <1>3, HandlerShape DEF PostMessage
  <2>2. \A k \in Run : runs'[k] # "none" =>
          \E x \in issued : RunOf(x.request) = k /\ x.grant = runs'[k]
    <3>1. ASSUME NEW k \in Run, runs'[k] # runs[k] PROVE k = r /\ runs'[k] = handler[h].grant
      BY <1>3, <3>1 DEF PostMessage, PTypeOK
    <3> QED BY <2>1, <3>1
  <2>3. UNCHANGED <<grants, issued>> /\ \A k \in Handler : handler'[k] \in {handler[k], Resting}
    BY <1>3 DEF PostMessage, PTypeOK
  <2> QED BY <2>2, <2>3 DEF Resting
<1>4. ASSUME NEW g \in Grant, Revoke(g) PROVE PortalInv'
  <2>1. UNCHANGED <<handler, issued, runs>>
    BY <1>4 DEF Revoke
  <2>2. \A x \in issued : x.grant \in Grant
    BY DEF PTypeOK
  <2> QED BY <2>1, <2>2, <1>4, PortalKeeps DEF PortalStep
<1> QED BY <1>1, <1>2, <1>3, <1>4 DEF PortalStep, Serve

-----------------------------------------------------------------------------
(* Streams and calls                                                        *)

\* A stream is that of a run with a grant
RunInv ==
  /\ \A r \in Run : epoch[r] > 0 => runs[r] # "none"
  /\ \A s \in Stream : stream[s].pc # "closed" => runs[stream[s].run] # "none"

\* The stream that reserved an invocation and has not recorded its result
Holding == {"exchange", "call", "record"}
Did(F, r, i, t, n) ==
  \E f \in F : f.run = r /\ f.invocation = i /\ f.tool = t /\ f.number = n

CallInv ==
  /\ \A s, t \in Stream :
       /\ stream[s].pc \in Holding /\ stream[t].pc \in Holding
       /\ stream[s].run = stream[t].run /\ stream[s].invocation = stream[t].invocation
       => s = t
  /\ \A s \in Stream : stream[s].pc \in Holding =>
       /\ ledger[stream[s].run][stream[s].invocation].state = "executing"
       /\ ledger[stream[s].run][stream[s].invocation].tool = stream[s].tool
  /\ \A s \in Stream : stream[s].pc \in {"exchange", "call"} =>
       \A f \in effects : ~(f.run = stream[s].run /\ f.invocation = stream[s].invocation)
  /\ \A s \in Stream : stream[s].pc \in {"record", "accept"} =>
       Did(effects, stream[s].run, stream[s].invocation, stream[s].tool, stream[s].result)
  /\ \A f \in effects : ledger[f.run][f.invocation].state # "absent"
  /\ \A r \in Run, i \in Invocation : ledger[r][i].state = "completed" =>
       Did(effects, r, i, ledger[r][i].tool, ledger[r][i].result)

\* An exchange at time t for a tool lay within the grant
Within(g, clock, t, tool) ==
  /\ g.state # "absent" /\ tool \in g.scopes
  /\ t < g.expires
  /\ t <= (IF g.state = "revoked" THEN g.revoked ELSE clock)

GrantInv ==
  /\ \A s \in Stream : stream[s].pc = "call" =>
       Within(grants[runs[stream[s].run]], now, stream[s].granted, stream[s].tool)
  /\ \A f \in effects : Within(grants[f.grant], now, f.granted, f.tool)

ToolInv ==
  /\ TypeOK /\ IsFiniteSet(effects)
  /\ PortalInv /\ RunInv /\ CallInv /\ GrantInv
  /\ EffectOnce /\ AnswersAgree

Entry == [state : {"absent", "executing", "completed"}, tool : Tool \cup {"none"}, result : Nat]

\* What a stream may be, in a form the provers use directly.
LEMMA StreamShape ==
  ASSUME TypeOK, NEW s \in Stream
  PROVE  /\ stream[s].pc \in {"closed", "open", "exchange", "call", "record", "accept", "model"}
         /\ stream[s].pc # "closed" => stream[s].run \in Run /\ stream[s].epoch \in Epoch
         /\ stream[s].pc \in Holding \cup {"accept"} =>
              /\ stream[s].invocation \in Invocation /\ stream[s].tool \in Tool
              /\ stream[s].granted \in Nat /\ stream[s].result \in Nat
         /\ stream[s].pc = "model" =>
              /\ stream[s].tries \in 1..MaxTries
              /\ stream[s] = [pc |-> "model", run |-> stream[s].run,
                              epoch |-> stream[s].epoch, tries |-> stream[s].tries]
  BY DEF TypeOK, StreamState, Closed, Holding

\* The states a stream moves to.
LEMMA Moves ==
  ASSUME TypeOK, NEW s \in Stream, stream[s].pc # "closed"
  PROVE  /\ Closed \in StreamState /\ Closed.pc = "closed"
         /\ Open(s) \in StreamState /\ Open(s).pc = "open" /\ Open(s).run = stream[s].run
         /\ \A pc \in Holding \cup {"accept"}, i \in Invocation, t \in Tool, x, n \in Nat :
              Working(s, pc, i, t, x, n) \in StreamState
  BY StreamShape DEF StreamState, Open, Working, Closed, Holding

LEMMA MoveTypes ==
  ASSUME TypeOK, NEW s \in Stream, NEW x \in StreamState, Move(s, x)
  PROVE  /\ stream' \in [Stream -> StreamState] /\ stream'[s] = x
         /\ \A t \in Stream : t # s => stream'[t] = stream[t]
         /\ UNCHANGED <<now, portal, epoch, fence>> /\ PTypeOK'
         /\ epoch' \in [Run -> 0..MaxAttempts] /\ fence' \in [Run -> 0..MaxAttempts]
  BY DEF TypeOK, Move, PTypeOK, portal

LEMMA CountsAreNat ==
  ASSUME IsFiniteSet(effects), NEW r, NEW i
  PROVE  Cardinality(Done(r, i)) \in Nat
<1>1. IsFiniteSet(Done(r, i))
  BY FS_Subset DEF Done
<1> QED BY <1>1, FS_CardinalityType

\* A stream is that of a run with a grant.
LEMMA RunHasGrant ==
  ASSUME TypeOK, RunInv, NEW s \in Stream, stream[s].pc # "closed"
  PROVE  runs[stream[s].run] \in Grant
  BY StreamShape DEF RunInv, TypeOK, PTypeOK

-----------------------------------------------------------------------------
\* Typing: a step keeps every variable in its type.
LEMMA TypeStep ==
  ASSUME TypeOK, RunInv, IsFiniteSet(effects), [Next]_vars
  PROVE  TypeOK' /\ IsFiniteSet(effects')
<1> USE ToolCallsAssumption
<1>1. CASE PortalStep /\ UNCHANGED <<now, tools>>
  BY <1>1, PortalTypeStep DEF TypeOK, tools
<1>2. CASE Tick
  BY <1>2 DEF Tick, TypeOK, PTypeOK, portal, tools
<1>3. ASSUME NEW r \in Run, StartAttempt(r) PROVE TypeOK' /\ IsFiniteSet(effects')
  BY <1>3 DEF StartAttempt, TypeOK, PTypeOK, portal
<1>4. ASSUME NEW s \in Stream, NEW r \in Run, NEW e \in Epoch, Connect(s, r, e)
      PROVE  TypeOK' /\ IsFiniteSet(effects')
  <2>1. [pc |-> "open", run |-> r, epoch |-> e] \in StreamState /\ e \in 0..MaxAttempts
    BY DEF StreamState, Epoch
  <2> QED BY <1>4, <2>1 DEF Connect, TypeOK, PTypeOK, portal
<1>5. ASSUME NEW s \in Stream, Break(s) PROVE TypeOK' /\ IsFiniteSet(effects')
  <2>1. Closed \in StreamState
    BY DEF StreamState
  <2> QED BY <1>5, <2>1 DEF Break, TypeOK, PTypeOK, portal
<1>6. ASSUME NEW s \in Stream, NEW i \in Invocation, NEW t \in Tool, Reserve(s, i, t)
      PROVE  TypeOK' /\ IsFiniteSet(effects')
  <2>1. Working(s, "exchange", i, t, 0, 0) \in StreamState /\ stream[s].run \in Run
    BY <1>6, Moves, StreamShape DEF Reserve, Holding
  <2> QED BY <1>6, <2>1, MoveTypes DEF Reserve, TypeOK
<1>7. ASSUME NEW s \in Stream, NEW i \in Invocation, NEW t \in Tool, Replay(s, i, t)
      PROVE  TypeOK' /\ IsFiniteSet(effects')
  <2>1. stream[s].run \in Run
    BY <1>7, StreamShape DEF Replay
  <2>2. ledger[stream[s].run][i].result \in Nat
    BY <2>1 DEF TypeOK
  <2>3. Working(s, "accept", i, t, 0, ledger[stream[s].run][i].result) \in StreamState
    BY <1>7, <2>2, Moves DEF Replay
  <2> QED BY <1>7, <2>3, MoveTypes DEF Replay, TypeOK
<1>8. ASSUME NEW s \in Stream, Exchange(s) PROVE TypeOK' /\ IsFiniteSet(effects')
  <2>1. now \in Nat
    BY DEF TypeOK, PTypeOK
  <2>2. stream[s].invocation \in Invocation /\ stream[s].tool \in Tool
    BY <1>8, StreamShape DEF Exchange, Holding
  <2>3. Working(s, "call", stream[s].invocation, stream[s].tool, now, 0) \in StreamState
    BY <1>8, <2>1, <2>2, Moves DEF Exchange, Holding
  <2> QED BY <1>8, <2>3, MoveTypes DEF Exchange, TypeOK
<1>9. ASSUME NEW s \in Stream, CallTool(s) PROVE TypeOK' /\ IsFiniteSet(effects')
  <2> DEFINE w == stream[s]
             n == Cardinality(Done(w.run, w.invocation)) + 1
             f == [run |-> w.run, invocation |-> w.invocation, number |-> n, tool |-> w.tool,
                   epoch |-> w.epoch, grant |-> runs[w.run],
                   granted |-> w.granted, at |-> now]
  <2>1. /\ w.run \in Run /\ w.epoch \in Epoch /\ w.invocation \in Invocation /\ w.tool \in Tool
        /\ w.granted \in Nat
        /\ n \in Nat /\ runs[w.run] \in Grant /\ now \in Nat
    BY <1>9, StreamShape, CountsAreNat, RunHasGrant DEF CallTool, Holding, TypeOK, PTypeOK
  <2>2. /\ Working(s, "record", w.invocation, w.tool, 0, n) \in StreamState
        /\ Open(s) \in StreamState
    <3> HIDE DEF n
    <3> QED BY <1>9, <2>1, Moves DEF CallTool, Holding
  <2>3. \E x \in StreamState : Move(s, x)
    BY <1>9, <2>2 DEF CallTool
  <2>4. effects' = effects \cup {f} /\ UNCHANGED <<ledger, answers>>
    BY <1>9 DEF CallTool
  <2>5. f \in [run : Run, invocation : Invocation, number : Nat, tool : Tool,
               epoch : Epoch, grant : Grant, granted : Nat, at : Nat]
    <3> HIDE DEF n
    <3> QED BY <2>1
  <2>6. IsFiniteSet(effects')
    BY <2>4, FS_AddElement
  <2> HIDE DEF f
  <2> QED BY <2>3, <2>4, <2>5, <2>6, MoveTypes DEF TypeOK
<1>10. ASSUME NEW s \in Stream, CallFails(s) PROVE TypeOK' /\ IsFiniteSet(effects')
  <2>1. Open(s) \in StreamState
    BY <1>10, Moves DEF CallFails
  <2> QED BY <1>10, <2>1, MoveTypes DEF CallFails, TypeOK
<1>11. ASSUME NEW s \in Stream, Record(s) PROVE TypeOK' /\ IsFiniteSet(effects')
  <2>1. /\ stream[s].run \in Run /\ stream[s].invocation \in Invocation
        /\ stream[s].tool \in Tool /\ stream[s].result \in Nat
    BY <1>11, StreamShape DEF Record, Holding
  <2>2. /\ Working(s, "accept", stream[s].invocation, stream[s].tool, 0, stream[s].result)
             \in StreamState
        /\ Open(s) \in StreamState
    BY <1>11, <2>1, Moves DEF Record
  <2>3. \E x \in StreamState : Move(s, x)
    BY <1>11, <2>2 DEF Record
  <2>4. UNCHANGED <<effects, answers>> /\
        ledger' \in [Run -> [Invocation ->
          [state : {"absent", "executing", "completed"}, tool : Tool \cup {"none"}, result : Nat]]]
    <3> DEFINE r == stream[s].run
               i == stream[s].invocation
               n == stream[s].result
    <3>1. CASE ledger' = ledger
      BY <1>11, <3>1 DEF Record, TypeOK
    <3>2. CASE ledger' = [ledger EXCEPT ![r][i].state = "completed", ![r][i].result = n]
      <4>1. /\ ledger[r] \in [Invocation -> Entry] /\ ledger[r][i] \in Entry
        BY <2>1 DEF TypeOK, Entry
      <4>2. [[ledger[r][i] EXCEPT !.state = "completed"] EXCEPT !.result = n] \in Entry
        BY <2>1, <4>1 DEF Entry
      <4>3. ledger' = [ledger EXCEPT ![r] = [ledger[r] EXCEPT ![i] =
              [[ledger[r][i] EXCEPT !.state = "completed"] EXCEPT !.result = n]]]
        BY <2>1, <3>2 DEF TypeOK
      <4>4. ledger' \in [Run -> [Invocation -> Entry]]
        BY <2>1, <4>1, <4>2, <4>3 DEF TypeOK, Entry
      <4> QED BY <1>11, <4>4 DEF Record, Entry
    <3> QED BY <1>11, <3>1, <3>2 DEF Record
  <2> QED BY <2>3, <2>4, MoveTypes DEF TypeOK
<1>12. ASSUME NEW s \in Stream, Accept(s) PROVE TypeOK' /\ IsFiniteSet(effects')
  <2>1. /\ stream[s].run \in Run /\ stream[s].invocation \in Invocation
        /\ stream[s].tool \in Tool /\ stream[s].result \in Nat
    BY <1>12, StreamShape DEF Accept
  <2>2. \E x \in StreamState : Move(s, x)
    BY <1>12, Moves DEF Accept
  <2>3. /\ UNCHANGED <<ledger, effects>>
        /\ answers' \subseteq [run : Run, invocation : Invocation, tool : Tool, result : Nat]
    BY <1>12, <2>1 DEF Accept, TypeOK
  <2> QED BY <2>2, <2>3, MoveTypes DEF TypeOK
<1>13. ASSUME NEW s \in Stream, CallModel(s) \/ RetryModel(s) \/ ModelEnds(s)
       PROVE  TypeOK' /\ IsFiniteSet(effects')
  <2>1. ASSUME CallModel(s) PROVE \E x \in StreamState : Move(s, x)
    <3>1. stream[s].run \in Run /\ stream[s].epoch \in Epoch
      BY <2>1, StreamShape DEF CallModel
    <3>2. [pc |-> "model", run |-> stream[s].run, epoch |-> stream[s].epoch, tries |-> 1]
            \in StreamState
      <4>1. 1 \in 1..MaxTries
        BY ToolCallsAssumption
      <4> QED BY <3>1, <4>1 DEF StreamState
    <3> QED BY <2>1, <3>2 DEF CallModel
  <2>2. ASSUME RetryModel(s) PROVE \E x \in StreamState : Move(s, x)
    <3> DEFINE r == stream[s].run
               e == stream[s].epoch
               n == stream[s].tries
    <3>1. r \in Run /\ e \in Epoch /\ n \in 1..MaxTries /\ n < MaxTries
          /\ stream[s] = [pc |-> "model", run |-> r, epoch |-> e, tries |-> n]
      BY <2>2, StreamShape DEF RetryModel, MayRetry
    <3> HIDE DEF r, e, n
    <3>2. [stream[s] EXCEPT !.tries = @ + 1] = [pc |-> "model", run |-> r, epoch |-> e, tries |-> n + 1]
      BY <3>1
    <3>3. n + 1 \in 1..MaxTries
      BY <3>1
    <3>4. [stream[s] EXCEPT !.tries = @ + 1] \in StreamState
      BY <3>1, <3>2, <3>3 DEF StreamState
    <3> QED BY <2>2, <3>4 DEF RetryModel
  <2>3. ASSUME ModelEnds(s) PROVE \E x \in StreamState : Move(s, x)
    BY <2>3, Moves DEF ModelEnds
  <2>4. UNCHANGED <<ledger, effects, answers>>
    BY <1>13 DEF CallModel, RetryModel, ModelEnds
  <2> QED BY <1>13, <2>1, <2>2, <2>3, <2>4, MoveTypes DEF TypeOK
<1>14. CASE UNCHANGED vars
  BY <1>14 DEF vars, TypeOK, PTypeOK, portal, tools
<1> QED BY <1>1, <1>2, <1>3, <1>4, <1>5, <1>6, <1>7, <1>8, <1>9, <1>10, <1>11, <1>12, <1>13, <1>14
        DEF Next, Work

-----------------------------------------------------------------------------
(* The invariants, step by step                                             *)

\* A run that has a grant keeps it, and only such a run is started.
LEMMA RunStep ==
  ASSUME TypeOK, RunInv, [Next]_vars
  PROVE  RunInv'
<1> USE DEF RunInv
<1>1. CASE PortalStep /\ UNCHANGED <<now, tools>>
  <2>1. \A r \in Run : runs[r] # "none" => runs'[r] = runs[r]
    BY <1>1, PortalKeeps DEF TypeOK
  <2> QED BY <1>1, <2>1, StreamShape DEF tools
<1>2. CASE Tick \/ UNCHANGED vars
  BY <1>2 DEF Tick, vars, portal, tools
<1>3. ASSUME NEW r \in Run, StartAttempt(r) PROVE RunInv'
  BY <1>3 DEF StartAttempt, portal, TypeOK
<1>4. ASSUME NEW s \in Stream, Work(s) PROVE RunInv'
  <2>1. UNCHANGED <<runs, epoch>>
    BY <1>4 DEF Work, Connect, Break, Reserve, Replay, Exchange, CallTool, CallFails, Record,
                Accept, CallModel, RetryModel, ModelEnds, Move, portal
  <2>2. \A t \in Stream : t # s => stream'[t] = stream[t]
    BY <1>4 DEF Work, Connect, Break, Reserve, Replay, Exchange, CallTool, CallFails, Record,
                Accept, CallModel, RetryModel, ModelEnds, Move, TypeOK
  <2>3. ASSUME NEW r \in Run, NEW e \in Epoch, Connect(s, r, e)
        PROVE  runs[stream'[s].run] # "none"
    <3>1. epoch[r] > 0
      BY <2>3, ToolCallsAssumption DEF Connect, Epoch, TypeOK
    <3> QED BY <2>3, <3>1 DEF Connect, TypeOK
  <2>4. ASSUME ~\E r \in Run, e \in Epoch : Connect(s, r, e)
        PROVE  stream'[s].pc = "closed" \/ (stream[s].pc # "closed" /\ stream'[s].run = stream[s].run)
    <3>1. CASE Break(s)
      BY <3>1 DEF Break, TypeOK, Closed
    <3>2. ASSUME NEW pc, NEW i, NEW t, NEW x, NEW n, stream[s].pc # "closed",
                 Move(s, Working(s, pc, i, t, x, n))
          PROVE  stream'[s].run = stream[s].run
      BY <3>2 DEF Move, Working, TypeOK
    <3>3. ASSUME stream[s].pc # "closed", Move(s, Open(s)) PROVE stream'[s].run = stream[s].run
      BY <3>3 DEF Move, Open, TypeOK
    <3>4. ASSUME Move(s, Closed) PROVE stream'[s].pc = "closed"
      BY <3>4 DEF Move, Closed, TypeOK
    <3>5. CASE CallModel(s)
      BY <3>5 DEF CallModel, Move, TypeOK
    <3>6. CASE RetryModel(s)
      BY <3>6, StreamShape DEF RetryModel, Move, TypeOK
    <3>7. CASE CallFails(s) \/ Record(s) \/ Accept(s) \/ ModelEnds(s)
      BY <3>2, <3>3, <3>4, <3>7 DEF CallFails, Record, Accept, ModelEnds
    <3>8. CASE \/ Exchange(s) \/ CallTool(s)
               \/ \E i \in Invocation, t \in Tool : Reserve(s, i, t) \/ Replay(s, i, t)
      BY <3>2, <3>3, <3>8 DEF Exchange, CallTool, Reserve, Replay
    <3> QED BY <1>4, <2>4, <3>1, <3>5, <3>6, <3>7, <3>8 DEF Work
  <2> QED BY <1>4, <2>1, <2>2, <2>3, <2>4
<1> QED BY <1>1, <1>2, <1>3, <1>4 DEF Next

CallGoals == CallInv /\ EffectOnce /\ AnswersAgree

LEMMA CallStep ==
  ASSUME TypeOK, CallGoals, [Next]_vars
  PROVE  CallGoals'
<1>1. CASE UNCHANGED <<stream, ledger, effects, answers>>
  BY <1>1 DEF CallGoals, CallInv, Holding, Did, EffectOnce, AnswersAgree
<1>2. ASSUME NEW s \in Stream,
             \/ \E r \in Run, e \in Epoch : Connect(s, r, e)
             \/ Break(s) \/ CallModel(s) \/ RetryModel(s) \/ ModelEnds(s) \/ CallFails(s)
      PROVE  CallGoals'
  <2>1. /\ UNCHANGED <<ledger, effects, answers>>
        /\ \A t \in Stream : t # s => stream'[t] = stream[t]
    BY <1>2 DEF Connect, Break, CallModel, RetryModel, ModelEnds, CallFails, Move, TypeOK
  <2>2. stream'[s].pc \in {"open", "closed", "model"}
    <3>1. CASE RetryModel(s)
      BY <3>1, StreamShape DEF RetryModel, Move, TypeOK
    <3>2. CASE \E r \in Run, e \in Epoch : Connect(s, r, e)
      BY <3>2 DEF Connect, TypeOK
    <3>3. CASE Break(s)
      BY <3>3 DEF Break, Closed, TypeOK
    <3>4. CASE CallModel(s)
      BY <3>4 DEF CallModel, Move, TypeOK
    <3>5. CASE ModelEnds(s) \/ CallFails(s)
      BY <3>5 DEF ModelEnds, CallFails, Move, Open, Closed, TypeOK
    <3> QED BY <1>2, <3>1, <3>2, <3>3, <3>4, <3>5
  <2>3. \A t \in Stream : stream'[t].pc \in Holding \cup {"accept"} => stream'[t] = stream[t]
    BY <2>1, <2>2 DEF Holding
  <2> QED BY <2>1, <2>3 DEF CallGoals, CallInv, Holding, Did, EffectOnce, AnswersAgree
<1>3. ASSUME NEW s \in Stream, NEW i \in Invocation, NEW k \in Tool, Reserve(s, i, k)
      PROVE  CallGoals'
  <2> DEFINE r == stream[s].run
  <2>1. /\ r \in Run /\ ledger[r][i].state = "absent"
        /\ UNCHANGED <<effects, answers>>
        /\ \A t \in Stream : t # s => stream'[t] = stream[t]
    BY <1>3, StreamShape DEF Reserve, Reservable, Move, TypeOK
  <2>2. /\ stream'[s].pc = "exchange" /\ stream'[s].run = r
        /\ stream'[s].invocation = i /\ stream'[s].tool = k
    BY <1>3 DEF Reserve, Move, Working, TypeOK
  <2>3. /\ ledger'[r][i].state = "executing" /\ ledger'[r][i].tool = k
        /\ \A q \in Run, j \in Invocation : ~(q = r /\ j = i) => ledger'[q][j] = ledger[q][j]
    BY <1>3, <2>1 DEF Reserve, TypeOK
  <2>4. \A t \in Stream \ {s} : stream[t].pc \in Holding =>
          /\ stream[t].run \in Run /\ stream[t].invocation \in Invocation
          /\ ~(stream[t].run = r /\ stream[t].invocation = i)
    BY <2>1, StreamShape DEF CallGoals, CallInv, Holding
  <2>5. \A f \in effects : f.run \in Run /\ f.invocation \in Invocation
                           /\ ~(f.run = r /\ f.invocation = i)
    BY <2>1 DEF CallGoals, CallInv, TypeOK
  <2> HIDE DEF r
  <2>6. CallInv'
    <3>1. \A t, u \in Stream :
            /\ stream'[t].pc \in Holding /\ stream'[u].pc \in Holding
            /\ stream'[t].run = stream'[u].run /\ stream'[t].invocation = stream'[u].invocation
            => t = u
      BY <2>1, <2>2, <2>4 DEF CallGoals, CallInv
    <3>2. \A t \in Stream : stream'[t].pc \in Holding =>
            /\ ledger'[stream'[t].run][stream'[t].invocation].state = "executing"
            /\ ledger'[stream'[t].run][stream'[t].invocation].tool = stream'[t].tool
      BY <2>1, <2>2, <2>3, <2>4 DEF CallGoals, CallInv
    <3>3. \A t \in Stream : stream'[t].pc \in {"exchange", "call"} =>
            \A f \in effects : ~(f.run = stream'[t].run /\ f.invocation = stream'[t].invocation)
      BY <2>1, <2>2, <2>5 DEF CallGoals, CallInv
    <3>4. \A t \in Stream : stream'[t].pc \in {"record", "accept"} =>
            Did(effects, stream'[t].run, stream'[t].invocation, stream'[t].tool, stream'[t].result)
      BY <2>1, <2>2 DEF CallGoals, CallInv
    <3>5. \A f \in effects : ledger'[f.run][f.invocation].state # "absent"
      BY <2>3, <2>5 DEF CallGoals, CallInv
    <3>6. \A q \in Run, j \in Invocation : ledger'[q][j].state = "completed" =>
            Did(effects, q, j, ledger'[q][j].tool, ledger'[q][j].result)
      BY <2>3 DEF CallGoals, CallInv
    <3> QED BY <2>1, <3>1, <3>2, <3>3, <3>4, <3>5, <3>6 DEF CallInv, Did
  <2> QED BY <2>1, <2>6 DEF CallGoals, EffectOnce, AnswersAgree
<1>4. ASSUME NEW s \in Stream, NEW i \in Invocation, NEW k \in Tool, Replay(s, i, k)
      PROVE  CallGoals'
  <2> DEFINE r == stream[s].run
  <2>1. /\ r \in Run /\ ledger[r][i].state = "completed" /\ ledger[r][i].tool = k
        /\ UNCHANGED <<ledger, effects, answers>>
        /\ \A t \in Stream : t # s => stream'[t] = stream[t]
    BY <1>4, StreamShape DEF Replay, Stored, Move, TypeOK
  <2>2. /\ stream'[s].pc = "accept" /\ stream'[s].run = r /\ stream'[s].invocation = i
        /\ stream'[s].tool = k /\ stream'[s].result = ledger[r][i].result
    BY <1>4 DEF Replay, Move, Working, TypeOK
  <2>3. Did(effects, r, i, k, ledger[r][i].result)
    BY <2>1 DEF CallGoals, CallInv
  <2> HIDE DEF r
  <2> QED BY <2>1, <2>2, <2>3 DEF CallGoals, CallInv, Holding, Did, EffectOnce, AnswersAgree
<1>5. ASSUME NEW s \in Stream, Exchange(s) PROVE CallGoals'
  <2>1. /\ UNCHANGED <<ledger, effects, answers>> /\ stream[s].pc = "exchange"
        /\ \A t \in Stream : t # s => stream'[t] = stream[t]
    BY <1>5 DEF Exchange, Move, TypeOK
  <2>2. /\ stream'[s].pc = "call" /\ stream'[s].run = stream[s].run
        /\ stream'[s].invocation = stream[s].invocation /\ stream'[s].tool = stream[s].tool
    BY <1>5 DEF Exchange, Move, Working, TypeOK
  <2> QED BY <2>1, <2>2 DEF CallGoals, CallInv, Holding, Did, EffectOnce, AnswersAgree
<1>6. ASSUME NEW s \in Stream, CallTool(s) PROVE CallGoals'
  <2> DEFINE r == stream[s].run
             i == stream[s].invocation
             k == stream[s].tool
             n == Cardinality(Done(r, i)) + 1
             f == [run |-> r, invocation |-> i, number |-> n, tool |-> k,
                   epoch |-> stream[s].epoch, grant |-> runs[r],
                   granted |-> stream[s].granted, at |-> now]
  <2>1. /\ UNCHANGED <<ledger, answers>> /\ stream[s].pc = "call"
        /\ effects' = effects \cup {f}
        /\ \A t \in Stream : t # s => stream'[t] = stream[t]
    BY <1>6 DEF CallTool, Move, TypeOK
  <2>2. \/ /\ stream'[s].pc = "record" /\ stream'[s].run = r /\ stream'[s].invocation = i
           /\ stream'[s].tool = k /\ stream'[s].result = n
        \/ stream'[s].pc = "open"
    <3>1. CASE Move(s, Open(s))
      BY <3>1 DEF Move, Open, TypeOK
    <3>2. CASE Move(s, Working(s, "record", i, k, 0, n))
      BY <3>2 DEF Move, Working, TypeOK
    <3> QED BY <1>6, <3>1, <3>2 DEF CallTool
  <2>3. f.run = r /\ f.invocation = i /\ f.tool = k /\ f.number = n
    OBVIOUS
  <2>4. /\ ledger[r][i].state = "executing"
        /\ \A g \in effects : ~(g.run = r /\ g.invocation = i)
        /\ \A t \in Stream \ {s} : stream[t].pc \in Holding =>
             ~(stream[t].run = r /\ stream[t].invocation = i)
    BY <2>1 DEF CallGoals, CallInv, Holding
  <2> HIDE DEF r, i, k, n, f
  <2>5. \A q, j, l, m : Did(effects, q, j, l, m) => Did(effects', q, j, l, m)
    BY <2>1 DEF Did
  <2>6. Did(effects', r, i, k, n)
    BY <2>1, <2>3 DEF Did
  <2>7. CallInv'
    <3>1. \A t \in Stream : stream'[t].pc \in Holding =>
            \/ t # s /\ stream'[t] = stream[t]
            \/ t = s /\ stream'[s].pc = "record" /\ stream'[s].run = r
                     /\ stream'[s].invocation = i /\ stream'[s].tool = k
      BY <2>1, <2>2 DEF Holding
    <3>2. \A t, u \in Stream :
            /\ stream'[t].pc \in Holding /\ stream'[u].pc \in Holding
            /\ stream'[t].run = stream'[u].run /\ stream'[t].invocation = stream'[u].invocation
            => t = u
      BY <2>4, <3>1 DEF CallGoals, CallInv
    <3>3. \A t \in Stream : stream'[t].pc \in Holding =>
            /\ ledger[stream'[t].run][stream'[t].invocation].state = "executing"
            /\ ledger[stream'[t].run][stream'[t].invocation].tool = stream'[t].tool
      <4>1. ledger[r][i].tool = k
        BY <2>1 DEF CallGoals, CallInv, Holding, r, i, k
      <4> QED BY <2>4, <3>1, <4>1 DEF CallGoals, CallInv
    <3>4. \A t \in Stream : stream'[t].pc \in {"exchange", "call"} =>
            \A g \in effects' : ~(g.run = stream'[t].run /\ g.invocation = stream'[t].invocation)
      BY <2>1, <2>3, <2>4, <3>1 DEF CallGoals, CallInv, Holding
    <3>5. \A t \in Stream : stream'[t].pc \in {"record", "accept"} =>
            Did(effects', stream'[t].run, stream'[t].invocation, stream'[t].tool, stream'[t].result)
      BY <2>1, <2>2, <2>5, <2>6 DEF CallGoals, CallInv
    <3>6. \A g \in effects' : ledger[g.run][g.invocation].state # "absent"
      BY <2>1, <2>3, <2>4 DEF CallGoals, CallInv
    <3>7. \A q \in Run, j \in Invocation : ledger[q][j].state = "completed" =>
            Did(effects', q, j, ledger[q][j].tool, ledger[q][j].result)
      BY <2>5, <2>1 DEF CallGoals, CallInv
    <3> QED BY <2>1, <3>2, <3>3, <3>4, <3>5, <3>6, <3>7 DEF CallInv
  <2>8. EffectOnce'
    BY <2>1, <2>3, <2>4 DEF CallGoals, EffectOnce
  <2>9. AnswersAgree'
    BY <2>1 DEF CallGoals, AnswersAgree
  <2> QED BY <2>7, <2>8, <2>9 DEF CallGoals
<1>7. ASSUME NEW s \in Stream, Record(s) PROVE CallGoals'
  <2> DEFINE r == stream[s].run
             i == stream[s].invocation
             k == stream[s].tool
             n == stream[s].result
  <2>1. /\ UNCHANGED <<effects, answers>> /\ stream[s].pc = "record"
        /\ r \in Run /\ i \in Invocation
        /\ \A t \in Stream : t # s => stream'[t] = stream[t]
    BY <1>7, StreamShape DEF Record, Move, TypeOK, Holding
  <2>2. CASE ledger' = ledger /\ Move(s, Open(s))
    <3>1. stream'[s].pc = "open"
      BY <2>2 DEF Move, Open, TypeOK
    <3> QED BY <2>1, <2>2, <3>1 DEF CallGoals, CallInv, Holding, Did, EffectOnce, AnswersAgree
  <2>3. CASE /\ ledger' = [ledger EXCEPT ![r][i].state = "completed", ![r][i].result = n]
             /\ Move(s, Working(s, "accept", i, k, 0, n))
    <3>1. /\ stream'[s].pc = "accept" /\ stream'[s].run = r /\ stream'[s].invocation = i
          /\ stream'[s].tool = k /\ stream'[s].result = n
      BY <2>3 DEF Move, Working, TypeOK
    <3>2. ledger[r][i].tool = k /\ Did(effects, r, i, k, n)
      BY <2>1 DEF CallGoals, CallInv, Holding
    <3>3. /\ \A q \in Run, j \in Invocation : ~(q = r /\ j = i) => ledger'[q][j] = ledger[q][j]
          /\ ledger'[r][i].state = "completed" /\ ledger'[r][i].tool = ledger[r][i].tool
          /\ ledger'[r][i].result = n
      <4>1. ledger \in [Run -> [Invocation -> LedgerRow]]
        BY DEF TypeOK, LedgerRow
      <4>2. ledger' = [ledger EXCEPT ![r][i].state = "completed", ![r][i].result = n]
        BY <2>3
      <4>3. r \in Run /\ i \in Invocation
        BY <2>1
      <4> HIDE DEF r, i, k, n
      <4>4. \A q \in Run, j \in Invocation : ~(q = r /\ j = i) => ledger'[q][j] = ledger[q][j]
        BY <4>1, <4>2, <4>3
      <4> DEFINE row == ledger[r][i]
      <4>5. row \in LedgerRow /\ ledger'[r][i] = [row EXCEPT !.state = "completed", !.result = n]
        BY <4>1, <4>2, <4>3
      <4>6. [row EXCEPT !.state = "completed", !.result = n].state = "completed"
            /\ [row EXCEPT !.state = "completed", !.result = n].result = n
            /\ [row EXCEPT !.state = "completed", !.result = n].tool = row.tool
        <5> HIDE DEF row
        <5> QED BY <4>5 DEF LedgerRow
      <4> QED BY <4>4, <4>5, <4>6
    <3>4. \A t \in Stream \ {s} : stream[t].pc \in Holding =>
            /\ stream[t].run \in Run /\ stream[t].invocation \in Invocation
            /\ ~(stream[t].run = r /\ stream[t].invocation = i)
      BY <2>1, StreamShape DEF CallGoals, CallInv, Holding
    <3>5. \A f \in effects : f.run \in Run /\ f.invocation \in Invocation
      BY DEF TypeOK
    <3> HIDE DEF r, i, k, n
    <3>6. \A t \in Stream : stream'[t].pc \in Holding => t # s /\ stream'[t] = stream[t]
      BY <2>1, <3>1 DEF Holding
    <3>7. \A t \in Stream : stream'[t].pc \in Holding =>
            /\ ledger'[stream'[t].run][stream'[t].invocation].state = "executing"
            /\ ledger'[stream'[t].run][stream'[t].invocation].tool = stream'[t].tool
      BY <3>3, <3>4, <3>6 DEF CallGoals, CallInv
    <3>8. \A t \in Stream : stream'[t].pc \in {"record", "accept"} =>
            Did(effects, stream'[t].run, stream'[t].invocation, stream'[t].tool, stream'[t].result)
      BY <2>1, <3>1, <3>2 DEF CallGoals, CallInv
    <3>9. \A f \in effects : ledger'[f.run][f.invocation].state # "absent"
      BY <3>3, <3>5 DEF CallGoals, CallInv
    <3>10. \A q \in Run, j \in Invocation : ledger'[q][j].state = "completed" =>
             Did(effects, q, j, ledger'[q][j].tool, ledger'[q][j].result)
      BY <3>2, <3>3 DEF CallGoals, CallInv
    <3>11. \A t \in Stream : stream'[t].pc \in {"exchange", "call"} =>
             \A f \in effects : ~(f.run = stream'[t].run /\ f.invocation = stream'[t].invocation)
      BY <3>6 DEF CallGoals, CallInv, Holding
    <3>12. \A t, u \in Stream :
             /\ stream'[t].pc \in Holding /\ stream'[u].pc \in Holding
             /\ stream'[t].run = stream'[u].run /\ stream'[t].invocation = stream'[u].invocation
             => t = u
      BY <3>6 DEF CallGoals, CallInv
    <3>13. CallInv'
      BY <2>1, <3>7, <3>8, <3>9, <3>10, <3>11, <3>12 DEF CallInv, Did
    <3> QED BY <2>1, <3>13 DEF CallGoals, EffectOnce, AnswersAgree
  <2> QED BY <1>7, <2>2, <2>3 DEF Record
<1>8. ASSUME NEW s \in Stream, Accept(s) PROVE CallGoals'
  <2> DEFINE a == [run |-> stream[s].run, invocation |-> stream[s].invocation,
                   tool |-> stream[s].tool, result |-> stream[s].result]
  <2>1. /\ UNCHANGED <<ledger, effects>> /\ stream[s].pc = "accept"
        /\ answers' = answers \/ answers' = answers \cup {a}
        /\ \A t \in Stream : t # s => stream'[t] = stream[t]
    BY <1>8 DEF Accept, Move, TypeOK
  <2>2. stream'[s].pc \in {"open", "closed"}
    <3>1. CASE Move(s, Open(s))
      BY <3>1 DEF Move, Open, TypeOK
    <3>2. CASE Move(s, Closed)
      BY <3>2 DEF Move, Closed, TypeOK
    <3> QED BY <1>8, <3>1, <3>2 DEF Accept
  <2>3. CallInv'
    BY <2>1, <2>2 DEF CallGoals, CallInv, Holding, Did
  <2>4. EffectOnce'
    BY <2>1 DEF CallGoals, EffectOnce
  <2>5. Did(effects, a.run, a.invocation, a.tool, a.result)
    BY <2>1 DEF CallGoals, CallInv
  <2> HIDE DEF a
  <2>6. AnswersAgree'
    BY <2>1, <2>5 DEF CallGoals, AnswersAgree, Did
  <2> QED BY <2>3, <2>4, <2>6 DEF CallGoals
<1>9. ASSUME NEW s \in Stream, Work(s) PROVE CallGoals'
  BY <1>2, <1>3, <1>4, <1>5, <1>6, <1>7, <1>8, <1>9 DEF Work
<1>10. CASE UNCHANGED vars \/ Tick \/ (PortalStep /\ UNCHANGED <<now, tools>>)
            \/ \E r \in Run : StartAttempt(r)
  BY <1>1, <1>10 DEF vars, Tick, tools, StartAttempt
<1> QED BY <1>9, <1>10 DEF Next

\* What lay within a grant lies within it after a revocation, and as time passes.
LEMMA WithinKept ==
  ASSUME TypeOK, NEW k \in Grant, NEW t \in Nat, NEW tool, Within(grants[k], now, t, tool),
         \/ PortalStep /\ now' = now
         \/ grants' = grants /\ now' \in {now, now + 1}
  PROVE  Within(grants'[k], now', t, tool)
<1>1. now \in Nat /\ grants[k].revoked \in Nat /\ grants[k].expires \in Nat
  BY DEF TypeOK, PTypeOK, GrantRecord
<1>2. CASE grants' = grants /\ now' \in {now, now + 1}
  <2>1. now' \in Nat /\ now <= now'
    BY <1>1, <1>2
  <2>2. CASE grants[k].state = "revoked"
    BY <1>2, <2>2 DEF Within
  <2>3. CASE grants[k].state # "revoked"
    <3>1. t <= now
      BY <2>3 DEF Within
    <3>2. t <= now'
      BY <1>1, <2>1, <3>1
    <3> QED BY <1>2, <2>3, <3>2 DEF Within
  <2> QED BY <2>2, <2>3
<1>3. CASE PortalStep /\ now' = now
  <2>1. /\ grants'[k].state # "absent" /\ grants'[k].scopes = grants[k].scopes
        /\ grants'[k].expires = grants[k].expires
        /\ \/ grants'[k] = grants[k]
           \/ grants[k].state # "revoked" /\ grants'[k].revoked = now
    BY <1>3, PortalKeeps DEF TypeOK, Within
  <2> QED BY <1>1, <1>3, <2>1 DEF Within
<1> QED BY <1>2, <1>3

\* A token lies within the grant it was exchanged for, and so does what is done
\* with it.
LEMMA GrantStep ==
  ASSUME TypeOK, RunInv, GrantInv, [Next]_vars
  PROVE  GrantInv'
<1>1. \A f \in effects : f.grant \in Grant /\ f.granted \in Nat
  BY DEF TypeOK
<1>2. \A s \in Stream : stream[s].pc = "call" =>
        /\ stream[s].run \in Run /\ runs[stream[s].run] \in Grant
        /\ runs[stream[s].run] # "none" /\ stream[s].granted \in Nat
  BY StreamShape, RunHasGrant DEF Holding, RunInv
<1>3. CASE PortalStep /\ UNCHANGED <<now, tools>>
  <2>1. \A r \in Run : runs[r] # "none" => runs'[r] = runs[r]
    BY <1>3, PortalKeeps DEF TypeOK
  <2>2. \A f \in effects : Within(grants[f.grant], now, f.granted, f.tool)
                             => Within(grants'[f.grant], now', f.granted, f.tool)
    BY <1>1, <1>3, WithinKept
  <2>3. ASSUME NEW s \in Stream, stream[s].pc = "call"
        PROVE  Within(grants'[runs[stream[s].run]], now', stream[s].granted, stream[s].tool)
    BY <1>2, <1>3, <2>3, WithinKept DEF GrantInv, tools
  <2> QED BY <1>2, <1>3, <2>1, <2>2, <2>3 DEF GrantInv, tools
<1>4. CASE Tick \/ UNCHANGED vars \/ \E r \in Run : StartAttempt(r)
  <2>1. /\ grants' = grants /\ now' \in {now, now + 1}
        /\ UNCHANGED <<runs, stream, effects>>
    BY <1>4 DEF Tick, vars, StartAttempt, portal, tools
  <2>2. \A f \in effects : Within(grants[f.grant], now, f.granted, f.tool)
                             => Within(grants'[f.grant], now', f.granted, f.tool)
    BY <1>1, <2>1, WithinKept
  <2>3. ASSUME NEW s \in Stream, stream[s].pc = "call"
        PROVE  Within(grants'[runs[stream[s].run]], now', stream[s].granted, stream[s].tool)
    BY <1>2, <2>1, <2>3, WithinKept DEF GrantInv
  <2> QED BY <2>1, <2>2, <2>3 DEF GrantInv
<1>5. ASSUME NEW s \in Stream, Exchange(s) PROVE GrantInv'
  <2> DEFINE g == grants[runs[stream[s].run]]
  <2>1. /\ UNCHANGED <<now, runs, grants, effects>>
        /\ stream'[s].granted = now /\ stream'[s].run = stream[s].run
        /\ stream'[s].tool = stream[s].tool
        /\ \A t \in Stream : t # s => stream'[t] = stream[t]
        /\ stream[s].pc = "exchange" /\ Active(g) /\ stream[s].tool \in g.scopes
    BY <1>5 DEF Exchange, Move, Working, portal, TypeOK
  <2>2. Within(g, now, now, stream[s].tool)
    BY <2>1 DEF Within, Active, TypeOK, PTypeOK
  <2> HIDE DEF g
  <2>3. Within(g, now, stream'[s].granted, stream'[s].tool)
    BY <2>1, <2>2
  <2>4. ASSUME NEW t \in Stream, stream'[t].pc = "call"
        PROVE  Within(grants[runs[stream'[t].run]], now, stream'[t].granted, stream'[t].tool)
    BY <2>1, <2>3, <2>4 DEF GrantInv, g
  <2> QED BY <2>1, <2>4 DEF GrantInv
<1>6. ASSUME NEW s \in Stream, CallTool(s) PROVE GrantInv'
  <2> DEFINE w == stream[s]
             n == Cardinality(Done(w.run, w.invocation)) + 1
             f == [run |-> w.run, invocation |-> w.invocation, number |-> n, tool |-> w.tool,
                   epoch |-> w.epoch, grant |-> runs[w.run],
                   granted |-> w.granted, at |-> now]
  <2>1. /\ UNCHANGED <<now, runs, grants>> /\ effects' = effects \cup {f}
        /\ w.pc = "call"
        /\ \A t \in Stream : t # s => stream'[t] = stream[t]
    BY <1>6 DEF CallTool, Move, portal, TypeOK
  <2>2. stream'[s].pc \in {"record", "open"}
    <3>1. CASE Move(s, Open(s))
      BY <3>1 DEF Move, Open, TypeOK
    <3>2. CASE Move(s, Working(s, "record", w.invocation, w.tool, 0, n))
      BY <3>2 DEF Move, Working, TypeOK
    <3> QED BY <1>6, <3>1, <3>2 DEF CallTool
  <2>3. Within(grants[f.grant], now, f.granted, f.tool)
    <3>1. Within(grants[runs[w.run]], now, w.granted, w.tool)
      BY <2>1 DEF GrantInv
    <3> HIDE DEF n
    <3> QED BY <3>1
  <2> HIDE DEF f
  <2> QED BY <2>1, <2>2, <2>3 DEF GrantInv
<1>7. ASSUME NEW s \in Stream, Work(s), ~Exchange(s), ~CallTool(s) PROVE GrantInv'
  <2>1. UNCHANGED <<now, runs, grants, effects>>
    BY <1>7 DEF Work, Connect, Break, Reserve, Replay, CallFails, Record, Accept, CallModel,
                RetryModel, ModelEnds, Move, portal
  <2>2. \A t \in Stream : t # s => stream'[t] = stream[t]
    BY <1>7 DEF Work, Connect, Break, Reserve, Replay, CallFails, Record, Accept, CallModel,
                RetryModel, ModelEnds, Move, TypeOK
  <2>3. stream'[s].pc # "call"
    <3>1. ASSUME NEW x, Move(s, x) PROVE stream'[s] = x
      BY <3>1 DEF Move, TypeOK
    <3>2. Open(s).pc = "open" /\ Closed.pc = "closed"
      BY DEF Open, Closed
    <3>3. \A pc, i, t, e, n : Working(s, pc, i, t, e, n).pc = pc
      BY DEF Working
    <3>4. CASE Move(s, Open(s)) \/ Move(s, Closed)
      BY <3>1, <3>2, <3>4
    <3>0. CASE Record(s)
      <4>1. \/ Move(s, Open(s))
            \/ \E i, k, n : Move(s, Working(s, "accept", i, k, 0, n))
        BY <3>0 DEF Record
      <4> QED BY <3>1, <3>3, <3>4, <4>1
    <3>9. CASE CallFails(s) \/ Accept(s) \/ ModelEnds(s)
      <4>1. Move(s, Open(s)) \/ Move(s, Closed)
        BY <3>9 DEF CallFails, Accept, ModelEnds
      <4> QED BY <3>4, <4>1
    <3>5. CASE \E i \in Invocation, t \in Tool : Reserve(s, i, t) \/ Replay(s, i, t)
      BY <3>1, <3>3, <3>5 DEF Reserve, Replay
    <3>6. CASE CallModel(s)
      BY <3>1, <3>6 DEF CallModel
    <3>7. CASE RetryModel(s)
      BY <3>1, <3>7, StreamShape DEF RetryModel
    <3>8. CASE Break(s) \/ \E r \in Run, e \in Epoch : Connect(s, r, e)
      BY <3>2, <3>8 DEF Break, Connect, TypeOK
    <3> QED BY <1>7, <3>0, <3>5, <3>6, <3>7, <3>8, <3>9 DEF Work
  <2> QED BY <2>1, <2>2, <2>3 DEF GrantInv
<1> QED BY <1>3, <1>4, <1>5, <1>6, <1>7 DEF Next

-----------------------------------------------------------------------------
LEMMA InvInit == Init => ToolInv
<1> SUFFICES ASSUME Init PROVE ToolInv
  OBVIOUS
<1> USE DEF Init, PInit
<1>1. TypeOK
  <2>1. PTypeOK
    BY PortalAssumption DEF PTypeOK, GrantRecord, NoGrant, Resting
  <2>2. Closed \in StreamState /\ NoEntry \in Entry
    BY DEF StreamState, NoEntry, Entry
  <2> QED BY <2>1, <2>2, ToolCallsAssumption DEF TypeOK, Entry
<1>2. IsFiniteSet(effects)
  BY FS_EmptySet
<1>3. PortalInv
  BY DEF PortalInv, Resting
<1>4. RunInv /\ GrantInv /\ CallInv /\ EffectOnce /\ AnswersAgree
  BY DEF RunInv, GrantInv, CallInv, EffectOnce, AnswersAgree, Closed, Holding, NoEntry
<1> QED BY <1>1, <1>2, <1>3, <1>4 DEF ToolInv

LEMMA InvStep == ToolInv /\ [Next]_vars => ToolInv'
<1> SUFFICES ASSUME ToolInv, [Next]_vars PROVE ToolInv'
  OBVIOUS
<1>1. PortalInv'
  <2>1. CASE PortalStep
    BY <2>1, PortalInvStep DEF ToolInv, TypeOK
  <2>2. CASE UNCHANGED portal
    BY <2>2 DEF ToolInv, PortalInv, portal
  <2>3. ASSUME NEW s \in Stream, Work(s) PROVE UNCHANGED portal
    BY <2>3 DEF Work, Connect, Break, Reserve, Replay, Exchange, CallTool, CallFails, Record,
                Accept, CallModel, RetryModel, ModelEnds, Move
  <2> QED BY <2>1, <2>2, <2>3 DEF Next, Tick, StartAttempt, vars
<1> QED BY <1>1, TypeStep, RunStep, CallStep, GrantStep DEF ToolInv, CallGoals

\* The inductive invariant of submissions, grants, calls and the ledger: types, what
\* a stream knows of the row it reserved, and what a grant covers.
THEOREM ToolInvariant == Spec => []ToolInv
  BY InvInit, InvStep, PTL DEF Spec

\* Every variable of the Portal, of Identity Delegation and of the Runtime API's
\* tool gateway keeps its type.
THEOREM ToolTypes == Spec => []TypeOK
<1>1. ToolInv => TypeOK
  BY DEF ToolInv
<1> QED BY <1>1, ToolInvariant, PTL

\* However create_message is repeated, interleaved and cut short, a submission
\* has one grant, and its run acts for the owner of its conversation with the
\* tools of that conversation's release.
THEOREM OneGrantPerSubmission == Spec => []SubmissionIsOne
<1>1. ToolInv => SubmissionIsOne
  <2> SUFFICES ASSUME ToolInv, NEW r \in Run, runs[r] # "none"
               PROVE  \E x \in issued :
                        /\ RunOf(x.request) = r /\ x.grant = runs[r]
                        /\ grants[runs[r]].user = Owner[r.conversation]
                        /\ grants[runs[r]].conversation = r.conversation
                        /\ grants[runs[r]].scopes = Manifest[r.conversation]
    BY DEF ToolInv, PortalInv, SubmissionIsOne
  <2>1. PICK x \in issued : RunOf(x.request) = r /\ x.grant = runs[r]
    BY DEF ToolInv, PortalInv
  <2>2. x.request.conversation = r.conversation
    BY <2>1 DEF RunOf
  <2> QED BY <2>1, <2>2 DEF ToolInv, PortalInv
<1> QED BY <1>1, ToolInvariant, PTL

\* An invocation takes effect once at most, whichever attempts and streams repeat
\* it and wherever they break.
THEOREM EffectsHappenOnce == Spec => []EffectOnce
<1>1. ToolInv => EffectOnce
  BY DEF ToolInv
<1> QED BY <1>1, ToolInvariant, PTL

\* Every answer to an invocation is what its tool did.
THEOREM AnswersToCallsAgree == Spec => []AnswersAgree
<1>1. ToolInv => AnswersAgree
  BY DEF ToolInv
<1> QED BY <1>1, ToolInvariant, PTL

\* Whatever a tool did rests on an exchange made while the run's grant covered the
\* tool and had neither expired nor been revoked, for any number of attempts,
\* streams, retries and revocations.  It does not say that the act came before the
\* grant's end.
THEOREM ActsOnExchange == Spec => []ActedOnExchange
<1>1. ToolInv => ActedOnExchange
  <2> SUFFICES ASSUME ToolInv, NEW f \in effects
               PROVE  /\ f.granted < grants[f.grant].expires
                      /\ grants[f.grant].state = "revoked"
                           => f.granted <= grants[f.grant].revoked
                      /\ f.tool \in grants[f.grant].scopes
    BY DEF ActedOnExchange
  <2> QED BY DEF ToolInv, GrantInv, Within
<1> QED BY <1>1, ToolInvariant, PTL
=============================================================================
