------------------------- MODULE ConversationProofs -------------------------
(***************************************************************************)
(* Proofs about Conversation: whatever attempts announce and however it is *)
(* delivered, the service implements MessageHistory, opens a question when *)
(* it was asked and committed, and asks for one run per trigger.           *)
(*                                                                         *)
(* Every step changes at most one message, one proposal and one request;   *)
(* the first lemmas say how, and the invariants follow from them.  What is *)
(* presented has left a trace in the tables, from which it follows that it *)
(* is presented once, and that a reader misses parts of unfinished         *)
(* messages at most.                                                       *)
(***************************************************************************)
EXTENDS Conversation, FiniteSetTheorems, TLAPS

MessageRow == [status : {"absent", "streaming"} \cup Final,
               run : Run \cup {"none"}, thread : Thread \cup {"none"}, content : SUBSET Nat]
RequestRow == [state : {"absent", "reserved", "pending", "answered"},
               run : Run \cup {"none"}, thread : Thread \cup {"none"}, grant : Grant \cup {"none"}]
ProposalRow == [finals : SUBSET Message, thread : Thread \cup {"none"}, confirmed : BOOLEAN]
ConversationRow == [owner : Owner \cup {"none"}, sequence : Nat, grant : Grant \cup {"none"}]

\* The part of the outbox that confirms a run, and the part that asks for runs
CommittedIn(box, r) == {x \in box : x.kind = "committed" /\ x.run = r}
AskedIn(box) == {x \in box : x.kind = "requested"}

\* A message without an end has no text, and a text has only chunks
TextInv ==
  \A m \in Message :
    /\ messages[m].status \in {"absent", "streaming"} => messages[m].content = {}
    /\ messages[m].content \subseteq Chunk

ConfirmedInv ==
  \A r \in Run :
    /\ ~proposals[r].confirmed => CommittedIn(outbox, r) = {}
    /\ proposals[r].confirmed => proposals[r].finals # {}

CInv == TypeOK /\ TextInv /\ ConfirmedInv

-----------------------------------------------------------------------------
(* Events                                                                   *)

LEMMA EventFields ==
  ASSUME NEW e \in Event
  PROVE  /\ e.thread \in Thread /\ e.run \in Run
         /\ e.kind \in {"started", "delta", "completed", "interrupted", "failed"} => e.message \in Message
         /\ e.kind = "delta" => e.chunk \in Chunk
         /\ e.kind = "completed" => e.count \in Nat
         /\ e.kind = "result" => e.finals \subseteq Message
         /\ e.kind \in {"request", "commitment"} => e.suspension \in Suspension
<1>1. CASE e \in [kind : {"started", "interrupted", "failed"}, thread : Thread, run : Run, message : Message]
  BY <1>1
<1>2. CASE e \in [kind : {"delta"}, thread : Thread, run : Run, message : Message, chunk : Chunk]
  BY <1>2
<1>3. CASE e \in [kind : {"completed"}, thread : Thread, run : Run, message : Message, count : Nat]
  BY <1>3
<1>4. CASE e \in [kind : {"result"}, thread : Thread, run : Run, finals : SUBSET Message]
  BY <1>4
<1>5. CASE e \in [kind : {"request", "commitment"}, thread : Thread, run : Run, suspension : Suspension]
  BY <1>5
<1> QED BY <1>1, <1>2, <1>3, <1>4, <1>5 DEF Event

\* What a delivery works on is an event.
LEMMA WorkIsEvent ==
  ASSUME TypeOK, NEW w \in Worker, call[w] # Free
  PROVE  call[w] \in Event /\ call[w] \in Announced
  BY ConversationAssumption DEF TypeOK

-----------------------------------------------------------------------------
(* What a step may do to the rows                                           *)

\* A message begins, or is stored complete, or ends with the chunks that came.
Moves(old, new, text) ==
  \/ old.status = "absent" /\ new.status \in {"streaming", "completed"} /\ new.content = {}
  \/ old.status = "streaming" /\ new.status \in Final /\ new.content = text /\ new.run = old.run

LEMMA RowIsMessage ==
  ASSUME TypeOK, NEW m \in Message
  PROVE  /\ messages \in [Message -> MessageRow] /\ messages[m] \in MessageRow
         /\ chunks[m] \subseteq Chunk /\ chunks[m] \subseteq Nat
  BY ConversationAssumption DEF TypeOK, MessageRow

LEMMA MessageProjected ==
  ASSUME TypeOK, NEW e \in Event, Project(e)
  PROVE  \/ UNCHANGED messages
         \/ \E m \in Message, v \in MessageRow :
              messages' = [messages EXCEPT ![m] = v] /\ Moves(messages[m], v, chunks[m])
<1>1. CASE ProjectStarted(e)
  <2>1. e.message \in Message /\ e.run \in Run /\ e.thread \in Thread
    BY <1>1, EventFields DEF ProjectStarted
  <2> DEFINE v == [status |-> "streaming", run |-> e.run, thread |-> e.thread, content |-> {}]
  <2>2. v \in MessageRow
    BY <2>1 DEF MessageRow
  <2>3. CASE messages[e.message].status = "absent"
    <3>1. messages' = [messages EXCEPT ![e.message] = v] /\ Moves(messages[e.message], v, chunks[e.message])
      BY <1>1, <2>3 DEF ProjectStarted, Moves
    <3> QED BY <2>1, <2>2, <3>1
  <2> QED BY <1>1, <2>3 DEF ProjectStarted
<1>2. CASE ProjectCompleted(e)
  <2>1. e.message \in Message
    BY <1>2, EventFields DEF ProjectCompleted
  <2> DEFINE m == e.message
             v == [messages[m] EXCEPT !.status = "completed", !.content = chunks[m]]
  <2>2. messages[m] \in MessageRow /\ chunks[m] \subseteq Nat /\ messages \in [Message -> MessageRow]
    BY <2>1, RowIsMessage
  <2>3. /\ v \in MessageRow /\ v.status = "completed" /\ v.content = chunks[m]
        /\ v.run = messages[m].run
    <3> HIDE DEF m
    <3> QED BY <2>2 DEF MessageRow, Final
  <2>4. messages' = [messages EXCEPT ![m] = v] /\ messages[m].status = "streaming"
    BY <1>2, <2>1, <2>2 DEF ProjectCompleted, Streaming
  <2> HIDE DEF m, v
  <2>5. Moves(messages[m], v, chunks[m])
    BY <2>3, <2>4 DEF Moves, Final
  <2>6. m \in Message
    BY <2>1 DEF m
  <2> QED BY <2>3, <2>4, <2>5, <2>6
<1>3. CASE ProjectStopped(e)
  <2>1. e.message \in Message /\ e.kind \in {"interrupted", "failed"}
    BY <1>3, EventFields DEF ProjectStopped
  <2> DEFINE m == e.message
             k == e.kind
             v == [messages[m] EXCEPT !.status = k, !.content = chunks[m]]
  <2>2. messages[m] \in MessageRow /\ chunks[m] \subseteq Nat /\ messages \in [Message -> MessageRow]
        /\ k \in {"interrupted", "failed"}
    BY <2>1, RowIsMessage
  <2>3. /\ v \in MessageRow /\ v.status \in Final /\ v.content = chunks[m]
        /\ v.run = messages[m].run
    <3> HIDE DEF m, k
    <3> QED BY <2>2 DEF MessageRow, Final
  <2>4. messages' = [messages EXCEPT ![m] = v] /\ messages[m].status = "streaming"
    BY <1>3, <2>1, <2>2 DEF ProjectStopped, Streaming
  <2> HIDE DEF m, v, k
  <2>5. Moves(messages[m], v, chunks[m])
    BY <2>3, <2>4 DEF Moves
  <2>6. m \in Message
    BY <2>1 DEF m
  <2> QED BY <2>3, <2>4, <2>5, <2>6
<1> QED BY <1>1, <1>2, <1>3
        DEF Project, ProjectDelta, ProjectNoMessages, ProjectResult, ProjectRequest, ProjectCommitment

LEMMA MessageSteps ==
  ASSUME TypeOK, [Next]_vars
  PROVE  \/ UNCHANGED messages
         \/ \E m \in Message, v \in MessageRow :
              messages' = [messages EXCEPT ![m] = v] /\ Moves(messages[m], v, chunks[m])
<1>1. ASSUME NEW q \in Posting, CreateMessage(q)
      PROVE  \E m \in Message, v \in MessageRow :
               messages' = [messages EXCEPT ![m] = v] /\ Moves(messages[m], v, chunks[m])
  <2> DEFINE v == [status |-> "completed", run |-> q.run, thread |-> q.thread, content |-> {}]
  <2>1. q.message \in Message /\ q.run \in Run /\ q.thread \in Thread
    BY ConversationAssumption
  <2>2. v \in MessageRow
    BY <2>1 DEF MessageRow, Final
  <2>3. messages' = [messages EXCEPT ![q.message] = v] /\ Moves(messages[q.message], v, chunks[q.message])
    BY <1>1 DEF CreateMessage, Moves
  <2> QED BY <2>1, <2>2, <2>3
<1>2. ASSUME NEW w \in Worker, Accept(w)
      PROVE  \/ UNCHANGED messages
             \/ \E m \in Message, v \in MessageRow :
                  messages' = [messages EXCEPT ![m] = v] /\ Moves(messages[m], v, chunks[m])
  <2>1. call[w] \in Event /\ Project(call[w])
    BY <1>2, WorkIsEvent DEF Accept
  <2> QED BY <2>1, MessageProjected
<1>3. ASSUME [Next]_vars, ~\E q \in Posting : CreateMessage(q), ~\E w \in Worker : Accept(w)
      PROVE  UNCHANGED messages
  BY <1>3 DEF Next, CreateConversation, AnswerInput, Deliver, Nak, PruneChunks, Read, vars, rows
<1> QED BY <1>1, <1>2, <1>3

\* An input request is stored, opened or answered, one at a time.
LEMMA RequestProjected ==
  ASSUME TypeOK, NEW e \in Event, Project(e)
  PROVE  /\ \/ UNCHANGED <<requests, commitments>>
            \/ \E s \in Suspension, x \in RequestRow, c \in Run \cup {"none"} :
                 /\ requests' = [requests EXCEPT ![s] = x]
                 /\ commitments' = [commitments EXCEPT ![s] = c]
                 /\ commitments[s] \in {"none", c}
                 /\ \/ requests[s].state = "absent" /\ x.state = "absent"
                    \/ requests[s].state = "absent" /\ x.state = "reserved" /\ c = "none"
                    \/ requests[s].state \in {"absent", "reserved"} /\ x.state = "pending" /\ c # "none"
                    \/ requests[s].state = "reserved" /\ x.state = "reserved" /\ c = "none"
                    \/ x.state = requests[s].state /\ x.state \in {"pending", "answered"}
         /\ conversations' \in [Thread -> ConversationRow]
<1> USE ConversationAssumption
<1>1. conversations \in [Thread -> ConversationRow] /\ requests \in [Suspension -> RequestRow]
      /\ commitments \in [Suspension -> Run \cup {"none"}]
  BY DEF TypeOK, ConversationRow, RequestRow
<1>2. ASSUME NEW t, NEW what, Present(t, what)
      PROVE  conversations' \in [Thread -> ConversationRow]
  <2>1. ASSUME t \in Thread
        PROVE  [conversations[t] EXCEPT !.sequence = conversations[t].sequence + 1] \in ConversationRow
    BY <1>1, <2>1 DEF ConversationRow
  <2> QED BY <1>1, <1>2, <2>1 DEF Present
<1>3. e.thread \in Thread /\ e.run \in Run
  BY EventFields
<1>4. ASSUME NEW s \in Suspension, NEW x \in RequestRow, NEW c, Reconcile(s, x, c)
      PROVE  /\ conversations' \in [Thread -> ConversationRow]
             /\ \E y \in RequestRow :
                  /\ requests' = [requests EXCEPT ![s] = y]
                  /\ y.state = IF Opens(x, c) THEN "pending" ELSE x.state
  <2>1. CASE Opens(x, c)
    <3>1. [x EXCEPT !.state = "pending"] \in RequestRow /\ [x EXCEPT !.state = "pending"].state = "pending"
      BY DEF RequestRow
    <3> QED BY <1>2, <1>4, <2>1, <3>1 DEF Reconcile
  <2>2. CASE ~Opens(x, c)
    BY <1>1, <1>4, <2>2 DEF Reconcile
  <2> QED BY <2>1, <2>2
<1>5. CASE ProjectRequest(e)
  <2> DEFINE s == e.suspension
             n == [state |-> "reserved", run |-> e.run, thread |-> e.thread,
                   grant |-> conversations[e.thread].grant]
             x == IF requests[s].state # "absent" THEN requests[s] ELSE n
  <2>1. s \in Suspension
    BY <1>5, EventFields DEF ProjectRequest
  <2>2. n \in RequestRow
    BY <1>1, <1>3 DEF RequestRow, ConversationRow
  <2>3. x \in RequestRow
    BY <1>1, <2>1, <2>2
  <2>4. Reconcile(s, x, commitments[s]) /\ UNCHANGED commitments
    BY <1>5 DEF ProjectRequest
  <2>5. /\ requests[s].state # "absent" => x.state = requests[s].state
        /\ requests[s].state = "absent" => x.state = "reserved"
    OBVIOUS
  <2>6. x.state \in {"reserved", "pending", "answered"} /\ x.state \in {requests[s].state, "reserved"}
        /\ (x.state # requests[s].state => requests[s].state = "absent")
    BY <2>3, <2>5 DEF RequestRow
  <2>7. commitments' = [commitments EXCEPT ![s] = commitments[s]]
    BY <1>1, <2>4
  <2> HIDE DEF s, x, n
  <2>8. PICK y \in RequestRow :
          /\ requests' = [requests EXCEPT ![s] = y]
          /\ y.state = IF Opens(x, commitments[s]) THEN "pending" ELSE x.state
    BY <1>4, <2>1, <2>3, <2>4
  <2>9. \/ requests[s].state = "absent" /\ y.state = "reserved" /\ commitments[s] = "none"
        \/ requests[s].state \in {"absent", "reserved"} /\ y.state = "pending" /\ commitments[s] # "none"
        \/ requests[s].state = "reserved" /\ y.state = "reserved" /\ commitments[s] = "none"
        \/ y.state = requests[s].state /\ y.state \in {"pending", "answered"}
    BY <2>6, <2>8 DEF Opens
  <2>10. conversations' \in [Thread -> ConversationRow]
    BY <1>4, <2>1, <2>3, <2>4
  <2>11. commitments[s] \in Run \cup {"none"}
    BY <1>1, <2>1
  <2> QED BY <2>1, <2>7, <2>8, <2>9, <2>10, <2>11
<1>6. CASE ProjectCommitment(e)
  <2> DEFINE s == e.suspension
             x == requests[s]
  <2>1. s \in Suspension
    BY <1>6, EventFields DEF ProjectCommitment
  <2>2. x \in RequestRow
    BY <1>1, <2>1
  <2>3. /\ Reconcile(s, x, e.run) /\ commitments[s] \in {"none", e.run}
        /\ commitments' = [commitments EXCEPT ![s] = e.run]
    BY <1>6 DEF ProjectCommitment
  <2>4. x.state \in {"absent", "reserved", "pending", "answered"} /\ x.state = requests[s].state
    BY <2>2 DEF RequestRow
  <2> HIDE DEF s, x
  <2>5. PICK y \in RequestRow :
          /\ requests' = [requests EXCEPT ![s] = y]
          /\ y.state = IF Opens(x, e.run) THEN "pending" ELSE x.state
    BY <1>4, <2>1, <2>2, <2>3
  <2>6. e.run # "none"
    BY <1>3
  <2>7. \/ requests[s].state = "absent" /\ y.state = "absent"
        \/ requests[s].state \in {"absent", "reserved"} /\ y.state = "pending" /\ e.run # "none"
        \/ y.state = requests[s].state /\ y.state \in {"pending", "answered"}
    BY <2>4, <2>5, <2>6 DEF Opens
  <2>8. conversations' \in [Thread -> ConversationRow]
    BY <1>4, <2>1, <2>2, <2>3
  <2> QED BY <1>3, <2>1, <2>3, <2>5, <2>7, <2>8
<1>7. CASE ~ProjectRequest(e) /\ ~ProjectCommitment(e)
  <2>1. UNCHANGED <<requests, commitments>>
    BY <1>7 DEF Project, ProjectStarted, ProjectDelta, ProjectCompleted, ProjectStopped,
                ProjectNoMessages, ProjectResult
  <2>2. conversations' = conversations \/ Present(e.thread, e)
    BY <1>7 DEF Project, ProjectStarted, ProjectDelta, ProjectCompleted, ProjectStopped,
                ProjectNoMessages, ProjectResult
  <2> QED BY <1>1, <1>2, <2>1, <2>2
<1> QED BY <1>5, <1>6, <1>7

\* A run is confirmed once, for a set of messages that have completed.
LEMMA ConfirmationProjected ==
  ASSUME TypeOK, ConfirmedInv, NEW e \in Event, Project(e)
  PROVE  /\ proposals' \in [Run -> ProposalRow]
         /\ \A r \in Run :
              /\ proposals[r].confirmed => proposals'[r].confirmed
              /\ proposals'[r].confirmed => proposals'[r].finals # {}
         /\ \/ outbox' = outbox
            \/ \E r \in Run, M \in SUBSET Message :
                 /\ M # {} /\ \A m \in M : messages'[m].status = "completed"
                 /\ ~proposals[r].confirmed /\ proposals'[r].confirmed
                 /\ outbox' = outbox \cup {[kind |-> "committed", run |-> r, messages |-> M]}
<1>0. \A q \in Run : proposals[q].confirmed => proposals[q].finals # {}
  BY DEF ConfirmedInv
<1>1. proposals \in [Run -> ProposalRow]
  BY DEF TypeOK, ProposalRow
<1>2. e.run \in Run /\ e.thread \in Thread
  BY EventFields
<1>3. CASE ProjectCompleted(e)
  <2> DEFINE r == e.run
             M == proposals[r].finals
  <2>1. CASE ProposalComplete(r, messages')
    <3>1. /\ proposals' = [proposals EXCEPT ![r].confirmed = TRUE]
          /\ outbox' = IF proposals[r].confirmed THEN outbox
                       ELSE outbox \cup {[kind |-> "committed", run |-> r, messages |-> M]}
      BY <1>3, <2>1 DEF ProjectCompleted, ConfirmMessages
    <3>2. M # {} /\ \A m \in M : messages'[m].status = "completed"
      BY <2>1 DEF ProposalComplete, Complete
    <3>3. r \in Run /\ M \in SUBSET Message /\ proposals[r] \in ProposalRow
      BY <1>1, <1>2 DEF ProposalRow
    <3>4. proposals[r].finals # {}
      BY <3>2
    <3> HIDE DEF r, M
    <3>5. [proposals[r] EXCEPT !.confirmed = TRUE] \in ProposalRow
          /\ [proposals[r] EXCEPT !.confirmed = TRUE].confirmed
          /\ [proposals[r] EXCEPT !.confirmed = TRUE].finals = proposals[r].finals
      BY <3>3 DEF ProposalRow
    <3>6. /\ proposals' \in [Run -> ProposalRow] /\ proposals'[r].confirmed
          /\ proposals'[r].finals = proposals[r].finals
          /\ \A q \in Run : q # r => proposals'[q] = proposals[q]
      BY <1>1, <3>1, <3>3, <3>5
    <3>7. ASSUME NEW q \in Run
          PROVE  /\ proposals[q].confirmed => proposals'[q].confirmed
                 /\ proposals'[q].confirmed => proposals'[q].finals # {}
      BY <3>6, <3>4, <1>0
    <3> QED BY <3>1, <3>2, <3>3, <3>6, <3>7
  <2>2. CASE ~ProposalComplete(r, messages')
    BY <1>0, <1>1, <1>3, <2>2 DEF ProjectCompleted
  <2> QED BY <2>1, <2>2
<1>4. CASE ProjectResult(e)
  <2> DEFINE r == e.run
             M == e.finals
             p == IF proposals[r].finals # {} THEN proposals[r]
                  ELSE [finals |-> e.finals, thread |-> e.thread, confirmed |-> FALSE]
             confirm == Complete(M, r, messages) /\ ~p.confirmed
             n == [p EXCEPT !.confirmed = p.confirmed \/ confirm]
  <2>1. M \in SUBSET Message /\ M # {} /\ r \in Run
    BY <1>2, <1>4, EventFields DEF ProjectResult
  <2>2. p \in ProposalRow
    BY <1>1, <1>2, <2>1 DEF ProposalRow
  <2>3. /\ proposals' = [proposals EXCEPT ![r] = n] /\ messages' = messages
        /\ outbox' = IF ~confirm THEN outbox
                     ELSE outbox \cup {[kind |-> "committed", run |-> r, messages |-> M]}
    BY <1>4 DEF ProjectResult
  <2>4. confirm => \A m \in M : messages'[m].status = "completed"
    BY <2>3 DEF Complete
  <2>5. p.confirmed => proposals[r].confirmed
    OBVIOUS
  <2>6. confirm \in BOOLEAN /\ (confirm => ~p.confirmed)
    OBVIOUS
  <2>7. /\ n \in ProposalRow
        /\ confirm => n.confirmed
        /\ ~confirm => n = p
    <3> HIDE DEF confirm, p
    <3> QED BY <2>2, <2>6 DEF ProposalRow
  <2>8. proposals[r].confirmed => p.confirmed
    BY <2>1, <1>0
  <2>9. n.finals # {}
    <3>1. p.finals # {}
      BY <2>1
    <3> HIDE DEF confirm, p
    <3> QED BY <2>2, <3>1 DEF ProposalRow
  <2> HIDE DEF n, p, confirm, r, M
  <2>10. proposals'[r] = n /\ \A q \in Run : q # r => proposals'[q] = proposals[q]
    BY <1>1, <2>1, <2>3
  <2>11. proposals' \in [Run -> ProposalRow]
    BY <1>1, <2>1, <2>3, <2>7
  <2>12. ASSUME NEW q \in Run
         PROVE  /\ proposals[q].confirmed => proposals'[q].confirmed
                /\ proposals'[q].confirmed => proposals'[q].finals # {}
    BY <1>0, <2>6, <2>7, <2>8, <2>10, <2>9
  <2>13. CASE confirm
    <3>1. ~proposals[r].confirmed
      BY <2>6, <2>8, <2>13
    <3> QED BY <2>1, <2>3, <2>4, <2>7, <2>10, <2>11, <2>13, <2>12, <3>1
  <2>14. CASE ~confirm
    BY <2>3, <2>11, <2>14, <2>12
  <2> QED BY <2>13, <2>14
<1>5. CASE ~ProjectCompleted(e) /\ ~ProjectResult(e)
  <2>1. UNCHANGED <<proposals, outbox>>
    BY <1>5 DEF Project, ProjectStarted, ProjectDelta, ProjectStopped, ProjectNoMessages,
                ProjectRequest, ProjectCommitment
  <2> QED BY <1>0, <1>1, <2>1
<1> QED BY <1>3, <1>4, <1>5
\* A request is answered only by a user; what is open stays open.
LEMMA RequestSteps ==
  ASSUME TypeOK, [Next]_vars
  PROVE  /\ \/ UNCHANGED <<requests, commitments>>
            \/ \E s \in Suspension, x \in RequestRow, c \in Run \cup {"none"} :
                 /\ requests' = [requests EXCEPT ![s] = x]
                 /\ commitments' = [commitments EXCEPT ![s] = c]
                 /\ commitments[s] \in {"none", c}
                 /\ \/ requests[s].state = "absent" /\ x.state = "absent"
                    \/ requests[s].state \in {"absent", "reserved"} /\ x.state = "reserved" /\ c = "none"
                    \/ requests[s].state \in {"absent", "reserved"} /\ x.state = "pending" /\ c # "none"
                    \/ requests[s].state \in {"pending", "answered"} /\ x.state \in {"pending", "answered"}
         /\ conversations' \in [Thread -> ConversationRow]
<1> USE ConversationAssumption
<1>1. conversations \in [Thread -> ConversationRow] /\ requests \in [Suspension -> RequestRow]
      /\ commitments \in [Suspension -> Run \cup {"none"}]
  BY DEF TypeOK, ConversationRow, RequestRow
<1>2. ASSUME NEW w \in Worker, Accept(w)
      PROVE  Project(call[w]) /\ call[w] \in Event
  BY <1>2, WorkIsEvent DEF Accept
<1>3. CASE \E w \in Worker : Accept(w)
  <2>1. PICK e \in Event : Project(e)
    BY <1>2, <1>3
  <2> QED BY <2>1, RequestProjected
<1>4. ASSUME NEW q \in Opening, CreateConversation(q)
      PROVE  UNCHANGED <<requests, commitments>> /\ conversations' \in [Thread -> ConversationRow]
  <2>1. q.thread \in Thread /\ q.owner \in Owner
    OBVIOUS
  <2>2. [conversations[q.thread] EXCEPT !.owner = q.owner] \in ConversationRow
    BY <1>1, <2>1 DEF ConversationRow
  <2> QED BY <1>1, <1>4, <2>1, <2>2 DEF CreateConversation
<1>5. ASSUME NEW q \in Posting, CreateMessage(q)
      PROVE  UNCHANGED <<requests, commitments>> /\ conversations' \in [Thread -> ConversationRow]
  <2> DEFINE t == q.thread
             a == [conversations EXCEPT ![t].sequence = @ + 1]
  <2>1. t \in Thread /\ q.grant \in Grant
    OBVIOUS
  <2>2. [conversations[t] EXCEPT !.sequence = conversations[t].sequence + 1] \in ConversationRow
    BY <1>1, <2>1 DEF ConversationRow
  <2>3. a \in [Thread -> ConversationRow]
    BY <1>1, <2>1, <2>2
  <2>4. conversations' = [a EXCEPT ![t].grant = q.grant]
    BY <1>5 DEF CreateMessage
  <2> HIDE DEF a, t
  <2>5. [a[t] EXCEPT !.grant = q.grant] \in ConversationRow
    BY <2>1, <2>3 DEF ConversationRow
  <2> QED BY <1>5, <2>1, <2>3, <2>4, <2>5 DEF CreateMessage
<1>6. ASSUME NEW q \in Responding, AnswerInput(q)
      PROVE  \E s \in Suspension, x \in RequestRow :
               /\ requests' = [requests EXCEPT ![s] = x] /\ UNCHANGED commitments
               /\ requests[s].state = "pending" /\ x.state = "answered"
               /\ conversations' \in [Thread -> ConversationRow]
  <2> DEFINE s == q.suspension
             x == [requests[s] EXCEPT !.state = "answered"]
             t == requests[s].thread
  <2>1. s \in Suspension /\ requests[s] \in RequestRow
    BY <1>1
  <2>2. x \in RequestRow /\ x.state = "answered"
    BY <2>1 DEF RequestRow
  <2>3. requests' = [requests EXCEPT ![s] = x] /\ UNCHANGED commitments
        /\ requests[s].state = "pending"
    BY <1>6 DEF AnswerInput, MayAnswer
  <2>4. conversations' = [conversations EXCEPT ![t].sequence = @ + 1]
    BY <1>6 DEF AnswerInput, Present
  <2> HIDE DEF s, x, t
  <2>5. ASSUME t \in Thread
        PROVE  [conversations[t] EXCEPT !.sequence = conversations[t].sequence + 1] \in ConversationRow
    BY <1>1, <2>5 DEF ConversationRow
  <2>6. conversations' \in [Thread -> ConversationRow]
    BY <1>1, <2>4, <2>5
  <2> QED BY <2>1, <2>2, <2>3, <2>6
<1>7. ASSUME NEW q \in Responding, AnswerInput(q)
      PROVE  \E s \in Suspension, x \in RequestRow, c \in Run \cup {"none"} :
                 /\ requests' = [requests EXCEPT ![s] = x]
                 /\ commitments' = [commitments EXCEPT ![s] = c]
                 /\ commitments[s] \in {"none", c}
                 /\ requests[s].state = "pending" /\ x.state = "answered"
                 /\ conversations' \in [Thread -> ConversationRow]
  <2>1. PICK s \in Suspension, x \in RequestRow :
               /\ requests' = [requests EXCEPT ![s] = x] /\ UNCHANGED commitments
               /\ requests[s].state = "pending" /\ x.state = "answered"
               /\ conversations' \in [Thread -> ConversationRow]
    BY <1>6, <1>7
  <2>2. commitments' = [commitments EXCEPT ![s] = commitments[s]] /\ commitments[s] \in Run \cup {"none"}
    BY <1>1, <2>1
  <2> QED BY <2>1, <2>2
<1>8. ASSUME [Next]_vars, ~\E w \in Worker : Accept(w), ~\E q \in Opening : CreateConversation(q),
             ~\E q \in Posting : CreateMessage(q), ~\E q \in Responding : AnswerInput(q)
      PROVE  UNCHANGED <<requests, commitments, conversations>>
  BY <1>8 DEF Next, Deliver, Nak, PruneChunks, Read, vars, rows
<1> QED BY <1>1, <1>3, <1>4, <1>5, <1>7, <1>8

\* The outbox grows by a request for a run, or by the confirmation of a run that
\* was not confirmed, for messages that are completed.
LEMMA OutboxSteps ==
  ASSUME TypeOK, ConfirmedInv, [Next]_vars
  PROVE  /\ proposals' \in [Run -> ProposalRow]
         /\ \A r \in Run :
              /\ proposals[r].confirmed => proposals'[r].confirmed
              /\ proposals'[r].confirmed => proposals'[r].finals # {}
         /\ \/ outbox' = outbox
            \/ \E x : x.kind = "requested" /\ outbox' = outbox \cup {x}
            \/ \E r \in Run, M \in SUBSET Message :
                 /\ M # {} /\ \A m \in M : messages'[m].status = "completed"
                 /\ ~proposals[r].confirmed /\ proposals'[r].confirmed
                 /\ outbox' = outbox \cup {[kind |-> "committed", run |-> r, messages |-> M]}
<1>1. proposals \in [Run -> ProposalRow] /\ \A r \in Run : proposals[r].confirmed => proposals[r].finals # {}
  BY DEF TypeOK, ProposalRow, ConfirmedInv
<1>2. CASE \E w \in Worker : Accept(w)
  <2>1. PICK e \in Event : Project(e)
    BY <1>2, WorkIsEvent DEF Accept
  <2> QED BY <2>1, ConfirmationProjected
<1>3. ASSUME NEW q, CreateMessage(q) \/ AnswerInput(q)
      PROVE  UNCHANGED proposals /\ \E x : x.kind = "requested" /\ outbox' = outbox \cup {x}
  BY <1>3 DEF CreateMessage, AnswerInput, RunRequest
<1>4. ASSUME [Next]_vars, ~\E w \in Worker : Accept(w),
             ~\E q \in Posting : CreateMessage(q), ~\E q \in Responding : AnswerInput(q)
      PROVE  UNCHANGED <<proposals, outbox>>
  BY <1>4 DEF Next, CreateConversation, Deliver, Nak, PruneChunks, Read, vars, rows
<1> QED BY <1>1, <1>2, <1>3, <1>4
-----------------------------------------------------------------------------
(* Types, texts and confirmations                                           *)

LEMMA TypesStart == Init => CInv
<1> SUFFICES ASSUME Init PROVE CInv
  OBVIOUS
<1> USE DEF Init, NoMessage, NoRequest, NoProposal
<1>1. TypeOK
  <2>1. call \in [Worker -> Announced \cup {Free}] /\ inbox \subseteq Announced
    OBVIOUS
  <2>2. conversations \in [Thread -> ConversationRow]
    BY DEF ConversationRow
  <2>3. messages \in [Message -> MessageRow] /\ chunks \in [Message -> SUBSET Chunk]
    BY DEF MessageRow
  <2>4. requests \in [Suspension -> RequestRow] /\ commitments \in [Suspension -> Run \cup {"none"}]
    BY DEF RequestRow
  <2>5. proposals \in [Run -> ProposalRow]
    BY DEF ProposalRow
  <2> QED BY <2>1, <2>2, <2>3, <2>4, <2>5
        DEF TypeOK, ConversationRow, MessageRow, RequestRow, ProposalRow
<1>2. TextInv
  BY DEF TextInv
<1>3. ConfirmedInv
  BY DEF ConfirmedInv, CommittedIn
<1> QED BY <1>1, <1>2, <1>3 DEF CInv

LEMMA TypesKept == TypeOK /\ ConfirmedInv /\ [Next]_vars => TypeOK'
<1> SUFFICES ASSUME TypeOK, ConfirmedInv, [Next]_vars
             PROVE  TypeOK'
  OBVIOUS
<1>1. call' \in [Worker -> Announced \cup {Free}] /\ inbox' \subseteq Announced
  <2>1. CASE \E w \in Worker : Accept(w)
    <3>1. PICK w \in Worker : Accept(w)
      BY <2>1
    <3>2. call[w] \in Announced /\ inbox' = inbox \cup {call[w]} /\ call' = [call EXCEPT ![w] = Free]
      BY <3>1, WorkIsEvent DEF Accept
    <3> QED BY <3>2 DEF TypeOK
  <2>2. ASSUME NEW w \in Worker, NEW e \in Announced, Deliver(w, e)
        PROVE  call' \in [Worker -> Announced \cup {Free}] /\ inbox' = inbox
    BY <2>2 DEF TypeOK, Deliver
  <2>3. ASSUME NEW w \in Worker, Nak(w)
        PROVE  call' \in [Worker -> Announced \cup {Free}] /\ inbox' = inbox
    BY <2>3 DEF TypeOK, Nak
  <2>4. CASE /\ ~\E w \in Worker : Accept(w)
             /\ ~\E w \in Worker : Nak(w)
             /\ ~\E w \in Worker, e \in Announced : Deliver(w, e)
    <3>1. UNCHANGED <<call, inbox>>
      BY <2>4 DEF Next, CreateConversation, CreateMessage, AnswerInput, PruneChunks, Read, vars, rows
    <3> QED BY <3>1 DEF TypeOK
  <2> QED BY <2>1, <2>2, <2>3, <2>4 DEF TypeOK
<1>2. chunks' \in [Message -> SUBSET Chunk]
  <2>1. ASSUME NEW e \in Event, Project(e)
        PROVE  chunks' \in [Message -> SUBSET Chunk]
    <3>1. chunks \in [Message -> SUBSET Chunk]
      BY DEF TypeOK
    <3>2. CASE ProjectDelta(e)
      <4>1. e.chunk \in Chunk /\ e.message \in Message
        BY <3>2, EventFields DEF ProjectDelta
      <4>2. chunks' = [chunks EXCEPT ![e.message] = chunks[e.message] \cup {e.chunk}]
        BY <3>2 DEF ProjectDelta
      <4> QED BY <3>1, <4>1, <4>2
    <3>3. CASE ~ProjectDelta(e)
      <4>1. UNCHANGED chunks
        BY <2>1, <3>3
           DEF Project, ProjectStarted, ProjectCompleted, ProjectStopped,
               ProjectNoMessages, ProjectResult, ProjectRequest, ProjectCommitment
      <4> QED BY <3>1, <4>1
    <3> QED BY <3>2, <3>3
  <2>2. CASE \E w \in Worker : Accept(w)
    BY <2>1, <2>2, WorkIsEvent DEF Accept
  <2>3. CASE ~\E w \in Worker : Accept(w)
    BY <2>3 DEF TypeOK, Next, CreateConversation, CreateMessage, AnswerInput, Deliver, Nak,
                PruneChunks, Read, vars, rows
  <2> QED BY <2>2, <2>3
<1>3. messages' \in [Message -> MessageRow]
  <2>1. messages \in [Message -> MessageRow]
    BY DEF TypeOK, MessageRow
  <2> QED BY <2>1, MessageSteps
<1>4. /\ requests' \in [Suspension -> RequestRow] /\ commitments' \in [Suspension -> Run \cup {"none"}]
      /\ conversations' \in [Thread -> ConversationRow]
  <2>1. requests \in [Suspension -> RequestRow] /\ commitments \in [Suspension -> Run \cup {"none"}]
    BY DEF TypeOK, RequestRow
  <2> QED BY <2>1, RequestSteps
<1>5. proposals' \in [Run -> ProposalRow]
  BY OutboxSteps
<1> QED BY <1>1, <1>2, <1>3, <1>4, <1>5
      DEF TypeOK, ConversationRow, MessageRow, RequestRow, ProposalRow

LEMMA CInvKept == CInv /\ [Next]_vars => CInv'
<1> SUFFICES ASSUME CInv, [Next]_vars
             PROVE  CInv'
  OBVIOUS
<1> USE DEF CInv
<1>1. TypeOK'
  BY TypesKept
<1>2. TextInv'
  <2>1. CASE UNCHANGED messages
    BY <2>1 DEF TextInv
  <2>2. ASSUME NEW m \in Message, NEW v \in MessageRow,
               messages' = [messages EXCEPT ![m] = v], Moves(messages[m], v, chunks[m])
        PROVE  TextInv'
    <3>1. /\ v.status \in {"absent", "streaming"} => v.content = {}
          /\ v.content \subseteq Chunk
      BY <2>2, RowIsMessage DEF Moves, Final
    <3>2. \A k \in Message : messages'[k] = IF k = m THEN v ELSE messages[k]
      BY <2>2, RowIsMessage
    <3> QED BY <3>1, <3>2 DEF TextInv
  <2> QED BY <2>1, <2>2, MessageSteps
<1>3. ConfirmedInv'
  <2>1. /\ \A r \in Run :
              /\ proposals[r].confirmed => proposals'[r].confirmed
              /\ proposals'[r].confirmed => proposals'[r].finals # {}
    BY OutboxSteps
  <2>2. ASSUME NEW r \in Run, ~proposals'[r].confirmed
        PROVE  CommittedIn(outbox', r) = {}
    <3>1. CommittedIn(outbox, r) = {}
      BY <2>1, <2>2 DEF ConfirmedInv
    <3> QED BY <2>2, <3>1, OutboxSteps DEF CommittedIn
  <2> QED BY <2>1, <2>2 DEF ConfirmedInv, CommittedIn
<1> QED BY <1>1, <1>2, <1>3

\* The inductive invariant of the Conversation Service: types, texts of messages
\* without an end, and confirmations in the outbox.
THEOREM ConversationInvariant == Spec => []CInv
  BY TypesStart, CInvKept, PTL DEF Spec

\* Every row the service stores has its type: no refused, late or repeated event
\* leaves half a message, request or proposal behind.
THEOREM ConversationTypes == Spec => []TypeOK
  BY ConversationInvariant, PTL DEF CInv

-----------------------------------------------------------------------------
(* Questions                                                                *)

LEMMA OpenKept == TypeOK /\ OpenWhenCommitted /\ [Next]_vars => OpenWhenCommitted'
<1> SUFFICES ASSUME TypeOK, OpenWhenCommitted, [Next]_vars
             PROVE  OpenWhenCommitted'
  OBVIOUS
<1>1. requests \in [Suspension -> RequestRow] /\ commitments \in [Suspension -> Run \cup {"none"}]
  BY DEF TypeOK, RequestRow
<1>2. CASE UNCHANGED <<requests, commitments>>
  BY <1>2 DEF OpenWhenCommitted
<1>3. ASSUME NEW s \in Suspension, NEW x \in RequestRow, NEW c \in Run \cup {"none"},
             requests' = [requests EXCEPT ![s] = x], commitments' = [commitments EXCEPT ![s] = c],
             commitments[s] \in {"none", c},
             \/ requests[s].state = "absent" /\ x.state = "absent"
             \/ requests[s].state \in {"absent", "reserved"} /\ x.state = "reserved" /\ c = "none"
             \/ requests[s].state \in {"absent", "reserved"} /\ x.state = "pending" /\ c # "none"
             \/ requests[s].state \in {"pending", "answered"} /\ x.state \in {"pending", "answered"}
      PROVE  OpenWhenCommitted'
  <2>1. requests[s].state \in {"pending", "answered"}
          <=> requests[s].state # "absent" /\ commitments[s] # "none"
    BY DEF OpenWhenCommitted
  <2>2. x.state \in {"pending", "answered"} <=> x.state # "absent" /\ c # "none"
    BY <1>3, <2>1
  <2>3. \A k \in Suspension : /\ requests'[k] = IF k = s THEN x ELSE requests[k]
                              /\ commitments'[k] = IF k = s THEN c ELSE commitments[k]
    BY <1>1, <1>3
  <2> QED BY <2>2, <2>3 DEF OpenWhenCommitted
<1> QED BY <1>2, <1>3, RequestSteps

\* In whichever order the request and the commitment of a suspension come, and
\* however often: the user can see a question exactly when both have been taken in.
THEOREM OpenedWhenCommitted == Spec => []OpenWhenCommitted
<1>1. Init => OpenWhenCommitted
  BY DEF Init, OpenWhenCommitted, NoRequest
<1> QED BY <1>1, OpenKept, ConversationTypes, PTL DEF Spec

-----------------------------------------------------------------------------
(* Requests for runs                                                        *)

LEMMA AskedKept == TypeOK /\ ConfirmedInv /\ OneRunPerTrigger /\ [Next]_vars => OneRunPerTrigger'
<1> SUFFICES ASSUME TypeOK, ConfirmedInv, OneRunPerTrigger, [Next]_vars
             PROVE  OneRunPerTrigger'
  OBVIOUS
<1> DEFINE A == AskedIn(outbox)
           B == AskedIn(outbox')
<1>1. /\ \A x, y \in A : x.trigger = y.trigger => x = y
      /\ \A s \in Suspension : requests[s].state = "answered" <=> \E x \in A : x.trigger = s
      /\ \A x \in A : x.trigger \in Message => messages[x.trigger].status = "completed"
  BY DEF OneRunPerTrigger, AskedIn
<1>2. SUFFICES /\ \A x, y \in B : x.trigger = y.trigger => x = y
               /\ \A s \in Suspension : requests'[s].state = "answered" <=> \E x \in B : x.trigger = s
               /\ \A x \in B : x.trigger \in Message => messages'[x.trigger].status = "completed"
  BY DEF OneRunPerTrigger, AskedIn
<1>3. \A m \in Message : messages[m].status = "completed" => messages'[m].status = "completed"
  BY MessageSteps, RowIsMessage DEF Moves, Final
<1>4. ASSUME NEW q \in Posting, CreateMessage(q)
      PROVE  /\ messages[q.message].status = "absent" /\ messages'[q.message].status = "completed"
             /\ q.message \in Message /\ UNCHANGED requests
             /\ B = A \cup {RunRequest(q.message, q.run, q.grant)}
  <2>1. q.message \in Message
    BY ConversationAssumption
  <2>2. messages'[q.message].status = "completed"
    BY <1>4, <2>1, RowIsMessage DEF CreateMessage
  <2> QED BY <1>4, <2>1, <2>2 DEF CreateMessage, AskedIn, RunRequest
<1>5. ASSUME NEW q \in Responding, AnswerInput(q)
      PROVE  /\ q.suspension \in Suspension /\ requests[q.suspension].state = "pending"
             /\ \A s \in Suspension : requests'[s].state = IF s = q.suspension THEN "answered"
                                                                ELSE requests[s].state
             /\ B = A \cup {RunRequest(q.suspension, q.run, requests[q.suspension].grant)}
  <2>1. q.suspension \in Suspension
    BY ConversationAssumption
  <2>2. requests \in [Suspension -> RequestRow]
    BY DEF TypeOK, RequestRow
  <2>3. /\ requests' = [requests EXCEPT ![q.suspension].state = "answered"]
        /\ requests[q.suspension].state = "pending"
        /\ outbox' = outbox \cup {RunRequest(q.suspension, q.run, requests[q.suspension].grant)}
    BY <1>5 DEF AnswerInput, MayAnswer
  <2>4. \A s \in Suspension : requests'[s].state = IF s = q.suspension THEN "answered"
                                                   ELSE requests[s].state
    BY <2>1, <2>2, <2>3 DEF RequestRow
  <2> QED BY <2>1, <2>3, <2>4 DEF AskedIn, RunRequest
<1>6. CASE \E q \in Posting : CreateMessage(q)
  <2>1. PICK q \in Posting : CreateMessage(q)
    BY <1>6
  <2> DEFINE n == RunRequest(q.message, q.run, q.grant)
  <2>2. n.trigger = q.message /\ n.trigger \notin Suspension
    BY <1>4, <2>1, ConversationAssumption DEF RunRequest
  <2>3. /\ messages[q.message].status = "absent" /\ messages'[q.message].status = "completed"
        /\ q.message \in Message /\ requests' = requests /\ B = A \cup {n}
    BY <1>4, <2>1
  <2> HIDE DEF n, A, B
  <2>4. \A x \in A : x.trigger # n.trigger
    BY <1>1, <2>2, <2>3
  <2> QED BY <1>1, <1>3, <2>2, <2>3, <2>4
<1>7. CASE \E q \in Responding : AnswerInput(q)
  <2>1. PICK q \in Responding : AnswerInput(q)
    BY <1>7
  <2> DEFINE s == q.suspension
             n == RunRequest(s, q.run, requests[s].grant)
  <2>2. n.trigger = s /\ s \notin Message /\ s \in Suspension
    BY <1>5, <2>1, ConversationAssumption DEF RunRequest
  <2>3. /\ requests[s].state = "pending" /\ B = A \cup {n}
        /\ \A k \in Suspension : requests'[k].state = IF k = s THEN "answered" ELSE requests[k].state
    BY <1>5, <2>1
  <2> HIDE DEF s, n, A, B
  <2>4. \A x \in A : x.trigger # n.trigger
    BY <1>1, <2>2, <2>3
  <2> QED BY <1>1, <1>3, <2>2, <2>3, <2>4
<1>8. CASE \E w \in Worker : Accept(w)
  <2>1. PICK e \in Event : Project(e)
    BY <1>8, WorkIsEvent DEF Accept
  <2>2. \A s \in Suspension : requests'[s].state = "answered" <=> requests[s].state = "answered"
    <3>1. requests \in [Suspension -> RequestRow]
      BY DEF TypeOK, RequestRow
    <3> QED BY <2>1, <3>1, RequestProjected
  <2>3. B = A
    BY <2>1, ConfirmationProjected DEF AskedIn
  <2> HIDE DEF A, B
  <2> QED BY <1>1, <1>3, <2>2, <2>3
<1>9. CASE ~(\E q \in Posting : CreateMessage(q)) /\ ~(\E q \in Responding : AnswerInput(q))
           /\ ~\E w \in Worker : Accept(w)
  <2>1. UNCHANGED <<requests, outbox>>
    BY <1>9 DEF Next, CreateConversation, Deliver, Nak, PruneChunks, Read, vars, rows
  <2> QED BY <1>1, <1>3, <2>1
<1> QED BY <1>6, <1>7, <1>8, <1>9

\* However a user repeats a request and however answers race: a message and an
\* answer each ask for one run, and nothing else asks for one.
THEOREM OneRunIsAskedFor == Spec => []OneRunPerTrigger
<1>1. Init => OneRunPerTrigger
  BY DEF Init, OneRunPerTrigger, NoRequest
<1> QED BY <1>1, AskedKept, ConversationInvariant, PTL DEF Spec, CInv

-----------------------------------------------------------------------------
(* What is presented                                                        *)

\* Every presented event has left its trace: in the inbox, or in the state of the
\* message or request it tells of.
Traced(what) ==
  \/ what \in inbox
  \/ what.kind = "posted" /\ what.of \in Message /\ messages[what.of].status \in Final
  \/ what.kind = "response" /\ what.of \in Suspension /\ requests[what.of].state = "answered"
  \/ what.kind = "opened" /\ what.of \in Suspension
                          /\ requests[what.of].state \in {"pending", "answered"}

PresentedInv == IsFiniteSet(presented) /\ \A p \in presented : Traced(p.what)

LEMMA EventKinds ==
  ASSUME NEW e \in Event
  PROVE  e.kind \notin {"posted", "response", "opened"}
<1>1. CASE e \in [kind : {"started", "interrupted", "failed"}, thread : Thread, run : Run, message : Message]
  BY <1>1
<1>2. CASE e \in [kind : {"delta"}, thread : Thread, run : Run, message : Message, chunk : Chunk]
  BY <1>2
<1>3. CASE e \in [kind : {"completed"}, thread : Thread, run : Run, message : Message, count : Nat]
  BY <1>3
<1>4. CASE e \in [kind : {"result"}, thread : Thread, run : Run, finals : SUBSET Message]
  BY <1>4
<1>5. CASE e \in [kind : {"request", "commitment"}, thread : Thread, run : Run, suspension : Suspension]
  BY <1>5
<1> QED BY <1>1, <1>2, <1>3, <1>4, <1>5 DEF Event

LEMMA ProjectPresents ==
  ASSUME TypeOK, NEW e \in Event, Project(e)
  PROVE  \/ UNCHANGED <<conversations, presented>>
         \/ Present(e.thread, e)
         \/ \E s \in Suspension : \E t :
              /\ Present(t, [kind |-> "opened", of |-> s])
              /\ requests[s].state \notin {"pending", "answered"} /\ requests'[s].state = "pending"
<1>1. requests \in [Suspension -> RequestRow]
  BY DEF TypeOK, RequestRow
<1>2. ASSUME NEW s \in Suspension, NEW x \in RequestRow, NEW c, Reconcile(s, x, c),
             requests[s].state \notin {"pending", "answered"} \/ x = requests[s]
      PROVE  \/ UNCHANGED <<conversations, presented>>
             \/ /\ Present(x.thread, [kind |-> "opened", of |-> s])
                /\ requests[s].state \notin {"pending", "answered"} /\ requests'[s].state = "pending"
  <2>1. CASE Opens(x, c)
    <3>1. [x EXCEPT !.state = "pending"].state = "pending"
      BY DEF RequestRow
    <3>2. requests' = [requests EXCEPT ![s] = [x EXCEPT !.state = "pending"]]
          /\ Present(x.thread, [kind |-> "opened", of |-> s])
      BY <1>2, <2>1 DEF Reconcile
    <3> QED BY <1>1, <1>2, <2>1, <3>1, <3>2 DEF Opens
  <2>2. CASE ~Opens(x, c)
    BY <1>2, <2>2 DEF Reconcile
  <2> QED BY <2>1, <2>2
<1>3. CASE ProjectRequest(e)
  <2> DEFINE s == e.suspension
             n == [state |-> "reserved", run |-> e.run, thread |-> e.thread,
                   grant |-> conversations[e.thread].grant]
             x == IF requests[s].state # "absent" THEN requests[s] ELSE n
  <2>1. s \in Suspension /\ e.run \in Run /\ e.thread \in Thread
    BY <1>3, EventFields DEF ProjectRequest
  <2>2. conversations \in [Thread -> ConversationRow]
    BY DEF TypeOK, ConversationRow
  <2>3. n \in RequestRow
    BY <2>1, <2>2 DEF RequestRow, ConversationRow
  <2>4. x \in RequestRow /\ (requests[s].state \notin {"pending", "answered"} \/ x = requests[s])
    BY <1>1, <2>1, <2>3
  <2>5. Reconcile(s, x, commitments[s])
    BY <1>3 DEF ProjectRequest
  <2> HIDE DEF s, x, n
  <2> QED BY <1>2, <2>1, <2>4, <2>5
<1>4. CASE ProjectCommitment(e)
  <2>1. e.suspension \in Suspension
    BY <1>4, EventFields DEF ProjectCommitment
  <2>2. Reconcile(e.suspension, requests[e.suspension], e.run)
    BY <1>4 DEF ProjectCommitment
  <2>3. requests[e.suspension] \in RequestRow
    BY <1>1, <2>1
  <2> QED BY <1>2, <2>1, <2>2, <2>3
<1>5. CASE ~ProjectRequest(e) /\ ~ProjectCommitment(e)
  BY <1>5 DEF Project, ProjectStarted, ProjectDelta, ProjectCompleted, ProjectStopped,
              ProjectNoMessages, ProjectResult
<1> QED BY <1>3, <1>4, <1>5

\* What left a trace keeps it.
LEMMA TracesStay ==
  ASSUME TypeOK, ConfirmedInv, [Next]_vars, NEW what, Traced(what)
  PROVE  Traced(what)'
<1>1. inbox \subseteq inbox'
  BY DEF Next, CreateConversation, CreateMessage, AnswerInput, Deliver, Accept, Nak, PruneChunks,
         Read, vars, rows
<1>2. \A m \in Message : messages[m].status \in Final => messages'[m].status \in Final
  BY MessageSteps, RowIsMessage DEF Moves, Final
<1>3. requests \in [Suspension -> RequestRow]
  BY DEF TypeOK, RequestRow
<1>4. \A s \in Suspension : requests[s].state \in {"pending", "answered"}
                            => requests'[s].state \in {"pending", "answered"}
  BY <1>3, RequestSteps
<1>5. \A s \in Suspension : requests[s].state = "answered" => requests'[s].state = "answered"
  <2>1. CASE \E w \in Worker : Accept(w)
    <3>1. PICK e \in Event : Project(e)
      BY <2>1, WorkIsEvent DEF Accept
    <3> QED BY <1>3, <3>1, RequestProjected
  <2>2. CASE \E q \in Responding : AnswerInput(q)
    BY <1>3, <2>2 DEF AnswerInput, RequestRow
  <2>3. CASE ~(\E w \in Worker : Accept(w)) /\ ~\E q \in Responding : AnswerInput(q)
    <3>1. UNCHANGED requests
      BY <2>3 DEF Next, CreateConversation, CreateMessage, Deliver, Nak, PruneChunks, Read, vars, rows
    <3> QED BY <3>1
  <2> QED BY <2>1, <2>2, <2>3
<1> QED BY <1>1, <1>2, <1>4, <1>5 DEF Traced

\* A step presents nothing, or one thing that had left no trace before.
LEMMA PresentedSteps ==
  ASSUME TypeOK, [Next]_vars
  PROVE  \/ /\ presented' = presented
            /\ \A u \in Thread : conversations'[u].sequence = conversations[u].sequence
         \/ \E t, what :
              /\ presented' = presented \cup {[thread |-> t, what |-> what]}
              /\ ~Traced(what) /\ Traced(what)'
              /\ \A u \in Thread : conversations'[u].sequence =
                                      conversations[u].sequence + (IF u = t THEN 1 ELSE 0)
<1>1. conversations \in [Thread -> ConversationRow] /\ requests \in [Suspension -> RequestRow]
  BY DEF TypeOK, ConversationRow, RequestRow
<1>2. ASSUME NEW t, NEW what, Present(t, what), ~Traced(what), Traced(what)'
      PROVE  \E tt, ww :
              /\ presented' = presented \cup {[thread |-> tt, what |-> ww]}
              /\ ~Traced(ww) /\ Traced(ww)'
              /\ \A u \in Thread : conversations'[u].sequence =
                                      conversations[u].sequence + (IF u = tt THEN 1 ELSE 0)
  <2>1. \A u \in Thread : conversations'[u].sequence =
                            conversations[u].sequence + (IF u = t THEN 1 ELSE 0)
    BY <1>1, <1>2 DEF Present, ConversationRow
  <2>2. presented' = presented \cup {[thread |-> t, what |-> what]}
    BY <1>2 DEF Present
  <2> QED BY <1>2, <2>1, <2>2
<1>3. ASSUME NEW w \in Worker, Accept(w)
      PROVE  \/ UNCHANGED <<conversations, presented>>
             \/ \E t, what : Present(t, what) /\ ~Traced(what) /\ Traced(what)'
  <2>1. PICK e \in Event : Project(e) /\ e \notin inbox /\ e \in inbox'
    BY <1>3, WorkIsEvent DEF Accept, FirstInInbox
  <2>2. ~Traced(e) /\ Traced(e)'
    BY <2>1, EventKinds DEF Traced
  <2>3. ASSUME NEW s \in Suspension, requests[s].state \notin {"pending", "answered"},
               requests'[s].state = "pending"
        PROVE  ~Traced([kind |-> "opened", of |-> s]) /\ Traced([kind |-> "opened", of |-> s])'
    <3> DEFINE o == [kind |-> "opened", of |-> s]
    <3>1. o.kind = "opened" /\ o.of = s
      OBVIOUS
    <3> HIDE DEF o
    <3>2. o \notin inbox
      BY <3>1, EventKinds, ConversationAssumption DEF TypeOK
    <3>3. ~Traced(o) /\ Traced(o)'
      BY <2>3, <3>1, <3>2 DEF Traced
    <3> QED BY <3>3 DEF o
  <2> QED BY <2>1, <2>2, <2>3, ProjectPresents
<1>4. ASSUME NEW q \in Responding, AnswerInput(q)
      PROVE  \E t, what : Present(t, what) /\ ~Traced(what) /\ Traced(what)'
  <2> DEFINE s == q.suspension
             o == [kind |-> "response", of |-> s]
  <2>1. s \in Suspension
    BY ConversationAssumption
  <2>2. o.kind = "response" /\ o.of = s
    OBVIOUS
  <2>3. /\ requests[s].state = "pending" /\ requests' = [requests EXCEPT ![s].state = "answered"]
        /\ Present(requests[s].thread, o)
    BY <1>4 DEF AnswerInput, MayAnswer
  <2> HIDE DEF s, o
  <2>4. requests'[s].state = "answered"
    BY <1>1, <2>1, <2>3 DEF RequestRow
  <2>5. o \notin inbox
    BY <2>2, EventKinds, ConversationAssumption DEF TypeOK
  <2> QED BY <2>1, <2>2, <2>3, <2>4, <2>5 DEF Traced
<1>5. ASSUME NEW q \in Posting, CreateMessage(q)
      PROVE  \E t, what :
              /\ presented' = presented \cup {[thread |-> t, what |-> what]}
              /\ ~Traced(what) /\ Traced(what)'
              /\ \A u \in Thread : conversations'[u].sequence =
                                      conversations[u].sequence + (IF u = t THEN 1 ELSE 0)
  <2> DEFINE m == q.message
             t == q.thread
             o == [kind |-> "posted", of |-> m]
             a == [conversations EXCEPT ![t].sequence = @ + 1]
  <2>1. m \in Message /\ t \in Thread
    BY ConversationAssumption
  <2>2. o.kind = "posted" /\ o.of = m
    OBVIOUS
  <2>3. messages[m].status = "absent" /\ messages'[m].status = "completed"
        /\ presented' = presented \cup {[thread |-> t, what |-> o]}
    BY <1>5, <2>1, RowIsMessage DEF CreateMessage
  <2>4. conversations' = [a EXCEPT ![t].grant = q.grant]
    BY <1>5 DEF CreateMessage
  <2>5. o \notin inbox
    BY <2>2, EventKinds, ConversationAssumption DEF TypeOK
  <2>6. ~Traced(o) /\ Traced(o)'
    <3> HIDE DEF o, m
    <3> QED BY <2>1, <2>2, <2>3, <2>5 DEF Traced, Final
  <2>7. /\ a \in [Thread -> ConversationRow]
        /\ \A u \in Thread : a[u].sequence = conversations[u].sequence + (IF u = t THEN 1 ELSE 0)
    BY <1>1, <2>1 DEF ConversationRow
  <2>8. \A u \in Thread : conversations'[u].sequence = a[u].sequence
    <3> HIDE DEF a, t
    <3> QED BY <2>1, <2>4, <2>7 DEF ConversationRow
  <2> HIDE DEF a, t, m, o
  <2> QED BY <2>3, <2>6, <2>7, <2>8
<1>6. ASSUME NEW q \in Opening, CreateConversation(q)
      PROVE  /\ presented' = presented
             /\ \A u \in Thread : conversations'[u].sequence = conversations[u].sequence
  BY <1>1, <1>6 DEF CreateConversation, ConversationRow
<1>7. CASE ~(\E w \in Worker : Accept(w)) /\ ~(\E q \in Opening : CreateConversation(q))
           /\ ~(\E q \in Posting : CreateMessage(q)) /\ ~\E q \in Responding : AnswerInput(q)
  <2>1. UNCHANGED <<conversations, presented>>
    BY <1>7 DEF Next, Deliver, Nak, PruneChunks, Read, vars, rows
  <2> QED BY <2>1
<1>8. CASE \E w \in Worker : Accept(w)
  BY <1>2, <1>3, <1>8
<1>9. CASE \E q \in Responding : AnswerInput(q)
  BY <1>2, <1>4, <1>9
<1> QED BY <1>5, <1>6, <1>7, <1>8, <1>9

LEMMA PresentedKept ==
  TypeOK /\ ConfirmedInv /\ PresentedInv /\ PresentedOnce /\ [Next]_vars
    => PresentedInv' /\ PresentedOnce'
<1> SUFFICES ASSUME TypeOK, ConfirmedInv, PresentedInv, PresentedOnce, [Next]_vars
             PROVE  PresentedInv' /\ PresentedOnce'
  OBVIOUS
<1>1. CASE /\ presented' = presented
           /\ \A u \in Thread : conversations'[u].sequence = conversations[u].sequence
  <2>1. PresentedInv'
    BY <1>1, TracesStay DEF PresentedInv
  <2>2. PresentedOnce'
    BY <1>1 DEF PresentedOnce
  <2> QED BY <2>1, <2>2
<1>2. ASSUME NEW t, NEW what,
             presented' = presented \cup {[thread |-> t, what |-> what]},
             ~Traced(what), Traced(what)',
             \A u \in Thread : conversations'[u].sequence =
                                 conversations[u].sequence + (IF u = t THEN 1 ELSE 0)
      PROVE  PresentedInv' /\ PresentedOnce'
  <2> DEFINE n == [thread |-> t, what |-> what]
  <2>1. n.thread = t /\ n.what = what
    OBVIOUS
  <2>2. presented' = presented \cup {n}
    BY <1>2
  <2> HIDE DEF n
  <2>3. n \notin presented
    BY <1>2, <2>1 DEF PresentedInv
  <2>4. IsFiniteSet(presented')
    BY <2>2, FS_AddElement DEF PresentedInv
  <2>5. \A p \in presented' : Traced(p.what)'
    BY <1>2, <2>1, <2>2, TracesStay DEF PresentedInv
  <2>6. ASSUME NEW u \in Thread
        PROVE  conversations'[u].sequence = Cardinality({p \in presented' : p.thread = u})
    <3> DEFINE S == {p \in presented : p.thread = u}
               T == {p \in presented' : p.thread = u}
    <3>1. IsFiniteSet(S) /\ n \notin S
      BY <2>3, FS_Subset DEF PresentedInv
    <3>2. conversations[u].sequence = Cardinality(S)
      BY DEF PresentedOnce
    <3>3. CASE u = t
      <4>1. T = S \cup {n}
        BY <2>1, <2>2, <3>3
      <4>2. Cardinality(T) = Cardinality(S) + 1
        <5> HIDE DEF S, T
        <5> QED BY <3>1, <4>1, FS_AddElement
      <4> QED BY <1>2, <3>2, <3>3, <4>2
    <3>4. CASE u # t
      <4>1. T = S
        BY <2>1, <2>2, <3>4
      <4>2. Cardinality(S) \in Nat
        BY <3>1, FS_CardinalityType
      <4>3. conversations'[u].sequence = conversations[u].sequence + 0
        BY <1>2, <3>4
      <4> SUFFICES conversations'[u].sequence = Cardinality(T)
        OBVIOUS
      <4> HIDE DEF S, T
      <4> QED BY <3>2, <4>1, <4>2, <4>3
    <3> QED BY <3>3, <3>4
  <2> QED BY <2>4, <2>5, <2>6 DEF PresentedInv, PresentedOnce
<1> QED BY <1>1, <1>2, PresentedSteps

\* The inductive invariant of what is presented: every event has left its trace.
THEOREM PresentedLeavesTraces == Spec => [](PresentedInv /\ PresentedOnce)
<1>1. Init => PresentedInv /\ PresentedOnce
  <2> SUFFICES ASSUME Init PROVE PresentedInv /\ PresentedOnce
    OBVIOUS
  <2>1. presented = {} /\ \A t \in Thread : conversations[t].sequence = 0
    BY DEF Init
  <2>2. \A t \in Thread : {p \in presented : p.thread = t} = {}
    BY <2>1
  <2> QED BY <2>1, <2>2, FS_EmptySet DEF PresentedInv, PresentedOnce
<1> QED BY <1>1, PresentedKept, ConversationInvariant, PTL DEF Spec, CInv

\* However many deliveries of an event are at work, it takes one sequence number,
\* and every sequence number was given to one thing.
THEOREM NothingPresentedTwice == Spec => []PresentedOnce
  BY PresentedLeavesTraces, PTL

-----------------------------------------------------------------------------
(* What a reader is owed                                                    *)

\* The chunk of a delta that was taken in is with its message, in its chunks while
\* it streams and in its text afterwards
HasChunk(m, i) ==
  /\ messages[m].status # "absent"
  /\ messages[m].status = "streaming" => i \in chunks[m]
  /\ messages[m].status \in Final => i \in messages[m].content

\* What an event of the inbox has told of its message is still so
InboxTold ==
  \A e \in inbox :
    /\ e.kind = "started" => messages[e.message].status # "absent"
    /\ e.kind \in Final => messages[e.message].status \in Final
    /\ e.kind = "delta" => HasChunk(e.message, e.chunk)

\* What the reader is still owed, the queries to come will find, but for the parts
\* of messages that stream
Owing ==
  /\ view.todo \in {<<>>, <<"messages", "inputs">>, <<"inputs">>}
  /\ view.todo = <<"messages", "inputs">> =>
       \A x \in view.owed : x[1] = "part" \/ x \in MessagesShown \cup RequestsShown
  /\ view.todo = <<"inputs">> => \A x \in view.owed : x[1] = "part" \/ x \in RequestsShown
  /\ view.todo = <<>> => \A x \in view.owed : x[1] = "part"

\* A message goes on, keeps its end and its text, and loses no chunk before it ends.
LEMMA MessageGoesOn ==
  ASSUME TypeOK, TextInv, [Next]_vars, NEW m \in Message
  PROVE  /\ messages[m].status # "absent" => messages'[m].status # "absent"
         /\ messages[m].status \in Final => messages'[m] = messages[m]
         /\ messages[m].content \subseteq messages'[m].content
         /\ \A i : HasChunk(m, i) => HasChunk(m, i)'
<1>1. messages[m].status \in Final \/ chunks[m] \subseteq chunks'[m]
  <2>1. ASSUME NEW w \in Worker, Accept(w)
        PROVE  chunks[m] \subseteq chunks'[m]
    <3>1. PICK e \in Event : Project(e)
      BY <2>1, WorkIsEvent DEF Accept
    <3>2. CASE ProjectDelta(e)
      <4>1. e.message \in Message /\ chunks' = [chunks EXCEPT ![e.message] = @ \cup {e.chunk}]
        BY <3>2, EventFields DEF ProjectDelta
      <4> QED BY <4>1 DEF TypeOK
    <3>3. CASE ~ProjectDelta(e)
      BY <3>1, <3>3 DEF Project, ProjectStarted, ProjectCompleted, ProjectStopped,
                        ProjectNoMessages, ProjectResult, ProjectRequest, ProjectCommitment
    <3> QED BY <3>2, <3>3
  <2>2. ASSUME NEW k \in Message, PruneChunks(k)
        PROVE  messages[m].status \in Final \/ chunks[m] \subseteq chunks'[m]
    BY <2>2 DEF PruneChunks, TypeOK
  <2> QED BY <2>1, <2>2 DEF Next, CreateConversation, CreateMessage, AnswerInput, Deliver, Nak,
                           Read, vars, rows
<1>2. messages[m] \in MessageRow /\ messages \in [Message -> MessageRow]
  BY RowIsMessage
<1>3. CASE messages'[m] = messages[m]
  BY <1>1, <1>3 DEF HasChunk, Final
<1>4. CASE messages'[m] # messages[m]
  <2>1. Moves(messages[m], messages'[m], chunks[m])
    BY <1>2, <1>4, MessageSteps
  <2>2. messages[m].status \in {"absent", "streaming"} => messages[m].content = {}
    BY DEF TextInv
  <2> QED BY <1>1, <2>1, <2>2 DEF Moves, HasChunk, Final
<1> QED BY <1>3, <1>4

\* A question that was opened, and its answer, stay.
LEMMA QuestionGoesOn ==
  ASSUME TypeOK, ConfirmedInv, [Next]_vars, NEW s \in Suspension
  PROVE  /\ requests[s].state \in {"pending", "answered"}
              => requests'[s].state \in {"pending", "answered"}
         /\ requests[s].state = "answered" => requests'[s].state = "answered"
<1>1. \A e \in inbox \cup inbox' : e.kind \notin {"opened", "response"}
  BY EventKinds, TypesKept, ConversationAssumption DEF TypeOK
<1>2. ASSUME NEW k \in {"opened", "response"}
      PROVE  Traced([kind |-> k, of |-> s]) => Traced([kind |-> k, of |-> s])'
  BY TracesStay
<1>3. Traced([kind |-> "opened", of |-> s]) <=> requests[s].state \in {"pending", "answered"}
  BY <1>1 DEF Traced
<1>4. Traced([kind |-> "opened", of |-> s])' <=> requests'[s].state \in {"pending", "answered"}
  BY <1>1 DEF Traced
<1>5. Traced([kind |-> "response", of |-> s]) <=> requests[s].state = "answered"
  BY <1>1 DEF Traced
<1>6. Traced([kind |-> "response", of |-> s])' <=> requests'[s].state = "answered"
  BY <1>1 DEF Traced
<1> QED BY <1>2, <1>3, <1>4, <1>5, <1>6

\* What the rows show, they go on showing.
LEMMA ShownStays ==
  ASSUME TypeOK, TextInv, ConfirmedInv, [Next]_vars
  PROVE  MessagesShown \subseteq MessagesShown' /\ RequestsShown \subseteq RequestsShown'
<1>1. MessagesShown \subseteq MessagesShown'
  <2>1. ASSUME NEW x \in UNION {{"text", "part"} \X {m} \X messages[m].content : m \in Message}
        PROVE  x \in MessagesShown'
    <3>1. PICK m \in Message : x \in {"text", "part"} \X {m} \X messages[m].content
      BY <2>1
    <3>2. x \in {"text", "part"} \X {m} \X messages'[m].content
      BY <3>1, MessageGoesOn
    <3> QED BY <3>2 DEF MessagesShown
  <2>2. ASSUME NEW m \in Message, messages[m].status # "absent"
        PROVE  <<"begun", m, 0>> \in MessagesShown'
    BY <2>2, MessageGoesOn DEF MessagesShown
  <2>3. ASSUME NEW m \in Message, messages[m].status \in Final
        PROVE  <<"ended", m, 0>> \in MessagesShown'
    BY <2>3, MessageGoesOn DEF MessagesShown
  <2> QED BY <2>1, <2>2, <2>3 DEF MessagesShown
<1>2. RequestsShown \subseteq RequestsShown'
  BY QuestionGoesOn DEF RequestsShown
<1> QED BY <1>1, <1>2

\* What an event tells of its message is so when it is taken into the inbox.
LEMMA InboxToldKept ==
  ASSUME TypeOK, TextInv, InboxTold, [Next]_vars
  PROVE  InboxTold'
<1>1. ASSUME NEW e \in inbox
      PROVE  /\ e.kind = "started" => messages'[e.message].status # "absent"
             /\ e.kind \in Final => messages'[e.message].status \in Final
             /\ e.kind = "delta" => HasChunk(e.message, e.chunk)'
  <2>1. e.kind \in {"started", "delta"} \cup Final => e.message \in Message
    BY EventFields, ConversationAssumption DEF TypeOK, Final
  <2> QED BY <2>1, MessageGoesOn DEF InboxTold
<1>2. CASE UNCHANGED inbox
  BY <1>1, <1>2 DEF InboxTold
<1>3. ASSUME NEW w \in Worker, Accept(w)
      PROVE  InboxTold'
  <2>1. PICK e \in Event : Project(e) /\ inbox' = inbox \cup {e}
    BY <1>3, WorkIsEvent DEF Accept
  <2>2. messages \in [Message -> MessageRow]
        /\ (e.kind \in {"started", "delta"} \cup Final => e.message \in Message)
        /\ (e.kind = "delta" => e.chunk \in Chunk)
    BY RowIsMessage, EventFields DEF Final, TypeOK, MessageRow
  <2>3. ASSUME e.kind \in Final
        PROVE  messages'[e.message].status \in Final
    <3>1. ProjectCompleted(e) \/ ProjectStopped(e)
      BY <2>1, <2>3 DEF Project, Final, ProjectStarted, ProjectDelta, ProjectNoMessages,
                        ProjectResult, ProjectRequest, ProjectCommitment
    <3>2. \E k \in Final :
              messages' = [messages EXCEPT ![e.message].status = k,
                                           ![e.message].content = chunks[e.message]]
      BY <2>3, <3>1 DEF ProjectCompleted, ProjectStopped, Final
    <3> QED BY <2>2, <2>3, <3>2 DEF MessageRow
  <2>4. ASSUME e.kind = "started"
        PROVE  messages'[e.message].status # "absent"
    <3>1. ProjectStarted(e)
      BY <2>1, <2>4 DEF Project, ProjectCompleted, ProjectStopped, ProjectDelta,
                        ProjectNoMessages, ProjectResult, ProjectRequest, ProjectCommitment
    <3> QED BY <2>2, <2>4, <3>1 DEF ProjectStarted
  <2>5. ASSUME e.kind = "delta"
        PROVE  HasChunk(e.message, e.chunk)'
    <3>1. ProjectDelta(e)
      BY <2>1, <2>5 DEF Project, ProjectCompleted, ProjectStopped, ProjectStarted,
                        ProjectNoMessages, ProjectResult, ProjectRequest, ProjectCommitment
    <3>2. e.chunk \in chunks'[e.message] /\ messages'[e.message].status = "streaming"
      BY <2>2, <2>5, <3>1 DEF ProjectDelta, Streaming, TypeOK
    <3> QED BY <3>2 DEF HasChunk, Final
  <2> QED BY <1>1, <2>1, <2>3, <2>4, <2>5 DEF InboxTold
<1> QED BY <1>2, <1>3 DEF Next, CreateConversation, CreateMessage, AnswerInput, Deliver, Nak,
       PruneChunks, Read, vars, rows

\* Everything that was presented is shown, but for parts of messages that stream.
LEMMA PresentedInView ==
  ASSUME PresentedInv, InboxTold, TypeOK, NEW seen \in SUBSET presented
  PROVE  /\ \A x \in MessagesIn(seen) : x[1] = "part" \/ x \in MessagesShown
         /\ RequestsIn(seen) \subseteq RequestsShown
<1>1. \A e \in inbox : e.kind \notin {"posted", "response", "opened"} /\ e \in Event
  BY EventKinds, ConversationAssumption DEF TypeOK
<1>2. \A K : \A e \in Kinds(seen, K) : e.kind \in K /\ Traced(e)
  BY DEF Kinds, PresentedInv
<1>3. ASSUME NEW e, Traced(e), e.kind \in {"started", "delta"} \cup Final
      PROVE  e \in inbox /\ e.message \in Message
  BY <1>1, <1>3, EventFields DEF Traced, Final
<1>4. ASSUME NEW e \in Kinds(seen, {"started"})
      PROVE  <<"begun", e.message, 0>> \in MessagesShown
  <2>1. e \in inbox /\ e.message \in Message /\ e.kind = "started"
    BY <1>2, <1>3
  <2> QED BY <2>1 DEF InboxTold, MessagesShown
<1>5. ASSUME NEW m \in {e.message : e \in Kinds(seen, Final)}
      PROVE  m \in Message /\ messages[m].status \in Final
  <2>1. PICK e \in Kinds(seen, Final) : m = e.message
    OBVIOUS
  <2>2. e \in inbox /\ e.message \in Message /\ e.kind \in Final
    BY <1>2, <1>3
  <2> QED BY <2>1, <2>2 DEF InboxTold
<1>6. ASSUME NEW p \in Kinds(seen, {"posted"})
      PROVE  p.of \in Message /\ messages[p.of].status \in Final
  <2>1. p.kind = "posted" /\ Traced(p)
    BY <1>2
  <2> QED BY <1>1, <2>1 DEF Traced
<1>7. ASSUME NEW m \in {e.message : e \in Kinds(seen, Final)} \cup {p.of : p \in Kinds(seen, {"posted"})}
      PROVE  <<"ended", m, 0>> \in MessagesShown
  BY <1>5, <1>6 DEF MessagesShown
<1>8. ASSUME NEW e \in Kinds(seen, {"delta"}),
             e.message \in {d.message : d \in Kinds(seen, Final)}
      PROVE  <<"text", e.message, e.chunk>> \in MessagesShown
  <2>1. e \in inbox /\ e.message \in Message /\ e.kind = "delta"
    BY <1>2, <1>3
  <2>2. e.chunk \in messages[e.message].content
    BY <1>5, <1>8, <2>1 DEF InboxTold, HasChunk
  <2>3. <<"text", e.message, e.chunk>> \in {"text", "part"} \X {e.message} \X messages[e.message].content
    BY <2>2
  <2> QED BY <2>1, <2>3 DEF MessagesShown
<1>9. ASSUME NEW p \in Kinds(seen, {"opened"})
      PROVE  <<"opened", p.of, 0>> \in RequestsShown
  <2>1. p.kind = "opened" /\ Traced(p)
    BY <1>2
  <2> QED BY <1>1, <2>1 DEF Traced, RequestsShown
<1>10. ASSUME NEW p \in Kinds(seen, {"response"})
       PROVE  <<"answered", p.of, 0>> \in RequestsShown
  <2>1. p.kind = "response" /\ Traced(p)
    BY <1>2
  <2> QED BY <1>1, <2>1 DEF Traced, RequestsShown
<1>11. RequestsIn(seen) \subseteq RequestsShown
  BY <1>9, <1>10 DEF RequestsIn
<1>12. ASSUME NEW x \in MessagesIn(seen)
       PROVE  x[1] = "part" \/ x \in MessagesShown
  <2>1. CASE \E e \in Kinds(seen, {"started"}) : x = <<"begun", e.message, 0>>
    BY <1>4, <2>1
  <2>2. CASE \E m \in {e.message : e \in Kinds(seen, Final)}
                        \cup {p.of : p \in Kinds(seen, {"posted"})} : x = <<"ended", m, 0>>
    BY <1>7, <2>2
  <2>3. CASE \E e \in Kinds(seen, {"delta"}) :
               x = <<IF e.message \in {d.message : d \in Kinds(seen, Final)} THEN "text" ELSE "part",
                     e.message, e.chunk>>
    BY <1>8, <2>3
  <2> QED BY <2>1, <2>2, <2>3 DEF MessagesIn
<1> QED BY <1>11, <1>12

\* A query takes off what it finds, which is all that no later query finds.
LEMMA OwingKept ==
  ASSUME CInv, PresentedInv, InboxTold, Owing, [Next]_vars
  PROVE  Owing'
<1> USE DEF CInv
<1>1. CASE UNCHANGED view
  BY <1>1, ShownStays DEF Owing
<1>2. CASE Read
  <2>1. /\ Queries = <<"conversation", "messages", "inputs">>
        /\ Head(Queries) = "conversation" /\ Tail(Queries) = <<"messages", "inputs">>
        /\ Head(<<"messages", "inputs">>) = "messages" /\ Tail(<<"messages", "inputs">>) = <<"inputs">>
        /\ Head(<<"inputs">>) = "inputs" /\ Tail(<<"inputs">>) = <<>>
    BY DEF Queries
  <2>2. <<"messages", "inputs">> # <<"inputs">> /\ <<"messages", "inputs">> # <<>> /\ <<"inputs">> # <<>>
    OBVIOUS
  <2>3. MessagesShown' = MessagesShown /\ RequestsShown' = RequestsShown
    BY <1>2 DEF Read, rows, MessagesShown, RequestsShown
  <2>4. CASE view.todo = <<>>
    <3>1. Due = Queries
      BY <2>4 DEF Due
    <3>2. PICK t \in Thread : ReadConversation(t)
      BY <1>2, <2>1, <3>1 DEF Read
    <3>3. PICK minded : /\ minded \subseteq MessagesIn({p \in presented : p.thread = t})
                                              \cup RequestsIn({p \in presented : p.thread = t})
                        /\ view'.todo = <<"messages", "inputs">>
                        /\ view'.owed = minded \ view.found
      BY <2>1, <3>1, <3>2 DEF ReadConversation
    <3>4. \A x \in view'.owed : x[1] = "part" \/ x \in MessagesShown \cup RequestsShown
      BY <3>3, PresentedInView
    <3> QED BY <2>2, <2>3, <3>3, <3>4 DEF Owing
  <2>5. CASE view.todo = <<"messages", "inputs">>
    <3>1. Due = <<"messages", "inputs">> /\ ReadMessages
      BY <1>2, <2>1, <2>2, <2>5 DEF Due, Read
    <3>2. view'.todo = <<"inputs">> /\ view'.owed = view.owed \ MessagesShown
      BY <2>1, <3>1 DEF ReadMessages, Answer
    <3> QED BY <2>2, <2>3, <2>5, <3>2 DEF Owing
  <2>6. CASE view.todo = <<"inputs">>
    <3>1. Due = <<"inputs">> /\ ReadInputs
      BY <1>2, <2>1, <2>2, <2>6 DEF Due, Read
    <3>2. view'.todo = <<>> /\ view'.owed = view.owed \ RequestsShown
      BY <2>1, <3>1 DEF ReadInputs, Answer
    <3> QED BY <2>2, <2>3, <2>6, <3>2 DEF Owing
  <2> QED BY <2>4, <2>5, <2>6 DEF Owing
<1> QED BY <1>1, <1>2 DEF Next, CreateConversation, CreateMessage, AnswerInput, Deliver, Accept, Nak,
       PruneChunks, vars

\* Whatever is posted, streamed, ended, asked or answered between the queries of a
\* projection, what a reader will not see as an event is in what it loaded, except
\* parts of messages whose end it will see as an event.
THEOREM ReadersMissOnlyParts == Spec => []NoGapForReaders
<1>1. Init => InboxTold /\ Owing
  BY DEF Init, InboxTold, Owing, Unread
<1>2. CInv /\ PresentedInv /\ InboxTold /\ Owing /\ [Next]_vars => InboxTold' /\ Owing'
  BY InboxToldKept, OwingKept DEF CInv
<1>3. Owing => NoGapForReaders
  BY DEF Owing, NoGapForReaders
<1> QED BY <1>1, <1>2, <1>3, PresentedLeavesTraces, ConversationInvariant, PTL DEF Spec

-----------------------------------------------------------------------------
(* Confirmations of what is complete                                        *)

\* What is streaming, or proposed, was announced
Begun ==
  \A m \in Message : messages[m].status = "streaming" =>
    \E e \in Announced : OfMessage(e) /\ e.message = m /\ e.run = messages[m].run
ProposedByRun ==
  \A r \in Run : proposals[r].finals # {} =>
    \E e \in Announced : e.kind = "result" /\ e.finals = proposals[r].finals

ConfirmedOfRun(r) ==
  LET p == proposals[r] IN
  /\ p.finals # {} /\ Complete(p.finals, r, messages) => p.confirmed
  /\ p.confirmed => CommittedIn(outbox, r) # {}

OwnInv == Begun /\ ProposedByRun /\ \A r \in Run : ConfirmedOfRun(r)

\* Of the messages that a run has proposed, none gets to count as complete.
NoneCompletes(r) ==
  \A m \in proposals[r].finals :
    messages'[m].status = "completed" /\ messages'[m].run = r
      => messages[m].status = "completed" /\ messages[m].run = r

\* A step that completes none of what a run has proposed leaves its confirmation.
LEMMA ConfirmedStays ==
  ASSUME NEW r \in Run, ConfirmedOfRun(r), proposals'[r] = proposals[r], outbox \subseteq outbox',
         NoneCompletes(r)
  PROVE  ConfirmedOfRun(r)'
<1>1. Complete(proposals[r].finals, r, messages') => Complete(proposals[r].finals, r, messages)
  BY DEF NoneCompletes, Complete
<1>2. CommittedIn(outbox, r) # {} => CommittedIn(outbox', r) # {}
  BY DEF CommittedIn
<1> QED BY <1>1, <1>2 DEF ConfirmedOfRun

\* The outbox only grows.
LEMMA OutboxGrows ==
  ASSUME TypeOK, ConfirmedInv, [Next]_vars
  PROVE  outbox \subseteq outbox'
  BY OutboxSteps

\* A message that is begun has an event of its run.
LEMMA BegunProjected ==
  ASSUME TypeOK, Begun, NEW e \in Announced, Project(e)
  PROVE  Begun'
<1>0. e \in Event
  BY ConversationAssumption
<1>1. messages \in [Message -> MessageRow]
  BY DEF TypeOK, MessageRow
<1>2. CASE UNCHANGED messages
  BY <1>2 DEF Begun
<1>3. CASE ProjectStarted(e)
  <2>1. e.message \in Message /\ OfMessage(e)
    BY <1>0, <1>3, EventFields DEF ProjectStarted, OfMessage
  <2>2. ASSUME NEW m \in Message, messages'[m].status = "streaming"
        PROVE  \/ messages'[m] = messages[m]
               \/ m = e.message /\ messages'[m].run = e.run
    BY <1>1, <1>3, <2>1 DEF ProjectStarted
  <2> QED BY <2>1, <2>2 DEF Begun
<1>4. CASE ProjectCompleted(e) \/ ProjectStopped(e)
  <2>1. e.message \in Message
    BY <1>0, <1>4, EventFields DEF ProjectCompleted, ProjectStopped
  <2>2. PICK k \in Final :
          messages' = [messages EXCEPT ![e.message].status = k,
                                       ![e.message].content = chunks[e.message]]
    BY <1>4 DEF ProjectCompleted, ProjectStopped, Final
  <2>3. messages'[e.message].status # "streaming"
        /\ \A m \in Message : m # e.message => messages'[m] = messages[m]
    BY <1>1, <2>1, <2>2 DEF MessageRow, Final
  <2> QED BY <2>3 DEF Begun
<1> QED BY <1>2, <1>3, <1>4
        DEF Project, ProjectDelta, ProjectNoMessages, ProjectResult, ProjectRequest, ProjectCommitment

\* The message that an event completes is one of the run of the event; of that
\* run the proposal is looked at.
LEMMA CompletedConfirms ==
  ASSUME TypeOK, ConfirmedInv, OwnMessages, OwnInv, NEW e \in Announced, ProjectCompleted(e),
         outbox \subseteq outbox'
  PROVE  ProposedByRun' /\ \A r \in Run : ConfirmedOfRun(r)'
<1> DEFINE m == e.message
           q == e.run
<1>1. e \in Event /\ OfMessage(e) /\ m \in Message /\ q \in Run
  BY ConversationAssumption, EventFields DEF ProjectCompleted, OfMessage
<1>2. messages \in [Message -> MessageRow] /\ proposals \in [Run -> ProposalRow]
  BY DEF TypeOK, MessageRow, ProposalRow
<1>3. messages[m].status = "streaming" /\ messages[m].run = q
  <2>1. messages[m].status = "streaming"
    BY DEF ProjectCompleted, Streaming
  <2>2. PICK d \in Announced : OfMessage(d) /\ d.message = m /\ d.run = messages[m].run
    BY <1>1, <2>1 DEF OwnInv, Begun
  <2> QED BY <1>1, <2>1, <2>2 DEF OwnMessages
<1>4. /\ messages'[m].run = q
      /\ \A k \in Message : k # m => messages'[k] = messages[k]
  BY <1>1, <1>2, <1>3 DEF ProjectCompleted, MessageRow
<1>5. \A r \in Run : proposals[r].finals \subseteq Message
  BY <1>2 DEF ProposalRow
<1>6. CASE ~ProposalComplete(q, messages')
  <2>1. UNCHANGED <<proposals, outbox>>
    BY <1>6 DEF ProjectCompleted
  <2>2. ASSUME NEW r \in Run
        PROVE  ConfirmedOfRun(r)'
    <3>1. CASE r = q
      BY <1>6, <2>1, <3>1 DEF OwnInv, ConfirmedOfRun, ProposalComplete
    <3>2. CASE r # q
      <4>1. NoneCompletes(r)
        BY <1>4, <1>5, <3>2 DEF NoneCompletes
      <4> QED BY <2>1, <4>1, ConfirmedStays DEF OwnInv
    <3> QED BY <3>1, <3>2
  <2> QED BY <2>1, <2>2 DEF OwnInv, ProposedByRun
<1>7. CASE ProposalComplete(q, messages')
  <2>1. /\ proposals' = [proposals EXCEPT ![q].confirmed = TRUE]
        /\ outbox' = IF proposals[q].confirmed THEN outbox
                     ELSE outbox \cup {[kind |-> "committed", run |-> q,
                                        messages |-> proposals[q].finals]}
    BY <1>7 DEF ProjectCompleted, ConfirmMessages
  <2>2. /\ \A r \in Run : r # q => proposals'[r] = proposals[r]
        /\ \A r \in Run : proposals'[r].finals = proposals[r].finals
    BY <1>1, <1>2, <2>1 DEF ProposalRow
  <2>3. proposals'[q].confirmed
    BY <1>1, <1>2, <2>1 DEF ProposalRow
  <2>4. CommittedIn(outbox', q) # {}
    <3>1. CASE proposals[q].confirmed
      BY <1>1, <2>1, <3>1 DEF OwnInv, ConfirmedOfRun
    <3>2. CASE ~proposals[q].confirmed
      <4> DEFINE x == [kind |-> "committed", run |-> q, messages |-> proposals[q].finals]
      <4>1. x \in outbox' /\ x.kind = "committed" /\ x.run = q
        BY <2>1, <3>2
      <4> HIDE DEF x
      <4> QED BY <4>1 DEF CommittedIn
    <3> QED BY <3>1, <3>2
  <2>5. ASSUME NEW r \in Run
        PROVE  ConfirmedOfRun(r)'
    <3>1. CASE r = q
      BY <2>3, <2>4, <3>1 DEF ConfirmedOfRun
    <3>2. CASE r # q
      <4>1. NoneCompletes(r)
        BY <1>4, <1>5, <3>2 DEF NoneCompletes
      <4> QED BY <2>2, <3>2, <4>1, ConfirmedStays DEF OwnInv
    <3> QED BY <3>1, <3>2
  <2> QED BY <2>2, <2>5 DEF OwnInv, ProposedByRun
<1> QED BY <1>6, <1>7

\* A proposal is confirmed when it comes, if all it names is complete by then.
LEMMA ResultConfirms ==
  ASSUME TypeOK, ConfirmedInv, OwnInv, NEW e \in Announced, ProjectResult(e),
         outbox \subseteq outbox'
  PROVE  ProposedByRun' /\ \A r \in Run : ConfirmedOfRun(r)'
<1> DEFINE q == e.run
           M == e.finals
           p == IF proposals[q].finals # {} THEN proposals[q]
                ELSE [finals |-> e.finals, thread |-> e.thread, confirmed |-> FALSE]
           confirm == Complete(M, q, messages) /\ ~p.confirmed
           n == [p EXCEPT !.confirmed = p.confirmed \/ confirm]
<1>1. /\ e \in Event /\ e.kind = "result" /\ q \in Run /\ M \subseteq Message /\ M # {}
      /\ e.thread \in Thread
  BY ConversationAssumption, EventFields DEF ProjectResult
<1>2. proposals \in [Run -> ProposalRow]
  BY DEF TypeOK, ProposalRow
<1>3. p \in ProposalRow
  BY <1>1, <1>2 DEF ProposalRow
<1>4. /\ proposals' = [proposals EXCEPT ![q] = n] /\ messages' = messages
      /\ outbox' = IF ~confirm THEN outbox
                   ELSE outbox \cup {[kind |-> "committed", run |-> q, messages |-> M]}
  BY DEF ProjectResult
<1>5. \/ p = proposals[q] /\ p.finals # {}
      \/ p.finals = M /\ ~p.confirmed /\ proposals[q].finals = {}
  OBVIOUS
<1>6. confirm \in BOOLEAN /\ (confirm <=> Complete(M, q, messages) /\ ~p.confirmed)
  OBVIOUS
<1>7. n.finals = p.finals /\ (n.confirmed <=> p.confirmed \/ confirm)
  <2> HIDE DEF p, confirm
  <2> QED BY <1>3, <1>6 DEF ProposalRow
<1>8. confirm => CommittedIn(outbox', q) # {}
  <2> SUFFICES ASSUME confirm PROVE CommittedIn(outbox', q) # {}
    OBVIOUS
  <2> DEFINE x == [kind |-> "committed", run |-> q, messages |-> M]
  <2>1. x \in outbox' /\ x.kind = "committed" /\ x.run = q
    BY <1>4
  <2> HIDE DEF x
  <2> QED BY <2>1 DEF CommittedIn
<1> HIDE DEF n, p, confirm
<1>9. proposals'[q] = n /\ \A r \in Run : r # q => proposals'[r] = proposals[r]
  BY <1>1, <1>2, <1>4
<1>10. ASSUME NEW r \in Run
       PROVE  ConfirmedOfRun(r)'
  <2>1. CASE r # q
    <3>1. NoneCompletes(r)
      BY <1>4 DEF NoneCompletes
    <3> QED BY <1>9, <2>1, <3>1, ConfirmedStays DEF OwnInv
  <2>2. CASE r = q
    <3>1. p.finals # {} /\ Complete(p.finals, q, messages) => n.confirmed
      <4>1. CASE p = proposals[q]
        BY <1>1, <1>7, <4>1 DEF OwnInv, ConfirmedOfRun
      <4>2. CASE p.finals = M
        BY <1>6, <1>7, <4>2
      <4> QED BY <1>5, <4>1, <4>2
    <3>2. n.confirmed => CommittedIn(outbox', q) # {}
      <4>1. CASE confirm
        BY <1>8, <4>1
      <4>2. CASE ~confirm
        <5>1. n.confirmed => proposals[q].confirmed
          BY <1>5, <1>7, <4>2
        <5>2. proposals[q].confirmed => CommittedIn(outbox, q) # {}
          BY <1>1 DEF OwnInv, ConfirmedOfRun
        <5> QED BY <1>4, <4>2, <5>1, <5>2
      <4> QED BY <4>1, <4>2
    <3> QED BY <1>4, <1>7, <1>9, <2>2, <3>1, <3>2 DEF ConfirmedOfRun
  <2> QED BY <2>1, <2>2
<1>11. ProposedByRun'
  <2>1. ASSUME NEW r \in Run, proposals'[r].finals # {}
        PROVE  \E d \in Announced : d.kind = "result" /\ d.finals = proposals'[r].finals
    <3>1. CASE r = q /\ p.finals = M
      BY <1>1, <1>7, <1>9, <3>1
    <3>2. CASE r # q \/ p = proposals[q]
      BY <1>7, <1>9, <2>1, <3>2 DEF OwnInv, ProposedByRun
    <3> QED BY <1>5, <3>1, <3>2
  <2> QED BY <2>1 DEF ProposedByRun
<1> QED BY <1>10, <1>11

\* Every step keeps what is complete confirmed.
LEMMA OwnKept ==
  ASSUME CInv, OwnMessages, OwnInv, [Next]_vars
  PROVE  OwnInv'
<1>1. TypeOK /\ ConfirmedInv /\ outbox \subseteq outbox'
  BY OutboxGrows DEF CInv
<1>2. messages \in [Message -> MessageRow] /\ proposals \in [Run -> ProposalRow]
  BY <1>1 DEF TypeOK, MessageRow, ProposalRow
<1>3. ASSUME UNCHANGED <<messages, proposals>>
      PROVE  OwnInv'
  <2>1. \A r \in Run : NoneCompletes(r)
    BY <1>3 DEF NoneCompletes
  <2>2. \A r \in Run : ConfirmedOfRun(r)'
    BY <1>1, <1>3, <2>1, ConfirmedStays DEF OwnInv
  <2> QED BY <1>3, <2>2 DEF OwnInv, Begun, ProposedByRun
<1>4. ASSUME NEW q \in Posting, CreateMessage(q)
      PROVE  OwnInv'
  <2> DEFINE v == [status |-> "completed", run |-> q.run, thread |-> q.thread, content |-> {}]
  <2>1. /\ messages' = [messages EXCEPT ![q.message] = v] /\ proposals' = proposals
        /\ q.message \in Message /\ v.status = "completed"
    BY <1>4, ConversationAssumption DEF CreateMessage
  <2> HIDE DEF v
  <2>2. /\ messages'[q.message].status = "completed"
        /\ \A m \in Message : m # q.message => messages'[m] = messages[m]
    BY <1>2, <2>1
  <2>3. ASSUME NEW r \in Run
        PROVE  ConfirmedOfRun(r)'
    <3>1. q.message \notin proposals[r].finals /\ proposals[r].finals \subseteq Message
      BY <1>2 DEF OwnInv, ProposedByRun, OwnMessages, ProposalRow
    <3>2. NoneCompletes(r)
      BY <2>2, <3>1 DEF NoneCompletes
    <3> QED BY <1>1, <2>1, <3>2, ConfirmedStays DEF OwnInv
  <2>4. Begun'
    BY <2>2 DEF OwnInv, Begun
  <2> QED BY <2>1, <2>3, <2>4 DEF OwnInv, ProposedByRun
<1>5. ASSUME NEW w \in Worker, Accept(w)
      PROVE  OwnInv'
  <2>1. PICK e \in Announced : Project(e)
    BY <1>1, <1>5, WorkIsEvent DEF Accept
  <2>2. Begun'
    BY <1>1, <2>1, BegunProjected DEF OwnInv
  <2>3. e \in Event
    BY ConversationAssumption
  <2>4. CASE ProjectCompleted(e)
    BY <1>1, <2>2, <2>4, CompletedConfirms DEF OwnInv
  <2>5. CASE ProjectResult(e)
    BY <1>1, <2>2, <2>5, ResultConfirms DEF OwnInv
  <2>6. CASE ProjectStarted(e) \/ ProjectStopped(e)
    <3>1. e.message \in Message /\ proposals' = proposals
      BY <2>3, <2>6, EventFields DEF ProjectStarted, ProjectStopped
    <3>2. \A m \in Message : messages'[m].status = "completed" => messages'[m] = messages[m]
      <4>1. CASE ProjectStarted(e)
        BY <1>2, <3>1, <4>1 DEF ProjectStarted
      <4>2. CASE ProjectStopped(e)
        BY <1>2, <3>1, <4>2 DEF ProjectStopped, MessageRow
      <4> QED BY <2>6, <4>1, <4>2
    <3>3. \A r \in Run : NoneCompletes(r)
      BY <1>2, <3>2 DEF NoneCompletes, ProposalRow
    <3>4. \A r \in Run : ConfirmedOfRun(r)'
      BY <1>1, <3>1, <3>3, ConfirmedStays DEF OwnInv
    <3> QED BY <2>2, <3>1, <3>4 DEF OwnInv, ProposedByRun
  <2>7. CASE ProjectDelta(e) \/ ProjectNoMessages(e) \/ ProjectRequest(e) \/ ProjectCommitment(e)
    BY <1>3, <2>7 DEF ProjectDelta, ProjectNoMessages, ProjectRequest, ProjectCommitment
  <2> QED BY <2>1, <2>4, <2>5, <2>6, <2>7 DEF Project
<1>6. ASSUME ~\E q \in Posting : CreateMessage(q), ~\E w \in Worker : Accept(w)
      PROVE  UNCHANGED <<messages, proposals>>
  BY <1>6 DEF Next, CreateConversation, AnswerInput, Deliver, Nak, PruneChunks, Read, vars, rows
<1> QED BY <1>3, <1>4, <1>5, <1>6

\* Proposal before messages or after: with agents that complete their own
\* messages, a stored proposal is confirmed with the last of what it names.
THEOREM CompleteIsConfirmed == OwnMessages => (Spec => []ConfirmedWhenComplete)
<1> SUFFICES ASSUME OwnMessages PROVE Spec => []ConfirmedWhenComplete
  OBVIOUS
<1>1. Init => OwnInv
  BY DEF Init, OwnInv, Begun, ProposedByRun, ConfirmedOfRun, NoMessage, NoProposal
<1>2. CInv /\ OwnInv /\ [Next]_vars => OwnInv'
  BY OwnKept
<1>3. CInv /\ OwnInv => ConfirmedWhenComplete
  <2> SUFFICES ASSUME CInv, OwnInv, NEW r \in Run
               PROVE  LET p == proposals[r] IN
                      /\ p.finals # {} /\ Complete(p.finals, r, messages) => p.confirmed
                      /\ p.confirmed <=> \E x \in outbox : x.kind = "committed" /\ x.run = r
    BY DEF ConfirmedWhenComplete
  <2>1. ~proposals[r].confirmed => CommittedIn(outbox, r) = {}
    BY DEF CInv, ConfirmedInv
  <2>2. proposals[r].confirmed \in BOOLEAN
    BY DEF CInv, TypeOK
  <2> QED BY <2>1, <2>2 DEF OwnInv, ConfirmedOfRun, CommittedIn
<1> QED BY <1>1, <1>2, <1>3, ConversationInvariant, PTL DEF Spec

-----------------------------------------------------------------------------
(* The service implements MessageHistory                                    *)

StateOf == [m \in Message |-> messages[m].status]
TextOf == [m \in Message |-> messages[m].content]
ConfirmedOf == [r \in Run |-> UNION {x.messages : x \in CommittedIn(outbox, r)}]

LEMMA MappedMessages ==
  ASSUME CInv, [Next]_vars
  PROVE  \/ \E m \in Message : History!Begin(m) \/ History!End(m)
         \/ StateOf' = StateOf /\ TextOf' = TextOf
<1>1. CASE UNCHANGED messages
  BY <1>1 DEF StateOf, TextOf
<1>2. ASSUME NEW m \in Message, NEW v \in MessageRow,
             messages' = [messages EXCEPT ![m] = v], Moves(messages[m], v, chunks[m])
      PROVE  History!Begin(m) \/ History!End(m)
  <2> DEFINE old == messages[m]
  <2>1. StateOf' = [StateOf EXCEPT ![m] = v.status] /\ TextOf' = [TextOf EXCEPT ![m] = v.content]
    BY <1>2, RowIsMessage DEF StateOf, TextOf, CInv
  <2>2. StateOf[m] = old.status /\ TextOf[m] = old.content
    BY DEF StateOf, TextOf
  <2>3. chunks[m] \subseteq Chunk /\ (old.status \in {"absent", "streaming"} => old.content = {})
    BY RowIsMessage DEF CInv, TextInv
  <2> HIDE DEF old
  <2>4. CASE old.status = "absent" /\ v.status = "streaming"
    <3>1. v.content = {} /\ old.content = {}
      BY <1>2, <2>3, <2>4 DEF Moves, Final, old
    <3>2. TextOf' = TextOf
      BY <2>1, <2>2, <3>1 DEF TextOf
    <3> QED BY <2>1, <2>2, <2>4, <3>2 DEF History!Begin, StateOf, TextOf
  <2>5. CASE old.status = "absent" /\ v.status = "completed"
    <3>1. v.content = {}
      BY <1>2, <2>5 DEF Moves, old
    <3> QED BY <2>1, <2>2, <2>5, <3>1 DEF History!End, StateOf, TextOf
  <2>6. CASE old.status = "streaming"
    <3>1. v.status \in {"completed", "interrupted", "failed"} /\ v.content \in SUBSET Chunk
      BY <1>2, <2>3, <2>6 DEF Moves, Final, old
    <3> QED BY <2>1, <2>2, <2>6, <3>1 DEF History!End, StateOf, TextOf
  <2> QED BY <1>2, <2>4, <2>5, <2>6 DEF Moves, old
<1> QED BY <1>1, <1>2, MessageSteps DEF CInv

LEMMA MappedConfirmation ==
  ASSUME CInv, [Next]_vars
  PROVE  (\E r \in Run : History!Confirm(r)) \/ ConfirmedOf' = ConfirmedOf
<1>1. CASE outbox' = outbox
  BY <1>1 DEF ConfirmedOf, CommittedIn
<1>2. ASSUME NEW x, x.kind = "requested", outbox' = outbox \cup {x}
      PROVE  ConfirmedOf' = ConfirmedOf
  <2>1. \A r \in Run : CommittedIn(outbox', r) = CommittedIn(outbox, r)
    BY <1>2 DEF CommittedIn
  <2> QED BY <2>1 DEF ConfirmedOf, CommittedIn
<1>3. ASSUME NEW r \in Run, NEW M \in SUBSET Message,
             M # {}, \A m \in M : messages'[m].status = "completed",
             ~proposals[r].confirmed,
             outbox' = outbox \cup {[kind |-> "committed", run |-> r, messages |-> M]}
      PROVE  History!Confirm(r)
  <2> DEFINE n == [kind |-> "committed", run |-> r, messages |-> M]
  <2>1. CommittedIn(outbox, r) = {}
    BY <1>3 DEF CInv, ConfirmedInv
  <2>2. CommittedIn(outbox', r) = {n}
    BY <1>3, <2>1 DEF CommittedIn
  <2>3. \A q \in Run : q # r => CommittedIn(outbox', q) = CommittedIn(outbox, q)
    BY <1>3 DEF CommittedIn
  <2>4. ConfirmedOf[r] = {}
    BY <2>1 DEF ConfirmedOf
  <2>5. UNION {x.messages : x \in CommittedIn(outbox', r)} = M
    BY <2>2
  <2>6. ConfirmedOf' = [ConfirmedOf EXCEPT ![r] = M]
    BY <2>3, <2>5 DEF ConfirmedOf, CommittedIn
  <2>7. \A m \in M : StateOf'[m] = "completed"
    BY <1>3 DEF StateOf
  <2>8. History!Confirm(r)
          <=> /\ ConfirmedOf[r] = {}
              /\ \E K \in (SUBSET Message) \ {{}} :
                   /\ \A m \in K : StateOf'[m] = "completed"
                   /\ ConfirmedOf' = [ConfirmedOf EXCEPT ![r] = K]
    BY DEF History!Confirm, ConfirmedOf, StateOf, CommittedIn
  <2>9. M \in (SUBSET Message) \ {{}}
    <3>1. M # {}
      BY <1>3
    <3> HIDE DEF n
    <3> QED BY <3>1
  <2>10. \E K \in (SUBSET Message) \ {{}} :
           /\ \A m \in K : StateOf'[m] = "completed"
           /\ ConfirmedOf' = [ConfirmedOf EXCEPT ![r] = K]
    <3> WITNESS M \in (SUBSET Message) \ {{}}
    <3>1. \A m \in M : StateOf'[m] = "completed"
      BY <2>7
    <3>2. ConfirmedOf' = [ConfirmedOf EXCEPT ![r] = M]
      BY <2>6
    <3> QED BY <3>1, <3>2
  <2> QED BY <2>4, <2>8, <2>10, Zenon
<1> QED BY <1>1, <1>2, <1>3, OutboxSteps DEF CInv

\* Events that come twice, late or out of order never change a message that has
\* ended, and confirm a run once at most: the service implements MessageHistory.
THEOREM MessagesKeepTheirEnd == Spec => MessagesStayEnded
<1>1. Init => History!MInit
  BY DEF Init, NoMessage, History!MInit
<1>2. CInv /\ [Next]_vars => [History!MNext]_<<StateOf, TextOf, ConfirmedOf>>
  BY MappedMessages, MappedConfirmation DEF History!MNext, StateOf, TextOf, ConfirmedOf, CommittedIn
<1>3. [History!MNext]_<<StateOf, TextOf, ConfirmedOf>> => [History!MNext]_(History!mvars)
  BY DEF History!mvars, StateOf, TextOf, ConfirmedOf, CommittedIn
<1> QED BY <1>1, <1>2, <1>3, ConversationInvariant, PTL DEF Spec, MessagesStayEnded, History!MSpec
=============================================================================
