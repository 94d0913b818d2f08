---------------------------- MODULE Conversation ----------------------------
(***************************************************************************)
(* The Conversation Service (services/conversation-service): conversations *)
(* and messages of users, the projection of what runs announce, human      *)
(* input, the confirmation of results, the transactional outbox.           *)
(*                                                                         *)
(* Every transaction but the first of a conversation takes the row lock of *)
(* the conversation before it looks at anything else, so a transaction is  *)
(* one step.  Only the inbox is looked at before the lock: a delivery is   *)
(* two steps, and the primary key of the inbox decides at the second.      *)
(* A refused event is negatively acknowledged and delivered again.         *)
(***************************************************************************)
EXTENDS Integers, Sequences, FiniteSets

LOCAL INSTANCE Functions

CONSTANTS
  Thread,      \* threads; a conversation is named by its thread, which is unique
  Owner, Run, Message,
  Suspension,  \* suspensions; the identifier of an input request derives from it
  Chunk,       \* chunk numbers, 1..n
  Key,         \* idempotency keys
  Grant,       \* delegation grants
  Announced,   \* the events that attempts and the Runner announce
  Opening,     \* requests for a conversation
  Posting,     \* requests that post a user's message
  Responding,  \* answers to input requests
  Worker       \* deliveries that may be in progress at once

Event ==
  [kind : {"started", "interrupted", "failed"}, thread : Thread, run : Run, message : Message]
    \cup [kind : {"delta"}, thread : Thread, run : Run, message : Message, chunk : Chunk]
    \cup [kind : {"completed"}, thread : Thread, run : Run, message : Message, count : Nat]
    \cup [kind : {"result"}, thread : Thread, run : Run, finals : SUBSET Message]
    \cup [kind : {"request", "commitment"}, thread : Thread, run : Run, suspension : Suspension]

\* MessageStream of the SDK: what the writer of a message of n chunks sends.  It
\* has ended for the writer only when the send of its end returns: after one that
\* fails, its frame accepted or not, the completion is followed by an interruption.
Written(t, r, m, n, ends) ==
  LET Of(k) == [kind |-> k, thread |-> t, run |-> r, message |-> m]
  IN {Of("started")} \cup {Of(k) : k \in ends \ {"completed"}}
       \cup {[kind |-> "delta", thread |-> t, run |-> r, message |-> m, chunk |-> i] : i \in 1..n}
       \cup {[kind |-> k, thread |-> t, run |-> r, message |-> m, count |-> n] :
               k \in ends \cap {"completed"}}

\* propose_result, with the messages the agent takes for final
Proposed(t, r, finals) == [kind |-> "result", thread |-> t, run |-> r, finals |-> finals]

\* Agents that leave the choice of identifiers to the SDK, which draws them, write
\* and complete messages of their own run only and propose no user's message.
OfMessage(e) == e.kind \notin {"result", "request", "commitment"}
OwnMessages ==
  /\ \A d, e \in Announced : OfMessage(d) /\ OfMessage(e) /\ d.message = e.message => d.run = e.run
  /\ \A e \in Announced, q \in Posting : e.kind = "result" => q.message \notin e.finals

ASSUME ConversationAssumption ==
  /\ Chunk \subseteq Nat
  /\ Announced \subseteq Event
  /\ Opening \subseteq [owner : Owner, key : Key, thread : Thread]
  /\ Posting \subseteq [owner : Owner, key : Key, thread : Thread, message : Message,
                        run : Run, grant : Grant]
  /\ Responding \subseteq [owner : Owner, key : Key, suspension : Suspension, run : Run]
  /\ "none" \notin Grant \cup Owner \cup Run
  /\ Message \cap Suspension = {}   \* a trigger names its type besides its identifier

VARIABLES
  call,           \* the event each delivery is working on, past the inbox check
  conversations,  \* owner, last_sequence, delegation_grant_id
  messages,       \* status, run and content (a set of chunks) of each message
  chunks,         \* message_chunks
  requests,       \* input_requests
  commitments,    \* suspension_commitments: the run of each suspension
  proposals,      \* result_proposals of each run
  inbox,          \* inbox_events
  idempotency,    \* request_idempotency
  presented,      \* presentation_events, without their order
  view,           \* a reader of one conversation: what its three queries have seen
  outbox          \* outbox_events

rows == <<messages, chunks, requests, commitments, proposals, idempotency, outbox>>
vars == <<call, conversations, inbox, presented, view, rows>>

Final == {"completed", "interrupted", "failed"}
NoMessage == [status |-> "absent", run |-> "none", thread |-> "none", content |-> {}]
NoRequest == [state |-> "absent", run |-> "none", thread |-> "none", grant |-> "none"]
NoProposal == [finals |-> {}, thread |-> "none", confirmed |-> FALSE]
Free == [kind |-> "free"]
Unread == [todo |-> <<>>, found |-> {}, owed |-> {}]

Exists(t) == conversations[t].owner # "none"

Init ==
  /\ call = [w \in Worker |-> Free]
  /\ conversations = [t \in Thread |-> [owner |-> "none", sequence |-> 0, grant |-> "none"]]
  /\ messages = [m \in Message |-> NoMessage]
  /\ chunks = [m \in Message |-> {}]
  /\ requests = [s \in Suspension |-> NoRequest]
  /\ commitments = [s \in Suspension |-> "none"]
  /\ proposals = [r \in Run |-> NoProposal]
  /\ inbox = {}
  /\ idempotency = {}
  /\ presented = {}
  /\ view = Unread
  /\ outbox = {}

-----------------------------------------------------------------------------
(* Requests of users.  A key that was used before answers from its row; a   *)
(* key used for something else is refused and changes nothing.              *)
Row(o, op, k, digest) == [owner |-> o, operation |-> op, key |-> k, digest |-> digest]
Used(o, op, k) == \E x \in idempotency : x.owner = o /\ x.operation = op /\ x.key = k

\* _present: the update of the conversation row gives the next sequence number
Present(t, what) ==
  /\ conversations' = [conversations EXCEPT ![t].sequence = @ + 1]
  /\ presented' = presented \cup {[thread |-> t, what |-> what]}

\* Two first requests with one key both find no row; the unique thread and
\* the primary key of the idempotency row undo the one that comes second.
CreateConversation(q) ==
  /\ ~Used(q.owner, "create_conversation", q.key)
  /\ ~Exists(q.thread)
  /\ conversations' = [conversations EXCEPT ![q.thread].owner = q.owner]
  /\ idempotency' = idempotency \cup {Row(q.owner, "create_conversation", q.key, q.thread)}
  /\ UNCHANGED <<call, messages, chunks, requests, commitments, proposals,
                 inbox, presented, view, outbox>>

RunRequest(trigger, run, grant) ==
  [kind |-> "requested", trigger |-> trigger, run |-> run, grant |-> grant]

CreateMessage(q) ==
  /\ conversations[q.thread].owner = q.owner
  /\ ~Used(q.owner, q.thread, q.key)
  /\ messages[q.message].status = "absent"
  /\ messages' = [messages EXCEPT ![q.message] =
                    [status |-> "completed", run |-> q.run, thread |-> q.thread,
                     content |-> {}]]
  /\ conversations' = [conversations EXCEPT ![q.thread].sequence = @ + 1,
                                            ![q.thread].grant = q.grant]
  /\ presented' = presented \cup {[thread |-> q.thread,
                                  what |-> [kind |-> "posted", of |-> q.message]]}
  /\ outbox' = outbox \cup {RunRequest(q.message, q.run, q.grant)}
  /\ idempotency' = idempotency \cup {Row(q.owner, q.thread, q.key, q)}
  /\ UNCHANGED <<call, chunks, requests, commitments, proposals, inbox,
                 view>>

\* Mutant: an answered request takes another answer
MayAnswerAgain(x) == x.state \in {"pending", "answered"}
MayAnswer(x) == x.state = "pending"

\* The grant is the one the request was stored with
AnswerInput(q) ==
  LET x == requests[q.suspension] IN
  /\ x.state # "absent" /\ conversations[x.thread].owner = q.owner
  /\ ~Used(q.owner, q.suspension, q.key)
  /\ MayAnswer(x)
  /\ requests' = [requests EXCEPT ![q.suspension].state = "answered"]
  /\ Present(x.thread, [kind |-> "response", of |-> q.suspension])
  /\ outbox' = outbox \cup {RunRequest(q.suspension, q.run, x.grant)}
  /\ idempotency' = idempotency \cup {Row(q.owner, q.suspension, q.key, q)}
  /\ UNCHANGED <<call, messages, chunks, commitments, proposals, inbox,
                 view>>

-----------------------------------------------------------------------------
(* project: what one event does to the rows, under the conversation's lock  *)

\* Mutant: a message that was interrupted may still complete
StreamingOrStopped(e) == messages[e.message].status \in {"streaming", "interrupted"}
Streaming(e) == messages[e.message].status = "streaming"
                  /\ messages[e.message].thread = e.thread
Complete(M, r, ms) == \A m \in M : ms[m].status = "completed" /\ ms[m].run = r

\* Is the stored proposal complete with these messages?  Mutant: counted before
\* the message itself is marked
ProposalCompleteBefore(r, ms) ==
  proposals[r].finals # {} /\ Complete(proposals[r].finals, r, messages)
ProposalComplete(r, ms) ==
  proposals[r].finals # {} /\ Complete(proposals[r].finals, r, ms)

\* _confirm_messages, for the identifiers its caller has at hand
ConfirmMessages(r, M) ==
  /\ proposals' = [proposals EXCEPT ![r].confirmed = TRUE]
  /\ outbox' = IF proposals[r].confirmed THEN outbox
               ELSE outbox \cup {[kind |-> "committed", run |-> r, messages |-> M]}

ProjectStarted(e) ==
  /\ e.kind = "started"
  /\ messages' = IF messages[e.message].status # "absent" THEN messages
                 ELSE [messages EXCEPT ![e.message] =
                         [status |-> "streaming", run |-> e.run, thread |-> e.thread,
                          content |-> {}]]
  /\ Present(e.thread, e)
  /\ UNCHANGED <<chunks, requests, commitments, proposals, outbox>>

\* Only an agent that sends one chunk number with two contents is refused
\* besides; the contents of a message are fixed here.
ProjectDelta(e) ==
  /\ e.kind = "delta" /\ Streaming(e)
  /\ chunks' = [chunks EXCEPT ![e.message] = @ \cup {e.chunk}]
  /\ Present(e.thread, e)
  /\ UNCHANGED <<messages, requests, commitments, proposals, outbox>>

\* validate_completion: every chunk is there, and no other
ProjectCompleted(e) ==
  /\ e.kind = "completed" /\ Streaming(e)
  /\ chunks[e.message] = 1..e.count
  /\ messages' = [messages EXCEPT ![e.message].status = "completed",
                                  ![e.message].content = chunks[e.message]]
  /\ IF ProposalComplete(e.run, messages')
     THEN ConfirmMessages(e.run, proposals[e.run].finals)
     ELSE UNCHANGED <<proposals, outbox>>
  /\ Present(e.thread, e)
  /\ UNCHANGED <<chunks, requests, commitments>>

ProjectStopped(e) ==
  /\ e.kind \in {"interrupted", "failed"} /\ Streaming(e)
  /\ messages' = [messages EXCEPT ![e.message].status = e.kind,
                                  ![e.message].content = chunks[e.message]]
  /\ Present(e.thread, e)
  /\ UNCHANGED <<chunks, requests, commitments, proposals, outbox>>

\* A proposal without messages to confirm is only noted
ProjectNoMessages(e) ==
  /\ e.kind = "result" /\ e.finals = {}
  /\ UNCHANGED <<messages, chunks, requests, commitments, proposals, outbox,
                 conversations, presented>>

\* The first proposal of a run is stored, also when a later attempt makes another
ProjectResult(e) ==
  /\ e.kind = "result" /\ e.finals # {}
  /\ LET p == IF proposals[e.run].finals # {} THEN proposals[e.run]
              ELSE [finals |-> e.finals, thread |-> e.thread, confirmed |-> FALSE]
         confirm == Complete(e.finals, e.run, messages) /\ ~p.confirmed
     IN /\ proposals' = [proposals EXCEPT ![e.run] = [p EXCEPT !.confirmed = p.confirmed \/ confirm]]
        /\ outbox' = IF ~confirm THEN outbox
                     ELSE outbox \cup {[kind |-> "committed", run |-> e.run,
                                        messages |-> e.finals]}
  /\ Present(e.thread, e)
  /\ UNCHANGED <<messages, chunks, requests, commitments>>

\* _reconcile_suspension, after the row of the request or the commitment is in
\* place: the request is opened once, by whichever of the two comes second.
\* Mutant: a request is open as soon as it is there
OpensAtOnce(x, committed) == x.state = "reserved"
Opens(x, committed) == x.state = "reserved" /\ committed # "none"

Reconcile(s, x, committed) ==
  IF Opens(x, committed)
  THEN /\ requests' = [requests EXCEPT ![s] = [x EXCEPT !.state = "pending"]]
       /\ Present(x.thread, [kind |-> "opened", of |-> s])
  ELSE /\ requests' = [requests EXCEPT ![s] = x]
       /\ UNCHANGED <<conversations, presented>>

\* Both must name the same run, or the event is refused
ProjectRequest(e) ==
  LET s == e.suspension
      x == IF requests[s].state # "absent" THEN requests[s]
           ELSE [state |-> "reserved", run |-> e.run, thread |-> e.thread,
                 grant |-> conversations[e.thread].grant]
  IN /\ e.kind = "request"
     /\ commitments[s] \in {"none", x.run}
     /\ Reconcile(s, x, commitments[s])
     /\ UNCHANGED <<messages, chunks, commitments, proposals, outbox>>

ProjectCommitment(e) ==
  LET s == e.suspension IN
  /\ e.kind = "commitment"
  /\ commitments[s] \in {"none", e.run}
  /\ requests[s].state # "absent" => requests[s].run = e.run
  /\ commitments' = [commitments EXCEPT ![s] = e.run]
  /\ Reconcile(s, requests[s], e.run)
  /\ UNCHANGED <<messages, chunks, proposals, outbox>>

Project(e) ==
  \/ ProjectStarted(e) \/ ProjectDelta(e) \/ ProjectCompleted(e) \/ ProjectStopped(e)
  \/ ProjectNoMessages(e) \/ ProjectResult(e)
  \/ ProjectRequest(e) \/ ProjectCommitment(e)

-----------------------------------------------------------------------------
(* Delivery                                                                 *)

\* Any announced event may be delivered, in any order; an event not announced
\* yet, or lost when the stream of deltas drops it, is one not delivered.
\* Acknowledgements may be lost, so it may come again at any time, also while an
\* earlier delivery is at work; the delivery of an event that is in the inbox is
\* acknowledged and changes nothing.
Deliver(w, e) ==
  /\ call[w] = Free
  /\ e \in Announced \ inbox
  /\ call' = [call EXCEPT ![w] = e]
  /\ UNCHANGED <<conversations, inbox, presented, view, rows>>

\* The primary key of the inbox row.  Mutant: ON CONFLICT DO NOTHING
InsertOrIgnore(e) == TRUE
FirstInInbox(e) == e \notin inbox

\* The transaction of the delivery commits
Accept(w) ==
  LET e == call[w] IN
  /\ e # Free
  /\ FirstInInbox(e)
  /\ Exists(e.thread)
  /\ Project(e)
  /\ UNCHANGED idempotency
  /\ inbox' = inbox \cup {e}
  /\ call' = [call EXCEPT ![w] = Free]
  /\ UNCHANGED <<view>>

\* Any failure: a refused event, the inbox key of another delivery, a crash
Nak(w) ==
  /\ call[w] # Free
  /\ call' = [call EXCEPT ![w] = Free]
  /\ UNCHANGED <<conversations, inbox, presented, view, rows>>

\* retention.prune: chunks of messages that have ended
PruneChunks(m) ==
  /\ messages[m].status \in Final /\ chunks[m] # {}
  /\ chunks' = [chunks EXCEPT ![m] = {}]
  /\ UNCHANGED <<call, conversations, inbox, presented, view, messages, requests,
                 commitments, proposals, idempotency, outbox>>

\* projection: the conversation with its last_sequence, then its messages, then
\* its input requests, each by a query of its own.  The reader follows the events
\* after that sequence only, so what those before have told must be in the
\* projection: <<kind, of what, chunk>>.  A delta is a "text" when the end of its
\* message was told too, otherwise a "part" of a message that still streams.
\* Proposals are told too, but show nothing.
Kinds(seen, K) == {p.what : p \in {q \in seen : q.what.kind \in K}}

MessagesIn(seen) ==
  LET over == {e.message : e \in Kinds(seen, Final)} IN
  {<<"begun", e.message, 0>> : e \in Kinds(seen, {"started"})}
    \cup {<<"ended", m, 0>> : m \in over \cup {p.of : p \in Kinds(seen, {"posted"})}}
    \cup {<<IF e.message \in over THEN "text" ELSE "part", e.message, e.chunk>> :
             e \in Kinds(seen, {"delta"})}
RequestsIn(seen) ==
  {<<"opened", p.of, 0>> : p \in Kinds(seen, {"opened"})}
    \cup {<<"answered", p.of, 0>> : p \in Kinds(seen, {"response"})}

\* What the rows show: the text of a message is stored at its end, until then it
\* is empty
MessagesShown ==
  {<<"begun", m, 0>> : m \in {n \in Message : messages[n].status # "absent"}}
    \cup {<<"ended", m, 0>> : m \in {n \in Message : messages[n].status \in Final}}
    \cup UNION {{"text", "part"} \X {m} \X messages[m].content : m \in Message}
RequestsShown ==
  {<<"opened", s, 0>> : s \in {x \in Suspension : requests[x].state \in {"pending", "answered"}}}
    \cup {<<"answered", s, 0>> : s \in {x \in Suspension : requests[x].state = "answered"}}

\* The queries in their order.  Mutant: the conversation after its messages
MessagesFirst == <<"messages", "conversation", "inputs">>
Queries == <<"conversation", "messages", "inputs">>

\* The queries left of this load, or those of the next
Due == IF view.todo = <<>> THEN Queries ELSE view.todo

\* A query whose answer is kept takes off what is owed, or, before the sequence
\* is known, is remembered
Answer(shown) ==
  view' = [todo |-> Tail(Due),
           found |-> IF "conversation" \in Range(Tail(Due)) THEN shown ELSE {},
           owed |-> view.owed \ shown]

\* Of what its sequence covers, the reader minds any one thing
ReadConversation(t) ==
  LET seen == {p \in presented : p.thread = t}
      told == MessagesIn(seen) \cup RequestsIn(seen)
  IN /\ Exists(t)
     /\ \E minded \in {{x} : x \in told} \cup {{}} :
          view' = [todo |-> Tail(Due), found |-> {}, owed |-> minded \ view.found]

ReadMessages == Answer(MessagesShown)
ReadInputs == Answer(RequestsShown)

Read ==
  /\ \/ Head(Due) = "conversation" /\ \E t \in Thread : ReadConversation(t)
     \/ Head(Due) = "messages" /\ ReadMessages
     \/ Head(Due) = "inputs" /\ ReadInputs
  /\ UNCHANGED <<call, conversations, inbox, presented, rows>>

Next ==
  \/ \E q \in Opening : CreateConversation(q)
  \/ \E q \in Posting : CreateMessage(q)
  \/ \E q \in Responding : AnswerInput(q)
  \/ \E w \in Worker, e \in Announced : Deliver(w, e)
  \/ \E w \in Worker : Accept(w) \/ Nak(w)
  \/ \E m \in Message : PruneChunks(m)
  \/ Read

Spec == Init /\ [][Next]_vars

-----------------------------------------------------------------------------
TypeOK ==
  /\ call \in [Worker -> Announced \cup {Free}]
  /\ conversations \in [Thread -> [owner : Owner \cup {"none"}, sequence : Nat,
                                   grant : Grant \cup {"none"}]]
  /\ messages \in [Message -> [status : {"absent", "streaming"} \cup Final,
                                run : Run \cup {"none"}, thread : Thread \cup {"none"},
                                content : SUBSET Nat]]
  /\ chunks \in [Message -> SUBSET Chunk]
  /\ requests \in [Suspension -> [state : {"absent", "reserved", "pending", "answered"},
                                   run : Run \cup {"none"}, thread : Thread \cup {"none"},
                                   grant : Grant \cup {"none"}]]
  /\ commitments \in [Suspension -> Run \cup {"none"}]
  /\ proposals \in [Run -> [finals : SUBSET Message, thread : Thread \cup {"none"},
                             confirmed : BOOLEAN]]
  /\ inbox \subseteq Announced

History ==
  INSTANCE MessageHistory
    WITH state <- [m \in Message |-> messages[m].status],
         text <- [m \in Message |-> messages[m].content],
         confirmed <- [r \in Run |-> UNION {x.messages :
                        x \in {y \in outbox : y.kind = "committed" /\ y.run = r}}]

\* Whatever is delivered twice, late or out of order, by whichever attempt, a
\* message that has ended keeps its state and text, and a run is confirmed at
\* most once, for messages that had completed by then.
MessagesStayEnded == History!MSpec

\* The sequence numbers of a conversation are used up by different things: no
\* event is presented twice, also when two deliveries of it are at work.
PresentedOnce ==
  \A t \in Thread : conversations[t].sequence = Cardinality({p \in presented : p.thread = t})

\* The order in which a proposal and its messages arrive does not matter: the
\* stored proposal of a run is confirmed as soon as all it names are completed.
ConfirmedWhenComplete ==
  \A r \in Run :
    LET p == proposals[r] IN
    /\ p.finals # {} /\ Complete(p.finals, r, messages) => p.confirmed
    /\ p.confirmed <=> \E x \in outbox : x.kind = "committed" /\ x.run = r

\* An input request is open to the user exactly when both the request and the
\* commitment of its suspension have been taken in, in either order.
OpenWhenCommitted ==
  \A s \in Suspension :
    requests[s].state \in {"pending", "answered"}
      <=> requests[s].state # "absent" /\ commitments[s] # "none"

\* One effective response: an answered request, and a user's message, has asked
\* for one run and no more, and nothing else has.
OneRunPerTrigger ==
  LET asked == {x \in outbox : x.kind = "requested"} IN
  /\ \A x, y \in asked : x.trigger = y.trigger => x = y
  /\ \A s \in Suspension :
       requests[s].state = "answered" <=> \E x \in asked : x.trigger = s
  /\ \A x \in asked : x.trigger \in Message => messages[x.trigger].status = "completed"

\* A reader misses nothing but parts of messages that still stream.  What comes
\* before the sequence the projection names, and so will not be seen as an event,
\* is in the projection: each message begun and ended, the whole text of those
\* that have ended, each question and its answer.  The parts left out belong to
\* messages whose end is yet to come as an event, on which clients load the
\* projection again (App.tsx).
NoGapForReaders == view.todo = <<>> => \A x \in view.owed : x[1] = "part"

(* What the repository says and the code does not keep                      *)

\* README.md of the service: "Proposal and message arrival order does not
\* matter".  Every proposal that was taken in is confirmed once its messages
\* are completed, also the one of an attempt that followed another.
ArrivalOrderIrrelevant ==
  \A e \in inbox :
    e.kind = "result" /\ e.finals # {} /\ Complete(e.finals, e.run, messages)
      => proposals[e.run].confirmed

\* MESSAGING.md: a client that reconnects "first reads the authoritative
\* Conversation Service projection and then continues live delivery without a
\* gap".  The projection shows no text of a message that still streams.
DeliveryWithoutGap == view.todo = <<>> => view.owed = {}
=============================================================================
