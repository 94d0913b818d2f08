----------------------------- MODULE Admission -----------------------------
(***************************************************************************)
(* How a run request reaches the Runner: the outbox of the Conversation    *)
(* Service and the task that publishes it, the JetStream work queue, the   *)
(* consume_admissions task of the Runner and its calls to the Registry,    *)
(* the dead letters, their replay and their retention.                     *)
(*                                                                         *)
(* The run request is the Registry's resolve request: its key is the       *)
(* identifier of the outbox event.  A delivery carries its number, which   *)
(* counts up to MaxDeliveries and stays there: the code asks whether it    *)
(* has been reached.  The queue keeps a request for a week; the model      *)
(* keeps it until it is acknowledged.                                      *)
(***************************************************************************)
EXTENDS Registry

CONSTANTS
  Offered,        \* releases published before, as publish requests
  Granted,        \* access given before, as grant requests
  RunnerCall,     \* the calls of the Runner's HTTP client, a subset of Caller
  Copy,           \* messages the stream may store for one event
  MaxDeliveries,  \* RUNNER_CONSUMER_MAX_DELIVERIES
  MaxRestarts     \* bound on the restarts of the two services

ASSUME AdmissionAssumption ==
  /\ Offered \subseteq Publishing /\ Granted \subseteq Granting
  /\ RunnerCall \subseteq Caller
  /\ MaxDeliveries \in Nat \ {0}
  /\ MaxRestarts \in Nat

Event == {q \in Asked : q.op = "resolve"}
Delivery == [event : Event, copy : Copy, number : 1..MaxDeliveries]

VARIABLES
  posted,       \* run requests the Conversation Service wrote to its outbox
  pending,      \* run requests whose outbox row is not published
  publisher,    \* the publish_loop of the Conversation Service
  window,       \* events JetStream still recognises as duplicates
  stream,       \* the copies of each event: absent, stored or acknowledged
  sent,         \* how often JetStream delivered each copy
  consumer,     \* the consume_admissions task
  admitted,     \* run requests with a row in runs
  deadletters,  \* runner_dead_letters of each event
  restarts      \* restarts of the two services so far

delivery == <<window, stream, sent>>
runner == <<consumer, admitted>>
vars == <<rvars, posted, pending, publisher, delivery, runner, deadletters, restarts>>

Waiting == [pc |-> "idle"]
Ended == [pc |-> "ended"]

Init ==
  /\ releases = [d \in Release |->
       IF \E q \in Offered : q.release = d
       THEN ReleaseOf(CHOOSE q \in Offered : q.release = d) ELSE NoRelease]
  /\ grants = [g \in AccessGrant |->
       IF \E q \in Granted : q.grant = g
       THEN GrantOf(CHOOSE q \in Granted : q.grant = g) ELSE NoGrant]
  /\ default = [a \in Agent |-> "none"] /\ specs = [r \in Run |-> NoSpec]
  /\ idempotency = {} /\ call = [c \in Caller |-> Idle] /\ violations = {}
  /\ posted = {} /\ pending = {} /\ publisher = Waiting
  /\ window = {}
  /\ stream = [e \in Event |-> [c \in Copy |-> "absent"]]
  /\ sent = [e \in Event |-> [c \in Copy |-> 0]]
  /\ consumer = Waiting /\ admitted = {}
  /\ deadletters = [e \in Event |-> "none"]
  /\ restarts = 0

-----------------------------------------------------------------------------
(* The Conversation Service                                                 *)

\* A message in a conversation with a release of the agent: the release is not
\* looked at again.
Post(e) ==
  /\ releases[e.release].status # "absent"
  /\ e \notin posted
  /\ posted' = posted \cup {e} /\ pending' = pending \cup {e}
  /\ UNCHANGED <<rvars, publisher, delivery, runner, deadletters, restarts>>

\* JetStream stores a message once per identifier and duplicate window
Stores(e, c) ==
  IF e \in window THEN UNCHANGED delivery
  ELSE /\ stream[e][c] = "absent"
       /\ stream' = [stream EXCEPT ![e][c] = "stored"]
       /\ window' = window \cup {e}
       /\ UNCHANGED sent

SendPending(e, c) ==
  /\ publisher = Waiting /\ e \in pending
  /\ Stores(e, c)
  /\ publisher' = [pc |-> "mark", event |-> e]
  /\ UNCHANGED <<rvars, posted, pending, runner, deadletters, restarts>>

\* Mutant: the row is marked before the message is sent
SendFailsMarked(e, c) ==
  /\ publisher = Waiting /\ e \in pending
  /\ Stores(e, c) \/ UNCHANGED delivery
  /\ publisher' = Ended /\ pending' = pending \ {e}
  /\ UNCHANGED <<rvars, posted, runner, deadletters, restarts>>
\* The exception ends the loop, whether or not the message was stored
SendFails(e, c) ==
  /\ publisher = Waiting /\ e \in pending
  /\ Stores(e, c) \/ UNCHANGED delivery
  /\ publisher' = Ended
  /\ UNCHANGED <<rvars, posted, pending, runner, deadletters, restarts>>

Mark ==
  /\ publisher.pc = "mark"
  /\ pending' = pending \ {publisher.event}
  /\ publisher' = Waiting
  /\ UNCHANGED <<rvars, posted, delivery, runner, deadletters, restarts>>

MarkFails ==
  /\ publisher.pc = "mark"
  /\ publisher' = Ended
  /\ UNCHANGED <<rvars, posted, pending, delivery, runner, deadletters, restarts>>

RestartPublisher ==
  /\ publisher # Waiting
  /\ restarts < MaxRestarts
  /\ restarts' = restarts + 1
  /\ publisher' = Waiting
  /\ UNCHANGED <<rvars, posted, pending, delivery, runner, deadletters>>

-----------------------------------------------------------------------------
(* JetStream                                                                *)

CloseWindow(e) ==
  /\ e \in window
  /\ window' = window \ {e}
  /\ UNCHANGED <<rvars, posted, pending, publisher, stream, sent, runner, deadletters, restarts>>

-----------------------------------------------------------------------------
(* The consume_admissions task                                              *)

NextNumber(n) == IF n < MaxDeliveries THEN n + 1 ELSE n

Working(pc, d) == [pc |-> pc, delivery |-> d]
Turns(pc) == consumer' = Working(pc, consumer.delivery)

\* The first delivery, the one after a nak, and the one after an ack that did
\* not reach JetStream in time
Fetch(e, c) ==
  /\ consumer = Waiting
  /\ stream[e][c] = "stored"
  /\ LET n == NextNumber(sent[e][c]) IN
       /\ sent' = [sent EXCEPT ![e][c] = n]
       /\ consumer' = Working("resolve", [event |-> e, copy |-> c, number |-> n])
  /\ UNCHANGED <<rvars, posted, pending, publisher, window, stream, admitted, deadletters, restarts>>

\* registry.resolve: the request is on its way to the Registry
CallRegistry(c) ==
  /\ consumer.pc = "resolve"
  /\ Receive(c, consumer.delivery.event)
  /\ consumer' = [pc |-> "called", delivery |-> consumer.delivery, caller |-> c]
  /\ UNCHANGED <<posted, pending, publisher, delivery, admitted, deadletters, restarts>>

\* Mutant: a refusal is taken for an answer
AnsweredAnyhow ==
  /\ consumer.pc = "called"
  /\ ~InProgress(consumer.caller)
  /\ Turns("admit")
  /\ call' = [call EXCEPT ![consumer.caller] = Idle]
  /\ UNCHANGED <<registry, posted, pending, publisher, delivery, admitted, deadletters, restarts>>
\* The specification is there and its signature verified, or the call is refused
Answered ==
  /\ consumer.pc = "called"
  /\ ~InProgress(consumer.caller)
  /\ Turns(IF call[consumer.caller].answer = "stored" THEN "admit" ELSE "failed")
  /\ call' = [call EXCEPT ![consumer.caller] = Idle]
  /\ UNCHANGED <<registry, posted, pending, publisher, delivery, admitted, deadletters, restarts>>

\* No token, no connection, no answer in five seconds: the call itself goes on
ResolveFails ==
  /\ consumer.pc \in {"resolve", "called"}
  /\ Turns("failed")
  /\ UNCHANGED <<rvars, posted, pending, publisher, delivery, admitted, deadletters, restarts>>

\* The run exists afterwards; one admitted before is the answer to its key
Admit ==
  /\ consumer.pc = "admit"
  /\ admitted' = admitted \cup {consumer.delivery.event}
  /\ Turns("ack")
  /\ UNCHANGED <<rvars, posted, pending, publisher, delivery, deadletters, restarts>>

\* The transaction is rolled back, or committed without the caller knowing
AdmitFails ==
  /\ consumer.pc = "admit"
  /\ admitted' \in {admitted, admitted \cup {consumer.delivery.event}}
  /\ Turns("failed")
  /\ UNCHANGED <<rvars, posted, pending, publisher, delivery, deadletters, restarts>>

\* Mutant: one delivery more
ExhaustedAfter(d) == d.number > MaxDeliveries
Exhausted(d) == d.number >= MaxDeliveries

Nak ==
  /\ consumer.pc = "failed" /\ ~Exhausted(consumer.delivery)
  /\ consumer' = Waiting
  /\ UNCHANGED <<rvars, posted, pending, publisher, delivery, admitted, deadletters, restarts>>

\* The row of the dead letter; one that is there stays as it is, replayed or not
DeadLetter ==
  /\ consumer.pc = "failed" /\ Exhausted(consumer.delivery)
  /\ deadletters' = [deadletters EXCEPT ![consumer.delivery.event] =
                       IF @ \in {"none", "pruned"} THEN "pending" ELSE @]
  /\ Turns("diagnose")
  /\ UNCHANGED <<rvars, posted, pending, publisher, delivery, admitted, restarts>>

Diagnose ==
  /\ consumer.pc = "diagnose"
  /\ Turns("ack")
  /\ UNCHANGED <<rvars, posted, pending, publisher, delivery, admitted, deadletters, restarts>>

\* An ack is not waited for: it may be lost
Ack ==
  /\ consumer.pc = "ack"
  /\ \/ LET e == consumer.delivery.event
            c == consumer.delivery.copy
        IN /\ stream' = [stream EXCEPT ![e][c] = "acked"]
           /\ sent' = [sent EXCEPT ![e][c] = 0]
     \/ UNCHANGED <<stream, sent>>
  /\ consumer' = Waiting
  /\ UNCHANGED <<rvars, posted, pending, publisher, window, admitted, deadletters, restarts>>

\* What is raised outside the try ends the task: a nak, an ack, a dead letter
ConsumerEnds ==
  /\ consumer.pc \in {"failed", "diagnose", "ack"}
  /\ consumer' = Ended
  /\ UNCHANGED <<rvars, posted, pending, publisher, delivery, admitted, deadletters, restarts>>

RestartConsumer ==
  /\ consumer # Waiting
  /\ restarts < MaxRestarts
  /\ restarts' = restarts + 1
  /\ consumer' = Waiting
  /\ UNCHANGED <<rvars, posted, pending, publisher, delivery, admitted, deadletters>>

-----------------------------------------------------------------------------
(* The operator's replay, and retention                                     *)

\* The original message under its original identifier, then the row; of a row
\* replayed before nothing is published.  The transaction may fail after the
\* message is out.
ReplayDeadLetter(e, c) ==
  /\ deadletters[e] = "pending"
  /\ Stores(e, c)
  /\ deadletters' \in {deadletters, [deadletters EXCEPT ![e] = "replayed"]}
  /\ UNCHANGED <<rvars, posted, pending, publisher, runner, restarts>>

Prune(e) ==
  /\ deadletters[e] = "replayed"
  /\ deadletters' = [deadletters EXCEPT ![e] = "pruned"]
  /\ UNCHANGED <<rvars, posted, pending, publisher, delivery, runner, restarts>>

-----------------------------------------------------------------------------
environment == <<posted, pending, publisher, delivery, runner, deadletters, restarts>>

RegistryStep(c) == Step(c) /\ UNCHANGED environment
Administer(c, q) ==
  /\ c \notin RunnerCall /\ q.op # "resolve"
  /\ Receive(c, q) /\ UNCHANGED environment

Publisher == Mark \/ MarkFails \/ \E e \in Event, c \in Copy : SendPending(e, c) \/ SendFails(e, c)
Consumer ==
  \/ \E e \in Event, c \in Copy : Fetch(e, c)
  \/ \E c \in RunnerCall : CallRegistry(c)
  \/ Answered \/ ResolveFails \/ Admit \/ AdmitFails
  \/ Nak \/ DeadLetter \/ Diagnose \/ Ack \/ ConsumerEnds

Next ==
  \/ \E c \in Caller : RegistryStep(c) \/ \E q \in Asked : Administer(c, q)
  \/ \E e \in Event :
       Post(e) \/ CloseWindow(e) \/ Prune(e)
         \/ \E c \in Copy : ReplayDeadLetter(e, c)
  \/ Publisher \/ Consumer \/ RestartPublisher \/ RestartConsumer

\* Tasks that have not ended go on, with what JetStream delivers until it is
\* acknowledged; the Registry finishes its transactions.
Fairness ==
  /\ WF_vars(Publisher) /\ WF_vars(Consumer)
  /\ \A c \in RunnerCall : WF_vars(RegistryStep(c))

Spec == Init /\ [][Next]_vars /\ Fairness

-----------------------------------------------------------------------------
TypeOK ==
  /\ RTypeOK
  /\ pending \subseteq posted /\ posted \subseteq Event
  /\ publisher \in {Waiting, Ended} \cup [pc : {"mark"}, event : Event]
  /\ window \subseteq Event
  /\ stream \in [Event -> [Copy -> {"absent", "stored", "acked"}]]
  /\ sent \in [Event -> [Copy -> 0..MaxDeliveries]]
  /\ consumer \in {Waiting, Ended}
       \cup [pc : {"resolve", "admit", "failed", "diagnose", "ack"}, delivery : Delivery]
       \cup [pc : {"called"}, delivery : Delivery, caller : RunnerCall]
  /\ admitted \subseteq Event
  /\ deadletters \in [Event -> {"none", "pending", "replayed", "pruned"}]
  /\ restarts \in 0..MaxRestarts

OnItsWay(e) == e \in pending \/ \E c \in Copy : stream[e][c] = "stored"
Settled(e) == e \in admitted \/ deadletters[e] # "none"

\* Whatever fails or restarts between the outbox, the stream, the Registry and
\* the Runner, a run request is admitted, has a dead letter or is still on its
\* way; only the retention of a dead letter that was replayed ends this.
NoRequestLost == \A e \in posted : OnItsWay(e) \/ Settled(e)

\* The Runner admits a run only with the specification the Registry keeps for
\* it, whichever of its repeated calls for it made it.
AdmittedAsSpecified ==
  \A e \in admitted : specs[e.run] = [release |-> e.release, user |-> e.user]

\* A run request is admitted or set aside as a dead letter, unless one of the
\* tasks it needs has ended.
EveryRequestSettles ==
  \A e \in Event :
    e \in posted ~> (Settled(e) \/ publisher = Ended \/ consumer = Ended)

\* OPERATIONS.md: a replay republishes the stored request, and retention never
\* deletes a dead letter that is pending: one that cannot be replayed any more
\* was admitted.
ReplayTakesEffect ==
  \A e \in posted : OnItsWay(e) \/ e \in admitted \/ deadletters[e] = "pending"
=============================================================================
