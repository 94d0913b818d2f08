-------------------------- MODULE AdmissionProofs --------------------------
(***************************************************************************)
(* Proofs about Admission: a run request is not lost between the outbox    *)
(* and the Runner, and a run is admitted with the specification that the   *)
(* Registry keeps.                                                         *)
(*                                                                         *)
(* The first needs what each part knows of a request it lets go: JetStream *)
(* takes an event for a duplicate, the publisher marks its row and the     *)
(* consumer acknowledges its message only when the request has got so far. *)
(* The second follows a specification from the transaction that writes or  *)
(* finds it to the answer that the consumer takes.                         *)
(***************************************************************************)
EXTENDS Admission, RegistryProofs

-----------------------------------------------------------------------------
(* The invariant                                                            *)

\* The request is in the stream, or done with
Stored(e) == \E c \in Copy : stream[e][c] = "stored"
Arrived(e) == Stored(e) \/ Settled(e)

WindowArrived == \A e \in window : Arrived(e)
MarkArrived == publisher.pc = "mark" => Arrived(publisher.event)
AckSettled == consumer.pc \in {"ack", "diagnose"} => Settled(consumer.delivery.event)
PostedKept == \A e \in posted : e \in pending \/ Arrived(e)
DeliveryInv == WindowArrived /\ MarkArrived /\ AckSettled /\ PostedKept

\* The specification of the run is the one this request asks for
Specified(q) == specs[q.run] = [release |-> q.release, user |-> q.user]

AsksAsked == \A c \in Caller : InProgress(c) => call[c].request \in Asked
StoredSpecified == \A q \in idempotency : q.op = "resolve" => Specified(q)
FindsRow(x) == x.pc = "write" /\ x.request.op = "resolve" /\ x.found # "none"
FoundSpecified == \A c \in Caller : FindsRow(call[c]) => Specified(call[c].request)
ResolveInv == AsksAsked /\ StoredSpecified /\ FoundSpecified

\* The call the consumer waits for, and the answer it takes
Returned == [pc : {"idle"}, answer : {"stored", "refused"}]
RunnerAsks ==
  consumer.pc = "called" =>
    IF InProgress(consumer.caller)
    THEN call[consumer.caller].request = consumer.delivery.event
    ELSE /\ call[consumer.caller] \in Returned
         /\ call[consumer.caller].answer = "stored" => Specified(consumer.delivery.event)
AdmitSpecified == consumer.pc = "admit" => Specified(consumer.delivery.event)
SpecInv == ResolveInv /\ RunnerAsks /\ AdmitSpecified /\ AdmittedAsSpecified

AInv == TypeOK /\ DeliveryInv /\ SpecInv

-----------------------------------------------------------------------------
(* The steps                                                                *)

\* What goes on without the Registry
Posting == \E e \in Event : Post(e)
Sending ==
  \/ Mark \/ MarkFails \/ RestartPublisher
  \/ \E e \in Event, c \in Copy : SendPending(e, c) \/ SendFails(e, c)
Keeping ==
  \/ \E e \in Event : CloseWindow(e) \/ Prune(e)
  \/ \E e \in Event, c \in Copy : ReplayDeadLetter(e, c)
Consuming ==
  \/ \E e \in Event, c \in Copy : Fetch(e, c)
  \/ ResolveFails \/ Admit \/ AdmitFails \/ Nak \/ DeadLetter \/ Diagnose \/ Ack
  \/ ConsumerEnds \/ RestartConsumer
Calling ==
  \/ \E c \in Caller : RegistryStep(c)
  \/ \E c \in Caller, q \in Asked : Administer(c, q)
  \/ \E c \in RunnerCall : CallRegistry(c)
  \/ Answered

\* The steps by who takes them.
LEMMA NextCases ==
  Next <=> Calling \/ Posting \/ Sending \/ Keeping \/ Consuming
  BY DEF Next, Calling, Posting, Sending, Keeping, Consuming, Publisher, Consumer

\* An event of the outbox is one of the resolve requests the Registry may be asked.
LEMMA EventIsRequest ==
  ASSUME NEW e \in Event
  PROVE  /\ e \in Asked /\ e \in Request /\ e.op = "resolve"
         /\ e.run \in Run /\ e.user \in User /\ e.release \in Release
  BY RegistryAssumption, RequestShape DEF Event

\* What the consumer has at hand in each of its states.
LEMMA ConsumerTyped ==
  ASSUME TypeOK
  PROVE  /\ consumer.pc \in {"idle", "ended", "resolve", "called", "admit", "failed",
                             "diagnose", "ack"}
         /\ consumer.pc \notin {"idle", "ended"} =>
              /\ consumer.delivery \in Delivery
              /\ consumer.delivery.event \in Event /\ consumer.delivery.copy \in Copy
         /\ consumer.pc = "called" => consumer.caller \in RunnerCall /\ consumer.caller \in Caller
<1> DEFINE A == [pc : {"resolve", "admit", "failed", "diagnose", "ack"}, delivery : Delivery]
           B == [pc : {"called"}, delivery : Delivery, caller : RunnerCall]
<1>1. consumer \in {Waiting, Ended} \cup A \cup B
  BY DEF TypeOK
<1>2. CASE consumer \in {Waiting, Ended}
  BY <1>2 DEF Waiting, Ended
<1>3. CASE consumer \in A
  BY <1>3 DEF Delivery
<1>4. CASE consumer \in B
  BY <1>4, AdmissionAssumption DEF Delivery
<1> QED BY <1>1, <1>2, <1>3, <1>4

-----------------------------------------------------------------------------
(* Types                                                                    *)

\* The types of the delivery: all but the Registry's
DTypes ==
  /\ pending \subseteq posted /\ posted \subseteq Event
  /\ publisher \in {Waiting, Ended} \cup [pc : {"mark"}, event : Event]
  /\ window \subseteq Event
  /\ stream \in [Event -> [Copy -> {"absent", "stored", "acked"}]]
  /\ sent \in [Event -> [Copy -> 0..MaxDeliveries]]
  /\ consumer \in {Waiting, Ended}
       \cup [pc : {"resolve", "admit", "failed", "diagnose", "ack"}, delivery : Delivery]
       \cup [pc : {"called"}, delivery : Delivery, caller : RunnerCall]
  /\ admitted \subseteq Event
  /\ deadletters \in [Event -> {"none", "pending", "replayed", "pruned"}]
  /\ restarts \in 0..MaxRestarts

\* The types of the Registry and those of the delivery, apart.
LEMMA SplitTypes == (TypeOK <=> RTypeOK /\ DTypes) /\ (TypeOK <=> RTypeOK /\ DTypes)'
  BY DEF TypeOK, DTypes

\* JetStream's part of the types
LEMMA StoreTypes ==
  ASSUME DTypes, NEW e \in Event, NEW c \in Copy, Stores(e, c) \/ UNCHANGED delivery
  PROVE  /\ window' \subseteq Event /\ sent' = sent
         /\ stream' \in [Event -> [Copy -> {"absent", "stored", "acked"}]]
<1>1. CASE UNCHANGED delivery
  BY <1>1 DEF delivery, DTypes
<1>2. CASE Stores(e, c) /\ e \notin window
  <2> DEFINE Row == [Copy -> {"absent", "stored", "acked"}]
             x == [stream[e] EXCEPT ![c] = "stored"]
  <2>1. stream \in [Event -> Row] /\ stream' = [stream EXCEPT ![e] = x]
    BY <1>2 DEF DTypes, Stores
  <2>2. stream[e] \in Row
    BY <2>1
  <2>3. x \in Row
    BY <2>2
  <2> HIDE DEF Row, x
  <2>4. stream' \in [Event -> Row]
    BY <2>1, <2>3
  <2> QED BY <1>2, <2>4 DEF Row, Stores, DTypes
<1> QED BY <1>1, <1>2 DEF Stores

\* A post, or its publication, leaves the Registry alone.
LEMMA PostingTypes ==
  ASSUME DTypes, Posting
  PROVE  DTypes' /\ UNCHANGED rvars
<1>1. PICK e \in Event : Post(e)
  BY DEF Posting
<1> QED BY <1>1 DEF Post, DTypes, delivery, runner, Waiting, Ended, Delivery

LEMMA SendingTypes ==
  ASSUME DTypes, Sending
  PROVE  DTypes' /\ UNCHANGED rvars
<1>1. CASE Mark \/ MarkFails \/ RestartPublisher
  <2>1. /\ pending' \subseteq pending /\ publisher' \in {Waiting, Ended}
        /\ restarts' \in 0..MaxRestarts
        /\ UNCHANGED <<rvars, posted, delivery, runner, deadletters>>
    <3>1. CASE Mark
      BY <3>1 DEF Mark, DTypes
    <3>2. CASE MarkFails
      BY <3>2 DEF MarkFails, DTypes
    <3>3. CASE RestartPublisher
      BY <3>3, AdmissionAssumption DEF RestartPublisher, DTypes
    <3> QED BY <1>1, <3>1, <3>2, <3>3
  <2> QED BY <2>1 DEF DTypes, delivery, runner
<1>2. CASE \E e \in Event, c \in Copy : SendPending(e, c) \/ SendFails(e, c)
  <2>1. PICK e \in Event, c \in Copy : SendPending(e, c) \/ SendFails(e, c)
    BY <1>2
  <2>2. /\ Stores(e, c) \/ UNCHANGED delivery
        /\ publisher' \in {Waiting, Ended} \cup [pc : {"mark"}, event : Event]
        /\ UNCHANGED <<rvars, posted, pending, runner, deadletters, restarts>>
    BY <2>1 DEF SendPending, SendFails
  <2> QED BY <2>2, StoreTypes DEF DTypes, runner
<1> QED BY <1>1, <1>2 DEF Sending

LEMMA KeepingTypes ==
  ASSUME DTypes, Keeping
  PROVE  DTypes' /\ UNCHANGED rvars
<1> DEFINE L == {"none", "pending", "replayed", "pruned"}
<1>1. ASSUME NEW e \in Event, CloseWindow(e)
      PROVE  DTypes' /\ UNCHANGED rvars
  BY <1>1 DEF CloseWindow, DTypes, runner
<1>2. ASSUME NEW e \in Event, Prune(e)
      PROVE  DTypes' /\ UNCHANGED rvars
  <2>1. /\ deadletters' \in [Event -> L]
        /\ UNCHANGED <<rvars, posted, pending, publisher, delivery, runner, restarts>>
    BY <1>2 DEF Prune, DTypes
  <2> QED BY <2>1 DEF DTypes, delivery, runner
<1>3. ASSUME NEW e \in Event, NEW c \in Copy, ReplayDeadLetter(e, c)
      PROVE  DTypes' /\ UNCHANGED rvars
  <2>1. /\ deadletters' \in [Event -> L] /\ Stores(e, c)
        /\ UNCHANGED <<rvars, posted, pending, publisher, runner, restarts>>
    BY <1>3 DEF ReplayDeadLetter, DTypes
  <2> QED BY <2>1, StoreTypes DEF DTypes, runner
<1> QED BY <1>1, <1>2, <1>3 DEF Keeping

\* What the consumer does next, with its delivery
LEMMA TurnsTyped ==
  ASSUME TypeOK, consumer.pc \notin {"idle", "ended"}
  PROVE  \A pc \in {"resolve", "admit", "failed", "diagnose", "ack"} :
           Working(pc, consumer.delivery) \in
             [pc : {"resolve", "admit", "failed", "diagnose", "ack"}, delivery : Delivery]
  BY ConsumerTyped DEF Working

\* A fetch gives the consumer a delivery and counts it.
LEMMA FetchTypes ==
  ASSUME DTypes, NEW e \in Event, NEW c \in Copy, Fetch(e, c)
  PROVE  /\ consumer' \in [pc : {"resolve"}, delivery : Delivery]
         /\ sent' \in [Event -> [Copy -> 0..MaxDeliveries]]
<1> DEFINE n == NextNumber(sent[e][c])
           Row == [Copy -> 0..MaxDeliveries]
           x == [sent[e] EXCEPT ![c] = n]
<1>1. sent \in [Event -> Row] /\ sent[e] \in Row /\ sent[e][c] \in 0..MaxDeliveries
  BY DEF DTypes
<1>2. n \in 1..MaxDeliveries
  BY <1>1, AdmissionAssumption DEF NextNumber
<1>3. sent' = [sent EXCEPT ![e] = x]
  BY <1>1 DEF Fetch
<1>4. consumer' = [pc |-> "resolve", delivery |-> [event |-> e, copy |-> c, number |-> n]]
  BY DEF Fetch, Working
<1>5. [event |-> e, copy |-> c, number |-> n] \in Delivery
  BY <1>2 DEF Delivery
<1>6. x \in Row
  BY <1>1, <1>2, AdmissionAssumption
<1> HIDE DEF n, Row, x
<1>7. sent' \in [Event -> Row]
  BY <1>1, <1>3, <1>6
<1> QED BY <1>4, <1>5, <1>7 DEF Row

\* The acknowledgement settles the copy it is for.
LEMMA AckTypes ==
  ASSUME TypeOK, Ack
  PROVE  /\ stream' \in [Event -> [Copy -> {"absent", "stored", "acked"}]]
         /\ sent' \in [Event -> [Copy -> 0..MaxDeliveries]]
<1>1. CASE UNCHANGED <<stream, sent>>
  BY <1>1 DEF TypeOK
<1>2. CASE ~UNCHANGED <<stream, sent>>
  <2>1. PICK e, c : e = consumer.delivery.event /\ c = consumer.delivery.copy
    OBVIOUS
  <2>2. e \in Event /\ c \in Copy
    BY <2>1, ConsumerTyped DEF Ack
  <2> DEFINE R == [Copy -> {"absent", "stored", "acked"}]
             S == [Copy -> 0..MaxDeliveries]
             x == [stream[e] EXCEPT ![c] = "acked"]
             y == [sent[e] EXCEPT ![c] = 0]
  <2>3. /\ stream' = [stream EXCEPT ![e] = x] /\ sent' = [sent EXCEPT ![e] = y]
        /\ stream \in [Event -> R] /\ sent \in [Event -> S]
    BY <1>2, <2>1 DEF Ack, TypeOK
  <2>4. stream[e] \in R /\ sent[e] \in S
    BY <2>2, <2>3
  <2>5. x \in R
    BY <2>4
  <2>6. y \in S
    <3>1. 0 \in 0..MaxDeliveries
      BY AdmissionAssumption
    <3> QED BY <2>4, <3>1
  <2> HIDE DEF R, S, x, y
  <2>7. stream' \in [Event -> R] /\ sent' \in [Event -> S]
    BY <2>3, <2>5, <2>6
  <2> QED BY <2>7 DEF R, S
<1> QED BY <1>1, <1>2

LEMMA ConsumingTypes ==
  ASSUME TypeOK, Consuming
  PROVE  DTypes' /\ UNCHANGED rvars
<1> DEFINE C == [pc : {"resolve", "admit", "failed", "diagnose", "ack"}, delivery : Delivery]
<1>0. DTypes
  BY SplitTypes
<1>1. ASSUME consumer' \in {Waiting, Ended} \cup C, admitted' \subseteq Event,
             deadletters' \in [Event -> {"none", "pending", "replayed", "pruned"}],
             stream' \in [Event -> [Copy -> {"absent", "stored", "acked"}]],
             sent' \in [Event -> [Copy -> 0..MaxDeliveries]], restarts' \in 0..MaxRestarts,
             UNCHANGED <<rvars, posted, pending, publisher, window>>
      PROVE  DTypes' /\ UNCHANGED rvars
  BY <1>0, <1>1 DEF DTypes
<1> HIDE DEF C
<1>2. CASE \E e \in Event, c \in Copy : Fetch(e, c)
  <2>1. PICK e \in Event, c \in Copy : Fetch(e, c)
    BY <1>2
  <2>2. consumer' \in C /\ sent' \in [Event -> [Copy -> 0..MaxDeliveries]]
    BY <1>0, <2>1, FetchTypes DEF C
  <2>3. UNCHANGED <<rvars, posted, pending, publisher, window, stream, admitted, deadletters, restarts>>
    BY <2>1 DEF Fetch
  <2> QED BY <1>0, <1>1, <2>2, <2>3 DEF DTypes
<1>3. ASSUME consumer.pc \notin {"idle", "ended"},
             NEW pc \in {"resolve", "admit", "failed", "diagnose", "ack"}, Turns(pc)
      PROVE  consumer' \in C
  BY <1>3, TurnsTyped DEF Turns, C
<1>4. CASE ResolveFails
  <2>1. consumer' \in C
    BY <1>3, <1>4 DEF ResolveFails
  <2> QED BY <1>0, <1>1, <1>4, <2>1 DEF ResolveFails, DTypes, delivery
<1>5. CASE Admit
  <2>1. consumer' \in C
    BY <1>3, <1>5 DEF Admit
  <2> QED BY <1>0, <1>1, <1>5, <2>1, ConsumerTyped DEF Admit, DTypes, delivery
<1>6. CASE AdmitFails
  <2>1. consumer' \in C
    BY <1>3, <1>6 DEF AdmitFails
  <2> QED BY <1>0, <1>1, <1>6, <2>1, ConsumerTyped DEF AdmitFails, DTypes, delivery
<1>7. CASE Nak
  BY <1>0, <1>1, <1>7 DEF Nak, DTypes, delivery
<1>8. CASE DeadLetter
  <2>1. consumer' \in C
    BY <1>3, <1>8 DEF DeadLetter
  <2>2. deadletters' \in [Event -> {"none", "pending", "replayed", "pruned"}]
    BY <1>0, <1>8 DEF DeadLetter, DTypes
  <2> QED BY <1>0, <1>1, <1>8, <2>1, <2>2 DEF DeadLetter, DTypes, delivery
<1>9. CASE Diagnose
  <2>1. consumer' \in C
    BY <1>3, <1>9 DEF Diagnose
  <2> QED BY <1>0, <1>1, <1>9, <2>1 DEF Diagnose, DTypes, delivery
<1>10. CASE Ack
  <2>1. /\ consumer' = Waiting
        /\ UNCHANGED <<rvars, posted, pending, publisher, window, admitted, deadletters, restarts>>
    BY <1>10 DEF Ack
  <2> QED BY <1>0, <1>1, <1>10, <2>1, AckTypes DEF DTypes
<1>11. CASE ConsumerEnds
  BY <1>0, <1>1, <1>11 DEF ConsumerEnds, DTypes, delivery
<1>12. CASE RestartConsumer
  BY <1>0, <1>1, <1>12, AdmissionAssumption DEF RestartConsumer, DTypes, delivery
<1> QED BY <1>2, <1>4, <1>5, <1>6, <1>7, <1>8, <1>9, <1>10, <1>11, <1>12 DEF Consuming

LEMMA CallingTypes ==
  ASSUME TypeOK, AsksAsked, Calling
  PROVE  TypeOK'
<1>1. RTypeOK /\ DTypes
  BY SplitTypes
<1>2. ASSUME NEW c \in Caller, Step(c) \/ \E q \in Asked : Receive(c, q)
      PROVE  RTypeOK'
  BY <1>1, <1>2, RTypesKept DEF AsksAsked
<1>3. ASSUME UNCHANGED environment
      PROVE  DTypes'
  BY <1>1, <1>3 DEF environment, delivery, runner, DTypes
<1>4. CASE \E c \in Caller : RegistryStep(c)
  BY <1>2, <1>3, <1>4, SplitTypes DEF RegistryStep
<1>5. CASE \E c \in Caller, q \in Asked : Administer(c, q)
  BY <1>2, <1>3, <1>5, SplitTypes DEF Administer
<1>6. CASE \E c \in RunnerCall : CallRegistry(c)
  <2>1. PICK c \in RunnerCall : CallRegistry(c)
    BY <1>6
  <2>2. RTypeOK'
    BY <1>2, <2>1, ConsumerTyped, EventIsRequest, AdmissionAssumption DEF CallRegistry
  <2>3. consumer' \in [pc : {"called"}, delivery : Delivery, caller : RunnerCall]
    BY <2>1, ConsumerTyped DEF CallRegistry
  <2>4. DTypes'
    BY <1>1, <2>1, <2>3 DEF CallRegistry, DTypes, delivery
  <2> QED BY <2>2, <2>4, SplitTypes
<1>7. CASE Answered
  <2>1. consumer' \in [pc : {"resolve", "admit", "failed", "diagnose", "ack"}, delivery : Delivery]
    BY <1>7, TurnsTyped DEF Answered, Turns
  <2>2. DTypes'
    BY <1>1, <1>7, <2>1 DEF Answered, DTypes, delivery
  <2>3. consumer.caller \in Caller /\ call' = [call EXCEPT ![consumer.caller] = Idle]
    BY <1>7, ConsumerTyped DEF Answered
  <2>4. call' \in [Caller -> Ready \cup Active]
    BY <1>1, <2>3, CallTyped DEF Ready
  <2>5. RTypeOK'
    BY <1>1, <1>7, <2>4 DEF Answered, registry, RTypeOK, Ready, Active
  <2> QED BY <2>2, <2>5, SplitTypes
<1> QED BY <1>4, <1>5, <1>6, <1>7 DEF Calling

\* Types are inductive, given that the Registry is only asked what may be asked.
LEMMA TypesStay ==
  ASSUME TypeOK, AsksAsked, [Next]_vars
  PROVE  TypeOK'
<1>1. RTypeOK /\ DTypes
  BY SplitTypes
<1>2. ASSUME UNCHANGED rvars
      PROVE  RTypeOK'
  BY <1>1, <1>2 DEF rvars, registry, RTypeOK
<1>3. CASE UNCHANGED vars
  <2>1. DTypes'
    BY <1>1, <1>3 DEF vars, delivery, runner, DTypes
  <2> QED BY <1>2, <1>3, <2>1, SplitTypes DEF vars
<1>4. CASE Calling
  BY <1>4, CallingTypes
<1>5. CASE Posting \/ Sending \/ Keeping \/ Consuming
  <2>1. DTypes' /\ UNCHANGED rvars
    BY <1>1, <1>5, PostingTypes, SendingTypes, KeepingTypes, ConsumingTypes
  <2> QED BY <1>2, <2>1, SplitTypes
<1> QED BY <1>3, <1>4, <1>5, NextCases

-----------------------------------------------------------------------------
(* A request that has arrived stays so                                      *)

\* Runs and dead letters are not taken back
LEMMA RecordsStay ==
  ASSUME TypeOK, [Next]_vars
  PROVE  /\ admitted \subseteq admitted'
         /\ \A e \in Event : deadletters[e] # "none" => deadletters'[e] # "none"
<1>1. CASE UNCHANGED <<admitted, deadletters>>
  BY <1>1
<1>2. CASE UNCHANGED vars
  BY <1>1, <1>2 DEF vars, runner
<1>3. CASE Calling
  <2>1. UNCHANGED <<admitted, deadletters>>
    BY <1>3 DEF Calling, RegistryStep, Administer, CallRegistry, Answered, environment, runner
  <2> QED BY <1>1, <2>1
<1>4. CASE Posting
  BY <1>1, <1>4 DEF Posting, Post, runner
<1>5. CASE Sending
  <2>1. UNCHANGED <<admitted, deadletters>>
    BY <1>5 DEF Sending, Mark, MarkFails, RestartPublisher, SendPending, SendFails, runner
  <2> QED BY <1>1, <2>1
<1>6. CASE Keeping
  <2>1. ASSUME NEW e \in Event, CloseWindow(e) PROVE UNCHANGED <<admitted, deadletters>>
    BY <2>1 DEF CloseWindow, runner
  <2>2. ASSUME NEW e \in Event, Prune(e)
        PROVE  admitted' = admitted /\ deadletters' = [deadletters EXCEPT ![e] = "pruned"]
    BY <2>2 DEF Prune, runner
  <2>3. ASSUME NEW e \in Event, NEW c \in Copy, ReplayDeadLetter(e, c)
        PROVE  /\ admitted' = admitted
               /\ \/ deadletters' = deadletters
                  \/ deadletters' = [deadletters EXCEPT ![e] = "replayed"]
    BY <2>3 DEF ReplayDeadLetter, runner
  <2>4. deadletters \in [Event -> {"none", "pending", "replayed", "pruned"}]
    BY DEF TypeOK
  <2> QED BY <1>1, <1>6, <2>1, <2>2, <2>3, <2>4 DEF Keeping
<1>7. CASE Consuming
  <2>1. CASE DeadLetter
    <3>1. PICK d : d = consumer.delivery.event
      OBVIOUS
    <3>2. d \in Event
      BY <2>1, <3>1, ConsumerTyped DEF DeadLetter
    <3>3. /\ admitted' = admitted
          /\ deadletters' = [deadletters EXCEPT ![d] =
                               IF deadletters[d] \in {"none", "pruned"} THEN "pending"
                               ELSE deadletters[d]]
      BY <2>1, <3>1 DEF DeadLetter
    <3> QED BY <3>2, <3>3 DEF TypeOK
  <2>2. CASE ~DeadLetter
    <3>1. admitted \subseteq admitted' /\ deadletters' = deadletters
      BY <1>7, <2>2 DEF Consuming, Fetch, ResolveFails, Admit, AdmitFails, Nak, Diagnose, Ack,
                        ConsumerEnds, RestartConsumer
    <3> QED BY <3>1
  <2> QED BY <2>1, <2>2
<1> QED BY <1>2, <1>3, <1>4, <1>5, <1>6, <1>7, NextCases

\* What Stores leaves behind
LEMMA StoresArrives ==
  ASSUME TypeOK, NEW e \in Event, NEW c \in Copy, Stores(e, c)
  PROVE  /\ e \in window \/ Stored(e)'
         /\ window' \subseteq window \cup {e}
         /\ \A d \in Event : Stored(d) => Stored(d)'
<1>1. CASE e \in window
  BY <1>1 DEF Stores, delivery, Stored
<1>2. CASE e \notin window
  <2>1. /\ stream' = [stream EXCEPT ![e][c] = "stored"] /\ window' = window \cup {e}
        /\ stream[e][c] = "absent"
    BY <1>2 DEF Stores
  <2>2. stream \in [Event -> [Copy -> {"absent", "stored", "acked"}]]
    BY DEF TypeOK
  <2>3. stream'[e][c] = "stored"
    BY <2>1, <2>2
  <2>4. ASSUME NEW d \in Event, NEW k \in Copy, stream[d][k] = "stored"
        PROVE  stream'[d][k] = "stored"
    BY <2>1, <2>2, <2>4
  <2> QED BY <2>1, <2>3, <2>4 DEF Stored
<1> QED BY <1>1, <1>2

\* Only an acknowledgement takes a message from the stream
LEMMA StoredStays ==
  ASSUME TypeOK, [Next]_vars, NEW e \in Event, Stored(e)
  PROVE  Stored(e)' \/ (consumer.pc = "ack" /\ consumer.delivery.event = e)
<1>1. CASE stream' = stream
  BY <1>1 DEF Stored
<1>2. CASE UNCHANGED vars
  BY <1>1, <1>2 DEF vars, delivery
<1>3. CASE Calling
  <2>1. stream' = stream
    BY <1>3 DEF Calling, RegistryStep, Administer, CallRegistry, Answered, environment, delivery
  <2> QED BY <1>1, <2>1
<1>4. CASE Posting
  BY <1>1, <1>4 DEF Posting, Post, delivery
<1>5. CASE Sending \/ Keeping
  <2>1. stream' = stream \/ \E d \in Event, c \in Copy : Stores(d, c)
    BY <1>5 DEF Sending, Mark, MarkFails, RestartPublisher, SendPending, SendFails, Keeping,
                CloseWindow, Prune, ReplayDeadLetter, delivery
  <2> QED BY <1>1, <2>1, StoresArrives
<1>6. CASE Consuming
  <2>1. CASE Ack
    <3>1. CASE stream' = stream
      BY <1>1, <3>1
    <3>2. CASE stream' # stream /\ consumer.delivery.event # e
      <4>1. PICK d, k : d = consumer.delivery.event /\ k = consumer.delivery.copy
        OBVIOUS
      <4>2. stream' = [stream EXCEPT ![d][k] = "acked"]
        BY <2>1, <3>2, <4>1 DEF Ack
      <4>3. stream \in [Event -> [Copy -> {"absent", "stored", "acked"}]]
        BY DEF TypeOK
      <4>4. stream'[e] = stream[e]
        BY <3>2, <4>1, <4>2, <4>3
      <4> QED BY <4>4 DEF Stored
    <3> QED BY <2>1, <3>1, <3>2 DEF Ack
  <2>2. CASE ~Ack
    <3>1. stream' = stream
      BY <1>6, <2>2 DEF Consuming, Fetch, ResolveFails, Admit, AdmitFails, Nak, DeadLetter,
                        Diagnose, ConsumerEnds, RestartConsumer, delivery
    <3> QED BY <1>1, <3>1
  <2> QED BY <2>1, <2>2
<1> QED BY <1>2, <1>3, <1>4, <1>5, <1>6, NextCases

\* What has settled, or has arrived, stays so.
LEMMA ArrivedStays ==
  ASSUME TypeOK, AckSettled, [Next]_vars, NEW e \in Event
  PROVE  (Settled(e) => Settled(e)') /\ (Arrived(e) => Arrived(e)')
<1>1. Settled(e) => Settled(e)'
  BY RecordsStay DEF Settled
<1>2. CASE Stored(e)
  BY <1>1, <1>2, StoredStays DEF Arrived, AckSettled
<1>3. CASE Settled(e)
  BY <1>1, <1>3 DEF Arrived
<1> QED BY <1>1, <1>2, <1>3 DEF Arrived

\* What becomes a duplicate, marked, acknowledged or posted in a step
LEMMA WindowNew ==
  ASSUME TypeOK, [Next]_vars
  PROVE  \A e \in window' : e \in window \/ Stored(e)'
<1>1. CASE window' \subseteq window
  BY <1>1
<1>2. CASE UNCHANGED vars
  BY <1>1, <1>2 DEF vars, delivery
<1>3. CASE Calling
  <2>1. window' = window
    BY <1>3 DEF Calling, RegistryStep, Administer, CallRegistry, Answered, environment, delivery
  <2> QED BY <1>1, <2>1
<1>4. CASE Posting
  BY <1>1, <1>4 DEF Posting, Post, delivery
<1>5. CASE Sending \/ Keeping
  <2>1. window' \subseteq window \/ \E d \in Event, c \in Copy : Stores(d, c)
    BY <1>5 DEF Sending, Mark, MarkFails, RestartPublisher, SendPending, SendFails, Keeping,
                CloseWindow, Prune, ReplayDeadLetter, delivery
  <2> QED BY <1>1, <2>1, StoresArrives
<1>6. CASE Consuming
  <2>1. window' = window
    BY <1>6 DEF Consuming, Fetch, ResolveFails, Admit, AdmitFails, Nak, DeadLetter, Ack,
                Diagnose, ConsumerEnds, RestartConsumer, delivery
  <2> QED BY <1>1, <2>1
<1> QED BY <1>2, <1>3, <1>4, <1>5, <1>6, NextCases

\* A publisher that comes to mark an event has JetStream hold it, or its window.
LEMMA MarkNew ==
  ASSUME TypeOK, [Next]_vars, publisher'.pc = "mark", NEW d, d = publisher'.event
  PROVE  publisher' = publisher \/ d \in window \/ Stored(d)'
<1>1. CASE publisher' = publisher
  BY <1>1
<1>2. CASE UNCHANGED vars
  BY <1>1, <1>2 DEF vars
<1>3. CASE Calling \/ Posting \/ Keeping \/ Consuming
  <2>1. publisher' = publisher
    BY <1>3 DEF Calling, RegistryStep, Administer, CallRegistry, Answered, environment, Posting,
                Post, Keeping, CloseWindow, Prune, ReplayDeadLetter, Consuming, Fetch,
                ResolveFails, Admit, AdmitFails, Nak, DeadLetter, Ack, Diagnose, ConsumerEnds,
                RestartConsumer
  <2> QED BY <1>1, <2>1
<1>4. CASE Sending
  <2>1. Waiting.pc # "mark" /\ Ended.pc # "mark"
    BY DEF Waiting, Ended
  <2>2. PICK e \in Event, c \in Copy : SendPending(e, c)
    BY <1>4, <2>1 DEF Sending, Mark, MarkFails, RestartPublisher, SendFails
  <2>3. Stores(e, c) /\ d = e
    BY <2>2 DEF SendPending
  <2>4. e \in window \/ Stored(e)'
    BY <2>3, StoresArrives
  <2> QED BY <2>3, <2>4
<1> QED BY <1>2, <1>3, <1>4, NextCases

\* A consumer comes to acknowledge with the request admitted or a dead letter.
LEMMA AckNew ==
  ASSUME TypeOK, [Next]_vars, consumer'.pc \in {"ack", "diagnose"}
  PROVE  \/ consumer' = consumer
         \/ /\ consumer'.delivery = consumer.delivery
            /\ \/ consumer.pc = "diagnose"
               \/ consumer.delivery.event \in admitted'
               \/ deadletters'[consumer.delivery.event] # "none"
<1>1. Waiting.pc = "idle" /\ Ended.pc = "ended"
  BY DEF Waiting, Ended
<1>2. CASE UNCHANGED vars \/ Calling \/ Posting \/ Keeping \/ Sending
  <2>1. CASE Answered
    BY <2>1 DEF Answered, Turns, Working
  <2>2. CASE ~Answered
    BY <1>2, <2>2 DEF vars, Calling, RegistryStep, Administer, CallRegistry, environment,
                Posting, Post, Keeping, CloseWindow, Prune, ReplayDeadLetter, Sending, Mark,
                MarkFails, RestartPublisher, SendPending, SendFails, runner
  <2> QED BY <2>1, <2>2
<1>3. CASE Consuming
  <2>1. CASE Admit
    BY <2>1 DEF Admit, Turns, Working
  <2>2. CASE DeadLetter
    <3>1. PICK e : e = consumer.delivery.event
      OBVIOUS
    <3>2. e \in Event /\ consumer'.delivery = consumer.delivery
      BY <2>2, <3>1, ConsumerTyped DEF DeadLetter, Turns, Working
    <3>3. deadletters'[e] # "none"
      BY <2>2, <3>1, <3>2 DEF DeadLetter, TypeOK
    <3> QED BY <3>1, <3>2, <3>3
  <2>3. CASE Diagnose
    BY <2>3 DEF Diagnose, Turns, Working
  <2>4. CASE ~Admit /\ ~DeadLetter /\ ~Diagnose
    BY <1>1, <1>3, <2>4 DEF Consuming, Fetch, ResolveFails, AdmitFails, Nak, Ack, ConsumerEnds,
                            RestartConsumer, Turns, Working
  <2> QED BY <2>1, <2>2, <2>3, <2>4
<1> QED BY <1>2, <1>3, NextCases

\* An event leaves the pending ones only when its publisher marks it.
LEMMA PostedNew ==
  ASSUME TypeOK, [Next]_vars, NEW e \in posted', e \notin pending'
  PROVE  /\ e \in posted
         /\ e \in pending => publisher.pc = "mark" /\ publisher.event = e
<1>1. CASE Posting
  BY <1>1 DEF Posting, Post
<1>2. CASE Mark
  BY <1>2 DEF Mark
<1>3. CASE ~Posting /\ ~Mark
  BY <1>3, NextCases DEF vars, Calling, RegistryStep, Administer, CallRegistry, Answered,
       environment, Keeping, CloseWindow, Prune, ReplayDeadLetter, Sending, MarkFails,
       RestartPublisher, SendPending, SendFails, Consuming, Fetch, ResolveFails, Admit, AdmitFails,
       Nak, DeadLetter, Ack, Diagnose, ConsumerEnds, RestartConsumer
<1> QED BY <1>1, <1>2, <1>3

\* No step of any process loses a request.
LEMMA DeliveryKept ==
  ASSUME TypeOK, TypeOK', DeliveryInv, [Next]_vars
  PROVE  DeliveryInv'
<1>0. WindowArrived /\ MarkArrived /\ AckSettled /\ PostedKept
  BY DEF DeliveryInv
<1>1. WindowArrived'
  <2> SUFFICES ASSUME NEW e \in window'
               PROVE  Arrived(e)'
    BY DEF WindowArrived, Arrived, Stored, Settled
  <2>1. e \in Event
    BY DEF TypeOK
  <2> QED BY <1>0, <2>1, WindowNew, ArrivedStays DEF WindowArrived, Arrived
<1>2. MarkArrived'
  <2> SUFFICES ASSUME publisher'.pc = "mark", NEW e, e = publisher'.event
               PROVE  Arrived(e)'
    BY DEF MarkArrived, Arrived, Stored, Settled
  <2>1. e \in Event
    BY DEF TypeOK, Waiting, Ended
  <2>2. Arrived(e) \/ Stored(e)'
    <3>1. CASE publisher' = publisher
      BY <1>0, <3>1 DEF MarkArrived
    <3>2. CASE publisher' # publisher
      BY <1>0, <3>2, MarkNew DEF WindowArrived
    <3> QED BY <3>1, <3>2
  <2> QED BY <1>0, <2>1, <2>2, ArrivedStays DEF Arrived
<1>3. AckSettled'
  <2> SUFFICES ASSUME consumer'.pc \in {"ack", "diagnose"}, NEW e, e = consumer'.delivery.event
               PROVE  Settled(e)'
    BY DEF AckSettled, Settled
  <2>1. e \in Event
    BY DEF TypeOK, Waiting, Ended, Delivery
  <2>2. \/ Settled(e)
        \/ e \in admitted' \/ deadletters'[e] # "none"
    BY <1>0, AckNew DEF AckSettled
  <2> QED BY <1>0, <2>1, <2>2, ArrivedStays DEF Settled
<1>4. PostedKept'
  <2> SUFFICES ASSUME NEW e \in posted', e \notin pending'
               PROVE  Arrived(e)'
    BY DEF PostedKept, Arrived, Stored, Settled
  <2>1. e \in Event
    BY DEF TypeOK
  <2>2. Arrived(e)
    BY <1>0, PostedNew DEF PostedKept, MarkArrived
  <2> QED BY <1>0, <2>1, <2>2, ArrivedStays
<1> QED BY <1>1, <1>2, <1>3, <1>4 DEF DeliveryInv

-----------------------------------------------------------------------------
(* A specification, from its transaction to the consumer                    *)

\* What a step of the Registry does to the specifications: the write of a
\* resolve request leaves the specification it asks for, and no other changes
LEMMA SpecWritten ==
  ASSUME TypeOK, ResolveInv, NEW c \in Caller, Write(c), NEW p, p = call[c].request,
         idempotency' # idempotency
  PROVE  /\ p \in Asked /\ idempotency' = idempotency \cup {p}
         /\ p.op = "resolve" => Specified(p)'
         /\ \A q \in Request : q.op = "resolve" /\ Specified(q) => Specified(q)'
<1> DEFINE s == [release |-> p.release, user |-> p.user]
           f == call[c].found
<1>1. /\ idempotency' = idempotency \cup {p} /\ Unique(p, f)
      /\ Does(p, f) \/ UNCHANGED violations
      /\ \/ Publish(p) \/ SetDefault(p) \/ Deprecate(p)
         \/ GrantAccess(p, f) \/ Revoke(p) \/ Resolve(p, f)
  BY DEF Write
<1>2. p \in Asked /\ p \in Request /\ call[c].pc = "write"
  BY RegistryAssumption DEF Write, ResolveInv, AsksAsked
<1>4. specs \in [Run -> [release : Release \cup {"none"}, user : User \cup {"none"}]]
  BY DEF TypeOK, RTypeOK
<1>5. CASE ~Resolve(p, f)
  <2>1. specs' = specs /\ p.op # "resolve"
    BY <1>1, <1>5 DEF Publish, SetDefault, Deprecate, GrantAccess, Revoke
  <2> QED BY <1>1, <1>2, <2>1 DEF Specified
<1>6. CASE Resolve(p, f) /\ f # "none"
  <2>1. specs' = specs
    BY <1>6 DEF Resolve
  <2>2. Specified(p)
    BY <1>2, <1>6 DEF Resolve, ResolveInv, FoundSpecified, FindsRow
  <2> QED BY <1>1, <1>2, <2>1, <2>2 DEF Specified
<1>7. CASE Resolve(p, f) /\ f = "none"
  <2>1. p.op = "resolve" /\ specs' = [specs EXCEPT ![p.run] = s]
    BY <1>7 DEF Resolve
  <2>2. p.run \in Run /\ specs[p.run] = NoSpec
    BY <1>1, <1>2, <1>7, <2>1, RequestShape DEF Unique
  <2>3. specs'[p.run] = s
    BY <1>4, <2>1, <2>2
  <2>4. ASSUME NEW q \in Request, q.op = "resolve", Specified(q)
        PROVE  Specified(q)'
    <3>1. q.release \in Release /\ q.run \in Run
      BY <2>4, RequestShape
    <3>2. q.run # p.run
      BY <2>2, <2>4, <3>1, RegistryAssumption DEF Specified, NoSpec
    <3>3. specs'[q.run] = specs[q.run]
      BY <1>4, <2>1, <3>1, <3>2
    <3> QED BY <2>4, <3>3 DEF Specified
  <2> QED BY <1>1, <1>2, <2>3, <2>4 DEF Specified
<1> QED BY <1>5, <1>6, <1>7

\* What a call has found, or answers, at the end of its step
Asking(p, x) ==
  /\ x.pc \in {"lock", "write"} /\ x.request = p
  /\ FindsRow(x) => Specified(p)
Answering(p, x) ==
  /\ x \in Ready
  /\ p.op = "resolve" => x \in Returned
  /\ x \in Returned /\ x.answer = "stored" => Specified(p)'

\* A step of the Registry answers a call or takes it further.
LEMMA StepOutcome ==
  ASSUME TypeOK, ResolveInv, NEW c \in Caller, Step(c), NEW p, p = call[c].request
  PROVE  /\ InProgress(c) /\ p \in Asked
         /\ \E x : /\ call' = [call EXCEPT ![c] = x]
                   /\ Answering(p, x) \/ (Asking(p, x) /\ UNCHANGED registry)
         /\ UNCHANGED <<specs, idempotency>> \/ (Write(c) /\ idempotency' # idempotency)
<1>0. RTypeOK
  BY SplitTypes
<1>1. InProgress(c)
  BY DEF Step, Lock, LockRow, Replay, Check, Write, Abandon
<1>2. p \in Asked /\ p \in Request /\ call[c] \in Active
  BY <1>0, <1>1, CallTyped, RegistryAssumption DEF ResolveInv, AsksAsked
<1>3. \A k \in {"stored", "refused"} :
        /\ Answer(p, k) \in Ready
        /\ p.op = "resolve" => Answer(p, k) \in Returned /\ Answer(p, k).answer = k
        /\ p.op # "resolve" => Answer(p, k) = Idle
  BY DEF Answer, Ready, Returned
<1>4. Idle \notin Returned
  BY DEF Idle, Returned
<1>5. Answering(p, Answer(p, "refused"))
  BY <1>3, <1>4 DEF Answering
<1>6. ASSUME p.op = "resolve" => Specified(p)'
      PROVE  Answering(p, Answer(p, "stored"))
  BY <1>3, <1>4, <1>6 DEF Answering
<1>7. CASE Lock(c)
  <2> DEFINE x == [call[c] EXCEPT !.locks = call[c].locks + 1]
  <2>1. call' = [call EXCEPT ![c] = x] /\ UNCHANGED registry /\ call[c].pc = "lock"
    BY <1>7 DEF Lock, NextLock
  <2>2. x.pc = "lock" /\ x.request = p
    BY <1>2, <2>1 DEF Active
  <2> HIDE DEF x
  <2>3. Asking(p, x)
    BY <2>2 DEF Asking, FindsRow
  <2> QED BY <1>1, <1>2, <2>1, <2>3 DEF registry
<1>13. CASE LockRow(c)
  <2>1. PICK l \in NextRows(c) : call' = [call EXCEPT ![c].rows = @ \cup {l}]
    BY <1>13 DEF LockRow
  <2> DEFINE x == [call[c] EXCEPT !.rows = call[c].rows \cup {l}]
  <2>2. call' = [call EXCEPT ![c] = x] /\ UNCHANGED registry
    BY <1>13, <2>1 DEF LockRow
  <2>3. x.pc = call[c].pc /\ x.request = p /\ x.found = call[c].found
    BY <1>2 DEF Active
  <2> HIDE DEF x
  <2>4. Asking(p, x)
    <3>1. x.pc \in {"lock", "write"}
      BY <1>2, <2>3 DEF Active
    <3>2. FindsRow(call[c]) => Specified(p)
      BY <1>1 DEF ResolveInv, FoundSpecified
    <3> QED BY <2>3, <3>1, <3>2 DEF Asking, FindsRow
  <2> QED BY <1>1, <1>2, <2>2, <2>4 DEF registry
<1>8. CASE Replay(c)
  <2>1. /\ call' = [call EXCEPT ![c] = Answer(p, IF p \in idempotency THEN "stored" ELSE "refused")]
        /\ UNCHANGED registry
    BY <1>8 DEF Replay
  <2>2. CASE p \in idempotency
    <3>1. p.op = "resolve" => Specified(p)'
      BY <2>1, <2>2 DEF ResolveInv, StoredSpecified, Specified, registry
    <3> QED BY <1>1, <1>2, <1>6, <2>1, <2>2, <3>1 DEF registry
  <2>3. CASE p \notin idempotency
    BY <1>1, <1>2, <1>5, <2>1, <2>3 DEF registry
  <2> QED BY <2>2, <2>3
<1>9. CASE Check(c)
  <2>1. CASE Refused(p)
    <3>1. call' = [call EXCEPT ![c] = Answer(p, "refused")] /\ UNCHANGED registry
      BY <1>9, <2>1 DEF Check
    <3> QED BY <1>1, <1>2, <1>5, <3>1 DEF registry
  <2>2. CASE ~Refused(p)
    <3>0. PICK g \in Finds(p) :
             call' = [call EXCEPT ![c] = [call[c] EXCEPT !.pc = "write", !.found = g]]
      BY <1>9, <2>2 DEF Check
    <3> DEFINE x == [call[c] EXCEPT !.pc = "write", !.found = g]
    <3>1. call' = [call EXCEPT ![c] = x] /\ UNCHANGED registry
      BY <1>9, <3>0 DEF Check
    <3>2. x.pc = "write" /\ x.request = p /\ x.found = g
      BY <1>2 DEF Active
    <3>3. p.op = "resolve" /\ g # "none" => Specified(p)
      <4> SUFFICES ASSUME p.op = "resolve", g # "none"
                   PROVE  Specified(p)
        OBVIOUS
      <4>4. Existing(p)
        BY DEF Finds
      <4>1. specs[p.run] # NoSpec
        BY <4>4 DEF Existing
      <4>2. specs[p.run].release = p.release /\ specs[p.run].user = p.user
        BY <2>2, <4>1 DEF Refused
      <4>3. specs[p.run] \in [release : Release \cup {"none"}, user : User \cup {"none"}]
        BY <1>0, <1>2, RequestShape DEF RTypeOK
      <4> QED BY <4>2, <4>3 DEF Specified
    <3> HIDE DEF x
    <3>4. Asking(p, x)
      BY <3>2, <3>3 DEF Asking, FindsRow
    <3> QED BY <1>1, <1>2, <3>1, <3>4 DEF registry
  <2> QED BY <2>1, <2>2
<1>10. CASE Write(c) /\ idempotency' # idempotency
  <2>1. p.op = "resolve" => Specified(p)'
    BY <1>10, SpecWritten
  <2>2. call' = [call EXCEPT ![c] = Answer(p, "stored")]
    BY <1>10 DEF Write
  <2> QED BY <1>1, <1>2, <1>6, <1>10, <2>1, <2>2
<1>11. CASE Write(c) /\ idempotency' = idempotency
  <2>1. ~Unique(p, call[c].found)
    BY <1>11, <1>2 DEF Write, Unique, Replayed, SameKey
  <2>2. call' = [call EXCEPT ![c] = Answer(p, "refused")] /\ UNCHANGED <<specs, idempotency>>
    BY <1>11, <2>1 DEF Write
  <2> QED BY <1>1, <1>2, <1>5, <2>2
<1>12. CASE Abandon(c)
  <2>1. call' = [call EXCEPT ![c] = Answer(p, "refused")] /\ UNCHANGED registry
    BY <1>12 DEF Abandon
  <2> QED BY <1>1, <1>2, <1>5, <2>1 DEF registry
<1> QED BY <1>7, <1>8, <1>9, <1>10, <1>11, <1>12, <1>13 DEF Step

\* A specification that is there stays what it is
LEMMA SpecsStay ==
  ASSUME TypeOK, ResolveInv, [Next]_vars
  PROVE  \A q \in Request : q.op = "resolve" /\ Specified(q) => Specified(q)'
<1>1. CASE specs' = specs
  BY <1>1 DEF Specified
<1>2. CASE UNCHANGED vars \/ Posting \/ Sending \/ Keeping \/ Consuming
  <2>1. UNCHANGED rvars
    BY <1>2, SplitTypes, PostingTypes, SendingTypes, KeepingTypes, ConsumingTypes DEF vars
  <2> QED BY <1>1, <2>1 DEF rvars, registry
<1>3. ASSUME NEW c \in Caller, RegistryStep(c)
      PROVE  \A q \in Request : q.op = "resolve" /\ Specified(q) => Specified(q)'
  <2>1. specs' = specs \/ (Write(c) /\ idempotency' # idempotency)
    BY <1>3, StepOutcome DEF RegistryStep
  <2> QED BY <1>1, <2>1, SpecWritten
<1>4. CASE Calling /\ ~\E c \in Caller : RegistryStep(c)
  <2>1. UNCHANGED registry
    BY <1>4 DEF Calling, Administer, CallRegistry, Answered, Receive
  <2> QED BY <1>1, <2>1 DEF registry
<1> QED BY <1>2, <1>3, <1>4, NextCases

\* A step of the Registry keeps specifications, and what calls know of them.
LEMMA RegistryStepSpecs ==
  ASSUME TypeOK, SpecInv, NEW c \in Caller, RegistryStep(c), [Next]_vars
  PROVE  SpecInv'
<1>0. ResolveInv /\ RunnerAsks /\ AdmitSpecified /\ AdmittedAsSpecified
  BY DEF SpecInv
<1>1. RTypeOK /\ UNCHANGED <<consumer, admitted>>
  BY SplitTypes DEF RegistryStep, environment, runner
<1>2. \A q \in Request : q.op = "resolve" /\ Specified(q) => Specified(q)'
  BY <1>0, SpecsStay
<1>3. PICK p : p = call[c].request
  OBVIOUS
<1>4. /\ InProgress(c) /\ p \in Asked
      /\ UNCHANGED <<specs, idempotency>> \/ (Write(c) /\ idempotency' # idempotency)
  BY <1>0, <1>3, StepOutcome DEF RegistryStep
<1>5. PICK x : /\ call' = [call EXCEPT ![c] = x]
               /\ Answering(p, x) \/ (Asking(p, x) /\ UNCHANGED registry)
  BY <1>0, <1>3, StepOutcome DEF RegistryStep
<1>6. call'[c] = x /\ \A d \in Caller \ {c} : call'[d] = call[d]
  BY <1>1, <1>5, CallTyped
<1>7. Answering(p, x) => x.pc = "idle"
  BY DEF Answering, Ready, Idle
<1>8. AsksAsked'
  <2> SUFFICES ASSUME NEW d \in Caller, call'[d].pc # "idle"
               PROVE  call'[d].request \in Asked
    BY DEF AsksAsked, InProgress
  <2>1. CASE d = c
    BY <1>4, <1>5, <1>6, <1>7, <2>1 DEF Asking
  <2>2. CASE d # c
    BY <1>0, <1>6, <2>2 DEF ResolveInv, AsksAsked, InProgress
  <2> QED BY <2>1, <2>2
<1>9. StoredSpecified'
  <2> SUFFICES ASSUME NEW q \in idempotency', q.op = "resolve"
               PROVE  Specified(q)'
    BY DEF StoredSpecified, Specified
  <2>1. CASE q \in idempotency
    BY <1>0, <1>1, <1>2, <2>1 DEF ResolveInv, StoredSpecified, RTypeOK
  <2>2. CASE q \notin idempotency
    BY <1>0, <1>3, <1>4, <2>2, SpecWritten
  <2> QED BY <2>1, <2>2
<1>10. FoundSpecified'
  <2> SUFFICES ASSUME NEW d \in Caller, FindsRow(call'[d]), NEW q, q = call'[d].request
               PROVE  Specified(q)'
    BY DEF FoundSpecified, FindsRow, Specified
  <2>1. CASE d = c
    BY <1>5, <1>6, <1>7, <2>1 DEF Asking, FindsRow, registry, Specified
  <2>2. CASE d # c
    <3>1. Specified(q) /\ q.op = "resolve"
      BY <1>0, <1>6, <2>2 DEF ResolveInv, FoundSpecified, FindsRow
    <3>2. q \in Request
      BY <1>0, <1>6, <2>2, RegistryAssumption DEF ResolveInv, AsksAsked, FindsRow, InProgress
    <3> QED BY <1>2, <3>1, <3>2
  <2> QED BY <2>1, <2>2
<1>11. RunnerAsks'
  <2> SUFFICES ASSUME consumer.pc = "called", NEW k, k = consumer.caller,
                      NEW e, e = consumer.delivery.event
               PROVE  IF call'[k].pc # "idle" THEN call'[k].request = e
                      ELSE /\ call'[k] \in Returned
                           /\ call'[k].answer = "stored" => Specified(e)'
    BY <1>1 DEF RunnerAsks, InProgress, Specified, Returned
  <2>1. k \in Caller /\ e \in Request /\ e.op = "resolve"
    BY ConsumerTyped, EventIsRequest
  <2>2. CASE k = c
    <3>1. p = e
      BY <1>0, <1>3, <1>4, <2>2 DEF RunnerAsks
    <3>2. Answering(p, x) => x \in Returned /\ (x.answer = "stored" => Specified(e)')
      BY <2>1, <3>1 DEF Answering
    <3> QED BY <1>5, <1>6, <1>7, <2>2, <3>1, <3>2 DEF Asking
  <2>3. CASE k # c
    BY <1>0, <1>2, <1>6, <2>1, <2>3 DEF RunnerAsks, InProgress
  <2> QED BY <2>2, <2>3
<1>12. AdmitSpecified'
  <2> SUFFICES ASSUME consumer.pc = "admit", NEW e, e = consumer.delivery.event
               PROVE  Specified(e)'
    BY <1>1 DEF AdmitSpecified, Specified
  <2> QED BY <1>0, <1>2, ConsumerTyped, EventIsRequest DEF AdmitSpecified
<1>13. AdmittedAsSpecified'
  <2> SUFFICES ASSUME NEW e \in admitted
               PROVE  Specified(e)'
    BY <1>1 DEF AdmittedAsSpecified, Specified
  <2> QED BY <1>0, <1>2, EventIsRequest DEF AdmittedAsSpecified, Specified, TypeOK
<1> QED BY <1>8, <1>9, <1>10, <1>11, <1>12, <1>13 DEF SpecInv, ResolveInv

\* A new call has found nothing yet
LEMMA ReceiveSpecs ==
  ASSUME TypeOK, ResolveInv, NEW c \in Caller, NEW q \in Asked, Receive(c, q)
  PROVE  /\ ResolveInv' /\ UNCHANGED <<specs, idempotency>>
         /\ call'[c].pc # "idle" /\ call'[c].request = q
         /\ \A d \in Caller \ {c} : call'[d] = call[d]
<1> DEFINE x == [pc |-> "lock", request |-> q, locks |-> 0, rows |-> {}, found |-> "none"]
<1>1. /\ call' = [call EXCEPT ![c] = x] /\ UNCHANGED <<specs, idempotency>>
      /\ call \in [Caller -> Ready \cup Active]
  BY SplitTypes, CallTyped DEF Receive, registry
<1>2. x.pc = "lock" /\ x.request = q
  OBVIOUS
<1> HIDE DEF x
<1>3. call'[c] = x /\ \A d \in Caller \ {c} : call'[d] = call[d]
  BY <1>1
<1>4. AsksAsked'
  BY <1>2, <1>3 DEF ResolveInv, AsksAsked, InProgress
<1>5. StoredSpecified'
  BY <1>1 DEF ResolveInv, StoredSpecified, Specified
<1>6. FoundSpecified'
  BY <1>1, <1>2, <1>3 DEF ResolveInv, FoundSpecified, FindsRow, Specified
<1> QED BY <1>1, <1>2, <1>3, <1>4, <1>5, <1>6 DEF ResolveInv

\* The answer of the Registry is the specification it has stored.
LEMMA AnsweredSpecs ==
  ASSUME TypeOK, SpecInv, Answered
  PROVE  SpecInv'
<1>0. ResolveInv /\ RunnerAsks /\ AdmitSpecified /\ AdmittedAsSpecified
  BY DEF SpecInv
<1>1. PICK c, e : c = consumer.caller /\ e = consumer.delivery.event
  OBVIOUS
<1>2. /\ c \in Caller /\ call \in [Caller -> Ready \cup Active]
      /\ UNCHANGED <<specs, idempotency, admitted>>
      /\ call' = [call EXCEPT ![c] = Idle]
  BY <1>1, SplitTypes, CallTyped, ConsumerTyped DEF Answered, registry
<1>3. call'[c] = Idle /\ \A d \in Caller \ {c} : call'[d] = call[d]
  BY <1>2
<1>4. Idle.pc = "idle"
  BY DEF Idle
<1>5. AsksAsked'
  BY <1>0, <1>3, <1>4 DEF ResolveInv, AsksAsked, InProgress
<1>6. StoredSpecified' /\ AdmittedAsSpecified'
  BY <1>0, <1>2 DEF ResolveInv, StoredSpecified, AdmittedAsSpecified, Specified
<1>7. FoundSpecified'
  BY <1>0, <1>2, <1>3, <1>4 DEF ResolveInv, FoundSpecified, FindsRow, Specified
<1>8. consumer'.pc # "called"
  BY DEF Answered, Turns, Working
<1>9. AdmitSpecified'
  <2> SUFFICES ASSUME consumer'.pc = "admit"
               PROVE  consumer'.delivery.event = e /\ Specified(e)'
    BY DEF AdmitSpecified, Specified
  <2>1. call[c].answer = "stored" /\ consumer'.delivery = consumer.delivery
    BY <1>1 DEF Answered, Turns, Working
  <2>2. Specified(e)
    BY <1>0, <1>1, <2>1 DEF RunnerAsks, Answered
  <2> QED BY <1>1, <1>2, <2>1, <2>2 DEF Specified
<1> QED BY <1>5, <1>6, <1>7, <1>8, <1>9 DEF SpecInv, ResolveInv, RunnerAsks

\* What the consumer does on its own
LEMMA QuietConsumer ==
  ASSUME TypeOK, [Next]_vars, ~Calling
  PROVE  /\ UNCHANGED rvars
         /\ consumer'.pc \in {"called", "admit"} => consumer' = consumer
         /\ \/ admitted' = admitted
            \/ consumer.pc = "admit" /\ admitted' = admitted \cup {consumer.delivery.event}
<1>1. UNCHANGED rvars
  BY NextCases, SplitTypes, PostingTypes, SendingTypes, KeepingTypes, ConsumingTypes DEF vars
<1>2. CASE UNCHANGED <<consumer, admitted>>
  BY <1>1, <1>2
<1>3. CASE UNCHANGED vars \/ Posting \/ Sending \/ Keeping
  <2>1. UNCHANGED <<consumer, admitted>>
    BY <1>3 DEF vars, Posting, Post, Sending, Mark, MarkFails, RestartPublisher, SendPending,
         SendFails, Keeping, CloseWindow, Prune, ReplayDeadLetter, runner
  <2> QED BY <1>2, <2>1
<1>4. CASE Consuming
  <2>1. consumer'.pc \notin {"called", "admit"}
    BY <1>4 DEF Consuming, Fetch, ResolveFails, Admit, AdmitFails, Nak, DeadLetter, Diagnose, Ack,
         ConsumerEnds, RestartConsumer, Turns, Working, Waiting, Ended
  <2>2. \/ admitted' = admitted
        \/ consumer.pc = "admit" /\ admitted' = admitted \cup {consumer.delivery.event}
    BY <1>4 DEF Consuming, Fetch, ResolveFails, Admit, AdmitFails, Nak, DeadLetter, Diagnose, Ack,
         ConsumerEnds, RestartConsumer
  <2> QED BY <1>1, <2>1, <2>2
<1> QED BY <1>3, <1>4, NextCases

\* No step of any process changes or confuses specifications.
LEMMA SpecKept ==
  ASSUME TypeOK, SpecInv, [Next]_vars
  PROVE  SpecInv'
<1>0. ResolveInv /\ RunnerAsks /\ AdmitSpecified /\ AdmittedAsSpecified
  BY DEF SpecInv
<1>1. CASE ~Calling
  <2>1. UNCHANGED <<specs, idempotency, call>>
    BY <1>1, QuietConsumer DEF rvars, registry
  <2>2. ResolveInv'
    BY <1>0, <2>1 DEF ResolveInv, AsksAsked, StoredSpecified, FoundSpecified, FindsRow, InProgress,
         Specified
  <2>3. RunnerAsks' /\ AdmitSpecified'
    BY <1>0, <1>1, <2>1, QuietConsumer DEF RunnerAsks, AdmitSpecified, InProgress, Returned,
         Specified
  <2>4. AdmittedAsSpecified'
    BY <1>0, <1>1, <2>1, QuietConsumer DEF AdmittedAsSpecified, AdmitSpecified, Specified
  <2> QED BY <2>2, <2>3, <2>4 DEF SpecInv
<1>2. CASE \E c \in Caller : RegistryStep(c)
  BY <1>2, RegistryStepSpecs
<1>3. CASE \E c \in Caller, q \in Asked : Administer(c, q)
  <2>1. PICK c \in Caller, q \in Asked : Administer(c, q)
    BY <1>3
  <2>2. /\ ResolveInv' /\ UNCHANGED <<specs, idempotency>>
        /\ \A d \in Caller \ {c} : call'[d] = call[d]
        /\ UNCHANGED <<consumer, admitted>> /\ c \notin RunnerCall
    BY <1>0, <2>1, ReceiveSpecs DEF Administer, environment, runner
  <2>3. RunnerAsks'
    <3> SUFFICES ASSUME consumer.pc = "called", NEW k, k = consumer.caller
                 PROVE  call'[k] = call[k]
      BY <1>0, <2>2 DEF RunnerAsks, InProgress, Specified, Returned
    <3> QED BY <2>2, ConsumerTyped
  <2>4. AdmitSpecified' /\ AdmittedAsSpecified'
    BY <1>0, <2>2 DEF AdmitSpecified, AdmittedAsSpecified, Specified
  <2> QED BY <2>2, <2>3, <2>4 DEF SpecInv
<1>4. CASE \E c \in RunnerCall : CallRegistry(c)
  <2>1. PICK c \in RunnerCall : CallRegistry(c)
    BY <1>4
  <2>2. PICK e : e = consumer.delivery.event
    OBVIOUS
  <2>3. c \in Caller /\ e \in Asked /\ Receive(c, e)
    BY <2>1, <2>2, ConsumerTyped, EventIsRequest, AdmissionAssumption DEF CallRegistry
  <2>4. /\ ResolveInv' /\ UNCHANGED <<specs, idempotency>>
        /\ call'[c].pc # "idle" /\ call'[c].request = e
    BY <1>0, <2>3, ReceiveSpecs
  <2>5. /\ consumer' = [pc |-> "called", delivery |-> consumer.delivery, caller |-> c]
        /\ admitted' = admitted
    BY <2>1 DEF CallRegistry
  <2>6. RunnerAsks'
    BY <2>2, <2>4, <2>5 DEF RunnerAsks, InProgress
  <2>7. AdmitSpecified' /\ AdmittedAsSpecified'
    BY <1>0, <2>4, <2>5 DEF AdmitSpecified, AdmittedAsSpecified, Specified
  <2> QED BY <2>4, <2>6, <2>7 DEF SpecInv
<1>5. CASE Answered
  BY <1>5, AnsweredSpecs
<1> QED BY <1>1, <1>2, <1>3, <1>4, <1>5 DEF Calling

-----------------------------------------------------------------------------
LEMMA AInvStart == Init => AInv
<1> SUFFICES ASSUME Init
             PROVE  AInv
  OBVIOUS
<1>0. \A c \in Caller : call[c] = Idle
  BY DEF Init
<1>1. RTypeOK
  <2> DEFINE ReleaseRow == [status : {"absent", "published", "deprecated"},
                            agent : Agent \cup {"none"}, version : Version \cup {"none"},
                            image : Image \cup {"none"}]
             GrantRow == [state : {"absent", "active", "revoked"},
                          agent : Agent \cup {"none"}, user : User \cup {"none"}]
  <2>1. \A q \in Offered : ReleaseOf(q) \in ReleaseRow
    BY AdmissionAssumption DEF Publishing, ReleaseOf
  <2>2. \A q \in Granted : GrantOf(q) \in GrantRow
    BY AdmissionAssumption DEF Granting, GrantOf
  <2>3. NoRelease \in ReleaseRow /\ NoGrant \in GrantRow
    BY DEF NoRelease, NoGrant
  <2> HIDE DEF ReleaseRow, GrantRow
  <2>4. releases \in [Release -> ReleaseRow]
    BY <2>1, <2>3 DEF Init
  <2>5. grants \in [AccessGrant -> GrantRow]
    BY <2>2, <2>3 DEF Init
  <2>6. specs \in [Run -> [release : Release \cup {"none"}, user : User \cup {"none"}]]
    BY DEF Init, NoSpec
  <2>7. default \in [Agent -> Release \cup {"none"}] /\ idempotency \subseteq Request
    BY DEF Init
  <2>8. call \in [Caller -> Ready \cup Active]
    BY DEF Init, Ready
  <2> QED BY <2>4, <2>5, <2>6, <2>7, <2>8 DEF RTypeOK, ReleaseRow, GrantRow, Ready, Active
<1>2. DTypes
  BY AdmissionAssumption DEF Init, DTypes
<1>3. DeliveryInv
  BY DEF Init, DeliveryInv, WindowArrived, MarkArrived, AckSettled, PostedKept, Waiting
<1>4. ResolveInv
  BY <1>0 DEF Init, ResolveInv, AsksAsked, StoredSpecified, FoundSpecified, FindsRow, InProgress, Idle
<1>5. RunnerAsks /\ AdmitSpecified /\ AdmittedAsSpecified
  BY DEF Init, RunnerAsks, AdmitSpecified, AdmittedAsSpecified, Waiting
<1> QED BY <1>1, <1>2, <1>3, <1>4, <1>5, SplitTypes DEF AInv, SpecInv

\* Types first, then each half of the invariant from the types before and after.
LEMMA AInvKept == AInv /\ [Next]_vars => AInv'
<1> SUFFICES ASSUME AInv, [Next]_vars
             PROVE  AInv'
  OBVIOUS
<1>1. TypeOK /\ DeliveryInv /\ SpecInv /\ AsksAsked
  BY DEF AInv, SpecInv, ResolveInv
<1>2. TypeOK'
  BY <1>1, TypesStay
<1>3. DeliveryInv' /\ SpecInv'
  BY <1>1, <1>2, DeliveryKept, SpecKept
<1> QED BY <1>2, <1>3 DEF AInv

\* The inductive invariant of publish_loop, JetStream, consume_admissions and the
\* Registry they ask: types, where a request may be, and what is known of its specification.
THEOREM AdmissionInvariant == Spec => []AInv
  BY AInvStart, AInvKept, PTL DEF Spec

-----------------------------------------------------------------------------
(* What it is for                                                           *)

\* The tables, the stream, the publisher and the consumer have their types.
THEOREM AdmissionTypes == Spec => []TypeOK
  BY AdmissionInvariant, PTL DEF AInv

\* A run request that was posted is on its way, admitted or a dead letter,
\* whatever fails between publish_loop, JetStream and consume_admissions, for
\* any number of copies, deliveries and restarts.
THEOREM NothingLost == Spec => []NoRequestLost
<1>1. DeliveryInv => NoRequestLost
  BY DEF DeliveryInv, PostedKept, NoRequestLost, OnItsWay, Arrived, Stored
<1> QED BY <1>1, AdmissionInvariant, PTL DEF AInv

\* A run is admitted with the specification that the Registry stores for it,
\* for any number of administrators and of the Runner's own repeated calls.
THEOREM SpecificationAdmitted == Spec => []AdmittedAsSpecified
  BY AdmissionInvariant, PTL DEF AInv, SpecInv

\* The specification of a run does not change once it is there: a second
\* resolve of the Registry returns the first one.
THEOREM SpecificationImmutable ==
  Spec => [][\A q \in Request : q.op = "resolve" /\ Specified(q) => Specified(q)']_vars
<1>1. AInv /\ [Next]_vars =>
        [\A q \in Request : q.op = "resolve" /\ Specified(q) => Specified(q)']_vars
  BY SpecsStay DEF AInv, SpecInv
<1> QED BY <1>1, AdmissionInvariant, PTL DEF Spec
=============================================================================
