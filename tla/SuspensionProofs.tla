-------------------------- MODULE SuspensionProofs --------------------------
(***************************************************************************)
(* Proofs about Suspension: for any runs, questions and number of attempts *)
(* a question that is open to the user has its checkpoint, and a run that  *)
(* waits for input is one whose question was accepted in full.             *)
(*                                                                         *)
(* The argument follows a question from the agent outwards: nothing is     *)
(* sent before the checkpoint is stored, nothing is accepted that was not  *)
(* sent, nothing is taken in that was not accepted; and the Runner, which  *)
(* hears of the commitment only, suspends the attempt that made it.        *)
(***************************************************************************)
EXTENDS Suspension, TLAPS

Unsent == {"absent", "started", "connected", "putting", "stored"}

\* What the program of an attempt has done, wherever it is or was
AgentInv ==
  \A x \in Attempt :
    /\ x[2] > runs[x[1]].epoch => agent[x].pc = "absent"
    /\ agent[x].pc \in Unsent => agent[x].sent = 0
    /\ agent[x].pc = "proposed" => agent[x].sent = 1
    /\ agent[x].pc = "stored" \/ agent[x].sent > 0 =>
         \E c \in checkpoints : c.id = QuestionOf[x]
    /\ accepted[x] <= agent[x].sent

\* One checkpoint per question, put by an attempt that asks it; the thread has
\* a newest version
StoreInv ==
  /\ \A c, d \in checkpoints : c.id = d.id => c = d
  /\ \A c \in checkpoints : \E x \in Attempt : c.id = QuestionOf[x] /\ c.run = x[1]
  /\ checkpoints # {} =>
       \E c \in checkpoints : \A d \in checkpoints : d.version <= c.version

TakenInv == \A e \in taken : accepted[e.of] >= 1

RunsInv ==
  \A r \in Run :
    /\ runs[r].state \in {"absent", "requested"} => runs[r].epoch = 0 /\ ~runs[r].active
    /\ runs[r].state = "scheduled" => runs[r].epoch < MaxAttempts
    /\ runs[r].active => runs[r].epoch >= 1
    /\ runs[r].state \in {"suspending", "waiting_for_input"} =>
         runs[r].epoch >= 1 /\ accepted[<<r, runs[r].epoch>>] = 2
    /\ runs[r].state = "waiting_for_input" => ~Alive(<<r, runs[r].epoch>>)

\* The run of the suspension that is at work may have moved on, to a newer
\* attempt also, but not to another suspension
SuspenderInv ==
  suspender.pc \in {"remove", "close"} =>
    /\ suspender.epoch >= 1 /\ suspender.epoch <= runs[suspender.run].epoch
    /\ runs[suspender.run].state = "suspending" =>
         suspender.epoch = runs[suspender.run].epoch
    /\ suspender.pc = "close" => ~Alive(<<suspender.run, suspender.epoch>>)

SInv == TypeOK /\ AgentInv /\ StoreInv /\ TakenInv /\ RunsInv /\ SuspenderInv

-----------------------------------------------------------------------------
(* What a step may do to the parts                                          *)

LEMMA AttemptIs ==
  /\ \A x \in Attempt : x = <<x[1], x[2]>> /\ x[1] \in Run /\ x[2] \in 1..MaxAttempts
                        /\ x[2] \in Nat /\ x[2] >= 1
  /\ \A r \in Run, n \in 1..MaxAttempts : <<r, n>> \in Attempt
  /\ \A x \in Attempt : QuestionOf[x] \in Question
  BY SuspensionAssumption DEF Attempt

LEMMA NewestIsVersion ==
  ASSUME TypeOK, StoreInv
  PROVE  Newest \in Nat /\ \A c \in checkpoints : c.version <= Newest
<1>1. CASE checkpoints = {}
  BY <1>1 DEF Newest
<1>2. CASE checkpoints # {}
  <2>1. PICK c \in checkpoints : \A d \in checkpoints : d.version <= c.version
    BY <1>2 DEF StoreInv
  <2>2. \E v \in {d.version : d \in checkpoints} : \A d \in checkpoints : d.version <= v
    BY <2>1
  <2>3. /\ Newest \in {d.version : d \in checkpoints}
        /\ \A d \in checkpoints : d.version <= Newest
    BY <1>2, <2>2 DEF Newest
  <2> QED BY <2>3 DEF TypeOK
<1> QED BY <1>1, <1>2

Same(x) == agent'[x] = agent[x]
Step(x, from, to) ==
  agent[x].pc = from /\ agent'[x].pc = to /\ agent'[x].sent = agent[x].sent
Sends(x, from, to) ==
  agent[x].pc = from /\ agent'[x].pc = to /\ agent'[x].sent = agent[x].sent + 1

\* The program of an attempt goes through its steps in their order.
LEMMA AgentSteps ==
  ASSUME TypeOK, RunsInv, [Next]_vars, NEW x \in Attempt
  PROVE  \/ Same(x)
         \/ /\ agent'[x].pc = "started" /\ agent'[x].sent = agent[x].sent
            /\ x[2] = runs[x[1]].epoch + 1 /\ runs'[x[1]].epoch = x[2]
         \/ Alive(x) /\ agent'[x].pc = "gone" /\ agent'[x].sent = agent[x].sent
         \/ Step(x, "started", "connected")
         \/ Step(x, "connected", "putting")
         \/ /\ Step(x, "putting", "stored")
            /\ \E c \in checkpoints' : c.id = QuestionOf[x]
         \/ Sends(x, "stored", "proposed")
         \/ Sends(x, "proposed", "committed")
<1> USE DEF Same, Step, Sends
<1>1. ASSUME NEW y \in Attempt, Hello(y) \/ Put(y)
      PROVE  Same(x) \/ Step(x, "started", "connected") \/ Step(x, "connected", "putting")
  BY <1>1 DEF Hello, Put, Goto, TypeOK
<1>2. ASSUME NEW y \in Attempt, Ask(y)
      PROVE  Same(x) \/ Sends(x, "stored", "proposed") \/ Sends(x, "proposed", "committed")
  BY <1>2 DEF Ask, Send, Durable, TypeOK
<1>3. ASSUME NEW y \in Attempt, Exit(y)
      PROVE  Same(x) \/ (Alive(x) /\ agent'[x].pc = "gone" /\ agent'[x].sent = agent[x].sent)
  BY <1>3 DEF Exit, Gone, Goto, TypeOK
<1>4. ASSUME NEW p \in puts, HandlePut(p)
      PROVE  \/ Same(x)
             \/ Alive(x) /\ agent'[x].pc = "gone" /\ agent'[x].sent = agent[x].sent
             \/ /\ Step(x, "putting", "stored")
                /\ \E c \in checkpoints' : c.id = QuestionOf[x]
  <2>1. CASE Admissible(p)
    <3>1. checkpoints' = checkpoints \cup {RowOf(p)} /\ Confirm(p.of)
      BY <1>4, <2>1 DEF HandlePut
    <3>2. RowOf(p).id = QuestionOf[p.of]
      BY DEF RowOf
    <3> QED BY <3>1, <3>2 DEF Confirm, Goto, TypeOK
  <2>2. CASE ~Admissible(p)
    BY <1>4, <2>2 DEF HandlePut, Refuse, Gone, Goto, Alive, TypeOK
  <2> QED BY <2>1, <2>2
<1>5. ASSUME NEW r \in Run, Schedule(r)
      PROVE  \/ Same(x)
             \/ /\ agent'[x].pc = "started" /\ agent'[x].sent = agent[x].sent
                /\ x[2] = runs[x[1]].epoch + 1 /\ runs'[x[1]].epoch = x[2]
  <2> DEFINE n == runs[r].epoch + 1
  <2>1. CASE UNCHANGED agent
    BY <2>1
  <2>2. CASE /\ runs' = [runs EXCEPT ![r] = [@ EXCEPT !.state = "running", !.epoch = n,
                                                     !.active = TRUE]]
             /\ Goto(<<r, n>>, "started")
    <3>1. runs'[r].epoch = n
      BY <2>2 DEF TypeOK
    <3>2. CASE x = <<r, n>>
      BY <2>2, <3>1, <3>2 DEF Goto, TypeOK
    <3>3. CASE x # <<r, n>>
      BY <2>2, <3>3 DEF Goto, TypeOK
    <3> QED BY <3>2, <3>3
  <2> QED BY <1>5, <2>1, <2>2 DEF Schedule
<1>6. ASSUME EndSuspend \/ EndCancel
      PROVE  Same(x) \/ (Alive(x) /\ agent'[x].pc = "gone" /\ agent'[x].sent = agent[x].sent)
  <2>1. ASSUME NEW r, NEW n, Removed(r, n)
        PROVE  Same(x) \/ (Alive(x) /\ agent'[x].pc = "gone" /\ agent'[x].sent = agent[x].sent)
    <3>1. CASE UNCHANGED agent
      BY <3>1
    <3>2. CASE Alive(<<r, n>>) /\ agent' = [agent EXCEPT ![<<r, n>>].pc = "gone"] /\ x = <<r, n>>
      BY <3>2 DEF TypeOK
    <3>3. CASE agent' = [agent EXCEPT ![<<r, n>>].pc = "gone"] /\ x # <<r, n>>
      BY <3>3 DEF TypeOK
    <3> QED BY <2>1, <3>1, <3>2, <3>3 DEF Removed, Gone, Goto
  <2> QED BY <1>6, <2>1 DEF EndSuspend, EndCancel
<1>7. ASSUME NEW y \in Attempt, Accept(y) \/ Inspect(y) \/ BeginSuspend(y)
      PROVE  Same(x)
  BY <1>7 DEF Accept, Inspect, BeginSuspend, sdk
<1>8. ASSUME \/ \E e \in Events : TakeIn(e)
             \/ \E s \in Question, r \in Run : Respond(s, r)
             \/ \E r \in Run : Admit(r) \/ Cancel(r)
             \/ ReadRows \/ SuspendFails \/ UNCHANGED vars
      PROVE  Same(x)
  BY <1>8 DEF TakeIn, Respond, Admit, Cancel, ReadRows, SuspendFails, vars, sdk
<1> QED BY <1>1, <1>2, <1>3, <1>4, <1>5, <1>6, <1>7, <1>8 DEF Next

\* The state of a run goes through these changes and no other.
KeepsLease(r) ==
  runs'[r].epoch = runs[r].epoch /\ runs'[r].active = runs[r].active
Changes(r, from, to) == runs[r].state \in from /\ runs'[r].state \in to

LEMMA RunSteps ==
  ASSUME TypeOK, RunsInv, [Next]_vars, NEW r \in Run
  PROVE  \/ runs'[r] = runs[r]
         \/ Changes(r, {"absent"}, {"requested"}) /\ KeepsLease(r)
         \/ Changes(r, {"requested"}, {"scheduled"}) /\ KeepsLease(r)
         \/ /\ Changes(r, {"scheduled"}, {"running", "failed"})
            /\ runs'[r].epoch = runs[r].epoch + 1
         \/ /\ runs[r].active /\ runs'[r].state = "failed"
            /\ runs'[r].epoch = runs[r].epoch /\ ~runs'[r].active
         \/ /\ runs[r].active /\ runs'[r].state = "scheduled"
            /\ runs'[r].epoch = runs[r].epoch /\ ~runs'[r].active /\ runs[r].epoch < MaxAttempts
         \/ /\ Changes(r, {"running", "suspending"}, {"suspending"}) /\ KeepsLease(r)
            /\ suspender'.pc = "remove" /\ suspender'.run = r
            /\ suspender'.epoch = runs[r].epoch /\ runs[r].epoch >= 1
            /\ accepted[<<r, runs[r].epoch>>] = 2
         \/ /\ Changes(r, {"suspending"}, {"waiting_for_input"})
            /\ runs'[r].epoch = runs[r].epoch /\ ~runs'[r].active
            /\ suspender.pc = "close" /\ suspender.run = r /\ UNCHANGED agent
         \/ runs[r].state \notin {"absent", "requested"} /\ runs'[r].state = "cancelling"
            /\ KeepsLease(r)
         \/ /\ Changes(r, {"cancelling"}, {"cancelled"})
            /\ runs'[r].epoch = runs[r].epoch /\ ~runs'[r].active
<1> USE DEF Changes, KeepsLease
<1>1. ASSUME NEW s \in Question, NEW q \in Run, Respond(s, q)
      PROVE  runs'[r] = runs[r] \/ (Changes(r, {"absent"}, {"requested"}) /\ KeepsLease(r))
  BY <1>1 DEF Respond, TypeOK
<1>2. ASSUME NEW q \in Run, Admit(q)
      PROVE  runs'[r] = runs[r] \/ (Changes(r, {"requested"}, {"scheduled"}) /\ KeepsLease(r))
  BY <1>2 DEF Admit, TypeOK
<1>3. ASSUME NEW q \in Run, Schedule(q)
      PROVE  \/ runs'[r] = runs[r]
             \/ /\ Changes(r, {"scheduled"}, {"running", "failed"})
                /\ runs'[r].epoch = runs[r].epoch + 1
  <2>1. CASE q # r
    BY <1>3, <2>1 DEF Schedule, TypeOK
  <2>2. CASE q = r
    <3>1. runs[r].state = "scheduled" /\ r \in DOMAIN runs
      BY <1>3, <2>2 DEF Schedule, TypeOK
    <3>2. CASE runs' = [runs EXCEPT ![r] = [@ EXCEPT !.state = "running", !.epoch = runs[r].epoch + 1,
                                                      !.active = TRUE]]
      <4>1. runs'[r] = [runs[r] EXCEPT !.state = "running", !.epoch = runs[r].epoch + 1,
                                       !.active = TRUE]
        BY <3>1, <3>2
      <4> QED BY <3>1, <4>1 DEF TypeOK
    <3>3. CASE runs' = [runs EXCEPT ![r] = [@ EXCEPT !.state = "failed", !.epoch = runs[r].epoch + 1]]
      <4>1. runs'[r] = [runs[r] EXCEPT !.state = "failed", !.epoch = runs[r].epoch + 1]
        BY <3>1, <3>3
      <4> QED BY <3>1, <4>1 DEF TypeOK
    <3> QED BY <1>3, <2>2, <3>2, <3>3 DEF Schedule
  <2> QED BY <2>1, <2>2
<1>4. ASSUME NEW x \in Attempt, Inspect(x)
      PROVE  \/ runs'[r] = runs[r]
             \/ /\ runs[r].active /\ runs'[r].state = "failed"
                /\ runs'[r].epoch = runs[r].epoch /\ ~runs'[r].active
             \/ /\ runs[r].active /\ runs'[r].state = "scheduled"
                /\ runs'[r].epoch = runs[r].epoch /\ ~runs'[r].active
                /\ runs[r].epoch < MaxAttempts
  <2>1. CASE UNCHANGED runs
    BY <2>1
  <2>2. ASSUME IsActive(x), NEW to \in {"failed"} \cup (IF MayRetry(x) THEN {"scheduled"} ELSE {}),
               runs' = [runs EXCEPT ![x[1]] = [@ EXCEPT !.state = to, !.active = FALSE]]
        PROVE  \/ runs'[r] = runs[r]
               \/ /\ runs[r].active /\ runs'[r].state = to
                  /\ runs'[r].epoch = runs[r].epoch /\ ~runs'[r].active
                  /\ to = "scheduled" => runs[r].epoch < MaxAttempts
    <3>1. to = "scheduled" => x[2] < MaxAttempts
      BY <2>2 DEF MayRetry
    <3>2. CASE r = x[1]
      BY <2>2, <3>1, <3>2 DEF IsActive, TypeOK
    <3>3. CASE r # x[1]
      BY <2>2, <3>3 DEF TypeOK
    <3> QED BY <3>2, <3>3
  <2> QED BY <1>4, <2>1, <2>2 DEF Inspect
<1>5. ASSUME NEW x \in Attempt, BeginSuspend(x)
      PROVE  \/ runs'[r] = runs[r]
             \/ /\ Changes(r, {"running", "suspending"}, {"suspending"}) /\ KeepsLease(r)
                /\ suspender'.pc = "remove" /\ suspender'.run = r
                /\ suspender'.epoch = runs[r].epoch /\ runs[r].epoch >= 1
                /\ accepted[<<r, runs[r].epoch>>] = 2
  <2>1. CASE r # x[1]
    BY <1>5, <2>1 DEF BeginSuspend, TypeOK
  <2>2. CASE r = x[1]
    <3>1. runs[r].epoch = x[2] /\ x = <<r, runs[r].epoch>> /\ runs[r].epoch >= 1
      BY <1>5, <2>2, AttemptIs DEF BeginSuspend, Suspendable, IsActive
    <3>2. accepted[<<r, runs[r].epoch>>] = 2
      BY <1>5, <3>1 DEF BeginSuspend, Committed
    <3>3. /\ Changes(r, {"running", "suspending"}, {"suspending"}) /\ KeepsLease(r)
          /\ suspender' = [pc |-> "remove", run |-> x[1], epoch |-> x[2]]
      BY <1>5, <2>2 DEF BeginSuspend, Suspendable, TypeOK
    <3> QED BY <2>2, <3>1, <3>2, <3>3
  <2> QED BY <2>1, <2>2
<1>6. CASE EndSuspend
  <2>1. CASE UNCHANGED runs
    BY <2>1
  <2>2. CASE ~UNCHANGED runs
    <3> DEFINE q == suspender.run
    <3>1. /\ suspender.pc = "close" /\ runs[q].state = "suspending" /\ UNCHANGED agent
          /\ runs' = [runs EXCEPT ![q] = [@ EXCEPT !.state = "waiting_for_input", !.active = FALSE]]
      BY <1>6, <2>2 DEF EndSuspend
    <3> HIDE DEF q
    <3>2. CASE r = q
      <4>1. runs'[r] = [runs[r] EXCEPT !.state = "waiting_for_input", !.active = FALSE]
        BY <3>1, <3>2 DEF TypeOK
      <4>2. /\ runs'[r].state = "waiting_for_input" /\ ~runs'[r].active
            /\ runs'[r].epoch = runs[r].epoch
        BY <4>1 DEF TypeOK
      <4>3. runs[r].state = runs[q].state /\ suspender.run = r
        BY <3>2 DEF q
      <4> QED BY <3>1, <4>2, <4>3
    <3>3. CASE r # q
      BY <3>1, <3>3 DEF TypeOK
    <3> QED BY <3>2, <3>3
  <2> QED BY <2>1, <2>2
<1>7. ASSUME NEW q \in Run, Cancel(q)
      PROVE  \/ runs'[r] = runs[r]
             \/ /\ runs[r].state \notin {"absent", "requested"} /\ runs'[r].state = "cancelling"
                /\ KeepsLease(r)
  BY <1>7 DEF Cancel, TypeOK
<1>8. CASE EndCancel
  <2>1. CASE UNCHANGED runs
    BY <2>1
  <2>2. CASE ~UNCHANGED runs
    <3> DEFINE q == canceller.run
    <3>1. /\ canceller.pc = "close" /\ runs[q].state = "cancelling" /\ UNCHANGED agent
          /\ runs' = [runs EXCEPT ![q] = [@ EXCEPT !.state = "cancelled", !.active = FALSE]]
      BY <1>8, <2>2 DEF EndCancel
    <3> HIDE DEF q
    <3>2. CASE r = q
      <4>1. runs'[r] = [runs[r] EXCEPT !.state = "cancelled", !.active = FALSE]
        BY <3>1, <3>2 DEF TypeOK
      <4>2. /\ runs'[r].state = "cancelled" /\ ~runs'[r].active
            /\ runs'[r].epoch = runs[r].epoch
        BY <4>1 DEF TypeOK
      <4>3. runs[r].state = runs[q].state /\ canceller.run = r
        BY <3>2 DEF q
      <4> QED BY <3>1, <4>2, <4>3
    <3>3. CASE r # q
      BY <3>1, <3>3 DEF TypeOK
    <3> QED BY <3>2, <3>3
  <2> QED BY <2>1, <2>2
<1>9. ASSUME \/ \E x \in Attempt : Hello(x) \/ Put(x) \/ Ask(x) \/ Exit(x) \/ Accept(x)
             \/ \E p \in puts : HandlePut(p)
             \/ \E e \in Events : TakeIn(e)
             \/ ReadRows \/ SuspendFails \/ UNCHANGED vars
      PROVE  runs'[r] = runs[r]
  BY <1>9 DEF Hello, Put, Ask, Exit, Accept, HandlePut, TakeIn, ReadRows, SuspendFails, vars
<1> QED BY <1>1, <1>2, <1>3, <1>4, <1>5, <1>6, <1>7, <1>8, <1>9 DEF Next

\* What is accepted was sent, and what is taken in was accepted.
LEMMA FrameSteps ==
  ASSUME TypeOK, [Next]_vars
  PROVE  /\ \A x \in Attempt :
              \/ accepted'[x] = accepted[x]
              \/ accepted'[x] = accepted[x] + 1 /\ accepted[x] < agent[x].sent /\ UNCHANGED agent
         /\ \A e \in taken' : e \in taken \/ (accepted[e.of] >= 1 /\ accepted' = accepted)
<1>1. ASSUME NEW y \in Attempt, Accept(y)
      PROVE  /\ taken' = taken
             /\ \A x \in Attempt :
                  \/ accepted'[x] = accepted[x]
                  \/ accepted'[x] = accepted[x] + 1 /\ accepted[x] < agent[x].sent /\ UNCHANGED agent
  BY <1>1 DEF Accept, NextFrame, TypeOK, sdk, user
<1>2. ASSUME NEW e \in Events, TakeIn(e)
      PROVE  accepted' = accepted /\ taken' = taken \cup {e} /\ accepted[e.of] >= 1
  <2>1. accepted[e.of] >= (IF e.kind = "request" THEN 1 ELSE 2) /\ accepted[e.of] \in 0..2
    BY <1>2 DEF TakeIn, Announced, Events, TypeOK
  <2> QED BY <1>2, <2>1 DEF TakeIn, stream
<1>3. ASSUME [Next]_vars, ~\E y \in Attempt : Accept(y), ~\E e \in Events : TakeIn(e)
      PROVE  accepted' = accepted /\ taken' = taken
  BY <1>3 DEF Next, Hello, Put, Ask, Exit, Inspect, BeginSuspend, HandlePut, Respond, Admit,
              Schedule, Cancel, ReadRows, EndSuspend, SuspendFails, EndCancel, vars, stream, user
<1> QED BY <1>1, <1>2, <1>3

-----------------------------------------------------------------------------
(* Types                                                                    *)

RunRecord == [state : {"absent", "requested", "scheduled", "running", "suspending",
                       "waiting_for_input", "cancelling"} \cup Terminal,
              epoch : 0..MaxAttempts, active : BOOLEAN, start : Question \cup {none}]
AgentRecord == [pc : {"absent", "started", "connected", "putting", "stored",
                      "proposed", "committed", "gone"}, sent : 0..2]

\* A program that goes to a step keeps its type, and so does one that is removed.
LEMMA GotoTypes ==
  ASSUME TypeOK
  PROVE  /\ agent \in [Attempt -> AgentRecord] /\ runs \in [Run -> RunRecord]
         /\ \A x : \A pc \in {"started", "connected", "putting", "stored", "gone"} :
              Goto(x, pc) => agent' \in [Attempt -> AgentRecord]
         /\ \A r, n : Removed(r, n) => agent' \in [Attempt -> AgentRecord]
<1>1. agent \in [Attempt -> AgentRecord] /\ runs \in [Run -> RunRecord]
  BY DEF TypeOK, AgentRecord, RunRecord
<1>2. ASSUME NEW x, NEW pc \in {"started", "connected", "putting", "stored", "gone"}, Goto(x, pc)
      PROVE  agent' \in [Attempt -> AgentRecord]
  <2>1. CASE x \in Attempt
    <3>1. [agent[x] EXCEPT !.pc = pc] \in AgentRecord
      BY <1>1, <2>1 DEF AgentRecord
    <3> QED BY <1>1, <1>2, <2>1, <3>1 DEF Goto
  <2>2. CASE x \notin Attempt
    BY <1>1, <1>2, <2>2 DEF Goto
  <2> QED BY <2>1, <2>2
<1>3. ASSUME NEW r, NEW n, Removed(r, n) PROVE agent' \in [Attempt -> AgentRecord]
  <2>1. CASE UNCHANGED agent
    BY <1>1, <2>1
  <2>2. CASE Goto(<<r, n>>, "gone")
    BY <1>2, <2>2
  <2> QED BY <1>3, <2>1, <2>2 DEF Removed, Gone
<1> QED BY <1>1, <1>2, <1>3

\* So does a row of runs that is given another state, epoch or lease.
LEMMA RecordTypes ==
  ASSUME NEW q \in RunRecord,
         NEW to \in {"absent", "requested", "scheduled", "running", "suspending", "waiting_for_input",
                     "cancelling", "failed", "cancelled"}
  PROVE  /\ [q EXCEPT !.state = to] \in RunRecord
         /\ [q EXCEPT !.state = to, !.active = FALSE] \in RunRecord
         /\ \A n \in 0..MaxAttempts :
              /\ [q EXCEPT !.state = to, !.epoch = n] \in RunRecord
              /\ [q EXCEPT !.state = to, !.epoch = n, !.active = TRUE] \in RunRecord
         /\ \A s \in Question : [q EXCEPT !.state = to, !.start = s] \in RunRecord
  BY DEF RunRecord, Terminal

\* Typing: a step keeps every variable in its type.
LEMMA TypeStep ==
  ASSUME TypeOK, RunsInv, AgentInv, StoreInv, [Next]_vars
  PROVE  TypeOK'
<1> USE SuspensionAssumption
<1>0. \A r \in Run : runs[r] \in RunRecord
  BY GotoTypes
<1>1. ASSUME NEW x \in Attempt, Hello(x) PROVE TypeOK'
  <2>1. agent' \in [Attempt -> AgentRecord]
    BY <1>1, GotoTypes DEF Hello
  <2>2. streams' \in [Run -> 0..MaxAttempts]
    BY <1>1, AttemptIs DEF Hello, TypeOK
  <2> QED BY <1>1, <2>1, <2>2 DEF Hello, TypeOK, AgentRecord, store, user, tasks
<1>2. ASSUME NEW x \in Attempt, Put(x) PROVE TypeOK'
  <2>1. agent' \in [Attempt -> AgentRecord]
    BY <1>2, GotoTypes DEF Put
  <2>2. \A v \in Expected(x[1]) : v \in Nat
    BY NewestIsVersion DEF Expected, Lookup, TypeOK
  <2>3. puts' \subseteq [of : Attempt, expected : Nat]
    BY <1>2, <2>2 DEF Put, TypeOK
  <2> QED BY <1>2, <2>1, <2>3 DEF Put, TypeOK, AgentRecord, store, stream, user, tasks
<1>3. ASSUME NEW x \in Attempt, Ask(x) PROVE TypeOK'
  <2>1. \E pc \in {"proposed", "committed"} :
          Send(x, pc) /\ agent[x].sent + 1 \in 0..2
    BY <1>3 DEF Ask, Durable, AgentInv, Unsent
  <2>2. PICK pc \in {"proposed", "committed"} :
          agent' = [agent EXCEPT ![x] = [pc |-> pc, sent |-> agent[x].sent + 1]]
          /\ agent[x].sent + 1 \in 0..2
    BY <2>1 DEF Send
  <2>3. [pc |-> pc, sent |-> agent[x].sent + 1] \in AgentRecord
    BY <2>2 DEF AgentRecord
  <2>4. agent' \in [Attempt -> AgentRecord]
    BY <2>2, <2>3, GotoTypes
  <2> QED BY <1>3, <2>4 DEF Ask, TypeOK, AgentRecord, store, stream, user, tasks
<1>4. ASSUME NEW x \in Attempt, Exit(x) PROVE TypeOK'
  <2>1. agent' \in [Attempt -> AgentRecord]
    BY <1>4, GotoTypes DEF Exit, Gone
  <2> QED BY <1>4, <2>1 DEF Exit, TypeOK, AgentRecord, store, stream, user, tasks
<1>5. ASSUME NEW p \in puts, HandlePut(p) PROVE TypeOK'
  <2>1. p.of \in Attempt /\ p.expected \in Nat /\ puts' \subseteq puts
    BY <1>5 DEF HandlePut, TypeOK
  <2>2. agent' \in [Attempt -> AgentRecord]
    BY <1>5, GotoTypes DEF HandlePut, Confirm, Refuse, Gone
  <2>3. RowOf(p) \in [id : Question, run : Run, version : Nat]
    BY <2>1, AttemptIs DEF RowOf
  <2>4. checkpoints' \subseteq [id : Question, run : Run, version : Nat]
    BY <1>5, <2>3 DEF HandlePut, TypeOK, store
  <2>5. leases' \in [Run -> 0..MaxAttempts]
    <3>1. p.of[2] \in 0..MaxAttempts
      BY <2>1, AttemptIs
    <3>2. leases' = leases \/ leases' = [leases EXCEPT ![p.of[1]] = p.of[2]]
      BY <1>5 DEF HandlePut, store
    <3>3. leases \in [Run -> 0..MaxAttempts]
      BY DEF TypeOK
    <3> QED BY <3>1, <3>2, <3>3
  <2> QED BY <1>5, <2>1, <2>2, <2>4, <2>5
          DEF HandlePut, TypeOK, AgentRecord, stream, user, tasks
<1>6. ASSUME NEW x \in Attempt, Accept(x) PROVE TypeOK'
  <2>1. accepted' \in [Attempt -> 0..2]
    BY <1>6 DEF Accept, NextFrame, TypeOK
  <2> QED BY <1>6, <2>1 DEF Accept, TypeOK, sdk, store, user, tasks
<1>7. ASSUME NEW e \in Events, TakeIn(e) PROVE TypeOK'
  <2>1. taken' \subseteq Events
    BY <1>7 DEF TakeIn, TypeOK
  <2>2. UNCHANGED <<runs, agent, puts, checkpoints, leases, streams, accepted, answers, rows,
                    suspender, canceller>>
    BY <1>7 DEF TakeIn, sdk, store, stream, tasks
  <2> QED BY <2>1, <2>2 DEF TypeOK
<1>8. ASSUME NEW s \in Question, NEW r \in Run, Respond(s, r) PROVE TypeOK'
  <2>1. [runs[r] EXCEPT !.state = "requested", !.start = s] \in RunRecord
    BY <1>0, RecordTypes
  <2>2. runs' = [runs EXCEPT ![r] = [runs[r] EXCEPT !.state = "requested", !.start = s]]
    BY <1>8, GotoTypes DEF Respond
  <2>3. runs' \in [Run -> RunRecord]
    BY <2>1, <2>2, GotoTypes
  <2> QED BY <1>8, <2>3 DEF Respond, TypeOK, RunRecord, sdk, store, stream, tasks
<1>9. ASSUME NEW r \in Run, NEW to \in {"scheduled", "cancelling", "suspending"},
             runs' = [runs EXCEPT ![r].state = to]
      PROVE  runs' \in [Run -> RunRecord]
  <2>1. [runs[r] EXCEPT !.state = to] \in RunRecord
    BY <1>0, RecordTypes
  <2> QED BY <1>9, <2>1, GotoTypes
<1>10. ASSUME NEW r \in Run,
              NEW to \in {"scheduled", "failed", "waiting_for_input", "cancelled"},
              runs' = [runs EXCEPT ![r] = [@ EXCEPT !.state = to, !.active = FALSE]]
       PROVE  runs' \in [Run -> RunRecord]
  <2>1. [runs[r] EXCEPT !.state = to, !.active = FALSE] \in RunRecord
    BY <1>0, RecordTypes
  <2> QED BY <1>10, <2>1, GotoTypes
<1>11. ASSUME NEW r \in Run, Admit(r) PROVE TypeOK'
  <2>1. runs' \in [Run -> RunRecord]
    BY <1>9, <1>11 DEF Admit
  <2> QED BY <1>11, <2>1 DEF Admit, TypeOK, RunRecord, sdk, store, stream, user, tasks
<1>12. ASSUME NEW r \in Run, Schedule(r) PROVE TypeOK'
  <2> DEFINE n == runs[r].epoch + 1
  <2>1. n \in 0..MaxAttempts
    <3>1. runs[r].epoch < MaxAttempts
      BY <1>12 DEF Schedule, RunsInv
    <3>2. runs[r].epoch \in 0..MaxAttempts
      BY DEF TypeOK
    <3> QED BY <3>1, <3>2
  <2>2. \A to \in {"running", "failed"} :
          /\ [runs[r] EXCEPT !.state = to, !.epoch = n, !.active = TRUE] \in RunRecord
          /\ [runs[r] EXCEPT !.state = to, !.epoch = n] \in RunRecord
    <3> HIDE DEF n
    <3> QED BY <1>0, <2>1, RecordTypes
  <2>3. runs' \in [Run -> RunRecord]
    BY <1>12, <2>2, GotoTypes DEF Schedule
  <2>4. agent' \in [Attempt -> AgentRecord]
    BY <1>12, GotoTypes DEF Schedule
  <2> QED BY <1>12, <2>3, <2>4
          DEF Schedule, TypeOK, RunRecord, AgentRecord, store, stream, user, tasks
<1>13. CASE ReadRows
  <2>1. \A r \in Run : runs[r].active => <<r, runs[r].epoch>> \in Attempt
    BY AttemptIs DEF RunsInv, TypeOK
  <2>2. rows' \subseteq Attempt
    BY <1>13, <2>1 DEF ReadRows
  <2> QED BY <1>13, <2>2 DEF ReadRows, TypeOK, sdk, store, stream, user
<1>14. ASSUME NEW x \in Attempt, Inspect(x) PROVE TypeOK'
  <2>1. runs' \in [Run -> RunRecord]
    BY <1>10, <1>14, GotoTypes, AttemptIs DEF Inspect
  <2> QED BY <1>14, <2>1 DEF Inspect, TypeOK, RunRecord, sdk, store, stream, user
<1>15. ASSUME NEW x \in Attempt, BeginSuspend(x) PROVE TypeOK'
  <2>1. runs' \in [Run -> RunRecord]
    BY <1>9, <1>15, AttemptIs DEF BeginSuspend
  <2>2. suspender' \in Task
    BY <1>15, AttemptIs DEF BeginSuspend, Task
  <2> QED BY <1>15, <2>1, <2>2 DEF BeginSuspend, TypeOK, RunRecord, sdk, store, stream, user
<1>16. CASE EndSuspend
  <2>1. suspender.pc \in {"remove", "close"} => suspender.run \in Run
          /\ [suspender EXCEPT !.pc = "close"] \in Task
    BY DEF TypeOK, Task
  <2>2. suspender' \in Task
    BY <1>16, <2>1 DEF EndSuspend, Task, Idle
  <2>3. runs' \in [Run -> RunRecord]
    BY <1>10, <1>16, <2>1, GotoTypes DEF EndSuspend
  <2>4. agent' \in [Attempt -> AgentRecord]
    BY <1>16, GotoTypes DEF EndSuspend
  <2> QED BY <1>16, <2>2, <2>3, <2>4
          DEF EndSuspend, TypeOK, RunRecord, AgentRecord, store, stream, user
<1>17. CASE SuspendFails
  BY <1>17 DEF SuspendFails, TypeOK, Task, Idle, sdk, store, stream, user
<1>18. ASSUME NEW r \in Run, Cancel(r) PROVE TypeOK'
  <2>1. runs' \in [Run -> RunRecord]
    BY <1>9, <1>18 DEF Cancel
  <2>2. canceller' \in Task
    BY <1>18, GotoTypes DEF Cancel, Task, RunRecord
  <2> QED BY <1>18, <2>1, <2>2 DEF Cancel, TypeOK, RunRecord, sdk, store, stream, user
<1>19. CASE EndCancel
  <2>1. canceller.pc \in {"remove", "close"} => canceller.run \in Run
          /\ [canceller EXCEPT !.pc = "close"] \in Task
    BY DEF TypeOK, Task
  <2>2. canceller' \in Task
    BY <1>19, <2>1 DEF EndCancel, Task, Done
  <2>3. runs' \in [Run -> RunRecord]
    BY <1>10, <1>19, <2>1, GotoTypes DEF EndCancel
  <2>4. agent' \in [Attempt -> AgentRecord]
    BY <1>19, GotoTypes DEF EndCancel
  <2> QED BY <1>19, <2>2, <2>3, <2>4
          DEF EndCancel, TypeOK, RunRecord, AgentRecord, store, stream, user
<1>20. CASE UNCHANGED vars
  BY <1>20 DEF vars, TypeOK, sdk, store, stream, user, tasks
<1> QED BY <1>1, <1>2, <1>3, <1>4, <1>5, <1>6, <1>7, <1>8, <1>11, <1>12, <1>13, <1>14, <1>15,
           <1>16, <1>17, <1>18, <1>19, <1>20 DEF Next

-----------------------------------------------------------------------------
(* The parts of the invariant                                               *)

\* A checkpoint is for good, one for a question, and newer than the others.
LEMMA StoreStep ==
  ASSUME TypeOK, StoreInv, [Next]_vars
  PROVE  StoreInv' /\ checkpoints \subseteq checkpoints'
<1>1. ASSUME NEW p \in puts, HandlePut(p)
      PROVE  StoreInv' /\ checkpoints \subseteq checkpoints'
  <2>1. CASE checkpoints' = checkpoints
    BY <2>1 DEF StoreInv
  <2>2. CASE Admissible(p) /\ RowOf(p) \notin checkpoints
    <3>1. /\ checkpoints' = checkpoints \cup {RowOf(p)}
          /\ Key(p) = {} /\ Newest = p.expected
      BY <1>1, <2>2 DEF HandlePut, Admissible
    <3>2. p.of \in Attempt
      BY DEF TypeOK
    <3>3. RowOf(p).id = QuestionOf[p.of] /\ RowOf(p).run = p.of[1] /\ RowOf(p).version = Newest + 1
      BY <3>1 DEF RowOf
    <3>4. \A c \in checkpoints : c.id # RowOf(p).id
      BY <3>1, <3>3 DEF Key
    <3>5. \A c \in checkpoints' : c.version <= RowOf(p).version
      BY <3>1, <3>3, NewestIsVersion DEF TypeOK
    <3>6. \A c, d \in checkpoints' : c.id = d.id => c = d
      BY <3>1, <3>4 DEF StoreInv
    <3>7. \A c \in checkpoints' : \E x \in Attempt : c.id = QuestionOf[x] /\ c.run = x[1]
      BY <3>1, <3>2, <3>3 DEF StoreInv
    <3> QED BY <3>1, <3>5, <3>6, <3>7 DEF StoreInv
  <2> QED BY <1>1, <2>1, <2>2 DEF HandlePut, store
<1>2. ASSUME [Next]_vars, ~\E p \in puts : HandlePut(p)
      PROVE  checkpoints' = checkpoints
  BY <1>2 DEF Next, Hello, Put, Ask, Exit, Accept, Inspect, BeginSuspend, TakeIn, Respond, Admit,
              Schedule, Cancel, ReadRows, EndSuspend, SuspendFails, EndCancel, vars, store
<1>3. CASE checkpoints' = checkpoints
  BY <1>3 DEF StoreInv
<1> QED BY <1>1, <1>2, <1>3

\* Epochs only grow.
LEMMA EpochsGrow ==
  ASSUME TypeOK, RunsInv, [Next]_vars, NEW r \in Run
  PROVE  runs[r].epoch \in Nat /\ runs'[r].epoch \in Nat /\ runs[r].epoch <= runs'[r].epoch
<1>1. runs[r].epoch \in Nat
  BY DEF TypeOK
<1>2. runs'[r].epoch = runs[r].epoch \/ runs'[r].epoch = runs[r].epoch + 1
  BY RunSteps DEF KeepsLease
<1> QED BY <1>1, <1>2

\* A container that is gone does not come back.
LEMMA DeadStaysDead ==
  ASSUME TypeOK, RunsInv, [Next]_vars, NEW x \in Attempt,
         x[2] <= runs[x[1]].epoch, ~Alive(x)
  PROVE  agent'[x].pc \in {"absent", "gone"}
<1>1. x[2] # runs[x[1]].epoch + 1
  BY AttemptIs DEF TypeOK
<1>2. agent[x].pc \in {"absent", "gone"}
  BY DEF Alive
<1> QED BY <1>1, <1>2, AgentSteps DEF Same, Step, Sends, Alive

LEMMA AgentStep ==
  ASSUME TypeOK, RunsInv, AgentInv, StoreInv, [Next]_vars, NEW x \in Attempt
  PROVE  /\ x[2] > runs'[x[1]].epoch => agent'[x].pc = "absent"
         /\ agent'[x].pc \in Unsent => agent'[x].sent = 0
         /\ agent'[x].pc = "proposed" => agent'[x].sent = 1
         /\ agent'[x].pc = "stored" \/ agent'[x].sent > 0 =>
              \E c \in checkpoints' : c.id = QuestionOf[x]
         /\ accepted'[x] <= agent'[x].sent
<1>1. /\ x[2] > runs[x[1]].epoch => agent[x].pc = "absent"
      /\ agent[x].pc \in Unsent => agent[x].sent = 0
      /\ agent[x].pc = "proposed" => agent[x].sent = 1
      /\ agent[x].pc = "stored" \/ agent[x].sent > 0 =>
           \E c \in checkpoints' : c.id = QuestionOf[x]
      /\ accepted[x] <= agent[x].sent
      /\ agent[x].sent \in Nat /\ accepted[x] \in Nat
  BY StoreStep DEF AgentInv, TypeOK
<1>2. /\ x[2] \in Nat /\ runs[x[1]].epoch \in Nat /\ runs'[x[1]].epoch \in Nat
      /\ runs[x[1]].epoch <= runs'[x[1]].epoch
  BY AttemptIs, EpochsGrow
<1>3. \/ accepted'[x] = accepted[x]
      \/ accepted'[x] = accepted[x] + 1 /\ accepted[x] < agent[x].sent /\ UNCHANGED agent
  BY FrameSteps
<1>4. CASE Same(x)
  BY <1>1, <1>2, <1>3, <1>4 DEF Same
<1>5. CASE ~Same(x)
  <2>1. accepted'[x] = accepted[x]
    BY <1>3, <1>5 DEF Same
  <2>2. CASE /\ agent'[x].pc = "started" /\ agent'[x].sent = agent[x].sent
             /\ x[2] = runs[x[1]].epoch + 1 /\ runs'[x[1]].epoch = x[2]
    BY <1>1, <1>2, <2>1, <2>2 DEF Unsent
  <2>3. CASE Alive(x) /\ agent'[x].pc = "gone" /\ agent'[x].sent = agent[x].sent
    BY <1>1, <1>2, <2>1, <2>3 DEF Unsent, Alive
  <2>4. CASE Step(x, "started", "connected") \/ Step(x, "connected", "putting")
    BY <1>1, <1>2, <2>1, <2>4 DEF Unsent, Step
  <2>5. CASE Step(x, "putting", "stored") /\ \E c \in checkpoints' : c.id = QuestionOf[x]
    BY <1>1, <1>2, <2>1, <2>5 DEF Unsent, Step
  <2>6. CASE Sends(x, "stored", "proposed") \/ Sends(x, "proposed", "committed")
    BY <1>1, <1>2, <2>1, <2>6 DEF Unsent, Sends
  <2> QED BY <1>5, <2>2, <2>3, <2>4, <2>5, <2>6, AgentSteps
<1> QED BY <1>4, <1>5

\* What is accepted stays so.
LEMMA AcceptedGrows ==
  ASSUME TypeOK, TypeOK', [Next]_vars, NEW x \in Attempt
  PROVE  accepted[x] <= accepted'[x] /\ (accepted[x] = 2 => accepted'[x] = 2)
<1>1. accepted[x] \in 0..2 /\ accepted'[x] \in 0..2
  BY DEF TypeOK
<1> QED BY <1>1, FrameSteps

LEMMA TakenStep ==
  ASSUME TypeOK, TypeOK', TakenInv, [Next]_vars
  PROVE  TakenInv'
<1> SUFFICES ASSUME NEW e \in taken' PROVE accepted'[e.of] >= 1
  BY DEF TakenInv
<1>1. CASE e \in taken
  <2>1. e.of \in Attempt /\ accepted[e.of] >= 1 /\ accepted[e.of] \in 0..2
    BY <1>1 DEF TakenInv, TypeOK, Events
  <2>2. accepted'[e.of] \in 0..2
    BY <2>1 DEF TypeOK
  <2> QED BY <2>1, <2>2, AcceptedGrows
<1>2. CASE e \notin taken
  BY <1>2, FrameSteps
<1> QED BY <1>1, <1>2

\* A row of runs: what its state says of its epoch and of its container.
LEMMA RunStep ==
  ASSUME TypeOK, TypeOK', RunsInv, SuspenderInv, [Next]_vars, NEW r \in Run
  PROVE  /\ runs'[r].state \in {"absent", "requested"} => runs'[r].epoch = 0 /\ ~runs'[r].active
         /\ runs'[r].state = "scheduled" => runs'[r].epoch < MaxAttempts
         /\ runs'[r].active => runs'[r].epoch >= 1
         /\ runs'[r].state \in {"suspending", "waiting_for_input"} =>
              runs'[r].epoch >= 1 /\ accepted'[<<r, runs'[r].epoch>>] = 2
         /\ runs'[r].state = "waiting_for_input" =>
              agent'[<<r, runs'[r].epoch>>].pc \in {"absent", "gone"}
<1>1. /\ runs[r].state \in {"absent", "requested"} => runs[r].epoch = 0 /\ ~runs[r].active
      /\ runs[r].state = "scheduled" => runs[r].epoch < MaxAttempts
      /\ runs[r].active => runs[r].epoch >= 1
      /\ runs[r].state \in {"suspending", "waiting_for_input"} =>
           runs[r].epoch >= 1 /\ accepted[<<r, runs[r].epoch>>] = 2
      /\ runs[r].state = "waiting_for_input" => ~Alive(<<r, runs[r].epoch>>)
      /\ runs[r].epoch \in Nat /\ runs[r].epoch <= MaxAttempts
      /\ MaxAttempts \in Nat /\ MaxAttempts >= 1
  BY SuspensionAssumption DEF RunsInv, TypeOK
<1> DEFINE x == <<r, runs[r].epoch>>
<1>2. runs[r].epoch >= 1 => x \in Attempt /\ x[1] = r /\ x[2] = runs[r].epoch
  BY <1>1, AttemptIs
<1>3. /\ runs[r].epoch >= 1 /\ accepted[x] = 2 => accepted'[x] = 2
      /\ runs[r].epoch >= 1 /\ ~Alive(x) => agent'[x].pc \in {"absent", "gone"}
  <2> HIDE DEF x
  <2> QED BY <1>1, <1>2, AcceptedGrows, DeadStaysDead
<1>4. CASE runs'[r] = runs[r]
  BY <1>1, <1>3, <1>4
<1>5. CASE Changes(r, {"absent"}, {"requested"}) /\ KeepsLease(r)
  BY <1>1, <1>5 DEF Changes, KeepsLease
<1>6. CASE Changes(r, {"requested"}, {"scheduled"}) /\ KeepsLease(r)
  BY <1>1, <1>6 DEF Changes, KeepsLease
<1>7. CASE Changes(r, {"scheduled"}, {"running", "failed"}) /\ runs'[r].epoch = runs[r].epoch + 1
  BY <1>1, <1>7 DEF Changes
<1>8. CASE /\ runs[r].active /\ runs'[r].state = "failed"
           /\ runs'[r].epoch = runs[r].epoch /\ ~runs'[r].active
  BY <1>1, <1>8
<1>9. CASE /\ runs[r].active /\ runs'[r].state = "scheduled"
           /\ runs'[r].epoch = runs[r].epoch /\ ~runs'[r].active /\ runs[r].epoch < MaxAttempts
  BY <1>1, <1>9
<1>10. CASE /\ Changes(r, {"running", "suspending"}, {"suspending"}) /\ KeepsLease(r)
            /\ runs[r].epoch >= 1 /\ accepted[<<r, runs[r].epoch>>] = 2
  BY <1>1, <1>3, <1>10 DEF Changes, KeepsLease
<1>11. CASE /\ Changes(r, {"suspending"}, {"waiting_for_input"})
            /\ runs'[r].epoch = runs[r].epoch /\ ~runs'[r].active
            /\ suspender.pc = "close" /\ suspender.run = r /\ UNCHANGED agent
  <2>1. runs[r].state = "suspending" /\ runs'[r].state = "waiting_for_input"
    BY <1>11 DEF Changes
  <2>2. ~Alive(x)
    BY <1>11, <2>1 DEF SuspenderInv
  <2> QED BY <1>1, <1>3, <1>11, <2>1, <2>2
<1>12. CASE runs[r].state \notin {"absent", "requested"} /\ runs'[r].state = "cancelling"
            /\ KeepsLease(r)
  BY <1>1, <1>12 DEF KeepsLease
<1>13. CASE /\ Changes(r, {"cancelling"}, {"cancelled"})
            /\ runs'[r].epoch = runs[r].epoch /\ ~runs'[r].active
  BY <1>1, <1>13 DEF Changes
<1> HIDE DEF x
<1> QED BY <1>4, <1>5, <1>6, <1>7, <1>8, <1>9, <1>10, <1>11, <1>12, <1>13, RunSteps

\* What becomes of the suspension that is at work.
LEMMA SuspenderSteps ==
  ASSUME TypeOK, [Next]_vars
  PROVE  \/ UNCHANGED suspender
         \/ suspender'.pc = "idle"
         \/ \E x \in Attempt :
              /\ suspender' = [pc |-> "remove", run |-> x[1], epoch |-> x[2]]
              /\ runs[x[1]].epoch = x[2]
         \/ /\ suspender.pc = "remove" /\ suspender' = [suspender EXCEPT !.pc = "close"]
            /\ Removed(suspender.run, suspender.epoch) /\ UNCHANGED runs
<1>1. ASSUME NEW x \in Attempt, BeginSuspend(x)
      PROVE  /\ suspender' = [pc |-> "remove", run |-> x[1], epoch |-> x[2]]
             /\ runs[x[1]].epoch = x[2]
  BY <1>1 DEF BeginSuspend, Suspendable, IsActive
<1>2. CASE EndSuspend \/ SuspendFails
  BY <1>2 DEF EndSuspend, SuspendFails, Idle
<1>3. ASSUME ~\E x \in Attempt : BeginSuspend(x), ~EndSuspend, ~SuspendFails
      PROVE  UNCHANGED suspender
  BY <1>3 DEF Next, Hello, Put, Ask, Exit, Accept, Inspect, HandlePut, TakeIn, Respond, Admit,
              Schedule, Cancel, ReadRows, EndCancel, vars, tasks
<1> QED BY <1>1, <1>2, <1>3

LEMMA SuspenderStep ==
  ASSUME TypeOK, TypeOK', RunsInv, SuspenderInv, [Next]_vars
  PROVE  SuspenderInv'
<1>1. CASE UNCHANGED suspender
  <2>1. SUFFICES ASSUME suspender.pc \in {"remove", "close"}
                 PROVE  /\ suspender.epoch >= 1 /\ suspender.epoch <= runs'[suspender.run].epoch
                        /\ runs'[suspender.run].state = "suspending" =>
                             suspender.epoch = runs'[suspender.run].epoch
                        /\ suspender.pc = "close" =>
                             agent'[<<suspender.run, suspender.epoch>>].pc \in {"absent", "gone"}
    BY <1>1 DEF SuspenderInv, Alive
  <2> DEFINE r == suspender.run
             n == suspender.epoch
  <2>2. r \in Run /\ n \in 0..MaxAttempts
    BY <2>1 DEF TypeOK, Task
  <2>3. /\ n >= 1 /\ n <= runs[r].epoch
        /\ runs[r].state = "suspending" => n = runs[r].epoch
        /\ suspender.pc = "close" => ~Alive(<<r, n>>)
    BY <2>1 DEF SuspenderInv
  <2>4. suspender'.epoch = n
    BY <1>1
  <2> HIDE DEF r, n
  <2>5. n <= runs'[r].epoch
    BY <2>2, <2>3, EpochsGrow
  <2>6. runs'[r].state = "suspending" => n = runs'[r].epoch
    <3>1. runs'[r].state = "suspending" =>
            \/ runs'[r] = runs[r]
            \/ runs'[r].epoch = runs[r].epoch /\ suspender'.epoch = runs[r].epoch
      BY <2>2, RunSteps DEF Changes, KeepsLease
    <3> QED BY <2>3, <2>4, <3>1
  <2>7. <<r, n>> \in Attempt
    BY <2>2, <2>3, AttemptIs, SuspensionAssumption
  <2>8. suspender.pc = "close" => agent'[<<r, n>>].pc \in {"absent", "gone"}
    <3> DEFINE x == <<r, n>>
    <3>1. x \in Attempt /\ x[2] <= runs[x[1]].epoch /\ (suspender.pc = "close" => ~Alive(x))
      BY <2>3, <2>7
    <3> HIDE DEF x
    <3>2. suspender.pc = "close" => agent'[x].pc \in {"absent", "gone"}
      BY <3>1, DeadStaysDead
    <3> QED BY <3>2 DEF x
  <2> QED BY <2>3, <2>5, <2>6, <2>8 DEF r, n
<1>2. CASE suspender'.pc = "idle"
  BY <1>2 DEF SuspenderInv
<1>3. ASSUME NEW x \in Attempt,
             suspender' = [pc |-> "remove", run |-> x[1], epoch |-> x[2]],
             runs[x[1]].epoch = x[2]
      PROVE  SuspenderInv'
  <2>1. x[1] \in Run /\ x[2] \in Nat /\ x[2] >= 1
    BY AttemptIs
  <2>2. x[2] <= runs'[x[1]].epoch
    BY <1>3, <2>1, EpochsGrow
  <2>3. runs'[x[1]].state = "suspending" => runs'[x[1]].epoch = x[2]
    BY <1>3, <2>1, RunSteps DEF Changes, KeepsLease
  <2>4. /\ suspender'.pc = "remove" /\ suspender'.run = x[1] /\ suspender'.epoch = x[2]
    BY <1>3
  <2> QED BY <2>1, <2>2, <2>3, <2>4 DEF SuspenderInv
<1>4. CASE /\ suspender.pc = "remove" /\ suspender' = [suspender EXCEPT !.pc = "close"]
           /\ Removed(suspender.run, suspender.epoch) /\ UNCHANGED runs
  <2> DEFINE r == suspender.run
             n == suspender.epoch
  <2>1. /\ r \in Run /\ n \in 0..MaxAttempts
        /\ suspender'.pc = "close" /\ suspender'.run = r /\ suspender'.epoch = n
    BY <1>4 DEF TypeOK, Task
  <2>2. /\ n >= 1 /\ n <= runs[r].epoch
        /\ runs[r].state = "suspending" => n = runs[r].epoch
    BY <1>4 DEF SuspenderInv
  <2>3. Removed(r, n) /\ runs' = runs
    BY <1>4
  <2> HIDE DEF r, n
  <2>4. <<r, n>> \in Attempt /\ n > 0
    BY <2>1, <2>2, AttemptIs, SuspensionAssumption
  <2>5. agent'[<<r, n>>].pc \in {"absent", "gone"}
    <3>1. CASE Alive(<<r, n>>)
      BY <2>3, <2>4, <3>1 DEF Removed, Gone, Goto, TypeOK
    <3>2. CASE ~Alive(<<r, n>>)
      BY <2>3, <3>2 DEF Removed, Alive
    <3> QED BY <3>1, <3>2
  <2> QED BY <2>1, <2>2, <2>3, <2>5 DEF SuspenderInv, Alive
<1> QED BY <1>1, <1>2, <1>3, <1>4, SuspenderSteps

-----------------------------------------------------------------------------
(* The theorems                                                             *)

LEMMA InitInv == Init => SInv
<1> SUFFICES ASSUME Init PROVE SInv
  OBVIOUS
<1>1. TypeOK
  <2>1. \A r \in Run : [Absent EXCEPT !.state = IF r \in Posted THEN "requested" ELSE "absent"]
                         \in RunRecord
    <3>1. Absent \in RunRecord
      BY SuspensionAssumption DEF Absent, RunRecord
    <3> QED BY <3>1, RecordTypes
  <2>2. runs \in [Run -> RunRecord]
    BY <2>1 DEF Init
  <2> QED BY <2>2, SuspensionAssumption DEF Init, TypeOK, RunRecord, Task, Idle
<1>2. AgentInv
  BY <1>1 DEF Init, AgentInv, Unsent
<1>3. StoreInv /\ TakenInv /\ SuspenderInv
  BY DEF Init, StoreInv, TakenInv, SuspenderInv, Idle
<1>4. RunsInv
  BY SuspensionAssumption DEF Init, RunsInv, Absent
<1> QED BY <1>1, <1>2, <1>3, <1>4 DEF SInv

LEMMA NextInv == SInv /\ [Next]_vars => SInv'
<1> SUFFICES ASSUME SInv, [Next]_vars PROVE SInv'
  OBVIOUS
<1>1. TypeOK /\ AgentInv /\ StoreInv /\ TakenInv /\ RunsInv /\ SuspenderInv
  BY DEF SInv
<1>2. TypeOK'
  BY <1>1, TypeStep
<1>3. AgentInv'
  BY <1>1, AgentStep DEF AgentInv
<1>4. StoreInv' /\ TakenInv' /\ SuspenderInv'
  BY <1>1, <1>2, StoreStep, TakenStep, SuspenderStep
<1>5. RunsInv'
  BY <1>1, <1>2, RunStep DEF RunsInv, Alive
<1> QED BY <1>2, <1>3, <1>4, <1>5 DEF SInv

\* The invariant the others follow from holds in every state the services reach.
THEOREM SuspensionInvariant == Spec => []SInv
BY InitInv, NextInv, PTL DEF Spec

\* Every service's tables keep their types.
THEOREM SuspensionTypes == Spec => []TypeOK
<1>1. SInv => TypeOK
  BY DEF SInv
<1> QED BY <1>1, SuspensionInvariant, PTL

\* A question that is open to the user has one checkpoint, put by the run that
\* asked it, whichever of its attempts stored it and however often.
THEOREM QuestionsHaveCheckpoints == Spec => []AskedWithCheckpoint
<1>1. SInv => AskedWithCheckpoint
  <2> SUFFICES ASSUME SInv PROVE AskedWithCheckpoint
    OBVIOUS
  <2>1. ASSUME NEW s \in Question, Open(s)
        PROVE  \E c \in checkpoints : c.id = s /\ \E e \in taken : QuestionOf[e.of] = s /\ e.of[1] = c.run
    <3>1. PICK e \in taken : QuestionOf[e.of] = s
      BY <2>1 DEF Open, Asked
    <3>2. e.of \in Attempt /\ accepted[e.of] >= 1 /\ accepted[e.of] <= agent[e.of].sent
          /\ accepted[e.of] \in Nat /\ agent[e.of].sent \in Nat
      BY <3>1 DEF SInv, TakenInv, AgentInv, TypeOK, Events
    <3>3. PICK c \in checkpoints : c.id = s
      BY <3>1, <3>2 DEF SInv, AgentInv
    <3>4. PICK x \in Attempt : c.id = QuestionOf[x] /\ c.run = x[1]
      BY DEF SInv, StoreInv
    <3>5. x[1] = e.of[1]
      BY <3>1, <3>2, <3>3, <3>4, SuspensionAssumption DEF Attempt
    <3> QED BY <3>1, <3>3, <3>4, <3>5
  <2> QED BY <2>1 DEF AskedWithCheckpoint, SInv, StoreInv
<1> QED BY <1>1, SuspensionInvariant, PTL

\* The Runner suspends a run only for a question the Runtime API has accepted in
\* full, and only once the container that asked it is gone.
THEOREM WaitingRunsHaveAsked == Spec => []WaitingHasAsked
<1>1. SInv => WaitingHasAsked
  BY DEF SInv, RunsInv, WaitingHasAsked
<1> QED BY <1>1, SuspensionInvariant, PTL
=============================================================================
