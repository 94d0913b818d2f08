----------------------------- MODULE ToolCalls -----------------------------
(***************************************************************************)
(* What the agents of a run do through the Agent Runtime API               *)
(* (services/agent-runtime-api): calls of tools and models.  A tool call   *)
(* is reserved in tool_invocations, exchanges the grant of its run for a   *)
(* short-lived token at Identity Delegation, calls the MCP gateway, and    *)
(* records its result; only then is the frame accepted, and its epoch      *)
(* looked at.  The exchange is the one place where the grant is looked at: *)
(* the gateway has a static list of tools (deploy/agentgateway), nothing   *)
(* asks Identity Delegation to authorize the call, and the tool acts when  *)
(* the request reaches it, however late that is.                           *)
(*                                                                         *)
(* A stream is one handler of Connect.  It may be cancelled wherever it    *)
(* waits, and an attempt that connects again may still have an old stream  *)
(* at work.  An attempt is named by its lease epoch.                       *)
(***************************************************************************)
EXTENDS Portal

CONSTANTS
  Stream,
  Invocation,   \* invocation identifiers the agents choose
  MaxAttempts,  \* RUNNER_MAX_ATTEMPTS
  MaxTries      \* _MAX_ATTEMPTS of the model gateway

ASSUME ToolCallsAssumption ==
  /\ MaxAttempts \in Nat \ {0} /\ MaxTries \in Nat \ {0}

Epoch == 1..MaxAttempts

VARIABLES
  epoch,    \* the newest attempt the Runner started for each run
  fence,    \* runtime_attempts.lease_epoch of each run
  stream,   \* the handlers of Connect
  ledger,   \* tool_invocations
  effects,  \* what the tools did
  answers   \* the tool results accepted for delivery to an attempt

tools == <<epoch, fence, stream, ledger, effects, answers>>
vars == <<now, portal, tools>>

Closed == [pc |-> "closed"]
Open(s) == [pc |-> "open", run |-> stream[s].run, epoch |-> stream[s].epoch]
NoEntry == [state |-> "absent", tool |-> "none", result |-> 0]

Init ==
  /\ PInit
  /\ epoch = [r \in Run |-> 0] /\ fence = [r \in Run |-> 0]
  /\ stream = [s \in Stream |-> Closed]
  /\ ledger = [r \in Run |-> [i \in Invocation |-> NoEntry]]
  /\ effects = {}
  /\ answers = {}

-----------------------------------------------------------------------------
\* The Runner starts an attempt of a run whose request carries a grant; the
\* container of an earlier attempt may still be running.
StartAttempt(r) ==
  /\ runs[r] # "none" /\ epoch[r] < MaxAttempts
  /\ epoch' = [epoch EXCEPT ![r] = @ + 1]
  /\ UNCHANGED <<now, portal, fence, stream, ledger, effects, answers>>

\* The first frame: the capability names run, epoch, tools and grant
Connect(s, r, e) ==
  /\ stream[s] = Closed
  /\ e <= epoch[r] /\ fence[r] <= e
  /\ fence' = [fence EXCEPT ![r] = e]
  /\ stream' = [stream EXCEPT ![s] = [pc |-> "open", run |-> r, epoch |-> e]]
  /\ UNCHANGED <<now, portal, epoch, ledger, effects, answers>>

\* The connection breaks, the Runtime restarts, or the agent is gone
Break(s) ==
  /\ stream[s] # Closed
  /\ stream' = [stream EXCEPT ![s] = Closed]
  /\ UNCHANGED <<now, portal, epoch, fence, ledger, effects, answers>>

Allowed(r) == Manifest[r.conversation]

\* The stream goes on with a part of a tool call, or is ready for a frame
Working(s, pc, i, t, granted, result) ==
  [pc |-> pc, run |-> stream[s].run, epoch |-> stream[s].epoch,
   invocation |-> i, tool |-> t, granted |-> granted, result |-> result]
Move(s, x) ==
  /\ stream' = [stream EXCEPT ![s] = x]
  /\ UNCHANGED <<now, portal, epoch, fence>>

\* Mutants: a reservation without a result is taken over; the request of a
\* key is not compared
ReservableAgain(x) == x.state # "completed"
Reservable(x) == x.state = "absent"
StoredForAny(x, t) == x.state = "completed"
Stored(x, t) == x.state = "completed" /\ x.tool = t

\* A tool_call frame, first part: the reservation, under an advisory lock
Reserve(s, i, t) ==
  LET r == stream[s].run IN
  /\ stream[s].pc = "open" /\ t \in Allowed(r)
  /\ Reservable(ledger[r][i])
  /\ ledger' = [ledger EXCEPT ![r][i] = [state |-> "executing", tool |-> t, result |-> 0]]
  /\ Move(s, Working(s, "exchange", i, t, 0, 0))
  /\ UNCHANGED <<effects, answers>>

\* ... or the result that was recorded for the same request; everything else
\* is an error frame
Replay(s, i, t) ==
  LET r == stream[s].run IN
  /\ stream[s].pc = "open" /\ t \in Allowed(r)
  /\ Stored(ledger[r][i], t)
  /\ Move(s, Working(s, "accept", i, t, 0, ledger[r][i].result))
  /\ UNCHANGED <<ledger, effects, answers>>

-----------------------------------------------------------------------------
(* Identity Delegation                                                      *)

\* Mutant: a revoked grant is good until it expires
ActiveUntilExpiry(x) == x.state # "absent" /\ now < x.expires
Active(x) == x.state = "active" /\ now < x.expires

\* The grant of the run for a token; `granted` is when
Exchange(s) ==
  LET w == stream[s]
      g == grants[runs[w.run]]
  IN /\ w.pc = "exchange"
     /\ Active(g) /\ w.tool \in g.scopes
     /\ Move(s, Working(s, "call", w.invocation, w.tool, now, 0))
     /\ UNCHANGED <<ledger, effects, answers>>

-----------------------------------------------------------------------------
Done(r, i) == {f \in effects : f.run = r /\ f.invocation = i}

\* The tool acts, any time after the exchange and whatever has become of the
\* token and the grant; its answer reaches the Runtime or is lost
CallTool(s) ==
  LET w == stream[s]
      n == Cardinality(Done(w.run, w.invocation)) + 1
  IN /\ w.pc = "call"
     /\ effects' = effects \cup
          {[run |-> w.run, invocation |-> w.invocation, number |-> n, tool |-> w.tool,
            epoch |-> w.epoch, grant |-> runs[w.run],
           granted |-> w.granted, at |-> now]}
     /\ \/ Move(s, Working(s, "record", w.invocation, w.tool, 0, n))
        \/ Move(s, Open(s))
     /\ UNCHANGED <<ledger, answers>>

\* Identity Delegation or the gateway refuses or cannot be reached: an error
\* frame, and the reservation stays
CallFails(s) ==
  /\ stream[s].pc \in {"exchange", "call"}
  /\ Move(s, Open(s))
  /\ UNCHANGED <<ledger, effects, answers>>

\* The result is recorded, unless it is too large or the row has one
Record(s) ==
  LET w == stream[s] IN
  /\ w.pc = "record"
  /\ \/ /\ ledger[w.run][w.invocation].state = "executing"
        /\ ledger' = [ledger EXCEPT ![w.run][w.invocation].state = "completed",
                                    ![w.run][w.invocation].result = w.result]
        /\ Move(s, Working(s, "accept", w.invocation, w.tool, 0, w.result))
     \/ Move(s, Open(s)) /\ UNCHANGED ledger
  /\ UNCHANGED <<effects, answers>>

\* _accept: the epoch and the sequence of the frame.  A frame out of sequence
\* is an error, a stale epoch ends the stream.
Accept(s) ==
  LET w == stream[s] IN
  /\ w.pc = "accept"
  /\ \/ /\ fence[w.run] = w.epoch
        /\ answers' = answers \cup {[run |-> w.run, invocation |-> w.invocation,
                                     tool |-> w.tool, result |-> w.result]}
        /\ Move(s, Open(s))
     \/ fence[w.run] = w.epoch /\ Move(s, Open(s)) /\ UNCHANGED answers
     \/ fence[w.run] # w.epoch /\ Move(s, Closed) /\ UNCHANGED answers
  /\ UNCHANGED <<ledger, effects>>

-----------------------------------------------------------------------------
(* Model calls: a request that fails for a while is made again              *)
CallModel(s) ==
  /\ stream[s].pc = "open"
  /\ Move(s, [pc |-> "model", run |-> stream[s].run, epoch |-> stream[s].epoch, tries |-> 1])
  /\ UNCHANGED <<ledger, effects, answers>>

\* Mutant: one try too many
MayRetryAgain(n) == n <= MaxTries
MayRetry(n) == n < MaxTries

RetryModel(s) ==
  /\ stream[s].pc = "model" /\ MayRetry(stream[s].tries)
  /\ Move(s, [stream[s] EXCEPT !.tries = @ + 1])
  /\ UNCHANGED <<ledger, effects, answers>>

\* An answer, an error for good, or the last try: then the frame is accepted
\* or refused
ModelEnds(s) ==
  /\ stream[s].pc = "model"
  /\ \/ Move(s, Open(s))
     \/ fence[stream[s].run] # stream[s].epoch /\ Move(s, Closed)
  /\ UNCHANGED <<ledger, effects, answers>>

Work(s) ==
  \/ \E r \in Run, e \in Epoch : Connect(s, r, e)
  \/ \E i \in Invocation, t \in Tool : Reserve(s, i, t) \/ Replay(s, i, t)
  \/ Exchange(s) \/ CallTool(s) \/ CallFails(s) \/ Record(s) \/ Accept(s)
  \/ CallModel(s) \/ RetryModel(s) \/ ModelEnds(s)
  \/ Break(s)

Tick == now < MaxTime /\ now' = now + 1 /\ UNCHANGED <<portal, tools>>

Next ==
  \/ PortalStep /\ UNCHANGED <<now, tools>>
  \/ Tick
  \/ \E r \in Run : StartAttempt(r)
  \/ \E s \in Stream : Work(s)

Spec == Init /\ [][Next]_vars

-----------------------------------------------------------------------------
StreamState ==
  {Closed} \cup [pc : {"open"}, run : Run, epoch : Epoch]
    \cup [pc : {"exchange", "call", "record", "accept"}, run : Run, epoch : Epoch,
          invocation : Invocation, tool : Tool, granted : Nat, result : Nat]
    \cup [pc : {"model"}, run : Run, epoch : Epoch, tries : 1..MaxTries]

TypeOK ==
  /\ PTypeOK
  /\ epoch \in [Run -> 0..MaxAttempts] /\ fence \in [Run -> 0..MaxAttempts]
  /\ stream \in [Stream -> StreamState]
  /\ ledger \in [Run -> [Invocation ->
       [state : {"absent", "executing", "completed"}, tool : Tool \cup {"none"}, result : Nat]]]
  /\ effects \subseteq [run : Run, invocation : Invocation, number : Nat, tool : Tool,
                        epoch : Epoch, grant : Grant, granted : Nat, at : Nat]
  /\ answers \subseteq [run : Run, invocation : Invocation, tool : Tool, result : Nat]

\* AGENT_SDK.md: a reservation without a result "is never automatically
\* executed again".  Whatever breaks, and whichever attempts and streams make
\* the call again: an invocation takes effect once at most.
EffectOnce ==
  \A f, g \in effects : f.run = g.run /\ f.invocation = g.invocation => f = g

\* "Completed results are replayed for the same request": every answer to an
\* invocation, the first or a replayed one, is what that very tool did.
AnswersAgree ==
  \A a \in answers : \E f \in effects :
    /\ f.run = a.run /\ f.invocation = a.invocation
    /\ f.tool = a.tool /\ f.number = a.result

\* A tool acts on an exchange only that was made while the grant of its run
\* covered the tool and was neither expired nor revoked: a run that goes on, an
\* old attempt or a call made again gets no further once its grant has ended.
\* The act itself may come later than that end, see ActedBeforeExpiry.
ActedOnExchange ==
  \A f \in effects :
    LET g == grants[f.grant] IN
    /\ f.granted < g.expires
    /\ g.state = "revoked" => f.granted <= g.revoked
    /\ f.tool \in g.scopes

\* IDENTITY_AND_SECURITY.md has the MCP gateway validate the expiry of each
\* token, and a token ends with its grant at the latest: no tool acts under a
\* grant that has expired.  Nothing in the code looks after the exchange.
ActedBeforeExpiry == \A f \in effects : f.at < grants[f.grant].expires

\* SPECIFICATION.md: "Attempt lease epochs fence stale containers at Runtime,
\* State, LLM, and MCP APIs".  A call that an attempt sends after a newer one
\* connected is refused, not carried out.  The code carries it out and looks at
\* the epoch afterwards.
FencedCallsAreRefused ==
  [][\A s \in Stream :
       stream[s].pc = "open" /\ stream'[s].pc \in {"exchange", "model"}
         => stream[s].epoch = fence[stream[s].run]]_vars
=============================================================================
