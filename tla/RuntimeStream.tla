---------------------------- MODULE RuntimeStream ----------------------------
(***************************************************************************)
(* The stream between the attempts of one run and the Agent Runtime API:   *)
(* RuntimeService.connect, _activate and _accept of                        *)
(* services/agent-runtime-api, and connect, send, model and tool of the    *)
(* RuntimeClient of the Python SDK.                                        *)
(*                                                                         *)
(* An attempt is named by its lease epoch; an older one may still be       *)
(* running.  A client sends one frame at a time and keeps those that were  *)
(* not acknowledged.  A stream breaks at any moment: what the client wrote *)
(* last and what it has not read is lost, but the server's handler may     *)
(* still work on the frames that arrived, beside the handler of the next   *)
(* stream.  A database transaction is one step.                            *)
(*                                                                         *)
(* gRPC is environment.  What the Runtime does for a call of a model or of *)
(* a tool is the subject of ToolCalls; here it has a result or is refused. *)
(***************************************************************************)
EXTENDS Integers, Sequences, FiniteSets

CONSTANTS
  Attempt,    \* lease epochs of the attempts of the run
  Tries,      \* how often send tries, 4 in the code
  MaxSends,   \* bound: sends and calls of each attempt
  MaxBreaks,  \* bound: broken streams
  Refuses     \* whether the server may refuse the content of a frame

ASSUME StreamAssumption ==
  /\ Attempt \subseteq Nat \ {0}
  /\ Tries \in Nat \ {0}
  /\ MaxSends \in [Attempt -> Nat] /\ MaxBreaks \in Nat
  /\ Refuses \in BOOLEAN

VARIABLES
  late,      \* history: attempts whose INSERT found a row that their SELECT had not
  row,       \* runtime_attempts: lease_epoch and last_sequence, epoch 0 for no row
  accepted,  \* accepted_frames
  outbox,    \* outbox_events in the order of their insertion
  stream,    \* the streams of each attempt, the newest last
  client,    \* local state of the RuntimeClient of each attempt
  issued,    \* every frame an attempt ever tried to send, by key
  returned,  \* keys of the sends and calls that returned without an exception
  breaks     \* number of broken streams

db == <<row, accepted, outbox>>
vars == <<late, db, stream, client, issued, returned, breaks>>

-----------------------------------------------------------------------------
\* call: a call of a model or tool, answered by its result before the acknowledgement
Frame == [seq : Nat, key : Nat, valid : BOOLEAN, call : BOOLEAN]
AcceptedRow == [epoch : Attempt, seq : Nat, key : Nat]

Hello == [type |-> "hello"]
Upward == {Hello} \cup [type : {"frame"}, frame : Frame]

HelloAccepted(n) == [type |-> "hello_accepted", seq |-> n]
Ack(n)           == [type |-> "ack", seq |-> n]
Refusal(n)       == [type |-> "error", seq |-> n]
Result(k)        == [type |-> "result", key |-> k]
Downward == [type : {"hello_accepted", "ack", "error"}, seq : Nat]
              \cup [type : {"result"}, key : Nat]

\* What connect answers to a frame that is stored.  The result of a call that cannot
\* be put into a message is an error, in place of result and acknowledgement.
Answers(f) ==
  IF f.call THEN {<<Result(f.key), Ack(f.seq)>>}
                   \cup (IF Refuses THEN {<<Refusal(f.seq)>>} ELSE {})
  ELSE {<<Ack(f.seq)>>}

\* open: not broken.  server: what the handler expects next; insert, between the
\* two statements of a first hello; failed, ended by an exception
NewStream == [open |-> TRUE, server |-> "hello", up |-> <<Hello>>, down |-> <<>>]
StreamState == [open : BOOLEAN, server : {"hello", "insert", "frame", "ended", "failed"},
                up : Seq(Upward), down : Seq(Downward)]

\* stream = 0: _call is None.  then: what connect returns to
ClientIdle == [pc |-> "idle", then |-> "none", last |-> 0, pending |-> <<>>,
               own |-> 0, got |-> FALSE, stream |-> 0, tries |-> 0]
ClientState == [pc : {"idle", "hello", "read", "call"}, then : {"none", "write", "read"},
                last : Nat, pending : Seq(Frame), own : Nat, got : BOOLEAN,
                stream : Nat, tries : 0..(Tries - 1)]

TypeOK ==
  /\ late \subseteq Attempt
  /\ row \in [epoch : Attempt \cup {0}, last : Nat]
  /\ accepted \subseteq AcceptedRow
  /\ outbox \in Seq(AcceptedRow)
  /\ stream \in [Attempt -> Seq(StreamState)]
  /\ client \in [Attempt -> ClientState]
  /\ issued \in [Attempt -> Seq(Frame)]
  /\ returned \in [Attempt -> SUBSET Nat]
  /\ breaks \in 0..MaxBreaks

Init ==
  /\ late = {}
  /\ row = [epoch |-> 0, last |-> 0]
  /\ accepted = {}
  /\ outbox = <<>>
  /\ stream = [e \in Attempt |-> <<>>]
  /\ client = [e \in Attempt |-> ClientIdle]
  /\ issued = [e \in Attempt |-> <<>>]
  /\ returned = [e \in Attempt |-> {}]
  /\ breaks = 0

-----------------------------------------------------------------------------
(* The server: one handler per stream.                                     *)
Receives(e, s, type) == stream[e][s].up # <<>> /\ Head(stream[e][s].up).type = type

\* A handler answers; a broken stream loses the answer
Reply(t, responses, state) ==
  [t EXCEPT !.server = state, !.down = IF t.open THEN @ \o responses ELSE @]

\* It answers the frame that it takes
Took(t) == [t EXCEPT !.up = Tail(@)]

Answer(e, s, responses, state) ==
  stream' = [stream EXCEPT ![e][s] = Reply(Took(@), responses, state)]

\* _activate: an older epoch is refused, a newer one takes the run over.  SELECT
\* FOR UPDATE locks the row; when there is none yet it locks nothing.
Activate(e, s) ==
  /\ stream[e][s].server = "hello" /\ Receives(e, s, "hello")
  /\ \/ /\ row.epoch > e
        /\ Answer(e, s, <<Refusal(0)>>, "ended")
        /\ UNCHANGED row
     \/ /\ row.epoch \in 1..(e - 1)
        /\ row' = [epoch |-> e, last |-> 0]
        /\ Answer(e, s, <<HelloAccepted(0)>>, "frame")
     \/ /\ row.epoch = e
        /\ Answer(e, s, <<HelloAccepted(row.last)>>, "frame")
        /\ UNCHANGED row
     \/ /\ row.epoch = 0
        /\ stream' = [stream EXCEPT ![e][s] = [Took(@) EXCEPT !.server = "insert"]]
        /\ UNCHANGED row
  /\ UNCHANGED <<late, accepted, outbox, client, issued, returned, breaks>>

\* INSERT ... ON CONFLICT DO UPDATE, whatever row has appeared in between
InsertRow(e, s) ==
  /\ stream[e][s].server = "insert"
  /\ row' = [epoch |-> e, last |-> 0]
  /\ late' = IF row.epoch = 0 THEN late ELSE late \cup {e}
  /\ stream' = [stream EXCEPT ![e][s] = Reply(@, <<HelloAccepted(0)>>, "frame")]
  /\ UNCHANGED <<accepted, outbox, client, issued, returned, breaks>>

\* Mutant: the lease is looked at only when the stream is opened
AnyEpoch(e) == TRUE
Current(e) == row.epoch = e

\* The row an idempotency key finds
Seen(e, f) == {x \in accepted : x.epoch = e /\ x.key = f.key}

\* Mutant: any later frame will do
Later(f) == f.seq > row.last
InOrder(f) == f.seq = row.last + 1

\* The primary key of accepted_frames
SeqTaken(e, f) == \E x \in accepted : x.epoch = e /\ x.seq = f.seq

\* The model or the tool is called again at each delivery of the frame, before
\* _accept; when that fails, the frame is refused
CallFails(e, s, f) ==
  /\ f.call /\ Refuses
  /\ Answer(e, s, <<Refusal(f.seq)>>, "frame")
  /\ UNCHANGED db

\* _accept, and what connect answers
Accept(e, s) ==
  /\ stream[e][s].server = "frame" /\ Receives(e, s, "frame")
  /\ LET f == Head(stream[e][s].up).frame
         x == [epoch |-> e, seq |-> f.seq, key |-> f.key]
     IN
     \/ CallFails(e, s, f)
     \/ /\ ~Current(e)
        /\ Answer(e, s, <<Refusal(f.seq)>>, "ended")
        /\ UNCHANGED db
     \/ /\ Current(e) /\ Seen(e, f) # {}
        /\ IF \E y \in Seen(e, f) : y.seq = f.seq
           THEN \E a \in Answers(f) : Answer(e, s, a, "frame")
           ELSE Answer(e, s, <<Refusal(f.seq)>>, "frame")
        /\ UNCHANGED db
     \/ /\ Current(e) /\ Seen(e, f) = {}
        /\ \/ /\ InOrder(f) /\ f.valid /\ ~SeqTaken(e, f)
              /\ accepted' = accepted \cup {x}
              /\ outbox' = Append(outbox, x)
              /\ row' = [row EXCEPT !.last = f.seq]
              /\ \E a \in Answers(f) : Answer(e, s, a, "frame")
           \/ /\ InOrder(f) /\ f.valid /\ SeqTaken(e, f)
              /\ stream' = [stream EXCEPT ![e][s].server = "failed"]
              /\ UNCHANGED db
           \/ /\ ~(InOrder(f) /\ f.valid)
              /\ Answer(e, s, <<Refusal(f.seq)>>, "frame")
              /\ UNCHANGED db
  /\ UNCHANGED <<late, client, issued, returned, breaks>>

\* The handler of a broken stream is cancelled, and its transaction rolled back
CancelHandler(e, s) ==
  /\ ~stream[e][s].open
  /\ stream[e][s].up # <<>> \/ stream[e][s].server = "insert"
  /\ stream' = [stream EXCEPT ![e][s] = [@ EXCEPT !.up = <<>>, !.server = "ended"]]
  /\ UNCHANGED <<late, db, client, issued, returned, breaks>>

Handler(e, s) ==
  Activate(e, s) \/ InsertRow(e, s) \/ Accept(e, s) \/ CancelHandler(e, s)

-----------------------------------------------------------------------------
(* The network.                                                            *)
\* Some of what was written arrives, and nothing of what was not read
Broken(t) ==
  {[t EXCEPT !.open = FALSE, !.down = <<>>, !.up = SubSeq(@, 1, n)] : n \in 0..Len(t.up)}

Break(e, s) ==
  /\ breaks < MaxBreaks
  /\ stream[e][s].open
  /\ \E t \in Broken(stream[e][s]) : stream' = [stream EXCEPT ![e][s] = t]
  /\ breaks' = breaks + 1
  /\ UNCHANGED <<late, db, client, issued, returned>>

-----------------------------------------------------------------------------
(* The client.                                                             *)
Call(e) == stream[e][client[e].stream]
Over(e) == Call(e).server \in {"ended", "failed"}

\* Frames to send again, and frames to keep, when n is the last one acknowledged:
\* pending is in ascending order
Unacked(p, n) == SubSeq(p, Cardinality({i \in DOMAIN p : p[i].seq <= n}) + 1, Len(p))

\* Mutant: an acknowledgement empties the buffer
NonePending(p, n) == <<>>
StillPending(p, n) == Unacked(p, n)

Writes(frames) == [i \in DOMAIN frames |-> [type |-> "frame", frame |-> frames[i]]]

\* max([last_ack, *pending]) + 1, pending being in ascending order
NextSeq(c) ==
  LET top == IF c.pending = <<>> THEN 0 ELSE c.pending[Len(c.pending)].seq
  IN  (IF c.last > top THEN c.last ELSE top) + 1

\* connect, up to the hello
Dialled(e, c, then) ==
  client' = [client EXCEPT ![e] = [c EXCEPT !.pc = "hello", !.then = then,
                                           !.stream = Len(stream[e]) + 1]]

Dial(e, c, then) ==
  /\ stream' = [stream EXCEPT ![e] = Append(@, NewStream)]
  /\ Dialled(e, c, then)

\* send raises: the frame, if there is one already, stays pending
Raise(e, c) ==
  /\ client' = [client EXCEPT ![e] = [c EXCEPT !.pc = "idle", !.then = "none",
                                              !.own = 0, !.got = FALSE, !.tries = 0]]
  /\ UNCHANGED stream

\* Mutant: the last try is not told from the others
RetryOnceMore(e, c) == Dial(e, [c EXCEPT !.tries = @ + 1], "read")

\* A transport error inside send: reconnect unless this was the last try
Retry(e, c) ==
  IF c.tries + 1 = Tries THEN Raise(e, [c EXCEPT !.stream = 0])
  ELSE Dial(e, [c EXCEPT !.tries = @ + 1], "read")

\* The next frame of the client, with a key of its own: the SDK draws the identifier
\* of a request.  A call may be given one by its agent instead, which is taken to
\* repeat none.
NewFrame(e, c, valid, call) ==
  [seq |-> NextSeq(c), key |-> Len(issued[e]) + 1, valid |-> valid, call |-> call]

\* send reads in one loop, model and tool in another
Reading(f) == IF f.call THEN "call" ELSE "read"

WithFrame(e, f) ==
  /\ Len(issued[e]) < MaxSends[e]
  /\ f.valid \/ Refuses
  /\ issued' = [issued EXCEPT ![e] = Append(@, f)]

\* send, when there is no stream, and connect called by the agent
Connect(e) ==
  /\ client[e].pc = "idle" /\ Len(issued[e]) < MaxSends[e]
  /\ \/ client[e].stream = 0 /\ \E then \in {"none", "write"} : Dial(e, client[e], then)
     \/ client[e].stream # 0 /\ ~Call(e).open /\ Dial(e, client[e], "none")
  /\ UNCHANGED <<late, db, issued, returned, breaks>>

\* The agent calls connect on a live stream, which closes the channel under it
Reconnect(e) ==
  /\ client[e].pc = "idle" /\ Len(issued[e]) < MaxSends[e]
  /\ client[e].stream # 0 /\ Call(e).open
  /\ breaks < MaxBreaks /\ breaks' = breaks + 1
  /\ \E t \in Broken(Call(e)) :
       stream' = [stream EXCEPT ![e] = Append([@ EXCEPT ![client[e].stream] = t], NewStream)]
  /\ Dialled(e, client[e], "none")
  /\ UNCHANGED <<late, db, issued, returned>>

\* The frame is pending before it is written
Pending(c, f) == [c EXCEPT !.pending = Append(@, f), !.own = f.key]

Written(e, f) ==
  /\ Call(e).open
  /\ stream' = [stream EXCEPT ![e][client[e].stream].up = @ \o Writes(<<f>>)]
  /\ client' = [client EXCEPT ![e] = [Pending(@, f) EXCEPT !.pc = Reading(f)]]

\* send.  To write on a broken stream is a transport error or, once gRPC knows
\* that the stream is over, another error; until it knows, the frame is written
\* to nobody.
WriteFrame(e) ==
  LET c == client[e] IN
  /\ c.pc = "idle" /\ c.stream # 0
  /\ \E valid \in BOOLEAN :
       LET f == NewFrame(e, c, valid, FALSE) IN
       /\ WithFrame(e, f)
       /\ \/ Written(e, f)
          \/ ~Call(e).open /\ Retry(e, Pending(c, f))
          \/ (Over(e) \/ ~Call(e).open) /\ Raise(e, Pending(c, f))
  /\ UNCHANGED <<late, db, returned, breaks>>

\* model and tool do not try again
WriteCall(e) ==
  LET c == client[e] IN
  /\ c.pc = "idle" /\ c.stream # 0
  /\ LET f == NewFrame(e, c, TRUE, TRUE) IN
       /\ WithFrame(e, f)
       /\ \/ Written(e, f)
          \/ (Over(e) \/ ~Call(e).open) /\ Raise(e, Pending(c, f))
  /\ UNCHANGED <<late, db, returned, breaks>>

Reads(e, type) ==
  /\ client[e].stream # 0
  /\ Call(e).down # <<>> /\ Head(Call(e).down).type = type

Read(t, more) == [t EXCEPT !.down = Tail(@), !.up = @ \o Writes(more)]

Consumed(e, more) ==
  stream' = [stream EXCEPT ![e][client[e].stream] = Read(@, more)]

\* The end of connect: everything after resume_after_sequence is sent again
HelloReturns(e) ==
  LET c == client[e]
      n == Head(Call(e).down).seq
      d == [c EXCEPT !.last = n, !.then = "none"]
  IN
  /\ c.pc = "hello" /\ Reads(e, "hello_accepted")
  /\ \/ /\ c.then \in {"none", "read"}
        /\ Consumed(e, Unacked(c.pending, n))
        /\ client' = [client EXCEPT ![e] =
             [d EXCEPT !.pc = IF c.then = "read" THEN "read" ELSE "idle"]]
        /\ UNCHANGED issued
     \/ /\ c.then = "write"
        /\ \E valid, call \in BOOLEAN :
             LET f == NewFrame(e, d, valid \/ call, call) IN
             /\ WithFrame(e, f)
             /\ Consumed(e, Append(Unacked(c.pending, n), f))
             /\ client' = [client EXCEPT ![e] = [Pending(d, f) EXCEPT !.pc = Reading(f)]]
  /\ UNCHANGED <<late, db, returned, breaks>>

\* Mutant: the result is not compared with the request
AnyResult(c, k) == TRUE
OwnResult(c, k) == c.own = k

\* model and tool keep the result of their own request and raise at another;
\* send does not look at it.
ResultRead(e) ==
  LET c == client[e]
      k == Head(Call(e).down).key
  IN
  /\ c.pc \in {"read", "call"} /\ Reads(e, "result")
  /\ Consumed(e, <<>>)
  /\ client' = [client EXCEPT ![e] =
       IF c.pc = "read" THEN c
       ELSE IF OwnResult(c, k) THEN [c EXCEPT !.got = TRUE]
       ELSE [c EXCEPT !.pc = "idle", !.own = 0, !.got = FALSE]]
  /\ UNCHANGED <<late, db, issued, returned, breaks>>

Acked(c, n) ==
  [c EXCEPT !.pc = "idle", !.last = IF n > @ THEN n ELSE @,
            !.pending = StillPending(@, n), !.own = 0, !.got = FALSE, !.tries = 0]

Acknowledged(e, n) == client' = [client EXCEPT ![e] = Acked(@, n)]

\* Whatever frame the acknowledgement is for, send returns
AckReturns(e) ==
  LET c == client[e] IN
  /\ c.pc = "read" /\ Reads(e, "ack")
  /\ Consumed(e, <<>>)
  /\ Acknowledged(e, Head(Call(e).down).seq)
  /\ returned' = [returned EXCEPT ![e] = @ \cup {c.own}]
  /\ UNCHANGED <<late, db, issued, breaks>>

\* ... and a call returns its result, or raises when it has none by then
CallReturns(e) ==
  LET c == client[e] IN
  /\ c.pc = "call" /\ Reads(e, "ack")
  /\ Consumed(e, <<>>)
  /\ Acknowledged(e, Head(Call(e).down).seq)
  /\ returned' = IF c.got THEN [returned EXCEPT ![e] = @ \cup {c.own}] ELSE returned
  /\ UNCHANGED <<late, db, issued, breaks>>

ErrorReturns(e) ==
  LET c == client[e] IN
  /\ c.pc # "idle" /\ Reads(e, "error")
  /\ Consumed(e, <<>>)
  /\ client' = [client EXCEPT ![e] =
       [c EXCEPT !.pc = "idle", !.then = "none", !.own = 0, !.got = FALSE, !.tries = 0]]
  /\ UNCHANGED <<late, db, issued, returned, breaks>>

\* Before send has its frame, connect is not guarded: an error leaves send and
\* the dead stream stays.
Guarded(c) == c.pc = "read" \/ c.then = "read"

\* A stream breaks while connect or send reads
TransportError(e) ==
  LET c == client[e] IN
  /\ c.pc # "idle" /\ ~Call(e).open
  /\ IF Guarded(c) THEN Retry(e, c) ELSE Raise(e, c)
  /\ UNCHANGED <<late, db, issued, returned, breaks>>

\* The handler has raised an exception: a status that send does not retry
FailureReturns(e) ==
  LET c == client[e] IN
  /\ c.pc # "idle" /\ Call(e).open /\ Call(e).down = <<>> /\ Call(e).server = "failed"
  /\ Raise(e, IF Guarded(c) THEN [c EXCEPT !.stream = 0] ELSE c)
  /\ UNCHANGED <<late, db, issued, returned, breaks>>

Client(e) ==
  HelloReturns(e) \/ ResultRead(e) \/ AckReturns(e) \/ CallReturns(e)
  \/ ErrorReturns(e) \/ TransportError(e) \/ FailureReturns(e)

-----------------------------------------------------------------------------
Next ==
  \E e \in Attempt :
    \/ Connect(e) \/ Reconnect(e) \/ WriteFrame(e) \/ WriteCall(e) \/ Client(e)
    \/ \E s \in DOMAIN stream[e] : Handler(e, s) \/ Break(e, s)

Spec == Init /\ [][Next]_vars

\* The server works on what arrives and the client on what it reads; no agent
\* has to send anything.
FairSpec ==
  /\ Spec
  /\ \A e \in Attempt : WF_vars(Client(e))
  /\ \A e \in Attempt : WF_vars(\E s \in DOMAIN stream[e] : Handler(e, s))

-----------------------------------------------------------------------------
OfEpoch(e) == {x \in accepted : x.epoch = e}

\* Across broken streams, retransmissions and handlers of old streams, what is
\* stored for an attempt is what its client sent, in that order, with nothing
\* skipped, doubled or swapped.
AcceptedAsIssued ==
  \A e \in Attempt :
    /\ \A x \in OfEpoch(e) : \A k \in 1..x.seq : \E y \in OfEpoch(e) : y.seq = k
    /\ \A x, y \in OfEpoch(e) : x.seq = y.seq \/ x.key = y.key => x = y
    /\ \A x \in OfEpoch(e) : issued[e][x.key].seq = x.seq

Before(x, y) == x.epoch < y.epoch \/ (x.epoch = y.epoch /\ x.seq < y.seq)

\* Once the events of a newer attempt begin, none of an older one follows, and
\* within an attempt they are numbered in order: the Runner and the Conversation
\* Service may take a newer epoch for the end of the older ones.  What may break
\* the order is one thing alone, the first hello of an attempt that was between
\* its SELECT and its INSERT when another one made the row.
OutboxInOrder ==
  \A i, j \in DOMAIN outbox : i < j =>
    \/ Before(outbox[i], outbox[j])
    \/ /\ outbox[i].epoch # outbox[j].epoch
       /\ \E l \in late : l <= outbox[j].epoch

\* A frame leaves the client's buffer only when it is durable, so that any break
\* can be repaired by sending the buffer again.
NothingForgotten ==
  \A e \in Attempt : \A k \in DOMAIN issued[e] :
    \/ \E i \in DOMAIN client[e].pending : client[e].pending[i].key = k
    \/ \E x \in OfEpoch(e) : x.key = k

\* A call of a model or a tool that returns has its frame stored: however streams
\* break and whatever answers of earlier frames still arrive, an agent goes on
\* only with the answer to what it asked, and the Runtime knows that it asked.
CallsAreAccepted ==
  \A e \in Attempt : \A k \in returned[e] :
    issued[e][k].call => \E x \in OfEpoch(e) : x.key = k
=============================================================================
