--------------------------- MODULE RuntimePromises ---------------------------
(* What the documents say about the stream and RuntimeStream shows not to   *)
(* hold.                                                                    *)
EXTENDS RuntimeStream

\* "Unacknowledged frames remain in a bounded in-memory buffer and are
\* retransmitted after reconnect": a send ends, however the stream breaks.
SendReturns == \A e \in Attempt : client[e].pc # "idle" ~> client[e].pc = "idle"

\* "Its acknowledgement proves Runtime durably accepted the proposal": a send
\* that returns has its own frame accepted.
AcknowledgedIsAccepted ==
  \A e \in Attempt : \A k \in returned[e] : \E x \in OfEpoch(e) : x.key = k

\* The APIs "reject operations from an older epoch": no event of an older attempt
\* is recorded after one of a newer attempt.
OlderEpochIsRejected ==
  \A i, j \in DOMAIN outbox : i < j => outbox[i].epoch <= outbox[j].epoch
=============================================================================
