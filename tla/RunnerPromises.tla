--------------------------- MODULE RunnerPromises ---------------------------
(* What the documents of the repository promise about the Runner's runs and *)
(* the Runner's code does not keep.  Each property quotes its document; TLC *)
(* finds a behaviour of Runner that violates it.                            *)
EXTENDS Runner

Announced(r, n) == \E i \in DOMAIN outbox[r] : outbox[r][i] = n

\* "exactly one terminal outcome": a run whose cancellation is announced to the
\* world is a cancelled run.
CancelledMeansCancelled ==
  \A r \in Run : Announced(r, <<"run.cancelled">>) => state[r] = "cancelled"

\* "may create another attempt ... before any externally visible output": the
\* attempt given up for a retry has shown nothing, as far as its row says.
RetryOnlyBeforeOutput ==
  [][\A r \in Run : state'[r] = "scheduled" /\ state[r] # "scheduled"
       => ~attempts[r][Len(attempts[r])].visible]_vars

\* The scheduler outlives whatever reconciliation meets: an admitted run is
\* picked up.
AdmittedRunIsPickedUp ==
  \A r \in Run : state[r] = "accepted" ~> state[r] # "accepted"
=============================================================================
