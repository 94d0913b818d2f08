--------------------------- MODULE MessageHistory ---------------------------
(* What the Conversation Service promises about messages: a message begins  *)
(* once, ends at most once, and what a reader has seen ended never changes. *)
(* A run is confirmed once, for messages that have ended as completed.      *)
EXTENDS Integers

CONSTANTS Message, Run, Chunk

VARIABLES
  state,      \* how far each message has come
  text,       \* the chunks of each ended message
  confirmed   \* the messages each confirmed run was confirmed for, {} before

mvars == <<state, text, confirmed>>

MInit ==
  /\ state = [m \in Message |-> "absent"]
  /\ text = [m \in Message |-> {}]
  /\ confirmed = [r \in Run |-> {}]

Begin(m) ==
  /\ state[m] = "absent"
  /\ state' = [state EXCEPT ![m] = "streaming"]
  /\ UNCHANGED text

\* An agent's message ends after it began; a user's is stored complete
End(m) ==
  /\ \/ state[m] = "absent" /\ state' = [state EXCEPT ![m] = "completed"]
     \/ /\ state[m] = "streaming"
        /\ \E s \in {"completed", "interrupted", "failed"} : state' = [state EXCEPT ![m] = s]
  /\ \E t \in SUBSET Chunk : text' = [text EXCEPT ![m] = t]

\* Possibly in the same step in which the last of the messages ends
Confirm(r) ==
  /\ confirmed[r] = {}
  /\ \E M \in (SUBSET Message) \ {{}} : /\ \A m \in M : state'[m] = "completed"
                                        /\ confirmed' = [confirmed EXCEPT ![r] = M]

MNext ==
  /\ (\E m \in Message : Begin(m) \/ End(m)) \/ UNCHANGED <<state, text>>
  /\ (\E r \in Run : Confirm(r)) \/ UNCHANGED confirmed

MSpec == MInit /\ [][MNext]_mvars
=============================================================================
