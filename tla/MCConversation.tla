--------------------------- MODULE MCConversation ---------------------------
(* Instance of Conversation for TLC: one conversation, a run with two       *)
(* attempts of which the first is interrupted by the Runner, and a          *)
(* suspension that is answered twice.                                       *)
EXTENDS Conversation, TLC

CONSTANTS t1, o1, o2, r1, r2, r3, u1, m1, m2, s1, k1, k2, g1, w1, w2

Sus(k) == [kind |-> k, thread |-> t1, run |-> r1, suspension |-> s1]

\* Two attempts of one run write and propose a message each, the first of which
\* is interrupted, and the run also suspends
Announcements ==
  Written(t1, r1, m1, 1, {"completed", "interrupted"}) \cup {Proposed(t1, r1, {m1})}
    \cup Written(t1, r1, m2, 0, {"completed"}) \cup {Proposed(t1, r1, {m2})}
    \cup {Sus("request"), Sus("commitment")}

FirstRequest == {[owner |-> o1, key |-> k1, thread |-> t1]}
Posts == {[owner |-> o1, key |-> k1, thread |-> t1, message |-> u1, run |-> r1, grant |-> g1]}
Answers == {[owner |-> o1, key |-> k, suspension |-> s1, run |-> IF k = k1 THEN r2 ELSE r3] : k \in {k1, k2}}

\* The agents of the instance complete their own messages
ASSUME OwnAnnouncements == OwnMessages

Symmetry == Permutations({w1, w2})
=============================================================================
