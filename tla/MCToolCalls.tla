---------------------------- MODULE MCToolCalls ----------------------------
(* Instance of ToolCalls for TLC: a conversation whose release has two      *)
(* tools, submissions that are repeated, two attempts, two streams.         *)
EXTENDS ToolCalls, TLC

CONSTANTS u1, u2, c1, k1, t1, t2, g1, g2, h1, h2, s1, s2, i1

FirstOwns == [c \in Conversation |-> u1]
AllTools == [c \in Conversation |-> Tool]
\* The owner's submission, and one with the same key by somebody else
Submissions == [user : {u1, u2}, conversation : {c1}, key : {k1}]

Symmetry ==
  Permutations({t1, t2}) \cup Permutations({g1, g2}) \cup Permutations({h1, h2})
    \cup Permutations({s1, s2})
=============================================================================
