----------------------------- MODULE MCRuntime -----------------------------
(* Instances of RuntimeStream for TLC: how much each attempt sends.         *)
EXTENDS RuntimePromises

\* The first attempt sends once and the second one twice
FewThenMore == [e \in Attempt |-> e]

\* Two sends each
TwoEach == [e \in Attempt |-> 2]
=============================================================================
