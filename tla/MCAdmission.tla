---------------------------- MODULE MCAdmission ----------------------------
(* Instance of Admission for TLC: one run request, published, delivered and *)
(* resolved while an administrator deprecates the release.                  *)
EXTENDS Admission

CONSTANTS a1, d1, v1, i1, g1, u1, r1, k1, c1, c2

FirstRelease ==
  {[op |-> "publish", key |-> k1, release |-> d1, agent |-> a1, version |-> v1, image |-> i1]}
FirstGrant == {[op |-> "grant", key |-> k1, grant |-> g1, agent |-> a1, user |-> u1]}
Requests ==
  {[op |-> "deprecate", key |-> k1, release |-> d1, agent |-> a1],
   [op |-> "resolve", key |-> k1, run |-> r1, user |-> u1, release |-> d1]}
=============================================================================
