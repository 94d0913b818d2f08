----------------------------- MODULE MCRegistry -----------------------------
(* Instance of Registry for TLC: two administrators and the Runner at work  *)
(* on one agent with two releases, one run that is resolved repeatedly, and *)
(* another agent, whose release crosses the first one: what clashes with    *)
(* the version of one clashes with the image of the other.                  *)
EXTENDS Registry, TLC

CONSTANTS a1, a2, d1, d2, d3, d4, v1, v2, i1, i2, g1, g2, u1, r1, k1, k2, k3, k4, c1, c2

Pub(k, d, a, v, i) ==
  [op |-> "publish", key |-> k, release |-> d, agent |-> a, version |-> v, image |-> i]
Set(o, k, d, a) == [op |-> o, key |-> k, release |-> d, agent |-> a]
Give(k, g) == [op |-> "grant", key |-> k, grant |-> g, agent |-> a1, user |-> u1]
Resolution(k, d) == [op |-> "resolve", key |-> k, run |-> r1, user |-> u1, release |-> d]

Requests ==
  {Pub(k1, d1, a1, v1, i1), Pub(k2, d2, a2, v1, i2),
   Pub(k3, d3, a1, v1, i2), Pub(k4, d4, a2, v1, i1),
   Set("default", k1, d1, a1), Set("deprecate", k1, d1, a1),
   Give(k1, g1), Give(k2, g2), [op |-> "revoke", key |-> k1, grant |-> g1],
   Resolution(k1, d1), Resolution(k2, d1), Resolution(k2, d2)}

Symmetry == Permutations({c1, c2})
=============================================================================
