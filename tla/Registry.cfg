SPECIFICATION RSpec
CONSTANTS
  a1 = a1
  a2 = a2
  d1 = d1
  d2 = d2
  d3 = d3
  d4 = d4
  v1 = v1
  v2 = v2
  i1 = i1
  i2 = i2
  g1 = g1
  g2 = g2
  u1 = u1
  r1 = r1
  k1 = k1
  k2 = k2
  k3 = k3
  k4 = k4
  c1 = c1
  c2 = c2
  Agent = {a1, a2}
  Release = {d1, d2, d3, d4}
  Version = {v1, v2}
  Image = {i1, i2}
  AccessGrant = {g1, g2}
  User = {u1}
  Run = {r1}
  Key = {k1, k2, k3, k4}
  Caller = {c1, c2}
  Asked <- Requests
SYMMETRY Symmetry
INVARIANTS
  DefaultIsPublished
  NoUniqueViolation
  DeadlocksAreRefusals
