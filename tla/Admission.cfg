SPECIFICATION Spec
CONSTANTS
  a1 = a1
  d1 = d1
  v1 = v1
  i1 = i1
  g1 = g1
  u1 = u1
  r1 = r1
  k1 = k1
  c1 = c1
  c2 = c2
  Agent = {a1}
  Release = {d1}
  Version = {v1}
  Image = {i1}
  AccessGrant = {g1}
  User = {u1}
  Run = {r1}
  Key = {k1}
  Caller = {c1, c2}
  RunnerCall = {c2}
  Asked <- Requests
  Offered <- FirstRelease
  Granted <- FirstGrant
  Copy = {1, 2}
  MaxDeliveries = 2
  MaxRestarts = 1
INVARIANTS
  NoRequestLost
  AdmittedAsSpecified
PROPERTIES
  EveryRequestSettles
CHECK_DEADLOCK FALSE
