\* Two runs on one thread, two attempts each, two concurrent handlers, three
\* identifiers and two keys that may be used again in any request.
SPECIFICATION Spec
CONSTANTS
  r1 = r1
  r2 = r2
  t1 = t1
  k1 = k1
  k2 = k2
  i1 = i1
  i2 = i2
  i3 = i3
  c1 = c1
  c2 = c2
  Run = {r1, r2}
  Thread = {t1}
  ThreadOf <- ThreadOfRuns
  Epoch = {1, 2}
  Id = {i1, i2, i3}
  Key = {k1, k2}
  Call = {c1, c2}
  MaxVersion = 2
  Requests <- TwoRuns
SYMMETRY Symmetry
INVARIANTS
  TypeOK
  AnswersAgree
PROPERTIES
  LinearHistory
