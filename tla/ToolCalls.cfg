SPECIFICATION Spec
CONSTANTS
  u1 = u1
  u2 = u2
  c1 = c1
  k1 = k1
  t1 = t1
  t2 = t2
  g1 = g1
  g2 = g2
  h1 = h1
  h2 = h2
  s1 = s1
  s2 = s2
  i1 = i1
  User = {u1, u2}
  Conversation = {c1}
  Tool = {t1, t2}
  Key = {k1}
  Grant = {g1, g2}
  Handler = {h1, h2}
  Owner <- FirstOwns
  Manifest <- AllTools
  Submitted <- Submissions
  GrantLife = 3
  MaxTime = 3
  Stream = {s1, s2}
  Invocation = {i1}
  MaxAttempts = 2
  MaxTries = 3
INVARIANTS
  TypeOK
  SubmissionIsOne
  EffectOnce
  AnswersAgree
  ActedOnExchange
SYMMETRY Symmetry
