SPECIFICATION Spec
CONSTANTS
  t1 = t1
  o1 = o1
  o2 = o2
  r1 = r1
  r2 = r2
  r3 = r3
  u1 = u1
  m1 = m1
  m2 = m2
  s1 = s1
  k1 = k1
  k2 = k2
  g1 = g1
  w1 = w1
  w2 = w2
  Thread = {t1}
  Owner = {o1}
  Run = {r1, r2, r3}
  Message = {u1, m1, m2}
  Suspension = {s1}
  Chunk = {1, 2}
  Key = {k1, k2}
  Grant = {g1}
  Announced <- Announcements
  Opening <- FirstRequest
  Posting <- Posts
  Responding <- Answers
  Worker = {w1, w2}
SYMMETRY Symmetry
INVARIANTS
  PresentedOnce
  ConfirmedWhenComplete
  OpenWhenCommitted
  OneRunPerTrigger
  NoGapForReaders
PROPERTIES
  MessagesStayEnded
CHECK_DEADLOCK FALSE
