SPECIFICATION MCSpec
CONSTANTS
  a1 = a1
  a2 = a2
  b = b
  t1 = t1
  t2 = t2
  m1 = m1
  m2 = m2
  Users <- MCUsers
  Pairs <- MCPairs
  Slots = {c1, c2}
  Texts = {t1, t2}
  NoText = NoText
  Reporters = {p1}
  Moderators = {m1, m2}
INVARIANT DoubtfulTextIsLookedAt
CHECK_DEADLOCK FALSE
