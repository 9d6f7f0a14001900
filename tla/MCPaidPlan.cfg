SPECIFICATION MCSpec
CONSTANTS
  s1 = s1
  s2 = s2
  c1 = c1
  c2 = c2
  r1 = r1
  r2 = r2
  h1 = h1
  h2 = h2
  a1 = a1
  Subs = {s1, s2}
  Customers = {c1, c2}
  Requests = {r1, r2}
  Hooks = {h1, h2}
  Admins = {a1}
  None = None
  MaxChanges = 3
  MaxFaults = 1
CHECK_DEADLOCK FALSE
INVARIANTS TypeOK NothingUnpaidGrants InSyncWhenOrderly
PROPERTIES PaidReachesPro
