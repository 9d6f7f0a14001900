SPECIFICATION Spec
CONSTANTS
  Subs = {s1, s2}
  Customers = {c1}
  Requests = {r1}
  Hooks = {h1}
  Admins = {}
  None = None
  MaxChanges = 3
  MaxFaults = 0
CHECK_DEADLOCK FALSE
INVARIANT PayingMemberKeepsPro
