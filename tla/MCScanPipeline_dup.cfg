SPECIFICATION Spec
CONSTANTS
  r1 = r1
  r2 = r2
  r3 = r3
  j1 = j1
  j2 = j2
  p1 = p1
  Jobs = {j1, j2}
  Photos = {p1}
  Runs = {r1, r2, r3}
INVARIANT NoPhantomDuplicate
