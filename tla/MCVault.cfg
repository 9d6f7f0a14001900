SPECIFICATION MCSpec
CONSTANTS
  j1 = j1
  j2 = j2
  d1 = d1
  d2 = d2
  m1 = m1
  m2 = m2
  h1 = h1
  h2 = h2
  al = al
  Jobs = {j1, j2}
  Alerts = {al}
  MaxPrice = 1
  Wants <- MCWants
  MaxDay = 2
  MaxPoints = 1
  Adders = {d1, d2}
  MaxCards = 4
  MaxLimit = 1
  Mailers = {m1, m2}
  EmailHooks = {h1, h2}
  Kinds = {"delivered", "bounced"}
  MaxMessages = 1
INVARIANTS VaultTypeOK AlertToldOnce PointsAreKept OvershootIsBounded BouncedIsSuppressed
