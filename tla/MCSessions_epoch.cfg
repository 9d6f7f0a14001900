SPECIFICATION Spec
CONSTANTS
  s1 = s1
  s2 = s2
  Slots = {s1, s2}
  MaxRevs = 3
  MaxHash = 2
  MaxTokens = 2
  MaxLinks = 1
INVARIANT RevokedStayRevoked
