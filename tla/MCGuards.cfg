SPECIFICATION MCSpec
CONSTANTS
  Slots = {1, 2, 3}
  MaxAttempts = 2
  LockFor = 3
  MaxAge = 2
  FactorReqs = {q1, q2}
  CodesEach = 2
  MaxSecrets = 2
  MaxEnrolments = 2
  Callers = {c1, c2, c3}
  FailureThreshold = 3
  Cooldown = 2
  Nobody = Nobody
  Lookups = {d1, d2, d3}
  SoftCeiling = 2
  MaxPage = 3
  MaxAnswered = 6
INVARIANTS GuardsTypeOK ThresholdHolds SpentStaysSpent SecretWasConfirmed TripsOnAStreak CeilingHolds
PROPERTIES ActiveLockNeverLifted LockLifts KeepsPromise RecoveredProviderReturns
