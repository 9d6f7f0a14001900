SPECIFICATION BreakerSpec
CONSTANTS
  Callers = {c1, c2, c3}
  FailureThreshold = 3
  Cooldown = 2
  Nobody = Nobody
INVARIANT TimeoutsTrip
