SPECIFICATION MCSpec
CONSTANTS
  Requests = {1, 2, 3}
  Instances = {"a", "b"}
  HomeOf <- MCHomeOf
  Free = Free
INVARIANTS TypeOK SingleFlight NoEmptyPage
PROPERTIES NeverBackwards EveryRequestAnswered
CHECK_DEADLOCK FALSE
