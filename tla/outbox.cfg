SPECIFICATION Spec
CONSTANTS
  Keys = {k1, k2}
  Dispatchers = {d1, d2}
  MaxAttempts = 3
  Batch = 2
  MaxFaults = 2
  None = none
INVARIANT TypeOK ExclusiveClaim SentWasDelivered NotGivenUpEarly DuplicatesBounded
PROPERTY FinalIsFinal EveryRowSettles
CHECK_DEADLOCK FALSE
