CONSTANTS
  Runners = {r1, r2}
  MaxAttempts = 3
  AmbiguousCap = 2
  MaxGen = 3
  MaxChanges = 3
  MaxMishaps = 1
SPECIFICATION FairSpec
INVARIANTS TypeOK OneRunner BudgetIsKept
PROPERTIES RetryIsNew ClosedIsFinal SuccessIsKept RetryingResolves
CHECK_DEADLOCK FALSE
