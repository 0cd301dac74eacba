CONSTANTS
  Rows = {m1, m2}
  Relays = {r1}
  MaxAttempts = 2
  BatchSize = 2
  Clusters = {TRUE}
  Requeue = TRUE
SPECIFICATION FairSpec
PROPERTY EveryRowIsDelivered
CHECK_DEADLOCK FALSE
