CONSTANTS
  Rows = {m1, m2, m3}
  Relays = {r1, r2}
  MaxAttempts = 2
  BatchSize = 2
  Clusters = {TRUE, FALSE}
  Requeue = FALSE
SPECIFICATION Spec
INVARIANTS TypeOK PublishedWasAccepted RecordsMatchEvents
PROPERTY ImplementsDelivery
CHECK_DEADLOCK FALSE
