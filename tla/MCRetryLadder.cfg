CONSTANTS
  Messages = {m1}
  Consumers = {c1}
  Levels = 2
  MaxSends = 2
  MaxDrops = 1
SPECIFICATION FairSpec
INVARIANTS TypeOK NeverDropped
PROPERTY EventuallySettled
CHECK_DEADLOCK FALSE
