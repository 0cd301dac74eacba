CONSTANTS
  Events = {e1}
  Calls = {r1, r2}
  Handlers = {h1, h2}
  Faults = {"call", "insert", "crash", "duplicate"}
  MaxOfAKind = 1
SPECIFICATION FairSpec
INVARIANTS TypeOK PrevHashIsNeverStale ChainIsComplete NoEventIsLost NoDuplicateRecord
PROPERTY EventIsRecorded
CHECK_DEADLOCK FALSE
