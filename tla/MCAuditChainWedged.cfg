CONSTANTS
  Events = {e1, e2}
  Calls = {}
  Handlers = {h1}
  Faults = {"insert"}
  MaxOfAKind = 1
SPECIFICATION FairSpec
PROPERTY EventIsRecordedAnyway
CHECK_DEADLOCK FALSE
