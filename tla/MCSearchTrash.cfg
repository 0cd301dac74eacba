CONSTANTS
  Users = {u1}
  Records = {k1}
  Fields = {f1}
  Flat = {}
  Stamped = {"updated", "restored"}
  Runs = {}
  Faults = {}
  Prefetch = 2
  MaxMutations = 4
SPECIFICATION Spec
INVARIANT DeletedIsNotFindable
CHECK_DEADLOCK FALSE
