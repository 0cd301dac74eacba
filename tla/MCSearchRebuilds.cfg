CONSTANTS
  Users = {u1}
  Records = {k1, k2}
  Fields = {f1}
  Flat = {}
  Stamped = {"updated", "restored"}
  Runs = {x1, x2}
  Faults = {"crash"}
  Prefetch = 2
  MaxMutations = 2
SYMMETRY Symmetry
SPECIFICATION Spec
INVARIANTS OneSweeper ReindexRepairs
PROPERTY VersionsGrow
CHECK_DEADLOCK FALSE
