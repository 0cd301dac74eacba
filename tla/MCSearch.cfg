CONSTANTS
  Users = {u1, u2}
  Records = {k1}
  Fields = {f1, f2}
  Flat = {f2}
  Stamped = {"updated", "restored"}
  Runs = {}
  Faults = {"crash", "ledger", "dead"}
  Prefetch = 3
  MaxMutations = 4
SYMMETRY Symmetry
SPECIFICATION Spec
INVARIANTS TypeOK AgreesAtRest PurgedStaysErased
CHECK_DEADLOCK FALSE
