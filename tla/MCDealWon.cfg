CONSTANTS
  Callers = {d1, d2, d3, d4}
  MaxPolls = 2
  Faults = {"late", "ledger", "crash", "ttl"}
  EventCopies = 3
SPECIFICATION DFairSpec
INVARIANTS DTypeOK OneOwner AtMostOnce AnswersAgree SaleIsNotLost
PROPERTY ClaimIsSettled
CHECK_DEADLOCK FALSE
