CONSTANTS
  MaxGen = 2
  Keys <- MCKeys
  Handlers = {h1, h2}
  Levels = 1
  MaxDeliveries = 2
  Faults = {"store", "broker", "channel", "crash", "copy"}
  MaxMishaps = 2
  NoCopy = NoCopy
  Users = {u1, u2}
  MaxRequests = 2
SPECIFICATION FairSpec
INVARIANTS TypeOK OncePerAttempt OnePerKey DoneWasCarriedOut NoRequestIsLost
PROPERTIES ImplementsSale SendingEnds
CHECK_DEADLOCK FALSE
