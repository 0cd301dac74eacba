CONSTANTS
  MaxGen = 2
  Keys <- MCKeys
  Handlers = {h1}
  Levels = 1
  MaxDeliveries = 2
  Faults = {}
  MaxMishaps = 0
  NoCopy = NoCopy
  Users = {u1}
  MaxRequests = 3
SPECIFICATION Spec
PROPERTY NoFalseSending
CHECK_DEADLOCK FALSE
