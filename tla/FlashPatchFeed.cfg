CONSTANTS
  Agents = {a1}
  Threshold = 2
  MaxPolls = 2
  MaxRound = 2
  MaxMessages = 13
  MaxBids = 2
  None = None
SPECIFICATION Spec
INVARIANTS ShowsLastEmergency
PROPERTIES GoesForward CatchesUp
CHECK_DEADLOCK FALSE
