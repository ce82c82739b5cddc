CONSTANTS
  Sellers = {cheap}
  Prices = {1}
  Polls = {p1, p2}
  MaxRound = 2
  MaxMessages = 8
  MaxBids = 1
  MaxCrashes = 1
  None = None
  Torn = Torn
SPECIFICATION Spec
INVARIANTS StatusIsFurthestStage ReplaysAsShown RatingSound
PROPERTIES LedgerCatchesUp
CHECK_DEADLOCK FALSE
