CONSTANTS
  Self = broker
  Customers = {c1, c2}
  cheap = cheap
  premium = premium
  Sellers <- MCSellers
  Price <- MCPrice
  Markup = 12
  MaxSol = 100
  MaxSays = 3
  MaxUnread = 2
  MaxBatch = 1
  MaxRepeats = 0
  None = None
SPECIFICATION Spec
INVARIANTS ServedOncePaid RightData SpreadKept OnePurchasePerRequest
PROPERTIES CycleEnds
CHECK_DEADLOCK FALSE
