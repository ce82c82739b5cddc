CONSTANTS
  q1 = q1
  q2 = q2
  Requests = {q1, q2}
  Amount <- MCAmount
  HasArbiterKey = TRUE
  SessionCap = 3
  MinInterval = 1
  BuyerWallet = buyerWallet
  Seller = seller
  Vaults = vaults
  Funds = 4
  MaxTime = 1
  WalletAmounts = {1}
  MaxTransfers = 1
  MaxVerified = 2
  None = None
  Unset = Unset
SPECIFICATION Spec
INVARIANTS SettledMeansPaid EveryAnswerRecorded OneDepositPerRail
PROPERTIES LockedOnlyReleasable EveryRequestEnds
CHECK_DEADLOCK FALSE
