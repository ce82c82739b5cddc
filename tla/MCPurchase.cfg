CONSTANTS
  Recipients = {r1, r2}
  References = {f1, f2}
  Amounts <- MCAmounts
  Budget = 5
  MaxTurns = 3
  MaxTools = 2
  MaxPurchases = 2
  None = None
SPECIFICATION Spec
INVARIANTS WithinBudget PaidWhatWasSeen NoSilentPayment
PROPERTIES PurchaseEnds
CHECK_DEADLOCK FALSE
