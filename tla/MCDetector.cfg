CONSTANTS
  Transactions <- MCTransactions
  Limit = 3
  MaxTx = 4
  MaxFailures = 1
  Simulates = TRUE
SPECIFICATION WatchSpec
INVARIANTS OneAlarmEach
PROPERTIES EveryExploitRaised
CHECK_DEADLOCK FALSE
