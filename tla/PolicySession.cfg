CONSTANTS
  Unset = Unset
  Amounts = {1, 2, 3}
  RoundCap = 2
  SessionCap = 4
  MinInterval = 2
  MaxNow = 8
  MaxAdrift = 1
  MaxUnseen = 3
SPECIFICATION SessionSpec
INVARIANTS SessionCapHeld
PROPERTIES DepositsSpaced
CHECK_DEADLOCK FALSE
