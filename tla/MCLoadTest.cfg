SPECIFICATION Spec
CONSTANTS
  a = a
  b = b
  Accounts <- TwoAccounts
  tx_amount = 2
  Timeout = 1
  Endless = TRUE
  MaxRounds = 2
  MaxLost = 1
CHECK_DEADLOCK FALSE
INVARIANTS NoNonceGap RoundMeasuresItsOwn
PROPERTIES RoundsEnd
