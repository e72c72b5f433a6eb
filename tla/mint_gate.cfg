SPECIFICATION Spec
CONSTANTS
  Intents <- MCTwo
  Amount <- MCAmount
  DepositBacked <- MCOne
  OverTxCap <- MCOne
  DailyCap = 3
  NeedsCosigner = FALSE
  MaxAttempts = 1
  Confirmations = 0
  BreakerTrips = FALSE
  NodeLags = FALSE
  DaysPass = TRUE
  MaxHeight = 1
  MaxApprovals = 2
  MaxTroubles = 2
INVARIANTS
  ApprovedIsQueued
  InFlightWithinCap
CHECK_DEADLOCK FALSE
