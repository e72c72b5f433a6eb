SPECIFICATION Spec
CONSTANTS
  t1 = t1
  t2 = t2
  t3 = t3
  Redemptions <- MCThree
  Txns <- MCTwoTxns
  NoTx = NoTx
  Amount <- MCAmountTight
  Payee <- MCDistinct
  DailyCap = 3
  GasFreeRail = FALSE
  RelayHonest = TRUE
  RelayTracks = FALSE
  PermitLife = 1
  Grace = 0
  CallBound = 0
  Lag = 0
  Day = 2
  WritesFail = TRUE
  BreakerTrips = FALSE
  MaxNow = 2
  SignUntil = 2
  MaxNonce = 0
  MaxCrashes = 1
SYMMETRY TwoTxnSymmetry
INVARIANTS
  DailyOutflowCapped
  PaidWasTransferred
