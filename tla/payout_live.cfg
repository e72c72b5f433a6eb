SPECIFICATION FairSpec
CONSTANTS
  t1 = t1
  t2 = t2
  t3 = t3
  Redemptions <- MCTwo
  Txns <- MCTwoTxns
  NoTx = NoTx
  Amount <- MCAmount
  Payee <- MCDistinct
  DailyCap = 3
  GasFreeRail = TRUE
  RelayHonest = TRUE
  RelayTracks = FALSE
  PermitLife = 1
  Grace = 1
  CallBound = 0
  Lag = 1
  Day = 9
  WritesFail = FALSE
  BreakerTrips = TRUE
  MaxNow = 3
  SignUntil = 0
  MaxNonce = 0
  MaxCrashes = 0
PROPERTIES
  PayoutKeepsPromise
  PermitSettled
