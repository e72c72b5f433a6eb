SPECIFICATION Spec
CONSTANTS
  t1 = t1
  t2 = t2
  t3 = t3
  Redemptions <- MCTwo
  Txns <- MCTwoTxns
  NoTx = NoTx
  Amount <- MCAmount
  Payee <- MCTwins
  DailyCap = 3
  GasFreeRail = TRUE
  RelayHonest = FALSE
  RelayTracks = FALSE
  PermitLife = 1
  Grace = 1
  CallBound = 0
  Lag = 1
  Day = 9
  WritesFail = TRUE
  BreakerTrips = FALSE
  MaxNow = 3
  SignUntil = 3
  MaxNonce = 1
  MaxCrashes = 0
SYMMETRY TwoTxnSymmetry
INVARIANTS
  TypeOK
  NoSharedTransfer
  AtMostOnePayout
