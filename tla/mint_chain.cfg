SPECIFICATION FairSpec
CONSTANTS
  Intents <- MCOne
  Amount <- MCAmount
  DepositBacked <- MCOne
  OverTxCap = {}
  DailyCap = 4
  NeedsCosigner = TRUE
  MaxAttempts = 2
  Confirmations = 1
  BreakerTrips = TRUE
  NodeLags = TRUE
  DaysPass = FALSE
  MaxHeight = 3
  MaxApprovals = 1
  MaxTroubles = 1
INVARIANTS
  TypeOK
  EventsFollowChain
  RejectedIsNeverMinted
PROPERTIES
  MintKeepsPromise
  MintResolved
  MintIsCredited
CHECK_DEADLOCK FALSE
