SPECIFICATION FairSpec
CONSTANTS
  d1 = d1
  d2 = d2
  x1 = x1
  x2 = x2
  A = A
  B = B
  G = G
  F = F
  P = P
  W = W
  V = V
  Deposits = {d1, d2}
  Transfers = {x1, x2}
  NoTransfer = NoTransfer
  NoOne = NoOne
  Plain = {A, B}
  Accounts = {G}
  Own = {F, P}
  MinDeposit = 2
  ActivateMax = 2
  TransferMax = 1
  Bps = 100
  MinFee = 1
  MaxTroubles = 1
  Scenes <- MCScenes
INVARIANTS
  TypeOK
  MintedIsBacked
  RejectedOnEvidence
CHECK_DEADLOCK FALSE
PROPERTIES
  CreditReachesUser
  ConfirmedIsResolved
