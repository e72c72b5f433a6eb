SPECIFICATION Spec
CONSTANTS
  d1 = d1
  d2 = d2
  Deposits = {d1, d2}
  Arrives <- MCArrivesAlike
  Proposed <- MCProposed
  ActivateMax = 2
  TransferMaxima = {1}
  MinDeposit = 1
  Strays = FALSE
  MaxTroubles = 1
INVARIANT
  ReserveRule
