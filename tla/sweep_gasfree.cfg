SPECIFICATION FairSpec
CONSTANTS
  d1 = d1
  d2 = d2
  Deposits = {d1, d2}
  Arrives <- MCArrives
  Proposed <- MCProposed
  ActivateMax = 1
  TransferMaxima = {1, 2}
  MinDeposit = 2
  Strays = TRUE
  MaxTroubles = 2
INVARIANTS
  TypeOK
  ReserveCoversMinted
  SweptWasMoved
  FeeWithinHold
PROPERTIES
  PermitSettled
  MoneyMovesOn
