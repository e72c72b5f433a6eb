SPECIFICATION FairSpec
CONSTANTS
  d1 = d1
  d2 = d2
  d3 = d3
  t = t
  b = b
  Deposits = {d1, d2, d3}
  Addresses = {t, b}
  NoAddress = NoAddress
  Bsc = {b}
  Home <- MCHome
  Amount <- MCAmount
  Credited = {}
  HasGas = {}
  TopUps = TRUE
  CanAge = {d1, d2}
  Threshold = 2
  MinSweep = 1
  GasFreeOn = FALSE
  MaxTroubles = 1
INVARIANTS
  TypeOK
PROPERTIES
  CreditedIsSwept
  SweepKeepsPromise
