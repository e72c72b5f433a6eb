SPECIFICATION Spec
CONSTANTS
  d1 = d1
  d2 = d2
  d3 = d3
  t = t
  b = b
  Deposits = {d1, d2, d3}
  Addresses = {t, b}
  Bsc = {b}
  Home <- MCHome
  Amount <- MCAmount
  Credited = {d1, d2}
  Base = 4
  InFloat = 0
  Redeemed = 1
  Filling = 3
  Loss = 1
INVARIANTS
  TypeOK
  NeverOverCounted
  OkMeansBacked
  NoUnexplainedAlarm
