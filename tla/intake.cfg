SPECIFICATION Spec
CONSTANTS
  r1 = r1  r2 = r2  r3 = r3  u1 = u1  u2 = u2
  t1 = t1  t2 = t2  t3 = t3
  W = W  S = S  A = A  B = B  X = X  P = P
  p1 = p1  p2 = p2  p3 = p3  p4 = p4
  h1 = h1  h2 = h2  h3 = h3
  Requests = {r1, r2, r3}
  Asker <- MCAsker
  TopUps = {t1, t2, t3}
  TopUpFrom <- MCTopUpFrom
  Payers = {W}
  Sweepable = {S}
  Overlap = 1
  Lag = 1
  MaxNow = 3
  MaxDirectFails = 1
  Payments = {p1, p2, p3, p4}
  Hash <- MCHash
  From <- MCFrom
  To <- MCTo
  TooSmall = {}
  NoSender = NoSender
  PayIn = P
  Wallets = {W}
  UserAddresses = {A, B}
  Confirmations = 1
  MaxRange = 1
  Lookback = 1
  MaxHead = 3
  MaxBscFails = 1
  Intents = {1, 2}
  Amounts = {0, 1, 2}
  MaxArrivals = 2
  MaxDue = 1
  MaxLegacyFails = 1
INVARIANTS
  TypeOK
  RightlyCredited
  HandedOutIsWatched
PROPERTY
  NothingIsLost
CHECK_DEADLOCK FALSE
