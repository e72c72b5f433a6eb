SPECIFICATION FairPollerSpec
CONSTANTS
  a1 = a1
  a2 = a2
  a3 = a3
  t1 = t1
  t2 = t2
  Addresses <- MCThree
  Transfers <- MCOne
  PaidTo <- MCTo
  Dust = {}
  Budget = 2
  MaxHot = 1
  ReadOverlap = 1
  ListingLag = 1
  PassLife = 0
  MaxTicks = 2
INVARIANTS
  PollerTypeOK
  NothingSkipped
PROPERTY
  EveryDepositRead
