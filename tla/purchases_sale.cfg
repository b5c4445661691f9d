SPECIFICATION Spec
CONSTANTS
  alice = alice
  shop = shop
  k1 = k1
  k2 = k2
  Requests = {r1, r2, r3}
  Wallets = {alice, shop}
  Keys = {k1, k2}
  MaxAttempts = 2
  Orders <- MCOrders
  Opening <- MCOpening
SYMMETRY RequestSymmetry
CHECK_DEADLOCK FALSE
INVARIANTS
  FailedSalesAreRefunded
