SPECIFICATION FairSpec
CONSTANTS
  alice = alice
  shop = shop
  k1 = k1
  k2 = k2
  Requests = {r1, r2, r3}
  Wallets = {alice, shop}
  Keys = {k1, k2}
  MaxAttempts = 2
  Orders <- MCOrders
  Opening <- MCOpening
CHECK_DEADLOCK FALSE
INVARIANTS
  TypeOK
  RowsAreTrue
  DeliveriesAreBounded
PROPERTIES
  PromiseSpec
  RowsConclude
