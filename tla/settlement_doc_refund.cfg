SPECIFICATION FairSpec
CONSTANTS
  user = user
  shop = shop
  k1 = k1
  k2 = k2
  Txs = {1}
  Batch = 1
  Wallets = {user, shop}
  Keys = {k1, k2}
  MaxSends = 1
  MaxFaults = 0
  Orders <- MCOrders
  Hub2Fee <- MCHub2Fee
  Opening <- MCOpening
CHECK_DEADLOCK FALSE
PROPERTIES
  RefusedWithdrawalsAreRefunded
