SPECIFICATION FairSpec
CONSTANTS
  alice = alice
  bob = bob
  shop = shop
  Wallets = {alice, bob, shop}
  NoWallet = NoWallet
  Transactions = {r1, r2}
  Requests = {r1, r2}
  Intents = {i1, i2}
  NoIntent = NoIntent
  NoTransaction = NoTransaction
  MaxAttempts = 3
  Opening <- MCOpening
  OurFee <- MCOurFee
  MerchantFee <- MCMerchantFee
  Payloads <- MCPayloads
INVARIANTS
  TypeOK
  LedgerConsistent
  AtMostOncePerKey
  AnswersAreTrue
PROPERTIES
  AbstractSpec
  EveryRequestEnds
