SPECIFICATION Spec
CONSTANTS
  trip = trip
  gold = gold
  card = card
  plan = plan
  k1 = k1
  k2 = k2
  Requests = {r1, r2, r3, r4}
  Pots = {trip, gold, card, plan}
  Keys = {k1, k2}
  Kind <- MCKind
  Orders <- MCOrders
  OurFee <- MCOurFee
  MerchantFee <- MCMerchantFee
  InitialState <- MCState
  InitialPot <- MCPot
  InitialBalance <- MCBalance
SYMMETRY RequestSymmetry
CHECK_DEADLOCK FALSE
INVARIANTS
  TypeOK
  GoldIsCovered
  OnlyStaleReadsHurt
  ValueIsConserved
