SPECIFICATION Spec
CONSTANTS
  None = None
  r1 = r1
  r2 = r2
  r3 = r3
  r4 = r4
  c1 = c1
  c2 = c2
  anna = anna
  bako = bako
  phone1 = phone1
  phone2 = phone2
  lot = lot
  Requests = {r1, r2, r3, r4}
  Cards = {c1, c2}
  Batch <- MCBatch
  Orders <- MCOrders
  Orderings <- MCOrderings
CHECK_DEADLOCK FALSE
INVARIANTS
  TypeOK
  AnswersStand
  SuspensionReachesCodes
PROPERTIES
  ActivatedCodesKeepTheirMerchant
