SPECIFICATION Spec
CONSTANTS
  Requests = {r1}
  Tasks = {t1, t2}
  Admins = {a1, a2}
  LiteFee = 1
  MaxFaults = 2
  Orders <- MCOrders
  HubFees <- MCHubFees
SYMMETRY WorkerSymmetry
CHECK_DEADLOCK FALSE
INVARIANTS
  RefundsGiveBackWhatWasPaid
