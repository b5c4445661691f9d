--------------------------- MODULE MCStoredValue ---------------------------
(* Instances of StoredValue for TLC. *)
EXTENDS StoredValue, TLC

CONSTANTS trip, gold, card, plan, k1, k2

MCKind == (trip :> "COLLECTE") @@ (gold :> "GOLD") @@ (card :> "CARD") @@ (plan :> "SAVINGS")
MCState == (trip :> "ACTIVE") @@ (gold :> "ACTIVE") @@ (card :> "ACTIVE") @@ (plan :> "NONE")
MCPot == (trip :> 2) @@ (gold :> 2) @@ (card :> 4) @@ (plan :> 0)
MCBalance == ("holder" :> 3) @@ ("shop" :> 0)

MCOurFee == [a \in {2} |-> 1]
MCMerchantFee == [a \in {2} |-> 1]

MCOrders ==
  {o \in [op : Ops, pot : Pots, amount : {2}, key : Keys] : Offered(o.op, Kind[o.pot])}

RequestSymmetry == Permutations(Requests) \cup Permutations(Keys)
============================================================================
