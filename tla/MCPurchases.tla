---------------------------- MODULE MCPurchases ----------------------------
(* Instances of Purchases for TLC. *)
EXTENDS Purchases, TLC

CONSTANTS alice, shop, k1, k2

MCOpening == (alice :> 5) @@ (shop :> 3)

Buy(route, wallet, amount, fee, key) ==
  [route |-> route, wallet |-> wallet, amount |-> amount, fee |-> fee, key |-> key]

(* alice cannot pay for two of hers, shop not for both of its own; every   *)
(* key and every wallet is shared by two routes.                           *)
MCOrders ==
  {Buy("AIRTIME", alice, 2, 1, k1), Buy("BILL", alice, 3, 1, k2),
   Buy("GIFT_CARD", shop, 2, 1, k2), Buy("SALE", shop, 2, 0, k1)}

RequestSymmetry == Permutations(Requests)
=============================================================================
