---------------------------- MODULE MCSettlement ----------------------------
(* Instance of Settlement for TLC. *)
EXTENDS Settlement, TLC

CONSTANTS user, shop, k1, k2

MCOpening == (user :> 4) @@ (shop :> 1)

MCHub2Fee == [t \in Txs |-> 1]

Ask(type, wallet, payer, amount, ourFee, key) ==
  [type |-> type, wallet |-> wallet, payer |-> payer, amount |-> amount,
   ourFee |-> ourFee, key |-> key, airtime |-> FALSE]

(* A top-up the fees consume if HUB2 takes one, a withdrawal that leaves   *)
(* nothing for HUB2's fee, a payment, one that its own fee consumes, one   *)
(* made for airtime, and a payment request.                                *)
MCOrders ==
  {Ask("TOPUP", user, user, 2, 1, k1), Ask("WITHDRAWAL", user, user, 3, 1, k1),
   Ask("PAYMENT", shop, user, 3, 1, k1), Ask("PAYMENT", shop, user, 1, 1, k1),
   [Ask("PAYMENT", shop, user, 3, 1, k1) EXCEPT !.airtime = TRUE],
   Ask("REQUEST", shop, user, 2, 0, k2)}
=============================================================================
