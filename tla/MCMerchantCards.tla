-------------------------- MODULE MCMerchantCards --------------------------
(* Instances of MerchantCards for TLC. *)
EXTENDS MerchantCards, TLC

CONSTANTS r1, r2, r3, r4, c1, c2, anna, bako, phone1, phone2, lot

Ask(op, of, by) == [op |-> op, of |-> of, by |-> by]

MCBatch == (c1 :> r1) @@ (c2 :> r1)

(* r1 prints the cards; r2 prints the same lot again, or creates a         *)
(* merchant with a code of its own; r3 and r4 compete for one thing.       *)
MCSecond == {Ask("PRINT", lot, None), Ask("GENERATE", lot, None),
              Ask("REGISTER", None, None), Ask("RETAILER", None, None)}

MCOthers ==
  {Ask("ASSIGN", r1, anna), Ask("ASSIGN", r1, bako),
   Ask("LINK", c1, phone1), Ask("LINK", c1, phone2), Ask("LINK", c2, phone1),
   Ask("LINK", r2, phone2), Ask("ATTACH", c1, r2), Ask("ATTACH", r2, r3)}

MCOrders == MCSecond \cup MCOthers

MCOrderings ==
  {o \in [Requests -> MCOrders] :
     o[r1] = Ask("PRINT", lot, None) /\ o[r2] \in MCSecond /\ {o[r3], o[r4]} \subseteq MCOthers}
=============================================================================
