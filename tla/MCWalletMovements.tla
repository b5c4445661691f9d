------------------------- MODULE MCWalletMovements -------------------------
(* Instance of WalletMovements for TLC. *)
EXTENDS WalletMovements, FiniteSetsExt, TLC

CONSTANTS alice, bob, shop

MCOpening == (alice :> 4) @@ (bob :> 2) @@ (shop :> 0)

(* Amounts are units of 50 FCFA or so; a payload of 1 has a net of zero. *)
MCOurFee == [a \in {q.amount : q \in Payloads} |-> 1]
MCMerchantFee == [a \in {q.amount : q \in Payloads} |-> a \div 3]

(* Payments that compete for the same wallets, in both directions. *)
MCPayments == {Transfer(alice, bob, 3), Transfer(bob, alice, 2),
               CollectForMerchant(alice, shop, 3)}

(* Keyed and unkeyed operations on the same wallets.  bob is a user, and    *)
(* the retailer of the merchant alice: the kinds do not ask which.         *)
MCMixed == {Transfer(alice, bob, 1), TransferFromMerchant(alice, bob, 2),
            FundRetailer(alice, bob, 3), DebitRetailer(alice, bob, 2),
            RecordManualFunding(alice, 1)}

MCPayloads == MCPayments \cup MCMixed
=============================================================================
