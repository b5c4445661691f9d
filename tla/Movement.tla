------------------------------ MODULE Movement ------------------------------
(***************************************************************************)
(* What the operations that move money between internal wallets post:      *)
(*   TRANSFER           WalletsService.transfer                            *)
(*   PAYMENT            PaymentEngineService.collectForMerchant            *)
(*   MERCHANT_TRANSFER  MerchantsService.transferFromMerchant              *)
(*   RETAIL             MerchantsService.fundRetailer / debitRetailer      *)
(*   MANUAL             AdminService.recordManualFunding                   *)
(* Each posts a net amount from one wallet to another, then up to two      *)
(* debits of the payer that have no counterpart.                           *)
(***************************************************************************)
EXTENDS Ledger

CONSTANTS Payloads,      \* what a client may ask: [kind, from, to, amount]
          OurFee,        \* PricingService.computeOurFee, by amount
          MerchantFee    \* LedgerService.computeFee at the merchant's rate, by amount

Kinds == {"TRANSFER", "PAYMENT", "MERCHANT_TRANSFER", "RETAIL", "MANUAL"}

Amounts == {p.amount : p \in Payloads}

ASSUME PayloadsAssumption ==
  /\ Payloads \subseteq [kind : Kinds, from : Wallets \cup {NoWallet},
                         to : Wallets, amount : Int]
  /\ \A p \in Payloads : p.from # p.to
  /\ \A p \in Payloads : p.kind = "MANUAL" <=> p.from = NoWallet
  /\ OurFee \in [Amounts -> Nat]
  /\ MerchantFee \in [Amounts -> Nat]

(* What each operation moves, from whom to whom. *)
Move(kind, from, to, amount) ==
  [kind |-> kind, from |-> from, to |-> to, amount |-> amount]

Transfer(sender, recipient, amount) == Move("TRANSFER", sender, recipient, amount)
CollectForMerchant(payer, merchant, amount) == Move("PAYMENT", payer, merchant, amount)
TransferFromMerchant(merchant, user, amount) ==
  Move("MERCHANT_TRANSFER", merchant, user, amount)
FundRetailer(merchant, retailer, amount) == Move("RETAIL", merchant, retailer, amount)
DebitRetailer(merchant, retailer, amount) == Move("RETAIL", retailer, merchant, amount)
RecordManualFunding(wallet, amount) == Move("MANUAL", NoWallet, wallet, amount)

(* The kinds that carry an idempotency key into the Transaction row. *)
Keyed(p) == p.kind \in {"TRANSFER", "PAYMENT", "MERCHANT_TRANSFER"}

Serializable(p) == p.kind # "MANUAL"

Touched(p) == {p.from, p.to} \ {NoWallet}

Net(p) ==
  CASE p.kind = "TRANSFER" -> IF p.amount - OurFee[p.amount] > 0
                                THEN p.amount - OurFee[p.amount] ELSE 0
    [] p.kind = "PAYMENT"  -> p.amount - MerchantFee[p.amount]
    [] OTHER               -> p.amount

FirstFee(p) ==
  CASE p.kind = "TRANSFER" -> OurFee[p.amount]
    [] p.kind = "PAYMENT"  -> MerchantFee[p.amount]
    [] OTHER               -> 0

SecondFee(p) == IF p.kind = "PAYMENT" THEN OurFee[p.amount] ELSE 0

(* What the payer's wallet loses in all. *)
Cost(p) == Net(p) + FirstFee(p) + SecondFee(p)

(* Mutant of PostFee: the payee bears the fee a second time. *)
PostFeeOnPayee(L, p, fee, t) ==
  IF fee > 0 THEN PostDoubleEntry(L, p.to, NoWallet, fee, t) ELSE L

(* A fee of zero is not posted. *)
PostFee(L, p, fee, t) ==
  IF fee > 0 THEN PostDoubleEntry(L, p.from, NoWallet, fee, t) ELSE L

FeeRefused(L, p, fee) == fee > 0 /\ PostRefused(L, p.from, NoWallet, fee)

AfterNet(L, p, t) == PostDoubleEntry(L, p.from, p.to, Net(p), t)
AfterFirstFee(L, p, t) == PostFee(AfterNet(L, p, t), p, FirstFee(p), t)

(* The ledger once every leg is posted. *)
Post(L, p, t) == PostFee(AfterFirstFee(L, p, t), p, SecondFee(p), t)

(* Some leg throws, and the whole database transaction is rolled back. *)
Refused(L, p, t) ==
  \/ PostRefused(L, p.from, p.to, Net(p))
  \/ FeeRefused(AfterNet(L, p, t), p, FirstFee(p))
  \/ FeeRefused(AfterFirstFee(L, p, t), p, SecondFee(p))
=============================================================================
