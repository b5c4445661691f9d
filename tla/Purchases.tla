----------------------------- MODULE Purchases -----------------------------
(***************************************************************************)
(* Airtime, gift cards and bills bought at Reloadly with the money of a    *)
(* wallet.  Delivery cannot be undone, payment can, and the two are not    *)
(* one transaction:                                                        *)
(*   AIRTIME    purchaseAirtimeFromWallet calls Reloadly inside its        *)
(*              database transaction, which may be rolled back afterwards; *)
(*   GIFT_CARD, BILL   debit first, call, then refund if refused;          *)
(*   SALE       sellAirtime of a merchant: debit first, call, no refund.   *)
(***************************************************************************)
EXTENDS Integers

CONSTANTS
  Requests,
  Wallets,
  Keys,          \* Idempotency-Key headers
  Orders,        \* what may be bought: [route, wallet, amount, fee, key]
  Opening,       \* opening balances
  MaxAttempts    \* MAX_SERIALIZATION_RETRIES

Routes == {"AIRTIME", "GIFT_CARD", "BILL", "SALE"}

Order == [route : Routes, wallet : Wallets, amount : Nat \ {0}, fee : Nat, key : Keys]

ASSUME PurchasesAssumption ==
  /\ Orders \subseteq {o \in Order : o.route = "SALE" => o.fee = 0}
  /\ Opening \in [Wallets -> Nat]
  /\ MaxAttempts \in Nat \ {0}

VARIABLES
  order,      \* order[r]: what request r buys
  pc,         \* pc[r]
  attempts,   \* attempts[r]: database transactions opened, AIRTIME only
  aborted,    \* aborted[r]: those rolled back after Reloadly was called
  answer,     \* answer[r]: what the adapter made of Reloadly's reply
  status,     \* status[r]: of the Transaction row, NONE if there is none
  balance,    \* cached balances
  flow,       \* flow[r]: what the entries of r add up to
  delivered   \* delivered[r]: goods Reloadly has delivered for r

vars == <<order, pc, attempts, aborted, answer, status, balance, flow, delivered>>

Answers == {"NONE", "SUCCESS", "PROCESSING", "FAILED"}

TypeOK ==
  /\ order \in [Requests -> Orders]
  /\ pc \in [Requests -> {"idle", "admitted", "open", "called", "debited", "answered",
                          "refunded", "done", "refused", "dead"}]
  /\ attempts \in [Requests -> 0..MaxAttempts]
  /\ aborted \in [Requests -> Nat]
  /\ answer \in [Requests -> Answers]
  /\ status \in [Requests -> Answers]
  /\ balance \in [Wallets -> Nat]
  /\ flow \in [Requests -> Int]
  /\ delivered \in [Requests -> Nat]

Init ==
  /\ order \in [Requests -> Orders]
  /\ pc = [r \in Requests |-> "idle"]
  /\ attempts = [r \in Requests |-> 0]
  /\ aborted = [r \in Requests |-> 0]
  /\ answer = [r \in Requests |-> "NONE"]
  /\ status = [r \in Requests |-> "NONE"]
  /\ balance = Opening
  /\ flow = [r \in Requests |-> 0]
  /\ delivered = [r \in Requests |-> 0]

-----------------------------------------------------------------------------
Total(r) == order[r].amount + order[r].fee

SameKey(r) == {s \in Requests \ {r} : order[s].key = order[r].key}

(* Mutant of KeyTaken: the transaction that exists is not looked for. *)
KeyNeverTaken(r) == FALSE

(* A committed transaction has the key of r. *)
KeyTaken(r) == \E s \in SameKey(r) : status[s] # "NONE"

(* A database transaction under way has inserted the key, or updated the   *)
(* wallet: Postgres makes r wait for its end.                              *)
Underway(s) == pc[s] \in {"open", "called"}

KeyLocked(r) == \E s \in SameKey(r) : Underway(s)

WalletLocked(r) ==
  \E s \in Requests \ {r} : Underway(s) /\ order[s].wallet = order[r].wallet

(* Mutant of Covered: the balance is not checked. *)
CoveredAlways(r) == TRUE

Covered(r) == balance[order[r].wallet] >= Total(r)

GoTo(r, place) == pc' = [pc EXCEPT ![r] = place]

Admit(r) ==
  /\ pc[r] = "idle" /\ ~KeyTaken(r)
  /\ GoTo(r, "admitted")
  /\ UNCHANGED <<order, attempts, aborted, answer, status, balance, flow, delivered>>

(* An existing key, a balance too small, the unique key of the row,        *)
(* retries that are used up; also a PIN, a limit or a merchant's status,   *)
(* which are not modelled, so that a refusal is always possible.           *)
Refuse(r) ==
  /\ \/ pc[r] = "idle" /\ KeyTaken(r)
     \/ pc[r] = "admitted" /\ ~KeyLocked(r)
  /\ GoTo(r, "refused")
  /\ UNCHANGED <<order, attempts, aborted, answer, status, balance, flow, delivered>>

(* The process dies, or a call throws: nothing catches it. *)
Die(r) ==
  /\ pc[r] \in {"open", "called", "debited", "answered", "refunded"}
  /\ GoTo(r, "dead")
  /\ UNCHANGED <<order, attempts, aborted, answer, status, balance, flow, delivered>>

-----------------------------------------------------------------------------
(* Reloadly, external: it delivers, promises to, or refuses.               *)
Replies == {"SUCCESSFUL", "PROCESSING", "ERROR"}

Deliveries(reply) ==
  CASE reply = "SUCCESSFUL" -> {1}
    [] reply = "PROCESSING" -> {0, 1}
    [] OTHER                -> {0}

(* Mutant of Decoded: a bill under way is a failure, as airtime is. *)
DecodedLikeAirtime(route, reply) ==
  IF reply = "SUCCESSFUL" \/ (reply = "PROCESSING" /\ route = "GIFT_CARD")
    THEN "SUCCESS" ELSE "FAILED"

(* The adapters: only bills know PROCESSING; a gift card order is done if  *)
(* HTTP says so, airtime has failed unless it is SUCCESSFUL.               *)
Decoded(route, reply) ==
  CASE reply = "SUCCESSFUL" \/ (reply = "PROCESSING" /\ route = "GIFT_CARD") -> "SUCCESS"
    [] reply = "PROCESSING" /\ route = "BILL"                                -> "PROCESSING"
    [] OTHER                                                                 -> "FAILED"

CallReloadly(r, from, to) ==
  /\ pc[r] = from
  /\ \E reply \in Replies : \E n \in Deliveries(reply) :
       /\ answer' = [answer EXCEPT ![r] = Decoded(order[r].route, reply)]
       /\ delivered' = [delivered EXCEPT ![r] = @ + n]
  /\ GoTo(r, to)
  /\ UNCHANGED <<order, attempts, aborted, status, balance, flow>>

(* The call throws: what Reloadly did of it is not known. *)
CallLost(r) ==
  /\ pc[r] \in {"open", "debited"}
  /\ \E n \in {0, 1} : delivered' = [delivered EXCEPT ![r] = @ + n]
  /\ GoTo(r, "dead")
  /\ UNCHANGED <<order, attempts, aborted, answer, status, balance, flow>>

-----------------------------------------------------------------------------
(* AIRTIME: one database transaction around the call *)

(* The row is inserted and the wallet debited, to be committed later. *)
OpenAirtime(r) ==
  /\ pc[r] = "admitted" /\ order[r].route = "AIRTIME"
  /\ attempts[r] < MaxAttempts
  /\ ~KeyTaken(r) /\ ~KeyLocked(r) /\ ~WalletLocked(r) /\ Covered(r)
  /\ attempts' = [attempts EXCEPT ![r] = @ + 1]
  /\ GoTo(r, "open")
  /\ UNCHANGED <<order, aborted, answer, status, balance, flow, delivered>>

CallAirtime(r) == CallReloadly(r, "open", "called")

(* A refusal has been refunded in the same transaction. *)
CommitAirtime(r) ==
  LET paid == IF answer[r] = "SUCCESS" THEN Total(r) ELSE 0 IN
  /\ pc[r] = "called"
  /\ status' = [status EXCEPT ![r] = answer[r]]
  /\ balance' = [balance EXCEPT ![order[r].wallet] = @ - paid]
  /\ flow' = [flow EXCEPT ![r] = 0 - paid]
  /\ GoTo(r, "done")
  /\ UNCHANGED <<order, attempts, aborted, answer, delivered>>

(* A serialization conflict: all is rolled back but the delivery, and      *)
(* runSerializable starts again, or gives up.                              *)
ConflictAirtime(r) ==
  /\ Underway(r)
  /\ aborted' = [aborted EXCEPT ![r] = @ + (IF pc[r] = "called" THEN 1 ELSE 0)]
  /\ GoTo(r, IF attempts[r] < MaxAttempts THEN "admitted" ELSE "refused")
  /\ UNCHANGED <<order, attempts, answer, status, balance, flow, delivered>>

-----------------------------------------------------------------------------
(* GIFT_CARD, BILL, SALE: debit, call, conclude *)

Debit(r) ==
  /\ pc[r] = "admitted" /\ order[r].route # "AIRTIME"
  /\ ~KeyTaken(r) /\ ~KeyLocked(r) /\ ~WalletLocked(r) /\ Covered(r)
  /\ status' = [status EXCEPT ![r] = "PROCESSING"]
  /\ balance' = [balance EXCEPT ![order[r].wallet] = @ - Total(r)]
  /\ flow' = [flow EXCEPT ![r] = 0 - Total(r)]
  /\ GoTo(r, "debited")
  /\ UNCHANGED <<order, attempts, aborted, answer, delivered>>

PlaceOrder(r) == CallReloadly(r, "debited", "answered")

(* Mutant of Refund: our fee is kept. *)
RefundAmount(r) ==
  /\ pc[r] = "answered" /\ answer[r] = "FAILED" /\ order[r].route # "SALE"
  /\ ~WalletLocked(r)
  /\ balance' = [balance EXCEPT ![order[r].wallet] = @ + order[r].amount]
  /\ flow' = [flow EXCEPT ![r] = @ + order[r].amount]
  /\ GoTo(r, "refunded")
  /\ UNCHANGED <<order, attempts, aborted, answer, status, delivered>>

(* A transaction of its own, before the row says FAILED. *)
Refund(r) ==
  /\ pc[r] = "answered" /\ answer[r] = "FAILED" /\ order[r].route # "SALE"
  /\ ~WalletLocked(r)
  /\ balance' = [balance EXCEPT ![order[r].wallet] = @ + Total(r)]
  /\ flow' = [flow EXCEPT ![r] = @ + Total(r)]
  /\ GoTo(r, "refunded")
  /\ UNCHANGED <<order, attempts, aborted, answer, status, delivered>>

(* Mutant of Conclude: nothing is written once the refund has been made. *)
ConcludeUnlessRefunded(r) ==
  /\ pc[r] = "answered" /\ (answer[r] # "FAILED" \/ order[r].route = "SALE")
  /\ status' = [status EXCEPT ![r] = answer[r]]
  /\ GoTo(r, "done")
  /\ UNCHANGED <<order, attempts, aborted, answer, balance, flow, delivered>>

(* The row takes the status of the answer. *)
Conclude(r) ==
  /\ \/ pc[r] = "refunded"
     \/ pc[r] = "answered" /\ (answer[r] # "FAILED" \/ order[r].route = "SALE")
  /\ status' = [status EXCEPT ![r] = answer[r]]
  /\ GoTo(r, "done")
  /\ UNCHANGED <<order, attempts, aborted, answer, balance, flow, delivered>>

-----------------------------------------------------------------------------
Next ==
  \E r \in Requests :
    \/ Admit(r) \/ Refuse(r) \/ Die(r) \/ CallLost(r)
    \/ OpenAirtime(r) \/ CallAirtime(r) \/ CommitAirtime(r) \/ ConflictAirtime(r)
    \/ Debit(r) \/ PlaceOrder(r) \/ Refund(r) \/ Conclude(r)

Spec == Init /\ [][Next]_vars

(* A handler that neither dies nor gives up goes on to its next call or    *)
(* transaction; nothing obliges a client to send anything.                 *)
Handle(r) ==
  \/ CallAirtime(r) \/ CommitAirtime(r) \/ PlaceOrder(r) \/ Refund(r) \/ Conclude(r)

FairSpec == Spec /\ \A r \in Requests : WF_vars(Handle(r))

-----------------------------------------------------------------------------
(* A purchase takes its price and fee or nothing: no refund is partial,    *)
(* made twice, or made of something that was not paid.                     *)
PaidInFullOrNotAtAll == \A r \in Requests : flow[r] \in {0, 0 - Total(r)}

(* The debit of r stands, or waits to be committed. *)
Held(r) == IF Underway(r) THEN Total(r) ELSE 0 - flow[r]

(* A debit of r has been made, if only to be rolled back. *)
WasPaid(r) == attempts[r] > 0 \/ status[r] # "NONE"

(* Its database transaction was rolled back after the call, or died with   *)
(* the process, or Reloadly delivered what it had answered PROCESSING.     *)
Excused(r) ==
  /\ order[r].route = "AIRTIME"
  /\ \/ aborted[r] > 0
     \/ pc[r] = "dead"
     \/ answer[r] = "FAILED" /\ delivered[r] > 0

(* The debit, the call and the refund keep the promise of a purchase: paid *)
(* in full first, delivered once, given back in full and only if nothing   *)
(* was delivered; only airtime, called for inside the transaction, has     *)
(* excuses.                                                                *)
Promise ==
  INSTANCE PaidDelivery WITH
    price <- [r \in Requests |-> Total(r)],
    held <- [r \in Requests |-> Held(r)],
    paid <- [r \in Requests |-> WasPaid(r)],
    excused <- [r \in Requests |-> Excused(r)]

PromiseSpec == Promise!Spec

(* A failed row has cost nothing, and for gift cards and bills nothing was *)
(* delivered; a purchase concluded otherwise has been paid.                *)
RowsAreTrue ==
  \A r \in Requests :
    order[r].route # "SALE" =>
      /\ status[r] = "FAILED" => flow[r] = 0
      /\ status[r] = "SUCCESS" => flow[r] = 0 - Total(r)
      /\ status[r] = "FAILED" /\ order[r].route # "AIRTIME" => delivered[r] = 0

(* For one key, Reloadly delivers once, and once more for each database    *)
(* transaction that was rolled back, or died, after the call.              *)
DeliveriesAreBounded ==
  \A r, s \in Requests :
    /\ delivered[r] <= aborted[r] + 1
    /\ s \in SameKey(r) /\ delivered[r] > 0 /\ delivered[s] > 0 =>
         \E q \in {r, s} : aborted[q] > 0 \/ (order[q].route = "AIRTIME" /\ pc[q] = "dead")

(* A row whose request lives is concluded, unless it is of a bill that     *)
(* Reloadly answered PROCESSING: neither the sweep nor a poll asks again.  *)
RowsConclude ==
  \A r \in Requests :
    status[r] = "PROCESSING" ~>
      status[r] # "PROCESSING" \/ pc[r] = "dead" \/ answer[r] = "PROCESSING"

(* sellAirtime: the same pattern as purchaseAirtimeFromWallet, where a     *)
(* failure is refunded.  Fails: a sale Reloadly refuses stays debited.     *)
FailedSalesAreRefunded == \A r \in Requests : status[r] = "FAILED" => flow[r] = 0
=============================================================================
