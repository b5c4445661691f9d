----------------------------- MODULE Settlement -----------------------------
(***************************************************************************)
(* Transactions that HUB2 carries out (top-ups, payments to a merchant     *)
(* from Mobile Money, withdrawals) and payment requests between users,     *)
(* from their creation to their final status.                              *)
(*                                                                         *)
(* The request that creates a transaction calls HUB2, then stores HUB2's   *)
(* reference, then the PaymentAttempt: it can fail or die in between.      *)
(* HUB2 decides in its own time and says so by webhooks, which may come    *)
(* before the reference is stored, several times, out of order or never.   *)
(* The client's polling and ReconciliationService ask HUB2 as well.  Every *)
(* path ends in one of the complete... methods, each a SERIALIZABLE        *)
(* database transaction and so a single step here (WalletMovements shows   *)
(* what that rests on).                                                    *)
(***************************************************************************)
EXTENDS Integers, FiniteSetsExt

CONSTANTS Txs,           \* numbered in the order in which they are created
          Wallets,
          Keys,          \* Idempotency-Key headers
          Orders,        \* [type, wallet, payer, amount, ourFee, key, airtime]
          Hub2Fee,       \* the fee HUB2 puts in its webhook, by transaction
          Opening,       \* opening balances
          Batch,         \* how many rows one pass of the sweep takes
          MaxSends,      \* bound: webhooks HUB2 sends for one transaction
          MaxFaults      \* bound: finalisations lost to crashes and conflicts

Types == {"TOPUP", "WITHDRAWAL", "PAYMENT", "REQUEST"}

(* wallet: the destination, or the source of a withdrawal; payer: the      *)
(* wallet of the user who initiated it; ourFee: computed from the amount,  *)
(* for a payment with the merchant's commission; airtime: it is made for a *)
(* payment link of ORZAYAH_MERCHANT_ID that stands for airtime or data.    *)
Order == {o \in [type : Types, wallet : Wallets, payer : Wallets, amount : Nat \ {0},
                 ourFee : Nat, key : Keys, airtime : BOOLEAN] :
            o.airtime => o.type = "PAYMENT"}

ASSUME SettlementAssumption ==
  /\ Orders \subseteq Order
  /\ Hub2Fee \in [Txs -> Nat]
  /\ Opening \in [Wallets -> Nat]
  /\ Txs \subseteq Nat
  /\ Batch \in Nat \ {0}
  /\ MaxSends \in Nat
  /\ MaxFaults \in Nat

(* The database holds finitely many rows: what makes their sums numbers.   *)
ASSUME FiniteRows == IsFiniteSet(Txs) /\ IsFiniteSet(Wallets)

VARIABLES
  order,        \* order[t]: what is asked
  status,       \* Transaction.status, NONE before the row exists
  feeAmount,    \* Transaction.feeAmount
  providerRef,  \* providerRef[t]: HUB2's reference is in the row
  attempt,      \* status of the PaymentAttempt row, NONE before it exists
  caller,       \* where the request that creates t is
  balance,      \* cached balances
  flow,         \* flow[t]: credits minus debits among the entries of t
  hub,          \* where t is at HUB2
  mail,         \* webhooks on their way
  sends,        \* sends[t]: webhooks sent
  heard,        \* heard[t]: a webhook for t within WEBHOOK_TRUST_WINDOW_MS
  tasks,        \* calls of a complete... method under way
  faults,       \* faults[t]: finalisations of t lost so far
  served,       \* served[t]: times Reloadly has delivered what t paid for
  old           \* undecided transactions older than MAX_AGE_MS

vars == <<order, status, feeAmount, providerRef, attempt, caller, balance, flow,
          hub, mail, sends, heard, tasks, faults, served, old>>
row == <<order, status, feeAmount, providerRef, attempt>>
money == <<balance, flow>>
losses == <<faults, served>>
channel == <<mail, sends, heard, tasks, losses, old>>

Total(f, S) == MapThenSumSet(LAMBDA x : f[x], S)

Statuses == {"NONE", "PENDING", "PROCESSING", "SUCCESS", "FAILED"}
HubStates == {"NONE", "PENDING", "SUCCESS", "FAILED", "CANCELLED"}
Decisions == {"SUCCESS", "FAILED", "CANCELLED"}
Final == {"SUCCESS", "FAILED"}

Task == [tx : Txs, success : BOOLEAN, fee : Nat]

TypeOK ==
  /\ order \in [Txs -> Orders]
  /\ status \in [Txs -> Statuses]
  /\ feeAmount \in [Txs -> Nat]
  /\ providerRef \in [Txs -> BOOLEAN]
  /\ attempt \in [Txs -> {"NONE", "PROCESSING", "SUCCESS", "FAILED"}]
  /\ caller \in [Txs -> {"idle", "created", "accepted", "referenced", "done", "dead"}]
  /\ balance \in [Wallets -> Nat]
  /\ flow \in [Txs -> Int]
  /\ hub \in [Txs -> HubStates]
  /\ mail \subseteq [tx : Txs, status : HubStates]
  /\ sends \in [Txs -> 0..MaxSends]
  /\ heard \in [Txs -> BOOLEAN]
  /\ tasks \subseteq Task
  /\ faults \in [Txs -> Nat]
  /\ served \in [Txs -> Nat]
  /\ old \subseteq Txs

Init ==
  /\ order \in [Txs -> Orders]
  /\ status = [t \in Txs |-> "NONE"]
  /\ feeAmount = [t \in Txs |-> 0]
  /\ providerRef = [t \in Txs |-> FALSE]
  /\ attempt = [t \in Txs |-> "NONE"]
  /\ caller = [t \in Txs |-> "idle"]
  /\ balance = Opening
  /\ flow = [t \in Txs |-> 0]
  /\ hub = [t \in Txs |-> "NONE"]
  /\ mail = {}
  /\ sends = [t \in Txs |-> 0]
  /\ heard = [t \in Txs |-> FALSE]
  /\ tasks = {}
  /\ faults = [t \in Txs |-> 0]
  /\ served = [t \in Txs |-> 0]
  /\ old = {}

-----------------------------------------------------------------------------
(* The request *)

Held(t) == order[t].amount + order[t].ourFee

(* A transaction exists under the key.  A top-up is stored under a key of  *)
(* its own, so that the client's key never finds one.                      *)
KeyTaken(t) ==
  \E s \in Txs : /\ status[s] # "NONE"
                 /\ order[s].type # "TOPUP"
                 /\ order[s].key = order[t].key

(* The row is created; a withdrawal is debited in the same database        *)
(* transaction, fee included; a top-up too small for its fee is refused.   *)
Create(t) ==
  LET o == order[t] IN
  /\ caller[t] = "idle"
  /\ \A s \in Txs : s < t => status[s] # "NONE"
  /\ ~KeyTaken(t)
  /\ o.type = "TOPUP" => o.amount > o.ourFee
  /\ IF o.type = "WITHDRAWAL"
       THEN /\ balance[o.wallet] >= Held(t)
            /\ balance' = [balance EXCEPT ![o.wallet] = @ - Held(t)]
            /\ flow' = [flow EXCEPT ![t] = 0 - Held(t)]
       ELSE UNCHANGED money
  /\ status' = [status EXCEPT ![t] = IF o.type \in {"TOPUP", "REQUEST"}
                                       THEN "PENDING" ELSE "PROCESSING"]
  /\ feeAmount' = [feeAmount EXCEPT ![t] = IF o.type \in {"WITHDRAWAL", "PAYMENT"}
                                             THEN o.ourFee ELSE 0]
  /\ caller' = [caller EXCEPT ![t] = IF o.type = "REQUEST" THEN "done" ELSE "created"]
  /\ UNCHANGED <<order, providerRef, attempt, hub, channel>>

(* HUB2 takes the payment on. *)
Accepted(t) ==
  /\ caller[t] = "created"
  /\ hub' = [hub EXCEPT ![t] = "PENDING"]
  /\ caller' = [caller EXCEPT ![t] = "accepted"]
  /\ UNCHANGED <<row, money, channel>>

(* HUB2 refuses, or cannot be reached: the call throws, nothing catches it. *)
Refused(t) ==
  /\ caller[t] = "created"
  /\ caller' = [caller EXCEPT ![t] = "dead"]
  /\ UNCHANGED <<row, money, hub, channel>>

(* The reference is stored; a top-up becomes PROCESSING whatever it was. *)
StoreReference(t) ==
  /\ caller[t] = "accepted"
  /\ providerRef' = [providerRef EXCEPT ![t] = TRUE]
  /\ status' = [status EXCEPT ![t] = IF order[t].type = "TOPUP" THEN "PROCESSING" ELSE @]
  /\ caller' = [caller EXCEPT ![t] = "referenced"]
  /\ UNCHANGED <<order, feeAmount, attempt, money, hub, channel>>

StoreAttempt(t) ==
  /\ caller[t] = "referenced"
  /\ attempt' = [attempt EXCEPT ![t] = "PROCESSING"]
  /\ caller' = [caller EXCEPT ![t] = "done"]
  /\ UNCHANGED <<order, status, feeAmount, providerRef, money, hub, channel>>

(* The process dies, or HUB2's answer is lost. *)
Die(t) ==
  /\ caller[t] \in {"accepted", "referenced"}
  /\ caller' = [caller EXCEPT ![t] = "dead"]
  /\ UNCHANGED <<row, money, hub, channel>>

(* Mutant of ConfirmPendingPayment: both balances written from one read. *)
ConfirmFromStaleReads(t) ==
  LET o == order[t] IN
  /\ status[t] = "PENDING"
  /\ balance[o.payer] >= o.amount
  /\ status' = [status EXCEPT ![t] = "SUCCESS"]
  /\ balance' = [balance EXCEPT ![o.payer]  = balance[o.payer] - o.amount,
                               ![o.wallet] = balance[o.wallet] + o.amount]
  /\ UNCHANGED <<order, feeAmount, providerRef, attempt, caller, flow, hub, channel>>

(* The initiating user confirms a PENDING transaction: meant for payment   *)
(* requests, it takes any that has a destination.                          *)
ConfirmPendingPayment(t) ==
  LET o == order[t] IN
  /\ status[t] = "PENDING"
  /\ balance[o.payer] >= o.amount
  /\ status' = [status EXCEPT ![t] = "SUCCESS"]
  /\ balance' = IF o.payer = o.wallet THEN balance
                ELSE [balance EXCEPT ![o.payer]  = @ - o.amount,
                                     ![o.wallet] = @ + o.amount]
  /\ UNCHANGED <<order, feeAmount, providerRef, attempt, caller, flow, hub, channel>>

-----------------------------------------------------------------------------
(* HUB2, external *)

Decide(t) ==
  /\ hub[t] = "PENDING"
  /\ \E d \in Decisions : hub' = [hub EXCEPT ![t] = d]
  /\ UNCHANGED <<row, caller, money, channel>>

(* HUB2 notifies the state the transaction is in, perhaps again. *)
SendWebhook(t) ==
  /\ hub[t] # "NONE"
  /\ sends[t] < MaxSends
  /\ sends' = [sends EXCEPT ![t] = @ + 1]
  /\ mail' = mail \cup {[tx |-> t, status |-> hub[t]]}
  /\ UNCHANGED <<row, caller, money, hub, heard, tasks, losses, old>>

LoseWebhook(m) ==
  /\ m \in mail
  /\ mail' = mail \ {m}
  /\ UNCHANGED <<row, caller, money, hub, sends, heard, tasks, losses, old>>

-----------------------------------------------------------------------------
(* How the API learns of a decision *)

(* Mutant of Decoded: whatever is not a success is a failure. *)
DecodedFinal(s) == IF s = "SUCCESS" THEN s ELSE "FAILED"

(* verifyWebhook: what it does not know is PENDING. *)
Decoded(s) == IF s \in Final THEN s ELSE "PENDING"

Finalise(t, success, fee) == [tx |-> t, success |-> success, fee |-> fee]

(* No row has the reference: the event is logged without a transaction. *)
ReceiveUnmatched(m) ==
  /\ m \in mail
  /\ ~providerRef[m.tx]
  /\ mail' = mail \ {m}
  /\ UNCHANGED <<row, caller, money, hub, sends, heard, tasks, losses, old>>

(* The event is logged for its transaction; a final one is dispatched. *)
ReceiveWebhook(m) ==
  /\ m \in mail
  /\ providerRef[m.tx]
  /\ mail' = mail \ {m}
  /\ heard' = [heard EXCEPT ![m.tx] = TRUE]
  /\ tasks' = IF Decoded(m.status) = "PENDING" THEN tasks
              ELSE tasks \cup {Finalise(m.tx, m.status = "SUCCESS", Hub2Fee[m.tx])}
  /\ UNCHANGED <<row, caller, money, hub, sends, losses, old>>

(* WEBHOOK_TRUST_WINDOW_MS goes by. *)
WindowPasses(t) ==
  /\ heard[t]
  /\ heard' = [heard EXCEPT ![t] = FALSE]
  /\ UNCHANGED <<row, caller, money, hub, mail, sends, tasks, losses, old>>

(* Mutant of Askable: transfers are forgotten. *)
AskablePayment(t) == order[t].type \in {"TOPUP", "PAYMENT"} /\ attempt[t] # "NONE"

(* What HUB2 can be asked about: a payment through the intent kept in the  *)
(* attempt, a transfer through its reference.                              *)
Askable(t) ==
  CASE order[t].type \in {"TOPUP", "PAYMENT"} -> attempt[t] # "NONE"
    [] order[t].type = "WITHDRAWAL"           -> providerRef[t]
    [] OTHER                                  -> FALSE

Undecided(t) == status[t] \in {"PENDING", "PROCESSING"}

(* refreshFromProvider, called by the client who polls and by the sweep:   *)
(* HUB2 is asked, and a decision is applied with a HUB2 fee of zero.       *)
RefreshFromProvider(t) ==
  /\ ~heard[t]
  /\ Undecided(t)
  /\ Askable(t)
  /\ hub[t] \in Decisions
  /\ tasks' = tasks \cup {Finalise(t, hub[t] = "SUCCESS", 0)}
  /\ UNCHANGED <<row, caller, money, hub, mail, sends, heard, losses, old>>

(* The rows one pass of the sweep chooses from: those of HUB2, undecided   *)
(* and not too old, whether or not HUB2 can be asked about them.           *)
Selectable(t) == Undecided(t) /\ order[t].type # "REQUEST" /\ t \notin old

(* MAX_AGE_MS goes by, long after the request; the oldest come first.      *)
BecomeOld(t) ==
  /\ Selectable(t) /\ caller[t] \in {"done", "dead"}
  /\ \A s \in Txs : s < t => ~Selectable(s)
  /\ old' = old \cup {t}
  /\ UNCHANGED <<row, caller, money, hub, mail, sends, heard, tasks, losses>>

(* The newest come first, and Batch of them are newer. *)
Crowded(t) ==
  Selectable(t) /\ Cardinality({s \in Txs : s > t /\ Selectable(s)}) >= Batch

(* The sweep asks about a row it has chosen. *)
Sweep(t) == Selectable(t) /\ ~Crowded(t) /\ RefreshFromProvider(t)

-----------------------------------------------------------------------------
(* The complete... methods *)

(* Mutant of AlreadyFinal: no idempotence. *)
NeverFinal(k) == FALSE

(* The row is final already: idempotence. *)
AlreadyFinal(k) == status[k.tx] \in Final

(* What a successful pay-in brings the wallet: the amount less all fees,   *)
(* and for a top-up that the fees would consume, the whole amount.         *)
TopupNet(k) ==
  LET net == order[k.tx].amount - (k.fee + order[k.tx].ourFee)
  IN  IF net <= 0 THEN order[k.tx].amount ELSE net

PaymentNet(k) ==
  LET net == order[k.tx].amount - (feeAmount[k.tx] + k.fee)
  IN  IF net > 0 THEN net ELSE 0

(* Mutant of Throws: HUB2's fee is taken without looking at the balance. *)
ThrowsForPayment(k) ==
  k.success /\ order[k.tx].type = "PAYMENT" /\ PaymentNet(k) = 0

(* The ledger refuses: no balance left for HUB2's fee, or nothing to post. *)
Throws(k) ==
  /\ k.success
  /\ \/ order[k.tx].type = "WITHDRAWAL" /\ balance[order[k.tx].wallet] < k.fee
     \/ order[k.tx].type = "PAYMENT" /\ PaymentNet(k) = 0

(* The status, the fee, the latest attempt, which says what HUB2 decided,  *)
(* and the entries, all at once.                                           *)
Settle(k, newStatus, fee, delta) ==
  /\ tasks' = tasks \ {k}
  /\ status' = [status EXCEPT ![k.tx] = newStatus]
  /\ feeAmount' = [feeAmount EXCEPT ![k.tx] = fee]
  /\ attempt' = [attempt EXCEPT ![k.tx] = IF @ = "NONE" THEN @
                                         ELSE IF k.success THEN "SUCCESS" ELSE "FAILED"]
  /\ balance' = [balance EXCEPT ![order[k.tx].wallet] = @ + delta]
  /\ flow' = [flow EXCEPT ![k.tx] = @ + delta]
  /\ UNCHANGED <<order, providerRef, caller, hub, mail, sends, heard, faults, old>>

Completes(k, type) ==
  k \in tasks /\ order[k.tx].type = type /\ ~AlreadyFinal(k) /\ ~Throws(k)

CompleteTopup(k) ==
  /\ Completes(k, "TOPUP")
  /\ IF k.success
       THEN Settle(k, "SUCCESS", order[k.tx].amount - TopupNet(k), TopupNet(k))
       ELSE Settle(k, "FAILED", feeAmount[k.tx], 0)
  /\ UNCHANGED served

(* Mutant of CompleteWithdrawal: the refund leaves out the fee. *)
CompleteWithdrawalKeepingFee(k) ==
  /\ Completes(k, "WITHDRAWAL")
  /\ IF k.success
       THEN Settle(k, "SUCCESS", feeAmount[k.tx] + k.fee, 0 - k.fee)
       ELSE Settle(k, "FAILED", feeAmount[k.tx], order[k.tx].amount)
  /\ UNCHANGED served

CompleteWithdrawal(k) ==
  /\ Completes(k, "WITHDRAWAL")
  /\ IF k.success
       THEN Settle(k, "SUCCESS", feeAmount[k.tx] + k.fee, 0 - k.fee)
       ELSE Settle(k, "FAILED", feeAmount[k.tx], order[k.tx].amount + feeAmount[k.tx])
  /\ UNCHANGED served

Serve(t, n) == served' = [served EXCEPT ![t] = @ + n]

(* What Reloadly does when it is called (external), and what the row says  *)
(* of it: a reply that is not SUCCESSFUL, and a call that throws, have     *)
(* failed, though Reloadly may have delivered or deliver yet.              *)
Deliveries == {<<"SUCCESS", 1>>, <<"FAILED", 0>>, <<"FAILED", 1>>}

(* What the payment is for is ordered once the wallet has been credited,   *)
(* and the credit stays whatever comes of it.                              *)
CompleteExternalMerchantPayment(k) ==
  /\ Completes(k, "PAYMENT")
  /\ \/ /\ ~k.success
        /\ Settle(k, "FAILED", feeAmount[k.tx], 0)
        /\ UNCHANGED served
     \/ /\ k.success /\ ~order[k.tx].airtime
        /\ Settle(k, "SUCCESS", feeAmount[k.tx] + k.fee, PaymentNet(k))
        /\ UNCHANGED served
     \/ /\ k.success /\ order[k.tx].airtime
        /\ \E d \in Deliveries :
             /\ Settle(k, d[1], feeAmount[k.tx] + k.fee, PaymentNet(k))
             /\ Serve(k.tx, d[2])

(* The call returns the row as it is, or throws, and changes nothing. *)
CompleteNothing(k) ==
  /\ k \in tasks
  /\ AlreadyFinal(k) \/ Throws(k)
  /\ tasks' = tasks \ {k}
  /\ UNCHANGED <<row, caller, money, hub, mail, sends, heard, losses, old>>

(* Reloadly is called in the database transaction of the finalisation. *)
CallsReloadly(k) ==
  k.success /\ order[k.tx].airtime /\ ~AlreadyFinal(k) /\ ~Throws(k)

(* The database transaction is rolled back, and given up: the process dies *)
(* or MAX_SERIALIZATION_RETRIES conflicts come in a row.  What Reloadly    *)
(* has delivered stays delivered.                                          *)
LoseTask(k) ==
  /\ k \in tasks
  /\ Total(faults, Txs) < MaxFaults
  /\ faults' = [faults EXCEPT ![k.tx] = @ + 1]
  /\ tasks' = tasks \ {k}
  /\ \E n \in (IF CallsReloadly(k) THEN {0, 1} ELSE {0}) : Serve(k.tx, n)
  /\ UNCHANGED <<row, caller, money, hub, mail, sends, heard, old>>

(* It is rolled back for a conflict and begun again: that changes nothing  *)
(* but for what Reloadly may have delivered.                               *)
RetryTask(k) ==
  /\ k \in tasks /\ CallsReloadly(k)
  /\ Total(faults, Txs) < MaxFaults
  /\ faults' = [faults EXCEPT ![k.tx] = @ + 1]
  /\ Serve(k.tx, 1)
  /\ UNCHANGED <<row, caller, money, hub, mail, sends, heard, tasks, old>>

Complete(k) ==
  \/ CompleteTopup(k) \/ CompleteWithdrawal(k)
  \/ CompleteExternalMerchantPayment(k) \/ CompleteNothing(k)

-----------------------------------------------------------------------------
Caller(t) ==
  Create(t) \/ Accepted(t) \/ Refused(t) \/ StoreReference(t) \/ StoreAttempt(t)

Next ==
  \/ \E t \in Txs : \/ Caller(t) \/ Die(t) \/ ConfirmPendingPayment(t)
                    \/ Decide(t) \/ SendWebhook(t)
                    \/ WindowPasses(t) \/ RefreshFromProvider(t) \/ BecomeOld(t)
  \/ \E m \in mail : LoseWebhook(m) \/ ReceiveUnmatched(m) \/ ReceiveWebhook(m)
  \/ \E k \in tasks : Complete(k) \/ LoseTask(k) \/ RetryTask(k)

Spec == Init /\ [][Next]_vars

(* Webhooks may all be lost, and no client need poll.  What the system can *)
(* count on: time passes, the sweep of ReconciliationService comes back to *)
(* the rows it chooses until HUB2 has told their fate, and of the          *)
(* finalisations of a transaction that are under way, one ends.            *)
FairSpec ==
  /\ Spec
  /\ \A t \in Txs : /\ WF_vars(WindowPasses(t))
                    /\ WF_vars(Sweep(t))
                    /\ WF_vars(\E k \in tasks : k.tx = t /\ Complete(k))

-----------------------------------------------------------------------------
(* Safety *)

(* HUB2's decision has been applied to t. *)
Settled(t) ==
  \/ status[t] = "FAILED"
  \/ /\ status[t] = "SUCCESS"
     /\ order[t].type \in {"TOPUP", "PAYMENT"} => flow[t] # 0

(* A wallet gets the money of a pay-in only if HUB2 has it, all that was   *)
(* taken for a withdrawal comes back only if HUB2 did not pay, and the     *)
(* entries of a settled transaction are what its row says.  A pay-in that  *)
(* HUB2 has paid fails only where it is airtime that was not delivered: it *)
(* keeps what it brought.  That airtime is delivered only once it is paid, *)
(* and again only for finalisations that were rolled back.                 *)
MoneyFollowsHub2 ==
  \A t \in Txs :
    LET o == order[t] IN
    /\ o.type \in {"TOPUP", "PAYMENT"} =>
         /\ flow[t] # 0 => /\ hub[t] = "SUCCESS" /\ flow[t] = o.amount - feeAmount[t]
                           /\ status[t] = "SUCCESS" \/ (o.airtime /\ status[t] = "FAILED")
         /\ status[t] = "FAILED" => (hub[t] = "SUCCESS" <=> flow[t] # 0)
    /\ o.type = "WITHDRAWAL" /\ status[t] # "NONE" =>
         /\ status[t] = "FAILED" => hub[t] \in Decisions \ {"SUCCESS"} /\ flow[t] = 0
         /\ status[t] # "FAILED" => flow[t] = 0 - (o.amount + feeAmount[t])
         /\ status[t] = "SUCCESS" => hub[t] = "SUCCESS"
    /\ served[t] > 0 => o.airtime /\ hub[t] = "SUCCESS"
    /\ served[t] <= (IF status[t] \in Final THEN 1 ELSE 0) + faults[t]
    /\ o.airtime /\ status[t] = "SUCCESS" => served[t] > 0

(* No money appears or disappears but through HUB2: what the wallets hold  *)
(* is what they held and what the entries of every transaction add; a      *)
(* payment request only moves money from one wallet to another.            *)
MoneyIsConserved ==
  Total(balance, Wallets) = Total(Opening, Wallets) + Total(flow, Txs)

(* What is settled stays: late, repeated or contradictory webhooks, polls  *)
(* and sweeps change neither the status nor the money.                     *)
SettledStays ==
  [][\A t \in Txs : Settled(t) => status'[t] = status[t] /\ flow'[t] = flow[t]
                                  /\ feeAmount'[t] = feeAmount[t]]_vars

(* The decision is applied exactly once, after it is taken. *)
External ==
  INSTANCE ExternalMoney WITH
    applied <- {t \in Txs : order[t].type # "REQUEST" /\ Settled(t)}

ExternalSpec == External!Spec

(* Liveness *)

(* The net of a payment is clamped to zero when our fee and the commission *)
(* reach the amount; the ledger refuses to post zero, and every            *)
(* finalisation of a success throws.  (Top-ups have been corrected.)       *)
FeesConsume(t) == order[t].type = "PAYMENT" /\ order[t].amount <= order[t].ourFee

(* Without any webhook or poll, a decision HUB2 has taken reaches the      *)
(* wallet, once the request that created the transaction has stored what   *)
(* HUB2 answered; but for the success of a payment that its fees consume,  *)
(* for a row a day old, and for one that newer rows keep out of the sweep. *)
DecisionsAreApplied ==
  \A t \in Txs :
    \/ []<>Crowded(t)
    \/ caller[t] = "done" /\ hub[t] \in Decisions
         ~> Settled(t) \/ t \in old \/ (FeesConsume(t) /\ hub[t] = "SUCCESS")

-----------------------------------------------------------------------------
(* What comments and documentation say and the code does not do *)

(* sendToExternalAccount: refunded automatically if HUB2 fails after the   *)
(* debit.  Fails: when the call to HUB2 throws, nothing refunds.           *)
RefusedWithdrawalsAreRefunded ==
  \A t \in Txs :
    caller[t] = "dead" /\ hub[t] = "NONE" /\ order[t].type = "WITHDRAWAL"
      ~> flow[t] = 0
=============================================================================
