--------------------------- MODULE AirtimeOrders ---------------------------
(***************************************************************************)
(* Airtime paid by Mobile Money, in the application (APP) or from the      *)
(* public page without account (LITE).  HUB2 collects; once it has,        *)
(* completeAirtimeMobileMoneyDeposit, started by a webhook or by a poll,   *)
(* orders at Reloadly.  It runs in no database transaction: the row is     *)
(* read first and updated last.  A payment Reloadly did not serve is       *)
(* returned by an administrator (processRefund).                           *)
(***************************************************************************)
EXTENDS Integers

CONSTANTS
  Requests,   \* purchases, one row each: a key already used stops before
  Tasks,      \* finalisations that may run at a time
  Admins,     \* administrators who process refunds
  Orders,     \* what may be bought: [channel, amount, ourFee]
  LiteFee,    \* LITE_FEE_CENTS
  HubFees,    \* fees a webhook may announce
  MaxFaults   \* bound: calls and processes lost

Order == [channel : {"APP", "LITE"}, amount : Nat \ {0}, ourFee : Nat]

ASSUME AirtimeAssumption ==
  /\ Orders \subseteq Order
  /\ LiteFee \in Nat /\ HubFees \subseteq Nat /\ MaxFaults \in Nat

VARIABLES
  order,      \* order[r]: what r buys
  pc,         \* pc[r]: where the request of the purchase is
  row,        \* row[r]: [status, ref, attempt, fee, owed, refunded]
  hub,        \* hub[r]: the collection at HUB2
  heard,      \* heard[r]: a webhook came within WEBHOOK_TRUST_WINDOW_MS
  task, step, \* task[t], step[t]: a finalisation and where it is
  delivered,  \* delivered[r]: orders Reloadly has served
  worth,      \* worth[r]: what they are worth
  refund, desk, \* refund[a], desk[a]: a refund and where it is
  refunds,    \* refunds[r]: transfers back to the payer
  early,      \* early[r]: those of them sent before HUB2 had collected
  repaid,     \* repaid[r]: what they add up to
  trouble,    \* trouble[r]: what went wrong, see Troubles
  faults

purchase == <<order, pc>>
finalisation == <<task, step>>
goods == <<delivered, worth>>
desks == <<refund, desk>>
returned == <<refunds, early, repaid>>
vars == <<purchase, row, hub, heard, finalisation, goods, desks, returned, trouble, faults>>

(* overlap: two finalisations of a row at once; lost: one died, or its     *)
(* call threw, once Reloadly was called; late: Reloadly served an order it *)
(* had answered PROCESSING; desks: two refunds of a row at once; unmarked: *)
(* a refund sent and not written down; unowed: a refund asked for of a row *)
(* that listPendingRefunds does not show.                                  *)
Troubles == {"overlap", "lost", "late", "desks", "unmarked", "unowed"}

Row == [status : {"NONE", "PROCESSING", "SUCCESS", "FAILED"}, ref : BOOLEAN,
        attempt : {"NONE", "HUB2", "RELOADLY"}, fee : Nat, owed : BOOLEAN,
        refunded : BOOLEAN]

NoRow == [status |-> "NONE", ref |-> FALSE, attempt |-> "NONE", fee |-> 0,
          owed |-> FALSE, refunded |-> FALSE]

Task == [of : Requests, paid : BOOLEAN, fee : Nat, answer : {"NONE", "SUCCESS", "FAILED"}]
NoTask == [of |-> "none"]

RefundOf == [of : Requests, total : Nat]
NoRefund == [of |-> "none"]

TypeOK ==
  /\ order \in [Requests -> Orders]
  /\ pc \in [Requests -> {"idle", "created", "accepted", "referenced", "done", "dead"}]
  /\ row \in [Requests -> Row]
  /\ hub \in [Requests -> {"NONE", "PENDING", "SUCCESS", "FAILED"}]
  /\ heard \in [Requests -> BOOLEAN]
  /\ step \in [Tasks -> {"idle", "read", "called", "recorded"}]
  /\ task \in [Tasks -> Task \cup {NoTask}]
  /\ \A t \in Tasks : step[t] # "idle" <=> task[t] # NoTask
  /\ delivered \in [Requests -> Nat]
  /\ worth \in [Requests -> Nat]
  /\ desk \in [Admins -> {"idle", "checked", "sent"}]
  /\ refund \in [Admins -> RefundOf \cup {NoRefund}]
  /\ \A a \in Admins : desk[a] # "idle" <=> refund[a] # NoRefund
  /\ refunds \in [Requests -> Nat]
  /\ early \in [Requests -> Nat]
  /\ repaid \in [Requests -> Nat]
  /\ trouble \in [Requests -> SUBSET Troubles]
  /\ faults \in 0..MaxFaults

Init ==
  /\ order \in [Requests -> Orders]
  /\ pc = [r \in Requests |-> "idle"]
  /\ row = [r \in Requests |-> NoRow]
  /\ hub = [r \in Requests |-> "NONE"]
  /\ heard = [r \in Requests |-> FALSE]
  /\ task = [t \in Tasks |-> NoTask]
  /\ step = [t \in Tasks |-> "idle"]
  /\ delivered = [r \in Requests |-> 0]
  /\ worth = [r \in Requests |-> 0]
  /\ refund = [a \in Admins |-> NoRefund]
  /\ desk = [a \in Admins |-> "idle"]
  /\ refunds = [r \in Requests |-> 0]
  /\ early = [r \in Requests |-> 0]
  /\ repaid = [r \in Requests |-> 0]
  /\ trouble = [r \in Requests |-> {}]
  /\ faults = 0

Fault == faults < MaxFaults /\ faults' = faults + 1

Note(r, what) == trouble' = [trouble EXCEPT ![r] = @ \cup what]

-----------------------------------------------------------------------------
(* The request of the purchase *)

GoTo(r, place) == pc' = [pc EXCEPT ![r] = place] /\ UNCHANGED order

(* The row and what is to be delivered. *)
Create(r) ==
  /\ pc[r] = "idle"
  /\ GoTo(r, "created")
  /\ row' = [row EXCEPT ![r].status = "PROCESSING"]
  /\ UNCHANGED <<hub, heard, finalisation, goods, desks, returned, trouble, faults>>

(* HUB2 takes the collection on. *)
Accepted(r) ==
  /\ pc[r] = "created"
  /\ GoTo(r, "accepted")
  /\ hub' = [hub EXCEPT ![r] = "PENDING"]
  /\ UNCHANGED <<row, heard, finalisation, goods, desks, returned, trouble, faults>>

(* HUB2 refuses, its answer is lost, or the process dies. *)
Die(r) ==
  /\ pc[r] \in {"created", "accepted", "referenced"}
  /\ Fault
  /\ GoTo(r, "dead")
  /\ UNCHANGED <<row, hub, heard, finalisation, goods, desks, returned, trouble>>

StoreReference(r) ==
  /\ pc[r] = "accepted"
  /\ GoTo(r, "referenced")
  /\ row' = [row EXCEPT ![r].ref = TRUE,
                        ![r].fee = IF order[r].channel = "LITE" THEN LiteFee ELSE @]
  /\ UNCHANGED <<hub, heard, finalisation, goods, desks, returned, trouble, faults>>

StoreAttempt(r) ==
  /\ pc[r] = "referenced"
  /\ GoTo(r, "done")
  /\ row' = [row EXCEPT ![r].attempt = "HUB2"]
  /\ UNCHANGED <<hub, heard, finalisation, goods, desks, returned, trouble, faults>>

(* HUB2, external: the payer pays or not. *)
Decide(r) ==
  /\ hub[r] = "PENDING"
  /\ \E d \in {"SUCCESS", "FAILED"} : hub' = [hub EXCEPT ![r] = d]
  /\ UNCHANGED <<purchase, row, heard, finalisation, goods, desks, returned, trouble, faults>>

-----------------------------------------------------------------------------
(* Finalisations *)

Running(r) == {t \in Tasks : step[t] # "idle" /\ task[t].of = r}

(* Mutant of Decided: what is not final yet is a failure. *)
DecidedOrNot(r) == hub[r] # "NONE"

Decided(r) == hub[r] \in {"SUCCESS", "FAILED"}

(* Mutant of AlreadyFinal: the status is not looked at. *)
NeverFinal(r) == row[r].status = "NONE"

AlreadyFinal(r) == row[r].status \in {"SUCCESS", "FAILED"}

(* The row is read; everything else happens after awaits. *)
Start(t, r, fee) ==
  /\ step[t] = "idle" /\ Decided(r) /\ ~AlreadyFinal(r)
  /\ step' = [step EXCEPT ![t] = "read"]
  /\ task' = [task EXCEPT ![t] = [of |-> r, paid |-> hub[r] = "SUCCESS", fee |-> fee,
                                  answer |-> "NONE"]]
  /\ Note(r, IF Running(r) = {} THEN {} ELSE {"overlap"})
  /\ UNCHANGED <<purchase, row, hub, goods, desks, returned, faults>>

ReceiveWebhook(t, r) ==
  /\ row[r].ref
  /\ heard' = [heard EXCEPT ![r] = TRUE]
  /\ \E fee \in HubFees : Start(t, r, fee)

WindowPasses(r) ==
  /\ heard[r]
  /\ heard' = [heard EXCEPT ![r] = FALSE]
  /\ UNCHANGED <<purchase, row, hub, finalisation, goods, desks, returned, trouble, faults>>

(* The intent is looked for in the latest attempt: once that is Reloadly's *)
(* there is nothing to ask HUB2 about.  A poll knows of no HUB2 fee.       *)
RefreshFromProvider(t, r) ==
  /\ ~heard[r] /\ row[r].attempt = "HUB2"
  /\ Start(t, r, 0)
  /\ UNCHANGED heard

TotalFee(t) == order[task[t].of].ourFee + task[t].fee

(* Mutant of PurchaseAmount: not clamped. *)
PurchaseLess(t) == order[task[t].of].amount - TotalFee(t)

(* What is left of the amount, LITE or not: the branch that would deliver  *)
(* the whole amount of a LITE purchase comes after a return.               *)
PurchaseAmount(t) ==
  LET left == order[task[t].of].amount - TotalFee(t) IN IF left > 0 THEN left ELSE 0

End(t) == step' = [step EXCEPT ![t] = "idle"] /\ task' = [task EXCEPT ![t] = NoTask]

Served(r, n, amount) ==
  /\ delivered' = [delivered EXCEPT ![r] = @ + n]
  /\ worth' = [worth EXCEPT ![r] = @ + n * amount]

(* Mutant of Unpaid: Reloadly is called whatever HUB2 says. *)
NeverUnpaid(t) == FALSE

Unpaid(t) == ~task[t].paid

(* The payer has not paid. *)
Decline(t) ==
  /\ step[t] = "read" /\ Unpaid(t)
  /\ row' = [row EXCEPT ![task[t].of].status = "FAILED", ![task[t].of].owed = FALSE]
  /\ End(t)
  /\ UNCHANGED <<purchase, hub, heard, goods, desks, returned, trouble, faults>>

(* Reloadly, external: [what it answers, how often it delivers]. *)
Replies == {<<"SUCCESSFUL", 1>>, <<"PROCESSING", 0>>, <<"PROCESSING", 1>>, <<"ERROR", 0>>}

(* The adapter knows SUCCESSFUL and failures. *)
CallReloadly(t) ==
  LET r == task[t].of IN
  /\ step[t] = "read" /\ ~Unpaid(t)
  /\ step' = [step EXCEPT ![t] = "called"]
  /\ \E reply \in Replies :
       /\ task' = [task EXCEPT ![t].answer =
                     IF reply[1] = "SUCCESSFUL" THEN "SUCCESS" ELSE "FAILED"]
       /\ Served(r, reply[2], PurchaseAmount(t))
       /\ Note(r, IF reply = <<"PROCESSING", 1>> THEN {"late"} ELSE {})
  /\ UNCHANGED <<purchase, row, hub, heard, desks, returned, faults>>

(* The call throws: what Reloadly did is not known. *)
CallLost(t) ==
  /\ step[t] = "read" /\ ~Unpaid(t)
  /\ Fault
  /\ \E n \in {0, 1} : Served(task[t].of, n, PurchaseAmount(t))
  /\ Note(task[t].of, {"lost"})
  /\ End(t)
  /\ UNCHANGED <<purchase, row, hub, heard, desks, returned>>

RecordAttempt(t) ==
  /\ step[t] = "called"
  /\ step' = [step EXCEPT ![t] = "recorded"]
  /\ row' = [row EXCEPT ![task[t].of].attempt = "RELOADLY"]
  /\ UNCHANGED <<purchase, hub, heard, task, goods, desks, returned, trouble, faults>>

(* Whatever the row says by now. *)
Conclude(t) ==
  LET r == task[t].of IN
  /\ step[t] = "recorded"
  /\ row' = [row EXCEPT ![r].status = task[t].answer, ![r].fee = TotalFee(t),
                        ![r].owed = @ \/ task[t].answer = "FAILED"]
  /\ End(t)
  /\ UNCHANGED <<purchase, hub, heard, goods, desks, returned, trouble, faults>>

LoseTask(t) ==
  /\ step[t] # "idle"
  /\ Fault
  /\ Note(task[t].of, IF step[t] = "read" THEN {} ELSE {"lost"})
  /\ End(t)
  /\ UNCHANGED <<purchase, row, hub, heard, goods, desks, returned>>

-----------------------------------------------------------------------------
(* Refunds *)

(* What listPendingRefunds shows, if it has not been refunded.             *)
Pending(r) == row[r].status = "FAILED" /\ row[r].owed

(* Mutant of Refundable: refundedAt is not looked at. *)
RefundableAgain(r) == pc[r] = "done"

(* Not refunded yet, and the payer known from HUB2's attempt: whatever     *)
(* the status.                                                             *)
Refundable(r) == ~row[r].refunded /\ pc[r] = "done"

(* processRefund reads the row whose id it is given, listed or not. *)
CheckRefund(a, r) ==
  /\ desk[a] = "idle" /\ Refundable(r)
  /\ desk' = [desk EXCEPT ![a] = "checked"]
  /\ refund' = [refund EXCEPT ![a] = [of |-> r, total |-> order[r].amount + row[r].fee]]
  /\ Note(r, (IF \E b \in Admins : refund[b].of = r THEN {"desks"} ELSE {})
              \cup (IF Pending(r) THEN {} ELSE {"unowed"}))
  /\ UNCHANGED <<purchase, row, hub, heard, finalisation, goods, returned, faults>>

(* HUB2 takes the transfer on. *)
SendRefund(a) ==
  LET f == refund[a] IN
  /\ desk[a] = "checked"
  /\ desk' = [desk EXCEPT ![a] = "sent"]
  /\ refunds' = [refunds EXCEPT ![f.of] = @ + 1]
  /\ early' = IF hub[f.of] = "SUCCESS" THEN early ELSE [early EXCEPT ![f.of] = @ + 1]
  /\ repaid' = [repaid EXCEPT ![f.of] = @ + f.total]
  /\ UNCHANGED <<purchase, row, hub, heard, finalisation, goods, refund, trouble, faults>>

Leave(a) == desk' = [desk EXCEPT ![a] = "idle"] /\ refund' = [refund EXCEPT ![a] = NoRefund]

MarkRefunded(a) ==
  /\ desk[a] = "sent"
  /\ row' = [row EXCEPT ![refund[a].of].refunded = TRUE]
  /\ Leave(a)
  /\ UNCHANGED <<purchase, hub, heard, finalisation, goods, returned, trouble, faults>>

(* HUB2 refuses, or the process dies. *)
LoseRefund(a) ==
  /\ desk[a] # "idle"
  /\ Fault
  /\ Note(refund[a].of, IF desk[a] = "sent" THEN {"unmarked"} ELSE {})
  /\ Leave(a)
  /\ UNCHANGED <<purchase, row, hub, heard, finalisation, goods, returned>>

-----------------------------------------------------------------------------
Next ==
  \/ \E r \in Requests :
       \/ Create(r) \/ Accepted(r) \/ Die(r)
       \/ StoreReference(r) \/ StoreAttempt(r) \/ Decide(r) \/ WindowPasses(r)
       \/ \E t \in Tasks : ReceiveWebhook(t, r) \/ RefreshFromProvider(t, r)
       \/ \E a \in Admins : CheckRefund(a, r)
  \/ \E t \in Tasks :
       \/ Decline(t) \/ CallReloadly(t) \/ CallLost(t)
       \/ RecordAttempt(t) \/ Conclude(t) \/ LoseTask(t)
  \/ \E a \in Admins : SendRefund(a) \/ MarkRefunded(a) \/ LoseRefund(a)

Spec == Init /\ [][Next]_vars

-----------------------------------------------------------------------------
(* "Reloadly is never called before the payment": nothing is delivered     *)
(* that HUB2 has not collected.                                            *)
DeliveredOnlyIfPaid == \A r \in Requests : delivered[r] > 0 => hub[r] = "SUCCESS"

(* HUB2 has collected the amount, and nothing has gone back since. *)
Held(r) == IF hub[r] = "SUCCESS" /\ refunds[r] = early[r] THEN order[r].amount ELSE 0

WasPaid(r) == hub[r] = "SUCCESS"

Excused(r) == trouble[r] \cap {"overlap", "lost", "late", "unowed"} # {}

(* The collection, the order and the refund keep the promise of a          *)
(* purchase: collected first, delivered once, given back only if nothing   *)
(* was delivered, unless two finalisations overlapped, one was lost after  *)
(* the call, Reloadly delivered what it had answered PROCESSING, or an     *)
(* administrator refunded what nobody was owed.                            *)
Promise ==
  INSTANCE PaidDelivery WITH
    price <- [r \in Requests |-> order[r].amount],
    held <- [r \in Requests |-> Held(r)],
    paid <- [r \in Requests |-> WasPaid(r)],
    excused <- [r \in Requests |-> Excused(r)]

PromiseSpec == Promise!Spec

(* A second delivery takes two finalisations at once, or one lost after    *)
(* the call: whatever the webhooks and polls that come later.              *)
DeliveredTwiceOnlyIf ==
  \A r \in Requests : delivered[r] > 1 => trouble[r] \cap {"overlap", "lost"} # {}

(* A final row tells what happened: delivered, not paid, or paid and to be *)
(* refunded.  Even in trouble, a declined payment was never collected.     *)
RowsAreTrue ==
  \A r \in Requests :
    /\ row[r].status = "FAILED" /\ ~row[r].owed => hub[r] = "FAILED"
    /\ row[r].owed => hub[r] = "SUCCESS"
    /\ row[r].status = "SUCCESS" => delivered[r] > 0
    /\ Pending(r) /\ delivered[r] > 0 => trouble[r] \cap {"overlap", "lost", "late"} # {}

(* A payer is refunded once, and neither of what was delivered nor of what *)
(* was never collected, unless two administrators or finalisations overlap,*)
(* one of them is lost, or the row refunded was not one of those listed:   *)
(* processRefund looks at no status.                                       *)
RefundedOnce ==
  \A r \in Requests :
    /\ refunds[r] > 1 => trouble[r] \cap {"desks", "unmarked"} # {}
    /\ refunds[r] > 0 /\ delivered[r] > 0 =>
         trouble[r] \cap {"overlap", "lost", "late", "unowed"} # {}
    /\ refunds[r] > 0 => hub[r] = "SUCCESS" \/ "unowed" \in trouble[r]

(* processRefund: the total the payer had paid.  Fails, for a single       *)
(* refund of a listed row that nothing disturbs: the fees, which were part *)
(* of the amount, are added to it.                                         *)
RefundsGiveBackWhatWasPaid ==
  \A r \in Requests :
    refunds[r] = 1 /\ trouble[r] = {} =>
      repaid[r] = order[r].amount + (IF order[r].channel = "LITE" THEN LiteFee ELSE 0)
=============================================================================
