-------------------------- MODULE SettlementProofs --------------------------
(***************************************************************************)
(* Proofs about Settlement.  The invariant Inv follows a transaction: how  *)
(* far its request has come bounds what can be known of it (ProgressOK, Undecided),   *)
(* its entries say what its status says (FlowOK), and whatever is under    *)
(* way, a webhook or a finalisation, carries the decision HUB2 has taken   *)
(* (MailOK, TaskOK).                                                       *)
(***************************************************************************)
EXTENDS Settlement, FiniteSetTheorems, TLAPS

PayIn == {"TOPUP", "PAYMENT"}
Stored == {"referenced", "done", "dead"}

(* What the progress of the request says of HUB2 and of the row. *)
ProgressOK(t) ==
  /\ status[t] = "NONE" <=> caller[t] = "idle"
  /\ hub[t] # "NONE" => order[t].type # "REQUEST" /\ caller[t] \notin {"idle", "created"}
  /\ caller[t] = "created" => order[t].type # "REQUEST"
  /\ caller[t] = "accepted" => hub[t] # "NONE"
  /\ caller[t] = "referenced" => providerRef[t]
  /\ providerRef[t] => hub[t] # "NONE" /\ caller[t] \in Stored
  /\ attempt[t] # "NONE" => providerRef[t]
  /\ status[t] = "FAILED" => providerRef[t]
  /\ order[t].type \in {"WITHDRAWAL", "PAYMENT"} =>
       /\ status[t] # "PENDING"
       /\ status[t] = "SUCCESS" => providerRef[t]
       /\ Undecided(t) => feeAmount[t] = order[t].ourFee
  /\ caller[t] = "idle" => flow[t] = 0

(* What the entries say of HUB2: MoneyFollowsHub2 for one transaction. *)
FlowOK(t) ==
  /\ order[t].type \in PayIn =>
       /\ flow[t] # 0 => hub[t] = "SUCCESS" /\ flow[t] = order[t].amount - feeAmount[t]
       /\ flow[t] # 0 => status[t] = "SUCCESS" \/ (order[t].airtime /\ status[t] = "FAILED")
       /\ flow[t] # 0 => providerRef[t]
       /\ status[t] = "FAILED" => hub[t] \in Decisions /\ (hub[t] = "SUCCESS" <=> flow[t] # 0)
  /\ order[t].type = "WITHDRAWAL" /\ status[t] # "NONE" =>
       /\ status[t] = "FAILED" => hub[t] \in Decisions \ {"SUCCESS"} /\ flow[t] = 0
       /\ status[t] # "FAILED" => flow[t] = 0 - (order[t].amount + feeAmount[t])
       /\ status[t] = "SUCCESS" => hub[t] = "SUCCESS"

MailOK == \A m \in mail : hub[m.tx] # "NONE" /\ (m.status \in Decisions => hub[m.tx] = m.status)

TaskOK(k) ==
  /\ hub[k.tx] \in Decisions
  /\ k.success <=> hub[k.tx] = "SUCCESS"
  /\ providerRef[k.tx]

Inv ==
  /\ TypeOK
  /\ \A t \in Txs : ProgressOK(t)
  /\ \A t \in Txs : FlowOK(t)
  /\ MailOK
  /\ \A k \in tasks : TaskOK(k)

-----------------------------------------------------------------------------
(* The fields of an order. *)
LEMMA OrderFields ==
  ASSUME TypeOK, NEW t \in Txs
  PROVE  /\ order[t].type \in Types
         /\ order[t].wallet \in Wallets
         /\ order[t].payer \in Wallets
         /\ order[t].amount \in Nat \ {0}
         /\ order[t].ourFee \in Nat
         /\ order[t].airtime \in BOOLEAN
         /\ order[t].airtime => order[t].type = "PAYMENT"
BY SettlementAssumption DEF TypeOK, Order

LEMMA TaskFields ==
  ASSUME TypeOK, NEW k \in tasks
  PROVE  k.tx \in Txs /\ k.success \in BOOLEAN /\ k.fee \in Nat
BY DEF TypeOK, Task

LEMMA MailFields ==
  ASSUME TypeOK, NEW m \in mail
  PROVE  m.tx \in Txs /\ m.status \in HubStates
BY DEF TypeOK

LEMMA FinaliseFields ==
  ASSUME NEW t \in Txs, NEW success \in BOOLEAN, NEW fee \in Nat
  PROVE  /\ Finalise(t, success, fee) \in Task
         /\ Finalise(t, success, fee).tx = t
         /\ Finalise(t, success, fee).success = success
         /\ Finalise(t, success, fee).fee = fee
BY DEF Finalise, Task

(* What a successful pay-in brings is positive and at most its amount. *)
LEMMA NetBounds ==
  ASSUME TypeOK, NEW k \in tasks
  PROVE  /\ TopupNet(k) \in 1..order[k.tx].amount
         /\ PaymentNet(k) \in 0..order[k.tx].amount
         /\ PaymentNet(k) # 0 =>
              PaymentNet(k) = order[k.tx].amount - (feeAmount[k.tx] + k.fee)
<1>1. k.tx \in Txs /\ k.fee \in Nat
  BY TaskFields
<1>2. order[k.tx].amount \in Nat \ {0} /\ order[k.tx].ourFee \in Nat
  BY <1>1, OrderFields
<1>3. feeAmount[k.tx] \in Nat
  BY <1>1 DEF TypeOK
<1> QED
  BY <1>1, <1>2, <1>3 DEF TopupNet, PaymentNet

-----------------------------------------------------------------------------
(* Types *)

LEMMA InitTypes == Init => TypeOK
BY SettlementAssumption DEF Init, TypeOK, Statuses, HubStates, Task

(* A settlement writes a status, a fee and balances that are numbers. *)
LEMMA SettleKeepsTypes ==
  ASSUME TypeOK, NEW k \in tasks,
         NEW newStatus \in Final, NEW fee \in Nat, NEW delta \in Int,
         Settle(k, newStatus, fee, delta),
         served' \in [Txs -> Nat],
         balance[order[k.tx].wallet] + delta \in Nat
  PROVE  TypeOK'
<1>1. k.tx \in Txs /\ order[k.tx].wallet \in Wallets
  BY TaskFields, OrderFields
<1>2. balance' \in [Wallets -> Nat] /\ flow' \in [Txs -> Int]
  BY <1>1 DEF TypeOK, Settle
<1>3. /\ status' \in [Txs -> Statuses]
      /\ feeAmount' \in [Txs -> Nat]
      /\ attempt' \in [Txs -> {"NONE", "PROCESSING", "SUCCESS", "FAILED"}]
  BY <1>1 DEF TypeOK, Settle, Statuses, Final
<1>4. tasks' \subseteq Task
  BY DEF TypeOK, Settle
<1> QED
  BY <1>2, <1>3, <1>4 DEF TypeOK, Settle

(* What a success has had delivered: nothing, or its airtime.              *)
ServedAs(t, newStatus) ==
  \/ served' = served /\ ~order[t].airtime
  \/ /\ order[t].airtime
     /\ \E n \in {0, 1} : Serve(t, n) /\ (newStatus = "SUCCESS" => n = 1)

(* How a payment to a merchant is completed: what HUB2 paid is credited,   *)
(* and the row fails after that only where airtime was not delivered.      *)
LEMMA PaymentSteps ==
  ASSUME NEW k \in tasks, CompleteExternalMerchantPayment(k)
  PROVE  /\ ~k.success => Settle(k, "FAILED", feeAmount[k.tx], 0) /\ served' = served
         /\ k.success =>
              \E newStatus \in Final :
                /\ Settle(k, newStatus, feeAmount[k.tx] + k.fee, PaymentNet(k))
                /\ newStatus = "SUCCESS" \/ order[k.tx].airtime
                /\ ServedAs(k.tx, newStatus)
<1>1. CASE ~k.success
  BY <1>1 DEF CompleteExternalMerchantPayment
<1>2. CASE k.success /\ ~order[k.tx].airtime
  BY <1>2 DEF CompleteExternalMerchantPayment, Final, ServedAs
<1>3. CASE k.success /\ order[k.tx].airtime
  <2>1. PICK d \in Deliveries : /\ Settle(k, d[1], feeAmount[k.tx] + k.fee, PaymentNet(k))
                                /\ Serve(k.tx, d[2])
    BY <1>3 DEF CompleteExternalMerchantPayment
  <2>2. d[1] \in Final /\ d[2] \in {0, 1} /\ (d[1] = "SUCCESS" => d[2] = 1)
    BY DEF Deliveries, Final
  <2> QED
    BY <1>3, <2>1, <2>2 DEF ServedAs
<1> QED
  BY <1>1, <1>2, <1>3

LEMMA NextKeepsTypes == TypeOK /\ [Next]_vars => TypeOK'
<1> SUFFICES ASSUME TypeOK, [Next]_vars PROVE TypeOK'
  OBVIOUS
<1>1. ASSUME NEW t \in Txs, Create(t) PROVE TypeOK'
  <2>1. /\ order[t].wallet \in Wallets /\ order[t].amount \in Nat
        /\ order[t].ourFee \in Nat /\ Held(t) \in Nat
    BY OrderFields DEF Held
  <2>2. balance' \in [Wallets -> Nat] /\ flow' \in [Txs -> Int]
    BY <1>1, <2>1 DEF TypeOK, Create, money
  <2>3. /\ status' \in [Txs -> Statuses]
        /\ feeAmount' \in [Txs -> Nat]
        /\ caller' \in [Txs -> {"idle", "created", "accepted", "referenced", "done", "dead"}]
    BY <1>1, <2>1 DEF TypeOK, Create, Statuses
  <2> QED
    BY <1>1, <2>2, <2>3 DEF TypeOK, Create, channel, losses
<1>2. ASSUME NEW t \in Txs, \/ Accepted(t) \/ Refused(t) \/ StoreReference(t)
                            \/ StoreAttempt(t) \/ Die(t)
      PROVE  TypeOK'
  BY <1>2 DEF TypeOK, Accepted, Refused, StoreReference, StoreAttempt, Die,
              Statuses, HubStates, row, money, channel, losses
<1>3. ASSUME NEW t \in Txs, ConfirmPendingPayment(t) PROVE TypeOK'
  <2>1. /\ order[t].wallet \in Wallets /\ order[t].payer \in Wallets
        /\ order[t].amount \in Nat
    BY OrderFields
  <2>2. balance' \in [Wallets -> Nat]
    BY <1>3, <2>1 DEF TypeOK, ConfirmPendingPayment
  <2> QED
    BY <1>3, <2>2 DEF TypeOK, ConfirmPendingPayment, Statuses, channel, losses
<1>4. ASSUME NEW t \in Txs, Decide(t) PROVE TypeOK'
  BY <1>4 DEF TypeOK, Decide, Decisions, HubStates, row, money, channel, losses
<1>5. ASSUME NEW t \in Txs, SendWebhook(t) PROVE TypeOK'
  BY <1>5, SettlementAssumption DEF TypeOK, SendWebhook, row, money, losses
<1>6. ASSUME NEW t \in Txs, WindowPasses(t) PROVE TypeOK'
  BY <1>6 DEF TypeOK, WindowPasses, row, money, losses
<1>7. ASSUME NEW t \in Txs, RefreshFromProvider(t) PROVE TypeOK'
  <2>1. Finalise(t, hub[t] = "SUCCESS", 0) \in Task
    BY FinaliseFields
  <2>2. tasks' \subseteq Task
    BY <1>7, <2>1 DEF TypeOK, RefreshFromProvider
  <2> QED
    BY <1>7, <2>2 DEF TypeOK, RefreshFromProvider, row, money, losses
<1>8. ASSUME NEW m \in mail, LoseWebhook(m) \/ ReceiveUnmatched(m) PROVE TypeOK'
  BY <1>8, SettlementAssumption DEF TypeOK, LoseWebhook, ReceiveUnmatched, row, money, losses
<1>9. ASSUME NEW m \in mail, ReceiveWebhook(m) PROVE TypeOK'
  <2>1. m.tx \in Txs /\ Hub2Fee[m.tx] \in Nat
    BY MailFields, SettlementAssumption
  <2>2. Finalise(m.tx, m.status = "SUCCESS", Hub2Fee[m.tx]) \in Task
    BY <2>1, FinaliseFields
  <2>3. tasks' \subseteq Task
    BY <1>9, <2>2 DEF TypeOK, ReceiveWebhook
  <2> QED
    BY <1>9, <2>1, <2>3 DEF TypeOK, ReceiveWebhook, row, money, losses
<1>10. ASSUME NEW k \in tasks, CompleteTopup(k) PROVE TypeOK'
  <2>0. served' \in [Txs -> Nat]
    BY <1>10 DEF TypeOK, CompleteTopup
  <2>1. k.tx \in Txs /\ k.fee \in Nat /\ order[k.tx].wallet \in Wallets
        /\ order[k.tx].amount \in Nat
    BY TaskFields, OrderFields
  <2>2. feeAmount[k.tx] \in Nat /\ balance[order[k.tx].wallet] \in Nat
    BY <2>1 DEF TypeOK
  <2>3. CASE k.success
    <3>1. Settle(k, "SUCCESS", order[k.tx].amount - TopupNet(k), TopupNet(k))
      BY <1>10, <2>3 DEF CompleteTopup
    <3>2. TopupNet(k) \in Int /\ order[k.tx].amount - TopupNet(k) \in Nat
          /\ balance[order[k.tx].wallet] + TopupNet(k) \in Nat
      BY <2>1, <2>2, NetBounds
    <3> QED
      BY <2>0, <3>1, <3>2, SettleKeepsTypes DEF Final
  <2>4. CASE ~k.success
    BY <1>10, <2>0, <2>2, <2>4, SettleKeepsTypes DEF CompleteTopup, Final
  <2> QED
    BY <2>3, <2>4
<1>11. ASSUME NEW k \in tasks, CompleteWithdrawal(k) PROVE TypeOK'
  <2>0. served' \in [Txs -> Nat]
    BY <1>11 DEF TypeOK, CompleteWithdrawal
  <2>1. k.tx \in Txs /\ k.fee \in Nat /\ order[k.tx].wallet \in Wallets
        /\ order[k.tx].amount \in Nat
    BY TaskFields, OrderFields
  <2>2. feeAmount[k.tx] \in Nat /\ balance[order[k.tx].wallet] \in Nat
    BY <2>1 DEF TypeOK
  <2>3. CASE k.success
    <3>1. Settle(k, "SUCCESS", feeAmount[k.tx] + k.fee, 0 - k.fee)
      BY <1>11, <2>3 DEF CompleteWithdrawal
    <3>2. balance[order[k.tx].wallet] >= k.fee
      BY <1>11, <2>1, <2>2, <2>3 DEF CompleteWithdrawal, Completes, Throws
    <3>3. feeAmount[k.tx] + k.fee \in Nat /\ 0 - k.fee \in Int
          /\ balance[order[k.tx].wallet] + (0 - k.fee) \in Nat
      BY <2>1, <2>2, <3>2
    <3> QED
      BY <2>0, <3>1, <3>3, SettleKeepsTypes DEF Final
  <2>4. CASE ~k.success
    <3>1. Settle(k, "FAILED", feeAmount[k.tx], order[k.tx].amount + feeAmount[k.tx])
      BY <1>11, <2>4 DEF CompleteWithdrawal
    <3>2. order[k.tx].amount + feeAmount[k.tx] \in Int
          /\ balance[order[k.tx].wallet] + (order[k.tx].amount + feeAmount[k.tx]) \in Nat
      BY <2>1, <2>2
    <3> QED
      BY <2>0, <2>2, <3>1, <3>2, SettleKeepsTypes DEF Final
  <2> QED
    BY <2>3, <2>4
<1>12. ASSUME NEW k \in tasks, CompleteExternalMerchantPayment(k) PROVE TypeOK'
  <2>1. k.tx \in Txs /\ k.fee \in Nat /\ order[k.tx].wallet \in Wallets
        /\ order[k.tx].amount \in Nat
    BY TaskFields, OrderFields
  <2>2. feeAmount[k.tx] \in Nat /\ balance[order[k.tx].wallet] \in Nat
    BY <2>1 DEF TypeOK
  <2>3. served' \in [Txs -> Nat]
    <3>1. served' = served \/ \E n \in {0, 1} : served' = [served EXCEPT ![k.tx] = @ + n]
      <4>1. CASE k.success
        <5>1. PICK newStatus : ServedAs(k.tx, newStatus)
          BY <1>12, <4>1, PaymentSteps
        <5> QED
          BY <5>1 DEF ServedAs, Serve
      <4>2. CASE ~k.success
        BY <1>12, <4>2, PaymentSteps
      <4> QED
        BY <4>1, <4>2
    <3>2. served \in [Txs -> Nat]
      BY DEF TypeOK
    <3> QED
      BY <2>1, <3>1, <3>2
  <2>4. CASE k.success
    <3>1. PICK newStatus \in Final :
            Settle(k, newStatus, feeAmount[k.tx] + k.fee, PaymentNet(k))
      BY <1>12, <2>4, PaymentSteps
    <3>2. PaymentNet(k) \in Nat /\ feeAmount[k.tx] + k.fee \in Nat
          /\ balance[order[k.tx].wallet] + PaymentNet(k) \in Nat
      BY <2>1, <2>2, NetBounds
    <3> QED
      BY <2>3, <3>1, <3>2, SettleKeepsTypes
  <2>5. CASE ~k.success
    <3>1. Settle(k, "FAILED", feeAmount[k.tx], 0)
      BY <1>12, <2>5, PaymentSteps
    <3> QED
      BY <2>2, <2>3, <3>1, SettleKeepsTypes DEF Final
  <2> QED
    BY <2>4, <2>5
<1>13. ASSUME NEW k \in tasks, CompleteNothing(k) \/ LoseTask(k) \/ RetryTask(k)
       PROVE  TypeOK'
  <2>1. /\ faults' \in [Txs -> Nat]
        /\ served' \in [Txs -> Nat]
    BY <1>13, TaskFields DEF TypeOK, CompleteNothing, LoseTask, RetryTask, Serve, losses
  <2> QED
    BY <1>13, <2>1 DEF TypeOK, CompleteNothing, LoseTask, RetryTask, row, money, losses
<1>14. ASSUME NEW t \in Txs, BecomeOld(t) PROVE TypeOK'
  BY <1>14 DEF TypeOK, BecomeOld, row, money, losses
<1>15. CASE UNCHANGED vars
  BY <1>15 DEF TypeOK, vars
<1> QED
  BY <1>1, <1>2, <1>3, <1>4, <1>5, <1>6, <1>7, <1>8, <1>9, <1>10, <1>11, <1>12,
     <1>13, <1>14, <1>15 DEF Next, Caller, Complete

(* Types are kept for any orders, fees and opening balances; above all no  *)
(* balance is ever driven below zero by a withdrawal, its operator fee or  *)
(* the confirmation of a payment request.                                  *)
THEOREM TypeCorrectness == Spec => []TypeOK
BY InitTypes, NextKeepsTypes, PTL DEF Spec

-----------------------------------------------------------------------------
(* The invariant *)

LEMMA InitInv == Init => Inv
<1> SUFFICES ASSUME Init PROVE Inv
  OBVIOUS
<1>1. TypeOK
  BY InitTypes
<1>2. ASSUME NEW t \in Txs PROVE ProgressOK(t) /\ FlowOK(t)
  BY <1>2 DEF Init, ProgressOK, Undecided, FlowOK
<1> QED
  BY <1>1, <1>2 DEF Inv, MailOK, Init

(* A transaction no action touches. *)
LEMMA Untouched ==
  ASSUME NEW s, ProgressOK(s), FlowOK(s),
         order' = order, status'[s] = status[s], feeAmount'[s] = feeAmount[s],
         providerRef'[s] = providerRef[s], attempt'[s] = attempt[s],
         caller'[s] = caller[s], hub'[s] = hub[s], flow'[s] = flow[s]
  PROVE  ProgressOK(s)' /\ FlowOK(s)'
BY DEF ProgressOK, Undecided, FlowOK

(* What is under way stays true while HUB2's decisions stand. *)
LEMMA UnderWay ==
  ASSUME TypeOK, MailOK, \A k \in tasks : TaskOK(k),
         mail' \subseteq mail, tasks' \subseteq tasks,
         \A t \in Txs : hub[t] = "NONE" \/ hub[t] = "PENDING" \/ hub'[t] = hub[t],
         \A t \in Txs : hub[t] # "NONE" => hub'[t] # "NONE",
         \A t \in Txs : providerRef[t] => providerRef'[t]
  PROVE  MailOK' /\ \A k \in tasks' : TaskOK(k)'
<1>1. ASSUME NEW m \in mail
      PROVE  hub'[m.tx] # "NONE" /\ (m.status \in Decisions => hub'[m.tx] = m.status)
  BY <1>1, MailFields DEF MailOK, Decisions
<1>2. ASSUME NEW k \in tasks PROVE TaskOK(k)'
  BY <1>2, TaskFields DEF TaskOK, Decisions
<1> QED
  BY <1>1, <1>2 DEF MailOK

(* A finalisation of t leaves its row and its entries in agreement. *)
LEMMA SettleKeepsInv ==
  ASSUME Inv, TypeOK', NEW k \in tasks,
         NEW newStatus \in Final, NEW fee, NEW delta,
         Settle(k, newStatus, fee, delta), FlowOK(k.tx)',
         ~AlreadyFinal(k)
  PROVE  Inv'
<1>1. k.tx \in Txs /\ TaskOK(k)
  BY TaskFields DEF Inv
<1>2. ProgressOK(k.tx)'
  <2>1. ProgressOK(k.tx)
    BY <1>1 DEF Inv
  <2>2. status'[k.tx] = newStatus /\ (attempt'[k.tx] # "NONE" => attempt[k.tx] # "NONE")
    BY <1>1 DEF Settle, Inv, TypeOK
  <2> QED
    BY <1>1, <2>1, <2>2 DEF Settle, ProgressOK, Undecided, TaskOK, Final, Stored
<1>3. ASSUME NEW s \in Txs PROVE ProgressOK(s)' /\ FlowOK(s)'
  <2>1. CASE s = k.tx
    BY <1>2, <2>1
  <2>2. CASE s # k.tx
    <3>1. ProgressOK(s) /\ FlowOK(s)
      BY DEF Inv
    <3>2. /\ order' = order /\ status'[s] = status[s] /\ feeAmount'[s] = feeAmount[s]
          /\ providerRef'[s] = providerRef[s] /\ attempt'[s] = attempt[s]
          /\ caller'[s] = caller[s] /\ hub'[s] = hub[s] /\ flow'[s] = flow[s]
      BY <2>2 DEF Settle, Inv, TypeOK
    <3> QED
      BY <3>1, <3>2, Untouched
  <2> QED
    BY <2>1, <2>2
<1>4. MailOK' /\ \A j \in tasks' : TaskOK(j)'
  BY UnderWay DEF Inv, Settle
<1> QED
  BY <1>3, <1>4 DEF Inv

LEMMA NextKeepsInv == Inv /\ [Next]_vars => Inv'
<1> SUFFICES ASSUME Inv, [Next]_vars PROVE Inv'
  OBVIOUS
<1>1. TypeOK /\ TypeOK'
  BY NextKeepsTypes DEF Inv
<1>2. ASSUME NEW t \in Txs, ProgressOK(t)', FlowOK(t)',
             MailOK', \A k \in tasks' : TaskOK(k)', order' = order,
             \A s \in Txs \ {t} :
               /\ status'[s] = status[s] /\ feeAmount'[s] = feeAmount[s]
               /\ providerRef'[s] = providerRef[s] /\ attempt'[s] = attempt[s]
               /\ caller'[s] = caller[s] /\ hub'[s] = hub[s] /\ flow'[s] = flow[s]
      PROVE  Inv'
  <2>1. ASSUME NEW s \in Txs PROVE ProgressOK(s)' /\ FlowOK(s)'
    <3>1. CASE s = t
      BY <1>2, <3>1
    <3>2. CASE s # t
      <4>1. ProgressOK(s) /\ FlowOK(s)
        BY DEF Inv
      <4> QED
        BY <1>2, <3>2, <4>1, Untouched
    <3> QED
      BY <3>1, <3>2
  <2> QED
    BY <1>1, <1>2, <2>1 DEF Inv
<1>3. ASSUME NEW t \in Txs, Create(t) PROVE Inv'
  <2>1. ProgressOK(t)
    BY DEF Inv
  <2>2. order[t].amount \in Nat /\ order[t].ourFee \in Nat /\ order[t].type \in Types
    BY <1>1, OrderFields
  <2>3. ProgressOK(t)'
    BY <1>1, <1>3, <2>1, <2>2 DEF TypeOK, Create, ProgressOK, Undecided, channel, losses, money
  <2>4. FlowOK(t)'
    BY <1>1, <1>3, <2>1, <2>2 DEF TypeOK, Create, ProgressOK, Undecided, FlowOK, Held, PayIn, money
  <2>5. MailOK' /\ \A k \in tasks' : TaskOK(k)'
    BY <1>1, <1>3, UnderWay DEF Inv, Create, channel, losses
  <2> QED
    BY <1>1, <1>2, <1>3, <2>3, <2>4, <2>5 DEF Create, TypeOK, money
<1>4. ASSUME NEW t \in Txs, \/ Accepted(t) \/ Refused(t) \/ StoreReference(t)
                            \/ StoreAttempt(t) \/ Die(t)
      PROVE  Inv'
  <2>1. ProgressOK(t) /\ FlowOK(t)
    BY DEF Inv
  <2>2. order[t].type \in Types
    BY <1>1, OrderFields
  <2>3. ProgressOK(t)' /\ FlowOK(t)'
    <3>1. CASE Accepted(t)
      <4>1. /\ hub[t] = "NONE" /\ hub'[t] = "PENDING" /\ caller'[t] = "accepted"
            /\ caller[t] = "created" /\ order[t].type # "REQUEST"
        BY <1>1, <2>1, <3>1 DEF TypeOK, Accepted, ProgressOK, Undecided
      <4> QED
        BY <2>1, <3>1, <4>1
           DEF Accepted, ProgressOK, Undecided, FlowOK, row, money, Stored, PayIn
    <3>2. CASE Refused(t) \/ Die(t)
      <4>1. caller'[t] = "dead" /\ caller[t] # "idle"
        BY <1>1, <3>2 DEF TypeOK, Refused, Die
      <4> QED
        BY <2>1, <3>2, <4>1
           DEF Refused, Die, ProgressOK, Undecided, FlowOK, row, money, Stored
    <3>3. CASE StoreReference(t)
      <4>1. /\ providerRef'[t] /\ ~providerRef[t] /\ caller'[t] = "referenced"
            /\ caller[t] = "accepted"
            /\ status'[t] = IF order[t].type = "TOPUP" THEN "PROCESSING" ELSE status[t]
        BY <1>1, <2>1, <3>3 DEF TypeOK, StoreReference, ProgressOK, Undecided, Stored
      <4> QED
        BY <2>1, <3>3, <4>1
           DEF StoreReference, ProgressOK, Undecided, FlowOK, money, Stored
    <3>4. CASE StoreAttempt(t)
      <4>1. providerRef[t] /\ caller'[t] = "done" /\ caller[t] = "referenced"
        BY <1>1, <2>1, <3>4 DEF TypeOK, StoreAttempt, ProgressOK, Undecided
      <4> QED
        BY <2>1, <3>4, <4>1
           DEF StoreAttempt, ProgressOK, Undecided, FlowOK, money, Stored
    <3> QED
      BY <1>4, <3>1, <3>2, <3>3, <3>4
  <2>4. MailOK' /\ \A k \in tasks' : TaskOK(k)'
    <3>1. hub[t] = "NONE" \/ hub'[t] = hub[t]
      BY <1>1, <1>4, <2>1
         DEF Accepted, Refused, StoreReference, StoreAttempt, Die, ProgressOK, Undecided
    <3> QED
      BY <1>1, <1>4, <3>1, UnderWay
         DEF Inv, TypeOK, Accepted, Refused, StoreReference, StoreAttempt, Die, channel, losses, row
  <2> QED
    BY <1>1, <1>2, <1>4, <2>3, <2>4
       DEF TypeOK, Accepted, Refused, StoreReference, StoreAttempt, Die, row, money
<1>5. ASSUME NEW t \in Txs, ConfirmPendingPayment(t) PROVE Inv'
  <2>1. ProgressOK(t) /\ FlowOK(t)
    BY DEF Inv
  <2>2. order[t].type \in Types
    BY <1>1, OrderFields
  <2>3. ProgressOK(t)' /\ FlowOK(t)'
    BY <1>1, <1>5, <2>1, <2>2
       DEF TypeOK, ConfirmPendingPayment, ProgressOK, Undecided, FlowOK, PayIn, Types
  <2>4. MailOK' /\ \A k \in tasks' : TaskOK(k)'
    BY <1>1, <1>5, UnderWay DEF Inv, ConfirmPendingPayment, channel, losses
  <2> QED
    BY <1>1, <1>2, <1>5, <2>3, <2>4 DEF TypeOK, ConfirmPendingPayment
<1>6. ASSUME NEW t \in Txs, Decide(t) PROVE Inv'
  <2>1. ProgressOK(t) /\ FlowOK(t)
    BY DEF Inv
  <2>2. ProgressOK(t)' /\ FlowOK(t)'
    BY <1>1, <1>6, <2>1 DEF TypeOK, Decide, Decisions, ProgressOK, Undecided, FlowOK, row, money
  <2>3. MailOK' /\ \A k \in tasks' : TaskOK(k)'
    BY <1>1, <1>6, UnderWay DEF Inv, TypeOK, Decide, Decisions, channel, losses, row
  <2> QED
    BY <1>1, <1>2, <1>6, <2>2, <2>3 DEF TypeOK, Decide, row, money
<1>7. ASSUME row' = row, caller' = caller, money' = money, hub' = hub,
             MailOK', \A k \in tasks' : TaskOK(k)'
      PROVE  Inv'
  <2>1. ASSUME NEW s \in Txs PROVE ProgressOK(s)' /\ FlowOK(s)'
    BY <1>7, Untouched DEF Inv, row, money
  <2> QED
    BY <1>1, <1>7, <2>1 DEF Inv
<1>8. ASSUME NEW t \in Txs, SendWebhook(t) PROVE Inv'
  <2>1. \A k \in tasks' : TaskOK(k)'
    BY <1>8 DEF Inv, SendWebhook, TaskOK, row
  <2>2. MailOK'
    BY <1>1, <1>8 DEF Inv, SendWebhook, MailOK
  <2> QED
    BY <1>7, <1>8, <2>1, <2>2 DEF SendWebhook
<1>9. ASSUME NEW t \in Txs, WindowPasses(t) PROVE Inv'
  <2>1. MailOK' /\ \A k \in tasks' : TaskOK(k)'
    BY <1>1, <1>9, UnderWay DEF Inv, WindowPasses, row
  <2> QED
    BY <1>7, <1>9, <2>1 DEF WindowPasses
<1>10. ASSUME NEW t \in Txs, RefreshFromProvider(t) PROVE Inv'
  <2> DEFINE k == Finalise(t, hub[t] = "SUCCESS", 0)
  <2>1. k.tx = t /\ (k.success <=> hub[t] = "SUCCESS")
    BY FinaliseFields
  <2>2. providerRef[t]
    BY <1>10 DEF Inv, RefreshFromProvider, Askable, ProgressOK, Undecided
  <2>3. TaskOK(k)
    BY <1>10, <2>1, <2>2 DEF TaskOK, RefreshFromProvider
  <2>4. \A j \in tasks' : TaskOK(j)
    BY <1>10, <2>3 DEF Inv, RefreshFromProvider
  <2>5. MailOK' /\ \A j \in tasks' : TaskOK(j)'
    BY <1>10, <2>4 DEF Inv, RefreshFromProvider, MailOK, TaskOK, row
  <2> QED
    BY <1>7, <1>10, <2>5 DEF RefreshFromProvider
<1>11. ASSUME NEW m \in mail, LoseWebhook(m) \/ ReceiveUnmatched(m) PROVE Inv'
  <2>1. MailOK' /\ \A k \in tasks' : TaskOK(k)'
    BY <1>1, <1>11, UnderWay DEF Inv, LoseWebhook, ReceiveUnmatched, row
  <2> QED
    BY <1>7, <1>11, <2>1 DEF LoseWebhook, ReceiveUnmatched
<1>12. ASSUME NEW m \in mail, ReceiveWebhook(m) PROVE Inv'
  <2> DEFINE k == Finalise(m.tx, m.status = "SUCCESS", Hub2Fee[m.tx])
  <2>1. m.tx \in Txs /\ Hub2Fee[m.tx] \in Nat
    BY <1>1, MailFields, SettlementAssumption
  <2>2. k.tx = m.tx /\ (k.success <=> m.status = "SUCCESS")
    BY <2>1, FinaliseFields
  <2>3. Decoded(m.status) # "PENDING" => TaskOK(k)
    BY <1>12, <2>2 DEF Inv, MailOK, TaskOK, ReceiveWebhook, Decoded, Final, Decisions
  <2>4. \A j \in tasks' : TaskOK(j)
    BY <1>12, <2>3 DEF Inv, ReceiveWebhook
  <2>5. MailOK' /\ \A j \in tasks' : TaskOK(j)'
    BY <1>12, <2>4 DEF Inv, ReceiveWebhook, MailOK, TaskOK, row
  <2> QED
    BY <1>7, <1>12, <2>5 DEF ReceiveWebhook
<1>13. ASSUME NEW k \in tasks, CompleteTopup(k) PROVE Inv'
  <2>1. k.tx \in Txs /\ TaskOK(k) /\ FlowOK(k.tx) /\ ~AlreadyFinal(k)
    BY <1>1, <1>13, TaskFields DEF Inv, CompleteTopup, Completes
  <2>2. flow[k.tx] = 0 /\ order[k.tx].type = "TOPUP"
    BY <1>13, <2>1 DEF FlowOK, PayIn, AlreadyFinal, Final, CompleteTopup, Completes
  <2>3. order[k.tx].amount \in Nat /\ TopupNet(k) \in Nat
    BY <1>1, <2>1, OrderFields, NetBounds
  <2>4. CASE k.success
    <3>1. Settle(k, "SUCCESS", order[k.tx].amount - TopupNet(k), TopupNet(k))
      BY <1>13, <2>4 DEF CompleteTopup
    <3>2. FlowOK(k.tx)'
      BY <1>1, <2>1, <2>2, <2>3, <2>4, <3>1 DEF Settle, TypeOK, FlowOK, TaskOK
    <3> QED
      BY <1>1, <2>1, <3>1, <3>2, SettleKeepsInv DEF Final
  <2>5. CASE ~k.success
    <3>1. Settle(k, "FAILED", feeAmount[k.tx], 0)
      BY <1>13, <2>5 DEF CompleteTopup
    <3>2. FlowOK(k.tx)'
      BY <1>1, <2>1, <2>2, <2>5, <3>1 DEF Settle, TypeOK, FlowOK, TaskOK
    <3> QED
      BY <1>1, <2>1, <3>1, <3>2, SettleKeepsInv DEF Final
  <2> QED
    BY <2>4, <2>5
<1>14. ASSUME NEW k \in tasks, CompleteWithdrawal(k) PROVE Inv'
  <2>1. k.tx \in Txs /\ TaskOK(k) /\ FlowOK(k.tx) /\ ProgressOK(k.tx) /\ ~AlreadyFinal(k)
    BY <1>1, <1>14, TaskFields DEF Inv, CompleteWithdrawal, Completes
  <2>2. /\ order[k.tx].type = "WITHDRAWAL"
        /\ flow[k.tx] = 0 - (order[k.tx].amount + feeAmount[k.tx])
    BY <1>14, <2>1 DEF FlowOK, AlreadyFinal, Final, CompleteWithdrawal, Completes,
                       ProgressOK, Undecided, TaskOK, Stored
  <2>3. order[k.tx].amount \in Nat /\ feeAmount[k.tx] \in Nat /\ k.fee \in Nat
    BY <1>1, <2>1, OrderFields, TaskFields DEF TypeOK
  <2>4. CASE k.success
    <3>1. Settle(k, "SUCCESS", feeAmount[k.tx] + k.fee, 0 - k.fee)
      BY <1>14, <2>4 DEF CompleteWithdrawal
    <3>2. FlowOK(k.tx)'
      BY <1>1, <2>1, <2>2, <2>3, <2>4, <3>1 DEF Settle, TypeOK, FlowOK, TaskOK, PayIn
    <3> QED
      BY <1>1, <2>1, <3>1, <3>2, SettleKeepsInv DEF Final
  <2>5. CASE ~k.success
    <3>1. Settle(k, "FAILED", feeAmount[k.tx], order[k.tx].amount + feeAmount[k.tx])
      BY <1>14, <2>5 DEF CompleteWithdrawal
    <3>2. FlowOK(k.tx)'
      BY <1>1, <2>1, <2>2, <2>3, <2>5, <3>1 DEF Settle, TypeOK, FlowOK, TaskOK, PayIn
    <3> QED
      BY <1>1, <2>1, <3>1, <3>2, SettleKeepsInv DEF Final
  <2> QED
    BY <2>4, <2>5
<1>15. ASSUME NEW k \in tasks, CompleteExternalMerchantPayment(k) PROVE Inv'
  <2>1. k.tx \in Txs /\ TaskOK(k) /\ FlowOK(k.tx) /\ ~AlreadyFinal(k)
    BY <1>1, <1>15, TaskFields DEF Inv, CompleteExternalMerchantPayment, Completes
  <2>2. flow[k.tx] = 0 /\ order[k.tx].type = "PAYMENT"
    BY <1>15, <2>1 DEF FlowOK, PayIn, AlreadyFinal, Final,
                       CompleteExternalMerchantPayment, Completes
  <2>3. order[k.tx].amount \in Nat /\ feeAmount[k.tx] \in Nat /\ k.fee \in Nat
        /\ order[k.tx].airtime \in BOOLEAN
    BY <1>1, <2>1, OrderFields, TaskFields DEF TypeOK
  <2>4. CASE k.success
    <3>1. PICK newStatus \in Final :
            /\ Settle(k, newStatus, feeAmount[k.tx] + k.fee, PaymentNet(k))
            /\ newStatus = "SUCCESS" \/ order[k.tx].airtime
      BY <1>15, <2>4, PaymentSteps
    <3>2. /\ PaymentNet(k) = order[k.tx].amount - (feeAmount[k.tx] + k.fee)
          /\ PaymentNet(k) # 0 /\ PaymentNet(k) \in Nat
      BY <1>1, <1>15, <2>2, <2>3, <2>4, NetBounds
         DEF CompleteExternalMerchantPayment, Completes, Throws
    <3>3. /\ order' = order /\ hub' = hub /\ providerRef' = providerRef
          /\ status'[k.tx] = newStatus
          /\ feeAmount'[k.tx] = feeAmount[k.tx] + k.fee /\ flow'[k.tx] = PaymentNet(k)
      BY <1>1, <2>1, <2>2, <3>1, <3>2 DEF Settle, TypeOK
    <3>4. FlowOK(k.tx)'
      BY <2>1, <2>2, <2>3, <2>4, <3>1, <3>2, <3>3 DEF FlowOK, TaskOK, Final
    <3> QED
      BY <1>1, <2>1, <3>1, <3>4, SettleKeepsInv
  <2>5. CASE ~k.success
    <3>1. Settle(k, "FAILED", feeAmount[k.tx], 0)
      BY <1>15, <2>5, PaymentSteps
    <3>2. FlowOK(k.tx)'
      BY <1>1, <2>1, <2>2, <2>5, <3>1 DEF Settle, TypeOK, FlowOK, TaskOK
    <3> QED
      BY <1>1, <2>1, <3>1, <3>2, SettleKeepsInv DEF Final
  <2> QED
    BY <2>4, <2>5
<1>16. ASSUME NEW k \in tasks, CompleteNothing(k) \/ LoseTask(k) \/ RetryTask(k)
       PROVE  Inv'
  <2>1. MailOK' /\ \A j \in tasks' : TaskOK(j)'
    BY <1>1, <1>16, UnderWay DEF Inv, CompleteNothing, LoseTask, RetryTask, row
  <2> QED
    BY <1>7, <1>16, <2>1 DEF CompleteNothing, LoseTask, RetryTask
<1>17. ASSUME NEW t \in Txs, BecomeOld(t) PROVE Inv'
  <2>1. MailOK' /\ \A k \in tasks' : TaskOK(k)'
    BY <1>1, <1>17, UnderWay DEF Inv, BecomeOld, row
  <2> QED
    BY <1>7, <1>17, <2>1 DEF BecomeOld
<1>18. CASE UNCHANGED vars
  <2>1. MailOK' /\ \A j \in tasks' : TaskOK(j)'
    BY <1>18 DEF Inv, vars, MailOK, TaskOK
  <2> QED
    BY <1>7, <1>18, <2>1 DEF vars, row, money
<1> QED
  BY <1>3, <1>4, <1>5, <1>6, <1>8, <1>9, <1>10, <1>11, <1>12, <1>13, <1>14, <1>15,
     <1>16, <1>17, <1>18 DEF Next, Caller, Complete

LEMMA InvHolds == Spec => []Inv
BY InitInv, NextKeepsInv, PTL DEF Spec

-----------------------------------------------------------------------------
(* What is delivered *)

(* The airtime a payment is for is delivered only once HUB2 has it, and    *)
(* more than once only if a finalisation was rolled back.                  *)
DeliveryOK(t) ==
  /\ served[t] > 0 => order[t].airtime /\ hub[t] = "SUCCESS"
  /\ served[t] <= (IF status[t] \in Final THEN 1 ELSE 0) + faults[t]
  /\ order[t].airtime /\ status[t] = "SUCCESS" => served[t] > 0

Delivered == \A t \in Txs : DeliveryOK(t)

(* Nothing is delivered, and no payment for airtime becomes final.         *)
LEMMA NothingDelivered ==
  ASSUME Inv, TypeOK', NEW t \in Txs, DeliveryOK(t),
         order' = order, served' = served, faults' = faults,
         hub[t] = "SUCCESS" => hub'[t] = "SUCCESS",
         order[t].airtime => status'[t] = status[t]
                             \/ (status[t] \notin Final /\ status'[t] # "SUCCESS")
  PROVE  DeliveryOK(t)'
<1>1. /\ served[t] \in Nat /\ faults[t] \in Nat /\ order[t].airtime \in BOOLEAN
  BY OrderFields DEF Inv, TypeOK
<1>2. CASE order[t].airtime
  BY <1>1, <1>2 DEF DeliveryOK, Final
<1>3. CASE ~order[t].airtime
  BY <1>1, <1>3 DEF DeliveryOK
<1> QED
  BY <1>1, <1>2, <1>3

LEMMA NextDelivers == Inv /\ Delivered /\ [Next]_vars => Delivered'
<1> SUFFICES ASSUME Inv, Delivered, [Next]_vars, NEW t \in Txs PROVE DeliveryOK(t)'
  BY DEF Delivered
<1>1. TypeOK /\ TypeOK' /\ DeliveryOK(t) /\ ProgressOK(t)
  BY NextKeepsTypes DEF Inv, Delivered
<1>2. /\ served[t] \in Nat /\ faults[t] \in Nat /\ order[t].airtime \in BOOLEAN
      /\ order[t].airtime => order[t].type = "PAYMENT"
  BY <1>1, OrderFields DEF TypeOK
<1>3. ASSUME NEW s \in Txs,
             \/ Create(s) \/ Accepted(s) \/ Refused(s) \/ StoreReference(s) \/ StoreAttempt(s)
             \/ Die(s) \/ ConfirmPendingPayment(s) \/ Decide(s) \/ SendWebhook(s)
             \/ WindowPasses(s) \/ RefreshFromProvider(s) \/ BecomeOld(s)
      PROVE  DeliveryOK(t)'
  <2>1. /\ order' = order /\ served' = served /\ faults' = faults
    BY <1>3 DEF Create, Accepted, Refused, StoreReference, StoreAttempt, Die,
                ConfirmPendingPayment, Decide, SendWebhook, WindowPasses,
                RefreshFromProvider, BecomeOld, row, channel, losses
  <2>2. hub[t] = "SUCCESS" => hub'[t] = "SUCCESS"
    <3>1. ASSUME Accepted(s) PROVE hub[s] = "NONE"
      BY <1>1, <3>1 DEF Inv, ProgressOK, Accepted
    <3> QED
      BY <1>1, <1>3, <3>1
         DEF TypeOK, Create, Accepted, Refused, StoreReference, StoreAttempt, Die,
             ConfirmPendingPayment, Decide, SendWebhook, WindowPasses,
             RefreshFromProvider, BecomeOld
  <2>3. order[t].airtime => status'[t] = status[t]
                            \/ (status[t] \notin Final /\ status'[t] # "SUCCESS")
    <3>1. CASE Create(s)
      <4>1. status[s] = "NONE"
        BY <3>1 DEF Inv, ProgressOK, Create
      <4>2. /\ status'[s] \in {"PENDING", "PROCESSING"}
            /\ s # t => status'[t] = status[t]
        BY <1>1, <3>1 DEF TypeOK, Create
      <4> QED
        BY <4>1, <4>2 DEF Final
    <3>2. CASE StoreReference(s)
      BY <1>1, <1>2, <3>2 DEF TypeOK, StoreReference
    <3>3. CASE ConfirmPendingPayment(s)
      BY <1>1, <1>2, <3>3 DEF TypeOK, ConfirmPendingPayment, ProgressOK
    <3>4. CASE status' = status
      BY <3>4
    <3> QED
      BY <1>3, <3>1, <3>2, <3>3, <3>4
         DEF Accepted, Refused, StoreAttempt, Die, Decide, SendWebhook, WindowPasses,
             RefreshFromProvider, BecomeOld, row
  <2> QED
    BY <1>1, <2>1, <2>2, <2>3, NothingDelivered
<1>4. ASSUME NEW m \in mail, LoseWebhook(m) \/ ReceiveUnmatched(m) \/ ReceiveWebhook(m)
      PROVE  DeliveryOK(t)'
  BY <1>1, <1>4, NothingDelivered
     DEF LoseWebhook, ReceiveUnmatched, ReceiveWebhook, row, losses
<1>5. ASSUME NEW k \in tasks, CompleteTopup(k) \/ CompleteWithdrawal(k)
      PROVE  DeliveryOK(t)'
  <2>1. /\ order' = order /\ served' = served /\ faults' = faults /\ hub' = hub
        /\ order[t].airtime => status'[t] = status[t]
    <3>1. k.tx \in Txs /\ (order[k.tx].type \in {"TOPUP", "WITHDRAWAL"})
      BY <1>1, <1>5, TaskFields DEF CompleteTopup, CompleteWithdrawal, Completes
    <3>2. PICK newStatus, fee, delta : Settle(k, newStatus, fee, delta)
      BY <1>5 DEF CompleteTopup, CompleteWithdrawal
    <3>3. served' = served
      BY <1>5 DEF CompleteTopup, CompleteWithdrawal
    <3> QED
      BY <1>1, <1>2, <3>1, <3>2, <3>3 DEF Settle, TypeOK
  <2> QED
    BY <1>1, <2>1, NothingDelivered
<1>6. ASSUME NEW k \in tasks, CompleteExternalMerchantPayment(k) PROVE DeliveryOK(t)'
  <2>1. k.tx \in Txs /\ TaskOK(k) /\ status[k.tx] \notin Final
    BY <1>1, <1>6, TaskFields DEF Inv, CompleteExternalMerchantPayment, Completes, AlreadyFinal
  <2>2. CASE k.success
    <3>1. PICK newStatus \in Final :
            /\ Settle(k, newStatus, feeAmount[k.tx] + k.fee, PaymentNet(k))
            /\ ServedAs(k.tx, newStatus)
      BY <1>6, <2>2, PaymentSteps
    <3>2. /\ order' = order /\ faults' = faults /\ hub' = hub
          /\ status' = [status EXCEPT ![k.tx] = newStatus]
      BY <3>1 DEF Settle
    <3>3. hub[k.tx] = "SUCCESS"
      BY <2>1, <2>2 DEF TaskOK
    <3>4. CASE t = k.tx
      <4>1. status'[t] = newStatus /\ served[t] <= faults[t]
        BY <1>1, <1>2, <2>1, <3>2, <3>4 DEF TypeOK, DeliveryOK
      <4>2. CASE served' = served /\ ~order[t].airtime
        BY <1>1, <1>2, <3>1, <3>2, <4>1, <4>2 DEF DeliveryOK
      <4>3. CASE order[t].airtime
        <5>1. PICK n \in {0, 1} : Serve(t, n) /\ (newStatus = "SUCCESS" => n = 1)
          BY <3>1, <3>4, <4>3 DEF ServedAs
        <5>2. served'[t] = served[t] + n
          BY <1>1, <5>1 DEF TypeOK, Serve
        <5> QED
          BY <1>2, <3>1, <3>2, <3>3, <3>4, <4>1, <4>3, <5>1, <5>2 DEF DeliveryOK
      <4> QED
        BY <3>1, <3>4, <4>2, <4>3 DEF ServedAs
    <3>5. CASE t # k.tx
      <4>1. served'[t] = served[t] /\ status'[t] = status[t]
        BY <1>1, <2>1, <3>1, <3>2, <3>5 DEF TypeOK, ServedAs, Serve
      <4> QED
        BY <1>1, <3>2, <4>1 DEF DeliveryOK
    <3> QED
      BY <3>4, <3>5
  <2>3. CASE ~k.success
    <3>1. Settle(k, "FAILED", feeAmount[k.tx], 0) /\ served' = served
      BY <1>6, <2>3, PaymentSteps
    <3>2. /\ order' = order /\ faults' = faults /\ hub' = hub
          /\ status'[t] = status[t] \/ (status[t] \notin Final /\ status'[t] = "FAILED")
      BY <1>1, <2>1, <3>1 DEF Settle, TypeOK
    <3> QED
      BY <1>1, <3>1, <3>2, NothingDelivered
  <2> QED
    BY <2>2, <2>3
<1>7. ASSUME NEW k \in tasks, CompleteNothing(k) PROVE DeliveryOK(t)'
  BY <1>1, <1>7, NothingDelivered DEF CompleteNothing, row, losses
<1>8. ASSUME NEW k \in tasks, LoseTask(k) \/ RetryTask(k) PROVE DeliveryOK(t)'
  <2>1. PICK n \in {0, 1} : /\ served' = [served EXCEPT ![k.tx] = @ + n]
                            /\ n # 0 => CallsReloadly(k)
    BY <1>8 DEF LoseTask, RetryTask, Serve
  <2>2. /\ faults' = [faults EXCEPT ![k.tx] = @ + 1]
        /\ order' = order /\ status' = status /\ hub' = hub
    BY <1>8 DEF LoseTask, RetryTask, row
  <2>3. k.tx \in Txs /\ TaskOK(k)
    BY <1>1, TaskFields DEF Inv
  <2>4. CASE t = k.tx
    <3>1. served'[t] = served[t] + n /\ faults'[t] = faults[t] + 1
      BY <1>1, <2>1, <2>2, <2>4 DEF TypeOK
    <3>2. n # 0 => order[t].airtime /\ hub[t] = "SUCCESS"
      BY <2>1, <2>3, <2>4 DEF CallsReloadly, TaskOK
    <3> QED
      BY <1>1, <1>2, <2>1, <2>2, <3>1, <3>2 DEF DeliveryOK
  <2>5. CASE t # k.tx
    <3>1. served'[t] = served[t] /\ faults'[t] = faults[t]
      BY <1>1, <2>1, <2>2, <2>3, <2>5 DEF TypeOK
    <3> QED
      BY <1>1, <2>2, <3>1 DEF DeliveryOK
  <2> QED
    BY <2>4, <2>5
<1>9. CASE UNCHANGED vars
  BY <1>1, <1>9, NothingDelivered DEF vars
<1> QED
  BY <1>3, <1>4, <1>5, <1>6, <1>7, <1>8, <1>9 DEF Next, Caller, Complete

(* No wallet gets the money of a pay-in that HUB2 does not have, no        *)
(* withdrawal is given back that HUB2 has paid, a pay-in that HUB2 has     *)
(* fails only for airtime that was not delivered, and airtime is not       *)
(* delivered unpaid, nor twice but for rolled-back finalisations: whatever *)
(* the order, loss and repetition of webhooks, polls and crashes.          *)
THEOREM MoneyOnlyFollowsHub2 == Spec => []MoneyFollowsHub2
<1>1. Init => Delivered
  BY DEF Init, Delivered, DeliveryOK, Final
<1>2. Inv /\ Delivered => MoneyFollowsHub2
  BY DEF Inv, FlowOK, PayIn, Delivered, DeliveryOK, MoneyFollowsHub2
<1> QED
  BY <1>1, <1>2, NextDelivers, InvHolds, PTL DEF Spec

-----------------------------------------------------------------------------
(* What is settled *)

(* The steps that leave every row and every entry alone. *)
Quiet ==
  \/ \E t \in Txs : \/ Accepted(t) \/ Refused(t) \/ StoreAttempt(t) \/ Die(t)
                    \/ Decide(t) \/ SendWebhook(t) \/ WindowPasses(t)
                    \/ RefreshFromProvider(t) \/ BecomeOld(t)
  \/ \E m \in mail : LoseWebhook(m) \/ ReceiveUnmatched(m) \/ ReceiveWebhook(m)
  \/ \E k \in tasks : CompleteNothing(k) \/ LoseTask(k) \/ RetryTask(k)
  \/ UNCHANGED vars

LEMMA QuietSteps ==
  ASSUME Quiet
  PROVE  order' = order /\ status' = status /\ feeAmount' = feeAmount /\ flow' = flow
BY DEF Quiet, Accepted, Refused, StoreAttempt, Die, Decide, SendWebhook, WindowPasses,
       RefreshFromProvider, LoseWebhook, ReceiveUnmatched, ReceiveWebhook,
       CompleteNothing, LoseTask, RetryTask, BecomeOld, row, money, vars

CompletesSome(k) ==
  CompleteTopup(k) \/ CompleteWithdrawal(k) \/ CompleteExternalMerchantPayment(k)

LEMMA Steps ==
  ASSUME [Next]_vars
  PROVE  \/ Quiet
         \/ \E t \in Txs : Create(t) \/ StoreReference(t) \/ ConfirmPendingPayment(t)
         \/ \E k \in tasks : CompletesSome(k)
BY DEF Quiet, CompletesSome, Next, Caller, Complete

(* Before these steps t is not settled; they touch no other transaction. *)
LEMMA RequestSteps ==
  ASSUME Inv, NEW t \in Txs,
         Create(t) \/ StoreReference(t) \/ ConfirmPendingPayment(t)
  PROVE  /\ Settled(t) => status'[t] = status[t] /\ flow'[t] = flow[t]
                           /\ feeAmount'[t] = feeAmount[t]
         /\ order[t].type # "REQUEST" => Settled(t)' = Settled(t)
         /\ order' = order
         /\ \A s \in Txs \ {t} : status'[s] = status[s] /\ flow'[s] = flow[s]
                                 /\ feeAmount'[s] = feeAmount[s]
<1>1. TypeOK /\ ProgressOK(t) /\ FlowOK(t)
  BY DEF Inv
<1>2. order[t].type \in Types
  BY <1>1, OrderFields
<1>3. CASE Create(t)
  BY <1>1, <1>2, <1>3 DEF TypeOK, Create, ProgressOK, Undecided, Settled, money
<1>4. CASE StoreReference(t)
  BY <1>1, <1>2, <1>4
     DEF TypeOK, StoreReference, ProgressOK, Undecided, FlowOK, Settled, money, PayIn, Stored
<1>5. CASE ConfirmPendingPayment(t)
  BY <1>1, <1>2, <1>5
     DEF TypeOK, ConfirmPendingPayment, ProgressOK, Undecided, FlowOK, Settled, PayIn, Types
<1> QED
  BY <1>3, <1>4, <1>5

(* A completion settles a transaction that was not, and no other. *)
LEMMA CompletionSteps ==
  ASSUME Inv, NEW k \in tasks, CompletesSome(k)
  PROVE  /\ k.tx \in Txs /\ TaskOK(k) /\ order[k.tx].type # "REQUEST"
         /\ ~Settled(k.tx) /\ Settled(k.tx)'
         /\ order' = order /\ hub' = hub
         /\ flow' = [flow EXCEPT ![k.tx] = flow'[k.tx]]
         /\ \A s \in Txs \ {k.tx} : status'[s] = status[s] /\ flow'[s] = flow[s]
                                    /\ feeAmount'[s] = feeAmount[s]
         /\ hub[k.tx] # "SUCCESS" => flow'[k.tx] = 0
         /\ hub[k.tx] = "SUCCESS" =>
              IF order[k.tx].type = "WITHDRAWAL" THEN flow'[k.tx] <= flow[k.tx]
                                                 ELSE flow'[k.tx] \in 1..order[k.tx].amount
<1>1. TypeOK /\ k.tx \in Txs /\ TaskOK(k) /\ ProgressOK(k.tx) /\ FlowOK(k.tx)
  BY TaskFields DEF Inv
<1>2. ~AlreadyFinal(k) /\ ~Throws(k) /\ order[k.tx].type # "REQUEST"
  BY DEF CompletesSome, CompleteTopup, CompleteWithdrawal,
         CompleteExternalMerchantPayment, Completes
<1>3. ~Settled(k.tx)
  BY <1>2 DEF AlreadyFinal, Settled, Final
<1>4. order[k.tx].amount \in Nat \ {0} /\ feeAmount[k.tx] \in Nat /\ k.fee \in Nat
      /\ flow[k.tx] \in Int
  BY <1>1, OrderFields, TaskFields DEF TypeOK
<1>5. ASSUME NEW newStatus, NEW fee, NEW delta, Settle(k, newStatus, fee, delta)
      PROVE  /\ order' = order /\ hub' = hub
             /\ status'[k.tx] = newStatus /\ flow'[k.tx] = flow[k.tx] + delta
             /\ flow' = [flow EXCEPT ![k.tx] = flow'[k.tx]]
             /\ \A s \in Txs \ {k.tx} : status'[s] = status[s] /\ flow'[s] = flow[s]
                                        /\ feeAmount'[s] = feeAmount[s]
  BY <1>1, <1>5 DEF TypeOK, Settle
<1>6. CASE CompleteTopup(k) \/ CompleteExternalMerchantPayment(k)
  <2>1. order[k.tx].type \in PayIn /\ flow[k.tx] = 0
    BY <1>1, <1>2, <1>6 DEF CompleteTopup, CompleteExternalMerchantPayment, Completes,
                            FlowOK, PayIn, AlreadyFinal, Final
  <2>2. CASE k.success
    <3>0. \E net \in 1..order[k.tx].amount, fee \in Int, newStatus \in Final :
            Settle(k, newStatus, fee, net)
      <4>1. CASE CompleteTopup(k)
        <5>1. Settle(k, "SUCCESS", order[k.tx].amount - TopupNet(k), TopupNet(k))
          BY <2>2, <4>1 DEF CompleteTopup
        <5>2. TopupNet(k) \in 1..order[k.tx].amount /\ order[k.tx].amount - TopupNet(k) \in Int
          BY <1>1, <1>4, NetBounds
        <5> QED
          BY <5>1, <5>2 DEF Final
      <4>2. CASE CompleteExternalMerchantPayment(k)
        <5>1. PICK newStatus \in Final :
                Settle(k, newStatus, feeAmount[k.tx] + k.fee, PaymentNet(k))
          BY <2>2, <4>2, PaymentSteps
        <5>2. PaymentNet(k) # 0
          BY <1>2, <2>2, <4>2 DEF CompleteExternalMerchantPayment, Completes, Throws
        <5>3. PaymentNet(k) \in 1..order[k.tx].amount /\ feeAmount[k.tx] + k.fee \in Int
          BY <1>1, <1>4, <5>2, NetBounds
        <5> QED
          BY <5>1, <5>3
      <4> QED
        BY <1>6, <4>1, <4>2
    <3>1. PICK net \in 1..order[k.tx].amount, fee \in Int, newStatus \in Final :
            Settle(k, newStatus, fee, net)
      BY <3>0
    <3>2. status'[k.tx] \in Final /\ flow'[k.tx] = net /\ order' = order
      BY <1>4, <1>5, <2>1, <3>1
    <3>3. Settled(k.tx)'
      BY <1>4, <3>2 DEF Settled, Final
    <3> QED
      BY <1>1, <1>2, <1>3, <1>5, <2>1, <2>2, <3>1, <3>2, <3>3 DEF TaskOK, PayIn
  <2>3. CASE ~k.success
    <3>1. Settle(k, "FAILED", feeAmount[k.tx], 0)
      BY <1>6, <2>3 DEF CompleteTopup, CompleteExternalMerchantPayment
    <3>2. status'[k.tx] = "FAILED" /\ flow'[k.tx] = 0
      BY <1>5, <2>1, <3>1
    <3>3. Settled(k.tx)'
      BY <3>2 DEF Settled
    <3> QED
      BY <1>1, <1>2, <1>3, <1>5, <2>3, <3>1, <3>2, <3>3 DEF TaskOK
  <2> QED
    BY <2>2, <2>3
<1>7. CASE CompleteWithdrawal(k)
  <2>1. /\ order[k.tx].type = "WITHDRAWAL"
        /\ flow[k.tx] = 0 - (order[k.tx].amount + feeAmount[k.tx])
    BY <1>1, <1>2, <1>7 DEF FlowOK, AlreadyFinal, Final, CompleteWithdrawal, Completes,
                            ProgressOK, Undecided, TaskOK, Stored
  <2>2. CASE k.success
    <3>1. Settle(k, "SUCCESS", feeAmount[k.tx] + k.fee, 0 - k.fee)
      BY <1>7, <2>2 DEF CompleteWithdrawal
    <3>2. status'[k.tx] = "SUCCESS" /\ flow'[k.tx] <= flow[k.tx] /\ order' = order
      BY <1>4, <1>5, <3>1
    <3>3. Settled(k.tx)'
      BY <2>1, <3>2 DEF Settled
    <3> QED
      BY <1>1, <1>2, <1>3, <1>5, <2>1, <2>2, <3>1, <3>2, <3>3 DEF TaskOK
  <2>3. CASE ~k.success
    <3>1. Settle(k, "FAILED", feeAmount[k.tx], order[k.tx].amount + feeAmount[k.tx])
      BY <1>7, <2>3 DEF CompleteWithdrawal
    <3>2. status'[k.tx] = "FAILED" /\ flow'[k.tx] = 0
      BY <1>4, <1>5, <2>1, <3>1
    <3>3. Settled(k.tx)'
      BY <3>2 DEF Settled
    <3> QED
      BY <1>1, <1>2, <1>3, <1>5, <2>3, <3>1, <3>2, <3>3 DEF TaskOK
  <2> QED
    BY <2>2, <2>3
<1> QED
  BY <1>6, <1>7 DEF CompletesSome

(* A final status, its fee and its entries never change again, whatever    *)
(* webhooks, polls and sweeps still come.                                  *)
THEOREM SettledForEver == Spec => SettledStays
<1>1. ASSUME Inv, [Next]_vars, NEW t \in Txs, Settled(t)
      PROVE  status'[t] = status[t] /\ flow'[t] = flow[t] /\ feeAmount'[t] = feeAmount[t]
  <2>1. CASE Quiet
    BY <2>1, QuietSteps
  <2>2. ASSUME NEW s \in Txs, Create(s) \/ StoreReference(s) \/ ConfirmPendingPayment(s)
        PROVE  status'[t] = status[t] /\ flow'[t] = flow[t] /\ feeAmount'[t] = feeAmount[t]
    BY <1>1, <2>2, RequestSteps
  <2>3. ASSUME NEW k \in tasks, CompletesSome(k)
        PROVE  status'[t] = status[t] /\ flow'[t] = flow[t] /\ feeAmount'[t] = feeAmount[t]
    BY <1>1, <2>3, CompletionSteps
  <2> QED
    BY <1>1, <2>1, <2>2, <2>3, Steps
<1>2. Inv /\ [Next]_vars =>
        [\A t \in Txs : Settled(t) => status'[t] = status[t] /\ flow'[t] = flow[t]
                                      /\ feeAmount'[t] = feeAmount[t]]_vars
  BY <1>1
<1> QED
  BY <1>2, InvHolds, PTL DEF Spec, SettledStays

-----------------------------------------------------------------------------
(* The abstract promise *)

Applied == {t \in Txs : order[t].type # "REQUEST" /\ Settled(t)}

LEMMA InitRefines == Init => External!Init
<1> SUFFICES ASSUME Init PROVE External!Init
  OBVIOUS
<1>1. \A t \in Txs : ~Settled(t)
  BY DEF Init, Settled
<1> QED
  BY <1>1 DEF Init, External!Init

LEMMA QuietRefines ==
  ASSUME order' = order, \A t \in Txs : order[t].type # "REQUEST" => Settled(t)' = Settled(t)
  PROVE  Applied' = Applied
BY DEF Applied

LEMMA NextRefines == Inv /\ [Next]_vars => [External!Next]_External!vars
<1> SUFFICES ASSUME Inv, [Next]_vars PROVE [External!Next]_External!vars
  OBVIOUS
<1>0. TypeOK
  BY DEF Inv
<1>1. CASE Quiet
  <2>1. order' = order /\ status' = status /\ flow' = flow
    BY <1>1, QuietSteps
  <2>2. Applied' = Applied
    BY <2>1 DEF Applied, Settled
  <2>3. ASSUME NEW t \in Txs, Accepted(t) PROVE External!Ask(t)
    <3>1. ProgressOK(t) /\ FlowOK(t)
      BY DEF Inv
    <3>2. hub[t] = "NONE" /\ caller[t] = "created" /\ ~providerRef[t] /\ status[t] # "NONE"
      BY <1>0, <2>3, <3>1 DEF Accepted, ProgressOK, Undecided, Stored
    <3>3. order[t].type = "WITHDRAWAL" =>
            status[t] \notin {"NONE", "SUCCESS", "FAILED"} /\ feeAmount[t] = order[t].ourFee
      BY <1>0, <3>1, <3>2 DEF ProgressOK, Undecided, TypeOK, Statuses, Stored
    <3>4. order[t].type = "WITHDRAWAL" => flow[t] = 0 - External!Held(t)
      BY <3>1, <3>3 DEF FlowOK, External!Held
    <3> QED
      BY <2>1, <2>2, <2>3, <3>2, <3>4 DEF External!Ask, Accepted, Applied
  <2>4. ASSUME NEW t \in Txs, Decide(t) PROVE External!Decide(t)
    BY <2>1, <2>2, <2>4 DEF External!Decide, Decide, Decisions, External!Decisions, Applied
  <2>5. hub' = hub \/ \E t \in Txs : Accepted(t) \/ Decide(t)
    BY <1>1 DEF Quiet, Refused, StoreAttempt, Die, SendWebhook, WindowPasses,
                RefreshFromProvider, LoseWebhook, ReceiveUnmatched, ReceiveWebhook,
                CompleteNothing, LoseTask, RetryTask, BecomeOld, vars
  <2>6. CASE hub' = hub
    BY <2>1, <2>2, <2>6 DEF External!vars, Applied
  <2> QED
    BY <2>3, <2>4, <2>5, <2>6 DEF External!Next
<1>2. ASSUME NEW t \in Txs, Create(t) \/ StoreReference(t) \/ ConfirmPendingPayment(t)
      PROVE  [External!Next]_External!vars
  <2>1. order' = order /\ hub' = hub
    BY <1>2 DEF Create, StoreReference, ConfirmPendingPayment, channel, losses
  <2>2. \A s \in Txs : order[s].type # "REQUEST" => Settled(s)' = Settled(s)
    BY <1>2, <2>1, RequestSteps DEF Settled
  <2>3. Applied' = Applied
    BY <2>1, <2>2, QuietRefines
  <2>4. CASE flow' = flow
    BY <2>1, <2>3, <2>4 DEF External!vars, Applied
  <2>5. CASE flow' # flow
    <3>1. Create(t) /\ order[t].type = "WITHDRAWAL"
      BY <1>2, <2>5 DEF Create, StoreReference, ConfirmPendingPayment, money
    <3>2. ProgressOK(t)
      BY DEF Inv
    <3>3. hub[t] = "NONE" /\ flow[t] = 0
      BY <3>1, <3>2 DEF Create, ProgressOK, Undecided
    <3>4. flow' = [flow EXCEPT ![t] = 0 - External!Held(t)]
      BY <3>1 DEF Create, Held, External!Held
    <3>5. External!Hold(t)
      BY <2>1, <2>3, <3>1, <3>3, <3>4 DEF External!Hold, Applied
    <3> QED
      BY <3>5 DEF External!Next
  <2> QED
    BY <2>4, <2>5
<1>3. ASSUME NEW k \in tasks, CompletesSome(k) PROVE External!Apply(k.tx) /\ k.tx \in Txs
  <2>1. k.tx \in Txs /\ k.tx \notin Applied /\ order' = order /\ hub' = hub
        /\ hub[k.tx] \in External!Decisions
    BY <1>3, CompletionSteps DEF Applied, TaskOK, Decisions, External!Decisions
  <2>2. Applied' = Applied \cup {k.tx}
    BY <1>3, CompletionSteps DEF Applied, Settled
  <2>3. flow' = [flow EXCEPT ![k.tx] = flow'[k.tx]]
    BY <1>3, CompletionSteps
  <2>4. CASE hub[k.tx] # "SUCCESS"
    BY <1>3, <2>1, <2>2, <2>3, <2>4, CompletionSteps DEF External!Apply, Applied
  <2>5. CASE hub[k.tx] = "SUCCESS"
    BY <1>3, <2>1, <2>2, <2>3, <2>5, CompletionSteps DEF External!Apply, Applied
  <2> QED
    BY <2>1, <2>4, <2>5
<1> QED
  BY <1>1, <1>2, <1>3, Steps DEF External!Next

(* Through every interleaving, crash, loss and repetition, what HUB2       *)
(* decides is applied to the wallet once and only after it is decided.     *)
THEOREM ImplementsExternalMoney == Spec => ExternalSpec
<1>1. Inv /\ [Next]_vars => [External!Next]_External!vars
  BY NextRefines
<1> QED
  BY <1>1, InitRefines, InvHolds, PTL DEF Spec, ExternalSpec, External!Spec

-----------------------------------------------------------------------------
(* Sums over finite sets *)

(* The element a fold over T starts with. *)
Some(T) == CHOOSE x \in T : TRUE

(* g sums f over every subset of S, taking out one element after another   *)
(* in the order MapThenSumSet does.                                        *)
Sums(g, f, S) ==
  g = [T \in SUBSET S |-> IF T = {} THEN 0 ELSE f[Some(T)] + g[T \ {Some(T)}]]

(* MapThenSumSet is such a sum. *)
LEMMA Unfold ==
  ASSUME NEW S, NEW f
  PROVE Total(f, S) = (CHOOSE g : Sums(g, f, S))[S]
BY DEF Total, MapThenSumSet, MapThenFoldSet, Sums, Some

(* A non-empty family of subsets of S has a member that includes no other: *)
(* the induction on finite sets that the library's theorems do not give.   *)
LEMMA LeastSubset ==
  ASSUME NEW S, IsFiniteSet(S), NEW B \in SUBSET SUBSET S, B # {}
  PROVE  \E T \in B : \A U \in B : ~(U \subseteq T /\ U # T)
<1>1. B \subseteq FiniteSubsetsOf(S)
  BY FS_Subset DEF FiniteSubsetsOf
<1>2. \E T \in B : \A U \in B : ~(<<U, T>> \in StrictSubsetOrdering(S))
  BY <1>1, WFMin, FS_StrictSubsetOrderingWellFounded
<1> QED
  BY <1>2 DEF StrictSubsetOrdering

(* g does so over the family D, closed under taking out the chosen element. *)
SumsOn(g, f, D) ==
  /\ g \in [D -> Int]
  /\ \A T \in D : g[T] = IF T = {} THEN 0 ELSE f[Some(T)] + g[T \ {Some(T)}]

(* A non-empty set of numbers has a least one. *)
LEMMA LeastNat ==
  ASSUME NEW B \in SUBSET Nat, B # {}
  PROVE  \E n \in B : \A m \in B : ~(m < n)
<1>1. \E n \in B : \A m \in B : ~(<<m, n>> \in OpToRel(<, Nat))
  BY WFMin, NatLessThanWellFounded
<1> QED
  BY <1>1 DEF OpToRel

(* The subsets of S of at most n elements. *)
Small(n, S) == {T \in SUBSET S : Cardinality(T) <= n}

(* There is such a sum: over the subsets of size n it is made from the one *)
(* over those of size n - 1.                                               *)
LEMMA SumExists ==
  ASSUME NEW S, IsFiniteSet(S), NEW f \in [S -> Int]
  PROVE  \E g : SumsOn(g, f, SUBSET S)
<1> DEFINE Bad == {n \in Nat : ~ \E g : SumsOn(g, f, Small(n, S))}
<1>1. \A T \in SUBSET S : /\ Cardinality(T) \in Nat /\ Cardinality(T) <= Cardinality(S)
                          /\ Cardinality(T) = 0 <=> T = {}
  BY FS_Subset, FS_CardinalityType, FS_EmptySet
<1>2. \A T \in SUBSET S : T # {} => /\ Some(T) \in T
                                    /\ T \ {Some(T)} \in SUBSET S
                                    /\ Cardinality(T \ {Some(T)}) = Cardinality(T) - 1
  BY FS_Subset, FS_RemoveElement DEF Some
<1>3. Bad = {}
  <2> SUFFICES ASSUME Bad # {} PROVE FALSE
    OBVIOUS
  <2>1. PICK n \in Bad : \A m \in Bad : ~(m < n)
    BY LeastNat
  <2>2. CASE n = 0
    <3> DEFINE g == [T \in Small(0, S) |-> 0]
    <3>1. \A T \in Small(0, S) : T = {}
      BY <1>1 DEF Small
    <3>2. SumsOn(g, f, Small(0, S))
      BY <3>1 DEF SumsOn
    <3> QED
      BY <2>1, <2>2, <3>2
  <2>3. CASE n # 0
    <3>1. n - 1 \in Nat /\ n - 1 \notin Bad
      BY <2>1, <2>3
    <3>2. PICK g : SumsOn(g, f, Small(n - 1, S))
      BY <3>1
    <3> DEFINE h == [T \in Small(n, S) |-> IF T = {} THEN 0 ELSE f[Some(T)] + g[T \ {Some(T)}]]
    <3>3. ASSUME NEW T \in Small(n, S), T # {}
          PROVE  T \ {Some(T)} \in Small(n, S) /\ T \ {Some(T)} \in Small(n - 1, S) /\ Some(T) \in S
      BY <1>1, <1>2, <3>1, <3>3 DEF Small
    <3>4. ASSUME NEW T \in Small(n - 1, S) PROVE T \in Small(n, S) /\ h[T] = g[T]
      BY <1>1, <3>1, <3>2, <3>4 DEF Small, SumsOn
    <3>5. h \in [Small(n, S) -> Int]
      BY <3>2, <3>3 DEF SumsOn
    <3>6. SumsOn(h, f, Small(n, S))
      BY <3>3, <3>4, <3>5 DEF SumsOn
    <3> QED
      BY <2>1, <3>6
  <2> QED
    BY <2>2, <2>3
<1>4. Small(Cardinality(S), S) = SUBSET S
  BY <1>1 DEF Small
<1>5. Cardinality(S) \in Nat /\ Cardinality(S) \notin Bad
  BY <1>3, FS_CardinalityType
<1>6. \E g : SumsOn(g, f, Small(Cardinality(S), S))
  BY <1>5
<1> QED
  BY <1>4, <1>6

(* And only one: a smallest subset where two differ does not exist. *)
LEMMA TotalIs ==
  ASSUME NEW S, IsFiniteSet(S), NEW f \in [S -> Int]
  PROVE  \E g : SumsOn(g, f, SUBSET S) /\ Total(f, S) = g[S]
<1> DEFINE g == CHOOSE h : Sums(h, f, S)
<1>1. PICK h : SumsOn(h, f, SUBSET S)
  BY SumExists
<1>2. Sums(h, f, S)
  BY <1>1 DEF Sums, SumsOn
<1>3. Sums(g, f, S)
  BY <1>2
<1>4. ASSUME NEW k, Sums(k, f, S), k # h PROVE FALSE
  <2> DEFINE B == {T \in SUBSET S : k[T] # h[T]}
  <2>1. B # {}
    BY <1>1, <1>4 DEF Sums, SumsOn
  <2>2. B \in SUBSET SUBSET S
    OBVIOUS
  <2>. HIDE DEF B
  <2>3. PICK T \in B : \A U \in B : ~(U \subseteq T /\ U # T)
    BY <2>1, <2>2, LeastSubset
  <2>. USE DEF B
  <2>4. T # {} => Some(T) \in T
    BY DEF Some
  <2>5. T # {} => k[T \ {Some(T)}] = h[T \ {Some(T)}]
    BY <2>3, <2>4
  <2>6. k[T] = h[T]
    BY <1>2, <1>4, <2>3, <2>5 DEF Sums
  <2> QED
    BY <2>3, <2>6
<1>5. g = h
  BY <1>3, <1>4
<1> QED
  BY <1>1, <1>5, Unfold

LEMMA TotalType ==
  ASSUME NEW S, IsFiniteSet(S), NEW f \in [S -> Int]
  PROVE  Total(f, S) \in Int
<1>1. PICK g : SumsOn(g, f, SUBSET S) /\ Total(f, S) = g[S]
  BY TotalIs
<1> QED
  BY <1>1 DEF SumsOn

(* A total moves by what one of its terms moves. *)
LEMMA TotalMoves ==
  ASSUME NEW S, IsFiniteSet(S), NEW f \in [S -> Int], NEW e \in [S -> Int],
         NEW x \in S, NEW d \in Int,
         e[x] = f[x] + d, \A y \in S \ {x} : e[y] = f[y]
  PROVE  Total(e, S) = Total(f, S) + d
<1>1. PICK g : SumsOn(g, f, SUBSET S) /\ Total(f, S) = g[S]
  BY TotalIs
<1>2. PICK h : SumsOn(h, e, SUBSET S) /\ Total(e, S) = h[S]
  BY TotalIs
<1> DEFINE B == {T \in SUBSET S : h[T] # IF x \in T THEN g[T] + d ELSE g[T]}
<1>3. ASSUME B # {} PROVE FALSE
  <2>0. B \in SUBSET SUBSET S
    OBVIOUS
  <2>. HIDE DEF B
  <2>1. PICK T \in B : \A U \in B : ~(U \subseteq T /\ U # T)
    BY <1>3, <2>0, LeastSubset
  <2>. USE DEF B
  <2>2. CASE T = {}
    BY <1>1, <1>2, <2>1, <2>2 DEF SumsOn
  <2>3. CASE T # {}
    <3>1. Some(T) \in T
      BY <2>3 DEF Some
    <3> DEFINE U == T \ {Some(T)}
    <3>2. U \in SUBSET S /\ U \notin B
      BY <2>1, <3>1
    <3>3. h[U] = IF x \in U THEN g[U] + d ELSE g[U]
      BY <3>2
    <3>4. h[T] = e[Some(T)] + h[U] /\ g[T] = f[Some(T)] + g[U] /\ g[U] \in Int /\ f[Some(T)] \in Int
      BY <1>1, <1>2, <2>1, <2>3, <3>1, <3>2 DEF SumsOn
    <3>5. e[Some(T)] = IF Some(T) = x THEN f[x] + d ELSE f[Some(T)]
      BY <2>1, <3>1
    <3>6. h[T] = IF x \in T THEN g[T] + d ELSE g[T]
      BY <3>1, <3>3, <3>4, <3>5
    <3> QED
      BY <2>1, <3>6
  <2> QED
    BY <2>2, <2>3
<1> QED
  BY <1>1, <1>2, <1>3

LEMMA TotalSet ==
  ASSUME NEW S, IsFiniteSet(S), NEW f \in [S -> Int], NEW x \in S, NEW v \in Int
  PROVE  Total([f EXCEPT ![x] = v], S) = Total(f, S) + (v - f[x])
<1> DEFINE e == [f EXCEPT ![x] = v]
<1>1. /\ v - f[x] \in Int /\ e \in [S -> Int] /\ e[x] = f[x] + (v - f[x])
      /\ \A y \in S \ {x} : e[y] = f[y]
  OBVIOUS
<1> HIDE DEF e
<1>2. Total(e, S) = Total(f, S) + (v - f[x])
  BY <1>1, TotalMoves
<1> QED
  BY <1>2 DEF e

(* A total of zeros. *)
LEMMA TotalZero ==
  ASSUME NEW S, IsFiniteSet(S), NEW f \in [S -> Int], \A x \in S : f[x] = 0
  PROVE  Total(f, S) = 0
<1>1. PICK g : SumsOn(g, f, SUBSET S) /\ Total(f, S) = g[S]
  BY TotalIs
<1> DEFINE B == {T \in SUBSET S : g[T] # 0}
<1>2. ASSUME B # {} PROVE FALSE
  <2>0. B \in SUBSET SUBSET S
    OBVIOUS
  <2>. HIDE DEF B
  <2>1. PICK T \in B : \A U \in B : ~(U \subseteq T /\ U # T)
    BY <1>2, <2>0, LeastSubset
  <2>. USE DEF B
  <2>2. T # {} /\ Some(T) \in T
    BY <1>1, <2>1 DEF SumsOn, Some
  <2>3. g[T \ {Some(T)}] = 0
    BY <2>1, <2>2
  <2>4. g[T] = 0
    BY <1>1, <2>1, <2>2, <2>3 DEF SumsOn
  <2> QED
    BY <2>1, <2>4
<1> QED
  BY <1>1, <1>2

(* What one term loses and another gains leaves a total as it is.          *)
LEMMA TotalStays ==
  ASSUME NEW S, IsFiniteSet(S), NEW f \in [S -> Int], NEW e \in [S -> Int],
         NEW x \in S, NEW y \in S, x # y, NEW d \in Int,
         e[x] = f[x] - d, e[y] = f[y] + d, \A z \in S \ {x, y} : e[z] = f[z]
  PROVE  Total(e, S) = Total(f, S)
<1> DEFINE g == [f EXCEPT ![x] = f[x] - d]
<1>1. /\ g \in [S -> Int] /\ g[x] = f[x] + (0 - d)
      /\ \A z \in S \ {x} : g[z] = f[z]
  OBVIOUS
<1> HIDE DEF g
<1>2. 0 - d \in Int
  OBVIOUS
<1>3. Total(g, S) = Total(f, S) + (0 - d)
  BY <1>1, <1>2, TotalMoves
<1>4. e[y] = g[y] + d /\ \A z \in S \ {y} : e[z] = g[z]
  BY <1>1
<1>5. Total(e, S) = Total(g, S) + d
  BY <1>1, <1>4, TotalMoves
<1> QED
  BY <1>3, <1>5, TotalType

-----------------------------------------------------------------------------
(* Conservation *)

LEMMA NatToInt ==
  ASSUME NEW S, NEW f \in [S -> Nat]
  PROVE  f \in [S -> Int]
OBVIOUS

(* An entry of transaction t on wallet w adds the same to both sides.      *)
LEMMA Posting ==
  ASSUME TypeOK, MoneyIsConserved,
         NEW w \in Wallets, NEW t \in Txs, NEW b \in Int, NEW v \in Int,
         balance' = [balance EXCEPT ![w] = b],
         flow' = [flow EXCEPT ![t] = v],
         b - balance[w] = v - flow[t]
  PROVE  MoneyIsConserved'
<1>1. /\ balance \in [Wallets -> Int] /\ flow \in [Txs -> Int] /\ Opening \in [Wallets -> Int]
  BY SettlementAssumption, NatToInt DEF TypeOK
<1>2. balance[w] \in Int /\ flow[t] \in Int
  BY <1>1
<1>3. Total(balance', Wallets) = Total(balance, Wallets) + (b - balance[w])
  BY <1>1, FiniteRows, TotalSet, Zenon
<1>4. Total(flow', Txs) = Total(flow, Txs) + (v - flow[t])
  BY <1>1, FiniteRows, TotalSet, Zenon
<1>5. /\ Total(Opening, Wallets) \in Int /\ Total(flow, Txs) \in Int
      /\ Total(balance, Wallets) = Total(Opening, Wallets) + Total(flow, Txs)
  BY <1>1, FiniteRows, TotalType DEF MoneyIsConserved
<1>6. Total(balance', Wallets) = Total(Opening, Wallets) + Total(flow', Txs)
  BY <1>2, <1>3, <1>4, <1>5
<1> QED
  BY <1>6 DEF MoneyIsConserved

(* A payment request takes from one wallet what it brings another.         *)
LEMMA Confirmation ==
  ASSUME TypeOK, MoneyIsConserved, NEW t \in Txs, ConfirmPendingPayment(t)
  PROVE  MoneyIsConserved'
<1>1. /\ order[t].amount \in Int /\ order[t].payer \in Wallets
      /\ order[t].wallet \in Wallets
  BY OrderFields
<1>2. balance \in [Wallets -> Int]
  BY NatToInt DEF TypeOK
<1>3. Total(balance', Wallets) = Total(balance, Wallets)
  <2>1. CASE order[t].payer = order[t].wallet
    BY <2>1 DEF ConfirmPendingPayment
  <2>2. CASE order[t].payer # order[t].wallet
    <3>1. /\ balance' \in [Wallets -> Int]
          /\ balance'[order[t].payer] = balance[order[t].payer] - order[t].amount
          /\ balance'[order[t].wallet] = balance[order[t].wallet] + order[t].amount
          /\ \A w \in Wallets \ {order[t].payer, order[t].wallet} : balance'[w] = balance[w]
      BY <1>1, <1>2, <2>2 DEF ConfirmPendingPayment
    <3> QED
      BY <1>1, <1>2, <2>2, <3>1, FiniteRows, TotalStays
  <2> QED
    BY <2>1, <2>2
<1>4. Total(balance', Wallets) = Total(Opening, Wallets) + Total(flow', Txs)
  BY <1>3 DEF MoneyIsConserved, ConfirmPendingPayment
<1> QED
  BY <1>4 DEF MoneyIsConserved

LEMMA Completion ==
  ASSUME TypeOK, MoneyIsConserved, NEW k \in tasks, CompletesSome(k)
  PROVE  MoneyIsConserved'
<1>1. /\ k.tx \in Txs /\ k.fee \in Nat /\ order[k.tx].wallet \in Wallets
      /\ order[k.tx].amount \in Nat /\ feeAmount[k.tx] \in Nat
      /\ TopupNet(k) \in Int /\ PaymentNet(k) \in Int
  BY TaskFields, OrderFields, NetBounds DEF TypeOK
<1>2. \E delta \in Int : \E newStatus, fee : Settle(k, newStatus, fee, delta)
  <2>1. CASE CompleteTopup(k)
    BY <1>1, <2>1 DEF CompleteTopup
  <2>2. CASE CompleteWithdrawal(k)
    <3>1. 0 - k.fee \in Int /\ order[k.tx].amount + feeAmount[k.tx] \in Int
      BY <1>1
    <3> QED
      BY <2>2, <3>1 DEF CompleteWithdrawal
  <2>3. CASE CompleteExternalMerchantPayment(k)
    BY <1>1, <2>3 DEF CompleteExternalMerchantPayment
  <2> QED
    BY <2>1, <2>2, <2>3 DEF CompletesSome
<1>3. PICK delta \in Int : /\ balance' = [balance EXCEPT ![order[k.tx].wallet] = @ + delta]
                           /\ flow' = [flow EXCEPT ![k.tx] = @ + delta]
  BY <1>2 DEF Settle
<1>4. /\ balance[order[k.tx].wallet] + delta \in Int /\ flow[k.tx] + delta \in Int
      /\ (balance[order[k.tx].wallet] + delta) - balance[order[k.tx].wallet]
           = (flow[k.tx] + delta) - flow[k.tx]
  BY <1>1 DEF TypeOK
<1> QED
  BY <1>1, <1>3, <1>4, Posting, Zenon

LEMMA NextConserves == Inv /\ MoneyIsConserved /\ [Next]_vars => MoneyIsConserved'
<1> SUFFICES ASSUME Inv, MoneyIsConserved, [Next]_vars PROVE MoneyIsConserved'
  OBVIOUS
<1>1. TypeOK
  BY DEF Inv
<1>2. ASSUME balance' = balance, flow' = flow PROVE MoneyIsConserved'
  BY <1>2 DEF MoneyIsConserved
<1>3. ASSUME NEW t \in Txs, Create(t) PROVE MoneyIsConserved'
  <2>1. CASE order[t].type = "WITHDRAWAL"
    <3>1. order[t].wallet \in Wallets /\ Held(t) \in Nat /\ flow[t] = 0
      BY <1>1, <1>3, OrderFields DEF Held, Inv, ProgressOK, Undecided, Create
    <3>2. /\ balance' = [balance EXCEPT ![order[t].wallet] = @ - Held(t)]
          /\ flow' = [flow EXCEPT ![t] = 0 - Held(t)]
      BY <1>3, <2>1 DEF Create
    <3>3. /\ balance[order[t].wallet] - Held(t) \in Int /\ 0 - Held(t) \in Int
          /\ (balance[order[t].wallet] - Held(t)) - balance[order[t].wallet]
               = (0 - Held(t)) - flow[t]
      BY <1>1, <3>1 DEF TypeOK
    <3> QED
      BY <1>1, <3>1, <3>2, <3>3, Posting, Zenon
  <2>2. CASE order[t].type # "WITHDRAWAL"
    BY <1>2, <1>3, <2>2 DEF Create, money
  <2> QED
    BY <2>1, <2>2
<1>4. ASSUME NEW t \in Txs, StoreReference(t) PROVE MoneyIsConserved'
  BY <1>2, <1>4 DEF StoreReference, money
<1>5. CASE Quiet
  <2>1. balance' = balance
    BY <1>5 DEF Quiet, Accepted, Refused, StoreAttempt, Die, Decide, SendWebhook,
                WindowPasses, RefreshFromProvider, LoseWebhook, ReceiveUnmatched,
                ReceiveWebhook, CompleteNothing, LoseTask, RetryTask, BecomeOld,
                money, vars
  <2> QED
    BY <1>2, <1>5, <2>1, QuietSteps
<1> QED
  BY <1>1, <1>3, <1>4, <1>5, Steps, Confirmation, Completion

(* Withdrawals held and given back, pay-ins, operator fees and payment     *)
(* requests, in any number and order: what the wallets hold is what they   *)
(* held and what the entries add.                                          *)
THEOREM Conservation == Spec => []MoneyIsConserved
<1>1. Init => MoneyIsConserved
  <2> SUFFICES ASSUME Init PROVE Total(balance, Wallets) = Total(Opening, Wallets) + Total(flow, Txs)
    BY DEF MoneyIsConserved
  <2>1. flow \in [Txs -> Int] /\ (\A t \in Txs : flow[t] = 0) /\ balance = Opening
    BY DEF Init
  <2>2. Opening \in [Wallets -> Int]
    BY SettlementAssumption
  <2>3. Total(flow, Txs) = 0 /\ Total(Opening, Wallets) \in Int
    BY <2>1, <2>2, FiniteRows, TotalZero, TotalType
  <2> QED
    BY <2>1, <2>3
<1> QED
  BY <1>1, InvHolds, NextConserves, PTL DEF Spec
=============================================================================
