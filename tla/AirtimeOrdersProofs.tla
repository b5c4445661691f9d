------------------------ MODULE AirtimeOrdersProofs ------------------------
(***************************************************************************)
(* Airtime paid by Mobile Money, for any number of purchases,              *)
(* finalisations and administrators, any prices and any number of faults.  *)
(* Every step concerns one purchase; Purchase(r) says what is known of it, *)
(* without trouble and in spite of it.  From there, step by step, the      *)
(* refinement of PaidDelivery.                                             *)
(***************************************************************************)
EXTENDS AirtimeOrders, TLAPS

(* Task t is a finalisation of r, administrator a is busy with r.          *)
On(t, r) == step[t] # "idle" /\ task[t].of = r
At(a, r) == desk[a] # "idle" /\ refund[a].of = r

(* None of these has happened to r. *)
Without(r, what) == trouble[r] \cap what = {}

(* Before HUB2 is called there is no collection, no final row, no refund.  *)
Begun(r) ==
  /\ pc[r] = "idle" => row[r] = NoRow
  /\ pc[r] \in {"idle", "created"} => hub[r] = "NONE"
  /\ \A a \in Admins : At(a, r) => pc[r] # "idle"

(* What a finalisation has read of HUB2 stays true; only paid purchases    *)
(* are ordered, and a success was one.                                     *)
Informed(r) ==
  \A t \in Tasks : On(t, r) =>
    /\ task[t].paid => hub[r] = "SUCCESS"
    /\ ~task[t].paid => hub[r] = "FAILED"
    /\ step[t] \in {"called", "recorded"} => task[t].paid /\ task[t].answer # "NONE"
    /\ task[t].answer = "SUCCESS" => delivered[r] > 0

(* Without overlap, finalisations of a row come one after the other, and   *)
(* none after the row is final.                                            *)
OneByOne(r) ==
  Without(r, {"overlap"}) =>
    /\ \A t, u \in Tasks : On(t, r) /\ On(u, r) => t = u
    /\ AlreadyFinal(r) => \A t \in Tasks : ~On(t, r)

(* Without loss either, what was delivered is known to the finalisation    *)
(* under way or to the row.                                                *)
Ordered(r) ==
  Without(r, {"overlap", "lost"}) =>
    /\ delivered[r] <= 1
    /\ \A t \in Tasks : On(t, r) /\ step[t] = "read" => delivered[r] = 0
    /\ delivered[r] > 0 => AlreadyFinal(r) \/ \E t \in Tasks : On(t, r)

(* Unless Reloadly delivers late, a failure means that nothing came, and   *)
(* what is refunded is such a failure or was not listed.                   *)
Unserved(r) ==
  Without(r, {"overlap", "lost", "late"}) =>
    /\ \A t \in Tasks : On(t, r) /\ task[t].answer = "FAILED" => delivered[r] = 0
    /\ Pending(r) => delivered[r] = 0
    /\ refunds[r] > 0 \/ (\E a \in Admins : At(a, r)) =>
         Pending(r) \/ "unowed" \in trouble[r]

(* What a row says, in spite of any trouble. *)
Said(r) ==
  /\ delivered[r] > 0 => hub[r] = "SUCCESS"
  /\ row[r].status = "FAILED" /\ ~row[r].owed => hub[r] = "FAILED"
  /\ row[r].owed => hub[r] = "SUCCESS"
  /\ row[r].status = "SUCCESS" => delivered[r] > 0

(* One refund at a time, and none after it is written down.                *)
Booked(r) ==
  Without(r, {"desks", "unmarked"}) =>
    /\ \A a, b \in Admins : At(a, r) /\ At(b, r) => a = b
    /\ \A a \in Admins : At(a, r) /\ desk[a] = "checked" => refunds[r] = 0
    /\ refunds[r] > 0 => row[r].refunded \/ \E a \in Admins : At(a, r)
    /\ refunds[r] <= 1

Purchase(r) ==
  /\ Begun(r) /\ Informed(r) /\ OneByOne(r) /\ Ordered(r) /\ Unserved(r)
  /\ Said(r) /\ Booked(r)

Inv == TypeOK /\ \A r \in Requests : Purchase(r)

-----------------------------------------------------------------------------
LEMMA NotNone ==
  /\ NoTask \notin Task
  /\ NoRefund \notin RefundOf
BY DEF NoTask, Task, NoRefund, RefundOf

(* What TypeOK says of one purchase, one task and one desk.                *)
LEMMA Known ==
  ASSUME TypeOK, NEW r \in Requests
  PROVE  /\ order[r].channel \in {"APP", "LITE"}
         /\ order[r].amount \in Nat \ {0} /\ order[r].ourFee \in Nat
         /\ row[r] \in Row /\ hub[r] \in {"NONE", "PENDING", "SUCCESS", "FAILED"}
         /\ row[r].status \in {"NONE", "PROCESSING", "SUCCESS", "FAILED"}
         /\ row[r].fee \in Nat /\ row[r].owed \in BOOLEAN /\ row[r].refunded \in BOOLEAN
         /\ delivered[r] \in Nat /\ worth[r] \in Nat
         /\ refunds[r] \in Nat /\ early[r] \in Nat /\ repaid[r] \in Nat
         /\ trouble[r] \in SUBSET Troubles
BY AirtimeAssumption DEF TypeOK, Order, Row

LEMMA KnownTask ==
  ASSUME TypeOK, NEW t \in Tasks, step[t] # "idle"
  PROVE  /\ task[t] \in Task
         /\ task[t].of \in Requests /\ task[t].paid \in BOOLEAN
         /\ task[t].fee \in Nat /\ task[t].answer \in {"NONE", "SUCCESS", "FAILED"}
         /\ On(t, task[t].of)
BY DEF TypeOK, Task, On

LEMMA KnownDesk ==
  ASSUME TypeOK, NEW a \in Admins, desk[a] # "idle"
  PROVE  /\ refund[a] \in RefundOf
         /\ refund[a].of \in Requests /\ refund[a].total \in Nat
         /\ At(a, refund[a].of)
BY DEF TypeOK, RefundOf, At

LEMMA FaultLemma == ASSUME TypeOK, Fault PROVE faults' \in 0..MaxFaults
BY AirtimeAssumption DEF TypeOK, Fault

(* Nothing about purchase s changes: its tasks and desks neither.          *)
Same(s) ==
  /\ pc'[s] = pc[s] /\ row'[s] = row[s] /\ hub'[s] = hub[s]
  /\ delivered'[s] = delivered[s] /\ refunds'[s] = refunds[s] /\ trouble'[s] = trouble[s]
  /\ \A t \in Tasks : /\ On(t, s)' <=> On(t, s)
                      /\ On(t, s) => step'[t] = step[t] /\ task'[t] = task[t]
  /\ \A a \in Admins : /\ At(a, s)' <=> At(a, s)
                       /\ At(a, s) => desk'[a] = desk[a] /\ refund'[a] = refund[a]

LEMMA SameLemma ==
  ASSUME NEW s \in Requests, Purchase(s), Same(s)
  PROVE  Purchase(s)'
<1>1. Begun(s)'
  BY DEF Purchase, Begun, Same
<1>2. Informed(s)'
  BY DEF Purchase, Informed, Same
<1>3. OneByOne(s)'
  BY DEF Purchase, OneByOne, Same, Without, AlreadyFinal
<1>4. Ordered(s)'
  BY DEF Purchase, Ordered, Same, Without, AlreadyFinal
<1>5. Unserved(s)'
  BY DEF Purchase, Unserved, Same, Without, Pending
<1>6. Said(s)'
  BY DEF Purchase, Said, Same
<1>7. Booked(s)'
  BY DEF Purchase, Booked, Same, Without
<1> QED
  BY <1>1, <1>2, <1>3, <1>4, <1>5, <1>6, <1>7 DEF Purchase

LEMMA InitInv == Init => Inv
<1> SUFFICES ASSUME Init PROVE Inv
  OBVIOUS
<1>1. TypeOK
  BY AirtimeAssumption DEF Init, TypeOK, Row, NoRow
<1>2. ASSUME NEW r \in Requests PROVE Purchase(r)
  <2>1. /\ pc[r] = "idle" /\ row[r] = NoRow /\ hub[r] = "NONE" /\ delivered[r] = 0
        /\ refunds[r] = 0
        /\ \A t \in Tasks : ~On(t, r)
        /\ \A a \in Admins : ~At(a, r)
    BY <1>2 DEF Init, On, At
  <2>2. row[r].status = "NONE" /\ row[r].owed = FALSE
    BY <2>1 DEF NoRow
  <2> QED
    BY <2>1, <2>2 DEF Purchase, Begun, Informed, OneByOne, Ordered, Unserved, Said, Booked,
                      AlreadyFinal, Pending
<1> QED
  BY <1>1, <1>2 DEF Inv

-----------------------------------------------------------------------------
(* The purchase, HUB2 and time: no finalisation and no desk is concerned.  *)

PurchaseStep(r) ==
  \/ Create(r) \/ Accepted(r) \/ Die(r) \/ StoreReference(r) \/ StoreAttempt(r)
  \/ Decide(r) \/ WindowPasses(r)

LEMMA PurchaseInv == ASSUME Inv, NEW r \in Requests, PurchaseStep(r) PROVE Inv'
<1>1. UNCHANGED <<order, finalisation, goods, desks, returned, trouble>>
  BY DEF PurchaseStep, Create, Accepted, Die, StoreReference, StoreAttempt, Decide,
         WindowPasses, GoTo, purchase
<1>2. UNCHANGED <<order, task, step, delivered, worth, refund, desk, refunds, early, repaid, trouble>>
  BY <1>1 DEF finalisation, goods, desks, returned
<1>3. TypeOK
  BY DEF Inv
<1>4. pc' \in [Requests -> {"idle", "created", "accepted", "referenced", "done", "dead"}]
  <2>1. CASE Decide(r) \/ WindowPasses(r)
    BY <1>3, <2>1 DEF Decide, WindowPasses, purchase, TypeOK
  <2>2. CASE Create(r) \/ Accepted(r) \/ Die(r) \/ StoreReference(r) \/ StoreAttempt(r)
    BY <1>3, <2>2 DEF Create, Accepted, Die, StoreReference, StoreAttempt, GoTo, TypeOK
  <2> QED
    BY <2>1, <2>2 DEF PurchaseStep
<1>5. row' \in [Requests -> Row]
  <2>1. row[r] \in Row /\ LiteFee \in Nat
    BY <1>3, AirtimeAssumption DEF TypeOK
  <2>2. CASE Create(r)
    BY <1>3, <2>1, <2>2 DEF Create, TypeOK, Row
  <2>3. CASE StoreReference(r)
    <3> DEFINE fee == IF order[r].channel = "LITE" THEN LiteFee ELSE row[r].fee
    <3>1. row' = [row EXCEPT ![r] = [row[r] EXCEPT !.ref = TRUE, !.fee = fee]]
      BY <1>3, <2>3 DEF StoreReference, TypeOK
    <3>2. fee \in Nat
      BY <2>1 DEF Row
    <3> HIDE DEF fee
    <3>3. [row[r] EXCEPT !.ref = TRUE, !.fee = fee] \in Row
      BY <2>1, <3>2 DEF Row
    <3> QED
      BY <1>3, <3>1, <3>3 DEF TypeOK
  <2>4. CASE StoreAttempt(r)
    BY <1>3, <2>1, <2>4 DEF StoreAttempt, TypeOK, Row
  <2>5. CASE Accepted(r) \/ Die(r) \/ Decide(r) \/ WindowPasses(r)
    BY <1>3, <2>5 DEF Accepted, Die, Decide, WindowPasses, TypeOK
  <2> QED
    BY <2>2, <2>3, <2>4, <2>5 DEF PurchaseStep
<1>6. /\ hub' \in [Requests -> {"NONE", "PENDING", "SUCCESS", "FAILED"}]
      /\ heard' \in [Requests -> BOOLEAN]
  <2>1. CASE Accepted(r)
    BY <1>3, <2>1 DEF Accepted, TypeOK
  <2>3. CASE Decide(r)
    BY <1>3, <2>3 DEF Decide, TypeOK
  <2>4. CASE WindowPasses(r)
    BY <1>3, <2>4 DEF WindowPasses, TypeOK
  <2>2. CASE Create(r) \/ Die(r) \/ StoreReference(r) \/ StoreAttempt(r)
    BY <1>3, <2>2 DEF Create, Die, StoreReference, StoreAttempt, TypeOK
  <2> QED
    BY <2>1, <2>2, <2>3, <2>4 DEF PurchaseStep
<1>10. faults' \in 0..MaxFaults
  <2>1. faults' = faults \/ Fault
    BY DEF PurchaseStep, Create, Accepted, Die, StoreReference, StoreAttempt, Decide, WindowPasses
  <2> QED
    BY <1>3, <2>1, FaultLemma DEF TypeOK
<1>7. TypeOK'
  BY <1>2, <1>3, <1>4, <1>5, <1>6, <1>10 DEF TypeOK
<1>8. ASSUME NEW s \in Requests \ {r} PROVE Purchase(s)'
  <2>1. pc'[s] = pc[s] /\ row'[s] = row[s] /\ hub'[s] = hub[s]
    BY <1>3 DEF PurchaseStep, Create, Accepted, Die, StoreReference, StoreAttempt, Decide,
         WindowPasses, GoTo, purchase, TypeOK
  <2>2. Same(s)
    BY <1>2, <2>1 DEF Same, On, At
  <2> QED
    BY <2>2, SameLemma DEF Inv
<1>9. Purchase(r)'
  <2>1. /\ row'[r].owed = row[r].owed /\ row'[r].refunded = row[r].refunded
        /\ row'[r].status = row[r].status \/ (row[r] = NoRow /\ row'[r].status = "PROCESSING")
    BY <1>3 DEF PurchaseStep, Create, Accepted, Die, StoreReference, StoreAttempt, Decide,
         WindowPasses, TypeOK, Row, Inv, Purchase, Begun
  <2>2. AlreadyFinal(r)' <=> AlreadyFinal(r)
    BY <2>1 DEF AlreadyFinal, NoRow
  <2>3. Pending(r)' <=> Pending(r)
    BY <2>1 DEF Pending, NoRow
  <2>4. hub'[r] = hub[r] \/ hub[r] \in {"NONE", "PENDING"}
    BY <1>3 DEF PurchaseStep, Create, Accepted, Die, StoreReference, StoreAttempt, Decide,
         WindowPasses, TypeOK, Inv, Purchase, Begun
  <2>6. \A t \in Tasks : On(t, r)' <=> On(t, r)
    BY <1>2 DEF On
  <2>7. \A a \in Admins : At(a, r)' <=> At(a, r)
    BY <1>2 DEF At
  <2>5. Begun(r)'
    BY <1>3, <2>7 DEF PurchaseStep, Create, Accepted, Die, StoreReference, StoreAttempt, Decide,
         WindowPasses, GoTo, purchase, TypeOK, Inv, Purchase, Begun
  <2>8. Purchase(r)
    BY DEF Inv
  <2>9. Informed(r)'
    BY <1>2, <1>3, <2>4, <2>6, <2>8, KnownTask DEF Purchase, Informed
  <2>10. OneByOne(r)' /\ Ordered(r)'
    BY <1>2, <2>2, <2>6, <2>8 DEF Purchase, OneByOne, Ordered, Without
  <2>11. Unserved(r)' /\ Booked(r)'
    BY <1>2, <2>1, <2>3, <2>6, <2>7, <2>8 DEF Purchase, Unserved, Booked, Without
  <2>12. Said(r)'
    BY <1>2, <2>1, <2>4, <2>8 DEF Purchase, Said, NoRow
  <2> QED
    BY <2>5, <2>9, <2>10, <2>11, <2>12 DEF Purchase
<1> QED
  BY <1>7, <1>8, <1>9 DEF Inv

-----------------------------------------------------------------------------
(* Finalisations *)

(* A step of finalisation t, of purchase r, seen from another purchase.    *)
LEMMA OtherPurchase ==
  ASSUME Inv, NEW s \in Requests, NEW t \in Tasks,
         UNCHANGED <<pc, hub, refund, desk, refunds>>,
         row'[s] = row[s], delivered'[s] = delivered[s], trouble'[s] = trouble[s],
         \A u \in Tasks \ {t} : step'[u] = step[u] /\ task'[u] = task[u],
         ~On(t, s), ~On(t, s)'
  PROVE  Purchase(s)'
<1>1. \A u \in Tasks : /\ On(u, s)' <=> On(u, s)
                       /\ On(u, s) => step'[u] = step[u] /\ task'[u] = task[u]
  BY DEF On
<1>2. \A a \in Admins : At(a, s)' <=> At(a, s)
  BY DEF At
<1>3. Same(s)
  BY <1>1, <1>2 DEF Same
<1> QED
  BY <1>3, SameLemma DEF Inv

(* What finalisation t leaves when it ends. *)
LEMMA EndLemma ==
  ASSUME TypeOK, NEW t \in Tasks, End(t)
  PROVE  /\ step' \in [Tasks -> {"idle", "read", "called", "recorded"}]
         /\ task' \in [Tasks -> Task \cup {NoTask}]
         /\ \A u \in Tasks : step'[u] # "idle" <=> task'[u] # NoTask
         /\ step'[t] = "idle"
         /\ \A u \in Tasks \ {t} : step'[u] = step[u] /\ task'[u] = task[u]
         /\ \A r \in Requests : ~On(t, r)'
         /\ \A u \in Tasks, r \in Requests : On(u, r)' => On(u, r) /\ u # t
         /\ \A u \in Tasks \ {t}, r \in Requests : On(u, r) => On(u, r)'
<1>1. /\ step' = [step EXCEPT ![t] = "idle"] /\ task' = [task EXCEPT ![t] = NoTask]
  BY DEF End
<1>2. /\ step' \in [Tasks -> {"idle", "read", "called", "recorded"}]
      /\ task' \in [Tasks -> Task \cup {NoTask}]
      /\ step'[t] = "idle" /\ task'[t] = NoTask
      /\ \A u \in Tasks \ {t} : step'[u] = step[u] /\ task'[u] = task[u]
  BY <1>1 DEF TypeOK
<1>3. \A u \in Tasks : step'[u] # "idle" <=> task'[u] # NoTask
  BY <1>2 DEF TypeOK
<1> QED
  BY <1>2, <1>3 DEF On

LEMMA StartStep ==
  ASSUME Inv, NEW t \in Tasks, NEW r \in Requests, NEW fee \in Nat, Start(t, r, fee),
         heard' \in [Requests -> BOOLEAN]
  PROVE  Inv'
<1> DEFINE begun == [of |-> r, paid |-> hub[r] = "SUCCESS", fee |-> fee, answer |-> "NONE"]
           noted == IF Running(r) = {} THEN {} ELSE {"overlap"}
<1>1. /\ UNCHANGED <<order, pc, row, hub, delivered, worth, refund, desk, refunds, early, repaid, faults>>
      /\ step[t] = "idle" /\ hub[r] \in {"SUCCESS", "FAILED"} /\ ~AlreadyFinal(r)
      /\ step' = [step EXCEPT ![t] = "read"] /\ task' = [task EXCEPT ![t] = begun]
      /\ trouble' = [trouble EXCEPT ![r] = @ \cup noted]
  BY DEF Start, purchase, goods, desks, returned, Decided, Note
<1>2. TypeOK /\ Purchase(r)
  BY DEF Inv
<1>3. begun \in Task
  BY DEF Task
<1>4. /\ task'[t] = begun /\ step'[t] = "read"
      /\ \A u \in Tasks \ {t} : step'[u] = step[u] /\ task'[u] = task[u]
      /\ trouble'[r] = trouble[r] \cup noted
      /\ \A s \in Requests \ {r} : trouble'[s] = trouble[s]
  BY <1>1, <1>2 DEF TypeOK
<1>5. TypeOK'
  <2>1. /\ step' \in [Tasks -> {"idle", "read", "called", "recorded"}]
        /\ task' \in [Tasks -> Task \cup {NoTask}]
    BY <1>1, <1>2, <1>3 DEF TypeOK
  <2>2. \A u \in Tasks : step'[u] # "idle" <=> task'[u] # NoTask
    BY <1>2, <1>3, <1>4, NotNone DEF TypeOK
  <2>3. trouble' \in [Requests -> SUBSET Troubles]
    BY <1>1, <1>2 DEF TypeOK, Troubles
  <2> QED
    BY <1>1, <1>2, <2>1, <2>2, <2>3 DEF TypeOK
<1>6. ASSUME NEW s \in Requests \ {r} PROVE Purchase(s)'
  <2>1. ~On(t, s) /\ ~On(t, s)'
    BY <1>1, <1>4 DEF On
  <2> QED
    BY <1>1, <1>4, <2>1, OtherPurchase
<1>7. Purchase(r)'
  <2>1. On(t, r)' /\ ~On(t, r) /\ \A u \in Tasks \ {t} : On(u, r)' <=> On(u, r)
    BY <1>1, <1>4 DEF On
  <2>2. \A a \in Admins : At(a, r)' <=> At(a, r)
    BY <1>1 DEF At
  <2>3. Without(r, {"overlap"})' => Without(r, {"overlap"}) /\ \A u \in Tasks : ~On(u, r)
    BY <1>4 DEF Without, Running, On
  <2>4. /\ Without(r, {"overlap", "lost"})' =>
             Without(r, {"overlap", "lost"}) /\ Without(r, {"overlap"})'
        /\ Without(r, {"overlap", "lost", "late"})' =>
             Without(r, {"overlap", "lost", "late"}) /\ Without(r, {"overlap", "lost"})'
        /\ Without(r, {"desks", "unmarked"})' => Without(r, {"desks", "unmarked"})
    BY <1>4 DEF Without
  <2>5. /\ AlreadyFinal(r)' <=> AlreadyFinal(r)
        /\ Pending(r)' <=> Pending(r)
    BY <1>1 DEF AlreadyFinal, Pending
  <2>6. Begun(r)' /\ Said(r)'
    BY <1>1, <1>2, <2>2 DEF Purchase, Begun, Said
  <2>7. Informed(r)'
    <3>1. task'[t].paid = (hub[r] = "SUCCESS")
      BY <1>4
    <3>2. task'[t].answer = "NONE"
      BY <1>4
    <3>3. /\ task'[t].paid => hub[r] = "SUCCESS"
          /\ ~task'[t].paid => hub[r] = "FAILED"
      BY <1>1, <3>1
    <3> SUFFICES ASSUME NEW u \in Tasks, On(u, r)'
                 PROVE  /\ task'[u].paid => hub[r] = "SUCCESS"
                        /\ ~task'[u].paid => hub[r] = "FAILED"
                        /\ step'[u] \in {"called", "recorded"} =>
                             task'[u].paid /\ task'[u].answer # "NONE"
                        /\ task'[u].answer = "SUCCESS" => delivered[r] > 0
      BY <1>1 DEF Informed
    <3>4. CASE u = t
      BY <1>4, <3>2, <3>3, <3>4
    <3>5. CASE u # t
      <4>1. On(u, r) /\ task'[u] = task[u] /\ step'[u] = step[u]
        BY <1>4, <2>1, <3>5
      <4> QED
        BY <1>2, <4>1 DEF Purchase, Informed
    <3> QED
      BY <3>4, <3>5
  <2>8. OneByOne(r)'
    BY <1>1, <2>1, <2>3, <2>5 DEF OneByOne
  <2>9. Ordered(r)'
    BY <1>1, <1>2, <1>4, <2>1, <2>3, <2>4, <2>5, Known DEF Purchase, Ordered
  <2>10. Unserved(r)'
    BY <1>1, <1>2, <1>4, <2>1, <2>2, <2>3, <2>4, <2>5 DEF Purchase, Unserved
  <2>11. Booked(r)'
    BY <1>1, <1>2, <2>2, <2>4 DEF Purchase, Booked
  <2> QED
    BY <2>6, <2>7, <2>8, <2>9, <2>10, <2>11 DEF Purchase
<1> QED
  BY <1>5, <1>6, <1>7 DEF Inv

LEMMA AmountLemma ==
  ASSUME TypeOK, NEW t \in Tasks, step[t] # "idle"
  PROVE  PurchaseAmount(t) \in Nat /\ TotalFee(t) \in Nat
<1>1. TotalFee(t) \in Nat /\ order[task[t].of].amount \in Nat
  BY KnownTask, Known DEF TotalFee
<1> QED
  BY <1>1 DEF PurchaseAmount

(* Reloadly delivers n times. *)
LEMMA ServedLemma ==
  ASSUME TypeOK, NEW r \in Requests, NEW n \in {0, 1}, NEW amount \in Nat,
         Served(r, n, amount)
  PROVE  /\ delivered' \in [Requests -> Nat] /\ worth' \in [Requests -> Nat]
         /\ delivered'[r] = delivered[r] + n
         /\ \A s \in Requests \ {r} : delivered'[s] = delivered[s]
<1>1. n * amount \in Nat
  <2>1. CASE n = 0
    BY <2>1
  <2>2. CASE n = 1
    BY <2>2
  <2> QED
    BY <2>1, <2>2
<1> DEFINE more == n * amount
<1>2. worth' = [worth EXCEPT ![r] = @ + more] /\ more \in Nat
  BY <1>1 DEF Served
<1> HIDE DEF more
<1>3. worth' \in [Requests -> Nat]
  BY <1>2 DEF TypeOK
<1> QED
  BY <1>3 DEF Served, TypeOK

(* A finalisation t of r that ends and leaves row[r] as after: what is     *)
(* left to show of r itself.                                               *)
LEMMA EndStep ==
  ASSUME Inv, NEW t \in Tasks, NEW r \in Requests, On(t, r), End(t),
         UNCHANGED <<order, pc, hub, heard, refund, desk, refunds, early, repaid>>,
         row' \in [Requests -> Row],
         delivered' \in [Requests -> Nat], worth' \in [Requests -> Nat],
         trouble' \in [Requests -> SUBSET Troubles], faults' \in 0..MaxFaults,
         \A s \in Requests \ {r} :
           row'[s] = row[s] /\ delivered'[s] = delivered[s] /\ trouble'[s] = trouble[s],
         Purchase(r)'
  PROVE  Inv'
<1>1. TypeOK
  BY DEF Inv
<1>2. TypeOK'
  BY <1>1, EndLemma DEF TypeOK
<1>3. ASSUME NEW s \in Requests \ {r} PROVE Purchase(s)'
  <2>1. ~On(t, s) /\ ~On(t, s)'
    BY <1>1, EndLemma DEF On
  <2>2. \A u \in Tasks \ {t} : step'[u] = step[u] /\ task'[u] = task[u]
    BY <1>1, EndLemma
  <2> QED
    BY <2>1, <2>2, OtherPurchase
<1> QED
  BY <1>2, <1>3 DEF Inv

(* The payer has not paid: the collection failed, so nothing was ordered.  *)
LEMMA DeclineStep ==
  ASSUME Inv, NEW t \in Tasks, NEW r \in Requests, On(t, r), Decline(t)
  PROVE  Inv'
<1>1. /\ UNCHANGED <<order, pc, hub, heard, delivered, worth, refund, desk, refunds, early, repaid,
                     trouble, faults>>
      /\ step[t] = "read" /\ ~task[t].paid /\ End(t)
      /\ row' = [row EXCEPT ![r].status = "FAILED", ![r].owed = FALSE]
  BY DEF Decline, On, Unpaid, purchase, goods, desks, returned
<1>2. TypeOK /\ Purchase(r) /\ row[r] \in Row
  BY Known DEF Inv
<1>3. row' \in [Requests -> Row]
  BY <1>1, <1>2 DEF TypeOK, Row
<1>4. /\ row'[r].status = "FAILED" /\ row'[r].owed = FALSE
      /\ row'[r].refunded = row[r].refunded
      /\ \A s \in Requests \ {r} : row'[s] = row[s]
  BY <1>1, <1>2 DEF TypeOK, Row
<1>5. hub[r] = "FAILED"
  BY <1>1, <1>2 DEF Purchase, Informed
<1>6. delivered[r] = 0
  BY <1>2, <1>5, Known DEF Purchase, Said
<1>7. /\ \A u \in Tasks : On(u, r)' => On(u, r) /\ u # t /\ step'[u] = step[u] /\ task'[u] = task[u]
  BY <1>1, <1>2, EndLemma
<1>8. \A a \in Admins : At(a, r)' <=> At(a, r)
  BY <1>1 DEF At
<1>9. Purchase(r)'
  <2>1. Begun(r)' /\ Said(r)'
    BY <1>1, <1>2, <1>4, <1>5, <1>6, <1>8 DEF Purchase, Begun, Said
  <2>2. Informed(r)'
    BY <1>1, <1>2, <1>7 DEF Purchase, Informed
  <2>3. OneByOne(r)'
    BY <1>1, <1>2, <1>7 DEF Purchase, OneByOne, Without
  <2>4. Ordered(r)'
    BY <1>1, <1>6 DEF Ordered
  <2>5. Without(r, {"overlap", "lost", "late"}) =>
          \/ refunds[r] = 0 /\ \A a \in Admins : ~At(a, r)
          \/ "unowed" \in trouble[r]
    <3>1. Without(r, {"overlap", "lost", "late"}) => ~AlreadyFinal(r)
      BY <1>2 DEF Purchase, OneByOne, Without
    <3> QED
      BY <1>2, <3>1, Known DEF Purchase, Unserved, Pending, AlreadyFinal
  <2>6. Unserved(r)'
    BY <1>1, <1>4, <1>6, <1>8, <2>5 DEF Unserved, Without
  <2>7. Booked(r)'
    BY <1>1, <1>2, <1>4, <1>8 DEF Purchase, Booked, Without
  <2> QED
    BY <2>1, <2>2, <2>3, <2>4, <2>6, <2>7 DEF Purchase
<1>10. /\ delivered' \in [Requests -> Nat] /\ worth' \in [Requests -> Nat]
       /\ trouble' \in [Requests -> SUBSET Troubles] /\ faults' \in 0..MaxFaults
  BY <1>1, <1>2 DEF TypeOK
<1> QED
  BY <1>1, <1>3, <1>4, <1>9, <1>10, EndStep

(* Reloadly answers: "lost" is not possible here, "late" is noted.         *)
LEMMA CallStep ==
  ASSUME Inv, NEW t \in Tasks, NEW r \in Requests, On(t, r), CallReloadly(t)
  PROVE  Inv'
<1>1. /\ UNCHANGED <<order, pc, row, hub, heard, refund, desk, refunds, early, repaid, faults>>
      /\ step[t] = "read" /\ task[t].paid /\ step' = [step EXCEPT ![t] = "called"]
  BY DEF CallReloadly, Unpaid, purchase, desks, returned
<1>2. PICK reply \in Replies :
        /\ task' = [task EXCEPT ![t].answer =
                      IF reply[1] = "SUCCESSFUL" THEN "SUCCESS" ELSE "FAILED"]
        /\ Served(r, reply[2], PurchaseAmount(t))
        /\ Note(r, IF reply = <<"PROCESSING", 1>> THEN {"late"} ELSE {})
  BY DEF CallReloadly, On
<1> DEFINE n == reply[2]
           a == IF reply[1] = "SUCCESSFUL" THEN "SUCCESS" ELSE "FAILED"
           noted == IF reply = <<"PROCESSING", 1>> THEN {"late"} ELSE {}
<1>3. /\ n \in {0, 1} /\ a \in {"SUCCESS", "FAILED"} /\ noted \in {{}, {"late"}}
      /\ a = "SUCCESS" => n = 1
      /\ a = "FAILED" /\ noted = {} => n = 0
  BY DEF Replies
<1>4. /\ task' = [task EXCEPT ![t] = [task[t] EXCEPT !.answer = a]]
      /\ Served(r, n, PurchaseAmount(t))
      /\ trouble' = [trouble EXCEPT ![r] = @ \cup noted]
  BY <1>2 DEF Note
<1> HIDE DEF n, a, noted
<1>5. TypeOK /\ Purchase(r) /\ task[t] \in Task /\ delivered[r] \in Nat
  BY <1>1, KnownTask, Known DEF Inv
<1>6. /\ delivered' \in [Requests -> Nat] /\ worth' \in [Requests -> Nat]
      /\ delivered'[r] = delivered[r] + n
      /\ \A s \in Requests \ {r} : delivered'[s] = delivered[s]
  BY <1>1, <1>3, <1>4, <1>5, AmountLemma, ServedLemma
<1>7. /\ [task[t] EXCEPT !.answer = a] \in Task
      /\ [task[t] EXCEPT !.answer = a].answer = a
      /\ [task[t] EXCEPT !.answer = a].of = task[t].of
      /\ [task[t] EXCEPT !.answer = a].paid = task[t].paid
  BY <1>3, <1>5 DEF Task
<1>8. /\ step'[t] = "called" /\ task'[t] = [task[t] EXCEPT !.answer = a]
      /\ \A u \in Tasks \ {t} : step'[u] = step[u] /\ task'[u] = task[u]
      /\ trouble'[r] = trouble[r] \cup noted
      /\ \A s \in Requests \ {r} : trouble'[s] = trouble[s]
  BY <1>1, <1>4, <1>5 DEF TypeOK
<1>9. TypeOK'
  <2>1. /\ step' \in [Tasks -> {"idle", "read", "called", "recorded"}]
        /\ task' \in [Tasks -> Task \cup {NoTask}]
    BY <1>1, <1>4, <1>5, <1>7 DEF TypeOK
  <2>2. \A u \in Tasks : step'[u] # "idle" <=> task'[u] # NoTask
    BY <1>5, <1>7, <1>8, NotNone DEF TypeOK
  <2>3. trouble' \in [Requests -> SUBSET Troubles]
    BY <1>3, <1>4, <1>5 DEF TypeOK, Troubles
  <2> QED
    BY <1>1, <1>5, <1>6, <2>1, <2>2, <2>3 DEF TypeOK
<1>10. ASSUME NEW s \in Requests, NEW u \in Tasks PROVE On(u, s)' <=> On(u, s)
  <2>1. CASE u = t
    <3>1. task'[t].of = task[t].of /\ step'[t] # "idle" /\ step[t] # "idle"
      BY <1>1, <1>7, <1>8
    <3> QED
      BY <2>1, <3>1 DEF On
  <2>2. CASE u # t
    BY <1>8, <2>2 DEF On
  <2> QED
    BY <2>1, <2>2
<1>11. ASSUME NEW s \in Requests \ {r} PROVE Purchase(s)'
  <2>1. ~On(t, s) /\ ~On(t, s)'
    BY <1>10 DEF On
  <2> QED
    BY <1>1, <1>6, <1>8, <2>1, OtherPurchase
<1>12. Purchase(r)'
  <2>1. \A b \in Admins : At(b, r)' <=> At(b, r)
    BY <1>1 DEF At
  <2>2. /\ \A what \in SUBSET Troubles : Without(r, what)' => Without(r, what)
        /\ Without(r, {"overlap", "lost", "late"})' => noted = {}
    BY <1>3, <1>8 DEF Without
  <2>3. /\ {"overlap"} \in SUBSET Troubles /\ {"overlap", "lost"} \in SUBSET Troubles
        /\ {"overlap", "lost", "late"} \in SUBSET Troubles
        /\ {"desks", "unmarked"} \in SUBSET Troubles
    BY DEF Troubles
  <2>4. hub[r] = "SUCCESS"
    BY <1>1, <1>5 DEF Purchase, Informed
  <2>5. Without(r, {"overlap", "lost"})' =>
          delivered[r] = 0 /\ ~AlreadyFinal(r) /\ \A u \in Tasks : On(u, r) => u = t
    BY <1>1, <1>5, <2>2, <2>3 DEF Purchase, Ordered, OneByOne, Without
  <2>6. Begun(r)' /\ Said(r)'
    BY <1>1, <1>3, <1>5, <1>6, <2>1, <2>4 DEF Purchase, Begun, Said
  <2>7. Informed(r)'
    <3> SUFFICES ASSUME NEW u \in Tasks, On(u, r)
                 PROVE  /\ task'[u].paid => hub[r] = "SUCCESS"
                        /\ ~task'[u].paid => hub[r] = "FAILED"
                        /\ step'[u] \in {"called", "recorded"} =>
                             task'[u].paid /\ task'[u].answer # "NONE"
                        /\ task'[u].answer = "SUCCESS" => delivered'[r] > 0
      BY <1>1, <1>10 DEF Informed
    <3>1. CASE u = t
      <4>1. task'[u].paid = task[t].paid /\ task'[u].answer = a
        BY <1>7, <1>8, <3>1
      <4>2. task'[u].paid
        BY <1>1, <4>1, Zenon
      <4>3. a = "SUCCESS" => delivered'[r] > 0
        BY <1>3, <1>5, <1>6
      <4> QED
        BY <1>3, <2>4, <4>1, <4>2, <4>3
    <3>2. CASE u # t
      <4>1. task'[u] = task[u] /\ step'[u] = step[u]
        BY <1>8, <3>2
      <4> QED
        BY <1>3, <1>5, <1>6, <4>1 DEF Purchase, Informed
    <3> QED
      BY <3>1, <3>2
  <2>8. OneByOne(r)'
    BY <1>1, <1>5, <1>10, <2>2, <2>3 DEF Purchase, OneByOne, AlreadyFinal
  <2>9. Ordered(r)'
    BY <1>3, <1>6, <1>8, <1>10, <2>5 DEF Ordered
  <2>10. Unserved(r)'
    <3> SUFFICES ASSUME Without(r, {"overlap", "lost", "late"})'
                 PROVE  /\ \A u \in Tasks : On(u, r) /\ task'[u].answer = "FAILED" =>
                             delivered'[r] = 0
                        /\ Pending(r) => delivered'[r] = 0
                        /\ refunds[r] > 0 \/ (\E b \in Admins : At(b, r)) =>
                             Pending(r) \/ "unowed" \in trouble[r]
      BY <1>1, <1>8, <1>10, <2>1 DEF Unserved, Pending
    <3>1. /\ delivered[r] = 0 /\ ~AlreadyFinal(r) /\ \A u \in Tasks : On(u, r) => u = t
      BY <2>5 DEF Without
    <3>2. task'[t].answer = "FAILED" => delivered'[r] = 0
      BY <1>3, <1>6, <1>7, <1>8, <2>2, <3>1
    <3>3. ~Pending(r)
      BY <3>1 DEF Pending, AlreadyFinal
    <3> QED
      BY <1>5, <2>2, <2>3, <3>1, <3>2, <3>3 DEF Purchase, Unserved
  <2>11. Booked(r)'
    BY <1>1, <1>5, <2>1, <2>2, <2>3 DEF Purchase, Booked
  <2> QED
    BY <2>6, <2>7, <2>8, <2>9, <2>10, <2>11 DEF Purchase
<1> QED
  BY <1>9, <1>11, <1>12 DEF Inv

(* A finalisation that stops before the row is written: after the call, or *)
(* if the call throws, that is noted as a loss.                            *)
LEMMA LostStep ==
  ASSUME Inv, NEW t \in Tasks, NEW r \in Requests, On(t, r), CallLost(t) \/ LoseTask(t)
  PROVE  Inv'
<1>1. /\ UNCHANGED <<order, pc, row, hub, heard, refund, desk, refunds, early, repaid>>
      /\ Fault /\ End(t)
  BY DEF CallLost, LoseTask, purchase, desks, returned
<1>2. TypeOK /\ Purchase(r) /\ delivered[r] \in Nat
  BY Known DEF Inv
<1>3. /\ delivered' \in [Requests -> Nat] /\ worth' \in [Requests -> Nat]
      /\ \A s \in Requests \ {r} : delivered'[s] = delivered[s]
      /\ delivered'[r] >= delivered[r]
      /\ delivered'[r] > delivered[r] => CallLost(t)
  <2>1. CASE CallLost(t)
    <3>1. PICK n \in {0, 1} : Served(r, n, PurchaseAmount(t))
      BY <2>1 DEF CallLost, On
    <3>2. PurchaseAmount(t) \in Nat
      BY <1>2, AmountLemma DEF On
    <3> QED
      BY <1>2, <2>1, <3>1, <3>2, ServedLemma
  <2>2. CASE LoseTask(t)
    BY <1>2, <2>2 DEF LoseTask, goods, TypeOK
  <2> QED
    BY <2>1, <2>2
<1>4. PICK noted \in {{}, {"lost"}} :
        /\ trouble' = [trouble EXCEPT ![r] = @ \cup noted]
        /\ CallLost(t) => noted = {"lost"}
        /\ noted = {} => step[t] = "read"
  BY DEF CallLost, LoseTask, Note, On
<1>5. /\ trouble'[r] = trouble[r] \cup noted
      /\ \A s \in Requests \ {r} : trouble'[s] = trouble[s]
      /\ trouble' \in [Requests -> SUBSET Troubles]
  BY <1>2, <1>4 DEF TypeOK, Troubles
<1>6. /\ \A u \in Tasks : On(u, r)' => On(u, r) /\ u # t /\ step'[u] = step[u] /\ task'[u] = task[u]
  BY <1>1, <1>2, EndLemma
<1>7. \A b \in Admins : At(b, r)' <=> At(b, r)
  BY <1>1 DEF At
<1>8. CallLost(t) => hub[r] = "SUCCESS"
  BY <1>2 DEF CallLost, Unpaid, Purchase, Informed
<1>9. Purchase(r)'
  <2>1. /\ \A what \in SUBSET Troubles : Without(r, what)' => Without(r, what)
        /\ {"overlap"} \in SUBSET Troubles /\ {"overlap", "lost"} \in SUBSET Troubles
        /\ {"overlap", "lost", "late"} \in SUBSET Troubles
        /\ {"desks", "unmarked"} \in SUBSET Troubles
    BY <1>5 DEF Without, Troubles
  <2>2. Without(r, {"overlap", "lost"})' =>
          noted = {} /\ delivered'[r] = delivered[r] /\ delivered[r] = 0
    <3>1. Without(r, {"overlap", "lost"})' => noted = {}
      BY <1>5 DEF Without
    <3>2. Without(r, {"overlap", "lost"})' => step[t] = "read" /\ delivered[r] = 0
      BY <1>2, <1>4, <2>1, <3>1 DEF Purchase, Ordered
    <3>3. noted = {} => delivered'[r] = delivered[r]
      <4>1. noted = {} => ~CallLost(t)
        BY <1>4
      <4> QED
        BY <1>2, <1>3, <4>1
    <3> QED
      BY <3>1, <3>2, <3>3
  <2>3. Begun(r)'
    BY <1>1, <1>2, <1>7 DEF Purchase, Begun
  <2>4. Said(r)'
    BY <1>1, <1>2, <1>3, <1>8 DEF Purchase, Said
  <2>5. Informed(r)'
    BY <1>1, <1>2, <1>3, <1>6 DEF Purchase, Informed
  <2>6. OneByOne(r)'
    BY <1>1, <1>2, <1>6, <2>1 DEF Purchase, OneByOne, AlreadyFinal
  <2>7. Ordered(r)'
    BY <2>2 DEF Ordered
  <2>8. Unserved(r)'
    <3>1. Without(r, {"overlap", "lost", "late"})' =>
            Without(r, {"overlap", "lost"})' /\ Without(r, {"overlap", "lost", "late"})
      BY <2>1 DEF Without
    <3> QED
      BY <1>1, <1>2, <1>5, <1>7, <2>2, <3>1 DEF Purchase, Unserved, Pending
  <2>9. Booked(r)'
    BY <1>1, <1>2, <1>7, <2>1 DEF Purchase, Booked
  <2> QED
    BY <2>3, <2>4, <2>5, <2>6, <2>7, <2>8, <2>9 DEF Purchase
<1>10. row' \in [Requests -> Row] /\ row' = row /\ faults' \in 0..MaxFaults
  BY <1>1, <1>2, FaultLemma DEF TypeOK
<1> QED
  BY <1>1, <1>3, <1>5, <1>9, <1>10, EndStep

LEMMA RecordStep ==
  ASSUME Inv, NEW t \in Tasks, NEW r \in Requests, On(t, r), RecordAttempt(t)
  PROVE  Inv'
<1>1. /\ UNCHANGED <<order, pc, hub, heard, task, delivered, worth, refund, desk, refunds,
                     early, repaid, trouble, faults>>
      /\ step[t] = "called" /\ step' = [step EXCEPT ![t] = "recorded"]
      /\ row' = [row EXCEPT ![r].attempt = "RELOADLY"]
  BY DEF RecordAttempt, On, purchase, goods, desks, returned
<1>2. TypeOK /\ Purchase(r) /\ row[r] \in Row
  BY Known DEF Inv
<1>3. /\ row'[r].status = row[r].status /\ row'[r].owed = row[r].owed
      /\ row'[r].refunded = row[r].refunded
      /\ row' \in [Requests -> Row]
      /\ \A s \in Requests \ {r} : row'[s] = row[s]
  BY <1>1, <1>2 DEF TypeOK, Row
<1>4. /\ step'[t] = "recorded" /\ \A u \in Tasks \ {t} : step'[u] = step[u]
      /\ step' \in [Tasks -> {"idle", "read", "called", "recorded"}]
  BY <1>1, <1>2 DEF TypeOK
<1>5. TypeOK'
  <2>1. \A u \in Tasks : step'[u] # "idle" <=> task'[u] # NoTask
    BY <1>1, <1>2, <1>4 DEF TypeOK
  <2> QED
    BY <1>1, <1>2, <1>3, <1>4, <2>1 DEF TypeOK
<1>6. \A s \in Requests, u \in Tasks : On(u, s)' <=> On(u, s)
  BY <1>1, <1>4 DEF On
<1>7. ASSUME NEW s \in Requests \ {r} PROVE Purchase(s)'
  <2>1. ~On(t, s) /\ ~On(t, s)'
    BY <1>6 DEF On
  <2> QED
    BY <1>1, <1>3, <1>4, <2>1, OtherPurchase
<1>8. Purchase(r)'
  <2>1. \A b \in Admins : At(b, r)' <=> At(b, r)
    BY <1>1 DEF At
  <2>2. (AlreadyFinal(r)' <=> AlreadyFinal(r)) /\ (Pending(r)' <=> Pending(r))
    BY <1>3 DEF AlreadyFinal, Pending
  <2>3. Begun(r)'
    <3>1. pc[r] # "idle"
      BY <1>1, <1>2 DEF Purchase, Informed, Begun
    <3> QED
      BY <1>1, <1>2, <2>1, <3>1 DEF Purchase, Begun
  <2>4. Said(r)'
    BY <1>1, <1>2, <1>3 DEF Purchase, Said
  <2>5. Informed(r)'
    BY <1>1, <1>2, <1>4, <1>6 DEF Purchase, Informed
  <2>6. OneByOne(r)' /\ Ordered(r)'
    BY <1>1, <1>2, <1>4, <1>6, <2>2 DEF Purchase, OneByOne, Ordered, Without
  <2>7. Unserved(r)'
    BY <1>1, <1>2, <1>6, <2>1, <2>2 DEF Purchase, Unserved, Without
  <2>8. Booked(r)'
    BY <1>1, <1>2, <1>3, <2>1 DEF Purchase, Booked, Without
  <2> QED
    BY <2>3, <2>4, <2>5, <2>6, <2>7, <2>8 DEF Purchase
<1> QED
  BY <1>5, <1>7, <1>8 DEF Inv

(* The row takes the answer, whatever it said: a success was delivered, a  *)
(* failure is owed to a payer who had paid.                                *)
LEMMA ConcludeStep ==
  ASSUME Inv, NEW t \in Tasks, NEW r \in Requests, On(t, r), Conclude(t)
  PROVE  Inv'
<1> DEFINE a == task[t].answer
           fee == TotalFee(t)
           owed == row[r].owed \/ a = "FAILED"
<1>1. /\ UNCHANGED <<order, pc, hub, heard, delivered, worth, refund, desk, refunds, early, repaid,
                     trouble, faults>>
      /\ step[t] = "recorded" /\ End(t)
      /\ row' = [row EXCEPT ![r].status = a, ![r].fee = fee, ![r].owed = @ \/ a = "FAILED"]
  BY DEF Conclude, On, purchase, goods, desks, returned
<1>2. TypeOK /\ Purchase(r) /\ row[r] \in Row
  BY Known DEF Inv
<1>3. /\ a \in {"SUCCESS", "FAILED"} /\ fee \in Nat
      /\ hub[r] = "SUCCESS"
      /\ a = "SUCCESS" => delivered[r] > 0
  <2>1. a \in {"NONE", "SUCCESS", "FAILED"} /\ a # "NONE" /\ hub[r] = "SUCCESS"
    BY <1>1, <1>2, KnownTask DEF Purchase, Informed
  <2>2. fee \in Nat
    BY <1>1, <1>2, AmountLemma
  <2> QED
    BY <1>2, <2>1, <2>2 DEF Purchase, Informed
<1>4. row' = [row EXCEPT ![r] = [row[r] EXCEPT !.status = a, !.fee = fee, !.owed = owed]]
  BY <1>1, <1>2 DEF TypeOK
<1> HIDE DEF a, fee
<1>5. owed \in BOOLEAN /\ (owed <=> row[r].owed \/ a = "FAILED")
  BY <1>2, Known
<1> HIDE DEF owed
<1>6. /\ row' \in [Requests -> Row]
      /\ row'[r].status = a /\ row'[r].owed = owed /\ row'[r].refunded = row[r].refunded
      /\ \A s \in Requests \ {r} : row'[s] = row[s]
  <2>1. [row[r] EXCEPT !.status = a, !.fee = fee, !.owed = owed] \in Row
    BY <1>2, <1>3, <1>5 DEF Row
  <2> QED
    BY <1>2, <1>4, <2>1 DEF TypeOK, Row
<1>7. /\ \A u \in Tasks : On(u, r)' => On(u, r) /\ u # t /\ step'[u] = step[u] /\ task'[u] = task[u]
  BY <1>1, <1>2, EndLemma
<1>8. \A b \in Admins : At(b, r)' <=> At(b, r)
  BY <1>1 DEF At
<1>9. /\ delivered' \in [Requests -> Nat] /\ worth' \in [Requests -> Nat]
      /\ trouble' \in [Requests -> SUBSET Troubles] /\ faults' \in 0..MaxFaults
  BY <1>1, <1>2 DEF TypeOK
<1>10. Purchase(r)'
  <2>1. Begun(r)'
    <3>1. pc[r] # "idle"
      BY <1>2, <1>3 DEF Purchase, Begun
    <3> QED
      BY <1>1, <1>2, <1>8, <3>1 DEF Purchase, Begun
  <2>2. Said(r)'
    <3>1. a = "FAILED" => owed
      BY <1>5
    <3> QED
      BY <1>1, <1>2, <1>3, <1>6, <3>1 DEF Purchase, Said
  <2>3. Informed(r)'
    BY <1>1, <1>2, <1>7 DEF Purchase, Informed
  <2>4. Without(r, {"overlap"}) => \A u \in Tasks : ~On(u, r)'
    BY <1>2, <1>7 DEF Purchase, OneByOne
  <2>5. AlreadyFinal(r)'
    BY <1>3, <1>6 DEF AlreadyFinal
  <2>6. OneByOne(r)' /\ Ordered(r)'
    <3>1. Without(r, {"overlap", "lost"}) => delivered[r] <= 1 /\ Without(r, {"overlap"})
      BY <1>2 DEF Purchase, Ordered, Without
    <3>2. \A what : Without(r, what)' <=> Without(r, what)
      BY <1>1 DEF Without
    <3> QED
      BY <1>1, <2>4, <2>5, <3>1, <3>2 DEF OneByOne, Ordered
  <2>7. Unserved(r)'
    <3> SUFFICES ASSUME Without(r, {"overlap", "lost", "late"})
                 PROVE  /\ \A u \in Tasks : ~On(u, r)'
                        /\ Pending(r)' => delivered[r] = 0
                        /\ \/ refunds[r] = 0 /\ \A b \in Admins : ~At(b, r)
                           \/ "unowed" \in trouble[r]
      BY <1>1, <1>8 DEF Unserved, Without
    <3>1. \A u \in Tasks : ~On(u, r)'
      BY <2>4 DEF Without
    <3>2. ~AlreadyFinal(r)
      BY <1>2 DEF Purchase, OneByOne, Without
    <3>3. \/ refunds[r] = 0 /\ \A b \in Admins : ~At(b, r)
          \/ "unowed" \in trouble[r]
      BY <1>2, <3>2, Known DEF Purchase, Unserved, Pending, AlreadyFinal
    <3>4. Pending(r)' => a = "FAILED"
      BY <1>6 DEF Pending
    <3>5. a = "FAILED" => delivered[r] = 0
      BY <1>2 DEF Purchase, Unserved, a
    <3> QED
      BY <3>1, <3>3, <3>4, <3>5
  <2>8. Booked(r)'
    BY <1>1, <1>2, <1>6, <1>8 DEF Purchase, Booked, Without
  <2> QED
    BY <2>1, <2>2, <2>3, <2>6, <2>7, <2>8 DEF Purchase
<1> QED
  BY <1>1, <1>6, <1>9, <1>10, EndStep

-----------------------------------------------------------------------------
(* Refunds *)

(* A step of administrator a, busy with r, seen from another purchase.     *)
LEMMA OtherRefund ==
  ASSUME Inv, NEW s \in Requests, NEW a \in Admins,
         UNCHANGED <<pc, hub, task, step, delivered>>,
         row'[s] = row[s], refunds'[s] = refunds[s], trouble'[s] = trouble[s],
         \A b \in Admins \ {a} : desk'[b] = desk[b] /\ refund'[b] = refund[b],
         ~At(a, s), ~At(a, s)'
  PROVE  Purchase(s)'
<1>1. \A b \in Admins : /\ At(b, s)' <=> At(b, s)
                        /\ At(b, s) => desk'[b] = desk[b] /\ refund'[b] = refund[b]
  BY DEF At
<1>2. \A u \in Tasks : On(u, s)' <=> On(u, s)
  BY DEF On
<1>3. Same(s)
  BY <1>1, <1>2 DEF Same
<1> QED
  BY <1>3, SameLemma DEF Inv

(* What has to be shown of r itself when only its refunds are concerned.   *)
LEMMA RefundedPurchase ==
  ASSUME Inv, NEW r \in Requests,
         UNCHANGED <<pc, hub, task, step, delivered>>,
         row'[r].status = row[r].status, row'[r].owed = row[r].owed,
         pc[r] = "idle" => row'[r] = row[r] /\ \A a \in Admins : ~At(a, r)',
         trouble[r] \subseteq trouble'[r],
         refunds'[r] > 0 \/ (\E a \in Admins : At(a, r)') =>
           \/ Pending(r) \/ "unowed" \in trouble'[r]
           \/ refunds[r] > 0 \/ (\E a \in Admins : At(a, r)),
         Booked(r)'
  PROVE  Purchase(r)'
<1>1. Purchase(r)
  BY DEF Inv
<1>2. \A u \in Tasks : On(u, r)' <=> On(u, r)
  BY DEF On
<1>3. /\ AlreadyFinal(r)' <=> AlreadyFinal(r)
      /\ Pending(r)' <=> Pending(r)
  BY DEF AlreadyFinal, Pending
<1>4. \A what : Without(r, what)' => Without(r, what)
  BY DEF Without
<1>5. Begun(r)'
  BY <1>1 DEF Purchase, Begun
<1>6. Informed(r)' /\ Said(r)'
  BY <1>1, <1>2 DEF Purchase, Informed, Said
<1>7. OneByOne(r)'
  BY <1>1, <1>2, <1>3, <1>4 DEF Purchase, OneByOne
<1>8. Ordered(r)'
  BY <1>1, <1>2, <1>3, <1>4 DEF Purchase, Ordered
<1>9. Unserved(r)'
  BY <1>1, <1>2, <1>3, <1>4 DEF Purchase, Unserved
<1> QED
  BY <1>5, <1>6, <1>7, <1>8, <1>9 DEF Purchase

(* A second administrator is noted, and so is a row that is not listed;    *)
(* otherwise r has not been refunded.                                      *)
LEMMA CheckStep ==
  ASSUME Inv, NEW a \in Admins, NEW r \in Requests, CheckRefund(a, r)
  PROVE  Inv'
<1> DEFINE f == [of |-> r, total |-> order[r].amount + row[r].fee]
           noted == (IF \E b \in Admins : refund[b].of = r THEN {"desks"} ELSE {})
                      \cup (IF Pending(r) THEN {} ELSE {"unowed"})
<1>1. /\ UNCHANGED <<order, pc, row, hub, heard, task, step, delivered, worth, refunds, early, repaid,
                     faults>>
      /\ desk[a] = "idle" /\ ~row[r].refunded /\ pc[r] = "done"
      /\ desk' = [desk EXCEPT ![a] = "checked"] /\ refund' = [refund EXCEPT ![a] = f]
      /\ trouble' = [trouble EXCEPT ![r] = @ \cup noted]
  BY DEF CheckRefund, Refundable, Note, purchase, finalisation, goods, returned
<1>2. TypeOK /\ Purchase(r)
  BY DEF Inv
<1>3. f \in RefundOf /\ f.of = r
  BY <1>2, Known DEF RefundOf
<1> HIDE DEF f
<1>4. /\ desk'[a] = "checked" /\ refund'[a] = f
      /\ \A b \in Admins \ {a} : desk'[b] = desk[b] /\ refund'[b] = refund[b]
      /\ trouble'[r] = trouble[r] \cup noted
      /\ \A s \in Requests \ {r} : trouble'[s] = trouble[s]
  BY <1>1, <1>2 DEF TypeOK
<1>5. TypeOK'
  <2>1. /\ desk' \in [Admins -> {"idle", "checked", "sent"}]
        /\ refund' \in [Admins -> RefundOf \cup {NoRefund}]
    BY <1>1, <1>2, <1>3 DEF TypeOK
  <2>2. \A b \in Admins : desk'[b] # "idle" <=> refund'[b] # NoRefund
    BY <1>2, <1>3, <1>4, NotNone DEF TypeOK
  <2>3. trouble' \in [Requests -> SUBSET Troubles]
    BY <1>1, <1>2 DEF TypeOK, Troubles
  <2> QED
    BY <1>1, <1>2, <2>1, <2>2, <2>3 DEF TypeOK
<1>6. /\ At(a, r)' /\ ~At(a, r)
      /\ \A s \in Requests \ {r} : ~At(a, s) /\ ~At(a, s)'
      /\ \A b \in Admins \ {a} : At(b, r)' <=> At(b, r)
  BY <1>1, <1>3, <1>4 DEF At
<1>7. ASSUME NEW s \in Requests \ {r} PROVE Purchase(s)'
  BY <1>1, <1>4, <1>6, OtherRefund
<1>8. Booked(r)'
  <2> SUFFICES ASSUME Without(r, {"desks", "unmarked"})'
               PROVE  /\ refunds[r] = 0
                      /\ \A b, c \in Admins : At(b, r)' /\ At(c, r)' => b = c
    BY <1>1, <1>2, Known DEF Booked
  <2>1. "desks" \notin noted /\ Without(r, {"desks", "unmarked"})
    BY <1>4 DEF Without
  <2>2. \A b \in Admins : ~At(b, r)
    BY <2>1 DEF At
  <2>3. refunds[r] = 0
    BY <1>1, <1>2, <2>1, <2>2, Known DEF Purchase, Booked
  <2> QED
    BY <1>6, <2>2, <2>3
<1>9. Purchase(r)'
  <2>1. Pending(r) \/ "unowed" \in trouble'[r]
    BY <1>4
  <2> QED
    BY <1>1, <1>4, <1>8, <2>1, RefundedPurchase
<1> QED
  BY <1>5, <1>7, <1>9 DEF Inv

(* The transfer: the desk has found nothing refunded, and is alone with r. *)
LEMMA SendStep ==
  ASSUME Inv, NEW a \in Admins, NEW r \in Requests, At(a, r), SendRefund(a)
  PROVE  Inv'
<1>1. /\ UNCHANGED <<order, pc, row, hub, heard, task, step, delivered, worth, refund, trouble,
                     faults>>
      /\ desk[a] = "checked" /\ desk' = [desk EXCEPT ![a] = "sent"]
      /\ refunds' = [refunds EXCEPT ![r] = @ + 1]
      /\ repaid' = [repaid EXCEPT ![r] = @ + refund[a].total]
      /\ early' = IF hub[r] = "SUCCESS" THEN early ELSE [early EXCEPT ![r] = @ + 1]
  BY DEF SendRefund, At, purchase, finalisation, goods
<1>2. TypeOK /\ Purchase(r) /\ refund[a].total \in Nat /\ refunds[r] \in Nat
  BY <1>1, KnownDesk, Known DEF Inv
<1>3. /\ desk'[a] = "sent" /\ \A b \in Admins \ {a} : desk'[b] = desk[b]
      /\ refunds'[r] = refunds[r] + 1
      /\ \A s \in Requests \ {r} : refunds'[s] = refunds[s]
      /\ refunds' \in [Requests -> Nat] /\ repaid' \in [Requests -> Nat]
      /\ early' \in [Requests -> Nat]
  BY <1>1, <1>2 DEF TypeOK
<1>4. TypeOK'
  <2>1. \A b \in Admins : desk'[b] # "idle" <=> refund'[b] # NoRefund
    BY <1>1, <1>2, <1>3 DEF TypeOK
  <2> QED
    BY <1>1, <1>2, <1>3, <2>1 DEF TypeOK
<1>5. \A b \in Admins, s \in Requests : At(b, s)' <=> At(b, s)
  BY <1>1, <1>3 DEF At
<1>6. ASSUME NEW s \in Requests \ {r} PROVE Purchase(s)'
  <2>1. ~At(a, s) /\ ~At(a, s)'
    BY <1>5 DEF At
  <2> QED
    BY <1>1, <1>3, <2>1, OtherRefund
<1>7. Booked(r)'
  <2> SUFFICES ASSUME Without(r, {"desks", "unmarked"})
               PROVE  /\ refunds[r] = 0
                      /\ \A b \in Admins : At(b, r) => b = a
    BY <1>1, <1>3, <1>5 DEF Booked, Without
  <2> QED
    BY <1>1, <1>2 DEF Purchase, Booked
<1>8. pc[r] # "idle"
  BY <1>2 DEF Purchase, Begun
<1>9. Purchase(r)'
  BY <1>1, <1>5, <1>7, <1>8, RefundedPurchase
<1> QED
  BY <1>4, <1>6, <1>9 DEF Inv

(* What administrator a leaves. *)
LEMMA LeaveLemma ==
  ASSUME TypeOK, NEW a \in Admins, Leave(a)
  PROVE  /\ desk' \in [Admins -> {"idle", "checked", "sent"}]
         /\ refund' \in [Admins -> RefundOf \cup {NoRefund}]
         /\ \A b \in Admins : desk'[b] # "idle" <=> refund'[b] # NoRefund
         /\ \A b \in Admins \ {a} : desk'[b] = desk[b] /\ refund'[b] = refund[b]
         /\ \A r \in Requests : ~At(a, r)'
         /\ \A b \in Admins, r \in Requests : At(b, r)' => At(b, r) /\ b # a
<1>1. /\ desk' = [desk EXCEPT ![a] = "idle"] /\ refund' = [refund EXCEPT ![a] = NoRefund]
  BY DEF Leave
<1>2. /\ desk' \in [Admins -> {"idle", "checked", "sent"}]
      /\ refund' \in [Admins -> RefundOf \cup {NoRefund}]
      /\ desk'[a] = "idle" /\ refund'[a] = NoRefund
      /\ \A b \in Admins \ {a} : desk'[b] = desk[b] /\ refund'[b] = refund[b]
  BY <1>1 DEF TypeOK
<1>3. \A b \in Admins : desk'[b] # "idle" <=> refund'[b] # NoRefund
  BY <1>2 DEF TypeOK
<1> QED
  BY <1>2, <1>3 DEF At

(* The refund is written down, or lost: a sent one that is lost is noted.  *)
LEMMA LeaveStep ==
  ASSUME Inv, NEW a \in Admins, NEW r \in Requests, At(a, r), MarkRefunded(a) \/ LoseRefund(a)
  PROVE  Inv'
<1>1. /\ UNCHANGED <<order, pc, hub, heard, task, step, delivered, worth, refunds, early, repaid>>
      /\ Leave(a)
  BY DEF MarkRefunded, LoseRefund, purchase, finalisation, goods, returned
<1>2. TypeOK /\ Purchase(r) /\ row[r] \in Row
  BY Known DEF Inv
<1>3. /\ row' \in [Requests -> Row]
      /\ row'[r].status = row[r].status /\ row'[r].owed = row[r].owed
      /\ \A s \in Requests \ {r} : row'[s] = row[s]
      /\ MarkRefunded(a) => row'[r].refunded
      /\ LoseRefund(a) => row'[r] = row[r]
  <2>1. CASE MarkRefunded(a)
    <3>1. row' = [row EXCEPT ![r].refunded = TRUE]
      BY <2>1 DEF MarkRefunded, At
    <3>2. row' = [row EXCEPT ![r] = [row[r] EXCEPT !.refunded = TRUE]]
      BY <3>1
    <3>3. [row[r] EXCEPT !.refunded = TRUE] \in Row
      BY <1>2 DEF Row
    <3>4. /\ [row[r] EXCEPT !.refunded = TRUE].status = row[r].status
          /\ [row[r] EXCEPT !.refunded = TRUE].owed = row[r].owed
          /\ [row[r] EXCEPT !.refunded = TRUE].refunded
      BY <1>2 DEF Row
    <3>5. row' \in [Requests -> Row] /\ row'[r] = [row[r] EXCEPT !.refunded = TRUE]
      BY <1>2, <3>2, <3>3 DEF TypeOK
    <3>6. \A s \in Requests \ {r} : row'[s] = row[s]
      BY <1>2, <3>2 DEF TypeOK
    <3>7. ~LoseRefund(a) \/ row'[r] = row[r]
      BY DEF LoseRefund
    <3> QED
      BY <3>4, <3>5, <3>6, <3>7
  <2>2. CASE LoseRefund(a) /\ ~MarkRefunded(a)
    BY <1>2, <2>2 DEF LoseRefund, TypeOK
  <2> QED
    BY <2>1, <2>2
<1>4. /\ trouble' \in [Requests -> SUBSET Troubles]
      /\ \A s \in Requests \ {r} : trouble'[s] = trouble[s]
      /\ trouble[r] \subseteq trouble'[r]
      /\ faults' \in 0..MaxFaults
  <2>1. CASE MarkRefunded(a)
    BY <1>2, <2>1 DEF MarkRefunded, TypeOK
  <2>2. CASE LoseRefund(a)
    <3>1. PICK noted \in {{}, {"unmarked"}} : trouble' = [trouble EXCEPT ![r] = @ \cup noted]
      BY <2>2 DEF LoseRefund, Note, At
    <3>2. faults' \in 0..MaxFaults
      BY <1>2, <2>2, FaultLemma DEF LoseRefund
    <3> QED
      BY <1>2, <3>1, <3>2 DEF TypeOK, Troubles
  <2> QED
    BY <2>1, <2>2
<1>5. TypeOK'
  BY <1>1, <1>2, <1>3, <1>4, LeaveLemma DEF TypeOK
<1>6. ASSUME NEW s \in Requests \ {r} PROVE Purchase(s)'
  <2>1. ~At(a, s) /\ ~At(a, s)' /\ \A b \in Admins \ {a} : desk'[b] = desk[b] /\ refund'[b] = refund[b]
    BY <1>1, <1>2, LeaveLemma DEF At
  <2> QED
    BY <1>1, <1>3, <1>4, <2>1, OtherRefund
<1>7. Booked(r)'
  <2> SUFFICES ASSUME Without(r, {"desks", "unmarked"})'
               PROVE  /\ \A b, c \in Admins : At(b, r)' /\ At(c, r)' => b = c
                      /\ \A b \in Admins : ~(At(b, r)' /\ desk'[b] = "checked")
                      /\ refunds[r] > 0 => row'[r].refunded
                      /\ refunds[r] <= 1
    BY <1>1 DEF Booked
  <2>1. Without(r, {"desks", "unmarked"})
    BY <1>4 DEF Without
  <2>2. \A b \in Admins : At(b, r) => b = a
    BY <1>2, <2>1 DEF Purchase, Booked
  <2>3. \A b \in Admins : ~At(b, r)'
    BY <1>1, <1>2, <2>2, LeaveLemma
  <2>4. LoseRefund(a) => desk[a] = "checked"
    <3>1. LoseRefund(a) /\ desk[a] = "sent" => "unmarked" \in trouble'[r]
      BY <1>2 DEF LoseRefund, Note, At, TypeOK
    <3>2. LoseRefund(a) => desk[a] \in {"checked", "sent"}
      BY <1>2 DEF LoseRefund, TypeOK
    <3> QED
      BY <3>1, <3>2 DEF Without
  <2>5. refunds[r] > 0 => row'[r].refunded
    <3>1. CASE MarkRefunded(a)
      BY <1>3, <3>1
    <3>2. CASE LoseRefund(a)
      <4>1. refunds[r] = 0
        BY <1>2, <2>1, <2>4, <3>2 DEF Purchase, Booked
      <4> QED
        BY <4>1
    <3> QED
      BY <3>1, <3>2
  <2>6. refunds[r] <= 1
    BY <1>2, <2>1 DEF Purchase, Booked
  <2> QED
    BY <2>3, <2>5, <2>6
<1>8. pc[r] # "idle"
  BY <1>2 DEF Purchase, Begun
<1>9. Purchase(r)'
  BY <1>1, <1>2, <1>3, <1>4, <1>7, <1>8, LeaveLemma, RefundedPurchase
<1> QED
  BY <1>5, <1>6, <1>9 DEF Inv

-----------------------------------------------------------------------------
LEMMA NextInv == Inv /\ [Next]_vars => Inv'
<1> SUFFICES ASSUME Inv, [Next]_vars PROVE Inv'
  OBVIOUS
<1>0. TypeOK
  BY DEF Inv
<1>1. ASSUME NEW r \in Requests, PurchaseStep(r) PROVE Inv'
  BY <1>1, PurchaseInv
<1>2. ASSUME NEW t \in Tasks, NEW r \in Requests, ReceiveWebhook(t, r) PROVE Inv'
  <2>1. PICK fee \in HubFees : Start(t, r, fee)
    BY <1>2 DEF ReceiveWebhook
  <2>2. fee \in Nat /\ heard' \in [Requests -> BOOLEAN]
    BY <1>0, <1>2, AirtimeAssumption DEF ReceiveWebhook, TypeOK
  <2> QED
    BY <2>1, <2>2, StartStep
<1>3. ASSUME NEW t \in Tasks, NEW r \in Requests, RefreshFromProvider(t, r) PROVE Inv'
  <2>1. Start(t, r, 0) /\ heard' \in [Requests -> BOOLEAN]
    BY <1>0, <1>3 DEF RefreshFromProvider, TypeOK
  <2> QED
    BY <2>1, StartStep
<1>4. ASSUME NEW t \in Tasks,
             \/ Decline(t) \/ CallReloadly(t) \/ CallLost(t)
             \/ RecordAttempt(t) \/ Conclude(t) \/ LoseTask(t)
      PROVE  Inv'
  <2>1. step[t] # "idle"
    BY <1>4 DEF Decline, CallReloadly, CallLost, RecordAttempt, Conclude, LoseTask
  <2>2. PICK r \in Requests : On(t, r)
    BY <1>0, <2>1, KnownTask
  <2> QED
    BY <1>4, <2>2, DeclineStep, CallStep, LostStep, RecordStep, ConcludeStep
<1>5. ASSUME NEW a \in Admins, SendRefund(a) \/ MarkRefunded(a) \/ LoseRefund(a) PROVE Inv'
  <2>1. desk[a] # "idle"
    BY <1>5 DEF SendRefund, MarkRefunded, LoseRefund
  <2>2. PICK r \in Requests : At(a, r)
    BY <1>0, <2>1, KnownDesk
  <2> QED
    BY <1>5, <2>2, SendStep, LeaveStep
<1>6. ASSUME NEW a \in Admins, NEW r \in Requests, CheckRefund(a, r) PROVE Inv'
  BY <1>6, CheckStep
<1>7. CASE UNCHANGED vars
  <2>1. TypeOK'
    BY <1>0, <1>7 DEF vars, purchase, finalisation, goods, desks, returned, TypeOK
  <2>2. ASSUME NEW s \in Requests PROVE Purchase(s)'
    <3>1. Same(s)
      BY <1>7 DEF vars, purchase, finalisation, goods, desks, returned, Same, On, At
    <3> QED
      BY <3>1, SameLemma DEF Inv
  <2> QED
    BY <2>1, <2>2 DEF Inv
<1> QED
  BY <1>1, <1>2, <1>3, <1>4, <1>5, <1>6, <1>7 DEF Next, PurchaseStep

LEMMA Invariance == Spec => []Inv
BY InitInv, NextInv, PTL DEF Spec

-----------------------------------------------------------------------------
LEMMA InvRows == Inv => DeliveredOnlyIfPaid /\ DeliveredTwiceOnlyIf /\ RowsAreTrue
<1> SUFFICES ASSUME Inv, NEW r \in Requests
             PROVE  /\ delivered[r] > 0 => hub[r] = "SUCCESS"
                    /\ delivered[r] > 1 => trouble[r] \cap {"overlap", "lost"} # {}
                    /\ row[r].status = "FAILED" /\ ~row[r].owed => hub[r] = "FAILED"
                    /\ row[r].owed => hub[r] = "SUCCESS"
                    /\ row[r].status = "SUCCESS" => delivered[r] > 0
                    /\ Pending(r) /\ delivered[r] > 0 =>
                         trouble[r] \cap {"overlap", "lost", "late"} # {}
  BY DEF DeliveredOnlyIfPaid, DeliveredTwiceOnlyIf, RowsAreTrue
<1>1. Purchase(r) /\ delivered[r] \in Nat
  BY Known DEF Inv
<1>2. delivered[r] > 1 => ~Without(r, {"overlap", "lost"})
  BY <1>1 DEF Purchase, Ordered
<1>3. Pending(r) /\ delivered[r] > 0 => ~Without(r, {"overlap", "lost", "late"})
  BY <1>1 DEF Purchase, Unserved
<1> QED
  BY <1>1, <1>2, <1>3 DEF Purchase, Said, Without

(* What is at a desk, or refunded, was collected or was not listed; before *)
(* the collection every refund is an early one.                            *)
Collected ==
  \A r \in Requests :
    /\ refunds[r] > 0 \/ (\E a \in Admins : At(a, r)) =>
         hub[r] = "SUCCESS" \/ "unowed" \in trouble[r]
    /\ early[r] <= refunds[r]
    /\ hub[r] # "SUCCESS" => early[r] = refunds[r]

LEMMA InvRefunds == Inv /\ Collected => RefundedOnce
<1> SUFFICES ASSUME Inv, Collected, NEW r \in Requests
             PROVE  /\ refunds[r] > 1 => trouble[r] \cap {"desks", "unmarked"} # {}
                    /\ refunds[r] > 0 /\ delivered[r] > 0 =>
                         trouble[r] \cap {"overlap", "lost", "late", "unowed"} # {}
                    /\ refunds[r] > 0 => hub[r] = "SUCCESS" \/ "unowed" \in trouble[r]
  BY DEF RefundedOnce
<1>1. Purchase(r) /\ delivered[r] \in Nat /\ refunds[r] \in Nat
  BY Known DEF Inv
<1>2. refunds[r] > 1 => ~Without(r, {"desks", "unmarked"})
  BY <1>1 DEF Purchase, Booked
<1>3. refunds[r] > 0 /\ delivered[r] > 0 =>
        ~Without(r, {"overlap", "lost", "late"}) \/ "unowed" \in trouble[r]
  BY <1>1 DEF Purchase, Unserved
<1>4. refunds[r] > 0 => hub[r] = "SUCCESS" \/ "unowed" \in trouble[r]
  BY DEF Collected
<1> QED
  BY <1>2, <1>3, <1>4 DEF Without

-----------------------------------------------------------------------------
(* Every reachable state is well typed; what is ordered is never negative. *)
THEOREM TypeCorrect == Spec => []TypeOK
BY Invariance, PTL DEF Inv

(* completeAirtimeMobileMoneyDeposit: Reloadly is never called before HUB2 *)
(* has collected.                                                          *)
THEOREM PaidFirst == Spec => []DeliveredOnlyIfPaid
BY Invariance, InvRows, PTL

(* A second delivery has an overlap, or a loss after the call, behind it.  *)
THEOREM DeliveredOnce == Spec => []DeliveredTwiceOnlyIf
BY Invariance, InvRows, PTL

(* The final row tells what happened at HUB2 and at Reloadly.              *)
THEOREM TrueRows == Spec => []RowsAreTrue
BY Invariance, InvRows, PTL

-----------------------------------------------------------------------------
(* The promise of a purchase *)

(* Steps that HUB2, Reloadly and the payer do not see: at most they note   *)
(* a trouble.                                                              *)
Quiet(r) ==
  /\ UNCHANGED <<order, hub, delivered, refunds, early>>
  /\ \E what \in SUBSET Troubles : trouble' = [trouble EXCEPT ![r] = @ \cup what]

LEMMA QuietSteps ==
  ASSUME Inv, NEW r \in Requests,
         \/ Create(r) \/ Die(r) \/ StoreReference(r) \/ StoreAttempt(r) \/ WindowPasses(r)
         \/ \E t \in Tasks : ReceiveWebhook(t, r) \/ RefreshFromProvider(t, r)
         \/ \E a \in Admins : CheckRefund(a, r)
         \/ \E t \in Tasks :
              On(t, r) /\ (Decline(t) \/ RecordAttempt(t) \/ Conclude(t) \/ LoseTask(t))
         \/ \E a \in Admins : At(a, r) /\ (MarkRefunded(a) \/ LoseRefund(a))
  PROVE  Quiet(r)
<1>0. TypeOK
  BY DEF Inv
<1>1. ASSUME trouble' = trouble PROVE trouble' = [trouble EXCEPT ![r] = @ \cup {}]
  <2>1. trouble[r] \cup {} = trouble[r]
    OBVIOUS
  <2> QED
    BY <1>0, <1>1, <2>1 DEF TypeOK
<1>2. CASE \/ Create(r) \/ Die(r) \/ StoreReference(r) \/ StoreAttempt(r) \/ WindowPasses(r)
  BY <1>1, <1>2 DEF Create, Die, StoreReference, StoreAttempt, WindowPasses, GoTo, purchase,
                    goods, returned, Quiet
<1>3. ASSUME NEW t \in Tasks, ReceiveWebhook(t, r) \/ RefreshFromProvider(t, r) PROVE Quiet(r)
  <2> PICK fee : Start(t, r, fee)
    BY <1>3 DEF ReceiveWebhook, RefreshFromProvider
  <2> QED
    BY DEF Start, Note, purchase, goods, returned, Quiet, Troubles
<1>4. ASSUME NEW a \in Admins, CheckRefund(a, r) PROVE Quiet(r)
  BY <1>4 DEF CheckRefund, Note, purchase, goods, returned, Quiet, Troubles
<1>5. ASSUME NEW t \in Tasks, On(t, r), Decline(t) \/ RecordAttempt(t) \/ Conclude(t)
      PROVE  Quiet(r)
  BY <1>1, <1>5 DEF Decline, RecordAttempt, Conclude, purchase, goods, returned, Quiet
<1>6. ASSUME NEW t \in Tasks, On(t, r), LoseTask(t) PROVE Quiet(r)
  BY <1>6 DEF On, LoseTask, Note, purchase, goods, returned, Quiet, Troubles
<1>7. ASSUME NEW a \in Admins, At(a, r), MarkRefunded(a) PROVE Quiet(r)
  BY <1>1, <1>7 DEF MarkRefunded, purchase, goods, returned, Quiet
<1>8. ASSUME NEW a \in Admins, At(a, r), LoseRefund(a) PROVE Quiet(r)
  BY <1>8 DEF At, LoseRefund, Note, purchase, goods, returned, Quiet, Troubles
<1> QED
  BY <1>2, <1>3, <1>4, <1>5, <1>6, <1>7, <1>8

(* Every step is one of some purchase. *)
Loud(r) ==
  \/ Accepted(r) \/ Decide(r)
  \/ \E t \in Tasks : On(t, r) /\ (CallReloadly(t) \/ CallLost(t))
  \/ \E a \in Admins : At(a, r) /\ SendRefund(a)

LEMMA SomeStep ==
  ASSUME Inv, Next PROVE \E r \in Requests : Quiet(r) \/ Loud(r)
<1>0. TypeOK
  BY DEF Inv
<1>1. CASE \E r \in Requests :
             \/ Create(r) \/ Accepted(r) \/ Die(r)
             \/ StoreReference(r) \/ StoreAttempt(r) \/ Decide(r) \/ WindowPasses(r)
             \/ \E t \in Tasks : ReceiveWebhook(t, r) \/ RefreshFromProvider(t, r)
             \/ \E a \in Admins : CheckRefund(a, r)
  BY <1>1, QuietSteps DEF Loud
<1>2. ASSUME NEW t \in Tasks,
             \/ Decline(t) \/ CallReloadly(t) \/ CallLost(t)
             \/ RecordAttempt(t) \/ Conclude(t) \/ LoseTask(t)
      PROVE  \E r \in Requests : Quiet(r) \/ Loud(r)
  <2>1. step[t] # "idle"
    BY <1>2 DEF Decline, CallReloadly, CallLost, RecordAttempt, Conclude, LoseTask
  <2>2. PICK r \in Requests : On(t, r)
    BY <1>0, <2>1, KnownTask
  <2> QED
    BY <1>2, <2>2, QuietSteps DEF Loud
<1>3. ASSUME NEW a \in Admins, SendRefund(a) \/ MarkRefunded(a) \/ LoseRefund(a)
      PROVE  \E r \in Requests : Quiet(r) \/ Loud(r)
  <2>1. desk[a] # "idle"
    BY <1>3 DEF SendRefund, MarkRefunded, LoseRefund
  <2>2. PICK r \in Requests : At(a, r)
    BY <1>0, <2>1, KnownDesk
  <2> QED
    BY <1>3, <2>2, QuietSteps DEF Loud
<1> QED
  BY <1>1, <1>2, <1>3 DEF Next

(* A collection that has succeeded stays so. *)
LEMMA HubStays ==
  ASSUME Inv, Next, NEW s \in Requests, hub[s] = "SUCCESS" PROVE hub'[s] = "SUCCESS"
<1>1. PICK r \in Requests : Quiet(r) \/ Loud(r)
  BY SomeStep
<1>2. CASE Accepted(r)
  BY <1>2 DEF Accepted, Inv, TypeOK, Purchase, Begun
<1>3. CASE Decide(r)
  BY <1>3 DEF Decide, Inv, TypeOK
<1>4. CASE ~Accepted(r) /\ ~Decide(r)
  BY <1>1, <1>4 DEF Quiet, Loud, CallReloadly, CallLost, SendRefund
<1> QED
  BY <1>2, <1>3, <1>4

(* A desk that is at s has been, or has just looked at its row. *)
LEMMA DeskComes ==
  ASSUME Inv, Next, NEW s \in Requests, NEW a \in Admins, At(a, s)', ~At(a, s)
  PROVE  CheckRefund(a, s)
<1>0. TypeOK
  BY DEF Inv
<1>1. CASE \E b \in Admins, r \in Requests : CheckRefund(b, r)
  <2> PICK b \in Admins, r \in Requests : CheckRefund(b, r)
    BY <1>1
  <2>1. /\ desk' = [desk EXCEPT ![b] = "checked"]
        /\ \E n : refund' = [refund EXCEPT ![b] = [of |-> r, total |-> n]]
    BY DEF CheckRefund
  <2> QED
    BY <1>0, <2>1 DEF At, TypeOK
<1>2. CASE \E b \in Admins : SendRefund(b)
  BY <1>0, <1>2 DEF SendRefund, At, TypeOK
<1>3. CASE \E b \in Admins : MarkRefunded(b) \/ LoseRefund(b)
  BY <1>0, <1>3, LeaveLemma DEF MarkRefunded, LoseRefund, At
<1>4. CASE UNCHANGED desks
  BY <1>4 DEF desks, At
<1>5. \/ UNCHANGED desks
      \/ \E b \in Admins, r \in Requests : CheckRefund(b, r)
      \/ \E b \in Admins : SendRefund(b) \/ MarkRefunded(b) \/ LoseRefund(b)
  BY DEF Next, Create, Accepted, Die, StoreReference, StoreAttempt, Decide, WindowPasses,
         ReceiveWebhook, RefreshFromProvider, Start, Decline, CallReloadly, CallLost,
         RecordAttempt, Conclude, LoseTask
<1> QED
  BY <1>1, <1>2, <1>3, <1>4, <1>5

(* A trouble noted stays noted. *)
LEMMA TroubleStays ==
  ASSUME Inv, Next, NEW s \in Requests PROVE trouble[s] \subseteq trouble'[s]
<1>0. TypeOK
  BY DEF Inv
<1>1. PICK r \in Requests : Quiet(r) \/ Loud(r)
  BY SomeStep
<1>2. CASE Quiet(r)
  BY <1>0, <1>2 DEF Quiet, TypeOK
<1>3. CASE Loud(r)
  BY <1>0, <1>3 DEF Loud, Accepted, Decide, CallReloadly, CallLost, SendRefund, Note, TypeOK
<1> QED
  BY <1>1, <1>2, <1>3

(* What a step can do to the refunds of s. *)
LEMMA RefundsMove ==
  ASSUME Inv, Next, NEW s \in Requests
  PROVE  \/ /\ refunds'[s] = refunds[s] /\ early'[s] = early[s]
         \/ /\ \E a \in Admins : At(a, s)
            /\ refunds'[s] = refunds[s] + 1
            /\ early'[s] = IF hub[s] = "SUCCESS" THEN early[s] ELSE early[s] + 1
            /\ hub'[s] = hub[s]
<1>0. TypeOK
  BY DEF Inv
<1>1. PICK r \in Requests : Quiet(r) \/ Loud(r)
  BY SomeStep
<1>2. ASSUME NEW a \in Admins, At(a, r), SendRefund(a), r = s
      PROVE  /\ refunds'[s] = refunds[s] + 1
             /\ early'[s] = IF hub[s] = "SUCCESS" THEN early[s] ELSE early[s] + 1
             /\ hub'[s] = hub[s]
  BY <1>0, <1>2 DEF SendRefund, At, TypeOK
<1>3. ASSUME NEW a \in Admins, At(a, r), SendRefund(a), r # s
      PROVE  refunds'[s] = refunds[s] /\ early'[s] = early[s]
  BY <1>0, <1>3 DEF SendRefund, At, TypeOK
<1>4. CASE ~ \E a \in Admins : At(a, r) /\ SendRefund(a)
  BY <1>1, <1>4 DEF Quiet, Loud, Accepted, Decide, CallReloadly, CallLost, returned
<1>5. CASE \E a \in Admins : At(a, r) /\ SendRefund(a)
  <2> PICK a \in Admins : At(a, r) /\ SendRefund(a)
    BY <1>5
  <2>1. CASE r = s
    BY <1>2, <2>1, Zenon
  <2>2. CASE r # s
    BY <1>3, <2>2, Zenon
  <2> QED
    BY <2>1, <2>2
<1> QED
  BY <1>4, <1>5

LEMMA InvarianceCollected == Spec => []Collected
<1>1. Init => Collected
  <2> SUFFICES ASSUME Init, NEW r \in Requests
               PROVE  /\ refunds[r] > 0 \/ (\E a \in Admins : At(a, r)) =>
                           hub[r] = "SUCCESS" \/ "unowed" \in trouble[r]
                      /\ early[r] <= refunds[r]
                      /\ hub[r] # "SUCCESS" => early[r] = refunds[r]
    BY DEF Collected
  <2>1. refunds[r] = 0 /\ early[r] = 0 /\ \A a \in Admins : ~At(a, r)
    BY DEF Init, At
  <2> QED
    BY <2>1
<1>2. Inv /\ Collected /\ [Next]_vars => Collected'
  <2> SUFFICES ASSUME Inv, Collected, [Next]_vars PROVE Collected'
    OBVIOUS
  <2>1. CASE Next
    <3> SUFFICES ASSUME NEW s \in Requests
                 PROVE  /\ refunds'[s] > 0 \/ (\E a \in Admins : At(a, s)') =>
                             hub'[s] = "SUCCESS" \/ "unowed" \in trouble'[s]
                        /\ early'[s] <= refunds'[s]
                        /\ hub'[s] # "SUCCESS" => early'[s] = refunds'[s]
      BY DEF Collected
    <3>1. refunds[s] \in Nat /\ early[s] \in Nat
      BY Known DEF Inv
    <3>2. ASSUME refunds[s] > 0 \/ \E a \in Admins : At(a, s)
          PROVE  hub'[s] = "SUCCESS" \/ "unowed" \in trouble'[s]
      BY <2>1, <3>2, HubStays, TroubleStays DEF Collected
    <3>3. ASSUME NEW a \in Admins, At(a, s)', ~At(a, s)
          PROVE  hub'[s] = "SUCCESS" \/ "unowed" \in trouble'[s]
      <4>1. CheckRefund(a, s)
        BY <2>1, <3>3, DeskComes
      <4>2. CASE Pending(s)
        BY <4>1, <4>2 DEF CheckRefund, Pending, Inv, Purchase, Said
      <4>3. CASE ~Pending(s)
        BY <4>1, <4>3 DEF CheckRefund, Note, Inv, TypeOK
      <4> QED
        BY <4>2, <4>3
    <3>4. refunds'[s] > 0 => refunds[s] > 0 \/ \E a \in Admins : At(a, s)
      BY <2>1, RefundsMove
    <3>5. early'[s] <= refunds'[s]
      BY <2>1, <3>1, RefundsMove DEF Collected
    <3>6. hub'[s] # "SUCCESS" => early'[s] = refunds'[s]
      BY <2>1, <3>1, RefundsMove, HubStays DEF Collected
    <3> QED
      BY <3>2, <3>3, <3>4, <3>5, <3>6
  <2>2. CASE UNCHANGED vars
    BY <2>2 DEF vars, desks, returned, Collected, At
  <2> QED
    BY <2>1, <2>2
<1> QED
  BY <1>1, <1>2, Invariance, PTL DEF Spec

(* processRefund: one refund, none of what was delivered or not collected, *)
(* but for the overlaps and losses named and the rows that were not listed.*)
THEOREM OneRefund == Spec => []RefundedOnce
BY Invariance, InvarianceCollected, InvRefunds, PTL

-----------------------------------------------------------------------------
(* Each step as the promise sees it *)

(* Nothing that the promise looks at changes but of r.                     *)
Apart(r) ==
  \A s \in Requests \ {r} :
    /\ hub'[s] = hub[s] /\ refunds'[s] = refunds[s] /\ early'[s] = early[s]
    /\ delivered'[s] = delivered[s] /\ trouble'[s] = trouble[s]

LEMMA Seen ==
  ASSUME TypeOK, NEW r \in Requests, Apart(r), order' = order,
         delivered' \in [Requests -> Nat],
         Excused(r) => Excused(r)'
  PROVE  /\ ( /\ Held(r) = 0 /\ delivered[r] = 0
              /\ Held(r)' = order[r].amount /\ WasPaid(r)' /\ delivered'[r] = delivered[r] )
            => Promise!Pay(r)
         /\ ( /\ WasPaid(r) /\ WasPaid(r)' /\ Held(r)' = Held(r)
              /\ (Held(r) = order[r].amount /\ delivered[r] = 0) \/ Excused(r)'
              /\ delivered'[r] = delivered[r] + 1 )
            => Promise!Deliver(r)
         /\ ( /\ Held(r) = order[r].amount /\ (delivered[r] = 0 \/ Excused(r)')
              /\ Held(r)' = 0 /\ WasPaid(r)' = WasPaid(r) /\ delivered'[r] = delivered[r] )
            => Promise!GiveBack(r)
         /\ ( Held(r)' = Held(r) /\ WasPaid(r)' = WasPaid(r) /\ delivered'[r] = delivered[r] )
            => Promise!Excuse(r)
<1> DEFINE P == [s \in Requests |-> order[s].amount]
           H == [s \in Requests |-> Held(s)]
           W == [s \in Requests |-> WasPaid(s)]
           E == [s \in Requests |-> Excused(s)]
<1>0. \A s \in Requests \ {r} :
        Held(s)' = Held(s) /\ WasPaid(s)' = WasPaid(s) /\ Excused(s)' = Excused(s)
  BY DEF Apart, Held, WasPaid, Excused
<1>1. P' = P
  OBVIOUS
<1>2. ASSUME NEW h, h = Held(r)' PROVE H' = [H EXCEPT ![r] = h]
  BY <1>0, <1>2
<1>3. ASSUME NEW w, w = WasPaid(r)' PROVE W' = [W EXCEPT ![r] = w]
  BY <1>0, <1>3
<1>4. Promise!MayExcuse(r)
  <2>1. PICK e \in BOOLEAN : e = Excused(r)'
    BY DEF Excused
  <2>2. (Excused(r) \/ e) = e /\ Excused(r) \in BOOLEAN
    BY <2>1 DEF Excused
  <2>3. \A s \in Requests : Excused(s)' = IF s = r THEN E[r] \/ e ELSE E[s]
    BY <1>0, <2>1, <2>2
  <2>4. E' = [E EXCEPT ![r] = @ \/ e]
    BY <2>3
  <2> QED
    BY <2>4 DEF Promise!MayExcuse
<1>5. \A d : d = delivered'[r] => delivered' = [delivered EXCEPT ![r] = d]
  BY DEF Apart, TypeOK
<1>6. ASSUME Held(r) = 0, delivered[r] = 0,
             Held(r)' = order[r].amount, WasPaid(r)', delivered'[r] = delivered[r]
      PROVE  Promise!Pay(r)
  <2>1. H' = [H EXCEPT ![r] = P[r]]
    BY <1>2, <1>6
  <2>2. W' = [W EXCEPT ![r] = TRUE]
    BY <1>3, <1>6 DEF WasPaid
  <2>3. delivered' = delivered
    BY <1>5, <1>6 DEF TypeOK
  <2>4. H[r] = 0 /\ Promise!Fresh(r)
    BY <1>6 DEF Promise!Fresh
  <2> QED
    BY <1>1, <1>4, <2>1, <2>2, <2>3, <2>4 DEF Promise!Pay
<1>7. ASSUME WasPaid(r), WasPaid(r)', Held(r)' = Held(r),
             (Held(r) = order[r].amount /\ delivered[r] = 0) \/ Excused(r)',
             delivered'[r] = delivered[r] + 1
      PROVE  Promise!Deliver(r)
  <2>1. H' = H
    BY <1>0, <1>7
  <2>2. W' = W /\ W[r]
    BY <1>0, <1>7 DEF WasPaid
  <2>3. delivered' = [delivered EXCEPT ![r] = @ + 1]
    BY <1>7 DEF Apart, TypeOK
  <2>4. (H[r] = P[r] /\ Promise!Fresh(r)) \/ E'[r]
    BY <1>7 DEF Promise!Fresh
  <2> QED
    BY <1>1, <1>4, <2>1, <2>2, <2>3, <2>4 DEF Promise!Deliver
<1>8. ASSUME Held(r) = order[r].amount, delivered[r] = 0 \/ Excused(r)',
             Held(r)' = 0, WasPaid(r)' = WasPaid(r), delivered'[r] = delivered[r]
      PROVE  Promise!GiveBack(r)
  <2>1. H' = [H EXCEPT ![r] = 0]
    BY <1>2, <1>8
  <2>2. W' = W
    BY <1>0, <1>8
  <2>3. delivered' = delivered
    BY <1>5, <1>8 DEF TypeOK
  <2>4. H[r] = P[r] /\ (Promise!Fresh(r) \/ E'[r])
    BY <1>8 DEF Promise!Fresh
  <2> QED
    BY <1>1, <1>4, <2>1, <2>2, <2>3, <2>4 DEF Promise!GiveBack
<1>9. ASSUME Held(r)' = Held(r), WasPaid(r)' = WasPaid(r), delivered'[r] = delivered[r]
      PROVE  Promise!Excuse(r)
  <2>1. H' = H /\ W' = W
    BY <1>0, <1>9
  <2>2. delivered' = delivered
    BY <1>5, <1>9 DEF TypeOK
  <2> QED
    BY <1>1, <1>4, <2>1, <2>2 DEF Promise!Excuse
<1> QED
  BY <1>6, <1>7, <1>8, <1>9

LEMMA QuietKeeps == ASSUME Inv, NEW r \in Requests, Quiet(r) PROVE Promise!Excuse(r)
<1>1. PICK what \in SUBSET Troubles : trouble' = [trouble EXCEPT ![r] = @ \cup what]
  BY DEF Quiet
<1>2. UNCHANGED <<order, hub, delivered, refunds, early>> /\ TypeOK
  BY DEF Quiet, Inv
<1>3. Apart(r)
  BY <1>1, <1>2 DEF Apart, TypeOK
<1>4. trouble'[r] = trouble[r] \cup what
  BY <1>1, <1>2 DEF TypeOK
<1>5. Excused(r) => Excused(r)'
  BY <1>4 DEF Excused
<1>6. Held(r)' = Held(r) /\ WasPaid(r)' = WasPaid(r)
  BY <1>2 DEF Held, WasPaid
<1> QED
  BY <1>2, <1>3, <1>5, <1>6, Seen DEF TypeOK

(* Before HUB2 decides nothing has been delivered, and what has gone back  *)
(* already was sent early.                                                 *)
LEMMA HubKeeps ==
  ASSUME Inv, Collected, NEW r \in Requests, Accepted(r) \/ Decide(r) PROVE Promise!Next
<1>1. /\ UNCHANGED <<order, delivered, refunds, early, trouble>>
      /\ hub[r] \in {"NONE", "PENDING"} /\ TypeOK /\ Purchase(r)
  BY DEF Accepted, Decide, GoTo, purchase, goods, returned, Inv, Purchase, Begun
<1>2. PICK d : hub' = [hub EXCEPT ![r] = d]
  BY DEF Accepted, Decide
<1>3. Apart(r) /\ hub'[r] = d
  BY <1>1, <1>2 DEF Apart, TypeOK
<1>4. /\ delivered[r] = 0 /\ refunds[r] = early[r]
      /\ delivered'[r] = delivered[r] /\ delivered' \in [Requests -> Nat]
  BY <1>1, Known DEF Purchase, Said, Collected, TypeOK
<1>5. Excused(r) => Excused(r)'
  BY <1>1 DEF Excused
<1>6. Held(r) = 0 /\ WasPaid(r) = FALSE
  BY <1>1 DEF Held, WasPaid
<1>7. CASE d = "SUCCESS"
  <2>1. Held(r)' = order[r].amount /\ WasPaid(r)'
    BY <1>1, <1>3, <1>4, <1>7 DEF Held, WasPaid
  <2>2. Promise!Pay(r)
    BY <1>1, <1>3, <1>4, <1>5, <1>6, <2>1, Seen
  <2> QED
    BY <2>2 DEF Promise!Next
<1>8. CASE d # "SUCCESS"
  <2>1. Held(r)' = Held(r) /\ WasPaid(r)' = WasPaid(r)
    BY <1>3, <1>6, <1>8 DEF Held, WasPaid
  <2>2. Promise!Excuse(r)
    BY <1>1, <1>3, <1>4, <1>5, <2>1, Seen
  <2> QED
    BY <2>2 DEF Promise!Next
<1> QED
  BY <1>7, <1>8

(* Unless something excuses it, the finalisation that calls is the first,  *)
(* and nothing has been refunded.                                          *)
LEMMA CallKeeps ==
  ASSUME Inv, Collected, NEW t \in Tasks, NEW r \in Requests, On(t, r),
         CallReloadly(t) \/ CallLost(t)
  PROVE  Promise!Next
<1>1. /\ UNCHANGED <<order, hub, refunds, early>> /\ step[t] = "read" /\ task[t].paid
      /\ TypeOK /\ Purchase(r)
  BY DEF CallReloadly, CallLost, Unpaid, purchase, returned, Inv
<1>2. PICK n \in {0, 1}, what \in SUBSET Troubles :
        /\ Served(r, n, PurchaseAmount(t))
        /\ trouble' = [trouble EXCEPT ![r] = @ \cup what]
        /\ CallLost(t) => what = {"lost"}
  <2>1. CASE CallLost(t)
    BY <2>1 DEF CallLost, On, Note, Troubles
  <2>2. CASE CallReloadly(t) /\ ~CallLost(t)
    <3> PICK reply \in Replies :
          /\ Served(r, reply[2], PurchaseAmount(t))
          /\ Note(r, IF reply = <<"PROCESSING", 1>> THEN {"late"} ELSE {})
      BY <2>2 DEF CallReloadly, On
    <3>1. reply[2] \in {0, 1}
      BY DEF Replies
    <3> QED
      BY <2>2, <3>1 DEF Note, Troubles
  <2> QED
    BY <2>1, <2>2
<1>3. /\ delivered' \in [Requests -> Nat]
      /\ delivered'[r] = delivered[r] + n
      /\ \A s \in Requests \ {r} : delivered'[s] = delivered[s]
  BY <1>1, <1>2, AmountLemma, ServedLemma
<1>4. Apart(r)
  BY <1>1, <1>2, <1>3 DEF Apart, TypeOK
<1>5. trouble'[r] = trouble[r] \cup what
  BY <1>1, <1>2 DEF TypeOK
<1>6. Excused(r) => Excused(r)'
  BY <1>5 DEF Excused
<1>7. WasPaid(r) /\ WasPaid(r)' /\ Held(r)' = Held(r)
  BY <1>1 DEF Purchase, Informed, WasPaid, Held
<1>8. CASE n = 0
  <2>1. delivered'[r] = delivered[r]
    BY <1>1, <1>3, <1>8, Known
  <2>2. Promise!Excuse(r)
    BY <1>1, <1>3, <1>4, <1>6, <1>7, <2>1, Seen DEF WasPaid
  <2> QED
    BY <2>2 DEF Promise!Next
<1>9. CASE n = 1
  <2>1. ASSUME ~Excused(r)
        PROVE  Held(r) = order[r].amount /\ delivered[r] = 0
    <3>1. Without(r, {"overlap"}) /\ Without(r, {"overlap", "lost"})
          /\ Without(r, {"overlap", "lost", "late"})
      BY <2>1 DEF Excused, Without
    <3>2. delivered[r] = 0
      BY <1>1, <3>1 DEF Purchase, Ordered
    <3>3. ~Pending(r)
      BY <1>1, <3>1 DEF Purchase, OneByOne, AlreadyFinal, Pending
    <3>4. refunds[r] = 0 /\ early[r] = 0
      BY <1>1, <2>1, <3>1, <3>3, Known DEF Purchase, Unserved, Excused, Collected
    <3> QED
      BY <1>7, <3>2, <3>4 DEF Held, WasPaid
  <2>2. delivered'[r] = delivered[r] + 1
    BY <1>3, <1>9
  <2>3. Promise!Deliver(r)
    BY <1>1, <1>3, <1>4, <1>6, <1>7, <2>1, <2>2, Seen
  <2> QED
    BY <2>3 DEF Promise!Next
<1> QED
  BY <1>8, <1>9

(* The first transfer gives the collection back; a second one gives what   *)
(* the promise knows nothing of.                                           *)
LEMMA SendKeeps ==
  ASSUME Inv, Collected, NEW a \in Admins, NEW r \in Requests, At(a, r), SendRefund(a)
  PROVE  Promise!Next
<1>1. /\ UNCHANGED <<order, hub, delivered, trouble>>
      /\ refunds' = [refunds EXCEPT ![r] = @ + 1]
      /\ early' = IF hub[r] = "SUCCESS" THEN early ELSE [early EXCEPT ![r] = @ + 1]
      /\ TypeOK /\ Purchase(r)
  BY DEF SendRefund, At, purchase, goods, Inv
<1>2. Apart(r)
  BY <1>1 DEF Apart, TypeOK
<1>3. /\ refunds'[r] = refunds[r] + 1 /\ refunds[r] \in Nat
      /\ delivered'[r] = delivered[r] /\ delivered' \in [Requests -> Nat]
  BY <1>1 DEF TypeOK
<1>4. Excused(r) => Excused(r)'
  BY <1>1 DEF Excused
<1>5. WasPaid(r)' = WasPaid(r)
  BY <1>1 DEF WasPaid
<1>6. /\ early[r] \in Nat /\ early[r] <= refunds[r]
      /\ hub[r] = "SUCCESS" => early'[r] = early[r]
  BY <1>1, Known DEF Collected
<1>7. CASE hub[r] = "SUCCESS" /\ refunds[r] = early[r]
  <2>1. Held(r) = order[r].amount /\ Held(r)' = 0
    BY <1>1, <1>3, <1>6, <1>7 DEF Held
  <2>2. delivered[r] = 0 \/ Excused(r)'
    BY <1>1 DEF Purchase, Unserved, Without, Excused
  <2>3. Promise!GiveBack(r)
    BY <1>1, <1>2, <1>3, <1>4, <1>5, <2>1, <2>2, Seen
  <2> QED
    BY <2>3 DEF Promise!Next
<1>8. CASE ~(hub[r] = "SUCCESS" /\ refunds[r] = early[r])
  <2>1. Held(r) = 0 /\ Held(r)' = 0
    BY <1>1, <1>3, <1>6, <1>8 DEF Held
  <2>2. Promise!Excuse(r)
    BY <1>1, <1>2, <1>3, <1>4, <1>5, <2>1, Seen
  <2> QED
    BY <2>2 DEF Promise!Next
<1> QED
  BY <1>7, <1>8

LEMMA PromiseInit == Init => Promise!Init
<1> SUFFICES ASSUME Init PROVE Promise!Init
  OBVIOUS
<1>1. ASSUME NEW r \in Requests
      PROVE  Held(r) = 0 /\ WasPaid(r) = FALSE /\ Excused(r) = FALSE
  BY DEF Init, Held, WasPaid, Excused
<1>2. delivered = [r \in Requests |-> 0]
  BY DEF Init
<1> QED
  BY <1>1, <1>2 DEF Promise!Init

LEMMA PromiseNext == Inv /\ Collected /\ [Next]_vars => [Promise!Next]_(Promise!vars)
<1> SUFFICES ASSUME Inv, Collected, [Next]_vars PROVE [Promise!Next]_(Promise!vars)
  OBVIOUS
<1>1. CASE Next
  <2> PICK r \in Requests : Quiet(r) \/ Loud(r)
    BY <1>1, SomeStep
  <2>1. CASE Quiet(r)
    BY <2>1, QuietKeeps DEF Promise!Next
  <2>2. CASE Loud(r)
    BY <2>2, HubKeeps, CallKeeps, SendKeeps DEF Loud
  <2> QED
    BY <2>1, <2>2
<1>2. CASE UNCHANGED vars
  BY <1>2 DEF vars, purchase, goods, returned, Promise!vars, Held, WasPaid, Excused
<1> QED
  BY <1>1, <1>2

(* AirtimeOrders implements PaidDelivery: webhooks, polls, lost calls and  *)
(* administrators' refunds are, seen from the payer, steps the promise     *)
(* allows.                                                                 *)
THEOREM KeepsPromise == Spec => PromiseSpec
BY PromiseInit, PromiseNext, Invariance, InvarianceCollected, PTL
   DEF Spec, PromiseSpec, Promise!Spec
=============================================================================
