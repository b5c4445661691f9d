-------------------------- MODULE PurchasesProofs --------------------------
(***************************************************************************)
(* Purchases at Reloadly, for any number of requests, wallets and keys,    *)
(* any prices and any number of retries.  Row says what each place of a    *)
(* handler has left in the row and the ledger, Goods what Reloadly may     *)
(* have delivered by then; HeldOnce and LockedOnce are what the unique key *)
(* and the locks of Postgres add.  Then, step by step, the refinement of   *)
(* PaidDelivery, and what that specification is worth by itself.           *)
(***************************************************************************)
EXTENDS Purchases, TLAPS

Places == {"idle", "admitted", "open", "called", "debited", "answered",
           "refunded", "done", "refused", "dead"}

Airtime(r) == order[r].route = "AIRTIME"
Sale(r) == order[r].route = "SALE"

Paid(r) == flow[r] = 0 - Total(r)
Free(r) == flow[r] = 0

Row(r) ==
  /\ pc[r] \in {"idle", "admitted", "open", "called", "refused"} => status[r] = "NONE" /\ Free(r)
  /\ pc[r] \in {"debited", "answered"} => status[r] = "PROCESSING" /\ Paid(r)
  /\ pc[r] = "refunded" => status[r] = "PROCESSING" /\ Free(r) /\ answer[r] = "FAILED" /\ ~Sale(r)
  /\ pc[r] = "done" /\ answer[r] = "FAILED" /\ ~Sale(r) => Free(r)
  /\ pc[r] = "done" /\ (answer[r] # "FAILED" \/ Sale(r)) => Paid(r)
  /\ pc[r] = "done" => status[r] = answer[r]
  /\ pc[r] = "dead" /\ Airtime(r) => status[r] = "NONE" /\ Free(r)
  /\ pc[r] = "dead" /\ ~Airtime(r) => status[r] = "PROCESSING" /\ (Free(r) \/ Paid(r))

(* Which places a route goes through, and where an answer is there. *)
Path(r) ==
  /\ pc[r] \in {"open", "called"} => Airtime(r)
  /\ pc[r] \in {"debited", "answered", "refunded"} => ~Airtime(r)
  /\ pc[r] = "called" => answer[r] \in {"SUCCESS", "FAILED"}
  /\ pc[r] \in {"answered", "done"} => answer[r] # "NONE"

Goods(r) ==
  /\ ~Airtime(r) => aborted[r] = 0
  /\ pc[r] \in {"idle", "admitted", "open", "refused", "debited"} => delivered[r] <= aborted[r]
  /\ delivered[r] <= aborted[r] + 1
  /\ pc[r] \in {"answered", "refunded", "done"} /\ answer[r] = "FAILED" /\ ~Airtime(r) /\ ~Sale(r)
       => delivered[r] = 0

(* The row of r exists, or is inserted by a transaction under way. *)
Holds(r) == status[r] # "NONE" \/ Underway(r)

HeldOnce == \A r \in Requests : \A s \in SameKey(r) : ~(Holds(r) /\ Holds(s))

LockedOnce ==
  \A r \in Requests :
    Underway(r) =>
      /\ Covered(r)
      /\ ~WalletLocked(r)

Inv ==
  /\ TypeOK
  /\ \A r \in Requests : Row(r) /\ Path(r) /\ Goods(r)
  /\ HeldOnce
  /\ LockedOnce

-----------------------------------------------------------------------------
LEMMA OrderTypes ==
  ASSUME NEW r \in Requests, order \in [Requests -> Orders]
  PROVE  /\ order[r] \in Orders
         /\ order[r].route \in Routes /\ order[r].wallet \in Wallets
         /\ order[r].amount \in Nat \ {0} /\ order[r].fee \in Nat
         /\ Total(r) \in Nat \ {0}
BY PurchasesAssumption DEF Order, Total

(* A step of request r: nothing of any other request changes. *)
Alone(r) ==
  \A s \in Requests \ {r} :
    /\ pc'[s] = pc[s] /\ answer'[s] = answer[s] /\ status'[s] = status[s]
    /\ aborted'[s] = aborted[s] /\ flow'[s] = flow[s] /\ delivered'[s] = delivered[s]

(* What has to be shown of a step of request r that may touch its wallet.  *)
LEMMA StepLemma ==
  ASSUME Inv, NEW r \in Requests, order' = order, TypeOK', Alone(r),
         Row(r)', Path(r)', Goods(r)',
         Holds(r)' => Holds(r) \/ (~KeyTaken(r) /\ ~KeyLocked(r)),
         Underway(r)' => Covered(r)' /\ (Underway(r) \/ ~WalletLocked(r)),
         \A w \in Wallets :
           \/ balance'[w] >= balance[w]
           \/ w = order[r].wallet /\ (Underway(r) \/ ~WalletLocked(r))
  PROVE  Inv'
<1>1. ASSUME NEW s \in Requests PROVE Row(s)' /\ Path(s)' /\ Goods(s)'
  <2>1. CASE s = r
    BY <2>1
  <2>2. CASE s # r
    <3>1. Row(s) /\ Path(s) /\ Goods(s)
      BY DEF Inv
    <3>2. /\ pc'[s] = pc[s] /\ answer'[s] = answer[s] /\ status'[s] = status[s]
          /\ aborted'[s] = aborted[s] /\ flow'[s] = flow[s] /\ delivered'[s] = delivered[s]
      BY <2>2 DEF Alone
    <3>3. Row(s)'
      BY <3>1, <3>2 DEF Row, Paid, Free, Total, Sale, Airtime
    <3>4. Path(s)' /\ Goods(s)'
      BY <3>1, <3>2 DEF Path, Goods, Sale, Airtime
    <3> QED
      BY <3>3, <3>4
  <2> QED
    BY <2>1, <2>2
<1>2. \A s \in Requests \ {r} : (Holds(s)' <=> Holds(s)) /\ (Underway(s)' <=> Underway(s))
  BY DEF Alone, Holds, Underway
<1>3. HeldOnce'
  <2> SUFFICES ASSUME NEW a \in Requests, NEW b \in SameKey(a)', Holds(a)', Holds(b)'
               PROVE  FALSE
    BY DEF HeldOnce
  <2>1. b \in SameKey(a) /\ a \in SameKey(b) /\ b # a /\ b \in Requests
    BY DEF SameKey
  <2>2. CASE a # r /\ b # r
    BY <1>2, <2>1, <2>2 DEF Inv, HeldOnce
  <2>3. CASE a = r \/ b = r
    <3> PICK c \in Requests : c # r /\ c \in SameKey(r) /\ Holds(c)'
      BY <2>1, <2>3
    <3>1. Holds(c)
      BY <1>2
    <3>2. KeyTaken(r) \/ KeyLocked(r)
      BY <3>1 DEF Holds, KeyTaken, KeyLocked
    <3>3. Holds(r)
      BY <2>3, <3>2
    <3> QED
      BY <3>1, <3>3 DEF Inv, HeldOnce
  <2> QED
    BY <2>2, <2>3
<1>4. LockedOnce'
  <2> SUFFICES ASSUME NEW a \in Requests, Underway(a)' PROVE Covered(a)' /\ ~WalletLocked(a)'
    BY DEF LockedOnce
  <2>0. /\ order[a].wallet \in Wallets /\ order[r].wallet \in Wallets
        /\ Total(a) \in Nat /\ Total(a)' = Total(a)
    BY OrderTypes DEF Inv, TypeOK, Total
  <2>1. CASE a = r
    <3>1. ~WalletLocked(r)
      BY <2>1 DEF Inv, LockedOnce
    <3>2. ~WalletLocked(r)'
      BY <3>1, <1>2 DEF WalletLocked
    <3> QED
      BY <2>1, <3>2
  <2>2. CASE a # r
    <3>1. Underway(a) /\ Covered(a) /\ ~WalletLocked(a)
      BY <1>2, <2>2 DEF Inv, LockedOnce
    <3>2. order[a].wallet = order[r].wallet => ~Underway(r) /\ WalletLocked(r)
      BY <2>2, <3>1 DEF WalletLocked
    <3>3. balance'[order[a].wallet] >= balance[order[a].wallet]
      BY <2>0, <3>2
    <3>4. Covered(a)'
      <4>1. balance[order[a].wallet] \in Nat /\ balance'[order[a].wallet] \in Nat
        BY <2>0 DEF Inv, TypeOK
      <4> QED
        BY <2>0, <3>1, <3>3, <4>1 DEF Covered
    <3>5. ~WalletLocked(a)'
      <4> SUFFICES ASSUME NEW b \in Requests \ {a}, Underway(b)', order[b].wallet = order[a].wallet
                   PROVE  FALSE
        BY DEF WalletLocked
      <4>1. CASE b = r
        BY <3>2, <4>1
      <4>2. CASE b # r
        BY <1>2, <3>1, <4>2 DEF WalletLocked
      <4> QED
        BY <4>1, <4>2
    <3> QED
      BY <3>4, <3>5
  <2> QED
    BY <2>1, <2>2
<1> QED
  BY <1>1, <1>3, <1>4 DEF Inv

(* The types every step of r must keep, and what TypeOK says of r.         *)
LEMMA Known ==
  ASSUME Inv, NEW r \in Requests
  PROVE  /\ Row(r) /\ Path(r) /\ Goods(r)
         /\ pc[r] \in Places /\ attempts[r] \in 0..MaxAttempts /\ aborted[r] \in Nat
         /\ answer[r] \in Answers /\ status[r] \in Answers
         /\ flow[r] \in Int /\ delivered[r] \in Nat
         /\ order[r].route \in Routes /\ order[r].wallet \in Wallets
         /\ order[r].amount \in Nat \ {0} /\ order[r].fee \in Nat
         /\ Total(r) \in Nat \ {0} /\ balance[order[r].wallet] \in Nat
<1>1. Row(r) /\ Path(r) /\ Goods(r) /\ TypeOK
  BY DEF Inv
<1>2. /\ order[r].route \in Routes /\ order[r].wallet \in Wallets
      /\ order[r].amount \in Nat \ {0} /\ order[r].fee \in Nat
      /\ Total(r) \in Nat \ {0}
  BY <1>1, OrderTypes DEF TypeOK
<1> QED
  BY <1>1, <1>2 DEF TypeOK, Places

LEMMA InitInv == Init => Inv
<1> SUFFICES ASSUME Init PROVE Inv
  OBVIOUS
<1>1. TypeOK
  BY PurchasesAssumption DEF Init, TypeOK, Answers
<1>2. \A r \in Requests : Row(r) /\ Path(r)
  BY DEF Init, Row, Path, Free
<1>3. ASSUME NEW r \in Requests PROVE Goods(r)
  <2>1. pc[r] = "idle" /\ aborted[r] = 0 /\ delivered[r] = 0
    BY DEF Init
  <2> QED
    BY <2>1 DEF Goods
<1>4. HeldOnce /\ LockedOnce
  BY DEF Init, HeldOnce, LockedOnce, Holds, Underway
<1> QED
  BY <1>1, <1>2, <1>3, <1>4 DEF Inv

-----------------------------------------------------------------------------
(* Steps that only change the place of r *)

LEMMA PlaceStep ==
  ASSUME Inv, NEW r \in Requests, Admit(r) \/ Refuse(r) \/ Die(r)
  PROVE  Inv'
<1>1. UNCHANGED <<order, attempts, aborted, answer, status, balance, flow, delivered>>
  BY DEF Admit, Refuse, Die
<1>2. PICK place \in Places \ {"open", "called"} : pc' = [pc EXCEPT ![r] = place]
  BY DEF Admit, Refuse, Die, GoTo, Places
<1>3. TypeOK'
  BY <1>1, <1>2 DEF Inv, TypeOK, Places
<1>4. Alone(r)
  BY <1>1, <1>2 DEF Alone, Inv, TypeOK
<1>5. \/ pc[r] = "idle" /\ pc'[r] \in {"admitted", "refused"}
      \/ pc[r] = "admitted" /\ pc'[r] = "refused"
      \/ pc[r] \in {"open", "called", "debited", "answered", "refunded"} /\ pc'[r] = "dead"
  BY DEF Admit, Refuse, Die, GoTo, Inv, TypeOK
<1>6. Row(r)'
  BY <1>1, <1>5, Known DEF Row, Path, Free, Paid, Total, Airtime, Sale
<1>7. Path(r)' /\ Goods(r)'
  BY <1>1, <1>5, Known DEF Path, Goods, Airtime, Sale
<1>8. ~Underway(r)' /\ (Holds(r)' => Holds(r))
  BY <1>1, <1>5 DEF Holds, Underway
<1>9. \A w \in Wallets : balance'[w] >= balance[w]
  BY <1>1 DEF Inv, TypeOK
<1> QED
  BY <1>1, <1>3, <1>4, <1>6, <1>7, <1>8, <1>9, StepLemma

-----------------------------------------------------------------------------
(* Reloadly *)

(* Only a refusal is decoded as one, but for airtime and merchants' sales; *)
(* airtime knows success and failure only.                                 *)
LEMMA DecodedLemma ==
  ASSUME NEW route \in Routes, NEW reply \in Replies, NEW n \in Deliveries(reply)
  PROVE  /\ Decoded(route, reply) \in Answers \ {"NONE"}
         /\ n \in {0, 1}
         /\ route = "AIRTIME" => Decoded(route, reply) \in {"SUCCESS", "FAILED"}
         /\ route \notin {"AIRTIME", "SALE"} /\ Decoded(route, reply) = "FAILED" => n = 0
BY DEF Routes, Replies, Deliveries, Decoded, Answers

LEMMA CallStep ==
  ASSUME Inv, NEW r \in Requests, CallAirtime(r) \/ PlaceOrder(r)
  PROVE  Inv'
<1>1. /\ UNCHANGED <<order, attempts, aborted, status, balance, flow>>
      /\ \/ pc[r] = "open" /\ pc' = [pc EXCEPT ![r] = "called"]
         \/ pc[r] = "debited" /\ pc' = [pc EXCEPT ![r] = "answered"]
  BY DEF CallAirtime, PlaceOrder, CallReloadly, GoTo
<1>2. PICK reply \in Replies : \E n \in Deliveries(reply) :
        /\ answer' = [answer EXCEPT ![r] = Decoded(order[r].route, reply)]
        /\ delivered' = [delivered EXCEPT ![r] = @ + n]
  BY DEF CallAirtime, PlaceOrder, CallReloadly
<1>3. PICK n \in Deliveries(reply) :
        /\ answer' = [answer EXCEPT ![r] = Decoded(order[r].route, reply)]
        /\ delivered' = [delivered EXCEPT ![r] = @ + n]
  BY <1>2
<1> DEFINE a == Decoded(order[r].route, reply)
<1>4. /\ a \in Answers \ {"NONE"} /\ n \in {0, 1}
      /\ Airtime(r) => a \in {"SUCCESS", "FAILED"}
      /\ ~Airtime(r) /\ ~Sale(r) /\ a = "FAILED" => n = 0
  BY Known, DecodedLemma DEF Airtime, Sale
<1> HIDE DEF a
<1>5. /\ answer' = [answer EXCEPT ![r] = a]
      /\ delivered' = [delivered EXCEPT ![r] = @ + n]
  BY <1>3 DEF a
<1>6. TypeOK'
  BY <1>1, <1>4, <1>5 DEF Inv, TypeOK
<1>7. Alone(r)
  BY <1>1, <1>5 DEF Alone, Inv, TypeOK
<1>8. /\ answer'[r] = a /\ delivered'[r] = delivered[r] + n
      /\ \/ pc[r] = "open" /\ pc'[r] = "called"
         \/ pc[r] = "debited" /\ pc'[r] = "answered"
  BY <1>1, <1>5 DEF Inv, TypeOK
<1>9. Row(r)'
  BY <1>1, <1>8, Known DEF Row, Free, Paid, Total, Airtime, Sale
<1>10. Path(r)'
  BY <1>1, <1>4, <1>8, Known DEF Path, Airtime
<1>11. Goods(r)'
  BY <1>1, <1>4, <1>8, Known DEF Goods, Path, Airtime, Sale
<1>12. /\ Holds(r)' => Holds(r)
       /\ Underway(r)' => Covered(r)' /\ Underway(r)
  BY <1>1, <1>8 DEF Holds, Underway, Inv, LockedOnce, Covered, Total
<1>13. \A w \in Wallets : balance'[w] >= balance[w]
  BY <1>1 DEF Inv, TypeOK
<1> QED
  BY <1>1, <1>6, <1>7, <1>9, <1>10, <1>11, <1>12, <1>13, StepLemma

LEMMA CallLostStep == ASSUME Inv, NEW r \in Requests, CallLost(r) PROVE Inv'
<1>1. PICK n \in {0, 1} : delivered' = [delivered EXCEPT ![r] = @ + n]
  BY DEF CallLost
<1>2. /\ UNCHANGED <<order, attempts, aborted, answer, status, balance, flow>>
      /\ pc' = [pc EXCEPT ![r] = "dead"] /\ pc[r] \in {"open", "debited"}
  BY DEF CallLost, GoTo
<1>3. TypeOK' /\ Alone(r)
  BY <1>1, <1>2 DEF Inv, TypeOK, Alone
<1>4. pc'[r] = "dead" /\ delivered'[r] = delivered[r] + n
  BY <1>1, <1>2 DEF Inv, TypeOK
<1>5. Row(r)'
  BY <1>2, <1>4, Known DEF Row, Path, Free, Paid, Total, Airtime, Sale
<1>6. Path(r)' /\ Goods(r)'
  BY <1>2, <1>4, Known DEF Path, Goods, Airtime, Sale
<1>7. ~Underway(r)' /\ (Holds(r)' => Holds(r))
  BY <1>2, <1>4 DEF Holds, Underway
<1>8. \A w \in Wallets : balance'[w] >= balance[w]
  BY <1>2 DEF Inv, TypeOK
<1> QED
  BY <1>2, <1>3, <1>5, <1>6, <1>7, <1>8, StepLemma

-----------------------------------------------------------------------------
(* AIRTIME *)

LEMMA OpenStep == ASSUME Inv, NEW r \in Requests, OpenAirtime(r) PROVE Inv'
<1>1. /\ UNCHANGED <<order, aborted, answer, status, balance, flow, delivered>>
      /\ pc[r] = "admitted" /\ Airtime(r)
      /\ ~KeyTaken(r) /\ ~KeyLocked(r) /\ ~WalletLocked(r) /\ Covered(r)
      /\ pc' = [pc EXCEPT ![r] = "open"]
      /\ attempts[r] < MaxAttempts /\ attempts' = [attempts EXCEPT ![r] = @ + 1]
  BY DEF OpenAirtime, GoTo, Airtime
<1>2. TypeOK' /\ Alone(r) /\ pc'[r] = "open"
  <2>1. attempts' \in [Requests -> 0..MaxAttempts]
    BY <1>1, PurchasesAssumption DEF Inv, TypeOK
  <2> QED
    BY <1>1, <2>1 DEF Inv, TypeOK, Alone
<1>3. Row(r)'
  BY <1>1, <1>2, Known DEF Row, Free, Paid, Total, Airtime, Sale
<1>4. Path(r)' /\ Goods(r)'
  BY <1>1, <1>2, Known DEF Path, Goods, Airtime, Sale
<1>5. Covered(r)'
  BY <1>1 DEF Covered, Total
<1>6. \A w \in Wallets : balance'[w] >= balance[w]
  BY <1>1 DEF Inv, TypeOK
<1> QED
  BY <1>1, <1>2, <1>3, <1>4, <1>5, <1>6, StepLemma

(* The balance was checked when the transaction opened, and the wallet has *)
(* been locked since.                                                      *)
LEMMA CommitStep == ASSUME Inv, NEW r \in Requests, CommitAirtime(r) PROVE Inv'
<1> DEFINE paid == IF answer[r] = "SUCCESS" THEN Total(r) ELSE 0
           w == order[r].wallet
<1>1. /\ UNCHANGED <<order, attempts, aborted, answer, delivered>>
      /\ pc[r] = "called" /\ pc' = [pc EXCEPT ![r] = "done"]
      /\ status' = [status EXCEPT ![r] = answer[r]]
      /\ balance' = [balance EXCEPT ![w] = @ - paid]
      /\ flow' = [flow EXCEPT ![r] = 0 - paid]
  BY DEF CommitAirtime, GoTo
<1>2. Underway(r) /\ Covered(r) /\ ~WalletLocked(r) /\ Airtime(r)
  BY <1>1, Known DEF Underway, Inv, LockedOnce, Path
<1>3. balance[w] >= paid /\ paid \in Nat /\ w \in Wallets /\ balance[w] \in Nat
  BY <1>2, Known DEF Covered
<1> HIDE DEF paid
<1>4. TypeOK'
  <2>1. balance' \in [Wallets -> Nat]
    BY <1>1, <1>3 DEF Inv, TypeOK
  <2>2. flow' \in [Requests -> Int]
    BY <1>1, <1>3 DEF Inv, TypeOK
  <2> QED
    BY <1>1, <2>1, <2>2 DEF Inv, TypeOK
<1>5. Alone(r)
  BY <1>1 DEF Inv, TypeOK, Alone
<1>6. pc'[r] = "done" /\ status'[r] = answer[r] /\ flow'[r] = 0 - paid
  BY <1>1 DEF Inv, TypeOK
<1>7. Row(r)'
  BY <1>1, <1>2, <1>6, Known DEF paid, Row, Path, Free, Paid, Total, Airtime, Sale
<1>8. Path(r)' /\ Goods(r)'
  BY <1>1, <1>2, <1>6, Known DEF Path, Goods, Airtime, Sale
<1>9. ~Underway(r)' /\ Holds(r)
  BY <1>2, <1>6 DEF Underway, Holds
<1>10. \A v \in Wallets : balance'[v] >= balance[v] \/ (v = w /\ Underway(r))
  BY <1>1, <1>2 DEF Inv, TypeOK
<1> QED
  BY <1>1, <1>4, <1>5, <1>7, <1>8, <1>9, <1>10, StepLemma

LEMMA ConflictStep == ASSUME Inv, NEW r \in Requests, ConflictAirtime(r) PROVE Inv'
<1>1. PICK place \in {"admitted", "refused"} : pc' = [pc EXCEPT ![r] = place]
  BY DEF ConflictAirtime, GoTo
<1> DEFINE n == IF pc[r] = "called" THEN 1 ELSE 0
<1>2. aborted' = [aborted EXCEPT ![r] = @ + n]
  BY DEF ConflictAirtime
<1>3. /\ UNCHANGED <<order, attempts, answer, status, balance, flow, delivered>>
      /\ pc[r] \in {"open", "called"}
  BY DEF ConflictAirtime, Underway
<1>4. TypeOK' /\ Alone(r)
  BY <1>1, <1>2, <1>3 DEF Inv, TypeOK, Alone
<1>5. pc'[r] = place /\ aborted'[r] = aborted[r] + n
  BY <1>1, <1>2 DEF Inv, TypeOK
<1>6. Row(r)'
  BY <1>3, <1>5, Known DEF Row, Free, Paid, Total, Airtime, Sale
<1>7. Path(r)' /\ Goods(r)'
  BY <1>3, <1>5, Known DEF Path, Goods, Airtime, Sale
<1>8. ~Underway(r)' /\ (Holds(r)' => Holds(r))
  BY <1>3, <1>5 DEF Holds, Underway
<1>9. \A w \in Wallets : balance'[w] >= balance[w]
  BY <1>3 DEF Inv, TypeOK
<1> QED
  BY <1>3, <1>4, <1>6, <1>7, <1>8, <1>9, StepLemma

-----------------------------------------------------------------------------
(* GIFT_CARD, BILL, SALE *)

LEMMA DebitStep == ASSUME Inv, NEW r \in Requests, Debit(r) PROVE Inv'
<1> DEFINE w == order[r].wallet
<1>1. /\ UNCHANGED <<order, attempts, aborted, answer, delivered>>
      /\ pc[r] = "admitted" /\ ~Airtime(r) /\ pc' = [pc EXCEPT ![r] = "debited"]
      /\ ~KeyTaken(r) /\ ~KeyLocked(r) /\ ~WalletLocked(r) /\ Covered(r)
      /\ status' = [status EXCEPT ![r] = "PROCESSING"]
      /\ balance' = [balance EXCEPT ![w] = @ - Total(r)]
      /\ flow' = [flow EXCEPT ![r] = 0 - Total(r)]
  BY DEF Debit, GoTo, Airtime
<1>2. balance[w] >= Total(r) /\ Total(r) \in Nat /\ w \in Wallets /\ balance[w] \in Nat
  BY <1>1, Known DEF Covered
<1>3. TypeOK'
  <2>1. balance' \in [Wallets -> Nat]
    BY <1>1, <1>2 DEF Inv, TypeOK
  <2>2. flow' \in [Requests -> Int]
    BY <1>1, <1>2 DEF Inv, TypeOK
  <2> QED
    BY <1>1, <2>1, <2>2 DEF Inv, TypeOK, Answers
<1>4. Alone(r)
  BY <1>1 DEF Inv, TypeOK, Alone
<1>5. pc'[r] = "debited" /\ status'[r] = "PROCESSING" /\ flow'[r] = 0 - Total(r)
  BY <1>1 DEF Inv, TypeOK
<1>6. Row(r)'
  BY <1>1, <1>5, Known DEF Row, Free, Paid, Total, Airtime, Sale
<1>7. Path(r)' /\ Goods(r)'
  BY <1>1, <1>5, Known DEF Path, Goods, Airtime, Sale
<1>8. ~Underway(r)'
  BY <1>5 DEF Underway
<1>9. \A v \in Wallets : balance'[v] >= balance[v] \/ v = w
  BY <1>1 DEF Inv, TypeOK
<1> QED
  BY <1>1, <1>3, <1>4, <1>6, <1>7, <1>8, <1>9, StepLemma

LEMMA RefundStep == ASSUME Inv, NEW r \in Requests, Refund(r) PROVE Inv'
<1> DEFINE w == order[r].wallet
<1>1. /\ UNCHANGED <<order, attempts, aborted, answer, status, delivered>>
      /\ pc[r] = "answered" /\ answer[r] = "FAILED" /\ ~Sale(r)
      /\ pc' = [pc EXCEPT ![r] = "refunded"] /\ ~WalletLocked(r)
      /\ balance' = [balance EXCEPT ![w] = @ + Total(r)]
      /\ flow' = [flow EXCEPT ![r] = @ + Total(r)]
  BY DEF Refund, GoTo, Sale
<1>2. w \in Wallets /\ Total(r) \in Nat /\ balance[w] \in Nat /\ flow[r] \in Int
  BY Known
<1>3. TypeOK'
  <2>1. balance' \in [Wallets -> Nat]
    BY <1>1, <1>2 DEF Inv, TypeOK
  <2>2. flow' \in [Requests -> Int]
    BY <1>1, <1>2 DEF Inv, TypeOK
  <2> QED
    BY <1>1, <2>1, <2>2 DEF Inv, TypeOK
<1>4. Alone(r)
  BY <1>1 DEF Inv, TypeOK, Alone
<1>5. pc'[r] = "refunded" /\ flow'[r] = flow[r] + Total(r)
  BY <1>1 DEF Inv, TypeOK
<1>6. Free(r)'
  <2>1. flow[r] = 0 - Total(r)
    BY <1>1, Known DEF Row, Paid
  <2> QED
    BY <1>2, <1>5, <2>1 DEF Free
<1>7. Row(r)'
  BY <1>1, <1>5, <1>6, Known DEF Row, Sale
<1>8. Path(r)' /\ Goods(r)'
  BY <1>1, <1>5, Known DEF Path, Goods, Airtime, Sale
<1>9. ~Underway(r)' /\ (Holds(r)' => Holds(r))
  BY <1>1, <1>5 DEF Holds, Underway
<1>10. \A v \in Wallets : balance'[v] >= balance[v]
  BY <1>1, <1>2 DEF Inv, TypeOK
<1> QED
  BY <1>1, <1>3, <1>4, <1>7, <1>8, <1>9, <1>10, StepLemma

LEMMA ConcludeStep == ASSUME Inv, NEW r \in Requests, Conclude(r) PROVE Inv'
<1>1. /\ UNCHANGED <<order, attempts, aborted, answer, balance, flow, delivered>>
      /\ pc' = [pc EXCEPT ![r] = "done"] /\ status' = [status EXCEPT ![r] = answer[r]]
      /\ \/ pc[r] = "refunded"
         \/ pc[r] = "answered" /\ (answer[r] # "FAILED" \/ Sale(r))
  BY DEF Conclude, GoTo, Sale
<1>2. TypeOK' /\ Alone(r) /\ pc'[r] = "done" /\ status'[r] = answer[r]
  BY <1>1 DEF Inv, TypeOK, Alone
<1>3. Row(r)'
  BY <1>1, <1>2, Known DEF Row, Free, Paid, Total, Airtime, Sale
<1>4. Path(r)' /\ Goods(r)'
  BY <1>1, <1>2, Known DEF Row, Path, Goods, Airtime, Sale
<1>5. ~Underway(r)' /\ Holds(r)
  BY <1>1, <1>2, Known DEF Row, Holds, Underway
<1>6. \A w \in Wallets : balance'[w] >= balance[w]
  BY <1>1 DEF Inv, TypeOK
<1> QED
  BY <1>1, <1>2, <1>3, <1>4, <1>5, <1>6, StepLemma

-----------------------------------------------------------------------------
LEMMA NextInv == Inv /\ [Next]_vars => Inv'
<1> SUFFICES ASSUME Inv, [Next]_vars PROVE Inv'
  OBVIOUS
<1>1. CASE Next
  <2> PICK r \in Requests :
        \/ Admit(r) \/ Refuse(r) \/ Die(r) \/ CallLost(r)
        \/ OpenAirtime(r) \/ CallAirtime(r) \/ CommitAirtime(r) \/ ConflictAirtime(r)
        \/ Debit(r) \/ PlaceOrder(r) \/ Refund(r) \/ Conclude(r)
    BY <1>1 DEF Next
  <2> QED
    BY PlaceStep, CallStep, CallLostStep, OpenStep, CommitStep, ConflictStep, DebitStep,
       RefundStep, ConcludeStep
<1>2. CASE UNCHANGED vars
  <2>1. TypeOK' /\ HeldOnce' /\ LockedOnce'
    BY <1>2 DEF vars, Inv, TypeOK, HeldOnce, LockedOnce, Holds, Underway, SameKey, Covered,
                WalletLocked, Total
  <2>2. \A r \in Requests : Row(r)' /\ Path(r)' /\ Goods(r)'
    BY <1>2 DEF vars, Inv, Row, Path, Goods, Free, Paid, Total, Airtime, Sale
  <2> QED
    BY <2>1, <2>2 DEF Inv
<1> QED
  BY <1>1, <1>2

LEMMA Invariance == Spec => []Inv
BY InitInv, NextInv, PTL DEF Spec

-----------------------------------------------------------------------------
(* What the invariant says of money and goods *)

LEMMA InvMoney == Inv => PaidInFullOrNotAtAll /\ RowsAreTrue
<1> SUFFICES ASSUME Inv, NEW r \in Requests
             PROVE  /\ flow[r] \in {0, 0 - Total(r)}
                    /\ ~Sale(r) =>
                         /\ status[r] = "FAILED" => flow[r] = 0
                         /\ status[r] = "SUCCESS" => flow[r] = 0 - Total(r)
                         /\ status[r] = "FAILED" /\ ~Airtime(r) => delivered[r] = 0
  BY DEF PaidInFullOrNotAtAll, RowsAreTrue, Sale, Airtime
<1>1. flow[r] \in {0, 0 - Total(r)}
  BY Known DEF Row, Free, Paid, Places
<1>2. status[r] \in {"SUCCESS", "FAILED"} => pc[r] = "done" /\ status[r] = answer[r]
  BY Known DEF Row, Places
<1> QED
  BY <1>1, <1>2, Known DEF Row, Goods, Free, Paid

(* A delivery that no rollback and no death explains is that of the one    *)
(* request that holds the key.                                             *)
LEMMA Explained ==
  ASSUME Inv, NEW r \in Requests, delivered[r] > 0
  PROVE  aborted[r] > 0 \/ Holds(r) \/ (Airtime(r) /\ pc[r] = "dead")
<1>1. CASE pc[r] \in {"idle", "admitted", "open", "refused", "debited"}
  BY <1>1, Known DEF Goods
<1>2. CASE pc[r] \in {"called", "answered", "refunded", "done", "dead"}
  BY <1>2, Known DEF Row, Path, Holds, Underway
<1> QED
  BY <1>1, <1>2, Known DEF Places

LEMMA InvGoods == Inv => DeliveriesAreBounded
<1> SUFFICES ASSUME Inv, NEW r \in Requests, NEW s \in Requests
             PROVE  /\ delivered[r] <= aborted[r] + 1
                    /\ s \in SameKey(r) /\ delivered[r] > 0 /\ delivered[s] > 0 =>
                         \E q \in {r, s} :
                           aborted[q] > 0 \/ (order[q].route = "AIRTIME" /\ pc[q] = "dead")
  BY DEF DeliveriesAreBounded
<1>1. delivered[r] <= aborted[r] + 1
  BY Known DEF Goods
<1>2. ASSUME s \in SameKey(r), delivered[r] > 0, delivered[s] > 0
      PROVE  \E q \in {r, s} : aborted[q] > 0 \/ (order[q].route = "AIRTIME" /\ pc[q] = "dead")
  <2>1. ~(Holds(r) /\ Holds(s))
    BY <1>2 DEF Inv, HeldOnce
  <2> QED
    BY <1>2, <2>1, Explained DEF Airtime
<1> QED
  BY <1>1, <1>2

-----------------------------------------------------------------------------
(* Every reachable state is well typed: no balance is driven below zero    *)
(* although gift cards and bills are debited before Reloadly is called,    *)
(* and airtime after.                                                      *)
THEOREM TypeCorrect == Spec => []TypeOK
BY Invariance, PTL DEF Inv

(* purchaseGiftCard, payUtilityBill, purchaseAirtimeFromWallet: a purchase *)
(* costs its price and fee, or nothing.                                    *)
THEOREM NoPartialPayment == Spec => []PaidInFullOrNotAtAll
BY Invariance, InvMoney, PTL

(* The final rows of customers' purchases say what was paid, and failed    *)
(* gift cards and bills were not delivered.                                *)
THEOREM TrueRows == Spec => []RowsAreTrue
BY Invariance, InvMoney, PTL

(* The unique key and the rollbacks bound what Reloadly delivers.          *)
THEOREM BoundedDeliveries == Spec => []DeliveriesAreBounded
BY Invariance, InvGoods, PTL

-----------------------------------------------------------------------------
(* The promise of a purchase *)

(* The abstract state of all requests but r stays.                         *)
Apart(r) ==
  \A s \in Requests \ {r} :
    /\ Held(s)' = Held(s) /\ WasPaid(s)' = WasPaid(s)
    /\ delivered'[s] = delivered[s] /\ Excused(s)' = Excused(s)

(* One request at a time: how its step is seen by the promise.             *)
LEMMA Seen ==
  ASSUME Inv, NEW r \in Requests, Apart(r), order' = order,
         delivered' \in [Requests -> Nat],
         Excused(r) => Excused(r)'
  PROVE  /\ ( /\ Held(r) = 0 /\ (delivered[r] = 0 \/ Excused(r))
              /\ Held(r)' = Total(r) /\ WasPaid(r)' /\ delivered'[r] = delivered[r] )
            => Promise!Pay(r)
         /\ ( /\ WasPaid(r) /\ WasPaid(r)' /\ Held(r)' = Held(r)
              /\ (Held(r) = Total(r) /\ delivered[r] = 0) \/ Excused(r)'
              /\ delivered'[r] = delivered[r] + 1 )
            => Promise!Deliver(r)
         /\ ( /\ Held(r) = Total(r) /\ (delivered[r] = 0 \/ Excused(r)')
              /\ Held(r)' = 0 /\ WasPaid(r)' = WasPaid(r) /\ delivered'[r] = delivered[r] )
            => Promise!GiveBack(r)
         /\ ( /\ WasPaid(r) /\ Held(r) = Total(r) /\ Excused(r)' /\ Held(r)' = 0
              /\ WasPaid(r)' = WasPaid(r) /\ delivered'[r] = delivered[r] + 1 )
            => Promise!Lose(r)
         /\ ( Held(r)' = Held(r) /\ WasPaid(r)' = WasPaid(r) /\ delivered'[r] = delivered[r] )
            => Promise!Excuse(r)
<1> DEFINE H == [s \in Requests |-> Held(s)]
           W == [s \in Requests |-> WasPaid(s)]
           E == [s \in Requests |-> Excused(s)]
<1>1. [s \in Requests |-> Total(s)]' = [s \in Requests |-> Total(s)]
  BY DEF Total
<1>2. ASSUME NEW h, h = Held(r)' PROVE H' = [H EXCEPT ![r] = h]
  BY <1>2 DEF Apart
<1>3. ASSUME NEW w, w = WasPaid(r)' PROVE W' = [W EXCEPT ![r] = w]
  BY <1>3 DEF Apart
<1>4. Promise!MayExcuse(r)
  <2>1. PICK e \in BOOLEAN : e = Excused(r)'
    BY DEF Excused
  <2>2. (Excused(r) \/ e) = e /\ Excused(r) \in BOOLEAN
    BY <2>1 DEF Excused
  <2>3. \A s \in Requests : Excused(s)' = IF s = r THEN E[r] \/ e ELSE E[s]
    BY <2>1, <2>2 DEF Apart
  <2>4. E' = [E EXCEPT ![r] = @ \/ e]
    BY <2>3
  <2> QED
    BY <2>4 DEF Promise!MayExcuse
<1>5. \A d : d = delivered'[r] => delivered' = [delivered EXCEPT ![r] = d]
  BY DEF Apart, Inv, TypeOK
<1>6. ASSUME Held(r) = 0, delivered[r] = 0 \/ Excused(r),
              Held(r)' = Total(r), WasPaid(r)', delivered'[r] = delivered[r]
      PROVE  Promise!Pay(r)
  <2>1. H' = [H EXCEPT ![r] = [s \in Requests |-> Total(s)][r]]
    BY <1>2, <1>6
  <2>2. W' = [W EXCEPT ![r] = TRUE]
    BY <1>3, <1>6
  <2>3. delivered' = delivered
    BY <1>5, <1>6 DEF Inv, TypeOK
  <2>4. H[r] = 0 /\ (E[r] \/ Promise!Fresh(r))
    BY <1>6 DEF Promise!Fresh
  <2> QED
    BY <1>1, <1>4, <2>1, <2>2, <2>3, <2>4 DEF Promise!Pay
<1>7. ASSUME WasPaid(r), WasPaid(r)', Held(r)' = Held(r),
              (Held(r) = Total(r) /\ delivered[r] = 0) \/ Excused(r)',
              delivered'[r] = delivered[r] + 1
      PROVE  Promise!Deliver(r)
  <2>1. H' = H
    BY <1>7 DEF Apart
  <2>2. W' = W /\ W[r]
    BY <1>7 DEF Apart, WasPaid
  <2>3. delivered' = [delivered EXCEPT ![r] = @ + 1]
    BY <1>7 DEF Apart, Inv, TypeOK
  <2>4. (H[r] = [s \in Requests |-> Total(s)][r] /\ Promise!Fresh(r)) \/ E'[r]
    BY <1>7 DEF Promise!Fresh
  <2> QED
    BY <1>1, <1>4, <2>1, <2>2, <2>3, <2>4 DEF Promise!Deliver
<1>8. ASSUME Held(r) = Total(r), delivered[r] = 0 \/ Excused(r)',
              Held(r)' = 0, WasPaid(r)' = WasPaid(r), delivered'[r] = delivered[r]
      PROVE  Promise!GiveBack(r)
  <2>1. H' = [H EXCEPT ![r] = 0]
    BY <1>2, <1>8
  <2>2. W' = W
    BY <1>8 DEF Apart
  <2>3. delivered' = delivered
    BY <1>5, <1>8 DEF Inv, TypeOK
  <2>4. H[r] = [s \in Requests |-> Total(s)][r] /\ (Promise!Fresh(r) \/ E'[r])
    BY <1>8 DEF Promise!Fresh
  <2> QED
    BY <1>1, <1>4, <2>1, <2>2, <2>3, <2>4 DEF Promise!GiveBack
<1>9. ASSUME WasPaid(r), Held(r) = Total(r), Excused(r)', Held(r)' = 0,
              WasPaid(r)' = WasPaid(r), delivered'[r] = delivered[r] + 1
      PROVE  Promise!Lose(r)
  <2>1. H' = [H EXCEPT ![r] = 0]
    BY <1>2, <1>9
  <2>2. W' = W
    BY <1>9 DEF Apart
  <2>3. delivered' = [delivered EXCEPT ![r] = @ + 1]
    BY <1>9 DEF Apart, Inv, TypeOK
  <2>4. W[r] /\ H[r] = [s \in Requests |-> Total(s)][r] /\ E'[r]
    BY <1>9
  <2> QED
    BY <1>1, <1>4, <2>1, <2>2, <2>3, <2>4 DEF Promise!Lose
<1>10. ASSUME Held(r)' = Held(r), WasPaid(r)' = WasPaid(r), delivered'[r] = delivered[r]
       PROVE  Promise!Excuse(r)
  <2>1. H' = H
    BY <1>10 DEF Apart
  <2>2. W' = W
    BY <1>10 DEF Apart
  <2>3. delivered' = delivered
    BY <1>5, <1>10 DEF Inv, TypeOK
  <2> QED
    BY <1>1, <1>4, <2>1, <2>2, <2>3 DEF Promise!Excuse
<1> QED
  BY <1>6, <1>7, <1>8, <1>9, <1>10

(* An airtime request that is under way has opened its transaction.        *)
Opened == \A r \in Requests : Underway(r) => attempts[r] > 0

LEMMA InvarianceOpened == Spec => []Opened
<1>1. Init => Opened
  BY DEF Init, Opened, Underway
<1>2. Inv /\ Opened /\ [Next]_vars => Opened'
  <2> SUFFICES ASSUME Inv, Opened, [Next]_vars, NEW s \in Requests, Underway(s)'
               PROVE  attempts'[s] > 0
    BY DEF Opened
  <2>1. CASE Next
    <3> PICK r \in Requests :
          \/ Admit(r) \/ Refuse(r) \/ Die(r) \/ CallLost(r)
          \/ OpenAirtime(r) \/ CallAirtime(r) \/ CommitAirtime(r) \/ ConflictAirtime(r)
          \/ Debit(r) \/ PlaceOrder(r) \/ Refund(r) \/ Conclude(r)
      BY <2>1 DEF Next
    <3>1. CASE OpenAirtime(r)
      <4>1. s # r => Underway(s) /\ attempts'[s] = attempts[s]
        BY <3>1 DEF OpenAirtime, GoTo, Underway, Inv, TypeOK
      <4>2. attempts'[r] = attempts[r] + 1 /\ attempts[r] \in Nat
        BY <3>1 DEF OpenAirtime, Inv, TypeOK
      <4> QED
        BY <4>1, <4>2 DEF Opened
    <3>2. CASE ~OpenAirtime(r)
      <4>1. attempts' = attempts
        BY <3>2 DEF Admit, Refuse, Die, CallLost, CallAirtime, PlaceOrder, CallReloadly,
                    CommitAirtime, ConflictAirtime, Debit, Refund, Conclude
      <4>2. Underway(s)
        BY <3>2 DEF Admit, Refuse, Die, CallLost, CallAirtime, PlaceOrder, CallReloadly,
                    CommitAirtime, ConflictAirtime, Debit, Refund, Conclude, GoTo, Underway,
                    Inv, TypeOK
      <4> QED
        BY <4>1, <4>2 DEF Opened
    <3> QED
      BY <3>1, <3>2
  <2>2. CASE UNCHANGED vars
    BY <2>2 DEF vars, Opened, Underway
  <2> QED
    BY <2>1, <2>2
<1> QED
  BY <1>1, <1>2, Invariance, PTL DEF Spec

(* What the promise looks at, of a request that does not move.             *)
LEMMA Others ==
  ASSUME NEW r \in Requests, Alone(r), order' = order,
         \A s \in Requests \ {r} : attempts'[s] = attempts[s]
  PROVE  Apart(r)
<1> SUFFICES ASSUME NEW s \in Requests \ {r}
             PROVE  /\ Held(s)' = Held(s) /\ WasPaid(s)' = WasPaid(s)
                    /\ delivered'[s] = delivered[s] /\ Excused(s)' = Excused(s)
  BY DEF Apart
<1>1. /\ pc'[s] = pc[s] /\ answer'[s] = answer[s] /\ status'[s] = status[s]
      /\ aborted'[s] = aborted[s] /\ flow'[s] = flow[s] /\ delivered'[s] = delivered[s]
      /\ attempts'[s] = attempts[s]
  BY DEF Alone
<1>2. Held(s)' = Held(s)
  BY <1>1 DEF Held, Total, Underway
<1>3. WasPaid(s)' = WasPaid(s)
  BY <1>1 DEF WasPaid
<1>4. Excused(s)' = Excused(s)
  BY <1>1 DEF Excused
<1> QED
  BY <1>1, <1>2, <1>3, <1>4

-----------------------------------------------------------------------------
(* Each step as the promise sees it *)

LEMMA PlaceKeeps ==
  ASSUME Inv, Opened, NEW r \in Requests, Admit(r) \/ Refuse(r) \/ Die(r)
  PROVE  Promise!Next
<1>1. UNCHANGED <<order, attempts, aborted, answer, status, balance, flow, delivered>>
  BY DEF Admit, Refuse, Die
<1>2. PICK place \in Places \ {"open", "called"} : pc' = [pc EXCEPT ![r] = place]
  BY DEF Admit, Refuse, Die, GoTo, Places
<1>3. Apart(r)
  <2>1. Alone(r)
    BY <1>1, <1>2 DEF Alone, Inv, TypeOK
  <2> QED
    BY <1>1, <2>1, Others
<1>4. /\ pc'[r] \in Places \ {"open", "called"}
      /\ pc[r] # "dead"
      /\ Underway(r) => pc'[r] = "dead"
  BY <1>2 DEF Admit, Refuse, Die, GoTo, Inv, TypeOK, Underway
<1>5. /\ Excused(r) => Excused(r)'
      /\ WasPaid(r)' = WasPaid(r) /\ delivered'[r] = delivered[r]
      /\ delivered' \in [Requests -> Nat]
  BY <1>1, <1>4 DEF Excused, WasPaid, Inv, TypeOK
<1>6. Held(r)' = 0 - flow[r]
  BY <1>1, <1>4 DEF Held, Underway
<1>7. CASE Underway(r)
  <2>1. flow[r] = 0 /\ Airtime(r)
    BY <1>7, Known DEF Row, Path, Free, Underway
  <2>2. Held(r)' = 0 /\ Held(r) = Total(r)
    BY <1>6, <1>7, <2>1 DEF Held
  <2>3. Excused(r)'
    BY <1>1, <1>4, <1>7, <2>1 DEF Excused, Airtime
  <2>4. Promise!GiveBack(r)
    BY <1>1, <1>3, <1>5, <2>2, <2>3, Seen
  <2> QED
    BY <2>4 DEF Promise!Next
<1>8. CASE ~Underway(r)
  <2>1. Held(r)' = Held(r)
    BY <1>6, <1>8 DEF Held
  <2>2. Promise!Excuse(r)
    BY <1>1, <1>3, <1>5, <2>1, Seen
  <2> QED
    BY <2>2 DEF Promise!Next
<1> QED
  BY <1>7, <1>8

(* Reloadly delivers at most once to a request that has called it once.    *)
LEMMA CallKeeps ==
  ASSUME Inv, Opened, NEW r \in Requests, CallAirtime(r) \/ PlaceOrder(r)
  PROVE  Promise!Next
<1>1. /\ UNCHANGED <<order, attempts, aborted, status, balance, flow>>
      /\ \/ pc[r] = "open" /\ pc' = [pc EXCEPT ![r] = "called"]
         \/ pc[r] = "debited" /\ pc' = [pc EXCEPT ![r] = "answered"]
  BY DEF CallAirtime, PlaceOrder, CallReloadly, GoTo
<1>2. PICK reply \in Replies : \E n \in Deliveries(reply) :
        /\ answer' = [answer EXCEPT ![r] = Decoded(order[r].route, reply)]
        /\ delivered' = [delivered EXCEPT ![r] = @ + n]
  BY DEF CallAirtime, PlaceOrder, CallReloadly
<1>3. PICK n \in Deliveries(reply) :
        /\ answer' = [answer EXCEPT ![r] = Decoded(order[r].route, reply)]
        /\ delivered' = [delivered EXCEPT ![r] = @ + n]
  BY <1>2
<1>4. n \in {0, 1}
  BY Known, DecodedLemma
<1>5. Apart(r)
  <2>1. Alone(r)
    BY <1>1, <1>3 DEF Alone, Inv, TypeOK
  <2> QED
    BY <1>1, <2>1, Others
<1>6. /\ delivered'[r] = delivered[r] + n /\ delivered' \in [Requests -> Nat]
      /\ \/ pc[r] = "open" /\ pc'[r] = "called"
         \/ pc[r] = "debited" /\ pc'[r] = "answered"
  BY <1>1, <1>3, <1>4 DEF Inv, TypeOK
<1>7. /\ delivered[r] \in Nat /\ aborted[r] \in Nat /\ aborted'[r] = aborted[r]
      /\ delivered[r] <= aborted[r] /\ (~Airtime(r) => aborted[r] = 0)
  BY <1>1, <1>6, Known DEF Goods
<1>8. delivered[r] > 0 \/ Excused(r) => Excused(r)'
  BY <1>1, <1>6, <1>7 DEF Excused, Airtime
<1>9. WasPaid(r) /\ WasPaid(r)'
  BY <1>1, <1>6, Known DEF WasPaid, Opened, Underway, Row
<1>10. Held(r)' = Held(r) /\ Held(r) = Total(r)
  <2>1. pc[r] = "debited" => flow[r] = 0 - Total(r)
    BY Known DEF Row, Paid
  <2> QED
    BY <1>1, <1>6, <2>1, Known DEF Held, Underway, Total
<1>11. CASE n = 0
  <2>1. Promise!Excuse(r)
    <3>1. delivered'[r] = delivered[r]
      BY <1>6, <1>7, <1>11
    <3> QED
      BY <1>1, <1>5, <1>6, <1>8, <1>9, <1>10, <3>1, Seen DEF WasPaid
  <2> QED
    BY <2>1 DEF Promise!Next
<1>12. CASE n = 1
  <2>1. (Held(r) = Total(r) /\ delivered[r] = 0) \/ Excused(r)'
    BY <1>7, <1>8, <1>10
  <2>2. delivered'[r] = delivered[r] + 1
    BY <1>6, <1>12
  <2>3. Promise!Deliver(r)
    BY <1>1, <1>5, <1>6, <1>8, <1>9, <1>10, <2>1, <2>2, Seen
  <2> QED
    BY <2>3 DEF Promise!Next
<1> QED
  BY <1>4, <1>11, <1>12

(* Only airtime can lose its debit while Reloadly answers.                 *)
LEMMA CallLostKeeps ==
  ASSUME Inv, Opened, NEW r \in Requests, CallLost(r) PROVE Promise!Next
<1>1. PICK n \in {0, 1} : delivered' = [delivered EXCEPT ![r] = @ + n]
  BY DEF CallLost
<1>2. /\ UNCHANGED <<order, attempts, aborted, answer, status, balance, flow>>
      /\ pc' = [pc EXCEPT ![r] = "dead"] /\ pc[r] \in {"open", "debited"}
  BY DEF CallLost, GoTo
<1>3. Apart(r)
  <2>1. Alone(r)
    BY <1>1, <1>2 DEF Alone, Inv, TypeOK
  <2> QED
    BY <1>2, <2>1, Others
<1>4. /\ pc'[r] = "dead" /\ delivered'[r] = delivered[r] + n
      /\ delivered' \in [Requests -> Nat]
  BY <1>1, <1>2 DEF Inv, TypeOK
<1>5. /\ delivered[r] \in Nat /\ aborted[r] \in Nat
      /\ delivered[r] <= aborted[r] /\ (~Airtime(r) => aborted[r] = 0)
  BY <1>2, Known DEF Goods
<1>6. WasPaid(r) /\ WasPaid(r)'
  BY <1>2, Known DEF WasPaid, Opened, Underway, Row
<1>7. Excused(r) => Excused(r)'
  BY <1>2, <1>4 DEF Excused
<1>8. Held(r)' = 0 - flow[r]
  BY <1>2, <1>4 DEF Held, Underway
<1>9. CASE pc[r] = "open"
  <2>1. flow[r] = 0 /\ Airtime(r)
    BY <1>9, Known DEF Row, Path, Free
  <2>2. Held(r) = Total(r) /\ Held(r)' = 0 /\ Excused(r)'
    BY <1>2, <1>4, <1>8, <1>9, <2>1 DEF Held, Underway, Excused, Airtime
  <2>3. CASE n = 0
    <3>1. delivered'[r] = delivered[r]
      BY <1>4, <1>5, <2>3
    <3>2. Promise!GiveBack(r)
      BY <1>2, <1>3, <1>4, <1>6, <2>2, <3>1, Seen
    <3> QED
      BY <3>2 DEF Promise!Next
  <2>4. CASE n = 1
    <3>1. delivered'[r] = delivered[r] + 1
      BY <1>4, <2>4
    <3>2. Promise!Lose(r)
      BY <1>2, <1>3, <1>4, <1>6, <2>2, <3>1, Seen
    <3> QED
      BY <3>2 DEF Promise!Next
  <2> QED
    BY <1>1, <2>3, <2>4
<1>10. CASE pc[r] = "debited"
  <2>1. flow[r] = 0 - Total(r) /\ delivered[r] = 0
    BY <1>5, <1>10, Known DEF Row, Path, Paid
  <2>2. Held(r) = 0 - flow[r]
    BY <1>10 DEF Held, Underway
  <2>3. Held(r) = Total(r) /\ Held(r)' = Held(r)
    BY <1>8, <2>1, <2>2, Known
  <2>4. CASE n = 0
    <3>1. delivered'[r] = delivered[r]
      BY <1>4, <1>5, <2>4
    <3>2. Promise!Excuse(r)
      BY <1>2, <1>3, <1>4, <1>6, <1>7, <2>3, <3>1, Seen DEF WasPaid
    <3> QED
      BY <3>2 DEF Promise!Next
  <2>5. CASE n = 1
    <3>1. delivered'[r] = delivered[r] + 1
      BY <1>4, <2>5
    <3>2. Promise!Deliver(r)
      BY <1>2, <1>3, <1>4, <1>6, <1>7, <2>1, <2>3, <3>1, Seen
    <3> QED
      BY <3>2 DEF Promise!Next
  <2> QED
    BY <1>1, <2>4, <2>5
<1> QED
  BY <1>2, <1>9, <1>10

(* Airtime may open again, but what was delivered before excuses it.       *)
LEMMA PayKeeps ==
  ASSUME Inv, NEW r \in Requests, OpenAirtime(r) \/ Debit(r) PROVE Promise!Next
<1>1. /\ UNCHANGED <<order, aborted, answer, delivered>>
      /\ pc[r] = "admitted"
      /\ \A s \in Requests \ {r} : attempts'[s] = attempts[s]
  BY DEF OpenAirtime, Debit, Inv, TypeOK
<1>2. Apart(r)
  <2>1. Alone(r)
    BY DEF OpenAirtime, Debit, GoTo, Alone, Inv, TypeOK
  <2> QED
    BY <1>1, <2>1, Others
<1>3. /\ delivered[r] \in Nat /\ aborted[r] \in Nat
      /\ delivered[r] <= aborted[r] /\ (~Airtime(r) => aborted[r] = 0)
      /\ flow[r] = 0 /\ Total(r) \in Nat
  BY <1>1, Known DEF Goods, Row, Free
<1>4. Held(r) = 0
  BY <1>1, <1>3 DEF Held, Underway
<1>5. delivered[r] = 0 \/ Excused(r)
  BY <1>3 DEF Excused, Airtime
<1>6. Held(r)' = Total(r) /\ WasPaid(r)' /\ pc'[r] # "dead"
  <2>1. CASE OpenAirtime(r)
    <3>1. pc'[r] = "open" /\ attempts'[r] = attempts[r] + 1 /\ attempts[r] \in Nat
      BY <2>1 DEF OpenAirtime, GoTo, Inv, TypeOK
    <3>2. Held(r)' = Total(r)
      BY <1>1, <3>1 DEF Held, Underway, Total
    <3> QED
      BY <3>1, <3>2 DEF WasPaid
  <2>2. CASE Debit(r)
    <3>1. pc'[r] = "debited" /\ status'[r] = "PROCESSING" /\ flow'[r] = 0 - Total(r)
      BY <2>2 DEF Debit, GoTo, Inv, TypeOK
    <3>2. Held(r)' = 0 - (0 - Total(r))
      BY <3>1 DEF Held, Underway
    <3>3. WasPaid(r)'
      BY <3>1 DEF WasPaid
    <3> QED
      BY <1>3, <3>1, <3>2, <3>3
  <2> QED
    BY <2>1, <2>2
<1>7. Excused(r) => Excused(r)'
  BY <1>1 DEF Excused
<1>8. delivered' \in [Requests -> Nat] /\ delivered'[r] = delivered[r]
  BY <1>1 DEF Inv, TypeOK
<1>9. Promise!Pay(r)
  BY <1>1, <1>2, <1>4, <1>5, <1>6, <1>7, <1>8, Seen
<1> QED
  BY <1>9 DEF Promise!Next

(* A refusal that Reloadly takes back is its own excuse.                   *)
LEMMA CommitKeeps ==
  ASSUME Inv, Opened, NEW r \in Requests, CommitAirtime(r) PROVE Promise!Next
<1> DEFINE cost == IF answer[r] = "SUCCESS" THEN Total(r) ELSE 0
<1>1. /\ UNCHANGED <<order, attempts, aborted, answer, delivered>>
      /\ pc[r] = "called" /\ pc' = [pc EXCEPT ![r] = "done"]
      /\ status' = [status EXCEPT ![r] = answer[r]]
      /\ flow' = [flow EXCEPT ![r] = 0 - cost]
  BY DEF CommitAirtime, GoTo
<1> HIDE DEF cost
<1>2. Apart(r)
  <2>1. Alone(r)
    BY <1>1 DEF Alone, Inv, TypeOK
  <2> QED
    BY <1>1, <2>1, Others
<1>3. /\ pc'[r] = "done" /\ status'[r] = answer[r] /\ flow'[r] = 0 - cost
      /\ delivered' \in [Requests -> Nat] /\ delivered'[r] = delivered[r]
  BY <1>1 DEF Inv, TypeOK
<1>4. /\ Airtime(r) /\ answer[r] \in {"SUCCESS", "FAILED"} /\ cost \in Nat
      /\ delivered[r] \in Nat /\ Total(r) \in Nat
  BY <1>1, Known DEF Path, cost
<1>5. Held(r) = Total(r) /\ Held(r)' = cost
  <2>1. Held(r)' = 0 - (0 - cost)
    BY <1>3 DEF Held, Underway
  <2> QED
    BY <1>1, <1>4, <2>1 DEF Held, Underway
<1>6. WasPaid(r) /\ WasPaid(r)'
  BY <1>1, <1>3 DEF WasPaid, Opened, Underway
<1>7. Excused(r) => Excused(r)'
  BY <1>1, <1>3 DEF Excused
<1>8. CASE answer[r] = "SUCCESS"
  <2>1. Held(r)' = Held(r)
    BY <1>5, <1>8 DEF cost
  <2>2. Promise!Excuse(r)
    BY <1>1, <1>2, <1>3, <1>6, <1>7, <2>1, Seen DEF WasPaid
  <2> QED
    BY <2>2 DEF Promise!Next
<1>9. CASE answer[r] = "FAILED"
  <2>1. Held(r)' = 0
    BY <1>5, <1>9 DEF cost
  <2>2. delivered[r] = 0 \/ Excused(r)'
    BY <1>1, <1>4, <1>9 DEF Excused, Airtime
  <2>3. Promise!GiveBack(r)
    BY <1>1, <1>2, <1>3, <1>5, <1>6, <1>7, <2>1, <2>2, Seen
  <2> QED
    BY <2>3 DEF Promise!Next
<1> QED
  BY <1>4, <1>8, <1>9

LEMMA ConflictKeeps ==
  ASSUME Inv, NEW r \in Requests, ConflictAirtime(r) PROVE Promise!Next
<1>1. PICK place \in {"admitted", "refused"} : pc' = [pc EXCEPT ![r] = place]
  BY DEF ConflictAirtime, GoTo
<1> DEFINE n == IF pc[r] = "called" THEN 1 ELSE 0
<1>2. aborted' = [aborted EXCEPT ![r] = @ + n]
  BY DEF ConflictAirtime
<1>3. /\ UNCHANGED <<order, attempts, answer, status, balance, flow, delivered>>
      /\ pc[r] \in {"open", "called"}
  BY DEF ConflictAirtime, Underway
<1>4. Apart(r)
  <2>1. Alone(r)
    BY <1>1, <1>2, <1>3 DEF Alone, Inv, TypeOK
  <2> QED
    BY <1>3, <2>1, Others
<1>5. /\ pc'[r] = place /\ aborted'[r] = aborted[r] + n
      /\ delivered' \in [Requests -> Nat] /\ delivered'[r] = delivered[r]
  BY <1>1, <1>2, <1>3 DEF Inv, TypeOK
<1>6. /\ Airtime(r) /\ flow[r] = 0 /\ aborted[r] \in Nat /\ delivered[r] \in Nat
      /\ pc[r] = "open" => delivered[r] <= aborted[r]
  BY <1>3, Known DEF Path, Row, Free, Goods
<1>7. Held(r) = Total(r) /\ Held(r)' = 0
  BY <1>1, <1>3, <1>5, <1>6 DEF Held, Underway
<1>8. pc[r] = "called" => Excused(r)'
  BY <1>3, <1>5, <1>6 DEF Excused, Airtime
<1>9. Excused(r) \/ delivered[r] > 0 => Excused(r)'
  BY <1>3, <1>5, <1>6, <1>8 DEF Excused, Airtime
<1>10. Promise!GiveBack(r)
  BY <1>3, <1>4, <1>5, <1>6, <1>7, <1>9, Seen DEF WasPaid
<1> QED
  BY <1>10 DEF Promise!Next

(* Only what was not delivered is refunded.                                *)
LEMMA RefundKeeps ==
  ASSUME Inv, NEW r \in Requests, Refund(r) PROVE Promise!Next
<1>1. /\ UNCHANGED <<order, attempts, aborted, answer, status, delivered>>
      /\ pc[r] = "answered" /\ answer[r] = "FAILED" /\ ~Sale(r)
      /\ pc' = [pc EXCEPT ![r] = "refunded"]
      /\ flow' = [flow EXCEPT ![r] = @ + Total(r)]
  BY DEF Refund, GoTo, Sale
<1>2. Apart(r)
  <2>1. Alone(r)
    BY <1>1 DEF Alone, Inv, TypeOK
  <2> QED
    BY <1>1, <2>1, Others
<1>3. /\ pc'[r] = "refunded" /\ flow'[r] = flow[r] + Total(r)
      /\ delivered' \in [Requests -> Nat] /\ delivered'[r] = delivered[r]
  BY <1>1 DEF Inv, TypeOK
<1>4. /\ flow[r] = 0 - Total(r) /\ Total(r) \in Nat /\ delivered[r] = 0 /\ ~Airtime(r)
  BY <1>1, Known DEF Row, Path, Paid, Goods
<1>5. Held(r) = Total(r) /\ Held(r)' = 0
  <2>1. Held(r) = 0 - flow[r] /\ Held(r)' = 0 - (flow[r] + Total(r))
    BY <1>1, <1>3 DEF Held, Underway
  <2> QED
    BY <1>4, <2>1
<1>6. Excused(r) => Excused(r)'
  BY <1>4 DEF Excused, Airtime
<1>7. Promise!GiveBack(r)
  BY <1>1, <1>2, <1>3, <1>4, <1>5, <1>6, Seen DEF WasPaid
<1> QED
  BY <1>7 DEF Promise!Next

LEMMA ConcludeKeeps ==
  ASSUME Inv, NEW r \in Requests, Conclude(r) PROVE Promise!Next
<1>1. /\ UNCHANGED <<order, attempts, aborted, answer, balance, flow, delivered>>
      /\ pc[r] \in {"refunded", "answered"}
      /\ pc' = [pc EXCEPT ![r] = "done"] /\ status' = [status EXCEPT ![r] = answer[r]]
  BY DEF Conclude, GoTo
<1>2. Apart(r)
  <2>1. Alone(r)
    BY <1>1 DEF Alone, Inv, TypeOK
  <2> QED
    BY <1>1, <2>1, Others
<1>3. /\ pc'[r] = "done" /\ status'[r] = answer[r]
      /\ delivered' \in [Requests -> Nat] /\ delivered'[r] = delivered[r]
  BY <1>1 DEF Inv, TypeOK
<1>4. Held(r)' = Held(r)
  BY <1>1, <1>3 DEF Held, Underway
<1>5. WasPaid(r) /\ WasPaid(r)'
  BY <1>1, <1>3, Known DEF WasPaid, Row, Path
<1>6. Excused(r) => Excused(r)'
  BY <1>1, <1>3 DEF Excused
<1>7. Promise!Excuse(r)
  BY <1>1, <1>2, <1>3, <1>4, <1>5, <1>6, Seen DEF WasPaid
<1> QED
  BY <1>7 DEF Promise!Next

LEMMA PromiseInit == Init => Promise!Init
<1> SUFFICES ASSUME Init PROVE Promise!Init
  OBVIOUS
<1>1. ASSUME NEW r \in Requests
      PROVE  Held(r) = 0 /\ WasPaid(r) = FALSE /\ delivered[r] = 0 /\ Excused(r) = FALSE
  BY DEF Init, Held, WasPaid, Excused, Underway
<1>2. delivered = [r \in Requests |-> 0]
  BY DEF Init
<1> QED
  BY <1>1, <1>2 DEF Promise!Init

LEMMA PromiseNext == Inv /\ Opened /\ [Next]_vars => [Promise!Next]_(Promise!vars)
<1> SUFFICES ASSUME Inv, Opened, [Next]_vars PROVE [Promise!Next]_(Promise!vars)
  OBVIOUS
<1>1. CASE Next
  <2> PICK r \in Requests :
        \/ Admit(r) \/ Refuse(r) \/ Die(r) \/ CallLost(r)
        \/ OpenAirtime(r) \/ CallAirtime(r) \/ CommitAirtime(r) \/ ConflictAirtime(r)
        \/ Debit(r) \/ PlaceOrder(r) \/ Refund(r) \/ Conclude(r)
    BY <1>1 DEF Next
  <2> QED
    BY PlaceKeeps, CallKeeps, CallLostKeeps, PayKeeps, CommitKeeps, ConflictKeeps,
       RefundKeeps, ConcludeKeeps
<1>2. CASE UNCHANGED vars
  BY <1>2 DEF vars, Promise!vars, Held, WasPaid, Excused, Total, Underway
<1> QED
  BY <1>1, <1>2

(* Purchases implements PaidDelivery: whatever the interleavings, the      *)
(* rollbacks, the deaths and the lost answers, a debit, a call and a       *)
(* refund of ReloadlyService and MerchantSalesService are steps the        *)
(* promise allows.                                                         *)
THEOREM KeepsPromise == Spec => PromiseSpec
BY PromiseInit, PromiseNext, Invariance, InvarianceOpened, PTL
   DEF Spec, PromiseSpec, Promise!Spec

-----------------------------------------------------------------------------
(* What the promise is worth *)

(* Held is all of the price or nothing, nothing unpaid is delivered, and   *)
(* without an excuse what is delivered is delivered once and stays paid.   *)
Honoured(r) ==
  /\ Held(r) = 0 \/ Held(r) = Total(r)
  /\ delivered[r] > 0 => WasPaid(r)
  /\ ~Excused(r) =>
       /\ delivered[r] <= 1
       /\ delivered[r] = 1 => Held(r) = Total(r)

Promised ==
  /\ delivered \in [Requests -> Nat]
  /\ \A r \in Requests : Honoured(r)

(* What a step of request r may change, read from the functions.           *)
LEMMA MayExcuseMeans ==
  ASSUME NEW r \in Requests, Promise!MayExcuse(r)
  PROVE  /\ Excused(r) => Excused(r)'
         /\ \A s \in Requests \ {r} : Excused(s)' <=> Excused(s)
<1> DEFINE E == [s \in Requests |-> Excused(s)]
<1>1. PICK e \in BOOLEAN : E' = [E EXCEPT ![r] = @ \/ e]
  BY DEF Promise!MayExcuse
<1>2. \A s \in Requests : E[s] = Excused(s) /\ E'[s] = Excused(s)'
  OBVIOUS
<1>3. E'[r] = (E[r] \/ e)
  BY <1>1
<1>4. \A s \in Requests \ {r} : E'[s] = E[s]
  BY <1>1
<1> QED
  BY <1>2, <1>3, <1>4

LEMMA HonouredStep ==
  ASSUME Promised, NEW r \in Requests,
         Promise!Pay(r) \/ Promise!Deliver(r) \/ Promise!GiveBack(r) \/ Promise!Lose(r)
           \/ Promise!Excuse(r)
  PROVE  Promised'
<1> DEFINE P == [s \in Requests |-> Total(s)]
           H == [s \in Requests |-> Held(s)]
           W == [s \in Requests |-> WasPaid(s)]
           E == [s \in Requests |-> Excused(s)]
<1>1. /\ Excused(r) => Excused(r)'
      /\ \A s \in Requests \ {r} : Excused(s)' <=> Excused(s)
  BY MayExcuseMeans DEF Promise!Pay, Promise!Deliver, Promise!GiveBack, Promise!Lose,
                        Promise!Excuse
<1>2. \A s \in Requests : /\ P[s] = Total(s) /\ P'[s] = Total(s)'
                          /\ H[s] = Held(s) /\ H'[s] = Held(s)'
                          /\ W[s] = WasPaid(s) /\ W'[s] = WasPaid(s)'
                          /\ E[s] = Excused(s) /\ E'[s] = Excused(s)'
  OBVIOUS
<1>3. /\ P' = P
      /\ \A s \in Requests \ {r} : H'[s] = H[s] /\ W'[s] = W[s] /\ delivered'[s] = delivered[s]
  BY DEF Promise!Pay, Promise!Deliver, Promise!GiveBack, Promise!Lose, Promise!Excuse, Promised
<1>4. delivered' \in [Requests -> Nat] /\ delivered[r] \in Nat
  BY DEF Promise!Pay, Promise!Deliver, Promise!GiveBack, Promise!Lose, Promise!Excuse, Promised
<1>5. ASSUME NEW s \in Requests \ {r} PROVE Honoured(s)'
  <2>1. Honoured(s)
    BY DEF Promised
  <2>2. /\ Total(s)' = Total(s) /\ Held(s)' = Held(s) /\ WasPaid(s)' = WasPaid(s)
        /\ delivered'[s] = delivered[s] /\ (Excused(s)' <=> Excused(s))
    BY <1>1, <1>2, <1>3
  <2> QED
    BY <2>1, <2>2 DEF Honoured
<1>6. Total(r)' = Total(r)
  BY <1>2, <1>3
<1>7. Honoured(r)
  BY DEF Promised
<1>8. Honoured(r)'
  <2>1. CASE Promise!Pay(r)
    <3>1. /\ delivered[r] = 0 \/ Excused(r)
          /\ H'[r] = P[r] /\ W'[r] = TRUE /\ delivered' = delivered
      BY <2>1 DEF Promise!Pay, Promise!Fresh
    <3>2. Held(r)' = Total(r) /\ WasPaid(r)' /\ delivered'[r] = delivered[r]
      BY <1>2, <3>1
    <3> QED
      BY <1>1, <1>4, <1>6, <3>1, <3>2 DEF Honoured
  <2>2. CASE Promise!Deliver(r)
    <3>1. /\ W[r] /\ H' = H /\ W' = W /\ delivered'[r] = delivered[r] + 1
          /\ (H[r] = P[r] /\ delivered[r] = 0) \/ E'[r]
      BY <2>2 DEF Promise!Deliver, Promise!Fresh, Promised
    <3>2. /\ Held(r)' = Held(r) /\ WasPaid(r)'
          /\ (Held(r) = Total(r) /\ delivered[r] = 0) \/ Excused(r)'
      BY <1>2, <3>1
    <3> QED
      BY <1>4, <1>6, <1>7, <3>1, <3>2 DEF Honoured
  <2>3. CASE Promise!GiveBack(r)
    <3>1. /\ H'[r] = 0 /\ W' = W /\ delivered' = delivered
          /\ delivered[r] = 0 \/ E'[r]
      BY <2>3 DEF Promise!GiveBack, Promise!Fresh
    <3>2. /\ Held(r)' = 0 /\ WasPaid(r)' = WasPaid(r) /\ delivered'[r] = delivered[r]
          /\ delivered[r] = 0 \/ Excused(r)'
      BY <1>2, <3>1
    <3> QED
      BY <1>4, <1>6, <1>7, <3>2 DEF Honoured
  <2>4. CASE Promise!Lose(r)
    <3>1. /\ W[r] /\ H'[r] = 0 /\ W' = W /\ E'[r] /\ delivered'[r] = delivered[r] + 1
      BY <2>4 DEF Promise!Lose, Promised
    <3>2. Held(r)' = 0 /\ WasPaid(r)' /\ Excused(r)'
      BY <1>2, <3>1
    <3> QED
      BY <1>4, <1>6, <1>7, <3>1, <3>2 DEF Honoured
  <2>5. CASE Promise!Excuse(r)
    <3>1. H' = H /\ W' = W /\ delivered' = delivered
      BY <2>5 DEF Promise!Excuse
    <3>2. Held(r)' = Held(r) /\ WasPaid(r)' = WasPaid(r) /\ delivered'[r] = delivered[r]
      BY <1>2, <3>1
    <3> QED
      BY <1>1, <1>4, <1>6, <1>7, <3>2 DEF Honoured
  <2> QED
    BY <2>1, <2>2, <2>3, <2>4, <2>5
<1> QED
  BY <1>4, <1>5, <1>8 DEF Promised

(* The promise is strong enough, whatever keeps it: from PaidDelivery      *)
(* alone, a purchase costs its price or nothing, is delivered only once it *)
(* is paid, and unless excused at most once and never for nothing.         *)
THEOREM PromiseSuffices == PromiseSpec => []Promised
<1>1. Promise!Init => Promised
  <2> SUFFICES ASSUME Promise!Init PROVE Promised
    OBVIOUS
  <2>1. ASSUME NEW r \in Requests PROVE Held(r) = 0 /\ delivered[r] = 0
    <3>1. [s \in Requests |-> Held(s)][r] = [s \in Requests |-> 0][r]
      BY DEF Promise!Init
    <3> QED
      BY <3>1 DEF Promise!Init
  <2>2. delivered \in [Requests -> Nat]
    BY DEF Promise!Init
  <2> QED
    BY <2>1, <2>2 DEF Promised, Honoured
<1>2. Promised /\ [Promise!Next]_(Promise!vars) => Promised'
  <2> SUFFICES ASSUME Promised, [Promise!Next]_(Promise!vars) PROVE Promised'
    OBVIOUS
  <2>1. CASE Promise!Next
    BY <2>1, HonouredStep DEF Promise!Next
  <2>2. CASE UNCHANGED Promise!vars
    <3>1. ASSUME NEW r \in Requests PROVE Honoured(r)'
      <4> DEFINE P == [s \in Requests |-> Total(s)]
                 H == [s \in Requests |-> Held(s)]
                 W == [s \in Requests |-> WasPaid(s)]
                 E == [s \in Requests |-> Excused(s)]
      <4>1. P' = P /\ H' = H /\ W' = W /\ E' = E /\ delivered' = delivered
        BY <2>2 DEF Promise!vars
      <4>2. /\ P'[r] = Total(r)' /\ P[r] = Total(r) /\ H'[r] = Held(r)' /\ H[r] = Held(r)
            /\ W'[r] = WasPaid(r)' /\ W[r] = WasPaid(r) /\ E'[r] = Excused(r)' /\ E[r] = Excused(r)
        OBVIOUS
      <4> QED
        BY <4>1, <4>2 DEF Promised, Honoured
    <3> QED
      BY <2>2, <3>1 DEF Promise!vars, Promised
  <2> QED
    BY <2>1, <2>2
<1> QED
  BY <1>1, <1>2, PTL DEF PromiseSpec, Promise!Spec
=============================================================================
