---------------------------- MODULE StoredValue ----------------------------
(***************************************************************************)
(* Money a user puts aside, out of the ledger's accounts: collecte and     *)
(* savings pots, Épargne Gold, and prepaid virtual cards, which pay        *)
(* merchants.  Each has a balance of its own, in its row.                  *)
(*                                                                         *)
(* A request reads the row and decides, then opens the SERIALIZABLE        *)
(* transaction that moves the money and increments or decrements the row.  *)
(* What it decided on can have changed by then: only Épargne Gold looks    *)
(* again inside.  The transaction itself is one step (WalletMovements).    *)
(***************************************************************************)
EXTENDS Integers, FiniteSetsExt

CONSTANTS
  Requests,
  Pots,            \* rows of CollectionType, SavingsType, Wallet, VirtualCard
  Kind,            \* COLLECTE, SAVINGS, GOLD or CARD
  Orders,          \* what may be asked: [op, pot, amount, key]
  Keys,            \* Idempotency-Key headers
  OurFee,          \* by amount, on a card payment: paid by the card
  MerchantFee,     \* by amount, on a card payment: kept from the merchant
  InitialState,    \* of each row
  InitialPot, InitialBalance

Ops == {"CREATE", "LOAD", "UNLOAD", "PAY", "DELETE", "FREEZE", "UNFREEZE"}
Kinds == {"COLLECTE", "SAVINGS", "GOLD", "CARD"}
States == {"NONE", "ACTIVE", "PENDING", "FROZEN", "DELETED"}
Accounts == {"holder", "shop"}    \* their wallets

Order == [op : Ops, pot : Pots, amount : Nat \ {0}, key : Keys]

(* Which operations a row has routes for. *)
Offered(op, kind) ==
  \/ op = "LOAD"
  \/ op = "CREATE" /\ kind # "GOLD"
  \/ op = "UNLOAD" /\ kind # "CARD"
  \/ op = "DELETE" /\ kind \in {"COLLECTE", "SAVINGS"}
  \/ op \in {"PAY", "FREEZE", "UNFREEZE"} /\ kind = "CARD"

ASSUME StoredValueAssumption ==
  /\ Kind \in [Pots -> Kinds]
  /\ Orders \subseteq Order
  /\ \A o \in Orders : Offered(o.op, Kind[o.pot])
  /\ \A o \in Orders : OurFee[o.amount] \in Nat /\ MerchantFee[o.amount] \in 0..o.amount
  /\ InitialState \in [Pots -> {"NONE", "ACTIVE"}]
  /\ InitialPot \in [Pots -> Nat]
  /\ \A p \in Pots : InitialState[p] = "NONE" => InitialPot[p] = 0
  /\ InitialBalance \in [Accounts -> Nat]

(* The database holds finitely many rows: what makes their sums numbers.   *)
ASSUME FiniteRows == IsFiniteSet(Requests) /\ IsFiniteSet(Pots)

VARIABLES
  order,     \* order[r]: what request r asks
  pc,        \* pc[r]
  state,     \* state[p]: NONE before p is created; PENDING or FROZEN for
             \* cards, DELETED for pots, else ACTIVE
  pot,       \* pot[p]: the balance in the row
  balance,   \* the balances of the wallets
  stale      \* history: what r decided on has changed since

vars == <<order, pc, state, pot, balance, stale>>

TypeOK ==
  /\ order \in [Requests -> Orders]
  /\ pc \in [Requests -> {"idle", "checked", "done", "refused"}]
  /\ state \in [Pots -> States]
  /\ pot \in [Pots -> Int]
  /\ balance \in [Accounts -> Nat]
  /\ stale \in [Requests -> BOOLEAN]

Init ==
  /\ order \in [Requests -> Orders]
  /\ pc = [r \in Requests |-> "idle"]
  /\ state = InitialState
  /\ pot = InitialPot
  /\ balance = InitialBalance
  /\ stale = [r \in Requests |-> FALSE]

-----------------------------------------------------------------------------
(* What a payment of amount a by card takes from it. *)
CardDebit(a) == a + OurFee[a]

Drawn(o) == IF o.op = "PAY" THEN CardDebit(o.amount) ELSE o.amount

(* Mutant of Sufficient: the balance of the row is not looked at. *)
SufficientAlways(o) == TRUE

(* Mutant of Sufficient: a pot is deleted whatever it holds. *)
SufficientToDelete(o) ==
  CASE o.op = "UNLOAD" -> Kind[o.pot] = "GOLD" \/ pot[o.pot] >= o.amount
    [] o.op = "PAY"    -> pot[o.pot] >= Drawn(o)
    [] OTHER           -> TRUE

(* The balance the request has read allows what it asks. *)
Sufficient(o) ==
  CASE o.op = "UNLOAD" -> Kind[o.pot] = "GOLD" \/ pot[o.pot] >= o.amount
    [] o.op = "PAY"    -> pot[o.pot] >= Drawn(o)
    [] o.op = "DELETE" -> pot[o.pot] <= 0
    [] OTHER           -> TRUE

(* The row is there, or its label is free; a card must be active to be     *)
(* loaded or to pay.                                                       *)
Usable(o) ==
  /\ state[o.pot] # "DELETED"
  /\ state[o.pot] = "NONE" <=> o.op = "CREATE"
  /\ Kind[o.pot] = "CARD" /\ o.op \in {"LOAD", "PAY"} => state[o.pot] = "ACTIVE"

(* A transaction is stored under the key of the request. *)
KeyTaken(r) ==
  \E s \in Requests : /\ pc[s] = "done"
                      /\ order[s].op \in {"LOAD", "UNLOAD", "PAY"}
                      /\ order[s].key = order[r].key

Keyed(r) == order[r].op \in {"LOAD", "UNLOAD", "PAY"}

(* The request reads the row, outside any transaction. *)
Check(r) ==
  /\ pc[r] = "idle"
  /\ pc' = [pc EXCEPT ![r] =
       IF /\ Keyed(r) => ~KeyTaken(r)
          /\ Usable(order[r])
          /\ Sufficient(order[r])
         THEN "checked" ELSE "refused"]
  /\ UNCHANGED <<order, state, pot, balance, stale>>

-----------------------------------------------------------------------------
(* Every other request that has read the row now works on an old reading. *)
Outdate(r) ==
  stale' = [s \in Requests |->
              stale[s] \/ (s # r /\ pc[s] = "checked" /\ order[s].pot = order[r].pot)]

Finish(r) == pc' = [pc EXCEPT ![r] = "done"]

(* Mutant of Covered: the wallet's balance is not looked at. *)
CoveredAlways(o) == TRUE

(* Mutant of Covered: Épargne Gold is checked as the others are. *)
CoveredLikePots(o) == o.op = "LOAD" => balance["holder"] >= o.amount

(* The check inside the transaction: the wallet's balance, and of the rows *)
(* only Épargne Gold's.                                                    *)
Covered(o) ==
  /\ o.op = "LOAD" => balance["holder"] >= o.amount
  /\ o.op = "UNLOAD" /\ Kind[o.pot] = "GOLD" => pot[o.pot] >= o.amount

(* The transaction goes through: no such key yet, the row to update is     *)
(* there, the balances suffice.                                            *)
Commits(r) ==
  /\ ~KeyTaken(r)
  /\ state[order[r].pot] # "DELETED"
  /\ Covered(order[r])

Load(r) ==
  LET o == order[r] IN
  /\ pc[r] = "checked" /\ o.op = "LOAD" /\ Commits(r)
  /\ balance' = [balance EXCEPT !["holder"] = @ - o.amount]
  /\ pot' = [pot EXCEPT ![o.pot] = @ + o.amount]
  /\ Finish(r) /\ Outdate(r)
  /\ UNCHANGED <<order, state>>

Unload(r) ==
  LET o == order[r] IN
  /\ pc[r] = "checked" /\ o.op = "UNLOAD" /\ Commits(r)
  /\ balance' = [balance EXCEPT !["holder"] = @ + o.amount]
  /\ pot' = [pot EXCEPT ![o.pot] = @ - o.amount]
  /\ Finish(r) /\ Outdate(r)
  /\ UNCHANGED <<order, state>>

(* A merchant is paid from the card; the fees go nowhere. *)
Pay(r) ==
  LET o == order[r] IN
  /\ pc[r] = "checked" /\ o.op = "PAY" /\ Commits(r)
  /\ MerchantFee[o.amount] < o.amount      \* the ledger refuses to post zero
  /\ pot' = [pot EXCEPT ![o.pot] = @ - CardDebit(o.amount)]
  /\ balance' = [balance EXCEPT !["shop"] = @ + (o.amount - MerchantFee[o.amount])]
  /\ Finish(r) /\ Outdate(r)
  /\ UNCHANGED <<order, state>>

(* createType, createSavingsType, issueCard: a row with a balance of zero, *)
(* refused if another has taken the label; the issuer may keep a card      *)
(* PENDING.                                                                *)
Create(r) ==
  LET o == order[r] IN
  /\ pc[r] = "checked" /\ o.op = "CREATE" /\ state[o.pot] = "NONE"
  /\ \E s \in {"ACTIVE"} \cup (IF Kind[o.pot] = "CARD" THEN {"PENDING"} ELSE {}) :
       state' = [state EXCEPT ![o.pot] = s]
  /\ Finish(r) /\ Outdate(r)
  /\ UNCHANGED <<order, pot, balance>>

(* deleteType, deleteSavingsType: a plain delete, outside any transaction. *)
Delete(r) ==
  LET o == order[r] IN
  /\ pc[r] = "checked" /\ o.op = "DELETE" /\ state[o.pot] # "DELETED"
  /\ state' = [state EXCEPT ![o.pot] = "DELETED"]
  /\ Finish(r) /\ Outdate(r)
  /\ UNCHANGED <<order, pot, balance>>

(* The holder or an administrator freezes the card, or gives it back. *)
SetStatus(r) ==
  LET o == order[r] IN
  /\ pc[r] = "checked" /\ o.op \in {"FREEZE", "UNFREEZE"}
  /\ state' = [state EXCEPT ![o.pot] = IF o.op = "FREEZE" THEN "FROZEN" ELSE "ACTIVE"]
  /\ Finish(r) /\ Outdate(r)
  /\ UNCHANGED <<order, pot, balance>>

(* The transaction throws: a check inside, a taken key, a row that is      *)
(* gone, or MAX_RETRIES conflicts; or the process dies.                    *)
Fail(r) ==
  /\ pc[r] = "checked"
  /\ pc' = [pc EXCEPT ![r] = "refused"]
  /\ UNCHANGED <<order, state, pot, balance, stale>>

Next ==
  \E r \in Requests : \/ Check(r) \/ Create(r) \/ Load(r) \/ Unload(r) \/ Pay(r)
                      \/ Delete(r) \/ SetStatus(r) \/ Fail(r)

Spec == Init /\ [][Next]_vars

-----------------------------------------------------------------------------
(* Épargne Gold, checked inside the transaction, is never overdrawn.       *)
GoldIsCovered == \A p \in Pots : Kind[p] = "GOLD" => pot[p] >= 0

(* Row p is overdrawn, or deleted with money in it.                        *)
Hurt(p) == pot[p] < 0 \/ (state[p] = "DELETED" /\ pot[p] # 0)

(* A request that worked on an old reading of row p has gone through.      *)
Blamed(p) == \E r \in Requests : pc[r] = "done" /\ order[r].pot = p /\ stale[r]

(* Requests that do not overlap do no harm: a row is overdrawn, or deleted *)
(* with money in it, only through a request that had read it before        *)
(* another one changed it.                                                 *)
OnlyStaleReadsHurt == \A p \in Pots : Hurt(p) => Blamed(p)

Total(f, S) == MapThenSumSet(LAMBDA x : f[x], S)

(* What its owner still has in row p: nothing once the row is deleted.     *)
Kept == [p \in Pots |-> IF state[p] = "DELETED" THEN 0 ELSE pot[p]]

(* What the card payments made so far have left with nobody. *)
Fees ==
  [r \in Requests |->
     IF pc[r] = "done" /\ order[r].op = "PAY"
       THEN OurFee[order[r].amount] + MerchantFee[order[r].amount] ELSE 0]

(* What people can still reach, in their wallets and in the rows that      *)
(* exist, and the fees of card payments, make up what there was, even      *)
(* where overlapping requests draw more from a row than it holds.  Only a  *)
(* deletion can lose money or a debt, and only of a row that a request     *)
(* changed or deleted on an old reading.                                   *)
ValueIsConserved ==
  \/ Total(balance, Accounts) + Total(Kept, Pots) + Total(Fees, Requests)
       = Total(InitialBalance, Accounts) + Total(InitialPot, Pots)
  \/ \E p \in Pots : state[p] = "DELETED" /\ pot[p] # 0 /\ Blamed(p)

(* The schema: each pot keeps its own balance, fed from and withdrawn to   *)
(* the wallet.  Fails: two withdrawals that read the same balance take     *)
(* from the pot more than it holds.                                        *)
PotsAreCovered == \A p \in Pots : pot[p] >= 0
=============================================================================
