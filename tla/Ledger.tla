------------------------------- MODULE Ledger -------------------------------
(***************************************************************************)
(* LedgerService: the double-entry engine every balance change goes        *)
(* through.  The module has no variable: it gives the operators with which *)
(* the modules that own a ledger post movements, and what it means for the *)
(* wallets and their LedgerEntry rows to agree.                            *)
(*                                                                         *)
(* A ledger is a function from wallets to accounts.  An account is the     *)
(* Wallet row (cachedBalance, version, isFrozen) with the LedgerEntry rows *)
(* of that wallet in the order in which they were inserted.                *)
(***************************************************************************)
EXTENDS Integers, Sequences

CONSTANTS Wallets,       \* the Wallet rows
          NoWallet,      \* a missing fromWalletId or toWalletId
          Transactions   \* identifiers of Transaction rows

ASSUME NoWalletAssumption == NoWallet \notin Wallets

Entry == [type          : {"DEBIT", "CREDIT"},
          amount        : Nat \ {0},
          balanceAfter  : Nat,
          transactionId : Transactions]

Account == [balance  : Nat,
            version  : Nat,
            isFrozen : BOOLEAN,
            entries  : Seq(Entry)]

(* A wallet as it is before its first LedgerEntry. *)
NewAccount(balance, isFrozen) ==
  [balance |-> balance, version |-> 0, isFrozen |-> isFrozen, entries |-> <<>>]

-----------------------------------------------------------------------------
(* The update of one wallet and the insertion of its entry: the row gets   *)
(* the new balance and the next version, the entry records the balance the *)
(* wallet has after it.                                                    *)
Record(account, type, amount, newBalance, t) ==
  [balance  |-> newBalance,
   version  |-> account.version + 1,
   isFrozen |-> account.isFrozen,
   entries  |-> Append(account.entries,
                       [type |-> type, amount |-> amount,
                        balanceAfter |-> newBalance, transactionId |-> t])]

(* Mutant of DebitRefused: the balance is not compared. *)
DebitRefusedIfFrozen(account, amount) == account.isFrozen

DebitRefused(account, amount) ==
  \/ account.isFrozen
  \/ account.balance < amount

Debit(account, amount, t) ==
  Record(account, "DEBIT", amount, account.balance - amount, t)

(* A credit is never refused, not even on a frozen wallet. *)
Credit(account, amount, t) ==
  Record(account, "CREDIT", amount, account.balance + amount, t)

PostRefused(ledger, from, to, amount) ==
  \/ amount <= 0
  \/ from = NoWallet /\ to = NoWallet
  \/ from # NoWallet /\ DebitRefused(ledger[from], amount)

(* The debit is written before the credit reads its wallet. *)
PostDoubleEntry(ledger, from, to, amount, t) ==
  LET debited == IF from = NoWallet
                   THEN ledger
                   ELSE [ledger EXCEPT ![from] = Debit(@, amount, t)]
  IN  IF to = NoWallet
        THEN debited
        ELSE [debited EXCEPT ![to] = Credit(@, amount, t)]

(* Commission in basis points, rounded down as bigint division does. *)
ComputeFee(amount, feeRateBps) == (amount * feeRateBps) \div 10000

-----------------------------------------------------------------------------
Signed(entry) == IF entry.type = "CREDIT" THEN entry.amount ELSE 0 - entry.amount

(* The balance of an account after its first n entries. *)
BalanceAt(account, opening, n) ==
  IF n = 0 THEN opening ELSE account.entries[n].balanceAfter

(* The row and the entries tell the same story: one version per entry,     *)
(* every entry continues the balance the one before it left, and the       *)
(* cached balance is the one the last entry left.                          *)
ChainOK(account, opening) ==
  /\ account.version = Len(account.entries)
  /\ account.balance = BalanceAt(account, opening, Len(account.entries))
  /\ \A n \in 1..Len(account.entries) :
        account.entries[n].balanceAfter
          = BalanceAt(account, opening, n - 1) + Signed(account.entries[n])
=============================================================================
