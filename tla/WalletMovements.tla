--------------------------- MODULE WalletMovements ---------------------------
(***************************************************************************)
(* The operations of Movement as concurrent HTTP requests over one         *)
(* Postgres database.  They share one shape: look for a transaction with   *)
(* the idempotency key, check who asks, then post the legs in a database   *)
(* transaction, SERIALIZABLE and retried for all kinds but MANUAL.         *)
(*                                                                         *)
(* A client has an intent (one decision to move money) and may submit it   *)
(* several times: double tap, retry after a lost answer.  The intent is    *)
(* the idempotency key where the operation takes one.                      *)
(*                                                                         *)
(* Postgres is external.  A database transaction reads the rows it touches *)
(* at once (Open), and commits at once provided those rows still have the  *)
(* version it read; a SERIALIZABLE one may also be aborted for no visible  *)
(* reason, as predicate locks are coarser than rows.  The insertion of the *)
(* Transaction row waits for a concurrent one with the same key to end, so *)
(* the key is decided when the movement is.                                *)
(***************************************************************************)
EXTENDS Movement

CONSTANTS Intents, Requests,
          NoIntent, NoTransaction,
          Opening,       \* balances the wallets start with, without entries (seed)
          MaxAttempts    \* MAX_SERIALIZATION_RETRIES

ASSUME RequestsAssumption ==
  /\ Opening \in [Wallets -> Nat]
  /\ MaxAttempts \in Nat \ {0}
  /\ Transactions = Requests   \* a request creates at most one Transaction
  /\ NoIntent \notin Intents
  /\ NoTransaction \notin Requests

VARIABLES
  ledger,    \* wallets and ledger entries
  posted,    \* Transaction rows: the requests whose movement is committed
  payload,   \* payload[i]: what the client of intent i wants
  intent,    \* intent[r]: the intent request r submits
  pc,        \* pc[r]: where request r is
  snapshot,  \* snapshot[r]: balance and version of the rows r has read
  attempt,   \* attempt[r]: database transactions r has opened
  answer     \* answer[r]: what the client was told, and about which transaction

vars == <<ledger, posted, payload, intent, pc, snapshot, attempt, answer>>

Row == [balance : Nat, version : Nat]
NoRow == [balance |-> 0, version |-> 0]

Outcomes == {"NONE", "OK", "REFUSED", "CONFLICT", "DUPLICATE_KEY"}
NoAnswer == [outcome |-> "NONE", transaction |-> NoTransaction]

TypeOK ==
  /\ ledger \in [Wallets -> Account]
  /\ posted \subseteq Requests
  /\ payload \in [Intents -> Payloads]
  /\ intent \in [Requests -> Intents \cup {NoIntent}]
  /\ pc \in [Requests -> {"idle", "received", "admitted", "open", "committed",
                          "answered", "lost"}]
  /\ snapshot \in [Requests -> [Wallets -> Row]]
  /\ attempt \in [Requests -> 0..MaxAttempts]
  /\ answer \in [Requests -> [outcome : Outcomes,
                              transaction : Requests \cup {NoTransaction}]]

-----------------------------------------------------------------------------
(* What request r works on. *)
Payload(r) == payload[intent[r]]

(* Mutant of KeyTaken: no unique constraint, and no look at the key. *)
KeyNeverTaken(r) == FALSE

(* Another request has committed the same idempotency key. *)
KeyTaken(r) == Keyed(Payload(r)) /\ \E s \in posted : intent[s] = intent[r]

(* The ledger as r sees it inside its database transaction: the rows are   *)
(* those it has read, the entries it inserts follow those of the table.    *)
View(r) ==
  [w \in Wallets |->
     IF w \in Touched(Payload(r))
       THEN [ledger[w] EXCEPT !.balance = snapshot[r][w].balance,
                              !.version = snapshot[r][w].version]
       ELSE ledger[w]]

(* Mutant of Stale: the update names no version in the operation that is   *)
(* not SERIALIZABLE.                                                       *)
StaleIfSerializable(r) ==
  /\ Serializable(Payload(r))
  /\ \E w \in Touched(Payload(r)) : snapshot[r][w].version # ledger[w].version

(* A row r has read was updated since: where {id, version} finds nothing,  *)
(* or Postgres reports the serialization failure.                          *)
Stale(r) ==
  \E w \in Touched(Payload(r)) : snapshot[r][w].version # ledger[w].version

Answer(r, outcome, t) ==
  /\ pc' = [pc EXCEPT ![r] = "answered"]
  /\ answer' = [answer EXCEPT ![r] = [outcome |-> outcome, transaction |-> t]]

Init ==
  \* nothing in the code freezes a wallet: a frozen one was frozen by hand
  /\ ledger \in {[w \in Wallets |-> NewAccount(Opening[w], f[w])] :
                   f \in [Wallets -> BOOLEAN]}
  /\ posted = {}
  /\ payload \in [Intents -> Payloads]
  /\ intent = [r \in Requests |-> NoIntent]
  /\ pc = [r \in Requests |-> "idle"]
  /\ snapshot = [r \in Requests |-> [w \in Wallets |-> NoRow]]
  /\ attempt = [r \in Requests |-> 0]
  /\ answer = [r \in Requests |-> NoAnswer]

(* A client sends its intent, for the first time or again. *)
Submit(r, i) ==
  /\ pc[r] = "idle"
  /\ pc' = [pc EXCEPT ![r] = "received"]
  /\ intent' = [intent EXCEPT ![r] = i]
  /\ UNCHANGED <<ledger, posted, payload, snapshot, attempt, answer>>

(* Mutant of ReturnExisting: any transaction is taken for the key's. *)
ReturnAnyExisting(r) ==
  /\ pc[r] = "received"
  /\ Keyed(Payload(r))
  /\ \E s \in posted : Answer(r, "OK", s)
  /\ UNCHANGED <<ledger, posted, payload, intent, snapshot, attempt>>

(* A transaction with this key exists: it is the answer. *)
ReturnExisting(r) ==
  /\ pc[r] = "received"
  /\ Keyed(Payload(r))
  /\ \E s \in posted : intent[s] = intent[r] /\ Answer(r, "OK", s)
  /\ UNCHANGED <<ledger, posted, payload, intent, snapshot, attempt>>

(* No such transaction, and the checks on the caller pass. *)
Admit(r) ==
  /\ pc[r] = "received"
  /\ ~KeyTaken(r)
  /\ pc' = [pc EXCEPT ![r] = "admitted"]
  /\ UNCHANGED <<ledger, posted, payload, intent, snapshot, attempt, answer>>

(* No such transaction, and one of the checks fails: lockout, PIN, monthly *)
(* limit, recipient, state of the merchant, ownership of the retailer.     *)
Reject(r) ==
  /\ pc[r] = "received"
  /\ ~KeyTaken(r)
  /\ Answer(r, "REFUSED", NoTransaction)
  /\ UNCHANGED <<ledger, posted, payload, intent, snapshot, attempt>>

(* Mutant of Open: the attempts are not counted. *)
OpenUncounted(r) ==
  /\ pc[r] = "admitted"
  /\ pc' = [pc EXCEPT ![r] = "open"]
  /\ snapshot' = [snapshot EXCEPT ![r] =
       [w \in Wallets |-> IF w \in Touched(Payload(r))
                            THEN [balance |-> ledger[w].balance,
                                  version |-> ledger[w].version]
                            ELSE NoRow]]
  /\ UNCHANGED <<ledger, posted, payload, intent, attempt, answer>>

(* The database transaction starts and reads the rows it will update. *)
Open(r) ==
  /\ pc[r] = "admitted"
  /\ pc' = [pc EXCEPT ![r] = "open"]
  /\ attempt' = [attempt EXCEPT ![r] = @ + 1]
  /\ snapshot' = [snapshot EXCEPT ![r] =
       [w \in Wallets |-> IF w \in Touched(Payload(r))
                            THEN [balance |-> ledger[w].balance,
                                  version |-> ledger[w].version]
                            ELSE NoRow]]
  /\ UNCHANGED <<ledger, posted, payload, intent, answer>>

(* The unique constraint on idempotencyKey: the insertion throws P2002,    *)
(* which nothing translates.                                               *)
DuplicateKey(r) ==
  /\ pc[r] = "open"
  /\ KeyTaken(r)
  /\ Answer(r, "DUPLICATE_KEY", NoTransaction)
  /\ UNCHANGED <<ledger, posted, payload, intent, snapshot, attempt>>

(* A leg throws on what r has read: frozen wallet, balance, amount. *)
Refuse(r) ==
  /\ pc[r] = "open"
  /\ ~KeyTaken(r)
  /\ Refused(View(r), Payload(r), r)
  /\ Answer(r, "REFUSED", NoTransaction)
  /\ UNCHANGED <<ledger, posted, payload, intent, snapshot, attempt>>

Commit(r) ==
  /\ pc[r] = "open"
  /\ ~KeyTaken(r)
  /\ ~Refused(View(r), Payload(r), r)
  /\ ~Stale(r)
  /\ ledger' = Post(View(r), Payload(r), r)
  /\ posted' = posted \cup {r}
  /\ pc' = [pc EXCEPT ![r] = "committed"]
  /\ UNCHANGED <<payload, intent, snapshot, attempt, answer>>

(* A serialization failure: tried again from the start of the database     *)
(* transaction, MaxAttempts times in all.                                  *)
Retry(r) ==
  /\ pc[r] = "open"
  /\ Serializable(Payload(r))
  /\ attempt[r] < MaxAttempts
  /\ pc' = [pc EXCEPT ![r] = "admitted"]
  /\ UNCHANGED <<ledger, posted, payload, intent, snapshot, attempt, answer>>

(* The last attempt of a SERIALIZABLE operation, or the only one of a      *)
(* manual funding, whose update finds no row of the version it read.       *)
GiveUp(r) ==
  /\ pc[r] = "open"
  /\ IF Serializable(Payload(r)) THEN attempt[r] = MaxAttempts ELSE Stale(r)
  /\ Answer(r, "CONFLICT", NoTransaction)
  /\ UNCHANGED <<ledger, posted, payload, intent, snapshot, attempt>>

Reply(r) ==
  /\ pc[r] = "committed"
  /\ Answer(r, "OK", r)
  /\ UNCHANGED <<ledger, posted, payload, intent, snapshot, attempt>>

(* The API process dies or the connection breaks: an open database         *)
(* transaction is rolled back, a committed one stays, nobody is told.      *)
Lose(r) ==
  /\ pc[r] \in {"received", "admitted", "open", "committed"}
  /\ pc' = [pc EXCEPT ![r] = "lost"]
  /\ UNCHANGED <<ledger, posted, payload, intent, snapshot, attempt, answer>>

(* Every request has been answered or lost: nothing is left to do. *)
Done ==
  /\ \A r \in Requests : pc[r] \in {"answered", "lost"}
  /\ UNCHANGED vars

Handle(r) ==
  \/ ReturnExisting(r) \/ Admit(r) \/ Reject(r) \/ Open(r) \/ DuplicateKey(r)
  \/ Refuse(r) \/ Commit(r) \/ Retry(r) \/ GiveUp(r) \/ Reply(r)

Next ==
  \/ \E r \in Requests : (\E i \in Intents : Submit(r, i)) \/ Handle(r) \/ Lose(r)
  \/ Done

Spec == Init /\ [][Next]_vars

(* The event loop runs every handler to its end; clients need not send. *)
FairSpec == Spec /\ \A r \in Requests : WF_vars(Handle(r))

-----------------------------------------------------------------------------
(* Safety *)

(* Every wallet's cached balance is the one its last ledger entry records, *)
(* every entry continues the one before it, and no update is lost, however *)
(* requests interleave ("deux transferts concurrents ... ne doivent jamais *)
(* tous les deux reussir si le solde ne le permet qu'une fois").           *)
LedgerConsistent == \A w \in Wallets : ChainOK(ledger[w], Opening[w])

(* However often an intent is submitted, its key is posted at most once.   *)
AtMostOncePerKey ==
  \A r, s \in posted :
    Keyed(Payload(r)) /\ intent[r] = intent[s] => r = s

(* What the client is told is so: success names a committed transaction of *)
(* the same intent, and after a refusal or a conflict the request itself   *)
(* has moved nothing.                                                      *)
AnswersAreTrue ==
  \A r \in Requests :
    /\ answer[r].outcome = "OK" =>
         /\ answer[r].transaction \in posted
         /\ intent[answer[r].transaction] = intent[r]
    /\ answer[r].outcome \in {"REFUSED", "CONFLICT", "DUPLICATE_KEY"} => r \notin posted

(* The version a request has read determines the balance it has read: the  *)
(* row it holds is one the ledger went through.  This is what makes the    *)
(* version check in LedgerService sufficient.                              *)
SnapshotsAreHistory ==
  \A r \in Requests :
    pc[r] = "open" =>
      \A w \in Touched(Payload(r)) :
        /\ snapshot[r][w].version <= ledger[w].version
        /\ snapshot[r][w].balance
             = BalanceAt(ledger[w], Opening[w], snapshot[r][w].version)

(* The requests, however they interleave, do what atomic movements do.     *)
Abstract ==
  INSTANCE MoneyMovement WITH
    funds    <- [w \in Wallets |-> ledger[w].balance],
    executed <- {[intent |-> intent[r], execution |-> r] : r \in posted}

AbstractSpec == Abstract!Spec

(* Liveness *)

(* Every request that arrives is answered, unless the process dies.        *)
EveryRequestEnds ==
  \A r \in Requests : pc[r] = "received" ~> pc[r] \in {"answered", "lost"}

=============================================================================
