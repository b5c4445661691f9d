----------------------- MODULE WalletMovementsProofs -----------------------
(***************************************************************************)
(* What is proved, for any wallets, requests, intents and fees.  Of the    *)
(* ledger: what a posting does to any accounts (types, chains of balances, *)
(* amounts).  Of WalletMovements: an inductive invariant, the safety       *)
(* properties that follow from it, and that the requests implement         *)
(* MoneyMovement.                                                          *)
(***************************************************************************)
EXTENDS WalletMovements, TLAPS

-----------------------------------------------------------------------------
(* Postings. *)

(* Account b has the entries of account a, and perhaps more. *)
Extends(a, b) ==
  /\ Len(a.entries) <= Len(b.entries)
  /\ \A n \in 1..Len(a.entries) : b.entries[n] = a.entries[n]

-----------------------------------------------------------------------------
(* What Record does to an account whose chain is sound, when the new       *)
(* balance is the old one plus what the entry says.                        *)
LEMMA RecordLemma ==
  ASSUME NEW a \in Account, NEW opening \in Nat, ChainOK(a, opening),
         NEW type \in {"DEBIT", "CREDIT"}, NEW amount \in Nat \ {0},
         NEW newBalance \in Nat, NEW t \in Transactions,
         newBalance = a.balance + (IF type = "CREDIT" THEN amount ELSE 0 - amount)
  PROVE  LET b == Record(a, type, amount, newBalance, t) IN
         /\ b \in Account
         /\ ChainOK(b, opening)
         /\ Extends(a, b)
         /\ b.balance = newBalance
         /\ b.isFrozen = a.isFrozen
<1> DEFINE e == [type |-> type, amount |-> amount, balanceAfter |-> newBalance,
                 transactionId |-> t]
           b == Record(a, type, amount, newBalance, t)
           k == Len(a.entries)
<1>1. e \in Entry
  BY DEF Entry
<1>2. /\ b = [balance |-> newBalance, version |-> a.version + 1,
              isFrozen |-> a.isFrozen, entries |-> Append(a.entries, e)]
      /\ a.entries \in Seq(Entry) /\ a.version \in Nat /\ a.balance \in Nat
      /\ a.isFrozen \in BOOLEAN
  BY DEF Record, Account
<1>3. b \in Account
  <2>1. Append(a.entries, e) \in Seq(Entry)
    <3> HIDE DEF e
    <3> QED
      BY <1>1, <1>2
  <2> HIDE DEF b
  <2> QED
    BY <1>2, <2>1 DEF Account
<1>4. /\ Len(b.entries) = k + 1
      /\ k \in Nat
      /\ b.entries[k + 1] = e
      /\ \A n \in 1..k : b.entries[n] = a.entries[n]
  BY <1>1, <1>2
<1>5. Extends(a, b)
  BY <1>4 DEF Extends
<1>6. ChainOK(b, opening)
  <2>1. b.version = Len(b.entries)
    BY <1>2, <1>4 DEF ChainOK
  <2>2. b.balance = BalanceAt(b, opening, Len(b.entries))
    BY <1>2, <1>4 DEF BalanceAt
  <2>3. ASSUME NEW n \in 1..Len(b.entries)
        PROVE  b.entries[n].balanceAfter
                 = BalanceAt(b, opening, n - 1) + Signed(b.entries[n])
    <3>1. CASE n = k + 1
      <4>1. BalanceAt(b, opening, k) = BalanceAt(a, opening, k)
        BY <1>4 DEF BalanceAt
      <4>2. a.balance = BalanceAt(a, opening, k)
        BY DEF ChainOK
      <4>3. Signed(e) = IF type = "CREDIT" THEN amount ELSE 0 - amount
        BY DEF Signed
      <4>4. b.entries[n] = e /\ n - 1 = k
        BY <1>4, <3>1
      <4> QED
        BY <4>1, <4>2, <4>3, <4>4
    <3>2. CASE n # k + 1
      <4>1. n \in 1..k /\ (n - 1 = 0 \/ n - 1 \in 1..k)
        BY <1>4, <3>2
      <4>2. b.entries[n] = a.entries[n]
            /\ BalanceAt(b, opening, n - 1) = BalanceAt(a, opening, n - 1)
        BY <1>4, <4>1 DEF BalanceAt
      <4>3. a.entries[n].balanceAfter
              = BalanceAt(a, opening, n - 1) + Signed(a.entries[n])
        BY <4>1 DEF ChainOK
      <4> QED
        BY <4>2, <4>3
    <3> QED
      BY <3>1, <3>2
  <2> QED
    BY <2>1, <2>2, <2>3 DEF ChainOK
<1> QED
  BY <1>2, <1>3, <1>5, <1>6

(* A debit that is not refused takes the amount and leaves a sound account. *)
LEMMA DebitLemma ==
  ASSUME NEW a \in Account, NEW opening \in Nat, ChainOK(a, opening),
         NEW amount \in Nat \ {0}, NEW t \in Transactions,
         ~DebitRefused(a, amount)
  PROVE  LET b == Debit(a, amount, t) IN
         /\ b \in Account
         /\ ChainOK(b, opening)
         /\ Extends(a, b)
         /\ b.balance = a.balance - amount
         /\ a.balance >= amount
<1>1. a.balance \in Nat
  BY DEF Account
<1>2. a.balance - amount \in Nat /\ a.balance >= amount
  BY <1>1 DEF DebitRefused
<1>3. a.balance - amount = a.balance + (0 - amount)
  BY <1>1
<1> QED
  BY <1>2, <1>3, RecordLemma DEF Debit

(* A credit adds the amount and leaves a sound account. *)
LEMMA CreditLemma ==
  ASSUME NEW a \in Account, NEW opening \in Nat, ChainOK(a, opening),
         NEW amount \in Nat \ {0}, NEW t \in Transactions
  PROVE  LET b == Credit(a, amount, t) IN
         /\ b \in Account
         /\ ChainOK(b, opening)
         /\ Extends(a, b)
         /\ b.balance = a.balance + amount
<1>1. a.balance \in Nat
  BY DEF Account
<1>2. a.balance + amount \in Nat
  BY <1>1
<1> QED
  BY <1>2, RecordLemma DEF Credit

(* A wallet without entries is sound. *)
LEMMA NewAccountLemma ==
  ASSUME NEW opening \in Nat, NEW isFrozen \in BOOLEAN
  PROVE  /\ NewAccount(opening, isFrozen) \in Account
         /\ ChainOK(NewAccount(opening, isFrozen), opening)
<1> DEFINE none == <<>>
           a == [balance |-> opening, version |-> 0, isFrozen |-> isFrozen,
                 entries |-> none]
<1>1. NewAccount(opening, isFrozen) = a
  BY DEF NewAccount
<1>2. none \in Seq(Entry) /\ Len(none) = 0
  OBVIOUS
<1> HIDE DEF none
<1>3. a \in Account
  BY <1>2 DEF Account
<1>4. ChainOK(a, opening)
  BY <1>2 DEF ChainOK, BalanceAt
<1> QED
  BY <1>1, <1>3, <1>4

-----------------------------------------------------------------------------
(* A ledger whose rows and entries agree, wallet by wallet. *)
Sound(L, opening) ==
  /\ L \in [Wallets -> Account]
  /\ \A w \in Wallets : ChainOK(L[w], opening[w])

(* M has the entries of L, in the same order, and perhaps more. *)
Grows(L, M) == \A w \in Wallets : Extends(L[w], M[w])

(* From L to M, wallet from loses cost, wallet to gains net, others keep   *)
(* their balance.                                                          *)
Moves(L, M, from, to, cost, net) ==
  \A w \in Wallets :
    M[w].balance = IF w = to THEN L[w].balance + net
                   ELSE IF w = from THEN L[w].balance - cost
                   ELSE L[w].balance

LEMMA ExtendsReflexive == ASSUME NEW a PROVE Extends(a, a)
  BY DEF Extends

LEMMA GrowsReflexive == ASSUME NEW L PROVE Grows(L, L)
  BY DEF Grows, Extends

LEMMA GrowsTransitive ==
  ASSUME NEW L \in [Wallets -> Account], NEW M \in [Wallets -> Account],
         NEW N \in [Wallets -> Account], Grows(L, M), Grows(M, N)
  PROVE  Grows(L, N)
<1> SUFFICES ASSUME NEW w \in Wallets PROVE Extends(L[w], N[w])
  BY DEF Grows
<1>1. /\ Len(L[w].entries) \in Nat /\ Len(M[w].entries) \in Nat
      /\ Len(N[w].entries) \in Nat
  BY DEF Account
<1>2. Extends(L[w], M[w]) /\ Extends(M[w], N[w])
  BY DEF Grows
<1> QED
  BY <1>1, <1>2 DEF Extends

(* A posting that is not refused moves its amount, leaves every other      *)
(* wallet alone and every account sound, and only appends entries.         *)
LEMMA PostLemma ==
  ASSUME NEW opening \in [Wallets -> Nat], NEW L, Sound(L, opening),
         NEW from \in Wallets \cup {NoWallet}, NEW to \in Wallets \cup {NoWallet},
         from # to, NEW amount \in Int, NEW t \in Transactions,
         ~PostRefused(L, from, to, amount)
  PROVE  LET M == PostDoubleEntry(L, from, to, amount, t) IN
         /\ Sound(M, opening)
         /\ Grows(L, M)
         /\ Moves(L, M, from, to, amount, amount)
         /\ amount > 0
         /\ from # NoWallet => L[from].balance >= amount
<1> DEFINE D == IF from = NoWallet THEN L
                ELSE [L EXCEPT ![from] = Debit(L[from], amount, t)]
           M == PostDoubleEntry(L, from, to, amount, t)
<1>1. amount \in Nat \ {0}
  BY DEF PostRefused
<1>2. /\ Sound(D, opening)
      /\ Grows(L, D)
      /\ \A w \in Wallets : D[w].balance = IF w = from THEN L[w].balance - amount
                                           ELSE L[w].balance
      /\ from # NoWallet => L[from].balance >= amount
  <2>1. CASE from = NoWallet
    BY <2>1, GrowsReflexive, NoWalletAssumption
  <2>2. CASE from # NoWallet
    <3> DEFINE b == Debit(L[from], amount, t)
    <3>1. from \in Wallets /\ ~DebitRefused(L[from], amount)
      BY <2>2 DEF PostRefused
    <3>2. L[from] \in Account /\ ChainOK(L[from], opening[from]) /\ opening[from] \in Nat
      BY <3>1 DEF Sound
    <3>3. /\ b \in Account /\ ChainOK(b, opening[from]) /\ Extends(L[from], b)
          /\ b.balance = L[from].balance - amount /\ L[from].balance >= amount
      BY <1>1, <3>1, <3>2, DebitLemma
    <3> HIDE DEF b
    <3>4. D = [L EXCEPT ![from] = b]
      BY <2>2 DEF b
    <3>5. /\ D \in [Wallets -> Account]
          /\ D[from] = b
          /\ \A w \in Wallets : w # from => D[w] = L[w]
      BY <3>1, <3>3, <3>4 DEF Sound
    <3> QED
      BY <3>1, <3>3, <3>5 DEF Sound, Grows, Extends
  <2> QED
    BY <2>1, <2>2
<1>3. M = IF to = NoWallet THEN D ELSE [D EXCEPT ![to] = Credit(D[to], amount, t)]
  BY DEF PostDoubleEntry
<1> HIDE DEF D, M
<1>4. CASE to = NoWallet
  <2>1. M = D
    BY <1>3, <1>4
  <2>2. ASSUME NEW w \in Wallets
        PROVE  M[w].balance = IF w = to THEN L[w].balance + amount
                              ELSE IF w = from THEN L[w].balance - amount
                              ELSE L[w].balance
    BY <1>2, <1>4, <2>1, NoWalletAssumption
  <2> QED
    BY <1>1, <1>2, <2>1, <2>2 DEF M, Moves
<1>5. CASE to # NoWallet
  <2> DEFINE b == Credit(D[to], amount, t)
  <2>1. /\ to \in Wallets /\ D[to] \in Account /\ ChainOK(D[to], opening[to])
        /\ opening[to] \in Nat
    BY <1>2, <1>5 DEF Sound
  <2>2. /\ b \in Account /\ ChainOK(b, opening[to]) /\ Extends(D[to], b)
        /\ b.balance = D[to].balance + amount
    BY <1>1, <2>1, CreditLemma
  <2>3. M = [D EXCEPT ![to] = b]
    BY <1>3, <1>5
  <2> HIDE DEF b
  <2>4. /\ M \in [Wallets -> Account]
        /\ M[to] = b
        /\ \A w \in Wallets : w # to => M[w] = D[w]
    BY <1>2, <2>1, <2>2, <2>3 DEF Sound
  <2>5. Sound(M, opening) /\ Grows(D, M)
    <3>1. Sound(M, opening)
      BY <1>2, <2>1, <2>2, <2>4 DEF Sound
    <3>2. ASSUME NEW w \in Wallets PROVE Extends(D[w], M[w])
      BY <2>2, <2>4, ExtendsReflexive
    <3> QED
      BY <3>1, <3>2 DEF Grows
  <2>6. Grows(L, M)
    BY <1>2, <2>5, GrowsTransitive DEF Sound
  <2>7. ASSUME NEW w \in Wallets
        PROVE  M[w].balance = IF w = to THEN L[w].balance + amount
                              ELSE IF w = from THEN L[w].balance - amount
                              ELSE L[w].balance
    BY <1>2, <2>2, <2>4
  <2> QED
    BY <1>1, <1>2, <2>5, <2>6, <2>7 DEF M, Moves
<1> QED
  BY <1>4, <1>5

-----------------------------------------------------------------------------
(* What the legs of one operation do together. *)

LEMMA PayloadLemma ==
  ASSUME NEW p \in Payloads
  PROVE  /\ p.kind \in Kinds /\ p.from \in Wallets \cup {NoWallet}
         /\ p.to \in Wallets /\ p.amount \in Int /\ p.from # p.to
         /\ Net(p) \in Int /\ FirstFee(p) \in Nat /\ SecondFee(p) \in Nat
         /\ p.from = NoWallet => FirstFee(p) = 0 /\ SecondFee(p) = 0
<1>1. /\ p.kind \in Kinds /\ p.from \in Wallets \cup {NoWallet}
      /\ p.to \in Wallets /\ p.amount \in Int /\ p.from # p.to
      /\ p.kind = "MANUAL" <=> p.from = NoWallet
  BY PayloadsAssumption
<1>2. OurFee[p.amount] \in Nat /\ MerchantFee[p.amount] \in Nat
  BY PayloadsAssumption DEF Amounts
<1> QED
  BY <1>1, <1>2 DEF Net, FirstFee, SecondFee, Kinds

(* A fee leg debits the payer, and only the payer, of the fee. *)
LEMMA FeeLemma ==
  ASSUME NEW opening \in [Wallets -> Nat], NEW L, Sound(L, opening),
         NEW p \in Payloads, NEW t \in Transactions, NEW fee \in Nat,
         p.from = NoWallet => fee = 0, ~FeeRefused(L, p, fee)
  PROVE  LET M == PostFee(L, p, fee, t) IN
         /\ Sound(M, opening)
         /\ Grows(L, M)
         /\ Moves(L, M, p.from, NoWallet, fee, fee)
         /\ p.from # NoWallet => L[p.from].balance >= fee
<1>1. p.from \in Wallets \cup {NoWallet}
  BY PayloadLemma
<1>2. \A w \in Wallets : L[w].balance \in Nat
  BY DEF Sound, Account
<1>3. CASE fee = 0
  BY <1>1, <1>2, <1>3, GrowsReflexive, NoWalletAssumption DEF PostFee, Moves
<1>4. CASE fee # 0
  <2>1. fee > 0 /\ p.from \in Wallets /\ ~PostRefused(L, p.from, NoWallet, fee)
    BY <1>1, <1>4 DEF FeeRefused
  <2>2. PostFee(L, p, fee, t) = PostDoubleEntry(L, p.from, NoWallet, fee, t)
    BY <2>1 DEF PostFee
  <2> DEFINE M == PostDoubleEntry(L, p.from, NoWallet, fee, t)
  <2>3. /\ Sound(M, opening)
        /\ Grows(L, M)
        /\ Moves(L, M, p.from, NoWallet, fee, fee)
        /\ p.from # NoWallet => L[p.from].balance >= fee
    BY <2>1, PostLemma
  <2> QED
    BY <2>2, <2>3
<1> QED
  BY <1>3, <1>4

LEMMA MovementLemma ==
  ASSUME NEW opening \in [Wallets -> Nat], NEW L, Sound(L, opening),
         NEW p \in Payloads, NEW t \in Transactions, ~Refused(L, p, t)
  PROVE  LET M == Post(L, p, t) IN
         /\ Sound(M, opening)
         /\ Grows(L, M)
         /\ Moves(L, M, p.from, p.to, Cost(p), Net(p))
         /\ Net(p) > 0
         /\ p.from # NoWallet => L[p.from].balance >= Cost(p)
<1> DEFINE A == AfterNet(L, p, t)
           B == AfterFirstFee(L, p, t)
           M == Post(L, p, t)
<1>0. /\ p.from \in Wallets \cup {NoWallet} /\ p.to \in Wallets /\ p.from # p.to
      /\ Net(p) \in Int /\ FirstFee(p) \in Nat /\ SecondFee(p) \in Nat
      /\ p.from = NoWallet => FirstFee(p) = 0 /\ SecondFee(p) = 0
  BY PayloadLemma
<1>1. /\ ~PostRefused(L, p.from, p.to, Net(p))
      /\ ~FeeRefused(A, p, FirstFee(p))
      /\ ~FeeRefused(B, p, SecondFee(p))
  BY DEF Refused
<1>2. /\ A = PostDoubleEntry(L, p.from, p.to, Net(p), t)
      /\ B = PostFee(A, p, FirstFee(p), t)
      /\ M = PostFee(B, p, SecondFee(p), t)
  BY DEF AfterNet, AfterFirstFee, Post
<1> HIDE DEF A, B, M
<1>3. /\ Sound(A, opening)
      /\ Grows(L, A)
      /\ Moves(L, A, p.from, p.to, Net(p), Net(p))
      /\ Net(p) > 0
      /\ p.from # NoWallet => L[p.from].balance >= Net(p)
  <2>1. p.to \in Wallets \cup {NoWallet}
    BY <1>0
  <2> QED
    BY <1>0, <1>1, <1>2, <2>1, PostLemma
<1>4. /\ Sound(B, opening)
      /\ Grows(A, B)
      /\ Moves(A, B, p.from, NoWallet, FirstFee(p), FirstFee(p))
      /\ p.from # NoWallet => A[p.from].balance >= FirstFee(p)
  BY <1>0, <1>1, <1>2, <1>3, FeeLemma
<1>5. /\ Sound(M, opening)
      /\ Grows(B, M)
      /\ Moves(B, M, p.from, NoWallet, SecondFee(p), SecondFee(p))
      /\ p.from # NoWallet => B[p.from].balance >= SecondFee(p)
  BY <1>0, <1>1, <1>2, <1>4, FeeLemma
<1>6. Grows(L, M)
  BY <1>3, <1>4, <1>5, GrowsTransitive DEF Sound
<1>7. \A w \in Wallets : L[w].balance \in Nat
  BY DEF Sound, Account
<1>8. Moves(L, M, p.from, p.to, Cost(p), Net(p))
  <2> SUFFICES ASSUME NEW w \in Wallets
               PROVE  M[w].balance = IF w = p.to THEN L[w].balance + Net(p)
                                     ELSE IF w = p.from THEN L[w].balance - Cost(p)
                                     ELSE L[w].balance
    BY DEF Moves
  <2>1. w # NoWallet /\ L[w].balance \in Nat
    BY <1>7, NoWalletAssumption
  <2>2. CASE w = p.from
    <3>1. A[w].balance = L[w].balance - Net(p)
      BY <1>0, <1>3, <2>2 DEF Moves
    <3>2. B[w].balance = A[w].balance - FirstFee(p)
      BY <1>4, <2>1, <2>2 DEF Moves
    <3>3. M[w].balance = B[w].balance - SecondFee(p)
      BY <1>5, <2>1, <2>2 DEF Moves
    <3> QED
      BY <1>0, <2>1, <2>2, <3>1, <3>2, <3>3 DEF Cost
  <2>3. CASE w # p.from
    <3>1. M[w].balance = B[w].balance /\ B[w].balance = A[w].balance
      BY <1>4, <1>5, <2>1, <2>3 DEF Moves
    <3>2. A[w].balance = IF w = p.to THEN L[w].balance + Net(p) ELSE L[w].balance
      BY <1>3, <2>3 DEF Moves
    <3> QED
      BY <2>3, <3>1, <3>2
  <2> QED
    BY <2>2, <2>3
<1>9. ASSUME p.from # NoWallet PROVE L[p.from].balance >= Cost(p)
  <2>1. p.from \in Wallets
    BY <1>0, <1>9
  <2>2. A[p.from].balance = L[p.from].balance - Net(p)
    BY <1>0, <1>3, <2>1 DEF Moves
  <2>3. B[p.from].balance = A[p.from].balance - FirstFee(p)
    BY <1>4, <1>9, <2>1 DEF Moves
  <2> QED
    BY <1>0, <1>5, <1>7, <1>9, <2>1, <2>2, <2>3 DEF Cost
<1> QED
  BY <1>3, <1>5, <1>6, <1>8, <1>9 DEF M
-----------------------------------------------------------------------------
(* Where a request can be, given what it has done. *)
Progress ==
  \A r \in Requests :
    /\ pc[r] # "idle" => intent[r] \in Intents
    /\ r \in posted => pc[r] \in {"committed", "answered", "lost"}
    /\ pc[r] = "committed" => r \in posted
    /\ answer[r].outcome # "NONE" => pc[r] = "answered"
    /\ pc[r] \in {"idle", "received"} => attempt[r] = 0
    /\ pc[r] = "admitted" => attempt[r] < MaxAttempts

(* The inductive invariant.  The ledger stays consistent because a request *)
(* that commits has read rows of the ledger's past (SnapshotsAreHistory)   *)
(* and their versions are still the current ones; its key is new because a *)
(* request that is open has not posted (Progress).                         *)
Inv ==
  /\ TypeOK
  /\ LedgerConsistent
  /\ SnapshotsAreHistory
  /\ AtMostOncePerKey
  /\ AnswersAreTrue
  /\ Progress

LEMMA PayloadType ==
  ASSUME Inv, NEW r \in Requests, pc[r] # "idle"
  PROVE  intent[r] \in Intents /\ Payload(r) \in Payloads
  BY DEF Inv, Progress, TypeOK, Payload

(* A request whose rows are not stale sees the ledger as it is. *)
LEMMA ViewLemma ==
  ASSUME Inv, NEW r \in Requests, pc[r] = "open", ~Stale(r)
  PROVE  View(r) = ledger
<1> SUFFICES ASSUME NEW w \in Wallets, w \in Touched(Payload(r))
             PROVE  [ledger[w] EXCEPT !.balance = snapshot[r][w].balance,
                                      !.version = snapshot[r][w].version] = ledger[w]
  BY DEF View, Inv, TypeOK
<1>1. ledger[w] \in Account /\ ChainOK(ledger[w], Opening[w])
  BY DEF Inv, TypeOK, LedgerConsistent
<1>2. snapshot[r][w].version = ledger[w].version
  BY DEF Stale
<1>3. snapshot[r][w].balance = ledger[w].balance
  BY <1>1, <1>2 DEF Inv, SnapshotsAreHistory, ChainOK
<1> QED
  BY <1>1, <1>2, <1>3 DEF Account

(* The balance at a version an account has reached never changes. *)
LEMMA HistoryLemma ==
  ASSUME NEW a \in Account, NEW b \in Account, NEW opening \in Nat,
         ChainOK(a, opening), ChainOK(b, opening), Extends(a, b)
  PROVE  /\ a.version <= b.version
         /\ \A n \in 0..a.version : BalanceAt(b, opening, n) = BalanceAt(a, opening, n)
<1>1. a.version = Len(a.entries) /\ b.version = Len(b.entries)
  BY DEF ChainOK
<1> QED
  BY <1>1 DEF Extends, BalanceAt, Account

(* What a step that neither reads nor writes rows keeps. *)
LEMMA QuietLemma ==
  ASSUME Inv, UNCHANGED <<ledger, posted, payload, snapshot>>,
         \A q \in Requests : pc'[q] = "open" => pc[q] = "open",
         \A q \in Requests : pc[q] # "idle" => intent'[q] = intent[q]
  PROVE  LedgerConsistent' /\ SnapshotsAreHistory' /\ AtMostOncePerKey'
<1>1. LedgerConsistent'
  BY DEF Inv, LedgerConsistent
<1>2. SnapshotsAreHistory'
  BY DEF Inv, SnapshotsAreHistory, Payload
<1>3. AtMostOncePerKey'
  <2>1. \A q \in posted : q \in Requests /\ pc[q] # "idle"
    BY DEF Inv, TypeOK, Progress
  <2> QED
    BY <2>1 DEF Inv, AtMostOncePerKey, Payload
<1> QED
  BY <1>1, <1>2, <1>3

LEMMA InvInit == Init => Inv
<1> SUFFICES ASSUME Init PROVE Inv
  OBVIOUS
<1> USE RequestsAssumption
<1>0. PICK f \in [Wallets -> BOOLEAN] :
        ledger = [w \in Wallets |-> NewAccount(Opening[w], f[w])]
  BY DEF Init
<1>1. ASSUME NEW w \in Wallets
      PROVE  ledger[w] \in Account /\ ChainOK(ledger[w], Opening[w])
  <2>1. ledger[w] = NewAccount(Opening[w], f[w])
    BY <1>0
  <2> QED
    BY <2>1, NewAccountLemma
<1>2. ledger \in [Wallets -> Account]
  BY <1>0, <1>1
<1>3. TypeOK
  BY <1>2 DEF Init, TypeOK, Row, NoRow, Outcomes, NoAnswer
<1>4. LedgerConsistent
  BY <1>1 DEF LedgerConsistent
<1>5. SnapshotsAreHistory /\ AtMostOncePerKey /\ AnswersAreTrue /\ Progress
  BY DEF Init, SnapshotsAreHistory, AtMostOncePerKey, AnswersAreTrue, Progress, NoAnswer
<1> QED
  BY <1>3, <1>4, <1>5 DEF Inv

(* Answering a request that has no answer. *)
LEMMA AnswerLemma ==
  ASSUME Inv, NEW r \in Requests, NEW outcome \in Outcomes \ {"NONE"},
         NEW t \in Requests \cup {NoTransaction}, pc[r] # "idle",
         Answer(r, outcome, t), UNCHANGED <<ledger, posted, payload, intent, snapshot, attempt>>,
         outcome = "OK" => t \in posted /\ intent[t] = intent[r],
         outcome # "OK" => r \notin posted
  PROVE  Inv'
<1>1. TypeOK'
  BY DEF Inv, TypeOK, Answer, Outcomes
<1>2. LedgerConsistent' /\ SnapshotsAreHistory' /\ AtMostOncePerKey'
  <2>1. \A q \in Requests : pc'[q] = "open" => pc[q] = "open"
    BY DEF Inv, TypeOK, Answer
  <2> QED
    BY <2>1, QuietLemma
<1>3. /\ \A q \in Requests : q # r => pc'[q] = pc[q] /\ answer'[q] = answer[q]
      /\ pc'[r] = "answered"
      /\ answer'[r] = [outcome |-> outcome, transaction |-> t]
  BY DEF Inv, TypeOK, Answer
<1>4. AnswersAreTrue'
  BY <1>3 DEF Inv, AnswersAreTrue
<1>5. Progress'
  BY <1>3 DEF Inv, Progress
<1> QED
  BY <1>1, <1>2, <1>4, <1>5 DEF Inv

(* Committing: the only step that writes rows. *)
LEMMA CommitLemma ==
  ASSUME Inv, NEW r \in Requests, Commit(r)
  PROVE  /\ Inv'
         /\ posted' = posted \cup {r} /\ r \notin posted
         /\ Moves(ledger, ledger', Payload(r).from, Payload(r).to,
                  Cost(Payload(r)), Net(Payload(r)))
         /\ Net(Payload(r)) > 0
         /\ Payload(r).from # NoWallet =>
               ledger[Payload(r).from].balance >= Cost(Payload(r))
<1> DEFINE p == Payload(r)
<1>1. p \in Payloads /\ intent[r] \in Intents
  BY PayloadType DEF Commit
<1>2. View(r) = ledger
  BY ViewLemma DEF Commit
<1>3. Sound(ledger, Opening) /\ Opening \in [Wallets -> Nat] /\ r \in Transactions
  BY RequestsAssumption DEF Inv, TypeOK, LedgerConsistent, Sound
<1>4. ~Refused(ledger, p, r) /\ ledger' = Post(ledger, p, r)
  BY <1>2 DEF Commit
<1> HIDE DEF p
<1>5. /\ Sound(ledger', Opening)
      /\ Grows(ledger, ledger')
      /\ Moves(ledger, ledger', p.from, p.to, Cost(p), Net(p))
      /\ Net(p) > 0
      /\ p.from # NoWallet => ledger[p.from].balance >= Cost(p)
  BY <1>1, <1>3, <1>4, MovementLemma
<1>6. /\ posted' = posted \cup {r}
      /\ pc' = [pc EXCEPT ![r] = "committed"]
      /\ UNCHANGED <<payload, intent, snapshot, attempt, answer>>
      /\ pc[r] = "open"
      /\ ~KeyTaken(r)
  BY DEF Commit
<1>7. r \notin posted
  BY <1>6 DEF Inv, Progress
<1>8. LedgerConsistent' /\ ledger' \in [Wallets -> Account]
  BY <1>5 DEF Sound, LedgerConsistent
<1>9. TypeOK'
  BY <1>6, <1>8 DEF Inv, TypeOK
<1>10. SnapshotsAreHistory'
  <2> SUFFICES ASSUME NEW q \in Requests, pc'[q] = "open",
                      NEW w \in Wallets, w \in Touched(Payload(q)')
               PROVE  /\ snapshot[q][w].version <= ledger'[w].version
                      /\ snapshot[q][w].balance
                           = BalanceAt(ledger'[w], Opening[w], snapshot[q][w].version)
    <3>1. ASSUME NEW q \in Requests, pc'[q] = "open"
          PROVE  Touched(Payload(q)') \subseteq Wallets
      <4>1. pc[q] # "idle" /\ Payload(q)' = Payload(q)
        BY <1>6, <3>1 DEF Inv, TypeOK, Payload
      <4> QED
        BY <4>1, PayloadType, PayloadLemma DEF Touched
    <3> QED
      BY <1>6, <3>1 DEF SnapshotsAreHistory, Touched
  <2>1. pc[q] = "open" /\ Payload(q)' = Payload(q)
    BY <1>6 DEF Inv, TypeOK, Payload
  <2>2. /\ snapshot[q][w].version <= ledger[w].version
        /\ snapshot[q][w].balance
             = BalanceAt(ledger[w], Opening[w], snapshot[q][w].version)
        /\ snapshot[q][w].version \in Nat
    BY <2>1 DEF Inv, SnapshotsAreHistory, TypeOK, Row
  <2>3. /\ ledger[w] \in Account /\ ledger'[w] \in Account /\ Opening[w] \in Nat
        /\ ChainOK(ledger[w], Opening[w]) /\ ChainOK(ledger'[w], Opening[w])
        /\ Extends(ledger[w], ledger'[w])
    BY <1>3, <1>5 DEF Sound, Grows
  <2>4. /\ ledger[w].version <= ledger'[w].version
        /\ \A n \in 0..ledger[w].version :
             BalanceAt(ledger'[w], Opening[w], n) = BalanceAt(ledger[w], Opening[w], n)
    BY <2>3, HistoryLemma
  <2>5. ledger[w].version \in Nat /\ ledger'[w].version \in Nat
    BY <2>3 DEF Account
  <2> QED
    BY <2>2, <2>4, <2>5
<1>11. AtMostOncePerKey'
  <2>1. \A q \in posted : intent[q] = intent[r] => ~Keyed(p)
    BY <1>6 DEF KeyTaken, p
  <2>2. \A q \in Requests : Payload(q)' = Payload(q)
    BY <1>6 DEF Payload
  <2>3. \A q \in posted : intent[q] = intent[r] => Payload(q) = p
    BY DEF Payload, p
  <2> QED
    BY <1>6, <2>1, <2>2, <2>3 DEF Inv, AtMostOncePerKey, TypeOK, p
<1>12. AnswersAreTrue'
  BY <1>6 DEF Inv, AnswersAreTrue, Progress
<1>13. Progress'
  BY <1>1, <1>6 DEF Inv, Progress, TypeOK
<1> QED
  BY <1>5, <1>6, <1>7, <1>8, <1>9, <1>10, <1>11, <1>12, <1>13 DEF Inv, p

LEMMA InvNext == Inv /\ [Next]_vars => Inv'
<1> SUFFICES ASSUME Inv, [Next]_vars PROVE Inv'
  OBVIOUS
<1> USE RequestsAssumption
<1>1. ASSUME NEW r \in Requests, NEW i \in Intents, Submit(r, i) PROVE Inv'
  <2>1. TypeOK'
    BY <1>1 DEF Submit, Inv, TypeOK
  <2>2. /\ \A q \in Requests : pc'[q] = "open" => pc[q] = "open"
        /\ \A q \in Requests : pc[q] # "idle" => intent'[q] = intent[q]
    BY <1>1 DEF Submit, Inv, TypeOK
  <2>3. LedgerConsistent' /\ SnapshotsAreHistory' /\ AtMostOncePerKey'
    BY <1>1, <2>2, QuietLemma DEF Submit
  <2>4. AnswersAreTrue'
    <3>1. \A q \in Requests : answer[q].outcome = "OK" =>
             q # r /\ answer[q].transaction # r /\ answer[q].transaction \in Requests
      BY <1>1 DEF Submit, Inv, AnswersAreTrue, Progress, TypeOK
    <3> QED
      BY <1>1, <3>1 DEF Submit, Inv, AnswersAreTrue, Progress, TypeOK
  <2>5. Progress'
    BY <1>1 DEF Submit, Inv, Progress, TypeOK
  <2> QED
    BY <2>1, <2>3, <2>4, <2>5 DEF Inv
<1>2. ASSUME NEW r \in Requests, ReturnExisting(r) PROVE Inv'
  <2>1. PICK s \in posted : intent[s] = intent[r] /\ Answer(r, "OK", s)
    BY <1>2 DEF ReturnExisting
  <2>2. s \in Requests
    BY DEF Inv, TypeOK
  <2> QED
    BY <1>2, <2>1, <2>2, AnswerLemma DEF ReturnExisting, Outcomes
<1>3. ASSUME NEW r \in Requests, Admit(r) PROVE Inv'
  <2>1. TypeOK'
    BY <1>3 DEF Admit, Inv, TypeOK
  <2>2. \A q \in Requests : pc'[q] = "open" => pc[q] = "open"
    BY <1>3 DEF Admit, Inv, TypeOK
  <2>3. LedgerConsistent' /\ SnapshotsAreHistory' /\ AtMostOncePerKey'
    BY <1>3, <2>2, QuietLemma DEF Admit
  <2>4. AnswersAreTrue'
    BY <1>3 DEF Admit, Inv, AnswersAreTrue
  <2>5. Progress'
    BY <1>3 DEF Admit, Inv, Progress, TypeOK
  <2> QED
    BY <2>1, <2>3, <2>4, <2>5 DEF Inv
<1>4. ASSUME NEW r \in Requests, Reject(r) PROVE Inv'
  <2>1. r \notin posted
    BY <1>4 DEF Reject, Inv, Progress
  <2> QED
    BY <1>4, <2>1, AnswerLemma DEF Reject, Outcomes
<1>5. ASSUME NEW r \in Requests, Open(r) PROVE Inv'
  <2> DEFINE read == [w \in Wallets |-> IF w \in Touched(Payload(r))
                                       THEN [balance |-> ledger[w].balance,
                                             version |-> ledger[w].version]
                                       ELSE NoRow]
  <2>1. /\ pc[r] = "admitted" /\ pc' = [pc EXCEPT ![r] = "open"]
        /\ attempt' = [attempt EXCEPT ![r] = attempt[r] + 1]
        /\ snapshot' = [snapshot EXCEPT ![r] = read]
        /\ UNCHANGED <<ledger, posted, payload, intent, answer>>
    BY <1>5 DEF Open
  <2>2. \A w \in Wallets : ledger[w] \in Account
    BY DEF Inv, TypeOK
  <2>3. read \in [Wallets -> Row]
    BY <2>2 DEF Row, NoRow, Account
  <2>4. TypeOK'
    <3>1. attempt[r] + 1 \in 0..MaxAttempts
      BY <2>1 DEF Inv, TypeOK, Progress
    <3> HIDE DEF read
    <3> QED
      BY <2>1, <2>3, <3>1 DEF Inv, TypeOK
  <2>5. LedgerConsistent' /\ AnswersAreTrue'
    BY <2>1 DEF Inv, LedgerConsistent, AnswersAreTrue
  <2>6. AtMostOncePerKey'
    BY <2>1 DEF Inv, AtMostOncePerKey, Payload
  <2>7. SnapshotsAreHistory'
    <3> SUFFICES ASSUME NEW q \in Requests, pc'[q] = "open",
                        NEW w \in Wallets, w \in Touched(Payload(q)')
                 PROVE  /\ snapshot'[q][w].version <= ledger[w].version
                        /\ snapshot'[q][w].balance
                             = BalanceAt(ledger[w], Opening[w], snapshot'[q][w].version)
      <4>1. ASSUME NEW q \in Requests, pc'[q] = "open"
            PROVE  Touched(Payload(q)') \subseteq Wallets
        <5>1. pc[q] # "idle" /\ Payload(q)' = Payload(q)
          BY <2>1, <4>1 DEF Inv, TypeOK, Payload
        <5> QED
          BY <5>1, PayloadType, PayloadLemma DEF Touched
      <4> QED
        BY <2>1, <4>1 DEF SnapshotsAreHistory
    <3>1. Payload(q)' = Payload(q)
      BY <2>1 DEF Payload
    <3>2. CASE q = r
      <4>1. snapshot'[q][w] = [balance |-> ledger[w].balance, version |-> ledger[w].version]
        BY <2>1, <3>1, <3>2 DEF Inv, TypeOK
      <4>2. ChainOK(ledger[w], Opening[w]) /\ ledger[w].version \in Nat
        BY <2>2 DEF Inv, LedgerConsistent, Account
      <4> QED
        BY <4>1, <4>2 DEF ChainOK
    <3>3. CASE q # r
      BY <2>1, <3>1, <3>3 DEF Inv, SnapshotsAreHistory, TypeOK
    <3> QED
      BY <3>2, <3>3
  <2>8. Progress'
    <3> HIDE DEF read
    <3> QED
      BY <2>1 DEF Inv, Progress, TypeOK
  <2> QED
    BY <2>4, <2>5, <2>6, <2>7, <2>8 DEF Inv
<1>6. ASSUME NEW r \in Requests, DuplicateKey(r) PROVE Inv'
  <2>1. r \notin posted
    BY <1>6 DEF DuplicateKey, Inv, Progress
  <2> QED
    BY <1>6, <2>1, AnswerLemma DEF DuplicateKey, Outcomes
<1>7. ASSUME NEW r \in Requests, Refuse(r) PROVE Inv'
  <2>1. r \notin posted
    BY <1>7 DEF Refuse, Inv, Progress
  <2> QED
    BY <1>7, <2>1, AnswerLemma DEF Refuse, Outcomes
<1>8. ASSUME NEW r \in Requests, Commit(r) PROVE Inv'
  BY <1>8, CommitLemma
<1>9. ASSUME NEW r \in Requests, Retry(r) PROVE Inv'
  <2>1. TypeOK'
    BY <1>9 DEF Retry, Inv, TypeOK
  <2>2. \A q \in Requests : pc'[q] = "open" => pc[q] = "open"
    BY <1>9 DEF Retry, Inv, TypeOK
  <2>3. LedgerConsistent' /\ SnapshotsAreHistory' /\ AtMostOncePerKey'
    BY <1>9, <2>2, QuietLemma DEF Retry
  <2>4. AnswersAreTrue'
    BY <1>9 DEF Retry, Inv, AnswersAreTrue
  <2>5. Progress'
    BY <1>9 DEF Retry, Inv, Progress, TypeOK
  <2> QED
    BY <2>1, <2>3, <2>4, <2>5 DEF Inv
<1>10. ASSUME NEW r \in Requests, GiveUp(r) PROVE Inv'
  <2>1. r \notin posted
    BY <1>10 DEF GiveUp, Inv, Progress
  <2> QED
    BY <1>10, <2>1, AnswerLemma DEF GiveUp, Outcomes
<1>11. ASSUME NEW r \in Requests, Reply(r) PROVE Inv'
  <2>1. r \in posted
    BY <1>11 DEF Reply, Inv, Progress
  <2> QED
    BY <1>11, <2>1, AnswerLemma DEF Reply, Outcomes
<1>12. ASSUME NEW r \in Requests, Lose(r) PROVE Inv'
  <2>1. TypeOK'
    BY <1>12 DEF Lose, Inv, TypeOK
  <2>2. \A q \in Requests : pc'[q] = "open" => pc[q] = "open"
    BY <1>12 DEF Lose, Inv, TypeOK
  <2>3. LedgerConsistent' /\ SnapshotsAreHistory' /\ AtMostOncePerKey'
    BY <1>12, <2>2, QuietLemma DEF Lose
  <2>4. AnswersAreTrue'
    BY <1>12 DEF Lose, Inv, AnswersAreTrue
  <2>5. Progress'
    BY <1>12 DEF Lose, Inv, Progress, TypeOK
  <2> QED
    BY <2>1, <2>3, <2>4, <2>5 DEF Inv
<1>13. ASSUME UNCHANGED vars PROVE Inv'
  <2>1. LedgerConsistent' /\ SnapshotsAreHistory' /\ AtMostOncePerKey'
    BY <1>13, QuietLemma DEF vars
  <2> QED
    BY <1>13, <2>1 DEF vars, Inv, TypeOK, AnswersAreTrue, Progress
<1> QED
  BY <1>1, <1>2, <1>3, <1>4, <1>5, <1>6, <1>7, <1>8, <1>9, <1>10, <1>11, <1>12,
     <1>13 DEF Next, Handle, Done

-----------------------------------------------------------------------------
LEMMA Invariance == Spec => []Inv
  BY InvInit, InvNext, PTL DEF Spec

(* The types are kept: no balance becomes negative, no attempt is made     *)
(* beyond the last, whatever the operations and their interleaving.        *)
THEOREM TypeCorrectness == Spec => []TypeOK
  BY Invariance, PTL DEF Inv

(* No update of a wallet is lost and the cached balance is always the one  *)
(* the entries record.                                                     *)
THEOREM LedgerIsConsistent == Spec => []LedgerConsistent
  BY Invariance, PTL DEF Inv

(* Concurrent submissions of one idempotency key move money at most once.  *)
THEOREM KeysAreUsedOnce == Spec => []AtMostOncePerKey
  BY Invariance, PTL DEF Inv

(* A client told that its movement happened can rely on it, and one told   *)
(* that it was refused too.                                                *)
THEOREM AnswersCanBeTrusted == Spec => []AnswersAreTrue
  BY Invariance, PTL DEF Inv

(* What a request has read is a state its wallets have been in.            *)
THEOREM ReadsAreHistory == Spec => []SnapshotsAreHistory
  BY Invariance, PTL DEF Inv

-----------------------------------------------------------------------------
(* Every commit is an atomic movement, every other step changes nothing a  *)
(* reader of the balances could see.                                       *)
LEMMA RefinementInit == Init => Abstract!Init
<1> SUFFICES ASSUME Init PROVE Abstract!Init
  OBVIOUS
<1>1. PICK f \in [Wallets -> BOOLEAN] :
        ledger = [w \in Wallets |-> NewAccount(Opening[w], f[w])]
  BY DEF Init
<1>2. [w \in Wallets |-> ledger[w].balance] = Opening
  BY <1>1, RequestsAssumption DEF NewAccount
<1>3. {[intent |-> intent[r], execution |-> r] : r \in posted} = {}
  BY DEF Init
<1> QED
  BY <1>2, <1>3 DEF Init, Abstract!Init

LEMMA RefinementCommit ==
  ASSUME Inv, NEW r \in Requests, Commit(r)
  PROVE  Abstract!Execute(intent[r], r)
<1> DEFINE p == payload[intent[r]]
           executed == {[intent |-> intent[q], execution |-> q] : q \in posted}
<1>1. /\ posted' = posted \cup {r} /\ r \notin posted
      /\ Moves(ledger, ledger', p.from, p.to, Cost(p), Net(p))
      /\ Net(p) > 0
      /\ p.from # NoWallet => ledger[p.from].balance >= Cost(p)
  BY CommitLemma DEF Payload
<1>2. /\ UNCHANGED <<payload, intent>>
      /\ ~KeyTaken(r)
  BY DEF Commit
<1>3. p \in Payloads
  BY PayloadType DEF Commit, Payload
<1>4. p.from \in Wallets \cup {NoWallet}
  BY <1>3, PayloadLemma
<1>5. \A x \in executed : x.execution # r
  BY <1>1
<1>6. Keyed(p) => \A x \in executed : x.intent # intent[r]
  BY <1>2 DEF KeyTaken, Payload
<1>7. executed' = executed \cup {[intent |-> intent[r], execution |-> r]}
  BY <1>1, <1>2
<1>8. p.from # NoWallet =>
        [w \in Wallets |-> ledger[w].balance][p.from] >= Cost(p)
  BY <1>1, <1>4
<1>9. [w \in Wallets |-> ledger[w].balance]'
        = [w \in Wallets |->
             IF w = p.to THEN [v \in Wallets |-> ledger[v].balance][w] + Net(p)
             ELSE IF w = p.from THEN [v \in Wallets |-> ledger[v].balance][w] - Cost(p)
             ELSE [v \in Wallets |-> ledger[v].balance][w]]
  BY <1>1 DEF Moves
<1>10. /\ Abstract!Keyed(p) = Keyed(p)
       /\ Abstract!Net(p) = Net(p)
       /\ Abstract!Cost(p) = Cost(p)
  BY DEF Abstract!Keyed, Keyed, Abstract!Net, Net, Abstract!Cost, Cost,
     Abstract!FirstFee, FirstFee, Abstract!SecondFee, SecondFee
<1> QED
  BY <1>1, <1>2, <1>5, <1>6, <1>7, <1>8, <1>9, <1>10 DEF Abstract!Execute

LEMMA RefinementNext == Inv /\ [Next]_vars => [Abstract!Next]_Abstract!vars
<1> SUFFICES ASSUME Inv, [Next]_vars, ~(\E r \in Requests : Commit(r))
             PROVE  UNCHANGED Abstract!vars
  <2>1. ASSUME Inv, NEW r \in Requests, Commit(r) PROVE Abstract!Next
    <3>1. intent[r] \in Intents
      BY <2>1, PayloadType DEF Commit
    <3> QED
      BY <2>1, <3>1, RefinementCommit DEF Abstract!Next
  <2> QED
    BY <2>1
<1>1. ASSUME NEW r \in Requests, NEW i \in Intents, Submit(r, i)
      PROVE  UNCHANGED <<ledger, posted, payload>>
             /\ \A q \in posted : intent'[q] = intent[q]
  BY <1>1 DEF Submit, Inv, Progress, TypeOK
<1>2. ASSUME ~(\E r \in Requests, i \in Intents : Submit(r, i))
      PROVE  UNCHANGED <<ledger, posted, payload, intent>>
  BY <1>2 DEF Next, Handle, ReturnExisting, Admit, Reject, Open, DuplicateKey,
     Refuse, Retry, GiveUp, Reply, Lose, Done, vars
<1>3. UNCHANGED <<ledger, posted, payload>> /\ \A q \in posted : intent'[q] = intent[q]
  BY <1>1, <1>2
<1>4. UNCHANGED [w \in Wallets |-> ledger[w].balance]
  BY <1>3
<1>5. UNCHANGED {[intent |-> intent[q], execution |-> q] : q \in posted}
  BY <1>3
<1> QED
  BY <1>3, <1>4, <1>5 DEF Abstract!vars

(* The requests implement MoneyMovement: whatever the retries, replays,    *)
(* conflicts and crashes, balances change as if each movement happened at  *)
(* once, could be paid for, and happened at most once for its key.         *)
THEOREM ImplementsMoneyMovement == Spec => AbstractSpec
  BY Invariance, RefinementInit, RefinementNext, PTL DEF Spec, AbstractSpec, Abstract!Spec
=============================================================================
