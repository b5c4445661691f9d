------------------------- MODULE StoredValueProofs -------------------------
(***************************************************************************)
(* Money put aside, for any number of requests, rows and amounts: types,   *)
(* Épargne Gold never overdrawn, and no harm without a reading that was    *)
(* old.  What carries the proof is Current: a request whose reading is not *)
(* marked stale could take its decision again now.                         *)
(***************************************************************************)
EXTENDS StoredValue, FiniteSetTheorems, TLAPS

(* A reading that is not stale is still true of the row. *)
Current ==
  \A r \in Requests :
    pc[r] = "checked" /\ ~stale[r] =>
      state[order[r].pot] # "DELETED" /\ Sufficient(order[r])

Inv == TypeOK /\ Current /\ OnlyStaleReadsHurt /\ GoldIsCovered

(* What an order is made of. *)
LEMMA OrderTypes ==
  ASSUME NEW r \in Requests, TypeOK
  PROVE  /\ order[r] \in Orders
         /\ order[r].op \in Ops /\ order[r].pot \in Pots
         /\ order[r].amount \in Nat \ {0}
         /\ Offered(order[r].op, Kind[order[r].pot])
         /\ OurFee[order[r].amount] \in Nat
         /\ MerchantFee[order[r].amount] \in 0..order[r].amount
BY StoredValueAssumption DEF TypeOK, Order

(* A step that leaves row p alone, and forgets no request, leaves its      *)
(* blame.                                                                  *)
LEMMA BlameStays ==
  ASSUME NEW p \in Pots, Blamed(p), order' = order,
         \A s \in Requests : pc[s] = "done" => pc'[s] = "done",
         \A s \in Requests : stale[s] => stale'[s]
  PROVE  Blamed(p)'
BY DEF Blamed

(* A request that concludes: its place, what the others now work on.       *)
LEMMA ConcludeLemma ==
  ASSUME NEW r \in Requests, TypeOK, Current, pc[r] = "checked",
         Finish(r), Outdate(r), order' = order,
         \A p \in Pots \ {order[r].pot} : pot'[p] = pot[p] /\ state'[p] = state[p]
  PROVE  /\ pc' \in [Requests -> {"idle", "checked", "done", "refused"}]
         /\ stale' \in [Requests -> BOOLEAN]
         /\ pc'[r] = "done"
         /\ \A s \in Requests : pc[s] = "done" => pc'[s] = "done"
         /\ \A s \in Requests : stale[s] => stale'[s]
         /\ stale'[r] = stale[r]
         /\ Current'
<1>1. /\ pc' \in [Requests -> {"idle", "checked", "done", "refused"}]
      /\ pc'[r] = "done"
      /\ \A s \in Requests \ {r} : pc'[s] = pc[s]
  BY DEF Finish, TypeOK
<1>2. /\ stale' \in [Requests -> BOOLEAN]
      /\ \A s \in Requests : stale[s] => stale'[s]
      /\ stale'[r] = stale[r]
  BY Zenon DEF Outdate, TypeOK
<1>3. Current'
  <2> SUFFICES ASSUME NEW s \in Requests, pc'[s] = "checked", ~stale'[s]
               PROVE  state'[order[s].pot] # "DELETED" /\ Sufficient(order[s])'
    BY DEF Current
  <2>1. s # r /\ pc[s] = "checked"
    BY <1>1
  <2>2. ~stale[s] /\ order[s].pot # order[r].pot
    BY <2>1, Zenon DEF Outdate
  <2>3. state[order[s].pot] # "DELETED" /\ Sufficient(order[s])
    BY <2>1, <2>2 DEF Current
  <2>4. pot'[order[s].pot] = pot[order[s].pot] /\ state'[order[s].pot] = state[order[s].pot]
    BY <2>2, OrderTypes
  <2> QED
    BY <2>3, <2>4 DEF Sufficient, Drawn, CardDebit
<1> QED
  BY <1>1, <1>2, <1>3

-----------------------------------------------------------------------------
LEMMA InitInv == Init => Inv
<1> SUFFICES ASSUME Init PROVE Inv
  OBVIOUS
<1>1. TypeOK
  BY StoredValueAssumption DEF Init, TypeOK, States
<1>2. \A p \in Pots : pot[p] \in Int /\ pot[p] >= 0 /\ state[p] # "DELETED"
  BY StoredValueAssumption DEF Init
<1>3. Current
  BY DEF Init, Current
<1> QED
  BY <1>1, <1>2, <1>3 DEF Inv, OnlyStaleReadsHurt, Hurt, GoldIsCovered

(* Steps that touch no row: the reading itself, and a request that fails.  *)
LEMMA QuietStep ==
  ASSUME Inv, NEW r \in Requests, Check(r) \/ Fail(r)
  PROVE  Inv'
<1>1. UNCHANGED <<order, state, pot, balance, stale>>
  BY DEF Check, Fail
<1>2. /\ pc' \in [Requests -> {"idle", "checked", "done", "refused"}]
      /\ \A s \in Requests \ {r} : pc'[s] = pc[s]
      /\ pc[r] # "done"
  BY DEF Check, Fail, Inv, TypeOK
<1>3. TypeOK'
  BY <1>1, <1>2 DEF Inv, TypeOK
<1>4. pc'[r] = "checked" => state[order[r].pot] # "DELETED" /\ Sufficient(order[r])
  BY DEF Check, Fail, Usable, Inv, TypeOK
<1>5. Current'
  BY <1>1, <1>2, <1>4 DEF Current, Inv, Sufficient, Drawn, CardDebit
<1>6. OnlyStaleReadsHurt'
  BY <1>1, <1>2 DEF OnlyStaleReadsHurt, Hurt, Blamed, Inv
<1>7. GoldIsCovered'
  BY <1>1 DEF GoldIsCovered, Inv
<1> QED
  BY <1>3, <1>5, <1>6, <1>7 DEF Inv

(* A step of request r on the row it names, after which that row is hurt   *)
(* only if it was hurt before or the reading of r was old.                 *)
LEMMA RowStep ==
  ASSUME Inv, NEW r \in Requests, pc[r] = "checked",
         Finish(r), Outdate(r), order' = order,
         pot' \in [Pots -> Int],
         state' \in [Pots -> States],
         balance' \in [Accounts -> Nat],
         \A p \in Pots \ {order[r].pot} : pot'[p] = pot[p] /\ state'[p] = state[p],
         Hurt(order[r].pot)' => Hurt(order[r].pot) \/ stale[r],
         Kind[order[r].pot] = "GOLD" => pot'[order[r].pot] >= 0
  PROVE  Inv'
<1>1. /\ pc' \in [Requests -> {"idle", "checked", "done", "refused"}]
      /\ stale' \in [Requests -> BOOLEAN]
      /\ pc'[r] = "done"
      /\ \A s \in Requests : pc[s] = "done" => pc'[s] = "done"
      /\ \A s \in Requests : stale[s] => stale'[s]
      /\ stale'[r] = stale[r]
      /\ Current'
  BY ConcludeLemma DEF Inv
<1>2. TypeOK'
  BY <1>1 DEF Inv, TypeOK
<1>3. ASSUME NEW p \in Pots, Hurt(p)' PROVE Blamed(p)'
  <2>1. CASE Hurt(p)
    <3>1. Blamed(p)
      BY <2>1 DEF Inv, OnlyStaleReadsHurt, Hurt, Blamed
    <3> QED
      BY <3>1, <1>1, BlameStays
  <2>2. CASE ~Hurt(p)
    <3>1. p = order[r].pot
      BY <1>3, <2>2 DEF Hurt
    <3>2. stale[r]
      BY <1>3, <2>2, <3>1
    <3> QED
      BY <1>1, <3>1, <3>2 DEF Blamed
  <2> QED
    BY <2>1, <2>2
<1>4. OnlyStaleReadsHurt'
  BY <1>3 DEF OnlyStaleReadsHurt, Hurt, Blamed
<1>5. GoldIsCovered'
  BY DEF Inv, GoldIsCovered
<1> QED
  BY <1>1, <1>2, <1>4, <1>5 DEF Inv

(* A new row is neither overdrawn nor deleted. *)
LEMMA CreateStep == ASSUME Inv, NEW r \in Requests, Create(r) PROVE Inv'
<1> DEFINE o == order[r]
<1>1. /\ o.pot \in Pots /\ Kind[o.pot] # "GOLD"
      /\ pc[r] = "checked" /\ Finish(r) /\ Outdate(r)
      /\ order' = order /\ pot' = pot /\ balance' = balance
  BY OrderTypes DEF Create, Inv, Offered
<1>2. PICK s \in {"ACTIVE", "PENDING"} : state' = [state EXCEPT ![o.pot] = s]
  BY DEF Create
<1>3. /\ state' \in [Pots -> States]
      /\ \A p \in Pots \ {o.pot} : state'[p] = state[p]
      /\ state'[o.pot] # "DELETED"
  BY <1>1, <1>2 DEF Inv, TypeOK, States
<1>4. Hurt(o.pot)' => Hurt(o.pot)
  BY <1>1, <1>3 DEF Hurt
<1>5. pot' \in [Pots -> Int] /\ balance' \in [Accounts -> Nat]
  BY <1>1 DEF Inv, TypeOK
<1> QED
  BY <1>1, <1>3, <1>4, <1>5, RowStep

LEMMA LoadStep == ASSUME Inv, NEW r \in Requests, Load(r) PROVE Inv'
<1> DEFINE o == order[r]
<1>1. /\ o.pot \in Pots /\ o.amount \in Nat \ {0} /\ o.op = "LOAD"
      /\ pc[r] = "checked" /\ Finish(r) /\ Outdate(r)
      /\ order' = order /\ state' = state
  BY OrderTypes DEF Load, Inv
<1>2. /\ pot' \in [Pots -> Int] /\ pot'[o.pot] = pot[o.pot] + o.amount
      /\ \A p \in Pots \ {o.pot} : pot'[p] = pot[p]
  BY <1>1 DEF Load, Inv, TypeOK
<1>3. balance' \in [Accounts -> Nat]
  BY <1>1 DEF Load, Commits, Covered, Inv, TypeOK, Accounts
<1>4. state[o.pot] # "DELETED" /\ pot[o.pot] \in Int
  BY <1>1 DEF Load, Commits, Inv, TypeOK
<1>5. Hurt(o.pot)' => Hurt(o.pot)
  BY <1>1, <1>2, <1>4 DEF Hurt
<1>6. Kind[o.pot] = "GOLD" => pot'[o.pot] >= 0
  BY <1>1, <1>2, <1>4 DEF Inv, GoldIsCovered
<1>7. state' \in [Pots -> States]
  BY <1>1 DEF Inv, TypeOK
<1> QED
  BY <1>1, <1>2, <1>3, <1>5, <1>6, <1>7, RowStep

LEMMA UnloadStep == ASSUME Inv, NEW r \in Requests, Unload(r) PROVE Inv'
<1> DEFINE o == order[r]
<1>1. /\ o.pot \in Pots /\ o.amount \in Nat \ {0} /\ o.op = "UNLOAD"
      /\ pc[r] = "checked" /\ Finish(r) /\ Outdate(r)
      /\ order' = order /\ state' = state
  BY OrderTypes DEF Unload, Inv
<1>2. /\ pot' \in [Pots -> Int] /\ pot'[o.pot] = pot[o.pot] - o.amount
      /\ \A p \in Pots \ {o.pot} : pot'[p] = pot[p]
  BY <1>1 DEF Unload, Inv, TypeOK
<1>3. balance' \in [Accounts -> Nat]
  BY <1>1 DEF Unload, Inv, TypeOK, Accounts
<1>4. state[o.pot] # "DELETED" /\ pot[o.pot] \in Int
  BY <1>1 DEF Unload, Commits, Inv, TypeOK
<1>5. Kind[o.pot] = "GOLD" => pot[o.pot] >= o.amount
  BY <1>1 DEF Unload, Commits, Covered
<1>6. ~stale[r] => pot[o.pot] >= o.amount
  BY <1>1, <1>5 DEF Inv, Current, Sufficient
<1>7. Hurt(o.pot)' => stale[r]
  BY <1>1, <1>2, <1>4, <1>6 DEF Hurt
<1>8. state' \in [Pots -> States]
  BY <1>1 DEF Inv, TypeOK
<1>9. Kind[o.pot] = "GOLD" => pot'[o.pot] >= 0
  BY <1>1, <1>2, <1>4, <1>5
<1> QED
  BY <1>1, <1>2, <1>3, <1>7, <1>8, <1>9, RowStep

LEMMA PayStep == ASSUME Inv, NEW r \in Requests, Pay(r) PROVE Inv'
<1> DEFINE o == order[r]
<1>1. /\ o.pot \in Pots /\ o.amount \in Nat \ {0} /\ o.op = "PAY"
      /\ OurFee[o.amount] \in Nat /\ MerchantFee[o.amount] \in 0..o.amount
      /\ Kind[o.pot] = "CARD"
      /\ pc[r] = "checked" /\ Finish(r) /\ Outdate(r)
      /\ order' = order /\ state' = state
  BY OrderTypes DEF Pay, Inv, Offered
<1>2. /\ pot' \in [Pots -> Int] /\ pot'[o.pot] = pot[o.pot] - CardDebit(o.amount)
      /\ \A p \in Pots \ {o.pot} : pot'[p] = pot[p]
  BY <1>1 DEF Pay, Inv, TypeOK, CardDebit
<1>3. balance' \in [Accounts -> Nat]
  BY <1>1 DEF Pay, Inv, TypeOK, Accounts
<1>4. state[o.pot] # "DELETED" /\ pot[o.pot] \in Int
  BY <1>1 DEF Pay, Commits, Inv, TypeOK
<1>5. ~stale[r] => pot[o.pot] >= CardDebit(o.amount)
  BY <1>1 DEF Inv, Current, Sufficient, Drawn
<1>6. Hurt(o.pot)' => stale[r]
  BY <1>1, <1>2, <1>4, <1>5 DEF Hurt, CardDebit
<1>7. state' \in [Pots -> States]
  BY <1>1 DEF Inv, TypeOK
<1> QED
  BY <1>1, <1>2, <1>3, <1>6, <1>7, RowStep

(* A delete that is not late finds nothing in the row, or a debt.          *)
LEMMA DeleteStep == ASSUME Inv, NEW r \in Requests, Delete(r) PROVE Inv'
<1> DEFINE o == order[r]
<1>1. /\ o.pot \in Pots /\ o.op = "DELETE" /\ Kind[o.pot] # "GOLD"
      /\ pc[r] = "checked" /\ Finish(r) /\ Outdate(r)
      /\ order' = order /\ pot' = pot /\ balance' = balance
  BY OrderTypes DEF Delete, Inv, Offered
<1>2. /\ state' \in [Pots -> States]
      /\ \A p \in Pots \ {o.pot} : state'[p] = state[p]
  BY <1>1 DEF Delete, Inv, TypeOK, States
<1>3. ~stale[r] => pot[o.pot] <= 0
  BY <1>1 DEF Inv, Current, Sufficient
<1>4. Hurt(o.pot)' => Hurt(o.pot) \/ stale[r]
  BY <1>1, <1>3 DEF Hurt, Inv, TypeOK
<1>5. pot' \in [Pots -> Int] /\ balance' \in [Accounts -> Nat]
  BY <1>1 DEF Inv, TypeOK
<1> QED
  BY <1>1, <1>2, <1>4, <1>5, RowStep

LEMMA SetStatusStep == ASSUME Inv, NEW r \in Requests, SetStatus(r) PROVE Inv'
<1> DEFINE o == order[r]
<1>1. /\ o.pot \in Pots /\ Kind[o.pot] = "CARD"
      /\ pc[r] = "checked" /\ Finish(r) /\ Outdate(r)
      /\ order' = order /\ pot' = pot /\ balance' = balance
  BY OrderTypes DEF SetStatus, Inv, Offered
<1>2. /\ state' \in [Pots -> States]
      /\ \A p \in Pots \ {o.pot} : state'[p] = state[p]
      /\ state'[o.pot] # "DELETED"
  BY <1>1 DEF SetStatus, Inv, TypeOK, States
<1>3. Hurt(o.pot)' => Hurt(o.pot)
  BY <1>1, <1>2 DEF Hurt
<1>4. pot' \in [Pots -> Int] /\ balance' \in [Accounts -> Nat]
  BY <1>1 DEF Inv, TypeOK
<1> QED
  BY <1>1, <1>2, <1>3, <1>4, RowStep

LEMMA NextInv == Inv /\ [Next]_vars => Inv'
<1> SUFFICES ASSUME Inv, [Next]_vars PROVE Inv'
  OBVIOUS
<1>1. CASE Next
  <2> PICK r \in Requests : \/ Check(r) \/ Create(r) \/ Load(r) \/ Unload(r) \/ Pay(r)
                            \/ Delete(r) \/ SetStatus(r) \/ Fail(r)
    BY <1>1 DEF Next
  <2> QED
    BY QuietStep, CreateStep, LoadStep, UnloadStep, PayStep, DeleteStep, SetStatusStep
<1>2. CASE UNCHANGED vars
  BY <1>2 DEF vars, Inv, TypeOK, Current, Sufficient, Drawn, CardDebit,
              OnlyStaleReadsHurt, Hurt, Blamed, GoldIsCovered
<1> QED
  BY <1>1, <1>2

LEMMA Invariance == Spec => []Inv
BY InitInv, NextInv, PTL DEF Spec

-----------------------------------------------------------------------------
(* Every reachable state is well typed: the wallets stay natural numbers   *)
(* whatever requests interleave; rows are integers only.                   *)
THEOREM TypeCorrect == Spec => []TypeOK
BY Invariance, PTL DEF Inv

(* withdrawGold looks at the quantity again inside its transaction: the    *)
(* row of an Épargne Gold is never overdrawn.                              *)
THEOREM GoldCovered == Spec => []GoldIsCovered
BY Invariance, PTL DEF Inv

(* A row is overdrawn, or deleted with money in it, only through a request *)
(* whose reading another request had made old.                             *)
THEOREM OnlyStaleHurt == Spec => []OnlyStaleReadsHurt
BY Invariance, PTL DEF Inv

-----------------------------------------------------------------------------
(* Sums over finite sets *)

(* The element a fold over T starts with. *)
Some(T) == CHOOSE x \in T : TRUE

(* g sums f over every subset of S, taking out one element after another   *)
(* in the order MapThenSumSet does.                                        *)
Sums(g, f, S) ==
  g = [T \in SUBSET S |-> IF T = {} THEN 0 ELSE f[Some(T)] + g[T \ {Some(T)}]]

(* MapThenSumSet is such a sum. *)
LEMMA Unfold ==
  ASSUME NEW S, NEW f
  PROVE Total(f, S) = (CHOOSE g : Sums(g, f, S))[S]
BY DEF Total, MapThenSumSet, MapThenFoldSet, Sums, Some

(* A non-empty family of subsets of S has a member that includes no other: *)
(* the induction on finite sets that the library's theorems do not give.   *)
LEMMA LeastSubset ==
  ASSUME NEW S, IsFiniteSet(S), NEW B \in SUBSET SUBSET S, B # {}
  PROVE  \E T \in B : \A U \in B : ~(U \subseteq T /\ U # T)
<1>1. B \subseteq FiniteSubsetsOf(S)
  BY FS_Subset DEF FiniteSubsetsOf
<1>2. \E T \in B : \A U \in B : ~(<<U, T>> \in StrictSubsetOrdering(S))
  BY <1>1, WFMin, FS_StrictSubsetOrderingWellFounded
<1> QED
  BY <1>2 DEF StrictSubsetOrdering

(* g does so over the family D, closed under taking out the chosen element. *)
SumsOn(g, f, D) ==
  /\ g \in [D -> Int]
  /\ \A T \in D : g[T] = IF T = {} THEN 0 ELSE f[Some(T)] + g[T \ {Some(T)}]

(* A non-empty set of numbers has a least one. *)
LEMMA LeastNat ==
  ASSUME NEW B \in SUBSET Nat, B # {}
  PROVE  \E n \in B : \A m \in B : ~(m < n)
<1>1. \E n \in B : \A m \in B : ~(<<m, n>> \in OpToRel(<, Nat))
  BY WFMin, NatLessThanWellFounded
<1> QED
  BY <1>1 DEF OpToRel

(* The subsets of S of at most n elements. *)
Small(n, S) == {T \in SUBSET S : Cardinality(T) <= n}

(* There is such a sum: over the subsets of size n it is made from the one *)
(* over those of size n - 1.                                               *)
LEMMA SumExists ==
  ASSUME NEW S, IsFiniteSet(S), NEW f \in [S -> Int]
  PROVE  \E g : SumsOn(g, f, SUBSET S)
<1> DEFINE Bad == {n \in Nat : ~ \E g : SumsOn(g, f, Small(n, S))}
<1>1. \A T \in SUBSET S : /\ Cardinality(T) \in Nat /\ Cardinality(T) <= Cardinality(S)
                          /\ Cardinality(T) = 0 <=> T = {}
  BY FS_Subset, FS_CardinalityType, FS_EmptySet
<1>2. \A T \in SUBSET S : T # {} => /\ Some(T) \in T
                                    /\ T \ {Some(T)} \in SUBSET S
                                    /\ Cardinality(T \ {Some(T)}) = Cardinality(T) - 1
  BY FS_Subset, FS_RemoveElement DEF Some
<1>3. Bad = {}
  <2> SUFFICES ASSUME Bad # {} PROVE FALSE
    OBVIOUS
  <2>1. PICK n \in Bad : \A m \in Bad : ~(m < n)
    BY LeastNat
  <2>2. CASE n = 0
    <3> DEFINE g == [T \in Small(0, S) |-> 0]
    <3>1. \A T \in Small(0, S) : T = {}
      BY <1>1 DEF Small
    <3>2. SumsOn(g, f, Small(0, S))
      BY <3>1 DEF SumsOn
    <3> QED
      BY <2>1, <2>2, <3>2
  <2>3. CASE n # 0
    <3>1. n - 1 \in Nat /\ n - 1 \notin Bad
      BY <2>1, <2>3
    <3>2. PICK g : SumsOn(g, f, Small(n - 1, S))
      BY <3>1
    <3> DEFINE h == [T \in Small(n, S) |-> IF T = {} THEN 0 ELSE f[Some(T)] + g[T \ {Some(T)}]]
    <3>3. ASSUME NEW T \in Small(n, S), T # {}
          PROVE  T \ {Some(T)} \in Small(n, S) /\ T \ {Some(T)} \in Small(n - 1, S) /\ Some(T) \in S
      BY <1>1, <1>2, <3>1, <3>3 DEF Small
    <3>4. ASSUME NEW T \in Small(n - 1, S) PROVE T \in Small(n, S) /\ h[T] = g[T]
      BY <1>1, <3>1, <3>2, <3>4 DEF Small, SumsOn
    <3>5. h \in [Small(n, S) -> Int]
      BY <3>2, <3>3 DEF SumsOn
    <3>6. SumsOn(h, f, Small(n, S))
      BY <3>3, <3>4, <3>5 DEF SumsOn
    <3> QED
      BY <2>1, <3>6
  <2> QED
    BY <2>2, <2>3
<1>4. Small(Cardinality(S), S) = SUBSET S
  BY <1>1 DEF Small
<1>5. Cardinality(S) \in Nat /\ Cardinality(S) \notin Bad
  BY <1>3, FS_CardinalityType
<1>6. \E g : SumsOn(g, f, Small(Cardinality(S), S))
  BY <1>5
<1> QED
  BY <1>4, <1>6

(* And only one: a smallest subset where two differ does not exist. *)
LEMMA TotalIs ==
  ASSUME NEW S, IsFiniteSet(S), NEW f \in [S -> Int]
  PROVE  \E g : SumsOn(g, f, SUBSET S) /\ Total(f, S) = g[S]
<1> DEFINE g == CHOOSE h : Sums(h, f, S)
<1>1. PICK h : SumsOn(h, f, SUBSET S)
  BY SumExists
<1>2. Sums(h, f, S)
  BY <1>1 DEF Sums, SumsOn
<1>3. Sums(g, f, S)
  BY <1>2
<1>4. ASSUME NEW k, Sums(k, f, S), k # h PROVE FALSE
  <2> DEFINE B == {T \in SUBSET S : k[T] # h[T]}
  <2>1. B # {}
    BY <1>1, <1>4 DEF Sums, SumsOn
  <2>2. B \in SUBSET SUBSET S
    OBVIOUS
  <2>. HIDE DEF B
  <2>3. PICK T \in B : \A U \in B : ~(U \subseteq T /\ U # T)
    BY <2>1, <2>2, LeastSubset
  <2>. USE DEF B
  <2>4. T # {} => Some(T) \in T
    BY DEF Some
  <2>5. T # {} => k[T \ {Some(T)}] = h[T \ {Some(T)}]
    BY <2>3, <2>4
  <2>6. k[T] = h[T]
    BY <1>2, <1>4, <2>3, <2>5 DEF Sums
  <2> QED
    BY <2>3, <2>6
<1>5. g = h
  BY <1>3, <1>4
<1> QED
  BY <1>1, <1>5, Unfold

LEMMA TotalType ==
  ASSUME NEW S, IsFiniteSet(S), NEW f \in [S -> Int]
  PROVE  Total(f, S) \in Int
<1>1. PICK g : SumsOn(g, f, SUBSET S) /\ Total(f, S) = g[S]
  BY TotalIs
<1> QED
  BY <1>1 DEF SumsOn

(* A total moves by what one of its terms moves. *)
LEMMA TotalMoves ==
  ASSUME NEW S, IsFiniteSet(S), NEW f \in [S -> Int], NEW e \in [S -> Int],
         NEW x \in S, NEW d \in Int,
         e[x] = f[x] + d, \A y \in S \ {x} : e[y] = f[y]
  PROVE  Total(e, S) = Total(f, S) + d
<1>1. PICK g : SumsOn(g, f, SUBSET S) /\ Total(f, S) = g[S]
  BY TotalIs
<1>2. PICK h : SumsOn(h, e, SUBSET S) /\ Total(e, S) = h[S]
  BY TotalIs
<1> DEFINE B == {T \in SUBSET S : h[T] # IF x \in T THEN g[T] + d ELSE g[T]}
<1>3. ASSUME B # {} PROVE FALSE
  <2>0. B \in SUBSET SUBSET S
    OBVIOUS
  <2>. HIDE DEF B
  <2>1. PICK T \in B : \A U \in B : ~(U \subseteq T /\ U # T)
    BY <1>3, <2>0, LeastSubset
  <2>. USE DEF B
  <2>2. CASE T = {}
    BY <1>1, <1>2, <2>1, <2>2 DEF SumsOn
  <2>3. CASE T # {}
    <3>1. Some(T) \in T
      BY <2>3 DEF Some
    <3> DEFINE U == T \ {Some(T)}
    <3>2. U \in SUBSET S /\ U \notin B
      BY <2>1, <3>1
    <3>3. h[U] = IF x \in U THEN g[U] + d ELSE g[U]
      BY <3>2
    <3>4. h[T] = e[Some(T)] + h[U] /\ g[T] = f[Some(T)] + g[U] /\ g[U] \in Int /\ f[Some(T)] \in Int
      BY <1>1, <1>2, <2>1, <2>3, <3>1, <3>2 DEF SumsOn
    <3>5. e[Some(T)] = IF Some(T) = x THEN f[x] + d ELSE f[Some(T)]
      BY <2>1, <3>1
    <3>6. h[T] = IF x \in T THEN g[T] + d ELSE g[T]
      BY <3>1, <3>3, <3>4, <3>5
    <3> QED
      BY <2>1, <3>6
  <2> QED
    BY <2>2, <2>3
<1> QED
  BY <1>1, <1>2, <1>3

LEMMA TotalSet ==
  ASSUME NEW S, IsFiniteSet(S), NEW f \in [S -> Int], NEW x \in S, NEW v \in Int
  PROVE  Total([f EXCEPT ![x] = v], S) = Total(f, S) + (v - f[x])
<1> DEFINE e == [f EXCEPT ![x] = v]
<1>1. /\ v - f[x] \in Int /\ e \in [S -> Int] /\ e[x] = f[x] + (v - f[x])
      /\ \A y \in S \ {x} : e[y] = f[y]
  OBVIOUS
<1> HIDE DEF e
<1>2. Total(e, S) = Total(f, S) + (v - f[x])
  BY <1>1, TotalMoves
<1> QED
  BY <1>2 DEF e

(* A total of zeros. *)
LEMMA TotalZero ==
  ASSUME NEW S, IsFiniteSet(S), NEW f \in [S -> Int], \A x \in S : f[x] = 0
  PROVE  Total(f, S) = 0
<1>1. PICK g : SumsOn(g, f, SUBSET S) /\ Total(f, S) = g[S]
  BY TotalIs
<1> DEFINE B == {T \in SUBSET S : g[T] # 0}
<1>2. ASSUME B # {} PROVE FALSE
  <2>0. B \in SUBSET SUBSET S
    OBVIOUS
  <2>. HIDE DEF B
  <2>1. PICK T \in B : \A U \in B : ~(U \subseteq T /\ U # T)
    BY <1>2, <2>0, LeastSubset
  <2>. USE DEF B
  <2>2. T # {} /\ Some(T) \in T
    BY <1>1, <2>1 DEF SumsOn, Some
  <2>3. g[T \ {Some(T)}] = 0
    BY <2>1, <2>2
  <2>4. g[T] = 0
    BY <1>1, <2>1, <2>2, <2>3 DEF SumsOn
  <2> QED
    BY <2>1, <2>4
<1> QED
  BY <1>1, <1>2

-----------------------------------------------------------------------------
(* Conservation *)

LEMMA AccountsAreFinite == IsFiniteSet(Accounts)
<1>1. IsFiniteSet({"holder"} \cup {"shop"})
  BY FS_Singleton, FS_AddElement, Zenon
<1>2. Accounts = {"holder"} \cup {"shop"}
  BY DEF Accounts
<1> QED
  BY <1>1, <1>2

LEMMA FeesType == ASSUME TypeOK PROVE Fees \in [Requests -> Int]
BY OrderTypes DEF Fees

(* What a payment leaves with nobody, and no other request does. *)
Lost(o) == IF o.op = "PAY" THEN OurFee[o.amount] + MerchantFee[o.amount] ELSE 0

(* A request that concludes pays its fees, and only it. *)
LEMMA FeesMove ==
  ASSUME TypeOK, NEW r \in Requests, pc[r] = "checked", Finish(r), order' = order
  PROVE  /\ Lost(order[r]) \in Int /\ Fees[r] = 0
         /\ Fees' = [Fees EXCEPT ![r] = Lost(order[r])]
<1>1. Lost(order[r]) \in Int
  BY OrderTypes DEF Lost
<1>2. pc'[r] = "done" /\ \A s \in Requests \ {r} : pc'[s] = pc[s]
  BY DEF TypeOK, Finish
<1>3. /\ Fees[r] = 0 /\ Fees'[r] = Lost(order[r])
      /\ \A s \in Requests \ {r} : Fees'[s] = Fees[s]
  BY <1>2 DEF Fees, Lost
<1> QED
  BY <1>1, <1>3 DEF Fees

(* What the wallets and all the rows hold, deleted ones too, with the fees *)
(* of card payments.                                                       *)
RowsBalance ==
  Total(balance, Accounts) + Total(pot, Pots) + Total(Fees, Requests)
    = Total(InitialBalance, Accounts) + Total(InitialPot, Pots)

(* What a wallet, a row and the fees gain adds up to nothing.              *)
LEMMA Balanced ==
  ASSUME TypeOK, RowsBalance,
         NEW a \in Accounts, NEW p \in Pots, NEW r \in Requests,
         NEW b \in Int, NEW v \in Int, NEW f \in Int,
         balance' = [balance EXCEPT ![a] = b],
         pot' = [pot EXCEPT ![p] = v],
         Fees' = [Fees EXCEPT ![r] = f],
         (b - balance[a]) + (v - pot[p]) + (f - Fees[r]) = 0
  PROVE  RowsBalance'
<1>1. /\ balance \in [Accounts -> Int] /\ pot \in [Pots -> Int] /\ Fees \in [Requests -> Int]
      /\ balance[a] \in Int /\ pot[p] \in Int /\ Fees[r] \in Int
  BY FeesType DEF TypeOK
<1>2. Total(balance', Accounts) = Total(balance, Accounts) + (b - balance[a])
  BY <1>1, AccountsAreFinite, TotalSet, Zenon
<1>3. Total(pot', Pots) = Total(pot, Pots) + (v - pot[p])
  BY <1>1, FiniteRows, TotalSet, Zenon
<1>4. Total(Fees', Requests) = Total(Fees, Requests) + (f - Fees[r])
  BY <1>1, FiniteRows, TotalSet, Zenon
<1>5. /\ Total(balance, Accounts) \in Int /\ Total(pot, Pots) \in Int
      /\ Total(Fees, Requests) \in Int
  BY <1>1, AccountsAreFinite, FiniteRows, TotalType
<1>6. /\ b - balance[a] \in Int /\ v - pot[p] \in Int /\ f - Fees[r] \in Int
      /\ (b - balance[a]) + (v - pot[p]) + (f - Fees[r]) = 0
  BY <1>1
<1>7. Total(balance', Accounts) + Total(pot', Pots) + Total(Fees', Requests)
        = (Total(balance, Accounts) + (b - balance[a])) + (Total(pot, Pots) + (v - pot[p]))
            + (Total(Fees, Requests) + (f - Fees[r]))
  BY <1>2, <1>3, <1>4, Zenon
<1>8. (Total(balance, Accounts) + (b - balance[a])) + (Total(pot, Pots) + (v - pot[p]))
            + (Total(Fees, Requests) + (f - Fees[r]))
        = Total(balance, Accounts) + Total(pot, Pots) + Total(Fees, Requests)
  BY <1>5, <1>6
<1>9. Total(balance', Accounts) + Total(pot', Pots) + Total(Fees', Requests)
        = Total(InitialBalance, Accounts) + Total(InitialPot, Pots)
  BY <1>7, <1>8, Zenon DEF RowsBalance
<1> QED
  BY <1>9 DEF RowsBalance

LEMMA NextConserves ==
  ASSUME TypeOK, RowsBalance, [Next]_vars
  PROVE  RowsBalance'
<1>1. ASSUME balance' = balance, pot' = pot, Fees' = Fees PROVE RowsBalance'
  BY <1>1 DEF RowsBalance
<1>2. ASSUME NEW r \in Requests, Check(r) \/ Fail(r) PROVE RowsBalance'
  <2>1. \A s \in Requests : pc'[s] = "done" <=> pc[s] = "done"
    BY <1>2 DEF Check, Fail, TypeOK
  <2>2. Fees' = Fees
    BY <1>2, <2>1 DEF Fees, Check, Fail
  <2> QED
    BY <1>1, <1>2, <2>2 DEF Check, Fail
<1>3. ASSUME NEW r \in Requests, Create(r) \/ Delete(r) \/ SetStatus(r)
      PROVE  RowsBalance'
  <2>1. /\ pc[r] = "checked" /\ Finish(r) /\ order' = order
        /\ balance' = balance /\ pot' = pot /\ order[r].op # "PAY"
    BY <1>3 DEF Create, Delete, SetStatus
  <2>2. Fees' = [Fees EXCEPT ![r] = Lost(order[r])] /\ Fees[r] = 0
    BY <2>1, FeesMove
  <2>3. Fees' = Fees
    BY <2>1, <2>2, FeesType DEF Lost
  <2> QED
    BY <1>1, <2>1, <2>3
<1>4. ASSUME NEW r \in Requests, Load(r) \/ Unload(r) \/ Pay(r) PROVE RowsBalance'
  <2> DEFINE o == order[r]
  <2>1. /\ o.pot \in Pots /\ o.amount \in Int
        /\ OurFee[o.amount] \in Int /\ MerchantFee[o.amount] \in Int
    BY OrderTypes
  <2>2. /\ Lost(o) \in Int /\ Fees[r] = 0 /\ Fees' = [Fees EXCEPT ![r] = Lost(o)]
    BY <1>4, FeesMove DEF Load, Unload, Pay
  <2>3. /\ "holder" \in Accounts /\ "shop" \in Accounts
        /\ balance["holder"] \in Int /\ balance["shop"] \in Int /\ pot[o.pot] \in Int
    BY <2>1 DEF Accounts, TypeOK
  <2>4. CASE Load(r)
    <3>1. /\ balance' = [balance EXCEPT !["holder"] = @ - o.amount]
          /\ pot' = [pot EXCEPT ![o.pot] = @ + o.amount]
      BY <2>4 DEF Load
    <3>2. /\ balance["holder"] - o.amount \in Int /\ pot[o.pot] + o.amount \in Int
          /\ ((balance["holder"] - o.amount) - balance["holder"])
               + ((pot[o.pot] + o.amount) - pot[o.pot]) + (Lost(o) - Fees[r]) = 0
      BY <2>1, <2>2, <2>3, <2>4 DEF Load, Lost, CardDebit
    <3> QED
      BY <2>1, <2>2, <2>3, <3>1, <3>2, Balanced, Zenon
  <2>5. CASE Unload(r)
    <3>1. /\ balance' = [balance EXCEPT !["holder"] = @ + o.amount]
          /\ pot' = [pot EXCEPT ![o.pot] = @ - o.amount]
      BY <2>5 DEF Unload
    <3>2. /\ balance["holder"] + o.amount \in Int /\ pot[o.pot] - o.amount \in Int
          /\ ((balance["holder"] + o.amount) - balance["holder"])
               + ((pot[o.pot] - o.amount) - pot[o.pot]) + (Lost(o) - Fees[r]) = 0
      BY <2>1, <2>2, <2>3, <2>5 DEF Unload, Lost, CardDebit
    <3> QED
      BY <2>1, <2>2, <2>3, <3>1, <3>2, Balanced, Zenon
  <2>6. CASE Pay(r)
    <3>1. /\ balance' = [balance EXCEPT !["shop"] = @ + (o.amount - MerchantFee[o.amount])]
          /\ pot' = [pot EXCEPT ![o.pot] = @ - CardDebit(o.amount)]
      BY <2>6 DEF Pay
    <3>2. /\ balance["shop"] + (o.amount - MerchantFee[o.amount]) \in Int /\ pot[o.pot] - CardDebit(o.amount) \in Int
          /\ ((balance["shop"] + (o.amount - MerchantFee[o.amount])) - balance["shop"])
               + ((pot[o.pot] - CardDebit(o.amount)) - pot[o.pot]) + (Lost(o) - Fees[r]) = 0
      BY <2>1, <2>2, <2>3, <2>6 DEF Pay, Lost, CardDebit
    <3> QED
      BY <2>1, <2>2, <2>3, <3>1, <3>2, Balanced, Zenon
  <2> QED
    BY <1>4, <2>4, <2>5, <2>6
<1>5. CASE UNCHANGED vars
  BY <1>1, <1>5 DEF vars, Fees
<1> QED
  BY <1>2, <1>3, <1>4, <1>5 DEF Next

(* With every deleted row empty, what is kept is what all the rows hold.   *)
LEMMA DeletedAreEmpty ==
  ASSUME TypeOK, RowsBalance, OnlyStaleReadsHurt
  PROVE  ValueIsConserved
<1>1. CASE \E p \in Pots : state[p] = "DELETED" /\ pot[p] # 0
  BY <1>1 DEF OnlyStaleReadsHurt, Hurt, ValueIsConserved
<1>2. CASE \A p \in Pots : state[p] = "DELETED" => pot[p] = 0
  <2>1. Kept = pot
    BY <1>2 DEF Kept, TypeOK
  <2> QED
    BY <2>1 DEF RowsBalance, ValueIsConserved
<1> QED
  BY <1>1, <1>2

(* Deposits, withdrawals, sales, card payments and deletions, however many *)
(* overlap: what people can reach makes up what there was, unless a row    *)
(* went with money in it after a request that had read it too early.       *)
THEOREM Conservation == Spec => []ValueIsConserved
<1>1. Init => RowsBalance
  <2> SUFFICES ASSUME Init PROVE RowsBalance
    OBVIOUS
  <2>1. TypeOK
    BY InitInv DEF Inv
  <2>2. \A r \in Requests : Fees[r] = 0
    BY DEF Init, Fees
  <2>3. Total(Fees, Requests) = 0
    BY <2>1, <2>2, FeesType, FiniteRows, TotalZero
  <2>4. balance \in [Accounts -> Int] /\ pot \in [Pots -> Int] 
    BY <2>1 DEF TypeOK
  <2>5. Total(balance, Accounts) \in Int /\ Total(pot, Pots) \in Int
    BY <2>4, AccountsAreFinite, FiniteRows, TotalType
  <2> QED
    BY <2>3, <2>5 DEF Init, RowsBalance
<1>2. Spec => []RowsBalance
  BY <1>1, TypeCorrect, NextConserves, PTL DEF Spec
<1> QED
  BY <1>2, TypeCorrect, OnlyStaleHurt, DeletedAreEmpty, PTL
=============================================================================
