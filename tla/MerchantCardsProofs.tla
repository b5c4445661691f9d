------------------------ MODULE MerchantCardsProofs ------------------------
(***************************************************************************)
(* Merchants and their codes, for any number of requests, cards and        *)
(* batches, in any order.  Requests check, then write: Reading(r) says     *)
(* what a check still knows when nothing was written since, Told(r) what   *)
(* an answer is worth.                                                     *)
(***************************************************************************)
EXTENDS MerchantCards, TLAPS

(* A request that has not written has no merchant and no code.             *)
Waiting(r) == pc[r] # "done" => merchant[r] = "NONE" /\ code[r] = NoCode

(* What the check of r saw is still so, unless it was overlapped.          *)
Reading(r) ==
  pc[r] = "checked" =>
    /\ order[r].op \in {"LINK", "ATTACH"} => code[Of(r)] # NoCode
    /\ Of(r) \notin overlapped =>
         /\ order[r].op = "PRINT" => SameLabel(r) = {}
         /\ order[r].op = "ASSIGN" => holder[Of(r)] = None
         /\ order[r].op = "LINK" => Linkable(Of(r))
         /\ order[r].op = "ATTACH" => Attachable(Of(r))

(* AnswersStand for r: a linked card is active or blocked, so that nobody  *)
(* may link it again.                                                      *)
Told(r) ==
  pc[r] = "done" /\ Of(r) \notin overlapped =>
    /\ order[r].op = "LINK" =>
         /\ code[Of(r)].merchant = answer[r]
         /\ code[Of(r)].status \in {"ACTIVE", "BLOCKED"}
    /\ order[r].op = "ASSIGN" => holder[Of(r)] = order[r].by
    /\ order[r].op = "PRINT" /\ answer[r] = r =>
         \A b \in SameLabel(r) \ {r} : order[b].op = "GENERATE"

(* SuspensionReachesCodes for c. *)
Reached(c) ==
  code[c].status = "ACTIVE" /\ c \notin unblocked =>
    \/ code[c].merchant \in distributed
    \/ code[c].merchant # None /\ merchant[code[c].merchant] = "ACTIVE"

Inv ==
  /\ TypeOK
  /\ \A r \in Requests : Waiting(r) /\ Reading(r) /\ Told(r)
  /\ \A c \in Codes : Reached(c)

-----------------------------------------------------------------------------
(* The columns of one code.                                                *)
LEMMA KnownCode ==
  ASSUME TypeOK, NEW c \in Codes
  PROVE  /\ code[c].status \in CodeStatuses \cup {"NONE"}
         /\ code[c].merchant \in Requests \cup {None}
         /\ code[c] = NoCode <=> code[c].status = "NONE"
         /\ code[c] = [status |-> code[c].status, merchant |-> code[c].merchant]
         /\ code[c].merchant # None => code[c].status # "NONE"
BY DEF TypeOK, NoCode, CodeStatuses

(* What one request asks.                                                  *)
LEMMA KnownOrder ==
  ASSUME TypeOK, NEW r \in Requests
  PROVE  /\ order \in [Requests -> Orders]
         /\ order[r] \in Orders
         /\ order[r].op \in Ops
         /\ order[r].op \in {"LINK", "ATTACH"} => Of(r) \in Codes
         /\ order[r].op = "ASSIGN" => Of(r) \in Requests /\ order[r].by # None
         /\ order[r].op = "ATTACH" => order[r].by \in Requests
BY CardsAssumption DEF TypeOK, Of

(* A batch that was printed stays so, and no other but r's own comes.      *)
LEMMA PrintedLemma ==
  ASSUME TypeOK, NEW r \in Requests, pc[r] # "done", order' = order,
         NEW place \in {"checked", "done", "refused"}, NEW x,
         pc' = [pc EXCEPT ![r] = place], answer' = [answer EXCEPT ![r] = x]
  PROVE  /\ \A b \in Requests \ {r} : Printed(b)' <=> Printed(b)
         /\ Printed(r)' <=> place = "done" /\ order[r].op \in {"PRINT", "GENERATE"} /\ x = r
         /\ ~Printed(r)
BY DEF TypeOK, Printed

LEMMA InitInv == Init => Inv
<1> SUFFICES ASSUME Init PROVE Inv
  OBVIOUS
<1> USE DEF Init
<1>1. TypeOK
  <2>1. \A c \in Codes : code[c] = NoCode /\ code[c].merchant = None
    BY DEF NoCode
  <2>2. \A r \in Requests : ~Printed(r)
    BY DEF Printed
  <2>3. \A c \in Cards : c \in Codes /\ Batch[c] \in Requests
    BY CardsAssumption DEF Codes
  <2>4. /\ pc \in [Requests -> {"idle", "checked", "done", "refused"}]
        /\ answer \in [Requests -> Requests \cup {None}]
        /\ code \in [Codes -> {NoCode} \cup [status : CodeStatuses, merchant : Requests \cup {None}]]
        /\ merchant \in [Requests -> MerchantStatuses \cup {"NONE"}]
        /\ holder \in [Requests -> Holders]
    BY DEF Holders
  <2> QED
    BY <2>1, <2>2, <2>3, <2>4 DEF TypeOK
<1>2. ASSUME NEW r \in Requests PROVE Waiting(r) /\ Reading(r) /\ Told(r)
  BY DEF Waiting, Reading, Told, Codes
<1>3. ASSUME NEW c \in Codes PROVE Reached(c)
  BY DEF Reached, NoCode
<1> QED
  BY <1>1, <1>2, <1>3 DEF Inv

-----------------------------------------------------------------------------
(* Checks                                                                  *)

LEMMA FailStep == ASSUME Inv, NEW r \in Requests, Fail(r) PROVE Inv'
<1> USE DEF Fail, GoTo
<1>1. \A b \in Requests : Printed(b)' <=> Printed(b)
  BY DEF Printed, Inv, TypeOK
<1>2. TypeOK'
  <2>1. pc' \in [Requests -> {"idle", "checked", "done", "refused"}]
    BY DEF Inv, TypeOK
  <2>2. \A c \in Cards : Batch[c] \in Requests
    BY CardsAssumption
  <2> QED
    BY <1>1, <2>1, <2>2 DEF Inv, TypeOK
<1>3. \A s \in Requests : SameLabel(s)' = SameLabel(s)
  BY <1>1 DEF SameLabel, Of
<1>4. ASSUME NEW s \in Requests PROVE (Waiting(s) /\ Reading(s) /\ Told(s))'
  <2>1. /\ Waiting(s) /\ Reading(s) /\ Told(s)
        /\ pc'[s] = pc[s] \/ (pc'[s] = "refused" /\ pc[s] # "done")
        /\ Linkable(Of(s))' = Linkable(Of(s)) /\ Attachable(Of(s))' = Attachable(Of(s))
        /\ Of(s)' = Of(s)
    BY DEF Inv, TypeOK, Linkable, Attachable, Of
  <2> QED
    BY <1>3, <2>1 DEF Waiting, Reading, Told
<1>5. ASSUME NEW c \in Codes PROVE Reached(c)'
  BY DEF Reached, Inv
<1> QED
  BY <1>2, <1>4, <1>5 DEF Inv

LEMMA CheckStep == ASSUME Inv, NEW r \in Requests, Check(r) PROVE Inv'
<1>0. TypeOK /\ pc[r] = "idle"
  BY DEF Inv, Check
<1>1. PICK place \in {"checked", "done", "refused"}, x \in {answer[r]} \cup Existing(r) :
        /\ pc' = [pc EXCEPT ![r] = place]
        /\ answer' = [answer EXCEPT ![r] = x]
        /\ place # "done" => x = answer[r]
        /\ place = "checked" => Admissible(r)
        /\ place = "done" => x \in Existing(r)
  <2>1. CASE Admissible(r) /\ GoTo(r, "checked") /\ UNCHANGED answer
    <3> answer' = [answer EXCEPT ![r] = answer[r]]
      BY <1>0, <2>1 DEF TypeOK
    <3> QED
      BY <2>1 DEF GoTo
  <2>2. CASE /\ \E x \in Existing(r) : answer' = [answer EXCEPT ![r] = x]
             /\ GoTo(r, "done")
    BY <2>2 DEF GoTo
  <2>3. CASE GoTo(r, "refused") /\ UNCHANGED answer
    <3> answer' = [answer EXCEPT ![r] = answer[r]]
      BY <1>0, <2>3 DEF TypeOK
    <3> QED
      BY <2>3 DEF GoTo
  <2> QED
    BY <2>1, <2>2, <2>3 DEF Check
<1>2. UNCHANGED <<order, code, merchant, holder, overlapped, unblocked, distributed>>
  BY DEF Check
<1>3. place = "done" =>
        /\ x \in Requests
        /\ order[r].op = "PRINT" => Printed(x)
        /\ order[r].op = "LINK" => code[Of(r)].status = "ACTIVE" /\ x = code[Of(r)].merchant
        /\ order[r].op \in {"PRINT", "LINK"}
  BY <1>0, <1>1, KnownOrder, KnownCode DEF Existing, SameLabel
<1>4. \A b \in Requests : Printed(b)' <=> Printed(b)
  <2>1. ~Printed(r)
    BY <1>0 DEF Printed
  <2>2. ~Printed(r)'
    <3>1. place = "done" /\ order[r].op = "PRINT" => x # r
      BY <1>3, <2>1
    <3> QED
      BY <1>0, <1>1, <1>2, <1>3, <3>1, PrintedLemma
  <2>3. \A b \in Requests \ {r} : Printed(b)' <=> Printed(b)
    BY <1>0, <1>1, <1>2, PrintedLemma
  <2> QED
    BY <2>1, <2>2, <2>3
<1>5. TypeOK'
  <2>1. pc' \in [Requests -> {"idle", "checked", "done", "refused"}]
    BY <1>0, <1>1 DEF TypeOK
  <2>2. answer' \in [Requests -> Requests \cup {None}]
    <3>1. x \in Requests \cup {None}
      BY <1>0, <1>1, <1>3 DEF TypeOK
    <3> QED
      BY <1>0, <1>1, <3>1 DEF TypeOK
  <2>3. \A c \in Cards : Batch[c] \in Requests
    BY CardsAssumption
  <2> QED
    BY <1>0, <1>2, <1>4, <2>1, <2>2, <2>3 DEF TypeOK
<1>6. \A s \in Requests : SameLabel(s)' = SameLabel(s) /\ Of(s)' = Of(s)
  BY <1>2, <1>4 DEF SameLabel, Of
<1>7. ASSUME NEW s \in Requests PROVE (Waiting(s) /\ Reading(s) /\ Told(s))'
  <2>1. /\ Waiting(s) /\ Reading(s) /\ Told(s)
        /\ Linkable(Of(s))' = Linkable(Of(s)) /\ Attachable(Of(s))' = Attachable(Of(s))
    BY <1>2, <1>6 DEF Inv, Linkable, Attachable
  <2>2. CASE s # r
    <3> pc'[s] = pc[s] /\ answer'[s] = answer[s]
      BY <1>0, <1>1, <2>2 DEF TypeOK
    <3> QED
      BY <1>2, <1>6, <2>1 DEF Waiting, Reading, Told
  <2>3. CASE s = r
    <3>1. pc'[r] = place /\ answer'[r] = x
      BY <1>0, <1>1 DEF TypeOK
    <3>2. Waiting(r)'
      BY <1>0, <1>2, <2>1, <2>3 DEF Waiting
    <3>3. Reading(r)'
      <4> SUFFICES ASSUME place = "checked" PROVE Reading(r)'
        BY <3>1 DEF Reading
      <4>1. Admissible(r)
        BY <1>1
      <4>2. order[r].op \in {"LINK", "ATTACH"} => code[Of(r)] # NoCode
        BY <1>0, <4>1, KnownOrder DEF Admissible, Linkable, Attachable, NoCode
      <4> QED
        BY <1>2, <1>6, <2>1, <2>3, <4>1, <4>2 DEF Reading, Admissible
    <3>4. Told(r)'
      <4>1. order[r].op = "PRINT" /\ place = "done" => x # r
        BY <1>0, <1>3 DEF Printed
      <4> QED
        BY <1>2, <1>3, <1>6, <3>1, <4>1 DEF Told
    <3> QED
      BY <2>3, <3>2, <3>3, <3>4
  <2> QED
    BY <2>2, <2>3
<1>8. ASSUME NEW c \in Codes PROVE Reached(c)'
  BY <1>2 DEF Reached, Inv
<1> QED
  BY <1>5, <1>7, <1>8 DEF Inv

-----------------------------------------------------------------------------
(* Transactions                                                            *)

(* The bookkeeping of every transaction: the other requests that have read *)
(* the same thing are overlapped.                                          *)
LEMMA CommitLemma ==
  ASSUME TypeOK, NEW r \in Requests, NEW op, Commits(r, op)
  PROVE  /\ pc[r] = "checked" /\ order[r].op = op
         /\ pc' \in [Requests -> {"idle", "checked", "done", "refused"}]
         /\ pc'[r] = "done" /\ answer'[r] = r
         /\ answer' \in [Requests -> Requests \cup {None}]
         /\ \A s \in Requests \ {r} : pc'[s] = pc[s] /\ answer'[s] = answer[s]
         /\ order' = order /\ unblocked' = unblocked /\ distributed' = distributed
         /\ \A s \in Requests : Of(s)' = Of(s)
         /\ overlapped \subseteq overlapped'
         /\ \A s \in Requests \ {r} : pc[s] = "checked" /\ Of(s) = Of(r) => Of(s) \in overlapped'
<1>1. /\ pc[r] = "checked" /\ order[r].op = op
      /\ pc' = [pc EXCEPT ![r] = "done"]
      /\ answer' = [answer EXCEPT ![r] = r]
      /\ order' = order /\ unblocked' = unblocked /\ distributed' = distributed
      /\ overlapped' = overlapped \cup {Of(s) : s \in Readers({Of(r)}) \ {r}}
  BY DEF Commits, GoTo, Overlap
<1>2. \A s \in Requests \ {r} : pc[s] = "checked" /\ Of(s) = Of(r) => Of(s) \in overlapped'
  BY <1>1 DEF Readers
<1> QED
  BY <1>1, <1>2 DEF TypeOK, Of

(* Nothing is printed by a transaction that does not print.                *)
LEMMA NotPrinting ==
  ASSUME TypeOK, NEW r \in Requests, NEW op, Commits(r, op), op \notin {"PRINT", "GENERATE"}
  PROVE  /\ \A b \in Requests : Printed(b)' <=> Printed(b)
         /\ \A s \in Requests : SameLabel(s)' = SameLabel(s)
<1>1. \A b \in Requests : Printed(b)' <=> Printed(b)
  BY CommitLemma DEF Printed
<1>2. \A s \in Requests : Of(s)' = Of(s)
  BY CommitLemma
<1> QED
  BY <1>1, <1>2 DEF SameLabel

LEMMA PrintStep == ASSUME Inv, NEW r \in Requests, CreateQrBatch(r) PROVE Inv'
<1>0. TypeOK
  BY DEF Inv
<1>1. PICK op \in {"PRINT", "GENERATE"} : Commits(r, op)
  BY DEF CreateQrBatch
<1> DEFINE fresh == {c \in Cards : Batch[c] = r}
           blank == [status |-> "UNASSIGNED", merchant |-> None]
<1>2. /\ code' = [c \in Codes |-> IF c \in fresh THEN blank ELSE code[c]]
      /\ merchant' = merchant /\ holder' = holder
  <2> code' = [c \in Codes |-> IF c \in Cards /\ Batch[c] = r THEN blank ELSE code[c]]
    BY DEF CreateQrBatch
  <2> QED
    BY DEF CreateQrBatch
<1>3. /\ ~Printed(r) /\ Printed(r)'
      /\ \A b \in Requests \ {r} : Printed(b)' <=> Printed(b)
  BY <1>0, <1>1, CommitLemma DEF Printed
<1>4. /\ \A c \in fresh : c \in Codes /\ code[c] = NoCode
      /\ \A s \in Requests : s \notin fresh
      /\ \A c \in Cards : Batch[c] \in Requests /\ c \in Codes
  BY <1>0, <1>3, CardsAssumption DEF TypeOK, Codes
<1>5. /\ blank # NoCode /\ blank.status = "UNASSIGNED" /\ blank.merchant = None
      /\ NoCode.status = "NONE" /\ NoCode.merchant = None
      /\ blank \in [status : CodeStatuses, merchant : Requests \cup {None}]
  BY DEF NoCode, CodeStatuses
<1> HIDE DEF fresh, blank
<1>6. /\ code' \in [Codes -> {NoCode} \cup [status : CodeStatuses, merchant : Requests \cup {None}]]
      /\ \A c \in fresh : code'[c] = blank
      /\ \A c \in Codes \ fresh : code'[c] = code[c]
      /\ \A c \in Codes : code[c] # NoCode => code'[c] = code[c]
      /\ \A s \in Requests : s \in Codes => code'[s] = code[s]
  BY <1>0, <1>2, <1>4, <1>5 DEF TypeOK
<1>7. TypeOK'
  <2>1. \A c \in Cards : code'[c] # NoCode <=> Printed(Batch[c])'
    <3> SUFFICES ASSUME NEW c \in Cards PROVE code'[c] # NoCode <=> Printed(Batch[c])'
      OBVIOUS
    <3>1. CASE Batch[c] = r
      BY <1>3, <1>5, <1>6, <3>1 DEF fresh
    <3>2. CASE Batch[c] # r
      <4> c \notin fresh
        BY <3>2 DEF fresh
      <4> QED
        BY <1>0, <1>3, <1>4, <1>6, <3>2 DEF TypeOK
    <3> QED
      BY <3>1, <3>2
  <2>2. \A c \in Codes : code'[c].merchant # None => merchant'[code'[c].merchant] # "NONE"
    BY <1>0, <1>2, <1>5, <1>6 DEF TypeOK
  <2> QED
    BY <1>0, <1>1, <1>2, <1>6, <2>1, <2>2, CommitLemma DEF TypeOK
<1>8. ASSUME NEW s \in Requests PROVE (Waiting(s) /\ Reading(s) /\ Told(s))'
  <2>0. /\ Waiting(s) /\ Reading(s) /\ Told(s)
        /\ s \in Codes
        /\ pc[r] = "checked" /\ order[r].op = op /\ pc'[r] = "done"
        /\ s # r => pc'[s] = pc[s] /\ answer'[s] = answer[s]
        /\ order' = order /\ Of(s)' = Of(s) /\ overlapped \subseteq overlapped'
        /\ s # r /\ pc[s] = "checked" /\ Of(s) = Of(r) => Of(s) \in overlapped'
    BY <1>0, <1>1, CommitLemma DEF Inv, Codes
  <2>1. Waiting(s)'
    BY <1>2, <1>6, <2>0 DEF Waiting
  <2>2. order[s].op \in {"LINK", "ATTACH"} => Of(s) \in Codes
    BY <1>0, KnownOrder
  <2>3. \A b \in SameLabel(s)' : b \in SameLabel(s) \/ (b = r /\ Of(s) = Of(r))
    <3>1. \A b \in Requests : Of(b)' = Of(b)
      BY <2>0 DEF Of
    <3> QED
      BY <1>3, <3>1 DEF SameLabel
  <2>4. Reading(s)'
    <3> SUFFICES ASSUME s # r, pc[s] = "checked" PROVE Reading(s)'
      BY <2>0 DEF Reading
    <3>1. /\ order[s].op \in {"LINK", "ATTACH"} => code'[Of(s)] # NoCode
          /\ order[s].op = "LINK" /\ Linkable(Of(s)) => Linkable(Of(s))'
          /\ order[s].op = "ATTACH" /\ Attachable(Of(s)) => Attachable(Of(s))'
      BY <1>5, <1>6, <2>0, <2>2 DEF Reading, Linkable, Attachable
    <3>2. Of(s) \notin overlapped' /\ order[s].op = "PRINT" => SameLabel(s)' = {}
      BY <2>0, <2>3 DEF Reading
    <3> QED
      BY <1>2, <2>0, <3>1, <3>2 DEF Reading
  <2>5. Told(s)'
    <3> SUFFICES ASSUME pc'[s] = "done", Of(s) \notin overlapped'
                 PROVE  /\ order[s].op = "LINK" =>
                             /\ code'[Of(s)].merchant = answer'[s]
                             /\ code'[Of(s)].status \in {"ACTIVE", "BLOCKED"}
                        /\ order[s].op = "ASSIGN" => holder'[Of(s)] = order[s].by
                        /\ order[s].op = "PRINT" /\ answer'[s] = s =>
                             \A b \in SameLabel(s)' \ {s} : order[b].op = "GENERATE"
      BY <2>0 DEF Told
    <3>1. CASE s = r
      <4>1. order[s].op = "PRINT" => SameLabel(s) = {}
        BY <2>0, <3>1 DEF Reading
      <4> QED
        BY <2>0, <2>3, <3>1, <4>1
    <3>2. CASE s # r
      <4>1. order[s].op = "LINK" => code'[Of(s)] = code[Of(s)]
        BY <1>5, <1>6, <2>0, <2>2, <3>2 DEF Told
      <4>2. ASSUME order[s].op = "PRINT", answer[s] = s
            PROVE  \A b \in SameLabel(s)' \ {s} : order[b].op = "GENERATE"
        <5>1. Printed(s)
          BY <2>0, <3>2, <4>2 DEF Printed
        <5>2. order[r].op = "PRINT" /\ Of(s) = Of(r) => Of(r) \in overlapped
          <6> s \in SameLabel(r) <=> Of(s) = Of(r)
            BY <5>1 DEF SameLabel
          <6> Reading(r)
            BY DEF Inv
          <6> QED
            BY <2>0 DEF Reading
        <5>3. \A b \in SameLabel(s) \ {s} : order[b].op = "GENERATE"
          BY <2>0, <3>2, <4>2 DEF Told
        <5> QED
          BY <2>0, <2>3, <5>2, <5>3
      <4> QED
        BY <1>2, <2>0, <3>2, <4>1, <4>2 DEF Told
    <3> QED
      BY <3>1, <3>2
  <2> QED
    BY <2>1, <2>4, <2>5
<1>9. ASSUME NEW c \in Codes PROVE Reached(c)'
  <2>1. code'[c].status = "ACTIVE" => code'[c] = code[c]
    BY <1>5, <1>6
  <2> QED
    BY <1>0, <1>1, <1>2, <2>1, CommitLemma DEF Reached, Inv
<1> QED
  BY <1>7, <1>8, <1>9 DEF Inv

LEMMA AssignStep == ASSUME Inv, NEW r \in Requests, AssignQrBatch(r) PROVE Inv'
<1>0. TypeOK /\ Commits(r, "ASSIGN")
  BY DEF Inv, AssignQrBatch
<1> DEFINE handed == {c \in Cards : Batch[c] = Of(r) /\ code[c].status = "UNASSIGNED"}
<1>1. /\ code' = [c \in Codes |-> IF c \in handed THEN [code[c] EXCEPT !.status = "ASSIGNED"] ELSE code[c]]
      /\ holder' = [holder EXCEPT ![Of(r)] = order[r].by]
      /\ merchant' = merchant
  BY DEF AssignQrBatch
<1>2. /\ Of(r) \in Requests /\ order[r].by # None /\ order[r].by \in Holders
      /\ \A b \in Requests : Printed(b)' <=> Printed(b)
      /\ \A s \in Requests : SameLabel(s)' = SameLabel(s) /\ s \in Codes /\ s \notin handed
      /\ \A c \in handed : c \in Codes /\ code[c].status = "UNASSIGNED"
  BY <1>0, KnownOrder, CommitLemma, NotPrinting, CardsAssumption DEF Holders, Codes
<1> HIDE DEF handed
<1>3. /\ code' \in [Codes -> {NoCode} \cup [status : CodeStatuses, merchant : Requests \cup {None}]]
      /\ \A c \in Codes : code'[c].merchant = code[c].merchant
      /\ \A c \in handed : code'[c].status = "ASSIGNED" /\ code'[c] # NoCode
      /\ \A c \in Codes \ handed : code'[c] = code[c]
      /\ \A c \in Codes : code'[c] # NoCode <=> code[c] # NoCode
  <2>1. ASSUME NEW c \in handed
        PROVE  /\ code'[c] = [status |-> "ASSIGNED", merchant |-> code[c].merchant]
               /\ code'[c].status = "ASSIGNED" /\ code'[c].merchant = code[c].merchant
               /\ code'[c] \in [status : CodeStatuses, merchant : Requests \cup {None}]
               /\ code[c] # NoCode /\ code'[c] # NoCode
    BY <1>0, <1>1, <1>2, KnownCode DEF NoCode, CodeStatuses
  <2>2. ASSUME NEW c \in Codes \ handed PROVE code'[c] = code[c]
    BY <1>1
  <2>3. ASSUME NEW c \in Codes
        PROVE  code'[c] \in {NoCode} \cup [status : CodeStatuses, merchant : Requests \cup {None}]
    <3>1. CASE c \in handed
      BY <2>1, <3>1
    <3>2. CASE c \notin handed
      BY <1>0, <2>2, <3>2 DEF TypeOK
    <3> QED
      BY <3>1, <3>2
  <2>4. code' \in [Codes -> {NoCode} \cup [status : CodeStatuses, merchant : Requests \cup {None}]]
    BY <1>1, <2>3
  <2>5. ASSUME NEW c \in Codes
        PROVE  code'[c].merchant = code[c].merchant /\ (code'[c] # NoCode <=> code[c] # NoCode)
    <3>1. CASE c \in handed
      BY <2>1, <3>1
    <3>2. CASE c \notin handed
      BY <2>2, <3>2
    <3> QED
      BY <3>1, <3>2
  <2> QED
    BY <2>1, <2>2, <2>4, <2>5
<1>4. TypeOK'
  <2>1. holder' \in [Requests -> Holders]
    BY <1>0, <1>1, <1>2 DEF TypeOK
  <2>2. \A c \in Cards : c \in Codes /\ Batch[c] \in Requests
    BY CardsAssumption DEF Codes
  <2>3. \A c \in Cards : code'[c] # NoCode <=> Printed(Batch[c])'
    BY <1>0, <1>2, <1>3, <2>2 DEF TypeOK
  <2> QED
    BY <1>0, <1>1, <1>3, <2>1, <2>3, CommitLemma DEF TypeOK
<1>5. ASSUME NEW s \in Requests PROVE (Waiting(s) /\ Reading(s) /\ Told(s))'
  <2>0. /\ Waiting(s) /\ Reading(s) /\ Told(s) /\ Reading(r)
        /\ pc[r] = "checked" /\ order[r].op = "ASSIGN" /\ pc'[r] = "done"
        /\ s # r => pc'[s] = pc[s] /\ answer'[s] = answer[s]
        /\ order' = order /\ Of(s)' = Of(s) /\ overlapped \subseteq overlapped'
        /\ s # r /\ pc[s] = "checked" /\ Of(s) = Of(r) => Of(s) \in overlapped'
        /\ order[s].op \in {"LINK", "ATTACH"} => Of(s) \in Codes
        /\ order[s].op = "ASSIGN" => Of(s) \in Requests /\ order[s].by # None
    BY <1>0, CommitLemma, KnownOrder DEF Inv
  <2>1. Waiting(s)'
    BY <1>1, <1>2, <1>3, <2>0 DEF Waiting
  <2>2. \A b \in Requests : holder'[b] = IF b = Of(r) THEN order[r].by ELSE holder[b]
    BY <1>0, <1>1, <1>2 DEF TypeOK
  <2>3. Reading(s)'
    <3> SUFFICES ASSUME s # r, pc[s] = "checked" PROVE Reading(s)'
      BY <2>0 DEF Reading
    <3>1. order[s].op = "LINK" /\ Linkable(Of(s)) => Linkable(Of(s))'
      <4> SUFFICES ASSUME order[s].op = "LINK", Linkable(Of(s))
                   PROVE  code'[Of(s)].status \in {"UNASSIGNED", "ASSIGNED"}
        BY <2>0 DEF Linkable
      <4>1. CASE Of(s) \in handed
        BY <1>3, <4>1
      <4>2. CASE Of(s) \notin handed
        BY <1>3, <2>0, <4>2 DEF Linkable
      <4> QED
        BY <4>1, <4>2
    <3>2. order[s].op = "ATTACH" /\ Attachable(Of(s)) => Attachable(Of(s))'
      <4> SUFFICES ASSUME order[s].op = "ATTACH", Attachable(Of(s))
                   PROVE  code'[Of(s)].status = "ASSIGNED"
        BY <2>0 DEF Attachable
      <4> Of(s) \notin handed
        BY <1>2 DEF Attachable
      <4> QED
        BY <1>3, <2>0 DEF Attachable
    <3>3. order[s].op \in {"LINK", "ATTACH"} => code'[Of(s)] # NoCode
      BY <1>3, <2>0 DEF Reading
    <3>4. order[s].op = "ASSIGN" /\ Of(s) \notin overlapped' => holder'[Of(s)] = None
      BY <2>0, <2>2 DEF Reading
    <3> QED
      BY <1>2, <2>0, <3>1, <3>2, <3>3, <3>4 DEF Reading
  <2>4. Told(s)'
    <3>1. order[s].op = "LINK" /\ pc[s] = "done" /\ Of(s) \notin overlapped' =>
            code'[Of(s)] = code[Of(s)]
      BY <1>2, <1>3, <2>0 DEF Told
    <3>2. order[s].op = "ASSIGN" /\ pc'[s] = "done" /\ Of(s) \notin overlapped' =>
            holder'[Of(s)] = order[s].by
      BY <2>0, <2>2 DEF Told, Reading
    <3> QED
      BY <1>2, <2>0, <3>1, <3>2 DEF Told
  <2> QED
    BY <2>1, <2>3, <2>4
<1>6. ASSUME NEW c \in Codes PROVE Reached(c)'
  <2>1. code'[c].status = "ACTIVE" => code'[c] = code[c]
    BY <1>3
  <2> QED
    BY <1>0, <1>1, <2>1, CommitLemma DEF Reached, Inv
<1> QED
  BY <1>4, <1>5, <1>6 DEF Inv

(* A code is linked to a merchant, new (LINK) or not (ATTACH).             *)
LEMMA LinkLemma ==
  ASSUME Inv, NEW r \in Requests, NEW op \in {"LINK", "ATTACH"}, Commits(r, op),
         NEW status \in {"ACTIVE", "ASSIGNED"}, NEW m \in Requests,
         status = "ACTIVE" <=> op = "LINK", op = "LINK" => m = r,
         code' = [code EXCEPT ![Of(r)] = [status |-> status, merchant |-> m]],
         merchant' \in [Requests -> MerchantStatuses \cup {"NONE"}],
         merchant'[m] # "NONE", op = "LINK" => merchant'[m] = "ACTIVE",
         \A s \in Requests \ {r} : merchant'[s] = merchant[s],
         merchant'[r] = "NONE" => merchant[r] = "NONE",
         holder' = holder
  PROVE  Inv'
<1>0. TypeOK
  BY DEF Inv
<1>1. /\ Of(r) \in Codes /\ code[Of(r)] # NoCode
      /\ \A b \in Requests : Printed(b)' <=> Printed(b)
      /\ \A s \in Requests : SameLabel(s)' = SameLabel(s) /\ s \in Codes
      /\ pc[r] = "checked" /\ order[r].op = op /\ pc'[r] = "done" /\ answer'[r] = r
      /\ order' = order /\ unblocked' = unblocked /\ distributed' = distributed
  BY <1>0, KnownOrder, CommitLemma, NotPrinting DEF Codes, Inv, Reading
<1>2. /\ code' \in [Codes -> {NoCode} \cup [status : CodeStatuses, merchant : Requests \cup {None}]]
      /\ code'[Of(r)].status = status /\ code'[Of(r)].merchant = m /\ code'[Of(r)] # NoCode
      /\ \A c \in Codes : c # Of(r) => code'[c] = code[c]
      /\ \A c \in Codes : code'[c] # NoCode <=> code[c] # NoCode
  BY <1>0, <1>1 DEF TypeOK, NoCode, CodeStatuses
<1>3. TypeOK'
  <2>1. \A c \in Cards : c \in Codes /\ Batch[c] \in Requests
    BY CardsAssumption DEF Codes
  <2>2. \A c \in Cards : code'[c] # NoCode <=> Printed(Batch[c])'
    BY <1>0, <1>1, <1>2, <2>1 DEF TypeOK
  <2>3. \A c \in Codes : code'[c].merchant # None => merchant'[code'[c].merchant] # "NONE"
    <3> SUFFICES ASSUME NEW c \in Codes, code'[c].merchant # None
                 PROVE  merchant'[code'[c].merchant] # "NONE"
      OBVIOUS
    <3>1. CASE c = Of(r)
      BY <1>2, <3>1
    <3>2. CASE c # Of(r)
      <4> code[c].merchant \in Requests /\ merchant[code[c].merchant] # "NONE"
        BY <1>0, <1>2, <3>2, KnownCode DEF TypeOK
      <4> QED
        BY <1>2, <3>2
    <3> QED
      BY <3>1, <3>2
  <2> QED
    BY <1>0, <1>2, <2>2, <2>3, CommitLemma DEF TypeOK
<1>4. ASSUME NEW s \in Requests PROVE (Waiting(s) /\ Reading(s) /\ Told(s))'
  <2>0. /\ Waiting(s) /\ Reading(s) /\ Told(s) /\ Reading(r)
        /\ s # r => pc'[s] = pc[s] /\ answer'[s] = answer[s]
        /\ Of(s)' = Of(s) /\ overlapped \subseteq overlapped'
        /\ s # r /\ pc[s] = "checked" /\ Of(s) = Of(r) => Of(s) \in overlapped'
        /\ order[s].op \in {"LINK", "ATTACH"} => Of(s) \in Codes
    BY <1>0, CommitLemma, KnownOrder DEF Inv
  <2>1. Waiting(s)'
    BY <1>1, <1>2, <2>0 DEF Waiting
  <2>2. Reading(s)'
    BY <1>1, <1>2, <2>0 DEF Reading, Linkable, Attachable
  <2>3. Told(s)'
    <3> SUFFICES ASSUME pc'[s] = "done", Of(s) \notin overlapped', order[s].op = "LINK"
                 PROVE  /\ code'[Of(s)].merchant = answer'[s]
                        /\ code'[Of(s)].status \in {"ACTIVE", "BLOCKED"}
      BY <1>1, <2>0 DEF Told
    <3>1. CASE s = r
      BY <1>1, <1>2, <3>1
    <3>2. CASE s # r
      <4> Of(s) # Of(r)
        BY <1>1, <2>0, <3>2 DEF Told, Reading, Linkable, Attachable
      <4> QED
        BY <1>2, <2>0, <3>2 DEF Told
    <3> QED
      BY <3>1, <3>2
  <2> QED
    BY <2>1, <2>2, <2>3
<1>5. ASSUME NEW c \in Codes PROVE Reached(c)'
  <2> SUFFICES ASSUME code'[c].status = "ACTIVE", c \notin unblocked
               PROVE  \/ code'[c].merchant \in distributed
                      \/ code'[c].merchant # None /\ merchant'[code'[c].merchant] = "ACTIVE"
    BY <1>1 DEF Reached
  <2>1. CASE c = Of(r)
    BY <1>2, <2>1, CardsAssumption
  <2>2. CASE c # Of(r)
    <3>1. /\ code'[c] = code[c]
          /\ \/ code[c].merchant \in distributed
             \/ code[c].merchant # None /\ merchant[code[c].merchant] = "ACTIVE"
      BY <1>2, <2>2 DEF Inv, Reached
    <3>2. code[c].merchant # None => code[c].merchant \in Requests \ {r}
      <4>1. merchant[r] = "NONE"
        BY <1>1 DEF Inv, Waiting
      <4>2. code[c].merchant # None => merchant[code[c].merchant] # "NONE"
        BY <1>0 DEF TypeOK
      <4> QED
        BY <1>0, <4>1, <4>2, KnownCode
    <3> QED
      BY <3>1, <3>2
  <2> QED
    BY <2>1, <2>2
<1> QED
  BY <1>3, <1>4, <1>5 DEF Inv

LEMMA LinkStep == ASSUME Inv, NEW r \in Requests, LinkQrToNewMerchant(r) PROVE Inv'
<1>1. /\ Commits(r, "LINK")
      /\ merchant' = [merchant EXCEPT ![r] = "ACTIVE"]
      /\ code' = [code EXCEPT ![Of(r)] = [status |-> "ACTIVE", merchant |-> r]]
      /\ holder' = holder
      /\ merchant \in [Requests -> MerchantStatuses \cup {"NONE"}]
  BY DEF LinkQrToNewMerchant, Inv, TypeOK
<1>2. /\ merchant' \in [Requests -> MerchantStatuses \cup {"NONE"}]
      /\ merchant'[r] = "ACTIVE"
      /\ \A s \in Requests \ {r} : merchant'[s] = merchant[s]
  BY <1>1 DEF MerchantStatuses
<1> QED
  BY <1>1, <1>2, LinkLemma

LEMMA AttachStep == ASSUME Inv, NEW r \in Requests, LinkQrToMerchant(r) PROVE Inv'
<1>1. /\ Commits(r, "ATTACH") /\ merchant[order[r].by] # "NONE"
      /\ code' = [code EXCEPT ![Of(r)] = [status |-> "ASSIGNED", merchant |-> order[r].by]]
      /\ merchant' = merchant /\ holder' = holder
      /\ TypeOK
  BY DEF LinkQrToMerchant, Inv
<1>2. order[r].by \in Requests
  BY <1>1, CommitLemma, KnownOrder
<1>3. merchant \in [Requests -> MerchantStatuses \cup {"NONE"}]
  BY <1>1 DEF TypeOK
<1> QED
  BY <1>1, <1>2, <1>3, LinkLemma

LEMMA CreateStep == ASSUME Inv, NEW r \in Requests, Create(r) PROVE Inv'
<1>0. TypeOK
  BY DEF Inv
<1>1. PICK op \in {"REGISTER", "RETAILER"}, status \in MerchantStatuses :
        Commits(r, op) /\ merchant' = [merchant EXCEPT ![r] = status]
  BY DEF Create, MerchantStatuses
<1>2. /\ r \in Codes
      /\ code' = [code EXCEPT ![r] = [status |-> "UNASSIGNED", merchant |-> r]]
      /\ holder' = holder
  BY DEF Create, Codes
<1>3. /\ \A b \in Requests : Printed(b)' <=> Printed(b)
      /\ \A s \in Requests : SameLabel(s)' = SameLabel(s) /\ s \in Codes
      /\ pc[r] = "checked" /\ order[r].op = op /\ pc'[r] = "done"
      /\ order' = order /\ unblocked' = unblocked /\ distributed' = distributed
      /\ merchant[r] = "NONE" /\ code[r] = NoCode
  <2>1. pc[r] = "checked" /\ Waiting(r)
    BY <1>0, <1>1, CommitLemma DEF Inv
  <2> QED
    BY <1>0, <1>1, <2>1, CommitLemma, NotPrinting DEF Waiting, Codes
<1>4. /\ code' \in [Codes -> {NoCode} \cup [status : CodeStatuses, merchant : Requests \cup {None}]]
      /\ code'[r].status = "UNASSIGNED" /\ code'[r].merchant = r /\ code'[r] # NoCode
      /\ \A c \in Codes : c # r => code'[c] = code[c]
      /\ \A c \in Codes : code[c] # NoCode => code'[c] = code[c]
      /\ merchant' \in [Requests -> MerchantStatuses \cup {"NONE"}]
      /\ merchant'[r] # "NONE"
      /\ \A s \in Requests \ {r} : merchant'[s] = merchant[s]
  BY <1>0, <1>1, <1>2, <1>3 DEF TypeOK, NoCode, CodeStatuses, MerchantStatuses
<1>5. \A c \in Codes : code[c].merchant # r
  <2> SUFFICES ASSUME NEW c \in Codes, code[c].merchant = r PROVE FALSE
    OBVIOUS
  <2> QED
    BY <1>0, <1>3, CardsAssumption DEF TypeOK
<1>6. TypeOK'
  <2>1. \A c \in Cards : c \in Codes /\ Batch[c] \in Requests /\ c # r
    BY CardsAssumption DEF Codes
  <2>2. \A c \in Cards : code'[c] # NoCode <=> Printed(Batch[c])'
    BY <1>0, <1>3, <1>4, <2>1 DEF TypeOK
  <2>3. \A c \in Codes : code'[c].merchant # None => merchant'[code'[c].merchant] # "NONE"
    <3> SUFFICES ASSUME NEW c \in Codes, c # r, code[c].merchant # None
                 PROVE  merchant'[code[c].merchant] # "NONE"
      BY <1>4
    <3> code[c].merchant \in Requests /\ merchant[code[c].merchant] # "NONE"
      BY <1>0, KnownCode DEF TypeOK
    <3> QED
      BY <1>4, <1>5
  <2> QED
    BY <1>0, <1>1, <1>2, <1>4, <2>2, <2>3, CommitLemma DEF TypeOK
<1>7. ASSUME NEW s \in Requests PROVE (Waiting(s) /\ Reading(s) /\ Told(s))'
  <2>0. /\ Waiting(s) /\ Reading(s) /\ Told(s)
        /\ s # r => pc'[s] = pc[s] /\ answer'[s] = answer[s]
        /\ Of(s)' = Of(s) /\ overlapped \subseteq overlapped'
        /\ order[s].op \in {"LINK", "ATTACH"} => Of(s) \in Codes
    BY <1>0, <1>1, CommitLemma, KnownOrder DEF Inv
  <2>1. Waiting(s)'
    BY <1>3, <1>4, <2>0 DEF Waiting
  <2>2. Reading(s)'
    BY <1>2, <1>3, <1>4, <2>0 DEF Reading, Linkable, Attachable
  <2>3. Told(s)'
    <3>1. order[s].op = "LINK" /\ pc[s] = "done" /\ Of(s) \notin overlapped' =>
            code'[Of(s)] = code[Of(s)]
      BY <1>3, <1>4, <2>0 DEF Told, NoCode
    <3> QED
      BY <1>2, <1>3, <2>0, <3>1 DEF Told
  <2> QED
    BY <2>1, <2>2, <2>3
<1>8. ASSUME NEW c \in Codes PROVE Reached(c)'
  <2>1. code'[c].status = "ACTIVE" => c # r /\ code'[c] = code[c]
    BY <1>4
  <2>2. code[c].merchant # None => merchant'[code[c].merchant] = merchant[code[c].merchant]
    BY <1>0, <1>4, <1>5, KnownCode
  <2>3. Reached(c)
    BY DEF Inv
  <2> QED
    BY <1>3, <2>1, <2>2, <2>3 DEF Reached
<1> QED
  BY <1>6, <1>7, <1>8 DEF Inv

-----------------------------------------------------------------------------
(* Statuses                                                                *)

(* The codes K, and no other, get the status.                              *)
Marked(K, status) ==
  code' = [c \in Codes |-> IF c \in K THEN [code[c] EXCEPT !.status = status] ELSE code[c]]

(* Some codes become active or blocked, and their readers are overlapped.  *)
LEMMA StatusLemma ==
  ASSUME Inv, NEW K \in SUBSET Codes, NEW status \in {"ACTIVE", "BLOCKED"},
         \A c \in K : code[c] # NoCode,
         Marked(K, status),
         Overlap(Readers(K)),
         merchant' \in [Requests -> MerchantStatuses \cup {"NONE"}],
         \A m \in Requests : merchant'[m] = "NONE" <=> merchant[m] = "NONE",
         unblocked' \subseteq Codes, distributed' \subseteq Requests,
         UNCHANGED <<order, pc, answer, holder>>
  PROVE  /\ TypeOK'
         /\ \A r \in Requests : (Waiting(r) /\ Reading(r) /\ Told(r))'
         /\ \A c \in Codes : /\ code'[c].merchant = code[c].merchant
                             /\ c \in K => code'[c].status = status
                             /\ c \notin K => code'[c] = code[c]
<1>0. TypeOK
  BY DEF Inv
<1>1. /\ code' \in [Codes -> {NoCode} \cup [status : CodeStatuses, merchant : Requests \cup {None}]]
      /\ \A c \in K : code'[c].status = status /\ code'[c] # NoCode
      /\ \A c \in Codes : code'[c].merchant = code[c].merchant
      /\ \A c \in Codes \ K : code'[c] = code[c]
      /\ \A c \in Codes : code'[c] # NoCode <=> code[c] # NoCode
  <2>1. ASSUME NEW c \in K
        PROVE  /\ code'[c] = [status |-> status, merchant |-> code[c].merchant]
               /\ code'[c].status = status /\ code'[c].merchant = code[c].merchant
               /\ code'[c] \in [status : CodeStatuses, merchant : Requests \cup {None}]
               /\ code[c] # NoCode /\ code'[c] # NoCode
    BY <1>0, KnownCode DEF Marked, NoCode, CodeStatuses
  <2>2. ASSUME NEW c \in Codes \ K PROVE code'[c] = code[c]
    BY DEF Marked
  <2>3. ASSUME NEW c \in Codes
        PROVE  code'[c] \in {NoCode} \cup [status : CodeStatuses, merchant : Requests \cup {None}]
    <3>1. CASE c \in K
      BY <2>1, <3>1
    <3>2. CASE c \notin K
      BY <1>0, <2>2, <3>2 DEF TypeOK
    <3> QED
      BY <3>1, <3>2
  <2>4. code' \in [Codes -> {NoCode} \cup [status : CodeStatuses, merchant : Requests \cup {None}]]
    BY <2>3 DEF Marked
  <2>5. ASSUME NEW c \in Codes
        PROVE  code'[c].merchant = code[c].merchant /\ (code'[c] # NoCode <=> code[c] # NoCode)
    <3>1. CASE c \in K
      BY <2>1, <3>1
    <3>2. CASE c \notin K
      BY <2>2, <3>2
    <3> QED
      BY <3>1, <3>2
  <2> QED
    BY <2>1, <2>2, <2>4, <2>5
<1>2. /\ \A b \in Requests : Printed(b)' <=> Printed(b)
      /\ \A s \in Requests : SameLabel(s)' = SameLabel(s) /\ Of(s)' = Of(s) /\ s \in Codes
      /\ overlapped \subseteq overlapped'
      /\ \A s \in Requests : pc[s] = "checked" /\ Of(s) \in K => Of(s) \in overlapped'
  <2>1. \A b \in Requests : Printed(b)' <=> Printed(b)
    BY DEF Printed
  <2>2. \A s \in Requests : SameLabel(s)' = SameLabel(s) /\ Of(s)' = Of(s) /\ s \in Codes
    BY <2>1 DEF SameLabel, Of, Codes
  <2>3. overlapped' = overlapped \cup {Of(s) : s \in Readers(K)}
    BY DEF Overlap
  <2> QED
    BY <2>1, <2>2, <2>3 DEF Readers
<1>3. TypeOK'
  <2>1. \A c \in Cards : c \in Codes /\ Batch[c] \in Requests
    BY CardsAssumption DEF Codes
  <2>2. \A c \in Cards : code'[c] # NoCode <=> Printed(Batch[c])'
    BY <1>0, <1>1, <1>2, <2>1 DEF TypeOK
  <2>3. \A c \in Codes : code'[c].merchant # None => merchant'[code'[c].merchant] # "NONE"
    BY <1>0, <1>1, KnownCode DEF TypeOK
  <2> QED
    BY <1>0, <1>1, <2>2, <2>3 DEF TypeOK
<1>4. ASSUME NEW s \in Requests PROVE (Waiting(s) /\ Reading(s) /\ Told(s))'
  <2>0. /\ Waiting(s) /\ Reading(s) /\ Told(s)
        /\ order[s].op \in {"LINK", "ATTACH"} => Of(s) \in Codes
    BY <1>0, KnownOrder DEF Inv
  <2>1. Waiting(s)'
    BY <1>1, <1>2, <2>0 DEF Waiting
  <2>2. Reading(s)'
    <3>1. pc[s] = "checked" /\ Of(s) \notin overlapped' /\ Of(s) \in Codes =>
            code'[Of(s)] = code[Of(s)]
      BY <1>1, <1>2
    <3>2. pc[s] = "checked" /\ order[s].op \in {"LINK", "ATTACH"} => code'[Of(s)] # NoCode
      BY <1>1, <2>0 DEF Reading
    <3> QED
      BY <1>2, <2>0, <3>1, <3>2 DEF Reading, Linkable, Attachable
  <2>3. Told(s)'
    <3>1. order[s].op = "LINK" /\ pc[s] = "done" /\ Of(s) \notin overlapped' =>
            /\ code'[Of(s)].merchant = answer[s]
            /\ code'[Of(s)].status \in {"ACTIVE", "BLOCKED"}
      BY <1>1, <1>2, <2>0 DEF Told
    <3> QED
      BY <1>2, <2>0, <3>1 DEF Told
  <2> QED
    BY <2>1, <2>2, <2>3
<1> QED
  BY <1>1, <1>3, <1>4

(* SetMerchantStatus, Approve: merchant and codes change together.         *)
LEMMA SetStatusStep ==
  ASSUME Inv, NEW m \in Requests, NEW status \in MerchantStatuses, NEW codeStatus \in {"ACTIVE", "BLOCKED"},
         codeStatus = "ACTIVE" => status = "ACTIVE", SetStatus(m, status, codeStatus)
  PROVE  Inv'
<1>0. TypeOK
  BY DEF Inv
<1> PICK K \in SUBSET Codes : K = CodesOf(m)
  BY DEF CodesOf
<1>1. /\ merchant[m] # "NONE"
      /\ merchant' = [merchant EXCEPT ![m] = status]
      /\ Marked(K, codeStatus)
      /\ unblocked' = unblocked \ K
      /\ distributed' = distributed \ {m}
      /\ Overlap(Readers(K))
      /\ UNCHANGED <<order, pc, answer, holder>>
  BY DEF SetStatus, Marked
<1>2. /\ \A c \in Codes : c \in K <=> code[c].merchant = m
      /\ \A c \in K : code[c] # NoCode
  BY CardsAssumption DEF CodesOf, NoCode
<1>3. /\ merchant' \in [Requests -> MerchantStatuses \cup {"NONE"}]
      /\ \A s \in Requests : merchant'[s] = IF s = m THEN status ELSE merchant[s]
      /\ \A s \in Requests : merchant'[s] = "NONE" <=> merchant[s] = "NONE"
      /\ unblocked' \subseteq Codes /\ distributed' \subseteq Requests
  BY <1>0, <1>1 DEF TypeOK, MerchantStatuses
<1>4. /\ TypeOK'
      /\ \A r \in Requests : (Waiting(r) /\ Reading(r) /\ Told(r))'
      /\ \A c \in Codes : /\ code'[c].merchant = code[c].merchant
                          /\ c \in K => code'[c].status = codeStatus
                          /\ c \notin K => code'[c] = code[c]
  BY <1>1, <1>2, <1>3, StatusLemma
<1>5. ASSUME NEW c \in Codes PROVE Reached(c)'
  <2>1. CASE c \in K
    BY <1>2, <1>3, <1>4, <2>1, CardsAssumption DEF Reached
  <2>2. CASE c \notin K
    <3>1. /\ code'[c] = code[c] /\ code[c].merchant # m
          /\ code[c].merchant \in Requests \cup {None}
          /\ Reached(c)
      BY <1>0, <1>2, <1>4, <2>2, KnownCode DEF Inv
    <3> QED
      BY <1>1, <1>3, <2>2, <3>1 DEF Reached
  <2> QED
    BY <2>1, <2>2
<1> QED
  BY <1>4, <1>5 DEF Inv

LEMMA QrBlockedStep ==
  ASSUME Inv, NEW k \in Codes, NEW blocked \in BOOLEAN, SetQrBlocked(k, blocked) PROVE Inv'
<1>0. TypeOK
  BY DEF Inv
<1> PICK status \in {"ACTIVE", "BLOCKED"} : status = IF blocked THEN "BLOCKED" ELSE "ACTIVE"
  OBVIOUS
<1>1. /\ code[k] # NoCode
      /\ code' = [code EXCEPT ![k].status = status]
      /\ unblocked' = IF blocked THEN unblocked \ {k} ELSE unblocked \cup {k}
      /\ Overlap(Readers({k}))
      /\ UNCHANGED <<order, pc, answer, merchant, holder, distributed>>
      /\ status = "ACTIVE" => ~blocked
  BY DEF SetQrBlocked, Known
<1>2. /\ Marked({k}, status)
      /\ unblocked' \subseteq Codes /\ distributed' \subseteq Requests
      /\ {k} \in SUBSET Codes
      /\ merchant' \in [Requests -> MerchantStatuses \cup {"NONE"}]
  BY <1>0, <1>1 DEF TypeOK, Marked
<1>3. /\ TypeOK'
      /\ \A r \in Requests : (Waiting(r) /\ Reading(r) /\ Told(r))'
      /\ \A c \in Codes : /\ c \in {k} => code'[c].status = status
                          /\ c \notin {k} => code'[c] = code[c]
  <2> \A c \in {k} : code[c] # NoCode
    BY <1>1
  <2> \A m \in Requests : merchant'[m] = "NONE" <=> merchant[m] = "NONE"
    BY <1>1
  <2> QED
    BY <1>1, <1>2, StatusLemma
<1>4. ASSUME NEW c \in Codes PROVE Reached(c)'
  <2>1. CASE c = k
    BY <1>1, <1>3, <2>1 DEF Reached
  <2>2. CASE c # k
    BY <1>1, <1>3, <2>2 DEF Reached, Inv
  <2> QED
    BY <2>1, <2>2
<1> QED
  BY <1>3, <1>4 DEF Inv

LEMMA RetailerStep == ASSUME Inv, NEW m \in Requests, SetRetailerStatus(m) PROVE Inv'
<1>0. TypeOK
  BY DEF Inv
<1>1. PICK status \in {"ACTIVE", "SUSPENDED"} : merchant' = [merchant EXCEPT ![m] = status]
  BY DEF SetRetailerStatus
<1>2. /\ merchant[m] # "NONE" /\ distributed' = distributed \cup {m}
      /\ UNCHANGED <<order, pc, answer, code, holder, overlapped, unblocked>>
  BY DEF SetRetailerStatus
<1>3. /\ merchant' \in [Requests -> MerchantStatuses \cup {"NONE"}]
      /\ \A s \in Requests : merchant'[s] = IF s = m THEN status ELSE merchant[s]
      /\ \A s \in Requests : merchant'[s] = "NONE" <=> merchant[s] = "NONE"
  BY <1>0, <1>1, <1>2 DEF TypeOK, MerchantStatuses
<1>4. /\ \A b \in Requests : Printed(b)' <=> Printed(b)
      /\ \A s \in Requests : SameLabel(s)' = SameLabel(s) /\ Of(s)' = Of(s)
  <2>1. \A b \in Requests : Printed(b)' <=> Printed(b)
    BY <1>2 DEF Printed
  <2> QED
    BY <1>2, <2>1 DEF SameLabel, Of
<1>5. TypeOK'
  <2>1. \A c \in Cards : Batch[c] \in Requests
    BY CardsAssumption
  <2>2. \A c \in Codes : code[c].merchant # None => merchant'[code[c].merchant] # "NONE"
    BY <1>0, <1>3, KnownCode DEF TypeOK
  <2> QED
    BY <1>0, <1>2, <1>3, <1>4, <2>1, <2>2 DEF TypeOK
<1>6. ASSUME NEW s \in Requests PROVE (Waiting(s) /\ Reading(s) /\ Told(s))'
  <2> Waiting(s) /\ Reading(s) /\ Told(s)
    BY DEF Inv
  <2> QED
    BY <1>2, <1>3, <1>4 DEF Waiting, Reading, Told, Linkable, Attachable
<1>7. ASSUME NEW c \in Codes PROVE Reached(c)'
  <2> Reached(c) /\ code[c].merchant \in Requests \cup {None}
    BY <1>0, KnownCode DEF Inv
  <2> QED
    BY <1>2, <1>3 DEF Reached
<1> QED
  BY <1>5, <1>6, <1>7 DEF Inv

-----------------------------------------------------------------------------
LEMMA NextInv == Inv /\ [Next]_vars => Inv'
<1> SUFFICES ASSUME Inv, [Next]_vars PROVE Inv'
  OBVIOUS
<1>1. CASE UNCHANGED vars
  <2>1. /\ \A b \in Requests : Printed(b)' <=> Printed(b)
        /\ \A s \in Requests : Of(s)' = Of(s)
    BY <1>1 DEF vars, Printed, Of
  <2>2. \A s \in Requests : SameLabel(s)' = SameLabel(s)
    BY <2>1 DEF SameLabel
  <2>3. TypeOK'
    <3> \A c \in Cards : Batch[c] \in Requests
      BY CardsAssumption
    <3> QED
      BY <1>1, <2>1 DEF vars, Inv, TypeOK
  <2>4. \A s \in Requests : (Waiting(s) /\ Reading(s) /\ Told(s))'
    BY <1>1, <2>1, <2>2 DEF vars, Inv, Waiting, Reading, Told, Linkable, Attachable
  <2>5. \A c \in Codes : Reached(c)'
    BY <1>1 DEF vars, Inv, Reached
  <2> QED
    BY <2>3, <2>4, <2>5 DEF Inv
<1>2. ASSUME NEW r \in Requests, Check(r) PROVE Inv'
  BY <1>2, CheckStep
<1>3. ASSUME NEW r \in Requests, Fail(r) PROVE Inv'
  BY <1>3, FailStep
<1>4. ASSUME NEW r \in Requests, CreateQrBatch(r) PROVE Inv'
  BY <1>4, PrintStep
<1>5. ASSUME NEW r \in Requests, AssignQrBatch(r) PROVE Inv'
  BY <1>5, AssignStep
<1>6. ASSUME NEW r \in Requests, Create(r) PROVE Inv'
  BY <1>6, CreateStep
<1>7. ASSUME NEW r \in Requests, LinkQrToNewMerchant(r) PROVE Inv'
  BY <1>7, LinkStep
<1>8. ASSUME NEW r \in Requests, LinkQrToMerchant(r) PROVE Inv'
  BY <1>8, AttachStep
<1>9. ASSUME NEW m \in Requests, SetMerchantStatus(m) PROVE Inv'
  BY <1>9, SetStatusStep DEF SetMerchantStatus, CodeStatus
<1>10. ASSUME NEW m \in Requests, Approve(m) PROVE Inv'
  BY <1>10, SetStatusStep DEF Approve, MerchantStatuses
<1>11. ASSUME NEW m \in Requests, SetRetailerStatus(m) PROVE Inv'
  BY <1>11, RetailerStep
<1>12. ASSUME NEW c \in Codes, NEW blocked \in BOOLEAN, SetQrBlocked(c, blocked) PROVE Inv'
  BY <1>12, QrBlockedStep
<1> QED
  BY <1>1, <1>2, <1>3, <1>4, <1>5, <1>6, <1>7, <1>8, <1>9, <1>10, <1>11, <1>12 DEF Next

LEMMA Invariance == Spec => []Inv
BY InitInv, NextInv, PTL DEF Spec

-----------------------------------------------------------------------------
(* Every reachable state is well typed; a printed card exists from its     *)
(* batch on, and every code leads to a merchant that exists.               *)
THEOREM TypeCorrect == Spec => []TypeOK
BY Invariance, PTL DEF Inv

(* linkQrToNewMerchant, assignQrBatch, createQrBatch: only what was        *)
(* written between a check and its write can belie an answer.              *)
THEOREM AnswersAreKept == Spec => []AnswersStand
<1>1. Inv => AnswersStand
  BY DEF Inv, Told, AnswersStand
<1> QED
  BY <1>1, Invariance, PTL

(* setMerchantStatus and review: the codes follow, for any sequence of     *)
(* links, reviews and blockings.                                           *)
THEOREM SuspensionIsComplete == Spec => []SuspensionReachesCodes
<1>1. Inv => SuspensionReachesCodes
  BY DEF Inv, Reached, SuspensionReachesCodes
<1> QED
  BY <1>1, Invariance, PTL

(* linkQrToNewMerchant, linkQrToMerchant: a code that was activated or     *)
(* blocked is not taken from its merchant, but by a request that read it   *)
(* before.                                                                 *)
THEOREM CodesAreKept == Spec => ActivatedCodesKeepTheirMerchant
<1>1. ASSUME Inv, [Next]_vars, NEW c \in Codes, code[c].status \in {"ACTIVE", "BLOCKED"}, c \notin overlapped
      PROVE  code'[c].merchant = code[c].merchant
  <2>0. TypeOK /\ code \in [Codes -> {NoCode} \cup [status : CodeStatuses, merchant : Requests \cup {None}]]
    BY <1>1 DEF Inv, TypeOK
  <2>1. \/ code' = code
        \/ \E r \in Requests : CreateQrBatch(r) \/ AssignQrBatch(r) \/ Create(r)
                              \/ LinkQrToNewMerchant(r) \/ LinkQrToMerchant(r)
        \/ \E m \in Requests : SetMerchantStatus(m) \/ Approve(m)
        \/ \E k \in Codes, blocked \in BOOLEAN : SetQrBlocked(k, blocked)
    BY <1>1 DEF Next, vars, Check, Fail, SetRetailerStatus
  <2>2. ASSUME NEW r \in Requests, CreateQrBatch(r) PROVE code'[c] = code[c]
    <3>1. pc[r] = "checked"
      BY <2>0, <2>2, CommitLemma DEF CreateQrBatch
    <3>2. ~(c \in Cards /\ Batch[c] = r)
      BY <1>1, <2>0, <3>1 DEF TypeOK, Printed, NoCode
    <3> QED
      BY <2>2, <3>2 DEF CreateQrBatch
  <2>3. ASSUME NEW r \in Requests, AssignQrBatch(r) PROVE code'[c].merchant = code[c].merchant
    <3>1. code'[c] = code[c] \/ code'[c] = [code[c] EXCEPT !.status = "ASSIGNED"]
      BY <2>3 DEF AssignQrBatch
    <3> QED
      BY <2>0, <3>1, KnownCode
  <2>4. ASSUME NEW r \in Requests, Create(r) PROVE code'[c] = code[c]
    <3>1. pc[r] = "checked" /\ Waiting(r)
      BY <1>1, <2>0, <2>4, CommitLemma DEF Create, Inv
    <3>2. c # r
      BY <1>1, <3>1 DEF Waiting, NoCode
    <3> QED
      BY <2>0, <2>4, <3>2 DEF Create
  <2>5. ASSUME NEW r \in Requests, LinkQrToNewMerchant(r) \/ LinkQrToMerchant(r) PROVE code'[c] = code[c]
    <3>1. PICK op \in {"LINK", "ATTACH"} : Commits(r, op)
      BY <2>5 DEF LinkQrToNewMerchant, LinkQrToMerchant
    <3>2. /\ pc[r] = "checked" /\ order[r].op \in {"LINK", "ATTACH"} /\ Of(r) \in Codes /\ Reading(r)
      BY <1>1, <2>0, <3>1, CommitLemma, KnownOrder DEF Inv
    <3>3. c # Of(r)
      BY <1>1, <3>2 DEF Reading, Linkable, Attachable
    <3> QED
      BY <2>0, <2>5, <3>3 DEF LinkQrToNewMerchant, LinkQrToMerchant
  <2>6. ASSUME NEW m \in Requests, SetMerchantStatus(m) \/ Approve(m)
        PROVE  code'[c].merchant = code[c].merchant
    <3>1. PICK status \in CodeStatuses :
            code' = [d \in Codes |-> IF d \in CodesOf(m) THEN [code[d] EXCEPT !.status = status]
                                                        ELSE code[d]]
      BY <2>6 DEF SetMerchantStatus, Approve, SetStatus, CodeStatus, CodeStatuses
    <3>2. code'[c] = code[c] \/ code'[c] = [code[c] EXCEPT !.status = status]
      BY <3>1
    <3> QED
      BY <2>0, <3>2, KnownCode
  <2>7. ASSUME NEW k \in Codes, NEW blocked \in BOOLEAN, SetQrBlocked(k, blocked)
        PROVE  code'[c].merchant = code[c].merchant
    <3>1. PICK status : code' = [code EXCEPT ![k].status = status]
      BY <2>7 DEF SetQrBlocked
    <3> QED
      BY <2>0, <3>1, KnownCode
  <2> QED
    BY <2>1, <2>2, <2>3, <2>4, <2>5, <2>6, <2>7
<1>2. Inv /\ [Next]_vars =>
        [\A c \in Codes :
           code[c].status \in {"ACTIVE", "BLOCKED"} /\ c \notin overlapped =>
             code'[c].merchant = code[c].merchant]_vars
  BY <1>1
<1> QED
  BY <1>2, Invariance, PTL DEF Spec, ActivatedCodesKeepTheirMerchant
=============================================================================
