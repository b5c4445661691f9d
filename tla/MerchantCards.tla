---------------------------- MODULE MerchantCards ----------------------------
(***************************************************************************)
(* Merchants and the QR codes that lead to them: printed cards, from the   *)
(* batch to the agent and to the merchant an agent links them to, and the  *)
(* static code a merchant is created with.  A merchant's status is changed *)
(* by a KYC review, an administrator, or the distributor of a retailer.    *)
(*                                                                         *)
(* Every request reads first and writes in a later database transaction,   *)
(* at Postgres' default isolation: what it read may be stale (history      *)
(* variable overlapped), and an update takes no notice of it.              *)
(***************************************************************************)
CONSTANTS
  Requests,   \* a merchant, its static code or a batch has the name of its request
  Cards,      \* printed cards
  Batch,      \* Batch[c]: the request that prints card c
  Orders,     \* what may be asked: [op, of, by]
  Orderings,  \* who may ask what: functions from Requests to Orders
  None

(* op        of       by                                                   *)
(* PRINT     label    -          createQrBatch                             *)
(* GENERATE  label    -          generateBatch                             *)
(* ASSIGN    batch    agent      assignQrBatch                             *)
(* LINK      code     phone      linkQrToNewMerchant                       *)
(* ATTACH    code     merchant   linkQrToMerchant                          *)
(* REGISTER  -        -          MerchantsService.create                   *)
(* RETAILER  -        -          createRetailer                            *)
Ops == {"PRINT", "GENERATE", "ASSIGN", "LINK", "ATTACH", "REGISTER", "RETAILER"}

Codes == Cards \cup Requests

ASSUME CardsAssumption ==
  /\ Cards \cap Requests = {}
  /\ None \notin Requests
  /\ Batch \in [Cards -> Requests]
  /\ \A o \in Orders :
       /\ o.op \in Ops
       /\ o.op \in {"LINK", "ATTACH"} => o.of \in Codes
       /\ o.op = "ASSIGN" => o.of \in Requests /\ o.by # None
       /\ o.op = "ATTACH" => o.by \in Requests
  /\ Orderings \subseteq [Requests -> Orders]

VARIABLES
  order,       \* order[r]: what request r asks
  pc,          \* pc[r]
  answer,      \* answer[r]: the batch or merchant r was told of, r for its own
  code,        \* qr_codes: status and merchant
  merchant,    \* merchants: status
  holder,      \* holder[b]: the agent batch b is assigned to
  overlapped,  \* what was written between the check and the write of a request
  unblocked,   \* codes an administrator unblocked one by one
  distributed  \* retailers whose status their distributor set last

vars == <<order, pc, answer, code, merchant, holder, overlapped, unblocked, distributed>>

MerchantStatuses == {"PENDING", "ACTIVE", "SUSPENDED", "REJECTED"}
CodeStatuses == {"UNASSIGNED", "ASSIGNED", "ACTIVE", "BLOCKED"}

NoCode == [status |-> "NONE", merchant |-> None]

Printed(b) == pc[b] = "done" /\ order[b].op \in {"PRINT", "GENERATE"} /\ answer[b] = b

Holders == {None} \cup {o.by : o \in {q \in Orders : q.op = "ASSIGN"}}

TypeOK ==
  /\ order \in Orderings
  /\ pc \in [Requests -> {"idle", "checked", "done", "refused"}]
  /\ answer \in [Requests -> Requests \cup {None}]
  /\ code \in [Codes -> {NoCode} \cup [status : CodeStatuses, merchant : Requests \cup {None}]]
  /\ merchant \in [Requests -> MerchantStatuses \cup {"NONE"}]
  /\ holder \in [Requests -> Holders]
  /\ unblocked \subseteq Codes
  /\ distributed \subseteq Requests
  /\ \A c \in Cards : code[c] # NoCode <=> Printed(Batch[c])
  /\ \A c \in Codes : code[c].merchant # None => merchant[code[c].merchant] # "NONE"

Init ==
  /\ order \in Orderings
  /\ pc = [r \in Requests |-> "idle"]
  /\ answer = [r \in Requests |-> None]
  /\ code = [c \in Codes |-> NoCode]
  /\ merchant = [r \in Requests |-> "NONE"]
  /\ holder = [r \in Requests |-> None]
  /\ overlapped = {}
  /\ unblocked = {}
  /\ distributed = {}

-----------------------------------------------------------------------------
(* What a request reads *)

Of(r) == order[r].of

(* User.phone is unique: a number belongs to the merchant linked with it. *)
PhoneTaken(p) ==
  \E s \in Requests : order[s].op = "LINK" /\ order[s].by = p /\ merchant[s] # "NONE"

SameLabel(r) == {b \in Requests : Printed(b) /\ Of(b) = Of(r)}

(* Mutant of Linkable: whatever is not active may be linked. *)
LinkableUnlessActive(c) == code[c].status \notin {"NONE", "ACTIVE"}

(* A blank card, says the comment; a code of that status may already lead  *)
(* to a merchant who waits for the review, or to a retailer.               *)
Linkable(c) == code[c].status \in {"UNASSIGNED", "ASSIGNED"}

(* Mutant of Attachable: an active code too. *)
AttachableAnytime(c) == code[c].status \in {"ASSIGNED", "ACTIVE"}

Attachable(c) == code[c].status = "ASSIGNED"

(* The request may go on to its transaction. *)
Admissible(r) ==
  CASE order[r].op = "PRINT"  -> SameLabel(r) = {}
    [] order[r].op = "ASSIGN" -> Printed(Of(r)) /\ holder[Of(r)] = None
    [] order[r].op = "LINK"   -> Linkable(Of(r)) /\ ~PhoneTaken(order[r].by)
    [] order[r].op = "ATTACH" -> Attachable(Of(r))
    [] OTHER                  -> TRUE

(* What a request whose wish is already fulfilled is told of: the batch of *)
(* that label, the merchant the code leads to.                             *)
Existing(r) ==
  CASE order[r].op = "PRINT" -> SameLabel(r)
    [] order[r].op = "LINK" /\ code[Of(r)].status = "ACTIVE" -> {code[Of(r)].merchant} \ {None}
    [] OTHER -> {}

GoTo(r, place) == pc' = [pc EXCEPT ![r] = place]

Check(r) ==
  /\ pc[r] = "idle"
  /\ \/ /\ Admissible(r)
        /\ GoTo(r, "checked")
        /\ UNCHANGED answer
     \/ /\ ~Admissible(r)
        /\ \E x \in Existing(r) : answer' = [answer EXCEPT ![r] = x]
        /\ GoTo(r, "done")
     \/ /\ ~Admissible(r) /\ Existing(r) = {}
        /\ GoTo(r, "refused")
        /\ UNCHANGED answer
  /\ UNCHANGED <<order, code, merchant, holder, overlapped, unblocked, distributed>>

-----------------------------------------------------------------------------
(* What a request writes *)

(* The requests that have read one of the things, and have yet to write. *)
Readers(things) == {s \in Requests : pc[s] = "checked" /\ Of(s) \in things}

Overlap(readers) == overlapped' = overlapped \cup {Of(s) : s \in readers}

Commits(r, op) ==
  /\ pc[r] = "checked" /\ order[r].op = op
  /\ GoTo(r, "done")
  /\ answer' = [answer EXCEPT ![r] = r]
  /\ Overlap(Readers({Of(r)}) \ {r})
  /\ UNCHANGED <<order, unblocked, distributed>>

CreateQrBatch(r) ==
  /\ Commits(r, "PRINT") \/ Commits(r, "GENERATE")
  /\ code' = [c \in Codes |-> IF c \in Cards /\ Batch[c] = r
                                THEN [status |-> "UNASSIGNED", merchant |-> None]
                                ELSE code[c]]
  /\ UNCHANGED <<merchant, holder>>

AssignQrBatch(r) ==
  LET handed == {c \in Cards : Batch[c] = Of(r) /\ code[c].status = "UNASSIGNED"} IN
  /\ Commits(r, "ASSIGN")
  /\ holder' = [holder EXCEPT ![Of(r)] = order[r].by]
  /\ code' = [c \in Codes |-> IF c \in handed THEN [code[c] EXCEPT !.status = "ASSIGNED"]
                                              ELSE code[c]]
  /\ UNCHANGED merchant

LinkQrToNewMerchant(r) ==
  /\ ~PhoneTaken(order[r].by)
  /\ Commits(r, "LINK")
  /\ merchant' = [merchant EXCEPT ![r] = "ACTIVE"]
  /\ code' = [code EXCEPT ![Of(r)] = [status |-> "ACTIVE", merchant |-> r]]
  /\ UNCHANGED holder

LinkQrToMerchant(r) ==
  /\ Commits(r, "ATTACH")
  /\ merchant[order[r].by] # "NONE"
  /\ code' = [code EXCEPT ![Of(r)] = [status |-> "ASSIGNED", merchant |-> order[r].by]]
  /\ UNCHANGED <<merchant, holder>>

(* The static code is reserved, with the merchant's name on it. *)
Create(r) ==
  /\ \/ Commits(r, "REGISTER") /\ merchant' = [merchant EXCEPT ![r] = "PENDING"]
     \/ Commits(r, "RETAILER") /\ merchant' = [merchant EXCEPT ![r] = "ACTIVE"]
  /\ code' = [code EXCEPT ![r] = [status |-> "UNASSIGNED", merchant |-> r]]
  /\ UNCHANGED holder

(* The transaction breaks a constraint (phone, foreign key), or is lost. *)
Fail(r) ==
  /\ pc[r] = "checked"
  /\ GoTo(r, "refused")
  /\ UNCHANGED <<order, answer, code, merchant, holder, overlapped, unblocked, distributed>>

-----------------------------------------------------------------------------
(* What administrators and distributors write *)

(* The static codes of m; a printed card is one. *)
CodesOf(m) == {c \in Codes : code[c].merchant = m}

SetStatus(m, status, codeStatus) ==
  /\ merchant[m] # "NONE"
  /\ merchant' = [merchant EXCEPT ![m] = status]
  /\ code' = [c \in Codes |-> IF c \in CodesOf(m) THEN [code[c] EXCEPT !.status = codeStatus]
                                                  ELSE code[c]]
  /\ unblocked' = unblocked \ CodesOf(m)
  /\ distributed' = distributed \ {m}
  /\ Overlap(Readers(CodesOf(m)))
  /\ UNCHANGED <<order, pc, answer, holder>>

(* Mutant of CodeStatus: only a suspension blocks. *)
CodeStatusSuspended(status) == IF status = "SUSPENDED" THEN "BLOCKED" ELSE "ACTIVE"

(* A static code follows the status of its merchant. *)
CodeStatus(status) == IF status = "ACTIVE" THEN "ACTIVE" ELSE "BLOCKED"

SetMerchantStatus(m) ==
  \E status \in MerchantStatuses : SetStatus(m, status, CodeStatus(status))

(* An approved dossier, whatever became of the dossier or merchant before. *)
Approve(m) == SetStatus(m, "ACTIVE", "ACTIVE")

(* The distributor changes the status alone. *)
SetRetailerStatus(m) ==
  /\ merchant[m] # "NONE" /\ order[m].op = "RETAILER"
  /\ \E status \in {"ACTIVE", "SUSPENDED"} : merchant' = [merchant EXCEPT ![m] = status]
  /\ distributed' = distributed \cup {m}
  /\ UNCHANGED <<order, pc, answer, code, holder, overlapped, unblocked>>

(* Mutant of Known: a code that was never printed. *)
KnownOrNot(c) == TRUE

Known(c) == code[c] # NoCode

SetQrBlocked(c, blocked) ==
  /\ Known(c)
  /\ code' = [code EXCEPT ![c].status = IF blocked THEN "BLOCKED" ELSE "ACTIVE"]
  /\ unblocked' = IF blocked THEN unblocked \ {c} ELSE unblocked \cup {c}
  /\ Overlap(Readers({c}))
  /\ UNCHANGED <<order, pc, answer, merchant, holder, distributed>>

-----------------------------------------------------------------------------
Next ==
  \/ \E r \in Requests :
       \/ Check(r) \/ Fail(r)
       \/ CreateQrBatch(r) \/ AssignQrBatch(r) \/ Create(r)
       \/ LinkQrToNewMerchant(r) \/ LinkQrToMerchant(r)
       \/ SetMerchantStatus(r) \/ Approve(r) \/ SetRetailerStatus(r)
  \/ \E c \in Codes, blocked \in BOOLEAN : SetQrBlocked(c, blocked)

Spec == Init /\ [][Next]_vars

-----------------------------------------------------------------------------
(* What a request was told stays true, unless something was written        *)
(* between its check, or that of another request for the same thing, and   *)
(* the write: the card leads to the merchant it was linked to, the batch   *)
(* is the agent's, and createQrBatch prints a label once.                  *)
AnswersStand ==
  \A r \in Requests :
    pc[r] = "done" /\ Of(r) \notin overlapped =>
      /\ order[r].op = "LINK" => code[Of(r)].merchant = answer[r]
      /\ order[r].op = "ASSIGN" => holder[Of(r)] = order[r].by
      /\ order[r].op = "PRINT" /\ answer[r] = r =>
           \A b \in SameLabel(r) \ {r} : order[b].op = "GENERATE"

(* A code that has been activated, or blocked, leads to the same merchant  *)
(* for ever: only a request that read it before can take it away.          *)
ActivatedCodesKeepTheirMerchant ==
  [][\A c \in Codes :
       code[c].status \in {"ACTIVE", "BLOCKED"} /\ c \notin overlapped =>
         code'[c].merchant = code[c].merchant]_vars

(* No code is active for a merchant who is not ("jamais actif si le        *)
(* marchand est suspendu"), whatever cards are linked, approvals given or  *)
(* retailers created meanwhile, but for two ways the code leaves open: an  *)
(* administrator unblocks the code alone, a distributor suspends a         *)
(* retailer.                                                               *)
SuspensionReachesCodes ==
  \A c \in Codes :
    code[c].status = "ACTIVE" /\ c \notin unblocked =>
      LET m == code[c].merchant IN m \in distributed \/ (m # None /\ merchant[m] = "ACTIVE")
=============================================================================
