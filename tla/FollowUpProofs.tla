--------------------------- MODULE FollowUpProofs ---------------------------
(***************************************************************************)
(* One intention on any page of the applications, pressed any number of    *)
(* times, with timers that wait for any number of replies.  What carries   *)
(* the proof: a payment that is still open when the form can be used again *)
(* is one whose client was told of an error, or went back by itself; and   *)
(* what is followed is a payment the API has answered for.                 *)
(***************************************************************************)
EXTENDS FollowUp, TLAPS

(* Where the request of press n is, and what is known of its payment. *)
RowOK(n) ==
  /\ stage[n] = "none" <=> n > presses
  /\ stage[n] \in {"none", "sent"} => row[n] = "NONE" /\ hub[n] = "NONE"
  /\ stage[n] \in {"created", "accepted"} => page.route.hub2 /\ row[n] = "PROCESSING" /\ ~linked[n]
  /\ stage[n] = "created" => hub[n] = "NONE"
  /\ stage[n] # "done" => reply[n] = "NONE"
  /\ linked[n] \/ hub[n] # "NONE" => page.route.hub2 /\ row[n] # "NONE"
  /\ page.route.hub2 /\ row[n] \in Final => hub[n] = row[n]
  /\ reply[n] = "PROCESSING" => row[n] # "NONE"
  /\ ~page.route.single /\ reply[n] \in Final => row[n] = reply[n]
  /\ ~page.route.single /\ reply[n] = "PROCESSING" /\ ~page.route.hub2 => row[n] = "PROCESSING"

(* A route of one execution has one row at most, which has succeeded. *)
SingleOK ==
  page.route.single =>
    /\ \A m \in Presses : row[m] \in {"NONE", "SUCCESS"}
    /\ \A m, n \in Presses : row[m] # "NONE" /\ row[n] # "NONE" => m = n
    /\ \A n \in Presses : /\ reply[n] \in {"NONE", "SUCCESS"}
                          /\ reply[n] = "SUCCESS" => \E m \in Presses : row[m] = "SUCCESS"

RowsOK == SingleOK /\ \A n \in Presses : RowOK(n)

(* A payment the page may follow: the API has answered that it goes on. *)
Tracked(i) == page.follows /\ reply[i] = "PROCESSING"

(* Only these are asked about, and what a reply on its way says of an      *)
(* outcome is so.                                                          *)
FollowsOK ==
  /\ \A i \in timers : Tracked(i)
  /\ ref # 0 => Tracked(ref)
  /\ \A r \in replies : Tracked(r.of) /\ (r.status \in Final => row[r.of] = r.status)
  /\ screen = "action" => Tracked(about) /\ poll.acts

(* A page that comes back by the link has nothing of an earlier press. *)
ChainedOK ==
  poll.chained =>
    /\ timers # {} \/ replies # {} => ~waiting /\ screen # "form"
    /\ \A i \in timers : i = presses
    /\ \A r \in replies : r.of = presses

ViewOK ==
  /\ about \in 0..presses
  /\ screen # "form" => about # 0
  /\ waiting => presses > 0

(* The payments left behind by a press, or about to be, while open. *)
MisledOK ==
  /\ \A m \in Presses : m < presses /\ Open(m) => m \in misled \cup dismissed
  /\ \A m \in Presses :
       m = presses /\ ~waiting /\ screen = "form" /\ Open(m) => m \in misled \cup dismissed

FailedOK == screen = "failed" => (Open(about) => about \in misled)

SuccessOK ==
  screen = "success" =>
    /\ row[about] = "SUCCESS" \/ (row[about] = "PROCESSING" /\ ~page.route.hub2) \/ about \in presumed
    /\ about = presses \/ about \in misled \cup dismissed

(* The pages that neither show steps nor rewrite an outcome. *)
Steady == ~(poll.acts \/ poll.exhausted = "pending" \/ poll.failed = "pending")

SteadyOK == Steady /\ page.follows /\ screen \in {"pending", "action"} => ref # 0

Inv ==
  TypeOK /\ RowsOK /\ FollowsOK /\ ChainedOK /\ ViewOK /\ MisledOK /\ FailedOK /\ SuccessOK /\ SteadyOK

-----------------------------------------------------------------------------
(* What the pages of the applications have in common                      *)

PollFacts(q) ==
  /\ q.acts \in BOOLEAN /\ q.halts \in BOOLEAN /\ q.byTick \in BOOLEAN /\ q.shared \in BOOLEAN
  /\ q.restarts \in BOOLEAN /\ q.chained \in BOOLEAN /\ q.checks \in BOOLEAN
  /\ q.failed \in {"failed", "pending"}
  /\ q.waiting \in {"same", "pending"}
  /\ q.exhausted \in {"same", "pending", "failed"}
  /\ q.refused \in {"same", "failed"}
  /\ q.entered \in {"form", "pending", "action"}
  /\ q.waiting # "same" => q.acts
  /\ q.byTick => q.exhausted = "pending"
  /\ q.exhausted = "failed" => q.chained
  /\ q.chained => ~q.acts
  /\ q.halts \/ q.restarts \/ q.checks => q.shared
  /\ q.checks => q.acts

RouteFacts(o) ==
  /\ o.single \in BOOLEAN /\ o.hub2 \in BOOLEAN /\ o.asks \in BOOLEAN
  /\ o.answers \subseteq {"SUCCESS", "FAILED", "PROCESSING"}
  /\ o.single => o.answers = {"SUCCESS"} /\ ~o.hub2

PageFacts(g) ==
  /\ PollFacts(g.poll)
  /\ RouteFacts(g.route)
  /\ g.processing \in {"pending", "failed", "success"}
  /\ g.processing = "failed" => "PROCESSING" \notin g.route.answers
  /\ g.processing = "success" => ~g.route.hub2
  /\ g.refused \in {"form", "failed"}
  /\ g.thrown \in {"form", "failed", "unknown"}
  /\ g.follows \in BOOLEAN
  /\ g.follows <=> g.route.hub2
  /\ g.route.hub2 => g.processing = "pending"
  /\ g.poll.checks => g.follows

LEMMA PollLemma ==
  /\ PollFacts(WebPolling) /\ PollFacts(NoPolling) /\ PollFacts(EncaisserPolling)
  /\ PollFacts(CheckoutPolling) /\ PollFacts(RetourPolling) /\ PollFacts(MobilePolling)
  /\ PollFacts(MobileSendPolling)
<1>1. PollFacts(WebPolling) /\ PollFacts(NoPolling) /\ PollFacts(EncaisserPolling)
  BY DEF PollFacts, WebPolling, NoPolling, EncaisserPolling
<1>2. PollFacts(CheckoutPolling) /\ PollFacts(RetourPolling)
  BY DEF PollFacts, WebPolling, NoPolling, CheckoutPolling, RetourPolling
<1>3. PollFacts(MobilePolling) /\ PollFacts(MobileSendPolling)
  BY DEF PollFacts, WebPolling, NoPolling, MobilePolling, MobileSendPolling
<1> QED
  BY <1>1, <1>2, <1>3

(* A page that shows what it is answered. *)
LEMMA PlainLemma ==
  ASSUME NEW answers \in SUBSET {"SUCCESS", "FAILED", "PROCESSING"},
         NEW processing \in {"pending", "failed", "success"},
         processing = "failed" => "PROCESSING" \notin answers,
         NEW refused \in {"form", "failed"}, NEW thrown \in {"form", "failed"}, NEW back
  PROVE  PageFacts(Plain(Immediate(answers), processing, refused, thrown, back))
<1>1. ~NoPolling.checks
  BY DEF NoPolling, WebPolling
<1> QED
  BY <1>1, PollLemma DEF PageFacts, RouteFacts, Plain, Immediate

(* A page that follows a payment at HUB2. *)
LEMMA FollowedLemma ==
  ASSUME NEW asks \in BOOLEAN, NEW q, PollFacts(q), NEW back,
         NEW refused \in {"form", "failed"}, NEW thrown \in {"form", "failed", "unknown"}
  PROVE  PageFacts(Followed(AtHub2(asks), refused, thrown, back, q))
BY DEF PageFacts, RouteFacts, Followed, AtHub2

LEMMA PagesLemma == \A g \in Pages : PageFacts(g)
<1>1. /\ PageFacts(Payer) /\ PageFacts(Topup) /\ PageFacts(Recharger) /\ PageFacts(Envoyer)
      /\ PageFacts(Encaisser)
  BY PollLemma, FollowedLemma
     DEF Payer, Topup, Recharger, Envoyer, Encaisser,
         PayerPolling, TopupPolling, RechargerPolling, EnvoyerPolling,
         CollectFromExternal, InitiateTopup, PurchaseAirtimeFromMobileMoney, SendToExternalAccount, DebitDirect
<1>2. /\ PageFacts(Checkout) /\ PageFacts(CheckoutCard)
      /\ PageFacts(MobileEnvoyer) /\ PageFacts(MobileTopup)
  BY PollLemma, FollowedLemma
     DEF Checkout, CheckoutCard, MobileEnvoyer, MobileTopup, MobileTopupPolling,
         InitiateTopup, SendToExternalAccount, DebitDirect
<1>3. /\ PageFacts(CartesCadeaux) /\ PageFacts(BusinessCartesCadeaux) /\ PageFacts(MobileCartesCadeaux)
      /\ PageFacts(BusinessRecharger) /\ PageFacts(MobileRecharger)
  BY PlainLemma DEF CartesCadeaux, BusinessCartesCadeaux, MobileCartesCadeaux, BusinessRecharger,
     MobileRecharger, PurchaseGiftCard, PurchaseAirtime
<1>4. PageFacts(Factures) /\ PageFacts(BusinessFactures) /\ PageFacts(MobileFactures)
  BY PlainLemma DEF Factures, BusinessFactures, MobileFactures, PayUtilityBill
<1>5. /\ PageFacts(LoadCard) /\ PageFacts(PotAction) /\ PageFacts(MerchantLoadCard)
      /\ PageFacts(MerchantTransfer) /\ PageFacts(MobilePayer) /\ PageFacts(MobileLoadCard)
      /\ PageFacts(MobilePotAction) /\ PageFacts(Detaillants)
  BY PlainLemma DEF LoadCard, PotAction, MerchantLoadCard, MerchantTransfer, MobilePayer, MobileLoadCard,
     MobilePotAction, Detaillants, Transfer, FundRetailer
<1>6. PageFacts(HandleLink)
  <2> ~NoPolling.checks
    BY DEF NoPolling, WebPolling
  <2> QED
    BY PollLemma DEF HandleLink, Plain, LinkQrToNewMerchant, Immediate, PageFacts, RouteFacts
<1> QED
  BY <1>1, <1>2, <1>3, <1>4, <1>5, <1>6 DEF Pages

LEMMA PageLemma == ASSUME TypeOK PROVE PageFacts(page) /\ PollFacts(poll)
<1>1. PageFacts(page)
  BY PagesLemma, FollowUpAssumption DEF TypeOK
<1> QED
  BY <1>1 DEF PageFacts, poll

-----------------------------------------------------------------------------
(* The API: what a step does to the requests and the rows                  *)

(* A row once concluded stays, as does one that HUB2 does not decide; no   *)
(* payment comes to life, and a payment that goes on has been answered.    *)
Forward ==
  /\ \A n \in Presses : Open(n)' => Open(n)
  /\ \A n \in Presses : row[n] \in Final \/ (row[n] # "NONE" /\ ~page.route.hub2) => row'[n] = row[n]
  /\ \A n \in Presses : reply[n] = "PROCESSING" => reply'[n] = reply[n]

(* Nothing happens at the API. *)
LEMMA QuietRows ==
  ASSUME RowsOK, UNCHANGED <<page, presses, stage, reply, row, linked, hub>>
  PROVE  RowsOK' /\ Forward
BY DEF RowsOK, RowOK, SingleOK, Forward, Open

(* HUB2's decision is read, of a payment it knows. *)
LEMMA LearnRows ==
  ASSUME TypeOK, RowsOK, NEW i \in Presses, Learn(i)
  PROVE  /\ row' \in [Presses -> Statuses] /\ next' \in [Presses -> BOOLEAN]
         /\ UNCHANGED <<page, presses, stage, reply, linked, hub>> => RowsOK' /\ Forward
<1>1. /\ row' = [row EXCEPT ![i] = Concluded(i)]
      /\ Concluded(i) \in Statuses
      /\ Concluded(i) # row[i] => linked[i] /\ row[i] = "PROCESSING" /\ hub[i] \in Final /\ Concluded(i) = hub[i]
  BY DEF Learn, Concluded, TypeOK, Statuses, Final
<1>2. row' \in [Presses -> Statuses]
  BY <1>1 DEF TypeOK
<1>3. next' \in [Presses -> BOOLEAN]
  BY DEF Learn, Awaited, TypeOK
<1>4. ASSUME UNCHANGED <<page, presses, stage, reply, linked, hub>> PROVE RowsOK' /\ Forward
  <2>1. CASE Concluded(i) = row[i]
    <3> row' = row
      BY <1>1, <2>1 DEF TypeOK
    <3> QED
      BY <1>4, QuietRows
  <2>2. CASE Concluded(i) # row[i]
    <3>1. /\ row'[i] = hub[i] /\ hub[i] \in Final /\ row[i] = "PROCESSING" /\ linked[i]
          /\ \A n \in Presses \ {i} : row'[n] = row[n]
          /\ page.route.hub2 /\ ~page.route.single
      BY <1>1, <2>2, PageLemma DEF TypeOK, RowsOK, RowOK, PageFacts, RouteFacts
    <3>2. RowOK(i)'
      BY <1>4, <3>1 DEF RowsOK, RowOK, Final
    <3>3. \A n \in Presses \ {i} : RowOK(n)'
      BY <1>4, <3>1 DEF RowsOK, RowOK
    <3>4. Forward
      BY <1>4, <3>1 DEF Forward, Open, Final
    <3> QED
      BY <1>4, <3>1, <3>2, <3>3, <3>4 DEF RowsOK, SingleOK
  <2> QED
    BY <2>1, <2>2
<1> QED
  BY <1>2, <1>3, <1>4

(* Only the request of press n moves. *)
LEMMA OneRow ==
  ASSUME TypeOK, RowsOK, NEW n \in Presses, UNCHANGED <<page, presses>>,
         \A m \in Presses \ {n} : /\ stage'[m] = stage[m] /\ reply'[m] = reply[m] /\ row'[m] = row[m]
                                  /\ linked'[m] = linked[m] /\ hub'[m] = hub[m],
         RowOK(n)', SingleOK', Open(n), row[n] \in Final => row'[n] = row[n],
         row[n] # "NONE" /\ ~page.route.hub2 => row'[n] = row[n],
         stage[n] # "done"
  PROVE  RowsOK' /\ Forward
<1>1. \A m \in Presses \ {n} : RowOK(m)'
  BY DEF RowsOK, RowOK
<1>2. reply[n] # "PROCESSING"
  BY DEF RowsOK, RowOK
<1>3. Forward
  BY <1>2 DEF Forward, Open
<1> QED
  BY <1>1, <1>3 DEF RowsOK

LEMMA HandleRows ==
  ASSUME TypeOK, RowsOK, NEW n \in Presses, Handle(n)
  PROVE  TypeOK' /\ RowsOK' /\ Forward
<1>0. /\ PageFacts(page) /\ stage[n] \notin {"none", "done"} /\ Open(n)
      /\ presses \in 0..MaxPresses /\ n <= presses
      /\ UNCHANGED <<page, client>>
      /\ presses' = presses
  BY PageLemma, FollowUpAssumption DEF Handle, Replay, Refuse, Execute, Create, Accepted, Link, Fail, RowsOK, RowOK, TypeOK,
     Presses, Open, client
<1>c. UNCHANGED <<page, screen, about, presses, waiting, ref, timers, ticks, replies, misled, dismissed, presumed>>
  BY <1>0 DEF client, view, polling, history
<1>1. CASE Replay(n)
  <2>1. PICK m \in Found(n) : Answer(n, row[m])
    BY <1>1 DEF Replay
  <2>2. /\ m \in Presses /\ row[m] # "NONE" /\ page.route.single
        /\ UNCHANGED <<rows, hub>>
    BY <1>1, <2>1 DEF Replay, Found
  <2>4. row[m] = "SUCCESS" /\ ~page.route.hub2
    BY <1>0, <2>2 DEF RowsOK, SingleOK, PageFacts, RouteFacts
  <2>5. /\ stage' = [stage EXCEPT ![n] = "done"] /\ reply' = [reply EXCEPT ![n] = "SUCCESS"]
        /\ UNCHANGED <<row, linked, next, hub>>
    BY <2>1, <2>2, <2>4 DEF Answer, rows
  <2>6. SingleOK'
    BY <1>0, <2>2, <2>4, <2>5 DEF RowsOK, SingleOK, TypeOK
  <2>7. RowOK(n)'
    BY <1>0, <1>1, <2>2, <2>4, <2>5 DEF RowsOK, RowOK, TypeOK, Replay
  <2>8. TypeOK'
    BY <1>c, <2>5 DEF TypeOK, Statuses
  <2>9. \A k \in Presses \ {n} : stage'[k] = stage[k] /\ reply'[k] = reply[k]
    BY <2>5 DEF TypeOK
  <2> QED
    BY <1>0, <2>5, <2>6, <2>7, <2>8, <2>9, OneRow
<1>2. CASE Refuse(n)
  <2>1. /\ stage[n] = "sent"
        /\ stage' = [stage EXCEPT ![n] = "done"] /\ reply' = [reply EXCEPT ![n] = "NONE"]
        /\ UNCHANGED <<row, linked, next, hub>>
    BY <1>2 DEF Refuse, Answer, rows
  <2>2. SingleOK'
    BY <1>0, <2>1 DEF RowsOK, SingleOK, TypeOK
  <2>3. RowOK(n)'
    BY <1>0, <2>1 DEF RowsOK, RowOK, TypeOK, Final
  <2>4. TypeOK'
    BY <1>c, <2>1 DEF TypeOK, Statuses
  <2>5. \A k \in Presses \ {n} : stage'[k] = stage[k] /\ reply'[k] = reply[k]
    BY <2>1 DEF TypeOK
  <2> QED
    BY <1>0, <2>1, <2>2, <2>3, <2>4, <2>5, OneRow
<1>3. CASE Execute(n)
  <2>1. PICK status \in page.route.answers :
          /\ row' = [row EXCEPT ![n] = status]
          /\ stage' = [stage EXCEPT ![n] = "done"] /\ reply' = [reply EXCEPT ![n] = status]
    BY <1>3 DEF Execute, Answer
  <2>2. /\ stage[n] = "sent" /\ ~page.route.hub2 /\ Found(n) = {}
        /\ UNCHANGED <<linked, next, hub>>
        /\ status \in {"SUCCESS", "FAILED", "PROCESSING"}
        /\ page.route.single => status = "SUCCESS"
    BY <1>0, <1>3, <2>1 DEF Execute, PageFacts, RouteFacts
  <2>3. page.route.single => \A m \in Presses : row[m] = "NONE"
    BY <1>0, <2>2 DEF Found
  <2>4. SingleOK'
    BY <1>0, <2>1, <2>2, <2>3 DEF RowsOK, SingleOK, TypeOK
  <2>5. RowOK(n)'
    BY <1>0, <2>1, <2>2 DEF RowsOK, RowOK, TypeOK, Final
  <2>6. TypeOK'
    BY <1>c, <2>1, <2>2 DEF TypeOK, Statuses
  <2>7. row[n] = "NONE" /\ \A k \in Presses \ {n} : stage'[k] = stage[k] /\ reply'[k] = reply[k] /\ row'[k] = row[k]
    BY <2>1, <2>2 DEF TypeOK, RowsOK, RowOK
  <2> QED
    BY <1>0, <2>1, <2>2, <2>4, <2>5, <2>6, <2>7, OneRow DEF Final
<1>4. CASE Create(n)
  <2>1. /\ stage[n] = "sent" /\ page.route.hub2 /\ ~page.route.single
        /\ row' = [row EXCEPT ![n] = "PROCESSING"] /\ stage' = [stage EXCEPT ![n] = "created"]
        /\ UNCHANGED <<reply, linked, next, hub>>
    BY <1>0, <1>4 DEF Create, PageFacts, RouteFacts
  <2>2. SingleOK'
    BY <1>0, <2>1 DEF SingleOK
  <2>3. RowOK(n)'
    BY <1>0, <2>1 DEF RowsOK, RowOK, TypeOK, Final
  <2>5. TypeOK'
    BY <1>c, <2>1 DEF TypeOK, Statuses
  <2>6. row[n] = "NONE" /\ \A k \in Presses \ {n} : stage'[k] = stage[k] /\ row'[k] = row[k]
    BY <2>1 DEF TypeOK, RowsOK, RowOK
  <2> QED
    BY <1>0, <2>1, <2>2, <2>3, <2>5, <2>6, OneRow DEF Final
<1>5. CASE Accepted(n)
  <2>1. /\ stage[n] = "created"
        /\ stage' = [stage EXCEPT ![n] = "accepted"] /\ hub' = [hub EXCEPT ![n] = "PENDING"]
        /\ UNCHANGED <<reply, row, linked, next>>
    BY <1>5 DEF Accepted, rows
  <2>2. SingleOK'
    BY <1>0, <2>1 DEF RowsOK, SingleOK
  <2>3. RowOK(n)'
    BY <1>0, <2>1 DEF RowsOK, RowOK, TypeOK, Final
  <2>4. TypeOK'
    BY <1>c, <2>1 DEF TypeOK, HubStates
  <2>5. \A k \in Presses \ {n} : stage'[k] = stage[k] /\ hub'[k] = hub[k]
    BY <2>1 DEF TypeOK
  <2> QED
    BY <1>0, <2>1, <2>2, <2>3, <2>4, <2>5, OneRow
<1>6. CASE Link(n)
  <2>1. /\ stage[n] = "accepted" /\ linked' = [linked EXCEPT ![n] = TRUE]
        /\ stage' = [stage EXCEPT ![n] = "done"] /\ reply' = [reply EXCEPT ![n] = "PROCESSING"]
        /\ UNCHANGED <<row, next, hub>>
    BY <1>6 DEF Link, Answer
  <2>2. page.route.hub2 /\ ~page.route.single /\ row[n] = "PROCESSING"
    BY <1>0, <2>1 DEF RowsOK, RowOK, PageFacts, RouteFacts
  <2>3. SingleOK'
    BY <1>0, <2>2 DEF SingleOK
  <2>4. RowOK(n)'
    BY <1>0, <2>1, <2>2 DEF RowsOK, RowOK, TypeOK, Final
  <2>5. TypeOK'
    BY <1>c, <2>1 DEF TypeOK, Statuses
  <2>6. \A k \in Presses \ {n} : stage'[k] = stage[k] /\ reply'[k] = reply[k] /\ linked'[k] = linked[k]
    BY <2>1 DEF TypeOK
  <2> QED
    BY <1>0, <2>1, <2>3, <2>4, <2>5, <2>6, OneRow
<1>7. CASE Fail(n)
  <2>1. /\ stage[n] \in {"created", "accepted"}
        /\ stage' = [stage EXCEPT ![n] = "done"] /\ reply' = [reply EXCEPT ![n] = "ERROR"]
        /\ UNCHANGED <<row, linked, next, hub>>
    BY <1>7 DEF Fail, Answer, rows
  <2>2. page.route.hub2 /\ ~page.route.single /\ row[n] = "PROCESSING"
    BY <1>0, <2>1 DEF RowsOK, RowOK, PageFacts, RouteFacts
  <2>3. SingleOK'
    BY <1>0, <2>2 DEF SingleOK
  <2>4. RowOK(n)'
    BY <1>0, <2>1, <2>2 DEF RowsOK, RowOK, TypeOK, Final
  <2>5. TypeOK'
    BY <1>c, <2>1 DEF TypeOK, Statuses
  <2>6. \A k \in Presses \ {n} : stage'[k] = stage[k] /\ reply'[k] = reply[k]
    BY <2>1 DEF TypeOK
  <2> QED
    BY <1>0, <2>1, <2>3, <2>4, <2>5, <2>6, OneRow
<1> QED
  BY <1>1, <1>2, <1>3, <1>4, <1>5, <1>6, <1>7 DEF Handle

(* HUB2 moves a payment it has. *)
LEMMA HubRows ==
  ASSUME TypeOK, RowsOK, NEW i \in Presses, Act(i) \/ Decide(i)
  PROVE  TypeOK' /\ RowsOK' /\ Forward
<1>1. PICK h \in {"ACTION", "SUCCESS", "FAILED"} : hub' = [hub EXCEPT ![i] = h]
  BY DEF Act, Decide, Final
<1>2. /\ hub[i] \in {"PENDING", "ACTION"} /\ presses' = presses
      /\ UNCHANGED <<page, client, stage, reply, row, linked, next>>
  BY DEF Act, Decide, request, rows, client
<1>3. \A n \in Presses : RowOK(n)'
  <2> TAKE n \in Presses
  <2>1. CASE n = i
    <3> page.route.hub2 => row[i] \notin Final
      BY <1>2 DEF RowsOK, RowOK, Final
    <3> QED
      BY <1>1, <1>2, <2>1 DEF RowsOK, RowOK, TypeOK
  <2>2. CASE n # i
    BY <1>1, <1>2, <2>2 DEF RowsOK, RowOK, TypeOK
  <2> QED
    BY <2>1, <2>2
<1>4. TypeOK'
  BY <1>1, <1>2 DEF TypeOK, HubStates, client, view, polling, history
<1>5. Forward /\ SingleOK'
  BY <1>2 DEF Forward, Open, RowsOK, SingleOK
<1> QED
  BY <1>3, <1>4, <1>5 DEF RowsOK

LEMMA WebhookRows ==
  ASSUME TypeOK, RowsOK, NEW i \in Presses, Webhook(i)
  PROVE  TypeOK' /\ RowsOK' /\ Forward
<1>1. /\ Learn(i)
      /\ UNCHANGED <<page, client, stage, reply, linked, hub>>
  BY DEF Webhook, request
<1>2. presses' = presses
  BY <1>1 DEF client
<1>3. row' \in [Presses -> Statuses] /\ next' \in [Presses -> BOOLEAN] /\ RowsOK' /\ Forward
  BY <1>1, <1>2, LearnRows
<1>4. TypeOK'
  BY <1>1, <1>3 DEF TypeOK, client, view, polling, history
<1> QED
  BY <1>3, <1>4

(* A payment followed is asked about. *)
LEMMA StatusRows ==
  ASSUME TypeOK, RowsOK, NEW i \in Presses, Status(i), UNCHANGED <<page, presses, request, hub>>
  PROVE  /\ row' \in [Presses -> Statuses] /\ next' \in [Presses -> BOOLEAN]
         /\ linked' = linked
         /\ RowsOK' /\ Forward
<1>0. UNCHANGED <<stage, reply>>
  BY DEF request
<1>1. CASE Learn(i) /\ linked' = linked
  BY <1>0, <1>1, LearnRows
<1>2. CASE UNCHANGED rows
  BY <1>0, <1>2, QuietRows DEF rows, TypeOK
<1> QED
  BY <1>1, <1>2 DEF Status, Ask, rows

-----------------------------------------------------------------------------
(* The client                                                              *)

(* What is known of a payment the page may follow. *)
LEMMA TrackedLemma ==
  ASSUME TypeOK, RowsOK, NEW i \in Presses, Tracked(i)
  PROVE  /\ i <= presses /\ stage[i] = "done" /\ row[i] # "NONE"
         /\ page.route.hub2 /\ ~page.route.single
         /\ row[i] \in Final => hub[i] = row[i]
BY PageLemma, FollowUpAssumption DEF Tracked, RowsOK, RowOK, PageFacts, RouteFacts, Presses, TypeOK

(* The screen speaks of payment a from now on. *)
Tells(a) ==
  /\ about' = a
  /\ a <= presses
  /\ screen' = "action" => Tracked(a)' /\ poll.acts
  /\ screen' = "failed" => (Open(a)' => a \in misled')
  /\ screen' = "success" =>
       /\ row'[a] = "SUCCESS" \/ (row'[a] = "PROCESSING" /\ ~page.route.hub2) \/ a \in presumed'
       /\ a = presses \/ a \in misled' \cup dismissed'

(* The histories only grow. *)
Grows == misled \subseteq misled' /\ dismissed \subseteq dismissed' /\ presumed \subseteq presumed'

(* The form can be used again. *)
Back ==
  waiting' = FALSE /\ screen' = "form" =>
    \/ ~waiting /\ screen = "form"
    \/ \A m \in Presses : m = presses /\ Open(m)' => m \in misled' \cup dismissed'

(* What is asked about, and answered, is a payment the page follows. *)
Asking ==
  /\ \A i \in timers' : i \in timers \/ Tracked(i)'
  /\ \A i \in Presses : i = ref' => ref' = ref \/ Tracked(i)'
  /\ \A r \in replies' :
       r \in replies \/ (r.of \in Presses /\ Tracked(r.of)' /\ (r.status \in Final => row'[r.of] = r.status))

(* Any step between two presses. *)
LEMMA StepLemma ==
  ASSUME Inv, TypeOK', RowsOK', Forward, Grows, Back, Asking, UNCHANGED <<page, presses>>,
         waiting' => waiting,
         UNCHANGED view \/ \E a \in Presses : Tells(a),
         ChainedOK', SteadyOK'
  PROVE  Inv'
<1>0. /\ TypeOK /\ RowsOK /\ FollowsOK /\ ViewOK /\ MisledOK /\ FailedOK /\ SuccessOK
      /\ page' = page /\ presses' = presses /\ poll' = poll
      /\ presses \in 0..MaxPresses
      /\ \A a \in Presses : a \in Nat /\ a # 0
      /\ \A a : a \in 0..MaxPresses /\ a # 0 => a \in Presses
  BY FollowUpAssumption DEF Inv, poll, TypeOK, Presses
<1>1. \A i \in Presses : Tracked(i) => Tracked(i)'
  BY <1>0 DEF Tracked, Forward
<1>2. ViewOK'
  <2>1. CASE UNCHANGED view
    BY <1>0, <2>1 DEF ViewOK, view
  <2>2. CASE \E a \in Presses : Tells(a)
    BY <1>0, <2>2 DEF ViewOK, Tells
  <2> QED
    BY <2>1, <2>2
<1>3. FollowsOK'
  <2>1. \A i \in timers' : Tracked(i)'
    BY <1>0, <1>1 DEF FollowsOK, Asking, TypeOK
  <2>2. \A i \in Presses : i = ref' => Tracked(i)'
    BY <1>0, <1>1 DEF FollowsOK, Asking
  <2>3. ASSUME NEW r \in replies' PROVE Tracked(r.of)' /\ (r.status \in Final => row'[r.of] = r.status)
    <3>1. CASE r \in replies
      <4>1. r.of \in Presses /\ Tracked(r.of) /\ (r.status \in Final => row[r.of] = r.status)
        BY <1>0, <3>1 DEF FollowsOK, TypeOK, Reply
      <4>2. Tracked(r.of)'
        BY <1>1, <4>1
      <4> QED
        BY <4>1, <4>2 DEF Forward
    <3>2. CASE r \notin replies
      BY <2>3, <3>2 DEF Asking
    <3> QED
      BY <3>1, <3>2
  <2>4. \A a \in Presses : screen' = "action" /\ a = about' => Tracked(a)' /\ poll.acts
    <3>1. CASE UNCHANGED view
      BY <1>0, <1>1, <3>1 DEF FollowsOK, view
    <3>2. ASSUME NEW a \in Presses, Tells(a) PROVE screen' = "action" => Tracked(a)' /\ poll.acts
      BY <3>2 DEF Tells
    <3>3. \A a \in Presses : Tells(a) => about' = a
      BY DEF Tells
    <3> QED
      BY <3>1, <3>2, <3>3
  <2>5. /\ ref' # 0 => ref' \in Presses
        /\ screen' = "action" => about' \in Presses
    BY <1>0, <1>2 DEF TypeOK, ViewOK
  <2> QED
    BY <1>0, <2>1, <2>2, <2>3, <2>4, <2>5 DEF FollowsOK, Tracked
<1>4. MisledOK'
  <2>1. ASSUME NEW m \in Presses, m < presses, Open(m)' PROVE m \in misled' \cup dismissed'
    BY <1>0, <2>1 DEF MisledOK, Forward, Grows
  <2>2. ASSUME NEW m \in Presses, m = presses, ~waiting', screen' = "form", Open(m)'
        PROVE  m \in misled' \cup dismissed'
    <3>1. CASE ~waiting /\ screen = "form"
      BY <1>0, <2>2, <3>1 DEF MisledOK, Forward, Grows
    <3>2. CASE ~(~waiting /\ screen = "form")
      BY <1>0, <2>2, <3>2 DEF Back, TypeOK
    <3> QED
      BY <3>1, <3>2
  <2> QED
    BY <1>0, <2>1, <2>2 DEF MisledOK
<1>5. FailedOK'
  <2>1. CASE UNCHANGED view
    <3> SUFFICES ASSUME screen' = "failed", Open(about)' PROVE about \in misled'
      BY <2>1 DEF FailedOK, Open, view
    <3>1. PICK a \in Presses : a = about /\ a = about' /\ screen = "failed"
      BY <1>0, <2>1 DEF ViewOK, view, TypeOK
    <3>2. Open(a)'
      BY <3>1 DEF Open
    <3> QED
      BY <1>0, <3>1, <3>2 DEF FailedOK, Forward, Grows
  <2>2. ASSUME NEW a \in Presses, Tells(a) PROVE FailedOK'
    BY <2>2 DEF Tells, FailedOK, Open
  <2> QED
    BY <2>1, <2>2
<1>6. SuccessOK'
  <2>1. CASE UNCHANGED view
    <3>1. screen' = screen /\ about' = about /\ (screen = "success" => about \in Presses)
      BY <1>0, <2>1 DEF ViewOK, view, TypeOK
    <3> QED
      BY <1>0, <3>1 DEF SuccessOK, Forward, Grows, Final
  <2>2. ASSUME NEW a \in Presses, Tells(a) PROVE SuccessOK'
    BY <1>0, <2>2 DEF Tells, SuccessOK
  <2> QED
    BY <2>1, <2>2
<1> QED
  BY <1>2, <1>3, <1>4, <1>5, <1>6 DEF Inv

(* The client sees nothing of what the API does. *)
LEMMA QuietClient ==
  ASSUME Inv, TypeOK', RowsOK', Forward, UNCHANGED <<page, client>>
  PROVE  Inv'
<1>1. /\ UNCHANGED <<page, screen, about, presses, waiting, ref, timers, ticks, replies, misled, dismissed, presumed>>
      /\ UNCHANGED <<view, poll>> /\ Steady' = Steady
  BY DEF client, view, polling, history, poll, Steady
<1>2. Grows /\ Back /\ Asking
  BY <1>1 DEF Grows, Back, Asking, TypeOK
<1>3. ChainedOK' /\ SteadyOK'
  BY <1>1 DEF Inv, ChainedOK, SteadyOK
<1> QED
  BY <1>1, <1>2, <1>3, StepLemma DEF TypeOK

LEMMA PressStep == ASSUME Inv, NEW n \in Presses, Press(n) PROVE Inv'
<1>0. /\ TypeOK /\ RowsOK /\ FollowsOK /\ ChainedOK /\ ViewOK /\ MisledOK
  BY DEF Inv
<1>1. /\ n = presses + 1 /\ presses' = n /\ screen = "form" /\ ~waiting
      /\ stage' = [stage EXCEPT ![n] = "sent"]
      /\ waiting' = TRUE
      /\ UNCHANGED <<page, screen, about, ref, timers, ticks, replies, misled, dismissed, presumed,
                     reply, row, linked, next, hub>>
      /\ presses \in Nat /\ n > 0 /\ n \in 0..MaxPresses
      /\ poll' = poll
  BY <1>0, FollowUpAssumption DEF Press, Enabled, rows, view, polling, history, TypeOK, Presses, poll
<1>2. TypeOK'
  BY <1>0, <1>1 DEF TypeOK
<1>3. RowsOK'
  <2>1. stage[n] = "none" /\ row[n] = "NONE" /\ hub[n] = "NONE" /\ reply[n] = "NONE"
    BY <1>0, <1>1 DEF RowsOK, RowOK
  <2>2. RowOK(n)'
    BY <1>0, <1>1, <2>1 DEF RowsOK, RowOK, TypeOK, Final
  <2>3. ASSUME NEW m \in Presses, m # n PROVE RowOK(m)'
    <3> (m > presses) <=> (m > n)
      BY <1>1, <2>3, FollowUpAssumption DEF Presses
    <3> QED
      BY <1>0, <1>1, <2>3 DEF RowsOK, RowOK, TypeOK
  <2>4. SingleOK'
    BY <1>0, <1>1 DEF RowsOK, SingleOK
  <2> QED
    BY <2>2, <2>3, <2>4 DEF RowsOK
<1>4. FollowsOK'
  BY <1>0, <1>1 DEF FollowsOK, Tracked
<1>5. ChainedOK'
  BY <1>0, <1>1 DEF ChainedOK
<1>6. ViewOK'
  BY <1>0, <1>1 DEF ViewOK
<1>7. MisledOK'
  <2>1. ASSUME NEW m \in Presses, m < n, Open(m)' PROVE m \in misled \cup dismissed
    <3>1. Open(m) /\ (m < presses \/ m = presses)
      BY <1>0, <1>1, <2>1, FollowUpAssumption DEF Open, TypeOK, Presses
    <3> QED
      BY <1>0, <1>1, <3>1 DEF MisledOK
  <2> QED
    BY <1>1, <2>1 DEF MisledOK
<1>8. FailedOK' /\ SuccessOK' /\ SteadyOK'
  BY <1>1 DEF FailedOK, SuccessOK, SteadyOK
<1> QED
  BY <1>2, <1>3, <1>4, <1>5, <1>6, <1>7, <1>8 DEF Inv

LEMMA CloseStep == ASSUME Inv, Close PROVE Inv'
<1>0. TypeOK /\ RowsOK /\ FollowsOK /\ ChainedOK /\ ViewOK /\ FailedOK
  BY DEF Inv
<1>1. /\ screen' = "form" /\ dismissed' = dismissed \cup LeftOpen
      /\ UNCHANGED <<page, about, presses, waiting, ref, ticks, misled, presumed, stage, reply, row, linked, next, hub>>
      /\ timers' = IF poll.chained THEN {} ELSE timers
      /\ replies' = IF poll.chained THEN {} ELSE replies
      /\ poll' = poll
  BY DEF Close, request, rows, poll
<1>2. TypeOK'
  BY <1>0, <1>1 DEF TypeOK, LeftOpen, Screens
<1>3. RowsOK' /\ Forward
  BY <1>0, <1>1, QuietRows
<1>4. ChainedOK' /\ SteadyOK'
  BY <1>0, <1>1 DEF ChainedOK, SteadyOK
<1>5. FollowsOK'
  <2>1. \A i : Tracked(i)' <=> Tracked(i)
    BY <1>1 DEF Tracked
  <2> QED
    BY <1>0, <1>1, <2>1 DEF FollowsOK, Tracked
<1>6. ViewOK'
  BY <1>0, <1>1 DEF ViewOK
<1>7. MisledOK'
  <2>1. \A m \in Presses : m < presses /\ Open(m)' => m \in misled' \cup dismissed'
    BY <1>1, <1>3 DEF Inv, MisledOK, Forward
  <2>2. \A m \in Presses : m = presses /\ ~waiting' /\ Open(m)' => m \in misled' \cup dismissed'
    <3> SUFFICES ASSUME NEW m \in Presses, m = presses, ~waiting', Open(m)'
                 PROVE  m \in misled' \cup dismissed'
      OBVIOUS
    <3>1. Open(m) /\ ~waiting
      BY <1>1, <1>3 DEF Forward
    <3>2. CASE screen = "failed" /\ about = m
      BY <1>0, <1>1, <3>1, <3>2 DEF FailedOK
    <3>3. CASE ~(screen = "failed" /\ about = m)
      BY <1>1, <3>1, <3>3 DEF LeftOpen
    <3> QED
      BY <3>2, <3>3
  <2> QED
    BY <1>1, <2>1, <2>2 DEF MisledOK
<1> QED
  BY <1>1, <1>2, <1>3, <1>4, <1>5, <1>6, <1>7 DEF Inv, FailedOK, SuccessOK

-----------------------------------------------------------------------------
(* The answer to the last press                                            *)

LEMMA AnsweredStep == ASSUME Inv, NEW n \in Presses, Answered(n) PROVE Inv'
<1>0. /\ TypeOK /\ RowsOK /\ FollowsOK /\ ChainedOK /\ ViewOK /\ MisledOK
      /\ PageFacts(page) /\ PollFacts(poll) /\ RowOK(n)
      /\ row[n] \in Statuses
      /\ reply[n] \in {"NONE", "ERROR", "PROCESSING", "SUCCESS", "FAILED"}
      /\ presses \in 0..MaxPresses
      /\ n \in Nat /\ n # 0
  BY PageLemma, FollowUpAssumption DEF Inv, RowsOK, TypeOK, Statuses, Presses
<1>1. /\ waiting /\ n = presses /\ stage[n] = "done" /\ waiting' = FALSE
      /\ screen' = Shown(reply[n])
      /\ misled' = IF reply[n] \in Final THEN misled ELSE Misleads(screen', n)
      /\ UNCHANGED <<page, presses, replies, dismissed, presumed, stage, reply, row, linked, next, hub>>
      /\ poll' = poll
  BY DEF Answered, request, rows, poll
<1>2. /\ screen' \in {"form", "pending", "failed", "success"}
      /\ screen' = "success" => reply[n] = "SUCCESS" \/ (reply[n] = "PROCESSING" /\ ~page.route.hub2)
      /\ screen' = "pending" => reply[n] = "PROCESSING"
      /\ screen' = "failed" /\ reply[n] \in Final => reply[n] = "FAILED"
      /\ screen' = "form" => reply[n] \notin Final
      /\ reply[n] = "PROCESSING" /\ page.follows => screen' = "pending"
  BY <1>0, <1>1 DEF Shown, PageFacts, Final
<1>3. /\ timers' \subseteq timers \cup {n}
      /\ timers' # timers \/ ref' # ref => page.follows /\ reply[n] = "PROCESSING"
      /\ ref' = ref \/ ref' = n
      /\ page.follows /\ reply[n] = "PROCESSING" => ref' = n
      /\ ticks' \in [Presses -> 0..MaxTicks]
  <2>1. CASE page.follows /\ reply[n] = "PROCESSING"
    <3>1. Follow(n)
      BY <2>1 DEF Answered
    <3>2. ticks' \in [Presses -> 0..MaxTicks]
      BY <1>0, <3>1, FollowUpAssumption DEF Follow, TypeOK
    <3> QED
      BY <2>1, <3>1, <3>2 DEF Follow
  <2>2. CASE ~(page.follows /\ reply[n] = "PROCESSING")
    BY <1>0, <2>2 DEF Answered, TypeOK
  <2> QED
    BY <2>1, <2>2
<1>4. /\ about' \in Presses
      /\ about' = n \/ (reply[n] = "SUCCESS" /\ about' \in Found(n))
  BY DEF Answered, Found
<1>5. misled \subseteq misled' /\ misled' \subseteq misled \cup {n}
  BY <1>1 DEF Misleads
<1>6. TypeOK'
  <2>1. /\ misled' \cup dismissed' \cup presumed' \subseteq Presses
        /\ screen' \in Screens /\ about' \in 0..MaxPresses
        /\ timers' \subseteq Presses /\ ref' \in 0..MaxPresses
    BY <1>0, <1>1, <1>2, <1>3, <1>4, <1>5, FollowUpAssumption DEF TypeOK, Screens, Presses
  <2> QED
    BY <1>0, <1>1, <1>3, <2>1 DEF TypeOK
<1>7. RowsOK' /\ Forward
  BY <1>0, <1>1, QuietRows
<1>8. Open(n)' <=> Open(n)
  BY <1>1 DEF Open
<1>9. Grows
  BY <1>1, <1>5 DEF Grows
<1>10. Back
  BY <1>0, <1>1, <1>2, <1>8 DEF Back, Misleads
<1>11. Asking
  <2>1. timers' # timers \/ ref' # ref => Tracked(n)'
    BY <1>1, <1>3 DEF Tracked
  <2> QED
    BY <1>1, <1>3, <2>1 DEF Asking
<1>12. ChainedOK'
  <2>1. poll.chained => timers = {} /\ replies = {}
    BY <1>0, <1>1 DEF ChainedOK
  <2>2. timers' # {} /\ timers = {} => screen' # "form"
    BY <1>2, <1>3
  <2> QED
    BY <1>1, <1>3, <2>1, <2>2 DEF ChainedOK
<1>13. SteadyOK'
  BY <1>0, <1>1, <1>2, <1>3 DEF SteadyOK
<1>14. \E a \in Presses : Tells(a)
  <2>1. CASE about' = n
    <3>1. screen' = "failed" => (Open(n)' => n \in misled')
      <4>1. CASE reply[n] \in Final
        <5> ASSUME screen' = "failed" PROVE ~Open(n)
          <6>1. reply[n] = "FAILED"
            BY <1>2, <4>1
          <6>2. row[n] \notin {"PROCESSING", "SUCCESS"}
            BY <1>0, <6>1 DEF RowOK, RowsOK, SingleOK, Final
          <6> QED
            BY <1>1, <6>2 DEF Open
        <5> QED
          BY <1>8
      <4>2. CASE reply[n] \notin Final
        BY <1>1, <1>8, <4>2 DEF Misleads
      <4> QED
        BY <4>1, <4>2
    <3>2. screen' = "success" => row[n] = "SUCCESS" \/ (row[n] = "PROCESSING" /\ ~page.route.hub2)
      <4> SUFFICES ASSUME screen' = "success"
                   PROVE  row[n] = "SUCCESS" \/ (row[n] = "PROCESSING" /\ ~page.route.hub2)
        OBVIOUS
      <4>1. CASE page.route.single
        <5>1. reply[n] = "SUCCESS" /\ row[n] \in {"NONE", "SUCCESS"}
          BY <1>0, <1>2, <4>1 DEF RowsOK, SingleOK
        <5>2. row[n] # "NONE"
          <6> SUFFICES ASSUME row[n] = "NONE" PROVE FALSE
            OBVIOUS
          <6>1. about' \in Found(n)
            BY <5>1 DEF Answered
          <6> QED
            BY <2>1, <6>1 DEF Found
        <5> QED
          BY <5>1, <5>2
      <4>2. CASE ~page.route.single
        BY <1>0, <1>2, <4>2 DEF RowOK, Final
      <4> QED
        BY <4>1, <4>2
    <3> QED
      <4>1. Tells(n)
        BY <1>0, <1>1, <1>2, <2>1, <3>1, <3>2 DEF Tells
      <4> QED
        BY <4>1
  <2>2. CASE about' # n
    <3>1. PICK m \in Presses : m = about' /\ m \in Found(n) /\ m # n /\ reply[n] = "SUCCESS"
      BY <1>4, <2>2
    <3>2. row[m] = "SUCCESS" /\ m \in Nat
      BY <1>0, <3>1, FollowUpAssumption DEF Found, RowsOK, SingleOK, Presses
    <3>3. Open(m) /\ stage[m] # "none"
      BY <1>0, <3>1, <3>2 DEF Open, RowsOK, RowOK
    <3>4. m < presses
      BY <1>0, <1>1, <3>1, <3>2, <3>3 DEF RowsOK, RowOK
    <3>5. m \in misled \cup dismissed
      BY <1>0, <3>1, <3>3, <3>4 DEF MisledOK
    <3>6. screen' = "success"
      BY <1>1, <3>1 DEF Shown
    <3> QED
      <4>1. Tells(m)
        BY <1>0, <1>1, <1>5, <3>1, <3>2, <3>4, <3>5, <3>6 DEF Tells
      <4> QED
        BY <4>1
  <2> QED
    BY <2>1, <2>2
<1> QED
  BY <1>1, <1>4, <1>6, <1>7, <1>9, <1>10, <1>11, <1>12, <1>13, <1>14, StepLemma

LEMMA CutStep == ASSUME Inv, NEW n \in Presses, CutOff(n) \/ Thrown(n) PROVE Inv'
<1>0. /\ TypeOK /\ RowsOK /\ FollowsOK /\ ChainedOK /\ ViewOK /\ MisledOK
      /\ PageFacts(page) /\ PollFacts(poll) /\ RowOK(n)
      /\ presses \in 0..MaxPresses
      /\ n \in 0..MaxPresses /\ n \in Nat
  BY PageLemma, FollowUpAssumption DEF Inv, RowsOK, TypeOK, Presses
<1>1. /\ waiting /\ n = presses /\ waiting' = FALSE /\ about' = n
      /\ UNCHANGED <<page, presses, ref, timers, ticks, replies, dismissed, presumed, reply, row, linked, next, hub>>
      /\ poll' = poll
      /\ screen' \in {"form", "failed", "unknown"}
  BY <1>0 DEF CutOff, Thrown, polling, history, request, rows, poll, PageFacts
<1>2. /\ misled \subseteq misled' /\ misled' \subseteq misled \cup {n}
      /\ stage' \in [Presses -> {"none", "sent", "created", "accepted", "done"}]
      /\ RowsOK' /\ Forward
      /\ screen' \in {"form", "failed"} /\ Open(n)' => n \in misled'
  <2>1. CASE CutOff(n)
    <3>1. misled' = Misleads(screen', n) /\ stage' = stage
      BY <2>1 DEF CutOff, request
    <3> QED
      BY <1>0, <1>1, <3>1, QuietRows DEF Misleads, Open, TypeOK
  <2>2. CASE Thrown(n)
    <3>1. stage[n] = "sent" /\ stage' = [stage EXCEPT ![n] = "done"] /\ misled' = misled
      BY <2>2 DEF Thrown, history
    <3>2. RowOK(n)' /\ SingleOK' /\ Open(n) /\ ~Open(n)'
      BY <1>0, <1>1, <3>1 DEF RowsOK, RowOK, SingleOK, TypeOK, Open, Final
    <3>3. \A m \in Presses \ {n} : stage'[m] = stage[m]
      BY <1>0, <3>1 DEF TypeOK
    <3>4. RowsOK' /\ Forward
      BY <1>0, <1>1, <3>1, <3>2, <3>3, OneRow
    <3> QED
      BY <1>0, <3>1, <3>2, <3>4 DEF TypeOK
  <2> QED
    BY <2>1, <2>2
<1>3. TypeOK'
  <2>1. misled' \cup dismissed' \cup presumed' \subseteq Presses /\ screen' \in Screens
    BY <1>0, <1>1, <1>2 DEF TypeOK, Screens
  <2> QED
    BY <1>0, <1>1, <1>2, <2>1 DEF TypeOK
<1>4. Grows /\ Back /\ Asking
  BY <1>1, <1>2 DEF Grows, Back, Asking
<1>5. ChainedOK' /\ SteadyOK'
  BY <1>0, <1>1 DEF ChainedOK, SteadyOK
<1>6. Tells(n)
  BY <1>0, <1>1, <1>2 DEF Tells
<1> QED
  BY <1>1, <1>2, <1>3, <1>4, <1>5, <1>6, StepLemma

-----------------------------------------------------------------------------
(* Following payments                                                      *)

LEMMA ShowLemma ==
  ASSUME NEW i \in Presses, NEW s, Show(i, s), i <= presses,
         s # screen =>
           /\ s = "action" => Tracked(i)' /\ poll.acts
           /\ s = "failed" => (Open(i)' => i \in misled')
           /\ s = "success" =>
                /\ row'[i] = "SUCCESS" \/ (row'[i] = "PROCESSING" /\ ~page.route.hub2) \/ i \in presumed'
                /\ i = presses \/ i \in misled' \cup dismissed'
  PROVE  UNCHANGED view \/ \E a \in Presses : Tells(a)
<1>1. CASE s = screen
  BY <1>1 DEF Show, view
<1>2. CASE s # screen
  <2> Tells(i)
    BY <1>2 DEF Show, Tells
  <2> QED
    OBVIOUS
<1> QED
  BY <1>1, <1>2

(* A payment followed, whose success is learned: it is the last one, or    *)
(* one left open; whose failure is: it is open no more.                    *)
LEMMA LateLemma ==
  ASSUME Inv, Forward, Grows, UNCHANGED <<page, presses, stage>>, NEW i \in Presses, Tracked(i)
  PROVE  /\ i <= presses
         /\ row'[i] = "SUCCESS" => i = presses \/ i \in misled' \cup dismissed'
         /\ row'[i] = "FAILED" => ~Open(i)'
<1>1. i <= presses /\ stage[i] = "done" /\ presses \in Nat /\ i \in Nat
  BY TrackedLemma, FollowUpAssumption DEF Inv, TypeOK, Presses
<1>2. row'[i] = "SUCCESS" => Open(i)
  BY DEF Open, Forward
<1>3. row'[i] = "FAILED" => ~Open(i)'
  BY <1>1 DEF Open
<1> QED
  BY <1>1, <1>2, <1>3 DEF Inv, MisledOK, Grows

(* A step that hears of payment i, and disturbs neither the form, nor the  *)
(* presses, nor what has been answered.                                    *)
LEMMA PollLeaf ==
  ASSUME Inv, TypeOK', RowsOK', Forward, Grows,
         UNCHANGED <<page, presses, waiting, stage, reply>>,
         screen' = "form" => screen = "form",
         UNCHANGED view \/ \E a \in Presses : Tells(a),
         timers' \subseteq timers,
         ref' \in {ref, 0},
         \A r \in replies' : r \in replies
           \/ (r.of \in timers /\ r.of \in Presses /\ (r.status \in Final => row'[r.of] = r.status)),
         Steady /\ page.follows /\ screen' \in {"pending", "action"} => ref' # 0
  PROVE  Inv'
<1>0. FollowsOK /\ ChainedOK /\ poll' = poll /\ Steady' = Steady
  BY DEF Inv, poll, Steady
<1>1. \A i : Tracked(i)' <=> Tracked(i)
  BY DEF Tracked
<1>2. Back
  BY DEF Back
<1>3. Asking
  <2>1. \A i \in Presses : i # 0
    BY FollowUpAssumption DEF Presses
  <2>2. \A r \in replies' : r \in replies
          \/ (r.of \in Presses /\ Tracked(r.of)' /\ (r.status \in Final => row'[r.of] = r.status))
    BY <1>0, <1>1 DEF FollowsOK
  <2>3. \A i \in Presses : i = ref' => ref' = ref \/ Tracked(i)'
    BY <2>1
  <2> QED
    BY <2>2, <2>3 DEF Asking
<1>4. ChainedOK'
  <2> SUFFICES ASSUME poll.chained
               PROVE  /\ timers' # {} \/ replies' # {} => ~waiting /\ screen' # "form"
                      /\ \A i \in timers' : i = presses
                      /\ \A r \in replies' : r.of = presses
    BY <1>0 DEF ChainedOK
  <2>1. timers' # {} \/ replies' # {} => timers # {} \/ replies # {}
    OBVIOUS
  <2>2. \A r \in replies' : r.of = presses
    BY <1>0 DEF ChainedOK
  <2> QED
    BY <1>0, <2>1, <2>2 DEF ChainedOK
<1>5. SteadyOK'
  BY <1>0 DEF SteadyOK
<1> QED
  BY <1>2, <1>3, <1>4, <1>5, StepLemma

LEMMA TickStep == ASSUME Inv, NEW i \in Presses, Tick(i) PROVE Inv'
<1>0. TypeOK /\ RowsOK /\ SteadyOK
  BY DEF Inv
<1>1. /\ i \in timers /\ ticks[i] < MaxTicks /\ ticks' = [ticks EXCEPT ![i] = @ + 1]
      /\ replies' = replies \cup {[of |-> i, status |-> row'[i], next |-> next'[i]]}
      /\ UNCHANGED <<page, screen, about, presses, waiting, ref, timers, misled, dismissed, presumed, stage, reply, hub>>
      /\ Status(i) /\ UNCHANGED <<view, request>>
  BY DEF Tick, Asks, view, history, request
<1>2. /\ row' \in [Presses -> Statuses] /\ next' \in [Presses -> BOOLEAN] /\ linked' = linked
      /\ RowsOK' /\ Forward
  BY <1>0, <1>1, StatusRows
<1>3. TypeOK'
  <2>1. ticks' \in [Presses -> 0..MaxTicks]
    <3> ticks[i] + 1 \in 0..MaxTicks
      BY <1>0, <1>1, FollowUpAssumption DEF TypeOK
    <3> QED
      BY <1>0, <1>1 DEF TypeOK
  <2>2. replies' \subseteq Reply
    <3> [of |-> i, status |-> row'[i], next |-> next'[i]] \in Reply
      BY <1>2 DEF Reply
    <3> QED
      BY <1>0, <1>1 DEF TypeOK
  <2> QED
    BY <1>0, <1>1, <1>2, <2>1, <2>2 DEF TypeOK
<1>4. Grows
  BY <1>1 DEF Grows
<1>5. \A r \in replies' : r \in replies \/ (r.of \in timers /\ r.of \in Presses /\ (r.status \in Final => row'[r.of] = r.status))
  BY <1>1
<1> QED
  BY <1>0, <1>1, <1>2, <1>3, <1>4, <1>5, PollLeaf DEF SteadyOK

(* What a reply makes of the screen. *)
LEMMA FollowingLemma ==
  ASSUME TypeOK, NEW r \in Reply, NEW step \in BOOLEAN, NEW after,
         after = GivenUp(r, Following(r, step))
  PROVE  /\ after.screen \in Screens
         /\ after.screen = "success" => screen = "success" \/ r.status = "SUCCESS"
         /\ after.screen = "failed" /\ r.status \in Final => r.status = "FAILED"
         /\ after.screen = "form" => screen = "form"
         /\ after.screen = "action" => screen = "action" \/ poll.acts
         /\ Steady => /\ r.status \in Final => after.screen \in {"success", "failed"}
                      /\ r.status \notin Final => after.screen \in {screen, "failed"}
         /\ after.stops => r.status \in Final \/ GivesUp(r.of) \/ poll.shared
<1>0. PollFacts(poll) /\ screen \in Screens
  BY PageLemma DEF TypeOK
<1>1. PICK a : a = Following(r, step)
  OBVIOUS
<1>2. /\ a.screen \in Screens
      /\ a.screen = "success" => screen = "success" \/ r.status = "SUCCESS"
      /\ a.screen = "failed" /\ r.status \in Final => r.status = "FAILED"
      /\ a.screen = "form" => screen = "form"
      /\ a.screen = "action" => screen = "action" \/ poll.acts
      /\ r.status \in Final => a.stops
      /\ Steady => /\ r.status \in Final => a.screen \in {"success", "failed"}
                   /\ r.status \notin Final => a.screen = screen
      /\ a.stops => r.status \in Final \/ poll.shared
  <2>1. CASE r.status \in Final
    <3> Following(r, step) = [screen |-> Outcome(r.status), stops |-> TRUE]
      BY <2>1 DEF Following
    <3> QED
      BY <1>0, <1>1, <2>1 DEF Outcome, PollFacts, Screens, Steady, Final
  <2>2. CASE r.status \notin Final /\ step /\ poll.acts
    <3> Following(r, step) = [screen |-> "action", stops |-> poll.halts]
      BY <2>2 DEF Following
    <3> QED
      BY <1>0, <1>1, <2>2 DEF PollFacts, Screens, Steady
  <2>3. CASE r.status \notin Final /\ ~(step /\ poll.acts)
    <3> Following(r, step) = [screen |-> Or(poll.waiting, screen), stops |-> FALSE]
      BY <2>3 DEF Following
    <3> QED
      BY <1>0, <1>1, <2>3 DEF Or, PollFacts, Screens, Steady
  <2> QED
    BY <2>1, <2>2, <2>3
<1>3. CASE ~GivesUp(r.of)
  <2> after = a
    BY <1>1, <1>3 DEF GivenUp
  <2> QED
    BY <1>2
<1>4. CASE GivesUp(r.of) /\ poll.chained /\ a.stops
  <2> after = [screen |-> a.screen, stops |-> TRUE]
    BY <1>1, <1>4 DEF GivenUp
  <2> after.screen = a.screen
    OBVIOUS
  <2> QED
    BY <1>2, <1>4
<1>5. CASE GivesUp(r.of) /\ ~(poll.chained /\ a.stops)
  <2>1. after = [screen |-> Or(poll.exhausted, a.screen), stops |-> TRUE]
    BY <1>1, <1>5 DEF GivenUp
  <2>2. after.screen = Or(poll.exhausted, a.screen)
    BY <2>1
  <2>3. r.status \in Final => poll.exhausted # "failed"
    BY <1>0, <1>2, <1>5 DEF PollFacts
  <2>4. after.screen = a.screen \/ (after.screen = poll.exhausted /\ after.screen \in {"pending", "failed"})
    BY <1>0, <2>2 DEF Or, PollFacts
  <2>5. CASE after.screen = a.screen
    BY <1>2, <1>5, <2>5
  <2>6. CASE after.screen = poll.exhausted /\ after.screen \in {"pending", "failed"}
    BY <1>5, <2>3, <2>6 DEF Screens, Steady
  <2> QED
    BY <2>4, <2>5, <2>6
<1> QED
  BY <1>3, <1>4, <1>5

LEMMA ReceiveStep == ASSUME Inv, NEW r \in replies, Receive(r) PROVE Inv'
<1>0. /\ TypeOK /\ RowsOK /\ SteadyOK /\ r \in Reply /\ r.of \in Presses /\ r.next \in BOOLEAN
      /\ Tracked(r.of) /\ (r.status \in Final => row[r.of] = r.status)
  BY DEF Inv, FollowsOK, TypeOK, Reply
<1>a. PICK step \in BOOLEAN :
        LET after == GivenUp(r, Following(r, step)) IN
        /\ Show(r.of, after.screen)
        /\ timers' = timers \ (IF after.stops THEN Stopped(r.of) ELSE {})
  BY <1>0 DEF Receive
<1>b. PICK after : after = GivenUp(r, Following(r, step))
  OBVIOUS
<1>1. /\ after = GivenUp(r, Following(r, step))
      /\ Show(r.of, after.screen)
      /\ timers' = timers \ (IF after.stops THEN Stopped(r.of) ELSE {})
  BY <1>a, <1>b
<1>2. /\ replies' = replies \ {r}
      /\ ref' = IF r.status \in Final THEN 0 ELSE ref
      /\ misled' = IF r.status \in Final \/ screen' = screen THEN misled ELSE Misleads(screen', r.of)
      /\ UNCHANGED <<page, presses, waiting, ticks, dismissed, presumed, stage, reply, row, linked, next, hub>>
      /\ screen' = after.screen
      /\ about' \in {about, r.of}
      /\ timers' \subseteq timers
  BY <1>1 DEF Receive, request, rows, Show
<1>3. /\ after.screen \in Screens
      /\ after.screen = "success" => screen = "success" \/ r.status = "SUCCESS"
      /\ after.screen = "failed" /\ r.status \in Final => r.status = "FAILED"
      /\ after.screen = "form" => screen = "form"
      /\ after.screen = "action" => screen = "action" \/ poll.acts
      /\ Steady => /\ r.status \in Final => after.screen \in {"success", "failed"}
                   /\ r.status \notin Final => after.screen \in {screen, "failed"}
  BY <1>0, <1>1, FollowingLemma
<1>4. misled \subseteq misled' /\ misled' \subseteq misled \cup {r.of}
  BY <1>2 DEF Misleads
<1>5. TypeOK'
  <2>1. /\ misled' \cup dismissed' \cup presumed' \subseteq Presses
        /\ about' \in 0..MaxPresses /\ ref' \in 0..MaxPresses /\ screen' \in Screens
    BY <1>0, <1>2, <1>3, <1>4, FollowUpAssumption DEF TypeOK, Presses
  <2> QED
    BY <1>0, <1>2, <2>1 DEF TypeOK
<1>6. RowsOK' /\ Forward /\ Grows
  BY <1>0, <1>2, <1>4, QuietRows DEF Grows
<1>7. UNCHANGED view \/ \E a \in Presses : Tells(a)
  <2>1. /\ r.of <= presses
        /\ row'[r.of] = "SUCCESS" => r.of = presses \/ r.of \in misled' \cup dismissed'
        /\ row'[r.of] = "FAILED" => ~Open(r.of)'
    BY <1>0, <1>2, <1>6, LateLemma
  <2>2. Open(r.of)' <=> Open(r.of)
    BY <1>2 DEF Open
  <2>3. ASSUME after.screen # screen, after.screen = "failed" PROVE Open(r.of)' => r.of \in misled'
    <3>1. CASE r.status \in Final
      BY <1>0, <1>2, <1>3, <2>1, <2>3, <3>1
    <3>2. CASE r.status \notin Final
      BY <1>2, <2>2, <2>3, <3>2 DEF Misleads
    <3> QED
      BY <3>1, <3>2
  <2>4. ASSUME after.screen # screen, after.screen = "success"
        PROVE  row'[r.of] = "SUCCESS" /\ (r.of = presses \/ r.of \in misled' \cup dismissed')
    BY <1>0, <1>2, <1>3, <2>1, <2>4 DEF Final
  <2>5. ASSUME after.screen # screen, after.screen = "action" PROVE Tracked(r.of)' /\ poll.acts
    BY <1>0, <1>2, <1>3, <2>5 DEF Tracked
  <2> QED
    BY <1>0, <1>1, <2>1, <2>3, <2>4, <2>5, ShowLemma
<1>8. Steady /\ page.follows /\ screen' \in {"pending", "action"} => ref' # 0
  BY <1>0, <1>2, <1>3 DEF SteadyOK
<1>9. screen' = "form" => screen = "form"
  BY <1>2, <1>3
<1> QED
  BY <1>2, <1>5, <1>6, <1>7, <1>8, <1>9, PollLeaf

LEMMA LoseStep == ASSUME Inv, NEW r \in replies, LoseReply(r) PROVE Inv'
<1>0. /\ TypeOK /\ RowsOK /\ SteadyOK /\ ChainedOK /\ PollFacts(poll)
      /\ r \in Reply /\ r.of \in Presses /\ Tracked(r.of)
      /\ screen \in Screens
  BY PageLemma DEF Inv, FollowsOK, TypeOK, Reply
<1>1. PICK after : /\ after = GivenUp(r, [screen |-> screen, stops |-> FALSE])
                   /\ \E s \in {after.screen} \cup (IF poll.chained /\ GivesUp(r.of) THEN {"success"} ELSE {}) :
                        Show(r.of, s)
                   /\ timers' = timers \ (IF after.stops THEN Stopped(r.of) ELSE {})
  BY DEF LoseReply
<1>2. after.screen \in {screen} \cup ({poll.exhausted} \ {"same"})
  <2>1. CASE GivesUp(r.of)
    <3>1. after = [screen |-> Or(poll.exhausted, screen), stops |-> TRUE]
      BY <1>1, <2>1 DEF GivenUp
    <3> QED
      BY <3>1 DEF Or
  <2>2. CASE ~GivesUp(r.of)
    BY <1>1, <2>2 DEF GivenUp
  <2> QED
    BY <2>1, <2>2
<1>3. PICK s : /\ Show(r.of, s)
               /\ s = screen \/ s \in {"pending", "failed"} \/ (s = "success" /\ poll.chained)
               /\ s = "pending" /\ s # screen => poll.exhausted = "pending"
  BY <1>0, <1>1, <1>2 DEF PollFacts
<1>4. /\ replies' = replies \ {r}
      /\ misled' = IF screen' = screen THEN misled ELSE Misleads(screen', r.of)
      /\ presumed' = IF screen' = "success" /\ screen # "success" THEN presumed \cup {r.of} ELSE presumed
      /\ UNCHANGED <<page, presses, waiting, ref, ticks, dismissed, stage, reply, row, linked, next, hub>>
      /\ screen' = s
      /\ about' \in {about, r.of}
      /\ timers' \subseteq timers
  BY <1>1, <1>3 DEF LoseReply, request, rows, Show
<1>5. misled \subseteq misled' /\ misled' \subseteq misled \cup {r.of}
  BY <1>4 DEF Misleads
<1>6. TypeOK'
  <2>1. /\ misled' \cup dismissed' \cup presumed' \subseteq Presses
        /\ about' \in 0..MaxPresses /\ screen' \in Screens
    BY <1>0, <1>3, <1>4, <1>5, FollowUpAssumption DEF TypeOK, Presses, Screens
  <2> QED
    BY <1>0, <1>4, <2>1 DEF TypeOK
<1>7. RowsOK' /\ Forward /\ Grows
  BY <1>0, <1>4, <1>5, QuietRows DEF Grows
<1>8. UNCHANGED view \/ \E a \in Presses : Tells(a)
  <2>1. r.of <= presses
    BY <1>0, <1>4, <1>7, LateLemma
  <2>2. Open(r.of)' <=> Open(r.of)
    BY <1>4 DEF Open
  <2>3. s # screen /\ s = "failed" => (Open(r.of)' => r.of \in misled')
    BY <1>4, <2>2 DEF Misleads
  <2>4. s # screen /\ s = "success" => r.of \in presumed' /\ r.of = presses
    BY <1>0, <1>3, <1>4 DEF ChainedOK
  <2>5. s # screen => s # "action"
    BY <1>3
  <2> QED
    BY <1>0, <1>3, <2>1, <2>3, <2>4, <2>5, ShowLemma
<1>9. Steady /\ page.follows /\ screen' \in {"pending", "action"} => ref' # 0
  BY <1>0, <1>3, <1>4 DEF SteadyOK, Steady
<1>10. screen' = "form" => screen = "form"
  BY <1>3, <1>4
<1> QED
  BY <1>4, <1>6, <1>7, <1>8, <1>9, <1>10, PollLeaf

LEMMA GiveUpStep == ASSUME Inv, NEW i \in Presses, GiveUp(i) PROVE Inv'
<1>0. TypeOK /\ RowsOK /\ PollFacts(poll) /\ Tracked(i)
  BY PageLemma DEF Inv, GiveUp, FollowsOK
<1>1. /\ poll.exhausted = "pending" /\ Show(i, "pending")
      /\ timers' = timers \ Stopped(i)
      /\ UNCHANGED <<page, presses, waiting, ref, ticks, replies, misled, dismissed, presumed,
                     stage, reply, row, linked, next, hub>>
      /\ screen' = "pending" /\ about' \in {about, i}
  BY <1>0 DEF GiveUp, Or, PollFacts, request, rows, history, Show
<1>2. TypeOK'
  <2>1. about' \in 0..MaxPresses
    BY <1>0, <1>1, FollowUpAssumption DEF TypeOK, Presses
  <2> QED
    BY <1>0, <1>1, <2>1 DEF TypeOK, Screens
<1>3. RowsOK' /\ Forward /\ Grows
  BY <1>0, <1>1, QuietRows DEF Grows
<1>4. i <= presses
  BY <1>0, <1>1, <1>3, LateLemma
<1>5. UNCHANGED view \/ \E a \in Presses : Tells(a)
  BY <1>1, <1>4, ShowLemma
<1> QED
  BY <1>1, <1>2, <1>3, <1>5, PollLeaf DEF Steady

LEMMA CheckStep == ASSUME Inv, CheckOnce PROVE Inv'
<1>0. PICK i \in Presses : /\ i = ref /\ Tracked(i) /\ TypeOK /\ RowsOK /\ PollFacts(poll)
                           /\ poll.acts /\ screen \in Screens
  BY PageLemma, FollowUpAssumption DEF Inv, FollowsOK, CheckOnce, TypeOK, Presses, PollFacts
<1>1. /\ Status(i)
      /\ UNCHANGED <<page, presses, waiting, ticks, replies, misled, dismissed, presumed, stage, reply, hub, request>>
      /\ \/ /\ row'[i] \in Final /\ Show(i, Outcome(row'[i]))
            /\ timers' = timers \ {i} /\ ref' = 0
         \/ UNCHANGED <<view, timers, ref>>
  BY <1>0 DEF CheckOnce, request, history
<1>2. /\ row' \in [Presses -> Statuses] /\ next' \in [Presses -> BOOLEAN] /\ linked' = linked
      /\ RowsOK' /\ Forward
  BY <1>0, <1>1, StatusRows
<1>3. Grows
  BY <1>1 DEF Grows
<1>4. /\ i <= presses
      /\ row'[i] = "SUCCESS" => i = presses \/ i \in misled' \cup dismissed'
      /\ row'[i] = "FAILED" => ~Open(i)'
  BY <1>0, <1>1, <1>2, <1>3, LateLemma
<1>5. CASE row'[i] \in Final /\ Show(i, Outcome(row'[i])) /\ timers' = timers \ {i} /\ ref' = 0
  <2>1. /\ Outcome(row'[i]) \in {"success", "failed", "pending"}
        /\ Outcome(row'[i]) = "success" => row'[i] = "SUCCESS"
        /\ Outcome(row'[i]) = "failed" => row'[i] = "FAILED"
    BY <1>0, <1>5 DEF Outcome, PollFacts, Final
  <2>2. UNCHANGED view \/ \E a \in Presses : Tells(a)
    BY <1>4, <1>5, <2>1, ShowLemma
  <2>3. screen' \in {"success", "failed", "pending"} /\ about' \in {about, i}
    BY <1>5, <2>1 DEF Show
  <2>4. TypeOK'
    <3>1. about' \in 0..MaxPresses /\ screen' \in Screens /\ 0 \in 0..MaxPresses
      BY <1>0, <2>3, FollowUpAssumption DEF TypeOK, Presses, Screens
    <3> QED
      BY <1>0, <1>1, <1>2, <1>5, <3>1 DEF TypeOK
  <2> QED
    BY <1>0, <1>1, <1>2, <1>3, <1>5, <2>2, <2>3, <2>4, PollLeaf DEF Steady
<1>6. CASE UNCHANGED <<view, timers, ref>>
  <2>1. screen' = screen /\ about' = about
    BY <1>6 DEF view
  <2>2. TypeOK'
    BY <1>0, <1>1, <1>2, <1>6, <2>1 DEF TypeOK
  <2> QED
    BY <1>0, <1>1, <1>2, <1>3, <1>6, <2>1, <2>2, PollLeaf DEF Steady
<1> QED
  BY <1>1, <1>5, <1>6

(* A step is only shown of a payment followed, on a page that shows steps. *)
LEMMA ActionLemma ==
  ASSUME Inv, NEW i \in Presses, screen = "action", i \in {about, ref}
  PROVE  Tracked(i) /\ poll.acts /\ ~poll.chained /\ i <= presses
<1>1. Tracked(i) /\ poll.acts /\ ~poll.chained
  BY PageLemma, FollowUpAssumption DEF Inv, FollowsOK, PollFacts, Presses
<1> QED
  BY <1>1, TrackedLemma DEF Inv

LEMMA EnterStep == ASSUME Inv, NEW i \in Presses, EnterCode(i) PROVE Inv'
<1>0. /\ TypeOK /\ RowsOK /\ PollFacts(poll)
      /\ screen = "action" /\ Tracked(i) /\ poll.acts /\ ~poll.chained /\ i <= presses
  BY PageLemma, ActionLemma DEF Inv, EnterCode
<1>1. /\ Follow(i) /\ Show(i, poll.entered)
      /\ dismissed' = IF screen' = "form" THEN dismissed \cup LeftOpen ELSE dismissed
      /\ UNCHANGED <<page, presses, waiting, replies, misled, presumed, stage, reply, row, linked, next, hub>>
      /\ screen' = poll.entered /\ about' \in {about, i}
      /\ poll' = poll
  BY DEF EnterCode, request, rows, Show, poll
<1>2. /\ timers' \subseteq timers \cup {i} /\ ref' = i /\ ticks' = [ticks EXCEPT ![i] = 0]
  BY <1>1 DEF Follow
<1>3. TypeOK'
  <2>1. /\ about' \in 0..MaxPresses /\ ref' \in 0..MaxPresses /\ screen' \in Screens
        /\ misled' \cup dismissed' \cup presumed' \subseteq Presses
    BY <1>0, <1>1, <1>2, FollowUpAssumption DEF TypeOK, Presses, Screens, PollFacts, LeftOpen
  <2>2. ticks' \in [Presses -> 0..MaxTicks]
    BY <1>0, <1>2, FollowUpAssumption DEF TypeOK
  <2> QED
    BY <1>0, <1>1, <1>2, <2>1, <2>2 DEF TypeOK
<1>4. RowsOK' /\ Forward
  BY <1>0, <1>1, QuietRows
<1>5. Grows
  BY <1>1 DEF Grows
<1>6. Tracked(i)'
  BY <1>0, <1>1 DEF Tracked
<1>7. Asking
  BY <1>1, <1>2, <1>6 DEF Asking
<1>8. Back
  <2> SUFFICES ASSUME waiting' = FALSE, screen' = "form", NEW m \in Presses, m = presses, Open(m)'
               PROVE  m \in misled' \cup dismissed'
    BY DEF Back
  <2>1. Open(m)
    BY <1>4 DEF Forward
  <2> QED
    BY <1>0, <1>1, <2>1 DEF LeftOpen
<1>9. ChainedOK' /\ SteadyOK'
  BY <1>0, <1>1 DEF ChainedOK, SteadyOK, Steady
<1>10. UNCHANGED view \/ \E a \in Presses : Tells(a)
  BY <1>0, <1>1, <1>6, ShowLemma DEF PollFacts
<1> QED
  BY <1>1, <1>3, <1>4, <1>5, <1>7, <1>8, <1>9, <1>10, StepLemma

LEMMA RefusedStep == ASSUME Inv, NEW i \in Presses, CodeRefused(i) PROVE Inv'
<1>0. /\ TypeOK /\ RowsOK /\ PollFacts(poll)
      /\ screen = "action" /\ Tracked(i) /\ poll.acts /\ i <= presses
  BY PageLemma, ActionLemma DEF Inv, CodeRefused
<1>1. /\ screen' = "failed" /\ Show(i, "failed") /\ misled' = Misleads("failed", i)
      /\ UNCHANGED <<page, presses, waiting, ref, timers, ticks, replies, dismissed, presumed,
                     stage, reply, row, linked, next, hub>>
      /\ about' \in {about, i}
  BY <1>0 DEF CodeRefused, PollFacts, Show, polling, request, rows
<1>2. misled \subseteq misled' /\ misled' \subseteq misled \cup {i} /\ (Open(i)' => i \in misled')
  BY <1>1 DEF Misleads, Open
<1>3. TypeOK'
  <2>1. about' \in 0..MaxPresses /\ screen' \in Screens /\ misled' \cup dismissed' \cup presumed' \subseteq Presses
    BY <1>0, <1>1, <1>2, FollowUpAssumption DEF TypeOK, Presses, Screens
  <2> QED
    BY <1>0, <1>1, <2>1 DEF TypeOK
<1>4. RowsOK' /\ Forward /\ Grows
  BY <1>0, <1>1, <1>2, QuietRows DEF Grows
<1>5. UNCHANGED view \/ \E a \in Presses : Tells(a)
  BY <1>0, <1>1, <1>2, ShowLemma
<1> QED
  BY <1>1, <1>3, <1>4, <1>5, PollLeaf

-----------------------------------------------------------------------------
(* The invariant                                                           *)

LEMMA InitInv == Init => Inv
<1> SUFFICES ASSUME Init PROVE Inv
  OBVIOUS
<1>1. TypeOK
  <2>1. presses \in 0..MaxPresses /\ about \in 0..MaxPresses /\ ref \in 0..MaxPresses
    BY FollowUpAssumption DEF Init
  <2>2. ticks \in [Presses -> 0..MaxTicks]
    BY FollowUpAssumption DEF Init
  <2>3. /\ stage \in [Presses -> {"none", "sent", "created", "accepted", "done"}]
        /\ reply \in [Presses -> {"NONE", "ERROR"} \cup Statuses]
        /\ row \in [Presses -> Statuses]
        /\ linked \in [Presses -> BOOLEAN] /\ next \in [Presses -> BOOLEAN]
        /\ hub \in [Presses -> HubStates]
    BY DEF Init, Statuses, HubStates
  <2> QED
    BY <2>1, <2>2, <2>3 DEF Init, TypeOK, Screens
<1>2. RowsOK
  BY FollowUpAssumption DEF Init, RowsOK, RowOK, SingleOK, Presses, Final
<1>3. FollowsOK /\ ChainedOK /\ ViewOK
  BY DEF Init, FollowsOK, ChainedOK, ViewOK
<1>4. \A m \in Presses : ~Open(m)
  BY DEF Init, Open
<1>5. MisledOK /\ FailedOK /\ SuccessOK /\ SteadyOK
  BY <1>4 DEF Init, MisledOK, FailedOK, SuccessOK, SteadyOK
<1> QED
  BY <1>1, <1>2, <1>3, <1>5 DEF Inv

LEMMA NextInv == Inv /\ [Next]_vars => Inv'
<1> SUFFICES ASSUME Inv, [Next]_vars PROVE Inv'
  OBVIOUS
<1>0. TypeOK /\ RowsOK
  BY DEF Inv
<1>1. ASSUME NEW n \in Presses, Press(n) \/ Answered(n) \/ CutOff(n) \/ Thrown(n) PROVE Inv'
  BY <1>1, PressStep, AnsweredStep, CutStep
<1>2. ASSUME NEW n \in Presses, Handle(n) PROVE Inv'
  <2> UNCHANGED <<page, client>>
    BY <1>2 DEF Handle, Replay, Refuse, Execute, Create, Accepted, Link, Fail
  <2> QED
    BY <1>0, <1>2, HandleRows, QuietClient
<1>3. ASSUME NEW i \in Presses, Act(i) \/ Decide(i) PROVE Inv'
  <2> UNCHANGED <<page, client>>
    BY <1>3 DEF Act, Decide
  <2> QED
    BY <1>0, <1>3, HubRows, QuietClient
<1>4. ASSUME NEW i \in Presses, Webhook(i) PROVE Inv'
  <2> UNCHANGED <<page, client>>
    BY <1>4 DEF Webhook
  <2> QED
    BY <1>0, <1>4, WebhookRows, QuietClient
<1>5. ASSUME NEW i \in Presses, Tick(i) \/ GiveUp(i) \/ EnterCode(i) \/ CodeRefused(i) PROVE Inv'
  BY <1>5, TickStep, GiveUpStep, EnterStep, RefusedStep
<1>6. ASSUME NEW r \in replies, Receive(r) \/ LoseReply(r) PROVE Inv'
  BY <1>6, ReceiveStep, LoseStep
<1>7. CASE Close \/ CheckOnce
  BY <1>7, CloseStep, CheckStep
<1>8. CASE UNCHANGED vars
  <2>1. UNCHANGED <<page, client, stage, reply, row, linked, next, hub>> /\ presses' = presses
    BY <1>8 DEF vars, client, request, rows
  <2>2. TypeOK'
    BY <1>0, <2>1 DEF TypeOK, client, view, polling, history
  <2>3. RowsOK' /\ Forward
    BY <1>0, <2>1, QuietRows
  <2> QED
    BY <2>1, <2>2, <2>3, QuietClient
<1> QED
  BY <1>1, <1>2, <1>3, <1>4, <1>5, <1>6, <1>7, <1>8 DEF Next

LEMMA Invariance == Spec => []Inv
<1>1. Init => Inv
  BY InitInv
<1>2. Inv /\ [Next]_vars => Inv'
  BY NextInv
<1> QED
  BY <1>1, <1>2, PTL DEF Spec

-----------------------------------------------------------------------------
(* Theorems                                                                *)

(* Every variable keeps its type, on any page. *)
THEOREM TypeCorrect == Spec => []TypeOK
<1>1. Inv => TypeOK
  BY DEF Inv
<1> QED
  BY <1>1, Invariance, PTL

(* The forms and the routes: on every page, for any number of presses and  *)
(* of replies it waits for, an intention is executed a second time only if *)
(* the client was told of an error or of a failure nobody had decided, or  *)
(* went back to the form by itself, while the first payment was open; and  *)
(* a card is never linked twice.                                           *)
THEOREM ExecutedOnce == Spec => []OneExecution
<1>1. ASSUME Inv PROVE OneExecution
  <2> SUFFICES ASSUME NEW m \in Presses, NEW n \in Presses, m < n, Executed(m), Executed(n)
               PROVE  m \in misled \cup dismissed /\ ~page.route.single
    BY DEF OneExecution
  <2>1. /\ row[m] # "NONE" /\ row[n] # "NONE" /\ Open(m) /\ n <= presses
    BY <1>1, FollowUpAssumption DEF Inv, RowsOK, RowOK, Executed, Open, TypeOK, Statuses, Final, Presses
  <2>2. ~page.route.single
    BY <1>1, <2>1, FollowUpAssumption DEF Inv, RowsOK, SingleOK, Presses
  <2>3. m < presses
    BY <1>1, <2>1, FollowUpAssumption DEF Presses, Inv, TypeOK
  <2> QED
    BY <1>1, <2>1, <2>2, <2>3 DEF Inv, MisledOK
<1> QED
  BY <1>1, Invariance, PTL

(* The pages: a screen of success or of failure is true of the payment it  *)
(* speaks of, whatever the order of the replies and whichever timers still *)
(* run, but for the clients that are told of an error and the page that    *)
(* believes its own address.                                               *)
THEOREM TrueScreens == Spec => []ScreensAreTrue
<1>1. ASSUME Inv PROVE ScreensAreTrue
  <2>1. screen \in {"success", "failed"} => about \in Presses
    BY <1>1, FollowUpAssumption DEF Inv, ViewOK, TypeOK, Presses
  <2>2. about # 0 /\ about \in Presses /\ ~Open(about) => row[about] \in {"NONE", "FAILED"}
    BY <1>1 DEF Inv, TypeOK, Statuses, Open
  <2>3. \A a \in Presses : a # 0
    BY FollowUpAssumption DEF Presses
  <2> QED
    BY <1>1, <2>1, <2>2, <2>3 DEF Inv, FailedOK, SuccessOK, SteadyOK, Steady, ScreensAreTrue
<1> QED
  BY <1>1, Invariance, PTL

(* pollTransactionStatus and its like: the timer of a payment whose end is *)
(* not known stops only when it gives up or the page is left, but on the   *)
(* pages where one reference stands for all timers.                        *)
THEOREM TimersStop == Spec => TimersRunOn
<1>1. ASSUME Inv, [Next]_vars, NEW i \in timers \ timers'
      PROVE  row[i] \in Final \/ ticks[i] = MaxTicks \/ poll.chained \/ poll.shared
  <2>0. TypeOK /\ PollFacts(poll) /\ FollowsOK
    BY <1>1, PageLemma DEF Inv
  <2>1. ASSUME NEW n \in Presses, Follow(n) PROVE poll.shared
    BY <1>1, <2>0, <2>1 DEF Follow, PollFacts
  <2>2. ASSUME NEW n \in Presses, Press(n) \/ Handle(n) \/ CutOff(n) \/ Thrown(n) \/ Act(n) \/ Decide(n)
                                  \/ Webhook(n) \/ Tick(n) \/ CodeRefused(n)
        PROVE  FALSE
    BY <1>1, <2>2 DEF Press, Handle, Replay, Refuse, Execute, Create, Accepted, Link, Fail, CutOff, Thrown,
       Act, Decide, Webhook, Tick, CodeRefused, client, polling
  <2>3. ASSUME NEW n \in Presses, Answered(n) PROVE poll.shared
    BY <1>1, <2>1, <2>3 DEF Answered
  <2>4. ASSUME NEW n \in Presses, EnterCode(n) PROVE poll.shared
    BY <2>1, <2>4 DEF EnterCode
  <2>5. ASSUME NEW n \in Presses, GiveUp(n) PROVE ticks[i] = MaxTicks \/ poll.shared
    BY <1>1, <2>5 DEF GiveUp, Stopped
  <2>6. ASSUME NEW r \in replies, Receive(r) PROVE row[i] \in Final \/ ticks[i] = MaxTicks \/ poll.shared
    <3>1. r \in Reply /\ r.next \in BOOLEAN /\ (r.status \in Final => row[r.of] = r.status)
      BY <2>0, <2>6 DEF FollowsOK, TypeOK, Reply
    <3>a. PICK step \in BOOLEAN :
            LET after == GivenUp(r, Following(r, step)) IN
            timers' = timers \ (IF after.stops THEN Stopped(r.of) ELSE {})
      BY <2>6, <3>1 DEF Receive
    <3>b. PICK after : after = GivenUp(r, Following(r, step))
      OBVIOUS
    <3>2. /\ after = GivenUp(r, Following(r, step))
          /\ timers' = timers \ (IF after.stops THEN Stopped(r.of) ELSE {})
      BY <3>a, <3>b
    <3>3. after.stops => r.status \in Final \/ GivesUp(r.of) \/ poll.shared
      BY <2>0, <3>1, <3>2, FollowingLemma
    <3>4. after.stops /\ i \in Stopped(r.of)
      BY <1>1, <3>2
    <3> QED
      BY <3>1, <3>3, <3>4 DEF Stopped, GivesUp
  <2>7. ASSUME NEW r \in replies, LoseReply(r) PROVE ticks[i] = MaxTicks \/ poll.shared
    <3>1. PICK after :
            /\ after = GivenUp(r, [screen |-> screen, stops |-> FALSE])
            /\ timers' = timers \ (IF after.stops THEN Stopped(r.of) ELSE {})
      BY <2>7 DEF LoseReply
    <3>2. after.stops /\ i \in Stopped(r.of)
      BY <1>1, <3>1
    <3>3. GivesUp(r.of)
      BY <3>1, <3>2 DEF GivenUp
    <3> QED
      BY <3>2, <3>3 DEF Stopped, GivesUp
  <2>8. CASE Close
    BY <1>1, <2>8 DEF Close, poll
  <2>9. CASE CheckOnce
    BY <2>0, <2>9 DEF CheckOnce, PollFacts
  <2>10. CASE UNCHANGED vars
    BY <1>1, <2>10 DEF vars, client, polling
  <2> QED
    BY <1>1, <2>2, <2>3, <2>4, <2>5, <2>6, <2>7, <2>8, <2>9, <2>10 DEF Next
<1>2. Inv /\ [Next]_vars =>
        [\A i \in timers \ timers' :
           \/ row[i] \in Final
           \/ ticks[i] = MaxTicks
           \/ poll.chained \/ poll.shared]_vars
  BY <1>1
<1> QED
  BY <1>2, Invariance, PTL DEF Spec, TimersRunOn
=============================================================================
