------------------------------ MODULE FollowUp ------------------------------
(***************************************************************************)
(* What a client does about one intention, and what it is told.  A press   *)
(* of the button sends one request; the answer, or its absence, chooses a  *)
(* screen; a payment HUB2 decides later is followed by a timer that asks   *)
(* for its status; the client closes a notice and presses again, with the  *)
(* earlier timer still running.  Meanwhile HUB2 decides, and the row       *)
(* learns of it or not.                                                    *)
(*                                                                         *)
(* Every page of the applications is a value of Page: which route it       *)
(* calls, and which screen it makes of what happens.  Limits, codes and    *)
(* sessions are in Accounts; what a conclusion does to money, when it      *)
(* throws, and the sweep that makes up for webhooks, in Settlement.        *)
(***************************************************************************)
EXTENDS Integers, Sequences, FiniteSets

CONSTANTS
  MaxPresses,  \* bound: presses of the button
  MaxTicks,    \* bound: replies a timer waits for before it gives up
  MaxReplies,  \* bound: replies to polls on their way at a time
  InUse        \* the pages of an instance

Presses == 1..MaxPresses

-----------------------------------------------------------------------------
(* The routes of the API *)

(* single: a second execution finds the first; answers: the statuses it    *)
(* may answer; hub2: HUB2 decides the outcome; asks: the route that gives  *)
(* the status asks HUB2 first.  (A key the client made for one call is     *)
(* sent with no other, so that it has no part here.)                       *)
Route == [single : BOOLEAN, answers : SUBSET {"SUCCESS", "FAILED", "PROCESSING"},
          hub2 : BOOLEAN, asks : BOOLEAN]

Immediate(answers) ==
  [single |-> FALSE, answers |-> answers, hub2 |-> FALSE, asks |-> FALSE]

AtHub2(asks) ==
  [single |-> FALSE, answers |-> {"PROCESSING"}, hub2 |-> TRUE, asks |-> asks]

Transfer == Immediate({"SUCCESS"})
FundRetailer == Immediate({"SUCCESS"})

(* The card is ACTIVE from then on, and the phone of the owner is taken. *)
LinkQrToNewMerchant == [Immediate({"SUCCESS"}) EXCEPT !.single = TRUE]

PurchaseAirtime == Immediate({"SUCCESS", "FAILED"})
PurchaseGiftCard == Immediate({"SUCCESS", "FAILED"})
PayUtilityBill == Immediate({"SUCCESS", "FAILED", "PROCESSING"})

InitiateTopup == AtHub2(TRUE)
SendToExternalAccount == AtHub2(TRUE)
PurchaseAirtimeFromMobileMoney == AtHub2(TRUE)
CollectFromExternal == AtHub2(TRUE)

(* Its status routes, public and for merchants, only read the row. *)
DebitDirect == AtHub2(FALSE)

-----------------------------------------------------------------------------
(* How pages follow a payment *)

(* The form, possibly with an error on it; a notice that it goes on; a     *)
(* step the client must take; an outcome; or "unknown".                    *)
Screens == {"form", "pending", "action", "success", "failed", "unknown"}

(* failed: the screen for FAILED; waiting: for a reply that brings nothing *)
(* new, "same" for none; acts: an awaited step is shown; halts: and stops  *)
(* the timer; gives up by a reply or by a tick, leaving `exhausted`;       *)
(* refused, entered: the screens when a code is refused or taken; shared:  *)
(* one reference for all timers, so that to stop "the" timer stops the     *)
(* newest; restarts: to start one stops that one; chained: one request at  *)
(* a time; checks: back in the foreground the page asks at once.           *)
Poll == [failed : Screens, waiting : Screens \cup {"same"}, acts : BOOLEAN,
         halts : BOOLEAN, byTick : BOOLEAN, exhausted : Screens \cup {"same"},
         refused : Screens \cup {"same"}, entered : Screens, shared : BOOLEAN,
         restarts : BOOLEAN, chained : BOOLEAN, checks : BOOLEAN]

(* A timer of its own for each payment.  A step is shown beside the form,  *)
(* which is all that is left when its code has been taken.                 *)
WebPolling ==
  [failed |-> "failed", waiting |-> "same", acts |-> TRUE, halts |-> FALSE,
   byTick |-> FALSE, exhausted |-> "same", refused |-> "failed", entered |-> "form",
   shared |-> FALSE, restarts |-> FALSE, chained |-> FALSE, checks |-> FALSE]

NoPolling == [WebPolling EXCEPT !.acts = FALSE, !.refused = "same"]

PayerPolling == WebPolling
TopupPolling == WebPolling
RechargerPolling == WebPolling
EnvoyerPolling == NoPolling

(* A failure is told with the colours of a pending payment. *)
EncaisserPolling ==
  [WebPolling EXCEPT !.failed = "pending", !.refused = "same", !.entered = "pending"]

(* The public checkout: the screen is rewritten by every reply, and the    *)
(* reference to a timer is overwritten while it runs.                      *)
CheckoutPolling ==
  [WebPolling EXCEPT !.waiting = "pending", !.halts = TRUE, !.byTick = TRUE,
     !.exhausted = "pending", !.refused = "same", !.entered = "pending", !.shared = TRUE]

(* The page a card payment comes back to: no outcome in time is a failure, *)
(* or, when the last request was cut, what the address of the page says.   *)
RetourPolling ==
  [NoPolling EXCEPT !.exhausted = "failed", !.chained = TRUE]

(* The mobile application: giving up rewrites the screen. *)
MobilePolling ==
  [WebPolling EXCEPT !.exhausted = "pending", !.entered = "action", !.shared = TRUE,
     !.restarts = TRUE, !.checks = TRUE]

MobileTopupPolling == MobilePolling
MobileSendPolling == [NoPolling EXCEPT !.shared = TRUE, !.restarts = TRUE]

-----------------------------------------------------------------------------
(* The pages *)

(* processing: the screen for an answer PROCESSING; refused: for an error, *)
(* a network cut included, which apiFetch makes an ApiError; thrown: for   *)
(* anything else thrown, as when the session cannot be renewed; back: the  *)
(* screens that lead back to the form.                                     *)
Page == [route : Route, processing : Screens, refused : Screens, thrown : Screens,
         back : SUBSET Screens, follows : BOOLEAN, poll : Poll]

Plain(route, processing, refused, thrown, back) ==
  [route |-> route, processing |-> processing, refused |-> refused, thrown |-> thrown,
   back |-> back, follows |-> FALSE, poll |-> NoPolling]

Followed(route, refused, thrown, back, poll) ==
  [route |-> route, processing |-> "pending", refused |-> refused, thrown |-> thrown,
   back |-> back, follows |-> TRUE, poll |-> poll]

(* A notice over the form, closed whatever it says (of a success, to leave *)
(* the page); and a failure only, what goes on leading elsewhere.          *)
Notice == {"pending", "failed", "unknown"}
Beside == Notice \cup {"action"}
Failure == {"failed"}

(* web *)
Payer == Followed(CollectFromExternal, "failed", "unknown", Beside, PayerPolling)
Topup == Followed(InitiateTopup, "failed", "unknown", Beside, TopupPolling)
Recharger == Followed(PurchaseAirtimeFromMobileMoney, "failed", "unknown", Beside, RechargerPolling)
Envoyer == Followed(SendToExternalAccount, "failed", "unknown", Notice, EnvoyerPolling)
CartesCadeaux == Plain(PurchaseGiftCard, "failed", "failed", "failed", {})
Factures == Plain(PayUtilityBill, "success", "failed", "failed", {})
LoadCard == Plain(Transfer, "pending", "failed", "failed", Notice)
PotAction == Plain(Transfer, "pending", "failed", "failed", Notice)

(* business *)
BusinessRecharger == Plain(PurchaseAirtime, "pending", "form", "form", Notice)
BusinessCartesCadeaux == Plain(PurchaseGiftCard, "failed", "failed", "failed", Notice)
BusinessFactures == Plain(PayUtilityBill, "success", "failed", "failed", Notice)
Encaisser == Followed(DebitDirect, "form", "form", Beside, EncaisserPolling)
HandleLink == Plain(LinkQrToNewMerchant, "pending", "form", "form", {})

(* merchant *)
MerchantLoadCard == Plain(Transfer, "pending", "form", "form", {})
Detaillants == Plain(FundRetailer, "pending", "form", "form", {})
MerchantTransfer == Plain(Transfer, "pending", "form", "form", {})

(* pay; from the page a card comes back to, by the link once more *)
Checkout == Followed(DebitDirect, "form", "form", Failure, CheckoutPolling)
CheckoutCard == Followed(DebitDirect, "form", "form", Failure, RetourPolling)

(* mobile *)
MobileEnvoyer == Followed(SendToExternalAccount, "form", "form", Failure, MobileSendPolling)
MobilePayer == Plain(Transfer, "pending", "form", "form", Failure)
MobileTopup == Followed(InitiateTopup, "form", "form", Failure, MobileTopupPolling)
MobileRecharger == Plain(PurchaseAirtime, "pending", "form", "form", Failure)
MobileCartesCadeaux == Plain(PurchaseGiftCard, "pending", "form", "form", Failure)
MobileFactures == Plain(PayUtilityBill, "pending", "form", "form", Failure)
MobileLoadCard == Plain(Transfer, "pending", "form", "form", Notice)
MobilePotAction == Plain(Transfer, "pending", "form", "form", Notice)

Pages ==
  {Payer, Topup, Recharger, Envoyer, CartesCadeaux, Factures, LoadCard, PotAction,
   BusinessRecharger, BusinessCartesCadeaux, BusinessFactures, Encaisser, HandleLink,
   Detaillants, MerchantTransfer, MerchantLoadCard, Checkout, CheckoutCard,
   MobileEnvoyer, MobilePayer, MobileTopup, MobileRecharger, MobileCartesCadeaux,
   MobileFactures, MobileLoadCard, MobilePotAction}

ASSUME FollowUpAssumption ==
  /\ MaxPresses \in Nat
  /\ MaxTicks \in Nat \ {0}
  /\ MaxReplies \in Nat
  /\ InUse \subseteq Pages

-----------------------------------------------------------------------------
VARIABLES
  page,      \* the page the client is on
  screen,    \* what it shows
  presses,   \* how many times the button has been pressed
  waiting,   \* the answer to the last press is awaited
  stage,     \* stage[n]: where the API is with the request of press n
  reply,     \* reply[n]: what it answers
  about,     \* the payment whose answer or reply set the screen, 0 for none
  ref,       \* the payment followed last, until an outcome is read
  timers,    \* the payments whose status is asked for
  ticks,     \* ticks[i]: polls sent since the timer of i was started
  replies,   \* answers to polls on their way
  row,       \* row[i]: Transaction.status, NONE before it exists
  linked,    \* linked[i]: HUB2's reference is in the row
  next,      \* next[i]: nextActionType is set
  hub,       \* hub[i]: where the payment is at HUB2
  misled,    \* history: presses whose payment could still succeed when the
             \* client was told of an error, or of a failure nobody had decided
  dismissed, \* history: presses open when the client went back to the form
             \* from a screen that told it of no error or failure of theirs
  presumed   \* history: payments called a success by the address of a page

view == <<screen, about>>
polling == <<ref, timers, ticks, replies>>
history == <<misled, dismissed, presumed>>
client == <<view, presses, waiting, polling, history>>
request == <<stage, reply>>
rows == <<row, linked, next>>
vars == <<page, client, request, rows, hub>>

Statuses == {"NONE", "PROCESSING", "SUCCESS", "FAILED"}
Final == {"SUCCESS", "FAILED"}

(* ACTION: HUB2 waits for the client: a code, a link, the phone.           *)
HubStates == {"NONE", "PENDING", "ACTION", "SUCCESS", "FAILED"}

Reply == [of : Presses, status : Statuses, next : BOOLEAN]

TypeOK ==
  /\ page \in InUse
  /\ screen \in Screens
  /\ presses \in 0..MaxPresses
  /\ waiting \in BOOLEAN
  /\ stage \in [Presses -> {"none", "sent", "created", "accepted", "done"}]
  /\ reply \in [Presses -> {"NONE", "ERROR"} \cup Statuses]
  /\ about \in 0..MaxPresses
  /\ ref \in 0..MaxPresses
  /\ timers \subseteq Presses
  /\ ticks \in [Presses -> 0..MaxTicks]
  /\ replies \subseteq Reply
  /\ row \in [Presses -> Statuses]
  /\ linked \in [Presses -> BOOLEAN]
  /\ next \in [Presses -> BOOLEAN]
  /\ hub \in [Presses -> HubStates]
  /\ misled \cup dismissed \cup presumed \subseteq Presses

Init ==
  /\ page \in InUse
  /\ screen = "form"
  /\ presses = 0
  /\ waiting = FALSE
  /\ stage = [n \in Presses |-> "none"]
  /\ reply = [n \in Presses |-> "NONE"]
  /\ about = 0
  /\ ref = 0
  /\ timers = {}
  /\ ticks = [i \in Presses |-> 0]
  /\ replies = {}
  /\ row = [i \in Presses |-> "NONE"]
  /\ linked = [i \in Presses |-> FALSE]
  /\ next = [i \in Presses |-> FALSE]
  /\ hub = [i \in Presses |-> "NONE"]
  /\ misled = {}
  /\ dismissed = {}
  /\ presumed = {}

-----------------------------------------------------------------------------
(* The button *)

(* Mutant of Enabled: a request on its way does not disable the button. *)
EnabledTwice == screen = "form"

(* The button is that of the form, disabled while an answer is awaited. *)
Enabled == screen = "form" /\ ~waiting

(* No timer is stopped, no reply on its way forgotten. *)
Press(n) ==
  /\ n = presses + 1
  /\ Enabled
  /\ presses' = n
  /\ waiting' = TRUE
  /\ stage' = [stage EXCEPT ![n] = "sent"]
  /\ UNCHANGED <<page, view, polling, history, reply, rows, hub>>

(* The payment of press n may succeed, or has. *)
Open(n) ==
  \/ stage[n] \in {"sent", "created", "accepted"}
  \/ row[n] \in {"PROCESSING", "SUCCESS"}

(* Those that are left behind by a client that goes back to the form. *)
LeftOpen ==
  {n \in Presses : n = presses /\ ~waiting /\ Open(n) /\ (screen # "failed" \/ about # n)}

(* A notice is closed, or the form beside a step taken up again.  To come  *)
(* back by the link is to load another page, which ends what this one ran. *)
Close ==
  /\ screen \in page.back
  /\ screen' = "form"
  /\ dismissed' = dismissed \cup LeftOpen
  /\ timers' = IF page.poll.chained THEN {} ELSE timers
  /\ replies' = IF page.poll.chained THEN {} ELSE replies
  /\ UNCHANGED <<page, about, presses, waiting, ref, ticks, misled, presumed, request, rows,
                 hub>>

-----------------------------------------------------------------------------
(* The API *)

(* What an earlier request has done already, where it can be seen. *)
Found(n) == {m \in Presses : page.route.single /\ row[m] # "NONE"}

Answer(n, status) ==
  /\ stage' = [stage EXCEPT ![n] = "done"]
  /\ reply' = [reply EXCEPT ![n] = status]

(* The card is linked already: that is answered. *)
Replay(n) ==
  /\ stage[n] = "sent"
  /\ \E m \in Found(n) : Answer(n, row[m])
  /\ UNCHANGED <<page, client, rows, hub>>

(* No money, a limit, a wrong code, a phone that is taken: nothing has     *)
(* been created.                                                           *)
Refuse(n) ==
  /\ stage[n] = "sent"
  /\ Answer(n, "NONE")
  /\ UNCHANGED <<page, client, rows, hub>>

(* A movement with its outcome, in one database transaction. *)
Execute(n) ==
  /\ stage[n] = "sent"
  /\ Found(n) = {}
  /\ ~page.route.hub2
  /\ \E status \in page.route.answers :
       /\ row' = [row EXCEPT ![n] = status]
       /\ Answer(n, status)
  /\ UNCHANGED <<page, client, linked, next, hub>>

(* A payment HUB2 decides: the row comes before the call to HUB2. *)
Create(n) ==
  /\ stage[n] = "sent"
  /\ page.route.hub2
  /\ row' = [row EXCEPT ![n] = "PROCESSING"]
  /\ stage' = [stage EXCEPT ![n] = "created"]
  /\ UNCHANGED <<page, client, reply, linked, next, hub>>

Accepted(n) ==
  /\ stage[n] = "created"
  /\ stage' = [stage EXCEPT ![n] = "accepted"]
  /\ hub' = [hub EXCEPT ![n] = "PENDING"]
  /\ UNCHANGED <<page, client, reply, rows>>

(* HUB2's reference is stored and the request answered. *)
Link(n) ==
  /\ stage[n] = "accepted"
  /\ linked' = [linked EXCEPT ![n] = TRUE]
  /\ Answer(n, "PROCESSING")
  /\ UNCHANGED <<page, client, row, next, hub>>

(* The call to HUB2 throws, or its answer is lost: the row is left behind. *)
Fail(n) ==
  /\ stage[n] \in {"created", "accepted"}
  /\ Answer(n, "ERROR")
  /\ UNCHANGED <<page, client, rows, hub>>

Handle(n) ==
  Replay(n) \/ Refuse(n) \/ Execute(n) \/ Create(n) \/ Accepted(n) \/ Link(n) \/ Fail(n)

-----------------------------------------------------------------------------
(* The answer *)

poll == page.poll

(* The screen an outcome has, on the answer itself. *)
Shown(status) ==
  CASE status = "SUCCESS"    -> "success"
    [] status = "FAILED"     -> "failed"
    [] status = "PROCESSING" -> page.processing
    [] OTHER                 -> page.refused

(* An error, or a failure nobody has decided, is told of an open payment. *)
Misleads(s, n) == IF s \in {"form", "failed"} /\ Open(n) THEN misled \cup {n} ELSE misled

(* A timer is started for payment i; the one before it runs on, unless the *)
(* page keeps one only.                                                    *)
Follow(i) ==
  /\ timers' = (IF poll.restarts THEN timers \ {ref} ELSE timers) \cup {i}
  /\ ticks' = [ticks EXCEPT ![i] = 0]
  /\ ref' = i

Answered(n) ==
  /\ waiting
  /\ n = presses
  /\ stage[n] = "done"
  /\ waiting' = FALSE
  /\ about' \in (IF reply[n] = "SUCCESS" /\ row[n] = "NONE" THEN Found(n) ELSE {n})
  /\ screen' = Shown(reply[n])
  /\ misled' = IF reply[n] \in Final THEN misled ELSE Misleads(screen', n)
  /\ IF page.follows /\ reply[n] = "PROCESSING" THEN Follow(n)
                                                ELSE UNCHANGED <<timers, ticks, ref>>
  /\ UNCHANGED <<page, presses, replies, dismissed, presumed, request, rows, hub>>

(* The network is cut: whatever the API does, or will do, an ApiError is   *)
(* shown as any refusal.                                                   *)
CutOff(n) ==
  /\ waiting
  /\ n = presses
  /\ waiting' = FALSE
  /\ screen' = page.refused
  /\ about' = n
  /\ misled' = Misleads(screen', n)
  /\ UNCHANGED <<page, presses, polling, dismissed, presumed, request, rows, hub>>

(* The session could not be renewed: the request has not been executed.    *)
Thrown(n) ==
  /\ waiting
  /\ n = presses
  /\ stage[n] = "sent"
  /\ stage' = [stage EXCEPT ![n] = "done"]
  /\ waiting' = FALSE
  /\ screen' = page.thrown
  /\ about' = n
  /\ UNCHANGED <<page, presses, polling, history, reply, rows, hub>>

-----------------------------------------------------------------------------
(* HUB2, external, and what the API learns of it *)

Act(i) ==
  /\ hub[i] = "PENDING"
  /\ hub' = [hub EXCEPT ![i] = "ACTION"]
  /\ UNCHANGED <<page, client, request, rows>>

Decide(i) ==
  /\ hub[i] \in {"PENDING", "ACTION"}
  /\ \E d \in Final : hub' = [hub EXCEPT ![i] = d]
  /\ UNCHANGED <<page, client, request, rows>>

(* A decision concludes the row, an awaited step is written in it. *)
Concluded(i) ==
  IF linked[i] /\ row[i] = "PROCESSING" /\ hub[i] \in Final THEN hub[i] ELSE row[i]

Awaited(i) == next[i] \/ (linked[i] /\ row[i] = "PROCESSING" /\ hub[i] = "ACTION")

Learn(i) ==
  /\ row' = [row EXCEPT ![i] = Concluded(i)]
  /\ next' = [next EXCEPT ![i] = Awaited(i)]

(* refreshFromProvider: HUB2 may answer nothing of use, or not be asked,   *)
(* as just after a webhook or another call; and what a conclusion throws   *)
(* is caught, whether the next may succeed or none ever does.              *)
Ask(i) == Learn(i) \/ UNCHANGED <<row, next>>

(* A webhook comes, or the sweep; neither may ever come. *)
Webhook(i) ==
  /\ linked[i]
  /\ Learn(i)
  /\ <<row', next'>> # <<row, next>>
  /\ UNCHANGED <<page, client, request, linked, hub>>

-----------------------------------------------------------------------------
(* Polling *)

(* The status route, with what it asks of HUB2 first. *)
Status(i) ==
  IF page.route.asks
    THEN Ask(i) /\ UNCHANGED linked
    ELSE UNCHANGED rows

(* Mutant of Asks: one poll too many. *)
AsksOnceMore(i) == ticks[i] <= MaxTicks

(* The timer has polls left. *)
Asks(i) == ticks[i] < MaxTicks

(* A tick: the API answers now, the answer arrives when it may.  Requests  *)
(* may overlap, unless the page chains them.                               *)
Tick(i) ==
  /\ i \in timers
  /\ Asks(i)
  /\ Cardinality(replies) < (IF poll.chained THEN 1 ELSE MaxReplies)
  /\ Status(i)
  /\ ticks' = [ticks EXCEPT ![i] = @ + 1]
  /\ replies' = replies \cup {[of |-> i, status |-> row'[i], next |-> next'[i]]}
  /\ UNCHANGED <<page, view, presses, waiting, ref, timers, history, request, hub>>

(* The last reply a timer waits for. *)
GivesUp(i) == ticks[i] = MaxTicks /\ ~poll.byTick

Or(new, same) == IF new = "same" THEN same ELSE new

Outcome(status) == IF status = "SUCCESS" THEN "success" ELSE poll.failed

(* Mutant of Stopped: the newest, whether or not it has a reference. *)
StoppedNewest(i) == {ref}

(* To stop the timer of i is, with one reference, to stop the newest. *)
Stopped(i) == {IF poll.shared THEN ref ELSE i}

(* Mutant of Following: what is not a failure is a success. *)
FollowingHopefully(r, step) ==
  [screen |-> IF r.status = "FAILED" THEN poll.failed ELSE "success", stops |-> TRUE]

(* What a reply makes of the screen, and whether it stops a timer.  A page *)
(* may have shown the step before, and not show it again.                  *)
Following(r, step) ==
  CASE r.status \in Final -> [screen |-> Outcome(r.status), stops |-> TRUE]
    [] r.status \notin Final /\ step /\ poll.acts ->
         [screen |-> "action", stops |-> poll.halts]
    [] OTHER              -> [screen |-> Or(poll.waiting, screen), stops |-> FALSE]

(* Giving up stops a timer and, in some pages, rewrites the screen even    *)
(* when the last reply has just brought the outcome.                       *)
GivenUp(r, after) ==
  IF GivesUp(r.of)
    THEN [screen |-> IF poll.chained /\ after.stops THEN after.screen
                     ELSE Or(poll.exhausted, after.screen),
          stops |-> TRUE]
    ELSE after

(* The screen s is that of payment i, if anything has changed. *)
Show(i, s) ==
  /\ screen' = s
  /\ about' = IF s = screen THEN about ELSE i

Receive(r) ==
  /\ r \in replies
  /\ replies' = replies \ {r}
  /\ \E step \in {r.next, FALSE} :
       LET after == GivenUp(r, Following(r, step)) IN
       /\ Show(r.of, after.screen)
       /\ timers' = timers \ (IF after.stops THEN Stopped(r.of) ELSE {})
  /\ ref' = IF r.status \in Final THEN 0 ELSE ref
  /\ misled' = IF r.status \in Final \/ screen' = screen THEN misled
                                                      ELSE Misleads(screen', r.of)
  /\ UNCHANGED <<page, presses, waiting, ticks, dismissed, presumed, request, rows, hub>>

(* A poll is cut: the next tick tries again, if there is one.  A page that *)
(* chains its requests then takes the word of its address.                 *)
LoseReply(r) ==
  LET after == GivenUp(r, [screen |-> screen, stops |-> FALSE])
      byAddress == IF poll.chained /\ GivesUp(r.of) THEN {"success"} ELSE {} IN
  /\ r \in replies
  /\ replies' = replies \ {r}
  /\ \E s \in {after.screen} \cup byAddress : Show(r.of, s)
  /\ timers' = timers \ (IF after.stops THEN Stopped(r.of) ELSE {})
  /\ misled' = IF screen' = screen THEN misled ELSE Misleads(screen', r.of)
  /\ presumed' = IF screen' = "success" /\ screen # "success" THEN presumed \cup {r.of}
                                                             ELSE presumed
  /\ UNCHANGED <<page, presses, waiting, ref, ticks, dismissed, request, rows, hub>>

(* The tick after the last one. *)
GiveUp(i) ==
  /\ i \in timers
  /\ ticks[i] = MaxTicks
  /\ poll.byTick
  /\ timers' = timers \ Stopped(i)
  /\ Show(i, Or(poll.exhausted, screen))
  /\ UNCHANGED <<page, presses, waiting, ref, ticks, replies, history, request, rows, hub>>

(* The mobile application comes back to the foreground with a payment of   *)
(* no outcome yet: it asks once, and shows an outcome only.                *)
CheckOnce ==
  /\ poll.checks
  /\ ref # 0
  /\ Status(ref)
  /\ IF row'[ref] \in Final
       THEN /\ Show(ref, Outcome(row'[ref]))
            /\ timers' = timers \ {ref}
            /\ ref' = 0
       ELSE UNCHANGED <<view, timers, ref>>
  /\ UNCHANGED <<page, presses, waiting, ticks, replies, history, request, hub>>

(* The client's code is taken by HUB2, for the payment that asked for it   *)
(* or the one followed last: it is followed again.                         *)
EnterCode(i) ==
  /\ screen = "action"
  /\ i \in {about, ref}
  /\ Follow(i)
  /\ Show(i, poll.entered)
  /\ dismissed' = IF screen' = "form" THEN dismissed \cup LeftOpen ELSE dismissed
  /\ UNCHANGED <<page, presses, waiting, replies, misled, presumed, request, rows, hub>>

(* It is refused, or the call is cut: HUB2 may decide all the same. *)
CodeRefused(i) ==
  /\ screen = "action"
  /\ i \in {about, ref}
  /\ poll.refused # "same"
  /\ Show(i, poll.refused)
  /\ misled' = Misleads(screen', i)
  /\ UNCHANGED <<page, presses, waiting, polling, dismissed, presumed, request, rows, hub>>

-----------------------------------------------------------------------------
Next ==
  \/ \E n \in Presses : Press(n) \/ Handle(n) \/ Answered(n) \/ CutOff(n) \/ Thrown(n)
  \/ \E i \in Presses : Act(i) \/ Decide(i) \/ Webhook(i)
  \/ \E i \in Presses : Tick(i) \/ GiveUp(i) \/ EnterCode(i) \/ CodeRefused(i)
  \/ \E r \in replies : Receive(r) \/ LoseReply(r)
  \/ Close \/ CheckOnce

Spec == Init /\ [][Next]_vars

-----------------------------------------------------------------------------
(* Safety *)

(* The payment of press n has taken the client's money, or HUB2 has. *)
Executed(n) ==
  \/ row[n] = "SUCCESS" \/ hub[n] = "SUCCESS"
  \/ row[n] = "PROCESSING" /\ ~page.route.hub2

(* One intention is executed twice only if, while the first payment was    *)
(* open, the client was told of an error or of a failure nobody had        *)
(* decided, or itself went back to the form from a screen that told it of  *)
(* neither; and a card is never linked twice, whatever the client does.    *)
(* (apiClient.ts makes a key for each call: it is of no help to the next   *)
(* press.)                                                                 *)
OneExecution ==
  \A m, n \in Presses :
    m < n /\ Executed(m) /\ Executed(n) =>
      m \in misled \cup dismissed /\ ~page.route.single

(* A screen of success means that the payment it speaks of has succeeded   *)
(* (a bill may be called paid while the operator has it in hand), but for  *)
(* the success a page reads in its own address; it is the payment of the   *)
(* last press, unless an earlier one was left open, whose timer runs on.   *)
(* A screen of failure means that the payment has failed or was refused,   *)
(* or that the client is among the misled.  And an outcome, once shown, is *)
(* only taken away by a page that shows steps, gives up or rewrites its    *)
(* screen.                                                                 *)
ScreensAreTrue ==
  /\ screen = "success" =>
       /\ about # 0
       /\ \/ row[about] = "SUCCESS" \/ (row[about] = "PROCESSING" /\ ~page.route.hub2)
          \/ about \in presumed
       /\ about = presses \/ about \in misled \cup dismissed
  /\ screen = "failed" =>
       about # 0 /\ (row[about] \in {"NONE", "FAILED"} \/ about \in misled)
  /\ page.follows /\ screen \in {"pending", "action"} /\ ref = 0 =>
       poll.acts \/ poll.exhausted = "pending" \/ poll.failed = "pending"

(* Actions *)

(* The timer of a payment nobody has told the client the end of runs until *)
(* it gives up or the page is left; only where one reference stands for    *)
(* all timers does the end of another payment stop it.                     *)
TimersRunOn ==
  [][\A i \in timers \ timers' :
       \/ row[i] \in Final
       \/ ticks[i] = MaxTicks
       \/ poll.chained \/ poll.shared]_vars
=============================================================================
