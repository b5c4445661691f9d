------------------------------ MODULE Accounts ------------------------------
(***************************************************************************)
(* What stands between a user who presses a button and the movement of     *)
(* money: the session, the secret code with its lockout, the monthly       *)
(* limit.  One account, used from several pages of several devices.        *)
(*                                                                         *)
(* A call is one use of apiFetch.  It is answered 401 when the access      *)
(* token has expired, and also when the secret code is wrong or the        *)
(* account locked; whichever it is, apiFetch renews the session once, for  *)
(* all the calls of the page that wait, and sends the call again.  Refresh *)
(* tokens are rotated: read, then revoked and replaced.  Nothing here is   *)
(* in one database transaction with anything else.                         *)
(***************************************************************************)
EXTENDS Integers, FiniteSets

CONSTANTS
  Calls,
  Pages, Devices,
  DeviceOf,      \* DeviceOf[p]: where page p is open; its tokens are there
  Native,        \* the devices that run the mobile application
  FirstToken,    \* the refresh token each device starts with, NoToken for none
  Scenarios,     \* what the calls may be: [page, entry, right, amount] each
  MaxTokens,     \* bound: refresh tokens ever issued
  MaxCodes,      \* bound: one-time codes sent
  MaxAttempts,   \* MAX_ATTEMPTS
  Limit          \* MONTHLY_LIMITS_FCFA of the account's level

(* READ needs a session only; TRANSFER and WITHDRAW move money and carry    *)
(* the secret code; LOGIN carries the password, and VERIFY, the second     *)
(* request of a login, the password and a one-time code.                   *)
Entries == {"READ", "TRANSFER", "WITHDRAW", "LOGIN", "VERIFY", "LOGOUT"}

(* right: the secret code or the password is the right one.                *)
Ask == [page : Pages, entry : Entries, right : BOOLEAN, amount : Nat]

Tokens == 1..MaxTokens
NoToken == 0

ASSUME AccountsAssumption ==
  /\ IsFiniteSet(Calls) /\ IsFiniteSet(Devices)
  /\ DeviceOf \in [Pages -> Devices]
  /\ Native \subseteq Devices
  /\ FirstToken \in [Devices -> Tokens \cup {NoToken}]
  /\ \A d, e \in Devices : FirstToken[d] = FirstToken[e] => d = e \/ FirstToken[d] = NoToken
  /\ Scenarios \subseteq [Calls -> Ask]
  /\ MaxTokens \in Nat
  /\ MaxCodes \in Nat
  /\ MaxAttempts \in Nat \ {0}
  /\ Limit \in Nat

VARIABLES
  ask,       \* ask[c]: what call c is
  pc,        \* pc[c]: where it is
  replayed,  \* replayed[c]: it has been sent a second time
  found,     \* found[c]: the one-time code c has read
  access,    \* access[d]: device d holds an access token
  refresh,   \* refresh[d]: its refresh token
  renewal,   \* renewal[p]: refreshPromise of page p, and the token it is about
  state,     \* state[t]: NONE, LIVE, or what revoked it first: a renewal
             \* (ROTATED), a logout or its age (CLOSED)
  parent,    \* parent[t]: the token t replaced
  codes,     \* the PhoneVerification rows, numbered in the order of sending
  sent,      \* one-time codes sent so far
  bare,      \* history: tokens issued without a code, as SKIP_LOGIN_OTP allows
  failures,  \* securityFailedAttempts
  locked,    \* securityLockedUntil is in the future
  spent,     \* what the successful movements of the month add up to
  pending,   \* withdrawals HUB2 has not concluded, which the limit ignores
  raced,     \* history: tokens revoked while another refresh had found them
  excused,   \* history: devices that something has cost their session
  uncounted  \* history: a limit was read while other money was on its way

calls == <<ask, pc, replayed, found>>
session == <<access, refresh, renewal>>
tokens == <<state, parent, raced>>
otp == <<codes, sent, bare>>
guard == <<failures, locked>>
outgoing == <<spent, pending, uncounted>>
vars == <<calls, session, tokens, otp, guard, outgoing, excused>>

Ended == {"ok", "refused", "signed_out", "cut"}
Places == {"idle", "ready", "received", "admitted", "counted", "verified",
           "allowed", "found", "unauthorized", "waiting"} \cup Ended

(* NONE: no renewal under way; CUT: fetch has thrown.                      *)
Phases == {"NONE", "ASKED", "FOUND", "ISSUED", "REFUSED", "CUT"}
Renewal == [phase : Phases, token : Tokens \cup {NoToken}]
NoRenewal == [phase |-> "NONE", token |-> NoToken]

TypeOK ==
  /\ ask \in Scenarios
  /\ pc \in [Calls -> Places]
  /\ replayed \in [Calls -> BOOLEAN]
  /\ found \in [Calls -> 0..MaxCodes]
  /\ access \in [Devices -> BOOLEAN]
  /\ refresh \in [Devices -> Tokens \cup {NoToken}]
  /\ renewal \in [Pages -> Renewal]
  /\ \A p \in Pages : renewal[p].phase # "NONE" => renewal[p].token # NoToken
  /\ state \in [Tokens -> {"NONE", "LIVE", "ROTATED", "CLOSED"}]
  /\ parent \in [Tokens -> Tokens \cup {NoToken}]
  /\ codes \subseteq 1..MaxCodes
  /\ sent \in 0..MaxCodes
  /\ bare \subseteq Tokens
  /\ failures \in Nat
  /\ locked \in BOOLEAN
  /\ spent \in Nat
  /\ pending \subseteq Calls
  /\ raced \subseteq Tokens
  /\ excused \subseteq Devices
  /\ uncounted \in BOOLEAN

(* A device that holds a session has a token of its own. *)
Init ==
  /\ ask \in Scenarios
  /\ pc = [c \in Calls |-> "idle"]
  /\ replayed = [c \in Calls |-> FALSE]
  /\ found = [c \in Calls |-> 0]
  /\ refresh = FirstToken
  /\ access = [d \in Devices |-> FirstToken[d] # NoToken]
  /\ renewal = [p \in Pages |-> NoRenewal]
  /\ state = [t \in Tokens |-> IF \E d \in Devices : FirstToken[d] = t THEN "LIVE" ELSE "NONE"]
  /\ parent = [t \in Tokens |-> NoToken]
  /\ codes = {}
  /\ sent = 0
  /\ bare = {}
  /\ failures = 0
  /\ locked = FALSE
  /\ spent = 0
  /\ pending = {}
  /\ raced = {}
  /\ excused = {d \in Devices : FirstToken[d] = NoToken}
  /\ uncounted = FALSE

-----------------------------------------------------------------------------
(* The client *)

Device(c) == DeviceOf[ask[c].page]

(* auth: true. *)
Authenticated(c) == ask[c].entry \notin {"LOGIN", "VERIFY"}

Secret(c) == ask[c].entry \in {"TRANSFER", "WITHDRAW", "LOGIN", "VERIFY"}

(* clearTokens. *)
Cleared(d) ==
  /\ access' = [access EXCEPT ![d] = FALSE]
  /\ refresh' = [refresh EXCEPT ![d] = NoToken]
  /\ excused' = excused \cup {d}

(* Call c comes to an end, or its answer is lost on the way; however it     *)
(* ends, the tokens are cleared after a logout.                            *)
End(c, outcome) ==
  /\ \E place \in {outcome, "cut"} : pc' = [pc EXCEPT ![c] = place]
  /\ IF ask[c].entry = "LOGOUT" THEN Cleared(Device(c))
     ELSE UNCHANGED <<access, refresh, excused>>
  /\ UNCHANGED <<ask, replayed, found, renewal>>

(* Mutant of Unauthorized: a call is sent again as often as it takes. *)
UnauthorizedForEver(c) ==
  IF Authenticated(c)
    THEN /\ pc' = [pc EXCEPT ![c] = "unauthorized"]
         /\ UNCHANGED <<ask, replayed, found, session, excused>>
    ELSE End(c, "refused")

(* Call c is answered 401. *)
Unauthorized(c) ==
  IF Authenticated(c) /\ ~replayed[c]
    THEN /\ pc' = [pc EXCEPT ![c] = "unauthorized"]
         /\ UNCHANGED <<ask, replayed, found, session, excused>>
    ELSE End(c, "refused")

Start(c) ==
  /\ pc[c] = "idle"
  /\ pc' = [pc EXCEPT ![c] = "ready"]
  /\ UNCHANGED <<ask, replayed, found, session, tokens, otp, guard, outgoing, excused>>

(* doFetch, and JwtAuthGuard on the other side: the access token, if there *)
(* is one, may have expired.                                               *)
Send(c) ==
  /\ pc[c] = "ready"
  /\ \/ /\ Authenticated(c)
        /\ Unauthorized(c)
     \/ /\ Authenticated(c) => access[Device(c)]
        /\ pc' = [pc EXCEPT ![c] = "received"]
        /\ UNCHANGED <<ask, replayed, found, session, excused>>
  /\ UNCHANGED <<tokens, otp, guard, outgoing>>

(* The request does not reach the API. *)
Cut(c) ==
  /\ pc[c] = "ready"
  /\ End(c, "cut")
  /\ UNCHANGED <<tokens, otp, guard, outgoing>>

(* Mutant of AwaitRenewal: every call makes a renewal of its own. *)
AwaitOwnRenewal(c) ==
  LET p == ask[c].page  d == Device(c) IN
  /\ pc[c] = "unauthorized" /\ refresh[d] # NoToken
  /\ pc' = [pc EXCEPT ![c] = "waiting"]
  /\ renewal' = [renewal EXCEPT ![p] = [phase |-> "ASKED", token |-> refresh[d]]]
  /\ UNCHANGED <<ask, replayed, found, access, refresh, tokens, otp, guard, outgoing, excused>>

(* Mutant of AwaitRenewal: a renewal is asked for without a token. *)
AwaitBlindRenewal(c) ==
  LET p == ask[c].page IN
  /\ pc[c] = "unauthorized"
  /\ pc' = [pc EXCEPT ![c] = "waiting"]
  /\ renewal' = [renewal EXCEPT ![p] = IF @.phase # "NONE" THEN @
                    ELSE [phase |-> "ASKED", token |-> refresh[Device(c)]]]
  /\ UNCHANGED <<ask, replayed, found, access, refresh, tokens, otp, guard, outgoing, excused>>

(* tryRefresh: c waits for the renewal of its page, which it starts if     *)
(* there is none, with the refresh token the device then holds.            *)
AwaitRenewal(c) ==
  LET p == ask[c].page  d == Device(c) IN
  /\ pc[c] = "unauthorized"
  /\ renewal[p].phase # "NONE" \/ refresh[d] # NoToken
  /\ pc' = [pc EXCEPT ![c] = "waiting"]
  /\ IF renewal[p].phase # "NONE" THEN UNCHANGED <<renewal, excused>>
     ELSE /\ renewal' = [renewal EXCEPT ![p] = [phase |-> "ASKED", token |-> refresh[d]]]
          /\ excused' = IF \E q \in Pages \ {p} : DeviceOf[q] = d /\ renewal[q].phase # "NONE"
                          THEN excused \cup {d} ELSE excused
  /\ UNCHANGED <<ask, replayed, found, access, refresh, tokens, otp, guard, outgoing>>

(* There is no refresh token: the session is over. *)
NothingToRenew(c) ==
  /\ pc[c] = "unauthorized"
  /\ renewal[ask[c].page].phase = "NONE" /\ refresh[Device(c)] = NoToken
  /\ pc' = [pc EXCEPT ![c] = "signed_out"]
  /\ access' = [access EXCEPT ![Device(c)] = FALSE]
  /\ UNCHANGED <<ask, replayed, found, refresh, renewal, tokens, otp, guard, outgoing, excused>>

-----------------------------------------------------------------------------
(* AuthService.refresh, and what the page makes of its answer *)

In(p, phase) == renewal[p].phase = phase
GoTo(p, phase) == renewal' = [renewal EXCEPT ![p].phase = phase]

(* The row is read: it must be there, not revoked and not 30 days old.     *)
FindToken(p) ==
  /\ In(p, "ASKED")
  /\ GoTo(p, IF state[renewal[p].token] = "LIVE" THEN "FOUND" ELSE "REFUSED")
  /\ UNCHANGED <<calls, access, refresh, tokens, otp, guard, outgoing, excused>>

(* Tokens other pages have found live. *)
FoundByOthers(p) == {renewal[q].token : q \in {q \in Pages \ {p} : In(q, "FOUND")}}

FindExpired(p) ==
  LET t == renewal[p].token IN
  /\ In(p, "ASKED") /\ state[t] = "LIVE"
  /\ GoTo(p, "REFUSED")
  /\ state' = [state EXCEPT ![t] = "CLOSED"]
  /\ raced' = raced \cup ({t} \cap FoundByOthers(p))
  /\ excused' = excused \cup {DeviceOf[p]}
  /\ UNCHANGED <<calls, access, refresh, parent, otp, guard, outgoing>>

(* The first token not issued yet. *)
Fresh(t) == state[t] = "NONE" /\ \A u \in 1..(t - 1) : state[u] # "NONE"

Revoked(s) == IF s = "LIVE" THEN "ROTATED" ELSE s

(* Mutant of RotateToken: the token that is replaced is not revoked. *)
RotateKeeping(p) ==
  \E t \in Tokens :
    /\ In(p, "FOUND") /\ Fresh(t)
    /\ state' = [state EXCEPT ![t] = "LIVE"]
    /\ parent' = [parent EXCEPT ![t] = renewal[p].token]
    /\ raced' = raced \cup ({renewal[p].token} \cap FoundByOthers(p))
    /\ renewal' = [renewal EXCEPT ![p] = [phase |-> "ISSUED", token |-> t]]
    /\ UNCHANGED <<calls, access, refresh, otp, guard, outgoing, excused>>

(* The token is revoked, and replaced whatever it has become meanwhile.    *)
RotateToken(p) ==
  \E t \in Tokens :
    /\ In(p, "FOUND") /\ Fresh(t)
    /\ state' = [state EXCEPT ![renewal[p].token] = Revoked(@), ![t] = "LIVE"]
    /\ parent' = [parent EXCEPT ![t] = renewal[p].token]
    /\ raced' = raced \cup ({renewal[p].token} \cap FoundByOthers(p))
    /\ renewal' = [renewal EXCEPT ![p] = [phase |-> "ISSUED", token |-> t]]
    /\ UNCHANGED <<calls, access, refresh, otp, guard, outgoing, excused>>

(* The process dies after the first of the two writes, or the second one   *)
(* throws: the page gets a cut or, from the API or what stands before it,  *)
(* an error.                                                               *)
DieInRotation(p) ==
  /\ In(p, "FOUND")
  /\ state' = [state EXCEPT ![renewal[p].token] = Revoked(@)]
  /\ raced' = raced \cup ({renewal[p].token} \cap FoundByOthers(p))
  /\ \E phase \in {"CUT", "REFUSED"} : GoTo(p, phase)
  /\ excused' = excused \cup {DeviceOf[p]}
  /\ UNCHANGED <<calls, access, refresh, parent, otp, guard, outgoing>>

(* Every reply but a 2xx is a refusal to the page, whatever it is about:   *)
(* the 429 of the throttler, a 500, the 502 of a gateway.                  *)
RenewalFails(p) ==
  /\ In(p, "ASKED") \/ In(p, "FOUND") \/ In(p, "ISSUED")
  /\ GoTo(p, "REFUSED")
  /\ excused' = excused \cup {DeviceOf[p]}
  /\ UNCHANGED <<calls, access, refresh, tokens, otp, guard, outgoing>>

(* No reply: the request does not reach the API or dies there before it    *)
(* writes, or the answer is lost.  The mobile application takes that for a *)
(* refusal too.                                                            *)
CutRenewal(p) ==
  /\ In(p, "ASKED") \/ In(p, "FOUND") \/ In(p, "ISSUED")
  /\ GoTo(p, "CUT")
  /\ excused' = IF In(p, "ISSUED") \/ DeviceOf[p] \in Native
                  THEN excused \cup {DeviceOf[p]} ELSE excused
  /\ UNCHANGED <<calls, access, refresh, tokens, otp, guard, outgoing>>

Waiting(p) == {c \in Calls : ask[c].page = p /\ pc[c] = "waiting"}

(* The promise of page p is fulfilled: all the calls that wait go to place. *)
Release(p, place) ==
  /\ pc' = [c \in Calls |-> IF c \in Waiting(p) THEN place ELSE pc[c]]
  /\ renewal' = [renewal EXCEPT ![p] = NoRenewal]
  /\ UNCHANGED <<ask, found, tokens, otp, guard, outgoing>>

(* The new tokens are stored and the calls are sent again. *)
Renewed(p) ==
  /\ In(p, "ISSUED")
  /\ Release(p, "ready")
  /\ replayed' = [c \in Calls |-> c \in Waiting(p) \/ replayed[c]]
  /\ access' = [access EXCEPT ![DeviceOf[p]] = TRUE]
  /\ refresh' = [refresh EXCEPT ![DeviceOf[p]] = renewal[p].token]
  /\ UNCHANGED excused

(* The session is over: the tokens are cleared, the page goes to /login. *)
SignedOut(p) ==
  /\ In(p, "REFUSED")
  /\ Release(p, "signed_out")
  /\ access' = [access EXCEPT ![DeviceOf[p]] = FALSE]
  /\ refresh' = [refresh EXCEPT ![DeviceOf[p]] = NoToken]
  /\ UNCHANGED <<replayed, excused>>

(* So it is in the mobile application when the renewal is cut. *)
CutSignsOut(p) ==
  /\ In(p, "CUT") /\ DeviceOf[p] \in Native
  /\ Release(p, "signed_out")
  /\ access' = [access EXCEPT ![DeviceOf[p]] = FALSE]
  /\ refresh' = [refresh EXCEPT ![DeviceOf[p]] = NoToken]
  /\ UNCHANGED <<replayed, excused>>

(* Mutant of RenewalCut: the calls of the page are left waiting. *)
RenewalCutUnseen(p) ==
  /\ In(p, "CUT") /\ DeviceOf[p] \notin Native
  /\ renewal' = [renewal EXCEPT ![p] = NoRenewal]
  /\ UNCHANGED <<calls, access, refresh, excused, tokens, otp, guard, outgoing>>

(* In a browser a cut rejects the promise: the calls fail, the tokens stay, *)
(* unless one of the calls is a logout.                                    *)
RenewalCut(p) ==
  /\ In(p, "CUT") /\ DeviceOf[p] \notin Native
  /\ Release(p, "cut")
  /\ IF \E c \in Waiting(p) : ask[c].entry = "LOGOUT"
       THEN Cleared(DeviceOf[p])
       ELSE UNCHANGED <<access, refresh, excused>>
  /\ UNCHANGED replayed

-----------------------------------------------------------------------------
(* The API *)

Read(c) ==
  /\ pc[c] = "received" /\ ask[c].entry = "READ"
  /\ End(c, "ok")
  /\ UNCHANGED <<tokens, otp, guard, outgoing>>

(* Every session of the account is revoked. *)
Logout(c) ==
  /\ pc[c] = "received" /\ ask[c].entry = "LOGOUT"
  /\ pc' = [pc EXCEPT ![c] = "ok"]
  /\ state' = [t \in Tokens |-> IF state[t] = "LIVE" THEN "CLOSED" ELSE state[t]]
  /\ raced' = raced \cup {t \in Tokens : state[t] = "LIVE" /\
                            \E q \in Pages : In(q, "FOUND") /\ renewal[q].token = t}
  /\ access' = [access EXCEPT ![Device(c)] = FALSE]
  /\ refresh' = [refresh EXCEPT ![Device(c)] = NoToken]
  /\ excused' = Devices
  /\ UNCHANGED <<ask, replayed, found, renewal, parent, otp, guard, outgoing>>

(* assertNotLocked, before the secret is compared: LOCKOUT_MINUTES may     *)
(* have gone by.                                                           *)
AssertNotLocked(c) ==
  /\ pc[c] = "received" /\ Secret(c)
  /\ \/ /\ locked
        /\ Unauthorized(c)
        /\ UNCHANGED locked
     \/ /\ pc' = [pc EXCEPT ![c] = "admitted"]
        /\ locked' = FALSE
        /\ UNCHANGED <<ask, replayed, found, session, excused>>
  /\ UNCHANGED <<tokens, otp, failures, outgoing>>

(* recordFailure: the counter is incremented, and its new value read. *)
RecordFailure(c) ==
  /\ pc[c] = "admitted" /\ ~ask[c].right
  /\ failures' = failures + 1
  /\ IF failures + 1 < MaxAttempts THEN Unauthorized(c)
     ELSE /\ pc' = [pc EXCEPT ![c] = "counted"]
          /\ UNCHANGED <<ask, replayed, found, session, excused>>
  /\ UNCHANGED <<locked, tokens, otp, outgoing>>

(* Its second update: the account is locked, the counter starts again. *)
Lock(c) ==
  /\ pc[c] = "counted"
  /\ locked' = TRUE
  /\ failures' = 0
  /\ Unauthorized(c)
  /\ UNCHANGED <<tokens, otp, outgoing>>

RecordSuccess(c) ==
  /\ pc[c] = "admitted" /\ ask[c].right
  /\ failures' = 0
  /\ locked' = FALSE
  /\ pc' = [pc EXCEPT ![c] = "verified"]
  /\ UNCHANGED <<ask, replayed, found, session, tokens, otp, outgoing, excused>>

(* issueTokens: a row of its own, written after whatever led to it.        *)
Issue(t) ==
  /\ Fresh(t)
  /\ state' = [state EXCEPT ![t] = "LIVE"]

(* The answer arrives and the page stores the tokens. *)
Stores(c, t) ==
  /\ refresh' = [refresh EXCEPT ![Device(c)] = t]
  /\ access' = [access EXCEPT ![Device(c)] = TRUE]
  /\ pc' = [pc EXCEPT ![c] = "ok"]

(* The page stores nothing: the answer is lost, or not looked at. *)
StoresNothing(c, place) ==
  /\ pc' = [pc EXCEPT ![c] = place]
  /\ UNCHANGED <<access, refresh>>

(* login, while SKIP_LOGIN_OTP is set: a session is issued at once.  The   *)
(* page of the web application stores it; the mobile application and the   *)
(* other sites do not look for tokens in this answer.                      *)
IssueWithoutCode(c) ==
  /\ pc[c] = "verified" /\ ask[c].entry = "LOGIN"
  /\ \E t \in Tokens :
       /\ Issue(t)
       /\ bare' = bare \cup {t}
       /\ \/ Device(c) \notin Native /\ Stores(c, t)
          \/ StoresNothing(c, "ok") \/ StoresNothing(c, "cut")
  /\ UNCHANGED <<ask, replayed, found, renewal, parent, raced, codes, sent, guard, outgoing, excused>>

(* login: a code is stored and sent; if the SMS fails, the login is        *)
(* refused and the code stays.                                             *)
SendCode(c) ==
  /\ pc[c] = "verified" /\ ask[c].entry = "LOGIN"
  /\ sent < MaxCodes
  /\ sent' = sent + 1
  /\ codes' = codes \cup {sent + 1}
  /\ End(c, "ok") \/ End(c, "refused")
  /\ UNCHANGED <<tokens, bare, guard, outgoing>>

(* A code sent within the minute is still there: no other is sent.         *)
CodeSentAlready(c) ==
  /\ pc[c] = "verified" /\ ask[c].entry = "LOGIN"
  /\ codes # {}
  /\ End(c, "ok")
  /\ UNCHANGED <<tokens, otp, guard, outgoing>>

(* verifyLoginOtp: the newest code is read, and compared with the one the  *)
(* user typed.                                                             *)
FindCode(c) ==
  /\ pc[c] = "verified" /\ ask[c].entry = "VERIFY"
  /\ \E k \in codes : /\ \A j \in codes : j <= k
                      /\ found' = [found EXCEPT ![c] = k]
  /\ pc' = [pc EXCEPT ![c] = "found"]
  /\ UNCHANGED <<ask, replayed, session, tokens, otp, guard, outgoing, excused>>

(* The row is deleted, which throws if it is gone; then a session is       *)
(* issued, unless the process dies in between.                             *)
UseCode(c) ==
  /\ pc[c] = "found" /\ found[c] \in codes
  /\ codes' = codes \ {found[c]}
  /\ \/ \E t \in Tokens : Issue(t) /\ (Stores(c, t) \/ StoresNothing(c, "cut"))
     \/ StoresNothing(c, "cut") /\ UNCHANGED state
  /\ UNCHANGED <<ask, replayed, found, renewal, parent, raced, sent, bare, guard, outgoing, excused>>

(* Money on its way that the limit does not count. *)
Uncounted(c) ==
  pending # {} \/ \E o \in Calls \ {c} : pc[o] = "allowed"

(* Mutant of AssertWithinMonthlyLimit: what is asked now is left out. *)
LimitOfThePast(c) ==
  /\ pc[c] = "verified" /\ ask[c].entry \in {"TRANSFER", "WITHDRAW"}
  /\ spent <= Limit
  /\ pc' = [pc EXCEPT ![c] = "allowed"]
  /\ uncounted' = (uncounted \/ Uncounted(c))
  /\ UNCHANGED <<ask, replayed, found, session, tokens, otp, guard, spent, pending, excused>>

(* The successful movements of the last 30 days are summed up. *)
AssertWithinMonthlyLimit(c) ==
  /\ pc[c] = "verified" /\ ask[c].entry \in {"TRANSFER", "WITHDRAW"}
  /\ spent + ask[c].amount <= Limit
  /\ pc' = [pc EXCEPT ![c] = "allowed"]
  /\ uncounted' = (uncounted \/ Uncounted(c))
  /\ UNCHANGED <<ask, replayed, found, session, tokens, otp, guard, spent, pending, excused>>

(* The movement commits: a transfer is SUCCESS at once, a withdrawal       *)
(* PROCESSING until HUB2 concludes.                                        *)
Move(c) ==
  /\ pc[c] = "allowed"
  /\ IF ask[c].entry = "TRANSFER"
       THEN spent' = spent + ask[c].amount /\ UNCHANGED pending
       ELSE pending' = pending \cup {c} /\ UNCHANGED spent
  /\ End(c, "ok")
  /\ UNCHANGED <<tokens, otp, guard, uncounted>>

Conclude(c) ==
  /\ c \in pending
  /\ pending' = pending \ {c}
  /\ \E success \in BOOLEAN :
       spent' = IF success THEN spent + ask[c].amount ELSE spent
  /\ UNCHANGED <<calls, session, tokens, otp, guard, uncounted, excused>>

(* Every other refusal: no secret code yet, a blocked account, no valid    *)
(* one-time code or one that is gone, the limit, the balance; or an error. *)
Refuse(c) ==
  /\ pc[c] \in {"admitted", "verified", "found", "allowed"}
  /\ End(c, "refused")
  /\ UNCHANGED <<tokens, otp, guard, outgoing>>

-----------------------------------------------------------------------------
Client(c) == Start(c) \/ Send(c) \/ Cut(c) \/ AwaitRenewal(c) \/ NothingToRenew(c)

Handler(c) ==
  \/ Read(c) \/ Logout(c) \/ AssertNotLocked(c) \/ RecordFailure(c) \/ Lock(c)
  \/ RecordSuccess(c) \/ IssueWithoutCode(c) \/ SendCode(c) \/ CodeSentAlready(c)
  \/ FindCode(c) \/ UseCode(c) \/ Refuse(c)
  \/ AssertWithinMonthlyLimit(c) \/ Move(c)

Refresh(p) ==
  \/ FindToken(p) \/ FindExpired(p) \/ RotateToken(p) \/ DieInRotation(p)
  \/ RenewalFails(p) \/ CutRenewal(p)
  \/ Renewed(p) \/ SignedOut(p) \/ CutSignsOut(p) \/ RenewalCut(p)

Next ==
  \/ \E c \in Calls : Client(c) \/ Handler(c) \/ Conclude(c)
  \/ \E p \in Pages : Refresh(p)

Spec == Init /\ [][Next]_vars

(* Both event loops go on, and fetch ends, be it with an error. *)
FairSpec ==
  /\ Spec
  /\ \A c \in Calls : WF_vars(Client(c)) /\ WF_vars(Handler(c))
  /\ \A p \in Pages : WF_vars(Refresh(p))

-----------------------------------------------------------------------------
(* Safety *)

Heirs(t) == {u \in Tokens : parent[u] = t}

(* refresh: rotation.  A refresh token gives one session in its place, and *)
(* none once a logout or its age has closed it, unless it was revoked      *)
(* while a second refresh had already found it live.                       *)
RotationIsLinear ==
  \A t \in Tokens \ raced : /\ \A u, v \in Heirs(t) : u = v
                            /\ state[t] = "CLOSED" => Heirs(t) = {}

(* apiFetch, tryRefresh: renewals of one page are one renewal, so that a   *)
(* page is sent back to /login only after a logout, 30 days, a renewal     *)
(* whose answer was lost or was an error of any kind, a renewal by another *)
(* page of the same browser at the same time, or, in the mobile            *)
(* application, a cut.                                                     *)
SessionsEndForACause ==
  \A c \in Calls : pc[c] = "signed_out" => Device(c) \in excused

(* verifyLoginOtp: a one-time code opens one session, although it is read  *)
(* before it is deleted; only login opens others, without a code, while    *)
(* SKIP_LOGIN_OTP is set.                                                  *)
Logins == {t \in Tokens : state[t] # "NONE" /\ parent[t] = NoToken}
CodesOpenOneSession ==
  Cardinality(Logins \ bare) + Cardinality(codes) <=
    Cardinality({d \in Devices : FirstToken[d] # NoToken}) + sent

(* AuthService: a session is issued in place of one other or for one code, *)
(* the password alone being enough while SKIP_LOGIN_OTP is set.            *)
SessionsAreIssuedOnce == RotationIsLinear /\ CodesOpenOneSession

(* LockoutService: as apiFetch sends a wrong code twice, a wrong entry     *)
(* counts for two failures, never for more: the account is locked after at *)
(* least half of MAX_ATTEMPTS entries.                                     *)
WrongEntries == {c \in Calls : Secret(c) /\ ~ask[c].right /\ pc[c] # "idle"}
EntriesCountTwiceAtMost ==
  /\ failures <= 2 * Cardinality(WrongEntries)
  /\ locked => MaxAttempts <= 2 * Cardinality(WrongEntries)

(* KycLimitsService: the month's movements exceed the limit only if one of *)
(* them was checked while another was on its way, uncounted.               *)
LimitYieldsToOverlapOnly == spent > Limit => uncounted

-----------------------------------------------------------------------------
(* Liveness *)

(* No call waits for ever, whatever happens to the renewals. *)
EveryCallEnds == \A c \in Calls : pc[c] = "ready" ~> pc[c] \in Ended
=============================================================================
