--------------------------- MODULE AccountsProofs ---------------------------
(***************************************************************************)
(* One account, for any number of calls, pages and devices, any limit and  *)
(* any number of attempts.  The invariant has a part of its own for the    *)
(* refresh tokens, the one-time codes, the causes a session may end for,   *)
(* the failures counted, and the limit.                                    *)
(***************************************************************************)
EXTENDS Accounts, FiniteSetTheorems, TLAPS

(* A token that was never revoked under another refresh has one heir, and  *)
(* none unless it was rotated; one that a refresh has found is live.       *)
TokensOK ==
  /\ \A t \in Tokens \ raced :
       /\ \A u, v \in Heirs(t) : u = v
       /\ state[t] # "ROTATED" => Heirs(t) = {}
  /\ \A p \in Pages : In(p, "FOUND") /\ renewal[p].token \notin raced => state[renewal[p].token] = "LIVE"

(* A token that was not issued has no parent. *)
CodesOK ==
  /\ \A t \in Tokens : state[t] = "NONE" => parent[t] = NoToken
  /\ CodesOpenOneSession

Renewing(p) == renewal[p].phase # "NONE"

(* Device d holds t, or one of its pages has a renewal about t. *)
Holds(d, t) ==
  refresh[d] = t \/ \E p \in Pages : DeviceOf[p] = d /\ Renewing(p) /\ renewal[p].token = t

(* What a page of an unharmed device may be doing. *)
Calm(p) ==
  /\ ~In(p, "REFUSED")
  /\ In(p, "CUT") => DeviceOf[p] \notin Native
  /\ renewal[p].phase \in {"ASKED", "FOUND", "ISSUED"} => state[renewal[p].token] = "LIVE"

(* A device nothing has cost its session has a live token, or is about to  *)
(* store one; one of its pages at most is renewing.                        *)
Unharmed(d) ==
  /\ refresh[d] # NoToken
  /\ \A p \in Pages : DeviceOf[p] = d => Calm(p)
  /\ \A p, q \in Pages : DeviceOf[p] = d /\ DeviceOf[q] = d /\ Renewing(p) /\ Renewing(q) => p = q
  /\ state[refresh[d]] = "LIVE" \/ \E p \in Pages : DeviceOf[p] = d /\ In(p, "ISSUED")

(* A token is held by one device, and was issued.                          *)
HoldsOK ==
  /\ \A t \in Tokens : \A d, e \in Devices : Holds(d, t) /\ Holds(e, t) => d = e
  /\ \A t \in Tokens : \A d \in Devices : Holds(d, t) => state[t] # "NONE"

DevicesOK == \A d \in Devices \ excused : Unharmed(d)

CausesOK == HoldsOK /\ DevicesOK /\ SessionsEndForACause

(* The calls that may have been counted once, and those that may have been *)
(* counted twice.                                                          *)
Wrong(c) == Secret(c) /\ ~ask[c].right
TriedOnce(c) == Wrong(c) /\ (replayed[c] \/ pc[c] \in {"counted", "unauthorized", "waiting"} \cup Ended)
TriedTwice(c) == Wrong(c) /\ replayed[c] /\ pc[c] \in {"counted"} \cup Ended
Once == {c \in Calls : TriedOnce(c)}
Twice == {c \in Calls : TriedTwice(c)}
Tries == Cardinality(Once) + Cardinality(Twice)

FailuresOK ==
  /\ \A c \in Calls : pc[c] = "idle" => ~replayed[c]
  /\ \A c \in Calls : pc[c] = "admitted" => Secret(c)
  /\ failures <= Tries
  /\ locked => MaxAttempts <= Tries
  /\ \A c \in Calls : pc[c] = "counted" => MaxAttempts <= Tries

(* Unless money was left uncounted, one movement at most is on its way,    *)
(* and it stays within the limit.                                          *)
OnItsWay(c) == pc[c] = "allowed" \/ c \in pending
LimitOK ==
  /\ \A c \in pending : pc[c] \in Ended
  /\ ~uncounted =>
       /\ spent <= Limit
       /\ \A c \in Calls : OnItsWay(c) => spent + ask[c].amount <= Limit
       /\ \A c, o \in Calls : OnItsWay(c) /\ OnItsWay(o) => c = o

Inv == TypeOK /\ TokensOK /\ CodesOK /\ CausesOK /\ FailuresOK /\ LimitOK

-----------------------------------------------------------------------------
(* Types                                                                   *)

LEMMA Known ==
  ASSUME TypeOK
  PROVE  /\ \A c \in Calls : /\ ask[c].page \in Pages /\ ask[c].entry \in Entries
                             /\ ask[c].right \in BOOLEAN /\ ask[c].amount \in Nat
                             /\ Device(c) \in Devices /\ DeviceOf[ask[c].page] \in Devices
         /\ \A p \in Pages : /\ DeviceOf[p] \in Devices
                             /\ renewal[p].phase \in Phases
                             /\ renewal[p].token \in Tokens \cup {NoToken}
                             /\ renewal[p].phase # "NONE" => renewal[p].token \in Tokens
BY AccountsAssumption DEF TypeOK, Ask, Renewal, Device

(* What a call's end does to its own columns. *)
LEMMA EndType ==
  ASSUME TypeOK, NEW c \in Calls, NEW outcome \in Ended, End(c, outcome)
  PROVE  /\ pc' \in [Calls -> Places]
         /\ access' \in [Devices -> BOOLEAN]
         /\ refresh' \in [Devices -> Tokens \cup {NoToken}]
         /\ excused' \subseteq Devices
         /\ UNCHANGED <<ask, replayed, found, renewal>>
<1>1. PICK place \in Places : pc' = [pc EXCEPT ![c] = place]
  BY DEF End, Ended, Places
<1>2. Device(c) \in Devices
  BY Known
<1> QED
  BY <1>1, <1>2 DEF End, Cleared, TypeOK

LEMMA UnauthorizedType ==
  ASSUME TypeOK, NEW c \in Calls, Unauthorized(c)
  PROVE  /\ pc' \in [Calls -> Places]
         /\ access' \in [Devices -> BOOLEAN]
         /\ refresh' \in [Devices -> Tokens \cup {NoToken}]
         /\ excused' \subseteq Devices
         /\ UNCHANGED <<ask, replayed, found, renewal>>
<1>1. CASE End(c, "refused")
  BY <1>1, EndType DEF Ended
<1>2. CASE pc' = [pc EXCEPT ![c] = "unauthorized"] /\ UNCHANGED <<ask, replayed, found, session, excused>>
  BY <1>2 DEF TypeOK, Places, session
<1> QED
  BY <1>1, <1>2 DEF Unauthorized

LEMMA ClientType == ASSUME TypeOK, NEW c \in Calls, Client(c) PROVE TypeOK'
<1>0. ask[c].page \in Pages /\ Device(c) \in Devices
  BY Known
<1>1. CASE Start(c)
  <2> pc' \in [Calls -> Places]
    BY <1>1 DEF Start, TypeOK, Places
  <2> QED
    BY <1>1 DEF Start, session, tokens, otp, guard, outgoing, TypeOK
<1>2. CASE Send(c)
  <2>1. /\ pc' \in [Calls -> Places]
        /\ access' \in [Devices -> BOOLEAN]
        /\ refresh' \in [Devices -> Tokens \cup {NoToken}]
        /\ excused' \subseteq Devices
        /\ UNCHANGED <<ask, replayed, found, renewal>>
    <3>1. CASE Unauthorized(c)
      BY <3>1, UnauthorizedType
    <3>2. CASE pc' = [pc EXCEPT ![c] = "received"] /\ UNCHANGED <<ask, replayed, found, session, excused>>
      BY <3>2 DEF TypeOK, Places, session
    <3> QED
      BY <1>2, <3>1, <3>2 DEF Send
  <2> QED
    BY <1>2, <2>1 DEF Send, tokens, otp, guard, outgoing, TypeOK
<1>3. CASE Cut(c)
  <2> End(c, "cut") /\ "cut" \in Ended
    BY <1>3 DEF Cut, Ended
  <2> QED
    BY <1>3, EndType DEF Cut, tokens, otp, guard, outgoing, TypeOK
<1>4. CASE AwaitRenewal(c)
  <2>1. pc' \in [Calls -> Places]
    BY <1>4 DEF AwaitRenewal, TypeOK, Places
  <2>2. /\ renewal' \in [Pages -> Renewal]
        /\ \A p \in Pages : renewal'[p].phase # "NONE" => renewal'[p].token # NoToken
    <3>1. CASE renewal' = renewal
      BY <3>1 DEF TypeOK
    <3>2. CASE /\ renewal' = [renewal EXCEPT ![ask[c].page] = [phase |-> "ASKED", token |-> refresh[Device(c)]]]
               /\ refresh[Device(c)] # NoToken
      <4> [phase |-> "ASKED", token |-> refresh[Device(c)]] \in Renewal
        BY <1>0 DEF TypeOK, Renewal, Phases
      <4> QED
        BY <1>0, <3>2 DEF TypeOK
    <3> QED
      BY <1>4, <3>1, <3>2 DEF AwaitRenewal
  <2>3. excused' \subseteq Devices
    BY <1>0, <1>4 DEF AwaitRenewal, TypeOK
  <2> QED
    BY <1>4, <2>1, <2>2, <2>3 DEF AwaitRenewal, tokens, otp, guard, outgoing, TypeOK
<1>5. CASE NothingToRenew(c)
  <2> pc' \in [Calls -> Places] /\ access' \in [Devices -> BOOLEAN]
    BY <1>5 DEF NothingToRenew, TypeOK, Places, Ended
  <2> QED
    BY <1>5 DEF NothingToRenew, tokens, otp, guard, outgoing, TypeOK
<1> QED
  BY <1>1, <1>2, <1>3, <1>4, <1>5 DEF Client

LEMMA HandlerType == ASSUME TypeOK, NEW c \in Calls, Handler(c) \/ Conclude(c) PROVE TypeOK'
<1>0. ask[c].page \in Pages /\ Device(c) \in Devices /\ ask[c].amount \in Nat
  BY Known
<1>1. CASE Read(c)
  <2> End(c, "ok") /\ "ok" \in Ended
    BY <1>1 DEF Read, Ended
  <2> QED
    BY <1>1, EndType DEF Read, tokens, otp, guard, outgoing, TypeOK
<1>2. CASE Logout(c)
  <2> /\ pc' \in [Calls -> Places]
      /\ state' \in [Tokens -> {"NONE", "LIVE", "ROTATED", "CLOSED"}]
      /\ raced' \subseteq Tokens
      /\ access' \in [Devices -> BOOLEAN]
      /\ refresh' \in [Devices -> Tokens \cup {NoToken}]
    BY <1>0, <1>2 DEF Logout, TypeOK, Places, Ended
  <2> QED
    BY <1>2 DEF Logout, otp, guard, outgoing, TypeOK
<1>3. CASE AssertNotLocked(c)
  <2>1. /\ pc' \in [Calls -> Places]
        /\ access' \in [Devices -> BOOLEAN]
        /\ refresh' \in [Devices -> Tokens \cup {NoToken}]
        /\ excused' \subseteq Devices
        /\ locked' \in BOOLEAN
        /\ UNCHANGED <<ask, replayed, found, renewal>>
    <3>1. CASE Unauthorized(c) /\ locked' = locked
      BY <3>1, UnauthorizedType DEF TypeOK
    <3>2. CASE /\ pc' = [pc EXCEPT ![c] = "admitted"] /\ locked' = FALSE
               /\ UNCHANGED <<ask, replayed, found, session, excused>>
      BY <3>2 DEF TypeOK, Places, session
    <3> QED
      BY <1>3, <3>1, <3>2 DEF AssertNotLocked
  <2> QED
    BY <1>3, <2>1 DEF AssertNotLocked, tokens, otp, outgoing, TypeOK
<1>4. CASE RecordFailure(c)
  <2>1. /\ pc' \in [Calls -> Places]
        /\ access' \in [Devices -> BOOLEAN]
        /\ refresh' \in [Devices -> Tokens \cup {NoToken}]
        /\ excused' \subseteq Devices
        /\ UNCHANGED <<ask, replayed, found, renewal>>
    <3>1. CASE Unauthorized(c)
      BY <3>1, UnauthorizedType
    <3>2. CASE pc' = [pc EXCEPT ![c] = "counted"] /\ UNCHANGED <<ask, replayed, found, session, excused>>
      BY <3>2 DEF TypeOK, Places, session
    <3> QED
      BY <1>4, <3>1, <3>2 DEF RecordFailure
  <2>2. failures' \in Nat
    BY <1>4 DEF RecordFailure, TypeOK
  <2> QED
    BY <1>4, <2>1, <2>2 DEF RecordFailure, tokens, otp, outgoing, TypeOK
<1>5. CASE Lock(c)
  <2> Unauthorized(c)
    BY <1>5 DEF Lock
  <2> QED
    BY <1>5, UnauthorizedType DEF Lock, tokens, otp, outgoing, TypeOK
<1>6. CASE RecordSuccess(c)
  <2> pc' \in [Calls -> Places]
    BY <1>6 DEF RecordSuccess, TypeOK, Places
  <2> QED
    BY <1>6 DEF RecordSuccess, session, tokens, otp, outgoing, TypeOK
<1>7. CASE FindCode(c)
  <2>1. PICK k \in codes : found' = [found EXCEPT ![c] = k]
    BY <1>7 DEF FindCode
  <2>2. found' \in [Calls -> 0..MaxCodes] /\ pc' \in [Calls -> Places]
    BY <1>7, <2>1, AccountsAssumption DEF FindCode, TypeOK, Places
  <2> QED
    BY <1>7, <2>2 DEF FindCode, session, tokens, otp, guard, outgoing, TypeOK
<1>8. CASE UseCode(c) \/ IssueWithoutCode(c)
  <2>1. /\ refresh' \in [Devices -> Tokens \cup {NoToken}]
        /\ access' \in [Devices -> BOOLEAN]
        /\ state' \in [Tokens -> {"NONE", "LIVE", "ROTATED", "CLOSED"}]
    <3>1. access' = access \/ access' = [access EXCEPT ![Device(c)] = TRUE]
      BY <1>8 DEF UseCode, IssueWithoutCode, Stores, StoresNothing
    <3>2. refresh' = refresh \/ \E t \in Tokens : refresh' = [refresh EXCEPT ![Device(c)] = t]
      BY <1>8 DEF UseCode, IssueWithoutCode, Stores, StoresNothing
    <3>3. state' = state \/ \E t \in Tokens : state' = [state EXCEPT ![t] = "LIVE"]
      BY <1>8 DEF UseCode, IssueWithoutCode, Issue
    <3>4. access' \in [Devices -> BOOLEAN]
      BY <1>0, <3>1 DEF TypeOK
    <3>5. refresh' \in [Devices -> Tokens \cup {NoToken}]
      BY <1>0, <3>2 DEF TypeOK
    <3>6. state' \in [Tokens -> {"NONE", "LIVE", "ROTATED", "CLOSED"}]
      BY <3>3 DEF TypeOK
    <3> QED
      BY <3>4, <3>5, <3>6
  <2>2. pc' \in [Calls -> Places]
    BY <1>8 DEF UseCode, IssueWithoutCode, Stores, StoresNothing, TypeOK, Places, Ended
  <2>3. codes' \subseteq 1..MaxCodes /\ bare' \subseteq Tokens /\ UNCHANGED sent
    BY <1>8 DEF UseCode, IssueWithoutCode, TypeOK
  <2> QED
    BY <1>8, <2>1, <2>2, <2>3 DEF UseCode, IssueWithoutCode, guard, outgoing, TypeOK
<1>81. CASE SendCode(c)
  <2>1. sent + 1 \in 1..MaxCodes /\ sent + 1 \in 0..MaxCodes
    BY <1>81, AccountsAssumption DEF SendCode, TypeOK
  <2>2. PICK outcome \in {"ok", "refused"} : End(c, outcome)
    BY <1>81 DEF SendCode
  <2>3. outcome \in Ended
    BY <2>2 DEF Ended
  <2> QED
    BY <1>81, <2>1, <2>2, <2>3, EndType DEF SendCode, tokens, guard, outgoing, TypeOK
<1>82. CASE CodeSentAlready(c)
  <2> End(c, "ok") /\ "ok" \in Ended
    BY <1>82 DEF CodeSentAlready, Ended
  <2> QED
    BY <1>82, EndType DEF CodeSentAlready, tokens, otp, guard, outgoing, TypeOK
<1>9. CASE Refuse(c)
  <2> End(c, "refused") /\ "refused" \in Ended
    BY <1>9 DEF Refuse, Ended
  <2> QED
    BY <1>9, EndType DEF Refuse, tokens, otp, guard, outgoing, TypeOK
<1>10. CASE AssertWithinMonthlyLimit(c)
  <2> pc' \in [Calls -> Places] /\ uncounted' \in BOOLEAN
    BY <1>10 DEF AssertWithinMonthlyLimit, Uncounted, TypeOK, Places
  <2> QED
    BY <1>10 DEF AssertWithinMonthlyLimit, session, tokens, otp, guard, TypeOK
<1>11. CASE Move(c)
  <2>1. End(c, "ok") /\ "ok" \in Ended
    BY <1>11 DEF Move, Ended
  <2>2. spent' \in Nat /\ pending' \subseteq Calls
    BY <1>0, <1>11 DEF Move, TypeOK
  <2> QED
    BY <1>11, <2>1, <2>2, EndType DEF Move, tokens, otp, guard, TypeOK
<1>12. CASE Conclude(c)
  <2> spent' \in Nat /\ pending' \subseteq Calls
    BY <1>0, <1>12 DEF Conclude, TypeOK
  <2> QED
    BY <1>12 DEF Conclude, calls, session, tokens, otp, guard, TypeOK
<1> QED
  BY <1>1, <1>2, <1>3, <1>4, <1>5, <1>6, <1>7, <1>8, <1>81, <1>82, <1>9, <1>10, <1>11, <1>12
     DEF Handler

LEMMA RefreshType == ASSUME TypeOK, NEW p \in Pages, Refresh(p) PROVE TypeOK'
<1>0. /\ DeviceOf[p] \in Devices
      /\ renewal[p] \in Renewal
      /\ renewal[p].phase # "NONE" => renewal[p].token \in Tokens
  <2>1. renewal[p] \in Renewal
    BY DEF TypeOK
  <2>2. DeviceOf[p] \in Devices
    BY Known
  <2>3. renewal[p].phase # "NONE" => renewal[p].token \in Tokens
    BY Known
  <2> QED
    BY <2>1, <2>2, <2>3
<1>1. ASSUME NEW phase \in Phases \ {"NONE"}, renewal[p].phase # "NONE", GoTo(p, phase)
      PROVE  /\ renewal' \in [Pages -> Renewal]
             /\ \A q \in Pages : renewal'[q].phase # "NONE" => renewal'[q].token # NoToken
  <2>1. renewal' = [renewal EXCEPT ![p] = [renewal[p] EXCEPT !.phase = phase]]
    BY <1>1 DEF GoTo
  <2>2. /\ [renewal[p] EXCEPT !.phase = phase] \in Renewal
        /\ [renewal[p] EXCEPT !.phase = phase].token = renewal[p].token
    BY <1>0 DEF Renewal
  <2>3. renewal[p].token # NoToken
    BY <1>1 DEF TypeOK
  <2> QED
    BY <2>1, <2>2, <2>3 DEF TypeOK
<1>2. ASSUME NEW place \in Places, Release(p, place)
      PROVE  /\ pc' \in [Calls -> Places]
             /\ renewal' \in [Pages -> Renewal]
             /\ \A q \in Pages : renewal'[q].phase # "NONE" => renewal'[q].token # NoToken
             /\ UNCHANGED <<ask, found, state, parent, raced, codes, sent, bare, failures, locked,
                           spent, pending, uncounted>>
  <2> NoRenewal \in Renewal /\ NoRenewal.phase = "NONE"
    BY DEF NoRenewal, Renewal, Phases
  <2> QED
    BY <1>2 DEF Release, TypeOK, tokens, otp, guard, outgoing
<1>3. CASE FindToken(p)
  <2>1. PICK phase \in Phases \ {"NONE"} : GoTo(p, phase)
    BY <1>3 DEF FindToken, Phases
  <2> QED
    BY <1>1, <1>3, <2>1 DEF FindToken, In, calls, tokens, otp, guard, outgoing, TypeOK
<1>4. CASE FindExpired(p)
  <2>1. "REFUSED" \in Phases \ {"NONE"} /\ GoTo(p, "REFUSED") /\ renewal[p].phase # "NONE"
    BY <1>4 DEF FindExpired, In, Phases
  <2>2. /\ state' \in [Tokens -> {"NONE", "LIVE", "ROTATED", "CLOSED"}]
        /\ raced' \subseteq Tokens /\ excused' \subseteq Devices
    BY <1>0, <1>4, <2>1 DEF FindExpired, TypeOK
  <2> QED
    BY <1>1, <1>4, <2>1, <2>2 DEF FindExpired, calls, otp, guard, outgoing, TypeOK
<1>5. CASE RotateToken(p)
  <2>1. PICK t \in Tokens :
          /\ state' = [state EXCEPT ![renewal[p].token] = Revoked(@), ![t] = "LIVE"]
          /\ parent' = [parent EXCEPT ![t] = renewal[p].token]
          /\ raced' = raced \cup ({renewal[p].token} \cap FoundByOthers(p))
          /\ renewal' = [renewal EXCEPT ![p] = [phase |-> "ISSUED", token |-> t]]
          /\ In(p, "FOUND")
          /\ UNCHANGED <<calls, access, refresh, otp, guard, outgoing, excused>>
    BY <1>5 DEF RotateToken
  <2>2. /\ renewal[p].token \in Tokens
        /\ [phase |-> "ISSUED", token |-> t] \in Renewal
        /\ t # NoToken
    BY <1>0, <2>1 DEF In, Renewal, Phases, Tokens, NoToken
  <2>3. /\ state' \in [Tokens -> {"NONE", "LIVE", "ROTATED", "CLOSED"}]
        /\ parent' \in [Tokens -> Tokens \cup {NoToken}]
        /\ raced' \subseteq Tokens
        /\ renewal' \in [Pages -> Renewal]
        /\ \A q \in Pages : renewal'[q].phase # "NONE" => renewal'[q].token # NoToken
    BY <2>1, <2>2 DEF TypeOK, Revoked
  <2> QED
    BY <2>1, <2>3 DEF calls, otp, guard, outgoing, TypeOK
<1>6. CASE DieInRotation(p)
  <2>1. renewal[p].phase # "NONE" /\ \E phase \in Phases \ {"NONE"} : GoTo(p, phase)
    BY <1>6 DEF DieInRotation, In, Phases
  <2>2. /\ state' \in [Tokens -> {"NONE", "LIVE", "ROTATED", "CLOSED"}]
        /\ raced' \subseteq Tokens /\ excused' \subseteq Devices
    BY <1>0, <1>6, <2>1 DEF DieInRotation, Revoked, TypeOK
  <2> QED
    BY <1>1, <1>6, <2>1, <2>2 DEF DieInRotation, calls, otp, guard, outgoing, TypeOK
<1>7. CASE CutRenewal(p) \/ RenewalFails(p)
  <2>1. renewal[p].phase # "NONE" /\ \E phase \in Phases \ {"NONE"} : GoTo(p, phase)
    BY <1>7 DEF CutRenewal, RenewalFails, In, Phases
  <2>2. excused' \subseteq Devices
    BY <1>0, <1>7 DEF CutRenewal, RenewalFails, TypeOK
  <2> QED
    BY <1>1, <1>7, <2>1, <2>2 DEF CutRenewal, RenewalFails, calls, tokens, otp, guard, outgoing, TypeOK
<1>8. CASE Renewed(p)
  <2>1. Release(p, "ready") /\ "ready" \in Places /\ renewal[p].token \in Tokens
    BY <1>0, <1>8 DEF Renewed, Places, In
  <2>2. /\ replayed' \in [Calls -> BOOLEAN]
        /\ access' \in [Devices -> BOOLEAN]
        /\ refresh' \in [Devices -> Tokens \cup {NoToken}]
        /\ excused' = excused
    BY <1>0, <1>8, <2>1 DEF Renewed, Waiting, TypeOK
  <2> QED
    BY <1>2, <2>1, <2>2 DEF TypeOK
<1>9. CASE SignedOut(p) \/ CutSignsOut(p)
  <2>1. Release(p, "signed_out") /\ "signed_out" \in Places
    BY <1>9 DEF SignedOut, CutSignsOut, Places, Ended
  <2>2. /\ access' \in [Devices -> BOOLEAN]
        /\ refresh' \in [Devices -> Tokens \cup {NoToken}]
        /\ UNCHANGED <<replayed, excused>>
    BY <1>0, <1>9 DEF SignedOut, CutSignsOut, TypeOK
  <2> QED
    BY <1>2, <2>1, <2>2 DEF TypeOK
<1>10. CASE RenewalCut(p)
  <2>1. Release(p, "cut") /\ "cut" \in Places
    BY <1>10 DEF RenewalCut, Places, Ended
  <2>2. /\ access' \in [Devices -> BOOLEAN]
        /\ refresh' \in [Devices -> Tokens \cup {NoToken}]
        /\ excused' \subseteq Devices
        /\ UNCHANGED replayed
    BY <1>0, <1>10 DEF RenewalCut, Cleared, TypeOK
  <2> QED
    BY <1>2, <2>1, <2>2 DEF TypeOK
<1> QED
  BY <1>3, <1>4, <1>5, <1>6, <1>7, <1>8, <1>9, <1>10 DEF Refresh

LEMMA NextType == TypeOK /\ [Next]_vars => TypeOK'
<1>1. ASSUME TypeOK, UNCHANGED vars PROVE TypeOK'
  BY <1>1 DEF vars, calls, session, tokens, otp, guard, outgoing, TypeOK
<1> QED
  BY <1>1, ClientType, HandlerType, RefreshType DEF Next

-----------------------------------------------------------------------------
(* How calls move                                                          *)

LEMMA EndMoves ==
  ASSUME TypeOK, NEW c \in Calls, NEW outcome \in Ended, End(c, outcome)
  PROVE  /\ ask' = ask /\ replayed' = replayed
         /\ \A o \in Calls \ {c} : pc'[o] = pc[o]
         /\ pc'[c] \in {outcome, "cut"}
BY DEF End, TypeOK

LEMMA UnauthorizedMoves ==
  ASSUME TypeOK, NEW c \in Calls, Unauthorized(c)
  PROVE  /\ ask' = ask /\ replayed' = replayed
         /\ \A o \in Calls \ {c} : pc'[o] = pc[o]
         /\ pc'[c] \in {"refused", "cut"} \/ (pc'[c] = "unauthorized" /\ ~replayed[c])
<1>1. CASE End(c, "refused")
  BY <1>1, EndMoves DEF Ended
<1>2. CASE /\ ~replayed[c]
           /\ pc' = [pc EXCEPT ![c] = "unauthorized"] /\ UNCHANGED <<ask, replayed, found, session, excused>>
  BY <1>2 DEF TypeOK
<1> QED
  BY <1>1, <1>2 DEF Unauthorized

(* A call that is counted ends, or is to be sent again if it was not yet.  *)
LEMMA CallMoves ==
  ASSUME TypeOK, NEW c \in Calls, Client(c) \/ Handler(c)
  PROVE  /\ ask' = ask /\ replayed' = replayed
         /\ \A o \in Calls \ {c} : pc'[o] = pc[o]
         /\ pc[c] \notin Ended \cup {"waiting"} /\ pc'[c] # "idle"
         /\ pc[c] = "counted" => pc'[c] \in Ended \/ (pc'[c] = "unauthorized" /\ ~replayed[c])
         /\ pc[c] = "unauthorized" => pc'[c] \in {"waiting"} \cup Ended
         /\ pc'[c] = "signed_out" => NothingToRenew(c)
         /\ pc'[c] = "counted" => RecordFailure(c)
         /\ pc'[c] = "admitted" => Secret(c)
         /\ pc'[c] = "allowed" => AssertWithinMonthlyLimit(c)
<1> USE DEF Ended
<1>1. CASE \/ Start(c) \/ AwaitRenewal(c) \/ NothingToRenew(c) \/ RecordSuccess(c) \/ FindCode(c)
           \/ AssertWithinMonthlyLimit(c) \/ Logout(c)
  BY <1>1 DEF Start, AwaitRenewal, NothingToRenew, RecordSuccess, FindCode,
              AssertWithinMonthlyLimit, Logout, TypeOK
<1>11. CASE UseCode(c) \/ IssueWithoutCode(c)
  BY <1>11 DEF UseCode, IssueWithoutCode, Stores, StoresNothing, TypeOK
<1>2. CASE Cut(c) \/ Read(c) \/ SendCode(c) \/ CodeSentAlready(c) \/ Refuse(c) \/ Move(c)
  <2>1. PICK outcome \in {"cut", "ok", "refused"} : End(c, outcome)
    BY <1>2 DEF Cut, Read, SendCode, CodeSentAlready, Refuse, Move
  <2>2. pc[c] \in {"ready", "received", "admitted", "verified", "found", "allowed"}
    BY <1>2 DEF Cut, Read, SendCode, CodeSentAlready, Refuse, Move
  <2> QED
    BY <2>1, <2>2, EndMoves
<1>3. CASE Unauthorized(c) /\ (Send(c) \/ AssertNotLocked(c) \/ Lock(c) \/ RecordFailure(c))
  <2> pc[c] \in {"ready", "received", "counted", "admitted"}
    BY <1>3 DEF Send, AssertNotLocked, Lock, RecordFailure
  <2> QED
    BY <1>3, UnauthorizedMoves
<1>4. CASE /\ ~Unauthorized(c) /\ (Send(c) \/ AssertNotLocked(c) \/ Lock(c) \/ RecordFailure(c))
  BY <1>4 DEF Send, AssertNotLocked, Lock, RecordFailure, TypeOK
<1> QED
  BY <1>1, <1>11, <1>2, <1>3, <1>4 DEF Client, Handler

LEMMA PageMoves ==
  ASSUME TypeOK, NEW p \in Pages, Refresh(p)
  PROVE  /\ ask' = ask
         /\ \A o \in Calls :
              \/ pc'[o] = pc[o] /\ replayed'[o] = replayed[o]
              \/ pc[o] = "waiting" /\ pc'[o] = "ready" /\ replayed'[o]
              \/ pc[o] = "waiting" /\ pc'[o] \in {"signed_out", "cut"} /\ replayed'[o] = replayed[o]
<1>1. CASE \/ FindToken(p) \/ FindExpired(p) \/ RotateToken(p) \/ DieInRotation(p)
           \/ RenewalFails(p) \/ CutRenewal(p)
  BY <1>1 DEF FindToken, FindExpired, RotateToken, DieInRotation, RenewalFails, CutRenewal, calls
<1>2. CASE Renewed(p)
  BY <1>2 DEF Renewed, Release, Waiting, TypeOK
<1>3. CASE SignedOut(p) \/ CutSignsOut(p) \/ RenewalCut(p)
  BY <1>3 DEF SignedOut, CutSignsOut, RenewalCut, Release, Waiting, TypeOK
<1> QED
  BY <1>1, <1>2, <1>3 DEF Refresh

-----------------------------------------------------------------------------
(* The monthly limit                                                       *)

(* Nothing is spent, and nothing more is on its way. *)
LEMMA QuietLimit ==
  ASSUME TypeOK, LimitOK, ask' = ask, UNCHANGED <<spent, pending, uncounted>>,
         \A o \in Calls : pc'[o] = "allowed" => pc[o] = "allowed",
         \A o \in Calls : pc[o] \in Ended => pc'[o] = pc[o]
  PROVE  LimitOK'
BY DEF LimitOK, OnItsWay, TypeOK

LEMMA NextLimit == TypeOK /\ LimitOK /\ [Next]_vars => LimitOK'
<1> SUFFICES ASSUME TypeOK, LimitOK, [Next]_vars PROVE LimitOK'
  OBVIOUS
<1>0. pending \subseteq Calls /\ spent \in Nat /\ \A c \in Calls : ask[c].amount \in Nat
  BY Known DEF TypeOK
<1>1. CASE UNCHANGED vars
  BY <1>1, QuietLimit DEF vars, calls, outgoing
<1>2. ASSUME NEW c \in Calls, AssertWithinMonthlyLimit(c) PROVE LimitOK'
  <2>1. /\ pc[c] = "verified" /\ pc'[c] = "allowed" /\ \A o \in Calls \ {c} : pc'[o] = pc[o]
        /\ spent + ask[c].amount <= Limit
        /\ uncounted' = (uncounted \/ Uncounted(c))
        /\ ask' = ask /\ spent' = spent /\ pending' = pending
    BY <1>2 DEF AssertWithinMonthlyLimit, TypeOK
  <2>2. ~uncounted' => /\ ~uncounted
                       /\ \A o \in Calls \ {c} : ~OnItsWay(o)'
                       /\ spent <= Limit
    BY <2>1 DEF Uncounted, OnItsWay, LimitOK
  <2>3. \A o \in pending' : pc'[o] \in Ended
    BY <1>0, <2>1 DEF LimitOK, Ended
  <2> QED
    BY <2>1, <2>2, <2>3 DEF LimitOK
<1>3. ASSUME NEW c \in Calls, Move(c) PROVE LimitOK'
  <2>1. /\ ask' = ask /\ uncounted' = uncounted
        /\ pc[c] = "allowed" /\ pc'[c] \in {"ok", "cut"}
        /\ \A o \in Calls \ {c} : pc'[o] = pc[o]
    BY <1>3, EndMoves DEF Move, Ended
  <2>2. CASE spent' = spent + ask[c].amount /\ pending' = pending
    <3>1. c \notin pending
      BY <2>1 DEF LimitOK, Ended
    <3>2. ~uncounted => \A o \in Calls : ~OnItsWay(o)'
      BY <2>1, <2>2, <3>1 DEF LimitOK, OnItsWay
    <3>3. \A o \in pending' : pc'[o] \in Ended
      BY <1>0, <2>1, <2>2, <3>1 DEF LimitOK
    <3> QED
      BY <2>1, <2>2, <3>2, <3>3 DEF LimitOK, OnItsWay
  <2>3. CASE spent' = spent /\ pending' = pending \cup {c}
    <3>1. \A o \in pending' : pc'[o] \in Ended
      BY <1>0, <2>1, <2>3 DEF LimitOK, Ended
    <3>2. \A o \in Calls : OnItsWay(o)' => OnItsWay(o)
      BY <2>1, <2>3 DEF OnItsWay
    <3> QED
      BY <2>1, <2>3, <3>1, <3>2 DEF LimitOK
  <2> QED
    BY <1>3, <2>2, <2>3 DEF Move
<1>4. ASSUME NEW c \in Calls, Conclude(c) PROVE LimitOK'
  <2>1. /\ c \in pending /\ pending' = pending \ {c}
        /\ spent' \in {spent, spent + ask[c].amount}
        /\ pc' = pc /\ ask' = ask /\ uncounted' = uncounted
    BY <1>4 DEF Conclude, calls
  <2>2. ~uncounted => \A o \in Calls : ~OnItsWay(o)'
    <3> SUFFICES ASSUME ~uncounted, NEW o \in Calls, OnItsWay(o)' PROVE FALSE
      OBVIOUS
    <3>1. OnItsWay(o) /\ OnItsWay(c)
      BY <2>1 DEF OnItsWay
    <3>2. o = c
      BY <1>0, <3>1 DEF LimitOK
    <3>3. pc[c] \in Ended
      BY <2>1 DEF LimitOK
    <3> QED
      BY <2>1, <3>2, <3>3 DEF OnItsWay, Ended
  <2>3. ~uncounted => spent' <= Limit
    BY <1>0, <2>1, AccountsAssumption DEF LimitOK, OnItsWay
  <2> QED
    BY <2>1, <2>2, <2>3 DEF LimitOK
<1>5. ASSUME NEW c \in Calls, Client(c) \/ Handler(c), ~AssertWithinMonthlyLimit(c), ~Move(c)
      PROVE  LimitOK'
  <2>1. UNCHANGED <<spent, pending, uncounted>>
    BY <1>5 DEF Client, Handler, Start, Send, Cut, AwaitRenewal, NothingToRenew, Read, Logout,
                AssertNotLocked, RecordFailure, Lock, RecordSuccess, IssueWithoutCode, SendCode,
                CodeSentAlready, FindCode, UseCode, Refuse, outgoing
  <2>2. /\ ask' = ask
        /\ \A o \in Calls : pc'[o] = "allowed" => pc[o] = "allowed"
        /\ \A o \in Calls : pc[o] \in Ended => pc'[o] = pc[o]
    BY <1>5, CallMoves
  <2> QED
    BY <2>1, <2>2, QuietLimit
<1>6. ASSUME NEW p \in Pages, Refresh(p) PROVE LimitOK'
  <2>1. UNCHANGED <<spent, pending, uncounted>>
    BY <1>6 DEF Refresh, FindToken, FindExpired, RotateToken, DieInRotation, RenewalFails,
                CutRenewal, Renewed, SignedOut, CutSignsOut, RenewalCut, Release, outgoing
  <2>2. /\ ask' = ask
        /\ \A o \in Calls : pc'[o] = "allowed" => pc[o] = "allowed"
        /\ \A o \in Calls : pc[o] \in Ended => pc'[o] = pc[o]
    BY <1>6, PageMoves DEF Ended
  <2> QED
    BY <2>1, <2>2, QuietLimit
<1> QED
  BY <1>1, <1>2, <1>3, <1>4, <1>5, <1>6 DEF Next

-----------------------------------------------------------------------------
(* Failures                                                                *)

LEMMA OnceTwice ==
  ASSUME TypeOK, FailuresOK
  PROVE  /\ IsFiniteSet(Calls) /\ IsFiniteSet(Once) /\ IsFiniteSet(Twice) /\ IsFiniteSet(WrongEntries)
         /\ Once \subseteq WrongEntries /\ Twice \subseteq WrongEntries
         /\ Cardinality(Once) \in Nat /\ Cardinality(Twice) \in Nat /\ Cardinality(WrongEntries) \in Nat
         /\ Tries <= 2 * Cardinality(WrongEntries)
<1>1. Once \subseteq WrongEntries /\ Twice \subseteq WrongEntries /\ WrongEntries \subseteq Calls
  BY DEF Once, Twice, WrongEntries, TriedOnce, TriedTwice, Wrong, FailuresOK, Ended
<1>2. IsFiniteSet(Calls)
  BY AccountsAssumption
<1>3. IsFiniteSet(WrongEntries)
  BY <1>1, <1>2, FS_Subset
<1>4. /\ IsFiniteSet(Once) /\ Cardinality(Once) <= Cardinality(WrongEntries)
      /\ IsFiniteSet(Twice) /\ Cardinality(Twice) <= Cardinality(WrongEntries)
  BY <1>1, <1>3, FS_Subset
<1>5. Cardinality(Once) \in Nat /\ Cardinality(Twice) \in Nat /\ Cardinality(WrongEntries) \in Nat
  BY <1>3, <1>4, FS_CardinalityType
<1> QED
  BY <1>1, <1>2, <1>3, <1>4, <1>5 DEF Tries

(* The tries of a call are never forgotten. *)
LEMMA TriesGrow ==
  ASSUME TypeOK, FailuresOK, Once \subseteq Once', Twice \subseteq Twice'
  PROVE  /\ Tries \in Nat /\ Tries' \in Nat /\ Tries <= Tries'
         /\ (\E c \in Calls : c \notin Once /\ c \in Once') => Tries + 1 <= Tries'
         /\ (\E c \in Calls : c \notin Twice /\ c \in Twice') => Tries + 1 <= Tries'
<1>1. Once' \subseteq Calls /\ Twice' \subseteq Calls /\ IsFiniteSet(Calls)
  BY AccountsAssumption DEF Once, Twice
<1>2. IsFiniteSet(Once') /\ IsFiniteSet(Twice')
  BY <1>1, FS_Subset
<1>3. /\ IsFiniteSet(Once) /\ Cardinality(Once) <= Cardinality(Once')
      /\ IsFiniteSet(Twice) /\ Cardinality(Twice) <= Cardinality(Twice')
  BY <1>2, FS_Subset
<1>4. /\ Cardinality(Once) \in Nat /\ Cardinality(Twice) \in Nat
      /\ Cardinality(Once') \in Nat /\ Cardinality(Twice') \in Nat
  BY <1>2, <1>3, FS_CardinalityType
<1>5. Tries' = Cardinality(Once') + Cardinality(Twice')
  BY DEF Tries
<1>6. ASSUME NEW c \in Calls, c \notin Once, c \in Once' PROVE Cardinality(Once) + 1 <= Cardinality(Once')
  <2>1. Once # Once' /\ Once \subseteq Once'
    BY <1>6
  <2>2. Cardinality(Once) # Cardinality(Once')
    BY <1>2, <2>1, FS_Subset
  <2> QED
    BY <1>3, <1>4, <2>2
<1>7. ASSUME NEW c \in Calls, c \notin Twice, c \in Twice' PROVE Cardinality(Twice) + 1 <= Cardinality(Twice')
  <2>1. Twice # Twice' /\ Twice \subseteq Twice'
    BY <1>7
  <2>2. Cardinality(Twice) # Cardinality(Twice')
    BY <1>2, <2>1, FS_Subset
  <2> QED
    BY <1>3, <1>4, <2>2
<1> QED
  BY <1>3, <1>4, <1>5, <1>6, <1>7 DEF Tries

(* No step forgets a try. *)
LEMMA NothingForgotten ==
  ASSUME TypeOK, FailuresOK, [Next]_vars
  PROVE  /\ ask' = ask
         /\ Once \subseteq Once' /\ Twice \subseteq Twice'
         /\ \A o \in Calls : pc'[o] = "idle" => ~replayed'[o]
         /\ \A o \in Calls : pc'[o] = "admitted" => Secret(o)'
<1>1. CASE UNCHANGED vars
  BY <1>1 DEF vars, calls, Once, Twice, TriedOnce, TriedTwice, Wrong, Secret, FailuresOK
<1>2. ASSUME NEW c \in Calls, Client(c) \/ Handler(c)
      PROVE  /\ ask' = ask
             /\ Once \subseteq Once' /\ Twice \subseteq Twice'
             /\ \A o \in Calls : pc'[o] = "idle" => ~replayed'[o]
             /\ \A o \in Calls : pc'[o] = "admitted" => Secret(o)'
  <2>1. /\ ask' = ask /\ replayed' = replayed
        /\ \A o \in Calls : pc[o] \in {"counted", "unauthorized", "waiting"} \cup Ended =>
                            pc'[o] \in {"counted", "unauthorized", "waiting"} \cup Ended
        /\ \A o \in Calls : replayed[o] /\ pc[o] \in {"counted"} \cup Ended =>
                            pc'[o] \in {"counted"} \cup Ended
        /\ \A o \in Calls : pc'[o] = "idle" => pc[o] = "idle"
        /\ \A o \in Calls : pc'[o] = "admitted" => Secret(o)
    BY <1>2, CallMoves DEF FailuresOK
  <2> QED
    BY <2>1 DEF Once, Twice, TriedOnce, TriedTwice, Wrong, Secret, FailuresOK
<1>3. ASSUME NEW c \in Calls, Conclude(c)
      PROVE  /\ ask' = ask
             /\ Once \subseteq Once' /\ Twice \subseteq Twice'
             /\ \A o \in Calls : pc'[o] = "idle" => ~replayed'[o]
             /\ \A o \in Calls : pc'[o] = "admitted" => Secret(o)'
  BY <1>3 DEF Conclude, calls, Once, Twice, TriedOnce, TriedTwice, Wrong, Secret, FailuresOK
<1>4. ASSUME NEW p \in Pages, Refresh(p)
      PROVE  /\ ask' = ask
             /\ Once \subseteq Once' /\ Twice \subseteq Twice'
             /\ \A o \in Calls : pc'[o] = "idle" => ~replayed'[o]
             /\ \A o \in Calls : pc'[o] = "admitted" => Secret(o)'
  <2>1. /\ ask' = ask
        /\ \A o \in Calls :
             /\ replayed[o] => replayed'[o]
             /\ pc[o] \in {"counted", "unauthorized", "waiting"} \cup Ended =>
                  replayed'[o] \/ pc'[o] \in {"counted", "unauthorized", "waiting"} \cup Ended
             /\ pc[o] \in {"counted"} \cup Ended => pc'[o] = pc[o]
             /\ pc'[o] = "idle" => pc[o] = "idle" /\ replayed'[o] = replayed[o]
             /\ pc'[o] = "admitted" => pc[o] = "admitted"
    BY <1>4, PageMoves DEF Ended
  <2> QED
    BY <2>1 DEF Once, Twice, TriedOnce, TriedTwice, Wrong, Secret, FailuresOK
<1> QED
  BY <1>1, <1>2, <1>3, <1>4 DEF Next

LEMMA NextFailures == TypeOK /\ FailuresOK /\ [Next]_vars => FailuresOK'
<1> SUFFICES ASSUME TypeOK, FailuresOK, [Next]_vars PROVE FailuresOK'
  OBVIOUS
<1>0. /\ Tries \in Nat /\ Tries' \in Nat /\ Tries <= Tries'
      /\ (\E c \in Calls : c \notin Once /\ c \in Once') => Tries + 1 <= Tries'
      /\ (\E c \in Calls : c \notin Twice /\ c \in Twice') => Tries + 1 <= Tries'
      /\ \A o \in Calls : pc'[o] = "idle" => ~replayed'[o]
      /\ \A o \in Calls : pc'[o] = "admitted" => Secret(o)'
      /\ failures \in Nat /\ MaxAttempts \in Nat
  BY NothingForgotten, TriesGrow, AccountsAssumption DEF TypeOK
<1> HIDE DEF Tries
<1>1. ASSUME NEW c \in Calls, RecordFailure(c) PROVE FailuresOK'
  <2>1. /\ pc[c] = "admitted" /\ Wrong(c) /\ failures' = failures + 1 /\ locked' = locked
        /\ pc'[c] \in {"counted", "refused", "cut"} \/ (pc'[c] = "unauthorized" /\ ~replayed[c])
        /\ pc'[c] = "counted" => MaxAttempts <= failures + 1
        /\ \A o \in Calls \ {c} : pc'[o] = pc[o]
        /\ ask' = ask /\ replayed' = replayed
    <3>1. CASE Unauthorized(c)
      BY <1>0, <1>1, <3>1, UnauthorizedMoves DEF RecordFailure, Wrong, FailuresOK
    <3>2. CASE ~Unauthorized(c)
      BY <1>0, <1>1, <3>2 DEF RecordFailure, Wrong, FailuresOK, TypeOK
    <3> QED
      BY <3>1, <3>2
  <2>2. ~(c \in Once /\ c \in Twice) /\ (c \in Once => replayed[c])
    BY <2>1 DEF Once, Twice, TriedOnce, TriedTwice, Ended
  <2>3. CASE ~replayed[c]
    <3> c \notin Once /\ c \in Once'
      BY <2>1, <2>2, <2>3 DEF Once, TriedOnce, Wrong, Secret, Ended
    <3> QED
      BY <1>0, <2>1 DEF FailuresOK
  <2>4. CASE replayed[c]
    <3> c \notin Twice /\ c \in Twice'
      BY <2>1, <2>4 DEF Twice, TriedTwice, Wrong, Secret, Ended
    <3> QED
      BY <1>0, <2>1 DEF FailuresOK
  <2> QED
    BY <2>3, <2>4
<1>2. ASSUME NEW c \in Calls, Lock(c) PROVE FailuresOK'
  <2>1. pc[c] = "counted" /\ failures' = 0 /\ \A o \in Calls : pc'[o] = "counted" => pc[o] = "counted"
    BY <1>2, UnauthorizedMoves DEF Lock
  <2> QED
    BY <1>0, <2>1 DEF FailuresOK
<1>3. ASSUME UNCHANGED failures \/ failures' = 0, locked' => locked,
             \A o \in Calls : pc'[o] = "counted" => pc[o] = "counted"
      PROVE  FailuresOK'
  BY <1>0, <1>3 DEF FailuresOK
<1>4. CASE UNCHANGED vars
  BY <1>3, <1>4 DEF vars, calls, guard
<1>5. ASSUME NEW c \in Calls, Client(c) \/ Handler(c), ~RecordFailure(c), ~Lock(c) PROVE FailuresOK'
  <2>1. UNCHANGED failures \/ failures' = 0
    BY <1>5 DEF Client, Handler, Start, Send, Cut, AwaitRenewal, NothingToRenew, Read, Logout,
                AssertNotLocked, RecordSuccess, IssueWithoutCode, SendCode,
                CodeSentAlready, FindCode, UseCode, Refuse,
                AssertWithinMonthlyLimit, Move, guard
  <2>2. locked' => locked
    BY <1>5 DEF Client, Handler, Start, Send, Cut, AwaitRenewal, NothingToRenew, Read, Logout,
                AssertNotLocked, RecordSuccess, IssueWithoutCode, SendCode,
                CodeSentAlready, FindCode, UseCode, Refuse,
                AssertWithinMonthlyLimit, Move, guard
  <2>3. \A o \in Calls : pc'[o] = "counted" => pc[o] = "counted"
    BY <1>5, CallMoves
  <2> QED
    BY <1>3, <2>1, <2>2, <2>3
<1>6. ASSUME NEW c \in Calls, Conclude(c) PROVE FailuresOK'
  BY <1>3, <1>6 DEF Conclude, calls, guard
<1>7. ASSUME NEW p \in Pages, Refresh(p) PROVE FailuresOK'
  <2>1. UNCHANGED <<failures, locked>>
    BY <1>7 DEF Refresh, FindToken, FindExpired, RotateToken, DieInRotation, RenewalFails,
                CutRenewal, Renewed, SignedOut, CutSignsOut, RenewalCut, Release, guard
  <2>2. \A o \in Calls : pc'[o] = "counted" => pc[o] = "counted"
    BY <1>7, PageMoves
  <2> QED
    BY <1>3, <2>1, <2>2
<1> QED
  BY <1>1, <1>2, <1>4, <1>5, <1>6, <1>7 DEF Next

-----------------------------------------------------------------------------
(* Refresh tokens                                                          *)

(* The calls that do nothing to the tokens. *)
LEMMA OtherCalls ==
  ASSUME NEW c \in Calls, Client(c) \/ Handler(c) \/ Conclude(c),
         ~Logout(c), ~UseCode(c), ~IssueWithoutCode(c)
  PROVE  UNCHANGED tokens
BY DEF Client, Handler, Conclude, Start, Send, Cut, AwaitRenewal, NothingToRenew, Read,
       AssertNotLocked, RecordFailure, Lock, RecordSuccess, SendCode, CodeSentAlready, FindCode,
       Refuse, AssertWithinMonthlyLimit, Move

(* A login that is granted issues a token or none; its device stores it or *)
(* keeps the one it has.                                                   *)
LEMMA LoginIssues ==
  ASSUME TypeOK, NEW c \in Calls, UseCode(c) \/ IssueWithoutCode(c)
  PROVE  /\ UNCHANGED <<renewal, parent, raced, excused>>
         /\ \/ UNCHANGED <<state, refresh>>
            \/ \E t \in Tokens :
                 /\ state[t] = "NONE" /\ state' = [state EXCEPT ![t] = "LIVE"]
                 /\ refresh' = refresh \/ refresh' = [refresh EXCEPT ![Device(c)] = t]
BY DEF UseCode, IssueWithoutCode, Issue, Stores, StoresNothing, Fresh

(* A call starts a renewal, or leaves the renewals alone. *)
LEMMA CallRenewals ==
  ASSUME TypeOK, NEW c \in Calls, Client(c) \/ Handler(c) \/ Conclude(c)
  PROVE  \A p \in Pages : renewal'[p] = renewal[p] \/ In(p, "ASKED")'
<1>1. ASSUME Unauthorized(c) PROVE renewal' = renewal
  BY <1>1, UnauthorizedType
<1>2. ASSUME NEW outcome \in Ended, End(c, outcome) PROVE renewal' = renewal
  BY <1>2, EndType
<1>3. CASE Cut(c) \/ Read(c) \/ SendCode(c) \/ CodeSentAlready(c) \/ Refuse(c) \/ Move(c)
  BY <1>2, <1>3 DEF Cut, Read, SendCode, CodeSentAlready, Refuse, Move, Ended
<1>4. CASE Send(c) \/ AssertNotLocked(c) \/ RecordFailure(c) \/ Lock(c)
  BY <1>1, <1>4 DEF Send, AssertNotLocked, RecordFailure, Lock, session
<1>5. CASE AwaitRenewal(c)
  BY <1>5, Known DEF AwaitRenewal, In, TypeOK
<1>6. CASE \/ Start(c) \/ NothingToRenew(c) \/ Logout(c) \/ RecordSuccess(c) \/ FindCode(c)
           \/ UseCode(c) \/ IssueWithoutCode(c) \/ AssertWithinMonthlyLimit(c) \/ Conclude(c)
  BY <1>6 DEF Start, NothingToRenew, Logout, RecordSuccess, FindCode, UseCode, IssueWithoutCode,
              AssertWithinMonthlyLimit, Conclude, session
<1> QED
  BY <1>3, <1>4, <1>5, <1>6 DEF Client, Handler

(* Nothing is issued or revoked, and no refresh finds a token. *)
LEMMA QuietTokens ==
  ASSUME TokensOK, UNCHANGED <<state, parent, raced>>,
         \A p \in Pages : In(p, "FOUND")' => renewal'[p] = renewal[p]
  PROVE  TokensOK'
BY DEF TokensOK, Heirs, In

(* Token t is revoked, for good; whoever has found it is noted. *)
LEMMA RevokeTokens ==
  ASSUME TypeOK, TokensOK, NEW T \in SUBSET Tokens, parent' = parent,
         \A t \in Tokens \ T : state'[t] = state[t],
         \A t \in T : state'[t] # "ROTATED" => state[t] # "ROTATED",
         raced \subseteq raced',
         \A p \in Pages : In(p, "FOUND")' =>
           renewal'[p] = renewal[p] /\ (renewal[p].token \in T => renewal[p].token \in raced')
  PROVE  TokensOK'
<1>1. \A t \in Tokens : Heirs(t)' = Heirs(t)
  BY DEF Heirs
<1>2. ASSUME NEW t \in Tokens \ raced'
      PROVE  (\A u, v \in Heirs(t) : u = v)' /\ (state'[t] # "ROTATED" => Heirs(t)' = {})
  BY <1>1, <1>2 DEF TokensOK
<1>3. ASSUME NEW p \in Pages, In(p, "FOUND")', renewal'[p].token \notin raced'
      PROVE  state'[renewal'[p].token] = "LIVE"
  <2>1. /\ renewal'[p] = renewal[p] /\ In(p, "FOUND")
        /\ renewal[p].token \in Tokens \ T /\ renewal[p].token \notin raced
    BY <1>3, Known DEF In
  <2> QED
    BY <2>1 DEF TokensOK
<1> QED
  BY <1>2, <1>3 DEF TokensOK

LEMMA NextTokens == TypeOK /\ TokensOK /\ [Next]_vars => TokensOK'
<1> SUFFICES ASSUME TypeOK, TokensOK, [Next]_vars PROVE TokensOK'
  OBVIOUS
<1>1. CASE UNCHANGED vars
  BY <1>1, QuietTokens DEF vars, session, tokens
<1>2. ASSUME NEW c \in Calls, Client(c) \/ Handler(c) \/ Conclude(c),
             ~Logout(c), ~UseCode(c), ~IssueWithoutCode(c)
      PROVE  TokensOK'
  <2>1. UNCHANGED <<state, parent, raced>>
    BY <1>2, OtherCalls DEF tokens
  <2>2. \A p \in Pages : In(p, "FOUND")' => renewal'[p] = renewal[p]
    BY <1>2, CallRenewals DEF In
  <2> QED
    BY <2>1, <2>2, QuietTokens
<1>3. ASSUME NEW c \in Calls, Logout(c) PROVE TokensOK'
  <2> DEFINE T == {t \in Tokens : state[t] = "LIVE"}
  <2>1. /\ parent' = parent /\ renewal' = renewal
        /\ T \in SUBSET Tokens
        /\ \A t \in Tokens \ T : state'[t] = state[t]
        /\ \A t \in T : state[t] = "LIVE"
        /\ raced \subseteq raced'
    BY <1>3 DEF Logout
  <2>2. \A p \in Pages : In(p, "FOUND")' =>
          renewal'[p] = renewal[p] /\ (renewal[p].token \in T => renewal[p].token \in raced')
    BY <1>3 DEF Logout, In
  <2> HIDE DEF T
  <2> QED
    BY <2>1, <2>2, RevokeTokens
<1>4. ASSUME NEW c \in Calls, UseCode(c) \/ IssueWithoutCode(c) PROVE TokensOK'
  <2>1. UNCHANGED <<parent, raced, renewal>>
    BY <1>4, LoginIssues
  <2>2. CASE UNCHANGED state
    BY <2>1, <2>2, QuietTokens
  <2>3. ASSUME NEW t \in Tokens, state[t] = "NONE", state' = [state EXCEPT ![t] = "LIVE"]
        PROVE  TokensOK'
    <3>1. \A u \in Tokens : state'[u] = (IF u = t THEN "LIVE" ELSE state[u]) /\ Heirs(u)' = Heirs(u)
      BY <2>1, <2>3 DEF TypeOK, Heirs
    <3>2. ASSUME NEW p \in Pages, In(p, "FOUND")', renewal'[p].token \notin raced'
          PROVE  state'[renewal'[p].token] = "LIVE"
      BY <2>1, <3>1, <3>2, Known DEF TokensOK, In
    <3> QED
      BY <2>1, <2>3, <3>1, <3>2 DEF TokensOK
  <2> QED
    BY <1>4, <2>2, <2>3, LoginIssues
<1>5. ASSUME NEW p \in Pages, FindToken(p) PROVE TokensOK'
  <2>1. /\ UNCHANGED <<state, parent, raced>>
        /\ renewal' = [renewal EXCEPT ![p] = [renewal[p] EXCEPT
                          !.phase = IF state[renewal[p].token] = "LIVE" THEN "FOUND" ELSE "REFUSED"]]
        /\ renewal[p] \in Renewal
    BY <1>5 DEF FindToken, GoTo, tokens, TypeOK
  <2>2. /\ renewal'[p].token = renewal[p].token
        /\ renewal'[p].phase = "FOUND" => state[renewal[p].token] = "LIVE"
        /\ \A q \in Pages \ {p} : renewal'[q] = renewal[q]
    BY <2>1 DEF Renewal, TypeOK
  <2>3. ASSUME NEW q \in Pages, In(q, "FOUND")', renewal'[q].token \notin raced'
        PROVE  state'[renewal'[q].token] = "LIVE"
    BY <2>1, <2>2, <2>3 DEF TokensOK, In
  <2> QED
    BY <2>1, <2>3 DEF TokensOK, Heirs
<1>6. ASSUME NEW p \in Pages, FindExpired(p) \/ DieInRotation(p) PROVE TokensOK'
  <2> DEFINE t == renewal[p].token
  <2>1. /\ parent' = parent
        /\ t \in Tokens
        /\ raced' = raced \cup ({t} \cap FoundByOthers(p))
        /\ renewal[p].phase # "NONE"
        /\ In(p, "FOUND") \/ state'[t] = "CLOSED"
        /\ \A u \in Tokens \ {t} : state'[u] = state[u]
        /\ state'[t] # "ROTATED" => state[t] # "ROTATED"
    BY <1>6, Known DEF FindExpired, DieInRotation, In, TypeOK, Revoked
  <2>2. PICK phase \in {"REFUSED", "CUT"} : GoTo(p, phase)
    BY <1>6 DEF FindExpired, DieInRotation
  <2>3. ~In(p, "FOUND")' /\ \A q \in Pages \ {p} : renewal'[q] = renewal[q]
    BY <2>2 DEF GoTo, In, TypeOK, Renewal
  <2>4. \A q \in Pages : In(q, "FOUND")' =>
          renewal'[q] = renewal[q] /\ (renewal[q].token \in {t} => renewal[q].token \in raced')
    BY <2>1, <2>3 DEF FoundByOthers, In
  <2> QED
    BY <2>1, <2>4, RevokeTokens
<1>7. ASSUME NEW p \in Pages, RotateToken(p) PROVE TokensOK'
  <2>0. PICK o \in Tokens : o = renewal[p].token
    BY <1>7, Known DEF RotateToken, In
  <2>1. PICK t \in Tokens :
          /\ Fresh(t) /\ In(p, "FOUND")
          /\ state' = [state EXCEPT ![o] = Revoked(@), ![t] = "LIVE"]
          /\ parent' = [parent EXCEPT ![t] = o]
          /\ raced' = raced \cup ({o} \cap FoundByOthers(p))
          /\ renewal' = [renewal EXCEPT ![p] = [phase |-> "ISSUED", token |-> t]]
    BY <1>7, <2>0 DEF RotateToken
  <2>2. /\ o \in Tokens /\ state[t] = "NONE"
        /\ o \notin raced => state[o] = "LIVE" /\ o # t
        /\ raced \subseteq raced'
    BY <2>0, <2>1, Known DEF In, Fresh, TokensOK
  <2>3. /\ state'[t] = "LIVE"
        /\ o \notin raced => state'[o] = "ROTATED"
        /\ \A u \in Tokens \ {o, t} : state'[u] = state[u]
        /\ \A u \in Tokens : parent'[u] = IF u = t THEN o ELSE parent[u]
    BY <2>1, <2>2 DEF TypeOK, Revoked
  <2>4. /\ \A u \in Tokens \ {o} : Heirs(u)' \subseteq Heirs(u)
        /\ Heirs(o)' \subseteq Heirs(o) \cup {t}
    BY <2>3 DEF Heirs
  <2>5. ASSUME NEW u \in Tokens \ raced'
        PROVE  (\A v, w \in Heirs(u) : v = w)' /\ (state'[u] # "ROTATED" => Heirs(u)' = {})
    <3>1. CASE u = o
      <4>1. Heirs(o) = {} /\ state'[o] = "ROTATED"
        BY <2>2, <2>3, <2>5, <3>1 DEF TokensOK
      <4> QED
        BY <2>4, <3>1, <4>1
    <3>2. CASE u # o
      <4>1. /\ \A v, w \in Heirs(u) : v = w
            /\ state[u] # "ROTATED" => Heirs(u) = {}
            /\ state'[u] # "ROTATED" => state[u] # "ROTATED"
        BY <2>2, <2>3, <2>5, <3>2 DEF TokensOK
      <4> QED
        BY <2>4, <3>2, <4>1
    <3> QED
      BY <3>1, <3>2
  <2>6. ASSUME NEW q \in Pages, In(q, "FOUND")', renewal'[q].token \notin raced'
        PROVE  state'[renewal'[q].token] = "LIVE"
    <3>1. q # p /\ renewal'[q] = renewal[q] /\ In(q, "FOUND")
      BY <2>1, <2>6 DEF In, TypeOK
    <3>2. renewal[q].token # o
      BY <2>1, <2>6, <3>1 DEF FoundByOthers
    <3>3. renewal[q].token \in Tokens /\ state[renewal[q].token] = "LIVE"
      BY <2>2, <2>6, <3>1, Known DEF TokensOK, In
    <3> QED
      BY <2>2, <2>3, <3>1, <3>2, <3>3
  <2> QED
    BY <2>5, <2>6 DEF TokensOK
<1>8. ASSUME NEW p \in Pages, CutRenewal(p) \/ RenewalFails(p) PROVE TokensOK'
  <2>1. UNCHANGED <<state, parent, raced>> /\ \E phase \in {"CUT", "REFUSED"} : GoTo(p, phase)
    BY <1>8 DEF CutRenewal, RenewalFails, tokens
  <2>2. \A q \in Pages : In(q, "FOUND")' => renewal'[q] = renewal[q]
    BY <2>1 DEF GoTo, In, TypeOK, Renewal
  <2> QED
    BY <2>1, <2>2, QuietTokens
<1>9. ASSUME NEW p \in Pages, Renewed(p) \/ SignedOut(p) \/ CutSignsOut(p) \/ RenewalCut(p)
      PROVE  TokensOK'
  <2>1. UNCHANGED <<state, parent, raced>> /\ renewal' = [renewal EXCEPT ![p] = NoRenewal]
    BY <1>9 DEF Renewed, SignedOut, CutSignsOut, RenewalCut, Release, tokens
  <2>2. \A q \in Pages : In(q, "FOUND")' => renewal'[q] = renewal[q]
    BY <2>1 DEF NoRenewal, In, TypeOK
  <2> QED
    BY <2>1, <2>2, QuietTokens
<1> QED
  BY <1>1, <1>2, <1>3, <1>4, <1>5, <1>6, <1>7, <1>8, <1>9 DEF Next, Refresh

-----------------------------------------------------------------------------
(* One-time codes                                                          *)

First == {d \in Devices : FirstToken[d] # NoToken}
ByCode == Logins \ bare

LEMMA FiniteLogins ==
  ASSUME TypeOK
  PROVE  /\ IsFiniteSet(Logins) /\ IsFiniteSet(ByCode) /\ Cardinality(ByCode) \in Nat
         /\ IsFiniteSet(codes) /\ Cardinality(codes) \in Nat
         /\ IsFiniteSet(First) /\ Cardinality(First) \in Nat
         /\ sent \in Nat
<1>1. IsFiniteSet(Tokens) /\ Logins \subseteq Tokens /\ ByCode \subseteq Logins
  BY AccountsAssumption, FS_Interval DEF Tokens, Logins, ByCode
<1>2. IsFiniteSet(1..MaxCodes) /\ codes \subseteq 1..MaxCodes
  BY AccountsAssumption, FS_Interval DEF TypeOK
<1>3. IsFiniteSet(Devices) /\ First \subseteq Devices
  BY AccountsAssumption DEF First
<1>4. IsFiniteSet(Logins) /\ IsFiniteSet(codes) /\ IsFiniteSet(First)
  BY <1>1, <1>2, <1>3, FS_Subset
<1>5. IsFiniteSet(ByCode)
  BY <1>1, <1>4, FS_Subset
<1> QED
  BY <1>4, <1>5, FS_CardinalityType, AccountsAssumption DEF TypeOK

(* At most one login more. *)
LEMMA OneMore ==
  ASSUME TypeOK, NEW t, ByCode' \subseteq ByCode \cup {t}
  PROVE  Cardinality(ByCode') <= Cardinality(ByCode) + 1 /\ Cardinality(ByCode') \in Nat
<1>1. /\ IsFiniteSet(ByCode \cup {t})
      /\ \/ Cardinality(ByCode \cup {t}) = Cardinality(ByCode)
         \/ Cardinality(ByCode \cup {t}) = Cardinality(ByCode) + 1
  BY FiniteLogins, FS_AddElement
<1>2. IsFiniteSet(ByCode') /\ Cardinality(ByCode') <= Cardinality(ByCode \cup {t})
  BY <1>1, FS_Subset
<1> QED
  BY <1>1, <1>2, FiniteLogins, FS_CardinalityType

(* Tokens are neither issued nor given a parent, codes neither sent nor    *)
(* used.                                                                   *)
LEMMA QuietCodes ==
  ASSUME CodesOK, parent' = parent, UNCHANGED otp,
         \A t \in Tokens : state'[t] = "NONE" <=> state[t] = "NONE"
  PROVE  CodesOK'
<1>1. Logins' = Logins /\ codes' = codes /\ sent' = sent /\ bare' = bare
  BY DEF Logins, otp
<1> QED
  BY <1>1 DEF CodesOK, CodesOpenOneSession

LEMMA NextCodes == TypeOK /\ CodesOK /\ [Next]_vars => CodesOK'
<1> SUFFICES ASSUME TypeOK, CodesOK, [Next]_vars PROVE CodesOK'
  OBVIOUS
<1>0. CodesOK' <=> /\ \A t \in Tokens : state'[t] = "NONE" => parent'[t] = NoToken
                   /\ Cardinality(ByCode') + Cardinality(codes') <= Cardinality(First) + sent'
  BY DEF CodesOK, CodesOpenOneSession, First, ByCode
<1>00. Cardinality(ByCode) + Cardinality(codes) <= Cardinality(First) + sent
  BY DEF CodesOK, CodesOpenOneSession, First, ByCode
<1>1. CASE UNCHANGED vars
  BY <1>1, QuietCodes DEF vars, tokens
<1>2. ASSUME NEW c \in Calls, SendCode(c) PROVE CodesOK'
  <2>1. /\ codes' = codes \cup {sent + 1} /\ sent' = sent + 1
        /\ ByCode' = ByCode /\ UNCHANGED <<state, parent>>
    BY <1>2 DEF SendCode, tokens, Logins, ByCode
  <2>2. IsFiniteSet(codes') /\ (Cardinality(codes') = Cardinality(codes) \/ Cardinality(codes') = Cardinality(codes) + 1)
    BY <2>1, FiniteLogins, FS_AddElement
  <2>3. Cardinality(codes') <= Cardinality(codes) + 1 /\ Cardinality(codes') \in Nat
    BY <2>2, FiniteLogins
  <2> QED
    BY <1>0, <1>00, <2>1, <2>3, FiniteLogins DEF CodesOK
<1>3. ASSUME NEW c \in Calls, UseCode(c) PROVE CodesOK'
  <2>1. /\ UNCHANGED <<parent, sent, bare>>
        /\ found[c] \in codes /\ codes' = codes \ {found[c]}
    BY <1>3 DEF UseCode
  <2>2. Cardinality(codes') = Cardinality(codes) - 1
    BY <2>1, FiniteLogins, FS_RemoveElement
  <2>3. CASE UNCHANGED state
    <3>1. ByCode' = ByCode
      BY <2>1, <2>3 DEF ByCode, Logins
    <3> QED
      BY <1>0, <1>00, <2>1, <2>2, <2>3, <3>1, FiniteLogins DEF CodesOK
  <2>4. ASSUME NEW t \in Tokens, state[t] = "NONE", state' = [state EXCEPT ![t] = "LIVE"]
        PROVE  CodesOK'
    <3>1. ByCode' \subseteq ByCode \cup {t}
      BY <2>1, <2>4 DEF ByCode, Logins, TypeOK
    <3>2. Cardinality(ByCode') <= Cardinality(ByCode) + 1 /\ Cardinality(ByCode') \in Nat
      BY <3>1, OneMore
    <3>3. \A u \in Tokens : state'[u] = "NONE" => parent'[u] = NoToken
      BY <2>1, <2>4 DEF TypeOK, CodesOK
    <3> QED
      BY <1>0, <1>00, <2>1, <2>2, <3>2, <3>3, FiniteLogins
  <2> QED
    BY <1>3, <2>3, <2>4, LoginIssues
<1>31. ASSUME NEW c \in Calls, IssueWithoutCode(c) PROVE CodesOK'
  <2>1. PICK t \in Tokens : /\ state[t] = "NONE" /\ state' = [state EXCEPT ![t] = "LIVE"]
                            /\ bare' = bare \cup {t}
    BY <1>31 DEF IssueWithoutCode, Issue, Fresh
  <2>2. UNCHANGED <<parent, codes, sent>>
    BY <1>31 DEF IssueWithoutCode
  <2>3. ByCode' \subseteq ByCode
    BY <2>1, <2>2 DEF ByCode, Logins, TypeOK
  <2>4. Cardinality(ByCode') <= Cardinality(ByCode) /\ Cardinality(ByCode') \in Nat
    BY <2>3, FiniteLogins, FS_Subset, FS_CardinalityType
  <2>5. \A u \in Tokens : state'[u] = "NONE" => parent'[u] = NoToken
    BY <2>1, <2>2 DEF TypeOK, CodesOK
  <2> QED
    BY <1>0, <1>00, <2>2, <2>4, <2>5, FiniteLogins
<1>4. ASSUME NEW c \in Calls, Logout(c) PROVE CodesOK'
  <2> /\ parent' = parent /\ UNCHANGED otp
      /\ \A t \in Tokens : state'[t] = "NONE" <=> state[t] = "NONE"
    BY <1>4 DEF Logout, TypeOK
  <2> QED
    BY QuietCodes
<1>5. ASSUME NEW c \in Calls, Client(c) \/ Handler(c) \/ Conclude(c),
             ~SendCode(c), ~UseCode(c), ~IssueWithoutCode(c), ~Logout(c)
      PROVE  CodesOK'
  <2>1. UNCHANGED otp
    BY <1>5 DEF Client, Handler, Conclude, Start, Send, Cut, AwaitRenewal, NothingToRenew, Read,
                AssertNotLocked, RecordFailure, Lock, RecordSuccess, CodeSentAlready, FindCode, Refuse,
                AssertWithinMonthlyLimit, Move
  <2>2. UNCHANGED <<state, parent>>
    BY <1>5, OtherCalls DEF tokens
  <2> QED
    BY <2>1, <2>2, QuietCodes
<1>6. ASSUME NEW p \in Pages, RotateToken(p) PROVE CodesOK'
  <2> DEFINE o == renewal[p].token
  <2>1. PICK t \in Tokens :
          /\ Fresh(t) /\ In(p, "FOUND")
          /\ state' = [state EXCEPT ![o] = Revoked(@), ![t] = "LIVE"]
          /\ parent' = [parent EXCEPT ![t] = o]
          /\ UNCHANGED otp
    BY <1>6 DEF RotateToken
  <2>2. o \in Tokens /\ o # NoToken /\ state[t] = "NONE"
    BY <2>1, Known DEF In, Fresh, TypeOK
  <2>3. /\ \A u \in Tokens \ {t} : (state'[u] = "NONE" <=> state[u] = "NONE") /\ parent'[u] = parent[u]
        /\ state'[t] = "LIVE" /\ parent'[t] = o
    BY <2>1, <2>2 DEF TypeOK, Revoked
  <2>4. ByCode' = ByCode
    BY <2>1, <2>2, <2>3 DEF ByCode, Logins, otp
  <2> QED
    BY <1>0, <1>00, <2>1, <2>3, <2>4 DEF CodesOK, otp
<1>7. ASSUME NEW p \in Pages, Refresh(p), ~RotateToken(p) PROVE CodesOK'
  <2>1. parent' = parent /\ UNCHANGED otp
    BY <1>7 DEF Refresh, FindToken, FindExpired, DieInRotation, RenewalFails, CutRenewal, Renewed,
                SignedOut, CutSignsOut, RenewalCut, Release, tokens
  <2>2. \A t \in Tokens : state'[t] = "NONE" <=> state[t] = "NONE"
    <3>1. CASE FindExpired(p)
      BY <3>1 DEF FindExpired, TypeOK
    <3>2. CASE DieInRotation(p)
      <4>1. renewal[p].token \in Tokens
        BY <3>2, Known DEF DieInRotation, In
      <4>2. state' = [state EXCEPT ![renewal[p].token] = Revoked(@)]
        BY <3>2 DEF DieInRotation
      <4> QED
        BY <4>1, <4>2 DEF Revoked, TypeOK
    <3>3. CASE ~FindExpired(p) /\ ~DieInRotation(p)
      BY <1>7, <3>3 DEF Refresh, FindToken, RenewalFails, CutRenewal, Renewed, SignedOut, CutSignsOut,
                        RenewalCut, Release, tokens
    <3> QED
      BY <3>1, <3>2, <3>3
  <2> QED
    BY <2>1, <2>2, QuietCodes
<1> QED
  BY <1>1, <1>2, <1>3, <1>31, <1>4, <1>5, <1>6, <1>7 DEF Next

-----------------------------------------------------------------------------
(* Causes                                                                  *)

(* No device comes to hold a token, none ceases to be issued. *)
LEMMA QuietHolds ==
  ASSUME HoldsOK,
         \A d \in Devices, t \in Tokens : Holds(d, t)' => Holds(d, t),
         \A t \in Tokens : state'[t] = "NONE" => state[t] = "NONE"
  PROVE  HoldsOK'
<1>1. ASSUME NEW t \in Tokens, NEW d \in Devices, NEW e \in Devices, Holds(d, t)', Holds(e, t)'
      PROVE  d = e
  BY <1>1 DEF HoldsOK
<1>2. ASSUME NEW t \in Tokens, NEW d \in Devices, Holds(d, t)'
      PROVE  state'[t] # "NONE"
  BY <1>2 DEF HoldsOK
<1> QED
  BY <1>1, <1>2 DEF HoldsOK

(* Device d comes to hold a token that is issued by this step. *)
LEMMA FreshHolds ==
  ASSUME HoldsOK, NEW d \in Devices, NEW t \in Tokens, state[t] = "NONE", state'[t] # "NONE",
         \A e \in Devices, u \in Tokens : Holds(e, u)' => Holds(e, u) \/ (e = d /\ u = t),
         \A u \in Tokens : state'[u] = "NONE" => state[u] = "NONE"
  PROVE  HoldsOK'
<1>1. ASSUME NEW u \in Tokens, NEW e \in Devices, NEW f \in Devices, Holds(e, u)', Holds(f, u)'
      PROVE  e = f
  <2>1. CASE u = t
    <3> e = d /\ f = d
      BY <1>1, <2>1 DEF HoldsOK
    <3> QED
      OBVIOUS
  <2>2. CASE u # t
    BY <1>1, <2>2 DEF HoldsOK
  <2> QED
    BY <2>1, <2>2
<1>2. ASSUME NEW u \in Tokens, NEW e \in Devices, Holds(e, u)'
      PROVE  state'[u] # "NONE"
  BY <1>2 DEF HoldsOK
<1> QED
  BY <1>1, <1>2 DEF HoldsOK

(* What a step leaves device d undisturbed by. *)
LEMMA KeepUnharmed ==
  ASSUME TypeOK, NEW d \in Devices, Unharmed(d), refresh'[d] = refresh[d],
         \A p \in Pages : DeviceOf[p] = d => renewal'[p] = renewal[p],
         \A t \in Tokens : Holds(d, t) => state'[t] = state[t]
  PROVE  Unharmed(d)'
<1>1. refresh[d] \in Tokens /\ state'[refresh[d]] = state[refresh[d]]
  <2>1. refresh[d] \in Tokens
    BY DEF Unharmed, TypeOK
  <2> QED
    BY <2>1 DEF Holds
<1>2. ASSUME NEW p \in Pages, DeviceOf[p] = d PROVE Calm(p)'
  <2>1. Calm(p)
    BY <1>2 DEF Unharmed
  <2>2. renewal[p].phase # "NONE" => state'[renewal[p].token] = state[renewal[p].token]
    BY <1>2, Known DEF Holds, Renewing
  <2> QED
    BY <1>2, <2>1, <2>2 DEF Calm, In
<1>3. ASSUME NEW p \in Pages, NEW q \in Pages, DeviceOf[p] = d, DeviceOf[q] = d, Renewing(p)', Renewing(q)'
      PROVE  p = q
  BY <1>3 DEF Unharmed, Renewing
<1>4. (state[refresh[d]] = "LIVE" \/ \E p \in Pages : DeviceOf[p] = d /\ In(p, "ISSUED"))'
  BY <1>1 DEF Unharmed, In
<1> QED
  BY <1>1, <1>2, <1>3, <1>4 DEF Unharmed, NoToken, Tokens

(* A page that renews disturbs its own device only. *)
LEMMA OtherDevices ==
  ASSUME TypeOK, CausesOK, NEW p \in Pages, Renewing(p), excused \subseteq excused',
         \A e \in Devices \ {DeviceOf[p]} : refresh'[e] = refresh[e],
         \A q \in Pages \ {p} : renewal'[q] = renewal[q],
         \A t \in Tokens : state[t] # "NONE" /\ t # renewal[p].token => state'[t] = state[t]
  PROVE  \A e \in Devices \ excused' : e # DeviceOf[p] => Unharmed(e)'
<1> SUFFICES ASSUME NEW e \in Devices \ excused', e # DeviceOf[p] PROVE Unharmed(e)'
  OBVIOUS
<1>1. Unharmed(e)
  BY DEF CausesOK, DevicesOK
<1>2. Holds(DeviceOf[p], renewal[p].token) /\ renewal[p].token \in Tokens /\ DeviceOf[p] \in Devices
  BY Known DEF Holds, Renewing
<1>3. \A t \in Tokens : Holds(e, t) => state'[t] = state[t]
  BY <1>2 DEF CausesOK, HoldsOK
<1> QED
  BY <1>1, <1>3, KeepUnharmed

(* What has cost a device its session is not forgotten. *)
LEMMA ExcusedGrows ==
  ASSUME TypeOK, [Next]_vars
  PROVE  excused \subseteq excused'
<1>1. ASSUME NEW c \in Calls, NEW outcome, End(c, outcome) PROVE excused \subseteq excused'
  BY <1>1 DEF End, Cleared
<1>2. ASSUME NEW c \in Calls, Unauthorized(c) PROVE excused \subseteq excused'
  BY <1>1, <1>2 DEF Unauthorized
<1>3. ASSUME NEW c \in Calls, Client(c) PROVE excused \subseteq excused'
  BY <1>1, <1>2, <1>3 DEF Client, Start, Send, Cut, AwaitRenewal, NothingToRenew
<1>4. ASSUME NEW c \in Calls, Handler(c) PROVE excused \subseteq excused'
  <2>1. CASE \/ Read(c) \/ AssertNotLocked(c) \/ RecordFailure(c) \/ Lock(c) \/ Refuse(c) \/ Move(c)
             \/ SendCode(c) \/ CodeSentAlready(c)
    BY <1>1, <1>2, <2>1 DEF Read, AssertNotLocked, RecordFailure, Lock, Refuse, Move,
                            SendCode, CodeSentAlready
  <2>2. CASE \/ Logout(c) \/ RecordSuccess(c) \/ FindCode(c) \/ UseCode(c) \/ IssueWithoutCode(c)
             \/ AssertWithinMonthlyLimit(c)
    BY <2>2 DEF Logout, RecordSuccess, FindCode, UseCode, IssueWithoutCode, AssertWithinMonthlyLimit,
                TypeOK
  <2> QED
    BY <1>4, <2>1, <2>2 DEF Handler
<1>5. ASSUME NEW p \in Pages, Refresh(p) PROVE excused \subseteq excused'
  BY <1>5 DEF Refresh, FindToken, FindExpired, RotateToken, DieInRotation, RenewalFails,
              CutRenewal, Renewed, SignedOut, CutSignsOut, RenewalCut, Cleared
<1>6. CASE UNCHANGED vars
  BY <1>6 DEF vars
<1> QED
  BY <1>3, <1>4, <1>5, <1>6 DEF Next, Conclude

(* A call that neither renews nor logs in or out clears the tokens of a    *)
(* device, which is then excused, or leaves the sessions alone.            *)
LEMMA OtherSessions ==
  ASSUME TypeOK, NEW c \in Calls, Client(c) \/ Handler(c) \/ Conclude(c),
         ~AwaitRenewal(c), ~Logout(c), ~UseCode(c), ~IssueWithoutCode(c)
  PROVE  /\ renewal' = renewal /\ state' = state
         /\ \A d \in Devices : \/ refresh'[d] = refresh[d]
                               \/ refresh'[d] = NoToken /\ d \in excused'
<1>0. state' = state
  BY OtherCalls DEF tokens
<1>1. ASSUME NEW outcome, End(c, outcome)
      PROVE  /\ renewal' = renewal
             /\ \A d \in Devices : \/ refresh'[d] = refresh[d]
                                   \/ refresh'[d] = NoToken /\ d \in excused'
  BY <1>1 DEF End, Cleared, TypeOK
<1>2. ASSUME Unauthorized(c)
      PROVE  /\ renewal' = renewal
             /\ \A d \in Devices : \/ refresh'[d] = refresh[d]
                                   \/ refresh'[d] = NoToken /\ d \in excused'
  <2>1. CASE End(c, "refused")
    BY <1>1, <2>1
  <2>2. CASE UNCHANGED session
    BY <2>2 DEF session
  <2> QED
    BY <1>2, <2>1, <2>2 DEF Unauthorized
<1>3. CASE Cut(c) \/ Read(c) \/ SendCode(c) \/ CodeSentAlready(c) \/ Refuse(c) \/ Move(c)
  BY <1>0, <1>1, <1>3 DEF Cut, Read, SendCode, CodeSentAlready, Refuse, Move
<1>4. CASE Unauthorized(c)
  BY <1>0, <1>2, <1>4
<1>5. CASE UNCHANGED <<refresh, renewal>>
  BY <1>0, <1>5
<1>6. CASE Send(c) \/ AssertNotLocked(c) \/ RecordFailure(c) \/ Lock(c)
  <2> Unauthorized(c) \/ UNCHANGED session
    BY <1>6 DEF Send, AssertNotLocked, RecordFailure, Lock
  <2> QED
    BY <1>4, <1>5 DEF session
<1>7. CASE \/ Start(c) \/ NothingToRenew(c) \/ RecordSuccess(c) \/ FindCode(c)
           \/ AssertWithinMonthlyLimit(c) \/ Conclude(c)
  BY <1>5, <1>7 DEF Start, NothingToRenew, RecordSuccess, FindCode, AssertWithinMonthlyLimit,
                    Conclude, session
<1> QED
  BY <1>3, <1>6, <1>7 DEF Client, Handler

LEMMA CallHolds ==
  ASSUME TypeOK, HoldsOK, NEW c \in Calls, Client(c) \/ Handler(c) \/ Conclude(c)
  PROVE  HoldsOK'
<1>0. Device(c) \in Devices /\ ask[c].page \in Pages /\ NoToken \notin Tokens
  BY Known DEF NoToken, Tokens
<1>1. CASE AwaitRenewal(c)
  <2>1. /\ refresh' = refresh /\ state' = state
        /\ \A p \in Pages : renewal'[p] = renewal[p] \/ (DeviceOf[p] = Device(c) /\ renewal'[p].token = refresh[Device(c)])
    BY <1>0, <1>1 DEF AwaitRenewal, Device, tokens, TypeOK
  <2>2. ASSUME NEW d \in Devices, NEW t \in Tokens, Holds(d, t)' PROVE Holds(d, t)
    BY <2>1, <2>2 DEF Holds, Renewing
  <2> QED
    BY <2>1, <2>2, QuietHolds
<1>2. CASE Logout(c)
  <2>1. /\ renewal' = renewal
        /\ \A d \in Devices : refresh'[d] \in {refresh[d], NoToken}
        /\ \A t \in Tokens : state'[t] = "NONE" => state[t] = "NONE"
    BY <1>0, <1>2 DEF Logout, TypeOK
  <2>2. ASSUME NEW d \in Devices, NEW t \in Tokens, Holds(d, t)' PROVE Holds(d, t)
    BY <1>0, <2>1, <2>2 DEF Holds, Renewing
  <2> QED
    BY <2>1, <2>2, QuietHolds
<1>3. CASE UseCode(c) \/ IssueWithoutCode(c)
  <2>1. renewal' = renewal
    BY <1>3, LoginIssues
  <2>2. CASE UNCHANGED <<state, refresh>>
    <3>1. \A d \in Devices, t \in Tokens : Holds(d, t)' => Holds(d, t)
      BY <2>1, <2>2 DEF Holds, Renewing
    <3> QED
      BY <2>2, <3>1, QuietHolds
  <2>3. ASSUME NEW t \in Tokens, state[t] = "NONE", state' = [state EXCEPT ![t] = "LIVE"],
               refresh' = refresh \/ refresh' = [refresh EXCEPT ![Device(c)] = t]
        PROVE  HoldsOK'
    <3>1. PICK d \in Devices : d = Device(c)
      BY <1>0
    <3>2. /\ state'[t] = "LIVE" /\ \A u \in Tokens : state'[u] = "NONE" => state[u] = "NONE"
          /\ \A e \in Devices : refresh'[e] = refresh[e] \/ (e = d /\ refresh'[e] = t)
      BY <2>3, <3>1 DEF TypeOK
    <3>3. ASSUME NEW e \in Devices, NEW u \in Tokens, Holds(e, u)'
          PROVE  Holds(e, u) \/ (e = d /\ u = t)
      BY <2>1, <3>2, <3>3 DEF Holds, Renewing
    <3> QED
      BY <2>3, <3>2, <3>3, FreshHolds
  <2> QED
    BY <1>3, <2>2, <2>3, LoginIssues
<1>4. CASE ~AwaitRenewal(c) /\ ~Logout(c) /\ ~UseCode(c) /\ ~IssueWithoutCode(c)
  <2>1. /\ renewal' = renewal /\ state' = state
        /\ \A d \in Devices : refresh'[d] \in {refresh[d], NoToken}
    BY <1>4, OtherSessions
  <2>2. ASSUME NEW d \in Devices, NEW t \in Tokens, Holds(d, t)' PROVE Holds(d, t)
    BY <1>0, <2>1, <2>2 DEF Holds, Renewing
  <2> QED
    BY <2>1, <2>2, QuietHolds
<1> QED
  BY <1>1, <1>2, <1>3, <1>4

LEMMA CallDevices ==
  ASSUME TypeOK, CausesOK, NEW c \in Calls, Client(c) \/ Handler(c) \/ Conclude(c),
         excused \subseteq excused'
  PROVE  DevicesOK'
<1> SUFFICES ASSUME NEW d \in Devices \ excused' PROVE Unharmed(d)'
  BY DEF DevicesOK
<1>0. /\ Unharmed(d) /\ refresh[d] \in Tokens
      /\ Device(c) \in Devices /\ ask[c].page \in Pages
  BY Known DEF CausesOK, DevicesOK, Unharmed, TypeOK
<1>1. CASE AwaitRenewal(c)
  <2>1. CASE UNCHANGED renewal \/ d # Device(c)
    <3>1. \A p \in Pages : DeviceOf[p] = d => renewal'[p] = renewal[p]
      BY <1>0, <1>1, <2>1 DEF AwaitRenewal, Device, TypeOK
    <3>2. refresh' = refresh /\ state' = state
      BY <1>1 DEF AwaitRenewal, tokens
    <3> QED
      BY <1>0, <3>1, <3>2, KeepUnharmed
  <2>2. CASE d = Device(c) /\ renewal[ask[c].page].phase = "NONE"
    <3>1. PICK p \in Pages : p = ask[c].page
      BY <1>0
    <3>2. /\ refresh' = refresh /\ state' = state
          /\ DeviceOf[p] = d
          /\ renewal' = [renewal EXCEPT ![p] = [phase |-> "ASKED", token |-> refresh[d]]]
          /\ \A q \in Pages \ {p} : DeviceOf[q] = d => renewal[q].phase = "NONE"
      BY <1>1, <2>2, <3>1 DEF AwaitRenewal, Device, tokens
    <3>3. state[refresh[d]] = "LIVE"
      BY <1>0, <2>2, <3>1, <3>2 DEF Unharmed, In
    <3>4. /\ renewal'[p] = [phase |-> "ASKED", token |-> refresh[d]]
          /\ \A q \in Pages \ {p} : renewal'[q] = renewal[q]
      BY <3>2 DEF TypeOK
    <3>5. ASSUME NEW q \in Pages, DeviceOf[q] = d PROVE Calm(q)'
      BY <3>2, <3>3, <3>4, <3>5 DEF Calm, In
    <3> QED
      BY <1>0, <3>2, <3>3, <3>4, <3>5 DEF Unharmed, Renewing
  <2> QED
    BY <1>1, <2>1, <2>2 DEF AwaitRenewal
<1>2. CASE Logout(c)
  BY <1>2 DEF Logout
<1>3. CASE UseCode(c) \/ IssueWithoutCode(c)
  <2>1. renewal' = renewal
    BY <1>3, LoginIssues
  <2>2. CASE UNCHANGED <<state, refresh>>
    BY <1>0, <2>1, <2>2, KeepUnharmed
  <2>3. ASSUME NEW t \in Tokens, state[t] = "NONE", state' = [state EXCEPT ![t] = "LIVE"],
               refresh' = refresh \/ refresh' = [refresh EXCEPT ![Device(c)] = t]
        PROVE  Unharmed(d)'
    <3>0. /\ \A u \in Tokens : state'[u] = IF u = t THEN "LIVE" ELSE state[u]
          /\ t # NoToken /\ (refresh'[d] = refresh[d] \/ refresh'[d] = t)
      BY <1>0, <2>3 DEF TypeOK, Tokens, NoToken
    <3>1. CASE refresh'[d] = refresh[d]
      <4>1. \A u \in Tokens : Holds(d, u) => state'[u] = state[u]
        BY <2>3, <3>0 DEF CausesOK, HoldsOK
      <4> QED
        BY <1>0, <2>1, <3>1, <4>1, KeepUnharmed
    <3>2. CASE refresh'[d] = t
      <4>1. ASSUME NEW q \in Pages, DeviceOf[q] = d PROVE Calm(q)'
        <5>1. Calm(q)
          BY <1>0, <4>1 DEF Unharmed
        <5>2. renewal[q].phase # "NONE" => renewal[q].token \in Tokens
          BY Known
        <5> QED
          BY <2>1, <3>0, <5>1, <5>2 DEF Calm, In
      <4>2. \A p, q \in Pages : (DeviceOf[p] = d /\ DeviceOf[q] = d /\ Renewing(p) /\ Renewing(q) => p = q)'
        BY <1>0, <2>1 DEF Unharmed, Renewing
      <4> QED
        BY <3>0, <3>2, <4>1, <4>2 DEF Unharmed
    <3> QED
      BY <3>0, <3>1, <3>2
  <2> QED
    BY <1>3, <2>2, <2>3, LoginIssues
<1>4. CASE ~AwaitRenewal(c) /\ ~Logout(c) /\ ~UseCode(c) /\ ~IssueWithoutCode(c)
  <2>1. renewal' = renewal /\ state' = state /\ refresh'[d] = refresh[d]
    BY <1>4, OtherSessions
  <2> QED
    BY <1>0, <2>1, KeepUnharmed
<1> QED
  BY <1>1, <1>2, <1>3, <1>4

(* Page p fulfils its promise: what it holds is dropped or stored. *)
LEMMA Fulfilled ==
  ASSUME TypeOK, NEW p \in Pages,
         Renewed(p) \/ SignedOut(p) \/ CutSignsOut(p) \/ RenewalCut(p)
  PROVE  /\ UNCHANGED <<state, parent, raced>>
         /\ renewal'[p].phase = "NONE" /\ renewal[p].phase # "NONE"
         /\ \A q \in Pages \ {p} : renewal'[q] = renewal[q]
         /\ \A d \in Devices \ {DeviceOf[p]} : refresh'[d] = refresh[d]
         /\ refresh'[DeviceOf[p]] \in {refresh[DeviceOf[p]], NoToken, renewal[p].token}
<1>1. UNCHANGED <<state, parent, raced>> /\ renewal' = [renewal EXCEPT ![p] = NoRenewal]
  BY DEF Renewed, SignedOut, CutSignsOut, RenewalCut, Release, tokens
<1>2. renewal[p].phase # "NONE"
  BY DEF Renewed, SignedOut, CutSignsOut, RenewalCut, In
<1>3. \/ UNCHANGED refresh
      \/ \E t \in {NoToken, renewal[p].token} : refresh' = [refresh EXCEPT ![DeviceOf[p]] = t]
  BY DEF Renewed, SignedOut, CutSignsOut, RenewalCut, Cleared
<1>4. DeviceOf[p] \in Devices
  BY Known
<1> QED
  BY <1>1, <1>2, <1>3, <1>4 DEF NoRenewal, TypeOK

(* Page p goes from one phase of its renewal to another. *)
LEMMA Proceeds ==
  ASSUME TypeOK, NEW p \in Pages,
         FindToken(p) \/ FindExpired(p) \/ DieInRotation(p) \/ RenewalFails(p) \/ CutRenewal(p)
  PROVE  /\ refresh' = refresh
         /\ renewal'[p].token = renewal[p].token
         /\ renewal[p].phase # "NONE" /\ renewal'[p].phase # "NONE"
         /\ \A q \in Pages \ {p} : renewal'[q] = renewal[q]
         /\ \A t \in Tokens : /\ state'[t] = "NONE" => state[t] = "NONE"
                              /\ t # renewal[p].token => state'[t] = state[t]
<1>1. PICK phase \in Phases \ {"NONE"} : GoTo(p, phase)
  BY DEF FindToken, FindExpired, DieInRotation, RenewalFails, CutRenewal, Phases
<1>2. /\ renewal'[p].token = renewal[p].token /\ renewal'[p].phase # "NONE"
      /\ \A q \in Pages \ {p} : renewal'[q] = renewal[q]
  BY <1>1 DEF GoTo, TypeOK, Renewal
<1>3. refresh' = refresh /\ renewal[p].phase # "NONE"
  BY DEF FindToken, FindExpired, DieInRotation, RenewalFails, CutRenewal, In
<1>4. \A t \in Tokens : /\ state'[t] = "NONE" => state[t] = "NONE"
                        /\ t # renewal[p].token => state'[t] = state[t]
  <2>1. CASE FindToken(p) \/ RenewalFails(p) \/ CutRenewal(p)
    BY <2>1 DEF FindToken, RenewalFails, CutRenewal, tokens
  <2>2. CASE FindExpired(p)
    BY <2>2 DEF FindExpired, TypeOK
  <2>3. CASE DieInRotation(p)
    BY <2>3, <1>3, Known DEF DieInRotation, Revoked, TypeOK
  <2> QED
    BY <2>1, <2>2, <2>3
<1> QED
  BY <1>2, <1>3, <1>4

LEMMA PageHolds ==
  ASSUME TypeOK, HoldsOK, NEW p \in Pages, Refresh(p)
  PROVE  HoldsOK'
<1>0. NoToken \notin Tokens
  BY DEF NoToken, Tokens
<1>1. CASE \/ FindToken(p) \/ FindExpired(p) \/ DieInRotation(p)
           \/ RenewalFails(p) \/ CutRenewal(p)
  <2>1. ASSUME NEW d \in Devices, NEW t \in Tokens, Holds(d, t)' PROVE Holds(d, t)
    BY <1>1, <2>1, Proceeds DEF Holds, Renewing
  <2>2. \A t \in Tokens : state'[t] = "NONE" => state[t] = "NONE"
    BY <1>1, Proceeds
  <2> QED
    BY <2>1, <2>2, QuietHolds
<1>2. CASE RotateToken(p)
  <2>1. PICK t \in Tokens :
          /\ Fresh(t) /\ In(p, "FOUND")
          /\ state' = [state EXCEPT ![renewal[p].token] = Revoked(@), ![t] = "LIVE"]
          /\ renewal' = [renewal EXCEPT ![p] = [phase |-> "ISSUED", token |-> t]]
          /\ refresh' = refresh
    BY <1>2 DEF RotateToken
  <2>2. PICK d \in Devices : d = DeviceOf[p]
    BY Known
  <2>3. /\ state[t] = "NONE" /\ state'[t] = "LIVE"
        /\ \A u \in Tokens : state'[u] = "NONE" => state[u] = "NONE"
        /\ renewal'[p].token = t
        /\ \A q \in Pages \ {p} : renewal'[q] = renewal[q]
    BY <2>1, Known DEF Fresh, Revoked, In, TypeOK
  <2>4. ASSUME NEW e \in Devices, NEW u \in Tokens, Holds(e, u)'
        PROVE  Holds(e, u) \/ (e = d /\ u = t)
    BY <2>1, <2>2, <2>3, <2>4 DEF Holds, Renewing
  <2> QED
    BY <2>3, <2>4, FreshHolds
<1>3. CASE Renewed(p) \/ SignedOut(p) \/ CutSignsOut(p) \/ RenewalCut(p)
  <2>1. ASSUME NEW d \in Devices, NEW t \in Tokens, Holds(d, t)' PROVE Holds(d, t)
    BY <1>0, <1>3, <2>1, Fulfilled DEF Holds, Renewing
  <2>2. state' = state
    BY <1>3, Fulfilled
  <2> QED
    BY <2>1, <2>2, QuietHolds
<1> QED
  BY <1>1, <1>2, <1>3 DEF Refresh

LEMMA PageDevices ==
  ASSUME TypeOK, CausesOK, NEW p \in Pages, Refresh(p), excused \subseteq excused'
  PROVE  DevicesOK'
<1>0. PICK d \in Devices : d = DeviceOf[p]
  BY Known
<1>1. SUFFICES ASSUME d \notin excused' PROVE Unharmed(d)'
  <2>1. /\ Renewing(p)
        /\ \A e \in Devices \ {DeviceOf[p]} : refresh'[e] = refresh[e]
        /\ \A q \in Pages \ {p} : renewal'[q] = renewal[q]
        /\ \A t \in Tokens : state[t] # "NONE" /\ t # renewal[p].token => state'[t] = state[t]
    <3>1. CASE \/ FindToken(p) \/ FindExpired(p) \/ DieInRotation(p)
               \/ RenewalFails(p) \/ CutRenewal(p)
      BY <3>1, Proceeds DEF Renewing
    <3>2. CASE Renewed(p) \/ SignedOut(p) \/ CutSignsOut(p) \/ RenewalCut(p)
      BY <3>2, Fulfilled DEF Renewing
    <3>3. CASE RotateToken(p)
      <4>1. PICK t \in Tokens :
              /\ Fresh(t) /\ In(p, "FOUND")
              /\ state' = [state EXCEPT ![renewal[p].token] = Revoked(@), ![t] = "LIVE"]
              /\ renewal' = [renewal EXCEPT ![p] = [phase |-> "ISSUED", token |-> t]]
              /\ refresh' = refresh
        BY <3>3 DEF RotateToken
      <4> QED
        BY <4>1, Known DEF Fresh, In, Renewing, TypeOK
    <3> QED
      BY <3>1, <3>2, <3>3 DEF Refresh
  <2>2. \A e \in Devices \ excused' : e # DeviceOf[p] => Unharmed(e)'
    BY <2>1, OtherDevices
  <2> QED
    BY <1>0, <2>2 DEF DevicesOK
<1>2. /\ Unharmed(d) /\ refresh[d] \in Tokens
      /\ renewal[p].phase # "NONE" => renewal[p].token \in Tokens
  BY <1>1, Known DEF CausesOK, DevicesOK, Unharmed, TypeOK
<1>3. \A q \in Pages \ {p} : DeviceOf[q] = d /\ renewal[p].phase # "NONE" => renewal[q].phase = "NONE"
  BY <1>0, <1>2 DEF Unharmed, Renewing
<1>4. CASE FindToken(p)
  <2>1. /\ refresh' = refresh /\ state' = state
        /\ In(p, "ASKED") /\ renewal'[p].token = renewal[p].token
        /\ renewal'[p].phase = IF state[renewal[p].token] = "LIVE" THEN "FOUND" ELSE "REFUSED"
        /\ \A q \in Pages \ {p} : renewal'[q] = renewal[q]
    <3>1. PICK phase \in Phases : /\ GoTo(p, phase)
                                  /\ phase = IF state[renewal[p].token] = "LIVE" THEN "FOUND" ELSE "REFUSED"
      BY <1>4 DEF FindToken, Phases
    <3>2. renewal'[p].phase = phase
      BY <3>1 DEF GoTo, TypeOK, Renewal
    <3>3. refresh' = refresh /\ state' = state /\ In(p, "ASKED")
      BY <1>4 DEF FindToken, tokens
    <3> QED
      BY <1>4, <3>1, <3>2, <3>3, Proceeds
  <2>2. state[renewal[p].token] = "LIVE"
    BY <1>0, <1>2, <2>1 DEF Unharmed, Calm, In
  <2>3. ASSUME NEW q \in Pages, DeviceOf[q] = d PROVE Calm(q)'
    <3>1. CASE q = p
      BY <2>1, <2>2, <3>1 DEF Calm, In
    <3>2. CASE q # p
      BY <1>2, <2>1, <2>3, <3>2 DEF Unharmed, Calm, In
    <3> QED
      BY <3>1, <3>2
  <2>4. \A q, r \in Pages : (DeviceOf[q] = d /\ DeviceOf[r] = d /\ Renewing(q) /\ Renewing(r) => q = r)'
    BY <1>3, <2>1 DEF Renewing, In
  <2>5. state[refresh[d]] = "LIVE"
    BY <1>2, <1>3, <2>1 DEF Unharmed, In
  <2> QED
    BY <1>2, <2>1, <2>3, <2>4, <2>5 DEF Unharmed, NoToken
<1>5. CASE FindExpired(p) \/ DieInRotation(p) \/ RenewalFails(p)
  BY <1>0, <1>1, <1>5 DEF FindExpired, DieInRotation, RenewalFails
<1>6. CASE RotateToken(p)
  <2>1. PICK t \in Tokens :
          /\ Fresh(t) /\ In(p, "FOUND")
          /\ state' = [state EXCEPT ![renewal[p].token] = Revoked(@), ![t] = "LIVE"]
          /\ renewal' = [renewal EXCEPT ![p] = [phase |-> "ISSUED", token |-> t]]
          /\ refresh' = refresh
    BY <1>6 DEF RotateToken
  <2>2. /\ state'[t] = "LIVE" /\ renewal'[p] = [phase |-> "ISSUED", token |-> t]
        /\ \A q \in Pages \ {p} : renewal'[q] = renewal[q]
    BY <2>1 DEF TypeOK
  <2>3. ASSUME NEW q \in Pages, DeviceOf[q] = d PROVE Calm(q)'
    <3>1. CASE q = p
      BY <2>2, <3>1 DEF Calm, In
    <3>2. CASE q # p
      BY <1>3, <2>1, <2>2, <2>3, <3>2 DEF Calm, In
    <3> QED
      BY <3>1, <3>2
  <2>4. \A q, r \in Pages : (DeviceOf[q] = d /\ DeviceOf[r] = d /\ Renewing(q) /\ Renewing(r) => q = r)'
    BY <1>3, <2>1, <2>2 DEF Renewing, In
  <2>5. (\E q \in Pages : DeviceOf[q] = d /\ In(q, "ISSUED"))'
    BY <1>0, <2>2 DEF In
  <2> QED
    BY <1>2, <2>1, <2>3, <2>4, <2>5 DEF Unharmed
<1>7. CASE CutRenewal(p)
  <2>1. /\ refresh' = refresh /\ state' = state
        /\ (In(p, "ASKED") \/ In(p, "FOUND")) /\ d \notin Native
        /\ renewal'[p].phase = "CUT"
        /\ \A q \in Pages \ {p} : renewal'[q] = renewal[q]
    <3>1. GoTo(p, "CUT") /\ refresh' = refresh /\ state' = state /\ (In(p, "ASKED") \/ In(p, "FOUND")) /\ d \notin Native
      BY <1>0, <1>1, <1>7 DEF CutRenewal, tokens
    <3>2. renewal'[p].phase = "CUT"
      BY <3>1 DEF GoTo, TypeOK, Renewal
    <3> QED
      BY <1>7, <3>1, <3>2, Proceeds
  <2>2. state[refresh[d]] = "LIVE"
    BY <1>2, <1>3, <2>1 DEF Unharmed, In
  <2>3. ASSUME NEW q \in Pages, DeviceOf[q] = d PROVE Calm(q)'
    <3>1. CASE q = p
      BY <1>0, <2>1, <3>1 DEF Calm, In
    <3>2. CASE q # p
      BY <1>3, <2>1, <2>3, <3>2 DEF Calm, In
    <3> QED
      BY <3>1, <3>2
  <2>4. \A q, r \in Pages : (DeviceOf[q] = d /\ DeviceOf[r] = d /\ Renewing(q) /\ Renewing(r) => q = r)'
    BY <1>3, <2>1 DEF Renewing, In
  <2> QED
    BY <1>2, <2>1, <2>2, <2>3, <2>4 DEF Unharmed, NoToken
<1>8. CASE SignedOut(p) \/ CutSignsOut(p)
  <2>1. ~Calm(p)
    BY <1>8 DEF SignedOut, CutSignsOut, Calm, In
  <2> QED
    BY <1>0, <1>2, <2>1 DEF Unharmed
<1>9. CASE Renewed(p) \/ RenewalCut(p)
  <2>1. /\ state' = state /\ renewal[p].phase # "NONE" /\ renewal'[p].phase = "NONE"
        /\ \A q \in Pages \ {p} : renewal'[q] = renewal[q]
    BY <1>9, Fulfilled
  <2>2. \A q \in Pages : DeviceOf[q] = d => renewal'[q].phase = "NONE"
    BY <1>3, <2>1
  <2>3. refresh'[d] \in Tokens /\ state[refresh'[d]] = "LIVE"
    <3>1. CASE Renewed(p)
      <4>1. refresh'[d] = renewal[p].token /\ In(p, "ISSUED")
        BY <1>0, <3>1 DEF Renewed, TypeOK
      <4> QED
        BY <1>0, <1>2, <2>1, <4>1 DEF Unharmed, Calm, In
    <3>2. CASE RenewalCut(p)
      <4>1. refresh' = refresh /\ In(p, "CUT")
        BY <1>0, <1>1, <3>2 DEF RenewalCut, Cleared
      <4> QED
        BY <1>2, <1>3, <2>1, <4>1 DEF Unharmed, In
    <3> QED
      BY <1>9, <3>1, <3>2
  <2> QED
    BY <2>1, <2>2, <2>3 DEF Unharmed, Calm, In, Renewing, NoToken, Tokens
<1> QED
  BY <1>4, <1>5, <1>6, <1>7, <1>8, <1>9 DEF Refresh

LEMMA NextEnds ==
  ASSUME TypeOK, CausesOK, [Next]_vars, excused \subseteq excused'
  PROVE  SessionsEndForACause'
<1> SUFFICES ASSUME NEW o \in Calls, pc'[o] = "signed_out" PROVE Device(o)' \in excused'
  BY DEF SessionsEndForACause
<1>0. pc[o] = "signed_out" /\ ask' = ask => Device(o)' \in excused'
  BY DEF CausesOK, SessionsEndForACause, Device
<1>1. CASE UNCHANGED vars
  BY <1>0, <1>1 DEF vars, calls
<1>2. ASSUME NEW c \in Calls, Client(c) \/ Handler(c) PROVE Device(o)' \in excused'
  <2>1. CASE o = c
    <3>1. NothingToRenew(c) /\ ask' = ask
      BY <1>2, <2>1, CallMoves
    <3>2. refresh[Device(c)] = NoToken /\ Device(c) \in Devices
      BY <3>1, Known DEF NothingToRenew
    <3>3. Device(c) \in excused
      BY <3>2 DEF CausesOK, DevicesOK, Unharmed
    <3> QED
      BY <2>1, <3>1, <3>3 DEF Device
  <2>2. CASE o # c
    BY <1>0, <1>2, <2>2, CallMoves
  <2> QED
    BY <2>1, <2>2
<1>3. ASSUME NEW c \in Calls, Conclude(c) PROVE Device(o)' \in excused'
  BY <1>0, <1>3 DEF Conclude, calls
<1>4. ASSUME NEW p \in Pages, Refresh(p) PROVE Device(o)' \in excused'
  <2>1. ask' = ask /\ (pc'[o] = pc[o] \/ (pc[o] = "waiting" /\ pc'[o] # pc[o]))
    BY <1>4, PageMoves
  <2>2. CASE pc[o] = "signed_out"
    BY <1>0, <2>1, <2>2
  <2>3. CASE pc[o] # "signed_out"
    <3>1. SignedOut(p) \/ CutSignsOut(p)
      BY <1>4, <2>1, <2>3 DEF Refresh, FindToken, FindExpired, RotateToken, DieInRotation,
         RenewalFails, CutRenewal, Renewed, RenewalCut, Release, calls, TypeOK
    <3>2. ~Calm(p)
      BY <3>1 DEF SignedOut, CutSignsOut, Calm, In
    <3>3. DeviceOf[p] \in Devices /\ DeviceOf[p] \in excused
      BY <3>2, Known DEF CausesOK, DevicesOK, Unharmed
    <3>4. ask[o].page = p
      BY <2>3, <3>1 DEF SignedOut, CutSignsOut, Release, Waiting, TypeOK
    <3> QED
      BY <2>1, <3>3, <3>4 DEF Device
  <2> QED
    BY <2>2, <2>3
<1> QED
  BY <1>1, <1>2, <1>3, <1>4 DEF Next

LEMMA NextCauses == TypeOK /\ CausesOK /\ [Next]_vars => CausesOK'
<1> SUFFICES ASSUME TypeOK, CausesOK, [Next]_vars PROVE CausesOK'
  OBVIOUS
<1>0. excused \subseteq excused' /\ SessionsEndForACause'
  BY ExcusedGrows, NextEnds
<1>1. CASE UNCHANGED vars
  <2>1. UNCHANGED <<refresh, renewal, state, excused>>
    BY <1>1 DEF vars, session, tokens
  <2>2. \A d \in Devices, t \in Tokens : Holds(d, t)' => Holds(d, t)
    BY <2>1 DEF Holds, Renewing
  <2>3. HoldsOK'
    BY <2>1, <2>2, QuietHolds DEF CausesOK
  <2>4. DevicesOK'
    BY <2>1, KeepUnharmed DEF CausesOK, DevicesOK
  <2> QED
    BY <1>0, <2>3, <2>4 DEF CausesOK
<1>2. ASSUME NEW c \in Calls, Client(c) \/ Handler(c) \/ Conclude(c) PROVE CausesOK'
  BY <1>0, <1>2, CallHolds, CallDevices DEF CausesOK
<1>3. ASSUME NEW p \in Pages, Refresh(p) PROVE CausesOK'
  BY <1>0, <1>3, PageHolds, PageDevices DEF CausesOK
<1> QED
  BY <1>1, <1>2, <1>3 DEF Next

-----------------------------------------------------------------------------
(* The invariant                                                           *)

LEMMA InitInv == Init => Inv
<1> SUFFICES ASSUME Init PROVE Inv
  OBVIOUS
<1> NoToken \notin Tokens /\ NoToken = 0
  BY DEF NoToken, Tokens
<1>1. TypeOK
  <2>1. NoRenewal \in Renewal /\ NoRenewal.phase = "NONE"
    BY DEF NoRenewal, Renewal, Phases
  <2>2. 0 \in 0..MaxCodes
    BY AccountsAssumption
  <2> QED
    BY <2>1, <2>2, AccountsAssumption DEF Init, TypeOK, Places
<1>2. /\ \A p \in Pages : renewal[p].phase = "NONE"
      /\ \A t \in Tokens : parent[t] = NoToken
      /\ refresh = FirstToken
      /\ \A d \in Devices : d \notin excused => refresh[d] \in Tokens /\ state[refresh[d]] = "LIVE"
      /\ \A c \in Calls : pc[c] = "idle" /\ ~replayed[c]
  BY AccountsAssumption DEF Init, NoRenewal
<1>3. TokensOK
  BY <1>2 DEF TokensOK, Heirs, In
<1>4. CodesOK
  <2>1. Cardinality(Logins) <= Cardinality(First)
    <3> DEFINE f == [d \in First |-> FirstToken[d]]
    <3>1. f \in Surjection(First, Logins)
      <4>1. \A d \in First : FirstToken[d] \in Logins
        BY <1>2, AccountsAssumption DEF Init, First, Logins
      <4>2. \A t \in Logins : \E d \in First : FirstToken[d] = t
        BY AccountsAssumption DEF Init, First, Logins
      <4> QED
        BY <4>1, <4>2 DEF Surjection
    <3> HIDE DEF f
    <3> QED
      BY <1>1, <3>1, FiniteLogins, FS_Surjection
  <2>2. codes = {} /\ sent = 0 /\ Cardinality(codes) = 0
    BY FS_EmptySet DEF Init
  <2>3. ByCode = Logins
    BY DEF Init, ByCode
  <2> QED
    BY <1>1, <1>2, <2>1, <2>2, <2>3, FiniteLogins DEF CodesOK, CodesOpenOneSession, First, ByCode
<1>5. CausesOK
  <2>1. HoldsOK
    BY <1>2, AccountsAssumption DEF HoldsOK, Holds, Renewing, Init
  <2>2. DevicesOK
    BY <1>2 DEF DevicesOK, Unharmed, Calm, Renewing, In
  <2>3. SessionsEndForACause
    BY <1>2 DEF SessionsEndForACause
  <2> QED
    BY <2>1, <2>2, <2>3 DEF CausesOK
<1>6. FailuresOK
  <2>1. Once = {} /\ Twice = {}
    BY <1>2 DEF Once, Twice, TriedOnce, TriedTwice, Ended
  <2>2. Tries = 0
    BY <2>1, FS_EmptySet DEF Tries
  <2> QED
    BY <1>2, <2>2 DEF FailuresOK, Init
<1>7. LimitOK
  BY <1>2, AccountsAssumption DEF LimitOK, OnItsWay, Init
<1> QED
  BY <1>1, <1>3, <1>4, <1>5, <1>6, <1>7 DEF Inv

LEMMA NextInv == Inv /\ [Next]_vars => Inv'
BY NextType, NextTokens, NextCodes, NextCauses, NextFailures, NextLimit DEF Inv

LEMMA Invariance == Spec => []Inv
<1>1. Init => Inv
  BY InitInv
<1>2. Inv /\ [Next]_vars => Inv'
  BY NextInv
<1> QED
  BY <1>1, <1>2, PTL DEF Spec

-----------------------------------------------------------------------------
(* Theorems                                                                *)

(* Every variable keeps its type, for any calls, pages and devices. *)
THEOREM TypeCorrect == Spec => []TypeOK
<1>1. Inv => TypeOK
  BY DEF Inv
<1> QED
  BY <1>1, Invariance, PTL

(* AuthService: whatever pages refresh at once, a token is replaced once    *)
(* unless a second refresh had found it live, and a code opens one session. *)
THEOREM SessionsIssuedOnce == Spec => []SessionsAreIssuedOnce
<1>1. Inv => SessionsAreIssuedOnce
  BY DEF Inv, TokensOK, CodesOK, SessionsAreIssuedOnce, RotationIsLinear
<1> QED
  BY <1>1, Invariance, PTL

(* tryRefresh: as the calls of a page share one renewal, a call is sent to *)
(* /login only if something listed has cost its device the session.        *)
THEOREM SessionsEnd == Spec => []SessionsEndForACause
<1>1. Inv => SessionsEndForACause
  BY DEF Inv, CausesOK
<1> QED
  BY <1>1, Invariance, PTL

(* LockoutService, with apiFetch: for any MAX_ATTEMPTS, a wrong entry is    *)
(* counted at most twice.                                                  *)
THEOREM EntriesCount == Spec => []EntriesCountTwiceAtMost
<1>1. ASSUME Inv PROVE EntriesCountTwiceAtMost
  <2>1. /\ Tries <= 2 * Cardinality(WrongEntries)
        /\ Tries \in Nat /\ Cardinality(WrongEntries) \in Nat
    BY <1>1, OnceTwice DEF Inv, Tries
  <2> QED
    BY <1>1, <2>1, AccountsAssumption DEF Inv, FailuresOK, EntriesCountTwiceAtMost, TypeOK
<1> QED
  BY <1>1, Invariance, PTL

(* KycLimitsService: for any limit, the month's movements stay within it   *)
(* as long as none is checked while another is on its way.                 *)
THEOREM LimitYields == Spec => []LimitYieldsToOverlapOnly
<1>1. Inv => LimitYieldsToOverlapOnly
  BY AccountsAssumption DEF Inv, LimitOK, LimitYieldsToOverlapOnly, TypeOK
<1> QED
  BY <1>1, Invariance, PTL
=============================================================================
