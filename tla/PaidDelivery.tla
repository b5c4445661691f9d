---------------------------- MODULE PaidDelivery ----------------------------
(***************************************************************************)
(* What a purchase promises, whoever collects the money and whoever        *)
(* delivers.  Its price is taken whole; goods are delivered once, while    *)
(* the money is held; the money goes back whole, and only if nothing has   *)
(* been delivered; what was delivered is not charged again.  A purchase    *)
(* that something has excused may be delivered or given back again, but    *)
(* not one that was never paid.                                            *)
(***************************************************************************)
EXTENDS Integers

CONSTANTS Requests

VARIABLES
  price,      \* price[r]: what r costs
  held,       \* held[r]: the part of it that is held
  paid,       \* paid[r]: whether the price has ever been taken
  delivered,  \* delivered[r]: goods delivered
  excused     \* excused[r]: what went wrong excuses the next steps

vars == <<price, held, paid, delivered, excused>>

Init ==
  /\ held = [r \in Requests |-> 0]
  /\ paid = [r \in Requests |-> FALSE]
  /\ delivered = [r \in Requests |-> 0]
  /\ excused = [r \in Requests |-> FALSE]

(* An excuse may come with any step, and stays. *)
MayExcuse(r) == \E e \in BOOLEAN : excused' = [excused EXCEPT ![r] = @ \/ e]

Fresh(r) == delivered[r] = 0

Pay(r) ==
  /\ held[r] = 0
  /\ Fresh(r) \/ excused[r]
  /\ held' = [held EXCEPT ![r] = price[r]]
  /\ paid' = [paid EXCEPT ![r] = TRUE]
  /\ MayExcuse(r)
  /\ UNCHANGED <<price, delivered>>

Deliver(r) ==
  /\ paid[r]
  /\ MayExcuse(r)
  /\ (held[r] = price[r] /\ Fresh(r)) \/ excused'[r]
  /\ delivered' = [delivered EXCEPT ![r] = @ + 1]
  /\ UNCHANGED <<price, held, paid>>

GiveBack(r) ==
  /\ held[r] = price[r]
  /\ MayExcuse(r)
  /\ Fresh(r) \/ excused'[r]
  /\ held' = [held EXCEPT ![r] = 0]
  /\ UNCHANGED <<price, paid, delivered>>

(* The payment is undone while the goods are being delivered. *)
Lose(r) ==
  /\ paid[r] /\ held[r] = price[r]
  /\ MayExcuse(r) /\ excused'[r]
  /\ held' = [held EXCEPT ![r] = 0]
  /\ delivered' = [delivered EXCEPT ![r] = @ + 1]
  /\ UNCHANGED <<price, paid>>

Excuse(r) == MayExcuse(r) /\ UNCHANGED <<price, held, paid, delivered>>

Next ==
  \E r \in Requests : Pay(r) \/ Deliver(r) \/ GiveBack(r) \/ Lose(r) \/ Excuse(r)

Spec == Init /\ [][Next]_vars
=============================================================================
