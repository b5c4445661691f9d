--------------------------- MODULE ExternalMoney ---------------------------
(***************************************************************************)
(* What a payment through HUB2 promises.  A withdrawal is held from the    *)
(* wallet before HUB2 hears of it.  HUB2 decides once.  The decision is    *)
(* applied once: a pay-in credits the wallet only when HUB2 has the money, *)
(* a withdrawal gives back what it held only when HUB2 did not pay.        *)
(***************************************************************************)
EXTENDS Integers

CONSTANTS Txs

VARIABLES
  order,     \* order[t]: [type, amount, ourFee, ...]
  flow,      \* flow[t]: what t has added to the wallets, negative if taken
  hub,       \* hub[t]: where t is at HUB2
  applied    \* the transactions whose decision has been applied

vars == <<order, flow, hub, applied>>

Decisions == {"SUCCESS", "FAILED", "CANCELLED"}

Held(t) == order[t].amount + order[t].ourFee

Init ==
  /\ flow = [t \in Txs |-> 0]
  /\ hub = [t \in Txs |-> "NONE"]
  /\ applied = {}

Hold(t) ==
  /\ order[t].type = "WITHDRAWAL"
  /\ hub[t] = "NONE"
  /\ flow[t] = 0
  /\ flow' = [flow EXCEPT ![t] = 0 - Held(t)]
  /\ UNCHANGED <<order, hub, applied>>

Ask(t) ==
  /\ hub[t] = "NONE"
  /\ order[t].type = "WITHDRAWAL" => flow[t] = 0 - Held(t)
  /\ hub' = [hub EXCEPT ![t] = "PENDING"]
  /\ UNCHANGED <<order, flow, applied>>

Decide(t) ==
  /\ hub[t] = "PENDING"
  /\ \E d \in Decisions : hub' = [hub EXCEPT ![t] = d]
  /\ UNCHANGED <<order, flow, applied>>

Apply(t) ==
  /\ t \notin applied
  /\ hub[t] \in Decisions
  /\ applied' = applied \cup {t}
  /\ flow' = [flow EXCEPT ![t] = flow'[t]]   \* nothing but flow[t] changes
  /\ hub[t] # "SUCCESS" => flow'[t] = 0
  /\ hub[t] = "SUCCESS" =>
       IF order[t].type = "WITHDRAWAL" THEN flow'[t] <= flow[t]
                                       ELSE flow'[t] \in 1..order[t].amount
  /\ UNCHANGED <<order, hub>>

Next == \E t \in Txs : Hold(t) \/ Ask(t) \/ Decide(t) \/ Apply(t)

Spec == Init /\ [][Next]_vars
=============================================================================
