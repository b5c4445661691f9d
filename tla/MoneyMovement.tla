--------------------------- MODULE MoneyMovement ---------------------------
(***************************************************************************)
(* What the operations that move money promise, without requests, rows or  *)
(* retries: each movement happens at once, only when the payer can cover   *)
(* all of it, and an intent that carries a key happens at most once.       *)
(***************************************************************************)
EXTENDS Movement

CONSTANTS Intents, Requests, Opening

VARIABLES
  funds,      \* funds[w]: the money in wallet w
  executed,   \* the movements done: [intent, execution]
  payload     \* payload[i]: what the client of intent i wants

vars == <<funds, executed, payload>>

Init ==
  /\ funds = Opening
  /\ executed = {}
  /\ payload \in [Intents -> Payloads]

Execute(i, e) ==
  LET p == payload[i] IN
  /\ \A x \in executed : x.execution # e
  /\ Keyed(p) => \A x \in executed : x.intent # i
  /\ Net(p) > 0
  /\ p.from # NoWallet => funds[p.from] >= Cost(p)
  /\ executed' = executed \cup {[intent |-> i, execution |-> e]}
  /\ funds' = [w \in Wallets |->
                 IF w = p.to THEN funds[w] + Net(p)
                   ELSE IF w = p.from THEN funds[w] - Cost(p)
                   ELSE funds[w]]
  /\ UNCHANGED payload

Next == \E i \in Intents, e \in Requests : Execute(i, e)

Spec == Init /\ [][Next]_vars
=============================================================================
