-------------------------- MODULE MCAirtimeOrders --------------------------
(* Instances of AirtimeOrders for TLC. *)
EXTENDS AirtimeOrders, TLC

(* The fees may be more than the whole amount. *)
MCOrders ==
  {[channel |-> c, amount |-> 2, ourFee |-> 1] : c \in {"APP", "LITE"}}

MCHubFees == {0, 2}

WorkerSymmetry == Permutations(Tasks) \cup Permutations(Admins)
=============================================================================
