----------------------------- MODULE MCFollowUp -----------------------------
(* Instance of FollowUp for TLC. *)
EXTENDS FollowUp, TLC

(* One page of each behaviour: the pages that are left out have the very    *)
(* record of one that is here, or differ from it in the route, in the       *)
(* screen for an error or in the screens that lead back to the form.        *)
MCInUse ==
  {Payer, Envoyer, CartesCadeaux, Factures, LoadCard, BusinessRecharger, Encaisser,
   HandleLink, Detaillants, Checkout, CheckoutCard, MobileTopup, MobileFactures}
=============================================================================
