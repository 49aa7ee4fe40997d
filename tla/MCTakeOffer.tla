----------------------------- MODULE MCTakeOffer -----------------------------
(* Instances of TakeOffer: the bounds are given in the configurations.       *)
EXTENDS TakeOffer
=============================================================================
