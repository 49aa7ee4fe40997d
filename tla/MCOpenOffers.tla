----------------------------- MODULE MCOpenOffers -----------------------------
(* Instances of OpenOffers: takers and payloads are model values, which are  *)
(* given in the configurations.                                              *)
EXTENDS OpenOffers, TLC

MCSymmetry == Permutations(Taker)
=============================================================================
