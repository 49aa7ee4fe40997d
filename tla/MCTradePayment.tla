---------------------------- MODULE MCTradePayment ----------------------------
(* Instances of TradePayment: the bounds are given in the configurations.    *)
EXTENDS TradePayment
=============================================================================
