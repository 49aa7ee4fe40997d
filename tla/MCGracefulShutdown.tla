------------------------- MODULE MCGracefulShutdown -------------------------
(* Users and the shared container as model values for TLC                   *)
EXTENDS GracefulShutdown

CONSTANTS alice, bob
=============================================================================
