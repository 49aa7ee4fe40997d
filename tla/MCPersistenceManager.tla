------------------------ MODULE MCPersistenceManager ------------------------
(* One file of private data and one of low priority for TLC                 *)
EXTENDS PersistenceManager

CONSTANTS private, lowPrio, context, daemon

\* Of the things that go wrong, one in a run, at any step
OneMishap == failures + raised + restarts <= 1
=============================================================================
