------------------------------ MODULE FlushOnce ------------------------------
(***************************************************************************)
(* What the PersistenceOrchestrator promises to those who shut the         *)
(* application down: of all the calls of                                   *)
(* flush_all_data_to_disk_at_shutdown one is carried out and answered, the *)
(* others are ignored. A call that comes before the application has        *)
(* started up is answered at once.                                         *)
(***************************************************************************)
CONSTANT Caller      \* the parts of the shutdown routine that ask for a flush

VARIABLES
  ready,       \* the application has completed its start up
  waiting,     \* callers whose call has not been looked at
  accepted,    \* the caller whose flush is carried out, as a set
  completed    \* callers whose complete_handler was called

abstractVars == <<ready, waiting, accepted, completed>>

FlushOnceInit ==
  /\ ready = FALSE
  /\ waiting = {}
  /\ accepted = {}
  /\ completed = {}

StartedUp == ready' = TRUE /\ UNCHANGED <<waiting, accepted, completed>>

Ask(c) ==
  /\ c \notin waiting \cup accepted \cup completed
  /\ IF ready THEN waiting' = waiting \cup {c} /\ completed' = completed
              ELSE waiting' = waiting /\ completed' = completed \cup {c}
  /\ UNCHANGED <<ready, accepted>>

\* An orchestrator without data answers at once
Accept(c) ==
  /\ c \in waiting
  /\ accepted = {}
  /\ accepted' = {c}
  /\ waiting' = waiting \ {c}
  /\ completed' \in {completed, completed \cup {c}}
  /\ UNCHANGED ready

Ignore(c) ==
  /\ c \in waiting
  /\ accepted # {}
  /\ waiting' = waiting \ {c}
  /\ UNCHANGED <<ready, accepted, completed>>

Answer(c) ==
  /\ c \in accepted \ completed
  /\ completed' = completed \cup {c}
  /\ UNCHANGED <<ready, waiting, accepted>>

\* The process ends (or dies), and the next one starts
NextProcess ==
  /\ ready' = FALSE
  /\ waiting' = {}
  /\ accepted' = {}
  /\ completed' = {}

FlushOnceNext ==
  \/ StartedUp
  \/ \E c \in Caller : Ask(c) \/ Accept(c) \/ Ignore(c) \/ Answer(c)
  \/ NextProcess

FlushOnceSpec == FlushOnceInit /\ [][FlushOnceNext]_abstractVars
=============================================================================
