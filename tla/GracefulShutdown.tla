-------------------------- MODULE GracefulShutdown --------------------------
(***************************************************************************)
(* The shutdown routine of the daemon (daemon/bisq_daemon_main.py), of its *)
(* users (core/user/user_context.py, user_manager.py) and the flush they   *)
(* both ask the users' PersistenceOrchestrators for. The routine has a     *)
(* time limit of 10 seconds: then a thread of its own flushes and exits,   *)
(* while the users may still be shutting down.                             *)
(*                                                                         *)
(* An orchestrator is reduced to what FlushOnce promises: the first call   *)
(* of its flush is carried out and answered, the others are ignored.       *)
(***************************************************************************)
EXTENDS Integers, FiniteSets

CONSTANTS
  Context,   \* the user contexts; each has an orchestrator
  Shared     \* the orchestrator of the daemon's shared container

Orchestrator == Context \cup {Shared}

ASSUME ShutdownAssumption ==
  /\ IsFiniteSet(Context)
  /\ Context # {}
  /\ Shared \notin Context

VARIABLES
  phase,      \* phase[u]: idle (not started) and skipped (that, in the shutdown),
              \* running, stopping (its services), flushing, failed (by an exception), down
  pending,    \* flush() calls that wait for the user thread: <<orchestrator, caller>>
  flusher,    \* flusher[o]: whose flush() the orchestrator carries out, as a set
  flushed,    \* orchestrators that have called the complete_handler of that flush
  users,      \* remaining in shut_down_all_users
  timer,      \* timer of the time limit: off, running, fired
  flushing,   \* flushing in _graceful_shut_down
  loop,       \* contexts that the loop in flush_and_exit has still to visit
  looping,    \* flush_and_exit is between its first and its last line
  remaining,  \* remaining_flushes
  exited      \* result_handler was called: the process exits

vars == <<phase, pending, flusher, flushed, users, timer, flushing, loop, looping,
          remaining, exited>>

TypeOK ==
  /\ phase \in [Context -> {"idle", "running", "stopping", "flushing", "failed", "skipped", "down"}]
  /\ pending \subseteq Orchestrator \X {"context", "daemon"}
  /\ flusher \in [Orchestrator -> SUBSET {"context", "daemon"}]
  /\ flushed \subseteq Orchestrator
  /\ users \in 0 .. Cardinality(Context)
  /\ timer \in {"off", "running", "fired"}
  /\ flushing \in BOOLEAN /\ looping \in BOOLEAN /\ exited \in BOOLEAN
  /\ loop \subseteq Context
  /\ remaining \in 0 .. Cardinality(Orchestrator)

Init ==
  /\ phase \in [Context -> {"idle", "running"}]
  /\ pending = {}
  /\ flusher = [o \in Orchestrator |-> {}]
  /\ flushed = {}
  /\ users = Cardinality(Context)
  /\ timer = "off"
  /\ flushing = FALSE
  /\ loop = {}
  /\ looping = FALSE
  /\ remaining = 0
  /\ exited = FALSE

-----------------------------------------------------------------------------
\* Start of flush_and_exit; a second call does nothing
BeginFlushAndExit ==
  IF flushing THEN UNCHANGED <<flushing, loop, looping, remaining>>
  ELSE flushing' = TRUE /\ loop' = Context /\ looping' = TRUE /\ remaining' = 1

\* _graceful_shut_down starts the timer, then every user context's shut_down;
\* an exception on the way leads to flush_and_exit
graceful_shut_down ==
  /\ timer = "off"
  /\ timer' = "running"
  /\ \/ /\ phase' = [u \in Context |-> IF phase[u] = "running" THEN "stopping" ELSE phase[u]]
        /\ UNCHANGED <<flushing, loop, looping, remaining>>
     \/ BeginFlushAndExit /\ UNCHANGED phase
  /\ UNCHANGED <<pending, flusher, flushed, users, exited>>

\* The chain of callbacks through offers, wallets and network has come to its end
\* (it may take any time): the context asks its orchestrator for the flush
_on_p2p_service_shutdown(u) ==
  /\ ~ exited
  /\ phase[u] = "stopping"
  /\ phase' = [phase EXCEPT ![u] = "flushing"]
  /\ pending' = pending \cup {<<u, "context">>}
  /\ UNCHANGED <<flusher, flushed, users, timer, flushing, loop, looping, remaining, exited>>

\* One context of the loop; without a global_container there is nothing to flush
FlushContext(u) ==
  /\ ~ exited
  /\ u \in loop
  /\ loop' = loop \ {u}
  /\ IF phase[u] \in {"idle", "skipped", "down"} THEN UNCHANGED <<remaining, pending>>
     ELSE remaining' = remaining + 1 /\ pending' = pending \cup {<<u, "daemon">>}
  /\ UNCHANGED <<phase, flusher, flushed, users, timer, flushing, looping, exited>>

\* The last line of flush_and_exit
FlushShared ==
  /\ ~ exited
  /\ looping /\ loop = {}
  /\ looping' = FALSE
  /\ pending' = pending \cup {<<Shared, "daemon">>}
  /\ UNCHANGED <<phase, flusher, flushed, users, timer, flushing, loop, remaining, exited>>

timeout_handler ==
  /\ ~ exited
  /\ timer = "running"
  /\ timer' = "fired"
  /\ BeginFlushAndExit
  /\ UNCHANGED <<phase, pending, flusher, flushed, users, exited>>

\* flush() of an orchestrator: only the first call is carried out
flush(o, c) ==
  /\ ~ exited
  /\ <<o, c>> \in pending
  /\ pending' = pending \ {<<o, c>>}
  /\ flusher' = IF flusher[o] = {} THEN [flusher EXCEPT ![o] = {c}] ELSE flusher
  /\ UNCHANGED <<phase, flushed, users, timer, flushing, loop, looping, remaining, exited>>

\* finished() in flush_and_exit
MutantNeverLast == remaining' = remaining - 1 /\ exited' = (remaining = 0)
finished == remaining' = remaining - 1 /\ exited' = (remaining = 1)

\* on_finished in shut_down_all_users
MutantSkipFlush ==
  /\ users' = users - 1
  /\ exited' = (users = 1)
  /\ UNCHANGED <<flushing, loop, looping, remaining>>
MutantCountUserTwice == users' = users - 2 /\ UNCHANGED <<flushing, loop, looping, remaining, exited>>
on_finished ==
  /\ users' = users - 1
  /\ IF users = 1 THEN BeginFlushAndExit
                  ELSE UNCHANGED <<flushing, loop, looping, remaining>>
  /\ UNCHANGED exited

\* shut_down of a context that was never started, or that ends with an exception
ShutDownAtOnce(u) ==
  /\ ~ exited
  /\ timer # "off"
  /\ \/ phase[u] = "idle" /\ phase' = [phase EXCEPT ![u] = "skipped"]
     \/ phase[u] = "stopping" /\ phase' = [phase EXCEPT ![u] = "failed"]
  /\ on_finished
  /\ UNCHANGED <<pending, flusher, flushed, timer>>

\* The flush of an orchestrator is complete: its handler is called
FlushCompleted(o) ==
  /\ ~ exited
  /\ flusher[o] # {}
  /\ o \notin flushed
  /\ flushed' = flushed \cup {o}
  /\ \/ "context" \in flusher[o] /\ phase' = [phase EXCEPT ![o] = "down"] /\ on_finished
     \/ "daemon" \in flusher[o] /\ finished
        /\ UNCHANGED <<phase, users, flushing, loop, looping>>
  /\ UNCHANGED <<pending, flusher, timer>>

-----------------------------------------------------------------------------
Next ==
  \/ graceful_shut_down
  \/ timeout_handler
  \/ FlushShared
  \/ \E u \in Context : _on_p2p_service_shutdown(u) \/ ShutDownAtOnce(u) \/ FlushContext(u)
  \/ \E o \in Orchestrator : FlushCompleted(o) \/ \E c \in {"context", "daemon"} : flush(o, c)

Spec == Init /\ [][Next]_vars

\* Threads and timers run and every flush completes (PersistenceManager's
\* FlushCompletes); a user's services stop some time. The time limit may be reached
\* before that or not, so there is no fairness for it.
FairSpec ==
  /\ Spec
  /\ WF_vars(FlushShared)
  /\ \A u \in Context :
       WF_vars(FlushContext(u)) /\ WF_vars(_on_p2p_service_shutdown(u) \/ ShutDownAtOnce(u))
  /\ \A o \in Orchestrator :
       WF_vars(FlushCompleted(o)) /\ \A c \in {"context", "daemon"} : WF_vars(flush(o, c))

-----------------------------------------------------------------------------
(* The process does not exit before every orchestrator has carried out one  *)
(* flush to its end, except those of users that were never started: no      *)
(* user's data is left behind, whoever flushes first and whatever fails.    *)
ExitsAfterFlush ==
  exited => \A o \in Orchestrator \ flushed : o # Shared /\ phase[o] \in {"idle", "skipped"}

(* A shutdown that is started ends, unless the time limit is reached: the   *)
(* users' countdown and that of flush_and_exit both reach zero, in whatever *)
(* order users and orchestrators finish.                                    *)
EndsWithinLimit == timer = "running" ~> exited \/ timer = "fired"

(* A shutdown that is started ends, also if the time limit is reached while *)
(* users are flushing: what persistence_orchestrator.py:36-39 relies on     *)
(* when it calls a repeated flush "a valid but rare case".                  *)
ShutdownEnds == timer # "off" ~> exited
=============================================================================
