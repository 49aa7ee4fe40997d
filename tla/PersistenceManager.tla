-------------------------- MODULE PersistenceManager --------------------------
(***************************************************************************)
(* How the application's data reaches its files                            *)
(* (common/persistence/persistence_manager.py, persistence_orchestrator.py).*)
(* Each manager owns one file. A change asks for persistence, a timer of   *)
(* the user thread takes a snapshot some time later, and a thread of the   *)
(* manager's own writes the snapshots one after the other. At shutdown the *)
(* orchestrator flushes the managers and waits for their writes.           *)
(*                                                                         *)
(* A manager is registered when its service is built, before its file is   *)
(* read, or only when the data that was read is handed over (User,         *)
(* UserManager, Preferences and the store services, which name the file to *)
(* read). The services of a user start once the data of all managers of    *)
(* the first kind has been handed over (_read_all_persisted_user_data).    *)
(*                                                                         *)
(* The content of a file is a version: how many changes it contains. A     *)
(* write replaces the file by a rename, so it is the old or the new one.   *)
(* A file that cannot be parsed counts as missing, as it does in the code. *)
(* Left out: the rolling backups, which nothing reads, and the moment      *)
(* without a file that rename_file has on Windows.                         *)
(***************************************************************************)
EXTENDS Integers, Sequences, FiniteSets

CONSTANTS
  Manager,          \* the managers registered with the orchestrator
  FlushAtShutdown,  \* managers with source PRIVATE: flushed in any case
  RegistersAtRead,  \* managers that are initialized by the handler of their read
  PersistsDirectly, \* of those, the ones whose services call persist_now too
  Caller,           \* the parts of the shutdown routine that ask for a flush
  MaxVersion,       \* bound: changes per manager
  MaxQueue,         \* bound: tasks waiting when persist_now is called directly
  MaxFailures,      \* bound: writes that fail
  MaxRaised,        \* bound: snapshots that fail
  MaxRestarts       \* bound: restarts of the process, after a crash or an exit

ASSUME PersistenceAssumption ==
  /\ IsFiniteSet(Manager)
  /\ FlushAtShutdown \subseteq Manager
  /\ PersistsDirectly \subseteq RegistersAtRead /\ RegistersAtRead \subseteq Manager
  /\ {MaxVersion, MaxQueue, MaxFailures, MaxRaised, MaxRestarts} \subseteq Nat

VARIABLES
  pm,        \* pm[m]: the PersistenceManager m
  orch,      \* the PersistenceOrchestrator, and the flush in progress
  file,      \* file[m]: version in the file of m, 0 if there is none or it cannot be parsed
  failures,  \* writes that failed so far
  raised,    \* calls of persist_now that raised so far
  restarts   \* restarts so far

vars == <<pm, orch, file, failures, raised, restarts>>

\* A snapshot to write; flush: it has the complete_handler of the shutdown flush
Task == [version : Nat, force : BOOLEAN, flush : BOOLEAN]

ManagerState ==
  [data : Nat,              \* version of the persistable in memory
   requested : BOOLEAN,     \* persistence_requested
   timer : {"none", "armed", "fired", "stuck"},  \* fired: its _clear_timer will run
   tasks : Seq(Task),       \* of the write thread; the first is being written
   writing : {"idle", "write", "finally"},  \* where write_to_disk is with it
   read_called : BOOLEAN,
   found : Nat,             \* version that the read thread found in the file
   handed : BOOLEAN]        \* the user thread has got it

OrchestratorState ==
  [initialized : BOOLEAN,          \* all_services_initialized
   managers : SUBSET Manager,      \* all_persistence_managers
   called : SUBSET Caller,         \* who has called flush_all_data_to_disk_at_shutdown
   pending : SUBSET Caller,        \* whose flush() waits for the user thread
   flusher : SUBSET Caller,        \* whose flush() set flush_at_shutdown_called
   todo : SUBSET Manager,          \* what the loop in flush() has still to look at
   closing : SUBSET Manager,       \* whose shutdown() blocks the user thread
   handlers : SUBSET Manager,      \* whose complete_handler waits for the user thread
   open_instances : Nat,
   completed : SUBSET Caller,      \* whose complete_handler was called
   aborted : BOOLEAN,              \* history: an exception ended the loop in flush()
   due : [Manager -> Nat]]         \* versions in memory when the flush began

TypeOK ==
  /\ pm \in [Manager -> ManagerState]
  /\ orch \in OrchestratorState
  /\ file \in [Manager -> Nat]
  /\ failures \in Nat /\ raised \in Nat /\ restarts \in Nat

NewManager ==
  [data |-> 0, requested |-> FALSE, timer |-> "none", tasks |-> <<>>,
   writing |-> "idle", read_called |-> FALSE, found |-> 0, handed |-> FALSE]

NewOrchestrator ==
  [initialized |-> FALSE, managers |-> Manager \ RegistersAtRead, called |-> {}, pending |-> {},
   flusher |-> {}, todo |-> {}, closing |-> {}, handlers |-> {}, open_instances |-> 0,
   completed |-> {}, aborted |-> FALSE, due |-> [m \in Manager |-> 0]]

Init ==
  /\ pm = [m \in Manager |-> NewManager]
  /\ orch = NewOrchestrator
  /\ file \in [Manager -> {0, 1}]
  /\ failures = 0 /\ raised = 0 /\ restarts = 0

flush_at_shutdown_called == orch.flusher # {}

\* The user thread is not inside the flush loop or a manager's shutdown()
UserThreadIsFree == orch.todo = {} /\ orch.closing = {}

-----------------------------------------------------------------------------
(* Reading                                                                 *)

\* In a thread of its own. A read that the shutdown overtakes is given up
get_persisted(m) ==
  /\ ~ flush_at_shutdown_called
  /\ ~ pm[m].read_called
  /\ pm' = [pm EXCEPT ![m].read_called = TRUE, ![m].found = file[m]]
  /\ UNCHANGED <<orch, file, failures, raised, restarts>>

\* The handler of read_persisted, later, on the user thread. It calls initialize, which
\* registers nothing any more once the shutdown has begun, if that has not been done
read_persisted(m) ==
  /\ UserThreadIsFree
  /\ pm[m].read_called
  /\ ~ pm[m].handed
  /\ pm' = [pm EXCEPT ![m].handed = TRUE, ![m].data = pm[m].found]
  /\ orch' = IF flush_at_shutdown_called THEN orch
             ELSE [orch EXCEPT !.managers = @ \cup {m}]
  /\ UNCHANGED <<file, failures, raised, restarts>>

-----------------------------------------------------------------------------
(* Requests and timers, on the user thread                                 *)

\* The manager after maybe_start_timer_for_persistence
WithTimer(s) == IF s.timer = "none" THEN [s EXCEPT !.timer = "armed"] ELSE s

\* The manager after request_persistence
Requested(s) ==
  IF flush_at_shutdown_called THEN s
  ELSE IF orch.initialized THEN WithTimer([s EXCEPT !.requested = TRUE])
  ELSE [s EXCEPT !.requested = TRUE]

\* A service changes its data and calls request_persistence
Change(m) ==
  /\ UserThreadIsFree
  /\ m \in orch.managers
  /\ pm[m].handed
  /\ pm[m].data < MaxVersion
  /\ pm' = [pm EXCEPT ![m] = Requested([pm[m] EXCEPT !.data = pm[m].data + 1])]
  /\ UNCHANGED <<orch, file, failures, raised, restarts>>

MutantInitializesEarly ==
  /\ UserThreadIsFree /\ ~ orch.initialized
  /\ orch' = [orch EXCEPT !.initialized = TRUE]
  /\ pm' = [m \in Manager |-> IF m \in orch.managers /\ pm[m].requested
                              THEN WithTimer(pm[m]) ELSE pm[m]]
  /\ UNCHANGED <<file, failures, raised, restarts>>
on_all_services_initialized ==
  /\ UserThreadIsFree
  /\ ~ orch.initialized
  /\ \A m \in Manager \ RegistersAtRead : pm[m].handed
  /\ orch' = [orch EXCEPT !.initialized = TRUE]
  /\ pm' = [m \in Manager |-> IF m \in orch.managers /\ pm[m].requested
                              THEN WithTimer(pm[m]) ELSE pm[m]]
  /\ UNCHANGED <<file, failures, raised, restarts>>

\* persist_now: the snapshot is taken here and written by the thread of the manager
MutantNewestFirst(s, force, flush) ==
  LET new == [version |-> s.data, force |-> force, flush |-> flush]
  IN  [s EXCEPT !.tasks = IF s.writing = "idle" THEN <<new>> \o @
                          ELSE <<Head(@), new>> \o Tail(@)]
WithSnapshot(s, force, flush) ==
  [s EXCEPT !.tasks = Append(@, [version |-> s.data, force |-> force, flush |-> flush])]

\* run() of the timer: the timer is only cleared by a later task of the user thread
MutantClearNever(m) ==
  /\ UserThreadIsFree /\ m \in orch.managers /\ pm[m].timer = "armed"
  /\ pm' = [pm EXCEPT ![m].timer = "fired"]
  /\ UNCHANGED <<orch, file, failures, raised, restarts>>
TimerFires(m) ==
  /\ UserThreadIsFree
  /\ m \in orch.managers
  /\ pm[m].timer = "armed"
  /\ pm' = [pm EXCEPT ![m] = [WithSnapshot(@, FALSE, FALSE) EXCEPT !.timer = "fired"]]
  /\ UNCHANGED <<orch, file, failures, raised, restarts>>

\* persist_now raises: _clear_timer is not reached, so no timer will be started again
TimerRaises(m) ==
  /\ UserThreadIsFree
  /\ m \in orch.managers
  /\ pm[m].timer = "armed"
  /\ raised < MaxRaised
  /\ raised' = raised + 1
  /\ pm' = [pm EXCEPT ![m].timer = "stuck"]
  /\ UNCHANGED <<orch, file, failures, restarts>>

_clear_timer(m) ==
  /\ UserThreadIsFree
  /\ pm[m].timer = "fired"
  /\ pm' = [pm EXCEPT ![m].timer = "none"]
  /\ UNCHANGED <<orch, file, failures, raised, restarts>>

\* persist_now and force_persist_now, called by a service: it is private data
\* (Preferences, User, UserManager) that is forced, the DAO's is not. A call that
\* raises changes nothing
persist_now(m) ==
  /\ UserThreadIsFree
  /\ m \in PersistsDirectly
  /\ m \in orch.managers
  /\ Len(pm[m].tasks) < MaxQueue
  /\ pm' = [pm EXCEPT ![m] = WithSnapshot(@, m \in FlushAtShutdown, FALSE)]
  /\ UNCHANGED <<orch, file, failures, raised, restarts>>

-----------------------------------------------------------------------------
(* write_to_disk, on the manager's thread                                  *)

\* The task ends: its complete_handler, if it has one, goes to the user thread
EndOfTask(m) ==
  orch' = IF Head(pm[m].tasks).flush THEN [orch EXCEPT !.handlers = @ \cup {m}] ELSE orch

\* Before the start up is complete only a forced write is permitted
StartWrite(m) ==
  /\ pm[m].writing = "idle" /\ pm[m].tasks # <<>>
  /\ IF orch.initialized \/ Head(pm[m].tasks).force
     THEN pm' = [pm EXCEPT ![m].writing = "write"] /\ UNCHANGED orch
     ELSE pm' = [pm EXCEPT ![m].tasks = Tail(@)] /\ EndOfTask(m)
  /\ UNCHANGED <<file, failures, raised, restarts>>

\* Temporary file, fsync, rename
Replace(m) ==
  /\ pm[m].writing = "write"
  /\ file' = [file EXCEPT ![m] = Head(pm[m].tasks).version]
  /\ pm' = [pm EXCEPT ![m].writing = "finally"]
  /\ UNCHANGED <<orch, failures, raised, restarts>>

WriteFails(m) ==
  /\ pm[m].writing = "write"
  /\ failures < MaxFailures
  /\ failures' = failures + 1
  /\ pm' = [pm EXCEPT ![m].writing = "finally"]
  /\ UNCHANGED <<orch, file, raised, restarts>>

\* The finally block, of a write that failed too
EndWrite(m) ==
  /\ pm[m].writing = "finally"
  /\ pm' = [pm EXCEPT ![m].requested = FALSE, ![m].tasks = Tail(@), ![m].writing = "idle"]
  /\ EndOfTask(m)
  /\ UNCHANGED <<file, failures, raised, restarts>>

-----------------------------------------------------------------------------
(* The flush at shutdown                                                   *)

flush_all_data_to_disk_at_shutdown(c) ==
  /\ c \notin orch.called
  /\ orch' = IF orch.initialized
             THEN [orch EXCEPT !.called = @ \cup {c}, !.pending = @ \cup {c}]
             ELSE [orch EXCEPT !.called = @ \cup {c}, !.completed = @ \cup {c}]
  /\ UNCHANGED <<pm, file, failures, raised, restarts>>

\* flush(), up to its loop; a repeated call ends here and its handler is not called
MutantFlushAgain(c) ==
  /\ UserThreadIsFree /\ c \in orch.pending
  /\ orch' = [orch EXCEPT !.pending = @ \ {c}, !.flusher = {c},
                !.open_instances = Cardinality(orch.managers), !.todo = orch.managers,
                !.due = [m \in Manager |-> pm[m].data]]
  /\ UNCHANGED <<pm, file, failures, raised, restarts>>
MutantNoCount(c) ==
  /\ UserThreadIsFree /\ c \in orch.pending
  /\ orch' = IF flush_at_shutdown_called
             THEN [orch EXCEPT !.pending = @ \ {c}]
             ELSE [orch EXCEPT !.pending = @ \ {c}, !.flusher = {c},
                     !.todo = orch.managers, !.due = [m \in Manager |-> pm[m].data],
                     !.completed = IF orch.managers = {} THEN @ \cup {c} ELSE @]
  /\ UNCHANGED <<pm, file, failures, raised, restarts>>
flush(c) ==
  /\ UserThreadIsFree
  /\ c \in orch.pending
  /\ orch' = IF flush_at_shutdown_called
             THEN [orch EXCEPT !.pending = @ \ {c}]
             ELSE [orch EXCEPT !.pending = @ \ {c}, !.flusher = {c},
                     !.open_instances = Cardinality(orch.managers), !.todo = orch.managers,
                     !.due = [m \in Manager |-> pm[m].data],
                     !.completed = IF orch.managers = {} THEN @ \cup {c} ELSE @]
  /\ UNCHANGED <<pm, file, failures, raised, restarts>>

MustFlush(m) == pm[m].read_called /\ (m \in FlushAtShutdown \/ pm[m].requested)

\* _on_write_completed begins with shutdown() of the manager: the timer is stopped,
\* and the user thread waits in executor.shutdown() until the tasks are done
BeginShutdown(m) == pm' = [pm EXCEPT ![m].timer = "none"]

\* One round of the loop in flush()
FlushLoop(m) ==
  /\ m \in orch.todo
  /\ orch.closing = {}
  /\ IF MustFlush(m)
     THEN /\ pm' = [pm EXCEPT ![m] = WithSnapshot(@, FALSE, TRUE)]
          /\ orch' = [orch EXCEPT !.todo = @ \ {m}]
     ELSE /\ BeginShutdown(m)
          /\ orch' = [orch EXCEPT !.todo = @ \ {m}, !.closing = {m}]
  /\ UNCHANGED <<file, failures, raised, restarts>>

\* persist_now raises in the loop: flush() ends there, and neither this manager nor the
\* ones after it are counted down
FlushRaises(m) ==
  /\ m \in orch.todo
  /\ orch.closing = {}
  /\ MustFlush(m)
  /\ raised < MaxRaised
  /\ raised' = raised + 1
  /\ orch' = [orch EXCEPT !.todo = {}, !.aborted = TRUE]
  /\ UNCHANGED <<pm, file, failures, restarts>>

\* The complete_handler of a flushed manager
OnFlushed(m) ==
  /\ UserThreadIsFree
  /\ m \in orch.handlers
  /\ BeginShutdown(m)
  /\ orch' = [orch EXCEPT !.handlers = @ \ {m}, !.closing = {m}]
  /\ UNCHANGED <<file, failures, raised, restarts>>

\* The rest of _on_write_completed
MutantForgetLast(m) ==
  /\ m \in orch.closing /\ pm[m].tasks = <<>>
  /\ orch' = [orch EXCEPT !.closing = {}, !.managers = @ \ {m}, !.open_instances = @ - 1,
                !.completed = IF orch.open_instances < 1 THEN @ \cup orch.flusher ELSE @]
  /\ UNCHANGED <<pm, file, failures, raised, restarts>>
MutantCountTwice(m) ==
  /\ m \in orch.closing /\ pm[m].tasks = <<>>
  /\ orch' = [orch EXCEPT !.closing = {}, !.managers = @ \ {m}, !.open_instances = @ - 2,
                !.completed = IF orch.open_instances = 2 THEN @ \cup orch.flusher ELSE @]
  /\ UNCHANGED <<pm, file, failures, raised, restarts>>
EndShutdown(m) ==
  /\ m \in orch.closing
  /\ pm[m].tasks = <<>>
  /\ orch' = [orch EXCEPT !.closing = {}, !.managers = @ \ {m}, !.open_instances = @ - 1,
                !.completed = IF orch.open_instances = 1 THEN @ \cup orch.flusher ELSE @]
  /\ UNCHANGED <<pm, file, failures, raised, restarts>>

-----------------------------------------------------------------------------
\* The process ends after the flush, or dies at any moment, and is started again
Restart ==
  /\ restarts < MaxRestarts
  /\ restarts' = restarts + 1
  /\ pm' = [m \in Manager |-> NewManager]
  /\ orch' = NewOrchestrator
  /\ UNCHANGED <<file, failures, raised>>

UserThread ==
  \/ \E m \in Manager : \/ Change(m)
                        \/ persist_now(m)
                        \/ read_persisted(m)
                        \/ TimerFires(m) \/ TimerRaises(m) \/ _clear_timer(m)
                        \/ FlushLoop(m) \/ FlushRaises(m)
                        \/ OnFlushed(m) \/ EndShutdown(m)
  \/ \E c \in Caller : flush_all_data_to_disk_at_shutdown(c) \/ flush(c)
  \/ on_all_services_initialized

write_to_disk(m) == StartWrite(m) \/ Replace(m) \/ WriteFails(m) \/ EndWrite(m)

Next ==
  \/ UserThread
  \/ \E m \in Manager : get_persisted(m) \/ write_to_disk(m)
  \/ Restart

Spec == Init /\ [][Next]_vars

\* The threads run: whatever waits for the user thread or for the write thread is
\* executed. No service has to change anything, and nobody has to shut down.
FairSpec ==
  /\ Spec
  /\ \A m \in Manager :
       /\ WF_vars(write_to_disk(m))
       /\ WF_vars(TimerFires(m)) /\ WF_vars(_clear_timer(m))
       /\ WF_vars(FlushLoop(m)) /\ WF_vars(OnFlushed(m)) /\ WF_vars(EndShutdown(m))
  /\ \A c \in Caller : WF_vars(flush(c))

-----------------------------------------------------------------------------
(* Safety                                                                  *)

(* A file never goes back to an older version, in whatever order requests,  *)
(* timers, forced writes, the flush and crashes meet: the write thread      *)
(* writes the snapshots in the order in which they were taken.              *)
FileNeverGoesBack == [][\A m \in Manager : file'[m] >= file[m]]_vars

(* A file is not written before its content is in memory. read_called is    *)
(* set in the read thread, before the user thread gets the data, so that    *)
(* the check of it in flush() does not see to this: the order of the start  *)
(* does, in which nothing is written before all data has been handed over.  *)
UnreadFileIsKept ==
  [][\A m \in Manager : file'[m] # file[m] => pm[m].handed]_vars

FlushEnded == orch.flusher # {} /\ orch.flusher \subseteq orch.completed

(* When the shutdown routine is told that the flush is complete, the file   *)
(* of every manager of private data contains what the manager had in memory *)
(* when the flush began (unless a write failed).                            *)
PrivateDataIsFlushed ==
  FlushEnded /\ failures = 0
  => \A m \in FlushAtShutdown : file[m] >= orch.due[m]

(* Only one of the flush calls of the shutdown routine is carried out and   *)
(* answered: the orchestrator implements FlushOnce.                         *)
Abstract == INSTANCE FlushOnce WITH
  ready <- orch.initialized, waiting <- orch.pending,
  accepted <- orch.flusher, completed <- orch.completed
FlushesOnce == Abstract!FlushOnceSpec

(* Liveness                                                                *)

(* The shutdown routine is told that its flush is complete, whatever writes *)
(* fail or are still queued, unless the process dies before or a snapshot   *)
(* cannot be taken in the loop of the flush: persist_now raises then, which *)
(* ends the loop, although flush_all_data_to_disk says "We always get our   *)
(* completeHandler called even if exceptions happen".                       *)
FlushCompletes ==
  \A c \in Caller :
    c \in orch.flusher ~> c \in orch.completed \/ orch.flusher = {} \/ orch.aborted

(* Once a timer is armed, what is in memory reaches the file, unless writes *)
(* fail, or a shutdown or the end of the process comes first.               *)
ArmedTimerWrites ==
  \A m \in Manager, v \in 1 .. MaxVersion :
    pm[m].timer = "armed" /\ pm[m].data = v
    ~> \/ file[m] >= v \/ failures > 0 \/ raised > 0
       \/ flush_at_shutdown_called \/ ~ orch.initialized
=============================================================================
