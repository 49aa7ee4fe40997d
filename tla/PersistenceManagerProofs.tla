---------------------- MODULE PersistenceManagerProofs ----------------------
(* Theorems about PersistenceManager, for any managers, callers and bounds. *)
EXTENDS PersistenceManager, FiniteSetTheorems, TLAPS

-----------------------------------------------------------------------------
(* The inductive invariants                                                *)

\* The snapshots of a manager wait in the order in which they were taken, between what
\* its file and what its memory holds; nothing is in memory, and nothing waits, before what
\* was found in the file has been handed over
QueueInOrder(m) ==
  /\ \A i \in 1 .. Len(pm[m].tasks) :
       /\ file[m] <= pm[m].tasks[i].version
       /\ pm[m].tasks[i].version <= pm[m].data
  /\ \A i, j \in 1 .. Len(pm[m].tasks) :
       i <= j => pm[m].tasks[i].version <= pm[m].tasks[j].version
  /\ pm[m].handed => file[m] <= pm[m].data
  /\ ~ pm[m].handed => /\ pm[m].tasks = <<>> /\ ~ pm[m].requested
                       /\ pm[m].timer = "none" /\ pm[m].data = 0
                       /\ pm[m].read_called => pm[m].found = file[m]
  /\ pm[m].handed => pm[m].read_called
  /\ pm[m].writing # "idle" => pm[m].tasks # <<>>

QueuesInOrder == \A m \in Manager : QueueInOrder(m)

\* Calls of the flush: who waits or was answered has called, one at most is carried out
CallersInOrder ==
  /\ orch.pending \cup orch.flusher \cup orch.completed \subseteq orch.called
  /\ \A c, d \in orch.flusher : c = d
  /\ orch.pending \cap (orch.flusher \cup orch.completed) = {}
  /\ orch.pending # {} \/ orch.flusher # {} => orch.initialized

\* A snapshot of the flush waits to be written
FlushWaits(m) == \E i \in 1 .. Len(pm[m].tasks) : pm[m].tasks[i].flush

\* Of the stages of the flush a manager is in one at most, and only once
StagesInOrder ==
  /\ orch.todo \cup orch.closing \cup orch.handlers \subseteq orch.managers
  /\ orch.todo \cap orch.closing = {}
  /\ orch.handlers \cap (orch.todo \cup orch.closing) = {}
  /\ \A m, n \in orch.closing : m = n
  /\ \A m \in Manager :
       /\ FlushWaits(m) => m \in orch.managers \ (orch.todo \cup orch.closing \cup orch.handlers)
       /\ \A i, j \in 1 .. Len(pm[m].tasks) :
            pm[m].tasks[i].flush /\ pm[m].tasks[j].flush => i = j
       /\ m \notin orch.managers => pm[m].tasks = <<>>
  /\ orch.flusher = {} =>
       /\ orch.todo = {} /\ orch.closing = {} /\ orch.handlers = {}
       /\ \A m \in Manager : ~ FlushWaits(m)

\* The countdown of the flush is the number of managers that are left
InstancesCounted ==
  orch.flusher # {} =>
    /\ orch.open_instances = Cardinality(orch.managers)
    /\ orch.flusher \cap orch.completed # {} => orch.managers = {}

\* Once the services run, all that is registered has been handed over; and what was handed
\* over is registered until the flush begins
HandedAreRegistered ==
  /\ \A m \in Manager :
       ~ pm[m].handed /\ m \in orch.managers => m \notin RegistersAtRead /\ ~ orch.initialized
  /\ orch.flusher = {} => \A m \in Manager : pm[m].handed => m \in orch.managers

\* The flush has given up m: nothing will ever count it down
GivenUp(m) ==
  /\ m \in orch.managers \ (orch.todo \cup orch.closing \cup orch.handlers)
  /\ ~ FlushWaits(m)

\* A flush whose loop has been ended by an exception is never complete
AbortIsFinal == orch.aborted => orch.flusher # {} /\ \E m \in Manager : GivenUp(m)

\* What was due when the flush began is to be written, waits to be written or is written,
\* unless a write failed or the loop was ended
DueIsOnItsWay ==
  orch.flusher # {} /\ failures = 0 =>
    \A m \in FlushAtShutdown :
      /\ orch.due[m] <= pm[m].data
      /\ \/ m \in orch.todo \/ orch.aborted
         \/ file[m] >= orch.due[m]
         \/ \E i \in 1 .. Len(pm[m].tasks) :
              pm[m].tasks[i].flush /\ pm[m].tasks[i].version >= orch.due[m]

\* A write that did not fail is in the file before its task ends
WrittenBeforeEnd ==
  failures = 0 =>
    \A m \in Manager : pm[m].writing = "finally" => file[m] >= Head(pm[m].tasks).version

FlushInv ==
  /\ QueuesInOrder
  /\ CallersInOrder
  /\ StagesInOrder
  /\ InstancesCounted
  /\ HandedAreRegistered
  /\ AbortIsFinal
  /\ DueIsOnItsWay
  /\ WrittenBeforeEnd

\* t has been read as far as s
SameRead(t, s) ==
  t.read_called = s.read_called /\ t.found = s.found /\ t.handed = s.handed
USE DEF SameRead

-----------------------------------------------------------------------------
(* What the operators do to a manager                                      *)

\* The queue without its first task
LEMMA TailOf ==
  ASSUME NEW s \in Seq(Task), s # <<>>
  PROVE  /\ Head(s) = s[1] /\ Head(s) \in Task
         /\ Tail(s) \in Seq(Task) /\ Len(Tail(s)) = Len(s) - 1
         /\ 1 \in 1 .. Len(s)
         /\ \A i \in 1 .. Len(Tail(s)) : i + 1 \in 1 .. Len(s) /\ Tail(s)[i] = s[i + 1]
OBVIOUS

\* The queue with one more task
LEMMA AppendOf ==
  ASSUME NEW s \in Seq(Task), NEW t \in Task
  PROVE  /\ Append(s, t) \in Seq(Task) /\ Len(Append(s, t)) = Len(s) + 1
         /\ Len(s) \in Nat /\ Append(s, t) # <<>>
         /\ Append(s, t)[Len(s) + 1] = t
         /\ \A i \in 1 .. Len(s) : Append(s, t)[i] = s[i]
OBVIOUS

\* The queue after a snapshot, and what else WithSnapshot leaves alone
LEMMA SnapshotFields ==
  ASSUME NEW s \in ManagerState, NEW force \in BOOLEAN, NEW isFlush \in BOOLEAN
  PROVE  LET new == [version |-> s.data, force |-> force, flush |-> isFlush]
             t == WithSnapshot(s, force, isFlush)
         IN  /\ t \in ManagerState
             /\ t.tasks = Append(s.tasks, new)
             /\ t.data = s.data /\ t.requested = s.requested /\ t.timer = s.timer
             /\ t.writing = s.writing /\ SameRead(t, s)
<1> DEFINE new == [version |-> s.data, force |-> force, flush |-> isFlush]
<1>1. new \in Task /\ s.tasks \in Seq(Task)
  BY DEF ManagerState, Task
<1>2. Append(s.tasks, new) \in Seq(Task)
  BY <1>1, AppendOf
<1> HIDE DEF new
<1>3. WithSnapshot(s, force, isFlush) = [s EXCEPT !.tasks = Append(s.tasks, new)]
  BY DEF WithSnapshot, new
<1>4. LET t == WithSnapshot(s, force, isFlush)
      IN  /\ t \in ManagerState
          /\ t.tasks = Append(s.tasks, new)
          /\ t.data = s.data /\ t.requested = s.requested /\ t.timer = s.timer
          /\ t.writing = s.writing /\ SameRead(t, s)
  BY <1>2, <1>3 DEF ManagerState
<1> QED BY <1>4 DEF new

\* WithTimer arms the timer, if anything
LEMMA TimerFields ==
  ASSUME NEW s \in ManagerState
  PROVE  LET t == WithTimer(s)
         IN  /\ t \in ManagerState
             /\ t.data = s.data /\ t.requested = s.requested /\ t.tasks = s.tasks
             /\ t.writing = s.writing /\ SameRead(t, s)
BY DEF WithTimer, ManagerState

\* A change with its request: the version grows, the queue stays
LEMMA ChangeFields ==
  ASSUME NEW s \in ManagerState
  PROVE  LET t == Requested([s EXCEPT !.data = @ + 1])
         IN  /\ t \in ManagerState
             /\ t.data = s.data + 1 /\ t.tasks = s.tasks
             /\ t.writing = s.writing /\ SameRead(t, s)
<1> DEFINE u == [s EXCEPT !.data = @ + 1]
           v == [u EXCEPT !.requested = TRUE]
<1>1. /\ u \in ManagerState /\ u.data = s.data + 1 /\ u.tasks = s.tasks
      /\ u.writing = s.writing /\ SameRead(u, s)
  BY DEF ManagerState
<1>2. /\ v \in ManagerState /\ v.data = s.data + 1 /\ v.tasks = s.tasks
      /\ v.writing = s.writing /\ SameRead(v, s)
  BY <1>1 DEF ManagerState
<1>3. /\ WithTimer(v) \in ManagerState /\ WithTimer(v).data = s.data + 1
      /\ WithTimer(v).tasks = s.tasks
      /\ WithTimer(v).writing = s.writing /\ SameRead(WithTimer(v), s)
  BY <1>2, TimerFields
<1> HIDE DEF u, v
<1>4. Requested(u) \in {u, v, WithTimer(v)}
  BY DEF Requested, v
<1>5. LET t == Requested(u)
      IN  /\ t \in ManagerState
          /\ t.data = s.data + 1 /\ t.tasks = s.tasks
          /\ t.writing = s.writing /\ SameRead(t, s)
  BY <1>1, <1>2, <1>3, <1>4
<1> QED BY <1>5 DEF u

-----------------------------------------------------------------------------
(* Type correctness                                                        *)

\* Every step keeps the states of the managers within their type
LEMMA ManagersType == TypeOK /\ FlushInv /\ [Next]_vars => pm' \in [Manager -> ManagerState]
<1> SUFFICES ASSUME TypeOK, FlushInv, [Next]_vars PROVE pm' \in [Manager -> ManagerState]
  OBVIOUS
<1> DEFINE Typed == pm' \in [Manager -> ManagerState]
<1>0. pm \in [Manager -> ManagerState] /\ \A m \in Manager : pm[m] \in ManagerState
  BY DEF TypeOK
<1>1. ASSUME NEW m \in Manager, NEW s \in ManagerState, pm' = [pm EXCEPT ![m] = s] PROVE Typed
  BY <1>0, <1>1
<1> HIDE DEF Typed
<1>2. ASSUME NEW m \in Manager, read_persisted(m) PROVE Typed
  BY <1>0, <1>2 DEF read_persisted, ManagerState, Typed
<1>2a. ASSUME NEW m \in Manager, get_persisted(m) PROVE Typed
  <2> DEFINE s == [pm[m] EXCEPT !.read_called = TRUE, !.found = file[m]]
  <2>1. file[m] \in Nat
    BY DEF TypeOK
  <2>2. s \in ManagerState
    BY <1>0, <2>1 DEF ManagerState
  <2>3. pm' = [pm EXCEPT ![m] = s]
    BY <1>0, <1>2a DEF get_persisted
  <2> QED BY <1>1, <2>2, <2>3
<1>2b. ASSUME NEW m \in Manager, TimerRaises(m) PROVE Typed
  BY <1>0, <1>2b DEF TimerRaises, ManagerState, Typed
<1>3. ASSUME NEW m \in Manager, Change(m) PROVE Typed
  <2>1. Requested([pm[m] EXCEPT !.data = @ + 1]) \in ManagerState
    BY <1>0, ChangeFields
  <2>2. pm' = [pm EXCEPT ![m] = Requested([pm[m] EXCEPT !.data = @ + 1])]
    BY <1>3 DEF Change
  <2> QED BY <1>1, <2>1, <2>2
<1>4. ASSUME NEW m \in Manager, TimerFires(m) PROVE Typed
  <2>1. [WithSnapshot(pm[m], FALSE, FALSE) EXCEPT !.timer = "fired"] \in ManagerState
    <3>1. WithSnapshot(pm[m], FALSE, FALSE) \in ManagerState
      BY <1>0, SnapshotFields
    <3> QED BY <3>1 DEF ManagerState
  <2> QED BY <1>1, <1>4, <2>1 DEF TimerFires
<1>5. ASSUME NEW m \in Manager, _clear_timer(m) PROVE Typed
  BY <1>0, <1>5 DEF _clear_timer, ManagerState, Typed
<1>6. ASSUME NEW m \in Manager, persist_now(m) PROVE Typed
  <2> DEFINE force == m \in FlushAtShutdown
  <2>2. force \in BOOLEAN
    OBVIOUS
  <2>3. pm' = [pm EXCEPT ![m] = WithSnapshot(pm[m], force, FALSE)]
    BY <1>0, <1>6 DEF persist_now
  <2> HIDE DEF force
  <2>1. \A f \in BOOLEAN : WithSnapshot(pm[m], f, FALSE) \in ManagerState
    BY <1>0, SnapshotFields
  <2> QED BY <1>1, <2>1, <2>2, <2>3
<1>7. ASSUME NEW m \in Manager, StartWrite(m) PROVE Typed
  <2>1. CASE pm' = [pm EXCEPT ![m].writing = "write"]
    BY <1>0, <2>1 DEF ManagerState, Typed
  <2>2. CASE pm' = [pm EXCEPT ![m].tasks = Tail(@)]
    <3>1. Tail(pm[m].tasks) \in Seq(Task)
      BY <1>0, <1>7, TailOf DEF StartWrite, ManagerState
    <3> QED BY <1>0, <2>2, <3>1 DEF ManagerState, Typed
  <2> QED BY <1>7, <2>1, <2>2 DEF StartWrite
<1>8. ASSUME NEW m \in Manager, Replace(m) \/ WriteFails(m) PROVE Typed
  <2>1. pm' = [pm EXCEPT ![m].writing = "finally"]
    BY <1>8 DEF Replace, WriteFails
  <2> QED BY <1>0, <2>1 DEF ManagerState, Typed
<1>9. ASSUME NEW m \in Manager, EndWrite(m) PROVE Typed
  <2>1. Tail(pm[m].tasks) \in Seq(Task)
    BY <1>0, <1>9, TailOf DEF EndWrite, ManagerState, FlushInv, QueuesInOrder, QueueInOrder
  <2> QED BY <1>0, <1>9, <2>1 DEF EndWrite, ManagerState, Typed
<1>10. ASSUME NEW m \in Manager, FlushLoop(m) \/ OnFlushed(m) PROVE Typed
  <2>1. WithSnapshot(pm[m], FALSE, TRUE) \in ManagerState
    BY <1>0, SnapshotFields
  <2>2. BeginShutdown(m) => Typed
    BY <1>0 DEF BeginShutdown, ManagerState, Typed
  <2> QED BY <1>1, <1>10, <2>1, <2>2 DEF FlushLoop, OnFlushed
<1>11. CASE on_all_services_initialized
  BY <1>0, <1>11, TimerFields DEF on_all_services_initialized, Typed
<1>12. CASE Restart
  <2>1. NewManager \in ManagerState
    BY DEF NewManager, ManagerState
  <2> QED BY <1>12, <2>1 DEF Restart, Typed
<1>13. ASSUME UNCHANGED pm PROVE Typed
  BY <1>0, <1>13 DEF Typed
<1>14. \/ UNCHANGED pm
       \/ on_all_services_initialized \/ Restart
       \/ \E m \in Manager :
            \/ read_persisted(m) \/ get_persisted(m) \/ TimerRaises(m)
            \/ Change(m) \/ TimerFires(m) \/ _clear_timer(m)
            \/ persist_now(m) \/ StartWrite(m) \/ Replace(m) \/ WriteFails(m) \/ EndWrite(m)
            \/ FlushLoop(m) \/ OnFlushed(m)
  BY DEF Next, UserThread, write_to_disk, vars, EndShutdown, flush, FlushRaises,
         flush_all_data_to_disk_at_shutdown
<1> QED
  BY <1>2, <1>2a, <1>2b, <1>3, <1>4, <1>5, <1>6, <1>7, <1>8, <1>9, <1>10, <1>11, <1>12, <1>13, <1>14
     DEF Typed

\* The steps that the orchestrator takes part in
LEMMA OrchestratorSteps ==
  ASSUME [Next]_vars
  PROVE  \/ orch' = orch
         \/ on_all_services_initialized \/ Restart
         \/ \E c \in Caller : flush_all_data_to_disk_at_shutdown(c) \/ flush(c)
         \/ \E m \in Manager : \/ EndOfTask(m) \/ FlushLoop(m) \/ OnFlushed(m)
                               \/ EndShutdown(m) \/ read_persisted(m) \/ FlushRaises(m)
BY DEF Next, UserThread, write_to_disk, vars, Change, persist_now, TimerFires, _clear_timer,
       get_persisted, TimerRaises, StartWrite, Replace, WriteFails, EndWrite

\* Every step keeps the orchestrator within its type
LEMMA OrchestratorType == TypeOK /\ FlushInv /\ [Next]_vars => orch' \in OrchestratorState
<1> SUFFICES ASSUME TypeOK, FlushInv, [Next]_vars PROVE orch' \in OrchestratorState
  OBVIOUS
<1>0. orch \in OrchestratorState /\ pm \in [Manager -> ManagerState]
  BY DEF TypeOK
<1>1. CASE on_all_services_initialized
  BY <1>0, <1>1 DEF on_all_services_initialized, OrchestratorState
<1>2. ASSUME NEW c \in Caller, flush_all_data_to_disk_at_shutdown(c) PROVE orch' \in OrchestratorState
  BY <1>0, <1>2 DEF flush_all_data_to_disk_at_shutdown, OrchestratorState
<1>3. ASSUME NEW c \in Caller, flush(c) PROVE orch' \in OrchestratorState
  <2>1. CASE flush_at_shutdown_called
    BY <1>0, <1>3, <2>1 DEF flush, OrchestratorState
  <2>2. CASE ~ flush_at_shutdown_called
    <3>1. Cardinality(orch.managers) \in Nat
      BY <1>0, PersistenceAssumption, FS_Subset, FS_CardinalityType DEF OrchestratorState
    <3>2. [m \in Manager |-> pm[m].data] \in [Manager -> Nat]
      BY <1>0 DEF ManagerState
    <3> QED BY <1>0, <1>3, <2>2, <3>1, <3>2 DEF flush, OrchestratorState
  <2> QED BY <2>1, <2>2
<1>4. ASSUME NEW m \in Manager, EndOfTask(m) PROVE orch' \in OrchestratorState
  BY <1>0, <1>4 DEF EndOfTask, OrchestratorState
<1>5. ASSUME NEW m \in Manager, FlushLoop(m) \/ OnFlushed(m) PROVE orch' \in OrchestratorState
  <2>1. \/ orch' = [orch EXCEPT !.todo = @ \ {m}]
        \/ orch' = [orch EXCEPT !.todo = @ \ {m}, !.closing = {m}]
        \/ orch' = [orch EXCEPT !.handlers = @ \ {m}, !.closing = {m}]
    BY <1>5 DEF FlushLoop, OnFlushed
  <2>2. CASE orch' = [orch EXCEPT !.todo = @ \ {m}]
    BY <1>0, <2>2 DEF OrchestratorState
  <2>3. CASE orch' = [orch EXCEPT !.todo = @ \ {m}, !.closing = {m}]
    BY <1>0, <2>3 DEF OrchestratorState
  <2>4. CASE orch' = [orch EXCEPT !.handlers = @ \ {m}, !.closing = {m}]
    BY <1>0, <2>4 DEF OrchestratorState
  <2> QED BY <2>1, <2>2, <2>3, <2>4
<1>6. ASSUME NEW m \in Manager, EndShutdown(m) PROVE orch' \in OrchestratorState
  <2>1. orch.open_instances - 1 \in Nat
    <3>1. m \in orch.managers /\ orch.flusher # {}
      BY <1>6 DEF EndShutdown, FlushInv, StagesInOrder
    <3>2. IsFiniteSet(orch.managers) /\ Cardinality(orch.managers) \in Nat
      BY <1>0, PersistenceAssumption, FS_Subset, FS_CardinalityType DEF OrchestratorState
    <3> QED BY <3>1, <3>2, FS_EmptySet DEF FlushInv, InstancesCounted
  <2> QED BY <1>0, <1>6, <2>1 DEF EndShutdown, OrchestratorState
<1>7. CASE Restart
  BY <1>7, PersistenceAssumption DEF Restart, NewOrchestrator, OrchestratorState
<1>8. ASSUME NEW m \in Manager, read_persisted(m) \/ FlushRaises(m)
      PROVE  orch' \in OrchestratorState
  <2>1. \/ orch' = orch
        \/ orch' = [orch EXCEPT !.managers = @ \cup {m}]
        \/ orch' = [orch EXCEPT !.todo = {}, !.aborted = TRUE]
    BY <1>8 DEF read_persisted, FlushRaises
  <2>2. CASE orch' = [orch EXCEPT !.managers = @ \cup {m}]
    BY <1>0, <2>2 DEF OrchestratorState
  <2>3. CASE orch' = [orch EXCEPT !.todo = {}, !.aborted = TRUE]
    BY <1>0, <2>3 DEF OrchestratorState
  <2> QED BY <1>0, <2>1, <2>2, <2>3
<1> QED BY <1>0, <1>1, <1>2, <1>3, <1>4, <1>5, <1>6, <1>7, <1>8, OrchestratorSteps

\* Every step keeps the types
LEMMA TypeStep == TypeOK /\ FlushInv /\ [Next]_vars => TypeOK'
<1> SUFFICES ASSUME TypeOK, FlushInv, [Next]_vars PROVE TypeOK'
  OBVIOUS
<1>1. failures' \in Nat /\ raised' \in Nat /\ restarts' \in Nat
  <2>1. /\ failures' = failures \/ failures' = failures + 1
        /\ raised' = raised \/ raised' = raised + 1
        /\ restarts' = restarts \/ restarts' = restarts + 1
    BY DEF Next, UserThread, write_to_disk, vars, Change, persist_now, TimerFires,
           _clear_timer, read_persisted, get_persisted, TimerRaises, FlushRaises, StartWrite, Replace, WriteFails, EndWrite, Restart,
           on_all_services_initialized, flush, flush_all_data_to_disk_at_shutdown, FlushLoop,
           OnFlushed, EndShutdown
  <2> QED BY <2>1 DEF TypeOK
<1>2. file' \in [Manager -> Nat]
  <2>1. ASSUME NEW m \in Manager, Replace(m) PROVE file' \in [Manager -> Nat]
    <3>1. pm[m] \in ManagerState /\ pm[m].tasks # <<>>
      BY <2>1 DEF TypeOK, Replace, FlushInv, QueuesInOrder, QueueInOrder
    <3>2. Head(pm[m].tasks).version \in Nat
      BY <3>1, TailOf DEF ManagerState, Task
    <3> QED BY <2>1, <3>2 DEF Replace, TypeOK
  <2>2. file' = file \/ \E m \in Manager : Replace(m)
    BY DEF Next, UserThread, write_to_disk, vars, Change, persist_now, TimerFires,
           _clear_timer, read_persisted, get_persisted, TimerRaises, FlushRaises, StartWrite, WriteFails, EndWrite, Restart,
           on_all_services_initialized, flush, flush_all_data_to_disk_at_shutdown, FlushLoop,
           OnFlushed, EndShutdown
  <2> QED BY <2>1, <2>2 DEF TypeOK
<1> QED BY <1>1, <1>2, ManagersType, OrchestratorType DEF TypeOK

-----------------------------------------------------------------------------
(* What the steps do to the queues                                         *)

\* The other managers are left alone
Others(m) == \A n \in Manager \ {m} : pm'[n] = pm[n]

\* The queue and the memory of m stay as they are, but for the timer and the request
QueueKept(m) ==
  /\ pm'[m].tasks = pm[m].tasks /\ pm'[m].data = pm[m].data
  /\ SameRead(pm'[m], pm[m])

\* A snapshot of m is queued
Snapshot(m, isFlush) ==
  /\ \E t \in Task : /\ t.version = pm[m].data /\ t.flush = isFlush
                     /\ pm'[m].tasks = Append(pm[m].tasks, t)
  /\ pm'[m].data = pm[m].data /\ SameRead(pm'[m], pm[m])
  /\ pm'[m].writing = pm[m].writing

\* The first task of m is done
Dequeued(m) ==
  /\ pm[m].tasks # <<>> /\ pm'[m].tasks = Tail(pm[m].tasks)
  /\ pm'[m].data = pm[m].data /\ SameRead(pm'[m], pm[m])
  /\ pm'[m].writing = "idle" /\ pm'[m].timer = pm[m].timer
  /\ pm'[m].requested => pm[m].requested

\* The steps that queue a snapshot
LEMMA SnapshotSteps ==
  ASSUME TypeOK, NEW m \in Manager
  PROVE  /\ TimerFires(m) => Snapshot(m, FALSE) /\ Others(m)
         /\ persist_now(m) => Snapshot(m, FALSE) /\ Others(m) /\ pm'[m].timer = pm[m].timer
         /\ FlushLoop(m) /\ MustFlush(m) => Snapshot(m, TRUE) /\ Others(m)
<1>0. pm \in [Manager -> ManagerState] /\ pm[m] \in ManagerState
  BY DEF TypeOK
<1>1. ASSUME NEW force \in BOOLEAN, NEW isFlush \in BOOLEAN
      PROVE  LET t == [version |-> pm[m].data, force |-> force, flush |-> isFlush]
             IN  t \in Task /\ t.version = pm[m].data /\ t.flush = isFlush
  BY <1>0 DEF Task, ManagerState
<1>2. ASSUME NEW force \in BOOLEAN, NEW isFlush \in BOOLEAN,
             pm' = [pm EXCEPT ![m] = WithSnapshot(pm[m], force, isFlush)]
      PROVE  Snapshot(m, isFlush) /\ Others(m) /\ pm'[m].timer = pm[m].timer
  <2> DEFINE s == WithSnapshot(pm[m], force, isFlush)
             t == [version |-> pm[m].data, force |-> force, flush |-> isFlush]
  <2>1. pm'[m] = s /\ Others(m)
    BY <1>0, <1>2 DEF Others
  <2>2. /\ s.data = pm[m].data /\ s.writing = pm[m].writing /\ s.timer = pm[m].timer
        /\ SameRead(s, pm[m])
        /\ s.tasks = Append(pm[m].tasks, t)
    BY <1>0, SnapshotFields
  <2>3. t \in Task /\ t.version = pm[m].data /\ t.flush = isFlush
    BY <1>1
  <2> HIDE DEF s, t
  <2> QED BY <2>1, <2>2, <2>3 DEF Snapshot
<1>3. ASSUME TimerFires(m) PROVE Snapshot(m, FALSE) /\ Others(m)
  <2> DEFINE s == WithSnapshot(pm[m], FALSE, FALSE)
  <2>1. pm' = [pm EXCEPT ![m] = [s EXCEPT !.timer = "fired"]]
    BY <1>3 DEF TimerFires
  <2>2. /\ s \in ManagerState /\ s.data = pm[m].data /\ s.writing = pm[m].writing
        /\ SameRead(s, pm[m])
        /\ s.tasks = Append(pm[m].tasks, [version |-> pm[m].data, force |-> FALSE, flush |-> FALSE])
    BY <1>0, SnapshotFields
  <2> HIDE DEF s
  <2>3. /\ pm'[m].tasks = s.tasks /\ pm'[m].data = s.data /\ pm'[m].writing = s.writing
        /\ SameRead(pm'[m], s) /\ Others(m)
    BY <1>0, <2>1, <2>2 DEF ManagerState, Others
  <2> QED BY <1>1, <2>2, <2>3 DEF Snapshot
<1>4. ASSUME persist_now(m) PROVE Snapshot(m, FALSE) /\ Others(m) /\ pm'[m].timer = pm[m].timer
  <2> DEFINE force == m \in FlushAtShutdown
  <2>1. force \in BOOLEAN
    OBVIOUS
  <2>2. pm' = [pm EXCEPT ![m] = WithSnapshot(pm[m], force, FALSE)]
    BY <1>4 DEF persist_now
  <2> HIDE DEF force
  <2> QED BY <1>2, <2>1, <2>2
<1>5. ASSUME FlushLoop(m), MustFlush(m) PROVE Snapshot(m, TRUE) /\ Others(m)
  <2>1. pm' = [pm EXCEPT ![m] = WithSnapshot(pm[m], FALSE, TRUE)]
    BY <1>5 DEF FlushLoop
  <2> QED BY <1>2, <2>1
<1> QED BY <1>3, <1>4, <1>5

\* The steps that end a task
LEMMA DequeueSteps ==
  ASSUME TypeOK, QueuesInOrder, NEW m \in Manager
  PROVE  /\ EndWrite(m) => Dequeued(m) /\ Others(m)
         /\ StartWrite(m) => \/ /\ Dequeued(m) /\ Others(m)
                                /\ ~ orch.initialized /\ EndOfTask(m)
                             \/ /\ QueueKept(m) /\ Others(m) /\ orch' = orch
                                /\ pm'[m].writing = "write" /\ pm[m].tasks # <<>>
                                /\ pm'[m].timer = pm[m].timer /\ pm'[m].requested = pm[m].requested
<1>0. pm \in [Manager -> ManagerState] /\ pm[m] \in ManagerState
  BY DEF TypeOK
<1>1. ASSUME EndWrite(m) PROVE Dequeued(m) /\ Others(m)
  <2>1. pm[m].tasks # <<>>
    BY <1>1 DEF EndWrite, QueuesInOrder, QueueInOrder
  <2> QED BY <1>0, <1>1, <2>1 DEF EndWrite, Dequeued, Others, ManagerState
<1>2. ASSUME StartWrite(m), orch.initialized \/ Head(pm[m].tasks).force
      PROVE  /\ QueueKept(m) /\ Others(m) /\ orch' = orch
             /\ pm'[m].writing = "write" /\ pm[m].tasks # <<>>
             /\ pm'[m].timer = pm[m].timer /\ pm'[m].requested = pm[m].requested
  BY <1>0, <1>2 DEF StartWrite, QueueKept, Others, ManagerState
<1>3. ASSUME StartWrite(m), ~ (orch.initialized \/ Head(pm[m].tasks).force)
      PROVE  Dequeued(m) /\ Others(m) /\ ~ orch.initialized /\ EndOfTask(m)
  <2>1. /\ pm' = [pm EXCEPT ![m].tasks = Tail(@)] /\ EndOfTask(m)
        /\ pm[m].writing = "idle" /\ pm[m].tasks # <<>>
    BY <1>3 DEF StartWrite
  <2> QED BY <1>0, <1>3, <2>1 DEF Dequeued, Others, ManagerState
<1> QED BY <1>1, <1>2, <1>3

\* The steps that leave the queue of their manager alone
LEMMA OtherSteps ==
  ASSUME TypeOK, NEW m \in Manager
  PROVE  /\ _clear_timer(m) \/ BeginShutdown(m) =>
              /\ QueueKept(m) /\ Others(m) /\ pm'[m].writing = pm[m].writing
              /\ pm'[m].timer = "none" /\ pm'[m].requested = pm[m].requested
         /\ Replace(m) \/ WriteFails(m) =>
              /\ QueueKept(m) /\ Others(m) /\ pm'[m].writing = "finally"
              /\ pm'[m].timer = pm[m].timer /\ pm'[m].requested = pm[m].requested
         /\ Change(m) =>
              /\ Others(m) /\ pm'[m].tasks = pm[m].tasks /\ pm'[m].writing = pm[m].writing
              /\ SameRead(pm'[m], pm[m]) /\ pm'[m].data = pm[m].data + 1
         /\ read_persisted(m) =>
              /\ Others(m) /\ pm'[m].tasks = pm[m].tasks /\ pm'[m].writing = pm[m].writing
              /\ pm'[m].read_called /\ pm'[m].handed /\ pm'[m].data = pm[m].found
         /\ get_persisted(m) =>
              /\ Others(m) /\ pm'[m].tasks = pm[m].tasks /\ pm'[m].writing = pm[m].writing
              /\ pm'[m].read_called /\ pm'[m].handed = pm[m].handed
              /\ pm'[m].data = pm[m].data /\ pm'[m].found = file[m]
              /\ pm'[m].timer = pm[m].timer /\ pm'[m].requested = pm[m].requested
         /\ TimerRaises(m) =>
              /\ QueueKept(m) /\ Others(m) /\ pm'[m].writing = pm[m].writing
              /\ pm'[m].requested = pm[m].requested
<1>0. pm \in [Manager -> ManagerState] /\ pm[m] \in ManagerState
  BY DEF TypeOK
<1>1. ASSUME _clear_timer(m) \/ BeginShutdown(m)
      PROVE  /\ QueueKept(m) /\ Others(m) /\ pm'[m].writing = pm[m].writing
             /\ pm'[m].timer = "none" /\ pm'[m].requested = pm[m].requested
  <2>1. pm' = [pm EXCEPT ![m].timer = "none"]
    BY <1>1 DEF _clear_timer, BeginShutdown
  <2> QED BY <1>0, <2>1 DEF QueueKept, Others, ManagerState
<1>2. ASSUME Replace(m) \/ WriteFails(m)
      PROVE  /\ QueueKept(m) /\ Others(m) /\ pm'[m].writing = "finally"
             /\ pm'[m].timer = pm[m].timer /\ pm'[m].requested = pm[m].requested
  <2>1. pm' = [pm EXCEPT ![m].writing = "finally"]
    BY <1>2 DEF Replace, WriteFails
  <2> QED BY <1>0, <2>1 DEF QueueKept, Others, ManagerState
<1>3. ASSUME Change(m)
      PROVE  /\ Others(m) /\ pm'[m].tasks = pm[m].tasks /\ pm'[m].writing = pm[m].writing
             /\ SameRead(pm'[m], pm[m]) /\ pm'[m].data = pm[m].data + 1
  <2> DEFINE s == Requested([pm[m] EXCEPT !.data = pm[m].data + 1])
  <2>1. pm' = [pm EXCEPT ![m] = s]
    BY <1>3 DEF Change
  <2>2. s.tasks = pm[m].tasks /\ s.writing = pm[m].writing /\ SameRead(s, pm[m])
        /\ s.data = pm[m].data + 1
    BY <1>0, ChangeFields
  <2> HIDE DEF s
  <2> QED BY <1>0, <2>1, <2>2 DEF Others
<1>4. ASSUME read_persisted(m)
      PROVE  /\ Others(m) /\ pm'[m].tasks = pm[m].tasks /\ pm'[m].writing = pm[m].writing
             /\ pm'[m].read_called /\ pm'[m].handed /\ pm'[m].data = pm[m].found
  BY <1>0, <1>4 DEF read_persisted, Others, ManagerState
<1>5. ASSUME get_persisted(m)
      PROVE  /\ Others(m) /\ pm'[m].tasks = pm[m].tasks /\ pm'[m].writing = pm[m].writing
             /\ pm'[m].read_called /\ pm'[m].handed = pm[m].handed
             /\ pm'[m].data = pm[m].data /\ pm'[m].found = file[m]
             /\ pm'[m].timer = pm[m].timer /\ pm'[m].requested = pm[m].requested
  BY <1>0, <1>5 DEF get_persisted, Others, ManagerState
<1>6. ASSUME TimerRaises(m)
      PROVE  /\ QueueKept(m) /\ Others(m) /\ pm'[m].writing = pm[m].writing
             /\ pm'[m].requested = pm[m].requested
  BY <1>0, <1>6 DEF TimerRaises, QueueKept, Others, ManagerState
<1> QED BY <1>1, <1>2, <1>3, <1>4, <1>5, <1>6

-----------------------------------------------------------------------------
(* The queues stay in order                                                *)

\* The types of what a manager holds
LEMMA ManagerTypes ==
  ASSUME TypeOK, NEW m \in Manager
  PROVE  /\ pm[m] \in ManagerState
         /\ pm[m].data \in Nat /\ file[m] \in Nat
         /\ pm[m].tasks \in Seq(Task) /\ Len(pm[m].tasks) \in Nat
         /\ \A i \in 1 .. Len(pm[m].tasks) :
              pm[m].tasks[i] \in Task /\ pm[m].tasks[i].version \in Nat
<1>1. pm[m] \in ManagerState /\ file[m] \in Nat
  BY DEF TypeOK
<1>2. pm[m].data \in Nat /\ pm[m].tasks \in Seq(Task)
  BY <1>1 DEF ManagerState
<1>3. \A s \in Seq(Task) : Len(s) \in Nat /\ \A i \in 1 .. Len(s) : s[i] \in Task
  OBVIOUS
<1>4. \A t \in Task : t.version \in Nat
  BY DEF Task
<1> QED BY <1>1, <1>2, <1>3, <1>4

\* The order of a queue that is not touched, or whose memory grows
LEMMA OrderKept ==
  ASSUME TypeOK, TypeOK', NEW m \in Manager, QueueInOrder(m), file'[m] = file[m],
         pm'[m].tasks = pm[m].tasks, SameRead(pm'[m], pm[m]),
         pm[m].data <= pm'[m].data,
         pm'[m].writing # "idle" => pm[m].tasks # <<>>,
         ~ pm[m].handed => /\ ~ pm'[m].requested /\ pm'[m].timer = "none"
                           /\ pm'[m].data = pm[m].data
  PROVE  QueueInOrder(m)'
<1>1. /\ pm[m].data \in Nat /\ file[m] \in Nat
      /\ \A i \in 1 .. Len(pm[m].tasks) : pm[m].tasks[i].version \in Nat
  BY ManagerTypes
<1>2. pm'[m] \in ManagerState
  BY DEF TypeOK
<1>3. pm'[m].data \in Nat
  BY <1>2 DEF ManagerState
<1> QED BY <1>1, <1>3 DEF QueueInOrder

\* A snapshot at the end of the queue is the newest
LEMMA OrderOfSnapshot ==
  ASSUME TypeOK, TypeOK', NEW m \in Manager, QueueInOrder(m), file'[m] = file[m],
         NEW isFlush, Snapshot(m, isFlush), pm[m].handed
  PROVE  QueueInOrder(m)'
<1> DEFINE q == pm[m].tasks
<1>1. PICK t \in Task : t.version = pm[m].data /\ pm'[m].tasks = Append(q, t)
  BY DEF Snapshot
<1>2. /\ pm[m].data \in Nat /\ file[m] \in Nat /\ q \in Seq(Task)
      /\ \A i \in 1 .. Len(q) : q[i].version \in Nat
  BY ManagerTypes
<1>3. /\ Len(pm'[m].tasks) = Len(q) + 1 /\ Len(q) \in Nat /\ pm'[m].tasks # <<>>
      /\ pm'[m].tasks[Len(q) + 1] = t /\ \A i \in 1 .. Len(q) : pm'[m].tasks[i] = q[i]
  <2>1. /\ Len(Append(q, t)) = Len(q) + 1 /\ Len(q) \in Nat /\ Append(q, t) # <<>>
        /\ Append(q, t)[Len(q) + 1] = t /\ \A i \in 1 .. Len(q) : Append(q, t)[i] = q[i]
    BY <1>2, AppendOf
  <2> HIDE DEF q
  <2> QED BY <1>1, <2>1
<1>4. ASSUME NEW i \in 1 .. Len(pm'[m].tasks)
      PROVE  file'[m] <= pm'[m].tasks[i].version /\ pm'[m].tasks[i].version <= pm'[m].data
  BY <1>1, <1>2, <1>3 DEF QueueInOrder, Snapshot
<1>5. ASSUME NEW i \in 1 .. Len(pm'[m].tasks), NEW j \in 1 .. Len(pm'[m].tasks), i <= j
      PROVE  pm'[m].tasks[i].version <= pm'[m].tasks[j].version
  <2>1. CASE j = Len(q) + 1
    BY <1>1, <1>3, <1>4, <2>1 DEF Snapshot
  <2>2. CASE i \in 1 .. Len(q) /\ j \in 1 .. Len(q)
    BY <1>3, <1>5, <2>2 DEF QueueInOrder
  <2> QED BY <1>3, <1>5, <2>1, <2>2
<1> QED BY <1>3, <1>4, <1>5 DEF QueueInOrder, Snapshot

\* Without its first task a queue is still in order
LEMMA OrderOfRest ==
  ASSUME TypeOK, TypeOK', NEW m \in Manager, QueueInOrder(m), file'[m] = file[m], Dequeued(m)
  PROVE  QueueInOrder(m)'
<1> DEFINE q == pm[m].tasks
<1>1. q \in Seq(Task) /\ q # <<>> /\ pm'[m].tasks = Tail(q)
  BY ManagerTypes DEF Dequeued
<1>2. /\ Len(pm'[m].tasks) \in Nat
      /\ \A i \in 1 .. Len(pm'[m].tasks) : i + 1 \in 1 .. Len(q) /\ pm'[m].tasks[i] = q[i + 1]
  BY <1>1, TailOf
<1>3. \A i \in 1 .. Len(pm'[m].tasks) :
        file'[m] <= pm'[m].tasks[i].version /\ pm'[m].tasks[i].version <= pm'[m].data
  BY <1>2 DEF QueueInOrder, Dequeued
<1>4. ASSUME NEW i \in 1 .. Len(pm'[m].tasks), NEW j \in 1 .. Len(pm'[m].tasks), i <= j
      PROVE  pm'[m].tasks[i].version <= pm'[m].tasks[j].version
  <2>1. i + 1 <= j + 1
    BY <1>2, <1>4
  <2>2. q[i + 1].version <= q[j + 1].version
    BY <1>2, <2>1 DEF QueueInOrder
  <2> QED BY <1>2, <2>2
<1>5. pm[m].handed /\ pm[m].read_called
  BY <1>1 DEF QueueInOrder
<1> QED BY <1>3, <1>4, <1>5 DEF QueueInOrder, Dequeued

\* The write of the first task leaves the queue ahead of the file
LEMMA OrderOfReplace ==
  ASSUME TypeOK, TypeOK', NEW m \in Manager, QueueInOrder(m), Replace(m)
  PROVE  QueueInOrder(m)' /\ file'[m] >= file[m] /\ file'[m] = Head(pm[m].tasks).version
         /\ pm[m].handed
<1> DEFINE q == pm[m].tasks
<1>1. /\ q \in Seq(Task) /\ q # <<>> /\ pm[m].data \in Nat /\ file[m] \in Nat
      /\ \A i \in 1 .. Len(q) : q[i].version \in Nat
  BY ManagerTypes DEF Replace, QueueInOrder
<1>2. 1 \in 1 .. Len(q) /\ file'[m] = q[1].version /\ Head(q) = q[1]
  BY <1>1, TailOf DEF Replace, TypeOK
<1>3. QueueKept(m) /\ pm'[m].writing = "finally"
      /\ pm'[m].timer = pm[m].timer /\ pm'[m].requested = pm[m].requested
  BY OtherSteps
<1>4. \A i \in 1 .. Len(q) : q[1].version <= q[i].version
  BY <1>1, <1>2 DEF QueueInOrder
<1> QED BY <1>1, <1>2, <1>3, <1>4 DEF QueueInOrder, QueueKept

\* Every step keeps the queues in order, and no step takes a file back
LEMMA QueueStep ==
  TypeOK /\ TypeOK' /\ FlushInv /\ [Next]_vars => QueuesInOrder'
<1> SUFFICES ASSUME TypeOK, TypeOK', FlushInv, [Next]_vars, NEW n \in Manager
             PROVE  QueueInOrder(n)'
  BY DEF QueuesInOrder
<1> QueuesInOrder
  BY DEF FlushInv
<1>0. /\ QueueInOrder(n) /\ pm[n] \in ManagerState /\ pm[n].data \in Nat
      /\ \A m \in Manager : QueueInOrder(m)
  BY DEF QueuesInOrder, TypeOK, ManagerState
<1>1. ASSUME pm'[n] = pm[n], file'[n] = file[n] PROVE QueueInOrder(n)'
  BY <1>0, <1>1 DEF QueueInOrder
<1>2. ASSUME NEW m \in Manager, Others(m), n # m, file' = file PROVE QueueInOrder(n)'
  BY <1>1, <1>2 DEF Others
<1>3. ASSUME NEW m \in Manager, read_persisted(m) PROVE QueueInOrder(n)'
  <2>1. CASE n = m
    <3>1. /\ pm'[n].tasks = pm[n].tasks /\ pm'[n].writing = pm[n].writing
          /\ pm'[n].read_called /\ pm'[n].handed /\ pm'[n].data = pm[n].found
      BY <1>3, <2>1, OtherSteps
    <3>2. /\ pm[n].tasks = <<>> /\ Len(<<>>) = 0 /\ file'[n] = file[n] /\ file[n] \in Nat
          /\ pm[n].writing = "idle" /\ pm[n].found = file[n]
      BY <1>0, <1>3, <2>1, ManagerTypes DEF read_persisted, QueueInOrder
    <3> QED BY <3>1, <3>2 DEF QueueInOrder
  <2> QED BY <1>2, <1>3, <2>1, OtherSteps DEF read_persisted
<1>3a. ASSUME NEW m \in Manager, get_persisted(m) PROVE QueueInOrder(n)'
  <2>1. CASE n = m
    <3>1. /\ pm'[n].tasks = pm[n].tasks /\ pm'[n].writing = pm[n].writing
          /\ pm'[n].read_called /\ pm'[n].handed = pm[n].handed
          /\ pm'[n].data = pm[n].data /\ pm'[n].found = file[n]
          /\ pm'[n].timer = pm[n].timer /\ pm'[n].requested = pm[n].requested
      BY <1>3a, <2>1, OtherSteps
    <3>2. file'[n] = file[n]
      BY <1>3a DEF get_persisted
    <3> QED BY <1>0, <3>1, <3>2 DEF QueueInOrder
  <2> QED BY <1>2, <1>3a, <2>1, OtherSteps DEF get_persisted
<1>3b. ASSUME NEW m \in Manager, TimerRaises(m) PROVE QueueInOrder(n)'
  <2>1. CASE n = m
    <3>1. /\ QueueKept(n) /\ pm'[n].writing = pm[n].writing
          /\ pm'[n].requested = pm[n].requested
      BY <1>3b, <2>1, OtherSteps
    <3>2. pm[n].handed /\ file' = file /\ (pm'[n].writing # "idle" => pm[n].tasks # <<>>)
      BY <1>0, <1>3b, <2>1, <3>1 DEF QueueInOrder, TimerRaises
    <3>3. /\ pm'[n].tasks = pm[n].tasks /\ SameRead(pm'[n], pm[n])
          /\ pm[n].data <= pm'[n].data
      BY <1>0, <3>1 DEF QueueKept
    <3>4. file'[n] = file[n]
      BY <3>2
    <3> QED BY <1>0, <3>2, <3>3, <3>4, OrderKept
  <2> QED BY <1>2, <1>3b, <2>1, OtherSteps DEF TimerRaises
<1>4. ASSUME NEW m \in Manager, Change(m) PROVE QueueInOrder(n)'
  <2>1. CASE n = m
    <3>1. pm[n].handed /\ file' = file
      BY <1>4, <2>1 DEF Change
    <3>2. /\ pm'[n].tasks = pm[n].tasks /\ pm'[n].writing = pm[n].writing
          /\ SameRead(pm'[n], pm[n]) /\ pm'[n].data = pm[n].data + 1
      BY <1>4, <2>1, OtherSteps
    <3>3. pm'[n].writing # "idle" => pm[n].tasks # <<>>
      BY <1>0, <3>2 DEF QueueInOrder
    <3>4. pm[n].data <= pm'[n].data
      BY <1>0, <3>2
    <3> QED BY <1>0, <3>1, <3>2, <3>3, <3>4, OrderKept
  <2> QED BY <1>2, <1>4, <2>1, OtherSteps DEF Change
<1>5. ASSUME NEW m \in Manager, TimerFires(m) \/ persist_now(m) \/ (FlushLoop(m) /\ MustFlush(m))
      PROVE  QueueInOrder(n)'
  <2>1. \E isFlush \in BOOLEAN : Snapshot(m, isFlush)
    BY <1>5, SnapshotSteps
  <2>2. Others(m) /\ file' = file
    BY <1>5, SnapshotSteps DEF TimerFires, persist_now, FlushLoop
  <2>3. pm[m].handed
    <3>1. CASE TimerFires(m)
      BY <1>0, <3>1 DEF TimerFires, QueueInOrder
    <3>2. CASE persist_now(m)
      BY <3>2, PersistenceAssumption DEF persist_now, FlushInv, HandedAreRegistered
    <3>3. CASE FlushLoop(m)
      <4>1. m \in orch.todo
        BY <3>3 DEF FlushLoop
      <4>2. m \in orch.managers /\ orch.flusher # {}
        BY <4>1 DEF FlushInv, StagesInOrder
      <4>3. orch.initialized
        BY <4>2 DEF FlushInv, CallersInOrder
      <4> QED BY <4>2, <4>3 DEF FlushInv, HandedAreRegistered
    <3> QED BY <1>5, <3>1, <3>2, <3>3
  <2> QED BY <1>0, <1>2, <2>1, <2>2, <2>3, OrderOfSnapshot
<1>6. ASSUME NEW m \in Manager, _clear_timer(m) \/ BeginShutdown(m), file' = file
      PROVE  QueueInOrder(n)'
  <2>1. CASE n = m
    <3>1. /\ QueueKept(n) /\ pm'[n].writing = pm[n].writing
          /\ pm'[n].timer = "none" /\ pm'[n].requested = pm[n].requested
      BY <1>6, <2>1, OtherSteps
    <3>2. /\ pm'[n].writing # "idle" => pm[n].tasks # <<>>
          /\ ~ pm[n].handed => ~ pm'[n].requested /\ pm'[n].timer = "none"
      BY <1>0, <3>1 DEF QueueInOrder
    <3> QED BY <1>0, <1>6, <3>1, <3>2, OrderKept DEF QueueKept
  <2> QED BY <1>2, <1>6, <2>1, OtherSteps
<1>7. ASSUME NEW m \in Manager, StartWrite(m) PROVE QueueInOrder(n)'
  <2>1. file' = file /\ Others(m)
    BY <1>7, DequeueSteps DEF StartWrite
  <2>2. CASE n = m /\ Dequeued(m)
    BY <1>0, <2>1, <2>2, OrderOfRest
  <2>3. CASE n = m /\ ~ Dequeued(m)
    <3>1. /\ QueueKept(n) /\ pm'[n].writing = "write" /\ pm[n].tasks # <<>>
          /\ pm'[n].timer = pm[n].timer /\ pm'[n].requested = pm[n].requested
      BY <1>7, <2>3, DequeueSteps
    <3>2. ~ pm[n].handed => ~ pm'[n].requested /\ pm'[n].timer = "none"
      BY <1>0, <3>1 DEF QueueInOrder
    <3> QED BY <1>0, <2>1, <3>1, <3>2, OrderKept DEF QueueKept
  <2> QED BY <1>2, <2>1, <2>2, <2>3
<1>8. ASSUME NEW m \in Manager, EndWrite(m) PROVE QueueInOrder(n)'
  <2>1. file' = file /\ Others(m) /\ Dequeued(m)
    BY <1>8, DequeueSteps DEF EndWrite
  <2> QED BY <1>0, <1>2, <2>1, OrderOfRest
<1>9. ASSUME NEW m \in Manager, Replace(m) PROVE QueueInOrder(n)'
  <2>1. Others(m) /\ (n # m => file'[n] = file[n])
    BY <1>9, OtherSteps DEF Replace, TypeOK
  <2> QED BY <1>0, <1>1, <1>9, <2>1, OrderOfReplace DEF Others
<1>10. ASSUME NEW m \in Manager, WriteFails(m) PROVE QueueInOrder(n)'
  <2>1. CASE n = m
    <3>1. /\ QueueKept(n) /\ pm'[n].writing = "finally"
          /\ pm'[n].timer = pm[n].timer /\ pm'[n].requested = pm[n].requested
      BY <1>10, <2>1, OtherSteps
    <3>2. /\ pm[n].tasks # <<>> /\ file' = file
          /\ ~ pm[n].handed => ~ pm'[n].requested /\ pm'[n].timer = "none"
      BY <1>0, <1>10, <2>1, <3>1 DEF QueueInOrder, WriteFails
    <3> QED BY <1>0, <3>1, <3>2, OrderKept DEF QueueKept
  <2> QED BY <1>2, <1>10, <2>1, OtherSteps DEF WriteFails
<1>11. CASE on_all_services_initialized
  <2>1. CASE n \in orch.managers /\ pm[n].requested
    <3>1. pm'[n] = WithTimer(pm[n]) /\ file' = file
      BY <1>11, <2>1 DEF on_all_services_initialized
    <3>2. /\ pm'[n].data = pm[n].data /\ pm'[n].tasks = pm[n].tasks
          /\ pm'[n].writing = pm[n].writing /\ SameRead(pm'[n], pm[n])
      BY <1>0, <3>1, TimerFields
    <3>3. pm[n].handed /\ (pm'[n].writing # "idle" => pm[n].tasks # <<>>)
      BY <1>0, <2>1, <3>2 DEF QueueInOrder
    <3>4. pm[n].data <= pm'[n].data
      BY <1>0, <3>2
    <3> QED BY <1>0, <3>1, <3>2, <3>3, <3>4, OrderKept
  <2>2. CASE ~ (n \in orch.managers /\ pm[n].requested)
    BY <1>1, <1>11, <2>2 DEF on_all_services_initialized
  <2> QED BY <2>1, <2>2
<1>12. CASE Restart
  BY <1>12 DEF Restart, NewManager, QueueInOrder
<1>13. ASSUME UNCHANGED <<pm, file>> PROVE QueueInOrder(n)'
  BY <1>1, <1>13
<1>14. \/ UNCHANGED <<pm, file>>
       \/ on_all_services_initialized \/ Restart
       \/ \E m \in Manager :
            \/ read_persisted(m) \/ get_persisted(m) \/ TimerRaises(m)
            \/ Change(m) \/ TimerFires(m) \/ persist_now(m)
            \/ StartWrite(m) \/ Replace(m) \/ WriteFails(m) \/ EndWrite(m)
            \/ FlushLoop(m) /\ MustFlush(m)
            \/ file' = file /\ (_clear_timer(m) \/ BeginShutdown(m))
  BY DEF Next, UserThread, write_to_disk, vars, EndShutdown, flush, FlushLoop, OnFlushed,
         flush_all_data_to_disk_at_shutdown, _clear_timer, FlushRaises
<1>15. CASE \E m \in Manager :
            \/ read_persisted(m) \/ get_persisted(m) \/ TimerRaises(m)
            \/ Change(m) \/ TimerFires(m) \/ persist_now(m)
            \/ StartWrite(m) \/ Replace(m) \/ WriteFails(m) \/ EndWrite(m)
            \/ FlushLoop(m) /\ MustFlush(m)
            \/ file' = file /\ (_clear_timer(m) \/ BeginShutdown(m))
  <2>1. PICK m \in Manager :
            \/ read_persisted(m) \/ get_persisted(m) \/ TimerRaises(m)
            \/ Change(m) \/ TimerFires(m) \/ persist_now(m)
            \/ StartWrite(m) \/ Replace(m) \/ WriteFails(m) \/ EndWrite(m)
            \/ FlushLoop(m) /\ MustFlush(m)
            \/ file' = file /\ (_clear_timer(m) \/ BeginShutdown(m))
    BY <1>15
  <2>2. CASE read_persisted(m) \/ get_persisted(m) \/ TimerRaises(m) \/ Change(m)
    BY <1>3, <1>3a, <1>3b, <1>4, <2>2
  <2>3. CASE TimerFires(m) \/ persist_now(m) \/ (FlushLoop(m) /\ MustFlush(m))
    BY <1>5, <2>3
  <2>4. CASE StartWrite(m) \/ EndWrite(m)
    BY <1>7, <1>8, <2>4
  <2>5. CASE Replace(m) \/ WriteFails(m)
    BY <1>9, <1>10, <2>5
  <2>6. CASE file' = file /\ (_clear_timer(m) \/ BeginShutdown(m))
    BY <1>6, <2>6
  <2> QED BY <2>1, <2>2, <2>3, <2>4, <2>5, <2>6
<1> QED BY <1>11, <1>12, <1>13, <1>14, <1>15
-----------------------------------------------------------------------------
(* The calls of the flush                                                  *)

\* Nothing happens to the calls
CallersKept ==
  /\ orch'.called = orch.called /\ orch'.pending = orch.pending
  /\ orch'.flusher = orch.flusher /\ orch'.completed = orch.completed
  /\ orch'.initialized = orch.initialized

\* The start up is complete
StartUpEnds ==
  /\ orch'.called = orch.called /\ orch'.pending = orch.pending
  /\ orch'.flusher = orch.flusher /\ orch'.completed = orch.completed
  /\ orch'.initialized = TRUE

\* c calls: it is answered at once if the start up was not complete
Called(c) ==
  /\ c \notin orch.called /\ orch'.called = orch.called \cup {c}
  /\ orch'.flusher = orch.flusher /\ orch'.initialized = orch.initialized
  /\ \/ /\ orch.initialized
        /\ orch'.pending = orch.pending \cup {c} /\ orch'.completed = orch.completed
     \/ /\ ~ orch.initialized
        /\ orch'.pending = orch.pending /\ orch'.completed = orch.completed \cup {c}

\* The flush of c begins, or ends as another one has begun
Begun(c) ==
  /\ c \in orch.pending /\ orch'.pending = orch.pending \ {c}
  /\ orch'.called = orch.called /\ orch'.initialized = orch.initialized
  /\ \/ /\ orch.flusher # {}
        /\ orch'.flusher = orch.flusher /\ orch'.completed = orch.completed
     \/ /\ orch.flusher = {} /\ orch'.flusher = {c}
        /\ orch'.completed \in {orch.completed, orch.completed \cup {c}}

\* The flush is complete
Answered ==
  /\ orch'.called = orch.called /\ orch'.pending = orch.pending
  /\ orch'.flusher = orch.flusher /\ orch'.initialized = orch.initialized
  /\ orch'.completed = orch.completed \cup orch.flusher

\* What a step does to the calls
LEMMA CallerSteps ==
  ASSUME TypeOK, [Next]_vars
  PROVE  \/ CallersKept \/ StartUpEnds \/ Answered \/ orch' = NewOrchestrator
         \/ \E c \in Caller : Called(c) \/ Begun(c)
<1>0. orch \in OrchestratorState
  BY DEF TypeOK
<1>1. ASSUME on_all_services_initialized PROVE StartUpEnds
  BY <1>0, <1>1 DEF on_all_services_initialized, OrchestratorState, StartUpEnds
<1>2. ASSUME NEW c \in Caller, flush_all_data_to_disk_at_shutdown(c) PROVE Called(c)
  <2>1. CASE orch.initialized
    <3>1. orch' = [orch EXCEPT !.called = @ \cup {c}, !.pending = @ \cup {c}]
          /\ c \notin orch.called
      BY <1>2, <2>1 DEF flush_all_data_to_disk_at_shutdown
    <3> QED BY <1>0, <2>1, <3>1 DEF OrchestratorState, Called
  <2>2. CASE ~ orch.initialized
    <3>1. orch' = [orch EXCEPT !.called = @ \cup {c}, !.completed = @ \cup {c}]
          /\ c \notin orch.called
      BY <1>2, <2>2 DEF flush_all_data_to_disk_at_shutdown
    <3> QED BY <1>0, <2>2, <3>1 DEF OrchestratorState, Called
  <2> QED BY <2>1, <2>2
<1>3. ASSUME NEW c \in Caller, flush(c) PROVE Begun(c)
  <2>1. CASE flush_at_shutdown_called
    <3>1. orch' = [orch EXCEPT !.pending = @ \ {c}] /\ c \in orch.pending /\ orch.flusher # {}
      BY <1>3, <2>1 DEF flush, flush_at_shutdown_called
    <3> QED BY <1>0, <3>1 DEF OrchestratorState, Begun
  <2>2. CASE ~ flush_at_shutdown_called
    <3>1. /\ orch' = [orch EXCEPT !.pending = @ \ {c}, !.flusher = {c},
                        !.open_instances = Cardinality(orch.managers), !.todo = orch.managers,
                        !.due = [m \in Manager |-> pm[m].data],
                        !.completed = IF orch.managers = {} THEN @ \cup {c} ELSE @]
          /\ c \in orch.pending /\ orch.flusher = {}
      BY <1>3, <2>2 DEF flush, flush_at_shutdown_called
    <3> QED BY <1>0, <3>1 DEF OrchestratorState, Begun
  <2> QED BY <2>1, <2>2
<1>4. ASSUME NEW m \in Manager, EndOfTask(m) PROVE CallersKept
  BY <1>0, <1>4 DEF EndOfTask, OrchestratorState, CallersKept
<1>5. ASSUME NEW m \in Manager, FlushLoop(m) \/ OnFlushed(m) PROVE CallersKept
  <2>1. \/ orch' = [orch EXCEPT !.todo = @ \ {m}]
        \/ orch' = [orch EXCEPT !.todo = @ \ {m}, !.closing = {m}]
        \/ orch' = [orch EXCEPT !.handlers = @ \ {m}, !.closing = {m}]
    BY <1>5 DEF FlushLoop, OnFlushed
  <2> QED BY <1>0, <2>1 DEF OrchestratorState, CallersKept
<1>6. ASSUME NEW m \in Manager, EndShutdown(m) PROVE CallersKept \/ Answered
  BY <1>0, <1>6 DEF EndShutdown, OrchestratorState, CallersKept, Answered
<1>7. ASSUME Restart PROVE orch' = NewOrchestrator
  BY <1>7 DEF Restart
<1>8. ASSUME orch' = orch PROVE CallersKept
  BY <1>8 DEF CallersKept
<1>9. ASSUME NEW m \in Manager, read_persisted(m) \/ FlushRaises(m) PROVE CallersKept
  <2>1. \/ orch' = orch
        \/ orch' = [orch EXCEPT !.managers = @ \cup {m}]
        \/ orch' = [orch EXCEPT !.todo = {}, !.aborted = TRUE]
    BY <1>9 DEF read_persisted, FlushRaises
  <2> QED BY <1>0, <2>1 DEF OrchestratorState, CallersKept
<1> QED BY <1>1, <1>2, <1>3, <1>4, <1>5, <1>6, <1>7, <1>8, <1>9, OrchestratorSteps

\* Every step keeps the calls in order
LEMMA CallersStep == TypeOK /\ CallersInOrder /\ [Next]_vars => CallersInOrder'
<1> SUFFICES ASSUME TypeOK, CallersInOrder, [Next]_vars PROVE CallersInOrder'
  OBVIOUS
<1>1. CASE CallersKept \/ StartUpEnds
  BY <1>1 DEF CallersKept, StartUpEnds, CallersInOrder
<1>2. CASE Answered
  BY <1>2 DEF Answered, CallersInOrder
<1>3. CASE orch' = NewOrchestrator
  BY <1>3 DEF NewOrchestrator, CallersInOrder
<1>4. ASSUME NEW c \in Caller, Called(c) PROVE CallersInOrder'
  BY <1>4 DEF Called, CallersInOrder
<1>5. ASSUME NEW c \in Caller, Begun(c) PROVE CallersInOrder'
  BY <1>5 DEF Begun, CallersInOrder
<1> QED BY <1>1, <1>2, <1>3, <1>4, <1>5, CallerSteps
-----------------------------------------------------------------------------
(* The stages of the flush                                                 *)

\* A manager has one snapshot of the flush at most
OneFlush(m) ==
  \A i, j \in 1 .. Len(pm[m].tasks) : pm[m].tasks[i].flush /\ pm[m].tasks[j].flush => i = j

\* No snapshot of the flush is added for m, and none of a manager that is gone
QuietQueue(m) ==
  /\ FlushWaits(m)' => FlushWaits(m)
  /\ OneFlush(m) => OneFlush(m)'
  /\ m \notin orch.managers /\ pm[m].tasks = <<>> => pm'[m].tasks = <<>>

\* The flush stays where it is, whoever calls
StagesKept ==
  /\ orch'.todo = orch.todo /\ orch'.closing = orch.closing /\ orch'.handlers = orch.handlers
  /\ orch'.managers = orch.managers /\ orch'.flusher = orch.flusher
  /\ orch'.open_instances = orch.open_instances /\ orch'.due = orch.due
  /\ orch'.aborted = orch.aborted

\* A snapshot of the flush has been written
FlushWritten(m) ==
  /\ Dequeued(m) /\ Others(m) /\ Head(pm[m].tasks).flush
  /\ orch'.handlers = orch.handlers \cup {m}
  /\ orch'.todo = orch.todo /\ orch'.closing = orch.closing
  /\ orch'.managers = orch.managers /\ orch'.flusher = orch.flusher
  /\ orch'.open_instances = orch.open_instances /\ orch'.due = orch.due
  /\ orch'.aborted = orch.aborted

\* The flush of c begins
FlushBegins(c) ==
  /\ pm' = pm /\ orch.flusher = {} /\ orch'.flusher = {c}
  /\ orch'.todo = orch.managers /\ orch'.closing = orch.closing
  /\ orch'.handlers = orch.handlers /\ orch'.managers = orch.managers
  /\ orch'.open_instances = Cardinality(orch.managers)
  /\ orch'.due = [m \in Manager |-> pm[m].data] /\ orch'.aborted = orch.aborted

\* The loop takes the snapshot of m
FlushQueued(m) ==
  /\ Snapshot(m, TRUE) /\ Others(m) /\ m \in orch.todo /\ MustFlush(m)
  /\ orch'.todo = orch.todo \ {m}
  /\ orch'.closing = orch.closing /\ orch'.handlers = orch.handlers
  /\ orch'.managers = orch.managers /\ orch'.flusher = orch.flusher
  /\ orch'.open_instances = orch.open_instances /\ orch'.due = orch.due
  /\ orch'.aborted = orch.aborted

\* The manager m is shut down, without a write or after it
Closes(m) ==
  /\ QueueKept(m) /\ Others(m)
  /\ orch.closing = {} /\ orch'.closing = {m}
  /\ \/ m \in orch.todo /\ ~ MustFlush(m) /\ orch'.todo = orch.todo \ {m}
        /\ orch'.handlers = orch.handlers
     \/ m \in orch.handlers /\ orch'.handlers = orch.handlers \ {m} /\ orch'.todo = orch.todo
  /\ orch'.managers = orch.managers /\ orch'.flusher = orch.flusher
  /\ orch'.open_instances = orch.open_instances /\ orch'.due = orch.due
  /\ orch'.aborted = orch.aborted

\* The manager m is gone
Closed(m) ==
  /\ pm' = pm /\ m \in orch.closing /\ pm[m].tasks = <<>>
  /\ orch'.closing = {} /\ orch'.todo = orch.todo /\ orch'.handlers = orch.handlers
  /\ orch'.managers = orch.managers \ {m} /\ orch'.flusher = orch.flusher
  /\ orch'.open_instances = orch.open_instances - 1 /\ orch'.due = orch.due
  /\ orch'.aborted = orch.aborted

\* m is registered, before any flush
Registers(m) ==
  /\ read_persisted(m)
  /\ orch.flusher = {} /\ orch'.managers = orch.managers \cup {m}
  /\ \A n \in Manager : pm'[n].tasks = pm[n].tasks
  /\ orch'.todo = orch.todo /\ orch'.closing = orch.closing /\ orch'.handlers = orch.handlers
  /\ orch'.flusher = orch.flusher /\ orch'.aborted = orch.aborted

\* The loop is ended by an exception at m
Aborts(m) ==
  /\ pm' = pm /\ m \in orch.todo /\ orch'.todo = {} /\ orch'.aborted = TRUE
  /\ orch'.closing = orch.closing /\ orch'.handlers = orch.handlers
  /\ orch'.managers = orch.managers /\ orch'.flusher = orch.flusher
  /\ orch'.open_instances = orch.open_instances /\ orch'.due = orch.due

\* What the steps of a queue do to the snapshots of the flush in it
LEMMA WaitingFlush ==
  ASSUME TypeOK, NEW m \in Manager
  PROVE  /\ pm'[m].tasks = pm[m].tasks => QuietQueue(m)
         /\ Snapshot(m, FALSE) /\ m \in orch.managers => QuietQueue(m)
         /\ Snapshot(m, TRUE) /\ ~ FlushWaits(m) => OneFlush(m)'
         /\ Dequeued(m) => QuietQueue(m)
         /\ Dequeued(m) /\ OneFlush(m) /\ Head(pm[m].tasks).flush => ~ FlushWaits(m)'
<1> DEFINE q == pm[m].tasks
<1>0. q \in Seq(Task) /\ Len(q) \in Nat
  BY ManagerTypes
<1>1. ASSUME pm'[m].tasks = q PROVE QuietQueue(m)
  BY <1>1 DEF QuietQueue, FlushWaits, OneFlush
<1>2. ASSUME NEW isFlush, Snapshot(m, isFlush)
      PROVE  /\ Len(pm'[m].tasks) = Len(q) + 1 /\ pm'[m].tasks[Len(q) + 1].flush = isFlush
             /\ \A i \in 1 .. Len(q) : pm'[m].tasks[i] = q[i]
  <2>1. PICK t \in Task : t.flush = isFlush /\ pm'[m].tasks = Append(q, t)
    BY <1>2 DEF Snapshot
  <2>2. /\ Len(Append(q, t)) = Len(q) + 1 /\ Append(q, t)[Len(q) + 1] = t
        /\ \A i \in 1 .. Len(q) : Append(q, t)[i] = q[i]
    BY <1>0, AppendOf
  <2> HIDE DEF q
  <2> QED BY <2>1, <2>2
<1>3. ASSUME Snapshot(m, FALSE), m \in orch.managers PROVE QuietQueue(m)
  <2>1. /\ Len(pm'[m].tasks) = Len(q) + 1 /\ pm'[m].tasks[Len(q) + 1].flush = FALSE
        /\ \A i \in 1 .. Len(q) : pm'[m].tasks[i] = q[i]
    BY <1>2, <1>3
  <2>2. ASSUME NEW i \in 1 .. Len(pm'[m].tasks), pm'[m].tasks[i].flush
        PROVE  i \in 1 .. Len(q) /\ q[i].flush
    <3>1. i # Len(q) + 1
      BY <2>1, <2>2
    <3>2. i \in 1 .. Len(q)
      BY <1>0, <2>1, <3>1
    <3> QED BY <2>1, <2>2, <3>2
  <2> QED BY <1>3, <2>2 DEF QuietQueue, FlushWaits, OneFlush
<1>4. ASSUME Snapshot(m, TRUE), ~ FlushWaits(m) PROVE OneFlush(m)'
  <2>1. /\ Len(pm'[m].tasks) = Len(q) + 1
        /\ \A i \in 1 .. Len(q) : pm'[m].tasks[i] = q[i]
    BY <1>2, <1>4
  <2>2. \A i \in 1 .. Len(pm'[m].tasks) : pm'[m].tasks[i].flush => i = Len(q) + 1
    BY <1>0, <1>4, <2>1 DEF FlushWaits
  <2> QED BY <2>2 DEF OneFlush
<1>5. ASSUME Dequeued(m)
      PROVE  /\ q # <<>> /\ Len(pm'[m].tasks) \in Nat
             /\ \A i \in 1 .. Len(pm'[m].tasks) :
                  i \in Nat /\ i + 1 \in 1 .. Len(q) /\ pm'[m].tasks[i] = q[i + 1]
  BY <1>0, <1>5, TailOf DEF Dequeued
<1>6. ASSUME Dequeued(m) PROVE QuietQueue(m)
  <2>1. ASSUME NEW i \in 1 .. Len(pm'[m].tasks), pm'[m].tasks[i].flush PROVE FlushWaits(m)
    <3>1. i + 1 \in 1 .. Len(q) /\ q[i + 1].flush
      BY <1>5, <1>6, <2>1
    <3> QED BY <3>1 DEF FlushWaits
  <2>2. ASSUME OneFlush(m), NEW i \in 1 .. Len(pm'[m].tasks), NEW j \in 1 .. Len(pm'[m].tasks),
               pm'[m].tasks[i].flush, pm'[m].tasks[j].flush
        PROVE  i = j
    <3>1. i + 1 = j + 1
      BY <1>5, <1>6, <2>2 DEF OneFlush
    <3> QED BY <3>1
  <2>3. FlushWaits(m)' => FlushWaits(m)
    BY <2>1 DEF FlushWaits
  <2>4. OneFlush(m) => OneFlush(m)'
    BY <2>2 DEF OneFlush
  <2> QED BY <1>5, <1>6, <2>3, <2>4 DEF QuietQueue
<1>7. ASSUME Dequeued(m), OneFlush(m), Head(q).flush PROVE ~ FlushWaits(m)'
  <2>1. Head(q) = q[1] /\ 1 \in 1 .. Len(q)
    BY <1>0, <1>5, <1>7, TailOf
  <2>2. ASSUME NEW i \in 1 .. Len(pm'[m].tasks), pm'[m].tasks[i].flush PROVE FALSE
    <3>1. i + 1 = 1
      BY <1>5, <1>7, <2>1, <2>2 DEF OneFlush
    <3> QED BY <3>1
  <2> QED BY <2>2 DEF FlushWaits
<1> QED BY <1>1, <1>3, <1>4, <1>6, <1>7
\* What a step of a manager does to the flush
LEMMA StageSteps ==
  ASSUME TypeOK, QueuesInOrder, NEW m \in Manager
  PROVE  /\ FlushLoop(m) => FlushQueued(m) \/ Closes(m)
         /\ OnFlushed(m) => Closes(m)
         /\ EndShutdown(m) => Closed(m)
         /\ FlushRaises(m) => Aborts(m)
         /\ read_persisted(m) => Registers(m) \/ (StagesKept /\ orch.flusher # {})
         /\ EndOfTask(m) /\ Dequeued(m) /\ Others(m) =>
              FlushWritten(m) \/ (StagesKept /\ ~ Head(pm[m].tasks).flush)
<1>0. orch \in OrchestratorState
  BY DEF TypeOK
<1>1. ASSUME FlushLoop(m), MustFlush(m) PROVE FlushQueued(m)
  <2>1. m \in orch.todo /\ orch' = [orch EXCEPT !.todo = @ \ {m}]
    BY <1>1 DEF FlushLoop
  <2>2. Snapshot(m, TRUE) /\ Others(m)
    BY <1>1, SnapshotSteps
  <2> QED BY <1>0, <1>1, <2>1, <2>2 DEF FlushQueued, OrchestratorState
<1>2. ASSUME FlushLoop(m), ~ MustFlush(m) PROVE Closes(m)
  <2>1. /\ m \in orch.todo /\ orch' = [orch EXCEPT !.todo = @ \ {m}, !.closing = {m}]
        /\ orch.closing = {} /\ BeginShutdown(m)
    BY <1>2 DEF FlushLoop
  <2>2. QueueKept(m) /\ Others(m)
    BY <2>1, OtherSteps
  <2> QED BY <1>0, <1>2, <2>1, <2>2 DEF Closes, OrchestratorState
<1>3. ASSUME OnFlushed(m) PROVE Closes(m)
  <2>1. /\ m \in orch.handlers /\ orch' = [orch EXCEPT !.handlers = @ \ {m}, !.closing = {m}]
        /\ orch.closing = {} /\ BeginShutdown(m)
    BY <1>3 DEF OnFlushed, UserThreadIsFree
  <2>2. QueueKept(m) /\ Others(m)
    BY <2>1, OtherSteps
  <2> QED BY <1>0, <1>3, <2>1, <2>2 DEF Closes, OrchestratorState
<1>4. ASSUME EndShutdown(m) PROVE Closed(m)
  BY <1>0, <1>4 DEF EndShutdown, Closed, OrchestratorState
<1>5. ASSUME EndOfTask(m), Dequeued(m), Others(m), Head(pm[m].tasks).flush PROVE FlushWritten(m)
  <2>1. orch' = [orch EXCEPT !.handlers = @ \cup {m}]
    BY <1>5 DEF EndOfTask
  <2> QED BY <1>0, <1>5, <2>1 DEF FlushWritten, OrchestratorState
<1>6. ASSUME EndOfTask(m), ~ Head(pm[m].tasks).flush PROVE StagesKept
  BY <1>6 DEF EndOfTask, StagesKept
<1>7. ASSUME FlushRaises(m) PROVE Aborts(m)
  BY <1>0, <1>7 DEF FlushRaises, Aborts, OrchestratorState
<1>8. ASSUME read_persisted(m), flush_at_shutdown_called
      PROVE  StagesKept /\ orch.flusher # {}
  BY <1>8 DEF read_persisted, StagesKept, flush_at_shutdown_called
<1>9. ASSUME read_persisted(m), ~ flush_at_shutdown_called PROVE Registers(m)
  <2>1. orch' = [orch EXCEPT !.managers = @ \cup {m}] /\ orch.flusher = {}
    BY <1>9 DEF read_persisted, flush_at_shutdown_called
  <2>2. Others(m) /\ pm'[m].tasks = pm[m].tasks
    BY <1>9, OtherSteps
  <2> QED BY <1>0, <1>9, <2>1, <2>2 DEF Registers, OrchestratorState, Others
<1> QED BY <1>1, <1>2, <1>3, <1>4, <1>5, <1>6, <1>7, <1>8, <1>9

\* What a step of the calls does to the flush
LEMMA CallsOfFlush ==
  ASSUME TypeOK, NEW c \in Caller
  PROVE  /\ flush_all_data_to_disk_at_shutdown(c) => StagesKept /\ pm' = pm
         /\ flush(c) => (StagesKept /\ pm' = pm) \/ FlushBegins(c)
<1>0. orch \in OrchestratorState
  BY DEF TypeOK
<1>1. ASSUME flush_all_data_to_disk_at_shutdown(c) PROVE StagesKept /\ pm' = pm
  <2>1. \/ orch' = [orch EXCEPT !.called = @ \cup {c}, !.pending = @ \cup {c}]
        \/ orch' = [orch EXCEPT !.called = @ \cup {c}, !.completed = @ \cup {c}]
    BY <1>1 DEF flush_all_data_to_disk_at_shutdown
  <2>2. CASE orch' = [orch EXCEPT !.called = @ \cup {c}, !.pending = @ \cup {c}]
    BY <1>0, <1>1, <2>2 DEF StagesKept, OrchestratorState, flush_all_data_to_disk_at_shutdown
  <2>3. CASE orch' = [orch EXCEPT !.called = @ \cup {c}, !.completed = @ \cup {c}]
    BY <1>0, <1>1, <2>3 DEF StagesKept, OrchestratorState, flush_all_data_to_disk_at_shutdown
  <2> QED BY <2>1, <2>2, <2>3
<1>2. ASSUME flush(c), flush_at_shutdown_called PROVE StagesKept /\ pm' = pm
  <2>1. orch' = [orch EXCEPT !.pending = @ \ {c}] /\ pm' = pm
    BY <1>2 DEF flush
  <2> QED BY <1>0, <2>1 DEF StagesKept, OrchestratorState
<1>3. ASSUME flush(c), ~ flush_at_shutdown_called PROVE FlushBegins(c)
  <2>1. /\ orch' = [orch EXCEPT !.pending = @ \ {c}, !.flusher = {c},
                      !.open_instances = Cardinality(orch.managers), !.todo = orch.managers,
                      !.due = [m \in Manager |-> pm[m].data],
                      !.completed = IF orch.managers = {} THEN @ \cup {c} ELSE @]
        /\ pm' = pm /\ orch.flusher = {}
    BY <1>3 DEF flush, flush_at_shutdown_called
  <2> QED BY <1>0, <2>1 DEF FlushBegins, OrchestratorState
<1> QED BY <1>1, <1>2, <1>3

\* Whatever else happens leaves the flush alone
LEMMA QuietSteps ==
  ASSUME TypeOK, QueuesInOrder, [Next]_vars
  PROVE  \/ StagesKept /\ \A n \in Manager : QuietQueue(n)
         \/ Restart
         \/ \E c \in Caller : FlushBegins(c)
         \/ \E m \in Manager : \/ FlushWritten(m) \/ FlushQueued(m)
                               \/ Closes(m) \/ Closed(m) \/ Registers(m) \/ Aborts(m)
<1> DEFINE Quiet == StagesKept /\ \A n \in Manager : QuietQueue(n)
<1>0. orch \in OrchestratorState
  BY DEF TypeOK
<1>1. ASSUME StagesKept, pm' = pm PROVE Quiet
  BY <1>1, WaitingFlush
<1>2. ASSUME NEW m \in Manager, Others(m), QuietQueue(m), StagesKept PROVE Quiet
  BY <1>2, WaitingFlush DEF Others
<1>3. ASSUME orch' = orch PROVE StagesKept
  BY <1>3 DEF StagesKept
<1>4. ASSUME NEW m \in Manager,
             \/ get_persisted(m) \/ TimerRaises(m) \/ Change(m) \/ _clear_timer(m)
             \/ Replace(m) \/ WriteFails(m)
      PROVE  Quiet
  <2>1. Others(m) /\ pm'[m].tasks = pm[m].tasks
    BY <1>4, OtherSteps DEF QueueKept
  <2>2. orch' = orch
    BY <1>4 DEF get_persisted, TimerRaises, Change, _clear_timer, Replace, WriteFails
  <2> QED BY <1>2, <1>3, <2>1, <2>2, WaitingFlush
<1>4a. ASSUME NEW m \in Manager, read_persisted(m) PROVE Registers(m) \/ Quiet
  <2>1. Others(m) /\ pm'[m].tasks = pm[m].tasks
    BY <1>4a, OtherSteps
  <2> QED BY <1>2, <1>4a, <2>1, StageSteps, WaitingFlush
<1>5. ASSUME NEW m \in Manager, TimerFires(m) \/ persist_now(m) PROVE Quiet
  <2>1. Others(m) /\ Snapshot(m, FALSE)
    BY <1>5, SnapshotSteps
  <2>2. orch' = orch /\ m \in orch.managers
    BY <1>5 DEF TimerFires, persist_now
  <2> QED BY <1>2, <1>3, <2>1, <2>2, WaitingFlush
<1>6. ASSUME NEW m \in Manager, Dequeued(m), Others(m), EndOfTask(m)
      PROVE  FlushWritten(m) \/ Quiet
  BY <1>2, <1>6, StageSteps, WaitingFlush
<1>7. ASSUME NEW m \in Manager, EndWrite(m) PROVE FlushWritten(m) \/ Quiet
  <2>1. Dequeued(m) /\ Others(m) /\ EndOfTask(m)
    BY <1>7, DequeueSteps DEF EndWrite
  <2> QED BY <1>6, <2>1
<1>8. ASSUME NEW m \in Manager, StartWrite(m) PROVE FlushWritten(m) \/ Quiet
  <2>1. CASE Dequeued(m) /\ Others(m) /\ EndOfTask(m)
    BY <1>6, <2>1
  <2>2. CASE QueueKept(m) /\ Others(m) /\ orch' = orch
    BY <1>2, <1>3, <2>2, WaitingFlush DEF QueueKept
  <2> QED BY <1>8, <2>1, <2>2, DequeueSteps
<1>9. ASSUME on_all_services_initialized PROVE Quiet
  <2>1. ASSUME NEW n \in Manager PROVE pm'[n].tasks = pm[n].tasks
    <3>1. pm[n] \in ManagerState
      BY ManagerTypes
    <3> QED BY <1>9, <3>1, TimerFields DEF on_all_services_initialized
  <2>2. StagesKept
    BY <1>0, <1>9 DEF on_all_services_initialized, StagesKept, OrchestratorState
  <2> QED BY <2>1, <2>2, WaitingFlush
<1>10. \/ UNCHANGED vars
       \/ on_all_services_initialized \/ Restart
       \/ \E c \in Caller : flush_all_data_to_disk_at_shutdown(c) \/ flush(c)
       \/ \E m \in Manager :
            \/ read_persisted(m) \/ get_persisted(m) \/ TimerRaises(m) \/ FlushRaises(m)
            \/ Change(m) \/ _clear_timer(m) \/ Replace(m) \/ WriteFails(m)
            \/ TimerFires(m) \/ persist_now(m) \/ StartWrite(m) \/ EndWrite(m)
            \/ FlushLoop(m) \/ OnFlushed(m) \/ EndShutdown(m)
  BY DEF Next, UserThread, write_to_disk
<1>11. ASSUME UNCHANGED vars PROVE Quiet
  BY <1>1, <1>3, <1>11 DEF vars
<1>12. ASSUME NEW c \in Caller, flush_all_data_to_disk_at_shutdown(c) \/ flush(c)
       PROVE  Quiet \/ FlushBegins(c)
  BY <1>1, <1>12, CallsOfFlush
<1>13. ASSUME NEW m \in Manager,
              \/ read_persisted(m) \/ get_persisted(m) \/ TimerRaises(m) \/ FlushRaises(m)
              \/ Change(m) \/ _clear_timer(m) \/ Replace(m) \/ WriteFails(m)
              \/ TimerFires(m) \/ persist_now(m) \/ StartWrite(m) \/ EndWrite(m)
              \/ FlushLoop(m) \/ OnFlushed(m) \/ EndShutdown(m)
       PROVE  \/ Quiet \/ FlushWritten(m) \/ FlushQueued(m) \/ Closes(m) \/ Closed(m)
              \/ Registers(m) \/ Aborts(m)
  BY <1>4, <1>4a, <1>5, <1>7, <1>8, <1>13, StageSteps
<1> HIDE DEF Quiet
<1>14. Quiet \/ Restart \/ (\E c \in Caller : FlushBegins(c))
       \/ \E m \in Manager : \/ FlushWritten(m) \/ FlushQueued(m) \/ Closes(m) \/ Closed(m)
                             \/ Registers(m) \/ Aborts(m)
  BY <1>9, <1>10, <1>11, <1>12, <1>13
<1> QED BY <1>14 DEF Quiet
\* Every step keeps the stages in order
LEMMA StageStep ==
  TypeOK /\ TypeOK' /\ QueuesInOrder /\ StagesInOrder /\ [Next]_vars => StagesInOrder'
<1> SUFFICES ASSUME TypeOK, TypeOK', QueuesInOrder, StagesInOrder, [Next]_vars
             PROVE  StagesInOrder'
  OBVIOUS
<1>0. \A n \in Manager : OneFlush(n)
  BY DEF StagesInOrder, OneFlush
<1>1. ASSUME StagesKept, \A n \in Manager : QuietQueue(n) PROVE StagesInOrder'
  <2>1. ASSUME NEW n \in Manager
        PROVE  /\ FlushWaits(n)' => FlushWaits(n)
               /\ OneFlush(n)'
               /\ n \notin orch.managers => pm'[n].tasks = <<>>
    BY <1>0, <1>1 DEF QuietQueue, StagesInOrder
  <2> QED BY <1>1, <2>1 DEF StagesKept, StagesInOrder, OneFlush
<1>2. CASE Restart
  <2>1. \A n \in Manager : pm'[n].tasks = <<>> /\ Len(pm'[n].tasks) = 0
    BY <1>2 DEF Restart, NewManager
  <2>2. \A n \in Manager : ~ FlushWaits(n)' /\ OneFlush(n)'
    BY <2>1 DEF FlushWaits, OneFlush
  <2>3. orch'.todo = {} /\ orch'.closing = {} /\ orch'.handlers = {}
    BY <1>2 DEF Restart, NewOrchestrator
  <2> QED BY <2>1, <2>2, <2>3 DEF StagesInOrder, OneFlush
<1>3. ASSUME NEW c \in Caller, FlushBegins(c) PROVE StagesInOrder'
  <2>1. \A n \in Manager : ~ FlushWaits(n)' /\ OneFlush(n)'
    <3>1. \A n \in Manager : ~ FlushWaits(n)
      BY <1>3 DEF FlushBegins, StagesInOrder
    <3> QED BY <1>0, <1>3, <3>1 DEF FlushBegins, FlushWaits, OneFlush
  <2> QED BY <1>3, <2>1 DEF FlushBegins, StagesInOrder, OneFlush
<1>4. ASSUME NEW m \in Manager, FlushWritten(m) PROVE StagesInOrder'
  <2>1. FlushWaits(m) /\ OneFlush(m)' /\ ~ FlushWaits(m)' /\ m \in orch.managers
    <3>1. pm[m].tasks \in Seq(Task) /\ pm[m].tasks # <<>>
      BY <1>4, ManagerTypes DEF FlushWritten, Dequeued
    <3>2. FlushWaits(m)
      BY <1>4, <3>1, TailOf DEF FlushWaits, FlushWritten
    <3> QED BY <1>0, <1>4, <3>2, WaitingFlush DEF FlushWritten, QuietQueue, StagesInOrder
  <2>2. ASSUME NEW n \in Manager \ {m}
        PROVE  /\ FlushWaits(n)' => FlushWaits(n)
               /\ OneFlush(n)'
               /\ pm'[n].tasks = pm[n].tasks
    BY <1>0, <1>4 DEF FlushWritten, Others, FlushWaits, OneFlush
  <2>3. m \notin orch.todo \cup orch.closing \cup orch.handlers /\ orch.flusher # {}
    BY <2>1 DEF StagesInOrder
  <2> QED BY <1>4, <2>1, <2>2, <2>3 DEF FlushWritten, StagesInOrder, OneFlush
<1>5. ASSUME NEW m \in Manager, FlushQueued(m) PROVE StagesInOrder'
  <2>1. OneFlush(m)' /\ m \in orch.managers /\ orch.flusher # {}
    BY <1>5, WaitingFlush DEF FlushQueued, StagesInOrder
  <2>2. ASSUME NEW n \in Manager \ {m}
        PROVE  /\ FlushWaits(n)' => FlushWaits(n)
               /\ OneFlush(n)'
               /\ pm'[n].tasks = pm[n].tasks
    BY <1>0, <1>5 DEF FlushQueued, Others, FlushWaits, OneFlush
  <2> QED BY <1>5, <2>1, <2>2 DEF FlushQueued, StagesInOrder, OneFlush
<1>6. ASSUME NEW m \in Manager, Closes(m) \/ Closed(m) PROVE StagesInOrder'
  <2>1. ASSUME NEW n \in Manager
        PROVE  /\ FlushWaits(n)' => FlushWaits(n)
               /\ OneFlush(n)'
               /\ pm'[n].tasks = pm[n].tasks
    <3>1. pm'[n].tasks = pm[n].tasks
      BY <1>6 DEF Closes, Closed, Others, QueueKept
    <3> QED BY <1>0, <3>1 DEF FlushWaits, OneFlush
  <2>2. CASE Closes(m)
    <3>1. ~ FlushWaits(m) /\ m \in orch.managers /\ orch.flusher # {}
      BY <2>2 DEF Closes, StagesInOrder
    <3> QED BY <2>1, <2>2, <3>1 DEF Closes, StagesInOrder, OneFlush
  <2>3. CASE Closed(m)
    <3>1. ~ FlushWaits(m) /\ m \in orch.managers /\ orch.flusher # {}
      BY <2>3 DEF Closed, StagesInOrder
    <3> QED BY <2>1, <2>3, <3>1 DEF Closed, StagesInOrder, OneFlush
  <2> QED BY <1>6, <2>2, <2>3
<1>7. ASSUME NEW m \in Manager, Registers(m) \/ Aborts(m) PROVE StagesInOrder'
  <2>1. ASSUME NEW n \in Manager
        PROVE  /\ FlushWaits(n)' => FlushWaits(n)
               /\ OneFlush(n)'
               /\ pm'[n].tasks = pm[n].tasks
    <3>1. pm'[n].tasks = pm[n].tasks
      BY <1>7 DEF Registers, Aborts
    <3> QED BY <1>0, <3>1 DEF FlushWaits, OneFlush
  <2>2. CASE Registers(m)
    BY <2>1, <2>2 DEF Registers, StagesInOrder, OneFlush
  <2>3. CASE Aborts(m)
    BY <2>1, <2>3 DEF Aborts, StagesInOrder, OneFlush
  <2> QED BY <1>7, <2>2, <2>3
<1> QED BY <1>1, <1>2, <1>3, <1>4, <1>5, <1>6, <1>7, QuietSteps

\* A manager that the flush has given up stays so, and nothing else ends a flush
LEMMA AbortStep ==
  TypeOK /\ QueuesInOrder /\ StagesInOrder /\ AbortIsFinal /\ [Next]_vars => AbortIsFinal'
<1> SUFFICES ASSUME TypeOK, QueuesInOrder, StagesInOrder, AbortIsFinal, [Next]_vars,
                    orch'.aborted
             PROVE  orch'.flusher # {} /\ \E m \in Manager : GivenUp(m)'
  BY DEF AbortIsFinal
<1>1. CASE Restart \/ \E c \in Caller : FlushBegins(c)
  <2>1. CASE Restart
    BY <2>1 DEF Restart, NewOrchestrator
  <2>2. ASSUME NEW c \in Caller, FlushBegins(c) PROVE FALSE
    BY <2>2 DEF FlushBegins, AbortIsFinal
  <2> QED BY <1>1, <2>1, <2>2
<1>2. ASSUME NEW m \in Manager, Aborts(m)
      PROVE  orch'.flusher # {} /\ GivenUp(m)'
  <2>1. m \in orch.managers \ (orch.closing \cup orch.handlers) /\ ~ FlushWaits(m)
        /\ orch.flusher # {}
    BY <1>2 DEF Aborts, StagesInOrder
  <2>2. ~ FlushWaits(m)'
    BY <1>2, <2>1 DEF Aborts, FlushWaits
  <2> QED BY <1>2, <2>1, <2>2 DEF Aborts, GivenUp
<1>3. CASE orch.aborted
  <2>1. PICK m \in Manager : GivenUp(m)
    BY <1>3 DEF AbortIsFinal
  <2>2. orch.flusher # {}
    BY <1>3 DEF AbortIsFinal
  <2>3. ASSUME StagesKept, \A n \in Manager : QuietQueue(n)
        PROVE  orch'.flusher # {} /\ GivenUp(m)'
    BY <2>1, <2>2, <2>3 DEF StagesKept, QuietQueue, GivenUp
  <2>4. ASSUME NEW k \in Manager, FlushWritten(k) \/ FlushQueued(k)
        PROVE  orch'.flusher # {} /\ GivenUp(m)'
    <3>1. k # m
      <4>1. CASE FlushQueued(k)
        BY <2>1, <4>1 DEF FlushQueued, GivenUp
      <4>2. CASE FlushWritten(k)
        <5>1. pm[k].tasks \in Seq(Task) /\ pm[k].tasks # <<>>
          BY <4>2, ManagerTypes DEF FlushWritten, Dequeued
        <5>2. FlushWaits(k)
          BY <4>2, <5>1, TailOf DEF FlushWaits, FlushWritten
        <5> QED BY <2>1, <5>2 DEF GivenUp
      <4> QED BY <2>4, <4>1, <4>2
    <3>2. pm'[m] = pm[m]
      BY <2>4, <3>1 DEF FlushWritten, FlushQueued, Others
    <3>3. ~ FlushWaits(m)'
      BY <2>1, <3>2 DEF GivenUp, FlushWaits
    <3> QED BY <2>1, <2>2, <2>4, <3>1, <3>3 DEF FlushWritten, FlushQueued, GivenUp
  <2>5. ASSUME NEW k \in Manager, Closes(k) \/ Closed(k)
        PROVE  orch'.flusher # {} /\ GivenUp(m)'
    <3>1. k # m
      BY <2>1, <2>5 DEF Closes, Closed, GivenUp
    <3>2. pm'[m] = pm[m]
      BY <2>5, <3>1 DEF Closes, Closed, Others
    <3>3. ~ FlushWaits(m)'
      BY <2>1, <3>2 DEF GivenUp, FlushWaits
    <3> QED BY <2>1, <2>2, <2>5, <3>1, <3>3 DEF Closes, Closed, GivenUp
  <2>6. ASSUME NEW k \in Manager, Registers(k) PROVE FALSE
    BY <2>2, <2>6 DEF Registers
  <2> QED BY <1>1, <1>2, <2>3, <2>4, <2>5, <2>6, QuietSteps
<1>4. CASE ~ orch.aborted
  <2>1. ~ StagesKept /\ \A k \in Manager : /\ ~ FlushWritten(k) /\ ~ FlushQueued(k) /\ ~ Closes(k)
                                           /\ ~ Closed(k) /\ ~ Registers(k)
    BY <1>4 DEF StagesKept, FlushWritten, FlushQueued, Closes, Closed, Registers
  <2> QED BY <1>1, <1>2, <2>1, QuietSteps
<1> QED BY <1>3, <1>4

\* Every step keeps the countdown right
LEMMA InstancesStep ==
  TypeOK /\ FlushInv /\ [Next]_vars => InstancesCounted'
<1> SUFFICES ASSUME TypeOK, FlushInv, [Next]_vars PROVE InstancesCounted'
  OBVIOUS
<1>0. /\ orch \in OrchestratorState /\ IsFiniteSet(orch.managers)
      /\ Cardinality(orch.managers) \in Nat
  BY PersistenceAssumption, FS_Subset, FS_CardinalityType DEF TypeOK, OrchestratorState
<1>1. ASSUME NEW m \in Manager, EndShutdown(m) PROVE InstancesCounted'
  <2>1. /\ Closed(m) /\ m \in orch.managers /\ orch.flusher # {}
        /\ orch.open_instances = Cardinality(orch.managers)
    BY <1>1, StageSteps DEF FlushInv, StagesInOrder, InstancesCounted, Closed
  <2>2. Cardinality(orch.managers \ {m}) = Cardinality(orch.managers) - 1
        /\ IsFiniteSet(orch.managers \ {m})
    BY <1>0, <2>1, FS_RemoveElement
  <2>3. orch.open_instances = 1 => orch.managers \ {m} = {}
    BY <2>1, <2>2, FS_EmptySet
  <2>4. orch.open_instances # 1 => orch'.completed = orch.completed
    BY <1>0, <1>1 DEF EndShutdown, OrchestratorState
  <2> QED BY <2>1, <2>2, <2>3, <2>4 DEF Closed, InstancesCounted, FlushInv
<1>2. ASSUME NEW c \in Caller, flush(c) PROVE InstancesCounted'
  <2>1. CASE flush_at_shutdown_called
    <3>1. orch' = [orch EXCEPT !.pending = @ \ {c}]
      BY <1>2, <2>1 DEF flush
    <3> QED BY <1>0, <3>1 DEF InstancesCounted, FlushInv, OrchestratorState
  <2>2. CASE ~ flush_at_shutdown_called
    <3>1. /\ orch' = [orch EXCEPT !.pending = @ \ {c}, !.flusher = {c},
                        !.open_instances = Cardinality(orch.managers), !.todo = orch.managers,
                        !.due = [m \in Manager |-> pm[m].data],
                        !.completed = IF orch.managers = {} THEN @ \cup {c} ELSE @]
          /\ c \in orch.pending
      BY <1>2, <2>2 DEF flush
    <3>2. c \notin orch.completed
      BY <3>1 DEF FlushInv, CallersInOrder
    <3> QED BY <1>0, <3>1, <3>2 DEF InstancesCounted, OrchestratorState
  <2> QED BY <2>1, <2>2
<1>3. ASSUME NEW c \in Caller, flush_all_data_to_disk_at_shutdown(c) PROVE InstancesCounted'
  <2>1. StagesKept
    BY <1>3, CallsOfFlush
  <2>2. orch'.completed = orch.completed \/ orch.flusher = {}
    <3>1. CASE orch.initialized
      BY <1>0, <1>3, <3>1 DEF flush_all_data_to_disk_at_shutdown, OrchestratorState
    <3>2. CASE ~ orch.initialized
      BY <3>2 DEF FlushInv, CallersInOrder
    <3> QED BY <3>1, <3>2
  <2> QED BY <2>1, <2>2 DEF StagesKept, InstancesCounted, FlushInv
<1>4. CASE Restart
  BY <1>4 DEF Restart, NewOrchestrator, InstancesCounted
<1>5. ASSUME /\ orch'.managers = orch.managers /\ orch'.flusher = orch.flusher
             /\ orch'.open_instances = orch.open_instances
             /\ orch'.completed = orch.completed
      PROVE  InstancesCounted'
  BY <1>5 DEF FlushInv, InstancesCounted
<1>6. CASE on_all_services_initialized
  BY <1>0, <1>5, <1>6 DEF on_all_services_initialized, OrchestratorState
<1>7. ASSUME NEW m \in Manager, EndOfTask(m) PROVE InstancesCounted'
  <2>1. orch' = orch \/ orch' = [orch EXCEPT !.handlers = @ \cup {m}]
    BY <1>7 DEF EndOfTask
  <2> QED BY <1>0, <1>5, <2>1 DEF OrchestratorState
<1>8. ASSUME NEW m \in Manager, FlushLoop(m) \/ OnFlushed(m) PROVE InstancesCounted'
  <2>1. \/ orch' = [orch EXCEPT !.todo = @ \ {m}]
        \/ orch' = [orch EXCEPT !.todo = @ \ {m}, !.closing = {m}]
        \/ orch' = [orch EXCEPT !.handlers = @ \ {m}, !.closing = {m}]
    BY <1>8 DEF FlushLoop, OnFlushed
  <2> QED BY <1>0, <1>5, <2>1 DEF OrchestratorState
<1>9. ASSUME orch' = orch PROVE InstancesCounted'
  BY <1>5, <1>9
<1>10. ASSUME NEW m \in Manager, FlushRaises(m) PROVE InstancesCounted'
  <2>1. orch' = [orch EXCEPT !.todo = {}, !.aborted = TRUE]
    BY <1>10 DEF FlushRaises
  <2> QED BY <1>0, <1>5, <2>1 DEF OrchestratorState
<1>11. ASSUME NEW m \in Manager, read_persisted(m) PROVE InstancesCounted'
  <2>1. CASE flush_at_shutdown_called
    BY <1>9, <1>11, <2>1 DEF read_persisted
  <2>2. CASE ~ flush_at_shutdown_called
    <3>1. orch'.flusher = {}
      BY <1>0, <1>11, <2>2 DEF read_persisted, flush_at_shutdown_called, OrchestratorState
    <3> QED BY <3>1 DEF InstancesCounted
  <2> QED BY <2>1, <2>2
<1> QED BY <1>1, <1>2, <1>3, <1>4, <1>6, <1>7, <1>8, <1>9, <1>10, <1>11, OrchestratorSteps

\* What a step does to what has been handed over
LEMMA HandedSteps ==
  ASSUME TypeOK, [Next]_vars, NEW n \in Manager
  PROVE  \/ pm'[n].handed = pm[n].handed
         \/ read_persisted(n) \/ Restart
<1>0. pm \in [Manager -> ManagerState] /\ pm[n] \in ManagerState
  BY DEF TypeOK
<1>1. ASSUME NEW m \in Manager, Others(m), SameRead(pm'[m], pm[m])
      PROVE  pm'[n].handed = pm[n].handed
  BY <1>1 DEF Others
<1>2. ASSUME NEW m \in Manager, TimerFires(m) \/ persist_now(m) \/ FlushLoop(m)
      PROVE  pm'[n].handed = pm[n].handed
  <2>1. CASE FlushLoop(m) /\ ~ MustFlush(m)
    BY <1>1, <2>1, OtherSteps DEF FlushLoop, QueueKept
  <2>2. CASE TimerFires(m) \/ persist_now(m) \/ (FlushLoop(m) /\ MustFlush(m))
    BY <1>1, <2>2, SnapshotSteps DEF Snapshot
  <2> QED BY <1>2, <2>1, <2>2
<1>3. ASSUME NEW m \in Manager,
             \/ TimerRaises(m) \/ Change(m) \/ _clear_timer(m)
             \/ Replace(m) \/ WriteFails(m) \/ OnFlushed(m)
      PROVE  pm'[n].handed = pm[n].handed
  BY <1>1, <1>3, OtherSteps DEF QueueKept, OnFlushed
<1>4. ASSUME NEW m \in Manager, StartWrite(m) \/ EndWrite(m)
      PROVE  pm'[n].handed = pm[n].handed
  <2>1. \/ pm' = [pm EXCEPT ![m].writing = "write"]
        \/ pm' = [pm EXCEPT ![m].tasks = Tail(@)]
        \/ pm' = [pm EXCEPT ![m].requested = FALSE, ![m].tasks = Tail(@), ![m].writing = "idle"]
    BY <1>4 DEF StartWrite, EndWrite
  <2>2. CASE pm' = [pm EXCEPT ![m].writing = "write"]
    BY <1>0, <2>2 DEF ManagerState
  <2>3. CASE pm' = [pm EXCEPT ![m].tasks = Tail(@)]
    BY <1>0, <2>3 DEF ManagerState
  <2>4. CASE pm' = [pm EXCEPT ![m].requested = FALSE, ![m].tasks = Tail(@), ![m].writing = "idle"]
    BY <1>0, <2>4 DEF ManagerState
  <2> QED BY <2>1, <2>2, <2>3, <2>4
<1>5. ASSUME NEW m \in Manager, get_persisted(m) PROVE pm'[n].handed = pm[n].handed
  BY <1>5, OtherSteps DEF Others
<1>6. ASSUME NEW m \in Manager, read_persisted(m), n # m PROVE pm'[n].handed = pm[n].handed
  BY <1>6, OtherSteps DEF Others
<1>7. ASSUME on_all_services_initialized PROVE pm'[n].handed = pm[n].handed
  BY <1>0, <1>7, TimerFields DEF on_all_services_initialized
<1>8. ASSUME pm' = pm PROVE pm'[n].handed = pm[n].handed
  BY <1>8
<1>9. \/ pm' = pm \/ on_all_services_initialized \/ Restart
      \/ \E m \in Manager :
           \/ read_persisted(m) \/ get_persisted(m) \/ TimerRaises(m) \/ Change(m)
           \/ _clear_timer(m) \/ Replace(m) \/ WriteFails(m) \/ TimerFires(m) \/ persist_now(m)
           \/ StartWrite(m) \/ EndWrite(m) \/ FlushLoop(m) \/ OnFlushed(m)
  BY DEF Next, UserThread, write_to_disk, vars, EndShutdown, flush, FlushRaises,
         flush_all_data_to_disk_at_shutdown
<1> QED BY <1>2, <1>3, <1>4, <1>5, <1>6, <1>7, <1>8, <1>9

\* Every step keeps what was handed over registered
LEMMA HandedStep ==
  TypeOK /\ FlushInv /\ [Next]_vars => HandedAreRegistered'
<1> SUFFICES ASSUME TypeOK, FlushInv, [Next]_vars PROVE HandedAreRegistered'
  OBVIOUS
<1> HandedAreRegistered /\ QueuesInOrder
  BY DEF FlushInv
<1>0. orch \in OrchestratorState /\ \A m \in Manager : pm[m] \in ManagerState
  BY DEF TypeOK
<1>1. CASE Restart
  BY <1>1 DEF Restart, NewOrchestrator, NewManager, HandedAreRegistered
<1>2. ASSUME NEW m \in Manager, read_persisted(m) PROVE HandedAreRegistered'
  <2>1. pm'[m].handed /\ Others(m)
    BY <1>2, OtherSteps
  <2>2. \/ orch' = orch /\ orch.flusher # {}
        \/ /\ orch'.managers = orch.managers \cup {m} /\ orch'.flusher = orch.flusher
           /\ orch'.initialized = orch.initialized
    BY <1>0, <1>2 DEF read_persisted, flush_at_shutdown_called, OrchestratorState
  <2> QED BY <2>1, <2>2 DEF Others, HandedAreRegistered
<1>3. CASE on_all_services_initialized
  <2>1. /\ orch'.managers = orch.managers /\ orch'.flusher = orch.flusher
        /\ \A m \in Manager \ RegistersAtRead : pm[m].handed
    BY <1>0, <1>3 DEF on_all_services_initialized, OrchestratorState
  <2>2. \A n \in Manager : pm'[n].handed = pm[n].handed
    BY <1>0, <1>3, TimerFields DEF on_all_services_initialized
  <2> QED BY <2>1, <2>2 DEF HandedAreRegistered
<1>4. ASSUME ~ Restart, ~ on_all_services_initialized,
             \A m \in Manager : ~ read_persisted(m)
      PROVE  HandedAreRegistered'
  <2>1. \A n \in Manager : pm'[n].handed = pm[n].handed
    BY <1>4, HandedSteps
  <2>2. orch'.initialized = orch.initialized
    <3>1. ASSUME NEW c \in Caller, flush_all_data_to_disk_at_shutdown(c) \/ flush(c)
          PROVE  orch'.initialized = orch.initialized
      BY <1>0, <3>1 DEF flush_all_data_to_disk_at_shutdown, flush, OrchestratorState
    <3>2. ASSUME NEW m \in Manager,
                 EndOfTask(m) \/ FlushLoop(m) \/ OnFlushed(m) \/ EndShutdown(m) \/ FlushRaises(m)
          PROVE  orch'.initialized = orch.initialized
      BY <1>0, <3>2 DEF EndOfTask, FlushLoop, OnFlushed, EndShutdown, FlushRaises,
                        OrchestratorState
    <3> QED BY <1>4, <3>1, <3>2, OrchestratorSteps
  <2>3. ASSUME StagesKept PROVE HandedAreRegistered'
    BY <2>1, <2>2, <2>3 DEF StagesKept, HandedAreRegistered
  <2>4. ASSUME NEW m \in Manager, FlushWritten(m) \/ FlushQueued(m) \/ Closes(m) \/ Aborts(m)
        PROVE  HandedAreRegistered'
    BY <2>1, <2>2, <2>4 DEF FlushWritten, FlushQueued, Closes, Aborts, HandedAreRegistered
  <2>5. ASSUME NEW m \in Manager, Closed(m) PROVE HandedAreRegistered'
    <3>1. orch.flusher # {}
      BY <2>5 DEF Closed, FlushInv, StagesInOrder
    <3> QED BY <2>1, <2>2, <2>5, <3>1 DEF Closed, HandedAreRegistered
  <2>6. ASSUME NEW c \in Caller, FlushBegins(c) PROVE HandedAreRegistered'
    BY <2>1, <2>2, <2>6 DEF FlushBegins, HandedAreRegistered
  <2>7. \A m \in Manager : ~ Registers(m)
    BY <1>4 DEF Registers
  <2> QED BY <1>4, <2>3, <2>4, <2>5, <2>6, <2>7, QuietSteps
<1> QED BY <1>1, <1>2, <1>3, <1>4
-----------------------------------------------------------------------------
(* What is due reaches the files                                           *)

\* No step takes back a failure
LEMMA FailuresStay ==
  ASSUME TypeOK, [Next]_vars
  PROVE  /\ failures \in Nat /\ (failures' = 0 => failures = 0)
         /\ \A m \in Manager : WriteFails(m) => failures' # 0
<1>1. failures' = failures \/ failures' = failures + 1
  BY DEF Next, UserThread, write_to_disk, vars, Change, persist_now, TimerFires,
         _clear_timer, read_persisted, get_persisted, TimerRaises, FlushRaises, StartWrite, Replace, WriteFails, EndWrite, Restart,
         on_all_services_initialized, flush, flush_all_data_to_disk_at_shutdown, FlushLoop,
         OnFlushed, EndShutdown
<1>2. \A m \in Manager : WriteFails(m) => failures' = failures + 1
  BY DEF WriteFails
<1> QED BY <1>1, <1>2 DEF TypeOK

\* What m has written when its task ends
Written(m) == pm[m].writing = "finally" => file[m] >= Head(pm[m].tasks).version

\* What was due for m is in memory, and on its way to the file
Due(m) ==
  /\ orch.due[m] <= pm[m].data
  /\ \/ m \in orch.todo \/ orch.aborted
     \/ file[m] >= orch.due[m]
     \/ \E i \in 1 .. Len(pm[m].tasks) :
          pm[m].tasks[i].flush /\ pm[m].tasks[i].version >= orch.due[m]

\* A write that is not ended by this step keeps its task
LEMMA WrittenKept ==
  ASSUME TypeOK, NEW m \in Manager, QueueInOrder(m), Written(m), file'[m] = file[m],
         pm'[m].writing = pm[m].writing,
         pm'[m].tasks = pm[m].tasks \/ \E isFlush \in BOOLEAN : Snapshot(m, isFlush)
  PROVE  Written(m)'
<1>1. CASE pm'[m].tasks = pm[m].tasks
  BY <1>1 DEF Written
<1>2. ASSUME NEW isFlush \in BOOLEAN, Snapshot(m, isFlush), pm[m].writing = "finally"
      PROVE  Head(pm'[m].tasks) = Head(pm[m].tasks)
  <2>1. PICK t \in Task : pm'[m].tasks = Append(pm[m].tasks, t)
    BY <1>2 DEF Snapshot
  <2>2. pm[m].tasks \in Seq(Task) /\ pm[m].tasks # <<>>
    BY <1>2, ManagerTypes DEF QueueInOrder
  <2>3. \A s \in Seq(Task) : s # <<>> => Head(Append(s, t)) = Head(s)
    OBVIOUS
  <2> QED BY <2>1, <2>2, <2>3
<1>3. CASE pm'[m].tasks # pm[m].tasks
  BY <1>2, <1>3 DEF Written
<1> QED BY <1>1, <1>3

\* What is due stays on its way while the queue only loses what is not of the flush
LEMMA DueKept ==
  ASSUME TypeOK, TypeOK', NEW m \in Manager, Due(m), orch'.due = orch.due,
         m \in orch.todo \/ orch.aborted => m \in orch'.todo \/ orch'.aborted,
         file[m] <= file'[m], pm[m].data <= pm'[m].data,
         \/ pm'[m].tasks = pm[m].tasks
         \/ \E isFlush \in BOOLEAN : Snapshot(m, isFlush)
         \/ Dequeued(m) /\ ~ Head(pm[m].tasks).flush
  PROVE  Due(m)'
<1> DEFINE q == pm[m].tasks
<1>0. /\ pm[m].data \in Nat /\ file[m] \in Nat /\ q \in Seq(Task) /\ Len(q) \in Nat
      /\ \A i \in 1 .. Len(q) : q[i].version \in Nat
  BY ManagerTypes
<1>1. orch.due[m] \in Nat
  BY DEF TypeOK, OrchestratorState
<1>2. pm'[m] \in ManagerState /\ file'[m] \in Nat
  BY DEF TypeOK
<1>3. pm'[m].data \in Nat
  BY <1>2 DEF ManagerState
<1>4. orch'.due[m] <= pm'[m].data
  BY <1>0, <1>1, <1>3 DEF Due
<1>5. CASE m \in orch.todo \/ orch.aborted
  BY <1>4, <1>5 DEF Due
<1>6. CASE file[m] >= orch.due[m]
  <2>1. file'[m] >= orch'.due[m]
    BY <1>0, <1>1, <1>2, <1>6
  <2> QED BY <1>4, <2>1 DEF Due
<1>7. ASSUME NEW i \in 1 .. Len(q), q[i].flush, q[i].version >= orch.due[m] PROVE Due(m)'
  <2>1. \E j \in 1 .. Len(pm'[m].tasks) : pm'[m].tasks[j] = q[i]
    <3>1. CASE pm'[m].tasks = q
      BY <1>7, <3>1
    <3>2. ASSUME NEW isFlush \in BOOLEAN, Snapshot(m, isFlush)
          PROVE  \E j \in 1 .. Len(pm'[m].tasks) : pm'[m].tasks[j] = q[i]
      <4>1. PICK t \in Task : pm'[m].tasks = Append(q, t)
        BY <3>2 DEF Snapshot
      <4>2. Len(Append(q, t)) = Len(q) + 1 /\ Append(q, t)[i] = q[i]
        BY <1>0, <1>7, AppendOf
      <4>3. i \in 1 .. Len(q) + 1
        BY <1>0, <1>7
      <4> HIDE DEF q
      <4> QED BY <4>1, <4>2, <4>3
    <3>3. ASSUME Dequeued(m), ~ Head(q).flush
          PROVE  \E j \in 1 .. Len(pm'[m].tasks) : pm'[m].tasks[j] = q[i]
      <4>1. /\ q # <<>> /\ pm'[m].tasks = Tail(q) /\ Head(q) = q[1]
            /\ Len(Tail(q)) = Len(q) - 1
            /\ \A j \in 1 .. Len(Tail(q)) : Tail(q)[j] = q[j + 1]
        BY <1>0, <3>3, TailOf DEF Dequeued
      <4>2. i # 1
        BY <1>7, <3>3, <4>1
      <4>3. i - 1 \in 1 .. Len(q) - 1 /\ (i - 1) + 1 = i
        BY <1>0, <1>7, <4>2
      <4>4. Tail(q)[i - 1] = q[i] /\ i - 1 \in 1 .. Len(Tail(q))
        BY <4>1, <4>3
      <4> HIDE DEF q
      <4> QED BY <4>1, <4>4
    <3> QED BY <3>1, <3>2, <3>3
  <2>2. PICK j \in 1 .. Len(pm'[m].tasks) : pm'[m].tasks[j] = q[i]
    BY <2>1
  <2>3. pm'[m].tasks[j].flush /\ pm'[m].tasks[j].version >= orch'.due[m]
    BY <1>7, <2>2
  <2> QED BY <1>4, <2>3 DEF Due
<1> QED BY <1>5, <1>6, <1>7 DEF Due
\* The actions of a step, of the orchestrator's callers or of a manager
LEMMA StepActions ==
  ASSUME [Next]_vars
  PROVE  \/ UNCHANGED vars
         \/ on_all_services_initialized \/ Restart
         \/ \E c \in Caller : flush_all_data_to_disk_at_shutdown(c) \/ flush(c)
         \/ \E m \in Manager :
              \/ read_persisted(m) \/ get_persisted(m) \/ TimerRaises(m) \/ FlushRaises(m)
              \/ Change(m) \/ _clear_timer(m) \/ Replace(m)
              \/ WriteFails(m) \/ TimerFires(m) \/ persist_now(m) \/ StartWrite(m)
              \/ EndWrite(m) \/ FlushLoop(m) \/ OnFlushed(m) \/ EndShutdown(m)
BY DEF Next, UserThread, write_to_disk

\* A write that did not fail is in the file when its task ends
LEMMA WrittenStep ==
  TypeOK /\ QueuesInOrder /\ WrittenBeforeEnd /\ [Next]_vars => WrittenBeforeEnd'
<1> SUFFICES ASSUME TypeOK, QueuesInOrder, WrittenBeforeEnd, [Next]_vars, failures' = 0,
                    NEW n \in Manager
             PROVE  Written(n)'
  BY DEF WrittenBeforeEnd, Written
<1>0. Written(n) /\ QueueInOrder(n)
  BY FailuresStay DEF WrittenBeforeEnd, Written, QueuesInOrder
<1>1. ASSUME pm'[n] = pm[n], file'[n] = file[n] PROVE Written(n)'
  BY <1>0, <1>1 DEF Written
<1>2. ASSUME pm'[n].writing # "finally" PROVE Written(n)'
  BY <1>2 DEF Written
<1>3. ASSUME NEW m \in Manager,
             \/ read_persisted(m) \/ get_persisted(m) \/ TimerRaises(m)
             \/ Change(m) \/ _clear_timer(m) \/ OnFlushed(m)
      PROVE  Written(n)'
  <2>1. Others(m) /\ pm'[m].tasks = pm[m].tasks /\ pm'[m].writing = pm[m].writing
    BY <1>3, OtherSteps DEF OnFlushed, QueueKept
  <2>2. file' = file
    BY <1>3 DEF read_persisted, get_persisted, TimerRaises, Change, _clear_timer, OnFlushed
  <2> QED BY <1>0, <1>1, <2>1, <2>2, WrittenKept DEF Others
<1>4. ASSUME NEW m \in Manager, TimerFires(m) \/ persist_now(m) \/ FlushLoop(m)
      PROVE  Written(n)'
  <2>1. file' = file
    BY <1>4 DEF TimerFires, persist_now, FlushLoop
  <2>2. CASE FlushLoop(m) /\ ~ MustFlush(m)
    <3>1. Others(m) /\ pm'[m].tasks = pm[m].tasks /\ pm'[m].writing = pm[m].writing
      BY <2>2, OtherSteps DEF FlushLoop, QueueKept
    <3> QED BY <1>0, <1>1, <2>1, <3>1, WrittenKept DEF Others
  <2>3. CASE TimerFires(m) \/ persist_now(m) \/ (FlushLoop(m) /\ MustFlush(m))
    <3>1. Others(m) /\ \E isFlush \in BOOLEAN : Snapshot(m, isFlush)
      BY <2>3, SnapshotSteps
    <3>2. pm'[m].writing = pm[m].writing
      BY <3>1 DEF Snapshot
    <3> QED BY <1>0, <1>1, <2>1, <3>1, <3>2, WrittenKept DEF Others
  <2> QED BY <1>4, <2>2, <2>3
<1>5. ASSUME NEW m \in Manager, Replace(m) PROVE Written(n)'
  <2>1. Others(m) /\ QueueKept(m)
    BY <1>5, OtherSteps
  <2>2. /\ file' = [file EXCEPT ![m] = Head(pm[m].tasks).version]
        /\ file'[m] = Head(pm[m].tasks).version
    BY <1>5 DEF Replace, TypeOK
  <2>3. CASE n = m
    <3>1. Head(pm[n].tasks).version \in Nat
      <4>1. pm[n].tasks \in Seq(Task) /\ pm[n].tasks # <<>>
        BY <1>0, <1>5, <2>3, ManagerTypes DEF Replace, QueueInOrder
      <4> QED BY <4>1, TailOf DEF Task
    <3> QED BY <2>1, <2>2, <2>3, <3>1 DEF QueueKept, Written
  <2> QED BY <1>1, <2>1, <2>2, <2>3 DEF Others, TypeOK
<1>6. ASSUME NEW m \in Manager, StartWrite(m) \/ EndWrite(m) PROVE Written(n)'
  <2>1. file' = file
    BY <1>6 DEF StartWrite, EndWrite
  <2>2. Others(m) /\ pm'[m].writing # "finally"
    BY <1>6, DequeueSteps DEF Dequeued
  <2> QED BY <1>1, <1>2, <2>1, <2>2 DEF Others
<1>7. CASE on_all_services_initialized
  <2>1. pm'[n].tasks = pm[n].tasks /\ pm'[n].writing = pm[n].writing /\ file' = file
    <3>1. pm[n] \in ManagerState
      BY ManagerTypes
    <3> QED BY <1>7, <3>1, TimerFields DEF on_all_services_initialized
  <2> QED BY <1>0, <2>1, WrittenKept
<1>8. CASE Restart
  BY <1>2, <1>8 DEF Restart, NewManager
<1>9. ASSUME NEW m \in Manager, EndShutdown(m) \/ FlushRaises(m) PROVE Written(n)'
  BY <1>1, <1>9 DEF EndShutdown, FlushRaises
<1>10. ASSUME NEW c \in Caller, flush_all_data_to_disk_at_shutdown(c) \/ flush(c)
       PROVE  Written(n)'
  BY <1>1, <1>10 DEF flush_all_data_to_disk_at_shutdown, flush
<1>11. CASE UNCHANGED vars
  BY <1>1, <1>11 DEF vars
<1>12. ASSUME NEW m \in Manager,
              \/ read_persisted(m) \/ get_persisted(m) \/ TimerRaises(m) \/ FlushRaises(m)
              \/ Change(m) \/ _clear_timer(m) \/ Replace(m)
              \/ WriteFails(m) \/ TimerFires(m) \/ persist_now(m) \/ StartWrite(m)
              \/ EndWrite(m) \/ FlushLoop(m) \/ OnFlushed(m) \/ EndShutdown(m)
       PROVE  Written(n)'
  BY <1>3, <1>4, <1>5, <1>6, <1>9, <1>12, FailuresStay
<1> QED BY <1>7, <1>8, <1>10, <1>11, <1>12, StepActions

\* What is due stays on its way, once the flush has begun
LEMMA DueStays ==
  ASSUME TypeOK, TypeOK', FlushInv, [Next]_vars, failures' = 0,
         orch.flusher # {}, orch'.flusher # {}, NEW n \in FlushAtShutdown
  PROVE  Due(n)'
<1>0. /\ n \in Manager /\ QueueInOrder(n) /\ orch.initialized /\ failures = 0
      /\ \A m \in Manager : pm[m].writing = "finally" => Written(m)
  BY PersistenceAssumption, FailuresStay
     DEF FlushInv, QueuesInOrder, CallersInOrder, WrittenBeforeEnd, Written
<1>1. Due(n)
  BY <1>0 DEF FlushInv, DueIsOnItsWay, Due
<1>2. pm[n].data \in Nat /\ file[n] \in Nat
  BY <1>0, ManagerTypes
<1>3. ASSUME pm'[n] = pm[n], file'[n] = file[n], orch'.due = orch.due,
             n \in orch.todo \/ orch.aborted => n \in orch'.todo \/ orch'.aborted
      PROVE  Due(n)'
  <2>1. file[n] <= file'[n] /\ pm[n].data <= pm'[n].data
        /\ pm'[n].tasks = pm[n].tasks
    BY <1>2, <1>3
  <2> QED BY <1>0, <1>1, <1>3, <2>1, DueKept
<1>4. ASSUME pm'[n].tasks = pm[n].tasks \/ \E isFlush \in BOOLEAN : Snapshot(n, isFlush),
             pm'[n].data = pm[n].data \/ pm'[n].data = pm[n].data + 1,
             file'[n] = file[n], orch'.due = orch.due,
             n \in orch.todo \/ orch.aborted => n \in orch'.todo \/ orch'.aborted
      PROVE  Due(n)'
  <2>1. file[n] <= file'[n] /\ pm[n].data <= pm'[n].data
    BY <1>2, <1>4
  <2> QED BY <1>0, <1>1, <1>4, <2>1, DueKept
<1>5. ASSUME NEW m \in Manager,
             \/ Change(m) \/ _clear_timer(m) \/ WriteFails(m)
             \/ get_persisted(m) \/ TimerRaises(m)
      PROVE  Due(n)'
  <2>1. /\ Others(m) /\ pm'[m].tasks = pm[m].tasks
        /\ pm'[m].data = pm[m].data \/ pm'[m].data = pm[m].data + 1
    BY <1>5, OtherSteps DEF QueueKept
  <2>2. orch' = orch /\ file' = file
    BY <1>5 DEF Change, _clear_timer, WriteFails, get_persisted, TimerRaises
  <2> QED BY <1>0, <1>3, <1>4, <2>1, <2>2 DEF Others
<1>6. ASSUME NEW m \in Manager, TimerFires(m) \/ persist_now(m) PROVE Due(n)'
  <2>1. Others(m) /\ Snapshot(m, FALSE)
    BY <1>6, SnapshotSteps
  <2>2. orch' = orch /\ file' = file
    BY <1>6 DEF TimerFires, persist_now
  <2> QED BY <1>0, <1>3, <1>4, <2>1, <2>2 DEF Others, Snapshot
<1>7. ASSUME NEW m \in Manager, Replace(m) PROVE Due(n)'
  <2>1. Others(m) /\ QueueKept(m) /\ orch' = orch
    BY <1>7, OtherSteps DEF Replace
  <2>2. n # m => file'[n] = file[n]
    BY <1>0, <1>7 DEF Replace, TypeOK
  <2>3. CASE n = m
    <3>1. file[n] <= file'[n] /\ file'[n] \in Nat
      BY <1>0, <1>7, <2>3, OrderOfReplace DEF TypeOK
    <3>2. pm[n].data <= pm'[n].data
      BY <1>2, <2>1, <2>3 DEF QueueKept
    <3> QED BY <1>0, <1>1, <2>1, <2>3, <3>1, <3>2, DueKept DEF QueueKept
  <2> QED BY <1>0, <1>3, <2>1, <2>2, <2>3 DEF Others
<1>8. ASSUME NEW m \in Manager, StartWrite(m) PROVE Due(n)'
  <2>1. Others(m) /\ QueueKept(m) /\ orch' = orch /\ file' = file
    BY <1>0, <1>8, DequeueSteps DEF StartWrite, FlushInv
  <2> QED BY <1>0, <1>3, <1>4, <2>1 DEF Others, QueueKept
<1>9. ASSUME NEW m \in Manager, EndWrite(m) PROVE Due(n)'
  <2>1. Dequeued(m) /\ Others(m) /\ EndOfTask(m) /\ file' = file
    BY <1>9, DequeueSteps DEF EndWrite, FlushInv
  <2>2. FlushWritten(m) \/ (StagesKept /\ ~ Head(pm[m].tasks).flush)
    BY <2>1, StageSteps DEF FlushInv
  <2>3. orch'.due = orch.due /\ orch'.todo = orch.todo /\ orch'.aborted = orch.aborted
    BY <2>2 DEF FlushWritten, StagesKept
  <2>4. CASE n # m
    BY <1>0, <1>3, <2>1, <2>3, <2>4 DEF Others
  <2>5. CASE n = m /\ ~ Head(pm[m].tasks).flush
    <3>1. file[n] <= file'[n] /\ pm[n].data <= pm'[n].data
      BY <1>2, <2>1, <2>5 DEF Dequeued
    <3> QED BY <1>0, <1>1, <2>1, <2>3, <2>5, <3>1, DueKept
  <2>6. CASE n = m /\ Head(pm[m].tasks).flush
    <3> DEFINE q == pm[n].tasks
    <3>1. /\ q \in Seq(Task) /\ q # <<>> /\ pm[n].writing = "finally"
          /\ pm'[n].data = pm[n].data
          /\ \A i \in 1 .. Len(q) : q[i].version \in Nat
      BY <1>0, <1>9, <2>1, <2>6, ManagerTypes DEF Dequeued, EndWrite
    <3>2. Head(q) = q[1] /\ 1 \in 1 .. Len(q)
      BY <3>1, TailOf
    <3>3. \A i \in 1 .. Len(q) : q[i].flush => i = 1
      BY <1>0, <2>6, <3>2 DEF FlushInv, StagesInOrder
    <3>4. file[n] >= q[1].version
      BY <1>0, <3>1, <3>2 DEF Written
    <3>5. orch.due[n] \in Nat
      BY <1>0 DEF TypeOK, OrchestratorState
    <3>6. n \in orch.todo \/ orch.aborted \/ file[n] >= orch.due[n]
      <4>1. ASSUME NEW i \in 1 .. Len(q), q[i].flush, q[i].version >= orch.due[n]
            PROVE  file[n] >= orch.due[n]
        <5>1. i = 1
          BY <3>3, <4>1
        <5>2. q[1].version >= orch.due[n] /\ q[1].version \in Nat
          BY <3>1, <3>2, <4>1, <5>1
        <5> QED BY <1>2, <3>4, <3>5, <5>2
      <4> QED BY <1>1, <3>1, <4>1 DEF Due
    <3> QED BY <1>1, <2>1, <2>3, <3>1, <3>6 DEF Due
  <2> QED BY <2>4, <2>5, <2>6
<1>10. ASSUME NEW m \in Manager, FlushLoop(m) PROVE Due(n)'
  <2>1. (FlushQueued(m) \/ Closes(m)) /\ file' = file
    BY <1>10, StageSteps DEF FlushInv, FlushLoop
  <2>2. /\ orch'.due = orch.due /\ orch'.todo = orch.todo \ {m} /\ Others(m)
        /\ orch'.aborted = orch.aborted
    <3>1. m \notin orch.handlers
      BY <1>10 DEF FlushLoop, FlushInv, StagesInOrder
    <3> QED BY <2>1, <3>1 DEF FlushQueued, Closes
  <2>3. CASE n # m
    BY <1>0, <1>3, <2>1, <2>2, <2>3 DEF Others
  <2>4. CASE n = m /\ FlushQueued(m)
    <3> DEFINE q == pm[n].tasks
    <3>1. PICK t \in Task : /\ t.version = pm[n].data /\ t.flush
                            /\ pm'[n].tasks = Append(q, t)
      BY <2>4 DEF FlushQueued, Snapshot
    <3>2. pm'[n].data = pm[n].data
      BY <2>4 DEF FlushQueued, Snapshot
    <3>3. q \in Seq(Task) /\ Len(q) \in Nat
      BY <1>0, ManagerTypes
    <3>4. Len(Append(q, t)) = Len(q) + 1 /\ Append(q, t)[Len(q) + 1] = t
      BY <3>3, AppendOf
    <3>5. orch.due[n] <= pm[n].data /\ orch.due[n] \in Nat
      BY <1>0, <1>1, <3>2 DEF Due, TypeOK, OrchestratorState
    <3>6. Len(q) + 1 \in 1 .. Len(q) + 1 /\ t.version >= orch.due[n]
      BY <1>2, <3>1, <3>3, <3>5
    <3> HIDE DEF q
    <3> QED BY <2>2, <3>1, <3>2, <3>4, <3>5, <3>6 DEF Due
  <2>5. CASE n = m /\ ~ FlushQueued(m)
    <3>1. ~ MustFlush(n) /\ n \in orch.managers
      BY <1>0, <1>10, <2>1, <2>5 DEF Closes, FlushInv, StagesInOrder, FlushLoop
    <3>2. pm[n].read_called
      BY <1>0, <3>1 DEF FlushInv, HandedAreRegistered, QueueInOrder
    <3> QED BY <3>1, <3>2 DEF MustFlush
  <2> QED BY <2>3, <2>4, <2>5
<1>11. ASSUME NEW m \in Manager, OnFlushed(m) PROVE Due(n)'
  <2>1. Closes(m) /\ file' = file
    BY <1>11, StageSteps DEF FlushInv, OnFlushed
  <2>2. /\ Others(m) /\ QueueKept(m) /\ orch'.due = orch.due /\ orch'.todo = orch.todo
        /\ orch'.aborted = orch.aborted
    <3>1. m \notin orch.todo
      BY <1>11 DEF OnFlushed, UserThreadIsFree
    <3> QED BY <2>1, <3>1 DEF Closes
  <2> QED BY <1>0, <1>3, <1>4, <2>1, <2>2 DEF Others, QueueKept
<1>12. ASSUME NEW m \in Manager, EndShutdown(m) PROVE Due(n)'
  <2>1. Closed(m) /\ file' = file
    BY <1>12, StageSteps DEF FlushInv, EndShutdown
  <2> QED BY <1>0, <1>3, <2>1 DEF Closed
<1>13. ASSUME NEW c \in Caller, flush_all_data_to_disk_at_shutdown(c) \/ flush(c)
       PROVE  Due(n)'
  <2>1. StagesKept /\ pm' = pm /\ file' = file
    BY <1>13, CallsOfFlush DEF FlushBegins, flush_all_data_to_disk_at_shutdown, flush
  <2> QED BY <1>0, <1>3, <2>1 DEF StagesKept
<1>14. CASE UNCHANGED vars
  BY <1>0, <1>3, <1>14 DEF vars
<1>15. ASSUME NEW m \in Manager,
              \/ read_persisted(m) \/ get_persisted(m) \/ TimerRaises(m) \/ FlushRaises(m)
              \/ Change(m) \/ _clear_timer(m) \/ Replace(m)
              \/ WriteFails(m) \/ TimerFires(m) \/ persist_now(m) \/ StartWrite(m)
              \/ EndWrite(m) \/ FlushLoop(m) \/ OnFlushed(m) \/ EndShutdown(m)
       PROVE  Due(n)'
  <2>1. ASSUME read_persisted(m) PROVE Due(n)'
    <3>1. /\ Others(m) /\ pm'[m].tasks = pm[m].tasks /\ orch' = orch /\ file' = file
          /\ pm'[m].data = pm[m].found /\ ~ pm[m].handed
      BY <2>1, OtherSteps DEF read_persisted, flush_at_shutdown_called
    <3>2. CASE n = m
      <4>1. pm[n].data = 0 /\ pm[n].found \in Nat
        BY <1>0, <3>1, <3>2 DEF QueueInOrder, TypeOK, ManagerState
      <4>2. pm[n].data <= pm'[n].data /\ file[n] <= file'[n]
        BY <1>2, <3>1, <3>2, <4>1
      <4> QED BY <1>0, <1>1, <3>1, <3>2, <4>2, DueKept
    <3>3. CASE n # m
      BY <1>0, <1>3, <3>1, <3>3 DEF Others
    <3> QED BY <3>2, <3>3
  <2>2. ASSUME FlushRaises(m) PROVE Due(n)'
    <3>1. Aborts(m) /\ file' = file
      BY <2>2, StageSteps DEF FlushInv, FlushRaises
    <3> QED BY <1>0, <1>3, <3>1 DEF Aborts
  <2> QED BY <1>5, <1>6, <1>7, <1>8, <1>9, <1>10, <1>11, <1>12, <1>15, <2>1, <2>2
<1>16. ~ on_all_services_initialized /\ ~ Restart
  BY <1>0 DEF on_all_services_initialized, Restart, NewOrchestrator
<1> QED BY <1>13, <1>14, <1>15, <1>16, StepActions

\* Every step keeps what is due on its way
LEMMA DueStep == TypeOK /\ TypeOK' /\ FlushInv /\ [Next]_vars => DueIsOnItsWay'
<1> SUFFICES ASSUME TypeOK, TypeOK', FlushInv, [Next]_vars, failures' = 0,
                    orch'.flusher # {}, NEW n \in FlushAtShutdown
             PROVE  Due(n)'
  BY DEF DueIsOnItsWay, Due
<1>1. CASE orch.flusher # {}
  BY <1>1, DueStays
<1>2. CASE orch.flusher = {}
  <2>1. \E c \in Caller : FlushBegins(c)
    <3>1. ~ StagesKept /\ ~ Restart
      BY <1>2 DEF StagesKept, Restart, NewOrchestrator
    <3>2. \A m \in Manager : /\ ~ FlushWritten(m) /\ ~ FlushQueued(m)
                            /\ ~ Closes(m) /\ ~ Closed(m)
                            /\ ~ Registers(m) /\ ~ Aborts(m)
      BY <1>2 DEF FlushWritten, FlushQueued, Closes, Closed, Registers, Aborts
    <3> QED BY <3>1, <3>2, QuietSteps DEF FlushInv
  <2>2. n \in Manager /\ (n \in orch.managers \/ pm[n].data = 0)
    BY <1>2, PersistenceAssumption
       DEF FlushInv, HandedAreRegistered, QueuesInOrder, QueueInOrder
  <2>3. pm[n].data \in Nat /\ file'[n] \in Nat
    BY <2>2, ManagerTypes DEF TypeOK
  <2> QED BY <2>1, <2>2, <2>3 DEF FlushBegins, Due
<1> QED BY <1>1, <1>2
-----------------------------------------------------------------------------
(* The theorems                                                            *)

\* The initial states
LEMMA InitFlush == Init => TypeOK /\ FlushInv
<1> SUFFICES ASSUME Init PROVE TypeOK /\ FlushInv
  OBVIOUS
<1>1. /\ pm = [m \in Manager |-> NewManager] /\ orch = NewOrchestrator
      /\ file \in [Manager -> {0, 1}] /\ failures = 0 /\ raised = 0 /\ restarts = 0
  BY DEF Init
<1>2. NewManager \in ManagerState
  BY DEF NewManager, ManagerState
<1>3. NewOrchestrator \in OrchestratorState
  BY PersistenceAssumption DEF NewOrchestrator, OrchestratorState
<1>4. TypeOK
  BY <1>1, <1>2, <1>3 DEF TypeOK
<1>5. \A m \in Manager : /\ pm[m].tasks = <<>> /\ Len(pm[m].tasks) = 0 /\ ~ pm[m].read_called
                         /\ ~ pm[m].handed /\ pm[m].data = 0
                         /\ ~ pm[m].requested /\ pm[m].timer = "none" /\ pm[m].writing = "idle"
  BY <1>1 DEF NewManager
<1>6. /\ orch.managers = Manager \ RegistersAtRead /\ ~ orch.initialized
      /\ ~ orch.aborted /\ orch.called = {} /\ orch.pending = {} /\ orch.flusher = {}
      /\ orch.todo = {} /\ orch.closing = {} /\ orch.handlers = {} /\ orch.completed = {}
  BY <1>1 DEF NewOrchestrator
<1>7. QueuesInOrder /\ WrittenBeforeEnd
  BY <1>5 DEF QueuesInOrder, QueueInOrder, WrittenBeforeEnd
<1>8. CallersInOrder /\ InstancesCounted /\ DueIsOnItsWay /\ AbortIsFinal
  BY <1>6 DEF CallersInOrder, InstancesCounted, DueIsOnItsWay, AbortIsFinal
<1>8a. HandedAreRegistered
  BY <1>5, <1>6 DEF HandedAreRegistered
<1>9. StagesInOrder
  <2>1. \A m \in Manager : ~ FlushWaits(m)
    BY <1>5 DEF FlushWaits
  <2> QED BY <1>5, <1>6, <2>1 DEF StagesInOrder
<1> QED BY <1>4, <1>7, <1>8, <1>8a, <1>9 DEF FlushInv

\* Every step keeps the invariants
LEMMA FlushStep == TypeOK /\ FlushInv /\ [Next]_vars => TypeOK' /\ FlushInv'
<1> SUFFICES ASSUME TypeOK, FlushInv, [Next]_vars PROVE TypeOK' /\ FlushInv'
  OBVIOUS
<1>1. TypeOK'
  BY TypeStep
<1>2. QueuesInOrder' /\ StagesInOrder'
  BY <1>1, QueueStep, StageStep DEF FlushInv
<1>3. CallersInOrder' /\ WrittenBeforeEnd'
  BY CallersStep, WrittenStep DEF FlushInv
<1>4. InstancesCounted' /\ DueIsOnItsWay'
  BY <1>1, InstancesStep, DueStep
<1>5. AbortIsFinal' /\ HandedAreRegistered'
  BY AbortStep, HandedStep DEF FlushInv
<1> QED BY <1>1, <1>2, <1>3, <1>4, <1>5 DEF FlushInv

\* The invariants of the queues and of the flush hold in every behaviour: requests, timers,
\* direct writes, the write threads, the flush and crashes in any order.
THEOREM FlushInvariant == Spec => [](TypeOK /\ FlushInv)
<1>1. Init => TypeOK /\ FlushInv
  BY InitFlush
<1>2. TypeOK /\ FlushInv /\ [Next]_vars => (TypeOK /\ FlushInv)'
  BY FlushStep
<1> QED BY <1>1, <1>2, PTL DEF Spec

\* The managers, the orchestrator and the files keep their types; open_instances, which
\* _on_write_completed counts down, never gets below zero.
THEOREM TypeCorrect == Spec => []TypeOK
<1> QED BY FlushInvariant, PTL

\* What the writes do to the files in one step
LEMMA FileStep ==
  TypeOK /\ FlushInv /\ [Next]_vars =>
    \A m \in Manager : /\ file'[m] >= file[m]
                       /\ file'[m] # file[m] => pm[m].handed
<1> SUFFICES ASSUME TypeOK, FlushInv, [Next]_vars, NEW n \in Manager
             PROVE  file'[n] >= file[n] /\ (file'[n] # file[n] => pm[n].handed)
  OBVIOUS
<1>0. TypeOK' /\ file[n] \in Nat /\ QueueInOrder(n)
  BY TypeStep, ManagerTypes DEF FlushInv, QueuesInOrder
<1>1. ASSUME NEW m \in Manager, Replace(m)
      PROVE  file'[n] >= file[n] /\ (file'[n] # file[n] => pm[n].handed)
  <2>1. CASE n = m
    BY <1>0, <1>1, <2>1, OrderOfReplace
  <2>2. CASE n # m
    BY <1>0, <1>1, <2>2 DEF Replace, TypeOK
  <2> QED BY <2>1, <2>2
<1>2. file' = file \/ \E m \in Manager : Replace(m)
  BY DEF Next, UserThread, write_to_disk, vars, Change, persist_now, TimerFires,
         _clear_timer, read_persisted, get_persisted, TimerRaises, FlushRaises, StartWrite, WriteFails, EndWrite, Restart,
         on_all_services_initialized, flush, flush_all_data_to_disk_at_shutdown, FlushLoop,
         OnFlushed, EndShutdown
<1> QED BY <1>0, <1>1, <1>2

\* No file ever goes back to an older version, whatever requests, timers, direct writes,
\* flushes, failures and crashes meet: the thread of a manager writes in order.
THEOREM FilesNeverGoBack == Spec => FileNeverGoesBack
<1>1. TypeOK /\ FlushInv /\ [Next]_vars => [\A m \in Manager : file'[m] >= file[m]]_vars
  BY FileStep
<1> QED BY <1>1, FlushInvariant, PTL DEF Spec, FileNeverGoesBack

\* A file is never replaced before what it contains has been handed over to its service,
\* although read_called, which the flush looks at, is set earlier: no request, no timer and
\* no snapshot exists for a manager before that.
THEOREM UnreadFilesAreKept == Spec => UnreadFileIsKept
<1>1. TypeOK /\ FlushInv /\ [Next]_vars
      => [\A m \in Manager : file'[m] # file[m] => pm[m].handed]_vars
  BY FileStep
<1> QED BY <1>1, FlushInvariant, PTL DEF Spec, UnreadFileIsKept

\* When the caller of the flush is told that it is complete, the files of private data
\* contain what was in memory when it began, unless a write failed.
THEOREM PrivateFlushed == Spec => []PrivateDataIsFlushed
<1>1. TypeOK /\ FlushInv => PrivateDataIsFlushed
  <2> SUFFICES ASSUME TypeOK, FlushInv, FlushEnded, failures = 0,
                      NEW m \in FlushAtShutdown
               PROVE  file[m] >= orch.due[m]
    BY DEF PrivateDataIsFlushed
  <2>1. orch.managers = {} /\ orch.flusher # {} /\ m \in Manager
    BY PersistenceAssumption DEF FlushInv, InstancesCounted, FlushEnded
  <2>2. m \notin orch.todo /\ ~ FlushWaits(m) /\ ~ orch.aborted
    BY <2>1 DEF FlushInv, StagesInOrder, AbortIsFinal, GivenUp
  <2>3. Due(m)
    BY <2>1 DEF FlushInv, DueIsOnItsWay, Due
  <2> QED BY <2>2, <2>3 DEF Due, FlushWaits
<1> QED BY <1>1, FlushInvariant, PTL

\* The orchestrator implements FlushOnce: of the flush calls of the shutdown routine one is
\* carried out and answered, the others are dropped, and one that comes before the start
\* up is complete is answered at once.
THEOREM OrchestratorFlushesOnce == Spec => FlushesOnce
<1>1. Init => Abstract!FlushOnceInit
  BY DEF Init, NewOrchestrator, Abstract!FlushOnceInit
<1>2. TypeOK /\ FlushInv /\ [Next]_vars => [Abstract!FlushOnceNext]_(Abstract!abstractVars)
  <2> SUFFICES ASSUME TypeOK, CallersInOrder, [Next]_vars
               PROVE  [Abstract!FlushOnceNext]_(Abstract!abstractVars)
    BY DEF FlushInv
  <2>1. CASE CallersKept
    BY <2>1 DEF CallersKept, Abstract!abstractVars
  <2>2. CASE StartUpEnds
    BY <2>2 DEF StartUpEnds, Abstract!FlushOnceNext, Abstract!StartedUp
  <2>3. CASE orch' = NewOrchestrator
    BY <2>3 DEF NewOrchestrator, Abstract!FlushOnceNext, Abstract!NextProcess
  <2>4. ASSUME NEW c \in Caller, Called(c) PROVE Abstract!Ask(c)
    BY <2>4 DEF Called, Abstract!Ask, CallersInOrder
  <2>5. ASSUME NEW c \in Caller, Begun(c) PROVE Abstract!Accept(c) \/ Abstract!Ignore(c)
    BY <2>5 DEF Begun, Abstract!Accept, Abstract!Ignore
  <2>6. CASE Answered
    <3>1. CASE orch.flusher \subseteq orch.completed
      <4>1. orch'.completed = orch.completed
        BY <2>6, <3>1 DEF Answered
      <4> QED BY <2>6, <4>1 DEF Answered, Abstract!abstractVars
    <3>2. ASSUME NEW c \in orch.flusher, c \notin orch.completed
          PROVE  c \in Caller /\ Abstract!Answer(c)
      <4>1. orch.flusher = {c}
        BY <3>2 DEF CallersInOrder
      <4>2. c \in Caller
        BY <3>2 DEF TypeOK, OrchestratorState
      <4> QED BY <2>6, <3>2, <4>1, <4>2 DEF Answered, Abstract!Answer
    <3> QED BY <3>1, <3>2 DEF Abstract!FlushOnceNext
  <2> QED BY <2>1, <2>2, <2>3, <2>4, <2>5, <2>6, CallerSteps DEF Abstract!FlushOnceNext
<1> QED BY <1>1, <1>2, FlushInvariant, PTL DEF Spec, FlushesOnce, Abstract!FlushOnceSpec
=============================================================================
