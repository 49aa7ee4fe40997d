----------------------- MODULE GracefulShutdownProofs -----------------------
(* Theorems about GracefulShutdown, for any number of user contexts.       *)
EXTENDS GracefulShutdown, FiniteSetTheorems, TLAPS

-----------------------------------------------------------------------------
(* The inductive invariant                                                 *)

\* Contexts for which shut_down_all_users still waits
Unfinished == {u \in Context : phase[u] \notin {"skipped", "failed", "down"}}

\* Orchestrators whose flush flush_and_exit waits for, though it may be an earlier
\* caller's flush that ends it
Owed ==
  {o \in Orchestrator \ flushed :
     o # Shared => o \notin loop /\ phase[o] \notin {"idle", "skipped"}}

\* The countdown of the users
UsersCounted == users = Cardinality(Unfinished)

\* A context's own call and flush belong to a context that waits for them
ContextCalls ==
  /\ \A u \in Context :
       /\ <<u, "context">> \in pending => phase[u] = "flushing" /\ "context" \notin flusher[u]
       /\ "context" \in flusher[u] =>
            phase[u] = "flushing" \/ (phase[u] = "down" /\ u \in flushed)
       /\ phase[u] = "down" => u \in flushed
  /\ <<Shared, "context">> \notin pending
  /\ "context" \notin flusher[Shared]

\* The daemon calls the contexts the loop has visited, and the shared one after the loop
DaemonCalls ==
  /\ \A o \in Orchestrator :
       <<o, "daemon">> \in pending \/ "daemon" \in flusher[o] =>
         /\ flushing
         /\ o = Shared => ~ looping /\ loop = {}
         /\ o # Shared => o \notin loop /\ phase[o] \notin {"idle", "skipped"}
  /\ Shared \in flushed => "daemon" \in flusher[Shared]

\* The countdown of flush_and_exit does not run ahead of the flushes
FlushesCounted ==
  /\ flushing => Cardinality(Owed) <= remaining /\ remaining <= Cardinality(Orchestrator \ loop)
  /\ ~ flushing => loop = {} /\ remaining = 0 /\ ~ looping

ShutdownInv ==
  /\ UsersCounted
  /\ ContextCalls
  /\ DaemonCalls
  /\ FlushesCounted
  /\ ExitsAfterFlush

-----------------------------------------------------------------------------
(* Finite sets                                                             *)

\* The sets that are counted are finite
LEMMA Finite ==
  ASSUME NEW S \in SUBSET Orchestrator
  PROVE  IsFiniteSet(S) /\ Cardinality(S) \in Nat
         /\ Cardinality(S) <= Cardinality(Orchestrator) /\ Cardinality(Orchestrator) \in Nat
<1>1. IsFiniteSet(Orchestrator)
  BY ShutdownAssumption, FS_AddElement DEF Orchestrator
<1> QED BY <1>1, FS_Subset, FS_CardinalityType

\* Both sets of the counters have orchestrators as elements
LEMMA Counted ==
  Unfinished \in SUBSET Orchestrator /\ Owed \in SUBSET Orchestrator
BY DEF Unfinished, Owed, Orchestrator

\* A context that is not waited for any more is counted off once
LEMMA UserIsCounted ==
  ASSUME TypeOK, UsersCounted, NEW u \in Unfinished, users' = users - 1,
         Unfinished' = Unfinished \ {u}
  PROVE  UsersCounted' /\ users > 0
<1>1. IsFiniteSet(Unfinished) /\ Cardinality(Unfinished) \in Nat
  BY Counted, Finite
<1>2. Cardinality(Unfinished \ {u}) = Cardinality(Unfinished) - 1
  BY <1>1, FS_RemoveElement
<1>3. Cardinality(Unfinished) # 0
  BY <1>1, FS_EmptySet
<1> QED BY <1>1, <1>2, <1>3 DEF UsersCounted

\* A step that neither visits a context in the loop nor undoes a flush adds nothing to
\* what flush_and_exit waits for
LEMMA OwedShrinks ==
  ASSUME loop' = loop, flushed \subseteq flushed',
         \A u \in Context : phase[u] \in {"idle", "skipped"} => phase'[u] \in {"idle", "skipped"}
  PROVE  /\ Owed' \subseteq Owed
         /\ Cardinality(Owed') <= Cardinality(Owed)
<1>1. Owed' \subseteq Owed
  BY DEF Owed, Orchestrator
<1> QED BY <1>1, Counted, Finite, FS_Subset

-----------------------------------------------------------------------------
(* The steps                                                               *)

\* Every step counts the users right
LEMMA UsersStep == TypeOK /\ ShutdownInv /\ [Next]_vars => UsersCounted'
<1> SUFFICES ASSUME TypeOK, UsersCounted, ContextCalls, [Next]_vars PROVE UsersCounted'
  BY DEF ShutdownInv
<1>1. CASE graceful_shut_down
  <2>1. Unfinished' = Unfinished
    BY <1>1 DEF graceful_shut_down, Unfinished, TypeOK
  <2> QED BY <1>1, <2>1 DEF graceful_shut_down, UsersCounted
<1>2. CASE timeout_handler \/ FlushShared \/ UNCHANGED vars
  BY <1>2 DEF timeout_handler, FlushShared, vars, UsersCounted, Unfinished
<1>3. ASSUME NEW u \in Context, _on_p2p_service_shutdown(u) PROVE UsersCounted'
  <2>1. Unfinished' = Unfinished
    BY <1>3 DEF _on_p2p_service_shutdown, Unfinished, TypeOK
  <2> QED BY <1>3, <2>1 DEF _on_p2p_service_shutdown, UsersCounted
<1>4. ASSUME NEW u \in Context, ShutDownAtOnce(u) PROVE UsersCounted'
  <2>1. u \in Unfinished /\ Unfinished' = Unfinished \ {u}
    BY <1>4 DEF ShutDownAtOnce, Unfinished, TypeOK
  <2> QED BY <1>4, <2>1, UserIsCounted DEF ShutDownAtOnce, on_finished
<1>5. ASSUME NEW u \in Context, FlushContext(u) PROVE UsersCounted'
  BY <1>5 DEF FlushContext, UsersCounted, Unfinished
<1>6. ASSUME NEW o \in Orchestrator, FlushCompleted(o) PROVE UsersCounted'
  <2>1. CASE "context" \in flusher[o] /\ phase' = [phase EXCEPT ![o] = "down"] /\ on_finished
    <3>1. o \in Context /\ phase[o] = "flushing"
      BY <1>6, <2>1 DEF FlushCompleted, ContextCalls, Orchestrator
    <3>2. o \in Unfinished /\ Unfinished' = Unfinished \ {o}
      BY <2>1, <3>1 DEF Unfinished, TypeOK
    <3> QED BY <2>1, <3>2, UserIsCounted DEF on_finished
  <2>2. CASE UNCHANGED <<phase, users>>
    BY <2>2 DEF UsersCounted, Unfinished
  <2> QED BY <1>6, <2>1, <2>2 DEF FlushCompleted
<1>7. ASSUME NEW o \in Orchestrator, NEW c \in {"context", "daemon"}, flush(o, c)
      PROVE  UsersCounted'
  BY <1>7 DEF flush, UsersCounted, Unfinished
<1> QED BY <1>1, <1>2, <1>3, <1>4, <1>5, <1>6, <1>7 DEF Next

\* Every step keeps ContextCalls
LEMMA ContextStep == TypeOK /\ ShutdownInv /\ [Next]_vars => ContextCalls'
<1> SUFFICES ASSUME TypeOK, ContextCalls, [Next]_vars PROVE ContextCalls'
  BY DEF ShutdownInv
<1> USE ShutdownAssumption DEF ContextCalls, TypeOK, Orchestrator
<1>1. CASE graceful_shut_down
  BY <1>1 DEF graceful_shut_down
<1>2. CASE timeout_handler \/ UNCHANGED vars
  BY <1>2 DEF timeout_handler, vars
<1>3. CASE FlushShared
  BY <1>3 DEF FlushShared
<1>4. ASSUME NEW u \in Context, _on_p2p_service_shutdown(u) PROVE ContextCalls'
  BY <1>4 DEF _on_p2p_service_shutdown
<1>5. ASSUME NEW u \in Context, ShutDownAtOnce(u) PROVE ContextCalls'
  BY <1>5 DEF ShutDownAtOnce
<1>6. ASSUME NEW u \in Context, FlushContext(u) PROVE ContextCalls'
  BY <1>6 DEF FlushContext
<1>7. ASSUME NEW o \in Orchestrator, FlushCompleted(o) PROVE ContextCalls'
  BY <1>7 DEF FlushCompleted
<1>8. ASSUME NEW o \in Orchestrator, NEW c \in {"context", "daemon"}, flush(o, c)
      PROVE  ContextCalls'
  BY <1>8 DEF flush
<1> QED BY <1>1, <1>2, <1>3, <1>4, <1>5, <1>6, <1>7, <1>8 DEF Next

\* BeginFlushAndExit fills the loop only when nobody has called it before, so that no
\* orchestrator has got a call of the daemon yet
LEMMA BeginKeepsCalls ==
  ASSUME TypeOK, DaemonCalls, BeginFlushAndExit, UNCHANGED <<pending, flusher, flushed>>,
         \A u \in Context :
           phase[u] \notin {"idle", "skipped"} => phase'[u] \notin {"idle", "skipped"}
  PROVE  DaemonCalls'
<1>1. CASE flushing
  BY <1>1 DEF BeginFlushAndExit, DaemonCalls, Orchestrator
<1>2. CASE ~ flushing
  BY <1>2 DEF DaemonCalls
<1> QED BY <1>1, <1>2

\* Every step keeps DaemonCalls
LEMMA DaemonStep == TypeOK /\ ShutdownInv /\ [Next]_vars => DaemonCalls'
<1> SUFFICES ASSUME TypeOK, ContextCalls, DaemonCalls, FlushesCounted, [Next]_vars
             PROVE  DaemonCalls'
  BY DEF ShutdownInv
<1> USE ShutdownAssumption
<1>1. CASE graceful_shut_down
  <2>1. CASE UNCHANGED <<flushing, loop, looping, remaining>>
    BY <1>1, <2>1 DEF graceful_shut_down, DaemonCalls, TypeOK, Orchestrator
  <2>2. CASE BeginFlushAndExit /\ UNCHANGED phase
    BY <1>1, <2>2, BeginKeepsCalls DEF graceful_shut_down
  <2> QED BY <1>1, <2>1, <2>2 DEF graceful_shut_down
<1>2. CASE timeout_handler
  BY <1>2, BeginKeepsCalls DEF timeout_handler
<1>3. CASE FlushShared
  BY <1>3 DEF FlushShared, DaemonCalls, FlushesCounted, Orchestrator, TypeOK
<1>4. ASSUME NEW u \in Context, _on_p2p_service_shutdown(u) PROVE DaemonCalls'
  BY <1>4 DEF _on_p2p_service_shutdown, DaemonCalls, Orchestrator, TypeOK
<1>5. ASSUME NEW u \in Context, ShutDownAtOnce(u) PROVE DaemonCalls'
  <2>1. \A v \in Context :
          phase[v] \notin {"idle", "skipped"} => phase'[v] \notin {"idle", "skipped"}
    BY <1>5 DEF ShutDownAtOnce, TypeOK
  <2>2. UNCHANGED <<pending, flusher, flushed>>
    BY <1>5 DEF ShutDownAtOnce
  <2>3. CASE BeginFlushAndExit
    BY <2>1, <2>2, <2>3, BeginKeepsCalls
  <2>4. CASE UNCHANGED <<flushing, loop, looping, remaining>>
    BY <2>1, <2>2, <2>4 DEF DaemonCalls, Orchestrator
  <2> QED BY <1>5, <2>3, <2>4 DEF ShutDownAtOnce, on_finished
<1>6. ASSUME NEW u \in Context, FlushContext(u) PROVE DaemonCalls'
  <2>1. flushing
    BY <1>6 DEF FlushContext, FlushesCounted
  <2>2. u # Shared
    OBVIOUS
  <2>3. /\ loop' = loop \ {u} /\ UNCHANGED <<phase, flusher, flushed, flushing, looping>>
        /\ pending' \subseteq pending \cup {<<u, "daemon">>}
        /\ phase[u] \in {"idle", "skipped"} => pending' = pending
    BY <1>6 DEF FlushContext
  <2>4. u \in loop
    BY <1>6 DEF FlushContext
  <2> QED BY <2>1, <2>2, <2>3, <2>4 DEF DaemonCalls
<1>7. ASSUME NEW o \in Orchestrator, FlushCompleted(o) PROVE DaemonCalls'
  <2>1. \A v \in Context :
          phase[v] \notin {"idle", "skipped"} => phase'[v] \notin {"idle", "skipped"}
    BY <1>7 DEF FlushCompleted, TypeOK
  <2>2. UNCHANGED <<pending, flusher>> /\ (Shared \in flushed' => "daemon" \in flusher[Shared])
    BY <1>7 DEF FlushCompleted, DaemonCalls, ContextCalls, TypeOK, Orchestrator
  <2>3. CASE BeginFlushAndExit /\ ~ flushing
    BY <2>2, <2>3 DEF DaemonCalls
  <2>4. CASE UNCHANGED <<flushing, loop, looping>>
    BY <2>1, <2>2, <2>4 DEF DaemonCalls, Orchestrator
  <2> QED BY <1>7, <2>3, <2>4 DEF FlushCompleted, on_finished, BeginFlushAndExit
<1>8. ASSUME NEW o \in Orchestrator, NEW c \in {"context", "daemon"}, flush(o, c)
      PROVE  DaemonCalls'
  BY <1>8 DEF flush, DaemonCalls, TypeOK, Orchestrator
<1>9. CASE UNCHANGED vars
  BY <1>9 DEF vars, DaemonCalls
<1> QED BY <1>1, <1>2, <1>3, <1>4, <1>5, <1>6, <1>7, <1>8, <1>9 DEF Next

\* flush_and_exit begins with a count of one, for the shared orchestrator
LEMMA BeginCounts ==
  ASSUME TypeOK, BeginFlushAndExit, ~ flushing
  PROVE  FlushesCounted'
<1> USE ShutdownAssumption
<1>1. flushing' = TRUE /\ loop' = Context /\ remaining' = 1
  BY DEF BeginFlushAndExit
<1>2. Owed' \in SUBSET {Shared}
  BY <1>1 DEF Owed, Orchestrator
<1>3. Orchestrator \ loop' = {Shared}
  BY <1>1 DEF Orchestrator
<1>4. Cardinality(Owed') <= 1 /\ Cardinality({Shared}) = 1
  <2>1. IsFiniteSet({Shared}) /\ Cardinality({Shared}) = 1
    BY FS_Singleton
  <2>2. Cardinality(Owed') <= Cardinality({Shared})
    BY <1>2, <2>1, FS_Subset
  <2> QED BY <2>1, <2>2
<1> QED BY <1>1, <1>3, <1>4 DEF FlushesCounted

\* What is not part of flush_and_exit leaves its count
LEMMA CountKept ==
  ASSUME FlushesCounted, UNCHANGED <<loop, flushing, looping, remaining>>,
         flushed \subseteq flushed',
         \A u \in Context : phase[u] \in {"idle", "skipped"} => phase'[u] \in {"idle", "skipped"},
         remaining \in Nat
  PROVE  FlushesCounted'
<1>1. Cardinality(Owed') <= Cardinality(Owed)
  BY OwedShrinks
<1>2. Cardinality(Owed') \in Nat /\ Cardinality(Owed) \in Nat
  <2>1. Owed' \in SUBSET Orchestrator
    BY DEF Owed
  <2> QED BY <2>1, Counted, Finite
<1> QED BY <1>1, <1>2 DEF FlushesCounted

\* A flush that the daemon has asked for, and that ends, is one of those it waits for
LEMMA FinishedCounts ==
  ASSUME TypeOK, ShutdownInv, NEW o \in Orchestrator, o \notin flushed, "daemon" \in flusher[o],
         flushed' = flushed \cup {o}, UNCHANGED <<phase, loop>>
  PROVE  /\ flushing
         /\ Owed' = Owed \ {o}
         /\ Cardinality(Owed) >= 1
         /\ Cardinality(Owed') = Cardinality(Owed) - 1
<1>1. flushing /\ o \in Owed
  BY DEF ShutdownInv, DaemonCalls, Owed
<1>2. Owed' = Owed \ {o}
  BY DEF Owed
<1>3. IsFiniteSet(Owed) /\ Cardinality(Owed) \in Nat
  BY Counted, Finite
<1>4. Cardinality(Owed) # 0 /\ Cardinality(Owed \ {o}) = Cardinality(Owed) - 1
  BY <1>1, <1>3, FS_EmptySet, FS_RemoveElement
<1> QED BY <1>1, <1>2, <1>3, <1>4

\* Every step keeps the count of flush_and_exit
LEMMA CountStep == TypeOK /\ ShutdownInv /\ [Next]_vars => FlushesCounted'
<1> SUFFICES ASSUME TypeOK, ShutdownInv, [Next]_vars PROVE FlushesCounted'
  OBVIOUS
<1> DEFINE Quiet == \A u \in Context :
                      phase[u] \in {"idle", "skipped"} => phase'[u] \in {"idle", "skipped"}
<1>0. FlushesCounted /\ remaining \in Nat
  <2>1. Cardinality(Orchestrator) \in Nat
    BY Finite
  <2> QED BY <2>1 DEF ShutdownInv, TypeOK
<1>1. ASSUME BeginFlushAndExit, Quiet, flushed \subseteq flushed' PROVE FlushesCounted'
  <2>1. CASE flushing
    BY <1>0, <1>1, <2>1, CountKept DEF BeginFlushAndExit
  <2> QED BY <1>1, <2>1, BeginCounts
<1>2. CASE graceful_shut_down
  <2>1. Quiet /\ flushed' = flushed
    BY <1>2 DEF graceful_shut_down, TypeOK
  <2> QED BY <1>0, <1>1, <1>2, <2>1, CountKept DEF graceful_shut_down
<1>3. CASE timeout_handler
  BY <1>1, <1>3 DEF timeout_handler
<1>4. CASE FlushShared
  <2>1. Cardinality(Owed') <= Cardinality(Owed) /\ Cardinality(Owed') \in Nat
        /\ Cardinality(Owed) \in Nat
    <3>1. Owed' = Owed
      BY <1>4 DEF FlushShared, Owed
    <3> QED BY <3>1, Counted, Finite
  <2> QED BY <1>0, <1>4, <2>1 DEF FlushShared, FlushesCounted
<1>5. ASSUME NEW u \in Context, _on_p2p_service_shutdown(u) PROVE FlushesCounted'
  <2>1. Quiet /\ flushed' = flushed
    BY <1>5 DEF _on_p2p_service_shutdown, TypeOK
  <2> QED BY <1>0, <1>5, <2>1, CountKept DEF _on_p2p_service_shutdown
<1>6. ASSUME NEW u \in Context, ShutDownAtOnce(u) PROVE FlushesCounted'
  <2>1. Quiet /\ flushed' = flushed
    BY <1>6 DEF ShutDownAtOnce, TypeOK
  <2> QED BY <1>0, <1>1, <1>6, <2>1, CountKept DEF ShutDownAtOnce, on_finished
<1>7. ASSUME NEW u \in Context, FlushContext(u) PROVE FlushesCounted'
  <2>1. flushing /\ u \in loop /\ loop' = loop \ {u} /\ u # Shared
        /\ UNCHANGED <<phase, flushed, flushing, looping>>
    BY <1>0, <1>7, ShutdownAssumption DEF FlushContext, FlushesCounted
  <2>2. /\ Orchestrator \ loop' = (Orchestrator \ loop) \cup {u}
        /\ u \notin Orchestrator \ loop
    BY <2>1 DEF Orchestrator
  <2>3. Cardinality(Orchestrator \ loop') = Cardinality(Orchestrator \ loop) + 1
        /\ Cardinality(Orchestrator \ loop) \in Nat
    BY <2>2, Finite, FS_AddElement
  <2>4. Cardinality(Owed) \in Nat /\ IsFiniteSet(Owed)
    BY Counted, Finite
  <2>5. CASE phase[u] \in {"idle", "skipped", "down"}
    <3>1. Owed' = Owed
      BY <2>1, <2>5 DEF Owed, ShutdownInv, ContextCalls, Orchestrator
    <3> QED BY <1>0, <1>7, <2>1, <2>3, <2>4, <2>5, <3>1 DEF FlushContext, FlushesCounted
  <2>6. CASE phase[u] \notin {"idle", "skipped", "down"}
    <3>1. Owed' \subseteq Owed \cup {u}
      BY <2>1 DEF Owed
    <3>2. IsFiniteSet(Owed \cup {u}) /\ Cardinality(Owed \cup {u}) <= Cardinality(Owed) + 1
          /\ Cardinality(Owed \cup {u}) \in Nat
      BY <2>4, FS_AddElement
    <3>3. Cardinality(Owed') <= Cardinality(Owed) + 1
      <4>1. Cardinality(Owed') <= Cardinality(Owed \cup {u}) /\ IsFiniteSet(Owed')
        BY <3>1, <3>2, FS_Subset
      <4> QED BY <2>4, <3>2, <4>1, FS_CardinalityType
    <3>4. Cardinality(Owed') \in Nat
      BY <3>1, <3>2, FS_Subset, FS_CardinalityType
    <3> QED BY <1>0, <1>7, <2>1, <2>3, <2>4, <2>6, <3>3, <3>4 DEF FlushContext, FlushesCounted
  <2> QED BY <2>5, <2>6
<1>8. ASSUME NEW o \in Orchestrator, FlushCompleted(o) PROVE FlushesCounted'
  <2>1. CASE "context" \in flusher[o] /\ phase' = [phase EXCEPT ![o] = "down"] /\ on_finished
    <3>1. o \in Context /\ phase[o] = "flushing"
      BY <1>8, <2>1 DEF FlushCompleted, ShutdownInv, ContextCalls, Orchestrator
    <3>2. Quiet /\ flushed \subseteq flushed'
      BY <1>8, <2>1, <3>1 DEF FlushCompleted, TypeOK
    <3> QED BY <1>0, <1>1, <2>1, <3>2, CountKept DEF on_finished
  <2>2. CASE "daemon" \in flusher[o] /\ finished /\ UNCHANGED <<phase, users, flushing, loop, looping>>
    <3>1. /\ flushing
          /\ Cardinality(Owed) >= 1
          /\ Cardinality(Owed') = Cardinality(Owed) - 1
      BY <1>8, <2>2, FinishedCounts DEF FlushCompleted
    <3>2. Cardinality(Orchestrator \ loop) \in Nat /\ Cardinality(Owed) \in Nat
      BY Counted, Finite
    <3> QED BY <1>0, <2>2, <3>1, <3>2 DEF FlushesCounted, finished
  <2> QED BY <1>8, <2>1, <2>2 DEF FlushCompleted
<1>9. ASSUME NEW o \in Orchestrator, NEW c \in {"context", "daemon"}, flush(o, c)
      PROVE  FlushesCounted'
  BY <1>0, <1>9, CountKept DEF flush
<1>10. CASE UNCHANGED vars
  BY <1>0, <1>10, CountKept DEF vars
<1> QED BY <1>2, <1>3, <1>4, <1>5, <1>6, <1>7, <1>8, <1>9, <1>10 DEF Next

\* The process exits with the last flush that flush_and_exit waits for
LEMMA ExitStep == TypeOK /\ ShutdownInv /\ [Next]_vars => ExitsAfterFlush'
<1> SUFFICES ASSUME TypeOK, ShutdownInv, [Next]_vars PROVE ExitsAfterFlush'
  OBVIOUS
<1>1. CASE exited
  <2>1. UNCHANGED <<exited, flushed>>
        /\ \A u \in Context : phase[u] \in {"idle", "skipped"} => phase'[u] = phase[u]
    BY <1>1 DEF Next, vars, graceful_shut_down, timeout_handler, FlushShared,
           _on_p2p_service_shutdown, ShutDownAtOnce, FlushContext, FlushCompleted, flush, TypeOK
  <2> QED BY <1>1, <2>1 DEF ShutdownInv, ExitsAfterFlush, Orchestrator
<1>2. CASE ~ exited /\ exited'
  <2>1. PICK o \in Orchestrator : FlushCompleted(o)
    BY <1>2 DEF Next, vars, graceful_shut_down, timeout_handler, FlushShared,
           _on_p2p_service_shutdown, ShutDownAtOnce, FlushContext, on_finished, flush
  <2>2. /\ o \notin flushed /\ "daemon" \in flusher[o] /\ finished
        /\ flushed' = flushed \cup {o} /\ UNCHANGED <<phase, loop>>
    BY <1>2, <2>1 DEF FlushCompleted, on_finished
  <2>3. flushing /\ Cardinality(Owed') = Cardinality(Owed) - 1 /\ Cardinality(Owed) >= 1
    BY <2>2, FinishedCounts
  <2>4. Cardinality(Owed) <= 1
    BY <1>2, <2>2, <2>3 DEF finished, ShutdownInv, FlushesCounted
  <2>5. Owed' = {}
    <3>1. Owed' \in SUBSET Orchestrator
      BY DEF Owed
    <3>2. IsFiniteSet(Owed') /\ Cardinality(Owed) \in Nat
      BY <3>1, Counted, Finite
    <3> QED BY <2>3, <2>4, <3>2, FS_EmptySet
  <2>6. Shared \in flushed'
    BY <2>5 DEF Owed, Orchestrator
  <2>7. loop' = {}
    <3>1. "daemon" \in flusher[Shared]
      BY <2>2, <2>6 DEF ShutdownInv, DaemonCalls
    <3> QED BY <2>2, <3>1 DEF ShutdownInv, DaemonCalls, Orchestrator
  <2> QED BY <2>5, <2>6, <2>7 DEF Owed, ExitsAfterFlush
<1> QED BY <1>1, <1>2 DEF ExitsAfterFlush

\* Every step keeps the types; the counters stay within theirs because they are counts
LEMMA TypeStep == TypeOK /\ ShutdownInv /\ [Next]_vars => TypeOK'
<1> SUFFICES ASSUME TypeOK, ShutdownInv, [Next]_vars PROVE TypeOK'
  OBVIOUS
<1>1. users' \in 0 .. Cardinality(Context)
  <2>1. Unfinished' \in SUBSET Context
    BY DEF Unfinished
  <2>2. Cardinality(Unfinished') \in Nat /\ Cardinality(Unfinished') <= Cardinality(Context)
        /\ Cardinality(Context) \in Nat
    BY <2>1, ShutdownAssumption, FS_Subset, FS_CardinalityType
  <2> QED BY <2>2, UsersStep DEF UsersCounted
<1>2. remaining' \in 0 .. Cardinality(Orchestrator)
  <2>1. Owed' \in SUBSET Orchestrator /\ Orchestrator \ loop' \in SUBSET Orchestrator
    BY DEF Owed
  <2>2. /\ Cardinality(Owed') \in Nat
        /\ Cardinality(Orchestrator \ loop') \in Nat
        /\ Cardinality(Orchestrator \ loop') <= Cardinality(Orchestrator)
        /\ Cardinality(Orchestrator) \in Nat
    BY <2>1, Finite
  <2>3. FlushesCounted'
    BY CountStep
  <2>4. remaining' \in Int
    <3>1. remaining \in Int
      BY <2>2 DEF TypeOK
    <3>2. BeginFlushAndExit => remaining' \in Int
      BY <3>1 DEF BeginFlushAndExit
    <3>3. finished => remaining' \in Int
      BY <3>1 DEF finished
    <3>4. \A u \in Context : FlushContext(u) => remaining' \in Int
      BY <3>1 DEF FlushContext
    <3>5. on_finished => remaining' \in Int
      BY <3>1, <3>2 DEF on_finished
    <3> QED BY <3>1, <3>2, <3>3, <3>4, <3>5 DEF Next, vars, graceful_shut_down, timeout_handler,
           FlushShared, _on_p2p_service_shutdown, ShutDownAtOnce, FlushCompleted, flush
  <2> QED BY <2>2, <2>3, <2>4 DEF FlushesCounted
<1>3. /\ flushing' \in BOOLEAN /\ looping' \in BOOLEAN /\ loop' \subseteq Context
      /\ timer' \in {"off", "running", "fired"}
  BY DEF TypeOK, Next, vars, graceful_shut_down, BeginFlushAndExit, timeout_handler,
         FlushShared, _on_p2p_service_shutdown, ShutDownAtOnce, FlushContext, FlushCompleted,
         flush, on_finished
<1>4. exited' \in BOOLEAN
  BY DEF TypeOK, Next, vars, graceful_shut_down, timeout_handler,
         FlushShared, _on_p2p_service_shutdown, ShutDownAtOnce, FlushContext, FlushCompleted,
         flush, on_finished, finished
<1>5. phase' \in [Context -> {"idle", "running", "stopping", "flushing", "failed", "skipped", "down"}]
  <2>1. ASSUME NEW o \in Orchestrator, FlushCompleted(o) PROVE phase' \in
           [Context -> {"idle", "running", "stopping", "flushing", "failed", "skipped", "down"}]
    BY <2>1 DEF FlushCompleted, TypeOK
  <2> QED BY <2>1 DEF TypeOK, Next, vars, graceful_shut_down, timeout_handler,
         FlushShared, _on_p2p_service_shutdown, ShutDownAtOnce, FlushContext, flush
<1>6. pending' \subseteq Orchestrator \X {"context", "daemon"} /\ flushed' \subseteq Orchestrator
  <2>1. ASSUME NEW u \in Context, _on_p2p_service_shutdown(u) \/ FlushContext(u)
        PROVE  pending' \subseteq Orchestrator \X {"context", "daemon"} /\ flushed' = flushed
    BY <2>1 DEF TypeOK, Orchestrator, _on_p2p_service_shutdown, FlushContext
  <2>2. CASE FlushShared
    BY <2>2 DEF TypeOK, Orchestrator, FlushShared
  <2>3. ASSUME NEW o \in Orchestrator, FlushCompleted(o)
        PROVE  pending' = pending /\ flushed' \subseteq Orchestrator
    BY <2>3 DEF TypeOK, FlushCompleted
  <2>4. ASSUME NEW o \in Orchestrator, NEW c \in {"context", "daemon"}, flush(o, c)
        PROVE  pending' \subseteq pending /\ flushed' = flushed
    BY <2>4 DEF flush
  <2>5. ASSUME NEW u \in Context,
               graceful_shut_down \/ timeout_handler \/ ShutDownAtOnce(u) \/ UNCHANGED vars
        PROVE  pending' = pending /\ flushed' = flushed
    BY <2>5 DEF vars, graceful_shut_down, timeout_handler, ShutDownAtOnce
  <2> QED BY <2>1, <2>2, <2>3, <2>4, <2>5, ShutdownAssumption DEF Next, TypeOK
<1>7. flusher' \in [Orchestrator -> SUBSET {"context", "daemon"}]
  <2>1. ASSUME NEW o \in Orchestrator, NEW c \in {"context", "daemon"}, flush(o, c)
        PROVE  flusher' \in [Orchestrator -> SUBSET {"context", "daemon"}]
    BY <2>1 DEF TypeOK, flush
  <2>2. (\E o \in Orchestrator, c \in {"context", "daemon"} : flush(o, c)) \/ flusher' = flusher
    BY DEF Next, vars, graceful_shut_down, timeout_handler, FlushShared,
           _on_p2p_service_shutdown, ShutDownAtOnce, FlushContext, FlushCompleted
  <2> QED BY <2>1, <2>2 DEF TypeOK
<1> QED BY <1>1, <1>2, <1>3, <1>4, <1>5, <1>6, <1>7 DEF TypeOK

\* The invariant of the shutdown holds in every reachable state
THEOREM ShutdownInvariant == Spec => [](TypeOK /\ ShutdownInv)
<1>1. ASSUME Init PROVE TypeOK /\ ShutdownInv
  <2>1. Unfinished = Context /\ Owed \in SUBSET Orchestrator
    BY <1>1 DEF Init, Unfinished, Owed
  <2>2. Cardinality(Context) \in Nat /\ Cardinality(Orchestrator) \in Nat
    BY Finite, ShutdownAssumption, FS_CardinalityType
  <2>3. TypeOK
    <3>1. phase \in [Context -> {"idle", "running", "stopping", "flushing", "failed", "skipped",
                                "down"}]
      BY <1>1 DEF Init
    <3>2. flusher \in [Orchestrator -> SUBSET {"context", "daemon"}]
      BY <1>1 DEF Init
    <3>3. flushing \in BOOLEAN /\ looping \in BOOLEAN /\ exited \in BOOLEAN
      BY <1>1 DEF Init
    <3>4. users \in 0 .. Cardinality(Context) /\ remaining \in 0 .. Cardinality(Orchestrator)
      BY <1>1, <2>2 DEF Init
    <3> QED BY <1>1, <3>1, <3>2, <3>3, <3>4 DEF Init, TypeOK
  <2>4. UsersCounted
    BY <1>1, <2>1 DEF Init, UsersCounted
  <2>5. ContextCalls /\ DaemonCalls /\ FlushesCounted /\ ExitsAfterFlush
    BY <1>1 DEF Init, ContextCalls, DaemonCalls, FlushesCounted, ExitsAfterFlush, Orchestrator
  <2> QED BY <2>3, <2>4, <2>5 DEF ShutdownInv
<1>2. TypeOK /\ ShutdownInv /\ [Next]_vars => TypeOK' /\ ShutdownInv'
  BY TypeStep, UsersStep, ContextStep, DaemonStep, CountStep, ExitStep DEF ShutdownInv
<1> QED BY <1>1, <1>2, PTL DEF Spec

\* The shutdown routine, its users and their orchestrators keep their types: neither
\* countdown falls below zero, whoever flushes first
THEOREM TypeCorrect == Spec => []TypeOK
BY ShutdownInvariant, PTL

\* The process exits only after every orchestrator has carried out a flush, except those
\* of users that were never started, for any number of users
THEOREM FlushedBeforeExit == Spec => []ExitsAfterFlush
<1>1. ShutdownInv => ExitsAfterFlush
  BY DEF ShutdownInv
<1> QED BY <1>1, ShutdownInvariant, PTL
=============================================================================
