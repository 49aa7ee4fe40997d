------------------------ MODULE MailboxMessagesProofs ------------------------
(***************************************************************************)
(* Proofs about MailboxMessages, for any mail and any number of exits and  *)
(* crashes. Three inductive invariants: one of what the map and the list   *)
(* hold, one of the request and the snapshot of the list, one of its file. *)
(***************************************************************************)
EXTENDS MailboxMessages, TLAPS

USE DEF network, list, disk, history, stops

\* What the type invariant needs: the seed nodes hold nothing that has expired
TypeInv ==
  /\ TypeOK
  /\ net \cap expired = {}

LEMMA TypeInit == Init => TypeInv
<1> SUFFICES ASSUME Init PROVE TypeInv
  OBVIOUS
<1>1. exits \in 0 .. MaxExits /\ crashes \in 0 .. MaxCrashes
  BY MailboxAssumption DEF Init
<1> QED
  BY <1>1 DEF Init, TypeInv, TypeOK

LEMMA TypeStep == TypeInv /\ [Next]_vars => TypeInv'
<1> SUFFICES ASSUME TypeInv, [Next]_vars PROVE TypeInv'
  OBVIOUS
<1> USE DEF TypeInv, TypeOK, request_persistence
<1>1. CASE \E m \in Mail : PeerSends(m) \/ PeerRemoves(m)
  BY <1>1 DEF PeerSends, PeerRemoves
<1>2. CASE \E m \in Mail : RemovalArrives(m)
  BY <1>2 DEF RemovalArrives, on_removed
<1>3. CASE \E m \in Mail : Expire(m)
  BY <1>3 DEF Expire, on_removed
<1>4. CASE \E m \in Mail : on_added(m)
  <2> PICK m \in Mail : on_added(m)
    BY <1>4
  <2>1. CASE mode = "ready"
    BY <2>1 DEF on_added, process_single_mailbox_entry, handle_mailbox_item
  <2>2. CASE mode # "ready"
    BY <2>2 DEF on_added
  <2> QED
    BY <2>1, <2>2
<1>5. CASE read_persisted
  BY <1>5 DEF read_persisted, Readable
<1>6. CASE init_after_bootstrapped
  BY <1>6 DEF init_after_bootstrapped, process_single_mailbox_entry, handle_mailbox_item
<1>7. CASE Exit
  <2>1. exits' \in 0 .. MaxExits
    BY <1>7, MailboxAssumption DEF Exit
  <2> QED
    BY <1>7, <2>1 DEF Exit, Ends
<1>8. CASE Crash
  <2>1. crashes' \in 0 .. MaxCrashes
    BY <1>8, MailboxAssumption DEF Crash
  <2> QED
    BY <1>8, <2>1 DEF Crash, Ends
<1>9. CASE \E S \in SUBSET Mail : HandleBatch(S)
  BY <1>9 DEF HandleBatch, handle_mailbox_item
<1>10. CASE BatchFails
  BY <1>10 DEF BatchFails
<1>11. CASE TakeSnapshot \/ clear_timer
  BY <1>11 DEF TakeSnapshot, clear_timer
<1>12. CASE WriteSnapshot
  BY <1>12 DEF WriteSnapshot
<1>13. CASE UNCHANGED vars
  BY <1>13 DEF vars
<1> QED
  BY <1>1, <1>2, <1>3, <1>4, <1>5, <1>6, <1>7, <1>8, <1>9, <1>10, <1>11, <1>12, <1>13
  DEF Next

(***************************************************************************)
(* Every state is of the right type, and the map never holds mail whose TTL *)
(* has passed, although the file that read_persisted puts back into it may. *)
(***************************************************************************)
THEOREM TypeCorrect == Spec => []TypeOK
<1>1. TypeInv => TypeOK
  BY DEF TypeInv
<1> QED
  BY <1>1, TypeInit, TypeStep, PTL DEF Spec

-----------------------------------------------------------------------------
(***************************************************************************)
(* The list and the map. A batch holds what was in the map when its thread  *)
(* was started.                                                            *)
(***************************************************************************)
ListInv ==
  /\ ListFollowsMap
  /\ batch \ Own \subseteq map \cup missed
  /\ mode = "off" => items = {} /\ batch = {} /\ map = {}
  /\ mode \in {"off", "started", "ready"}
  /\ mode # "ready" => batch = {}

LEMMA ListInit == Init => ListInv
BY DEF Init, ListInv, ListFollowsMap

LEMMA ListStep == ListInv /\ [Next]_vars => ListInv'
<1> SUFFICES ASSUME ListInv, [Next]_vars PROVE ListInv'
  OBVIOUS
<1> USE DEF ListInv, ListFollowsMap
<1>1. CASE \E m \in Mail : PeerSends(m) \/ PeerRemoves(m)
  BY <1>1 DEF PeerSends, PeerRemoves
<1>2. CASE \E m \in Mail : RemovalArrives(m) \/ Expire(m)
  BY <1>2 DEF RemovalArrives, Expire, on_removed
<1>4. CASE \E m \in Mail : on_added(m)
  BY <1>4 DEF on_added, process_single_mailbox_entry, handle_mailbox_item, Own
<1>5. CASE read_persisted
  BY <1>5 DEF read_persisted
<1>6. CASE init_after_bootstrapped
  BY <1>6 DEF init_after_bootstrapped, process_single_mailbox_entry, handle_mailbox_item, Own
<1>7. CASE Exit \/ Crash
  BY <1>7 DEF Exit, Crash, Ends
<1>9. CASE \E S \in SUBSET Mail : HandleBatch(S)
  BY <1>9 DEF HandleBatch, handle_mailbox_item
<1>10. CASE BatchFails
  BY <1>10 DEF BatchFails
<1>11. CASE TakeSnapshot \/ clear_timer \/ WriteSnapshot
  BY <1>11 DEF TakeSnapshot, clear_timer, WriteSnapshot
<1>13. CASE UNCHANGED vars
  BY <1>13 DEF vars
<1> QED
  BY <1>1, <1>2, <1>4, <1>5, <1>6, <1>7, <1>9, <1>10, <1>11, <1>13 DEF Next

(***************************************************************************)
(* For other peers' mail the list of a running service follows the map, but *)
(* for removals it could not see and for batches that were not handled.    *)
(***************************************************************************)
THEOREM ListFollows == Spec => []ListFollowsMap
<1>1. ListInv => ListFollowsMap
  BY DEF ListInv
<1> QED
  BY <1>1, ListInit, ListStep, PTL DEF Spec

-----------------------------------------------------------------------------
(***************************************************************************)
(* The request and the snapshot: what the write thread has is the list, or  *)
(* the list was changed since; and a list that differs from its file is     *)
(* being written, has a request, or lost its request to the finally block.  *)
(***************************************************************************)
RequestInv ==
  /\ mode = "off" => writing = {}
  /\ writing # {} /\ ~late => writing = {items}
  /\ mode # "off" /\ writing = {} /\ ~requested /\ ~late => file = items
  /\ requested \in BOOLEAN /\ late \in BOOLEAN

LEMMA RequestInit == Init => RequestInv
BY DEF Init, RequestInv

LEMMA RequestStep == RequestInv /\ [Next]_vars => RequestInv'
<1> SUFFICES ASSUME RequestInv, [Next]_vars PROVE RequestInv'
  OBVIOUS
<1> USE DEF RequestInv, request_persistence
<1>1. CASE \E m \in Mail : PeerSends(m) \/ PeerRemoves(m)
  BY <1>1 DEF PeerSends, PeerRemoves
<1>2. CASE \E m \in Mail : RemovalArrives(m) \/ Expire(m)
  BY <1>2 DEF RemovalArrives, Expire, on_removed
<1>4. CASE \E m \in Mail : on_added(m)
  BY <1>4 DEF on_added, process_single_mailbox_entry, handle_mailbox_item
<1>5. CASE read_persisted
  BY <1>5 DEF read_persisted
<1>6. CASE init_after_bootstrapped
  BY <1>6 DEF init_after_bootstrapped, process_single_mailbox_entry, handle_mailbox_item
<1>7. CASE Exit \/ Crash
  BY <1>7 DEF Exit, Crash, Ends
<1>9. CASE \E S \in SUBSET Mail : HandleBatch(S)
  BY <1>9 DEF HandleBatch, handle_mailbox_item
<1>10. CASE BatchFails
  BY <1>10 DEF BatchFails
<1>11. CASE TakeSnapshot \/ clear_timer \/ WriteSnapshot
  BY <1>11 DEF TakeSnapshot, clear_timer, WriteSnapshot
<1>13. CASE UNCHANGED vars
  BY <1>13 DEF vars
<1> QED
  BY <1>1, <1>2, <1>4, <1>5, <1>6, <1>7, <1>9, <1>10, <1>11, <1>13 DEF Next

\* Only an exit counts exits
LEMMA OnlyExitCounts == ASSUME Next, exits' # exits PROVE Exit
BY DEF Next, PeerSends, PeerRemoves, RemovalArrives, Expire, on_added, read_persisted,
       init_after_bootstrapped, Crash, HandleBatch, BatchFails, TakeSnapshot, clear_timer,
       WriteSnapshot

(***************************************************************************)
(* A regular exit leaves the list in its file, unless the list was changed  *)
(* while its last snapshot was being written.                              *)
(***************************************************************************)
THEOREM ExitWrites == Spec => ExitWritesList
<1>1. RequestInv /\ [Next]_vars
        => [mode = "ready" /\ exits' # exits => file' = items \/ late]_vars
  <2> SUFFICES ASSUME RequestInv, Next, mode = "ready", exits' # exits, ~late
               PROVE file' = items
    BY DEF vars
  <2>1. Exit
    BY OnlyExitCounts
  <2> QED
    BY <2>1 DEF Exit, RequestInv
<1> QED
  BY <1>1, RequestInit, RequestStep, PTL DEF Spec, ExitWritesList

-----------------------------------------------------------------------------
(***************************************************************************)
(* The file, the snapshot and the list: each of them holds what the one     *)
(* before it holds, but for mail that is gone.                             *)
(***************************************************************************)
Gone == expired \cup removed \cup Large

FileInv ==
  /\ mode = "off" => writing = {}
  /\ mode # "off" => file \ Gone \subseteq items
  /\ \A S \in writing : file \ Gone \subseteq S /\ S \ Gone \subseteq items

LEMMA FileInit == Init => FileInv
BY DEF Init, FileInv

LEMMA FileStep == FileInv /\ [Next]_vars => FileInv'
<1> SUFFICES ASSUME FileInv, [Next]_vars PROVE FileInv'
  OBVIOUS
<1> USE DEF FileInv, Gone
<1>1. CASE \E m \in Mail : PeerSends(m) \/ PeerRemoves(m)
  BY <1>1 DEF PeerSends, PeerRemoves
<1>2. CASE \E m \in Mail : RemovalArrives(m)
  BY <1>2 DEF RemovalArrives, on_removed
<1>3. CASE \E m \in Mail : Expire(m)
  BY <1>3 DEF Expire, on_removed
<1>4. CASE \E m \in Mail : on_added(m)
  BY <1>4 DEF on_added, process_single_mailbox_entry, handle_mailbox_item
<1>5. CASE read_persisted
  BY <1>5 DEF read_persisted, Readable
<1>6. CASE init_after_bootstrapped
  BY <1>6 DEF init_after_bootstrapped, process_single_mailbox_entry, handle_mailbox_item
<1>7. CASE Exit \/ Crash
  BY <1>7 DEF Exit, Crash, Ends
<1>9. CASE \E S \in SUBSET Mail : HandleBatch(S)
  BY <1>9 DEF HandleBatch, handle_mailbox_item
<1>10. CASE BatchFails
  BY <1>10 DEF BatchFails
<1>11. CASE TakeSnapshot \/ clear_timer
  BY <1>11 DEF TakeSnapshot, clear_timer
<1>12. CASE WriteSnapshot
  BY <1>12 DEF WriteSnapshot
<1>13. CASE UNCHANGED vars
  BY <1>13 DEF vars
<1> QED
  BY <1>1, <1>2, <1>3, <1>4, <1>5, <1>6, <1>7, <1>9, <1>10, <1>11, <1>12, <1>13 DEF Next

\* Only the write thread and an exit change the file
LEMMA OnlyWritersWrite == ASSUME Next, file' # file PROVE WriteSnapshot \/ Exit
BY DEF Next, PeerSends, PeerRemoves, RemovalArrives, Expire, on_added, read_persisted,
       init_after_bootstrapped, Crash, HandleBatch, BatchFails, TakeSnapshot, clear_timer

(***************************************************************************)
(* No write drops mail of normal size from the file that has neither        *)
(* expired nor been removed, whatever exits, crashes and restarts there are.*)
(***************************************************************************)
THEOREM FileKeeps == Spec => FileKeepsMail
<1>1. FileInv /\ [Next]_vars
        => [\A m \in file \ file' : m \in expired \cup removed \cup Large]_vars
  <2> SUFFICES ASSUME FileInv, Next, NEW m \in file, m \notin file'
               PROVE m \in Gone
    BY DEF vars, Gone
  <2>1. CASE WriteSnapshot
    BY <2>1 DEF WriteSnapshot, FileInv
  <2>2. CASE Exit
    BY <2>2 DEF Exit, Ends, FileInv
  <2> QED
    BY <2>1, <2>2, OnlyWritersWrite
<1> QED
  BY <1>1, FileInit, FileStep, PTL DEF Spec, FileKeepsMail
=============================================================================
