--------------------------- MODULE MailboxMessages ---------------------------
(***************************************************************************)
(* MailboxMessageService (core/network/p2p/mailbox) of a client and the map *)
(* of its P2PDataStorage: mail that peers left in the network is taken in, *)
(* decrypted (a batch, at the start, in a thread of its own), kept in a    *)
(* local list, and the list is written to a file that the next start reads *)
(* back into the map.                                                      *)
(*                                                                         *)
(* Two things end the handling of mail that is the client's own. A trade   *)
(* message, and an AckMessage, is no MailboxMessage, so check_argument     *)
(* raises after it was decrypted. Any other own message is listed, and then *)
(* the first listener that is a plain function raises (SupportManager and  *)
(* PrivateNotificationManager register one, on_mailbox_message_added is    *)
(* called). What the service would do next, the removal from the network   *)
(* and what the consumers of the mail do, is not reached.                  *)
(*                                                                         *)
(* Sequence numbers and signatures are those of P2PDataStorage; sending is *)
(* the subject of TradePayment.                                            *)
(***************************************************************************)
EXTENDS Naturals, FiniteSets

CONSTANTS
  Mail,         \* the mail peers may put into the network
  TradeMail,    \* trade messages and AckMessages to this client
  SupportMail,  \* its other mail: support messages, private notifications
  Large,        \* mail whose entry has 20_000 bytes or more
  MaxExits,     \* bound: regular exits
  MaxCrashes    \* bound: exits that flush nothing

Own == TradeMail \cup SupportMail

ASSUME MailboxAssumption ==
  /\ Own \cup Large \subseteq Mail
  /\ TradeMail \cap SupportMail = {}
  /\ IsFiniteSet(Mail)
  /\ MaxExits \in Nat /\ MaxCrashes \in Nat

VARIABLES
  sent,      \* mail the peers have put into the network
  expired,   \* mail whose TTL has passed
  net,       \* mail the seed nodes hold
  mode,      \* "off", "started" (persisted data read) or "ready" (bootstrapped)
  map,       \* mail in the map of the P2PDataStorage
  items,     \* mailbox_items_by_uid, and mailbox_message_list with it
  batch,     \* the entries that the thread of the batch processing decrypts
  requested, \* persistence_requested of the list's PersistenceManager
  timer,     \* its timer: "none", "armed" (in the end) or "fired" (not cleared yet)
  writing,   \* {S} while the write thread writes the snapshot S, else {}
  file,      \* MailboxMessageList on disk
  removed,   \* history: mail whose removal this node has applied
  missed,    \* history: mail that left the map when the service did not listen, or
             \*   while it was being decrypted, since the start
  dropped,   \* history: mail of a batch that was not handled, since the start
  late,      \* history: the list was changed while its last snapshot was written
  exits,     \* exits so far
  crashes    \* crashes so far

network == <<sent, expired, net>>
list == <<items, requested, timer, late>>
disk == <<writing, file>>
history == <<removed, missed, dropped>>
stops == <<exits, crashes>>
vars == <<sent, expired, net, mode, map, items, batch, requested, timer, writing, file,
          removed, missed, dropped, late, exits, crashes>>

(* The types; and that nothing which has expired is in the map, although    *)
(* the file still holds it when it is read back.                            *)
TypeOK ==
  /\ sent \subseteq Mail
  /\ expired \subseteq sent
  /\ net \subseteq sent
  /\ mode \in {"off", "started", "ready"}
  /\ map \subseteq sent \ expired
  /\ items \subseteq sent
  /\ batch \subseteq sent
  /\ requested \in BOOLEAN /\ late \in BOOLEAN
  /\ timer \in {"none", "armed", "fired"}
  /\ \A S \in writing : S \subseteq sent
  /\ file \subseteq sent
  /\ removed \subseteq sent
  /\ missed \subseteq sent
  /\ dropped \subseteq sent
  /\ exits \in 0 .. MaxExits /\ crashes \in 0 .. MaxCrashes

Init ==
  /\ sent = {} /\ expired = {} /\ net = {}
  /\ mode = "off"
  /\ map = {} /\ items = {} /\ batch = {}
  /\ requested = FALSE /\ timer = "none" /\ writing = {} /\ file = {}
  /\ removed = {} /\ missed = {} /\ dropped = {} /\ late = FALSE
  /\ exits = 0 /\ crashes = 0

-----------------------------------------------------------------------------
\* The parts that the actions share

\* request_persistence arms the timer unless there is one
request_persistence(changed) ==
  /\ requested' = (requested \/ changed)
  /\ timer' = IF changed /\ timer = "none" THEN "armed" ELSE timer
  /\ late' = (late \/ (changed /\ writing # {}))

\* handle_mailbox_item for each of S
handle_mailbox_item(S) ==
  /\ items' = items \cup S
  /\ request_persistence(~(S \subseteq items))

\* process_single_mailbox_entry: trade mail raises before it is listed, support mail
\* afterwards
process_single_mailbox_entry(S) == handle_mailbox_item(S \ TradeMail)

\* m leaves the map: on_removed, if the service listens. It knows the uids of other
\* peers' mail only
on_removed(m) ==
  /\ map' = map \ {m}
  /\ items' = IF mode = "ready" /\ m \in map \ Own THEN items \ {m} ELSE items
  /\ request_persistence(items' # items)
  /\ missed' = IF m \in map \ Own /\ (m \in batch \/ (mode = "started" /\ m \in items))
               THEN missed \cup {m} ELSE missed

-----------------------------------------------------------------------------
\* The network

PeerSends(m) ==
  /\ m \notin sent
  /\ sent' = sent \cup {m}
  /\ net' = net \cup {m}
  /\ UNCHANGED <<expired, mode, map, batch, list, disk, history, stops>>

\* The receiver of another peer's mail removes it from the network
PeerRemoves(m) ==
  /\ m \in net \ Own
  /\ net' = net \ {m}
  /\ UNCHANGED <<sent, expired, mode, map, batch, list, disk, history, stops>>

\* ... and if this node runs the removal may reach it (P2PDataStorage.remove)
RemovalArrives(m) ==
  /\ mode # "off"
  /\ m \in sent \ (net \cup expired \cup removed)
  /\ removed' = removed \cup {m}
  /\ on_removed(m)
  /\ UNCHANGED <<network, mode, batch, disk, dropped, stops>>

\* Every node drops an entry at the end of its TTL
Expire(m) ==
  /\ m \in sent \ expired
  /\ expired' = expired \cup {m}
  /\ net' = net \ {m}
  /\ on_removed(m)
  /\ UNCHANGED <<sent, mode, batch, disk, removed, dropped, stops>>

-----------------------------------------------------------------------------
\* Start and stop

\* Which persisted items read_persisted takes
MutantReadsAll(m) == m \notin Large
Readable(m) == m \notin expired /\ m \notin Large

\* read_persisted puts them into the list and into the map of the P2PDataStorage
MutantMapOnly ==
  /\ mode = "off"
  /\ mode' = "started"
  /\ map' = {m \in file : Readable(m)}
  /\ UNCHANGED items
  /\ request_persistence(TRUE)
  /\ UNCHANGED <<network, batch, disk, history, stops>>
read_persisted ==
  /\ mode = "off"
  /\ mode' = "started"
  /\ items' = {m \in file : Readable(m)}
  /\ map' = items'
  /\ request_persistence(TRUE)
  /\ UNCHANGED <<network, batch, disk, history, stops>>

\* The service begins to listen, and on_added gets all that the map holds
MutantBatchOnly ==
  /\ mode = "started"
  /\ mode' = "ready"
  /\ batch' = IF Cardinality(map) > 1 THEN map ELSE batch
  /\ UNCHANGED <<network, map, list, disk, history, stops>>
init_after_bootstrapped ==
  /\ mode = "started"
  /\ mode' = "ready"
  /\ IF Cardinality(map) > 1
       THEN batch' = map /\ UNCHANGED list
       ELSE process_single_mailbox_entry(map) /\ UNCHANGED batch
  /\ UNCHANGED <<network, map, disk, history, stops>>

\* What a process that ends leaves behind in memory
Ends ==
  /\ mode # "off"
  /\ mode' = "off"
  /\ map' = {} /\ items' = {} /\ batch' = {}
  /\ requested' = FALSE /\ timer' = "none" /\ writing' = {} /\ late' = FALSE
  /\ missed' = {} /\ dropped' = {}
  /\ UNCHANGED <<network, removed>>

\* A regular exit. Once the services are up its flush writes the list (PRIVATE_LOW_PRIO)
\* if that is requested; without a request it only waits for the write thread
MutantNoWait ==
  /\ exits < MaxExits
  /\ exits' = exits + 1
  /\ \/ requested /\ file' = items
     \/ (mode = "ready" => ~requested) /\ file' = file
  /\ Ends
  /\ UNCHANGED crashes
Exit ==
  /\ exits < MaxExits
  /\ exits' = exits + 1
  /\ \/ requested /\ file' = items
     \/ /\ mode = "ready" => ~requested
        /\ file' \in IF writing = {} THEN {file} ELSE writing
  /\ Ends
  /\ UNCHANGED crashes

Crash ==
  /\ crashes < MaxCrashes
  /\ crashes' = crashes + 1
  /\ Ends
  /\ UNCHANGED <<file, exits>>

-----------------------------------------------------------------------------
\* Mail at run time

\* An entry arrives: before the service listens it only fills the map
on_added(m) ==
  /\ mode # "off"
  /\ m \in net \ map
  /\ map' = map \cup {m}
  /\ IF mode = "ready" THEN process_single_mailbox_entry({m}) ELSE UNCHANGED list
  /\ UNCHANGED <<network, mode, batch, disk, history, stops>>

\* The decrypted items of the batch come back to the UserThread, which goes through
\* them in any order up to the first own one, whose listener raises
HandleBatch(S) ==
  /\ batch # {} /\ batch \cap TradeMail = {}
  /\ S \subseteq batch
  /\ \/ S = batch /\ batch \cap SupportMail = {}
     \/ \E own \in batch \cap SupportMail : S \cap SupportMail = {own}
  /\ batch' = {}
  /\ handle_mailbox_item(S)
  /\ dropped' = dropped \cup (batch \ S)
  /\ UNCHANGED <<network, mode, map, disk, removed, missed, stops>>

\* on_failure of the batch, which only logs: one trade message in it is enough
BatchFails ==
  /\ batch \cap TradeMail # {}
  /\ batch' = {}
  /\ dropped' = dropped \cup batch
  /\ UNCHANGED <<network, mode, map, list, disk, removed, missed, stops>>

\* persist_now, a minute after the timer was armed: the snapshot goes to the write thread
TakeSnapshot ==
  /\ mode # "off" /\ timer = "armed" /\ writing = {}
  /\ timer' = "fired"
  /\ writing' = {items}
  /\ late' = FALSE
  /\ UNCHANGED <<network, mode, map, items, batch, requested, file, history, stops>>

clear_timer ==
  /\ timer = "fired"
  /\ timer' = "none"
  /\ UNCHANGED <<network, mode, map, items, batch, requested, late, disk, history, stops>>

\* write_to_disk: its finally block clears the request, also one made in the meantime
WriteSnapshot ==
  /\ writing # {}
  /\ file' \in writing
  /\ writing' = {}
  /\ requested' = FALSE
  /\ UNCHANGED <<network, mode, map, items, batch, timer, late, history, stops>>

-----------------------------------------------------------------------------
Next ==
  \/ \E m \in Mail : \/ PeerSends(m) \/ PeerRemoves(m) \/ RemovalArrives(m)
                     \/ Expire(m) \/ on_added(m)
  \/ read_persisted \/ init_after_bootstrapped
  \/ Exit \/ Crash
  \/ \E S \in SUBSET Mail : HandleBatch(S)
  \/ BatchFails
  \/ TakeSnapshot \/ clear_timer \/ WriteSnapshot

Spec == Init /\ [][Next]_vars

-----------------------------------------------------------------------------
(***************************************************************************)
(* The list of a running service follows the map for other peers' mail: it *)
(* holds what is in the map, unless its batch was not handled, and nothing *)
(* else, unless a removal came before the service listened or while the    *)
(* thread had the entry. Four histories meet here: the file, the start,    *)
(* the thread and the network.                                             *)
(***************************************************************************)
ListFollowsMap ==
  /\ items \ Own \subseteq map \cup missed
  /\ mode = "ready" => map \ Own \subseteq items \cup batch \cup dropped

(***************************************************************************)
(* A regular exit leaves the list of a running service in its file, with   *)
(* one exception: a change made after a snapshot was taken and before the  *)
(* finally block of its write. That block takes the request for the change *)
(* back (persistence_manager.py), and the flush at exit skips the list.    *)
(***************************************************************************)
ExitWritesList ==
  [][mode = "ready" /\ exits' # exits => file' = items \/ late]_vars

(***************************************************************************)
(* What has once been written is not written away: over any number of      *)
(* exits, crashes and restarts mail of normal size leaves the file only if *)
(* it has expired or its removal has come.                                 *)
(***************************************************************************)
FileKeepsMail ==
  [][\A m \in file \ file' : m \in expired \cup removed \cup Large]_vars
=============================================================================
