--------------------------- MODULE P2PDataStorage ---------------------------
(***************************************************************************)
(* The replicated store of signed, expiring payloads that every node of    *)
(* the Bisq network keeps (core/network/p2p/storage/p2p_data_storage.py).  *)
(* An owner publishes, refreshes and removes a payload with messages that  *)
(* carry a growing sequence number; every node applies the messages it     *)
(* gets, in whatever order they arrive, and forwards what it accepts.      *)
(*                                                                         *)
(* Time is kept as ages (now - time stamp): every comparison in the code   *)
(* is between an age and a limit, so an age saturates one past its limit   *)
(* and no bound on the length of a run is needed.                          *)
(*                                                                         *)
(* Payloads of MailboxStoragePayload (AddOnce) are handled here; of the    *)
(* service that lists and reloads them (MailboxMessages) only the file is   *)
(* kept. A message the filter or a full connection refuses is one that is  *)
(* not delivered.                                                          *)
(***************************************************************************)
EXTENDS Integers, FiniteSets

CONSTANTS
  Node,          \* the nodes; a node stands for its address and signature key
  Payload,       \* the payloads; a payload stands for its 32 byte hash
  OwnerOnline,   \* payloads that are RequiresOwnerIsOnlinePayload (offers)
  AddOnce,       \* payloads that are AddOncePayload (mailbox messages)
  Persistable,   \* payloads that are PersistablePayload (DAO proposals)
  Adder,         \* Adder[h]: the key that may add h (owner, or mailbox sender)
  Remover,       \* Remover[h]: the key that may remove h (owner, or receiver)
  Ttl,           \* Ttl[h]: get_ttl() of h, in ticks
  RemovedTtl,    \* MailboxStoragePayload.TTL: how long a removal is remembered
  PurgeAge,      \* PURGE_AGE_DAYS
  MaxSequenceNumberMapSize,  \* max_sequence_number_map_size_before_purge
  MaxDelay,      \* bound: ticks after which an undelivered message is lost
  MaxSeq,        \* bound: the highest sequence number an owner signs
  MaxCrashes,    \* bound: number of crashes
  None           \* no entry, no record

ASSUME ConstantsAssumption ==
  /\ OwnerOnline \subseteq Payload
  /\ AddOnce \subseteq Payload \ OwnerOnline
  /\ Persistable \subseteq Payload \ (OwnerOnline \cup AddOnce)
  /\ Adder \in [Payload -> Node]
  /\ Remover \in [Payload -> Node]
  /\ \A h \in Payload \ AddOnce : Remover[h] = Adder[h]
  /\ Ttl \in [Payload -> Nat]
  /\ RemovedTtl \in Nat
  /\ PurgeAge \in Nat
  /\ MaxSequenceNumberMapSize \in Nat
  /\ MaxDelay \in Nat
  /\ MaxSeq \in Nat
  /\ MaxCrashes \in Nat

VARIABLES
  map,       \* map[n][h]: the ProtectedStorageEntry of h at node n
  seqNrs,    \* seqNrs[n][h]: sequence_number_map, number and age of its stamp
  removed,   \* removed[n][h]: removed_payloads_map, age of the first removal
  store,     \* store[n][h]: protected_data_store_service (persistable payloads)
  disk,      \* disk[n]: what the files of the three stores of n contain, and
             \*   the mailbox list that MailboxMessageService keeps in a fourth
  msgs,      \* broadcast messages in flight: lost, repeated and reordered
  crashes,   \* number of crashes so far
  seen       \* history, seen[n][h]: the number of the last removal of h that n
             \*   applied since the owner of h began to count at 1; 0 if none

vars == <<map, seqNrs, removed, store, disk, msgs, crashes, seen>>

Seqs == 1 .. MaxSeq
Entry == [seq : Seqs, age : Nat, owner : Node]
SeqRecord == [nr : Seqs, age : Nat]
Message == [type : {"add", "refresh", "remove"}, payload : Payload,
            seq : Seqs, age : Nat, owner : Node]

\* None is none of the values it stands beside
ASSUME NoneAssumption == None \notin Entry /\ None \notin SeqRecord /\ None \notin Nat

EntryMap == [Payload -> Entry \cup {None}]
SeqMap == [Payload -> SeqRecord \cup {None}]
RemovedMap == [Payload -> Nat \cup {None}]
Files == [seqNrs : SeqMap, removed : RemovedMap, store : EntryMap, list : EntryMap]

(* The payloads whose numbers are remembered for longer than a copy lives:  *)
(* offers (9 minutes, against PURGE_AGE_DAYS = 10), not DAO proposals (60   *)
(* days). Only for these can the owner rely on its own record.              *)
Supersedable == {h \in Payload \ AddOnce : Ttl[h] + MaxDelay + 1 < PurgeAge}

TypeOK ==
  /\ map \in [Node -> EntryMap]
  /\ seqNrs \in [Node -> SeqMap]
  /\ removed \in [Node -> RemovedMap]
  /\ store \in [Node -> EntryMap]
  /\ disk \in [Node -> Files]
  /\ msgs \subseteq Message
  /\ crashes \in Nat
  /\ seen \in [Node -> [Payload -> 0 .. MaxSeq]]

EmptyMap == [h \in Payload |-> None]

Init ==
  /\ map = [n \in Node |-> EmptyMap]
  /\ seqNrs = [n \in Node |-> EmptyMap]
  /\ removed = [n \in Node |-> EmptyMap]
  /\ store = [n \in Node |-> EmptyMap]
  /\ disk = [n \in Node |-> [seqNrs |-> EmptyMap, removed |-> EmptyMap,
                             store |-> EmptyMap, list |-> EmptyMap]]
  /\ msgs = {}
  /\ crashes = 0
  /\ seen = [n \in Node |-> [h \in Payload |-> 0]]

-----------------------------------------------------------------------------
(* The checks of an entry                                                  *)

is_expired(h, e) == e.age > Ttl[h]

\* Signature and key: an entry signed by anyone else is refused
is_valid_for_add_operation(h, e) == e.owner = Adder[h]
is_valid_for_remove_operation(h, e) == e.owner = Remover[h]

\* A mailbox entry is compared by its receivers key, which is part of the payload
matches_relevant_pub_key(h, e, stored) == h \in AddOnce \/ e.owner = stored.owner

has_sequence_nr_increased(n, h, seq) ==
  seqNrs[n][h] # None => seq > seqNrs[n][h].nr

\* Equal is allowed: payloads that are not persisted come back from peers
MutantNeverTooLow(n, h, seq) == FALSE
SequenceNrTooLow(n, h, seq) ==
  seqNrs[n][h] # None /\ seq < seqNrs[n][h].nr

has_already_removed_add_once_payload(n, h) ==
  h \in AddOnce /\ removed[n][h] # None

\* The sequence number a node signs next, from its own record
NextSeq(n, h) == IF seqNrs[n][h] = None THEN 1 ELSE seqNrs[n][h].nr + 1

AsEntry(m) == [seq |-> m.seq, age |-> m.age, owner |-> m.owner]
AsMessage(type, h, e) ==
  [type |-> type, payload |-> h, seq |-> e.seq, age |-> e.age, owner |-> e.owner]
NewEntry(n, h) == [seq |-> NextSeq(n, h), age |-> 0, owner |-> n]

MutantRecordIfAbsent(n, h, seq) ==
  seqNrs' = IF seqNrs[n][h] # None THEN seqNrs
            ELSE [seqNrs EXCEPT ![n][h] = [nr |-> seq, age |-> 0]]
RecordSeqNr(n, h, seq) ==
  seqNrs' = [seqNrs EXCEPT ![n][h] = [nr |-> seq, age |-> 0]]

\* History: a node without a record signs number 1, and its numbering starts over
Renumbered(n, h) ==
  IF seqNrs[n][h] # None THEN seen
  ELSE [p \in Node |-> [seen[p] EXCEPT ![h] = 0]]

\* History: the node n applies the removal seq of h
WithSeen(f, n, h, seq) == IF h \in Supersedable THEN [f EXCEPT ![n][h] = seq] ELSE f

-----------------------------------------------------------------------------
(* The operations of the store. Each is the whole method: its early returns *)
(* are the guard, and a call that returns early leaves the state alone.     *)

MutantAddAgain(n, h, e) ==
  /\ map[n][h] # None => has_sequence_nr_increased(n, h, e.seq)
  /\ ~ is_expired(h, e)
  /\ ~ SequenceNrTooLow(n, h, e.seq)
  /\ is_valid_for_add_operation(h, e)
CanAdd(n, h, e) ==
  /\ map[n][h] # None => has_sequence_nr_increased(n, h, e.seq)
  /\ ~ has_already_removed_add_once_payload(n, h)
  /\ ~ is_expired(h, e)
  /\ ~ SequenceNrTooLow(n, h, e.seq)
  /\ is_valid_for_add_operation(h, e)
  /\ map[n][h] # None => matches_relevant_pub_key(h, e, map[n][h])

add_protected_storage_entry(n, h, e) ==
  /\ CanAdd(n, h, e)
  /\ map' = [map EXCEPT ![n][h] = e]
  /\ RecordSeqNr(n, h, e.seq)
  /\ store' = IF h \in Persistable THEN [store EXCEPT ![n][h] = e] ELSE store
  /\ msgs' = msgs \cup {AsMessage("add", h, e)}
  /\ UNCHANGED <<removed, disk, crashes>>

\* The map is written before the listeners are called and the number recorded. The
\* listener of the receiver of a mailbox entry raises (MailboxMessages), so the rest of
\* the method, the record and the broadcast included, does not happen
AddRaises(n, h, e) ==
  /\ h \in AddOnce
  /\ n = Remover[h]
  /\ CanAdd(n, h, e)
  /\ map' = [map EXCEPT ![n][h] = e]
  /\ UNCHANGED <<seqNrs, removed, store, disk, msgs, crashes>>

\* The refreshed entry is a new one, created now, with the stored owner
refresh_ttl(n, h, seq, m) ==
  /\ map[n][h] # None
  /\ LET updated == [seq |-> seq, age |-> 0, owner |-> map[n][h].owner]
     IN /\ has_sequence_nr_increased(n, h, seq)
        /\ m.owner = updated.owner
        /\ is_valid_for_add_operation(h, updated)
        /\ map' = [map EXCEPT ![n][h] = updated]
  /\ RecordSeqNr(n, h, seq)
  /\ msgs' = msgs \cup {m}
  /\ UNCHANGED <<removed, store, disk, crashes>>

MutantKeepStore(n, hs) ==
  /\ map' = [map EXCEPT ![n] = [h \in Payload |-> IF h \in hs THEN None ELSE @[h]]]
  /\ UNCHANGED store
remove_from_map_and_data_store(n, hs) ==
  /\ map' = [map EXCEPT ![n] = [h \in Payload |-> IF h \in hs THEN None ELSE @[h]]]
  /\ store' = [store EXCEPT ![n] = [h \in Payload |->
                IF h \in hs \cap Persistable THEN None ELSE @[h]]]

\* An entry that is not stored is still recorded, and the removal forwarded
remove(n, h, e) ==
  /\ has_sequence_nr_increased(n, h, e.seq)
  /\ is_valid_for_remove_operation(h, e)
  /\ map[n][h] # None => matches_relevant_pub_key(h, e, map[n][h])
  /\ RecordSeqNr(n, h, e.seq)
  /\ removed' = IF h \in AddOnce /\ removed[n][h] = None
                THEN [removed EXCEPT ![n][h] = 0] ELSE removed
  /\ remove_from_map_and_data_store(n, {h} \cap {g \in Payload : map[n][g] # None})
  /\ msgs' = msgs \cup {AsMessage("remove", h, e)}
  /\ UNCHANGED <<disk, crashes>>

MutantPurgeAfterOneTick(seqMap) ==
  [h \in Payload |-> IF seqMap[h] # None /\ seqMap[h].age < 1 THEN seqMap[h] ELSE None]
PurgedSeqNrs(seqMap) ==
  [h \in Payload |-> IF seqMap[h] # None /\ seqMap[h].age < PurgeAge
                     THEN seqMap[h] ELSE None]

Expired(n) == {h \in Payload : map[n][h] # None /\ is_expired(h, map[n][h])}

SeqNrCount(n) == Cardinality({h \in Payload : seqNrs[n][h] # None})

\* The periodic task: drop what has expired, and purge the numbers if too many
remove_expired_entries(n) ==
  /\ remove_from_map_and_data_store(n, Expired(n))
  /\ seqNrs' = IF SeqNrCount(n) > MaxSequenceNumberMapSize
               THEN [seqNrs EXCEPT ![n] = PurgedSeqNrs(seqNrs[n])]
               ELSE seqNrs
  /\ UNCHANGED <<removed, disk, msgs, crashes, seen>>

MutantRenew(h, e) == [e EXCEPT !.age = 0]
MutantForwardDate(h, e) == [e EXCEPT !.age = e.age - Ttl[h] \div 2]
back_date(h, e) ==
  [e EXCEPT !.age = IF e.age + Ttl[h] \div 2 > Ttl[h] THEN Ttl[h] + 1
                    ELSE e.age + Ttl[h] \div 2]

\* The connection of node n to peer p closed unintentionally
on_disconnect(n, p) ==
  /\ map' = [map EXCEPT ![n] = [h \in Payload |->
       IF map[n][h] # None /\ h \in OwnerOnline /\ Adder[h] = p
       THEN back_date(h, map[n][h]) ELSE map[n][h]]]
  /\ UNCHANGED <<seqNrs, removed, store, disk, msgs, crashes, seen>>

-----------------------------------------------------------------------------
(* What the node's application asks for, and what its peers send            *)

\* P2PService.add_protected_storage_entry / MailboxMessageService.add_mailbox_data
PublishAdd(n, h) ==
  /\ NextSeq(n, h) <= MaxSeq
  /\ add_protected_storage_entry(n, h, NewEntry(n, h))
  /\ seen' = Renumbered(n, h)

\* P2PService.refresh_ttl, called for offers only (offer_book_service.refresh_ttl)
PublishRefresh(n, h) ==
  /\ h \in OwnerOnline
  /\ NextSeq(n, h) <= MaxSeq
  /\ refresh_ttl(n, h, NextSeq(n, h), AsMessage("refresh", h, NewEntry(n, h)))
  /\ seen' = Renumbered(n, h)

\* P2PService.remove_data; a mailbox entry is only removed while it is stored
PublishRemove(n, h) ==
  /\ h \in AddOnce => map[n][h] # None
  /\ NextSeq(n, h) <= MaxSeq
  /\ remove(n, h, NewEntry(n, h))
  /\ seen' = WithSeen(Renumbered(n, h), n, h, NextSeq(n, h))

OnAddData(n, m) ==
  /\ m.type = "add"
  /\ \/ add_protected_storage_entry(n, m.payload, AsEntry(m))
     \/ AddRaises(n, m.payload, AsEntry(m))
  /\ UNCHANGED seen

OnRefreshOffer(n, m) ==
  /\ m.type = "refresh"
  /\ refresh_ttl(n, m.payload, m.seq, m)
  /\ UNCHANGED seen

OnRemoveData(n, m) ==
  /\ m.type = "remove"
  /\ remove(n, m.payload, AsEntry(m))
  /\ seen' = WithSeen(seen, n, m.payload, m.seq)

on_message(n, m) == OnAddData(n, m) \/ OnRefreshOffer(n, m) \/ OnRemoveData(n, m)

-----------------------------------------------------------------------------
(* Persistence and restart                                                 *)

\* Each store has a PersistenceManager of its own, which writes a snapshot later
PersistSeqNrs(n) ==
  /\ disk' = [disk EXCEPT ![n].seqNrs = seqNrs[n]]
  /\ UNCHANGED <<map, seqNrs, removed, store, msgs, crashes, seen>>

PersistRemoved(n) ==
  /\ disk' = [disk EXCEPT ![n].removed = removed[n]]
  /\ UNCHANGED <<map, seqNrs, removed, store, msgs, crashes, seen>>

PersistStore(n) ==
  /\ disk' = [disk EXCEPT ![n].store = store[n]]
  /\ UNCHANGED <<map, seqNrs, removed, store, msgs, crashes, seen>>

\* The mailbox service lists an entry it is told of, or one it has is removed: its
\* file follows when it is written, if the service saw the change (MailboxMessages)
ListMail(n, h) ==
  /\ h \in AddOnce
  /\ map[n][h] # None
  /\ disk' = [disk EXCEPT ![n].list[h] = map[n][h]]
  /\ UNCHANGED <<map, seqNrs, removed, store, msgs, crashes, seen>>

UnlistMail(n, h) ==
  /\ disk' = [disk EXCEPT ![n].list[h] = None]
  /\ UNCHANGED <<map, seqNrs, removed, store, msgs, crashes, seen>>

Unexpired(removedMap) ==
  [h \in Payload |-> IF removedMap[h] # None /\ removedMap[h] < RemovedTtl
                     THEN removedMap[h] ELSE None]

\* add_protected_mailbox_storage_entry_to_map, for each entry of the list that has not
\* expired: it asks neither for a removal nor for a number
Reloaded(list) ==
  [h \in Payload |-> IF h \in AddOnce /\ list[h] # None /\ ~ is_expired(h, list[h])
                     THEN list[h] ELSE None]

\* read_persisted of the stores: the map starts from the persisted payloads
ReadPersisted(n, files) ==
  /\ seqNrs' = [seqNrs EXCEPT ![n] = PurgedSeqNrs(files.seqNrs)]
  /\ removed' = [removed EXCEPT ![n] = Unexpired(files.removed)]
  /\ store' = [store EXCEPT ![n] = files.store]
  /\ map' = [map EXCEPT ![n] = [h \in Payload |->
       IF h \in AddOnce THEN Reloaded(files.list)[h] ELSE files.store[h]]]

\* Shut down with flush_all_data_to_disk, then start again
Restart(n) ==
  LET files == [seqNrs |-> seqNrs[n], removed |-> removed[n],
                store |-> store[n], list |-> disk[n].list]
  IN /\ disk' = [disk EXCEPT ![n] = files]
     /\ ReadPersisted(n, files)
     /\ UNCHANGED <<msgs, crashes, seen>>

\* Die, losing what was not written yet, then start again. A regular exit ends like
\* this for a store whose request got lost in a write (PersistenceManager)
Crash(n) ==
  /\ crashes < MaxCrashes
  /\ crashes' = crashes + 1
  /\ ReadPersisted(n, disk[n])
  /\ UNCHANGED <<disk, msgs, seen>>

-----------------------------------------------------------------------------
(* Time: every age grows, up to one past the last value that matters        *)

Older(age, limit) == IF age > limit THEN age ELSE age + 1

OlderEntries(entries) ==
  [h \in Payload |-> IF entries[h] = None THEN None
                     ELSE [entries[h] EXCEPT !.age = Older(@, Ttl[h])]]
OlderSeqNrs(records) ==
  [h \in Payload |-> IF records[h] = None THEN None
                     ELSE [records[h] EXCEPT !.age = Older(@, PurgeAge)]]
OlderRemoved(dates) ==
  [h \in Payload |-> IF dates[h] = None THEN None ELSE Older(dates[h], RemovedTtl)]
\* An entry of the list that has expired is never read again
OlderFiles(files) ==
  [seqNrs |-> OlderSeqNrs(files.seqNrs), removed |-> OlderRemoved(files.removed),
   store |-> OlderEntries(files.store), list |-> Reloaded(OlderEntries(files.list))]

\* The expiry task runs every CHECK_TTL_INTERVAL_SEC (60 s); a tick is longer, so
\* none passes before what has expired is gone
Tick ==
  /\ \A n \in Node : Expired(n) = {}
  /\ map' = [n \in Node |-> OlderEntries(map[n])]
  /\ seqNrs' = [n \in Node |-> OlderSeqNrs(seqNrs[n])]
  /\ removed' = [n \in Node |-> OlderRemoved(removed[n])]
  /\ store' = [n \in Node |-> OlderEntries(store[n])]
  /\ disk' = [n \in Node |-> OlderFiles(disk[n])]
  /\ msgs' = {[m EXCEPT !.age = @ + 1] : m \in {o \in msgs : o.age < MaxDelay}}
  /\ UNCHANGED <<crashes, seen>>

-----------------------------------------------------------------------------
Next ==
  \/ \E n \in Node, h \in Payload :
       \/ PublishAdd(n, h) \/ PublishRefresh(n, h) \/ PublishRemove(n, h)
       \/ ListMail(n, h) \/ UnlistMail(n, h)
  \/ \E n \in Node, m \in msgs : on_message(n, m)
  \/ \E n \in Node : \/ remove_expired_entries(n)
                     \/ \E p \in Node \ {n} : on_disconnect(n, p)
                     \/ PersistSeqNrs(n) \/ PersistRemoved(n) \/ PersistStore(n)
                     \/ Restart(n) \/ Crash(n)
  \/ Tick

Spec == Init /\ [][Next]_vars

\* Time passes whatever else happens (disconnects and replays keep disabling Tick,
\* so the fairness is strong) and the expiry task runs; nobody has to publish
FairSpec == Spec /\ SF_vars(Tick) /\ \A n \in Node : WF_vars(remove_expired_entries(n))

-----------------------------------------------------------------------------
(* Safety                                                                  *)

(* The persisted copy of a payload and the copy in the map never part:      *)
(* whatever adds, removes, expires or reloads one does so for both          *)
(* (add_protected_storage_entry, remove_from_map_and_data_store), also when *)
(* a crash separates what the files contain.                                *)
StoreMirrorsMap ==
  \A n \in Node, h \in Payload :
    store[n][h] = IF h \in Persistable THEN map[n][h] ELSE None

(* A stored entry is the last operation the node has applied to it: as long *)
(* as the number is remembered (not purged), it is that of the entry. With  *)
(* crashes the files of the two maps may differ, so this is for clean runs; *)
(* a mailbox entry may be in the map without a record of its number.        *)
EntryIsLatestOperation ==
  \A n \in Node, h \in Payload \ AddOnce :
    map[n][h] # None /\ seqNrs[n][h] # None => map[n][h].seq = seqNrs[n][h].nr

(* A removal is final for the version it removed: a node that has once      *)
(* applied it (seen, which no later message can overwrite) stores no entry  *)
(* that is not newer, in whatever order messages arrive and whatever was    *)
(* purged in between (the "stale Add" case described in remove()).          *)
NoResurrection ==
  \A n \in Node, h \in Supersedable :
    map[n][h] # None => map[n][h].seq > seen[n][h]

(* The owner can always supersede what it published: no copy anywhere in    *)
(* the network has a number above the owner's own record, so what the owner *)
(* signs next (get_protected_storage_entry) is newer than every copy.       *)
OwnerSupersedes ==
  \A n \in Node, h \in Supersedable :
    map[n][h] # None => map[n][h].seq < NextSeq(Adder[h], h)

(* A mailbox message that was removed comes back in one way only: as long   *)
(* as a node remembers the removal (removed_payloads_map), no message with  *)
(* whatever number, and no step of a running node, puts a copy into its     *)
(* map. A start does, if the file of the mailbox list still has it.         *)
RemovedMailOnlyReloaded ==
  [][\A n \in Node, h \in AddOnce :
       removed'[n][h] # None /\ map[n][h] = None /\ map'[n][h] # None
       => (Restart(n) \/ Crash(n)) /\ disk[n].list[h] # None]_vars

(* Liveness                                                                *)

(* An offer whose owner no longer publishes or refreshes it disappears from *)
(* every node for good, even if no removal was ever sent or received.       *)
UnrefreshedOfferVanishes ==
  \A h \in OwnerOnline :
    <>[][\A n \in Node : ~ PublishAdd(n, h) /\ ~ PublishRefresh(n, h)]_vars
    => <>[](\A n \in Node : map[n][h] = None)
=============================================================================
