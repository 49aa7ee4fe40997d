------------------------ MODULE P2PDataStorageProofs ------------------------
(* Theorems about P2PDataStorage, for all nodes, payloads and bounds.       *)
EXTENDS P2PDataStorage, TLAPS

\* What the node n signs next for h has the type of an entry, within the bound
LEMMA NewEntryType ==
  ASSUME TypeOK, NEW n \in Node, NEW h \in Payload, NextSeq(n, h) <= MaxSeq
  PROVE  NewEntry(n, h) \in Entry
BY ConstantsAssumption, NoneAssumption
   DEF TypeOK, NewEntry, NextSeq, Entry, Seqs, SeqMap, SeqRecord

\* The type of the history of removals
SeenOK == seen \in [Node -> [Payload -> 0 .. MaxSeq]]

\* Starting a numbering over and applying a removal keep the type of the history
LEMMA SeenTypes ==
  ASSUME TypeOK, NEW n \in Node, NEW h \in Payload
  PROVE  /\ Renumbered(n, h) \in [Node -> [Payload -> 0 .. MaxSeq]]
         /\ \A f \in [Node -> [Payload -> 0 .. MaxSeq]], seq \in Seqs :
              WithSeen(f, n, h, seq) \in [Node -> [Payload -> 0 .. MaxSeq]]
<1>1. Renumbered(n, h) \in [Node -> [Payload -> 0 .. MaxSeq]]
  BY ConstantsAssumption DEF TypeOK, Renumbered
<1>2. ASSUME NEW f \in [Node -> [Payload -> 0 .. MaxSeq]], NEW seq \in Seqs
      PROVE  WithSeen(f, n, h, seq) \in [Node -> [Payload -> 0 .. MaxSeq]]
  <2>1. seq \in 0 .. MaxSeq
    BY ConstantsAssumption DEF Seqs
  <2> QED BY <2>1 DEF WithSeen
<1> QED BY <1>1, <1>2

\* Accepting an entry keeps the types
LEMMA AddType ==
  ASSUME TypeOK, SeenOK', NEW n \in Node, NEW h \in Payload, NEW e \in Entry,
         add_protected_storage_entry(n, h, e)
  PROVE  TypeOK'
<1> USE ConstantsAssumption, NoneAssumption
<1>1. map' \in [Node -> EntryMap]
  BY DEF TypeOK, add_protected_storage_entry, EntryMap
<1>2. seqNrs' \in [Node -> SeqMap]
  BY DEF TypeOK, add_protected_storage_entry, RecordSeqNr, SeqMap, SeqRecord, Entry
<1>3. store' \in [Node -> EntryMap]
  BY DEF TypeOK, add_protected_storage_entry, EntryMap
<1>4. msgs' \subseteq Message
  BY DEF TypeOK, add_protected_storage_entry, AsMessage, Message, Entry
<1> QED BY <1>1, <1>2, <1>3, <1>4 DEF TypeOK, SeenOK, add_protected_storage_entry

\* An entry whose listener raised is in the map, and nothing else has changed
LEMMA RaisesType ==
  ASSUME TypeOK, SeenOK', NEW n \in Node, NEW h \in Payload, NEW e \in Entry,
         AddRaises(n, h, e)
  PROVE  TypeOK'
BY DEF TypeOK, SeenOK, AddRaises, EntryMap

\* Accepting a refresh keeps the types
LEMMA RefreshType ==
  ASSUME TypeOK, SeenOK', NEW n \in Node, NEW h \in Payload, NEW seq \in Seqs,
         NEW m \in Message, refresh_ttl(n, h, seq, m)
  PROVE  TypeOK'
<1> USE ConstantsAssumption, NoneAssumption
<1>1. map[n][h] \in Entry
  BY DEF TypeOK, EntryMap, refresh_ttl
<1>2. map' \in [Node -> EntryMap]
  BY <1>1 DEF TypeOK, refresh_ttl, EntryMap, Entry
<1>3. seqNrs' \in [Node -> SeqMap]
  BY DEF TypeOK, refresh_ttl, RecordSeqNr, SeqMap, SeqRecord
<1> QED BY <1>2, <1>3 DEF TypeOK, SeenOK, refresh_ttl

\* Dropping any set of payloads keeps the types of the map and of the store
LEMMA DropType ==
  ASSUME TypeOK, NEW n \in Node, NEW hs, remove_from_map_and_data_store(n, hs)
  PROVE  map' \in [Node -> EntryMap] /\ store' \in [Node -> EntryMap]
BY NoneAssumption DEF TypeOK, remove_from_map_and_data_store, EntryMap

\* Accepting a removal keeps the types
LEMMA RemoveType ==
  ASSUME TypeOK, SeenOK', NEW n \in Node, NEW h \in Payload, NEW e \in Entry, remove(n, h, e)
  PROVE  TypeOK'
<1> USE ConstantsAssumption, NoneAssumption
<1>1. map' \in [Node -> EntryMap] /\ store' \in [Node -> EntryMap]
  BY DropType DEF remove
<1>2. seqNrs' \in [Node -> SeqMap]
  BY DEF TypeOK, remove, RecordSeqNr, SeqMap, SeqRecord, Entry
<1>3. removed' \in [Node -> RemovedMap]
  BY DEF TypeOK, remove, RemovedMap
<1>4. msgs' \subseteq Message
  BY DEF TypeOK, remove, AsMessage, Message, Entry
<1> QED BY <1>1, <1>2, <1>3, <1>4 DEF TypeOK, SeenOK, remove

\* The expiry task, with its purge of old numbers, keeps the types
LEMMA ExpireType ==
  ASSUME TypeOK, NEW n \in Node, remove_expired_entries(n)
  PROVE  TypeOK'
<1> USE ConstantsAssumption, NoneAssumption
<1>1. map' \in [Node -> EntryMap] /\ store' \in [Node -> EntryMap]
  BY DropType DEF remove_expired_entries
<1>2. seqNrs' \in [Node -> SeqMap]
  BY DEF TypeOK, remove_expired_entries, PurgedSeqNrs, SeqMap
<1> QED BY <1>1, <1>2 DEF TypeOK, remove_expired_entries

\* Backdating the entries of a disconnected owner keeps the types
LEMMA DisconnectType ==
  ASSUME TypeOK, NEW n \in Node, NEW p \in Node, on_disconnect(n, p)
  PROVE  TypeOK'
<1> USE ConstantsAssumption, NoneAssumption
<1>1. ASSUME NEW h \in Payload, NEW e \in Entry
      PROVE  back_date(h, e) \in Entry
  BY <1>1 DEF back_date, Entry
<1>2. \A h \in Payload : map[n][h] # None => back_date(h, map[n][h]) \in Entry
  BY <1>1 DEF TypeOK, EntryMap
<1>3. map' \in [Node -> EntryMap]
  BY <1>2 DEF TypeOK, on_disconnect, EntryMap
<1> QED BY <1>3 DEF TypeOK, on_disconnect

\* What is read back from well-typed files is well typed
LEMMA ReadPersistedType ==
  ASSUME TypeOK, NEW n \in Node,
         NEW files \in Files,
         ReadPersisted(n, files)
  PROVE  /\ map' \in [Node -> EntryMap]
         /\ seqNrs' \in [Node -> SeqMap]
         /\ removed' \in [Node -> RemovedMap]
         /\ store' \in [Node -> EntryMap]
<1> USE ConstantsAssumption, NoneAssumption
<1>1. PurgedSeqNrs(files.seqNrs) \in SeqMap
  BY DEF PurgedSeqNrs, SeqMap, Files
<1>2. Unexpired(files.removed) \in RemovedMap
  BY DEF Unexpired, RemovedMap, Files
<1>3. files.store \in EntryMap /\ Reloaded(files.list) \in EntryMap
  BY DEF Reloaded, EntryMap, Files
<1>4. [h \in Payload |-> IF h \in AddOnce THEN Reloaded(files.list)[h] ELSE files.store[h]]
        \in EntryMap
  BY <1>3 DEF EntryMap
<1> QED BY <1>1, <1>2, <1>3, <1>4 DEF TypeOK, ReadPersisted

\* Letting time pass keeps the types of the maps
LEMMA OlderTypes ==
  /\ \A entries \in EntryMap : OlderEntries(entries) \in EntryMap
  /\ \A records \in SeqMap : OlderSeqNrs(records) \in SeqMap
  /\ \A dates \in RemovedMap : OlderRemoved(dates) \in RemovedMap
<1> USE ConstantsAssumption, NoneAssumption
<1>1. ASSUME NEW entries \in EntryMap PROVE OlderEntries(entries) \in EntryMap
  <2>1. ASSUME NEW h \in Payload, entries[h] # None
        PROVE  [entries[h] EXCEPT !.age = Older(@, Ttl[h])] \in Entry
    <3>1. entries[h] \in Entry
      BY <2>1 DEF EntryMap
    <3> QED BY <3>1 DEF Entry, Older
  <2> QED BY <2>1 DEF OlderEntries, EntryMap
<1>2. ASSUME NEW records \in SeqMap PROVE OlderSeqNrs(records) \in SeqMap
  <2>1. ASSUME NEW h \in Payload, records[h] # None
        PROVE  [records[h] EXCEPT !.age = Older(@, PurgeAge)] \in SeqRecord
    <3>1. records[h] \in SeqRecord
      BY <2>1 DEF SeqMap
    <3> QED BY <3>1 DEF SeqRecord, Older
  <2> QED BY <2>1 DEF OlderSeqNrs, SeqMap
<1>3. ASSUME NEW dates \in RemovedMap PROVE OlderRemoved(dates) \in RemovedMap
  BY <1>3 DEF OlderRemoved, RemovedMap, Older
<1> QED BY <1>1, <1>2, <1>3

\* The passing of time keeps the types
LEMMA TickType ==
  ASSUME TypeOK, Tick PROVE TypeOK'
<1> USE ConstantsAssumption, NoneAssumption
<1>1. map' \in [Node -> EntryMap] /\ store' \in [Node -> EntryMap]
  BY OlderTypes DEF TypeOK, Tick
<1>2. seqNrs' \in [Node -> SeqMap] /\ removed' \in [Node -> RemovedMap]
  BY OlderTypes DEF TypeOK, Tick
<1>3. disk' \in [Node -> Files]
  <2>1. ASSUME NEW f \in Files PROVE OlderFiles(f) \in Files
    <3>1. /\ f.seqNrs \in SeqMap /\ f.removed \in RemovedMap
          /\ f.store \in EntryMap /\ f.list \in EntryMap
      BY DEF Files
    <3>2. OlderEntries(f.list) \in EntryMap
      BY <3>1, OlderTypes
    <3>3. Reloaded(OlderEntries(f.list)) \in EntryMap
      BY <3>2 DEF Reloaded, EntryMap
    <3> QED BY <3>1, <3>3, OlderTypes DEF OlderFiles, Files
  <2> QED BY <2>1 DEF TypeOK, Tick
<1>4. msgs' \subseteq Message
  <2>1. ASSUME NEW m \in Message PROVE [m EXCEPT !.age = @ + 1] \in Message
    BY DEF Message
  <2> QED BY <2>1 DEF TypeOK, Tick
<1> QED BY <1>1, <1>2, <1>3, <1>4 DEF TypeOK, Tick

(* Every map of every node keeps its type: what is received, restored from  *)
(* the files or aged by time is an entry, a record or a date.               *)
THEOREM TypeCorrect == Spec => []TypeOK
<1> USE ConstantsAssumption, NoneAssumption
<1>1. Init => TypeOK
  BY DEF Init, TypeOK, EmptyMap, EntryMap, SeqMap, RemovedMap, Files
<1>2. TypeOK /\ [Next]_vars => TypeOK'
  <2> SUFFICES ASSUME TypeOK, [Next]_vars PROVE TypeOK'
    OBVIOUS
  <2>1. CASE UNCHANGED vars
    BY <2>1 DEF TypeOK, vars
  <2>2. ASSUME NEW n \in Node, NEW h \in Payload, PublishAdd(n, h)
        PROVE  TypeOK'
    <3>1. SeenOK'
      BY <2>2, SeenTypes DEF PublishAdd, SeenOK
    <3> QED BY <2>2, <3>1, NewEntryType, AddType DEF PublishAdd
  <2>3. ASSUME NEW n \in Node, NEW h \in Payload, PublishRefresh(n, h)
        PROVE  TypeOK'
    <3>1. NewEntry(n, h) \in Entry
      BY <2>3, NewEntryType DEF PublishRefresh
    <3>2. AsMessage("refresh", h, NewEntry(n, h)) \in Message
      BY <3>1 DEF AsMessage, Message, Entry
    <3>3. NextSeq(n, h) \in Seqs
      BY <3>1 DEF NewEntry, Entry
    <3>4. SeenOK'
      BY <2>3, SeenTypes DEF PublishRefresh, SeenOK
    <3> QED BY <2>3, <3>2, <3>3, <3>4, RefreshType DEF PublishRefresh
  <2>4. ASSUME NEW n \in Node, NEW h \in Payload, PublishRemove(n, h)
        PROVE  TypeOK'
    <3>1. NewEntry(n, h) \in Entry
      BY <2>4, NewEntryType DEF PublishRemove
    <3>2. NextSeq(n, h) \in Seqs
      BY <3>1 DEF NewEntry, Entry
    <3>3. SeenOK'
      BY <2>4, <3>2, SeenTypes DEF PublishRemove, SeenOK
    <3> QED BY <2>4, <3>1, <3>3, RemoveType DEF PublishRemove
  <2>5. ASSUME NEW n \in Node, NEW m \in msgs, on_message(n, m)
        PROVE  TypeOK'
    <3>1. m \in Message /\ m.payload \in Payload /\ m.seq \in Seqs /\ AsEntry(m) \in Entry
      BY DEF TypeOK, Message, AsEntry, Entry
    <3>2. SeenOK'
      <4>1. SeenOK
        BY DEF TypeOK, SeenOK
      <4>2. CASE seen' = seen
        BY <4>1, <4>2 DEF SeenOK
      <4>3. CASE seen' = WithSeen(seen, n, m.payload, m.seq)
        BY <3>1, <4>1, <4>3, SeenTypes DEF SeenOK
      <4> QED BY <2>5, <4>2, <4>3 DEF on_message, OnAddData, OnRefreshOffer, OnRemoveData
    <3> QED BY <2>5, <3>1, <3>2, AddType, RaisesType, RefreshType, RemoveType
            DEF on_message, OnAddData, OnRefreshOffer, OnRemoveData
  <2>6. ASSUME NEW n \in Node, remove_expired_entries(n) PROVE TypeOK'
    BY <2>6, ExpireType
  <2>7. ASSUME NEW n \in Node, NEW p \in Node, on_disconnect(n, p) PROVE TypeOK'
    BY <2>7, DisconnectType
  <2>8. ASSUME NEW n \in Node, PersistSeqNrs(n) \/ PersistRemoved(n) \/ PersistStore(n)
        PROVE  TypeOK'
    <3>1. UNCHANGED <<map, seqNrs, removed, store, msgs, crashes, seen>>
      BY <2>8 DEF PersistSeqNrs, PersistRemoved, PersistStore
    <3>2. disk' \in [Node -> Files]
      <4>1. CASE PersistSeqNrs(n)
        BY <4>1 DEF PersistSeqNrs, TypeOK, Files
      <4>2. CASE PersistRemoved(n)
        BY <4>2 DEF PersistRemoved, TypeOK, Files
      <4>3. CASE PersistStore(n)
        BY <4>3 DEF PersistStore, TypeOK, Files
      <4> QED BY <2>8, <4>1, <4>2, <4>3
    <3> QED BY <3>1, <3>2 DEF TypeOK
  <2>9. ASSUME NEW n \in Node, Restart(n) PROVE TypeOK'
    <3> DEFINE files == [seqNrs |-> seqNrs[n], removed |-> removed[n],
                         store |-> store[n], list |-> disk[n].list]
    <3>1. files \in Files
      BY DEF TypeOK, Files
    <3>2. ReadPersisted(n, files) /\ disk' = [disk EXCEPT ![n] = files]
          /\ UNCHANGED <<msgs, crashes, seen>>
      BY <2>9 DEF Restart
    <3> HIDE DEF files
    <3> QED BY <3>1, <3>2, ReadPersistedType DEF TypeOK
  <2>10. ASSUME NEW n \in Node, Crash(n) PROVE TypeOK'
    <3>1. disk[n] \in Files
      BY DEF TypeOK
    <3>2. ReadPersisted(n, disk[n])
      BY <2>10 DEF Crash
    <3> QED BY <2>10, <3>1, <3>2, ReadPersistedType DEF TypeOK, Crash
  <2>11. CASE Tick
    BY <2>11, TickType
  <2>12. ASSUME NEW n \in Node, NEW h \in Payload, ListMail(n, h) \/ UnlistMail(n, h)
         PROVE  TypeOK'
    <3>1. UNCHANGED <<map, seqNrs, removed, store, msgs, crashes, seen>>
      BY <2>12 DEF ListMail, UnlistMail
    <3>2. map[n][h] \in Entry \cup {None}
      BY DEF TypeOK, EntryMap
    <3>3. PICK v : v \in Entry \cup {None} /\ disk' = [disk EXCEPT ![n].list[h] = v]
      BY <2>12, <3>2 DEF ListMail, UnlistMail
    <3>4. disk[n] \in Files /\ [disk[n].list EXCEPT ![h] = v] \in EntryMap
      BY <3>3 DEF TypeOK, Files, EntryMap
    <3>5. [disk[n] EXCEPT !.list = [disk[n].list EXCEPT ![h] = v]] \in Files
      BY <3>4 DEF Files
    <3>6. disk' = [disk EXCEPT ![n] = [disk[n] EXCEPT !.list = [disk[n].list EXCEPT ![h] = v]]]
      BY <3>3
    <3>7. disk' \in [Node -> Files]
      BY <3>5, <3>6 DEF TypeOK
    <3> QED BY <3>1, <3>7 DEF TypeOK
  <2> QED BY <2>1, <2>2, <2>3, <2>4, <2>5, <2>6, <2>7, <2>8, <2>9, <2>10, <2>11, <2>12 DEF Next
<1> QED BY <1>1, <1>2, PTL DEF Spec

-----------------------------------------------------------------------------
(* The inductive invariant behind the ordering properties, for runs without *)
(* crashes. h ranges over the payloads whose number outlives their copies.  *)

\* A message in flight was signed by the owner, whose record is at least as new
MessagesAreSigned ==
  \A m \in msgs : m.payload \in Supersedable =>
    /\ m.owner = Adder[m.payload]
    /\ m.age <= MaxDelay
    /\ seqNrs[m.owner][m.payload] # None
    /\ m.seq <= seqNrs[m.owner][m.payload].nr
    /\ seqNrs[m.owner][m.payload].age <= m.age

\* A number is signed for one kind of operation only
SignedOnce ==
  \A m1, m2 \in msgs :
    /\ m1.payload \in Supersedable
    /\ m1.payload = m2.payload
    /\ m1.seq = m2.seq
    /\ m1.type = "remove"
    => m2.type = "remove"

\* A copy is not newer than the owner's record, which is younger than the copy
CopiesFollowOwner ==
  \A n \in Node, h \in Supersedable : map[n][h] # None =>
    /\ map[n][h].owner = Adder[h]
    /\ map[n][h].age <= Ttl[h] + 1
    /\ seqNrs[Adder[h]][h] # None
    /\ map[n][h].seq <= seqNrs[Adder[h]][h].nr
    /\ seqNrs[Adder[h]][h].age <= map[n][h].age + MaxDelay

\* The owner counts on from every removal; a message not newer than a removal that a node
\* has applied finds the record of that removal there, or a newer one
RemovalsCovered ==
  \A n \in Node, h \in Supersedable :
    /\ seqNrs[Adder[h]][h] # None => seen[n][h] <= seqNrs[Adder[h]][h].nr
    /\ \A m \in msgs : m.payload = h =>
         /\ m.seq <= seen[n][h] => /\ seqNrs[n][h] # None
                                  /\ seen[n][h] <= seqNrs[n][h].nr
                                  /\ seqNrs[n][h].age <= m.age
         /\ m.type # "remove" => m.seq # seen[n][h]

\* Only offers are refreshed, so a refresh never leaves the persisted copy behind
RefreshedAreOffers ==
  \A m \in msgs : m.type = "refresh" => m.payload \in OwnerOnline

\* The inductive invariant of the runs without crashes
OrderInv ==
  /\ TypeOK
  /\ StoreMirrorsMap
  /\ RefreshedAreOffers
  /\ EntryIsLatestOperation
  /\ MessagesAreSigned
  /\ SignedOnce
  /\ CopiesFollowOwner
  /\ RemovalsCovered
  /\ NoResurrection

(* Storing one entry, or none, under one hash: the pointwise view of the    *)
(* operations that the rest of the proof reasons with.                      *)
Becomes(f, g, n, h, v) ==
  \A p \in Node, q \in Payload : g[p][q] = IF p = n /\ q = h THEN v ELSE f[p][q]

\* EXCEPT at one node and one hash is the pointwise change Becomes
LEMMA ExceptBecomes ==
  ASSUME NEW S, NEW f \in [Node -> [Payload -> S]], NEW n \in Node, NEW h \in Payload, NEW v
  PROVE  Becomes(f, [f EXCEPT ![n][h] = v], n, h, v)
BY DEF Becomes

\* add_protected_storage_entry changes the map, the numbers and the store at one hash
LEMMA AddBecomes ==
  ASSUME TypeOK, NEW n \in Node, NEW h \in Payload, NEW e \in Entry,
         add_protected_storage_entry(n, h, e)
  PROVE  /\ Becomes(map, map', n, h, e)
         /\ Becomes(seqNrs, seqNrs', n, h, [nr |-> e.seq, age |-> 0])
         /\ h \in Persistable => Becomes(store, store', n, h, e)
         /\ h \notin Persistable => store' = store
BY ExceptBecomes DEF TypeOK, EntryMap, SeqMap, add_protected_storage_entry, RecordSeqNr

\* refresh_ttl changes the map and the numbers at one hash
LEMMA RefreshBecomes ==
  ASSUME TypeOK, NEW n \in Node, NEW h \in Payload, NEW seq \in Seqs, NEW m \in Message,
         refresh_ttl(n, h, seq, m)
  PROVE  /\ Becomes(map, map', n, h, [seq |-> seq, age |-> 0, owner |-> map[n][h].owner])
         /\ Becomes(seqNrs, seqNrs', n, h, [nr |-> seq, age |-> 0])
BY ExceptBecomes DEF TypeOK, EntryMap, SeqMap, refresh_ttl, RecordSeqNr

\* remove empties one hash of the map, and of the store if it was there
LEMMA RemoveBecomes ==
  ASSUME TypeOK, NEW n \in Node, NEW h \in Payload, NEW e \in Entry, remove(n, h, e)
  PROVE  /\ Becomes(map, map', n, h, None)
         /\ Becomes(seqNrs, seqNrs', n, h, [nr |-> e.seq, age |-> 0])
         /\ h \in Persistable /\ map[n][h] # None => Becomes(store, store', n, h, None)
         /\ ~ (h \in Persistable /\ map[n][h] # None) => store' = store
<1>1. Becomes(map, map', n, h, None)
  BY DEF TypeOK, EntryMap, remove, remove_from_map_and_data_store, Becomes
<1>2. Becomes(seqNrs, seqNrs', n, h, [nr |-> e.seq, age |-> 0])
  BY ExceptBecomes DEF TypeOK, SeqMap, remove, RecordSeqNr
<1>3. ASSUME h \in Persistable, map[n][h] # None PROVE Becomes(store, store', n, h, None)
  BY <1>3 DEF TypeOK, EntryMap, remove, remove_from_map_and_data_store, Becomes
<1>4. ASSUME ~ (h \in Persistable /\ map[n][h] # None) PROVE store' = store
  BY <1>4 DEF TypeOK, EntryMap, remove, remove_from_map_and_data_store
<1> QED BY <1>1, <1>2, <1>3, <1>4

\* An owner's new number is above every number in flight and in every copy
LEMMA NewNumberIsNew ==
  ASSUME OrderInv, NEW h \in Supersedable
  PROVE  /\ \A m \in msgs : m.payload = h => m.seq < NextSeq(Adder[h], h)
         /\ \A n \in Node : map[n][h] # None => map[n][h].seq < NextSeq(Adder[h], h)
<1> USE ConstantsAssumption, NoneAssumption
<1>1. h \in Payload /\ Adder[h] \in Node
  BY DEF Supersedable
<1>2. seqNrs[Adder[h]][h] # None => seqNrs[Adder[h]][h] \in SeqRecord
  BY <1>1 DEF OrderInv, TypeOK, SeqMap
<1>3. \A m \in msgs : m.payload = h => m.seq < NextSeq(Adder[h], h)
  BY <1>1, <1>2 DEF OrderInv, TypeOK, MessagesAreSigned, NextSeq, Message, SeqRecord, Seqs
<1>4. ASSUME NEW n \in Node, map[n][h] # None
      PROVE  map[n][h].seq < NextSeq(Adder[h], h)
  <2>1. map[n][h] \in Entry
    BY <1>1, <1>4 DEF OrderInv, TypeOK, EntryMap
  <2> QED BY <1>1, <1>2, <1>4, <2>1 DEF OrderInv, CopiesFollowOwner, NextSeq, Entry, SeqRecord, Seqs
<1> QED BY <1>3, <1>4

\* The owner of a payload signs with its next number, or the message is in flight
SignedNowOrBefore(n, h, seq, m) ==
  h \in Supersedable =>
    /\ m.owner = Adder[h]
    /\ \/ n = Adder[h] /\ seq = NextSeq(n, h) /\ m.age = 0
       \/ m \in msgs

\* The history after an operation of the given kind, for the payloads it is kept for
SeenBecomes(n, h, seq, type) ==
  \A p \in Node, g \in Supersedable :
    seen'[p][g] = IF g = h /\ p = n /\ type = "remove" THEN seq
                  ELSE IF g = h /\ seqNrs[Adder[h]][h] = None THEN 0
                  ELSE seen[p][g]

(* One operation applied at one node, whatever its kind: v is what the node *)
(* then stores under h, m the message that is forwarded.                    *)
LEMMA OperationOrder ==
  ASSUME OrderInv, TypeOK',
         NEW n \in Node, NEW h \in Payload, NEW seq \in Seqs,
         NEW m0 \in Message, m0.payload = h, m0.seq = seq,
         NEW v \in Entry \cup {None},
         v # None => /\ v.seq = seq
                     /\ v.owner = Adder[h]
                     /\ v.age <= Ttl[h]
                     /\ m0.type # "remove"
                     /\ h \in Supersedable => m0.age <= v.age + MaxDelay,
         ~ SequenceNrTooLow(n, h, seq),
         SignedNowOrBefore(n, h, seq, m0),
         Becomes(map, map', n, h, v),
         Becomes(seqNrs, seqNrs', n, h, [nr |-> seq, age |-> 0]),
         SeenBecomes(n, h, seq, m0.type),
         msgs' = msgs \cup {m0}
  PROVE  /\ EntryIsLatestOperation'
         /\ MessagesAreSigned'
         /\ SignedOnce'
         /\ CopiesFollowOwner'
         /\ RemovalsCovered'
         /\ NoResurrection'
<1> USE ConstantsAssumption, NoneAssumption
<1> DEFINE o == Adder[h]
<1>1. EntryIsLatestOperation'
  BY DEF OrderInv, EntryIsLatestOperation, Becomes
<1>2. o \in Node /\ seq \in Nat /\ m0.age \in Nat /\ [nr |-> seq, age |-> 0] # None
  BY DEF Seqs, Message, SeqRecord
<1> HIDE DEF o
\* The owner's record: it only grows, and its stamp only gets younger
<1>3. ASSUME NEW g \in Supersedable, seqNrs[Adder[g]][g] # None
      PROVE  /\ seqNrs[Adder[g]][g] \in SeqRecord
             /\ seqNrs'[Adder[g]][g] \in SeqRecord
             /\ seqNrs'[Adder[g]][g] # None
             /\ seqNrs[Adder[g]][g].nr <= seqNrs'[Adder[g]][g].nr
             /\ seqNrs'[Adder[g]][g].age <= seqNrs[Adder[g]][g].age
  <2>1. g \in Payload /\ Adder[g] \in Node
    BY DEF Supersedable
  <2>2. seqNrs[Adder[g]][g] \in SeqRecord
    BY <1>3, <2>1 DEF OrderInv, TypeOK, SeqMap
  <2>3. CASE g = h /\ Adder[g] = n
    BY <1>2, <1>3, <2>1, <2>2, <2>3 DEF Becomes, SequenceNrTooLow, SeqRecord, Seqs
  <2>4. CASE ~ (g = h /\ Adder[g] = n)
    BY <1>3, <2>1, <2>2, <2>4 DEF Becomes, SeqRecord, Seqs
  <2> QED BY <2>3, <2>4
\* The owner's record covers the operation
<1>4. ASSUME h \in Supersedable
      PROVE  /\ m0.owner = o
             /\ m0.age <= MaxDelay
             /\ seqNrs'[o][h] # None
             /\ seqNrs'[o][h] \in SeqRecord
             /\ seq <= seqNrs'[o][h].nr
             /\ seqNrs'[o][h].age <= m0.age
  <2>1. CASE n = o /\ m0.age = 0
    BY <1>2, <1>4, <2>1 DEF Becomes, SignedNowOrBefore, o, SeqRecord, Seqs
  <2>2. CASE m0 \in msgs
    <3>1. /\ m0.owner = o
          /\ m0.age <= MaxDelay
          /\ seqNrs[o][h] # None
          /\ m0.seq <= seqNrs[o][h].nr
          /\ seqNrs[o][h].age <= m0.age
      BY <1>4, <2>2 DEF OrderInv, MessagesAreSigned, SignedNowOrBefore, o
    <3> QED BY <1>2, <1>3, <1>4, <3>1 DEF o, SeqRecord, Seqs
  <2> QED BY <1>4, <2>1, <2>2 DEF SignedNowOrBefore, o
<1>5. MessagesAreSigned'
  <2> SUFFICES ASSUME NEW m \in msgs', m.payload \in Supersedable
               PROVE  /\ m.owner = Adder[m.payload]
                      /\ m.age <= MaxDelay
                      /\ seqNrs'[m.owner][m.payload] # None
                      /\ m.seq <= seqNrs'[m.owner][m.payload].nr
                      /\ seqNrs'[m.owner][m.payload].age <= m.age
    BY DEF MessagesAreSigned
  <2>1. CASE m = m0
    BY <1>4, <2>1 DEF o
  <2>2. CASE m \in msgs
    <3>1. /\ m.owner = Adder[m.payload]
          /\ m.age <= MaxDelay
          /\ seqNrs[m.owner][m.payload] # None
          /\ m.seq <= seqNrs[m.owner][m.payload].nr
          /\ seqNrs[m.owner][m.payload].age <= m.age
          /\ m.seq \in Seqs /\ m.age \in Nat
      BY <2>2 DEF OrderInv, MessagesAreSigned, TypeOK, Message
    <3> QED BY <1>3, <3>1 DEF SeqRecord, Seqs
  <2> QED BY <2>1, <2>2
\* Nothing in flight, and no copy, has the number of a new operation
<1>6. ASSUME h \in Supersedable, m0 \notin msgs
      PROVE  /\ \A m \in msgs : m.payload = h => m.seq # seq
             /\ \A p \in Node : map[p][h] # None => map[p][h].seq # seq
  <2>1. /\ \A m \in msgs : m.payload = h => m.seq < seq
        /\ \A p \in Node : map[p][h] # None => map[p][h].seq < seq
    BY <1>6, NewNumberIsNew DEF SignedNowOrBefore
  <2>2. /\ \A m \in msgs : m.seq \in Nat
        /\ \A p \in Node : map[p][h] # None => map[p][h].seq \in Nat
    BY DEF OrderInv, TypeOK, Message, EntryMap, Entry, Seqs
  <2> QED BY <1>2, <2>1, <2>2
<1>7. SignedOnce'
  <2> SUFFICES ASSUME NEW m1 \in msgs', NEW m2 \in msgs', m1.payload \in Supersedable,
                      m1.payload = m2.payload, m1.seq = m2.seq, m1.type = "remove"
               PROVE  m2.type = "remove"
    BY DEF SignedOnce
  <2>1. CASE m1 \in msgs /\ m2 \in msgs
    BY <2>1 DEF OrderInv, SignedOnce
  <2>2. CASE m0 \in msgs
    BY <2>2 DEF OrderInv, SignedOnce
  <2>3. CASE m0 \notin msgs /\ (m1 = m0 \/ m2 = m0)
    BY <1>6, <2>3
  <2> QED BY <2>1, <2>2, <2>3
<1>8. CopiesFollowOwner'
  <2> SUFFICES ASSUME NEW p \in Node, NEW g \in Supersedable, map'[p][g] # None
               PROVE  /\ map'[p][g].owner = Adder[g]
                      /\ map'[p][g].age <= Ttl[g] + 1
                      /\ seqNrs'[Adder[g]][g] # None
                      /\ map'[p][g].seq <= seqNrs'[Adder[g]][g].nr
                      /\ seqNrs'[Adder[g]][g].age <= map'[p][g].age + MaxDelay
    BY DEF CopiesFollowOwner
  <2>0. g \in Payload /\ Adder[g] \in Node
    BY DEF Supersedable
  <2>1. CASE p = n /\ g = h
    <3>1. map'[p][g] = v /\ v # None
      BY <2>0, <2>1 DEF Becomes
    <3>2. v.age \in Nat /\ Ttl[h] \in Nat
      BY <3>1 DEF Entry
    <3> QED BY <1>2, <1>4, <2>1, <3>1, <3>2 DEF o, SeqRecord, Seqs
  <2>2. CASE ~ (p = n /\ g = h)
    <3>1. map'[p][g] = map[p][g]
      BY <2>0, <2>2 DEF Becomes
    <3>2. map[p][g].age \in Nat /\ map[p][g].seq \in Nat
      BY <2>0, <3>1 DEF OrderInv, TypeOK, EntryMap, Entry, Seqs
    <3>3. /\ map[p][g].owner = Adder[g]
          /\ map[p][g].age <= Ttl[g] + 1
          /\ seqNrs[Adder[g]][g] # None
          /\ map[p][g].seq <= seqNrs[Adder[g]][g].nr
          /\ seqNrs[Adder[g]][g].age <= map[p][g].age + MaxDelay
      BY <3>1 DEF OrderInv, CopiesFollowOwner
    <3> QED BY <1>3, <3>1, <3>2, <3>3 DEF SeqRecord, Seqs
  <2> QED BY <2>1, <2>2
\* The owner's numbers are above the removals, old and new
<1>9. ASSUME NEW p \in Node, NEW g \in Supersedable
      PROVE  /\ g \in Payload /\ Adder[g] \in Node
             /\ seen[p][g] \in Nat /\ seen'[p][g] \in Nat
             /\ ~ (g = h /\ p = n /\ m0.type = "remove") => seen'[p][g] <= seen[p][g]
  BY DEF Supersedable, SeenBecomes, OrderInv, TypeOK
<1>10. ASSUME h \in Supersedable, m0 \notin msgs, NEW p \in Node,
              ~ (p = n /\ m0.type = "remove")
       PROVE  seen'[p][h] < seq
  <2>1. n = o /\ seq = NextSeq(o, h) /\ seen[p][h] \in Nat
    BY <1>9, <1>10 DEF SignedNowOrBefore, o
  <2>2. CASE seqNrs[o][h] = None
    BY <1>2, <1>10, <2>1, <2>2 DEF SeenBecomes, NextSeq, o
  <2>3. CASE seqNrs[o][h] # None
    <3>1. seqNrs[o][h].nr \in Nat /\ seq = seqNrs[o][h].nr + 1
      BY <1>2, <1>10, <2>1, <2>3 DEF OrderInv, TypeOK, SeqMap, SeqRecord, Seqs, NextSeq, Supersedable
    <3>2. seen[p][h] <= seqNrs[o][h].nr
      BY <1>10, <2>3 DEF OrderInv, RemovalsCovered, o
    <3>3. seen'[p][h] = seen[p][h]
      BY <1>10, <2>3 DEF SeenBecomes, o
    <3> QED BY <2>1, <3>1, <3>2, <3>3
  <2> QED BY <2>2, <2>3
<1>11. RemovalsCovered'
  <2> SUFFICES ASSUME NEW p \in Node, NEW g \in Supersedable
               PROVE  /\ seqNrs'[Adder[g]][g] # None => seen'[p][g] <= seqNrs'[Adder[g]][g].nr
                      /\ \A m \in msgs' : m.payload = g =>
                           /\ m.seq <= seen'[p][g] => /\ seqNrs'[p][g] # None
                                                      /\ seen'[p][g] <= seqNrs'[p][g].nr
                                                      /\ seqNrs'[p][g].age <= m.age
                           /\ m.type # "remove" => m.seq # seen'[p][g]
    BY DEF RemovalsCovered
  <2>0. g \in Payload /\ Adder[g] \in Node /\ seen[p][g] \in Nat /\ seen'[p][g] \in Nat
    BY <1>9
  <2>1. seqNrs'[Adder[g]][g] # None => seen'[p][g] <= seqNrs'[Adder[g]][g].nr
    <3>1. CASE g = h /\ p = n /\ m0.type = "remove"
      BY <1>4, <2>0, <3>1 DEF SeenBecomes, o
    <3>2. CASE ~ (g = h /\ p = n /\ m0.type = "remove") /\ seqNrs[Adder[g]][g] # None
      <4>1. seen'[p][g] <= seen[p][g] /\ seen[p][g] <= seqNrs[Adder[g]][g].nr
        BY <1>9, <3>2 DEF OrderInv, RemovalsCovered
      <4> QED BY <1>3, <2>0, <3>2, <4>1 DEF SeqRecord, Seqs
    <3>3. CASE ~ (g = h /\ p = n /\ m0.type = "remove") /\ seqNrs[Adder[g]][g] = None
      <4>1. CASE g = h
        <5>1. seen'[p][g] = 0
          BY <3>3, <4>1 DEF SeenBecomes
        <5> QED BY <1>4, <4>1, <5>1 DEF SeqRecord, Seqs, o
      <4>2. CASE g # h
        BY <2>0, <3>3, <4>2 DEF Becomes
      <4> QED BY <4>1, <4>2
    <3> QED BY <3>1, <3>2, <3>3
  <2>2. ASSUME NEW m \in msgs', m.payload = g
        PROVE  /\ m.seq <= seen'[p][g] => /\ seqNrs'[p][g] # None
                                         /\ seen'[p][g] <= seqNrs'[p][g].nr
                                         /\ seqNrs'[p][g].age <= m.age
               /\ m.type # "remove" => m.seq # seen'[p][g]
    <3>0. m \in Message /\ m.seq \in Nat /\ m.age \in Nat
      BY DEF TypeOK, Message, Seqs
    \* The removal that is applied now
    <3>1. CASE g = h /\ p = n /\ m0.type = "remove"
      <4>1. seen'[p][g] = seq
        BY <3>1 DEF SeenBecomes
      <4>2. seqNrs'[p][g] = [nr |-> seq, age |-> 0]
        BY <2>0, <3>1 DEF Becomes
      <4>3. m.type # "remove" => m.seq # seq
        BY <2>2, <1>7, <3>1 DEF SignedOnce
      <4> QED BY <1>2, <3>0, <4>1, <4>2, <4>3
    <3>2. CASE ~ (g = h /\ p = n /\ m0.type = "remove") /\ m = m0 /\ m0 \notin msgs
      <4>1. seen'[p][g] < m.seq
        BY <1>10, <2>2, <3>2
      <4> QED BY <2>0, <3>0, <4>1
    <3>3. CASE ~ (g = h /\ p = n /\ m0.type = "remove") /\ m \in msgs
      <4>1. seqNrs[Adder[g]][g] # None
        BY <2>2, <3>3 DEF OrderInv, MessagesAreSigned
      <4>2. seen'[p][g] = seen[p][g]
        BY <3>3, <4>1 DEF SeenBecomes
      <4>3. /\ m.seq <= seen[p][g] => /\ seqNrs[p][g] # None
                                     /\ seen[p][g] <= seqNrs[p][g].nr
                                     /\ seqNrs[p][g].age <= m.age
            /\ m.type # "remove" => m.seq # seen[p][g]
        BY <2>2, <3>3 DEF OrderInv, RemovalsCovered
      <4>4. CASE g = h /\ p = n
        <5>1. seqNrs'[p][g] = [nr |-> seq, age |-> 0]
          BY <2>0, <4>4 DEF Becomes
        <5>2. seqNrs[p][g] # None => seqNrs[p][g].nr <= seq /\ seqNrs[p][g].nr \in Nat
          BY <1>2, <4>4 DEF SequenceNrTooLow, OrderInv, TypeOK, SeqMap, SeqRecord, Seqs
        <5> QED BY <1>2, <2>0, <3>0, <4>2, <4>3, <5>1, <5>2
      <4>5. CASE ~ (g = h /\ p = n)
        <5>1. seqNrs'[p][g] = seqNrs[p][g]
          BY <2>0, <4>5 DEF Becomes
        <5> QED BY <4>2, <4>3, <5>1
      <4> QED BY <4>4, <4>5
    <3> QED BY <3>1, <3>2, <3>3
  <2> QED BY <2>1, <2>2
<1>12. NoResurrection'
  <2> SUFFICES ASSUME NEW p \in Node, NEW g \in Supersedable, map'[p][g] # None
               PROVE  map'[p][g].seq > seen'[p][g]
    BY DEF NoResurrection
  <2>0. g \in Payload /\ Adder[g] \in Node /\ seen[p][g] \in Nat /\ seen'[p][g] \in Nat
    BY <1>9
  <2>1. CASE p = n /\ g = h
    <3>1. map'[p][g] = v /\ v # None
      BY <2>0, <2>1 DEF Becomes
    <3>2. v.seq = seq /\ m0.type # "remove"
      BY <3>1
    <3>3. CASE m0 \notin msgs
      BY <1>2, <1>10, <2>0, <2>1, <3>1, <3>2, <3>3
    <3>4. CASE m0 \in msgs
      <4>1. seen'[p][g] <= seen[p][g]
        BY <1>9, <3>2
      <4>2. /\ seq <= seen[p][g] => seqNrs[p][g] # None /\ seen[p][g] <= seqNrs[p][g].nr
            /\ seq # seen[p][g]
        BY <2>1, <3>2, <3>4 DEF OrderInv, RemovalsCovered
      <4>3. seqNrs[p][g] # None => seqNrs[p][g].nr <= seq /\ seqNrs[p][g].nr \in Nat
        BY <1>2, <2>1 DEF SequenceNrTooLow, OrderInv, TypeOK, SeqMap, SeqRecord, Seqs
      <4> QED BY <1>2, <2>0, <3>1, <3>2, <4>1, <4>2, <4>3
    <3> QED BY <3>3, <3>4
  <2>2. CASE ~ (p = n /\ g = h)
    <3>1. map'[p][g] = map[p][g] /\ map[p][g].seq \in Nat
      BY <2>0, <2>2 DEF Becomes, OrderInv, TypeOK, EntryMap, Entry, Seqs
    <3>2. map[p][g].seq > seen[p][g] /\ seen'[p][g] <= seen[p][g]
      BY <1>9, <2>2, <3>1 DEF OrderInv, NoResurrection
    <3> QED BY <2>0, <3>1, <3>2
  <2> QED BY <2>1, <2>2
<1> QED BY <1>1, <1>5, <1>7, <1>8, <1>11, <1>12

\* Accepting an entry keeps the order of operations
LEMMA AddOrder ==
  ASSUME OrderInv, NEW n \in Node, NEW h \in Payload, NEW e \in Entry,
         add_protected_storage_entry(n, h, e),
         SignedNowOrBefore(n, h, e.seq, AsMessage("add", h, e)),
         SeenOK', SeenBecomes(n, h, e.seq, "add")
  PROVE  OrderInv'
<1> USE ConstantsAssumption, NoneAssumption
<1> DEFINE m0 == AsMessage("add", h, e)
<1>0. TypeOK
  BY DEF OrderInv
<1>1. TypeOK'
  BY <1>0, AddType
<1>2. /\ Becomes(map, map', n, h, e)
      /\ Becomes(seqNrs, seqNrs', n, h, [nr |-> e.seq, age |-> 0])
      /\ h \in Persistable => Becomes(store, store', n, h, e)
      /\ h \notin Persistable => store' = store
  BY <1>0, AddBecomes
<1>3. StoreMirrorsMap' /\ RefreshedAreOffers'
  BY <1>2 DEF OrderInv, StoreMirrorsMap, RefreshedAreOffers, Becomes,
              add_protected_storage_entry, AsMessage
<1>4. /\ e.age <= Ttl[h] /\ e.owner = Adder[h]
      /\ e.age \in Nat /\ e.seq \in Seqs
      /\ ~ SequenceNrTooLow(n, h, e.seq)
      /\ msgs' = msgs \cup {m0}
  BY DEF add_protected_storage_entry, CanAdd, is_expired, is_valid_for_add_operation, Entry
<1>5. /\ m0 \in Message /\ m0.type = "add" /\ m0.payload = h
      /\ m0.seq = e.seq /\ m0.owner = e.owner /\ m0.age = e.age
  BY <1>4 DEF AsMessage, Message, Entry
<1>6. SignedNowOrBefore(n, h, e.seq, m0)
  OBVIOUS
<1> HIDE DEF m0
<1>7. e \in Entry \cup {None} /\ m0.age <= e.age + MaxDelay
  BY <1>4, <1>5
<1>8. /\ EntryIsLatestOperation' /\ MessagesAreSigned' /\ SignedOnce'
      /\ CopiesFollowOwner' /\ RemovalsCovered' /\ NoResurrection'
  BY <1>1, <1>2, <1>4, <1>5, <1>6, <1>7, OperationOrder
<1> QED BY <1>1, <1>3, <1>8 DEF OrderInv

\* Accepting a refresh keeps the order of operations
LEMMA RefreshOrder ==
  ASSUME OrderInv, NEW n \in Node, NEW h \in Payload, NEW seq \in Seqs, NEW m \in Message,
         refresh_ttl(n, h, seq, m), h \in OwnerOnline,
         m.payload = h, m.seq = seq, m.type = "refresh",
         SignedNowOrBefore(n, h, seq, m),
         SeenOK', SeenBecomes(n, h, seq, "refresh")
  PROVE  OrderInv'
<1> USE ConstantsAssumption, NoneAssumption
<1> DEFINE v == [seq |-> seq, age |-> 0, owner |-> map[n][h].owner]
<1>0. TypeOK
  BY DEF OrderInv
<1>1. TypeOK'
  BY <1>0, RefreshType
<1>2. /\ Becomes(map, map', n, h, v)
      /\ Becomes(seqNrs, seqNrs', n, h, [nr |-> seq, age |-> 0])
  BY <1>0, RefreshBecomes
<1>3. StoreMirrorsMap' /\ RefreshedAreOffers'
  <2>1. store' = store /\ msgs' = msgs \cup {m}
    BY DEF refresh_ttl
  <2> QED BY <1>2, <2>1 DEF OrderInv, StoreMirrorsMap, RefreshedAreOffers, Becomes
<1>4. /\ map[n][h].owner = Adder[h]
      /\ msgs' = msgs \cup {m}
      /\ has_sequence_nr_increased(n, h, seq)
  BY DEF refresh_ttl, is_valid_for_add_operation
<1>5. ~ SequenceNrTooLow(n, h, seq)
  <2>1. seqNrs[n][h] # None => seqNrs[n][h] \in SeqRecord
    BY <1>0 DEF TypeOK, SeqMap
  <2> QED BY <1>4, <2>1 DEF has_sequence_nr_increased, SequenceNrTooLow, SeqRecord, Seqs
<1>6. /\ v \in Entry \cup {None} /\ v.seq = seq /\ v.owner = Adder[h]
      /\ v.age <= Ttl[h] /\ (h \in Supersedable => m.age <= v.age + MaxDelay)
  BY <1>4 DEF Entry, Message, SignedNowOrBefore, OrderInv, MessagesAreSigned
<1> HIDE DEF v
<1>7. /\ EntryIsLatestOperation' /\ MessagesAreSigned' /\ SignedOnce'
      /\ CopiesFollowOwner' /\ RemovalsCovered' /\ NoResurrection'
  BY <1>1, <1>2, <1>4, <1>5, <1>6, OperationOrder
<1> QED BY <1>1, <1>3, <1>7 DEF OrderInv

\* Accepting a removal keeps the order of operations
LEMMA RemoveOrder ==
  ASSUME OrderInv, NEW n \in Node, NEW h \in Payload, NEW e \in Entry, remove(n, h, e),
         SignedNowOrBefore(n, h, e.seq, AsMessage("remove", h, e)),
         SeenOK', SeenBecomes(n, h, e.seq, "remove")
  PROVE  OrderInv'
<1> USE ConstantsAssumption, NoneAssumption
<1> DEFINE m0 == AsMessage("remove", h, e)
<1>0. TypeOK
  BY DEF OrderInv
<1>1. TypeOK'
  BY <1>0, RemoveType
<1>2. /\ Becomes(map, map', n, h, None)
      /\ Becomes(seqNrs, seqNrs', n, h, [nr |-> e.seq, age |-> 0])
      /\ h \in Persistable /\ map[n][h] # None => Becomes(store, store', n, h, None)
      /\ ~ (h \in Persistable /\ map[n][h] # None) => store' = store
  BY <1>0, RemoveBecomes
<1>3. StoreMirrorsMap' /\ RefreshedAreOffers'
  BY <1>2 DEF OrderInv, StoreMirrorsMap, RefreshedAreOffers, Becomes, remove, AsMessage
<1>4. has_sequence_nr_increased(n, h, e.seq) /\ msgs' = msgs \cup {m0} /\ e.seq \in Seqs
  BY DEF remove, Entry
<1>5. ~ SequenceNrTooLow(n, h, e.seq)
  <2>1. seqNrs[n][h] # None => seqNrs[n][h] \in SeqRecord
    BY <1>0 DEF TypeOK, SeqMap
  <2> QED BY <1>4, <2>1 DEF has_sequence_nr_increased, SequenceNrTooLow, SeqRecord, Seqs
<1>6. m0 \in Message /\ m0.type = "remove" /\ m0.payload = h /\ m0.seq = e.seq
  BY DEF AsMessage, Message, Entry
<1>7. SignedNowOrBefore(n, h, e.seq, m0) /\ None \in Entry \cup {None}
  OBVIOUS
<1> HIDE DEF m0
<1>8. /\ EntryIsLatestOperation' /\ MessagesAreSigned' /\ SignedOnce'
      /\ CopiesFollowOwner' /\ RemovalsCovered' /\ NoResurrection'
  BY <1>1, <1>2, <1>4, <1>5, <1>6, <1>7, OperationOrder
<1> QED BY <1>1, <1>3, <1>8 DEF OrderInv

(* A step that applies no operation: copies may go or age, old numbers be   *)
(* purged. The owner's number is never among them while it is needed.       *)
LEMMA QuietOrder ==
  ASSUME OrderInv, TypeOK', msgs' = msgs, seen' = seen,
         \A p \in Node, g \in Payload \ AddOnce : map'[p][g] # None =>
           /\ map[p][g] # None
           /\ map'[p][g].seq = map[p][g].seq
           /\ map'[p][g].owner = map[p][g].owner
           /\ g \in Supersedable => /\ map'[p][g].age >= map[p][g].age
                                    /\ map'[p][g].age <= Ttl[g] + 1,
         \A p \in Node, g \in Payload :
           \/ seqNrs'[p][g] = seqNrs[p][g]
           \/ seqNrs'[p][g] = None /\ seqNrs[p][g].age >= PurgeAge
  PROVE  /\ EntryIsLatestOperation'
         /\ MessagesAreSigned'
         /\ SignedOnce'
         /\ CopiesFollowOwner'
         /\ RemovalsCovered'
         /\ NoResurrection'
<1> USE ConstantsAssumption, NoneAssumption
<1>1. EntryIsLatestOperation'
  BY DEF OrderInv, EntryIsLatestOperation
<1>2. MessagesAreSigned'
  <2> SUFFICES ASSUME NEW m \in msgs, m.payload \in Supersedable
               PROVE  /\ m.owner = Adder[m.payload]
                      /\ m.age <= MaxDelay
                      /\ seqNrs'[m.owner][m.payload] # None
                      /\ m.seq <= seqNrs'[m.owner][m.payload].nr
                      /\ seqNrs'[m.owner][m.payload].age <= m.age
    BY DEF MessagesAreSigned
  <2>1. /\ m.owner = Adder[m.payload]
        /\ m.age <= MaxDelay
        /\ seqNrs[m.owner][m.payload] # None
        /\ m.seq <= seqNrs[m.owner][m.payload].nr
        /\ seqNrs[m.owner][m.payload].age <= m.age
    BY DEF OrderInv, MessagesAreSigned
  <2>2. m.payload \in Payload /\ m.owner \in Node /\ m.age \in Nat /\ Ttl[m.payload] \in Nat
    BY DEF OrderInv, TypeOK, Message
  <2>3. seqNrs[m.owner][m.payload] \in SeqRecord
    BY <2>1, <2>2 DEF OrderInv, TypeOK, SeqMap
  <2>4. seqNrs[m.owner][m.payload].age < PurgeAge
    BY <2>1, <2>2, <2>3 DEF Supersedable, SeqRecord
  <2>5. seqNrs'[m.owner][m.payload] = seqNrs[m.owner][m.payload]
    BY <2>2, <2>3, <2>4 DEF SeqRecord
  <2> QED BY <2>1, <2>5
<1>3. SignedOnce'
  BY DEF OrderInv, SignedOnce
<1>4. CopiesFollowOwner'
  <2> SUFFICES ASSUME NEW p \in Node, NEW g \in Supersedable, map'[p][g] # None
               PROVE  /\ map'[p][g].owner = Adder[g]
                      /\ map'[p][g].age <= Ttl[g] + 1
                      /\ seqNrs'[Adder[g]][g] # None
                      /\ map'[p][g].seq <= seqNrs'[Adder[g]][g].nr
                      /\ seqNrs'[Adder[g]][g].age <= map'[p][g].age + MaxDelay
    BY DEF CopiesFollowOwner
  <2>0. /\ g \in Payload \ AddOnce /\ Adder[g] \in Node
        /\ Ttl[g] + MaxDelay + 1 < PurgeAge /\ Ttl[g] \in Nat
    BY DEF Supersedable
  <2>1. /\ map[p][g] # None
        /\ map[p][g].owner = Adder[g]
        /\ map[p][g].age <= Ttl[g] + 1
        /\ seqNrs[Adder[g]][g] # None
        /\ map[p][g].seq <= seqNrs[Adder[g]][g].nr
        /\ seqNrs[Adder[g]][g].age <= map[p][g].age + MaxDelay
    BY <2>0 DEF OrderInv, CopiesFollowOwner
  <2>2. map[p][g] \in Entry /\ map'[p][g] \in Entry /\ seqNrs[Adder[g]][g] \in SeqRecord
    BY <2>0, <2>1 DEF OrderInv, TypeOK, EntryMap, SeqMap
  <2>3. seqNrs[Adder[g]][g].age < PurgeAge
    BY <2>0, <2>1, <2>2 DEF Entry, SeqRecord
  <2>4. seqNrs'[Adder[g]][g] = seqNrs[Adder[g]][g]
    BY <2>0, <2>2, <2>3 DEF SeqRecord
  <2> QED BY <2>0, <2>1, <2>2, <2>4 DEF Entry, SeqRecord
<1>5. RemovalsCovered'
  <2> SUFFICES ASSUME NEW n \in Node, NEW h \in Supersedable
               PROVE  /\ seqNrs'[Adder[h]][h] # None => seen[n][h] <= seqNrs'[Adder[h]][h].nr
                      /\ \A m \in msgs : m.payload = h =>
                           /\ m.seq <= seen[n][h] => /\ seqNrs'[n][h] # None
                                                    /\ seen[n][h] <= seqNrs'[n][h].nr
                                                    /\ seqNrs'[n][h].age <= m.age
                           /\ m.type # "remove" => m.seq # seen[n][h]
    BY DEF RemovalsCovered
  <2>0. h \in Payload /\ Adder[h] \in Node /\ Ttl[h] \in Nat /\ Ttl[h] + MaxDelay + 1 < PurgeAge
    BY DEF Supersedable
  <2>1. seqNrs'[Adder[h]][h] # None => seqNrs'[Adder[h]][h] = seqNrs[Adder[h]][h]
    BY <2>0
  <2>2. ASSUME NEW m \in msgs, m.payload = h, m.seq <= seen[n][h]
        PROVE  seqNrs'[n][h] = seqNrs[n][h]
    <3>1. seqNrs[n][h] # None /\ seqNrs[n][h].age <= m.age /\ m.age <= MaxDelay
      BY <2>2 DEF OrderInv, RemovalsCovered, MessagesAreSigned
    <3>2. seqNrs[n][h].age \in Nat /\ m.age \in Nat
      BY <2>0, <3>1 DEF OrderInv, TypeOK, SeqMap, SeqRecord, Message
    <3>3. seqNrs[n][h].age < PurgeAge
      BY <2>0, <3>1, <3>2
    <3> QED BY <2>0, <3>2, <3>3
  <2> QED BY <2>1, <2>2 DEF OrderInv, RemovalsCovered
<1>6. NoResurrection'
  BY DEF OrderInv, NoResurrection, Supersedable
<1> QED BY <1>1, <1>2, <1>3, <1>4, <1>5, <1>6

\* Dropping payloads leaves every other entry as it is
LEMMA DropQuiet ==
  ASSUME TypeOK, NEW n \in Node, NEW hs, remove_from_map_and_data_store(n, hs)
  PROVE  \A p \in Node, g \in Payload :
           /\ map'[p][g] # None => map'[p][g] = map[p][g]
           /\ store'[p][g] = IF p = n /\ g \in hs /\ g \in Persistable THEN None ELSE store[p][g]
           /\ map'[p][g] = IF p = n /\ g \in hs THEN None ELSE map[p][g]
BY DEF TypeOK, EntryMap, remove_from_map_and_data_store

\* A purge keeps a number or forgets it once it is PurgeAge old
LEMMA PurgeQuiet ==
  ASSUME NEW records \in SeqMap, NEW g \in Payload
  PROVE  \/ PurgedSeqNrs(records)[g] = records[g]
         \/ PurgedSeqNrs(records)[g] = None /\ records[g].age >= PurgeAge
<1> USE ConstantsAssumption, NoneAssumption
<1>1. CASE records[g] = None
  BY <1>1 DEF PurgedSeqNrs
<1>2. CASE records[g] # None
  <2>1. records[g] \in SeqRecord
    BY <1>2 DEF SeqMap
  <2> QED BY <2>1, <1>2 DEF PurgedSeqNrs, SeqRecord
<1> QED BY <1>1, <1>2

\* The expiry task keeps the order: an owner's number outlives the copies
LEMMA ExpireOrder ==
  ASSUME OrderInv, NEW n \in Node, remove_expired_entries(n)
  PROVE  OrderInv'
<1> USE ConstantsAssumption, NoneAssumption
<1>0. TypeOK /\ TypeOK' /\ msgs' = msgs /\ seen' = seen
  BY ExpireType DEF OrderInv, remove_expired_entries
<1>1. \A p \in Node, g \in Payload :
        /\ map'[p][g] # None => map'[p][g] = map[p][g]
        /\ store'[p][g] = IF p = n /\ g \in Expired(n) /\ g \in Persistable THEN None ELSE store[p][g]
        /\ map'[p][g] = IF p = n /\ g \in Expired(n) THEN None ELSE map[p][g]
  BY <1>0, DropQuiet DEF remove_expired_entries
<1>2. StoreMirrorsMap' /\ RefreshedAreOffers'
  BY <1>0, <1>1 DEF OrderInv, StoreMirrorsMap, RefreshedAreOffers
<1>3. ASSUME NEW p \in Node, NEW g \in Payload
      PROVE  \/ seqNrs'[p][g] = seqNrs[p][g]
             \/ seqNrs'[p][g] = None /\ seqNrs[p][g].age >= PurgeAge
  <2>1. seqNrs[n] \in SeqMap
    BY <1>0 DEF TypeOK
  <2>2. \/ PurgedSeqNrs(seqNrs[n])[g] = seqNrs[n][g]
        \/ PurgedSeqNrs(seqNrs[n])[g] = None /\ seqNrs[n][g].age >= PurgeAge
    BY <2>1, PurgeQuiet
  <2> QED BY <1>0, <2>2 DEF TypeOK, remove_expired_entries
<1>4. ASSUME NEW p \in Node, NEW g \in Payload, map'[p][g] # None
      PROVE  /\ map[p][g] # None
             /\ map'[p][g].seq = map[p][g].seq
             /\ map'[p][g].owner = map[p][g].owner
             /\ g \in Supersedable => /\ map'[p][g].age >= map[p][g].age
                                      /\ map'[p][g].age <= Ttl[g] + 1
  <2>1. map'[p][g] = map[p][g] /\ map[p][g] \in Entry
    BY <1>0, <1>1, <1>4 DEF TypeOK, EntryMap
  <2> QED BY <1>4, <2>1 DEF Entry, OrderInv, CopiesFollowOwner
<1>5. /\ EntryIsLatestOperation' /\ MessagesAreSigned' /\ SignedOnce'
      /\ CopiesFollowOwner' /\ RemovalsCovered' /\ NoResurrection'
  BY <1>0, <1>3, <1>4, QuietOrder
<1> QED BY <1>0, <1>2, <1>5 DEF OrderInv

\* Backdating keeps the order: entries only get older
LEMMA DisconnectOrder ==
  ASSUME OrderInv, NEW n \in Node, NEW p \in Node, on_disconnect(n, p)
  PROVE  OrderInv'
<1> USE ConstantsAssumption, NoneAssumption
<1>0. /\ TypeOK /\ TypeOK' /\ msgs' = msgs /\ seqNrs' = seqNrs /\ store' = store
      /\ seen' = seen
  BY DisconnectType DEF OrderInv, on_disconnect
<1>1. ASSUME NEW q \in Node, NEW g \in Payload
      PROVE  map'[q][g] = IF q = n /\ map[q][g] # None /\ g \in OwnerOnline /\ Adder[g] = p
                          THEN back_date(g, map[q][g]) ELSE map[q][g]
  BY <1>0 DEF TypeOK, EntryMap, on_disconnect
<1>2. StoreMirrorsMap' /\ RefreshedAreOffers'
  BY <1>0, <1>1 DEF OrderInv, StoreMirrorsMap, RefreshedAreOffers
<1>3. ASSUME NEW g \in Payload, NEW e \in Entry
      PROVE  /\ back_date(g, e).seq = e.seq
             /\ back_date(g, e).owner = e.owner
             /\ back_date(g, e).age >= e.age \/ e.age > Ttl[g] + 1
             /\ back_date(g, e).age <= Ttl[g] + 1
  <2>1. /\ e.age \in Nat /\ Ttl[g] \in Nat /\ Ttl[g] \div 2 \in Nat
    BY DEF Entry
  <2>2. back_date(g, e) = [seq |-> e.seq,
            age |-> IF e.age + Ttl[g] \div 2 > Ttl[g] THEN Ttl[g] + 1 ELSE e.age + Ttl[g] \div 2,
            owner |-> e.owner]
    BY DEF back_date, Entry
  <2> QED BY <2>1, <2>2
<1>5. ASSUME NEW q \in Node, NEW g \in Payload, map'[q][g] # None
      PROVE  /\ map[q][g] # None
             /\ map'[q][g].seq = map[q][g].seq
             /\ map'[q][g].owner = map[q][g].owner
             /\ g \in Supersedable => /\ map'[q][g].age >= map[q][g].age
                                      /\ map'[q][g].age <= Ttl[g] + 1
  <2>1. map[q][g] # None
    BY <1>1, <1>5
  <2>2. map[q][g] \in Entry
    BY <1>0, <2>1 DEF TypeOK, EntryMap
  <2>3. map[q][g].age \in Nat /\ Ttl[g] \in Nat
    BY <2>2 DEF Entry
  <2>4. g \in Supersedable => map[q][g].age <= Ttl[g] + 1
    BY <2>1 DEF OrderInv, CopiesFollowOwner
  <2>5. CASE map'[q][g] = map[q][g]
    BY <2>1, <2>3, <2>4, <2>5
  <2>6. CASE map'[q][g] = back_date(g, map[q][g])
    BY <1>3, <2>1, <2>2, <2>3, <2>4, <2>6
  <2> QED BY <1>1, <2>5, <2>6
<1>6. /\ EntryIsLatestOperation' /\ MessagesAreSigned' /\ SignedOnce'
      /\ CopiesFollowOwner' /\ RemovalsCovered' /\ NoResurrection'
  BY <1>0, <1>5, QuietOrder
<1> QED BY <1>0, <1>2, <1>6 DEF OrderInv

\* A clean restart: the map comes back from the persisted copies, which mirror it
LEMMA RestartOrder ==
  ASSUME OrderInv, NEW n \in Node, Restart(n), TypeOK'
  PROVE  OrderInv'
<1> USE ConstantsAssumption, NoneAssumption
<1>0. /\ TypeOK /\ msgs' = msgs /\ seen' = seen
      /\ map' = [map EXCEPT ![n] = [h \in Payload |->
           IF h \in AddOnce THEN Reloaded(disk[n].list)[h] ELSE store[n][h]]]
      /\ store' = [store EXCEPT ![n] = store[n]]
      /\ seqNrs' = [seqNrs EXCEPT ![n] = PurgedSeqNrs(seqNrs[n])]
  BY DEF OrderInv, Restart, ReadPersisted
<1>1. ASSUME NEW p \in Node, NEW g \in Payload
      PROVE  /\ g \notin AddOnce => map'[p][g] = IF p = n THEN store[p][g] ELSE map[p][g]
             /\ store'[p][g] = store[p][g]
  BY <1>0 DEF TypeOK
<1>2. StoreMirrorsMap' /\ RefreshedAreOffers'
  BY <1>0, <1>1 DEF OrderInv, StoreMirrorsMap, RefreshedAreOffers
<1>3. ASSUME NEW p \in Node, NEW g \in Payload
      PROVE  \/ seqNrs'[p][g] = seqNrs[p][g]
             \/ seqNrs'[p][g] = None /\ seqNrs[p][g].age >= PurgeAge
  <2>1. seqNrs[n] \in SeqMap
    BY <1>0 DEF TypeOK
  <2>2. \/ PurgedSeqNrs(seqNrs[n])[g] = seqNrs[n][g]
        \/ PurgedSeqNrs(seqNrs[n])[g] = None /\ seqNrs[n][g].age >= PurgeAge
    BY <2>1, PurgeQuiet
  <2> QED BY <1>0, <2>2 DEF TypeOK
<1>4. ASSUME NEW p \in Node, NEW g \in Payload \ AddOnce, map'[p][g] # None
      PROVE  map'[p][g] = map[p][g]
  BY <1>1, <1>4 DEF OrderInv, StoreMirrorsMap
<1>5. ASSUME NEW p \in Node, NEW g \in Payload \ AddOnce, map'[p][g] # None
      PROVE  /\ map[p][g] # None
             /\ map'[p][g].seq = map[p][g].seq
             /\ map'[p][g].owner = map[p][g].owner
             /\ g \in Supersedable => /\ map'[p][g].age >= map[p][g].age
                                      /\ map'[p][g].age <= Ttl[g] + 1
  <2>1. map'[p][g] = map[p][g] /\ map[p][g] \in Entry
    BY <1>0, <1>4, <1>5 DEF TypeOK, EntryMap
  <2> QED BY <1>5, <2>1 DEF Entry, OrderInv, CopiesFollowOwner
<1>6. /\ EntryIsLatestOperation' /\ MessagesAreSigned' /\ SignedOnce'
      /\ CopiesFollowOwner' /\ RemovalsCovered' /\ NoResurrection'
  BY <1>0, <1>3, <1>5, QuietOrder
<1> QED BY <1>0, <1>2, <1>6 DEF OrderInv

\* Time: a copy, the owner's record and a message in flight age together
LEMMA TickOrder ==
  ASSUME OrderInv, Tick, TypeOK'
  PROVE  OrderInv'
<1> USE ConstantsAssumption, NoneAssumption
<1>0. TypeOK
  BY DEF OrderInv
<1>1. ASSUME NEW p \in Node, NEW g \in Payload
      PROVE  /\ map'[p][g] = IF map[p][g] = None THEN None
                             ELSE [map[p][g] EXCEPT !.age = Older(@, Ttl[g])]
             /\ store'[p][g] = IF store[p][g] = None THEN None
                               ELSE [store[p][g] EXCEPT !.age = Older(@, Ttl[g])]
             /\ seqNrs'[p][g] = IF seqNrs[p][g] = None THEN None
                                ELSE [seqNrs[p][g] EXCEPT !.age = Older(@, PurgeAge)]
  BY DEF Tick, OlderEntries, OlderSeqNrs
<1>2. ASSUME NEW p \in Node, NEW g \in Payload, map[p][g] # None
      PROVE  /\ map'[p][g] # None
             /\ map[p][g].age \in Nat
             /\ map'[p][g].seq = map[p][g].seq
             /\ map'[p][g].owner = map[p][g].owner
             /\ map'[p][g].age = map[p][g].age + 1
             /\ map'[p][g].age <= Ttl[g] + 1
  <2>1. map[p][g] \in Entry
    BY <1>0, <1>2 DEF TypeOK, EntryMap
  <2>2. map[p][g].age <= Ttl[g]
    BY <1>2, <2>1 DEF Tick, Expired, is_expired, Entry
  <2>3. map'[p][g] = [seq |-> map[p][g].seq, age |-> map[p][g].age + 1, owner |-> map[p][g].owner]
    <3>1. map'[p][g] = [map[p][g] EXCEPT !.age = Older(@, Ttl[g])]
      BY <1>1, <1>2, Zenon
    <3> DEFINE e == map[p][g]
    <3>2. e \in Entry /\ e.age <= Ttl[g] /\ map'[p][g] = [e EXCEPT !.age = Older(@, Ttl[g])]
      BY <2>1, <2>2, <3>1
    <3> HIDE DEF e
    <3>3. map'[p][g] = [seq |-> e.seq, age |-> e.age + 1, owner |-> e.owner]
      BY <3>2 DEF Entry, Older
    <3> QED BY <3>3 DEF e
  <2>4. map'[p][g] \in Entry
    BY <2>1, <2>3 DEF Entry
  <2> QED BY <2>1, <2>2, <2>3, <2>4 DEF Entry
<1>3. ASSUME NEW p \in Node, NEW g \in Payload, seqNrs[p][g] # None
      PROVE  /\ seqNrs'[p][g] # None
             /\ seqNrs[p][g].age \in Nat
             /\ seqNrs'[p][g].age \in Nat
             /\ seqNrs'[p][g].nr = seqNrs[p][g].nr
             /\ seqNrs'[p][g].age <= seqNrs[p][g].age + 1
  <2>1. seqNrs[p][g] \in SeqRecord
    BY <1>0, <1>3 DEF TypeOK, SeqMap
  <2>2. seqNrs'[p][g] = [nr |-> seqNrs[p][g].nr, age |-> Older(seqNrs[p][g].age, PurgeAge)]
    <3>1. seqNrs'[p][g] = [seqNrs[p][g] EXCEPT !.age = Older(@, PurgeAge)]
      BY <1>1, <1>3, Zenon
    <3> DEFINE r == seqNrs[p][g]
    <3>2. r \in SeqRecord /\ seqNrs'[p][g] = [r EXCEPT !.age = Older(@, PurgeAge)]
      BY <2>1, <3>1
    <3> HIDE DEF r
    <3>3. seqNrs'[p][g] = [nr |-> r.nr, age |-> Older(r.age, PurgeAge)]
      BY <3>2 DEF SeqRecord
    <3> QED BY <3>3 DEF r
  <2>3. seqNrs'[p][g] \in SeqRecord
    BY <2>1, <2>2 DEF SeqRecord, Older
  <2> QED BY <2>1, <2>2, <2>3 DEF SeqRecord, Older
<1>4. ASSUME NEW m \in msgs'
      PROVE  \E o \in msgs : /\ o.age \in Nat /\ o.age < MaxDelay
                             /\ m.age = o.age + 1
                             /\ m.type = o.type /\ m.payload = o.payload
                             /\ m.seq = o.seq /\ m.owner = o.owner
  <2>1. PICK o \in msgs : o.age < MaxDelay /\ m = [o EXCEPT !.age = @ + 1]
    BY <1>4 DEF Tick
  <2>2. o \in Message
    BY <1>0 DEF TypeOK
  <2>3. m = [type |-> o.type, payload |-> o.payload, seq |-> o.seq,
             age |-> o.age + 1, owner |-> o.owner]
    BY <2>1, <2>2 DEF Message
  <2> QED BY <2>1, <2>2, <2>3 DEF Message
<1>5. StoreMirrorsMap' /\ RefreshedAreOffers'
  <2>1. ASSUME NEW p \in Node, NEW g \in Payload
        PROVE  store'[p][g] = IF g \in Persistable THEN map'[p][g] ELSE None
    <3>1. store[p][g] = IF g \in Persistable THEN map[p][g] ELSE None
      BY DEF OrderInv, StoreMirrorsMap
    <3>2. CASE g \in Persistable
      <4>1. store[p][g] = map[p][g]
        BY <3>1, <3>2
      <4> DEFINE aged(e) == IF e = None THEN None ELSE [e EXCEPT !.age = Older(@, Ttl[g])]
      <4>3. store'[p][g] = aged(store[p][g]) /\ map'[p][g] = aged(map[p][g])
        BY <1>1, Zenon
      <4> HIDE DEF aged
      <4>2. store'[p][g] = map'[p][g]
        BY <4>1, <4>3
      <4> QED BY <3>2, <4>2
    <3>3. CASE g \notin Persistable
      <4>1. store[p][g] = None
        BY <3>1, <3>3
      <4>2. store'[p][g] = None
        BY <1>1, <4>1
      <4> QED BY <3>3, <4>2
    <3> QED BY <3>2, <3>3
  <2>2. StoreMirrorsMap'
    BY <2>1 DEF StoreMirrorsMap
  <2> QED BY <1>4, <2>2 DEF OrderInv, RefreshedAreOffers
<1>6. EntryIsLatestOperation'
  <2> SUFFICES ASSUME NEW p \in Node, NEW g \in Payload \ AddOnce,
                      map'[p][g] # None, seqNrs'[p][g] # None
               PROVE  map'[p][g].seq = seqNrs'[p][g].nr
    BY DEF EntryIsLatestOperation
  <2>1. map[p][g] # None
    BY <1>1
  <2>2. seqNrs[p][g] # None
    BY <1>1
  <2>3. map[p][g].seq = seqNrs[p][g].nr
    BY <2>1, <2>2 DEF OrderInv, EntryIsLatestOperation
  <2> QED BY <1>2, <1>3, <2>1, <2>2, <2>3
<1>7. MessagesAreSigned'
  <2> SUFFICES ASSUME NEW m \in msgs', m.payload \in Supersedable
               PROVE  /\ m.owner = Adder[m.payload]
                      /\ m.age <= MaxDelay
                      /\ seqNrs'[m.owner][m.payload] # None
                      /\ m.seq <= seqNrs'[m.owner][m.payload].nr
                      /\ seqNrs'[m.owner][m.payload].age <= m.age
    BY DEF MessagesAreSigned
  <2>1. PICK o \in msgs : /\ o.age \in Nat /\ o.age < MaxDelay
                          /\ m.age = o.age + 1
                          /\ m.type = o.type /\ m.payload = o.payload
                          /\ m.seq = o.seq /\ m.owner = o.owner
    BY <1>4
  <2>2. /\ o.owner = Adder[o.payload]
        /\ seqNrs[o.owner][o.payload] # None
        /\ o.seq <= seqNrs[o.owner][o.payload].nr
        /\ seqNrs[o.owner][o.payload].age <= o.age
        /\ o.payload \in Payload /\ o.owner \in Node
    BY <2>1 DEF OrderInv, MessagesAreSigned, TypeOK, Message
  <2>3. /\ seqNrs'[o.owner][o.payload] # None
        /\ seqNrs[o.owner][o.payload].age \in Nat
        /\ seqNrs'[o.owner][o.payload].age \in Nat
        /\ seqNrs'[o.owner][o.payload].nr = seqNrs[o.owner][o.payload].nr
        /\ seqNrs'[o.owner][o.payload].age <= seqNrs[o.owner][o.payload].age + 1
    BY <1>3, <2>2
  <2> QED BY <2>1, <2>2, <2>3
<1>8. SignedOnce'
  BY <1>4 DEF OrderInv, SignedOnce
<1>9. CopiesFollowOwner'
  <2> SUFFICES ASSUME NEW p \in Node, NEW g \in Supersedable, map'[p][g] # None
               PROVE  /\ map'[p][g].owner = Adder[g]
                      /\ map'[p][g].age <= Ttl[g] + 1
                      /\ seqNrs'[Adder[g]][g] # None
                      /\ map'[p][g].seq <= seqNrs'[Adder[g]][g].nr
                      /\ seqNrs'[Adder[g]][g].age <= map'[p][g].age + MaxDelay
    BY DEF CopiesFollowOwner
  <2>1. g \in Payload /\ Adder[g] \in Node
    BY DEF Supersedable
  <2>2. map[p][g] # None
    BY <1>1, <2>1
  <2>3. /\ map[p][g].owner = Adder[g]
        /\ seqNrs[Adder[g]][g] # None
        /\ map[p][g].seq <= seqNrs[Adder[g]][g].nr
        /\ seqNrs[Adder[g]][g].age <= map[p][g].age + MaxDelay
    BY <2>2 DEF OrderInv, CopiesFollowOwner
  <2> QED BY <1>2, <1>3, <2>1, <2>2, <2>3
<1>10. seen' = seen
  BY DEF Tick
<1>11. RemovalsCovered'
  <2> SUFFICES ASSUME NEW n \in Node, NEW h \in Supersedable
               PROVE  /\ seqNrs'[Adder[h]][h] # None => seen[n][h] <= seqNrs'[Adder[h]][h].nr
                      /\ \A m \in msgs' : m.payload = h =>
                           /\ m.seq <= seen[n][h] => /\ seqNrs'[n][h] # None
                                                    /\ seen[n][h] <= seqNrs'[n][h].nr
                                                    /\ seqNrs'[n][h].age <= m.age
                           /\ m.type # "remove" => m.seq # seen[n][h]
    BY <1>10 DEF RemovalsCovered
  <2>0. h \in Payload /\ Adder[h] \in Node
    BY DEF Supersedable
  <2>1. seqNrs'[Adder[h]][h] # None => seen[n][h] <= seqNrs'[Adder[h]][h].nr
    <3>1. seqNrs'[Adder[h]][h] # None => seqNrs[Adder[h]][h] # None
      BY <1>1, <2>0
    <3> QED BY <1>3, <2>0, <3>1 DEF OrderInv, RemovalsCovered
  <2>2. ASSUME NEW m \in msgs', m.payload = h
        PROVE  /\ m.seq <= seen[n][h] => /\ seqNrs'[n][h] # None
                                        /\ seen[n][h] <= seqNrs'[n][h].nr
                                        /\ seqNrs'[n][h].age <= m.age
               /\ m.type # "remove" => m.seq # seen[n][h]
    <3>1. PICK o \in msgs : /\ o.age \in Nat /\ m.age = o.age + 1
                            /\ m.type = o.type /\ m.payload = o.payload /\ m.seq = o.seq
      BY <1>4
    <3>2. /\ o.seq <= seen[n][h] => /\ seqNrs[n][h] # None
                                   /\ seen[n][h] <= seqNrs[n][h].nr
                                   /\ seqNrs[n][h].age <= o.age
          /\ o.type # "remove" => o.seq # seen[n][h]
      BY <2>2, <3>1 DEF OrderInv, RemovalsCovered
    <3>3. seqNrs[n][h] # None =>
            /\ seqNrs'[n][h] # None
            /\ seqNrs[n][h].age \in Nat /\ seqNrs'[n][h].age \in Nat
            /\ seqNrs'[n][h].nr = seqNrs[n][h].nr
            /\ seqNrs'[n][h].age <= seqNrs[n][h].age + 1
      BY <1>3, <2>0
    <3> QED BY <3>1, <3>2, <3>3
  <2> QED BY <2>1, <2>2
<1>12. NoResurrection'
  <2> SUFFICES ASSUME NEW p \in Node, NEW g \in Supersedable, map'[p][g] # None
               PROVE  map'[p][g].seq > seen[p][g]
    BY <1>10 DEF NoResurrection
  <2>1. g \in Payload
    BY DEF Supersedable
  <2>2. map[p][g] # None
    BY <1>1, <2>1
  <2> QED BY <1>2, <2>1, <2>2 DEF OrderInv, NoResurrection
<1> QED BY <1>5, <1>6, <1>7, <1>8, <1>9, <1>11, <1>12 DEF OrderInv

\* Who signs starts the numbering over if it has no record
LEMMA RenumberedSeen ==
  ASSUME TypeOK, NEW n \in Node, NEW h \in Payload, NEW seq,
         h \in Supersedable => n = Adder[h]
  PROVE  /\ seen' = Renumbered(n, h) => \A type \in {"add", "refresh"} : SeenBecomes(n, h, seq, type)
         /\ seen' = WithSeen(Renumbered(n, h), n, h, seq) => SeenBecomes(n, h, seq, "remove")
<1>1. Renumbered(n, h) \in [Node -> [Payload -> 0 .. MaxSeq]]
  BY SeenTypes
<1>2. \A p \in Node, g \in Supersedable :
        Renumbered(n, h)[p][g] = IF g = h /\ seqNrs[Adder[h]][h] = None THEN 0 ELSE seen[p][g]
  BY DEF Renumbered, Supersedable, TypeOK
<1> HIDE DEF Renumbered
<1>3. \A p \in Node, g \in Supersedable :
        WithSeen(Renumbered(n, h), n, h, seq)[p][g] =
          IF g = h /\ p = n THEN seq ELSE Renumbered(n, h)[p][g]
  BY <1>1 DEF WithSeen, Supersedable
<1>4. ASSUME seen' = Renumbered(n, h), NEW type \in {"add", "refresh"}
      PROVE  SeenBecomes(n, h, seq, type)
  BY <1>2, <1>4 DEF SeenBecomes
<1>5. ASSUME seen' = WithSeen(Renumbered(n, h), n, h, seq)
      PROVE  SeenBecomes(n, h, seq, "remove")
  BY <1>2, <1>3, <1>5 DEF SeenBecomes
<1> QED BY <1>4, <1>5

\* Who gets a message leaves the numbering alone: the owner has a record
LEMMA MessageSeen ==
  ASSUME OrderInv, NEW n \in Node, NEW m \in msgs
  PROVE  /\ seen' = seen => \A type \in {"add", "refresh"} : SeenBecomes(n, m.payload, m.seq, type)
         /\ seen' = WithSeen(seen, n, m.payload, m.seq) =>
              SeenBecomes(n, m.payload, m.seq, "remove")
<1>1. m.payload \in Supersedable => seqNrs[Adder[m.payload]][m.payload] # None
  BY DEF OrderInv, MessagesAreSigned
<1>2. m.payload \in Payload /\ seen \in [Node -> [Payload -> 0 .. MaxSeq]]
  BY DEF OrderInv, TypeOK, Message
<1>3. ASSUME seen' = seen, NEW type \in {"add", "refresh"}
      PROVE  SeenBecomes(n, m.payload, m.seq, type)
  BY <1>1, <1>3 DEF SeenBecomes
<1>4. ASSUME seen' = WithSeen(seen, n, m.payload, m.seq)
      PROVE  SeenBecomes(n, m.payload, m.seq, "remove")
  BY <1>1, <1>2, <1>4 DEF SeenBecomes, WithSeen, Supersedable
<1> QED BY <1>3, <1>4

\* What the application publishes is signed now, with the owner's next number
LEMMA PublishOrder ==
  ASSUME OrderInv, NEW n \in Node, NEW h \in Payload,
         PublishAdd(n, h) \/ PublishRefresh(n, h) \/ PublishRemove(n, h)
  PROVE  OrderInv'
<1> USE ConstantsAssumption, NoneAssumption
<1>0. TypeOK
  BY DEF OrderInv
<1>1. /\ NewEntry(n, h) \in Entry /\ NewEntry(n, h).seq = NextSeq(n, h)
      /\ NewEntry(n, h).age = 0 /\ NewEntry(n, h).owner = n
      /\ NextSeq(n, h) \in Seqs
  <2>1. NewEntry(n, h) \in Entry
    BY NewEntryType DEF OrderInv, PublishAdd, PublishRefresh, PublishRemove
  <2> QED BY <2>1 DEF NewEntry, Entry
<1> DEFINE m(type) == AsMessage(type, h, NewEntry(n, h))
<1>2. \A type : /\ m(type).type = type /\ m(type).payload = h /\ m(type).owner = n
                /\ m(type).age = 0 /\ m(type).seq = NextSeq(n, h)
  BY <1>1 DEF AsMessage
<1>3. ASSUME n = Adder[h], NEW type
      PROVE  SignedNowOrBefore(n, h, NextSeq(n, h), m(type))
  BY <1>2, <1>3 DEF SignedNowOrBefore
<1>4. CASE PublishAdd(n, h)
  <2>1. add_protected_storage_entry(n, h, NewEntry(n, h)) /\ n = Adder[h]
    BY <1>1, <1>4 DEF PublishAdd, add_protected_storage_entry, CanAdd, is_valid_for_add_operation
  <2>2. SeenOK' /\ SeenBecomes(n, h, NextSeq(n, h), "add")
    BY <1>0, <1>4, <2>1, SeenTypes, RenumberedSeen DEF PublishAdd, SeenOK
  <2> QED BY <1>1, <1>3, <2>1, <2>2, AddOrder
<1>5. CASE PublishRefresh(n, h)
  <2>1. /\ refresh_ttl(n, h, NextSeq(n, h), m("refresh"))
        /\ h \in OwnerOnline
    BY <1>5 DEF PublishRefresh
  <2>2. n = Adder[h]
    BY <1>2, <2>1 DEF refresh_ttl, is_valid_for_add_operation
  <2>3. m("refresh") \in Message
    BY <1>1 DEF AsMessage, Message, Entry
  <2>4. SeenOK' /\ SeenBecomes(n, h, NextSeq(n, h), "refresh")
    BY <1>0, <1>5, <2>2, SeenTypes, RenumberedSeen DEF PublishRefresh, SeenOK
  <2> HIDE DEF m
  <2> QED BY <1>1, <1>2, <1>3, <2>1, <2>2, <2>3, <2>4, RefreshOrder
<1>6. CASE PublishRemove(n, h)
  <2>1. remove(n, h, NewEntry(n, h)) /\ n = Remover[h]
    BY <1>1, <1>6 DEF PublishRemove, remove, is_valid_for_remove_operation
  <2>2. SignedNowOrBefore(n, h, NextSeq(n, h), m("remove"))
    <3>1. CASE h \in AddOnce
      BY <3>1 DEF SignedNowOrBefore, Supersedable
    <3>2. CASE h \notin AddOnce
      BY <1>3, <2>1, <3>2
    <3> QED BY <3>1, <3>2
  <2>3. SeenOK' /\ SeenBecomes(n, h, NextSeq(n, h), "remove")
    <3>1. h \in Supersedable => n = Adder[h]
      BY <2>1 DEF Supersedable
    <3> QED BY <1>0, <1>1, <1>6, <3>1, SeenTypes, RenumberedSeen DEF PublishRemove, SeenOK
  <2> QED BY <1>1, <2>1, <2>2, <2>3, RemoveOrder
<1> QED BY <1>4, <1>5, <1>6

\* Nothing the ordering rests on is touched by a write to the files or by mailbox entries
LEMMA UnchangedOrder ==
  ASSUME OrderInv, TypeOK', UNCHANGED <<seqNrs, store, msgs, seen>>,
         \A p \in Node, h \in Payload \ AddOnce : map'[p][h] = map[p][h]
  PROVE  OrderInv'
<1>1. StoreMirrorsMap' /\ RefreshedAreOffers'
  BY ConstantsAssumption DEF OrderInv, StoreMirrorsMap, RefreshedAreOffers
<1>2. EntryIsLatestOperation'
  BY DEF OrderInv, EntryIsLatestOperation
<1>3. \A p \in Node, h \in Supersedable : map'[p][h] = map[p][h]
  BY DEF Supersedable
<1>4. MessagesAreSigned' /\ SignedOnce' /\ RemovalsCovered'
  BY DEF OrderInv, MessagesAreSigned, SignedOnce, RemovalsCovered
<1>5. CopiesFollowOwner' /\ NoResurrection'
  BY <1>3 DEF OrderInv, CopiesFollowOwner, NoResurrection
<1> QED BY <1>1, <1>2, <1>4, <1>5 DEF OrderInv

\* What a peer sends was in flight
LEMMA MessageOrder ==
  ASSUME OrderInv, NEW n \in Node, NEW m \in msgs, on_message(n, m)
  PROVE  OrderInv'
<1> USE ConstantsAssumption, NoneAssumption
<1>1. m \in Message
  BY DEF OrderInv, TypeOK
<1>2. /\ m.payload \in Payload /\ m.seq \in Seqs /\ AsEntry(m) \in Entry
      /\ AsEntry(m).seq = m.seq
      /\ AsMessage(m.type, m.payload, AsEntry(m)) = m
  BY <1>1 DEF Message, AsEntry, AsMessage, Entry
<1>3. SignedNowOrBefore(n, m.payload, m.seq, m)
  BY DEF SignedNowOrBefore, OrderInv, MessagesAreSigned
<1>4. TypeOK /\ SeenOK
  BY DEF OrderInv, TypeOK, SeenOK
<1>5. CASE OnAddData(n, m)
  <2>1. seen' = seen /\ SeenOK'
    BY <1>4, <1>5 DEF OnAddData, SeenOK
  <2>2. SeenBecomes(n, m.payload, m.seq, "add")
    BY <2>1, MessageSeen
  <2>3. CASE add_protected_storage_entry(n, m.payload, AsEntry(m))
    BY <1>2, <1>3, <1>5, <2>1, <2>2, <2>3, AddOrder DEF OnAddData
  <2>4. CASE AddRaises(n, m.payload, AsEntry(m))
    <3>1. TypeOK' /\ m.payload \in AddOnce
      BY <1>2, <1>4, <2>1, <2>4, RaisesType DEF AddRaises
    <3>2. \A p \in Node, h \in Payload \ AddOnce : map'[p][h] = map[p][h]
      BY <1>2, <1>4, <2>4, <3>1 DEF AddRaises, TypeOK, EntryMap
    <3>3. UNCHANGED <<seqNrs, store, msgs, seen>>
      BY <2>1, <2>4 DEF AddRaises
    <3> QED BY <3>1, <3>2, <3>3, UnchangedOrder
  <2> QED BY <1>5, <2>3, <2>4 DEF OnAddData
<1>6. CASE OnRefreshOffer(n, m)
  <2>1. m.payload \in OwnerOnline
    BY <1>6 DEF OnRefreshOffer, OrderInv, RefreshedAreOffers
  <2>2. SeenOK' /\ SeenBecomes(n, m.payload, m.seq, "refresh")
    BY <1>4, <1>6, MessageSeen DEF OnRefreshOffer, SeenOK
  <2> QED BY <1>1, <1>2, <1>3, <1>6, <2>1, <2>2, RefreshOrder DEF OnRefreshOffer
<1>7. CASE OnRemoveData(n, m)
  <2>1. seen' = WithSeen(seen, n, m.payload, m.seq)
    BY <1>7 DEF OnRemoveData
  <2>2. SeenOK'
    BY <1>2, <1>4, <2>1, SeenTypes DEF SeenOK
  <2>3. SeenBecomes(n, m.payload, m.seq, "remove")
    BY <2>1, MessageSeen
  <2> QED BY <1>2, <1>3, <1>7, <2>2, <2>3, RemoveOrder DEF OnRemoveData
<1> QED BY <1>5, <1>6, <1>7 DEF on_message

(* As long as no node dies (a clean restart is allowed), the operations on  *)
(* a payload are totally ordered by the owner's number: every message and   *)
(* every copy is covered by the owner's record, whatever is lost, repeated  *)
(* or reordered, and whatever old numbers are purged.                       *)
THEOREM OrderInvariant ==
  ASSUME MaxCrashes = 0
  PROVE  Spec => []OrderInv
<1> USE ConstantsAssumption, NoneAssumption
<1>1. Init => OrderInv
  <2>1. Init => TypeOK
    BY DEF Init, TypeOK, EmptyMap, EntryMap, SeqMap, RemovedMap, Files
  <2> QED BY <2>1 DEF Init, OrderInv, EmptyMap, StoreMirrorsMap, RefreshedAreOffers,
       EntryIsLatestOperation, MessagesAreSigned, SignedOnce, CopiesFollowOwner,
       RemovalsCovered, NoResurrection, Supersedable
<1>2. OrderInv /\ TypeOK' /\ [Next]_vars => OrderInv'
  <2> SUFFICES ASSUME OrderInv, TypeOK', [Next]_vars PROVE OrderInv'
    OBVIOUS
  <2>1. CASE UNCHANGED vars
    BY <2>1, UnchangedOrder DEF vars
  <2>2. ASSUME NEW n \in Node, NEW h \in Payload,
               PublishAdd(n, h) \/ PublishRefresh(n, h) \/ PublishRemove(n, h)
        PROVE  OrderInv'
    BY <2>2, PublishOrder
  <2>3. ASSUME NEW n \in Node, NEW m \in msgs, on_message(n, m) PROVE OrderInv'
    BY <2>3, MessageOrder
  <2>4. ASSUME NEW n \in Node, remove_expired_entries(n) PROVE OrderInv'
    BY <2>4, ExpireOrder
  <2>5. ASSUME NEW n \in Node, NEW p \in Node, on_disconnect(n, p) PROVE OrderInv'
    BY <2>5, DisconnectOrder
  <2>6. ASSUME NEW n \in Node, PersistSeqNrs(n) \/ PersistRemoved(n) \/ PersistStore(n)
        PROVE  OrderInv'
    BY <2>6, UnchangedOrder DEF PersistSeqNrs, PersistRemoved, PersistStore
  <2>7. ASSUME NEW n \in Node, Restart(n) PROVE OrderInv'
    BY <2>7, RestartOrder
  <2>8. ASSUME NEW n \in Node, Crash(n) PROVE OrderInv'
    BY <2>8 DEF Crash, OrderInv, TypeOK
  <2>9. CASE Tick
    BY <2>9, TickOrder
  <2>10. ASSUME NEW n \in Node, NEW h \in Payload, ListMail(n, h) \/ UnlistMail(n, h)
         PROVE  OrderInv'
    BY <2>10, UnchangedOrder DEF ListMail, UnlistMail
  <2> QED BY <2>1, <2>2, <2>3, <2>4, <2>5, <2>6, <2>7, <2>8, <2>9, <2>10 DEF Next
<1> QED BY <1>1, <1>2, TypeCorrect, PTL DEF Spec

(* A stored entry is the last operation its node applied to it, as long as  *)
(* its number has not been purged (clean runs).                             *)
THEOREM EntriesAreLatest ==
  ASSUME MaxCrashes = 0
  PROVE  Spec => []EntryIsLatestOperation
<1>1. OrderInv => EntryIsLatestOperation
  BY DEF OrderInv
<1> QED BY <1>1, OrderInvariant, PTL

(* A removal is final for the version it removed: an old add or refresh that *)
(* arrives after remove() ran brings nothing back, whatever the node has     *)
(* applied, purged or restarted since (clean runs).                          *)
THEOREM RemovalIsFinal ==
  ASSUME MaxCrashes = 0
  PROVE  Spec => []NoResurrection
<1>1. OrderInv => NoResurrection
  BY DEF OrderInv
<1> QED BY <1>1, OrderInvariant, PTL

(* What the owner signs next is newer than every copy anywhere: its own     *)
(* record is never purged or lost while a copy lives (clean runs).          *)
THEOREM OwnerIsAhead ==
  ASSUME MaxCrashes = 0
  PROVE  Spec => []OwnerSupersedes
<1>1. OrderInv => OwnerSupersedes
  BY NewNumberIsNew DEF OwnerSupersedes
<1> QED BY <1>1, OrderInvariant, PTL

-----------------------------------------------------------------------------
(* The persisted payloads, for runs with crashes too                        *)

\* The file of the protected data store never holds another kind of payload
FilesHoldPersistable ==
  \A n \in Node, h \in Payload \ Persistable : disk[n].store[h] = None

\* The inductive invariant of all runs
MirrorInv ==
  /\ TypeOK
  /\ StoreMirrorsMap
  /\ RefreshedAreOffers
  /\ FilesHoldPersistable

\* Accepting an entry stores it in both places, or in the map only
LEMMA AddMirror ==
  ASSUME MirrorInv, NEW n \in Node, NEW h \in Payload, NEW e \in Entry,
         add_protected_storage_entry(n, h, e)
  PROVE  StoreMirrorsMap' /\ RefreshedAreOffers' /\ FilesHoldPersistable'
<1>1. /\ Becomes(map, map', n, h, e)
      /\ h \in Persistable => Becomes(store, store', n, h, e)
      /\ h \notin Persistable => store' = store
  BY AddBecomes DEF MirrorInv
<1>2. disk' = disk /\ msgs' = msgs \cup {AsMessage("add", h, e)}
  BY DEF add_protected_storage_entry
<1>3. StoreMirrorsMap'
  BY <1>1 DEF MirrorInv, StoreMirrorsMap, Becomes
<1> QED BY <1>2, <1>3 DEF MirrorInv, RefreshedAreOffers, FilesHoldPersistable, AsMessage

\* A refresh touches offers only, which are not in the store
LEMMA RefreshMirror ==
  ASSUME MirrorInv, NEW n \in Node, NEW h \in OwnerOnline, NEW seq \in Seqs,
         NEW m \in Message, m.payload = h, refresh_ttl(n, h, seq, m)
  PROVE  StoreMirrorsMap' /\ RefreshedAreOffers' /\ FilesHoldPersistable'
<1>1. h \in Payload /\ h \notin Persistable
  BY ConstantsAssumption
<1>2. Becomes(map, map', n, h, [seq |-> seq, age |-> 0, owner |-> map[n][h].owner])
  BY <1>1, RefreshBecomes DEF MirrorInv
<1>3. store' = store /\ disk' = disk /\ msgs' = msgs \cup {m}
  BY DEF refresh_ttl
<1>4. StoreMirrorsMap'
  BY <1>1, <1>2, <1>3 DEF MirrorInv, StoreMirrorsMap, Becomes
<1> QED BY <1>3, <1>4 DEF MirrorInv, RefreshedAreOffers, FilesHoldPersistable

\* A removal takes the payload out of both places
LEMMA RemoveMirror ==
  ASSUME MirrorInv, NEW n \in Node, NEW h \in Payload, NEW e \in Entry, remove(n, h, e)
  PROVE  StoreMirrorsMap' /\ RefreshedAreOffers' /\ FilesHoldPersistable'
<1>1. /\ Becomes(map, map', n, h, None)
      /\ h \in Persistable /\ map[n][h] # None => Becomes(store, store', n, h, None)
      /\ ~ (h \in Persistable /\ map[n][h] # None) => store' = store
  BY RemoveBecomes DEF MirrorInv
<1>2. disk' = disk /\ msgs' = msgs \cup {AsMessage("remove", h, e)}
  BY DEF remove
<1>3. StoreMirrorsMap'
  BY <1>1 DEF MirrorInv, StoreMirrorsMap, Becomes
<1> QED BY <1>2, <1>3 DEF MirrorInv, RefreshedAreOffers, FilesHoldPersistable, AsMessage

\* Starting from any of the files, a node's map is what its store holds
LEMMA ReadMirror ==
  ASSUME MirrorInv, NEW n \in Node,
         NEW files \in Files,
         \A h \in Payload \ Persistable : files.store[h] = None,
         ReadPersisted(n, files)
  PROVE  StoreMirrorsMap'
<1>1. ASSUME NEW p \in Node, NEW g \in Payload
      PROVE  /\ g \notin AddOnce => map'[p][g] = IF p = n THEN files.store[g] ELSE map[p][g]
             /\ store'[p][g] = IF p = n THEN files.store[g] ELSE store[p][g]
  BY DEF MirrorInv, TypeOK, ReadPersisted
<1> QED BY <1>1, ConstantsAssumption DEF MirrorInv, StoreMirrorsMap

\* The copies in the map, in the store and in the file age alike
LEMMA TickMirror ==
  ASSUME MirrorInv, Tick
  PROVE  StoreMirrorsMap' /\ RefreshedAreOffers' /\ FilesHoldPersistable'
<1> DEFINE aged(e, h) == IF e = None THEN None ELSE [e EXCEPT !.age = Older(@, Ttl[h])]
<1>1. ASSUME NEW p \in Node, NEW g \in Payload
      PROVE  /\ map'[p][g] = aged(map[p][g], g)
             /\ store'[p][g] = aged(store[p][g], g)
             /\ disk'[p].store[g] = aged(disk[p].store[g], g)
  BY DEF Tick, OlderEntries, OlderFiles
<1>2. \A h : aged(None, h) = None
  OBVIOUS
<1> HIDE DEF aged
<1>3. StoreMirrorsMap'
  BY <1>1, <1>2 DEF MirrorInv, StoreMirrorsMap
<1>4. FilesHoldPersistable'
  BY <1>1, <1>2 DEF MirrorInv, FilesHoldPersistable
<1>5. RefreshedAreOffers'
  <2> SUFFICES ASSUME NEW m \in msgs', m.type = "refresh" PROVE m.payload \in OwnerOnline
    BY DEF RefreshedAreOffers
  <2>1. PICK o \in msgs : m = [o EXCEPT !.age = @ + 1]
    BY DEF Tick
  <2>2. o \in Message
    BY DEF MirrorInv, TypeOK
  <2>3. m.type = o.type /\ m.payload = o.payload
    BY <2>1, <2>2 DEF Message
  <2> QED BY <2>3 DEF MirrorInv, RefreshedAreOffers
<1> QED BY <1>3, <1>4, <1>5

(* The map, the protected data store and its file agree on which payloads   *)
(* are persisted, in every run, also when nodes die between two of the      *)
(* writes that bring the three files of a node up to date.                  *)
THEOREM MirrorInvariant == Spec => []MirrorInv
<1> USE ConstantsAssumption, NoneAssumption
<1>1. Init => StoreMirrorsMap /\ RefreshedAreOffers /\ FilesHoldPersistable
  BY DEF Init, EmptyMap, StoreMirrorsMap, RefreshedAreOffers, FilesHoldPersistable
<1>2. MirrorInv /\ [Next]_vars => StoreMirrorsMap' /\ RefreshedAreOffers' /\ FilesHoldPersistable'
  <2> SUFFICES ASSUME MirrorInv, [Next]_vars
               PROVE  StoreMirrorsMap' /\ RefreshedAreOffers' /\ FilesHoldPersistable'
    OBVIOUS
  <2> USE DEF MirrorInv
  <2>1. CASE UNCHANGED vars
    BY <2>1 DEF vars, StoreMirrorsMap, RefreshedAreOffers, FilesHoldPersistable
  <2>2. ASSUME NEW n \in Node, NEW h \in Payload, PublishAdd(n, h)
        PROVE  StoreMirrorsMap' /\ RefreshedAreOffers' /\ FilesHoldPersistable'
    BY <2>2, NewEntryType, AddMirror DEF PublishAdd
  <2>3. ASSUME NEW n \in Node, NEW h \in Payload, PublishRefresh(n, h)
        PROVE  StoreMirrorsMap' /\ RefreshedAreOffers' /\ FilesHoldPersistable'
    <3>1. NewEntry(n, h) \in Entry
      BY <2>3, NewEntryType DEF PublishRefresh
    <3>2. /\ AsMessage("refresh", h, NewEntry(n, h)) \in Message
          /\ AsMessage("refresh", h, NewEntry(n, h)).payload = h
          /\ NextSeq(n, h) \in Seqs
      BY <3>1 DEF AsMessage, Message, Entry, NewEntry
    <3> QED BY <2>3, <3>2, RefreshMirror DEF PublishRefresh
  <2>4. ASSUME NEW n \in Node, NEW h \in Payload, PublishRemove(n, h)
        PROVE  StoreMirrorsMap' /\ RefreshedAreOffers' /\ FilesHoldPersistable'
    BY <2>4, NewEntryType, RemoveMirror DEF PublishRemove
  <2>5. ASSUME NEW n \in Node, NEW m \in msgs, on_message(n, m)
        PROVE  StoreMirrorsMap' /\ RefreshedAreOffers' /\ FilesHoldPersistable'
    <3>1. m \in Message /\ m.payload \in Payload /\ m.seq \in Seqs /\ AsEntry(m) \in Entry
      BY DEF TypeOK, Message, AsEntry, Entry
    <3>2. CASE OnAddData(n, m)
      <4>1. CASE add_protected_storage_entry(n, m.payload, AsEntry(m))
        BY <3>1, <4>1, AddMirror
      <4>2. CASE AddRaises(n, m.payload, AsEntry(m))
        <5>1. m.payload \in AddOnce /\ UNCHANGED <<store, disk, msgs>>
          BY <4>2 DEF AddRaises
        <5>2. \A p \in Node, h \in Payload \ AddOnce : map'[p][h] = map[p][h]
          BY <3>1, <4>2, <5>1 DEF AddRaises, TypeOK, EntryMap
        <5> QED BY <5>1, <5>2 DEF StoreMirrorsMap, RefreshedAreOffers, FilesHoldPersistable
      <4> QED BY <3>2, <4>1, <4>2 DEF OnAddData
    <3>3. CASE OnRefreshOffer(n, m)
      BY <3>1, <3>3, RefreshMirror DEF OnRefreshOffer, RefreshedAreOffers
    <3>4. CASE OnRemoveData(n, m)
      BY <3>1, <3>4, RemoveMirror DEF OnRemoveData
    <3> QED BY <2>5, <3>2, <3>3, <3>4 DEF on_message
  <2>6. ASSUME NEW n \in Node, remove_expired_entries(n)
        PROVE  StoreMirrorsMap' /\ RefreshedAreOffers' /\ FilesHoldPersistable'
    <3>1. \A p \in Node, g \in Payload :
            /\ store'[p][g] = IF p = n /\ g \in Expired(n) /\ g \in Persistable
                              THEN None ELSE store[p][g]
            /\ map'[p][g] = IF p = n /\ g \in Expired(n) THEN None ELSE map[p][g]
      BY <2>6, DropQuiet DEF remove_expired_entries
    <3>2. disk' = disk /\ msgs' = msgs
      BY <2>6 DEF remove_expired_entries
    <3> QED BY <3>1, <3>2 DEF StoreMirrorsMap, RefreshedAreOffers, FilesHoldPersistable
  <2>7. ASSUME NEW n \in Node, NEW p \in Node, on_disconnect(n, p)
        PROVE  StoreMirrorsMap' /\ RefreshedAreOffers' /\ FilesHoldPersistable'
    <3>1. \A q \in Node, g \in Payload \ OwnerOnline : map'[q][g] = map[q][g]
      BY <2>7 DEF TypeOK, EntryMap, on_disconnect
    <3>2. disk' = disk /\ msgs' = msgs /\ store' = store
      BY <2>7 DEF on_disconnect
    <3> QED BY <3>1, <3>2 DEF StoreMirrorsMap, RefreshedAreOffers, FilesHoldPersistable
  <2>8. ASSUME NEW n \in Node, PersistSeqNrs(n) \/ PersistRemoved(n) \/ PersistStore(n)
        PROVE  StoreMirrorsMap' /\ RefreshedAreOffers' /\ FilesHoldPersistable'
    <3>1. map' = map /\ store' = store /\ msgs' = msgs
      BY <2>8 DEF PersistSeqNrs, PersistRemoved, PersistStore
    <3>2. \A p \in Node : disk'[p].store = disk[p].store \/ disk'[p].store = store[p]
      <4>1. \A p \in Node : disk[p] \in Files
        BY DEF TypeOK
      <4>2. CASE PersistSeqNrs(n)
        BY <4>1, <4>2 DEF PersistSeqNrs, TypeOK, Files
      <4>3. CASE PersistRemoved(n)
        BY <4>1, <4>3 DEF PersistRemoved, TypeOK, Files
      <4>4. CASE PersistStore(n)
        BY <4>1, <4>4 DEF PersistStore, TypeOK, Files
      <4> QED BY <2>8, <4>2, <4>3, <4>4
    <3> QED BY <3>1, <3>2 DEF StoreMirrorsMap, RefreshedAreOffers, FilesHoldPersistable
  <2>9. ASSUME NEW n \in Node, Restart(n)
        PROVE  StoreMirrorsMap' /\ RefreshedAreOffers' /\ FilesHoldPersistable'
    <3> DEFINE files == [seqNrs |-> seqNrs[n], removed |-> removed[n],
                         store |-> store[n], list |-> disk[n].list]
    <3>1. /\ files \in Files
          /\ \A h \in Payload \ Persistable : files.store[h] = None
      BY DEF TypeOK, StoreMirrorsMap, Files
    <3>2. ReadPersisted(n, files) /\ disk' = [disk EXCEPT ![n] = files] /\ msgs' = msgs
      BY <2>9 DEF Restart
    <3> HIDE DEF files
    <3>3. StoreMirrorsMap'
      BY <3>1, <3>2, ReadMirror
    <3>4. FilesHoldPersistable'
      BY <3>1, <3>2 DEF FilesHoldPersistable, TypeOK
    <3> QED BY <3>2, <3>3, <3>4 DEF RefreshedAreOffers
  <2>10. ASSUME NEW n \in Node, Crash(n)
        PROVE  StoreMirrorsMap' /\ RefreshedAreOffers' /\ FilesHoldPersistable'
    <3>1. /\ disk[n] \in Files
          /\ \A h \in Payload \ Persistable : disk[n].store[h] = None
      BY DEF TypeOK, FilesHoldPersistable
    <3>2. ReadPersisted(n, disk[n]) /\ disk' = disk /\ msgs' = msgs
      BY <2>10 DEF Crash
    <3>3. StoreMirrorsMap'
      BY <3>1, <3>2, ReadMirror
    <3> QED BY <3>2, <3>3 DEF RefreshedAreOffers, FilesHoldPersistable
  <2>11. CASE Tick
    BY <2>11, TickMirror
  <2>12. ASSUME NEW n \in Node, NEW h \in Payload, ListMail(n, h) \/ UnlistMail(n, h)
         PROVE  StoreMirrorsMap' /\ RefreshedAreOffers' /\ FilesHoldPersistable'
    <3>1. UNCHANGED <<map, store, msgs>>
      BY <2>12 DEF ListMail, UnlistMail
    <3>2. \A p \in Node : disk'[p].store = disk[p].store
      <4>1. \A p \in Node : disk[p] \in Files
        BY DEF TypeOK
      <4>2. \E v : disk' = [disk EXCEPT ![n].list[h] = v]
        BY <2>12 DEF ListMail, UnlistMail
      <4> QED BY <4>1, <4>2 DEF TypeOK, Files
    <3> QED BY <3>1, <3>2 DEF StoreMirrorsMap, RefreshedAreOffers, FilesHoldPersistable
  <2> QED BY <2>1, <2>2, <2>3, <2>4, <2>5, <2>6, <2>7, <2>8, <2>9, <2>10, <2>11, <2>12 DEF Next
<1> QED BY <1>1, <1>2, TypeCorrect, PTL DEF Spec, MirrorInv

(* What a node stores of a persistable payload and what its protected data  *)
(* store holds never part, whatever adds, removes, expires or reloads it.   *)
THEOREM StoreFollowsMap == Spec => []StoreMirrorsMap
<1>1. MirrorInv => StoreMirrorsMap
  BY DEF MirrorInv
<1> QED BY <1>1, MirrorInvariant, PTL

-----------------------------------------------------------------------------
(* Removed mailbox messages                                                 *)

(* While a node remembers the removal of a mailbox message, neither a       *)
(* message with whatever number nor any other step of the running node      *)
(* brings it back (has_already_removed_add_once_payload); only a start      *)
(* does, from the file of the mailbox list, also after crashes.             *)
THEOREM OnlyReloaded == Spec => RemovedMailOnlyReloaded
<1> USE ConstantsAssumption, NoneAssumption
<1>1. TypeOK /\ [Next]_vars =>
        [\A n \in Node, h \in AddOnce :
           removed'[n][h] # None /\ map[n][h] = None /\ map'[n][h] # None
           => (Restart(n) \/ Crash(n)) /\ disk[n].list[h] # None]_vars
  <2> SUFFICES ASSUME TypeOK, Next, NEW n \in Node, NEW h \in AddOnce,
                      removed'[n][h] # None, map[n][h] = None, map'[n][h] # None
               PROVE  (Restart(n) \/ Crash(n)) /\ disk[n].list[h] # None
    BY DEF vars
  <2>0. h \in Payload
    OBVIOUS
  <2>1. ASSUME NEW p \in Node, NEW g \in Payload, NEW e,
               CanAdd(p, g, e), map' = [map EXCEPT ![p][g] = e], removed' = removed
        PROVE  FALSE
    <3>1. p = n /\ g = h
      BY <2>0, <2>1 DEF TypeOK, EntryMap
    <3> QED BY <2>1, <3>1 DEF CanAdd, has_already_removed_add_once_payload
  <2>2. ASSUME NEW p \in Node, NEW g \in Payload, NEW seq, NEW m, refresh_ttl(p, g, seq, m)
        PROVE  FALSE
    BY <2>0, <2>2 DEF refresh_ttl, TypeOK, EntryMap
  <2>3. ASSUME NEW p \in Node, NEW hs, remove_from_map_and_data_store(p, hs)
        PROVE  FALSE
    BY <2>0, <2>3, DropQuiet
  <2>4. ASSUME NEW p \in Node, NEW g \in Payload,
               PublishAdd(p, g) \/ PublishRefresh(p, g) \/ PublishRemove(p, g)
        PROVE  FALSE
    BY <2>1, <2>2, <2>3, <2>4
       DEF PublishAdd, PublishRefresh, PublishRemove, add_protected_storage_entry, remove
  <2>5. ASSUME NEW p \in Node, NEW m \in msgs, on_message(p, m)
        PROVE  FALSE
    <3>1. m.payload \in Payload
      BY DEF TypeOK, Message
    <3>2. CASE OnAddData(p, m)
      BY <2>1, <3>1, <3>2 DEF OnAddData, add_protected_storage_entry, AddRaises
    <3>3. CASE OnRefreshOffer(p, m)
      BY <2>2, <3>1, <3>3 DEF OnRefreshOffer
    <3>4. CASE OnRemoveData(p, m)
      BY <2>3, <3>4 DEF OnRemoveData, remove
    <3> QED BY <2>5, <3>2, <3>3, <3>4 DEF on_message
  <2>6. ASSUME NEW p \in Node, remove_expired_entries(p) PROVE FALSE
    BY <2>3, <2>6 DEF remove_expired_entries
  <2>7. ASSUME NEW p \in Node, NEW q \in Node, on_disconnect(p, q) PROVE FALSE
    BY <2>0, <2>7 DEF on_disconnect, TypeOK, EntryMap
  <2>8. ASSUME map' = map PROVE FALSE
    BY <2>8
  <2>9. CASE Tick
    BY <2>0, <2>9 DEF Tick, OlderEntries
  <2>10. ASSUME NEW p \in Node, NEW files \in Files, ReadPersisted(p, files)
         PROVE  p = n /\ files.list[h] # None
    <3>1. p = n
      BY <2>10 DEF ReadPersisted, TypeOK
    <3>2. map'[n][h] = Reloaded(files.list)[h]
      BY <2>0, <2>10, <3>1 DEF ReadPersisted, TypeOK
    <3> QED BY <2>0, <3>1, <3>2 DEF Reloaded
  <2>11. ASSUME NEW p \in Node, Restart(p)
         PROVE  (Restart(n) \/ Crash(n)) /\ disk[n].list[h] # None
    <3> DEFINE files == [seqNrs |-> seqNrs[p], removed |-> removed[p],
                         store |-> store[p], list |-> disk[p].list]
    <3>1. ReadPersisted(p, files) /\ files \in Files /\ files.list = disk[p].list
      BY <2>11 DEF Restart, TypeOK, Files
    <3> HIDE DEF files
    <3>2. p = n /\ disk[n].list[h] # None
      BY <2>10, <3>1
    <3> QED BY <2>11, <3>2
  <2>12. ASSUME NEW p \in Node, Crash(p)
         PROVE  (Restart(n) \/ Crash(n)) /\ disk[n].list[h] # None
    <3>1. ReadPersisted(p, disk[p]) /\ disk[p] \in Files
      BY <2>12 DEF Crash, TypeOK
    <3>2. p = n /\ disk[n].list[h] # None
      BY <2>10, <3>1
    <3> QED BY <2>12, <3>2
  <2>13. ASSUME NEW p \in Node, PersistSeqNrs(p) \/ PersistRemoved(p) \/ PersistStore(p)
         PROVE  FALSE
    BY <2>8, <2>13 DEF PersistSeqNrs, PersistRemoved, PersistStore
  <2>14. ASSUME NEW p \in Node, NEW g \in Payload, ListMail(p, g) \/ UnlistMail(p, g)
         PROVE  FALSE
    BY <2>8, <2>14 DEF ListMail, UnlistMail
  <2>15. CASE \E p \in Node, g \in Payload :
                \/ PublishAdd(p, g) \/ PublishRefresh(p, g) \/ PublishRemove(p, g)
                \/ ListMail(p, g) \/ UnlistMail(p, g)
    BY <2>4, <2>14, <2>15
  <2>16. CASE \E p \in Node, m \in msgs : on_message(p, m)
    BY <2>5, <2>16
  <2>17. CASE \E p \in Node : \/ remove_expired_entries(p)
                              \/ \E q \in Node \ {p} : on_disconnect(p, q)
                              \/ PersistSeqNrs(p) \/ PersistRemoved(p) \/ PersistStore(p)
                              \/ Restart(p) \/ Crash(p)
    BY <2>6, <2>7, <2>11, <2>12, <2>13, <2>17
  <2> QED BY <2>9, <2>15, <2>16, <2>17 DEF Next
<1> QED BY <1>1, TypeCorrect, PTL DEF Spec, RemovedMailOnlyReloaded
=============================================================================
