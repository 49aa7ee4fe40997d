# A TLA+ verification of bisq_light_client

bisq_light_client is a Python port of the Bisq trading application. This
directory holds TLA+ models of the parts on which the safety of a user's trades
and data depends, the TLC configurations that check them on small instances,
and proofs, checked by TLAPS, of the most important properties for every value
of the parameters.

All paths below are relative to the repository's `bisq/` package unless they
say otherwise.

## 1. The system

One daemon process (`daemon/bisq_daemon_main.py`) runs any number of users. Every
user has a container of services (`core/user/user_context.py`) that work on one
*user thread*; sockets, timers and file writers are threads of their own and hand
their results over with `UserThread.execute`. A node keeps TCP connections over
Tor to some ten peers, floods messages through them, and shares with them a
replicated store of signed, expiring payloads: offers, mailbox messages, DAO
proposals, filters, alerts. A trade is a protocol between two nodes, driven by
direct messages, by the two users' clicks and by what the Bitcoin network
reports; its state is a file of the user, written by a `PersistenceManager`.

### 1.1 Inventory

| Component | State it keeps | Operations | Hard behaviour |
|---|---|---|---|
| P2P data storage (`core/network/p2p/storage/p2p_data_storage.py`) | `map` of entries, `sequence_number_map`, removed payloads, protected data store; three files | add, refresh, remove, expire, purge, backdate on disconnect, get-data responses, read persisted | messages lost, repeated, reordered; nodes restart from files of different ages; numbers forgotten |
| P2P service (`p2p_service.py`) | own keys and address | sign and publish an add, refresh or removal | signs with a number taken from its own, possibly purged, record |
| Persistence (`common/persistence/`) | per manager: data, request flag, timer, write queue; per user: the orchestrator of the flush | request, timer, write, flush at shutdown, read | user thread against write thread; flush against requests; failing writes; crash between two writes |
| Graceful shutdown (`daemon/bisq_daemon_main.py`, `core/user/`) | countdowns of users and of flushes, timer | shut down users, time limit, flush and exit | the time limit's thread against the users' own shutdown |
| Trade protocol, payment phase (`core/trade/protocol/bisq_v1/`) | the trade's state and payout tx on both sides, resend timer, wallet listener | payment started, payment received, messages, broadcast, restart | lost messages, late callbacks, crashes, repeated clicks |
| Trade protocol, take offer (`buyer_as_maker_protocol.py` and the three others) | contract, deposit tx, delayed payout tx, timeouts of 120 s, wallet listener | seven message handlers on four roles | timeouts racing answers, transient data lost at a restart, the deposit published by one side only |
| Mailbox messages (`mailbox/mailbox_message_service.py`) | messages by id, their file, ignored messages | fetch, decrypt in batches at start, list, notify, remove, write the list, read it back into the storage's map | removals the service does not see; one bad item in a batch; a listener that raises; a list that is out of date at the start |
| Mediation and disputes (`core/support/`) | dispute list, mediation result, payout signatures | open, chat, close, accept, publish mediated payout | both payouts race |
| Open offers (`core/offer/open_offer_manager.py`, `trigger_price_service.py`) | open offers, their file, reservations, trigger prices | place, edit, cancel, republish, deactivate by price or fee check, answer availability requests, close | reservations shorter than the trade, replaced objects that are still registered, late answers |
| Broadcast, connections, peers (`peers/`, `network/`) | connections, peer lists, broadcast handlers | connect, send, broadcast with early failure limits, replace peers | time-outs, simultaneous connects, limits |
| Get-data, peer exchange, keep-alive | request handlers with timers | request, response, retry | response after the time-out |
| Tx broadcaster (`core/btc/wallet/tx_broadcaster*.py`) | pending broadcasts | broadcast with a time limit of 5 s | the time limit reports success, a failure may follow |
| DAO state (`core/dao/`) | blocks, BSQ outputs, votes, bonds | parse block, vote reveal, issuance, snapshots | reorgs of the lite node |
| Wallets, account witnesses, filter, statistics, prices, API, user interface | | | sequential or pure I/O |

`PROJECT.json` lists every component with what is modelled of it, and every
hazard at the line where it bites.

### 1.2 What makes the components correct

* **Storage.** Nodes that see the same messages in different orders must not
  disagree for ever: a removal beats the version it removed, the owner can
  always supersede what it published, an offer nobody refreshes disappears, the copy in the
  protected data store is the one in the map, and removed mail comes back in no way but the one
  the code leaves open.
* **Persistence.** The file never goes back in time; data of a file that was not
  handed over is not overwritten by empty data; what had to be saved is saved when the
  flush is reported complete; the flush is carried out once and answered.
* **Shutdown.** The process exits, and not before everything is flushed.
* **Take offer.** No deposit is locked before both sides hold the delayed payout
  transaction that spends it; what the buyer believes to be published is signed by
  both; nobody waits without an error; the deposit and its confirmation are noticed.
* **Open offers.** The maker commits to one taker; the offer book holds the offer
  exactly while it is open and active; reservations end.
* **Mailbox.** The list is the mail in the map; an exit writes it, and what was written stays until
  it expires or is removed.
* **Payment.** No payout without the buyer's and the seller's confirmation; whoever
  believes the payout is published holds its transaction; the buyer never falls
  back to an earlier phase; a payout in the network is noticed; a message about a
  payment gets through.

## 2. The modules

| Module | What it is |
|---|---|
| `P2PDataStorage` | the storage of several nodes and the messages between them |
| `P2PDataStorageProofs` | its theorems |
| `PersistenceManager` | managers, write threads and the orchestrator of one user |
| `PersistenceManagerProofs` | its theorems, the refinement of `FlushOnce` among them |
| `FlushOnce` | what the orchestrator promises to those who shut down; `PersistenceManager` implements it, `GracefulShutdown` relies on it |
| `GracefulShutdown` | the daemon's shutdown routine over several users |
| `GracefulShutdownProofs` | its theorems |
| `OpenOffers` | a maker's offer, its takers, the price service and the offer book |
| `OpenOffersProofs` | its theorems |
| `TakeOffer` | buyer and seller from the taker's click to the confirmed deposit |
| `TakeOfferProofs` | its theorems |
| `TradePayment` | buyer and seller from the deposit to the payout |
| `TradePaymentProofs` | its theorems |
| `MailboxMessages` | the mail of a client between the network, the map of its storage, the local list and its file |
| `MailboxMessagesProofs` | its theorems |
| `MC...` | constants for TLC; the bounds are in the `.cfg` files |

`PROJECT.json` maps every definition to the lines it models. Operators named
`Mutant...` stand before the definition they vary; they are plausible mistakes in
that code, not used by any specification, with which it is confirmed that each
property can fail.

### 2.1 P2PDataStorage

A node is its address and key, a payload its hash. `map[n][h]`, `seqNrs[n][h]`,
`removed[n][h]` and `store[n][h]` are the four maps of `P2PDataStorage`, `disk[n]`
its three files (sequence numbers, removed payloads, protected data store) and the
file of the mailbox list, and `msgs` the messages in flight. `seen[n][h]` is history: the last
removal that a node has applied, which no later message overwrites. Delivering a message leaves it there, so it can be
delivered again, to anyone, in any order; it disappears when it is older than
`MaxDelay`. Broadcast, forwarding and loss are all in that one set: `broadcast` in
the code becomes adding the message.

The code keeps time stamps and compares differences with limits; the model keeps
the differences as ages, which grow by `Tick` and saturate one past the limit they
are compared with. No bound on the length of a run is needed. `Tick` waits for
nodes to drop what has expired, since the expiry task runs every 60 seconds
and a tick stands for longer.

The methods are actions or parts of actions with the same name; the early returns
are their guards. `PublishAdd`, `PublishRefresh` and `PublishRemove` are what
`P2PService` does for the application: sign with the next number of the
node's own record, then apply locally and broadcast. `on_message` is the
dispatch of received messages. `Restart` flushes and reads the files back,
`Crash` reads what was last written (`PersistSeqNrs`, `PersistRemoved`,
`PersistStore` write the files independently). Reading purges old numbers, as
`read_persisted` does, and puts the mail of the mailbox list into the map without asking for a
removal, as `add_protected_mailbox_storage_entry_to_map` does (`Reloaded`). That list follows the
map at its own pace (`ListMail`, `UnlistMail`), or not at all; which of it the service really
does is the subject of `MailboxMessages`.

An accepted entry is in the map before the listeners are called, and the number is recorded after
them. A listener raises for mail addressed to the node itself, so the map then holds an entry without
a record, which is not broadcast (`AddRaises`).

`OwnerOnline` are offers (time to live 9 minutes), `AddOnce` mailbox messages (up to
15 days; the sender adds, the receiver removes), `Persistable` temporary DAO
proposals (60 days). Numbers are purged after 10 days, once there are more than
1000. `Supersedable` picks the payloads whose number outlives their copies: the
ordering guarantees are for these, and the code gives no others.

Left out: append-only payloads, get-data responses and the rebroadcasts they cause, protection of `map` by its lock (every operation holds
it, so operations are atomic).

### 2.2 PersistenceManager and FlushOnce

The content of a file is a version, the number of changes it contains. `pm[m]` is
a manager: the version in memory, `persistence_requested`, the timer, the queue
of snapshots of its single write thread and where `write_to_disk` is with the first
one. `orch` is the orchestrator with its flush: who has called, whose call was
carried out, which managers the loop has still to visit, which manager's
`shutdown()` blocks the user thread, the countdown. The user thread runs one thing at a
time: `UserThreadIsFree` is false in the flush loop and while a manager's executor
is being shut down.

A file is read in two steps: `get_persisted` in the read thread sets `read_called`, and
`read_persisted` is the handler on the user thread that hands the data over. Most managers are registered
in the constructor of their service, before the read; `User`, `UserManager`, `Preferences` and the
store services register in that handler (`RegistersAtRead`), and only these write directly. The
services of a user start when all managers of the first kind have their data.

Four details of the code matter and are kept. The timer takes its snapshot in one task
and is cleared in a later one (`timer = "fired"` in between), so a request that
comes between starts no timer. The write thread clears `persistence_requested` in
its `finally` block, whatever was requested since its snapshot. A repeated flush
ends without calling its handler. And `persist_now` raises if the snapshot cannot be taken: in a timer
this leaves the timer set for ever (`TimerRaises`), in the loop of the flush it ends the loop without
counting the manager and those after it down (`FlushRaises`).

`FlushOnce` is the abstract view: of the calls one is accepted and answered, others
are ignored, a call before the end of the start up is answered at once, and so is an
accepted one if no manager has data to flush. The
refinement mapping is `ready <- orch.initialized`, `waiting <- orch.pending`,
`accepted <- orch.flusher`, `completed <- orch.completed`.

### 2.3 GracefulShutdown

`phase[u]` is where a user's shutdown is; the chain of callbacks through offers,
wallets and network is one wait of any length (`_on_p2p_service_shutdown`). Users
may not have been started (`idle`), and their shutdown may fail with an exception
(`ShutDownAtOnce`). `flush_and_exit` runs in the thread of whoever calls it
first, so its loop is interleaved with everything else (`FlushContext`,
`FlushShared`). An orchestrator is reduced to what `FlushOnce` promises. Assumed: the users
that run have completed their start up; a shutdown before the user manager
exists is left out.

### 2.4 TradePayment

Both sides run in one module, connected by `inbox` and `chain` (the Bitcoin
network). `trade[r]` is what a side has in memory, `file[r]` what its
`PendingTrades` file holds. States are those of `TradeState`, in the enum's
order, that the payment phase can reach; `Phase` maps them as `TradePhase` does. A
task list is one action with its possible failures, because the tasks between
two asynchronous calls run in one go; the asynchronous ones (`on_arrived`,
`on_failure`, the resend timer, the wallet listener, the broadcast's callbacks
and its time limit) are actions of their own. A side may exit with a flush or
crash without one, and start again from its file (`Start`, `BuyerStartup`). `listening` says
whether the buyer's listener for the payout tx is set up; if the wallet does not know the deposit tx
at the start, setting it up fails for that run of the application.

Left out: disputes, withdrawal, the signed account age witness, the
acknowledgement of the PayoutTxPublishedMessage (nothing is done with it).

The three modules about a trade follow each other: `OpenOffers` ends where the maker
commits to a taker, which is the first task of the maker's second step in `TakeOffer`; `TakeOffer` ends in DEPOSIT_CONFIRMED, where `TradePayment` begins.
`MailboxMessages` shows why no message of `TradePayment` comes through the mailbox.

### 2.5 OpenOffers

One offer. `offer` is the `OpenOffer` in the list of the `OpenOfferManager`, with its
state, payload, trigger price, whether a timer of a reservation is running and the
progress of its fee check; `replaced` are `OpenOffer` objects that have left the list and are
still registered with the `TriggerPriceService`; `book` are the payloads in the
network. `taker[t]` is how far a taker has come, from the availability request to its
second message; `trades`, `latest` and `listening` are the maker's trades of this offer, the last
of them, and the one whose protocol gets messages. `committed` is history: the trades for which the
maker has signed. The two files are `file.offer` and `file.trades`, written
independently. The handlers of the code are actions of the same name; `edit_offer` is
`edit_open_offer_start` followed by `edit_open_offer_publish`, which the API calls one after
the other on the user thread.

A reservation ends after 60 seconds, a step of the protocol may take 120: `on_timed_out` can come at any
time, so the second taker's request can be interleaved with the first one's trade.
`create_trade_protocol` resets the protocol of the earlier trade (`ResetPending`).
`start_timeout` does not keep its timer, so `stop_timeout` stops nothing; `SetState` keeps the flag.
An offer that is registered with the price service, at its start or later, leaves the offer book only
if its trigger price is reached.

Left out: BSQ swap offers and what only they use, offers that share a maker fee (nothing creates
them), the rewriting of offers after an update, the wallet's reserved funds. The offer's copies in the
network are those of `P2PDataStorage`.

### 2.6 TakeOffer

`trade[r]` is the persisted part of a side's trade, `file[r]` its file; `signed` and
`draft` are the transient parts of the process model that a restart loses. A side's
open step is `out[r]` (the message its send task waits for), `publishing[r]` (the broadcast
it waits for) and `timer`. A handler is one action up to the next
asynchronous call, with success, an early failure or a failed task as disjuncts; what follows a
delivery or a broadcast is in `on_arrived`, `FeePublished`, `DepositPublished`. The role of the maker is chosen
in `Init`, so both pairs of protocols are covered. `deposit` says where the deposit tx is; it is
"incomplete" when the seller broadcasts it without the buyer's witnesses. The message with the deposit tx
may fail before the tx is applied, between that and the new state (`RejectDepositTx`: a different
delayed payout tx, a payment account that is not the contract's) or after it (`AcceptDepositTx`). In the
second case the trade has a deposit tx, so the listener for the network has nothing to do and a restart
adds none.

Left out: the contents that the tasks compare (contract, accounts, inputs, fee), whose
checks are tasks that may fail; address entries; acknowledgements, on which nothing depends here.
An undelivered mailbox message is forgotten, for the reason given for `TradePayment`.

### 2.7 MailboxMessages

The mail that passes a client: other peers' and its own. `net` is what the seed nodes hold,
`map` the entries in the client's own `P2PDataStorage`, `items` the list (`mailbox_items_by_uid` and
`mailbox_message_list` always change together), `batch` the entries that the thread of the start
decrypts, `file` the list on disk. The list's `PersistenceManager` (PRIVATE_LOW_PRIO) is kept as far as it
matters: the request, the timer that is cleared later than it fires, the snapshot that is being
written, the `finally` block that clears the request, and the flush of an exit, which skips a
list without a request but waits for its write thread.

Own mail does not get far in this client. A trade message or an AckMessage is no `MailboxMessage`, so
`check_argument` raises once it is decrypted: a single one out of `on_added`, one in the batch
for the whole batch (`BatchFails`). Another own message is listed, and then the first listener that is
a plain function raises, which ends the batch's loop (`HandleBatch`). The removal from the network and what
the consumers of the mail do is therefore not reached, and is not modelled. Other peers' mail is listed
and unlisted by the storage's callbacks, once the service listens.

Left out: the limit of 3000 items, republishing, and a start without seed nodes.

## 3. What TLC checks

| Run | Question | Result |
|---|---|---|
| `storage_offer` | two nodes, one offer, numbers up to 3, clean restarts: `TypeOK`, `EntryIsLatestOperation`, `NoResurrection`, `OwnerSupersedes`, `UnrefreshedOfferVanishes` | hold |
| `storage_stored` | a mailbox message or a persisted payload, a listener that raises, a mailbox list of any age, restarts and a crash: `StoreMirrorsMap`, `RemovedMailOnlyReloaded` | hold |
| `persistence` | two managers, two callers of the flush, direct writes, and a failing write, a failing snapshot or a restart at any moment: `TypeOK`, `PrivateDataIsFlushed`, `FileNeverGoesBack`, `UnreadFileIsKept`, `FlushesOnce` (refinement), `FlushCompletes`, `ArmedTimerWrites` | hold |
| `shutdown_limit` | two users, with the time limit: `TypeOK`, `ExitsAfterFlush`, `EndsWithinLimit` | hold |
| `shutdown_hang` | `ShutdownEnds`: the process exits also when the time limit is reached | violated |
| `payment` | a crash, an exit, a failure: `TypeOK`, `PayoutIsAuthorized`, `PublishedHoldsTx`, `BuyerNeverRegresses`, `PayoutReachesBuyer` | hold |
| `payment_lost` | `PaymentStartedReachesSeller` | violated |
| `take_offer` | both roles of the maker, a failure, a stop: `TypeOK`, `NoDepositWithoutDelayedPayout`, `BuyerSeesSignedDeposit`, `PublishedAfterDelivery`, `ProcessEnds`, `DepositReachesBuyer` | hold |
| `take_offer_confirmation` | `ConfirmationReachesBuyer` | violated |
| `open_offers` | two takers, an edit, a failed publication, a stop: `TypeOK`, `OneCommittedTrade`, `CommittedTradeListens`, `NoGhostOffer`, `ReservationEnds`, `AvailableIsPublished` | hold |
| `open_offers_trigger` | `PriceRespectsAvailable` | violated |
| `mailbox` | four messages (of another peer, a large one, own support mail, an own trade message), an exit and a crash: `TypeOK`, `ListFollowsMap`, `ExitWritesList`, `FileKeepsMail` | hold |

### 3.1 Bounds

*Storage.* Two nodes are an owner (or sender) and everybody else: every rule of the
store compares one node's record with one message, and forwarding by a third node
is a delivery from `msgs`. Three numbers allow add, refresh or removal, and add again,
with any of the three delivered late. The offer's time to live (2) is longer than a
message's delay (1) and shorter than the purge age (5), the order they have in
the code; `MaxSequenceNumberMapSize = 0` lets every expiry purge. In
`storage_stored` the purge age is at most the time to live, as it is for those payloads,
one crash finds the files in every combination of ages, and the constraint
`OneAtATime` looks at one payload at a time, and at the mailbox list of the receiver: an operation
touches one payload, payloads meet only in the size of the sequence number map, which is 0 here, and a
list is read by its own node alone. The theorems of
section 5 have none of these bounds.

*Persistence.* Two managers, one with private data and one that registers when it is read and is
written directly too, let one write while the other shuts down; timer, direct write and flush put
up to three snapshots of one manager in its queue. One thing goes wrong in a run, at any step: a write or a
snapshot fails, or the process is restarted (`OneMishap`).

*Shutdown.* Two users in each of their initial states; the first and the last to finish
are then different ones, and the time limit can come between them.

*Payment.* One resend after the first attempt, one confirmation of the seller per start, and one
failure, one exit and one crash, of either side, at any step.

*Take offer.* One failure (of a task, a delivery or a broadcast) and one stop, an exit or a crash, of
either side, each at any step, with the maker in either role.

*Open offers.* Two takers are the one who has the reservation and the one who comes too late;
two payloads and two prices let an edit change either, or neither; one edit, one failed
publication and one stop at any step.

*Mailbox.* One message of each kind the code tells apart, which makes batches of up to four with and
without the ones that end them; one exit and one crash give a start from an empty file and two from
a list that may be out of date.

Deadlock is not checked where the system may simply be idle or finished.

### 3.2 Fairness

* `P2PDataStorage`: time passes (strong fairness of `Tick`, since deliveries of
  expired copies and disconnects disable it again and again) and the periodic
  expiry task runs. Nobody has to publish, deliver or reconnect.
* `PersistenceManager`: threads execute what is queued and timers fire. No service
  has to change anything and nobody has to flush.
* `GracefulShutdown`: threads run, every flush completes (`FlushCompletes`), and
  the services of a user stop or fail. No fairness for the time limit: it may
  be reached at any moment of a shutdown or not at all.
* `TradePayment`: callbacks, timers and deliverable messages are handled, and a
  stopped application is started again. Users never have to click, files never
  have to be written, and broadcasts need not succeed.
* `TakeOffer`: timers fire, that of a broadcast included, the wallet reports what it knows,
  and a stopped application is started again. No message has to be delivered and no handler has to
  run; only the counterexample of `take_offer_confirmation` is found under the stronger assumption that
  a delivered DepositTxAndDelayedPayoutTxMessage is handled (`HandlingSpec`).
* `OpenOffers`: timers fire (the end of a reservation, the republication every 40 minutes), and a stopped
  application is started again. Takers, users, prices and the fee check need not move.
* `MailboxMessages` states safety only and assumes no fairness.

## 4. Where the code and its documentation disagree

Shown by runs:

1. **The shutdown hangs** (`shutdown_hang`). If the time limit is reached while a user
   flushes on its own account, one of the two flush calls of that user's orchestrator
   is ignored without calling its handler (`persistence_orchestrator.py:52-54`), so
   the countdown of `flush_and_exit` never reaches zero.
2. **A payment message is lost** (`payment_lost`). When direct delivery fails,
   `mailbox_message_service.py:265` calls `get_ttl()`, which trade messages do not
   have. The exception ends the callback: the message is neither put into the mailbox
   nor reported as failed, and no resend timer is started.
3. **A confirmation is overwritten** (`take_offer_confirmation`). When the buyer's wallet finds the
   deposit tx already confirmed, `apply_deposit_tx` sets the confirmed state and drops its
   listener, and the next line of `_apply_confidence`
   (`buyer_setup_deposit_tx_listener.py:181`) sets the earlier state again; the trade waits
   for a restart. `buyer_process_deposit_tx_and_delayed_payout_tx_message.py:117` avoids exactly
   this.
4. **A replaced offer acts** (`open_offers_trigger`). `_on_removed_open_offers`
   (`trigger_price_service.py:218-226`) discards the object by a hash that has changed, since the
   state of its `Offer` is part of it and was set to REMOVED before. The old trigger price of an
   edited offer takes the new one out of the offer book; the offer stays AVAILABLE, and
   comes back with the next republication.

Noticed while modelling, without a run of their own:

* `write_to_disk` clears `persistence_requested` when it ends (`persistence_manager.py:342`), also for
  a change requested after its snapshot was taken. The flush then skips the manager,
  unless its source is PRIVATE; the comment at `persistence_orchestrator.py:71`
  says it persists whatever was requested since the last persist. `ExitWritesList` shows that this is the
  only way in which a regular exit loses a change of the mailbox list;
* `persist_now` raises what the serialisation or the executor raises (`persistence_manager.py:261-266`). In the loop
  of the flush nothing catches it: the managers that are left are not counted down, the handler is
  not called, and repeated calls are ignored. `persistence_orchestrator.py:79` says "We always get our
  completeHandler called even if exceptions happen"; `FlushCompletes` has this exception;
* no trade message that comes through the mailbox is processed: `TradeMailboxMessage`
  (`trade_mailbox_message.py:8`) does not extend `MailboxMessage`, and the check at
  `mailbox_message_service.py:437` raises; at the start it takes the whole batch with it;
* support mail is listed, and then `mailbox_message_service.py:481` calls `on_mailbox_message_added` on listeners
  that are plain functions (`support_manager.py:64-72`, `private_notification_manager.py:67`). The loop raises, and
  the removal from the network at line 490 ("we remove the data immediately from the network") is not reached;
* mail that was removed can come back, although `add_once_payload.py:4` says that it "must not be added again
  after a remove message has been received": a removal between `read_persisted` and `init_after_bootstrapped`, or while
  the entry is decrypted, leaves the message listed, and the next start puts the list into the map
  (`mailbox_message_service.py:147`). `RemovedMailOnlyReloaded` shows that there is no other way;
* a check of the message with the deposit tx that fails after the tx was applied
  (`buyer_process_deposit_tx_and_delayed_payout_tx_message.py:59`, `:84`) leaves a buyer that sees the deposit
  only in a block (`DepositReachesBuyer`);
* the buyer never recognises the acknowledgement of its payment message: `dispute_protocol.py:87` compares
  with the name of the class's metaclass, so it resends until `MAX_RESEND_ATTEMPTS`;
* a buyer who is the taker and restarts between signing the deposit tx and sending it answers
  with the prepared tx, which it has not signed
  (`buyer_sends_delayed_payout_tx_signature_response.py:46`); the seller broadcasts an incomplete
  deposit tx, and its broadcast's time limit counts as success;
* a large mailbox message is not read back at the start (`mailbox_message_service.py:139`) and leaves the file
  with the next write;
* the batch result of the start can list a message again that the cleanup for closed trades has
  removed in the meantime; it is removed at the next start, and listed again;
* when no seed node is available, `on_no_seed_node_available` (`p2p_service.py:286`) sets the service
  bootstrapped without telling the bootstrap listeners, so trades are not initialised;
* cancelling a reserved offer resets its address entries while the trade goes on
  (`open_offer_manager.py:676-702`);
* a fault reported from inside `run()` starts the resend timer, and the cleanup at the
  end of the same `run()` stops it
  (`buyer_send_counter_currency_transfer_started_message.py:124`);
* a broadcast that fails after its time limit only logs a warning
  (`broadcast_payout_tx.py:54`), although `tx_broadcaster_callback.py:38-39` says it
  leads to a failure state;
* `remove_and_backup_file` (`common/file/file_util.py:171-182`) returns after creating the
  backup directory, and later moves a corrupted file only over an earlier one of its
  name, so a corrupted file is never kept and the next write replaces it;
* the delayed rebroadcasts of `process_get_data_response` read the loop's variables
  when they run (`p2p_data_storage.py:632-642`).

## 5. What TLAPS proves

### 5.1 P2PDataStorageProofs

For any nodes, payloads, limits and bounds that satisfy
`ConstantsAssumption` (the kinds of payload are disjoint as their classes are, keys
and limits have their types; only a mailbox message has different keys for adding and
removing) and `NoneAssumption` (the absent value is no entry, record or age).

| Theorem | Statement | For |
|---|---|---|
| `TypeCorrect` | `Spec => []TypeOK` | all runs |
| `MirrorInvariant`, `StoreFollowsMap` | `Spec => []StoreMirrorsMap` | all runs, crashes included |
| `OnlyReloaded` | `Spec => RemovedMailOnlyReloaded` | all runs, crashes included |
| `OrderInvariant` | `Spec => []OrderInv` | `MaxCrashes = 0` |
| `EntriesAreLatest` | `Spec => []EntryIsLatestOperation` | `MaxCrashes = 0` |
| `RemovalIsFinal` | `Spec => []NoResurrection` | `MaxCrashes = 0` |
| `OwnerIsAhead` | `Spec => []OwnerSupersedes` | `MaxCrashes = 0` |

**The ordering argument.** None of the three ordering properties is inductive: whether an
old add is refused depends on a record that may have been purged, and whether
the record was purged too early depends on how old the copies in the network can
be. `OrderInv` makes the owner's record the centre. Every message in flight
carries the owner's key and a number that the owner's record covers, and
the record is not older than the message (`MessagesAreSigned`); a number signed for
a removal is signed for nothing else (`SignedOnce`); every copy at a node is covered
by the owner's record, whose age exceeds that of the copy by a message's delay at most
(`CopiesFollowOwner`), hence the record is not purged while a copy or message lives;
the owner counts on from every removal that a node has applied since, and a message that is not newer than
such a removal finds at that node the record of it or a newer one, which is not older than the message and so
was not purged (`RemovalsCovered`); only offers are refreshed (`RefreshedAreOffers`). `seen` starts over when the
owner itself starts to count from 1 again, which it does only when no copy and no message of the earlier
numbers is left. The proof has one lemma for a step in which
an operation is applied (`OperationOrder`, used for add, refresh and removal), one for
steps that only drop or age things (`QuietOrder`), and one for `Tick`.

Crashes are excluded there for a reason: a crash can lose the owner's record after the
message was sent, the owner then signs the number again, and the properties are
false.

**The other argument.** With crashes, `MirrorInv` says that map and store agree and that
the file of the store holds persistable payloads only; then whatever a node reads
at its start is consistent. `OnlyReloaded` goes through the steps: an accepted add asks for a removal
first, every other step of a running node keeps or empties the map, and a start takes mail from
nothing but the mailbox list.

### 5.2 MailboxMessagesProofs

For any finite set of mail, any part of it that is own, trade or large mail, and any bounds
(`MailboxAssumption`).

| Theorem | Statement | For |
|---|---|---|
| `TypeCorrect` | `Spec => []TypeOK` | all runs |
| `ListFollows` | `Spec => []ListFollowsMap` | mail of other peers |
| `ExitWrites` | `Spec => ExitWritesList` | exits of a service that listens |
| `FileKeeps` | `Spec => FileKeepsMail` | mail of normal size, crashes included |

**The arguments.** Each property has an inductive invariant of its own. `ListInv` adds to
`ListFollowsMap` that what the thread decrypts is in the map or was missed, so that a batch which comes back
late lists nothing else, and that nothing is in memory before the start. `RequestInv` is about the request: a
snapshot that is being written is the list, or a change is late; and a list without a request and without a
write is the file, or a change is late. `FileInv` says that a running service has listed what the file holds,
except what has expired, was removed or is large, and that a snapshot lies between the two, so that neither a
write nor an exit drops anything else.

### 5.3 PersistenceManagerProofs

For any finite set of managers, any of them private or written directly, any callers of the flush
and any bounds (`PersistenceAssumption`).

| Theorem | Statement | For |
|---|---|---|
| `TypeCorrect` | `Spec => []TypeOK` | all runs |
| `FlushInvariant` | `Spec => [](TypeOK /\ FlushInv)` | all runs |
| `FilesNeverGoBack` | `Spec => FileNeverGoesBack` | all runs, failing writes and restarts included |
| `UnreadFilesAreKept` | `Spec => UnreadFileIsKept` | all runs |
| `PrivateFlushed` | `Spec => []PrivateDataIsFlushed` | says nothing after a failed write |
| `OrchestratorFlushesOnce` | `Spec => FlushesOnce` | all runs |

**The argument.** That a file does not go back rests on the order of the queue: the snapshots of a
manager wait in the order in which they were taken, between the version in the file and
the one in memory, and there are none before what was found in the file has been handed over
(`QueuesInOrder`). `read_called` is no help here, since it is set before; that all registered managers have
their data when the services run is (`HandedAreRegistered`). That the
flush is complete when it says so rests on its countdown: a manager is in one stage of the
flush at most - to be visited, snapshot queued, executor closing, handler queued - and enters each once
(`StagesInOrder`), so the countdown is the number of managers that have not gone through all of
them (`InstancesCounted`); what was due when the flush began is in the file, or the manager has
still to be visited, or a snapshot of the flush that contains it is in the queue, or the loop was ended by
an exception (`DueIsOnItsWay`); a task that ends has been written (`WrittenBeforeEnd`); and a flush whose loop was ended
is never complete, because a manager is left that nothing counts down (`AbortIsFinal`). The
refinement needs `CallersInOrder`: nobody calls twice, and one call at most is carried out. Each of its steps
is a step of `FlushOnce` or leaves the mapped variables alone. A first attempt at this
proof showed that an orchestrator without data accepts and answers a call in one step,
which `FlushOnce` now allows.

### 5.4 GracefulShutdownProofs

For any finite, nonempty set of users (`ShutdownAssumption`).

| Theorem | Statement | For |
|---|---|---|
| `TypeCorrect` | `Spec => []TypeOK` | all runs |
| `ShutdownInvariant` | `Spec => [](TypeOK /\ ShutdownInv)` | all runs |
| `FlushedBeforeExit` | `Spec => []ExitsAfterFlush` | all runs, the time limit at any moment included |

**The argument.** Two countdowns decide when the process exits. That of `shut_down_all_users` is the
number of users not yet down (`UsersCounted`). That of `flush_and_exit` is at least the number
of orchestrators it waits for and that have not been flushed (`Owed`, `FlushesCounted`): a flush that a user
ended on its own account takes an orchestrator out of `Owed` and leaves the countdown, which is how
the shutdown can hang (section 4) and why it cannot exit too early. `ContextCalls` and
`DaemonCalls` say whose call an orchestrator is carrying out, so that an answer
counts the right countdown down.

### 5.5 OpenOffersProofs

For any set of takers and any number of payloads, prices, edits, failures and stops
(`OpenOffersAssumption`: the bounds are natural numbers, there is a payload and a price).

| Theorem | Statement | For |
|---|---|---|
| `TypeCorrect` | `Spec => []TypeOK` | all runs |
| `OffersInvariant` | `Spec => [](TypeOK /\ OffersInv)` | all runs |
| `CommitsOnce` | `Spec => []OneCommittedTrade` | until a crash loses a change |
| `CommittedListens` | `Spec => []CommittedTradeListens` | until a crash loses a change |
| `NoGhosts` | `Spec => []NoGhostOffer` | until a crash loses a change |

**The argument.** The offer is not what keeps the maker from committing twice: its reservation ends
before the trade does. `CommitmentKept` says what does: a trade the maker has committed to is the
last trade of the offer, its protocol listens, and the offer has left the list, so no later
request finds it. An exit or a crash keeps this only if the files say the same, hence
`FilesAgree` (a file whose persistence is not requested has what the list has) and `OneLatest`. For the offer book,
`BookAgrees` has to hold while the application is down, too: that an offer which is active again after a start is not in
the book as a deactivated one rests on `FilesAgree`, by which a file has a deactivated offer only if the offer is
deactivated.

### 5.6 TakeOfferProofs

For any number of failures and stops, with the maker in either role (`TakeOfferAssumption`).

| Theorem | Statement | For |
|---|---|---|
| `TypeCorrect` | `Spec => []TypeOK` | all runs |
| `TakeInvariant` | `Spec => [](TypeOK /\ TakeInv)` | all runs |
| `DelayedPayoutIsHeld` | `Spec => []NoDepositWithoutDelayedPayout` | a side that no crash took unwritten data from |
| `SignedDepositIsSeen` | `Spec => []BuyerSeesSignedDeposit` | a buyer that was not stopped |
| `DeliveredBeforePublished` | `Spec => []PublishedAfterDelivery` | a buyer that was not stopped |

**The argument.** The three properties are about the end of the process and hold because of what
happened four messages earlier on the other side. `TakeInv` therefore says of every message, while it is
sent and while it waits to be handled, what it presupposes: the buyer finalizes the delayed
payout tx before it answers the seller's request, the seller before it sends the deposit tx, which is complete only
with the buyer's answer (`HeldBeforeDeposit`); the buyer has signed the deposit tx before the seller can ask
for the delayed payout tx (`SignedBeforeRequest`); and a buyer that has answered expects the deposit tx until
it has it or has handled, perhaps refused, the message with it (`BuyerExpects`). What a side holds in memory is on disk or about to be (`DelayedIsStored`).
Most handlers disturb little of this. The proof separates what every step keeps (`Calm`) from what a
step adds (`NewMessages`, `NewDeposit`): the lemma `Carried` concludes the invariant from the three, and each
handler has to show them.

### 5.7 TradePaymentProofs

For any number of resends, clicks, failures, exits and crashes (`PaymentAssumption`: the bounds are
natural numbers).

| Theorem | Statement | For |
|---|---|---|
| `TypeCorrect` | `Spec => []TypeOK` | all runs |
| `PaymentInvariant` | `Spec => [](TypeOK /\ PaymentInv)` | all runs |
| `PayoutAuthorized` | `Spec => []PayoutIsAuthorized` | all runs, crashes included |
| `PublishedHolds` | `Spec => []PublishedHoldsTx` | all runs, crashes included |
| `BuyerKeepsPhase` | `Spec => BuyerNeverRegresses` | every step but the buyer's crash |

**The argument.** A crash takes a trade back while messages and the wallet go on, so the
properties cannot rest on the phases of the two trades alone. `StartedFirst` and `ReceivedFirst` list everything that
depends on a click - phases in memory and in the files, the buyer's task and its timer, messages, the
broadcast, wallets, the network - and say that the click was made. The seller's callbacks set
PAYOUT_PUBLISHED without looking at the trade; `SellerHoldsTx` says that it holds the tx while any of them
can still come. `SendsCounted` bounds the messages of the seller by its clicks, one for a
broadcast that is pending included, without which not even the type is inductive. For
`BuyerKeepsPhase` the lemmas about `set_state_if_valid_transition_to`, `set_state_sent` and
`apply_confidence` say that each leads to a phase that is not earlier; the ordinals and phases of the
enum's states are lemmas too.

### 5.8 Only model-checked

Every invariant and every safety property of the passing runs is proved. Liveness
(`UnrefreshedOfferVanishes`, `FlushCompletes`, `ArmedTimerWrites`, `EndsWithinLimit`,
`PayoutReachesBuyer`, `ProcessEnds`, `DepositReachesBuyer`, `ReservationEnds`,
`AvailableIsPublished`) is out of the prover's reach, since it rests on fairness, and stays
with TLC. So do the four properties of section 4, which the code violates.

## 6. Plan

In this order:

1. **Proofs of what the liveness properties rest on.** The safety facts that make their fairness
   assumptions suffice: for example, that a flush that has not ended has a manager in some stage.
2. **Storage, completed.** Get-data responses: an action that copies an entry of a peer's
   map into the node's own without broadcast, and the rebroadcasts it schedules; the
   ordering invariant extends to it, because a copied entry is covered by the
   owner's record. Append-only payloads.
3. **Mediation.** Both traders accept a mediation result while a payout may race it.
4. **Get-data and broadcast handlers.** Request handlers whose response may come after
   the time limit, and the limits of the broadcast handler.

## 7. Not modelled

Get-data, peer exchange, keep-alive, connections and the broadcast handler are abstracted to
messages that are lost, repeated and reordered. The rules of the DAO are large sequential
functions of transaction data, for which a small model says little. Transactions and keys are
built by vendored code; the models use only who holds the payout transaction. BSQ swap
trades have no protocol yet (`TradeProtocolFactory` raises `NotImplementedError`).
Witnesses, filter, alerts, statistics, prices, payment methods, the API and the user
interface have no transitions of their own that these properties depend on.
