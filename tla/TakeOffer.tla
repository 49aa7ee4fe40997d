------------------------------- MODULE TakeOffer -------------------------------
(***************************************************************************)
(* The take offer process of a bisq_v1 trade (core/trade/protocol/bisq_v1): *)
(* from the taker's click to the published deposit tx, with the buyer as    *)
(* maker or as taker. A trade has two deposits, locked by a deposit tx of   *)
(* which both sides sign their inputs; before it is published both hold a   *)
(* delayed payout tx, signed by both, that spends it if nothing else does.  *)
(*                                                                         *)
(*   taker -> maker  InputsForDepositTxRequest                             *)
(*   maker -> taker  InputsForDepositTxResponse; the taker pays the fee    *)
(*   buyer -> seller DepositTx, if the buyer is the taker                  *)
(*   seller -> buyer DelayedPayoutTxSignatureRequest, and its Response     *)
(*   seller -> buyer DepositTxAndDelayedPayoutTx; the seller publishes     *)
(*   buyer -> seller ShareBuyerPaymentAccount                              *)
(*                                                                         *)
(* A direct message arrives or fails; the sender's on_arrived runs before  *)
(* the receiver's next message can come back. The last two are mailbox     *)
(* messages, but what is not delivered is neither stored nor sent again:   *)
(* on_failure raises (see TradePayment), and a fault reported from inside  *)
(* run starts a timer that run's cleanup stops.                            *)
(*                                                                         *)
(* Left out: the open offer (see OpenOffers); the fee tx itself, which the *)
(* deposit tx spends, so that the deposit may never reach the network; the *)
(* contract and other data, whose checks are tasks that may fail; address  *)
(* entries; and ACKs, which nothing waits for here. No block is mined      *)
(* while the broadcast of the deposit tx waits for its answer, which is 5  *)
(* seconds at most.                                                        *)
(***************************************************************************)
EXTENDS Naturals

CONSTANTS
  MaxFailures,  \* bound: tasks, deliveries and broadcasts that fail
  MaxStops      \* bound: exits, which flush the trade to its file, and crashes

ASSUME TakeOfferAssumption == {MaxFailures, MaxStops} \subseteq Nat

Role == {"buyer", "seller"}
peer(r) == IF r = "buyer" THEN "seller" ELSE "buyer"

Message == {"InputsForDepositTxRequest", "InputsForDepositTxResponse", "DepositTx",
            "DelayedPayoutTxSignatureRequest",
            "DelayedPayoutTxSignatureResponse",            \* with the buyer's witnesses
            "DelayedPayoutTxSignatureResponse, unsigned",  \* without
            "DepositTxAndDelayedPayoutTx", "ShareBuyerPaymentAccount"}

\* TradePhase; NO_TRADE where there is no trade yet
NO_TRADE == 0
INIT == 1
TAKER_FEE_PUBLISHED == 2
DEPOSIT_PUBLISHED == 3
DEPOSIT_CONFIRMED == 4

\* The TradePhase of each TradeState the process uses
PhaseOf ==
  [NONE |-> NO_TRADE,
   PREPARATION |-> INIT,
   TAKER_PUBLISHED_TAKER_FEE_TX |-> TAKER_FEE_PUBLISHED,
   MAKER_SENT_PUBLISH_DEPOSIT_TX_REQUEST |-> TAKER_FEE_PUBLISHED,
   MAKER_SAW_ARRIVED_PUBLISH_DEPOSIT_TX_REQUEST |-> TAKER_FEE_PUBLISHED,
   MAKER_SEND_FAILED_PUBLISH_DEPOSIT_TX_REQUEST |-> TAKER_FEE_PUBLISHED,
   SELLER_PUBLISHED_DEPOSIT_TX |-> DEPOSIT_PUBLISHED,
   BUYER_RECEIVED_DEPOSIT_TX_PUBLISHED_MSG |-> DEPOSIT_PUBLISHED,
   BUYER_SAW_DEPOSIT_TX_IN_NETWORK |-> DEPOSIT_PUBLISHED,
   DEPOSIT_CONFIRMED_IN_BLOCK_CHAIN |-> DEPOSIT_CONFIRMED]

VARIABLES
  maker,     \* the role of the maker; never changes
  trade,     \* trade[r]: the Trade of r with what its ProcessModel persists, in memory
  file,      \* file[r]: what PendingTrades of r holds of it
  requested, \* roles whose TradeManager has requested persistence
  running,   \* roles whose application runs
  signed,    \* transient: the buyer has the deposit tx it signed as taker
  draft,     \* transient: the seller's deposit tx, which lacks the buyer's witnesses or not
  out,       \* out[r]: the message the open step of r is sending
  timer,     \* roles with an armed timeout
  publishing,\* publishing[r]: the tx whose broadcast the open step of r waits for
  listening, \* the buyer's BuyerSetupDepositTxListener listens to the wallet
  watching,  \* roles whose trade listens to the confidence of the deposit tx
  inbox,     \* inbox[r]: messages that arrived at r, not yet handled
  deposit,   \* the deposit tx: in the seller's wallet, in the network, in a block
  past,      \* history: roles that were stopped, which of them lost data, and whether
             \* the buyer refused the message with the deposit tx, or rejected it later
  used       \* how much of each bound is used up

vars == <<maker, trade, file, requested, running, signed, draft, out, timer, publishing,
          listening, watching, inbox, deposit, past, used>>

taker == peer(maker)

TradeModel ==
  [state : DOMAIN PhaseOf,
   prepared : {"none", "unsigned", "signed"},  \* the buyer's prepared_deposit_tx
   delayed : BOOLEAN,                          \* delayed_payout_tx_bytes are set
   deposit_tx : BOOLEAN,                       \* deposit_tx_id is set
   payload : BOOLEAN,                          \* the peer's payment account is known
   error_message : BOOLEAN]

TypeOK ==
  /\ maker \in Role
  /\ trade \in [Role -> TradeModel]
  /\ file \in [Role -> TradeModel]
  /\ requested \subseteq Role
  /\ running \subseteq Role
  /\ signed \in BOOLEAN
  /\ draft \in {"none", "incomplete", "complete"}
  /\ out \in [Role -> Message \cup {"none"}]
  /\ timer \subseteq running
  /\ publishing \in [Role -> {"none", "fee", "deposit"}]
  /\ listening \in BOOLEAN
  /\ watching \subseteq running
  /\ inbox \in [Role -> SUBSET Message]
  /\ deposit \in {"none", "incomplete", "wallet", "network", "confirmed"}
  /\ past \in [stopped : SUBSET Role, lost : SUBSET Role,
               message : {"none", "refused", "rejected"}]
  /\ used \in [failures : 0 .. MaxFailures, stops : 0 .. MaxStops]

NoTrade == [state |-> "NONE", prepared |-> "none", delayed |-> FALSE,
            deposit_tx |-> FALSE, payload |-> FALSE, error_message |-> FALSE]
NewTrade == [NoTrade EXCEPT !.state = "PREPARATION"]

Init ==
  /\ maker \in Role
  /\ trade = [r \in Role |-> NoTrade]
  /\ file = trade
  /\ requested = {}
  /\ running = Role
  /\ signed = FALSE
  /\ draft = "none"
  /\ out = [r \in Role |-> "none"]
  /\ timer = {}
  /\ publishing = [r \in Role |-> "none"]
  /\ listening = FALSE
  /\ watching = {}
  /\ inbox = [r \in Role |-> {}]
  /\ deposit = "none"
  /\ past = [stopped |-> {}, lost |-> {}, message |-> "none"]
  /\ used = [failures |-> 0, stops |-> 0]

-----------------------------------------------------------------------------
(* Common parts of the steps                                               *)

Phase(t) == PhaseOf[t.state]
InNetwork == deposit \in {"network", "confirmed"}

\* The trade after a step, with request_persistence, which every task calls when it
\* ends; a request that would write the same trade again is left out
SetTrade(r, t) ==
  /\ trade' = [trade EXCEPT ![r] = t]
  /\ requested' = IF t = trade[r] THEN requested ELSE requested \cup {r}

\* failed of TradeTask: the reason becomes the trade's error_message
failed(t) == [t EXCEPT !.error_message = TRUE]

\* Something goes wrong
Fail ==
  /\ used.failures < MaxFailures
  /\ used' = [used EXCEPT !.failures = @ + 1]

\* start_timeout, cleanup
MutantNoTimeout(r) == timer' = timer
start_timeout(r) == timer' = timer \cup {r}
MutantNeverStops(r) == timer' = timer
stop_timeout(r) == timer' = timer \ {r}

Send(r, m) == out' = [out EXCEPT ![r] = m]

\* A task fails: the trade is t then, and the error and the ACK end the step
TaskFails(r, t) ==
  /\ Fail
  /\ SetTrade(r, failed(t))
  /\ stop_timeout(r)
  /\ UNCHANGED out

\* The phases in which the protocol expects a message
ExpectedPhases(m) ==
  CASE m = "InputsForDepositTxRequest" -> {NO_TRADE}
    [] m = "InputsForDepositTxResponse" -> {INIT}
    [] m = "DepositTxAndDelayedPayoutTx" -> {TAKER_FEE_PUBLISHED, DEPOSIT_PUBLISHED}
    [] m = "ShareBuyerPaymentAccount" ->
         {TAKER_FEE_PUBLISHED, DEPOSIT_PUBLISHED, DEPOSIT_CONFIRMED}
    [] OTHER -> {TAKER_FEE_PUBLISHED}

\* expect(...): the phase, and for the deposit tx that something in it is new
Expected(r, m) ==
  /\ Phase(trade[r]) \in ExpectedPhases(m)
  /\ m = "DepositTxAndDelayedPayoutTx" => ~ trade[r].deposit_tx \/ ~ trade[r].payload

Receive(r, m) ==
  /\ r \in running
  /\ m \in inbox[r]
  /\ inbox' = [inbox EXCEPT ![r] = @ \ {m}]

\* A message that is not expected only stops the timeout
handle_unexpected(r, m) ==
  /\ Receive(r, m)
  /\ ~ Expected(r, m)
  /\ stop_timeout(r)
  /\ UNCHANGED <<maker, trade, file, requested, running, signed, draft, out, publishing,
                 listening, watching, deposit, past, used>>

\* apply_deposit_tx: the trade listens to the tx, and learns at once that it is
\* confirmed if the wallet knows it
apply_deposit_tx(t, confirmed) ==
  [t EXCEPT !.deposit_tx = TRUE,
            !.state = IF confirmed THEN "DEPOSIT_CONFIRMED_IN_BLOCK_CHAIN" ELSE @]
Watch(r, confirmed) ==
  watching' = IF confirmed THEN watching \ {r} ELSE watching \cup {r}

\* What the wallet may know of the deposit tx
WalletKnows == {k \in BOOLEAN : k => deposit = "confirmed"}

-----------------------------------------------------------------------------
(* Requests and answers                                                    *)

\* on_take_offer. A task before the send may fail
on_take_offer ==
  /\ taker \in running
  /\ trade[taker].state = "NONE"
  /\ out[taker] = "none" /\ taker \notin past.stopped
  /\ \/ /\ SetTrade(taker, NewTrade)
        /\ start_timeout(taker)
        /\ Send(taker, "InputsForDepositTxRequest")
        /\ UNCHANGED used
     \/ TaskFails(taker, NewTrade)
  /\ UNCHANGED <<maker, file, running, signed, draft, publishing, listening, watching,
                 inbox, deposit, past>>

\* handle_take_offer_request of TradeManager and of the maker's protocol. A buyer
\* signs its inputs and listens to the address of the deposit tx
handle_take_offer_request ==
  /\ Receive(maker, "InputsForDepositTxRequest")
  /\ Expected(maker, "InputsForDepositTxRequest")
  /\ \/ /\ SetTrade(maker, [NewTrade EXCEPT
                              !.state = "MAKER_SENT_PUBLISH_DEPOSIT_TX_REQUEST",
                              !.prepared = IF maker = "buyer" THEN "signed" ELSE "none"])
        /\ listening' = (maker = "buyer")
        /\ start_timeout(maker)
        /\ Send(maker, "InputsForDepositTxResponse")
        /\ UNCHANGED used
     \/ TaskFails(maker, NewTrade) /\ UNCHANGED listening
  /\ UNCHANGED <<maker, file, running, signed, draft, publishing, watching, deposit, past>>

\* The taker's _handle_inputs_for_deposit_tx_response up to TakerPublishFeeTx, which
\* broadcasts the fee tx
handle_inputs_for_deposit_tx_response ==
  /\ Receive(taker, "InputsForDepositTxResponse")
  /\ Expected(taker, "InputsForDepositTxResponse")
  /\ LET t == [trade[taker] EXCEPT
                 !.prepared = IF taker = "buyer" THEN "unsigned" ELSE "none"]
     IN  \/ /\ SetTrade(taker, t)
            /\ publishing' = [publishing EXCEPT ![taker] = "fee"]
            /\ start_timeout(taker)
            /\ UNCHANGED <<out, used>>
         \/ TaskFails(taker, t) /\ UNCHANGED publishing
  /\ UNCHANGED <<maker, file, running, signed, draft, listening, watching, deposit, past>>

\* on_success of TakerPublishFeeTx, by the network's answer or by the timeout of the
\* broadcast, which counts as a success; then the tasks up to the next message. A buyer
\* signs the deposit tx, a seller does and signs the delayed payout tx
FeePublished ==
  /\ taker \in running
  /\ publishing[taker] = "fee"
  /\ publishing' = [publishing EXCEPT ![taker] = "none"]
  /\ LET t == [trade[taker] EXCEPT !.state = "TAKER_PUBLISHED_TAKER_FEE_TX"]
     IN  \/ /\ SetTrade(taker, t)
            /\ signed' = (taker = "buyer")
            /\ listening' = (listening \/ taker = "buyer")
            /\ draft' = IF taker = "seller" THEN "incomplete" ELSE draft
            /\ Send(taker, IF taker = "buyer" THEN "DepositTx"
                           ELSE "DelayedPayoutTxSignatureRequest")
            /\ UNCHANGED <<timer, used>>
         \/ TaskFails(taker, t) /\ UNCHANGED <<signed, draft, listening>>
  /\ UNCHANGED <<maker, file, running, watching, inbox, deposit, past>>

\* handle_deposit_tx_message of a seller who is the maker
handle_deposit_tx_message ==
  /\ Receive("seller", "DepositTx")
  /\ Expected("seller", "DepositTx")
  /\ \/ /\ SetTrade("seller", trade.seller)
        /\ draft' = "incomplete"
        /\ start_timeout("seller")
        /\ Send("seller", "DelayedPayoutTxSignatureRequest")
        /\ UNCHANGED used
     \/ TaskFails("seller", trade.seller) /\ UNCHANGED draft
  /\ UNCHANGED <<maker, file, running, signed, publishing, listening, watching, deposit, past>>

\* BuyerFinalizesDelayedPayoutTx: from here on the buyer holds the delayed payout tx
MutantFinalizesLater(t) == t
BuyerFinalizesDelayedPayoutTx(t) == [t EXCEPT !.delayed = TRUE]

\* BuyerSendsDelayedPayoutTxSignatureResponse with the witnesses of the buyer: those of
\* the tx it signed as taker, or of the prepared tx, which only a maker has signed
MutantOnlyPrepared(t) ==
  IF t.prepared = "signed" THEN "DelayedPayoutTxSignatureResponse"
  ELSE "DelayedPayoutTxSignatureResponse, unsigned"
SignatureResponse(t) ==
  IF signed \/ t.prepared = "signed" THEN "DelayedPayoutTxSignatureResponse"
  ELSE "DelayedPayoutTxSignatureResponse, unsigned"

\* handle_delayed_payout_tx_signature_request of the buyer
handle_delayed_payout_tx_signature_request ==
  /\ Receive("buyer", "DelayedPayoutTxSignatureRequest")
  /\ Expected("buyer", "DelayedPayoutTxSignatureRequest")
  /\ \/ /\ SetTrade("buyer", BuyerFinalizesDelayedPayoutTx(trade.buyer))
        /\ start_timeout("buyer")
        /\ Send("buyer", SignatureResponse(trade.buyer))
        /\ UNCHANGED used
     \/ TaskFails("buyer", trade.buyer)
  /\ UNCHANGED <<maker, file, running, signed, draft, publishing, listening, watching,
                 deposit, past>>

\* The seller's handle_delayed_payout_tx_signature_request, which handles the response:
\* the buyer's witnesses complete the deposit tx, the signature the delayed payout tx.
\* Without the transient draft, after a restart, the first task fails. No timeout is
\* started: the one of the step before goes on
handle_delayed_payout_tx_signature_response(m) ==
  /\ m \in {"DelayedPayoutTxSignatureResponse", "DelayedPayoutTxSignatureResponse, unsigned"}
  /\ Receive("seller", m)
  /\ Expected("seller", m)
  /\ \/ /\ draft # "none"
        /\ draft' = IF m = "DelayedPayoutTxSignatureResponse" THEN "complete" ELSE draft
        /\ SetTrade("seller", [trade.seller EXCEPT !.delayed = TRUE])
        /\ Send("seller", "DepositTxAndDelayedPayoutTx")
        /\ UNCHANGED <<timer, used>>
     \/ /\ draft = "none"
        /\ SetTrade("seller", failed(trade.seller))
        /\ stop_timeout("seller")
        /\ UNCHANGED <<draft, out, used>>
     \/ TaskFails("seller", trade.seller) /\ UNCHANGED draft
  /\ UNCHANGED <<maker, file, running, signed, publishing, listening, watching, deposit, past>>

-----------------------------------------------------------------------------
(* The deposit tx                                                          *)

\* broadcast_tx of the deposit tx, which commits it to the seller's wallet
SellerPublishesDepositTx ==
  /\ publishing' = [publishing EXCEPT !.seller = "deposit"]
  /\ deposit' = IF draft = "complete" THEN "wallet" ELSE "incomplete"

\* on_success of SellerPublishesDepositTx, by the network's answer or by the timeout
DepositPublished ==
  /\ "seller" \in running
  /\ publishing.seller = "deposit"
  /\ publishing' = [publishing EXCEPT !.seller = "none"]
  /\ SetTrade("seller", [apply_deposit_tx(trade.seller, FALSE)
                           EXCEPT !.state = "SELLER_PUBLISHED_DEPOSIT_TX"])
  /\ Watch("seller", FALSE)
  /\ UNCHANGED <<maker, file, running, signed, draft, out, timer, listening, inbox, deposit,
                 past, used>>

\* on_failure of a broadcast
BroadcastFails(r) ==
  /\ r \in running
  /\ publishing[r] # "none"
  /\ TaskFails(r, trade[r])
  /\ publishing' = [publishing EXCEPT ![r] = "none"]
  /\ UNCHANGED <<maker, file, running, signed, draft, listening, watching, inbox, deposit, past>>

\* BuyerProcessDepositTxAndDelayedPayoutTxMessage, its state at the end: not an
\* earlier one than the wallet or the network gave
Received(t) ==
  IF Phase(t) < DEPOSIT_PUBLISHED
  THEN [t EXCEPT !.state = "BUYER_RECEIVED_DEPOSIT_TX_PUBLISHED_MSG"] ELSE t

\* The message is accepted. Later tasks may fail too
AcceptDepositTx(t) ==
  /\ t.delayed
  /\ LET received == [Received(t) EXCEPT !.payload = TRUE]
     IN  \/ /\ SetTrade("buyer", received)
            /\ Send("buyer", "ShareBuyerPaymentAccount")
            /\ UNCHANGED <<timer, used>>
         \/ TaskFails("buyer", received)
  /\ listening' = FALSE

\* A check fails when the deposit tx has been applied and the state not yet set: the
\* delayed payout tx is not the buyer's own, as when it has none, or the payment
\* account is not that of the contract, or, with the account set, the contract's update
RejectDepositTx(t) ==
  /\ \/ /\ ~ t.delayed
        /\ SetTrade("buyer", failed(t))
        /\ stop_timeout("buyer")
        /\ UNCHANGED <<out, used>>
     \/ /\ t.delayed
        /\ \E known \in {t.payload, TRUE} : TaskFails("buyer", [t EXCEPT !.payload = known])
  /\ listening' = (listening /\ Phase(t) < DEPOSIT_PUBLISHED)

\* handle_deposit_tx_and_delayed_payout_tx_message. The message may be refused before
\* the deposit tx is applied as well
handle_deposit_tx_and_delayed_payout_tx_message ==
  /\ Receive("buyer", "DepositTxAndDelayedPayoutTx")
  /\ Expected("buyer", "DepositTxAndDelayedPayoutTx")
  /\ \/ /\ TaskFails("buyer", trade.buyer)
        /\ past' = [past EXCEPT !.message = "refused"]
        /\ UNCHANGED <<listening, watching>>
     \/ \E confirmed \in WalletKnows :
          LET t == apply_deposit_tx(trade.buyer, confirmed)
          IN  /\ Watch("buyer", confirmed)
              /\ \/ AcceptDepositTx(t) /\ UNCHANGED past
                 \/ RejectDepositTx(t) /\ past' = [past EXCEPT !.message = "rejected"]
  /\ UNCHANGED <<maker, file, running, signed, draft, publishing, deposit>>

\* handle_share_buyer_payment_account_message
handle_share_buyer_payment_account_message ==
  /\ Receive("seller", "ShareBuyerPaymentAccount")
  /\ Expected("seller", "ShareBuyerPaymentAccount")
  /\ \/ /\ SetTrade("seller", [trade.seller EXCEPT !.payload = TRUE])
        /\ stop_timeout("seller")
        /\ UNCHANGED <<out, used>>
     \/ TaskFails("seller", trade.seller)
  /\ UNCHANGED <<maker, file, running, signed, draft, publishing, listening, watching, deposit,
                 past>>

\* _apply_confidence of BuyerSetupDepositTxListener. The state is set last, whatever
\* apply_deposit_tx has made of it
apply_confidence(t, confirmed) ==
  IF t.deposit_tx THEN t
  ELSE [apply_deposit_tx(t, confirmed) EXCEPT !.state = "BUYER_SAW_DEPOSIT_TX_IN_NETWORK"]

\* on_transaction_confidence_changed of its listener
SawDepositTx ==
  /\ "buyer" \in running
  /\ listening
  /\ InNetwork
  /\ listening' = FALSE
  /\ \E confirmed \in WalletKnows :
       /\ IF trade.buyer.deposit_tx THEN UNCHANGED watching ELSE Watch("buyer", confirmed)
       /\ SetTrade("buyer", apply_confidence(trade.buyer, confirmed))
  /\ UNCHANGED <<maker, file, running, signed, draft, out, timer, publishing, inbox, deposit,
                 past, used>>

\* The trade's own listener, set_confirmed_state; nothing is persisted for it
set_confirmed_state(r) ==
  /\ r \in watching
  /\ deposit = "confirmed"
  /\ watching' = watching \ {r}
  /\ trade' = [trade EXCEPT ![r].state = "DEPOSIT_CONFIRMED_IN_BLOCK_CHAIN"]
  /\ listening' = (listening /\ r # "buyer")
  /\ UNCHANGED <<maker, file, requested, running, signed, draft, out, timer, publishing,
                 inbox, deposit, past, used>>

\* The deposit tx reaches the Bitcoin network from a wallet of who runs
TxReachesNetwork ==
  /\ "seller" \in running \/ ("buyer" \in running /\ trade.buyer.deposit_tx)
  /\ deposit = "wallet"
  /\ deposit' = "network"
  /\ UNCHANGED <<maker, trade, file, requested, running, signed, draft, out, timer,
                 publishing, listening, watching, inbox, past, used>>

\* A block with the deposit tx
TxIsConfirmed ==
  /\ deposit = "network"
  /\ publishing.seller # "deposit"
  /\ deposit' = "confirmed"
  /\ UNCHANGED <<maker, trade, file, requested, running, signed, draft, out, timer,
                 publishing, listening, watching, inbox, past, used>>

-----------------------------------------------------------------------------
(* Delivery and timeouts                                                   *)

\* on_arrived of the send task, then the tasks after it: the maker notes it, the seller
\* publishes the deposit tx, and the buyer verifies the delayed payout tx once more
on_arrived(r) ==
  /\ Role \subseteq running
  /\ out[r] # "none"
  /\ out' = [out EXCEPT ![r] = "none"]
  /\ inbox' = [inbox EXCEPT ![peer(r)] = @ \cup {out[r]}]
  /\ IF out[r] = "InputsForDepositTxResponse"
     THEN SetTrade(r, [trade[r] EXCEPT
                         !.state = "MAKER_SAW_ARRIVED_PUBLISH_DEPOSIT_TX_REQUEST"])
     ELSE SetTrade(r, trade[r])
  /\ IF out[r] = "DepositTxAndDelayedPayoutTx" THEN SellerPublishesDepositTx
     ELSE UNCHANGED <<publishing, deposit>>
  /\ IF out[r] = "ShareBuyerPaymentAccount" THEN stop_timeout(r) ELSE UNCHANGED timer
  /\ UNCHANGED <<maker, file, running, signed, draft, listening, watching, past, used>>

\* A mailbox message is forgotten, its task never ends, and no later one is run
MutantPublishAnyway(r) ==
  /\ UNCHANGED <<trade, requested, timer>>
  /\ IF r = "seller" THEN SellerPublishesDepositTx ELSE UNCHANGED <<publishing, deposit>>
TaskHangs(r) == UNCHANGED <<trade, requested, timer, publishing, deposit>>

\* The peer is not reached, which ends the step of a direct message with a fault
on_fault(r) ==
  /\ r \in running
  /\ out[r] # "none"
  /\ IF peer(r) \in running THEN Fail ELSE UNCHANGED used
  /\ out' = [out EXCEPT ![r] = "none"]
  /\ IF out[r] \in {"DepositTxAndDelayedPayoutTx", "ShareBuyerPaymentAccount"}
     THEN TaskHangs(r)
     ELSE /\ stop_timeout(r)
          /\ UNCHANGED <<publishing, deposit>>
          /\ SetTrade(r, failed(
               IF out[r] = "InputsForDepositTxResponse"
               THEN [trade[r] EXCEPT !.state = "MAKER_SEND_FAILED_PUBLISH_DEPOSIT_TX_REQUEST"]
               ELSE trade[r]))
  /\ UNCHANGED <<maker, file, running, signed, draft, listening, watching, inbox, past>>

\* on_timeout: the trade gets an error_message; the open step goes on, and messages that
\* come late are handled
on_timeout(r) ==
  /\ r \in timer
  /\ stop_timeout(r)
  /\ SetTrade(r, [trade[r] EXCEPT !.error_message = TRUE])
  /\ UNCHANGED <<maker, file, running, signed, draft, out, publishing, listening, watching,
                 inbox, deposit, past, used>>

-----------------------------------------------------------------------------
(* Persistence, exit and start                                             *)

\* The file of PendingTrades is written (see PersistenceManager)
Persist(r) ==
  /\ r \in running \cap requested
  /\ file' = [file EXCEPT ![r] = trade[r]]
  /\ requested' = requested \ {r}
  /\ UNCHANGED <<maker, trade, running, signed, draft, out, timer, publishing, listening,
                 watching, inbox, deposit, past, used>>

\* What is in the memory of r is gone, but for what its file holds
StopRunning(r) ==
  /\ used.stops < MaxStops
  /\ used' = [used EXCEPT !.stops = @ + 1]
  /\ running' = running \ {r}
  /\ requested' = requested \ {r}
  /\ inbox' = [inbox EXCEPT ![r] = {}]
  /\ out' = [out EXCEPT ![r] = "none"]
  /\ stop_timeout(r)
  /\ publishing' = [publishing EXCEPT ![r] = "none"]
  /\ watching' = watching \ {r}
  /\ IF r = "buyer" THEN signed' = FALSE /\ listening' = FALSE /\ UNCHANGED draft
                    ELSE draft' = "none" /\ UNCHANGED <<signed, listening>>
  /\ UNCHANGED <<maker, deposit>>

\* A regular exit flushes PendingTrades, which has source PRIVATE
Exit(r) ==
  /\ r \in running
  /\ file' = [file EXCEPT ![r] = trade[r]]
  /\ past' = [past EXCEPT !.stopped = @ \cup {r}]
  /\ StopRunning(r)
  /\ UNCHANGED trade

Crash(r) ==
  /\ r \in running
  /\ trade' = [trade EXCEPT ![r] = file[r]]
  /\ past' = [past EXCEPT !.stopped = @ \cup {r},
                          !.lost = IF r \in requested THEN @ \cup {r} ELSE @]
  /\ StopRunning(r)
  /\ UNCHANGED file

\* BuyerSetupDepositTxListener.run at the start of a buyer in TAKER_FEE_PUBLISHED, then
\* update_deposit_tx_from_wallet. known: the wallet has seen the deposit tx already
MutantNoListener(known) == Phase(trade.buyer) = NO_TRADE
NeedsListener(known) ==
  /\ Phase(trade.buyer) = TAKER_FEE_PUBLISHED
  /\ ~ trade.buyer.deposit_tx /\ trade.buyer.prepared # "none"
BuyerStartup(t, known, confirmed) ==
  IF NeedsListener(known) /\ known THEN apply_confidence(t, confirmed) ELSE t

\* init_persisted_trade: the protocol's on_initialized, then the deposit tx is applied
\* again with what the wallet knows of it
Start(r) ==
  /\ r \notin running
  /\ running' = running \cup {r}
  /\ \E known \in {k \in BOOLEAN : k => InNetwork}, confirmed \in WalletKnows :
       LET t == IF r = "buyer" THEN BuyerStartup(trade[r], known, confirmed) ELSE trade[r]
           again == apply_deposit_tx(t, confirmed)
       IN  /\ confirmed => known
           /\ listening' = (listening \/ (r = "buyer" /\ NeedsListener(known) /\ ~ known))
           /\ SetTrade(r, IF t.deposit_tx THEN again ELSE t)
           /\ IF t.deposit_tx THEN Watch(r, confirmed) ELSE UNCHANGED watching
  /\ UNCHANGED <<maker, file, signed, draft, out, timer, publishing, inbox, deposit, past, used>>

-----------------------------------------------------------------------------
Next ==
  \/ on_take_offer
  \/ handle_take_offer_request
  \/ handle_inputs_for_deposit_tx_response
  \/ FeePublished
  \/ handle_deposit_tx_message
  \/ handle_delayed_payout_tx_signature_request
  \/ DepositPublished
  \/ handle_deposit_tx_and_delayed_payout_tx_message
  \/ handle_share_buyer_payment_account_message
  \/ SawDepositTx \/ TxReachesNetwork \/ TxIsConfirmed
  \/ \E r \in Role :
       \/ BroadcastFails(r) \/ set_confirmed_state(r)
       \/ on_arrived(r) \/ on_fault(r) \/ on_timeout(r)
       \/ Persist(r) \/ Exit(r) \/ Crash(r) \/ Start(r)
       \/ \E m \in Message : handle_unexpected(r, m)
  \/ \E m \in Message : handle_delayed_payout_tx_signature_response(m)

Spec == Init /\ [][Next]_vars

\* Timers fire, that of a broadcast too, wallets report what they know, and an
\* application that was stopped is started again; nothing is assumed of the connections,
\* nor that what has arrived is ever handled
FairSpec ==
  /\ Spec
  /\ WF_vars(SawDepositTx) /\ WF_vars(DepositPublished)
  /\ \A r \in Role : WF_vars(on_timeout(r)) /\ WF_vars(Start(r))
                  /\ WF_vars(set_confirmed_state(r))

\* The same, and the buyer handles the message with the deposit tx once it has arrived
HandlingSpec == FairSpec /\ WF_vars(handle_deposit_tx_and_delayed_payout_tx_message)

-----------------------------------------------------------------------------
(* No coins are locked without the delayed payout tx: when the deposit tx   *)
(* can be in the network, both sides hold it, in memory and on disk or      *)
(* about to be written, whatever fails and whoever restarts; only a crash   *)
(* that loses unwritten data can take it from a side.                       *)
NoDepositWithoutDelayedPayout ==
  deposit \in {"wallet", "network", "confirmed"} =>
    \A r \in Role \ past.lost :
      trade[r].delayed /\ (file[r].delayed \/ r \in requested)

(* A buyer who believes that the deposit is paid is right: the tx the       *)
(* seller publishes is signed by both, unless the buyer was restarted in    *)
(* the process and answered with the prepared tx, which it has not signed.  *)
BuyerSeesSignedDeposit ==
  Phase(trade.buyer) >= DEPOSIT_PUBLISHED /\ deposit = "incomplete"
    => "buyer" \in past.stopped

(* The seller never publishes the deposit before the buyer has got the      *)
(* message with it and the delayed payout tx ("Now we send it first to the  *)
(* peer and only if that succeeds we publish it"): the message was handled, *)
(* or waits to be, unless the buyer was stopped.                            *)
PublishedAfterDelivery ==
  deposit # "none" =>
    \/ "DepositTxAndDelayedPayoutTx" \in inbox.buyer
    \/ past.message # "none" \/ trade.buyer.deposit_tx
    \/ "buyer" \in past.stopped

(* Nobody is left waiting: who started the process sees the deposit         *)
(* published or an error_message, or has restarted the application.         *)
ProcessEnds ==
  \A r \in Role :
    trade[r].state # "NONE" ~>
      Phase(trade[r]) >= DEPOSIT_PUBLISHED \/ trade[r].error_message \/ r \in past.stopped

(* The buyer notices a deposit tx in the network even if the seller's       *)
(* message was never handled and the application was restarted, as long as  *)
(* no crash lost the trade's data. If a check of the message failed after   *)
(* its deposit tx was applied, the listener for the network does nothing    *)
(* and a restart adds none: the buyer notices the tx in a block.            *)
DepositReachesBuyer ==
  InNetwork ~>
    \/ Phase(trade.buyer) >= DEPOSIT_PUBLISHED
    \/ "buyer" \in past.lost
    \/ past.message = "rejected" /\ deposit # "confirmed"

(* A confirmed deposit tx is confirmed for the buyer's trade too, however    *)
(* late the wallet finds it ("If we got already the confirmation we don't   *)
(* want to apply an earlier state",                                         *)
(* BuyerProcessDepositTxAndDelayedPayoutTxMessage).                         *)
ConfirmationReachesBuyer ==
  deposit = "confirmed" ~>
    Phase(trade.buyer) = DEPOSIT_CONFIRMED \/ "buyer" \in past.lost
=============================================================================
