----------------------------- MODULE TradePayment -----------------------------
(***************************************************************************)
(* The payment phase of a bisq_v1 trade (core/trade/protocol/bisq_v1): the *)
(* deposit tx is published, the buyer pays outside of Bisq and tells the   *)
(* seller with a CounterCurrencyTransferStartedMessage, the seller signs   *)
(* and broadcasts the payout tx and tells the buyer with a                 *)
(* PayoutTxPublishedMessage. Both sides persist the trade, may exit or     *)
(* crash at any time and continue from their file.                         *)
(*                                                                         *)
(* A message that cannot be delivered directly should go to the receiver's *)
(* mailbox. The code never gets there: on_failure in                       *)
(* send_encrypted_mailbox_message asks the message for get_ttl(), which no *)
(* TradeMailboxMessage has, and the exception ends the callback, so that   *)
(* neither on_stored_in_mailbox nor on_fault is called. Undelivered means  *)
(* lost here, as it does there.                                            *)
(*                                                                         *)
(* Left out: disputes (confirm_permitted is true), withdrawal, the signed  *)
(* account age witness, and the ACK of the PayoutTxPublishedMessage, which *)
(* on_ack_message does nothing with.                                       *)
(***************************************************************************)
EXTENDS Naturals, Sequences

CONSTANTS
  MaxResends,   \* MAX_RESEND_ATTEMPTS of the buyer's message
  MaxClicks,    \* bound: payment receipts the seller confirms
  MaxFailures,  \* bound: tasks, deliveries and broadcasts that fail
  MaxExits,     \* bound: regular exits, which flush the trade to its file
  MaxCrashes    \* bound: exits that flush nothing

ASSUME PaymentAssumption ==
  {MaxResends, MaxClicks, MaxFailures, MaxExits, MaxCrashes} \subseteq Nat

Role == {"buyer", "seller"}
Message == {"CounterCurrencyTransferStarted", "PayoutTxPublished", "Ack"}

\* TradeState, in the order of the enum, from the end of the take offer process on
TradeStateOrder ==
  <<"SELLER_PUBLISHED_DEPOSIT_TX",
    "BUYER_RECEIVED_DEPOSIT_TX_PUBLISHED_MSG",
    "DEPOSIT_CONFIRMED_IN_BLOCK_CHAIN",
    "BUYER_CONFIRMED_IN_UI_FIAT_PAYMENT_INITIATED",
    "BUYER_SENT_FIAT_PAYMENT_INITIATED_MSG",
    "BUYER_SEND_FAILED_FIAT_PAYMENT_INITIATED_MSG",
    "SELLER_RECEIVED_FIAT_PAYMENT_INITIATED_MSG",
    "SELLER_CONFIRMED_IN_UI_FIAT_PAYMENT_RECEIPT",
    "SELLER_PUBLISHED_PAYOUT_TX",
    "SELLER_SENT_PAYOUT_TX_PUBLISHED_MSG",
    "SELLER_SAW_ARRIVED_PAYOUT_TX_PUBLISHED_MSG",
    "SELLER_SEND_FAILED_PAYOUT_TX_PUBLISHED_MSG",
    "BUYER_RECEIVED_PAYOUT_TX_PUBLISHED_MSG",
    "BUYER_SAW_PAYOUT_TX_IN_NETWORK">>

TradeState == {TradeStateOrder[i] : i \in DOMAIN TradeStateOrder}
Ordinal(s) == CHOOSE i \in DOMAIN TradeStateOrder : TradeStateOrder[i] = s

DEPOSIT_PUBLISHED == 2
DEPOSIT_CONFIRMED == 3
FIAT_SENT == 4
FIAT_RECEIVED == 5
PAYOUT_PUBLISHED == 6

\* The TradePhase of a state
Phase(s) ==
  CASE Ordinal(s) \in 1 .. 2  -> DEPOSIT_PUBLISHED
    [] Ordinal(s) = 3         -> DEPOSIT_CONFIRMED
    [] Ordinal(s) \in 4 .. 7  -> FIAT_SENT
    [] Ordinal(s) = 8         -> FIAT_RECEIVED
    [] Ordinal(s) \in 9 .. 14 -> PAYOUT_PUBLISHED

VARIABLES
  trade,     \* trade[r]: the Trade of the buyer and that of the seller, in memory
  file,      \* file[r]: what PendingTrades of r holds of it
  requested, \* roles whose TradeManager has requested persistence
  running,   \* roles whose application runs
  task,      \* the buyer's BuyerSendCounterCurrencyTransferStartedMessage
  listening, \* the buyer's SetupPayoutTxListener listens to the wallet, or has failed
  payout,    \* the seller's BroadcastPayoutTx and SellerSendPayoutTxPublishedMessage
  inbox,     \* inbox[r]: messages written to a connection of r, not yet handled
  wallet,    \* roles whose wallet holds the payout tx
  chain,     \* the Bitcoin network has the payout tx
  seen,      \* history: which buttons were clicked
  used       \* how much of each bound is used up

vars == <<trade, file, requested, running, task, listening, payout, inbox, wallet,
          chain, seen, used>>

Listening == {"no", "yes", "failed"}
TradeModel == [state : TradeState, payout_tx : BOOLEAN]

TypeOK ==
  /\ trade \in [Role -> TradeModel]
  /\ file \in [Role -> TradeModel]
  /\ requested \subseteq Role
  /\ running \subseteq Role
  /\ task \in [sending : {"no", "sending", "written"}, timer : BOOLEAN,
               resend_counter : 0 .. MaxResends]
  /\ listening \in Listening
  /\ payout \in [broadcast : {"none", "pending", "timed out", "done", "failed"},
                 sending : 0 .. MaxClicks, written : 0 .. MaxClicks]
  /\ inbox \in [Role -> SUBSET Message]
  /\ wallet \subseteq Role
  /\ chain \in BOOLEAN
  /\ seen \in [started : BOOLEAN, received : 0 .. MaxClicks]
  /\ used \in [failures : 0 .. MaxFailures, exits : 0 .. MaxExits,
               crashes : 0 .. MaxCrashes]

NewTask == [sending |-> "no", timer |-> FALSE, resend_counter |-> 0]
NewPayout == [broadcast |-> "none", sending |-> 0, written |-> 0]

\* Both sides have the deposit tx and have persisted the trade
Init ==
  /\ trade = [buyer |-> [state |-> "BUYER_RECEIVED_DEPOSIT_TX_PUBLISHED_MSG",
                         payout_tx |-> FALSE],
              seller |-> [state |-> "SELLER_PUBLISHED_DEPOSIT_TX", payout_tx |-> FALSE]]
  /\ file = trade
  /\ requested = {}
  /\ running = Role
  /\ task = NewTask
  /\ listening = "no"
  /\ payout = NewPayout
  /\ inbox = [r \in Role |-> {}]
  /\ wallet = {}
  /\ chain = FALSE
  /\ seen = [started |-> FALSE, received |-> 0]
  /\ used = [failures |-> 0, exits |-> 0, crashes |-> 0]

-----------------------------------------------------------------------------
PhaseOf(r) == Phase(trade[r].state)
is_payout_published(t) == Phase(t.state) >= PAYOUT_PUBLISHED

\* set_state_if_valid_transition_to: never back to an earlier phase
MutantAnyTransition(t, new) == [t EXCEPT !.state = new]
set_state_if_valid_transition_to(t, new) ==
  IF Phase(new) >= Phase(t.state) THEN [t EXCEPT !.state = new] ELSE t

request_persistence(r) == requested' = requested \cup {r}

\* Something in the environment goes wrong
Fail ==
  /\ used.failures < MaxFailures
  /\ used' = [used EXCEPT !.failures = @ + 1]

\* The wallet reports the deposit tx as confirmed. Nothing is persisted for it:
\* the wallet reports it again after the next start
set_confirmed_state(r) ==
  /\ r \in running
  /\ PhaseOf(r) < DEPOSIT_CONFIRMED
  /\ trade' = [trade EXCEPT ![r].state = "DEPOSIT_CONFIRMED_IN_BLOCK_CHAIN"]
  /\ UNCHANGED <<file, requested, running, task, listening, payout, inbox, wallet,
                 chain, seen, used>>

-----------------------------------------------------------------------------
(* The buyer's message to the seller                                       *)

\* _try_to_send_again_later
MutantResendForEver(k) == [k EXCEPT !.timer = TRUE, !.resend_counter = @ + 1]
try_to_send_again_later(k) ==
  IF k.resend_counter >= MaxResends THEN [k EXCEPT !.timer = FALSE]
  ELSE [k EXCEPT !.timer = TRUE, !.resend_counter = @ + 1]

\* set_state_sent: not if a later state was reached, by an earlier attempt or the payout
set_state_sent(t) ==
  IF Ordinal(t.state) < Ordinal("BUYER_SENT_FIAT_PAYMENT_INITIATED_MSG")
  THEN set_state_if_valid_transition_to(t, "BUYER_SENT_FIAT_PAYMENT_INITIATED_MSG")
  ELSE t

\* run() of the task when the trade is t. Without a connection on_fault is called
\* from inside, and the timer it starts is stopped by the cleanup at run's end
RunSendTask(t) ==
  \/ /\ trade' = [trade EXCEPT !.buyer = set_state_sent(t)]
     /\ task' = [task EXCEPT !.sending = "sending", !.timer = FALSE]
     /\ UNCHANGED used
  \/ /\ Fail
     /\ trade' = [trade EXCEPT !.buyer = set_state_if_valid_transition_to(
                    set_state_sent(t), "BUYER_SEND_FAILED_FIAT_PAYMENT_INITIATED_MSG")]
     /\ task' = LET k == IF is_payout_published(t) THEN task
                         ELSE try_to_send_again_later(task)
                IN  [k EXCEPT !.timer = FALSE]

\* send_message writes the message to a connection to the seller
WriteToSeller ==
  /\ Role \subseteq running
  /\ task.sending = "sending"
  /\ task' = [task EXCEPT !.sending = "written"]
  /\ inbox' = [inbox EXCEPT !.seller = @ \cup {"CounterCurrencyTransferStarted"}]
  /\ UNCHANGED <<trade, file, requested, running, listening, payout, wallet, chain,
                 seen, used>>

\* on_arrived, called some time after the write: set_state_arrived. The task stays
\* open and waits for the ACK, in vain: see on_ack_message
on_arrived ==
  /\ "buyer" \in running
  /\ task.sending = "written"
  /\ task' = LET k == [task EXCEPT !.sending = "no"]
             IN  IF is_payout_published(trade.buyer) THEN k ELSE try_to_send_again_later(k)
  /\ UNCHANGED <<trade, file, requested, running, listening, payout, inbox, wallet,
                 chain, seen, used>>

\* The seller cannot be reached: on_failure raises, the attempt is forgotten
on_failure ==
  /\ "buyer" \in running
  /\ task.sending = "sending"
  /\ IF "seller" \in running THEN Fail ELSE UNCHANGED used
  /\ task' = [task EXCEPT !.sending = "no"]
  /\ UNCHANGED <<trade, file, requested, running, listening, payout, inbox, wallet,
                 chain, seen>>

\* The timer started by _try_to_send_again_later runs the task again
ResendTimer ==
  /\ "buyer" \in running
  /\ task.timer
  /\ RunSendTask(trade.buyer)
  /\ request_persistence("buyer")
  /\ UNCHANGED <<file, running, listening, payout, inbox, wallet, chain, seen>>

-----------------------------------------------------------------------------
(* The buyer's other steps                                                 *)

\* _apply_confidence with set_state of BuyerSetupPayoutTxListener
MutantForgetTx(t) == set_state_if_valid_transition_to(t, "BUYER_SAW_PAYOUT_TX_IN_NETWORK")
apply_confidence(t) ==
  IF t.payout_tx THEN t
  ELSE [set_state_if_valid_transition_to(t, "BUYER_SAW_PAYOUT_TX_IN_NETWORK")
          EXCEPT !.payout_tx = TRUE]

\* SetupPayoutTxListener, with no payout published yet: either the wallet knows the
\* payout tx already, or it is listened to
SetupPayoutTxListener(known) ==
  /\ known => chain
  /\ wallet' = IF known THEN wallet \cup {"buyer"} ELSE wallet
  /\ listening' = IF known THEN listening ELSE "yes"

\* The trade after that
WithListener(t, known) == IF known THEN apply_confidence(t) ELSE t

\* on_payment_started: the state is set first; then the tasks, of which those before
\* the listener may fail
on_payment_started ==
  /\ "buyer" \in running
  /\ PhaseOf("buyer") = DEPOSIT_CONFIRMED
  /\ seen' = [seen EXCEPT !.started = TRUE]
  /\ request_persistence("buyer")
  /\ LET t == [trade.buyer EXCEPT !.state = "BUYER_CONFIRMED_IN_UI_FIAT_PAYMENT_INITIATED"]
     IN  \/ \E known \in BOOLEAN :
              SetupPayoutTxListener(known) /\ RunSendTask(WithListener(t, known))
         \/ /\ Fail
            /\ trade' = [trade EXCEPT !.buyer = t]
            /\ UNCHANGED <<task, listening, wallet>>
  /\ UNCHANGED <<file, running, payout, inbox, chain>>

\* on_transaction_confidence_changed: the wallet has received the payout tx
SawPayoutTx ==
  /\ "buyer" \in running
  /\ listening = "yes" /\ chain
  /\ wallet' = wallet \cup {"buyer"}
  /\ listening' = "no"
  /\ trade' = [trade EXCEPT !.buyer = apply_confidence(@)]
  /\ request_persistence("buyer")
  /\ UNCHANGED <<file, running, task, payout, inbox, chain, seen, used>>

\* handle_payout_tx_published_message with BuyerProcessPayoutTxPublishedMessage. The
\* state change ends the listener. In another phase the message is dropped
handle_payout_tx_published_message ==
  /\ "buyer" \in running
  /\ "PayoutTxPublished" \in inbox.buyer
  /\ inbox' = [inbox EXCEPT !.buyer = @ \ {"PayoutTxPublished"}]
  /\ IF PhaseOf("buyer") \in {FIAT_SENT, PAYOUT_PUBLISHED}
     THEN /\ request_persistence("buyer")
          /\ IF trade.buyer.payout_tx THEN UNCHANGED <<trade, listening, wallet>>
             ELSE /\ trade' = [trade EXCEPT !.buyer =
                                 [state |-> "BUYER_RECEIVED_PAYOUT_TX_PUBLISHED_MSG",
                                  payout_tx |-> TRUE]]
                  /\ listening' = "no"
                  /\ wallet' = wallet \cup {"buyer"}
     ELSE UNCHANGED <<trade, listening, wallet, requested>>
  /\ UNCHANGED <<file, running, task, payout, chain, seen, used>>

\* on_ack_message compares the name of the acknowledged class with the name of the
\* class of that class, so no ACK is ever recorded and the task never learns of it
on_ack_message ==
  /\ "buyer" \in running
  /\ "Ack" \in inbox.buyer
  /\ inbox' = [inbox EXCEPT !.buyer = @ \ {"Ack"}]
  /\ UNCHANGED <<trade, file, requested, running, task, listening, payout, wallet,
                 chain, seen, used>>

-----------------------------------------------------------------------------
(* The seller                                                              *)

\* The trade after the message was processed; what else it brings is data of the tx
SellerProcessCounterCurrencyTransferStartedMessage(t) ==
  [t EXCEPT !.state = "SELLER_RECEIVED_FIAT_PAYMENT_INITIATED_MSG"]

\* handle_counter_currency_transfer_started_message. Success sends an ACK, which the
\* buyer gets if it is running; a failing task comes after the state change. A
\* repeated message is out of phase and neither acknowledged nor kept
handle_counter_currency_transfer_started_message ==
  /\ "seller" \in running
  /\ "CounterCurrencyTransferStarted" \in inbox.seller
  /\ LET handled == [inbox EXCEPT !.seller = @ \ {"CounterCurrencyTransferStarted"}]
     IN  IF PhaseOf("seller") \in {DEPOSIT_PUBLISHED, DEPOSIT_CONFIRMED}
         THEN /\ trade' = [trade EXCEPT !.seller =
                             SellerProcessCounterCurrencyTransferStartedMessage(@)]
              /\ request_persistence("seller")
              /\ \/ /\ "buyer" \in running
                    /\ inbox' = [handled EXCEPT !.buyer = @ \cup {"Ack"}]
                    /\ UNCHANGED used
                 \/ /\ IF "buyer" \in running THEN Fail ELSE UNCHANGED used
                    /\ inbox' = handled
         ELSE inbox' = handled /\ UNCHANGED <<trade, requested, used>>
  /\ UNCHANGED <<file, running, task, listening, payout, wallet, chain, seen>>

\* set_state of SellerBroadcastPayoutTx, then SellerSendPayoutTxPublishedMessage.run:
\* set_state_sent and, if there is a connection, the send. b is the broadcast's outcome
PublishedThenSend(t, b) ==
  \/ /\ trade' = [trade EXCEPT !.seller =
                    [t EXCEPT !.state = "SELLER_SENT_PAYOUT_TX_PUBLISHED_MSG"]]
     /\ payout' = [payout EXCEPT !.broadcast = b, !.sending = @ + 1]
     /\ UNCHANGED used
  \/ /\ Fail
     /\ trade' = [trade EXCEPT !.seller =
                    [t EXCEPT !.state = "SELLER_SEND_FAILED_PAYOUT_TX_PUBLISHED_MSG"]]
     /\ payout' = [payout EXCEPT !.broadcast = b]

\* The phases in which the seller may confirm the receipt of the payment
MutantConfirmAnyTime == {DEPOSIT_CONFIRMED, FIAT_SENT, PAYOUT_PUBLISHED}
ConfirmPhases == {FIAT_SENT, PAYOUT_PUBLISHED}

\* The trade after the seller has signed the payout tx too
SellerSignAndFinalizePayoutTx(t) == [t EXCEPT !.payout_tx = TRUE]

\* TxBroadcaster.broadcast_tx: the wallet gets the tx, and a timer is started
broadcast_tx ==
  /\ payout' = [payout EXCEPT !.broadcast = "pending"]
  /\ wallet' = wallet \cup {"seller"}

\* on_payment_received. The state is set first, back from PAYOUT_PUBLISHED if need be.
\* Then the tasks up to SellerSignAndFinalizePayoutTx, which may fail; then
\* BroadcastPayoutTx, which has nothing to do if the wallet has the tx already
on_payment_received ==
  /\ "seller" \in running
  /\ PhaseOf("seller") \in ConfirmPhases
  /\ seen.received < MaxClicks
  /\ seen' = [seen EXCEPT !.received = @ + 1]
  /\ request_persistence("seller")
  /\ LET t == [trade.seller EXCEPT !.state = "SELLER_CONFIRMED_IN_UI_FIAT_PAYMENT_RECEIPT"]
         signed == SellerSignAndFinalizePayoutTx(t)
     IN  \/ /\ Fail
            /\ trade' = [trade EXCEPT !.seller = t]
            /\ UNCHANGED <<payout, wallet>>
         \/ /\ "seller" \in wallet
            /\ PublishedThenSend(signed, payout.broadcast)
            /\ UNCHANGED wallet
         \/ /\ "seller" \notin wallet
            /\ trade' = [trade EXCEPT !.seller = signed]
            /\ broadcast_tx
            /\ UNCHANGED used
  /\ UNCHANGED <<file, running, task, listening, inbox, chain>>

\* The payout tx reaches the Bitcoin network from a wallet that has it: by the seller's
\* broadcast, or as the wallets broadcast it again at their start
TxReachesNetwork ==
  /\ wallet \cap running # {}
  /\ ~ chain
  /\ chain' = TRUE
  /\ UNCHANGED <<trade, file, requested, running, task, listening, payout, inbox,
                 wallet, seen, used>>

\* on_success of the broadcast; after the timeout it does nothing
on_broadcast_success ==
  /\ "seller" \in running
  /\ chain
  /\ \/ /\ payout.broadcast = "pending"
        /\ PublishedThenSend(trade.seller, "done")
        /\ request_persistence("seller")
     \/ /\ payout.broadcast = "timed out"
        /\ payout' = [payout EXCEPT !.broadcast = "done"]
        /\ UNCHANGED <<trade, requested, used>>
  /\ UNCHANGED <<file, running, task, listening, inbox, wallet, chain, seen>>

\* on_timeout, after 5 seconds without an answer, counts as a success
on_timeout ==
  /\ "seller" \in running
  /\ payout.broadcast = "pending"
  /\ PublishedThenSend(trade.seller, "timed out")
  /\ request_persistence("seller")
  /\ UNCHANGED <<file, running, task, listening, inbox, wallet, chain, seen>>

\* on_failure of the broadcast ends the tasks; after the timeout it does nothing
on_broadcast_failure ==
  /\ "seller" \in running
  /\ payout.broadcast \in {"pending", "timed out"}
  /\ Fail
  /\ payout' = [payout EXCEPT !.broadcast = "failed"]
  /\ UNCHANGED <<trade, file, requested, running, task, listening, inbox, wallet,
                 chain, seen>>

\* send_message writes the PayoutTxPublishedMessage to a connection to the buyer
WriteToBuyer ==
  /\ Role \subseteq running
  /\ payout.sending > 0
  /\ payout' = [payout EXCEPT !.sending = @ - 1, !.written = @ + 1]
  /\ inbox' = [inbox EXCEPT !.buyer = @ \cup {"PayoutTxPublished"}]
  /\ UNCHANGED <<trade, file, requested, running, task, listening, wallet, chain,
                 seen, used>>

\* set_state_arrived, called some time after the write
on_payout_message_arrived ==
  /\ "seller" \in running
  /\ payout.written > 0
  /\ payout' = [payout EXCEPT !.written = @ - 1]
  /\ trade' = [trade EXCEPT !.seller.state = "SELLER_SAW_ARRIVED_PAYOUT_TX_PUBLISHED_MSG"]
  /\ request_persistence("seller")
  /\ UNCHANGED <<file, running, task, listening, inbox, wallet, chain, seen, used>>

\* The buyer cannot be reached: on_failure raises, the message is forgotten
on_payout_message_failure ==
  /\ "seller" \in running
  /\ payout.sending > 0
  /\ IF "buyer" \in running THEN Fail ELSE UNCHANGED used
  /\ payout' = [payout EXCEPT !.sending = @ - 1]
  /\ UNCHANGED <<trade, file, requested, running, task, listening, inbox, wallet,
                 chain, seen>>

-----------------------------------------------------------------------------
(* Persistence, exit and start                                             *)

\* The file of PendingTrades is written (see PersistenceManager)
Persist(r) ==
  /\ r \in running \cap requested
  /\ file' = [file EXCEPT ![r] = trade[r]]
  /\ requested' = requested \ {r}
  /\ UNCHANGED <<trade, running, task, listening, payout, inbox, wallet, chain, seen, used>>

\* What is in the memory of r is gone, but for what its file holds
StopRunning(r) ==
  /\ running' = running \ {r}
  /\ requested' = requested \ {r}
  /\ inbox' = [inbox EXCEPT ![r] = {}]
  /\ IF r = "buyer" THEN task' = NewTask /\ listening' = "no" /\ UNCHANGED payout
                    ELSE payout' = NewPayout /\ UNCHANGED <<task, listening>>
  /\ UNCHANGED <<wallet, chain, seen>>

\* A regular exit flushes PendingTrades, which has source PRIVATE
Exit(r) ==
  /\ r \in running
  /\ used.exits < MaxExits
  /\ used' = [used EXCEPT !.exits = @ + 1]
  /\ file' = [file EXCEPT ![r] = trade[r]]
  /\ StopRunning(r)
  /\ UNCHANGED trade

Crash(r) ==
  /\ r \in running
  /\ used.crashes < MaxCrashes
  /\ used' = [used EXCEPT !.crashes = @ + 1]
  /\ trade' = [trade EXCEPT ![r] = file[r]]
  /\ StopRunning(r)
  /\ UNCHANGED file

\* BuyerProtocol.on_initialized sends the message again if the last attempt failed
SendAtStartup(t) ==
  IF t.state = "BUYER_SEND_FAILED_FIAT_PAYMENT_INITIATED_MSG" THEN RunSendTask(t)
  ELSE trade' = [trade EXCEPT !.buyer = t] /\ UNCHANGED <<task, used>>

\* The wallet does not know the deposit tx, so that SetupPayoutTxListener fails
SetupFails == listening' = "failed" /\ UNCHANGED wallet

\* BuyerProtocol.on_initialized: the steps of a buyer that waits for the payout
MutantNoListener == SendAtStartup(trade.buyer) /\ UNCHANGED <<listening, wallet>>
BuyerStartup ==
  IF PhaseOf("buyer") \in {FIAT_SENT, FIAT_RECEIVED}
  THEN \/ \E known \in BOOLEAN :
            SetupPayoutTxListener(known) /\ SendAtStartup(WithListener(trade.buyer, known))
       \/ SetupFails /\ SendAtStartup(trade.buyer)
  ELSE UNCHANGED <<trade, task, listening, wallet, used>>

\* init_persisted_trade
Start(r) ==
  /\ r \notin running
  /\ running' = running \cup {r}
  /\ request_persistence(r)
  /\ IF r = "buyer" THEN BuyerStartup ELSE UNCHANGED <<trade, task, listening, wallet, used>>
  /\ UNCHANGED <<file, payout, inbox, chain, seen>>

-----------------------------------------------------------------------------
\* Callbacks, timers, messages and starts that are due, whatever the users do
Step ==
  \/ WriteToSeller \/ on_arrived \/ ResendTimer \/ SawPayoutTx
  \/ handle_payout_tx_published_message \/ on_ack_message
  \/ handle_counter_currency_transfer_started_message
  \/ on_broadcast_success \/ on_timeout \/ WriteToBuyer \/ on_payout_message_arrived
  \/ \E r \in Role : set_confirmed_state(r) \/ Persist(r) \/ Start(r)

Next ==
  \/ Step
  \/ on_payment_started \/ on_payment_received
  \/ on_failure \/ on_broadcast_failure \/ on_payout_message_failure
  \/ TxReachesNetwork
  \/ \E r \in Role : Exit(r) \/ Crash(r)

Spec == Init /\ [][Next]_vars

\* The user threads run what is due, connections deliver what they accept unless they
\* fail, and an application that was stopped is started again
FairSpec ==
  /\ Spec
  /\ WF_vars(WriteToSeller) /\ WF_vars(on_arrived) /\ WF_vars(ResendTimer)
  /\ WF_vars(SawPayoutTx) /\ WF_vars(handle_payout_tx_published_message)
  /\ WF_vars(handle_counter_currency_transfer_started_message)
  /\ \A r \in Role : WF_vars(Start(r)) /\ WF_vars(set_confirmed_state(r))

-----------------------------------------------------------------------------
(* Nobody holds a payout tx, and none is in the network, unless the buyer   *)
(* has said that he paid and the seller that he was paid, however messages, *)
(* crashes and repeated clicks interleave.                                  *)
PayoutIsAuthorized ==
  chain \/ wallet # {} \/ (\E r \in Role : trade[r].payout_tx \/ file[r].payout_tx)
    => seen.started /\ seen.received > 0

(* Who believes that the payout was published holds the tx, in memory and   *)
(* after a restart: it can be broadcast again, whatever became of the       *)
(* seller's broadcast.                                                      *)
PublishedHoldsTx ==
  \A r \in Role :
    /\ is_payout_published(trade[r]) => trade[r].payout_tx /\ r \in wallet
    /\ is_payout_published(file[r]) => file[r].payout_tx /\ r \in wallet

(* No callback, late or repeated, takes the buyer back to an earlier phase; *)
(* only a crash does, to what the file holds.                               *)
BuyerNeverRegresses ==
  [][Phase(trade'.buyer.state) >= Phase(trade.buyer.state) \/ Crash("buyer")]_vars

(* A payout tx in the network is noticed by the buyer, even if the seller's *)
(* message is lost and the buyer's application is restarted meanwhile. A    *)
(* crash may take the buyer's trade back to before the payment was started, *)
(* where nothing waits for the payout; and as long as the application runs  *)
(* whose start could not set up the listener, nothing listens.              *)
PayoutReachesBuyer ==
  chain /\ used.crashes = 0 ~>
    is_payout_published(trade.buyer) \/ used.crashes > 0 \/ listening = "failed"

(* A message the buyer sends reaches the seller (the docstring of           *)
(* BuyerSendCounterCurrencyTransferStartedMessage: "We keep repeating that" *)
(* and "we can be very sure that our message was stored as mailbox          *)
(* message").                                                               *)
PaymentStartedReachesSeller == task.sending = "sending" ~> PhaseOf("seller") >= FIAT_SENT
=============================================================================
