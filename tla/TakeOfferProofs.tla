--------------------------- MODULE TakeOfferProofs ---------------------------
(* Theorems about TakeOffer, for any number of failures, exits and crashes.  *)
EXTENDS TakeOffer, TLAPS

-----------------------------------------------------------------------------
(* The inductive invariant                                                 *)

\* r sends m, or m waits to be handled by the peer
OnItsWay(r, m) == out[r] = m \/ m \in inbox[peer(r)]

\* The buyer's answer to the request for its signature, with its witnesses or without
Signed == "DelayedPayoutTxSignatureResponse"
Unsigned == "DelayedPayoutTxSignatureResponse, unsigned"

\* r holds the delayed payout tx, on disk too or about to be, or a crash has taken it
Held(r) == r \in past.lost \/ (trade[r].delayed /\ (file[r].delayed \/ r \in requested))

\* Where there is no trade there is nothing of it
Empty(t) == t.state = "NONE" => ~ t.delayed /\ t.prepared = "none" /\ ~ t.deposit_tx
NothingBefore == \A r \in Role : Empty(trade[r]) /\ Empty(file[r])

\* Who has the delayed payout tx in memory has it on disk, or is about to
DelayedIsStored == \A r \in Role : trade[r].delayed => file[r].delayed \/ r \in requested

\* The buyer finalizes the delayed payout tx before it answers, and the seller before it
\* sends the deposit tx, which is complete only with the buyer's answer
HeldBeforeDeposit ==
  /\ OnItsWay("buyer", Signed) \/ draft = "complete" => Held("buyer")
  /\ out["seller"] = "DepositTxAndDelayedPayoutTx" => Held("seller")
  /\ out["buyer"] # "DepositTxAndDelayedPayoutTx"
  /\ deposit \in {"wallet", "network", "confirmed"} => \A r \in Role : Held(r)

\* A buyer that was not stopped has signed the deposit tx before the seller can ask for
\* the delayed payout tx
BuyerSigned ==
  \/ "buyer" \in past.stopped
  \/ maker = "seller" /\ signed
  \/ maker = "buyer" /\ trade["buyer"].prepared = "signed"

SignedBeforeRequest ==
  /\ OnItsWay("buyer", "DepositTx") => BuyerSigned
  /\ maker = "buyer" /\ OnItsWay("buyer", "InputsForDepositTxResponse") => BuyerSigned
  /\ maker = "buyer" /\ publishing["seller"] = "fee" => BuyerSigned
  /\ OnItsWay("seller", "DelayedPayoutTxSignatureRequest") => BuyerSigned
  /\ OnItsWay("buyer", Unsigned) => "buyer" \in past.stopped
  /\ out["seller"] = "DepositTxAndDelayedPayoutTx" /\ draft # "complete"
       => "buyer" \in past.stopped
  /\ deposit = "incomplete" => "buyer" \in past.stopped

\* The buyer has handled the message with the deposit tx, or learned of the tx before
Got == trade["buyer"].deposit_tx \/ past.message # "none"

\* A buyer that was not stopped expects the deposit tx once it has answered, until it has it
BuyerExpects ==
  "buyer" \notin past.stopped =>
    /\ \/ OnItsWay("buyer", Signed) \/ OnItsWay("buyer", Unsigned)
       \/ OnItsWay("seller", "DepositTxAndDelayedPayoutTx")
       => Phase(trade["buyer"]) >= TAKER_FEE_PUBLISHED
    /\ Phase(trade["buyer"]) = DEPOSIT_CONFIRMED \/ "buyer" \in watching
       => trade["buyer"].deposit_tx
    /\ deposit # "none" => "DepositTxAndDelayedPayoutTx" \in inbox["buyer"] \/ Got

TakeInv ==
  /\ NothingBefore /\ DelayedIsStored /\ HeldBeforeDeposit /\ SignedBeforeRequest
  /\ BuyerExpects
-----------------------------------------------------------------------------
(* What the operators return                                               *)

\* The states, and the phases that count here
LEMMA Phases ==
  /\ DOMAIN PhaseOf =
       {"NONE", "PREPARATION", "TAKER_PUBLISHED_TAKER_FEE_TX",
        "MAKER_SENT_PUBLISH_DEPOSIT_TX_REQUEST",
        "MAKER_SAW_ARRIVED_PUBLISH_DEPOSIT_TX_REQUEST",
        "MAKER_SEND_FAILED_PUBLISH_DEPOSIT_TX_REQUEST",
        "SELLER_PUBLISHED_DEPOSIT_TX", "BUYER_RECEIVED_DEPOSIT_TX_PUBLISHED_MSG",
        "BUYER_SAW_DEPOSIT_TX_IN_NETWORK", "DEPOSIT_CONFIRMED_IN_BLOCK_CHAIN"}
  /\ PhaseOf["NONE"] = 0 /\ PhaseOf["PREPARATION"] = 1
  /\ PhaseOf["TAKER_PUBLISHED_TAKER_FEE_TX"] = 2
  /\ PhaseOf["MAKER_SENT_PUBLISH_DEPOSIT_TX_REQUEST"] = 2
  /\ PhaseOf["MAKER_SAW_ARRIVED_PUBLISH_DEPOSIT_TX_REQUEST"] = 2
  /\ PhaseOf["MAKER_SEND_FAILED_PUBLISH_DEPOSIT_TX_REQUEST"] = 2
  /\ PhaseOf["SELLER_PUBLISHED_DEPOSIT_TX"] = 3
  /\ PhaseOf["BUYER_RECEIVED_DEPOSIT_TX_PUBLISHED_MSG"] = 3
  /\ PhaseOf["BUYER_SAW_DEPOSIT_TX_IN_NETWORK"] = 3
  /\ PhaseOf["DEPOSIT_CONFIRMED_IN_BLOCK_CHAIN"] = 4
BY DEF PhaseOf, NO_TRADE, INIT, TAKER_FEE_PUBLISHED, DEPOSIT_PUBLISHED, DEPOSIT_CONFIRMED

\* The phase of a trade is a number from 0 to 4, 0 where there is none
LEMMA PhaseOfTrade ==
  ASSUME NEW t \in TradeModel
  PROVE  Phase(t) \in 0 .. 4 /\ (Phase(t) = 0 <=> t.state = "NONE")
BY Phases DEF Phase, TradeModel

\* The peer of a role
LEMMA Peers ==
  /\ peer("buyer") = "seller" /\ peer("seller") = "buyer"
  /\ \A r \in Role : peer(r) \in Role /\ peer(r) # r
BY DEF peer, Role

\* A new trade, and one that failed
LEMMA NewTrades ==
  /\ NoTrade \in TradeModel /\ NewTrade \in TradeModel
  /\ NewTrade.state = "PREPARATION" /\ ~ NewTrade.delayed /\ ~ NewTrade.deposit_tx
  /\ NewTrade.prepared = "none" /\ NoTrade.state = "NONE" /\ Empty(NoTrade)
  /\ \A t \in TradeModel :
       /\ failed(t) \in TradeModel
       /\ failed(t).state = t.state /\ failed(t).prepared = t.prepared
       /\ failed(t).delayed = t.delayed /\ failed(t).deposit_tx = t.deposit_tx
<1>1. NoTrade \in TradeModel /\ NewTrade \in TradeModel
  BY Phases DEF NoTrade, NewTrade, TradeModel
<1>2. /\ NewTrade.state = "PREPARATION" /\ ~ NewTrade.delayed /\ ~ NewTrade.deposit_tx
      /\ NewTrade.prepared = "none" /\ NoTrade.state = "NONE" /\ Empty(NoTrade)
  BY DEF NoTrade, NewTrade, Empty
<1>3. ASSUME NEW t \in TradeModel
      PROVE  /\ failed(t) \in TradeModel
             /\ failed(t).state = t.state /\ failed(t).prepared = t.prepared
             /\ failed(t).delayed = t.delayed /\ failed(t).deposit_tx = t.deposit_tx
  BY DEF failed, TradeModel
<1> QED BY <1>1, <1>2, <1>3

\* A trade whose deposit tx is applied
LEMMA DepositTxApplied ==
  ASSUME NEW t \in TradeModel, NEW confirmed \in BOOLEAN
  PROVE  LET u == apply_deposit_tx(t, confirmed)
         IN  /\ u \in TradeModel /\ u.deposit_tx
             /\ u.prepared = t.prepared /\ u.delayed = t.delayed
             /\ u.state \in {t.state, "DEPOSIT_CONFIRMED_IN_BLOCK_CHAIN"}
<1>1. apply_deposit_tx(t, confirmed) \in TradeModel
  BY Phases DEF apply_deposit_tx, TradeModel
<1> QED BY <1>1 DEF apply_deposit_tx, TradeModel

\* A trade whose deposit tx was seen in the network
LEMMA ConfidenceApplied ==
  ASSUME NEW t \in TradeModel, NEW confirmed \in BOOLEAN
  PROVE  LET u == apply_confidence(t, confirmed)
         IN  /\ u \in TradeModel /\ u.deposit_tx
             /\ u.prepared = t.prepared /\ u.delayed = t.delayed
             /\ u.state \in {t.state, "BUYER_SAW_DEPOSIT_TX_IN_NETWORK"}
             /\ u = t \/ u.state = "BUYER_SAW_DEPOSIT_TX_IN_NETWORK"
<1>1. CASE t.deposit_tx
  BY <1>1 DEF apply_confidence
<1>2. CASE ~ t.deposit_tx
  <2> DEFINE u == apply_deposit_tx(t, confirmed)
             v == [u EXCEPT !.state = "BUYER_SAW_DEPOSIT_TX_IN_NETWORK"]
  <2>1. u \in TradeModel /\ u.deposit_tx /\ u.prepared = t.prepared /\ u.delayed = t.delayed
    BY DepositTxApplied
  <2>2. apply_confidence(t, confirmed) = v
    BY <1>2 DEF apply_confidence
  <2> HIDE DEF u
  <2>3. /\ v \in TradeModel /\ v.deposit_tx /\ v.prepared = t.prepared
        /\ v.delayed = t.delayed /\ v.state = "BUYER_SAW_DEPOSIT_TX_IN_NETWORK"
    BY <2>1, Phases DEF TradeModel
  <2> QED BY <2>2, <2>3
<1> QED BY <1>1, <1>2

\* A trade whose deposit tx was received
LEMMA DepositTxReceived ==
  ASSUME NEW t \in TradeModel
  PROVE  LET u == [Received(t) EXCEPT !.payload = TRUE]
         IN  /\ u \in TradeModel /\ u.deposit_tx = t.deposit_tx
             /\ u.prepared = t.prepared /\ u.delayed = t.delayed
             /\ u.state \in {t.state, "BUYER_RECEIVED_DEPOSIT_TX_PUBLISHED_MSG"}
<1> DEFINE v == Received(t)
<1>1. /\ v \in TradeModel /\ v.deposit_tx = t.deposit_tx
      /\ v.prepared = t.prepared /\ v.delayed = t.delayed
      /\ v.state \in {t.state, "BUYER_RECEIVED_DEPOSIT_TX_PUBLISHED_MSG"}
  BY Phases DEF Received, TradeModel
<1> HIDE DEF v
<1>2. LET u == [v EXCEPT !.payload = TRUE]
      IN  /\ u \in TradeModel /\ u.deposit_tx = t.deposit_tx
          /\ u.prepared = t.prepared /\ u.delayed = t.delayed
          /\ u.state \in {t.state, "BUYER_RECEIVED_DEPOSIT_TX_PUBLISHED_MSG"}
  BY <1>1 DEF TradeModel
<1> QED BY <1>2 DEF v

\* SetTrade gives the trade of r, and asks for persistence if it is another one
LEMMA SetTradeOf ==
  ASSUME TypeOK, NEW r \in Role, NEW t \in TradeModel, SetTrade(r, t)
  PROVE  /\ trade' \in [Role -> TradeModel] /\ trade'[r] = t
         /\ \A q \in Role \ {r} : trade'[q] = trade[q]
         /\ requested \subseteq requested' /\ requested' \subseteq Role
         /\ t # trade[r] => r \in requested'
BY DEF SetTrade, TypeOK
\* A failure is counted within its bound
LEMMA FailCounted ==
  ASSUME TypeOK, Fail
  PROVE  used' \in [failures : 0 .. MaxFailures, stops : 0 .. MaxStops]
BY TakeOfferAssumption DEF TypeOK, Fail

\* A task that fails leaves the trade with an error_message and stops the timeout
LEMMA TaskFailed ==
  ASSUME TypeOK, NEW r \in Role, NEW t \in TradeModel, TaskFails(r, t)
  PROVE  /\ SetTrade(r, failed(t)) /\ failed(t) \in TradeModel
         /\ trade' \in [Role -> TradeModel] /\ requested' \subseteq Role
         /\ used' \in [failures : 0 .. MaxFailures, stops : 0 .. MaxStops]
         /\ out' = out /\ timer' \subseteq running
<1>1. SetTrade(r, failed(t)) /\ failed(t) \in TradeModel
  BY NewTrades DEF TaskFails
<1>2. trade' \in [Role -> TradeModel] /\ requested' \subseteq Role
  BY <1>1, SetTradeOf
<1>3. used' \in [failures : 0 .. MaxFailures, stops : 0 .. MaxStops]
  BY FailCounted DEF TaskFails
<1>4. out' = out /\ timer' \subseteq running
  BY DEF TaskFails, stop_timeout, TypeOK
<1> QED BY <1>1, <1>2, <1>3, <1>4

\* A message that is received leaves the inbox
LEMMA MessageReceived ==
  ASSUME TypeOK, NEW r \in Role, NEW m, Receive(r, m)
  PROVE  /\ inbox' \in [Role -> SUBSET Message] /\ inbox'[r] = inbox[r] \ {m}
         /\ \A q \in Role \ {r} : inbox'[q] = inbox[q]
         /\ m \in inbox[r] /\ r \in running
BY DEF Receive, TypeOK

\* A message that is sent
LEMMA MessageSent ==
  ASSUME TypeOK, NEW r \in Role, NEW m \in Message, Send(r, m)
  PROVE  /\ out' \in [Role -> Message \cup {"none"}] /\ out'[r] = m
         /\ \A q \in Role \ {r} : out'[q] = out[q]
BY DEF Send, TypeOK

-----------------------------------------------------------------------------
(* Type correctness                                                        *)

\* The maker and the taker are roles
LEMMA TakerIsRole ==
  ASSUME TypeOK
  PROVE  maker \in Role /\ taker \in Role /\ taker # maker
         /\ (maker = "buyer" <=> taker = "seller") /\ (maker = "seller" <=> taker = "buyer")
BY Peers DEF TypeOK, taker, Role, peer

\* The requests and answers keep the types
LEMMA TypeRequests ==
  ASSUME TypeOK,
         \/ on_take_offer \/ handle_take_offer_request
         \/ handle_inputs_for_deposit_tx_response \/ FeePublished
         \/ handle_deposit_tx_message \/ handle_delayed_payout_tx_signature_request
         \/ \E m \in Message : handle_delayed_payout_tx_signature_response(m)
  PROVE  TypeOK'
<1> USE TakerIsRole
<1>0. \A r \in Role : trade[r] \in TradeModel
  BY DEF TypeOK
<1>1. CASE on_take_offer
  <2>1. trade' \in [Role -> TradeModel] /\ requested' \subseteq Role
    BY <1>1, SetTradeOf, TaskFailed, NewTrades DEF on_take_offer
  <2>2. /\ used' \in [failures : 0 .. MaxFailures, stops : 0 .. MaxStops]
        /\ out' \in [Role -> Message \cup {"none"}] /\ timer' \subseteq running'
    BY <1>1, TaskFailed, NewTrades
       DEF on_take_offer, Send, start_timeout, TypeOK, Message
  <2> QED BY <1>1, <2>1, <2>2 DEF on_take_offer, TypeOK
<1>2. CASE handle_take_offer_request
  <2> DEFINE t == [NewTrade EXCEPT !.state = "MAKER_SENT_PUBLISH_DEPOSIT_TX_REQUEST",
                                   !.prepared = IF maker = "buyer" THEN "signed" ELSE "none"]
  <2>0. t \in TradeModel
    BY NewTrades, Phases DEF TradeModel
  <2>1. trade' \in [Role -> TradeModel] /\ requested' \subseteq Role
    BY <1>2, <2>0, SetTradeOf, TaskFailed, NewTrades DEF handle_take_offer_request
  <2>2. maker \in running'
    BY <1>2, MessageReceived DEF handle_take_offer_request
  <2>3. /\ used' \in [failures : 0 .. MaxFailures, stops : 0 .. MaxStops]
        /\ timer' \subseteq running'
    BY <1>2, <2>2, TaskFailed, NewTrades DEF handle_take_offer_request, start_timeout, TypeOK
  <2>4. out' \in [Role -> Message \cup {"none"}]
    BY <1>2, TaskFailed, NewTrades, MessageSent DEF handle_take_offer_request, TypeOK, Message
  <2>5. listening' \in BOOLEAN
    BY <1>2 DEF handle_take_offer_request, TypeOK
  <2>6. inbox' \in [Role -> SUBSET Message]
    BY <1>2, MessageReceived DEF handle_take_offer_request
  <2> QED BY <1>2, <2>1, <2>3, <2>4, <2>5, <2>6 DEF handle_take_offer_request, TypeOK
<1>3. CASE handle_inputs_for_deposit_tx_response
  <2> DEFINE t == [trade[taker] EXCEPT
                     !.prepared = IF taker = "buyer" THEN "unsigned" ELSE "none"]
  <2>0. t \in TradeModel
    BY <1>0 DEF TradeModel
  <2>1. trade' \in [Role -> TradeModel] /\ requested' \subseteq Role
    BY <1>3, <2>0, SetTradeOf, TaskFailed DEF handle_inputs_for_deposit_tx_response
  <2>2. /\ used' \in [failures : 0 .. MaxFailures, stops : 0 .. MaxStops]
        /\ out' \in [Role -> Message \cup {"none"}] /\ timer' \subseteq running'
        /\ inbox' \in [Role -> SUBSET Message]
        /\ publishing' \in [Role -> {"none", "fee", "deposit"}]
    BY <1>3, <2>0, TaskFailed
       DEF handle_inputs_for_deposit_tx_response, Receive, start_timeout, TypeOK
  <2> QED BY <1>3, <2>1, <2>2 DEF handle_inputs_for_deposit_tx_response, TypeOK
<1>4. CASE FeePublished
  <2> DEFINE t == [trade[taker] EXCEPT !.state = "TAKER_PUBLISHED_TAKER_FEE_TX"]
  <2>0. t \in TradeModel
    BY <1>0, Phases DEF TradeModel
  <2>1. trade' \in [Role -> TradeModel] /\ requested' \subseteq Role
    BY <1>4, <2>0, SetTradeOf, TaskFailed DEF FeePublished
  <2>2. /\ used' \in [failures : 0 .. MaxFailures, stops : 0 .. MaxStops]
        /\ out' \in [Role -> Message \cup {"none"}] /\ timer' \subseteq running'
        /\ publishing' \in [Role -> {"none", "fee", "deposit"}]
        /\ draft' \in {"none", "incomplete", "complete"}
        /\ signed' \in BOOLEAN /\ listening' \in BOOLEAN
    BY <1>4, <2>0, TaskFailed DEF FeePublished, Send, TypeOK, Message
  <2> QED BY <1>4, <2>1, <2>2 DEF FeePublished, TypeOK
<1>5. CASE handle_deposit_tx_message
  <2>1. trade' \in [Role -> TradeModel] /\ requested' \subseteq Role
    BY <1>5, <1>0, SetTradeOf, TaskFailed DEF handle_deposit_tx_message, Role
  <2>2. "seller" \in running'
    BY <1>5, MessageReceived DEF handle_deposit_tx_message, Role
  <2>3. /\ used' \in [failures : 0 .. MaxFailures, stops : 0 .. MaxStops]
        /\ timer' \subseteq running'
        /\ draft' \in {"none", "incomplete", "complete"}
    BY <1>5, <1>0, <2>2, TaskFailed DEF handle_deposit_tx_message, start_timeout, TypeOK, Role
  <2>4. out' \in [Role -> Message \cup {"none"}]
    BY <1>5, <1>0, TaskFailed, MessageSent DEF handle_deposit_tx_message, TypeOK, Message, Role
  <2>5. inbox' \in [Role -> SUBSET Message]
    BY <1>5, MessageReceived DEF handle_deposit_tx_message, Role
  <2> QED BY <1>5, <2>1, <2>3, <2>4, <2>5 DEF handle_deposit_tx_message, TypeOK
<1>6. CASE handle_delayed_payout_tx_signature_request
  <2>0. BuyerFinalizesDelayedPayoutTx(trade.buyer) \in TradeModel
    BY <1>0 DEF BuyerFinalizesDelayedPayoutTx, TradeModel, Role
  <2>1. trade' \in [Role -> TradeModel] /\ requested' \subseteq Role
    BY <1>6, <1>0, <2>0, SetTradeOf, TaskFailed
       DEF handle_delayed_payout_tx_signature_request, Role
  <2>2. "buyer" \in running'
    BY <1>6, MessageReceived DEF handle_delayed_payout_tx_signature_request, Role
  <2>3. /\ used' \in [failures : 0 .. MaxFailures, stops : 0 .. MaxStops]
        /\ timer' \subseteq running'
    BY <1>6, <1>0, <2>2, TaskFailed
       DEF handle_delayed_payout_tx_signature_request, start_timeout, TypeOK, Role
  <2>4. out' \in [Role -> Message \cup {"none"}]
    BY <1>6, <1>0, TaskFailed, MessageSent
       DEF handle_delayed_payout_tx_signature_request, TypeOK, Message, SignatureResponse, Role
  <2>5. inbox' \in [Role -> SUBSET Message]
    BY <1>6, MessageReceived DEF handle_delayed_payout_tx_signature_request, Role
  <2> QED BY <1>6, <2>1, <2>3, <2>4, <2>5 DEF handle_delayed_payout_tx_signature_request, TypeOK
<1>7. ASSUME NEW m \in Message, handle_delayed_payout_tx_signature_response(m)
      PROVE  TypeOK'
  <2>0. [trade.seller EXCEPT !.delayed = TRUE] \in TradeModel
        /\ failed(trade.seller) \in TradeModel
    BY <1>0, NewTrades DEF TradeModel, Role
  <2>1. trade' \in [Role -> TradeModel] /\ requested' \subseteq Role
    BY <1>7, <1>0, <2>0, SetTradeOf, TaskFailed
       DEF handle_delayed_payout_tx_signature_response, Role
  <2>2. /\ used' \in [failures : 0 .. MaxFailures, stops : 0 .. MaxStops]
        /\ out' \in [Role -> Message \cup {"none"}] /\ timer' \subseteq running'
        /\ draft' \in {"none", "incomplete", "complete"}
    BY <1>7, <1>0, TaskFailed, MessageSent, MessageReceived
       DEF handle_delayed_payout_tx_signature_response, stop_timeout, TypeOK, Message, Role
  <2>3. inbox' \in [Role -> SUBSET Message]
    BY <1>7, MessageReceived DEF handle_delayed_payout_tx_signature_response, Role
  <2> QED BY <1>7, <2>1, <2>2, <2>3 DEF handle_delayed_payout_tx_signature_response, TypeOK
<1> QED BY <1>1, <1>2, <1>3, <1>4, <1>5, <1>6, <1>7
\* What the wallet knows is a truth value, and Watch only adds a role that watches
LEMMA Watched ==
  ASSUME TypeOK, NEW r \in Role, NEW confirmed, Watch(r, confirmed)
  PROVE  watching' \subseteq watching \cup {r}
BY DEF Watch

\* What becomes of the message with the deposit tx: it is refused with nothing but an
\* error_message, or the deposit tx is applied
LEMMA DepositMessage ==
  ASSUME TypeOK, handle_deposit_tx_and_delayed_payout_tx_message
  PROVE  /\ \E u \in TradeModel :
              /\ SetTrade("buyer", u)
              /\ u.prepared = trade["buyer"].prepared /\ u.delayed = trade["buyer"].delayed
              /\ \/ /\ u.state = trade["buyer"].state /\ past'.message = "refused"
                    /\ u.deposit_tx = trade["buyer"].deposit_tx /\ watching' = watching
                 \/ /\ u.state \in {trade["buyer"].state, "DEPOSIT_CONFIRMED_IN_BLOCK_CHAIN",
                                     "BUYER_RECEIVED_DEPOSIT_TX_PUBLISHED_MSG"}
                    /\ u.deposit_tx
         /\ out' = out \/ Send("buyer", "ShareBuyerPaymentAccount")
         /\ timer' \subseteq running /\ listening' \in BOOLEAN
         /\ used' \in [failures : 0 .. MaxFailures, stops : 0 .. MaxStops]
         /\ watching' \subseteq watching \cup {"buyer"}
         /\ past'.stopped = past.stopped /\ past'.lost = past.lost
         /\ past.message # "none" => past'.message # "none"
<1> DEFINE Outcome(u) ==
             /\ SetTrade("buyer", u)
             /\ u.prepared = trade["buyer"].prepared /\ u.delayed = trade["buyer"].delayed
             /\ \/ /\ u.state = trade["buyer"].state /\ past'.message = "refused"
                   /\ u.deposit_tx = trade["buyer"].deposit_tx /\ watching' = watching
                \/ /\ u.state \in {trade["buyer"].state, "DEPOSIT_CONFIRMED_IN_BLOCK_CHAIN",
                                    "BUYER_RECEIVED_DEPOSIT_TX_PUBLISHED_MSG"}
                   /\ u.deposit_tx
           Rest == /\ out' = out \/ Send("buyer", "ShareBuyerPaymentAccount")
                   /\ timer' \subseteq running /\ listening' \in BOOLEAN
                   /\ used' \in [failures : 0 .. MaxFailures, stops : 0 .. MaxStops]
<1>0. "buyer" \in Role /\ trade["buyer"] \in TradeModel /\ trade.buyer = trade["buyer"]
      /\ timer \subseteq running /\ listening \in BOOLEAN
      /\ used \in [failures : 0 .. MaxFailures, stops : 0 .. MaxStops]
      /\ past \in [stopped : SUBSET Role, lost : SUBSET Role,
                    message : {"none", "refused", "rejected"}]
  BY DEF TypeOK, Role
<1>1. /\ past'.stopped = past.stopped /\ past'.lost = past.lost
      /\ past.message # "none" => past'.message # "none"
  BY <1>0 DEF handle_deposit_tx_and_delayed_payout_tx_message
<1>2. \/ /\ TaskFails("buyer", trade["buyer"])
         /\ past' = [past EXCEPT !.message = "refused"]
         /\ UNCHANGED <<listening, watching>>
      \/ \E confirmed \in WalletKnows :
           /\ Watch("buyer", confirmed)
           /\ \/ AcceptDepositTx(apply_deposit_tx(trade["buyer"], confirmed))
              \/ RejectDepositTx(apply_deposit_tx(trade["buyer"], confirmed))
  BY <1>0 DEF handle_deposit_tx_and_delayed_payout_tx_message
<1>3. CASE /\ TaskFails("buyer", trade["buyer"])
           /\ past' = [past EXCEPT !.message = "refused"]
           /\ UNCHANGED <<listening, watching>>
  <2> DEFINE u == failed(trade["buyer"])
  <2>1. /\ u \in TradeModel /\ u.state = trade["buyer"].state
        /\ u.prepared = trade["buyer"].prepared /\ u.delayed = trade["buyer"].delayed
        /\ u.deposit_tx = trade["buyer"].deposit_tx
    BY <1>0, NewTrades
  <2>2. SetTrade("buyer", u) /\ Rest
    BY <1>0, <1>3, TaskFailed
  <2>3. past'.message = "refused" /\ watching' = watching
    BY <1>0, <1>3
  <2> HIDE DEF u
  <2>4. Outcome(u)
    BY <2>1, <2>2, <2>3
  <2> QED BY <1>1, <2>1, <2>2, <2>3, <2>4
<1>4. ASSUME NEW confirmed \in WalletKnows, Watch("buyer", confirmed),
             \/ AcceptDepositTx(apply_deposit_tx(trade["buyer"], confirmed))
             \/ RejectDepositTx(apply_deposit_tx(trade["buyer"], confirmed))
      PROVE  /\ \E u \in TradeModel : Outcome(u)
             /\ Rest /\ watching' \subseteq watching \cup {"buyer"}
  <2> DEFINE t == apply_deposit_tx(trade["buyer"], confirmed)
             received == [Received(t) EXCEPT !.payload = TRUE]
  <2>1. confirmed \in BOOLEAN
    BY DEF WalletKnows
  <2>2. /\ t \in TradeModel /\ t.deposit_tx
        /\ t.prepared = trade["buyer"].prepared /\ t.delayed = trade["buyer"].delayed
        /\ t.state \in {trade["buyer"].state, "DEPOSIT_CONFIRMED_IN_BLOCK_CHAIN"}
    BY <1>0, <2>1, DepositTxApplied
  <2>3. /\ received \in TradeModel /\ received.deposit_tx = t.deposit_tx
        /\ received.prepared = t.prepared /\ received.delayed = t.delayed
        /\ received.state \in {t.state, "BUYER_RECEIVED_DEPOSIT_TX_PUBLISHED_MSG"}
    BY <2>2, DepositTxReceived
  <2>4. watching' \subseteq watching \cup {"buyer"}
    BY <1>0, <1>4, Watched
  <2>5. AcceptDepositTx(t) \/ RejectDepositTx(t)
    BY <1>4
  <2>6. ASSUME NEW k \in {t.payload, TRUE}
        PROVE  LET w == [t EXCEPT !.payload = k]
               IN  /\ w \in TradeModel /\ w.deposit_tx = t.deposit_tx /\ w.state = t.state
                   /\ w.prepared = t.prepared /\ w.delayed = t.delayed
    <3> HIDE DEF t
    <3>1. t.payload \in BOOLEAN
      BY <2>2 DEF TradeModel
    <3> QED BY <2>2, <3>1 DEF TradeModel
  <2> HIDE DEF received
  <2>7. CASE AcceptDepositTx(t)
    <3>1. /\ \/ SetTrade("buyer", received) /\ Send("buyer", "ShareBuyerPaymentAccount")
                /\ UNCHANGED <<timer, used>>
             \/ TaskFails("buyer", received)
          /\ listening' = FALSE
      BY <2>7 DEF AcceptDepositTx, received
    <3> HIDE DEF t
    <3>2. CASE SetTrade("buyer", received) /\ Send("buyer", "ShareBuyerPaymentAccount")
               /\ UNCHANGED <<timer, used>>
      <4>1. Outcome(received)
        BY <2>2, <2>3, <3>2
      <4> QED BY <1>0, <2>3, <2>4, <3>1, <3>2, <4>1
    <3>3. CASE TaskFails("buyer", received)
      <4> DEFINE u == failed(received)
      <4>1. /\ u \in TradeModel /\ u.state = received.state /\ u.prepared = received.prepared
            /\ u.delayed = received.delayed /\ u.deposit_tx = received.deposit_tx
        BY <2>3, NewTrades
      <4>2. SetTrade("buyer", u) /\ Rest
        BY <1>0, <2>3, <3>1, <3>3, TaskFailed
      <4> HIDE DEF u
      <4>3. Outcome(u)
        BY <2>2, <2>3, <4>1, <4>2
      <4> QED BY <2>4, <4>1, <4>2, <4>3
    <3> QED BY <3>1, <3>2, <3>3
  <2>8. CASE RejectDepositTx(t)
    <3>1. listening' \in BOOLEAN
      BY <2>8 DEF RejectDepositTx
    <3>2. \/ SetTrade("buyer", failed(t)) /\ stop_timeout("buyer") /\ UNCHANGED <<out, used>>
          \/ \E k \in {t.payload, TRUE} : TaskFails("buyer", [t EXCEPT !.payload = k])
      BY <2>8 DEF RejectDepositTx
    <3> HIDE DEF t
    <3>3. ASSUME NEW w \in TradeModel, w.deposit_tx = t.deposit_tx, w.state = t.state,
                 w.prepared = t.prepared, w.delayed = t.delayed, SetTrade("buyer", failed(w))
          PROVE  \E u \in TradeModel : Outcome(u)
      <4> DEFINE u == failed(w)
      <4>1. /\ u \in TradeModel /\ u.state = w.state /\ u.prepared = w.prepared
            /\ u.delayed = w.delayed /\ u.deposit_tx = w.deposit_tx
        BY NewTrades
      <4>2. SetTrade("buyer", u)
        BY <3>3
      <4> HIDE DEF u
      <4>3. Outcome(u)
        BY <2>2, <3>3, <4>1, <4>2
      <4> QED BY <4>1, <4>3
    <3>4. CASE SetTrade("buyer", failed(t)) /\ stop_timeout("buyer") /\ UNCHANGED <<out, used>>
      <4>1. timer' \subseteq running
        BY <1>0, <3>4 DEF stop_timeout
      <4> QED BY <1>0, <2>2, <2>4, <3>1, <3>3, <3>4, <4>1
    <3>5. ASSUME NEW k \in {t.payload, TRUE}, TaskFails("buyer", [t EXCEPT !.payload = k])
          PROVE  (\E u \in TradeModel : Outcome(u)) /\ Rest
      <4> DEFINE w == [t EXCEPT !.payload = k]
      <4>1. /\ w \in TradeModel /\ w.deposit_tx = t.deposit_tx /\ w.state = t.state
            /\ w.prepared = t.prepared /\ w.delayed = t.delayed
        BY <2>6
      <4>2. TaskFails("buyer", w)
        BY <3>5
      <4> HIDE DEF w
      <4>3. SetTrade("buyer", failed(w)) /\ Rest
        BY <1>0, <3>1, <4>1, <4>2, TaskFailed
      <4> QED BY <3>3, <4>1, <4>3
    <3> QED BY <2>4, <3>2, <3>4, <3>5
  <2> QED BY <2>5, <2>7, <2>8
<1> QED BY <1>1, <1>2, <1>3, <1>4

\* The steps with the deposit tx keep the types
LEMMA TypeDeposit ==
  ASSUME TypeOK,
         \/ DepositPublished \/ handle_deposit_tx_and_delayed_payout_tx_message
         \/ handle_share_buyer_payment_account_message
         \/ SawDepositTx \/ TxReachesNetwork \/ TxIsConfirmed
         \/ \E r \in Role : BroadcastFails(r) \/ set_confirmed_state(r)
  PROVE  TypeOK'
<1>0. \A r \in Role : trade[r] \in TradeModel
  BY DEF TypeOK
<1>b. "buyer" \in Role /\ "seller" \in Role /\ trade.buyer \in TradeModel
      /\ trade.seller \in TradeModel
  BY <1>0 DEF Role
<1>k. WalletKnows \subseteq BOOLEAN
  BY DEF WalletKnows
<1>1. CASE DepositPublished
  <2> DEFINE u == apply_deposit_tx(trade.seller, FALSE)
             t == [u EXCEPT !.state = "SELLER_PUBLISHED_DEPOSIT_TX"]
  <2>1. u \in TradeModel
    BY <1>b, DepositTxApplied
  <2> HIDE DEF u
  <2>2. t \in TradeModel
    BY <2>1, Phases DEF TradeModel
  <2>3. SetTrade("seller", t)
    BY <1>1 DEF DepositPublished, u
  <2> HIDE DEF t
  <2>4. trade' \in [Role -> TradeModel] /\ requested' \subseteq Role
    BY <1>b, <2>2, <2>3, SetTradeOf
  <2>5. watching' \subseteq running'
    <3>1. watching' \subseteq watching \cup {"seller"}
      BY <1>1, <1>b, Watched DEF DepositPublished
    <3> QED BY <1>1, <3>1 DEF DepositPublished, TypeOK
  <2>6. publishing' \in [Role -> {"none", "fee", "deposit"}]
    BY <1>1, <1>b DEF DepositPublished, TypeOK
  <2> QED BY <1>1, <2>4, <2>5, <2>6 DEF DepositPublished, TypeOK
<1>2. CASE handle_deposit_tx_and_delayed_payout_tx_message
  <2>1. trade' \in [Role -> TradeModel] /\ requested' \subseteq Role
    BY <1>2, <1>b, DepositMessage, SetTradeOf
  <2>2. out' \in [Role -> Message \cup {"none"}]
    BY <1>2, <1>b, DepositMessage, MessageSent DEF TypeOK, Message
  <2>3. inbox' \in [Role -> SUBSET Message] /\ "buyer" \in running
    BY <1>2, <1>b, MessageReceived DEF handle_deposit_tx_and_delayed_payout_tx_message
  <2>4. watching' \subseteq running
    BY <1>2, <2>3, DepositMessage DEF TypeOK
  <2>5. past' \in [stopped : SUBSET Role, lost : SUBSET Role,
                   message : {"none", "refused", "rejected"}]
    BY <1>2 DEF handle_deposit_tx_and_delayed_payout_tx_message, TypeOK
  <2>6. /\ used' \in [failures : 0 .. MaxFailures, stops : 0 .. MaxStops]
        /\ timer' \subseteq running /\ listening' \in BOOLEAN
    BY <1>2, DepositMessage
  <2> QED BY <1>2, <2>1, <2>2, <2>3, <2>4, <2>5, <2>6
          DEF handle_deposit_tx_and_delayed_payout_tx_message, TypeOK
<1>3. CASE handle_share_buyer_payment_account_message
  <2>1. [trade.seller EXCEPT !.payload = TRUE] \in TradeModel
    BY <1>b DEF TradeModel
  <2>2. trade' \in [Role -> TradeModel] /\ requested' \subseteq Role
    BY <1>3, <1>b, <2>1, SetTradeOf, TaskFailed DEF handle_share_buyer_payment_account_message
  <2>3. used' \in [failures : 0 .. MaxFailures, stops : 0 .. MaxStops] /\ timer' \subseteq running
        /\ out' = out
    BY <1>3, <1>b, TaskFailed DEF handle_share_buyer_payment_account_message, stop_timeout, TypeOK
  <2>4. inbox' \in [Role -> SUBSET Message]
    BY <1>3, <1>b, MessageReceived DEF handle_share_buyer_payment_account_message
  <2> QED BY <1>3, <2>2, <2>3, <2>4 DEF handle_share_buyer_payment_account_message, TypeOK
<1>4. CASE SawDepositTx
  <2>1. PICK confirmed \in WalletKnows :
          /\ IF trade.buyer.deposit_tx THEN UNCHANGED watching ELSE Watch("buyer", confirmed)
          /\ SetTrade("buyer", apply_confidence(trade.buyer, confirmed))
    BY <1>4 DEF SawDepositTx
  <2>2. apply_confidence(trade.buyer, confirmed) \in TradeModel
    BY <1>b, <1>k, ConfidenceApplied
  <2>3. trade' \in [Role -> TradeModel] /\ requested' \subseteq Role
    BY <1>b, <2>1, <2>2, SetTradeOf
  <2>4. watching' \subseteq running
    BY <1>4, <1>b, <2>1, Watched DEF SawDepositTx, TypeOK
  <2> QED BY <1>4, <2>3, <2>4 DEF SawDepositTx, TypeOK
<1>5. CASE TxReachesNetwork
  BY <1>5 DEF TxReachesNetwork, TypeOK
<1>6. CASE TxIsConfirmed
  BY <1>6 DEF TxIsConfirmed, TypeOK
<1>7. ASSUME NEW r \in Role, BroadcastFails(r)
      PROVE  TypeOK'
  <2>1. /\ trade' \in [Role -> TradeModel] /\ requested' \subseteq Role /\ timer' \subseteq running
        /\ used' \in [failures : 0 .. MaxFailures, stops : 0 .. MaxStops] /\ out' = out
    BY <1>7, <1>0, TaskFailed DEF BroadcastFails
  <2>2. publishing' \in [Role -> {"none", "fee", "deposit"}]
    BY <1>7 DEF BroadcastFails, TypeOK
  <2> QED BY <1>7, <2>1, <2>2 DEF BroadcastFails, TypeOK
<1>8. ASSUME NEW r \in Role, set_confirmed_state(r)
      PROVE  TypeOK'
  <2>1. [trade[r] EXCEPT !.state = "DEPOSIT_CONFIRMED_IN_BLOCK_CHAIN"] \in TradeModel
    BY <1>0, Phases DEF TradeModel
  <2>2. trade' \in [Role -> TradeModel]
    BY <1>8, <2>1 DEF set_confirmed_state, TypeOK
  <2>3. listening' \in BOOLEAN
    BY <1>8 DEF set_confirmed_state, TypeOK
  <2> QED BY <1>8, <2>2, <2>3 DEF set_confirmed_state, TypeOK
<1> QED BY <1>1, <1>2, <1>3, <1>4, <1>5, <1>6, <1>7, <1>8
\* What is started with: init_persisted_trade keeps the type of the trade
LEMMA Restarted ==
  ASSUME TypeOK, NEW r \in Role, Start(r)
  PROVE  \E t \in TradeModel :
           /\ SetTrade(r, t)
           /\ t.prepared = trade[r].prepared /\ t.delayed = trade[r].delayed
           /\ trade[r].deposit_tx => t.deposit_tx
           /\ t.state \in {trade[r].state, "BUYER_SAW_DEPOSIT_TX_IN_NETWORK",
                           "DEPOSIT_CONFIRMED_IN_BLOCK_CHAIN"}
           /\ t.state = trade[r].state \/ t.deposit_tx
           /\ \/ t.deposit_tx = trade[r].deposit_tx
              \/ t.state \in {"BUYER_SAW_DEPOSIT_TX_IN_NETWORK",
                              "DEPOSIT_CONFIRMED_IN_BLOCK_CHAIN"}
           /\ r \in watching' => r \in watching \/ t.deposit_tx
           /\ watching' \subseteq watching \cup {r}
           /\ listening' \in BOOLEAN
<1>0. trade[r] \in TradeModel
  BY DEF TypeOK
<1>1. PICK known \in {k \in BOOLEAN : k => InNetwork}, confirmed \in WalletKnows :
        LET t == IF r = "buyer" THEN BuyerStartup(trade[r], known, confirmed) ELSE trade[r]
            again == apply_deposit_tx(t, confirmed)
        IN  /\ listening' = (listening \/ (r = "buyer" /\ NeedsListener(known) /\ ~ known))
            /\ SetTrade(r, IF t.deposit_tx THEN again ELSE t)
            /\ IF t.deposit_tx THEN Watch(r, confirmed) ELSE UNCHANGED watching
  BY DEF Start
<1>2. confirmed \in BOOLEAN
  BY DEF WalletKnows
<1> DEFINE t == IF r = "buyer" THEN BuyerStartup(trade[r], known, confirmed) ELSE trade[r]
           again == apply_deposit_tx(t, confirmed)
           u == IF t.deposit_tx THEN again ELSE t
<1>3. /\ listening' = (listening \/ (r = "buyer" /\ NeedsListener(known) /\ ~ known))
      /\ SetTrade(r, u)
      /\ IF t.deposit_tx THEN Watch(r, confirmed) ELSE UNCHANGED watching
  BY <1>1
<1>4. /\ t \in TradeModel /\ t.prepared = trade[r].prepared /\ t.delayed = trade[r].delayed
      /\ trade[r].deposit_tx => t.deposit_tx
      /\ t.state \in {trade[r].state, "BUYER_SAW_DEPOSIT_TX_IN_NETWORK"}
      /\ t.state = trade[r].state \/ t.deposit_tx
      /\ t.deposit_tx = trade[r].deposit_tx \/ t.state = "BUYER_SAW_DEPOSIT_TX_IN_NETWORK"
  BY <1>0, <1>2, ConfidenceApplied DEF BuyerStartup
<1> HIDE DEF t
<1>5. /\ again \in TradeModel /\ again.deposit_tx
      /\ again.prepared = t.prepared /\ again.delayed = t.delayed
      /\ again.state \in {t.state, "DEPOSIT_CONFIRMED_IN_BLOCK_CHAIN"}
  BY <1>2, <1>4, DepositTxApplied
<1> HIDE DEF again
<1>6. /\ u \in TradeModel /\ u.prepared = trade[r].prepared /\ u.delayed = trade[r].delayed
      /\ trade[r].deposit_tx => u.deposit_tx
      /\ u.state \in {trade[r].state, "BUYER_SAW_DEPOSIT_TX_IN_NETWORK",
                      "DEPOSIT_CONFIRMED_IN_BLOCK_CHAIN"}
      /\ u.state = trade[r].state \/ u.deposit_tx
      /\ t.deposit_tx => u.deposit_tx
      /\ \/ u.deposit_tx = trade[r].deposit_tx
         \/ u.state \in {"BUYER_SAW_DEPOSIT_TX_IN_NETWORK", "DEPOSIT_CONFIRMED_IN_BLOCK_CHAIN"}
  BY <1>4, <1>5
<1> HIDE DEF u
<1>7. /\ r \in watching' => r \in watching \/ u.deposit_tx
      /\ watching' \subseteq watching \cup {r}
  BY <1>3, <1>6 DEF Watch
<1>8. listening' \in BOOLEAN
  BY <1>3 DEF TypeOK
<1> QED BY <1>3, <1>6, <1>7, <1>8

\* What a stop leaves of the history
LEMMA PastOfStop ==
  ASSUME TypeOK, NEW r \in Role, Exit(r) \/ Crash(r)
  PROVE  /\ past' \in [stopped : SUBSET Role, lost : SUBSET Role,
                       message : {"none", "refused", "rejected"}]
         /\ past'.stopped = past.stopped \cup {r} /\ past.lost \subseteq past'.lost
         /\ past'.message = past.message
         /\ Crash(r) /\ r \in requested => r \in past'.lost
<1>0. past \in [stopped : SUBSET Role, lost : SUBSET Role,
                message : {"none", "refused", "rejected"}]
  BY DEF TypeOK
<1>1. CASE Exit(r)
  <2>1. past' = [past EXCEPT !.stopped = @ \cup {r}]
    BY <1>1 DEF Exit
  <2>2. Crash(r) /\ r \in requested => r \in past'.lost
    <3> SUFFICES ASSUME Crash(r), r \in requested PROVE r \in past'.lost
      OBVIOUS
    <3>1. past' = [past EXCEPT !.stopped = @ \cup {r}, !.lost = @ \cup {r}]
      BY DEF Crash
    <3> QED BY <1>0, <3>1
  <2> QED BY <1>0, <2>1, <2>2
<1>2. CASE Crash(r)
  <2> DEFINE lost == IF r \in requested THEN past.lost \cup {r} ELSE past.lost
  <2>1. past' = [past EXCEPT !.stopped = past.stopped \cup {r}, !.lost = lost]
    BY <1>2 DEF Crash
  <2>2. lost \in SUBSET Role /\ past.lost \subseteq lost /\ (r \in requested => r \in lost)
    BY <1>0
  <2> HIDE DEF lost
  <2> QED BY <1>0, <2>1, <2>2
<1> QED BY <1>1, <1>2

\* Who stops leaves what it held in memory
LEMMA TypeStop ==
  ASSUME TypeOK, NEW r \in Role, Exit(r) \/ Crash(r)
  PROVE  TypeOK'
<1>1. StopRunning(r)
  BY DEF Exit, Crash
<1>2. used' \in [failures : 0 .. MaxFailures, stops : 0 .. MaxStops]
  BY <1>1, TakeOfferAssumption DEF StopRunning, TypeOK
<1>3. /\ running' \subseteq Role /\ requested' \subseteq Role
      /\ timer' \subseteq running' /\ watching' \subseteq running'
  BY <1>1 DEF StopRunning, stop_timeout, TypeOK
<1>4. /\ inbox' \in [Role -> SUBSET Message] /\ out' \in [Role -> Message \cup {"none"}]
      /\ publishing' \in [Role -> {"none", "fee", "deposit"}]
  BY <1>1 DEF StopRunning, TypeOK
<1>5. /\ signed' \in BOOLEAN /\ listening' \in BOOLEAN
      /\ draft' \in {"none", "incomplete", "complete"} /\ maker' = maker /\ deposit' = deposit
  BY <1>1 DEF StopRunning, TypeOK
<1>6. trade' \in [Role -> TradeModel] /\ file' \in [Role -> TradeModel]
  BY DEF Exit, Crash, TypeOK
<1>7. past' \in [stopped : SUBSET Role, lost : SUBSET Role,
                 message : {"none", "refused", "rejected"}]
  BY PastOfStop
<1> QED BY <1>2, <1>3, <1>4, <1>5, <1>6, <1>7 DEF TypeOK

\* A message that arrives goes from the sender to the inbox of the peer
LEMMA MessageArrives ==
  ASSUME TypeOK, NEW r \in Role, on_arrived(r)
  PROVE  /\ out[r] \in Message
         /\ inbox' \in [Role -> SUBSET Message] /\ inbox'[peer(r)] = inbox[peer(r)] \cup {out[r]}
         /\ inbox'[r] = inbox[r]
         /\ out' \in [Role -> Message \cup {"none"}] /\ out'[r] = "none"
         /\ out'[peer(r)] = out[peer(r)]
<1>1. out[r] \in Message /\ peer(r) \in Role /\ peer(r) # r
  BY Peers DEF on_arrived, TypeOK
<1> QED BY <1>1 DEF on_arrived, TypeOK

\* Deliveries, timeouts, the files and the start keep the types
LEMMA TypeDelivery ==
  ASSUME TypeOK, NEW r \in Role,
         \/ on_arrived(r) \/ on_fault(r) \/ on_timeout(r) \/ Persist(r) \/ Start(r)
         \/ \E m \in Message : handle_unexpected(r, m)
  PROVE  TypeOK'
<1>0. trade[r] \in TradeModel
  BY DEF TypeOK
<1>1. CASE on_arrived(r)
  <2> DEFINE t == [trade[r] EXCEPT !.state = "MAKER_SAW_ARRIVED_PUBLISH_DEPOSIT_TX_REQUEST"]
  <2>1. t \in TradeModel
    BY <1>0, Phases DEF TradeModel
  <2>2. trade' \in [Role -> TradeModel] /\ requested' \subseteq Role
    BY <1>0, <1>1, <2>1, SetTradeOf DEF on_arrived
  <2>3. inbox' \in [Role -> SUBSET Message] /\ out' \in [Role -> Message \cup {"none"}]
    BY <1>1, MessageArrives
  <2>4. /\ publishing' \in [Role -> {"none", "fee", "deposit"}]
        /\ deposit' \in {"none", "incomplete", "wallet", "network", "confirmed"}
    BY <1>1 DEF on_arrived, SellerPublishesDepositTx, TypeOK, Role
  <2>5. timer' \subseteq running
    BY <1>1 DEF on_arrived, stop_timeout, TypeOK
  <2> QED BY <1>1, <2>2, <2>3, <2>4, <2>5 DEF on_arrived, TypeOK
<1>2. CASE on_fault(r)
  <2> DEFINE t == IF out[r] = "InputsForDepositTxResponse"
                  THEN [trade[r] EXCEPT !.state = "MAKER_SEND_FAILED_PUBLISH_DEPOSIT_TX_REQUEST"]
                  ELSE trade[r]
  <2>1. t \in TradeModel
    BY <1>0, Phases DEF TradeModel
  <2>2. \/ UNCHANGED <<trade, requested, timer, publishing, deposit>>
        \/ stop_timeout(r) /\ UNCHANGED <<publishing, deposit>> /\ SetTrade(r, failed(t))
    BY <1>2 DEF on_fault, TaskHangs
  <2> HIDE DEF t
  <2>3. failed(t) \in TradeModel
    BY <2>1, NewTrades
  <2>4. trade' \in [Role -> TradeModel] /\ requested' \subseteq Role
    BY <2>2, <2>3, SetTradeOf DEF TypeOK
  <2>5. used' \in [failures : 0 .. MaxFailures, stops : 0 .. MaxStops]
    BY <1>2, FailCounted DEF on_fault, TypeOK
  <2>6. /\ timer' \subseteq running /\ publishing' = publishing /\ deposit' = deposit
        /\ out' \in [Role -> Message \cup {"none"}]
    BY <1>2, <2>2 DEF on_fault, stop_timeout, TypeOK
  <2> QED BY <1>2, <2>4, <2>5, <2>6 DEF on_fault, TypeOK
<1>3. CASE on_timeout(r)
  <2>1. SetTrade(r, failed(trade[r])) /\ failed(trade[r]) \in TradeModel
    BY <1>0, <1>3, NewTrades DEF on_timeout, failed
  <2>2. trade' \in [Role -> TradeModel] /\ requested' \subseteq Role
    BY <2>1, SetTradeOf
  <2> QED BY <1>3, <2>2 DEF on_timeout, stop_timeout, TypeOK
<1>4. CASE Persist(r)
  BY <1>4 DEF Persist, TypeOK
<1>5. CASE Start(r)
  <2>1. /\ trade' \in [Role -> TradeModel] /\ requested' \subseteq Role
        /\ watching' \subseteq watching \cup {r} /\ listening' \in BOOLEAN
    BY <1>5, Restarted, SetTradeOf
  <2> QED BY <1>5, <2>1 DEF Start, TypeOK
<1>6. ASSUME NEW m \in Message, handle_unexpected(r, m)
      PROVE  TypeOK'
  <2>1. inbox' \in [Role -> SUBSET Message]
    BY <1>6, MessageReceived DEF handle_unexpected
  <2> QED BY <1>6, <2>1 DEF handle_unexpected, stop_timeout, TypeOK
<1> QED BY <1>1, <1>2, <1>3, <1>4, <1>5, <1>6

\* Every step keeps the types
LEMMA TypeStep == TypeOK /\ [Next]_vars => TypeOK'
<1> SUFFICES ASSUME TypeOK, [Next]_vars PROVE TypeOK'
  OBVIOUS
<1>1. CASE UNCHANGED vars
  BY <1>1 DEF vars, TypeOK
<1>2. CASE Next
  BY <1>2, TypeRequests, TypeDeposit, TypeStop, TypeDelivery DEF Next
<1> QED BY <1>1, <1>2

\* So do the initial states
LEMMA TypeInit == Init => TypeOK
<1> SUFFICES ASSUME Init PROVE TypeOK
  OBVIOUS
<1>1. trade \in [Role -> TradeModel] /\ file \in [Role -> TradeModel]
  BY NewTrades DEF Init
<1>2. used \in [failures : 0 .. MaxFailures, stops : 0 .. MaxStops]
  BY TakeOfferAssumption DEF Init
<1> QED BY <1>1, <1>2 DEF Init, TypeOK, Role, Message
-----------------------------------------------------------------------------
(* What a step keeps, and what it may add                                  *)

\* What each step keeps: who holds the delayed payout tx, that the buyer has signed, and
\* how far a buyer that was not stopped has got
Calm ==
  /\ maker' = maker /\ past.stopped \subseteq past'.stopped
  /\ past.message # "none" => past'.message # "none"
  /\ \A r \in Role : Empty(trade'[r]) /\ Empty(file'[r]) /\ (Held(r) => Held(r)')
  /\ DelayedIsStored'
  /\ BuyerSigned => BuyerSigned'
  /\ "buyer" \notin past'.stopped =>
       /\ trade["buyer"].deposit_tx => trade'["buyer"].deposit_tx
       /\ Phase(trade["buyer"]) >= 2 => Phase(trade'["buyer"]) >= 2
       /\ Phase(trade'["buyer"]) = 4 \/ "buyer" \in watching' => trade'["buyer"].deposit_tx

\* A message that was not on its way before has what it needs
NewMessages ==
  /\ OnItsWay("buyer", Signed)'
       => OnItsWay("buyer", Signed) \/ (Held("buyer")' /\ Phase(trade'["buyer"]) >= 2)
  /\ OnItsWay("buyer", Unsigned)' => OnItsWay("buyer", Unsigned) \/ "buyer" \in past'.stopped
  /\ OnItsWay("buyer", "DepositTx")' => OnItsWay("buyer", "DepositTx") \/ BuyerSigned'
  /\ maker = "buyer" /\ OnItsWay("buyer", "InputsForDepositTxResponse")'
       => OnItsWay("buyer", "InputsForDepositTxResponse") \/ BuyerSigned'
  /\ OnItsWay("seller", "DelayedPayoutTxSignatureRequest")'
       => OnItsWay("seller", "DelayedPayoutTxSignatureRequest") \/ BuyerSigned'
  /\ OnItsWay("seller", "DepositTxAndDelayedPayoutTx")'
       => \/ OnItsWay("seller", "DepositTxAndDelayedPayoutTx")
          \/ "buyer" \in past'.stopped \/ Phase(trade'["buyer"]) >= 2
  /\ out'["buyer"] = "DepositTxAndDelayedPayoutTx" => out["buyer"] = "DepositTxAndDelayedPayoutTx"
  /\ "DepositTxAndDelayedPayoutTx" \in inbox["buyer"]
       => \/ "DepositTxAndDelayedPayoutTx" \in inbox'["buyer"]
          \/ Got' \/ "buyer" \in past'.stopped

\* So has a deposit tx that was not there before, or not so far
NewDeposit ==
  /\ maker = "buyer" /\ publishing'["seller"] = "fee"
       => publishing["seller"] = "fee" \/ BuyerSigned'
  /\ draft' = "complete" => draft = "complete" \/ Held("buyer")'
  /\ out'["seller"] = "DepositTxAndDelayedPayoutTx"
       => \/ out["seller"] = "DepositTxAndDelayedPayoutTx" /\ draft' = draft
          \/ Held("seller")' /\ (draft' = "complete" \/ "buyer" \in past'.stopped)
  /\ deposit' \in {"wallet", "network", "confirmed"}
       => \/ deposit \in {"wallet", "network", "confirmed"}
          \/ Held("buyer")' /\ Held("seller")'
  /\ deposit' = "incomplete" => deposit = "incomplete" \/ "buyer" \in past'.stopped
  /\ deposit' # "none"
       => deposit # "none" \/ "DepositTxAndDelayedPayoutTx" \in inbox'["buyer"]

\* A step that keeps what Calm says, and adds only what has what it needs, keeps the invariant
LEMMA Carried ==
  ASSUME TypeOK, TypeOK', TakeInv, Calm, NewMessages, NewDeposit
  PROVE  TakeInv'
<1>0. "buyer" \in Role /\ "seller" \in Role /\ Role = {"buyer", "seller"}
  BY DEF Role
<1>1. NothingBefore' /\ DelayedIsStored'
  BY DEF Calm, NothingBefore
<1>2. HeldBeforeDeposit'
  <2>1. OnItsWay("buyer", Signed)' \/ draft' = "complete" => Held("buyer")'
    BY <1>0 DEF NewMessages, NewDeposit, Calm, TakeInv, HeldBeforeDeposit
  <2>2. out'["seller"] = "DepositTxAndDelayedPayoutTx" => Held("seller")'
    BY <1>0 DEF NewDeposit, Calm, TakeInv, HeldBeforeDeposit
  <2>3. out'["buyer"] # "DepositTxAndDelayedPayoutTx"
    BY DEF NewMessages, TakeInv, HeldBeforeDeposit
  <2>4. deposit' \in {"wallet", "network", "confirmed"} => \A r \in Role : Held(r)'
    BY <1>0 DEF NewDeposit, Calm, TakeInv, HeldBeforeDeposit
  <2> QED BY <2>1, <2>2, <2>3, <2>4 DEF HeldBeforeDeposit
<1>3. SignedBeforeRequest'
  <2>1. OnItsWay("buyer", "DepositTx")' => BuyerSigned'
    BY DEF NewMessages, Calm, TakeInv, SignedBeforeRequest
  <2>2. maker' = "buyer" /\ OnItsWay("buyer", "InputsForDepositTxResponse")' => BuyerSigned'
    BY DEF NewMessages, Calm, TakeInv, SignedBeforeRequest
  <2>3. maker' = "buyer" /\ publishing'["seller"] = "fee" => BuyerSigned'
    BY DEF NewDeposit, Calm, TakeInv, SignedBeforeRequest
  <2>4. OnItsWay("seller", "DelayedPayoutTxSignatureRequest")' => BuyerSigned'
    BY DEF NewMessages, Calm, TakeInv, SignedBeforeRequest
  <2>5. OnItsWay("buyer", Unsigned)' => "buyer" \in past'.stopped
    BY DEF NewMessages, Calm, TakeInv, SignedBeforeRequest
  <2>6. out'["seller"] = "DepositTxAndDelayedPayoutTx" /\ draft' # "complete"
          => "buyer" \in past'.stopped
    BY DEF NewDeposit, Calm, TakeInv, SignedBeforeRequest
  <2>7. deposit' = "incomplete" => "buyer" \in past'.stopped
    BY DEF NewDeposit, Calm, TakeInv, SignedBeforeRequest
  <2> QED BY <2>1, <2>2, <2>3, <2>4, <2>5, <2>6, <2>7 DEF SignedBeforeRequest
<1>4. BuyerExpects'
  <2> SUFFICES ASSUME "buyer" \notin past'.stopped
               PROVE  /\ \/ OnItsWay("buyer", Signed)' \/ OnItsWay("buyer", Unsigned)'
                         \/ OnItsWay("seller", "DepositTxAndDelayedPayoutTx")'
                         => Phase(trade'["buyer"]) >= 2
                      /\ Phase(trade'["buyer"]) = 4 \/ "buyer" \in watching'
                         => trade'["buyer"].deposit_tx
                      /\ deposit' # "none" =>
                           "DepositTxAndDelayedPayoutTx" \in inbox'["buyer"] \/ Got'
    BY DEF BuyerExpects, Phase, TAKER_FEE_PUBLISHED, DEPOSIT_CONFIRMED
  <2>1. "buyer" \notin past.stopped
    BY DEF Calm
  <2>2. /\ \/ OnItsWay("buyer", Signed) \/ OnItsWay("buyer", Unsigned)
           \/ OnItsWay("seller", "DepositTxAndDelayedPayoutTx")
           => Phase(trade["buyer"]) >= 2
        /\ deposit # "none" =>
             "DepositTxAndDelayedPayoutTx" \in inbox["buyer"] \/ Got
    BY <2>1 DEF TakeInv, BuyerExpects, TAKER_FEE_PUBLISHED
  <2>3. \/ OnItsWay("buyer", Signed)' \/ OnItsWay("buyer", Unsigned)'
        \/ OnItsWay("seller", "DepositTxAndDelayedPayoutTx")'
        => Phase(trade'["buyer"]) >= 2
    BY <2>2 DEF NewMessages, Calm
  <2>4. Phase(trade'["buyer"]) = 4 \/ "buyer" \in watching' => trade'["buyer"].deposit_tx
    BY DEF Calm
  <2>5. deposit' # "none" =>
          "DepositTxAndDelayedPayoutTx" \in inbox'["buyer"] \/ Got'
    <3>1. Got => Got'
      BY DEF Calm, Got
    <3> QED BY <2>2, <3>1 DEF NewMessages, NewDeposit
  <2> QED BY <2>3, <2>4, <2>5
<1> QED BY <1>1, <1>2, <1>3, <1>4 DEF TakeInv

\* The trade of r becomes t and nobody stops: what t has to keep for the step to be calm
LEMMA TradeAndPastChange ==
  ASSUME TypeOK, TypeOK', TakeInv, NEW r \in Role, NEW t \in TradeModel,
         UNCHANGED <<maker, file>>, past'.stopped = past.stopped, past'.lost = past.lost,
         past.message # "none" => past'.message # "none", trade'[r] = t,
         \A q \in Role \ {r} : trade'[q] = trade[q],
         requested \subseteq requested',
         trade[r].delayed => t.delayed, t.delayed => trade[r].delayed \/ r \in requested',
         Empty(t),
         r = "buyer" =>
           /\ trade["buyer"].deposit_tx => t.deposit_tx
           /\ Phase(trade["buyer"]) >= 2 => Phase(t) >= 2
           /\ maker = "buyer" /\ trade["buyer"].prepared = "signed" => t.prepared = "signed"
           /\ Phase(t) = 4 => t.deposit_tx \/ Phase(trade["buyer"]) = 4,
         maker = "seller" /\ signed => signed',
         "buyer" \in watching' => "buyer" \in watching \/ trade'["buyer"].deposit_tx
  PROVE  Calm
<1>0. "buyer" \in Role /\ trade'["buyer"] \in TradeModel /\ trade["buyer"] \in TradeModel
  BY DEF TypeOK, Role
<1>1. ASSUME NEW q \in Role
      PROVE  Empty(trade'[q]) /\ Empty(file'[q]) /\ (Held(q) => Held(q)')
  <2>1. Empty(trade[q]) /\ Empty(file[q])
    BY DEF TakeInv, NothingBefore
  <2>2. q # r => trade'[q] = trade[q]
    OBVIOUS
  <2>3. Empty(trade'[q]) /\ Empty(file'[q])
    BY <2>1, <2>2 DEF Empty
  <2>4. trade[q].delayed => trade'[q].delayed
    BY <2>2
  <2> QED BY <2>3, <2>4 DEF Held
<1>d. DelayedIsStored'
  BY DEF TakeInv, DelayedIsStored
<1>2. r # "buyer" => trade'["buyer"] = trade["buyer"]
  BY <1>0
<1>3. BuyerSigned => BuyerSigned'
  BY <1>0, <1>2 DEF BuyerSigned
<1>4. ASSUME "buyer" \notin past'.stopped
      PROVE  /\ trade["buyer"].deposit_tx => trade'["buyer"].deposit_tx
             /\ Phase(trade["buyer"]) >= 2 => Phase(trade'["buyer"]) >= 2
             /\ Phase(trade'["buyer"]) = 4 \/ "buyer" \in watching' => trade'["buyer"].deposit_tx
  <2>1. Phase(trade["buyer"]) = 4 \/ "buyer" \in watching => trade["buyer"].deposit_tx
    BY <1>4 DEF TakeInv, BuyerExpects, DEPOSIT_CONFIRMED
  <2>2. trade["buyer"].deposit_tx => trade'["buyer"].deposit_tx
    BY <1>2
  <2>3. Phase(trade["buyer"]) >= 2 => Phase(trade'["buyer"]) >= 2
    BY <1>2
  <2>4. Phase(trade'["buyer"]) = 4 => trade'["buyer"].deposit_tx
    BY <1>2, <2>1, <2>2
  <2> QED BY <2>1, <2>2, <2>3, <2>4
<1> QED BY <1>1, <1>d, <1>3, <1>4 DEF Calm

\* The same where the message with the deposit tx is not handled
LEMMA TradeChanges ==
  ASSUME TypeOK, TypeOK', TakeInv, NEW r \in Role, NEW t \in TradeModel,
         UNCHANGED <<maker, file, past>>, trade'[r] = t,
         \A q \in Role \ {r} : trade'[q] = trade[q],
         requested \subseteq requested',
         trade[r].delayed => t.delayed, t.delayed => trade[r].delayed \/ r \in requested',
         Empty(t),
         r = "buyer" =>
           /\ trade["buyer"].deposit_tx => t.deposit_tx
           /\ Phase(trade["buyer"]) >= 2 => Phase(t) >= 2
           /\ maker = "buyer" /\ trade["buyer"].prepared = "signed" => t.prepared = "signed"
           /\ Phase(t) = 4 => t.deposit_tx \/ Phase(trade["buyer"]) = 4,
         maker = "seller" /\ signed => signed',
         "buyer" \in watching' => "buyer" \in watching \/ trade'["buyer"].deposit_tx
  PROVE  Calm
BY TradeAndPastChange

\* The messages the invariant speaks of
Tracked == {Signed, Unsigned, "DepositTx", "InputsForDepositTxResponse",
            "DelayedPayoutTxSignatureRequest", "DepositTxAndDelayedPayoutTx"}

\* Who sends x, while nothing arrives, puts only x on its way
LEMMA OnlyOneSent ==
  ASSUME TypeOK, NEW r \in Role, NEW x,
         \A q \in Role : inbox'[q] \subseteq inbox[q],
         \A q \in Role \ {r} : out'[q] = out[q], out'[r] \in {out[r], x}
  PROVE  \A q \in Role, n \in Message :
           OnItsWay(q, n)' => OnItsWay(q, n) \/ (q = r /\ n = x)
BY Peers DEF OnItsWay

\* A step that sends no message the invariant speaks of, and loses the deposit tx for the
\* buyer only when the buyer has it
LEMMA QuietMessages ==
  ASSUME TypeOK, NEW r \in Role, NEW x, x \notin Tracked,
         \A q \in Role : inbox'[q] \subseteq inbox[q],
         \A q \in Role \ {r} : out'[q] = out[q], out'[r] \in {out[r], x},
         "DepositTxAndDelayedPayoutTx" \in inbox["buyer"]
           => \/ "DepositTxAndDelayedPayoutTx" \in inbox'["buyer"]
              \/ Got' \/ "buyer" \in past'.stopped
  PROVE  NewMessages
<1>1. \A q \in Role, n \in Message : OnItsWay(q, n)' => OnItsWay(q, n) \/ (q = r /\ n = x)
  BY OnlyOneSent
<1>2. Tracked \subseteq Message /\ "buyer" \in Role /\ "seller" \in Role
  BY DEF Tracked, Message, Signed, Unsigned, Role
<1>3. \A q \in Role, n \in Tracked : OnItsWay(q, n)' => OnItsWay(q, n)
  BY <1>1, <1>2
<1>4. out'["buyer"] = "DepositTxAndDelayedPayoutTx" => out["buyer"] = "DepositTxAndDelayedPayoutTx"
  BY <1>2 DEF Tracked
<1> QED BY <1>2, <1>3, <1>4 DEF NewMessages, Tracked

\* A step that leaves the deposit tx where it is
LEMMA QuietDeposit ==
  ASSUME publishing'["seller"] = "fee" => publishing["seller"] = "fee",
         out'["seller"] = "DepositTxAndDelayedPayoutTx"
           => out["seller"] = "DepositTxAndDelayedPayoutTx" /\ draft' = draft,
         draft' = "complete" => draft = "complete",
         deposit' = deposit
  PROVE  NewDeposit
BY DEF NewDeposit
\* A step that changes neither the state of a trade nor what was made for it
LEMMA CalmSame ==
  ASSUME TypeOK, TypeOK', TakeInv, NEW r \in Role, NEW t \in TradeModel, SetTrade(r, t),
         UNCHANGED <<maker, file, past>>,
         t.state = trade[r].state, t.prepared = trade[r].prepared,
         t.delayed = trade[r].delayed, t.deposit_tx = trade[r].deposit_tx,
         signed' = signed, "buyer" \in watching' => "buyer" \in watching
  PROVE  Calm
<1>1. /\ trade'[r] = t /\ \A q \in Role \ {r} : trade'[q] = trade[q]
      /\ requested \subseteq requested'
  BY SetTradeOf
<1>2. Empty(t)
  BY DEF Empty, TakeInv, NothingBefore
<1>3. Phase(t) = Phase(trade[r])
  BY DEF Phase
<1> QED BY <1>1, <1>2, <1>3, TradeChanges

\* The same where nothing of the trade changes
LEMMA CalmUnchanged ==
  ASSUME TypeOK, TypeOK', TakeInv, UNCHANGED <<maker, file, past, trade>>,
         requested \subseteq requested', signed' = signed,
         "buyer" \in watching' => "buyer" \in watching
  PROVE  Calm
<1>1. "buyer" \in Role /\ trade["buyer"] \in TradeModel /\ trade'["buyer"] = trade["buyer"]
  BY DEF TypeOK, Role
<1>2. Empty(trade["buyer"]) /\ \A q \in Role : trade'[q] = trade[q]
  BY <1>1 DEF TakeInv, NothingBefore
<1> QED BY <1>1, <1>2, TradeChanges

\* The taker's request
LEMMA TakeOfferStep ==
  ASSUME TypeOK, TypeOK', TakeInv, on_take_offer
  PROVE  TakeInv'
<1>1. taker \in Role /\ trade[taker] \in TradeModel
  BY TakerIsRole DEF TypeOK
<1>2. PICK t \in TradeModel : SetTrade(taker, t) /\ t.state = "PREPARATION" /\ ~ t.delayed
  BY NewTrades DEF on_take_offer, TaskFails
<1>3. Calm
  <2>1. /\ trade'[taker] = t /\ \A q \in Role \ {taker} : trade'[q] = trade[q]
        /\ requested \subseteq requested'
    BY <1>1, <1>2, SetTradeOf
  <2>2. ~ trade[taker].delayed /\ trade[taker].prepared = "none" /\ ~ trade[taker].deposit_tx
    BY <1>1 DEF on_take_offer, TakeInv, NothingBefore, Empty
  <2>3. Phase(trade[taker]) = 0 /\ Phase(t) = 1 /\ Empty(t)
    BY <1>2, Phases DEF on_take_offer, Phase, Empty
  <2>4. UNCHANGED <<maker, file, past>> /\ signed' = signed /\ watching' = watching
    BY DEF on_take_offer
  <2> QED BY <1>1, <1>2, <2>1, <2>2, <2>3, <2>4, TradeChanges
<1>4. /\ \A q \in Role \ {taker} : out'[q] = out[q]
      /\ out'[taker] \in {out[taker], "InputsForDepositTxRequest"}
  BY <1>1 DEF on_take_offer, Send, TaskFails, TypeOK
<1>5. inbox' = inbox /\ draft' = draft /\ deposit' = deposit /\ publishing' = publishing
  BY DEF on_take_offer
<1>6. "InputsForDepositTxRequest" \notin Tracked
  BY DEF Tracked, Signed, Unsigned
<1>7. NewMessages
  BY <1>1, <1>4, <1>5, <1>6, QuietMessages
<1>8. NewDeposit
  BY <1>1, <1>4, <1>5, QuietDeposit DEF Role
<1> QED BY <1>3, <1>7, <1>8, Carried

\* The maker's answer to it, which a buyer sends after it has signed
LEMMA TakeOfferRequestStep ==
  ASSUME TypeOK, TypeOK', TakeInv, handle_take_offer_request
  PROVE  TakeInv'
<1> DEFINE t == [NewTrade EXCEPT !.state = "MAKER_SENT_PUBLISH_DEPOSIT_TX_REQUEST",
                                 !.prepared = IF maker = "buyer" THEN "signed" ELSE "none"]
<1>0. maker \in Role /\ trade[maker] \in TradeModel
  BY DEF TypeOK
<1>1. /\ t \in TradeModel /\ t.state = "MAKER_SENT_PUBLISH_DEPOSIT_TX_REQUEST" /\ ~ t.delayed
      /\ maker = "buyer" => t.prepared = "signed"
  BY NewTrades, Phases DEF TradeModel
<1>2. \/ SetTrade(maker, t) /\ Send(maker, "InputsForDepositTxResponse")
      \/ SetTrade(maker, failed(NewTrade)) /\ out' = out
  BY DEF handle_take_offer_request, TaskFails
<1> HIDE DEF t
<1>3. PICK u \in TradeModel :
        /\ SetTrade(maker, u)
        /\ u.state \in {"MAKER_SENT_PUBLISH_DEPOSIT_TX_REQUEST", "PREPARATION"}
        /\ ~ u.delayed
        /\ out' = out \/ (u = t /\ Send(maker, "InputsForDepositTxResponse"))
  BY <1>1, <1>2, NewTrades
<1>4. /\ trade'[maker] = u /\ \A q \in Role \ {maker} : trade'[q] = trade[q]
      /\ requested \subseteq requested'
  BY <1>0, <1>3, SetTradeOf
<1>5. UNCHANGED <<maker, file, past>> /\ signed' = signed /\ watching' = watching
      /\ draft' = draft /\ deposit' = deposit /\ publishing' = publishing
  BY DEF handle_take_offer_request
<1>6. Calm
  <2>1. Phase(trade[maker]) = 0
    BY DEF handle_take_offer_request, Expected, ExpectedPhases, NO_TRADE
  <2>2. trade[maker].state = "NONE"
    BY <1>0, <2>1, PhaseOfTrade
  <2>3. ~ trade[maker].delayed /\ trade[maker].prepared = "none" /\ ~ trade[maker].deposit_tx
    BY <1>0, <2>2 DEF TakeInv, NothingBefore, Empty
  <2>4. Phase(u) # 4 /\ Empty(u)
    BY <1>3, Phases DEF Phase, Empty
  <2> QED BY <1>0, <1>3, <1>4, <1>5, <2>1, <2>3, <2>4, TradeChanges
<1>7. /\ \A q \in Role : inbox'[q] \subseteq inbox[q]
      /\ "DepositTxAndDelayedPayoutTx" \in inbox["buyer"]
           => "DepositTxAndDelayedPayoutTx" \in inbox'["buyer"]
  <2>1. Receive(maker, "InputsForDepositTxRequest")
    BY DEF handle_take_offer_request
  <2> QED BY <1>0, <2>1, MessageReceived DEF Role
<1>8. CASE out' = out
  <2>1. "none" \notin Tracked
    BY DEF Tracked, Signed, Unsigned
  <2>2. NewMessages
    BY <1>0, <1>7, <1>8, <2>1, QuietMessages
  <2>3. NewDeposit
    BY <1>5, <1>8, QuietDeposit
  <2> QED BY <1>6, <2>2, <2>3, Carried
<1>9. CASE u = t /\ Send(maker, "InputsForDepositTxResponse")
  <2>1. /\ \A q \in Role \ {maker} : out'[q] = out[q]
        /\ out'[maker] = "InputsForDepositTxResponse"
    BY <1>0, <1>9, MessageSent DEF Message
  <2>2. \A q \in Role, n \in Message :
          OnItsWay(q, n)' => \/ OnItsWay(q, n)
                             \/ q = maker /\ n = "InputsForDepositTxResponse"
    BY <1>0, <1>7, <2>1, OnlyOneSent
  <2>3. maker = "buyer" => BuyerSigned'
    BY <1>1, <1>4, <1>5, <1>9 DEF BuyerSigned
  <2>4. Tracked \subseteq Message /\ "buyer" \in Role /\ "seller" \in Role
    BY DEF Tracked, Message, Signed, Unsigned, Role
  <2>5. NewMessages
    BY <1>7, <2>1, <2>2, <2>3, <2>4 DEF NewMessages, Tracked, Signed, Unsigned
  <2>6. NewDeposit
    BY <1>5, <2>1, <2>4, QuietDeposit
  <2> QED BY <1>6, <2>5, <2>6, Carried
<1> QED BY <1>3, <1>8, <1>9
\* The taker's next step, which broadcasts the fee: a seller got the answer of a buyer who
\* has signed
LEMMA InputsResponseStep ==
  ASSUME TypeOK, TypeOK', TakeInv, handle_inputs_for_deposit_tx_response
  PROVE  TakeInv'
<1> DEFINE t == [trade[taker] EXCEPT
                   !.prepared = IF taker = "buyer" THEN "unsigned" ELSE "none"]
<1>0. /\ taker \in Role /\ trade[taker] \in TradeModel /\ "buyer" \in Role /\ "seller" \in Role
      /\ taker = "buyer" => maker = "seller"
  BY TakerIsRole DEF TypeOK, Role
<1>1. /\ t \in TradeModel /\ t.state = trade[taker].state /\ t.delayed = trade[taker].delayed
      /\ t.deposit_tx = trade[taker].deposit_tx
  BY <1>0 DEF TradeModel
<1>2. /\ SetTrade(taker, t) \/ SetTrade(taker, failed(t))
      /\ out' = out
      /\ publishing' = publishing \/ publishing' = [publishing EXCEPT ![taker] = "fee"]
  BY DEF handle_inputs_for_deposit_tx_response, TaskFails
<1> HIDE DEF t
<1>3. PICK u \in TradeModel :
        /\ SetTrade(taker, u) /\ u.state = trade[taker].state /\ u.delayed = trade[taker].delayed
        /\ u.deposit_tx = trade[taker].deposit_tx
  BY <1>1, <1>2, NewTrades
<1>4. /\ trade'[taker] = u /\ \A q \in Role \ {taker} : trade'[q] = trade[q]
      /\ requested \subseteq requested'
  BY <1>0, <1>3, SetTradeOf
<1>5. UNCHANGED <<maker, file, past>> /\ signed' = signed /\ watching' = watching
      /\ draft' = draft /\ deposit' = deposit
  BY DEF handle_inputs_for_deposit_tx_response
<1>6. Phase(trade[taker]) = 1 /\ Phase(u) = 1
  BY <1>3 DEF handle_inputs_for_deposit_tx_response, Expected, ExpectedPhases, INIT, Phase
<1>7. Calm
  <2>1. Empty(u)
    BY <1>3, <1>6, Phases DEF Empty, Phase
  <2> QED BY <1>0, <1>3, <1>4, <1>5, <1>6, <2>1, TradeChanges
<1>8. Receive(taker, "InputsForDepositTxResponse")
  BY DEF handle_inputs_for_deposit_tx_response
<1>9. /\ \A q \in Role : inbox'[q] \subseteq inbox[q]
      /\ "DepositTxAndDelayedPayoutTx" \in inbox["buyer"]
           => "DepositTxAndDelayedPayoutTx" \in inbox'["buyer"]
      /\ "InputsForDepositTxResponse" \in inbox[taker]
  BY <1>0, <1>8, MessageReceived
<1>10. NewMessages
  <2>1. "none" \notin Tracked
    BY DEF Tracked, Signed, Unsigned
  <2> QED BY <1>0, <1>2, <1>9, <2>1, QuietMessages
<1>11. maker = "buyer" => BuyerSigned'
  <2> SUFFICES ASSUME maker = "buyer" PROVE BuyerSigned'
    OBVIOUS
  <2>1. taker = "seller"
    BY TakerIsRole
  <2>2. OnItsWay("buyer", "InputsForDepositTxResponse")
    BY <1>9, <2>1, Peers DEF OnItsWay
  <2> QED BY <1>7, <2>2 DEF TakeInv, SignedBeforeRequest, Calm
<1>12. NewDeposit
  BY <1>2, <1>5, <1>11 DEF NewDeposit
<1> QED BY <1>7, <1>10, <1>12, Carried

\* The fee is published: a buyer signs the deposit tx and sends it, a seller asks for the
\* signature of a buyer who has signed
LEMMA FeePublishedStep ==
  ASSUME TypeOK, TypeOK', TakeInv, FeePublished
  PROVE  TakeInv'
<1> DEFINE t == [trade[taker] EXCEPT !.state = "TAKER_PUBLISHED_TAKER_FEE_TX"]
           x == IF taker = "buyer" THEN "DepositTx" ELSE "DelayedPayoutTxSignatureRequest"
<1>0. /\ taker \in Role /\ trade[taker] \in TradeModel /\ "buyer" \in Role /\ "seller" \in Role
      /\ (taker = "buyer" <=> maker = "seller") /\ (taker = "seller" <=> maker = "buyer")
      /\ taker = "buyer" \/ taker = "seller"
  BY TakerIsRole DEF TypeOK, Role
<1>1. /\ t \in TradeModel /\ t.state = "TAKER_PUBLISHED_TAKER_FEE_TX"
      /\ t.delayed = trade[taker].delayed /\ t.deposit_tx = trade[taker].deposit_tx
      /\ t.prepared = trade[taker].prepared
  BY <1>0, Phases DEF TradeModel
<1>2. \/ /\ SetTrade(taker, t) /\ Send(taker, x) /\ signed' = (taker = "buyer")
         /\ draft' = IF taker = "seller" THEN "incomplete" ELSE draft
      \/ SetTrade(taker, failed(t)) /\ out' = out /\ signed' = signed /\ draft' = draft
  BY DEF FeePublished, TaskFails
<1> HIDE DEF t
<1>3. PICK u \in TradeModel :
        /\ SetTrade(taker, u) /\ u.state = "TAKER_PUBLISHED_TAKER_FEE_TX"
        /\ u.delayed = trade[taker].delayed /\ u.deposit_tx = trade[taker].deposit_tx
        /\ u.prepared = trade[taker].prepared
  BY <1>1, <1>2, NewTrades
<1>4. /\ trade'[taker] = u /\ \A q \in Role \ {taker} : trade'[q] = trade[q]
      /\ requested \subseteq requested'
  BY <1>0, <1>3, SetTradeOf
<1>5. /\ UNCHANGED <<maker, file, past>> /\ watching' = watching /\ inbox' = inbox
      /\ deposit' = deposit /\ publishing' = [publishing EXCEPT ![taker] = "none"]
      /\ publishing[taker] = "fee"
  BY DEF FeePublished
<1>6. Phase(u) = 2 /\ Empty(u)
  BY <1>3, Phases DEF Empty, Phase
<1>7. maker = "seller" /\ signed => signed'
  BY <1>0, <1>2
<1>8. Calm
  BY <1>0, <1>3, <1>4, <1>5, <1>6, <1>7, TradeChanges
<1>9. publishing'["seller"] = "fee" => publishing["seller"] = "fee"
  BY <1>0, <1>5 DEF TypeOK
<1>10. CASE out' = out /\ draft' = draft
  <2>1. "none" \notin Tracked
    BY DEF Tracked, Signed, Unsigned
  <2>2. NewMessages
    BY <1>0, <1>5, <1>10, <2>1, QuietMessages
  <2>3. NewDeposit
    BY <1>5, <1>9, <1>10, QuietDeposit
  <2> QED BY <1>8, <2>2, <2>3, Carried
<1>11. CASE /\ Send(taker, x) /\ signed' = (taker = "buyer")
            /\ draft' = IF taker = "seller" THEN "incomplete" ELSE draft
  <2>1. x \in Message
    BY DEF Message
  <2>2. (\A q \in Role \ {taker} : out'[q] = out[q]) /\ out'[taker] = x
    BY <1>0, <1>11, <2>1, MessageSent
  <2>3. \A q \in Role, n \in Message : OnItsWay(q, n)' => OnItsWay(q, n) \/ (q = taker /\ n = x)
    BY <1>0, <1>5, <2>2, OnlyOneSent
  <2>4. BuyerSigned'
    <3>1. CASE taker = "buyer"
      BY <1>0, <1>5, <1>11, <3>1 DEF BuyerSigned
    <3>2. CASE taker = "seller"
      <4>1. BuyerSigned
        BY <1>0, <1>5, <3>2 DEF TakeInv, SignedBeforeRequest
      <4> QED BY <4>1, <1>8 DEF Calm
    <3> QED BY <1>0, <3>1, <3>2
  <2>5. Tracked \subseteq Message
    BY DEF Tracked, Message, Signed, Unsigned
  <2>6. NewMessages
    BY <1>0, <1>5, <2>2, <2>3, <2>4, <2>5 DEF NewMessages, Tracked, Signed, Unsigned
  <2>7. NewDeposit
    BY <1>0, <1>5, <1>9, <1>11, <2>2 DEF NewDeposit
  <2> QED BY <1>8, <2>6, <2>7, Carried
<1> QED BY <1>2, <1>10, <1>11

\* A seller who is the maker got the deposit tx of a buyer who has signed it
LEMMA DepositTxStep ==
  ASSUME TypeOK, TypeOK', TakeInv, handle_deposit_tx_message
  PROVE  TakeInv'
<1>0. "buyer" \in Role /\ "seller" \in Role /\ trade["seller"] \in TradeModel
      /\ trade.seller = trade["seller"]
  BY DEF TypeOK, Role
<1>1. \/ SetTrade("seller", trade["seller"])
         /\ Send("seller", "DelayedPayoutTxSignatureRequest") /\ draft' = "incomplete"
      \/ SetTrade("seller", failed(trade["seller"])) /\ out' = out /\ draft' = draft
  BY <1>0 DEF handle_deposit_tx_message, TaskFails
<1>2. UNCHANGED <<maker, file, past, signed, watching, deposit, publishing>>
  BY DEF handle_deposit_tx_message
<1>3. Calm
  <2>1. PICK u \in TradeModel :
          /\ SetTrade("seller", u) /\ u.state = trade["seller"].state
          /\ u.prepared = trade["seller"].prepared /\ u.delayed = trade["seller"].delayed
          /\ u.deposit_tx = trade["seller"].deposit_tx
    BY <1>0, <1>1, NewTrades
  <2> QED BY <1>0, <1>2, <2>1, CalmSame
<1>4. Receive("seller", "DepositTx")
  BY DEF handle_deposit_tx_message
<1>5. /\ \A q \in Role : inbox'[q] \subseteq inbox[q]
      /\ "DepositTxAndDelayedPayoutTx" \in inbox["buyer"]
           => "DepositTxAndDelayedPayoutTx" \in inbox'["buyer"]
      /\ "DepositTx" \in inbox["seller"]
  BY <1>0, <1>4, MessageReceived
<1>6. BuyerSigned'
  <2>1. OnItsWay("buyer", "DepositTx")
    BY <1>5, Peers DEF OnItsWay
  <2> QED BY <1>3, <2>1 DEF TakeInv, SignedBeforeRequest, Calm
<1>7. CASE out' = out /\ draft' = draft
  <2>1. "none" \notin Tracked
    BY DEF Tracked, Signed, Unsigned
  <2>2. NewMessages
    BY <1>0, <1>5, <1>7, <2>1, QuietMessages
  <2>3. NewDeposit
    BY <1>2, <1>7, QuietDeposit
  <2> QED BY <1>3, <2>2, <2>3, Carried
<1>8. CASE Send("seller", "DelayedPayoutTxSignatureRequest") /\ draft' = "incomplete"
  <2>1. (\A q \in Role \ {"seller"} : out'[q] = out[q])
        /\ out'["seller"] = "DelayedPayoutTxSignatureRequest"
    BY <1>0, <1>8, MessageSent DEF Message
  <2>2. \A q \in Role, n \in Message :
          OnItsWay(q, n)' => \/ OnItsWay(q, n)
                             \/ q = "seller" /\ n = "DelayedPayoutTxSignatureRequest"
    BY <1>0, <1>5, <2>1, OnlyOneSent
  <2>3. Tracked \subseteq Message
    BY DEF Tracked, Message, Signed, Unsigned
  <2>4. NewMessages
    BY <1>0, <1>5, <1>6, <2>1, <2>2, <2>3 DEF NewMessages, Tracked, Signed, Unsigned
  <2>5. NewDeposit
    BY <1>2, <1>8, <2>1 DEF NewDeposit
  <2> QED BY <1>3, <2>4, <2>5, Carried
<1> QED BY <1>1, <1>7, <1>8
\* The buyer finalizes the delayed payout tx and answers, without its witnesses only if it
\* was stopped
LEMMA SignatureRequestStep ==
  ASSUME TypeOK, TypeOK', TakeInv, handle_delayed_payout_tx_signature_request
  PROVE  TakeInv'
<1> DEFINE t == [trade["buyer"] EXCEPT !.delayed = TRUE]
           x == SignatureResponse(trade["buyer"])
<1>0. "buyer" \in Role /\ "seller" \in Role /\ trade["buyer"] \in TradeModel
      /\ trade.buyer = trade["buyer"]
  BY DEF TypeOK, Role
<1>1. /\ t \in TradeModel /\ t.state = trade["buyer"].state /\ t.delayed
      /\ t.deposit_tx = trade["buyer"].deposit_tx /\ t.prepared = trade["buyer"].prepared
  BY <1>0 DEF TradeModel
<1>2. \/ SetTrade("buyer", t) /\ Send("buyer", x)
      \/ SetTrade("buyer", failed(trade["buyer"])) /\ out' = out
  BY <1>0 DEF handle_delayed_payout_tx_signature_request, TaskFails, BuyerFinalizesDelayedPayoutTx
<1> HIDE DEF t, x
<1>3. UNCHANGED <<maker, file, past, signed, watching, deposit, publishing, draft>>
  BY DEF handle_delayed_payout_tx_signature_request
<1>4. Receive("buyer", "DelayedPayoutTxSignatureRequest")
  BY DEF handle_delayed_payout_tx_signature_request
<1>5. /\ \A q \in Role : inbox'[q] \subseteq inbox[q]
      /\ "DepositTxAndDelayedPayoutTx" \in inbox["buyer"]
           => "DepositTxAndDelayedPayoutTx" \in inbox'["buyer"]
      /\ "DelayedPayoutTxSignatureRequest" \in inbox["buyer"]
  BY <1>0, <1>4, MessageReceived
<1>6. CASE SetTrade("buyer", failed(trade["buyer"])) /\ out' = out
  <2>1. "none" \notin Tracked
    BY DEF Tracked, Signed, Unsigned
  <2>2. NewMessages
    BY <1>0, <1>5, <1>6, <2>1, QuietMessages
  <2>3. NewDeposit
    BY <1>3, <1>6, QuietDeposit
  <2>4. Calm
    BY <1>0, <1>3, <1>6, NewTrades, CalmSame
  <2> QED BY <2>2, <2>3, <2>4, Carried
<1>7. CASE SetTrade("buyer", t) /\ Send("buyer", x)
  <2>1. /\ trade'["buyer"] = t /\ \A q \in Role \ {"buyer"} : trade'[q] = trade[q]
        /\ requested \subseteq requested'
        /\ t # trade["buyer"] => "buyer" \in requested'
    BY <1>0, <1>1, <1>7, SetTradeOf
  <2>2. Phase(trade["buyer"]) = 2 /\ Phase(t) = 2 /\ Empty(t)
    <3>1. Phase(trade["buyer"]) = 2
      BY DEF handle_delayed_payout_tx_signature_request, Expected, ExpectedPhases,
             TAKER_FEE_PUBLISHED
    <3>2. Phase(t) = 2
      BY <1>1, <3>1 DEF Phase
    <3> QED BY <1>1, <3>1, <3>2, PhaseOfTrade DEF Empty
  <2>3. t.delayed => trade["buyer"].delayed \/ "buyer" \in requested'
    BY <2>1
  <2>4. Calm
    BY <1>0, <1>1, <1>3, <2>1, <2>2, <2>3, TradeChanges
  <2>5. Held("buyer")'
    BY <1>0, <1>1, <2>1, <2>4 DEF Calm, DelayedIsStored, Held
  <2>6. x \in {Signed, Unsigned} /\ x \in Message
    BY DEF x, SignatureResponse, Signed, Unsigned, Message
  <2>7. x = Unsigned => "buyer" \in past.stopped
    <3>1. OnItsWay("seller", "DelayedPayoutTxSignatureRequest")
      BY <1>5, Peers DEF OnItsWay
    <3>2. BuyerSigned
      BY <3>1 DEF TakeInv, SignedBeforeRequest
    <3> QED BY <3>2 DEF BuyerSigned, x, SignatureResponse, Unsigned
  <2>8. (\A q \in Role \ {"buyer"} : out'[q] = out[q]) /\ out'["buyer"] = x
    BY <1>0, <1>7, <2>6, MessageSent
  <2>9. \A q \in Role, n \in Message : OnItsWay(q, n)' => OnItsWay(q, n) \/ (q = "buyer" /\ n = x)
    BY <1>0, <1>5, <2>8, OnlyOneSent
  <2>10. Tracked \subseteq Message
    BY DEF Tracked, Message, Signed, Unsigned
  <2>11. NewMessages
    <3>1. \A n \in Tracked \ {Signed, Unsigned} :
            \A q \in Role : OnItsWay(q, n)' => OnItsWay(q, n)
      BY <2>6, <2>9, <2>10
    <3>2. OnItsWay("seller", "DepositTxAndDelayedPayoutTx")'
            => OnItsWay("seller", "DepositTxAndDelayedPayoutTx")
      BY <1>0, <3>1 DEF Tracked, Signed, Unsigned
    <3>3. /\ OnItsWay("buyer", "DepositTx")' => OnItsWay("buyer", "DepositTx")
          /\ OnItsWay("buyer", "InputsForDepositTxResponse")'
               => OnItsWay("buyer", "InputsForDepositTxResponse")
          /\ OnItsWay("seller", "DelayedPayoutTxSignatureRequest")'
               => OnItsWay("seller", "DelayedPayoutTxSignatureRequest")
      BY <1>0, <3>1 DEF Tracked, Signed, Unsigned
    <3>4. OnItsWay("buyer", Unsigned)' => OnItsWay("buyer", Unsigned) \/ "buyer" \in past'.stopped
      BY <1>0, <1>3, <2>7, <2>9, <2>10 DEF Tracked
    <3>5. out'["buyer"] # "DepositTxAndDelayedPayoutTx"
      BY <2>6, <2>8 DEF Signed, Unsigned
    <3>6. Phase(trade'["buyer"]) >= 2
      BY <2>1, <2>2
    <3> QED BY <1>5, <2>5, <3>2, <3>3, <3>4, <3>5, <3>6 DEF NewMessages
  <2>12. NewDeposit
    BY <1>0, <1>3, <2>8, QuietDeposit
  <2> QED BY <2>4, <2>11, <2>12, Carried
<1> QED BY <1>2, <1>6, <1>7

\* The seller finalizes the delayed payout tx before it sends the deposit tx, which the
\* witnesses of a buyer who holds the delayed payout tx complete
LEMMA SignatureResponseStep ==
  ASSUME TypeOK, TypeOK', TakeInv, NEW m \in Message,
         handle_delayed_payout_tx_signature_response(m)
  PROVE  TakeInv'
<1> DEFINE t == [trade["seller"] EXCEPT !.delayed = TRUE]
           x == "DepositTxAndDelayedPayoutTx"
<1>0. "buyer" \in Role /\ "seller" \in Role /\ trade["seller"] \in TradeModel
      /\ trade.seller = trade["seller"]
  BY DEF TypeOK, Role
<1>1. /\ t \in TradeModel /\ t.state = trade["seller"].state /\ t.delayed
      /\ t.deposit_tx = trade["seller"].deposit_tx /\ t.prepared = trade["seller"].prepared
  BY <1>0 DEF TradeModel
<1>2. \/ /\ SetTrade("seller", t) /\ Send("seller", x)
         /\ draft' = IF m = Signed THEN "complete" ELSE draft
      \/ SetTrade("seller", failed(trade["seller"])) /\ out' = out /\ draft' = draft
  BY <1>0 DEF handle_delayed_payout_tx_signature_response, TaskFails, Signed
<1> HIDE DEF t
<1>3. UNCHANGED <<maker, file, past, signed, watching, deposit, publishing>>
      /\ m \in {Signed, Unsigned}
  BY DEF handle_delayed_payout_tx_signature_response, Signed, Unsigned
<1>4. Receive("seller", m)
  BY DEF handle_delayed_payout_tx_signature_response
<1>5. /\ \A q \in Role : inbox'[q] \subseteq inbox[q]
      /\ x \in inbox["buyer"] => x \in inbox'["buyer"]
      /\ m \in inbox["seller"]
  BY <1>0, <1>4, MessageReceived
<1>6. CASE SetTrade("seller", failed(trade["seller"])) /\ out' = out /\ draft' = draft
  <2>1. "none" \notin Tracked
    BY DEF Tracked, Signed, Unsigned
  <2>2. NewMessages
    BY <1>0, <1>5, <1>6, <2>1, QuietMessages
  <2>3. NewDeposit
    BY <1>3, <1>6, QuietDeposit
  <2>4. Calm
    BY <1>0, <1>3, <1>6, NewTrades, CalmSame
  <2> QED BY <2>2, <2>3, <2>4, Carried
<1>7. CASE /\ SetTrade("seller", t) /\ Send("seller", x)
           /\ draft' = IF m = Signed THEN "complete" ELSE draft
  <2>1. /\ trade'["seller"] = t /\ \A q \in Role \ {"seller"} : trade'[q] = trade[q]
        /\ requested \subseteq requested'
        /\ t # trade["seller"] => "seller" \in requested'
    BY <1>0, <1>1, <1>7, SetTradeOf
  <2>2. Empty(t)
    <3>1. Phase(trade["seller"]) = 2
      BY <1>3 DEF handle_delayed_payout_tx_signature_response, Expected, ExpectedPhases,
             TAKER_FEE_PUBLISHED, Signed, Unsigned
    <3>2. trade["seller"].state # "NONE"
      BY <1>0, <3>1, PhaseOfTrade
    <3> QED BY <1>1, <3>2 DEF Empty
  <2>3. t.delayed => trade["seller"].delayed \/ "seller" \in requested'
    BY <2>1
  <2>4. Calm
    BY <1>0, <1>1, <1>3, <2>1, <2>2, <2>3, TradeChanges
  <2>5. Held("seller")'
    BY <1>0, <1>1, <2>1, <2>4 DEF Calm, DelayedIsStored, Held
  <2>6. OnItsWay("buyer", m)
    BY <1>5, Peers DEF OnItsWay
  <2>7. m = Signed => Held("buyer")'
    BY <1>0, <2>4, <2>6 DEF TakeInv, HeldBeforeDeposit, Calm
  <2>8. m = Unsigned => "buyer" \in past.stopped
    BY <2>6 DEF TakeInv, SignedBeforeRequest
  <2>9. "buyer" \in past.stopped \/ Phase(trade["buyer"]) >= 2
    BY <1>3, <2>6 DEF TakeInv, BuyerExpects, TAKER_FEE_PUBLISHED
  <2>10. (\A q \in Role \ {"seller"} : out'[q] = out[q]) /\ out'["seller"] = x
    BY <1>0, <1>7, MessageSent DEF Message
  <2>11. \A q \in Role, n \in Message :
           OnItsWay(q, n)' => OnItsWay(q, n) \/ (q = "seller" /\ n = x)
    BY <1>0, <1>5, <2>10, OnlyOneSent
  <2>12. Tracked \subseteq Message
    BY DEF Tracked, Message, Signed, Unsigned
  <2>13. "buyer" \in past'.stopped \/ Phase(trade'["buyer"]) >= 2
    BY <1>0, <1>3, <2>1, <2>9
  <2>14. NewMessages
    BY <1>0, <1>5, <2>10, <2>11, <2>12, <2>13
       DEF NewMessages, Tracked, Signed, Unsigned
  <2>15. draft' = "complete" \/ "buyer" \in past'.stopped
    BY <1>3, <1>7, <2>8
  <2>16. NewDeposit
    BY <1>3, <1>7, <2>5, <2>7, <2>15 DEF NewDeposit
  <2> QED BY <2>4, <2>14, <2>16, Carried
<1> QED BY <1>2, <1>6, <1>7
\* A step that only changes trades and what is listened to, and receives at most a message
\* that is not lost for the buyer
LEMMA QuietStep ==
  ASSUME TypeOK, TypeOK', TakeInv, Calm, NEW r \in Role, NEW x, x \notin Tracked,
         \A q \in Role : inbox'[q] \subseteq inbox[q],
         \A q \in Role \ {r} : out'[q] = out[q], out'[r] \in {out[r], x},
         "DepositTxAndDelayedPayoutTx" \in inbox["buyer"]
           => \/ "DepositTxAndDelayedPayoutTx" \in inbox'["buyer"]
              \/ Got' \/ "buyer" \in past'.stopped,
         publishing'["seller"] = "fee" => publishing["seller"] = "fee",
         draft' = draft,
         deposit' = deposit \/ (deposit = "wallet" /\ deposit' = "network")
           \/ (deposit = "network" /\ deposit' = "confirmed")
  PROVE  TakeInv'
<1>1. NewMessages
  BY QuietMessages
<1>2. out'["seller"] = "DepositTxAndDelayedPayoutTx"
        => out["seller"] = "DepositTxAndDelayedPayoutTx"
  BY DEF Tracked, Role
<1>3. NewDeposit
  BY <1>2 DEF NewDeposit
<1> QED BY <1>1, <1>3, Carried

\* "none" is no message
LEMMA NoneIsNotTracked == "none" \notin Tracked
BY DEF Tracked, Signed, Unsigned

\* The seller's broadcast is answered
LEMMA DepositPublishedStep ==
  ASSUME TypeOK, TypeOK', TakeInv, DepositPublished
  PROVE  TakeInv'
<1> DEFINE u == apply_deposit_tx(trade["seller"], FALSE)
           t == [u EXCEPT !.state = "SELLER_PUBLISHED_DEPOSIT_TX"]
<1>0. "buyer" \in Role /\ "seller" \in Role /\ trade["seller"] \in TradeModel
      /\ trade.seller = trade["seller"]
  BY DEF TypeOK, Role
<1>1. u \in TradeModel /\ u.delayed = trade["seller"].delayed
  BY <1>0, DepositTxApplied
<1>2. SetTrade("seller", t)
  BY <1>0 DEF DepositPublished
<1> HIDE DEF u
<1>3. /\ t \in TradeModel /\ t.delayed = trade["seller"].delayed
      /\ t.state = "SELLER_PUBLISHED_DEPOSIT_TX"
  BY <1>1, Phases DEF TradeModel
<1> HIDE DEF t
<1>4. /\ trade'["seller"] = t /\ \A q \in Role \ {"seller"} : trade'[q] = trade[q]
      /\ requested \subseteq requested'
  BY <1>0, <1>2, <1>3, SetTradeOf
<1>5. /\ UNCHANGED <<maker, file, past, signed, deposit, draft, inbox, out>>
      /\ publishing' = [publishing EXCEPT !.seller = "none"]
      /\ "buyer" \in watching' => "buyer" \in watching
  BY DEF DepositPublished, Watch
<1>6. Calm
  BY <1>0, <1>3, <1>4, <1>5, TradeChanges DEF Empty
<1>7. publishing'["seller"] = "none"
  BY <1>0, <1>5 DEF TypeOK
<1> QED BY <1>0, <1>5, <1>6, <1>7, QuietStep, NoneIsNotTracked

\* The buyer gets the deposit tx with the message
LEMMA DepositMessageStep ==
  ASSUME TypeOK, TypeOK', TakeInv, handle_deposit_tx_and_delayed_payout_tx_message
  PROVE  TakeInv'
<1>0. "buyer" \in Role /\ "seller" \in Role /\ trade["buyer"] \in TradeModel
      /\ trade.buyer = trade["buyer"]
  BY DEF TypeOK, Role
<1>6. PICK u \in TradeModel :
        /\ SetTrade("buyer", u)
        /\ u.prepared = trade["buyer"].prepared /\ u.delayed = trade["buyer"].delayed
        /\ \/ /\ u.state = trade["buyer"].state /\ past'.message = "refused"
              /\ u.deposit_tx = trade["buyer"].deposit_tx /\ watching' = watching
           \/ /\ u.state \in {trade["buyer"].state, "DEPOSIT_CONFIRMED_IN_BLOCK_CHAIN",
                               "BUYER_RECEIVED_DEPOSIT_TX_PUBLISHED_MSG"}
              /\ u.deposit_tx
  BY DepositMessage
<1>7. /\ trade'["buyer"] = u /\ \A q \in Role \ {"buyer"} : trade'[q] = trade[q]
      /\ requested \subseteq requested'
  BY <1>0, <1>6, SetTradeOf
<1>8. /\ UNCHANGED <<maker, file, signed, deposit, draft, publishing>>
      /\ past'.stopped = past.stopped /\ past'.lost = past.lost
      /\ past.message # "none" => past'.message # "none"
  BY DepositMessage DEF handle_deposit_tx_and_delayed_payout_tx_message
<1>9. Receive("buyer", "DepositTxAndDelayedPayoutTx")
      /\ Phase(trade["buyer"]) \in {2, 3}
  BY DEF handle_deposit_tx_and_delayed_payout_tx_message, Expected, ExpectedPhases,
         TAKER_FEE_PUBLISHED, DEPOSIT_PUBLISHED
<1>10. Calm
  <2>1. Phase(u) >= 2
    BY <1>6, <1>9, Phases DEF Phase
  <2>2. u.state # "NONE"
    BY <2>1, PhaseOfTrade
  <2>3. Empty(u)
    BY <2>2 DEF Empty
  <2>4. /\ trade["buyer"].deposit_tx => u.deposit_tx
        /\ Phase(u) = 4 => u.deposit_tx \/ Phase(trade["buyer"]) = 4
        /\ "buyer" \in watching' => "buyer" \in watching \/ u.deposit_tx
    BY <1>6 DEF Phase
  <2> QED BY <1>0, <1>6, <1>7, <1>8, <2>1, <2>3, <2>4, TradeAndPastChange
<1>11. \A q \in Role : inbox'[q] \subseteq inbox[q]
  BY <1>0, <1>9, MessageReceived
<1>12. /\ \A q \in Role \ {"buyer"} : out'[q] = out[q]
       /\ out'["buyer"] \in {out["buyer"], "ShareBuyerPaymentAccount"}
  BY <1>0, DepositMessage, MessageSent DEF Message
<1>13. "ShareBuyerPaymentAccount" \notin Tracked
  BY DEF Tracked, Signed, Unsigned
<1>14. Got'
  BY <1>6, <1>7 DEF Got
<1> QED BY <1>0, <1>8, <1>10, <1>11, <1>12, <1>13, <1>14, QuietStep

\* The seller gets the payment account of the buyer
LEMMA ShareStep ==
  ASSUME TypeOK, TypeOK', TakeInv, handle_share_buyer_payment_account_message
  PROVE  TakeInv'
<1>0. "buyer" \in Role /\ "seller" \in Role /\ trade["seller"] \in TradeModel
      /\ trade.seller = trade["seller"]
  BY DEF TypeOK, Role
<1> DEFINE t == [trade["seller"] EXCEPT !.payload = TRUE]
<1>1. /\ t \in TradeModel /\ t.state = trade["seller"].state
      /\ t.prepared = trade["seller"].prepared /\ t.delayed = trade["seller"].delayed
      /\ t.deposit_tx = trade["seller"].deposit_tx
  BY <1>0 DEF TradeModel
<1>2. (SetTrade("seller", t) \/ SetTrade("seller", failed(trade["seller"]))) /\ out' = out
  BY <1>0 DEF handle_share_buyer_payment_account_message, TaskFails
<1> HIDE DEF t
<1>3. UNCHANGED <<maker, file, past, signed, watching, deposit, draft, publishing>>
      /\ Receive("seller", "ShareBuyerPaymentAccount")
  BY DEF handle_share_buyer_payment_account_message
<1>4. Calm
  BY <1>0, <1>1, <1>2, <1>3, NewTrades, CalmSame
<1>5. (\A q \in Role : inbox'[q] \subseteq inbox[q]) /\ inbox'["buyer"] = inbox["buyer"]
  BY <1>0, <1>3, MessageReceived
<1> QED BY <1>0, <1>2, <1>3, <1>4, <1>5, QuietStep, NoneIsNotTracked

\* The buyer's listener sees the deposit tx in the network
LEMMA SawDepositTxStep ==
  ASSUME TypeOK, TypeOK', TakeInv, SawDepositTx
  PROVE  TakeInv'
<1>0. "buyer" \in Role /\ "seller" \in Role /\ trade["buyer"] \in TradeModel
      /\ trade.buyer = trade["buyer"]
  BY DEF TypeOK, Role
<1>1. PICK confirmed \in WalletKnows :
        SetTrade("buyer", apply_confidence(trade["buyer"], confirmed))
  BY <1>0 DEF SawDepositTx
<1>2. confirmed \in BOOLEAN
  BY DEF WalletKnows
<1> DEFINE u == apply_confidence(trade["buyer"], confirmed)
<1>3. /\ u \in TradeModel /\ u.deposit_tx
      /\ u.prepared = trade["buyer"].prepared /\ u.delayed = trade["buyer"].delayed
      /\ u = trade["buyer"] \/ u.state = "BUYER_SAW_DEPOSIT_TX_IN_NETWORK"
  BY <1>0, <1>2, ConfidenceApplied
<1>4. SetTrade("buyer", u)
  BY <1>1
<1> HIDE DEF u
<1>5. /\ trade'["buyer"] = u /\ \A q \in Role \ {"buyer"} : trade'[q] = trade[q]
      /\ requested \subseteq requested'
  BY <1>0, <1>3, <1>4, SetTradeOf
<1>6. UNCHANGED <<maker, file, past, signed, deposit, draft, publishing, inbox, out>>
  BY DEF SawDepositTx
<1>7. /\ Empty(u)
      /\ Phase(trade["buyer"]) >= 2 => Phase(u) >= 2
  <2>1. Empty(trade["buyer"])
    BY <1>0 DEF TakeInv, NothingBefore
  <2>2. u.state = "BUYER_SAW_DEPOSIT_TX_IN_NETWORK" => Phase(u) = 3 /\ Empty(u)
    BY Phases DEF Phase, Empty
  <2> QED BY <1>3, <2>1, <2>2
<1>8. Calm
  BY <1>0, <1>3, <1>5, <1>6, <1>7, TradeChanges
<1> QED BY <1>0, <1>6, <1>8, QuietStep, NoneIsNotTracked
\* The deposit tx reaches the network, and a block
LEMMA NetworkStep ==
  ASSUME TypeOK, TypeOK', TakeInv, TxReachesNetwork \/ TxIsConfirmed
  PROVE  TakeInv'
<1>0. "buyer" \in Role
  BY DEF Role
<1>1. /\ UNCHANGED <<maker, trade, file, past, requested, signed, draft, out, inbox, watching,
                     publishing>>
      /\ \/ deposit = "wallet" /\ deposit' = "network"
         \/ deposit = "network" /\ deposit' = "confirmed"
  BY DEF TxReachesNetwork, TxIsConfirmed
<1>2. Calm
  BY <1>1, CalmUnchanged
<1> QED BY <1>0, <1>1, <1>2, QuietStep, NoneIsNotTracked

\* A broadcast that fails
LEMMA BroadcastFailsStep ==
  ASSUME TypeOK, TypeOK', TakeInv, NEW r \in Role, BroadcastFails(r)
  PROVE  TakeInv'
<1>0. trade[r] \in TradeModel /\ "buyer" \in Role /\ "seller" \in Role
  BY DEF TypeOK, Role
<1>1. /\ UNCHANGED <<maker, file, past, signed, draft, watching, inbox, deposit>>
      /\ publishing' = [publishing EXCEPT ![r] = "none"]
      /\ SetTrade(r, failed(trade[r])) /\ out' = out
  BY DEF BroadcastFails, TaskFails
<1>2. Calm
  BY <1>0, <1>1, NewTrades, CalmSame
<1>3. publishing'["seller"] = "fee" => publishing["seller"] = "fee"
  BY <1>0, <1>1 DEF TypeOK
<1> QED BY <1>0, <1>1, <1>2, <1>3, QuietStep, NoneIsNotTracked

\* A trade learns that its deposit tx is confirmed: a buyer that was not stopped has it
LEMMA ConfirmedStateStep ==
  ASSUME TypeOK, TypeOK', TakeInv, NEW r \in Role, set_confirmed_state(r)
  PROVE  TakeInv'
<1> DEFINE t == [trade[r] EXCEPT !.state = "DEPOSIT_CONFIRMED_IN_BLOCK_CHAIN"]
<1>0. trade[r] \in TradeModel /\ "buyer" \in Role
  BY DEF TypeOK, Role
<1>1. /\ UNCHANGED <<maker, file, past, requested, signed, draft, inbox, deposit, out, publishing>>
      /\ trade' = [trade EXCEPT ![r] = t] /\ watching' = watching \ {r} /\ r \in watching
  BY <1>0 DEF set_confirmed_state, TypeOK
<1>2. /\ t \in TradeModel /\ t.state = "DEPOSIT_CONFIRMED_IN_BLOCK_CHAIN"
      /\ t.delayed = trade[r].delayed /\ t.deposit_tx = trade[r].deposit_tx
      /\ t.prepared = trade[r].prepared
  BY <1>0, Phases DEF TradeModel
<1> HIDE DEF t
<1>3. trade'[r] = t /\ \A q \in Role \ {r} : trade'[q] = trade[q]
  BY <1>1 DEF TypeOK
<1>4. Phase(t) = 4 /\ Empty(t)
  BY <1>2, Phases DEF Phase, Empty
<1>5. Calm
  <2>1. ASSUME NEW q \in Role
        PROVE  Empty(trade'[q]) /\ Empty(file'[q]) /\ (Held(q) => Held(q)')
    <3>1. Empty(trade[q]) /\ Empty(file[q])
      BY DEF TakeInv, NothingBefore
    <3>2. q # r => trade'[q] = trade[q]
      BY <1>3
    <3>3. trade'[q].delayed = trade[q].delayed
      BY <1>2, <1>3
    <3> QED BY <1>1, <1>3, <1>4, <3>1, <3>2, <3>3 DEF Held
  <2>2. DelayedIsStored'
    BY <1>1, <1>2, <1>3 DEF TakeInv, DelayedIsStored
  <2>3. /\ trade'["buyer"].prepared = trade["buyer"].prepared
        /\ trade'["buyer"].deposit_tx = trade["buyer"].deposit_tx
        /\ Phase(trade["buyer"]) >= 2 => Phase(trade'["buyer"]) >= 2
        /\ Phase(trade'["buyer"]) = 4 => Phase(trade["buyer"]) = 4 \/ "buyer" \in watching
    BY <1>0, <1>1, <1>2, <1>3, <1>4
  <2>4. BuyerSigned => BuyerSigned'
    BY <1>1, <2>3 DEF BuyerSigned
  <2>5. "buyer" \notin past'.stopped =>
          (Phase(trade'["buyer"]) = 4 \/ "buyer" \in watching' => trade'["buyer"].deposit_tx)
    BY <1>1, <2>3 DEF TakeInv, BuyerExpects, DEPOSIT_CONFIRMED
  <2> QED BY <1>1, <2>1, <2>2, <2>3, <2>4, <2>5 DEF Calm
<1> QED BY <1>0, <1>1, <1>5, QuietStep, NoneIsNotTracked

\* A message that is not expected is dropped: a buyer that was not stopped expects the
\* deposit tx until it has it
LEMMA UnexpectedStep ==
  ASSUME TypeOK, TypeOK', TakeInv, NEW r \in Role, NEW m \in Message, handle_unexpected(r, m)
  PROVE  TakeInv'
<1>0. "buyer" \in Role /\ trade["buyer"] \in TradeModel
  BY DEF TypeOK, Role
<1>1. /\ UNCHANGED <<maker, trade, file, past, requested, signed, draft, out, watching,
                     publishing, deposit>>
      /\ Receive(r, m) /\ ~ Expected(r, m)
  BY DEF handle_unexpected
<1>2. Calm
  BY <1>1, CalmUnchanged
<1>3. \A q \in Role : inbox'[q] \subseteq inbox[q]
  BY <1>1, MessageReceived
<1>4. "DepositTxAndDelayedPayoutTx" \in inbox["buyer"]
        => \/ "DepositTxAndDelayedPayoutTx" \in inbox'["buyer"]
           \/ Got' \/ "buyer" \in past'.stopped
  <2> SUFFICES ASSUME "DepositTxAndDelayedPayoutTx" \in inbox["buyer"],
                      "DepositTxAndDelayedPayoutTx" \notin inbox'["buyer"],
                      "buyer" \notin past.stopped
               PROVE  trade["buyer"].deposit_tx
    BY <1>1 DEF Got
  <2>1. r = "buyer" /\ m = "DepositTxAndDelayedPayoutTx"
    BY <1>0, <1>1, MessageReceived
  <2>2. Phase(trade["buyer"]) >= 2 /\ (Phase(trade["buyer"]) = 4 => trade["buyer"].deposit_tx)
    BY Peers DEF TakeInv, BuyerExpects, OnItsWay, TAKER_FEE_PUBLISHED, DEPOSIT_CONFIRMED
  <2>3. Phase(trade["buyer"]) \in {2, 3, 4}
    BY <1>0, <2>2, PhaseOfTrade
  <2> QED BY <1>1, <2>1, <2>2, <2>3
          DEF Expected, ExpectedPhases, TAKER_FEE_PUBLISHED, DEPOSIT_PUBLISHED
<1> QED BY <1>1, <1>2, <1>3, <1>4, QuietStep, NoneIsNotTracked

\* A timeout sets the error_message only
LEMMA TimeoutStep ==
  ASSUME TypeOK, TypeOK', TakeInv, NEW r \in Role, on_timeout(r)
  PROVE  TakeInv'
<1>0. trade[r] \in TradeModel /\ "buyer" \in Role
  BY DEF TypeOK, Role
<1>1. /\ UNCHANGED <<maker, file, past, signed, draft, out, publishing, watching, inbox, deposit>>
      /\ SetTrade(r, failed(trade[r]))
  BY DEF on_timeout, failed
<1>2. Calm
  BY <1>0, <1>1, NewTrades, CalmSame
<1> QED BY <1>0, <1>1, <1>2, QuietStep, NoneIsNotTracked

\* A message that does not arrive is dropped
LEMMA FaultStep ==
  ASSUME TypeOK, TypeOK', TakeInv, NEW r \in Role, on_fault(r)
  PROVE  TakeInv'
<1> DEFINE t == IF out[r] = "InputsForDepositTxResponse"
                THEN [trade[r] EXCEPT !.state = "MAKER_SEND_FAILED_PUBLISH_DEPOSIT_TX_REQUEST"]
                ELSE trade[r]
<1>0. trade[r] \in TradeModel /\ "buyer" \in Role /\ "seller" \in Role
  BY DEF TypeOK, Role
<1>1. /\ UNCHANGED <<maker, file, past, signed, draft, watching, inbox, deposit, publishing>>
      /\ out' = [out EXCEPT ![r] = "none"]
      /\ UNCHANGED <<trade, requested>> \/ SetTrade(r, failed(t))
  BY DEF on_fault, TaskHangs
<1>2. /\ t \in TradeModel /\ t.prepared = trade[r].prepared /\ t.delayed = trade[r].delayed
      /\ t.deposit_tx = trade[r].deposit_tx
      /\ t.state \in {trade[r].state, "MAKER_SEND_FAILED_PUBLISH_DEPOSIT_TX_REQUEST"}
  BY <1>0, Phases DEF TradeModel
<1> HIDE DEF t
<1>3. Calm
  <2>1. CASE UNCHANGED <<trade, requested>>
    BY <1>1, <2>1, CalmUnchanged
  <2>2. CASE SetTrade(r, failed(t))
    <3> DEFINE u == failed(t)
    <3>1. /\ u \in TradeModel /\ u.prepared = trade[r].prepared /\ u.delayed = trade[r].delayed
          /\ u.deposit_tx = trade[r].deposit_tx /\ u.state = t.state
      BY <1>2, NewTrades
    <3>2. SetTrade(r, u)
      BY <2>2
    <3> HIDE DEF u
    <3>3. CASE u.state = trade[r].state
      BY <1>1, <3>1, <3>2, <3>3, CalmSame
    <3>4. CASE u.state = "MAKER_SEND_FAILED_PUBLISH_DEPOSIT_TX_REQUEST"
      <4>1. Phase(u) = 2 /\ Empty(u)
        BY <3>4, Phases DEF Phase, Empty
      <4>2. /\ trade'[r] = u /\ \A q \in Role \ {r} : trade'[q] = trade[q]
            /\ requested \subseteq requested'
        BY <3>1, <3>2, SetTradeOf
      <4> QED BY <1>1, <3>1, <4>1, <4>2, TradeChanges
    <3> QED BY <1>2, <3>1, <3>3, <3>4
  <2> QED BY <1>1, <2>1, <2>2
<1>4. (\A q \in Role \ {r} : out'[q] = out[q]) /\ out'[r] = "none"
  BY <1>1 DEF TypeOK
<1> QED BY <1>0, <1>1, <1>3, <1>4, QuietStep, NoneIsNotTracked

\* A start applies the deposit tx again
LEMMA StartStep ==
  ASSUME TypeOK, TypeOK', TakeInv, NEW r \in Role, Start(r)
  PROVE  TakeInv'
<1>0. "buyer" \in Role /\ trade[r] \in TradeModel
  BY DEF Role, TypeOK
<1>1. UNCHANGED <<maker, file, past, signed, draft, out, publishing, inbox, deposit>>
  BY DEF Start
<1>2. PICK t \in TradeModel :
        /\ SetTrade(r, t)
        /\ t.prepared = trade[r].prepared /\ t.delayed = trade[r].delayed
        /\ trade[r].deposit_tx => t.deposit_tx
        /\ t.state \in {trade[r].state, "BUYER_SAW_DEPOSIT_TX_IN_NETWORK",
                        "DEPOSIT_CONFIRMED_IN_BLOCK_CHAIN"}
        /\ t.state = trade[r].state \/ t.deposit_tx
        /\ \/ t.deposit_tx = trade[r].deposit_tx
           \/ t.state \in {"BUYER_SAW_DEPOSIT_TX_IN_NETWORK", "DEPOSIT_CONFIRMED_IN_BLOCK_CHAIN"}
        /\ r \in watching' => r \in watching \/ t.deposit_tx
        /\ watching' \subseteq watching \cup {r}
  BY Restarted
<1>3. /\ trade'[r] = t /\ \A q \in Role \ {r} : trade'[q] = trade[q]
      /\ requested \subseteq requested'
  BY <1>2, SetTradeOf
<1>4. Empty(t)
  <2>1. Empty(trade[r])
    BY DEF TakeInv, NothingBefore
  <2> QED BY <1>2, <2>1 DEF Empty
<1>5. /\ Phase(trade[r]) >= 2 => Phase(t) >= 2
      /\ Phase(t) = 4 => t.deposit_tx \/ Phase(trade[r]) = 4
  BY <1>2, Phases DEF Phase
<1>6. "buyer" \in watching' => "buyer" \in watching \/ trade'["buyer"].deposit_tx
  BY <1>0, <1>2, <1>3
<1>7. Calm
  BY <1>1, <1>2, <1>3, <1>4, <1>5, <1>6, TradeChanges
<1> QED BY <1>0, <1>1, <1>7, QuietStep, NoneIsNotTracked

\* A message arrives. The seller then publishes the deposit tx, when both hold the delayed
\* payout tx if it is complete
LEMMA ArrivedStep ==
  ASSUME TypeOK, TypeOK', TakeInv, NEW r \in Role, on_arrived(r)
  PROVE  TakeInv'
<1> DEFINE x == "DepositTxAndDelayedPayoutTx"
           t == IF out[r] = "InputsForDepositTxResponse"
                THEN [trade[r] EXCEPT !.state = "MAKER_SAW_ARRIVED_PUBLISH_DEPOSIT_TX_REQUEST"]
                ELSE trade[r]
<1>0. trade[r] \in TradeModel /\ "buyer" \in Role /\ "seller" \in Role /\ Role = {"buyer", "seller"}
  BY DEF TypeOK, Role
<1>1. /\ UNCHANGED <<maker, file, past, signed, draft, watching>>
      /\ SetTrade(r, t)
      /\ IF out[r] = x THEN SellerPublishesDepositTx ELSE UNCHANGED <<publishing, deposit>>
  BY DEF on_arrived
<1>2. /\ t \in TradeModel /\ t.prepared = trade[r].prepared /\ t.delayed = trade[r].delayed
      /\ t.deposit_tx = trade[r].deposit_tx
      /\ t.state \in {trade[r].state, "MAKER_SAW_ARRIVED_PUBLISH_DEPOSIT_TX_REQUEST"}
  BY <1>0, Phases DEF TradeModel
<1> HIDE DEF t
<1>3. Calm
  <2>1. CASE t.state = trade[r].state
    BY <1>1, <1>2, <2>1, CalmSame
  <2>2. CASE t.state = "MAKER_SAW_ARRIVED_PUBLISH_DEPOSIT_TX_REQUEST"
    <3>1. Phase(t) = 2 /\ Empty(t)
      BY <2>2, Phases DEF Phase, Empty
    <3>2. /\ trade'[r] = t /\ \A q \in Role \ {r} : trade'[q] = trade[q]
          /\ requested \subseteq requested'
      BY <1>1, <1>2, SetTradeOf
    <3> QED BY <1>1, <1>2, <3>1, <3>2, TradeChanges
  <2> QED BY <1>2, <2>1, <2>2
<1>4. /\ inbox'[peer(r)] = inbox[peer(r)] \cup {out[r]} /\ inbox'[r] = inbox[r]
      /\ out'[r] = "none" /\ out'[peer(r)] = out[peer(r)]
  BY MessageArrives
<1>5. \A q \in Role, n \in Message : OnItsWay(q, n)' => OnItsWay(q, n)
  <2> SUFFICES ASSUME NEW q \in Role, NEW n \in Message, OnItsWay(q, n)'
               PROVE  OnItsWay(q, n)
    OBVIOUS
  <2>1. "none" \notin Message
    BY DEF Message
  <2>2. q = r \/ (q = peer(r) /\ peer(q) = r)
    BY <1>0, Peers
  <2> QED BY <1>4, <2>1, <2>2, Peers DEF OnItsWay
<1>6. x \in inbox["buyer"] => x \in inbox'["buyer"]
  BY <1>0, <1>4, Peers
<1>7. \A q \in Role : out'[q] \in {out[q], "none"}
  BY <1>0, <1>4, Peers
<1>8. NewMessages
  <2>1. Tracked \subseteq Message
    BY DEF Tracked, Message, Signed, Unsigned
  <2>2. \A q \in Role, n \in Tracked : OnItsWay(q, n)' => OnItsWay(q, n)
    BY <1>5, <2>1
  <2> QED BY <1>0, <1>6, <1>7, <2>2 DEF NewMessages, Tracked
<1>9. CASE out[r] # x
  <2>1. NewDeposit
    BY <1>0, <1>1, <1>7, <1>9 DEF NewDeposit
  <2> QED BY <1>3, <1>8, <2>1, Carried
<1>10. CASE out[r] = x
  <2>1. r = "seller"
    BY <1>0, <1>10 DEF TakeInv, HeldBeforeDeposit
  <2>2. x \in inbox'["buyer"] /\ out'["seller"] = "none"
    BY <1>4, <1>10, <2>1, Peers
  <2>3. Held("seller")'
    BY <1>0, <1>3, <1>10, <2>1 DEF TakeInv, HeldBeforeDeposit, Calm
  <2>4. publishing'["seller"] = "deposit" /\ draft' = draft
    BY <1>0, <1>1, <1>10 DEF SellerPublishesDepositTx, TypeOK
  <2>5. deposit' = IF draft = "complete" THEN "wallet" ELSE "incomplete"
    BY <1>1, <1>10 DEF SellerPublishesDepositTx
  <2>6. draft = "complete" => Held("buyer")'
    BY <1>0, <1>3 DEF TakeInv, HeldBeforeDeposit, Calm
  <2>7. draft # "complete" => "buyer" \in past'.stopped
    BY <1>1, <1>10, <2>1 DEF TakeInv, SignedBeforeRequest
  <2>8. NewDeposit
    BY <2>2, <2>3, <2>4, <2>5, <2>6, <2>7 DEF NewDeposit
  <2> QED BY <1>3, <1>8, <2>8, Carried
<1> QED BY <1>9, <1>10

\* The file is written
LEMMA PersistStep ==
  ASSUME TypeOK, TypeOK', TakeInv, NEW r \in Role, Persist(r)
  PROVE  TakeInv'
<1>0. "buyer" \in Role
  BY DEF Role
<1>1. /\ UNCHANGED <<maker, trade, past, signed, draft, out, publishing, watching, inbox, deposit>>
      /\ file'[r] = trade[r] /\ \A q \in Role \ {r} : file'[q] = file[q]
      /\ requested' = requested \ {r}
  BY DEF Persist, TypeOK
<1>2. ASSUME NEW q \in Role
      PROVE  /\ Empty(trade'[q]) /\ Empty(file'[q]) /\ (Held(q) => Held(q)')
             /\ trade'[q].delayed => file'[q].delayed \/ q \in requested'
  <2>1. CASE q = r
    BY <1>1, <2>1 DEF Held, TakeInv, NothingBefore
  <2>2. CASE q # r
    BY <1>1, <2>2 DEF Held, TakeInv, NothingBefore, DelayedIsStored
  <2> QED BY <2>1, <2>2
<1>3. "buyer" \notin past'.stopped =>
        (Phase(trade'["buyer"]) = 4 \/ "buyer" \in watching' => trade'["buyer"].deposit_tx)
  BY <1>1 DEF TakeInv, BuyerExpects, DEPOSIT_CONFIRMED
<1>4. Calm
  BY <1>1, <1>2, <1>3 DEF Calm, DelayedIsStored, BuyerSigned
<1> QED BY <1>0, <1>1, <1>4, QuietStep, NoneIsNotTracked

\* Who stops keeps what is in its file; who crashes with a request loses what is not
LEMMA StopStep ==
  ASSUME TypeOK, TypeOK', TakeInv, NEW r \in Role, Exit(r) \/ Crash(r)
  PROVE  TakeInv'
<1>0. "buyer" \in Role /\ "seller" \in Role /\ Role = {"buyer", "seller"}
  BY DEF Role
<1>1. StopRunning(r)
  BY DEF Exit, Crash
<1>2. /\ maker' = maker /\ deposit' = deposit /\ watching' = watching \ {r}
      /\ requested' = requested \ {r}
      /\ inbox'[r] = {} /\ out'[r] = "none" /\ publishing'[r] = "none"
      /\ \A q \in Role \ {r} : inbox'[q] = inbox[q] /\ out'[q] = out[q]
                               /\ publishing'[q] = publishing[q]
  BY <1>1 DEF StopRunning, TypeOK
<1>3. /\ r = "buyer" => draft' = draft
      /\ r = "seller" => draft' = "none" /\ signed' = signed
  BY <1>1 DEF StopRunning
<1>4. /\ past'.stopped = past.stopped \cup {r} /\ past.lost \subseteq past'.lost
      /\ file'[r] = trade'[r]
      /\ \A q \in Role \ {r} : trade'[q] = trade[q] /\ file'[q] = file[q]
      /\ past'.message = past.message
      /\ \/ trade'[r] = trade[r]
         \/ trade'[r] = file[r] /\ (r \in requested => r \in past'.lost)
  <2>1. /\ file'[r] = trade'[r]
        /\ \A q \in Role \ {r} : trade'[q] = trade[q] /\ file'[q] = file[q]
        /\ trade'[r] = trade[r] \/ (trade'[r] = file[r] /\ Crash(r))
    BY DEF Exit, Crash, TypeOK
  <2> QED BY <2>1, PastOfStop
<1>5. ASSUME NEW q \in Role
      PROVE  /\ Empty(trade'[q]) /\ Empty(file'[q]) /\ (Held(q) => Held(q)')
             /\ trade'[q].delayed => file'[q].delayed \/ q \in requested'
  <2>1. CASE q = r
    BY <1>2, <1>4, <2>1 DEF Held, TakeInv, NothingBefore
  <2>2. CASE q # r
    BY <1>2, <1>4, <2>2 DEF Held, TakeInv, NothingBefore, DelayedIsStored
  <2> QED BY <2>1, <2>2
<1>6. BuyerSigned => BuyerSigned'
  BY <1>0, <1>2, <1>3, <1>4 DEF BuyerSigned
<1>7. ASSUME "buyer" \notin past'.stopped
      PROVE  /\ trade["buyer"].deposit_tx => trade'["buyer"].deposit_tx
             /\ Phase(trade["buyer"]) >= 2 => Phase(trade'["buyer"]) >= 2
             /\ Phase(trade'["buyer"]) = 4 \/ "buyer" \in watching' => trade'["buyer"].deposit_tx
  <2>1. r # "buyer" /\ trade'["buyer"] = trade["buyer"] /\ "buyer" \notin past.stopped
    BY <1>0, <1>4, <1>7
  <2> QED BY <1>2, <2>1 DEF TakeInv, BuyerExpects, DEPOSIT_CONFIRMED
<1>8. Calm
  BY <1>2, <1>4, <1>5, <1>6, <1>7 DEF Calm, DelayedIsStored
<1>9. \A q \in Role : inbox'[q] \subseteq inbox[q]
  BY <1>2
<1>10. "DepositTxAndDelayedPayoutTx" \in inbox["buyer"]
         => "DepositTxAndDelayedPayoutTx" \in inbox'["buyer"] \/ "buyer" \in past'.stopped
  BY <1>0, <1>2, <1>4
<1>11. NewMessages
  BY <1>2, <1>9, <1>10, QuietMessages, NoneIsNotTracked
<1>12. NewDeposit
  BY <1>0, <1>2, <1>3, QuietDeposit
<1> QED BY <1>8, <1>11, <1>12, Carried
-----------------------------------------------------------------------------
(* The theorems                                                            *)

\* Before the process starts the invariant holds
LEMMA InvInit == Init => TakeInv
<1> SUFFICES ASSUME Init PROVE TakeInv
  OBVIOUS
<1>1. NothingBefore /\ DelayedIsStored
  BY NewTrades DEF Init, NothingBefore, DelayedIsStored, NoTrade
<1>2. \A r \in Role : out[r] = "none" /\ inbox[r] = {} /\ publishing[r] = "none"
  BY DEF Init
<1>3. "buyer" \in Role /\ "seller" \in Role
  BY DEF Role
<1>4. \A r \in Role, m \in Tracked : ~ OnItsWay(r, m)
  BY <1>2, Peers, NoneIsNotTracked DEF OnItsWay
<1>5. /\ ~ OnItsWay("buyer", Signed) /\ ~ OnItsWay("buyer", Unsigned)
      /\ ~ OnItsWay("buyer", "DepositTx") /\ ~ OnItsWay("buyer", "InputsForDepositTxResponse")
      /\ ~ OnItsWay("seller", "DelayedPayoutTxSignatureRequest")
      /\ ~ OnItsWay("seller", "DepositTxAndDelayedPayoutTx")
  BY <1>3, <1>4 DEF Tracked
<1>6. Phase(trade["buyer"]) = 0 /\ watching = {} /\ deposit = "none" /\ draft = "none"
  BY <1>3, Phases DEF Init, Phase, NoTrade
<1>7. HeldBeforeDeposit
  BY <1>2, <1>3, <1>5, <1>6 DEF HeldBeforeDeposit
<1>8. SignedBeforeRequest
  BY <1>2, <1>3, <1>5, <1>6 DEF SignedBeforeRequest
<1>9. BuyerExpects
  BY <1>5, <1>6 DEF BuyerExpects, DEPOSIT_CONFIRMED
<1> QED BY <1>1, <1>7, <1>8, <1>9 DEF TakeInv

\* Nothing happens
LEMMA StutterStep ==
  ASSUME TypeOK, TypeOK', TakeInv, UNCHANGED vars
  PROVE  TakeInv'
<1>1. /\ UNCHANGED <<maker, trade, file, past, requested, signed, draft, out, inbox, watching,
                     publishing, deposit>>
      /\ "buyer" \in Role
  BY DEF vars, Role
<1>2. Calm
  BY <1>1, CalmUnchanged
<1> QED BY <1>1, <1>2, QuietStep, NoneIsNotTracked

\* Every step keeps the invariant
LEMMA InvStep == TypeOK /\ TakeInv /\ [Next]_vars => TakeInv'
<1> SUFFICES ASSUME TypeOK, TakeInv, [Next]_vars PROVE TakeInv'
  OBVIOUS
<1>1. TypeOK'
  BY TypeStep
<1>2. CASE UNCHANGED vars
  BY <1>1, <1>2, StutterStep
<1>3. CASE Next
  <2>1. CASE on_take_offer \/ handle_take_offer_request \/ handle_inputs_for_deposit_tx_response
             \/ FeePublished \/ handle_deposit_tx_message
             \/ handle_delayed_payout_tx_signature_request
    BY <1>1, <2>1, TakeOfferStep, TakeOfferRequestStep, InputsResponseStep, FeePublishedStep,
       DepositTxStep, SignatureRequestStep
  <2>2. CASE DepositPublished \/ handle_deposit_tx_and_delayed_payout_tx_message
             \/ handle_share_buyer_payment_account_message
             \/ SawDepositTx \/ TxReachesNetwork \/ TxIsConfirmed
    BY <1>1, <2>2, DepositPublishedStep, DepositMessageStep, ShareStep, SawDepositTxStep,
       NetworkStep
  <2>3. ASSUME NEW r \in Role,
               \/ BroadcastFails(r) \/ set_confirmed_state(r)
               \/ on_arrived(r) \/ on_fault(r) \/ on_timeout(r)
               \/ Persist(r) \/ Exit(r) \/ Crash(r) \/ Start(r)
        PROVE  TakeInv'
    BY <1>1, <2>3, BroadcastFailsStep, ConfirmedStateStep, ArrivedStep, FaultStep, TimeoutStep,
       PersistStep, StopStep, StartStep
  <2>4. ASSUME NEW r \in Role, NEW m \in Message, handle_unexpected(r, m)
        PROVE  TakeInv'
    BY <1>1, <2>4, UnexpectedStep
  <2>5. ASSUME NEW m \in Message, handle_delayed_payout_tx_signature_response(m)
        PROVE  TakeInv'
    BY <1>1, <2>5, SignatureResponseStep
  <2> QED BY <1>3, <2>1, <2>2, <2>3, <2>4, <2>5 DEF Next
<1> QED BY <1>2, <1>3

\* The inductive invariant: along the messages of the take offer process, what each side
\* must hold, have signed or expect before the next message can be on its way
THEOREM TakeInvariant == Spec => [](TypeOK /\ TakeInv)
<1>1. Init => TypeOK /\ TakeInv
  BY TypeInit, InvInit
<1>2. TypeOK /\ TakeInv /\ [Next]_vars => (TypeOK /\ TakeInv)'
  BY TypeStep, InvStep
<1> QED BY <1>1, <1>2, PTL DEF Spec

\* The state of the take offer process is well typed whatever fails and whoever stops: no
\* role that does not run has a timer or watches the deposit tx
THEOREM TypeCorrect == Spec => []TypeOK
BY TakeInvariant, PTL

\* No coins are locked without the delayed payout tx: SellerPublishesDepositTx comes after
\* both have finalized it, and an exit or a crash takes it from nobody but who crashed
\* before its TradeManager was persisted
THEOREM DelayedPayoutIsHeld == Spec => []NoDepositWithoutDelayedPayout
<1>1. TypeOK /\ TakeInv => NoDepositWithoutDelayedPayout
  BY DEF TakeInv, HeldBeforeDeposit, Held, NoDepositWithoutDelayedPayout
<1> QED BY <1>1, TakeInvariant, PTL

\* A buyer who sees the deposit paid has signed it: only a buyer that was stopped answers
\* DelayedPayoutTxSignatureRequest with the prepared tx it has not signed
THEOREM SignedDepositIsSeen == Spec => []BuyerSeesSignedDeposit
<1>1. TypeOK /\ TakeInv => BuyerSeesSignedDeposit
  BY DEF TakeInv, SignedBeforeRequest, BuyerSeesSignedDeposit
<1> QED BY <1>1, TakeInvariant, PTL

\* The deposit tx is published after the buyer got it with its message, and the buyer, if
\* it was not stopped, does not drop that message as an unexpected one
THEOREM DeliveredBeforePublished == Spec => []PublishedAfterDelivery
<1>1. TypeOK /\ TakeInv => PublishedAfterDelivery
  <2> SUFFICES ASSUME TypeOK, TakeInv PROVE PublishedAfterDelivery
    OBVIOUS
  <2>1. trade.buyer = trade["buyer"] /\ inbox.buyer = inbox["buyer"]
    BY DEF TypeOK, Role
  <2> QED BY <2>1 DEF TakeInv, BuyerExpects, PublishedAfterDelivery, Got
<1> QED BY <1>1, TakeInvariant, PTL
=============================================================================
