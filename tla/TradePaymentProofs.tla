-------------------------- MODULE TradePaymentProofs --------------------------
(* Theorems about TradePayment, for any number of resends, clicks, failures, *)
(* exits and crashes.                                                        *)
EXTENDS TradePayment, TLAPS

-----------------------------------------------------------------------------
(* The inductive invariant                                                 *)

\* Whatever says that the payment was started comes from the buyer's click
StartedFirst ==
  \/ \E r \in Role : Phase(trade[r].state) >= FIAT_SENT \/ Phase(file[r].state) >= FIAT_SENT
  \/ task.sending # "no" \/ task.timer
  \/ "CounterCurrencyTransferStarted" \in inbox["seller"]
  \/ seen.received > 0
  => seen.started

\* Whatever has to do with the payout tx comes after a click of the seller
ReceivedFirst ==
  \/ chain \/ wallet # {} \/ \E r \in Role : trade[r].payout_tx \/ file[r].payout_tx
  \/ payout.broadcast = "pending" \/ "PayoutTxPublished" \in inbox["buyer"]
  => seen.received > 0

\* Every message of the seller that is sent or to be sent has a click of its own
Pending == IF payout.broadcast = "pending" THEN 1 ELSE 0
SendsCounted == payout.sending + payout.written + Pending <= seen.received

\* While the seller broadcasts the payout tx or tells the buyer of it, it holds it
SellerHoldsTx ==
  payout.broadcast = "pending" \/ payout.sending > 0 \/ payout.written > 0
    => trade["seller"].payout_tx /\ "seller" \in wallet

PaymentInv == StartedFirst /\ ReceivedFirst /\ SendsCounted /\ SellerHoldsTx /\ PublishedHoldsTx

-----------------------------------------------------------------------------
(* States and phases                                                       *)

\* The states, by their number in the enum
LEMMA StatesByNumber ==
  /\ DOMAIN TradeStateOrder = 1 .. 14
  /\ TradeStateOrder[1] = "SELLER_PUBLISHED_DEPOSIT_TX"
  /\ TradeStateOrder[2] = "BUYER_RECEIVED_DEPOSIT_TX_PUBLISHED_MSG"
  /\ TradeStateOrder[3] = "DEPOSIT_CONFIRMED_IN_BLOCK_CHAIN"
  /\ TradeStateOrder[4] = "BUYER_CONFIRMED_IN_UI_FIAT_PAYMENT_INITIATED"
  /\ TradeStateOrder[5] = "BUYER_SENT_FIAT_PAYMENT_INITIATED_MSG"
  /\ TradeStateOrder[6] = "BUYER_SEND_FAILED_FIAT_PAYMENT_INITIATED_MSG"
  /\ TradeStateOrder[7] = "SELLER_RECEIVED_FIAT_PAYMENT_INITIATED_MSG"
  /\ TradeStateOrder[8] = "SELLER_CONFIRMED_IN_UI_FIAT_PAYMENT_RECEIPT"
  /\ TradeStateOrder[9] = "SELLER_PUBLISHED_PAYOUT_TX"
  /\ TradeStateOrder[10] = "SELLER_SENT_PAYOUT_TX_PUBLISHED_MSG"
  /\ TradeStateOrder[11] = "SELLER_SAW_ARRIVED_PAYOUT_TX_PUBLISHED_MSG"
  /\ TradeStateOrder[12] = "SELLER_SEND_FAILED_PAYOUT_TX_PUBLISHED_MSG"
  /\ TradeStateOrder[13] = "BUYER_RECEIVED_PAYOUT_TX_PUBLISHED_MSG"
  /\ TradeStateOrder[14] = "BUYER_SAW_PAYOUT_TX_IN_NETWORK"
BY DEF TradeStateOrder

\* No state has two numbers
LEMMA NumbersDiffer ==
  \A i, j \in 1 .. 14 : TradeStateOrder[i] = TradeStateOrder[j] => i = j
BY StatesByNumber, SMTT(60)

\* Ordinal finds the number of a state
LEMMA OrdinalOf ==
  ASSUME NEW i \in 1 .. 14
  PROVE  Ordinal(TradeStateOrder[i]) = i /\ TradeStateOrder[i] \in TradeState
<1> DEFINE s == TradeStateOrder[i]
<1>1. DOMAIN TradeStateOrder = 1 .. 14
  BY StatesByNumber
<1>2. \A j \in DOMAIN TradeStateOrder : TradeStateOrder[j] = s <=> j = i
  BY <1>1, NumbersDiffer
<1>3. Ordinal(s) \in DOMAIN TradeStateOrder /\ TradeStateOrder[Ordinal(s)] = s
  BY <1>1, <1>2 DEF Ordinal
<1>4. Ordinal(s) = i
  BY <1>2, <1>3
<1> QED BY <1>1, <1>4 DEF TradeState

\* The ordinals of the states the code compares, and what a state can be
LEMMA Ordinals ==
  /\ Ordinal("SELLER_PUBLISHED_DEPOSIT_TX") = 1
  /\ Ordinal("BUYER_RECEIVED_DEPOSIT_TX_PUBLISHED_MSG") = 2
  /\ Ordinal("DEPOSIT_CONFIRMED_IN_BLOCK_CHAIN") = 3
  /\ Ordinal("BUYER_CONFIRMED_IN_UI_FIAT_PAYMENT_INITIATED") = 4
  /\ Ordinal("BUYER_SENT_FIAT_PAYMENT_INITIATED_MSG") = 5
  /\ Ordinal("BUYER_SEND_FAILED_FIAT_PAYMENT_INITIATED_MSG") = 6
  /\ Ordinal("SELLER_RECEIVED_FIAT_PAYMENT_INITIATED_MSG") = 7
  /\ Ordinal("SELLER_CONFIRMED_IN_UI_FIAT_PAYMENT_RECEIPT") = 8
  /\ Ordinal("SELLER_SENT_PAYOUT_TX_PUBLISHED_MSG") = 10
  /\ Ordinal("SELLER_SAW_ARRIVED_PAYOUT_TX_PUBLISHED_MSG") = 11
  /\ Ordinal("SELLER_SEND_FAILED_PAYOUT_TX_PUBLISHED_MSG") = 12
  /\ Ordinal("BUYER_RECEIVED_PAYOUT_TX_PUBLISHED_MSG") = 13
  /\ Ordinal("BUYER_SAW_PAYOUT_TX_IN_NETWORK") = 14
  /\ \A s \in TradeState : Ordinal(s) \in 1 .. 14
<1>1. \A i \in 1 .. 14 : Ordinal(TradeStateOrder[i]) = i
  BY OrdinalOf
<1>2. \A s \in TradeState : Ordinal(s) \in 1 .. 14
  BY <1>1, StatesByNumber DEF TradeState
<1> QED BY <1>1, <1>2, StatesByNumber

\* The states the code sets are states
LEMMA States ==
  {"SELLER_PUBLISHED_DEPOSIT_TX", "BUYER_RECEIVED_DEPOSIT_TX_PUBLISHED_MSG",
   "DEPOSIT_CONFIRMED_IN_BLOCK_CHAIN", "BUYER_CONFIRMED_IN_UI_FIAT_PAYMENT_INITIATED",
   "BUYER_SENT_FIAT_PAYMENT_INITIATED_MSG", "BUYER_SEND_FAILED_FIAT_PAYMENT_INITIATED_MSG",
   "SELLER_RECEIVED_FIAT_PAYMENT_INITIATED_MSG", "SELLER_CONFIRMED_IN_UI_FIAT_PAYMENT_RECEIPT",
   "SELLER_SENT_PAYOUT_TX_PUBLISHED_MSG", "SELLER_SAW_ARRIVED_PAYOUT_TX_PUBLISHED_MSG",
   "SELLER_SEND_FAILED_PAYOUT_TX_PUBLISHED_MSG", "BUYER_RECEIVED_PAYOUT_TX_PUBLISHED_MSG",
   "BUYER_SAW_PAYOUT_TX_IN_NETWORK"} \subseteq TradeState
<1>1. \A i \in 1 .. 14 : TradeStateOrder[i] \in TradeState
  BY OrdinalOf
<1> QED BY <1>1, StatesByNumber

\* The phase of a state by its ordinal
LEMMA PhaseByOrdinal ==
  ASSUME NEW s
  PROVE  /\ Ordinal(s) \in 1 .. 2 => Phase(s) = 2
         /\ Ordinal(s) = 3 => Phase(s) = 3
         /\ Ordinal(s) \in 4 .. 7 => Phase(s) = 4
         /\ Ordinal(s) = 8 => Phase(s) = 5
         /\ Ordinal(s) \in 9 .. 14 => Phase(s) = 6
BY DEF Phase, DEPOSIT_PUBLISHED, DEPOSIT_CONFIRMED, FIAT_SENT, FIAT_RECEIVED, PAYOUT_PUBLISHED

\* The phases of the states the code sets, and of any state
LEMMA Phases ==
  /\ Phase("SELLER_PUBLISHED_DEPOSIT_TX") = 2
  /\ Phase("BUYER_RECEIVED_DEPOSIT_TX_PUBLISHED_MSG") = 2
  /\ Phase("DEPOSIT_CONFIRMED_IN_BLOCK_CHAIN") = 3
  /\ Phase("BUYER_CONFIRMED_IN_UI_FIAT_PAYMENT_INITIATED") = 4
  /\ Phase("BUYER_SENT_FIAT_PAYMENT_INITIATED_MSG") = 4
  /\ Phase("BUYER_SEND_FAILED_FIAT_PAYMENT_INITIATED_MSG") = 4
  /\ Phase("SELLER_RECEIVED_FIAT_PAYMENT_INITIATED_MSG") = 4
  /\ Phase("SELLER_CONFIRMED_IN_UI_FIAT_PAYMENT_RECEIPT") = 5
  /\ Phase("SELLER_SENT_PAYOUT_TX_PUBLISHED_MSG") = 6
  /\ Phase("SELLER_SAW_ARRIVED_PAYOUT_TX_PUBLISHED_MSG") = 6
  /\ Phase("SELLER_SEND_FAILED_PAYOUT_TX_PUBLISHED_MSG") = 6
  /\ Phase("BUYER_RECEIVED_PAYOUT_TX_PUBLISHED_MSG") = 6
  /\ Phase("BUYER_SAW_PAYOUT_TX_IN_NETWORK") = 6
  /\ \A s \in TradeState :
       /\ Phase(s) \in 2 .. 6
       /\ Ordinal(s) < 5 => Phase(s) <= 4
       /\ Ordinal(s) >= 5 => Phase(s) >= 4
<1>1. \A s \in TradeState :
        /\ Phase(s) \in 2 .. 6
        /\ Ordinal(s) < 5 => Phase(s) <= 4
        /\ Ordinal(s) >= 5 => Phase(s) >= 4
  <2> SUFFICES ASSUME NEW s \in TradeState
               PROVE  /\ Phase(s) \in 2 .. 6
                      /\ Ordinal(s) < 5 => Phase(s) <= 4
                      /\ Ordinal(s) >= 5 => Phase(s) >= 4
    OBVIOUS
  <2>1. Ordinal(s) \in 1 .. 14
    BY Ordinals
  <2> QED BY <2>1, PhaseByOrdinal
<1> QED BY <1>1, Ordinals, PhaseByOrdinal
-----------------------------------------------------------------------------
(* What the operators return                                               *)

\* set_state_if_valid_transition_to never goes back to an earlier phase
LEMMA ValidTransition ==
  ASSUME NEW t \in TradeModel, NEW new \in TradeState
  PROVE  LET u == set_state_if_valid_transition_to(t, new)
         IN  /\ u \in TradeModel /\ u.payout_tx = t.payout_tx
             /\ Phase(u.state) >= Phase(t.state)
             /\ u.state \in {t.state, new}
<1>1. t.state \in TradeState /\ Phase(t.state) \in 2 .. 6 /\ Phase(new) \in 2 .. 6
  BY Phases DEF TradeModel
<1>2. CASE Phase(new) >= Phase(t.state)
  <2> DEFINE u == [t EXCEPT !.state = new]
  <2>1. u \in TradeModel /\ u.payout_tx = t.payout_tx /\ u.state = new
    BY DEF TradeModel
  <2>2. set_state_if_valid_transition_to(t, new) = u
    BY <1>2 DEF set_state_if_valid_transition_to
  <2> QED BY <1>2, <2>1, <2>2
<1>3. CASE ~ (Phase(new) >= Phase(t.state))
  BY <1>1, <1>3 DEF set_state_if_valid_transition_to
<1> QED BY <1>2, <1>3

\* set_state_sent leaves the trade in FIAT_SENT or where it was
LEMMA StateSent ==
  ASSUME NEW t \in TradeModel
  PROVE  LET u == set_state_sent(t)
         IN  /\ u \in TradeModel /\ u.payout_tx = t.payout_tx
             /\ Phase(u.state) >= Phase(t.state) /\ Phase(u.state) >= 4
             /\ Phase(u.state) = 6 => Phase(t.state) = 6
<1>1. t.state \in TradeState /\ Ordinal(t.state) \in 1 .. 14 /\ Phase(t.state) \in 2 .. 6
  BY Phases, Ordinals DEF TradeModel
<1>2. CASE Ordinal(t.state) < 5
  <2> DEFINE u == [t EXCEPT !.state = "BUYER_SENT_FIAT_PAYMENT_INITIATED_MSG"]
  <2>1. u \in TradeModel /\ u.payout_tx = t.payout_tx
        /\ u.state = "BUYER_SENT_FIAT_PAYMENT_INITIATED_MSG"
    BY States DEF TradeModel
  <2>2. Phase(t.state) <= 4 /\ Phase(u.state) = 4
    BY <1>1, <1>2, <2>1, Phases
  <2>3. set_state_sent(t) = u
    BY <1>1, <1>2, <2>2, Ordinals, Phases DEF set_state_sent, set_state_if_valid_transition_to
  <2> HIDE DEF u
  <2> QED BY <1>1, <2>1, <2>2, <2>3
<1>3. CASE ~ (Ordinal(t.state) < 5)
  <2>1. set_state_sent(t) = t
    BY <1>3, Ordinals DEF set_state_sent
  <2>2. Phase(t.state) >= 4
    BY <1>1, <1>3, Phases
  <2> QED BY <1>1, <2>1, <2>2
<1> QED BY <1>2, <1>3

\* _apply_confidence leaves the buyer with the payout tx
LEMMA ConfidenceApplied ==
  ASSUME NEW t \in TradeModel
  PROVE  LET u == apply_confidence(t)
         IN  u \in TradeModel /\ u.payout_tx /\ Phase(u.state) >= Phase(t.state)
<1>1. CASE t.payout_tx
  BY <1>1, Phases DEF apply_confidence, TradeModel
<1>2. CASE ~ t.payout_tx
  <2> DEFINE v == set_state_if_valid_transition_to(t, "BUYER_SAW_PAYOUT_TX_IN_NETWORK")
             u == [v EXCEPT !.payout_tx = TRUE]
  <2>1. v \in TradeModel /\ Phase(v.state) >= Phase(t.state)
    BY States, ValidTransition
  <2>2. apply_confidence(t) = u
    BY <1>2 DEF apply_confidence
  <2> HIDE DEF v
  <2>3. u \in TradeModel /\ u.payout_tx /\ u.state = v.state
    BY <2>1 DEF TradeModel
  <2> HIDE DEF u
  <2> QED BY <2>1, <2>2, <2>3
<1> QED BY <1>1, <1>2

\* The task of the buyer
TaskModel == [sending : {"no", "sending", "written"}, timer : BOOLEAN,
              resend_counter : 0 .. MaxResends]

\* The bounds are numbers
LEMMA Bounds ==
  /\ MaxResends \in Nat /\ MaxClicks \in Nat /\ MaxFailures \in Nat
  /\ MaxExits \in Nat /\ MaxCrashes \in Nat
BY PaymentAssumption

\* _try_to_send_again_later counts no further than MAX_RESEND_ATTEMPTS
LEMMA TriesAgain ==
  ASSUME NEW k \in TaskModel
  PROVE  try_to_send_again_later(k) \in TaskModel
<1>1. k.resend_counter \in 0 .. MaxResends
  BY DEF TaskModel
<1>2. CASE k.resend_counter >= MaxResends
  BY <1>2 DEF try_to_send_again_later, TaskModel
<1>3. CASE ~ (k.resend_counter >= MaxResends)
  <2>1. k.resend_counter + 1 \in 0 .. MaxResends
    BY <1>1, <1>3, Bounds
  <2> QED BY <1>3, <2>1 DEF try_to_send_again_later, TaskModel
<1> QED BY <1>2, <1>3

\* What counts the failures
Counters == [failures : 0 .. MaxFailures, exits : 0 .. MaxExits, crashes : 0 .. MaxCrashes]

\* A failure is counted within its bound
LEMMA FailCounted ==
  ASSUME TypeOK, Fail
  PROVE  used' \in Counters
<1>1. used \in Counters /\ used.failures < MaxFailures
  BY DEF TypeOK, Fail, Counters
<1>2. used.failures \in 0 .. MaxFailures
  BY <1>1 DEF Counters
<1>3. used.failures + 1 \in 0 .. MaxFailures
  BY <1>1, <1>2, Bounds
<1> QED BY <1>1, <1>3 DEF Fail, Counters

\* run of the buyer's task: the trade does not go back, and is in FIAT_SENT at least
LEMMA SendTaskRuns ==
  ASSUME TypeOK, NEW t \in TradeModel, RunSendTask(t)
  PROVE  /\ \E u \in TradeModel :
              /\ trade' = [trade EXCEPT !["buyer"] = u]
              /\ u.payout_tx = t.payout_tx
              /\ Phase(u.state) >= Phase(t.state) /\ Phase(u.state) >= 4
              /\ Phase(u.state) = 6 => Phase(t.state) = 6
         /\ task' \in TaskModel /\ used' \in Counters
<1> DEFINE v == set_state_sent(t)
           w == set_state_if_valid_transition_to(v, "BUYER_SEND_FAILED_FIAT_PAYMENT_INITIATED_MSG")
<1>1. /\ v \in TradeModel /\ v.payout_tx = t.payout_tx
      /\ Phase(v.state) >= Phase(t.state) /\ Phase(v.state) >= 4
      /\ Phase(v.state) = 6 => Phase(t.state) = 6
  BY StateSent
<1>2. task \in TaskModel /\ used \in Counters
  BY DEF TypeOK, TaskModel, Counters
<1>3. \/ /\ trade' = [trade EXCEPT !["buyer"] = v]
         /\ task' = [task EXCEPT !.sending = "sending", !.timer = FALSE] /\ used' = used
      \/ /\ Fail /\ trade' = [trade EXCEPT !["buyer"] = w]
         /\ \E k \in {task, try_to_send_again_later(task)} : task' = [k EXCEPT !.timer = FALSE]
  BY DEF RunSendTask
<1> HIDE DEF v
<1>4. /\ w \in TradeModel /\ w.payout_tx = v.payout_tx /\ Phase(w.state) >= Phase(v.state)
      /\ w.state \in {v.state, "BUYER_SEND_FAILED_FIAT_PAYMENT_INITIATED_MSG"}
  BY <1>1, States, ValidTransition
<1> HIDE DEF w
<1>5. task' \in TaskModel /\ used' \in Counters
  BY <1>2, <1>3, TriesAgain, FailCounted DEF TaskModel
<1>6. Phase(t.state) \in 2 .. 6 /\ Phase(v.state) \in 2 .. 6 /\ Phase(w.state) \in 2 .. 6
  BY <1>1, <1>4, Phases DEF TradeModel
<1>7. Phase(w.state) = 6 => Phase(t.state) = 6
  BY <1>1, <1>4, Phases
<1>8. Phase(w.state) >= Phase(t.state) /\ Phase(w.state) >= 4
  BY <1>1, <1>4, <1>6
<1> QED BY <1>1, <1>3, <1>4, <1>5, <1>7, <1>8
-----------------------------------------------------------------------------
(* What a step keeps                                                       *)

\* The two sides, and the parts of the state
LEMMA Sides ==
  ASSUME TypeOK
  PROVE  /\ Role = {"buyer", "seller"} /\ "buyer" \in Role /\ "seller" \in Role
         /\ trade["buyer"] \in TradeModel /\ trade["seller"] \in TradeModel
         /\ trade.buyer = trade["buyer"] /\ trade.seller = trade["seller"]
         /\ inbox.buyer = inbox["buyer"] /\ inbox.seller = inbox["seller"]
         /\ task \in TaskModel /\ used \in Counters
BY DEF TypeOK, Role, TaskModel, Counters

\* A step that adds nothing that the buyer's click comes before
LEMMA StartedKept ==
  ASSUME PaymentInv,
         seen.started => seen'.started,
         \A r \in Role :
           /\ Phase(trade'[r].state) >= 4
                => Phase(trade[r].state) >= 4 \/ Phase(file[r].state) >= 4
           /\ Phase(file'[r].state) >= 4
                => Phase(trade[r].state) >= 4 \/ Phase(file[r].state) >= 4,
         task'.sending # "no" \/ task'.timer => task.sending # "no" \/ task.timer,
         "CounterCurrencyTransferStarted" \in inbox'["seller"]
           => "CounterCurrencyTransferStarted" \in inbox["seller"],
         seen'.received > 0 => seen.received > 0
  PROVE  StartedFirst'
BY DEF PaymentInv, StartedFirst, FIAT_SENT

\* A step that adds nothing that the seller's click comes before
LEMMA ReceivedKept ==
  ASSUME PaymentInv,
         seen'.received = seen.received,
         chain' => chain, wallet' # {} => wallet # {},
         \A r \in Role :
           /\ trade'[r].payout_tx => trade[r].payout_tx \/ file[r].payout_tx
           /\ file'[r].payout_tx => trade[r].payout_tx \/ file[r].payout_tx,
         payout'.broadcast = "pending" => payout.broadcast = "pending",
         "PayoutTxPublished" \in inbox'["buyer"] => "PayoutTxPublished" \in inbox["buyer"]
  PROVE  ReceivedFirst'
BY DEF PaymentInv, ReceivedFirst

\* A step that changes neither a trade nor a file, a wallet or the clicks, and whose messages
\* come from what was being sent
LEMMA MessagesOnly ==
  ASSUME TypeOK, TypeOK', PaymentInv, UNCHANGED <<trade, file, wallet, chain, seen>>,
         task'.sending # "no" \/ task'.timer => seen.started,
         "CounterCurrencyTransferStarted" \in inbox'["seller"] => seen.started,
         "PayoutTxPublished" \in inbox'["buyer"] => seen.received > 0,
         payout'.broadcast = "pending" => payout.broadcast = "pending",
         payout'.sending + payout'.written <= payout.sending + payout.written
  PROVE  PaymentInv'
<1>1. StartedFirst'
  BY DEF PaymentInv, StartedFirst
<1>2. ReceivedFirst'
  BY DEF PaymentInv, ReceivedFirst
<1>3. /\ payout.sending \in Nat /\ payout.written \in Nat /\ seen.received \in Nat
      /\ payout'.sending \in Nat /\ payout'.written \in Nat
  <2>1. payout.sending \in 0 .. MaxClicks /\ payout.written \in 0 .. MaxClicks
        /\ seen.received \in 0 .. MaxClicks
    BY DEF TypeOK
  <2>2. payout'.sending \in 0 .. MaxClicks /\ payout'.written \in 0 .. MaxClicks
    BY DEF TypeOK
  <2> QED BY <2>1, <2>2, Bounds
<1>4. SendsCounted'
  BY <1>3 DEF PaymentInv, SendsCounted, Pending
<1>5. SellerHoldsTx'
  BY <1>3 DEF PaymentInv, SellerHoldsTx
<1>6. PublishedHoldsTx'
  BY DEF PaymentInv, PublishedHoldsTx
<1> QED BY <1>1, <1>2, <1>4, <1>5, <1>6 DEF PaymentInv

\* The buyer's trade becomes u
LEMMA BuyerMoves ==
  ASSUME TypeOK, TypeOK', PaymentInv, NEW u \in TradeModel,
         trade' = [trade EXCEPT !["buyer"] = u], UNCHANGED <<file, chain, payout>>,
         seen'.received = seen.received, seen'.started, wallet \subseteq wallet',
         wallet' # wallet \/ (u.payout_tx /\ ~ trade["buyer"].payout_tx) => seen.received > 0,
         Phase(u.state) = 6 => u.payout_tx /\ "buyer" \in wallet',
         "PayoutTxPublished" \in inbox'["buyer"] => "PayoutTxPublished" \in inbox["buyer"]
  PROVE  PaymentInv'
<1>0. trade'["buyer"] = u /\ trade'["seller"] = trade["seller"]
  BY Sides DEF TypeOK
<1>1. StartedFirst'
  BY DEF StartedFirst
<1>2. ReceivedFirst'
  <2>1. CASE seen.received > 0
    BY <2>1 DEF ReceivedFirst
  <2>2. CASE ~ (seen.received > 0)
    <3>1. wallet' = wallet /\ (u.payout_tx => trade["buyer"].payout_tx)
      BY <2>2
    <3>2. \A r \in Role : /\ trade'[r].payout_tx => trade[r].payout_tx
                          /\ file'[r].payout_tx => file[r].payout_tx
      BY <1>0, <3>1, Sides
    <3> QED BY <3>1, <3>2, ReceivedKept
  <2> QED BY <2>1, <2>2
<1>3. SendsCounted'
  BY DEF PaymentInv, SendsCounted, Pending
<1>4. SellerHoldsTx'
  BY <1>0 DEF PaymentInv, SellerHoldsTx
<1>5. PublishedHoldsTx'
  <2> SUFFICES ASSUME NEW r \in Role
               PROVE  /\ is_payout_published(trade'[r]) => trade'[r].payout_tx /\ r \in wallet'
                      /\ is_payout_published(file'[r]) => file'[r].payout_tx /\ r \in wallet'
    BY DEF PublishedHoldsTx, is_payout_published
  <2>1. /\ is_payout_published(trade[r]) => trade[r].payout_tx /\ r \in wallet
        /\ is_payout_published(file[r]) => file[r].payout_tx /\ r \in wallet
    BY DEF PaymentInv, PublishedHoldsTx
  <2>2. Phase(u.state) \in 2 .. 6
    BY Phases DEF TradeModel
  <2>3. is_payout_published(u) => Phase(u.state) = 6
    BY <2>2 DEF is_payout_published, PAYOUT_PUBLISHED
  <2> QED BY <1>0, <2>1, <2>3, Sides
<1> QED BY <1>1, <1>2, <1>3, <1>4, <1>5 DEF PaymentInv
-----------------------------------------------------------------------------
(* The buyer's steps                                                       *)

\* The deposit tx is confirmed
LEMMA ConfirmedStep ==
  ASSUME TypeOK, PaymentInv, NEW r \in Role, set_confirmed_state(r)
  PROVE  TypeOK' /\ PaymentInv'
<1> DEFINE u == [trade[r] EXCEPT !.state = "DEPOSIT_CONFIRMED_IN_BLOCK_CHAIN"]
<1>0. trade[r] \in TradeModel
  BY DEF TypeOK
<1>1. u \in TradeModel /\ u.payout_tx = trade[r].payout_tx
      /\ u.state = "DEPOSIT_CONFIRMED_IN_BLOCK_CHAIN"
  BY <1>0, States DEF TradeModel
<1>2. trade' = [trade EXCEPT ![r] = u]
  BY <1>0 DEF set_confirmed_state, TypeOK
<1> HIDE DEF u
<1>3. UNCHANGED <<file, requested, running, task, listening, payout, inbox, wallet, chain,
                  seen, used>>
  BY DEF set_confirmed_state
<1>4. TypeOK'
  BY <1>1, <1>2, <1>3 DEF TypeOK
<1>5. trade'[r] = u /\ \A q \in Role \ {r} : trade'[q] = trade[q]
  BY <1>2 DEF TypeOK
<1>6. \A q \in Role : trade'[q].payout_tx = trade[q].payout_tx
  BY <1>1, <1>5
<1>7. Phase(u.state) = 3
  BY <1>1, Phases
<1>8. StartedFirst'
  <2>1. \A q \in Role : Phase(trade'[q].state) >= 4 => Phase(trade[q].state) >= 4
    BY <1>5, <1>7
  <2> QED BY <1>3, <2>1, StartedKept
<1>9. ReceivedFirst'
  BY <1>3, <1>6, ReceivedKept
<1>10. SendsCounted' /\ SellerHoldsTx'
  BY <1>3, <1>6, Sides DEF PaymentInv, SendsCounted, Pending, SellerHoldsTx
<1>11. PublishedHoldsTx'
  <2>1. ~ is_payout_published(u)
    BY <1>7 DEF is_payout_published, PAYOUT_PUBLISHED
  <2> QED BY <1>3, <1>5, <2>1 DEF PaymentInv, PublishedHoldsTx
<1> QED BY <1>4, <1>8, <1>9, <1>10, <1>11 DEF PaymentInv

\* The task writes its message, or is told of its fate
LEMMA SendTaskStep ==
  ASSUME TypeOK, PaymentInv, WriteToSeller \/ on_arrived \/ on_failure
  PROVE  TypeOK' /\ PaymentInv'
<1>0. task \in TaskModel
  BY Sides
<1>1. /\ UNCHANGED <<trade, file, payout, wallet, chain, seen, requested, running, listening>>
      /\ task.sending # "no"
  BY DEF WriteToSeller, on_arrived, on_failure
<1>2. task' \in TaskModel
  <2>1. /\ [task EXCEPT !.sending = "no"] \in TaskModel
        /\ [task EXCEPT !.sending = "written"] \in TaskModel
    BY <1>0 DEF TaskModel
  <2> QED BY <2>1, TriesAgain DEF WriteToSeller, on_arrived, on_failure
<1>3. used' \in Counters
  BY Sides, FailCounted DEF WriteToSeller, on_arrived, on_failure
<1>4. inbox' \in [Role -> SUBSET Message] /\ inbox'["buyer"] = inbox["buyer"]
  <2>1. \/ inbox' = inbox
        \/ inbox' = [inbox EXCEPT !["seller"] = inbox["seller"]
                                               \cup {"CounterCurrencyTransferStarted"}]
    BY Sides DEF WriteToSeller, on_arrived, on_failure
  <2>2. "CounterCurrencyTransferStarted" \in Message
    BY DEF Message
  <2>3. inbox \in [Role -> SUBSET Message]
    BY DEF TypeOK
  <2> QED BY <2>1, <2>2, <2>3, Sides
<1>5. TypeOK'
  BY <1>1, <1>2, <1>3, <1>4 DEF TypeOK, TaskModel, Counters
<1>6. seen.started
  BY <1>1 DEF PaymentInv, StartedFirst
<1>7. "PayoutTxPublished" \in inbox'["buyer"] => seen.received > 0
  BY <1>4 DEF PaymentInv, ReceivedFirst
<1>8. payout'.sending + payout'.written <= payout.sending + payout.written
  <2>1. payout.sending \in 0 .. MaxClicks /\ payout.written \in 0 .. MaxClicks
    BY DEF TypeOK
  <2> QED BY <1>1, <2>1, Bounds
<1> QED BY <1>1, <1>5, <1>6, <1>7, <1>8, MessagesOnly

\* The buyer's task is run again
LEMMA ResendStep ==
  ASSUME TypeOK, PaymentInv, ResendTimer
  PROVE  TypeOK' /\ PaymentInv'
<1>1. RunSendTask(trade["buyer"]) /\ task.timer
      /\ UNCHANGED <<file, running, listening, payout, inbox, wallet, chain, seen>>
      /\ requested' = requested \cup {"buyer"}
  BY Sides DEF ResendTimer, request_persistence
<1>2. PICK u \in TradeModel :
        /\ trade' = [trade EXCEPT !["buyer"] = u]
        /\ u.payout_tx = trade["buyer"].payout_tx
        /\ Phase(u.state) = 6 => Phase(trade["buyer"].state) = 6
  BY <1>1, Sides, SendTaskRuns
<1>3. task' \in TaskModel /\ used' \in Counters
  BY <1>1, Sides, SendTaskRuns
<1>4. TypeOK'
  BY <1>1, <1>2, <1>3, Sides DEF TypeOK, TaskModel, Counters
<1>5. seen.started
  BY <1>1 DEF PaymentInv, StartedFirst
<1>6. Phase(u.state) = 6 => u.payout_tx /\ "buyer" \in wallet
  BY <1>2, Sides DEF PaymentInv, PublishedHoldsTx, is_payout_published, PAYOUT_PUBLISHED
<1> QED BY <1>1, <1>2, <1>4, <1>5, <1>6, BuyerMoves

\* SetupPayoutTxListener and what follows: the wallet has the payout tx only if the network
\* has it
LEMMA ListenerSetUp ==
  ASSUME TypeOK, PaymentInv, NEW known \in BOOLEAN, NEW t \in TradeModel,
         SetupPayoutTxListener(known),
         t.payout_tx = trade["buyer"].payout_tx,
         Phase(t.state) # 6
  PROVE  LET v == WithListener(t, known)
         IN  /\ v \in TradeModel
             /\ Phase(v.state) >= Phase(t.state)
             /\ v.payout_tx /\ ~ trade["buyer"].payout_tx => seen.received > 0
             /\ Phase(v.state) = 6 => v.payout_tx /\ "buyer" \in wallet'
             /\ wallet \subseteq wallet' /\ wallet' \subseteq Role
             /\ wallet' # wallet => seen.received > 0
             /\ listening' \in Listening
<1> DEFINE v == WithListener(t, known)
<1>1. /\ wallet \subseteq wallet' /\ wallet' \subseteq Role /\ (known => "buyer" \in wallet')
      /\ (~ known => wallet' = wallet)
  BY Sides DEF SetupPayoutTxListener, TypeOK
<1>2. known => seen.received > 0
  BY DEF SetupPayoutTxListener, PaymentInv, ReceivedFirst
<1>3. listening' \in Listening
  BY DEF SetupPayoutTxListener, TypeOK, Listening
<1>4. CASE known
  <2>1. v \in TradeModel /\ v.payout_tx /\ Phase(v.state) >= Phase(t.state)
    BY <1>4, ConfidenceApplied DEF WithListener
  <2> QED BY <1>1, <1>2, <1>3, <1>4, <2>1
<1>5. CASE ~ known
  <2>1. v = t
    BY <1>5 DEF WithListener
  <2>2. Phase(t.state) \in 2 .. 6
    BY Phases DEF TradeModel
  <2> QED BY <1>1, <1>3, <1>5, <2>1, <2>2
<1> QED BY <1>4, <1>5

\* The buyer clicks that he has paid
LEMMA PaymentStartedStep ==
  ASSUME TypeOK, PaymentInv, on_payment_started
  PROVE  TypeOK' /\ PaymentInv'
<1> DEFINE t == [trade["buyer"] EXCEPT !.state = "BUYER_CONFIRMED_IN_UI_FIAT_PAYMENT_INITIATED"]
<1>0. t \in TradeModel /\ t.payout_tx = trade["buyer"].payout_tx
      /\ t.state = "BUYER_CONFIRMED_IN_UI_FIAT_PAYMENT_INITIATED"
  BY Sides, States DEF TradeModel
<1>1. /\ UNCHANGED <<file, running, payout, inbox, chain>>
      /\ requested' = requested \cup {"buyer"}
      /\ seen' = [seen EXCEPT !.started = TRUE]
      /\ \/ \E known \in BOOLEAN :
              SetupPayoutTxListener(known) /\ RunSendTask(WithListener(t, known))
         \/ Fail /\ trade' = [trade EXCEPT !["buyer"] = t] /\ UNCHANGED <<task, listening, wallet>>
  BY Sides DEF on_payment_started, request_persistence
<1> HIDE DEF t
<1>2. /\ seen' \in [started : BOOLEAN, received : 0 .. MaxClicks]
      /\ seen'.started /\ seen'.received = seen.received
  BY <1>1 DEF TypeOK
<1>3. Phase(t.state) = 4
  BY <1>0, Phases
<1>4. CASE /\ Fail /\ trade' = [trade EXCEPT !["buyer"] = t]
           /\ UNCHANGED <<task, listening, wallet>>
  <2>1. used' \in Counters
    BY <1>4, FailCounted
  <2>2. TypeOK'
    BY <1>0, <1>1, <1>2, <1>4, <2>1, Sides DEF TypeOK, Counters
  <2>3. UNCHANGED <<file, chain, payout>> /\ wallet' = wallet /\ inbox' = inbox
    BY <1>1, <1>4
  <2>4. ~ (t.payout_tx /\ ~ trade["buyer"].payout_tx) /\ Phase(t.state) # 6
    BY <1>0, <1>3
  <2> QED BY <1>0, <1>2, <1>4, <2>2, <2>3, <2>4, BuyerMoves
<1>5. ASSUME NEW known \in BOOLEAN, SetupPayoutTxListener(known),
             RunSendTask(WithListener(t, known))
      PROVE  TypeOK' /\ PaymentInv'
  <2> DEFINE v == WithListener(t, known)
  <2>1. /\ v \in TradeModel
        /\ v.payout_tx /\ ~ trade["buyer"].payout_tx => seen.received > 0
        /\ Phase(v.state) = 6 => v.payout_tx /\ "buyer" \in wallet'
        /\ wallet \subseteq wallet' /\ wallet' \subseteq Role
        /\ wallet' # wallet => seen.received > 0
        /\ listening' \in Listening
    BY <1>0, <1>3, <1>5, ListenerSetUp
  <2>2. RunSendTask(v)
    BY <1>5
  <2> HIDE DEF v
  <2>3. PICK u \in TradeModel :
          /\ trade' = [trade EXCEPT !["buyer"] = u] /\ u.payout_tx = v.payout_tx
          /\ Phase(u.state) = 6 => Phase(v.state) = 6
    BY <2>1, <2>2, SendTaskRuns
  <2>4. task' \in TaskModel /\ used' \in Counters
    BY <2>1, <2>2, SendTaskRuns
  <2>5. TypeOK'
    BY <1>1, <1>2, <2>1, <2>3, <2>4, Sides DEF TypeOK, TaskModel, Counters
  <2> QED BY <1>1, <1>2, <2>1, <2>3, <2>5, BuyerMoves
<1> QED BY <1>1, <1>4, <1>5

\* The buyer's wallet has received the payout tx
LEMMA SawPayoutTxStep ==
  ASSUME TypeOK, PaymentInv, SawPayoutTx
  PROVE  TypeOK' /\ PaymentInv'
<1> DEFINE u == apply_confidence(trade["buyer"])
<1>1. u \in TradeModel /\ u.payout_tx
  BY Sides, ConfidenceApplied
<1>2. /\ trade' = [trade EXCEPT !["buyer"] = u] /\ chain
      /\ UNCHANGED <<file, running, task, payout, inbox, chain, seen, used>>
      /\ requested' = requested \cup {"buyer"} /\ wallet' = wallet \cup {"buyer"}
      /\ listening' = "no"
  BY Sides DEF SawPayoutTx, request_persistence, TypeOK
<1> HIDE DEF u
<1>3. TypeOK'
  BY <1>1, <1>2, Sides DEF TypeOK, Listening
<1>4. seen.received > 0 /\ seen.started
  BY <1>2 DEF PaymentInv, ReceivedFirst, StartedFirst
<1> QED BY <1>1, <1>2, <1>3, <1>4, BuyerMoves

\* The buyer gets the seller's message
LEMMA PayoutMessageStep ==
  ASSUME TypeOK, PaymentInv, handle_payout_tx_published_message
  PROVE  TypeOK' /\ PaymentInv'
<1> DEFINE u == [state |-> "BUYER_RECEIVED_PAYOUT_TX_PUBLISHED_MSG", payout_tx |-> TRUE]
<1>1. /\ UNCHANGED <<file, running, task, payout, chain, seen, used>>
      /\ "PayoutTxPublished" \in inbox["buyer"]
      /\ inbox' = [inbox EXCEPT !["buyer"] = inbox["buyer"] \ {"PayoutTxPublished"}]
      /\ requested' \in {requested, requested \cup {"buyer"}}
      /\ \/ UNCHANGED <<trade, listening, wallet>>
         \/ /\ trade' = [trade EXCEPT !["buyer"] = u] /\ listening' = "no"
            /\ wallet' = wallet \cup {"buyer"}
  BY Sides DEF handle_payout_tx_published_message, request_persistence
<1>2. inbox' \in [Role -> SUBSET Message]
      /\ "PayoutTxPublished" \notin inbox'["buyer"] /\ inbox'["seller"] = inbox["seller"]
  BY <1>1, Sides DEF TypeOK
<1>3. u \in TradeModel /\ u.payout_tx
  BY States DEF TradeModel
<1> HIDE DEF u
<1>4. TypeOK'
  <2>1. trade' \in [Role -> TradeModel]
    BY <1>1, <1>3, Sides DEF TypeOK
  <2>2. /\ requested' \subseteq Role /\ wallet' \subseteq Role /\ listening' \in Listening
    BY <1>1, Sides DEF TypeOK, Listening
  <2> QED BY <1>1, <1>2, <2>1, <2>2 DEF TypeOK
<1>5. seen.received > 0 /\ seen.started
  BY <1>1 DEF PaymentInv, ReceivedFirst, StartedFirst
<1>6. CASE UNCHANGED <<trade, listening, wallet>>
  <2>1. payout'.sending + payout'.written <= payout.sending + payout.written
    <3>1. payout.sending \in 0 .. MaxClicks /\ payout.written \in 0 .. MaxClicks
      BY DEF TypeOK
    <3> QED BY <1>1, <3>1, Bounds
  <2> QED BY <1>1, <1>2, <1>4, <1>5, <1>6, <2>1, MessagesOnly
<1>7. CASE trade' = [trade EXCEPT !["buyer"] = u] /\ wallet' = wallet \cup {"buyer"}
  BY <1>1, <1>2, <1>3, <1>4, <1>5, <1>7, BuyerMoves
<1> QED BY <1>1, <1>6, <1>7

\* An ACK is dropped
LEMMA AckStep ==
  ASSUME TypeOK, PaymentInv, on_ack_message
  PROVE  TypeOK' /\ PaymentInv'
<1>1. /\ UNCHANGED <<trade, file, requested, running, task, listening, payout, wallet, chain,
                     seen, used>>
      /\ inbox' = [inbox EXCEPT !["buyer"] = inbox["buyer"] \ {"Ack"}]
  BY Sides DEF on_ack_message
<1>2. inbox' \in [Role -> SUBSET Message]
      /\ inbox'["buyer"] \subseteq inbox["buyer"] /\ inbox'["seller"] = inbox["seller"]
  BY <1>1, Sides DEF TypeOK
<1>3. TypeOK'
  BY <1>1, <1>2 DEF TypeOK
<1>4. payout'.sending + payout'.written <= payout.sending + payout.written
  <2>1. payout.sending \in 0 .. MaxClicks /\ payout.written \in 0 .. MaxClicks
    BY DEF TypeOK
  <2> QED BY <1>1, <2>1, Bounds
<1>5. /\ task'.sending # "no" \/ task'.timer => seen.started
      /\ "CounterCurrencyTransferStarted" \in inbox'["seller"] => seen.started
      /\ "PayoutTxPublished" \in inbox'["buyer"] => seen.received > 0
  BY <1>1, <1>2 DEF PaymentInv, StartedFirst, ReceivedFirst
<1> QED BY <1>1, <1>3, <1>4, <1>5, MessagesOnly
-----------------------------------------------------------------------------
(* The seller's steps                                                      *)

\* What the seller keeps of the broadcast and of its messages
PayoutModel == [broadcast : {"none", "pending", "timed out", "done", "failed"},
                sending : 0 .. MaxClicks, written : 0 .. MaxClicks]

\* The counters of the seller
LEMMA Numbers ==
  ASSUME TypeOK
  PROVE  /\ payout \in PayoutModel /\ seen \in [started : BOOLEAN, received : 0 .. MaxClicks]
         /\ payout.sending \in Nat /\ payout.written \in Nat /\ seen.received \in Nat
         /\ payout.sending \in 0 .. MaxClicks /\ payout.written \in 0 .. MaxClicks
         /\ seen.received \in 0 .. MaxClicks
<1>1. payout \in PayoutModel /\ seen \in [started : BOOLEAN, received : 0 .. MaxClicks]
  BY DEF TypeOK, PayoutModel
<1>2. payout.sending \in 0 .. MaxClicks /\ payout.written \in 0 .. MaxClicks
      /\ seen.received \in 0 .. MaxClicks
  BY <1>1 DEF PayoutModel
<1> QED BY <1>1, <1>2, Bounds

\* The seller's trade becomes u
LEMMA SellerMoves ==
  ASSUME TypeOK, TypeOK', PaymentInv, NEW u \in TradeModel,
         trade' = [trade EXCEPT !["seller"] = u], UNCHANGED <<file, chain>>,
         seen'.started, seen.received <= seen'.received, wallet \subseteq wallet',
         \/ wallet' # wallet \/ (u.payout_tx /\ ~ trade["seller"].payout_tx)
         \/ payout'.broadcast = "pending" /\ payout.broadcast # "pending"
         => seen'.received > 0,
         Phase(u.state) = 6 => u.payout_tx /\ "seller" \in wallet',
         "PayoutTxPublished" \in inbox'["buyer"] => "PayoutTxPublished" \in inbox["buyer"],
         SendsCounted',
         payout'.broadcast = "pending" \/ payout'.sending > 0 \/ payout'.written > 0
           => u.payout_tx /\ "seller" \in wallet'
  PROVE  PaymentInv'
<1>0. trade'["seller"] = u /\ trade'["buyer"] = trade["buyer"]
  BY Sides DEF TypeOK
<1>1. StartedFirst'
  BY DEF StartedFirst
<1>2. ReceivedFirst'
  <2>0. seen.received \in Nat /\ seen'.received \in Nat
    <3>1. seen'.received \in 0 .. MaxClicks
      BY DEF TypeOK
    <3> QED BY <3>1, Numbers, Bounds
  <2>1. CASE seen'.received > 0
    BY <2>1 DEF ReceivedFirst
  <2>2. CASE ~ (seen'.received > 0)
    <3>1. /\ wallet' = wallet /\ (u.payout_tx => trade["seller"].payout_tx)
          /\ payout'.broadcast = "pending" => payout.broadcast = "pending"
      BY <2>2
    <3>2. \A r \in Role : /\ trade'[r].payout_tx => trade[r].payout_tx
                          /\ file'[r].payout_tx => file[r].payout_tx
      BY <1>0, <3>1, Sides
    <3>3. seen'.received = seen.received
      BY <2>0, <2>2
    <3> QED BY <3>1, <3>2, <3>3, ReceivedKept
  <2> QED BY <2>1, <2>2
<1>4. SellerHoldsTx'
  BY <1>0 DEF SellerHoldsTx
<1>5. PublishedHoldsTx'
  <2> SUFFICES ASSUME NEW r \in Role
               PROVE  /\ is_payout_published(trade'[r]) => trade'[r].payout_tx /\ r \in wallet'
                      /\ is_payout_published(file'[r]) => file'[r].payout_tx /\ r \in wallet'
    BY DEF PublishedHoldsTx, is_payout_published
  <2>1. /\ is_payout_published(trade[r]) => trade[r].payout_tx /\ r \in wallet
        /\ is_payout_published(file[r]) => file[r].payout_tx /\ r \in wallet
    BY DEF PaymentInv, PublishedHoldsTx
  <2>2. Phase(u.state) \in 2 .. 6
    BY Phases DEF TradeModel
  <2>3. is_payout_published(u) => Phase(u.state) = 6
    BY <2>2 DEF is_payout_published, PAYOUT_PUBLISHED
  <2> QED BY <1>0, <2>1, <2>3, Sides
<1> QED BY <1>1, <1>2, <1>4, <1>5 DEF PaymentInv

\* The payout tx is published, and the message to the buyer is sent or has failed
LEMMA PublishedSends ==
  ASSUME TypeOK, NEW t \in TradeModel, NEW b, PublishedThenSend(t, b)
  PROVE  /\ \E u \in TradeModel :
              trade' = [trade EXCEPT !["seller"] = u] /\ u.payout_tx = t.payout_tx
         /\ \/ payout' = [payout EXCEPT !.broadcast = b, !.sending = payout.sending + 1]
            \/ payout' = [payout EXCEPT !.broadcast = b]
         /\ used' \in Counters
<1> DEFINE v == [t EXCEPT !.state = "SELLER_SENT_PAYOUT_TX_PUBLISHED_MSG"]
           w == [t EXCEPT !.state = "SELLER_SEND_FAILED_PAYOUT_TX_PUBLISHED_MSG"]
<1>1. v \in TradeModel /\ v.payout_tx = t.payout_tx
  BY States DEF TradeModel
<1>2. w \in TradeModel /\ w.payout_tx = t.payout_tx
  BY States DEF TradeModel
<1>3. \/ trade' = [trade EXCEPT !["seller"] = v] /\ used' = used
         /\ payout' = [payout EXCEPT !.broadcast = b, !.sending = payout.sending + 1]
      \/ Fail /\ trade' = [trade EXCEPT !["seller"] = w]
         /\ payout' = [payout EXCEPT !.broadcast = b]
  BY DEF PublishedThenSend
<1> HIDE DEF v, w
<1>4. used' \in Counters
  BY <1>3, FailCounted, Sides
<1> QED BY <1>1, <1>2, <1>3, <1>4

\* The seller gets the buyer's message
LEMMA StartedMessageStep ==
  ASSUME TypeOK, PaymentInv, handle_counter_currency_transfer_started_message
  PROVE  TypeOK' /\ PaymentInv'
<1> DEFINE u == SellerProcessCounterCurrencyTransferStartedMessage(trade["seller"])
           handled == [inbox EXCEPT !["seller"] = inbox["seller"]
                                                  \ {"CounterCurrencyTransferStarted"}]
<1>1. /\ UNCHANGED <<file, running, task, listening, payout, wallet, chain, seen>>
      /\ "CounterCurrencyTransferStarted" \in inbox["seller"]
      /\ \/ /\ trade' = [trade EXCEPT !["seller"] = u]
            /\ requested' = requested \cup {"seller"}
            /\ \/ /\ inbox' = [handled EXCEPT !["buyer"] = handled["buyer"] \cup {"Ack"}]
                  /\ used' = used
               \/ (Fail \/ used' = used) /\ inbox' = handled
         \/ inbox' = handled /\ UNCHANGED <<trade, requested, used>>
  BY Sides DEF handle_counter_currency_transfer_started_message, request_persistence
<1>2. u \in TradeModel /\ u.payout_tx = trade["seller"].payout_tx
      /\ u.state = "SELLER_RECEIVED_FIAT_PAYMENT_INITIATED_MSG"
  BY Sides, States DEF SellerProcessCounterCurrencyTransferStartedMessage, TradeModel
<1> HIDE DEF u
<1>3. /\ inbox' \in [Role -> SUBSET Message]
      /\ "PayoutTxPublished" \in inbox'["buyer"] => "PayoutTxPublished" \in inbox["buyer"]
  <2>1. /\ handled \in [Role -> SUBSET Message] /\ handled["buyer"] = inbox["buyer"]
        /\ "Ack" \in Message
    BY Sides DEF TypeOK, Message
  <2>2. inbox' = handled
        \/ inbox' = [handled EXCEPT !["buyer"] = handled["buyer"] \cup {"Ack"}]
    BY <1>1
  <2> HIDE DEF handled
  <2> QED BY <2>1, <2>2, Sides
<1>4. trade' \in [Role -> TradeModel] /\ requested' \subseteq Role
  <2>1. /\ trade' = trade \/ trade' = [trade EXCEPT !["seller"] = u]
        /\ requested' = requested \/ requested' = requested \cup {"seller"}
    BY <1>1
  <2>2. trade \in [Role -> TradeModel] /\ requested \subseteq Role
    BY DEF TypeOK
  <2> QED BY <1>2, <2>1, <2>2, Sides
<1>5. used' \in Counters
  BY <1>1, Sides, FailCounted
<1>6. TypeOK'
  BY <1>1, <1>3, <1>4, <1>5 DEF TypeOK, Counters
<1>7. seen.started
  BY <1>1 DEF PaymentInv, StartedFirst
<1>8. CASE trade' = [trade EXCEPT !["seller"] = u]
  <2>1. Phase(u.state) = 4
    BY <1>2, Phases
  <2>2. SendsCounted'
    BY <1>1 DEF PaymentInv, SendsCounted, Pending
  <2>3. payout'.broadcast = "pending" \/ payout'.sending > 0 \/ payout'.written > 0
          => u.payout_tx /\ "seller" \in wallet'
    BY <1>1, <1>2 DEF PaymentInv, SellerHoldsTx
  <2>4. UNCHANGED <<file, chain>> /\ seen'.started /\ seen.received <= seen'.received
        /\ wallet' = wallet /\ payout' = payout
    BY <1>1, <1>7, Numbers
  <2>5. /\ ~ (u.payout_tx /\ ~ trade["seller"].payout_tx)
        /\ Phase(u.state) # 6
    BY <1>2, <2>1
  <2> QED BY <1>2, <1>3, <1>6, <1>8, <2>2, <2>3, <2>4, <2>5, SellerMoves
<1>9. CASE trade' = trade
  <2>1. /\ "PayoutTxPublished" \in inbox'["buyer"] => seen.received > 0
        /\ payout'.sending + payout'.written <= payout.sending + payout.written
    BY <1>1, <1>3, Numbers DEF PaymentInv, ReceivedFirst
  <2>2. UNCHANGED <<trade, file, wallet, chain, seen>> /\ payout' = payout
    BY <1>1, <1>9
  <2> QED BY <1>6, <1>7, <2>1, <2>2, MessagesOnly
<1> QED BY <1>1, <1>8, <1>9
\* The seller clicks that he was paid
LEMMA PaymentReceivedStep ==
  ASSUME TypeOK, PaymentInv, on_payment_received
  PROVE  TypeOK' /\ PaymentInv'
<1> DEFINE t == [trade["seller"] EXCEPT !.state = "SELLER_CONFIRMED_IN_UI_FIAT_PAYMENT_RECEIPT"]
           signed == SellerSignAndFinalizePayoutTx(t)
<1>1. /\ UNCHANGED <<file, running, task, listening, inbox, chain>>
      /\ Phase(trade["seller"].state) \in {4, 6} /\ seen.received < MaxClicks
      /\ seen' = [seen EXCEPT !.received = seen.received + 1]
      /\ requested' = requested \cup {"seller"}
      /\ \/ Fail /\ trade' = [trade EXCEPT !["seller"] = t] /\ UNCHANGED <<payout, wallet>>
         \/ /\ "seller" \in wallet /\ PublishedThenSend(signed, payout.broadcast)
            /\ UNCHANGED wallet
         \/ /\ trade' = [trade EXCEPT !["seller"] = signed] /\ UNCHANGED used
            /\ payout' = [payout EXCEPT !.broadcast = "pending"]
            /\ "seller" \notin wallet /\ wallet' = wallet \cup {"seller"}
  BY Sides DEF on_payment_received, request_persistence, broadcast_tx, PhaseOf, ConfirmPhases,
               FIAT_SENT, PAYOUT_PUBLISHED
<1>2. t \in TradeModel /\ t.payout_tx = trade["seller"].payout_tx
      /\ t.state = "SELLER_CONFIRMED_IN_UI_FIAT_PAYMENT_RECEIPT"
  BY Sides, States DEF TradeModel
<1> HIDE DEF t
<1>3. signed \in TradeModel /\ signed.payout_tx /\ signed.state = t.state
  BY <1>2 DEF TradeModel, SellerSignAndFinalizePayoutTx
<1> HIDE DEF signed
<1>4. Phase(t.state) = 5 /\ Phase(signed.state) = 5
  BY <1>2, <1>3, Phases
<1>5. /\ seen' \in [started : BOOLEAN, received : 0 .. MaxClicks]
      /\ seen'.received = seen.received + 1 /\ seen'.started /\ seen'.received > 0
      /\ seen.received <= seen'.received
  <2>1. seen.received + 1 \in 0 .. MaxClicks /\ seen.received + 1 > 0
    BY <1>1, Numbers, Bounds
  <2>2. seen.started
    BY <1>1, Sides DEF PaymentInv, StartedFirst, FIAT_SENT
  <2> QED BY <1>1, <2>1, <2>2, Numbers
<1>6. requested' \subseteq Role
  BY <1>1, Sides DEF TypeOK
<1>7. CASE Fail /\ trade' = [trade EXCEPT !["seller"] = t] /\ UNCHANGED <<payout, wallet>>
  <2>1. used' \in Counters
    BY <1>7, FailCounted
  <2>2. trade' \in [Role -> TradeModel]
    BY <1>2, <1>7, Sides DEF TypeOK
  <2>3. TypeOK'
    BY <1>1, <1>5, <1>6, <1>7, <2>1, <2>2 DEF TypeOK, Counters
  <2>4. SendsCounted'
    BY <1>5, <1>7, Numbers DEF PaymentInv, SendsCounted, Pending
  <2>5. payout'.broadcast = "pending" \/ payout'.sending > 0 \/ payout'.written > 0
          => t.payout_tx /\ "seller" \in wallet'
    BY <1>2, <1>7 DEF PaymentInv, SellerHoldsTx
  <2>6. UNCHANGED <<file, chain>> /\ wallet' = wallet /\ inbox' = inbox /\ Phase(t.state) # 6
    BY <1>1, <1>4, <1>7
  <2> QED BY <1>2, <1>5, <1>7, <2>3, <2>4, <2>5, <2>6, SellerMoves
<1>8. CASE /\ "seller" \in wallet /\ PublishedThenSend(signed, payout.broadcast)
           /\ UNCHANGED wallet
  <2>1. PICK u \in TradeModel :
          trade' = [trade EXCEPT !["seller"] = u] /\ u.payout_tx = signed.payout_tx
    BY <1>3, <1>8, PublishedSends
  <2>2. /\ \/ payout' = [payout EXCEPT !.broadcast = payout.broadcast,
                                        !.sending = payout.sending + 1]
           \/ payout' = [payout EXCEPT !.broadcast = payout.broadcast]
        /\ used' \in Counters
    BY <1>3, <1>8, PublishedSends
  <2>3. payout.sending + 1 \in 0 .. MaxClicks
        /\ payout.sending + 1 + payout.written + Pending <= seen.received + 1
    BY <1>1, Numbers, Bounds DEF PaymentInv, SendsCounted, Pending
  <2>4. /\ payout' \in PayoutModel /\ payout'.broadcast = payout.broadcast
        /\ payout'.written = payout.written
        /\ payout'.sending = payout.sending + 1 \/ payout'.sending = payout.sending
    BY <2>2, <2>3, Numbers DEF PayoutModel
  <2>5. trade' \in [Role -> TradeModel]
    BY <2>1, Sides DEF TypeOK
  <2>6. TypeOK'
    BY <1>1, <1>5, <1>6, <1>8, <2>2, <2>4, <2>5 DEF TypeOK, Counters, PayoutModel
  <2>7. SendsCounted'
    BY <1>5, <2>3, <2>4, Numbers DEF PaymentInv, SendsCounted, Pending
  <2>8. UNCHANGED <<file, chain>> /\ wallet' = wallet /\ inbox' = inbox
        /\ u.payout_tx /\ "seller" \in wallet'
    BY <1>1, <1>3, <1>8, <2>1
  <2> QED BY <1>5, <2>1, <2>6, <2>7, <2>8, SellerMoves
<1>9. CASE /\ trade' = [trade EXCEPT !["seller"] = signed] /\ UNCHANGED used
           /\ payout' = [payout EXCEPT !.broadcast = "pending"]
           /\ "seller" \notin wallet /\ wallet' = wallet \cup {"seller"}
  <2>1. /\ payout' \in PayoutModel /\ payout'.broadcast = "pending"
        /\ payout'.sending = payout.sending /\ payout'.written = payout.written
    BY <1>9, Numbers DEF PayoutModel
  <2>2. trade' \in [Role -> TradeModel] /\ wallet' \subseteq Role
    BY <1>3, <1>9, Sides DEF TypeOK
  <2>3. TypeOK'
    BY <1>1, <1>5, <1>6, <1>9, <2>1, <2>2 DEF TypeOK, PayoutModel
  <2>4. Pending = 0 /\ Pending' = 1
    BY <1>9, <2>1 DEF PaymentInv, SellerHoldsTx, Pending
  <2>5. SendsCounted'
    BY <1>5, <2>1, <2>4, Numbers DEF PaymentInv, SendsCounted
  <2>6. UNCHANGED <<file, chain>> /\ inbox' = inbox /\ wallet \subseteq wallet'
        /\ "seller" \in wallet'
    BY <1>1, <1>9
  <2> QED BY <1>3, <1>5, <1>9, <2>3, <2>5, <2>6, SellerMoves
<1> QED BY <1>1, <1>7, <1>8, <1>9

\* The broadcast ends well, or there is no answer in time
LEMMA BroadcastStep ==
  ASSUME TypeOK, PaymentInv, on_broadcast_success \/ on_timeout \/ on_broadcast_failure
  PROVE  TypeOK' /\ PaymentInv'
<1>0. /\ payout.sending \in Nat /\ payout.written \in Nat /\ seen.received \in Nat
      /\ seen.received <= MaxClicks
  BY Numbers
<1>1. /\ UNCHANGED <<file, running, task, listening, inbox, wallet, chain, seen>>
      /\ \/ /\ payout.broadcast = "pending" /\ requested' = requested \cup {"seller"}
            /\ \E b \in {"done", "timed out"} : PublishedThenSend(trade["seller"], b)
         \/ /\ UNCHANGED <<trade, requested>> /\ (used' = used \/ Fail)
            /\ \E b \in {"done", "failed"} : payout' = [payout EXCEPT !.broadcast = b]
  BY Sides DEF on_broadcast_success, on_timeout, on_broadcast_failure, request_persistence
<1>2. CASE /\ payout.broadcast = "pending" /\ requested' = requested \cup {"seller"}
           /\ \E b \in {"done", "timed out"} : PublishedThenSend(trade["seller"], b)
  <2>1. PICK b : b \in {"done", "timed out"} /\ PublishedThenSend(trade["seller"], b)
    BY <1>2
  <2>2. PICK u \in TradeModel :
          trade' = [trade EXCEPT !["seller"] = u] /\ u.payout_tx = trade["seller"].payout_tx
    BY <2>1, Sides, PublishedSends
  <2>3. /\ \/ payout' = [payout EXCEPT !.broadcast = b, !.sending = payout.sending + 1]
           \/ payout' = [payout EXCEPT !.broadcast = b]
        /\ used' \in Counters
    BY <2>1, Sides, PublishedSends
  <2>4. trade["seller"].payout_tx /\ "seller" \in wallet /\ Pending = 1
    BY <1>2 DEF PaymentInv, SellerHoldsTx, Pending
  <2>5. /\ payout.sending + payout.written + 1 <= seen.received
        /\ payout.sending + 1 \in 0 .. MaxClicks /\ seen.received > 0
    <3>1. payout.sending + payout.written + Pending <= seen.received
      BY DEF PaymentInv, SendsCounted
    <3>2. payout.sending + payout.written + 1 <= seen.received
      BY <2>4, <3>1
    <3> QED BY <1>0, <3>2, Bounds
  <2>6. /\ payout' \in PayoutModel /\ payout'.broadcast = b /\ b # "pending"
        /\ payout'.written = payout.written
        /\ payout'.sending = payout.sending + 1 \/ payout'.sending = payout.sending
    BY <2>1, <2>3, <2>5, Numbers DEF PayoutModel
  <2>7. trade' \in [Role -> TradeModel] /\ requested' \subseteq Role
    BY <1>2, <2>2, Sides DEF TypeOK
  <2>8. TypeOK'
    BY <1>1, <2>3, <2>6, <2>7 DEF TypeOK, Counters, PayoutModel
  <2>9. SendsCounted'
    <3>1. Pending' = 0 /\ seen' = seen
      BY <1>1, <2>6 DEF Pending
    <3>2. payout'.sending + payout'.written + 0 <= seen.received
      BY <1>0, <2>5, <2>6
    <3> QED BY <3>1, <3>2 DEF SendsCounted
  <2>10. UNCHANGED <<file, chain>> /\ wallet' = wallet /\ inbox' = inbox /\ seen' = seen
         /\ u.payout_tx /\ "seller" \in wallet' /\ seen'.started /\ seen.received <= seen'.received
    <3>1. seen.started
      BY <2>5 DEF PaymentInv, StartedFirst
    <3>2. seen.received <= seen'.received
      <4>1. seen' = seen
        BY <1>1
      <4> QED BY <1>0, <4>1
    <3>3. u.payout_tx
      BY <2>2, <2>4
    <3> QED BY <1>1, <2>4, <3>1, <3>2, <3>3
  <2> QED BY <2>2, <2>5, <2>6, <2>8, <2>9, <2>10, SellerMoves
<1>3. CASE /\ UNCHANGED <<trade, requested>> /\ (used' = used \/ Fail)
           /\ \E b \in {"done", "failed"} : payout' = [payout EXCEPT !.broadcast = b]
  <2>1. /\ payout' \in PayoutModel /\ payout'.broadcast # "pending"
        /\ payout'.sending = payout.sending /\ payout'.written = payout.written
    BY <1>3, Numbers DEF PayoutModel
  <2>2. used' \in Counters
    BY <1>3, FailCounted, Sides
  <2>3. TypeOK'
    BY <1>1, <1>3, <2>1, <2>2 DEF TypeOK, Counters, PayoutModel
  <2>4. payout'.sending + payout'.written <= payout.sending + payout.written
    BY <2>1, Numbers
  <2>5. /\ task'.sending # "no" \/ task'.timer => seen.started
        /\ "CounterCurrencyTransferStarted" \in inbox'["seller"] => seen.started
        /\ "PayoutTxPublished" \in inbox'["buyer"] => seen.received > 0
    BY <1>1 DEF PaymentInv, StartedFirst, ReceivedFirst
  <2> QED BY <1>1, <1>3, <2>1, <2>3, <2>4, <2>5, MessagesOnly
<1> QED BY <1>1, <1>2, <1>3

\* The payout tx reaches the network
LEMMA NetworkStep ==
  ASSUME TypeOK, PaymentInv, TxReachesNetwork
  PROVE  TypeOK' /\ PaymentInv'
<1>1. /\ UNCHANGED <<trade, file, requested, running, task, listening, payout, inbox, wallet,
                     seen, used>>
      /\ chain' = TRUE /\ wallet # {}
  BY DEF TxReachesNetwork
<1>2. TypeOK'
  BY <1>1 DEF TypeOK
<1>3. StartedFirst' /\ SendsCounted' /\ SellerHoldsTx' /\ PublishedHoldsTx'
  BY <1>1 DEF PaymentInv, StartedFirst, SendsCounted, Pending, SellerHoldsTx, PublishedHoldsTx
<1>4. ReceivedFirst'
  BY <1>1 DEF PaymentInv, ReceivedFirst
<1> QED BY <1>2, <1>3, <1>4 DEF PaymentInv

\* The seller's message is written, or the buyer cannot be reached
LEMMA WriteStep ==
  ASSUME TypeOK, PaymentInv, WriteToBuyer \/ on_payout_message_failure
  PROVE  TypeOK' /\ PaymentInv'
<1>1. /\ UNCHANGED <<trade, file, requested, running, task, listening, wallet, chain, seen>>
      /\ payout.sending > 0
      /\ \/ /\ payout' = [payout EXCEPT !.sending = payout.sending - 1,
                                        !.written = payout.written + 1]
            /\ inbox' = [inbox EXCEPT !["buyer"] = inbox["buyer"] \cup {"PayoutTxPublished"}]
            /\ used' = used
         \/ /\ payout' = [payout EXCEPT !.sending = payout.sending - 1] /\ inbox' = inbox
            /\ (used' = used \/ Fail)
  BY Sides DEF WriteToBuyer, on_payout_message_failure
<1>2. /\ payout.sending - 1 \in 0 .. MaxClicks /\ payout.written + 1 \in 0 .. MaxClicks
      /\ seen.received > 0
  <2>1. Pending \in Nat
    BY DEF Pending
  <2>2. payout.sending + payout.written + Pending <= seen.received
    BY DEF PaymentInv, SendsCounted
  <2> QED BY <1>1, <2>1, <2>2, Numbers, Bounds
<1>3. /\ payout' \in PayoutModel /\ payout'.broadcast = payout.broadcast
      /\ payout'.sending = payout.sending - 1
      /\ payout'.written = payout.written + 1 \/ payout'.written = payout.written
  BY <1>1, <1>2, Numbers DEF PayoutModel
<1>4. inbox' \in [Role -> SUBSET Message] /\ inbox'["seller"] = inbox["seller"]
  <2>1. \/ inbox' = inbox
        \/ inbox' = [inbox EXCEPT !["buyer"] = inbox["buyer"] \cup {"PayoutTxPublished"}]
    BY <1>1
  <2>2. "PayoutTxPublished" \in Message /\ inbox \in [Role -> SUBSET Message]
    BY DEF Message, TypeOK
  <2> QED BY <2>1, <2>2, Sides
<1>5. used' \in Counters
  BY <1>1, FailCounted, Sides
<1>6. TypeOK'
  BY <1>1, <1>3, <1>4, <1>5 DEF TypeOK, Counters, PayoutModel
<1>7. payout'.sending + payout'.written <= payout.sending + payout.written
  BY <1>3, Numbers
<1>8. /\ task'.sending # "no" \/ task'.timer => seen.started
      /\ "CounterCurrencyTransferStarted" \in inbox'["seller"] => seen.started
  BY <1>1, <1>4 DEF PaymentInv, StartedFirst
<1>9. UNCHANGED <<trade, file, wallet, chain, seen>>
  BY <1>1
<1> QED BY <1>2, <1>3, <1>6, <1>7, <1>8, <1>9, MessagesOnly

\* The seller's message has arrived
LEMMA ArrivedStep ==
  ASSUME TypeOK, PaymentInv, on_payout_message_arrived
  PROVE  TypeOK' /\ PaymentInv'
<1> DEFINE u == [trade["seller"] EXCEPT !.state = "SELLER_SAW_ARRIVED_PAYOUT_TX_PUBLISHED_MSG"]
<1>1. /\ UNCHANGED <<file, running, task, listening, inbox, wallet, chain, seen, used>>
      /\ payout.written > 0 /\ payout' = [payout EXCEPT !.written = payout.written - 1]
      /\ requested' = requested \cup {"seller"}
  BY DEF on_payout_message_arrived, request_persistence
<1>2. trade' = [trade EXCEPT !["seller"] = u]
  BY Sides DEF on_payout_message_arrived, TypeOK
<1>3. u \in TradeModel /\ u.payout_tx = trade["seller"].payout_tx
  BY Sides, States DEF TradeModel
<1> HIDE DEF u
<1>4. payout.written - 1 \in 0 .. MaxClicks
  BY <1>1, Numbers, Bounds
<1>5. /\ payout' \in PayoutModel /\ payout'.broadcast = payout.broadcast
      /\ payout'.sending = payout.sending /\ payout'.written = payout.written - 1
  BY <1>1, <1>4, Numbers DEF PayoutModel
<1>6. trade' \in [Role -> TradeModel] /\ requested' \subseteq Role
  BY <1>1, <1>2, <1>3, Sides DEF TypeOK
<1>7. TypeOK'
  BY <1>1, <1>5, <1>6 DEF TypeOK, PayoutModel
<1>8. SendsCounted'
  BY <1>1, <1>5, Numbers DEF PaymentInv, SendsCounted, Pending
<1>9. trade["seller"].payout_tx /\ "seller" \in wallet
  BY <1>1 DEF PaymentInv, SellerHoldsTx
<1>10. seen.received > 0 /\ seen.started
  BY <1>9, Sides DEF PaymentInv, ReceivedFirst, StartedFirst
<1>11. UNCHANGED <<file, chain>> /\ wallet' = wallet /\ inbox' = inbox /\ seen' = seen
       /\ seen.received <= seen'.received
  BY <1>1, Numbers
<1> QED BY <1>2, <1>3, <1>7, <1>8, <1>9, <1>10, <1>11, SellerMoves
-----------------------------------------------------------------------------
(* Persistence, exit and start                                             *)

\* The trade of one side is written to its file, or read from it
LEMMA FilesFollow ==
  ASSUME TypeOK, TypeOK', PaymentInv, NEW r \in Role,
         \/ file' = [file EXCEPT ![r] = trade[r]] /\ trade' = trade
         \/ trade' = [trade EXCEPT ![r] = file[r]] /\ file' = file,
         UNCHANGED <<wallet, chain, seen>>,
         task'.sending # "no" \/ task'.timer => task.sending # "no" \/ task.timer,
         \A q \in Role : inbox'[q] \subseteq inbox[q],
         (payout' = payout /\ trade'["seller"] = trade["seller"]) \/ payout' = NewPayout
  PROVE  PaymentInv'
<1>1. \A q \in Role : trade'[q] \in {trade[q], file[q]} /\ file'[q] \in {trade[q], file[q]}
  <2>1. trade \in [Role -> TradeModel] /\ file \in [Role -> TradeModel]
    BY DEF TypeOK
  <2>2. CASE file' = [file EXCEPT ![r] = trade[r]] /\ trade' = trade
    BY <2>1, <2>2
  <2>3. CASE trade' = [trade EXCEPT ![r] = file[r]] /\ file' = file
    BY <2>1, <2>3
  <2> QED BY <2>2, <2>3
<1>2. StartedFirst'
  BY <1>1, StartedKept DEF Role
<1>3. payout'.broadcast = "pending" => payout.broadcast = "pending"
  BY DEF NewPayout
<1>4. ReceivedFirst'
  BY <1>1, <1>3, ReceivedKept DEF Role
<1>5. SendsCounted'
  <2>1. CASE payout' = payout
    BY <2>1 DEF PaymentInv, SendsCounted, Pending
  <2>2. CASE payout' = NewPayout
    <3>1. payout'.sending = 0 /\ payout'.written = 0 /\ Pending' = 0
      BY <2>2 DEF NewPayout, Pending
    <3> QED BY <3>1, Numbers DEF SendsCounted
  <2> QED BY <2>1, <2>2
<1>6. SellerHoldsTx'
  BY DEF PaymentInv, SellerHoldsTx, NewPayout
<1>7. PublishedHoldsTx'
  BY <1>1 DEF PaymentInv, PublishedHoldsTx
<1> QED BY <1>2, <1>4, <1>5, <1>6, <1>7 DEF PaymentInv

\* The file is written
LEMMA PersistStep ==
  ASSUME TypeOK, PaymentInv, NEW r \in Role, Persist(r)
  PROVE  TypeOK' /\ PaymentInv'
<1>1. /\ file' = [file EXCEPT ![r] = trade[r]] /\ requested' = requested \ {r}
      /\ UNCHANGED <<trade, running, task, listening, payout, inbox, wallet, chain, seen, used>>
  BY DEF Persist
<1>2. TypeOK'
  BY <1>1 DEF TypeOK
<1> QED BY <1>1, <1>2, FilesFollow

\* One side stops, regularly or not
LEMMA StopStep ==
  ASSUME TypeOK, PaymentInv, NEW r \in Role, Exit(r) \/ Crash(r)
  PROVE  TypeOK' /\ PaymentInv'
<1>1. /\ running' = running \ {r} /\ requested' = requested \ {r}
      /\ inbox' = [inbox EXCEPT ![r] = {}] /\ UNCHANGED <<wallet, chain, seen>>
      /\ \/ r = "buyer" /\ task' = NewTask /\ listening' = "no" /\ payout' = payout
         \/ r # "buyer" /\ payout' = NewPayout /\ UNCHANGED <<task, listening>>
      /\ \/ file' = [file EXCEPT ![r] = trade[r]] /\ trade' = trade
         \/ trade' = [trade EXCEPT ![r] = file[r]] /\ file' = file
  BY DEF Exit, Crash, StopRunning
<1>2. used' \in Counters
  <2>1. used.exits \in 0 .. MaxExits /\ used.crashes \in 0 .. MaxCrashes
    BY Sides DEF Counters
  <2>2. CASE Exit(r)
    <3>1. used.exits + 1 \in 0 .. MaxExits /\ used' = [used EXCEPT !.exits = used.exits + 1]
      BY <2>1, <2>2, Bounds DEF Exit
    <3> QED BY <3>1, Sides DEF Counters
  <2>3. CASE Crash(r)
    <3>1. used.crashes + 1 \in 0 .. MaxCrashes
          /\ used' = [used EXCEPT !.crashes = used.crashes + 1]
      BY <2>1, <2>3, Bounds DEF Crash
    <3> QED BY <3>1, Sides DEF Counters
  <2> QED BY <2>2, <2>3
<1>3. /\ task' \in TaskModel
      /\ task'.sending # "no" \/ task'.timer => task.sending # "no" \/ task.timer
      /\ listening' \in Listening
  <2>1. NewTask \in TaskModel /\ NewTask.sending = "no" /\ NewTask.timer = FALSE
    BY Bounds DEF NewTask, TaskModel
  <2>2. listening \in Listening
    BY DEF TypeOK
  <2> QED BY <1>1, <2>1, <2>2, Sides DEF Listening
<1>4. payout' \in PayoutModel
  <2>1. NewPayout \in PayoutModel
    BY Bounds DEF NewPayout, PayoutModel
  <2> QED BY <1>1, <2>1, Numbers
<1>5. trade' \in [Role -> TradeModel] /\ file' \in [Role -> TradeModel]
  <2>1. trade \in [Role -> TradeModel] /\ file \in [Role -> TradeModel]
    BY DEF TypeOK
  <2> QED BY <1>1, <2>1
<1>6. /\ inbox' \in [Role -> SUBSET Message] /\ \A q \in Role : inbox'[q] \subseteq inbox[q]
      /\ running' \subseteq Role /\ requested' \subseteq Role
  <2>1. inbox \in [Role -> SUBSET Message] /\ running \subseteq Role /\ requested \subseteq Role
    BY DEF TypeOK
  <2> QED BY <1>1, <2>1
<1>7. TypeOK'
  BY <1>1, <1>2, <1>3, <1>4, <1>5, <1>6 DEF TypeOK, TaskModel, PayoutModel, Counters
<1>8. (payout' = payout /\ trade'["seller"] = trade["seller"]) \/ payout' = NewPayout
  <2>1. trade \in [Role -> TradeModel]
    BY DEF TypeOK
  <2> QED BY <1>1, <2>1, Sides
<1> QED BY <1>1, <1>3, <1>6, <1>7, <1>8, FilesFollow

\* A side that was stopped starts again
LEMMA StartStep ==
  ASSUME TypeOK, PaymentInv, NEW r \in Role, Start(r)
  PROVE  TypeOK' /\ PaymentInv'
<1>1. /\ running' = running \cup {r} /\ requested' = requested \cup {r}
      /\ UNCHANGED <<file, payout, inbox, chain, seen>>
      /\ \/ BuyerStartup
         \/ UNCHANGED <<trade, task, listening, wallet, used>>
  BY DEF Start, request_persistence
<1>2. running' \subseteq Role /\ requested' \subseteq Role
  BY <1>1 DEF TypeOK
<1>3. CASE UNCHANGED <<trade, task, listening, wallet, used>>
  <2>1. TypeOK'
    BY <1>1, <1>2, <1>3 DEF TypeOK
  <2>2. StartedFirst' /\ ReceivedFirst'
    BY <1>1, <1>3 DEF PaymentInv, StartedFirst, ReceivedFirst
  <2>3. SendsCounted' /\ SellerHoldsTx' /\ PublishedHoldsTx'
    BY <1>1, <1>3 DEF PaymentInv, SendsCounted, Pending, SellerHoldsTx, PublishedHoldsTx
  <2> QED BY <2>1, <2>2, <2>3 DEF PaymentInv
<1>4. ASSUME NEW known \in BOOLEAN, Phase(trade["buyer"].state) \in {4, 5},
             SetupPayoutTxListener(known), SendAtStartup(WithListener(trade["buyer"], known))
      PROVE  TypeOK' /\ PaymentInv'
  <2> DEFINE v == WithListener(trade["buyer"], known)
  <2>1. Phase(trade["buyer"].state) # 6
    BY <1>4
  <2>2. /\ v \in TradeModel
        /\ v.payout_tx /\ ~ trade["buyer"].payout_tx => seen.received > 0
        /\ Phase(v.state) = 6 => v.payout_tx /\ "buyer" \in wallet'
        /\ wallet \subseteq wallet' /\ wallet' \subseteq Role
        /\ wallet' # wallet => seen.received > 0
        /\ listening' \in Listening
    BY <1>4, <2>1, Sides, ListenerSetUp
  <2>3. SendAtStartup(v)
    BY <1>4
  <2> HIDE DEF v
  <2>4. seen.started
    BY <1>4, Sides DEF PaymentInv, StartedFirst, FIAT_SENT
  <2>5. /\ \E u \in TradeModel :
             /\ trade' = [trade EXCEPT !["buyer"] = u] /\ u.payout_tx = v.payout_tx
             /\ Phase(u.state) = 6 => Phase(v.state) = 6
        /\ task' \in TaskModel /\ used' \in Counters
    <3>1. CASE RunSendTask(v)
      BY <2>2, <3>1, SendTaskRuns
    <3>2. CASE trade' = [trade EXCEPT !["buyer"] = v] /\ UNCHANGED <<task, used>>
      BY <2>2, <3>2, Sides
    <3> QED BY <2>3, <3>1, <3>2 DEF SendAtStartup
  <2>6. PICK u \in TradeModel :
          /\ trade' = [trade EXCEPT !["buyer"] = u] /\ u.payout_tx = v.payout_tx
          /\ Phase(u.state) = 6 => Phase(v.state) = 6
    BY <2>5
  <2>7. TypeOK'
    BY <1>1, <1>2, <2>2, <2>5, <2>6, Sides DEF TypeOK, TaskModel, Counters
  <2> QED BY <1>1, <2>2, <2>4, <2>6, <2>7, BuyerMoves
<1>5. ASSUME Phase(trade["buyer"].state) \in {4, 5}, SetupFails, SendAtStartup(trade["buyer"])
      PROVE  TypeOK' /\ PaymentInv'
  <2>1. trade["buyer"] \in TradeModel /\ Phase(trade["buyer"].state) # 6
    BY <1>5, Sides
  <2>2. wallet' = wallet /\ wallet \subseteq Role /\ listening' \in Listening
    BY <1>5 DEF SetupFails, Listening, TypeOK
  <2>3. seen.started
    BY <1>5, Sides DEF PaymentInv, StartedFirst, FIAT_SENT
  <2>4. /\ \E u \in TradeModel :
             /\ trade' = [trade EXCEPT !["buyer"] = u] /\ u.payout_tx = trade["buyer"].payout_tx
             /\ Phase(u.state) = 6 => Phase(trade["buyer"].state) = 6
        /\ task' \in TaskModel /\ used' \in Counters
    <3>1. CASE RunSendTask(trade["buyer"])
      BY <2>1, <3>1, SendTaskRuns
    <3>2. CASE trade' = [trade EXCEPT !["buyer"] = trade["buyer"]] /\ UNCHANGED <<task, used>>
      BY <2>1, <3>2, Sides
    <3> QED BY <1>5, <3>1, <3>2 DEF SendAtStartup
  <2>5. PICK u \in TradeModel :
          /\ trade' = [trade EXCEPT !["buyer"] = u] /\ u.payout_tx = trade["buyer"].payout_tx
          /\ Phase(u.state) = 6 => Phase(trade["buyer"].state) = 6
    BY <2>4
  <2>6. TypeOK'
    BY <1>1, <1>2, <2>2, <2>4, <2>5, Sides DEF TypeOK, TaskModel, Counters
  <2> QED BY <1>1, <2>1, <2>2, <2>3, <2>5, <2>6, BuyerMoves
<1>6. CASE BuyerStartup
  <2>1. \/ UNCHANGED <<trade, task, listening, wallet, used>>
        \/ /\ Phase(trade["buyer"].state) \in {4, 5}
           /\ \/ \E known \in BOOLEAN :
                   SetupPayoutTxListener(known) /\ SendAtStartup(WithListener(trade["buyer"], known))
              \/ SetupFails /\ SendAtStartup(trade["buyer"])
    BY <1>6, Sides DEF BuyerStartup, PhaseOf, FIAT_SENT, FIAT_RECEIVED
  <2> QED BY <1>3, <1>4, <1>5, <2>1
<1> QED BY <1>1, <1>3, <1>6
-----------------------------------------------------------------------------
(* The theorems                                                            *)

\* The invariant holds at first
LEMMA PaymentInit == Init => TypeOK /\ PaymentInv
<1> SUFFICES ASSUME Init
             PROVE  TypeOK /\ PaymentInv
  OBVIOUS
<1>1. /\ trade = [buyer |-> [state |-> "BUYER_RECEIVED_DEPOSIT_TX_PUBLISHED_MSG",
                             payout_tx |-> FALSE],
                  seller |-> [state |-> "SELLER_PUBLISHED_DEPOSIT_TX", payout_tx |-> FALSE]]
      /\ file = trade
  BY DEF Init
<1>2. /\ trade["buyer"] = [state |-> "BUYER_RECEIVED_DEPOSIT_TX_PUBLISHED_MSG",
                           payout_tx |-> FALSE]
      /\ trade["seller"] = [state |-> "SELLER_PUBLISHED_DEPOSIT_TX", payout_tx |-> FALSE]
  BY <1>1
<1>3. trade["buyer"] \in TradeModel /\ trade["seller"] \in TradeModel
  BY <1>2, States DEF TradeModel
<1>4. trade \in [Role -> TradeModel]
  BY <1>1, <1>3 DEF Role
<1>5. \A r \in Role : Phase(trade[r].state) = 2 /\ ~ trade[r].payout_tx
  BY <1>2, Phases DEF Role
<1>6. /\ NewTask \in TaskModel /\ NewPayout \in PayoutModel
      /\ [failures |-> 0, exits |-> 0, crashes |-> 0] \in Counters
      /\ [started |-> FALSE, received |-> 0] \in [started : BOOLEAN, received : 0 .. MaxClicks]
  BY Bounds DEF NewTask, NewPayout, TaskModel, PayoutModel, Counters
<1>7. TypeOK
  BY <1>1, <1>4, <1>6 DEF Init, TypeOK, TaskModel, PayoutModel, Counters, Listening
<1>8. /\ task.sending = "no" /\ ~ task.timer /\ inbox["seller"] = {} /\ inbox["buyer"] = {}
      /\ wallet = {} /\ ~ chain /\ seen.received = 0
      /\ payout.broadcast = "none" /\ payout.sending = 0 /\ payout.written = 0
  BY DEF Init, NewTask, NewPayout, Role
<1>9. StartedFirst
  BY <1>1, <1>5, <1>8 DEF StartedFirst, FIAT_SENT
<1>10. ReceivedFirst
  BY <1>1, <1>5, <1>8 DEF ReceivedFirst
<1>11. SendsCounted /\ SellerHoldsTx
  BY <1>8 DEF SendsCounted, Pending, SellerHoldsTx
<1>12. PublishedHoldsTx
  BY <1>1, <1>5 DEF PublishedHoldsTx, is_payout_published, PAYOUT_PUBLISHED
<1> QED BY <1>7, <1>9, <1>10, <1>11, <1>12 DEF PaymentInv

\* Every step keeps the invariant
LEMMA PaymentNext ==
  ASSUME TypeOK, PaymentInv, [Next]_vars
  PROVE  TypeOK' /\ PaymentInv'
<1>1. CASE WriteToSeller \/ on_arrived \/ on_failure
  BY <1>1, SendTaskStep
<1>2. CASE ResendTimer \/ SawPayoutTx \/ handle_payout_tx_published_message \/ on_ack_message
  BY <1>2, ResendStep, SawPayoutTxStep, PayoutMessageStep, AckStep
<1>3. CASE handle_counter_currency_transfer_started_message
  BY <1>3, StartedMessageStep
<1>4. CASE on_payment_started \/ on_payment_received
  BY <1>4, PaymentStartedStep, PaymentReceivedStep
<1>5. CASE on_broadcast_success \/ on_timeout \/ on_broadcast_failure
  BY <1>5, BroadcastStep
<1>6. CASE WriteToBuyer \/ on_payout_message_failure
  BY <1>6, WriteStep
<1>7. CASE on_payout_message_arrived \/ TxReachesNetwork
  BY <1>7, ArrivedStep, NetworkStep
<1>8. ASSUME NEW r \in Role,
             \/ set_confirmed_state(r) \/ Persist(r) \/ Start(r)
             \/ Exit(r) \/ Crash(r)
      PROVE  TypeOK' /\ PaymentInv'
  BY <1>8, ConfirmedStep, PersistStep, StartStep, StopStep
<1>9. CASE UNCHANGED vars
  <2>1. UNCHANGED <<trade, file, requested, running, task, listening, payout, inbox, wallet,
                    chain, seen, used>>
    BY <1>9 DEF vars
  <2>2. TypeOK'
    BY <2>1 DEF TypeOK
  <2>3. StartedFirst' /\ ReceivedFirst'
    BY <2>1 DEF PaymentInv, StartedFirst, ReceivedFirst
  <2>4. SendsCounted' /\ SellerHoldsTx' /\ PublishedHoldsTx'
    BY <2>1 DEF PaymentInv, SendsCounted, Pending, SellerHoldsTx, PublishedHoldsTx
  <2> QED BY <2>2, <2>3, <2>4 DEF PaymentInv
<1> QED BY <1>1, <1>2, <1>3, <1>4, <1>5, <1>6, <1>7, <1>8, <1>9 DEF Next, Step

(* Both sides' trades, files, tasks and messages always fit together: what   *)
(* says that the payment was started, or has to do with the payout tx, comes *)
(* after the click it needs.                                                 *)
THEOREM PaymentInvariant == Spec => [](TypeOK /\ PaymentInv)
<1>1. TypeOK /\ PaymentInv /\ [Next]_vars => (TypeOK /\ PaymentInv)'
  BY PaymentNext
<1> QED BY <1>1, PaymentInit, PTL DEF Spec

(* The type invariant: the counters of the resends and of the seller's       *)
(* messages stay within their bounds.                                        *)
THEOREM TypeCorrect == Spec => []TypeOK
BY PaymentInvariant, PTL

(* No payout tx exists, in a wallet, a trade, a file or the network, unless  *)
(* the buyer has clicked that he paid and the seller that he was paid.       *)
THEOREM PayoutAuthorized == Spec => []PayoutIsAuthorized
<1>1. PaymentInv => PayoutIsAuthorized
  BY DEF PaymentInv, ReceivedFirst, StartedFirst, PayoutIsAuthorized
<1> QED BY <1>1, PaymentInvariant, PTL

(* Who believes that the payout was published holds the tx, in memory and in *)
(* the file it will start from.                                              *)
THEOREM PublishedHolds == Spec => []PublishedHoldsTx
<1>1. PaymentInv => PublishedHoldsTx
  BY DEF PaymentInv
<1> QED BY <1>1, PaymentInvariant, PTL
\* The buyer's trade is not in an earlier phase after a step
BuyerAhead == Phase(trade'["buyer"].state) >= Phase(trade["buyer"].state)

\* The phase of the buyer's trade is a number
LEMMA BuyerPhase ==
  ASSUME TypeOK
  PROVE  Phase(trade["buyer"].state) \in 2 .. 6
BY Sides, Phases DEF TradeModel

\* The buyer stays where it is
LEMMA BuyerStays ==
  ASSUME TypeOK, trade'["buyer"] = trade["buyer"]
  PROVE  BuyerAhead
BY BuyerPhase DEF BuyerAhead

\* The listener's setup takes the buyer no phase back
LEMMA ListenerAhead ==
  ASSUME NEW t \in TradeModel, NEW known \in BOOLEAN
  PROVE  /\ WithListener(t, known) \in TradeModel
         /\ Phase(WithListener(t, known).state) >= Phase(t.state)
<1>1. Phase(t.state) \in 2 .. 6
  BY Phases DEF TradeModel
<1> QED BY <1>1, ConfidenceApplied DEF WithListener

\* The task takes the buyer no phase back
LEMMA TaskAhead ==
  ASSUME TypeOK, NEW t \in TradeModel, Phase(t.state) >= Phase(trade["buyer"].state),
         RunSendTask(t) \/ trade' = [trade EXCEPT !["buyer"] = t]
  PROVE  BuyerAhead
<1>1. PICK u \in TradeModel :
        trade' = [trade EXCEPT !["buyer"] = u] /\ Phase(u.state) >= Phase(t.state)
  <2>1. Phase(t.state) \in 2 .. 6
    BY Phases DEF TradeModel
  <2>2. CASE RunSendTask(t)
    BY <2>2, SendTaskRuns
  <2>3. CASE trade' = [trade EXCEPT !["buyer"] = t]
    <3>1. Phase(t.state) >= Phase(t.state)
      BY <2>1
    <3> QED BY <2>3, <3>1, Zenon
  <2> QED BY <2>2, <2>3
<1>2. trade'["buyer"] = u
  BY <1>1, Sides DEF TypeOK
<1>3. Phase(t.state) \in 2 .. 6 /\ Phase(u.state) \in 2 .. 6
  BY Phases DEF TradeModel
<1> QED BY <1>1, <1>2, <1>3, BuyerPhase DEF BuyerAhead

\* The steps that change the buyer's trade
LEMMA BuyerStepsAhead ==
  ASSUME TypeOK,
         \/ ResendTimer \/ SawPayoutTx \/ handle_payout_tx_published_message
         \/ on_payment_started \/ set_confirmed_state("buyer") \/ Start("buyer")
  PROVE  BuyerAhead
<1>1. CASE ResendTimer
  BY <1>1, Sides, BuyerPhase, TaskAhead DEF ResendTimer
<1>2. CASE SawPayoutTx
  <2> DEFINE u == apply_confidence(trade["buyer"])
  <2>1. trade' = [trade EXCEPT !["buyer"] = u]
    BY <1>2, Sides DEF SawPayoutTx, TypeOK
  <2>2. u \in TradeModel /\ Phase(u.state) >= Phase(trade["buyer"].state)
    BY Sides, ConfidenceApplied
  <2> HIDE DEF u
  <2> QED BY <2>1, <2>2, TaskAhead
<1>3. CASE handle_payout_tx_published_message
  <2> DEFINE u == [state |-> "BUYER_RECEIVED_PAYOUT_TX_PUBLISHED_MSG", payout_tx |-> TRUE]
  <2>1. trade' = trade \/ trade' = [trade EXCEPT !["buyer"] = u]
    BY <1>3, Sides DEF handle_payout_tx_published_message
  <2>2. u \in TradeModel /\ Phase(u.state) = 6
    BY States, Phases DEF TradeModel
  <2> HIDE DEF u
  <2>3. Phase(u.state) >= Phase(trade["buyer"].state)
    BY <2>2, BuyerPhase
  <2> QED BY <2>1, <2>2, <2>3, TaskAhead, BuyerStays
<1>4. CASE on_payment_started
  <2> DEFINE t == [trade["buyer"] EXCEPT
                     !.state = "BUYER_CONFIRMED_IN_UI_FIAT_PAYMENT_INITIATED"]
  <2>1. t \in TradeModel /\ t.state = "BUYER_CONFIRMED_IN_UI_FIAT_PAYMENT_INITIATED"
    BY Sides, States DEF TradeModel
  <2>2. /\ Phase(trade["buyer"].state) = 3
        /\ \/ \E known \in BOOLEAN : RunSendTask(WithListener(t, known))
           \/ trade' = [trade EXCEPT !["buyer"] = t]
    BY <1>4, Sides DEF on_payment_started, PhaseOf, DEPOSIT_CONFIRMED
  <2> HIDE DEF t
  <2>3. Phase(t.state) = 4
    BY <2>1, Phases
  <2>4. ASSUME NEW known \in BOOLEAN, RunSendTask(WithListener(t, known))
        PROVE  BuyerAhead
    <3> DEFINE v == WithListener(t, known)
    <3>1. v \in TradeModel /\ Phase(v.state) >= 4
      BY <2>1, <2>3, ListenerAhead
    <3>2. RunSendTask(v)
      BY <2>4
    <3> HIDE DEF v
    <3>3. Phase(v.state) \in 2 .. 6
      BY <3>1, Phases DEF TradeModel
    <3>4. Phase(v.state) >= Phase(trade["buyer"].state)
      BY <2>2, <3>1, <3>3
    <3> QED BY <3>1, <3>2, <3>4, TaskAhead
  <2>5. Phase(t.state) >= Phase(trade["buyer"].state)
    BY <2>2, <2>3
  <2> QED BY <2>1, <2>2, <2>4, <2>5, TaskAhead
<1>5. CASE set_confirmed_state("buyer")
  <2> DEFINE u == [trade["buyer"] EXCEPT !.state = "DEPOSIT_CONFIRMED_IN_BLOCK_CHAIN"]
  <2>1. u \in TradeModel /\ u.state = "DEPOSIT_CONFIRMED_IN_BLOCK_CHAIN"
    BY Sides, States DEF TradeModel
  <2>2. trade' = [trade EXCEPT !["buyer"] = u]
    BY <1>5, Sides DEF set_confirmed_state, TypeOK
  <2>3. Phase(trade["buyer"].state) < 3
    BY <1>5 DEF set_confirmed_state, PhaseOf, DEPOSIT_CONFIRMED
  <2> HIDE DEF u
  <2>4. Phase(u.state) = 3
    BY <2>1, Phases
  <2>5. Phase(u.state) >= Phase(trade["buyer"].state)
    BY <2>3, <2>4, BuyerPhase
  <2> QED BY <2>1, <2>2, <2>5, TaskAhead
<1>6. CASE Start("buyer")
  <2>1. \/ trade' = trade
        \/ \E known \in BOOLEAN : SendAtStartup(WithListener(trade["buyer"], known))
        \/ SendAtStartup(trade["buyer"])
    BY <1>6, Sides DEF Start, BuyerStartup
  <2>2. ASSUME NEW known \in BOOLEAN, SendAtStartup(WithListener(trade["buyer"], known))
        PROVE  BuyerAhead
    <3> DEFINE v == WithListener(trade["buyer"], known)
    <3>1. v \in TradeModel /\ Phase(v.state) >= Phase(trade["buyer"].state)
      BY Sides, ListenerAhead
    <3>2. RunSendTask(v) \/ trade' = [trade EXCEPT !["buyer"] = v]
      BY <2>2 DEF SendAtStartup
    <3> HIDE DEF v
    <3> QED BY <3>1, <3>2, TaskAhead
  <2>3. ASSUME SendAtStartup(trade["buyer"]) PROVE BuyerAhead
    <3>1. WithListener(trade["buyer"], FALSE) = trade["buyer"]
      BY DEF WithListener
    <3> QED BY <2>2, <2>3, <3>1
  <2> QED BY <2>1, <2>2, <2>3, BuyerStays
<1> QED BY <1>1, <1>2, <1>3, <1>4, <1>5, <1>6

\* The steps that leave the buyer's trade alone
LEMMA OtherStepsStay ==
  ASSUME TypeOK,
         \/ WriteToSeller \/ on_arrived \/ on_failure \/ on_ack_message
         \/ handle_counter_currency_transfer_started_message \/ on_payment_received
         \/ on_broadcast_success \/ on_timeout \/ on_broadcast_failure \/ TxReachesNetwork
         \/ WriteToBuyer \/ on_payout_message_arrived \/ on_payout_message_failure
         \/ set_confirmed_state("seller") \/ Start("seller") \/ Crash("seller")
         \/ \E r \in Role : Persist(r) \/ Exit(r)
  PROVE  BuyerAhead
<1>1. CASE \/ WriteToSeller \/ on_arrived \/ on_failure \/ on_ack_message
           \/ on_broadcast_failure \/ TxReachesNetwork \/ WriteToBuyer
           \/ on_payout_message_failure \/ Start("seller")
           \/ \E r \in Role : Persist(r) \/ Exit(r)
  <2>1. trade' = trade
    BY <1>1 DEF WriteToSeller, on_arrived, on_failure, on_ack_message, on_broadcast_failure,
                TxReachesNetwork, WriteToBuyer, on_payout_message_failure, Start, Persist, Exit
  <2> QED BY <2>1, BuyerStays
<1>2. CASE \/ handle_counter_currency_transfer_started_message \/ on_payment_received
           \/ on_broadcast_success \/ on_timeout \/ on_payout_message_arrived
           \/ set_confirmed_state("seller") \/ Crash("seller")
  <2>1. trade \in [Role -> TradeModel]
    BY DEF TypeOK
  <2>2. trade' = trade \/ \E u : trade' = [trade EXCEPT !["seller"] = u]
    <3>1. CASE handle_counter_currency_transfer_started_message
      BY <3>1 DEF handle_counter_currency_transfer_started_message
    <3>2. CASE on_payment_received
      BY <3>2 DEF on_payment_received, PublishedThenSend
    <3>3. CASE on_broadcast_success \/ on_timeout
      BY <3>3 DEF on_broadcast_success, on_timeout, PublishedThenSend
    <3>4. CASE on_payout_message_arrived
      BY <3>4 DEF on_payout_message_arrived
    <3>5. CASE set_confirmed_state("seller") \/ Crash("seller")
      BY <3>5 DEF set_confirmed_state, Crash
    <3> QED BY <1>2, <3>1, <3>2, <3>3, <3>4, <3>5
  <2>3. trade'["buyer"] = trade["buyer"]
    BY <2>1, <2>2, Sides
  <2> QED BY <2>3, BuyerStays
<1> QED BY <1>1, <1>2

(* No callback, timer or message takes the buyer's trade back to an earlier  *)
(* phase, whatever is late or repeated; only a crash does.                   *)
THEOREM BuyerKeepsPhase == Spec => BuyerNeverRegresses
<1>1. ASSUME TypeOK, TypeOK', [Next]_vars
      PROVE  [Phase(trade'.buyer.state) >= Phase(trade.buyer.state) \/ Crash("buyer")]_vars
  <2>1. trade.buyer = trade["buyer"] /\ trade'.buyer = trade'["buyer"]
    OBVIOUS
  <2>2. UNCHANGED vars \/ BuyerAhead \/ Crash("buyer")
    <3>1. ASSUME NEW r \in Role,
                 \/ set_confirmed_state(r) \/ Persist(r) \/ Start(r)
                 \/ Exit(r) \/ Crash(r)
          PROVE  BuyerAhead \/ Crash("buyer")
      <4>1. CASE r = "buyer"
        BY <1>1, <3>1, <4>1, BuyerStepsAhead, OtherStepsStay
      <4>2. CASE r = "seller"
        BY <1>1, <3>1, <4>2, OtherStepsStay
      <4> QED BY <4>1, <4>2 DEF Role
    <3>2. CASE UNCHANGED vars
      BY <3>2
    <3>3. CASE Next
      BY <1>1, <3>1, <3>3, BuyerStepsAhead, OtherStepsStay DEF Next, Step
    <3> QED BY <1>1, <3>2, <3>3
  <2> QED BY <2>1, <2>2 DEF BuyerAhead
<1> QED BY <1>1, TypeCorrect, PTL DEF Spec, BuyerNeverRegresses
=============================================================================
