------------------------------ MODULE OpenOffers ------------------------------
(***************************************************************************)
(* A maker's open offer (OpenOfferManager, OpenOffer, TriggerPriceService,  *)
(* OfferBookService), the takers who ask for it and take it                 *)
(* (OfferAvailabilityProtocol, TradeManager), and the two files that        *)
(* remember it, OpenOffers and PendingTrades. An offer can be taken once:   *)
(*                                                                         *)
(*   AVAILABLE --a take offer request--> RESERVED --commit--> closed        *)
(*       ^-----------60 seconds--------------'                             *)
(*                                                                         *)
(* The reservation is shorter than the step of the trade protocol it is    *)
(* for, so a second taker may come while the first one's trade is open; the *)
(* protocol of the first is reset then. The trades of an offer have its id. *)
(*                                                                         *)
(* An edit replaces the OpenOffer object. A replaced, cancelled or closed   *)
(* one stays with the TriggerPriceService: the discard of it from the set   *)
(* of its currency finds nothing, as its Offer, part of its hash, was made  *)
(* REMOVED before, and a closed one is not even discarded.                  *)
(*                                                                         *)
(* Left out: offers that share a maker fee, which nothing creates; the      *)
(* rewrite of offers at a software update; wallet and DAO out of sync, and  *)
(* other reasons to refuse a taker, who may also give up; the rest of the   *)
(* trade (see TakeOffer). The expiry of an offer nobody refreshes is that   *)
(* of P2PDataStorage; here it ends when the application is down.            *)
(***************************************************************************)
EXTENDS Naturals

CONSTANTS
  Taker,       \* traders who may take the offer, each once
  MaxPayload,  \* bound: OfferPayloads the offer has, 1 before edits of its price
  MaxPrice,    \* bound: market prices 1 .. MaxPrice, trigger prices below
  MaxEdits,    \* bound: edits
  MaxFailures, \* bound: publications that fail
  MaxStops     \* bound: exits and crashes

ASSUME OpenOffersAssumption ==
  /\ {MaxEdits, MaxFailures, MaxStops} \subseteq Nat
  /\ {MaxPayload, MaxPrice} \subseteq Nat \ {0}

VARIABLES
  offer,      \* the OpenOffer in the list
  placed,     \* the offer has been placed
  replaced,   \* OpenOffers that left the list, still with the TriggerPriceService
  book,       \* payloads of the maker in the offer book of the network
  price,      \* the market price
  taker,      \* taker[t]: how far t has come
  trades,     \* takers whose trade is in the maker's tradable_list
  latest,     \* the one of them that is the last in the list
  listening,  \* the one of them whose protocol listens to direct messages
  committed,  \* takers to whose trade the maker has committed, by signing
  file,       \* the files OpenOffers and PendingTrades
  requested,  \* the files whose persistence is requested
  running,    \* the maker's application runs
  lost,       \* history: a crash lost what was not written
  edits, failures, stops  \* how much of each bound is used up

vars == <<offer, placed, replaced, book, price, taker, trades, latest, listening, committed,
          file, requested, running, lost, edits, failures, stops>>

Payload == 1 .. MaxPayload
Trigger == 0 .. MaxPrice - 1  \* 0: no trigger price
File == {"OpenOffers", "PendingTrades"}

OpenOffer ==
  [state : {"AVAILABLE", "RESERVED", "DEACTIVATED"},
   payload : Payload,
   trigger_price : Trigger,
   timer : BOOLEAN,                                  \* one that ends a reservation
   fee : {"NOT_CHECKED_YET", "checking", "checked"}] \* fee_validation_status
NoOffer == [state |-> "NONE"]  \* there is no OpenOffer in the list

TypeOK ==
  /\ offer \in OpenOffer \cup {NoOffer}
  /\ placed \in BOOLEAN
  /\ replaced \subseteq [payload : Payload, trigger_price : Trigger, checking : BOOLEAN]
  /\ book \subseteq Payload
  /\ price \in 1 .. MaxPrice
  /\ taker \in [Taker -> {"idle", "asking", "available", "requesting", "taking", "done"}]
  /\ trades \subseteq Taker
  /\ latest \subseteq trades
  /\ listening \subseteq latest
  /\ committed \subseteq Taker
  /\ file \in [offer : OpenOffer \cup {NoOffer}, trades : SUBSET Taker, latest : SUBSET Taker]
  /\ requested \subseteq File
  /\ running \in BOOLEAN
  /\ lost \in BOOLEAN
  /\ edits \in 0 .. MaxEdits
  /\ failures \in 0 .. MaxFailures
  /\ stops \in 0 .. MaxStops

Init ==
  /\ offer = NoOffer
  /\ placed = FALSE
  /\ replaced = {}
  /\ book = {}
  /\ price = 1
  /\ taker = [t \in Taker |-> "idle"]
  /\ trades = {}
  /\ latest = {}
  /\ listening = {}
  /\ committed = {}
  /\ file = [offer |-> NoOffer, trades |-> {}, latest |-> {}]
  /\ requested = {}
  /\ running = TRUE
  /\ lost = FALSE
  /\ edits = 0
  /\ failures = 0
  /\ stops = 0

-----------------------------------------------------------------------------
(* Common parts of the actions                                             *)

InList == offer # NoOffer
request_persistence(files) == requested' = requested \cup files

\* The setter of OpenOffer.state starts a timer for a reservation. It is not kept, so
\* that stop_timeout stops nothing: it fires, also into a later reservation
MutantNoTimer(o, s) == [o EXCEPT !.state = s]
SetState(o, s) == [o EXCEPT !.state = s, !.timer = @ \/ s = "RESERVED"]

NewOpenOffer(p, trigger) ==
  [state |-> "AVAILABLE", payload |-> p, trigger_price |-> trigger, timer |-> FALSE,
   fee |-> "NOT_CHECKED_YET"]

\* A buyer of bitcoin has a trigger price above which the offer is not for sale; that
\* of a seller is the mirror image
was_triggered(o, p) == o.trigger_price > 0 /\ p > o.trigger_price

\* _prevented_from_publishing
MutantOnlyChecked(o) == o.state = "DEACTIVATED" \/ o.fee = "NOT_CHECKED_YET"
MutantNothingPrevents(o) == FALSE
prevented_from_publishing(o) == o.state = "DEACTIVATED"

\* add_offer of OfferBookService, with the book b; it may fail
add_offer(o, b) ==
  \/ /\ book' = b \cup {o.payload}
     /\ UNCHANGED failures
  \/ /\ failures < MaxFailures
     /\ failures' = failures + 1
     /\ book' = b

\* _on_added_open_offers, and the publication after it: an offer whose trigger price has
\* been passed is deactivated and taken out of the book, one that is not deactivated is
\* published
Add(o, b, triggered) ==
  /\ offer' = IF triggered THEN SetState(o, "DEACTIVATED") ELSE o
  /\ IF prevented_from_publishing(offer')
     THEN book' = (IF triggered THEN b \ {o.payload} ELSE b) /\ UNCHANGED failures
     ELSE add_offer(o, b)

\* _on_removed_open_offers: the object that leaves the list is kept
Remove ==
  replaced' = replaced \cup
    {[payload |-> offer.payload, trigger_price |-> offer.trigger_price,
      checking |-> offer.fee = "checking"]}

-----------------------------------------------------------------------------
(* The maker                                                               *)

\* place_offer: into the book, and if that succeeds into the list
place_offer(trigger) ==
  /\ running /\ ~ placed
  /\ placed' = TRUE
  /\ LET o == NewOpenOffer(1, trigger)
     IN  Add(o, book, was_triggered(o, price)) /\ failures' = failures
  /\ request_persistence({"OpenOffers"})
  /\ UNCHANGED <<replaced, price, taker, trades, latest, listening, committed, file, running,
                 lost, edits, stops>>

\* edit_offer: edit_open_offer_start takes the offer out of the book, and
\* edit_open_offer_publish replaces it, keeping its state or giving it another. The
\* payload is the same if only the trigger price or the state is edited
edit_offer(p, trigger, s) ==
  /\ running /\ InList
  /\ edits < MaxEdits
  /\ edits' = edits + 1
  /\ s \in {offer.state, "AVAILABLE", "DEACTIVATED"}
  /\ Remove
  /\ LET o == SetState(NewOpenOffer(p, trigger), s)
     IN  Add(o, book \ {offer.payload}, was_triggered(o, price))
  /\ request_persistence({"OpenOffers"})
  /\ UNCHANGED <<placed, price, taker, trades, latest, listening, committed, file, running,
                 lost, stops>>

\* remove_offer, by the user's cancel, which a reservation does not prevent
remove_offer ==
  /\ running /\ InList
  /\ book' = book \ {offer.payload}
  /\ Remove
  /\ offer' = NoOffer
  /\ request_persistence({"OpenOffers"})
  /\ UNCHANGED <<placed, price, taker, trades, latest, listening, committed, file, running,
                 lost, edits, failures, stops>>

\* _on_price_feed_changed: every offer that is not deactivated and whose trigger price has
\* been passed is deactivated, replaced ones too; for an available one that is left the
\* check of the maker fee may be started
Hit(p) == {r \in replaced : was_triggered(r, p)}
on_price_feed_changed(p) ==
  /\ running
  /\ price' = p
  /\ replaced' = replaced \ Hit(p)
  /\ LET b == book \ {r.payload : r \in Hit(p)}
     IN  \/ /\ InList /\ offer.state # "DEACTIVATED" /\ was_triggered(offer, p)
            /\ offer' = SetState(offer, "DEACTIVATED")
            /\ book' = b \ {offer.payload}
         \/ /\ ~ (InList /\ offer.state # "DEACTIVATED" /\ was_triggered(offer, p))
            /\ book' = b
            /\ offer' \in {offer} \cup
                 {[o EXCEPT !.fee = "checking"] : o \in
                    {o \in {offer} : o.state = "AVAILABLE" /\ o.fee = "NOT_CHECKED_YET"}}
  /\ request_persistence(IF Hit(p) # {} \/ offer'.state # offer.state
                         THEN {"OpenOffers"} ELSE {})
  /\ UNCHANGED <<placed, taker, trades, latest, listening, committed, file, running, lost,
                 edits, failures, stops>>

\* on_validation of _maybe_check_offer_fee, the answer of the mempool service: an offer
\* whose fee is not valid is deactivated, whatever it has become in the meantime
on_validation(valid) ==
  /\ running /\ InList
  /\ offer.fee = "checking"
  /\ LET o == [offer EXCEPT !.fee = "checked"]
     IN  IF valid THEN offer' = o /\ UNCHANGED <<book, requested>>
         ELSE /\ offer' = SetState(o, "DEACTIVATED")
              /\ book' = book \ {o.payload}
              /\ request_persistence({"OpenOffers"})
  /\ UNCHANGED <<placed, replaced, price, taker, trades, latest, listening, committed, file,
                 running, lost, edits, failures, stops>>
on_validation_of_replaced(r, valid) ==
  /\ running
  /\ r \in replaced /\ r.checking
  /\ IF valid
     THEN /\ replaced' = (replaced \ {r}) \cup {[r EXCEPT !.checking = FALSE]}
          /\ UNCHANGED <<book, requested>>
     ELSE /\ replaced' = replaced \ {r}
          /\ book' = book \ {r.payload}
          /\ request_persistence({"OpenOffers"})
  /\ UNCHANGED <<offer, placed, price, taker, trades, latest, listening, committed, file,
                 running, lost, edits, failures, stops>>

\* republish_offers: every 40 minutes, after a failure, and when connections come back
republish_offers ==
  /\ running /\ InList
  /\ ~ prevented_from_publishing(offer)
  /\ add_offer(offer, book)
  /\ UNCHANGED <<offer, placed, replaced, price, taker, trades, latest, listening, committed,
                 file, requested, running, lost, edits, stops>>

\* _on_timed_out of the OpenOffer; not persisted
on_timed_out ==
  /\ running /\ InList
  /\ offer.timer
  /\ offer' = [offer EXCEPT !.timer = FALSE,
                             !.state = IF @ = "RESERVED" THEN "AVAILABLE" ELSE @]
  /\ UNCHANGED <<placed, replaced, book, price, taker, trades, latest, listening, committed,
                 file, requested, running, lost, edits, failures, stops>>

-----------------------------------------------------------------------------
(* Takers                                                                  *)

Becomes(t, from, to) == taker[t] = from /\ taker' = [taker EXCEPT ![t] = to]
makerVars == <<offer, placed, replaced, book, price, trades, latest, listening, committed,
               file, requested, running, lost, edits, failures, stops>>

\* send_offer_availability_request of a taker who has seen the offer
send_offer_availability_request(t) ==
  /\ placed
  /\ Becomes(t, "idle", "asking")
  /\ UNCHANGED makerVars

\* handle_offer_availability_request of an available offer, which is not reserved by it.
\* A taker who is refused, or not answered in time, takes no further step
handle_offer_availability_request(t) ==
  /\ running /\ InList
  /\ offer.state = "AVAILABLE"
  /\ Becomes(t, "asking", "available")
  /\ UNCHANGED makerVars

\* handle_offer_availability_response: on_take_offer goes on, whatever has become of the
\* offer since the maker answered
handle_offer_availability_response(t) ==
  /\ Becomes(t, "available", "requesting")
  /\ UNCHANGED makerVars

\* handle_take_offer_request of TradeManager, with create_trade_protocol, which resets
\* the protocol of an earlier trade of the offer. A request for an offer that is not
\* available any more is ignored
MutantNoReset(t) == listening' = listening \cup {t}
ResetPending(t) == listening' = {t}
handle_take_offer_request(t) ==
  /\ running
  /\ IF InList /\ offer.state = "AVAILABLE"
     THEN /\ Becomes(t, "requesting", "taking")
          /\ offer' = SetState(offer, "RESERVED")
          /\ trades' = trades \cup {t}
          /\ latest' = {t}
          /\ ResetPending(t)
          /\ request_persistence(File)
     ELSE /\ Becomes(t, "requesting", "done")
          /\ UNCHANGED <<offer, trades, latest, listening, requested>>
  /\ UNCHANGED <<placed, replaced, book, price, committed, file, running, lost, edits,
                 failures, stops>>

\* MakerRemovesOpenOffer, the first task of the maker's next step: close_open_offer, which
\* finds the offer by its maker fee tx if it is still there; then the maker signs
MutantNotClosed == UNCHANGED <<offer, replaced, book>>
close_open_offer ==
  IF InList
  THEN offer' = NoOffer /\ Remove /\ book' = book \ {offer.payload}
  ELSE UNCHANGED <<offer, replaced, book>>
MakerRemovesOpenOffer(t) ==
  /\ running
  /\ t \in listening
  /\ Becomes(t, "taking", "done")
  /\ close_open_offer
  /\ committed' = committed \cup {t}
  /\ request_persistence(IF InList THEN File ELSE {"PendingTrades"})
  /\ UNCHANGED <<placed, price, trades, latest, listening, file, running, lost, edits,
                 failures, stops>>

-----------------------------------------------------------------------------
(* Persistence, exit and start                                             *)

\* to_proto_message of the OpenOffer leaves out what is transient
Persistable(o) ==
  IF o = NoOffer THEN o ELSE [o EXCEPT !.timer = FALSE, !.fee = "NOT_CHECKED_YET"]

Persist(f) ==
  /\ running /\ f \in requested
  /\ requested' = requested \ {f}
  /\ file' = IF f = "OpenOffers" THEN [file EXCEPT !.offer = Persistable(offer)]
             ELSE [file EXCEPT !.trades = trades, !.latest = latest]
  /\ UNCHANGED <<offer, placed, replaced, book, price, taker, trades, latest, listening,
                 committed, running, lost, edits, failures, stops>>

Stop ==
  /\ running /\ stops < MaxStops
  /\ stops' = stops + 1
  /\ running' = FALSE
  /\ replaced' = {}
  /\ listening' = {}
  /\ requested' = {}
  /\ UNCHANGED <<placed, price, taker, committed, edits, failures>>

\* shut_down takes the offers out of the book; both files have source PRIVATE and are
\* flushed (see PersistenceManager)
shut_down ==
  /\ Stop
  /\ book' = IF InList THEN book \ {offer.payload} ELSE book
  /\ offer' = Persistable(offer)
  /\ file' = [offer |-> offer', trades |-> trades, latest |-> latest]
  /\ UNCHANGED <<trades, latest, lost>>

Crash ==
  /\ Stop
  /\ offer' = file.offer
  /\ trades' = file.trades
  /\ latest' = file.latest
  /\ lost' = (lost \/ requested # {})
  /\ UNCHANGED <<book, file>>

\* Nobody refreshes the offers of a maker who is offline
OffersExpire ==
  /\ ~ running /\ book # {}
  /\ book' = {}
  /\ UNCHANGED <<offer, placed, replaced, price, taker, trades, latest, listening, committed,
                 file, requested, running, lost, edits, failures, stops>>

\* The constructor of OpenOffer, for one that is read from its file
FromFile(o) == IF o.state = "RESERVED" THEN [o EXCEPT !.state = "AVAILABLE"] ELSE o

\* read_persisted, on_bootstrap_complete and init_persisted_trades: get_trade_protocol
\* resets the protocols of an offer's trades but for the last in the list. The market
\* price may not be known yet
Start ==
  /\ ~ running
  /\ running' = TRUE
  /\ listening' = latest
  /\ \/ /\ InList
        /\ \E known \in BOOLEAN :
             LET triggered == known /\ was_triggered(offer, price)
             IN  /\ Add(FromFile(offer), book, triggered)
                 /\ request_persistence({"PendingTrades"} \cup
                                        IF triggered THEN {"OpenOffers"} ELSE {})
     \/ /\ ~ InList
        /\ request_persistence({"PendingTrades"})
        /\ UNCHANGED <<offer, book, failures>>
  /\ UNCHANGED <<placed, replaced, price, taker, trades, latest, committed, file, lost, edits,
                 stops>>

-----------------------------------------------------------------------------
Next ==
  \/ \E trigger \in Trigger :
       \/ place_offer(trigger)
       \/ \E p \in Payload, s \in {"AVAILABLE", "RESERVED", "DEACTIVATED"} : edit_offer(p, trigger, s)
  \/ remove_offer \/ republish_offers \/ on_timed_out
  \/ \E p \in 1 .. MaxPrice : on_price_feed_changed(p)
  \/ \E valid \in BOOLEAN :
       \/ on_validation(valid)
       \/ \E r \in replaced : on_validation_of_replaced(r, valid)
  \/ \E t \in Taker :
       \/ send_offer_availability_request(t)
       \/ handle_offer_availability_request(t) \/ handle_offer_availability_response(t)
       \/ handle_take_offer_request(t) \/ MakerRemovesOpenOffer(t)
  \/ \E f \in File : Persist(f)
  \/ shut_down \/ Crash \/ OffersExpire \/ Start

Spec == Init /\ [][Next]_vars

\* Timers fire, the periodic republication among them, and who was stopped is started
\* again
FairSpec ==
  /\ Spec
  /\ WF_vars(on_timed_out) /\ WF_vars(republish_offers) /\ WF_vars(Start)

-----------------------------------------------------------------------------
(* The maker commits to one trade of an offer at most, though a reservation *)
(* ends before the trade does, the offer is edited, and the application is  *)
(* restarted: the protocol of a trade the maker has not committed to is     *)
(* reset before another taker's is started. Only a crash that loses what is *)
(* not yet written can undo this.                                           *)
OneCommittedTrade ==
  ~ lost => \A t, u \in committed : t = u

(* No later request takes the protocol away from a trade the maker has      *)
(* committed to: it goes on listening, after a restart too.                 *)
CommittedTradeListens ==
  ~ lost /\ running => committed \subseteq listening

(* Nothing is left in the offer book that is not the maker's open and       *)
(* active offer as it is now: not after an edit, a cancel, a trade, a       *)
(* deactivation in any state, or an exit; after a crash only if it lost a   *)
(* change.                                                                  *)
NoGhostOffer ==
  ~ lost /\ running =>
    \A p \in book : InList /\ offer.payload = p /\ offer.state # "DEACTIVATED"

(* A reservation does not last for ever, with an edit in between or not     *)
(* ("We keep it reserved for a limited time", OpenOffer.state).             *)
ReservationEnds ==
  InList /\ offer.state = "RESERVED" ~> ~ (InList /\ offer.state = "RESERVED")

(* An available offer is in the offer book sooner or later, after failed    *)
(* publications and restarts too.                                           *)
AvailableIsPublished ==
  InList /\ offer.state = "AVAILABLE" ~>
    ~ InList \/ offer.state # "AVAILABLE" \/ offer.payload \in book

(* The market price takes an offer out of the book only when it deactivates *)
(* it: "If market price reaches that trigger price the offer gets           *)
(* deactivated" (open_offer.py). An offer that stays available stays in the *)
(* book.                                                                    *)
PriceRespectsAvailable ==
  [][\A p \in 1 .. MaxPrice :
       on_price_feed_changed(p) /\ InList /\ offer.payload \in book
         => offer'.state = "DEACTIVATED" \/ offer.payload \in book']_vars
=============================================================================
