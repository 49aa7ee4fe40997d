--------------------------- MODULE OpenOffersProofs ---------------------------
(* Theorems about OpenOffers, for any takers, payloads, prices and bounds.   *)
EXTENDS OpenOffers, TLAPS

-----------------------------------------------------------------------------
(* The inductive invariant                                                 *)

\* One trade of the offer at most is the last, in the list as in its file
OneLatest ==
  /\ \A t, u \in latest : t = u
  /\ \A t, u \in file.latest : t = u
  /\ file.latest \subseteq file.trades

\* Before the offer is placed there is nothing of it
NothingBefore ==
  ~ placed => /\ offer = NoOffer /\ file.offer = NoOffer
              /\ latest = {} /\ file.latest = {} /\ listening = {} /\ committed = {}

\* A file whose persistence is not requested has the trades, or the offer but for its state,
\* where it has a deactivated one only of an offer that is deactivated
FilesAgree ==
  /\ "OpenOffers" \notin requested =>
       /\ offer = NoOffer <=> file.offer = NoOffer
       /\ InList => file.offer.payload = offer.payload
       /\ InList /\ file.offer.state = "DEACTIVATED" => offer.state = "DEACTIVATED"
  /\ "PendingTrades" \notin requested => file.latest = latest

\* The trade the maker has committed to is the last, listens, and has closed the offer
CommitmentKept ==
  ~ lost => /\ committed \subseteq latest
            /\ running => committed \subseteq listening
            /\ committed # {} => offer = NoOffer

\* The book has the payload of the offer at most, and never that of a deactivated one
BookAgrees ==
  ~ lost => \A p \in book : InList /\ offer.payload = p /\ offer.state # "DEACTIVATED"

OffersInv == OneLatest /\ NothingBefore /\ FilesAgree /\ CommitmentKept /\ BookAgrees
-----------------------------------------------------------------------------
(* What the operators return                                               *)

\* An OpenOffer is told from no offer by its state
LEMMA OfferIsInList ==
  ASSUME TypeOK
  PROVE  /\ InList => offer \in OpenOffer
         /\ file.offer # NoOffer => file.offer \in OpenOffer
         /\ NoOffer \notin OpenOffer
BY DEF TypeOK, InList, NoOffer, OpenOffer

\* A new OpenOffer, and one that is given a state
LEMMA OfferOperators ==
  /\ \A p \in Payload, trigger \in Trigger :
       NewOpenOffer(p, trigger) \in OpenOffer /\ NewOpenOffer(p, trigger).payload = p
  /\ \A o \in OpenOffer, s \in {"AVAILABLE", "RESERVED", "DEACTIVATED"} :
       /\ SetState(o, s) \in OpenOffer
       /\ SetState(o, s).payload = o.payload /\ SetState(o, s).state = s
<1>1. ASSUME NEW p \in Payload, NEW trigger \in Trigger
      PROVE  NewOpenOffer(p, trigger) \in OpenOffer /\ NewOpenOffer(p, trigger).payload = p
  BY DEF NewOpenOffer, OpenOffer
<1>2. ASSUME NEW o \in OpenOffer, NEW s \in {"AVAILABLE", "RESERVED", "DEACTIVATED"}
      PROVE  /\ SetState(o, s) \in OpenOffer
             /\ SetState(o, s).payload = o.payload /\ SetState(o, s).state = s
  <2> DEFINE timer == o.timer \/ s = "RESERVED"
  <2>1. timer \in BOOLEAN
    OBVIOUS
  <2>2. SetState(o, s) = [o EXCEPT !.state = s, !.timer = timer]
    BY DEF SetState
  <2> HIDE DEF timer
  <2> QED BY <2>1, <2>2 DEF OpenOffer
<1> QED BY <1>1, <1>2

\* What is written to the file and read from it
LEMMA FileOperators ==
  /\ Persistable(NoOffer) = NoOffer
  /\ \A o \in OpenOffer :
       /\ Persistable(o) \in OpenOffer /\ Persistable(o).payload = o.payload
       /\ Persistable(o).state = o.state
       /\ FromFile(o) \in OpenOffer /\ FromFile(o).payload = o.payload
       /\ FromFile(o).state = "DEACTIVATED" <=> o.state = "DEACTIVATED"
<1>1. NoOffer \notin OpenOffer
  BY DEF NoOffer, OpenOffer
<1>2. ASSUME NEW o \in OpenOffer
      PROVE  /\ Persistable(o) \in OpenOffer /\ Persistable(o).payload = o.payload
             /\ Persistable(o).state = o.state
             /\ FromFile(o) \in OpenOffer /\ FromFile(o).payload = o.payload
             /\ FromFile(o).state = "DEACTIVATED" <=> o.state = "DEACTIVATED"
  <2>1. o # NoOffer
    BY <1>1
  <2>2. Persistable(o) = [o EXCEPT !.timer = FALSE, !.fee = "NOT_CHECKED_YET"]
    BY <2>1 DEF Persistable
  <2>3. /\ Persistable(o) \in OpenOffer /\ Persistable(o).payload = o.payload
        /\ Persistable(o).state = o.state
    BY <2>2 DEF OpenOffer
  <2>4. /\ FromFile(o) \in OpenOffer /\ FromFile(o).payload = o.payload
        /\ FromFile(o).state = "DEACTIVATED" <=> o.state = "DEACTIVATED"
    BY DEF FromFile, OpenOffer
  <2> QED BY <2>3, <2>4
<1> QED BY <1>2 DEF Persistable

\* A publication adds the payload, or fails
LEMMA AddOfferOf ==
  ASSUME TypeOK, NEW o \in OpenOffer, NEW b \in SUBSET Payload, add_offer(o, b)
  PROVE  /\ book' \in SUBSET Payload /\ book' \subseteq b \cup {o.payload}
         /\ failures' \in 0 .. MaxFailures
<1>1. o.payload \in Payload /\ failures \in 0 .. MaxFailures /\ MaxFailures \in Nat
  BY OpenOffersAssumption DEF OpenOffer, TypeOK
<1> QED BY <1>1 DEF add_offer

\* An offer that is added is in the list, and in the book if it is not deactivated
LEMMA AddOf ==
  ASSUME TypeOK, NEW o \in OpenOffer, NEW b \in SUBSET Payload, NEW triggered \in BOOLEAN,
         Add(o, b, triggered)
  PROVE  /\ offer' \in OpenOffer /\ offer'.payload = o.payload
         /\ book' \in SUBSET Payload /\ book' \subseteq b \cup {o.payload}
         /\ offer'.state = "DEACTIVATED" =>
              book' = b \ {o.payload} \/ (o.state = "DEACTIVATED" /\ book' = b)
         /\ o.state = "DEACTIVATED" => offer'.state = "DEACTIVATED"
         /\ failures' \in 0 .. MaxFailures
<1>1. offer' = SetState(o, "DEACTIVATED") \/ offer' = o
  BY DEF Add
<1>2. /\ offer' \in OpenOffer /\ offer'.payload = o.payload
      /\ o.state = "DEACTIVATED" => offer'.state = "DEACTIVATED"
  BY <1>1, OfferOperators
<1>3. CASE offer'.state = "DEACTIVATED"
  <2>1. /\ book' = b \ {o.payload} \/ (o.state = "DEACTIVATED" /\ book' = b)
        /\ failures' = failures
    BY <1>3 DEF Add, prevented_from_publishing
  <2> QED BY <1>2, <1>3, <2>1 DEF TypeOK
<1>4. CASE offer'.state # "DEACTIVATED"
  <2>1. add_offer(o, b)
    BY <1>4 DEF Add, prevented_from_publishing
  <2> QED BY <1>2, <1>4, <2>1, AddOfferOf
<1> QED BY <1>3, <1>4

\* The object that leaves the list
LEMMA RemoveOf ==
  ASSUME TypeOK, InList, Remove
  PROVE  replaced' \subseteq [payload : Payload, trigger_price : Trigger, checking : BOOLEAN]
<1> DEFINE checking == offer.fee = "checking"
           r == [payload |-> offer.payload, trigger_price |-> offer.trigger_price,
                 checking |-> checking]
<1>1. checking \in BOOLEAN
  OBVIOUS
<1>2. offer.payload \in Payload /\ offer.trigger_price \in Trigger
  BY OfferIsInList DEF OpenOffer
<1>3. replaced' = replaced \cup {r}
  BY DEF Remove
<1> HIDE DEF checking
<1>4. r \in [payload : Payload, trigger_price : Trigger, checking : BOOLEAN]
  BY <1>1, <1>2
<1> QED BY <1>3, <1>4 DEF TypeOK

-----------------------------------------------------------------------------
(* Type correctness                                                        *)

\* The steps of a behaviour
LEMMA StepActions ==
  ASSUME [Next]_vars
  PROVE  \/ UNCHANGED vars
         \/ \E trigger \in Trigger : place_offer(trigger)
         \/ \E trigger \in Trigger, p \in Payload,
               s \in {"AVAILABLE", "RESERVED", "DEACTIVATED"} : edit_offer(p, trigger, s)
         \/ remove_offer \/ republish_offers \/ on_timed_out
         \/ \E p \in 1 .. MaxPrice : on_price_feed_changed(p)
         \/ \E valid \in BOOLEAN : on_validation(valid)
         \/ \E valid \in BOOLEAN, r \in replaced : on_validation_of_replaced(r, valid)
         \/ \E t \in Taker :
              \/ send_offer_availability_request(t)
              \/ handle_offer_availability_request(t) \/ handle_offer_availability_response(t)
              \/ handle_take_offer_request(t) \/ MakerRemovesOpenOffer(t)
         \/ \E f \in File : Persist(f)
         \/ shut_down \/ Crash \/ OffersExpire \/ Start
BY DEF Next

\* Every step of the maker with the offer keeps the types
LEMMA MakerTypes ==
  ASSUME TypeOK
  PROVE  /\ \A trigger \in Trigger : place_offer(trigger) => TypeOK'
         /\ \A trigger \in Trigger, p \in Payload,
               s \in {"AVAILABLE", "RESERVED", "DEACTIVATED"} : edit_offer(p, trigger, s) => TypeOK'
         /\ remove_offer => TypeOK'
         /\ republish_offers => TypeOK'
         /\ on_timed_out => TypeOK'
<1>0. InList => offer \in OpenOffer
  BY OfferIsInList
<1>1. ASSUME NEW trigger \in Trigger, place_offer(trigger) PROVE TypeOK'
  <2> DEFINE o == NewOpenOffer(1, trigger)
             triggered == was_triggered(o, price)
  <2>1. o \in OpenOffer /\ book \in SUBSET Payload
    BY OfferOperators, OpenOffersAssumption DEF TypeOK, Payload
  <2>2. triggered \in BOOLEAN
    BY DEF was_triggered
  <2>3. Add(o, book, triggered)
    BY <1>1 DEF place_offer
  <2> HIDE DEF o, triggered
  <2>4. offer' \in OpenOffer /\ book' \in SUBSET Payload /\ failures' \in 0 .. MaxFailures
    BY <2>1, <2>2, <2>3, AddOf
  <2> QED BY <1>1, <2>4 DEF place_offer, request_persistence, File, TypeOK
<1>2. ASSUME NEW trigger \in Trigger, NEW p \in Payload,
             NEW s \in {"AVAILABLE", "RESERVED", "DEACTIVATED"}, edit_offer(p, trigger, s)
      PROVE  TypeOK'
  <2> DEFINE o == SetState(NewOpenOffer(p, trigger), s)
             triggered == was_triggered(o, price)
             b == book \ {offer.payload}
  <2>1. o \in OpenOffer /\ b \in SUBSET Payload
    BY OfferOperators DEF TypeOK
  <2>2. triggered \in BOOLEAN
    BY DEF was_triggered
  <2>3. Add(o, b, triggered)
    BY <1>2 DEF edit_offer
  <2> HIDE DEF o, triggered, b
  <2>4. offer' \in OpenOffer /\ book' \in SUBSET Payload /\ failures' \in 0 .. MaxFailures
    BY <2>1, <2>2, <2>3, AddOf
  <2>5. replaced' \subseteq [payload : Payload, trigger_price : Trigger, checking : BOOLEAN]
    BY <1>2, RemoveOf DEF edit_offer
  <2>6. edits' \in 0 .. MaxEdits
    BY <1>2, OpenOffersAssumption DEF edit_offer, TypeOK
  <2> QED BY <1>2, <2>4, <2>5, <2>6 DEF edit_offer, request_persistence, File, TypeOK
<1>3. ASSUME remove_offer PROVE TypeOK'
  <2>1. replaced' \subseteq [payload : Payload, trigger_price : Trigger, checking : BOOLEAN]
    BY <1>3, RemoveOf DEF remove_offer
  <2> QED BY <1>3, <2>1 DEF remove_offer, request_persistence, File, TypeOK
<1>4. ASSUME republish_offers PROVE TypeOK'
  <2>1. book' \in SUBSET Payload /\ failures' \in 0 .. MaxFailures
    BY <1>0, <1>4, AddOfferOf DEF republish_offers, TypeOK
  <2> QED BY <1>4, <2>1 DEF republish_offers, TypeOK
<1>5. ASSUME on_timed_out PROVE TypeOK'
  <2>1. offer \in OpenOffer
    BY <1>0, <1>5 DEF on_timed_out
  <2>2. offer' \in OpenOffer
    BY <1>5, <2>1 DEF on_timed_out, OpenOffer
  <2> QED BY <1>5, <2>2 DEF on_timed_out, TypeOK
<1> QED BY <1>1, <1>2, <1>3, <1>4, <1>5

\* Every step of the TriggerPriceService keeps the types
LEMMA TriggerTypes ==
  ASSUME TypeOK
  PROVE  /\ \A p \in 1 .. MaxPrice : on_price_feed_changed(p) => TypeOK'
         /\ \A valid \in BOOLEAN : on_validation(valid) => TypeOK'
         /\ \A valid \in BOOLEAN, r \in replaced : on_validation_of_replaced(r, valid) => TypeOK'
<1>0. InList => offer \in OpenOffer
  BY OfferIsInList
<1>1. ASSUME NEW p \in 1 .. MaxPrice, on_price_feed_changed(p) PROVE TypeOK'
  <2>1. replaced' \subseteq replaced /\ book' \subseteq book
    BY <1>1 DEF on_price_feed_changed
  <2>2. \/ InList /\ offer' = SetState(offer, "DEACTIVATED")
        \/ offer' = offer
        \/ offer.state = "AVAILABLE" /\ offer' = [offer EXCEPT !.fee = "checking"]
    BY <1>1 DEF on_price_feed_changed
  <2>3. offer' \in OpenOffer \cup {NoOffer}
    <3>1. offer.state = "AVAILABLE" => InList
      BY DEF NoOffer, InList
    <3>2. ASSUME offer \in OpenOffer PROVE [offer EXCEPT !.fee = "checking"] \in OpenOffer
      BY <3>2 DEF OpenOffer
    <3> QED BY <1>0, <2>2, <3>1, <3>2, OfferOperators DEF TypeOK
  <2>4. requested' \subseteq File
    BY <1>1 DEF on_price_feed_changed, request_persistence, File, TypeOK
  <2> QED BY <1>1, <2>1, <2>3, <2>4 DEF on_price_feed_changed, TypeOK
<1>2. ASSUME NEW valid \in BOOLEAN, on_validation(valid) PROVE TypeOK'
  <2> DEFINE o == [offer EXCEPT !.fee = "checked"]
  <2>1. o \in OpenOffer
    BY <1>0, <1>2 DEF on_validation, OpenOffer
  <2>2. /\ offer' = o \/ offer' = SetState(o, "DEACTIVATED")
        /\ book' \subseteq book /\ requested' \subseteq requested \cup File
    BY <1>2 DEF on_validation, request_persistence, File
  <2>3. offer' \in OpenOffer
    BY <2>1, <2>2, OfferOperators
  <2> QED BY <1>2, <2>2, <2>3 DEF on_validation, TypeOK
<1>3. ASSUME NEW valid \in BOOLEAN, NEW r \in replaced, on_validation_of_replaced(r, valid)
      PROVE  TypeOK'
  <2>1. [r EXCEPT !.checking = FALSE]
          \in [payload : Payload, trigger_price : Trigger, checking : BOOLEAN]
    BY DEF TypeOK
  <2>2. /\ replaced' \subseteq replaced \cup {[r EXCEPT !.checking = FALSE]}
        /\ book' \subseteq book /\ requested' \subseteq requested \cup File
    BY <1>3 DEF on_validation_of_replaced, request_persistence, File
  <2> QED BY <1>3, <2>1, <2>2 DEF on_validation_of_replaced, TypeOK
<1> QED BY <1>1, <1>2, <1>3

\* Every step of a taker keeps the types
LEMMA TakerTypes ==
  ASSUME TypeOK, NEW t \in Taker,
         \/ send_offer_availability_request(t)
         \/ handle_offer_availability_request(t) \/ handle_offer_availability_response(t)
         \/ handle_take_offer_request(t) \/ MakerRemovesOpenOffer(t)
  PROVE  TypeOK'
<1>0. InList => offer \in OpenOffer
  BY OfferIsInList
<1>1. taker' \in [Taker -> {"idle", "asking", "available", "requesting", "taking", "done"}]
  <2>1. \E to \in {"idle", "asking", "available", "requesting", "taking", "done"} :
          taker' = [taker EXCEPT ![t] = to]
    BY DEF send_offer_availability_request, handle_offer_availability_request,
           handle_offer_availability_response, handle_take_offer_request,
           MakerRemovesOpenOffer, Becomes
  <2> QED BY <2>1 DEF TypeOK
<1>2. CASE \/ send_offer_availability_request(t)
           \/ handle_offer_availability_request(t) \/ handle_offer_availability_response(t)
  <2>1. UNCHANGED makerVars
    BY <1>2 DEF send_offer_availability_request, handle_offer_availability_request,
                handle_offer_availability_response
  <2> QED BY <1>1, <2>1 DEF makerVars, TypeOK
<1>3. CASE handle_take_offer_request(t)
  <2>1. CASE InList /\ offer.state = "AVAILABLE"
    <3>1. /\ offer' = SetState(offer, "RESERVED") /\ trades' = trades \cup {t} /\ latest' = {t}
          /\ listening' = {t} /\ requested' = requested \cup File
      BY <1>3, <2>1 DEF handle_take_offer_request, ResetPending, request_persistence
    <3>2. offer' \in OpenOffer
      BY <1>0, <2>1, <3>1, OfferOperators
    <3> QED BY <1>1, <1>3, <3>1, <3>2 DEF handle_take_offer_request, TypeOK
  <2>2. CASE ~ (InList /\ offer.state = "AVAILABLE")
    BY <1>1, <1>3, <2>2 DEF handle_take_offer_request, TypeOK
  <2> QED BY <2>1, <2>2
<1>4. CASE MakerRemovesOpenOffer(t)
  <2>1. replaced' \subseteq [payload : Payload, trigger_price : Trigger, checking : BOOLEAN]
    BY <1>4, RemoveOf DEF MakerRemovesOpenOffer, close_open_offer, TypeOK
  <2>2. offer' \in {offer, NoOffer} /\ book' \subseteq book
    BY <1>4 DEF MakerRemovesOpenOffer, close_open_offer
  <2>3. requested' \subseteq File
    BY <1>4 DEF MakerRemovesOpenOffer, request_persistence, File, TypeOK
  <2> QED BY <1>1, <1>4, <2>1, <2>2, <2>3 DEF MakerRemovesOpenOffer, TypeOK
<1> QED BY <1>2, <1>3, <1>4

\* Every step of persistence, exit and start keeps the types
LEMMA ProcessTypes ==
  ASSUME TypeOK, OneLatest
  PROVE  /\ \A f \in File : Persist(f) => TypeOK'
         /\ shut_down \/ Crash \/ OffersExpire \/ Start => TypeOK'
<1>0. /\ InList => offer \in OpenOffer
      /\ Persistable(offer) \in OpenOffer \cup {NoOffer}
  BY OfferIsInList, FileOperators DEF InList
<1>1. ASSUME NEW f \in File, Persist(f) PROVE TypeOK'
  <2>1. \/ file' = [file EXCEPT !.offer = Persistable(offer)]
        \/ file' = [file EXCEPT !.trades = trades, !.latest = latest]
    BY <1>1 DEF Persist
  <2>2. file' \in [offer : OpenOffer \cup {NoOffer}, trades : SUBSET Taker, latest : SUBSET Taker]
    <3>1. latest \in SUBSET Taker /\ trades \in SUBSET Taker
      BY DEF TypeOK
    <3>2. CASE file' = [file EXCEPT !.offer = Persistable(offer)]
      BY <1>0, <3>2 DEF TypeOK
    <3>3. CASE file' = [file EXCEPT !.trades = trades, !.latest = latest]
      BY <3>1, <3>3 DEF TypeOK
    <3> QED BY <2>1, <3>2, <3>3
  <2>3. requested' \subseteq requested
    BY <1>1 DEF Persist
  <2> QED BY <1>1, <2>2, <2>3 DEF Persist, TypeOK
<1>2. ASSUME Stop PROVE /\ stops' \in 0 .. MaxStops /\ running' = FALSE /\ replaced' = {}
                        /\ listening' = {} /\ requested' = {}
                        /\ UNCHANGED <<placed, price, taker, committed, edits, failures>>
  BY <1>2, OpenOffersAssumption DEF Stop, TypeOK
<1>3. ASSUME shut_down PROVE TypeOK'
  <2>1. /\ Stop /\ book' \subseteq book /\ offer' = Persistable(offer)
        /\ file' = [offer |-> offer', trades |-> trades, latest |-> latest]
        /\ UNCHANGED <<trades, latest, lost>>
    BY <1>3 DEF shut_down
  <2>2. file' \in [offer : OpenOffer \cup {NoOffer}, trades : SUBSET Taker, latest : SUBSET Taker]
    BY <1>0, <2>1 DEF TypeOK
  <2> QED BY <1>0, <1>2, <2>1, <2>2 DEF TypeOK
<1>4. ASSUME Crash PROVE TypeOK'
  <2>1. /\ Stop /\ offer' = file.offer /\ trades' = file.trades /\ latest' = file.latest
        /\ UNCHANGED <<book, file>>
    BY <1>4 DEF Crash
  <2>2. lost' \in BOOLEAN
    BY <1>4 DEF Crash
  <2>3. /\ file.offer \in OpenOffer \cup {NoOffer} /\ file.trades \subseteq Taker
        /\ file.latest \subseteq file.trades
    BY DEF TypeOK, OneLatest
  <2> QED BY <1>2, <2>1, <2>2, <2>3 DEF TypeOK
<1>5. ASSUME OffersExpire PROVE TypeOK'
  BY <1>5 DEF OffersExpire, TypeOK
<1>6. ASSUME Start PROVE TypeOK'
  <2>1. /\ offer' \in OpenOffer \cup {NoOffer} /\ book' \in SUBSET Payload
        /\ failures' \in 0 .. MaxFailures
    <3>1. CASE InList
      <4>1. PICK known \in BOOLEAN :
              Add(FromFile(offer), book, known /\ was_triggered(offer, price))
        BY <1>6, <3>1 DEF Start
      <4> DEFINE triggered == known /\ was_triggered(offer, price)
      <4>2. triggered \in BOOLEAN /\ Add(FromFile(offer), book, triggered)
        BY <4>1
      <4> HIDE DEF triggered
      <4>3. FromFile(offer) \in OpenOffer /\ book \in SUBSET Payload
        BY <1>0, <3>1, FileOperators DEF TypeOK
      <4> QED BY <4>2, <4>3, AddOf
    <3>2. CASE ~ InList
      BY <1>6, <3>2 DEF Start, TypeOK
    <3> QED BY <3>1, <3>2
  <2> QED BY <1>6, <2>1 DEF Start, request_persistence, File, TypeOK
<1> QED BY <1>1, <1>3, <1>4, <1>5, <1>6

\* Every step keeps the types
LEMMA TypeStep == TypeOK /\ OneLatest /\ [Next]_vars => TypeOK'
<1> SUFFICES ASSUME TypeOK, OneLatest, [Next]_vars PROVE TypeOK'
  OBVIOUS
<1>1. CASE UNCHANGED vars
  BY <1>1 DEF vars, TypeOK
<1> QED BY <1>1, MakerTypes, TriggerTypes, TakerTypes, ProcessTypes, StepActions
-----------------------------------------------------------------------------
(* The invariants                                                          *)

\* A step that leaves the trades, the files and the process alone
OfferOnly ==
  UNCHANGED <<trades, latest, listening, committed, file, running, lost>>

\* A step that leaves the offer in the list, with its payload, and takes it out of the book
\* when it deactivates it
SameOffer ==
  /\ OfferOnly /\ UNCHANGED placed /\ requested \subseteq requested'
  /\ offer = NoOffer <=> offer' = NoOffer
  /\ InList => offer'.payload = offer.payload
  /\ book' \subseteq book
  /\ offer'.state = "DEACTIVATED" => offer.state = "DEACTIVATED" \/ offer.payload \notin book'
  /\ offer.state = "DEACTIVATED" => offer'.state = "DEACTIVATED"

\* A step that leaves the trades alone keeps what is said of them
LEMMA TradesKept ==
  ASSUME OneLatest, CommitmentKept, OfferOnly, committed = {} \/ offer' = offer
  PROVE  OneLatest' /\ CommitmentKept'
<1>1. OneLatest'
  BY DEF OneLatest, OfferOnly
<1>2. CommitmentKept'
  BY DEF CommitmentKept, OfferOnly
<1> QED BY <1>1, <1>2

\* The steps with the offer keep the invariants
LEMMA MakerStep ==
  ASSUME TypeOK, OffersInv
  PROVE  /\ \A trigger \in Trigger : place_offer(trigger) => OffersInv'
         /\ \A trigger \in Trigger, p \in Payload,
               s \in {"AVAILABLE", "RESERVED", "DEACTIVATED"} : edit_offer(p, trigger, s) => OffersInv'
         /\ remove_offer => OffersInv'
         /\ republish_offers => OffersInv'
         /\ on_timed_out => OffersInv'
<1>0. /\ InList => offer \in OpenOffer
      /\ NoOffer \notin OpenOffer
  BY OfferIsInList
<1>1. ASSUME NEW trigger \in Trigger, place_offer(trigger) PROVE OffersInv'
  <2> DEFINE o == NewOpenOffer(1, trigger)
             triggered == was_triggered(o, price)
  <2>1. o \in OpenOffer /\ book \in SUBSET Payload
    BY OfferOperators, OpenOffersAssumption DEF TypeOK, Payload
  <2>2. triggered \in BOOLEAN
    BY DEF was_triggered
  <2>3. /\ Add(o, book, triggered) /\ ~ placed /\ placed' = TRUE /\ OfferOnly
        /\ requested' = requested \cup {"OpenOffers"}
    BY <1>1 DEF place_offer, OfferOnly, request_persistence
  <2> HIDE DEF o, triggered
  <2>4. /\ offer' \in OpenOffer /\ offer'.payload = o.payload
        /\ book' \subseteq book \cup {o.payload}
        /\ offer'.state = "DEACTIVATED" => book' \subseteq book
    BY <2>1, <2>2, <2>3, AddOf
  <2>5. offer = NoOffer /\ committed = {}
    BY <2>3 DEF OffersInv, NothingBefore
  <2>6. OneLatest' /\ CommitmentKept'
    BY <2>3, <2>5, TradesKept DEF OffersInv
  <2>7. FilesAgree'
    BY <2>3 DEF OffersInv, FilesAgree, OfferOnly
  <2>8. BookAgrees'
    <3>1. ~ lost => book = {}
      BY <2>5 DEF OffersInv, BookAgrees, InList
    <3> QED BY <1>0, <2>3, <2>4, <3>1 DEF BookAgrees, OfferOnly, InList
  <2> QED BY <2>3, <2>6, <2>7, <2>8 DEF OffersInv, NothingBefore
<1>2. ASSUME NEW trigger \in Trigger, NEW p \in Payload,
             NEW s \in {"AVAILABLE", "RESERVED", "DEACTIVATED"}, edit_offer(p, trigger, s)
      PROVE  OffersInv'
  <2> DEFINE o == SetState(NewOpenOffer(p, trigger), s)
             triggered == was_triggered(o, price)
             b == book \ {offer.payload}
  <2>1. o \in OpenOffer /\ b \in SUBSET Payload
    BY OfferOperators DEF TypeOK
  <2>2. triggered \in BOOLEAN
    BY DEF was_triggered
  <2>3. /\ Add(o, b, triggered) /\ InList /\ placed' = placed /\ OfferOnly
        /\ requested' = requested \cup {"OpenOffers"}
    BY <1>2 DEF edit_offer, OfferOnly, request_persistence
  <2>4. ~ lost => b = {}
    BY DEF OffersInv, BookAgrees
  <2> HIDE DEF o, triggered, b
  <2>5. /\ offer' \in OpenOffer /\ offer'.payload = o.payload
        /\ book' \subseteq b \cup {o.payload}
        /\ offer'.state = "DEACTIVATED" => book' \subseteq b
    BY <2>1, <2>2, <2>3, AddOf
  <2>6. placed /\ (~ lost => committed = {})
    BY <2>3 DEF OffersInv, NothingBefore, CommitmentKept, InList
  <2>7. OneLatest' /\ CommitmentKept'
    BY <2>3, <2>6 DEF OffersInv, OneLatest, CommitmentKept, OfferOnly
  <2>8. FilesAgree'
    BY <2>3 DEF OffersInv, FilesAgree, OfferOnly
  <2>9. BookAgrees'
    BY <1>0, <2>3, <2>4, <2>5 DEF BookAgrees, OfferOnly, InList
  <2> QED BY <2>3, <2>6, <2>7, <2>8, <2>9 DEF OffersInv, NothingBefore
<1>3. ASSUME remove_offer PROVE OffersInv'
  <2>1. /\ InList /\ offer' = NoOffer /\ book' = book \ {offer.payload}
        /\ OfferOnly /\ placed' = placed /\ requested' = requested \cup {"OpenOffers"}
    BY <1>3 DEF remove_offer, OfferOnly, request_persistence
  <2>2. placed /\ (~ lost => book' = {})
    BY <2>1 DEF OffersInv, NothingBefore, BookAgrees, InList
  <2>3. OneLatest' /\ CommitmentKept'
    BY <2>1 DEF OffersInv, OneLatest, CommitmentKept, OfferOnly
  <2>4. FilesAgree' /\ BookAgrees' /\ NothingBefore'
    BY <2>1, <2>2 DEF OffersInv, FilesAgree, BookAgrees, NothingBefore, OfferOnly
  <2> QED BY <2>3, <2>4 DEF OffersInv
<1>4. ASSUME republish_offers PROVE OffersInv'
  <2>1. /\ InList /\ offer.state # "DEACTIVATED" /\ offer' = offer /\ placed' = placed
        /\ OfferOnly /\ requested' = requested /\ add_offer(offer, book)
    BY <1>4 DEF republish_offers, OfferOnly, prevented_from_publishing
  <2>2. book' \subseteq book \cup {offer.payload}
    BY <1>0, <2>1, AddOfferOf DEF TypeOK
  <2>3. OneLatest' /\ CommitmentKept'
    BY <2>1, TradesKept DEF OffersInv
  <2>4. FilesAgree' /\ NothingBefore'
    BY <2>1 DEF OffersInv, FilesAgree, NothingBefore, OfferOnly, InList
  <2>5. BookAgrees'
    BY <2>1, <2>2 DEF OffersInv, BookAgrees, OfferOnly, InList
  <2> QED BY <2>3, <2>4, <2>5 DEF OffersInv
<1>5. ASSUME on_timed_out PROVE OffersInv'
  <2>1. /\ offer \in OpenOffer /\ offer # NoOffer /\ placed' = placed /\ book' = book
        /\ OfferOnly /\ requested' = requested
        /\ offer' = [offer EXCEPT !.timer = FALSE,
                                  !.state = IF @ = "RESERVED" THEN "AVAILABLE" ELSE @]
    BY <1>0, <1>5 DEF on_timed_out, OfferOnly, InList
  <2>2. /\ offer' \in OpenOffer /\ offer'.payload = offer.payload
        /\ offer'.state = "DEACTIVATED" => offer.state = "DEACTIVATED"
    BY <2>1 DEF OpenOffer
  <2> HIDE DEF OpenOffer
  <2>3. offer' # NoOffer /\ placed /\ (~ lost => committed = {})
    BY <1>0, <2>1, <2>2 DEF OffersInv, NothingBefore, CommitmentKept
  <2>4. OneLatest' /\ CommitmentKept'
    BY <2>1, <2>3 DEF OffersInv, OneLatest, CommitmentKept, OfferOnly
  <2>5. FilesAgree' /\ NothingBefore'
    BY <2>1, <2>2, <2>3 DEF OffersInv, FilesAgree, NothingBefore, OfferOnly, InList
  <2>6. BookAgrees'
    BY <2>1, <2>2, <2>3 DEF OffersInv, BookAgrees, OfferOnly, InList
  <2> QED BY <2>4, <2>5, <2>6 DEF OffersInv
<1> QED BY <1>1, <1>2, <1>3, <1>4, <1>5
\* A step that leaves the offer what it is keeps the invariants
LEMMA SameOfferKept == TypeOK /\ OffersInv /\ SameOffer => OffersInv'
<1> SUFFICES ASSUME TypeOK, OffersInv, SameOffer PROVE OffersInv'
  OBVIOUS
<1>1. OneLatest' /\ CommitmentKept'
  BY DEF OffersInv, OneLatest, CommitmentKept, SameOffer, OfferOnly
<1>2. FilesAgree' /\ NothingBefore'
  BY DEF OffersInv, FilesAgree, NothingBefore, SameOffer, OfferOnly, InList
<1>3. BookAgrees'
  <2> SUFFICES ASSUME ~ lost, NEW p \in book'
               PROVE  offer' # NoOffer /\ offer'.payload = p /\ offer'.state # "DEACTIVATED"
    BY DEF BookAgrees, SameOffer, OfferOnly, InList
  <2>1. p \in book /\ InList /\ offer.payload = p /\ offer.state # "DEACTIVATED"
    BY DEF SameOffer, OffersInv, BookAgrees
  <2> QED BY <2>1 DEF SameOffer, InList
<1> QED BY <1>1, <1>2, <1>3 DEF OffersInv

\* The steps of the TriggerPriceService keep the invariants
LEMMA TriggerStep ==
  ASSUME TypeOK, OffersInv
  PROVE  /\ \A p \in 1 .. MaxPrice : on_price_feed_changed(p) => OffersInv'
         /\ \A valid \in BOOLEAN : on_validation(valid) => OffersInv'
         /\ \A valid \in BOOLEAN, r \in replaced : on_validation_of_replaced(r, valid) => OffersInv'
<1>0. /\ InList => offer \in OpenOffer
      /\ NoOffer \notin OpenOffer
  BY OfferIsInList
<1>1. ASSUME NEW p \in 1 .. MaxPrice, on_price_feed_changed(p) PROVE SameOffer
  <2>1. /\ OfferOnly /\ placed' = placed /\ requested \subseteq requested' /\ book' \subseteq book
    BY <1>1 DEF on_price_feed_changed, OfferOnly, request_persistence
  <2>2. CASE offer' = offer
    BY <2>1, <2>2 DEF SameOffer
  <2>3. CASE /\ InList /\ offer' = SetState(offer, "DEACTIVATED")
             /\ offer.payload \notin book'
    <3>1. offer' \in OpenOffer /\ offer'.payload = offer.payload /\ offer'.state = "DEACTIVATED"
      BY <1>0, <2>3, OfferOperators
    <3> QED BY <1>0, <2>1, <2>3, <3>1 DEF SameOffer, InList
  <2>4. CASE offer.state = "AVAILABLE" /\ offer' = [offer EXCEPT !.fee = "checking"]
    <3>1. offer \in OpenOffer /\ InList
      BY <1>0, <2>4 DEF NoOffer, InList
    <3>2. offer' \in OpenOffer /\ offer'.payload = offer.payload /\ offer'.state = offer.state
      BY <2>4, <3>1 DEF OpenOffer
    <3> QED BY <1>0, <2>1, <2>4, <3>1, <3>2 DEF SameOffer, InList
  <2> QED BY <1>1, <2>2, <2>3, <2>4 DEF on_price_feed_changed
<1>2. ASSUME NEW valid \in BOOLEAN, on_validation(valid) PROVE SameOffer
  <2> DEFINE o == [offer EXCEPT !.fee = "checked"]
  <2>1. /\ OfferOnly /\ placed' = placed /\ requested \subseteq requested' /\ book' \subseteq book
        /\ InList
    BY <1>2 DEF on_validation, OfferOnly, request_persistence
  <2>2. o \in OpenOffer /\ o.payload = offer.payload /\ o.state = offer.state
    BY <1>0, <2>1 DEF OpenOffer
  <2>3. \/ offer' = o
        \/ offer' = SetState(o, "DEACTIVATED") /\ book' = book \ {o.payload}
    BY <1>2 DEF on_validation
  <2> HIDE DEF o
  <2>4. CASE offer' = o
    BY <1>0, <2>1, <2>2, <2>4 DEF SameOffer, InList
  <2>5. CASE offer' = SetState(o, "DEACTIVATED") /\ book' = book \ {o.payload}
    <3>1. offer' \in OpenOffer /\ offer'.payload = offer.payload /\ offer'.state = "DEACTIVATED"
      BY <2>2, <2>5, OfferOperators
    <3> QED BY <1>0, <2>1, <2>2, <2>5, <3>1 DEF SameOffer, InList
  <2> QED BY <2>3, <2>4, <2>5
<1>3. ASSUME NEW valid \in BOOLEAN, NEW r \in replaced, on_validation_of_replaced(r, valid)
      PROVE  SameOffer
  BY <1>3 DEF on_validation_of_replaced, OfferOnly, request_persistence, SameOffer
<1> QED BY <1>1, <1>2, <1>3, SameOfferKept

\* The steps of a taker keep the invariants
LEMMA TakerStep ==
  ASSUME TypeOK, OffersInv, NEW t \in Taker,
         \/ send_offer_availability_request(t)
         \/ handle_offer_availability_request(t) \/ handle_offer_availability_response(t)
         \/ handle_take_offer_request(t) \/ MakerRemovesOpenOffer(t)
  PROVE  OffersInv'
<1>0. /\ InList => offer \in OpenOffer
      /\ NoOffer \notin OpenOffer
  BY OfferIsInList
<1>1. CASE \/ send_offer_availability_request(t)
           \/ handle_offer_availability_request(t) \/ handle_offer_availability_response(t)
  <2>1. UNCHANGED makerVars
    BY <1>1 DEF send_offer_availability_request, handle_offer_availability_request,
                handle_offer_availability_response
  <2>2. SameOffer
    BY <2>1 DEF makerVars, SameOffer, OfferOnly
  <2> QED BY <2>2, SameOfferKept
<1>2. CASE handle_take_offer_request(t) /\ ~ (InList /\ offer.state = "AVAILABLE")
  <2>1. SameOffer
    BY <1>2 DEF handle_take_offer_request, SameOffer, OfferOnly
  <2> QED BY <2>1, SameOfferKept
<1>3. CASE handle_take_offer_request(t) /\ InList /\ offer.state = "AVAILABLE"
  <2>1. /\ offer' = SetState(offer, "RESERVED") /\ latest' = {t} /\ listening' = {t}
        /\ requested' = requested \cup File
        /\ UNCHANGED <<placed, book, committed, file, running, lost>>
    BY <1>3 DEF handle_take_offer_request, ResetPending, request_persistence
  <2>2. offer' \in OpenOffer /\ offer'.payload = offer.payload /\ offer'.state = "RESERVED"
    BY <1>0, <1>3, <2>1, OfferOperators
  <2>3. placed /\ (~ lost => committed = {})
    BY <1>3 DEF OffersInv, NothingBefore, CommitmentKept, InList
  <2>4. OneLatest' /\ CommitmentKept'
    BY <2>1, <2>3 DEF OffersInv, OneLatest, CommitmentKept
  <2>5. FilesAgree' /\ NothingBefore'
    BY <2>1, <2>3 DEF FilesAgree, NothingBefore, File
  <2>6. BookAgrees'
    BY <1>0, <1>3, <2>1, <2>2 DEF OffersInv, BookAgrees, InList
  <2> QED BY <2>4, <2>5, <2>6 DEF OffersInv
<1>4. CASE MakerRemovesOpenOffer(t)
  <2>1. /\ t \in listening /\ committed' = committed \cup {t} /\ offer' = NoOffer
        /\ UNCHANGED <<placed, latest, listening, file, running, lost>>
        /\ requested \subseteq requested' /\ "PendingTrades" \in requested'
        /\ InList => "OpenOffers" \in requested' /\ book' = book \ {offer.payload}
        /\ ~ InList => book' = book
    BY <1>4 DEF MakerRemovesOpenOffer, close_open_offer, request_persistence, File, InList
  <2>2. t \in latest /\ \A u \in latest : u = t
    BY <2>1 DEF OffersInv, OneLatest, TypeOK
  <2>3. placed
    BY <2>1 DEF OffersInv, NothingBefore
  <2>4. OneLatest' /\ CommitmentKept'
    BY <2>1, <2>2 DEF OffersInv, OneLatest, CommitmentKept
  <2>5. FilesAgree' /\ NothingBefore'
    BY <2>1, <2>3 DEF OffersInv, FilesAgree, NothingBefore, InList
  <2>6. BookAgrees'
    BY <2>1 DEF OffersInv, BookAgrees, InList
  <2> QED BY <2>4, <2>5, <2>6 DEF OffersInv
<1> QED BY <1>1, <1>2, <1>3, <1>4

\* The steps of persistence, exit and start keep the invariants
LEMMA ProcessStep ==
  ASSUME TypeOK, OffersInv
  PROVE  /\ \A f \in File : Persist(f) => OffersInv'
         /\ shut_down \/ Crash \/ OffersExpire \/ Start => OffersInv'
<1>0. /\ InList => offer \in OpenOffer
      /\ NoOffer \notin OpenOffer
      /\ Persistable(NoOffer) = NoOffer
      /\ InList => Persistable(offer) \in OpenOffer /\ Persistable(offer).payload = offer.payload
      /\ InList => Persistable(offer).state = offer.state
  BY OfferIsInList, FileOperators
<1>1. ASSUME NEW f \in File, Persist(f) PROVE OffersInv'
  <2>1. UNCHANGED <<offer, placed, book, trades, latest, listening, committed, running, lost>>
    BY <1>1 DEF Persist
  <2>2. CASE f = "OpenOffers"
    <3>1. /\ file' = [file EXCEPT !.offer = Persistable(offer)]
          /\ requested' = requested \ {"OpenOffers"}
      BY <1>1, <2>2 DEF Persist
    <3>2. /\ file'.offer = Persistable(offer)
          /\ file'.trades = file.trades /\ file'.latest = file.latest
      BY <3>1 DEF TypeOK
    <3>3. OneLatest' /\ CommitmentKept' /\ BookAgrees'
      BY <2>1, <3>2 DEF OffersInv, OneLatest, CommitmentKept, BookAgrees, InList
    <3>4. NothingBefore'
      BY <1>0, <2>1, <3>2 DEF OffersInv, NothingBefore
    <3>5. FilesAgree'
      BY <1>0, <2>1, <3>1, <3>2 DEF OffersInv, FilesAgree, InList
    <3> QED BY <3>3, <3>4, <3>5 DEF OffersInv
  <2>3. CASE f = "PendingTrades"
    <3>1. /\ file' = [file EXCEPT !.trades = trades, !.latest = latest]
          /\ requested' = requested \ {"PendingTrades"}
      BY <1>1, <2>3 DEF Persist
    <3>2. file'.offer = file.offer /\ file'.trades = trades /\ file'.latest = latest
      BY <3>1 DEF TypeOK
    <3>3. OneLatest' /\ CommitmentKept' /\ BookAgrees'
      BY <2>1, <3>2 DEF OffersInv, OneLatest, CommitmentKept, BookAgrees, InList, TypeOK
    <3>4. NothingBefore' /\ FilesAgree'
      BY <2>1, <3>1, <3>2 DEF OffersInv, NothingBefore, FilesAgree, InList
    <3> QED BY <3>3, <3>4 DEF OffersInv
  <2> QED BY <2>2, <2>3 DEF File
<1>2. ASSUME shut_down PROVE OffersInv'
  <2>1. /\ running' = FALSE /\ listening' = {} /\ UNCHANGED <<placed, committed, trades, latest, lost>>
        /\ book' \subseteq book /\ offer' = Persistable(offer)
        /\ file' = [offer |-> offer', trades |-> trades, latest |-> latest]
    BY <1>2 DEF shut_down, Stop
  <2>2. file'.offer = offer' /\ file'.trades = trades /\ file'.latest = latest
    BY <2>1
  <2>3. /\ offer = NoOffer => offer' = NoOffer
        /\ offer # NoOffer => offer' # NoOffer /\ offer'.payload = offer.payload
                              /\ offer'.state = offer.state
    BY <1>0, <2>1 DEF InList
  <2>4. OneLatest' /\ FilesAgree'
    BY <2>1, <2>2 DEF OffersInv, OneLatest, FilesAgree, TypeOK
  <2>5. CommitmentKept' /\ BookAgrees' /\ NothingBefore'
    BY <2>1, <2>2, <2>3
       DEF OffersInv, CommitmentKept, BookAgrees, NothingBefore, InList
  <2> QED BY <2>4, <2>5 DEF OffersInv
<1>3. ASSUME Crash PROVE OffersInv'
  <2>1. /\ running' = FALSE /\ listening' = {} /\ UNCHANGED <<placed, committed, book, file>>
        /\ offer' = file.offer /\ latest' = file.latest
        /\ ~ lost' => ~ lost /\ requested = {}
    BY <1>3 DEF Crash, Stop
  <2>2. OneLatest' /\ FilesAgree' /\ NothingBefore'
    BY <2>1 DEF OffersInv, OneLatest, FilesAgree, NothingBefore, InList
  <2>3. ASSUME ~ lost' PROVE /\ latest' = latest /\ (offer = NoOffer <=> offer' = NoOffer)
                             /\ InList => offer'.payload = offer.payload
                             /\ InList /\ offer'.state = "DEACTIVATED" => offer.state = "DEACTIVATED"
    BY <2>1, <2>3 DEF OffersInv, FilesAgree
  <2>4. CommitmentKept'
    BY <2>1, <2>3 DEF OffersInv, CommitmentKept
  <2>5. BookAgrees'
    BY <2>1, <2>3 DEF OffersInv, BookAgrees, InList
  <2> QED BY <2>2, <2>4, <2>5 DEF OffersInv
<1>4. ASSUME OffersExpire PROVE OffersInv'
  <2>1. SameOffer
    BY <1>4 DEF OffersExpire, SameOffer, OfferOnly
  <2> QED BY <2>1, SameOfferKept
<1>5. ASSUME Start PROVE OffersInv'
  <2>1. /\ running' = TRUE /\ listening' = latest /\ requested \subseteq requested'
        /\ UNCHANGED <<placed, latest, committed, file, lost>>
    BY <1>5 DEF Start, request_persistence
  <2>2. /\ offer = NoOffer => offer' = NoOffer /\ book' = book
        /\ offer # NoOffer => offer' # NoOffer /\ offer'.payload = offer.payload
                              /\ book' \subseteq book \cup {offer.payload}
                              /\ (offer'.state = "DEACTIVATED" =>
                                    book' = book \ {offer.payload}
                                    \/ (offer.state = "DEACTIVATED" /\ book' = book))
                              /\ (offer.state = "DEACTIVATED" => offer'.state = "DEACTIVATED")
    <3>1. CASE InList
      <4>1. PICK known \in BOOLEAN :
              Add(FromFile(offer), book, known /\ was_triggered(offer, price))
        BY <1>5, <3>1 DEF Start
      <4> DEFINE triggered == known /\ was_triggered(offer, price)
      <4>2. triggered \in BOOLEAN /\ Add(FromFile(offer), book, triggered)
        BY <4>1
      <4> HIDE DEF triggered
      <4>3. /\ FromFile(offer) \in OpenOffer /\ FromFile(offer).payload = offer.payload
            /\ FromFile(offer).state = "DEACTIVATED" <=> offer.state = "DEACTIVATED"
            /\ book \in SUBSET Payload
        BY <1>0, <3>1, FileOperators DEF TypeOK
      <4>4. /\ offer' \in OpenOffer /\ offer'.payload = offer.payload
            /\ book' \subseteq book \cup {offer.payload}
            /\ offer'.state = "DEACTIVATED" =>
                 book' = book \ {offer.payload} \/ (offer.state = "DEACTIVATED" /\ book' = book)
            /\ offer.state = "DEACTIVATED" => offer'.state = "DEACTIVATED"
        BY <4>2, <4>3, AddOf
      <4> QED BY <1>0, <3>1, <4>4 DEF InList
    <3>2. CASE ~ InList
      BY <1>5, <3>2 DEF Start, InList
    <3> QED BY <3>1, <3>2
  <2>3. OneLatest' /\ CommitmentKept'
    BY <2>1, <2>2 DEF OffersInv, OneLatest, CommitmentKept
  <2>4. FilesAgree' /\ NothingBefore'
    BY <2>1, <2>2 DEF OffersInv, FilesAgree, NothingBefore, InList
  <2>5. BookAgrees'
    BY <2>1, <2>2 DEF OffersInv, BookAgrees, InList
  <2> QED BY <2>3, <2>4, <2>5 DEF OffersInv
<1> QED BY <1>1, <1>2, <1>3, <1>4, <1>5

\* Every step keeps the invariants
LEMMA OffersStep == TypeOK /\ OffersInv /\ [Next]_vars => TypeOK' /\ OffersInv'
<1> SUFFICES ASSUME TypeOK, OffersInv, [Next]_vars PROVE TypeOK' /\ OffersInv'
  OBVIOUS
<1>1. TypeOK'
  BY TypeStep DEF OffersInv
<1>2. CASE UNCHANGED vars
  <2>1. SameOffer
    BY <1>2 DEF vars, SameOffer, OfferOnly
  <2> QED BY <1>1, <2>1, SameOfferKept
<1>3. OffersInv'
  BY <1>2, MakerStep, TriggerStep, TakerStep, ProcessStep, StepActions
<1> QED BY <1>1, <1>3

-----------------------------------------------------------------------------
(* The theorems                                                            *)

\* The invariants hold in every behaviour, for any number of takers: edits, prices,
\* timeouts, requests, files, exits and crashes in any order.
THEOREM OffersInvariant == Spec => [](TypeOK /\ OffersInv)
<1>1. Init => TypeOK /\ OffersInv
  <2> SUFFICES ASSUME Init PROVE TypeOK /\ OffersInv
    OBVIOUS
  <2>1. TypeOK
    <3>1. /\ 0 \in 0 .. MaxEdits /\ 0 \in 0 .. MaxFailures /\ 0 \in 0 .. MaxStops
          /\ 1 \in 1 .. MaxPrice
      BY OpenOffersAssumption
    <3>2. file \in [offer : OpenOffer \cup {NoOffer}, trades : SUBSET Taker, latest : SUBSET Taker]
      BY DEF Init
    <3> QED BY <3>1, <3>2 DEF Init, TypeOK
  <2>2. file.offer = NoOffer /\ file.trades = {} /\ file.latest = {}
    BY DEF Init
  <2>3. OneLatest /\ NothingBefore /\ FilesAgree
    BY <2>2 DEF Init, OneLatest, NothingBefore, FilesAgree, InList
  <2>4. CommitmentKept /\ BookAgrees
    BY DEF Init, CommitmentKept, BookAgrees
  <2> QED BY <2>1, <2>3, <2>4 DEF OffersInv
<1>2. TypeOK /\ OffersInv /\ [Next]_vars => (TypeOK /\ OffersInv)'
  BY OffersStep
<1> QED BY <1>1, <1>2, PTL DEF Spec

\* The offer, the book, the trades and the files keep their types; the trade that listens
\* is the last of the offer's trades, after a crash too.
THEOREM TypeCorrect == Spec => []TypeOK
<1> QED BY OffersInvariant, PTL

\* The maker commits to one trade of the offer at most, however many takers come, unless
\* a crash lost a request for persistence.
THEOREM CommitsOnce == Spec => []OneCommittedTrade
<1>1. TypeOK /\ OffersInv => OneCommittedTrade
  BY DEF OffersInv, CommitmentKept, OneLatest, OneCommittedTrade
<1> QED BY <1>1, OffersInvariant, PTL

\* No later taker and no restart takes the protocol away from a trade the maker has
\* committed to, unless a crash lost a request for persistence.
THEOREM CommittedListens == Spec => []CommittedTradeListens
<1>1. TypeOK /\ OffersInv => CommittedTradeListens
  BY DEF OffersInv, CommitmentKept, CommittedTradeListens
<1> QED BY <1>1, OffersInvariant, PTL

\* Nothing is in the book but the open and active offer of the maker as it is now, unless
\* a crash lost a request for persistence.
THEOREM NoGhosts == Spec => []NoGhostOffer
<1>1. TypeOK /\ OffersInv => NoGhostOffer
  BY DEF OffersInv, BookAgrees, NoGhostOffer
<1> QED BY <1>1, OffersInvariant, PTL
=============================================================================
