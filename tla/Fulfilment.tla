----------------------------- MODULE Fulfilment -----------------------------
(***************************************************************************)
(* From order to delivery: the HTTP requests that book, cancel and track   *)
(* one order (api/http/handlers/booking.go, orders.go, shipments.go), the  *)
(* shipments service and the tracking service behind them                  *)
(* (internal/shipments, internal/tracking), and the carrier.               *)
(*                                                                         *)
(* A request runs the handler's calls one after another; each call is a    *)
(* transaction or a call to the carrier and is one action, so requests     *)
(* interleave between them.  What a request read in one call and uses in a *)
(* later one is in its record.  A request can end anywhere: a call returns *)
(* an error, the client disconnects (r.Context() is cancelled) or the      *)
(* process dies.                                                           *)
(***************************************************************************)
(* Operators named ...Bug are the mutants of PROJECT.json: no action uses them. *)
EXTENDS Orders, Sequences, FiniteSets, Naturals, Functions

CONSTANTS
    Requests,   \* requests that can be in flight together
    Scans,      \* scans the carrier can report
    MaxScans,   \* bound on its scans of one parcel
    Faults      \* requests can end halfway

(* A waybill and a shipment id are named after the request that asked for
   them: no request gets two.                                               *)
ASSUME WaybillNames == AWBs = Requests
ASSUME BoundAssumption == MaxScans \in Nat /\ IsFiniteSet(Scans)
ASSUME FaultsAssumption == Faults \in BOOLEAN

VARIABLES
    shipments,   \* shipment rows of the order
    waybills,    \* the carrier's view of every waybill
    scans,       \* scans the carrier has made of every waybill's parcel
    tracked,     \* tracking_event rows
    req          \* the requests in flight

fvars == <<order, shipments, waybills, scans, tracked, req>>

ShipmentState == {"pending_carrier", "booked", "in_transit", "delivered",
                  "rto_in_progress", "rto_completed", "cancelled", "failed"}
Shipment == [id : Requests, state : ShipmentState, awb : AWBs \cup {NoAWB}]

(* Canonical statuses that drive a transition: "moving" is any of picked_up,
   in_transit and out_for_delivery.  "none" is any of the others (manifested,
   exception), which change nothing.                                        *)
Status == {"moving", "delivered", "rto_initiated", "rto_delivered"}
Canonical == Status \cup {"none"}

(* One status code for each case of normalise, and "other" for the codes it
   does not know.  The text of a scan is the first of the phrases it holds, in the
   order normalise looks for them: an "RTO delivered" has "delivered".      *)
StatusCode == {"DL", "IT", "MAN", "RTO", "RTO-DL", "other"}
StatusText == {"delivered", "moving", "rto", "other"}

fromText(text) ==
    CASE text = "delivered" -> "delivered"
      [] text = "moving"    -> "moving"
      [] text = "rto"       -> "rto_initiated"
      [] text = "other"     -> "none"

normalise(code, text) ==
    CASE code = "DL"     -> "delivered"
      [] code = "IT"     -> "moving"
      [] code = "MAN"    -> "none"
      [] code = "RTO"    -> "rto_initiated"
      [] code = "RTO-DL" -> "rto_delivered"
      [] code = "other"  -> fromText(text)

(* second: the timestamp, 0 when it cannot be parsed.  The same scan listed
   twice has one key and asks for nothing new, so a parcel has a set of them. *)
Scan == [code : StatusCode, text : StatusText, second : Nat]
ASSUME ScansAssumption == Scans \subseteq Scan

(* A tracking_event row, and dedupe_key: carrier, awb, code and second. *)
Event == [awb : AWBs, code : StatusCode, second : Nat, canonical : Canonical]
EventOf(awb, s) == [awb |-> awb, code |-> s.code, second |-> s.second,
                    canonical |-> normalise(s.code, s.text)]
dedupeHash(event) == <<event.awb, event.code, event.second>>

Steps == {"idle",
          "get_order", "mark_ready", "allocate", "mark_allocating", "phase_a", "carrier_book",
          "confirm_phase_b", "mark_failed", "mark_booked",
          "find_shipment", "get_shipment", "carrier_cancel", "cancel_shipment", "cancel_order",
          "lookup", "fetch", "store", "apply", "fanout"}

(* cascade: the cancel of the shipment is part of a cancel of the order;
   sid, awb, state: shipment id, waybill and shipment state as last read;
   todo: the scans PollNow fetched and still has to apply.                  *)
Request == [step : Steps, cascade : BOOLEAN, sid : Requests \cup {NoAWB},
            awb : AWBs \cup {NoAWB}, state : ShipmentState, todo : Seq(Scans)]

NoRequest == [step |-> "idle", cascade |-> FALSE, sid |-> NoAWB, awb |-> NoAWB,
              state |-> "pending_carrier", todo |-> <<>>]

FulfilmentInit ==
    /\ OrderInit
    /\ shipments = {}
    /\ waybills = [w \in AWBs |-> "none"]
    /\ scans = [w \in AWBs |-> {}]
    /\ tracked = {}
    /\ req = [r \in Requests |-> NoRequest]

At(r, step) == req[r].step = step
Goto(r, step) == req' = [req EXCEPT ![r].step = step]
End(r) == req' = [req EXCEPT ![r] = NoRequest]

tracking == <<scans, tracked>>

(* The call is made whether or not the order's state machine lets it: the
   caller tolerates or only logs the refusal.                               *)
Attempt(from, to) ==
    \/ TransitionUnder(from, to)
    \/ order.state # from /\ UNCHANGED order

(* Every row of the request's shipment gets state st. *)
SetState(row, st) == (shipments \ {row}) \cup {[row EXCEPT !.state = st]}
Row(r) == {row \in shipments : row.id = req[r].sid}

-----------------------------------------------------------------------------
(* BookOrderHandler and shipments.Book *)

StartBook(r) ==
    /\ At(r, "idle")
    /\ Goto(r, "get_order")
    /\ UNCHANGED <<order, shipments, waybills, tracking>>

(* The guard reads the order once; an order with a waybill ends the request,
   and so does a pickup location that has been deleted.                     *)
GetOrder(r) ==
    /\ At(r, "get_order")
    /\ IF order.awb # NoAWB
       THEN End(r)
       ELSE \/ Goto(r, IF order.state = "draft" THEN "mark_ready" ELSE "allocate")
            \/ End(r)
    /\ UNCHANGED <<order, shipments, waybills, tracking>>

BookMarkReady(r) ==
    /\ At(r, "mark_ready")
    /\ Attempt("draft", "ready")
    /\ Goto(r, "allocate")
    /\ UNCHANGED <<shipments, waybills, tracking>>

ServiceType == {"standard", "express"}

(* QuoteAll skips a service without a rate card, a zone or a slab for the
   parcel: any of them can be left.                                         *)
QuoteAll == SUBSET ServiceType

(* Without a quote the request ends and the order stays where it is; which
   of the quotes scores best makes no difference to the steps that follow.  *)
Allocate(r) ==
    /\ At(r, "allocate")
    /\ \E quotes \in QuoteAll :
          IF quotes = {} THEN End(r) ELSE Goto(r, "mark_allocating")
    /\ UNCHANGED <<order, shipments, waybills, tracking>>

BookMarkAllocating(r) ==
    /\ At(r, "mark_allocating")
    /\ Attempt("ready", "allocating")
    /\ Goto(r, "phase_a")
    /\ UNCHANGED <<shipments, waybills, tracking>>

(* UNIQUE (order_id) on allocation_decision and shipment. *)
UniqueOrderBug == TRUE
UniqueOrder == shipments = {}

(* persistPhaseA *)
PersistPhaseA(r) ==
    /\ At(r, "phase_a")
    /\ IF UniqueOrder
       THEN /\ shipments' = shipments \cup
                  {[id |-> r, state |-> "pending_carrier", awb |-> NoAWB]}
            /\ req' = [req EXCEPT ![r].step = "carrier_book", ![r].sid = r]
       ELSE End(r) /\ UNCHANGED shipments
    /\ UNCHANGED <<order, waybills, tracking>>

(* adapter.Book: a waybill, a success without one, a refusal, or a waybill
   whose answer is lost.                                                    *)
CarrierBooks(r) ==
    /\ At(r, "carrier_book")
    /\ waybills' = [waybills EXCEPT ![r] = "issued"]
    /\ req' = [req EXCEPT ![r].awb = r, ![r].step = "confirm_phase_b"]
    /\ UNCHANGED <<order, shipments, tracking>>

(* No error and an empty waybill number: whether there is a parcel is open. *)
CarrierBooksBlank(r) ==
    /\ At(r, "carrier_book")
    /\ waybills' \in {waybills, [waybills EXCEPT ![r] = "issued"]}
    /\ req' = [req EXCEPT ![r].awb = NoAWB, ![r].step = "confirm_phase_b"]
    /\ UNCHANGED <<order, shipments, tracking>>

CarrierRefuses(r) ==
    /\ At(r, "carrier_book")
    /\ Goto(r, "mark_failed")
    /\ UNCHANGED <<order, shipments, waybills, tracking>>

CarrierAnswerLost(r) ==
    /\ At(r, "carrier_book")
    /\ Faults
    /\ waybills' = [waybills EXCEPT ![r] = "issued"]
    /\ Goto(r, "mark_failed")
    /\ UNCHANGED <<order, shipments, tracking>>

(* confirmShipmentSQL has no condition on the state.  An empty waybill number
   reads like none, but is unique like any other: once a shipment of another
   order has it, phase B fails.                                             *)
ConfirmedBug(row, awb) == [row EXCEPT !.state = "booked"]
Confirmed(row, awb) == [row EXCEPT !.state = "booked", !.awb = awb]

ConfirmPhaseB(r) ==
    /\ At(r, "confirm_phase_b")
    /\ \/ /\ shipments' = (shipments \ Row(r)) \cup {Confirmed(row, req[r].awb) : row \in Row(r)}
          /\ Goto(r, "mark_booked")
       \/ req[r].awb = NoAWB /\ End(r) /\ UNCHANGED shipments
    /\ UNCHANGED <<order, waybills, tracking>>

(* markFailedSQL has none either. *)
MarkFailed(r) ==
    /\ At(r, "mark_failed")
    /\ \E row \in Row(r) : shipments' = SetState(row, "failed")
    /\ End(r)
    /\ UNCHANGED <<order, waybills, tracking>>

(* A refused MarkBooked is only logged. *)
BookMarkBooked(r) ==
    /\ At(r, "mark_booked")
    /\ MarkBooked(req[r].awb) \/ (~Bookable /\ UNCHANGED order)
    /\ End(r)
    /\ UNCHANGED <<shipments, waybills, tracking>>

-----------------------------------------------------------------------------
(* CancelOrderHandler, CancelShipmentHandler and shipments.Cancel *)

StartCancelOrder(r) ==
    /\ At(r, "idle")
    /\ Goto(r, "find_shipment")
    /\ UNCHANGED <<order, shipments, waybills, tracking>>

(* GetByOrderID; an order without a shipment, or whose shipment cannot be read,
   is cancelled straight away.                                              *)
FindShipment(r) ==
    /\ At(r, "find_shipment")
    /\ \/ \E row \in shipments :
             req' = [req EXCEPT ![r].cascade = TRUE, ![r].sid = row.id, ![r].step = "get_shipment"]
       \/ (shipments = {} \/ Faults) /\ Goto(r, "cancel_order")
    /\ UNCHANGED <<order, shipments, waybills, tracking>>

StartCancelShipment(r) ==
    /\ At(r, "idle")
    /\ \E row \in shipments :
          req' = [req EXCEPT ![r].sid = row.id, ![r].step = "get_shipment"]
    /\ UNCHANGED <<order, shipments, waybills, tracking>>

(* The waybill to cancel is the one read here. *)
GetShipment(r) ==
    /\ At(r, "get_shipment")
    /\ \E row \in Row(r) :
          req' = [req EXCEPT ![r].awb = row.awb,
                             ![r].step = IF row.awb = NoAWB THEN "cancel_shipment"
                                         ELSE "carrier_cancel"]
    /\ UNCHANGED <<order, shipments, waybills, tracking>>

(* Best effort: the answer is only logged. *)
CarrierCancels(r) ==
    /\ At(r, "carrier_cancel")
    /\ \/ waybills' = [waybills EXCEPT ![req[r].awb] = "cancelled"]
       \/ UNCHANGED waybills
    /\ Goto(r, "cancel_shipment")
    /\ UNCHANGED <<order, shipments, tracking>>

(* cancelShipmentSQL, from any state. *)
CancelShipment(r) ==
    /\ At(r, "cancel_shipment")
    /\ \E row \in Row(r) : shipments' = SetState(row, "cancelled")
    /\ IF req[r].cascade THEN Goto(r, "cancel_order") ELSE End(r)
    /\ UNCHANGED <<order, waybills, tracking>>

(* The cascade goes on to the order when the shipment's cancel failed. *)
CascadeIgnoresError(r) ==
    /\ Faults
    /\ req[r].cascade
    /\ req[r].step \in {"get_shipment", "carrier_cancel", "cancel_shipment"}
    /\ Goto(r, "cancel_order")
    /\ UNCHANGED <<order, shipments, waybills, tracking>>

CancelOrderRow(r) ==
    /\ At(r, "cancel_order")
    /\ CancelOrder \/ (~CanTransition(order.state, "cancelled") /\ UNCHANGED order)
    /\ End(r)
    /\ UNCHANGED <<shipments, waybills, tracking>>

-----------------------------------------------------------------------------
(* RefreshTrackingHandler: tracking.PollNow *)

StartPoll(r) ==
    /\ At(r, "idle")
    /\ \E row \in shipments :
          req' = [req EXCEPT ![r].sid = row.id, ![r].step = "lookup"]
    /\ UNCHANGED <<order, shipments, waybills, tracking>>

Lookup(r) ==
    /\ At(r, "lookup")
    /\ \E row \in Row(r) :
          IF row.awb = NoAWB
          THEN End(r)
          ELSE req' = [req EXCEPT ![r].awb = row.awb, ![r].state = row.state, ![r].step = "fetch"]
    /\ UNCHANGED <<order, shipments, waybills, tracking>>

(* The adapter's answer: all scans so far, since PollNow asks from the epoch on
   and sorts them by time (equal times in any order), or no scans at all when
   the answer cannot be read.                                               *)
FetchTrackingEvents(awb) ==
    LET n == Cardinality(scans[awb]) IN
    {<<>>} \cup {list \in Bijection(1..n, scans[awb]) :
                   \A i, j \in 1..n : i < j => list[i].second <= list[j].second}

Fetch(r) ==
    /\ At(r, "fetch")
    /\ \E list \in FetchTrackingEvents(req[r].awb) :
          req' = [req EXCEPT ![r].todo = list, ![r].step = "store"]
    /\ UNCHANGED <<order, shipments, waybills, tracking>>

(* The row of the poll's i-th scan. *)
Fetched(r, i) == EventOf(req[r].awb, req[r].todo[i])

(* One transaction of INSERT ... ON CONFLICT (dedupe_key) DO NOTHING: of the
   scans with one key the first is stored, unless an earlier poll stored one. *)
StoredBug(r) == {}
StoredTwiceBug(r) == {Fetched(r, i) : i \in 1..Len(req[r].todo)}
Stored(r) ==
    {Fetched(r, i) : i \in {i \in 1..Len(req[r].todo) :
        /\ \A event \in tracked : dedupeHash(event) # dedupeHash(Fetched(r, i))
        /\ \A j \in 1..(i - 1) : dedupeHash(Fetched(r, j)) # dedupeHash(Fetched(r, i))}}

Store(r) ==
    /\ At(r, "store")
    /\ tracked' = tracked \cup Stored(r)
    /\ Goto(r, "apply")
    /\ UNCHANGED <<order, shipments, waybills, scans>>

(* applyTransition: what a status asks of the shipment. *)
Froms(e) ==
    CASE e = "moving"        -> {"booked"}
      [] e = "delivered"     -> {"in_transit"}
      [] e = "rto_initiated" -> {"in_transit", "booked"}
      [] e = "rto_delivered" -> {"rto_in_progress"}
      [] e = "none"          -> {}

To(e) ==
    CASE e = "moving"        -> "in_transit"
      [] e = "delivered"     -> "delivered"
      [] e = "rto_initiated" -> "rto_in_progress"
      [] e = "rto_delivered" -> "rto_completed"

(* The statuses that look at the state the request believes in; only they fan
   out to the order.                                                        *)
Guarded(e) == e \notin {"rto_initiated", "rto_delivered"}

(* applyTransition calls the shipments service. *)
Asks(current, e) == Guarded(e) => current \in Froms(e)

NextProbableState(current, e) == IF Asks(current, e) THEN To(e) ELSE current

(* The state re-read under FOR UPDATE decides (transition, MarkRTO). *)
TransitsBug(row, current, e) == current \in Froms(e)
Transits(row, current, e) == row.state \in Froms(e)

(* MarkInTransit and MarkDelivered fan out once the transition has succeeded. *)
FansOutBug(row, current, e) == Guarded(e) /\ Asks(current, e)
FansOut(row, current, e) == Guarded(e) /\ Asks(current, e) /\ Transits(row, current, e)

(* The status of the next scan, normalised a second time and applied whether
   or not its row was stored.                                               *)
NextStatus(r) == normalise(Head(req[r].todo).code, Head(req[r].todo).text)

Apply(r) ==
    LET e == NextStatus(r)
        current == req[r].state
    IN
    /\ At(r, "apply")
    /\ req[r].todo # <<>>
    /\ \E row \in Row(r) :
          /\ shipments' = IF Asks(current, e) /\ Transits(row, current, e)
                          THEN SetState(row, To(e)) ELSE shipments
          /\ req' = [req EXCEPT ![r].todo = Tail(@),
                                ![r].state = NextProbableState(current, e),
                                ![r].step = IF FansOut(row, current, e) THEN "fanout" ELSE "apply"]
    /\ UNCHANGED <<order, waybills, tracking>>

PollEnds(r) ==
    /\ At(r, "apply")
    /\ req[r].todo = <<>>
    /\ End(r)
    /\ UNCHANGED <<order, shipments, waybills, tracking>>

(* fanoutOrderTransition to the state just reached; a refusal is only logged. *)
Fanout(r) ==
    /\ At(r, "fanout")
    /\ IF req[r].state = "delivered"
       THEN Attempt("in_transit", "delivered")
       ELSE Attempt("booked", "in_transit")
    /\ Goto(r, "apply")
    /\ UNCHANGED <<shipments, waybills, tracking>>

(* Errors of a transition and of its fan-out are dropped: on to the next event. *)
PollIgnoresError(r) ==
    /\ Faults
    /\ \/ /\ At(r, "apply")
          /\ req[r].todo # <<>>
          /\ req' = [req EXCEPT ![r].todo = Tail(@),
                                ![r].state = NextProbableState(@, NextStatus(r))]
       \/ At(r, "fanout") /\ Goto(r, "apply")
    /\ UNCHANGED <<order, shipments, waybills, tracking>>

-----------------------------------------------------------------------------
(* An error that is returned, a cancelled context, a crash. *)
Abort(r) ==
    /\ Faults
    /\ ~At(r, "idle")
    /\ End(r)
    /\ UNCHANGED <<order, shipments, waybills, tracking>>

(* The carrier reports on a parcel whose waybill it has not cancelled. *)
CarrierScans(w) ==
    /\ waybills[w] = "issued"
    /\ Cardinality(scans[w]) < MaxScans
    /\ \E s \in Scans \ scans[w] : scans' = [scans EXCEPT ![w] = @ \cup {s}]
    /\ UNCHANGED <<order, shipments, waybills, tracked, req>>

BookStep(r) ==
    \/ GetOrder(r) \/ BookMarkReady(r) \/ Allocate(r) \/ BookMarkAllocating(r) \/ PersistPhaseA(r)
    \/ CarrierBooks(r) \/ CarrierBooksBlank(r) \/ CarrierRefuses(r) \/ CarrierAnswerLost(r)
    \/ ConfirmPhaseB(r) \/ MarkFailed(r) \/ BookMarkBooked(r)

CancelStep(r) ==
    \/ FindShipment(r) \/ GetShipment(r) \/ CarrierCancels(r) \/ CancelShipment(r)
    \/ CascadeIgnoresError(r) \/ CancelOrderRow(r)

PollStep(r) ==
    \/ Lookup(r) \/ Fetch(r) \/ Store(r) \/ Apply(r) \/ Fanout(r) \/ PollIgnoresError(r)
    \/ PollEnds(r)

FulfilmentNext ==
    \/ \E r \in Requests :
          \/ StartBook(r) \/ StartCancelOrder(r) \/ StartCancelShipment(r) \/ StartPoll(r)
          \/ BookStep(r) \/ CancelStep(r) \/ PollStep(r)
          \/ Abort(r)
    \/ \E w \in AWBs : CarrierScans(w)

FulfilmentSpec == FulfilmentInit /\ [][FulfilmentNext]_fvars

-----------------------------------------------------------------------------
(* Types, and the rows of tracking_event: each tells a scan the carrier made,
   and ON CONFLICT keeps the dedupe keys unique.                            *)
FulfilmentTypeOK ==
    /\ order \in Order
    /\ shipments \subseteq Shipment
    /\ waybills \in [AWBs -> {"none", "issued", "cancelled"}]
    /\ scans \in [AWBs -> SUBSET Scans]
    /\ tracked \subseteq Event
    /\ req \in [Requests -> Request]
    /\ \A event \in tracked : \E s \in scans[event.awb] : event = EventOf(event.awb, s)
    /\ \A a, b \in tracked : dedupeHash(a) = dedupeHash(b) => a = b

(* An order is booked with the carrier at most once, however many Book
   requests race, retry or die: two waybills would mean two parcels.        *)
OneWaybillPerOrder ==
    \A v, w \in AWBs : waybills[v] # "none" /\ waybills[w] # "none" => v = w

(* An order that shows a waybill shows the one its shipment has and the
   carrier issued, and from 'booked' on it stands on a shipment that the
   carrier confirmed: MarkBooked comes after the carrier's answer and after
   phase B.  (The waybill is empty when the carrier's was.)                 *)
OrderShowsItsWaybill ==
    /\ order.awb # NoAWB => waybills[order.awb] # "none"
    /\ order.awb # NoAWB \/ order.state \in {"booked", "in_transit", "delivered"}
          => \E row \in shipments : /\ row.awb = order.awb
                                    /\ row.state \notin {"pending_carrier", "failed"}

(* Some scan of the parcel says e, and tracking_event has a row with its key.
   That row may say something else: of two scans with the same code and
   second the first is stored, and both are applied.                        *)
Evidence(e) ==
    \E event \in tracked : \E s \in scans[event.awb] :
        /\ dedupeHash(EventOf(event.awb, s)) = dedupeHash(event)
        /\ normalise(s.code, s.text) = e

(* The order follows the parcel and never runs ahead of it: it is in transit
   or delivered only on the evidence of scans, and no refused or reordered
   step of a poll puts a state on it that the carrier never reported.       *)
OrderNeverAhead ==
    /\ order.state \in {"in_transit", "delivered"} => Evidence("moving")
    /\ order.state = "delivered" => Evidence("delivered")
    /\ \A row \in shipments : row.state = "delivered" => Evidence("delivered")

(* Shipment and order are moved in two transactions, the shipment first: in
   whatever order polls, bookings and cancels reach the two rows, the order is
   in transit only when the shipment has left 'booked', and delivered only
   when the shipment is, or was before it was cancelled.                    *)
ShipmentLeads ==
    \A row \in shipments :
        /\ order.state = "in_transit" => row.state \notin {"pending_carrier", "booked", "failed"}
        /\ order.state = "delivered" => row.state \in {"delivered", "cancelled"}

(* A shipment that is cancelled once it has its waybill stays cancelled,
   although polls that read 'booked' before the cancel go on after it.      *)
CancelSticks ==
    [][\A row \in shipments : row.state = "cancelled" /\ row.awb # NoAWB
            => row \in shipments']_fvars

(* handlers/orders.go line 107: the cascade is there so that "we don't end up
   with a cancelled order whose shipment quietly delivers".  A Book that
   is under way when the order is cancelled goes on and breaks it.          *)
CancelledOrderNeverDelivers ==
    order.state = "cancelled" => \A row \in shipments : row.state # "delivered"

AtRest == \A r \in Requests : At(r, "idle")

(* shipments/service_impl.go line 434: fanoutOrderTransition "mirrors a
   shipment state change to the matching order state"; an order is refused
   because it is "already past this state".  At rest, a delivered shipment
   would have a delivered order; a poll that overtakes MarkBooked breaks it. *)
DeliveryMirrored ==
    AtRest => \A row \in shipments : row.state = "delivered" => order.state = "delivered"
=============================================================================
