-------------------------- MODULE FulfilmentProofs --------------------------
(***************************************************************************)
(* Proofs about Fulfilment for any number of concurrent requests and any   *)
(* number of scans.  The inductive invariant FInv says, request by         *)
(* request, what a request knows at each of its steps: between phase A and *)
(* its end a booking request owns the only shipment row, and what it or a  *)
(* cancel is about to write was issued by the carrier.                     *)
(***************************************************************************)
EXTENDS Fulfilment, SequenceTheorems, FiniteSetTheorems, NaturalsInduction,
        WellFoundedInduction, TLAPS

Owning == {"carrier_book", "confirm_phase_b", "mark_failed", "mark_booked"}
Polling == {"fetch", "store", "apply", "fanout"}

Beyond == {"booked", "in_transit", "delivered"}
Unbooked == {"pending_carrier", "failed"}

(* What holds of a request's record k at its step. *)
RecordOK(k, r) ==
    /\ k \in Request
    /\ k.step \in Owning => k.sid = r /\ \E row \in shipments : row.id = r
    /\ k.step \in Owning \ {"mark_booked"}
          => order.state \notin Beyond /\ \A row \in shipments : row.awb = NoAWB
    /\ k.step = "confirm_phase_b" => k.awb \in {r, NoAWB}
    /\ k.step \in {"confirm_phase_b", "mark_booked"} /\ k.awb # NoAWB => waybills[r] # "none"
    /\ k.step = "mark_booked" => /\ k.awb \in {r, NoAWB}
                                /\ \E row \in shipments : row.awb = k.awb /\ row.state \notin Unbooked
    /\ k.step = "carrier_cancel" => k.awb \in AWBs /\ waybills[k.awb] # "none"
    /\ k.step \in Polling => k.awb \in AWBs /\ \E row \in shipments : row.awb # NoAWB
    /\ k.step = "store" => \A i \in 1..Len(k.todo) : k.todo[i] \in scans[k.awb]

OrderTyped == order \in [state : OrderState, awb : AWBs \cup {NoAWB}]

(* The one shipment row and the waybills. *)
RowsOK ==
    /\ shipments \subseteq Shipment
    /\ waybills \in [AWBs -> {"none", "issued", "cancelled"}]
    /\ \A a, b \in shipments : a = b
    /\ \A row \in shipments : row.awb # NoAWB => row.awb = row.id /\ waybills[row.awb] # "none"
    /\ \A w \in AWBs : waybills[w] # "none" => \E row \in shipments : row.id = w

TrackingTyped ==
    /\ scans \in [AWBs -> SUBSET Scans]
    /\ tracked \subseteq Event
    /\ \A event \in tracked : \E s \in scans[event.awb] : event = EventOf(event.awb, s)
    /\ \A a, b \in tracked : dedupeHash(a) = dedupeHash(b) => a = b

FInv ==
    /\ OrderTyped
    /\ RowsOK
    /\ TrackingTyped
    /\ OrderShowsItsWaybill
    /\ req \in [Requests -> Request]
    /\ \A r \in Requests : RecordOK(req[r], r)

(* A step of request r leaves the records of the others alone. *)
OnlyMoves(r) ==
    /\ req' \in [Requests -> Request]
    /\ \A q \in Requests \ {r} : req'[q] = req[q]

-----------------------------------------------------------------------------
(* A step that changes the order at most, and leaves r with a good record,
   keeps the invariant: the steps of a handler that only read, and the calls
   of the order service.                                                    *)
LEMMA OrderStep ==
    ASSUME FInv, NEW r \in Requests, OnlyMoves(r), RecordOK(req'[r], r),
           UNCHANGED <<shipments, waybills, scans, tracked>>,
           OrderTyped', OrderShowsItsWaybill',
           order'.state \in Beyond => order.state \in Beyond \/ At(r, "mark_booked"),
           req'[r].step \notin Owning
    PROVE  FInv'
<1>1. RowsOK' /\ TrackingTyped'
  BY DEF FInv, RowsOK, TrackingTyped
<1>2. \A q \in Requests : RecordOK(req[q], q)'
  <2> TAKE q \in Requests
  <2>1. RecordOK(req'[q], q)
    BY DEF FInv, OnlyMoves
  <2>2. req'[q].step \in Owning \ {"mark_booked"} => order'.state \notin Beyond
    <3> SUFFICES ASSUME req'[q].step \in Owning \ {"mark_booked"}, At(r, "mark_booked")
                 PROVE  FALSE
      BY <2>1 DEF RecordOK
    <3>1. q # r /\ RecordOK(req[r], r)
      BY DEF FInv
    <3> QED
      BY <2>1, <3>1 DEF FInv, RowsOK, RecordOK, At, Owning
  <2> QED
    BY <2>1, <2>2 DEF RecordOK
<1> QED
  BY <1>1, <1>2 DEF FInv, OnlyMoves

(* A step that changes nothing but r's record. *)
LEMMA ReadStep ==
    ASSUME FInv, NEW r \in Requests, OnlyMoves(r), RecordOK(req'[r], r),
           UNCHANGED <<order, shipments, waybills, scans, tracked>>
    PROVE  FInv'
<1>1. OrderTyped' /\ OrderShowsItsWaybill' /\ RowsOK' /\ TrackingTyped'
  BY DEF FInv, OrderTyped, OrderShowsItsWaybill, RowsOK, TrackingTyped
<1>2. \A q \in Requests : RecordOK(req[q], q)'
  <2> TAKE q \in Requests
  <2>1. RecordOK(req'[q], q)
    BY DEF FInv, OnlyMoves
  <2> QED
    BY <2>1 DEF RecordOK
<1> QED
  BY <1>1, <1>2 DEF FInv, OnlyMoves

(* Replacing the state of the shipment keeps its id and its waybill, and so
   the invariant: markFailedSQL, cancelShipmentSQL and the transitions.  Only
   the request that owns the shipment calls a booking off.                  *)
LEMMA SetStateStep ==
    ASSUME FInv, NEW r \in Requests, OnlyMoves(r), RecordOK(req'[r], r),
           NEW row \in shipments, NEW st \in ShipmentState, shipments' = SetState(row, st),
           UNCHANGED <<order, waybills, scans, tracked>>,
           st \in Unbooked => At(r, "mark_failed"),
           req'[r].step \notin Owning
    PROVE  FInv'
<1> DEFINE new == [row EXCEPT !.state = st]
<1>1. row \in Shipment /\ shipments = {row}
  BY DEF FInv, RowsOK
<1>2. new \in Shipment /\ new.id = row.id /\ new.awb = row.awb /\ new.state = st
  BY <1>1 DEF Shipment
<1>3. shipments' = {new}
  BY <1>1 DEF SetState
<1> HIDE DEF new
<1>4. RowsOK'
  BY <1>1, <1>2, <1>3 DEF FInv, RowsOK
<1>5. At(r, "mark_failed") => /\ order.state \notin Beyond /\ row.awb = NoAWB /\ row.id = r
  BY <1>1 DEF FInv, RecordOK, At, Owning
<1>6. OrderShowsItsWaybill'
  BY <1>1, <1>2, <1>3, <1>5 DEF FInv, OrderShowsItsWaybill, Beyond, Unbooked
<1>7. OrderTyped' /\ TrackingTyped'
  BY DEF FInv, OrderTyped, TrackingTyped
<1>8. \A q \in Requests : RecordOK(req[q], q)'
  <2> TAKE q \in Requests
  <2>1. RecordOK(req'[q], q)
    BY DEF FInv, OnlyMoves
  <2>2. req'[q].step = "mark_booked" => new.state \notin Unbooked
    <3>1. req'[q].step = "mark_booked" => q # r /\ row.id = q
      BY <1>1, <2>1 DEF RecordOK, Owning
    <3> QED
      BY <1>2, <1>5, <3>1
  <2> QED
    BY <1>1, <1>2, <1>3, <2>1, <2>2 DEF RecordOK
<1> QED
  BY <1>4, <1>6, <1>7, <1>8 DEF FInv, OnlyMoves

(* What the carrier does to a waybill of the shipment keeps the invariant. *)
LEMMA CarrierStep ==
    ASSUME FInv, NEW r \in Requests, OnlyMoves(r), RecordOK(req[r], r)',
           NEW w \in AWBs, \E row \in shipments : row.id = w,
           NEW v \in {"issued", "cancelled"}, waybills' = [waybills EXCEPT ![w] = v],
           UNCHANGED <<order, shipments, scans, tracked>>
    PROVE  FInv'
<1>1. \A u \in AWBs : waybills[u] # "none" => waybills'[u] # "none"
  BY DEF FInv, RowsOK
<1>2. RowsOK'
  BY <1>1 DEF FInv, RowsOK, Shipment
<1>3. OrderTyped' /\ TrackingTyped' /\ OrderShowsItsWaybill'
  BY <1>1 DEF FInv, OrderTyped, TrackingTyped, OrderShowsItsWaybill
<1>4. \A q \in Requests : RecordOK(req[q], q)'
  <2> TAKE q \in Requests
  <2>1. CASE q = r
    BY <2>1
  <2>2. CASE q # r
    <3>1. RecordOK(req'[q], q)
      BY <2>2 DEF FInv, OnlyMoves
    <3> QED
      BY <1>1, <3>1, WaybillNames DEF RecordOK
  <2> QED
    BY <2>1, <2>2
<1> QED
  BY <1>2, <1>3, <1>4 DEF FInv, OnlyMoves

-----------------------------------------------------------------------------
(* The steps at which a request's record promises nothing. *)
Plain == Steps \ (Owning \cup Polling \cup {"carrier_cancel"})

(* Writing one record changes that record only. *)
LEMMA SetRecord ==
    ASSUME req \in [Requests -> Request], NEW r \in Requests, NEW k \in Request,
           req' = [req EXCEPT ![r] = k]
    PROVE  OnlyMoves(r) /\ req'[r] = k
BY DEF OnlyMoves

(* What Goto does to the records. *)
LEMMA GotoRecord ==
    ASSUME req \in [Requests -> Request], NEW r \in Requests, NEW s \in Steps, Goto(r, s)
    PROVE  /\ OnlyMoves(r) /\ req'[r] = [req[r] EXCEPT !.step = s]
           /\ req'[r].step = s
<1>1. OnlyMoves(r) /\ req'[r] = [req[r] EXCEPT !.step = s]
  BY DEF Goto, OnlyMoves, Request
<1>2. req'[r].step = s
  BY <1>1 DEF Request
<1> QED
  BY <1>1, <1>2

(* A request may always go on to a plain step. *)
LEMMA GotoPlain ==
    ASSUME req \in [Requests -> Request], NEW r \in Requests, NEW s \in Plain, Goto(r, s)
    PROVE  OnlyMoves(r) /\ RecordOK(req'[r], r) /\ req'[r].step = s
<1>1. s \in Steps
  BY DEF Plain
<1>2. OnlyMoves(r) /\ req'[r] = [req[r] EXCEPT !.step = s]
  BY <1>1, GotoRecord
<1>3. req'[r] \in Request /\ req'[r].step = s
  BY <1>1, <1>2 DEF Request, OnlyMoves
<1> QED
  BY <1>2, <1>3 DEF RecordOK, Plain, Owning, Polling

(* A request may end at any time. *)
LEMMA EndRecord ==
    ASSUME req \in [Requests -> Request], NEW r \in Requests, End(r)
    PROVE  OnlyMoves(r) /\ RecordOK(req'[r], r) /\ req'[r].step = "idle"
<1>1. NoRequest \in Request /\ NoRequest.step = "idle"
  BY EmptySeq DEF NoRequest, Request, Steps, ShipmentState
<1>2. OnlyMoves(r) /\ req'[r] = NoRequest
  BY <1>1 DEF End, OnlyMoves
<1> QED
  BY <1>1, <1>2 DEF RecordOK, Owning, Polling

(* The order's state may change if the new state does not claim a waybill the
   order has not: the calls of the order service except MarkBooked.         *)
LEMMA OrderStateOK ==
    ASSUME FInv, NEW st \in OrderState, order' = [order EXCEPT !.state = st],
           UNCHANGED <<shipments, waybills>>,
           st \in Beyond => order.state \in Beyond
    PROVE  /\ OrderTyped' /\ OrderShowsItsWaybill'
           /\ order'.state \in Beyond => order.state \in Beyond
<1>1. order' \in [state : OrderState, awb : AWBs \cup {NoAWB}]
      /\ order'.state = st /\ order'.awb = order.awb
  BY DEF FInv, OrderTyped
<1> QED
  BY <1>1 DEF FInv, OrderTyped, OrderShowsItsWaybill, Beyond

(* The calls a handler attempts keep the order's part of the invariant. *)
LEMMA AttemptOK ==
    ASSUME FInv, UNCHANGED <<shipments, waybills>>,
           \/ Attempt("draft", "ready") \/ Attempt("ready", "allocating")
           \/ Attempt("booked", "in_transit") \/ Attempt("in_transit", "delivered")
    PROVE  /\ OrderTyped' /\ OrderShowsItsWaybill'
           /\ order'.state \in Beyond => order.state \in Beyond
<1>1. CASE UNCHANGED order
  BY <1>1 DEF FInv, OrderTyped, OrderShowsItsWaybill
<1>2. ASSUME NEW from \in OrderState, NEW to \in OrderState, TransitionUnder(from, to),
             to \in Beyond => from \in Beyond
      PROVE  /\ OrderTyped' /\ OrderShowsItsWaybill'
             /\ order'.state \in Beyond => order.state \in Beyond
  BY <1>2, OrderStateOK DEF TransitionUnder, TransitionState
<1> QED
  BY <1>1, <1>2 DEF Attempt, OrderState, Beyond

-----------------------------------------------------------------------------
(* Phase A inserts the only shipment row and makes r its owner. *)
LEMMA PersistPhaseAOK ==
    ASSUME FInv, NEW r \in Requests, PersistPhaseA(r)
    PROVE  FInv'
<1>1. CASE ~UniqueOrder
  <2>1. OnlyMoves(r) /\ RecordOK(req'[r], r)
    BY <1>1, EndRecord DEF FInv, PersistPhaseA
  <2> QED
    BY <1>1, <2>1, ReadStep DEF PersistPhaseA, tracking
<1>2. CASE UniqueOrder
  <2> DEFINE row == [id |-> r, state |-> "pending_carrier", awb |-> NoAWB]
  <2>1. shipments = {} /\ shipments' = {row}
    BY <1>2 DEF PersistPhaseA, UniqueOrder
  <2>2. row \in Shipment /\ row.id = r /\ row.awb = NoAWB
    BY DEF Shipment, ShipmentState
  <2> HIDE DEF row
  <2>3. UNCHANGED <<order, waybills, scans, tracked>>
    BY DEF PersistPhaseA, tracking
  <2>4. /\ OnlyMoves(r)
        /\ req'[r] \in Request /\ req'[r].step = "carrier_book" /\ req'[r].sid = r
    <3> DEFINE k == [req[r] EXCEPT !.step = "carrier_book", !.sid = r]
    <3>1. req[r] \in Request
      BY DEF FInv
    <3>2. k \in Request /\ k.step = "carrier_book" /\ k.sid = r
      BY <3>1 DEF Request, Steps
    <3>3. req' = [req EXCEPT ![r] = k]
      BY <1>2 DEF FInv, PersistPhaseA
    <3> HIDE DEF k
    <3> QED
      BY <3>2, <3>3, SetRecord DEF FInv
  <2>5. RowsOK'
    BY <2>1, <2>2, <2>3 DEF FInv, RowsOK
  <2>6. /\ OrderTyped' /\ TrackingTyped' /\ OrderShowsItsWaybill'
        /\ order'.state \notin Beyond
    BY <2>1, <2>3 DEF FInv, OrderTyped, TrackingTyped, OrderShowsItsWaybill, Beyond
  <2>7. \A q \in Requests : RecordOK(req[q], q)'
    <3> TAKE q \in Requests
    <3>1. CASE q = r
      BY <2>1, <2>2, <2>4, <2>6, <3>1 DEF RecordOK, Owning, Polling
    <3>2. CASE q # r
      <4>1. RecordOK(req'[q], q)
        BY <2>4, <3>2 DEF FInv, OnlyMoves
      <4> QED
        BY <2>1, <2>3, <4>1 DEF RecordOK, Owning, Polling
    <3> QED
      BY <3>1, <3>2
  <2> QED
    BY <2>4, <2>5, <2>6, <2>7 DEF FInv, OnlyMoves
<1> QED
  BY <1>1, <1>2

(* Phase B writes the waybill on the row its request owns.  No other request
   is then between phase A and phase B.                                     *)
LEMMA ConfirmPhaseBOK ==
    ASSUME FInv, NEW r \in Requests, ConfirmPhaseB(r),
           shipments' = (shipments \ Row(r)) \cup {Confirmed(row, req[r].awb) : row \in Row(r)},
           Goto(r, "mark_booked")
    PROVE  FInv'
<1> DEFINE awb == req[r].awb
<1>1. RecordOK(req[r], r) /\ req[r] \in Request /\ req[r].step = "confirm_phase_b"
  BY DEF FInv, ConfirmPhaseB, At
<1>2. /\ req[r].sid = r /\ awb \in {r, NoAWB} /\ (awb # NoAWB => waybills[r] # "none")
      /\ order.state \notin Beyond
  BY <1>1 DEF RecordOK, Owning
<1>3. PICK row \in shipments : row.id = r
  BY <1>1 DEF RecordOK, Owning
<1>4. shipments = {row} /\ row \in Shipment /\ row.awb = NoAWB
  BY <1>1, <1>3 DEF FInv, RowsOK, RecordOK, Owning
<1> DEFINE new == Confirmed(row, awb)
<1>5. new \in Shipment /\ new.id = r /\ new.awb = awb /\ new.state = "booked"
  BY <1>2, <1>3, <1>4, WaybillNames DEF Confirmed, Shipment, ShipmentState
<1>6. shipments' = {new}
  BY <1>2, <1>3, <1>4 DEF Row
<1> HIDE DEF new
<1>7. UNCHANGED <<order, waybills, scans, tracked>>
  BY DEF ConfirmPhaseB, tracking
<1>8. OnlyMoves(r) /\ req'[r] = [req[r] EXCEPT !.step = "mark_booked"]
  BY GotoRecord DEF FInv, Steps
<1>9. /\ req'[r] \in Request /\ req'[r].step = "mark_booked"
      /\ req'[r].sid = r /\ req'[r].awb = awb
  BY <1>1, <1>2, <1>8 DEF OnlyMoves, Request
<1> HIDE DEF awb
<1>10. RowsOK'
  BY <1>2, <1>3, <1>4, <1>5, <1>6, <1>7 DEF FInv, RowsOK
<1>11. OrderTyped' /\ TrackingTyped' /\ OrderShowsItsWaybill'
  BY <1>2, <1>4, <1>7 DEF FInv, OrderTyped, TrackingTyped, OrderShowsItsWaybill, Beyond
<1>12. \A q \in Requests : RecordOK(req[q], q)'
  <2> TAKE q \in Requests
  <2>1. CASE q = r
    BY <1>2, <1>5, <1>6, <1>7, <1>9, <2>1 DEF RecordOK, Owning, Polling, Unbooked
  <2>2. CASE q # r
    <3>1. RecordOK(req'[q], q)
      BY <1>8, <2>2 DEF FInv, OnlyMoves
    <3>2. req'[q].step \notin Owning /\ req'[q].step \notin Polling
      BY <1>3, <1>4, <2>2, <3>1 DEF RecordOK
    <3> QED
      BY <1>7, <3>1, <3>2 DEF RecordOK, Owning, Polling
  <2> QED
    BY <2>1, <2>2
<1> QED
  BY <1>8, <1>10, <1>11, <1>12 DEF FInv, OnlyMoves

(* The carrier's answer, or its loss, after phase A. *)
LEMMA CarrierBookOK ==
    ASSUME FInv, NEW r \in Requests,
           \/ CarrierBooks(r) \/ CarrierBooksBlank(r)
           \/ CarrierRefuses(r) \/ CarrierAnswerLost(r)
    PROVE  FInv'
<1>1. RecordOK(req[r], r) /\ req[r] \in Request /\ req[r].step = "carrier_book"
  BY DEF FInv, CarrierBooks, CarrierBooksBlank, CarrierRefuses, CarrierAnswerLost, At
<1>2. /\ req[r].sid = r /\ \E row \in shipments : row.id = r
      /\ order.state \notin Beyond /\ \A row \in shipments : row.awb = NoAWB
  BY <1>1 DEF RecordOK, Owning
<1>3. r \in AWBs
  BY WaybillNames
<1>4. ASSUME Goto(r, "mark_failed")
      PROVE  OnlyMoves(r) /\ RecordOK(req'[r], r)
  <2>1. OnlyMoves(r) /\ req'[r] = [req[r] EXCEPT !.step = "mark_failed"]
    BY <1>4, GotoRecord DEF FInv, Steps
  <2>2. req'[r] \in Request /\ req'[r].step = "mark_failed" /\ req'[r].sid = r
    BY <1>1, <1>2, <2>1 DEF OnlyMoves, Request
  <2> QED
    BY <1>2, <2>1, <2>2 DEF RecordOK, Owning, Polling
<1>5. CASE CarrierBooks(r)
  <2> DEFINE k == [req[r] EXCEPT !.awb = r, !.step = "confirm_phase_b"]
  <2>1. k \in Request /\ k.step = "confirm_phase_b" /\ k.sid = r /\ k.awb = r
    BY <1>1, <1>2, <1>3 DEF Request, Steps
  <2>2. req' = [req EXCEPT ![r] = k]
    BY <1>5 DEF FInv, CarrierBooks
  <2> HIDE DEF k
  <2>3. OnlyMoves(r) /\ req'[r] = k
    BY <2>1, <2>2, SetRecord DEF FInv
  <2>4. /\ waybills' = [waybills EXCEPT ![r] = "issued"]
        /\ UNCHANGED <<order, shipments, scans, tracked>>
    BY <1>5 DEF CarrierBooks, tracking
  <2>5. waybills'[r] # "none"
    BY <1>3, <2>4 DEF FInv, RowsOK
  <2>6. RecordOK(req[r], r)'
    BY <1>2, <2>1, <2>3, <2>4, <2>5 DEF RecordOK, Owning, Polling
  <2> QED
    BY <1>2, <1>3, <2>3, <2>4, <2>6, CarrierStep
<1>6. CASE CarrierRefuses(r)
  BY <1>4, <1>6, ReadStep DEF CarrierRefuses, tracking
<1>7. CASE CarrierAnswerLost(r)
  <2>1. /\ waybills' = [waybills EXCEPT ![r] = "issued"] /\ Goto(r, "mark_failed")
        /\ UNCHANGED <<order, shipments, scans, tracked>>
    BY <1>7 DEF CarrierAnswerLost, tracking
  <2>2. OnlyMoves(r) /\ RecordOK(req'[r], r)
    BY <1>4, <2>1
  <2>3. req'[r].step = "mark_failed"
    BY <2>1, GotoRecord DEF FInv, Steps
  <2>4. RecordOK(req[r], r)'
    BY <2>1, <2>2, <2>3 DEF RecordOK, Owning, Polling
  <2> QED
    BY <1>2, <1>3, <2>1, <2>2, <2>4, CarrierStep
<1>8. CASE CarrierBooksBlank(r)
  <2> DEFINE k == [req[r] EXCEPT !.awb = NoAWB, !.step = "confirm_phase_b"]
  <2>1. k \in Request /\ k.step = "confirm_phase_b" /\ k.sid = r /\ k.awb = NoAWB
    BY <1>1, <1>2 DEF Request, Steps
  <2>2. req' = [req EXCEPT ![r] = k]
    BY <1>8 DEF FInv, CarrierBooksBlank
  <2> HIDE DEF k
  <2>3. OnlyMoves(r) /\ req'[r] = k
    BY <2>1, <2>2, SetRecord DEF FInv
  <2>4. UNCHANGED <<order, shipments, scans, tracked>>
    BY <1>8 DEF CarrierBooksBlank, tracking
  <2>5. RecordOK(req'[r], r) /\ RecordOK(req[r], r)'
    BY <1>2, <2>1, <2>3, <2>4 DEF RecordOK, Owning, Polling
  <2>6. CASE UNCHANGED waybills
    BY <2>3, <2>4, <2>5, <2>6, ReadStep
  <2>7. CASE waybills' = [waybills EXCEPT ![r] = "issued"]
    BY <1>2, <1>3, <2>3, <2>4, <2>5, <2>7, CarrierStep
  <2> QED
    BY <1>8, <2>6, <2>7 DEF CarrierBooksBlank
<1> QED
  BY <1>5, <1>6, <1>7, <1>8

(* markFailedSQL ends the request. *)
LEMMA MarkFailedOK ==
    ASSUME FInv, NEW r \in Requests, MarkFailed(r)
    PROVE  FInv'
<1>1. PICK row \in Row(r) : shipments' = SetState(row, "failed")
  BY DEF MarkFailed
<1>2. OnlyMoves(r) /\ RecordOK(req'[r], r) /\ req'[r].step \notin Owning
  BY EndRecord DEF FInv, MarkFailed, Owning
<1>3. row \in shipments /\ "failed" \in ShipmentState
  BY DEF Row, ShipmentState
<1> QED
  BY <1>1, <1>2, <1>3, SetStateStep DEF MarkFailed, tracking

(* MarkBooked puts the request's own waybill on the order. *)
LEMMA BookMarkBookedOK ==
    ASSUME FInv, NEW r \in Requests, BookMarkBooked(r)
    PROVE  FInv'
<1>1. /\ OnlyMoves(r) /\ RecordOK(req'[r], r) /\ req'[r].step \notin Owning
      /\ UNCHANGED <<shipments, waybills, scans, tracked>>
  BY EndRecord DEF FInv, BookMarkBooked, tracking, Owning
<1>2. CASE UNCHANGED order
  BY <1>1, <1>2, ReadStep
<1>3. CASE MarkBooked(req[r].awb)
  <2>1. RecordOK(req[r], r) /\ req[r].step = "mark_booked"
    BY DEF FInv, BookMarkBooked, At
  <2>2. /\ req[r].awb \in {r, NoAWB} /\ (req[r].awb # NoAWB => waybills[r] # "none")
        /\ \E row \in shipments : row.awb = req[r].awb /\ row.state \notin Unbooked
    BY <2>1 DEF RecordOK
  <2>3. order' = [state |-> "booked", awb |-> req[r].awb] /\ r \in AWBs
    BY <1>3, WaybillNames DEF MarkBooked
  <2>4. OrderTyped'
    BY <2>2, <2>3 DEF OrderTyped, OrderState
  <2>5. OrderShowsItsWaybill'
    BY <1>1, <2>2, <2>3 DEF OrderShowsItsWaybill, Unbooked
  <2> QED
    BY <1>1, <2>1, <2>4, <2>5, OrderStep DEF At
<1> QED
  BY <1>2, <1>3 DEF BookMarkBooked

(* Every step of a booking request keeps the invariant. *)
LEMMA BookStepOK ==
    ASSUME FInv, NEW r \in Requests, BookStep(r)
    PROVE  FInv'
<1>1. CASE GetOrder(r)
  <2>1. OnlyMoves(r) /\ RecordOK(req'[r], r)
    BY <1>1, EndRecord, GotoPlain DEF FInv, GetOrder, Plain, Steps, Owning, Polling
  <2> QED
    BY <1>1, <2>1, ReadStep DEF GetOrder, tracking
<1>2. CASE BookMarkReady(r)
  <2>1. OnlyMoves(r) /\ RecordOK(req'[r], r) /\ req'[r].step \notin Owning
    BY <1>2, GotoPlain DEF FInv, BookMarkReady, Plain, Steps, Owning, Polling
  <2> QED
    BY <1>2, <2>1, AttemptOK, OrderStep DEF BookMarkReady, tracking
<1>3. CASE BookMarkAllocating(r)
  <2>1. OnlyMoves(r) /\ RecordOK(req'[r], r) /\ req'[r].step \notin Owning
    BY <1>3, GotoPlain DEF FInv, BookMarkAllocating, Plain, Steps, Owning, Polling
  <2> QED
    BY <1>3, <2>1, AttemptOK, OrderStep DEF BookMarkAllocating, tracking
<1>4. CASE Allocate(r)
  <2>1. OnlyMoves(r) /\ RecordOK(req'[r], r)
    BY <1>4, EndRecord, GotoPlain DEF FInv, Allocate, Plain, Steps, Owning, Polling
  <2> QED
    BY <1>4, <2>1, ReadStep DEF Allocate, tracking
<1>5. CASE ConfirmPhaseB(r)
  <2>1. CASE End(r) /\ UNCHANGED shipments
    BY <1>5, <2>1, EndRecord, ReadStep DEF FInv, ConfirmPhaseB, tracking
  <2> QED
    BY <1>5, <2>1, ConfirmPhaseBOK DEF ConfirmPhaseB
<1> QED
  BY <1>1, <1>2, <1>3, <1>4, <1>5, PersistPhaseAOK, CarrierBookOK, MarkFailedOK,
     BookMarkBookedOK DEF BookStep

-----------------------------------------------------------------------------
(* A request that picks the shipment up at a plain step. *)
LEMMA PickShipment ==
    ASSUME FInv, NEW r \in Requests, NEW s \in Plain, NEW c \in BOOLEAN,
           NEW row \in shipments,
           \/ req' = [req EXCEPT ![r].sid = row.id, ![r].step = s]
           \/ req' = [req EXCEPT ![r].cascade = c, ![r].sid = row.id, ![r].step = s],
           UNCHANGED <<order, shipments, waybills, scans, tracked>>
    PROVE  FInv'
<1>1. req[r] \in Request /\ row \in Shipment /\ s \in Steps
  BY DEF FInv, RowsOK, Plain
<1>2. ASSUME NEW k \in Request, k.step = s, req' = [req EXCEPT ![r] = k]
      PROVE  FInv'
  <2>1. OnlyMoves(r) /\ req'[r] = k
    BY <1>2, SetRecord DEF FInv
  <2>2. RecordOK(req'[r], r)
    BY <1>2, <2>1 DEF RecordOK, Plain, Owning, Polling
  <2> QED
    BY <2>1, <2>2, ReadStep
<1>3. CASE req' = [req EXCEPT ![r].sid = row.id, ![r].step = s]
  <2> DEFINE k == [req[r] EXCEPT !.sid = row.id, !.step = s]
  <2>1. k \in Request /\ k.step = s
    BY <1>1 DEF Request, Shipment
  <2>2. req' = [req EXCEPT ![r] = k]
    BY <1>3 DEF FInv
  <2> HIDE DEF k
  <2> QED
    BY <1>2, <2>1, <2>2
<1>4. CASE req' = [req EXCEPT ![r].cascade = c, ![r].sid = row.id, ![r].step = s]
  <2> DEFINE k == [req[r] EXCEPT !.cascade = c, !.sid = row.id, !.step = s]
  <2>1. k \in Request /\ k.step = s
    BY <1>1 DEF Request, Shipment
  <2>2. req' = [req EXCEPT ![r] = k]
    BY <1>4 DEF FInv
  <2> HIDE DEF k
  <2> QED
    BY <1>2, <2>1, <2>2
<1> QED
  BY <1>3, <1>4

(* The waybill a cancel reads was issued. *)
LEMMA GetShipmentOK ==
    ASSUME FInv, NEW r \in Requests, GetShipment(r)
    PROVE  FInv'
<1> DEFINE step(row) == IF row.awb = NoAWB THEN "cancel_shipment" ELSE "carrier_cancel"
           k(row) == [req[r] EXCEPT !.awb = row.awb, !.step = step(row)]
<1>1. PICK row \in Row(r) : req' = [req EXCEPT ![r].awb = row.awb, ![r].step = step(row)]
  BY DEF GetShipment
<1>2. row \in Shipment /\ row \in shipments /\ req[r] \in Request
  BY DEF FInv, RowsOK, Row
<1>3. k(row) \in Request /\ k(row).step = step(row) /\ k(row).awb = row.awb
  BY <1>2 DEF Request, Shipment, Steps
<1>4. req' = [req EXCEPT ![r] = k(row)]
  BY <1>1 DEF FInv
<1> HIDE DEF k
<1>5. OnlyMoves(r) /\ req'[r] = k(row)
  BY <1>3, <1>4, SetRecord DEF FInv
<1>6. RecordOK(req'[r], r)
  <2>1. CASE row.awb = NoAWB
    BY <1>3, <1>5, <2>1 DEF RecordOK, Owning, Polling
  <2>2. CASE row.awb # NoAWB
    <3>1. row.awb \in AWBs /\ waybills[row.awb] # "none"
      BY <1>2, <2>2 DEF FInv, RowsOK, Shipment
    <3> QED
      BY <1>3, <1>5, <2>2, <3>1 DEF RecordOK, Owning, Polling
  <2> QED
    BY <2>1, <2>2
<1> QED
  BY <1>5, <1>6, ReadStep DEF GetShipment, tracking

(* The carrier cancels at most the shipment's waybill. *)
LEMMA CarrierCancelsOK ==
    ASSUME FInv, NEW r \in Requests, CarrierCancels(r)
    PROVE  FInv'
<1>1. OnlyMoves(r) /\ RecordOK(req'[r], r)
  BY GotoPlain DEF FInv, CarrierCancels, Plain, Steps, Owning, Polling
<1>2. UNCHANGED <<order, shipments, scans, tracked>>
  BY DEF CarrierCancels, tracking
<1>3. CASE UNCHANGED waybills
  BY <1>1, <1>2, <1>3, ReadStep
<1>4. CASE waybills' = [waybills EXCEPT ![req[r].awb] = "cancelled"]
  <2>1. req[r].awb \in AWBs /\ waybills[req[r].awb] # "none"
    BY DEF FInv, CarrierCancels, At, RecordOK
  <2>2. \E row \in shipments : row.id = req[r].awb
    BY <2>1 DEF FInv, RowsOK
  <2>3. req'[r].step = "cancel_shipment"
    BY GotoRecord DEF FInv, CarrierCancels, Steps
  <2>4. RecordOK(req[r], r)'
    BY <1>1, <1>2, <2>3 DEF RecordOK, Owning, Polling
  <2> QED
    BY <1>1, <1>2, <1>4, <2>1, <2>2, <2>4, CarrierStep
<1> QED
  BY <1>3, <1>4 DEF CarrierCancels

(* cancelShipmentSQL *)
LEMMA CancelShipmentOK ==
    ASSUME FInv, NEW r \in Requests, CancelShipment(r)
    PROVE  FInv'
<1>1. PICK row \in Row(r) : shipments' = SetState(row, "cancelled")
  BY DEF CancelShipment
<1>2. OnlyMoves(r) /\ RecordOK(req'[r], r) /\ req'[r].step \notin Owning
  BY EndRecord, GotoPlain DEF FInv, CancelShipment, Plain, Steps, Owning, Polling
<1>3. row \in shipments /\ "cancelled" \in ShipmentState \ Unbooked
  BY DEF Row, ShipmentState, Unbooked
<1> QED
  BY <1>1, <1>2, <1>3, SetStateStep DEF CancelShipment, tracking

(* Every step of a cancel request keeps the invariant. *)
LEMMA CancelStepOK ==
    ASSUME FInv, NEW r \in Requests, CancelStep(r)
    PROVE  FInv'
<1>1. CASE FindShipment(r)
  <2>1. ASSUME Goto(r, "cancel_order") PROVE FInv'
    BY <1>1, <2>1, GotoPlain, ReadStep DEF FInv, FindShipment, Plain, Steps, Owning, Polling, tracking
  <2>2. ASSUME NEW row \in shipments,
               req' = [req EXCEPT ![r].cascade = TRUE, ![r].sid = row.id,
                                  ![r].step = "get_shipment"]
        PROVE  FInv'
    <3>1. "get_shipment" \in Plain
      BY DEF Plain, Steps, Owning, Polling
    <3> QED
      BY <1>1, <2>2, <3>1, PickShipment DEF FindShipment, tracking
  <2> QED
    BY <1>1, <2>1, <2>2 DEF FindShipment
<1>2. CASE CascadeIgnoresError(r)
  BY <1>2, GotoPlain, ReadStep
     DEF FInv, CascadeIgnoresError, Plain, Steps, Owning, Polling, tracking
<1>3. CASE CancelOrderRow(r)
  <2>1. OnlyMoves(r) /\ RecordOK(req'[r], r) /\ req'[r].step \notin Owning
    BY <1>3, EndRecord DEF FInv, CancelOrderRow, Owning
  <2>2. UNCHANGED <<shipments, waybills, scans, tracked>>
    BY <1>3 DEF CancelOrderRow, tracking
  <2>3. CASE UNCHANGED order
    BY <2>1, <2>2, <2>3, ReadStep
  <2>4. CASE CancelOrder
    <3>1. /\ OrderTyped' /\ OrderShowsItsWaybill'
          /\ order'.state \in Beyond => order.state \in Beyond
      BY <2>2, <2>4, OrderStateOK DEF CancelOrder, TransitionState, OrderState, Beyond
    <3> QED
      BY <2>1, <2>2, <3>1, OrderStep
  <2> QED
    BY <1>3, <2>3, <2>4 DEF CancelOrderRow
<1> QED
  BY <1>1, <1>2, <1>3, GetShipmentOK, CarrierCancelsOK, CancelShipmentOK DEF CancelStep

-----------------------------------------------------------------------------
(* The poll reads the shipment's waybill and state. *)
LEMMA LookupOK ==
    ASSUME FInv, NEW r \in Requests, Lookup(r)
    PROVE  FInv'
<1> DEFINE k(row) == [req[r] EXCEPT !.awb = row.awb, !.state = row.state, !.step = "fetch"]
<1>1. PICK row \in Row(r) :
         IF row.awb = NoAWB
         THEN End(r)
         ELSE req' = [req EXCEPT ![r].awb = row.awb, ![r].state = row.state,
                                 ![r].step = "fetch"]
  BY DEF Lookup
<1>2. UNCHANGED <<order, shipments, waybills, scans, tracked>>
  BY DEF Lookup, tracking
<1>3. CASE row.awb = NoAWB
  BY <1>1, <1>2, <1>3, EndRecord, ReadStep DEF FInv
<1>4. CASE row.awb # NoAWB
  <2>1. row \in shipments /\ row \in Shipment /\ row.awb \in AWBs /\ req[r] \in Request
    BY <1>4 DEF FInv, RowsOK, Row, Shipment
  <2>2. k(row) \in Request /\ k(row).step = "fetch" /\ k(row).awb = row.awb
    BY <2>1 DEF Request, Shipment, Steps
  <2>3. req' = [req EXCEPT ![r] = k(row)]
    BY <1>1, <1>4 DEF FInv
  <2> HIDE DEF k
  <2>4. OnlyMoves(r) /\ req'[r] = k(row)
    BY <2>2, <2>3, SetRecord DEF FInv
  <2>5. RecordOK(req'[r], r)
    BY <1>4, <2>1, <2>2, <2>4 DEF RecordOK, Owning
  <2> QED
    BY <1>2, <2>4, <2>5, ReadStep
<1> QED
  BY <1>3, <1>4

(* Every scan has a canonical status. *)
LEMMA Normalised ==
    ASSUME NEW s \in Scans
    PROVE  /\ s \in Scan /\ normalise(s.code, s.text) \in Canonical
           /\ \A awb \in AWBs : EventOf(awb, s) \in Event
<1>1. s \in Scan /\ s.code \in StatusCode /\ s.text \in StatusText /\ s.second \in Nat
  BY ScansAssumption DEF Scan
<1>2. fromText(s.text) \in Canonical
  BY <1>1 DEF fromText, StatusText, Canonical, Status
<1>3. normalise(s.code, s.text) \in Canonical
  BY <1>1, <1>2 DEF normalise, StatusCode, Canonical, Status
<1> QED
  BY <1>1, <1>3 DEF EventOf, Event

(* An answer of the carrier lists scans of the parcel. *)
LEMMA Answer ==
    ASSUME FInv, NEW awb \in AWBs, NEW list \in FetchTrackingEvents(awb)
    PROVE  list \in Seq(Scans) /\ \A i \in 1..Len(list) : list[i] \in scans[awb]
<1>1. scans[awb] \subseteq Scans
  BY DEF FInv, TrackingTyped
<1>2. CASE list = <<>>
  BY <1>2, EmptySeq
<1>3. CASE list # <<>>
  <2> DEFINE n == Cardinality(scans[awb])
  <2>1. n \in Nat
    BY <1>1, BoundAssumption, FS_Subset, FS_CardinalityType
  <2>2. list \in [1..n -> scans[awb]]
    BY <1>3 DEF FetchTrackingEvents, Bijection, Injection
  <2> HIDE DEF n
  <2> QED
    BY <1>1, <2>1, <2>2, SeqDef
<1> QED
  BY <1>2, <1>3

(* The poll fetches the scans so far. *)
LEMMA FetchOK ==
    ASSUME FInv, NEW r \in Requests, Fetch(r)
    PROVE  FInv'
<1>1. PICK list \in FetchTrackingEvents(req[r].awb) :
         req' = [req EXCEPT ![r].todo = list, ![r].step = "store"]
  BY DEF Fetch
<1> DEFINE k == [req[r] EXCEPT !.todo = list, !.step = "store"]
<1>2. /\ req[r] \in Request /\ req[r].awb \in AWBs
      /\ \E row \in shipments : row.awb # NoAWB
  BY DEF FInv, Fetch, At, RecordOK, Polling
<1>3. list \in Seq(Scans) /\ \A i \in 1..Len(list) : list[i] \in scans[req[r].awb]
  BY <1>2, Answer
<1>4. k \in Request /\ k.step = "store" /\ k.awb = req[r].awb /\ k.todo = list
  BY <1>2, <1>3 DEF Request, Steps
<1>5. req' = [req EXCEPT ![r] = k]
  BY <1>1 DEF FInv
<1> HIDE DEF k
<1>6. OnlyMoves(r) /\ req'[r] = k
  BY <1>4, <1>5, SetRecord DEF FInv
<1>7. RecordOK(req'[r], r)
  BY <1>2, <1>3, <1>4, <1>6 DEF RecordOK, Owning
<1> QED
  BY <1>6, <1>7, ReadStep DEF Fetch, tracking

(* What is stored was scanned, and no dedupe key is stored twice. *)
LEMMA StoreOK ==
    ASSUME FInv, NEW r \in Requests, Store(r)
    PROVE  FInv'
<1> DEFINE awb == req[r].awb
           todo == req[r].todo
           n == Len(todo)
           key(i) == dedupeHash(Fetched(r, i))
<1>1. /\ req[r] \in Request /\ awb \in AWBs /\ todo \in Seq(Scans) /\ RecordOK(req[r], r)
      /\ \A i \in 1..n : todo[i] \in scans[awb]
  BY DEF FInv, Store, At, RecordOK, Request, Polling
<1>2. n \in Nat /\ \A i \in 1..n : todo[i] \in Scans
  BY <1>1, LenProperties, ElementOfSeq
<1>3. UNCHANGED <<order, shipments, waybills, scans>> /\ tracked' = tracked \cup Stored(r)
  BY DEF Store
<1>4. ASSUME NEW i \in 1..n
      PROVE  Fetched(r, i) \in Event /\ Fetched(r, i).awb = awb
             /\ \E s \in scans[awb] : Fetched(r, i) = EventOf(awb, s)
  <2>1. Fetched(r, i) = EventOf(awb, todo[i])
    BY DEF Fetched
  <2>2. EventOf(awb, todo[i]) \in Event /\ EventOf(awb, todo[i]).awb = awb
    BY <1>1, <1>2, Normalised DEF EventOf
  <2> QED
    BY <1>1, <2>1, <2>2
<1>5. \A x \in Stored(r) : \E i \in 1..n :
         /\ x = Fetched(r, i)
         /\ \A event \in tracked : dedupeHash(event) # dedupeHash(x)
         /\ \A j \in 1..(i - 1) : key(j) # dedupeHash(x)
  BY DEF Stored
<1>6. \A a, b \in Stored(r) : dedupeHash(a) = dedupeHash(b) => a = b
  <2> TAKE a, b \in Stored(r)
  <2> HAVE dedupeHash(a) = dedupeHash(b)
  <2>1. PICK i \in 1..n : a = Fetched(r, i) /\ \A j \in 1..(i - 1) : key(j) # dedupeHash(a)
    BY <1>5
  <2>2. PICK j \in 1..n : b = Fetched(r, j) /\ \A m \in 1..(j - 1) : key(m) # dedupeHash(b)
    BY <1>5
  <2>3. key(i) = dedupeHash(a) /\ key(j) = dedupeHash(b)
    BY <2>1, <2>2
  <2> HIDE DEF key, n
  <2>4. ~(i < j) /\ ~(j < i)
    BY <1>2, <2>1, <2>2, <2>3
  <2> QED
    BY <1>2, <2>1, <2>2, <2>4
<1>7. \A a, b \in tracked' : dedupeHash(a) = dedupeHash(b) => a = b
  BY <1>3, <1>5, <1>6 DEF FInv, TrackingTyped
<1>8. \A x \in Stored(r) : x \in Event /\ \E s \in scans[x.awb] : x = EventOf(x.awb, s)
  BY <1>4, <1>5
<1>9. TrackingTyped'
  BY <1>3, <1>7, <1>8 DEF FInv, TrackingTyped
<1>10. OnlyMoves(r) /\ req'[r] = [req[r] EXCEPT !.step = "apply"] /\ req'[r].step = "apply"
  BY GotoRecord DEF FInv, Store, Steps
<1>11. req'[r] \in Request /\ req'[r].awb = awb
  BY <1>1, <1>10 DEF OnlyMoves, Request
<1>12. RecordOK(req'[r], r)
  BY <1>1, <1>10, <1>11 DEF RecordOK, Owning, Polling, Store, At
<1>13. OrderTyped' /\ RowsOK' /\ OrderShowsItsWaybill'
  BY <1>3 DEF FInv, OrderTyped, RowsOK, OrderShowsItsWaybill
<1>14. \A q \in Requests : RecordOK(req[q], q)'
  <2> TAKE q \in Requests
  <2>1. RecordOK(req'[q], q)
    BY <1>10, <1>12 DEF FInv, OnlyMoves
  <2> QED
    BY <1>3, <2>1 DEF RecordOK
<1> QED
  BY <1>9, <1>10, <1>13, <1>14 DEF FInv, OnlyMoves

(* A status asks for a state of the shipment, and never for one before the
   booking.                                                                 *)
LEMMA ProbableState ==
    ASSUME NEW e \in Canonical, NEW current \in ShipmentState
    PROVE  /\ Froms(e) # {} => To(e) \in ShipmentState \ Unbooked
           /\ NextProbableState(current, e) \in ShipmentState
<1>1. e # "none" => To(e) \in ShipmentState \ Unbooked
  BY DEF To, Canonical, Status, ShipmentState, Unbooked
<1>2. e = "none" => Froms(e) = {} /\ ~Asks(current, e)
  BY DEF Asks, Guarded, Froms
<1> QED
  BY <1>1, <1>2 DEF NextProbableState

(* The status of the next scan. *)
LEMMA NextScan ==
    ASSUME FInv, NEW r \in Requests, req[r].todo # <<>>
    PROVE  NextStatus(r) \in Canonical /\ Tail(req[r].todo) \in Seq(Scans)
<1>1. req[r].todo \in Seq(Scans)
  BY DEF FInv, Request
<1>2. Head(req[r].todo) \in Scans /\ Tail(req[r].todo) \in Seq(Scans)
  BY <1>1, HeadTailProperties
<1> QED
  BY <1>2, Normalised DEF NextStatus

(* Going on to the next event. *)
LEMMA NextEvent ==
    ASSUME FInv, NEW r \in Requests, At(r, "apply"), req[r].todo # <<>>,
           NEW s \in {"apply", "fanout"},
           NEW k, k = [req[r] EXCEPT !.todo = Tail(@),
                          !.state = NextProbableState(@, NextStatus(r)), !.step = s]
    PROVE  k \in Request /\ RecordOK(k, r) /\ k.step = s
<1>1. /\ req[r] \in Request /\ req[r].state \in ShipmentState
      /\ req[r].awb \in AWBs /\ \E row \in shipments : row.awb # NoAWB
  BY DEF FInv, Request, RecordOK, Polling, At
<1>2. Tail(req[r].todo) \in Seq(Scans)
  BY NextScan
<1>3. NextProbableState(req[r].state, NextStatus(r)) \in ShipmentState
  BY <1>1, NextScan, ProbableState
<1>4. k \in Request /\ k.step = s /\ k.awb = req[r].awb
  BY <1>1, <1>2, <1>3 DEF Request, Steps
<1> QED
  BY <1>1, <1>4 DEF RecordOK, Owning

(* applyTransition: what it does to the shipment and to the request. *)
LEMMA Applied ==
    ASSUME FInv, NEW r \in Requests, Apply(r)
    PROVE  \E row \in Row(r), s \in {"apply", "fanout"} :
             /\ \/ UNCHANGED shipments
                \/ /\ Asks(req[r].state, NextStatus(r)) /\ row.state \in Froms(NextStatus(r))
                   /\ shipments' = SetState(row, To(NextStatus(r)))
             /\ s = "fanout" => /\ Guarded(NextStatus(r)) /\ Asks(req[r].state, NextStatus(r))
                                /\ row.state \in Froms(NextStatus(r))
                                /\ shipments' = SetState(row, To(NextStatus(r)))
             /\ req' = [req EXCEPT ![r] =
                           [req[r] EXCEPT !.todo = Tail(@),
                               !.state = NextProbableState(@, NextStatus(r)), !.step = s]]
<1> DEFINE e == NextStatus(r)
           current == req[r].state
           s(row) == IF FansOut(row, current, e) THEN "fanout" ELSE "apply"
<1>1. PICK row \in Row(r) :
         /\ shipments' = IF Asks(current, e) /\ Transits(row, current, e)
                         THEN SetState(row, To(e)) ELSE shipments
         /\ req' = [req EXCEPT ![r].todo = Tail(@),
                               ![r].state = NextProbableState(current, e),
                               ![r].step = s(row)]
  BY DEF Apply
<1>2. req' = [req EXCEPT ![r] =
                 [req[r] EXCEPT !.todo = Tail(@),
                     !.state = NextProbableState(@, NextStatus(r)), !.step = s(row)]]
  BY <1>1 DEF FInv
<1>3. Transits(row, current, e) <=> row.state \in Froms(e)
  BY DEF Transits
<1>4. s(row) \in {"apply", "fanout"}
      /\ (s(row) = "fanout" => /\ Guarded(e) /\ Asks(current, e) /\ row.state \in Froms(e)
                               /\ shipments' = SetState(row, To(e)))
  BY <1>1, <1>3 DEF FansOut
<1>5. \/ UNCHANGED shipments
      \/ /\ Asks(current, e) /\ row.state \in Froms(e) /\ shipments' = SetState(row, To(e))
  BY <1>1, <1>3
<1> WITNESS row \in Row(r), s(row) \in {"apply", "fanout"}
<1> QED
  BY <1>2, <1>4, <1>5

LEMMA ApplyOK ==
    ASSUME FInv, NEW r \in Requests, Apply(r)
    PROVE  FInv'
<1> DEFINE e == NextStatus(r)
           k(s) == [req[r] EXCEPT !.todo = Tail(@), !.state = NextProbableState(@, NextStatus(r)),
                                  !.step = s]
<1>1. PICK row \in Row(r), s \in {"apply", "fanout"} :
         /\ \/ UNCHANGED shipments
            \/ row.state \in Froms(e) /\ shipments' = SetState(row, To(e))
         /\ req' = [req EXCEPT ![r] = k(s)]
  BY Applied
<1>2. /\ At(r, "apply") /\ req[r].todo # <<>> /\ row \in shipments
      /\ UNCHANGED <<order, waybills, scans, tracked>>
  BY DEF Apply, Row, tracking
<1>3. k(s) \in Request /\ RecordOK(k(s), r) /\ k(s).step = s
  BY <1>2, NextEvent
<1>4. e \in Canonical /\ req[r].state \in ShipmentState
  BY <1>2, NextScan DEF FInv, Request
<1> HIDE DEF k, e
<1>5. OnlyMoves(r) /\ RecordOK(req'[r], r) /\ req'[r].step \notin Owning
  BY <1>1, <1>3, SetRecord DEF FInv, Owning
<1>6. CASE UNCHANGED shipments
  BY <1>2, <1>5, <1>6, ReadStep
<1>7. CASE row.state \in Froms(e) /\ shipments' = SetState(row, To(e))
  <2>1. To(e) \in ShipmentState \ Unbooked
    BY <1>4, <1>7, ProbableState
  <2> QED
    BY <1>2, <1>5, <1>7, <2>1, SetStateStep
<1> QED
  BY <1>1, <1>6, <1>7

(* After the fan-out the poll goes on. *)
LEMMA BackToApply ==
    ASSUME FInv, NEW r \in Requests, At(r, "fanout"), Goto(r, "apply")
    PROVE  OnlyMoves(r) /\ RecordOK(req'[r], r) /\ req'[r].step \notin Owning
<1>1. OnlyMoves(r) /\ req'[r] = [req[r] EXCEPT !.step = "apply"] /\ req'[r].step = "apply"
  BY GotoRecord DEF FInv, Steps
<1>2. req[r] \in Request /\ RecordOK(req[r], r) /\ req[r].step = "fanout"
  BY DEF FInv, At
<1>3. req'[r] \in Request /\ req'[r].awb = req[r].awb
  BY <1>1, <1>2 DEF OnlyMoves, Request
<1> QED
  BY <1>1, <1>2, <1>3 DEF RecordOK, Owning, Polling

(* Every step of a poll keeps the invariant. *)
LEMMA PollStepOK ==
    ASSUME FInv, NEW r \in Requests, PollStep(r)
    PROVE  FInv'
<1>1. CASE Fanout(r)
  <2>1. OnlyMoves(r) /\ RecordOK(req'[r], r) /\ req'[r].step \notin Owning
    BY <1>1, BackToApply DEF Fanout
  <2> QED
    BY <1>1, <2>1, AttemptOK, OrderStep DEF Fanout, tracking
<1>2. CASE PollIgnoresError(r)
  <2>1. ASSUME At(r, "fanout"), Goto(r, "apply") PROVE FInv'
    BY <1>2, <2>1, BackToApply, ReadStep DEF PollIgnoresError, tracking
  <2>2. ASSUME At(r, "apply"), req[r].todo # <<>>,
               req' = [req EXCEPT ![r].todo = Tail(@),
                                  ![r].state = NextProbableState(@, NextStatus(r))]
        PROVE  FInv'
    <3> DEFINE k == [req[r] EXCEPT !.todo = Tail(@),
                        !.state = NextProbableState(@, NextStatus(r)), !.step = "apply"]
    <3>1. k \in Request /\ RecordOK(k, r)
      BY <2>2, NextEvent
    <3>2. k = [req[r] EXCEPT !.todo = Tail(@),
                             !.state = NextProbableState(@, NextStatus(r))]
      BY <2>2 DEF FInv, At, Request
    <3>3. req' = [req EXCEPT ![r] = k]
      BY <2>2, <3>2 DEF FInv
    <3> HIDE DEF k
    <3>4. OnlyMoves(r) /\ RecordOK(req'[r], r)
      BY <3>1, <3>3, SetRecord DEF FInv
    <3> QED
      BY <1>2, <3>4, ReadStep DEF PollIgnoresError, tracking
  <2> QED
    BY <1>2, <2>1, <2>2 DEF PollIgnoresError
<1>3. CASE PollEnds(r)
  BY <1>3, EndRecord, ReadStep DEF FInv, PollEnds, tracking
<1> QED
  BY <1>1, <1>2, <1>3, LookupOK, FetchOK, StoreOK, ApplyOK DEF PollStep

(* A new scan leaves the others: what was stored or fetched stays a scan. *)
LEMMA CarrierScansOK ==
    ASSUME FInv, NEW w \in AWBs, CarrierScans(w)
    PROVE  FInv'
<1>1. PICK s \in Scans : scans' = [scans EXCEPT ![w] = @ \cup {s}]
  BY DEF CarrierScans
<1>2. UNCHANGED <<order, shipments, waybills, tracked, req>>
  BY DEF CarrierScans
<1>3. scans' \in [AWBs -> SUBSET Scans] /\ \A v \in AWBs : scans[v] \subseteq scans'[v]
  BY <1>1 DEF FInv, TrackingTyped
<1>4. TrackingTyped'
  <2>1. \A event \in tracked : event.awb \in AWBs
    BY DEF FInv, TrackingTyped, Event
  <2> QED
    BY <1>2, <1>3, <2>1 DEF FInv, TrackingTyped
<1>5. OrderTyped' /\ RowsOK' /\ OrderShowsItsWaybill'
  BY <1>2 DEF FInv, OrderTyped, RowsOK, OrderShowsItsWaybill
<1>6. \A q \in Requests : RecordOK(req[q], q)'
  <2> TAKE q \in Requests
  <2>1. RecordOK(req[q], q)
    BY DEF FInv
  <2>2. req[q].step = "store"
          => \A i \in 1..Len(req[q].todo) : req[q].todo[i] \in scans'[req[q].awb]
    BY <1>3, <2>1 DEF RecordOK, Polling
  <2> QED
    BY <1>2, <2>1, <2>2 DEF RecordOK
<1> QED
  BY <1>2, <1>4, <1>5, <1>6 DEF FInv

(* The invariant holds at the start. *)
LEMMA FInvInit == FulfilmentInit => FInv
<1> SUFFICES ASSUME FulfilmentInit PROVE FInv
  OBVIOUS
<1>1. NoRequest \in Request /\ NoRequest.step = "idle"
  BY EmptySeq DEF NoRequest, Request, Steps, ShipmentState
<1>2. req \in [Requests -> Request] /\ \A r \in Requests : RecordOK(req[r], r)
  BY <1>1 DEF FulfilmentInit, RecordOK, Owning, Polling
<1>3. TrackingTyped
  BY DEF FulfilmentInit, TrackingTyped
<1>4. RowsOK
  BY DEF FulfilmentInit, RowsOK
<1>5. OrderTyped /\ OrderShowsItsWaybill
  BY DEF FulfilmentInit, OrderInit, OrderTyped, OrderShowsItsWaybill, OrderState
<1> QED
  BY <1>2, <1>3, <1>4, <1>5 DEF FInv

(* Every step keeps the invariant. *)
LEMMA FInvNext == FInv /\ [FulfilmentNext]_fvars => FInv'
<1> SUFFICES ASSUME FInv, [FulfilmentNext]_fvars PROVE FInv'
  OBVIOUS
<1>1. CASE UNCHANGED fvars
  BY <1>1 DEF fvars, FInv, OrderTyped, RowsOK, TrackingTyped, OrderShowsItsWaybill, RecordOK
<1>2. ASSUME NEW r \in Requests, NEW s \in {"get_order", "find_shipment"}, Goto(r, s),
             UNCHANGED <<order, shipments, waybills, scans, tracked>>
      PROVE  FInv'
  BY <1>2, GotoPlain, ReadStep DEF FInv, Plain, Steps, Owning, Polling
<1>3. ASSUME NEW r \in Requests, StartCancelShipment(r) \/ StartPoll(r)
      PROVE  FInv'
  <2>1. "get_shipment" \in Plain /\ "lookup" \in Plain
    BY DEF Plain, Steps, Owning, Polling
  <2> QED
    BY <1>3, <2>1, PickShipment DEF StartCancelShipment, StartPoll, tracking
<1>4. ASSUME NEW r \in Requests, Abort(r)
      PROVE  FInv'
  BY <1>4, EndRecord, ReadStep DEF FInv, Abort, tracking
<1>5. ASSUME NEW r \in Requests, StartBook(r) \/ StartCancelOrder(r)
      PROVE  FInv'
  BY <1>2, <1>5 DEF StartBook, StartCancelOrder, tracking
<1> QED
  BY <1>1, <1>3, <1>4, <1>5, BookStepOK, CancelStepOK, PollStepOK, CarrierScansOK
     DEF FulfilmentNext

(* FInv is an invariant. *)
LEMMA FulfilmentInvariant == FulfilmentSpec => []FInv
BY FInvInit, FInvNext, PTL DEF FulfilmentSpec

-----------------------------------------------------------------------------
(* Every row, waybill, scan and request keeps its type, a stored tracking
   event tells one of the carrier's scans, and none shares its dedupe key.  *)
THEOREM FulfilmentTypes == FulfilmentSpec => []FulfilmentTypeOK
<1>1. FInv => FulfilmentTypeOK
  BY DEF FInv, OrderTyped, RowsOK, TrackingTyped, FulfilmentTypeOK, Order
<1> QED
  BY <1>1, FulfilmentInvariant, PTL

(* However many Book requests race, retry or die, the carrier issues at most
   one waybill for the order: all rows share one id, and a waybill is issued
   only to the request the row is named after.                              *)
THEOREM SingleWaybill == FulfilmentSpec => []OneWaybillPerOrder
<1>1. FInv => OneWaybillPerOrder
  BY DEF FInv, RowsOK, OneWaybillPerOrder
<1> QED
  BY <1>1, FulfilmentInvariant, PTL

(* An order that shows a waybill shows its shipment's, and from 'booked' on it
   stands on a shipment that the carrier confirmed.                         *)
THEOREM ShownWaybill == FulfilmentSpec => []OrderShowsItsWaybill
<1>1. FInv => OrderShowsItsWaybill
  BY DEF FInv
<1> QED
  BY <1>1, FulfilmentInvariant, PTL

(* A step that a request's step makes of the cancelled shipment. *)
CancelKept == \A row \in shipments : row.state = "cancelled" /\ row.awb # NoAWB
                  => row \in shipments'

(* No step takes a shipment with a waybill out of 'cancelled'. *)
THEOREM CancelledStays == FulfilmentSpec => CancelSticks
<1>1. ASSUME FInv, FulfilmentNext PROVE CancelKept
  <2>1. CASE UNCHANGED shipments
    BY <2>1 DEF CancelKept
  <2>2. ASSUME NEW r \in Requests, PersistPhaseA(r) PROVE CancelKept
    BY <2>2 DEF PersistPhaseA, CancelKept
  <2>3. ASSUME NEW r \in Requests, ConfirmPhaseB(r) \/ MarkFailed(r) PROVE CancelKept
    <3>1. RecordOK(req[r], r) /\ req[r].step \in Owning \ {"mark_booked"}
      BY <1>1, <2>3 DEF FInv, ConfirmPhaseB, MarkFailed, At, Owning
    <3>2. \A row \in shipments : row.awb = NoAWB
      BY <3>1 DEF RecordOK
    <3> QED
      BY <3>2 DEF CancelKept
  <2>4. ASSUME NEW r \in Requests, CancelShipment(r) PROVE CancelKept
    <3>1. PICK row \in Row(r) : shipments' = SetState(row, "cancelled")
      BY <2>4 DEF CancelShipment
    <3>2. row \in Shipment /\ (row.state = "cancelled" => [row EXCEPT !.state = "cancelled"] = row)
      BY <1>1 DEF FInv, RowsOK, Row, Shipment
    <3> QED
      BY <3>1, <3>2 DEF CancelKept, SetState
  <2>5. ASSUME NEW r \in Requests, Apply(r) PROVE CancelKept
    <3> DEFINE e == NextStatus(r)
    <3>1. e \in Canonical
      BY <1>1, <2>5, NextScan DEF Apply
    <3>2. \/ UNCHANGED shipments
          \/ \E row \in Row(r) : /\ row.state \in Froms(e)
                                  /\ shipments' = SetState(row, To(e))
      BY <1>1, <2>5, Applied
    <3> HIDE DEF e
    <3>3. "cancelled" \notin Froms(e)
      BY <3>1 DEF Froms, Canonical, Status
    <3> QED
      BY <3>2, <3>3 DEF CancelKept, SetState
  <2>6. ASSUME NEW w \in AWBs, CarrierScans(w) PROVE CancelKept
    BY <2>1, <2>6 DEF CarrierScans
  <2>7. ASSUME NEW r \in Requests, BookStep(r) PROVE CancelKept
    BY <2>1, <2>2, <2>3, <2>7
       DEF BookStep, GetOrder, BookMarkReady, Allocate, BookMarkAllocating, CarrierBooks,
           CarrierBooksBlank, CarrierRefuses, CarrierAnswerLost, BookMarkBooked
  <2>8. ASSUME NEW r \in Requests, CancelStep(r) PROVE CancelKept
    BY <2>1, <2>4, <2>8
       DEF CancelStep, FindShipment, GetShipment, CarrierCancels, CascadeIgnoresError,
           CancelOrderRow
  <2>9. ASSUME NEW r \in Requests, PollStep(r) PROVE CancelKept
    BY <2>1, <2>5, <2>9
       DEF PollStep, Lookup, Fetch, Store, Fanout, PollIgnoresError, PollEnds
  <2> QED
    BY <1>1, <2>1, <2>6, <2>7, <2>8, <2>9
       DEF FulfilmentNext, StartBook, StartCancelOrder, StartCancelShipment, StartPoll, Abort
<1>2. FInv /\ [FulfilmentNext]_fvars
        => [\A row \in shipments : row.state = "cancelled" /\ row.awb # NoAWB
               => row \in shipments']_fvars
  BY <1>1 DEF CancelKept
<1> QED
  BY <1>2, FulfilmentInvariant, PTL DEF FulfilmentSpec, CancelSticks

-----------------------------------------------------------------------------
(* OrderNeverAhead needs a second invariant on top of FInv: what a poll still
   has to apply, and what it is about to fan out, is in the tracking events. *)

Says(s) == normalise(s.code, s.text)

EventsOK(k) ==
    /\ k.step \in {"apply", "fanout"} => \A i \in 1..Len(k.todo) : Evidence(Says(k.todo[i]))
    /\ k.step = "fanout" => Evidence("moving")
                            /\ (k.state = "delivered" => Evidence("delivered"))

RowsEvident == \A row \in shipments : row.state = "in_transit" => Evidence("moving")

EInv ==
    /\ OrderNeverAhead
    /\ RowsEvident
    /\ \A r \in Requests : EventsOK(req[r])

Silent == Steps \ {"store", "apply", "fanout"}
Advanced == {"in_transit", "delivered"}

(* A step that stores nothing, and brings neither the order nor the shipment
   to a state of the parcel's journey, keeps what is evident.               *)
LEMMA EvidentStep ==
    ASSUME EInv, NEW r \in Requests, OnlyMoves(r), EventsOK(req'[r]),
           UNCHANGED <<scans, tracked>>,
           order'.state \in Advanced => order'.state = order.state,
           \A new \in shipments' : new.state \in Advanced
               => \E old \in shipments : old.state = new.state
    PROVE  EInv'
<1>1. \A e : Evidence(e)' <=> Evidence(e)
  BY DEF Evidence
<1>2. OrderNeverAhead' /\ RowsEvident'
  BY <1>1 DEF EInv, OrderNeverAhead, RowsEvident, Advanced
<1>3. \A q \in Requests : EventsOK(req[q])'
  <2> TAKE q \in Requests
  <2>1. EventsOK(req'[q])
    BY DEF EInv, OnlyMoves
  <2> QED
    BY <1>1, <2>1 DEF EventsOK
<1> QED
  BY <1>2, <1>3 DEF EInv

(* Silent steps promise nothing about events. *)
LEMMA SilentStep ==
    ASSUME NEW k, k.step \in Silent
    PROVE  EventsOK(k)
BY DEF EventsOK, Silent

(* Starting or ending a request reaches none of a poll's later steps. *)
LEMMA StartRecord ==
    ASSUME FInv, FInv', NEW r \in Requests,
           \/ StartBook(r) \/ StartCancelOrder(r) \/ Abort(r)
           \/ StartCancelShipment(r) \/ StartPoll(r)
    PROVE  OnlyMoves(r) /\ req'[r].step \in Silent
<1>1. req \in [Requests -> Request] /\ req' \in [Requests -> Request]
  BY DEF FInv
<1>2. ASSUME NEW s \in Silent, Goto(r, s)
      PROVE  OnlyMoves(r) /\ req'[r].step \in Silent
  BY <1>1, <1>2, GotoRecord DEF Silent, Request
<1>3. ASSUME NEW s \in Silent, NEW row,
             req' = [req EXCEPT ![r].sid = row.id, ![r].step = s]
      PROVE  OnlyMoves(r) /\ req'[r].step \in Silent
  <2>1. OnlyMoves(r)
    BY <1>1, <1>3 DEF OnlyMoves
  <2>2. req'[r].step = s
    BY <1>1, <1>3 DEF Request
  <2> QED
    BY <2>1, <2>2
<1>4. ASSUME End(r)
      PROVE  OnlyMoves(r) /\ req'[r].step \in Silent
  BY <1>1, <1>4 DEF OnlyMoves, End, NoRequest, Silent, Steps
<1>5. {"get_order", "find_shipment", "get_shipment", "lookup"} \subseteq Silent
  BY DEF Silent, Steps
<1> QED
  BY <1>2, <1>3, <1>4, <1>5
     DEF StartBook, StartCancelOrder, Abort, StartCancelShipment, StartPoll

(* Bookings and cancels touch no tracking and never reach a poll's steps. *)
LEMMA BookCancelRecord ==
    ASSUME FInv, FInv', NEW r \in Requests, BookStep(r) \/ CancelStep(r)
    PROVE  OnlyMoves(r) /\ req'[r].step \in Silent /\ UNCHANGED <<scans, tracked>>
<1>1. req \in [Requests -> Request] /\ req' \in [Requests -> Request]
  BY DEF FInv
<1>2. ASSUME NEW s \in Silent, Goto(r, s) PROVE OnlyMoves(r) /\ req'[r].step \in Silent
  BY <1>1, <1>2, GotoRecord DEF Silent, Request
<1>3. ASSUME End(r) PROVE OnlyMoves(r) /\ req'[r].step \in Silent
  BY <1>1, <1>3 DEF OnlyMoves, End, NoRequest, Silent, Steps
<1>4. CASE PersistPhaseA(r)
  <2>1. CASE ~UniqueOrder
    BY <1>3, <1>4, <2>1 DEF PersistPhaseA, tracking
  <2>2. CASE UniqueOrder
    BY <1>1, <1>4, <2>2 DEF PersistPhaseA, OnlyMoves, Silent, Steps, Request, tracking
  <2> QED
    BY <2>1, <2>2
<1>5. CASE CarrierBooks(r) \/ CarrierBooksBlank(r)
  BY <1>1, <1>5
     DEF CarrierBooks, CarrierBooksBlank, OnlyMoves, Silent, Steps, Request, tracking
<1>6. CASE FindShipment(r)
  <2>1. ASSUME NEW row, req' = [req EXCEPT ![r].cascade = TRUE, ![r].sid = row.id,
                                           ![r].step = "get_shipment"]
        PROVE  OnlyMoves(r) /\ req'[r].step \in Silent
    BY <1>1, <2>1 DEF OnlyMoves, Silent, Steps, Request
  <2> QED
    BY <1>2, <1>6, <2>1 DEF FindShipment, Silent, Steps, tracking
<1>7. CASE GetShipment(r)
  BY <1>1, <1>7 DEF GetShipment, OnlyMoves, Silent, Steps, Request, tracking
<1> QED
  BY <1>2, <1>3, <1>4, <1>5, <1>6, <1>7
     DEF BookStep, GetOrder, BookMarkReady, Allocate, BookMarkAllocating, CarrierRefuses,
         CarrierAnswerLost, ConfirmPhaseB, MarkFailed, BookMarkBooked, CancelStep,
         CarrierCancels, CancelShipment, CascadeIgnoresError, CancelOrderRow, tracking,
         Silent, Steps

(* They bring the order no further than 'booked'. *)
LEMMA BookCancelOrder ==
    ASSUME FInv, NEW r \in Requests, BookStep(r) \/ CancelStep(r)
    PROVE  order'.state \in Advanced => order'.state = order.state
<1>1. order \in [state : OrderState, awb : AWBs \cup {NoAWB}]
  BY DEF FInv, OrderTyped
<1>2. ASSUME NEW from, NEW to \in {"ready", "allocating"}, Attempt(from, to)
      PROVE  order'.state \notin Advanced \/ UNCHANGED order
  BY <1>1, <1>2 DEF Attempt, TransitionUnder, TransitionState, Advanced
<1>3. ASSUME CancelOrder \/ MarkBooked(req[r].awb)
      PROVE  order'.state \notin Advanced
  BY <1>1, <1>3 DEF CancelOrder, TransitionState, MarkBooked, Advanced
<1> QED
  BY <1>2, <1>3
     DEF BookStep, GetOrder, BookMarkReady, Allocate, BookMarkAllocating, PersistPhaseA, CarrierBooks,
         CarrierBooksBlank, CarrierRefuses, CarrierAnswerLost, ConfirmPhaseB, MarkFailed, BookMarkBooked,
         CancelStep, FindShipment, GetShipment, CarrierCancels, CancelShipment,
         CascadeIgnoresError, CancelOrderRow

(* The steps of bookings and cancels tell the parcel's story nothing new. *)
LEMMA BookCancelEvident ==
    ASSUME FInv, FInv', EInv, NEW r \in Requests, BookStep(r) \/ CancelStep(r)
    PROVE  EInv'
<1>1. OnlyMoves(r) /\ req'[r].step \in Silent /\ UNCHANGED <<scans, tracked>>
  BY BookCancelRecord
<1>2. order'.state \in Advanced => order'.state = order.state
  BY BookCancelOrder
<1>3. \A new \in shipments' : new.state \in Advanced
          => \E old \in shipments : old.state = new.state
  <2>1. CASE UNCHANGED shipments
    BY <2>1
  <2>2. CASE PersistPhaseA(r)
    BY <2>2 DEF PersistPhaseA, Advanced
  <2>3. CASE ConfirmPhaseB(r)
    <3>1. \A row \in Row(r) : Confirmed(row, req[r].awb).state = "booked"
      BY DEF FInv, RowsOK, Row, Shipment, Confirmed
    <3> QED
      BY <2>3, <3>1 DEF ConfirmPhaseB, Advanced
  <2>4. ASSUME NEW row \in Row(r), NEW st \in ShipmentState \ Advanced,
               shipments' = SetState(row, st)
        PROVE  \A new \in shipments' : new.state \in Advanced => new \in shipments
    <3>1. [row EXCEPT !.state = st].state = st
      BY DEF FInv, RowsOK, Row, Shipment
    <3> QED
      BY <2>4, <3>1 DEF SetState
  <2>5. CASE MarkFailed(r)
    BY <2>4, <2>5 DEF MarkFailed, ShipmentState, Advanced
  <2>6. CASE CancelShipment(r)
    BY <2>4, <2>6 DEF CancelShipment, ShipmentState, Advanced
  <2> QED
    BY <2>1, <2>2, <2>3, <2>5, <2>6
       DEF BookStep, GetOrder, BookMarkReady, Allocate, BookMarkAllocating, CarrierBooks,
           CarrierBooksBlank, CarrierRefuses, CarrierAnswerLost, BookMarkBooked, CancelStep, FindShipment,
           GetShipment, CarrierCancels, CascadeIgnoresError, CancelOrderRow
<1>4. EventsOK(req'[r])
  BY <1>1, SilentStep
<1> QED
  BY <1>1, <1>2, <1>3, <1>4, EvidentStep

(* The event being applied is evident, and so are the ones after it. *)
LEMMA NextEventEvident ==
    ASSUME FInv, NEW r \in Requests, req[r].step = "apply", EventsOK(req[r]),
           req[r].todo # <<>>
    PROVE  /\ NextStatus(r) \in Canonical /\ Evidence(NextStatus(r))
           /\ \A i \in 1..Len(Tail(req[r].todo)) : Evidence(Says(Tail(req[r].todo)[i]))
<1> DEFINE todo == req[r].todo
<1>1. todo \in Seq(Scans) /\ todo # <<>>
  BY DEF FInv, Request
<1>2. \A i \in 1..Len(todo) : Evidence(Says(todo[i]))
  BY DEF EventsOK
<1>3. NextStatus(r) = Says(Head(todo)) /\ NextStatus(r) \in Canonical
  BY NextScan DEF NextStatus, Says
<1> HIDE DEF todo
<1>4. Len(todo) \in Nat /\ Len(todo) > 0 /\ Head(todo) = todo[1]
  BY <1>1, LenProperties, EmptySeq
<1>5. /\ Len(Tail(todo)) = Len(todo) - 1
      /\ \A i \in 1..Len(Tail(todo)) : Tail(todo)[i] = todo[i + 1]
  BY <1>1, HeadTailProperties
<1>6. Evidence(Says(Head(todo)))
  BY <1>2, <1>4
<1>7. \A i \in 1..Len(Tail(todo)) : Evidence(Says(Tail(todo)[i]))
  BY <1>2, <1>4, <1>5
<1> QED
  BY <1>3, <1>6, <1>7 DEF todo

(* applyTransition moves the shipment on a stored event only. *)
LEMMA ApplyEvident ==
    ASSUME FInv, FInv', EInv, NEW r \in Requests, Apply(r)
    PROVE  EInv'
<1> DEFINE e == NextStatus(r)
           current == req[r].state
           k(s) == [req[r] EXCEPT !.todo = Tail(@), !.state = NextProbableState(@, NextStatus(r)),
                                  !.step = s]
<1>1. PICK row \in Row(r), s \in {"apply", "fanout"} :
         /\ \/ UNCHANGED shipments
            \/ Asks(current, e) /\ row.state \in Froms(e) /\ shipments' = SetState(row, To(e))
         /\ s = "fanout" => Guarded(e) /\ Asks(current, e) /\ row.state \in Froms(e)
         /\ req' = [req EXCEPT ![r] = k(s)]
  BY Applied
<1>2. /\ req[r].todo # <<>> /\ row \in shipments /\ row \in Shipment
      /\ req[r] \in Request /\ req[r].step = "apply" /\ EventsOK(req[r]) /\ At(r, "apply")
      /\ UNCHANGED <<order, waybills, scans, tracked>>
  BY DEF Apply, At, Row, tracking, FInv, RowsOK, EInv
<1>3. k(s) \in Request
  BY <1>2, NextEvent
<1>4. k(s).todo = Tail(req[r].todo) /\ k(s).step = s /\ k(s).state = NextProbableState(current, e)
  BY <1>2 DEF Request
<1> HIDE DEF k
<1>5. OnlyMoves(r) /\ req'[r] = k(s)
  BY <1>1, <1>3, SetRecord DEF FInv
<1>6. e \in Canonical /\ Evidence(e)
  BY <1>2, NextEventEvident
<1> HIDE DEF e, current
<1>7. row.state \in Froms(e) /\ e = "delivered" => Evidence("moving")
  BY <1>2 DEF EInv, RowsEvident, Froms
<1>8. s = "fanout" => Evidence("moving") /\ (k(s).state = "delivered" => Evidence("delivered"))
  <2> SUFFICES ASSUME s = "fanout"
               PROVE  Evidence("moving") /\ (k(s).state = "delivered" => Evidence("delivered"))
    OBVIOUS
  <2>1. Guarded(e) /\ Asks(current, e) /\ row.state \in Froms(e) /\ k(s).state = To(e)
    BY <1>1, <1>4 DEF NextProbableState
  <2>2. e \in {"moving", "delivered"}
    BY <1>6, <2>1 DEF Guarded, Canonical, Status, Froms
  <2> QED
    BY <1>6, <1>7, <2>1, <2>2 DEF To
<1>9. EventsOK(req'[r])
  <2>1. \A i \in 1..Len(k(s).todo) : Evidence(Says(k(s).todo[i]))
    BY <1>2, <1>4, NextEventEvident
  <2> QED
    BY <1>4, <1>5, <1>8, <2>1 DEF EventsOK
<1>10. \A x : Evidence(x)' <=> Evidence(x)
  BY <1>2 DEF Evidence
<1>11. \A new \in shipments' :
          /\ new.state = "in_transit" => Evidence("moving")
          /\ new.state = "delivered" => Evidence("delivered")
  <2>1. CASE UNCHANGED shipments
    BY <2>1 DEF EInv, RowsEvident, OrderNeverAhead
  <2>2. CASE row.state \in Froms(e) /\ shipments' = SetState(row, To(e))
    <3>1. [row EXCEPT !.state = To(e)].state = To(e)
      BY <1>2 DEF Shipment
    <3>2. (To(e) = "in_transit" => e = "moving") /\ (To(e) = "delivered" => e = "delivered")
      BY <1>6, <2>2 DEF To, Canonical, Status, Froms
    <3> QED
      BY <1>6, <2>2, <3>1, <3>2 DEF SetState, EInv, RowsEvident, OrderNeverAhead
  <2> QED
    BY <1>1, <2>1, <2>2
<1>12. OrderNeverAhead' /\ RowsEvident'
  BY <1>2, <1>10, <1>11 DEF EInv, OrderNeverAhead, RowsEvident
<1>13. \A q \in Requests : EventsOK(req[q])'
  <2> TAKE q \in Requests
  <2>1. EventsOK(req'[q])
    BY <1>5, <1>9 DEF EInv, OnlyMoves
  <2> QED
    BY <1>2, <1>10, <2>1 DEF EventsOK
<1> QED
  BY <1>12, <1>13 DEF EInv

(* A set of naturals has a least element. *)
LEMMA LeastIndex ==
    ASSUME NEW T, T \subseteq Nat, T # {}
    PROVE  \E x \in T : \A y \in T : x <= y
<1> DEFINE R == OpToRel(<, Nat)
<1>1. \A x, y \in Nat : y < x => <<y, x>> \in R
  BY DEF OpToRel
<1>2. IsWellFoundedOn(R, Nat)
  BY NatLessThanWellFounded
<1> HIDE DEF R
<1>3. PICK x \in T : \A y \in T : ~(<<y, x>> \in R)
  BY <1>2, WFMin
<1>4. \A y \in T : ~(y < x)
  BY <1>1, <1>3
<1>5. \A y \in T : x <= y
  BY <1>4
<1> QED
  BY <1>5

(* After the insert every fetched scan has a row with its dedupe key: the one
   that was there, or that of the first fetched scan with this key.         *)
LEMMA KeyStored ==
    ASSUME NEW r \in Requests, Len(req[r].todo) \in Nat, NEW i \in 1..Len(req[r].todo)
    PROVE  \E event \in tracked \cup Stored(r) : dedupeHash(event) = dedupeHash(Fetched(r, i))
<1> DEFINE n == Len(req[r].todo)
           key(j) == dedupeHash(Fetched(r, j))
           T == {j \in 1..n : key(j) = key(i)}
<1>1. PICK j \in T : \A m \in T : j <= m
  <2>1. T \subseteq Nat /\ i \in T
    OBVIOUS
  <2> HIDE DEF T
  <2> QED
    BY <2>1, LeastIndex
<1>2. j \in 1..n /\ key(j) = key(i)
  OBVIOUS
<1>3. \A m \in 1..(j - 1) : key(m) # key(j)
  <2> SUFFICES ASSUME NEW m \in 1..(j - 1), key(m) = key(j) PROVE FALSE
    OBVIOUS
  <2>1. m \in T /\ m < j
    BY <1>2
  <2> QED
    BY <1>1, <2>1
<1>4. CASE \E event \in tracked : dedupeHash(event) = key(j)
  BY <1>2, <1>4
<1>5. CASE \A event \in tracked : dedupeHash(event) # key(j)
  <2>1. Fetched(r, j) \in Stored(r)
    BY <1>2, <1>3, <1>5 DEF Stored
  <2> QED
    BY <1>2, <2>1
<1> QED
  BY <1>4, <1>5

(* Storing the fetched scans makes them evident. *)
LEMMA StoreEvident ==
    ASSUME FInv, FInv', EInv, NEW r \in Requests, Store(r)
    PROVE  EInv'
<1> DEFINE awb == req[r].awb
           todo == req[r].todo
<1>1. UNCHANGED <<order, shipments, scans>> /\ tracked' = tracked \cup Stored(r)
  BY DEF Store
<1>2. \A e : Evidence(e) => Evidence(e)'
  BY <1>1 DEF Evidence
<1>3. /\ todo \in Seq(Scans) /\ Len(todo) \in Nat
      /\ \A i \in 1..Len(todo) : todo[i] \in scans[awb]
  BY LenProperties DEF FInv, RecordOK, Request, Store, At
<1>4. \A i \in 1..Len(todo) : \E event \in tracked' : \E s \in scans'[event.awb] :
         /\ dedupeHash(EventOf(event.awb, s)) = dedupeHash(event)
         /\ normalise(s.code, s.text) = Says(todo[i])
  <2> TAKE i \in 1..Len(todo)
  <2>1. PICK event \in tracked' : dedupeHash(event) = dedupeHash(Fetched(r, i))
    BY <1>1, <1>3, KeyStored
  <2>2. Fetched(r, i) = EventOf(awb, todo[i]) /\ Fetched(r, i).awb = awb
    BY DEF Fetched, EventOf
  <2>3. event.awb = awb
    BY <2>1, <2>2 DEF dedupeHash
  <2>4. /\ todo[i] \in scans'[event.awb]
        /\ dedupeHash(EventOf(event.awb, todo[i])) = dedupeHash(event)
    BY <1>1, <1>3, <2>1, <2>2, <2>3
  <2> QED
    BY <2>4 DEF Says
<1>5. OnlyMoves(r) /\ req'[r].step = "apply" /\ req'[r].todo = todo
  BY GotoRecord DEF FInv, Store, Steps, Request
<1>6. EventsOK(req[r])'
  BY <1>4, <1>5 DEF EventsOK, Evidence
<1>7. \A q \in Requests : EventsOK(req[q])'
  <2> TAKE q \in Requests
  <2>1. CASE q = r
    BY <1>6, <2>1
  <2>2. CASE q # r
    <3>1. EventsOK(req'[q])
      BY <1>5, <2>2 DEF EInv, OnlyMoves
    <3> QED
      BY <1>2, <3>1 DEF EventsOK
  <2> QED
    BY <2>1, <2>2
<1>8. OrderNeverAhead' /\ RowsEvident'
  BY <1>1, <1>2 DEF EInv, OrderNeverAhead, RowsEvident
<1> QED
  BY <1>7, <1>8 DEF EInv

(* The fan-out brings the order where the tracking events are. *)
LEMMA FanoutEvident ==
    ASSUME FInv, FInv', EInv, NEW r \in Requests, Fanout(r)
    PROVE  EInv'
<1>1. EventsOK(req[r]) /\ req[r] \in Request /\ req[r].step = "fanout"
  BY DEF FInv, EInv, Fanout, At
<1>2. UNCHANGED <<shipments, scans, tracked>>
  BY DEF Fanout, tracking
<1>3. \A e : Evidence(e)' <=> Evidence(e)
  BY <1>2 DEF Evidence
<1>4. /\ OnlyMoves(r) /\ req'[r].step = "apply" /\ req'[r].todo = req[r].todo
      /\ req'[r].state = req[r].state
  BY <1>1, GotoRecord DEF FInv, Fanout, Steps, Request
<1>5. EventsOK(req'[r])
  BY <1>1, <1>4 DEF EventsOK
<1>6. \A q \in Requests : EventsOK(req[q])'
  <2> TAKE q \in Requests
  <2>1. EventsOK(req'[q])
    BY <1>4, <1>5 DEF EInv, OnlyMoves
  <2> QED
    BY <1>2, <1>3, <2>1 DEF EventsOK
<1>7. /\ order'.state \in Advanced => Evidence("moving")
      /\ order'.state = "delivered" => Evidence("delivered")
  <2>1. order \in [state : OrderState, awb : AWBs \cup {NoAWB}]
    BY DEF FInv, OrderTyped
  <2>2. Evidence("moving") /\ (req[r].state = "delivered" => Evidence("delivered"))
    BY <1>1 DEF EventsOK
  <2>3. CASE UNCHANGED order
    BY <2>2, <2>3 DEF EInv, OrderNeverAhead
  <2>4. CASE req[r].state = "delivered"
    BY <2>2, <2>4
  <2>5. CASE req[r].state # "delivered" /\ order' # order
    BY <2>1, <2>2, <2>5 DEF Fanout, Attempt, TransitionUnder, TransitionState
  <2> QED
    BY <2>3, <2>4, <2>5
<1>8. OrderNeverAhead' /\ RowsEvident'
  BY <1>2, <1>3, <1>7 DEF EInv, OrderNeverAhead, RowsEvident, Advanced
<1> QED
  BY <1>6, <1>8 DEF EInv

(* Every step of a poll keeps what is evident. *)
LEMMA PollEvident ==
    ASSUME FInv, FInv', EInv, NEW r \in Requests, PollStep(r)
    PROVE  EInv'
<1>1. req \in [Requests -> Request] /\ req' \in [Requests -> Request]
  BY DEF FInv
<1>2. ASSUME OnlyMoves(r), EventsOK(req'[r]), UNCHANGED <<order, shipments, scans, tracked>>
      PROVE  EInv'
  BY <1>2, EvidentStep
<1>3. ASSUME End(r) PROVE OnlyMoves(r) /\ EventsOK(req'[r])
  BY <1>1, <1>3, SilentStep DEF OnlyMoves, End, NoRequest, Silent, Steps
<1>4. CASE Lookup(r)
  <2>1. ASSUME NEW row, req' = [req EXCEPT ![r].awb = row.awb, ![r].state = row.state,
                                           ![r].step = "fetch"]
        PROVE  OnlyMoves(r) /\ EventsOK(req'[r])
    <3>1. OnlyMoves(r)
      BY <1>1, <2>1 DEF OnlyMoves
    <3>2. req'[r].step = "fetch"
      BY <1>1, <2>1 DEF Request
    <3> QED
      BY <3>1, <3>2, SilentStep DEF Silent, Steps
  <2> QED
    BY <1>2, <1>3, <1>4, <2>1 DEF Lookup, tracking
<1>5. CASE Fetch(r)
  <2>1. OnlyMoves(r)
    BY <1>1, <1>5 DEF Fetch, OnlyMoves
  <2>2. req'[r].step = "store"
    BY <1>1, <1>5 DEF Fetch, Request
  <2>3. EventsOK(req'[r])
    BY <2>2 DEF EventsOK
  <2> QED
    BY <1>2, <1>5, <2>1, <2>3 DEF Fetch, tracking
<1>6. CASE PollIgnoresError(r)
  <2>1. EventsOK(req[r]) /\ req[r] \in Request
    BY <1>1 DEF EInv
  <2>2. CASE At(r, "fanout") /\ Goto(r, "apply")
    <3>1. OnlyMoves(r) /\ req'[r].step = "apply" /\ req'[r].todo = req[r].todo
      BY <1>1, <2>2, GotoRecord DEF Steps, Request
    <3>2. EventsOK(req'[r])
      BY <2>1, <2>2, <3>1 DEF EventsOK, At
    <3> QED
      BY <1>2, <1>6, <3>1, <3>2 DEF PollIgnoresError, tracking
  <2>3. ASSUME At(r, "apply"), req[r].todo # <<>>,
               req' = [req EXCEPT ![r].todo = Tail(@),
                                  ![r].state = NextProbableState(@, NextStatus(r))]
        PROVE  EInv'
    <3>1. OnlyMoves(r)
      BY <1>1, <2>3 DEF OnlyMoves
    <3>2. req'[r].step = "apply" /\ req'[r].todo = Tail(req[r].todo)
      BY <1>1, <2>3 DEF At, Request
    <3>3. \A i \in 1..Len(Tail(req[r].todo)) : Evidence(Says(Tail(req[r].todo)[i]))
      BY <2>1, <2>3, NextEventEvident DEF At
    <3>4. EventsOK(req'[r])
      BY <3>2, <3>3 DEF EventsOK
    <3> QED
      BY <1>2, <1>6, <3>1, <3>4 DEF PollIgnoresError, tracking
  <2> QED
    BY <1>6, <2>2, <2>3 DEF PollIgnoresError
<1>7. CASE PollEnds(r)
  BY <1>2, <1>3, <1>7 DEF PollEnds, tracking
<1> QED
  BY <1>4, <1>5, <1>6, <1>7, StoreEvident, ApplyEvident, FanoutEvident DEF PollStep

(* A new scan takes no evidence away. *)
LEMMA CarrierScansEvident ==
    ASSUME FInv, FInv', EInv, NEW w \in AWBs, CarrierScans(w)
    PROVE  EInv'
<1>1. PICK s \in Scans : scans' = [scans EXCEPT ![w] = @ \cup {s}]
  BY DEF CarrierScans
<1>2. UNCHANGED <<order, shipments, tracked, req>>
  BY DEF CarrierScans
<1>3. \A v \in AWBs : scans[v] \subseteq scans'[v]
  BY <1>1 DEF FInv, TrackingTyped
<1>4. \A event \in tracked : event.awb \in AWBs
  BY DEF FInv, TrackingTyped, Event
<1>5. \A x : Evidence(x) => Evidence(x)'
  BY <1>2, <1>3, <1>4 DEF Evidence
<1>6. \A q \in Requests : EventsOK(req[q])'
  BY <1>2, <1>5 DEF EInv, EventsOK
<1>7. OrderNeverAhead' /\ RowsEvident'
  BY <1>2, <1>5 DEF EInv, OrderNeverAhead, RowsEvident
<1> QED
  BY <1>6, <1>7 DEF EInv

(* The order is in transit or delivered, and the shipment delivered, only on
   the evidence of a scan whose dedupe key PollNow stored.                  *)
THEOREM OrderOnEvidence == FulfilmentSpec => []OrderNeverAhead
<1>1. FulfilmentInit => EInv
  BY DEF FulfilmentInit, OrderInit, NoRequest, EInv, OrderNeverAhead, RowsEvident, EventsOK
<1>2. ASSUME FInv, FInv', EInv, [FulfilmentNext]_fvars PROVE EInv'
  <2>1. CASE UNCHANGED fvars
    BY <1>2, <2>1 DEF fvars, EInv, OrderNeverAhead, RowsEvident, EventsOK, Evidence
  <2>2. ASSUME NEW r \in Requests, \/ StartBook(r) \/ StartCancelOrder(r) \/ Abort(r)
                                   \/ StartCancelShipment(r) \/ StartPoll(r)
        PROVE  EInv'
    <3>1. UNCHANGED <<order, shipments, scans, tracked>>
      BY <2>2 DEF StartBook, StartCancelOrder, Abort, StartCancelShipment, StartPoll, tracking
    <3>2. OnlyMoves(r) /\ req'[r].step \in Silent
      BY <1>2, <2>2, StartRecord
    <3> QED
      BY <1>2, <3>1, <3>2, SilentStep, EvidentStep
  <2> QED
    BY <1>2, <2>1, <2>2, BookCancelEvident, PollEvident, CarrierScansEvident
       DEF FulfilmentNext
<1>3. EInv => OrderNeverAhead
  BY DEF EInv
<1> QED
  BY <1>1, <1>2, <1>3, FulfilmentInvariant, PTL DEF FulfilmentSpec
-----------------------------------------------------------------------------
(* ShipmentLeads needs to know what a poll brings to the order: the fan-out is
   under way only once the shipment has moved, and nothing takes a shipment
   with a waybill back.                                                     *)

LeadsOK(k) ==
    k.step = "fanout" => \A row \in shipments :
        /\ row.state \notin Unbooked \cup {"booked"}
        /\ k.state = "delivered" => row.state \in {"delivered", "cancelled"}

LInv ==
    /\ ShipmentLeads
    /\ \A r \in Requests : LeadsOK(req[r])

(* A step that leaves the order alone and the shipment alone, or cancels it. *)
LEMMA LeadsStep ==
    ASSUME LInv, NEW r \in Requests, OnlyMoves(r), LeadsOK(req'[r]),
           order'.state \in {"in_transit", "delivered"} => order'.state = order.state,
           \A new \in shipments' : new \in shipments \/ new.state = "cancelled"
    PROVE  LInv'
<1>1. ShipmentLeads'
  BY DEF LInv, ShipmentLeads
<1>2. \A q \in Requests : LeadsOK(req[q])'
  <2> TAKE q \in Requests
  <2>1. LeadsOK(req'[q])
    BY DEF LInv, OnlyMoves
  <2> QED
    BY <2>1 DEF LeadsOK, Unbooked
<1> QED
  BY <1>1, <1>2 DEF LInv

(* A step that puts the shipment where no order and no poll stands on it: a
   booking's phases.                                                        *)
LEMMA OwnerStep ==
    ASSUME FInv, FInv', LInv, NEW r \in Requests, OnlyMoves(r), req'[r].step \in Silent,
           UNCHANGED order, order.state \notin Beyond,
           \A row \in shipments : row.awb = NoAWB
    PROVE  LInv'
<1>1. ShipmentLeads'
  BY DEF ShipmentLeads, Beyond
<1>2. \A q \in Requests : LeadsOK(req[q])'
  <2> TAKE q \in Requests
  <2>1. CASE q = r
    BY <2>1 DEF LeadsOK, Silent
  <2>2. CASE q # r
    <3>1. RecordOK(req[q], q) /\ req'[q] = req[q]
      BY <2>2 DEF FInv, OnlyMoves
    <3>2. req'[q].step # "fanout"
      BY <3>1 DEF RecordOK, Polling
    <3> QED
      BY <3>2 DEF LeadsOK
  <2> QED
    BY <2>1, <2>2
<1> QED
  BY <1>1, <1>2 DEF LInv

(* The steps of bookings and cancels. *)
LEMMA BookCancelLeads ==
    ASSUME FInv, FInv', LInv, NEW r \in Requests, BookStep(r) \/ CancelStep(r)
    PROVE  LInv'
<1>1. OnlyMoves(r) /\ req'[r].step \in Silent
  BY BookCancelRecord
<1>2. LeadsOK(req'[r])
  BY <1>1 DEF LeadsOK, Silent
<1>3. order'.state \in {"in_transit", "delivered"} => order'.state = order.state
  BY BookCancelOrder DEF Advanced
<1>4. CASE UNCHANGED shipments
  BY <1>1, <1>2, <1>3, <1>4, LeadsStep
<1>5. CASE PersistPhaseA(r)
  <2>1. CASE shipments = {}
    <3>1. order.state \notin Beyond /\ UNCHANGED order
      BY <1>5, <2>1 DEF FInv, OrderShowsItsWaybill, Beyond, PersistPhaseA
    <3> QED
      BY <1>1, <2>1, <3>1, OwnerStep
  <2> QED
    BY <1>4, <1>5, <2>1 DEF PersistPhaseA, UniqueOrder
<1>6. CASE ConfirmPhaseB(r) \/ MarkFailed(r)
  <2>1. RecordOK(req[r], r) /\ req[r].step \in Owning \ {"mark_booked"}
    BY <1>6 DEF FInv, ConfirmPhaseB, MarkFailed, At, Owning
  <2>2. order.state \notin Beyond /\ \A row \in shipments : row.awb = NoAWB
    BY <2>1 DEF RecordOK
  <2> QED
    BY <1>1, <1>6, <2>2, OwnerStep DEF ConfirmPhaseB, MarkFailed
<1>7. CASE CancelShipment(r)
  <2>1. PICK row \in Row(r) : shipments' = SetState(row, "cancelled")
    BY <1>7 DEF CancelShipment
  <2>2. [row EXCEPT !.state = "cancelled"].state = "cancelled"
    BY DEF FInv, RowsOK, Row, Shipment
  <2>3. \A new \in shipments' : new \in shipments \/ new.state = "cancelled"
    BY <2>1, <2>2 DEF SetState
  <2> QED
    BY <1>1, <1>2, <1>3, <2>3, LeadsStep
<1> QED
  BY <1>4, <1>5, <1>6, <1>7
     DEF BookStep, GetOrder, BookMarkReady, Allocate, BookMarkAllocating, CarrierBooks,
         CarrierBooksBlank, CarrierRefuses, CarrierAnswerLost, BookMarkBooked, CancelStep,
         FindShipment, GetShipment, CarrierCancels, CascadeIgnoresError, CancelOrderRow

(* applyTransition never takes a shipment back to 'booked', nor out of
   'delivered'.                                                             *)
LEMMA ApplyLeads ==
    ASSUME FInv, FInv', LInv, NEW r \in Requests, Apply(r)
    PROVE  LInv'
<1> DEFINE e == NextStatus(r)
           current == req[r].state
           k(s) == [req[r] EXCEPT !.todo = Tail(@), !.state = NextProbableState(@, NextStatus(r)),
                                  !.step = s]
<1>1. PICK row \in Row(r), s \in {"apply", "fanout"} :
         /\ \/ UNCHANGED shipments
            \/ row.state \in Froms(e) /\ shipments' = SetState(row, To(e))
         /\ s = "fanout" => /\ Guarded(e) /\ Asks(current, e)
                            /\ row.state \in Froms(e) /\ shipments' = SetState(row, To(e))
         /\ req' = [req EXCEPT ![r] = k(s)]
  BY Applied
<1>2. /\ req[r].todo # <<>> /\ shipments = {row} /\ row \in Shipment
      /\ req[r] \in Request /\ At(r, "apply") /\ UNCHANGED order
  BY DEF Apply, Row, FInv, RowsOK
<1>3. k(s) \in Request
  BY <1>2, NextEvent
<1>4. k(s).step = s /\ k(s).state = NextProbableState(current, e)
  BY <1>2 DEF Request
<1>5. e \in Canonical
  BY <1>2, NextScan
<1> HIDE DEF k, e, current
<1>6. OnlyMoves(r) /\ req'[r] = k(s)
  BY <1>1, <1>3, SetRecord DEF FInv
<1>7. CASE UNCHANGED shipments /\ s = "apply"
  BY <1>2, <1>4, <1>6, <1>7, LeadsStep DEF LeadsOK
<1>8. CASE row.state \in Froms(e) /\ shipments' = SetState(row, To(e))
  <2> DEFINE new == [row EXCEPT !.state = To(e)]
  <2>1. new.state = To(e) /\ shipments' = {new}
    BY <1>2, <1>8 DEF Shipment, SetState
  <2> HIDE DEF new
  <2>2. new.state \notin Unbooked \cup {"booked"} /\ row.state \notin {"delivered", "cancelled"}
    BY <1>5, <1>8, <2>1 DEF Canonical, Status, To, Froms, Unbooked
  <2>3. ShipmentLeads'
    BY <1>2, <2>1, <2>2 DEF LInv, ShipmentLeads, Unbooked
  <2>4. s = "fanout" /\ k(s).state = "delivered" => new.state = "delivered"
    BY <1>1, <1>4, <2>1 DEF NextProbableState
  <2>5. LeadsOK(req[r])'
    BY <1>4, <1>6, <2>1, <2>2, <2>4 DEF LeadsOK
  <2>6. \A q \in Requests : LeadsOK(req[q])'
    <3> TAKE q \in Requests
    <3>1. CASE q = r
      BY <2>5, <3>1
    <3>2. CASE q # r
      <4>1. LeadsOK(req[q]) /\ req'[q] = req[q]
        BY <1>6, <3>2 DEF LInv, OnlyMoves
      <4> QED
        BY <1>2, <2>1, <2>2, <4>1 DEF LeadsOK
    <3> QED
      BY <3>1, <3>2
  <2> QED
    BY <2>3, <2>6 DEF LInv
<1> QED
  BY <1>1, <1>7, <1>8

(* The fan-out brings the order where the shipment already is. *)
LEMMA FanoutLeads ==
    ASSUME FInv, FInv', LInv, NEW r \in Requests, Fanout(r)
    PROVE  LInv'
<1>1. LeadsOK(req[r]) /\ req[r].step = "fanout" /\ UNCHANGED shipments
  BY DEF LInv, Fanout, At
<1>2. OnlyMoves(r) /\ req'[r].step = "apply"
  BY GotoRecord DEF FInv, Fanout, Steps
<1>3. order \in [state : OrderState, awb : AWBs \cup {NoAWB}]
  BY DEF FInv, OrderTyped
<1>4. \/ UNCHANGED order
      \/ order'.state = "delivered" /\ req[r].state = "delivered"
      \/ order'.state = "in_transit"
  BY <1>3 DEF Fanout, Attempt, TransitionUnder, TransitionState
<1>5. ShipmentLeads'
  BY <1>1, <1>4 DEF LInv, ShipmentLeads, LeadsOK, Unbooked
<1>6. \A q \in Requests : LeadsOK(req[q])'
  BY <1>1, <1>2 DEF LInv, LeadsOK, OnlyMoves
<1> QED
  BY <1>5, <1>6 DEF LInv

(* Shipment first, order second: however polls, bookings and cancels
   interleave, the order never shows a journey its shipment is not on.      *)
THEOREM OrderBehind == FulfilmentSpec => []ShipmentLeads
<1>1. FulfilmentInit => LInv
  BY DEF FulfilmentInit, NoRequest, LInv, ShipmentLeads, LeadsOK
<1>2. ASSUME FInv, FInv', LInv, [FulfilmentNext]_fvars PROVE LInv'
  <2>1. CASE UNCHANGED fvars
    BY <1>2, <2>1 DEF fvars, LInv, ShipmentLeads, LeadsOK
  <2>2. ASSUME NEW w \in AWBs, CarrierScans(w) PROVE LInv'
    BY <1>2, <2>2 DEF CarrierScans, LInv, ShipmentLeads, LeadsOK
  <2>3. ASSUME NEW r \in Requests, UNCHANGED <<order, shipments>>, OnlyMoves(r),
               req'[r].step # "fanout"
        PROVE  LInv'
    BY <1>2, <2>3, LeadsStep DEF LeadsOK
  <2>4. ASSUME NEW r \in Requests, \/ StartBook(r) \/ StartCancelOrder(r) \/ Abort(r)
                                   \/ StartCancelShipment(r) \/ StartPoll(r)
        PROVE  LInv'
    <3>1. UNCHANGED <<order, shipments>>
      BY <2>4 DEF StartBook, StartCancelOrder, Abort, StartCancelShipment, StartPoll
    <3>2. OnlyMoves(r) /\ req'[r].step \in Silent
      BY <1>2, <2>4, StartRecord
    <3> QED
      BY <2>3, <3>1, <3>2 DEF Silent
  <2>5. ASSUME NEW r \in Requests,
               Lookup(r) \/ Fetch(r) \/ Store(r) \/ PollIgnoresError(r) \/ PollEnds(r)
        PROVE  LInv'
    <3>1. UNCHANGED <<order, shipments>>
      BY <2>5 DEF Lookup, Fetch, Store, PollIgnoresError, PollEnds
    <3>2. OnlyMoves(r) /\ req'[r].step # "fanout"
      <4>1. req \in [Requests -> Request] /\ req' \in [Requests -> Request]
        BY <1>2 DEF FInv
      <4>2. ASSUME End(r) PROVE OnlyMoves(r) /\ req'[r].step # "fanout"
        BY <4>1, <4>2, EndRecord
      <4>3. CASE Lookup(r)
        BY <4>1, <4>2, <4>3 DEF Lookup, OnlyMoves, Request
      <4>4. CASE Fetch(r)
        BY <4>1, <4>4 DEF Fetch, OnlyMoves, Request
      <4>5. CASE Store(r)
        BY <4>1, <4>5, GotoRecord DEF Store, Steps
      <4>6. CASE PollIgnoresError(r)
        BY <4>1, <4>6 DEF PollIgnoresError, Goto, At, OnlyMoves, Request
      <4>7. CASE PollEnds(r)
        BY <4>2, <4>7 DEF PollEnds
      <4> QED
        BY <2>5, <4>3, <4>4, <4>5, <4>6, <4>7
    <3> QED
      BY <2>3, <3>1, <3>2
  <2>6. ASSUME NEW r \in Requests, PollStep(r) PROVE LInv'
    BY <1>2, <2>5, <2>6, ApplyLeads, FanoutLeads DEF PollStep
  <2> QED
    BY <1>2, <2>1, <2>2, <2>4, <2>6, BookCancelLeads DEF FulfilmentNext
<1>3. LInv => ShipmentLeads
  BY DEF LInv
<1> QED
  BY <1>1, <1>2, <1>3, FulfilmentInvariant, PTL DEF FulfilmentSpec
=============================================================================
