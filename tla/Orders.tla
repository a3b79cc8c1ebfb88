------------------------------- MODULE Orders -------------------------------
(***************************************************************************)
(* The life of one order (backend/internal/orders).  Every Mark... method  *)
(* locks the order's row, checks its state and writes the new one in one   *)
(* transaction, so each is one action; a refusal (ErrInvalidArgument)      *)
(* changes nothing.  Orders never read one another's rows: one order       *)
(* stands for all.                                                         *)
(***************************************************************************)
CONSTANTS
    AWBs,    \* waybill numbers
    NoAWB    \* awb_number IS NULL

ASSUME NoAWBAssumption == NoAWB \notin AWBs

VARIABLE order   \* the order_record row: its state and awb_number

OrderState == {"draft", "ready", "allocating", "booked", "in_transit", "delivered",
               "closed", "cancelled", "rto"}

allowedTransitions ==
    [draft      |-> {"ready", "cancelled"},
     ready      |-> {"allocating", "cancelled", "draft"},
     allocating |-> {"booked", "ready", "cancelled"},
     booked     |-> {"in_transit", "cancelled", "rto"},
     in_transit |-> {"delivered", "rto"},
     delivered  |-> {"closed", "rto"},
     closed     |-> {},
     cancelled  |-> {},
     rto        |-> {"closed"}]

(* What the code acts on of an order's row. *)
Order == [state : OrderState, awb : AWBs \cup {NoAWB}]

CanTransition(from, to) == to \in allowedTransitions[from]

(* insertOrder leaves a draft. *)
OrderInit == order = [state |-> "draft", awb |-> NoAWB]

(* transitionState, under the row lock. *)
TransitionState(to) ==
    /\ CanTransition(order.state, to)
    /\ order' = [order EXCEPT !.state = to]

(* transitionUnder *)
TransitionUnder(from, to) == order.state = from /\ TransitionState(to)

MarkReady == TransitionUnder("draft", "ready")
MarkAllocating == TransitionUnder("ready", "allocating")
MarkInTransit == TransitionUnder("booked", "in_transit")
MarkDelivered == TransitionUnder("in_transit", "delivered")
MarkRTO == TransitionState("rto")
Close == TransitionState("closed")
CancelOrder == TransitionState("cancelled")

(* The states MarkBooked lets through to transitionState; 'ready' is then
   refused by allowedTransitions.                                           *)
Bookable == order.state \in {"allocating", "ready"} /\ CanTransition(order.state, "booked")

(* transitionState, then bookOrderRow with the waybill. *)
MarkBooked(awb) ==
    /\ Bookable
    /\ order' = [state |-> "booked", awb |-> awb]

OrderNext ==
    \/ MarkReady
    \/ MarkAllocating
    \/ \E awb \in AWBs : MarkBooked(awb)
    \/ MarkInTransit
    \/ MarkDelivered
    \/ MarkRTO
    \/ Close
    \/ CancelOrder

OrderSpec == OrderInit /\ [][OrderNext]_order
=============================================================================
