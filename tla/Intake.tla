------------------------------- MODULE Intake -------------------------------
(***************************************************************************)
(* How an order gets in: POST /orders of one seller through the            *)
(* idempotency middleware (backend/internal/idempotency), the daily cap    *)
(* (backend/internal/limits) and orders.Create, on a server's pool of      *)
(* database connections.                                                   *)
(*                                                                         *)
(* The middleware opens a seller transaction and then asks the pool, not   *)
(* that transaction, for the stored response: it holds a connection while  *)
(* it waits for a second one.  On the second one no seller is set, so      *)
(* row-level security hides every row of idempotency_key and refuses every *)
(* insert: a look-up never finds anything, and the goroutine that stores a *)
(* response changes nothing.                                               *)
(***************************************************************************)
EXTENDS Naturals, FiniteSets

CONSTANTS
    Requests,   \* requests in flight at a time
    PoolSizes,  \* values of DB_APP_MAX_CONNS
    Refs,       \* (channel, channel_order_id) of orders
    Prepaid,    \* those whose payment_method is prepaid; the others are COD
    Caps        \* values of limits.orders_per_day; 0 is no limit

ASSUME IntakeAssumption ==
    /\ Requests # {} /\ IsFiniteSet(Requests)
    /\ PoolSizes \subseteq Nat \ {0}
    /\ Prepaid \subseteq Refs
    /\ Caps \subseteq Nat

VARIABLES
    maxConns,   \* connections of the app pool
    cap,        \* the limit the policy engine resolves
    req,        \* requests in flight
    free,       \* connections that nobody holds
    orders,     \* order_record rows
    paid,       \* those with payment_status 'paid'
    today       \* those with created_at of today

intakeVars == <<maxConns, cap, req, free, orders, paid, today>>

Idle == [step |-> "idle"]
Request == [step : {"begin", "get", "check", "create"}, ref : Refs]

IntakeInit ==
    /\ maxConns \in PoolSizes
    /\ cap \in Caps
    /\ req = [r \in Requests |-> Idle]
    /\ free = maxConns
    /\ orders = {}
    /\ paid = {}
    /\ today = {}

Goto(r, step) == req' = [req EXCEPT ![r].step = step]
Leave(r) == req' = [req EXCEPT ![r] = Idle]

-----------------------------------------------------------------------------
(* A client sends or resends, with an Idempotency-Key or without. *)
Send(r, keyed, ref) ==
    /\ req[r] = Idle
    /\ req' = [req EXCEPT ![r] = [step |-> IF keyed THEN "begin" ELSE "check", ref |-> ref]]
    /\ UNCHANGED <<maxConns, cap, free, orders, paid, today>>

(* WithSellerTx takes a connection ... *)
BeginTx(r) ==
    /\ req[r].step = "begin"
    /\ free > 0
    /\ free' = free - 1
    /\ Goto(r, "get")
    /\ UNCHANGED <<maxConns, cap, orders, paid, today>>

(* ... or gives up; its error is dropped, and the handler runs. *)
BeginFails(r) ==
    /\ req[r].step = "begin"
    /\ Goto(r, "check")
    /\ UNCHANGED <<maxConns, cap, free, orders, paid, today>>

(* The query takes a second connection for as long as it runs and finds
   nothing; then the transaction ends.                                     *)
GetStored(r) ==
    /\ req[r].step = "get"
    /\ free > 0
    /\ free' = free + 1
    /\ Goto(r, "check")
    /\ UNCHANGED <<maxConns, cap, orders, paid, today>>

(* The connection is lost to the pool: the transaction is not rolled back. *)
DeadlinePassesBug(r) ==
    /\ req[r].step = "get"
    /\ free = 0
    /\ Leave(r)
    /\ UNCHANGED <<maxConns, cap, free, orders, paid, today>>

(* No second connection before the request's deadline: an error response,
   and the deferred rollback gives the first one back.                     *)
DeadlinePasses(r) ==
    /\ req[r].step = "get"
    /\ free = 0
    /\ free' = free + 1
    /\ Leave(r)
    /\ UNCHANGED <<maxConns, cap, orders, paid, today>>

(* Lets one order too many through. *)
WithinCapBug(limit, count) == limit = 0 \/ count <= limit

WithinCap(limit, count) == limit = 0 \/ count < limit

orderLimit == cap
ordersToday == Cardinality(today)

(* CheckOrderDay, on other pools: a count that nothing keeps true until the
   insert.                                                                 *)
CheckOrderDay(r) ==
    /\ req[r].step = "check"
    /\ IF WithinCap(orderLimit, ordersToday) THEN Goto(r, "create") ELSE Leave(r)
    /\ UNCHANGED <<maxConns, cap, free, orders, paid, today>>

(* The order, unless order_channel_unique has its ref (an error response). *)
CreateOrder(r) ==
    LET ref == req[r].ref
    IN  /\ req[r].step = "create"
        /\ free > 0
        /\ orders' = orders \cup {ref}
        /\ today' = IF ref \in orders THEN today ELSE today \cup {ref}
        /\ Leave(r)
        /\ UNCHANGED <<maxConns, cap, free, paid>>

(* The seller confirms that a prepaid order's payment has reflected, in
   whatever state the order is.  The first confirmation's reference stays;
   nothing writes 'refunded'.                                              *)
MarkPaid(ref) ==
    /\ ref \in orders \cap Prepaid
    /\ free > 0
    /\ paid' = paid \cup {ref}
    /\ UNCHANGED <<maxConns, cap, req, free, orders, today>>

MarkPaidHandler(ref) == MarkPaid(ref)

(* Any step of a request fails, or its client is gone: what it has done
   stays done, and the connection it holds goes back.                      *)
RequestFails(r) ==
    /\ req[r] # Idle
    /\ free' = IF req[r].step = "get" THEN free + 1 ELSE free
    /\ Leave(r)
    /\ UNCHANGED <<maxConns, cap, orders, paid, today>>

Crash ==
    /\ req' = [r \in Requests |-> Idle]
    /\ free' = maxConns
    /\ UNCHANGED <<maxConns, cap, orders, paid, today>>

Midnight ==
    /\ today' = {}
    /\ UNCHANGED <<maxConns, cap, req, free, orders, paid>>

-----------------------------------------------------------------------------
IntakeNext ==
    \/ \E r \in Requests :
          \/ \E keyed \in BOOLEAN : \E ref \in Refs : Send(r, keyed, ref)
          \/ BeginTx(r) \/ BeginFails(r) \/ GetStored(r) \/ DeadlinePasses(r)
          \/ CheckOrderDay(r) \/ CreateOrder(r) \/ RequestFails(r)
    \/ \E ref \in Refs : MarkPaidHandler(ref)
    \/ Crash
    \/ Midnight

(* The pool serves its waiters in turn, and a request's context has a
   deadline.                                                               *)
IntakeFairness ==
    \A r \in Requests :
        /\ SF_intakeVars(BeginTx(r)) /\ SF_intakeVars(GetStored(r)) /\ SF_intakeVars(CreateOrder(r))
        /\ WF_intakeVars(CheckOrderDay(r)) /\ WF_intakeVars(DeadlinePasses(r))

IntakeSpec == IntakeInit /\ [][IntakeNext]_intakeVars /\ IntakeFairness

-----------------------------------------------------------------------------
(* Types; and what look-ups do not hold of the pool is free. *)
IntakeTypeOK ==
    /\ maxConns \in PoolSizes /\ cap \in Caps
    /\ req \in [Requests -> {Idle} \cup Request]
    /\ free = maxConns - Cardinality({r \in Requests : req[r].step = "get"})
    /\ orders \subseteq Refs /\ today \subseteq orders /\ paid \subseteq orders \cap Prepaid

(* The check and the insert are apart, so concurrent requests pass the cap,
   but by no more than the other requests in flight.                       *)
CapOvershootBounded ==
    cap > 0 => Cardinality(today) <= cap + Cardinality(Requests) - 1

(* Look-ups that hold every connection and each wait for another one do not
   keep the server's other requests waiting for ever: each gets its answer. *)
EveryRequestAnswered ==
    \A r \in Requests : req[r] # Idle ~> req[r] = Idle
=============================================================================
