----------------------------- MODULE EdgeProofs -----------------------------
(***************************************************************************)
(* Proofs about the edges of the server: Intake, where orders come in, for *)
(* any number of concurrent requests, orders and connections and any cap;  *)
(* Carriers, where calls go out, for any number of callers, any threshold  *)
(* and any number of probes; and Sessions, where every request is          *)
(* authenticated, for any number of servers, tokens and users, any cache   *)
(* capacity and any time to live.                                          *)
(***************************************************************************)
EXTENDS Intake, Carriers, Sessions, FiniteSetTheorems, SequenceTheorems, TLAPS

-----------------------------------------------------------------------------
(* Requests come in: Intake. *)

(* Requests that the daily cap has let through, and those that hold a
   connection while they look their key up.                                 *)
Passed == {r \in Requests : req[r].step = "create"}
Holders == {r \in Requests : req[r].step = "get"}

(* The orders of today and those about to come. *)
CapInv == cap > 0 => Cardinality(today) + Cardinality(Passed) <= cap + Cardinality(Requests) - 1

IntakeInv == IntakeTypeOK /\ IsFiniteSet(today) /\ CapInv

-----------------------------------------------------------------------------
LEMMA RequestsCount ==
    /\ IsFiniteSet(Passed) /\ Cardinality(Passed) \in Nat
    /\ IsFiniteSet(Holders) /\ Cardinality(Holders) \in Nat
    /\ Cardinality(Requests) \in Nat
    /\ Cardinality(Passed) <= Cardinality(Requests)
BY IntakeAssumption, FS_Subset, FS_CardinalityType DEF Passed, Holders

(* The cap, when nobody newly passes and no order is added. *)
LEMMA CapKept ==
    ASSUME IntakeInv, cap' = cap, Passed' \subseteq Passed, today' \subseteq today
    PROVE  CapInv' /\ IsFiniteSet(today')
<1>1. IsFiniteSet(today') /\ Cardinality(today') <= Cardinality(today)
  BY FS_Subset DEF IntakeInv
<1>2. Cardinality(Passed') <= Cardinality(Passed) /\ IsFiniteSet(Passed')
  BY RequestsCount, FS_Subset
<1>3. Cardinality(today) \in Nat /\ Cardinality(today') \in Nat /\ Cardinality(Passed') \in Nat
  BY <1>1, <1>2, FS_CardinalityType DEF IntakeInv
<1>4. cap \in Nat
  BY IntakeAssumption DEF IntakeInv, IntakeTypeOK
<1> QED
  BY <1>1, <1>2, <1>3, <1>4, RequestsCount DEF CapInv, IntakeInv

(* A request gets record c; the pool gets back what it held and hands out
   what it needs now.                                                       *)
LEMMA Moved ==
    ASSUME IntakeInv, NEW r \in Requests, NEW c \in {Idle} \cup Request,
           req' = [req EXCEPT ![r] = c], maxConns' = maxConns,
           free' = free + (IF req[r].step = "get" THEN 1 ELSE 0) - (IF c.step = "get" THEN 1 ELSE 0)
    PROVE  /\ req' \in [Requests -> {Idle} \cup Request]
           /\ free' = maxConns' - Cardinality(Holders')
           /\ Passed' = IF c.step = "create" THEN Passed \cup {r} ELSE Passed \ {r}
<1>1. /\ req' \in [Requests -> {Idle} \cup Request]
      /\ \A q \in Requests : req'[q] = IF q = r THEN c ELSE req[q]
  BY DEF IntakeInv, IntakeTypeOK
<1>2. Passed' = IF c.step = "create" THEN Passed \cup {r} ELSE Passed \ {r}
  BY <1>1 DEF Passed
<1>3. Holders' = IF c.step = "get" THEN Holders \cup {r} ELSE Holders \ {r}
  BY <1>1 DEF Holders
<1>4. r \in Holders <=> req[r].step = "get"
  BY DEF Holders
<1>5. /\ Cardinality(Holders \cup {r}) = IF r \in Holders THEN Cardinality(Holders)
                                                       ELSE Cardinality(Holders) + 1
      /\ Cardinality(Holders \ {r}) = IF r \in Holders THEN Cardinality(Holders) - 1
                                                     ELSE Cardinality(Holders)
  BY RequestsCount, FS_AddElement, FS_RemoveElement
<1>6. free = maxConns - Cardinality(Holders) /\ maxConns \in Nat
  BY IntakeAssumption DEF IntakeInv, IntakeTypeOK, Holders
<1>7. free' = maxConns' - Cardinality(Holders')
  <2>1. CASE c.step = "get"
    BY <1>3, <1>4, <1>5, <1>6, <2>1, RequestsCount
  <2>2. CASE c.step # "get"
    BY <1>3, <1>4, <1>5, <1>6, <2>2, RequestsCount
  <2> QED
    BY <2>1, <2>2
<1> QED
  BY <1>1, <1>2, <1>7

(* ... without passing the cap. *)
LEMMA StepKeeps ==
    ASSUME IntakeInv, NEW r \in Requests, NEW c \in {Idle} \cup Request,
           req' = [req EXCEPT ![r] = c], c.step # "create",
           free' = free + (IF req[r].step = "get" THEN 1 ELSE 0) - (IF c.step = "get" THEN 1 ELSE 0),
           UNCHANGED <<maxConns, cap, orders, paid, today>>
    PROVE  IntakeInv'
<1>1. /\ req' \in [Requests -> {Idle} \cup Request]
      /\ free' = maxConns' - Cardinality(Holders')
      /\ Passed' = Passed \ {r}
  BY Moved
<1>2. CapInv' /\ IsFiniteSet(today')
  BY <1>1, CapKept
<1> QED
  BY <1>1, <1>2 DEF IntakeInv, IntakeTypeOK, Holders

LEMMA LeavingKeeps ==
    ASSUME IntakeInv, NEW r \in Requests, Leave(r),
           free' = IF req[r].step = "get" THEN free + 1 ELSE free,
           UNCHANGED <<maxConns, cap, orders, paid, today>>
    PROVE  IntakeInv'
<1>1. PICK c : c = Idle
  OBVIOUS
<1>2. c \in {Idle} \cup Request /\ c.step = "idle" /\ req' = [req EXCEPT ![r] = c]
  BY <1>1 DEF Idle, Leave
<1>3. free \in Int
  BY IntakeAssumption, RequestsCount DEF IntakeInv, IntakeTypeOK, Holders
<1>4. free' = free + (IF req[r].step = "get" THEN 1 ELSE 0) - (IF c.step = "get" THEN 1 ELSE 0)
  BY <1>2, <1>3
<1> QED
  BY <1>2, <1>4, StepKeeps

(* A look-up's steps; and the handler's check, when the cap stops it. *)
LEMMA LookupKeeps ==
    ASSUME IntakeInv, NEW r \in Requests, BeginTx(r) \/ BeginFails(r) \/ GetStored(r)
    PROVE  IntakeInv'
<1>1. req[r].step \in {"begin", "get"}
  BY DEF BeginTx, BeginFails, GetStored
<1>2. req[r] \in Request
  BY <1>1 DEF IntakeInv, IntakeTypeOK, Idle
<1>3. PICK c : c = [req[r] EXCEPT !.step = IF BeginTx(r) THEN "get" ELSE "check"]
  OBVIOUS
<1>4. c \in Request /\ c.step = IF BeginTx(r) THEN "get" ELSE "check"
  BY <1>2, <1>3 DEF Request
<1>5. req' = [req EXCEPT ![r] = c]
  BY <1>1, <1>3 DEF BeginTx, BeginFails, GetStored, Goto
<1>6. free \in Int
  BY IntakeAssumption, RequestsCount DEF IntakeInv, IntakeTypeOK, Holders
<1>7. free' = free + (IF req[r].step = "get" THEN 1 ELSE 0) - (IF c.step = "get" THEN 1 ELSE 0)
  BY <1>4, <1>6 DEF BeginTx, BeginFails, GetStored
<1> QED
  BY <1>4, <1>5, <1>7, StepKeeps DEF BeginTx, BeginFails, GetStored

LEMMA SendKeeps ==
    ASSUME IntakeInv, NEW r \in Requests, NEW keyed \in BOOLEAN, NEW ref \in Refs,
           Send(r, keyed, ref)
    PROVE  IntakeInv'
<1>1. PICK c : c = [step |-> IF keyed THEN "begin" ELSE "check", ref |-> ref]
  OBVIOUS
<1>2. c \in Request /\ c.step \in {"begin", "check"}
  BY <1>1 DEF Request
<1>3. req' = [req EXCEPT ![r] = c] /\ req[r].step = "idle" /\ free' = free
  BY <1>1 DEF Send, Idle
<1>4. free \in Int
  BY IntakeAssumption, RequestsCount DEF IntakeInv, IntakeTypeOK, Holders
<1>5. free' = free + (IF req[r].step = "get" THEN 1 ELSE 0) - (IF c.step = "get" THEN 1 ELSE 0)
  BY <1>2, <1>3, <1>4
<1>6. UNCHANGED <<maxConns, cap, orders, paid, today>> /\ c.step # "create"
  BY <1>2 DEF Send
<1> QED
  BY <1>2, <1>3, <1>5, <1>6, StepKeeps

LEMMA CheckKeeps ==
    ASSUME IntakeInv, NEW r \in Requests, CheckOrderDay(r)
    PROVE  IntakeInv'
<1>1. CASE ~WithinCap(orderLimit, ordersToday)
  BY <1>1, LeavingKeeps DEF CheckOrderDay
<1>2. CASE WithinCap(orderLimit, ordersToday)
  <2>1. req[r].step = "check" /\ Goto(r, "create")
    BY <1>2 DEF CheckOrderDay
  <2>2. req[r] \in Request
    BY <2>1 DEF IntakeInv, IntakeTypeOK, Idle
  <2>3. PICK c : c = [req[r] EXCEPT !.step = "create"]
    OBVIOUS
  <2>4. c \in Request /\ c.step = "create" /\ req' = [req EXCEPT ![r] = c]
    BY <2>1, <2>2, <2>3 DEF Request, Goto
  <2>5. free \in Int /\ free' = free
    BY IntakeAssumption, RequestsCount DEF IntakeInv, IntakeTypeOK, Holders, CheckOrderDay
  <2>6. /\ req' \in [Requests -> {Idle} \cup Request]
        /\ free' = maxConns' - Cardinality(Holders')
    <3>1. free' = free + (IF req[r].step = "get" THEN 1 ELSE 0) - (IF c.step = "get" THEN 1 ELSE 0)
      BY <2>1, <2>4, <2>5
    <3>2. maxConns' = maxConns
      BY DEF CheckOrderDay
    <3> QED
      BY <2>4, <3>1, <3>2, Moved
  <2>7. Cardinality(Passed') \in Nat /\ Cardinality(Passed') <= Cardinality(Requests)
    BY IntakeAssumption, FS_Subset, FS_CardinalityType DEF Passed
  <2>8. CapInv'
    <3>1. cap > 0 => Cardinality(today) < cap
      BY <1>2 DEF WithinCap, orderLimit, ordersToday
    <3>2. Cardinality(today) \in Nat /\ cap \in Nat
      BY FS_CardinalityType, IntakeAssumption DEF IntakeInv, IntakeTypeOK
    <3>3. today' = today /\ cap' = cap
      BY DEF CheckOrderDay
    <3> QED
      BY <2>7, <3>1, <3>2, <3>3, RequestsCount DEF CapInv
  <2> QED
    BY <2>6, <2>8 DEF IntakeInv, IntakeTypeOK, Holders, CheckOrderDay
<1> QED
  BY <1>1, <1>2

LEMMA CreateKeeps ==
    ASSUME IntakeInv, NEW r \in Requests, CreateOrder(r)
    PROVE  IntakeInv'
<1>1. req[r].step = "create" /\ Leave(r) /\ free' = free
  BY DEF CreateOrder
<1>2. req[r] \in Request
  BY <1>1 DEF IntakeInv, IntakeTypeOK, Idle
<1>3. PICK x \in Refs : x = req[r].ref
  BY <1>2 DEF Request
<1>4. orders' = orders \cup {x} /\ (today' = today \/ today' = today \cup {x})
  BY <1>3 DEF CreateOrder
<1>5. free \in Int /\ Idle.step = "idle"
  BY IntakeAssumption, RequestsCount DEF IntakeInv, IntakeTypeOK, Holders, Idle
<1>6. /\ req' \in [Requests -> {Idle} \cup Request]
      /\ free' = maxConns' - Cardinality(Holders')
      /\ Passed' = Passed \ {r}
  <2>1. PICK c : c = Idle
    OBVIOUS
  <2>2. c \in {Idle} \cup Request /\ c.step = "idle" /\ req' = [req EXCEPT ![r] = c]
    BY <1>1, <1>5, <2>1 DEF Leave
  <2>3. free' = free + (IF req[r].step = "get" THEN 1 ELSE 0) - (IF c.step = "get" THEN 1 ELSE 0)
    BY <1>1, <1>5, <2>2
  <2>4. maxConns' = maxConns
    BY DEF CreateOrder
  <2>5. c.step # "create"
    BY <2>2
  <2> QED
    BY <2>2, <2>3, <2>4, <2>5, Moved
<1>7. IsFiniteSet(today) /\ Cardinality(today) \in Nat
  BY FS_CardinalityType DEF IntakeInv
<1>8. IsFiniteSet(today') /\ Cardinality(today') <= Cardinality(today) + 1
  <2>1. /\ IsFiniteSet(today \cup {x})
        /\ Cardinality(today \cup {x}) =
               IF x \in today THEN Cardinality(today) ELSE Cardinality(today) + 1
    BY <1>7, FS_AddElement
  <2>2. CASE today' = today
    BY <1>7, <2>2
  <2>3. CASE today' = today \cup {x}
    BY <1>7, <2>1, <2>3
  <2> QED
    BY <1>4, <2>2, <2>3
<1>9. Cardinality(Passed') = Cardinality(Passed) - 1
  <2>1. r \in Passed
    BY <1>1 DEF Passed
  <2> QED
    BY <1>6, <2>1, RequestsCount, FS_RemoveElement
<1>10. CapInv'
  <2>1. Cardinality(today') \in Nat /\ cap \in Nat /\ cap' = cap
    BY <1>8, FS_CardinalityType, IntakeAssumption DEF IntakeInv, IntakeTypeOK, CreateOrder
  <2> QED
    BY <1>7, <1>8, <1>9, <2>1, RequestsCount DEF CapInv, IntakeInv
<1> QED
  BY <1>4, <1>6, <1>8, <1>10 DEF IntakeInv, IntakeTypeOK, Holders, CreateOrder

LEMMA IntakeInductive ==
    ASSUME IntakeInv, [IntakeNext]_intakeVars
    PROVE  IntakeInv'
<1>1. ASSUME NEW r \in Requests, DeadlinePasses(r) \/ RequestFails(r) PROVE IntakeInv'
  BY <1>1, LeavingKeeps DEF DeadlinePasses, RequestFails
<1>2. CASE Crash
  <2>1. /\ req' \in [Requests -> {Idle} \cup Request]
        /\ Holders' = {} /\ Passed' = {}
    BY <1>2 DEF Crash, Holders, Passed, Idle
  <2>2. free' = maxConns' - Cardinality(Holders')
    BY <1>2, <2>1, FS_EmptySet, IntakeAssumption DEF Crash, IntakeInv, IntakeTypeOK
  <2>3. CapInv' /\ IsFiniteSet(today')
    BY <1>2, <2>1, CapKept DEF Crash
  <2> QED
    BY <1>2, <2>1, <2>2, <2>3 DEF IntakeInv, IntakeTypeOK, Holders, Crash
<1>3. CASE Midnight
  <2>1. CapInv' /\ IsFiniteSet(today')
    BY <1>3, CapKept DEF Passed, Midnight
  <2> QED
    BY <1>3, <2>1 DEF IntakeInv, IntakeTypeOK, Midnight
<1>4. ASSUME NEW ref \in Refs, MarkPaidHandler(ref) PROVE IntakeInv'
  BY <1>4 DEF MarkPaidHandler, MarkPaid, IntakeInv, IntakeTypeOK, CapInv, Passed
<1>5. CASE UNCHANGED intakeVars
  BY <1>5 DEF intakeVars, IntakeInv, IntakeTypeOK, CapInv, Passed
<1> QED
  BY <1>1, <1>2, <1>3, <1>4, <1>5, SendKeeps, LookupKeeps, CheckKeeps, CreateKeeps DEF IntakeNext

LEMMA IntakeInitially == IntakeInit => IntakeInv
<1> SUFFICES ASSUME IntakeInit PROVE IntakeInv
  OBVIOUS
<1>1. Passed = {} /\ Holders = {}
  BY DEF IntakeInit, Passed, Holders, Idle
<1>2. IntakeTypeOK /\ IsFiniteSet(today)
  <2>1. IsFiniteSet(today) /\ Cardinality(Holders) = 0 /\ maxConns \in Nat
    BY <1>1, FS_EmptySet, IntakeAssumption DEF IntakeInit
  <2>2. free = maxConns - Cardinality(Holders)
    BY <2>1 DEF IntakeInit
  <2>3. req \in [Requests -> {Idle} \cup Request] /\ today \subseteq orders
    BY DEF IntakeInit
  <2> QED
    BY <2>1, <2>2, <2>3 DEF IntakeInit, IntakeTypeOK, Holders
<1>3. CapInv
  <2>1. Cardinality(Requests) \in Nat \ {0} /\ Cardinality(Passed) = 0 /\ Cardinality(today) = 0
    BY <1>1, FS_EmptySet, FS_CardinalityType, IntakeAssumption DEF IntakeInit
  <2>2. cap \in Nat
    BY IntakeAssumption DEF IntakeInit
  <2> QED
    BY <2>1, <2>2 DEF CapInv
<1> QED
  BY <1>2, <1>3 DEF IntakeInv

LEMMA IntakeInvHolds == IntakeSpec => []IntakeInv
<1>1. IntakeInv /\ [IntakeNext]_intakeVars => IntakeInv'
  BY IntakeInductive
<1> QED
  BY <1>1, IntakeInitially, PTL DEF IntakeSpec

(* idempotency.go, Middleware, on dbtx.WithSellerTx: every connection that a
   look-up took comes back to the pool, however the look-up ends.           *)
THEOREM IntakeTypes == IntakeSpec => []IntakeTypeOK
<1>1. IntakeInv => IntakeTypeOK
  BY DEF IntakeInv
<1> QED
  BY <1>1, IntakeInvHolds, PTL

(* limits.go, CheckOrderDay and the insert after it: the orders of a day pass
   the cap by no more than the number of other requests in flight.          *)
THEOREM IntakeCap == IntakeSpec => []CapOvershootBounded
<1>1. IntakeInv => CapOvershootBounded
  <2> SUFFICES ASSUME IntakeInv, cap > 0
               PROVE  Cardinality(today) <= cap + Cardinality(Requests) - 1
    BY DEF CapOvershootBounded
  <2>1. Cardinality(today) \in Nat /\ cap \in Nat
    BY FS_CardinalityType, IntakeAssumption DEF IntakeInv, IntakeTypeOK
  <2> QED
    BY <2>1, RequestsCount DEF IntakeInv, CapInv
<1> QED
  BY <1>1, IntakeInvHolds, PTL

-----------------------------------------------------------------------------
(* Calls go out: Carriers. *)

(* Half-open ends with the last success it asks for. *)
ProbingOn == state = "half_open" => successes < HalfOpenProbe

BreakerInv == CarriersTypeOK /\ ProbeSlotsAccounted /\ ProbingOn

(* How many probes are out, after a caller has begun or ended a call. *)
LEMMA ProbesFinite ==
    /\ IsFiniteSet(Probes)
    /\ Cardinality(Probes) \in Nat
BY CallersAssumption, FS_Subset, FS_CardinalityType DEF Probes

LEMMA ProbesWithout ==
    ASSUME call \in [Callers -> Call \cup {NoCall}], NEW c \in Callers,
           call' = [call EXCEPT ![c] = NoCall]
    PROVE  /\ Probes' = Probes \ {c}
           /\ Cardinality(Probes') \in Nat
           /\ Cardinality(Probes) <= Cardinality(Probes') + 1
           /\ ~call[c].probe => Cardinality(Probes') = Cardinality(Probes)
<1>1. Probes' = Probes \ {c}
  BY DEF Probes, NoCall
<1>2. CASE c \in Probes
  BY <1>1, <1>2, ProbesFinite, FS_RemoveElement, FS_CardinalityType DEF Probes
<1>3. CASE c \notin Probes
  <2>1. Probes' = Probes
    BY <1>1, <1>3
  <2>2. Cardinality(Probes') = Cardinality(Probes)
    BY <2>1
  <2> QED
    BY <1>1, <2>2, ProbesFinite
<1> QED
  BY <1>2, <1>3

LEMMA ProbesWith ==
    ASSUME call \in [Callers -> Call \cup {NoCall}], NEW c \in Callers, NEW op,
           call[c] = NoCall,
           call' = [call EXCEPT ![c] = [op |-> op, probe |-> TRUE]]
    PROVE  Cardinality(Probes') = Cardinality(Probes) + 1
<1>1. Probes' = Probes \cup {c} /\ c \notin Probes
  BY DEF Probes, NoCall
<1> QED
  BY <1>1, ProbesFinite, FS_AddElement

LEMMA ProbesGone ==
    ASSUME call \in [Callers -> Call \cup {NoCall}], NEW c \in Callers,
           call' = [Disowned EXCEPT ![c] = NoCall]
    PROVE  /\ Probes' = {}
           /\ call' \in [Callers -> Call \cup {NoCall}]
<1>1. ASSUME NEW d \in Callers
      PROVE  Disowned[d] \in Call \cup {NoCall} /\ Disowned[d].probe = FALSE
  <2>1. Disowned[d] = [op |-> call[d].op, probe |-> FALSE]
    BY DEF Disowned
  <2>2. CASE call[d] = NoCall
    BY <2>1, <2>2 DEF NoCall
  <2>3. CASE call[d] \in Call
    BY <2>1, <2>3 DEF Call
  <2> QED
    BY <2>2, <2>3
<1>2. Disowned \in [Callers -> Call \cup {NoCall}]
  BY <1>1 DEF Disowned
<1>3. call' \in [Callers -> Call \cup {NoCall}]
  BY <1>2
<1>4. \A d \in Callers : call'[d].probe = FALSE
  BY <1>1, <1>2 DEF NoCall
<1> QED
  BY <1>3, <1>4 DEF Probes

-----------------------------------------------------------------------------
LEMMA BeginKeeps ==
    ASSUME BreakerInv, NEW c \in Callers, NEW op \in {"book", "cancel"}, Begin(c, op)
    PROVE  BreakerInv'
<1> USE DEF BreakerInv, ProbingOn
<1>t. call \in [Callers -> Call \cup {NoCall}]
  BY DEF CarriersTypeOK
<1>1. CASE AllowClosed(c, op)
  <2>1. Probes' = Probes /\ call' \in [Callers -> Call \cup {NoCall}]
    BY <1>1, <1>t DEF AllowClosed, Begin, Probes, NoCall, Call
  <2> QED
    BY <1>1, <2>1 DEF AllowClosed, Begin, breaker, CarriersTypeOK, ProbeSlotsAccounted
<1>2. CASE AllowOpen(c, op)
  <2>1. call' \in [Callers -> Call \cup {NoCall}]
    BY <1>2, <1>t DEF AllowOpen, Begin, Call
  <2>2. Cardinality(Probes') = Cardinality(Probes) + 1
    BY <1>2, <1>t, ProbesWith DEF AllowOpen, Begin
  <2>3. CarriersTypeOK' /\ ProbingOn'
    BY <1>2, <2>1, BreakerAssumption DEF AllowOpen, Begin, CarriersTypeOK, BreakerState
  <2>4. ProbeSlotsAccounted'
    BY <1>2, <2>2, ProbesFinite DEF AllowOpen, Begin, ProbeSlotsAccounted
  <2> QED
    BY <2>3, <2>4
<1>3. CASE AllowHalfOpen(c, op)
  <2>1. call' \in [Callers -> Call \cup {NoCall}]
    BY <1>3, <1>t DEF AllowHalfOpen, Begin, Call
  <2>2. Cardinality(Probes') = Cardinality(Probes) + 1
    BY <1>3, <1>t, ProbesWith DEF AllowHalfOpen, Begin
  <2>3. CarriersTypeOK' /\ ProbingOn'
    BY <1>3, <2>1, BreakerAssumption DEF AllowHalfOpen, Begin, CarriersTypeOK
  <2>4. ProbeSlotsAccounted'
    BY <1>3, <2>2, ProbesFinite DEF AllowHalfOpen, Begin, ProbeSlotsAccounted, CarriersTypeOK
  <2> QED
    BY <2>3, <2>4
<1> QED
  BY <1>1, <1>2, <1>3 DEF Begin

LEMMA SuccessKeeps ==
    ASSUME BreakerInv, NEW c \in Callers, RecordSuccess(c), UNCHANGED healthy
    PROVE  BreakerInv'
<1> USE DEF BreakerInv, ProbingOn
<1>t. call \in [Callers -> Call \cup {NoCall}]
  BY DEF CarriersTypeOK
<1>n. [call EXCEPT ![c] = NoCall] \in [Callers -> Call \cup {NoCall}]
  BY <1>t
<1>1. CASE state # "half_open"
  <2>1. call' = [call EXCEPT ![c] = NoCall]
    BY <1>1 DEF RecordSuccess
  <2>2. Probes' = {}
    BY <1>1, <1>t, <2>1, ProbesWithout DEF CarriersTypeOK
  <2> QED
    BY <1>1, <1>n, <2>1, <2>2, BreakerAssumption
    DEF RecordSuccess, CarriersTypeOK, ProbeSlotsAccounted
<1>2. CASE state = "half_open" /\ Counted(successes) >= HalfOpenProbe
  <2>1. call' = [Disowned EXCEPT ![c] = NoCall]
    BY <1>2 DEF RecordSuccess
  <2>2. Probes' = {} /\ call' \in [Callers -> Call \cup {NoCall}]
    BY <1>t, <2>1, ProbesGone
  <2> QED
    BY <1>2, <2>2, BreakerAssumption
    DEF RecordSuccess, Counted, CarriersTypeOK, ProbeSlotsAccounted, BreakerState
<1>3. CASE state = "half_open" /\ ~(Counted(successes) >= HalfOpenProbe)
  <2>1. call' = [call EXCEPT ![c] = NoCall] /\ inFlight' = Freed(inFlight)
    BY <1>3 DEF RecordSuccess
  <2>2. Cardinality(Probes') \in Nat /\ Cardinality(Probes) <= Cardinality(Probes') + 1
    BY <1>t, <2>1, ProbesWithout
  <2>3. inFlight' <= Cardinality(Probes') + leaked'
    BY <1>3, <2>1, <2>2, ProbesFinite
    DEF RecordSuccess, Freed, CarriersTypeOK, ProbeSlotsAccounted
  <2>4. CarriersTypeOK' /\ ProbingOn'
    BY <1>3, <1>n, <2>1, BreakerAssumption
    DEF RecordSuccess, Counted, Freed, CarriersTypeOK
  <2> QED
    BY <2>3, <2>4 DEF ProbeSlotsAccounted
<1> QED
  BY <1>1, <1>2, <1>3

LEMMA FailureKeeps ==
    ASSUME BreakerInv, NEW c \in Callers, RecordFailure(c), UNCHANGED healthy
    PROVE  BreakerInv'
<1> USE DEF BreakerInv, ProbingOn
<1>t. call \in [Callers -> Call \cup {NoCall}]
  BY DEF CarriersTypeOK
<1>n. [call EXCEPT ![c] = NoCall] \in [Callers -> Call \cup {NoCall}]
  BY <1>t
<1>f. failures' \in 0..Threshold
  BY BreakerAssumption DEF CarriersTypeOK, RecordFailure, Saturated
<1>1. CASE failures + 1 >= Threshold
  <2>1. call' = [Disowned EXCEPT ![c] = NoCall]
    BY <1>1 DEF RecordFailure
  <2>2. Probes' = {} /\ call' \in [Callers -> Call \cup {NoCall}]
    BY <1>t, <2>1, ProbesGone
  <2>3. cooled' \in BOOLEAN
    <3>1. cooled' = IF failures + 1 >= Threshold THEN FALSE ELSE cooled
      BY DEF RecordFailure
    <3> QED
      BY <1>1, <3>1, Zenon
  <2>4. state' = "open" /\ inFlight' = 0 /\ leaked' = 0 /\ successes' = successes
    BY <1>1 DEF RecordFailure
  <2>5. CarriersTypeOK'
    BY <1>f, <2>2, <2>3, <2>4, BreakerAssumption DEF CarriersTypeOK, BreakerState
  <2> QED
    BY <2>4, <2>5 DEF ProbeSlotsAccounted
<1>2. CASE ~(failures + 1 >= Threshold)
  <2>1. /\ call' = [call EXCEPT ![c] = NoCall]
        /\ inFlight' = IF state = "half_open" THEN Freed(inFlight) ELSE inFlight
        /\ UNCHANGED <<state, cooled, leaked, successes>>
    BY <1>2 DEF RecordFailure
  <2>2. /\ Probes' = Probes \ {c}
        /\ Cardinality(Probes') \in Nat /\ Cardinality(Probes) <= Cardinality(Probes') + 1
    BY <1>t, <2>1, ProbesWithout
  <2>3. ProbeSlotsAccounted'
    BY <2>1, <2>2, ProbesFinite
    DEF Freed, CarriersTypeOK, ProbeSlotsAccounted
  <2>4. CarriersTypeOK' /\ ProbingOn'
    BY <1>n, <1>f, <2>1, <2>2, BreakerAssumption DEF Freed, CarriersTypeOK
  <2> QED
    BY <2>3, <2>4
<1> QED
  BY <1>1, <1>2

LEMMA NothingKeeps ==
    ASSUME BreakerInv, NEW c \in Callers, RecordNothing(c), UNCHANGED healthy
    PROVE  BreakerInv'
<1> USE DEF BreakerInv, ProbingOn
<1>t. call \in [Callers -> Call \cup {NoCall}]
  BY DEF CarriersTypeOK
<1>n. call' \in [Callers -> Call \cup {NoCall}]
  BY <1>t DEF RecordNothing
<1>1. /\ Probes' = Probes \ {c}
      /\ Cardinality(Probes') \in Nat /\ Cardinality(Probes) <= Cardinality(Probes') + 1
      /\ ~call[c].probe => Cardinality(Probes') = Cardinality(Probes)
  BY <1>t, ProbesWithout DEF RecordNothing
<1>2. call[c].probe => state = "half_open"
  BY DEF CarriersTypeOK, Probes
<1>3. ProbeSlotsAccounted'
  BY <1>1, ProbesFinite DEF RecordNothing, breaker, CarriersTypeOK, ProbeSlotsAccounted
<1>4. CarriersTypeOK' /\ ProbingOn'
  BY <1>n, <1>1, <1>2 DEF RecordNothing, breaker, CarriersTypeOK
<1> QED
  BY <1>3, <1>4

LEMMA BreakerInductive ==
    ASSUME BreakerInv, [CarriersNext]_carrierVars
    PROVE  BreakerInv'
<1>1. ASSUME NEW c \in Callers, NEW op \in {"book", "cancel"}, Begin(c, op)
      PROVE  BreakerInv'
  BY <1>1, BeginKeeps
<1>2. ASSUME NEW c \in Callers, Finish(c)
      PROVE  BreakerInv'
  <2>1. RecordSuccess(c) \/ RecordFailure(c) \/ RecordNothing(c)
    BY <1>2 DEF Finish
  <2>2. UNCHANGED healthy
    BY <1>2 DEF Finish
  <2> QED
    BY <2>1, <2>2, SuccessKeeps, FailureKeeps, NothingKeeps
<1>3. ASSUME Cool \/ CarrierTurns \/ UNCHANGED carrierVars
      PROVE  BreakerInv'
  <2>1. /\ UNCHANGED <<state, failures, successes, inFlight, call, leaked>>
        /\ cooled' \in BOOLEAN /\ healthy' \in BOOLEAN
    BY <1>3 DEF Cool, CarrierTurns, carrierVars, breaker, BreakerInv, CarriersTypeOK
  <2>2. Probes' = Probes
    BY <2>1 DEF Probes
  <2> QED
    BY <2>1, <2>2 DEF BreakerInv, CarriersTypeOK, ProbeSlotsAccounted, ProbingOn
<1> QED
  BY <1>1, <1>2, <1>3 DEF CarriersNext

(* breaker.go, Allow and Record...: for any number of callers the breaker's
   counters stay within their limits, outside half-open no probe slot is
   counted, and in half-open every counted slot belongs to a probe that is
   still out or that ended without recording.                               *)
THEOREM CarriersSlots == CarriersSpec => [](CarriersTypeOK /\ ProbeSlotsAccounted)
<1>1. CarriersInit => BreakerInv
  <2> SUFFICES ASSUME CarriersInit PROVE BreakerInv
    OBVIOUS
  <2>1. Probes = {}
    BY DEF CarriersInit, Probes, NoCall
  <2>2. call \in [Callers -> Call \cup {NoCall}]
    BY DEF CarriersInit
  <2>3. cooled \in BOOLEAN
    BY DEF CarriersInit
  <2> QED
    BY <2>1, <2>2, <2>3, BreakerAssumption
    DEF CarriersInit, BreakerInv, CarriersTypeOK, ProbeSlotsAccounted, ProbingOn, BreakerState
<1>2. BreakerInv /\ [CarriersNext]_carrierVars => BreakerInv'
  BY BreakerInductive
<1>3. BreakerInv => CarriersTypeOK /\ ProbeSlotsAccounted
  BY DEF BreakerInv
<1> QED
  BY <1>1, <1>2, <1>3, PTL DEF CarriersSpec

-----------------------------------------------------------------------------
(* Requests are authenticated: Sessions. *)

(* A cache's list and its map: bounded, one entry per token. *)
Tidy(q) ==
    /\ q \in Seq(Entry)
    /\ Len(q) <= Cap
    /\ \A i, j \in 1..Len(q) : q[i].token = q[j].token => i = j

SessionsTyped ==
    /\ session \in [Tokens -> {None} \cup Session]
    /\ locked \subseteq Users
    /\ member \in [Users -> {None} \cup Member]
    /\ request \in [HttpRequests -> {None} \cup Lookup]
    /\ revoking \in [Servers -> SUBSET Tokens]
    /\ touching \subseteq Tokens

CachesTidy ==
    /\ DOMAIN cache = Servers
    /\ \A s \in Servers : Tidy(cache[s])

(* Whoever is in a cache, asked for or touched has a session. *)
TokensIssued ==
    /\ \A t \in touching : session[t] # None
    /\ \A q \in HttpRequests : request[q] # None => session[request[q].token] # None
    /\ \A s \in Servers : \A i \in 1..Len(cache[s]) : session[cache[s][i].token] # None

SessionsInv == SessionsTyped /\ CachesTidy /\ TokensIssued

(* w has entries of q only. *)
From(w, q) == \A i \in 1..Len(w) : \E j \in 1..Len(q) : w[i] = q[j]

Cached(q, t) == \E i \in 1..Len(q) : q[i].token = t

(* What removing an element does to a list. *)
LEMMA RemoveAtShape ==
    ASSUME NEW S, NEW q \in Seq(S), NEW p \in 1..Len(q)
    PROVE  /\ RemoveAt(q, p) \in Seq(S)
           /\ Len(RemoveAt(q, p)) = Len(q) - 1
           /\ \A i \in 1..(Len(q) - 1) : RemoveAt(q, p)[i] = IF i < p THEN q[i] ELSE q[i + 1]
<1>0. Len(q) \in Nat
  OBVIOUS
<1> DEFINE a == SubSeq(q, 1, p - 1)
           b == SubSeq(q, p + 1, Len(q))
<1>1. /\ a \in Seq(S) /\ Len(a) = p - 1
      /\ \A i \in 1..(p - 1) : a[i] = q[i]
  BY SubSeqProperties
<1>2. /\ b \in Seq(S) /\ Len(b) = Len(q) - p
      /\ \A i \in 1..(Len(q) - p) : b[i] = q[p + i]
  BY SubSeqProperties
<1>3. RemoveAt(q, p) = a \o b
  BY DEF RemoveAt
<1> HIDE DEF a, b
<1>4. a \o b \in Seq(S) /\ Len(a \o b) = Len(q) - 1
  <2>1. a \in Seq(S) /\ b \in Seq(S)
    BY <1>1, <1>2
  <2>2. a \o b \in Seq(S) /\ Len(a \o b) = Len(a) + Len(b)
    BY <2>1, ConcatProperties
  <2> QED BY <1>0, <1>1, <1>2, <2>2
<1>5. ASSUME NEW i \in 1..(Len(q) - 1)
      PROVE  (a \o b)[i] = IF i < p THEN q[i] ELSE q[i + 1]
  <2>1. i \in 1..(Len(a) + Len(b))
    BY <1>0, <1>1, <1>2
  <2>2. (a \o b)[i] = IF i <= Len(a) THEN a[i] ELSE b[i - Len(a)]
    BY <1>1, <1>2, <2>1, ConcatProperties
  <2>3. CASE i < p
    BY <1>0, <1>1, <2>2, <2>3
  <2>4. CASE ~(i < p)
    <3>1. i - (p - 1) \in 1..(Len(q) - p) /\ p + (i - (p - 1)) = i + 1
      BY <1>0, <2>4
    <3>2. b[i - (p - 1)] = q[i + 1]
      BY <1>2, <3>1
    <3> QED BY <1>0, <1>1, <2>2, <2>4, <3>2
  <2> QED BY <2>3, <2>4
<1> QED BY <1>3, <1>4, <1>5

LEMMA PositionFound ==
    ASSUME NEW q, Tidy(q), NEW t, NEW p \in 1..Len(q), q[p].token = t
    PROVE  Position(q, t) = p
<1>1. {i \in 1..Len(q) : q[i].token = t} = {p}
  BY DEF Tidy
<1>2. Min({p}) = p
  BY DEF Min
<1> QED BY <1>1, <1>2 DEF Position, SelectInSeq

LEMMA WithoutTidy ==
    ASSUME NEW q, Tidy(q), NEW t
    PROVE  /\ Tidy(Without(q, t))
           /\ From(Without(q, t), q)
           /\ ~Cached(Without(q, t), t)
           /\ Cached(q, t) => Len(Without(q, t)) < Cap
<1>0. q \in Seq(Entry) /\ Len(q) \in Nat /\ Cap \in Nat
  BY SessionsAssumption DEF Tidy
<1>1. CASE ~Cached(q, t)
  <2>1. Without(q, t) = q
    BY <1>1 DEF Without, RemoveFirstMatch, Cached
  <2> QED BY <1>1, <2>1 DEF From
<1>2. CASE Cached(q, t)
  <2>1. PICK p \in 1..Len(q) : q[p].token = t
    BY <1>2 DEF Cached
  <2>2. SelectInSeq(q, LAMBDA e : e.token = t) = p
    <3>1. {i \in 1..Len(q) : q[i].token = t} = {p}
      BY <2>1 DEF Tidy
    <3>2. Min({p}) = p
      BY DEF Min
    <3> QED BY <3>1, <3>2 DEF SelectInSeq
  <2>3. Without(q, t) = RemoveAt(q, p)
    BY <2>1, <2>2 DEF Without, RemoveFirstMatch
  <2> DEFINE w == RemoveAt(q, p)
  <2>4. /\ w \in Seq(Entry)
        /\ Len(w) = Len(q) - 1
        /\ \A i \in 1..(Len(q) - 1) : w[i] = IF i < p THEN q[i] ELSE q[i + 1]
    BY <1>0, RemoveAtShape
  <2> HIDE DEF w
  <2>5. ASSUME NEW i \in 1..Len(w)
        PROVE  \E n \in 1..Len(q) : w[i] = q[n] /\ n # p /\ n = IF i < p THEN i ELSE i + 1
    BY <1>0, <2>4
  <2>6. From(w, q)
    BY <2>5 DEF From
  <2>7. ~Cached(w, t)
    BY <2>1, <2>5 DEF Cached, Tidy
  <2>8. \A i, j \in 1..Len(w) : w[i].token = w[j].token => i = j
    BY <1>0, <2>4, <2>5 DEF Tidy
  <2>9. Tidy(w) /\ Len(w) < Cap
    BY <1>0, <2>4, <2>8 DEF Tidy
  <2> QED BY <2>3, <2>6, <2>7, <2>9 DEF w
<1> QED BY <1>1, <1>2

(* A new entry at the back. *)
LEMMA AppendTidy ==
    ASSUME NEW w, Tidy(w), Len(w) < Cap, NEW e \in Entry, ~Cached(w, e.token)
    PROVE  /\ Tidy(Append(w, e))
           /\ \A i \in 1..Len(Append(w, e)) : Append(w, e)[i] = e \/ \E j \in 1..Len(w) : Append(w, e)[i] = w[j]
<1>0. w \in Seq(Entry) /\ Len(w) \in Nat /\ Cap \in Nat
  BY SessionsAssumption DEF Tidy
<1> DEFINE a == Append(w, e)
<1>1. a \in Seq(Entry) /\ Len(a) = Len(w) + 1 /\ a[Len(w) + 1] = e /\ \A i \in 1..Len(w) : a[i] = w[i]
  BY <1>0
<1> HIDE DEF a
<1>2. \A i \in 1..Len(a) : i \in 1..Len(w) \/ i = Len(w) + 1
  BY <1>0, <1>1
<1>3. \A i, j \in 1..Len(a) : a[i].token = a[j].token => i = j
  BY <1>1, <1>2 DEF Tidy, Cached
<1>4. Tidy(a)
  BY <1>0, <1>1, <1>3 DEF Tidy
<1> QED BY <1>1, <1>2, <1>4 DEF a

(* get and set keep the list tidy, and set brings in the new entry only. *)
LEMMA CacheGetTidy ==
    ASSUME NEW q, Tidy(q), NEW t, Live(q, t)
    PROVE  Tidy(CacheGet(q, t)) /\ From(CacheGet(q, t), q)
<1>1. PICK p \in 1..Len(q) : q[p].token = t
  BY DEF Live
<1>2. Position(q, t) = p /\ Cached(q, t) /\ q[p] \in Entry
  BY <1>1, PositionFound DEF Cached, Tidy
<1>3. /\ Tidy(Without(q, t)) /\ From(Without(q, t), q)
      /\ ~Cached(Without(q, t), t) /\ Len(Without(q, t)) < Cap
  BY <1>2, WithoutTidy
<1>4. CacheGet(q, t) = Append(Without(q, t), q[p])
  BY <1>2 DEF CacheGet
<1> DEFINE w == Without(q, t)
<1> HIDE DEF w
<1>5. Tidy(Append(w, q[p])) /\ \A i \in 1..Len(Append(w, q[p])) :
         Append(w, q[p])[i] = q[p] \/ \E j \in 1..Len(w) : Append(w, q[p])[i] = w[j]
  BY <1>1, <1>2, <1>3, AppendTidy DEF w
<1>6. From(Append(w, q[p]), q)
  BY <1>3, <1>5 DEF From, w
<1> QED BY <1>4, <1>5, <1>6 DEF w

LEMMA TailTidy ==
    ASSUME NEW q, Tidy(q), Len(q) >= Cap
    PROVE  Tidy(Tail(q)) /\ From(Tail(q), q) /\ Len(Tail(q)) < Cap
<1>0. q \in Seq(Entry) /\ Len(q) \in Nat /\ Cap \in Nat \ {0} /\ q # <<>> /\ Len(q) = Cap
  BY SessionsAssumption DEF Tidy
<1>1. Tail(q) \in Seq(Entry) /\ Len(Tail(q)) = Len(q) - 1 /\ \A i \in 1..(Len(q) - 1) : Tail(q)[i] = q[i + 1]
  BY <1>0
<1> DEFINE w == Tail(q)
<1> HIDE DEF w
<1>2. ASSUME NEW i \in 1..Len(w) PROVE w[i] = q[i + 1] /\ i + 1 \in 1..Len(q)
  BY <1>0, <1>1 DEF w
<1>3. From(w, q)
  BY <1>2 DEF From
<1>4. \A i, j \in 1..Len(w) : w[i].token = w[j].token => i = j
  BY <1>2 DEF Tidy
<1>5. Tidy(w) /\ Len(w) < Cap
  BY <1>0, <1>1, <1>4 DEF Tidy, w
<1> QED BY <1>3, <1>5 DEF w

LEMMA CacheSetTidy ==
    ASSUME NEW q, Tidy(q), NEW e \in Entry
    PROVE  /\ Tidy(CacheSet(q, e))
           /\ \A i \in 1..Len(CacheSet(q, e)) :
                 CacheSet(q, e)[i] = e \/ \E j \in 1..Len(q) : CacheSet(q, e)[i] = q[j]
<1>0. q \in Seq(Entry) /\ Len(q) \in Nat /\ Cap \in Nat
  BY SessionsAssumption DEF Tidy
<1>1. PICK room : room = IF Position(q, e.token) = 0 /\ Len(q) >= Cap THEN Tail(q) ELSE q
  OBVIOUS
<1>2. Tidy(room) /\ From(room, q)
  <2>1. From(q, q)
    BY DEF From
  <2> QED BY <1>0, <1>1, <2>1, TailTidy
<1>3. Cached(room, e.token) \/ Len(room) < Cap
  <2>1. CASE Position(q, e.token) = 0
    BY <1>0, <1>1, <2>1, TailTidy
  <2>2. CASE Position(q, e.token) # 0
    <3>1. Cached(q, e.token)
      BY <2>2 DEF Position, SelectInSeq, Cached
    <3> QED BY <1>1, <2>2, <3>1
  <2> QED BY <2>1, <2>2
<1>4. PICK w : w = Without(room, e.token)
  OBVIOUS
<1>5. Tidy(w) /\ From(w, room) /\ ~Cached(w, e.token) /\ Len(w) < Cap
  <2>1. Tidy(w) /\ From(w, room) /\ ~Cached(w, e.token) /\ (Cached(room, e.token) => Len(w) < Cap)
    BY <1>2, <1>4, WithoutTidy
  <2>2. CASE ~Cached(room, e.token)
    <3>1. w = room
      BY <1>4, <2>2 DEF Without, RemoveFirstMatch, Cached
    <3> QED BY <1>3, <2>1, <2>2, <3>1
  <2> QED BY <2>1, <2>2
<1>6. CacheSet(q, e) = Append(w, e)
  BY <1>1, <1>4 DEF CacheSet
<1>7. /\ Tidy(Append(w, e))
      /\ \A i \in 1..Len(Append(w, e)) : Append(w, e)[i] = e \/ \E j \in 1..Len(w) : Append(w, e)[i] = w[j]
  BY <1>5, AppendTidy
<1>8. \A j \in 1..Len(w) : \E n \in 1..Len(q) : w[j] = q[n]
  BY <1>2, <1>5 DEF From
<1> QED BY <1>6, <1>7, <1>8

LEMMA TidyToken ==
    ASSUME NEW q, Tidy(q), NEW i \in 1..Len(q)
    PROVE  q[i] \in Entry /\ q[i].token \in Tokens
<1>1. q[i] \in Entry
  BY DEF Tidy
<1> QED BY <1>1 DEF Entry

-----------------------------------------------------------------------------
LEMMA InitSessionsInv == SessionsInit => SessionsInv
<1> SUFFICES ASSUME SessionsInit PROVE SessionsInv
  OBVIOUS
<1>1. SessionsTyped
  BY DEF SessionsInit, SessionsTyped, Member
<1>2. Tidy(<<>>)
  BY SessionsAssumption DEF Tidy
<1>3. CachesTidy
  BY <1>2 DEF SessionsInit, CachesTidy
<1>4. TokensIssued
  BY DEF SessionsInit, TokensIssued
<1> QED BY <1>1, <1>3, <1>4 DEF SessionsInv

(* Rows come and stay. *)
LEMMA RowsGrow ==
    ASSUME SessionsInv, SessionsTyped', UNCHANGED <<cache, request>>,
           touching' \subseteq touching,
           \A t \in Tokens : session[t] # None => session'[t] # None
    PROVE  SessionsInv'
<1>1. SessionsTyped /\ CachesTidy /\ TokensIssued
  BY DEF SessionsInv
<1>2. CachesTidy'
  BY <1>1 DEF CachesTidy, Tidy
<1>3. TokensIssued'
  <2>1. \A t \in touching' : session'[t] # None
    BY <1>1 DEF TokensIssued, SessionsTyped
  <2>2. ASSUME NEW q \in HttpRequests, request[q] # None PROVE session'[request[q].token] # None
    <3>1. request[q].token \in Tokens
      BY <1>1, <2>2 DEF SessionsTyped, Lookup
    <3> QED BY <1>1, <2>2, <3>1 DEF TokensIssued
  <2>3. ASSUME NEW s \in Servers, NEW i \in 1..Len(cache[s]) PROVE session'[cache[s][i].token] # None
    <3>1. cache[s][i].token \in Tokens
      <4>1. Tidy(cache[s])
        BY <1>1 DEF CachesTidy
      <4>2. PICK c : c = cache[s]
        OBVIOUS
      <4>3. c[i].token \in Tokens
        BY <4>1, <4>2, TidyToken
      <4> QED BY <4>2, <4>3
    <3> QED BY <1>1, <3>1 DEF TokensIssued
  <2> QED BY <2>1, <2>2, <2>3 DEF TokensIssued
<1> QED BY <1>2, <1>3 DEF SessionsInv

(* The step of one server's cache. *)
LEMMA CacheMoves ==
    ASSUME SessionsInv, SessionsTyped', UNCHANGED session, NEW s \in Servers, NEW q, Tidy(q),
           cache' = [cache EXCEPT ![s] = q],
           \A t \in touching' : session[t] # None,
           \A r \in HttpRequests : request'[r] # None => session[request'[r].token] # None,
           \A i \in 1..Len(q) : session[q[i].token] # None
    PROVE  SessionsInv'
<1>1. CachesTidy /\ TokensIssued
  BY DEF SessionsInv
<1>2. DOMAIN cache' = Servers /\ cache'[s] = q /\ \A r \in Servers \ {s} : cache'[r] = cache[r]
  BY <1>1 DEF CachesTidy
<1>3. CachesTidy'
  <2>1. ASSUME NEW r \in Servers PROVE Tidy(cache'[r])
    BY <1>1, <1>2 DEF CachesTidy
  <2> QED BY <1>2, <2>1 DEF CachesTidy, Tidy
<1>4. TokensIssued'
  <2>1. ASSUME NEW r \in Servers, NEW i \in 1..Len(cache'[r]) PROVE session[cache'[r][i].token] # None
    BY <1>1, <1>2 DEF TokensIssued
  <2> QED BY <2>1 DEF TokensIssued
<1> QED BY <1>3, <1>4 DEF SessionsInv

LEMMA AuthenticateHitKeeps ==
    ASSUME SessionsInv, NEW s \in Serving, NEW t \in Tokens, AuthenticateHit(s, t)
    PROVE  SessionsInv'
<1>1. SessionsTyped /\ CachesTidy /\ TokensIssued
  BY DEF SessionsInv
<1>2. s \in Servers /\ Tidy(cache[s])
  BY <1>1, SessionsAssumption DEF CachesTidy
<1>3. /\ Live(cache[s], t)
      /\ touching' = touching \cup {t}
      /\ cache' = [cache EXCEPT ![s] = CacheGet(cache[s], t)]
      /\ UNCHANGED <<session, locked, member, request, revoking>>
  BY DEF AuthenticateHit, tableVars
<1>4. PICK q : q = CacheGet(cache[s], t)
  OBVIOUS
<1>5. Tidy(q) /\ From(q, cache[s])
  <2>1. PICK c : c = cache[s]
    OBVIOUS
  <2> QED BY <1>2, <1>3, <1>4, <2>1, CacheGetTidy
<1>6. \A i \in 1..Len(q) : session[q[i].token] # None
  BY <1>1, <1>2, <1>5 DEF From, TokensIssued
<1>7. session[t] # None
  BY <1>1, <1>2, <1>3 DEF Live, TokensIssued
<1>8. SessionsTyped'
  BY <1>1, <1>3 DEF SessionsTyped
<1>9. /\ \A r \in HttpRequests : request'[r] # None => session[request'[r].token] # None
      /\ \A u \in touching' : session[u] # None
  BY <1>1, <1>3, <1>7 DEF TokensIssued
<1> QED BY <1>2, <1>3, <1>4, <1>5, <1>6, <1>8, <1>9, CacheMoves

LEMMA AuthenticateMissKeeps ==
    ASSUME SessionsInv, NEW n \in HttpRequests, NEW s \in Serving, NEW t \in Tokens,
           AuthenticateMiss(n, s, t)
    PROVE  SessionsInv'
<1>1. SessionsTyped /\ CachesTidy /\ TokensIssued
  BY DEF SessionsInv
<1>2. s \in Servers /\ Tidy(cache[s])
  BY <1>1, SessionsAssumption DEF CachesTidy
<1>3. PICK look : look = [at |-> s, token |-> t, principal |-> PrincipalOf(t)]
  OBVIOUS
<1>4. /\ cache' = [cache EXCEPT ![s] = Without(cache[s], t)]
      /\ request' = [request EXCEPT ![n] = IF Admitted(t) THEN look ELSE None]
      /\ UNCHANGED <<session, locked, member, revoking, touching>>
  BY <1>3 DEF AuthenticateMiss, tableVars
<1>5. PICK q : q = Without(cache[s], t)
  OBVIOUS
<1>6. Tidy(q) /\ From(q, cache[s])
  <2>1. PICK c : c = cache[s]
    OBVIOUS
  <2> QED BY <1>2, <1>5, <2>1, WithoutTidy
<1>7. \A i \in 1..Len(q) : session[q[i].token] # None
  BY <1>1, <1>2, <1>6 DEF From, TokensIssued
<1>8. Admitted(t) => look \in Lookup
  <2> SUFFICES ASSUME Admitted(t) PROVE look \in Lookup
    OBVIOUS
  <2>1. session[t] \in Session
    BY <1>1 DEF Admitted, SessionsTyped
  <2>2. session[t].user \in Users /\ session[t].scoped \in BOOLEAN
    BY <2>1 DEF Session
  <2>3. member[session[t].user] # None => member[session[t].user].roles \in Roles
    BY <1>1, <2>2 DEF SessionsTyped, Member
  <2>4. PrincipalOf(t) \in Principal
    BY <2>2, <2>3 DEF PrincipalOf, Principal
  <2> QED BY <1>3, <2>4 DEF Lookup
<1>9. request'[n] = (IF Admitted(t) THEN look ELSE None) /\ \A r \in HttpRequests \ {n} : request'[r] = request[r]
  BY <1>1, <1>4 DEF SessionsTyped
<1>10. SessionsTyped'
  <2>1. request' \in [HttpRequests -> {None} \cup Lookup]
    BY <1>1, <1>4, <1>8 DEF SessionsTyped
  <2> QED BY <1>1, <1>4, <2>1 DEF SessionsTyped
<1>11. request'[n] # None => request'[n].token = t /\ session[t] # None
  BY <1>3, <1>9 DEF Admitted
<1>12. /\ \A r \in HttpRequests : request'[r] # None => session[request'[r].token] # None
       /\ \A u \in touching' : session[u] # None
  BY <1>1, <1>4, <1>9, <1>11 DEF TokensIssued
<1>13. cache' = [cache EXCEPT ![s] = q] /\ UNCHANGED session
  BY <1>4, <1>5
<1> QED BY <1>2, <1>6, <1>7, <1>10, <1>12, <1>13, CacheMoves

LEMMA FinishKeeps ==
    ASSUME SessionsInv, NEW n \in HttpRequests, AuthenticateFinish(n)
    PROVE  SessionsInv'
<1>1. SessionsTyped /\ CachesTidy /\ TokensIssued
  BY DEF SessionsInv
<1>2. PICK look \in Lookup : look = request[n]
  BY <1>1 DEF AuthenticateFinish, SessionsTyped
<1>3. PICK s \in Servers : s = look.at /\ Tidy(cache[s])
  BY <1>1, SessionsAssumption DEF CachesTidy, Lookup
<1>4. PICK e : e = [token |-> look.token, principal |-> look.principal, age |-> 0]
  OBVIOUS
<1>5. /\ cache' = [cache EXCEPT ![s] = CacheSet(cache[s], e)]
      /\ touching' = touching \cup {look.token}
      /\ request' = [request EXCEPT ![n] = None]
      /\ UNCHANGED <<session, locked, member, revoking>>
  BY <1>2, <1>3, <1>4 DEF AuthenticateFinish, tableVars
<1>6. e \in Entry /\ e.token = look.token /\ e.token \in Tokens
  <2>1. 0 \in 0..(TTL + 1)
    BY SessionsAssumption
  <2>2. look.token \in Tokens /\ look.principal \in Principal
    BY DEF Lookup
  <2> QED BY <1>4, <2>1, <2>2 DEF Entry
<1>7. PICK q : q = CacheSet(cache[s], e)
  OBVIOUS
<1>8. Tidy(q) /\ \A i \in 1..Len(q) : q[i] = e \/ \E j \in 1..Len(cache[s]) : q[i] = cache[s][j]
  <2>1. PICK c : c = cache[s]
    OBVIOUS
  <2>2. Tidy(CacheSet(c, e)) /\ \A i \in 1..Len(CacheSet(c, e)) :
           CacheSet(c, e)[i] = e \/ \E j \in 1..Len(c) : CacheSet(c, e)[i] = c[j]
    BY <1>3, <1>6, <2>1, CacheSetTidy
  <2> QED BY <1>7, <2>1, <2>2
<1>9. session[e.token] # None
  <2>1. request[n] # None
    BY DEF AuthenticateFinish
  <2> QED BY <1>1, <1>2, <1>6, <2>1 DEF TokensIssued
<1>10. \A i \in 1..Len(q) : session[q[i].token] # None
  BY <1>1, <1>8, <1>9 DEF TokensIssued
<1>11. SessionsTyped'
  <2>1. request' \in [HttpRequests -> {None} \cup Lookup]
    BY <1>1, <1>5 DEF SessionsTyped
  <2>2. touching' \subseteq Tokens
    BY <1>1, <1>5, <1>6 DEF SessionsTyped
  <2> QED BY <1>1, <1>5, <2>1, <2>2 DEF SessionsTyped
<1>12. \A u \in touching' : session[u] # None
  BY <1>1, <1>5, <1>6, <1>9 DEF TokensIssued
<1>13. \A r \in HttpRequests : request'[r] # None => session[request'[r].token] # None
  <2>1. request'[n] = None /\ \A r \in HttpRequests \ {n} : request'[r] = request[r]
    BY <1>1, <1>5 DEF SessionsTyped
  <2> QED BY <1>1, <2>1 DEF TokensIssued
<1>14. cache' = [cache EXCEPT ![s] = q] /\ UNCHANGED session
  BY <1>5, <1>7
<1> QED BY <1>8, <1>10, <1>11, <1>12, <1>13, <1>14, CacheMoves

LEMMA RestartKeeps ==
    ASSUME SessionsInv, NEW s \in Servers, Restart(s)
    PROVE  SessionsInv'
<1>1. SessionsTyped /\ CachesTidy /\ TokensIssued
  BY DEF SessionsInv
<1>2. /\ cache' = [cache EXCEPT ![s] = <<>>]
      /\ request' = [q \in HttpRequests |->
            IF request[q] # None /\ request[q].at = s THEN None ELSE request[q]]
      /\ revoking' = [revoking EXCEPT ![s] = {}]
      /\ UNCHANGED <<session, locked, member, touching>>
  BY DEF Restart, tableVars
<1>3. PICK w : w = <<>>
  OBVIOUS
<1>4. Tidy(w) /\ 1..Len(w) = {}
  BY <1>3, SessionsAssumption DEF Tidy
<1>5. \A r \in HttpRequests : request'[r] = None \/ request'[r] = request[r]
  BY <1>2
<1>6. SessionsTyped'
  <2>1. request' \in [HttpRequests -> {None} \cup Lookup] /\ revoking' \in [Servers -> SUBSET Tokens]
    BY <1>1, <1>2 DEF SessionsTyped
  <2> QED BY <1>1, <1>2, <2>1 DEF SessionsTyped
<1>7. /\ cache' = [cache EXCEPT ![s] = w]
      /\ UNCHANGED session
      /\ \A u \in touching' : session[u] # None
      /\ \A r \in HttpRequests : request'[r] # None => session[request'[r].token] # None
      /\ \A i \in 1..Len(w) : session[w[i].token] # None
  BY <1>1, <1>2, <1>3, <1>4, <1>5 DEF TokensIssued
<1> QED BY <1>4, <1>6, <1>7, CacheMoves

(* cache.delete *)
LEMMA ForgetKeeps ==
    ASSUME SessionsInv, NEW s \in Servers, NEW t \in Tokens, Forget(s, t)
    PROVE  SessionsInv'
<1>1. SessionsTyped /\ CachesTidy /\ TokensIssued
  BY DEF SessionsInv
<1>2. Tidy(cache[s])
  BY <1>1 DEF CachesTidy
<1>3. /\ cache' = [cache EXCEPT ![s] = Without(cache[s], t)]
      /\ revoking' = [revoking EXCEPT ![s] = revoking[s] \ {t}]
      /\ UNCHANGED <<session, locked, member, request, touching>>
  BY DEF Forget, tableVars
<1>4. PICK q : q = Without(cache[s], t)
  OBVIOUS
<1>5. Tidy(q) /\ From(q, cache[s])
  <2>1. PICK c : c = cache[s]
    OBVIOUS
  <2> QED BY <1>2, <1>4, <2>1, WithoutTidy
<1>6. SessionsTyped'
  BY <1>1, <1>3 DEF SessionsTyped
<1>7. /\ cache' = [cache EXCEPT ![s] = q]
      /\ UNCHANGED session
      /\ \A u \in touching' : session[u] # None
      /\ \A r \in HttpRequests : request'[r] # None => session[request'[r].token] # None
  BY <1>1, <1>3, <1>4 DEF TokensIssued
<1>8. \A i \in 1..Len(q) : session[q[i].token] # None
  BY <1>1, <1>5 DEF From, TokensIssued
<1> QED BY <1>5, <1>6, <1>7, <1>8, CacheMoves

(* Time passes: entries age, and nothing else moves. *)
LEMMA AgedTidy ==
    ASSUME NEW q, Tidy(q), NEW w,
           w = [i \in 1..Len(q) |-> [q[i] EXCEPT !.age = IF @ <= TTL THEN @ + 1 ELSE @]]
    PROVE  /\ Tidy(w)
           /\ Len(w) = Len(q)
           /\ \A i \in 1..Len(q) : w[i].token = q[i].token
<1>0. q \in Seq(Entry) /\ Len(q) \in Nat /\ Len(q) <= Cap
  BY DEF Tidy
<1>1. ASSUME NEW e \in Entry
      PROVE  /\ [e EXCEPT !.age = IF @ <= TTL THEN @ + 1 ELSE @] \in Entry
             /\ [e EXCEPT !.age = IF @ <= TTL THEN @ + 1 ELSE @].token = e.token
  <2>1. e.age \in 0..(TTL + 1) /\ TTL \in Nat
    BY SessionsAssumption DEF Entry
  <2>2. (IF e.age <= TTL THEN e.age + 1 ELSE e.age) \in 0..(TTL + 1)
    BY <2>1
  <2> QED BY <2>2 DEF Entry
<1>2. \A i \in 1..Len(q) : w[i] \in Entry /\ w[i].token = q[i].token
  <2>1. ASSUME NEW i \in 1..Len(q)
        PROVE  w[i] \in Entry /\ w[i].token = q[i].token
    <3>1. PICK e \in Entry : e = q[i]
      BY <1>0
    <3>2. w[i] = [e EXCEPT !.age = IF @ <= TTL THEN @ + 1 ELSE @]
      BY <3>1
    <3> QED BY <1>1, <3>1, <3>2
  <2> QED BY <2>1
<1>3. w \in Seq(Entry) /\ Len(w) = Len(q)
  <2>1. w \in [1..Len(q) -> Entry]
    <3>1. DOMAIN w = 1..Len(q) /\ w = [i \in DOMAIN w |-> w[i]]
      OBVIOUS
    <3> QED BY <1>2, <3>1
  <2> QED BY <1>0, <2>1
<1>4. \A i, j \in 1..Len(w) : w[i].token = w[j].token => i = j
  BY <1>2, <1>3 DEF Tidy
<1> QED BY <1>0, <1>2, <1>3, <1>4 DEF Tidy

LEMMA TickKeeps == SessionsInv /\ Tick => SessionsInv'
<1> SUFFICES ASSUME SessionsInv, Tick PROVE SessionsInv'
  OBVIOUS
<1>1. SessionsTyped /\ CachesTidy /\ TokensIssued
  BY DEF SessionsInv
<1>2. /\ cache' = [s \in Servers |-> [i \in 1..Len(cache[s]) |->
            [cache[s][i] EXCEPT !.age = IF @ <= TTL THEN @ + 1 ELSE @]]]
      /\ UNCHANGED <<session, locked, member, request, revoking, touching>>
  BY DEF Tick, tableVars
<1>3. ASSUME NEW s \in Servers
      PROVE  /\ Tidy(cache'[s])
             /\ Len(cache'[s]) = Len(cache[s])
             /\ \A i \in 1..Len(cache[s]) :
                   cache'[s][i].token = cache[s][i].token
  <2>1. PICK q : q = cache[s]
    OBVIOUS
  <2>2. PICK w : w = cache'[s]
    OBVIOUS
  <2>3. Tidy(q)
    BY <1>1, <2>1 DEF CachesTidy
  <2>4. w = [i \in 1..Len(q) |-> [q[i] EXCEPT !.age = IF @ <= TTL THEN @ + 1 ELSE @]]
    BY <1>2, <2>1, <2>2
  <2>5. /\ Tidy(w)
        /\ Len(w) = Len(q)
        /\ \A i \in 1..Len(q) : w[i].token = q[i].token
    BY <2>3, <2>4, AgedTidy
  <2> QED BY <2>1, <2>2, <2>5
<1>4. CachesTidy'
  <2>1. DOMAIN cache' = Servers
    BY <1>2
  <2> QED BY <1>3, <2>1 DEF CachesTidy, Tidy
<1>5. SessionsTyped'
  BY <1>1, <1>2 DEF SessionsTyped
<1>6. TokensIssued'
  <2>1. ASSUME NEW s \in Servers, NEW i \in 1..Len(cache'[s]) PROVE session[cache'[s][i].token] # None
    BY <1>1, <1>3 DEF TokensIssued
  <2> QED BY <1>1, <1>2, <2>1 DEF TokensIssued
<1> QED BY <1>4, <1>5, <1>6 DEF SessionsInv

(* The tables: a session that is there stays. *)
LEMMA RevokeKeeps ==
    ASSUME SessionsInv, NEW s \in Servers, NEW ts \in SUBSET Tokens,
           \A t \in ts : session[t] # None, RevokeRows(s, ts)
    PROVE  SessionsInv'
<1>1. SessionsTyped
  BY DEF SessionsInv
<1>2. /\ session' = [t \in Tokens |-> IF t \in ts THEN [session[t] EXCEPT !.revoked = TRUE] ELSE session[t]]
      /\ revoking' = [revoking EXCEPT ![s] = @ \cup ts]
      /\ UNCHANGED <<locked, member, cache, request, touching>>
  BY DEF RevokeRows
<1>3. ASSUME NEW t \in Tokens, session[t] # None
      PROVE  session'[t] \in Session
  <2>1. PICK r \in Session : r = session[t]
    BY <1>1, <1>3 DEF SessionsTyped
  <2>2. session'[t] = IF t \in ts THEN [r EXCEPT !.revoked = TRUE] ELSE r
    BY <1>2, <2>1
  <2>3. [r EXCEPT !.revoked = TRUE] \in Session
    BY DEF Session
  <2> QED BY <2>1, <2>2, <2>3
<1>4. \A t \in Tokens : session'[t] \in {None} \cup Session
  BY <1>1, <1>2, <1>3 DEF SessionsTyped
<1>5. SessionsTyped'
  <2>1. session' \in [Tokens -> {None} \cup Session]
    BY <1>2, <1>4
  <2>2. revoking' \in [Servers -> SUBSET Tokens]
    BY <1>1, <1>2 DEF SessionsTyped
  <2> QED BY <1>1, <1>2, <2>1, <2>2 DEF SessionsTyped
<1>6. None \notin Session
  BY SessionsAssumption
<1>7. \A t \in Tokens : session[t] # None =>
         session'[t] # None
  BY <1>3, <1>6
<1>9. UNCHANGED <<cache, request>> /\ touching' \subseteq touching
  BY <1>2
<1> QED BY <1>5, <1>7, <1>9, RowsGrow

LEMMA RowKeeps ==
    ASSUME SessionsInv, NEW t \in Tokens, NEW row \in Session,
           session' = [session EXCEPT ![t] = row],
           touching' \subseteq touching,
           UNCHANGED <<locked, member, cache, request, revoking>>
    PROVE  SessionsInv'
<1>1. SessionsTyped
  BY DEF SessionsInv
<1>2. None \notin Session
  BY SessionsAssumption
<1>3. SessionsTyped'
  BY <1>1 DEF SessionsTyped
<1>4. session'[t] = row /\ \A u \in Tokens \ {t} : session'[u] = session[u]
  BY <1>1 DEF SessionsTyped
<1>5. \A u \in Tokens : session[u] # None =>
         session'[u] # None
  BY <1>2, <1>4
<1> QED BY <1>3, <1>5, RowsGrow

LEMMA SameRowsKeep ==
    ASSUME SessionsInv, SessionsTyped', touching' \subseteq touching,
           UNCHANGED <<session, cache, request, revoking>>
    PROVE  SessionsInv'
<1>1. SessionsTyped
  BY DEF SessionsInv
<1>2. \A u \in Tokens : session[u] # None =>
         session'[u] # None
  OBVIOUS
<1> QED BY <1>2, RowsGrow

LEMMA TableKeeps ==
    ASSUME SessionsInv, NEW t \in Tokens,
           TouchSession(t) \/ SessionExpires(t) \/ \E u \in Users, b \in BOOLEAN : IssueCredentials(t, u, b)
    PROVE  SessionsInv'
<1>1. SessionsTyped /\ TokensIssued
  BY DEF SessionsInv
<1>2. CASE TouchSession(t)
  <2>1. /\ t \in touching
        /\ touching' \subseteq touching
        /\ session' \in {session, IF session[t].revoked THEN session ELSE [session EXCEPT ![t].expired = FALSE]}
        /\ UNCHANGED <<locked, member, cache, request, revoking>>
    BY <1>2 DEF TouchSession, serverVars
  <2>2. PICK r \in Session : r = session[t]
    BY <1>1, <2>1 DEF SessionsTyped, TokensIssued
  <2>3. CASE session' = session
    <3>1. SessionsTyped'
      BY <1>1, <2>1, <2>3 DEF SessionsTyped
    <3> QED BY <2>1, <2>3, <3>1, SameRowsKeep
  <2>4. CASE session' # session
    <3>1. PICK row : row = [r EXCEPT !.expired = FALSE]
      OBVIOUS
    <3>2. row \in Session
      BY <3>1 DEF Session
    <3>3. session' = [session EXCEPT ![t] = row]
      BY <2>1, <2>2, <2>4, <3>1
    <3> QED BY <2>1, <2>2, <3>2, <3>3, RowKeeps
  <2> QED BY <2>3, <2>4
<1>3. CASE SessionExpires(t)
  <2>1. /\ session[t] # None
        /\ session' = [session EXCEPT ![t].expired = TRUE]
        /\ UNCHANGED <<locked, member, cache, request, revoking, touching>>
    BY <1>3 DEF SessionExpires, serverVars
  <2>2. PICK r \in Session : r = session[t]
    BY <1>1, <2>1 DEF SessionsTyped
  <2>3. PICK row : row = [r EXCEPT !.expired = TRUE]
    OBVIOUS
  <2>4. row \in Session
    BY <2>3 DEF Session
  <2>5. session' = [session EXCEPT ![t] = row]
    BY <2>1, <2>2, <2>3
  <2> QED BY <2>1, <2>2, <2>4, <2>5, RowKeeps
<1>4. ASSUME NEW u \in Users, NEW b \in BOOLEAN, IssueCredentials(t, u, b)
      PROVE  SessionsInv'
  <2>1. PICK row : row = InsertedSession(u, b)
    OBVIOUS
  <2>2. row \in Session
    BY <2>1 DEF InsertedSession, Session
  <2>3. /\ session[t] = None
        /\ session' = [session EXCEPT ![t] = row]
        /\ UNCHANGED <<locked, member, cache, request, revoking, touching>>
    BY <1>4, <2>1 DEF IssueCredentials, serverVars
  <2> QED BY <2>2, <2>3, RowKeeps
<1> QED BY <1>2, <1>3, <1>4

(* identity never touches a session. *)
LEMMA IdentityKeeps ==
    ASSUME SessionsInv, NEW u \in Users,
           \/ \E r \in Roles : AddMember(u, r) \/ UpdateUserRoles(u, r)
           \/ RemoveUserFromSeller(u)
           \/ LockUser(u) \/ UnlockUser(u)
    PROVE  SessionsInv'
<1>1. SessionsTyped
  BY DEF SessionsInv
<1>2. ASSUME NEW m \in Member, SetMember(u, m) PROVE SessionsInv'
  <2>1. member' = [member EXCEPT ![u] = m] /\ UNCHANGED <<session, locked, cache, request, revoking, touching>>
    BY <1>2 DEF SetMember, serverVars
  <2>2. SessionsTyped'
    BY <1>1, <2>1 DEF SessionsTyped
  <2> QED BY <2>1, <2>2, SameRowsKeep
<1>3. CASE LockUser(u) \/ UnlockUser(u)
  <2>1. locked' \subseteq locked \cup {u} /\ UNCHANGED <<session, member, cache, request, revoking, touching>>
    BY <1>3 DEF LockUser, UnlockUser, serverVars
  <2>2. SessionsTyped'
    BY <1>1, <2>1 DEF SessionsTyped
  <2> QED BY <2>1, <2>2, SameRowsKeep
<1>4. ASSUME NEW r \in Roles, AddMember(u, r) PROVE SessionsInv'
  <2>1. [status |-> "active", roles |-> r] \in Member
    BY DEF Member
  <2> QED BY <1>2, <1>4, <2>1 DEF AddMember
<1>5. ASSUME NEW r \in Roles, UpdateUserRoles(u, r) PROVE SessionsInv'
  <2>1. PICK m : m = member[u]
    OBVIOUS
  <2>2. m \in Member /\ SetMember(u, [m EXCEPT !.roles = r])
    BY <1>1, <1>5, <2>1 DEF UpdateUserRoles, SessionsTyped
  <2>3. [m EXCEPT !.roles = r] \in Member
    BY <2>2 DEF Member
  <2> QED BY <1>2, <2>2, <2>3
<1>6. CASE RemoveUserFromSeller(u)
  <2>1. PICK m : m = member[u]
    OBVIOUS
  <2>2. m \in Member /\ SetMember(u, [m EXCEPT !.status = "removed"])
    BY <1>1, <1>6, <2>1 DEF RemoveUserFromSeller, SessionsTyped
  <2>3. [m EXCEPT !.status = "removed"] \in Member
    BY <2>2 DEF Member
  <2> QED BY <1>2, <2>2, <2>3
<1> QED BY <1>3, <1>4, <1>5, <1>6

LEMMA NextSessionsInv == SessionsInv /\ [SessionsNext]_sessionVars => SessionsInv'
<1> SUFFICES ASSUME SessionsInv, [SessionsNext]_sessionVars PROVE SessionsInv'
  OBVIOUS
<1>1. SessionsTyped
  BY DEF SessionsInv
<1>2. ASSUME NEW q \in HttpRequests, NEW s \in Serving, NEW t \in Tokens, Middleware(q, s, t)
      PROVE  SessionsInv'
  BY <1>2, AuthenticateHitKeeps, AuthenticateMissKeeps DEF Middleware
<1>3. ASSUME NEW q \in HttpRequests, AuthenticateFinish(q) PROVE SessionsInv'
  BY <1>3, FinishKeeps
<1>4. ASSUME NEW s \in Servers, NEW t \in Tokens \cup {None}, LogoutHandler(s, t) PROVE SessionsInv'
  <2>1. PICK ok \in BOOLEAN : Revoke(s, t, ok)
    BY <1>4 DEF LogoutHandler
  <2>2. PICK ts \in SUBSET Tokens : ts = IF ok /\ t # None /\ session[t] # None THEN {t} ELSE {}
    OBVIOUS
  <2>3. RevokeRows(s, ts) /\ \A u \in ts : session[u] # None
    BY <2>1, <2>2 DEF Revoke
  <2> QED BY <2>3, RevokeKeeps
<1>5. ASSUME NEW s \in Servers, NEW t \in Tokens, Forget(s, t) PROVE SessionsInv'
  BY <1>5, ForgetKeeps
<1>6. ASSUME NEW s \in Servers, NEW u \in Users, RevokeAllForUser(s, u) PROVE SessionsInv'
  <2>1. PICK ts \in SUBSET Tokens :
           ts = {t \in Tokens : session[t] # None /\ session[t].user = u /\ ~session[t].revoked}
    OBVIOUS
  <2>2. RevokeRows(s, ts) /\ \A t \in ts : session[t] # None
    BY <1>6, <2>1 DEF RevokeAllForUser
  <2> QED BY <2>2, RevokeKeeps
<1>7. ASSUME NEW s \in Servers, Restart(s) PROVE SessionsInv'
  BY <1>7, RestartKeeps
<1>8. ASSUME NEW t \in Tokens,
             TouchSession(t) \/ SessionExpires(t) \/ \E u \in Users : LoginSession(t, u) \/ SelectSellerHandler(t, u)
      PROVE  SessionsInv'
  <2>1. TouchSession(t) \/ SessionExpires(t) \/ \E u \in Users, b \in BOOLEAN : IssueCredentials(t, u, b)
    BY <1>8 DEF LoginSession, SelectSellerHandler
  <2> QED BY <2>1, TableKeeps
<1>9. CASE Tick
  BY <1>9, TickKeeps
<1>10. CASE UNCHANGED sessionVars
  <2>1. UNCHANGED <<session, locked, member, cache, request, revoking, touching>>
    BY <1>10 DEF sessionVars
  <2>2. SessionsTyped'
    BY <1>1, <2>1 DEF SessionsTyped
  <2> QED BY <2>1, <2>2, SameRowsKeep
<1> QED BY <1>2, <1>3, <1>4, <1>5, <1>6, <1>7, <1>8, <1>9, <1>10, IdentityKeeps DEF SessionsNext

(* Whatever the clients, the servers, the administrators and the clock do, the
   caches and the tables have their types: no server's LRU cache outgrows its
   capacity or holds two entries of one token (cache.go).                  *)
THEOREM SessionsTypes == SessionsSpec => []SessionsTypeOK
<1>1. SessionsInv => SessionsTypeOK
  <2> SUFFICES ASSUME SessionsInv PROVE SessionsTypeOK
    OBVIOUS
  <2>1. SessionsTyped /\ \A s \in Servers : Tidy(cache[s])
    BY DEF SessionsInv, CachesTidy
  <2>2. ASSUME NEW s \in Servers
        PROVE  /\ Len(cache[s]) <= Cap
               /\ \A i \in 1..Len(cache[s]) :
                     /\ cache[s][i] \in Entry
                     /\ \A j \in 1..Len(cache[s]) : cache[s][i].token = cache[s][j].token => i = j
    <3>1. PICK q : q = cache[s]
      OBVIOUS
    <3>2. Tidy(q)
      BY <2>1, <3>1
    <3>3. Len(q) <= Cap /\ \A i, j \in 1..Len(q) : q[i].token = q[j].token => i = j
      BY <3>2 DEF Tidy
    <3>4. \A i \in 1..Len(q) : q[i] \in Entry
      BY <3>2, TidyToken
    <3> QED BY <3>1, <3>3, <3>4
  <2> QED BY <2>1, <2>2 DEF SessionsTypeOK, SessionsTyped
<1> QED BY <1>1, InitSessionsInv, NextSessionsInv, PTL DEF SessionsSpec
=============================================================================
