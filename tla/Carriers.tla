------------------------------ MODULE Carriers ------------------------------
(***************************************************************************)
(* One carrier behind its circuit breaker (backend/internal/carriers:      *)
(* breaker.go, and the Book and Cancel of the delhivery and sandbox        *)
(* adapters).  Allow and Record... run under the breaker's mutex and are   *)
(* single steps; the call to the carrier lies between them, so callers     *)
(* interleave there and an answer can arrive in another state of the       *)
(* breaker than the one that let the call through.                         *)
(***************************************************************************)
EXTENDS Naturals, FiniteSets

CONSTANTS
    Callers,         \* goroutines that can be in a carrier call together
    Threshold,       \* failures that trip the breaker
    HalfOpenProbe    \* probes let through, and successes asked for, in half-open

ASSUME CallersAssumption == Callers # {} /\ IsFiniteSet(Callers)
ASSUME BreakerAssumption == Threshold \in Nat \ {0} /\ HalfOpenProbe \in Nat \ {0}

VARIABLES
    state,       \* Breaker.state
    failures,    \* Breaker.failures; beyond Threshold the value decides nothing
    successes,   \* Breaker.successes
    inFlight,    \* Breaker.inFlight
    cooled,      \* more than resetTimeout since lastTrip
    call,        \* the callers' calls
    healthy,     \* the carrier answers
    leaked       \* history: probes of this half-open period that recorded nothing

breaker == <<state, failures, successes, inFlight, cooled>>
carrierVars == <<breaker, call, healthy, leaked>>

BreakerState == {"closed", "open", "half_open"}

(* probe: admitted in half-open, and that period is not over. *)
NoCall == [op |-> "none", probe |-> FALSE]
Call == [op : {"book", "cancel"}, probe : BOOLEAN]

Probes == {c \in Callers : call[c].probe}

CarriersInit ==
    /\ state = "closed"
    /\ failures = 0
    /\ successes = 0
    /\ inFlight = 0
    /\ cooled = FALSE
    /\ call = [c \in Callers |-> NoCall]
    /\ healthy \in BOOLEAN
    /\ leaked = 0

(* Ends the half-open period: nobody's slot counts any more. *)
Disowned == [c \in Callers |-> [op |-> call[c].op, probe |-> FALSE]]

-----------------------------------------------------------------------------
(* Allow, in each of the breaker's states. *)

AllowClosed(c, op) ==
    /\ state = "closed"
    /\ call' = [call EXCEPT ![c] = [op |-> op, probe |-> FALSE]]
    /\ UNCHANGED <<breaker, leaked>>

AllowOpen(c, op) ==
    /\ state = "open"
    /\ cooled
    /\ state' = "half_open"
    /\ successes' = 0
    /\ inFlight' = 1
    /\ call' = [call EXCEPT ![c] = [op |-> op, probe |-> TRUE]]
    /\ leaked' = 0
    /\ UNCHANGED <<failures, cooled>>

AllowHalfOpen(c, op) ==
    /\ state = "half_open"
    /\ inFlight < HalfOpenProbe
    /\ inFlight' = inFlight + 1
    /\ call' = [call EXCEPT ![c] = [op |-> op, probe |-> TRUE]]
    /\ UNCHANGED <<state, failures, successes, cooled, leaked>>

(* Book and Cancel of the wrapper; a refused call changes nothing. *)
Begin(c, op) ==
    /\ call[c] = NoCall
    /\ AllowClosed(c, op) \/ AllowOpen(c, op) \/ AllowHalfOpen(c, op)
    /\ UNCHANGED healthy

-----------------------------------------------------------------------------
(* What the adapters make of the carrier's answer. *)
Answers == {"ok", "refused", "no_auth", "server_error", "garbled", "none"}

(* delhivery: every answer to a cancel, of whatever status, is a success. *)
ErrClass(op, answer) ==
    CASE answer = "ok" -> "success"
      [] answer = "none" -> "transient"
      [] op = "cancel" -> "success"
      [] answer \in {"server_error", "garbled"} -> "transient"
      [] answer = "no_auth" -> "auth"
      [] answer = "refused" -> "permanent"

(* sandbox: an unknown waybill refuses the cancel, SimulateFailure the Book. *)
SandboxErrClass(op, answer) ==
    CASE answer = "ok" -> "success"
      [] op = "cancel" -> "permanent"
      [] op = "book" -> "transient"

Outcomes(op) ==
    LET answers == IF healthy THEN {"ok", "refused", "no_auth"} ELSE Answers \ {"ok"}
    IN  {ErrClass(op, a) : a \in answers} \cup
        {SandboxErrClass(op, a) : a \in IF healthy THEN {"ok"} ELSE {"refused"}}

(* The decrement is missing. *)
FreedBug(n) == n

(* inFlight after an answer in half-open, whoever's answer it is. *)
Freed(n) == IF n > 0 THEN n - 1 ELSE 0

(* The increment is missing. *)
CountedBug(n) == n

Counted(n) == n + 1

Saturated(n) == IF n > Threshold THEN Threshold ELSE n

RecordSuccess(c) ==
    /\ failures' = 0
    /\ IF state # "half_open"
       THEN /\ call' = [call EXCEPT ![c] = NoCall]
            /\ UNCHANGED <<state, successes, inFlight, cooled, leaked>>
       ELSE LET closes == Counted(successes) >= HalfOpenProbe IN
            /\ state' = IF closes THEN "closed" ELSE state
            /\ inFlight' = IF closes THEN 0 ELSE Freed(inFlight)
            /\ successes' = Counted(successes)
            /\ leaked' = IF closes THEN 0 ELSE leaked
            /\ call' = [(IF closes THEN Disowned ELSE call) EXCEPT ![c] = NoCall]
            /\ UNCHANGED cooled

(* Does not go by the state: a late failure keeps an open breaker open. *)
RecordFailure(c) ==
    LET trips == failures + 1 >= Threshold IN
    /\ failures' = Saturated(failures + 1)
    /\ state' = IF trips THEN "open" ELSE state
    /\ cooled' = IF trips THEN FALSE ELSE cooled
    /\ inFlight' = CASE trips -> 0
                     [] ~trips /\ state = "half_open" -> Freed(inFlight)
                     [] ~trips /\ state # "half_open" -> inFlight
    /\ leaked' = IF trips THEN 0 ELSE leaked
    /\ call' = [(IF trips THEN Disowned ELSE call) EXCEPT ![c] = NoCall]
    /\ UNCHANGED successes

(* Permanent and auth errors record nothing, and keep their slot. *)
RecordNothing(c) ==
    /\ leaked' = IF call[c].probe THEN leaked + 1 ELSE leaked
    /\ call' = [call EXCEPT ![c] = NoCall]
    /\ UNCHANGED breaker

(* The rest of Book and Cancel: the adapter's call returns. *)
Finish(c) ==
    /\ call[c] # NoCall
    /\ \E class \in Outcomes(call[c].op) :
          CASE class = "success"   -> RecordSuccess(c)
            [] class = "transient" -> RecordFailure(c)
            [] OTHER               -> RecordNothing(c)
    /\ UNCHANGED healthy

-----------------------------------------------------------------------------
(* resetTimeout passes. *)
Cool ==
    /\ state = "open"
    /\ ~cooled
    /\ cooled' = TRUE
    /\ UNCHANGED <<state, failures, successes, inFlight, call, healthy, leaked>>

CarrierTurns ==
    /\ healthy' = ~healthy
    /\ UNCHANGED <<breaker, call, leaked>>

CarriersNext ==
    \/ \E c \in Callers :
          \/ \E op \in {"book", "cancel"} : Begin(c, op)
          \/ Finish(c)
    \/ Cool
    \/ CarrierTurns

CarriersSpec == CarriersInit /\ [][CarriersNext]_carrierVars

(* Time passes, the adapter's HTTP client gives up after its timeout, and
   there is always a next order to book.                                    *)
FairCarriersSpec ==
    /\ CarriersSpec
    /\ WF_carrierVars(Cool)
    /\ \A c \in Callers :
          /\ WF_carrierVars(Finish(c))
          /\ WF_carrierVars(\E op \in {"book", "cancel"} : Begin(c, op))

-----------------------------------------------------------------------------
(* Types; outside half-open no slot is counted.  inFlight stays a count of
   slots although answers of calls from before half-open decrement it.      *)
CarriersTypeOK ==
    /\ state \in BreakerState
    /\ failures \in 0..Threshold
    /\ successes \in 0..HalfOpenProbe
    /\ inFlight \in 0..HalfOpenProbe
    /\ cooled \in BOOLEAN /\ healthy \in BOOLEAN
    /\ call \in [Callers -> Call \cup {NoCall}]
    /\ leaked \in Nat
    /\ state # "half_open" => inFlight = 0 /\ leaked = 0 /\ Probes = {}

(* In half-open every slot counted in inFlight belongs to a probe that is
   still out or to one that ended without recording (breaker.go line 126):
   late answers of calls let through earlier can free a slot too many, never
   one too few, so without permanent errors the breaker cannot jam.         *)
ProbeSlotsAccounted ==
    state = "half_open" => inFlight <= Cardinality(Probes) + leaked

(* A carrier that has come back for good gets its traffic back: the breaker
   keeps closing, unless permanent errors took all its probe slots.         *)
BreakerRecovers ==
    []<>(~healthy \/ state = "closed" \/ leaked >= HalfOpenProbe)
=============================================================================
