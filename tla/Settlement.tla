----------------------------- MODULE Settlement -----------------------------
(***************************************************************************)
(* The services that move wallet money after delivery, on top of Wallet:   *)
(* COD remittance (backend/internal/cod), weight reconciliation            *)
(* (backend/internal/recon) and manual adjustments (backend/internal/      *)
(* admin).  Remit and Post each are three separate transactions: read the  *)
(* row, call the wallet, mark the row.  Workers run them concurrently, and *)
(* a worker may die or lose its database between any two.                  *)
(*                                                                         *)
(* The wallet's refs are the ones these services build, so that its        *)
(* idempotency index is the one they rely on.                              *)
(***************************************************************************)
EXTENDS Wallet

CONSTANTS
    Parcels,        \* COD shipments
    Discrepancies,  \* weight_discrepancy ids
    Operators,      \* users who make manual adjustments
    Workers,        \* concurrent callers of Remit and Post
    MaxFaults,      \* bound: workers that die
    MaxManual       \* bound: manual adjustments of one kind, operator and amount

VARIABLES
    cod,     \* cod_shipment rows
    wd,      \* weight_discrepancy rows
    call,    \* what each worker is doing
    moved,   \* history: wallet calls that succeeded, per cause
    faults   \* workers that died

settlementVars == <<vars, cod, wd, call, moved, faults>>

RemitRef(p) == [type |-> "cod_remittance", id |-> p]
PostRef(d) == [type |-> "weight_recon", id |-> d]

(* One ref for all adjustments of an operator. *)
ManualRefBug(kind, by, amount) == [type |-> kind, id |-> <<by, 1>>]

(* by.String() + "_" + amount: neither the seller nor the reason is in it. *)
ManualRef(kind, by, amount) == [type |-> kind, id |-> <<by, amount>>]

ManualKinds == {"ops_manual_credit", "ops_manual_debit"}

SettlementRefs ==
    {RemitRef(p) : p \in Parcels} \cup {PostRef(d) : d \in Discrepancies}
        \cup {ManualRef(k, o, a) : k \in ManualKinds, o \in Operators, a \in Amounts}

ASSUME RefsAssumption == Refs = SettlementRefs

CodRow == [state : {"none"}]
    \cup [state : {"pending"}, seller : Sellers]
    \cup [state : {"collected", "remitted"}, seller : Sellers, reported : Amounts]

DiscrepancyRow == [state : {"none"}]
    \cup [state : {"raised", "disputed", "approved", "rejected", "posted"},
          seller : Sellers \cup {Null}, delta : Amounts, windowOpen : BOOLEAN]

Idle == [step |-> "idle"]
Step == {"read", "moved"}
Call == [step : {"idle"}]
    \cup [step : Step, op : {"Remit"}, row : Parcels, seller : Sellers, amount : Amounts]
    \cup [step : Step, op : {"Post"}, row : Discrepancies, seller : Sellers \cup {Null},
          amount : Amounts]

Manual == ManualKinds \X Operators \X Amounts

(* What money moves for.  Each is something of its own. *)
Causes == Parcels \cup Discrepancies \cup Manual

ASSUME SettlementAssumption ==
    /\ MaxFaults \in Nat
    /\ MaxManual \in Nat
    /\ IsFiniteSet(Workers)
    /\ Parcels \cap Discrepancies = {}
    /\ Manual \cap (Parcels \cup Discrepancies) = {}

SettlementInit ==
    /\ Init
    /\ cod = [p \in Parcels |-> [state |-> "none"]]
    /\ wd = [d \in Discrepancies |-> [state |-> "none"]]
    /\ call = [w \in Workers |-> Idle]
    /\ moved = [c \in Causes |-> 0]
    /\ faults = 0

-----------------------------------------------------------------------------
(* cod.go *)

(* The expected amount is left out: Remit never reads it (see there). *)
NewCod(s) == [state |-> "pending", seller |-> s]

(* ON CONFLICT DO NOTHING *)
Register(s, p) ==
    /\ cod[p].state = "none"
    /\ cod' = [cod EXCEPT ![p] = NewCod(s)]
    /\ UNCHANGED <<vars, wd, call, moved, faults>>

(* AND state='pending' dropped: a late report overwrites the amount. *)
CollectableBug(p) == cod[p].state # "none"

Collectable(p) == cod[p].state = "pending"

MarkCollected(p, a) ==
    /\ Collectable(p)
    /\ cod' = [cod EXCEPT ![p] = [state |-> "collected", seller |-> @.seller,
                                  reported |-> a]]
    /\ UNCHANGED <<vars, wd, call, moved, faults>>

(* A parcel already remitted is paid out again. *)
RemittableBug(p) == cod[p].state \in {"collected", "remitted"}

Remittable(p) == cod[p].state = "collected"

(* Get and the state check.  A collected row always has a reported amount,
   so the expected one is never paid out.                                  *)
Remit(w, p) ==
    /\ call[w] = Idle
    /\ Remittable(p)
    /\ call' = [call EXCEPT ![w] = [step |-> "read", op |-> "Remit", row |-> p,
                                    seller |-> cod[p].seller, amount |-> cod[p].reported]]
    /\ UNCHANGED <<vars, cod, wd, moved, faults>>

RemitCredits(w) ==
    LET c == call[w] IN
    /\ c.step = "read"
    /\ c.op = "Remit"
    /\ Credit(c.seller, c.amount, RemitRef(c.row))
    /\ call' = [call EXCEPT ![w].step = "moved"]
    /\ moved' = [moved EXCEPT ![c.row] = @ + 1]
    /\ UNCHANGED <<cod, wd, faults>>

(* The UPDATE does not look at the state it replaces. *)
MarkRemitted(w) ==
    /\ call[w].step = "moved"
    /\ call[w].op = "Remit"
    /\ cod' = [cod EXCEPT ![call[w].row].state = "remitted"]
    /\ call' = [call EXCEPT ![w] = Idle]
    /\ UNCHANGED <<vars, wd, moved, faults>>

-----------------------------------------------------------------------------
(* recon.go *)

(* seller_id may be NULL, when the waybill matched no shipment. *)
RaiseDiscrepancy(d, s, delta) ==
    /\ wd[d].state = "none"
    /\ wd' = [wd EXCEPT ![d] = [state |-> "raised", seller |-> s, delta |-> delta,
                                windowOpen |-> TRUE]]
    /\ UNCHANGED <<vars, cod, call, moved, faults>>

SetDiscrepancy(d, froms, to) ==
    /\ wd[d].state \in froms
    /\ wd' = [wd EXCEPT ![d].state = to]
    /\ UNCHANGED <<vars, cod, call, moved, faults>>

(* WHERE seller_id = $3: nobody disputes a row without a seller. *)
Dispute(d) ==
    /\ SetDiscrepancy(d, {"raised"}, "disputed")
    /\ wd[d].windowOpen
    /\ wd[d].seller # Null

Approve(d) == SetDiscrepancy(d, {"disputed"}, "approved")

Reject(d) == SetDiscrepancy(d, {"disputed"}, "rejected")

(* Time passes dispute_window_until. *)
WindowCloses(d) ==
    /\ wd[d].state = "raised"
    /\ wd[d].windowOpen
    /\ wd' = [wd EXCEPT ![d].windowOpen = FALSE]
    /\ UNCHANGED <<vars, cod, call, moved, faults>>

(* Post does not wait for the window. *)
Post(w, d) ==
    /\ call[w] = Idle
    /\ wd[d].state \in {"raised", "approved"}
    /\ call' = [call EXCEPT ![w] = [step |-> "read", op |-> "Post", row |-> d,
                                    seller |-> wd[d].seller, amount |-> wd[d].delta]]
    /\ UNCHANGED <<vars, cod, wd, moved, faults>>

Chargeable(seller, delta) == seller # Null /\ delta > 0

PostDebits(w) ==
    LET c == call[w] IN
    /\ c.step = "read"
    /\ c.op = "Post"
    /\ IF Chargeable(c.seller, c.amount)
       THEN /\ Debit(c.seller, c.amount, PostRef(c.row))
            /\ moved' = [moved EXCEPT ![c.row] = @ + 1]
       ELSE UNCHANGED <<vars, moved>>
    /\ call' = [call EXCEPT ![w].step = "moved"]
    /\ UNCHANGED <<cod, wd, faults>>

MarkPosted(w) ==
    /\ call[w].step = "moved"
    /\ call[w].op = "Post"
    /\ wd' = [wd EXCEPT ![call[w].row].state = "posted"]
    /\ call' = [call EXCEPT ![w] = Idle]
    /\ UNCHANGED <<vars, cod, moved, faults>>

-----------------------------------------------------------------------------
(* admin.go *)

ManualCredit(s, by, amount) ==
    /\ Credit(s, amount, ManualRef("ops_manual_credit", by, amount))
    /\ moved' = [moved EXCEPT ![<<"ops_manual_credit", by, amount>>] = @ + 1]
    /\ UNCHANGED <<cod, wd, call, faults>>

ManualDebit(s, by, amount) ==
    /\ Debit(s, amount, ManualRef("ops_manual_debit", by, amount))
    /\ moved' = [moved EXCEPT ![<<"ops_manual_debit", by, amount>>] = @ + 1]
    /\ UNCHANGED <<cod, wd, call, faults>>

-----------------------------------------------------------------------------
(* The wallet refuses, or its database fails before the commit. *)
WalletRefuses(w) ==
    /\ call[w].step = "read"
    /\ call' = [call EXCEPT ![w] = Idle]
    /\ UNCHANGED <<vars, cod, wd, moved, faults>>

(* The money has moved and the row is never marked: the UPDATE fails, or the
   process dies.                                                           *)
WorkerDies(w) ==
    /\ call[w].step = "moved"
    /\ faults < MaxFaults
    /\ faults' = faults + 1
    /\ call' = [call EXCEPT ![w] = Idle]
    /\ UNCHANGED <<vars, cod, wd, moved>>

CodNext ==
    \/ \E p \in Parcels, s \in Sellers : Register(s, p)
    \/ \E p \in Parcels, a \in Amounts : MarkCollected(p, a)
    \/ \E w \in Workers :
          \/ \E p \in Parcels : Remit(w, p)
          \/ RemitCredits(w)
          \/ MarkRemitted(w)

ReconNext ==
    \/ \E d \in Discrepancies :
          \/ \E s \in Sellers \cup {Null}, a \in Amounts : RaiseDiscrepancy(d, s, a)
          \/ Dispute(d) \/ Approve(d) \/ Reject(d) \/ WindowCloses(d)
    \/ \E w \in Workers :
          \/ \E d \in Discrepancies : Post(w, d)
          \/ PostDebits(w)
          \/ MarkPosted(w)

ManualNext ==
    \E s \in Sellers, by \in Operators, a \in Amounts :
        \/ /\ moved[<<"ops_manual_credit", by, a>>] < MaxManual
           /\ ManualCredit(s, by, a)
        \/ /\ moved[<<"ops_manual_debit", by, a>>] < MaxManual
           /\ ManualDebit(s, by, a)

SettlementNext ==
    \/ \E s \in Sellers : EnsureAccount(s) /\ UNCHANGED <<cod, wd, call, moved, faults>>
    \/ CodNext
    \/ ReconNext
    \/ ManualNext
    \/ \E w \in Workers : WalletRefuses(w) \/ WorkerDies(w)

SettlementSpec == SettlementInit /\ [][SettlementNext]_settlementVars

-----------------------------------------------------------------------------
SettlementTypeOK ==
    /\ TypeOK
    /\ cod \in [Parcels -> CodRow]
    /\ wd \in [Discrepancies -> DiscrepancyRow]
    /\ call \in [Workers -> Call]
    /\ moved \in [Causes -> Nat]
    /\ faults \in 0..MaxFaults

(* What the seller is shown as settled is in the ledger: a remitted parcel
   has a credit of its seller and of the amount the carrier reported, a
   posted discrepancy has its debit, however calls race or fail.           *)
SettledHasEntry ==
    /\ \A p \in Parcels : cod[p].state = "remitted" =>
          [seller |-> cod[p].seller, ref |-> RemitRef(p), dir |-> "credit",
           amount |-> cod[p].reported] \in ledger
    /\ \A d \in Discrepancies :
          wd[d].state = "posted" /\ Chargeable(wd[d].seller, wd[d].delta) =>
              [seller |-> wd[d].seller, ref |-> PostRef(d), dir |-> "debit",
               amount |-> wd[d].delta] \in ledger

(* A parcel is paid out, a discrepancy charged, at most once per worker that
   was in the middle of it and per worker that died there: once the row is
   marked nobody starts again.                                             *)
RepeatsBounded ==
    \A c \in Parcels \cup Discrepancies :
        moved[c] <= Cardinality(Workers) + faults

(* The cached balances leave the ledger only when a remittance or a charge
   was repeated, or an operator used the same amount twice: no two causes
   share a ref by accident.                                                *)
BooksBalanceUnlessRepeated ==
    (\A c \in DOMAIN moved : moved[c] <= 1) =>
        \A s \in Sellers : balance[s] = Credits(s) - Debits(s)
=============================================================================
