------------------------------- MODULE Wallet -------------------------------
(***************************************************************************)
(* The seller wallet (backend/internal/wallet): a cached balance, an       *)
(* append-only ledger and time-bounded holds (Reserve, then Confirm or     *)
(* Release).  Every operation of the service is one database transaction   *)
(* (dbtx.WithSellerTx) and is one action here; a call that returns an      *)
(* error rolls back and is a stuttering step.  WalletTx opens these        *)
(* transactions up into statements and row locks and shows that they do    *)
(* behave as the actions of this module.                                   *)
(*                                                                         *)
(* The tables are sets of rows.  A unique index is not a property of the   *)
(* set: it is what the ON CONFLICT clauses of repo.go maintain.            *)
(***************************************************************************)
EXTENDS Integers, FiniteSets

CONSTANTS
    Sellers,      \* tenants; RLS confines every statement to one of them
    Refs,         \* wallet.Ref values: (ref_type, ref_id)
    HoldIDs,      \* uuid.New() values that Reserve can draw
    Null,         \* NULL, in resolved_to_ledger_entry_id
    Amounts,      \* amounts callers pass
    CreditLimit,  \* credit_limit_minor, no code changes it
    GraceAmount,  \* grace_negative_amount_minor, no code changes it
    MaxMinor      \* largest value of the BIGINT columns

ASSUME LimitsAssumption ==
    /\ CreditLimit \in Nat
    /\ GraceAmount \in Nat
    /\ MaxMinor \in Nat
    /\ CreditLimit + GraceAmount <= MaxMinor
ASSUME AmountsAssumption == Amounts \subseteq 0..MaxMinor
ASSUME NullAssumption == Null \notin Refs

VARIABLES
    accounts,   \* sellers with a wallet_account row
    balance,    \* balance_minor of each seller's row
    holdTotal,  \* hold_total_minor of each seller's row
    status,     \* status of each seller's row
    ledger,     \* wallet_ledger_entry rows
    holds,      \* wallet_hold rows
    issued      \* hold ids already drawn

vars == <<accounts, balance, holdTotal, status, ledger, holds, issued>>

Directions == {"credit", "debit"}
(* "frozen" stands for every status but 'active': no code tells 'frozen' and
   'wound_down' apart.                                                      *)
AccountStatus == {"active", "frozen"}
HoldStatus == {"active", "confirmed", "released", "expired"}

Entry == [seller : Sellers, ref : Refs, dir : Directions, amount : 0..MaxMinor]

Hold == [id : HoldIDs, seller : Sellers, ref : Refs, amount : 0..MaxMinor,
         status : HoldStatus, entry : Refs \cup {Null}]

Minor == (-MaxMinor)..MaxMinor

(* The sum of the amounts of a set of rows, counted paisa by paisa: each row
   owns as many of the pairs <<row, i>> as its amount says.                *)
Paise(rows) == {p \in rows \X (1..MaxMinor) : p[2] <= p[1].amount}
Total(rows) == Cardinality(Paise(rows))

Entries(L, s, dir) == {e \in L : e.seller = s /\ e.dir = dir}
HoldsIn(H, s, st) == {h \in H : h.seller = s /\ h.status = st}

Credits(s) == Total(Entries(ledger, s, "credit"))
Debits(s) == Total(Entries(ledger, s, "debit"))
Held(s) == Total(HoldsIn(holds, s, "active"))
Charged(s) == Total(HoldsIn(holds, s, "confirmed"))

Posted(ref, dir) == \E e \in ledger : e.ref = ref /\ e.dir = dir

Init ==
    /\ accounts = {}
    /\ balance = [s \in Sellers |-> 0]
    /\ holdTotal = [s \in Sellers |-> 0]
    /\ status = [s \in Sellers |-> "active"]
    /\ ledger = {}
    /\ holds = {}
    /\ issued = {}

-----------------------------------------------------------------------------
(* repo.go.  Operators named ...Bug are the mutants of PROJECT.json: no
   action uses them.                                                       *)

(* available := a.balance + a.creditLimit - a.holdTotal *)
Available(s) == balance[s] + CreditLimit - holdTotal[s]

AppendLedgerEntry(s, dir, amount, ref) ==
    ledger \cup {[seller |-> s, ref |-> ref, dir |-> dir, amount |-> amount]}

(* INSERT ... ON CONFLICT (ref_type, ref_id, direction) DO NOTHING.  The
   index spans all sellers.                                                *)
InsertLedgerEntry(s, dir, amount, ref) ==
    IF Posted(ref, dir)
    THEN ledger
    ELSE AppendLedgerEntry(s, dir, amount, ref)

UpdateBalance(s, delta) == [balance EXCEPT ![s] = @ + delta]
UpdateHoldTotal(s, delta) == [holdTotal EXCEPT ![s] = @ + delta]

(* A resolved row revived, but with the amount of its first life. *)
TakeOverBug(h, id) == [h EXCEPT !.id = id, !.status = "active"]

(* DO UPDATE SET id: the row keeps everything else, its status included. *)
TakeOver(h, id) == [h EXCEPT !.id = id]

(* INSERT ... ON CONFLICT (ref_type, ref_id) DO UPDATE SET id = ...: a row
   that is already there keeps its id only while it is active.             *)
InsertOrGetHold(s, id, amount, ref) ==
    IF \E h \in holds : h.ref = ref
    THEN {IF h.ref = ref /\ h.status # "active" THEN TakeOver(h, id) ELSE h :
            h \in holds}
    ELSE holds \cup {[id |-> id, seller |-> s, ref |-> ref, amount |-> amount,
                      status |-> "active", entry |-> Null]}

ResolveHold(h, st, entry) ==
    (holds \ {h}) \cup {[h EXCEPT !.status = st, !.entry = entry]}

-----------------------------------------------------------------------------
(* service_impl.go *)

EnsureAccount(s) ==
    /\ s \notin accounts
    /\ accounts' = accounts \cup {s}
    /\ UNCHANGED <<balance, holdTotal, status, ledger, holds, issued>>

(* A repeated call skips the entry and still moves the balance, here and in
   Debit.                                                                  *)
Credit(s, amount, ref) ==
    /\ s \in accounts
    /\ amount > 0
    /\ balance[s] + amount <= MaxMinor
    /\ ledger' = InsertLedgerEntry(s, "credit", amount, ref)
    /\ balance' = UpdateBalance(s, amount)
    /\ UNCHANGED <<accounts, holdTotal, status, holds, issued>>

(* floor := -(a.graceAmount + a.creditLimit) *)
Floor == -(GraceAmount + CreditLimit)

(* The floor compared with the balance before the debit. *)
WithinGraceBug(s, amount) == balance[s] >= Floor

WithinGrace(s, amount) == balance[s] - amount >= Floor

Debit(s, amount, ref) ==
    /\ s \in accounts
    /\ amount > 0
    /\ WithinGrace(s, amount)
    /\ balance[s] - amount >= -MaxMinor
    /\ ledger' = InsertLedgerEntry(s, "debit", amount, ref)
    /\ balance' = UpdateBalance(s, -amount)
    /\ UNCHANGED <<accounts, holdTotal, status, holds, issued>>

(* Row-level security rejects the conflict with another seller's row; an
   active row of the seller's own is handed back unchanged (a stuttering
   step); a resolved row is taken over.                                    *)
MayReserve(s, ref) ==
    \A h \in holds : h.ref = ref =>
        /\ h.seller = s
        /\ h.status # "active"

Reserve(s, amount, ref) ==
    /\ s \in accounts
    /\ status[s] = "active"
    /\ amount > 0
    /\ amount <= Available(s)
    /\ holdTotal[s] + amount <= MaxMinor
    /\ MayReserve(s, ref)
    /\ \E id \in HoldIDs \ issued :
          /\ holds' = InsertOrGetHold(s, id, amount, ref)
          /\ issued' = issued \cup {id}
    /\ holdTotal' = UpdateHoldTotal(s, amount)
    /\ UNCHANGED <<accounts, balance, status, ledger>>

(* A released hold can still be confirmed. *)
ConfirmableBug(h) == h.status \in {"active", "released"}

Confirmable(h) == h.status = "active"

(* The new entry's id is written whether or not the insert was skipped. *)
EntryExistsBug(ref) == TRUE

(* The foreign key resolved_to_ledger_entry_id rejects the id of an entry
   that ON CONFLICT DO NOTHING did not insert.                             *)
EntryExists(ref) == ~Posted(ref, "debit")

Confirm(s, h, ref) ==
    /\ h.seller = s
    /\ Confirmable(h)
    /\ EntryExists(ref)
    /\ balance[s] - h.amount >= -MaxMinor
    /\ ledger' = InsertLedgerEntry(s, "debit", h.amount, ref)
    /\ holds' = ResolveHold(h, "confirmed", ref)
    /\ balance' = UpdateBalance(s, -h.amount)
    /\ holdTotal' = UpdateHoldTotal(s, -h.amount)
    /\ UNCHANGED <<accounts, status, issued>>

Release(s, h) ==
    /\ h.seller = s
    /\ h.status = "active"
    /\ holds' = ResolveHold(h, "released", Null)
    /\ holdTotal' = UpdateHoldTotal(s, -h.amount)
    /\ UNCHANGED <<accounts, balance, status, ledger, issued>>

(* No code writes wallet_account.status; operators do, in SQL. *)
SetStatus(s, st) ==
    /\ s \in accounts
    /\ status[s] # st
    /\ status' = [status EXCEPT ![s] = st]
    /\ UNCHANGED <<accounts, balance, holdTotal, ledger, holds, issued>>

Next ==
    \E s \in Sellers :
        \/ EnsureAccount(s)
        \/ \E amount \in Amounts, ref \in Refs :
              \/ Credit(s, amount, ref)
              \/ Debit(s, amount, ref)
              \/ Reserve(s, amount, ref)
        \/ \E h \in holds :
              \/ \E ref \in Refs : Confirm(s, h, ref)
              \/ Release(s, h)
        \/ \E st \in AccountStatus : SetStatus(s, st)

Spec == Init /\ [][Next]_vars

-----------------------------------------------------------------------------
(* Types, and the unique indexes the ON CONFLICT clauses must maintain:
   wallet_ledger_idempotency, wallet_hold_idempotency and wallet_hold's
   primary key.                                                            *)
TypeOK ==
    /\ accounts \subseteq Sellers
    /\ balance \in [Sellers -> Minor]
    /\ holdTotal \in [Sellers -> 0..MaxMinor]
    /\ status \in [Sellers -> AccountStatus]
    /\ ledger \subseteq Entry
    /\ holds \subseteq Hold
    /\ issued \subseteq HoldIDs
    /\ \A e, f \in ledger : e.ref = f.ref /\ e.dir = f.dir => e = f
    /\ \A h, g \in holds : h.ref = g.ref \/ h.id = g.id => h = g

(* hold_total_minor never falls short of the active holds, whatever is
   retried: money promised to one booking is never available to another.   *)
HoldsBacked ==
    \A s \in Sellers : holdTotal[s] >= Held(s)

(* A confirmed hold was charged exactly once: it points at a debit of its
   own seller and amount, and no two holds share that debit, even when
   callers Confirm two holds with one ref.                                  *)
ConfirmedHoldsCharged ==
    \A h \in holds : h.status = "confirmed" =>
        /\ \E e \in ledger : /\ e.dir = "debit"
                             /\ e.ref = h.entry
                             /\ e.seller = h.seller
                             /\ e.amount = h.amount
        /\ \A g \in holds : g.status = "confirmed" /\ g.entry = h.entry => g = h

(* Debit's grace check and Confirm, which has none, together: an overdraft
   goes past the grace floor by at most what confirmed holds have taken.    *)
OverdraftBounded ==
    \A s \in Sellers : balance[s] + Charged(s) >= Floor

ResolutionKept ==
    \A h \in holds : h.status # "active" =>
        \E g \in holds' : g.ref = h.ref /\ g.status = h.status /\ g.entry = h.entry

(* A resolved hold stays resolved the way it was: neither a late Confirm or
   Release nor a new Reserve of the same ref changes its fate.              *)
ResolvedOnce == [][ResolutionKept]_vars

(* docs/TRD/LLD/03-services/05-wallet.md line 10: "Daily invariant:
   SUM(ledger) == cached_balance per wallet", for every seller.  A call
   repeated under its ref breaks it.                                        *)
LedgerMatchesBalance ==
    \A s \in Sellers :
        balance[s] = Credits(s) - Debits(s)
=============================================================================
