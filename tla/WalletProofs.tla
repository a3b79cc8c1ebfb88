---------------------------- MODULE WalletProofs ----------------------------
(***************************************************************************)
(* Proofs about Wallet for every set of sellers, refs, hold ids and        *)
(* amounts.  The inductive invariant is IInv below.                        *)
(***************************************************************************)
EXTENDS Wallet, FiniteSetTheorems, TLAPS

USE LimitsAssumption, AmountsAssumption, NullAssumption

-----------------------------------------------------------------------------
(* Rows with an amount that fits the column. *)
RowSet(rows) == IsFiniteSet(rows) /\ \A r \in rows : r.amount \in 0..MaxMinor

(* Total of a finite set of rows is a natural number. *)
LEMMA TotalType ==
    ASSUME NEW rows, RowSet(rows)
    PROVE  /\ IsFiniteSet(Paise(rows))
           /\ Total(rows) \in Nat
<1>1. IsFiniteSet(1..MaxMinor)
  BY FS_Interval
<1>2. IsFiniteSet(rows \X (1..MaxMinor))
  BY <1>1, FS_Product DEF RowSet
<1>3. Paise(rows) \in SUBSET (rows \X (1..MaxMinor))
  BY DEF Paise
<1>4. IsFiniteSet(Paise(rows))
  BY <1>2, <1>3, FS_Subset
<1> QED
  BY <1>4, FS_CardinalityType DEF Total

(* Adding a row adds its amount. *)
LEMMA TotalAdd ==
    ASSUME NEW rows, RowSet(rows), NEW x, x \notin rows, x.amount \in 0..MaxMinor
    PROVE  Total(rows \cup {x}) = Total(rows) + x.amount
<1> DEFINE own == {x} \X (1..x.amount)
<1>0. PICK a \in 0..MaxMinor : a = x.amount
  OBVIOUS
<1>1. IsFiniteSet({x}) /\ Cardinality({x}) = 1
  BY FS_Singleton
<1>2. IsFiniteSet(1..a) /\ Cardinality(1..a) = a
  <2>1. a \in Int /\ 1 \in Int /\ a >= 0 /\ a - 1 + 1 = a
    BY <1>0
  <2>2. IsFiniteSet(1..a) /\ Cardinality(1..a) = IF 1 > a THEN 0 ELSE a - 1 + 1
    BY <2>1, FS_Interval
  <2> QED
    BY <2>1, <2>2
<1>3. IsFiniteSet(own) /\ Cardinality(own) = a
  <2>1. /\ IsFiniteSet({x} \X (1..a))
        /\ Cardinality({x} \X (1..a)) = Cardinality({x}) * Cardinality(1..a)
    BY <1>1, <1>2, FS_Product
  <2> QED
    BY <1>0, <1>1, <1>2, <2>1
<1>4. Paise(rows \cup {x}) = Paise(rows) \cup own
  <2>1. ASSUME NEW p
        PROVE  p \in Paise(rows \cup {x}) <=> p \in Paise(rows) \cup own
    <3>1. CASE p \in (rows \cup {x}) \X (1..MaxMinor)
      BY <3>1 DEF Paise
    <3>2. CASE p \notin (rows \cup {x}) \X (1..MaxMinor)
      BY <3>2 DEF Paise
    <3> QED
      BY <3>1, <3>2
  <2> QED
    BY <2>1
<1>5. Paise(rows) \cap own = {}
  BY DEF Paise
<1>6. IsFiniteSet(Paise(rows)) /\ Cardinality(Paise(rows)) \in Nat
  BY TotalType DEF Total
<1>7. Cardinality(Paise(rows) \cup own)
        = Cardinality(Paise(rows)) + Cardinality(own) - Cardinality(Paise(rows) \cap own)
  BY <1>3, <1>6, FS_Union
<1>8. Cardinality(Paise(rows) \cap own) = 0
  BY <1>5, FS_EmptySet
<1>9. Total(rows \cup {x}) = Cardinality(Paise(rows) \cup own)
  BY <1>4 DEF Total
<1> HIDE DEF own
<1>10. Total(rows \cup {x}) = Cardinality(Paise(rows)) + a - 0
  BY <1>3, <1>7, <1>8, <1>9
<1> QED
  BY <1>0, <1>6, <1>10 DEF Total

(* Removing a row subtracts its amount. *)
LEMMA TotalRemove ==
    ASSUME NEW rows, RowSet(rows), NEW x \in rows
    PROVE  /\ Total(rows \ {x}) = Total(rows) - x.amount
           /\ x.amount <= Total(rows)
<1>1. RowSet(rows \ {x})
  BY FS_RemoveElement DEF RowSet
<1>2. Total((rows \ {x}) \cup {x}) = Total(rows \ {x}) + x.amount
  BY <1>1, TotalAdd DEF RowSet
<1>3. (rows \ {x}) \cup {x} = rows
  OBVIOUS
<1>4. Total(rows \ {x}) \in Nat /\ x.amount \in Nat
  BY <1>1, TotalType DEF RowSet
<1>5. Total(rows) = Total(rows \ {x}) + x.amount
  BY <1>2, <1>3
<1> QED
  BY <1>4, <1>5

-----------------------------------------------------------------------------
(* What one ledger row or one hold row contributes to a total. *)
EntryShare(e, s, dir) == IF e.seller = s /\ e.dir = dir THEN e.amount ELSE 0
HoldShare(h, s, st) == IF h.seller = s /\ h.status = st THEN h.amount ELSE 0

(* The rows of one seller form a finite set with amounts. *)
LEMMA EntriesRows ==
    ASSUME NEW L \in SUBSET Entry, IsFiniteSet(L), NEW s, NEW dir
    PROVE  /\ RowSet(Entries(L, s, dir))
           /\ Total(Entries(L, s, dir)) \in Nat
<1>1. RowSet(Entries(L, s, dir))
  BY FS_Subset DEF RowSet, Entries, Entry
<1> QED
  BY <1>1, TotalType

LEMMA HoldsRows ==
    ASSUME NEW H \in SUBSET Hold, IsFiniteSet(H), NEW s, NEW st
    PROVE  /\ RowSet(HoldsIn(H, s, st))
           /\ Total(HoldsIn(H, s, st)) \in Nat
<1>1. RowSet(HoldsIn(H, s, st))
  BY FS_Subset DEF RowSet, HoldsIn, Hold
<1> QED
  BY <1>1, TotalType

(* A new ledger row adds its share to every total. *)
LEMMA EntriesAdd ==
    ASSUME NEW L \in SUBSET Entry, IsFiniteSet(L), NEW x \in Entry, x \notin L,
           NEW s, NEW dir
    PROVE  Total(Entries(L \cup {x}, s, dir))
              = Total(Entries(L, s, dir)) + EntryShare(x, s, dir)
<1>1. RowSet(Entries(L, s, dir)) /\ Total(Entries(L, s, dir)) \in Nat
  BY EntriesRows
<1>2. CASE x.seller = s /\ x.dir = dir
  <2>1. Entries(L \cup {x}, s, dir) = Entries(L, s, dir) \cup {x}
    BY <1>2 DEF Entries
  <2>2. x \notin Entries(L, s, dir) /\ x.amount \in 0..MaxMinor
    BY DEF Entries, Entry
  <2>3. Total(Entries(L, s, dir) \cup {x}) = Total(Entries(L, s, dir)) + x.amount
    BY <1>1, <2>2, TotalAdd
  <2> QED
    BY <1>2, <2>1, <2>3 DEF EntryShare
<1>3. CASE ~(x.seller = s /\ x.dir = dir)
  <2>1. Entries(L \cup {x}, s, dir) = Entries(L, s, dir)
    BY <1>3 DEF Entries
  <2> QED
    BY <1>1, <1>3, <2>1 DEF EntryShare
<1> QED
  BY <1>2, <1>3

(* A new hold row adds its share to every total. *)
LEMMA HoldsAdd ==
    ASSUME NEW H \in SUBSET Hold, IsFiniteSet(H), NEW x \in Hold, x \notin H,
           NEW s, NEW st
    PROVE  Total(HoldsIn(H \cup {x}, s, st))
              = Total(HoldsIn(H, s, st)) + HoldShare(x, s, st)
<1>1. RowSet(HoldsIn(H, s, st)) /\ Total(HoldsIn(H, s, st)) \in Nat
  BY HoldsRows
<1>2. CASE x.seller = s /\ x.status = st
  <2>1. HoldsIn(H \cup {x}, s, st) = HoldsIn(H, s, st) \cup {x}
    BY <1>2 DEF HoldsIn
  <2>2. x \notin HoldsIn(H, s, st) /\ x.amount \in 0..MaxMinor
    BY DEF HoldsIn, Hold
  <2>3. Total(HoldsIn(H, s, st) \cup {x}) = Total(HoldsIn(H, s, st)) + x.amount
    BY <1>1, <2>2, TotalAdd
  <2> QED
    BY <1>2, <2>1, <2>3 DEF HoldShare
<1>3. CASE ~(x.seller = s /\ x.status = st)
  <2>1. HoldsIn(H \cup {x}, s, st) = HoldsIn(H, s, st)
    BY <1>3 DEF HoldsIn
  <2> QED
    BY <1>1, <1>3, <2>1 DEF HoldShare
<1> QED
  BY <1>2, <1>3

(* Rewriting row x as y moves the totals from x's share to y's. *)
LEMMA HoldsSwap ==
    ASSUME NEW H \in SUBSET Hold, IsFiniteSet(H), NEW x \in H, NEW y \in Hold,
           y \notin H \ {x}, NEW s, NEW st
    PROVE  /\ IsFiniteSet((H \ {x}) \cup {y})
           /\ Total(HoldsIn((H \ {x}) \cup {y}, s, st))
                = Total(HoldsIn(H, s, st)) - HoldShare(x, s, st) + HoldShare(y, s, st)
           /\ HoldShare(x, s, st) <= Total(HoldsIn(H, s, st))
<1> DEFINE R == H \ {x}
<1>1. R \in SUBSET Hold /\ IsFiniteSet(R) /\ IsFiniteSet(R \cup {y})
  BY FS_RemoveElement, FS_AddElement
<1>2. R \cup {x} = H /\ x \notin R /\ x \in Hold
  OBVIOUS
<1> HIDE DEF R
<1>3. Total(HoldsIn(R \cup {y}, s, st)) = Total(HoldsIn(R, s, st)) + HoldShare(y, s, st)
  BY <1>1, HoldsAdd DEF R
<1>4. Total(HoldsIn(R \cup {x}, s, st)) = Total(HoldsIn(R, s, st)) + HoldShare(x, s, st)
  BY <1>1, <1>2, HoldsAdd
<1>5. Total(HoldsIn(H, s, st)) = Total(HoldsIn(R, s, st)) + HoldShare(x, s, st)
  BY <1>2, <1>4
<1>6. Total(HoldsIn(R, s, st)) \in Nat
  BY <1>1, HoldsRows
<1>7. HoldShare(x, s, st) \in Nat /\ HoldShare(y, s, st) \in Nat
  BY <1>2 DEF HoldShare, Hold
<1>8. Total(HoldsIn(R \cup {y}, s, st))
         = Total(HoldsIn(H, s, st)) - HoldShare(x, s, st) + HoldShare(y, s, st)
  BY <1>3, <1>5, <1>6, <1>7
<1> QED
  BY <1>1, <1>5, <1>6, <1>7, <1>8 DEF R

-----------------------------------------------------------------------------
(* Every hold carries an id Reserve has drawn, so a fresh one is unused. *)
IdsIssued == \A h \in holds : h.id \in issued

FiniteTables == IsFiniteSet(ledger) /\ IsFiniteSet(holds)

(* TypeOK is not inductive alone: hold_total stays non-negative only because
   the active holds are backed, and ids stay unique only because drawn ids
   are remembered.                                                          *)
IInv ==
    /\ TypeOK
    /\ FiniteTables
    /\ IdsIssued
    /\ HoldsBacked
    /\ ConfirmedHoldsCharged
    /\ OverdraftBounded

LEMMA InitIInv == Init => IInv
<1> SUFFICES ASSUME Init PROVE IInv
  OBVIOUS
<1>1. TypeOK /\ IdsIssued /\ ConfirmedHoldsCharged
  BY DEF Init, TypeOK, IdsIssued, ConfirmedHoldsCharged, Minor, AccountStatus
<1>2. FiniteTables
  BY FS_EmptySet DEF Init, FiniteTables
<1>3. Total({}) = 0
  <2>1. Paise({}) = {}
    BY DEF Paise
  <2> QED
    BY <2>1, FS_EmptySet DEF Total
<1>4. \A s : /\ HoldsIn(holds, s, "active") = {}
             /\ HoldsIn(holds, s, "confirmed") = {}
             /\ Entries(ledger, s, "credit") = {}
             /\ Entries(ledger, s, "debit") = {}
  BY DEF Init, HoldsIn, Entries
<1>5. \A s : Held(s) = 0 /\ Charged(s) = 0 /\ Credits(s) = 0 /\ Debits(s) = 0
  BY <1>3, <1>4 DEF Held, Charged, Credits, Debits
<1>6. HoldsBacked /\ OverdraftBounded
  BY <1>5 DEF Init, HoldsBacked, OverdraftBounded, Floor
<1> QED
  BY <1>1, <1>2, <1>6 DEF IInv

(* Totals are natural numbers in every state of the invariant. *)
LEMMA TotalsAreNat ==
    ASSUME TypeOK, FiniteTables, NEW s
    PROVE  Held(s) \in Nat /\ Charged(s) \in Nat /\ Credits(s) \in Nat /\ Debits(s) \in Nat
BY EntriesRows, HoldsRows DEF TypeOK, FiniteTables, Held, Charged, Credits, Debits

(* A ledger insert either changes nothing or adds one row's share. *)
LEMMA LedgerStep ==
    ASSUME TypeOK, FiniteTables, NEW s \in Sellers, NEW dir \in Directions,
           NEW amount \in 0..MaxMinor, NEW ref \in Refs,
           ledger' = InsertLedgerEntry(s, dir, amount, ref)
    PROVE  /\ ledger' \subseteq Entry
           /\ ledger \subseteq ledger'
           /\ IsFiniteSet(ledger')
           /\ \A e, f \in ledger' : e.ref = f.ref /\ e.dir = f.dir => e = f
           /\ ~Posted(ref, dir) =>
                 [seller |-> s, ref |-> ref, dir |-> dir, amount |-> amount] \in ledger'
           /\ \A t : Credits(t)' = Credits(t) +
                 (IF t = s /\ dir = "credit" /\ ~Posted(ref, dir) THEN amount ELSE 0)
           /\ \A t : Debits(t)' = Debits(t) +
                 (IF t = s /\ dir = "debit" /\ ~Posted(ref, dir) THEN amount ELSE 0)
<1>0. \A t : Credits(t) \in Nat /\ Debits(t) \in Nat
  BY TotalsAreNat
<1>1. CASE Posted(ref, dir)
  <2>1. ledger' = ledger
    BY <1>1 DEF InsertLedgerEntry
  <2>2. \A t : Credits(t)' = Credits(t) /\ Debits(t)' = Debits(t)
    BY <2>1 DEF Credits, Debits
  <2> QED
    BY <1>0, <1>1, <2>1, <2>2 DEF TypeOK, FiniteTables
<1>2. CASE ~Posted(ref, dir)
  <2> DEFINE x == [seller |-> s, ref |-> ref, dir |-> dir, amount |-> amount]
  <2>1. ledger' = ledger \cup {x}
    BY <1>2 DEF InsertLedgerEntry, AppendLedgerEntry
  <2>2. x \in Entry /\ x \notin ledger
    BY <1>2 DEF Entry, Posted
  <2>3. x.seller = s /\ x.dir = dir /\ x.amount = amount /\ x.ref = ref
    OBVIOUS
  <2> HIDE DEF x
  <2>4. IsFiniteSet(ledger') /\ ledger' \subseteq Entry
    BY <2>1, <2>2, FS_AddElement DEF TypeOK, FiniteTables
  <2>5. \A e, f \in ledger' : e.ref = f.ref /\ e.dir = f.dir => e = f
    BY <1>2, <2>1, <2>3 DEF TypeOK, Posted
  <2>6. \A t, d : Total(Entries(ledger', t, d)) = Total(Entries(ledger, t, d)) + EntryShare(x, t, d)
    BY <2>1, <2>2, EntriesAdd DEF TypeOK, FiniteTables
  <2>7. \A t : /\ Credits(t)' = Credits(t) + EntryShare(x, t, "credit")
               /\ Debits(t)' = Debits(t) + EntryShare(x, t, "debit")
    BY <2>6 DEF Credits, Debits
  <2>8. \A t : /\ EntryShare(x, t, "credit") = IF t = s /\ dir = "credit" THEN amount ELSE 0
               /\ EntryShare(x, t, "debit") = IF t = s /\ dir = "debit" THEN amount ELSE 0
    BY <2>3 DEF EntryShare
  <2> QED
    BY <1>0, <1>2, <2>1, <2>4, <2>5, <2>7, <2>8 DEF x
<1> QED
  BY <1>1, <1>2

(* Rewriting one hold row keeps the indexes and moves the totals. *)
LEMMA HoldSwapStep ==
    ASSUME TypeOK, FiniteTables, IdsIssued,
           NEW h \in holds, NEW g \in Hold, g.ref = h.ref,
           g.id = h.id \/ g.id \notin issued,
           holds' = (holds \ {h}) \cup {g}
    PROVE  /\ holds' \subseteq Hold
           /\ IsFiniteSet(holds')
           /\ \A a, b \in holds' : a.ref = b.ref \/ a.id = b.id => a = b
           /\ \A s : /\ Held(s)' = Held(s) - HoldShare(h, s, "active") + HoldShare(g, s, "active")
                     /\ HoldShare(h, s, "active") <= Held(s)
           /\ \A s : Charged(s)' = Charged(s) - HoldShare(h, s, "confirmed")
                                             + HoldShare(g, s, "confirmed")
<1>1. holds \in SUBSET Hold /\ IsFiniteSet(holds)
  BY DEF TypeOK, FiniteTables
<1>2. g \notin holds \ {h}
  BY DEF TypeOK
<1>3. \A s, st :
        /\ IsFiniteSet((holds \ {h}) \cup {g})
        /\ Total(HoldsIn((holds \ {h}) \cup {g}, s, st))
              = Total(HoldsIn(holds, s, st)) - HoldShare(h, s, st) + HoldShare(g, s, st)
        /\ HoldShare(h, s, st) <= Total(HoldsIn(holds, s, st))
  BY <1>1, <1>2, HoldsSwap
<1>4. \A s : /\ Held(s)' = Held(s) - HoldShare(h, s, "active") + HoldShare(g, s, "active")
             /\ HoldShare(h, s, "active") <= Held(s)
             /\ Charged(s)' = Charged(s) - HoldShare(h, s, "confirmed")
                                         + HoldShare(g, s, "confirmed")
  BY <1>3 DEF Held, Charged
<1>5. \A a, b \in holds' : a.ref = b.ref \/ a.id = b.id => a = b
  BY DEF TypeOK, IdsIssued
<1> QED
  BY <1>1, <1>3, <1>4, <1>5

(* A new hold row for a ref without one. *)
LEMMA HoldInsertStep ==
    ASSUME TypeOK, FiniteTables, IdsIssued,
           NEW g \in Hold, \A h \in holds : h.ref # g.ref, g.id \notin issued,
           holds' = holds \cup {g}
    PROVE  /\ holds' \subseteq Hold
           /\ IsFiniteSet(holds')
           /\ \A a, b \in holds' : a.ref = b.ref \/ a.id = b.id => a = b
           /\ \A s : /\ Held(s)' = Held(s) + HoldShare(g, s, "active")
                     /\ Charged(s)' = Charged(s) + HoldShare(g, s, "confirmed")
<1>1. holds \in SUBSET Hold /\ IsFiniteSet(holds) /\ g \notin holds
  BY DEF TypeOK, FiniteTables
<1>2. \A s, st : Total(HoldsIn(holds \cup {g}, s, st))
                    = Total(HoldsIn(holds, s, st)) + HoldShare(g, s, st)
  BY <1>1, HoldsAdd
<1>3. \A s : /\ Held(s)' = Held(s) + HoldShare(g, s, "active")
             /\ Charged(s)' = Charged(s) + HoldShare(g, s, "confirmed")
  BY <1>2 DEF Held, Charged
<1>4. \A a, b \in holds' : a.ref = b.ref \/ a.id = b.id => a = b
  BY DEF TypeOK, IdsIssued
<1>5. IsFiniteSet(holds')
  BY <1>1, FS_AddElement
<1> QED
  BY <1>1, <1>3, <1>4, <1>5

(* Totals of an unchanged table. *)
LEMMA HoldsUnchanged ==
    ASSUME UNCHANGED holds
    PROVE  \A s : Held(s)' = Held(s) /\ Charged(s)' = Charged(s)
BY DEF Held, Charged

LEMMA LedgerUnchanged ==
    ASSUME UNCHANGED ledger
    PROVE  \A s : Credits(s)' = Credits(s) /\ Debits(s)' = Debits(s)
BY DEF Credits, Debits

-----------------------------------------------------------------------------
(* Credit and Debit post a row and move the balance by the same amount. *)
LEMMA CreditStep ==
    ASSUME IInv, NEW s \in Sellers, NEW amount \in Amounts, NEW ref \in Refs,
           Credit(s, amount, ref)
    PROVE  IInv'
<1>1. /\ ledger' \subseteq Entry
      /\ ledger \subseteq ledger'
      /\ IsFiniteSet(ledger')
      /\ \A e, f \in ledger' : e.ref = f.ref /\ e.dir = f.dir => e = f
  <2>1. "credit" \in Directions /\ amount \in 0..MaxMinor
    BY DEF Directions
  <2>2. ledger' = InsertLedgerEntry(s, "credit", amount, ref)
    BY DEF Credit
  <2>4. TypeOK /\ FiniteTables
    BY DEF IInv
  <2> QED
    BY <2>1, <2>2, <2>4, LedgerStep
<1>2. \A t : Held(t)' = Held(t) /\ Charged(t)' = Charged(t)
  BY HoldsUnchanged DEF Credit
<1>3. TypeOK'
  BY <1>1 DEF IInv, Credit, TypeOK, UpdateBalance, Minor
<1>4. (FiniteTables /\ IdsIssued /\ HoldsBacked)'
  BY <1>1, <1>2 DEF IInv, Credit, FiniteTables, IdsIssued, HoldsBacked
<1>5. ConfirmedHoldsCharged'
  BY <1>1 DEF IInv, Credit, ConfirmedHoldsCharged
<1>6. \A t : Charged(t) \in Nat
  BY TotalsAreNat DEF IInv
<1>7. OverdraftBounded'
  BY <1>2, <1>6 DEF IInv, Credit, OverdraftBounded, UpdateBalance, TypeOK, Minor, Floor
<1> QED
  BY <1>3, <1>4, <1>5, <1>7 DEF IInv

LEMMA DebitStep ==
    ASSUME IInv, NEW s \in Sellers, NEW amount \in Amounts, NEW ref \in Refs,
           Debit(s, amount, ref)
    PROVE  IInv'
<1>1. /\ ledger' \subseteq Entry
      /\ ledger \subseteq ledger'
      /\ IsFiniteSet(ledger')
      /\ \A e, f \in ledger' : e.ref = f.ref /\ e.dir = f.dir => e = f
  <2>1. "debit" \in Directions /\ amount \in 0..MaxMinor
    BY DEF Directions
  <2>2. ledger' = InsertLedgerEntry(s, "debit", amount, ref)
    BY DEF Debit
  <2>4. TypeOK /\ FiniteTables
    BY DEF IInv
  <2> QED
    BY <2>1, <2>2, <2>4, LedgerStep
<1>2. \A t : Held(t)' = Held(t) /\ Charged(t)' = Charged(t)
  BY HoldsUnchanged DEF Debit
<1>3. TypeOK'
  BY <1>1 DEF IInv, Debit, TypeOK, UpdateBalance, Minor
<1>4. (FiniteTables /\ IdsIssued /\ HoldsBacked)'
  BY <1>1, <1>2 DEF IInv, Debit, FiniteTables, IdsIssued, HoldsBacked
<1>5. ConfirmedHoldsCharged'
  BY <1>1 DEF IInv, Debit, ConfirmedHoldsCharged
<1>6. \A t : Charged(t) \in Nat
  BY TotalsAreNat DEF IInv
<1>7. OverdraftBounded'
  BY <1>2, <1>6 DEF IInv, Debit, WithinGrace, OverdraftBounded, UpdateBalance, TypeOK,
                    Minor, Floor
<1> QED
  BY <1>3, <1>4, <1>5, <1>7 DEF IInv

(* Reserve either inserts a row or takes a resolved row over; a taken-over
   row stays resolved, so hold_total grows while the active holds do not.   *)
LEMMA ReserveStep ==
    ASSUME IInv, NEW s \in Sellers, NEW amount \in Amounts, NEW ref \in Refs,
           Reserve(s, amount, ref)
    PROVE  IInv'
<1>0. TypeOK /\ FiniteTables /\ IdsIssued /\ HoldsBacked
  BY DEF IInv
<1>1. PICK id \in HoldIDs \ issued :
        /\ holds' = InsertOrGetHold(s, id, amount, ref)
        /\ issued' = issued \cup {id}
  BY DEF Reserve
<1>3. \A t : Charged(t) \in Nat /\ Held(t) \in Nat
  BY <1>0, TotalsAreNat
<1>4. CASE \E h \in holds : h.ref = ref
  <2>1. PICK h \in holds : h.ref = ref
    BY <1>4
  <2>2. h.seller = s /\ h.status # "active"
    BY <2>1 DEF Reserve, MayReserve
  <2> DEFINE g == TakeOver(h, id)
  <2>3. /\ g \in Hold
        /\ g.id = id /\ g.ref = h.ref /\ g.seller = h.seller
        /\ g.status = h.status /\ g.amount = h.amount /\ g.entry = h.entry
    BY <1>0 DEF TypeOK, TakeOver, Hold
  <2> HIDE DEF g
  <2>4. \A k \in holds : (k.ref = ref /\ k.status # "active") <=> k = h
    BY <1>0, <2>1, <2>2 DEF TypeOK
  <2>5. holds' = (holds \ {h}) \cup {g}
    BY <1>1, <1>4, <2>4 DEF InsertOrGetHold, g
  <2>6. /\ holds' \subseteq Hold
        /\ IsFiniteSet(holds')
        /\ \A a, b \in holds' : a.ref = b.ref \/ a.id = b.id => a = b
        /\ \A t : /\ Held(t)' = Held(t) - HoldShare(h, t, "active") + HoldShare(g, t, "active")
                  /\ HoldShare(h, t, "active") <= Held(t)
        /\ \A t : Charged(t)' = Charged(t) - HoldShare(h, t, "confirmed")
                                          + HoldShare(g, t, "confirmed")
    BY <1>0, <2>3, <2>5, HoldSwapStep
  <2>7. \A t, st : HoldShare(g, t, st) = HoldShare(h, t, st) /\ HoldShare(h, t, st) \in Nat
    BY <1>0, <2>3 DEF HoldShare, TypeOK, Hold
  <2>8. \A t : Held(t)' = Held(t) /\ Charged(t)' = Charged(t)
    BY <1>3, <2>6, <2>7
  <2>9. TypeOK'
    BY <1>0, <1>1, <2>6 DEF TypeOK, Reserve, UpdateHoldTotal
  <2>10. (FiniteTables /\ IdsIssued)'
    BY <1>0, <1>1, <2>3, <2>5, <2>6 DEF FiniteTables, IdsIssued, Reserve
  <2>11. (HoldsBacked /\ OverdraftBounded)'
    BY <1>3, <2>8 DEF IInv, HoldsBacked, OverdraftBounded, Reserve, UpdateHoldTotal, TypeOK
  <2>12. ConfirmedHoldsCharged'
    <3>1. \A k \in holds' : \E j \in holds : /\ k.status = j.status /\ k.entry = j.entry
                                             /\ k.seller = j.seller /\ k.amount = j.amount
      BY <2>3, <2>5
    <3>2. \A k, l \in holds' :
            k.status = "confirmed" /\ l.status = "confirmed" /\ k.entry = l.entry => k = l
      BY <2>3, <2>5 DEF IInv, ConfirmedHoldsCharged
    <3>3. ledger' = ledger
      BY DEF Reserve
    <3> QED
      BY <3>1, <3>2, <3>3 DEF IInv, ConfirmedHoldsCharged
  <2> QED
    BY <2>9, <2>10, <2>11, <2>12 DEF IInv
<1>5. CASE ~\E h \in holds : h.ref = ref
  <2> DEFINE g == [id |-> id, seller |-> s, ref |-> ref, amount |-> amount,
                   status |-> "active", entry |-> Null]
  <2>1. /\ g \in Hold
        /\ g.id = id /\ g.ref = ref /\ g.seller = s
        /\ g.status = "active" /\ g.amount = amount
    BY DEF Hold, HoldStatus
  <2>2. holds' = holds \cup {g}
    BY <1>1, <1>5 DEF InsertOrGetHold
  <2> HIDE DEF g
  <2>3. /\ holds' \subseteq Hold
        /\ IsFiniteSet(holds')
        /\ \A a, b \in holds' : a.ref = b.ref \/ a.id = b.id => a = b
        /\ \A t : /\ Held(t)' = Held(t) + HoldShare(g, t, "active")
                  /\ Charged(t)' = Charged(t) + HoldShare(g, t, "confirmed")
    BY <1>0, <1>5, <2>1, <2>2, HoldInsertStep
  <2>4. \A t : /\ HoldShare(g, t, "active") = IF t = s THEN amount ELSE 0
               /\ HoldShare(g, t, "confirmed") = 0
    BY <2>1 DEF HoldShare
  <2>5. \A t : /\ Held(t)' = Held(t) + (IF t = s THEN amount ELSE 0)
               /\ Charged(t)' = Charged(t)
    BY <1>3, <2>3, <2>4
  <2>6. TypeOK'
    BY <1>0, <1>1, <2>3 DEF TypeOK, Reserve, UpdateHoldTotal
  <2>7. (FiniteTables /\ IdsIssued)'
    BY <1>0, <1>1, <2>1, <2>2, <2>3 DEF FiniteTables, IdsIssued, Reserve
  <2>8. (HoldsBacked /\ OverdraftBounded)'
    BY <1>3, <2>5 DEF IInv, HoldsBacked, OverdraftBounded, Reserve, UpdateHoldTotal, TypeOK
  <2>9. ConfirmedHoldsCharged'
    BY <2>1, <2>2 DEF IInv, ConfirmedHoldsCharged, Reserve
  <2> QED
    BY <2>6, <2>7, <2>8, <2>9 DEF IInv
<1> QED
  BY <1>4, <1>5

(* Confirm turns one active hold into one debit of its amount. *)
LEMMA ConfirmStep ==
    ASSUME IInv, NEW s \in Sellers, NEW h \in holds, NEW ref \in Refs, Confirm(s, h, ref)
    PROVE  IInv'
<1>0. TypeOK /\ FiniteTables /\ IdsIssued /\ HoldsBacked
  BY DEF IInv
<1>1. h.seller = s /\ h.status = "active" /\ ~Posted(ref, "debit") /\ h.amount \in 0..MaxMinor
  BY <1>0 DEF Confirm, Confirmable, EntryExists, TypeOK, Hold
<1> DEFINE g == [h EXCEPT !.status = "confirmed", !.entry = ref]
<1>2. /\ g \in Hold
      /\ g.id = h.id /\ g.ref = h.ref /\ g.seller = s
      /\ g.status = "confirmed" /\ g.amount = h.amount /\ g.entry = ref
  <2>1. h \in Hold /\ "confirmed" \in HoldStatus
    BY <1>0 DEF TypeOK, HoldStatus
  <2>2. g \in Hold
    BY <2>1 DEF Hold
  <2>3. /\ g.id = h.id /\ g.ref = h.ref /\ g.seller = h.seller
        /\ g.status = "confirmed" /\ g.amount = h.amount /\ g.entry = ref
    BY <2>1 DEF Hold
  <2> QED
    BY <1>1, <2>2, <2>3
<1>3. holds' = (holds \ {h}) \cup {g}
  BY DEF Confirm, ResolveHold
<1> HIDE DEF g
<1>4. /\ holds' \subseteq Hold
      /\ IsFiniteSet(holds')
      /\ \A a, b \in holds' : a.ref = b.ref \/ a.id = b.id => a = b
      /\ \A t : /\ Held(t)' = Held(t) - HoldShare(h, t, "active") + HoldShare(g, t, "active")
                /\ HoldShare(h, t, "active") <= Held(t)
      /\ \A t : Charged(t)' = Charged(t) - HoldShare(h, t, "confirmed")
                                        + HoldShare(g, t, "confirmed")
  BY <1>0, <1>2, <1>3, HoldSwapStep
<1>5. \A t : /\ HoldShare(h, t, "active") = IF t = s THEN h.amount ELSE 0
             /\ HoldShare(g, t, "active") = 0
             /\ HoldShare(h, t, "confirmed") = 0
             /\ HoldShare(g, t, "confirmed") = IF t = s THEN h.amount ELSE 0
  BY <1>1, <1>2 DEF HoldShare
<1>6. \A t : Charged(t) \in Nat /\ Held(t) \in Nat
  BY <1>0, TotalsAreNat
<1>7. \A t : /\ Held(t)' = Held(t) - (IF t = s THEN h.amount ELSE 0)
             /\ Charged(t)' = Charged(t) + (IF t = s THEN h.amount ELSE 0)
  BY <1>1, <1>4, <1>5, <1>6
<1>8. h.amount <= Held(s)
  BY <1>4, <1>5
<1> DEFINE x == [seller |-> s, ref |-> ref, dir |-> "debit", amount |-> h.amount]
<1>9. ledger' = InsertLedgerEntry(s, "debit", h.amount, ref) /\ "debit" \in Directions
  BY DEF Confirm, Directions
<1>10. /\ ledger' \subseteq Entry
       /\ ledger \subseteq ledger'
       /\ IsFiniteSet(ledger')
       /\ \A e, f \in ledger' : e.ref = f.ref /\ e.dir = f.dir => e = f
       /\ x \in ledger'
  BY <1>0, <1>1, <1>9, LedgerStep
<1>14. TypeOK'
  <2>1. balance' \in [Sellers -> Minor]
    BY <1>0, <1>1 DEF TypeOK, Confirm, UpdateBalance, Minor
  <2>2. holdTotal' \in [Sellers -> 0..MaxMinor]
    BY <1>0, <1>1, <1>6, <1>8 DEF TypeOK, HoldsBacked, Confirm, UpdateHoldTotal
  <2> QED
    BY <1>0, <1>4, <1>10, <2>1, <2>2 DEF TypeOK, Confirm
<1>15. (FiniteTables /\ IdsIssued)'
  BY <1>0, <1>2, <1>3, <1>4, <1>10 DEF FiniteTables, IdsIssued, Confirm
<1>16. HoldsBacked'
  BY <1>0, <1>1, <1>6, <1>7 DEF HoldsBacked, Confirm, UpdateHoldTotal, TypeOK
<1>17. OverdraftBounded'
  BY <1>0, <1>1, <1>6, <1>7 DEF IInv, OverdraftBounded, Confirm, UpdateBalance, TypeOK, Minor, Floor
<1>18. ConfirmedHoldsCharged'
  <2>1. \A k \in holds : k.status = "confirmed" => k.entry # ref
    BY <1>1 DEF IInv, ConfirmedHoldsCharged, Posted
  <2>2. x.dir = "debit" /\ x.ref = ref /\ x.seller = s /\ x.amount = h.amount
    OBVIOUS
  <2> HIDE DEF x
  <2>3. \A k \in holds' : k.status = "confirmed" =>
          \E e \in ledger' : /\ e.dir = "debit" /\ e.ref = k.entry
                             /\ e.seller = k.seller /\ e.amount = k.amount
    BY <1>2, <1>3, <1>10, <2>2 DEF IInv, ConfirmedHoldsCharged
  <2>4. \A k, l \in holds' :
          k.status = "confirmed" /\ l.status = "confirmed" /\ k.entry = l.entry => k = l
    BY <1>2, <1>3, <2>1 DEF IInv, ConfirmedHoldsCharged
  <2> QED
    BY <2>3, <2>4 DEF ConfirmedHoldsCharged
<1> QED
  BY <1>14, <1>15, <1>16, <1>17, <1>18 DEF IInv

(* Release resolves an active hold and gives its amount back. *)
LEMMA ReleaseStep ==
    ASSUME IInv, NEW s \in Sellers, NEW h \in holds, Release(s, h)
    PROVE  IInv'
<1>0. TypeOK /\ FiniteTables /\ IdsIssued /\ HoldsBacked
  BY DEF IInv
<1>1. h.seller = s /\ h.status = "active" /\ h.amount \in 0..MaxMinor
  BY <1>0 DEF Release, TypeOK, Hold
<1> DEFINE g == [h EXCEPT !.status = "released", !.entry = Null]
<1>2. /\ g \in Hold
      /\ g.id = h.id /\ g.ref = h.ref /\ g.seller = s /\ g.status = "released"
  <2>1. h \in Hold /\ "released" \in HoldStatus
    BY <1>0 DEF TypeOK, HoldStatus
  <2>2. g \in Hold
    BY <2>1 DEF Hold
  <2>3. /\ g.id = h.id /\ g.ref = h.ref /\ g.seller = h.seller
        /\ g.status = "released" /\ g.amount = h.amount /\ g.entry = Null
    BY <2>1 DEF Hold
  <2> QED
    BY <1>1, <2>2, <2>3
<1>3. holds' = (holds \ {h}) \cup {g}
  BY DEF Release, ResolveHold
<1> HIDE DEF g
<1>4. /\ holds' \subseteq Hold
      /\ IsFiniteSet(holds')
      /\ \A a, b \in holds' : a.ref = b.ref \/ a.id = b.id => a = b
      /\ \A t : /\ Held(t)' = Held(t) - HoldShare(h, t, "active") + HoldShare(g, t, "active")
                /\ HoldShare(h, t, "active") <= Held(t)
      /\ \A t : Charged(t)' = Charged(t) - HoldShare(h, t, "confirmed")
                                        + HoldShare(g, t, "confirmed")
  BY <1>0, <1>2, <1>3, HoldSwapStep
<1>5. \A t : /\ HoldShare(h, t, "active") = IF t = s THEN h.amount ELSE 0
             /\ HoldShare(g, t, "active") = 0
             /\ HoldShare(h, t, "confirmed") = 0
             /\ HoldShare(g, t, "confirmed") = 0
  BY <1>1, <1>2 DEF HoldShare
<1>6. \A t : Charged(t) \in Nat /\ Held(t) \in Nat
  BY <1>0, TotalsAreNat
<1>7. \A t : /\ Held(t)' = Held(t) - (IF t = s THEN h.amount ELSE 0)
             /\ Charged(t)' = Charged(t)
  BY <1>1, <1>4, <1>5, <1>6
<1>8. h.amount <= Held(s)
  BY <1>4, <1>5
<1>10. TypeOK'
  <2>1. holdTotal' \in [Sellers -> 0..MaxMinor]
    BY <1>0, <1>1, <1>6, <1>8 DEF TypeOK, HoldsBacked, Release, UpdateHoldTotal
  <2> QED
    BY <1>0, <1>4, <2>1 DEF TypeOK, Release
<1>11. (FiniteTables /\ IdsIssued)'
  BY <1>0, <1>2, <1>3, <1>4 DEF FiniteTables, IdsIssued, Release
<1>12. HoldsBacked'
  BY <1>0, <1>1, <1>6, <1>7 DEF HoldsBacked, Release, UpdateHoldTotal, TypeOK
<1>13. OverdraftBounded'
  BY <1>7 DEF IInv, OverdraftBounded, Release
<1>14. ConfirmedHoldsCharged'
  BY <1>2, <1>3 DEF IInv, ConfirmedHoldsCharged, Release
<1> QED
  BY <1>10, <1>11, <1>12, <1>13, <1>14 DEF IInv

(* Opening an account or an operator's status change touches no money. *)
LEMMA MoneyUntouched ==
    ASSUME IInv, TypeOK', UNCHANGED <<balance, holdTotal, ledger, holds, issued>>
    PROVE  IInv'
<1>1. \A t : Held(t)' = Held(t) /\ Charged(t)' = Charged(t)
  BY HoldsUnchanged
<1>2. (HoldsBacked /\ OverdraftBounded)'
  BY <1>1 DEF IInv, HoldsBacked, OverdraftBounded
<1> QED
  BY <1>2 DEF IInv, FiniteTables, IdsIssued, ConfirmedHoldsCharged

(* Every transaction of the wallet service preserves the invariant. *)
LEMMA NextIInv == IInv /\ [Next]_vars => IInv'
<1> SUFFICES ASSUME IInv, [Next]_vars PROVE IInv'
  OBVIOUS
<1>1. ASSUME NEW s \in Sellers, EnsureAccount(s)
      PROVE  IInv'
  BY <1>1, MoneyUntouched DEF EnsureAccount, IInv, TypeOK
<1>2. ASSUME NEW s \in Sellers, NEW st \in AccountStatus, SetStatus(s, st)
      PROVE  IInv'
  BY <1>2, MoneyUntouched DEF SetStatus, IInv, TypeOK
<1>3. CASE UNCHANGED vars
  BY <1>3, MoneyUntouched DEF vars, IInv, TypeOK
<1> QED
  BY <1>1, <1>2, <1>3, CreditStep, DebitStep, ReserveStep, ConfirmStep, ReleaseStep DEF Next

(* The strengthened invariant holds in every reachable state. *)
THEOREM WalletInvariant == Spec => []IInv
BY InitIInv, NextIInv, PTL DEF Spec

(* Columns keep their ranges and the ON CONFLICT clauses keep the unique
   indexes, whatever the callers of the service retry.                      *)
THEOREM WalletTypeOK == Spec => []TypeOK
<1>1. IInv => TypeOK
  BY DEF IInv
<1> QED
  BY <1>1, WalletInvariant, PTL

(* hold_total_minor always covers the active holds. *)
THEOREM WalletHoldsBacked == Spec => []HoldsBacked
<1>1. IInv => HoldsBacked
  BY DEF IInv
<1> QED
  BY <1>1, WalletInvariant, PTL

(* Confirm charges a hold exactly once, on a ledger row of its own. *)
THEOREM WalletConfirmedHoldsCharged == Spec => []ConfirmedHoldsCharged
<1>1. IInv => ConfirmedHoldsCharged
  BY DEF IInv
<1> QED
  BY <1>1, WalletInvariant, PTL

(* Past the grace floor a balance falls only by confirmed holds. *)
THEOREM WalletOverdraftBounded == Spec => []OverdraftBounded
<1>1. IInv => OverdraftBounded
  BY DEF IInv
<1> QED
  BY <1>1, WalletInvariant, PTL

(* No transaction changes how a hold was resolved. *)
THEOREM WalletResolvedOnce == Spec => ResolvedOnce
<1>1. IInv /\ [Next]_vars => [ResolutionKept]_vars
  <2> SUFFICES ASSUME IInv, Next PROVE ResolutionKept
    OBVIOUS
  <2>1. ASSUME UNCHANGED holds PROVE ResolutionKept
    BY <2>1 DEF ResolutionKept
  <2>2. ASSUME NEW h \in holds, NEW st, NEW entry, h.status = "active",
               holds' = ResolveHold(h, st, entry)
        PROVE  ResolutionKept
    BY <2>2 DEF ResolutionKept, ResolveHold
  <2>3. ASSUME NEW s, NEW id, NEW amount, NEW ref,
               holds' = InsertOrGetHold(s, id, amount, ref)
        PROVE  ResolutionKept
    <3>1. ASSUME NEW h \in holds, h.status # "active"
          PROVE  \E g \in holds' : g.ref = h.ref /\ g.status = h.status /\ g.entry = h.entry
      <4>1. h \in Hold
        BY <3>1 DEF IInv, TypeOK
      <4>2. CASE h.ref = ref
        <5>1. TakeOver(h, id) \in holds'
          BY <2>3, <3>1, <4>2 DEF InsertOrGetHold
        <5>2. LET g == TakeOver(h, id)
              IN  g.ref = h.ref /\ g.status = h.status /\ g.entry = h.entry
          BY <4>1 DEF TakeOver, Hold
        <5> QED
          BY <5>1, <5>2
      <4>3. CASE h.ref # ref
        <5>1. h \in holds'
          BY <2>3, <3>1, <4>3 DEF InsertOrGetHold
        <5> QED
          BY <5>1
      <4> QED
        BY <4>2, <4>3
    <3> QED
      BY <3>1 DEF ResolutionKept
  <2>4. ASSUME NEW s \in Sellers, NEW amount \in Amounts, NEW ref \in Refs,
               Reserve(s, amount, ref)
        PROVE  ResolutionKept
    BY <2>3, <2>4 DEF Reserve
  <2>5. ASSUME NEW s \in Sellers, NEW h \in holds, NEW ref \in Refs, Confirm(s, h, ref)
        PROVE  ResolutionKept
    BY <2>2, <2>5 DEF Confirm, Confirmable
  <2>6. ASSUME NEW s \in Sellers, NEW h \in holds, Release(s, h)
        PROVE  ResolutionKept
    BY <2>2, <2>6 DEF Release
  <2> QED
    BY <2>1, <2>4, <2>5, <2>6 DEF Next, EnsureAccount, Credit, Debit, SetStatus
<1> QED
  BY <1>1, WalletInvariant, PTL DEF Spec, ResolvedOnce
=============================================================================
