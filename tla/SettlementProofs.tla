-------------------------- MODULE SettlementProofs --------------------------
(***************************************************************************)
(* Proofs about Settlement for any number of sellers, parcels,             *)
(* discrepancies, operators and concurrent workers, and any number of      *)
(* failures.  The wallet's part rests on the lemmas of WalletProofs.       *)
(***************************************************************************)
EXTENDS Settlement, WalletProofs

(* The ref and the direction under which the money of a cause is booked. *)
RefOf(c) ==
    CASE c \in Parcels -> RemitRef(c)
      [] c \in Discrepancies -> PostRef(c)
      [] OTHER -> ManualRef(c[1], c[2], c[3])

EntryFor(c, s, dir, a) ==
    [seller |-> s, ref |-> RefOf(c), dir |-> dir, amount |-> a]

RemitEntry(p) ==
    [seller |-> cod[p].seller, ref |-> RemitRef(p), dir |-> "credit",
     amount |-> cod[p].reported]

PostEntry(d) ==
    [seller |-> wd[d].seller, ref |-> PostRef(d), dir |-> "debit", amount |-> wd[d].delta]

Reported(p) == cod[p].state \in {"collected", "remitted"}
Raised(d) == wd[d].state # "none"

(* What a worker read from a row is still what the row says: reported amounts
   and raised deltas do not change.                                        *)
CallMatches(x) ==
    /\ x.step # "idle" /\ x.op = "Remit" =>
          Reported(x.row) /\ x.seller = cod[x.row].seller /\ x.amount = cod[x.row].reported
    /\ x.step # "idle" /\ x.op = "Post" =>
          Raised(x.row) /\ x.seller = wd[x.row].seller /\ x.amount = wd[x.row].delta

(* A worker that is past the wallet call has left its entry in the ledger. *)
EntryLeft(x) ==
    /\ x.step = "moved" /\ x.op = "Remit" => RemitEntry(x.row) \in ledger
    /\ x.step = "moved" /\ x.op = "Post" /\ Chargeable(x.seller, x.amount) =>
          PostEntry(x.row) \in ledger

CallsMatch == \A w \in Workers : CallMatches(call[w]) /\ EntryLeft(call[w])

(* No other service books under these refs. *)
EntriesMatch ==
    /\ \A p \in Parcels, e \in ledger : e.ref = RemitRef(p) => Reported(p) /\ e = RemitEntry(p)
    /\ \A d \in Discrepancies, e \in ledger : e.ref = PostRef(d) => Raised(d) /\ e = PostEntry(d)

(* An entry stands for a call that succeeded. *)
Accounted == \A c \in Causes : moved[c] = 0 => \A e \in ledger : e.ref # RefOf(c)

At(c, st) == {w \in Workers : call[w].step = st /\ call[w].row = c}

Marked(c) == IF c \in Parcels THEN cod[c].state = "remitted" ELSE wd[c].state = "posted"

(* Until the row is marked every success is that of a worker still in the
   call, or of one that died there; afterwards the readers left over are the
   only ones that can add to them.                                         *)
RepeatsOf(c) ==
    /\ ~Marked(c) => moved[c] <= Cardinality(At(c, "moved")) + faults
    /\ Marked(c) => moved[c] + Cardinality(At(c, "read")) <= Cardinality(Workers) + faults

Repeats == \A c \in Parcels \cup Discrepancies : RepeatsOf(c)

SettlementInv ==
    /\ IInv
    /\ SettlementTypeOK
    /\ CallsMatch
    /\ EntriesMatch
    /\ SettledHasEntry
    /\ Accounted
    /\ BooksBalanceUnlessRepeated
    /\ Repeats

-----------------------------------------------------------------------------
(* Rows, calls and refs. *)

LEMMA CodShape ==
    ASSUME NEW r \in CodRow
    PROVE  /\ r.state \in {"none", "pending", "collected", "remitted"}
           /\ r.state # "none" => r.seller \in Sellers
           /\ r.state \in {"collected", "remitted"} =>
                 /\ r.reported \in Amounts
                 /\ r = [state |-> r.state, seller |-> r.seller, reported |-> r.reported]
  <1>1. CASE r \in [state : {"none"}]
    BY <1>1
  <1>2. CASE r \in [state : {"pending"}, seller : Sellers]
    BY <1>2
  <1>3. CASE r \in [state : {"collected", "remitted"}, seller : Sellers, reported : Amounts]
    BY <1>3
  <1> QED BY <1>1, <1>2, <1>3 DEF CodRow

LEMMA WdShape ==
    ASSUME NEW r \in DiscrepancyRow
    PROVE  /\ r.state \in {"none", "raised", "disputed", "approved", "rejected", "posted"}
           /\ r.state # "none" =>
                 /\ r.seller \in Sellers \cup {Null}
                 /\ r.delta \in Amounts
                 /\ r.windowOpen \in BOOLEAN
                 /\ r = [state |-> r.state, seller |-> r.seller, delta |-> r.delta,
                         windowOpen |-> r.windowOpen]
  <1>1. CASE r \in [state : {"none"}]
    BY <1>1
  <1>2. CASE r \in [state : {"raised", "disputed", "approved", "rejected", "posted"},
                    seller : Sellers \cup {Null}, delta : Amounts, windowOpen : BOOLEAN]
    BY <1>2
  <1> QED BY <1>1, <1>2 DEF DiscrepancyRow

LEMMA CallShape ==
    ASSUME NEW x \in Call
    PROVE  /\ x.step \in {"idle", "read", "moved"}
           /\ x.step = "idle" => x = Idle
           /\ x.step # "idle" =>
                 /\ \/ x.op = "Remit" /\ x.row \in Parcels /\ x.seller \in Sellers
                    \/ x.op = "Post" /\ x.row \in Discrepancies /\ x.seller \in Sellers \cup {Null}
                 /\ x.amount \in Amounts
                 /\ x = [step |-> x.step, op |-> x.op, row |-> x.row, seller |-> x.seller,
                         amount |-> x.amount]
  <1>1. CASE x \in [step : {"idle"}]
    BY <1>1 DEF Idle
  <1>2. CASE x \in [step : Step, op : {"Remit"}, row : Parcels, seller : Sellers,
                    amount : Amounts]
    BY <1>2 DEF Step
  <1>3. CASE x \in [step : Step, op : {"Post"}, row : Discrepancies,
                    seller : Sellers \cup {Null}, amount : Amounts]
    BY <1>3 DEF Step
  <1> QED BY <1>1, <1>2, <1>3 DEF Call

LEMMA CallMakes ==
    /\ Idle \in Call /\ Idle.step = "idle"
    /\ \A st \in Step, p \in Parcels, s \in Sellers, a \in Amounts :
          [step |-> st, op |-> "Remit", row |-> p, seller |-> s, amount |-> a] \in Call
    /\ \A st \in Step, d \in Discrepancies, s \in Sellers \cup {Null}, a \in Amounts :
          [step |-> st, op |-> "Post", row |-> d, seller |-> s, amount |-> a] \in Call
  BY DEF Call, Idle

(* The services' refs are all different and all known to the wallet. *)
LEMMA RefsOfCauses ==
    /\ \A p \in Parcels : RefOf(p) = RemitRef(p)
    /\ \A d \in Discrepancies : RefOf(d) = PostRef(d)
    /\ \A k \in ManualKinds, o \in Operators, a \in Amounts :
          /\ <<k, o, a>> \in Causes
          /\ RefOf(<<k, o, a>>) = ManualRef(k, o, a)
  <1>0. \A d \in Discrepancies : d \notin Parcels
    BY SettlementAssumption
  <1>1. \A p \in Parcels : RefOf(p) = RemitRef(p)
    BY <1>0 DEF RefOf
  <1>3. \A d \in Discrepancies : RefOf(d) = PostRef(d)
    BY <1>0 DEF RefOf
  <1>4. ASSUME NEW k \in ManualKinds, NEW o \in Operators, NEW a \in Amounts
        PROVE  /\ <<k, o, a>> \in Causes
               /\ RefOf(<<k, o, a>>) = ManualRef(k, o, a)
    <2>1. <<k, o, a>> \in Manual
      BY DEF Manual
    <2>2. <<k, o, a>> \notin Parcels /\ <<k, o, a>> \notin Discrepancies
      BY <2>1, SettlementAssumption
    <2> QED BY <2>1, <2>2 DEF RefOf, Causes
  <1> QED BY <1>1, <1>3, <1>4

LEMMA CauseForms ==
    ASSUME NEW c \in Causes
    PROVE  \/ c \in Parcels /\ RefOf(c) = RemitRef(c)
           \/ c \in Discrepancies /\ RefOf(c) = PostRef(c)
           \/ \E k \in ManualKinds, o \in Operators, a \in Amounts :
                 c = <<k, o, a>> /\ RefOf(c) = ManualRef(k, o, a)
  <1>1. CASE c \in Manual
    <2>1. PICK k \in ManualKinds, o \in Operators, a \in Amounts : c = <<k, o, a>>
      BY <1>1 DEF Manual
    <2> QED BY <2>1, RefsOfCauses
  <1> QED BY <1>1, RefsOfCauses DEF Causes

LEMMA RefsDiffer ==
    /\ \A c \in Causes : RefOf(c) \in Refs
    /\ \A b, c \in Causes : RefOf(b) = RefOf(c) => b = c
    /\ \A c \in Causes, p \in Parcels : RefOf(c) = RemitRef(p) => c = p
    /\ \A c \in Causes, d \in Discrepancies : RefOf(c) = PostRef(d) => c = d
  <1>1. ASSUME NEW c \in Causes PROVE RefOf(c) \in Refs
    BY CauseForms, RefsAssumption DEF SettlementRefs
  <1>2. ASSUME NEW b \in Causes, NEW c \in Causes, RefOf(b) = RefOf(c) PROVE b = c
    <2>1. /\ \A p, q : RemitRef(p) = RemitRef(q) => p = q
          /\ \A p, q : PostRef(p) = PostRef(q) => p = q
          /\ \A p, q : RemitRef(p) # PostRef(q)
          /\ \A p, k, o, a : k \in ManualKinds =>
                RemitRef(p) # ManualRef(k, o, a) /\ PostRef(p) # ManualRef(k, o, a)
          /\ \A k, o, a, l, u, e : ManualRef(k, o, a) = ManualRef(l, u, e) =>
                k = l /\ o = u /\ a = e
      BY DEF RemitRef, PostRef, ManualRef, ManualKinds
    <2> QED BY <1>2, <2>1, CauseForms
  <1> QED BY <1>1, <1>2, RefsOfCauses DEF Causes

-----------------------------------------------------------------------------
(* Counting workers. *)

InCount(x, c, st) == IF x.step = st /\ x.row = c THEN 1 ELSE 0

LEMMA AtFinite ==
    \A c, st : IsFiniteSet(At(c, st)) /\ Cardinality(At(c, st)) \in Nat
  <1> TAKE c, st
  <1>1. At(c, st) \subseteq Workers
    BY DEF At
  <1> QED BY <1>1, FS_Subset, FS_CardinalityType, SettlementAssumption

LEMMA AtTogether ==
    \A c : Cardinality(At(c, "read")) + Cardinality(At(c, "moved")) <= Cardinality(Workers)
  <1> TAKE c
  <1> DEFINE R == At(c, "read")
             M == At(c, "moved")
  <1>1. R \cup M \subseteq Workers /\ R \cap M = {}
    BY DEF At
  <1>2. IsFiniteSet(R) /\ IsFiniteSet(M)
    BY AtFinite
  <1> HIDE DEF R, M
  <1>3. Cardinality(R \cup M) = Cardinality(R) + Cardinality(M) - Cardinality(R \cap M)
    BY <1>2, FS_Union
  <1>4. Cardinality(R \cap M) = 0
    BY <1>1, FS_EmptySet
  <1>5. Cardinality(R \cup M) <= Cardinality(Workers)
    BY <1>1, FS_Subset, SettlementAssumption
  <1>6. Cardinality(R) \in Nat /\ Cardinality(M) \in Nat
    BY <1>2, FS_CardinalityType
  <1>7. Cardinality(R) + Cardinality(M) <= Cardinality(Workers)
    BY <1>3, <1>4, <1>5, <1>6
  <1> QED BY <1>7 DEF R, M

(* One worker moves on. *)
LEMMA AtMoves ==
    ASSUME SettlementTypeOK, NEW w \in Workers, NEW x \in Call,
           call' = [call EXCEPT ![w] = x], NEW c, NEW st
    PROVE  Cardinality(At(c, st))' = Cardinality(At(c, st)) - InCount(call[w], c, st)
                                                         + InCount(x, c, st)
  <1> DEFINE A == At(c, st)
             B == A \ {w}
  <1>1. call'[w] = x /\ \A v \in Workers \ {w} : call'[v] = call[v]
    BY DEF SettlementTypeOK
  <1>2. At(c, st)' = IF x.step = st /\ x.row = c THEN B \cup {w} ELSE B
    BY <1>1 DEF At
  <1>3. w \in A <=> call[w].step = st /\ call[w].row = c
    BY DEF At
  <1>4. IsFiniteSet(A) /\ Cardinality(A) \in Nat
    BY AtFinite
  <1> DEFINE A1 == At(c, st)'
  <1>5. A1 = IF x.step = st /\ x.row = c THEN B \cup {w} ELSE B
    BY <1>2
  <1> HIDE DEF A, A1
  <1>6. IsFiniteSet(B) /\ Cardinality(B) \in Nat
        /\ Cardinality(B) = Cardinality(A) - InCount(call[w], c, st)
    <2>1. CASE w \in A
      <3>1. IsFiniteSet(B) /\ Cardinality(B) = Cardinality(A) - 1
        BY <2>1, <1>4, FS_RemoveElement
      <3>2. InCount(call[w], c, st) = 1
        BY <2>1, <1>3 DEF InCount
      <3>3. Cardinality(B) \in Nat
        BY <3>1, FS_CardinalityType
      <3> QED BY <3>1, <3>2, <3>3, <1>4
    <2>2. CASE w \notin A
      <3>1. B = A
        BY <2>2
      <3>2. InCount(call[w], c, st) = 0
        BY <2>2, <1>3 DEF InCount
      <3> QED BY <3>1, <3>2, <1>4
    <2> QED BY <2>1, <2>2
  <1>7. w \notin B
    OBVIOUS
  <1> HIDE DEF B
  <1>8. Cardinality(A1) = Cardinality(B) + InCount(x, c, st)
    <2>1. CASE x.step = st /\ x.row = c
      <3>1. Cardinality(B \cup {w}) = Cardinality(B) + 1
        BY <1>6, <1>7, FS_AddElement
      <3> QED BY <2>1, <3>1, <1>5 DEF InCount
    <2>2. CASE ~(x.step = st /\ x.row = c)
      BY <2>2, <1>5, <1>6 DEF InCount
    <2> QED BY <2>1, <2>2
  <1>9. Cardinality(A1) = Cardinality(A) - InCount(call[w], c, st) + InCount(x, c, st)
    BY <1>6, <1>8
  <1> QED BY <1>9 DEF A, A1

-----------------------------------------------------------------------------
(* The wallet call for a cause: one row under the cause's own ref, and the
   balance moves with the ledger unless the row was there before.          *)

LEMMA MoneyMoves ==
    ASSUME SettlementInv, NEW c \in Causes, NEW s \in Sellers, NEW a \in Amounts,
           NEW dir \in Directions,
           dir = "credit" => Credit(s, a, RefOf(c)),
           dir = "debit" => Debit(s, a, RefOf(c)),
           moved' = [moved EXCEPT ![c] = @ + 1]
    PROVE  /\ IInv'
           /\ Accounted'
           /\ BooksBalanceUnlessRepeated'
           /\ moved' \in [Causes -> Nat]
           /\ moved'[c] = moved[c] + 1
           /\ \A b \in Causes \ {c} : moved'[b] = moved[b]
           /\ ledger \subseteq ledger'
           /\ \A e \in ledger' \ ledger : e = EntryFor(c, s, dir, a)
           /\ (\A e \in ledger : e.ref = RefOf(c) => e.dir # dir) =>
                 EntryFor(c, s, dir, a) \in ledger'
  <1>1. PICK r \in Refs : r = RefOf(c)
    BY RefsDiffer
  <1>2. /\ dir = "credit" => Credit(s, a, r)
        /\ dir = "debit" => Debit(s, a, r)
    BY <1>1
  <1>3. IInv'
    BY <1>2, CreditStep, DebitStep DEF SettlementInv, Directions
  <1>4. /\ ledger' = InsertLedgerEntry(s, dir, a, r)
        /\ balance' = [balance EXCEPT ![s] = IF dir = "credit" THEN @ + a ELSE @ + (-a)]
    BY <1>2 DEF Directions, Credit, Debit, UpdateBalance
  <1>5. TypeOK /\ FiniteTables /\ a \in 0..MaxMinor
    BY AmountsAssumption DEF SettlementInv, IInv
  <1>6. /\ ledger \subseteq ledger'
        /\ ~Posted(r, dir) =>
              [seller |-> s, ref |-> r, dir |-> dir, amount |-> a] \in ledger'
        /\ \A t : Credits(t)' = Credits(t) +
              (IF t = s /\ dir = "credit" /\ ~Posted(r, dir) THEN a ELSE 0)
        /\ \A t : Debits(t)' = Debits(t) +
              (IF t = s /\ dir = "debit" /\ ~Posted(r, dir) THEN a ELSE 0)
    BY <1>4, <1>5, LedgerStep
  <1>7. \A e \in ledger' \ ledger :
           e = [seller |-> s, ref |-> r, dir |-> dir, amount |-> a]
    BY <1>4 DEF InsertLedgerEntry, AppendLedgerEntry
  <1>8. /\ moved' \in [Causes -> Nat]
        /\ moved'[c] = moved[c] + 1
        /\ \A b \in Causes \ {c} : moved'[b] = moved[b]
        /\ \A b \in Causes : moved[b] \in Nat
    BY DEF SettlementInv, SettlementTypeOK
  <1>9. Accounted'
    <2> SUFFICES ASSUME NEW b \in Causes, moved'[b] = 0, NEW e \in ledger'
                 PROVE  e.ref # RefOf(b)
      BY DEF Accounted
    <2>1. b # c /\ moved[b] = 0
      BY <1>8
    <2>2. CASE e \in ledger
      BY <2>1, <2>2 DEF Accounted, SettlementInv
    <2>3. CASE e \notin ledger
      <3>1. e.ref = RefOf(c)
        BY <2>3, <1>1, <1>7
      <3> QED BY <3>1, <2>1, RefsDiffer
    <2> QED BY <2>2, <2>3
  <1>10. BooksBalanceUnlessRepeated'
    <2> SUFFICES ASSUME \A b \in DOMAIN moved' : moved'[b] <= 1, NEW t \in Sellers
                 PROVE  balance'[t] = Credits(t)' - Debits(t)'
      BY DEF BooksBalanceUnlessRepeated
    <2>1. DOMAIN moved' = Causes /\ DOMAIN moved = Causes
      BY <1>8 DEF SettlementInv, SettlementTypeOK
    <2>2. moved[c] = 0 /\ \A b \in Causes : moved[b] <= 1
      BY <1>8, <2>1
    <2>3. ~Posted(r, dir)
      BY <2>2, <1>1 DEF Posted, Accounted, SettlementInv
    <2>4. balance[t] = Credits(t) - Debits(t)
      BY <2>1, <2>2 DEF SettlementInv, BooksBalanceUnlessRepeated
    <2>5. Credits(t) \in Nat /\ Debits(t) \in Nat
      BY <1>5, TotalsAreNat
    <2>6. /\ Credits(t)' = Credits(t) + (IF t = s /\ dir = "credit" THEN a ELSE 0)
          /\ Debits(t)' = Debits(t) + (IF t = s /\ dir = "debit" THEN a ELSE 0)
      BY <1>6, <2>3
    <2>7. balance'[t] = balance[t] + (IF t # s THEN 0 ELSE IF dir = "credit" THEN a ELSE -a)
      BY <1>4, <1>5 DEF TypeOK, Minor
    <2> QED BY <2>4, <2>5, <2>6, <2>7, <1>5 DEF Directions
  <1>11. (\A e \in ledger : e.ref = RefOf(c) => e.dir # dir) => ~Posted(r, dir)
    BY <1>1 DEF Posted
  <1> QED BY <1>1, <1>3, <1>6, <1>7, <1>8, <1>9, <1>10, <1>11 DEF EntryFor

(* A step that leaves the wallet alone. *)
LEMMA WalletKept ==
    ASSUME SettlementInv, UNCHANGED <<vars, moved>>
    PROVE  IInv' /\ Accounted' /\ BooksBalanceUnlessRepeated'
  <1>1. IInv'
    BY NextIInv DEF SettlementInv
  <1>2. ledger' = ledger /\ balance' = balance
    BY DEF vars
  <1>3. Accounted'
    BY <1>2 DEF Accounted, SettlementInv
  <1>4. \A s : Credits(s)' = Credits(s) /\ Debits(s)' = Debits(s)
    BY <1>2, LedgerUnchanged
  <1>5. BooksBalanceUnlessRepeated'
    BY <1>2, <1>4 DEF BooksBalanceUnlessRepeated, SettlementInv
  <1> QED BY <1>1, <1>3, <1>5

-----------------------------------------------------------------------------
(* Steps of the rows.  A reported amount and a raised delta stay; who is
   marked stays marked.                                                    *)

RowsHold ==
    /\ \A p \in Parcels : Reported(p) => cod'[p] = cod[p]
    /\ \A p \in Parcels : ~Reported(p) => cod'[p].state # "remitted"
    /\ \A d \in Discrepancies : Raised(d) =>
          /\ Raised(d)'
          /\ wd'[d].seller = wd[d].seller
          /\ wd'[d].delta = wd[d].delta
    /\ \A d \in Discrepancies : wd'[d].state = "posted" => wd[d].state = "posted"
    /\ \A d \in Discrepancies : wd[d].state = "posted" => wd'[d].state = "posted"

LEMMA RowStep ==
    ASSUME SettlementInv, RowsHold, UNCHANGED <<vars, call, moved, faults>>,
           cod' \in [Parcels -> CodRow], wd' \in [Discrepancies -> DiscrepancyRow]
    PROVE  SettlementInv'
  <1>1. IInv' /\ Accounted' /\ BooksBalanceUnlessRepeated'
    BY WalletKept
  <1>2. ledger' = ledger
    BY DEF vars
  <1>3. SettlementTypeOK'
    BY <1>1 DEF SettlementInv, SettlementTypeOK, IInv
  <1>4. /\ \A p \in Parcels : Reported(p) => Reported(p)' /\ RemitEntry(p)' = RemitEntry(p)
        /\ \A d \in Discrepancies : Raised(d) => Raised(d)' /\ PostEntry(d)' = PostEntry(d)
    BY DEF RowsHold, Reported, RemitEntry, PostEntry
  <1>5. \A w \in Workers : call[w] \in Call
    BY DEF SettlementInv, SettlementTypeOK
  <1>6. CallsMatch'
    <2> SUFFICES ASSUME NEW w \in Workers PROVE (CallMatches(call[w]) /\ EntryLeft(call[w]))'
      BY DEF CallsMatch
    <2>1. CallMatches(call[w]) /\ EntryLeft(call[w])
      BY DEF SettlementInv, CallsMatch
    <2>2. call'[w] = call[w]
      OBVIOUS
    <2>3. CASE call[w].step = "idle"
      BY <2>2, <2>3 DEF CallMatches, EntryLeft
    <2>4. CASE call[w].step # "idle" /\ call[w].op = "Remit" /\ call[w].row \in Parcels
      <3>1. PICK p \in Parcels : p = call[w].row
        BY <2>4
      <3>2. Reported(p) /\ cod'[p] = cod[p]
        BY <2>1, <2>4, <3>1 DEF CallMatches, RowsHold
      <3> QED BY <2>1, <2>2, <2>4, <3>1, <3>2, <1>2, <1>4 DEF CallMatches, EntryLeft
    <2>5. CASE call[w].step # "idle" /\ call[w].op = "Post" /\ call[w].row \in Discrepancies
      <3>1. PICK d \in Discrepancies : d = call[w].row
        BY <2>5
      <3>2. Raised(d) /\ wd'[d].seller = wd[d].seller /\ wd'[d].delta = wd[d].delta
        BY <2>1, <2>5, <3>1 DEF CallMatches, RowsHold
      <3> QED BY <2>1, <2>2, <2>5, <3>1, <3>2, <1>2, <1>4 DEF CallMatches, EntryLeft
    <2> QED BY <2>3, <2>4, <2>5, <1>5, CallShape
  <1>7. EntriesMatch'
    BY <1>2, <1>4 DEF EntriesMatch, SettlementInv
  <1>8. SettledHasEntry'
    <2>1. \A p \in Parcels : cod'[p].state = "remitted" => cod'[p] = cod[p]
      BY DEF RowsHold
    <2>2. \A d \in Discrepancies : wd'[d].state = "posted" =>
             wd[d].state = "posted" /\ wd'[d].seller = wd[d].seller /\ wd'[d].delta = wd[d].delta
      BY DEF RowsHold, Raised
    <2> QED BY <2>1, <2>2, <1>2 DEF SettledHasEntry, SettlementInv
  <1>9. Repeats'
    <2> SUFFICES ASSUME NEW c \in Parcels \cup Discrepancies PROVE RepeatsOf(c)'
      BY DEF Repeats
    <2>1. Marked(c)' <=> Marked(c)
      BY DEF Marked, RowsHold, Reported
    <2>2. \A st : At(c, st)' = At(c, st)
      BY DEF At
    <2>3. RepeatsOf(c)
      BY DEF SettlementInv, Repeats
    <2> QED BY <2>1, <2>2, <2>3 DEF RepeatsOf
  <1> QED BY <1>1, <1>3, <1>6, <1>7, <1>8, <1>9 DEF SettlementInv

LEMMA RowActions ==
    ASSUME SettlementInv,
           \/ \E p \in Parcels, s \in Sellers : Register(s, p)
           \/ \E p \in Parcels, a \in Amounts : MarkCollected(p, a)
           \/ \E d \in Discrepancies :
                 \/ \E s \in Sellers \cup {Null}, a \in Amounts : RaiseDiscrepancy(d, s, a)
                 \/ Dispute(d) \/ Approve(d) \/ Reject(d) \/ WindowCloses(d)
    PROVE  SettlementInv'
  <1>0. cod \in [Parcels -> CodRow] /\ wd \in [Discrepancies -> DiscrepancyRow]
    BY DEF SettlementInv, SettlementTypeOK
  <1>1. ASSUME NEW p \in Parcels, NEW s \in Sellers, Register(s, p) PROVE SettlementInv'
    <2>1. /\ cod[p].state = "none"
          /\ cod' = [cod EXCEPT ![p] = [state |-> "pending", seller |-> s]]
          /\ UNCHANGED <<vars, wd, call, moved, faults>>
      BY <1>1 DEF Register, NewCod
    <2>2. [state |-> "pending", seller |-> s] \in CodRow
      BY DEF CodRow
    <2>3. cod' \in [Parcels -> CodRow] /\ wd' \in [Discrepancies -> DiscrepancyRow]
      BY <1>0, <2>1, <2>2
    <2>4. RowsHold
      BY <1>0, <2>1 DEF RowsHold, Reported, Raised
    <2> QED BY <2>1, <2>3, <2>4, RowStep
  <1>2. ASSUME NEW p \in Parcels, NEW a \in Amounts, MarkCollected(p, a) PROVE SettlementInv'
    <2>1. cod[p].state = "pending" /\ cod[p] \in CodRow
      BY <1>0, <1>2 DEF MarkCollected, Collectable
    <2>2. PICK s \in Sellers : s = cod[p].seller
      BY <2>1, CodShape
    <2>3. /\ cod' = [cod EXCEPT ![p] = [state |-> "collected", seller |-> s, reported |-> a]]
          /\ UNCHANGED <<vars, wd, call, moved, faults>>
      BY <1>2, <2>2 DEF MarkCollected
    <2>4. [state |-> "collected", seller |-> s, reported |-> a] \in CodRow
      BY DEF CodRow
    <2>5. cod' \in [Parcels -> CodRow] /\ wd' \in [Discrepancies -> DiscrepancyRow]
      BY <1>0, <2>3, <2>4
    <2>6. RowsHold
      BY <1>0, <2>1, <2>3 DEF RowsHold, Reported, Raised
    <2> QED BY <2>3, <2>5, <2>6, RowStep
  <1>3. ASSUME NEW d \in Discrepancies, NEW r \in DiscrepancyRow,
               r.state \notin {"none", "posted"},
               wd[d].state # "posted",
               Raised(d) => r.seller = wd[d].seller /\ r.delta = wd[d].delta,
               wd' = [wd EXCEPT ![d] = r],
               UNCHANGED <<vars, cod, call, moved, faults>>
        PROVE  SettlementInv'
    <2>1. cod' \in [Parcels -> CodRow] /\ wd' \in [Discrepancies -> DiscrepancyRow]
      BY <1>0, <1>3
    <2>2. RowsHold
      BY <1>0, <1>3 DEF RowsHold, Reported, Raised
    <2> QED BY <1>3, <2>1, <2>2, RowStep
  <1>4. ASSUME NEW d \in Discrepancies, NEW s \in Sellers \cup {Null}, NEW a \in Amounts,
               RaiseDiscrepancy(d, s, a)
        PROVE  SettlementInv'
    <2> DEFINE r == [state |-> "raised", seller |-> s, delta |-> a, windowOpen |-> TRUE]
    <2>1. r \in DiscrepancyRow /\ r.state = "raised"
      BY DEF DiscrepancyRow
    <2>2. /\ wd[d].state = "none"
          /\ wd' = [wd EXCEPT ![d] = r]
          /\ UNCHANGED <<vars, cod, call, moved, faults>>
      BY <1>4 DEF RaiseDiscrepancy
    <2> HIDE DEF r
    <2> QED BY <1>3, <2>1, <2>2 DEF Raised
  <1>5. ASSUME NEW d \in Discrepancies, NEW st \in {"raised", "disputed", "approved", "rejected"},
               NEW o \in BOOLEAN, NEW s \in Sellers \cup {Null}, NEW a \in Amounts,
               wd[d].state \in {"raised", "disputed"}, s = wd[d].seller, a = wd[d].delta,
               wd' = [wd EXCEPT ![d] = [state |-> st, seller |-> s, delta |-> a,
                                        windowOpen |-> o]],
               UNCHANGED <<vars, cod, call, moved, faults>>
        PROVE  SettlementInv'
    <2> DEFINE r == [state |-> st, seller |-> s, delta |-> a, windowOpen |-> o]
    <2>1. r \in DiscrepancyRow /\ r.state = st /\ r.seller = s /\ r.delta = a
      BY DEF DiscrepancyRow
    <2>2. wd' = [wd EXCEPT ![d] = r]
      BY <1>5
    <2> HIDE DEF r
    <2> QED BY <1>3, <1>5, <2>1, <2>2
  <1>6. ASSUME NEW d \in Discrepancies, Dispute(d) \/ Approve(d) \/ Reject(d)
        PROVE  SettlementInv'
    <2>1. PICK st \in {"disputed", "approved", "rejected"} :
             /\ wd[d].state \in {"raised", "disputed"}
             /\ wd' = [wd EXCEPT ![d] = [wd[d] EXCEPT !.state = st]]
             /\ UNCHANGED <<vars, cod, call, moved, faults>>
      BY <1>6 DEF Dispute, Approve, Reject, SetDiscrepancy
    <2>2. PICK s \in Sellers \cup {Null}, a \in Amounts, o \in BOOLEAN, q \in {"raised", "disputed"} :
             wd[d] = [state |-> q, seller |-> s, delta |-> a, windowOpen |-> o]
      BY <1>0, <2>1, WdShape
    <2>3. s = wd[d].seller /\ a = wd[d].delta
      BY <2>2
    <2>4. [wd[d] EXCEPT !.state = st]
             = [state |-> st, seller |-> s, delta |-> a, windowOpen |-> o]
      BY <2>2
    <2>5. wd' = [wd EXCEPT ![d] = [state |-> st, seller |-> s, delta |-> a,
                                   windowOpen |-> o]]
      BY <2>1, <2>4
    <2> QED BY <2>1, <2>3, <2>5, <1>5
  <1>7. ASSUME NEW d \in Discrepancies, WindowCloses(d) PROVE SettlementInv'
    <2>1. PICK n \in BOOLEAN : n = FALSE
      OBVIOUS
    <2>2. /\ wd[d].state = "raised"
          /\ wd' = [wd EXCEPT ![d] = [wd[d] EXCEPT !.windowOpen = n]]
          /\ UNCHANGED <<vars, cod, call, moved, faults>>
      BY <1>7, <2>1 DEF WindowCloses
    <2>3. PICK s \in Sellers \cup {Null}, a \in Amounts, o \in BOOLEAN :
             wd[d] = [state |-> "raised", seller |-> s, delta |-> a, windowOpen |-> o]
      BY <1>0, <2>2, WdShape
    <2>4. s = wd[d].seller /\ a = wd[d].delta
      BY <2>3
    <2>5. [wd[d] EXCEPT !.windowOpen = n]
             = [state |-> "raised", seller |-> s, delta |-> a, windowOpen |-> n]
      BY <2>3
    <2>6. wd' = [wd EXCEPT ![d] = [state |-> "raised", seller |-> s, delta |-> a,
                                   windowOpen |-> n]]
      BY <2>2, <2>5
    <2> QED BY <2>2, <2>4, <2>6, <1>5
  <1> QED BY <1>1, <1>2, <1>4, <1>6, <1>7

-----------------------------------------------------------------------------
(* Steps of a worker. *)

(* Nobody else's call is disturbed: the ledger only grows, and the rows the
   others read keep what they read.                                        *)
LEMMA OthersMatch ==
    ASSUME SettlementInv, NEW w \in Workers, NEW x \in Call,
           call' = [call EXCEPT ![w] = x], ledger \subseteq ledger',
           \A p \in Parcels : Reported(p) => Reported(p)' /\ RemitEntry(p)' = RemitEntry(p),
           \A d \in Discrepancies : Raised(d) => Raised(d)' /\ PostEntry(d)' = PostEntry(d),
           CallMatches(x)', EntryLeft(x)'
    PROVE  CallsMatch' /\ call' \in [Workers -> Call]
  <1>1. call'[w] = x /\ call' \in [Workers -> Call]
    BY DEF SettlementInv, SettlementTypeOK
  <1>2. (CallMatches(call[w]) /\ EntryLeft(call[w]))'
    BY <1>1 DEF CallMatches, EntryLeft
  <1>3. ASSUME NEW v \in Workers, v # w PROVE (CallMatches(call[v]) /\ EntryLeft(call[v]))'
    <2>1. CallMatches(call[v]) /\ EntryLeft(call[v]) /\ call[v] \in Call
      BY DEF SettlementInv, CallsMatch, SettlementTypeOK
    <2>2. call'[v] = call[v]
      BY <1>3 DEF SettlementInv, SettlementTypeOK
    <2>3. CASE call[v].step = "idle"
      BY <2>2, <2>3 DEF CallMatches, EntryLeft
    <2>4. CASE call[v].step # "idle" /\ call[v].op = "Remit" /\ call[v].row \in Parcels
      <3>1. PICK p \in Parcels : p = call[v].row
        BY <2>4
      <3>2. Reported(p) /\ Reported(p)' /\ RemitEntry(p)' = RemitEntry(p)
        BY <2>1, <2>4, <3>1 DEF CallMatches
      <3>3. cod'[p].seller = cod[p].seller /\ cod'[p].reported = cod[p].reported
        BY <3>2 DEF RemitEntry
      <3> QED BY <2>1, <2>2, <2>4, <3>1, <3>2, <3>3 DEF CallMatches, EntryLeft
    <2>5. CASE call[v].step # "idle" /\ call[v].op = "Post" /\ call[v].row \in Discrepancies
      <3>1. PICK d \in Discrepancies : d = call[v].row
        BY <2>5
      <3>2. Raised(d) /\ Raised(d)' /\ PostEntry(d)' = PostEntry(d)
        BY <2>1, <2>5, <3>1 DEF CallMatches
      <3>3. wd'[d].seller = wd[d].seller /\ wd'[d].delta = wd[d].delta
        BY <3>2 DEF PostEntry
      <3> QED BY <2>1, <2>2, <2>5, <3>1, <3>2, <3>3 DEF CallMatches, EntryLeft
    <2> QED BY <2>1, <2>3, <2>4, <2>5, CallShape
  <1> QED BY <1>1, <1>2, <1>3 DEF CallsMatch

(* A step within a call that reaches neither the wallet nor a row. *)
LEMMA CallStep ==
    ASSUME SettlementInv, NEW w \in Workers, NEW x \in Call,
           call' = [call EXCEPT ![w] = x], UNCHANGED <<vars, cod, wd, moved>>,
           faults' \in 0..MaxFaults,
           CallMatches(x), EntryLeft(x),
           \A c \in Parcels \cup Discrepancies : RepeatsOf(c)'
    PROVE  SettlementInv'
  <1>1. IInv' /\ Accounted' /\ BooksBalanceUnlessRepeated'
    BY WalletKept
  <1>2. ledger' = ledger
    BY DEF vars
  <1>3. /\ \A p \in Parcels : Reported(p) => Reported(p)' /\ RemitEntry(p)' = RemitEntry(p)
        /\ \A d \in Discrepancies : Raised(d) => Raised(d)' /\ PostEntry(d)' = PostEntry(d)
    BY DEF Reported, Raised, RemitEntry, PostEntry
  <1>4. CallMatches(x)' /\ EntryLeft(x)'
    BY <1>2 DEF CallMatches, EntryLeft, Reported, Raised, RemitEntry, PostEntry
  <1>5. CallsMatch' /\ call' \in [Workers -> Call]
    BY <1>2, <1>3, <1>4, OthersMatch
  <1>6. SettlementTypeOK'
    BY <1>1, <1>5 DEF SettlementInv, SettlementTypeOK, IInv
  <1>7. EntriesMatch' /\ SettledHasEntry'
    BY <1>2, <1>3 DEF SettlementInv, EntriesMatch, SettledHasEntry, RemitEntry, PostEntry
  <1> QED BY <1>1, <1>5, <1>6, <1>7 DEF SettlementInv, Repeats

(* The row of a call, and what it counts for. *)
LEMMA CountNumbers ==
    ASSUME SettlementInv, NEW c \in Parcels \cup Discrepancies
    PROVE  /\ moved[c] \in Nat /\ faults \in Nat
           /\ Cardinality(At(c, "read")) \in Nat
           /\ Cardinality(At(c, "moved")) \in Nat
           /\ Cardinality(Workers) \in Nat
           /\ RepeatsOf(c)
           /\ \A x : /\ InCount(x, c, "read") \in {0, 1}
                     /\ InCount(x, c, "moved") \in {0, 1}
                     /\ InCount(x, c, "read") = 1 => InCount(x, c, "moved") = 0
  <1>1. moved[c] \in Nat /\ faults \in Nat
    BY SettlementAssumption DEF SettlementInv, SettlementTypeOK, Causes
  <1>2. Cardinality(Workers) \in Nat
    BY SettlementAssumption, FS_CardinalityType
  <1> QED BY <1>1, <1>2, AtFinite DEF SettlementInv, Repeats, InCount

LEMMA ReadKeeps ==
    ASSUME SettlementInv, NEW w \in Workers,
           \/ \E p \in Parcels : Remit(w, p)
           \/ \E d \in Discrepancies : Post(w, d)
    PROVE  SettlementInv'
  <1>0. /\ SettlementTypeOK
        /\ cod \in [Parcels -> CodRow] /\ wd \in [Discrepancies -> DiscrepancyRow]
    BY DEF SettlementInv, SettlementTypeOK
  <1>1. ASSUME NEW x \in Call, x.step = "read", x.row \in Parcels \cup Discrepancies,
               ~Marked(x.row), CallMatches(x), call[w] = Idle,
               call' = [call EXCEPT ![w] = x], UNCHANGED <<vars, cod, wd, moved, faults>>
        PROVE  SettlementInv'
    <2>1. ASSUME NEW c \in Parcels \cup Discrepancies PROVE RepeatsOf(c)'
      <3>1. /\ InCount(call[w], c, "read") = 0 /\ InCount(call[w], c, "moved") = 0
            /\ InCount(x, c, "moved") = 0
            /\ Marked(c) => InCount(x, c, "read") = 0
        BY <1>1, CallMakes DEF InCount
      <3>2. /\ Cardinality(At(c, "moved"))' = Cardinality(At(c, "moved"))
                  - InCount(call[w], c, "moved") + InCount(x, c, "moved")
            /\ Cardinality(At(c, "read"))' = Cardinality(At(c, "read"))
                  - InCount(call[w], c, "read") + InCount(x, c, "read")
        BY <1>0, <1>1, AtMoves
      <3>3. Marked(c)' <=> Marked(c)
        BY <1>1 DEF Marked
      <3>4. /\ Cardinality(At(c, "moved"))' = Cardinality(At(c, "moved"))
            /\ Marked(c) => Cardinality(At(c, "read"))' = Cardinality(At(c, "read"))
        BY <3>1, <3>2, CountNumbers
      <3> QED BY <1>1, <3>3, <3>4, CountNumbers DEF RepeatsOf
    <2>2. EntryLeft(x)
      BY <1>1 DEF EntryLeft
    <2>3. faults' \in 0..MaxFaults
      BY <1>1 DEF SettlementInv, SettlementTypeOK
    <2> QED BY <1>1, <2>1, <2>2, <2>3, CallStep
  <1>2. ASSUME NEW p \in Parcels, Remit(w, p) PROVE SettlementInv'
    <2>1. cod[p].state = "collected" /\ cod[p] \in CodRow
      BY <1>0, <1>2 DEF Remit, Remittable
    <2>2. PICK s \in Sellers, a \in Amounts : s = cod[p].seller /\ a = cod[p].reported
      BY <2>1, CodShape
    <2> DEFINE x == [step |-> "read", op |-> "Remit", row |-> p, seller |-> s, amount |-> a]
    <2>3. /\ call[w] = Idle
          /\ call' = [call EXCEPT ![w] = x]
          /\ UNCHANGED <<vars, cod, wd, moved, faults>>
      BY <1>2, <2>2 DEF Remit
    <2>4. x \in Call
      BY CallMakes DEF Step
    <2>5. x.step = "read" /\ x.op = "Remit" /\ x.row = p /\ x.seller = s /\ x.amount = a
      OBVIOUS
    <2> HIDE DEF x
    <2>6. CallMatches(x) /\ ~Marked(p)
      BY <2>1, <2>2, <2>5 DEF CallMatches, Reported, Marked
    <2> QED BY <1>1, <2>3, <2>4, <2>5, <2>6
  <1>3. ASSUME NEW d \in Discrepancies, Post(w, d) PROVE SettlementInv'
    <2>1. wd[d].state \in {"raised", "approved"} /\ wd[d] \in DiscrepancyRow
      BY <1>0, <1>3 DEF Post
    <2>2. PICK s \in Sellers \cup {Null}, a \in Amounts : s = wd[d].seller /\ a = wd[d].delta
      BY <2>1, WdShape
    <2> DEFINE x == [step |-> "read", op |-> "Post", row |-> d, seller |-> s, amount |-> a]
    <2>3. /\ call[w] = Idle
          /\ call' = [call EXCEPT ![w] = x]
          /\ UNCHANGED <<vars, cod, wd, moved, faults>>
      BY <1>3, <2>2 DEF Post
    <2>4. x \in Call
      BY CallMakes DEF Step
    <2>5. x.step = "read" /\ x.op = "Post" /\ x.row = d /\ x.seller = s /\ x.amount = a
      OBVIOUS
    <2> HIDE DEF x
    <2>6. d \notin Parcels
      BY SettlementAssumption
    <2>7. CallMatches(x) /\ ~Marked(d)
      BY <2>1, <2>2, <2>5, <2>6 DEF CallMatches, Raised, Marked
    <2> QED BY <1>1, <2>3, <2>4, <2>5, <2>7
  <1> QED BY <1>2, <1>3

(* The call ends with its row unmarked. *)
LEMMA AbandonKeeps ==
    ASSUME SettlementInv, NEW w \in Workers, WalletRefuses(w) \/ WorkerDies(w)
    PROVE  SettlementInv'
  <1>0. SettlementTypeOK /\ Idle \in Call /\ Idle.step = "idle"
    BY CallMakes DEF SettlementInv
  <1>1. /\ call' = [call EXCEPT ![w] = Idle]
        /\ UNCHANGED <<vars, cod, wd, moved>>
        /\ \/ call[w].step = "read" /\ faults' = faults
           \/ call[w].step = "moved" /\ faults < MaxFaults /\ faults' = faults + 1
    BY DEF WalletRefuses, WorkerDies
  <1>2. faults' \in 0..MaxFaults
    BY <1>1, SettlementAssumption DEF SettlementInv, SettlementTypeOK
  <1>3. ASSUME NEW c \in Parcels \cup Discrepancies PROVE RepeatsOf(c)'
    <2>1. /\ InCount(Idle, c, "read") = 0 /\ InCount(Idle, c, "moved") = 0
      BY <1>0 DEF InCount
    <2>2. /\ Cardinality(At(c, "moved"))' = Cardinality(At(c, "moved"))
                - InCount(call[w], c, "moved") + InCount(Idle, c, "moved")
          /\ Cardinality(At(c, "read"))' = Cardinality(At(c, "read"))
                - InCount(call[w], c, "read") + InCount(Idle, c, "read")
      BY <1>0, <1>1, AtMoves
    <2>3. Marked(c)' <=> Marked(c)
      BY <1>1 DEF Marked
    <2>4. \/ InCount(call[w], c, "moved") = 0 /\ faults' = faults
          \/ faults' = faults + 1
      BY <1>1 DEF InCount
    <2> DEFINE i == InCount(call[w], c, "read")
               j == InCount(call[w], c, "moved")
    <2>5. i \in {0, 1} /\ j \in {0, 1}
      BY CountNumbers
    <2>6. /\ Cardinality(At(c, "moved"))' = Cardinality(At(c, "moved")) - j
          /\ Cardinality(At(c, "read"))' = Cardinality(At(c, "read")) - i
      BY <2>1, <2>2, <2>5, CountNumbers
    <2> HIDE DEF i, j
    <2>7. (j = 0 /\ faults' = faults) \/ faults' = faults + 1
      BY <2>4 DEF j
    <2> QED BY <1>1, <2>3, <2>5, <2>6, <2>7, CountNumbers DEF RepeatsOf
  <1>4. CallMatches(Idle) /\ EntryLeft(Idle)
    BY <1>0 DEF CallMatches, EntryLeft
  <1> QED BY <1>0, <1>1, <1>2, <1>3, <1>4, CallStep

(* The call marks its row. *)
LEMMA MarkKeeps ==
    ASSUME SettlementInv, NEW w \in Workers, MarkRemitted(w) \/ MarkPosted(w)
    PROVE  SettlementInv'
  <1>0. /\ SettlementTypeOK /\ call[w] \in Call
        /\ cod \in [Parcels -> CodRow] /\ wd \in [Discrepancies -> DiscrepancyRow]
        /\ Idle \in Call /\ Idle.step = "idle"
    BY CallMakes DEF SettlementInv, SettlementTypeOK
  <1>1. /\ call' = [call EXCEPT ![w] = Idle]
        /\ UNCHANGED <<vars, moved, faults>>
        /\ call[w].step = "moved"
    BY DEF MarkRemitted, MarkPosted
  <1>2. IInv' /\ Accounted' /\ BooksBalanceUnlessRepeated'
    BY <1>1, WalletKept
  <1>3. ledger' = ledger
    BY <1>1 DEF vars
  <1>4. CallMatches(call[w]) /\ EntryLeft(call[w])
    BY DEF SettlementInv, CallsMatch
  <1>5. ASSUME NEW c \in Parcels \cup Discrepancies, c = call[w].row,
               \A b \in Parcels \cup Discrepancies : Marked(b)' <=> b = c \/ Marked(b)
        PROVE  Repeats'
    <2> SUFFICES ASSUME NEW b \in Parcels \cup Discrepancies PROVE RepeatsOf(b)'
      BY DEF Repeats
    <2>1. /\ InCount(Idle, b, "read") = 0 /\ InCount(Idle, b, "moved") = 0
          /\ InCount(call[w], b, "read") = 0
          /\ InCount(call[w], b, "moved") = IF b = c THEN 1 ELSE 0
      BY <1>0, <1>1, <1>5 DEF InCount
    <2>2. /\ Cardinality(At(b, "moved"))' = Cardinality(At(b, "moved"))
                - InCount(call[w], b, "moved") + InCount(Idle, b, "moved")
          /\ Cardinality(At(b, "read"))' = Cardinality(At(b, "read"))
                - InCount(call[w], b, "read") + InCount(Idle, b, "read")
      <3>1. SettlementTypeOK /\ Idle \in Call /\ call' = [call EXCEPT ![w] = Idle]
        BY <1>0, <1>1
      <3>2. Cardinality(At(b, "moved"))' = Cardinality(At(b, "moved"))
               - InCount(call[w], b, "moved") + InCount(Idle, b, "moved")
        BY <3>1, AtMoves
      <3>3. Cardinality(At(b, "read"))' = Cardinality(At(b, "read"))
               - InCount(call[w], b, "read") + InCount(Idle, b, "read")
        BY <3>1, AtMoves
      <3> QED BY <3>2, <3>3
    <2>3. /\ b # c => Cardinality(At(b, "moved"))' = Cardinality(At(b, "moved"))
          /\ Cardinality(At(b, "read"))' = Cardinality(At(b, "read"))
      BY <2>1, <2>2, CountNumbers
    <2>4. Cardinality(At(b, "read")) + Cardinality(At(b, "moved")) <= Cardinality(Workers)
      BY AtTogether
    <2> QED BY <1>1, <1>5, <2>3, <2>4, CountNumbers DEF RepeatsOf
  <1>6. CASE MarkRemitted(w)
    <2>1. call[w].op = "Remit" /\ call[w].row \in Parcels
      BY <1>0, <1>1, <1>6, CallShape DEF MarkRemitted
    <2>2. PICK p \in Parcels : p = call[w].row
      BY <2>1
    <2>3. Reported(p) /\ RemitEntry(p) \in ledger
      BY <1>1, <1>4, <2>1, <2>2 DEF CallMatches, EntryLeft
    <2>4. PICK s \in Sellers, a \in Amounts, q \in {"collected", "remitted"} :
             cod[p] = [state |-> q, seller |-> s, reported |-> a]
      BY <1>0, <2>3, CodShape DEF Reported
    <2> DEFINE r == [state |-> "remitted", seller |-> s, reported |-> a]
    <2>5. cod' = [cod EXCEPT ![p] = r] /\ wd' = wd
      <3>1. [cod[p] EXCEPT !.state = "remitted"] = r
        BY <2>4
      <3>2. cod' = [cod EXCEPT ![p] = [cod[p] EXCEPT !.state = "remitted"]] /\ wd' = wd
        BY <1>6, <2>2 DEF MarkRemitted
      <3> QED BY <3>1, <3>2
    <2>6. r \in CodRow /\ r.state = "remitted" /\ r.seller = cod[p].seller
          /\ r.reported = cod[p].reported
      BY <2>4 DEF CodRow
    <2> HIDE DEF r
    <2>7. /\ cod' \in [Parcels -> CodRow] /\ cod'[p] = r
          /\ \A q2 \in Parcels \ {p} : cod'[q2] = cod[q2]
      BY <1>0, <2>5, <2>6
    <2>8. /\ \A p2 \in Parcels : Reported(p2) =>
                Reported(p2)' /\ RemitEntry(p2)' = RemitEntry(p2)
          /\ \A p2 \in Parcels : Reported(p2)' => Reported(p2)
          /\ \A d \in Discrepancies : Raised(d) => Raised(d)' /\ PostEntry(d)' = PostEntry(d)
      BY <2>3, <2>5, <2>6, <2>7 DEF Reported, Raised, RemitEntry, PostEntry
    <2>9. CallsMatch' /\ call' \in [Workers -> Call]
      <3>1. CallMatches(Idle)' /\ EntryLeft(Idle)'
        BY <1>0 DEF CallMatches, EntryLeft
      <3> QED BY <1>0, <1>1, <1>3, <2>8, <3>1, OthersMatch
    <2>10. SettlementTypeOK'
      BY <1>1, <1>2, <2>5, <2>7, <2>9 DEF SettlementInv, SettlementTypeOK, IInv
    <2>11. EntriesMatch'
      BY <1>3, <2>8 DEF SettlementInv, EntriesMatch
    <2>12. SettledHasEntry'
      <3>1. \A p2 \in Parcels : cod'[p2].state = "remitted" => RemitEntry(p2)' \in ledger'
        <4> SUFFICES ASSUME NEW p2 \in Parcels, cod'[p2].state = "remitted"
                     PROVE  RemitEntry(p2)' \in ledger'
          OBVIOUS
        <4>1. CASE p2 = p
          BY <4>1, <1>3, <2>3, <2>8
        <4>2. CASE p2 # p
          <5>1. cod[p2].state = "remitted"
            BY <4>2, <2>7
          <5>2. RemitEntry(p2) \in ledger /\ Reported(p2)
            BY <5>1 DEF SettlementInv, SettledHasEntry, RemitEntry, Reported
          <5> QED BY <5>2, <1>3, <2>8
        <4> QED BY <4>1, <4>2
      <3> QED BY <3>1, <2>5, <1>3 DEF SettlementInv, SettledHasEntry, RemitEntry
    <2>13. Repeats'
      <3>1. \A b \in Parcels \cup Discrepancies : Marked(b)' <=> b = p \/ Marked(b)
        BY <2>5, <2>6, <2>7 DEF Marked
      <3> QED BY <1>5, <2>2, <3>1
    <2> QED BY <1>2, <2>9, <2>10, <2>11, <2>12, <2>13 DEF SettlementInv
  <1>7. CASE MarkPosted(w)
    <2>1. call[w].op = "Post" /\ call[w].row \in Discrepancies
      BY <1>0, <1>1, <1>7, CallShape DEF MarkPosted
    <2>2. PICK d \in Discrepancies : d = call[w].row
      BY <2>1
    <2>3. /\ Raised(d)
          /\ Chargeable(wd[d].seller, wd[d].delta) => PostEntry(d) \in ledger
      BY <1>1, <1>4, <2>1, <2>2 DEF CallMatches, EntryLeft
    <2>4. PICK s \in Sellers \cup {Null}, a \in Amounts, o \in BOOLEAN, q \in {"raised", "disputed", "approved", "rejected", "posted"} :
             wd[d] = [state |-> q, seller |-> s, delta |-> a, windowOpen |-> o]
      BY <1>0, <2>3, WdShape DEF Raised
    <2> DEFINE r == [state |-> "posted", seller |-> s, delta |-> a, windowOpen |-> o]
    <2>5. wd' = [wd EXCEPT ![d] = r] /\ cod' = cod
      <3>1. [wd[d] EXCEPT !.state = "posted"] = r
        BY <2>4
      <3>2. wd' = [wd EXCEPT ![d] = [wd[d] EXCEPT !.state = "posted"]] /\ cod' = cod
        BY <1>7, <2>2 DEF MarkPosted
      <3> QED BY <3>1, <3>2
    <2>6. r \in DiscrepancyRow /\ r.state = "posted" /\ r.seller = wd[d].seller
          /\ r.delta = wd[d].delta
      BY <2>4 DEF DiscrepancyRow
    <2> HIDE DEF r
    <2>7. /\ wd' \in [Discrepancies -> DiscrepancyRow] /\ wd'[d] = r
          /\ \A d2 \in Discrepancies \ {d} : wd'[d2] = wd[d2]
      BY <1>0, <2>5, <2>6
    <2>8. /\ \A p \in Parcels : Reported(p) => Reported(p)' /\ RemitEntry(p)' = RemitEntry(p)
          /\ \A d2 \in Discrepancies : Raised(d2) =>
                Raised(d2)' /\ PostEntry(d2)' = PostEntry(d2)
      BY <2>3, <2>5, <2>6, <2>7 DEF Reported, Raised, RemitEntry, PostEntry
    <2>9. CallsMatch' /\ call' \in [Workers -> Call]
      <3>1. CallMatches(Idle)' /\ EntryLeft(Idle)'
        BY <1>0 DEF CallMatches, EntryLeft
      <3> QED BY <1>0, <1>1, <1>3, <2>8, <3>1, OthersMatch
    <2>10. SettlementTypeOK'
      BY <1>1, <1>2, <2>5, <2>7, <2>9 DEF SettlementInv, SettlementTypeOK, IInv
    <2>11. EntriesMatch'
      BY <1>3, <2>8 DEF SettlementInv, EntriesMatch
    <2>12. SettledHasEntry'
      <3>1. ASSUME NEW d2 \in Discrepancies, wd'[d2].state = "posted",
                   Chargeable(wd'[d2].seller, wd'[d2].delta)
            PROVE  PostEntry(d2)' \in ledger'
        <4>1. CASE d2 = d
          BY <3>1, <4>1, <1>3, <2>3, <2>6, <2>7, <2>8
        <4>2. CASE d2 # d
          <5>1. wd[d2].state = "posted" /\ Chargeable(wd[d2].seller, wd[d2].delta)
            BY <3>1, <4>2, <2>7
          <5>2. PostEntry(d2) \in ledger /\ Raised(d2)
            BY <5>1 DEF SettlementInv, SettledHasEntry, PostEntry, Raised
          <5> QED BY <5>2, <1>3, <2>8
        <4> QED BY <4>1, <4>2
      <3> QED BY <3>1, <2>5, <1>3 DEF SettlementInv, SettledHasEntry, PostEntry
    <2>13. Repeats'
      <3>1. \A b \in Parcels \cup Discrepancies : Marked(b)' <=> b = d \/ Marked(b)
        BY <2>5, <2>6, <2>7, SettlementAssumption DEF Marked
      <3> QED BY <1>5, <2>2, <3>1
    <2> QED BY <1>2, <2>9, <2>10, <2>11, <2>12, <2>13 DEF SettlementInv
  <1> QED BY <1>6, <1>7

-----------------------------------------------------------------------------
(* Steps that move money. *)

(* The worker's wallet call succeeds, or has nothing to charge. *)
LEMMA MoveKeeps ==
    ASSUME SettlementInv, NEW w \in Workers, RemitCredits(w) \/ PostDebits(w)
    PROVE  SettlementInv'
  <1>0. SettlementTypeOK /\ call[w] \in Call
    BY DEF SettlementInv, SettlementTypeOK
  <1>1. call[w].step = "read" /\ UNCHANGED <<cod, wd, faults>>
    BY DEF RemitCredits, PostDebits
  <1>2. PICK o, c, s, a :
           /\ call[w] = [step |-> "read", op |-> o, row |-> c, seller |-> s, amount |-> a]
           /\ a \in Amounts
           /\ \/ o = "Remit" /\ c \in Parcels /\ s \in Sellers
              \/ o = "Post" /\ c \in Discrepancies /\ s \in Sellers \cup {Null}
    <2>1. /\ \/ call[w].op = "Remit" /\ call[w].row \in Parcels /\ call[w].seller \in Sellers
             \/ /\ call[w].op = "Post" /\ call[w].row \in Discrepancies
                /\ call[w].seller \in Sellers \cup {Null}
          /\ call[w].amount \in Amounts
          /\ call[w] = [step |-> "read", op |-> call[w].op, row |-> call[w].row,
                        seller |-> call[w].seller, amount |-> call[w].amount]
      BY <1>0, <1>1, CallShape
    <2> QED BY <2>1
  <1> DEFINE x == [step |-> "moved", op |-> o, row |-> c, seller |-> s, amount |-> a]
  <1>3. /\ call[w].op = o /\ call[w].row = c /\ call[w].seller = s /\ call[w].amount = a
        /\ x.step = "moved" /\ x.op = o /\ x.row = c /\ x.seller = s /\ x.amount = a
    BY <1>2
  <1>4. x \in Call
    BY <1>2, CallMakes DEF Step
  <1>5. call' = [call EXCEPT ![w] = x]
    <2>1. [call[w] EXCEPT !.step = "moved"] = x
      BY <1>2
    <2>2. call' = [call EXCEPT ![w] = [call[w] EXCEPT !.step = "moved"]]
      BY DEF RemitCredits, PostDebits
    <2> QED BY <2>1, <2>2
  <1> HIDE DEF x
  <1>6. c \in Parcels \cup Discrepancies /\ c \in Causes
    BY <1>2 DEF Causes
  <1>7. /\ \A p \in Parcels : Reported(p) => Reported(p)' /\ RemitEntry(p)' = RemitEntry(p)
        /\ \A d \in Discrepancies : Raised(d) => Raised(d)' /\ PostEntry(d)' = PostEntry(d)
    BY <1>1 DEF Reported, Raised, RemitEntry, PostEntry
  <1>8. CallMatches(call[w])
    BY DEF SettlementInv, CallsMatch
  <1>9. CallMatches(x)'
    BY <1>1, <1>3, <1>8 DEF CallMatches, Reported, Raised
  <1>10. ASSUME moved' \in [Causes -> Nat], moved'[c] <= moved[c] + 1,
                \A b \in Causes \ {c} : moved'[b] = moved[b]
         PROVE  Repeats'
    <2> SUFFICES ASSUME NEW b \in Parcels \cup Discrepancies PROVE RepeatsOf(b)'
      BY DEF Repeats
    <2>1. /\ InCount(x, b, "read") = 0 /\ InCount(call[w], b, "moved") = 0
          /\ InCount(call[w], b, "read") = IF b = c THEN 1 ELSE 0
          /\ InCount(x, b, "moved") = IF b = c THEN 1 ELSE 0
      BY <1>1, <1>3 DEF InCount
    <2>0. SettlementTypeOK
      BY <1>0
    <2>2. Cardinality(At(b, "moved"))' = Cardinality(At(b, "moved"))
             - InCount(call[w], b, "moved") + InCount(x, b, "moved")
      BY <2>0, <1>4, <1>5, AtMoves
    <2>3. Cardinality(At(b, "read"))' = Cardinality(At(b, "read"))
             - InCount(call[w], b, "read") + InCount(x, b, "read")
      BY <2>0, <1>4, <1>5, AtMoves
    <2>4. /\ Cardinality(At(b, "moved"))' = Cardinality(At(b, "moved")) + (IF b = c THEN 1 ELSE 0)
          /\ Cardinality(At(b, "read"))' = Cardinality(At(b, "read")) - (IF b = c THEN 1 ELSE 0)
      BY <2>1, <2>2, <2>3, CountNumbers
    <2>5. Marked(b)' <=> Marked(b)
      BY <1>1 DEF Marked
    <2>6. moved'[b] \in Nat /\ moved'[b] <= moved[b] + (IF b = c THEN 1 ELSE 0)
      BY <1>10, CountNumbers DEF Causes
    <2>7. faults' = faults /\ moved[b] \in Nat /\ faults \in Nat
          /\ Cardinality(At(b, "read")) \in Nat
          /\ Cardinality(At(b, "moved")) \in Nat
          /\ Cardinality(Workers) \in Nat
      BY <1>1, CountNumbers
    <2>8. /\ ~Marked(b) => moved[b] <= Cardinality(At(b, "moved")) + faults
          /\ Marked(b) => moved[b] + Cardinality(At(b, "read")) <= Cardinality(Workers) + faults
      BY CountNumbers DEF RepeatsOf
    <2>9. Marked(b) => moved'[b] + Cardinality(At(b, "read"))' <= Cardinality(Workers) + faults'
      BY <2>4, <2>6, <2>7, <2>8
    <2>10. ~Marked(b) => moved'[b] <= Cardinality(At(b, "moved"))' + faults'
      BY <2>4, <2>6, <2>7, <2>8
    <2> QED BY <2>5, <2>9, <2>10 DEF RepeatsOf
  <1>11. ASSUME IInv', Accounted', BooksBalanceUnlessRepeated', moved' \in [Causes -> Nat],
                moved'[c] <= moved[c] + 1, \A b \in Causes \ {c} : moved'[b] = moved[b],
                ledger \subseteq ledger', EntriesMatch', EntryLeft(x)'
         PROVE  SettlementInv'
    <2>1. CallsMatch' /\ call' \in [Workers -> Call]
      BY <1>4, <1>5, <1>7, <1>9, <1>11, OthersMatch
    <2>2. SettlementTypeOK'
      BY <1>1, <1>11, <2>1 DEF SettlementInv, SettlementTypeOK, IInv
    <2>3. SettledHasEntry'
      BY <1>1, <1>11 DEF SettlementInv, SettledHasEntry
    <2>4. Repeats'
      BY <1>10, <1>11
    <2> QED BY <1>11, <2>1, <2>2, <2>3, <2>4 DEF SettlementInv
  <1>12. CASE RemitCredits(w)
    <2>1. o = "Remit" /\ c \in Parcels /\ s \in Sellers /\ RefOf(c) = RemitRef(c)
      BY <1>2, <1>3, <1>12, RefsOfCauses DEF RemitCredits
    <2>2. PICK p \in Parcels : p = c
      BY <2>1
    <2>3. Credit(s, a, RefOf(c)) /\ moved' = [moved EXCEPT ![c] = @ + 1]
      BY <1>3, <1>12, <2>1 DEF RemitCredits, Credit
    <2>4. "credit" \in Directions /\ "credit" # "debit"
      BY DEF Directions
    <2>5. Reported(p) /\ RemitEntry(p) = EntryFor(c, s, "credit", a)
      BY <1>1, <1>3, <1>8, <2>1, <2>2 DEF CallMatches, RemitEntry, EntryFor
    <2>6. /\ IInv' /\ Accounted' /\ BooksBalanceUnlessRepeated'
          /\ moved' \in [Causes -> Nat] /\ moved'[c] = moved[c] + 1
          /\ \A b \in Causes \ {c} : moved'[b] = moved[b]
          /\ ledger \subseteq ledger'
          /\ \A e \in ledger' \ ledger : e = EntryFor(c, s, "credit", a)
          /\ (\A e \in ledger : e.ref = RefOf(c) => e.dir # "credit") =>
                EntryFor(c, s, "credit", a) \in ledger'
      <3>1. a \in Amounts /\ c \in Causes /\ s \in Sellers
        BY <1>2, <1>6, <2>1, <2>3, <2>4
      <3>2. /\ "credit" = "credit" => Credit(s, a, RefOf(c))
            /\ "credit" = "debit" => Debit(s, a, RefOf(c))
        BY <2>1, <2>3, <2>4
      <3> QED BY <3>1, <3>2, <2>1, <2>3, <2>4, MoneyMoves
    <2>7. RemitEntry(p) \in ledger'
      BY <2>1, <2>2, <2>5, <2>6 DEF SettlementInv, EntriesMatch
    <2>8. EntryLeft(x)'
      BY <1>3, <1>7, <2>1, <2>2, <2>5, <2>7 DEF EntryLeft
    <2>9. EntriesMatch'
      <3>1. RemitEntry(p).ref = RemitRef(p)
        BY DEF RemitEntry
      <3>2. /\ \A q \in Parcels : RemitRef(p) = RemitRef(q) => p = q
            /\ \A d \in Discrepancies : RemitRef(p) # PostRef(d)
        BY DEF RemitRef, PostRef
      <3> QED BY <1>7, <2>5, <2>6, <3>1, <3>2 DEF SettlementInv, EntriesMatch
    <2>10. moved'[c] <= moved[c] + 1
      BY <2>6, <1>6, CountNumbers
    <2> QED BY <1>11, <2>6, <2>8, <2>9, <2>10
  <1>13. CASE PostDebits(w)
    <2>1. o = "Post" /\ c \in Discrepancies /\ s \in Sellers \cup {Null} /\ RefOf(c) = PostRef(c)
      BY <1>2, <1>3, <1>13, RefsOfCauses DEF PostDebits
    <2>2. PICK d \in Discrepancies : d = c
      BY <2>1
    <2>3. Raised(d) /\ PostEntry(d) = EntryFor(c, s, "debit", a)
      BY <1>1, <1>3, <1>8, <2>1, <2>2 DEF CallMatches, PostEntry, EntryFor
    <2>4. CASE Chargeable(s, a)
      <3>1. Debit(s, a, RefOf(c)) /\ moved' = [moved EXCEPT ![c] = @ + 1] /\ s \in Sellers
        BY <1>3, <1>13, <2>1, <2>4 DEF PostDebits, Debit, Chargeable
      <3>2. "debit" \in Directions /\ "debit" # "credit"
        BY DEF Directions
      <3>3. /\ IInv' /\ Accounted' /\ BooksBalanceUnlessRepeated'
            /\ moved' \in [Causes -> Nat] /\ moved'[c] = moved[c] + 1
            /\ \A b \in Causes \ {c} : moved'[b] = moved[b]
            /\ ledger \subseteq ledger'
            /\ \A e \in ledger' \ ledger : e = EntryFor(c, s, "debit", a)
            /\ (\A e \in ledger : e.ref = RefOf(c) => e.dir # "debit") =>
                  EntryFor(c, s, "debit", a) \in ledger'
        <4>1. a \in Amounts /\ c \in Causes /\ s \in Sellers
          BY <1>2, <1>6, <3>1, <3>2
        <4>2. /\ "debit" = "credit" => Credit(s, a, RefOf(c))
              /\ "debit" = "debit" => Debit(s, a, RefOf(c))
          BY <3>1, <3>2
        <4> QED BY <4>1, <4>2, <3>1, <3>2, MoneyMoves
      <3>4. PostEntry(d) \in ledger'
        BY <2>1, <2>2, <2>3, <3>3 DEF SettlementInv, EntriesMatch
      <3>5. EntryLeft(x)'
        BY <1>3, <1>7, <2>1, <2>2, <2>3, <3>4 DEF EntryLeft
      <3>6. EntriesMatch'
        <4>1. PostEntry(d).ref = PostRef(d)
          BY DEF PostEntry
        <4>2. /\ \A q \in Discrepancies : PostRef(d) = PostRef(q) => d = q
              /\ \A p \in Parcels : RemitRef(p) # PostRef(d)
          BY DEF RemitRef, PostRef
        <4> QED BY <1>7, <2>3, <3>3, <4>1, <4>2 DEF SettlementInv, EntriesMatch
      <3>7. moved'[c] <= moved[c] + 1
        BY <3>3, <1>6, CountNumbers
      <3> QED BY <1>11, <3>3, <3>5, <3>6, <3>7
    <2>5. CASE ~Chargeable(s, a)
      <3>1. UNCHANGED <<vars, moved>>
        BY <1>3, <1>13, <2>5 DEF PostDebits, Chargeable
      <3>2. IInv' /\ Accounted' /\ BooksBalanceUnlessRepeated'
        BY <3>1, WalletKept
      <3>3. ledger' = ledger
        BY <3>1 DEF vars
      <3>4. EntriesMatch'
        BY <1>7, <3>3 DEF SettlementInv, EntriesMatch
      <3>5. EntryLeft(x)'
        BY <1>3, <2>1, <2>5 DEF EntryLeft
      <3>6. moved' \in [Causes -> Nat] /\ moved'[c] <= moved[c] + 1
            /\ \A b \in Causes \ {c} : moved'[b] = moved[b]
        BY <3>1, <1>6 DEF SettlementInv, SettlementTypeOK
      <3> QED BY <1>11, <3>2, <3>3, <3>4, <3>5, <3>6
    <2> QED BY <2>4, <2>5
  <1> QED BY <1>12, <1>13

LEMMA ManualKeeps ==
    ASSUME SettlementInv, ManualNext
    PROVE  SettlementInv'
  <1>1. ASSUME NEW k \in ManualKinds, NEW s \in Sellers, NEW by \in Operators, NEW a \in Amounts,
               NEW dir \in Directions,
               dir = "credit" => Credit(s, a, ManualRef(k, by, a)),
               dir = "debit" => Debit(s, a, ManualRef(k, by, a)),
               moved' = [moved EXCEPT ![<<k, by, a>>] = @ + 1],
               UNCHANGED <<cod, wd, call, faults>>
        PROVE  SettlementInv'
    <2>1. PICK c \in Causes : c = <<k, by, a>> /\ RefOf(c) = ManualRef(k, by, a)
      BY RefsOfCauses
    <2>2. c \notin Parcels /\ c \notin Discrepancies
      <3>1. c \in Manual
        BY <2>1 DEF Manual
      <3> QED BY <3>1, SettlementAssumption
    <2>3. PICK r \in Refs : r = RefOf(c)
      BY RefsDiffer
    <2>4. /\ dir = "credit" => Credit(s, a, RefOf(c))
          /\ dir = "debit" => Debit(s, a, RefOf(c))
          /\ moved' = [moved EXCEPT ![c] = @ + 1]
      BY <1>1, <2>1
    <2>5. /\ IInv' /\ Accounted' /\ BooksBalanceUnlessRepeated'
          /\ moved' \in [Causes -> Nat]
          /\ \A b \in Causes \ {c} : moved'[b] = moved[b]
          /\ ledger \subseteq ledger'
          /\ \A e \in ledger' \ ledger : e = EntryFor(c, s, dir, a)
      BY <1>1, <2>4, MoneyMoves
    <2>6. SettlementTypeOK'
      BY <1>1, <2>5 DEF SettlementInv, SettlementTypeOK, IInv
    <2>7. /\ \A p \in Parcels : Reported(p)' = Reported(p) /\ RemitEntry(p)' = RemitEntry(p)
          /\ \A d \in Discrepancies : Raised(d)' = Raised(d) /\ PostEntry(d)' = PostEntry(d)
      BY <1>1 DEF Reported, Raised, RemitEntry, PostEntry
    <2>8. CallsMatch'
      <3> SUFFICES ASSUME NEW w \in Workers PROVE (CallMatches(call[w]) /\ EntryLeft(call[w]))'
        BY DEF CallsMatch
      <3>1. CallMatches(call[w]) /\ EntryLeft(call[w]) /\ call'[w] = call[w]
        BY <1>1 DEF SettlementInv, CallsMatch
      <3> QED BY <1>1, <2>5, <3>1 DEF CallMatches, EntryLeft, Reported, Raised, RemitEntry,
                 PostEntry
    <2>9. EntriesMatch'
      <3>1. /\ \A p \in Parcels : RefOf(c) # RemitRef(p)
            /\ \A d \in Discrepancies : RefOf(c) # PostRef(d)
        BY <2>2, RefsDiffer
      <3>2. \A e \in ledger' \ ledger : e.ref = RefOf(c)
        BY <2>5 DEF EntryFor
      <3> QED BY <2>5, <2>7, <3>1, <3>2 DEF SettlementInv, EntriesMatch
    <2>10. SettledHasEntry'
      BY <1>1, <2>5 DEF SettlementInv, SettledHasEntry
    <2>11. Repeats'
      <3> SUFFICES ASSUME NEW b \in Parcels \cup Discrepancies PROVE RepeatsOf(b)'
        BY DEF Repeats
      <3>1. moved'[b] = moved[b]
        BY <2>2, <2>5 DEF Causes
      <3>2. (Marked(b)' <=> Marked(b)) /\ \A st : At(b, st)' = At(b, st)
        BY <1>1 DEF Marked, At
      <3>3. RepeatsOf(b)
        BY DEF SettlementInv, Repeats
      <3> QED BY <1>1, <3>1, <3>2, <3>3 DEF RepeatsOf
    <2> QED BY <2>5, <2>6, <2>8, <2>9, <2>10, <2>11 DEF SettlementInv
  <1>2. PICK s \in Sellers, by \in Operators, a \in Amounts :
           ManualCredit(s, by, a) \/ ManualDebit(s, by, a)
    BY DEF ManualNext
  <1>3. CASE ManualCredit(s, by, a)
    <2>1. /\ "ops_manual_credit" \in ManualKinds
          /\ "credit" \in Directions
          /\ "credit" # "debit"
      BY DEF ManualKinds, Directions
    <2>2. /\ Credit(s, a, ManualRef("ops_manual_credit", by, a))
          /\ moved' = [moved EXCEPT ![<<"ops_manual_credit", by, a>>] = @ + 1]
          /\ UNCHANGED <<cod, wd, call, faults>>
      BY <1>3 DEF ManualCredit
    <2> QED BY <1>1, <2>1, <2>2
  <1>4. CASE ManualDebit(s, by, a)
    <2>1. /\ "ops_manual_debit" \in ManualKinds
          /\ "debit" \in Directions
          /\ "credit" # "debit"
      BY DEF ManualKinds, Directions
    <2>2. /\ Debit(s, a, ManualRef("ops_manual_debit", by, a))
          /\ moved' = [moved EXCEPT ![<<"ops_manual_debit", by, a>>] = @ + 1]
          /\ UNCHANGED <<cod, wd, call, faults>>
      BY <1>4 DEF ManualDebit
    <2> QED BY <1>1, <2>1, <2>2
  <1> QED BY <1>2, <1>3, <1>4

(* The wallet opens an account: no money, no row. *)
LEMMA AccountKeeps ==
    ASSUME SettlementInv, NEW s \in Sellers, EnsureAccount(s),
           UNCHANGED <<cod, wd, call, moved, faults>>
    PROVE  SettlementInv'
  <1>1. IInv'
    <2>1. Next
      BY DEF Next
    <2> QED BY <2>1, NextIInv DEF SettlementInv
  <1>2. UNCHANGED <<ledger, balance>>
    BY DEF EnsureAccount
  <1>3. \A t : Credits(t)' = Credits(t) /\ Debits(t)' = Debits(t)
    BY <1>2, LedgerUnchanged
  <1>4. Accounted' /\ BooksBalanceUnlessRepeated'
    BY <1>2, <1>3 DEF SettlementInv, Accounted, BooksBalanceUnlessRepeated
  <1>5. SettlementTypeOK'
    BY <1>1 DEF SettlementInv, SettlementTypeOK, IInv
  <1>6. CallsMatch'
    BY <1>2 DEF SettlementInv, CallsMatch, CallMatches, EntryLeft, Reported, Raised, RemitEntry,
       PostEntry
  <1>7. EntriesMatch' /\ SettledHasEntry'
    BY <1>2 DEF SettlementInv, EntriesMatch, SettledHasEntry, Reported, Raised, RemitEntry,
       PostEntry
  <1>8. Repeats'
    <2> SUFFICES ASSUME NEW c \in Parcels \cup Discrepancies PROVE RepeatsOf(c)'
      BY DEF Repeats
    <2>1. (Marked(c)' <=> Marked(c)) /\ \A st : At(c, st)' = At(c, st)
      BY DEF Marked, At
    <2>2. RepeatsOf(c)
      BY DEF SettlementInv, Repeats
    <2> QED BY <2>1, <2>2 DEF RepeatsOf
  <1> QED BY <1>1, <1>4, <1>5, <1>6, <1>7, <1>8 DEF SettlementInv

-----------------------------------------------------------------------------
LEMMA InitSettlementInv == SettlementInit => SettlementInv
  <1> SUFFICES ASSUME SettlementInit PROVE SettlementInv
    OBVIOUS
  <1>1. IInv /\ TypeOK
    BY InitIInv DEF SettlementInit, IInv
  <1>2. ledger = {} /\ balance = [s \in Sellers |-> 0]
    BY DEF SettlementInit, Init
  <1>3. [state |-> "none"] \in CodRow /\ [state |-> "none"] \in DiscrepancyRow
    BY DEF CodRow, DiscrepancyRow
  <1>4. SettlementTypeOK
    BY <1>1, <1>3, CallMakes, SettlementAssumption DEF SettlementInit, SettlementTypeOK
  <1>5. CallsMatch
    BY CallMakes DEF SettlementInit, CallsMatch, CallMatches, EntryLeft
  <1>6. EntriesMatch /\ Accounted
    BY <1>2 DEF EntriesMatch, Accounted
  <1>7. SettledHasEntry
    BY DEF SettlementInit, SettledHasEntry
  <1>8. BooksBalanceUnlessRepeated
    <2>1. \A s, dir : Entries(ledger, s, dir) = {}
      BY <1>2 DEF Entries
    <2>2. Total({}) = 0
      <3>1. Paise({}) = {}
        BY DEF Paise
      <3> QED BY <3>1, FS_EmptySet DEF Total
    <2> QED BY <1>2, <2>1, <2>2 DEF BooksBalanceUnlessRepeated, Credits, Debits
  <1>9. Repeats
    <2> SUFFICES ASSUME NEW c \in Parcels \cup Discrepancies PROVE RepeatsOf(c)
      BY DEF Repeats
    <2>1. moved[c] = 0 /\ faults = 0
      BY DEF SettlementInit, Causes
    <2>2. ~Marked(c)
      BY DEF SettlementInit, Marked
    <2> QED BY <2>1, <2>2, AtFinite DEF RepeatsOf
  <1> QED BY <1>1, <1>4, <1>5, <1>6, <1>7, <1>8, <1>9 DEF SettlementInv

LEMMA NextSettlementInv == SettlementInv /\ [SettlementNext]_settlementVars => SettlementInv'
  <1> SUFFICES ASSUME SettlementInv, [SettlementNext]_settlementVars PROVE SettlementInv'
    OBVIOUS
  <1>1. CASE UNCHANGED settlementVars
    <2>1. UNCHANGED <<vars, cod, wd, call, moved, faults>>
      BY <1>1 DEF settlementVars
    <2>2. cod' \in [Parcels -> CodRow] /\ wd' \in [Discrepancies -> DiscrepancyRow]
      BY <2>1 DEF SettlementInv, SettlementTypeOK
    <2>3. RowsHold
      BY <2>1 DEF RowsHold, Reported, Raised
    <2> QED BY <2>1, <2>2, <2>3, RowStep
  <1>2. CASE \E s \in Sellers : EnsureAccount(s) /\ UNCHANGED <<cod, wd, call, moved, faults>>
    BY <1>2, AccountKeeps
  <1>3. CASE CodNext
    BY <1>3, RowActions, ReadKeeps, MoveKeeps, MarkKeeps DEF CodNext
  <1>4. CASE ReconNext
    BY <1>4, RowActions, ReadKeeps, MoveKeeps, MarkKeeps DEF ReconNext
  <1>5. CASE ManualNext
    BY <1>5, ManualKeeps
  <1>6. CASE \E w \in Workers : WalletRefuses(w) \/ WorkerDies(w)
    BY <1>6, AbandonKeeps
  <1> QED BY <1>1, <1>2, <1>3, <1>4, <1>5, <1>6 DEF SettlementNext

LEMMA SettlementInductive == SettlementSpec => []SettlementInv
  BY InitSettlementInv, NextSettlementInv, PTL DEF SettlementSpec

(* Whatever is shown as remitted or posted has its ledger entry, with the
   seller and the amount of the row, however Remit and Post race and wherever
   they stop.                                                              *)
THEOREM SettlementEntries == SettlementSpec => []SettledHasEntry
  <1>1. SettlementInv => SettledHasEntry
    BY DEF SettlementInv
  <1> QED BY <1>1, SettlementInductive, PTL

(* No parcel is paid out and no discrepancy charged more often than workers
   can be inside its call at once plus workers that died in one.           *)
THEOREM SettlementRepeats == SettlementSpec => []RepeatsBounded
  <1>1. SettlementInv => RepeatsBounded
    <2> SUFFICES ASSUME SettlementInv, NEW c \in Parcels \cup Discrepancies
                 PROVE  moved[c] <= Cardinality(Workers) + faults
      BY DEF RepeatsBounded
    <2>1. Cardinality(At(c, "read")) + Cardinality(At(c, "moved")) <= Cardinality(Workers)
      BY AtTogether
    <2> QED BY <2>1, CountNumbers DEF RepeatsOf
  <1> QED BY <1>1, SettlementInductive, PTL

(* As long as nothing was paid or charged twice, every seller's balance is
   what its ledger adds up to: the services' refs never collide.           *)
THEOREM SettlementBooks == SettlementSpec => []BooksBalanceUnlessRepeated
  <1>1. SettlementInv => BooksBalanceUnlessRepeated
    BY DEF SettlementInv
  <1> QED BY <1>1, SettlementInductive, PTL

-----------------------------------------------------------------------------
(* The wallet underneath. *)

LEMMA RefsOfServices ==
    /\ \A p \in Parcels : RemitRef(p) \in Refs
    /\ \A d \in Discrepancies : PostRef(d) \in Refs
    /\ \A k \in ManualKinds, o \in Operators, a \in Amounts : ManualRef(k, o, a) \in Refs
  BY RefsAssumption DEF SettlementRefs

LEMMA WorkerStepIsWallet ==
    ASSUME SettlementInv, NEW w \in Workers, RemitCredits(w) \/ PostDebits(w)
    PROVE  [Next]_vars
  <1>1. call[w] \in Call
    BY DEF SettlementInv, SettlementTypeOK
  <1>2. PICK x \in Call : x = call[w]
    BY <1>1
  <1>3. x.step # "idle" => x.amount \in Amounts
    BY CallShape
  <1>4. CASE RemitCredits(w)
    <2>1. x.step = "read" /\ x.op = "Remit" /\ Credit(x.seller, x.amount, RemitRef(x.row))
      BY <1>2, <1>4 DEF RemitCredits
    <2>2. x.seller \in Sellers /\ x.row \in Parcels /\ x.amount \in Amounts
      BY <1>3, <2>1, CallShape
    <2>3. RemitRef(x.row) \in Refs
      BY <2>2, RefsOfServices
    <2> QED BY <2>1, <2>2, <2>3 DEF Next
  <1>5. CASE PostDebits(w)
    <2>1. /\ x.step = "read" /\ x.op = "Post"
          /\ Chargeable(x.seller, x.amount) => Debit(x.seller, x.amount, PostRef(x.row))
          /\ ~Chargeable(x.seller, x.amount) => UNCHANGED vars
      BY <1>2, <1>5 DEF PostDebits
    <2>2. x.seller \in Sellers \cup {Null} /\ x.row \in Discrepancies /\ x.amount \in Amounts
      BY <1>3, <2>1, CallShape
    <2>3. PostRef(x.row) \in Refs
      BY <2>2, RefsOfServices
    <2>4. CASE Chargeable(x.seller, x.amount)
      <3>1. x.seller \in Sellers
        BY <2>2, <2>4 DEF Chargeable
      <3> QED BY <2>1, <2>2, <2>3, <2>4, <3>1 DEF Next
    <2>5. CASE ~Chargeable(x.seller, x.amount)
      BY <2>1, <2>5
    <2> QED BY <2>4, <2>5
  <1> QED BY <1>4, <1>5

LEMMA StepIsWallet == SettlementInv /\ [SettlementNext]_settlementVars => [Next]_vars
  <1> SUFFICES ASSUME SettlementInv, [SettlementNext]_settlementVars PROVE [Next]_vars
    OBVIOUS
  <1>1. CASE UNCHANGED settlementVars
    BY <1>1 DEF settlementVars
  <1>2. CASE \E s \in Sellers : EnsureAccount(s) /\ UNCHANGED <<cod, wd, call, moved, faults>>
    BY <1>2 DEF Next
  <1>3. CASE CodNext
    <2>1. CASE \E w \in Workers : RemitCredits(w)
      BY <2>1, WorkerStepIsWallet
    <2>2. CASE ~\E w \in Workers : RemitCredits(w)
      BY <1>3, <2>2 DEF CodNext, Register, MarkCollected, Remit, MarkRemitted
    <2> QED BY <2>1, <2>2
  <1>4. CASE ReconNext
    <2>1. CASE \E w \in Workers : PostDebits(w)
      BY <2>1, WorkerStepIsWallet
    <2>2. CASE ~\E w \in Workers : PostDebits(w)
      BY <1>4, <2>2 DEF ReconNext, RaiseDiscrepancy, Dispute, Approve, Reject, SetDiscrepancy,
         WindowCloses, Post, MarkPosted
    <2> QED BY <2>1, <2>2
  <1>5. CASE ManualNext
    <2>1. PICK s \in Sellers, by \in Operators, a \in Amounts : ManualCredit(s, by, a) \/ ManualDebit(s, by, a)
      BY <1>5 DEF ManualNext
    <2>2. ManualRef("ops_manual_credit", by, a) \in Refs /\ ManualRef("ops_manual_debit", by, a) \in Refs
      BY RefsOfServices DEF ManualKinds
    <2> QED BY <2>1, <2>2 DEF ManualCredit, ManualDebit, Next
  <1>6. CASE \E w \in Workers : WalletRefuses(w) \/ WorkerDies(w)
    BY <1>6 DEF WalletRefuses, WorkerDies
  <1> QED BY <1>1, <1>2, <1>3, <1>4, <1>5, <1>6 DEF SettlementNext

(* cod, recon and admin reach the money through the wallet's calls only: their
   behaviours are behaviours of the wallet service, whatever dies between a
   wallet call and the mark of its row.                                    *)
THEOREM SettlementUsesWallet == SettlementSpec => Spec
  <1>1. SettlementInit => Init
    BY DEF SettlementInit
  <1> QED BY <1>1, StepIsWallet, SettlementInductive, PTL DEF SettlementSpec, Spec

(* Hence no repeated payout, charge or adjustment takes a balance below the
   grace floor: what repeats do to the books they do within the overdraft
   bound of the wallet.                                                    *)
THEOREM SettlementOverdraft == SettlementSpec => []OverdraftBounded
  BY SettlementUsesWallet, WalletOverdraftBounded, PTL
=============================================================================
