--------------------------- MODULE WalletTxProofs ---------------------------
(***************************************************************************)
(* Proofs about WalletTx, for any number of clients, sellers, refs and     *)
(* amounts: the row locks make every call atomic, so interleaved           *)
(* transactions implement Wallet; and a deadlock mixes the two lock orders. *)
(***************************************************************************)
EXTENDS WalletTx, WalletProofs

HasLock(c, row, mode) == [client |-> c, row |-> row, mode |-> mode] \in locks

AccountFirst == {"credit", "debit", "reserve"}
HoldFirst == {"confirm", "release"}

(* The statements of each call. *)
Path(op) ==
    CASE op = "reserve" -> {"lock_account", "insert_hold", "write_account", "commit"}
      [] op = "confirm" -> {"lock_hold", "post", "foreign_key", "write_account", "commit"}
      [] op = "release" -> {"lock_hold", "write_account", "commit"}
      [] OTHER          -> {"lock_account", "post", "write_account", "commit"}

Written == {"write_account", "commit"}

(* A call that has locked the account still finds it as it was checked. *)
AccountKept(c) ==
    call[c].op \in AccountFirst /\ call[c].step # "lock_account" =>
        /\ call[c].seller \in accounts
        /\ HasLock(c, AccountRow(call[c].seller), "update")
        /\ AccountAllows(call[c])

(* A call that has locked its hold still finds it, and active. *)
HoldKept(c) ==
    call[c].op \in HoldFirst /\ call[c].step # "lock_hold" =>
        \E h \in holds : /\ call[c].hold = {h}
                         /\ h.status = "active"
                         /\ h.seller = call[c].seller
                         /\ HasLock(c, HoldRow(h.ref), "update")

(* A Reserve that has locked the hold's key still finds what it found. *)
KeyKept(c) ==
    call[c].op = "reserve" /\ call[c].step \in Written =>
        /\ HasLock(c, HoldRow(call[c].ref), "update")
        /\ call[c].hold = {h \in holds : h.ref = call[c].ref}
        /\ \A h \in call[c].hold : h.seller = call[c].seller

(* The ledger insert was skipped exactly when the entry is there. *)
EntryKept(c) ==
    LET dir == EntryDirection(call[c].op) IN
    /\ call[c].inserted => /\ HasLock(c, EntryRow(call[c].ref, dir), "update")
                           /\ ~Posted(call[c].ref, dir)
    /\ call[c].op \in {"credit", "debit"} /\ call[c].step \in Written /\ ~call[c].inserted =>
          Posted(call[c].ref, dir)
    /\ call[c].op = "confirm" /\ call[c].step \notin {"lock_hold", "post"} => call[c].inserted

(* What a call has been asked, and where it may be. *)
Asked(c) ==
    /\ call[c].amount > 0
    /\ call[c].op # "release" => call[c].ref \in Refs
    /\ call[c].step \in Path(call[c].op)
    /\ call[c].step = "commit" => HasLock(c, AccountRow(call[c].seller), "no_key_update")

CallOK(c) ==
    Running(c) => Asked(c) /\ AccountKept(c) /\ HoldKept(c) /\ KeyKept(c) /\ EntryKept(c)

(* Who may hold which lock. *)
LockOK(l) ==
    LET k == call[l.client] IN
    /\ Running(l.client)
    /\ \/ /\ l.row = AccountRow(k.seller)
          /\ \/ l.mode = "update" /\ k.op \in AccountFirst /\ k.step # "lock_account"
             \/ l.mode = "no_key_update" /\ k.step = "commit"
             \/ l.mode = "key_share" /\ k.op = "confirm" /\ k.step # "lock_hold"
       \/ /\ \E ref \in Refs : l.row = HoldRow(ref)
          /\ \/ k.op \in HoldFirst /\ k.step # "lock_hold"
             \/ k.op = "reserve" /\ k.step \in Written
       \/ /\ \E ref \in Refs : l.row = EntryRow(ref, EntryDirection(k.op))
          /\ k.op \in {"credit", "debit", "confirm"}
          /\ k.step \in Written \cup {"foreign_key"}

(* Every Reserve under way finds an id to draw. *)
IDsSuffice == Cardinality(Reserving) <= Cardinality(HoldIDs \ issued)

TxInv ==
    /\ IInv
    /\ TxTypeOK
    /\ \A c \in Clients : CallOK(c)
    /\ \A l \in locks : LockOK(l)
    /\ IDsSuffice

LEMMA InitTxInv == TxInit => TxInv
<1> SUFFICES ASSUME TxInit PROVE TxInv
  OBVIOUS
<1>1. IInv
  BY InitIInv DEF TxInit
<1>2. \A c \in Clients : ~Running(c)
  BY DEF TxInit, Running
<1>3. TxTypeOK
  BY <1>1 DEF TxInit, TxTypeOK, IInv
<1>4. \A c \in Clients : CallOK(c)
  BY <1>2 DEF CallOK
<1>5. IDsSuffice
  <2>1. Reserving = {}
    BY <1>2 DEF Reserving
  <2>2. Cardinality(Reserving) = 0
    BY <2>1, FS_EmptySet
  <2>3. IsFiniteSet(HoldIDs \ issued)
    BY FiniteAssumption, FS_Difference
  <2> QED BY <2>2, <2>3, FS_CardinalityType DEF IDsSuffice
<1> QED BY <1>1, <1>3, <1>4, <1>5 DEF TxInv, TxInit

-----------------------------------------------------------------------------
(* What the steps of one client leave to the others. *)

LEMMA TablesUntouched ==
    ASSUME IInv, UNCHANGED tables
    PROVE  IInv'
BY NextIInv DEF tables, vars

LEMMA CallShape ==
    ASSUME TxTypeOK, NEW c \in Clients, Running(c)
    PROVE  /\ call[c] \in Call
           /\ call[c].op \in Ops
           /\ call[c].seller \in Sellers
           /\ call[c].amount \in Amounts
           /\ call[c].step \in Steps
           /\ call[c].ref \in Refs \cup {Null}
           /\ call[c].hold \in SUBSET Hold
           /\ call[c].inserted \in BOOLEAN
BY DEF TxTypeOK, Running, Call

LEMMA OthersKeep ==
    ASSUME NEW c \in Clients, NEW d \in Clients, CallOK(d),
           UNCHANGED tables, call'[d] = call[d],
           \A l \in locks : l.client = d => l \in locks'
    PROVE  CallOK(d)'
<1>1. \A row, mode : HasLock(d, row, mode) => HasLock(d, row, mode)'
  BY DEF HasLock
<1>2. Running(d)' <=> Running(d)
  BY DEF Running
<1>3. AccountAllows(call[d]) => AccountAllows(call[d])'
  BY DEF AccountAllows, tables, Available, WithinGrace
<1>4. \A ref, dir : Posted(ref, dir)' <=> Posted(ref, dir)
  BY DEF Posted, tables
<1> SUFFICES ASSUME Running(d), CallOK(d)
             PROVE  (Asked(d) /\ AccountKept(d) /\ HoldKept(d) /\ KeyKept(d) /\ EntryKept(d))'
  BY <1>2 DEF CallOK
<1>5. Asked(d)'
  BY <1>1 DEF CallOK, Asked
<1>6. AccountKept(d)'
  BY <1>1, <1>3 DEF CallOK, AccountKept, tables
<1>7. HoldKept(d)'
  BY <1>1 DEF CallOK, HoldKept, tables
<1>8. KeyKept(d)'
  BY <1>1 DEF CallOK, KeyKept, tables
<1>9. EntryKept(d)'
  BY <1>1, <1>4 DEF CallOK, EntryKept
<1> QED BY <1>5, <1>6, <1>7, <1>8, <1>9

LEMMA ReservingShrinks ==
    ASSUME TxTypeOK, IDsSuffice, UNCHANGED issued, Reserving' \subseteq Reserving
    PROVE  IDsSuffice'
<1>1. IsFiniteSet(Reserving) /\ IsFiniteSet(HoldIDs \ issued)
  BY FiniteAssumption, FS_Subset, FS_Difference DEF Reserving
<1>2. Cardinality(Reserving') <= Cardinality(Reserving) /\ IsFiniteSet(Reserving')
  BY <1>1, FS_Subset
<1>3. /\ Cardinality(Reserving) \in Nat
      /\ Cardinality(Reserving') \in Nat
      /\ Cardinality(HoldIDs \ issued) \in Nat
  BY <1>1, <1>2, FS_CardinalityType
<1> QED BY <1>2, <1>3 DEF IDsSuffice

(* One client's step that leaves the tables alone. *)
LEMMA StepKeeps ==
    ASSUME TxInv, NEW c \in Clients, UNCHANGED tables,
           call' \in [Clients -> Call \cup {Idle}],
           \A d \in Clients \ {c} : call'[d] = call[d],
           locks' \subseteq [client : Clients, row : Rows, mode : Modes],
           \A l \in locks : l.client # c => l \in locks',
           \A l \in locks' : l.client # c => l \in locks,
           \A l, m \in locks' : l.row = m.row /\ Conflict(l.mode, m.mode) => l.client = m.client,
           CallOK(c)',
           \A l \in locks' : l.client = c => LockOK(l)',
           IDsSuffice'
    PROVE  TxInv'
<1>1. IInv'
  BY TablesUntouched DEF TxInv
<1>2. TxTypeOK'
  BY <1>1 DEF TxTypeOK, IInv
<1>3. ASSUME NEW d \in Clients PROVE CallOK(d)'
  <2>1. CASE d = c
    BY <2>1
  <2>2. CASE d # c
    <3>1. CallOK(d) /\ call'[d] = call[d]
      BY <2>2 DEF TxInv
    <3> QED BY <2>2, <3>1, OthersKeep
  <2> QED BY <2>1, <2>2
<1>4. ASSUME NEW l \in locks' PROVE LockOK(l)'
  <2>1. CASE l.client # c
    <3>1. l.client \in Clients \ {c}
      BY <2>1, <1>2 DEF TxTypeOK
    <3>2. call'[l.client] = call[l.client] /\ LockOK(l)
      BY <2>1, <3>1 DEF TxInv
    <3> QED BY <3>2 DEF LockOK, Running
  <2> QED BY <2>1
<1> QED BY <1>1, <1>2, <1>3, <1>4 DEF TxInv

LEMMA RollbackKeeps ==
    ASSUME TxInv, NEW c \in Clients, Rollback(c)
    PROVE  TxInv'
<1>1. TxTypeOK /\ IDsSuffice
  BY DEF TxInv
<1>2. call' = [call EXCEPT ![c] = Idle] /\ locks' = {l \in locks : l.client # c} /\ UNCHANGED tables
  BY DEF Rollback, Unlocked
<1>3. call' \in [Clients -> Call \cup {Idle}] /\ call'[c] = Idle /\ \A d \in Clients \ {c} : call'[d] = call[d]
  BY <1>1, <1>2 DEF TxTypeOK
<1>4. CallOK(c)'
  BY <1>3 DEF CallOK, Running
<1>5. Reserving' \subseteq Reserving
  BY <1>3 DEF Reserving, Running
<1>6. IDsSuffice'
  BY <1>1, <1>2, <1>5, ReservingShrinks DEF tables
<1>7. /\ locks' \subseteq [client : Clients, row : Rows, mode : Modes]
      /\ \A l, m \in locks' : l.row = m.row /\ Conflict(l.mode, m.mode) => l.client = m.client
  BY <1>1, <1>2 DEF TxTypeOK
<1> QED BY <1>2, <1>3, <1>4, <1>6, <1>7, StepKeeps

LEMMA BeginKeeps ==
    ASSUME TxInv, NEW c \in Clients, NEW op \in Ops, NEW s \in Sellers, NEW amount \in Amounts,
           Begin(c, op, s, amount)
    PROVE  TxInv'
<1>1. TxTypeOK /\ IDsSuffice /\ ~Running(c) /\ amount > 0
  BY DEF TxInv, Begin
<1>2. PICK arg \in Arguments(op) :
         call' = [call EXCEPT ![c] =
                      [op |-> op, seller |-> s, amount |-> amount, ref |-> arg[1], id |-> arg[2],
                       step |-> FirstStep(op), hold |-> {}, inserted |-> FALSE]]
  BY DEF Begin
<1> DEFINE k == [op |-> op, seller |-> s, amount |-> amount, ref |-> arg[1], id |-> arg[2],
                 step |-> FirstStep(op), hold |-> {}, inserted |-> FALSE]
<1>3. issued \subseteq HoldIDs
  BY <1>1 DEF TxTypeOK, TypeOK
<1>4. /\ arg[1] \in Refs \cup {Null}
      /\ op # "release" => arg[1] \in Refs
      /\ arg[2] \in HoldIDs \cup {Null}
      /\ op = "reserve" => IDsLeft
  BY <1>3 DEF Arguments, Ops
<1>5. k \in Call
  BY <1>4 DEF Call, FirstStep, Steps
<1>6. /\ call' \in [Clients -> Call \cup {Idle}]
      /\ call'[c] = k
      /\ \A d \in Clients \ {c} : call'[d] = call[d]
  BY <1>1, <1>2, <1>5 DEF TxTypeOK
<1>7. UNCHANGED tables /\ UNCHANGED locks
  BY DEF Begin
<1>8. \A l \in locks : l.client # c
  BY <1>1 DEF TxInv, LockOK
<1>9. CallOK(c)'
  <2>1. /\ call'[c].op = op /\ call'[c].seller = s /\ call'[c].amount = amount
        /\ call'[c].ref = arg[1] /\ call'[c].step = FirstStep(op) /\ ~call'[c].inserted
    BY <1>6
  <2>2. Asked(c)'
    BY <1>1, <1>4, <2>1 DEF Asked, FirstStep, Path, Ops
  <2>3. (AccountKept(c) /\ HoldKept(c) /\ KeyKept(c))'
    BY <2>1 DEF AccountKept, HoldKept, KeyKept, FirstStep, AccountFirst, HoldFirst, Written, Ops
  <2>4. EntryKept(c)'
    BY <2>1 DEF EntryKept, FirstStep, Written
  <2> QED BY <2>2, <2>3, <2>4 DEF CallOK
<1>10. IDsSuffice'
  <2>1. CASE op # "reserve"
    <3>1. Reserving' \subseteq Reserving
      BY <1>6, <2>1 DEF Reserving, Running
    <3> QED BY <3>1, <1>1, <1>7, ReservingShrinks DEF tables
  <2>2. CASE op = "reserve"
    <3>1. Reserving' = Reserving \cup {c} /\ c \notin Reserving
      <4>1. call'[c] # Idle
        <5> HIDE DEF k
        <5> QED BY <1>5, <1>6, IdleAssumption
      <4>2. call'[c].op = "reserve"
        BY <1>6, <2>2
      <4> QED BY <1>1, <1>6, <4>1, <4>2 DEF Reserving, Running
    <3>2. IsFiniteSet(Reserving) /\ IsFiniteSet(HoldIDs \ issued)
      BY FiniteAssumption, FS_Subset, FS_Difference DEF Reserving
    <3>3. Cardinality(Reserving') = Cardinality(Reserving) + 1
      BY <3>1, <3>2, FS_AddElement
    <3>4. Cardinality(Reserving) \in Nat /\ Cardinality(HoldIDs \ issued) \in Nat
      BY <3>2, FS_CardinalityType
    <3> QED BY <1>4, <1>7, <2>2, <3>3, <3>4 DEF IDsLeft, IDsSuffice, tables
  <2> QED BY <2>1, <2>2
<1>11. /\ locks' \subseteq [client : Clients, row : Rows, mode : Modes]
       /\ \A l, m \in locks' : l.row = m.row /\ Conflict(l.mode, m.mode) => l.client = m.client
  BY <1>1, <1>7 DEF TxTypeOK
<1> QED BY <1>6, <1>7, <1>8, <1>9, <1>10, <1>11, StepKeeps

-----------------------------------------------------------------------------
(* Statements: they lock a row and move the call on. *)

LEMMA LockGranted ==
    ASSUME TxTypeOK, NEW c \in Clients, NEW row \in Rows, NEW mode \in Modes, Lock(c, row, mode)
    PROVE  /\ locks' \subseteq [client : Clients, row : Rows, mode : Modes]
           /\ \A l, m \in locks' : l.row = m.row /\ Conflict(l.mode, m.mode) => l.client = m.client
           /\ locks \subseteq locks'
           /\ \A l \in locks' : l \in locks \/ l = [client |-> c, row |-> row, mode |-> mode]
           /\ HasLock(c, row, mode)'
<1> DEFINE new == [client |-> c, row |-> row, mode |-> mode]
<1>1. locks' = locks \cup {new}
  BY DEF Lock
<1>2. \A l \in locks : l.row = row /\ Conflict(l.mode, mode) => l.client = c
  BY DEF Lock, Blockers
<1>3. \A m, n : Conflict(m, n) <=> Conflict(n, m)
  BY DEF Conflict
<1>4. \A l, m \in locks' : l.row = m.row /\ Conflict(l.mode, m.mode) => l.client = m.client
  <2> SUFFICES ASSUME NEW l \in locks', NEW m \in locks', l.row = m.row, Conflict(l.mode, m.mode)
               PROVE  l.client = m.client
    OBVIOUS
  <2>1. CASE l \in locks /\ m \in locks
    BY <2>1 DEF TxTypeOK
  <2>2. CASE l = new /\ m \in locks
    BY <1>2, <1>3, <2>2
  <2>3. CASE m = new /\ l \in locks
    BY <1>2, <2>3
  <2>4. CASE m = new /\ l = new
    BY <2>4
  <2> QED BY <1>1, <2>1, <2>2, <2>3, <2>4
<1> QED BY <1>1, <1>4 DEF TxTypeOK, HasLock

(* A call moves on inside its transaction. *)
LEMMA AdvanceKeeps ==
    ASSUME TxInv, NEW c \in Clients, Running(c), UNCHANGED tables,
           NEW k \in Call, k.op = call[c].op, call' = [call EXCEPT ![c] = k],
           locks' \subseteq [client : Clients, row : Rows, mode : Modes],
           \A l, m \in locks' : l.row = m.row /\ Conflict(l.mode, m.mode) => l.client = m.client,
           locks \subseteq locks',
           \A l \in locks' : l \in locks \/ l.client = c,
           CallOK(c)',
           \A l \in locks' : l.client = c => LockOK(l)'
    PROVE  TxInv'
<1>1. TxTypeOK /\ IDsSuffice
  BY DEF TxInv
<1>2. /\ call' \in [Clients -> Call \cup {Idle}]
      /\ call'[c] = k
      /\ \A d \in Clients \ {c} : call'[d] = call[d]
  BY <1>1 DEF TxTypeOK
<1>3. Reserving' \subseteq Reserving
  BY <1>2 DEF Reserving, Running
<1>4. IDsSuffice'
  BY <1>1, <1>3, ReservingShrinks DEF tables
<1> QED BY <1>2, <1>4, StepKeeps

(* Nothing but where it is, what it found and whether it inserted changes. *)
Continues(c, k) ==
    /\ k \in Call
    /\ call' = [call EXCEPT ![c] = k]
    /\ call'[c] = k
    /\ k.op = call[c].op
    /\ k.seller = call[c].seller
    /\ k.amount = call[c].amount
    /\ k.ref = call[c].ref

LEMMA GotoContinues ==
    ASSUME TxTypeOK, NEW c \in Clients, Running(c), NEW step \in Steps, Goto(c, step)
    PROVE  \E k : /\ Continues(c, k)
                  /\ k.step = step
                  /\ k.hold = call[c].hold
                  /\ k.inserted = call[c].inserted
<1> DEFINE k == [call[c] EXCEPT !.step = step]
<1>1. call[c] \in Call
  BY CallShape
<1>2. call' = [call EXCEPT ![c] = k]
  BY DEF Goto
<1>4. k = [op |-> call[c].op, seller |-> call[c].seller, amount |-> call[c].amount,
           ref |-> call[c].ref, id |-> call[c].id, step |-> step, hold |-> call[c].hold,
           inserted |-> call[c].inserted]
  BY <1>1 DEF Call
<1>5. k \in Call
  BY <1>4, CallShape DEF Call
<1> HIDE DEF k
<1>6. PICK r \in Call : r = k
  BY <1>5
<1>7. call' = [call EXCEPT ![c] = r] /\ call'[c] = r
  BY <1>2, <1>6 DEF TxTypeOK
<1>8. /\ r.op = call[c].op /\ r.seller = call[c].seller
      /\ r.amount = call[c].amount /\ r.ref = call[c].ref
  BY <1>4, <1>6
<1>9. Continues(c, r)
  BY <1>7, <1>8 DEF Continues
<1> QED BY <1>4, <1>6, <1>9

Finds(c, hold, step) == call' = [call EXCEPT ![c].hold = hold, ![c].step = step]

LEMMA FindingContinues ==
    ASSUME TxTypeOK, NEW c \in Clients, Running(c), NEW step \in Steps, NEW hold \in SUBSET Hold,
           Finds(c, hold, step)
    PROVE  \E k : /\ Continues(c, k)
                  /\ k.step = step
                  /\ k.hold = hold
                  /\ k.inserted = call[c].inserted
<1> DEFINE j == [call[c] EXCEPT !.hold = hold]
           k == [j EXCEPT !.step = step]
<1>1. call[c] \in Call
  BY CallShape
<1>2. call' = [call EXCEPT ![c] = k]
  BY DEF Finds, TxTypeOK
<1>3. j = [op |-> call[c].op, seller |-> call[c].seller, amount |-> call[c].amount,
           ref |-> call[c].ref, id |-> call[c].id, step |-> call[c].step, hold |-> hold,
           inserted |-> call[c].inserted]
  BY <1>1 DEF Call
<1> HIDE DEF j
<1>4. k = [op |-> call[c].op, seller |-> call[c].seller, amount |-> call[c].amount,
           ref |-> call[c].ref, id |-> call[c].id, step |-> step, hold |-> hold,
           inserted |-> call[c].inserted]
  BY <1>3
<1>5. k \in Call
  BY <1>4, CallShape DEF Call
<1> HIDE DEF k
<1>6. PICK r \in Call : r = k
  BY <1>5
<1>7. call' = [call EXCEPT ![c] = r] /\ call'[c] = r
  BY <1>2, <1>6 DEF TxTypeOK
<1>8. /\ r.op = call[c].op /\ r.seller = call[c].seller
      /\ r.amount = call[c].amount /\ r.ref = call[c].ref
  BY <1>4, <1>6
<1>9. Continues(c, r)
  BY <1>7, <1>8 DEF Continues
<1> QED BY <1>4, <1>6, <1>9

LEMMA InsertContinues ==
    ASSUME TxTypeOK, NEW c \in Clients, Running(c), NEW step \in Steps, NEW ins \in BOOLEAN,
           call' = [call EXCEPT ![c].inserted = ins, ![c].step = step]
    PROVE  \E k : /\ Continues(c, k)
                  /\ k.step = step
                  /\ k.hold = call[c].hold
                  /\ k.inserted = ins
<1> DEFINE j == [call[c] EXCEPT !.inserted = ins]
           k == [j EXCEPT !.step = step]
<1>1. call[c] \in Call
  BY CallShape
<1>2. call' = [call EXCEPT ![c] = k]
  BY DEF TxTypeOK
<1>3. j = [op |-> call[c].op, seller |-> call[c].seller, amount |-> call[c].amount,
           ref |-> call[c].ref, id |-> call[c].id, step |-> call[c].step, hold |-> call[c].hold,
           inserted |-> ins]
  BY <1>1 DEF Call
<1> HIDE DEF j
<1>4. k = [op |-> call[c].op, seller |-> call[c].seller, amount |-> call[c].amount,
           ref |-> call[c].ref, id |-> call[c].id, step |-> step, hold |-> call[c].hold,
           inserted |-> ins]
  BY <1>3
<1>5. k \in Call
  BY <1>4, CallShape DEF Call
<1> HIDE DEF k
<1>6. PICK r \in Call : r = k
  BY <1>5
<1>7. call' = [call EXCEPT ![c] = r] /\ call'[c] = r
  BY <1>2, <1>6 DEF TxTypeOK
<1>8. /\ r.op = call[c].op /\ r.seller = call[c].seller
      /\ r.amount = call[c].amount /\ r.ref = call[c].ref
  BY <1>4, <1>6
<1>9. Continues(c, r)
  BY <1>7, <1>8 DEF Continues
<1> QED BY <1>4, <1>6, <1>9

(* Locks a call has suit its later statements too. *)
LEMMA OwnLocks ==
    ASSUME TxTypeOK, NEW c \in Clients, NEW k, Continues(c, k),
           k.step \notin {"lock_account", "lock_hold"},
           call[c].step # "commit",
           call[c].step \in Written \cup {"foreign_key"} => k.step \in Written \cup {"foreign_key"},
           call[c].step \in Written => k.step \in Written,
           NEW l \in locks, l.client = c, LockOK(l)
    PROVE  LockOK(l)'
<1>1. call'[c] = k /\ k \in Call /\ k.op = call[c].op /\ k.seller = call[c].seller
  BY DEF Continues
<1>2. Running(c)'
  BY <1>1, IdleAssumption DEF Running
<1> QED BY <1>1, <1>2 DEF LockOK

(* What a call relies on still holds for it. *)
LEMMA OwnFacts ==
    ASSUME NEW c \in Clients, NEW k, Continues(c, k), UNCHANGED tables, locks \subseteq locks'
    PROVE  /\ \A row, mode : HasLock(c, row, mode) => HasLock(c, row, mode)'
           /\ \A ref, dir : Posted(ref, dir)' <=> Posted(ref, dir)
           /\ AccountAllows(call[c]) => AccountAllows(k)'
           /\ holds' = holds /\ accounts' = accounts
BY DEF HasLock, Posted, tables, AccountAllows, Continues, Available, WithinGrace

Forward(c, k) ==
    /\ call[c].step # "commit"
    /\ k.step \notin {"lock_account", "lock_hold"}
    /\ call[c].step \in Written \cup {"foreign_key"} => k.step \in Written \cup {"foreign_key"}
    /\ call[c].step \in Written => k.step \in Written

LEMMA LockingKeeps ==
    ASSUME TxInv, NEW c \in Clients, Running(c), NEW k, Continues(c, k), Forward(c, k),
           UNCHANGED tables, NEW row \in Rows, NEW mode \in Modes, Lock(c, row, mode),
           NEW new, new = [client |-> c, row |-> row, mode |-> mode],
           LockOK(new)', CallOK(c)'
    PROVE  TxInv'
<1>1. TxTypeOK
  BY DEF TxInv
<1>2. /\ locks' \subseteq [client : Clients, row : Rows, mode : Modes]
      /\ \A l, m \in locks' : l.row = m.row /\ Conflict(l.mode, m.mode) => l.client = m.client
      /\ locks \subseteq locks'
      /\ \A l \in locks' : l \in locks \/ l = new
  BY <1>1, LockGranted
<1>3. ASSUME NEW l \in locks', l.client = c PROVE LockOK(l)'
  <2>1. CASE l = new
    BY <2>1
  <2>2. CASE l \in locks
    <3>1. LockOK(l)
      BY <2>2 DEF TxInv
    <3> QED BY <1>1, <1>3, <2>2, <3>1, OwnLocks DEF Forward
  <2> QED BY <1>2, <2>1, <2>2
<1>4. \A l \in locks' : l \in locks \/ l.client = c
  BY <1>2
<1>5. k \in Call /\ k.op = call[c].op /\ call' = [call EXCEPT ![c] = k]
  BY DEF Continues
<1> QED BY <1>2, <1>3, <1>4, <1>5, AdvanceKeeps

LEMMA LockAccountKeeps ==
    ASSUME TxInv, NEW c \in Clients, LockAccount(c)
    PROVE  TxInv'
<1>1. TxTypeOK /\ CallOK(c) /\ Running(c) /\ call[c].step = "lock_account"
  BY DEF TxInv, LockAccount, At
<1>2. CASE call[c].seller \notin accounts
  BY <1>2, RollbackKeeps DEF LockAccount
<1>3. CASE call[c].seller \in accounts
  <2>0. PICK s \in Sellers : s = call[c].seller
    BY <1>1, CallShape
  <2>1. /\ Lock(c, AccountRow(s), "update")
        /\ AccountAllows(call[c])
        /\ Goto(c, IF call[c].op = "reserve" THEN "insert_hold" ELSE "post")
        /\ UNCHANGED tables
    BY <1>3, <2>0 DEF LockAccount, AccountReadLock
  <2>2. call[c].op \in AccountFirst
    BY <1>1, CallShape DEF CallOK, Asked, Path, Ops, AccountFirst
  <2>3. PICK step \in Steps : step = IF call[c].op = "reserve" THEN "insert_hold" ELSE "post"
    BY DEF Steps
  <2>4. Goto(c, step)
    BY <2>1, <2>3 DEF Goto
  <2>5. PICK k : /\ Continues(c, k)
                 /\ k.step = step
                 /\ k.hold = call[c].hold
                 /\ k.inserted = call[c].inserted
    BY <1>1, <2>4, GotoContinues
  <2>6. /\ call'[c] = k /\ k \in Call /\ k.op = call[c].op
        /\ k.seller = s /\ k.amount = call[c].amount /\ k.ref = call[c].ref
    BY <2>0, <2>5 DEF Continues
  <2>7. AccountRow(s) \in Rows /\ "update" \in Modes
    BY DEF Rows, Modes
  <2>8. locks \subseteq locks' /\ HasLock(c, AccountRow(s), "update")'
    BY <1>1, <2>1, <2>7, LockGranted
  <2>9. /\ \A row, mode : HasLock(c, row, mode) => HasLock(c, row, mode)'
        /\ \A ref, dir : Posted(ref, dir)' <=> Posted(ref, dir)
        /\ AccountAllows(k)'
        /\ accounts' = accounts
    BY <2>1, <2>5, <2>8, OwnFacts
  <2>10. CallOK(c)'
    <3>1. Asked(c)'
      BY <1>1, <2>2, <2>3, <2>5, <2>6 DEF CallOK, Asked, Path, AccountFirst
    <3>2. AccountKept(c)'
      BY <1>3, <2>0, <2>6, <2>8, <2>9 DEF AccountKept
    <3>3. (HoldKept(c) /\ KeyKept(c))'
      BY <2>2, <2>3, <2>5, <2>6 DEF HoldKept, KeyKept, HoldFirst, AccountFirst, Written
    <3>4. EntryKept(c)'
      <4>1. EntryKept(c)
        BY <1>1 DEF CallOK
      <4> QED BY <4>1, <2>2, <2>3, <2>5, <2>6, <2>9 DEF EntryKept, Written, AccountFirst
    <3> QED BY <3>1, <3>2, <3>3, <3>4 DEF CallOK
  <2>11. Forward(c, k)
    BY <1>1, <2>3, <2>5 DEF Forward, Written
  <2>12. PICK new : new = [client |-> c, row |-> AccountRow(s), mode |-> "update"]
    OBVIOUS
  <2>13. LockOK(new)'
    BY <2>2, <2>3, <2>5, <2>6, <2>12, IdleAssumption DEF LockOK, Running
  <2> QED BY <1>1, <2>1, <2>5, <2>7, <2>10, <2>11, <2>12, <2>13, LockingKeeps
<1> QED BY <1>2, <1>3

(* What a statement does not disturb. *)
LEMMA CarryOver ==
    ASSUME NEW c \in Clients, Running(c), CallOK(c), NEW k, Continues(c, k),
           UNCHANGED tables, locks \subseteq locks'
    PROVE  /\ call[c].step # "lock_account" => AccountKept(c)'
           /\ k.hold = call[c].hold /\ call[c].step # "lock_hold" => HoldKept(c)'
           /\ /\ k.hold = call[c].hold
              /\ k.op = "reserve" /\ k.step \in Written => call[c].step \in Written
              => KeyKept(c)'
           /\ /\ k.inserted = call[c].inserted
              /\ k.op \in {"credit", "debit"} /\ k.step \in Written => call[c].step \in Written
              /\ k.op = "confirm" => call[c].step \notin {"lock_hold", "post"}
              => EntryKept(c)'
<1>1. /\ call'[c] = k /\ k.op = call[c].op
      /\ k.seller = call[c].seller /\ k.amount = call[c].amount /\ k.ref = call[c].ref
  BY DEF Continues
<1>2. /\ \A row, mode : HasLock(c, row, mode) => HasLock(c, row, mode)'
      /\ \A ref, dir : Posted(ref, dir)' <=> Posted(ref, dir)
      /\ AccountAllows(call[c]) => AccountAllows(k)'
      /\ holds' = holds /\ accounts' = accounts
  BY OwnFacts
<1>3. AccountKept(c) /\ HoldKept(c) /\ KeyKept(c) /\ EntryKept(c)
  BY DEF CallOK
<1>4. ASSUME call[c].step # "lock_account" PROVE AccountKept(c)'
  BY <1>1, <1>2, <1>3, <1>4 DEF AccountKept
<1>5. ASSUME k.hold = call[c].hold, call[c].step # "lock_hold" PROVE HoldKept(c)'
  BY <1>1, <1>2, <1>3, <1>5 DEF HoldKept
<1>6. ASSUME k.hold = call[c].hold,
             k.op = "reserve" /\ k.step \in Written => call[c].step \in Written
      PROVE  KeyKept(c)'
  BY <1>1, <1>2, <1>3, <1>6 DEF KeyKept
<1>7. ASSUME k.inserted = call[c].inserted,
             k.op \in {"credit", "debit"} /\ k.step \in Written => call[c].step \in Written,
             k.op = "confirm" => call[c].step \notin {"lock_hold", "post"}
      PROVE  EntryKept(c)'
  BY <1>1, <1>2, <1>3, <1>7 DEF EntryKept
<1> QED BY <1>4, <1>5, <1>6, <1>7

LEMMA LockHoldKeeps ==
    ASSUME TxInv, NEW c \in Clients, LockHold(c)
    PROVE  TxInv'
<1>1. TxTypeOK /\ CallOK(c) /\ Running(c) /\ call[c].step = "lock_hold" /\ UNCHANGED tables
  BY DEF TxInv, LockHold, At
<1>2. PICK h \in holds :
         /\ h.seller = call[c].seller
         /\ Lock(c, HoldRow(h.ref), "update")
         /\ h.status = "active"
         /\ call' = [call EXCEPT ![c].hold = {h},
                                 ![c].step = IF call[c].op = "confirm" THEN "post" ELSE "write_account"]
  BY DEF LockHold, FoundHold, HoldReadLock, Confirmable
<1>3. PICK ref \in Refs : ref = h.ref
  BY <1>1 DEF TxTypeOK, TypeOK, Hold
<1>4. call[c].op \in HoldFirst
  BY <1>1, CallShape DEF CallOK, Asked, Path, Ops, HoldFirst
<1>5. PICK step \in Steps, hold \in SUBSET Hold :
         step = (IF call[c].op = "confirm" THEN "post" ELSE "write_account") /\ hold = {h}
  BY <1>1 DEF Steps, TxTypeOK, TypeOK
<1>6. Finds(c, hold, step)
  BY <1>2, <1>5 DEF Finds
<1>7. PICK k : /\ Continues(c, k)
               /\ k.step = step
               /\ k.hold = hold
               /\ k.inserted = call[c].inserted
  BY <1>1, <1>6, FindingContinues
<1>8. /\ call'[c] = k /\ k \in Call /\ k.op = call[c].op
      /\ k.seller = call[c].seller /\ k.amount = call[c].amount /\ k.ref = call[c].ref
  BY <1>7 DEF Continues
<1>9. HoldRow(ref) \in Rows /\ "update" \in Modes /\ Lock(c, HoldRow(ref), "update")
  BY <1>2, <1>3 DEF Rows, Modes
<1>10. locks \subseteq locks' /\ HasLock(c, HoldRow(ref), "update")'
  BY <1>1, <1>9, LockGranted
<1>11. CallOK(c)'
  <2>1. Asked(c)'
    BY <1>1, <1>4, <1>5, <1>7, <1>8 DEF CallOK, Asked, Path, HoldFirst
  <2>2. AccountKept(c)' /\ KeyKept(c)'
    BY <1>4, <1>8 DEF AccountKept, KeyKept, AccountFirst, HoldFirst
  <2>3. HoldKept(c)'
    BY <1>1, <1>2, <1>3, <1>5, <1>7, <1>8, <1>10 DEF HoldKept, tables
  <2>4. EntryKept(c)'
    <3>1. /\ \A row, mode : HasLock(c, row, mode) => HasLock(c, row, mode)'
          /\ \A r, dir : Posted(r, dir)' <=> Posted(r, dir)
      BY <1>1, <1>7, <1>10, OwnFacts
    <3>2. EntryKept(c)
      BY <1>1 DEF CallOK
    <3> QED BY <1>4, <1>5, <1>7, <1>8, <3>1, <3>2 DEF EntryKept, HoldFirst
  <2> QED BY <2>1, <2>2, <2>3, <2>4 DEF CallOK
<1>12. Forward(c, k)
  BY <1>1, <1>5, <1>7 DEF Forward, Written
<1>13. PICK new : new = [client |-> c, row |-> HoldRow(ref), mode |-> "update"]
  OBVIOUS
<1>14. LockOK(new)'
  BY <1>4, <1>5, <1>7, <1>8, <1>13, IdleAssumption DEF LockOK, Running
<1> QED BY <1>1, <1>7, <1>9, <1>11, <1>12, <1>13, <1>14, LockingKeeps

LEMMA PostEntryKeeps ==
    ASSUME TxInv, NEW c \in Clients, PostEntry(c)
    PROVE  TxInv'
<1>1. TxTypeOK /\ CallOK(c) /\ Running(c) /\ call[c].step = "post" /\ UNCHANGED tables
  BY DEF TxInv, PostEntry, At
<1>2. call[c].op \in {"credit", "debit", "confirm"} /\ call[c].ref \in Refs
  BY <1>1, CallShape DEF CallOK, Asked, Path, Ops
<1>3. PICK ref \in Refs, dir \in Directions : ref = call[c].ref /\ dir = EntryDirection(call[c].op)
  BY <1>2 DEF EntryDirection, Directions
<1>4. /\ ~Posted(ref, dir)
      /\ Lock(c, EntryRow(ref, dir), "update")
  BY <1>3 DEF PostEntry
<1>5. PICK step \in Steps, ins \in BOOLEAN :
         step = (IF call[c].op = "confirm" THEN "foreign_key" ELSE "write_account") /\ ins = TRUE
  BY DEF Steps
<1>6. call' = [call EXCEPT ![c].inserted = ins, ![c].step = step]
  BY <1>5 DEF PostEntry
<1>7. PICK k : /\ Continues(c, k)
               /\ k.step = step
               /\ k.hold = call[c].hold
               /\ k.inserted = ins
  BY <1>1, <1>6, InsertContinues
<1>8. /\ call'[c] = k /\ k \in Call /\ k.op = call[c].op
      /\ k.seller = call[c].seller /\ k.amount = call[c].amount /\ k.ref = ref
  BY <1>3, <1>7 DEF Continues
<1>9. EntryRow(ref, dir) \in Rows /\ "update" \in Modes
  BY DEF Rows, Modes
<1>10. locks \subseteq locks' /\ HasLock(c, EntryRow(ref, dir), "update")'
  BY <1>1, <1>4, <1>9, LockGranted
<1>11. CallOK(c)'
  <2>1. Asked(c)'
    BY <1>1, <1>2, <1>5, <1>7, <1>8 DEF CallOK, Asked, Path
  <2>2. AccountKept(c)' /\ HoldKept(c)' /\ KeyKept(c)'
    BY <1>1, <1>2, <1>7, <1>8, <1>10, CarryOver
  <2>3. EntryKept(c)'
    <3>1. ~Posted(ref, dir)'
      BY <1>1, <1>4 DEF Posted, tables
    <3>2. EntryDirection(k.op) = dir /\ k.inserted
      BY <1>3, <1>5, <1>7, <1>8
    <3> QED BY <1>8, <1>10, <3>1, <3>2 DEF EntryKept
  <2> QED BY <2>1, <2>2, <2>3 DEF CallOK
<1>12. Forward(c, k)
  BY <1>1, <1>5, <1>7 DEF Forward, Written
<1>13. PICK new : new = [client |-> c, row |-> EntryRow(ref, dir), mode |-> "update"]
  OBVIOUS
<1>14. LockOK(new)'
  BY <1>2, <1>3, <1>5, <1>7, <1>8, <1>13, IdleAssumption DEF LockOK, Running, Written
<1> QED BY <1>1, <1>4, <1>7, <1>9, <1>11, <1>12, <1>13, <1>14, LockingKeeps

LEMMA SkipEntryKeeps ==
    ASSUME TxInv, NEW c \in Clients, SkipEntry(c)
    PROVE  TxInv'
<1>1. TxTypeOK /\ CallOK(c) /\ Running(c) /\ call[c].step = "post"
  BY DEF TxInv, SkipEntry, At
<1>2. CASE call[c].op = "confirm"
  BY <1>2, RollbackKeeps DEF SkipEntry
<1>3. CASE call[c].op # "confirm"
  <2>1. /\ Goto(c, "write_account")
        /\ UNCHANGED <<tables, locks>>
        /\ Posted(call[c].ref, EntryDirection(call[c].op))
    BY <1>3 DEF SkipEntry
  <2>2. call[c].op \in {"credit", "debit"}
    BY <1>1, <1>3, CallShape DEF CallOK, Asked, Path, Ops
  <2>3. PICK k : /\ Continues(c, k)
                 /\ k.step = "write_account"
                 /\ k.hold = call[c].hold
                 /\ k.inserted = call[c].inserted
    BY <1>1, <2>1, GotoContinues DEF Steps
  <2>4. /\ call'[c] = k /\ k \in Call /\ k.op = call[c].op /\ call' = [call EXCEPT ![c] = k]
        /\ k.seller = call[c].seller /\ k.amount = call[c].amount /\ k.ref = call[c].ref
    BY <2>3 DEF Continues
  <2>5. locks \subseteq locks' /\ UNCHANGED tables
    BY <2>1
  <2>6. CallOK(c)'
    <3>1. Asked(c)'
      BY <1>1, <2>2, <2>3, <2>4 DEF CallOK, Asked, Path
    <3>2. AccountKept(c)' /\ HoldKept(c)' /\ KeyKept(c)'
      BY <1>1, <2>2, <2>3, <2>4, <2>5, CarryOver
    <3>3. EntryKept(c)'
      <4>1. Posted(k.ref, EntryDirection(k.op))' /\ Posted(k.ref, EntryDirection(k.op))
        BY <2>1, <2>4 DEF Posted, tables
      <4>2. ~call[c].inserted
        BY <1>1, <2>4, <4>1 DEF CallOK, EntryKept
      <4>3. ~k.inserted
        BY <2>3, <4>2
      <4> QED BY <2>2, <2>4, <4>1, <4>3 DEF EntryKept
    <3> QED BY <3>1, <3>2, <3>3 DEF CallOK
  <2>7. ASSUME NEW l \in locks', l.client = c PROVE LockOK(l)'
    <3>1. LockOK(l) /\ l \in locks
      BY <2>1, <2>7 DEF TxInv
    <3> QED BY <1>1, <2>3, <2>7, <3>1, OwnLocks DEF Written
  <2>8. /\ locks' \subseteq [client : Clients, row : Rows, mode : Modes]
        /\ \A l, m \in locks' : l.row = m.row /\ Conflict(l.mode, m.mode) => l.client = m.client
        /\ \A l \in locks' : l \in locks \/ l.client = c
    BY <1>1, <2>1 DEF TxTypeOK
  <2> QED BY <1>1, <2>4, <2>5, <2>6, <2>7, <2>8, AdvanceKeeps
<1> QED BY <1>2, <1>3

LEMMA CheckForeignKeyKeeps ==
    ASSUME TxInv, NEW c \in Clients, CheckForeignKey(c)
    PROVE  TxInv'
<1>1. TxTypeOK /\ CallOK(c) /\ Running(c) /\ call[c].step = "foreign_key" /\ UNCHANGED tables
  BY DEF TxInv, CheckForeignKey, At
<1>2. call[c].op = "confirm"
  BY <1>1, CallShape DEF CallOK, Asked, Path, Ops
<1>3. PICK s \in Sellers : s = call[c].seller
  BY <1>1, CallShape
<1>4. Lock(c, AccountRow(s), "key_share") /\ Goto(c, "write_account")
  BY <1>3 DEF CheckForeignKey
<1>5. PICK k : /\ Continues(c, k)
               /\ k.step = "write_account"
               /\ k.hold = call[c].hold
               /\ k.inserted = call[c].inserted
  BY <1>1, <1>4, GotoContinues DEF Steps
<1>6. /\ call'[c] = k /\ k \in Call /\ k.op = call[c].op
      /\ k.seller = s /\ k.amount = call[c].amount /\ k.ref = call[c].ref
  BY <1>3, <1>5 DEF Continues
<1>7. AccountRow(s) \in Rows /\ "key_share" \in Modes
  BY DEF Rows, Modes
<1>8. locks \subseteq locks'
  BY <1>1, <1>4, <1>7, LockGranted
<1>9. CallOK(c)'
  <2>1. Asked(c)'
    BY <1>1, <1>2, <1>5, <1>6 DEF CallOK, Asked, Path
  <2>2. AccountKept(c)' /\ HoldKept(c)' /\ KeyKept(c)' /\ EntryKept(c)'
    BY <1>1, <1>2, <1>5, <1>6, <1>8, CarryOver
  <2> QED BY <2>1, <2>2 DEF CallOK
<1>10. Forward(c, k)
  BY <1>1, <1>5 DEF Forward, Written
<1>11. PICK new : new = [client |-> c, row |-> AccountRow(s), mode |-> "key_share"]
  OBVIOUS
<1>12. LockOK(new)'
  BY <1>2, <1>5, <1>6, <1>11, IdleAssumption DEF LockOK, Running
<1> QED BY <1>1, <1>4, <1>5, <1>7, <1>9, <1>10, <1>11, <1>12, LockingKeeps

LEMMA WriteAccountKeeps ==
    ASSUME TxInv, NEW c \in Clients, WriteAccount(c)
    PROVE  TxInv'
<1>1. TxTypeOK /\ CallOK(c) /\ Running(c) /\ call[c].step = "write_account" /\ UNCHANGED tables
  BY DEF TxInv, WriteAccount, At
<1>2. call[c].op \in Ops
  BY <1>1, CallShape
<1>3. PICK s \in Sellers : s = call[c].seller
  BY <1>1, CallShape
<1>4. Lock(c, AccountRow(s), "no_key_update") /\ Goto(c, "commit")
  BY <1>3 DEF WriteAccount, AccountWriteLock
<1>5. PICK k : /\ Continues(c, k)
               /\ k.step = "commit"
               /\ k.hold = call[c].hold
               /\ k.inserted = call[c].inserted
  BY <1>1, <1>4, GotoContinues DEF Steps
<1>6. /\ call'[c] = k /\ k \in Call /\ k.op = call[c].op
      /\ k.seller = s /\ k.amount = call[c].amount /\ k.ref = call[c].ref
  BY <1>3, <1>5 DEF Continues
<1>7. AccountRow(s) \in Rows /\ "no_key_update" \in Modes
  BY DEF Rows, Modes
<1>8. locks \subseteq locks' /\ HasLock(c, AccountRow(s), "no_key_update")'
  BY <1>1, <1>4, <1>7, LockGranted
<1>9. CallOK(c)'
  <2>1. Asked(c)'
    BY <1>1, <1>2, <1>5, <1>6, <1>8 DEF CallOK, Asked, Path, Ops
  <2>2. AccountKept(c)' /\ HoldKept(c)' /\ KeyKept(c)' /\ EntryKept(c)'
    BY <1>1, <1>2, <1>5, <1>6, <1>8, CarryOver DEF Written
  <2> QED BY <2>1, <2>2 DEF CallOK
<1>10. Forward(c, k)
  BY <1>1, <1>5 DEF Forward, Written
<1>11. PICK new : new = [client |-> c, row |-> AccountRow(s), mode |-> "no_key_update"]
  OBVIOUS
<1>12. LockOK(new)'
  BY <1>2, <1>5, <1>6, <1>11, IdleAssumption DEF LockOK, Running
<1> QED BY <1>1, <1>4, <1>5, <1>7, <1>9, <1>10, <1>11, <1>12, LockingKeeps

LEMMA InsertHoldKeeps ==
    ASSUME TxInv, NEW c \in Clients, InsertHold(c)
    PROVE  TxInv'
<1>1. TxTypeOK /\ CallOK(c) /\ Running(c) /\ call[c].step = "insert_hold" /\ UNCHANGED tables
  BY DEF TxInv, InsertHold, At
<1>2. call[c].op = "reserve" /\ call[c].ref \in Refs
  BY <1>1, CallShape DEF CallOK, Asked, Path, Ops
<1>3. PICK ref \in Refs : ref = call[c].ref
  BY <1>2
<1>4. PICK hold \in SUBSET Hold : hold = {h \in holds : h.ref = ref}
  BY <1>1 DEF TxTypeOK, TypeOK
<1>5. /\ Lock(c, HoldRow(ref), "update")
      /\ \A h \in hold : h.seller = call[c].seller
      /\ Finds(c, hold, "write_account")
  BY <1>3, <1>4 DEF InsertHold, Finds
<1>6. PICK k : /\ Continues(c, k)
               /\ k.step = "write_account"
               /\ k.hold = hold
               /\ k.inserted = call[c].inserted
  BY <1>1, <1>5, FindingContinues DEF Steps
<1>7. /\ call'[c] = k /\ k \in Call /\ k.op = call[c].op
      /\ k.seller = call[c].seller /\ k.amount = call[c].amount /\ k.ref = ref
  BY <1>3, <1>6 DEF Continues
<1>8. HoldRow(ref) \in Rows /\ "update" \in Modes
  BY DEF Rows, Modes
<1>9. locks \subseteq locks' /\ HasLock(c, HoldRow(ref), "update")'
  BY <1>1, <1>5, <1>8, LockGranted
<1>10. CallOK(c)'
  <2>1. Asked(c)'
    BY <1>1, <1>2, <1>6, <1>7 DEF CallOK, Asked, Path
  <2>2. AccountKept(c)' /\ EntryKept(c)'
    BY <1>1, <1>2, <1>6, <1>7, <1>9, CarryOver
  <2>3. HoldKept(c)'
    BY <1>2, <1>7 DEF HoldKept, HoldFirst
  <2>4. KeyKept(c)'
    BY <1>1, <1>4, <1>5, <1>6, <1>7, <1>9 DEF KeyKept, tables
  <2> QED BY <2>1, <2>2, <2>3, <2>4 DEF CallOK
<1>11. Forward(c, k)
  BY <1>1, <1>6 DEF Forward, Written
<1>12. PICK new : new = [client |-> c, row |-> HoldRow(ref), mode |-> "update"]
  OBVIOUS
<1>13. LockOK(new)'
  BY <1>2, <1>6, <1>7, <1>12, IdleAssumption DEF LockOK, Running, Written
<1> QED BY <1>1, <1>5, <1>6, <1>8, <1>10, <1>11, <1>12, <1>13, LockingKeeps

-----------------------------------------------------------------------------
(* COMMIT *)

(* A commit changes only rows its transaction has locked. *)
WritesLocked(c) ==
    /\ UNCHANGED <<accounts, status>>
    /\ \A s \in Sellers : ~HasLock(c, AccountRow(s), "no_key_update") =>
          balance'[s] = balance[s] /\ holdTotal'[s] = holdTotal[s]
    /\ \A ref, dir : Posted(ref, dir) => Posted(ref, dir)'
    /\ \A ref, dir : Posted(ref, dir)' /\ ~Posted(ref, dir) => HasLock(c, EntryRow(ref, dir), "update")
    /\ \A ref \in Refs : ~HasLock(c, HoldRow(ref), "update") =>
          \A h : h.ref = ref => (h \in holds' <=> h \in holds)

(* The call as it reaches its COMMIT. *)
LEMMA AtCommit ==
    ASSUME TxInv, NEW c \in Clients, Commit(c)
    PROVE  \E k \in Call :
              /\ k = call[c]
              /\ CallOK(c) /\ Running(c) /\ k.step = "commit"
              /\ Writes(k) /\ InRange(k)
              /\ HasLock(c, AccountRow(k.seller), "no_key_update")
              /\ k.amount > 0
              /\ k.op # "release" => k.ref \in Refs
<1>1. TxTypeOK /\ CallOK(c) /\ Running(c) /\ call[c].step = "commit"
  BY DEF TxInv, Commit, At
<1>2. PICK k \in Call : k = call[c]
  BY <1>1, CallShape
<1>3. Writes(k) /\ InRange(k)
  BY <1>2 DEF Commit, Writes, InRange
<1> QED BY <1>1, <1>2, <1>3 DEF CallOK, Asked

LEMMA CommitMoney ==
    ASSUME TxInv, NEW c \in Clients, Commit(c), call[c].op \in {"credit", "debit"}
    PROVE  Next /\ WritesLocked(c) /\ UNCHANGED issued
<1>1. PICK k \in Call :
         /\ k = call[c]
         /\ CallOK(c) /\ Running(c) /\ k.step = "commit"
         /\ Writes(k) /\ InRange(k)
         /\ HasLock(c, AccountRow(k.seller), "no_key_update")
         /\ k.amount > 0
         /\ k.op # "release" => k.ref \in Refs
  BY AtCommit
<1>2. TypeOK
  BY DEF TxInv, IInv
<1>3. PICK s \in Sellers, amount \in Amounts, ref \in Refs :
         s = k.seller /\ amount = k.amount /\ ref = k.ref
  BY <1>1 DEF Call
<1>4. amount \in 0..MaxMinor /\ amount > 0
  BY <1>1, <1>3, AmountsAssumption
<1> DEFINE dir == EntryDirection(k.op)
           delta == IF k.op = "credit" THEN amount ELSE -amount
<1>5. /\ ledger' = Posts(k, amount)
      /\ balance' = [balance EXCEPT ![s] = @ + delta]
      /\ UNCHANGED <<accounts, holdTotal, status, holds, issued>>
  BY <1>1, <1>3 DEF Writes, UpdateBalance
<1>6. s \in accounts /\ AccountAllows(k)
  BY <1>1, <1>3 DEF CallOK, AccountKept, AccountFirst
<1>7. /\ k.inserted => ~Posted(ref, dir) /\ HasLock(c, EntryRow(ref, dir), "update")
      /\ ~k.inserted => Posted(ref, dir)
  BY <1>1, <1>3 DEF CallOK, EntryKept, Written
<1>8. ledger' = InsertLedgerEntry(s, dir, amount, ref)
  BY <1>3, <1>5, <1>7 DEF Posts, InsertLedgerEntry
<1>9. balance[s] \in Int /\ balance[s] + delta \in Minor
  BY <1>1, <1>2, <1>3, <1>5 DEF TypeOK, InRange, Minor
<1>10. Next
  <2>1. CASE k.op = "credit"
    <3>1. Credit(s, amount, ref)
      BY <1>4, <1>5, <1>6, <1>8, <1>9, <2>1
         DEF Credit, EntryDirection, UpdateBalance, Minor
    <3> QED BY <3>1 DEF Next
  <2>2. CASE k.op = "debit"
    <3>1. WithinGrace(s, amount)
      BY <1>3, <1>6, <2>2 DEF AccountAllows
    <3>2. balance' = UpdateBalance(s, -amount) /\ balance[s] - amount >= -MaxMinor
      BY <1>4, <1>5, <1>9, <2>2, LimitsAssumption DEF UpdateBalance, Minor
    <3>3. Debit(s, amount, ref)
      BY <1>4, <1>5, <1>6, <1>8, <2>2, <3>1, <3>2 DEF Debit, EntryDirection
    <3> QED BY <3>3 DEF Next
  <2> QED BY <1>1, <2>1, <2>2
<1>11. WritesLocked(c)
  <2>1. \A t \in Sellers : ~HasLock(c, AccountRow(t), "no_key_update") =>
           balance'[t] = balance[t] /\ holdTotal'[t] = holdTotal[t]
    BY <1>1, <1>2, <1>3, <1>5 DEF TypeOK
  <2>2. \A r, d : Posted(r, d) => Posted(r, d)'
    BY <1>8 DEF Posted, InsertLedgerEntry, AppendLedgerEntry
  <2>3. \A r, d : Posted(r, d)' /\ ~Posted(r, d) => HasLock(c, EntryRow(r, d), "update")
    BY <1>5, <1>7, <1>3 DEF Posted, Posts, AppendLedgerEntry
  <2> QED BY <1>5, <2>1, <2>2, <2>3 DEF WritesLocked
<1> QED BY <1>5, <1>10, <1>11

LEMMA FreshIDIsNew ==
    ASSUME TxInv, NEW c \in Clients, Running(c), call[c].op = "reserve"
    PROVE  FreshID \in HoldIDs \ issued
<1>1. IsFiniteSet(Reserving) /\ IsFiniteSet(HoldIDs \ issued)
  BY FiniteAssumption, FS_Subset, FS_Difference DEF Reserving
<1>2. Reserving # {}
  BY DEF Reserving
<1>3. Cardinality(Reserving) \in Nat /\ Cardinality(Reserving) # 0
  BY <1>1, <1>2, FS_CardinalityType, FS_EmptySet
<1>4. Cardinality(HoldIDs \ issued) # 0 /\ Cardinality(HoldIDs \ issued) \in Nat
  BY <1>1, <1>3, FS_CardinalityType DEF TxInv, IDsSuffice
<1>5. HoldIDs \ issued # {}
  BY <1>4, FS_EmptySet
<1> QED BY <1>5 DEF FreshID

LEMMA CommitReserve ==
    ASSUME TxInv, NEW c \in Clients, Commit(c), call[c].op = "reserve"
    PROVE  /\ Next \/ UNCHANGED vars
           /\ WritesLocked(c)
           /\ UNCHANGED issued \/ \E id \in HoldIDs \ issued : issued' = issued \cup {id}
<1>1. PICK k \in Call :
         /\ k = call[c]
         /\ CallOK(c) /\ Running(c) /\ k.step = "commit"
         /\ Writes(k) /\ InRange(k)
         /\ HasLock(c, AccountRow(k.seller), "no_key_update")
         /\ k.amount > 0
         /\ k.op # "release" => k.ref \in Refs
  BY AtCommit
<1>2. TypeOK
  BY DEF TxInv, IInv
<1>3. PICK s \in Sellers, amount \in Amounts, ref \in Refs :
         s = k.seller /\ amount = k.amount /\ ref = k.ref
  BY <1>1 DEF Call
<1>4. CASE Replay(k)
  <2>1. UNCHANGED tables
    BY <1>1, <1>4 DEF Writes
  <2>2. WritesLocked(c)
    BY <2>1 DEF WritesLocked, tables, Posted
  <2> QED BY <2>1, <2>2 DEF tables, vars
<1>5. CASE ~Replay(k)
  <2>1. PICK id : id = FreshID
    OBVIOUS
  <2>2. id \in HoldIDs \ issued
    BY <1>1, <2>1, FreshIDIsNew
  <2>3. /\ holds' = InsertOrGetHold(s, id, amount, ref)
        /\ issued' = issued \cup {id}
        /\ holdTotal' = [holdTotal EXCEPT ![s] = @ + amount]
        /\ UNCHANGED <<accounts, balance, status, ledger>>
    BY <1>1, <1>3, <1>5, <2>1 DEF Writes, UpdateHoldTotal
  <2>4. /\ s \in accounts /\ status[s] = "active" /\ amount <= Available(s)
        /\ HasLock(c, HoldRow(ref), "update")
        /\ k.hold = {h \in holds : h.ref = ref}
        /\ \A h \in k.hold : h.seller = s
    BY <1>1, <1>3 DEF CallOK, AccountKept, AccountFirst, AccountAllows, KeyKept, Written
  <2>5. MayReserve(s, ref)
    BY <1>5, <2>4 DEF MayReserve, Replay
  <2>6. holdTotal[s] + amount <= MaxMinor
    BY <1>1, <1>2, <1>3, <2>3 DEF InRange, TypeOK
  <2>7. Reserve(s, amount, ref)
    BY <1>1, <1>3, <2>2, <2>3, <2>4, <2>5, <2>6 DEF Reserve, UpdateHoldTotal
  <2>8. WritesLocked(c)
    <3>1. \A t \in Sellers : ~HasLock(c, AccountRow(t), "no_key_update") =>
             balance'[t] = balance[t] /\ holdTotal'[t] = holdTotal[t]
      BY <1>1, <1>2, <1>3, <2>3 DEF TypeOK
    <3>2. ASSUME NEW r \in Refs, r # ref, NEW h, h.ref = r PROVE h \in holds' <=> h \in holds
      <4>1. CASE \A g \in holds : g.ref # ref
        BY <2>3, <3>2, <4>1 DEF InsertOrGetHold
      <4>2. CASE \E g \in holds : g.ref = ref
        <5>1. holds' = {IF g.ref = ref /\ g.status # "active" THEN TakeOver(g, id) ELSE g : g \in holds}
          BY <2>3, <4>2 DEF InsertOrGetHold
        <5>2. \A g \in holds : TakeOver(g, id).ref = g.ref
          BY <1>2 DEF TakeOver, TypeOK, Hold
        <5> QED BY <3>2, <5>1, <5>2
      <4> QED BY <4>1, <4>2
    <3>3. \A r, d : Posted(r, d)' <=> Posted(r, d)
      BY <2>3 DEF Posted
    <3> QED BY <2>3, <2>4, <3>1, <3>2, <3>3 DEF WritesLocked
  <2> QED BY <2>2, <2>3, <2>7, <2>8 DEF Next
<1> QED BY <1>4, <1>5

(* Replacing a locked hold by a row of the same ref. *)
LEMMA ResolveLocked ==
    ASSUME TypeOK, NEW c \in Clients, NEW h \in holds, HasLock(c, HoldRow(h.ref), "update"),
           NEW st, NEW entry, holds' = ResolveHold(h, st, entry)
    PROVE  \A ref \in Refs : ~HasLock(c, HoldRow(ref), "update") =>
              \A g : g.ref = ref => (g \in holds' <=> g \in holds)
<1>1. [h EXCEPT !.status = st, !.entry = entry].ref = h.ref
  BY DEF TypeOK, Hold
<1> QED BY <1>1 DEF ResolveHold

LEMMA CommitConfirm ==
    ASSUME TxInv, NEW c \in Clients, Commit(c), call[c].op = "confirm"
    PROVE  Next /\ WritesLocked(c) /\ UNCHANGED issued
<1>1. PICK k \in Call :
         /\ k = call[c]
         /\ CallOK(c) /\ Running(c) /\ k.step = "commit"
         /\ Writes(k) /\ InRange(k)
         /\ HasLock(c, AccountRow(k.seller), "no_key_update")
         /\ k.amount > 0
         /\ k.op # "release" => k.ref \in Refs
  BY AtCommit
<1>2. TypeOK
  BY DEF TxInv, IInv
<1>3. PICK s \in Sellers, ref \in Refs : s = k.seller /\ ref = k.ref
  BY <1>1 DEF Call
<1>4. PICK h \in holds : /\ k.hold = {h}
                         /\ h.status = "active"
                         /\ h.seller = s
                         /\ HasLock(c, HoldRow(h.ref), "update")
  BY <1>1, <1>3 DEF CallOK, HoldKept, HoldFirst
<1>5. k.inserted /\ ~Posted(ref, "debit") /\ HasLock(c, EntryRow(ref, "debit"), "update")
  BY <1>1, <1>3 DEF CallOK, EntryKept, EntryDirection
<1>6. PICK amount \in 0..MaxMinor : amount = h.amount
  BY <1>2, <1>4 DEF TypeOK, Hold
<1>7. /\ ledger' = Posts(k, amount)
      /\ holds' = ResolveHold(h, "confirmed", ref)
      /\ balance' = [balance EXCEPT ![s] = @ + (-amount)]
      /\ holdTotal' = [holdTotal EXCEPT ![s] = @ + (-amount)]
      /\ UNCHANGED <<accounts, status, issued>>
  BY <1>1, <1>3, <1>4, <1>6 DEF Writes, UpdateBalance, UpdateHoldTotal
<1>8. ledger' = AppendLedgerEntry(s, "debit", amount, ref)
  BY <1>1, <1>3, <1>5, <1>7 DEF Posts, EntryDirection
<1>9. balance[s] - amount >= -MaxMinor
  BY <1>1, <1>2, <1>3, <1>7, LimitsAssumption DEF InRange, TypeOK, Minor
<1>10. Confirm(s, h, ref)
  BY <1>4, <1>5, <1>6, <1>7, <1>8, <1>9
     DEF Confirm, Confirmable, EntryExists, InsertLedgerEntry, UpdateBalance, UpdateHoldTotal
<1>11. WritesLocked(c)
  <2>1. \A t \in Sellers : ~HasLock(c, AccountRow(t), "no_key_update") =>
           balance'[t] = balance[t] /\ holdTotal'[t] = holdTotal[t]
    BY <1>1, <1>2, <1>3, <1>7 DEF TypeOK
  <2>2. \A r, d : Posted(r, d) => Posted(r, d)'
    BY <1>8 DEF Posted, AppendLedgerEntry
  <2>3. \A r, d : Posted(r, d)' /\ ~Posted(r, d) => HasLock(c, EntryRow(r, d), "update")
    BY <1>5, <1>8 DEF Posted, AppendLedgerEntry
  <2>4. \A r \in Refs : ~HasLock(c, HoldRow(r), "update") =>
           \A g : g.ref = r => (g \in holds' <=> g \in holds)
    BY <1>2, <1>4, <1>7, ResolveLocked
  <2> QED BY <1>7, <2>1, <2>2, <2>3, <2>4 DEF WritesLocked
<1> QED BY <1>7, <1>10, <1>11 DEF Next

LEMMA CommitRelease ==
    ASSUME TxInv, NEW c \in Clients, Commit(c), call[c].op = "release"
    PROVE  Next /\ WritesLocked(c) /\ UNCHANGED issued
<1>1. PICK k \in Call :
         /\ k = call[c]
         /\ CallOK(c) /\ Running(c) /\ k.step = "commit"
         /\ Writes(k) /\ InRange(k)
         /\ HasLock(c, AccountRow(k.seller), "no_key_update")
         /\ k.amount > 0
         /\ k.op # "release" => k.ref \in Refs
  BY AtCommit
<1>2. TypeOK
  BY DEF TxInv, IInv
<1>3. PICK s \in Sellers : s = k.seller
  BY <1>1 DEF Call
<1>4. PICK h \in holds : /\ k.hold = {h}
                         /\ h.status = "active"
                         /\ h.seller = s
                         /\ HasLock(c, HoldRow(h.ref), "update")
  BY <1>1, <1>3 DEF CallOK, HoldKept, HoldFirst
<1>5. /\ holds' = ResolveHold(h, "released", Null)
      /\ holdTotal' = UpdateHoldTotal(s, -h.amount)
      /\ UNCHANGED <<accounts, balance, status, ledger, issued>>
  BY <1>1, <1>3, <1>4 DEF Writes
<1>6. Release(s, h)
  BY <1>4, <1>5 DEF Release
<1>7. WritesLocked(c)
  <2>1. \A t \in Sellers : ~HasLock(c, AccountRow(t), "no_key_update") =>
           balance'[t] = balance[t] /\ holdTotal'[t] = holdTotal[t]
    BY <1>1, <1>2, <1>3, <1>5 DEF TypeOK, UpdateHoldTotal
  <2>2. \A r, d : Posted(r, d)' <=> Posted(r, d)
    BY <1>5 DEF Posted
  <2>3. \A r \in Refs : ~HasLock(c, HoldRow(r), "update") =>
           \A g : g.ref = r => (g \in holds' <=> g \in holds)
    BY <1>2, <1>4, <1>5, ResolveLocked
  <2> QED BY <1>5, <2>1, <2>2, <2>3 DEF WritesLocked
<1> QED BY <1>5, <1>6, <1>7 DEF Next

(* A COMMIT is one step of Wallet, or of nothing. *)
LEMMA CommitImplements ==
    ASSUME TxInv, NEW c \in Clients, Commit(c)
    PROVE  /\ [Next]_vars
           /\ WritesLocked(c)
           /\ \/ UNCHANGED issued
              \/ call[c].op = "reserve" /\ \E id \in HoldIDs \ issued : issued' = issued \cup {id}
<1>1. call[c].op \in Ops
  BY AtCommit DEF Call
<1> QED BY <1>1, CommitMoney, CommitReserve, CommitConfirm, CommitRelease DEF Ops

LEMMA LocksExclude ==
    ASSUME TxTypeOK, NEW c \in Clients, NEW d \in Clients, c # d, NEW row, NEW mode,
           HasLock(d, row, "update")
    PROVE  ~HasLock(c, row, mode)
BY DEF TxTypeOK, HasLock, Conflict

(* What others rely on is locked by them, so the commit leaves it alone. *)
LEMMA CommitSparesOthers ==
    ASSUME TxInv, NEW c \in Clients, Commit(c), WritesLocked(c),
           NEW d \in Clients, d # c, Running(d), call'[d] = call[d],
           \A row, mode : HasLock(d, row, mode) => HasLock(d, row, mode)'
    PROVE  CallOK(d)'
<1>1. TxTypeOK /\ TypeOK /\ CallOK(d)
  BY DEF TxInv, IInv
<1>2. Asked(d) /\ AccountKept(d) /\ HoldKept(d) /\ KeyKept(d) /\ EntryKept(d)
  BY <1>1 DEF CallOK
<1>3. PICK k \in Call : k = call[d]
  BY <1>1, CallShape
<1>4. Asked(d)'
  BY <1>2 DEF Asked
<1>5. AccountKept(d)'
  <2> SUFFICES ASSUME k.op \in AccountFirst, k.step # "lock_account"
               PROVE  /\ k.seller \in accounts'
                      /\ HasLock(d, AccountRow(k.seller), "update")'
                      /\ AccountAllows(k)'
    BY <1>3 DEF AccountKept
  <2>1. /\ k.seller \in accounts
        /\ HasLock(d, AccountRow(k.seller), "update")
        /\ AccountAllows(k)
    BY <1>2, <1>3 DEF AccountKept
  <2>2. ~HasLock(c, AccountRow(k.seller), "no_key_update")
    BY <1>1, <2>1, LocksExclude
  <2>3. /\ balance'[k.seller] = balance[k.seller]
        /\ holdTotal'[k.seller] = holdTotal[k.seller]
        /\ UNCHANGED <<accounts, status>>
    BY <1>3, <2>2 DEF WritesLocked, Call
  <2>4. AccountAllows(k)'
    BY <2>1, <2>3 DEF AccountAllows, Available, WithinGrace
  <2> QED BY <2>1, <2>3, <2>4
<1>6. HoldKept(d)'
  <2> SUFFICES ASSUME k.op \in HoldFirst, k.step # "lock_hold"
               PROVE  \E h \in holds' : /\ k.hold = {h}
                                        /\ h.status = "active"
                                        /\ h.seller = k.seller
                                        /\ HasLock(d, HoldRow(h.ref), "update")'
    BY <1>3 DEF HoldKept
  <2>1. PICK h \in holds : /\ k.hold = {h}
                           /\ h.status = "active"
                           /\ h.seller = k.seller
                           /\ HasLock(d, HoldRow(h.ref), "update")
    BY <1>2, <1>3 DEF HoldKept
  <2>2. ~HasLock(c, HoldRow(h.ref), "update") /\ h.ref \in Refs
    BY <1>1, <2>1, LocksExclude DEF TypeOK, Hold
  <2>3. h \in holds'
    BY <2>2 DEF WritesLocked
  <2> QED BY <2>1, <2>3
<1>7. KeyKept(d)'
  <2> SUFFICES ASSUME k.op = "reserve", k.step \in Written
               PROVE  /\ HasLock(d, HoldRow(k.ref), "update")'
                      /\ k.hold = {h \in holds' : h.ref = k.ref}
                      /\ \A h \in k.hold : h.seller = k.seller
    BY <1>3 DEF KeyKept
  <2>1. /\ HasLock(d, HoldRow(k.ref), "update")
        /\ k.hold = {h \in holds : h.ref = k.ref}
        /\ \A h \in k.hold : h.seller = k.seller
    BY <1>2, <1>3 DEF KeyKept
  <2>2. ~HasLock(c, HoldRow(k.ref), "update") /\ k.ref \in Refs
    BY <1>1, <1>2, <1>3, <2>1, LocksExclude DEF Asked
  <2>3. \A h : h.ref = k.ref => (h \in holds' <=> h \in holds)
    BY <2>2 DEF WritesLocked
  <2> QED BY <2>1, <2>3
<1>8. EntryKept(d)'
  <2>1. PICK dir : dir = EntryDirection(k.op)
    OBVIOUS
  <2>2. k.inserted => HasLock(d, EntryRow(k.ref, dir), "update")' /\ ~Posted(k.ref, dir)'
    <3> SUFFICES ASSUME k.inserted
                 PROVE  HasLock(d, EntryRow(k.ref, dir), "update")' /\ ~Posted(k.ref, dir)'
      OBVIOUS
    <3>1. HasLock(d, EntryRow(k.ref, dir), "update") /\ ~Posted(k.ref, dir)
      BY <1>2, <1>3, <2>1 DEF EntryKept
    <3>2. ~HasLock(c, EntryRow(k.ref, dir), "update")
      BY <1>1, <3>1, LocksExclude
    <3> QED BY <3>1, <3>2 DEF WritesLocked
  <2>3. Posted(k.ref, dir) => Posted(k.ref, dir)'
    BY DEF WritesLocked
  <2>4. /\ k.op \in {"credit", "debit"} /\ k.step \in Written /\ ~k.inserted => Posted(k.ref, dir)
        /\ k.op = "confirm" /\ k.step \notin {"lock_hold", "post"} => k.inserted
    BY <1>2, <1>3, <2>1 DEF EntryKept
  <2> QED BY <1>3, <2>1, <2>2, <2>3, <2>4 DEF EntryKept
<1> QED BY <1>4, <1>5, <1>6, <1>7, <1>8 DEF CallOK

LEMMA CommitKeeps ==
    ASSUME TxInv, NEW c \in Clients, Commit(c)
    PROVE  TxInv'
<1>1. IInv /\ TxTypeOK /\ IDsSuffice /\ Running(c)
  BY DEF TxInv, Commit, At
<1>2. /\ [Next]_vars /\ WritesLocked(c)
      /\ \/ UNCHANGED issued
         \/ call[c].op = "reserve" /\ \E id \in HoldIDs \ issued : issued' = issued \cup {id}
  BY CommitImplements
<1>3. IInv'
  BY <1>1, <1>2, NextIInv
<1>4. call' = [call EXCEPT ![c] = Idle] /\ locks' = {l \in locks : l.client # c}
  BY DEF Commit, Unlocked
<1>5. call' \in [Clients -> Call \cup {Idle}] /\ call'[c] = Idle /\ \A d \in Clients \ {c} : call'[d] = call[d]
  BY <1>1, <1>4 DEF TxTypeOK
<1>6. TxTypeOK'
  BY <1>1, <1>3, <1>4, <1>5 DEF TxTypeOK, IInv
<1>7. ASSUME NEW d \in Clients PROVE CallOK(d)'
  <2>1. CASE d = c
    BY <1>5, <2>1 DEF CallOK, Running
  <2>2. CASE d # c /\ ~Running(d)
    BY <1>5, <2>2 DEF CallOK, Running
  <2>3. CASE d # c /\ Running(d)
    <3>1. \A row, mode : HasLock(d, row, mode) => HasLock(d, row, mode)'
      BY <1>4, <2>3 DEF HasLock
    <3>2. call'[d] = call[d]
      BY <1>5, <2>3
    <3> QED BY <1>2, <2>3, <3>1, <3>2, CommitSparesOthers
  <2> QED BY <2>1, <2>2, <2>3
<1>8. ASSUME NEW l \in locks' PROVE LockOK(l)'
  <2>1. l \in locks /\ l.client \in Clients \ {c}
    BY <1>1, <1>4 DEF TxTypeOK
  <2>2. call'[l.client] = call[l.client] /\ LockOK(l)
    BY <1>5, <2>1 DEF TxInv
  <2> QED BY <2>2 DEF LockOK, Running
<1>9. IDsSuffice'
  <2>1. CASE UNCHANGED issued
    <3>1. Reserving' \subseteq Reserving
      BY <1>5 DEF Reserving, Running
    <3> QED BY <1>1, <2>1, <3>1, ReservingShrinks
  <2>2. CASE call[c].op = "reserve" /\ \E id \in HoldIDs \ issued : issued' = issued \cup {id}
    <3>1. PICK id \in HoldIDs \ issued : issued' = issued \cup {id}
      BY <2>2
    <3>2. Reserving' = Reserving \ {c} /\ c \in Reserving
      BY <1>1, <1>5, <2>2 DEF Reserving, Running
    <3>3. IsFiniteSet(Reserving) /\ IsFiniteSet(HoldIDs \ issued)
      BY FiniteAssumption, FS_Subset, FS_Difference DEF Reserving
    <3>4. HoldIDs \ issued' = (HoldIDs \ issued) \ {id}
      BY <3>1
    <3>5. Cardinality(Reserving') = Cardinality(Reserving) - 1
      BY <3>2, <3>3, FS_RemoveElement
    <3>6. Cardinality(HoldIDs \ issued') = Cardinality(HoldIDs \ issued) - 1
      BY <3>3, <3>4, FS_RemoveElement
    <3>7. Cardinality(Reserving) \in Nat /\ Cardinality(HoldIDs \ issued) \in Nat
      BY <3>3, FS_CardinalityType
    <3> QED BY <1>1, <3>5, <3>6, <3>7 DEF IDsSuffice
  <2> QED BY <1>2, <2>1, <2>2
<1> QED BY <1>3, <1>6, <1>7, <1>8, <1>9 DEF TxInv

-----------------------------------------------------------------------------
(* Single statements from outside: opening an account, an operator's UPDATE. *)

LEMMA OpenAccountKeeps ==
    ASSUME TxInv, NEW s \in Sellers, OpenAccount(s)
    PROVE  TxInv'
<1>1. /\ accounts' = accounts \cup {s}
      /\ UNCHANGED <<balance, holdTotal, status, ledger, holds, issued, call, locks>>
      /\ [Next]_vars
  BY DEF OpenAccount, EnsureAccount, Next
<1>2. IInv'
  BY <1>1, NextIInv DEF TxInv
<1>3. TxTypeOK'
  BY <1>1, <1>2 DEF TxInv, TxTypeOK, IInv
<1>4. ASSUME NEW c \in Clients PROVE CallOK(c)'
  <2>1. CallOK(c)
    BY DEF TxInv
  <2>2. (Running(c)' <=> Running(c)) /\ (Asked(c) => Asked(c)')
    BY <1>1 DEF Running, Asked, HasLock
  <2>3. AccountKept(c) => AccountKept(c)'
    BY <1>1 DEF AccountKept, HasLock, AccountAllows, Available, WithinGrace
  <2>4. (HoldKept(c) => HoldKept(c)') /\ (KeyKept(c) => KeyKept(c)')
    BY <1>1 DEF HoldKept, KeyKept, HasLock
  <2>5. EntryKept(c) => EntryKept(c)'
    BY <1>1 DEF EntryKept, HasLock, Posted
  <2> QED BY <2>1, <2>2, <2>3, <2>4, <2>5 DEF CallOK
<1>5. \A l \in locks' : LockOK(l)'
  BY <1>1 DEF TxInv, LockOK, Running
<1>6. IDsSuffice'
  BY <1>1 DEF TxInv, IDsSuffice, Reserving, Running
<1> QED BY <1>2, <1>3, <1>4, <1>5, <1>6 DEF TxInv

LEMMA OpsSetStatusKeeps ==
    ASSUME TxInv, NEW s \in Sellers, NEW st \in AccountStatus, OpsSetStatus(s, st)
    PROVE  TxInv'
<1>1. /\ status' = [status EXCEPT ![s] = st]
      /\ UNCHANGED <<accounts, balance, holdTotal, ledger, holds, issued, call, locks>>
      /\ [Next]_vars
      /\ \A l \in locks : l.row = AccountRow(s) => l.mode # "update"
  BY DEF OpsSetStatus, SetStatus, Next, Conflict
<1>2. IInv'
  BY <1>1, NextIInv DEF TxInv
<1>3. TxTypeOK'
  BY <1>1, <1>2 DEF TxInv, TxTypeOK, IInv
<1>4. ASSUME NEW c \in Clients PROVE CallOK(c)'
  <2>1. CallOK(c)
    BY DEF TxInv
  <2>2. (Running(c)' <=> Running(c)) /\ (Asked(c) => Asked(c)')
    BY <1>1 DEF Running, Asked, HasLock
  <2>3. Running(c) /\ AccountKept(c) => AccountKept(c)'
    <3> SUFFICES ASSUME Running(c), AccountKept(c), call[c].op \in AccountFirst,
                        call[c].step # "lock_account"
                 PROVE  /\ call[c].seller \in accounts
                        /\ HasLock(c, AccountRow(call[c].seller), "update")
                        /\ AccountAllows(call[c])'
      BY <1>1 DEF AccountKept, HasLock
    <3>1. /\ call[c].seller \in accounts
          /\ HasLock(c, AccountRow(call[c].seller), "update")
          /\ AccountAllows(call[c])
      BY DEF AccountKept
    <3>2. call[c].seller # s
      BY <1>1, <3>1 DEF HasLock
    <3>3. call[c].seller \in Sellers /\ status \in [Sellers -> AccountStatus]
      BY CallShape DEF TxInv, IInv, TypeOK
    <3>4. status'[call[c].seller] = status[call[c].seller]
      BY <1>1, <3>2, <3>3
    <3>5. AccountAllows(call[c])'
      BY <1>1, <3>1, <3>4 DEF AccountAllows, Available, WithinGrace
    <3> QED BY <3>1, <3>5
  <2>4. (HoldKept(c) => HoldKept(c)') /\ (KeyKept(c) => KeyKept(c)')
    BY <1>1 DEF HoldKept, KeyKept, HasLock
  <2>5. EntryKept(c) => EntryKept(c)'
    BY <1>1 DEF EntryKept, HasLock, Posted
  <2> QED BY <2>1, <2>2, <2>3, <2>4, <2>5 DEF CallOK
<1>5. \A l \in locks' : LockOK(l)'
  BY <1>1 DEF TxInv, LockOK, Running
<1>6. IDsSuffice'
  BY <1>1 DEF TxInv, IDsSuffice, Reserving, Running
<1> QED BY <1>2, <1>3, <1>4, <1>5, <1>6 DEF TxInv

LEMMA NextTxInv == TxInv /\ [TxNext]_txVars => TxInv'
<1> SUFFICES ASSUME TxInv, [TxNext]_txVars PROVE TxInv'
  OBVIOUS
<1>1. ASSUME NEW c \in Clients, Step(c) PROVE TxInv'
  <2>1. CASE Commit(c)
    BY <2>1, CommitKeeps
  <2>2. CASE Rollback(c)
    BY <2>2, RollbackKeeps
  <2>3. Step(c) => \/ LockAccount(c) \/ LockHold(c) \/ PostEntry(c) \/ SkipEntry(c)
                   \/ CheckForeignKey(c) \/ InsertHold(c) \/ WriteAccount(c)
                   \/ Commit(c) \/ Rollback(c)
    BY DEF Step, AccountRefuses, HoldRefuses, InsertHoldDenied, RangeError
  <2> QED BY <1>1, <2>1, <2>2, <2>3, LockAccountKeeps, LockHoldKeeps, PostEntryKeeps,
             SkipEntryKeeps, CheckForeignKeyKeeps, InsertHoldKeeps, WriteAccountKeeps
<1>2. ASSUME NEW c \in Clients, DeadlockVictim(c) \/ Cancel(c) PROVE TxInv'
  BY <1>2, RollbackKeeps DEF DeadlockVictim, Cancel
<1>3. CASE UNCHANGED txVars
  <2>1. UNCHANGED tables /\ UNCHANGED call /\ UNCHANGED locks
    BY <1>3 DEF txVars, tables
  <2>2. IInv'
    BY <2>1, TablesUntouched DEF TxInv
  <2>3. \A c \in Clients : CallOK(c)'
    BY <2>1, OthersKeep DEF TxInv
  <2>4. TxTypeOK'
    BY <2>1, <2>2 DEF TxInv, TxTypeOK, IInv
  <2>5. \A l \in locks' : LockOK(l)'
    BY <2>1 DEF TxInv, LockOK, Running
  <2>6. IDsSuffice'
    BY <2>1 DEF TxInv, IDsSuffice, Reserving, Running, tables
  <2> QED BY <2>2, <2>3, <2>4, <2>5, <2>6 DEF TxInv
<1> QED BY <1>1, <1>2, <1>3, BeginKeeps, OpenAccountKeeps, OpsSetStatusKeeps DEF TxNext

(* Whatever is interleaved, cancelled or rolled back, a call that has locked
   and checked a row finds it as it checked it until it commits.            *)
THEOREM WalletTxInvariant == TxSpec => []TxInv
BY InitTxInv, NextTxInv, PTL DEF TxSpec

-----------------------------------------------------------------------------
(* Refinement *)

LEMMA StepImplements == TxInv /\ [TxNext]_txVars => [Next]_vars
<1> SUFFICES ASSUME TxInv, [TxNext]_txVars PROVE [Next]_vars
  OBVIOUS
<1>1. UNCHANGED tables => UNCHANGED vars
  BY DEF tables, vars
<1>2. ASSUME NEW c \in Clients, Step(c) PROVE [Next]_vars
  <2>1. CASE Commit(c)
    BY <2>1, CommitImplements
  <2>2. CASE ~Commit(c)
    <3>1. UNCHANGED tables
      BY <1>2, <2>2 DEF Step, LockAccount, AccountRefuses, LockHold, HoldRefuses, PostEntry,
         SkipEntry, CheckForeignKey, InsertHold, InsertHoldDenied, WriteAccount, RangeError, Rollback
    <3> QED BY <1>1, <3>1
  <2> QED BY <2>1, <2>2
<1>3. ASSUME NEW c \in Clients, DeadlockVictim(c) \/ Cancel(c) PROVE [Next]_vars
  BY <1>1, <1>3 DEF DeadlockVictim, Cancel, Rollback
<1>4. ASSUME NEW c \in Clients, NEW op \in Ops, NEW s \in Sellers, NEW amount \in Amounts,
             Begin(c, op, s, amount)
      PROVE  [Next]_vars
  BY <1>1, <1>4 DEF Begin
<1>5. ASSUME NEW s \in Sellers, OpenAccount(s) PROVE [Next]_vars
  BY <1>5 DEF OpenAccount, Next
<1>6. ASSUME NEW s \in Sellers, NEW st \in AccountStatus, OpsSetStatus(s, st) PROVE [Next]_vars
  BY <1>6 DEF OpsSetStatus, Next
<1>7. CASE UNCHANGED txVars
  BY <1>7 DEF txVars, vars
<1> QED BY <1>2, <1>3, <1>4, <1>5, <1>6, <1>7 DEF TxNext

(* Whatever calls interleave, and whichever are cancelled or picked as
   deadlock victims, the tables change as if each call of the wallet service
   ran alone: the transactions implement Wallet.                            *)
THEOREM WalletTxAtomic == TxSpec => CallsAreAtomic
<1>1. TxInit => Init
  BY DEF TxInit
<1> QED BY <1>1, StepImplements, WalletTxInvariant, PTL DEF TxSpec, CallsAreAtomic, Spec

(* Hence what Wallet guarantees holds of the interleaved transactions. *)
THEOREM WalletTxSafe ==
    TxSpec => /\ [](TxTypeOK /\ HoldsBacked /\ ConfirmedHoldsCharged /\ OverdraftBounded)
              /\ ResolvedOnce
<1>1. TxInv => TxTypeOK /\ HoldsBacked /\ ConfirmedHoldsCharged /\ OverdraftBounded
  BY DEF TxInv, IInv
<1>2. TxSpec => Spec
  BY WalletTxAtomic DEF CallsAreAtomic
<1> QED BY <1>1, <1>2, WalletTxInvariant, WalletResolvedOnce, PTL

-----------------------------------------------------------------------------
(* Deadlocks *)

(* Who blocks a waiting call, by the statement it waits at. *)
LEMMA AwaitsWhom ==
    ASSUME TxInv, NEW c \in Clients, NEW d \in Awaits(c)
    PROVE  /\ Running(c)
           /\ \E l \in locks :
                 /\ l.client = d /\ d \in Clients /\ d # c
                 /\ \/ call[c].step = "lock_account"
                    \/ call[c].step = "lock_hold"
                    \/ /\ call[c].step = "post"
                       /\ l.row = EntryRow(call[c].ref, EntryDirection(call[c].op))
                    \/ /\ call[c].step = "foreign_key"
                       /\ l.row = AccountRow(call[c].seller) /\ l.mode = "update"
                    \/ /\ call[c].step = "write_account"
                       /\ l.row = AccountRow(call[c].seller)
                       /\ l.mode \in {"update", "no_key_update"}
                    \/ /\ call[c].step = "insert_hold"
                       /\ l.row = HoldRow(call[c].ref)
<1>1. \A row, mode, e : e \in Blockers(c, row, mode) =>
         \E l \in locks : l.client = e /\ e \in Clients /\ e # c /\ l.row = row /\ Conflict(l.mode, mode)
  BY DEF Blockers, TxInv, TxTypeOK
<1>2. Running(c)
  BY DEF Awaits, At
<1>3. call[c].step \in Steps
  BY <1>2, CallShape DEF TxInv
<1>4. CASE call[c].step = "lock_account"
  BY <1>1, <1>2, <1>4 DEF Awaits, At
<1>5. CASE call[c].step = "lock_hold"
  <2>1. d \in UNION {Blockers(c, HoldRow(h.ref), HoldReadLock) : h \in FoundHold(call[c])}
    BY <1>2, <1>5 DEF Awaits, At
  <2>2. PICK row : d \in Blockers(c, row, HoldReadLock)
    BY <2>1
  <2> QED BY <1>1, <1>2, <1>5, <2>2
<1>6. CASE call[c].step = "post"
  BY <1>1, <1>2, <1>6 DEF Awaits, At
<1>7. CASE call[c].step = "foreign_key"
  BY <1>1, <1>2, <1>7 DEF Awaits, At, Conflict
<1>8. CASE call[c].step = "write_account"
  BY <1>1, <1>2, <1>8 DEF Awaits, At, Conflict, AccountWriteLock
<1>9. CASE call[c].step = "insert_hold"
  BY <1>1, <1>2, <1>9 DEF Awaits, At
<1>10. CASE call[c].step = "commit"
  BY <1>2, <1>10 DEF Awaits, At
<1> QED BY <1>3, <1>4, <1>5, <1>6, <1>7, <1>8, <1>9, <1>10 DEF Steps

(* What the blocker is doing. *)
LEMMA BlockerShape ==
    ASSUME TxInv, NEW c \in Clients, NEW d \in Awaits(c)
    PROVE  /\ Running(c) /\ Running(d) /\ d \in Clients
           /\ call[c].step # "commit"
           /\ call[d].step \notin {"lock_account", "lock_hold"}
           /\ call[c].step = "post" =>
                 /\ EntryDirection(call[d].op) = EntryDirection(call[c].op)
                 /\ call[d].op \in {"credit", "debit", "confirm"}
                 /\ call[d].step \in Written \cup {"foreign_key"}
           /\ call[c].step = "foreign_key" => call[d].op \in AccountFirst
           /\ call[c].step = "write_account" =>
                 /\ call[c].op \notin AccountFirst
                 /\ call[d].op \in AccountFirst \/ call[d].step = "commit"
           /\ call[c].step = "insert_hold" =>
                 call[d].op \in HoldFirst \/ (call[d].op = "reserve" /\ call[d].step \in Written)
<1>1. PICK l \in locks :
         /\ l.client = d /\ d \in Clients /\ d # c
         /\ \/ call[c].step = "lock_account"
            \/ call[c].step = "lock_hold"
            \/ /\ call[c].step = "post"
               /\ l.row = EntryRow(call[c].ref, EntryDirection(call[c].op))
            \/ /\ call[c].step = "foreign_key"
               /\ l.row = AccountRow(call[c].seller) /\ l.mode = "update"
            \/ /\ call[c].step = "write_account"
               /\ l.row = AccountRow(call[c].seller)
               /\ l.mode \in {"update", "no_key_update"}
            \/ /\ call[c].step = "insert_hold"
               /\ l.row = HoldRow(call[c].ref)
  BY AwaitsWhom
<1>2. Running(c) /\ Running(d) /\ LockOK(l) /\ CallOK(d) /\ CallOK(c) /\ TxTypeOK
  BY <1>1, AwaitsWhom DEF TxInv, LockOK
<1>3. call[d].step \in Path(call[d].op) /\ call[d].op \in Ops /\ call[c].op \in Ops
  BY <1>1, <1>2, CallShape DEF CallOK, Asked
<1>4. call[d].step \notin {"lock_account", "lock_hold"}
  BY <1>1, <1>2, <1>3 DEF LockOK, Path, Ops, AccountFirst, HoldFirst, Written
<1>5. ASSUME call[c].step = "post"
      PROVE  /\ EntryDirection(call[d].op) = EntryDirection(call[c].op)
             /\ call[d].op \in {"credit", "debit", "confirm"}
             /\ call[d].step \in Written \cup {"foreign_key"}
  BY <1>1, <1>2, <1>5 DEF LockOK, AccountRow, HoldRow, EntryRow
<1>6. ASSUME call[c].step = "foreign_key" PROVE call[d].op \in AccountFirst
  BY <1>1, <1>2, <1>6 DEF LockOK, AccountRow, HoldRow, EntryRow
<1>7. ASSUME call[c].step = "write_account"
      PROVE  call[d].op \in AccountFirst \/ call[d].step = "commit"
  BY <1>1, <1>2, <1>7 DEF LockOK, AccountRow, HoldRow, EntryRow
<1>8. ASSUME call[c].step = "write_account" PROVE call[c].op \notin AccountFirst
  <2>1. call[c].op \in AccountFirst => HasLock(c, AccountRow(call[c].seller), "update")
    BY <1>2, <1>8 DEF CallOK, AccountKept
  <2>2. l = [client |-> d, row |-> AccountRow(call[c].seller), mode |-> l.mode]
    BY <1>1, <1>2, <1>8 DEF TxTypeOK
  <2>3. HasLock(d, AccountRow(call[c].seller), l.mode)
    BY <2>2 DEF HasLock
  <2> QED BY <1>1, <1>2, <2>1, <2>3, LocksExclude
<1>9. ASSUME call[c].step = "insert_hold"
      PROVE  call[d].op \in HoldFirst \/ (call[d].op = "reserve" /\ call[d].step \in Written)
  BY <1>1, <1>2, <1>9 DEF LockOK, AccountRow, HoldRow, EntryRow
<1>10. call[c].step # "commit"
  BY <1>1
<1> QED BY <1>1, <1>2, <1>4, <1>5, <1>6, <1>7, <1>8, <1>9, <1>10

(* In a deadlock somebody locked a hold first and somebody else the account:
   calls that all take their locks in one of the two orders never wait in a
   circle.                                                                  *)
THEOREM WalletTxDeadlocks == TxSpec => []DeadlocksMixOrders
<1>1. TxInv => DeadlocksMixOrders
  <2> SUFFICES ASSUME TxInv, NEW S \in SUBSET Clients, EachAwaits(S)
               PROVE  /\ \E c \in S : call[c].op \in {"confirm", "release"}
                      /\ \E c \in S : call[c].op \in {"reserve", "debit"}
    BY DEF DeadlocksMixOrders, WaitCycle
  <2>1. \A c \in S : \E d \in S : d \in Awaits(c)
    BY DEF EachAwaits
  <2>2. PICK e \in S : TRUE
    BY DEF EachAwaits
  <2>3. ASSUME NEW c \in S
        PROVE  /\ call[c].op \in Ops /\ call[c].step \in Path(call[c].op)
               /\ call[c].step # "commit"
               /\ call[c].step = "write_account" => call[c].op \notin AccountFirst
    <3>1. PICK d \in S : d \in Awaits(c)
      BY <2>1
    <3>2. Running(c) /\ c \in Clients /\ CallOK(c)
      BY <3>1, BlockerShape DEF TxInv
    <3>3. call[c].op \in Ops /\ call[c].step \in Path(call[c].op)
      BY <3>2, CallShape DEF TxInv, CallOK, Asked
    <3> QED BY <3>1, <3>2, <3>3, BlockerShape
  <2>4. ASSUME \A c \in S : call[c].op \in AccountFirst PROVE FALSE
    <3>1. \A c \in S : call[c].step \notin Written \cup {"foreign_key", "lock_hold"}
      BY <2>3, <2>4 DEF Written, Path, AccountFirst
    <3>2. \A c \in S : call[c].step # "post"
      BY <2>1, <3>1, BlockerShape
    <3>3. \A c \in S : call[c].step # "insert_hold"
      BY <2>1, <2>4, <3>1, BlockerShape DEF AccountFirst, HoldFirst
    <3>4. \A c \in S : call[c].step = "lock_account"
      BY <2>3, <2>4, <3>1, <3>2, <3>3 DEF Path, AccountFirst, Written
    <3> QED BY <2>1, <2>2, <3>4, BlockerShape
  <2>5. ASSUME \A c \in S : call[c].op \in {"credit", "confirm", "release"} PROVE FALSE
    <3>1. \A c \in S : call[c].op = "credit" => call[c].step \notin Written \cup {"foreign_key"}
      BY <2>3 DEF Written, Path, AccountFirst
    <3>2. ASSUME NEW c \in S, call[c].op = "credit", call[c].step = "post" PROVE FALSE
      <4>1. PICK d \in S : d \in Awaits(c)
        BY <2>1
      <4>2. EntryDirection(call[d].op) = "credit" /\ call[d].step \in Written \cup {"foreign_key"}
        BY <3>2, <4>1, BlockerShape DEF EntryDirection
      <4>3. call[d].op = "credit"
        BY <4>2 DEF EntryDirection
      <4> QED BY <3>1, <4>2, <4>3
    <3>3. \A c \in S : call[c].op = "credit" => call[c].step = "lock_account"
      BY <2>3, <3>1, <3>2 DEF Path, Written
    <3>4. \A c \in S : call[c].op \in AccountFirst => call[c].op = "credit"
      BY <2>5 DEF AccountFirst
    <3>5. \A c \in S : call[c].step # "foreign_key"
      BY <2>1, <3>3, <3>4, BlockerShape
    <3>6. \A c \in S : call[c].step # "write_account"
      BY <2>1, <2>3, <3>3, <3>4, BlockerShape
    <3>7. \A c \in S : call[c].step # "post"
      BY <2>1, <2>3, <3>5, <3>6, BlockerShape DEF Written
    <3>8. \A c \in S : call[c].step \in {"lock_account", "lock_hold"}
      BY <2>3, <2>5, <3>5, <3>6, <3>7 DEF Path
    <3> QED BY <2>1, <2>2, <3>8, BlockerShape
  <2> QED BY <2>3, <2>4, <2>5 DEF Ops, AccountFirst
<1> QED BY <1>1, WalletTxInvariant, PTL
=============================================================================
