------------------------------ MODULE WalletTx ------------------------------
(***************************************************************************)
(* The wallet's transactions statement by statement.  Each client runs one *)
(* service call at a time inside dbtx.WithSellerTx: it takes row locks as  *)
(* its statements reach them, decides on the values it read then, and      *)
(* writes that others see only at COMMIT (READ COMMITTED).  A call ends by *)
(* committing, by an error or a cancelled context (ROLLBACK), or as the    *)
(* victim of Postgres' deadlock detector.                                  *)
(*                                                                         *)
(* The tables are the variables of Wallet, so Wallet's Spec is what this   *)
(* module has to implement.                                                *)
(***************************************************************************)
EXTENDS Wallet

CONSTANTS
    Clients,   \* goroutines calling the service
    Idle       \* no call in progress

(* A process runs finitely many goroutines; a uuid has 128 bits. *)
ASSUME FiniteAssumption == IsFiniteSet(Clients) /\ IsFiniteSet(HoldIDs)

VARIABLES
    call,   \* call[c]: the call c runs and what its statements have read
    locks   \* row locks held by the open transactions

txVars == <<accounts, balance, holdTotal, status, ledger, holds, issued, call, locks>>
tables == <<accounts, balance, holdTotal, status, ledger, holds, issued>>

Ops == {"credit", "debit", "reserve", "confirm", "release"}
Steps == {"lock_account", "lock_hold", "post", "foreign_key", "insert_hold", "write_account",
          "commit"}
Modes == {"key_share", "no_key_update", "update"}

AccountRow(s) == <<"account", s>>
HoldRow(ref) == <<"hold", ref>>
EntryRow(ref, dir) == <<"entry", ref, dir>>

Rows == {AccountRow(s) : s \in Sellers} \cup {HoldRow(ref) : ref \in Refs}
            \cup {EntryRow(ref, dir) : ref \in Refs, dir \in Directions}

(* hold: the wallet_hold rows the call has read and locked (none or one);
   inserted: the ledger insert was not skipped by ON CONFLICT.             *)
Call == [op : Ops, seller : Sellers, amount : Amounts, ref : Refs \cup {Null},
         id : HoldIDs \cup {Null}, step : Steps, hold : SUBSET Hold, inserted : BOOLEAN]

ASSUME IdleAssumption == Idle \notin Call

TxInit ==
    /\ Init
    /\ call = [c \in Clients |-> Idle]
    /\ locks = {}

-----------------------------------------------------------------------------
(* Row locks, as Postgres grants them. *)

Conflict(m, n) == "update" \in {m, n} \/ (m = "no_key_update" /\ n = "no_key_update")

Blockers(c, row, mode) ==
    {l.client : l \in {k \in locks : k.row = row /\ k.client # c /\ Conflict(k.mode, mode)}}

Lock(c, row, mode) ==
    /\ Blockers(c, row, mode) = {}
    /\ locks' = locks \cup {[client |-> c, row |-> row, mode |-> mode]}

(* SELECT ... FOR UPDATE of the account without the FOR UPDATE. *)
AccountReadLockBug == "key_share"
AccountReadLock == "update"

HoldReadLock == "update"

(* UPDATE wallet_account writes no key column. *)
AccountWriteLock == "no_key_update"

(* ROLLBACK and COMMIT release every lock of the transaction. *)
UnlockedBug(c) == locks
Unlocked(c) == {l \in locks : l.client # c}

Running(c) == call[c] # Idle
At(c, step) == Running(c) /\ call[c].step = step
Goto(c, step) == call' = [call EXCEPT ![c].step = step]

(* WithSellerTx returns without committing. *)
Rollback(c) ==
    /\ call' = [call EXCEPT ![c] = Idle]
    /\ locks' = Unlocked(c)
    /\ UNCHANGED tables

-----------------------------------------------------------------------------
(* Calls *)

FirstStep(op) == IF op \in {"confirm", "release"} THEN "lock_hold" ELSE "lock_account"

Reserving == {c \in Clients : Running(c) /\ call[c].op = "reserve"}

(* The uuid Reserve draws.  Nobody sees it before the hold is committed, so
   it is chosen there, and calls leave an id for every Reserve under way.  *)
FreshID == CHOOSE id \in HoldIDs \ issued : TRUE
IDsLeft == Cardinality(HoldIDs \ issued) > Cardinality(Reserving)

(* Confirm and Release take an id that Reserve returned, Release no ref. *)
Arguments(op) ==
    CASE op = "reserve" -> IF IDsLeft THEN Refs \X {Null} ELSE {}
      [] op = "confirm" -> Refs \X issued
      [] op = "release" -> {Null} \X issued
      [] OTHER          -> Refs \X {Null}

Begin(c, op, s, amount) ==
    /\ ~Running(c)
    /\ amount > 0
    /\ \E arg \in Arguments(op) :
          call' = [call EXCEPT ![c] =
                      [op |-> op, seller |-> s, amount |-> amount, ref |-> arg[1], id |-> arg[2],
                       step |-> FirstStep(op), hold |-> {}, inserted |-> FALSE]]
    /\ UNCHANGED <<tables, locks>>

(* The checks Reserve and Debit make on the account row they have locked. *)
AccountAllows(k) ==
    CASE k.op = "reserve" -> status[k.seller] = "active" /\ k.amount <= Available(k.seller)
      [] k.op = "debit"   -> WithinGrace(k.seller, k.amount)
      [] OTHER            -> TRUE

(* getAccountForUpdate, first statement of Credit, Debit and Reserve. *)
LockAccount(c) ==
    LET k == call[c] IN
    /\ At(c, "lock_account")
    /\ IF k.seller \in accounts
       THEN /\ Lock(c, AccountRow(k.seller), AccountReadLock)
            /\ AccountAllows(k)
            /\ Goto(c, IF k.op = "reserve" THEN "insert_hold" ELSE "post")
            /\ UNCHANGED tables
       ELSE Rollback(c)

AccountRefuses(c) ==
    LET k == call[c] IN
    /\ At(c, "lock_account")
    /\ k.seller \in accounts
    /\ Blockers(c, AccountRow(k.seller), AccountReadLock) = {}
    /\ ~AccountAllows(k)
    /\ Rollback(c)

(* The rows getHoldForUpdate's WHERE id = $1 finds under row-level security. *)
FoundHold(k) == {h \in holds : h.id = k.id /\ h.seller = k.seller}

(* getHoldForUpdate, first statement of Confirm and Release: a missing or a
   resolved hold ends the call, with or without an error, changing nothing. *)
LockHold(c) ==
    LET k == call[c] IN
    /\ At(c, "lock_hold")
    /\ \E h \in FoundHold(k) :
          /\ Lock(c, HoldRow(h.ref), HoldReadLock)
          /\ Confirmable(h)
          /\ call' = [call EXCEPT ![c].hold = {h},
                                  ![c].step = IF k.op = "confirm" THEN "post" ELSE "write_account"]
    /\ UNCHANGED tables

HoldRefuses(c) ==
    LET k == call[c] IN
    /\ At(c, "lock_hold")
    /\ \A h \in FoundHold(k) :
          /\ Blockers(c, HoldRow(h.ref), HoldReadLock) = {}
          /\ ~Confirmable(h)
    /\ Rollback(c)

EntryDirection(op) == IF op = "credit" THEN "credit" ELSE "debit"

(* insertLedgerEntry: the unique index makes the insert wait for another
   open transaction that inserted the same key.                            *)
PostEntry(c) ==
    LET k == call[c]
        dir == EntryDirection(k.op)
    IN
    /\ At(c, "post")
    /\ ~Posted(k.ref, dir)
    /\ Lock(c, EntryRow(k.ref, dir), "update")
    /\ call' = [call EXCEPT ![c].inserted = TRUE,
                            ![c].step = IF k.op = "confirm" THEN "foreign_key" ELSE "write_account"]
    /\ UNCHANGED tables

(* ON CONFLICT DO NOTHING: Credit and Debit go on to the balance; Confirm
   fails on resolveHold's foreign key.                                     *)
SkipEntry(c) ==
    LET k == call[c] IN
    /\ At(c, "post")
    /\ Posted(k.ref, EntryDirection(k.op))
    /\ IF k.op = "confirm"
       THEN Rollback(c)
       ELSE Goto(c, "write_account") /\ UNCHANGED <<tables, locks>>

(* The inserted entry references wallet_account(id). *)
CheckForeignKey(c) ==
    /\ At(c, "foreign_key")
    /\ Lock(c, AccountRow(call[c].seller), "key_share")
    /\ Goto(c, "write_account")
    /\ UNCHANGED tables

(* updateBalance and updateHoldTotal. *)
WriteAccount(c) ==
    /\ At(c, "write_account")
    /\ Lock(c, AccountRow(call[c].seller), AccountWriteLock)
    /\ Goto(c, "commit")
    /\ UNCHANGED tables

(* insertOrGetHold locks the row it inserts or finds. *)
InsertHold(c) ==
    LET k == call[c]
        rows == {h \in holds : h.ref = k.ref}
    IN
    /\ At(c, "insert_hold")
    /\ \A h \in rows : h.seller = k.seller
    /\ Lock(c, HoldRow(k.ref), "update")
    /\ call' = [call EXCEPT ![c].hold = rows, ![c].step = "write_account"]
    /\ UNCHANGED tables

(* Row-level security: the conflicting row belongs to another seller. *)
InsertHoldDenied(c) ==
    LET k == call[c] IN
    /\ At(c, "insert_hold")
    /\ Blockers(c, HoldRow(k.ref), "update") = {}
    /\ \E h \in holds : h.ref = k.ref /\ h.seller # k.seller
    /\ Rollback(c)

-----------------------------------------------------------------------------
(* COMMIT makes the writes visible.  Each writes what its statements decided
   from what they read; a column leaving its range fails the call instead.  *)

Posts(k, amount) ==
    IF k.inserted
    THEN AppendLedgerEntry(k.seller, EntryDirection(k.op), amount, k.ref)
    ELSE ledger

(* Reserve found an active hold of its own: an idempotent replay. *)
Replay(k) == \E h \in k.hold : h.status = "active"

Writes(k) ==
    CASE k.op \in {"credit", "debit"} ->
            /\ ledger' = Posts(k, k.amount)
            /\ balance' = UpdateBalance(k.seller, IF k.op = "credit" THEN k.amount ELSE -k.amount)
            /\ UNCHANGED <<accounts, holdTotal, status, holds, issued>>
      [] k.op = "reserve" /\ Replay(k) ->
            UNCHANGED tables
      [] k.op = "reserve" /\ ~Replay(k) ->
            /\ holds' = InsertOrGetHold(k.seller, FreshID, k.amount, k.ref)
            /\ issued' = issued \cup {FreshID}
            /\ holdTotal' = UpdateHoldTotal(k.seller, k.amount)
            /\ UNCHANGED <<accounts, balance, status, ledger>>
      [] k.op = "confirm" ->
            \E h \in k.hold :
               /\ ledger' = Posts(k, h.amount)
               /\ holds' = ResolveHold(h, "confirmed", k.ref)
               /\ balance' = UpdateBalance(k.seller, -h.amount)
               /\ holdTotal' = UpdateHoldTotal(k.seller, -h.amount)
               /\ UNCHANGED <<accounts, status, issued>>
      [] k.op = "release" ->
            \E h \in k.hold :
               /\ holds' = ResolveHold(h, "released", Null)
               /\ holdTotal' = UpdateHoldTotal(k.seller, -h.amount)
               /\ UNCHANGED <<accounts, balance, status, ledger, issued>>

InRange(k) == balance'[k.seller] \in Minor /\ holdTotal'[k.seller] <= MaxMinor

Commit(c) ==
    /\ At(c, "commit")
    /\ Writes(call[c])
    /\ InRange(call[c])
    /\ call' = [call EXCEPT ![c] = Idle]
    /\ locks' = Unlocked(c)

(* numeric value out of range *)
RangeError(c) ==
    LET k == call[c] IN
    /\ At(c, "commit")
    /\ \/ k.op = "credit" /\ balance[k.seller] + k.amount > MaxMinor
       \/ k.op = "confirm" /\ \E h \in k.hold : balance[k.seller] - h.amount < -MaxMinor
       \/ k.op = "reserve" /\ ~Replay(k) /\ holdTotal[k.seller] + k.amount > MaxMinor
    /\ Rollback(c)

-----------------------------------------------------------------------------
(* Waiting *)

Awaits(c) ==
    LET k == call[c] IN
    CASE At(c, "lock_account")  -> Blockers(c, AccountRow(k.seller), AccountReadLock)
      [] At(c, "lock_hold")     -> UNION {Blockers(c, HoldRow(h.ref), HoldReadLock) : h \in FoundHold(k)}
      [] At(c, "post")          -> IF Posted(k.ref, EntryDirection(k.op)) THEN {}
                                   ELSE Blockers(c, EntryRow(k.ref, EntryDirection(k.op)), "update")
      [] At(c, "foreign_key")   -> Blockers(c, AccountRow(k.seller), "key_share")
      [] At(c, "write_account") -> Blockers(c, AccountRow(k.seller), AccountWriteLock)
      [] At(c, "insert_hold")   -> Blockers(c, HoldRow(k.ref), "update")
      [] OTHER                  -> {}

(* Clients that all wait for one another, and no smaller set of them does. *)
EachAwaits(S) == S # {} /\ \A c \in S : Awaits(c) \cap S # {}
WaitCycle(S) == EachAwaits(S) /\ \A T \in SUBSET S : EachAwaits(T) => T = S

(* deadlock_detected: Postgres aborts one of them; nobody retries it. *)
DeadlockVictim(c) ==
    /\ \E S \in SUBSET Clients : c \in S /\ WaitCycle(S)
    /\ Rollback(c)

(* The request's context is cancelled, or the process dies. *)
Cancel(c) == Running(c) /\ Rollback(c)

(* EnsureAccount and an operator's UPDATE are one statement each. *)
OpenAccount(s) ==
    /\ EnsureAccount(s)
    /\ UNCHANGED <<call, locks>>

OpsSetStatus(s, st) ==
    /\ \A l \in locks : l.row = AccountRow(s) => ~Conflict(l.mode, AccountWriteLock)
    /\ SetStatus(s, st)
    /\ UNCHANGED <<call, locks>>

Step(c) ==
    \/ LockAccount(c)
    \/ AccountRefuses(c)
    \/ LockHold(c)
    \/ HoldRefuses(c)
    \/ PostEntry(c)
    \/ SkipEntry(c)
    \/ CheckForeignKey(c)
    \/ InsertHold(c)
    \/ InsertHoldDenied(c)
    \/ WriteAccount(c)
    \/ Commit(c)
    \/ RangeError(c)

TxNext ==
    \/ \E c \in Clients :
          \/ \E op \in Ops, s \in Sellers, amount \in Amounts : Begin(c, op, s, amount)
          \/ Step(c)
          \/ DeadlockVictim(c)
          \/ Cancel(c)
    \/ \E s \in Sellers : OpenAccount(s) \/ \E st \in AccountStatus : OpsSetStatus(s, st)

(* Postgres queues waiters first come first served, so a statement whose
   lock keeps becoming free is eventually granted it; the deadlock detector
   runs after deadlock_timeout.  Nobody has to call, cancel or operate.     *)
TxFairness == \A c \in Clients : SF_txVars(Step(c)) /\ WF_txVars(DeadlockVictim(c))

TxSpec == TxInit /\ [][TxNext]_txVars
FairTxSpec == TxSpec /\ TxFairness

-----------------------------------------------------------------------------
(* Types of the tables under concurrency, of the calls and of the locks; no
   two transactions hold conflicting locks.                                 *)
TxTypeOK ==
    /\ TypeOK
    /\ call \in [Clients -> Call \cup {Idle}]
    /\ locks \subseteq [client : Clients, row : Rows, mode : Modes]
    /\ \A l, m \in locks : l.row = m.row /\ Conflict(l.mode, m.mode) => l.client = m.client

(* The statements' locking makes every call atomic: interleaved calls change
   the tables only as some step of Wallet does, although each decides on a
   row it read several statements before it commits.                        *)
CallsAreAtomic == Spec

(* Deadlocks come from mixing the two lock orders and from nothing else: a
   cycle always has a call that locked its hold first (Confirm or Release)
   and one that locked the account first and then needs a row that call has
   (Reserve of the same hold, Debit of the same ref).                       *)
DeadlocksMixOrders ==
    \A S \in SUBSET Clients : WaitCycle(S) =>
        /\ \E c \in S : call[c].op \in {"confirm", "release"}
        /\ \E c \in S : call[c].op \in {"reserve", "debit"}

(* Every call returns: no lock is waited for forever. *)
EveryCallReturns == \A c \in Clients : Running(c) ~> ~Running(c)

(* docs/TRD/HLD/04-cross-cutting/05-resilience.md line 226, "Avoiding
   deadlocks": "Always acquire locks in a consistent order: wallet_account
   -> wallet_hold (never the reverse)."  Confirm and Release do the
   reverse, so the code does not meet this; see DeadlocksMixOrders.         *)
NoDeadlock == \A S \in SUBSET Clients : ~WaitCycle(S)
=============================================================================
