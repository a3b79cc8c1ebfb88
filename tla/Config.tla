------------------------------- MODULE Config -------------------------------
(***************************************************************************)
(* Per-seller configuration: the policy engine (backend/internal/policy)   *)
(* with its per-process cache, contracts (backend/internal/contracts) that *)
(* write policy overrides, and the enterprise upgrade (handlers/admin.go). *)
(*                                                                         *)
(* One seller.  The value of an override is who set it: the contract whose *)
(* terms it was in.  No call is one transaction: every statement commits   *)
(* by itself, the cache is written after the row, and any number of calls  *)
(* run at once, in one process or in several.                              *)
(***************************************************************************)
EXTENDS Naturals, FiniteSets

CONSTANTS
    Servers,      \* processes, each with a policy cache
    Contracts,    \* contract ids
    Terms,        \* Terms[c]: the known keys of c's policy_overrides
    LimitKey,     \* a key with a reader: limits.orders_per_day
    Marker,       \* contract.active_id
    Null,         \* no row, no entry
    SellerTypes,
    Scopes,       \* of locks: "global" and seller types
    Calls,        \* the contract and lock calls of a run, each made at most once
    Requests      \* HTTP requests that resolve LimitKey, one lookup at a time each

Keys == (UNION {Terms[c] : c \in Contracts}) \cup {LimitKey, Marker}

ASSUME ConfigAssumption ==
    /\ \A c \in Contracts : Marker \notin Terms[c]
    /\ Null \notin Contracts \cup SellerTypes
    /\ Scopes \subseteq {"global"} \cup SellerTypes

VARIABLES
    sellerType,  \* seller.seller_type
    contract,    \* state of each contract row
    override,    \* policy_seller_override rows
    locked,      \* policy_lock rows on LimitKey: their scopes
    lockCache,   \* per server, the scopes cached as locked
    cache,       \* per server, the cached override of LimitKey
    call,        \* the contract and lock calls
    reader,      \* per request, what its Resolve has read and not yet cached
    calm         \* history: no call has failed or overlapped another

configVars == <<sellerType, contract, override, locked, lockCache, cache, call, reader, calm>>
lockVars == <<locked, lockCache>>

ContractState == {"none", "draft", "active", "superseded", "terminated"}

NotBegun == [step |-> "new"]
Over == [step |-> "over"]

(* Where a call is, on which server it runs, and what it still has to do:
   "applied" and "removed" stand between the row of key and its cache entry. *)
Call == [step : {"new", "over"}]
    \cup [step : {"type"}, at : Servers, contract : Contracts, to : SellerTypes]
    \cup [step : {"create", "supersede", "activate", "terminate"}, at : Servers,
          contract : Contracts]
    \cup [step : {"apply", "remove"}, at : Servers, contract : Contracts, left : SUBSET Keys]
    \cup [step : {"applied", "removed"}, at : Servers, contract : Contracts,
          left : SUBSET Keys, key : Keys]
    \cup [step : {"locking", "unlocking"}, at : Servers, scope : Scopes]

(* A seller that has just been provisioned, or one that a single upgrade
   some time ago has given a contract.                                     *)
ConfigInit ==
    /\ sellerType \in SellerTypes
    /\ \E c \in Contracts \cup {Null} :
          /\ contract = [d \in Contracts |-> IF d = c THEN "active" ELSE "none"]
          /\ override = [k \in Keys |->
                IF c # Null /\ k \in Terms[c] \cup {Marker} THEN c ELSE Null]
    /\ locked = {}
    /\ lockCache = [s \in Servers |-> {}]
    /\ cache = [s \in Servers |-> Null]
    /\ call = [p \in Calls |-> NotBegun]
    /\ reader = [q \in Requests |-> Null]
    /\ calm = TRUE

UnderWay(p) == call[p].step \notin {"new", "over"}
Busy == \E p \in Calls : UnderWay(p)

-----------------------------------------------------------------------------
(* policy: service_impl.go, cache.go, repo.go *)

UpsertSellerOverride(k, v) == override' = [override EXCEPT ![k] = v]
DeleteSellerOverride(k) == override' = [override EXCEPT ![k] = Null]

(* The entry of LimitKey in this process: the cache is a map, and the model
   follows one key of it.                                                  *)
CacheOverride(s, k, v) == cache' = IF k = LimitKey THEN [cache EXCEPT ![s] = v] ELSE cache

InvalidateSeller(s, k) == CacheOverride(s, k, Null)

LockSeen(s, k, type) ==
    k = LimitKey /\ ("global" \in lockCache[s] \/ type \in lockCache[s])

(* As far as the row.  The error of GetSellerType is ignored: the type is then
   the empty string, which no lock is for.                                 *)
SetSellerOverride(s, k, v) ==
    /\ \E type \in {sellerType, Null} : ~LockSeen(s, k, type)
    /\ UpsertSellerOverride(k, v)

RemoveSellerOverride(k) == DeleteSellerOverride(k)

UpsertLock(scope) == locked' = locked \cup {scope}
DeleteLock(scope) == locked' = locked \ {scope}
CacheLock(s, scope) == lockCache' = [lockCache EXCEPT ![s] = @ \cup {scope}]
ForgetLock(s, scope) == lockCache' = [lockCache EXCEPT ![s] = @ \ {scope}]

(* A call begins on server s; calm if it is the only one and in order. *)
Begin(p, start, orderly) ==
    /\ call[p] = NotBegun
    /\ call' = [call EXCEPT ![p] = start]
    /\ calm' = (calm /\ ~Busy /\ orderly)

SetLock(p, s, scope) ==
    /\ Begin(p, [step |-> "locking", at |-> s, scope |-> scope], TRUE)
    /\ UpsertLock(scope)
    /\ UNCHANGED <<sellerType, contract, override, lockCache, cache, reader>>

RemoveLock(p, s, scope) ==
    /\ Begin(p, [step |-> "unlocking", at |-> s, scope |-> scope], TRUE)
    /\ DeleteLock(scope)
    /\ UNCHANGED <<sellerType, contract, override, lockCache, cache, reader>>

(* Both calls end in this process's cache. *)
LockCached(p) ==
    /\ \/ call[p].step = "locking" /\ CacheLock(call[p].at, call[p].scope)
       \/ call[p].step = "unlocking" /\ ForgetLock(call[p].at, call[p].scope)
    /\ call' = [call EXCEPT ![p] = Over]
    /\ UNCHANGED <<sellerType, contract, override, locked, cache, reader, calm>>

(* cacheTTL has passed.  Nothing loads a lock again, and no process listens
   to the NOTIFYs that would tell it to forget an entry earlier.           *)
LockExpires(s, scope) ==
    /\ scope \in lockCache[s]
    /\ ForgetLock(s, scope)
    /\ UNCHANGED <<sellerType, contract, override, locked, cache, call, reader, calm>>


OverrideExpires(s) ==
    /\ cache[s] # Null
    /\ cache' = [cache EXCEPT ![s] = Null]
    /\ UNCHANGED <<sellerType, contract, override, lockVars, call, reader, calm>>

ListAllLocks == locked
BulkSetLocks(s, scopes) == lockCache' = [lockCache EXCEPT ![s] = scopes]

WarmCache(s) == BulkSetLocks(s, ListAllLocks)

(* The process dies with whatever it was doing; New warms the lock cache. *)
Restart(s) ==
    /\ WarmCache(s)
    /\ cache' = [cache EXCEPT ![s] = Null]
    /\ call' = [p \in Calls |-> IF UnderWay(p) /\ call[p].at = s THEN Over ELSE call[p]]
    /\ reader' = [q \in Requests |-> IF reader[q] # Null /\ reader[q].at = s THEN Null ELSE reader[q]]
    /\ calm' = (calm /\ call' = call)
    /\ UNCHANGED <<sellerType, contract, override, locked>>

-----------------------------------------------------------------------------
(* contracts.go, handlers/admin.go, seller.ChangeType *)

UpgradeToEnterprise(p, s, c, t) ==
    /\ contract[c] = "none"
    /\ \A z \in Calls : call[z].step \in {"type", "create"} => call[z].contract # c
    /\ Begin(p, [step |-> "type", at |-> s, contract |-> c, to |-> t], TRUE)
    /\ UNCHANGED <<sellerType, contract, override, cache, reader, lockVars>>

(* Any contract of the seller, whatever its state. *)
Activate(p, s, c) ==
    /\ contract[c] # "none"
    /\ Begin(p, [step |-> "supersede", at |-> s, contract |-> c], TRUE)
    /\ UNCHANGED <<sellerType, contract, override, cache, reader, lockVars>>

(* Also a contract that is not the active one. *)
Terminate(p, s, c) ==
    /\ contract[c] # "none"
    /\ Begin(p, [step |-> "terminate", at |-> s, contract |-> c], contract[c] = "active")
    /\ UNCHANGED <<sellerType, contract, override, cache, reader, lockVars>>

Proceed(p, to) ==
    call' = [call EXCEPT ![p] = [step |-> to, at |-> @.at, contract |-> @.contract]]

ChangeType(p) ==
    /\ call[p].step = "type"
    /\ sellerType' = call[p].to
    /\ Proceed(p, "create")
    /\ UNCHANGED <<contract, override, cache, reader, lockVars, calm>>

Create(p) ==
    /\ call[p].step = "create"
    /\ contract' = [contract EXCEPT ![call[p].contract] = "draft"]
    /\ Proceed(p, "supersede")
    /\ UNCHANGED <<sellerType, override, cache, reader, lockVars, calm>>

Superseded ==
    [c \in Contracts |-> IF contract[c] = "active" THEN "superseded" ELSE contract[c]]

(* An error of the statement is ignored. *)
Supersede(p) ==
    /\ call[p].step = "supersede"
    /\ contract' \in {Superseded, contract}
    /\ Proceed(p, "activate")
    /\ UNCHANGED <<sellerType, override, cache, reader, lockVars, calm>>

(* Without contract_one_active_per_seller. *)
OneActiveBug(c) == TRUE

(* The unique index contract_one_active_per_seller. *)
OneActive(c) == \A d \in Contracts \ {c} : contract[d] # "active"

(* The keys a call goes through.  Marker comes last. *)
Work(p, st, keys) ==
    [step |-> st, at |-> call[p].at, contract |-> call[p].contract, left |-> keys]
Turn(p, k) == k \in call[p].left /\ (k = Marker => call[p].left = {Marker})

(* Between the row of key k and its cache entry. *)
Wrote(p, st, k) ==
    [step |-> st, at |-> call[p].at, contract |-> call[p].contract,
     left |-> call[p].left \ {k}, key |-> k]

(* The next key, or the end. *)
NextKey(p, st) == IF call[p].key = Marker THEN Over ELSE Work(p, st, call[p].left)

MarkActive(p) ==
    LET c == call[p].contract IN
    /\ call[p].step = "activate"
    /\ OneActive(c)
    /\ contract' = [contract EXCEPT ![c] = "active"]
    /\ call' = [call EXCEPT ![p] = Work(p, "apply", Terms[c] \cup {Marker})]
    /\ UNCHANGED <<sellerType, override, cache, reader, lockVars, calm>>

(* The marker is not stamped when there are terms. *)
ApplyTermBug(p, k) ==
    /\ call[p].step = "apply"
    /\ Turn(p, k)
    /\ IF k = Marker /\ Terms[call[p].contract] # {}
       THEN UNCHANGED override
       ELSE SetSellerOverride(call[p].at, k, call[p].contract)
    /\ call' = [call EXCEPT ![p] = Wrote(p, "applied", k)]
    /\ UNCHANGED <<sellerType, contract, cache, reader, lockVars, calm>>

(* for k, v := range overrides: in any order; then the stamp.  A value that
   valueForType cannot coerce ends the call (CallFails).                   *)
ApplyTerm(p, k) ==
    /\ call[p].step = "apply"
    /\ Turn(p, k)
    /\ SetSellerOverride(call[p].at, k, call[p].contract)
    /\ call' = [call EXCEPT ![p] = Wrote(p, "applied", k)]
    /\ UNCHANGED <<sellerType, contract, cache, reader, lockVars, calm>>

(* The rest of SetSellerOverride. *)
TermCached(p) ==
    /\ call[p].step = "applied"
    /\ CacheOverride(call[p].at, call[p].key, call[p].contract)
    /\ call' = [call EXCEPT ![p] = NextKey(p, "apply")]
    /\ UNCHANGED <<sellerType, contract, override, reader, lockVars, calm>>

(* WHERE state='active'; how many rows changed is not looked at. *)
MarkTerminated(p) ==
    LET c == call[p].contract IN
    /\ call[p].step = "terminate"
    /\ contract' = [contract EXCEPT ![c] = IF @ = "active" THEN "terminated" ELSE @]
    /\ call' = [call EXCEPT ![p] = Work(p, "remove", Terms[c] \cup {Marker})]
    /\ UNCHANGED <<sellerType, override, cache, reader, lockVars, calm>>

RemoveTerm(p, k) ==
    /\ call[p].step = "remove"
    /\ Turn(p, k)
    /\ RemoveSellerOverride(k)
    /\ call' = [call EXCEPT ![p] = Wrote(p, "removed", k)]
    /\ UNCHANGED <<sellerType, contract, cache, reader, lockVars, calm>>

(* The rest of RemoveSellerOverride. *)
TermInvalidated(p) ==
    /\ call[p].step = "removed"
    /\ InvalidateSeller(call[p].at, call[p].key)
    /\ call' = [call EXCEPT ![p] = NextKey(p, "remove")]
    /\ UNCHANGED <<sellerType, contract, override, reader, lockVars, calm>>

(* The errors of these removals are ignored: row and entry stay, the call goes on. *)
RemoveTermFails(p, k) ==
    /\ call[p].step = "remove"
    /\ Turn(p, k)
    /\ call' = [call EXCEPT ![p] = IF k = Marker THEN Over ELSE Work(p, "remove", @.left \ {k})]
    /\ calm' = FALSE
    /\ UNCHANGED <<sellerType, contract, override, cache, reader, lockVars>>

(* An error of any other statement is returned: a term that cannot be coerced
   or is locked, the unique index, the database.  What was done stays done. *)
CallFails(p) ==
    /\ call[p].step \in {"type", "create", "activate", "terminate", "apply"}
    /\ call' = [call EXCEPT ![p] = Over]
    /\ calm' = FALSE
    /\ UNCHANGED <<sellerType, contract, override, cache, reader, lockVars>>

-----------------------------------------------------------------------------
(* Resolve: locks and overrides from the cache, then the row, then the
   defaults.  Only what came from the row is put into the cache, in a later
   step.                                                                   *)

(* DefaultsByType of the key's Definition, one value per seller type. *)
DefaultLimit == sellerType

(* What Resolve answers on this server, "lock" for the value of a lock. *)
Resolved(s) ==
    CASE LockSeen(s, LimitKey, sellerType) -> "lock"
      [] ~LockSeen(s, LimitKey, sellerType) /\ cache[s] # Null -> cache[s]
      [] ~LockSeen(s, LimitKey, sellerType) /\ cache[s] = Null /\ override[LimitKey] # Null ->
            override[LimitKey]
      [] OTHER -> DefaultLimit

FromRow(s) ==
    ~LockSeen(s, LimitKey, sellerType) /\ cache[s] = Null /\ override[LimitKey] # Null

Resolve(q, s) ==
    /\ reader[q] = Null
    /\ FromRow(s)
    /\ reader' = [reader EXCEPT ![q] = [at |-> s, value |-> override[LimitKey]]]
    /\ UNCHANGED <<sellerType, contract, override, cache, call, lockVars, calm>>

Promote(q) ==
    /\ reader[q] # Null
    /\ cache' = [cache EXCEPT ![reader[q].at] = reader[q].value]
    /\ reader' = [reader EXCEPT ![q] = Null]
    /\ UNCHANGED <<sellerType, contract, override, call, lockVars, calm>>

-----------------------------------------------------------------------------
ContractStep(p) ==
    \/ ChangeType(p) \/ Create(p) \/ Supersede(p) \/ MarkActive(p) \/ MarkTerminated(p)
    \/ TermCached(p) \/ TermInvalidated(p) \/ CallFails(p) \/ LockCached(p)
    \/ \E k \in Keys : ApplyTerm(p, k) \/ RemoveTerm(p, k) \/ RemoveTermFails(p, k)

CallBegins(p, s) ==
    \/ \E scope \in Scopes : SetLock(p, s, scope) \/ RemoveLock(p, s, scope)
    \/ \E c \in Contracts :
          \/ \E t \in SellerTypes : UpgradeToEnterprise(p, s, c, t)
          \/ Activate(p, s, c)
          \/ Terminate(p, s, c)

ConfigNext ==
    \/ \E p \in Calls : ContractStep(p) \/ \E s \in Servers : CallBegins(p, s)
    \/ \E s \in Servers :
          \/ OverrideExpires(s)
          \/ Restart(s)
          \/ \E scope \in Scopes : LockExpires(s, scope)
          \/ \E q \in Requests : Resolve(q, s)
    \/ \E q \in Requests : Promote(q)

ConfigSpec == ConfigInit /\ [][ConfigNext]_configVars

(* A call that has begun and a lookup that has read go on, and five seconds
   pass: an entry left alone does not outlive its TTL.                     *)
ConfigFairness ==
    /\ \A p \in Calls : WF_configVars(ContractStep(p))
    /\ \A q \in Requests : WF_configVars(Promote(q))
    /\ \A s \in Servers : WF_configVars(OverrideExpires(s))

FairConfigSpec == ConfigSpec /\ ConfigFairness

-----------------------------------------------------------------------------
(* Types, and one active contract at a time. *)
ConfigTypeOK ==
    /\ sellerType \in SellerTypes
    /\ contract \in [Contracts -> ContractState]
    /\ override \in [Keys -> Contracts \cup {Null}]
    /\ locked \subseteq Scopes
    /\ lockCache \in [Servers -> SUBSET Scopes]
    /\ cache \in [Servers -> Contracts \cup {Null}]
    /\ call \in [Calls -> Call]
    /\ reader \in [Requests -> [at : Servers, value : Contracts] \cup {Null}]
    /\ \A c, d \in Contracts : contract[c] = "active" /\ contract[d] = "active" => c = d

(* While calls take turns, none fails and only the active contract is
   terminated, the settings follow the contracts: the active one is stamped
   and all its terms are in force, and no contract, no stamp.              *)
CalmContractInForce ==
    calm /\ ~Busy =>
        /\ \A c \in Contracts : contract[c] = "active" =>
              /\ override[Marker] = c
              /\ \A k \in Terms[c] : override[k] = c
        /\ (\A c \in Contracts : contract[c] # "active") => override[Marker] = Null

(* What the tables say, locks apart. *)
InTables == IF override[LimitKey] # Null THEN override[LimitKey] ELSE DefaultLimit

=============================================================================
