------------------------------- MODULE Audit -------------------------------
(***************************************************************************)
(* The hash-chained audit log (backend/internal/audit), one chain for each *)
(* seller and one for the platform.  Emit reads the newest hash of the     *)
(* chain, computes the event's hash over it and inserts the row, in two    *)
(* statements of the caller's transaction; VerifyAll recomputes the hashes *)
(* of the sellers' chains from the stored rows, and of no other.           *)
(*                                                                         *)
(* SHA-256 is taken to be injective, and an event id is drawn once, so a   *)
(* hash is what it was computed over: the event as it was in memory and    *)
(* the id of the event whose hash it is chained to.                        *)
(***************************************************************************)
EXTENDS Naturals, FiniteSets

CONSTANTS
    Ids,      \* audit event ids
    Genesis,  \* the empty prevHash
    HighValue, \* those of Ids whose action is on the HighValueActions list
    Admin,    \* those whose transaction runs as a role that RLS does not bind
    Sellers,
    Platform, \* the nil seller_id
    SellerID  \* whose chain each event goes to

ASSUME GenesisAssumption == Genesis \notin Ids
ASSUME SellerAssumption == Platform \notin Sellers /\ SellerID \in [Ids -> Sellers \cup {Platform}]

VARIABLES
    tx,       \* the transaction that emits each event
    log,      \* committed audit_event rows
    beside    \* history: pairs of events of a chain whose transactions overlapped

auditVars == <<tx, log, beside>>

(* An event in memory.  Its time may carry digits below the microsecond, which
   a TIMESTAMPTZ does not keep, and its payload may be nil, which is kept as
   {}: either makes it a lossy one.                                        *)
Content == {"exact", "lossy"}

(* What the row keeps of it: nothing that would not read back the same. *)
Stored(c) == "exact"

computeEventHash(c, prev) == [content |-> c, prev |-> prev]

Row == [id : Ids, content : Content, seq : Nat \ {0},
        hash : [content : Content, prev : Ids \cup {Genesis}]]

NoTx == [step |-> "none"]
Tx == [step : {"none"}]
      \cup [step : {"read"}, content : Content, prev : Ids \cup {Genesis}]
      \cup [step : {"inserted"}, row : Row]
      \cup [step : {"done"}]

AuditInit ==
    /\ tx = [i \in Ids |-> NoTx]
    /\ log = {}
    /\ beside = {}

Open == {i \in Ids : tx[i].step \in {"read", "inserted"}}

(* WHERE seller_id = $1, or IS NULL *)
Chain(c) == {r \in log : SellerID[r.id] = c}
ChainOf(i) == Chain(SellerID[i])

(* ORDER BY seq ASC LIMIT 1 *)
LastHashesBug(i) ==
    IF ChainOf(i) = {} THEN {Genesis}
    ELSE {r.id : r \in {s \in ChainOf(i) : \A t \in ChainOf(i) : s.seq <= t.seq}}

(* ORDER BY seq DESC LIMIT 1: among equal seqs the database picks one. *)
LastHashes(i) ==
    IF ChainOf(i) = {} THEN {Genesis}
    ELSE {r.id : r \in {s \in ChainOf(i) : \A t \in ChainOf(i) : t.seq <= s.seq}}

(* The rows of every chain counted. *)
NextSeqCount(i) == Cardinality(log) + 1

(* COALESCE(MAX(seq) + 1, 1), over the rows this statement can see. *)
NextSeq(i) ==
    IF ChainOf(i) = {} THEN 1
    ELSE 1 + CHOOSE m \in {r.seq : r \in ChainOf(i)} : \A r \in ChainOf(i) : r.seq <= m

(* The action is on the list, or begins with one of its prefixes. *)
IsHighValue(i) == i \in HighValue

(* Emit refuses what is not of high value; fillDefaults takes the time from
   the system clock.                                                       *)
GetLastChainHash(i) ==
    /\ IsHighValue(i)
    /\ tx[i].step = "none"
    /\ \E c \in Content, prev \in LastHashes(i) :
          tx' = [tx EXCEPT ![i] = [step |-> "read", content |-> c, prev |-> prev]]
    /\ beside' = beside \cup {{i, j} : j \in {k \in Open : SellerID[k] = SellerID[i]}}
    /\ UNCHANGED log

(* MAX(seq) is evaluated by the INSERT, after the hash was read. *)
InsertEvent(i) ==
    /\ tx[i].step = "read"
    /\ i \in Admin
    /\ tx' = [tx EXCEPT ![i] =
                [step |-> "inserted",
                 row |-> [id |-> i, content |-> Stored(tx[i].content), seq |-> NextSeq(i),
                          hash |-> computeEventHash(tx[i].content, tx[i].prev)]]]
    /\ UNCHANGED <<log, beside>>

(* audit_event has a row-level policy for SELECT and none for INSERT, so the
   app role's INSERT is refused: Emit fails, and the caller rolls back.    *)
InsertRefused(i) ==
    /\ tx[i].step = "read"
    /\ i \notin Admin
    /\ tx' = [tx EXCEPT ![i] = [step |-> "done"]]
    /\ UNCHANGED <<log, beside>>

Commit(i) ==
    /\ tx[i].step = "inserted"
    /\ log' = log \cup {tx[i].row}
    /\ tx' = [tx EXCEPT ![i] = [step |-> "done"]]
    /\ UNCHANGED beside

(* The domain change failed, and the audit row goes with it. *)
Rollback(i) ==
    /\ tx[i].step \in {"read", "inserted"}
    /\ tx' = [tx EXCEPT ![i] = [step |-> "done"]]
    /\ UNCHANGED <<log, beside>>

AuditNext ==
    \E i \in Ids :
        GetLastChainHash(i) \/ InsertEvent(i) \/ InsertRefused(i) \/ Commit(i) \/ Rollback(i)

AuditSpec == AuditInit /\ [][AuditNext]_auditVars

-----------------------------------------------------------------------------
(* jobs.go, chain.go *)

(* ORDER BY seq ASC: every order the database may return the chain's rows in. *)
Listings(c) ==
    {o \in [1..Cardinality(Chain(c)) -> Chain(c)] :
        /\ \A m, n \in DOMAIN o : o[m] = o[n] => m = n
        /\ \A m, n \in DOMAIN o : m < n => o[m].seq <= o[n].seq}

(* prev taken from the recomputed hash of the row itself. *)
VerifyChainBug(o) ==
    \A n \in DOMAIN o : o[n].hash = computeEventHash(o[n].content, o[n].hash.prev)

(* The recomputed hash of each row, over the stored event and the stored
   hash of the row before, is the stored hash.                             *)
VerifyChain(o) ==
    \A n \in DOMAIN o :
        o[n].hash = computeEventHash(o[n].content, IF n = 1 THEN Genesis ELSE o[n - 1].id)

verifyOne(c, o) == Chain(c) = {} \/ VerifyChain(o)

(* SELECT DISTINCT seller_id ... WHERE seller_id IS NOT NULL *)
SellersWithEvents == {SellerID[r.id] : r \in log} \ {Platform}

(* The chains that fail; VerifyAll returns nil when there is none.  lists is
   the order in which each chain's rows came.                              *)
VerifyAll(lists) == {c \in SellersWithEvents : ~verifyOne(c, lists[c])}

-----------------------------------------------------------------------------
AuditTypeOK ==
    /\ tx \in [Ids -> Tx]
    /\ log \subseteq Row
    /\ beside \subseteq SUBSET Ids

(* What the chain is for: every event is linked to the one before it, and
   nobody else is.                                                         *)
Forked(c) ==
    \E r, s \in Chain(c) : r # s /\ r.hash.prev = s.hash.prev

Altered(c) == \E r \in Chain(c) : r.hash.content # r.content

(* The orders in which the rows of all sellers' chains may come. *)
AllListings ==
    {l \in [Sellers -> UNION {Listings(c) : c \in Sellers}] : \A c \in Sellers : l[c] \in Listings(c)}

(* The verifier is exact about sellers: however the transactions interleave,
   VerifyAll names a seller if and only if that seller's chain is forked or
   one of its events did not survive the way into the table and back.  Of the
   platform's chain it says nothing, whatever is in it.                    *)
VerifierIsExact ==
    \A l \in AllListings : VerifyAll(l) = {c \in Sellers : Forked(c) \/ Altered(c)}

(* Two events of a chain have the same predecessor, or share a seq, only when
   their transactions overlapped: emitters that take turns never fork.     *)
ForksNeedOverlap ==
    \A r \in log : \A s \in ChainOf(r.id) :
        r # s /\ (r.hash.prev = s.hash.prev \/ r.seq = s.seq) => {r.id, s.id} \in beside

(* A chain has no gaps that rollbacks, refused inserts or the events of other
   chains could leave: its seqs are 1..n.                                  *)
SeqsAreDense ==
    \A r \in log : \A n \in 1..r.seq : \E s \in ChainOf(r.id) : s.seq = n
=============================================================================
