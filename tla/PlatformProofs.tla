--------------------------- MODULE PlatformProofs ---------------------------
(***************************************************************************)
(* Proofs about the tables that every other component writes or reads:     *)
(* Outbox, for any number of events and forwarders, any batch size and any *)
(* number of crashes; Audit, for any number of events and any interleaving *)
(* of the transactions that emit them; and Config, for any contracts,      *)
(* terms and servers.                                                      *)
(***************************************************************************)
EXTENDS Outbox, Audit, Config, FiniteSetTheorems, TLAPS

-----------------------------------------------------------------------------
(* A set of naturals has a least element, and a largest if it is bounded. *)
LEMMA LeastElement ==
    ASSUME NEW T, T \subseteq Nat, T # {}
    PROVE  \E x \in T : \A y \in T : x <= y
<1> DEFINE R == OpToRel(<, Nat)
<1>1. \A x, y \in Nat : y < x => <<y, x>> \in R
  BY DEF OpToRel
<1>2. IsWellFoundedOn(R, Nat)
  BY NatLessThanWellFounded
<1> HIDE DEF R
<1>3. PICK x \in T : \A y \in T : ~(<<y, x>> \in R)
  BY <1>2, WFMin
<1>4. \A y \in T : ~(y < x)
  BY <1>1, <1>3
<1>5. \A y \in T : x <= y
  BY <1>4
<1> QED
  BY <1>5

LEMMA LargestElement ==
    ASSUME NEW n \in Nat, NEW T, T \subseteq 0..n, T # {}
    PROVE  \E x \in T : \A y \in T : y <= x
<1> DEFINE U == {m \in 0..n : n - m \in T}
<1>1. U \subseteq Nat /\ U # {}
  <2>1. PICK x \in T : TRUE
    OBVIOUS
  <2>2. n - x \in U
    OBVIOUS
  <2>3. U \subseteq Nat
    OBVIOUS
  <2> HIDE DEF U
  <2> QED
    BY <2>2, <2>3
<1>2. PICK u \in U : \A v \in U : u <= v
  BY <1>1, LeastElement
<1>3. \A y \in T : y <= n - u
  <2> TAKE y \in T
  <2>1. n - y \in U
    OBVIOUS
  <2> QED
    BY <1>2, <2>1
<1> QED
  BY <1>2, <1>3

-----------------------------------------------------------------------------
(* Outbox: who holds which row. *)

OutboxTyped ==
    /\ created \in Seq(Events)
    /\ row \in [Events -> RowState]
    /\ hand \in [Forwarders -> HandState]
    /\ sent \in [Events -> {0, 1}]

(* What forwarder f holds: pending rows before the mark, marked rows without
   a job after it, nothing that another forwarder holds.                    *)
HoldsOwn(f) ==
    /\ hand[f].step = "idle" => hand[f].batch = {}
    /\ hand[f].step = "listed" => \A e \in hand[f].batch : row[e] = "pending"
    /\ hand[f].step = "marked" => \A e \in hand[f].batch : row[e] = "enqueued" /\ sent[e] = 0

HandsApart ==
    \A f, g \in Forwarders : f # g => hand[f].batch \cap hand[g].batch = {}

SentIsMarked == \A e \in Events : sent[e] > 0 => row[e] = "enqueued"

(* Enough for the refinement. *)
HandInv ==
    /\ OutboxTyped
    /\ \A f \in Forwarders : HoldsOwn(f)
    /\ HandsApart
    /\ SentIsMarked

-----------------------------------------------------------------------------
LEMMA HandInitially == OutboxInit => HandInv
<1> SUFFICES ASSUME OutboxInit PROVE HandInv
  OBVIOUS
<1>1. OutboxTyped
  BY DEF OutboxInit, OutboxTyped, RowState, HandState, Empty
<1> QED
  BY <1>1 DEF OutboxInit, HandInv, HoldsOwn, HandsApart, SentIsMarked, Empty

(* emitter.go touches rows that no forwarder can see. *)
LEMMA RowKeepsHands ==
    ASSUME HandInv, NEW e \in Events, NEW st \in RowState,
           row[e] \in {"none", "open"}, st # "enqueued",
           row' = [row EXCEPT ![e] = st], created' \in Seq(Events),
           UNCHANGED <<hand, sent>>
    PROVE  HandInv'
<1>1. OutboxTyped'
  BY DEF HandInv, OutboxTyped
<1>2. \A d \in Events : row[d] \in {"pending", "enqueued"} => row'[d] = row[d]
  BY DEF HandInv, OutboxTyped
<1>3. \A f \in Forwarders : HoldsOwn(f)'
  BY <1>2 DEF HandInv, HoldsOwn, OutboxTyped, HandState
<1> QED
  BY <1>1, <1>2, <1>3 DEF HandInv, HandsApart, SentIsMarked

LEMMA ListKeepsHands ==
    ASSUME HandInv, NEW f \in Forwarders, ListPending(f)
    PROVE  HandInv'
<1> DEFINE S == Oldest(Claimable)
<1>1. S \subseteq Claimable /\ Claimable \subseteq Events
  BY DEF Oldest, Claimable
<1> HIDE DEF S
<1>2. hand' = [hand EXCEPT ![f] = [step |-> "listed", batch |-> S]]
  BY DEF ListPending, S
<1>3. hand'[f] = [step |-> "listed", batch |-> S] /\ hand' \in [Forwarders -> HandState]
  BY <1>1, <1>2 DEF HandInv, OutboxTyped, HandState
<1>4. \A g \in Forwarders : g # f => hand'[g] = hand[g]
  BY <1>2 DEF HandInv, OutboxTyped
<1>5. \A g \in Forwarders : g # f => S \cap hand[g].batch = {}
  <2> SUFFICES ASSUME NEW g \in Forwarders, g # f, NEW e \in S, e \in hand[g].batch
               PROVE  FALSE
    OBVIOUS
  <2>1. row[e] = "pending" /\ e \notin Locked
    BY <1>1 DEF Claimable
  <2>2. hand[g].step = "listed"
    BY <2>1 DEF HandInv, HoldsOwn, OutboxTyped, HandState
  <2> QED
    BY <2>1, <2>2 DEF Locked
<1>6. \A g \in Forwarders : HoldsOwn(g)'
  BY <1>1, <1>3, <1>4 DEF HandInv, HoldsOwn, Claimable, ListPending
<1>7. HandsApart'
  BY <1>3, <1>4, <1>5 DEF HandInv, HandsApart
<1> QED
  BY <1>3, <1>6, <1>7 DEF HandInv, OutboxTyped, SentIsMarked, ListPending

LEMMA MarkKeepsHands ==
    ASSUME HandInv, NEW f \in Forwarders, MarkEnqueued(f)
    PROVE  HandInv'
<1>1. /\ hand'[f].step = "marked" /\ hand'[f].batch = hand[f].batch
      /\ hand' \in [Forwarders -> HandState]
  BY DEF MarkEnqueued, HandInv, OutboxTyped, HandState
<1>2. \A g \in Forwarders : g # f => hand'[g] = hand[g]
  BY DEF MarkEnqueued, HandInv, OutboxTyped
<1>3. row' \in [Events -> RowState]
  BY DEF MarkEnqueued, HandInv, OutboxTyped, RowState
<1>4. \A e \in hand[f].batch : e \in Events /\ row'[e] = "enqueued" /\ sent'[e] = 0
  BY DEF MarkEnqueued, HandInv, HoldsOwn, OutboxTyped, HandState, SentIsMarked
<1>5. \A e \in Events \ hand[f].batch : row'[e] = row[e]
  BY DEF MarkEnqueued
<1>6. \A g \in Forwarders : HoldsOwn(g)'
  <2> TAKE g \in Forwarders
  <2>1. CASE g = f
    BY <1>1, <1>4, <2>1 DEF HoldsOwn
  <2>2. CASE g # f
    <3>1. hand[g].batch \subseteq Events \ hand[f].batch
      BY <2>2 DEF HandInv, HandsApart, OutboxTyped, HandState
    <3> QED
      BY <1>2, <1>5, <2>2, <3>1 DEF HandInv, HoldsOwn, MarkEnqueued
  <2> QED
    BY <2>1, <2>2
<1>7. HandsApart'
  BY <1>1, <1>2 DEF HandInv, HandsApart
<1>8. SentIsMarked'
  BY <1>4, <1>5 DEF HandInv, SentIsMarked, MarkEnqueued
<1> QED
  BY <1>1, <1>3, <1>6, <1>7, <1>8 DEF HandInv, OutboxTyped, MarkEnqueued

(* What forwarder f lets go of, others do not hold: after the insert, and
   after a crash.                                                           *)
LEMMA DropKeepsHands ==
    ASSUME HandInv, NEW f \in Forwarders, hand' = [hand EXCEPT ![f] = Empty],
           UNCHANGED <<created, row>>, sent' \in [Events -> {0, 1}],
           \A e \in Events \ hand[f].batch : sent'[e] = sent[e],
           \A e \in Events : sent'[e] > 0 => row[e] = "enqueued"
    PROVE  HandInv'
<1>1. hand'[f] = Empty /\ hand' \in [Forwarders -> HandState]
  BY DEF HandInv, OutboxTyped, HandState, Empty
<1>2. \A g \in Forwarders : g # f => hand'[g] = hand[g]
  BY DEF HandInv, OutboxTyped
<1>3. \A g \in Forwarders : HoldsOwn(g)'
  <2> TAKE g \in Forwarders
  <2>1. CASE g = f
    BY <1>1, <2>1 DEF HoldsOwn, Empty
  <2>2. CASE g # f
    <3>1. hand[g].batch \subseteq Events \ hand[f].batch
      BY <2>2 DEF HandInv, HandsApart, OutboxTyped, HandState
    <3> QED
      BY <1>2, <2>2, <3>1 DEF HandInv, HoldsOwn
  <2> QED
    BY <2>1, <2>2
<1>4. HandsApart'
  BY <1>1, <1>2 DEF HandInv, HandsApart, Empty
<1> QED
  BY <1>1, <1>3, <1>4 DEF HandInv, OutboxTyped, SentIsMarked

LEMMA InsertSends ==
    ASSUME HandInv, NEW f \in Forwarders, InsertMany(f)
    PROVE  /\ hand[f].batch \subseteq {e \in Marked : sent[e] = 0}
           /\ sent' = [e \in Events |-> IF e \in hand[f].batch THEN 1 ELSE sent[e]]
           /\ sent' \in [Events -> {0, 1}]
<1>1. hand[f].batch \subseteq {e \in Marked : sent[e] = 0}
  BY DEF HandInv, HoldsOwn, InsertMany, Marked, OutboxTyped, HandState
<1>2. sent' = [e \in Events |-> IF e \in hand[f].batch THEN 1 ELSE sent[e]]
  BY <1>1 DEF InsertMany, BatchJobs
<1> QED
  BY <1>1, <1>2 DEF HandInv, OutboxTyped

LEMMA HandsInductive ==
    ASSUME HandInv, [OutboxNext]_outboxVars
    PROVE  HandInv'
<1>1. ASSUME NEW e \in Events, Emit(e) PROVE HandInv'
  <2>1. created' \in Seq(Events)
    BY <1>1 DEF Emit, HandInv, OutboxTyped
  <2> QED
    BY <1>1, <2>1, RowKeepsHands DEF Emit, RowState
<1>2. ASSUME NEW e \in Events, EndTx(e, "pending") \/ EndTx(e, "rolled_back") PROVE HandInv'
  <2>1. created' \in Seq(Events)
    BY <1>2 DEF EndTx, HandInv, OutboxTyped
  <2>2. PICK st \in {"pending", "rolled_back"} : EndTx(e, st)
    BY <1>2
  <2> QED
    BY <2>1, <2>2, RowKeepsHands DEF EndTx, RowState
<1>3. ASSUME NEW f \in Forwarders, InsertMany(f) PROVE HandInv'
  <2>1. \A e \in Events \ hand[f].batch : sent'[e] = sent[e]
    BY <1>3, InsertSends
  <2>2. \A e \in Events : sent'[e] > 0 => row[e] = "enqueued"
    BY <1>3, InsertSends DEF Marked, HandInv, SentIsMarked
  <2> QED
    BY <1>3, <2>1, <2>2, InsertSends, DropKeepsHands DEF InsertMany
<1>4. ASSUME NEW f \in Forwarders, Crash(f) PROVE HandInv'
  BY <1>4, DropKeepsHands DEF Crash, HandInv, OutboxTyped, SentIsMarked
<1>5. ASSUME UNCHANGED <<created, row, hand, sent>> PROVE HandInv'
  BY <1>5 DEF HandInv, OutboxTyped, HoldsOwn, HandsApart, SentIsMarked
<1>6. ASSUME NEW e \in Events, WorkerStep(e) PROVE HandInv'
  BY <1>5, <1>6 DEF WorkerStep, Dispatch, DispatchFails
<1> QED
  BY <1>1, <1>2, <1>3, <1>4, <1>5, <1>6, ListKeepsHands, MarkKeepsHands
  DEF OutboxNext, ForwarderStep, outboxVars

-----------------------------------------------------------------------------
(* The refinement, step by step: committing the transaction publishes the
   event, the mark takes the batch, the River insert sends it, and no other
   step is visible to the channel.                                          *)
Waiting == {e \in Events : row[e] = "pending"}
Taken == {e \in Marked : sent[e] = 0}

LEMMA EndTxPublishes ==
    ASSUME HandInv, NEW e \in Events, EndTx(e, "pending")
    PROVE  C!Publish(e)
<1>1. sent[e] = 0
  BY DEF HandInv, SentIsMarked, OutboxTyped, EndTx
<1>2. Waiting' = Waiting \cup {e} /\ Taken' = Taken /\ e \notin Waiting \cup Taken
  BY DEF Waiting, Taken, Marked, EndTx, HandInv, OutboxTyped
<1> QED
  BY <1>1, <1>2 DEF C!Publish, Waiting, Taken, EndTx

LEMMA MarkTakes ==
    ASSUME HandInv, NEW f \in Forwarders, MarkEnqueued(f), NEW S, S = hand[f].batch
    PROVE  C!Take(S)
<1>1. hand[f].batch \subseteq Waiting
  BY DEF Waiting, MarkEnqueued, HandInv, HoldsOwn, OutboxTyped, HandState
<1>2. \A e \in hand[f].batch : sent[e] = 0
  BY <1>1 DEF HandInv, SentIsMarked, OutboxTyped, Waiting
<1>3. Waiting' = Waiting \ hand[f].batch
  BY <1>1 DEF Waiting, MarkEnqueued
<1>4. Taken' = Taken \cup hand[f].batch
  BY <1>1, <1>2 DEF Taken, Marked, Waiting, MarkEnqueued
<1> QED
  BY <1>1, <1>3, <1>4 DEF C!Take, Waiting, Taken, MarkEnqueued

LEMMA InsertIsSend ==
    ASSUME HandInv, NEW f \in Forwarders, InsertMany(f), NEW S, S = hand[f].batch
    PROVE  C!Send(S)
<1>0. Marked' = Marked
  BY DEF Marked, InsertMany
<1>1. Taken' = Taken \ hand[f].batch
  BY <1>0, InsertSends DEF Taken, Marked
<1>2. Waiting' = Waiting
  BY DEF Waiting, InsertMany
<1> QED
  BY <1>1, <1>2, InsertSends DEF C!Send, Waiting, Taken

LEMMA OthersStutter ==
    ASSUME UNCHANGED <<row, sent>>
    PROVE  UNCHANGED C!channelVars
BY DEF C!channelVars, Marked

LEMMA UncommittedStutters ==
    ASSUME HandInv, NEW e \in Events, Emit(e) \/ EndTx(e, "rolled_back")
    PROVE  UNCHANGED C!channelVars
<1>1. Waiting' = Waiting /\ Taken' = Taken
  BY DEF Waiting, Taken, Marked, Emit, EndTx, HandInv, OutboxTyped
<1> QED
  BY <1>1 DEF C!channelVars, Waiting, Taken, Emit, EndTx

LEMMA StepRefines ==
    ASSUME HandInv, [OutboxNext]_outboxVars
    PROVE  [C!ChannelNext]_(C!channelVars)
<1>1. ASSUME NEW f \in Forwarders PROVE hand[f].batch \in SUBSET Events
  BY DEF HandInv, OutboxTyped, HandState
<1>2. ASSUME NEW e \in Events, EndTx(e, "pending") PROVE C!ChannelNext
  BY <1>2, EndTxPublishes DEF C!ChannelNext
<1>3. ASSUME NEW f \in Forwarders, MarkEnqueued(f) \/ InsertMany(f) PROVE C!ChannelNext
  <2>1. PICK S \in SUBSET Events : S = hand[f].batch
    BY <1>1
  <2>2. C!Take(S) \/ C!Send(S)
    BY <1>3, <2>1, MarkTakes, InsertIsSend
  <2> QED
    BY <2>2 DEF C!ChannelNext
<1>4. ASSUME NEW f \in Forwarders, ListPending(f) \/ Crash(f)
      PROVE  UNCHANGED C!channelVars
  BY <1>4, OthersStutter DEF ListPending, Crash
<1>5. ASSUME NEW e \in Events, WorkerStep(e) PROVE UNCHANGED C!channelVars
  BY <1>5, OthersStutter DEF WorkerStep, Dispatch, DispatchFails
<1>6. ASSUME UNCHANGED outboxVars PROVE UNCHANGED C!channelVars
  BY <1>6, OthersStutter DEF outboxVars
<1> QED
  BY <1>2, <1>3, <1>4, <1>5, <1>6, UncommittedStutters DEF OutboxNext, ForwarderStep

(* forwarder.go, repo.go: whatever the number of forwarders and however they
   crash, the outbox implements the at-most-once channel.                   *)
THEOREM OutboxAtMostOnce == OutboxSpec => AtMostOnce
<1>1. OutboxInit => C!ChannelInit
  BY DEF OutboxInit, C!ChannelInit, Marked
<1>2. HandInv /\ [OutboxNext]_outboxVars => [C!ChannelNext]_(C!channelVars)
  BY StepRefines
<1>3. HandInv /\ [OutboxNext]_outboxVars => HandInv'
  BY HandsInductive
<1> QED
  BY <1>1, <1>2, <1>3, HandInitially, PTL DEF OutboxSpec, AtMostOnce, C!ChannelSpec

-----------------------------------------------------------------------------
(* What the LIMIT of the query and the crashes have to do with each other. *)

Emitted == {e \in Events : \E i \in 1..Len(created) : created[i] = e}

LEMMA EmittedFinite ==
    ASSUME created \in Seq(Events)
    PROVE  IsFiniteSet(Emitted)
<1>1. created \in Surjection(1..Len(created), Emitted)
  BY DEF Surjection, Emitted
<1>2. IsFiniteSet(1..Len(created))
  BY FS_Interval
<1> QED
  BY <1>1, <1>2, FS_Surjection

(* ORDER BY created_at LIMIT n returns no more than n rows. *)
LEMMA OldestFew ==
    ASSUME created \in Seq(Events), NEW S, S \subseteq Emitted
    PROVE  IsFiniteSet(Oldest(S)) /\ Cardinality(Oldest(S)) <= BatchSize
<1> DEFINE T == Oldest(S)
           At(e) == CHOOSE i \in 1..Len(created) : created[i] = e
<1>1. T \subseteq S /\ IsFiniteSet(S) /\ IsFiniteSet(T)
  BY EmittedFinite, FS_Subset DEF Oldest
<1>2. \A e \in S : At(e) \in 1..Len(created) /\ created[At(e)] = e
  BY DEF Emitted
<1>3. CASE T = {}
  BY <1>1, <1>3, FS_EmptySet, OutboxAssumption
<1>4. CASE T # {}
  <2> DEFINE P == {i \in 1..Len(created) : \E e \in T : At(e) = i}
  <2>1. P \subseteq 0..Len(created) /\ P # {}
    BY <1>1, <1>2, <1>4
  <2>l. Len(created) \in Nat
    OBVIOUS
  <2> HIDE DEF P
  <2>2. PICK m \in P : \A i \in P : i <= m
    BY <2>1, <2>l, LargestElement
  <2> USE DEF P
  <2>3. PICK e \in T : At(e) = m
    OBVIOUS
  <2>4. \A d \in T \ {e} : Before(d, e)
    <3> TAKE d \in T \ {e}
    <3>1. At(d) \in P
      BY <1>1, <1>2
    <3>2. At(d) # At(e)
      BY <1>1, <1>2
    <3>a. At(d) \in Nat /\ At(e) \in Nat
      BY <1>1, <1>2
    <3> HIDE DEF At, P
    <3>3. At(d) < At(e)
      BY <2>2, <2>3, <3>1, <3>2, <3>a
    <3> QED
      BY <1>1, <1>2, <3>3 DEF Before
  <2> DEFINE B == {d \in S : Before(d, e)}
  <2>5. T \ {e} \subseteq B /\ IsFiniteSet(B)
    BY <1>1, <2>4, FS_Subset
  <2>6. Cardinality(B) < BatchSize
    BY DEF Oldest
  <2>7. Cardinality(T \ {e}) <= Cardinality(B)
    BY <2>5, FS_Subset
  <2>8. Cardinality(T \ {e}) = Cardinality(T) - 1
    BY <1>1, FS_RemoveElement
  <2> QED
    BY <1>1, <2>5, <2>6, <2>7, <2>8, FS_CardinalityType, OutboxAssumption
<1> QED
  BY <1>3, <1>4

RowsEmitted == \A e \in Events : row[e] # "none" => e \in Emitted

BatchesSmall ==
    \A f \in Forwarders :
        IsFiniteSet(hand[f].batch) /\ Cardinality(hand[f].batch) <= BatchSize

Adrift == {e \in Marked : sent[e] = 0 /\ \A f \in Forwarders : e \notin hand[f].batch}

LossInv ==
    /\ HandInv
    /\ RowsEmitted
    /\ BatchesSmall
    /\ crashes \in Nat
    /\ LostOnlyByCrash

LEMMA AdriftFinite ==
    ASSUME LossInv
    PROVE  IsFiniteSet(Adrift) /\ Cardinality(Adrift) \in Nat
<1>1. Adrift \subseteq Emitted
  BY DEF Adrift, Marked, LossInv, RowsEmitted
<1> QED
  BY <1>1, EmittedFinite, FS_Subset, FS_CardinalityType DEF LossInv, HandInv, OutboxTyped

(* A step that lets nothing fall. *)
LEMMA NothingFalls ==
    ASSUME LossInv, HandInv', RowsEmitted', BatchesSmall', UNCHANGED crashes,
           Adrift' \subseteq Adrift
    PROVE  LossInv'
<1>1. Cardinality(Adrift') <= Cardinality(Adrift) /\ Cardinality(Adrift') \in Nat
  BY AdriftFinite, FS_Subset, FS_CardinalityType
<1>2. Cardinality(Adrift) <= crashes * BatchSize
  BY DEF LossInv, LostOnlyByCrash, Adrift
<1>3. crashes * BatchSize \in Nat
  BY OutboxAssumption DEF LossInv
<1>4. Cardinality(Adrift') <= crashes' * BatchSize
  BY <1>1, <1>2, <1>3, AdriftFinite
<1> QED
  BY <1>4 DEF LossInv, LostOnlyByCrash, Adrift

(* A crash lets one batch fall. *)
LEMMA BatchFalls ==
    ASSUME LossInv, HandInv', RowsEmitted', BatchesSmall', crashes' = crashes + 1,
           NEW f \in Forwarders, Adrift' \subseteq Adrift \cup hand[f].batch
    PROVE  LossInv'
<1> DEFINE S == hand[f].batch
<1>1. IsFiniteSet(S) /\ Cardinality(S) <= BatchSize /\ Cardinality(S) \in Nat
  BY FS_CardinalityType DEF LossInv, BatchesSmall
<1> HIDE DEF S
<1>2. IsFiniteSet(Adrift \cup S) /\ Cardinality(Adrift \cup S) <= Cardinality(Adrift) + Cardinality(S)
  <2>1. IsFiniteSet(Adrift \cap S)
    BY <1>1, AdriftFinite, FS_Intersection
  <2>2. Cardinality(Adrift \cap S) \in Nat
    BY <2>1, FS_CardinalityType
  <2>3. /\ IsFiniteSet(Adrift \cup S)
        /\ Cardinality(Adrift \cup S) =
               Cardinality(Adrift) + Cardinality(S) - Cardinality(Adrift \cap S)
    BY <1>1, AdriftFinite, FS_Union
  <2> QED
    BY <1>1, <2>2, <2>3, AdriftFinite
<1>3. Cardinality(Adrift') <= Cardinality(Adrift \cup S) /\ Cardinality(Adrift') \in Nat
  BY <1>2, FS_Subset, FS_CardinalityType DEF S
<1>4. Cardinality(Adrift) <= crashes * BatchSize
  BY DEF LossInv, LostOnlyByCrash, Adrift
<1>5. crashes \in Nat /\ BatchSize \in Nat
  BY OutboxAssumption DEF LossInv
<1>6. (crashes + 1) * BatchSize = crashes * BatchSize + BatchSize
  BY <1>5
<1>7. crashes * BatchSize \in Nat
  BY <1>5
<1>8. Cardinality(Adrift \cup S) \in Nat
  BY <1>2, FS_CardinalityType
<1>9. Cardinality(Adrift') <= crashes * BatchSize + BatchSize
  BY <1>1, <1>2, <1>3, <1>4, <1>5, <1>7, <1>8, AdriftFinite
<1>10. Cardinality(Adrift') <= crashes' * BatchSize
  BY <1>6, <1>9
<1> QED
  BY <1>5, <1>10 DEF LossInv, LostOnlyByCrash, Adrift

(* Rows and hands, where the steps leave them alone. *)
LEMMA HandsSame ==
    ASSUME LossInv, UNCHANGED hand
    PROVE  BatchesSmall'
BY DEF LossInv, BatchesSmall

LEMMA RowsSame ==
    ASSUME LossInv, UNCHANGED <<created, row>>
    PROVE  RowsEmitted'
BY DEF LossInv, RowsEmitted, Emitted

LEMMA EmitLoses ==
    ASSUME LossInv, HandInv', NEW e \in Events, Emit(e)
    PROVE  LossInv'
<1>1. created \in Seq(Events) /\ created' = Append(created, e)
  BY DEF LossInv, HandInv, OutboxTyped, Emit
<1>2. Emitted \subseteq Emitted'
  BY <1>1 DEF Emitted
<1>3. e \in Emitted'
  BY <1>1 DEF Emitted
<1>4. RowsEmitted'
  BY <1>2, <1>3 DEF LossInv, HandInv, OutboxTyped, RowsEmitted, Emit
<1>5. Adrift' \subseteq Adrift
  BY DEF Adrift, Marked, Emit, LossInv, HandInv, OutboxTyped
<1> QED
  BY <1>4, <1>5, HandsSame, NothingFalls DEF Emit

LEMMA EndTxLoses ==
    ASSUME LossInv, HandInv', NEW e \in Events, NEW st \in {"pending", "rolled_back"},
           EndTx(e, st)
    PROVE  LossInv'
<1>1. RowsEmitted'
  BY DEF LossInv, HandInv, OutboxTyped, RowsEmitted, Emitted, EndTx
<1>2. Adrift' \subseteq Adrift
  BY DEF Adrift, Marked, EndTx, LossInv, HandInv, OutboxTyped
<1> QED
  BY <1>1, <1>2, HandsSame, NothingFalls DEF EndTx

LEMMA ListLoses ==
    ASSUME LossInv, HandInv', NEW f \in Forwarders, ListPending(f)
    PROVE  LossInv'
<1>1. Claimable \subseteq Emitted
  BY DEF Claimable, LossInv, RowsEmitted
<1>2. IsFiniteSet(Oldest(Claimable)) /\ Cardinality(Oldest(Claimable)) <= BatchSize
  BY <1>1, OldestFew DEF LossInv, HandInv, OutboxTyped
<1>3. BatchesSmall'
  BY <1>2 DEF BatchesSmall, ListPending, LossInv, HandInv, OutboxTyped
<1>4. hand[f].batch = {}
  BY DEF LossInv, HandInv, HoldsOwn, ListPending
<1>5. Adrift' \subseteq Adrift
  BY <1>4 DEF Adrift, Marked, ListPending, LossInv, HandInv, OutboxTyped
<1> QED
  BY <1>3, <1>5, RowsSame, NothingFalls DEF ListPending

LEMMA MarkLoses ==
    ASSUME LossInv, HandInv', NEW f \in Forwarders, MarkEnqueued(f)
    PROVE  LossInv'
<1>1. \A g \in Forwarders : hand'[g].batch = hand[g].batch
  BY DEF MarkEnqueued, LossInv, HandInv, OutboxTyped, HandState
<1>2. BatchesSmall'
  BY <1>1 DEF BatchesSmall, LossInv
<1>3. \A e \in hand[f].batch : row[e] # "none"
  BY DEF LossInv, HandInv, HoldsOwn, MarkEnqueued
<1>4. RowsEmitted'
  BY <1>3 DEF LossInv, RowsEmitted, Emitted, MarkEnqueued
<1>5. Adrift' \subseteq Adrift
  BY <1>1 DEF Adrift, Marked, MarkEnqueued
<1> QED
  BY <1>2, <1>4, <1>5, NothingFalls DEF MarkEnqueued

LEMMA InsertLoses ==
    ASSUME LossInv, HandInv', NEW f \in Forwarders, InsertMany(f)
    PROVE  LossInv'
<1>1. BatchesSmall'
  BY FS_EmptySet, OutboxAssumption
  DEF BatchesSmall, InsertMany, LossInv, HandInv, OutboxTyped, Empty
<1>2. \A e \in hand[f].batch : sent'[e] # 0
  BY InsertSends DEF LossInv, Marked
<1>3. \A e \in Events \ hand[f].batch : sent'[e] = sent[e]
  BY InsertSends DEF LossInv
<1>4. \A g \in Forwarders \ {f} : hand'[g] = hand[g]
  BY DEF InsertMany, LossInv, HandInv, OutboxTyped
<1>5. Adrift' \subseteq Adrift
  BY <1>2, <1>3, <1>4 DEF Adrift, Marked, InsertMany
<1> QED
  BY <1>1, <1>5, RowsSame, NothingFalls DEF InsertMany

LEMMA CrashLoses ==
    ASSUME LossInv, HandInv', NEW f \in Forwarders, Crash(f)
    PROVE  LossInv'
<1>1. BatchesSmall'
  BY FS_EmptySet, OutboxAssumption
  DEF BatchesSmall, Crash, LossInv, HandInv, OutboxTyped, Empty
<1>2. \A g \in Forwarders \ {f} : hand'[g] = hand[g]
  BY DEF Crash, LossInv, HandInv, OutboxTyped
<1>3. Adrift' \subseteq Adrift \cup hand[f].batch
  BY <1>2 DEF Adrift, Marked, Crash
<1> QED
  BY <1>1, <1>3, RowsSame, BatchFalls DEF Crash

(* forwarder.go, forward(): an event that left the table without a job is in
   a forwarder's hands or fell in a crash, at most a batch for each crash.  *)
THEOREM OutboxLoses == OutboxSpec => []LostOnlyByCrash
<1>1. OutboxInit => LossInv
  <2> SUFFICES ASSUME OutboxInit PROVE LossInv
    OBVIOUS
  <2>1. HandInv
    BY HandInitially
  <2>2. RowsEmitted
    BY DEF OutboxInit, RowsEmitted
  <2>3. BatchesSmall
    <3>1. \A f \in Forwarders : hand[f].batch = {}
      BY DEF OutboxInit, Empty
    <3>2. IsFiniteSet({}) /\ Cardinality({}) = 0 /\ BatchSize \in Nat
      BY FS_EmptySet, OutboxAssumption
    <3> QED
      BY <3>1, <3>2 DEF BatchesSmall
  <2>4. Adrift = {} /\ crashes = 0
    BY DEF OutboxInit, Adrift, Marked
  <2>5. LostOnlyByCrash
    BY <2>4, FS_EmptySet, OutboxAssumption DEF LostOnlyByCrash, Adrift
  <2> QED
    BY <2>1, <2>2, <2>3, <2>4, <2>5 DEF LossInv
<1>2. LossInv /\ [OutboxNext]_outboxVars => LossInv'
  <2> SUFFICES ASSUME LossInv, [OutboxNext]_outboxVars PROVE LossInv'
    OBVIOUS
  <2>1. HandInv'
    BY HandsInductive DEF LossInv
  <2>2. ASSUME UNCHANGED <<created, row, hand, sent, crashes>> PROVE LossInv'
    <3>1. Adrift' = Adrift
      BY <2>2 DEF Adrift, Marked
    <3> QED
      BY <2>1, <2>2, <3>1, HandsSame, RowsSame, NothingFalls
  <2>3. ASSUME NEW e \in Events, WorkerStep(e) PROVE LossInv'
    BY <2>2, <2>3 DEF WorkerStep, Dispatch, DispatchFails
  <2> QED
    BY <2>1, <2>2, <2>3, EmitLoses, EndTxLoses, ListLoses, MarkLoses, InsertLoses, CrashLoses
    DEF OutboxNext, ForwarderStep, outboxVars
<1>3. LossInv => LostOnlyByCrash
  BY DEF LossInv
<1> QED
  BY <1>1, <1>2, <1>3, PTL DEF OutboxSpec

-----------------------------------------------------------------------------
(* Audit: the invariant. *)

(* The row that prev names has a seq no smaller than that of r: r was in the
   log when the hash of prev was read.                                     *)
Seen(r, prev) == \E p \in ChainOf(r.id) : p.id = prev /\ r.seq <= p.seq

Ahead(r, x) == Seen(r, x.hash.prev) /\ r.seq < x.seq

(* A row is newer than the one it is chained to. *)
Linked(x) == x.hash.prev = Genesis \/ \E p \in ChainOf(x.id) : p.id = x.hash.prev /\ p.seq < x.seq

DenseBelow(i, n) == \A m \in 1..(n - 1) : \E s \in ChainOf(i) : s.seq = m

Overlap(i, j) == {i, j} \in beside

(* What transaction i knows of its chain, which may have grown since. *)
KnowsLog(i) ==
    /\ tx[i].step = "read" =>
          /\ tx[i].prev = Genesis \/ \E p \in ChainOf(i) : p.id = tx[i].prev
          /\ \A r \in ChainOf(i) : Overlap(r.id, i) \/ Seen(r, tx[i].prev)
    /\ tx[i].step = "inserted" =>
          /\ tx[i].row.id = i
          /\ Linked(tx[i].row)
          /\ DenseBelow(i, tx[i].row.seq)
          /\ \A r \in ChainOf(i) : Overlap(r.id, i) \/ Ahead(r, tx[i].row)

LogOK ==
    /\ \A r \in log : tx[r.id].step = "done" /\ Linked(r) /\ DenseBelow(r.id, r.seq)
    /\ \A r, s \in log : r.id = s.id => r = s
    /\ \A r \in log : \A s \in ChainOf(r.id) : r # s => Overlap(r.id, s.id) \/ Ahead(r, s) \/ Ahead(s, r)

SeqsBounded == \E n \in Nat : \A r \in log : r.seq <= n

AuditInv ==
    /\ AuditTypeOK
    /\ IsFiniteSet(log)
    /\ SeqsBounded
    /\ LogOK
    /\ \A i \in Ids : KnowsLog(i)
    /\ \A i, j \in Open : i # j /\ SellerID[i] = SellerID[j] => Overlap(i, j)

-----------------------------------------------------------------------------
LEMMA TxShape ==
    ASSUME NEW x \in Tx
    PROVE  /\ x.step \in {"none", "read", "inserted", "done"}
           /\ x.step = "read" => x.content \in Content /\ x.prev \in Ids \cup {Genesis}
           /\ x.step = "inserted" => x.row \in Row
  <1>1. CASE x \in [step : {"none"}] \cup [step : {"done"}]
    BY <1>1
  <1>2. CASE x \in [step : {"read"}, content : Content, prev : Ids \cup {Genesis}]
    BY <1>2
  <1>3. CASE x \in [step : {"inserted"}, row : Row]
    BY <1>3
  <1> QED BY <1>1, <1>2, <1>3 DEF Tx

LEMMA RowShape ==
    ASSUME NEW r \in Row
    PROVE  /\ r.id \in Ids /\ r.seq \in Nat /\ r.seq > 0
           /\ r.hash.prev \in Ids \cup {Genesis}
           /\ r.hash = [content |-> r.hash.content, prev |-> r.hash.prev]
  BY DEF Row

(* The newest seq exists, and the next one follows it. *)
LEMMA NextSeqIs ==
    ASSUME log \subseteq Row, SeqsBounded, NEW i \in Ids
    PROVE  /\ NextSeq(i) \in Nat /\ NextSeq(i) > 0
           /\ \A r \in ChainOf(i) : r.seq < NextSeq(i)
           /\ ChainOf(i) # {} => \E r \in ChainOf(i) : r.seq + 1 = NextSeq(i)
           /\ ChainOf(i) = {} => NextSeq(i) = 1
  <1>0. PICK K : K = ChainOf(i)
    OBVIOUS
  <1>1. CASE K = {}
    BY <1>0, <1>1 DEF NextSeq
  <1>2. CASE K # {}
    <2> DEFINE T == {r.seq : r \in K}
    <2>0. K \subseteq log
      BY <1>0 DEF ChainOf, Chain
    <2>1. PICK n \in Nat : \A r \in K : r.seq <= n
      BY <2>0 DEF SeqsBounded
    <2>2. T # {} /\ T \subseteq 0..n
      <3>1. PICK r \in K : TRUE
        BY <1>2
      <3>2. r.seq \in T
        OBVIOUS
      <3>3. ASSUME NEW s \in K PROVE s.seq \in 0..n
        <4>1. s.seq \in Nat
          BY <2>0, RowShape
        <4> QED BY <2>1, <4>1
      <3>4. T \subseteq 0..n
        BY <3>3
      <3> QED BY <3>2, <3>4
    <2>3. PICK m \in T : \A y \in T : y <= m
      BY <2>2, LargestElement
    <2> DEFINE k == CHOOSE q \in T : \A r \in K : r.seq <= q
    <2>4. k \in T /\ \A r \in K : r.seq <= k
      BY <2>3
    <2>5. NextSeq(i) = 1 + k
      BY <1>0, <1>2 DEF NextSeq
    <2>6. k \in Nat /\ \E r \in K : r.seq = k
      BY <2>2, <2>4
    <2> HIDE DEF k, T
    <2>7. \A r \in K : r.seq \in Nat
      BY <2>0, RowShape
    <2> QED BY <1>0, <1>2, <2>4, <2>5, <2>6, <2>7
  <1> QED BY <1>0, <1>1, <1>2

LEMMA SameChain ==
    ASSUME NEW i, NEW r \in ChainOf(i)
    PROVE  r \in log /\ SellerID[r.id] = SellerID[i] /\ ChainOf(r.id) = ChainOf(i)
  BY DEF ChainOf, Chain

-----------------------------------------------------------------------------
(* A log that grows keeps what was known of it. *)
LEMMA LogGrows ==
    ASSUME log \subseteq log', NEW x
    PROVE  /\ Linked(x) => Linked(x)'
           /\ \A r : Ahead(r, x) => Ahead(r, x)'
           /\ \A r, prev : Seen(r, prev) => Seen(r, prev)'
           /\ \A i, n : DenseBelow(i, n) => DenseBelow(i, n)'
  BY DEF Linked, Ahead, Seen, DenseBelow, ChainOf, Chain

(* A step of transaction i that does not commit. *)
LEMMA TxStep ==
    ASSUME AuditInv, NEW i \in Ids, NEW x \in Tx, x.step \in {"read", "inserted", "done"},
           tx[i].step \in {"none", "read", "inserted"},
           tx' = [tx EXCEPT ![i] = x], log' = log,
           beside \subseteq beside', beside' \subseteq SUBSET Ids,
           KnowsLog(i)',
           \A j \in Open' : j # i /\ i \in Open' /\ SellerID[i] = SellerID[j] => Overlap(i, j)'
    PROVE  AuditInv'
  <1>1. /\ tx' \in [Ids -> Tx] /\ tx'[i] = x
        /\ \A j \in Ids \ {i} : tx'[j] = tx[j]
    BY DEF AuditInv, AuditTypeOK
  <1>2. AuditTypeOK'
    BY <1>1 DEF AuditInv, AuditTypeOK
  <1>3. IsFiniteSet(log)' /\ SeqsBounded'
    BY DEF AuditInv, SeqsBounded
  <1>4. \A r \in log : r.id \in Ids
    BY RowShape DEF AuditInv, AuditTypeOK
  <1>5. \A r \in log : tx'[r.id].step = "done"
    <2> TAKE r \in log
    <2>1. tx[r.id].step = "done" /\ r.id \in Ids
      BY <1>4 DEF AuditInv, LogOK
    <2>2. r.id # i
      BY <2>1
    <2> QED BY <1>1, <2>1, <2>2
  <1>6. LogOK'
    BY <1>5 DEF AuditInv, LogOK, Overlap, Ahead, Seen, Linked, DenseBelow, ChainOf, Chain
  <1>7. ASSUME NEW j \in Ids PROVE KnowsLog(j)'
    <2>1. CASE j = i
      BY <2>1
    <2>2. CASE j # i
      <3>1. KnowsLog(j) /\ tx'[j] = tx[j]
        BY <2>2, <1>1 DEF AuditInv
      <3> QED BY <3>1 DEF KnowsLog, Overlap, Ahead, Seen, Linked, DenseBelow, ChainOf, Chain
    <2> QED BY <2>1, <2>2
  <1>8. ASSUME NEW j \in Open', NEW k \in Open', j # k, SellerID[j] = SellerID[k]
        PROVE  Overlap(j, k)'
    <2>1. CASE j = i
      BY <1>8, <2>1
    <2>2. CASE k = i
      <3>1. Overlap(k, j)'
        BY <1>8, <2>2
      <3>2. {j, k} = {k, j}
        OBVIOUS
      <3> QED BY <3>1, <3>2 DEF Overlap
    <2>3. CASE j # i /\ k # i
      <3>1. j \in Open /\ k \in Open
        BY <2>3, <1>1 DEF Open
      <3>2. Overlap(j, k)
        BY <3>1, <1>8 DEF AuditInv
      <3> QED BY <3>2 DEF Overlap
    <2> QED BY <2>1, <2>2, <2>3
  <1> QED BY <1>2, <1>3, <1>6, <1>7, <1>8 DEF AuditInv

LEMMA ReadsHash ==
    ASSUME AuditInv, NEW i \in Ids, GetLastChainHash(i)
    PROVE  AuditInv'
  <1>1. PICK c \in Content, prev \in LastHashes(i) :
           tx' = [tx EXCEPT ![i] = [step |-> "read", content |-> c, prev |-> prev]]
    BY DEF GetLastChainHash
  <1>2. /\ tx[i].step = "none" /\ log' = log
        /\ beside' = beside \cup {{i, j} : j \in {k \in Open : SellerID[k] = SellerID[i]}}
    BY DEF GetLastChainHash
  <1>3. /\ ChainOf(i) = {} => prev = Genesis
        /\ ChainOf(i) # {} => \E p \in ChainOf(i) : /\ p.id = prev
                                                   /\ \A r \in ChainOf(i) : r.seq <= p.seq
    BY DEF LastHashes
  <1>4. prev \in Ids \cup {Genesis}
    <2>1. \A p \in ChainOf(i) : p.id \in Ids
      BY RowShape, SameChain DEF AuditInv, AuditTypeOK
    <2> QED BY <1>3, <2>1
  <1> DEFINE x == [step |-> "read", content |-> c, prev |-> prev]
  <1>5. x \in Tx /\ x.step = "read" /\ x.prev = prev
    BY <1>4 DEF Tx
  <1>6. tx' = [tx EXCEPT ![i] = x]
    BY <1>1
  <1> HIDE DEF x
  <1>7. tx'[i] = x /\ \A j \in Ids \ {i} : tx'[j] = tx[j]
    BY <1>6 DEF AuditInv, AuditTypeOK
  <1>8. KnowsLog(i)'
    <2>1. \A r \in ChainOf(i) : Seen(r, prev)
      BY <1>3, SameChain DEF Seen
    <2>2. prev = Genesis \/ \E p \in ChainOf(i) : p.id = prev
      BY <1>3
    <2> QED BY <1>2, <1>5, <1>7, <2>1, <2>2 DEF KnowsLog, Seen, ChainOf, Chain
  <1>9. beside \subseteq beside' /\ beside' \subseteq SUBSET Ids
    BY <1>2 DEF AuditInv, AuditTypeOK, Open
  <1>10. \A j \in Open' : j # i /\ i \in Open' /\ SellerID[i] = SellerID[j] => Overlap(i, j)'
    <2> TAKE j \in Open'
    <2>1. j # i => j \in Open
      BY <1>7 DEF Open
    <2> QED BY <2>1, <1>2 DEF Overlap
  <1> QED BY <1>2, <1>5, <1>6, <1>8, <1>9, <1>10, TxStep

LEMMA Inserts ==
    ASSUME AuditInv, NEW i \in Ids, InsertEvent(i)
    PROVE  AuditInv'
  <1>1. tx[i].step = "read" /\ tx[i] \in Tx /\ UNCHANGED <<log, beside>>
    BY DEF InsertEvent, AuditInv, AuditTypeOK
  <1>2. PICK c \in Content, prev \in Ids \cup {Genesis} : c = tx[i].content /\ prev = tx[i].prev
    BY <1>1, TxShape
  <1>3. /\ log \subseteq Row /\ SeqsBounded
    BY DEF AuditInv, AuditTypeOK
  <1>4. PICK n \in Nat \ {0} : n = NextSeq(i)
    BY <1>3, NextSeqIs
  <1>5. /\ \A r \in ChainOf(i) : r.seq < n
        /\ ChainOf(i) # {} => \E r \in ChainOf(i) : r.seq + 1 = n
        /\ ChainOf(i) = {} => n = 1
    BY <1>3, <1>4, NextSeqIs
  <1> DEFINE ev == [id |-> i, content |-> Stored(c), seq |-> n,
                     hash |-> [content |-> c, prev |-> prev]]
             x == [step |-> "inserted", row |-> ev]
  <1>6. ev \in Row /\ ev.id = i /\ ev.seq = n /\ ev.hash.prev = prev
    BY DEF Row, Content, Stored
  <1>7. tx' = [tx EXCEPT ![i] = x]
    BY <1>2, <1>4 DEF InsertEvent, computeEventHash
  <1> HIDE DEF ev
  <1>8. x \in Tx /\ x.step = "inserted" /\ x.row = ev
    BY <1>6 DEF Tx
  <1> HIDE DEF x
  <1>9. tx'[i] = x /\ \A j \in Ids \ {i} : tx'[j] = tx[j]
    BY <1>7 DEF AuditInv, AuditTypeOK
  <1>10. KnowsLog(i)'
    <2>1. /\ prev = Genesis \/ \E p \in ChainOf(i) : p.id = prev
          /\ \A r \in ChainOf(i) : Overlap(r.id, i) \/ Seen(r, prev)
      BY <1>1, <1>2 DEF AuditInv, KnowsLog
    <2>2. Linked(ev)
      BY <2>1, <1>5, <1>6 DEF Linked
    <2>3. \A r \in ChainOf(i) : Overlap(r.id, i) \/ Ahead(r, ev)
      BY <2>1, <1>5, <1>6 DEF Ahead
    <2>4. DenseBelow(i, n)
      <3>1. CASE ChainOf(i) = {}
        BY <3>1, <1>5 DEF DenseBelow
      <3>2. CASE ChainOf(i) # {}
        <4>1. PICK r \in ChainOf(i) : r.seq + 1 = n
          BY <3>2, <1>5
        <4>2. r \in log /\ ChainOf(r.id) = ChainOf(i)
          BY SameChain
        <4>3. DenseBelow(r.id, r.seq) /\ r.seq \in Nat
          BY <1>3, <4>2, RowShape DEF AuditInv, LogOK
        <4>4. DenseBelow(i, r.seq)
          BY <4>2, <4>3 DEF DenseBelow
        <4> QED BY <4>1, <4>3, <4>4 DEF DenseBelow
      <3> QED BY <3>1, <3>2
    <2>5. (Linked(ev) /\ DenseBelow(i, n) /\ \A r \in ChainOf(i) : Overlap(r.id, i) \/ Ahead(r, ev))'
      BY <2>2, <2>3, <2>4, <1>1 DEF Linked, DenseBelow, Overlap, Ahead, Seen, ChainOf, Chain
    <2> QED BY <2>5, <1>6, <1>8, <1>9 DEF KnowsLog
  <1>11. beside \subseteq beside' /\ beside' \subseteq SUBSET Ids
    BY <1>1 DEF AuditInv, AuditTypeOK
  <1>12. \A j \in Open' : j # i /\ i \in Open' /\ SellerID[i] = SellerID[j] => Overlap(i, j)'
    <2> TAKE j \in Open'
    <2>1. j # i => j \in Open /\ i \in Open
      BY <1>1, <1>9 DEF Open
    <2> QED BY <2>1, <1>1 DEF Overlap, AuditInv
  <1> QED BY <1>1, <1>7, <1>8, <1>10, <1>11, <1>12, TxStep

LEMMA RollsBack ==
    ASSUME AuditInv, NEW i \in Ids, Rollback(i) \/ InsertRefused(i)
    PROVE  AuditInv'
  <1> DEFINE x == [step |-> "done"]
  <1>1. x \in Tx /\ x.step = "done"
    BY DEF Tx
  <1>2. tx[i].step \in {"read", "inserted"} /\ tx' = [tx EXCEPT ![i] = x]
        /\ UNCHANGED <<log, beside>>
    BY DEF Rollback, InsertRefused
  <1> HIDE DEF x
  <1>3. tx'[i] = x
    BY <1>2 DEF AuditInv, AuditTypeOK
  <1>4. KnowsLog(i)' /\ i \notin Open'
    BY <1>1, <1>3 DEF KnowsLog, Open
  <1>5. beside \subseteq beside' /\ beside' \subseteq SUBSET Ids
    BY <1>2 DEF AuditInv, AuditTypeOK
  <1> QED BY <1>1, <1>2, <1>4, <1>5, TxStep

LEMMA Commits ==
    ASSUME AuditInv, NEW i \in Ids, Commit(i)
    PROVE  AuditInv'
  <1>1. tx[i].step = "inserted" /\ tx[i] \in Tx /\ beside' = beside
    BY DEF Commit, AuditInv, AuditTypeOK
  <1>2. PICK x \in Row : x = tx[i].row
    BY <1>1, TxShape
  <1>3. /\ log' = log \cup {x}
        /\ tx' = [tx EXCEPT ![i] = [step |-> "done"]]
    BY <1>2 DEF Commit
  <1>4. /\ tx'[i].step = "done" /\ tx' \in [Ids -> Tx]
        /\ \A j \in Ids \ {i} : tx'[j] = tx[j]
    BY <1>3 DEF AuditInv, AuditTypeOK, Tx
  <1>5. AuditTypeOK'
    BY <1>1, <1>3, <1>4 DEF AuditInv, AuditTypeOK
  <1>6. IsFiniteSet(log)'
    BY <1>3, FS_AddElement DEF AuditInv
  <1>7. SeqsBounded'
    <2>1. PICK n \in Nat : \A r \in log : r.seq <= n
      BY DEF AuditInv, SeqsBounded
    <2>2. x.seq \in Nat /\ \A r \in log : r.seq \in Nat
      BY RowShape DEF AuditInv, AuditTypeOK
    <2>3. n + x.seq \in Nat /\ \A r \in log' : r.seq <= n + x.seq
      BY <2>1, <2>2, <1>3
    <2> QED BY <2>3 DEF SeqsBounded
  <1>8. /\ x.id = i /\ Linked(x) /\ DenseBelow(i, x.seq)
        /\ \A r \in ChainOf(i) : Overlap(r.id, i) \/ Ahead(r, x)
    BY <1>1, <1>2 DEF AuditInv, KnowsLog
  <1>9. \A r \in log : r.id \in Ids /\ r.id # i /\ tx'[r.id].step = "done"
    <2> TAKE r \in log
    <2>1. r.id \in Ids /\ tx[r.id].step = "done"
      BY RowShape DEF AuditInv, AuditTypeOK, LogOK
    <2> QED BY <2>1, <1>1, <1>4
  <1>10. log \subseteq log'
    BY <1>3
  <1>11. LogOK'
    <2>1. \A r \in log' : tx'[r.id].step = "done"
      BY <1>3, <1>4, <1>8, <1>9
    <2>2. \A r \in log' : Linked(r)' /\ DenseBelow(r.id, r.seq)'
      BY <1>3, <1>8, <1>10, LogGrows DEF AuditInv, LogOK
    <2>3. \A r, s \in log' : r.id = s.id => r = s
      BY <1>3, <1>8, <1>9 DEF AuditInv, LogOK
    <2>4. ASSUME NEW r \in log', NEW s \in log', SellerID[s.id] = SellerID[r.id], r # s
          PROVE  (Overlap(r.id, s.id) \/ Ahead(r, s) \/ Ahead(s, r))'
      <3>1. CASE r \in log /\ s \in log
        <4>1. s \in ChainOf(r.id)
          BY <2>4, <3>1 DEF ChainOf, Chain
        <4> QED BY <2>4, <3>1, <4>1, <1>1, <1>10, LogGrows DEF AuditInv, LogOK, Overlap
      <3>2. CASE r \in log /\ s = x
        <4>1. r \in ChainOf(i)
          BY <2>4, <3>2, <1>8 DEF ChainOf, Chain
        <4> QED BY <3>2, <4>1, <1>1, <1>8, <1>10, LogGrows DEF Overlap
      <3>3. CASE s \in log /\ r = x
        <4>1. {r.id, s.id} = {s.id, r.id}
          OBVIOUS
        <4>2. s \in ChainOf(i)
          BY <2>4, <3>3, <1>8 DEF ChainOf, Chain
        <4> QED BY <3>3, <4>1, <4>2, <1>1, <1>8, <1>10, LogGrows DEF Overlap
      <3> QED BY <2>4, <3>1, <3>2, <3>3, <1>3
    <2> QED BY <2>1, <2>2, <2>3, <2>4 DEF LogOK, ChainOf, Chain
  <1>12. ASSUME NEW j \in Ids PROVE KnowsLog(j)'
    <2>1. CASE j = i
      BY <2>1, <1>4 DEF KnowsLog
    <2>2. CASE j # i
      <3>1. KnowsLog(j) /\ tx'[j] = tx[j]
        BY <2>2, <1>4 DEF AuditInv
      <3>0. /\ ChainOf(j) \subseteq ChainOf(j)'
            /\ \A r \in ChainOf(j)' : r \in ChainOf(j) \/ (r = x /\ SellerID[i] = SellerID[j])
        BY <1>3, <1>8 DEF ChainOf, Chain
      <3>2. tx[j].step \in {"read", "inserted"} /\ SellerID[i] = SellerID[j] => Overlap(x.id, j)'
        <4>1. tx[j].step \in {"read", "inserted"} => i \in Open /\ j \in Open
          BY <1>1 DEF Open
        <4> QED BY <2>2, <4>1, <1>1, <1>8 DEF AuditInv, Overlap
      <3>3. CASE tx[j].step = "read"
        <4>1. /\ tx[j].prev = Genesis \/ \E p \in ChainOf(j) : p.id = tx[j].prev
              /\ \A r \in ChainOf(j) : Overlap(r.id, j) \/ Seen(r, tx[j].prev)
          BY <3>1, <3>3 DEF KnowsLog
        <4>2. PICK prev : prev = tx[j].prev
          OBVIOUS
        <4>3. \A r \in ChainOf(j) : Overlap(r.id, j)' \/ Seen(r, prev)'
          BY <4>1, <4>2, <1>1, <1>10, LogGrows DEF Overlap
        <4>4. prev = Genesis \/ \E p \in ChainOf(j)' : p.id = prev
          BY <4>1, <4>2, <3>0
        <4>5. \A r \in ChainOf(j)' : Overlap(r.id, j)' \/ Seen(r, prev)'
          BY <4>3, <3>0, <3>2, <3>3
        <4> QED BY <3>1, <3>3, <4>2, <4>4, <4>5 DEF KnowsLog, Seen
      <3>4. CASE tx[j].step = "inserted"
        <4>1. PICK y : y = tx[j].row
          OBVIOUS
        <4>2. /\ y.id = j /\ Linked(y) /\ DenseBelow(j, y.seq)
              /\ \A r \in ChainOf(j) : Overlap(r.id, j) \/ Ahead(r, y)
          BY <3>1, <3>4, <4>1 DEF KnowsLog
        <4>3. /\ Linked(y)' /\ DenseBelow(j, y.seq)'
              /\ \A r \in ChainOf(j) : Overlap(r.id, j)' \/ Ahead(r, y)'
          BY <4>2, <1>1, <1>10, LogGrows DEF Overlap
        <4>4. \A r \in ChainOf(j)' : Overlap(r.id, j)' \/ Ahead(r, y)'
          BY <4>3, <3>0, <3>2, <3>4
        <4> QED BY <3>1, <3>4, <4>1, <4>2, <4>3, <4>4 DEF KnowsLog, Linked, DenseBelow, Ahead, Seen
      <3>5. CASE tx[j].step \notin {"read", "inserted"}
        BY <3>1, <3>5 DEF KnowsLog
      <3> QED BY <3>3, <3>4, <3>5
    <2> QED BY <2>1, <2>2
  <1>13. \A j, k \in Open' : j # k /\ SellerID[j] = SellerID[k] => Overlap(j, k)'
    <2>1. Open' \subseteq Open
      BY <1>4 DEF Open
    <2> QED BY <2>1, <1>1 DEF AuditInv, Overlap
  <1> QED BY <1>5, <1>6, <1>7, <1>11, <1>12, <1>13 DEF AuditInv

LEMMA AuditInductive == AuditSpec => []AuditInv
  <1>1. AuditInit => AuditInv
    <2> SUFFICES ASSUME AuditInit PROVE AuditInv
      OBVIOUS
    <2>1. log = {} /\ beside = {} /\ \A i \in Ids : tx[i].step = "none"
      BY DEF AuditInit, NoTx
    <2>2. AuditTypeOK
      BY DEF AuditInit, AuditTypeOK, NoTx, Tx
    <2>3. IsFiniteSet(log) /\ SeqsBounded
      BY <2>1, FS_EmptySet DEF SeqsBounded
    <2> QED BY <2>1, <2>2, <2>3 DEF AuditInv, LogOK, KnowsLog, Open
  <1>2. AuditInv /\ [AuditNext]_auditVars => AuditInv'
    <2> SUFFICES ASSUME AuditInv, [AuditNext]_auditVars PROVE AuditInv'
      OBVIOUS
    <2>1. CASE AuditNext
      BY <2>1, ReadsHash, Inserts, Commits, RollsBack DEF AuditNext
    <2>2. CASE UNCHANGED auditVars
      BY <2>2 DEF auditVars, AuditInv, AuditTypeOK, SeqsBounded, LogOK, KnowsLog, Open,
         Overlap, Ahead, Seen, Linked, DenseBelow, ChainOf, Chain
    <2> QED BY <2>1, <2>2
  <1> QED BY <1>1, <1>2, PTL DEF AuditSpec

(* Emitters whose transactions do not overlap never fork the chain and never
   draw the same seq, in any interleaving of any number of them.           *)
THEOREM AuditForks == AuditSpec => []ForksNeedOverlap
  <1>1. AuditInv => ForksNeedOverlap
    <2> SUFFICES ASSUME AuditInv, NEW r \in log, NEW s \in ChainOf(r.id), r # s, ~Overlap(r.id, s.id)
                 PROVE  r.hash.prev # s.hash.prev /\ r.seq # s.seq
      BY DEF ForksNeedOverlap, Overlap
    <2>1. \A a, b \in log : a.id = b.id => a = b
      BY DEF AuditInv, LogOK
    <2>2. \A a \in log : a.id \in Ids /\ a.seq \in Nat /\ a.id # Genesis
      BY RowShape, GenesisAssumption DEF AuditInv, AuditTypeOK
    <2>0. s \in log
      BY SameChain
    <2>3. ASSUME NEW a \in log, NEW b \in log, Ahead(a, b)
          PROVE  a.hash.prev # b.hash.prev /\ a.seq # b.seq
      <3>1. PICK p \in ChainOf(a.id) : p.id = b.hash.prev /\ a.seq <= p.seq
        BY <2>3 DEF Ahead, Seen
      <3>0. p \in log
        BY SameChain
      <3>2. a.seq < b.seq
        BY <2>3 DEF Ahead
      <3>3. Linked(a)
        BY DEF AuditInv, LogOK
      <3>4. CASE a.hash.prev = Genesis
        BY <3>0, <3>1, <3>2, <3>4, <2>2
      <3>5. CASE a.hash.prev # Genesis
        <4>1. PICK q \in ChainOf(a.id) : q.id = a.hash.prev /\ q.seq < a.seq
          BY <3>3, <3>5 DEF Linked
        <4>0. q \in log
          BY SameChain
        <4>2. p # q
          BY <3>0, <4>0, <4>1, <3>1, <2>2
        <4> QED BY <3>0, <4>0, <4>1, <4>2, <3>1, <3>2, <2>1, <2>2
      <3> QED BY <3>4, <3>5
    <2>4. Ahead(r, s) \/ Ahead(s, r)
      BY DEF AuditInv, LogOK
    <2> QED BY <2>0, <2>3, <2>4
  <1> QED BY <1>1, AuditInductive, PTL

(* Rollbacks leave no gap: a seq that is in the log has all smaller ones
   beside it.                                                              *)
THEOREM AuditDense == AuditSpec => []SeqsAreDense
  <1>1. AuditInv => SeqsAreDense
    <2> SUFFICES ASSUME AuditInv, NEW r \in log, NEW n \in 1..r.seq
                 PROVE  \E s \in ChainOf(r.id) : s.seq = n
      BY DEF SeqsAreDense
    <2>1. r.seq \in Nat /\ DenseBelow(r.id, r.seq)
      BY RowShape DEF AuditInv, AuditTypeOK, LogOK
    <2>2. r \in ChainOf(r.id)
      BY DEF ChainOf, Chain
    <2> QED BY <2>1, <2>2 DEF DenseBelow
  <1> QED BY <1>1, AuditInductive, PTL

-----------------------------------------------------------------------------
(* VerifyChain.  In a chain that is not forked the n-th row has seq n and is
   linked to the row before it; so a listing by seq is the chain.          *)

(* Row s is where the chain K says it should be. *)
InPlace(K, s) ==
    IF s.seq = 1 THEN s.hash.prev = Genesis
    ELSE \E p \in K : p.id = s.hash.prev /\ p.seq = s.seq - 1

(* What the invariant says of the rows of one chain. *)
LEMMA ChainRows ==
    ASSUME AuditInv, NEW c, NEW K, K = Chain(c)
    PROVE  /\ K \subseteq log /\ IsFiniteSet(K)
           /\ \A a \in K : a.id \in Ids /\ a.seq \in Nat /\ a.seq > 0 /\ a.id # Genesis
           /\ \A a \in K : a.hash = [content |-> a.hash.content, prev |-> a.hash.prev]
           /\ \A a, b \in K : a.id = b.id => a = b
           /\ \A a \in K : a.hash.prev = Genesis
                            \/ \E p \in K : p.id = a.hash.prev /\ p.seq < a.seq
           /\ \A a \in K : \A m \in 1..(a.seq - 1) : \E s \in K : s.seq = m
  <1>1. K \subseteq log
    BY DEF Chain
  <1>2. IsFiniteSet(K)
    BY <1>1, FS_Subset DEF AuditInv
  <1>3. ASSUME NEW a \in K PROVE ChainOf(a.id) = K
    BY <1>3 DEF ChainOf, Chain
  <1>4. \A a \in K : Linked(a) /\ DenseBelow(a.id, a.seq)
    BY <1>1 DEF AuditInv, LogOK
  <1>5. \A a \in K : a.hash.prev = Genesis \/ \E p \in K : p.id = a.hash.prev /\ p.seq < a.seq
    BY <1>3, <1>4 DEF Linked
  <1>6. \A a \in K : \A m \in 1..(a.seq - 1) : \E s \in K : s.seq = m
    BY <1>3, <1>4 DEF DenseBelow
  <1>7. /\ \A a \in K : a.id \in Ids /\ a.seq \in Nat /\ a.seq > 0 /\ a.id # Genesis
        /\ \A a \in K : a.hash = [content |-> a.hash.content, prev |-> a.hash.prev]
        /\ \A a, b \in K : a.id = b.id => a = b
    BY <1>1, RowShape, GenesisAssumption DEF AuditInv, AuditTypeOK, LogOK
  <1> QED BY <1>1, <1>2, <1>5, <1>6, <1>7

LEMMA ChainInPlace ==
    ASSUME AuditInv, NEW c, NEW K, K = Chain(c), ~Forked(c)
    PROVE  /\ \A s \in K : InPlace(K, s)
           /\ \A r, s \in K : r.seq = s.seq => r = s
  <1> DEFINE Good(n) == \A s \in K : s.seq = n =>
                           InPlace(K, s) /\ \A r \in K : r.seq = n => r = s
             Bad == {n \in Nat \ {0} : ~Good(n)}
  <1>0. /\ \A a \in K : a.id \in Ids /\ a.seq \in Nat /\ a.seq > 0 /\ a.id # Genesis
        /\ \A a, b \in K : a.id = b.id => a = b
        /\ \A a, b \in K : a.hash.prev = b.hash.prev => a = b
        /\ \A a \in K : a.hash.prev = Genesis
                         \/ \E p \in K : p.id = a.hash.prev /\ p.seq < a.seq
        /\ \A a \in K : \A m \in 1..(a.seq - 1) : \E r \in K : r.seq = m
    BY ChainRows DEF Forked
  <1>1. ASSUME Bad # {} PROVE FALSE
    <2>1. PICK n \in Bad : \A m \in Bad : n <= m
      <3>1. Bad \subseteq Nat
        OBVIOUS
      <3> HIDE DEF Bad
      <3> QED BY <1>1, <3>1, LeastElement
    <2>2. n \in Nat \ {0} /\ \A m \in Nat \ {0} : m < n => Good(m)
      <3>1. n \in Nat \ {0}
        BY <2>1
      <3>2. ASSUME NEW m \in Nat \ {0}, m < n PROVE Good(m)
        <4>1. m \notin Bad
          BY <2>1, <3>1, <3>2
        <4> QED BY <4>1
      <3> QED BY <3>1, <3>2
    <2>3. ASSUME NEW s \in K, s.seq = n PROVE InPlace(K, s)
      <3>1. CASE s.hash.prev = Genesis /\ n # 1
        <4>1. PICK r \in K : r.seq = 1
          BY <1>0, <2>2, <2>3, <3>1
        <4>2. InPlace(K, r)
          BY <2>2, <3>1, <4>1
        <4>3. r.hash.prev = Genesis
          BY <4>1, <4>2 DEF InPlace
        <4> QED BY <1>0, <2>3, <3>1, <4>1, <4>3
      <3>2. CASE s.hash.prev = Genesis /\ n = 1
        BY <2>3, <3>2 DEF InPlace
      <3>3. CASE s.hash.prev # Genesis
        <4>1. PICK p \in K : p.id = s.hash.prev /\ p.seq < n
          BY <1>0, <2>3, <3>3
        <4>2. CASE p.seq = n - 1
          <5>1. n # 1
            BY <1>0, <4>1, <4>2
          <5> QED BY <2>3, <4>1, <4>2, <5>1 DEF InPlace
        <4>3. CASE p.seq # n - 1
          <5>1. p.seq + 1 \in 1..(n - 1) /\ p.seq \in Nat /\ p.seq > 0
            BY <1>0, <2>2, <4>1, <4>3
          <5>2. PICK r \in K : r.seq = p.seq + 1
            BY <5>1, <1>0, <2>3
          <5>3. InPlace(K, r) /\ Good(p.seq)
            BY <5>1, <5>2, <2>2
          <5>4. PICK q \in K : q.id = r.hash.prev /\ q.seq = r.seq - 1
            BY <5>1, <5>2, <5>3 DEF InPlace
          <5>5. q = p
            BY <5>1, <5>2, <5>3, <5>4
          <5>6. r = s
            BY <1>0, <4>1, <5>4, <5>5
          <5> QED BY <5>1, <5>2, <5>6, <2>3, <4>3, <2>2
        <4> QED BY <4>2, <4>3
      <3> QED BY <3>1, <3>2, <3>3
    <2>4. ASSUME NEW s \in K, NEW r \in K, s.seq = n, r.seq = n PROVE r = s
      <3>1. InPlace(K, s) /\ InPlace(K, r)
        BY <2>3, <2>4
      <3>2. CASE n = 1
        BY <1>0, <2>4, <3>1, <3>2 DEF InPlace
      <3>3. CASE n # 1
        <4>1. PICK p \in K : p.id = s.hash.prev /\ p.seq = n - 1
          BY <2>4, <3>1, <3>3 DEF InPlace
        <4>2. PICK q \in K : q.id = r.hash.prev /\ q.seq = n - 1
          BY <2>4, <3>1, <3>3 DEF InPlace
        <4>3. n - 1 \in Nat \ {0} /\ n - 1 < n
          BY <2>2, <3>3
        <4>4. Good(n - 1)
          BY <2>2, <4>3
        <4>5. p = q
          BY <4>1, <4>2, <4>4
        <4> QED BY <1>0, <4>1, <4>2, <4>5
      <3> QED BY <3>2, <3>3
    <2>5. Good(n)
      BY <2>3, <2>4
    <2> QED BY <2>1, <2>5
  <1>2. \A n \in Nat \ {0} : Good(n)
    BY <1>1
  <1>3. ASSUME NEW s \in K PROVE Good(s.seq)
    BY <1>0, <1>2
  <1> QED BY <1>3

(* A listing shows every row once, in the order of the seqs. *)
LEMMA ListingShape ==
    ASSUME AuditInv, NEW c, NEW K, K = Chain(c), NEW o \in Listings(c)
    PROVE  /\ Cardinality(K) \in Nat
           /\ o \in [1..Cardinality(K) -> K]
           /\ DOMAIN o = 1..Cardinality(K)
           /\ \A m, n \in 1..Cardinality(K) : o[m] = o[n] => m = n
           /\ \A m, n \in 1..Cardinality(K) : m < n => o[m].seq <= o[n].seq
           /\ \A r \in K : \E n \in 1..Cardinality(K) : o[n] = r
  <1>1. IsFiniteSet(K)
    BY ChainRows
  <1>2. PICK k \in Nat : k = Cardinality(K)
    BY <1>1, FS_CardinalityType
  <1>3. /\ o \in [1..k -> K] /\ DOMAIN o = 1..k
        /\ \A m, n \in 1..k : o[m] = o[n] => m = n
        /\ \A m, n \in 1..k : m < n => o[m].seq <= o[n].seq
    BY <1>2 DEF Listings
  <1>4. o \in Injection(1..k, K)
    BY <1>3 DEF Injection, IsInjective
  <1>5. Cardinality(1..k) = IF 1 > k THEN 0 ELSE k - 1 + 1
    BY FS_Interval
  <1>6. Cardinality(1..k) = Cardinality(K)
    BY <1>2, <1>5
  <1>7. o \in Surjection(1..k, K)
    BY <1>1, <1>4, <1>6, FS_Injection
  <1>8. \A r \in K : \E n \in 1..k : o[n] = r
    BY <1>7 DEF Surjection
  <1> QED BY <1>2, <1>3, <1>8

(* Sorted, complete and without repetition: the n-th row has seq n. *)
LEMMA ListingBySeq ==
    ASSUME AuditInv, NEW c, NEW K, K = Chain(c), ~Forked(c), NEW o \in Listings(c)
    PROVE  \A n \in 1..Cardinality(K) : o[n].seq = n
  <1>1. PICK k \in Nat : k = Cardinality(K)
    BY ListingShape
  <1>2. /\ \A n \in 1..k : o[n] \in K /\ o[n].seq \in Nat /\ o[n].seq > 0
        /\ \A m, n \in 1..k : o[m] = o[n] => m = n
        /\ \A m, n \in 1..k : m < n => o[m].seq <= o[n].seq
        /\ \A r \in K : \E n \in 1..k : o[n] = r
    BY <1>1, ListingShape, ChainRows
  <1>3. \A r, s \in K : r.seq = s.seq => r = s
    BY ChainInPlace
  <1> DEFINE Bad == {n \in 1..k : o[n].seq # n}
  <1>4. ASSUME Bad # {} PROVE FALSE
    <2>1. PICK n \in Bad : \A m \in Bad : n <= m
      <3>1. Bad \subseteq Nat
        OBVIOUS
      <3> HIDE DEF Bad
      <3> QED BY <1>4, <3>1, LeastElement
    <2>2. n \in 1..k /\ o[n].seq # n /\ \A m \in 1..k : m < n => o[m].seq = m
      <3>1. n \in 1..k /\ o[n].seq # n
        BY <2>1
      <3>2. ASSUME NEW m \in 1..k, m < n PROVE o[m].seq = m
        <4>1. m \notin Bad
          BY <2>1, <3>1, <3>2
        <4> QED BY <4>1
      <3> QED BY <3>1, <3>2
    <2>3. o[n].seq > n
      <3>1. CASE n = 1
        BY <1>2, <2>2, <3>1
      <3>2. CASE n # 1
        <4>1. n - 1 \in 1..k /\ n - 1 < n
          BY <2>2, <3>2
        <4>2. o[n - 1].seq = n - 1 /\ o[n - 1].seq <= o[n].seq
          BY <1>2, <2>2, <4>1
        <4>3. o[n - 1].seq # o[n].seq
          BY <1>2, <1>3, <2>2, <4>1
        <4> QED BY <1>2, <2>2, <4>2, <4>3
      <3> QED BY <3>1, <3>2
    <2>4. PICK r \in K : r.seq = n
      <3>1. \A j \in 1..(o[n].seq - 1) : \E s \in K : s.seq = j
        BY <1>2, <2>2, ChainRows
      <3> QED BY <1>2, <2>2, <2>3, <3>1
    <2>5. PICK m \in 1..k : o[m] = r
      BY <1>2
    <2>6. CASE m < n
      BY <2>2, <2>4, <2>5, <2>6
    <2>7. CASE m = n
      BY <2>2, <2>4, <2>5, <2>7
    <2>8. CASE n < m
      <3>1. o[n].seq <= o[m].seq
        BY <1>2, <2>2, <2>5, <2>8
      <3> QED BY <1>2, <2>2, <2>3, <2>4, <2>5, <3>1
    <2> QED BY <2>2, <2>6, <2>7, <2>8
  <1> QED BY <1>1, <1>4

(* verifyOne complains of a seller's chain exactly when it is forked or a row
   does not read back as it was hashed, whichever order the database returns
   rows of one seq in.                                                     *)
LEMMA VerifyOneIsExact ==
    ASSUME AuditInv, NEW c, NEW K, K = Chain(c), NEW o \in Listings(c)
    PROVE  verifyOne(c, o) <=> ~Forked(c) /\ ~Altered(c)
  <1>0. PICK k \in Nat : k = Cardinality(K)
    BY ListingShape
  <1>1. /\ DOMAIN o = 1..k
        /\ \A n \in 1..k : o[n] \in K
        /\ \A m, n \in 1..k : o[m] = o[n] => m = n
        /\ \A r \in K : \E n \in 1..k : o[n] = r
    BY <1>0, ListingShape
  <1>2. /\ \A a \in K : a.id \in Ids /\ a.id # Genesis
        /\ \A a \in K : a.hash = [content |-> a.hash.content, prev |-> a.hash.prev]
        /\ \A a, b \in K : a.id = b.id => a = b
    BY ChainRows
  <1>3. verifyOne(c, o) <=> \A n \in 1..k :
           o[n].hash = [content |-> o[n].content, prev |-> IF n = 1 THEN Genesis ELSE o[n - 1].id]
    <2>1. CASE K = {}
      <3>1. 1..k = {}
        BY <2>1, <1>1
      <3> QED BY <2>1, <3>1 DEF verifyOne
    <2>2. CASE K # {}
      BY <2>2, <1>1 DEF verifyOne, VerifyChain, computeEventHash
    <2> QED BY <2>1, <2>2
  <1>4. ASSUME verifyOne(c, o) PROVE ~Forked(c) /\ ~Altered(c)
    <2>1. \A n \in 1..k : /\ o[n].hash.content = o[n].content
                          /\ o[n].hash.prev = IF n = 1 THEN Genesis ELSE o[n - 1].id
      <3>1. \A n \in 1..k :
               o[n].hash = [content |-> o[n].content, prev |-> IF n = 1 THEN Genesis ELSE o[n - 1].id]
        BY <1>3, <1>4
      <3> SUFFICES ASSUME NEW n \in 1..k
                   PROVE  /\ o[n].hash.content = o[n].content
                          /\ o[n].hash.prev = IF n = 1 THEN Genesis ELSE o[n - 1].id
        OBVIOUS
      <3>2. PICK p : p = IF n = 1 THEN Genesis ELSE o[n - 1].id
        OBVIOUS
      <3>3. o[n].hash = [content |-> o[n].content, prev |-> p]
        BY <3>1, <3>2
      <3> QED BY <3>2, <3>3
    <2>2. ~Altered(c)
      BY <1>1, <2>1 DEF Altered
    <2>3. ASSUME NEW r \in K, NEW s \in K, r.hash.prev = s.hash.prev PROVE r = s
      <3>1. PICK m \in 1..k : o[m] = r
        BY <1>1
      <3>2. PICK n \in 1..k : o[n] = s
        BY <1>1
      <3>3. CASE m = 1 \/ n = 1
        <4>1. m # 1 => o[m - 1] \in K
          BY <1>1, <3>1
        <4>2. n # 1 => o[n - 1] \in K
          BY <1>1, <3>2
        <4> QED BY <1>2, <2>1, <2>3, <3>1, <3>2, <3>3, <4>1, <4>2
      <3>4. CASE m # 1 /\ n # 1
        <4>1. m - 1 \in 1..k /\ n - 1 \in 1..k
          BY <3>1, <3>2, <3>4
        <4>2. o[m - 1].id = o[n - 1].id
          BY <2>1, <2>3, <3>1, <3>2, <3>4
        <4>3. o[m - 1] = o[n - 1]
          BY <1>1, <1>2, <4>1, <4>2
        <4>4. m - 1 = n - 1
          BY <1>1, <4>1, <4>3
        <4> QED BY <3>1, <3>2, <4>4
      <3> QED BY <3>3, <3>4
    <2> QED BY <2>2, <2>3 DEF Forked
  <1>5. ASSUME ~Forked(c), ~Altered(c) PROVE verifyOne(c, o)
    <2> SUFFICES ASSUME NEW n \in 1..k
                 PROVE  o[n].hash = [content |-> o[n].content,
                                     prev |-> IF n = 1 THEN Genesis ELSE o[n - 1].id]
      BY <1>3
    <2>1. o[n] \in K /\ o[n].hash.content = o[n].content
      BY <1>1, <1>5 DEF Altered
    <2>2. o[n].seq = n /\ InPlace(K, o[n])
      BY <1>0, <1>5, <2>1, ListingBySeq, ChainInPlace
    <2>3. CASE n = 1
      BY <1>2, <2>1, <2>2, <2>3 DEF InPlace
    <2>4. CASE n # 1
      <3>1. PICK p \in K : p.id = o[n].hash.prev /\ p.seq = n - 1
        BY <2>2, <2>4 DEF InPlace
      <3>2. n - 1 \in 1..k
        BY <2>4
      <3>3. o[n - 1] \in K /\ o[n - 1].seq = n - 1
        BY <1>0, <1>1, <1>5, <3>2, ListingBySeq
      <3>4. p = o[n - 1]
        BY <1>5, <3>1, <3>3, ChainInPlace
      <3> QED BY <1>2, <2>1, <2>4, <3>1, <3>4
    <2> QED BY <2>3, <2>4
  <1> QED BY <1>4, <1>5

(* VerifyAll names exactly the sellers whose chain is forked or has a row that
   does not read back as it was hashed.                                    *)
THEOREM AuditVerifier == AuditSpec => []VerifierIsExact
  <1>1. AuditInv => VerifierIsExact
    <2> SUFFICES ASSUME AuditInv, NEW l \in AllListings
                 PROVE  VerifyAll(l) = {c \in Sellers : Forked(c) \/ Altered(c)}
      BY DEF VerifierIsExact
    <2>1. \A c \in Sellers : l[c] \in Listings(c)
      BY DEF AllListings
    <2>2. \A c \in Sellers : verifyOne(c, l[c]) <=> ~Forked(c) /\ ~Altered(c)
      BY <2>1, VerifyOneIsExact
    <2>3. \A r \in log : SellerID[r.id] \in Sellers \cup {Platform}
      BY RowShape, SellerAssumption DEF AuditInv, AuditTypeOK
    <2>4. SellersWithEvents \subseteq Sellers
      BY <2>3 DEF SellersWithEvents
    <2>5. ASSUME NEW c \in Sellers, Forked(c) \/ Altered(c) PROVE c \in SellersWithEvents
      <3>1. PICK r \in Chain(c) : TRUE
        BY <2>5 DEF Forked, Altered
      <3>2. r \in log /\ SellerID[r.id] = c /\ c # Platform
        BY <3>1, SellerAssumption DEF Chain
      <3> QED BY <3>2 DEF SellersWithEvents
    <2> QED BY <2>2, <2>4, <2>5 DEF VerifyAll
  <1> QED BY <1>1, AuditInductive, PTL

-----------------------------------------------------------------------------
(* Config: one contract is active at a time, and an undisturbed sequence of
   calls leaves the settings in step with the contracts.                   *)

(* The active contract is stamped and its terms are in force. *)
InForce ==
    /\ \A c \in Contracts : contract[c] = "active" =>
          /\ override[Marker] = c
          /\ \A k \in Terms[c] : override[k] = c
    /\ (\A c \in Contracts : contract[c] # "active") => override[Marker] = Null

(* Half-way through a call the settings are not in force; how far they are
   follows from the step it is at.  "activate" promises nothing: the contract
   it superseded is still stamped.                                         *)
Reached(x) ==
    /\ x.step \in {"type", "create", "supersede", "terminate", "locking", "unlocking"} => InForce
    /\ x.step \in {"type", "create"} => contract[x.contract] = "none"
    /\ x.step = "terminate" => contract[x.contract] = "active"
    /\ x.step \in {"apply", "applied"} =>
          /\ contract[x.contract] = "active"
          /\ \A k \in Terms[x.contract] \ x.left : override[k] = x.contract
    /\ x.step \in {"remove", "removed"} => \A c \in Contracts : contract[c] # "active"
    /\ x.step \in {"apply", "remove"} => Marker \in x.left
    /\ x.step \in {"applied", "removed"} =>
          (x.key # Marker /\ Marker \in x.left) \/ (x.key = Marker /\ InForce)

OneAtATime == \A p, z \in Calls : UnderWay(p) /\ UnderWay(z) => p = z

CalmInv ==
    calm = TRUE =>
        /\ OneAtATime
        /\ Busy = FALSE => InForce
        /\ \A p \in Calls : Reached(call[p])

ConfigInv == ConfigTypeOK /\ calm \in BOOLEAN /\ CalmInv

-----------------------------------------------------------------------------
(* The shapes of a call. *)

Resting == {"new", "over"}

LEMMA CallShape ==
    ASSUME NEW x \in Call
    PROVE  /\ x.step \notin Resting => x.at \in Servers
           /\ x.step \notin Resting \cup {"locking", "unlocking"} => x.contract \in Contracts
           /\ x.step = "type" => x.to \in SellerTypes
           /\ x.step \in {"apply", "remove", "applied", "removed"} => x.left \in SUBSET Keys
           /\ x.step \in {"applied", "removed"} => x.key \in Keys
           /\ x.step \in {"locking", "unlocking"} => x.scope \in Scopes
  <1>1. CASE x \in [step : {"new", "over"}]
    BY <1>1 DEF Resting
  <1>2. CASE x \in [step : {"type"}, at : Servers, contract : Contracts, to : SellerTypes]
    BY <1>2 DEF Resting
  <1>3. CASE x \in [step : {"create", "supersede", "activate", "terminate"}, at : Servers,
                    contract : Contracts]
    BY <1>3 DEF Resting
  <1>4. CASE x \in [step : {"apply", "remove"}, at : Servers, contract : Contracts,
                    left : SUBSET Keys]
    BY <1>4 DEF Resting
  <1>5. CASE x \in [step : {"applied", "removed"}, at : Servers, contract : Contracts,
                    left : SUBSET Keys, key : Keys]
    BY <1>5 DEF Resting
  <1>6. CASE x \in [step : {"locking", "unlocking"}, at : Servers, scope : Scopes]
    BY <1>6 DEF Resting
  <1> QED BY <1>1, <1>2, <1>3, <1>4, <1>5, <1>6 DEF Call

LEMMA CallMakes ==
    /\ NotBegun \in Call /\ NotBegun.step = "new"
    /\ Over \in Call /\ Over.step = "over"
    /\ \A st \in {"create", "supersede", "activate", "terminate"}, s \in Servers, c \in Contracts :
          [step |-> st, at |-> s, contract |-> c] \in Call
    /\ \A s \in Servers, c \in Contracts, t \in SellerTypes :
          [step |-> "type", at |-> s, contract |-> c, to |-> t] \in Call
    /\ \A st \in {"apply", "remove"}, s \in Servers, c \in Contracts, L \in SUBSET Keys :
          [step |-> st, at |-> s, contract |-> c, left |-> L] \in Call
    /\ \A st \in {"applied", "removed"}, s \in Servers, c \in Contracts, L \in SUBSET Keys,
          k \in Keys : [step |-> st, at |-> s, contract |-> c, left |-> L, key |-> k] \in Call
    /\ \A st \in {"locking", "unlocking"}, s \in Servers, scope \in Scopes :
          [step |-> st, at |-> s, scope |-> scope] \in Call
  BY DEF Call, NotBegun, Over

LEMMA KeysHold ==
    /\ \A c \in Contracts : Terms[c] \subseteq Keys
    /\ Marker \in Keys /\ LimitKey \in Keys
  BY DEF Keys

(* A step that changes neither contracts nor rows keeps what they say. *)
LEMMA InForceKept ==
    ASSUME UNCHANGED <<contract, override>>
    PROVE  InForce' <=> InForce
  BY DEF InForce

(* Such a step that leaves the calls alone as well. *)
LEMMA CalmKept ==
    ASSUME CalmInv, UNCHANGED <<call, contract, override, calm>>
    PROVE  CalmInv'
  BY InForceKept DEF CalmInv, OneAtATime, Busy, UnderWay, Reached

-----------------------------------------------------------------------------
LEMMA InitConfigInv == ConfigInit => ConfigInv
  <1> SUFFICES ASSUME ConfigInit PROVE ConfigInv
    OBVIOUS
  <1>1. PICK c \in Contracts \cup {Null} :
          /\ contract = [d \in Contracts |-> IF d = c THEN "active" ELSE "none"]
          /\ override = [k \in Keys |->
                IF c # Null /\ k \in Terms[c] \cup {Marker} THEN c ELSE Null]
    BY DEF ConfigInit
  <1>2. ConfigTypeOK
    BY <1>1, CallMakes, ConfigAssumption DEF ConfigInit, ConfigTypeOK, ContractState
  <1>3. InForce
    BY <1>1, KeysHold, ConfigAssumption DEF InForce
  <1>4. \A p \in Calls : call[p].step = "new"
    BY CallMakes DEF ConfigInit
  <1>5. CalmInv
    BY <1>3, <1>4 DEF CalmInv, OneAtATime, UnderWay, Reached
  <1> QED BY <1>2, <1>5 DEF ConfigInv, ConfigInit

-----------------------------------------------------------------------------
(* What a step of call p, which leaves it at x, has to show. *)

LEMMA CallSet ==
    ASSUME ConfigTypeOK, NEW p \in Calls, NEW x \in Call,
           call' = [call EXCEPT ![p] = x]
    PROVE  /\ call' \in [Calls -> Call]
           /\ call'[p] = x
           /\ \A z \in Calls \ {p} : call'[z] = call[z]
  BY DEF ConfigTypeOK

(* The calm part of the invariant is about the one call that moves. *)
LEMMA CalmMoves ==
    ASSUME ConfigTypeOK, NEW p \in Calls, NEW x \in Call,
           call' = [call EXCEPT ![p] = x],
           calm' = TRUE => \A z \in Calls \ {p} : call[z].step \in Resting,
           calm' = TRUE => Reached(x)',
           calm' = TRUE /\ x.step \in Resting => InForce'
    PROVE  CalmInv'
  <1> SUFFICES ASSUME calm' = TRUE
               PROVE  (/\ OneAtATime
                       /\ Busy = FALSE => InForce
                       /\ \A z \in Calls : Reached(call[z]))'
    BY DEF CalmInv
  <1>1. \A z \in Calls \ {p} : call'[z].step \in Resting
    BY CallSet
  <1>2. call'[p] = x
    BY CallSet
  <1>3. OneAtATime'
    BY <1>1 DEF OneAtATime, UnderWay, Resting
  <1>4. (Busy = FALSE => InForce)'
    BY <1>2 DEF Busy, UnderWay, Resting
  <1>5. ASSUME NEW z \in Calls PROVE Reached(call[z])'
    <2>1. CASE z = p
      BY <2>1, <1>2 DEF Reached, InForce
    <2>2. CASE z # p
      BY <2>2, <1>1 DEF Reached, Resting
    <2> QED BY <2>1, <2>2
  <1> QED BY <1>3, <1>4, <1>5

LEMMA Alone ==
    ASSUME CalmInv, calm = TRUE, NEW p \in Calls, call[p].step \notin Resting
    PROVE  \A z \in Calls \ {p} : call[z].step \in Resting
  BY DEF CalmInv, OneAtATime, UnderWay, Resting

(* A step of a call that is under way and neither fails nor touches the locks. *)
LEMMA CallStep ==
    ASSUME ConfigInv, NEW p \in Calls, NEW x \in Call,
           call' = [call EXCEPT ![p] = x],
           call[p].step \notin Resting,
           sellerType' \in SellerTypes,
           contract' \in [Contracts -> ContractState],
           override' \in [Keys -> Contracts \cup {Null}],
           cache' \in [Servers -> Contracts \cup {Null}],
           \A c, d \in Contracts : contract'[c] = "active" /\ contract'[d] = "active" => c = d,
           calm = TRUE => Reached(x)',
           calm = TRUE /\ x.step \in Resting => InForce',
           UNCHANGED <<reader, locked, lockCache, calm>>
    PROVE  ConfigInv'
  <1>1. ConfigTypeOK'
    BY CallSet DEF ConfigInv, ConfigTypeOK
  <1>2. calm' = TRUE => \A z \in Calls \ {p} : call[z].step \in Resting
    BY Alone DEF ConfigInv
  <1>3. CalmInv'
    BY <1>2, CalmMoves DEF ConfigInv
  <1> QED BY <1>1, <1>3 DEF ConfigInv

(* Where a call is before its step. *)
LEMMA CallAt ==
    ASSUME ConfigInv, NEW p \in Calls
    PROVE  call[p] \in Call /\ (calm = TRUE => Reached(call[p]))
  BY DEF ConfigInv, ConfigTypeOK, CalmInv

-----------------------------------------------------------------------------
(* A call begins. *)

LEMMA BeginKeeps ==
    ASSUME ConfigInv, NEW p \in Calls, NEW x \in Call,
           x.step \in {"type", "supersede", "terminate", "locking", "unlocking"},
           call' = [call EXCEPT ![p] = x],
           calm' \in BOOLEAN,
           calm' = TRUE => /\ calm = TRUE
                           /\ Busy = FALSE
                           /\ x.step = "type" => contract[x.contract] = "none"
                           /\ x.step = "terminate" => contract[x.contract] = "active",
           locked' \subseteq Scopes,
           UNCHANGED <<sellerType, contract, override, lockCache, cache, reader>>
    PROVE  ConfigInv'
  <1>1. ConfigTypeOK'
    BY CallSet DEF ConfigInv, ConfigTypeOK
  <1>2. calm' = TRUE => InForce'
    <2>1. calm' = TRUE => InForce
      BY DEF ConfigInv, CalmInv
    <2> QED BY <2>1, InForceKept
  <1>3. calm' = TRUE => \A z \in Calls \ {p} : call[z].step \in Resting
    BY DEF Busy, UnderWay, Resting
  <1>4. calm' = TRUE => Reached(x)'
    BY <1>2 DEF Reached
  <1>5. CalmInv'
    BY <1>2, <1>3, <1>4, CalmMoves DEF ConfigInv
  <1> QED BY <1>1, <1>5 DEF ConfigInv

LEMMA CallsBegin ==
    ASSUME ConfigInv, NEW p \in Calls, NEW s \in Servers, CallBegins(p, s)
    PROVE  ConfigInv'
  <1>1. ASSUME NEW x \in Call, NEW orderly \in BOOLEAN, Begin(p, x, orderly)
        PROVE  /\ call' = [call EXCEPT ![p] = x]
               /\ calm' \in BOOLEAN
               /\ calm' = TRUE => calm = TRUE /\ Busy = FALSE /\ orderly = TRUE
    <2>1. PICK b \in BOOLEAN : b <=> Busy
      OBVIOUS
    <2>2. calm' = (calm /\ ~Busy /\ orderly) /\ calm \in BOOLEAN
      BY <1>1 DEF Begin, ConfigInv
    <2>3. call' = [call EXCEPT ![p] = x]
      BY <1>1 DEF Begin
    <2>4. Busy \in BOOLEAN
      BY DEF Busy
    <2> QED BY <2>2, <2>3, <2>4
  <1>2. ASSUME NEW scope \in Scopes, SetLock(p, s, scope) \/ RemoveLock(p, s, scope)
        PROVE  ConfigInv'
    <2>1. PICK st \in {"locking", "unlocking"} :
             /\ Begin(p, [step |-> st, at |-> s, scope |-> scope], TRUE)
             /\ locked' \in {locked \cup {scope}, locked \ {scope}}
             /\ UNCHANGED <<sellerType, contract, override, lockCache, cache, reader>>
      BY <1>2 DEF SetLock, RemoveLock, UpsertLock, DeleteLock
    <2> DEFINE x == [step |-> st, at |-> s, scope |-> scope]
    <2>2. x \in Call /\ x.step = st
      BY CallMakes
    <2>3. locked' \subseteq Scopes
      BY <2>1 DEF ConfigInv, ConfigTypeOK
    <2>4. Begin(p, x, TRUE)
      BY <2>1
    <2> HIDE DEF x
    <2> QED BY <1>1, <2>1, <2>2, <2>3, <2>4, BeginKeeps
  <1>3. ASSUME NEW c \in Contracts, NEW t \in SellerTypes, UpgradeToEnterprise(p, s, c, t)
        PROVE  ConfigInv'
    <2> DEFINE x == [step |-> "type", at |-> s, contract |-> c, to |-> t]
    <2>1. x \in Call /\ x.step = "type" /\ x.contract = c /\ contract[c] = "none"
      BY <1>3, CallMakes DEF UpgradeToEnterprise
    <2>2. Begin(p, x, TRUE)
      BY <1>3 DEF UpgradeToEnterprise
    <2>3. UNCHANGED <<sellerType, contract, override, locked, lockCache, cache, reader>>
      BY <1>3 DEF UpgradeToEnterprise, lockVars
    <2>4. locked' \subseteq Scopes
      BY <2>3 DEF ConfigInv, ConfigTypeOK
    <2> HIDE DEF x
    <2> QED BY <1>1, <2>1, <2>2, <2>3, <2>4, BeginKeeps
  <1>4. ASSUME NEW c \in Contracts, Activate(p, s, c) PROVE ConfigInv'
    <2> DEFINE x == [step |-> "supersede", at |-> s, contract |-> c]
    <2>1. x \in Call /\ x.step = "supersede"
      BY CallMakes
    <2>2. Begin(p, x, TRUE)
      BY <1>4 DEF Activate
    <2>3. UNCHANGED <<sellerType, contract, override, locked, lockCache, cache, reader>>
      BY <1>4 DEF Activate, lockVars
    <2>4. locked' \subseteq Scopes
      BY <2>3 DEF ConfigInv, ConfigTypeOK
    <2> HIDE DEF x
    <2> QED BY <1>1, <2>1, <2>2, <2>3, <2>4, BeginKeeps
  <1>5. ASSUME NEW c \in Contracts, Terminate(p, s, c) PROVE ConfigInv'
    <2> DEFINE x == [step |-> "terminate", at |-> s, contract |-> c]
    <2>1. x \in Call /\ x.step = "terminate" /\ x.contract = c
      BY CallMakes
    <2>2. PICK orderly \in BOOLEAN : orderly = (contract[c] = "active")
      OBVIOUS
    <2>3. Begin(p, x, orderly)
      BY <1>5, <2>2 DEF Terminate, Begin
    <2>4. UNCHANGED <<sellerType, contract, override, locked, lockCache, cache, reader>>
      BY <1>5 DEF Terminate, lockVars
    <2>5. locked' \subseteq Scopes
      BY <2>4 DEF ConfigInv, ConfigTypeOK
    <2> HIDE DEF x
    <2>6. /\ call' = [call EXCEPT ![p] = x]
          /\ calm' \in BOOLEAN
          /\ calm' = TRUE => calm = TRUE /\ Busy = FALSE /\ orderly = TRUE
      BY <1>1, <2>1, <2>3
    <2> QED BY <2>1, <2>2, <2>4, <2>5, <2>6, BeginKeeps
  <1> QED BY <1>2, <1>3, <1>4, <1>5 DEF CallBegins

-----------------------------------------------------------------------------
(* The steps that change the seller or a contract row. *)

LEMMA ChangeTypeKeeps ==
    ASSUME ConfigInv, NEW p \in Calls, ChangeType(p)
    PROVE  ConfigInv'
  <1>1. call[p] \in Call /\ call[p].step = "type" /\ (calm = TRUE => Reached(call[p]))
    BY CallAt DEF ChangeType
  <1>2. PICK s \in Servers, c \in Contracts, t \in SellerTypes :
           s = call[p].at /\ c = call[p].contract /\ t = call[p].to
    BY <1>1, CallShape DEF Resting
  <1> DEFINE x == [step |-> "create", at |-> s, contract |-> c]
  <1>3. x \in Call /\ x.step = "create" /\ x.contract = c
    BY CallMakes
  <1>4. /\ call' = [call EXCEPT ![p] = x]
        /\ sellerType' = t
        /\ UNCHANGED <<contract, override, cache, reader, locked, lockCache, calm>>
    BY <1>1, <1>2 DEF ChangeType, Proceed, lockVars, ConfigInv, ConfigTypeOK
  <1> HIDE DEF x
  <1>5. calm = TRUE => Reached(x)'
    BY <1>1, <1>2, <1>3, <1>4, InForceKept DEF Reached
  <1> QED BY <1>1, <1>3, <1>4, <1>5, CallStep DEF ConfigInv, ConfigTypeOK, Resting

LEMMA CreateKeeps ==
    ASSUME ConfigInv, NEW p \in Calls, Create(p)
    PROVE  ConfigInv'
  <1>1. call[p] \in Call /\ call[p].step = "create" /\ (calm = TRUE => Reached(call[p]))
    BY CallAt DEF Create
  <1>2. PICK s \in Servers, c \in Contracts : s = call[p].at /\ c = call[p].contract
    BY <1>1, CallShape DEF Resting
  <1> DEFINE x == [step |-> "supersede", at |-> s, contract |-> c]
  <1>3. x \in Call /\ x.step = "supersede"
    BY CallMakes
  <1>4. /\ call' = [call EXCEPT ![p] = x]
        /\ contract' = [contract EXCEPT ![c] = "draft"]
        /\ UNCHANGED <<sellerType, override, cache, reader, locked, lockCache, calm>>
    BY <1>1, <1>2 DEF Create, Proceed, lockVars, ConfigInv, ConfigTypeOK
  <1> HIDE DEF x
  <1>5. /\ contract' \in [Contracts -> ContractState]
        /\ \A d \in Contracts : contract'[d] = "active" => contract[d] = "active"
    BY <1>4 DEF ConfigInv, ConfigTypeOK, ContractState
  <1>6. calm = TRUE => Reached(x)'
    <2>1. calm = TRUE => contract[c] = "none" /\ InForce
      BY <1>1, <1>2 DEF Reached
    <2>2. calm = TRUE => \A d \in Contracts : contract'[d] = "active" <=> contract[d] = "active"
      BY <2>1, <1>4 DEF ConfigInv, ConfigTypeOK
    <2>3. calm = TRUE => InForce'
      BY <2>1, <2>2, <1>4 DEF InForce
    <2> QED BY <2>3, <1>3 DEF Reached
  <1>7. \A d, e \in Contracts : contract'[d] = "active" /\ contract'[e] = "active" => d = e
    BY <1>5 DEF ConfigInv, ConfigTypeOK
  <1> QED BY <1>1, <1>3, <1>4, <1>5, <1>6, <1>7, CallStep DEF ConfigInv, ConfigTypeOK, Resting

LEMMA SupersedeKeeps ==
    ASSUME ConfigInv, NEW p \in Calls, Supersede(p)
    PROVE  ConfigInv'
  <1>1. call[p] \in Call /\ call[p].step = "supersede"
    BY CallAt DEF Supersede
  <1>2. PICK s \in Servers, c \in Contracts : s = call[p].at /\ c = call[p].contract
    BY <1>1, CallShape DEF Resting
  <1> DEFINE x == [step |-> "activate", at |-> s, contract |-> c]
  <1>3. x \in Call /\ x.step = "activate"
    BY CallMakes
  <1>4. /\ call' = [call EXCEPT ![p] = x]
        /\ contract' \in {Superseded, contract}
        /\ UNCHANGED <<sellerType, override, cache, reader, locked, lockCache, calm>>
    BY <1>1, <1>2 DEF Supersede, Proceed, lockVars, ConfigInv, ConfigTypeOK
  <1> HIDE DEF x
  <1>5. /\ contract' \in [Contracts -> ContractState]
        /\ \A d \in Contracts : contract'[d] = "active" => contract[d] = "active"
    BY <1>4 DEF ConfigInv, ConfigTypeOK, ContractState, Superseded
  <1>6. Reached(x)'
    BY <1>3 DEF Reached
  <1>7. \A d, e \in Contracts : contract'[d] = "active" /\ contract'[e] = "active" => d = e
    BY <1>5 DEF ConfigInv, ConfigTypeOK
  <1> QED BY <1>1, <1>3, <1>4, <1>5, <1>6, <1>7, CallStep DEF ConfigInv, ConfigTypeOK, Resting

LEMMA MarkActiveKeeps ==
    ASSUME ConfigInv, NEW p \in Calls, MarkActive(p)
    PROVE  ConfigInv'
  <1>1. call[p] \in Call /\ call[p].step = "activate"
    BY CallAt DEF MarkActive
  <1>2. PICK s \in Servers, c \in Contracts : s = call[p].at /\ c = call[p].contract
    BY <1>1, CallShape DEF Resting
  <1> DEFINE x == [step |-> "apply", at |-> s, contract |-> c, left |-> Terms[c] \cup {Marker}]
  <1>3. x \in Call /\ x.step = "apply" /\ x.contract = c /\ x.left = Terms[c] \cup {Marker}
    BY CallMakes, KeysHold
  <1>4. /\ call' = [call EXCEPT ![p] = x]
        /\ contract' = [contract EXCEPT ![c] = "active"]
        /\ \A d \in Contracts \ {c} : contract[d] # "active"
        /\ UNCHANGED <<sellerType, override, cache, reader, locked, lockCache, calm>>
    BY <1>1, <1>2 DEF MarkActive, OneActive, Work, lockVars
  <1> HIDE DEF x
  <1>5. /\ contract' \in [Contracts -> ContractState]
        /\ contract'[c] = "active"
        /\ \A d \in Contracts : contract'[d] = "active" => d = c
    BY <1>4 DEF ConfigInv, ConfigTypeOK, ContractState
  <1>6. Reached(x)'
    BY <1>3, <1>5 DEF Reached
  <1> QED BY <1>1, <1>3, <1>4, <1>5, <1>6, CallStep DEF ConfigInv, ConfigTypeOK, Resting

LEMMA MarkTerminatedKeeps ==
    ASSUME ConfigInv, NEW p \in Calls, MarkTerminated(p)
    PROVE  ConfigInv'
  <1>1. call[p] \in Call /\ call[p].step = "terminate" /\ (calm = TRUE => Reached(call[p]))
    BY CallAt DEF MarkTerminated
  <1>2. PICK s \in Servers, c \in Contracts : s = call[p].at /\ c = call[p].contract
    BY <1>1, CallShape DEF Resting
  <1> DEFINE x == [step |-> "remove", at |-> s, contract |-> c, left |-> Terms[c] \cup {Marker}]
  <1>3. x \in Call /\ x.step = "remove" /\ Marker \in x.left
    BY CallMakes, KeysHold
  <1>4. /\ call' = [call EXCEPT ![p] = x]
        /\ contract' = [contract EXCEPT ![c] = IF @ = "active" THEN "terminated" ELSE @]
        /\ UNCHANGED <<sellerType, override, cache, reader, locked, lockCache, calm>>
    BY <1>1, <1>2 DEF MarkTerminated, Work, lockVars
  <1> HIDE DEF x
  <1>5. /\ contract' \in [Contracts -> ContractState]
        /\ contract'[c] # "active"
        /\ \A d \in Contracts : contract'[d] = "active" => contract[d] = "active"
    BY <1>4 DEF ConfigInv, ConfigTypeOK, ContractState
  <1>6. calm = TRUE => Reached(x)'
    <2>1. calm = TRUE => contract[c] = "active"
      BY <1>1, <1>2 DEF Reached
    <2>2. calm = TRUE => \A d \in Contracts : contract'[d] # "active"
      BY <2>1, <1>5 DEF ConfigInv, ConfigTypeOK
    <2> QED BY <2>2, <1>3 DEF Reached
  <1>7. \A d, e \in Contracts : contract'[d] = "active" /\ contract'[e] = "active" => d = e
    BY <1>5 DEF ConfigInv, ConfigTypeOK
  <1> QED BY <1>1, <1>3, <1>4, <1>5, <1>6, <1>7, CallStep DEF ConfigInv, ConfigTypeOK, Resting

-----------------------------------------------------------------------------
(* The steps that write an override, and the ones that write the cache. *)

LEMMA ApplyTermKeeps ==
    ASSUME ConfigInv, NEW p \in Calls, NEW k \in Keys, ApplyTerm(p, k)
    PROVE  ConfigInv'
  <1>1. call[p] \in Call /\ call[p].step = "apply" /\ (calm = TRUE => Reached(call[p]))
    BY CallAt DEF ApplyTerm
  <1>2. PICK s \in Servers, c \in Contracts, L \in SUBSET Keys :
           s = call[p].at /\ c = call[p].contract /\ L = call[p].left
    BY <1>1, CallShape DEF Resting
  <1> DEFINE x == [step |-> "applied", at |-> s, contract |-> c, left |-> L \ {k}, key |-> k]
  <1>3. /\ x \in Call /\ x.step = "applied" /\ x.contract = c /\ x.left = L \ {k} /\ x.key = k
    BY CallMakes
  <1>4. /\ call' = [call EXCEPT ![p] = x]
        /\ override' = [override EXCEPT ![k] = c]
        /\ k \in L /\ (k = Marker => L = {Marker})
        /\ UNCHANGED <<sellerType, contract, cache, reader, locked, lockCache, calm>>
    BY <1>1, <1>2 DEF ApplyTerm, SetSellerOverride, UpsertSellerOverride, Turn, Wrote, lockVars
  <1> HIDE DEF x
  <1>5. /\ override' \in [Keys -> Contracts \cup {Null}]
        /\ override'[k] = c
        /\ \A j \in Keys \ {k} : override'[j] = override[j]
    BY <1>4 DEF ConfigInv, ConfigTypeOK
  <1>6. calm = TRUE => Reached(x)'
    <2> SUFFICES ASSUME calm = TRUE PROVE Reached(x)'
      OBVIOUS
    <2>1. contract[c] = "active" /\ Marker \in L /\ \A j \in Terms[c] \ L : override[j] = c
      BY <1>1, <1>2 DEF Reached
    <2>2. \A j \in Terms[c] \ (L \ {k}) : override'[j] = c
      BY <2>1, <1>5, KeysHold
    <2>3. CASE k # Marker
      BY <2>1, <2>2, <2>3, <1>3, <1>4 DEF Reached
    <2>4. CASE k = Marker
      <3>1. \A j \in Terms[c] : override'[j] = c
        BY <2>2, <2>4, <1>4, ConfigAssumption
      <3>2. \A d \in Contracts : contract'[d] = "active" => d = c
        BY <2>1, <1>4 DEF ConfigInv, ConfigTypeOK
      <3>3. InForce'
        BY <2>1, <2>4, <3>1, <3>2, <1>4, <1>5 DEF InForce
      <3> QED BY <2>1, <2>2, <2>4, <3>3, <1>3, <1>4 DEF Reached
    <2> QED BY <2>3, <2>4
  <1>7. \A d, e \in Contracts : contract'[d] = "active" /\ contract'[e] = "active" => d = e
    BY <1>4 DEF ConfigInv, ConfigTypeOK
  <1>8. sellerType' \in SellerTypes /\ contract' \in [Contracts -> ContractState]
        /\ cache' \in [Servers -> Contracts \cup {Null}]
    BY <1>4 DEF ConfigInv, ConfigTypeOK
  <1>9. /\ call' = [call EXCEPT ![p] = x] /\ x \in Call /\ call[p].step \notin {"new", "over"}
        /\ override' \in [Keys -> Contracts \cup {Null}]
        /\ UNCHANGED <<reader, locked, lockCache, calm>>
        /\ x.step \notin {"new", "over"}
    BY <1>1, <1>3, <1>4, <1>5
  <1> QED BY <1>6, <1>7, <1>8, <1>9, CallStep DEF Resting

LEMMA RemoveTermKeeps ==
    ASSUME ConfigInv, NEW p \in Calls, NEW k \in Keys, RemoveTerm(p, k)
    PROVE  ConfigInv'
  <1>1. call[p] \in Call /\ call[p].step = "remove" /\ (calm = TRUE => Reached(call[p]))
    BY CallAt DEF RemoveTerm
  <1>2. PICK s \in Servers, c \in Contracts, L \in SUBSET Keys :
           s = call[p].at /\ c = call[p].contract /\ L = call[p].left
    BY <1>1, CallShape DEF Resting
  <1> DEFINE x == [step |-> "removed", at |-> s, contract |-> c, left |-> L \ {k}, key |-> k]
  <1>3. /\ x \in Call /\ x.step = "removed" /\ x.left = L \ {k} /\ x.key = k
    BY CallMakes
  <1>4. /\ call' = [call EXCEPT ![p] = x]
        /\ override' = [override EXCEPT ![k] = Null]
        /\ UNCHANGED <<sellerType, contract, cache, reader, locked, lockCache, calm>>
    BY <1>1, <1>2 DEF RemoveTerm, RemoveSellerOverride, DeleteSellerOverride, Wrote, lockVars
  <1> HIDE DEF x
  <1>5. override' \in [Keys -> Contracts \cup {Null}] /\ override'[k] = Null
    BY <1>4 DEF ConfigInv, ConfigTypeOK
  <1>6. calm = TRUE => Reached(x)'
    <2> SUFFICES ASSUME calm = TRUE PROVE Reached(x)'
      OBVIOUS
    <2>1. Marker \in L /\ \A d \in Contracts : contract'[d] # "active"
      BY <1>1, <1>2, <1>4 DEF Reached
    <2>2. k = Marker => InForce'
      BY <2>1, <1>5 DEF InForce
    <2> QED BY <2>1, <2>2, <1>3 DEF Reached
  <1> QED BY <1>1, <1>3, <1>4, <1>5, <1>6, CallStep DEF ConfigInv, ConfigTypeOK, Resting

LEMMA CacheStepKeeps ==
    ASSUME ConfigInv, NEW p \in Calls, TermCached(p) \/ TermInvalidated(p)
    PROVE  ConfigInv'
  <1>1. /\ call[p] \in Call /\ call[p].step \in {"applied", "removed"}
        /\ calm = TRUE => Reached(call[p])
    BY CallAt DEF TermCached, TermInvalidated
  <1>2. PICK s \in Servers, c \in Contracts, L \in SUBSET Keys, k \in Keys :
           s = call[p].at /\ c = call[p].contract /\ L = call[p].left /\ k = call[p].key
    BY <1>1, CallShape DEF Resting
  <1>3. PICK st \in {"apply", "remove"} :
           /\ st = IF call[p].step = "applied" THEN "apply" ELSE "remove"
           /\ call' = [call EXCEPT ![p] = NextKey(p, st)]
           /\ UNCHANGED <<sellerType, contract, override, reader, locked, lockCache, calm>>
    BY <1>1 DEF TermCached, TermInvalidated, lockVars
  <1>4. cache' \in [Servers -> Contracts \cup {Null}]
    BY <1>2 DEF TermCached, TermInvalidated, InvalidateSeller, CacheOverride, ConfigInv, ConfigTypeOK
  <1> DEFINE y == [step |-> st, at |-> s, contract |-> c, left |-> L]
  <1>5. y \in Call /\ y.step = st /\ y.contract = c /\ y.left = L
    BY CallMakes
  <1>6. NextKey(p, st) = IF k = Marker THEN Over ELSE y
    BY <1>2 DEF NextKey, Work
  <1> HIDE DEF y
  <1>7. CASE k = Marker
    <2>1. calm = TRUE => InForce'
      <3>2. calm = TRUE => InForce
        BY <1>1, <1>2, <1>7 DEF Reached
      <3> QED BY <3>2, <1>3, InForceKept
    <2>2. Reached(Over)'
      BY CallMakes DEF Reached, Over
    <2> QED BY <1>1, <1>3, <1>4, <1>6, <1>7, <2>1, <2>2, CallMakes, CallStep
            DEF ConfigInv, ConfigTypeOK, Resting
  <1>8. CASE k # Marker
    <2>1. calm = TRUE => Reached(y)'
      BY <1>1, <1>2, <1>3, <1>5, <1>8 DEF Reached
    <2> QED BY <1>1, <1>3, <1>4, <1>5, <1>6, <1>8, <2>1, CallStep
            DEF ConfigInv, ConfigTypeOK, Resting
  <1> QED BY <1>7, <1>8

LEMMA LockCachedKeeps ==
    ASSUME ConfigInv, NEW p \in Calls, LockCached(p)
    PROVE  ConfigInv'
  <1>1. /\ call[p] \in Call /\ call[p].step \in {"locking", "unlocking"}
        /\ calm = TRUE => Reached(call[p])
    BY CallAt DEF LockCached
  <1>2. call[p].at \in Servers /\ call[p].scope \in Scopes
    BY <1>1, CallShape DEF Resting
  <1>3. /\ call' = [call EXCEPT ![p] = Over]
        /\ lockCache' \in [Servers -> SUBSET Scopes]
        /\ UNCHANGED <<sellerType, contract, override, locked, cache, reader, calm>>
    BY <1>2 DEF LockCached, CacheLock, ForgetLock, ConfigInv, ConfigTypeOK
  <1>4. ConfigTypeOK'
    BY <1>3, CallSet, CallMakes DEF ConfigInv, ConfigTypeOK
  <1>5. calm = TRUE => InForce'
    BY <1>1, <1>3, InForceKept DEF Reached
  <1>6. calm' = TRUE => \A z \in Calls \ {p} : call[z].step \in Resting
    BY <1>1, <1>3, Alone DEF ConfigInv, Resting
  <1>7. Reached(Over)'
    BY CallMakes DEF Reached, Over
  <1>8. CalmInv'
    BY <1>3, <1>5, <1>6, <1>7, CallMakes, CalmMoves DEF ConfigInv
  <1> QED BY <1>3, <1>4, <1>8 DEF ConfigInv

(* Errors: the run is calm no longer. *)
LEMMA FailuresKeep ==
    ASSUME ConfigInv, NEW p \in Calls,
           CallFails(p) \/ \E k \in Keys : RemoveTermFails(p, k)
    PROVE  ConfigInv'
  <1>1. call' \in [Calls -> Call]
    <2>1. CASE CallFails(p)
      BY <2>1, CallSet, CallMakes DEF CallFails, ConfigInv
    <2>2. ASSUME NEW k \in Keys, RemoveTermFails(p, k) PROVE call' \in [Calls -> Call]
      <3>1. call[p] \in Call /\ call[p].step = "remove"
        BY <2>2, CallAt DEF RemoveTermFails
      <3>2. PICK s \in Servers, c \in Contracts, L \in SUBSET Keys :
               s = call[p].at /\ c = call[p].contract /\ L = call[p].left
        BY <3>1, CallShape DEF Resting
      <3> DEFINE y == [step |-> "remove", at |-> s, contract |-> c, left |-> L \ {k}]
      <3>3. y \in Call /\ Work(p, "remove", call[p].left \ {k}) = y
        BY <3>2, CallMakes DEF Work
      <3> HIDE DEF y
      <3>4. PICK x \in Call : call' = [call EXCEPT ![p] = x]
        BY <2>2, <3>3, CallMakes DEF RemoveTermFails
      <3> QED BY <3>4, CallSet DEF ConfigInv
    <2> QED BY <2>1, <2>2
  <1>2. /\ calm' = FALSE
        /\ UNCHANGED <<sellerType, contract, override, cache, reader, locked, lockCache>>
    BY DEF CallFails, RemoveTermFails, lockVars
  <1>3. ConfigTypeOK'
    BY <1>1, <1>2 DEF ConfigInv, ConfigTypeOK
  <1>4. CalmInv'
    BY <1>2 DEF CalmInv
  <1> QED BY <1>2, <1>3, <1>4 DEF ConfigInv

-----------------------------------------------------------------------------
(* Expiry, restarts and lookups. *)

LEMMA ExpiryKeeps ==
    ASSUME ConfigInv, NEW s \in Servers,
           OverrideExpires(s) \/ \E scope \in Scopes : LockExpires(s, scope)
    PROVE  ConfigInv'
  <1>1. UNCHANGED <<sellerType, contract, call, reader, override, calm, locked>>
    BY DEF OverrideExpires, LockExpires, lockVars
  <1>2. /\ lockCache' \in [Servers -> SUBSET Scopes]
        /\ cache' \in [Servers -> Contracts \cup {Null}]
    BY DEF OverrideExpires, LockExpires, ForgetLock, lockVars, ConfigInv, ConfigTypeOK
  <1>3. ConfigTypeOK'
    BY <1>1, <1>2 DEF ConfigInv, ConfigTypeOK
  <1>4. CalmInv'
    BY <1>1, CalmKept DEF ConfigInv
  <1> QED BY <1>1, <1>3, <1>4 DEF ConfigInv

LEMMA RestartKeeps ==
    ASSUME ConfigInv, NEW s \in Servers, Restart(s)
    PROVE  ConfigInv'
  <1>1. /\ UNCHANGED <<sellerType, contract, override, locked>>
        /\ lockCache' = [lockCache EXCEPT ![s] = locked]
        /\ cache' = [cache EXCEPT ![s] = Null]
        /\ call' = [p \in Calls |-> IF UnderWay(p) /\ call[p].at = s THEN Over ELSE call[p]]
        /\ reader' = [q \in Requests |->
                         IF reader[q] # Null /\ reader[q].at = s THEN Null ELSE reader[q]]
    BY DEF Restart, WarmCache, BulkSetLocks, ListAllLocks
  <1>2. call' \in [Calls -> Call]
    BY <1>1, CallMakes DEF ConfigInv, ConfigTypeOK
  <1>3. ConfigTypeOK'
    BY <1>1, <1>2 DEF ConfigInv, ConfigTypeOK
  <1>4. calm' \in BOOLEAN /\ (calm' = TRUE => calm = TRUE /\ call' = call)
    BY DEF Restart, ConfigInv
  <1>5. CalmInv'
    <2>1. CASE calm' = TRUE
      BY <1>1, <1>4, <2>1, CalmKept DEF ConfigInv
    <2>2. CASE calm' # TRUE
      BY <2>2 DEF CalmInv
    <2> QED BY <2>1, <2>2
  <1> QED BY <1>3, <1>4, <1>5 DEF ConfigInv

LEMMA LookupKeeps ==
    ASSUME ConfigInv, NEW q \in Requests, Promote(q) \/ \E s \in Servers : Resolve(q, s)
    PROVE  ConfigInv'
  <1>1. UNCHANGED <<sellerType, contract, call, override, calm, locked, lockCache>>
    BY DEF Resolve, Promote, lockVars
  <1>2. /\ reader' \in [Requests -> [at : Servers, value : Contracts] \cup {Null}]
        /\ cache' \in [Servers -> Contracts \cup {Null}]
    <2>1. CASE Promote(q)
      <3>1. reader[q] \in [at : Servers, value : Contracts]
        BY <2>1 DEF Promote, ConfigInv, ConfigTypeOK
      <3>2. reader[q].value \in Contracts
        BY <3>1
      <3> QED BY <2>1, <3>2 DEF Promote, ConfigInv, ConfigTypeOK
    <2>2. ASSUME NEW s \in Servers, Resolve(q, s)
          PROVE  /\ reader' \in [Requests -> [at : Servers, value : Contracts] \cup {Null}]
                 /\ cache' \in [Servers -> Contracts \cup {Null}]
      <3>1. override[LimitKey] \in Contracts
        BY <2>2, KeysHold DEF Resolve, FromRow, ConfigInv, ConfigTypeOK
      <3>2. [at |-> s, value |-> override[LimitKey]] \in [at : Servers, value : Contracts]
        BY <3>1
      <3> QED BY <2>2, <3>2 DEF Resolve, ConfigInv, ConfigTypeOK
    <2> QED BY <2>1, <2>2
  <1>3. ConfigTypeOK'
    BY <1>1, <1>2 DEF ConfigInv, ConfigTypeOK
  <1>4. CalmInv'
    BY <1>1, CalmKept DEF ConfigInv
  <1> QED BY <1>1, <1>3, <1>4 DEF ConfigInv

-----------------------------------------------------------------------------
LEMMA NextConfigInv == ConfigInv /\ [ConfigNext]_configVars => ConfigInv'
  <1> SUFFICES ASSUME ConfigInv, [ConfigNext]_configVars PROVE ConfigInv'
    OBVIOUS
  <1>1. CASE UNCHANGED configVars
    <2>1. UNCHANGED <<sellerType, contract, override, locked, lockCache, cache, call,
                      reader, calm>>
      BY <1>1 DEF configVars
    <2>2. ConfigTypeOK'
      BY <2>1 DEF ConfigInv, ConfigTypeOK
    <2> QED BY <2>1, <2>2, CalmKept DEF ConfigInv
  <1>2. ASSUME NEW p \in Calls, ContractStep(p) PROVE ConfigInv'
    BY <1>2, ChangeTypeKeeps, CreateKeeps, SupersedeKeeps, MarkActiveKeeps, MarkTerminatedKeeps,
       CacheStepKeeps, LockCachedKeeps, ApplyTermKeeps, RemoveTermKeeps, FailuresKeep
    DEF ContractStep
  <1> QED BY <1>1, <1>2, CallsBegin, ExpiryKeeps, RestartKeeps, LookupKeeps DEF ConfigNext

(* On every behaviour of any number of servers, contracts and calls: at most
   one contract is active, and while calls neither overlap nor fail the
   settings follow the contracts, whichever server ran which call.         *)
THEOREM ConfigContracts == ConfigSpec => [](ConfigTypeOK /\ CalmContractInForce)
  <1>1. ConfigSpec => []ConfigInv
    BY InitConfigInv, NextConfigInv, PTL DEF ConfigSpec
  <1>2. ConfigInv => ConfigTypeOK /\ CalmContractInForce
    <2> SUFFICES ASSUME ConfigInv PROVE ConfigTypeOK /\ CalmContractInForce
      OBVIOUS
    <2>1. calm /\ ~Busy => InForce
      BY DEF ConfigInv, CalmInv, Busy
    <2> QED BY <2>1 DEF ConfigInv, CalmContractInForce, InForce
  <1> QED BY <1>1, <1>2, PTL
=============================================================================
