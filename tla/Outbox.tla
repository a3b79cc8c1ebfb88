------------------------------- MODULE Outbox -------------------------------
(***************************************************************************)
(* The transactional outbox (backend/internal/outbox).  A domain           *)
(* transaction inserts an outbox_event row (Emit).  Every forwarder        *)
(* process, twice a second, claims the oldest pending rows and marks them  *)
(* enqueued in one transaction, and only then inserts the River jobs.      *)
(* River (external) runs a job until its worker returns no error or its    *)
(* attempts are used up.                                                   *)
(*                                                                         *)
(* No row is ever deleted, and an event id is drawn once (uuid.New).       *)
(***************************************************************************)
EXTENDS Naturals, Sequences, FiniteSets

CONSTANTS
    Events,       \* event ids that transactions can draw
    Handled,      \* those whose kind has a handler in the Registry
    Forwarders,   \* forwarder processes
    BatchSize,    \* defaultBatchSize
    MaxAttempts,  \* attempts River gives a job
    MaxCrashes    \* bound: forwarder crashes and failed River inserts

ASSUME OutboxAssumption ==
    /\ Handled \subseteq Events
    /\ BatchSize \in Nat \ {0}
    /\ MaxAttempts \in Nat \ {0}
    /\ MaxCrashes \in Nat

VARIABLES
    created,   \* event ids by created_at, which is when their tx began
    row,       \* the row of each event
    hand,      \* each forwarder: its step in forward() and its events
    sent,      \* River jobs inserted for each event
    job,       \* state of the event's job
    attempt,   \* failed attempts of the job
    ran,       \* how often the handler ran to its end
    crashes    \* counts up to MaxCrashes

outboxVars == <<created, row, hand, sent, job, attempt, ran, crashes>>

RowState == {"none", "open", "pending", "enqueued", "rolled_back"}
JobState == {"none", "available", "completed", "discarded"}
HandState == [step : {"idle", "listed", "marked"}, batch : SUBSET Events]
Empty == [step |-> "idle", batch |-> {}]

OutboxInit ==
    /\ created = <<>>
    /\ row = [e \in Events |-> "none"]
    /\ hand = [f \in Forwarders |-> Empty]
    /\ sent = [e \in Events |-> 0]
    /\ job = [e \in Events |-> "none"]
    /\ attempt = [e \in Events |-> 0]
    /\ ran = [e \in Events |-> 0]
    /\ crashes = 0

-----------------------------------------------------------------------------
(* emitter.go *)

(* The INSERT inside the caller's transaction, not yet visible to others. *)
Emit(e) ==
    /\ row[e] = "none"
    /\ created' = Append(created, e)
    /\ row' = [row EXCEPT ![e] = "open"]
    /\ UNCHANGED <<hand, sent, job, attempt, ran, crashes>>

(* The caller's transaction ends, and the row with it. *)
EndTx(e, st) ==
    /\ row[e] = "open"
    /\ row' = [row EXCEPT ![e] = st]
    /\ UNCHANGED <<created, hand, sent, job, attempt, ran, crashes>>

-----------------------------------------------------------------------------
(* repo.go, forwarder.go *)

Locked == UNION {hand[f].batch : f \in {g \in Forwarders : hand[g].step = "listed"}}

(* FOR UPDATE forgotten: a row another forwarder is looking at is listed. *)
ClaimableBug == {e \in Events : row[e] = "pending"}

(* WHERE enqueued_at IS NULL ... FOR UPDATE SKIP LOCKED *)
Claimable == {e \in Events : row[e] = "pending" /\ e \notin Locked}

Before(d, e) ==
    \E i, j \in 1..Len(created) : i < j /\ created[i] = d /\ created[j] = e

(* The LIMIT counts the rows that are already marked. *)
OldestBug(S) == {e \in S : Cardinality({d \in Events : Before(d, e)}) < BatchSize}

(* ORDER BY created_at ASC LIMIT n *)
Oldest(S) == {e \in S : Cardinality({d \in S : Before(d, e)}) < BatchSize}

(* An empty result rolls back and ends the poll. *)
ListPending(f) ==
    /\ hand[f].step = "idle"
    /\ Claimable # {}
    /\ hand' = [hand EXCEPT ![f] = [step |-> "listed", batch |-> Oldest(Claimable)]]
    /\ UNCHANGED <<created, row, sent, job, attempt, ran, crashes>>

MarkEnqueued(f) ==
    /\ hand[f].step = "listed"
    /\ row' = [e \in Events |-> IF e \in hand[f].batch THEN "enqueued" ELSE row[e]]
    /\ hand' = [hand EXCEPT ![f].step = "marked"]
    /\ UNCHANGED <<created, sent, job, attempt, ran, crashes>>

(* The loop over the batch sends its first event only. *)
BatchJobsBug(f) == {CHOOSE e \in hand[f].batch : TRUE}

(* The loop that turns the batch into InsertManyParams. *)
BatchJobs(f) == hand[f].batch

(* riverClient.InsertMany is one statement: all jobs or none. *)
InsertMany(f) ==
    /\ hand[f].step = "marked"
    /\ sent' = [e \in Events |-> IF e \in BatchJobs(f) THEN sent[e] + 1 ELSE sent[e]]
    /\ job' = [e \in Events |-> IF e \in BatchJobs(f) THEN "available" ELSE job[e]]
    /\ hand' = [hand EXCEPT ![f] = Empty]
    /\ UNCHANGED <<created, row, attempt, ran, crashes>>

(* An error from the database, or the process dies and a new one starts.
   Whatever the transaction of listAndMarkPending had not committed is
   undone; what it had committed is not.                                   *)
Crash(f) ==
    /\ hand[f].step # "idle"
    /\ crashes < MaxCrashes
    /\ crashes' = crashes + 1
    /\ hand' = [hand EXCEPT ![f] = Empty]
    /\ UNCHANGED <<created, row, sent, job, attempt, ran>>

-----------------------------------------------------------------------------
(* worker.go, registry.go: DispatchWorker.Work, as River runs it *)

Exhausted(n) == n = MaxAttempts

Dispatch(e) ==
    /\ job[e] = "available"
    /\ e \in Handled
    /\ ran' = [ran EXCEPT ![e] = @ + 1]
    /\ job' = [job EXCEPT ![e] = "completed"]
    /\ UNCHANGED <<created, row, hand, sent, attempt, crashes>>

(* No handler, the handler's error, or a worker that dies after the handler
   did its work and before River heard of it: River tries again.           *)
DispatchFails(e) ==
    /\ job[e] = "available"
    /\ attempt' = [attempt EXCEPT ![e] = @ + 1]
    /\ job' = [job EXCEPT ![e] = IF Exhausted(attempt'[e]) THEN "discarded" ELSE @]
    /\ \/ UNCHANGED ran
       \/ /\ e \in Handled
          /\ ran' = [ran EXCEPT ![e] = @ + 1]
    /\ UNCHANGED <<created, row, hand, sent, crashes>>

ForwarderStep(f) == ListPending(f) \/ MarkEnqueued(f) \/ InsertMany(f)
WorkerStep(e) == Dispatch(e) \/ DispatchFails(e)

OutboxNext ==
    \/ \E e \in Events :
          \/ Emit(e)
          \/ EndTx(e, "pending")
          \/ EndTx(e, "rolled_back")
          \/ WorkerStep(e)
    \/ \E f \in Forwarders : ForwarderStep(f) \/ Crash(f)

OutboxSpec == OutboxInit /\ [][OutboxNext]_outboxVars

(* The forwarder's ticker never stops and River polls its queue for ever.
   Nobody owes us an Emit or the end of a transaction.                     *)
OutboxFairness ==
    /\ \A f \in Forwarders : WF_outboxVars(ForwarderStep(f))
    /\ \A e \in Events : WF_outboxVars(WorkerStep(e))

-----------------------------------------------------------------------------
OutboxTypeOK ==
    /\ created \in Seq(Events)
    /\ row \in [Events -> RowState]
    /\ hand \in [Forwarders -> HandState]
    /\ sent \in [Events -> Nat]
    /\ job \in [Events -> JobState]
    /\ attempt \in [Events -> 0..MaxAttempts]
    /\ ran \in [Events -> 0..MaxAttempts]
    /\ crashes \in 0..MaxCrashes

(* The outbox implements the at-most-once channel: SKIP LOCKED keeps two
   forwarders from claiming the same row, and the mark keeps a later poll
   from claiming it again.                                                 *)
Marked == {e \in Events : row[e] = "enqueued"}
C == INSTANCE Channel WITH
        waiting <- {e \in Events : row[e] = "pending"},
        taken <- {e \in Marked : sent[e] = 0},
        copies <- sent
AtMostOnce == C!ChannelSpec

(* An event that left the table without a job is in the hands of a
   forwarder, or a crash or failed insert let it fall: forward() drops
   nothing by itself, whatever the other forwarders do.                    *)
LostOnlyByCrash ==
    LET adrift == {e \in Marked : sent[e] = 0 /\
                      \A f \in Forwarders : e \notin hand[f].batch}
    IN  Cardinality(adrift) <= crashes * BatchSize

(* A committed event is eventually taken off the table, however many the
   batches; and if no crash comes in between, its job comes to an end:
   completed, or discarded after its last attempt.                         *)
CommittedIsDelivered ==
    \A e \in Events :
        row[e] = "pending" ~>
            \/ job[e] \in {"completed", "discarded"}
            \/ row[e] = "enqueued" /\ crashes > 0

(* forwarder.go: "At-least-once delivery is guaranteed because the mark only
   happens after the River insert succeeds."  The code marks first, so it
   does not meet this; LostOnlyByCrash says what it does meet.             *)
MarkAfterInsert == \A e \in Marked : sent[e] > 0
=============================================================================
