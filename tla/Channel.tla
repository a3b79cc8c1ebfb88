------------------------------ MODULE Channel ------------------------------
(***************************************************************************)
(* What the outbox promises its consumers: a published event is taken from *)
(* the table at most once and handed on at most once.  It is not a promise *)
(* that a taken event is ever handed on.                                   *)
(***************************************************************************)
EXTENDS Naturals

CONSTANT Events

VARIABLES
    waiting,   \* published, nobody has taken them
    taken,     \* taken off the table, not handed on
    copies     \* how often each event was handed on

channelVars == <<waiting, taken, copies>>

ChannelInit ==
    /\ waiting = {}
    /\ taken = {}
    /\ copies = [e \in Events |-> 0]

Publish(e) ==
    /\ e \notin waiting \cup taken
    /\ copies[e] = 0
    /\ waiting' = waiting \cup {e}
    /\ UNCHANGED <<taken, copies>>

Take(S) ==
    /\ S \subseteq waiting
    /\ waiting' = waiting \ S
    /\ taken' = taken \cup S
    /\ UNCHANGED copies

Send(S) ==
    /\ S \subseteq taken
    /\ taken' = taken \ S
    /\ copies' = [e \in Events |-> IF e \in S THEN 1 ELSE copies[e]]
    /\ UNCHANGED waiting

ChannelNext ==
    \/ \E e \in Events : Publish(e)
    \/ \E S \in SUBSET Events : Take(S) \/ Send(S)

ChannelSpec == ChannelInit /\ [][ChannelNext]_channelVars
=============================================================================
