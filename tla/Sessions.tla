------------------------------ MODULE Sessions ------------------------------
(***************************************************************************)
(* Authentication (backend/internal/auth): opaque session tokens in a      *)
(* table, and in front of it one LRU cache per server process.             *)
(*                                                                         *)
(* The rights a principal carries come from three tables: session, the     *)
(* user's status, and the membership of the seller the session is scoped   *)
(* to.  The operations of backend/internal/identity that change the last   *)
(* two are here as far as Authenticate sees them; Accounts has the rest.   *)
(***************************************************************************)
EXTENDS Naturals, Sequences, SequencesExt

CONSTANTS
    Servers,
    Serving,     \* the servers that clients reach; the rest only revoke
    HttpRequests, \* one Authenticate at a time each
    Tokens,
    Users,
    Roles,       \* what a membership grants: one value per roles_jsonb
    NoRoles,     \* roles of somebody without an active membership
    None,        \* no row, no token, no request under way
    Cap,         \* defaultCacheCap
    TTL          \* defaultCacheTTL, in ticks of the clock

VARIABLES
    session,    \* session rows by token
    locked,     \* users with app_user.status = 'locked'
    member,     \* seller_user rows of one seller
    cache,      \* per server, least recently used entry first
    request,    \* Authenticates that missed the cache and have read the tables
    revoking,   \* per server, tokens revoked in the table and still to forget
    touching    \* tokens with a touchSession under way

sessionVars == <<session, locked, member, cache, request, revoking, touching>>
tableVars == <<session, locked, member>>
serverVars == <<cache, request, revoking>>

Principal == [user : Users, scoped : BOOLEAN, roles : Roles \cup {NoRoles}]
Session == [user : Users, scoped : BOOLEAN, revoked : BOOLEAN, expired : BOOLEAN]
Member == [status : {"active", "removed"}, roles : Roles]

Entry == [token : Tokens, principal : Principal, age : 0..(TTL + 1)]
Lookup == [at : Serving, token : Tokens, principal : Principal]

ASSUME SessionsAssumption ==
    /\ Serving \subseteq Servers
    /\ Cap \in Nat \ {0}
    /\ TTL \in Nat
    /\ NoRoles \notin Roles
    /\ None \notin Session \cup Member \cup Lookup

SessionsInit ==
    /\ session = [t \in Tokens |-> None]
    /\ locked = {}
    /\ member \in [Users -> {None} \cup [status : {"active"}, roles : Roles]]
    /\ cache = [s \in Servers |-> <<>>]
    /\ request = [q \in HttpRequests |-> None]
    /\ revoking = [s \in Servers |-> {}]
    /\ touching = {}

-----------------------------------------------------------------------------
(* cache.go *)

Position(q, t) == SelectInSeq(q, LAMBDA e : e.token = t)

Without(q, t) == RemoveFirstMatch(q, LAMBDA e : e.token = t)

Live(q, t) == \E i \in 1..Len(q) : q[i].token = t /\ q[i].age <= TTL

(* A hit that starts the TTL again. *)
CacheGetBug(q, t) == Append(Without(q, t), [q[Position(q, t)] EXCEPT !.age = 0])

(* A hit moves the entry to the back and leaves its insertedAt alone. *)
CacheGet(q, t) == Append(Without(q, t), q[Position(q, t)])

(* Evicts one entry too late. *)
CacheSetBug(q, e) ==
    LET room == IF Position(q, e.token) = 0 /\ Len(q) > Cap THEN Tail(q) ELSE q
    IN  Append(Without(room, e.token), e)

(* An entry of the same token is replaced, otherwise a full cache loses its
   least recently used entry.                                              *)
CacheSet(q, e) ==
    LET room == IF Position(q, e.token) = 0 /\ Len(q) >= Cap THEN Tail(q) ELSE q
    IN  Append(Without(room, e.token), e)

-----------------------------------------------------------------------------
(* repo.go, service_impl.go *)

(* getSession: the roles of an active membership of the seller selected. *)
PrincipalOf(t) ==
    LET u == session[t].user
        m == member[u]
    IN  [user |-> u, scoped |-> session[t].scoped,
         roles |-> IF session[t].scoped /\ m # None /\ m.status = "active"
                   THEN m.roles ELSE NoRoles]

(* Without the look at revokedAt. *)
AdmittedBug(t) ==
    /\ session[t] # None
    /\ ~session[t].expired
    /\ session[t].user \notin locked

Admitted(t) ==
    /\ session[t] # None
    /\ ~session[t].revoked
    /\ ~session[t].expired
    /\ session[t].user \notin locked

AuthenticateHit(s, t) ==
    /\ Live(cache[s], t)
    /\ cache' = [cache EXCEPT ![s] = CacheGet(@, t)]
    /\ touching' = touching \cup {t}
    /\ UNCHANGED <<tableVars, request, revoking>>

(* Old entries go in get, the entry of a revoked session in Authenticate. *)
AuthenticateMiss(q, s, t) ==
    /\ ~Live(cache[s], t)
    /\ request[q] = None
    /\ cache' = [cache EXCEPT ![s] = Without(@, t)]
    /\ request' = [request EXCEPT ![q] =
          IF Admitted(t)
          THEN [at |-> s, token |-> t, principal |-> PrincipalOf(t)]
          ELSE None]
    /\ UNCHANGED <<tableVars, revoking, touching>>

(* What was read is cached, whatever has become of the session since. *)
AuthenticateFinish(q) ==
    /\ request[q] # None
    /\ cache' = [cache EXCEPT ![request[q].at] =
          CacheSet(@, [token |-> request[q].token, principal |-> request[q].principal,
                       age |-> 0])]
    /\ touching' = touching \cup {request[q].token}
    /\ request' = [request EXCEPT ![q] = None]
    /\ UNCHANGED <<tableVars, revoking>>

(* WHERE revoked_at IS NULL; an error is ignored. *)
TouchSession(t) ==
    /\ t \in touching
    /\ touching' = touching \ {t}
    /\ session' \in {session,
                     IF session[t].revoked THEN session
                     ELSE [session EXCEPT ![t].expired = FALSE]}
    /\ UNCHANGED <<locked, member, serverVars>>

(* t is the token of the cookie or else of the Authorization header. *)
Middleware(q, s, t) == AuthenticateHit(s, t) \/ AuthenticateMiss(q, s, t)

InsertedSession(u, scoped) ==
    [user |-> u, scoped |-> scoped, revoked |-> FALSE, expired |-> FALSE]

IssueCredentials(t, u, scoped) ==
    /\ session[t] = None
    /\ session' = [session EXCEPT ![t] = InsertedSession(u, scoped)]
    /\ UNCHANGED <<locked, member, serverVars, touching>>

(* A membership that was active when SelectSeller read it; nothing keeps it so. *)
WasMember(u) == member[u] # None

(* A session of its own for the seller; the caller's stays valid. *)
SelectSellerHandler(t, u) == WasMember(u) /\ IssueCredentials(t, u, TRUE)

(* What a login ends with. *)
LoginSession(t, u) == IssueCredentials(t, u, FALSE)

(* Rows first; the entries of this process follow. *)
RevokeRows(s, ts) ==
    /\ session' = [t \in Tokens |->
          IF t \in ts THEN [session[t] EXCEPT !.revoked = TRUE] ELSE session[t]]
    /\ revoking' = [revoking EXCEPT ![s] = @ \cup ts]
    /\ UNCHANGED <<locked, member, cache, request, touching>>

(* Of a session already revoked too: the entry is deleted anyway.  A hash
   without a row changes no row, and an error ends the call.               *)
Revoke(s, t, ok) ==
    RevokeRows(s, IF ok /\ t # None /\ session[t] # None THEN {t} ELSE {})

(* t is the token of the Authorization header alone, None when there is no
   header; the session of the cookie stays.  Revoke's error is dropped.    *)
LogoutHandler(s, t) == \E ok \in BOOLEAN : Revoke(s, t, ok)

(* RETURNING token_hash: the sessions that were not revoked before. *)
RevokeAllForUser(s, u) ==
    LET ts == {t \in Tokens : session[t] # None /\ session[t].user = u /\ ~session[t].revoked}
    IN  RevokeRows(s, ts)

(* cache.delete.  The NOTIFY that follows has no listener in any process. *)
Forget(s, t) ==
    /\ t \in revoking[s]
    /\ cache' = [cache EXCEPT ![s] = Without(@, t)]
    /\ revoking' = [revoking EXCEPT ![s] = @ \ {t}]
    /\ UNCHANGED <<tableVars, request, touching>>

(* The row's expires_at passes: MaxIdle without a touch that succeeded. *)
SessionExpires(t) ==
    /\ session[t] # None
    /\ session' = [session EXCEPT ![t].expired = TRUE]
    /\ UNCHANGED <<locked, member, serverVars, touching>>

(* Time passes on every cached entry. *)
Tick ==
    /\ \E s \in Servers : \E i \in 1..Len(cache[s]) : cache[s][i].age <= TTL
    /\ cache' = [s \in Servers |-> [i \in 1..Len(cache[s]) |->
          [cache[s][i] EXCEPT !.age = IF @ <= TTL THEN @ + 1 ELSE @]]]
    /\ UNCHANGED <<tableVars, request, revoking, touching>>

(* The process and its cache are lost; what it had in flight too. *)
Restart(s) ==
    /\ cache' = [cache EXCEPT ![s] = <<>>]
    /\ request' = [q \in HttpRequests |->
          IF request[q] # None /\ request[q].at = s THEN None ELSE request[q]]
    /\ revoking' = [revoking EXCEPT ![s] = {}]
    /\ UNCHANGED <<tableVars, touching>>

-----------------------------------------------------------------------------
(* identity/service_impl.go: none of these looks at sessions. *)

SetMember(u, m) ==
    /\ member' = [member EXCEPT ![u] = m]
    /\ UNCHANGED <<session, locked, serverVars, touching>>

AddMember(u, r) == SetMember(u, [status |-> "active", roles |-> r])

UpdateUserRoles(u, r) ==
    /\ member[u] # None
    /\ SetMember(u, [member[u] EXCEPT !.roles = r])

RemoveUserFromSeller(u) ==
    /\ member[u] # None
    /\ SetMember(u, [member[u] EXCEPT !.status = "removed"])

LockUser(u) ==
    /\ locked' = locked \cup {u}
    /\ UNCHANGED <<session, member, serverVars, touching>>

UnlockUser(u) ==
    /\ locked' = locked \ {u}
    /\ UNCHANGED <<session, member, serverVars, touching>>

-----------------------------------------------------------------------------
SessionsNext ==
    \/ \E q \in HttpRequests :
          \/ \E s \in Serving, t \in Tokens : Middleware(q, s, t)
          \/ AuthenticateFinish(q)
    \/ \E s \in Servers :
          \/ \E t \in Tokens \cup {None} : LogoutHandler(s, t)
          \/ \E t \in Tokens : Forget(s, t)
          \/ \E u \in Users : RevokeAllForUser(s, u)
          \/ Restart(s)
    \/ \E t \in Tokens :
          \/ TouchSession(t)
          \/ SessionExpires(t)
          \/ \E u \in Users : LoginSession(t, u) \/ SelectSellerHandler(t, u)
    \/ \E u \in Users :
          \/ \E r \in Roles : AddMember(u, r) \/ UpdateUserRoles(u, r)
          \/ RemoveUserFromSeller(u)
          \/ LockUser(u) \/ UnlockUser(u)
    \/ Tick

(* The clock does not stop. *)
SessionsSpec == SessionsInit /\ [][SessionsNext]_sessionVars /\ WF_sessionVars(Tick)

-----------------------------------------------------------------------------
(* Types; a cache never outgrows its capacity and has one entry per token. *)
SessionsTypeOK ==
    /\ session \in [Tokens -> {None} \cup Session]
    /\ locked \subseteq Users
    /\ member \in [Users -> {None} \cup Member]
    /\ \A s \in Servers :
          /\ Len(cache[s]) <= Cap
          /\ \A i \in 1..Len(cache[s]) :
                /\ cache[s][i] \in Entry
                /\ \A j \in 1..Len(cache[s]) : cache[s][i].token = cache[s][j].token => i = j
    /\ request \in [HttpRequests -> {None} \cup Lookup]
    /\ revoking \in [Servers -> SUBSET Tokens]
    /\ touching \subseteq Tokens

(* A session whose row is revoked comes to be refused by every server, and
   stays refused: not by the server that revoked it alone, and although an
   Authenticate that had read the row before may cache it once more after
   Revoke has deleted the entry, and a touch may come late.                *)
RevokedStaysOut ==
    \A t \in Tokens :
        <>[](session[t] # None /\ session[t].revoked => \A s \in Servers : ~Live(cache[s], t))

(* No server keeps honouring rights that are gone (revoked, expired, locked,
   removed, other roles) for ever, however often the token is used: time and
   again it serves what the tables say, or has to ask them.                *)
RightsCatchUp ==
    \A s \in Servers : \A t \in Tokens :
        []<>(Live(cache[s], t) =>
                /\ Admitted(t)
                /\ cache[s][Position(cache[s], t)].principal = PrincipalOf(t))
=============================================================================
