------------------------------ MODULE Accounts ------------------------------
(***************************************************************************)
(* Who is who: users, their OAuth identities and members of one seller     *)
(* (backend/internal/identity, the login and onboarding handlers), that    *)
(* seller's lifecycle and its KYC application (backend/internal/seller).   *)
(*                                                                         *)
(* No call is a transaction: each of its statements commits by itself, and *)
(* requests interleave.  A user row is known by its email, which is UNIQUE.*)
(* Invitations are left out: through the app pool that main.go hands to    *)
(* identity row security lets no seller_invite row in or out, so the call  *)
(* that invites fails and changes nothing.                                 *)
(***************************************************************************)
EXTENDS Naturals, Sequences

CONSTANTS
    Requests,     \* requests in flight
    Identities,   \* provider user ids
    Emails,
    Null,
    MaxCalls      \* bound: calls a run begins

VARIABLES
    users,      \* app_user rows, by email
    link,       \* oauth_link: the user of each identity
    member,     \* users with an active seller_user row of the seller
    seller,     \* lifecycle_state of the seller, Null before Provision
    kyc,        \* state of its kyc_application row
    trail,      \* seller_lifecycle_event rows, oldest first
    call,       \* what each request is doing
    begun,
    together,   \* history: first logins that overlap one of their identity
    calm        \* history: lifecycle calls took turns and none failed

accountVars == <<users, link, member, seller, kyc, trail, call, begun, together, calm>>

LifecycleState == {"provisioning", "active", "suspended", "wound_down"}
KYCState == {"submitted", "approved", "rejected"}

(* Null: an email that is missing, or that Google has not verified. *)
OAuthProfile == [identity : Identities, email : Emails \cup {Null}]
LifecycleEvent == [from : LifecycleState, to : LifecycleState]

Idle == [step |-> "idle"]
Login == [step : {"getLink", "getUser", "insert", "putLink", "done"}, op : {"login"},
          identity : Identities, email : Emails, user : Emails \cup {Null}]
Provisioning == [step : {"seller", "owner"}, op : {"provision"}, user : Emails]
Lifecycle == [step : {"read", "update", "event"}, op : {"lifecycle"},
              from : LifecycleState \cup {Null}, to : LifecycleState]

(* Null is what is not there. *)
ASSUME AccountsAssumption ==
    /\ MaxCalls \in Nat
    /\ Null \notin Emails \cup LifecycleState

AccountsInit ==
    /\ users = {}
    /\ link = [i \in Identities |-> Null]
    /\ member = {}
    /\ seller = Null
    /\ kyc = Null
    /\ trail = <<>>
    /\ call = [r \in Requests |-> Idle]
    /\ begun = 0
    /\ together = {}
    /\ calm = TRUE

Doing(r, op) == call[r] # Idle /\ call[r].op = op

Begin(r, c) ==
    /\ call[r] = Idle
    /\ begun < MaxCalls
    /\ begun' = begun + 1
    /\ call' = [call EXCEPT ![r] = c]

-----------------------------------------------------------------------------
(* UpsertFromOAuth, from DevLogin and the Google callback *)

(* Requests that are signing this identity in. *)
SigningIn(i) == {r \in Requests : Doing(r, "login") /\ call[r].identity = i}

VerifyIDToken(p) == p.email # Null

LoginStarts(r, p) ==
    LET i == p.identity
        overlaps == link[i] = Null /\ SigningIn(i) # {}
    IN  /\ VerifyIDToken(p)
        /\ Begin(r, [step |-> "getLink", op |-> "login", identity |-> i, email |-> p.email,
                     user |-> Null])
        /\ together' = IF overlaps THEN together \cup SigningIn(i) \cup {r} ELSE together \ {r}
        /\ UNCHANGED <<users, link, member, kyc, seller, trail, calm>>

(* A known identity keeps its user, whatever email it comes with. *)
GetOAuthLink(r) ==
    /\ call[r].step = "getLink"
    /\ call' = [call EXCEPT ![r] =
          IF link[@.identity] # Null
          THEN [@ EXCEPT !.user = link[call[r].identity], !.step = "done"]
          ELSE [@ EXCEPT !.step = "getUser"]]
    /\ UNCHANGED <<users, link, member, kyc, seller, trail, begun, together, calm>>

GetUserByEmail(r) ==
    /\ call[r].step = "getUser"
    /\ call' = [call EXCEPT ![r] =
          IF @.email \in users THEN [@ EXCEPT !.user = call[r].email, !.step = "putLink"]
                               ELSE [@ EXCEPT !.step = "insert"]]
    /\ UNCHANGED <<users, link, member, kyc, seller, trail, begun, together, calm>>

(* A user somebody else has inserted by now is a unique violation: CallFails. *)
InsertUser(r) ==
    /\ call[r].step = "insert"
    /\ call[r].email \notin users
    /\ users' = users \cup {call[r].email}
    /\ call' = [call EXCEPT ![r].user = call[r].email, ![r].step = "putLink"]
    /\ UNCHANGED <<link, member, kyc, seller, trail, begun, together, calm>>

(* ON CONFLICT the row gets the user of the later login. *)
UpsertOAuthLinkBug(r) ==
    /\ call[r].step = "putLink"
    /\ link' = [link EXCEPT ![call[r].identity] = call[r].user]
    /\ call' = [call EXCEPT ![r].step = "done"]
    /\ UNCHANGED <<users, member, kyc, seller, trail, begun, together, calm>>

(* ON CONFLICT the user of the row stays; the caller goes on with its own. *)
UpsertOAuthLink(r) ==
    /\ call[r].step = "putLink"
    /\ link' = [link EXCEPT ![call[r].identity] = IF @ = Null THEN call[r].user ELSE @]
    /\ call' = [call EXCEPT ![r].step = "done"]
    /\ UNCHANGED <<users, member, kyc, seller, trail, begun, together, calm>>

(* IssueCredentials: the session is the user's (see Sessions). *)
LoginEnds(r) ==
    /\ Doing(r, "login") /\ call[r].step = "done"
    /\ call' = [call EXCEPT ![r] = Idle]
    /\ UNCHANGED <<users, link, member, kyc, seller, trail, begun, together, calm>>

RemoveUserFromSeller(u) ==
    /\ u \in member
    /\ member' = member \ {u}
    /\ UNCHANGED <<users, link, kyc, seller, trail, call, begun, together, calm>>

-----------------------------------------------------------------------------
(* ProvisionSellerHandler: the seller, then its owner, then a session *)

ProvisionSeller(r, u) ==
    /\ u \in users
    /\ seller = Null
    /\ \A z \in Requests : ~Doing(z, "provision")
    /\ Begin(r, [step |-> "seller", op |-> "provision", user |-> u])
    /\ UNCHANGED <<users, link, member, kyc, seller, trail, together, calm>>

InsertedState == "provisioning"

InsertSeller(r) ==
    /\ call[r].step = "seller"
    /\ seller' = InsertedState
    /\ call' = [call EXCEPT ![r].step = "owner"]
    /\ UNCHANGED <<users, link, member, kyc, trail, begun, together, calm>>

AddMember(r) ==
    /\ call[r].step = "owner"
    /\ member' = member \cup {call[r].user}
    /\ call' = [call EXCEPT ![r] = Idle]
    /\ UNCHANGED <<users, link, kyc, seller, trail, begun, together, calm>>

-----------------------------------------------------------------------------
(* The lifecycle, from every state *)

SetLifecycle(r, to) ==
    /\ seller # Null
    /\ Begin(r, [step |-> "read", op |-> "lifecycle", from |-> Null, to |-> to])
    /\ calm' = (calm /\ \A z \in Requests : ~Doing(z, "lifecycle"))
    /\ UNCHANGED <<users, link, member, kyc, seller, trail, together>>

Activate(r) == SetLifecycle(r, "active")
Suspend(r) == SetLifecycle(r, "suspended")
Reinstate(r) == SetLifecycle(r, "active")
WindDown(r) == SetLifecycle(r, "wound_down")

GetSeller(r) ==
    /\ call[r].step = "read"
    /\ call' = [call EXCEPT ![r].from = seller, ![r].step = "update"]
    /\ UNCHANGED <<users, link, member, kyc, seller, trail, begun, together, calm>>

(* The state is read back after the UPDATE. *)
UpdateLifecycleBug(r) ==
    /\ call[r].step = "update"
    /\ seller' = call[r].to
    /\ call' = [call EXCEPT ![r].from = call[r].to, ![r].step = "event"]
    /\ UNCHANGED <<users, link, member, kyc, trail, begun, together, calm>>

(* The UPDATE has no condition on the state that was read. *)
UpdateLifecycle(r) ==
    /\ call[r].step = "update"
    /\ seller' = call[r].to
    /\ call' = [call EXCEPT ![r].step = "event"]
    /\ UNCHANGED <<users, link, member, kyc, trail, begun, together, calm>>

InsertLifecycleEvent(r) ==
    /\ call[r].step = "event"
    /\ trail' = Append(trail, [from |-> call[r].from, to |-> call[r].to])
    /\ call' = [call EXCEPT ![r] = Idle]
    /\ UNCHANGED <<users, link, member, kyc, seller, begun, together, calm>>

-----------------------------------------------------------------------------
(* KYC, a statement each; the decisions look at no state *)

SetKYC(state) ==
    /\ begun < MaxCalls
    /\ begun' = begun + 1
    /\ kyc' = state
    /\ UNCHANGED <<users, link, member, seller, trail, call, together, calm>>

(* ON CONFLICT the row is submitted again, decided or not. *)
SubmitKYC == seller # Null /\ SetKYC("submitted")
ApproveKYC == kyc # Null /\ SetKYC("approved")
RejectKYC == kyc # Null /\ SetKYC("rejected")

-----------------------------------------------------------------------------
(* A statement fails, the user to insert exists by now, or the process dies;
   what was done stays done.  The error of the lifecycle event is ignored. *)
CallFails(r) ==
    /\ call[r] # Idle
    /\ calm' = (calm /\ ~(Doing(r, "lifecycle") /\ call[r].step = "event"))
    /\ call' = [call EXCEPT ![r] = Idle]
    /\ UNCHANGED <<users, link, member, kyc, seller, trail, begun, together>>

LoginStep(r) ==
    \/ GetOAuthLink(r) \/ GetUserByEmail(r) \/ InsertUser(r) \/ UpsertOAuthLink(r)
    \/ LoginEnds(r)

SellerStep(r) ==
    \/ InsertSeller(r) \/ AddMember(r)
    \/ GetSeller(r) \/ UpdateLifecycle(r) \/ InsertLifecycleEvent(r)

AccountsNext ==
    \/ \E r \in Requests :
          \/ \E p \in OAuthProfile : LoginStarts(r, p)
          \/ \E u \in Emails : ProvisionSeller(r, u)
          \/ Activate(r) \/ Suspend(r) \/ Reinstate(r) \/ WindDown(r)
          \/ LoginStep(r) \/ SellerStep(r) \/ CallFails(r)
    \/ \E u \in Emails : RemoveUserFromSeller(u)
    \/ SubmitKYC \/ ApproveKYC \/ RejectKYC

AccountsSpec == AccountsInit /\ [][AccountsNext]_accountVars

-----------------------------------------------------------------------------
AccountsTypeOK ==
    /\ users \subseteq Emails
    /\ link \in [Identities -> users \cup {Null}]
    /\ member \subseteq users
    /\ seller \in {Null} \cup LifecycleState
    /\ kyc \in {Null} \cup KYCState
    /\ trail \in Seq(LifecycleEvent)
    /\ call \in [Requests -> {Idle} \cup Login \cup Provisioning \cup Lifecycle]
    /\ begun \in 0..MaxCalls
    /\ together \subseteq Requests
    /\ calm \in BOOLEAN

(* An identity always signs in as the user it is linked to, also after its
   email has changed and after a race of first logins: only a first login
   that itself overlaps another of the identity can end with another user. *)
LoginFindsItsUser ==
    \A r \in Requests \ together :
        Doing(r, "login") /\ call[r].step = "done" => call[r].user = link[call[r].identity]

(* While lifecycle calls take turns and their events are written, the events
   lead from provisioning to the state the seller is in, step by step.     *)
TrailTellsState ==
    calm /\ seller # Null /\ (\A r \in Requests : ~Doing(r, "lifecycle")) =>
        LET n == Len(trail) IN
        /\ n = 0 => seller = "provisioning"
        /\ n > 0 => trail[1].from = "provisioning" /\ trail[n].to = seller
        /\ \A k \in 1..n - 1 : trail[k + 1].from = trail[k].to
=============================================================================
