--------------------------- MODULE AccountsProofs ---------------------------
(***************************************************************************)
(* Proofs about Accounts for any number of requests, identities and        *)
(* emails, and any number of calls.  The inductive invariant has a part    *)
(* for each of the two promises: what a login knows of its identity's      *)
(* link, and what a lifecycle call knows of the seller and its trail.      *)
(***************************************************************************)
EXTENDS Accounts, SequenceTheorems, TLAPS

(* A call's record; past the lookups it has its user, or the state it read. *)
CallTyped(c) ==
    \/ c = Idle
    \/ /\ c \in Login
       /\ c.step \in {"putLink", "done"} => c.user \in Emails
    \/ c \in Provisioning
    \/ c \in Lifecycle /\ (c.step # "read" => c.from \in LifecycleState)

AccountsTyped ==
    /\ link \in [Identities -> Emails \cup {Null}]
    /\ seller \in {Null} \cup LifecycleState
    /\ trail \in Seq(LifecycleEvent)
    /\ DOMAIN call = Requests
    /\ \A r \in Requests : CallTyped(call[r])
    /\ call = [r \in Requests |-> call[r]]

(* Logins of identity i. *)
SignsIn(r, i) == call[r] \in Login /\ call[r].identity = i

Unlinked == {"getUser", "insert", "putLink"}

(* A login of identity i that overlapped no other as a first one. *)
LinkOK(i) ==
    \A r \in Requests \ together : SignsIn(r, i) =>
        /\ link[i] = Null => \A q \in Requests : SignsIn(q, i) => q = r
        /\ call[r].step \in Unlinked => link[i] = Null
        /\ call[r].step = "done" => call[r].user = link[i]

(* The trail leads from provisioning to s. *)
LeadsTo(s) ==
    LET n == Len(trail) IN
    /\ n = 0 => s = "provisioning"
    /\ n > 0 => trail[1].from = "provisioning" /\ trail[n].to = s
    /\ \A k \in 1..n - 1 : trail[k + 1].from = trail[k].to

Provisions(r) == call[r] \in Provisioning
Turns(r) == call[r] \in Lifecycle

ProvisionOK ==
    /\ \A r, q \in Requests : Provisions(r) /\ Provisions(q) => r = q
    /\ \A r \in Requests : Provisions(r) /\ call[r].step = "seller" => seller = Null
    /\ seller = Null => trail = <<>> /\ \A r \in Requests : ~Turns(r)

TrailTold ==
    /\ \A r, q \in Requests : Turns(r) /\ Turns(q) => r = q
    /\ \A r \in Requests : Turns(r) =>
          /\ call[r].step = "update" => call[r].from = seller
          /\ call[r].step = "event" => call[r].to = seller /\ LeadsTo(call[r].from)
    /\ seller # Null /\ (\A r \in Requests : Turns(r) => call[r].step # "event") => LeadsTo(seller)

TrailOK == calm => TrailTold

AccountsInv ==
    /\ AccountsTyped
    /\ \A i \in Identities : LinkOK(i)
    /\ ProvisionOK
    /\ TrailOK

-----------------------------------------------------------------------------
(* The kinds of records are apart. *)
LEMMA CallKinds ==
    ASSUME NEW c, CallTyped(c)
    PROVE  /\ c = Idle => c \notin Login /\ c \notin Provisioning /\ c \notin Lifecycle
           /\ c \in Login => /\ c \notin Provisioning /\ c \notin Lifecycle /\ c # Idle
                             /\ c.op = "login"
                             /\ c.step \in {"getLink", "getUser", "insert", "putLink", "done"}
           /\ c \in Provisioning => /\ c \notin Lifecycle /\ c # Idle /\ c.op = "provision"
                                    /\ c.step \in {"seller", "owner"}
           /\ c \in Lifecycle => /\ c # Idle /\ c.op = "lifecycle"
                                 /\ c.step \in {"read", "update", "event"}
BY DEF CallTyped, Idle, Login, Provisioning, Lifecycle

LEMMA CallIs ==
    ASSUME AccountsTyped, NEW r \in Requests
    PROVE  /\ CallTyped(call[r])
           /\ Doing(r, "lifecycle") <=> Turns(r)
           /\ Doing(r, "provision") <=> Provisions(r)
           /\ Doing(r, "login") <=> call[r] \in Login
<1>1. CallTyped(call[r])
  BY DEF AccountsTyped
<1> QED
  BY <1>1, CallKinds DEF Doing, Turns, Provisions, CallTyped

(* A step of request r leaves the records of the others alone. *)
Moves(r, c) == call' = [call EXCEPT ![r] = c]

LEMMA MovesOne ==
    ASSUME AccountsTyped, NEW r \in Requests, NEW c, Moves(r, c), CallTyped(c)
    PROVE  /\ call'[r] = c
           /\ \A q \in Requests \ {r} : call'[q] = call[q]
           /\ DOMAIN call' = Requests
           /\ \A q \in Requests : CallTyped(call'[q])
           /\ call' = [q \in Requests |-> call'[q]]
BY DEF AccountsTyped, Moves

-----------------------------------------------------------------------------
(* What a step keeps when it leaves a part's state alone. *)

LEMMA LinkFrame ==
    ASSUME NEW i, LinkOK(i), link'[i] = link[i], UNCHANGED together,
           \A r \in Requests : SignsIn(r, i)' =>
              /\ SignsIn(r, i)
              /\ call'[r].step \in Unlinked => call[r].step \in Unlinked
              /\ call'[r].step = "done" => call[r].step = "done" /\ call'[r].user = call[r].user
    PROVE  LinkOK(i)'
BY DEF LinkOK

LEMMA SellerFrame ==
    ASSUME ProvisionOK, TrailOK, calm' => calm, UNCHANGED <<seller, trail>>,
           \A r \in Requests : Provisions(r)' =>
              Provisions(r) /\ (call'[r].step = "seller" => call[r].step = "seller"),
           \A r \in Requests : Turns(r)' => call'[r] = call[r],
           calm' => \A r \in Requests : Turns(r) /\ call[r].step = "event" => call'[r] = call[r]
    PROVE  ProvisionOK' /\ TrailOK'
<1>1. \A r \in Requests : Turns(r)' => Turns(r)
  BY DEF Turns
<1>2. ProvisionOK'
  BY <1>1 DEF ProvisionOK
<1>3. ASSUME calm' PROVE TrailTold'
  <2>0. TrailTold
    BY <1>3 DEF TrailOK
  <2>1. (\A r, q \in Requests : Turns(r) /\ Turns(q) => r = q)'
    BY <1>1, <2>0 DEF TrailTold
  <2>2. ASSUME NEW r \in Requests, Turns(r)'
        PROVE  (/\ call[r].step = "update" => call[r].from = seller
                /\ call[r].step = "event" => call[r].to = seller /\ LeadsTo(call[r].from))'
    BY <1>1, <2>0, <2>2 DEF TrailTold, LeadsTo
  <2>3. (seller # Null /\ (\A r \in Requests : Turns(r) => call[r].step # "event")
           => LeadsTo(seller))'
    <3>1. \A r \in Requests : Turns(r) /\ call[r].step = "event" => Turns(r)' /\ call'[r].step = "event"
      BY <1>3 DEF Turns
    <3> QED
      BY <2>0, <3>1 DEF TrailTold, LeadsTo
  <2> QED
    BY <2>1, <2>2, <2>3 DEF TrailTold
<1> QED
  BY <1>2, <1>3 DEF TrailOK

-----------------------------------------------------------------------------
(* Ends of calls *)

LEMMA IdleTyped == CallTyped(Idle) /\ Idle \notin Login /\ Idle \notin Provisioning /\ Idle \notin Lifecycle
BY CallKinds DEF CallTyped

(* Records of the three kinds that disappear when r ends. *)
LEMMA EndsLess ==
    ASSUME AccountsTyped, NEW r \in Requests, Moves(r, Idle)
    PROVE  /\ \A i : \A q \in Requests : SignsIn(q, i)' => SignsIn(q, i) /\ call'[q] = call[q]
           /\ \A q \in Requests : Provisions(q)' => Provisions(q) /\ call'[q] = call[q]
           /\ \A q \in Requests : Turns(q)' <=> Turns(q) /\ q # r
           /\ \A q \in Requests : q # r => call'[q] = call[q]
BY IdleTyped, MovesOne DEF SignsIn, Provisions, Turns

LEMMA EndKeeps ==
    ASSUME AccountsInv, NEW r \in Requests, Moves(r, Idle),
           UNCHANGED <<link, seller, trail, together>>,
           calm' => calm,
           Turns(r) /\ call[r].step = "event" => ~calm'
    PROVE  AccountsInv'
<1>1. AccountsTyped
  BY DEF AccountsInv
<1>2. AccountsTyped'
  BY <1>1, IdleTyped, MovesOne DEF AccountsTyped
<1>3. \A i \in Identities : LinkOK(i)'
  BY <1>1, EndsLess, LinkFrame DEF AccountsInv
<1>5. ProvisionOK' /\ TrailOK'
  <2>1. \A q \in Requests : Turns(q)' => call'[q] = call[q]
    BY <1>1, EndsLess
  <2>2. calm' => \A q \in Requests : Turns(q) /\ call[q].step = "event" => call'[q] = call[q]
    BY <1>1, EndsLess
  <2>3. \A q \in Requests : Provisions(q)' =>
              Provisions(q) /\ (call'[q].step = "seller" => call[q].step = "seller")
    BY <1>1, EndsLess
  <2> QED
    BY <2>1, <2>2, <2>3, SellerFrame DEF AccountsInv
<1> QED
  BY <1>2, <1>3, <1>5 DEF AccountsInv

(* The event of the only lifecycle call under way joins the trail's end. *)
LEMMA EventKeeps ==
    ASSUME AccountsInv, NEW r \in Requests, InsertLifecycleEvent(r)
    PROVE  AccountsInv'
<1>1. AccountsTyped /\ Moves(r, Idle) /\ call[r].step = "event"
      /\ UNCHANGED <<link, seller, together, calm>>
  BY DEF AccountsInv, InsertLifecycleEvent, Moves
<1>2. call[r] \in Lifecycle /\ Turns(r) /\ call[r].from \in LifecycleState
      /\ call[r].to \in LifecycleState
  BY <1>1, CallIs, CallKinds DEF CallTyped, Idle, Turns, Lifecycle
<1>3. PICK f, t \in LifecycleState : f = call[r].from /\ t = call[r].to
  BY <1>2
<1> DEFINE ev == [from |-> f, to |-> t]
<1>4. trail' = Append(trail, ev) /\ ev \in LifecycleEvent
  BY <1>3 DEF InsertLifecycleEvent, LifecycleEvent
<1>5. ev.from = f /\ ev.to = t
  OBVIOUS
<1> HIDE DEF ev
<1>6. trail' \in Seq(LifecycleEvent)
  BY <1>1, <1>4 DEF AccountsTyped
<1>7. AccountsTyped'
  BY <1>1, <1>6, IdleTyped, MovesOne DEF AccountsTyped
<1>8. \A i \in Identities : LinkOK(i)'
  BY <1>1, EndsLess, LinkFrame DEF AccountsInv
<1>10. seller # Null
  BY <1>2 DEF AccountsInv, ProvisionOK
<1>11. ProvisionOK'
  BY <1>1, <1>10, EndsLess DEF AccountsInv, ProvisionOK
<1>12. ASSUME calm PROVE TrailTold'
  <2>1. TrailTold /\ t = seller /\ LeadsTo(f)
    BY <1>1, <1>2, <1>3, <1>12 DEF AccountsInv, TrailOK, TrailTold
  <2>2. \A q \in Requests : ~Turns(q)'
    BY <1>1, <1>2, <2>1, EndsLess DEF TrailTold
  <2>3. LeadsTo(seller)'
    <3> DEFINE n == Len(trail)
    <3>1. trail \in Seq(LifecycleEvent) /\ n \in Nat
      BY <1>1 DEF AccountsTyped
    <3>2. /\ Len(trail') = n + 1 /\ trail'[n + 1] = ev
          /\ \A k \in 1..n : trail'[k] = trail[k]
      BY <1>4, <3>1
    <3>3. trail'[n + 1].to = seller'
      BY <1>1, <1>5, <2>1, <3>2
    <3>4. trail'[1].from = "provisioning"
      BY <1>5, <2>1, <3>1, <3>2 DEF LeadsTo
    <3>5. ASSUME NEW k \in 1..n PROVE trail'[k + 1].from = trail'[k].to
      <4>1. CASE k = n
        BY <1>5, <2>1, <3>1, <3>2, <4>1 DEF LeadsTo
      <4>2. CASE k # n
        BY <2>1, <3>1, <3>2, <4>2 DEF LeadsTo
      <4> QED
        BY <4>1, <4>2
    <3> QED
      BY <3>1, <3>2, <3>3, <3>4, <3>5 DEF LeadsTo
  <2> QED
    BY <2>2, <2>3 DEF TrailTold
<1> QED
  BY <1>1, <1>7, <1>8, <1>11, <1>12 DEF AccountsInv, TrailOK

-----------------------------------------------------------------------------
(* Beginnings of calls *)

LEMMA StartKeeps ==
    ASSUME AccountsInv, NEW r \in Requests, NEW p \in OAuthProfile, LoginStarts(r, p)
    PROVE  AccountsInv'
<1>1. PICK i \in Identities : i = p.identity
  BY DEF OAuthProfile
<1> DEFINE c == [step |-> "getLink", op |-> "login", identity |-> i, email |-> p.email, user |-> Null]
<1>2. /\ AccountsTyped /\ call[r] = Idle /\ Moves(r, c)
      /\ UNCHANGED <<link, seller, trail, calm>>
  BY <1>1 DEF AccountsInv, LoginStarts, Begin, Moves
<1>3. c \in Login
  BY <1>1 DEF Login, LoginStarts, VerifyIDToken, OAuthProfile
<1>4. c.step = "getLink" /\ c.op = "login" /\ c.identity = i
  OBVIOUS
<1> HIDE DEF c
<1>5. CallTyped(c) /\ c \notin Provisioning /\ c \notin Lifecycle
  BY <1>3, <1>4, CallKinds DEF CallTyped
<1>6. call'[r] = c /\ \A q \in Requests \ {r} : call'[q] = call[q]
  BY <1>2, <1>5, MovesOne
<1>7. AccountsTyped'
  BY <1>2, <1>5, MovesOne DEF AccountsTyped
<1>8. /\ \A j : ~SignsIn(r, j) /\ (SignsIn(r, j)' <=> j = i)
      /\ \A j : \A q \in Requests \ {r} : SignsIn(q, j)' <=> SignsIn(q, j)
  BY <1>2, <1>3, <1>4, <1>6, IdleTyped DEF SignsIn
<1>9. \A q \in Requests : q \in SigningIn(i) <=> SignsIn(q, i)
  BY <1>2, CallIs DEF SigningIn, SignsIn
<1>10. \A q \in Requests \ {r} : /\ q \notin together' => q \notin together
                                 /\ link[i] = Null /\ SignsIn(q, i) => q \in together'
  BY <1>1, <1>9 DEF LoginStarts
<1>11. r \notin together' /\ link[i] = Null => \A q \in Requests : ~SignsIn(q, i)
  BY <1>1, <1>9 DEF LoginStarts
<1>12. ASSUME NEW j \in Identities, NEW q \in Requests, q \notin together', SignsIn(q, j)'
       PROVE  (/\ link[j] = Null => \A z \in Requests : SignsIn(z, j) => z = q
               /\ call[q].step \in Unlinked => link[j] = Null
               /\ call[q].step = "done" => call[q].user = link[j])'
  <2>1. CASE q = r
    <3>1. j = i
      BY <1>8, <1>12, <2>1
    <3>2. link[i] = Null => \A z \in Requests : SignsIn(z, i)' => z = r
      BY <1>8, <1>11, <1>12, <2>1
    <3> QED
      BY <1>2, <1>4, <1>6, <2>1, <3>1, <3>2 DEF Unlinked
  <2>2. CASE q # r
    <3>0. LinkOK(j)
      BY DEF AccountsInv
    <3>1. SignsIn(q, j) /\ q \notin together /\ call'[q] = call[q]
      BY <1>6, <1>10, <1>12, <2>2 DEF SignsIn
    <3>2. j = i => link[i] # Null
      BY <1>10, <1>12, <2>2, <3>1
    <3>3. \A z \in Requests : j # i /\ SignsIn(z, j)' => SignsIn(z, j)
      BY <1>8
    <3> QED
      BY <1>2, <3>0, <3>1, <3>2, <3>3 DEF LinkOK
  <2> QED
    BY <2>1, <2>2
<1>13. \A j \in Identities : LinkOK(j)'
  BY <1>12 DEF LinkOK
<1>14. \A q \in Requests : /\ Provisions(q)' => Provisions(q) /\ call'[q] = call[q]
                           /\ Turns(q)' => call'[q] = call[q]
                           /\ Turns(q) => call'[q] = call[q]
  BY <1>2, <1>5, <1>6, IdleTyped DEF Provisions, Turns
<1>15. ProvisionOK' /\ TrailOK'
  BY <1>2, <1>14, SellerFrame DEF AccountsInv
<1> QED
  BY <1>7, <1>13, <1>15 DEF AccountsInv

(* A call that is no login begins or moves on: logins are as they were. *)
LEMMA OtherMoves ==
    ASSUME AccountsInv, NEW r \in Requests, NEW c, Moves(r, c), CallTyped(c),
           c \in Provisioning \cup Lifecycle, call[r] \notin Login,
           UNCHANGED <<link, together>>
    PROVE  \A i \in Identities : LinkOK(i)'
<1>1. call'[r] = c /\ \A q \in Requests \ {r} : call'[q] = call[q]
  BY MovesOne DEF AccountsInv
<1>2. c \notin Login
  BY CallKinds
<1>3. \A i : \A q \in Requests : SignsIn(q, i)' => SignsIn(q, i) /\ call'[q] = call[q]
  BY <1>1, <1>2 DEF SignsIn
<1> QED
  BY <1>3, LinkFrame DEF AccountsInv

LEMMA ProvisionKeeps ==
    ASSUME AccountsInv, NEW r \in Requests, NEW u \in Emails, ProvisionSeller(r, u)
    PROVE  AccountsInv'
<1> DEFINE c == [step |-> "seller", op |-> "provision", user |-> u]
<1>1. /\ AccountsTyped /\ call[r] = Idle /\ Moves(r, c) /\ seller = Null
      /\ \A z \in Requests : ~Doing(z, "provision")
      /\ UNCHANGED <<link, seller, trail, together, calm>>
  BY DEF AccountsInv, ProvisionSeller, Begin, Moves
<1>2. c \in Provisioning
  BY DEF Provisioning
<1> HIDE DEF c
<1>3. CallTyped(c) /\ c \notin Lifecycle
  BY <1>2, CallKinds DEF CallTyped
<1>4. call'[r] = c /\ \A q \in Requests \ {r} : call'[q] = call[q]
  BY <1>1, <1>3, MovesOne
<1>5. AccountsTyped'
  BY <1>1, <1>3, MovesOne DEF AccountsTyped
<1>6. \A q \in Requests : /\ ~Provisions(q) /\ (Provisions(q)' => q = r)
                          /\ ~Turns(q)'
  <2>1. \A q \in Requests : ~Provisions(q) /\ ~Turns(q)
    BY <1>1, CallIs DEF AccountsInv, ProvisionOK
  <2> QED
    BY <1>3, <1>4, <2>1 DEF Provisions, Turns
<1>7. ProvisionOK' /\ TrailOK'
  BY <1>1, <1>6 DEF AccountsInv, ProvisionOK, TrailOK, TrailTold
<1> QED
  BY <1>1, <1>2, <1>3, <1>5, <1>7, IdleTyped, OtherMoves DEF AccountsInv

LEMMA SetLifecycleKeeps ==
    ASSUME AccountsInv, NEW r \in Requests, NEW to \in LifecycleState, SetLifecycle(r, to)
    PROVE  AccountsInv'
<1> DEFINE c == [step |-> "read", op |-> "lifecycle", from |-> Null, to |-> to]
<1>1. /\ AccountsTyped /\ call[r] = Idle /\ Moves(r, c) /\ seller # Null
      /\ calm' = (calm /\ \A z \in Requests : ~Doing(z, "lifecycle"))
      /\ UNCHANGED <<link, seller, trail, together>>
  BY DEF AccountsInv, SetLifecycle, Begin, Moves
<1>2. c \in Lifecycle /\ c.step = "read"
  BY DEF Lifecycle
<1> HIDE DEF c
<1>3. CallTyped(c) /\ c \notin Provisioning
  BY <1>2, CallKinds DEF CallTyped
<1>4. call'[r] = c /\ \A q \in Requests \ {r} : call'[q] = call[q]
  BY <1>1, <1>3, MovesOne
<1>5. AccountsTyped'
  BY <1>1, <1>3, MovesOne DEF AccountsTyped
<1>6. \A q \in Requests : Provisions(q)' => Provisions(q) /\ call'[q] = call[q]
  BY <1>3, <1>4 DEF Provisions
<1>7. ProvisionOK'
  BY <1>1, <1>6 DEF AccountsInv, ProvisionOK
<1>8. ASSUME calm' PROVE TrailTold'
  <2>1. calm /\ \A z \in Requests : ~Turns(z)
    BY <1>1, <1>8, CallIs
  <2>2. LeadsTo(seller)'
    BY <1>1, <2>1 DEF AccountsInv, TrailOK, TrailTold, LeadsTo
  <2>3. \A q \in Requests : Turns(q)' => q = r /\ call'[q].step = "read"
    BY <1>2, <1>4, <2>1 DEF Turns
  <2> QED
    BY <2>2, <2>3 DEF TrailTold
<1> QED
  BY <1>1, <1>2, <1>3, <1>5, <1>7, <1>8, IdleTyped, OtherMoves DEF AccountsInv, TrailOK

-----------------------------------------------------------------------------
(* Logins move on *)

LEMMA LoginMoves ==
    ASSUME AccountsInv, NEW r \in Requests, NEW i \in Identities, NEW c \in Login,
           call[r] \in Login, call[r].identity = i, c.identity = i, c.op = call[r].op,
           Moves(r, c), CallTyped(c),
           link' \in [Identities -> Emails \cup {Null}],
           \A j \in Identities \ {i} : link'[j] = link[j],
           UNCHANGED <<seller, trail, together, calm>>,
           LinkOK(i)'
    PROVE  AccountsInv'
<1>1. AccountsTyped /\ call'[r] = c /\ \A q \in Requests \ {r} : call'[q] = call[q]
  BY MovesOne DEF AccountsInv
<1>2. AccountsTyped'
  BY <1>1, MovesOne DEF AccountsTyped
<1>3. c \notin Provisioning /\ c \notin Lifecycle
      /\ call[r] \notin Provisioning /\ call[r] \notin Lifecycle
  BY <1>1, CallKinds, CallIs
<1>4. \A j \in Identities \ {i} : \A q \in Requests : SignsIn(q, j)' => SignsIn(q, j) /\ call'[q] = call[q]
  BY <1>1 DEF SignsIn
<1>5. \A j \in Identities : LinkOK(j)'
  BY <1>4, LinkFrame DEF AccountsInv
<1>8. \A q \in Requests :
         /\ Provisions(q)' => Provisions(q) /\ call'[q] = call[q]
         /\ Turns(q)' => call'[q] = call[q]
         /\ Turns(q) => call'[q] = call[q]
  BY <1>1, <1>3 DEF Provisions, Turns
<1>9. ProvisionOK' /\ TrailOK'
  BY <1>8, SellerFrame DEF AccountsInv
<1> QED
  BY <1>2, <1>5, <1>9 DEF AccountsInv

(* The part of the login's own identity. *)
LEMMA OwnLink ==
    ASSUME AccountsInv, NEW r \in Requests, NEW i \in Identities, NEW c \in Login,
           SignsIn(r, i), c.identity = i, Moves(r, c), CallTyped(c), UNCHANGED together,
           \/ /\ link' = link
              /\ r \notin together => /\ c.step \in Unlinked => link[i] = Null
                                      /\ c.step = "done" => c.user = link[i]
           \/ /\ call[r].step \in Unlinked /\ c.step = "done" /\ c.user # Null
              /\ link'[i] = IF link[i] = Null THEN c.user ELSE link[i]
    PROVE  LinkOK(i)'
<1>1. call'[r] = c /\ \A q \in Requests \ {r} : call'[q] = call[q]
  BY MovesOne DEF AccountsInv
<1>2. \A q \in Requests : SignsIn(q, i)' <=> SignsIn(q, i)
  BY <1>1 DEF SignsIn
<1>3. LinkOK(i)
  BY DEF AccountsInv
<1>4. CASE /\ link' = link
           /\ r \notin together => /\ c.step \in Unlinked => link[i] = Null
                                   /\ c.step = "done" => c.user = link[i]
  BY <1>1, <1>2, <1>3, <1>4 DEF LinkOK
<1>5. CASE /\ call[r].step \in Unlinked /\ c.step = "done" /\ c.user # Null
           /\ link'[i] = IF link[i] = Null THEN c.user ELSE link[i]
  <2>1. r \notin together => link[i] = Null /\ \A q \in Requests : SignsIn(q, i) => q = r
    BY <1>3, <1>5 DEF LinkOK
  <2>2. link[i] = Null => \A q \in Requests \ together : SignsIn(q, i) => q = r
    BY <1>3 DEF LinkOK
  <2>3. link'[i] # Null /\ (link[i] # Null => link'[i] = link[i])
    BY <1>5
  <2>4. ASSUME NEW q \in Requests \ together, SignsIn(q, i)
        PROVE  (/\ call[q].step \in Unlinked => link[i] = Null
                /\ call[q].step = "done" => call[q].user = link[i])'
    <3>1. CASE q = r
      BY <1>1, <1>5, <2>1, <2>4, <3>1 DEF Unlinked
    <3>2. CASE q # r
      <4>1. link[i] # Null /\ call'[q] = call[q]
        BY <1>1, <2>2, <2>4, <3>2
      <4> QED
        BY <1>3, <2>3, <2>4, <4>1 DEF LinkOK
    <3> QED
      BY <3>1, <3>2
  <2> QED
    BY <1>2, <2>3, <2>4 DEF LinkOK
<1> QED
  BY <1>4, <1>5

LEMMA GetLinkKeeps ==
    ASSUME AccountsInv, NEW r \in Requests, GetOAuthLink(r)
    PROVE  AccountsInv'
<1>1. /\ AccountsTyped /\ call[r].step = "getLink"
      /\ UNCHANGED <<link, seller, trail, together, calm>>
  BY DEF AccountsInv, GetOAuthLink
<1>2. call[r] \in Login
  BY <1>1, CallIs, CallKinds DEF CallTyped, Idle
<1>3. PICK i \in Identities : i = call[r].identity
  BY <1>2 DEF Login
<1>4. SignsIn(r, i)
  BY <1>2, <1>3 DEF SignsIn
<1> DEFINE c == IF link[i] # Null THEN [call[r] EXCEPT !.user = link[i], !.step = "done"]
                                  ELSE [call[r] EXCEPT !.step = "getUser"]
<1>5. Moves(r, c)
  BY <1>3 DEF GetOAuthLink, Moves
<1>6. /\ c \in Login /\ c.identity = i /\ c.op = call[r].op
      /\ link[i] # Null => c.step = "done" /\ c.user = link[i] /\ c.user \in Emails
      /\ link[i] = Null => c.step = "getUser"
  BY <1>1, <1>2, <1>3 DEF Login, AccountsTyped
<1> HIDE DEF c
<1>7. CallTyped(c)
  BY <1>6 DEF CallTyped
<1>8. LinkOK(i)'
  BY <1>1, <1>4, <1>5, <1>6, <1>7, OwnLink DEF Unlinked
<1> QED
  BY <1>1, <1>2, <1>3, <1>5, <1>6, <1>7, <1>8, LoginMoves DEF AccountsTyped

LEMMA GetUserKeeps ==
    ASSUME AccountsInv, NEW r \in Requests, GetUserByEmail(r) \/ InsertUser(r)
    PROVE  AccountsInv'
<1>1. /\ AccountsTyped /\ call[r].step \in {"getUser", "insert"}
      /\ UNCHANGED <<link, seller, trail, together, calm>>
  BY DEF AccountsInv, GetUserByEmail, InsertUser
<1>2. call[r] \in Login
  BY <1>1, CallIs, CallKinds DEF CallTyped, Idle
<1>3. PICK i \in Identities : i = call[r].identity
  BY <1>2 DEF Login
<1>4. SignsIn(r, i)
  BY <1>2, <1>3 DEF SignsIn
<1> DEFINE c1 == [call[r] EXCEPT !.user = call[r].email, !.step = "putLink"]
           c2 == [call[r] EXCEPT !.step = "insert"]
<1>5. Moves(r, c1) \/ Moves(r, c2)
  BY DEF GetUserByEmail, InsertUser, Moves
<1>6. /\ c1 \in Login /\ c1.identity = i /\ c1.op = call[r].op
      /\ c1.step = "putLink" /\ c1.user \in Emails
  BY <1>1, <1>2, <1>3 DEF Login
<1>7. c2 \in Login /\ c2.identity = i /\ c2.op = call[r].op /\ c2.step = "insert"
  BY <1>1, <1>2, <1>3 DEF Login
<1>8. PICK c \in Login : /\ Moves(r, c) /\ c.identity = i /\ c.op = call[r].op
                         /\ c.step \in {"putLink", "insert"}
                         /\ c.step = "putLink" => c.user \in Emails
  <2> HIDE DEF c1, c2
  <2>1. CASE Moves(r, c1)
    BY <1>6, <2>1 DEF Moves
  <2>2. CASE Moves(r, c2)
    BY <1>7, <2>2 DEF Moves
  <2> QED
    BY <1>5, <2>1, <2>2
<1>9. CallTyped(c)
  BY <1>8 DEF CallTyped
<1>10. r \notin together => link[i] = Null
  BY <1>1, <1>4 DEF AccountsInv, LinkOK, Unlinked
<1>11. LinkOK(i)'
  BY <1>1, <1>4, <1>8, <1>9, <1>10, OwnLink DEF Unlinked
<1> QED
  BY <1>1, <1>2, <1>3, <1>8, <1>9, <1>11, LoginMoves DEF AccountsTyped

LEMMA PutLinkKeeps ==
    ASSUME AccountsInv, NEW r \in Requests, UpsertOAuthLink(r)
    PROVE  AccountsInv'
<1>1. /\ AccountsTyped /\ call[r].step = "putLink"
      /\ UNCHANGED <<seller, trail, together, calm>>
  BY DEF AccountsInv, UpsertOAuthLink
<1>2. call[r] \in Login /\ call[r].user \in Emails
  BY <1>1, CallIs, CallKinds DEF CallTyped, Idle
<1>3. PICK i \in Identities : i = call[r].identity
  BY <1>2 DEF Login
<1>4. SignsIn(r, i)
  BY <1>2, <1>3 DEF SignsIn
<1> DEFINE c == [call[r] EXCEPT !.step = "done"]
<1>5. Moves(r, c)
  BY DEF UpsertOAuthLink, Moves
<1>6. c \in Login /\ c.identity = i /\ c.op = call[r].op /\ c.step = "done" /\ c.user = call[r].user
  BY <1>1, <1>2, <1>3 DEF Login
<1> HIDE DEF c
<1>7. CallTyped(c)
  BY <1>2, <1>6 DEF CallTyped
<1>8. /\ link' \in [Identities -> Emails \cup {Null}]
      /\ link'[i] = IF link[i] = Null THEN c.user ELSE link[i]
      /\ \A j \in Identities \ {i} : link'[j] = link[j]
  BY <1>1, <1>2, <1>3, <1>6 DEF UpsertOAuthLink, AccountsTyped
<1>9. LinkOK(i)'
  <2>1. c.user # Null
    BY <1>2, <1>6, AccountsAssumption
  <2> QED
    BY <1>1, <1>4, <1>5, <1>6, <1>7, <1>8, <2>1, OwnLink DEF Unlinked
<1> QED
  BY <1>1, <1>2, <1>3, <1>5, <1>6, <1>7, <1>8, <1>9, LoginMoves

-----------------------------------------------------------------------------
(* The seller's calls move on *)

LEMMA InsertSellerKeeps ==
    ASSUME AccountsInv, NEW r \in Requests, InsertSeller(r)
    PROVE  AccountsInv'
<1>1. /\ AccountsTyped /\ call[r].step = "seller" /\ seller' = "provisioning"
      /\ UNCHANGED <<link, trail, together, calm>>
  BY DEF AccountsInv, InsertSeller, InsertedState
<1>2. call[r] \in Provisioning /\ call[r] \notin Login
  BY <1>1, CallIs, CallKinds DEF CallTyped, Idle
<1> DEFINE c == [call[r] EXCEPT !.step = "owner"]
<1>3. Moves(r, c)
  BY DEF InsertSeller, Moves
<1>4. c \in Provisioning /\ c.step = "owner"
  BY <1>2 DEF Provisioning
<1> HIDE DEF c
<1>5. CallTyped(c) /\ c \notin Lifecycle
  BY <1>4, CallKinds DEF CallTyped
<1>6. call'[r] = c /\ \A q \in Requests \ {r} : call'[q] = call[q]
  BY <1>1, <1>3, <1>5, MovesOne
<1>7. AccountsTyped'
  BY <1>1, <1>3, <1>5, MovesOne DEF AccountsTyped, LifecycleState
<1>8. seller = Null /\ trail = <<>> /\ \A q \in Requests : ~Turns(q) /\ (Provisions(q) => q = r)
  BY <1>1, <1>2 DEF AccountsInv, ProvisionOK, Provisions
<1>9. \A q \in Requests : ~Turns(q)' /\ (Provisions(q)' => q = r)
  BY <1>5, <1>6, <1>8 DEF Turns, Provisions
<1>10. seller' # Null
  BY <1>1, AccountsAssumption DEF LifecycleState
<1>11. ProvisionOK'
  BY <1>4, <1>6, <1>9, <1>10 DEF ProvisionOK
<1>12. LeadsTo(seller)'
  BY <1>1, <1>8 DEF LeadsTo
<1>13. TrailOK'
  BY <1>9, <1>12 DEF TrailOK, TrailTold
<1> QED
  BY <1>1, <1>2, <1>3, <1>4, <1>5, <1>7, <1>11, <1>13, OtherMoves DEF AccountsInv

(* A lifecycle call's record, and the seller with it. *)
LEMMA TurnMoves ==
    ASSUME AccountsInv, NEW r \in Requests, NEW c \in Lifecycle, Turns(r), Moves(r, c),
           CallTyped(c), seller' \in LifecycleState,
           UNCHANGED <<link, trail, together, calm>>,
           calm => /\ c.step \in {"update", "event"}
                   /\ c.step = "update" => c.from = seller' /\ LeadsTo(seller)'
                   /\ c.step = "event" => c.to = seller' /\ \A s : s = c.from => LeadsTo(s)
    PROVE  AccountsInv'
<1>1. AccountsTyped /\ call'[r] = c /\ \A q \in Requests \ {r} : call'[q] = call[q]
  BY MovesOne DEF AccountsInv
<1>2. AccountsTyped'
  BY <1>1, MovesOne DEF AccountsTyped
<1>3. call[r] \notin Login /\ call[r] \notin Provisioning /\ c \notin Provisioning
  BY <1>1, CallIs, CallKinds DEF Turns
<1>4. seller # Null /\ seller' # Null
  BY AccountsAssumption DEF AccountsInv, ProvisionOK
<1>5. \A q \in Requests : (Provisions(q)' <=> Provisions(q)) /\ (Turns(q)' <=> Turns(q))
  BY <1>1, <1>3 DEF Provisions, Turns
<1>6. ProvisionOK'
  <2>1. \A q \in Requests : Provisions(q) => call'[q] = call[q]
    BY <1>1, <1>3 DEF Provisions
  <2> QED
    BY <1>4, <1>5, <2>1 DEF AccountsInv, ProvisionOK
<1>7. ASSUME calm' PROVE TrailTold'
  <2>1. \A q \in Requests : Turns(q)' => q = r
    BY <1>5, <1>7 DEF AccountsInv, TrailOK, TrailTold
  <2>2. (/\ call[r].step = "update" => call[r].from = seller
         /\ call[r].step = "event" => call[r].to = seller /\ LeadsTo(call[r].from))'
    <3>1. PICK s : s = c.from
      OBVIOUS
    <3>2. c.step = "event" => LeadsTo(s)'
      BY <1>7, <3>1 DEF LeadsTo
    <3> QED
      BY <1>1, <1>7, <3>1, <3>2 DEF LeadsTo
  <2>3. Turns(r)' /\ (call'[r].step # "event" => LeadsTo(seller)')
    BY <1>1, <1>5, <1>7
  <2> QED
    BY <2>1, <2>2, <2>3 DEF TrailTold
<1> QED
  BY <1>2, <1>3, <1>6, <1>7, OtherMoves DEF AccountsInv, TrailOK

LEMMA GetSellerKeeps ==
    ASSUME AccountsInv, NEW r \in Requests, GetSeller(r)
    PROVE  AccountsInv'
<1>1. /\ AccountsTyped /\ call[r].step = "read"
      /\ UNCHANGED <<link, seller, trail, together, calm>>
  BY DEF AccountsInv, GetSeller
<1>2. call[r] \in Lifecycle /\ Turns(r)
  BY <1>1, CallIs, CallKinds DEF CallTyped, Idle, Turns
<1>3. seller \in LifecycleState
  BY <1>1, <1>2 DEF AccountsInv, ProvisionOK, AccountsTyped
<1> DEFINE c == [call[r] EXCEPT !.from = seller, !.step = "update"]
<1>4. Moves(r, c)
  BY DEF GetSeller, Moves
<1>5. c \in Lifecycle /\ c.step = "update" /\ c.from = seller
  BY <1>2, <1>3 DEF Lifecycle
<1> HIDE DEF c
<1>6. CallTyped(c)
  BY <1>3, <1>5 DEF CallTyped
<1>7. calm => LeadsTo(seller)'
  <2>1. calm => \A q \in Requests : Turns(q) => call[q].step # "event"
    BY <1>1, <1>2 DEF AccountsInv, TrailOK, TrailTold
  <2>2. seller # Null
    BY <1>3, AccountsAssumption
  <2> QED
    BY <1>1, <2>1, <2>2 DEF AccountsInv, TrailOK, TrailTold, LeadsTo
<1> QED
  BY <1>1, <1>2, <1>3, <1>4, <1>5, <1>6, <1>7, TurnMoves

LEMMA UpdateLifecycleKeeps ==
    ASSUME AccountsInv, NEW r \in Requests, UpdateLifecycle(r)
    PROVE  AccountsInv'
<1>1. /\ AccountsTyped /\ call[r].step = "update" /\ seller' = call[r].to
      /\ UNCHANGED <<link, trail, together, calm>>
  BY DEF AccountsInv, UpdateLifecycle
<1>2. call[r] \in Lifecycle /\ Turns(r) /\ call[r].from \in LifecycleState
  BY <1>1, CallIs, CallKinds DEF CallTyped, Idle, Turns
<1>3. seller # Null /\ call[r].to \in LifecycleState
  BY <1>2 DEF AccountsInv, ProvisionOK, Lifecycle
<1> DEFINE c == [call[r] EXCEPT !.step = "event"]
<1>4. Moves(r, c)
  BY DEF UpdateLifecycle, Moves
<1>5. c \in Lifecycle /\ c.step = "event" /\ c.from = call[r].from /\ c.to = call[r].to
  BY <1>2 DEF Lifecycle
<1> HIDE DEF c
<1>6. CallTyped(c)
  BY <1>2, <1>5 DEF CallTyped
<1>7. calm => c.from = seller /\ LeadsTo(seller)
  <2>1. calm => \A q \in Requests : Turns(q) => call[q].step # "event"
    BY <1>1, <1>2 DEF AccountsInv, TrailOK, TrailTold
  <2> QED
    BY <1>1, <1>2, <1>3, <1>5, <2>1 DEF AccountsInv, TrailOK, TrailTold
<1>8. calm => \A s : s = c.from => LeadsTo(s)
  BY <1>7 DEF LeadsTo
<1> QED
  BY <1>1, <1>2, <1>3, <1>4, <1>5, <1>6, <1>8, TurnMoves

-----------------------------------------------------------------------------
(* Steps that no call takes *)

LEMMA CallsStay ==
    ASSUME AccountsInv, UNCHANGED <<link, seller, trail, call, together, calm>>
    PROVE  AccountsInv'
<1>1. AccountsTyped'
  BY DEF AccountsInv, AccountsTyped
<1>2. \A i \in Identities : LinkOK(i)'
  BY DEF AccountsInv, LinkOK, SignsIn
<1>3. ProvisionOK' /\ TrailOK'
  BY SellerFrame DEF AccountsInv, Provisions, Turns
<1> QED
  BY <1>1, <1>2, <1>3 DEF AccountsInv

LEMMA AccountsInductive ==
    ASSUME AccountsInv, [AccountsNext]_accountVars
    PROVE  AccountsInv'
<1>1. ASSUME NEW r \in Requests, NEW p \in OAuthProfile, LoginStarts(r, p)
      PROVE  AccountsInv'
  BY <1>1, StartKeeps
<1>2. ASSUME NEW r \in Requests, Activate(r) \/ Suspend(r) \/ Reinstate(r) \/ WindDown(r)
      PROVE  AccountsInv'
  BY <1>2, SetLifecycleKeeps DEF Activate, Suspend, Reinstate, WindDown, LifecycleState
<1>3. ASSUME NEW r \in Requests, LoginEnds(r) PROVE AccountsInv'
  <2>1. AccountsTyped /\ call[r] \in Login /\ call[r].step = "done"
    BY <1>3, CallIs DEF LoginEnds, AccountsInv
  <2>2. ~Turns(r)
    BY <2>1, CallIs, CallKinds DEF Turns
  <2> QED
    BY <1>3, <2>1, <2>2, EndKeeps DEF LoginEnds, Moves
<1>4. ASSUME NEW r \in Requests, AddMember(r) PROVE AccountsInv'
  BY <1>4, EndKeeps DEF AddMember, Moves
<1>5. ASSUME NEW r \in Requests, CallFails(r) PROVE AccountsInv'
  <2>1. AccountsTyped /\ (Turns(r) /\ call[r].step = "event" => ~calm')
    BY <1>5, CallIs DEF CallFails, AccountsInv
  <2> QED
    BY <1>5, <2>1, EndKeeps DEF CallFails, Moves
<1>6. ASSUME NEW r \in Requests, LoginStep(r) PROVE AccountsInv'
  BY <1>3, <1>6, GetLinkKeeps, GetUserKeeps, PutLinkKeeps DEF LoginStep
<1>7. ASSUME NEW r \in Requests, SellerStep(r) PROVE AccountsInv'
  BY <1>4, <1>7, InsertSellerKeeps, GetSellerKeeps, UpdateLifecycleKeeps, EventKeeps DEF SellerStep
<1>10. ASSUME NEW u \in Emails, RemoveUserFromSeller(u) PROVE AccountsInv'
  BY <1>10, CallsStay DEF RemoveUserFromSeller
<1>11. ASSUME SubmitKYC \/ ApproveKYC \/ RejectKYC PROVE AccountsInv'
  BY <1>11, CallsStay DEF SubmitKYC, ApproveKYC, RejectKYC, SetKYC
<1>12. ASSUME UNCHANGED accountVars PROVE AccountsInv'
  BY <1>12, CallsStay DEF accountVars
<1> QED
  BY <1>1, <1>2, <1>5, <1>6, <1>7, <1>10, <1>11, <1>12, ProvisionKeeps DEF AccountsNext

LEMMA AccountsInitially == AccountsInit => AccountsInv
<1> SUFFICES ASSUME AccountsInit PROVE AccountsInv
  OBVIOUS
<1>1. \A r \in Requests : call[r] = Idle
  BY DEF AccountsInit
<1>2. AccountsTyped
  BY <1>1, IdleTyped DEF AccountsInit, AccountsTyped
<1>3. \A r \in Requests : /\ ~Turns(r) /\ ~Provisions(r)
                          /\ \A i : ~SignsIn(r, i)
  BY <1>1, IdleTyped DEF Turns, Provisions, SignsIn
<1> QED
  BY <1>2, <1>3 DEF AccountsInit, AccountsInv, LinkOK, ProvisionOK, TrailOK, TrailTold

LEMMA AccountsInvHolds == AccountsSpec => []AccountsInv
<1>1. AccountsInv /\ [AccountsNext]_accountVars => AccountsInv'
  BY AccountsInductive
<1> QED
  BY <1>1, AccountsInitially, PTL DEF AccountsSpec

(* identity/service_impl.go, UpsertFromOAuth: an identity signs in as the user
   it is linked to, also after first logins have raced; only a first login
   that itself overlaps another of the identity can end with another user.  *)
THEOREM AccountsLogin == AccountsSpec => []LoginFindsItsUser
<1>1. AccountsInv => LoginFindsItsUser
  <2> SUFFICES ASSUME AccountsInv, NEW r \in Requests \ together,
                      Doing(r, "login"), call[r].step = "done"
               PROVE  call[r].user = link[call[r].identity]
    BY DEF LoginFindsItsUser
  <2>1. call[r] \in Login
    BY CallIs DEF AccountsInv
  <2>2. PICK i \in Identities : i = call[r].identity
    BY <2>1 DEF Login
  <2> QED
    BY <2>1, <2>2 DEF AccountsInv, LinkOK, SignsIn
<1> QED
  BY <1>1, AccountsInvHolds, PTL

(* seller/service_impl.go, setLifecycle: while the calls take turns and none
   fails between its UPDATE and its event, the events lead step by step from
   provisioning to the state the seller is in, however long the trail.      *)
THEOREM AccountsTrail == AccountsSpec => []TrailTellsState
<1>1. AccountsInv => TrailTellsState
  <2> SUFFICES ASSUME AccountsInv, calm, seller # Null,
                      \A r \in Requests : ~Doing(r, "lifecycle")
               PROVE  LeadsTo(seller)
    BY DEF TrailTellsState, LeadsTo
  <2>1. \A r \in Requests : ~Turns(r)
    BY CallIs DEF AccountsInv
  <2> QED
    BY <2>1 DEF AccountsInv, TrailOK, TrailTold
<1> QED
  BY <1>1, AccountsInvHolds, PTL
=============================================================================
