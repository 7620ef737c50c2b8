---------------------------- MODULE Members_proofs ----------------------------
(***************************************************************************)
(* Members for any workspace, plan and number of changes: a row's role is  *)
(* one Clerk has held, and the guards of a role change hold for as long as *)
(* nothing else is written.                                                *)
(***************************************************************************)
EXTENDS Members, FiniteSetTheorems, SequenceTheorems, TLAPS

\* Clerk has held a membership of u that makes it this role.
Given(u, role) == \E v \in held[u] : v.in /\ role \in {ContextRole(v), WebhookRole(v)}

\* What Clerk says, and what its events tell of, it has held.
LogHeld ==
  /\ \A u \in Users : clerk[u].in => clerk[u] \in held[u]
  /\ \A e \in DOMAIN log : log[e].view.in => log[e].view \in held[log[e].user]

\* What a request is about to write has been Clerk's.
WritesGiven ==
  \A u \in Users :
    /\ At(u, "write") => req[u].seen \in Roles /\ Given(u, req[u].seen)
    /\ At(u, "save") => Given(req[u].target, req[u].role)

\* The guards of a change still hold of the rows while nobody has written them.
StillAllowed ==
  \A u \in alone :
    /\ At(u, "update") \/ At(u, "save")
    /\ ~SoleOwnerBlocked(req[u].target, req[u].role)
    /\ SeatAllows(req[u].target, req[u].role)

IInv == TypeOK /\ LogHeld /\ WritesGiven /\ RoleFromClerk
-----------------------------------------------------------------------------
(* Roles.                                                                  *)

LEMMA RoleTypes ==
  /\ \A v \in Views : ContextRole(v) \in Roles /\ WebhookRole(v) \in Roles
  /\ \A role \in Roles, b \in BOOLEAN :
       /\ Member(role, b) \in Views /\ Member(role, b).in
       /\ ContextRole(Member(role, b)) = role
  /\ Out \in Views /\ ~Out.in /\ Member("unset", TRUE) \in Views
BY DEF Views, ContextRole, WebhookRole, Roles, Member, Out

\* What Clerk has held only grows.
LEMMA BecomesHolds ==
  ASSUME TypeOK, LogHeld, NEW u \in Users, NEW v \in Views, Becomes(u, v), Len(log) <= MaxChanges
  PROVE  /\ clerk' \in [Users -> Views] /\ held' \in [Users -> SUBSET Views]
         /\ log' \in Seq([user : Users, view : Views]) /\ Len(log') <= MaxChanges + 1
         /\ todo' \subseteq DOMAIN log'
         /\ \A w \in Users : held[w] \subseteq held'[w]
         /\ v \in held'[u]
         /\ LogHeld'
<1> DEFINE x == [user |-> u, view |-> v]
<1>1. /\ log \in Seq([user : Users, view : Views]) /\ x \in [user : Users, view : Views]
      /\ held \in [Users -> SUBSET Views] /\ clerk \in [Users -> Views]
      /\ todo \subseteq DOMAIN log
  BY DEF TypeOK
<1>2. /\ Append(log, x) \in Seq([user : Users, view : Views])
      /\ Len(Append(log, x)) = Len(log) + 1
      /\ \A i \in 1..Len(log) : Append(log, x)[i] = log[i]
      /\ Append(log, x)[Len(log) + 1] = x
      /\ DOMAIN log = 1..Len(log) /\ DOMAIN Append(log, x) = 1..(Len(log) + 1)
      /\ Len(log) \in Nat
  BY <1>1, AppendProperties, LenProperties
<1>3. /\ log' = Append(log, x) /\ todo' = todo \cup {Len(log) + 1}
      /\ held' = [held EXCEPT ![u] = @ \cup {v}] /\ clerk' = [clerk EXCEPT ![u] = v]
  BY DEF Becomes
<1>4. /\ held' \in [Users -> SUBSET Views] /\ clerk' \in [Users -> Views]
      /\ \A w \in Users : held[w] \subseteq held'[w]
      /\ v \in held'[u]
  BY <1>1, <1>3
<1>5. Len(log') <= MaxChanges + 1 /\ todo' \subseteq DOMAIN log'
  BY <1>1, <1>2, <1>3, MembersAssumption
<1>6. ASSUME NEW e \in DOMAIN log', log'[e].view.in
      PROVE  log'[e].view \in held'[log'[e].user]
  <2>1. CASE e \in DOMAIN log
    <3>1. log'[e] = log[e] /\ log[e] \in [user : Users, view : Views]
      BY <1>1, <1>2, <1>3, <2>1, ElementOfSeq
    <3>2. QED
      BY <1>4, <1>6, <2>1, <3>1 DEF LogHeld
  <2>2. CASE e = Len(log) + 1
    BY <1>2, <1>3, <1>4, <2>2
  <2>3. QED
    BY <1>2, <1>3, <2>1, <2>2
<1>7. \A w \in Users : clerk'[w].in => clerk'[w] \in held'[w]
  BY <1>1, <1>3, <1>4 DEF LogHeld
<1>8. QED
  BY <1>2, <1>3, <1>4, <1>5, <1>6, <1>7 DEF LogHeld

\* What was given stays given when Clerk has only gone on.
GivenNext(u, role) == \E v \in held'[u] : v.in /\ role \in {ContextRole(v), WebhookRole(v)}

LEMMA GivenStays ==
  ASSUME NEW u \in Users, held[u] \subseteq held'[u]
  PROVE  \A role : Given(u, role) => GivenNext(u, role)
BY DEF Given, GivenNext
-----------------------------------------------------------------------------
(* Every step keeps the invariant.                                         *)

ReqType == [at : RequestSteps, seen : Roles \cup {"none"}, target : Users, role : Roles]

\* A request that may stand at u.
SoundNext(u, r) ==
  /\ r.at = "write" => r.seen \in Roles /\ GivenNext(u, r.seen)
  /\ r.at = "save" => GivenNext(r.target, r.role)

\* The last four conjuncts of the invariant, when Clerk has only gone on.
LEMMA HistoryKept ==
  ASSUME IInv, TypeOK', LogHeld', \A u \in Users : held[u] \subseteq held'[u],
         \A u \in Users : db'[u] = db[u] \/ db'[u] = "none" \/ GivenNext(u, db'[u]),
         \A u \in Users : req'[u] = req[u] \/ SoundNext(u, req'[u])
  PROVE  IInv'
<1>1. \A u \in Users : db'[u] # "none" => GivenNext(u, db'[u])
  BY GivenStays DEF IInv, RoleFromClerk, Given
<1>2. \A u \in Users : SoundNext(u, req'[u])
  <2> SUFFICES ASSUME NEW u \in Users, req'[u] = req[u] PROVE SoundNext(u, req[u])
    OBVIOUS
  <2>1. req[u] \in ReqType
    BY DEF IInv, TypeOK, ReqType
  <2>2. At(u, "write") => req[u].seen \in Roles /\ GivenNext(u, req[u].seen)
    BY GivenStays DEF IInv, WritesGiven
  <2>3. At(u, "save") => GivenNext(req[u].target, req[u].role)
    BY <2>1, GivenStays DEF IInv, WritesGiven, ReqType
  <2>4. QED
    BY <2>2, <2>3 DEF SoundNext, At
<1>3. RoleFromClerk'
  BY <1>1 DEF RoleFromClerk, GivenNext
<1>4. WritesGiven'
  BY <1>2 DEF WritesGiven, SoundNext, GivenNext, Given, At
<1>5. QED
  BY <1>3, <1>4 DEF IInv

\* A step of a request that asks nothing of Clerk.
LEMMA Quiet ==
  ASSUME IInv, UNCHANGED <<external, todo>>, NEW u \in Users, NEW r \in ReqType, Goto(u, r),
         db' \in [Users -> Roles \cup {"none"}], alone' \subseteq Users,
         crashes' \in 0..MaxCrashes, SoundNext(u, r),
         \A w \in Users : db'[w] = db[w] \/ db'[w] = "none" \/ GivenNext(w, db'[w])
  PROVE  IInv'
<1>1. req' \in [Users -> ReqType] /\ req'[u] = r /\ \A w \in Users : w # u => req'[w] = req[w]
  BY DEF Goto, IInv, TypeOK, ReqType
<1>2. TypeOK'
  BY <1>1 DEF IInv, TypeOK, external, ReqType
<1>3. LogHeld' /\ \A w \in Users : held[w] \subseteq held'[w]
  BY DEF IInv, LogHeld, external
<1>4. QED
  BY <1>1, <1>2, <1>3, HistoryKept

LEMMA IdleType == Idle \in ReqType /\ Idle.at = "idle"
BY MembersAssumption DEF Idle, ReqType, RequestSteps, Roles

\* Clerk changes u's membership to v, and a request of w may go on to r.
LEMMA ClerkMoves ==
  ASSUME IInv, NEW u \in Users, NEW v \in Views, Becomes(u, v), Room,
         invites' \in [Users -> Roles \cup {"none"}],
         UNCHANGED <<db, alone, crashes>>, req' \in [Users -> ReqType],
         \A w \in Users : req'[w] = req[w] \/ SoundNext(w, req'[w])
  PROVE  IInv'
<1>1. Len(log) <= MaxChanges
  <2>1. Len(log) \in Nat
    BY LenProperties DEF IInv, TypeOK
  <2>2. QED
    BY <2>1, MembersAssumption DEF Room
<1>2. TypeOK'
  BY <1>1, BecomesHolds DEF IInv, TypeOK, ReqType
<1>3. LogHeld' /\ \A w \in Users : held[w] \subseteq held'[w]
  BY <1>1, BecomesHolds DEF IInv
<1>4. QED
  BY <1>2, <1>3, HistoryKept

LEMMA InvStep == IInv /\ [Next]_vars => IInv'
<1> DEFINE Goal == IInv'
<1> SUFFICES ASSUME IInv, [Next]_vars PROVE Goal
  OBVIOUS
<1>t. /\ clerk \in [Users -> Views] /\ invites \in [Users -> Roles \cup {"none"}]
      /\ log \in Seq([user : Users, view : Views]) /\ todo \subseteq DOMAIN log
      /\ db \in [Users -> Roles \cup {"none"}] /\ req \in [Users -> ReqType]
      /\ held \in [Users -> SUBSET Views] /\ alone \subseteq Users
      /\ crashes \in 0..MaxCrashes
  BY DEF IInv, TypeOK, ReqType
<1> HIDE DEF Goal
<1>i. SoundNext(Founder, Idle) /\ \A u \in Users : SoundNext(u, Idle)
  BY IdleType DEF SoundNext
<1>1. ASSUME NEW u \in Users, Administer(u) PROVE Goal
  BY <1>t, <1>1, ClerkMoves DEF Administer, Goal
<1>2. ASSUME NEW u \in Users, Remove(u) PROVE Goal
  BY <1>t, <1>2, ClerkMoves, RoleTypes DEF Remove, Goal
<1>3. ASSUME NEW u \in Users, Accept(u) PROVE Goal
  <2>1. Member(invites[u], FALSE) \in Views
    BY <1>t, <1>3, RoleTypes DEF Accept
  <2>2. invites' \in [Users -> Roles \cup {"none"}]
    BY <1>t, <1>3 DEF Accept
  <2>3. QED
    BY <1>t, <1>3, <2>1, <2>2, ClerkMoves DEF Accept, Goal
<1>4. ASSUME NEW e \in todo, Apply(e) PROVE Goal
  <2> DEFINE u == log[e].user
             v == log[e].view
             role == IF v.in THEN WebhookRole(v) ELSE "none"
  <2>1. u \in Users /\ v \in Views /\ e \in DOMAIN log
    <3>1. e \in 1..Len(log) /\ DOMAIN log = 1..Len(log)
      BY <1>t, LenProperties
    <3>2. log[e] \in [user : Users, view : Views]
      BY <1>t, <3>1, ElementOfSeq
    <3>3. QED
      BY <3>1, <3>2
  <2>2. role \in Roles \cup {"none"}
    BY <2>1, RoleTypes
  <2>3. role # "none" => v.in /\ v \in held[u]
    BY <2>1 DEF IInv, LogHeld
  <2>4. db' = [db EXCEPT ![u] = role] /\ alone' \subseteq Users /\ todo' \subseteq todo
    BY <1>4 DEF Apply, Writes
  <2> HIDE DEF u
  <2>5. GivenNext(u, role) \/ role = "none"
    BY <1>4, <2>1, <2>3 DEF Apply, external, GivenNext
  <2> HIDE DEF v, role
  <2>6. db' \in [Users -> Roles \cup {"none"}]
    BY <1>t, <2>1, <2>2, <2>4
  <2>7. UNCHANGED external /\ UNCHANGED <<req, crashes>>
    BY <1>4 DEF Apply
  <2>8. TypeOK'
    BY <2>4, <2>6, <2>7 DEF IInv, TypeOK, external
  <2>9. LogHeld' /\ \A w \in Users : held[w] \subseteq held'[w]
    BY <2>7 DEF IInv, LogHeld, external
  <2>10. \A w \in Users : db'[w] = db[w] \/ db'[w] = "none" \/ GivenNext(w, db'[w])
    BY <1>t, <2>1, <2>4, <2>5
  <2>11. QED
    BY <2>7, <2>8, <2>9, <2>10, HistoryKept DEF Goal
<1>5. ASSUME NEW e \in todo, Lose(e) PROVE Goal
  BY <1>t, <1>5, HistoryKept DEF Lose, external, IInv, TypeOK, LogHeld, Goal
<1>6. ASSUME NEW u \in Users, Begin(u) PROVE Goal
  <2> DEFINE r == [Idle EXCEPT !.at = IF RowAgrees(u) THEN "ready" ELSE "sync",
                               !.seen = IF RowAgrees(u) THEN db[u] ELSE "none"]
  <2>1. r \in ReqType /\ r.at \in {"ready", "sync"}
    BY <1>t, IdleType DEF ReqType, RequestSteps
  <2>2. Goto(u, r)
    BY <1>6 DEF Begin
  <2> HIDE DEF r
  <2>3. QED
    BY <1>t, <1>6, <2>1, <2>2, Quiet DEF Begin, Settled, SoundNext, Goal
<1>7. ASSUME NEW u \in Users, ReadClerk(u) PROVE Goal
  <2> DEFINE r == IF clerk[u].in THEN [Idle EXCEPT !.at = "write", !.seen = ContextRole(clerk[u])]
                  ELSE [Idle EXCEPT !.at = "reread"]
  <2>1. ContextRole(clerk[u]) \in Roles
    BY <1>t, RoleTypes
  <2>2. /\ r \in ReqType /\ r.at \in {"write", "reread"}
        /\ r.at = "write" => clerk[u].in /\ r.seen = ContextRole(clerk[u])
    BY <2>1, IdleType DEF ReqType, RequestSteps
  <2>3. Goto(u, r)
    BY <1>7 DEF ReadClerk
  <2> HIDE DEF r
  <2>4. SoundNext(u, r)
    BY <1>7, <2>1, <2>2 DEF ReadClerk, Settled, external, IInv, LogHeld, SoundNext, GivenNext
  <2>5. QED
    BY <1>t, <1>7, <2>2, <2>3, <2>4, Quiet DEF ReadClerk, Settled, Goal
<1>8. ASSUME NEW u \in Users, WriteRow(u) PROVE Goal
  <2>1. req[u].seen \in Roles /\ GivenNext(u, req[u].seen)
    BY <1>8, GivenStays DEF WriteRow, Settled, external, IInv, WritesGiven
  <2>2. [Idle EXCEPT !.at = "reread"] \in ReqType /\ SoundNext(u, [Idle EXCEPT !.at = "reread"])
    BY IdleType DEF ReqType, RequestSteps, SoundNext
  <2>3. db' = [db EXCEPT ![u] = req[u].seen] /\ alone' \subseteq Users
    BY <1>8 DEF WriteRow, Writes
  <2>4. QED
    BY <1>t, <1>8, <2>1, <2>2, <2>3, Quiet DEF WriteRow, Settled, Goal
<1>9. ASSUME NEW u \in Users, Reread(u) PROVE Goal
  <2> DEFINE r == IF db[u] = "none" THEN Idle ELSE [Idle EXCEPT !.at = "ready", !.seen = db[u]]
  <2>1. r \in ReqType /\ r.at \in {"idle", "ready"}
    BY <1>t, IdleType DEF ReqType, RequestSteps
  <2>2. Goto(u, r)
    BY <1>9 DEF Reread
  <2> HIDE DEF r
  <2>3. QED
    BY <1>t, <1>9, <2>1, <2>2, Quiet DEF Reread, Settled, SoundNext, Goal
<1>10. ASSUME NEW u \in Users, Leave(u) \/ ClerkRefuses(u) \/ Dies(u) PROVE Goal
  <2>1. crashes' \in 0..MaxCrashes
    BY <1>t, <1>10, MembersAssumption DEF Leave, ClerkRefuses, Dies, Settled
  <2>2. UNCHANGED <<external, todo, db>> /\ alone' \subseteq Users /\ Goto(u, Idle)
    BY <1>t, <1>10 DEF Leave, ClerkRefuses, Dies, Settled
  <2>3. QED
    BY <1>t, <1>i, <2>1, <2>2, Quiet, IdleType DEF Goal
<1>11. ASSUME NEW u \in Users, NEW t \in Users, NEW role \in Roles,
              CheckChange(u, t, role) \/ CheckInvite(u, t, role)
       PROVE  Goal
  <2>1. PICK at \in {"update", "invite"} :
          Goto(u, [Idle EXCEPT !.at = at, !.target = t, !.role = role])
    BY <1>11 DEF CheckChange, CheckInvite
  <2> DEFINE r == [Idle EXCEPT !.at = at, !.target = t, !.role = role]
  <2>2. r \in ReqType /\ r.at \notin {"write", "save"}
    BY IdleType DEF ReqType, RequestSteps
  <2>3. UNCHANGED <<external, todo, db, crashes>> /\ alone' \subseteq Users /\ Goto(u, r)
    BY <1>t, <1>11, <2>1 DEF CheckChange, CheckInvite, Settled
  <2> HIDE DEF r
  <2>4. QED
    BY <1>t, <2>2, <2>3, Quiet DEF SoundNext, Goal
<1>12. ASSUME NEW u \in Users, UpdateClerk(u) PROVE Goal
  <2> DEFINE v == Member(req[u].role, req[u].role = "owner")
             r == [req[u] EXCEPT !.at = "save"]
  <2>1. req[u].target \in Users /\ req[u].role \in Roles
    BY <1>t DEF ReqType
  <2>2. v \in Views /\ v.in /\ ContextRole(v) = req[u].role
    BY <2>1, RoleTypes
  <2>3. /\ r \in ReqType /\ r.at = "save"
        /\ r.target = req[u].target /\ r.role = req[u].role
    <3>1. req[u] \in ReqType
      BY <1>t
    <3>2. QED
      BY <3>1 DEF ReqType, RequestSteps
  <2>4. /\ Becomes(req[u].target, v) /\ Room /\ UNCHANGED <<invites, db, alone, crashes>>
        /\ req' = [req EXCEPT ![u] = r]
    BY <1>12 DEF UpdateClerk, Goto
  <2> HIDE DEF v, r
  <2>5. v \in held'[req[u].target]
    BY <1>t, <2>1, <2>4 DEF Becomes
  <2>6. SoundNext(u, r)
    BY <2>2, <2>3, <2>5 DEF SoundNext, GivenNext
  <2>7. QED
    BY <1>t, <2>1, <2>2, <2>3, <2>4, <2>6, ClerkMoves DEF Goal
<1>13. ASSUME NEW u \in Users, Save(u) PROVE Goal
  <2>1. req[u].target \in Users /\ req[u].role \in Roles
    BY <1>t DEF ReqType
  <2>2. GivenNext(req[u].target, req[u].role)
    BY <1>13, <2>1, GivenStays DEF Save, Settled, external, IInv, WritesGiven
  <2>3. db' = [db EXCEPT ![req[u].target] = req[u].role] /\ alone' \subseteq Users
    BY <1>13 DEF Save, Writes
  <2>4. QED
    BY <1>t, <1>i, <1>13, <2>1, <2>2, <2>3, Quiet, IdleType DEF Save, Settled, Goal
<1>14. ASSUME NEW u \in Users, SendInvite(u) PROVE Goal
  <2>1. invites' \in [Users -> Roles \cup {"none"}]
    BY <1>t, <1>14 DEF SendInvite, ReqType
  <2>2. req' \in [Users -> ReqType] /\ \A w \in Users : req'[w] = req[w] \/ req'[w] = Idle
    BY <1>t, <1>14, IdleType DEF SendInvite, Goto
  <2>3. UNCHANGED <<clerk, log, held, todo, db, alone, crashes>>
    BY <1>14 DEF SendInvite
  <2>4. TypeOK'
    BY <2>1, <2>2, <2>3 DEF IInv, TypeOK, ReqType
  <2>5. LogHeld'
    BY <2>3 DEF IInv, LogHeld
  <2>6. QED
    BY <1>i, <2>2, <2>3, <2>4, <2>5, HistoryKept DEF Goal
<1>15. CASE UNCHANGED vars
  BY <1>15, HistoryKept DEF vars, external, IInv, TypeOK, LogHeld, Goal
<1>16. QED
  BY <1>1, <1>2, <1>3, <1>4, <1>5, <1>6, <1>7, <1>8, <1>9, <1>10, <1>11, <1>12, <1>13,
     <1>14, <1>15 DEF Next, Dashboard, Webhook, Step

LEMMA InvInit == Init => IInv
<1> SUFFICES ASSUME Init PROVE IInv
  OBVIOUS
<1> DEFINE first == [user |-> Founder, view |-> Member("unset", TRUE)]
<1>1. /\ log \in Seq([user : Users, view : Views]) /\ Len(log) = 1
      /\ DOMAIN log = {1} /\ log[1] = first
  <2>1. first \in [user : Users, view : Views] /\ log = <<first>>
    BY RoleTypes, MembersAssumption DEF Init
  <2> HIDE DEF first
  <2>2. QED
    BY <2>1
<1>2. /\ clerk \in [Users -> Views] /\ held \in [Users -> SUBSET Views]
      /\ \A u \in Users : clerk[u].in => clerk[u] \in held[u]
      /\ first.view \in held[first.user]
  BY RoleTypes, MembersAssumption DEF Init
<1>3. req \in [Users -> ReqType] /\ \A u \in Users : req[u].at = "idle"
  BY IdleType DEF Init
<1>4. TypeOK
  <2>1. Len(log) <= MaxChanges + 1 /\ crashes \in 0..MaxCrashes /\ todo \subseteq DOMAIN log
    BY <1>1, MembersAssumption DEF Init
  <2>2. /\ invites \in [Users -> Roles \cup {"none"}] /\ db \in [Users -> Roles \cup {"none"}]
        /\ alone \subseteq Users
    BY DEF Init
  <2>3. QED
    BY <1>1, <1>2, <1>3, <2>1, <2>2 DEF TypeOK, ReqType
<1>5. LogHeld
  BY <1>1, <1>2 DEF LogHeld
<1>6. WritesGiven /\ RoleFromClerk
  BY <1>3 DEF Init, WritesGiven, RoleFromClerk, At
<1>7. QED
  BY <1>4, <1>5, <1>6 DEF IInv

LEMMA Invariance == Spec => []IInv
BY InvInit, InvStep, PTL DEF Spec

(* Every variable stays in its type, for any members, seats and changes. *)
THEOREM TypeCorrect == Spec => []TypeOK
<1>1. IInv => TypeOK
  BY DEF IInv
<1>2. QED
  BY <1>1, Invariance, PTL

(* syncMembershipFromClerkOrg, the webhook and updateMemberRoleAction: a row's
   role is always one that Clerk has held for that user. *)
THEOREM OnlyClerksRoles == Spec => []RoleFromClerk
<1>1. IInv => RoleFromClerk
  BY DEF IInv
<1>2. QED
  BY <1>1, Invariance, PTL
-----------------------------------------------------------------------------
(* The guards of a role change.                                            *)

\* A second owner stays when one becomes something else.
LEMMA OwnerStays ==
  ASSUME TypeOK, NEW t \in Users, NEW role \in Roles, ~SoleOwnerBlocked(t, role),
         Owners(db) # {}
  PROVE  Owners([db EXCEPT ![t] = role]) # {}
<1>1. \A u \in Users : [db EXCEPT ![t] = role][u] = IF u = t THEN role ELSE db[u]
  BY DEF TypeOK
<1>2. CASE role = "owner"
  BY <1>1, <1>2 DEF Owners
<1>3. CASE role # "owner" /\ ~(Owners(db) \subseteq {t})
  BY <1>1, <1>3 DEF Owners
<1>4. CASE role # "owner" /\ Owners(db) \subseteq {t}
  <2>1. IsFiniteSet({t}) /\ Cardinality({t}) = 1
    BY FS_Singleton
  <2>2. Cardinality(Owners(db)) <= 1
    BY <1>4, <2>1, FS_Subset
  <2>3. db[t] = "owner"
    BY <1>4 DEF Owners
  <2>4. QED
    BY <1>4, <2>2, <2>3 DEF SoleOwnerBlocked
<1>5. QED
  BY <1>2, <1>3, <1>4

\* A free seat is enough for the one who takes it.
LEMMA SeatTaken ==
  ASSUME TypeOK, NEW t \in Users, NEW role \in Roles, SeatAllows(t, role)
  PROVE  LET new == [db EXCEPT ![t] = role]
         IN  Cardinality(Paid(new)) <= SeatLimit \/ Paid(new) \subseteq Paid(db)
<1> DEFINE new == [db EXCEPT ![t] = role]
           rest == [db EXCEPT ![t] = "none"]
<1>1. /\ \A u \in Users : new[u] = IF u = t THEN role ELSE db[u]
      /\ \A u \in Users : rest[u] = IF u = t THEN "none" ELSE db[u]
  BY DEF TypeOK
<1> HIDE DEF new, rest
<1>2. CASE t \in Paid(db) \/ role = "viewer"
  BY <1>1, <1>2 DEF Paid
<1>3. CASE role # "viewer" /\ Cardinality(Paid(rest)) < SeatLimit
  <2>1. IsFiniteSet(Paid(rest)) /\ t \notin Paid(rest)
    BY <1>1, FS_Subset, MembersAssumption DEF Paid
  <2>2. Paid(new) \subseteq Paid(rest) \cup {t}
    BY <1>1 DEF Paid
  <2>3. /\ IsFiniteSet(Paid(rest) \cup {t})
        /\ Cardinality(Paid(rest) \cup {t}) = Cardinality(Paid(rest)) + 1
    BY <2>1, FS_AddElement
  <2>4. Cardinality(Paid(new)) <= Cardinality(Paid(rest)) + 1
    BY <2>2, <2>3, FS_Subset
  <2>5. Cardinality(Paid(rest)) \in Nat /\ Cardinality(Paid(new)) \in Nat
    BY <2>1, <2>2, <2>3, FS_Subset, FS_CardinalityType
  <2>6. QED
    BY <1>3, <2>4, <2>5, MembersAssumption DEF new
<1>4. QED
  BY <1>2, <1>3 DEF SeatAllows, SeatFree, new, rest

\* Whoever writes a row ends every change's solitude; else the rows are the same.
LEMMA AllowedStep == TypeOK /\ StillAllowed /\ [Next]_vars => StillAllowed'
<1> DEFINE Goal == StillAllowed'
<1> SUFFICES ASSUME TypeOK, StillAllowed, [Next]_vars PROVE Goal
  OBVIOUS
<1>1. CASE alone' = {}
  BY <1>1 DEF StillAllowed
\* A request goes on, which leaves it alone, or ends.
<1>2. ASSUME db' = db, \A w \in alone' : w \in alone /\ req'[w] = req[w] PROVE Goal
  BY <1>2 DEF StillAllowed, SoleOwnerBlocked, SeatAllows, Owners, Paid, At
<1> HIDE DEF Goal
<1>3. ASSUME NEW u \in Users, Administer(u) \/ Remove(u) \/ Accept(u) PROVE Goal
  BY <1>2, <1>3 DEF Administer, Remove, Accept
<1>4. ASSUME NEW e \in todo, Apply(e) \/ Lose(e) PROVE Goal
  BY <1>1, <1>2, <1>4 DEF Apply, Lose, Writes
<1>5. ASSUME NEW u \in Users, Begin(u) \/ ReadClerk(u) \/ Reread(u) \/ Leave(u) \/ SendInvite(u)
      PROVE  Goal
  <2>1. u \notin alone
    BY <1>5 DEF StillAllowed, Begin, ReadClerk, Reread, Leave, SendInvite, At
  <2>2. alone' = alone /\ db' = db /\ \A w \in Users : w # u => req'[w] = req[w]
    BY <1>5 DEF Begin, ReadClerk, Reread, Leave, SendInvite, Goto, TypeOK
  <2>3. QED
    BY <1>2, <2>1, <2>2 DEF TypeOK
<1>6. ASSUME NEW u \in Users, WriteRow(u) \/ Save(u) PROVE Goal
  BY <1>1, <1>6 DEF WriteRow, Save, Writes
<1>7. ASSUME NEW u \in Users, NEW t \in Users, NEW role \in Roles, CheckInvite(u, t, role)
      PROVE  Goal
  <2>1. u \notin alone
    BY <1>7 DEF StillAllowed, CheckInvite, At
  <2>2. alone' = alone /\ db' = db /\ \A w \in Users : w # u => req'[w] = req[w]
    BY <1>7 DEF CheckInvite, Goto, TypeOK
  <2>3. QED
    BY <1>2, <2>1, <2>2 DEF TypeOK
<1>8. ASSUME NEW u \in Users, NEW t \in Users, NEW role \in Roles, CheckChange(u, t, role)
      PROVE  Goal
  <2>1. /\ req'[u].at = "update" /\ req'[u].target = t /\ req'[u].role = role
        /\ \A w \in Users : w # u => req'[w] = req[w]
    <3>1. req' = [req EXCEPT ![u] = [Idle EXCEPT !.at = "update", !.target = t, !.role = role]]
      BY <1>8 DEF CheckChange, Goto
    <3>2. QED
      BY <3>1 DEF TypeOK, Idle
  <2>2. alone' = alone \cup {u} /\ db' = db /\ ~SoleOwnerBlocked(t, role) /\ SeatAllows(t, role)
    BY <1>8 DEF CheckChange
  <2>3. ASSUME NEW w \in alone'
        PROVE  /\ req'[w].at \in {"update", "save"}
               /\ ~SoleOwnerBlocked(req'[w].target, req'[w].role)
               /\ SeatAllows(req'[w].target, req'[w].role)
    BY <2>1, <2>2 DEF StillAllowed, At, TypeOK
  <2>4. QED
    BY <2>2, <2>3 DEF StillAllowed, Goal, At, SoleOwnerBlocked, SeatAllows, SeatFree, Owners, Paid
<1>9. ASSUME NEW u \in Users, UpdateClerk(u) PROVE Goal
  <2>1. /\ req'[u].at = "save" /\ req'[u].target = req[u].target /\ req'[u].role = req[u].role
        /\ \A w \in Users : w # u => req'[w] = req[w]
    BY <1>9 DEF UpdateClerk, Goto, TypeOK
  <2>2. alone' = alone /\ db' = db
    BY <1>9 DEF UpdateClerk
  <2>3. ASSUME NEW w \in alone'
        PROVE  /\ req'[w].at \in {"update", "save"}
               /\ ~SoleOwnerBlocked(req'[w].target, req'[w].role)
               /\ SeatAllows(req'[w].target, req'[w].role)
    BY <2>1, <2>2 DEF StillAllowed, At, TypeOK
  <2>4. QED
    BY <2>2, <2>3 DEF StillAllowed, Goal, At, SoleOwnerBlocked, SeatAllows, SeatFree, Owners, Paid
<1>10. ASSUME NEW u \in Users, ClerkRefuses(u) \/ Dies(u) PROVE Goal
  <2>1. alone' = alone \ {u} /\ db' = db /\ \A w \in Users : w # u => req'[w] = req[w]
    BY <1>10 DEF ClerkRefuses, Dies, Goto, TypeOK
  <2>2. QED
    BY <1>2, <2>1 DEF TypeOK
<1>11. CASE UNCHANGED vars
  BY <1>2, <1>11 DEF vars
<1>12. QED
  BY <1>3, <1>4, <1>5, <1>6, <1>7, <1>8, <1>9, <1>10, <1>11
     DEF Next, Dashboard, Webhook, Step

(* updateMemberRoleAction: a change that no other write has overtaken since its
   check leaves the workspace an owner and takes no seat beyond the plan's. *)
THEOREM GuardsSuffice == Spec => GuardsHoldAlone
<1> DEFINE Held ==
      \A u \in alone : At(u, "save") /\ req'[u].at = "idle" =>
        /\ Owners(db) # {} => Owners(db') # {}
        /\ Cardinality(Paid(db')) <= SeatLimit \/ Paid(db') \subseteq Paid(db)
<1>1. TypeOK /\ StillAllowed /\ [Next]_vars => Held
  <2> SUFFICES ASSUME TypeOK, StillAllowed, [Next]_vars, NEW u \in alone, At(u, "save"),
                      req'[u].at = "idle"
               PROVE  /\ Owners(db) # {} => Owners(db') # {}
                      /\ Cardinality(Paid(db')) <= SeatLimit \/ Paid(db') \subseteq Paid(db)
    OBVIOUS
  <2>1. u \in Users /\ req[u].target \in Users /\ req[u].role \in Roles
    BY DEF TypeOK
  <2>2. db' = db \/ Save(u)
    <3>1. ASSUME NEW w \in Users, Save(w) \/ WriteRow(w), w # u PROVE FALSE
      BY <2>1, <3>1 DEF Save, WriteRow, Goto, TypeOK, At
    <3>2. ASSUME NEW e \in todo, Apply(e) PROVE FALSE
      BY <3>2 DEF Apply, At
    <3>3. ~WriteRow(u)
      BY DEF WriteRow, At
    <3>4. ASSUME NEW w \in Users, Step(w), ~Save(w), ~WriteRow(w) PROVE db' = db
      BY <3>4 DEF Step, Begin, ReadClerk, Reread, Leave, CheckChange, CheckInvite,
                  UpdateClerk, SendInvite, ClerkRefuses
    <3>5. Dashboard \/ (\E e \in todo : Lose(e)) \/ (\E w \in Users : Dies(w)) \/ UNCHANGED vars
          => db' = db
      BY DEF Dashboard, Administer, Remove, Accept, Lose, Dies, vars
    <3>6. QED
      BY <3>1, <3>2, <3>3, <3>4, <3>5 DEF Next, Webhook
  <2>3. CASE db' = db
    BY <2>3 DEF Owners, Paid
  <2>4. CASE Save(u)
    <3>1. db' = [db EXCEPT ![req[u].target] = req[u].role]
      BY <2>4 DEF Save, Writes
    <3>2. ~SoleOwnerBlocked(req[u].target, req[u].role) /\ SeatAllows(req[u].target, req[u].role)
      BY DEF StillAllowed
    <3>3. Owners(db) # {} => Owners([db EXCEPT ![req[u].target] = req[u].role]) # {}
      BY <2>1, <3>2, OwnerStays
    <3>4. LET new == [db EXCEPT ![req[u].target] = req[u].role]
          IN  Cardinality(Paid(new)) <= SeatLimit \/ Paid(new) \subseteq Paid(db)
      BY <2>1, <3>2, SeatTaken
    <3>5. QED
      BY <3>1, <3>3, <3>4
  <2>5. QED
    BY <2>2, <2>3, <2>4
<1>2. Init => StillAllowed
  BY DEF Init, StillAllowed
<1>3. TypeOK /\ StillAllowed /\ [Next]_vars => StillAllowed'
  BY AllowedStep
<1>4. QED
  BY <1>1, <1>2, <1>3, TypeCorrect, PTL DEF Spec, GuardsHoldAlone
=============================================================================
