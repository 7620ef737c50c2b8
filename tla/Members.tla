------------------------------- MODULE Members -------------------------------
(* The members of one workspace, kept twice: Clerk's memberships, with a role
   in their metadata, and the rows of saas_tenant_memberships.  Rows follow
   Clerk by webhook events, in any order and some never, by the check that
   every request starts with, and by the actions of the members page, which
   change Clerk first and the row after.

   Claims and redeliveries of an event are the billing module's; here an event
   is applied once, at some time, or lost with a handler that failed after its
   claim.  Suspending the workspace, e-mail and audit entries are left out. *)
EXTENDS Naturals, Sequences, FiniteSets

CONSTANTS
  Users,
  Founder,      \* who created the organisation
  SeatLimit,    \* paidSeatLimit of the plan
  MaxChanges,   \* bound: changes of memberships at Clerk
  MaxCrashes    \* bound: requests that die

VARIABLES
  clerk,     \* Clerk's membership of each user
  invites,   \* pending invitations: a user's role, or "none"
  log,       \* Clerk's events; an event's id is its index
  todo,      \* events not yet applied or lost
  db,        \* rows: a user's role, or "none"
  req,       \* each user's request: where it is and what it has read
  held,      \* history: the memberships Clerk has held for each user
  alone,     \* history: changes no other write has overlapped since their check
  crashes

external == <<clerk, invites, log, held>>
vars == <<external, todo, db, req, alone, crashes>>

ASSUME MembersAssumption ==
  /\ IsFiniteSet(Users) /\ Founder \in Users /\ SeatLimit \in Nat
  /\ MaxChanges \in Nat /\ MaxCrashes \in Nat

\* Roles stands for its operator and guest auditor too, which count as admin
\* and viewer do and assign no roles.
Roles == {"owner", "admin", "viewer"}
Views == [in : BOOLEAN, role : Roles \cup {"unset"}, admin : BOOLEAN]
Out   == [in |-> FALSE, role |-> "unset", admin |-> FALSE]
Member(role, admin) == [in |-> TRUE, role |-> role, admin |-> admin]
Idle  == [at |-> "idle", seen |-> "none", target |-> Founder, role |-> "viewer"]

------------------------------------------------------------------------------
(* Roles, seats and owners. *)

\* Mutant: metadata without a role is taken as it is.
RawRole(v) == v.role

\* tenant-context.ts: the metadata's role, or the organisation's.
ContextRole(v) ==
  IF v.role # "unset" THEN v.role ELSE IF v.admin THEN "owner" ELSE "viewer"

\* clerk/route.ts: an administrator of the organisation is never a viewer.
WebhookRole(v) ==
  IF v.admin /\ v.role \in {"unset", "viewer"} THEN "owner"
  ELSE IF v.role = "unset" THEN "viewer" ELSE v.role

Paid(rows)   == {u \in Users : rows[u] \in {"owner", "admin"}}
Owners(rows) == {u \in Users : rows[u] = "owner"}

CanAssign(actor, role) == actor = "owner" \/ (actor = "admin" /\ role # "owner")

\* Mutant: off by one.
NoOwnerLeft(t, role) == db[t] = "owner" /\ role # "owner" /\ Cardinality(Owners(db)) < 1

SoleOwnerBlocked(t, role) ==
  db[t] = "owner" /\ role # "owner" /\ Cardinality(Owners(db)) <= 1

\* canAddPaidSeat.
SeatFree(rows, role) == role = "viewer" \/ Cardinality(Paid(rows)) < SeatLimit

\* canApplyRoleChange: who has a paid seat keeps it.
SeatAllows(t, role) == t \in Paid(db) \/ SeatFree([db EXCEPT ![t] = "none"], role)

------------------------------------------------------------------------------
(* Clerk. *)

Room == Len(log) < MaxChanges

Becomes(u, v) ==
  /\ clerk' = [clerk EXCEPT ![u] = v]
  /\ log' = Append(log, [user |-> u, view |-> v])
  /\ todo' = todo \cup {Len(log) + 1}
  /\ held' = [held EXCEPT ![u] = @ \cup {v}]

\* An administrator edits a membership in Clerk's dashboard.
Administer(u) ==
  /\ Room /\ clerk[u].in
  /\ \E v \in Views : v.in /\ v # clerk[u] /\ Becomes(u, v)
  /\ UNCHANGED <<invites, db, req, alone, crashes>>

Remove(u) ==
  /\ Room /\ clerk[u].in
  /\ Becomes(u, Out)
  /\ UNCHANGED <<invites, db, req, alone, crashes>>

\* An invitation names the role in its metadata and makes a plain member.
Accept(u) ==
  /\ Room /\ ~clerk[u].in /\ invites[u] # "none"
  /\ Becomes(u, Member(invites[u], FALSE))
  /\ invites' = [invites EXCEPT ![u] = "none"]
  /\ UNCHANGED <<db, req, alone, crashes>>

------------------------------------------------------------------------------
(* Webhook: organizationMembership.created, .updated, .deleted, user.deleted. *)

\* Who writes a row ends the solitude of the others' changes.
Writes(u, role, writers) ==
  /\ db' = [db EXCEPT ![u] = role]
  /\ alone' = alone \cap writers

Apply(e) ==
  /\ e \in todo
  /\ todo' = todo \ {e}
  /\ Writes(log[e].user, IF log[e].view.in THEN WebhookRole(log[e].view) ELSE "none", {})
  /\ UNCHANGED <<external, req, crashes>>

\* The handler fails after the claim: the provider's retry is a duplicate.
Lose(e) ==
  /\ e \in todo
  /\ todo' = todo \ {e}
  /\ UNCHANGED <<external, db, req, alone, crashes>>

------------------------------------------------------------------------------
(* Requests. *)

At(u, step) == req[u].at = step
Goto(u, r)  == req' = [req EXCEPT ![u] = r]
Settled     == UNCHANGED <<external, todo, crashes>>

\* Mutant: an active row is believed, whatever Clerk says.
TrustRow(u) == db[u] # "none"

\* A row that is there is compared with Clerk's membership, if Clerk lists one.
RowAgrees(u) == db[u] # "none" /\ (clerk[u].in => ContextRole(clerk[u]) = db[u])

\* requireTenantAuth.  The session's token names the organisation, and may
\* outlive the membership.
Begin(u) ==
  /\ At(u, "idle") /\ held[u] # {}
  /\ Goto(u, [Idle EXCEPT !.at = IF RowAgrees(u) THEN "ready" ELSE "sync",
                          !.seen = IF RowAgrees(u) THEN db[u] ELSE "none"])
  /\ Settled /\ UNCHANGED <<db, alone>>

\* syncMembershipFromClerkOrg asks Clerk again and writes what it was told.
ReadClerk(u) ==
  /\ At(u, "sync")
  /\ Goto(u, IF clerk[u].in THEN [Idle EXCEPT !.at = "write", !.seen = ContextRole(clerk[u])]
             ELSE [Idle EXCEPT !.at = "reread"])
  /\ Settled /\ UNCHANGED <<db, alone>>

WriteRow(u) ==
  /\ At(u, "write")
  /\ Writes(u, req[u].seen, {})
  /\ Goto(u, [Idle EXCEPT !.at = "reread"])
  /\ Settled

Reread(u) ==
  /\ At(u, "reread")
  /\ Goto(u, IF db[u] = "none" THEN Idle ELSE [Idle EXCEPT !.at = "ready", !.seen = db[u]])
  /\ Settled /\ UNCHANGED <<db, alone>>

\* Any other request, or a refusal.
Leave(u) ==
  /\ At(u, "ready")
  /\ Goto(u, Idle)
  /\ Settled /\ UNCHANGED <<db, alone>>

\* updateMemberRoleAction: one read of the rows for both guards.
CheckChange(u, t, role) ==
  /\ At(u, "ready") /\ CanAssign(req[u].seen, role)
  /\ ~SoleOwnerBlocked(t, role) /\ SeatAllows(t, role)
  /\ Goto(u, [Idle EXCEPT !.at = "update", !.target = t, !.role = role])
  /\ alone' = alone \cup {u}
  /\ Settled /\ UNCHANGED db

UpdateClerk(u) ==
  /\ At(u, "update") /\ Room /\ clerk[req[u].target].in
  /\ Becomes(req[u].target, Member(req[u].role, req[u].role = "owner"))
  /\ Goto(u, [req[u] EXCEPT !.at = "save"])
  /\ UNCHANGED <<invites, db, alone, crashes>>

Save(u) ==
  /\ At(u, "save")
  /\ Writes(req[u].target, req[u].role, {})
  /\ Goto(u, Idle)
  /\ Settled

\* inviteMemberAction: pending invitations take no seat.
CheckInvite(u, t, role) ==
  /\ At(u, "ready") /\ CanAssign(req[u].seen, role) /\ SeatFree(db, role)
  /\ Goto(u, [Idle EXCEPT !.at = "invite", !.target = t, !.role = role])
  /\ Settled /\ UNCHANGED <<db, alone>>

SendInvite(u) ==
  /\ At(u, "invite") /\ ~clerk[req[u].target].in /\ invites[req[u].target] = "none"
  /\ invites' = [invites EXCEPT ![req[u].target] = req[u].role]
  /\ Goto(u, Idle)
  /\ UNCHANGED <<clerk, log, held, todo, db, alone, crashes>>

\* Mutant: the row is changed although Clerk was not.
SaveAnyway(u) ==
  /\ At(u, "update")
  /\ Goto(u, [req[u] EXCEPT !.at = "save"])
  /\ Settled /\ UNCHANGED <<db, alone>>

\* Clerk's refusals, and failing calls, change nothing.
ClerkRefuses(u) ==
  /\ At(u, "update") \/ At(u, "invite")
  /\ Goto(u, Idle)
  /\ alone' = alone \ {u}
  /\ Settled /\ UNCHANGED db

Dies(u) ==
  /\ ~At(u, "idle") /\ crashes < MaxCrashes
  /\ crashes' = crashes + 1
  /\ Goto(u, Idle)
  /\ alone' = alone \ {u}
  /\ UNCHANGED <<external, todo, db>>

------------------------------------------------------------------------------

\* organization.created has made the tenant; the founder's membership event is
\* on its way.
Init ==
  /\ clerk = [u \in Users |-> IF u = Founder THEN Member("unset", TRUE) ELSE Out]
  /\ log = <<[user |-> Founder, view |-> Member("unset", TRUE)]>> /\ todo = {1}
  /\ held = [u \in Users |-> IF u = Founder THEN {Member("unset", TRUE)} ELSE {}]
  /\ invites = [u \in Users |-> "none"] /\ db = [u \in Users |-> "none"]
  /\ req = [u \in Users |-> Idle] /\ alone = {} /\ crashes = 0

Dashboard == \E u \in Users : Administer(u) \/ Remove(u) \/ Accept(u)

Webhook == \E e \in todo : Apply(e) \/ Lose(e)

Step(u) ==
  \/ Begin(u) \/ ReadClerk(u) \/ WriteRow(u) \/ Reread(u) \/ Leave(u)
  \/ \E t \in Users, role \in Roles : CheckChange(u, t, role) \/ CheckInvite(u, t, role)
  \/ UpdateClerk(u) \/ Save(u) \/ SendInvite(u) \/ ClerkRefuses(u)

Next == Dashboard \/ Webhook \/ \E u \in Users : Step(u) \/ Dies(u)

Spec == Init /\ [][Next]_vars

\* Members come back: a request that has begun goes on, and another follows.
FairSpec == Spec /\ \A u \in Users : WF_vars(Step(u))

------------------------------------------------------------------------------
(* Properties. *)

RequestSteps == {"idle", "sync", "write", "reread", "ready", "update", "save", "invite"}

TypeOK ==
  /\ clerk \in [Users -> Views] /\ invites \in [Users -> Roles \cup {"none"}]
  /\ log \in Seq([user : Users, view : Views]) /\ Len(log) <= MaxChanges + 1
  /\ todo \subseteq DOMAIN log
  /\ db \in [Users -> Roles \cup {"none"}]
  /\ req \in [Users -> [at : RequestSteps, seen : Roles \cup {"none"},
                        target : Users, role : Roles]]
  /\ held \in [Users -> SUBSET Views] /\ alone \subseteq Users
  /\ crashes \in 0..MaxCrashes

\* A row's role is one that Clerk has held for that user, at whichever step a
\* change of both fails and in whichever order events come.
RoleFromClerk ==
  \A u \in Users : db[u] # "none" =>
    \E v \in held[u] : v.in /\ db[u] \in {ContextRole(v), WebhookRole(v)}

\* A role change whose check no other write has overtaken leaves the workspace
\* an owner, if it had one, and takes no seat beyond the plan's.
GuardsHoldAlone ==
  [][\A u \in alone : At(u, "save") /\ req'[u].at = "idle" =>
       /\ Owners(db) # {} => Owners(db') # {}
       /\ Cardinality(Paid(db')) <= SeatLimit \/ Paid(db') \subseteq Paid(db)]_vars

\* tenant-context.ts:118: rows go astray by lost, late and failed writes, and a
\* member who keeps coming back ends up with the role Clerk holds.
RoleHeals ==
  \A u \in Users : <>[](clerk[u].in => db[u] = ContextRole(clerk[u]))

\* member-guards.ts:3: "True when demoting or removing the only active owner
\* would leave the workspace without an owner."  The page's role changes leave
\* one.
SoleOwnerKept ==
  [][\A u \in Users : At(u, "save") /\ req'[u].at = "idle" /\ Owners(db) # {}
       => Owners(db') # {}]_vars
==============================================================================
