------------------------------- MODULE Billing -------------------------------
(* A tenant's subscription row between Stripe's webhook, Clerk's deletion of
   the organisation and the requests that end a trial (SaaS mode: Clerk and
   Postgres configured, so provisionPlan and deprovisionPlan return at once).

   Stripe and Clerk deliver an event until a delivery is answered with 2xx, in
   any order, and may repeat one whose first delivery is still at work.  A
   delivery claims the event's id in its own transaction, then runs; what fails
   after the claim in the Stripe handler is logged and answered with 200.  The
   outer catch of that handler, with its release of the claim, encloses nothing
   that throws for a well-formed event, and is left out; so are the add-on
   flags, limits (a function of the plan) and audit rows. *)
EXTENDS Naturals, Sequences, FiniteSets

CONSTANTS
  Subs,        \* Stripe subscriptions the tenant may take out
  Handlers,    \* deliveries being served at the same time
  None,
  Plans,       \* plan codes whose price is configured
  Turns,       \* the states a paid subscription moves between at Stripe
  MaxEvents,   \* bound: events the providers emit
  MaxFaults,   \* bound: failing database or Stripe calls
  MaxCrashes   \* bound: exits of the web process

VARIABLES
  live,     \* Stripe's own subscriptions
  log,      \* the events emitted so far; an event's id is its index
  acked,    \* events answered with 2xx
  orgGone,  \* Clerk's organisation is deleted
  claims,   \* saas_webhook_idempotency
  row,      \* the tenant's saas_subscriptions row
  reader,   \* a request inside getSubscriptionForTenant
  job,      \* each delivery: where it is, its event, the subscription it holds
  worked,   \* history: events a delivery has worked to its end, failed or not
  raced,    \* history: deliveries during which the row was detached
  faults, crashes

stripe == <<live, log, orgGone>>
bounds == <<faults, crashes>>
vars   == <<stripe, acked, claims, row, reader, job, worked, raced, bounds>>

ASSUME BillingAssumption ==
  /\ Subs # {} /\ IsFiniteSet(Handlers)
  /\ None \notin Subs /\ "trial" \notin Plans /\ "unpriced" \notin Plans
  /\ Turns \subseteq {"active", "past_due", "unpaid"}
  /\ MaxEvents \in Nat /\ MaxFaults \in Nat /\ MaxCrashes \in Nat

\* A customer is named by the subscription it was created for.
Customers == Subs \cup {None}
Paying    == Turns \cup {"active"}
Live ==
  [sub : Subs, cust : Customers, plan : Plans \cup {"unpriced"},
   status : Paying \cup {"none", "open", "canceled"}]
NoSub(s) == [sub |-> s, cust |-> None, plan |-> "unpriced", status |-> "none"]

Row ==
  [plan : Plans \cup {"trial"}, cust : Customers, sub : Subs \cup {None},
   status : {"trialing", "trial_expired", "active", "past_due", "canceled"}]

Types  == {"checkout", "updated", "invoice", "deleted", "org_deleted"}
Events == DOMAIN log
Steps  == {"idle", "retrieve", "find", "sync", "clear", "close", "cancel", "done"}

AnySub == CHOOSE s \in Subs : TRUE
NoJob  == [at |-> "idle", ev |-> 0, sub |-> NoSub(AnySub)]

------------------------------------------------------------------------------
(* Stripe and Clerk.  Every change at Stripe emits an event that carries the
   subscription, so the log is also the history of each subscription. *)

Room == Len(log) < MaxEvents

Emit(type, payload) == log' = Append(log, [type |-> type, payload |-> payload])

Becomes(type, sub) ==
  /\ live' = [live EXCEPT ![sub.sub] = sub]
  /\ Emit(type, sub)

ours == <<acked, claims, row, reader, job, worked, raced, bounds>>

\* checkout/route.ts: a session for the customer the row names, if any.
OpenSession(s) ==
  /\ live[s].status = "none" /\ ~orgGone
  /\ live' = [live EXCEPT ![s].status = "open", ![s].cust = row.cust]
  /\ UNCHANGED <<log, orgGone, ours>>

\* The customer pays; a price may be one no environment variable names.
Pay(s) ==
  /\ live[s].status = "open" /\ Room
  /\ \E p \in Plans \cup {"unpriced"} :
       Becomes("checkout", [sub |-> s, plan |-> p, status |-> "active",
                            cust |-> IF live[s].cust = None THEN s ELSE live[s].cust])
  /\ UNCHANGED <<orgGone, ours>>

\* Renewals, failed payments, changes: the invoice and the update are told of
\* in events of their own, either of which may be the one delivered.
Turn(s) ==
  /\ live[s].status \in Paying /\ Room
  /\ \E st \in Paying \ {live[s].status}, type \in {"updated", "invoice"} :
       Becomes(type, [live[s] EXCEPT !.status = st])
  /\ UNCHANGED <<orgGone, ours>>

Cancel(s) ==
  /\ live[s].status \in Paying /\ Room
  /\ Becomes("deleted", [live[s] EXCEPT !.status = "canceled"])
  /\ UNCHANGED <<orgGone, ours>>

DeleteOrg ==
  /\ ~orgGone /\ Room
  /\ orgGone' = TRUE
  /\ Emit("org_deleted", NoSub(AnySub))
  /\ UNCHANGED <<live, ours>>

------------------------------------------------------------------------------
(* Deliveries. *)

Idle(h)  == job[h].at = "idle"
Fault    == faults < MaxFaults /\ faults' = faults + 1 /\ UNCHANGED crashes

\* A delivery goes on with its next step, or has come to its end.
Goto(h, step) == job' = [job EXCEPT ![h].at = step] /\ UNCHANGED worked
End(h) ==
  /\ job' = [job EXCEPT ![h].at = "done"]
  /\ worked' = worked \cup {job[h].ev}

FirstStep(type) ==
  CASE type \in {"checkout", "invoice"} -> "retrieve"
    [] type = "org_deleted"             -> "close"
    [] OTHER                            -> "find"

\* The claim is one INSERT ... ON CONFLICT DO NOTHING.  A second delivery is
\* answered at once, whatever has become of the first.
Duplicate(e) ==
  /\ e \in claims
  /\ acked' = acked \cup {e}
  /\ UNCHANGED <<claims, job, raced, bounds>>

\* Mutant: the answer of the INSERT is not looked at.
ClaimAlways(h, e) ==
  /\ claims' = claims \cup {e}
  /\ job' = [job EXCEPT ![h] = [at |-> FirstStep(log[e].type), ev |-> e,
                                sub |-> log[e].payload]]
  /\ UNCHANGED <<acked, raced, bounds>>

Claim(h, e) ==
  /\ e \notin claims
  /\ claims' = claims \cup {e}
  /\ job' = [job EXCEPT ![h] = [at |-> FirstStep(log[e].type), ev |-> e,
                                sub |-> log[e].payload]]
  /\ UNCHANGED <<acked, raced, bounds>>

\* A failing claim is answered with 500 and nothing is kept (BILL-02).
ClaimFails == Fault /\ UNCHANGED <<acked, claims, job, raced>>

\* Mutant: a failing claim is answered with 200, as before BILL-02.
SwallowingDeliver(h, e) ==
  /\ Idle(h) /\ e \in Events \ acked
  /\ \/ Duplicate(e) \/ Claim(h, e)
     \/ Fault /\ acked' = acked \cup {e} /\ UNCHANGED <<claims, job, raced>>
  /\ UNCHANGED <<stripe, row, reader, worked>>

Deliver(h, e) ==
  /\ Idle(h) /\ e \in Events \ acked
  /\ Duplicate(e) \/ Claim(h, e) \/ ClaimFails
  /\ UNCHANGED <<stripe, row, reader, worked>>

\* subscriptions.retrieve: Stripe's current state, not the event's.  A
\* checkout names its tenant in the metadata, the others look it up.
Retrieve(h) ==
  /\ job[h].at = "retrieve"
  /\ job' = [job EXCEPT
       ![h].sub = live[@.sub],
       ![h].at  = IF log[job[h].ev].type = "checkout" THEN "sync" ELSE "find"]
  /\ UNCHANGED <<stripe, acked, claims, row, reader, worked, raced, bounds>>

\* getTenantIdByStripeCustomer, a transaction of its own.
Finds(h) == row.cust # None /\ row.cust = job[h].sub.cust

Find(h) ==
  /\ job[h].at = "find"
  /\ \/ Finds(h) /\ Goto(h, IF log[job[h].ev].type = "deleted" THEN "clear" ELSE "sync")
     \/ ~Finds(h) /\ End(h)
  /\ UNCHANGED <<stripe, acked, claims, row, reader, raced, bounds>>

\* Mutant: Stripe's status is stored as it is.
RawStatus(status) == status

\* Statuses such as "incomplete" or "paused", which become "active", are left out.
MapStatus(status) == IF status = "unpaid" THEN "canceled" ELSE status

\* Mutant: an unknown price means the lowest plan, as before BILL-05.
StarterByDefault(r, sub) ==
  [plan |-> IF sub.plan = "unpriced" THEN CHOOSE p \in Plans : TRUE ELSE sub.plan,
   status |-> MapStatus(sub.status), cust |-> sub.cust, sub |-> sub.sub]

\* syncSaasSubscriptionFromStripe: a subscription without a known price is
\* skipped (BILL-05), any other replaces what the row says.
Synced(r, sub) ==
  IF sub.plan = "unpriced" THEN r
  ELSE [plan |-> sub.plan, status |-> MapStatus(sub.status),
        cust |-> sub.cust, sub |-> sub.sub]

Sync(h) ==
  /\ job[h].at = "sync"
  /\ row' = Synced(row, job[h].sub)
  /\ End(h)
  /\ UNCHANGED <<stripe, acked, claims, reader, raced, bounds>>

\* Mutant: the detached row still names the customer.
CustomerKept(r) == [r EXCEPT !.plan = "trial", !.status = "canceled", !.sub = None]

\* clearStripeSubscriptionForTenant asks neither which subscription the row
\* names nor whether it still names one.
Cleared(r) == [plan |-> "trial", status |-> "canceled", cust |-> None, sub |-> None]

Detached == raced' = {h \in Handlers : ~Idle(h)}

Clear(h) ==
  /\ job[h].at = "clear"
  /\ row' = Cleared(row)
  /\ Detached /\ End(h)
  /\ UNCHANGED <<stripe, acked, claims, reader, bounds>>

\* cancelTenantByClerkOrg: one transaction, which keeps the plan code and
\* returns the subscription to cancel.  It reads the id and then clears it; what
\* a sync may do in between, no property depends on.
Closed(r) == [r EXCEPT !.status = "canceled", !.cust = None, !.sub = None]

Close(h) ==
  /\ job[h].at = "close"
  /\ row' = Closed(row)
  /\ Detached
  /\ \/ row.sub = None /\ End(h)
     \/ /\ row.sub # None
        /\ job' = [job EXCEPT ![h].sub = live[row.sub], ![h].at = "cancel"]
        /\ UNCHANGED worked
  /\ UNCHANGED <<stripe, acked, claims, reader, bounds>>

\* stripe.subscriptions.cancel, which refuses one already canceled.
CancelAtStripe(h) ==
  /\ job[h].at = "cancel"
  /\ LET sub == live[job[h].sub.sub]
     IN IF sub.status = "canceled" THEN UNCHANGED <<live, log>>
        ELSE Becomes("deleted", [sub EXCEPT !.status = "canceled"])
  /\ End(h)
  /\ UNCHANGED <<orgGone, acked, claims, row, reader, raced, bounds>>

\* A failing call after the claim: Stripe's handler logs it and answers 200,
\* Clerk's answers 500 for its transaction, and both keep the claim.
Fails(h) ==
  /\ job[h].at \notin {"idle", "done"} /\ Fault
  /\ worked' = worked \cup {job[h].ev}
  /\ job' = [job EXCEPT ![h] = IF @.at = "close" THEN NoJob ELSE [@ EXCEPT !.at = "done"]]
  /\ raced' = IF job[h].at = "close" THEN raced \ {h} ELSE raced
  /\ UNCHANGED <<stripe, acked, claims, row, reader>>

Answer(h) ==
  /\ job[h].at = "done"
  /\ acked' = acked \cup {job[h].ev}
  /\ job' = [job EXCEPT ![h] = NoJob]
  /\ raced' = raced \ {h}
  /\ UNCHANGED <<stripe, claims, row, reader, worked, bounds>>

Crash ==
  /\ crashes < MaxCrashes /\ \E h \in Handlers : ~Idle(h)
  /\ crashes' = crashes + 1
  /\ job' = [h \in Handlers |-> NoJob] /\ raced' = {} /\ reader' = "idle"
  /\ UNCHANGED <<stripe, acked, claims, row, worked, faults>>

------------------------------------------------------------------------------
(* The end of a trial: getSubscriptionForTenant reads the row and, if its trial
   is updates it by id, READ COMMITTED. *)

\* trialEndsAt may have passed whenever the row is read.
ReadTrial ==
  /\ reader = "idle" /\ row.status = "trialing"
  /\ reader' = "expiring"
  /\ UNCHANGED <<stripe, acked, claims, row, job, worked, raced, bounds>>

Expired(r) == [r EXCEPT !.status = "trial_expired"]

ExpireTrial ==
  /\ reader = "expiring"
  /\ reader' = "idle"
  /\ row' = Expired(row)
  /\ UNCHANGED <<stripe, acked, claims, job, worked, raced, bounds>>

------------------------------------------------------------------------------

Init ==
  /\ live = [s \in Subs |-> NoSub(s)]
  /\ log = <<>> /\ acked = {} /\ claims = {} /\ orgGone = FALSE
  /\ row = [plan |-> "trial", status |-> "trialing", cust |-> None, sub |-> None]
  /\ reader = "idle"
  /\ job = [h \in Handlers |-> NoJob]
  /\ worked = {} /\ raced = {} /\ faults = 0 /\ crashes = 0

Providers ==
  \/ \E s \in Subs : OpenSession(s) \/ Pay(s) \/ Turn(s) \/ Cancel(s)
  \/ DeleteOrg

Work(h) ==
  \/ Retrieve(h) \/ Find(h) \/ Sync(h) \/ Clear(h)
  \/ Close(h) \/ CancelAtStripe(h) \/ Answer(h)

Next ==
  \/ Providers
  \/ \E h \in Handlers, e \in Events : Deliver(h, e)
  \/ \E h \in Handlers : Work(h) \/ Fails(h)
  \/ Crash
  \/ ReadTrial \/ ExpireTrial

Spec == Init /\ [][Next]_vars

------------------------------------------------------------------------------
(* Properties. *)

TypeOK ==
  /\ live \in [Subs -> Live] /\ orgGone \in BOOLEAN
  /\ log \in Seq([type : Types, payload : Live]) /\ Len(log) <= MaxEvents + 1
  /\ acked \subseteq Events /\ claims \subseteq Events /\ worked \subseteq Events
  /\ row \in Row /\ reader \in {"idle", "expiring"}
  /\ job \in [Handlers -> [at : Steps, ev : Events \cup {0}, sub : Live]]
  /\ raced \subseteq Handlers
  /\ faults \in 0..MaxFaults /\ crashes \in 0..MaxCrashes

\* claimWebhookEvent: however often an event is delivered, whatever overlaps,
\* fails or dies, one delivery works on it, and none after that has ended.
AppliedOnce ==
  \A h \in Handlers : ~Idle(h) =>
    /\ job[h].at # "done" => job[h].ev \notin worked
    /\ \A g \in Handlers \ {h} : job[g].ev # job[h].ev

\* BILL-02: an event answered with 2xx has been worked to its end or is being
\* worked on, but for those in flight when the process went.
LostOnlyInFlight ==
  LET InHand  == {job[h].ev : h \in Handlers}
      Skipped == acked \ (worked \cup InHand)
  IN Cardinality(Skipped) <= crashes * Cardinality(Handlers)

\* The webhooks and the end of a trial write one row: it names a customer
\* exactly when it names a subscription, and is open to a paying tenant only
\* with one.
PaidByName ==
  /\ row.cust = None <=> row.sub = None
  /\ row.status \in {"active", "past_due"} => row.sub # None

\* What the row says of a subscription, Stripe has said of it at some time;
\* only the end of a trial may be written over it.
RowIsHistory ==
  row.sub # None =>
    \E e \in Events :
      LET v == log[e].payload
      IN /\ v.sub = row.sub /\ v.cust = row.cust /\ v.plan = row.plan
         /\ row.status \in {MapStatus(v.status), "trial_expired"}

\* A deletion overtaken by an older update stays a deletion: once the row is
\* detached only a checkout attaches it again, or a delivery that was at work
\* when it was detached.
NoRevival ==
  [][row.sub = None /\ row'.sub # None =>
       \E h \in Handlers : /\ job[h].at = "sync" /\ job'[h].at = "done"
                           /\ log[job[h].ev].type = "checkout" \/ h \in raced]_vars

\* BILL-07 (clerk/route.ts:193): "cancel the Stripe subscription before
\* clearing local fields."
CancelBeforeClear ==
  [][\A h \in Handlers : job[h].at = "close" /\ row.sub # None /\ row'.sub = None
       => live[row.sub].status = "canceled"]_vars
==============================================================================
