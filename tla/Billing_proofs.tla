--------------------------- MODULE Billing_proofs ---------------------------
(***************************************************************************)
(* Billing for any number of subscriptions, deliveries, plans, faults and  *)
(* crashes: what the tenant's row may say, and what the claim of an event  *)
(* is worth.                                                               *)
(***************************************************************************)
EXTENDS Billing, FiniteSetTheorems, SequenceTheorems, TLAPS

\* What Stripe says of a subscription once it is paid for.
Settled == Paying \cup {"canceled"}
Seen(v) == \E e \in Events : log[e].payload = v
Attachable(v) ==
  v.status \in Settled /\ v.cust # None /\ live[v.sub].status \in Settled

\* Stripe's side: a subscription paid for has a customer and an event that
\* says what it is now.
History ==
  /\ \A s \in Subs :
       /\ live[s].sub = s
       /\ live[s].status \in Settled => live[s].cust # None /\ Seen(live[s])
  /\ \A e \in Events : log[e].type # "org_deleted" => Attachable(log[e].payload)

\* The tenant is deleted once, and only the work on that event emits one past
\* the bound.
OrgOnce ==
  /\ \A e \in Events : log[e].type = "org_deleted" => orgGone
  /\ \A e, f \in Events :
       log[e].type = "org_deleted" /\ log[f].type = "org_deleted" => e = f
  /\ \/ Len(log) <= MaxEvents
     \/ \A e \in Events : log[e].type = "org_deleted" => e \in worked

\* A delivery at work has claimed its event, which no other has and none has
\* finished.
Claimed ==
  /\ worked \subseteq claims /\ acked \subseteq claims
  /\ \A h \in Handlers : IF Idle(h) THEN job[h].ev = 0 ELSE job[h].ev \in claims

\* What a delivery holds: a subscription Stripe has told of, in a step its
\* event's type leads to.
Holds ==
  \A h \in Handlers :
    /\ job[h].at \in {"retrieve", "find", "sync", "clear"} =>
         /\ log[job[h].ev].type # "org_deleted"
         /\ Seen(job[h].sub) /\ Attachable(job[h].sub)
    /\ job[h].at \in {"close", "cancel"} => log[job[h].ev].type = "org_deleted"
    /\ job[h].at = "cancel" => live[job[h].sub.sub].status \in Settled

\* A delivery that looked its tenant up found it, and goes on to attach the row
\* only while it is attached, or across the step that detached it.
FoundTenant ==
  \A h \in Handlers :
    job[h].at = "sync" /\ log[job[h].ev].type # "checkout" =>
      row.sub # None \/ h \in raced

\* The row names a subscription Stripe knows as paid for.
RowIsPaid == row.sub # None => live[row.sub].status \in Settled

IInv ==
  /\ TypeOK /\ History /\ OrgOnce /\ Claimed /\ AppliedOnce /\ Holds
  /\ FoundTenant /\ RowIsPaid /\ PaidByName /\ RowIsHistory
-----------------------------------------------------------------------------
(* Events.                                                                 *)

Entry == [type : Types, payload : Live]

\* Events stay as they were emitted.
LogGrows ==
  /\ Len(log') >= Len(log)
  /\ \A e \in Events : e \in Events' /\ log'[e] = log[e]

LEMMA LogTypes ==
  ASSUME TypeOK
  PROVE  /\ Len(log) \in Nat /\ Events = 1..Len(log) /\ 0 \notin Events
         /\ \A e \in Events : log[e] \in Entry
<1>1. log \in Seq(Entry)
  BY DEF TypeOK, Entry
<1>2. QED
  BY <1>1 DEF Events

LEMMA NoSubTypes == AnySub \in Subs /\ \A s \in Subs : NoSub(s) \in Live
BY BillingAssumption DEF AnySub, NoSub, Live, Customers

LEMMA Emitted ==
  ASSUME TypeOK, NEW type \in Types, NEW v \in Live, Emit(type, v)
  PROVE  /\ log' \in Seq(Entry) /\ Len(log') = Len(log) + 1 /\ LogGrows
         /\ Len(log') \in Events' \ Events
         /\ \A e \in Events' : e \in Events \/ e = Len(log')
         /\ log'[Len(log')] = [type |-> type, payload |-> v]
<1>1. log \in Seq(Entry) /\ [type |-> type, payload |-> v] \in Entry
  BY DEF TypeOK, Entry
<1>2. QED
  BY <1>1 DEF Emit, LogGrows, Events

LEMMA Unpaid == "none" \notin Settled /\ "open" \notin Settled
BY BillingAssumption DEF Settled, Paying

LEMMA BecomesEvent ==
  ASSUME TypeOK, NEW type \in Types, NEW v \in Live, Becomes(type, v)
  PROVE  /\ live' \in [Subs -> Live]
         /\ \A s \in Subs : live'[s] = IF s = v.sub THEN v ELSE live[s]
         /\ Emit(type, v) /\ Seen(v)'
<1>1. Emit(type, v) /\ live' = [live EXCEPT ![v.sub] = v] /\ v.sub \in Subs
  BY DEF Becomes, Live
<1>2. Seen(v)'
  <2>1. Len(log') \in Events' /\ log'[Len(log')] = [type |-> type, payload |-> v]
    BY <1>1, Emitted
  <2>2. QED
    BY <2>1 DEF Seen
<1>3. QED
  BY <1>1, <1>2 DEF TypeOK

\* What Stripe has said once stays said.
SettledStay == \A s \in Subs : live[s].status \in Settled => live'[s].status \in Settled

LEMMA SaidStays ==
  ASSUME LogGrows, SettledStay
  PROVE  /\ \A v \in Live : Seen(v) => Seen(v)'
         /\ \A v \in Live : Attachable(v) => Attachable(v)'
<1>1. \A v \in Live : Seen(v) => Seen(v)'
  BY DEF LogGrows, Seen
<1>2. \A v \in Live : v.sub \in Subs
  BY DEF Live
<1>3. QED
  BY <1>1, <1>2 DEF SettledStay, Attachable
\* What each step of Stripe and Clerk emits.
LEMMA OpenSessionEffect ==
  ASSUME TypeOK, NEW s \in Subs, OpenSession(s)
  PROVE  /\ live' \in [Subs -> Live] /\ log' = log
         /\ live[s].status = "none" /\ live'[s].status = "open" /\ live'[s].sub = live[s].sub
         /\ \A t \in Subs : t # s => live'[t] = live[t]
<1>1. live \in [Subs -> Live] /\ row.cust \in Customers
  BY DEF TypeOK, Row, Customers
<1>2. [live[s] EXCEPT !.status = "open", !.cust = row.cust] \in Live
  <2>1. live[s] \in Live /\ row.cust \in Customers
    BY <1>1
  <2>2. [live[s] EXCEPT !.status = "open"] \in Live
    BY <2>1 DEF Live
  <2>3. \A r \in Live : [r EXCEPT !.cust = row.cust] \in Live
    BY <2>1 DEF Live
  <2>4. [live[s] EXCEPT !.status = "open", !.cust = row.cust]
        = [[live[s] EXCEPT !.status = "open"] EXCEPT !.cust = row.cust]
    BY <2>1 DEF Live
  <2>5. QED
    BY <2>2, <2>3, <2>4
<1>3. live' = [live EXCEPT ![s] = [live[s] EXCEPT !.status = "open", !.cust = row.cust]]
  BY <1>1 DEF OpenSession
<1>4. live' \in [Subs -> Live] /\ \A t \in Subs : t # s => live'[t] = live[t]
  BY <1>1, <1>2, <1>3
<1>5. live'[s] = [live[s] EXCEPT !.status = "open", !.cust = row.cust]
  BY <1>1, <1>3
<1>6. live'[s].status = "open" /\ live'[s].sub = live[s].sub
  BY <1>1, <1>5 DEF Live
<1>7. QED
  BY <1>4, <1>6 DEF OpenSession

LEMMA PayEffect ==
  ASSUME TypeOK, NEW s \in Subs, Pay(s)
  PROVE  \E v \in Live : /\ v.sub = s /\ v.status = "active" /\ v.cust # None
                         /\ Becomes("checkout", v)
<1>1. PICK p \in Plans \cup {"unpriced"} :
        Becomes("checkout", [sub |-> s, plan |-> p, status |-> "active",
                             cust |-> IF live[s].cust = None THEN s ELSE live[s].cust])
  BY DEF Pay
<1> DEFINE v == [sub |-> s, plan |-> p, status |-> "active",
                 cust |-> IF live[s].cust = None THEN s ELSE live[s].cust]
<1>2. v \in Live /\ v.cust # None
  BY BillingAssumption DEF TypeOK, Live, Paying, Customers
<1>3. QED
  BY <1>1, <1>2

LEMMA TurnEffect ==
  ASSUME TypeOK, History, NEW s \in Subs, Turn(s) \/ Cancel(s)
  PROVE  \E v \in Live, type \in {"updated", "invoice", "deleted"} :
           /\ v.sub = s /\ v.cust = live[s].cust /\ {live[s].status, v.status} \subseteq Settled
           /\ Becomes(type, v)
<1>1. CASE Turn(s)
  <2>1. PICK st \in Paying, type \in {"updated", "invoice"} :
          Becomes(type, [live[s] EXCEPT !.status = st])
    BY <1>1 DEF Turn
  <2>2. live[s] \in Live /\ live[s].sub = s
    BY DEF TypeOK, History
  <2>3. /\ [live[s] EXCEPT !.status = st] \in Live
        /\ [live[s] EXCEPT !.status = st].sub = s
        /\ [live[s] EXCEPT !.status = st].status = st
        /\ [live[s] EXCEPT !.status = st].cust = live[s].cust
    BY <2>2 DEF Live
  <2>4. QED
    BY <1>1, <2>1, <2>3 DEF Turn, Settled
<1>2. CASE Cancel(s)
  <2>1. /\ [live[s] EXCEPT !.status = "canceled"] \in Live
        /\ [live[s] EXCEPT !.status = "canceled"].sub = s
        /\ [live[s] EXCEPT !.status = "canceled"].status = "canceled"
        /\ [live[s] EXCEPT !.status = "canceled"].cust = live[s].cust
    BY DEF TypeOK, Live, History
  <2>2. QED
    BY <1>2, <2>1 DEF Cancel, Settled
<1>3. QED
  BY <1>1, <1>2

LEMMA CancelEffect ==
  ASSUME TypeOK, History, Holds, NEW h \in Handlers, CancelAtStripe(h)
  PROVE  \/ UNCHANGED <<live, log>>
         \/ \E s \in Subs, v \in Live :
              /\ v.sub = s /\ v.cust = live[s].cust /\ {live[s].status, v.status} \subseteq Settled
              /\ Becomes("deleted", v)
<1>1. PICK s \in Subs : s = job[h].sub.sub /\ live[s].status \in Settled /\ live[s].sub = s
  BY DEF CancelAtStripe, TypeOK, Live, Holds, History
<1>2. /\ [live[s] EXCEPT !.status = "canceled"] \in Live
      /\ [live[s] EXCEPT !.status = "canceled"].sub = s
      /\ [live[s] EXCEPT !.status = "canceled"].status = "canceled"
      /\ [live[s] EXCEPT !.status = "canceled"].cust = live[s].cust
  BY <1>1 DEF TypeOK, Live
<1>3. CASE live[s].status = "canceled"
  BY <1>1, <1>3 DEF CancelAtStripe
<1>4. CASE live[s].status # "canceled"
  BY <1>1, <1>2, <1>4 DEF CancelAtStripe, Settled
<1>5. QED
  BY <1>3, <1>4

LEMMA GrowsBy ==
  ASSUME TypeOK, NEW type \in Types, NEW v \in Live, v.status \in Settled, Becomes(type, v)
  PROVE  LogGrows /\ SettledStay
BY BecomesEvent, Emitted DEF SettledStay

LEMMA StepGrows == TypeOK /\ History /\ Holds /\ [Next]_vars => LogGrows /\ SettledStay
<1> SUFFICES ASSUME TypeOK, History, Holds, [Next]_vars PROVE LogGrows /\ SettledStay
  OBVIOUS
<1> USE DEF stripe, ours, bounds
<1>1. ASSUME UNCHANGED <<live, log>> PROVE LogGrows /\ SettledStay
  BY <1>1, LogTypes DEF LogGrows, SettledStay, Events
<1>2. ASSUME NEW s \in Subs, OpenSession(s) PROVE LogGrows /\ SettledStay
  BY <1>2, LogTypes, OpenSessionEffect, Unpaid DEF LogGrows, SettledStay, Events
<1>3. ASSUME NEW s \in Subs, Pay(s) PROVE LogGrows /\ SettledStay
  BY <1>3, PayEffect, GrowsBy DEF Types, Settled, Paying
<1>4. ASSUME NEW s \in Subs, Turn(s) \/ Cancel(s) PROVE LogGrows /\ SettledStay
  BY <1>4, TurnEffect, GrowsBy DEF Types
<1>5. CASE DeleteOrg
  BY <1>5, Emitted, NoSubTypes DEF DeleteOrg, Types, SettledStay
<1>6. ASSUME NEW h \in Handlers, CancelAtStripe(h) PROVE LogGrows /\ SettledStay
  BY <1>1, <1>6, CancelEffect, GrowsBy DEF Types
<1>7. ASSUME NEW h \in Handlers,
             \/ \E e \in Events : Deliver(h, e)
             \/ Retrieve(h) \/ Find(h) \/ Sync(h) \/ Clear(h) \/ Close(h) \/ Answer(h)
             \/ Fails(h)
      PROVE  LogGrows /\ SettledStay
  BY <1>1, <1>7 DEF Deliver, Retrieve, Find, Sync, Clear, Close, Answer, Fails
<1>8. CASE Crash \/ ReadTrial \/ ExpireTrial \/ UNCHANGED vars
  BY <1>1, <1>8 DEF Crash, ReadTrial, ExpireTrial, vars
<1>9. QED
  BY <1>2, <1>3, <1>4, <1>5, <1>6, <1>7, <1>8 DEF Next, Providers, Work
-----------------------------------------------------------------------------
(* Types.                                                                  *)

LEMMA InitHolds == Init => IInv
<1> SUFFICES ASSUME Init PROVE IInv
  OBVIOUS
<1>1. log = <<>> /\ Len(log) = 0 /\ Events = {} /\ log \in Seq(Entry)
  BY DEF Init, Events
<1>2. TypeOK
  <2>1. \A h \in Handlers : job[h] = NoJob
    BY DEF Init
  <2>2. job \in [Handlers -> [at : Steps, ev : Events \cup {0}, sub : Live]]
    BY NoSubTypes, <1>1 DEF Init, NoJob, Steps
  <2>3. live \in [Subs -> Live] /\ row \in Row
    BY NoSubTypes DEF Init, Row, Customers
  <2>4. log \in Seq([type : Types, payload : Live]) /\ Len(log) <= MaxEvents + 1
    BY <1>1, BillingAssumption DEF Entry
  <2>5. faults \in 0..MaxFaults /\ crashes \in 0..MaxCrashes
    BY BillingAssumption DEF Init
  <2>6. QED
    BY <2>2, <2>3, <2>4, <2>5 DEF Init, TypeOK
<1>3. History
  BY <1>1, Unpaid DEF Init, History, NoSub
<1>4. OrgOnce /\ Claimed /\ AppliedOnce /\ Holds /\ FoundTenant
  BY <1>1, BillingAssumption
     DEF Init, OrgOnce, Claimed, AppliedOnce, Holds, FoundTenant, Idle, NoJob
<1>5. RowIsPaid /\ PaidByName /\ RowIsHistory
  BY DEF Init, RowIsPaid, PaidByName, RowIsHistory
<1>6. QED
  BY <1>2, <1>3, <1>4, <1>5 DEF IInv

\* The state outside Stripe keeps its types when the log grows.
LEMMA OursTyped ==
  ASSUME TypeOK, LogGrows, UNCHANGED ours
  PROVE  /\ acked' \subseteq Events' /\ claims' \subseteq Events' /\ worked' \subseteq Events'
         /\ row' \in Row /\ reader' \in {"idle", "expiring"}
         /\ job' \in [Handlers -> [at : Steps, ev : Events' \cup {0}, sub : Live]]
         /\ raced' \subseteq Handlers
         /\ faults' \in 0..MaxFaults /\ crashes' \in 0..MaxCrashes
<1>1. \A e \in Events : e \in Events'
  BY DEF LogGrows
<1>2. job \in [Handlers -> [at : Steps, ev : Events' \cup {0}, sub : Live]]
  BY <1>1 DEF TypeOK
<1>3. QED
  BY <1>1, <1>2 DEF TypeOK, ours, bounds

LEMMA StripeTyped ==
  ASSUME TypeOK, Len(log) <= MaxEvents, NEW type \in Types, NEW v \in Live, Becomes(type, v)
  PROVE  /\ live' \in [Subs -> Live]
         /\ log' \in Seq(Entry) /\ Len(log') <= MaxEvents + 1
<1>1. live' \in [Subs -> Live] /\ Emit(type, v)
  BY BecomesEvent
<1>2. log' \in Seq(Entry) /\ Len(log') = Len(log) + 1
  BY <1>1, Emitted
<1>3. QED
  BY <1>1, <1>2, LogTypes, BillingAssumption

LEMMA TypeProviders == IInv /\ Providers => TypeOK'
<1> SUFFICES ASSUME IInv, Providers PROVE TypeOK'
  OBVIOUS
<1>a. TypeOK /\ History /\ Holds
  BY DEF IInv
<1>1. LogGrows /\ SettledStay
  BY StepGrows, <1>a DEF Next
<1>2. UNCHANGED ours
  BY DEF Providers, OpenSession, Pay, Turn, Cancel, DeleteOrg
<1>3. live' \in [Subs -> Live] /\ log' \in Seq(Entry) /\ Len(log') <= MaxEvents + 1
  <2>1. ASSUME NEW s \in Subs, OpenSession(s)
        PROVE  live' \in [Subs -> Live] /\ log' \in Seq(Entry) /\ Len(log') <= MaxEvents + 1
    BY <1>a, <2>1, OpenSessionEffect DEF TypeOK, Entry
  <2>2. ASSUME NEW s \in Subs, Pay(s)
        PROVE  live' \in [Subs -> Live] /\ log' \in Seq(Entry) /\ Len(log') <= MaxEvents + 1
    <3>1. Len(log) <= MaxEvents
      BY <1>a, <2>2, LogTypes, BillingAssumption DEF Pay, Room
    <3>2. QED
      BY <1>a, <2>2, <3>1, PayEffect, StripeTyped DEF Types
  <2>3. ASSUME NEW s \in Subs, Turn(s) \/ Cancel(s)
        PROVE  live' \in [Subs -> Live] /\ log' \in Seq(Entry) /\ Len(log') <= MaxEvents + 1
    <3>1. Len(log) <= MaxEvents
      BY <1>a, <2>3, LogTypes, BillingAssumption DEF Turn, Cancel, Room
    <3>2. QED
      BY <1>a, <2>3, <3>1, TurnEffect, StripeTyped DEF Types
  <2>4. CASE DeleteOrg
    <3>1. Len(log) <= MaxEvents /\ Emit("org_deleted", NoSub(AnySub))
      BY <1>a, <2>4, LogTypes, BillingAssumption DEF DeleteOrg, Room
    <3>2. log' \in Seq(Entry) /\ Len(log') = Len(log) + 1
      BY <1>a, <3>1, NoSubTypes, Emitted DEF Types
    <3>3. QED
      BY <1>a, <2>4, <3>1, <3>2, LogTypes, BillingAssumption DEF DeleteOrg, TypeOK
  <2>5. QED
    BY <2>1, <2>2, <2>3, <2>4 DEF Providers
<1>4. orgGone' \in BOOLEAN
  BY <1>a DEF TypeOK, Providers, OpenSession, Pay, Turn, Cancel, DeleteOrg
<1>5. QED
  BY <1>a, <1>1, <1>2, <1>3, <1>4, OursTyped DEF TypeOK, Entry

LEMMA TypeStep == IInv /\ [Next]_vars => TypeOK'
<1> SUFFICES ASSUME IInv, [Next]_vars PROVE TypeOK'
  OBVIOUS
<1> USE DEF stripe, bounds
<1>a. TypeOK /\ History /\ Holds
  BY DEF IInv
<1>b. \A h \in Handlers : /\ job[h] \in [at : Steps, ev : Events \cup {0}, sub : Live]
                          /\ ~Idle(h) => job[h].ev \in Events
  BY <1>a DEF TypeOK, IInv, Claimed, Idle
<1>c. ASSUME NEW h \in Handlers, NEW j \in [at : Steps, ev : Events \cup {0}, sub : Live],
             job' = [job EXCEPT ![h] = j]
      PROVE  job' \in [Handlers -> [at : Steps, ev : Events \cup {0}, sub : Live]]
  BY <1>a, <1>c DEF TypeOK
<1>d. ASSUME NEW h \in Handlers, NEW step \in Steps, job' = [job EXCEPT ![h].at = step]
      PROVE  job' \in [Handlers -> [at : Steps, ev : Events \cup {0}, sub : Live]]
  <2>1. [job[h] EXCEPT !.at = step] \in [at : Steps, ev : Events \cup {0}, sub : Live]
    BY <1>b
  <2>2. job' = [job EXCEPT ![h] = [job[h] EXCEPT !.at = step]]
    BY <1>a, <1>d DEF TypeOK
  <2>3. QED
    BY <2>1, <2>2, <1>c
<1>e. NoJob \in [at : Steps, ev : Events \cup {0}, sub : Live]
  BY NoSubTypes DEF NoJob, Steps
<1>1. ASSUME NEW h \in Handlers, NEW e \in Events, Deliver(h, e) PROVE TypeOK'
  <2>1. UNCHANGED <<stripe, row, reader, worked>> /\ Events' = Events
    BY <1>1 DEF Deliver, Events
  <2>2. CASE Duplicate(e)
    BY <1>a, <2>1, <2>2 DEF Duplicate, TypeOK
  <2>3. CASE Claim(h, e)
    <3>1. [at |-> FirstStep(log[e].type), ev |-> e, sub |-> log[e].payload]
          \in [at : Steps, ev : Events \cup {0}, sub : Live]
      BY <1>a, LogTypes DEF FirstStep, Steps, Entry, Types
    <3>2. job' \in [Handlers -> [at : Steps, ev : Events \cup {0}, sub : Live]]
      BY <2>3, <3>1, <1>c DEF Claim
    <3>3. QED
      BY <1>a, <2>1, <2>3, <3>2 DEF Claim, TypeOK
  <2>4. CASE ClaimFails
    BY <1>a, <2>1, <2>4, BillingAssumption DEF ClaimFails, Fault, TypeOK
  <2>5. QED
    BY <1>1, <2>2, <2>3, <2>4 DEF Deliver
<1>2. ASSUME NEW h \in Handlers, Retrieve(h) PROVE TypeOK'
  <2> DEFINE j == [job[h] EXCEPT
                     !.sub = live[@.sub],
                     !.at  = IF log[job[h].ev].type = "checkout" THEN "sync" ELSE "find"]
  <2>1. j \in [at : Steps, ev : Events \cup {0}, sub : Live]
    <3>1. job[h].sub.sub \in Subs
      BY <1>b DEF Live
    <3>2. live[job[h].sub.sub] \in Live
      BY <1>a, <3>1 DEF TypeOK
    <3>3. PICK step \in Steps :
            step = IF log[job[h].ev].type = "checkout" THEN "sync" ELSE "find"
      BY DEF Steps
    <3>4. j = [job[h] EXCEPT !.sub = live[job[h].sub.sub], !.at = step]
      BY <1>b, <3>3
    <3>5. QED
      BY <1>b, <3>2, <3>4
  <2>2. job' = [job EXCEPT ![h] = j]
    BY <1>a, <1>2 DEF Retrieve, TypeOK
  <2>3. job' \in [Handlers -> [at : Steps, ev : Events \cup {0}, sub : Live]]
    BY <2>1, <2>2, <1>c
  <2>4. QED
    BY <1>a, <1>2, <2>3 DEF Retrieve, TypeOK, Events
<1>3. ASSUME NEW h \in Handlers, Find(h) PROVE TypeOK'
  <2>1. job' \in [Handlers -> [at : Steps, ev : Events \cup {0}, sub : Live]]
    BY <1>3, <1>d DEF Find, Goto, End, Steps
  <2>2. worked' \subseteq Events
    BY <1>a, <1>b, <1>3 DEF Find, Goto, End, TypeOK, Idle
  <2>3. QED
    BY <1>a, <1>3, <2>1, <2>2 DEF Find, TypeOK, Events
<1>4. ASSUME NEW h \in Handlers, Sync(h) \/ Clear(h) PROVE TypeOK'
  <2>1. /\ job' \in [Handlers -> [at : Steps, ev : Events \cup {0}, sub : Live]]
        /\ worked' \subseteq Events /\ Events' = Events
    BY <1>a, <1>b, <1>4, <1>d DEF Sync, Clear, End, Steps, TypeOK, Idle, Events
  <2>2. row' \in Row
    <3>1. CASE Sync(h)
      <4>1. job[h].sub \in Live /\ job[h].sub.status \in Settled
        BY <1>a, <1>b, <3>1 DEF Sync, Holds, Attachable
      <4>2. QED
        BY <1>a, <3>1, <4>1, BillingAssumption
           DEF Sync, Synced, MapStatus, Live, Row, TypeOK, Settled, Paying, Customers
    <3>2. CASE Clear(h)
      BY <3>2 DEF Clear, Cleared, Row, Customers
    <3>3. QED
      BY <1>4, <3>1, <3>2
  <2>3. raced' \subseteq Handlers
    BY <1>a, <1>4 DEF Sync, Clear, Detached, TypeOK
  <2>4. QED
    BY <1>a, <1>4, <2>1, <2>2, <2>3 DEF Sync, Clear, TypeOK
<1>5. ASSUME NEW h \in Handlers, Close(h) PROVE TypeOK'
  <2>1. row' \in Row
    BY <1>a, <1>5 DEF Close, Closed, Row, TypeOK, Customers
  <2>2. job' \in [Handlers -> [at : Steps, ev : Events \cup {0}, sub : Live]]
    <3>1. CASE End(h)
      BY <3>1, <1>d DEF End, Steps
    <3>2. CASE row.sub # None /\ job' = [job EXCEPT ![h].sub = live[row.sub], ![h].at = "cancel"]
      <4>1. live[row.sub] \in Live
        BY <1>a, <3>2 DEF TypeOK, Row
      <4>2. [job[h] EXCEPT !.sub = live[row.sub], !.at = "cancel"]
            \in [at : Steps, ev : Events \cup {0}, sub : Live]
        BY <1>b, <4>1 DEF Steps
      <4>3. job' = [job EXCEPT ![h] = [job[h] EXCEPT !.sub = live[row.sub], !.at = "cancel"]]
        BY <1>a, <3>2 DEF TypeOK
      <4>4. QED
        BY <4>2, <4>3, <1>c
    <3>3. QED
      BY <1>5, <3>1, <3>2 DEF Close
  <2>3. worked' \subseteq Events /\ raced' \subseteq Handlers
    BY <1>a, <1>b, <1>5 DEF Close, End, Detached, TypeOK, Idle
  <2>4. QED
    BY <1>a, <1>5, <2>1, <2>2, <2>3 DEF Close, TypeOK, Events
<1>6. ASSUME NEW h \in Handlers, CancelAtStripe(h) PROVE TypeOK'
  <2>1. job' \in [Handlers -> [at : Steps, ev : Events \cup {0}, sub : Live]]
    BY <1>6, <1>d DEF CancelAtStripe, End, Steps
  <2>2. \A e \in Events : e \in Events'
    BY <1>a, <1>6, StepGrows DEF Next, Work, LogGrows
  <2>3. worked' \subseteq Events
    BY <1>a, <1>b, <1>6 DEF CancelAtStripe, End, TypeOK, Idle
  <2>4. Len(log) <= MaxEvents
    BY <1>a, <1>b, <1>6 DEF CancelAtStripe, IInv, AppliedOnce, Holds, OrgOnce, Idle
  <2>5. live' \in [Subs -> Live] /\ log' \in Seq(Entry) /\ Len(log') <= MaxEvents + 1
    <3>1. CASE UNCHANGED <<live, log>>
      BY <1>a, <3>1 DEF TypeOK, Entry
    <3>2. QED
      BY <1>a, <1>6, <2>4, <3>1, CancelEffect, StripeTyped DEF Types
  <2>6. job' \in [Handlers -> [at : Steps, ev : Events' \cup {0}, sub : Live]]
    BY <2>1, <2>2
  <2>7. QED
    BY <1>a, <1>6, <2>2, <2>3, <2>5, <2>6 DEF CancelAtStripe, TypeOK, Entry
<1>7. ASSUME NEW h \in Handlers, Fails(h) PROVE TypeOK'
  <2>1. job' \in [Handlers -> [at : Steps, ev : Events \cup {0}, sub : Live]]
    <3>1. [job[h] EXCEPT !.at = "done"] \in [at : Steps, ev : Events \cup {0}, sub : Live]
      BY <1>b DEF Steps
    <3>2. job' = [job EXCEPT ![h] = IF job[h].at = "close" THEN NoJob
                                    ELSE [job[h] EXCEPT !.at = "done"]]
      BY <1>a, <1>7 DEF Fails, TypeOK
    <3>3. QED
      BY <3>1, <3>2, <1>c, <1>e
  <2>2. worked' \subseteq Events /\ raced' \subseteq Handlers /\ faults' \in 0..MaxFaults
    BY <1>a, <1>b, <1>7, BillingAssumption DEF Fails, Fault, TypeOK, Idle
  <2>3. QED
    BY <1>a, <1>7, <2>1, <2>2 DEF Fails, Fault, TypeOK, Events
<1>8. ASSUME NEW h \in Handlers, Answer(h) PROVE TypeOK'
  <2>1. job' \in [Handlers -> [at : Steps, ev : Events \cup {0}, sub : Live]]
    BY <1>8, <1>c, <1>e DEF Answer
  <2>2. acked' \subseteq Events /\ raced' \subseteq Handlers
    BY <1>a, <1>b, <1>8 DEF Answer, TypeOK, Idle
  <2>3. QED
    BY <1>a, <1>8, <2>1, <2>2 DEF Answer, TypeOK, Events
<1>9. CASE Crash
  <2>1. job' \in [Handlers -> [at : Steps, ev : Events \cup {0}, sub : Live]]
    BY <1>9, <1>e DEF Crash
  <2>2. QED
    BY <1>a, <1>9, <2>1, BillingAssumption DEF Crash, TypeOK, Events
<1>10. CASE ReadTrial \/ ExpireTrial
  <2>1. row' \in Row
    BY <1>a, <1>10 DEF ReadTrial, ExpireTrial, Expired, Row, TypeOK
  <2>2. QED
    BY <1>a, <1>10, <2>1 DEF ReadTrial, ExpireTrial, TypeOK, Events
<1>11. CASE UNCHANGED vars
  BY <1>a, <1>11 DEF vars, TypeOK, Events
<1>12. QED
  BY <1>1, <1>2, <1>3, <1>4, <1>5, <1>6, <1>7, <1>8, <1>9, <1>10, <1>11, TypeProviders
     DEF Next, Work

-----------------------------------------------------------------------------
(* What Stripe and Clerk have said.                                        *)

SeenNext(v) == \E e \in Events' : log'[e].payload = v
AttachableNext(v) ==
  v.status \in Settled /\ v.cust # None /\ live'[v.sub].status \in Settled

LEMMA HistoryNext ==
  ASSUME \A s \in Subs :
           /\ live'[s].sub = s
           /\ live'[s].status \in Settled => live'[s].cust # None /\ SeenNext(live'[s]),
         \A e \in Events' : log'[e].type # "org_deleted" => AttachableNext(log'[e].payload)
  PROVE  History'
BY DEF History, Seen, SeenNext, Attachable, AttachableNext

LEMMA HistoryBy ==
  ASSUME TypeOK, History, LogGrows, SettledStay, NEW s \in Subs, NEW type \in Types, NEW v \in Live,
         Becomes(type, v), v.sub = s, v.status \in Settled, v.cust # None
  PROVE  History'
<1>1. /\ \A t \in Subs : live'[t] = IF t = s THEN v ELSE live[t]
      /\ Emit(type, v) /\ SeenNext(v)
  BY BecomesEvent DEF Seen, SeenNext
<1>2. /\ \A e \in Events' : e \in Events \/ e = Len(log')
      /\ log'[Len(log')] = [type |-> type, payload |-> v]
  BY <1>1, Emitted
<1>3. ASSUME NEW t \in Subs
      PROVE  /\ live'[t].sub = t
             /\ live'[t].status \in Settled => live'[t].cust # None /\ SeenNext(live'[t])
  <2>1. CASE t = s
    BY <1>1, <2>1
  <2>2. CASE t # s
    <3>1. live'[t] = live[t] /\ live[t] \in Live
      BY <1>1, <2>2 DEF TypeOK
    <3>2. Seen(live[t]) => SeenNext(live'[t])
      BY <3>1 DEF Seen, SeenNext, LogGrows
    <3>3. QED
      BY <3>1, <3>2 DEF History
  <2>3. QED
    BY <2>1, <2>2
<1>4. AttachableNext(v)
  BY <1>1 DEF AttachableNext, Live
<1>5. ASSUME NEW e \in Events', log'[e].type # "org_deleted" PROVE AttachableNext(log'[e].payload)
  <2>1. CASE e \in Events
    <3>1. /\ log'[e] = log[e] /\ log[e].payload \in Live
          /\ Attachable(log[e].payload)
      BY <1>5, <2>1, LogTypes DEF LogGrows, Entry, History
    <3>2. QED
      BY <3>1 DEF Attachable, AttachableNext, SettledStay, Live
  <2>2. CASE e = Len(log')
    BY <1>2, <1>4, <2>2
  <2>3. QED
    BY <1>2, <2>1, <2>2
<1>6. QED
  BY <1>3, <1>5, HistoryNext

LEMMA HistoryStep == IInv /\ [Next]_vars => History'
<1> SUFFICES ASSUME IInv, [Next]_vars PROVE History'
  OBVIOUS
<1> USE DEF stripe, bounds
<1>a. TypeOK /\ History /\ Holds /\ LogGrows /\ SettledStay
  BY StepGrows DEF IInv
<1>1. ASSUME UNCHANGED <<live, log>> PROVE History'
  BY <1>a, <1>1 DEF History, Attachable, Seen, Events
<1>2. ASSUME NEW s \in Subs, OpenSession(s) PROVE History'
  <2>1. /\ log' = log /\ live[s].status = "none" /\ live'[s].status = "open" /\ live'[s].sub = s
        /\ \A t \in Subs : t # s => live'[t] = live[t]
    BY <1>a, <1>2, OpenSessionEffect DEF History
  <2>2. \A t \in Subs : /\ live'[t].sub = t
                        /\ live'[t].status \in Settled => live'[t].cust # None /\ SeenNext(live'[t])
    BY <1>a, <2>1, Unpaid DEF History, Seen, SeenNext, Events
  <2>3. \A e \in Events : log[e].type # "org_deleted" => AttachableNext(log[e].payload)
    BY <1>a, <2>1, LogTypes DEF History, Attachable, AttachableNext, SettledStay, Live, Entry
  <2>4. QED
    BY <2>1, <2>2, <2>3, HistoryNext DEF Events
<1>3. ASSUME NEW s \in Subs, Pay(s) PROVE History'
  BY <1>a, <1>3, PayEffect, HistoryBy DEF Types, Settled, Paying
<1>4. ASSUME NEW s \in Subs, Turn(s) \/ Cancel(s) PROVE History'
  <2>1. PICK v \in Live, type \in Types :
          /\ v.sub = s /\ v.cust = live[s].cust /\ {live[s].status, v.status} \subseteq Settled
          /\ Becomes(type, v)
    BY <1>a, <1>4, TurnEffect DEF Types
  <2>2. v.cust # None
    BY <1>a, <2>1 DEF History
  <2>3. QED
    BY <1>a, <2>1, <2>2, HistoryBy
<1>5. CASE DeleteOrg
  <2>1. Emit("org_deleted", NoSub(AnySub)) /\ UNCHANGED live
    BY <1>5 DEF DeleteOrg
  <2>2. /\ \A e \in Events' : e \in Events \/ e = Len(log')
        /\ log'[Len(log')].type = "org_deleted"
        /\ \A e \in Events : log'[e] = log[e]
    <3>1. NoSub(AnySub) \in Live /\ "org_deleted" \in Types
      BY NoSubTypes DEF Types
    <3>2. /\ \A e \in Events' : e \in Events \/ e = Len(log')
          /\ log'[Len(log')] = [type |-> "org_deleted", payload |-> NoSub(AnySub)]
      BY <1>a, <2>1, <3>1, Emitted
    <3>3. QED
      BY <1>a, <3>2 DEF LogGrows
  <2>3. \A s \in Subs : Seen(live[s]) => SeenNext(live'[s])
    BY <1>a, <2>1 DEF Seen, SeenNext, LogGrows
  <2>4. \A e \in Events' : log'[e].type # "org_deleted" => AttachableNext(log'[e].payload)
    BY <1>a, <2>1, <2>2 DEF History, Attachable, AttachableNext
  <2>5. QED
    BY <1>a, <2>1, <2>3, <2>4, HistoryNext DEF History
<1>6. ASSUME NEW h \in Handlers, CancelAtStripe(h) PROVE History'
  <2>1. CASE UNCHANGED <<live, log>>
    BY <2>1, <1>1
  <2>2. CASE \E s \in Subs, v \in Live :
               /\ v.sub = s /\ v.cust = live[s].cust /\ {live[s].status, v.status} \subseteq Settled
               /\ Becomes("deleted", v)
    <3>1. PICK s \in Subs, v \in Live :
            /\ v.sub = s /\ v.cust = live[s].cust /\ {live[s].status, v.status} \subseteq Settled
            /\ Becomes("deleted", v)
      BY <2>2
    <3>2. v.cust # None
      BY <1>a, <3>1 DEF History
    <3>3. QED
      BY <1>a, <3>1, <3>2, HistoryBy DEF Types
  <2>3. QED
    BY <1>a, <1>6, <2>1, <2>2, CancelEffect
<1>7. ASSUME NEW h \in Handlers,
             \/ \E e \in Events : Deliver(h, e)
             \/ Retrieve(h) \/ Find(h) \/ Sync(h) \/ Clear(h) \/ Close(h) \/ Answer(h)
             \/ Fails(h)
      PROVE  History'
  BY <1>1, <1>7 DEF Deliver, Retrieve, Find, Sync, Clear, Close, Answer, Fails
<1>8. CASE Crash \/ ReadTrial \/ ExpireTrial \/ UNCHANGED vars
  BY <1>1, <1>8 DEF Crash, ReadTrial, ExpireTrial, vars
<1>9. QED
  BY <1>2, <1>3, <1>4, <1>5, <1>6, <1>7, <1>8 DEF Next, Providers, Work

LEMMA OrgStep == IInv /\ [Next]_vars => OrgOnce'
<1> SUFFICES ASSUME IInv, [Next]_vars PROVE OrgOnce'
  OBVIOUS
<1> USE DEF stripe, bounds
<1>a. TypeOK /\ History /\ Holds /\ OrgOnce /\ LogGrows
  BY StepGrows DEF IInv
\* Steps that emit nothing.
<1>1. ASSUME UNCHANGED <<log, orgGone>>, worked \subseteq worked' PROVE OrgOnce'
  BY <1>a, <1>1 DEF OrgOnce, Events
\* Steps that emit something else.
<1>2. ASSUME NEW type \in Types \ {"org_deleted"}, NEW v \in Live, Becomes(type, v),
             UNCHANGED orgGone,
             \/ Len(log) < MaxEvents
             \/ \A e \in Events : log[e].type = "org_deleted" => e \in worked'
      PROVE  OrgOnce'
  <2>1. /\ \A e \in Events' : e \in Events \/ e = Len(log')
        /\ log'[Len(log')].type = type
        /\ Len(log') = Len(log) + 1
    <3>1. type \in Types /\ Emit(type, v)
      BY <1>2 DEF Becomes
    <3>2. /\ \A e \in Events' : e \in Events \/ e = Len(log')
          /\ log'[Len(log')] = [type |-> type, payload |-> v]
          /\ Len(log') = Len(log) + 1
      BY <1>a, <3>1, Emitted
    <3>3. QED
      BY <3>2
  <2>2. \A e \in Events' : log'[e].type = "org_deleted" => e \in Events /\ log[e].type = "org_deleted"
    BY <1>a, <1>2, <2>1 DEF LogGrows
  <2>3. \/ Len(log') <= MaxEvents
        \/ \A e \in Events' : log'[e].type = "org_deleted" => e \in worked'
    BY <1>a, <1>2, <2>1, <2>2, LogTypes, BillingAssumption
  <2>4. QED
    BY <1>a, <1>2, <2>2, <2>3 DEF OrgOnce
<1>3. ASSUME NEW s \in Subs, OpenSession(s) PROVE OrgOnce'
  BY <1>1, <1>3 DEF OpenSession, ours
<1>4. ASSUME NEW s \in Subs, Pay(s) PROVE OrgOnce'
  BY <1>2, <1>4, <1>a, PayEffect DEF Pay, Room, Types
<1>5. ASSUME NEW s \in Subs, Turn(s) \/ Cancel(s) PROVE OrgOnce'
  BY <1>2, <1>5, <1>a, TurnEffect DEF Turn, Cancel, Room, Types
<1>6. CASE DeleteOrg
  <2>1. NoSub(AnySub) \in Live /\ "org_deleted" \in Types /\ Emit("org_deleted", NoSub(AnySub))
    BY <1>6, NoSubTypes DEF DeleteOrg, Types
  <2>2. /\ \A e \in Events' : e \in Events \/ e = Len(log')
        /\ Len(log') = Len(log) + 1
    BY <1>a, <2>1, Emitted
  <2>3. \A e \in Events' : log'[e].type = "org_deleted" => e = Len(log')
    BY <1>a, <1>6, <2>2 DEF DeleteOrg, OrgOnce, LogGrows
  <2>4. Len(log') <= MaxEvents
    BY <1>a, <1>6, <2>2, LogTypes, BillingAssumption DEF DeleteOrg, Room
  <2>5. QED
    BY <1>6, <2>3, <2>4 DEF DeleteOrg, OrgOnce
<1>7. ASSUME NEW h \in Handlers, CancelAtStripe(h) PROVE OrgOnce'
  <2>1. UNCHANGED orgGone /\ worked' = worked \cup {job[h].ev}
    BY <1>7 DEF CancelAtStripe, End
  <2>2. CASE UNCHANGED <<live, log>>
    BY <2>1, <2>2, <1>1
  <2>3. CASE \E v \in Live : Becomes("deleted", v)
    <3>1. job[h].ev \in Events /\ log[job[h].ev].type = "org_deleted"
      BY <1>a, <1>7 DEF CancelAtStripe, Holds, IInv, Claimed, TypeOK, Idle
    <3>2. \A e \in Events : log[e].type = "org_deleted" => e \in worked'
      BY <1>a, <2>1, <3>1 DEF OrgOnce
    <3>3. QED
      BY <2>1, <2>3, <3>2, <1>2 DEF Types
  <2>4. QED
    BY <1>a, <1>7, <2>2, <2>3, CancelEffect
<1>8. ASSUME NEW h \in Handlers,
             \/ \E e \in Events : Deliver(h, e)
             \/ Retrieve(h) \/ Find(h) \/ Sync(h) \/ Clear(h) \/ Close(h) \/ Answer(h)
             \/ Fails(h)
      PROVE  OrgOnce'
  BY <1>1, <1>8
     DEF Deliver, Retrieve, Find, Goto, Sync, Clear, Close, End, Answer, Fails
<1>9. CASE Crash \/ ReadTrial \/ ExpireTrial \/ UNCHANGED vars
  BY <1>1, <1>9 DEF Crash, ReadTrial, ExpireTrial, vars
<1>10. QED
  BY <1>3, <1>4, <1>5, <1>6, <1>7, <1>8, <1>9 DEF Next, Providers, Work
-----------------------------------------------------------------------------
(* One delivery works on an event.                                         *)

\* A step takes hold of no event.
LEMMA ClaimsFrame ==
  ASSUME TypeOK, Claimed, AppliedOnce, claims' = claims, acked' \subseteq claims,
         \A h \in Handlers : /\ job'[h].ev \in {job[h].ev, 0}
                             /\ job'[h].at = "idle" => job'[h].ev = 0,
         \A h \in Handlers : job'[h].at # "idle" =>
           /\ job[h].at # "idle" /\ job'[h].ev = job[h].ev
           /\ job[h].at = "done" => job'[h].at = "done",
         \A e \in worked' : \/ e \in worked
                            \/ \E h \in Handlers : /\ job[h].at # "idle" /\ e = job[h].ev
                                                   /\ job'[h].at \in {"idle", "done"}
  PROVE  Claimed' /\ AppliedOnce'
<1>1. worked' \subseteq claims
  BY DEF Claimed, Idle
<1>2. Claimed'
  BY <1>1 DEF Claimed, Idle
<1>3. ASSUME NEW h \in Handlers, job'[h].at \notin {"idle", "done"}
      PROVE  job'[h].ev \notin worked'
  BY <1>3 DEF AppliedOnce, Idle
<1>4. ASSUME NEW h \in Handlers, job'[h].at # "idle", NEW g \in Handlers \ {h}
      PROVE  job'[g].ev # job'[h].ev
  <2>1. job[h].ev \in Events /\ job[h].ev # 0
    BY <1>4, LogTypes DEF Claimed, TypeOK, Idle
  <2>2. QED
    BY <1>4, <2>1 DEF AppliedOnce, Idle
<1>5. QED
  BY <1>2, <1>3, <1>4 DEF AppliedOnce, Idle

LEMMA ClaimedStep == IInv /\ [Next]_vars => Claimed' /\ AppliedOnce'
<1> SUFFICES ASSUME IInv, [Next]_vars PROVE Claimed' /\ AppliedOnce'
  OBVIOUS
<1> USE DEF stripe, bounds, ours
<1>a. TypeOK /\ Claimed /\ AppliedOnce
  BY DEF IInv
<1>0. ASSUME UNCHANGED <<acked, claims, job, worked>> PROVE Claimed' /\ AppliedOnce'
  BY <1>a, <1>0 DEF Claimed, AppliedOnce, Idle
<1>1. ASSUME NEW h \in Handlers, NEW e \in Events, Deliver(h, e) PROVE Claimed' /\ AppliedOnce'
  <2>1. CASE Duplicate(e)
    BY <1>a, <1>1, <2>1 DEF Deliver, Duplicate, Claimed, AppliedOnce, Idle
  <2>2. CASE Claim(h, e)
    <3>1. /\ claims' = claims \cup {e} /\ e \notin claims /\ e \notin worked
          /\ job'[h].ev = e /\ job'[h].at = FirstStep(log[e].type)
          /\ \A g \in Handlers : g # h => job'[g] = job[g]
          /\ acked' = acked /\ worked' = worked
      BY <1>a, <1>1, <2>2 DEF Deliver, Claim, TypeOK, Claimed
    <3>2. e # 0
      BY <1>a, LogTypes
    <3>3. \A g \in Handlers : g # h => job[g].ev # e
      BY <1>a, <3>1, <3>2 DEF Claimed, TypeOK, Idle
    <3>4. job'[h].at # "idle"
      BY <3>1 DEF FirstStep
    <3>5. Claimed'
      BY <1>a, <3>1, <3>4 DEF Claimed, Idle
    <3>6. \A g \in Handlers : job'[g].at \notin {"idle", "done"} => job'[g].ev \notin worked'
      BY <1>a, <3>1 DEF AppliedOnce, Idle
    <3>7. \A g, k \in Handlers : job'[g].at # "idle" /\ k # g => job'[k].ev # job'[g].ev
      BY <1>a, <3>1, <3>3 DEF AppliedOnce, Idle
    <3>8. QED
      BY <3>5, <3>6, <3>7 DEF AppliedOnce, Idle
  <2>3. CASE ClaimFails
    BY <1>0, <1>1, <2>3 DEF Deliver, ClaimFails
  <2>4. QED
    BY <1>1, <2>1, <2>2, <2>3 DEF Deliver
\* A delivery goes on, or comes to its end.
<1>2. ASSUME NEW h \in Handlers, ~Idle(h), job[h].at # "done",
             UNCHANGED <<acked, claims>>,
             \A g \in Handlers : g # h => job'[g] = job[g],
             \/ job'[h].at # "idle" /\ job'[h].ev = job[h].ev /\ UNCHANGED worked
             \/ /\ worked' = worked \cup {job[h].ev}
                /\ \/ job'[h] = NoJob
                   \/ job'[h].at = "done" /\ job'[h].ev = job[h].ev
      PROVE  Claimed' /\ AppliedOnce'
  <2>1. /\ \A g \in Handlers : job'[g].ev \in {job[g].ev, 0} /\ (job'[g].at = "idle" => job'[g].ev = 0)
        /\ \A g \in Handlers : job'[g].at # "idle" =>
             /\ job[g].at # "idle" /\ job'[g].ev = job[g].ev
             /\ job[g].at = "done" => job'[g].at = "done"
    BY <1>a, <1>2 DEF NoJob, Idle, Claimed
  <2>2. \A e \in worked' : \/ e \in worked
                           \/ \E g \in Handlers : /\ job[g].at # "idle" /\ e = job[g].ev
                                                  /\ job'[g].at \in {"idle", "done"}
    BY <1>2 DEF NoJob, Idle
  <2>3. QED
    BY <1>a, <1>2, <2>1, <2>2, ClaimsFrame DEF Claimed
<1>3. ASSUME NEW h \in Handlers, Retrieve(h) \/ Find(h) PROVE Claimed' /\ AppliedOnce'
  BY <1>a, <1>2, <1>3 DEF Retrieve, Find, Goto, End, TypeOK, Idle
<1>4. ASSUME NEW h \in Handlers, Sync(h) \/ Clear(h) \/ CancelAtStripe(h)
      PROVE  Claimed' /\ AppliedOnce'
  BY <1>a, <1>2, <1>4 DEF Sync, Clear, CancelAtStripe, End, TypeOK, Idle
<1>5. ASSUME NEW h \in Handlers, Close(h) PROVE Claimed' /\ AppliedOnce'
  BY <1>a, <1>2, <1>5 DEF Close, End, TypeOK, Idle
<1>6. ASSUME NEW h \in Handlers, Fails(h) PROVE Claimed' /\ AppliedOnce'
  BY <1>a, <1>2, <1>6 DEF Fails, TypeOK, Idle
<1>7. ASSUME NEW h \in Handlers, Answer(h) PROVE Claimed' /\ AppliedOnce'
  <2>1. /\ job'[h] = NoJob /\ \A g \in Handlers : g # h => job'[g] = job[g]
        /\ UNCHANGED <<claims, worked>> /\ acked' = acked \cup {job[h].ev}
    BY <1>a, <1>7 DEF Answer, TypeOK
  <2>2. acked' \subseteq claims
    BY <1>a, <1>7, <2>1 DEF Claimed, Answer, Idle
  <2>3. /\ \A g \in Handlers : job'[g].ev \in {job[g].ev, 0} /\ (job'[g].at = "idle" => job'[g].ev = 0)
        /\ \A g \in Handlers : job'[g].at # "idle" =>
             /\ job[g].at # "idle" /\ job'[g].ev = job[g].ev
             /\ job[g].at = "done" => job'[g].at = "done"
    BY <1>a, <2>1 DEF NoJob, Claimed, Idle
  <2>4. QED
    BY <1>a, <2>1, <2>2, <2>3, ClaimsFrame
<1>8. CASE Crash
  <2>1. \A h \in Handlers : job'[h] = NoJob
    BY <1>8 DEF Crash
  <2>2. UNCHANGED <<acked, claims, worked>>
    BY <1>8 DEF Crash
  <2>3. QED
    BY <1>a, <2>1, <2>2 DEF Claimed, AppliedOnce, NoJob, Idle
<1>9. CASE Providers
  BY <1>0, <1>9 DEF Providers, OpenSession, Pay, Turn, Cancel, DeleteOrg
<1>10. CASE ReadTrial \/ ExpireTrial \/ UNCHANGED vars
  BY <1>0, <1>10 DEF ReadTrial, ExpireTrial, vars
<1>11. QED
  BY <1>1, <1>3, <1>4, <1>5, <1>6, <1>7, <1>8, <1>9, <1>10 DEF Next, Work
-----------------------------------------------------------------------------
(* What a delivery holds.                                                  *)

\* A step of the webhooks or of a request leaves what Stripe has said.
HoldsNext(h) ==
  /\ job'[h].at \in {"retrieve", "find", "sync", "clear"} =>
       /\ log'[job'[h].ev].type # "org_deleted"
       /\ SeenNext(job'[h].sub) /\ AttachableNext(job'[h].sub)
  /\ job'[h].at \in {"close", "cancel"} => log'[job'[h].ev].type = "org_deleted"
  /\ job'[h].at = "cancel" => live'[job'[h].sub.sub].status \in Settled

LEMMA HoldsKept ==
  ASSUME IInv, LogGrows, SettledStay, NEW h \in Handlers,
         \/ job'[h] = job[h]
         \/ job'[h].at \in {"idle", "done"}
  PROVE  HoldsNext(h)
<1>1. CASE job'[h] = job[h] /\ ~Idle(h)
  <2>1. /\ job[h].ev \in Events /\ log'[job[h].ev] = log[job[h].ev]
        /\ job[h].sub \in Live
    BY <1>1 DEF IInv, Claimed, TypeOK, LogGrows
  <2>2. job[h].sub.sub \in Subs
    BY <2>1 DEF Live
  <2>3. /\ Seen(job[h].sub) => SeenNext(job[h].sub)
        /\ Attachable(job[h].sub) => AttachableNext(job[h].sub)
    BY <2>1, <2>2 DEF Seen, SeenNext, Attachable, AttachableNext, LogGrows, SettledStay
  <2>4. QED
    BY <1>1, <2>1, <2>2, <2>3 DEF IInv, Holds, HoldsNext, SettledStay
<1>2. CASE job'[h].at \in {"idle", "done"}
  BY <1>2 DEF HoldsNext
<1>3. QED
  BY <1>1, <1>2 DEF Idle

LEMMA HoldsStep == IInv /\ [Next]_vars => Holds'
<1> SUFFICES ASSUME IInv, [Next]_vars, NEW h \in Handlers PROVE HoldsNext(h)
  BY DEF Holds, HoldsNext, Seen, SeenNext, Attachable, AttachableNext
<1> USE DEF stripe, bounds, ours
<1>a. TypeOK /\ History /\ Holds /\ Claimed /\ LogGrows /\ SettledStay
  BY StepGrows DEF IInv
<1>b. ~Idle(h) => job[h].ev \in Events /\ job[h].sub \in Live
  BY <1>a DEF Claimed, TypeOK
\* A step of another delivery.
<1>1. ASSUME job'[h] = job[h] \/ job'[h].at \in {"idle", "done"} PROVE HoldsNext(h)
  BY <1>a, <1>1, HoldsKept
<1>2. ASSUME NEW e \in Events, Deliver(h, e) PROVE HoldsNext(h)
  <2>1. CASE Claim(h, e)
    <3>1. /\ job'[h].at = FirstStep(log[e].type) /\ job'[h].ev = e
          /\ job'[h].sub = log[e].payload
          /\ UNCHANGED <<live, log>>
      BY <1>a, <1>2, <2>1 DEF Deliver, Claim, TypeOK
    <3>2. Seen(log[e].payload)
      BY DEF Seen
    <3>3. /\ log[e].type = "org_deleted" => job'[h].at = "close"
          /\ log[e].type # "org_deleted" => job'[h].at \in {"retrieve", "find"}
      BY <3>1 DEF FirstStep
    <3>4. QED
      BY <1>a, <3>1, <3>2, <3>3
         DEF HoldsNext, History, Seen, SeenNext, Attachable, AttachableNext, Events
  <2>2. CASE Duplicate(e) \/ ClaimFails
    BY <1>1, <1>2, <2>2 DEF Duplicate, ClaimFails
  <2>3. QED
    BY <1>2, <2>1, <2>2 DEF Deliver
<1>3. ASSUME Retrieve(h) PROVE HoldsNext(h)
  <2>1. PICK s \in Subs : s = job[h].sub.sub /\ live[s].status \in Settled
    BY <1>a, <1>b, <1>3 DEF Retrieve, Holds, Attachable, Live, Idle
  <2>2. live[s] \in Live /\ live[s].sub = s /\ live[s].cust # None /\ Seen(live[s])
    BY <1>a, <2>1 DEF History, TypeOK
  <2>3. /\ job'[h].at \in {"sync", "find"} /\ job'[h].sub = live[s] /\ job'[h].ev = job[h].ev
        /\ UNCHANGED <<live, log>>
    BY <1>a, <1>3, <2>1 DEF Retrieve, TypeOK
  <2>4. QED
    BY <1>a, <1>3, <2>1, <2>2, <2>3
       DEF Retrieve, Holds, HoldsNext, Seen, SeenNext, AttachableNext, Events
<1>4. ASSUME Find(h) PROVE HoldsNext(h)
  <2>1. CASE End(h)
    BY <1>1, <1>a, <2>1 DEF End, TypeOK
  <2>2. CASE \E step \in {"clear", "sync"} : Goto(h, step)
    <3>1. /\ job'[h].at \in {"clear", "sync"} /\ job'[h].sub = job[h].sub
          /\ job'[h].ev = job[h].ev /\ UNCHANGED <<live, log>>
      BY <1>a, <1>4, <2>2 DEF Goto, Find, TypeOK
    <3>2. QED
      BY <1>a, <1>4, <3>1
         DEF Find, Holds, HoldsNext, Seen, SeenNext, Attachable, AttachableNext, Events
  <2>3. QED
    BY <1>4, <2>1, <2>2 DEF Find
<1>5. ASSUME Sync(h) \/ Clear(h) \/ CancelAtStripe(h) PROVE HoldsNext(h)
  BY <1>1, <1>a, <1>5 DEF Sync, Clear, CancelAtStripe, End, TypeOK
<1>6. ASSUME Close(h) PROVE HoldsNext(h)
  <2>1. CASE End(h)
    BY <1>1, <1>a, <2>1 DEF End, TypeOK
  <2>2. CASE row.sub # None /\ job' = [job EXCEPT ![h].sub = live[row.sub], ![h].at = "cancel"]
    <3>1. PICK s \in Subs : s = row.sub /\ live[s].sub = s /\ live[s].status \in Settled
      BY <1>a, <2>2 DEF TypeOK, Row, IInv, RowIsPaid, History
    <3>2. /\ job'[h].at = "cancel" /\ job'[h].sub = live[s] /\ job'[h].ev = job[h].ev
          /\ UNCHANGED <<live, log>>
      BY <1>a, <1>6, <2>2, <3>1 DEF Close, TypeOK
    <3>3. QED
      BY <1>a, <1>6, <3>1, <3>2 DEF Close, Holds, HoldsNext
  <2>3. QED
    BY <1>6, <2>1, <2>2 DEF Close
<1>7. ASSUME Fails(h) \/ Answer(h) PROVE HoldsNext(h)
  BY <1>1, <1>a, <1>7 DEF Fails, Answer, NoJob, TypeOK
<1>8. ASSUME NEW g \in Handlers, g # h,
             \/ \E e \in Events : Deliver(g, e)
             \/ Work(g) \/ Fails(g)
      PROVE  HoldsNext(h)
  <2>1. job'[h] = job[h]
    BY <1>a, <1>8
       DEF TypeOK, Deliver, Duplicate, Claim, ClaimFails, Work, Retrieve, Find, Goto, Sync,
           Clear, Close, CancelAtStripe, End, Answer, Fails
  <2>2. QED
    BY <1>1, <2>1
<1>9. CASE Crash
  BY <1>1, <1>9 DEF Crash, NoJob
<1>10. CASE Providers
  BY <1>1, <1>10 DEF Providers, OpenSession, Pay, Turn, Cancel, DeleteOrg
<1>11. CASE ReadTrial \/ ExpireTrial \/ UNCHANGED vars
  BY <1>1, <1>11 DEF ReadTrial, ExpireTrial, vars
<1>12. QED
  BY <1>2, <1>3, <1>4, <1>5, <1>6, <1>7, <1>8, <1>9, <1>10, <1>11 DEF Next, Work
-----------------------------------------------------------------------------
(* The tenant's row.                                                       *)

RowOK == RowIsPaid /\ PaidByName /\ RowIsHistory

\* A row that says less than it did, or the same.
LEMMA RowKept ==
  ASSUME IInv, LogGrows, SettledStay,
         \/ row' = row \/ row' = Expired(row)
         \/ row'.sub = None /\ row'.cust = None /\ row'.status = "canceled"
  PROVE  RowOK'
<1>a. TypeOK /\ RowIsPaid /\ PaidByName /\ RowIsHistory
  BY DEF IInv
<1>1. CASE row'.sub = None /\ row'.cust = None /\ row'.status = "canceled"
  BY <1>1 DEF RowOK, RowIsPaid, PaidByName, RowIsHistory
<1>2. CASE row' = row \/ row' = Expired(row)
  <2>1. /\ row'.sub = row.sub /\ row'.cust = row.cust /\ row'.plan = row.plan
        /\ row'.status \in {row.status, "trial_expired"}
    BY <1>a, <1>2 DEF TypeOK, Row, Expired
  <2>2. RowIsPaid' /\ PaidByName'
    BY <1>a, <2>1 DEF RowIsPaid, PaidByName, SettledStay, TypeOK, Row
  <2>3. RowIsHistory'
    BY <1>a, <2>1 DEF RowIsHistory, LogGrows
  <2>4. QED
    BY <2>2, <2>3 DEF RowOK
<1>3. QED
  BY <1>1, <1>2

LEMMA DetachedRow ==
  ASSUME TypeOK, NEW h \in Handlers, Clear(h) \/ Close(h)
  PROVE  row'.sub = None /\ row'.cust = None /\ row'.status = "canceled"
<1>1. \A r \in Row : /\ Closed(r).sub = None /\ Closed(r).cust = None
                     /\ Closed(r).status = "canceled"
  BY DEF Row, Closed
<1>2. QED
  BY <1>1 DEF TypeOK, Clear, Close, Cleared

LEMMA RowStep == IInv /\ [Next]_vars => RowOK'
<1> SUFFICES ASSUME IInv, [Next]_vars PROVE RowOK'
  OBVIOUS
<1> USE DEF stripe, bounds, ours
<1>a. TypeOK /\ Holds /\ LogGrows /\ SettledStay
  BY StepGrows DEF IInv
<1>1. ASSUME row' = row PROVE RowOK'
  BY <1>a, <1>1, RowKept
<1>2. ASSUME NEW h \in Handlers, Sync(h) PROVE RowOK'
  <2>1. CASE job[h].sub.plan = "unpriced"
    BY <1>1, <1>2, <2>1 DEF Sync, Synced
  <2>2. CASE job[h].sub.plan # "unpriced"
    <3> DEFINE v == job[h].sub
    <3>1. /\ row' = [plan |-> v.plan, status |-> MapStatus(v.status), cust |-> v.cust, sub |-> v.sub]
          /\ UNCHANGED <<live, log>>
      BY <1>2, <2>2 DEF Sync, Synced
    <3>2. v \in Live /\ v.sub # None /\ v.cust # None /\ Seen(v) /\ Attachable(v)
      BY <1>a, <1>2, BillingAssumption DEF Sync, TypeOK, Live, Holds, Attachable
    <3>3. RowIsPaid' /\ PaidByName'
      BY <3>1, <3>2 DEF RowIsPaid, PaidByName, Attachable
    <3>4. RowIsHistory'
      BY <3>1, <3>2 DEF RowIsHistory, Seen, Events
    <3>5. QED
      BY <3>3, <3>4 DEF RowOK
  <2>3. QED
    BY <2>1, <2>2
<1>3. ASSUME NEW h \in Handlers, Clear(h) \/ Close(h) PROVE RowOK'
  <2>1. row'.sub = None /\ row'.cust = None /\ row'.status = "canceled"
    BY <1>a, <1>3, DetachedRow
  <2>2. QED
    BY <1>a, <2>1, RowKept
<1>4. CASE ExpireTrial
  BY <1>a, <1>4, RowKept DEF ExpireTrial
<1>5. ASSUME NEW h \in Handlers,
             \/ \E e \in Events : Deliver(h, e)
             \/ Retrieve(h) \/ Find(h) \/ CancelAtStripe(h) \/ Answer(h) \/ Fails(h)
      PROVE  RowOK'
  BY <1>1, <1>5 DEF Deliver, Retrieve, Find, CancelAtStripe, Answer, Fails
<1>6. CASE Providers
  BY <1>1, <1>6 DEF Providers, OpenSession, Pay, Turn, Cancel, DeleteOrg
<1>7. CASE Crash \/ ReadTrial \/ UNCHANGED vars
  BY <1>1, <1>7 DEF Crash, ReadTrial, vars
<1>8. QED
  BY <1>2, <1>3, <1>4, <1>5, <1>6, <1>7 DEF Next, Work

\* Who may attach the row is known before it does.
Attaches(h) ==
  /\ job[h].at = "sync" /\ job'[h].at = "done"
  /\ log[job[h].ev].type = "checkout" \/ h \in raced

LEMMA FoundStep ==
  IInv /\ [Next]_vars =>
    /\ FoundTenant'
    /\ row.sub = None /\ row'.sub # None => \E h \in Handlers : Attaches(h)
<1> DEFINE Revived == row.sub = None /\ row'.sub # None
           Goal == FoundTenant' /\ (Revived => \E h \in Handlers : Attaches(h))
           Found(h) == job'[h].at = "sync" /\ log'[job'[h].ev].type # "checkout" =>
                         row'.sub # None \/ h \in raced'
<1> SUFFICES ASSUME IInv, [Next]_vars PROVE Goal
  OBVIOUS
<1> USE DEF stripe, bounds, ours
<1>a. TypeOK /\ Claimed /\ FoundTenant /\ PaidByName /\ LogGrows
  BY StepGrows DEF IInv
<1>b. \A h \in Handlers : job[h].at # "idle" => log'[job[h].ev] = log[job[h].ev]
  BY <1>a DEF Claimed, Idle, TypeOK, LogGrows
\* Steps that leave the row attached, and remember who was there.
<1>1. ASSUME row.sub = None \/ row'.sub # None, row' # row => ~Revived,
             \A h \in Handlers : /\ job'[h].at = "sync" => job'[h] = job[h]
                                 /\ job'[h] = job[h] /\ h \in raced => h \in raced'
      PROVE  Goal
  <2>1. \A h \in Handlers : Found(h)
    BY <1>a, <1>b, <1>1 DEF FoundTenant
  <2>2. QED
    BY <1>1, <2>1 DEF FoundTenant
\* Steps that detach the row.
<1>2. ASSUME NEW h \in Handlers, Clear(h) \/ Close(h) PROVE Goal
  <2>1. /\ row'.sub = None /\ raced' = {g \in Handlers : job[g].at # "idle"}
        /\ \A g \in Handlers : job'[g].at = "sync" => job'[g] = job[g]
    <3>1. raced' = {g \in Handlers : job[g].at # "idle"}
      BY <1>2 DEF Clear, Close, Detached, Idle
    <3>2. job'[h].at # "sync" /\ \A g \in Handlers : g # h => job'[g] = job[g]
      BY <1>a, <1>2 DEF Clear, Close, End, TypeOK
    <3>3. QED
      BY <1>a, <1>2, <3>1, <3>2, DetachedRow
  <2>2. \A g \in Handlers : Found(g)
    BY <2>1
  <2>3. QED
    BY <2>1, <2>2 DEF FoundTenant
<1>3. ASSUME NEW h \in Handlers, Sync(h) PROVE Goal
  <2>1. /\ job'[h].at = "done" /\ \A g \in Handlers : g # h => job'[g] = job[g]
        /\ job[h].at = "sync" /\ UNCHANGED <<log, raced>>
        /\ row' = Synced(row, job[h].sub)
    BY <1>a, <1>3 DEF Sync, End, TypeOK
  <2>2. row.sub # None => row'.sub # None
    BY <1>a, <2>1, BillingAssumption DEF Synced, TypeOK, Live
  <2>3. \A g \in Handlers : Found(g)
    BY <1>a, <2>1, <2>2 DEF FoundTenant
  <2>4. Revived => Attaches(h)
    BY <1>a, <2>1 DEF Attaches, FoundTenant
  <2>5. QED
    BY <2>3, <2>4 DEF FoundTenant
<1>4. ASSUME NEW h \in Handlers, Find(h) PROVE Goal
  <2>1. /\ UNCHANGED <<row, log, raced>>
        /\ \A g \in Handlers : g # h => job'[g] = job[g]
        /\ job'[h].at = "sync" => row.cust # None
    BY <1>a, <1>4 DEF Find, Finds, Goto, End, TypeOK
  <2>2. \A g \in Handlers : Found(g)
    BY <1>a, <2>1 DEF FoundTenant, PaidByName
  <2>3. QED
    BY <2>1, <2>2 DEF FoundTenant
<1>5. ASSUME NEW h \in Handlers, Retrieve(h) PROVE Goal
  <2>1. /\ UNCHANGED <<row, log, raced>>
        /\ \A g \in Handlers : g # h => job'[g] = job[g]
        /\ job'[h].ev = job[h].ev
        /\ job'[h].at = "sync" => log[job[h].ev].type = "checkout"
    BY <1>a, <1>5 DEF Retrieve, TypeOK
  <2>2. \A g \in Handlers : Found(g)
    BY <1>a, <2>1 DEF FoundTenant
  <2>3. QED
    BY <2>1, <2>2 DEF FoundTenant
<1>6. ASSUME NEW h \in Handlers, NEW e \in Events, Deliver(h, e) PROVE Goal
  <2>1. UNCHANGED <<row, raced>>
    BY <1>6 DEF Deliver, Duplicate, Claim, ClaimFails
  <2>2. \A g \in Handlers : job'[g].at = "sync" => job'[g] = job[g]
    BY <1>a, <1>6 DEF Deliver, Duplicate, Claim, ClaimFails, FirstStep, TypeOK
  <2>3. QED
    BY <1>1, <2>1, <2>2
<1>7. ASSUME NEW h \in Handlers, CancelAtStripe(h) \/ Answer(h) \/ Fails(h) PROVE Goal
  <2>1. UNCHANGED row
    BY <1>7 DEF CancelAtStripe, Answer, Fails
  <2>2. \A g \in Handlers : g # h => job'[g] = job[g] /\ (g \in raced => g \in raced')
    BY <1>a, <1>7 DEF CancelAtStripe, Answer, Fails, End, TypeOK
  <2>3. job'[h].at \in {"idle", "done"} /\ job'[h] # job[h]
    BY <1>a, <1>7 DEF CancelAtStripe, Answer, Fails, End, TypeOK, NoJob
  <2>4. QED
    BY <1>1, <2>1, <2>2, <2>3
<1>8. CASE Crash
  <2>1. UNCHANGED row /\ \A h \in Handlers : job'[h].at # "sync"
    BY <1>8 DEF Crash, NoJob
  <2>2. QED
    BY <2>1 DEF FoundTenant
<1>9. CASE Providers
  BY <1>1, <1>9 DEF Providers, OpenSession, Pay, Turn, Cancel, DeleteOrg
<1>10. CASE ReadTrial \/ ExpireTrial \/ UNCHANGED vars
  <2>1. row'.sub = row.sub /\ UNCHANGED <<job, raced>>
    BY <1>a, <1>10 DEF ReadTrial, ExpireTrial, Expired, vars, TypeOK, Row
  <2>2. QED
    BY <1>1, <2>1
<1>11. QED
  <2> HIDE DEF Goal
  <2>1. QED
    BY <1>2, <1>3, <1>4, <1>5, <1>6, <1>7, <1>8, <1>9, <1>10 DEF Next, Work
-----------------------------------------------------------------------------
(* Events a crash cut off.                                                 *)

InHand == {job[h].ev : h \in Handlers}
Lost   == claims \ (worked \cup InHand)

\* A delivery at its end has worked on its event; each crash loses what the
\* deliveries of the moment have in hand, no other step loses any.
LossInv ==
  /\ \A h \in Handlers : job[h].at = "done" => job[h].ev \in worked
  /\ Cardinality(Lost) <= crashes * Cardinality(Handlers)

LEMMA Finite ==
  ASSUME TypeOK
  PROVE  /\ IsFiniteSet(claims) /\ IsFiniteSet(Lost) /\ IsFiniteSet(InHand)
         /\ Cardinality(Lost) \in Nat /\ Cardinality(Handlers) \in Nat
         /\ Cardinality(InHand) \in Nat /\ Cardinality(InHand) <= Cardinality(Handlers)
         /\ crashes \in Nat
<1>1. Events = 1..Len(log) /\ Len(log) \in Nat /\ claims \subseteq Events
  BY LogTypes DEF TypeOK
<1>2. IsFiniteSet(claims)
  <2>1. IsFiniteSet(1..Len(log))
    BY <1>1, FS_Interval
  <2>2. QED
    BY <1>1, <2>1, FS_Subset
<1>3. IsFiniteSet(Lost)
  BY <1>2, FS_Subset DEF Lost
<1>4. IsFiniteSet(InHand) /\ Cardinality(InHand) <= Cardinality(Handlers)
  <2>1. [h \in Handlers |-> job[h].ev] \in Surjection(Handlers, InHand)
    BY DEF Surjection, InHand
  <2>2. QED
    BY <2>1, BillingAssumption, FS_Surjection
<1>5. crashes \in Nat
  BY BillingAssumption DEF TypeOK
<1>6. QED
  BY <1>2, <1>3, <1>4, <1>5, BillingAssumption, FS_CardinalityType

\* A step that loses no event.
LEMMA LosesNone ==
  ASSUME TypeOK, LossInv, Lost' \subseteq Lost, crashes' = crashes
  PROVE  Cardinality(Lost)' <= crashes' * Cardinality(Handlers)
<1>1. Cardinality(Lost') <= Cardinality(Lost) /\ IsFiniteSet(Lost') /\ Cardinality(Lost') \in Nat
  BY Finite, FS_Subset, FS_CardinalityType
<1>2. PICK n \in Nat : n = crashes * Cardinality(Handlers)
  BY Finite
<1>3. QED
  BY <1>1, <1>2, Finite DEF LossInv

LEMMA LossStep == IInv /\ LossInv /\ [Next]_vars => LossInv'
<1> DEFINE DoneWorked == \A h \in Handlers : job'[h].at = "done" => job'[h].ev \in worked'
<1> SUFFICES ASSUME IInv, LossInv, [Next]_vars PROVE LossInv'
  OBVIOUS
<1> USE DEF stripe, bounds, ours
<1>a. TypeOK /\ Claimed /\ AppliedOnce
  BY DEF IInv
<1>b. 0 \notin claims
  BY <1>a, LogTypes DEF TypeOK
<1>0. ASSUME DoneWorked, crashes' = crashes, worked \subseteq worked',
             \A e \in claims' : \/ e \in worked'
                                \/ e \in claims /\ \A h \in Handlers : job[h].ev # e
                                \/ \E h \in Handlers : job'[h].ev = e
      PROVE  LossInv'
  <2>1. Lost' \subseteq Lost
    BY <1>0 DEF Lost, InHand
  <2>2. QED
    BY <1>a, <1>0, <2>1, LosesNone DEF LossInv
\* A delivery goes on with its event, works on it to its end, or answers.
<1>1. ASSUME NEW h \in Handlers, UNCHANGED <<claims, crashes>>,
             \A g \in Handlers : g # h => job'[g] = job[g],
             \/ job'[h].ev = job[h].ev /\ job'[h].at # "done" /\ UNCHANGED worked
             \/ worked' = worked \cup {job[h].ev} /\ job'[h].at = "done" /\ job'[h].ev = job[h].ev
             \/ job'[h] = NoJob /\ (job[h].at = "done" \/ job[h].ev \in worked') /\ worked \subseteq worked'
      PROVE  LossInv'
  <2>1. DoneWorked
    BY <1>1 DEF LossInv, NoJob
  <2>2. \A e \in claims : \/ e \in worked'
                          \/ \A g \in Handlers : job[g].ev # e
                          \/ \E g \in Handlers : job'[g].ev = e
    BY <1>1 DEF LossInv
  <2>3. QED
    BY <1>0, <1>1, <2>1, <2>2
<1>2. ASSUME UNCHANGED <<claims, crashes, job, worked>> PROVE LossInv'
  BY <1>0, <1>2 DEF LossInv
<1>3. ASSUME NEW h \in Handlers, NEW e \in Events, Deliver(h, e) PROVE LossInv'
  <2>1. CASE Claim(h, e)
    <3>1. /\ claims' = claims \cup {e} /\ job'[h].ev = e /\ job'[h].at # "done"
          /\ \A g \in Handlers : g # h => job'[g] = job[g]
          /\ UNCHANGED <<worked, crashes>> /\ job[h].ev = 0
      BY <1>a, <1>3, <2>1 DEF Deliver, Claim, TypeOK, FirstStep, Claimed
    <3>2. DoneWorked
      BY <3>1 DEF LossInv
    <3>3. \A c \in claims' : \/ c \in claims /\ \A g \in Handlers : job[g].ev # c
                             \/ \E g \in Handlers : job'[g].ev = c
      BY <1>b, <3>1
    <3>4. QED
      BY <1>0, <3>1, <3>2, <3>3
  <2>2. CASE Duplicate(e) \/ ClaimFails
    BY <1>2, <1>3, <2>2 DEF Deliver, Duplicate, ClaimFails, Fault
  <2>3. QED
    BY <1>3, <2>1, <2>2 DEF Deliver
<1>4. ASSUME NEW h \in Handlers, Retrieve(h) \/ Find(h) \/ Sync(h) \/ Clear(h) PROVE LossInv'
  BY <1>a, <1>1, <1>4 DEF Retrieve, Find, Sync, Clear, Goto, End, TypeOK
<1>5. ASSUME NEW h \in Handlers, Close(h) \/ CancelAtStripe(h) PROVE LossInv'
  BY <1>a, <1>1, <1>5 DEF Close, CancelAtStripe, End, TypeOK
<1>6. ASSUME NEW h \in Handlers, Fails(h) \/ Answer(h) PROVE LossInv'
  BY <1>a, <1>1, <1>6 DEF Fails, Fault, Answer, TypeOK
<1>7. CASE Crash
  <2>1. Lost' \subseteq Lost \cup InHand
    BY <1>7 DEF Crash, Lost, InHand
  <2>2. /\ IsFiniteSet(Lost \cup InHand)
        /\ Cardinality(Lost \cup InHand) <= Cardinality(Lost) + Cardinality(InHand)
    <3>1. Cardinality(Lost \cup InHand)
          = Cardinality(Lost) + Cardinality(InHand) - Cardinality(Lost \cap InHand)
      BY <1>a, Finite, FS_Union
    <3>2. Cardinality(Lost \cap InHand) \in Nat
      BY <1>a, Finite, FS_Subset, FS_CardinalityType
    <3>3. QED
      BY <1>a, <3>1, <3>2, Finite, FS_Union
  <2>3. Cardinality(Lost') <= Cardinality(Lost \cup InHand) /\ Cardinality(Lost') \in Nat
    BY <2>1, <2>2, FS_Subset, FS_CardinalityType
  <2>4. Cardinality(Lost \cup InHand) \in Nat
    BY <2>2, FS_CardinalityType
  <2>5. PICK n \in Nat, c \in Nat : n = Cardinality(Handlers) /\ c = crashes
    BY <1>a, Finite
  <2>6. c * n \in Nat /\ (c + 1) * n = c * n + n
    OBVIOUS
  <2>7. Cardinality(Lost') <= crashes' * Cardinality(Handlers)
    BY <1>a, <1>7, <2>2, <2>3, <2>4, <2>5, <2>6, Finite DEF Crash, LossInv
  <2>8. DoneWorked
    BY <1>7 DEF Crash, NoJob
  <2>9. QED
    BY <2>7, <2>8 DEF LossInv
<1>8. CASE Providers
  BY <1>2, <1>8 DEF Providers, OpenSession, Pay, Turn, Cancel, DeleteOrg
<1>9. CASE ReadTrial \/ ExpireTrial \/ UNCHANGED vars
  BY <1>2, <1>9 DEF ReadTrial, ExpireTrial, vars
<1>10. QED
  BY <1>3, <1>4, <1>5, <1>6, <1>7, <1>8, <1>9 DEF Next, Work
-----------------------------------------------------------------------------
(* Theorems.                                                               *)

LEMMA Inductive == IInv /\ [Next]_vars => IInv'
<1> SUFFICES ASSUME IInv, [Next]_vars PROVE IInv'
  OBVIOUS
<1>1. TypeOK' /\ History' /\ OrgOnce' /\ Claimed' /\ AppliedOnce' /\ Holds'
  BY TypeStep, HistoryStep, OrgStep, ClaimedStep, HoldsStep
<1>2. FoundTenant' /\ RowOK'
  BY FoundStep, RowStep
<1>3. QED
  BY <1>1, <1>2 DEF IInv, RowOK

LEMMA Invariance == Spec => []IInv
BY InitHolds, Inductive, PTL DEF Spec

\* The row, the log, the claims and every delivery hold values of their types;
\* a delivery that stores a status has one the column knows, and Stripe emits
\* one event past the bound at most, for the deletion of the organisation.
THEOREM TypeCorrect == Spec => []TypeOK
<1>1. IInv => TypeOK
  BY DEF IInv
<1>2. QED
  BY <1>1, Invariance, PTL

\* claimWebhookEvent: with any number of deliveries, overlapping, failing or
\* cut off, an event is worked on by one, and by none after it has ended.
THEOREM WorkedByOne == Spec => []AppliedOnce
<1>1. IInv => AppliedOnce
  BY DEF IInv
<1>2. QED
  BY <1>1, Invariance, PTL

\* The webhooks of Stripe and of Clerk and the end of a trial write one row:
\* it never names a customer without a subscription or the other way round, and
\* is never open to a paying tenant without one.
THEOREM NamedWhenPaid == Spec => []PaidByName
<1>1. IInv => PaidByName
  BY DEF IInv
<1>2. QED
  BY <1>1, Invariance, PTL

\* syncSaasSubscriptionFromStripe: what the row says of a subscription Stripe
\* has said of it, however events are reordered, repeated or overtaken.
THEOREM RowTellsHistory == Spec => []RowIsHistory
<1>1. IInv => RowIsHistory
  BY DEF IInv
<1>2. QED
  BY <1>1, Invariance, PTL

\* A detached row is attached again by a checkout, or by a delivery that was at
\* work when it was detached; no later update or invoice does.
THEOREM DetachedStays == Spec => NoRevival
<1>1. IInv /\ [Next]_vars =>
        [row.sub = None /\ row'.sub # None => \E h \in Handlers : Attaches(h)]_vars
  BY FoundStep
<1>2. QED
  BY <1>1, Invariance, PTL DEF Spec, NoRevival, Attaches

\* BILL-02: whatever fails, the only events answered with 2xx and never worked
\* on are those that a delivery held when the process went, one per delivery.
THEOREM LostToCrashes == Spec => []LostOnlyInFlight
<1>1. Init => IInv /\ LossInv
  <2> SUFFICES ASSUME Init PROVE LossInv
    BY InitHolds
  <2>1. Lost = {} /\ Cardinality({}) = 0 /\ crashes = 0
    BY FS_EmptySet DEF Init, Lost
  <2>2. Cardinality(Handlers) \in Nat
    BY BillingAssumption, FS_CardinalityType
  <2>3. QED
    BY <2>1, <2>2 DEF Init, LossInv, NoJob
<1>2. IInv /\ LossInv /\ [Next]_vars => IInv' /\ LossInv'
  BY Inductive, LossStep
<1>3. IInv /\ LossInv => LostOnlyInFlight
  <2> SUFFICES ASSUME IInv, LossInv PROVE LostOnlyInFlight
    OBVIOUS
  <2> DEFINE Skipped == acked \ (worked \cup InHand)
  <2>1. TypeOK /\ Skipped \subseteq Lost
    BY DEF IInv, Claimed, Lost
  <2>2. Cardinality(Skipped) <= Cardinality(Lost) /\ Cardinality(Skipped) \in Nat
    BY <2>1, Finite, FS_Subset, FS_CardinalityType
  <2>3. PICK n \in Nat : n = crashes * Cardinality(Handlers)
    BY <2>1, Finite
  <2>4. Cardinality(Skipped) <= crashes * Cardinality(Handlers)
    BY <2>1, <2>2, <2>3, Finite DEF LossInv
  <2>5. QED
    BY <2>4 DEF LostOnlyInFlight, InHand
<1>4. QED
  BY <1>1, <1>2, <1>3, PTL DEF Spec
=============================================================================
