-------------------------------- MODULE Drift --------------------------------
(* The drift pipeline of several tenants' hosts: snapshots of scans and pushes
   go through the engine, the tenant's policies and its mutes into the row of
   the host's events and the alerts; operators create and delete policies and
   mutes, and accept findings into the baseline.

   Every host has a tenant and a baseline.  Nobody awaits the writes of a row:
   they land in any order, after what their process has done since, or never.
   Baselines that come and go and snapshots out of a cache are Hosts's. *)
EXTENDS DriftEngine, Naturals, FiniteSets

CONSTANTS
  Hosts, Tenants, None,
  Owner,       \* [Hosts -> Tenants]: here no two tenants share a host id
  Stem,        \* what is left of a host's name in the id of a policy's event
  Pipes,       \* scans and pushes in flight: pairs of a host and a number
  Clean,       \* what the hosts were like when their baselines were captured
  Later,       \* what they are like at first here
  Exposed,     \* what may change: kind and name, ssh and field, or the firewall
  MuteRules,   \* the mutes there may be, and are at first
  PolicyRules, \* the policies likewise
  MaxChanges,  \* bound: changes of the hosts' configurations
  MaxOps,      \* bound: mutes created, policies deleted and findings accepted
  MaxFaults,   \* bound: failing queries and collections
  MaxIds,      \* bound: findings accepted at once
  MaxWrites    \* bound: writes of one row under way

VARIABLES
  world,      \* what each host is like
  baseline,   \* its baseline
  row,        \* its events, in Postgres
  writes,     \* the writes of its row under way (two equal ones count as one)
  mutes, policies,
  pipe,       \* each scan or push
  accept,     \* POST /drift/accept-baseline
  alerted,    \* ids that processings of a host have alerted of
  unverified, \* hosts whose row stems from a processing that could not
              \* evaluate the policies
  changes, ops, faults

hosts    == <<world, baseline, row, writes>>
rules    == <<mutes, policies>>
history  == <<alerted, unverified>>
counters == <<changes, ops, faults>>
vars     == <<hosts, rules, pipe, accept, history, counters>>

Categories == {"ssh", "network_exposure", "firewall", "packages", "integrity",
               "identity", "privilege_escalation", "persistence"}
Severities == {"high", "medium", "low"}
FirewallActive == <<"firewall", "active">>

ASSUME DriftAssumption ==
  /\ Owner \in [Hosts -> Tenants] /\ DOMAIN Stem = Hosts
  /\ Pipes \subseteq Hosts \X Nat
  /\ {Clean, Later} \subseteq Snapshots /\ None \notin Hosts \cup Snapshots
  /\ Exposed \subseteq (ListKinds \X Names) \cup ({"ssh"} \X SshFields) \cup {FirewallActive}
  /\ \A m \in MuteRules :
       m.tenant \in Tenants /\ m.category \in Categories /\ m.host \in Hosts \cup {None}
  /\ \A p \in PolicyRules :
       p.tenant \in Tenants /\ p.category \in Categories /\ p.severity \in Severities
  /\ {MaxChanges, MaxOps, MaxFaults, MaxIds, MaxWrites} \subseteq Nat

NoPipe   == [at |-> "idle", snap |-> Clean, found |-> {}, failed |-> FALSE]
NoAccept == [at |-> "idle", tenant |-> None, ids |-> {}, hosts |-> {}, todo |-> {},
             host |-> None, seen |-> {}, blind |-> FALSE, got |-> [h \in Hosts |-> None]]

Ids(events)    == {e.id : e \in events}
Of(tenant)     == {h \in Hosts : Owner[h] = tenant}
Open(events)   == {e \in events : e.lifecycle # "accepted_risk"}
Alarms(events) == {e \in Open(events) : e.severity = "high"}

\* A query or a collection fails; every caller below catches it.
Fault == faults < MaxFaults /\ faults' = faults + 1
Works == UNCHANGED faults
Operator == ops < MaxOps /\ ops' = ops + 1

------------------------------------------------------------------------------
(* The hosts, and what a collection finds there. *)

\* The snapshots that differ from s in one setting.
Variants(s, k, n) ==
  CASE k = "ssh" ->
         {[s EXCEPT !.ssh[n] = v] :
            v \in {"yes", "no"} \cup (IF n = "permitRootLogin" THEN {"without-password"} ELSE {})}
    [] k = "firewall" -> {[s EXCEPT !.active = ~s.active]}
    [] OTHER -> {[s EXCEPT ![k][n] = v] : v \in Values \cup {Absent}}

Change(h) ==
  /\ changes < MaxChanges /\ changes' = changes + 1
  /\ \E x \in Exposed : \E s \in Variants(world[h], x[1], x[2]) :
       s # world[h] /\ world' = [world EXCEPT ![h] = s]
  /\ UNCHANGED <<baseline, row, writes, rules, pipe, accept, history, ops, faults>>

\* A command of the bundle that prints nothing leaves its section empty, and
\* nobody can tell.
Blanked(s) ==
  {[s EXCEPT ![k] = Nothing] : k \in {l \in ListKinds : s[l] # Nothing}}
    \cup {[s EXCEPT !.ssh = [f \in SshFields |-> "unknown"]],
          [s EXCEPT !.active = FALSE, !.rules = Nothing]}

\* The snapshot s of host h.
Collected(h, s) ==
  \/ s = world[h] /\ Works
  \/ s \in Blanked(world[h]) \ {world[h]} /\ Fault

------------------------------------------------------------------------------
(* Policies and mutes. *)

\* extractValue: a dotted path into the snapshot.
Extract(s, key) ==
  IF key[1] = "ssh" /\ key[2] \in SshFields THEN s.ssh[key[2]]
  ELSE IF key = FirewallActive THEN IF s.active THEN "true" ELSE "false"
  ELSE "undefined"

Violation(h, p) ==
  Finding(h, <<"policy", p.id, Stem[h]>>, {"policy", p.id}, p.category, p.severity)

\* A key that is not in the snapshot is no violation.
evaluatePolicies(h, s, ps) ==
  {Violation(h, p) : p \in {q \in ps : Extract(s, q.key) \notin {"undefined", q.value}}}

PolicyFailure(h) ==
  Finding(h, <<"policy", "failure", h>>, {"policy", "failure"}, "policy_failure", "high")

PoliciesOf(tenant) == {p \in policies : p.tenant = tenant}
MutesOf(tenant)    == {m \in mutes : m.tenant = tenant}

\* The pattern is looked for in the title.
Covers(m, e) ==
  m.category = e.category /\ m.host \in {None, e.host} /\ m.pattern \in e.says

\* Mutant: the category is not compared.
MuteByTitle(events, ms) ==
  {IF \E m \in ms : m.host \in {None, e.host} /\ m.pattern \in e.says
   THEN [e EXCEPT !.lifecycle = "accepted_risk"] ELSE e : e \in events}

applyMutes(events, ms) ==
  {IF \E m \in ms : Covers(m, e)
   THEN [e EXCEPT !.lifecycle = "accepted_risk"] ELSE e : e \in events}

createMute ==
  /\ Operator /\ \E m \in MuteRules \ mutes : mutes' = mutes \cup {m}
  /\ UNCHANGED <<hosts, policies, pipe, accept, history, changes, faults>>

\* deleteMute, or its time is over.
deleteMute ==
  /\ \E m \in mutes : mutes' = mutes \ {m}
  /\ UNCHANGED <<hosts, policies, pipe, accept, history, counters>>

createPolicy ==
  /\ \E p \in PolicyRules \ policies : policies' = policies \cup {p}
  /\ UNCHANGED <<hosts, mutes, pipe, accept, history, counters>>

deletePolicy ==
  /\ Operator /\ \E p \in policies : policies' = policies \ {p}
  /\ UNCHANGED <<hosts, mutes, pipe, accept, history, changes, faults>>

------------------------------------------------------------------------------
(* The row. *)

\* storeDriftEvents, which returns when the write has begun.  blind tells, for
\* the properties, that the events stem from a processing that could not evaluate
\* the policies, and taken what an acceptance takes from them.
StoreEvents(h, events, blind, taken) ==
  /\ Cardinality(writes[h]) < MaxWrites
  /\ writes' = [writes EXCEPT ![h] =
                  @ \cup {[events |-> events, blind |-> blind, taken |-> taken]}]

\* One of them is over; a failure is only logged.
Land(h) ==
  /\ \E w \in writes[h] :
       /\ writes' = [writes EXCEPT ![h] = @ \ {w}]
       /\ \/ /\ Works /\ row' = [row EXCEPT ![h] = w.events]
             /\ unverified' = IF w.blind THEN unverified \cup {h} ELSE unverified \ {h}
          \/ Fault /\ UNCHANGED <<row, unverified>>
  /\ UNCHANGED <<world, baseline, rules, pipe, accept, alerted, changes, ops>>

------------------------------------------------------------------------------
(* A scan or a push of host x[1]. *)

Begin(x) ==
  /\ pipe[x].at = "idle"
  /\ \E s \in {world[x[1]]} \cup Blanked(world[x[1]]) :
       /\ Collected(x[1], s)
       /\ pipe' = [pipe EXCEPT ![x].at = "compare", ![x].snap = s]
  /\ UNCHANGED <<hosts, rules, accept, history, changes, ops>>

\* getBaseline, then processHostSnapshotDrift up to its first wait.
Compare(x) ==
  /\ pipe[x].at = "compare"
  /\ pipe' = [pipe EXCEPT ![x].at = "policies",
                ![x].found = computeDrift(x[1], baseline[x[1]], pipe[x].snap)]
  /\ UNCHANGED <<hosts, rules, accept, history, counters>>

\* Mutant: a failure is logged and there are no violations.
EvaluateOpen(x) ==
  /\ pipe[x].at = "policies"
  /\ \E events \in {evaluatePolicies(x[1], pipe[x].snap, PoliciesOf(Owner[x[1]]))} :
       \/ Works /\ pipe' = [pipe EXCEPT ![x] =
                    [NoPipe EXCEPT !.at = "mutes", !.found = pipe[x].found \cup events]]
       \/ Fault /\ pipe' = [pipe EXCEPT ![x] =
                    [NoPipe EXCEPT !.at = "mutes", !.found = pipe[x].found, !.failed = TRUE]]
  /\ UNCHANGED <<hosts, rules, accept, history, changes, ops>>

\* evaluateTenantPolicies
Evaluate(x) ==
  /\ pipe[x].at = "policies"
  /\ \E failed \in BOOLEAN :
       /\ IF failed THEN Fault ELSE Works
       /\ pipe' = [pipe EXCEPT ![x] =
            [NoPipe EXCEPT !.at = "mutes", !.failed = failed,
               !.found = pipe[x].found \cup
                 (IF failed THEN {PolicyFailure(x[1])}
                  ELSE evaluatePolicies(x[1], pipe[x].snap, PoliciesOf(Owner[x[1]])))]]
  /\ UNCHANGED <<hosts, rules, accept, history, changes, ops>>

\* Mutant: what is accepted once stays accepted.
ConcludeKeeping(x) ==
  /\ pipe[x].at = "mutes" /\ Works
  /\ LET old    == {e.id : e \in row[x[1]] \ Open(row[x[1]])}
         muted  == applyMutes(pipe[x].found, MutesOf(Owner[x[1]]))
         events == {IF e.id \in old THEN [e EXCEPT !.lifecycle = "accepted_risk"] ELSE e : e \in muted}
     IN /\ StoreEvents(x[1], events, pipe[x].failed, {})
        /\ alerted' = [alerted EXCEPT ![x[1]] = @ \cup Ids(Alarms(events))]
  /\ pipe' = [pipe EXCEPT ![x] = NoPipe]
  /\ UNCHANGED <<world, baseline, row, rules, accept, unverified, changes, ops>>

\* The mutes are loaded, or there are none; the events are stored and the open
\* high ones alerted of.
Conclude(x) ==
  /\ pipe[x].at = "mutes"
  /\ \E ms \in {MutesOf(Owner[x[1]]), {}} :
       /\ \/ ms = MutesOf(Owner[x[1]]) /\ Works
          \/ ms = {} /\ Fault
       /\ LET events == applyMutes(pipe[x].found, ms)
          IN /\ StoreEvents(x[1], events, pipe[x].failed, {})
             /\ alerted' = [alerted EXCEPT ![x[1]] = @ \cup Ids(Alarms(events))]
  /\ pipe' = [pipe EXCEPT ![x] = NoPipe]
  /\ UNCHANGED <<world, baseline, row, rules, accept, unverified, changes, ops>>

------------------------------------------------------------------------------
(* POST /drift/accept-baseline. *)

Request(tenant) ==
  /\ accept.at = "idle" /\ Operator
  /\ \E ids \in SUBSET UNION {Ids(row[h]) : h \in Of(tenant)} :
       /\ ids # {} /\ Cardinality(ids) <= MaxIds
       /\ accept' = [NoAccept EXCEPT !.at = "select", !.tenant = tenant, !.ids = ids]
  /\ UNCHANGED <<hosts, rules, pipe, history, changes, faults>>

Affected(among) == {h \in among : Ids(row[h]) \cap accept.ids # {}}
Proceed(next)   == accept' = IF next.hosts = {} THEN NoAccept ELSE next

\* Mutant: the tenant's hosts are not looked up.
SelectAnywhere ==
  /\ accept.at = "select" /\ Works
  /\ LET found == Affected(Hosts)
     IN Proceed([accept EXCEPT !.at = "strip", !.hosts = found, !.todo = found])
  /\ UNCHANGED <<hosts, rules, pipe, history, changes, ops>>

\* The tenant's hosts that show one of the ids; without those it is a 500.
Select ==
  /\ accept.at = "select"
  /\ \/ /\ Works
        /\ LET found == Affected(Of(accept.tenant))
           IN Proceed([accept EXCEPT !.at = "strip", !.hosts = found, !.todo = found])
     \/ Fault /\ accept' = NoAccept
  /\ UNCHANGED <<hosts, rules, pipe, history, changes, ops>>

\* Mutant: the events of every host are read.
ReadRows ==
  /\ accept.at = "strip"
  /\ \E h \in accept.todo :
       accept' = [accept EXCEPT !.at = "rewrite", !.todo = @ \ {h}, !.host = h,
                    !.seen = UNION {row[g] : g \in Hosts}, !.blind = h \in unverified]
  /\ UNCHANGED <<hosts, rules, pipe, history, counters>>

\* One host after the other: its events are read ...
ReadRow ==
  /\ accept.at = "strip"
  /\ \E h \in accept.todo :
       accept' = [accept EXCEPT !.at = "rewrite", !.todo = @ \ {h}, !.host = h,
                    !.seen = row[h], !.blind = h \in unverified]
  /\ UNCHANGED <<hosts, rules, pipe, history, counters>>

\* ... and those not accepted are stored, whatever has landed since.
Strip ==
  /\ accept.at = "rewrite"
  /\ StoreEvents(accept.host, {e \in accept.seen : e.id \notin accept.ids},
       accept.blind /\ PolicyFailure(accept.host).id \notin accept.ids, accept.ids)
  /\ accept' = [accept EXCEPT !.at = IF accept.todo = {} THEN "recapture" ELSE "strip",
                   !.host = None, !.seen = {}, !.blind = FALSE]
  /\ UNCHANGED <<world, baseline, row, rules, pipe, history, counters>>

\* All hosts side by side; one that fails is reported and left.
Recapture(h) ==
  /\ accept.at = "recapture" /\ h \in accept.hosts /\ accept.got[h] = None
  /\ \/ \E s \in {world[h]} \cup Blanked(world[h]) :
          Collected(h, s) /\ accept' = [accept EXCEPT !.got[h] = s]
     \/ Fault /\ Proceed([accept EXCEPT !.hosts = @ \ {h}])
  /\ UNCHANGED <<hosts, rules, pipe, history, changes, ops>>

saveBaseline(h) ==
  /\ accept.at = "recapture" /\ h \in accept.hosts /\ accept.got[h] # None
  /\ \/ Works /\ baseline' = [baseline EXCEPT ![h] = accept.got[h]]
     \/ Fault /\ UNCHANGED baseline
  /\ Proceed([accept EXCEPT !.hosts = @ \ {h}, !.got[h] = None])
  /\ UNCHANGED <<world, row, writes, rules, pipe, history, changes, ops>>

------------------------------------------------------------------------------

Init ==
  /\ world = [h \in Hosts |-> Later] /\ baseline = [h \in Hosts |-> Clean]
  /\ row = [h \in Hosts |-> computeDrift(h, Clean, Later)] /\ writes = [h \in Hosts |-> {}]
  /\ mutes = MuteRules /\ policies = PolicyRules
  /\ pipe = [x \in Pipes |-> NoPipe] /\ accept = NoAccept
  /\ alerted = [h \in Hosts |-> Ids(Alarms(computeDrift(h, Clean, Later)))] /\ unverified = {}
  /\ changes = 0 /\ ops = 0 /\ faults = 0

Process(x)  == Compare(x) \/ Evaluate(x) \/ Conclude(x)
Acceptance  == Select \/ ReadRow \/ Strip \/ \E h \in Hosts : Recapture(h) \/ saveBaseline(h)

Next ==
  \/ \E h \in Hosts : Change(h) \/ Land(h)
  \/ createMute \/ deleteMute \/ createPolicy \/ deletePolicy
  \/ \E x \in Pipes : Begin(x) \/ Process(x)
  \/ \E tenant \in Tenants : Request(tenant)
  \/ Acceptance

Spec == Init /\ [][Next]_vars

\* Agents and schedules go on, what has begun does, and a query comes to an end.
FairSpec ==
  /\ Spec /\ WF_vars(Acceptance)
  /\ \A h \in Hosts : WF_vars(Land(h))
  /\ \A x \in Pipes : WF_vars(Begin(x)) /\ WF_vars(Process(x))

------------------------------------------------------------------------------
(* Properties. *)

\* An event of the pipeline, for one of its hosts.
Proper(e) ==
  /\ DOMAIN e = {"host", "id", "says", "category", "severity", "lifecycle"}
  /\ e.host \in Hosts /\ e.severity \in Severities
  /\ e.category \in Categories \cup {"policy_failure"}
  /\ e.lifecycle \in {"new", "accepted_risk"}

Belong(h, events) == \A e \in events : Proper(e) /\ e.host = h

TypeOK ==
  /\ world \in [Hosts -> Snapshots] /\ baseline \in [Hosts -> Snapshots]
  /\ \A h \in Hosts : Belong(h, row[h])
  /\ \A h \in Hosts : \A w \in writes[h] :
       Belong(h, w.events) /\ w.blind \in BOOLEAN
  /\ mutes \subseteq MuteRules /\ policies \subseteq PolicyRules
  /\ \A x \in Pipes : /\ pipe[x].at \in {"idle", "compare", "policies", "mutes"}
                      /\ pipe[x].snap \in Snapshots /\ pipe[x].failed \in BOOLEAN
                      /\ Belong(x[1], pipe[x].found)
  /\ accept.at \in {"idle", "select", "strip", "rewrite", "recapture"}
  /\ accept.tenant \in Tenants \cup {None} /\ accept.todo \subseteq accept.hosts
  /\ accept.at = "rewrite" => accept.host \in accept.hosts /\ Belong(accept.host, accept.seen)
  /\ accept.blind \in BOOLEAN
  /\ accept.hosts \subseteq Hosts /\ accept.got \in [Hosts -> Snapshots \cup {None}]
  /\ unverified \subseteq Hosts
  /\ changes \in 0..MaxChanges /\ ops \in 0..MaxOps /\ faults \in 0..MaxFaults

\* scan-drift-job.ts:154: compliance fails closed.  A row made by a processing
\* that could not evaluate the policies says so: no mute, whatever it covers,
\* and no acceptance of something else takes it out of that row, however late
\* they read and write it.  What is open and high has been alerted of.  (That
\* another row may take the place of this one is FailureStays.)
NothingSilent ==
  \A h \in Hosts :
    /\ h \in unverified => PolicyFailure(h) \in row[h]
    /\ Ids(Alarms(row[h])) \subseteq alerted[h]

\* scan-drift-job.ts:200: "the operator sees an explicit 'policy evaluation
\* failed' finding on the host instead of a silent zero", which nothing but
\* another processing or its acceptance takes from the row.  The code does not
\* keep that: an acceptance writes back what it read before the finding landed.
FailureStays ==
  [][\A h \in Hosts :
       PolicyFailure(h) \in row[h] /\ PolicyFailure(h) \notin row'[h] =>
         \E w \in writes[h] \ writes'[h] :
           w.taken = {} \/ PolicyFailure(h).id \in w.taken]_vars

\* accept-baseline/route.ts:68: most ids do not tell the host, and still a tenant
\* accepts, and with that deletes and pins, nothing of another tenant.  What is
\* not a processing's write of the row is of the owner's acceptance.  (A host id
\* that two tenants share is out of this: Owner gives it one.)
OwnHostsOnly ==
  [][\A h \in Hosts :
       /\ baseline'[h] # baseline[h] \/ (writes'[h] \ writes[h] # {} /\ pipe' = pipe)
            => accept.tenant = Owner[h]
       /\ row'[h] # row[h] => \E w \in writes[h] : row'[h] = w.events]_vars

\* Whatever was accepted, muted, collected in part or failed in between, a host's
\* row is in the end what its baseline, its policies and its mutes make of it.
RowConverges ==
  <>[](\A h \in {x[1] : x \in Pipes} :
         row[h] = applyMutes(computeDrift(h, baseline[h], world[h])
                               \cup evaluatePolicies(h, world[h], PoliciesOf(Owner[h])),
                             MutesOf(Owner[h])))

\* policy-service.ts:8: "Policy conditions match against a flat key path
\* extracted from the HostSnapshot (e.g. sshConfig.permitRootLogin,
\* firewallStatus.active)."  Where such a policy is broken for good, its
\* violation is in the end in the row.
Meant(key) ==
  <<CASE key[1] = "sshConfig" -> "ssh" [] key[1] = "firewallStatus" -> "firewall"
      [] OTHER -> key[1], key[2]>>
PoliciesHold ==
  <>[](\A h \in Hosts, p \in policies :
         p.tenant = Owner[h] /\ Extract(world[h], Meant(p.key)) # p.value
         => Violation(h, p).id \in Ids(row[h]))
==============================================================================
