# Blackglass console in TLA+

Specifications, model-checking configurations and proofs for the Blackglass
fleet console (`src/`): a multi-tenant Next.js application with BullMQ workers,
Postgres and Redis, and a Python remediation service beside it. Every
definition is translated from the source; `PROJECT.json` maps each one to its
lines.

1. [Inventory](#1-inventory)
2. [The modules and the code](#2-the-modules-and-the-code)
3. [What each run checks](#3-what-each-run-checks)
4. [Bounds, symmetry, fairness](#4-bounds-symmetry-fairness)
5. [What is proved](#5-what-is-proved)
6. [Disagreements between the code and its documentation](#6-disagreements)
7. [What is not modelled](#7-what-is-not-modelled)
8. [Plan](#8-plan)

Run a configuration with `tlc -config <run>.cfg <module>` and the proofs with
`tlapm <module>_proofs.tla`; `PROJECT.json` pairs configurations and modules.

## 1. Inventory

Paths are under `src/src/` unless they start with `blackglass-remediator/`.

| Component | State | Operations | What is hard | What makes it correct |
|---|---|---|---|---|
| Scan jobs (`lib/server/scan-jobs.ts`, `services/scan-drift-job.ts`, `app/api/v1/scans`, `worker/scan`) | a Map of records per process, one Redis key per scan, the running set, the BullMQ job | enqueue, dispatch, progress, resolve, poll, deadline, drain | read-await-write on Redis, swallowed publishes, a write of drift that nobody awaits, deadline against completion, stalled jobs, crash of the executor | a success is shown only after hosts were evaluated and their drift handed to the store; one verdict; every accepted scan is reported |
| Sandbox lifecycle (`services/sandbox-provisioner.ts`, `app/api/v1/sandbox`, `app/api/public/sandbox-showcase`, `worker/sandbox`) | sandbox row, cloud droplet, SSH credential, collector hosts, queue jobs | provision, seed drift, destroy, cleanup, reprovision | steps against a third-party cloud, retries, DELETE racing POST and the TTL cleanup | no orphan droplet, one live sandbox, its key opens its droplet, nothing of another is torn down |
| Remediation service (`blackglass-remediator/app`) | recommendation rows, droplets, handlers' copies of rows | ingest, plan, verify, approve, reject, replay | every handler saves the copy it loaded, minutes of work between load and save, background tasks lost on exit | an approval stands for the plan its approver read and is kept; a failed plan is not offered; no droplet is left |
| Billing webhooks (`app/api/checkout/webhook`, `lib/saas/stripe-sync.ts`, `webhook-idempotency.ts`) | claim rows, the tenant's subscription row | claim, sync, detach, end of a trial | duplicated and reordered events, exit between claim and effect, errors that are swallowed with the claim kept | each event is worked once, none is lost but in flight; the row says what Stripe said, a deleted subscription does not come back |
| Identity webhooks (`app/api/webhooks/clerk`) | tenants, memberships, claims | create, update, delete | the same, and no release of a claim | what a lost event leaves behind heals |
| Memberships and seats (`lib/saas/tenant-context.ts`, `tenant-service.ts`, `seats.ts`, `member-guards.ts`, `settings/members/actions.ts`) | membership rows beside Clerk's, invitations | reconcile at a request, change role, invite | two copies of a role, check-then-act on seats and owners | a row's role is Clerk's in the end, seats and the last owner are guarded |
| Baseline capture jobs (`services/baseline-capture-async.ts`) | job rows, baselines | create, execute, expire | expiry racing the executor, a task that dies with its process | a job ends |
| Hosts (`ingest/agent`, `host-tombstones.ts`, `hosts/[id]`, `onboarding/reset`, `agent-snapshot-cache.ts`, `baseline-store.ts`, `drift-engine/store*.ts`) | baseline, events row, tombstone; per process a snapshot cache and a copy of the tombstone | push, scan, capture, delete, reset, clear by the installer | a push beside a deletion, first pushes at once, copies that go stale, writes nobody awaits | a deleted host stays out while its tombstone stands, only a capture replaces a baseline, stored drift is that of the host in the end |
| Janitor (`services/janitor-cleanup-service.ts`, `-executor.ts`, `janitor-scan-job.ts`, `janitor-suppression-service.ts`) | findings, suppressions, cleanup requests, cloud resources | scan, suppress, request, approve, reject | deletes before commit, concurrent approvals, protection newer than the listing | nothing protected is deleted or listed, nothing suppressed is listed, a successful approval leaves nothing |
| Operations worker (`worker/ops`, `queue/maintenance-queue.ts`) | boot lock, repeatable jobs | lock, install, run | a holder that dies half way | every repeatable is installed once |
| Scan schedules (`queue/schedule.ts`) | repeatable job, its copy in Redis | set, get | three writes without a transaction | one repeatable per tenant, agreeing with the copy |
| Wake flags (`agent-wake.ts`) | a flag per host in Redis or in memory | wake, poll | a flag in one instance's memory | a wake request reaches the agent once |
| Outbound webhooks, exports (`outbound-webhook`, `export-service.ts`) | delivery jobs, export rows | enqueue, attempt, retry | at-least-once delivery | a delivery ends delivered or dead |
| Rate limits (`rate-limit.ts`, `rate-limit-redis.ts`) | buckets | take | window boundary, Redis fallback | at most the limit per window and store |
| Drift engine (`drift-engine/compute.ts`) | none | compare baseline and snapshot, kind by kind | seventeen comparisons, ids without the host, what is not compared | silent on what it does not look at and on nothing else; whatever is new is reported |
| Drift pipeline (`services/scan-drift-job.ts`, `policy-service.ts`, `drift-mute-service.ts`, `drift/accept-baseline`) | events row, policies, mutes, baseline | process a snapshot, create and delete rules, accept findings | rules that change meanwhile, a query that fails, acceptances beside the pipeline, ids common to tenants | compliance fails closed, a tenant touches its own hosts only, the row is in the end what baseline and rules make of the host |
| Collector, secrets, keys, retention, notifications, digests, audit | rows, SSH sessions | one query or call each | third-party failures | not modelled, see section 7 |
| User interface, marketing pages, scripts, deployment | none of their own | | | not modelled |

Web instances and workers share Postgres, Redis and the BullMQ queues; the
dashboard polls the web tier through a load balancer; Stripe and Clerk call in
with at-least-once delivery in any order; the cloud provider is called and may
fail at any step; the console posts drift events to the remediation service
over HTTP, which calls a language model and the cloud.

## 2. The modules and the code

### ScanJobs, ScanContract

`store[p]` is the module-level Map of process `p`, `redis[j]` the key
`bg:scan:<id>`, `running[p]` the set SIGTERM drains. Of a record the model
keeps the real mark, the status class and the order of resolutions
(`updatedAt`); progress texts are left out, but the step that republishes a
record to carry them (`Progress`) is there. A Redis command is issued on
the process's lazily connecting client (`UseClient`): before it is connected
the command fails and the failure is swallowed, as `fetchScanFromRedis` and
`publishScanRecordToRedis` do. `resolveScanAsync` and `updateScanProgress`
await a fetch, so they are two steps, `CallResolve` / `Progress` and
`HandleReply`, with everything else in between; `resolveScan`'s QUEUE-04 guard
is in `Resolve` and looks at the copy that was fetched.

A slot of `Execs` is one call of `executeDriftScanJob`: collecting, drift
handed to the store, concluded, settled (the BullMQ outcome), with its deadline
timer on the side, which the code never clears. `storeDriftEvents` sets a Map of
its own process and starts a write to Postgres that nobody awaits and whose
failure is logged: `StoreDrift` sets `handed`, the write lands at any later time
or never (`Land`, under no fairness), and only then can another process read
the drift (`landed`). `bull`, `tries`, `stalls` and `owner` are
BullMQ's view of the job: a worker that dies or fails to renew its lock is
noticed by `Stall` and the job is requeued while the first execution may go on.
`Poll` is `getScanRecordWithFallback` with the projection, in one step: the
fetch it awaits is read-only, and what it merges back is newer or equal.

`ScanContract` is what a client of the API may rely on, in five actions over
`accepted`, `handed`, `landed` and `shown`: a success is of hosts that were
evaluated and of drift that was handed over, and not of drift that can be read.
`ScanJobs` implements it under the refinement mapping that reads `accepted` off
`dispatch` (`ImplementsContract`).

### Sandbox

`row`, `cloud`, `cred` and `hosts` are the `saas_sandboxes` rows, the droplets,
the tenant's credential with the label `sandbox` and the collector's hosts;
`job[k][s]` is the BullMQ job with the fixed id `<kind>-<sandbox>`. Each SQL
statement and each cloud call of `provisionSandbox`, `activateSandbox` and
`destroySandbox` is an action, walked by a handler's `pc`, with `snap[p]` the
row it read and `box[p]` the sandbox it works on. A statement refused by the
partial unique index (`Clash`) throws; `Throw` is a 500 for a request and a
retry for a job; `Fault` is a failing call. `Finish` goes on to the
reprovisioning of the showcase tenant, whose errors the handler catches.
`Take` assumes that the TTL has run when it takes a cleanup of a live sandbox,
and that BullMQ keeps a job's id while the job is known (the retention of
completed jobs is longer than a sandbox lives).

### Remediation

A handler is a process: the background workflow of recommendation `r` is
process `r` itself, requests of operators are `Reqs`. `mine[p]` is the
`RemediationRecommendation` object the handler loaded and works on. `save` is
two round trips. SQLAlchemy's identity map refers to rows weakly and the
handlers keep only the domain object, so `session.get` inside `save` SELECTs
the row again (`Select`) and the flush UPDATEs just the columns in which the
handler's copy differs from what was read (`Flush`, `Merged`): two handlers may
mix their columns. Load and decision of an approval or rejection are one step,
nothing is awaited between them.

The agent's answer is a plan with or without commands, an `AgentError`, or any
other exception; the pipeline passes, does not pass (`FAILED` and
`INCONCLUSIVE` are treated alike) or raises. The tier of a row never changes:
the only assignment to it is followed by a `setattr` of a field the pydantic
model does not declare, which raises before anything is saved.

### Billing

`live` is Stripe's own view of the subscriptions, `log` the events Stripe and
Clerk have emitted, each with the object it carries; an event's id is its index.
`claims` is `saas_webhook_idempotency`, `row` the tenant's `saas_subscriptions`
row. A delivery (`Handlers`) claims its event in a transaction of its own
(`Deliver`), then runs the handler of the event's type statement by statement,
and `Answer`s; a provider delivers again until it is answered with 2xx, in any
order. `Close` joins the `SELECT` of the subscription's id with the `UPDATE` that clears
it; no property depends on what comes between. `ReadTrial` and `ExpireTrial` are
the request that finds a trial over.
Plans, customers and subscriptions are model values; limits are a function of
the plan. The model is of SaaS mode, in which the single-tenant plan object is
not written.

### Janitor

A call of an operator or a scan is one transaction; it is split where it reads,
where it speaks to the cloud and where it commits. What it wrote is undone when
it throws (`Fail`, `ScanFails`), what it deleted in the cloud is not. Requests
hang on the finding's row and go with it (`Cascade`), so one flag, `same`, says
whether the rows a call has read still exist. `since` remembers, for the
properties only, what has been protected or suppressed ever since a call began.

### Members

`clerk` is Clerk's memberships, `log` and `todo` its events and those not yet
applied, `db` the rows of `saas_tenant_memberships`. A request walks
`requireTenantAuth` (`Begin`, `ReadClerk`, `WriteRow`, `Reread`), then leaves or
goes on with an action of the members page. Claims are those of Billing; here an
event is applied once, at some time, or lost with a handler that failed after
its claim. `operator` and `guest_auditor` count as `admin` and `viewer` do.

### Hosts

One host. A snapshot is the version of the configuration it was taken of; the
events computed from baseline and snapshot are the pair of them. `baseline`,
`events` and `tomb` are rows, `cache[p]` and `mirror[p]` the snapshot cache and
the tombstone map of process `p`, `job[r]` the row of the capture job started in
slot `r`. A tombstone is named by the number of its deletion, so a stale copy is
told from a new one. A slot is a request or a background task, walked by `at`;
`pending[r]` is the write of the events row that `storeDriftEvents` starts and
nobody awaits, which lands later or is lost. DELETE and reset are their
statements in order (`Unpin`, `Scrub`, `Bury`, `Engrave`; `Clear`, `Erase`).
The collector gives a fresh snapshot, the cached one, the baseline itself
(the fallbacks of `collect.ts`), or fails. Tenant ids are the same on every
path (`INGEST_SAAS_TENANT_ID` names the tenant that deletes). Three requests
pin a baseline over another: a capture job, an acceptance of shown findings
(`Select`, `Strip`, then as a capture) and `POST /ingest`, which brings its
snapshot with it.

### DriftEngine

`computeDrift` as a function of a host, its baseline and a snapshot, with one
operator per comparison of the code. A listing of one kind is a function from
names to what is recorded of the entry (`Absent` when there is none), which is
what the code's Sets and Maps are keyed by. An event keeps the sort and name
that its id hashes, its category and severity, and `says`, the parts of the
title that a mute can look for. The module has no state; its theorems are about
every pair of snapshots.

### Drift

`world[h]` is what host `h` is like, `baseline[h]` and `row[h]` its rows,
`policies` and `mutes` the tenants' rules (a mute's expiry is `deleteMute`).
`pipe[x]` is a scan's or push's way through `processHostSnapshotDrift`, cut at
its awaits: collected (`Begin`), compared with the baseline (`Compare`),
policies loaded and evaluated (`Evaluate`), mutes loaded and applied, the write
of the row started and alerted (`Conclude`). `accept` is one
`POST /drift/accept-baseline`: the tenant's hosts and the selection (`Select`),
for each host a read of its row (`ReadRow`) and, after that await, the write of
what is left of it (`Strip`), and its captures (`Recapture`, `saveBaseline`).
`writes[h]` are the writes of the row that `storeDriftEvents` has started and
nobody awaits; they land in any order, after anything, or fail (`Land`). A
collection may come back with a section empty (`Blanked`): the bundle's commands
send their errors to `/dev/null`. A query may fail at each of these steps, but for the reads of an
acceptance: that one which fails falls back on the process's own Map of events
is left out. For the properties only, `alerted` collects what a host's
processings have alerted of, `unverified` has the hosts whose row stems from a
processing that could not evaluate the policies, and a write says as much of
itself (`blind`) and which ids an acceptance takes out by it (`taken`). `Owner`
gives every host id one tenant; ids that two tenants share (section 6) are
outside the model, and `OwnHostsOnly` says nothing of them.

## 3. What each run checks

| Run | Question | Result |
|---|---|---|
| `scan_queue` | Queued scan, one worker, two overlapping executions, stalls, retries, a crash, a lost connection, cold clients, late writes of drift: is success ever shown before hosts were evaluated and their drift handed over, does the system implement its contract? | holds |
| `scan_inline` | Two scans side by side in process or refused by the queue, two instances polling: one verdict everywhere, and does SIGTERM know all that runs? | holds |
| `scan_live` | With connected clients and no crash, is every dispatched scan eventually reported, and is a scan BullMQ calls completed recorded? | holds |
| `sandbox` | Showcase tenant with three sandboxes, requests, jobs, reprovisioning, a failing enqueue and a crash: is only one's own torn down, and does a ready sandbox's key open its droplet as long as no two provisionings meet between their check and their insert? | holds |
| `sandbox_live` | Is every droplet deleted in the end, with two requests and a failing cloud call? | holds |
| `remediation` | Workflow, two operators, a replay, a failing cloud call, an exit: approvals, failed plans, droplets | holds |
| `billing` | Three events of two subscriptions and the organisation's deletion, delivered twice and in any order by two handlers, a failing call, an exit, the end of a trial: is each worked once, is the row Stripe's? | holds |
| `janitor` | Two operators' calls and a scan on one resource whose tags, policy and suppression change: is anything protected deleted, anything suppressed listed? | holds |
| `members` | Changes at Clerk, events in any order or lost, requests, role changes, a request that dies: guards, and do roles heal? | holds |
| `hosts` | A process that may exit, two requests, a failing statement: does a deleted host stay out while its tombstone stands, is a baseline replaced by captures only, do capture jobs end, is the stored drift right in the end? | holds |
| `drift` | Two tenants with a host each, scans or pushes beside rules that come and go and acceptances, a change, a collection in part or a failing query, writes that land late, out of order or never: does a row hide that its policies could not be evaluated, does a tenant touch another's host, does a scanned host's row converge? | holds |
| `drift_policies` | Is a policy of the console's templates, broken for good, reported in the end? | violated |

The violated property is a finding: `PROJECT.json` quotes what the repository
says. For every property of a passing run
`PROJECT.json` names a mutant, a definition with a plausible bug that stands
before the original in its module, under which TLC finds the property violated
by the same configuration.

Properties about decisions on a recommendation exclude the `Disturbed` ones: an
operator asked for a replay (which resets any status), or rejected the draft
while the workflow was still working on it. What can happen then is in section
6; the exclusion is stated in the properties, the runs contain both requests.

## 4. Bounds, symmetry, fairness

Bounds are constants and appear in guards: `MaxCrashes`, `MaxDrops`,
`MaxProgress`, `MaxRequests`, `MaxFaults`, `MaxReplays`, `MaxEvents`,
`MaxEdits`, `MaxChanges`, `MaxOps`. They are enough for
the cases the properties are about because those involve two executions of one
scan, two requests, one failing call or one crash, and none needs a third, and
because section 5 proves every safety property that holds without them. Two
cases do need a third, and the proofs found both: an approval beside two
rejections, which no run contains and `ApprovedAsSeen` therefore says apart
(section 6), and a request beside a reprovisioning, which needs a third
sandbox (`sandbox`). `billing` has three events and the
deletion of the organisation, which is a subscription taken out, changed and
deleted, or one taken out after another's deletion, each delivered repeatedly.
`janitor` has one resource, because no call touches two but in a loop over
independent transactions, and a request row that is used again; `ListLimit` is
as many suppressions as there are resources, so the limit is not exceeded.
`members` has two users and one paid seat, the smallest workspace in which a
second owner or seat is one too many. `hosts` has one process, whose exit loses
all memory, because liveness over two is too large; its safety properties also
pass with two processes and three operators' requests (four to eight million
states), and section 5 proves them for any number. `drift` has two hosts of two
tenants with one finding in common, the least with which an acceptance could
reach the wrong one; each host has its listener since the baseline (`Later`
against `Clean`), a setting of sshd that may change (`MaxChanges`), a policy
about that setting and a mute that covers the policy's title; one host is
scanned (`OneScanned`), the other takes part in acceptances only and
`RowConverges` is of the scanned one; one acceptance at a time of one finding
(`MaxIds`), and two writes of a row under way (`MaxWrites`), an older and a newer
one, which is what it takes to lose or overtake one. Sorts of findings do not differ but in
their names, and the engine's own theorems speak of all. `MaxAttempts` and `MaxStalled` are 3 and 2 in
`queue/config.ts`; `scan_queue` uses 2 and 1, one retry and one stall, and
`scan_live` 3 and 1, which still lets a job fail for good either way. `sandbox` has three sandboxes: one that is being
torn down, the one that replaces it and one a request makes meanwhile; it
leaves seeding and failing cloud calls to `sandbox_live`, and retries cleanups
only, which are what reprovisions. One recommendation is
enough because no handler touches two; of the four tiers one without and one
with verification are checked, the two of each kind differ only in whether a
plan without verification may carry commands.

Symmetry (instances, execution slots, scans, operators' requests, deliveries, calls,
processes and places of requests) is used in safety runs only; the constants it
permutes are told apart by no definition. `sandbox` checks a temporal formula
and uses none.

Assumptions on the constants are named in the modules. Besides types and
disjointness they say that the users of a workspace, the resources of an
account and the handlers of an event at any time are finite in number, that
there is a resource, a request row and a subscription to speak of, and that
`None` and the words for "no plan" are none of the things they stand beside.

Deadlock is not checked: scans, sandboxes, recommendations, deliveries and
jobs end, and the bounds stop the environment.

Fairness. `ScanJobs`: timers fire and awaited replies arrive (the Node event
loop, ioredis' timeouts and reconnects), a live worker takes waiting jobs and
BullMQ's checker requeues a dead worker's job (its intervals), the dashboard
keeps polling and the load balancer reaches each instance. Nothing makes an
execution call the deadline before it completes or the other way round.
`Sandbox`: handlers proceed and droplets boot under weak fairness; each kind
of job of each sandbox is taken under strong fairness, because the worker's
slots are shared and a waiting job may be disabled again and again while they
are busy, but the queue is served in order. `Remediation` has no liveness
property: its droplets are checked when their handler ends. `Billing` and
`Janitor` have none either: what a provider redelivers or an operator asks
again is not for the code to make happen. `Members`: a member who has a session
comes back and a request that has begun goes on; nothing makes an event arrive.
`Hosts`: the agent's timer goes on (`ingest/agent/route.ts:217`), what has begun
goes on, the sweep is a repeatable job of the operations worker, a tombstone's
time passes. Operators and the collector's scans are under no fairness. `Drift`:
agents push or schedules scan each host again and again, and what has begun, a
processing or an acceptance, goes on; a query that was sent to Postgres comes to
an end, one way or the other (`Land`).

## 5. What is proved

### ScanJobs

`ScanJobs_proofs` proves, for any number of instances, workers, scans and
execution slots, and for any value of the bounds:

- `TypeCorrect`: `Spec => []TypeOK`.
- `SuccessIsEarned`: `Spec => []NoPhantomSuccess`: no success before an execution
  has compared hosts and handed over their drift. That the drift can be read by
  then is no theorem: `DriftThere` is false (section 6).
- `ContractKept`: `Spec => ImplementsContract`, the refinement of
  `ScanContract` action by action: `Enqueue`, `StoreDrift`, `Land` and `Poll` take
  a contract's step, every other action leaves the mapped state alone.
- `DrainKnows`: `Spec => []DrainKnowsInlineScans`.
- `InlineVerdictsAgree`, `InlineVerdictsStand`: `ShownAgree` and `TerminalKept`
  in a deployment without a queue (`"queue" \notin Modes`, what `scan_inline`
  checks). With a queue `TerminalKept` is false (section 6).
- `CompletionRecorded`: `Spec => [](crashes = 0 => CompletedIsRecorded)`, of all
  states until a process first dies. A web instance or worker that dies takes
  its Map along, and a publish that failed leaves no other copy.

`NoPhantomSuccess` relates what a poll has returned to what executions did and is
not inductive: a poll may copy its answer from a Map, which was filled from
Redis, which was published by a step that had fetched before an await. The
inductive invariant `IInv` therefore says that every copy of a record, in a
Map, in Redis or in a reply still on its way, is honest (`HonestState`): it
says "succeeded" only if the drift was handed over, and an open copy lacks the
real mark only for a sample scan; that an execution past that step has taken it; and
that a slot in use names its process and scan (`Slots`). The lemmas go operator
by operator (`Resolve`, `CallResolve`, `Publish`, ...), the step theorem has one
step per action. Assumptions: those the module states about its constants.

The other theorems of the module add to `IInv`:

- `DrainInv`: no two executions of a web process have the same scan
  (`OneEach`), a free slot belongs to no process, and a reply awaited there that
  will resolve a scan finds that scan's execution with a verdict or out of time
  (`RepliesAreLate`), so that what it takes out of the running set is no longer
  computing.
- `VerdictInv`: without a queue a scan has at most one execution, in a process
  whose Map has the record, so no resolution asks Redis (`InProcess`); all that
  has been said of a scan anywhere is one verdict (`OneVerdict`), which the
  execution's own process said first (`HostFirst`). The QUEUE-04 guard is then
  applied to a copy nobody else writes, which is why it suffices there.
- `RecordInv`: the lock of a job is held by the execution that still races for
  its outcome (`Locks`); an execution in `fetching` awaits one reply, of its own
  scan (`OwnReply`); and every verdict that was published or fetched is in the
  Map of the process that gave it (`MapsKeep`), because a verdict is saved before
  it is published and, until a process dies, Maps forget nothing.

### Sandbox

`Sandbox_proofs` proves, for any number of sandboxes, handlers and job slots,
any attempts, failing calls and crashes:

- `TypeCorrect`: `Spec => []TypeOK`.
- `OnlyItsOwn`: `Spec => OthersUntouched`.
- `KeyFitsThen`: `Spec => KeyFitsAlone`.

The invariant says what the tables promise (`Rows`: a row names the credential
there is or none, one row is active, a row loses its credential before it is
destroyed) and what a handler at each step knows of the sandbox it works on
(`Own`): until its row is inserted the sandbox is its own, afterwards it has a
row. For the key, `Fit` adds that a call between its check and its insert finds
no row that names a credential and has stored its own key. `Fit` is inductive
only under `OneAtATime`; the two ways it fails otherwise are in section 6.

### Remediation

`Remediation_proofs` proves, for any number of recommendations, operators,
failing calls, exits and replays:

- `TypeCorrect`, `ApprovedWasRead` (`ApprovedAsSeen`), `FailureHeldBack`
  (`FailedNotOffered`), `ApprovalStands` (`ApprovalKept`) and `NoDropletLeft`
  (`DropletsDestroyed`).

The invariant gives each undisturbed recommendation a stage (`Stage`). It is
absent; or drafted, when the workflow alone writes it and what it read before a
flush is what still stands; or finished, when it has been offered or given up,
only decisions are saved, and every copy a decider holds, before and after its
`SELECT`, agrees with the row on plan and verification, so that no mixture of
columns moves them (`Offered`). `OnRecord`, that the approval's record names an
approval, is part of that stage only while one request at most rejects: the
proof attempt without this condition failed on a mixture of two rejections and
an approval, which TLC then exhibited (section 6).

### Billing

`Billing_proofs` proves, for any number of subscriptions, deliveries, events,
failing calls and exits:

- `TypeCorrect`, `WorkedByOne` (`AppliedOnce`), `LostToCrashes`
  (`LostOnlyInFlight`), `NamedWhenPaid` (`PaidByName`), `RowTellsHistory`
  (`RowIsHistory`) and `DetachedStays` (`NoRevival`).

`PaidByName` and `RowIsHistory` need Stripe's side (`History`: a subscription
that was paid for has a customer and an event that says what it is now), what a
delivery holds at each step (`Holds`) and that the row names a subscription
Stripe knows as paid for (`RowIsPaid`). `NoRevival` needs `FoundTenant`: a
delivery goes on to sync only while the row is attached, or across the step
that detached it. `LostOnlyInFlight` counts: the events claimed, not worked and
not held are at most as many as deliveries that were cut off, so the proof
goes by cardinalities.

### Janitor

`Janitor_proofs` proves, for any account, operators and scans:

- `TypeCorrect`, which needs that a call believes only rows that are there
  (`Backed`).
- `SparesProtected` (`ProtectedSpared`) and `ApprovalsDelete` (`ApprovedIsGone`),
  from what a call about to delete or to commit has found (`Calls`).
- `HiddenStaysHidden`: `Spec /\ []AllKept => SuppressedStaysHidden`, where
  `AllKept` says that there are no more suppressions than a scan reads. Without
  it the property is false: the older ones are forgotten (section 6).

### Members

`Members_proofs` proves, for any finite workspace, any limits and any number of
changes and failures:

- `TypeCorrect`; `OnlyClerksRoles` (`RoleFromClerk`), from an account of what
  Clerk has held, which every event, request and write only repeats (`LogHeld`,
  `WritesGiven`).
- `GuardsSuffice` (`GuardsHoldAlone`): the guards checked at the start of a
  change still hold when it is written, unless another write came between
  (`StillAllowed`).

### Hosts

`Hosts_proofs` proves, for any number of processes and request slots:

- `TypeCorrect`: `Spec => []TypeOK`, for which a request must hold what its next
  step reads (`Invariance`).
- `BuriedStayOut`: `Spec => []BuriedStaysOut`. The property is about a push that
  came while a tombstone stood and has passed the check. It is inductive only
  with an account of the deletions' numbers (`Graves`): a tombstone in a row, in
  a process's memory or in a DELETE about to write one is of a deletion that has
  happened.
- `OnlyCapturesReplace`: `Spec => PinnedUntilCaptured`, step by step.

### DriftEngine

`Drift_proofs` proves of every host and all snapshots:

- `SilentWhenAlike`: the engine reports nothing if and only if
  `NothingToTell`, which lists kind by kind what is not looked at. That a host
  just captured shows no drift is the instance of two equal snapshots.
- `NothingNewIsMissed`: an entry of any kind that the baseline lacks is
  reported under its own name, unless it is a rule of a firewall that is off.

### Drift

`Drift_proofs` proves, for any tenants, hosts, rules and settings:

- `TypeCorrect`: `Spec => []TypeOK`, which says that rows and pipelines hold
  proper events of their own host; it rests on one lemma per kind of the engine
  and on the categories the two routes validate (`DriftAssumption`).
- `NeverSilent`: `Spec => []NothingSilent`: each row that a processing without
  policies has made says so, however late it is read, filtered and written, and
  what is open and high in a row was alerted of. Not inductive alone: the
  processing must still carry the event when it concludes (`FailureHeld`), no
  mute may cover it, because a mute's category is one of `DRIFT_CATEGORIES` and
  the event's is not (`FailureIsNotMuted`), and all that may yet become the row,
  the writes under way and what an acceptance has read, says and has alerted of
  as much (`Held`). It is not a theorem that such a row stays until the next
  processing: an acceptance may put an older one in its place (`FailureStays`,
  section 6).
- `OwnOnly`: `Spec => OwnHostsOnly`, from the invariant that an acceptance in
  progress works on hosts of its tenant (`Mine`). It is of hosts whose id no
  other tenant has.

### What is only model-checked

Every safety property of a passing run is proved, with the hypotheses named
above. What stays with TLC is liveness under fairness: `ScanReported`,
`DropletsReclaimed`, `RoleHeals`, `JobsSettle`, `DriftConverges` and
`RowConverges`. Their proofs would rest on the enabledness of actions, which
the provers do not decide. The invariants were checked by TLC on the
configurations of section 3 before they were proved.

## 6. Disagreements

Kept as a run:

- **Policies of the documented form never fire** (`drift_policies`). A
  policy's key is a path into the snapshot, whose fields are called `ssh` and
  `firewall`; the service's own documentation (`policy-service.ts:9-10`), the
  schema (`db/schema/hosts.ts:77`) and the three templates of the settings page
  say `sshConfig.` and `firewallStatus.`. Such a key is undefined and skipped as
  no violation (`policy-service.ts:147`).

Stated in the modules and violated, but given no run of their own. Each is found
by the configuration named, with the changes in brackets:

| Property | Configuration | What the code does |
|---|---|---|
| `ScanReported` | `scan_live` [one execution slot, `Modes = {"queue"}`, `WarmStart = FALSE`, `LiveStalls = FALSE`] | A worker's first resolution fetches and publishes on a client that is only connecting; both fail, both failures are swallowed, BullMQ counts the job as completed, polls say "running" for ever (`scan-jobs.ts:331`, against `:324`). |
| `TerminalKept` | `scan_queue` [one execution slot, no crash, drop or stall, `WarmStart = TRUE`] | In a worker, deadline and completion each fetch the open record and then write: the later one wins, against QUEUE-04 (`scan-jobs.ts:351`). |
| `NoFailureAuditOfSuccess` | `scan_inline` [one of everything, no crash] | The deadline's timer is never cleared and appends SCAN_FAILED after a success (`scan-drift-job.ts:341`). |
| `DriftThere` | `scan_queue` | The write of a scan's drift to Postgres is not awaited and its failure is logged only: a poll of the web tier, which reads a worker's drift from Postgres, says "succeeded" before the drift is there, or though it never comes (`scan-drift-job.ts:245`, `drift-engine/store.ts:64`, against `scan-jobs.ts:16-19` "caused the dashboard to refresh BEFORE drift events landed"). |
| `FailureStays` | `drift` [`Spec`] | An acceptance reads a host's row, awaits, and writes back what is left of it: a row with a policy failure that was stored in between is overwritten by the older one (`accept-baseline/route.ts:109-111`, against `scan-drift-job.ts:200-203` "the operator sees an explicit 'policy evaluation failed' finding on the host instead of a silent zero"). The next processing repairs it (`RowConverges`). |
| `DropletsReclaimed` | `sandbox_live` [`Unreliable = {"redis"}`] | When the enqueue of the activation fails, POST throws with the droplet running, before it schedules the cleanup, and nothing deletes the droplet until the tenant asks for it (`sandbox/route.ts:76`, against `queue/config.ts:84` "must eventually succeed to avoid orphaned Droplets"). |
| `KeyFits` | `sandbox` [two requests and two handlers, `Requests = {"post"}`, `Showcase = FALSE`] | Of two POSTs the one the unique index refuses has already replaced the credential's key (`sandbox-provisioner.ts:395`, against `:11`). `sandbox` as it stands: so does a request beside the showcase's reprovisioning, which needs three sandboxes. |
| `DropletCovered` | `sandbox_live` [`Spec`, two sandboxes, three requests, no fault] | A DELETE that reads the row before the droplet's id is recorded destroys the row alone, and the cleanup is refused by the unique index once there is another sandbox (`sandbox-provisioner.ts:618`, against `queue/config.ts:84`). |
| `ApprovedOnRecord` | `remediation` [three requests, no fault, crash or replay] | Each save writes the columns in which the handler's copy differs from what it just read. An approval and two rejections, all loaded before any was saved, can leave the status "approved" with the record of a rejection (`recommendation_repo.py:20`, against `approval_service.py:50` "Record human approval of a recommendation." and `tests/test_approval_workflow.py:31-33`). |
| `ApprovedFromAwaiting` | `remediation` [no fault, crash or replay] | An approval is written over a rejection committed in between (`approval_service.py:54`, against `:52`). |
| `CancelBeforeClear` | `billing` [one subscription, one handler] | The organisation's deletion clears the row's ids and commits before Stripe is asked to cancel; when that fails the customer goes on paying and nothing names the subscription (`clerk/route.ts:194`, against `:193`). |
| `FailedIsRecorded` | `janitor` | The status `failed` is written in the transaction that the following throw rolls back: the request stays pending (`janitor-cleanup-service.ts:254`, against `docs/operations/charon.md:10`). |
| `SoleOwnerKept` | `members` [`Spec`, `SeatLimit = 2`, `MaxChanges = 5`, no crash] | Two demotions at once each count the other's owner, and the workspace is left without one (`member-guards.ts:3`). |

Met while modelling, without a property:

- A web process that dies takes an in-process scan's record with it; the Redis
  copy stays "running" until its key expires, and nothing fails the scan
  (`scan-drift-job.ts:332-338`).
- The Map is capped at 200 records and never shrinks: a full instance answers
  503 until it restarts (`scan-jobs.ts:282-283`).
- A worker's progress update republishes the open copy it fetched
  (`scan-jobs.ts:389`, `417`), so a terminal Redis record can be open again for
  a while; in process the Map's copy is used and this cannot happen, which is
  why `TerminalKept`, of Redis as of the Maps, is checked by `scan_inline`.
- A seed or provision job that outlives the teardown sets a destroyed row to
  "ready" (`worker/sandbox/index.ts:214`) although the teardown has
  marked it "destroyed" for good (`db/schema/sandboxes.ts:55`).
- The TTL cleanup of a sandbox already deleted by DELETE sets its row to
  "destroying" first, which the unique index refuses once the tenant has a new
  sandbox (`sandbox-provisioner.ts:610`).
- The showcase kick schedules no cleanup of its own
  (`sandbox-showcase/route.ts:255`).
- A rejection of a draft is overwritten by the workflow that is still planning
  it, and a rejection that loaded the draft writes its empty plan over the one
  just saved, so an approval in flight can approve no plan.
- A replay saves once more after it has offered its plan
  (`replay_workflow.py:74-78`): an approval made in between is erased. A replay
  beside a running workflow lets the workflow write its own plan over an
  approved one.
- `ingest_service.py:4` and `:40` promise the existing record for a repeated
  scan id; every webhook creates a new one.
- `planning_service.py:91` and `:129` set fields the pydantic plan does not have,
  which raises: capped or escalated plans are never saved and the recommendation
  stays a draft.
- `remediation_agent.py:219` imports `python_ulid` without the fallback of the
  other modules; the dependency `python-ulid` installs a package named `ulid`.
- A droplet that does not become active within the timeout is never deleted
  (`sandbox_service.py:76-95`; `cleanup_stale_sandboxes` has no caller), while
  `docs/safety-model.md:228` says sandboxes are destroyed, "or sooner on
  exception".
- Concurrent saves of one recommendation overwrite each other's audit entries,
  which `domain/recommendation.py` calls append-only.
- A plan with a forbidden command is not "rejected wholesale"
  (`docs/safety-model.md`): the command is dropped (`remediation_agent.py`).

- Billing: the outer catch of the Stripe handler, with its release of the claim,
  encloses nothing that throws for a well-formed event; the Clerk handler
  answers 500 and keeps its claim, so the retry is a duplicate
  (`clerk/route.ts:380`).
- A request that has read an expired trial writes `trial_expired` over the row a
  checkout has made active since (`tenant-service.ts:174`).
- The deletion of a customer's old subscription detaches the tenant whichever
  subscription its row names (`checkout/webhook/route.ts:122`).
- `reconcile:billing` passes over rows without a subscription id, which
  are those a lost checkout leaves, though `docs/saas/stripe-live-cutover.md:37` counts on
  it to converge.
- Janitor: a scan reads the 500 latest suppressions, expired ones included
  (`janitor-suppression-service.ts:30`); a dismissal older than those hides its
  resource no more. DigitalOcean's volumes are listed without their tags, so a
  protected one is listed as a finding (it is not deleted: the tags are read
  again). A successful live cleanup leaves no request row, the cascade takes it,
  and a new scan takes pending requests with the findings it replaces.
- Members: pending invitations take no seat. `Save` after a removal, or a late
  event, makes the row of someone who is no member any more, which counts as a
  seat and as an owner until another event comes. For `app_role: viewer` with
  `org:admin` the webhook says owner (`clerk/route.ts:141`), the request-time
  check viewer (`tenant-context.ts:61`).
- Hosts: DELETE removes baseline and events before it writes the tombstone. A
  push in between, or one that is past its check, pins a baseline again, and
  one that has read the old baseline stores its drift after the deletion, against
  `hosts/[id]/route.ts:82-84`. The host is then refused and shown at once.
- The executor of a capture job updates its row by id alone: a job that the
  sweep has failed is written "succeeded" later, and one whose last update fails
  is "failed" though the baseline is pinned.
- A reset that one process knows of: `clearTombstone` (`host-tombstones.ts:227`)
  drops the row and its own process's copy. A sibling that has refused a push
  has copied the tombstone and refuses the next one for the rest of its time, 24
  hours by default; `:224` promises re-bootstrap "on the next agent push". A
  push between the two deletions of `clearTombstone` copies the row back even
  into the process that serves the reset.
- Writes of a host's events are not awaited and may land out of order; a scan
  whose host answers neither SSH nor push compares the baseline with itself and
  stores no drift (`collect.ts:180`).
- Drift engine: a user whose uid changes, services, firewall rules, hashed files
  and names of other hosts that disappear, rules added behind an inactive
  firewall, the firewall's default policy, `MaxAuthTries` and the port of sshd,
  and any setting of sshd that could not be read are not reported; a command
  that printed nothing is taken for removals (`NothingToTell`, `Blanked`).
- Accepting one finding captures the host anew (`accept-baseline/route.ts:130`):
  what else has drifted is accepted with it, and goes from the row with the next
  processing. A snapshot with an empty section becomes the baseline, and the
  entries it lacks are new at the next one. When the capture fails the finding
  is gone from the row until then.
- Ids of findings hash the finding, not the host, so an acceptance for one host
  takes the finding from every host of the tenant that shows it, and captures
  them; a policy's id is cut at 64 characters, which leaves of the host's name a
  stem. Two tenants with a host of the same name share one `hostId`.
- A mute's pattern is looked for anywhere in the title: one for "port 80" also
  mutes port 8080 (`drift-mute-service.ts:174`).
- Outbound webhooks: `dispatchOne` passes no host id, and the URL's hash covers
  its first bytes only, so deliveries of one scan for several hosts or URLs of
  one origin share a BullMQ job id and are dropped as duplicates, against the
  comment at `queue/webhook-queue.ts:22`.
- Operations worker: a holder of the boot lock that dies half way leaves the
  remaining repeatables uninstalled until the next boot; the others skip theirs.

## 7. What is not modelled

In the modelled components: the optional file persistence of scan records
(`SCAN_JOBS_PATH`, off by default) and the 24 h expiry of their keys; the
sandbox firewall and the numbers of seed phases; the audit list inside a
recommendation, request authentication, and the callbacks to the console;
add-on flags and limits of a plan; accounts, scores, status and digests of the
janitor; suspension of a workspace, operator tools and enterprise grants; for
hosts and the drift pipeline the in-process map and file of events, to which a
failing read falls back, and the partitioned history; for hosts payload
limits, the age window of cached snapshots and the collector's host rows; for
the drift pipeline the deployment without tenants, the routing and delivery of
alerts, the texts of events and CIS results.

Components without a module are listed in `PROJECT.json` with the reason. Some
are planned (section 8). The others are one query or call per operation
(secrets, audit), pure functions without state between calls (risk policy,
catalogue), adapters to third parties (collector, cloud readers), or
rendering.

## 8. Plan

Done: 1. `ScanJobs`, `ScanContract`. 2. `Sandbox`. 3. `Remediation`.
4. `Billing`. 5. `Janitor`. 6. `Members`. 7. `Hosts`, which took in captures,
stored events and tombstones. 8. `DriftEngine` and `Drift`. 9. Proofs of the
safety properties of each, in a module `<name>_proofs` beside it (the engine's
are in `Drift_proofs`).

Next:

10. The plan store (a refresh that fetched the plan before a webhook stored a
    new one puts the old one back for a TTL), scan schedules, the boot lock of
    the operations worker, wake flags (a request that fell back to one
    instance's memory is not seen by the one the agent polls), outbound
    deliveries: mechanisms of one small module each.
11. Theorems about what TLC checks by leads-to, where a safety half can be
    split off: that an open job's executor or the sweep can still end it
    (`JobsSettle`), that a live droplet is named by a row, a job or a handler
    (`DropletsReclaimed`).

The number of runs is kept at a dozen: when a component above is added,
the narrower of the runs give way and their story stays in section 6. Modules
with theorems use no RECURSIVE operator.
