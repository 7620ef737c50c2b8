-------------------------------- MODULE Hosts --------------------------------
(* One host of the fleet in the database and in the memory of each process:
   its pinned baseline, the row of its drift events, the tombstone of a
   deletion, and who writes them: pushes of its agent, scans, baseline capture
   jobs, accepted findings, POST /ingest, DELETE /hosts/:id, the onboarding
   reset and the installer's URL.

   A snapshot is the version of the host's configuration it was taken of; the
   events computed from a baseline and a snapshot are the pair of them, and
   empty when both are the same.  Policies, mutes, alerts, quotas and the
   collector's list of hosts are left out. *)
EXTENDS Naturals, FiniteSets

CONSTANTS
  Procs,       \* web instances and scan workers
  Slots,       \* requests and jobs that can be in flight
  None,        \* no snapshot, no events, no process
  MaxChanges,  \* bound: changes of the host's configuration
  MaxOps,      \* bound: operators' requests and scans
  MaxFaults,   \* bound: failing statements
  MaxCrashes   \* bound: exits of a process

VARIABLES
  world,     \* the version the host has now
  baseline,  \* blackglass_baselines
  events,    \* blackglass_drift_events
  pending,   \* each slot's write of the row that nobody waits for
  cache,     \* the processes' latest snapshot pushed
  tomb,      \* saas_host_tombstones: the deletion it is of, 0 if none
  mirror,    \* the processes' copies of the tombstone
  deletions, \* how many there have been; a tombstone is named by its number
  expired,   \* the latest deletion whose tombstone's time is over
  job,       \* saas_baseline_capture_jobs: status of each slot's latest
  req,       \* the request or job in each slot
  ops, faults, crashes

rows     == <<baseline, events, tomb, job>>
memory   == <<cache, mirror>>
history  == <<deletions, expired, ops>>
vars     == <<world, rows, memory, pending, req, history, faults, crashes>>

ASSUME HostsAssumption ==
  /\ {MaxChanges, MaxOps, MaxFaults, MaxCrashes} \subseteq Nat
  /\ None \notin Nat \cup Procs

Versions == 0..MaxChanges
Diff(b, s) == [base |-> b, snap |-> s]
Diffs == [base : Versions, snap : Versions]
Alive(d) == d > expired

\* deletion is, for a push, the tombstone that stood when it came; for a
\* deletion, its own number.  blind: the lookup of the tombstone failed.
Free == [op |-> "none", at |-> "idle", proc |-> None, snap |-> None, base |-> None,
         deletion |-> 0, found |-> FALSE, blind |-> FALSE]

At(r, op, step) == req[r].op \in op /\ req[r].at = step
Goto(r, step)   == req' = [req EXCEPT ![r].at = step]
Done(r)         == req' = [req EXCEPT ![r] = Free]

Shown     == events # None /\ events.base # events.snap
Vacant(r) == req[r].at = "idle" /\ pending[r] = None

\* A statement fails; every caller below catches it.
Fault == faults < MaxFaults /\ faults' = faults + 1
Works == UNCHANGED faults

------------------------------------------------------------------------------
(* The host, its agent and the clock. *)

Changes ==
  /\ world < MaxChanges /\ world' = world + 1
  /\ UNCHANGED <<rows, memory, pending, req, history, faults, crashes>>

Expire ==
  /\ expired < deletions /\ expired' = expired + 1
  /\ UNCHANGED <<world, rows, memory, pending, req, deletions, ops, faults, crashes>>

\* The agent has collected a snapshot and posts it.
Push(r, p) ==
  /\ Vacant(r)
  /\ req' = [req EXCEPT ![r] = [Free EXCEPT !.op = "push", !.at = "check", !.proc = p,
                                  !.snap = world, !.deletion = IF Alive(tomb) THEN tomb ELSE 0]]
  /\ UNCHANGED <<world, rows, memory, pending, history, faults, crashes>>

\* ingest brings the snapshot to be pinned; an operator accepts what is shown.
FirstStep == [scan |-> "collect", capture |-> "start", accept |-> "select", ingest |-> "pin",
              delete |-> "unpin", reset |-> "clear", install |-> "clear"]

Request(r, p, op) ==
  /\ Vacant(r) /\ ops < MaxOps
  /\ op = "capture" => job[r] \notin {"queued", "running"}
  /\ op = "install" => Alive(mirror[p]) \/ Alive(tomb)
  /\ op = "accept" => Shown
  /\ req' = [req EXCEPT ![r] = [Free EXCEPT !.op = op, !.at = FirstStep[op], !.proc = p,
                                  !.snap = IF op = "ingest" THEN world ELSE None]]
  /\ job' = IF op = "capture" THEN [job EXCEPT ![r] = "queued"] ELSE job
  /\ ops' = ops + 1
  /\ UNCHANGED <<world, baseline, events, tomb, memory, pending,
                 deletions, expired, faults, crashes>>

------------------------------------------------------------------------------
(* Drift events. *)

\* storeDriftEvents: the row follows some time.
Store(r, diff) == pending' = [pending EXCEPT ![r] = [proc |-> req[r].proc, diff |-> diff]]

Land(r) ==
  /\ pending[r] # None
  /\ \/ Works /\ events' = pending[r].diff
     \/ Fault /\ UNCHANGED events
  /\ pending' = [pending EXCEPT ![r] = None]
  /\ UNCHANGED <<world, baseline, tomb, job, memory, req, history, crashes>>

------------------------------------------------------------------------------
(* POST /ingest/agent. *)

\* Mutant: the other processes' deletions are not looked up.
StandsHere(p) == Alive(mirror[p])

\* isHostTombstoned, which finds the row when the mirror has nothing.
Stands(p) == Alive(mirror[p]) \/ Alive(tomb)

\* What the lookup leaves in the mirror.
Mirrored(p) == IF Alive(mirror[p]) THEN mirror[p] ELSE IF Alive(tomb) THEN tomb ELSE 0

Refuse(r) ==
  /\ At(r, {"push"}, "check") /\ Stands(req[r].proc)
  /\ mirror' = [mirror EXCEPT ![req[r].proc] = Mirrored(req[r].proc)]
  /\ Done(r)
  /\ UNCHANGED <<world, rows, cache, pending, history, faults, crashes>>

\* A lookup that fails lets the push in.
Admit(r) ==
  /\ At(r, {"push"}, "check")
  /\ \/ ~Stands(req[r].proc) /\ Works /\ req' = [req EXCEPT ![r].at = "get"]
     \/ ~StandsHere(req[r].proc) /\ Fault
        /\ req' = [req EXCEPT ![r].at = "get", ![r].blind = TRUE]
  /\ mirror' = [mirror EXCEPT ![req[r].proc] = 0]
  /\ UNCHANGED <<world, rows, cache, pending, history, crashes>>

\* getBaseline of a push, or of a scan, which needs one.
GetBaseline(r) ==
  /\ At(r, {"push", "scan"}, "get")
  /\ \/ /\ Works
        /\ IF baseline # None
           THEN req' = [req EXCEPT ![r].at = "drift", ![r].base = baseline]
           ELSE IF req[r].op = "push" THEN Goto(r, "bootstrap") ELSE Done(r)
     \/ Fault /\ Done(r)
  /\ UNCHANGED <<world, rows, memory, pending, history, crashes>>

\* Mutant: the first push to arrive is not the one that wins.
BootstrapOver(r) ==
  /\ At(r, {"push"}, "bootstrap") /\ Works
  /\ baseline' = req[r].snap
  /\ req' = [req EXCEPT ![r].at = "drift", ![r].base = req[r].snap]
  /\ UNCHANGED <<world, events, tomb, job, memory, pending, history, crashes>>

\* saveBaselineIfAbsent: who inserts goes on to clear the events.
Bootstrap(r) ==
  /\ At(r, {"push"}, "bootstrap")
  /\ \/ /\ Works /\ baseline = None /\ baseline' = req[r].snap
        /\ req' = [req EXCEPT ![r].at = "drift", ![r].base = req[r].snap]
     \/ Works /\ baseline # None /\ Goto(r, "record") /\ UNCHANGED baseline
     \/ Fault /\ Done(r) /\ UNCHANGED baseline
  /\ UNCHANGED <<world, events, tomb, job, memory, pending, history, crashes>>

\* Mutant: a snapshot without drift has nothing to store.
DriftIfAny(r) ==
  /\ At(r, {"push", "scan"}, "drift")
  /\ IF req[r].base # req[r].snap THEN Store(r, Diff(req[r].base, req[r].snap))
     ELSE UNCHANGED pending
  /\ cache' = IF req[r].op = "push" THEN [cache EXCEPT ![req[r].proc] = req[r].snap] ELSE cache
  /\ Done(r)
  /\ UNCHANGED <<world, rows, mirror, history, faults, crashes>>

\* processHostSnapshotDrift, or the empty list of a bootstrap; a push is
\* recorded for the collector.
Drift(r) ==
  /\ At(r, {"push", "scan"}, "drift")
  /\ Store(r, Diff(req[r].base, req[r].snap))
  /\ cache' = IF req[r].op = "push" THEN [cache EXCEPT ![req[r].proc] = req[r].snap] ELSE cache
  /\ Done(r)
  /\ UNCHANGED <<world, rows, mirror, history, faults, crashes>>

Record(r) ==
  /\ At(r, {"push"}, "record")
  /\ cache' = [cache EXCEPT ![req[r].proc] = req[r].snap]
  /\ Done(r)
  /\ UNCHANGED <<world, rows, mirror, pending, history, faults, crashes>>

------------------------------------------------------------------------------
(* Scans, baseline capture jobs, and findings accepted as the new baseline. *)

NoDrift == Diff(0, 0)

\* POST /drift/accept-baseline: are the selected findings still there?
Select(r) ==
  /\ At(r, {"accept"}, "select")
  /\ IF Shown THEN Goto(r, "strip") ELSE Done(r)
  /\ UNCHANGED <<world, rows, memory, pending, history, faults, crashes>>

\* The host's row is read again and written back without them; what else it
\* shows stays.
Strip(r) ==
  /\ At(r, {"accept"}, "strip")
  /\ \E rest \in ({events} \ {None}) \cup {NoDrift} : Store(r, rest)
  /\ Goto(r, "collect")
  /\ UNCHANGED <<world, rows, memory, history, faults, crashes>>

Collected == [scan |-> "get", capture |-> "pin", accept |-> "pin"]

\* Over SSH, or from the agent's latest push to this process, or from a recent
\* baseline; or not at all.
Collect(r) ==
  /\ At(r, {"scan", "capture", "accept"}, "collect")
  /\ \/ \E s \in {world, cache[req[r].proc], baseline} \ {None} :
          req' = [req EXCEPT ![r].at = Collected[req[r].op], ![r].snap = s]
     \/ IF req[r].op = "capture" THEN Goto(r, "fail") ELSE Done(r)
  /\ UNCHANGED <<world, rows, memory, pending, history, faults, crashes>>

\* updateJobBypass, whatever the row says; an exception goes on to "fail", and
\* one there ends the task.
StartCapture(r) ==
  /\ At(r, {"capture"}, "start")
  /\ \/ Works /\ job' = [job EXCEPT ![r] = "running"] /\ Goto(r, "collect")
     \/ Fault /\ UNCHANGED job /\ Goto(r, "fail")
  /\ UNCHANGED <<world, baseline, events, tomb, memory, pending, history, crashes>>

\* saveBaseline; only a capture goes on.
Pin(r) ==
  /\ At(r, {"capture", "accept", "ingest"}, "pin")
  /\ \/ /\ Works /\ baseline' = req[r].snap
        /\ IF req[r].op = "capture" THEN Goto(r, "empty") ELSE Done(r)
     \/ /\ Fault /\ UNCHANGED baseline
        /\ IF req[r].op = "capture" THEN Goto(r, "fail") ELSE Done(r)
  /\ UNCHANGED <<world, events, tomb, job, memory, pending, history, crashes>>

Empty(r) ==
  /\ At(r, {"capture"}, "empty")
  /\ Store(r, Diff(req[r].snap, req[r].snap))
  /\ Goto(r, "succeed")
  /\ UNCHANGED <<world, rows, cache, mirror, history, faults, crashes>>

Finish(r, step, status) ==
  /\ At(r, {"capture"}, step)
  /\ \/ Works /\ job' = [job EXCEPT ![r] = status] /\ Done(r)
     \/ Fault /\ UNCHANGED job /\ IF step = "fail" THEN Done(r) ELSE Goto(r, "fail")
  /\ UNCHANGED <<world, baseline, events, tomb, memory, pending, history, crashes>>

\* Mutant: the outcome's kind is taken for a status.
SucceedByKind(r) == Finish(r, "succeed", "ok")

Succeed(r) == Finish(r, "succeed", "succeeded")
Fail(r)    == Finish(r, "fail", "failed")

\* Mutant: a job that has not started is not looked for.
SweepRunning(r) ==
  /\ job[r] = "running" /\ job' = [job EXCEPT ![r] = "failed"]
  /\ UNCHANGED <<world, baseline, events, tomb, memory, pending, req, history, faults, crashes>>

\* expireStaleBaselineCaptureJobs, whether the executor lives or not.
Sweep(r) ==
  /\ job[r] \in {"queued", "running"} /\ job' = [job EXCEPT ![r] = "failed"]
  /\ UNCHANGED <<world, baseline, events, tomb, memory, pending, req, history, faults, crashes>>

------------------------------------------------------------------------------
(* DELETE /hosts/:id, POST /onboarding/reset and GET /install-agent.sh. *)

\* clearTombstone: the mirror of this process, then the rows.
Clear(r) ==
  /\ At(r, {"reset", "install"}, "clear")
  /\ mirror' = [mirror EXCEPT ![req[r].proc] = 0]
  /\ Goto(r, "erase")
  /\ UNCHANGED <<world, rows, cache, pending, history, faults, crashes>>

Erase(r) ==
  /\ At(r, {"reset", "install"}, "erase")
  /\ \/ Works /\ tomb' = 0
     \/ Fault /\ UNCHANGED tomb
  /\ IF req[r].op = "reset" THEN Goto(r, "unpin") ELSE Done(r)
  /\ UNCHANGED <<world, baseline, events, job, memory, pending, history, crashes>>

\* deleteBaseline; a failure is a 502.
Unpin(r) ==
  /\ At(r, {"delete", "reset"}, "unpin")
  /\ \/ /\ Works /\ baseline' = None
        /\ req' = [req EXCEPT ![r].at = "scrub", ![r].found = req[r].op = "delete" /\ baseline # None]
     \/ Fault /\ UNCHANGED baseline /\ Done(r)
  /\ UNCHANGED <<world, events, tomb, job, memory, pending, history, crashes>>

\* deleteDriftEvents.  A reset also forgets the snapshot and is over; a deletion
\* that has found nothing, in the rows or in its process's map, is a 404.
Scrub(r) ==
  /\ At(r, {"delete", "reset"}, "scrub")
  /\ \/ Works /\ events' = None
     \/ Fault /\ UNCHANGED events
  /\ IF req[r].op = "reset"
     THEN /\ cache' = [cache EXCEPT ![req[r].proc] = None]
          /\ Done(r)
     ELSE /\ UNCHANGED cache
          /\ \/ Goto(r, "bury")
             \/ ~req[r].found /\ (events' = None => events = None) /\ Done(r)
  /\ UNCHANGED <<world, baseline, tomb, job, mirror, pending, history, crashes>>

\* createTombstone: the mirror of this process, then the row, if it can be
\* written.
Bury(r) ==
  /\ At(r, {"delete"}, "bury")
  /\ deletions' = deletions + 1
  /\ mirror' = [mirror EXCEPT ![req[r].proc] = deletions + 1]
  /\ req' = [req EXCEPT ![r].at = "engrave", ![r].deletion = deletions + 1]
  /\ UNCHANGED <<world, rows, cache, pending, expired, ops, faults, crashes>>

Engrave(r) ==
  /\ At(r, {"delete"}, "engrave")
  /\ \/ Works /\ tomb' = req[r].deletion
     \/ Fault /\ UNCHANGED tomb
  /\ Done(r)
  /\ UNCHANGED <<world, baseline, events, job, memory, pending, history, crashes>>

\* A process exits, with what it holds and does.
Crash(p) ==
  /\ crashes < MaxCrashes /\ crashes' = crashes + 1
  /\ cache' = [cache EXCEPT ![p] = None]
  /\ mirror' = [mirror EXCEPT ![p] = 0]
  /\ req' = [r \in Slots |-> IF req[r].proc = p THEN Free ELSE req[r]]
  /\ pending' = [r \in Slots |->
       IF pending[r] # None /\ pending[r].proc = p THEN None ELSE pending[r]]
  /\ UNCHANGED <<world, rows, history, faults>>

------------------------------------------------------------------------------

Init ==
  /\ world = 0 /\ baseline = None /\ events = None /\ tomb = 0
  /\ cache = [p \in Procs |-> None]
  /\ mirror = [p \in Procs |-> 0] /\ pending = [r \in Slots |-> None]
  /\ req = [r \in Slots |-> Free]
  /\ job = [r \in Slots |-> "none"]
  /\ deletions = 0 /\ expired = 0
  /\ ops = 0 /\ faults = 0 /\ crashes = 0

Step(r) ==
  \/ Refuse(r) \/ Admit(r) \/ GetBaseline(r) \/ Bootstrap(r) \/ Drift(r) \/ Record(r)
  \/ Select(r) \/ Strip(r) \/ Collect(r) \/ StartCapture(r) \/ Pin(r) \/ Empty(r) \/ Succeed(r) \/ Fail(r)
  \/ Clear(r) \/ Erase(r) \/ Unpin(r) \/ Scrub(r) \/ Bury(r) \/ Engrave(r)

Next ==
  \/ Changes \/ Expire
  \/ \E p \in Procs : Crash(p)
  \/ \E r \in Slots : Step(r) \/ Land(r) \/ Sweep(r)
  \/ \E r \in Slots, p \in Procs :
       Push(r, p) \/ \E op \in DOMAIN FirstStep : Request(r, p, op)

Spec == Init /\ [][Next]_vars

\* The agent's timer goes on, what has begun goes on, the sweep is repeated,
\* and a tombstone's time passes.
FairSpec ==
  /\ Spec /\ WF_vars(Expire)
  /\ WF_vars(\E r \in Slots, p \in Procs : Push(r, p))
  /\ \A r \in Slots : WF_vars(Step(r)) /\ WF_vars(Land(r)) /\ WF_vars(Sweep(r))

------------------------------------------------------------------------------
(* Properties. *)

Steps == {"idle", "check", "get", "bootstrap", "drift", "record", "select", "strip", "collect", "start",
          "pin", "empty", "succeed", "fail", "clear", "erase", "unpin",
          "scrub", "bury", "engrave"}

TypeOK ==
  /\ world \in Versions /\ baseline \in Versions \cup {None}
  /\ events \in Diffs \cup {None}
  /\ pending \in [Slots -> [proc : Procs, diff : Diffs] \cup {None}]
  /\ cache \in [Procs -> Versions \cup {None}]
  /\ deletions \in Nat /\ {tomb, expired} \subseteq 0..deletions
  /\ mirror \in [Procs -> 0..deletions]
  /\ job \in [Slots -> {"none", "queued", "running", "succeeded", "failed"}]
  /\ req \in [Slots -> [op : DOMAIN FirstStep \cup {"none", "push"}, at : Steps,
                        proc : Procs \cup {None}, snap : Versions \cup {None},
                        base : Versions \cup {None}, deletion : 0..deletions, found : BOOLEAN, blind : BOOLEAN]]
  /\ ops \in 0..MaxOps /\ faults \in 0..MaxFaults /\ crashes \in 0..MaxCrashes

\* ingest/agent/route.ts:214: a push that comes while a tombstone stands gets no
\* further, on whichever process, until the tombstone is cleared or expires; only
\* a failing lookup lets it in.
BuriedStaysOut ==
  \A r \in Slots :
    req[r].op = "push" /\ req[r].at # "check" /\ ~req[r].blind
      /\ req[r].deletion # 0 /\ tomb = req[r].deletion
    => ~Alive(tomb)

\* ingest/agent/route.ts:322: a baseline that is pinned is replaced by what is
\* meant to replace it, a capture, an acceptance or POST /ingest, and by no
\* push, however many first ones run at once.
PinnedUntilCaptured ==
  [][baseline # None /\ baseline' \notin {None, baseline}
       => \E r \in Slots : At(r, {"capture", "accept", "ingest"}, "pin")]_vars

\* baseline-capture-async.ts:196: clients do not poll a job forever.
JobsSettle ==
  \A r \in Slots : job[r] = "queued" ~> job[r] \in {"succeeded", "failed"}

\* Whatever was deleted, reset, lost or written late: with pushes coming in, the
\* events are in the end those of the host as it is against its baseline.
DriftConverges ==
  <>[](baseline # None /\ events = Diff(baseline, world))
==============================================================================
