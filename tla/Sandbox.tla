------------------------------- MODULE Sandbox -------------------------------
(***************************************************************************)
(* The sandboxes of one tenant: the saas_sandboxes row, the cloud droplet, *)
(* the managed SSH credential and the collector host behind it, and the    *)
(* web handlers and BullMQ jobs that take them from provisioning to        *)
(* destroyed.  Each database statement and each call to the cloud API is a *)
(* step of its own, so that handlers and jobs interleave between any two.  *)
(*                                                                         *)
(* Left out: the cloud firewall (best effort on both sides, nothing reads  *)
(* its outcome) and the number of the drift phase that a seed job applies. *)
(***************************************************************************)
EXTENDS Naturals, FiniteSets

CONSTANTS
  Boxes,        \* sandbox ids
  Webs,         \* web request handlers
  Slots,        \* job slots of the sandbox worker
  NoBox,        \* no sandbox, no credential
  Requests,     \* requests that arrive: "post", "delete", "kick"
  Showcase,     \* whether this is the tenant that is reprovisioned
  Seeding,      \* whether drift is seeded after activation
  Attempts,     \* Attempts[kind]: BullMQ attempts of a job
  Unreliable,   \* the services whose calls may fail: "cloud", "redis"
  MaxRequests, MaxFaults, MaxCrashes  \* bounds of the environment

Procs == Webs \cup Slots
Kinds == {"provision", "seed", "cleanup"}

ASSUME SandboxAssumption ==
  /\ Webs \cap Slots = {}
  /\ NoBox \notin Boxes
  /\ Requests \subseteq {"post", "delete", "kick"}
  /\ {Showcase, Seeding} \subseteq BOOLEAN
  /\ Attempts \in [Kinds -> Nat]
  /\ Unreliable \subseteq {"cloud", "redis"}
  /\ {MaxRequests, MaxFaults, MaxCrashes} \subseteq Nat

VARIABLES
  row,       \* row[s]: the saas_sandboxes row
  cloud,     \* cloud[s]: the droplet made for s
  cred,      \* the tenant's credential labelled "sandbox", if any
  hosts,     \* sandboxes whose address is a registered collector host
  job,       \* job[k][s]: the BullMQ job k-<s>
  tries,     \* tries[k][s]: its failed attempts
  stalled,   \* jobs that lost their worker once
  task,      \* task[p]: what process p is doing
  held,      \* held[p]: the sandbox whose job p runs
  pc, box, snap,  \* its next step, the sandbox it works on and the row it read
  requests, faults, crashes

dbVars == <<row, cloud, cred, hosts>>
jobVars == <<job, tries, stalled>>
procVars == <<task, held, pc, box, snap>>
bounds == <<requests, faults, crashes>>
vars == <<dbVars, jobVars, procVars, bounds>>
-----------------------------------------------------------------------------
Statuses == {"absent", "provisioning", "ready", "seeding", "error",
             "destroying", "destroyed"}
Row == [status: Statuses, droplet: BOOLEAN, ip: BOOLEAN, host: BOOLEAN,
        cred: Boxes \cup {NoBox}]
NoRow == [status |-> "absent", droplet |-> FALSE, ip |-> FALSE,
          host |-> FALSE, cred |-> NoBox]

\* The credential's id is named after the sandbox it was inserted for, its
\* key after the sandbox whose droplet accepts it.
NoCred == [id |-> NoBox, key |-> NoBox]

Steps == {"idle", "check", "key", "insert", "create", "record", "activate",
          "ttl", "pick", "load", "mark", "delete", "unhost", "uncred",
          "finish", "guard", "open", "boot", "register", "ready", "seeds",
          "look", "seed", "ssh"}

TypeOK ==
  /\ row \in [Boxes -> Row]
  /\ cloud \in [Boxes -> {"none", "booting", "active", "gone"}]
  /\ cred \in [id: Boxes \cup {NoBox}, key: Boxes \cup {NoBox}]
  /\ hosts \subseteq Boxes
  /\ job \in [Kinds -> [Boxes -> {"none", "waiting", "active", "done",
                                  "failed"}]]
  /\ tries \in [Kinds -> [Boxes -> Nat]]
  /\ stalled \subseteq Kinds \X Boxes
  /\ task \in [Procs -> {"none", "post", "delete", "kick"} \cup Kinds]
  /\ held \in [Procs -> Boxes \cup {NoBox}]
  /\ pc \in [Procs -> Steps]
  /\ box \in [Procs -> Boxes \cup {NoBox}]
  /\ snap \in [Procs -> Row]
  /\ requests \in Nat /\ faults \in Nat /\ crashes \in Nat

Init ==
  /\ row = [s \in Boxes |-> NoRow]
  /\ cloud = [s \in Boxes |-> "none"]
  /\ cred = NoCred
  /\ hosts = {}
  /\ job = [k \in Kinds |-> [s \in Boxes |-> "none"]]
  /\ tries = [k \in Kinds |-> [s \in Boxes |-> 0]]
  /\ stalled = {}
  /\ task = [p \in Procs |-> "none"]
  /\ held = [p \in Procs |-> NoBox]
  /\ pc = [p \in Procs |-> "idle"]
  /\ box = [p \in Procs |-> NoBox]
  /\ snap = [p \in Procs |-> NoRow]
  /\ requests = 0 /\ faults = 0 /\ crashes = 0
-----------------------------------------------------------------------------
Gone == {"absent", "destroyed"}
Active(s) == row[s].status \notin Gone

\* saas_sandboxes_tenant_active_uq: s cannot become active beside another.
Clash(s) == ~Active(s) /\ \E t \in Boxes \ {s} : Active(t)

At(p, l) == pc[p] = l

Goto(p, l) ==
  /\ pc' = [pc EXCEPT ![p] = l]
  /\ UNCHANGED <<task, held, box, snap>>

Release(p) ==
  /\ task' = [task EXCEPT ![p] = "none"]
  /\ held' = [held EXCEPT ![p] = NoBox]
  /\ pc' = [pc EXCEPT ![p] = "idle"]
  /\ box' = [box EXCEPT ![p] = NoBox]
  /\ snap' = [snap EXCEPT ![p] = NoRow]

\* queue.add under a fixed jobId: ignored while a job of that id is kept.
Add(k, s) ==
  /\ job' = IF job[k][s] = "none" THEN [job EXCEPT ![k][s] = "waiting"]
            ELSE job
  /\ UNCHANGED <<tries, stalled>>

End(p, state) ==
  job' = IF held[p] = NoBox THEN job
         ELSE [job EXCEPT ![task[p]][held[p]] = state]

\* The handler returns.
Return(p) ==
  /\ End(p, "done")
  /\ UNCHANGED <<tries, stalled>>
  /\ Release(p)

\* The handler throws: a web request answers 500, a job is tried again, and a
\* cleanup that has come to reprovisioning catches the error.
Reprovisioning(p) ==
  pc[p] \in {"check", "key", "insert", "create", "record", "activate"}

Throw(p) ==
  IF held[p] = NoBox \/ Reprovisioning(p)
  THEN Return(p)
  ELSE LET k == task[p]
           s == held[p]
       IN /\ tries' = [tries EXCEPT ![k][s] = @ + 1]
          /\ End(p, IF tries[k][s] + 1 < Attempts[k] THEN "waiting"
                    ELSE "failed")
          /\ UNCHANGED stalled
          /\ Release(p)

\* A failing call: to the cloud's API and droplets, or to Redis.
Fault(service) ==
  /\ service \in Unreliable
  /\ faults < MaxFaults
  /\ faults' = faults + 1
  /\ UNCHANGED <<requests, crashes>>
-----------------------------------------------------------------------------
(* Requests and jobs begin.                                                *)

\* POST and DELETE /api/v1/sandbox, and the showcase page that kicks the
\* provisioning of the shared sandbox.
Request(p, r) ==
  /\ At(p, "idle")
  /\ requests < MaxRequests
  /\ requests' = requests + 1
  /\ task' = [task EXCEPT ![p] = r]
  /\ pc' = [pc EXCEPT ![p] = IF r = "delete" THEN "pick" ELSE "check"]
  /\ UNCHANGED <<dbVars, jobVars, held, box, snap, faults, crashes>>

\* A job whose time has come.  The TTL of hours outlasts any one request.
Take(p, k, s) ==
  /\ At(p, "idle")
  /\ job[k][s] = "waiting"
  /\ k = "cleanup" =>
       \A q \in Webs : ~(box[q] = s /\ task[q] \in {"post", "kick"})
  /\ job' = [job EXCEPT ![k][s] = "active"]
  /\ task' = [task EXCEPT ![p] = k]
  /\ held' = [held EXCEPT ![p] = s]
  /\ box' = [box EXCEPT ![p] = s]
  /\ pc' = [pc EXCEPT ![p] = CASE k = "provision" -> "guard"
                               [] k = "seed" -> "look"
                               [] k = "cleanup" -> "load"]
  /\ UNCHANGED <<dbVars, tries, stalled, snap, bounds>>
-----------------------------------------------------------------------------
(* provisionSandbox.                                                       *)

\* An id that nothing names: ids and keys are drawn at random.
Fresh(s) ==
  /\ row[s] = NoRow
  /\ s \notin {cred.id, cred.key}
  /\ \A q \in Procs : s \notin {box[q], snap[q].cred}

\* Any sandbox that is not destroyed is returned as the existing one.
Check(p) ==
  /\ At(p, "check")
  /\ \/ \E s \in Boxes :
          /\ Active(s)
          /\ box' = [box EXCEPT ![p] = s]
          /\ pc' = [pc EXCEPT ![p] = "activate"]
     \/ /\ \A s \in Boxes : ~Active(s)
        /\ \E s \in Boxes :
             /\ Fresh(s)
             /\ box' = [box EXCEPT ![p] = s]
        /\ pc' = [pc EXCEPT ![p] = "key"]
  /\ UNCHANGED <<dbVars, jobVars, task, held, snap, bounds>>

\* A mutant: on conflict the stored credential is left as it is.
StoreNewKey(p) ==
  /\ At(p, "key")
  /\ cred' = IF cred = NoCred THEN [id |-> box[p], key |-> box[p]] ELSE cred
  /\ snap' = [snap EXCEPT ![p].cred = cred'.id]
  /\ pc' = [pc EXCEPT ![p] = "insert"]
  /\ UNCHANGED <<row, cloud, hosts, jobVars, task, held, box, bounds>>

\* The upsert by label keeps the id of a credential that is there.
StoreKey(p) ==
  /\ At(p, "key")
  /\ cred' = [id |-> IF cred = NoCred THEN box[p] ELSE cred.id,
              key |-> box[p]]
  /\ snap' = [snap EXCEPT ![p].cred = cred'.id]
  /\ pc' = [pc EXCEPT ![p] = "insert"]
  /\ UNCHANGED <<row, cloud, hosts, jobVars, task, held, box, bounds>>

\* Refused by the unique index, or by the foreign key when the credential has
\* been deleted since.
InsertRow(p) ==
  /\ At(p, "insert")
  /\ LET s == box[p]
         id == snap[p].cred
     IN IF Clash(s) \/ cred.id # id
        THEN Throw(p) /\ UNCHANGED row
        ELSE /\ row' = [row EXCEPT ![s] = [NoRow EXCEPT
                          !.status = "provisioning", !.cred = id]]
             /\ Goto(p, "create") /\ UNCHANGED jobVars
  /\ UNCHANGED <<cloud, cred, hosts, bounds>>

CreateDroplet(p) ==
  /\ At(p, "create")
  /\ \/ /\ cloud' = [cloud EXCEPT ![box[p]] = "booting"]
        /\ Goto(p, "record")
        /\ UNCHANGED <<row, jobVars, bounds>>
     \/ /\ Fault("cloud")
        /\ row' = IF Clash(box[p]) THEN row
                  ELSE [row EXCEPT ![box[p]].status = "error"]
        /\ Throw(p)
        /\ UNCHANGED cloud
  /\ UNCHANGED <<cred, hosts>>

RecordDroplet(p) ==
  /\ At(p, "record")
  /\ row' = [row EXCEPT ![box[p]].droplet = TRUE]
  /\ Goto(p, "activate")
  /\ UNCHANGED <<cloud, cred, hosts, jobVars, bounds>>

\* The caller of provisionSandbox enqueues the activation; POST alone goes on
\* to schedule the cleanup.
AddProvision(p) ==
  /\ At(p, "activate")
  /\ \/ /\ task[p] = "post"
        /\ Add("provision", box[p])
        /\ Goto(p, "ttl")
        /\ UNCHANGED bounds
     \/ /\ task[p] # "post"
        /\ Release(p)
        /\ job' = [IF held[p] = NoBox THEN job
                   ELSE [job EXCEPT ![task[p]][held[p]] = "done"]
                   EXCEPT !["provision"][box[p]] =
                     IF @ = "none" THEN "waiting" ELSE @]
        /\ UNCHANGED <<tries, stalled, bounds>>
     \/ Fault("redis") /\ Throw(p)
  /\ UNCHANGED dbVars

\* A mutant: no cleanup is scheduled.
NoCleanup(p) == At(p, "ttl") /\ Return(p) /\ UNCHANGED <<dbVars, bounds>>

AddCleanup(p) ==
  /\ At(p, "ttl")
  /\ \/ /\ task[p] = "post"
        /\ Add("cleanup", box[p])
        /\ Release(p)
        /\ UNCHANGED bounds
     \/ /\ task[p] = "provision"
        /\ Release(p)
        /\ job' = [job EXCEPT !["provision"][held[p]] = "done",
                              !["cleanup"][box[p]] =
                                IF @ = "none" THEN "waiting" ELSE @]
        /\ UNCHANGED <<tries, stalled, bounds>>
     \/ Fault("redis") /\ Throw(p)
  /\ UNCHANGED dbVars
-----------------------------------------------------------------------------
(* destroySandbox, from DELETE or a cleanup job.                           *)

Pick(p) ==
  /\ At(p, "pick")
  /\ \/ \E s \in Boxes : /\ Active(s)
                         /\ box' = [box EXCEPT ![p] = s]
                         /\ pc' = [pc EXCEPT ![p] = "load"]
                         /\ UNCHANGED <<task, held, snap, jobVars>>
     \/ (\A s \in Boxes : ~Active(s)) /\ Return(p)
  /\ UNCHANGED <<dbVars, bounds>>

Load(p) ==
  /\ At(p, "load")
  /\ snap' = [snap EXCEPT ![p] = row[box[p]]]
  /\ pc' = [pc EXCEPT ![p] = "mark"]
  /\ UNCHANGED <<dbVars, jobVars, task, held, box, bounds>>

Mark(p) ==
  /\ At(p, "mark")
  /\ IF Clash(box[p])
     THEN Throw(p) /\ UNCHANGED row
     ELSE /\ row' = [row EXCEPT ![box[p]].status = "destroying"]
          /\ Goto(p, "delete") /\ UNCHANGED jobVars
  /\ UNCHANGED <<cloud, cred, hosts, bounds>>

\* A droplet that is already gone answers 404, which is fine.
DeleteDroplet(p) ==
  /\ At(p, "delete")
  /\ \/ /\ cloud' = IF snap[p].droplet
                    THEN [cloud EXCEPT ![box[p]] = "gone"] ELSE cloud
        /\ Goto(p, "unhost")
        /\ UNCHANGED <<jobVars, bounds>>
     \/ snap[p].droplet /\ Fault("cloud") /\ Throw(p) /\ UNCHANGED cloud
  /\ UNCHANGED <<row, cred, hosts>>

DeleteHost(p) ==
  /\ At(p, "unhost")
  /\ IF snap[p].host
     THEN /\ hosts' = hosts \ {box[p]}
          /\ row' = [row EXCEPT ![box[p]].host = FALSE]
     ELSE UNCHANGED <<hosts, row>>
  /\ Goto(p, "uncred")
  /\ UNCHANGED <<cloud, cred, jobVars, bounds>>

\* A mutant: the credential is deleted by its label.
DeleteByLabel(p) ==
  /\ At(p, "uncred")
  /\ cred' = NoCred
  /\ row' = [s \in Boxes |-> [row[s] EXCEPT !.cred = NoBox]]
  /\ Goto(p, "finish")
  /\ UNCHANGED <<cloud, hosts, jobVars, bounds>>

\* The rows that named the credential lose it (ON DELETE SET NULL).
DeleteCred(p) ==
  /\ At(p, "uncred")
  /\ LET id == snap[p].cred
     IN IF id # NoBox /\ cred.id = id
        THEN /\ cred' = NoCred
             /\ row' = [s \in Boxes |-> IF row[s].cred = id
                                        THEN [row[s] EXCEPT !.cred = NoBox]
                                        ELSE row[s]]
        ELSE UNCHANGED <<cred, row>>
  /\ Goto(p, "finish")
  /\ UNCHANGED <<cloud, hosts, jobVars, bounds>>

\* The end of the teardown; the cleanup of the showcase goes on to provision
\* a new sandbox.
Finish(p) ==
  /\ At(p, "finish")
  /\ row' = [row EXCEPT ![box[p]].status = "destroyed"]
  /\ IF task[p] = "cleanup" /\ Showcase
     THEN /\ pc' = [pc EXCEPT ![p] = "check"]
          /\ box' = [box EXCEPT ![p] = NoBox]
          /\ snap' = [snap EXCEPT ![p] = NoRow]
          /\ UNCHANGED <<task, held, jobVars>>
     ELSE Return(p)
  /\ UNCHANGED <<cloud, cred, hosts, bounds>>
-----------------------------------------------------------------------------
(* The provision job: activateSandbox.                                     *)

Guard(p) ==
  /\ At(p, "guard")
  /\ LET r == row[box[p]]
     IN IF r.status = "absent" \/ (r.ip /\ r.status # "error")
        THEN Return(p) ELSE Goto(p, "open") /\ UNCHANGED jobVars
  /\ UNCHANGED <<dbVars, bounds>>

Open(p) ==
  /\ At(p, "open")
  /\ IF row[box[p]].droplet
     THEN /\ snap' = [snap EXCEPT ![p] = row[box[p]]]
          /\ pc' = [pc EXCEPT ![p] = "boot"]
          /\ UNCHANGED <<task, held, box, jobVars>>
     ELSE Throw(p)
  /\ UNCHANGED <<dbVars, bounds>>

\* The polling loop: it sees the droplet active, or gives up, or the droplet
\* has been deleted and the API answers 404.
Boot(p) ==
  /\ At(p, "boot")
  /\ \/ cloud[box[p]] = "active" /\ Goto(p, "register") /\ UNCHANGED jobVars
                                 /\ UNCHANGED bounds
     \/ cloud[box[p]] = "gone" /\ Throw(p) /\ UNCHANGED bounds
     \/ Fault("cloud") /\ Throw(p)
  /\ UNCHANGED dbVars

\* Refused by the foreign key when the credential has been deleted since.  The
\* firewall that follows is best effort: its failure is logged, no step reads it.
Register(p) ==
  /\ At(p, "register")
  /\ IF snap[p].cred \notin {NoBox, cred.id}
     THEN Throw(p) /\ UNCHANGED hosts
     ELSE /\ hosts' = hosts \cup {box[p]}
          /\ Goto(p, "ready") /\ UNCHANGED jobVars
  /\ UNCHANGED <<row, cloud, cred, bounds>>

\* A mutant: the row takes the droplet's status for its own.
CopyStatus(p) ==
  /\ At(p, "ready")
  /\ row' = [row EXCEPT ![box[p]].status = cloud[box[p]],
                        ![box[p]].ip = TRUE, ![box[p]].host = TRUE]
  /\ Goto(p, "seeds")
  /\ UNCHANGED <<cloud, cred, hosts, jobVars, bounds>>

Ready(p) ==
  /\ At(p, "ready")
  /\ IF Clash(box[p])
     THEN Throw(p) /\ UNCHANGED row
     ELSE /\ row' = [row EXCEPT ![box[p]].status = "ready",
                                ![box[p]].ip = TRUE, ![box[p]].host = TRUE]
          /\ Goto(p, "seeds") /\ UNCHANGED jobVars
  /\ UNCHANGED <<cloud, cred, hosts, bounds>>

AddSeeds(p) ==
  /\ At(p, "seeds")
  /\ \/ /\ IF Seeding THEN Add("seed", box[p]) ELSE UNCHANGED jobVars
        /\ Goto(p, "ttl")
        /\ UNCHANGED bounds
     \/ Fault("redis") /\ Throw(p)
  /\ UNCHANGED dbVars
-----------------------------------------------------------------------------
(* The seed-drift job.                                                     *)

Look(p) ==
  /\ At(p, "look")
  /\ LET r == row[box[p]]
     IN IF r.status \in {"absent", "destroyed", "destroying"} THEN Return(p)
        ELSE IF ~r.ip \/ r.cred = NoBox THEN Throw(p)
        ELSE /\ snap' = [snap EXCEPT ![p] = r]
             /\ pc' = [pc EXCEPT ![p] = "seed"]
             /\ UNCHANGED <<task, held, box, jobVars>>
  /\ UNCHANGED <<dbVars, bounds>>

Seed(p) ==
  /\ At(p, "seed")
  /\ IF Clash(box[p])
     THEN Throw(p) /\ UNCHANGED row
     ELSE /\ row' = [row EXCEPT ![box[p]].status = "seeding"]
          /\ Goto(p, "ssh") /\ UNCHANGED jobVars
  /\ UNCHANGED <<cloud, cred, hosts, bounds>>

\* The seed script ran, or the credential or the droplet was not there; the
\* row is ready again either way.
Reachable(s, id) ==
  cloud[s] = "active" /\ cred = [id |-> id, key |-> s]

Ssh(p) ==
  /\ At(p, "ssh")
  /\ row' = IF Clash(box[p]) THEN row
            ELSE [row EXCEPT ![box[p]].status = "ready"]
  /\ \/ /\ Reachable(box[p], snap[p].cred) /\ ~Clash(box[p])
        /\ Return(p)
        /\ UNCHANGED bounds
     \/ /\ ~Reachable(box[p], snap[p].cred) \/ Clash(box[p])
        /\ Throw(p)
        /\ UNCHANGED bounds
     \/ Fault("cloud") /\ Throw(p)
  /\ UNCHANGED <<cloud, cred, hosts>>
-----------------------------------------------------------------------------
(* The environment.                                                        *)

BecomeActive(s) ==
  /\ cloud[s] = "booting"
  /\ cloud' = [cloud EXCEPT ![s] = "active"]
  /\ UNCHANGED <<row, cred, hosts, jobVars, procVars, bounds>>

\* A process dies between two steps; BullMQ requeues the job it held, once.
Crash(p) ==
  /\ ~At(p, "idle")
  /\ crashes < MaxCrashes
  /\ crashes' = crashes + 1
  /\ LET k == task[p]
         s == held[p]
     IN /\ End(p, IF <<k, s>> \in stalled THEN "failed" ELSE "waiting")
        /\ stalled' = IF s = NoBox THEN stalled ELSE stalled \cup {<<k, s>>}
  /\ Release(p)
  /\ UNCHANGED <<dbVars, tries, requests, faults>>
-----------------------------------------------------------------------------
Step(p) ==
  \/ Check(p) \/ StoreKey(p) \/ InsertRow(p) \/ CreateDroplet(p)
  \/ RecordDroplet(p) \/ AddProvision(p) \/ AddCleanup(p)
  \/ Pick(p) \/ Load(p) \/ Mark(p) \/ DeleteDroplet(p) \/ DeleteHost(p)
  \/ DeleteCred(p) \/ Finish(p)
  \/ Guard(p) \/ Open(p) \/ Boot(p) \/ Register(p) \/ Ready(p) \/ AddSeeds(p)
  \/ Look(p) \/ Seed(p) \/ Ssh(p)

Next ==
  \/ \E p \in Webs, r \in Requests : Request(p, r)
  \/ \E p \in Slots, k \in Kinds, s \in Boxes : Take(p, k, s)
  \/ \E p \in Procs : Step(p) \/ Crash(p)
  \/ \E s \in Boxes : BecomeActive(s)

Spec == Init /\ [][Next]_vars

(* Handlers go on, droplets boot, and the worker takes every waiting job in *)
(* its turn.                                                                *)
Fairness ==
  /\ \A p \in Procs : WF_vars(Step(p))
  /\ \A s \in Boxes : WF_vars(BecomeActive(s))
  /\ \A k \in Kinds, s \in Boxes : SF_vars(\E p \in Slots : Take(p, k, s))

FairSpec == Spec /\ Fairness
-----------------------------------------------------------------------------
(* Properties.                                                             *)

Live(s) == cloud[s] \in {"booting", "active"}

\* Something still answers for every droplet that runs: a sandbox that is not
\* destroyed, a process at work on it, or a cleanup to come.
DropletCovered ==
  \A s \in Boxes : Live(s) =>
    \/ Active(s)
    \/ \E p \in Procs : box[p] = s
    \/ job["cleanup"][s] \in {"waiting", "active"}

\* The credential that a ready sandbox names opens its droplet: so meant, and
\* violated when two provisionings meet.
KeyFits ==
  \A s \in Boxes :
    /\ row[s].status \in {"ready", "seeding"}
    /\ row[s].cred # NoBox /\ cred.id = row[s].cred
    => cred.key = s

\* KeyFits as long as no two provisionings, of requests or of a cleanup of the
\* showcase, are between their check for a sandbox and their insert, whatever
\* jobs, teardowns and crashes come between.
Making == {"key", "insert"}
OneAtATime == \A p, q \in Procs : pc[p] \in Making /\ pc[q] \in Making => p = q
KeyFitsAlone == []OneAtATime => []KeyFits

\* A row, a droplet or a host registration changes only in the hands of a
\* process that works on that sandbox.
OthersUntouched ==
  [][\A s \in Boxes :
       row'[s] # row[s] \/ (s \in hosts /\ s \notin hosts')
       \/ (Live(s) /\ ~Live(s)') =>
         \E p \in Procs : box[p] = s]_vars

\* Every droplet that was ever created is deleted again.
DropletsReclaimed == \A s \in Boxes : Live(s) ~> cloud[s] = "gone"
=============================================================================
