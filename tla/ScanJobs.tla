------------------------------ MODULE ScanJobs ------------------------------
(***************************************************************************)
(* The life of an on-demand drift scan, from POST /api/v1/scans to the     *)
(* terminal status that the polling dashboard is shown.                    *)
(*                                                                         *)
(* A scan record lives in the module-level Map of every Node process that  *)
(* has met it (web instances and BullMQ scan workers) and in one Redis     *)
(* key.  Publishing to Redis is fire and forget, on an ioredis client that *)
(* connects on first use and keeps no offline queue, so a command issued   *)
(* before the connection is ready fails and the failure is swallowed.  The *)
(* scan itself runs in the web process or in a worker, under a wall-clock  *)
(* deadline; a worker's job is retried and, when its worker dies, requeued *)
(* by BullMQ.                                                              *)
(***************************************************************************)
EXTENDS Naturals, Sequences, FiniteSets

CONSTANTS
  Webs,                 \* Next.js instances behind the load balancer
  Workers,              \* scan-worker processes
  Jobs,                 \* scan ids
  Execs,                \* slots for calls of executeDriftScanJob
  NoOne,                \* the absent execution or process
  MaxJobs,              \* MAX_JOBS: entries a web instance's Map accepts
  MaxAttempts,          \* BullMQ attempts of a scan job
  MaxStalled,           \* BullMQ maxStalledCount
  Modes,                \* outcomes of the dispatch: "queue", "inline", "error"
  Collector,            \* answers of collectorConfigured()
  WarmStart,            \* whether the Redis clients start out connected
  LiveStalls,           \* whether a live worker may lose its BullMQ lock
  MaxCrashes, MaxDrops, MaxProgress  \* bounds of the environment

Procs == Webs \cup Workers

ASSUME ProcsAssumption ==
  /\ Webs \cap Workers = {}
  /\ NoOne \notin Procs \cup Execs \cup Jobs
ASSUME BoundsAssumption ==
  /\ {MaxJobs, MaxAttempts, MaxStalled} \subseteq Nat
  /\ {MaxCrashes, MaxDrops, MaxProgress} \subseteq Nat
ASSUME ModesAssumption ==
  /\ Modes \subseteq {"queue", "inline", "error"}
  /\ Collector \subseteq BOOLEAN
  /\ {WarmStart, LiveStalls} \subseteq BOOLEAN

VARIABLES
  store,     \* store[p][j]: process p's Map entry for scan j
  running,   \* running[p]: the set that SIGTERM drains
  redis,     \* redis[j]: the bg:scan:<id> key
  conn,      \* conn[p]: state of p's Redis client for scan records
  calls,     \* calls[p]: replies p awaits from Redis, in order
  dispatch,  \* dispatch[j]: how far the POST handler took scan j
  bull, tries, stalls, owner, \* the BullMQ job of scan j: its state, failed
             \* attempts, times it stalled, and the execution with its lock
  phase, host, scan, verdict, timer, racing, \* the executions, by slot
  handed,    \* handed[j]: an execution compared hosts of the scan with their
             \* baselines and gave their drift events to storeDriftEvents
  landed,    \* landed[j]: those events are in Postgres, where the other
             \* processes read them
  audited,   \* audited[j]: audit entries written for the scan
  shown,     \* shown[j]: terminal statuses that a poll has returned
  clock,     \* number of resolutions so far: orders updatedAt
  crashes, drops, updates  \* counted against the bounds

procVars == <<store, running, redis, conn, calls>>
execVars == <<phase, host, scan, verdict, timer, racing>>
bullVars == <<bull, tries, stalls, owner>>
bounds == <<crashes, drops, updates>>
vars == <<store, running, redis, conn, calls, dispatch, bull, tries, stalls,
          owner, phase, host, scan, verdict, timer, racing, handed, landed,
          audited, shown, clock, crashes, drops, updates>>
-----------------------------------------------------------------------------
(* Records.  Of updatedAt only the order of resolutions is kept: two open  *)
(* copies of a scan differ in their progress text alone.                   *)

Terminal == {"succeeded", "failed"}
Record == [real: BOOLEAN, status: {"none", "open"} \cup Terminal, at: Nat]
NoRec == [real |-> FALSE, status |-> "none", at |-> 0]

Known(r) == r.status # "none"
Resolved(r) == r.status \in Terminal

\* Mutant: the instance that has a record never asks Redis for a newer one.
LocalFirst(a, b) == IF Known(a) THEN a ELSE b

PickNewer(a, b) ==
  CASE ~Known(a) -> b
    [] ~Known(b) -> a
    [] Known(a) /\ Known(b) /\ Resolved(a) # Resolved(b) ->
         IF Resolved(a) THEN a ELSE b
    [] OTHER -> IF a.at >= b.at THEN a ELSE b

\* A new record; markScanReal has been called when a collector is configured.
\* Mutant: it is not.
UnmarkedRecord(real) == [real |-> FALSE, status |-> "open", at |-> 0]

QueuedRecord(real) == [real |-> real, status |-> "open", at |-> 0]

Call == [op: {"progress", "resolve"}, job: Jobs, status: Terminal,
         by: Execs \cup {NoOne}, copy: Record]

BullStates == {"absent", "waiting", "active", "completed", "failed"}
Phases == {"free", "collecting", "handed", "fetching", "settling", "done"}

TypeOK ==
  /\ store \in [Procs -> [Jobs -> Record]]
  /\ running \in [Procs -> SUBSET Jobs]
  /\ redis \in [Jobs -> Record]
  /\ conn \in [Procs -> {"wait", "connecting", "ready"}]
  /\ calls \in [Procs -> Seq(Call)]
  /\ dispatch \in [Jobs -> {"none", "sample", "accepted"} \cup
                           {"queue", "inline", "error"}]
  /\ bull \in [Jobs -> BullStates]
  /\ tries \in [Jobs -> Nat]
  /\ stalls \in [Jobs -> Nat]
  /\ owner \in [Jobs -> Execs \cup {NoOne}]
  /\ phase \in [Execs -> Phases]
  /\ host \in [Execs -> Procs \cup {NoOne}]
  /\ scan \in [Execs -> Jobs \cup {NoOne}]
  /\ verdict \in [Execs -> {"none", "succeeded", "failed", "thrown"}]
  /\ timer \in [Execs -> {"off", "armed", "fired"}]
  /\ racing \in [Execs -> BOOLEAN]
  /\ handed \in [Jobs -> BOOLEAN]
  /\ landed \in [Jobs -> BOOLEAN]
  /\ audited \in [Jobs -> SUBSET {"completed", "failed"}]
  /\ shown \in [Jobs -> SUBSET Terminal]
  /\ clock \in Nat
  /\ crashes \in Nat /\ drops \in Nat /\ updates \in Nat

Init ==
  /\ store = [p \in Procs |-> [j \in Jobs |-> NoRec]]
  /\ running = [p \in Procs |-> {}]
  /\ redis = [j \in Jobs |-> NoRec]
  /\ conn = [p \in Procs |-> IF WarmStart THEN "ready" ELSE "wait"]
  /\ calls = [p \in Procs |-> <<>>]
  /\ dispatch = [j \in Jobs |-> "none"]
  /\ bull = [j \in Jobs |-> "absent"]
  /\ tries = [j \in Jobs |-> 0]
  /\ stalls = [j \in Jobs |-> 0]
  /\ owner = [j \in Jobs |-> NoOne]
  /\ phase = [e \in Execs |-> "free"]
  /\ host = [e \in Execs |-> NoOne]
  /\ scan = [e \in Execs |-> NoOne]
  /\ verdict = [e \in Execs |-> "none"]
  /\ timer = [e \in Execs |-> "off"]
  /\ racing = [e \in Execs |-> FALSE]
  /\ handed = [j \in Jobs |-> FALSE]
  /\ landed = [j \in Jobs |-> FALSE]
  /\ audited = [j \in Jobs |-> {}]
  /\ shown = [j \in Jobs |-> {}]
  /\ clock = 0
  /\ crashes = 0 /\ drops = 0 /\ updates = 0
-----------------------------------------------------------------------------
(* Effects shared by the actions.                                          *)

\* A command on p's client: the first one starts the connection, and it
\* reaches Redis only when the connection is ready.
UseClient(p) ==
  conn' = [conn EXCEPT ![p] = IF @ = "wait" THEN "connecting" ELSE @]

Publish(p, j, r) ==
  /\ UseClient(p)
  /\ redis' = IF conn[p] = "ready" THEN [redis EXCEPT ![j] = r] ELSE redis

\* Mutants: a verdict overwrites the one before it; a verdict is published but
\* never saved.
OverwriteResolve(p, j, copy, s) ==
  LET r == [real |-> copy.real, status |-> s, at |-> clock + 1]
  IN /\ clock' = clock + 1
     /\ store' = [store EXCEPT ![p][j] = r]
     /\ Publish(p, j, r)

UnsavedResolve(p, j, copy, s) ==
  IF Resolved(copy)
  THEN UNCHANGED <<store, redis, conn, clock>>
  ELSE /\ clock' = clock + 1
       /\ UNCHANGED store
       /\ Publish(p, j, [real |-> copy.real, status |-> s, at |-> clock + 1])

\* resolveScanAsync once it holds a copy of the record.
Resolve(p, j, copy, s) ==
  IF Resolved(copy)
  THEN UNCHANGED <<store, redis, conn, clock>>
  ELSE LET r == [real |-> copy.real, status |-> s, at |-> clock + 1]
       IN /\ clock' = clock + 1
          /\ store' = [store EXCEPT ![p][j] = r]
          /\ Publish(p, j, r)

\* resolveScanAsync: at once when the Map has the record or the fetch fails,
\* else when the reply arrives.
MustFetch(p, j) == ~Known(store[p][j]) /\ conn[p] = "ready"

\* Mutant: the synchronous resolveScan, which gives up on a process that never
\* met the scan.
LocalOnlyResolve(p, j, s, e) ==
  /\ IF Known(store[p][j])
     THEN Resolve(p, j, store[p][j], s)
     ELSE UNCHANGED <<store, redis, conn, clock>>
  /\ UNCHANGED calls

CallResolve(p, j, s, e) ==
  IF MustFetch(p, j)
  THEN /\ calls' = [calls EXCEPT ![p] = Append(@,
            [op |-> "resolve", job |-> j, status |-> s, by |-> e,
             copy |-> redis[j]])]
       /\ UNCHANGED <<store, redis, conn, clock>>
  ELSE Resolve(p, j, store[p][j], s) /\ UNCHANGED calls

\* markScanDone.  Mutant: it forgets every scan of the process.
DoneAll(p, j) == running' = [running EXCEPT ![p] = {}]

Done(p, j) == running' = [running EXCEPT ![p] = @ \ {j}]

\* A call of executeDriftScanJob(j) begins in process p.
StartExec(e, p, j) ==
  /\ phase[e] = "free"
  /\ phase' = [phase EXCEPT ![e] = "collecting"]
  /\ host' = [host EXCEPT ![e] = p]
  /\ scan' = [scan EXCEPT ![e] = j]
  /\ timer' = [timer EXCEPT ![e] = "armed"]
  /\ racing' = [racing EXCEPT ![e] = TRUE]
  /\ UNCHANGED verdict

\* What BullMQ records when the processor of e returns or throws: nothing
\* when e no longer holds the job's lock.
Finish(e, ok) ==
  LET held == {j \in Jobs : owner[j] = e}
  IN /\ bull' = [j \in Jobs |->
          CASE j \notin held -> bull[j]
            [] j \in held /\ ok -> "completed"
            [] j \in held /\ ~ok /\ tries[j] + 1 < MaxAttempts -> "waiting"
            [] OTHER -> "failed"]
     /\ tries' = [j \in Jobs |-> IF j \in held /\ ~ok THEN tries[j] + 1
                                ELSE tries[j]]
     /\ owner' = [j \in Jobs |-> IF j \in held THEN NoOne ELSE owner[j]]
     /\ UNCHANGED stalls
-----------------------------------------------------------------------------
(* Web instances.                                                          *)

\* POST /api/v1/scans up to markScanReal, which runs without an await; the
\* two publishes go out back to back, so Redis sees the second or neither.
Full(w) == Cardinality({j \in Jobs : Known(store[w][j])}) >= MaxJobs

Enqueue(w, j) ==
  /\ dispatch[j] = "none"
  /\ ~Full(w)
  /\ \E real \in Collector :
       /\ store' = [store EXCEPT ![w][j] = QueuedRecord(real)]
       /\ Publish(w, j, QueuedRecord(real))
       /\ dispatch' = [dispatch EXCEPT ![j] =
                         IF real THEN "accepted" ELSE "sample"]
  /\ running' = [running EXCEPT ![w] = @ \cup {j}]
  /\ UNCHANGED <<calls, bullVars, execVars, handed, landed, audited, shown,
                 clock, bounds>>

\* The rest of the handler, in the process that accepted the scan: to the
\* queue when the cached probe saw a worker, in process otherwise; a queue.add
\* that throws leaves the record as it is and answers 500.
ToQueue(w, j) ==
  /\ dispatch[j] = "accepted" /\ j \in running[w] /\ "queue" \in Modes
  /\ dispatch' = [dispatch EXCEPT ![j] = "queue"]
  /\ bull' = [bull EXCEPT ![j] = "waiting"]
  /\ UNCHANGED <<procVars, tries, stalls, owner, execVars, handed, landed,
                 audited, shown, clock, bounds>>

Inline(w, j, e) ==
  /\ dispatch[j] = "accepted" /\ j \in running[w] /\ "inline" \in Modes
  /\ dispatch' = [dispatch EXCEPT ![j] = "inline"]
  /\ StartExec(e, w, j)
  /\ UNCHANGED <<procVars, bullVars, handed, landed, audited, shown, clock,
                 bounds>>

AddError(w, j) ==
  /\ dispatch[j] = "accepted" /\ j \in running[w] /\ "error" \in Modes
  /\ dispatch' = [dispatch EXCEPT ![j] = "error"]
  /\ UNCHANGED <<procVars, bullVars, execVars, handed, landed, audited, shown,
                 clock, bounds>>

\* GET /api/v1/scans/:id at instance w, by a client that was given the id.  A
\* record that is not marked real turns into "succeeded" by age alone.
Poll(w, j) ==
  /\ dispatch[j] \in {"sample", "queue", "inline"}
  /\ LET local == store[w][j]
         remote == IF conn[w] = "ready" THEN redis[j] ELSE NoRec
         newer == PickNewer(local, remote)
     IN /\ store' = [store EXCEPT ![w][j] = newer]
        /\ \/ /\ Resolved(newer)
              /\ shown' = [shown EXCEPT ![j] = @ \cup {newer.status}]
           \/ /\ newer.status = "open" /\ ~newer.real
              /\ shown' = [shown EXCEPT ![j] = @ \cup {"succeeded"}]
           \/ ~Resolved(newer) /\ UNCHANGED shown
  /\ UseClient(w)
  /\ UNCHANGED <<running, redis, calls, dispatch, bullVars, execVars, handed,
                 landed, audited, clock, bounds>>
-----------------------------------------------------------------------------
(* The execution of a scan.                                                *)

\* The worker takes a waiting job.
Dequeue(p, j, e) ==
  /\ bull[j] = "waiting"
  /\ bull' = [bull EXCEPT ![j] = "active"]
  /\ owner' = [owner EXCEPT ![j] = e]
  /\ StartExec(e, p, j)
  /\ UNCHANGED <<procVars, dispatch, tries, stalls, handed, landed, audited,
                 shown, clock, bounds>>

\* updateScanProgress while the collector waits for a fresh agent push.
Progress(e) ==
  LET p == host[e]
      j == scan[e]
  IN /\ phase[e] = "collecting"
     /\ updates < MaxProgress
     /\ updates' = updates + 1
     /\ IF Known(store[p][j])
        THEN IF Resolved(store[p][j])
             THEN UNCHANGED <<redis, conn, calls>>
             ELSE Publish(p, j, store[p][j]) /\ UNCHANGED calls
        ELSE /\ UseClient(p)
             /\ UNCHANGED redis
             /\ calls' = IF ~MustFetch(p, j) THEN calls
                         ELSE [calls EXCEPT ![p] = Append(@,
                                [op |-> "progress", job |-> j,
                                 status |-> "failed", by |-> NoOne,
                                 copy |-> redis[j]])]
     /\ UNCHANGED <<store, running, dispatch, bullVars, execVars, handed,
                    landed, audited, shown, clock, crashes, drops>>

\* The hosts are compared with their baselines; storeDriftEvents sets the
\* process's own Map and starts a write to Postgres that nobody awaits (Land),
\* and the SCAN_COMPLETED audit entry follows.
StoreDrift(e) ==
  /\ phase[e] = "collecting"
  /\ phase' = [phase EXCEPT ![e] = "handed"]
  /\ handed' = [handed EXCEPT ![scan[e]] = TRUE]
  /\ audited' = [audited EXCEPT ![scan[e]] = @ \cup {"completed"}]
  /\ UNCHANGED <<procVars, dispatch, bullVars, host, scan, verdict, timer,
                 racing, landed, shown, clock, bounds>>

\* The write reaches Postgres: at any time after it was started, also after the
\* scan has ended or its process has died, or never, since a failure is only
\* logged.
Land(j) ==
  /\ handed[j] /\ ~landed[j]
  /\ landed' = [landed EXCEPT ![j] = TRUE]
  /\ UNCHANGED <<procVars, dispatch, bullVars, execVars, handed, audited, shown,
                 clock, bounds>>

\* The verdict: succeeded when some host was compared, failed when none was,
\* thrown when an await threw anywhere before it.  Mutant: hosts that were
\* only collected count as compared.
CollectedIsEnough(e, v) == phase[e] \in {"collecting", "handed"}

Concluded(e, v) ==
  \/ phase[e] = "collecting" /\ v \in {"failed", "thrown"}
  \/ phase[e] = "handed" /\ v \in {"succeeded", "thrown"}

\* The status it is recorded under.  Mutant: the outcome as it came.
RawStatus(v) == v

StatusOf(v) == IF v = "succeeded" THEN v ELSE "failed"

Conclude(e, v) ==
  LET p == host[e]
      j == scan[e]
  IN /\ Concluded(e, v)
     /\ verdict' = [verdict EXCEPT ![e] = v]
     /\ CallResolve(p, j, StatusOf(v), e)
     /\ phase' = [phase EXCEPT ![e] =
                    IF MustFetch(p, j) THEN "fetching" ELSE "settling"]
     /\ IF MustFetch(p, j) \/ Resolved(store[p][j])
        THEN UNCHANGED running
        ELSE Done(p, j)
     /\ UNCHANGED <<dispatch, bullVars, host, scan, timer, racing, handed,
                    landed, audited, shown, bounds>>

\* The continuation of the oldest fetch of process p.  The copy is the one
\* Redis returned; the Map is not looked at again.
HandleReply(p) ==
  /\ calls[p] # <<>>
  /\ LET c == Head(calls[p])
     IN \/ /\ c.op = "progress"
           /\ IF c.copy.status = "open"
              THEN Publish(p, c.job, c.copy)
              ELSE UNCHANGED <<redis, conn>>
           /\ UNCHANGED <<store, clock, running, phase>>
        \/ /\ c.op = "resolve"
           /\ Resolve(p, c.job, c.copy, c.status)
           /\ IF Resolved(c.copy) THEN UNCHANGED running ELSE Done(p, c.job)
           /\ phase' = [e \in Execs |->
                IF e = c.by /\ phase[e] = "fetching" THEN "settling"
                ELSE phase[e]]
  /\ calls' = [calls EXCEPT ![p] = Tail(@)]
  /\ UNCHANGED <<dispatch, bullVars, host, scan, verdict, timer, racing,
                 handed, landed, audited, shown, bounds>>

\* The end of executeDriftScanJobImpl: the SCAN_FAILED entry, the finally
\* block, and the outcome of the race unless the deadline already won it.
Settle(e) ==
  /\ phase[e] = "settling"
  /\ phase' = [phase EXCEPT ![e] = "done"]
  /\ racing' = [racing EXCEPT ![e] = FALSE]
  /\ audited' = IF verdict[e] = "succeeded" THEN audited
                ELSE [audited EXCEPT ![scan[e]] = @ \cup {"failed"}]
  /\ Done(host[e], scan[e])
  /\ IF racing[e] THEN Finish(e, verdict[e] # "thrown") ELSE UNCHANGED bullVars
  /\ UNCHANGED <<store, redis, conn, calls, dispatch, host, scan, verdict,
                 timer, handed, landed, shown, clock, bounds>>

\* The wall-clock timer.  Nothing clears it when the scan ends, so it fires in
\* every process that lives long enough.
Deadline(e) ==
  LET p == host[e]
      j == scan[e]
  IN /\ timer[e] = "armed"
     /\ timer' = [timer EXCEPT ![e] = "fired"]
     /\ CallResolve(p, j, "failed", NoOne)
     /\ audited' = [audited EXCEPT ![j] = @ \cup {"failed"}]
     /\ Done(p, j)
     /\ racing' = [racing EXCEPT ![e] = FALSE]
     /\ IF racing[e] THEN Finish(e, TRUE) ELSE UNCHANGED bullVars
     /\ UNCHANGED <<dispatch, phase, host, scan, verdict, handed, landed,
                    shown, bounds>>

\* A slot whose execution and timer are over can be used again.
Reclaim(e) ==
  /\ phase[e] = "done" /\ timer[e] = "fired"
  /\ phase' = [phase EXCEPT ![e] = "free"]
  /\ host' = [host EXCEPT ![e] = NoOne]
  /\ scan' = [scan EXCEPT ![e] = NoOne]
  /\ verdict' = [verdict EXCEPT ![e] = "none"]
  /\ timer' = [timer EXCEPT ![e] = "off"]
  /\ UNCHANGED <<procVars, dispatch, bullVars, racing, handed, landed, audited,
                 shown, clock, bounds>>
-----------------------------------------------------------------------------
(* The environment.                                                        *)

\* BullMQ finds an active job without a lock: its worker died, or lives but
\* did not renew in time and will go on with the scan.
Stall(j) ==
  /\ bull[j] = "active"
  /\ owner[j] = NoOne \/ LiveStalls
  /\ bull' = [bull EXCEPT ![j] = IF stalls[j] < MaxStalled THEN "waiting"
                                ELSE "failed"]
  /\ stalls' = [stalls EXCEPT ![j] = @ + 1]
  /\ owner' = [owner EXCEPT ![j] = NoOne]
  /\ UNCHANGED <<procVars, dispatch, tries, execVars, handed, landed, audited,
                 shown, clock, bounds>>

Reconnect(p) ==
  /\ conn[p] = "connecting"
  /\ conn' = [conn EXCEPT ![p] = "ready"]
  /\ UNCHANGED <<store, running, redis, calls, dispatch, bullVars, execVars,
                 handed, landed, audited, shown, clock, bounds>>

\* The connection is lost, and with it the replies on their way: the fetches
\* that awaited them return no record.
Drop(p) ==
  /\ conn[p] = "ready" /\ drops < MaxDrops
  /\ drops' = drops + 1
  /\ conn' = [conn EXCEPT ![p] = "connecting"]
  /\ calls' = [calls EXCEPT ![p] =
                 [i \in DOMAIN @ |-> [@[i] EXCEPT !.copy = NoRec]]]
  /\ UNCHANGED <<store, running, redis, dispatch, bullVars, execVars, handed,
                 landed, audited, shown, clock, crashes, updates>>

\* Process p dies and comes back with an empty Map (SCAN_JOBS_PATH unset).
Crash(p) ==
  /\ crashes < MaxCrashes
  /\ crashes' = crashes + 1
  /\ store' = [store EXCEPT ![p] = [j \in Jobs |-> NoRec]]
  /\ running' = [running EXCEPT ![p] = {}]
  /\ conn' = [conn EXCEPT ![p] = "wait"]
  /\ calls' = [calls EXCEPT ![p] = <<>>]
  /\ LET dead == {e \in Execs : host[e] = p}
     IN /\ phase' = [e \in Execs |-> IF e \in dead THEN "free" ELSE phase[e]]
        /\ host' = [e \in Execs |-> IF e \in dead THEN NoOne ELSE host[e]]
        /\ scan' = [e \in Execs |-> IF e \in dead THEN NoOne ELSE scan[e]]
        /\ verdict' = [e \in Execs |-> IF e \in dead THEN "none"
                                       ELSE verdict[e]]
        /\ timer' = [e \in Execs |-> IF e \in dead THEN "off" ELSE timer[e]]
        /\ racing' = [e \in Execs |-> e \notin dead /\ racing[e]]
        /\ owner' = [j \in Jobs |-> IF owner[j] \in dead THEN NoOne
                                    ELSE owner[j]]
  /\ UNCHANGED <<redis, dispatch, bull, tries, stalls, handed, landed, audited,
                 shown, clock, drops, updates>>
-----------------------------------------------------------------------------
Verdicts == {"succeeded", "failed", "thrown"}

WebStep ==
  \E w \in Webs, j \in Jobs :
    \/ Enqueue(w, j)
    \/ ToQueue(w, j)
    \/ \E e \in Execs : Inline(w, j, e)
    \/ AddError(w, j)
    \/ Poll(w, j)

ExecStep(e) ==
  \/ Progress(e)
  \/ StoreDrift(e)
  \/ \E v \in Verdicts : Conclude(e, v)
  \/ Settle(e)
  \/ Deadline(e)
  \/ Reclaim(e)

Next ==
  \/ WebStep
  \/ \E p \in Workers, j \in Jobs, e \in Execs : Dequeue(p, j, e)
  \/ \E e \in Execs : ExecStep(e)
  \/ \E p \in Procs : HandleReply(p) \/ Reconnect(p) \/ Drop(p) \/ Crash(p)
  \/ \E j \in Jobs : Stall(j) \/ Land(j)

Spec == Init /\ [][Next]_vars

(* What the platform keeps scheduling: timers fire, replies and connections *)
(* arrive, a live worker takes waiting jobs, BullMQ requeues the job of a   *)
(* dead worker, the client polls and its polls reach every instance.        *)
Fairness ==
  /\ \A p \in Procs : WF_vars(HandleReply(p)) /\ WF_vars(Reconnect(p))
  /\ \A j \in Jobs :
       /\ WF_vars(\E w \in Webs : ToQueue(w, j) \/ AddError(w, j)
                                  \/ \E e \in Execs : Inline(w, j, e))
       /\ WF_vars(\E p \in Workers, e \in Execs : Dequeue(p, j, e))
       /\ WF_vars(Stall(j) /\ owner[j] = NoOne)
       /\ \A w \in Webs : WF_vars(Poll(w, j))
  /\ \A e \in Execs :
       /\ WF_vars(StoreDrift(e) \/ \E v \in Verdicts : Conclude(e, v))
       /\ WF_vars(Settle(e))
       /\ WF_vars(Deadline(e))
       /\ WF_vars(Reclaim(e))

FairSpec == Spec /\ Fairness
-----------------------------------------------------------------------------
(* Properties.                                                             *)

\* A client is told that a real scan succeeded only after an execution compared
\* hosts of it with their baselines and handed over their events, whichever
\* instance answers the poll and whatever was lost on the way (the projection's
\* `kind` rule and the order of evaluating and resolving in
\* executeDriftScanJobImpl).  That the client can then read the events is
\* DriftThere, which the code does not keep.
NoPhantomSuccess ==
  \A j \in Jobs :
    "succeeded" \in shown[j] => handed[j] \/ dispatch[j] = "sample"

\* scan-jobs.ts:16-19: the time-based projection "lied about completion and
\* caused the dashboard to refresh BEFORE drift events landed", which `kind` is
\* there to prevent.  The write is not awaited: a success may be shown before
\* it, or without it.
DriftThere ==
  \A j \in Jobs :
    "succeeded" \in shown[j] => landed[j] \/ dispatch[j] = "sample"

\* The detailed system implements the contract of the scan API.
Contract == INSTANCE ScanContract WITH
  accepted <- [j \in Jobs |-> IF dispatch[j] \in {"none", "sample"}
                              THEN dispatch[j] ELSE "real"]
ImplementsContract == Contract!Spec

\* The SIGTERM drain knows every scan that runs in process and has no verdict
\* yet: neither a poll nor the deadline of an older call makes it forget one.
DrainKnowsInlineScans ==
  \A e \in Execs :
    phase[e] \in {"collecting", "handed"} /\ timer[e] = "armed"
      /\ host[e] \in Webs => scan[e] \in running[host[e]]

\* Two polls never contradict each other on how a scan ended.
ShownAgree == \A j \in Jobs : shown[j] # Terminal

\* QUEUE-04: a terminal status is never overwritten, in a Map or in Redis.
TerminalKept ==
  [][\A j \in Jobs :
       /\ \A p \in Procs :
            Resolved(store[p][j]) =>
              store'[p][j].status \in {store[p][j].status, "none"}
       /\ Resolved(redis[j]) => redis'[j] = redis[j]]_vars

\* BullMQ counts a scan as completed only when its outcome is recorded
\* somewhere, or is about to be by a fetch under way.
CompletedIsRecorded ==
  \A j \in Jobs : bull[j] = "completed" =>
    \/ Resolved(redis[j])
    \/ \E p \in Procs :
         \/ Resolved(store[p][j])
         \/ \E i \in 1..Len(calls[p]) :
              calls[p][i].op = "resolve" /\ calls[p][i].job = j

\* Every scan whose 202 named its id is eventually reported as finished.
ScanReported ==
  \A j \in Jobs : dispatch[j] \in {"queue", "inline"} ~> shown[j] # {}

\* A scan reported as succeeded has no SCAN_FAILED audit entry (stated for one
\* execution per scan).
NoFailureAuditOfSuccess ==
  \A j \in Jobs : Cardinality(Execs) = 1 /\ shown[j] = {"succeeded"}
                    => "failed" \notin audited[j]
=============================================================================
