------------------------------- MODULE Janitor -------------------------------
(* Charon, the cloud janitor, on one linked account: scans that list idle
   resources as findings, suppressions that hide them, and cleanup requests
   that an operator rejects or approves, an approval of a live one deleting the
   resource before its transaction commits.

   A call is one withTenantRls transaction (READ COMMITTED): what it wrote is
   undone when it throws, what it did in the cloud is not, and a call that dies
   with its process is one that fails.  Requests belong to a finding's row and
   are deleted with it, so a call that holds either knows by one flag whether
   the rows it read are still there.  Accounts, scores, the scan's status and
   difference, notifications and audit entries are left out. *)
EXTENDS Naturals, Sequences, FiniteSets

CONSTANTS
  Res,        \* resources of the account, all of which score as idle
  Reqs,       \* rows of janitor_cleanup_requests that may exist at a time
  Ops,        \* operators' calls at a time
  Scanners,   \* scans at a time: jobs have random ids and may overlap
  ListLimit,  \* suppressions a scan reads (500)
  MaxEdits,   \* bound: changes by the cloud's owners and the tenant
  MaxFaults   \* bound: failing calls of the database or the cloud

VARIABLES
  cloud,     \* each resource: whether it exists, what it is tagged with and
             \* whether it is listed with its tags (DigitalOcean volumes are not)
  extra,     \* policy: the tenant's own protector tag is configured
  finding,   \* janitor_findings: a resource's tags as listed, or "absent"
  sup,       \* janitor_resource_suppressions, the latest first
  req,       \* janitor_cleanup_requests
  call,      \* each operator's call
  scan,      \* each scan
  since,     \* history: what has been hidden, or protected by the policy as it
             \* was, ever since the call or scan began
  edits, faults

rows == <<finding, sup, req>>
env  == <<cloud, extra>>
vars == <<env, rows, call, scan, since, edits, faults>>

ASSUME JanitorAssumption ==
  /\ IsFiniteSet(Res) /\ Res # {} /\ Reqs # {} /\ Ops \cap Scanners = {}
  /\ ListLimit \in Nat /\ MaxEdits \in Nat /\ MaxFaults \in Nat

Tags  == {"none", "builtin", "extra"}
Modes == {"dry_run", "live"}
Procs == Ops \cup Scanners

AnyRes  == CHOOSE r \in Res : TRUE
AnyReq  == CHOOSE q \in Reqs : TRUE
NoReq   == [st |-> "none", res |-> AnyRes, mode |-> "dry_run"]
NoCall  == [at |-> "idle", req |-> AnyReq, res |-> AnyRes, mode |-> "dry_run",
            extra |-> FALSE, same |-> FALSE]
NoScan  == [at |-> "idle", extra |-> FALSE, found |-> {}]
Nothing == [hidden |-> {}, marked |-> {}]

------------------------------------------------------------------------------
(* What the rows mean. *)

\* findingMatchesProtectTags over the built-in and the tenant's markers.
Protected(tag, policy) == tag = "builtin" \/ (policy /\ tag = "extra")

\* A resource has one suppression at most, by a unique index.
Without(s, r) ==
  IF \E i \in DOMAIN s : s[i].res = r
  THEN LET i == CHOOSE i \in DOMAIN s : s[i].res = r
       IN  SubSeq(s, 1, i - 1) \o SubSeq(s, i + 1, Len(s))
  ELSE s

\* A suppression holds until it is undone or, a snooze, has expired.
Upsert(s, r) == <<[res |-> r, holds |-> TRUE]>> \o Without(s, r)

HiddenBy(s) == {s[i].res : i \in {j \in DOMAIN s : s[j].holds}}

\* listJanitorSuppressions: ORDER BY created_at DESC LIMIT 500, the expired too.
Latest(s) == SubSeq(s, 1, IF Len(s) < ListLimit THEN Len(s) ELSE ListLimit)

Marked(c, policy) == {r \in Res : Protected(c[r].tag, policy)}

\* History, part of every step: a scan remembers all that is hidden and marked
\* when it begins, an approval whether its resource is marked, for as long as
\* that lasts.
PolicyOf(p) == IF p \in Ops THEN call[p].extra ELSE scan[p].extra
Working(p)  == IF p \in Ops THEN call[p].at # "idle" ELSE scan[p].at # "idle"
Concern(p)  ==
  IF p \in Ops THEN {r \in Res : call[p].at = "fetch" /\ call[p].res = r} ELSE Res

Remember ==
  since' = [p \in Procs |->
    IF ~Working(p)' THEN Nothing
    ELSE [hidden |-> HiddenBy(sup') \cap IF Working(p) THEN since[p].hidden
                                         ELSE IF p \in Scanners THEN Res ELSE {},
          marked |-> Marked(cloud', PolicyOf(p)') \cap
                       IF Working(p) THEN since[p].marked ELSE Concern(p)']]

\* The rows of these findings go, and with them their requests.
Detached(gone) == [o \in Ops |->
  IF call[o].res \in gone THEN [call[o] EXCEPT !.same = FALSE] ELSE call[o]]

\* Mutant: requests outlive their finding.
KeepRequests(gone) == req

Cascade(gone) == [q \in Reqs |-> IF req[q].res \in gone THEN NoReq ELSE req[q]]

Edit  == edits < MaxEdits /\ edits' = edits + 1
Fault == faults < MaxFaults /\ faults' = faults + 1

------------------------------------------------------------------------------
(* The cloud's owners, and the tenant's settings. *)

Retag(r) ==
  /\ Edit
  /\ cloud[r].alive
  /\ \E t \in Tags \ {cloud[r].tag} : cloud' = [cloud EXCEPT ![r].tag = t]
  /\ UNCHANGED <<extra, rows, call, scan, faults>> /\ Remember

Vanish(r) ==
  /\ Edit
  /\ cloud[r].alive
  /\ cloud' = [cloud EXCEPT ![r].alive = FALSE]
  /\ UNCHANGED <<extra, rows, call, scan, faults>> /\ Remember

SetPolicy ==
  /\ Edit
  /\ extra' = ~extra
  /\ UNCHANGED <<cloud, rows, call, scan, faults>> /\ Remember

\* deleteJanitorSuppression.
Undo(r) ==
  /\ Edit
  /\ \E i \in DOMAIN sup : sup[i].res = r
  /\ sup' = Without(sup, r)
  /\ UNCHANGED <<env, finding, req, call, scan, faults>> /\ Remember

\* The time a snooze was given passes.
Expire(r) ==
  /\ Edit
  /\ \E i \in DOMAIN sup :
       /\ sup[i].res = r /\ sup[i].holds
       /\ sup' = [sup EXCEPT ![i].holds = FALSE]
  /\ UNCHANGED <<env, finding, req, call, scan, faults>> /\ Remember

------------------------------------------------------------------------------
(* Operators' calls. *)

Holding(at, r) == [NoCall EXCEPT !.at = at, !.res = r, !.same = TRUE]

Goto(o, at) == call' = [call EXCEPT ![o].at = at]
Return(o) == call' = [call EXCEPT ![o] = NoCall]
Quiet == UNCHANGED <<env, scan>>

\* The row the call has read, by its id, is its last statement's.
DeleteFinding(o) ==
  LET gone == {r \in Res : call[o].same /\ call[o].res = r}
  IN /\ finding' = [r \in Res |-> IF r \in gone THEN "absent" ELSE finding[r]]
     /\ req' = Cascade(gone)
     /\ call' = [Detached(gone) EXCEPT ![o] = NoCall]

\* suppressJanitorFinding reads the finding, then writes the suppression and
\* deletes the row it read.
ReadToSuppress(o, r) ==
  /\ call[o].at = "idle" /\ finding[r] # "absent"
  /\ call' = [call EXCEPT ![o] = Holding("suppress", r)]
  /\ Quiet /\ UNCHANGED <<rows, edits, faults>> /\ Remember

Suppress(o) ==
  /\ call[o].at = "suppress"
  /\ sup' = Upsert(sup, call[o].res)
  /\ DeleteFinding(o)
  /\ Quiet /\ UNCHANGED <<edits, faults>> /\ Remember

\* createJanitorCleanupRequests, for one finding: protected ones get no live
\* request, and one pending request is enough; two calls may both find none.
Check(o, r, mode) ==
  /\ call[o].at = "idle" /\ finding[r] # "absent"
  /\ mode = "live" => ~Protected(finding[r], extra)
  /\ \A q \in Reqs : ~(req[q].st = "pending" /\ req[q].res = r)
  /\ call' = [call EXCEPT ![o] = [Holding("insert", r) EXCEPT !.mode = mode]]
  /\ Quiet /\ UNCHANGED <<rows, edits, faults>> /\ Remember

\* The foreign key refuses a finding that has gone (see Fail).
Insert(o) ==
  /\ call[o].at = "insert" /\ call[o].same
  /\ \E q \in Reqs :
       /\ req[q].st = "none"
       /\ req' = [req EXCEPT ![q] = [st |-> "pending", res |-> call[o].res,
                                     mode |-> call[o].mode]]
  /\ Return(o) /\ Quiet /\ UNCHANGED <<finding, sup, edits, faults>> /\ Remember

\* approveOrRejectJanitorCleanup: the request must be pending when it is read,
\* and a live one's finding not protected by the tags it was listed with.
Load(o, q, decision) ==
  /\ call[o].at = "idle" /\ req[q].st = "pending"
  /\ decision = "fetch" => req[q].mode = "live" /\ ~Protected(finding[req[q].res], extra)
  /\ decision = "execute" => req[q].mode = "dry_run"
  /\ call' = [call EXCEPT ![o] =
       [Holding(decision, req[q].res) EXCEPT !.req = q,
                                             !.extra = decision = "fetch" /\ extra]]
  /\ Quiet /\ UNCHANGED <<rows, edits, faults>> /\ Remember

\* The UPDATE names the request, not the status it was read in.
Decided(c, st) == IF c.same THEN [req EXCEPT ![c.req].st = st] ELSE req

Reject(o) ==
  /\ call[o].at = "reject"
  /\ req' = Decided(call[o], "rejected")
  /\ Return(o) /\ Quiet /\ UNCHANGED <<finding, sup, edits, faults>> /\ Remember

\* A dry run only says so.
ExecuteDry(o) ==
  /\ call[o].at = "execute"
  /\ req' = Decided(call[o], "executed")
  /\ Return(o) /\ Quiet /\ UNCHANGED <<finding, sup, edits, faults>> /\ Remember

\* Mutant: the tags it was listed with are trusted.
FetchUnchecked(o) ==
  /\ call[o].at = "fetch" /\ Goto(o, "delete")
  /\ Quiet /\ UNCHANGED <<rows, edits, faults>> /\ Remember

\* performLiveJanitorCleanup reads the resource again.  One protected by the
\* policy read before is spared (the request's "failed" is rolled back by the
\* throw that follows it); one that is gone goes through.
Fetch(o) ==
  /\ call[o].at = "fetch"
  /\ LET c == cloud[call[o].res]
     IN IF c.alive /\ Protected(c.tag, call[o].extra) THEN Return(o) ELSE Goto(o, "delete")
  /\ Quiet /\ UNCHANGED <<rows, edits, faults>> /\ Remember

\* Not found is as good as deleted.
Delete(o) ==
  /\ call[o].at = "delete"
  /\ cloud' = [cloud EXCEPT ![call[o].res].alive = FALSE]
  /\ Goto(o, "commit")
  /\ UNCHANGED <<extra, rows, scan, edits, faults>> /\ Remember

\* Mutant: the answer of the DELETE is not looked at.
DeleteFailsQuietly(o) ==
  /\ call[o].at = "delete" /\ Fault /\ Goto(o, "commit")
  /\ UNCHANGED <<env, rows, scan, edits>> /\ Remember

\* A failing DELETE may have reached the cloud.  The request is updated to
\* "failed" and the call throws, which undoes the update.
DeleteFails(o) ==
  /\ call[o].at = "delete" /\ Fault
  /\ \E alive \in {cloud[call[o].res].alive, FALSE} :
       cloud' = [cloud EXCEPT ![call[o].res].alive = alive]
  /\ Return(o)
  /\ UNCHANGED <<extra, rows, scan, edits>> /\ Remember

\* The finding is deleted first and takes the request with it: the UPDATE to
\* "executed" that follows finds no row.
Commit(o) ==
  /\ call[o].at = "commit"
  /\ DeleteFinding(o)
  /\ Quiet /\ UNCHANGED <<sup, edits, faults>> /\ Remember

\* Any other failure, or the process going, undoes what there is.
Fail(o) ==
  /\ call[o].at \notin {"idle", "delete"}
  /\ \/ Fault
     \/ call[o].at = "insert" /\ ~call[o].same /\ UNCHANGED faults
  /\ Return(o) /\ Quiet /\ UNCHANGED <<rows, edits>> /\ Remember

------------------------------------------------------------------------------
(* Scans: executeJanitorScanJob. *)

LoadPolicy(s) ==
  /\ scan[s].at = "idle"
  /\ scan' = [scan EXCEPT ![s] = [at |-> "list", extra |-> extra, found |-> {}]]
  /\ UNCHANGED <<env, rows, call, edits, faults>> /\ Remember

View(r) == IF cloud[r].listed THEN cloud[r].tag ELSE "none"

\* What the provider lists, less what applyTenantPolicies drops.
Listing(policy) == {r \in Res : cloud[r].alive /\ ~Protected(View(r), policy)}

List(s) ==
  /\ scan[s].at = "list"
  /\ scan' = [scan EXCEPT ![s].at = "filter",
                          ![s].found = {<<r, View(r)>> : r \in Listing(scan[s].extra)}]
  /\ UNCHANGED <<env, rows, call, edits, faults>> /\ Remember

\* Mutant: the suppressions are read and not applied.
FilterNothing(found) == found

\* filterFindingsBySuppressions.
FilterSuppressed(found) == {f \in found : f[1] \notin HiddenBy(Latest(sup))}

Filter(s) ==
  /\ scan[s].at = "filter"
  /\ scan' = [scan EXCEPT ![s].at = "finalize", ![s].found = FilterSuppressed(@)]
  /\ UNCHANGED <<env, rows, call, edits, faults>> /\ Remember

\* finalizeScan, one transaction: every finding of the account is deleted, its
\* requests with it, and the new ones inserted.
Finalize(s) ==
  /\ scan[s].at = "finalize"
  /\ finding' = [r \in Res |->
       IF \E f \in scan[s].found : f[1] = r
       THEN (CHOOSE f \in scan[s].found : f[1] = r)[2] ELSE "absent"]
  /\ req' = Cascade(Res)
  /\ call' = Detached(Res)
  /\ scan' = [scan EXCEPT ![s] = NoScan]
  /\ UNCHANGED <<env, sup, edits, faults>> /\ Remember

\* A failing scan is recorded on the account and tried again as a new one; so
\* is the second of two whose inserts meet.
ScanFails(s) ==
  /\ scan[s].at # "idle" /\ Fault
  /\ scan' = [scan EXCEPT ![s] = NoScan]
  /\ UNCHANGED <<env, rows, call, edits>> /\ Remember

------------------------------------------------------------------------------

Init ==
  /\ cloud \in [Res -> [alive : {TRUE}, tag : {"none"}, listed : BOOLEAN]]
  /\ extra = FALSE
  /\ finding = [r \in Res |-> "absent"] /\ sup = <<>>
  /\ req = [q \in Reqs |-> NoReq]
  /\ call = [o \in Ops |-> NoCall] /\ scan = [s \in Scanners |-> NoScan]
  /\ since = [p \in Procs |-> Nothing]
  /\ edits = 0 /\ faults = 0

Owners == \/ \E r \in Res : Retag(r) \/ Vanish(r) \/ Undo(r) \/ Expire(r)
          \/ SetPolicy

Start(o) ==
  \/ \E r \in Res : ReadToSuppress(o, r) \/ \E mode \in Modes : Check(o, r, mode)
  \/ \E q \in Reqs, decision \in {"reject", "execute", "fetch"} : Load(o, q, decision)

Proceed(o) ==
  \/ Suppress(o) \/ Insert(o) \/ Reject(o) \/ ExecuteDry(o) \/ Fetch(o)
  \/ Delete(o) \/ DeleteFails(o) \/ Commit(o) \/ Fail(o)

Scan(s) == LoadPolicy(s) \/ List(s) \/ Filter(s) \/ Finalize(s) \/ ScanFails(s)

Next == \/ Owners
        \/ \E o \in Ops : Start(o) \/ Proceed(o)
        \/ \E s \in Scanners : Scan(s)

Spec == Init /\ [][Next]_vars

------------------------------------------------------------------------------
(* Properties. *)

CallSteps == {"idle", "suppress", "insert", "reject", "execute", "fetch", "delete", "commit"}

\* The last two conjuncts: a request that waits has its finding, and a call that
\* goes on believes only rows that are there.
TypeOK ==
  /\ cloud \in [Res -> [alive : BOOLEAN, tag : Tags, listed : BOOLEAN]] /\ extra \in BOOLEAN
  /\ finding \in [Res -> Tags \cup {"absent"}]
  /\ sup \in Seq([res : Res, holds : BOOLEAN]) /\ Len(sup) <= Cardinality(Res)
  /\ req \in [Reqs -> [st : {"none", "pending", "rejected", "executed"},
                       res : Res, mode : Modes]]
  /\ call \in [Ops -> [at : CallSteps, req : Reqs, res : Res, mode : Modes,
                       extra : BOOLEAN, same : BOOLEAN]]
  /\ scan \in [Scanners -> [at : {"idle", "list", "filter", "finalize"},
                            extra : BOOLEAN, found : SUBSET (Res \X Tags)]]
  /\ since \in [Procs -> [hidden : SUBSET Res, marked : SUBSET Res]]
  /\ edits \in 0..MaxEdits /\ faults \in 0..MaxFaults
  /\ \A q \in Reqs : req[q].st # "none" => finding[req[q].res] # "absent"
  /\ \A o \in Ops : call[o].same => finding[call[o].res] # "absent"

\* Charon's blast radius: a resource whose tags in the cloud have been protected
\* ones ever since the approval was loaded, by the policy of that time, is not
\* deleted, whatever tags its finding has kept.
ProtectedSpared ==
  [][\A o \in Ops : LET r == call[o].res IN
       call[o].at = "delete" /\ cloud[r].alive /\ ~cloud'[r].alive
         /\ call'[o] # call[o]
       => r \notin since[o].marked]_vars

\* An approval of a live request that is answered with success leaves no
\* resource behind, although a DELETE may fail, repeat or find nothing.
ApprovedIsGone ==
  [][\A o \in Ops : call[o].at = "commit" /\ call'[o].at = "idle"
       => ~cloud[call[o].res].alive]_vars

\* docs/operations/charon.md:93: a scan lists nothing that has been suppressed
\* ever since it began, though suppressions, undoings and other scans overlap
\* it, nor, where tags are listed, anything protected ever since.  (True while
\* no more suppressions are kept than a scan reads.)
SuppressedStaysHidden ==
  [][\A s \in Scanners :
       scan[s].at = "finalize" /\ scan'[s].at = "idle" /\ faults' = faults
       => \A r \in since[s].hidden \cup {x \in since[s].marked : cloud[x].listed} :
            finding'[r] = "absent"]_vars

\* docs/operations/charon.md:10: "Failed deletes persist a `failed` row in the
\* cleanup queue".
FailedIsRecorded ==
  [][\A o \in Ops : call[o].at = "delete" /\ call'[o].at = "idle" /\ call[o].same
       => req'[call[o].req].st = "failed"]_vars
==============================================================================
