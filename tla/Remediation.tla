------------------------------ MODULE Remediation ------------------------------
(* The remediation service (src/blackglass-remediator): a drift webhook stores
   a recommendation and starts a background workflow that plans it, tries the
   plan in a throwaway droplet and offers it for approval, while operators
   approve, reject or replay it.  Every handler works on the copy of the row it
   loaded first, and nothing serialises two handlers of one recommendation.

   recommendation_repo.save: SQLAlchemy's identity map holds a row weakly and
   the handlers keep only the domain object, so save SELECTs the row again and
   the flush UPDATEs the columns in which the handler's copy differs from what
   that SELECT saw.  Select and Flush are the two round trips (READ COMMITTED).
   expired_at is assigned nowhere and expire_stale is a placeholder, so the
   states "expired", "verified" and "executed" are never entered; the log of a
   recommendation and the callbacks to the console are left out. *)
EXTENDS Naturals, FiniteSets

CONSTANTS
  Recs,        \* recommendations, one per accepted webhook
  Reqs,        \* requests of operators
  NoOne,
  Tiers,       \* the risk tiers a webhook's findings may be given
  Sandboxed,   \* ENABLE_SANDBOX_VERIFICATION
  MaxFaults,   \* bound: droplets that do not boot, or whose deletion fails
  MaxCrashes,  \* bound: exits of the service
  MaxReplays   \* bound: replays asked for

VARIABLES
  row,      \* the table: one record of columns per recommendation
  tier,     \* risk_policy_tier
  pc,       \* where each handler is; a workflow is named by its recommendation
  then,     \* where it goes on after the save it is in
  kind,     \* what each request asks
  target,   \* which recommendation a handler works on
  mine,     \* its copy of the row
  base,     \* the columns its save's SELECT read
  seen,     \* history: the row an approval or rejection loaded
  droplet,  \* the droplet each handler created
  faults, crashes

vars == <<row, tier, pc, then, kind, target, mine, base, seen, droplet,
          faults, crashes>>

Guidance == {"safe_guidance_only", "manual_only"}
Verified == {"sandbox_verifiable", "approval_required"}
Procs    == Recs \cup Reqs
Replays  == {"replay", "dry_run"}

ASSUME RemediationAssumption ==
  /\ Recs \cap Reqs = {} /\ NoOne \notin Procs
  /\ Tiers \subseteq Guidance \cup Verified
  /\ Sandboxed \in BOOLEAN
  /\ MaxFaults \in Nat /\ MaxCrashes \in Nat /\ MaxReplays \in Nat

\* A plan is named by the handler that had it generated.
Plans     == [by : Procs \cup {NoOne}, commands : BOOLEAN]
NoPlan    == [by |-> NoOne, commands |-> FALSE]
Approvals == [by : Reqs \cup {NoOne}, decision : {"none", "approved", "rejected"}]
NoRecord  == [by |-> NoOne, decision |-> "none"]

Row ==
  [status : {"none", "draft", "awaiting_approval", "approved", "rejected", "failed"},
   plan : Plans, verification : {"none", "passed", "failed"},
   approval : Approvals, approved_at : Reqs \cup {NoOne}]

Blank(s) == [status |-> s, plan |-> NoPlan, verification |-> "none",
             approval |-> NoRecord, approved_at |-> NoOne]

Init ==
  /\ row = [r \in Recs |-> Blank("none")]
  /\ tier \in [Recs -> Tiers]
  /\ pc = [p \in Procs |-> "idle"]
  /\ then = [p \in Procs |-> "done"]
  /\ kind = [p \in Reqs |-> "none"]
  /\ target \in [Procs -> Recs]
  /\ \A r \in Recs : target[r] = r
  /\ mine = [p \in Procs |-> Blank("none")]
  /\ base = [p \in Procs |-> Blank("none")]
  /\ seen = [p \in Reqs |-> Blank("none")]
  /\ droplet = [p \in Procs |-> "none"]
  /\ faults = 0 /\ crashes = 0

-------------------------------------------------------------------------------
(* recommendation_repo.save and session.commit *)

\* The handler's copy becomes c, it saves it, and goes on at l.
Save(p, c, l) ==
  /\ mine' = [mine EXCEPT ![p] = c]
  /\ pc' = [pc EXCEPT ![p] = "save"]
  /\ then' = [then EXCEPT ![p] = l]

Select(p) ==
  /\ pc[p] = "save"
  /\ base' = [base EXCEPT ![p] = row[target[p]]]
  /\ pc' = [pc EXCEPT ![p] = "flush"]
  /\ UNCHANGED <<row, tier, then, kind, target, mine, seen, droplet, faults, crashes>>

\* Mutant: the decision's record is not saved.
UnrecordedMerge(old, from, new) ==
  [c \in DOMAIN old |-> IF c = "approval" \/ new[c] = from[c] THEN old[c] ELSE new[c]]

Merged(old, from, new) ==
  [c \in DOMAIN old |-> IF new[c] = from[c] THEN old[c] ELSE new[c]]

\* A handler that ends forgets its copy.
Kept(p, l) == IF l = "done" THEN Blank("none") ELSE mine[p]

\* replay saves once more when it is complete: "again".
Flush(p) ==
  /\ pc[p] = "flush"
  /\ row' = [row EXCEPT ![target[p]] = Merged(@, base[p], mine[p])]
  /\ pc' = [pc EXCEPT ![p] = IF then[p] = "again" THEN "save" ELSE then[p]]
  /\ then' = [then EXCEPT ![p] = "done"]
  /\ mine' = [mine EXCEPT ![p] = Kept(p, then[p])]
  /\ base' = [base EXCEPT ![p] = Blank("none")]
  /\ UNCHANGED <<tier, kind, target, seen, droplet, faults, crashes>>

-------------------------------------------------------------------------------
(* POST /webhooks/blackglass/drift: every accepted event is a new row and a
   background task, which is lost when the process exits. *)

Ingest(r) ==
  /\ pc[r] = "idle"
  /\ row' = [row EXCEPT ![r] = Blank("draft")]
  /\ pc' = [pc EXCEPT ![r] = "load"]
  /\ UNCHANGED <<tier, then, kind, target, mine, base, seen, droplet, faults, crashes>>

\* RemediationWorkflow.run: what is no draft any more is left alone.
Load(r) ==
  /\ pc[r] = "load"
  /\ IF row[r].status = "draft"
     THEN /\ mine' = [mine EXCEPT ![r] = row[r]]
          /\ pc' = [pc EXCEPT ![r] = "plan"]
     ELSE /\ pc' = [pc EXCEPT ![r] = "done"]
          /\ UNCHANGED mine
  /\ UNCHANGED <<row, tier, then, kind, target, base, seen, droplet, faults, crashes>>

-------------------------------------------------------------------------------
(* The operators' requests: each loads the row and decides on what it read. *)

Receive(p, k) ==
  /\ pc[p] = "idle"
  /\ row[target[p]].status # "none"
  /\ kind' = [kind EXCEPT ![p] = k]
  /\ UNCHANGED <<row, tier, target, base, droplet, faults, crashes>>

\* 409
Refuse(p) ==
  /\ pc' = [pc EXCEPT ![p] = "done"]
  /\ UNCHANGED <<mine, then>>

Approve(p) ==
  /\ Receive(p, "approve")
  /\ seen' = [seen EXCEPT ![p] = row[target[p]]]
  /\ LET c == row[target[p]] IN
     IF c.status = "awaiting_approval"
     THEN Save(p, [c EXCEPT !.status = "approved", !.approved_at = p,
                            !.approval = [by |-> p, decision |-> "approved"]], "done")
     ELSE Refuse(p)

Reject(p) ==
  /\ Receive(p, "reject")
  /\ seen' = [seen EXCEPT ![p] = row[target[p]]]
  /\ LET c == row[target[p]] IN
     IF c.status \in {"awaiting_approval", "draft"}
     THEN Save(p, [c EXCEPT !.status = "rejected",
                            !.approval = [by |-> p, decision |-> "rejected"]], "done")
     ELSE Refuse(p)

\* ReplayWorkflow.replay looks at no status.
Replay(p, k) ==
  /\ Cardinality({q \in Reqs : kind[q] \in Replays}) < MaxReplays
  /\ Receive(p, k)
  /\ Save(p, Blank("draft"), "plan")
  /\ UNCHANGED seen

-------------------------------------------------------------------------------
(* Planning, verification and what the workflow and the replay do after them *)

\* A replay ends with one more save; a workflow ends.
After(p) == IF p \in Reqs THEN "again" ELSE "done"

\* Mutant: every plan is offered as soon as it is there.
ProposeAll(t) == "awaiting_approval"

\* What needs no sandbox is offered at once.
Proposed(t) == IF t \in Guidance THEN "awaiting_approval" ELSE "draft"

\* PlanningService.generate_plan: the agent answers, ...
Plan(p, commands) ==
  /\ pc[p] = "plan"
  /\ commands => tier[target[p]] # "safe_guidance_only"
  /\ Save(p, [mine[p] EXCEPT
                !.plan = [by |-> p, commands |-> commands],
                !.status = Proposed(tier[target[p]])], "planned")
  /\ UNCHANGED <<row, tier, kind, target, base, seen, droplet, faults, crashes>>

\* ... answers what is no plan (AgentError), ...
PlanFailed(p) ==
  /\ pc[p] = "plan"
  /\ Save(p, [mine[p] EXCEPT !.status = "failed"], "done")
  /\ UNCHANGED <<row, tier, kind, target, base, seen, droplet, faults, crashes>>

\* ... or anything else is raised: no save, and the handler ends.
PlanRaised(p) ==
  /\ pc[p] = "plan"
  /\ pc' = [pc EXCEPT ![p] = "done"]
  /\ mine' = [mine EXCEPT ![p] = Blank("none")]
  /\ UNCHANGED <<row, tier, then, kind, target, base, seen, droplet, faults, crashes>>

ToVerify(p) ==
  /\ tier[target[p]] \in Verified
  /\ mine[p].plan.commands
  /\ p \in Reqs => kind[p] = "replay"

\* Nothing to verify, or verification is disabled: a draft moves on.
Settle(p) ==
  /\ pc[p] = "planned"
  /\ ~(ToVerify(p) /\ Sandboxed)
  /\ IF mine[p].status = "draft"
     THEN Save(p, [mine[p] EXCEPT !.status = "awaiting_approval"], After(p))
     ELSE /\ pc' = [pc EXCEPT ![p] = IF p \in Reqs THEN "save" ELSE "done"]
          /\ mine' = [mine EXCEPT ![p] = IF p \in Reqs THEN @ ELSE Blank("none")]
          /\ UNCHANGED then
  /\ UNCHANGED <<row, tier, kind, target, base, seen, droplet, faults, crashes>>

\* VerificationService.verify raised: the workflow offers the plan unverified, a
\* replay ends in an error without saving.
Raise(p) ==
  IF p \in Recs
  THEN Save(p, [mine[p] EXCEPT !.status = "awaiting_approval"], "done")
  ELSE /\ pc' = [pc EXCEPT ![p] = "done"]
       /\ mine' = [mine EXCEPT ![p] = Blank("none")]
       /\ UNCHANGED then

\* SandboxService.provision: create_droplet, then wait_for_active
Create(p) ==
  /\ pc[p] = "planned"
  /\ ToVerify(p) /\ Sandboxed
  /\ \/ /\ droplet' = [droplet EXCEPT ![p] = "live"]
        /\ pc' = [pc EXCEPT ![p] = "boot"]
        /\ UNCHANGED <<mine, then>>
     \/ /\ Raise(p)
        /\ UNCHANGED droplet
  /\ UNCHANGED <<row, tier, kind, target, base, seen, faults, crashes>>

Boot(p) ==
  /\ pc[p] = "boot"
  /\ \/ /\ pc' = [pc EXCEPT ![p] = "pipeline"]
        /\ UNCHANGED <<mine, then, faults>>
     \/ /\ faults < MaxFaults
        /\ faults' = faults + 1
        /\ Raise(p)
  /\ UNCHANGED <<row, tier, kind, target, base, seen, droplet, crashes>>

\* Mutant: the status the enumeration has for a verified plan, which no guard knows.
MarkVerified(c) == [c EXCEPT !.status = "verified", !.verification = "passed"]

Passed(c) == [c EXCEPT !.status = "awaiting_approval", !.verification = "passed"]
\* Mutant: what the sandbox refused is offered all the same.
OfferFailed(c) == [c EXCEPT !.status = "awaiting_approval", !.verification = "failed"]

Failed(c) == [c EXCEPT !.status = "draft", !.verification = "failed"]
Broken(c) == [c EXCEPT !.status = "failed"]

\* The pipeline passes its checks, does not, or raises; all three reach destroy.
Pipeline(p) ==
  /\ pc[p] = "pipeline"
  /\ \E c \in {Passed(mine[p]), Failed(mine[p]), Broken(mine[p])} :
       mine' = [mine EXCEPT ![p] = c]
  /\ pc' = [pc EXCEPT ![p] = "destroy"]
  /\ UNCHANGED <<row, tier, then, kind, target, base, seen, droplet, faults, crashes>>

\* Mutant: the droplet is deleted at the end of the try block, not in finally.
DestroyInTry(p) ==
  /\ pc[p] = "destroy"
  /\ droplet' = [droplet EXCEPT ![p] = IF mine[p].status = "failed" THEN @ ELSE "gone"]
  /\ Save(p, mine[p], After(p))
  /\ UNCHANGED <<row, tier, kind, target, base, seen, faults, crashes>>

\* SandboxService.destroy swallows the cloud's errors.
Destroy(p) ==
  /\ pc[p] = "destroy"
  /\ \/ /\ droplet' = [droplet EXCEPT ![p] = "gone"]
        /\ UNCHANGED faults
     \/ /\ faults < MaxFaults
        /\ faults' = faults + 1
        /\ UNCHANGED droplet
  /\ Save(p, mine[p], After(p))
  /\ UNCHANGED <<row, tier, kind, target, base, seen, crashes>>

-------------------------------------------------------------------------------

\* The service exits: every handler under way is gone, workflows included.
Crash ==
  /\ crashes < MaxCrashes
  /\ crashes' = crashes + 1
  /\ pc' = [p \in Procs |-> IF pc[p] = "idle" THEN "idle" ELSE "done"]
  /\ then' = [p \in Procs |-> "done"]
  /\ mine' = [p \in Procs |-> Blank("none")]
  /\ base' = [p \in Procs |-> Blank("none")]
  /\ UNCHANGED <<row, tier, kind, target, seen, droplet, faults>>

Step(p) ==
  \/ Select(p) \/ Flush(p)
  \/ \E c \in BOOLEAN : Plan(p, c)
  \/ PlanFailed(p) \/ PlanRaised(p) \/ Settle(p)
  \/ Create(p) \/ Boot(p) \/ Pipeline(p) \/ Destroy(p)

Next ==
  \/ \E r \in Recs : Ingest(r) \/ Load(r)
  \/ \E p \in Reqs : Approve(p) \/ Reject(p) \/ \E k \in Replays : Replay(p, k)
  \/ \E p \in Procs : Step(p)
  \/ Crash

Spec == Init /\ [][Next]_vars

-------------------------------------------------------------------------------
(* Properties.  Disturbed: an operator has asked to replay the recommendation,
   or rejected the draft the workflow was still working on; the code promises
   nothing then, and the README says what can happen. *)

Disturbed(r) ==
  \E p \in Reqs : /\ target[p] = r
                  /\ kind[p] \in Replays \/ (kind[p] = "reject" /\ seen[p].status = "draft")

\* Every variable stays in its type.
TypeOK ==
  /\ row \in [Recs -> Row]
  /\ tier \in [Recs -> Tiers]
  /\ pc \in [Procs -> {"idle", "load", "plan", "planned", "boot", "pipeline",
                       "destroy", "save", "flush", "done"}]
  /\ then \in [Procs -> {"plan", "planned", "again", "done"}]
  /\ kind \in [Reqs -> {"none", "approve", "reject"} \cup Replays]
  /\ target \in [Procs -> Recs]
  /\ mine \in [Procs -> Row] /\ base \in [Procs -> Row] /\ seen \in [Reqs -> Row]
  /\ droplet \in [Procs -> {"none", "live", "gone"}]
  /\ faults \in 0..MaxFaults /\ crashes \in 0..MaxCrashes

\* p approves r, or rejects it, having loaded it while it was awaiting that.
Approving(p, r) ==
  kind[p] = "approve" /\ target[p] = r /\ seen[p].status = "awaiting_approval"
Rejecting(p, r) ==
  kind[p] = "reject" /\ target[p] = r /\ seen[p].status = "awaiting_approval"

OnRecord(r) ==
  LET a == row[r].approval
  IN  /\ a.decision = "approved" /\ row[r].approved_at = a.by
      /\ a.by \in Reqs /\ Approving(a.by, r)

\* ApprovalService.approve: what is approved is a plan some approval loaded, and
\* carries the record of such an approval if one request at most rejects it.
ApprovedAsSeen ==
  \A r \in Recs : row[r].status = "approved" /\ ~Disturbed(r) =>
    /\ row[r].plan # NoPlan
    /\ \E p \in Reqs : Approving(p, r) /\ seen[p].plan = row[r].plan
    /\ (\A p, q \in Reqs : Rejecting(p, r) /\ Rejecting(q, r) => p = q) => OnRecord(r)

\* verification_service.py:141-145: a plan that failed in the sandbox needs
\* review; it is not offered for approval, whatever else is saved meanwhile.
FailedNotOffered ==
  \A r \in Recs : row[r].verification = "failed" /\ ~Disturbed(r) =>
    row[r].status \in {"draft", "rejected"}

\* remediation_workflow.py: the workflow never writes to what was approved; only
\* a request that loaded the row before the approval does.
ApprovalKept ==
  [][\A r \in Recs : row[r].status = "approved" /\ ~Disturbed(r) /\ row'[r] # row[r] =>
       \E p \in Reqs : target[p] = r /\ pc[p] = "flush" /\ seen[p].status # "approved"]_vars

\* verification_service.py:160-166: no handler ends and leaves its droplet alive,
\* whatever the commands did, unless the cloud or the process failed.
DropletsDestroyed ==
  \A p \in Procs : pc[p] = "done" /\ faults + crashes = 0 => droplet[p] # "live"

\* approval_service.py:52: "Only transitions from AWAITING_APPROVAL status are
\* permitted."
ApprovedFromAwaiting ==
  [][\A r \in Recs : row'[r].status = "approved" =>
       row[r].status \in {"awaiting_approval", "approved"}]_vars

\* tests/test_approval_workflow.py:31: what is approved names who approved it.
ApprovedOnRecord ==
  \A r \in Recs : row[r].status = "approved" /\ ~Disturbed(r) => OnRecord(r)

===============================================================================
