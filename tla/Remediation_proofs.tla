------------------------- MODULE Remediation_proofs -------------------------
(***************************************************************************)
(* Remediation for any number of recommendations, operators and faults:    *)
(* what is approved is a plan its approver read, whatever columns the      *)
(* handlers' saves mix, and no droplet outlives its handler.               *)
(*                                                                         *)
(* The invariant gives every recommendation nobody disturbs a stage: not   *)
(* there yet, a draft its workflow alone writes, or finished, when only    *)
(* decisions are saved and no save moves the plan.                         *)
(***************************************************************************)
EXTENDS Remediation, FiniteSetTheorems, TLAPS

Decider(p, r) == Approving(p, r) \/ Rejecting(p, r)
Decision(p)   == IF kind[p] = "approve" THEN "approved" ELSE "rejected"

\* A workflow works on its own recommendation.
OwnTarget == \A r \in Recs : target[r] = r

\* A request to decide saves the row it loaded with its decision on it.
Deciding(p) ==
  /\ pc[p] \in {"save", "flush"} /\ then[p] = "done"
  /\ seen[p].status \in {"awaiting_approval"} \cup (IF kind[p] = "reject" THEN {"draft"} ELSE {})
  /\ mine[p].status = Decision(p)
  /\ mine[p].approval = [by |-> p, decision |-> Decision(p)]
  /\ mine[p].approved_at = IF kind[p] = "approve" THEN p ELSE seen[p].approved_at
  /\ mine[p].plan = seen[p].plan /\ mine[p].verification = seen[p].verification

Requests ==
  \A p \in Reqs :
    /\ kind[p] = "none" <=> pc[p] = "idle"
    /\ kind[p] \in {"approve", "reject"} /\ pc[p] # "done" => Deciding(p)

\* What a workflow is about to save for good.
Outcome(c) ==
  /\ c.status \in {"draft", "awaiting_approval", "failed"}
  /\ c.status = "awaiting_approval" => c.plan # NoPlan
  /\ c.verification = "failed" => c.status = "draft"

Undecided(c) == c.approval = NoRecord /\ c.approved_at = NoOne

\* The stages of a recommendation that nobody disturbs.  It is not there yet;
Absent(r) ==
  /\ row[r] = Blank("none") /\ pc[r] = "idle"
  /\ \A p \in Reqs : target[p] = r => kind[p] = "none"

\* the workflow alone writes it, having read what stands in it;
Drafted(r) ==
  /\ row[r].status = "draft" /\ Undecided(row[r])
  /\ \A p \in Reqs : ~Decider(p, r)
  /\ pc[r] # "idle"
  /\ pc[r] # "done" => row[r].verification = "none"
  /\ pc[r] \notin {"load", "done"} => Undecided(mine[r])
  /\ pc[r] \in {"plan", "planned", "boot", "pipeline"} =>
       mine[r].status = "draft" /\ mine[r].verification = "none"
  /\ pc[r] \in {"planned", "boot", "pipeline"} => mine[r].plan # NoPlan
  /\ pc[r] = "destroy" => Outcome(mine[r])
  /\ pc[r] \in {"save", "flush"} =>
       \/ then[r] = "done" /\ Outcome(mine[r])
       \/ /\ then[r] = "planned"
          /\ mine[r].status = Proposed(tier[r])
          /\ mine[r].plan # NoPlan /\ mine[r].verification = "none"
  /\ pc[r] = "flush" => base[r] = row[r]

\* the workflow has saved for the last time, and operators decide.
SomeRejection(r) == \E q \in Reqs : Rejecting(q, r) /\ pc[q] = "done"
OneRejection(r)  == \A p, q \in Reqs : Rejecting(p, r) /\ Rejecting(q, r) => p = q

Decided(r, c) ==
  /\ c.status \in {"awaiting_approval", "approved", "rejected"}
  /\ c.status = "rejected" => SomeRejection(r)
  /\ \A q \in Reqs : c.approval.by = q \/ c.approved_at = q => pc[q] = "done"

Offered(r) ==
  /\ Decided(r, row[r])
  /\ row[r].plan # NoPlan /\ row[r].verification # "failed"
  /\ row[r].status = "approved" =>
       (\E p \in Reqs : Approving(p, r)) /\ (OneRejection(r) => OnRecord(r))
  /\ \A p \in Reqs : Decider(p, r) =>
       /\ seen[p].plan = row[r].plan /\ seen[p].verification = row[r].verification
       /\ Decided(r, seen[p])
       /\ pc[p] = "flush" =>
            /\ base[p].plan = row[r].plan /\ base[p].verification = row[r].verification
            /\ Decided(r, base[p])

GivenUp(r) ==
  /\ row[r].status = "failed" /\ row[r].verification # "failed"
  /\ \A p \in Reqs : ~Decider(p, r)

Finished(r) ==
  pc[r] = "done" \/ (pc[r] = "planned" /\ tier[r] \in Guidance /\ mine[r].status # "draft")

Stage(r) ==
  Absent(r) \/ Drafted(r) \/ (Finished(r) /\ (Offered(r) \/ GivenUp(r)))
Stages == \A r \in Recs : ~Disturbed(r) => Stage(r)

\* A live droplet has a handler that will reach its deletion.
Attended ==
  \A p \in Procs :
    droplet[p] = "live" /\ faults + crashes = 0 => pc[p] \in {"boot", "pipeline", "destroy"}

IInv == TypeOK /\ OwnTarget /\ Requests /\ Stages
-----------------------------------------------------------------------------
(* Columns.                                                                *)

Statuses == {"none", "draft", "awaiting_approval", "approved", "rejected", "failed"}

LEMMA RowTypes ==
  /\ \A c \in Row : /\ c.status \in Statuses /\ c.plan \in Plans
                    /\ c.verification \in {"none", "passed", "failed"}
                    /\ c.approval \in Approvals /\ c.approved_at \in Reqs \cup {NoOne}
  /\ \A st \in Statuses : Blank(st) \in Row /\ Undecided(Blank(st))
BY DEF Row, Statuses, Blank, NoPlan, NoRecord, Plans, Approvals, Undecided

\* A save takes a column from the copy when it differs from what was read.
LEMMA MergedColumns ==
  ASSUME NEW old \in Row, NEW from \in Row, NEW new \in Row
  PROVE  LET m == Merged(old, from, new) IN
         /\ m \in Row
         /\ m.status = IF new.status = from.status THEN old.status ELSE new.status
         /\ m.plan = IF new.plan = from.plan THEN old.plan ELSE new.plan
         /\ m.verification = IF new.verification = from.verification
                             THEN old.verification ELSE new.verification
         /\ m.approval = IF new.approval = from.approval THEN old.approval ELSE new.approval
         /\ m.approved_at = IF new.approved_at = from.approved_at
                            THEN old.approved_at ELSE new.approved_at
<1>1. DOMAIN old = {"status", "plan", "verification", "approval", "approved_at"}
  BY DEF Row
<1>2. Merged(old, from, new)
      = [status |-> IF new.status = from.status THEN old.status ELSE new.status,
         plan |-> IF new.plan = from.plan THEN old.plan ELSE new.plan,
         verification |-> IF new.verification = from.verification
                          THEN old.verification ELSE new.verification,
         approval |-> IF new.approval = from.approval THEN old.approval ELSE new.approval,
         approved_at |-> IF new.approved_at = from.approved_at
                         THEN old.approved_at ELSE new.approved_at]
  BY <1>1 DEF Merged
<1>3. QED
  BY <1>2, RowTypes DEF Row, Statuses

\* With nothing written since, the copy becomes the row.
LEMMA MergedAlone ==
  ASSUME NEW old \in Row, NEW new \in Row
  PROVE  Merged(old, old, new) = new
<1>1. DOMAIN old = DOMAIN new /\ new = [c \in DOMAIN new |-> new[c]]
  BY DEF Row
<1>2. QED
  BY <1>1 DEF Merged

\* The rows the handlers make of their copies.
LEMMA Copies ==
  ASSUME NEW c \in Row
  PROVE  /\ \A st \in Statuses : [c EXCEPT !.status = st] \in Row
         /\ Passed(c) \in Row /\ Failed(c) \in Row /\ Broken(c) \in Row
         /\ Undecided(c) => Undecided(Passed(c)) /\ Undecided(Failed(c)) /\ Undecided(Broken(c))
         /\ Passed(c).plan = c.plan /\ Failed(c).plan = c.plan /\ Broken(c).plan = c.plan
         /\ Passed(c).status = "awaiting_approval" /\ Passed(c).verification = "passed"
         /\ Failed(c).status = "draft" /\ Failed(c).verification = "failed"
         /\ Broken(c).status = "failed" /\ Broken(c).verification = c.verification
<1>1. \A st \in Statuses : [c EXCEPT !.status = st] \in Row
  BY DEF Row, Statuses
<1>2. Broken(c) \in Row
  BY <1>1 DEF Broken, Statuses
<1>3. Passed(c) \in Row
  BY DEF Row, Passed
<1>4. Failed(c) \in Row
  BY DEF Row, Failed
<1>5. QED
  BY <1>1, <1>2, <1>3, <1>4 DEF Row, Passed, Failed, Broken, Undecided

AsApproved(c, p) == [c EXCEPT !.status = "approved", !.approved_at = p,
                              !.approval = [by |-> p, decision |-> "approved"]]
AsRejected(c, p) == [c EXCEPT !.status = "rejected",
                              !.approval = [by |-> p, decision |-> "rejected"]]
AsPlanned(c, p, b, t) == [c EXCEPT !.plan = [by |-> p, commands |-> b], !.status = Proposed(t)]

LEMMA DecidedCopies ==
  ASSUME NEW c \in Row, NEW p \in Reqs
  PROVE  /\ AsApproved(c, p) \in Row /\ AsRejected(c, p) \in Row
         /\ AsApproved(c, p).status = "approved" /\ AsRejected(c, p).status = "rejected"
         /\ AsApproved(c, p).approved_at = p /\ AsRejected(c, p).approved_at = c.approved_at
         /\ AsApproved(c, p).approval = [by |-> p, decision |-> "approved"]
         /\ AsRejected(c, p).approval = [by |-> p, decision |-> "rejected"]
         /\ AsApproved(c, p).plan = c.plan /\ AsRejected(c, p).plan = c.plan
         /\ AsApproved(c, p).verification = c.verification
         /\ AsRejected(c, p).verification = c.verification
BY DEF Row, Approvals, AsApproved, AsRejected

LEMMA PlannedCopy ==
  ASSUME NEW c \in Row, NEW p \in Procs, NEW b \in BOOLEAN, NEW t
  PROVE  LET n == AsPlanned(c, p, b, t) IN
         /\ n \in Row /\ n.status = Proposed(t) /\ n.plan # NoPlan
         /\ n.verification = c.verification /\ (Undecided(c) => Undecided(n))
BY RemediationAssumption DEF Row, Plans, NoPlan, Proposed, Undecided, AsPlanned
-----------------------------------------------------------------------------
(* Types.                                                                  *)

PcValues == {"idle", "load", "plan", "planned", "boot", "pipeline",
             "destroy", "save", "flush", "done"}
ThenValues == {"plan", "planned", "again", "done"}

LEMMA TypeInit == Init => TypeOK
BY RowTypes, RemediationAssumption DEF Init, TypeOK, Statuses

LEMMA SaveTypes ==
  ASSUME TypeOK, NEW p \in Procs, NEW c \in Row, NEW l \in ThenValues, Save(p, c, l)
  PROVE  /\ mine' \in [Procs -> Row] /\ pc' \in [Procs -> PcValues]
         /\ then' \in [Procs -> ThenValues]
BY DEF TypeOK, Save, PcValues, ThenValues

LEMMA TypeStep == TypeOK /\ [Next]_vars => TypeOK'
<1> SUFFICES ASSUME TypeOK, [Next]_vars PROVE TypeOK'
  OBVIOUS
<1> USE DEF Procs
<1>a. /\ row \in [Recs -> Row] /\ tier \in [Recs -> Tiers]
      /\ pc \in [Procs -> PcValues] /\ then \in [Procs -> ThenValues]
      /\ kind \in [Reqs -> {"none", "approve", "reject"} \cup Replays]
      /\ target \in [Procs -> Recs]
      /\ mine \in [Procs -> Row] /\ base \in [Procs -> Row] /\ seen \in [Reqs -> Row]
      /\ droplet \in [Procs -> {"none", "live", "gone"}]
      /\ faults \in 0..MaxFaults /\ crashes \in 0..MaxCrashes
  BY DEF TypeOK, PcValues, ThenValues
<1>b. \A st \in Statuses : Blank(st) \in Row
  BY RowTypes
<1>c. /\ row' \in [Recs -> Row] /\ tier' \in [Recs -> Tiers]
      /\ pc' \in [Procs -> PcValues] /\ then' \in [Procs -> ThenValues]
      /\ kind' \in [Reqs -> {"none", "approve", "reject"} \cup Replays]
      /\ target' \in [Procs -> Recs]
      /\ mine' \in [Procs -> Row] /\ base' \in [Procs -> Row] /\ seen' \in [Reqs -> Row]
      /\ droplet' \in [Procs -> {"none", "live", "gone"}]
      /\ faults' \in 0..MaxFaults /\ crashes' \in 0..MaxCrashes
      => TypeOK'
  BY DEF TypeOK, PcValues, ThenValues
<1>1. ASSUME NEW p \in Procs, Select(p) PROVE TypeOK'
  BY <1>a, <1>c, <1>1 DEF Select, PcValues
<1>2. ASSUME NEW p \in Procs, Flush(p) PROVE TypeOK'
  <2>1. row' \in [Recs -> Row]
    <3>1. Merged(row[target[p]], base[p], mine[p]) \in Row
      BY <1>a, MergedColumns
    <3>2. QED
      BY <1>a, <1>2, <3>1 DEF Flush
  <2>2. mine' \in [Procs -> Row] /\ base' \in [Procs -> Row]
    BY <1>a, <1>b, <1>2 DEF Flush, Kept, Statuses
  <2>3. pc' \in [Procs -> PcValues] /\ then' \in [Procs -> ThenValues]
    BY <1>a, <1>2 DEF Flush, PcValues, ThenValues
  <2>4. QED
    BY <1>a, <1>c, <1>2, <2>1, <2>2, <2>3 DEF Flush
<1>3. ASSUME NEW r \in Recs, Ingest(r) PROVE TypeOK'
  BY <1>a, <1>b, <1>c, <1>3 DEF Ingest, PcValues, Statuses
<1>4. ASSUME NEW r \in Recs, Load(r) PROVE TypeOK'
  BY <1>a, <1>c, <1>4 DEF Load, PcValues
<1>5. ASSUME NEW p \in Reqs, Refuse(p) PROVE mine' \in [Procs -> Row] /\ pc' \in [Procs -> PcValues]
                                            /\ then' \in [Procs -> ThenValues]
  BY <1>a, <1>5 DEF Refuse, PcValues
<1>6. ASSUME NEW p \in Reqs, Approve(p) \/ Reject(p) PROVE TypeOK'
  <2>1. /\ mine' \in [Procs -> Row] /\ pc' \in [Procs -> PcValues]
        /\ then' \in [Procs -> ThenValues]
    <3>1. row[target[p]] \in Row
      BY <1>a
    <3>2. CASE Refuse(p)
      BY <1>5, <3>2
    <3>3. AsApproved(row[target[p]], p) \in Row /\ AsRejected(row[target[p]], p) \in Row
      BY <3>1, DecidedCopies
    <3>4. "done" \in ThenValues
      BY DEF ThenValues
    <3>5. \/ Refuse(p) \/ Save(p, AsApproved(row[target[p]], p), "done")
          \/ Save(p, AsRejected(row[target[p]], p), "done")
      BY <1>6 DEF Approve, Reject, AsApproved, AsRejected
    <3>6. QED
      BY <3>2, <3>3, <3>4, <3>5, SaveTypes
  <2>2. seen' \in [Reqs -> Row]
    BY <1>a, <1>6 DEF Approve, Reject
  <2>3. QED
    BY <1>a, <1>c, <1>6, <2>1, <2>2 DEF Approve, Reject, Receive
<1>7. ASSUME NEW p \in Reqs, NEW k \in Replays, Replay(p, k) PROVE TypeOK'
  <2>1. /\ mine' \in [Procs -> Row] /\ pc' \in [Procs -> PcValues]
        /\ then' \in [Procs -> ThenValues]
    BY <1>b, <1>7, SaveTypes DEF Replay, Statuses, ThenValues
  <2>2. QED
    BY <1>a, <1>c, <1>7, <2>1 DEF Replay, Receive
<1>8. ASSUME NEW p \in Procs, NEW b \in BOOLEAN, Plan(p, b) PROVE TypeOK'
  <2>1. /\ mine' \in [Procs -> Row] /\ pc' \in [Procs -> PcValues]
        /\ then' \in [Procs -> ThenValues]
    <3>1. AsPlanned(mine[p], p, b, tier[target[p]]) \in Row /\ "planned" \in ThenValues
      BY <1>a, PlannedCopy DEF ThenValues
    <3>2. Save(p, AsPlanned(mine[p], p, b, tier[target[p]]), "planned")
      BY <1>8 DEF Plan, AsPlanned
    <3>3. QED
      BY <3>1, <3>2, SaveTypes
  <2>2. QED
    BY <1>a, <1>c, <1>8, <2>1 DEF Plan
<1>9. ASSUME NEW p \in Procs, PlanFailed(p) \/ PlanRaised(p) PROVE TypeOK'
  <2>1. /\ mine' \in [Procs -> Row] /\ pc' \in [Procs -> PcValues]
        /\ then' \in [Procs -> ThenValues]
    <3>1. CASE PlanFailed(p)
      BY <1>a, <3>1, Copies, SaveTypes DEF PlanFailed, Statuses, ThenValues
    <3>2. CASE PlanRaised(p)
      BY <1>a, <1>b, <3>2 DEF PlanRaised, Statuses, PcValues
    <3>3. QED
      BY <1>9, <3>1, <3>2
  <2>2. QED
    BY <1>a, <1>c, <1>9, <2>1 DEF PlanFailed, PlanRaised
<1>10. ASSUME NEW p \in Procs, Raise(p)
       PROVE  /\ mine' \in [Procs -> Row] /\ pc' \in [Procs -> PcValues]
              /\ then' \in [Procs -> ThenValues]
  <2>1. CASE p \in Recs
    BY <1>a, <1>10, <2>1, Copies, SaveTypes DEF Raise, Statuses, ThenValues
  <2>2. CASE p \notin Recs
    BY <1>a, <1>b, <1>10, <2>2 DEF Raise, Statuses, PcValues
  <2>3. QED
    BY <2>1, <2>2
<1>11. ASSUME NEW p \in Procs, Settle(p) PROVE TypeOK'
  <2>1. /\ mine' \in [Procs -> Row] /\ pc' \in [Procs -> PcValues]
        /\ then' \in [Procs -> ThenValues]
    <3>1. CASE mine[p].status = "draft"
      BY <1>a, <1>11, <3>1, Copies, SaveTypes DEF Settle, After, Statuses, ThenValues
    <3>2. CASE mine[p].status # "draft"
      BY <1>a, <1>b, <1>11, <3>2 DEF Settle, Statuses, PcValues
    <3>3. QED
      BY <3>1, <3>2
  <2>2. QED
    BY <1>a, <1>c, <1>11, <2>1 DEF Settle
<1>12. ASSUME NEW p \in Procs, Create(p) \/ Boot(p) PROVE TypeOK'
  <2>1. /\ mine' \in [Procs -> Row] /\ pc' \in [Procs -> PcValues]
        /\ then' \in [Procs -> ThenValues]
    BY <1>a, <1>10, <1>12 DEF Create, Boot, PcValues
  <2>2. faults' \in 0..MaxFaults /\ droplet' \in [Procs -> {"none", "live", "gone"}]
    BY <1>a, <1>12, RemediationAssumption DEF Create, Boot
  <2>3. QED
    BY <1>a, <1>c, <1>12, <2>1, <2>2 DEF Create, Boot
<1>13. ASSUME NEW p \in Procs, Pipeline(p) PROVE TypeOK'
  <2>1. mine' \in [Procs -> Row]
    BY <1>a, <1>13, Copies DEF Pipeline
  <2>2. QED
    BY <1>a, <1>c, <1>13, <2>1 DEF Pipeline, PcValues
<1>14. ASSUME NEW p \in Procs, Destroy(p) PROVE TypeOK'
  <2>1. /\ mine' \in [Procs -> Row] /\ pc' \in [Procs -> PcValues]
        /\ then' \in [Procs -> ThenValues]
    BY <1>a, <1>14, SaveTypes DEF Destroy, After, ThenValues
  <2>2. faults' \in 0..MaxFaults /\ droplet' \in [Procs -> {"none", "live", "gone"}]
    BY <1>a, <1>14, RemediationAssumption DEF Destroy
  <2>3. QED
    BY <1>a, <1>c, <1>14, <2>1, <2>2 DEF Destroy
<1>15. CASE Crash
  <2>1. crashes' \in 0..MaxCrashes
    BY <1>a, <1>15, RemediationAssumption DEF Crash
  <2>2. QED
    BY <1>a, <1>b, <1>c, <1>15, <2>1 DEF Crash, Statuses, PcValues, ThenValues
<1>16. CASE UNCHANGED vars
  BY <1>a, <1>c, <1>16 DEF vars
<1>17. QED
  BY <1>1, <1>2, <1>3, <1>4, <1>6, <1>7, <1>8, <1>9, <1>11, <1>12, <1>13, <1>14, <1>15, <1>16
     DEF Next, Step
-----------------------------------------------------------------------------
(* What a step leaves alone.                                               *)

Untouched(q) ==
  pc'[q] = pc[q] /\ then'[q] = then[q] /\ mine'[q] = mine[q] /\ base'[q] = base[q]
Unasked == UNCHANGED <<tier, kind, target, seen>>

LEMMA StepFrame ==
  ASSUME TypeOK, NEW p \in Procs, Step(p)
  PROVE  /\ Unasked
         /\ \A q \in Procs : q # p => Untouched(q)
         /\ \A r \in Recs : r # target[p] \/ pc[p] # "flush" => row'[r] = row[r]
<1> USE DEF Untouched, Unasked
<1>1. CASE Select(p)
  BY <1>1 DEF TypeOK, Select
<1>2. CASE Flush(p)
  BY <1>2 DEF TypeOK, Flush
<1>3. CASE \E b \in BOOLEAN : Plan(p, b)
  BY <1>3 DEF TypeOK, Plan, Save
<1>4. CASE PlanFailed(p) \/ PlanRaised(p) \/ Settle(p)
  BY <1>4 DEF TypeOK, PlanFailed, PlanRaised, Settle, Save
<1>5. CASE Create(p) \/ Boot(p)
  BY <1>5 DEF TypeOK, Create, Boot, Raise, Save
<1>6. CASE Pipeline(p) \/ Destroy(p)
  BY <1>6 DEF TypeOK, Pipeline, Destroy, Save
<1>7. QED
  BY <1>1, <1>2, <1>3, <1>4, <1>5, <1>6 DEF Step

Ask(p) == Approve(p) \/ Reject(p) \/ \E k \in Replays : Replay(p, k)

LEMMA AskFrame ==
  ASSUME TypeOK, NEW p \in Reqs, Ask(p)
  PROVE  /\ UNCHANGED <<row, tier, target, base>>
         /\ pc[p] = "idle" /\ row[target[p]].status # "none"
         /\ kind'[p] \in {"approve", "reject"} \cup Replays /\ pc'[p] \in {"save", "done"}
         /\ \A q \in Procs : q # p => Untouched(q)
         /\ \A q \in Reqs : q # p => kind'[q] = kind[q] /\ seen'[q] = seen[q]
<1> USE DEF Untouched, Procs
<1>1. CASE Approve(p)
  BY <1>1 DEF TypeOK, Approve, Receive, Save, Refuse
<1>2. CASE Reject(p)
  BY <1>2 DEF TypeOK, Reject, Receive, Save, Refuse
<1>3. ASSUME NEW k \in Replays, Replay(p, k)
      PROVE  /\ UNCHANGED <<row, tier, target, base>>
             /\ pc[p] = "idle" /\ row[target[p]].status # "none"
             /\ kind'[p] = k /\ pc'[p] = "save"
             /\ \A q \in Procs : q # p => Untouched(q)
             /\ \A q \in Reqs : q # p => kind'[q] = kind[q] /\ seen'[q] = seen[q]
  BY <1>3 DEF TypeOK, Replay, Receive, Save
<1>4. QED
  BY <1>1, <1>2, <1>3 DEF Ask

\* Ingesting and loading are steps of the workflow, which ask nothing either.
LEMMA IntakeFrame ==
  ASSUME TypeOK, NEW r \in Recs, Ingest(r) \/ Load(r)
  PROVE  /\ Unasked
         /\ \A q \in Procs : q # r => Untouched(q)
         /\ \A s \in Recs : s # r => row'[s] = row[s]
BY DEF Untouched, Unasked, TypeOK, Procs, Ingest, Load

LEMMA Tells ==
  ASSUME NEW p \in Reqs, Unasked \/ (kind'[p] = kind[p] /\ seen'[p] = seen[p] /\ UNCHANGED target)
  PROVE  \A r \in Recs : /\ Approving(p, r)' <=> Approving(p, r)
                         /\ Rejecting(p, r)' <=> Rejecting(p, r)
BY DEF Unasked, Approving, Rejecting
-----------------------------------------------------------------------------
(* Requests.                                                               *)

LEMMA RequestKept ==
  ASSUME TypeOK, Requests, NEW p \in Reqs, Untouched(p), kind'[p] = kind[p], seen'[p] = seen[p]
  PROVE  /\ kind'[p] = "none" <=> pc'[p] = "idle"
         /\ kind'[p] \in {"approve", "reject"} /\ pc'[p] # "done" => Deciding(p)'
BY DEF Untouched, Requests, Deciding, Decision

\* The steps that are not a save are those of the work on a plan.
LEMMA WorkOnly ==
  ASSUME TypeOK, NEW p \in Procs, Step(p), ~Select(p), ~Flush(p)
  PROVE  /\ pc[p] \in {"plan", "planned", "boot", "pipeline", "destroy"}
         /\ pc'[p] # "idle"
<1>1. CASE \E b \in BOOLEAN : Plan(p, b)
  BY <1>1 DEF Plan, Save, TypeOK
<1>2. CASE PlanFailed(p) \/ PlanRaised(p) \/ Settle(p)
  BY <1>2 DEF PlanFailed, PlanRaised, Settle, Save, TypeOK
<1>3. CASE Create(p) \/ Boot(p)
  BY <1>3 DEF Create, Boot, Raise, Save, TypeOK
<1>4. CASE Pipeline(p) \/ Destroy(p)
  BY <1>4 DEF Pipeline, Destroy, Save, TypeOK
<1>5. QED
  BY <1>1, <1>2, <1>3, <1>4 DEF Step

LEMMA RequestStep == TypeOK /\ Requests /\ [Next]_vars => Requests'
<1> DEFINE Sound(p) ==
      /\ kind'[p] = "none" <=> pc'[p] = "idle"
      /\ kind'[p] \in {"approve", "reject"} /\ pc'[p] # "done" => Deciding(p)'
<1> SUFFICES ASSUME TypeOK, Requests, [Next]_vars, NEW p \in Reqs PROVE Sound(p)
  BY DEF Requests
<1>p. p \in Procs
  BY DEF Procs
<1>1. ASSUME NEW q \in Procs, Step(q), q # p PROVE Sound(p)
  BY <1>1, <1>p, StepFrame, RequestKept DEF Unasked
<1>2. ASSUME NEW r \in Recs, Ingest(r) \/ Load(r) PROVE Sound(p)
  BY <1>2, <1>p, IntakeFrame, RequestKept, RemediationAssumption DEF Unasked
<1>3. ASSUME NEW q \in Reqs, Ask(q), q # p PROVE Sound(p)
  BY <1>3, <1>p, AskFrame, RequestKept
<1>4. CASE UNCHANGED vars
  BY <1>4, RequestKept DEF vars, Untouched
<1>5. CASE Crash
  BY <1>5, <1>p DEF Crash, Requests
<1>6. CASE Approve(p)
  <2>1. /\ kind'[p] = "approve" /\ seen'[p] = row[target[p]]
        /\ row[target[p]] \in Row
    BY <1>6, <1>p DEF Approve, Receive, TypeOK
  <2>2. CASE Refuse(p)
    BY <1>p, <2>1, <2>2 DEF Refuse, TypeOK
  <2>3. CASE row[target[p]].status = "awaiting_approval" /\ Save(p, AsApproved(row[target[p]], p), "done")
    <3>1. mine'[p] = AsApproved(row[target[p]], p) /\ pc'[p] = "save" /\ then'[p] = "done"
      BY <1>p, <2>3 DEF Save, TypeOK
    <3>a. LET c == AsApproved(row[target[p]], p) IN
          /\ c.status = "approved" /\ c.approval = [by |-> p, decision |-> "approved"]
          /\ c.approved_at = p /\ c.plan = row[target[p]].plan
          /\ c.verification = row[target[p]].verification
      BY <2>1, DecidedCopies
    <3>0. /\ mine'[p].status = "approved"
          /\ mine'[p].approval = [by |-> p, decision |-> "approved"]
          /\ mine'[p].approved_at = p
          /\ mine'[p].plan = row[target[p]].plan
          /\ mine'[p].verification = row[target[p]].verification
      BY <3>a, <3>1
    <3>2. Deciding(p)'
      BY <2>1, <2>3, <3>1, <3>0 DEF Deciding, Decision
    <3>3. QED
      BY <2>1, <3>1, <3>2
  <2>4. QED
    BY <1>6, <2>2, <2>3 DEF Approve, AsApproved
<1>7. CASE Reject(p)
  <2>1. /\ kind'[p] = "reject" /\ seen'[p] = row[target[p]]
        /\ row[target[p]] \in Row
    BY <1>7, <1>p DEF Reject, Receive, TypeOK
  <2>2. CASE Refuse(p)
    BY <1>p, <2>1, <2>2 DEF Refuse, TypeOK
  <2>3. CASE /\ row[target[p]].status \in {"awaiting_approval", "draft"}
             /\ Save(p, AsRejected(row[target[p]], p), "done")
    <3>1. mine'[p] = AsRejected(row[target[p]], p) /\ pc'[p] = "save" /\ then'[p] = "done"
      BY <1>p, <2>3 DEF Save, TypeOK
    <3>a. LET c == AsRejected(row[target[p]], p) IN
          /\ c.status = "rejected" /\ c.approval = [by |-> p, decision |-> "rejected"]
          /\ c.approved_at = row[target[p]].approved_at
          /\ c.plan = row[target[p]].plan /\ c.verification = row[target[p]].verification
      BY <2>1, DecidedCopies
    <3>0. /\ mine'[p].status = "rejected"
          /\ mine'[p].approval = [by |-> p, decision |-> "rejected"]
          /\ mine'[p].approved_at = row[target[p]].approved_at
          /\ mine'[p].plan = row[target[p]].plan
          /\ mine'[p].verification = row[target[p]].verification
      BY <3>a, <3>1
    <3>2. Deciding(p)'
      BY <2>1, <2>3, <3>1, <3>0 DEF Deciding, Decision
    <3>3. QED
      BY <2>1, <3>1, <3>2
  <2>4. QED
    BY <1>7, <2>2, <2>3 DEF Reject, AsRejected
<1>8. ASSUME NEW k \in Replays, Replay(p, k) PROVE Sound(p)
  BY <1>8, <1>p DEF Replay, Receive, Save, TypeOK, Replays
\* A request to decide selects and flushes, and does nothing else.
<1>9. CASE Select(p)
  BY <1>9, <1>p DEF Select, TypeOK, Requests, Deciding, Decision
<1>10. CASE Flush(p)
  <2>1. kind'[p] = kind[p] /\ kind[p] # "none" /\ pc'[p] \in {"plan", "planned", "save", "done"}
    BY <1>10, <1>p DEF Flush, TypeOK, Requests
  <2>2. kind[p] \in {"approve", "reject"} => pc'[p] = "done"
    BY <1>10, <1>p DEF Flush, TypeOK, Requests, Deciding
  <2>3. QED
    BY <2>1, <2>2
<1>11. CASE Step(p) /\ ~Select(p) /\ ~Flush(p)
  <2>1. pc[p] \in {"plan", "planned", "boot", "pipeline", "destroy"} /\ pc'[p] # "idle"
    BY <1>11, <1>p, WorkOnly
  <2>2. kind[p] \notin {"none", "approve", "reject"} /\ kind'[p] = kind[p]
    BY <1>11, <1>p, <2>1, StepFrame DEF Requests, Deciding, Unasked
  <2>3. QED
    BY <2>1, <2>2
<1>12. QED
  BY <1>1, <1>2, <1>3, <1>4, <1>5, <1>6, <1>7, <1>8, <1>9, <1>10, <1>11 DEF Next, Ask

LEMMA OwnTargetStep == TypeOK /\ OwnTarget /\ [Next]_vars => OwnTarget'
<1> SUFFICES ASSUME TypeOK, OwnTarget, [Next]_vars PROVE UNCHANGED target
  BY DEF OwnTarget
<1>1. CASE Crash \/ UNCHANGED vars
  BY <1>1 DEF Crash, vars
<1>2. QED
  BY <1>1, StepFrame, AskFrame, IntakeFrame DEF Next, Ask, Unasked

\* A request asks once.
LEMMA AskedOnce ==
  ASSUME TypeOK, Requests, [Next]_vars, NEW p \in Reqs, kind[p] # "none"
  PROVE  UNCHANGED target /\ kind'[p] = kind[p] /\ seen'[p] = seen[p]
<1>1. CASE Unasked
  BY <1>1 DEF Unasked
<1>2. ASSUME NEW q \in Reqs, Ask(q)
      PROVE  UNCHANGED target /\ kind'[p] = kind[p] /\ seen'[p] = seen[p]
  <2>1. q # p
    BY <1>2, AskFrame DEF Requests
  <2>2. QED
    BY <1>2, <2>1, AskFrame
<1>3. CASE Crash \/ UNCHANGED vars
  BY <1>1, <1>3 DEF Crash, vars, Unasked
<1>4. QED
  BY <1>1, <1>2, <1>3, StepFrame, IntakeFrame DEF Next, Ask

\* What has disturbed a recommendation goes on disturbing it.
LEMMA StaysDisturbed ==
  TypeOK /\ Requests /\ [Next]_vars => \A r \in Recs : Disturbed(r) => Disturbed(r)'
BY AskedOnce DEF Disturbed, Replays

\* A handler that has ended does nothing more.
LEMMA StaysDone ==
  ASSUME TypeOK, [Next]_vars, NEW p \in Procs, pc[p] = "done"
  PROVE  pc'[p] = "done"
<1>1. ASSUME NEW q \in Procs, Step(q) PROVE pc'[p] = "done"
  <2>1. q # p
    BY <1>1, WorkOnly DEF Select, Flush
  <2>2. QED
    BY <1>1, <2>1, StepFrame DEF Untouched
<1>2. ASSUME NEW r \in Recs, Ingest(r) \/ Load(r) PROVE pc'[p] = "done"
  <2>1. r # p
    BY <1>2 DEF Ingest, Load
  <2>2. QED
    BY <1>2, <2>1, IntakeFrame DEF Untouched
<1>3. ASSUME NEW q \in Reqs, Ask(q) PROVE pc'[p] = "done"
  BY <1>3, AskFrame DEF Untouched
<1>4. CASE Crash \/ UNCHANGED vars
  BY <1>4 DEF Crash, vars
<1>5. QED
  BY <1>1, <1>2, <1>3, <1>4 DEF Next, Ask

DecidedNext(r, c) ==
  /\ c.status \in {"awaiting_approval", "approved", "rejected"}
  /\ c.status = "rejected" => SomeRejection(r)'
  /\ \A q \in Reqs : c.approval.by = q \/ c.approved_at = q => pc'[q] = "done"

\* Decisions only accumulate.
LEMMA Accumulate ==
  ASSUME TypeOK, Requests, [Next]_vars, NEW r \in Recs
  PROVE  /\ \A p \in Reqs : /\ Approving(p, r) => Approving(p, r)'
                            /\ Rejecting(p, r) => Rejecting(p, r)'
         /\ SomeRejection(r) => SomeRejection(r)'
         /\ OneRejection(r)' => OneRejection(r)
         /\ \A c : Decided(r, c) => DecidedNext(r, c)
<1>1. \A p \in Reqs : /\ Approving(p, r) => Approving(p, r)'
                      /\ Rejecting(p, r) => Rejecting(p, r)'
  BY AskedOnce DEF Approving, Rejecting
<1>2. \A p \in Reqs : pc[p] = "done" => pc'[p] = "done"
  BY StaysDone DEF Procs
<1>3. SomeRejection(r) => SomeRejection(r)'
  BY <1>1, <1>2 DEF SomeRejection
<1>4. OneRejection(r)' => OneRejection(r)
  BY <1>1 DEF OneRejection
<1>5. \A c : Decided(r, c) => DecidedNext(r, c)
  BY <1>2, <1>3 DEF Decided, DecidedNext
<1>6. QED
  BY <1>1, <1>3, <1>4, <1>5
-----------------------------------------------------------------------------
(* What is offered.                                                        *)

\* Its record stands while it is not written to, whoever loads or reads it.
LEMMA OfferedKept ==
  ASSUME TypeOK, Requests, [Next]_vars, NEW r \in Recs, Offered(r), row'[r] = row[r],
         \A p \in Reqs : Decider(p, r)' =>
           /\ seen'[p] = row[r] \/ (Decider(p, r) /\ seen'[p] = seen[p])
           /\ pc'[p] = "flush" =>
                base'[p] = row[r] \/ (Decider(p, r) /\ pc[p] = "flush" /\ base'[p] = base[p])
  PROVE  Offered(r)'
<1>1. DecidedNext(r, row[r])
  BY Accumulate DEF Offered
<1>2. row[r].status = "approved" =>
        (\E p \in Reqs : Approving(p, r)') /\ (OneRejection(r)' => OnRecord(r)')
  BY Accumulate DEF Offered, OnRecord
<1>3. ASSUME NEW p \in Reqs, Decider(p, r)'
      PROVE  /\ seen'[p].plan = row[r].plan /\ seen'[p].verification = row[r].verification
             /\ DecidedNext(r, seen'[p])
  BY <1>1, <1>3, Accumulate DEF Offered
<1>4. ASSUME NEW p \in Reqs, Decider(p, r)', pc'[p] = "flush"
      PROVE  /\ base'[p].plan = row[r].plan /\ base'[p].verification = row[r].verification
             /\ DecidedNext(r, base'[p])
  BY <1>1, <1>4, Accumulate DEF Offered
<1>5. QED
  BY <1>1, <1>2, <1>3, <1>4 DEF Offered, Decided, DecidedNext

\* A decider's save leaves the plan, and its record is that of an approval
\* unless two rejections have mixed with it.
LEMMA OfferedFlush ==
  ASSUME TypeOK, Requests, [Next]_vars, NEW r \in Recs, Offered(r),
         NEW p \in Reqs, target[p] = r, Decider(p, r), Flush(p)
  PROVE  Offered(r)'
<1> DEFINE m == Merged(row[r], base[p], mine[p])
<1>p. p \in Procs
  BY DEF Procs
<1>1. row[r] \in Row /\ base[p] \in Row /\ mine[p] \in Row
  BY <1>p DEF TypeOK
<1>2. /\ row'[r] = m /\ pc[p] = "flush" /\ UNCHANGED <<target, kind, seen>>
      /\ \A q \in Reqs : q # p => pc'[q] = pc[q] /\ base'[q] = base[q]
  BY DEF Flush, TypeOK, Procs
<1>3. /\ then[p] = "done" /\ mine[p].status = Decision(p)
      /\ mine[p].approval = [by |-> p, decision |-> Decision(p)]
      /\ mine[p].approved_at = IF kind[p] = "approve" THEN p ELSE seen[p].approved_at
      /\ mine[p].plan = seen[p].plan /\ mine[p].verification = seen[p].verification
  BY <1>2 DEF Requests, Deciding, Decider, Approving, Rejecting
<1>4. pc'[p] = "done"
  BY <1>p, <1>3 DEF Flush, TypeOK
<1>5. /\ m.status = IF mine[p].status = base[p].status THEN row[r].status ELSE mine[p].status
      /\ m.plan = IF mine[p].plan = base[p].plan THEN row[r].plan ELSE mine[p].plan
      /\ m.verification = IF mine[p].verification = base[p].verification
                          THEN row[r].verification ELSE mine[p].verification
      /\ m.approval = IF mine[p].approval = base[p].approval
                      THEN row[r].approval ELSE mine[p].approval
      /\ m.approved_at = IF mine[p].approved_at = base[p].approved_at
                         THEN row[r].approved_at ELSE mine[p].approved_at
  BY <1>1, MergedColumns
<1> HIDE DEF m
<1>6. m.plan = row[r].plan /\ m.verification = row[r].verification
  BY <1>2, <1>3, <1>5 DEF Offered
<1>7. /\ Decided(r, base[p]) /\ Decided(r, row[r]) /\ Decided(r, seen[p])
  BY <1>2 DEF Offered
<1>8. /\ DecidedNext(r, row[r]) /\ DecidedNext(r, seen[p])
  BY <1>7, Accumulate
<1>9. DecidedNext(r, m)
  <2>1. m.status \in {"awaiting_approval", "approved", "rejected"}
    BY <1>3, <1>5, <1>7 DEF Decided, Decision
  <2>2. m.status = "rejected" => SomeRejection(r)'
    <3>1. CASE m.status = row[r].status
      BY <3>1, <1>8 DEF DecidedNext
    <3>2. CASE m.status = Decision(p)
      BY <3>2, <1>2, <1>4, Accumulate DEF SomeRejection, Decider, Decision, Approving
    <3>3. QED
      BY <3>1, <3>2, <1>3, <1>5
  <2>3. \A q \in Reqs : m.approval.by = q \/ m.approved_at = q => pc'[q] = "done"
    BY <1>3, <1>4, <1>5, <1>8 DEF DecidedNext
  <2>4. QED
    BY <2>1, <2>2, <2>3 DEF DecidedNext
<1>10. m.status = "approved" =>
         (\E q \in Reqs : Approving(q, r)') /\ (OneRejection(r)' => OnRecord(r)')
  <2>1. CASE Approving(p, r)
    <3>1. Decision(p) = "approved" /\ kind[p] = "approve"
      BY <2>1 DEF Decision, Approving
    <3>2. base[p].approval.by # p /\ base[p].approved_at # p
      BY <1>2, <1>7 DEF Decided
    <3>3. m.approval = [by |-> p, decision |-> "approved"] /\ m.approved_at = p
      BY <3>1, <3>2, <1>3, <1>5
    <3>4. Approving(p, r)'
      BY <2>1, Accumulate
    <3>5. QED
      BY <3>3, <3>4, <1>2 DEF OnRecord
  <2>2. CASE Rejecting(p, r)
    <3>1. Decision(p) = "rejected"
      BY <2>2 DEF Decision, Rejecting
    <3>2. m.status = "approved" => base[p].status = "rejected" /\ row[r].status = "approved"
      BY <3>1, <1>3, <1>5
    <3>3. base[p].status = "rejected" => ~OneRejection(r)
      BY <2>2, <1>2, <1>7 DEF Decided, SomeRejection, OneRejection
    <3>4. QED
      BY <3>2, <3>3, Accumulate DEF Offered
  <2>3. QED
    BY <2>1, <2>2 DEF Decider
<1>11. ASSUME NEW q \in Reqs, Decider(q, r)'
       PROVE  /\ seen'[q].plan = m.plan /\ seen'[q].verification = m.verification
              /\ DecidedNext(r, seen'[q])
  <2>1. Decider(q, r) /\ seen'[q] = seen[q]
    BY <1>11, <1>2 DEF Decider, Approving, Rejecting
  <2>2. QED
    BY <2>1, <1>6, Accumulate DEF Offered
<1>12. ASSUME NEW q \in Reqs, Decider(q, r)', pc'[q] = "flush"
       PROVE  /\ base'[q].plan = m.plan /\ base'[q].verification = m.verification
              /\ DecidedNext(r, base'[q])
  <2>1. Decider(q, r) /\ q # p
    BY <1>12, <1>2, <1>4 DEF Decider, Approving, Rejecting
  <2>2. QED
    BY <2>1, <1>12, <1>2, <1>6, Accumulate DEF Offered
<1>13. m.plan # NoPlan /\ m.verification # "failed"
  BY <1>6 DEF Offered
<1>14. QED
  BY <1>2, <1>9, <1>10, <1>11, <1>12, <1>13 DEF Offered, Decided, DecidedNext
-----------------------------------------------------------------------------
(* The stages of an undisturbed recommendation.                            *)

\* A request that is under way on it decides it.
LEMMA UnderWay ==
  ASSUME TypeOK, Requests, NEW r \in Recs, ~Disturbed(r),
         NEW p \in Reqs, target[p] = r, pc[p] \notin {"idle", "done"}
  PROVE  Decider(p, r) /\ Deciding(p)
<1>1. kind[p] \in {"approve", "reject"}
  BY DEF TypeOK, Requests, Disturbed
<1>2. Deciding(p) /\ ~(kind[p] = "reject" /\ seen[p].status = "draft")
  BY <1>1 DEF Requests, Disturbed
<1>3. QED
  BY <1>1, <1>2 DEF Deciding, Decider, Approving, Rejecting

\* The steps of others leave its stage.
LEMMA StageKept ==
  ASSUME TypeOK, Requests, [Next]_vars, NEW r \in Recs, Stage(r),
         Untouched(r), tier' = tier, target' = target, row'[r] = row[r],
         \A p \in Reqs : target[p] = r =>
           Untouched(p) /\ kind'[p] = kind[p] /\ seen'[p] = seen[p]
  PROVE  Stage(r)'
<1>1. \A p \in Reqs : Decider(p, r)' => Decider(p, r) /\ seen'[p] = seen[p] /\ Untouched(p)
  BY DEF Decider, Approving, Rejecting
<1>2. CASE Absent(r)
  BY <1>2 DEF Absent, Untouched, Stage
<1>3. CASE Drafted(r)
  <2>1. Drafted(r)'
    BY <1>1, <1>3 DEF Drafted, Untouched, Undecided, Outcome
  <2>2. QED
    BY <2>1 DEF Stage
<1>4. CASE Finished(r) /\ Offered(r)
  <2>1. Offered(r)'
    BY <1>1, <1>4, OfferedKept DEF Untouched
  <2>2. QED
    BY <1>4, <2>1 DEF Stage, Finished, Untouched
<1>5. CASE Finished(r) /\ GivenUp(r)
  BY <1>1, <1>5 DEF Stage, Finished, GivenUp, Untouched
<1>6. QED
  BY <1>2, <1>3, <1>4, <1>5 DEF Stage

\* A request that loads it.
LEMMA StageAsked ==
  ASSUME IInv, [Next]_vars, NEW r \in Recs, Stage(r), ~Disturbed(r)',
         NEW p \in Reqs, target[p] = r, Ask(p)
  PROVE  Stage(r)'
<1> USE DEF IInv
<1>1. /\ UNCHANGED <<row, tier, target, base>>
      /\ pc[p] = "idle" /\ row[r].status # "none" /\ pc'[p] \in {"save", "done"}
      /\ \A q \in Procs : q # p => Untouched(q)
      /\ \A q \in Reqs : q # p => kind'[q] = kind[q] /\ seen'[q] = seen[q]
  BY AskFrame
<1>2. r \in Procs /\ r # p /\ p \in Procs
  BY RemediationAssumption DEF Procs
<1>3. Untouched(r)
  BY <1>1, <1>2
\* It asks to decide, and reads what stands in the row.
<1>4. seen'[p] = row[r] /\ kind'[p] \in {"approve", "reject"}
  <2>1. CASE Approve(p)
    BY <2>1 DEF Approve, Receive, TypeOK
  <2>2. CASE Reject(p)
    BY <2>2 DEF Reject, Receive, TypeOK
  <2>3. ASSUME NEW k \in Replays, Replay(p, k) PROVE FALSE
    <3>1. kind'[p] = k
      BY <2>3 DEF Replay, Receive, TypeOK
    <3>2. QED
      BY <3>1, <1>1 DEF Disturbed
  <2>4. QED
    BY <2>1, <2>2, <2>3 DEF Ask
<1>5. kind'[p] = "reject" => row[r].status # "draft"
  BY <1>1, <1>4 DEF Disturbed
<1>6. \A q \in Reqs : Decider(q, r)' =>
        \/ Decider(q, r) /\ seen'[q] = seen[q] /\ q # p
        \/ q = p /\ row[r].status = "awaiting_approval"
  BY <1>1, <1>4 DEF Decider, Approving, Rejecting
<1>7. CASE Absent(r)
  BY <1>1, <1>7 DEF Absent, Blank
<1>8. CASE Drafted(r)
  <2>1. Drafted(r)'
    BY <1>1, <1>3, <1>6, <1>8 DEF Drafted, Untouched, Undecided, Outcome
  <2>2. QED
    BY <2>1 DEF Stage
<1>9. CASE Finished(r) /\ Offered(r)
  <2>1. \A q \in Reqs : Decider(q, r)' =>
          /\ seen'[q] = row[r] \/ (Decider(q, r) /\ seen'[q] = seen[q])
          /\ pc'[q] = "flush" => Decider(q, r) /\ pc[q] = "flush" /\ base'[q] = base[q]
    BY <1>1, <1>4, <1>6 DEF Untouched, Procs
  <2>2. Offered(r)'
    BY <1>1, <1>9, <2>1, OfferedKept
  <2>3. QED
    BY <1>1, <1>3, <1>9, <2>2 DEF Stage, Finished, Untouched
<1>10. CASE Finished(r) /\ GivenUp(r)
  BY <1>1, <1>3, <1>6, <1>10 DEF Stage, Finished, GivenUp, Untouched
<1>11. QED
  BY <1>7, <1>8, <1>9, <1>10 DEF Stage

\* A request that decides it goes on with its save.
LEMMA StageDecided ==
  ASSUME IInv, [Next]_vars, NEW r \in Recs, Stage(r), ~Disturbed(r), ~Disturbed(r)',
         NEW p \in Reqs, target[p] = r, Step(p)
  PROVE  Stage(r)'
<1> USE DEF IInv
<1>1. p \in Procs /\ r \in Procs /\ r # p
  BY RemediationAssumption DEF Procs
<1>2. /\ Unasked /\ Untouched(r)
      /\ \A q \in Procs : q # p => Untouched(q)
  BY <1>1, StepFrame
<1>3. pc[p] \notin {"idle", "done"}
  BY <1>1, WorkOnly DEF Select, Flush
<1>4. Decider(p, r) /\ Deciding(p)
  BY <1>3, UnderWay
<1>5. Select(p) \/ Flush(p)
  BY <1>1, <1>4, WorkOnly DEF Deciding
<1>6. Finished(r) /\ Offered(r)
  <2>1. ~Absent(r) /\ ~Drafted(r) /\ ~GivenUp(r)
    BY <1>4 DEF Absent, Drafted, GivenUp, Decider, Approving, Rejecting
  <2>2. QED
    BY <2>1 DEF Stage
<1>7. Finished(r)'
  BY <1>2, <1>6 DEF Finished, Untouched, Unasked
<1>8. CASE Flush(p)
  BY <1>4, <1>6, <1>7, <1>8, OfferedFlush DEF Stage
<1>9. CASE Select(p)
  <2>1. row'[r] = row[r] /\ base'[p] = row[r]
    BY <1>1, <1>9 DEF Select, TypeOK
  <2>2. \A q \in Reqs : Decider(q, r)' =>
          /\ Decider(q, r) /\ seen'[q] = seen[q]
          /\ pc'[q] = "flush" =>
               base'[q] = row[r] \/ (pc[q] = "flush" /\ base'[q] = base[q])
    BY <1>2, <2>1 DEF Decider, Approving, Rejecting, Unasked, Untouched, Procs
  <2>3. Offered(r)'
    BY <1>6, <2>1, <2>2, OfferedKept
  <2>4. QED
    BY <1>7, <2>3 DEF Stage
<1>10. QED
  BY <1>5, <1>8, <1>9

\* It arrives, or its workflow loads it.
LEMMA StageIntake ==
  ASSUME IInv, [Next]_vars, NEW r \in Recs, Stage(r), Ingest(r) \/ Load(r)
  PROVE  Stage(r)'
<1> USE DEF IInv
<1>1. Unasked /\ r \in Procs
  BY IntakeFrame DEF Procs
<1>2. \A p \in Reqs : Decider(p, r)' <=> Decider(p, r)
  BY <1>1 DEF Unasked, Decider, Approving, Rejecting
<1>3. CASE Ingest(r)
  <2>1. pc[r] = "idle" /\ pc'[r] = "load" /\ row'[r] = Blank("draft")
    BY <1>1, <1>3 DEF Ingest, TypeOK
  <2>2. Absent(r)
    BY <2>1 DEF Stage, Drafted, Finished
  <2>3. \A p \in Reqs : ~Decider(p, r)
    BY <2>2 DEF Absent, Decider, Approving, Rejecting
  <2>4. Drafted(r)'
    BY <1>2, <2>1, <2>3 DEF Drafted, Undecided, Blank
  <2>5. QED
    BY <2>4 DEF Stage
<1>4. CASE Load(r)
  <2>1. pc[r] = "load" /\ row' = row
    BY <1>4 DEF Load
  <2>2. Drafted(r)
    BY <2>1 DEF Stage, Absent, Finished
  <2>3. pc'[r] = "plan" /\ mine'[r] = row[r]
    BY <1>1, <1>4, <2>2 DEF Load, TypeOK, Drafted
  <2>4. Drafted(r)'
    BY <1>2, <2>1, <2>2, <2>3 DEF Drafted, Undecided
  <2>5. QED
    BY <2>4 DEF Stage
<1>5. QED
  BY <1>3, <1>4

\* Its workflow saves a copy for good.
LEMMA StageSaved ==
  ASSUME NEW r \in Recs, NEW c, Drafted(r), Unasked, row'[r] = row[r],
         pc'[r] \in {"save", "flush"}, pc'[r] = "flush" => base'[r] = row[r],
         mine'[r] = c, Undecided(c), pc[r] # "done",
         \/ then'[r] = "done" /\ Outcome(c)
         \/ /\ then'[r] = "planned" /\ c.status = Proposed(tier[r])
            /\ c.plan # NoPlan /\ c.verification = "none"
  PROVE  Drafted(r)'
<1>1. \A p \in Reqs : ~Decider(p, r)'
  BY DEF Unasked, Decider, Approving, Rejecting, Drafted
<1>2. QED
  BY <1>1 DEF Drafted, Undecided, Outcome, Unasked

\* Its workflow's save lands on the row it read, and the decisions start.
LEMMA StageFlush ==
  ASSUME IInv, NEW r \in Recs, Drafted(r), Flush(r)
  PROVE  Stage(r)'
<1> USE DEF IInv
<1>1. /\ target[r] = r /\ r \in Procs /\ r \notin Reqs /\ pc[r] = "flush"
      /\ row[r] \in Row /\ mine[r] \in Row /\ base[r] = row[r]
  BY RemediationAssumption DEF Procs, OwnTarget, TypeOK, Flush, Drafted
<1>2. Merged(row[r], base[r], mine[r]) = mine[r]
  BY <1>1, MergedAlone
<1>3. /\ row'[r] = mine[r] /\ mine'[r] = Kept(r, then[r]) /\ Unasked
      /\ pc'[r] = IF then[r] = "again" THEN "save" ELSE then[r]
      /\ \A q \in Reqs : pc'[q] = pc[q]
  BY <1>1, <1>2 DEF Flush, TypeOK, Unasked, Procs
<1>4. \A p \in Reqs : ~Decider(p, r)'
  BY <1>3 DEF Unasked, Decider, Approving, Rejecting, Drafted
<1>5. Undecided(mine[r])
  BY <1>1 DEF Drafted
\* Nobody has decided: the record is empty.
<1>6. ASSUME mine[r].status = "awaiting_approval", mine[r].plan # NoPlan,
             mine[r].verification # "failed"
      PROVE  Offered(r)'
  <2>1. Decided(r, row[r])'
    BY <1>3, <1>5, <1>6, RemediationAssumption DEF Decided, Undecided, NoRecord, Procs
  <2>2. QED
    BY <1>3, <1>4, <1>6, <2>1 DEF Offered
<1>7. CASE then[r] = "done" /\ Outcome(mine[r])
  <2>1. pc'[r] = "done"
    BY <1>3, <1>7
  <2>2. CASE mine[r].status = "draft"
    BY <1>3, <1>4, <1>5, <2>1, <2>2 DEF Stage, Drafted, Undecided
  <2>3. CASE mine[r].status = "awaiting_approval"
    <3>1. Offered(r)'
      BY <1>6, <1>7, <2>3 DEF Outcome
    <3>2. QED
      BY <2>1, <3>1 DEF Stage, Finished
  <2>4. CASE mine[r].status = "failed"
    BY <1>3, <1>4, <1>7, <2>1, <2>4 DEF Stage, Finished, GivenUp, Outcome
  <2>5. QED
    BY <1>7, <2>2, <2>3, <2>4 DEF Outcome
<1>8. CASE /\ then[r] = "planned" /\ mine[r].status = Proposed(tier[r])
           /\ mine[r].plan # NoPlan /\ mine[r].verification = "none"
  <2>1. pc'[r] = "planned" /\ mine'[r] = mine[r] /\ tier' = tier
    BY <1>3, <1>8 DEF Kept, Unasked
  <2>2. CASE tier[r] \in Guidance
    <3>1. mine[r].status = "awaiting_approval"
      BY <1>8, <2>2 DEF Proposed
    <3>2. Offered(r)'
      BY <1>6, <1>8, <3>1
    <3>3. QED
      BY <2>1, <2>2, <3>1, <3>2 DEF Stage, Finished
  <2>3. CASE tier[r] \notin Guidance
    <3>1. mine[r].status = "draft"
      BY <1>8, <2>3 DEF Proposed
    <3>2. Drafted(r)'
      BY <1>3, <1>4, <1>5, <1>8, <2>1, <3>1 DEF Drafted, Undecided
    <3>3. QED
      BY <3>2 DEF Stage
  <2>4. QED
    BY <2>2, <2>3
<1>9. QED
  BY <1>1, <1>7, <1>8 DEF Drafted

\* What a verification that raised does to the workflow's copy.
LEMMA StageRaise ==
  ASSUME IInv, NEW r \in Recs, Drafted(r), pc[r] \in {"planned", "boot"}, Raise(r), Unasked,
         row'[r] = row[r]
  PROVE  Drafted(r)'
<1> DEFINE c == [mine[r] EXCEPT !.status = "awaiting_approval"]
<1>1. r \in Procs /\ mine[r] \in Row /\ r \notin Reqs
  BY RemediationAssumption DEF Procs, IInv, TypeOK
<1>2. /\ Undecided(mine[r]) /\ mine[r].plan # NoPlan /\ mine[r].verification = "none"
  BY DEF Drafted
<1>3. /\ c.status = "awaiting_approval" /\ c.plan = mine[r].plan
      /\ c.verification = mine[r].verification /\ c.approval = mine[r].approval
      /\ c.approved_at = mine[r].approved_at
  BY <1>1 DEF Row
<1>4. mine'[r] = c /\ pc'[r] = "save" /\ then'[r] = "done"
  BY <1>1 DEF Raise, Save, IInv, TypeOK
<1> HIDE DEF c
<1>5. Undecided(c) /\ Outcome(c)
  BY <1>2, <1>3 DEF Undecided, Outcome
<1>6. QED
  BY <1>4, <1>5, StageSaved

\* Its workflow goes on.
LEMMA StageWork ==
  ASSUME IInv, [Next]_vars, NEW r \in Recs, Stage(r), Step(r)
  PROVE  Stage(r)'
<1> USE DEF IInv
<1>1. /\ r \in Procs /\ r \notin Reqs /\ target[r] = r /\ mine[r] \in Row /\ row[r] \in Row
      /\ pc[r] \in PcValues
  BY RemediationAssumption DEF Procs, OwnTarget, TypeOK, PcValues
<1>2. Unasked /\ (pc[r] # "flush" => row'[r] = row[r]) /\ \A p \in Reqs : Untouched(p)
  BY <1>1, StepFrame DEF Procs
<1>3. \A p \in Reqs : Decider(p, r)' <=> Decider(p, r)
  BY <1>2 DEF Unasked, Decider, Approving, Rejecting
<1>4. pc[r] \notin {"idle", "load", "done"}
  BY <1>1, WorkOnly DEF Select, Flush
\* What it planned was offered at once: it has nothing to settle.
<1>5. CASE Finished(r)
  <2>1. pc[r] = "planned" /\ tier[r] \in Guidance /\ mine[r].status # "draft"
    BY <1>4, <1>5 DEF Finished
  <2>2. ~ToVerify(r)
    BY <1>1, <2>1 DEF ToVerify, Guidance, Verified
  <2>3. Settle(r)
    BY <2>1, <2>2 DEF Step, Select, Flush, Plan, PlanFailed, PlanRaised, Create, Boot,
                      Pipeline, Destroy
  <2>4. pc'[r] = "done" /\ row'[r] = row[r]
    BY <1>1, <1>2, <2>1, <2>3 DEF Settle, TypeOK
  <2>5. CASE Offered(r)
    <3>1. \A q \in Reqs : Decider(q, r)' =>
            /\ Decider(q, r) /\ seen'[q] = seen[q]
            /\ pc'[q] = "flush" => pc[q] = "flush" /\ base'[q] = base[q]
      BY <1>2, <1>3 DEF Unasked, Untouched
    <3>2. Offered(r)'
      BY <2>4, <2>5, <3>1, OfferedKept
    <3>3. QED
      BY <2>4, <3>2 DEF Stage, Finished
  <2>6. CASE GivenUp(r)
    BY <1>3, <2>4, <2>6 DEF Stage, Finished, GivenUp
  <2>7. QED
    BY <1>4, <1>5, <2>1, <2>5, <2>6 DEF Stage, Absent, Drafted
<1>6. CASE Drafted(r)
  <2>f. CASE Flush(r)
    BY <1>6, <2>f, StageFlush
  <2>s. CASE Select(r)
    <3>1. /\ pc[r] = "save" /\ pc'[r] = "flush" /\ base'[r] = row[r] /\ mine'[r] = mine[r]
          /\ then'[r] = then[r] /\ row'[r] = row[r]
      BY <1>1, <2>s DEF Select, TypeOK
    <3>2. Drafted(r)'
      BY <1>2, <1>6, <3>1, StageSaved DEF Drafted
    <3>3. QED
      BY <3>2 DEF Stage
  <2>1. ASSUME NEW b \in BOOLEAN, Plan(r, b) PROVE Drafted(r)'
    <3>1. pc[r] = "plan" /\ Undecided(mine[r]) /\ mine[r].verification = "none"
      BY <1>6, <2>1 DEF Plan, Drafted
    <3>2. LET c == AsPlanned(mine[r], r, b, tier[r]) IN
          /\ c.status = Proposed(tier[r]) /\ c.plan # NoPlan
          /\ c.verification = mine[r].verification /\ (Undecided(mine[r]) => Undecided(c))
      BY <1>1, PlannedCopy
    <3>3. /\ mine'[r] = AsPlanned(mine[r], r, b, tier[r]) /\ pc'[r] = "save"
          /\ then'[r] = "planned"
      BY <1>1, <2>1 DEF Plan, Save, TypeOK, AsPlanned
    <3>4. QED
      BY <1>2, <1>6, <3>1, <3>2, <3>3, StageSaved
  <2>2. ASSUME PlanFailed(r) PROVE Drafted(r)'
    <3>1. pc[r] = "plan" /\ Undecided(mine[r]) /\ mine[r].verification = "none"
      BY <1>6, <2>2 DEF PlanFailed, Drafted
    <3>2. mine'[r] = Broken(mine[r]) /\ pc'[r] = "save" /\ then'[r] = "done"
      BY <1>1, <2>2 DEF PlanFailed, Save, TypeOK, Broken
    <3>3. Undecided(Broken(mine[r])) /\ Outcome(Broken(mine[r]))
      BY <1>1, <3>1, Copies DEF Outcome
    <3>4. QED
      BY <1>2, <1>6, <3>1, <3>2, <3>3, StageSaved
  <2>3. ASSUME PlanRaised(r) PROVE Drafted(r)'
    BY <1>1, <1>2, <1>3, <1>6, <2>3 DEF PlanRaised, TypeOK, Drafted, Undecided
  <2>4. ASSUME Settle(r) PROVE Drafted(r)'
    <3>1. pc[r] = "planned" /\ mine[r].status = "draft"
      BY <1>6, <2>4 DEF Settle, Drafted
    <3>2. Raise(r)
      BY <1>1, <2>4, <3>1 DEF Settle, Raise, After
    <3>3. QED
      BY <1>2, <1>6, <3>1, <3>2, StageRaise
  <2>5. ASSUME Create(r) PROVE Drafted(r)'
    <3>1. pc[r] = "planned"
      BY <2>5 DEF Create
    <3>2. CASE Raise(r)
      BY <1>2, <1>6, <3>1, <3>2, StageRaise
    <3>3. CASE pc' = [pc EXCEPT ![r] = "boot"] /\ UNCHANGED <<mine, then>>
      BY <1>1, <1>2, <1>3, <1>6, <3>1, <3>3 DEF TypeOK, Drafted, Undecided
    <3>4. QED
      BY <2>5, <3>2, <3>3 DEF Create
  <2>6. ASSUME Boot(r) PROVE Drafted(r)'
    <3>1. pc[r] = "boot"
      BY <2>6 DEF Boot
    <3>2. CASE Raise(r)
      BY <1>2, <1>6, <3>1, <3>2, StageRaise
    <3>3. CASE pc' = [pc EXCEPT ![r] = "pipeline"] /\ UNCHANGED <<mine, then>>
      BY <1>1, <1>2, <1>3, <1>6, <3>1, <3>3 DEF TypeOK, Drafted, Undecided
    <3>4. QED
      BY <2>6, <3>2, <3>3 DEF Boot
  <2>7. ASSUME Pipeline(r) PROVE Drafted(r)'
    <3>1. /\ pc[r] = "pipeline" /\ Undecided(mine[r]) /\ mine[r].verification = "none"
          /\ mine[r].plan # NoPlan
      BY <1>6, <2>7 DEF Pipeline, Drafted
    <3>2. \A c \in {Passed(mine[r]), Failed(mine[r]), Broken(mine[r])} :
            Undecided(c) /\ Outcome(c)
      BY <1>1, <3>1, Copies DEF Outcome
    <3>3. pc'[r] = "destroy" /\ mine'[r] \in {Passed(mine[r]), Failed(mine[r]), Broken(mine[r])}
      BY <1>1, <2>7 DEF Pipeline, TypeOK
    <3>4. Undecided(mine'[r]) /\ Outcome(mine'[r])
      BY <3>2, <3>3
    <3>5. QED
      BY <1>2, <1>3, <1>6, <3>1, <3>3, <3>4 DEF Drafted, Undecided, Outcome
  <2>8. ASSUME Destroy(r) PROVE Drafted(r)'
    <3>1. pc[r] = "destroy" /\ Undecided(mine[r]) /\ Outcome(mine[r])
      BY <1>6, <2>8 DEF Destroy, Drafted
    <3>2. mine'[r] = mine[r] /\ pc'[r] = "save" /\ then'[r] = "done"
      BY <1>1, <2>8 DEF Destroy, Save, After, TypeOK
    <3>3. QED
      BY <1>2, <1>6, <3>1, <3>2, StageSaved
  <2>9. QED
    BY <2>f, <2>s, <2>1, <2>2, <2>3, <2>4, <2>5, <2>6, <2>7, <2>8 DEF Step, Stage
<1>7. QED
  BY <1>4, <1>5, <1>6 DEF Stage, Absent

\* The process exits: what was under way is over.
LEMMA StageCrash ==
  ASSUME IInv, [Next]_vars, NEW r \in Recs, Stage(r), Crash
  PROVE  Stage(r)'
<1> USE DEF IInv
<1>1. /\ UNCHANGED <<row, tier, target, kind, seen>>
      /\ \A p \in Procs : pc'[p] = IF pc[p] = "idle" THEN "idle" ELSE "done"
      /\ r \in Procs
  BY DEF Crash, Procs
<1>2. /\ \A p \in Reqs : (Decider(p, r)' <=> Decider(p, r)) /\ seen'[p] = seen[p]
      /\ \A p \in Reqs : pc'[p] # "flush"
  BY <1>1 DEF Decider, Approving, Rejecting, Procs
<1>3. CASE Absent(r)
  BY <1>1, <1>3 DEF Stage, Absent
<1>4. CASE Drafted(r)
  <2>1. pc'[r] = "done"
    BY <1>1, <1>4 DEF Drafted
  <2>2. Drafted(r)'
    BY <1>1, <1>2, <1>4, <2>1 DEF Drafted, Undecided
  <2>3. QED
    BY <2>2 DEF Stage
<1>5. CASE Finished(r) /\ Offered(r)
  <2>1. pc'[r] = "done" /\ row'[r] = row[r]
    BY <1>1, <1>5 DEF Finished
  <2>2. Offered(r)'
    BY <1>2, <1>5, <2>1, OfferedKept
  <2>3. QED
    BY <2>1, <2>2 DEF Stage, Finished
<1>6. CASE Finished(r) /\ GivenUp(r)
  BY <1>1, <1>2, <1>6 DEF Stage, Finished, GivenUp
<1>7. QED
  BY <1>3, <1>4, <1>5, <1>6 DEF Stage

LEMMA StageStep == IInv /\ [Next]_vars => Stages'
<1> SUFFICES ASSUME IInv, [Next]_vars, NEW r \in Recs, ~Disturbed(r)'
             PROVE  Stage(r)'
  BY DEF Stages
<1> USE DEF IInv
<1>1. ~Disturbed(r) /\ Stage(r)
  BY StaysDisturbed DEF Stages
<1>2. r \in Procs /\ r \notin Reqs
  BY RemediationAssumption DEF Procs
<1>3. ASSUME NEW p \in Procs, Step(p), p # r PROVE Stage(r)'
  <2>1. /\ Unasked /\ \A q \in Procs : q # p => Untouched(q)
        /\ r # target[p] => row'[r] = row[r]
    BY <1>3, StepFrame
  <2>2. CASE target[p] = r
    <3>1. p \in Reqs
      BY <1>3, <2>2 DEF OwnTarget, Procs
    <3>2. QED
      BY <1>1, <1>3, <2>2, <3>1, StageDecided
  <2>3. CASE target[p] # r
    <3>1. \A q \in Reqs : target[q] = r => Untouched(q)
      BY <2>1, <2>3 DEF Procs
    <3>2. QED
      BY <1>1, <1>2, <1>3, <2>1, <2>3, <3>1, StageKept DEF Unasked
  <2>4. QED
    BY <2>2, <2>3
<1>4. ASSUME NEW s \in Recs, Ingest(s) \/ Load(s), s # r PROVE Stage(r)'
  <2>1. /\ Unasked /\ \A q \in Procs : q # s => Untouched(q)
        /\ row'[r] = row[r]
    BY <1>4, IntakeFrame
  <2>2. \A q \in Reqs : Untouched(q)
    BY <2>1, RemediationAssumption DEF Procs
  <2>3. QED
    BY <1>1, <1>2, <1>4, <2>1, <2>2, StageKept DEF Unasked
<1>5. ASSUME NEW p \in Reqs, Ask(p) PROVE Stage(r)'
  <2>1. CASE target[p] = r
    BY <1>1, <1>5, <2>1, StageAsked
  <2>2. CASE target[p] # r
    BY <1>1, <1>2, <1>5, <2>2, AskFrame, StageKept DEF Procs
  <2>3. QED
    BY <2>1, <2>2
<1>6. CASE UNCHANGED vars
  BY <1>1, <1>6, StageKept DEF vars, Untouched
<1>7. QED
  BY <1>1, <1>3, <1>4, <1>5, <1>6, StageIntake, StageWork, StageCrash DEF Next, Ask

LEMMA InvInit == Init => IInv
<1> SUFFICES ASSUME Init PROVE IInv
  OBVIOUS
<1>1. OwnTarget /\ Requests
  BY DEF Init, OwnTarget, Requests, Procs
<1>2. \A r \in Recs : Absent(r)
  BY DEF Init, Absent, Procs
<1>3. QED
  BY <1>1, <1>2, TypeInit DEF IInv, Stages, Stage

LEMMA InvStep == IInv /\ [Next]_vars => IInv'
BY TypeStep, RequestStep, OwnTargetStep, StageStep DEF IInv

LEMMA Invariance == Spec => []IInv
BY InvInit, InvStep, PTL DEF Spec

(* Every variable stays in its type, for any number of recommendations,
   requests, faults, crashes and replays. *)
THEOREM TypeCorrect == Spec => []TypeOK
<1>1. IInv => TypeOK
  BY DEF IInv
<1>2. QED
  BY <1>1, Invariance, PTL

(* ApprovalService.approve: what is approved and undisturbed is a plan some
   approval loaded, and carries that approval's record if at most one request
   rejects it. *)
THEOREM ApprovedWasRead == Spec => []ApprovedAsSeen
<1>1. IInv => ApprovedAsSeen
  <2> SUFFICES ASSUME IInv, NEW r \in Recs, row[r].status = "approved", ~Disturbed(r)
               PROVE  /\ row[r].plan # NoPlan
                      /\ \E p \in Reqs : Approving(p, r) /\ seen[p].plan = row[r].plan
                      /\ OneRejection(r) => OnRecord(r)
    BY DEF ApprovedAsSeen, OneRejection
  <2>1. Offered(r)
    BY DEF IInv, Stages, Stage, Absent, Drafted, GivenUp, Blank
  <2>2. QED
    BY <2>1 DEF Offered, Decider
<1>2. QED
  BY <1>1, Invariance, PTL

(* verification_service.py: no undisturbed recommendation whose plan failed in
   the sandbox is offered, approved or given up as failed. *)
THEOREM FailureHeldBack == Spec => []FailedNotOffered
<1>1. IInv => FailedNotOffered
  BY DEF IInv, Stages, Stage, Absent, Drafted, Offered, GivenUp, Blank, FailedNotOffered
<1>2. QED
  BY <1>1, Invariance, PTL

(* remediation_workflow.py: only a request that loaded the row before the
   approval writes to what is approved. *)
THEOREM ApprovalStands == Spec => ApprovalKept
<1> DEFINE Kept1 ==
      \A r \in Recs : row[r].status = "approved" /\ ~Disturbed(r) /\ row'[r] # row[r] =>
        \E p \in Reqs : target[p] = r /\ pc[p] = "flush" /\ seen[p].status # "approved"
<1>1. IInv /\ [Next]_vars => Kept1
  <2> SUFFICES ASSUME IInv, [Next]_vars, NEW r \in Recs, row[r].status = "approved",
                      ~Disturbed(r), row'[r] # row[r]
               PROVE  \E p \in Reqs :
                        target[p] = r /\ pc[p] = "flush" /\ seen[p].status # "approved"
    OBVIOUS
  <2> USE DEF IInv
  <2>1. Finished(r)
    BY DEF Stages, Stage, Absent, Drafted, GivenUp, Blank
  <2>2. PICK p \in Procs : Step(p) /\ target[p] = r /\ pc[p] = "flush"
    <3>1. ASSUME NEW s \in Recs, Ingest(s) \/ Load(s) PROVE FALSE
      <4>1. s = r
        BY <3>1, IntakeFrame
      <4>2. Ingest(r)
        BY <3>1, <4>1 DEF Load
      <4>3. QED
        BY <2>1, <4>2 DEF Ingest, Finished
    <3>2. ~Crash /\ ~UNCHANGED vars /\ \A p \in Reqs : ~Ask(p)
      BY AskFrame DEF Crash, vars
    <3>3. QED
      BY <3>1, <3>2, StepFrame DEF Next, Ask
  <2>3. p \in Reqs
    BY <2>1, <2>2 DEF OwnTarget, Finished, Procs
  <2>4. Deciding(p)
    BY <2>2, <2>3, UnderWay
  <2>5. seen[p].status # "approved"
    BY <2>4 DEF Deciding
  <2>6. QED
    BY <2>2, <2>3, <2>5
<1>2. QED
  BY <1>1, Invariance, PTL DEF Spec, ApprovalKept
-----------------------------------------------------------------------------
(* Droplets.                                                               *)

LEMMA AttendedStep == TypeOK /\ Attended /\ [Next]_vars => Attended'
<1> DEFINE Goal == Attended'
<1> SUFFICES ASSUME TypeOK, Attended, [Next]_vars PROVE Goal
  OBVIOUS
<1> HIDE DEF Goal
<1>1. faults \in Nat /\ crashes \in Nat
  BY RemediationAssumption DEF TypeOK
\* A step of p leaves the handlers of the other droplets where they are.
<1>2. ASSUME NEW p \in Procs, \A q \in Procs : q # p => pc'[q] = pc[q] /\ droplet'[q] = droplet[q],
             faults' \in Nat, crashes' \in Nat,
             faults' + crashes' = 0 => faults + crashes = 0,
             droplet'[p] = "live" /\ faults' + crashes' = 0 => pc'[p] \in {"boot", "pipeline", "destroy"}
      PROVE  Goal
  BY <1>2 DEF Attended, Goal
<1>3. ASSUME NEW p \in Procs, droplet' = droplet, faults' = faults, crashes' = crashes,
             \A q \in Procs : q # p => pc'[q] = pc[q],
             pc[p] \notin {"boot", "pipeline", "destroy"}
      PROVE  Goal
  BY <1>3 DEF Attended, Goal
<1>4. ASSUME NEW p \in Procs, Select(p) \/ Flush(p) \/ PlanFailed(p) \/ PlanRaised(p) \/ Settle(p)
      PROVE  Goal
  BY <1>3, <1>4 DEF TypeOK, Select, Flush, PlanFailed, PlanRaised, Settle, Save
<1>5. ASSUME NEW p \in Procs, NEW b \in BOOLEAN, Plan(p, b) PROVE Goal
  BY <1>3, <1>5 DEF TypeOK, Plan, Save
<1>6. ASSUME NEW r \in Recs, Ingest(r) \/ Load(r) PROVE Goal
  BY <1>3, <1>6 DEF TypeOK, Procs, Ingest, Load
<1>7. ASSUME NEW p \in Reqs, Ask(p) PROVE Goal
  <2>1. droplet' = droplet /\ faults' = faults /\ crashes' = crashes
    BY <1>7 DEF Ask, Approve, Reject, Replay, Receive
  <2>2. QED
    BY <1>3, <1>7, <2>1, AskFrame DEF Untouched, Procs
<1>8. ASSUME NEW p \in Procs, Raise(p) PROVE \A q \in Procs : q # p => pc'[q] = pc[q]
  BY <1>8 DEF TypeOK, Raise, Save
<1>9. ASSUME NEW p \in Procs, Create(p) PROVE Goal
  <2>1. CASE Raise(p) /\ UNCHANGED droplet
    BY <1>3, <1>8, <1>9, <2>1 DEF Create
  <2>2. CASE pc' = [pc EXCEPT ![p] = "boot"] /\ droplet' = [droplet EXCEPT ![p] = "live"]
    BY <1>1, <1>2, <1>9, <2>2 DEF Create, TypeOK
  <2>3. QED
    BY <1>9, <2>1, <2>2 DEF Create
<1>10. ASSUME NEW p \in Procs, Boot(p) PROVE Goal
  <2>1. CASE Raise(p) /\ faults' = faults + 1
    BY <1>1, <1>2, <1>8, <1>10, <2>1 DEF Boot
  <2>2. CASE pc' = [pc EXCEPT ![p] = "pipeline"] /\ UNCHANGED faults
    BY <1>1, <1>2, <1>10, <2>2 DEF Boot, TypeOK
  <2>3. QED
    BY <1>10, <2>1, <2>2 DEF Boot
<1>11. ASSUME NEW p \in Procs, Pipeline(p) PROVE Goal
  BY <1>1, <1>2, <1>11 DEF Pipeline, TypeOK
<1>12. ASSUME NEW p \in Procs, Destroy(p) PROVE Goal
  <2>1. \A q \in Procs : q # p => pc'[q] = pc[q]
    BY <1>12 DEF Destroy, Save, TypeOK
  <2>2. CASE droplet' = [droplet EXCEPT ![p] = "gone"] /\ UNCHANGED faults
    BY <1>1, <1>2, <1>12, <2>1, <2>2 DEF Destroy, TypeOK
  <2>3. CASE faults' = faults + 1 /\ UNCHANGED droplet
    BY <1>1, <1>2, <1>12, <2>1, <2>3 DEF Destroy
  <2>4. QED
    BY <1>12, <2>2, <2>3 DEF Destroy
<1>13. CASE Crash
  BY <1>1, <1>13 DEF Crash, Attended, Goal
<1>14. CASE UNCHANGED vars
  BY <1>14 DEF vars, Attended, Goal
<1>15. QED
  BY <1>4, <1>5, <1>6, <1>7, <1>9, <1>10, <1>11, <1>12, <1>13, <1>14 DEF Next, Step, Ask

(* verification_service.py: unless the cloud or the process fails, no handler
   ends and leaves its droplet alive. *)
THEOREM NoDropletLeft == Spec => []DropletsDestroyed
<1>1. Init => Attended
  BY DEF Init, Attended
<1>2. TypeOK /\ Attended /\ [Next]_vars => Attended'
  BY AttendedStep
<1>3. Attended => DropletsDestroyed
  BY DEF Attended, DropletsDestroyed
<1>4. QED
  BY <1>1, <1>2, <1>3, TypeCorrect, PTL DEF Spec
=============================================================================
