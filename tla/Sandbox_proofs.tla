---------------------------- MODULE Sandbox_proofs ----------------------------
(***************************************************************************)
(* The sandboxes of a tenant for any number of ids, handlers, job slots,   *)
(* attempts and failures: what a teardown or a job writes is of the        *)
(* sandbox it works on, although rows share a credential and outlive it.   *)
(***************************************************************************)
EXTENDS Sandbox, TLAPS

Tearing == {"mark", "delete", "unhost", "uncred"}
Aimless == {"idle", "check", "pick"}

\* The foreign key, the unique index, and a credential being deleted before the
\* row that names it is destroyed.
Rows ==
  /\ \A s \in Boxes : row[s].cred \in {NoBox, cred.id}
  /\ \A s, t \in Boxes : Active(s) /\ Active(t) => s = t
  /\ \A s \in Boxes : row[s].cred # NoBox => Active(s)
  /\ \A k \in Kinds, s \in Boxes : job[k][s] # "none" => row[s].status # "absent"

\* What a process works on: a sandbox of its own until its row is inserted, one
\* with a row afterwards; while it tears down, the row names the credential it
\* has read as long as there is one.
Own(p) ==
  /\ pc[p] \in {"idle", "pick"} => held[p] = NoBox
  /\ held[p] # NoBox <=> task[p] \in Kinds
  /\ held[p] # NoBox => row[held[p]].status # "absent"
  /\ pc[p] \notin Aimless => box[p] \in Boxes
  /\ pc[p] \notin Aimless \cup Making => row[box[p]].status # "absent"
  /\ pc[p] \in Making =>
       row[box[p]] = NoRow /\ \A q \in Procs \ {p} : box[q] # box[p]
  /\ pc[p] = "key" => box[p] # cred.id /\ \A q \in Procs : snap[q].cred # box[p]
  /\ pc[p] \in Tearing =>
       /\ row[box[p]].cred \in {NoBox, snap[p].cred}
       /\ snap[p].cred # NoBox /\ snap[p].cred = cred.id => row[box[p]].cred = cred.id
  /\ pc[p] = "finish" => row[box[p]].cred = NoBox

IInv == TypeOK /\ Rows /\ \A p \in Procs : Own(p)
-----------------------------------------------------------------------------
(* Types.                                                                  *)

Name   == Boxes \cup {NoBox}
Task   == {"none", "post", "delete", "kick"} \cup Kinds
States == {"none", "waiting", "active", "done", "failed"}

ProcTypes ==
  /\ task \in [Procs -> Task] /\ held \in [Procs -> Name] /\ pc \in [Procs -> Steps]
  /\ box \in [Procs -> Name] /\ snap \in [Procs -> Row]
JobTypes ==
  /\ job \in [Kinds -> [Boxes -> States]] /\ tries \in [Kinds -> [Boxes -> Nat]]
  /\ stalled \subseteq Kinds \X Boxes
DbTypes ==
  /\ row \in [Boxes -> Row] /\ cloud \in [Boxes -> {"none", "booting", "active", "gone"}]
  /\ cred \in [id : Name, key : Name] /\ hosts \subseteq Boxes
Bounds == requests \in Nat /\ faults \in Nat /\ crashes \in Nat

LEMMA TypesSplit == TypeOK <=> ProcTypes /\ JobTypes /\ DbTypes /\ Bounds
BY DEF TypeOK, ProcTypes, JobTypes, DbTypes, Bounds, Name, Task, States

LEMMA NoRowType == NoRow \in Row /\ NoRow.cred = NoBox /\ NoRow.status = "absent"
BY DEF NoRow, Row, Statuses

\* What a step does to its process, and that it leaves the others alone.
Apart(p) ==
  \A q \in Procs \ {p} :
    /\ task'[q] = task[q] /\ held'[q] = held[q] /\ pc'[q] = pc[q]
    /\ box'[q] = box[q] /\ snap'[q] = snap[q]
Ends(p) ==
  /\ task'[p] = "none" /\ held'[p] = NoBox /\ pc'[p] = "idle"
  /\ box'[p] = NoBox /\ snap'[p] = NoRow
Goes(p, l) ==
  /\ task'[p] = task[p] /\ held'[p] = held[p] /\ pc'[p] = l
  /\ box'[p] = box[p] /\ snap'[p] = snap[p]

\* Jobs are of sandboxes that have a row.
Backed == \A k \in Kinds, s \in Boxes : job'[k][s] # "none" => row[s].status # "absent"

LEMMA ReleaseEnds ==
  ASSUME ProcTypes, NEW p \in Procs, Release(p)
  PROVE  ProcTypes' /\ Apart(p) /\ Ends(p)
<1>1. NoRow \in Row /\ NoBox \in Name /\ "idle" \in Steps /\ "none" \in Task
  BY NoRowType DEF Name, Steps, Task
<1>2. QED
  BY <1>1 DEF ProcTypes, Release, Apart, Ends

LEMMA GotoGoes ==
  ASSUME ProcTypes, NEW p \in Procs, NEW l \in Steps, Goto(p, l)
  PROVE  ProcTypes' /\ Apart(p) /\ Goes(p, l)
BY DEF ProcTypes, Goto, Apart, Goes

\* One job set.
LEMMA JobSet ==
  ASSUME NEW j \in [Kinds -> [Boxes -> States]], NEW k \in Kinds, NEW s \in Boxes, NEW v \in States
  PROVE  LET x == [j EXCEPT ![k][s] = v] IN
         /\ x \in [Kinds -> [Boxes -> States]]
         /\ \A l \in Kinds, t \in Boxes : x[l][t] = IF l = k /\ t = s THEN v ELSE j[l][t]
OBVIOUS

LEMMA EndBacks ==
  ASSUME IInv, NEW p \in Procs, NEW v \in States, End(p, v)
  PROVE  job' \in [Kinds -> [Boxes -> States]] /\ Backed
<1>1. job \in [Kinds -> [Boxes -> States]] /\ held[p] \in Name
  BY TypesSplit DEF IInv, JobTypes, ProcTypes
<1>2. \A k \in Kinds, s \in Boxes : job[k][s] # "none" => row[s].status # "absent"
  BY DEF IInv, Rows
<1>3. CASE held[p] = NoBox
  BY <1>1, <1>2, <1>3 DEF End, Backed
<1>4. CASE held[p] # NoBox
  <2>1. task[p] \in Kinds /\ held[p] \in Boxes /\ row[held[p]].status # "absent"
    BY <1>1, <1>4 DEF IInv, Own, Name
  <2>2. job' = [job EXCEPT ![task[p]][held[p]] = v]
    BY <1>4 DEF End
  <2>3. QED
    BY <1>1, <1>2, <2>1, <2>2, JobSet DEF Backed
<1>5. QED
  BY <1>3, <1>4

LEMMA ReturnEnds ==
  ASSUME IInv, NEW p \in Procs, Return(p)
  PROVE  ProcTypes' /\ JobTypes' /\ Apart(p) /\ Ends(p) /\ Backed
<1>1. ProcTypes /\ JobTypes
  BY TypesSplit DEF IInv
<1>2. ProcTypes' /\ Apart(p) /\ Ends(p)
  BY <1>1, ReleaseEnds DEF Return
<1>3. job' \in [Kinds -> [Boxes -> States]] /\ Backed
  BY EndBacks DEF Return, States
<1>4. QED
  BY <1>1, <1>2, <1>3 DEF Return, JobTypes

LEMMA ThrowEnds ==
  ASSUME IInv, NEW p \in Procs, Throw(p)
  PROVE  ProcTypes' /\ JobTypes' /\ Apart(p) /\ Ends(p) /\ Backed
<1>1. ProcTypes /\ JobTypes
  BY TypesSplit DEF IInv
<1>2. CASE held[p] = NoBox \/ Reprovisioning(p)
  BY <1>2, ReturnEnds DEF Throw
<1>3. CASE ~(held[p] = NoBox \/ Reprovisioning(p))
  <2>1. task[p] \in Kinds /\ held[p] \in Boxes
    BY <1>1, <1>3 DEF IInv, Own, ProcTypes, Name
  <2>2. Release(p) /\ UNCHANGED stalled
    BY <1>3 DEF Throw
  <2>3. tries' = [tries EXCEPT ![task[p]][held[p]] = @ + 1]
    BY <1>3 DEF Throw
  <2>4. tries' \in [Kinds -> [Boxes -> Nat]]
    BY <1>1, <2>1, <2>3 DEF JobTypes
  <2>5. PICK v \in {"waiting", "failed"} : End(p, v)
    BY <1>3 DEF Throw
  <2>6. job' \in [Kinds -> [Boxes -> States]] /\ Backed
    BY <2>5, EndBacks DEF States
  <2>7. QED
    BY <1>1, <2>2, <2>4, <2>6, ReleaseEnds DEF JobTypes
<1>4. QED
  BY <1>2, <1>3

LEMMA FaultBounds == ASSUME Bounds, NEW v, Fault(v) PROVE Bounds'
BY DEF Bounds, Fault

LEMMA AddBacks ==
  ASSUME IInv, NEW k \in Kinds, NEW s \in Boxes, row[s].status # "absent", Add(k, s)
  PROVE  JobTypes' /\ Backed
<1>1. JobTypes /\ \A l \in Kinds, t \in Boxes : job[l][t] # "none" => row[t].status # "absent"
  BY TypesSplit DEF IInv, Rows
<1>2. CASE job[k][s] = "none"
  BY <1>1, <1>2, JobSet DEF Add, JobTypes, Backed, States
<1>3. CASE job[k][s] # "none"
  BY <1>1, <1>3 DEF Add, JobTypes, Backed
<1>4. QED
  BY <1>2, <1>3
-----------------------------------------------------------------------------
(* What a step of one process does to the rows, and so to what another      *)
(* relies on.                                                               *)

\* Rows stay, are inserted by whoever made them, keep their credential unless it
\* is deleted; a credential gets its id from whoever stores it.
Gentle(p) ==
  /\ \A s \in Boxes : row[s].status # "absent" => row'[s].status # "absent"
  /\ \A s \in Boxes : s # box[p] /\ row[s] = NoRow => row'[s] = NoRow
  /\ \A s \in Boxes : \/ pc[p] = "insert" /\ s = box[p]
                      \/ row'[s].cred = row[s].cred
                      \/ row'[s].cred = NoBox /\ cred'.id = NoBox
  /\ cred'.id \in {cred.id, NoBox} \/ (pc[p] = "key" /\ cred'.id = box[p])

\* It reads rows, and takes a sandbox that has a row or that is nobody's.
Honest(p) ==
  /\ snap'[p].cred \in {snap[p].cred, NoBox, cred.id, cred'.id}
  /\ \/ box'[p] \in {box[p], NoBox}
     \/ row[box'[p]].status # "absent"
     \/ \A q \in Procs : box[q] # box'[p]

Fits(p) == Gentle(p) /\ Rows' /\ DbTypes'

LEMMA OthersKeep ==
  ASSUME IInv, SandboxAssumption, NEW p \in Procs, Apart(p), Gentle(p), Honest(p), NEW q \in Procs \ {p}
  PROVE  Own(q)'
<1>t. ProcTypes /\ DbTypes
  BY TypesSplit DEF IInv
<1>o. Own(p) /\ Own(q)
  BY DEF IInv
<1>n. NoBox \notin Boxes
  BY DEF SandboxAssumption
<1>a. /\ task'[q] = task[q] /\ held'[q] = held[q] /\ pc'[q] = pc[q]
      /\ box'[q] = box[q] /\ snap'[q] = snap[q]
  BY DEF Apart
<1>1. /\ pc[q] \in {"idle", "pick"} => held[q] = NoBox
      /\ held[q] # NoBox <=> task[q] \in Kinds
      /\ held[q] # NoBox => row'[held[q]].status # "absent"
      /\ pc[q] \notin Aimless => box[q] \in Boxes
      /\ pc[q] \notin Aimless \cup Making => row'[box[q]].status # "absent"
  <2>1. held[q] \in Boxes \cup {NoBox}
    BY <1>t DEF ProcTypes, Name
  <2>2. QED
    BY <1>o, <2>1 DEF Own, Gentle
<1>2. ASSUME pc[q] \in Making
      PROVE  row'[box[q]] = NoRow /\ \A x \in Procs \ {q} : box'[x] # box[q]
  <2>1. box[q] \in Boxes /\ row[box[q]] = NoRow /\ \A x \in Procs \ {q} : box[x] # box[q]
    BY <1>o, <1>2 DEF Own, Making, Aimless
  <2>2. row'[box[q]] = NoRow
    BY <2>1 DEF Gentle
  <2>3. box'[p] # box[q]
    BY <2>1, <1>n, NoRowType DEF Honest
  <2>4. QED
    BY <2>1, <2>2, <2>3 DEF Apart
<1>3. ASSUME pc[q] = "key"
      PROVE  box[q] # cred'.id /\ \A x \in Procs : snap'[x].cred # box[q]
  <2>1. /\ box[q] \in Boxes /\ box[p] # box[q] /\ box[q] # cred.id
        /\ \A x \in Procs : snap[x].cred # box[q]
    BY <1>o, <1>3 DEF Own, Making, Aimless
  <2>2. box[q] # cred'.id
    BY <2>1, <1>n DEF Gentle
  <2>3. snap'[p].cred # box[q]
    BY <2>1, <2>2, <1>n DEF Honest
  <2>4. QED
    BY <2>1, <2>2, <2>3 DEF Apart
<1>4. ASSUME pc[q] \in Tearing
      PROVE  /\ row'[box[q]].cred \in {NoBox, snap[q].cred}
             /\ snap[q].cred # NoBox /\ snap[q].cred = cred'.id => row'[box[q]].cred = cred'.id
  <2>1. /\ box[q] \in Boxes /\ row[box[q]].status # "absent"
        /\ row[box[q]].cred \in {NoBox, snap[q].cred}
        /\ snap[q].cred # NoBox /\ snap[q].cred = cred.id => row[box[q]].cred = cred.id
    BY <1>o, <1>4 DEF Own, Making, Aimless, Tearing
  <2>2. ~(pc[p] = "insert" /\ box[q] = box[p])
    BY <1>o, <2>1 DEF Own, Making
  <2>3. \/ row'[box[q]].cred = row[box[q]].cred
        \/ row'[box[q]].cred = NoBox /\ cred'.id = NoBox
    BY <2>1, <2>2 DEF Gentle
  <2>4. ASSUME snap[q].cred # NoBox, snap[q].cred = cred'.id PROVE cred'.id = cred.id
    <3>1. ~(pc[p] = "key" /\ cred'.id = box[p])
      BY <1>o, <2>4 DEF Own
    <3>2. QED
      BY <2>4, <3>1 DEF Gentle
  <2>5. QED
    BY <2>1, <2>3, <2>4
<1>5. ASSUME pc[q] = "finish" PROVE row'[box[q]].cred = NoBox
  <2>1. box[q] \in Boxes /\ row[box[q]].status # "absent" /\ row[box[q]].cred = NoBox
    BY <1>o, <1>5 DEF Own, Making, Aimless
  <2>2. ~(pc[p] = "insert" /\ box[q] = box[p])
    BY <1>o, <2>1 DEF Own, Making
  <2>3. QED
    BY <2>1, <2>2 DEF Gentle
<1>6. QED
  BY <1>a, <1>1, <1>2, <1>3, <1>4, <1>5 DEF Own

\* A process that is done leaves nothing to rely on.
LEMMA EndsOwn ==
  ASSUME NEW p \in Procs, Ends(p)
  PROVE  Own(p)' /\ Honest(p)
BY NoRowType DEF Ends, Own, Honest, Making, Tearing, Aimless, Kinds

\* One that goes on, after its row is inserted, with the sandbox it has.
LEMMA GoesOwn ==
  ASSUME IInv, NEW p \in Procs, Gentle(p), NEW l, Goes(p, l),
         pc[p] \notin Aimless \cup Making, l \notin Aimless \cup Making \cup {"finish"},
         l \in Tearing => pc[p] \in Tearing
  PROVE  Own(p)' /\ Honest(p)
<1>t. held[p] \in Boxes \cup {NoBox}
  BY TypesSplit DEF IInv, ProcTypes, Name
<1>o. Own(p)
  BY DEF IInv
<1>1. /\ held[p] # NoBox <=> task[p] \in Kinds
      /\ held[p] # NoBox => row'[held[p]].status # "absent"
      /\ box[p] \in Boxes /\ row'[box[p]].status # "absent"
  BY <1>t, <1>o DEF Own, Gentle
<1>2. ASSUME l \in Tearing
      PROVE  /\ row'[box[p]].cred \in {NoBox, snap[p].cred}
             /\ snap[p].cred # NoBox /\ snap[p].cred = cred'.id => row'[box[p]].cred = cred'.id
  <2>1. /\ row[box[p]].cred \in {NoBox, snap[p].cred}
        /\ snap[p].cred # NoBox /\ snap[p].cred = cred.id => row[box[p]].cred = cred.id
        /\ pc[p] # "insert" /\ pc[p] # "key"
    BY <1>o, <1>2 DEF Own, Tearing
  <2>2. QED
    BY <1>1, <2>1 DEF Gentle
<1>3. Honest(p)
  BY DEF Goes, Honest
<1>4. l \notin Making /\ l # "key" /\ l \notin {"idle", "pick"} /\ l # "finish"
  BY DEF Making, Aimless
<1>5. QED
  BY <1>1, <1>2, <1>3, <1>4 DEF Own, Goes

LEMMA AllOwn ==
  ASSUME IInv, SandboxAssumption, NEW p \in Procs, Apart(p), Fits(p), Honest(p), Own(p)',
         ProcTypes', JobTypes', Bounds'
  PROVE  IInv'
<1>1. \A q \in Procs : Own(q)'
  BY OthersKeep DEF Fits
<1>2. TypeOK'
  BY TypesSplit DEF Fits, TypeOK, ProcTypes, JobTypes, DbTypes, Bounds, Name, Task, States
<1>3. QED
  BY <1>1, <1>2 DEF IInv, Fits

\* Rows and credential as they are.
LEMMA FitsSame ==
  ASSUME IInv, NEW p \in Procs, UNCHANGED <<row, cred>>, DbTypes', Backed
  PROVE  Fits(p)
BY DEF IInv, Fits, Gentle, Rows, Active, Gone, Backed

\* The process writes the row of its sandbox, and its status only as far as the
\* unique index allows.
LEMMA FitsWritten ==
  ASSUME IInv, SandboxAssumption, NEW p \in Procs, pc[p] \notin Aimless \cup Making, NEW r \in Row,
         r.cred = row[box[p]].cred,
         r.status = row[box[p]].status \/ (r.status \notin Gone /\ ~Clash(box[p])),
         row' = [row EXCEPT ![box[p]] = r], UNCHANGED <<cred, cloud>> , hosts' \subseteq Boxes, Backed
  PROVE  Fits(p)
<1>t. DbTypes
  BY TypesSplit DEF IInv
<1>b. box[p] \in Boxes /\ row[box[p]].status # "absent"
  BY DEF IInv, Own
<1>1. DbTypes'
  BY <1>t, <1>b DEF DbTypes
<1>2. /\ row'[box[p]] = r /\ \A s \in Boxes \ {box[p]} : row'[s] = row[s]
  BY <1>t, <1>b DEF DbTypes
<1>3. r.status # "absent"
  BY <1>b DEF Gone
<1>4. Gentle(p)
  BY <1>b, <1>2, <1>3 DEF Gentle
<1>5. \A s \in Boxes : row'[s].cred \in {NoBox, cred'.id}
  BY <1>2 DEF IInv, Rows
<1>6. \A s, u \in Boxes : row'[s].status \notin Gone /\ row'[u].status \notin Gone => s = u
  <2>1. \A s, u \in Boxes : row[s].status \notin Gone /\ row[u].status \notin Gone => s = u
    BY DEF IInv, Rows, Active
  <2>2. CASE r.status = row[box[p]].status
    BY <1>b, <1>2, <2>1, <2>2
  <2>3. CASE ~Clash(box[p])
    BY <1>b, <1>2, <2>1, <2>3 DEF Clash, Active
  <2>4. QED
    BY <2>2, <2>3
<1>7. \A s \in Boxes : row'[s].cred # NoBox => row'[s].status \notin Gone
  BY <1>b, <1>2 DEF IInv, Rows, Active
<1>8. \A k \in Kinds, s \in Boxes : job'[k][s] # "none" => row'[s].status # "absent"
  BY <1>2, <1>3 DEF Backed
<1>9. QED
  BY <1>1, <1>4, <1>5, <1>6, <1>7, <1>8 DEF Fits, Rows, Active
-----------------------------------------------------------------------------
(* Each step.                                                              *)

LEMMA Still ==
  ASSUME IInv
  PROVE  /\ ProcTypes /\ JobTypes /\ DbTypes /\ Bounds
         /\ UNCHANGED jobVars => JobTypes' /\ Backed
         /\ UNCHANGED dbVars => DbTypes'
         /\ UNCHANGED bounds => Bounds'
<1>1. ProcTypes /\ JobTypes /\ DbTypes /\ Bounds
  BY TypesSplit DEF IInv
<1>2. UNCHANGED job => Backed
  BY DEF IInv, Rows, Backed
<1>3. QED
  BY <1>1, <1>2 DEF jobVars, dbVars, bounds, JobTypes, DbTypes, Bounds

LEMMA Ended ==
  ASSUME IInv, NEW p \in Procs, Fits(p), Ends(p), Apart(p), ProcTypes', JobTypes', Bounds'
  PROVE  IInv'
BY EndsOwn, AllOwn, SandboxAssumption

LEMMA GoneOn ==
  ASSUME IInv, NEW p \in Procs, Fits(p), NEW l \in Steps, Goto(p, l),
         pc[p] \notin Aimless \cup Making, l \notin Aimless \cup Making \cup {"finish"},
         l \in Tearing => pc[p] \in Tearing, JobTypes', Bounds'
  PROVE  IInv'
<1>1. ProcTypes' /\ Apart(p) /\ Goes(p, l)
  BY Still, GotoGoes
<1>2. Own(p)' /\ Honest(p)
  BY <1>1, GoesOwn DEF Fits
<1>3. QED
  BY <1>1, <1>2, AllOwn, SandboxAssumption

LEMMA RowSet ==
  ASSUME NEW r \in Row, NEW st \in Statuses, NEW b \in BOOLEAN
  PROVE  /\ LET x == [r EXCEPT !.status = st] IN x \in Row /\ x.cred = r.cred /\ x.status = st
         /\ LET x == [r EXCEPT !.droplet = b] IN x \in Row /\ x.cred = r.cred /\ x.status = r.status
         /\ LET x == [r EXCEPT !.host = b] IN x \in Row /\ x.cred = r.cred /\ x.status = r.status
         /\ LET x == [r EXCEPT !.ip = b] IN x \in Row /\ x.cred = r.cred /\ x.status = r.status
BY DEF Row

\* A write of the status alone.
LEMMA FitsStatus ==
  ASSUME IInv, NEW p \in Procs, pc[p] \notin Aimless \cup Making, NEW st \in Statuses \ Gone,
         row' = [row EXCEPT ![box[p]].status = st], ~Clash(box[p]),
         UNCHANGED <<cloud, cred, hosts>>, Backed
  PROVE  Fits(p)
<1> DEFINE r == [row[box[p]] EXCEPT !.status = st]
<1>1. box[p] \in Boxes /\ row[box[p]] \in Row /\ hosts' \subseteq Boxes
  BY Still DEF IInv, Own, DbTypes
<1>2. r \in Row /\ r.cred = row[box[p]].cred /\ r.status = st
  BY <1>1, RowSet
<1>3. row' = [row EXCEPT ![box[p]] = r]
  OBVIOUS
<1> HIDE DEF r
<1>4. QED
  BY <1>1, <1>2, <1>3, FitsWritten, SandboxAssumption

LEMMA RequestKeeps ==
  ASSUME IInv, NEW p \in Webs, NEW r \in Requests, Request(p, r)
  PROVE  IInv'
<1>1. p \in Procs /\ r \in Task /\ r \notin Kinds
  BY SandboxAssumption DEF Procs, Task, Kinds
<1>2. UNCHANGED <<row, cred>> /\ DbTypes' /\ JobTypes' /\ Backed
  BY Still DEF Request, dbVars
<1>3. ProcTypes' /\ Apart(p) /\ Bounds'
  BY <1>1, Still DEF Request, ProcTypes, Apart, Bounds, Steps
<1>4. Own(p)' /\ Honest(p)
  <2>1. held[p] = NoBox /\ held'[p] = NoBox /\ task'[p] = r /\ pc'[p] \in {"pick", "check"}
    BY <1>1, Still DEF Request, At, IInv, Own, ProcTypes
  <2>2. UNCHANGED <<box, snap>>
    BY DEF Request
  <2>3. QED
    BY <1>1, <2>1, <2>2 DEF Own, Honest, Aimless, Making, Tearing
<1>5. Fits(p)
  BY <1>1, <1>2, FitsSame
<1>6. QED
  BY <1>1, <1>2, <1>3, <1>4, <1>5, AllOwn, SandboxAssumption

LEMMA TakeKeeps ==
  ASSUME IInv, NEW p \in Slots, NEW k \in Kinds, NEW s \in Boxes, Take(p, k, s)
  PROVE  IInv'
<1>1. p \in Procs /\ k \in Task /\ s \in Name /\ s # NoBox
  BY SandboxAssumption DEF Procs, Task, Name
<1>2. row[s].status # "absent"
  BY DEF Take, IInv, Rows
<1>3. JobTypes' /\ Backed
  <2>1. job' = [job EXCEPT ![k][s] = "active"] /\ UNCHANGED <<tries, stalled>>
    BY DEF Take
  <2>2. \A l \in Kinds, t \in Boxes : job[l][t] # "none" => row[t].status # "absent"
    BY DEF IInv, Rows
  <2>3. QED
    BY <1>2, <2>1, <2>2, Still, JobSet DEF JobTypes, Backed, States
<1>4. UNCHANGED <<row, cred>> /\ DbTypes' /\ Bounds'
  BY Still DEF Take, dbVars
<1>5. pc' = [pc EXCEPT ![p] = CASE k = "provision" -> "guard" [] k = "seed" -> "look" [] k = "cleanup" -> "load"]
  BY DEF Take
<1>6. (CASE k = "provision" -> "guard" [] k = "seed" -> "look" [] k = "cleanup" -> "load")
        \in {"guard", "look", "load"}
  BY DEF Kinds
<1>7. ProcTypes' /\ Apart(p) /\ pc'[p] \in {"guard", "look", "load"}
  BY <1>1, <1>5, <1>6, Still DEF Take, ProcTypes, Apart, Steps
<1>8. Own(p)' /\ Honest(p)
  <2>1. held'[p] = s /\ box'[p] = s /\ task'[p] = k /\ row' = row /\ snap' = snap
    BY <1>1, <1>4, Still DEF Take, ProcTypes
  <2>2. QED
    BY <1>1, <1>2, <1>7, <2>1 DEF Own, Honest, Aimless, Making, Tearing
<1>9. Fits(p)
  BY <1>1, <1>3, <1>4, FitsSame
<1>10. QED
  BY <1>1, <1>3, <1>4, <1>7, <1>8, <1>9, AllOwn, SandboxAssumption

LEMMA CheckKeeps ==
  ASSUME IInv, NEW p \in Procs, Check(p)
  PROVE  IInv'
<1>1. UNCHANGED <<row, cred, task, held, snap>> /\ DbTypes' /\ JobTypes' /\ Backed /\ Bounds' /\ pc[p] = "check"
  BY Still DEF Check, dbVars, At
<1>2. Fits(p)
  BY <1>1, FitsSame
<1>3. PICK s \in Boxes :
        /\ box' = [box EXCEPT ![p] = s]
        /\ \/ Active(s) /\ pc' = [pc EXCEPT ![p] = "activate"]
           \/ Fresh(s) /\ pc' = [pc EXCEPT ![p] = "key"]
  BY DEF Check
<1>4. ProcTypes' /\ Apart(p)
  BY <1>1, <1>3, Still DEF ProcTypes, Apart, Steps, Name
<1>5. box'[p] = s /\ ((Active(s) /\ pc'[p] = "activate") \/ (Fresh(s) /\ pc'[p] = "key"))
  BY <1>3, Still DEF ProcTypes
<1>6. /\ held'[p] = held[p] /\ task'[p] = task[p] /\ cred' = cred /\ row' = row /\ snap' = snap
      /\ held[p] # NoBox <=> task[p] \in Kinds
      /\ held[p] # NoBox => row[held[p]].status # "absent"
  BY <1>1 DEF IInv, Own
<1>7. ASSUME Active(s), pc'[p] = "activate" PROVE Own(p)' /\ Honest(p)
  <2>1. row[s].status # "absent"
    BY <1>7 DEF Active, Gone
  <2>2. Honest(p)
    BY <1>5, <1>6, <2>1 DEF Honest
  <2>3. Own(p)'
    BY <1>5, <1>6, <1>7, <2>1 DEF Own, Aimless, Making, Tearing
  <2>4. QED
    BY <2>2, <2>3
<1>8. ASSUME Fresh(s), pc'[p] = "key" PROVE Own(p)' /\ Honest(p)
  <2>1. row[s] = NoRow /\ s # cred.id /\ \A q \in Procs : box[q] # s /\ snap[q].cred # s
    BY <1>8 DEF Fresh
  <2>2. \A q \in Procs \ {p} : box'[q] # s
    BY <1>4, <2>1 DEF Apart
  <2>3. Honest(p)
    BY <1>5, <1>6, <2>1 DEF Honest
  <2>4. Own(p)'
    BY <1>5, <1>6, <1>8, <2>1, <2>2 DEF Own, Aimless, Making, Tearing
  <2>5. QED
    BY <2>3, <2>4
<1>9. Own(p)' /\ Honest(p)
  BY <1>5, <1>7, <1>8
<1>10. QED
  BY <1>1, <1>2, <1>4, <1>9, AllOwn, SandboxAssumption

LEMMA StoreKeyKeeps ==
  ASSUME IInv, NEW p \in Procs, StoreKey(p)
  PROVE  IInv'
<1>1. UNCHANGED <<row, cloud, hosts, task, held, box>> /\ JobTypes' /\ Backed /\ Bounds' /\ pc[p] = "key"
  BY Still DEF StoreKey, At
<1>2. Own(p) /\ box[p] \in Boxes /\ row[box[p]] = NoRow
  BY <1>1 DEF IInv, Own, Making, Aimless
<1> DEFINE id == IF cred = NoCred THEN box[p] ELSE cred.id
<1>3. /\ cred' = [id |-> id, key |-> box[p]] /\ cred'.id = id
      /\ snap' = [snap EXCEPT ![p].cred = id] /\ pc' = [pc EXCEPT ![p] = "insert"]
  BY DEF StoreKey
<1>4. id \in Name /\ (id = cred.id \/ (id = box[p] /\ cred.id = NoBox))
  BY <1>2, Still DEF DbTypes, NoCred, Name
<1> HIDE DEF id
<1> DEFINE r == [snap[p] EXCEPT !.cred = id]
<1>5. r \in Row /\ r.cred = id
  BY <1>4, Still DEF ProcTypes, Row, Name
<1>6. snap' = [snap EXCEPT ![p] = r]
  BY <1>3
<1> HIDE DEF r
<1>7. ProcTypes' /\ Apart(p) /\ pc'[p] = "insert" /\ snap'[p].cred = id
  BY <1>1, <1>3, <1>5, <1>6, Still DEF ProcTypes, Apart, Steps
<1>8. DbTypes'
  BY <1>1, <1>2, <1>3, <1>4, Still DEF DbTypes, Name
<1>9. Fits(p)
  <2>1. Gentle(p)
    BY <1>1, <1>3, <1>4 DEF Gentle
  <2>2. \A s \in Boxes : row[s].cred \in {NoBox, cred'.id}
    BY <1>3, <1>4 DEF IInv, Rows
  <2>3. Rows'
    BY <1>1, <2>2 DEF IInv, Rows, Active, Backed
  <2>4. QED
    BY <1>8, <2>1, <2>3 DEF Fits
<1>10. Own(p)' /\ Honest(p)
  <2>1. Honest(p)
    BY <1>1, <1>3, <1>7 DEF Honest
  <2>2. \A q \in Procs \ {p} : box'[q] # box[p]
    BY <1>1, <1>2 DEF Own, Making
  <2>3. QED
    BY <1>1, <1>2, <1>7, <2>1, <2>2 DEF Own, Making, Tearing, Aimless
<1>11. QED
  BY <1>1, <1>7, <1>9, <1>10, AllOwn, SandboxAssumption

LEMMA InsertRowKeeps ==
  ASSUME IInv, NEW p \in Procs, InsertRow(p)
  PROVE  IInv'
<1>1. UNCHANGED <<cloud, cred, hosts>> /\ Bounds' /\ pc[p] = "insert"
  BY Still DEF InsertRow, At
<1>2. Own(p) /\ box[p] \in Boxes /\ row[box[p]] = NoRow
  BY <1>1 DEF IInv, Own, Making, Aimless
<1>3. CASE Throw(p) /\ UNCHANGED row
  <2>1. ProcTypes' /\ JobTypes' /\ Apart(p) /\ Ends(p) /\ Backed
    BY <1>3, ThrowEnds
  <2>2. DbTypes'
    BY <1>1, <1>3, Still DEF DbTypes
  <2>3. Fits(p)
    BY <1>1, <1>3, <2>1, <2>2, FitsSame
  <2>4. QED
    BY <1>1, <2>1, <2>3, Ended
<1>4. CASE ~(Throw(p) /\ UNCHANGED row)
  <2> DEFINE r == [NoRow EXCEPT !.status = "provisioning", !.cred = cred.id]
  <2>1. /\ ~Clash(box[p]) /\ row' = [row EXCEPT ![box[p]] = r]
        /\ Goto(p, "create") /\ UNCHANGED jobVars
    BY <1>4 DEF InsertRow
  <2>2. r \in Row /\ r.status = "provisioning" /\ r.cred = cred.id
    <3>1. cred.id \in Boxes \cup {NoBox}
      BY Still DEF DbTypes, Name
    <3>2. QED
      BY <3>1, NoRowType DEF Row, Statuses
  <2> HIDE DEF r
  <2>3. JobTypes' /\ Backed
    BY <2>1, Still
  <2>4. row'[box[p]] = r /\ \A s \in Boxes \ {box[p]} : row'[s] = row[s]
    BY <1>2, <2>1, Still DEF DbTypes
  <2>5. DbTypes'
    BY <1>1, <1>2, <2>1, <2>2, Still DEF DbTypes
  <2>6. Gentle(p)
    BY <1>1, <1>2, <2>2, <2>4 DEF Gentle
  <2>7. Rows'
    <3>1. \A s \in Boxes : row'[s].cred \in {NoBox, cred'.id}
      BY <1>1, <1>2, <2>2, <2>4 DEF IInv, Rows
    <3>2. \A s \in Boxes \ {box[p]} : row[s].status \in Gone
      BY <1>2, <2>1, NoRowType DEF Clash, Active, Gone
    <3>3. \A s, t \in Boxes : row'[s].status \notin Gone /\ row'[t].status \notin Gone => s = t
      BY <1>2, <2>4, <3>2
    <3>4. \A s \in Boxes : row'[s].cred # NoBox => row'[s].status \notin Gone
      BY <1>2, <2>2, <2>4 DEF IInv, Rows, Active, Gone
    <3>5. \A k \in Kinds, s \in Boxes : job'[k][s] # "none" => row'[s].status # "absent"
      BY <1>2, <2>2, <2>3, <2>4 DEF Backed
    <3>6. QED
      BY <3>1, <3>3, <3>4, <3>5 DEF Rows, Active
  <2>8. ProcTypes' /\ Apart(p) /\ Goes(p, "create")
    BY <2>1, Still, GotoGoes DEF Steps
  <2>9. Own(p)' /\ Honest(p)
    <3>1. held[p] \in Boxes \cup {NoBox}
      BY Still DEF ProcTypes, Name
    <3>2. held[p] # NoBox => row'[held[p]].status # "absent"
      BY <1>2, <2>6, <3>1 DEF Own, Gentle
    <3>3. QED
      BY <1>1, <1>2, <2>2, <2>4, <2>8, <3>2 DEF Own, Honest, Goes, Making, Tearing, Aimless
  <2>10. QED
    BY <1>1, <2>3, <2>5, <2>6, <2>7, <2>8, <2>9, AllOwn, SandboxAssumption DEF Fits
<1>5. QED
  BY <1>3, <1>4

\* A process that throws or returns, with rows and credential as they are.
LEMMA EndedStill ==
  ASSUME IInv, NEW p \in Procs, Return(p) \/ Throw(p), UNCHANGED <<row, cred>>, DbTypes', Bounds'
  PROVE  IInv'
<1>1. ProcTypes' /\ JobTypes' /\ Apart(p) /\ Ends(p) /\ Backed
  BY ReturnEnds, ThrowEnds
<1>2. Fits(p)
  BY <1>1, FitsSame
<1>3. QED
  BY <1>1, <1>2, Ended

\* One that goes on with them as they are.
LEMMA OnStill ==
  ASSUME IInv, NEW p \in Procs, NEW l \in Steps, Goto(p, l), UNCHANGED <<row, cred>>, DbTypes', Bounds',
         pc[p] \notin Aimless \cup Making, l \notin Aimless \cup Making \cup {"finish"},
         l \in Tearing => pc[p] \in Tearing, JobTypes', Backed
  PROVE  IInv'
<1>1. Fits(p)
  BY FitsSame
<1>2. QED
  BY <1>1, GoneOn

\* A write of the status, then on; or a refusal by the unique index.
LEMMA MarkedOn ==
  ASSUME IInv, NEW p \in Procs, NEW l \in Steps, NEW st \in Statuses \ Gone,
         pc[p] \notin Aimless \cup Making, l \notin Aimless \cup Making \cup {"finish"},
         l \in Tearing => pc[p] \in Tearing,
         \/ Throw(p) /\ UNCHANGED row
         \/ /\ ~Clash(box[p]) /\ row' = [row EXCEPT ![box[p]].status = st]
            /\ Goto(p, l) /\ UNCHANGED jobVars,
         UNCHANGED <<cloud, cred, hosts, bounds>>
  PROVE  IInv'
<1>1. Bounds'
  BY Still
<1>2. CASE Throw(p) /\ UNCHANGED row
  <2>1. DbTypes'
    BY <1>2, Still DEF dbVars
  <2>2. QED
    BY <1>1, <1>2, <2>1, EndedStill
<1>3. CASE /\ ~Clash(box[p]) /\ row' = [row EXCEPT ![box[p]].status = st]
           /\ Goto(p, l) /\ UNCHANGED jobVars
  <2>1. JobTypes' /\ Backed
    BY <1>3, Still
  <2>2. Fits(p)
    BY <1>3, <2>1, FitsStatus
  <2>3. QED
    BY <1>1, <1>3, <2>1, <2>2, GoneOn
<1>4. QED
  BY <1>2, <1>3

LEMMA CreateDropletKeeps ==
  ASSUME IInv, NEW p \in Procs, CreateDroplet(p)
  PROVE  IInv'
<1>1. pc[p] = "create" /\ UNCHANGED <<cred, hosts>> /\ pc[p] \notin Aimless \cup Making
  BY DEF CreateDroplet, At, Aimless, Making
<1>2. box[p] \in Boxes
  BY <1>1 DEF IInv, Own
<1>3. CASE /\ cloud' = [cloud EXCEPT ![box[p]] = "booting"]
           /\ Goto(p, "record") /\ UNCHANGED <<row, jobVars, bounds>>
  <2>1. DbTypes' /\ JobTypes' /\ Backed /\ Bounds'
    BY <1>1, <1>2, <1>3, Still DEF DbTypes
  <2>2. "record" \in Steps /\ "record" \notin Aimless \cup Making \cup Tearing \cup {"finish"}
    BY DEF Steps, Aimless, Making, Tearing
  <2>3. QED
    BY <1>1, <1>3, <2>1, <2>2, OnStill
<1>4. CASE /\ Fault("cloud") /\ Throw(p) /\ UNCHANGED cloud
           /\ row' = IF Clash(box[p]) THEN row ELSE [row EXCEPT ![box[p]].status = "error"]
  <2>1. Bounds' /\ ProcTypes' /\ JobTypes' /\ Apart(p) /\ Ends(p) /\ Backed
    BY <1>4, Still, FaultBounds, ThrowEnds
  <2>2. "error" \in Statuses \ Gone
    BY DEF Statuses, Gone
  <2>3. CASE Clash(box[p])
    <3>1. UNCHANGED dbVars
      BY <1>1, <1>4, <2>3 DEF dbVars
    <3>2. QED
      BY <1>4, <2>1, <3>1, Still, EndedStill DEF dbVars
  <2>4. CASE ~Clash(box[p])
    <3>1. Fits(p)
      BY <1>1, <1>4, <2>1, <2>2, <2>4, FitsStatus
    <3>2. QED
      BY <2>1, <3>1, Ended
  <2>5. QED
    BY <2>3, <2>4
<1>5. QED
  BY <1>3, <1>4 DEF CreateDroplet

LEMMA RecordDropletKeeps ==
  ASSUME IInv, NEW p \in Procs, RecordDroplet(p)
  PROVE  IInv'
<1>1. /\ pc[p] = "record" /\ UNCHANGED <<cloud, cred, hosts, jobVars, bounds>> /\ Goto(p, "activate")
      /\ pc[p] \notin Aimless \cup Making
  BY DEF RecordDroplet, At, Aimless, Making
<1>2. box[p] \in Boxes /\ row[box[p]] \in Row /\ hosts' \subseteq Boxes
  BY <1>1, Still DEF IInv, Own, DbTypes
<1> DEFINE r == [row[box[p]] EXCEPT !.droplet = TRUE]
<1>3. r \in Row /\ r.cred = row[box[p]].cred /\ r.status = row[box[p]].status
  BY <1>2 DEF Row
<1>4. row' = [row EXCEPT ![box[p]] = r]
  BY DEF RecordDroplet
<1> HIDE DEF r
<1>5. JobTypes' /\ Backed /\ Bounds'
  BY <1>1, Still
<1>6. Fits(p)
  BY <1>1, <1>2, <1>3, <1>4, <1>5, FitsWritten, SandboxAssumption
<1>7. "activate" \in Steps /\ "activate" \notin Aimless \cup Making \cup Tearing \cup {"finish"}
  BY DEF Steps, Aimless, Making, Tearing
<1>8. QED
  BY <1>1, <1>5, <1>6, <1>7, GoneOn

\* A job ended and another added at once.
DoneJob(p) == IF held[p] = NoBox THEN job ELSE [job EXCEPT ![task[p]][held[p]] = "done"]

LEMMA DoneJobBacks ==
  ASSUME IInv, NEW p \in Procs
  PROVE  /\ DoneJob(p) \in [Kinds -> [Boxes -> States]]
         /\ \A l \in Kinds, s \in Boxes : DoneJob(p)[l][s] # "none" => row[s].status # "absent"
<1>1. job \in [Kinds -> [Boxes -> States]] /\ held[p] \in Boxes \cup {NoBox}
  BY Still DEF JobTypes, ProcTypes, Name
<1>2. \A l \in Kinds, s \in Boxes : job[l][s] # "none" => row[s].status # "absent"
  BY DEF IInv, Rows
<1>3. CASE held[p] = NoBox
  BY <1>1, <1>2, <1>3 DEF DoneJob
<1>4. CASE held[p] # NoBox
  <2>1. task[p] \in Kinds /\ held[p] \in Boxes /\ row[held[p]].status # "absent"
    BY <1>1, <1>4 DEF IInv, Own
  <2>2. QED
    BY <1>1, <1>2, <1>4, <2>1, JobSet DEF DoneJob, States
<1>5. QED
  BY <1>3, <1>4

LEMMA NextJobBacks ==
  ASSUME IInv, NEW j \in [Kinds -> [Boxes -> States]],
         \A l \in Kinds, s \in Boxes : j[l][s] # "none" => row[s].status # "absent",
         NEW k \in Kinds, NEW b \in Boxes, row[b].status # "absent",
         job' = [j EXCEPT ![k][b] = IF @ = "none" THEN "waiting" ELSE @],
         UNCHANGED <<tries, stalled>>
  PROVE  JobTypes' /\ Backed
<1> DEFINE v == IF j[k][b] = "none" THEN "waiting" ELSE j[k][b]
           x == [j EXCEPT ![k][b] = v]
<1>1. v \in States /\ job' = x
  BY DEF States
<1> HIDE DEF v
<1>2. /\ x \in [Kinds -> [Boxes -> States]]
      /\ \A l \in Kinds, s \in Boxes : x[l][s] = IF l = k /\ s = b THEN v ELSE j[l][s]
  BY <1>1, JobSet
<1> HIDE DEF x
<1>3. JobTypes'
  BY <1>1, <1>2, Still DEF JobTypes
<1>4. Backed
  BY <1>1, <1>2 DEF Backed
<1>5. QED
  BY <1>3, <1>4

LEMMA AddProvisionKeeps ==
  ASSUME IInv, NEW p \in Procs, AddProvision(p)
  PROVE  IInv'
<1>1. pc[p] = "activate" /\ UNCHANGED dbVars /\ pc[p] \notin Aimless \cup Making
  BY DEF AddProvision, At, Aimless, Making
<1>2. box[p] \in Boxes /\ row[box[p]].status # "absent" /\ DbTypes' /\ UNCHANGED <<row, cred>>
  BY <1>1, Still DEF IInv, Own, dbVars
<1>3. CASE Add("provision", box[p]) /\ Goto(p, "ttl") /\ UNCHANGED bounds
  <2>1. JobTypes' /\ Backed /\ Bounds'
    BY <1>2, <1>3, Still, AddBacks DEF Kinds
  <2>2. "ttl" \in Steps /\ "ttl" \notin Aimless \cup Making \cup Tearing \cup {"finish"}
    BY DEF Steps, Aimless, Making, Tearing
  <2>3. QED
    BY <1>1, <1>2, <1>3, <2>1, <2>2, OnStill
<1>4. CASE /\ Release(p) /\ UNCHANGED <<tries, stalled, bounds>>
           /\ job' = [IF held[p] = NoBox THEN job
                      ELSE [job EXCEPT ![task[p]][held[p]] = "done"]
                      EXCEPT !["provision"][box[p]] = IF @ = "none" THEN "waiting" ELSE @]
  <2>1. JobTypes' /\ Backed /\ Bounds'
    <3>1. job' = [DoneJob(p) EXCEPT !["provision"][box[p]] = IF @ = "none" THEN "waiting" ELSE @]
      BY <1>4 DEF DoneJob
    <3>2. UNCHANGED <<tries, stalled>> /\ Bounds' /\ "provision" \in Kinds
      BY <1>4, Still DEF Kinds
    <3>3. QED
      BY <1>2, <3>1, <3>2, DoneJobBacks, NextJobBacks
  <2>2. ProcTypes' /\ Apart(p) /\ Ends(p)
    BY <1>4, Still, ReleaseEnds
  <2>3. Fits(p)
    BY <1>2, <2>1, FitsSame
  <2>4. QED
    BY <2>1, <2>2, <2>3, Ended
<1>5. CASE Fault("redis") /\ Throw(p)
  BY <1>2, <1>5, Still, FaultBounds, EndedStill
<1>6. QED
  BY <1>3, <1>4, <1>5 DEF AddProvision

LEMMA AddCleanupKeeps ==
  ASSUME IInv, NEW p \in Procs, AddCleanup(p)
  PROVE  IInv'
<1>1. pc[p] = "ttl" /\ UNCHANGED dbVars /\ pc[p] \notin Aimless \cup Making
  BY DEF AddCleanup, At, Aimless, Making
<1>2. box[p] \in Boxes /\ row[box[p]].status # "absent" /\ DbTypes' /\ UNCHANGED <<row, cred>>
  BY <1>1, Still DEF IInv, Own, dbVars
<1>3. ASSUME Release(p), JobTypes', Backed, UNCHANGED bounds PROVE IInv'
  <2>1. ProcTypes' /\ Apart(p) /\ Ends(p) /\ Bounds'
    BY <1>3, Still, ReleaseEnds
  <2>2. Fits(p)
    BY <1>2, <1>3, FitsSame
  <2>3. QED
    BY <1>3, <2>1, <2>2, Ended
<1>4. CASE task[p] = "post" /\ Add("cleanup", box[p]) /\ Release(p) /\ UNCHANGED bounds
  <2>1. JobTypes' /\ Backed
    BY <1>2, <1>4, AddBacks DEF Kinds
  <2>2. QED
    BY <1>3, <1>4, <2>1
<1>5. CASE /\ task[p] = "provision" /\ Release(p) /\ UNCHANGED <<tries, stalled, bounds>>
           /\ job' = [job EXCEPT !["provision"][held[p]] = "done",
                                 !["cleanup"][box[p]] = IF @ = "none" THEN "waiting" ELSE @]
  <2> DEFINE j == [job EXCEPT !["provision"][held[p]] = "done"]
  <2>1. j = DoneJob(p)
    BY <1>5 DEF IInv, Own, Kinds, DoneJob
  <2>2. j["cleanup"][box[p]] = job["cleanup"][box[p]]
    BY Still DEF JobTypes, Kinds
  <2>3. job' = [j EXCEPT !["cleanup"][box[p]] =
                  IF job["cleanup"][box[p]] = "none" THEN "waiting" ELSE job["cleanup"][box[p]]]
    BY <1>5
  <2> HIDE DEF j
  <2>4. job' = [DoneJob(p) EXCEPT !["cleanup"][box[p]] = IF @ = "none" THEN "waiting" ELSE @]
    BY <2>1, <2>2, <2>3
  <2>5. UNCHANGED <<tries, stalled>> /\ "cleanup" \in Kinds
    BY <1>5 DEF Kinds
  <2>6. JobTypes' /\ Backed
    BY <1>2, <2>4, <2>5, DoneJobBacks, NextJobBacks
  <2>7. QED
    BY <1>3, <1>5, <2>6
<1>6. CASE Fault("redis") /\ Throw(p)
  BY <1>2, <1>6, Still, FaultBounds, EndedStill
<1>7. QED
  BY <1>4, <1>5, <1>6 DEF AddCleanup

LEMMA PickKeeps ==
  ASSUME IInv, NEW p \in Procs, Pick(p)
  PROVE  IInv'
<1>1. pc[p] = "pick" /\ UNCHANGED <<row, cred>> /\ DbTypes' /\ Bounds'
  BY Still DEF Pick, At, dbVars
<1>2. CASE Return(p)
  BY <1>1, <1>2, EndedStill
<1>3. CASE ~Return(p)
  <2>1. PICK s \in Boxes : /\ Active(s)
                           /\ box' = [box EXCEPT ![p] = s]
                           /\ pc' = [pc EXCEPT ![p] = "load"]
                           /\ UNCHANGED <<task, held, snap, jobVars>>
    BY <1>3 DEF Pick
  <2>2. ProcTypes' /\ Apart(p) /\ JobTypes' /\ Backed /\ box'[p] = s /\ pc'[p] = "load"
    BY <2>1, Still DEF ProcTypes, Apart, Steps, Name
  <2>3. Fits(p)
    BY <1>1, <2>2, FitsSame
  <2>4. row[s].status # "absent" /\ row' = row /\ snap' = snap /\ held' = held /\ task' = task
    BY <1>1, <2>1 DEF Active, Gone
  <2>5. /\ held[p] # NoBox <=> task[p] \in Kinds
        /\ held[p] # NoBox => row[held[p]].status # "absent"
    BY DEF IInv, Own
  <2>6. Own(p)' /\ Honest(p)
    BY <2>2, <2>4, <2>5 DEF Own, Honest, Aimless, Making, Tearing
  <2>7. QED
    BY <1>1, <2>2, <2>3, <2>6, AllOwn, SandboxAssumption
<1>4. QED
  BY <1>2, <1>3

\* A handler reads the row of its sandbox.
LEMMA ReadsKeeps ==
  ASSUME IInv, NEW p \in Procs, pc[p] \notin Aimless \cup Making,
         NEW l \in {"mark", "boot", "seed"},
         snap' = [snap EXCEPT ![p] = row[box[p]]], pc' = [pc EXCEPT ![p] = l],
         UNCHANGED <<task, held, box, jobVars, dbVars, bounds>>
  PROVE  IInv'
<1>1. UNCHANGED <<row, cred>> /\ DbTypes' /\ Bounds' /\ JobTypes' /\ Backed
  BY Still DEF dbVars
<1>2. box[p] \in Boxes /\ row[box[p]].status # "absent" /\ row[box[p]] \in Row
  BY Still DEF IInv, Own, DbTypes
<1>3. ProcTypes' /\ Apart(p) /\ snap'[p] = row[box[p]] /\ pc'[p] = l
  BY <1>2, Still DEF ProcTypes, Apart, Steps
<1>4. Fits(p)
  BY <1>1, FitsSame
<1>5. /\ row[box[p]].cred \in {NoBox, cred.id}
      /\ held[p] # NoBox <=> task[p] \in Kinds
      /\ held[p] # NoBox => row[held[p]].status # "absent"
  BY <1>2 DEF IInv, Own, Rows
<1>6. row' = row /\ cred' = cred /\ held' = held /\ task' = task /\ box' = box
  BY <1>1
<1>7. Own(p)'
  BY <1>2, <1>3, <1>5, <1>6 DEF Own, Aimless, Making, Tearing
<1>8. Honest(p)
  BY <1>3, <1>5, <1>6 DEF Honest
<1>9. QED
  BY <1>1, <1>3, <1>4, <1>7, <1>8, AllOwn, SandboxAssumption

LEMMA DeleteDropletKeeps ==
  ASSUME IInv, NEW p \in Procs, DeleteDroplet(p)
  PROVE  IInv'
<1>1. /\ pc[p] = "delete" /\ UNCHANGED <<row, cred, hosts>>
      /\ pc[p] \notin Aimless \cup Making /\ pc[p] \in Tearing
  BY DEF DeleteDroplet, At, Aimless, Making, Tearing
<1>2. box[p] \in Boxes
  BY <1>1 DEF IInv, Own
<1>3. CASE /\ cloud' = IF snap[p].droplet THEN [cloud EXCEPT ![box[p]] = "gone"] ELSE cloud
           /\ Goto(p, "unhost") /\ UNCHANGED <<jobVars, bounds>>
  <2>1. DbTypes' /\ JobTypes' /\ Backed /\ Bounds'
    BY <1>1, <1>2, <1>3, Still DEF DbTypes
  <2>2. "unhost" \in Steps /\ "unhost" \notin Aimless \cup Making \cup {"finish"}
    BY DEF Steps, Aimless, Making
  <2>3. QED
    BY <1>1, <1>3, <2>1, <2>2, OnStill
<1>4. CASE Fault("cloud") /\ Throw(p) /\ UNCHANGED cloud
  <2>1. DbTypes' /\ Bounds'
    BY <1>1, <1>4, Still, FaultBounds DEF dbVars
  <2>2. QED
    BY <1>1, <1>4, <2>1, EndedStill
<1>5. QED
  BY <1>3, <1>4 DEF DeleteDroplet

LEMMA DeleteHostKeeps ==
  ASSUME IInv, NEW p \in Procs, DeleteHost(p)
  PROVE  IInv'
<1>1. /\ pc[p] = "unhost" /\ UNCHANGED <<cloud, cred, jobVars, bounds>> /\ Goto(p, "uncred")
      /\ pc[p] \notin Aimless \cup Making /\ pc[p] \in Tearing
  BY DEF DeleteHost, At, Aimless, Making, Tearing
<1>2. JobTypes' /\ Backed /\ Bounds' /\ box[p] \in Boxes /\ row[box[p]] \in Row
  BY <1>1, Still DEF IInv, Own, DbTypes
<1>3. Fits(p)
  <2>1. CASE snap[p].host
    <3> DEFINE r == [row[box[p]] EXCEPT !.host = FALSE]
    <3>1. r \in Row /\ r.cred = row[box[p]].cred /\ r.status = row[box[p]].status
      BY <1>2 DEF Row
    <3>2. row' = [row EXCEPT ![box[p]] = r] /\ hosts' = hosts \ {box[p]}
      BY <2>1 DEF DeleteHost
    <3> HIDE DEF r
    <3>3. hosts' \subseteq Boxes
      BY <3>2, Still DEF DbTypes
    <3>4. QED
      BY <1>1, <1>2, <3>1, <3>2, <3>3, FitsWritten, SandboxAssumption
  <2>2. CASE ~snap[p].host
    <3>1. UNCHANGED dbVars
      BY <1>1, <2>2 DEF DeleteHost, dbVars
    <3>2. QED
      BY <1>2, <3>1, Still, FitsSame DEF dbVars
  <2>3. QED
    BY <2>1, <2>2
<1>4. "uncred" \in Steps /\ "uncred" \notin Aimless \cup Making \cup {"finish"}
  BY DEF Steps, Aimless, Making
<1>5. QED
  BY <1>1, <1>2, <1>3, <1>4, GoneOn

\* The credential of the row that a teardown has read is of no other row.
LEMMA CredIsOwn ==
  ASSUME IInv, NEW p \in Procs, pc[p] = "uncred", snap[p].cred # NoBox, cred.id = snap[p].cred,
         NEW s \in Boxes, row[s].cred = snap[p].cred
  PROVE  s = box[p]
<1>1. box[p] \in Boxes /\ row[box[p]].cred = cred.id
  BY DEF IInv, Own, Tearing, Aimless
<1>2. Active(s) /\ Active(box[p])
  BY <1>1 DEF IInv, Rows
<1>3. QED
  BY <1>1, <1>2 DEF IInv, Rows

LEMMA DeleteCredKeeps ==
  ASSUME IInv, NEW p \in Procs, DeleteCred(p)
  PROVE  IInv'
<1>1. pc[p] = "uncred" /\ UNCHANGED <<cloud, hosts, jobVars, bounds>> /\ Goto(p, "finish")
  BY DEF DeleteCred, At
<1>2. JobTypes' /\ Backed /\ Bounds' /\ row \in [Boxes -> Row] /\ Own(p) /\ box[p] \in Boxes
  BY <1>1, Still DEF DbTypes, IInv, Own, Aimless
<1> DEFINE id == snap[p].cred
<1>3. /\ \A s \in Boxes : /\ row'[s] \in Row /\ row'[s].status = row[s].status
                          /\ \/ row'[s] = row[s] /\ (cred' = cred \/ row[s].cred # id)
                             \/ row'[s].cred = NoBox /\ row[s].cred = id /\ cred'.id = NoBox
      /\ row' \in [Boxes -> Row]
      /\ \/ cred' = cred /\ row' = row /\ (id = NoBox \/ cred.id # id)
         \/ cred' = NoCred /\ id # NoBox /\ cred.id = id
  <2>1. CASE id # NoBox /\ cred.id = id
    <3>1. /\ cred' = NoCred
          /\ row' = [s \in Boxes |-> IF row[s].cred = id THEN [row[s] EXCEPT !.cred = NoBox] ELSE row[s]]
      BY <2>1 DEF DeleteCred
    <3>2. \A x \in Row : LET y == [x EXCEPT !.cred = NoBox] IN
            y \in Row /\ y.cred = NoBox /\ y.status = x.status
      BY DEF Row
    <3> HIDE DEF id
    <3>3. row' \in [Boxes -> Row]
      BY <1>2, <3>1, <3>2
    <3>4. cred'.id = NoBox
      BY <3>1 DEF NoCred
    <3>5. \A s \in Boxes : /\ row'[s] \in Row /\ row'[s].status = row[s].status
                          /\ \/ row'[s] = row[s] /\ (cred' = cred \/ row[s].cred # id)
                             \/ row'[s].cred = NoBox /\ row[s].cred = id /\ cred'.id = NoBox
      BY <1>2, <3>1, <3>2, <3>4
    <3>6. QED
      BY <2>1, <3>1, <3>3, <3>5
  <2>2. CASE ~(id # NoBox /\ cred.id = id)
    BY <1>2, <2>2 DEF DeleteCred
  <2>3. QED
    BY <2>1, <2>2
<1>4. NoCred.id = NoBox /\ NoCred \in [id : Name, key : Name]
  BY DEF NoCred, Name
<1> HIDE DEF id
<1>5. Fits(p)
  <2>1. DbTypes'
    BY <1>1, <1>3, <1>4, Still DEF DbTypes
  <2>2. \A s \in Boxes : row[s] = NoRow => row'[s] = NoRow
    BY <1>3, <1>4, NoRowType DEF NoRow
  <2>3. Gentle(p)
    BY <1>3, <1>4, <2>2 DEF Gentle
  <2>4. \A s \in Boxes : row'[s].cred \in {NoBox, cred'.id}
    BY <1>3, <1>4 DEF IInv, Rows
  <2>5. Rows'
    BY <1>3, <1>2, <2>4 DEF IInv, Rows, Active, Backed
  <2>6. QED
    BY <2>1, <2>3, <2>5 DEF Fits
<1>6. ProcTypes' /\ Apart(p) /\ Goes(p, "finish")
  BY <1>1, Still, GotoGoes DEF Steps
<1>7. row'[box[p]].cred = NoBox
  <2>1. row[box[p]].cred \in {NoBox, id} /\ row[box[p]].cred \in {NoBox, cred.id}
    BY <1>1, <1>2 DEF Own, Tearing, id, IInv, Rows
  <2>2. QED
    BY <1>2, <1>3, <1>4, <2>1
<1>8. Own(p)' /\ Honest(p)
  <2>1. held[p] \in Boxes \cup {NoBox}
    BY Still DEF ProcTypes, Name
  <2>2. /\ held[p] # NoBox <=> task[p] \in Kinds
        /\ held[p] # NoBox => row'[held[p]].status # "absent"
        /\ row'[box[p]].status # "absent"
    BY <1>1, <1>2, <1>3, <2>1 DEF Own, Aimless, Making
  <2>3. QED
    BY <1>2, <1>6, <1>7, <2>2 DEF Own, Honest, Goes, Aimless, Making, Tearing
<1>9. QED
  BY <1>2, <1>5, <1>6, <1>8, AllOwn, SandboxAssumption

LEMMA FinishKeeps ==
  ASSUME IInv, NEW p \in Procs, Finish(p)
  PROVE  IInv'
<1>1. pc[p] = "finish" /\ UNCHANGED <<cloud, cred, hosts, bounds>>
  BY DEF Finish, At
<1>2. /\ Bounds' /\ row \in [Boxes -> Row] /\ Own(p)
      /\ box[p] \in Boxes /\ row[box[p]].cred = NoBox /\ row[box[p]].status # "absent"
  BY <1>1, Still DEF DbTypes, IInv, Own, Aimless, Making, bounds
<1> DEFINE r == [row[box[p]] EXCEPT !.status = "destroyed"]
<1>3. r \in Row /\ r.cred = NoBox /\ r.status = "destroyed"
  BY <1>2, RowSet DEF Statuses
<1>4. row' = [row EXCEPT ![box[p]] = r]
  BY DEF Finish
<1> HIDE DEF r
<1>5. row'[box[p]] = r /\ \A s \in Boxes \ {box[p]} : row'[s] = row[s]
  BY <1>2, <1>4
<1>6. DbTypes' /\ Gentle(p)
  BY <1>1, <1>2, <1>3, <1>4, <1>5, Still DEF DbTypes, Gentle
<1>7. ASSUME Backed PROVE Rows'
  <2>1. \A s, t \in Boxes : row'[s].status \notin Gone /\ row'[t].status \notin Gone => s = t
    BY <1>3, <1>5 DEF IInv, Rows, Active, Gone
  <2>2. QED
    BY <1>1, <1>2, <1>3, <1>5, <1>7, <2>1 DEF IInv, Rows, Active, Gone, Backed
<1>8. CASE Return(p)
  <2>1. ProcTypes' /\ JobTypes' /\ Apart(p) /\ Ends(p) /\ Backed
    BY <1>8, ReturnEnds
  <2>2. QED
    BY <1>2, <1>6, <1>7, <2>1, Ended DEF Fits
<1>9. CASE ~Return(p)
  <2>1. /\ pc' = [pc EXCEPT ![p] = "check"] /\ box' = [box EXCEPT ![p] = NoBox]
        /\ snap' = [snap EXCEPT ![p] = NoRow] /\ UNCHANGED <<task, held, jobVars>>
        /\ task[p] = "cleanup"
    BY <1>9 DEF Finish
  <2>2. JobTypes' /\ Backed
    BY <2>1, Still
  <2>3. ProcTypes' /\ Apart(p) /\ pc'[p] = "check" /\ box'[p] = NoBox /\ snap'[p] = NoRow
    BY <2>1, NoRowType, Still DEF ProcTypes, Apart, Steps, Name
  <2>4. held[p] \in Boxes \cup {NoBox} /\ held' = held /\ task' = task
    BY <2>1, Still DEF ProcTypes, Name
  <2>5. /\ held[p] # NoBox <=> task[p] \in Kinds
        /\ held[p] # NoBox => row'[held[p]].status # "absent"
    BY <1>2, <1>6, <2>4 DEF Own, Gentle
  <2>6. Own(p)' /\ Honest(p)
    BY <2>3, <2>4, <2>5, NoRowType DEF Own, Honest, Aimless, Making, Tearing
  <2>7. QED
    BY <1>2, <1>6, <1>7, <2>2, <2>3, <2>6, AllOwn, SandboxAssumption DEF Fits
<1>10. QED
  BY <1>8, <1>9

LEMMA MarkKeeps ==
  ASSUME IInv, NEW p \in Procs, Mark(p) \/ Seed(p)
  PROVE  IInv'
<1>1. CASE Mark(p)
  <2>1. /\ "delete" \in Steps /\ "delete" \notin Aimless \cup Making \cup {"finish"}
        /\ "destroying" \in Statuses \ Gone /\ pc[p] \notin Aimless \cup Making /\ pc[p] \in Tearing
    BY <1>1 DEF Mark, At, Steps, Aimless, Making, Tearing, Statuses, Gone
  <2>2. QED
    BY <1>1, <2>1, MarkedOn DEF Mark
<1>2. CASE Seed(p)
  <2>1. /\ "ssh" \in Steps /\ "ssh" \notin Aimless \cup Making \cup Tearing \cup {"finish"}
        /\ "seeding" \in Statuses \ Gone /\ pc[p] \notin Aimless \cup Making
    BY <1>2 DEF Seed, At, Steps, Aimless, Making, Tearing, Statuses, Gone
  <2>2. QED
    BY <1>2, <2>1, MarkedOn DEF Seed
<1>3. QED
  BY <1>1, <1>2

\* The steps of a job that write no row.
LEMMA JobStepKeeps ==
  ASSUME IInv, NEW p \in Procs, Guard(p) \/ Boot(p) \/ Register(p) \/ AddSeeds(p)
  PROVE  IInv'
<1>1. /\ pc[p] \notin Aimless \cup Making /\ UNCHANGED <<row, cred>>
      /\ \A l \in {"open", "register", "ready", "ttl"} :
           l \in Steps /\ l \notin Aimless \cup Making \cup Tearing \cup {"finish"}
  BY DEF Guard, Boot, Register, AddSeeds, At, Steps, Aimless, Making, Tearing, dbVars
<1>2. box[p] \in Boxes /\ row[box[p]].status # "absent"
  BY <1>1 DEF IInv, Own
<1>3. DbTypes'
  BY <1>2, Still DEF Guard, Boot, Register, AddSeeds, DbTypes, dbVars
<1>4. Bounds'
  BY Still, FaultBounds DEF Guard, Boot, Register, AddSeeds
<1>5. CASE Return(p) \/ Throw(p)
  BY <1>1, <1>3, <1>4, <1>5, EndedStill
<1>6. ASSUME NEW l \in {"open", "register", "ready", "ttl"}, Goto(p, l), JobTypes', Backed
      PROVE  IInv'
  BY <1>1, <1>3, <1>4, <1>6, OnStill
<1>7. CASE AddSeeds(p) /\ ~Throw(p)
  <2>1. (Seeding /\ Add("seed", box[p])) \/ UNCHANGED jobVars
    BY <1>7 DEF AddSeeds
  <2>2. JobTypes' /\ Backed
    BY <1>2, <2>1, Still, AddBacks DEF Kinds
  <2>3. QED
    BY <1>6, <1>7, <2>2 DEF AddSeeds
<1>8. CASE (Guard(p) \/ Boot(p) \/ Register(p)) /\ ~(Return(p) \/ Throw(p))
  <2>1. (Goto(p, "open") \/ Goto(p, "register") \/ Goto(p, "ready")) /\ UNCHANGED jobVars
    BY <1>8 DEF Guard, Boot, Register
  <2>2. QED
    BY <1>6, <2>1, Still
<1>9. QED
  BY <1>5, <1>7, <1>8

\* Those that read it.
LEMMA ReadStepKeeps ==
  ASSUME IInv, NEW p \in Procs, Load(p) \/ Open(p) \/ Look(p)
  PROVE  IInv'
<1>1. pc[p] \notin Aimless \cup Making /\ UNCHANGED dbVars /\ UNCHANGED bounds
  BY DEF Load, Open, Look, At, Aimless, Making
<1>2. CASE Return(p) \/ Throw(p)
  <2>1. DbTypes' /\ Bounds' /\ UNCHANGED <<row, cred>>
    BY <1>1, Still DEF dbVars
  <2>2. QED
    BY <1>2, <2>1, EndedStill
<1>3. CASE ~(Return(p) \/ Throw(p))
  <2>1. PICK l \in {"mark", "boot", "seed"} :
          /\ snap' = [snap EXCEPT ![p] = row[box[p]]] /\ pc' = [pc EXCEPT ![p] = l]
          /\ UNCHANGED <<task, held, box, jobVars>>
    BY <1>3 DEF Load, Open, Look
  <2>2. QED
    BY <1>1, <2>1, ReadsKeeps
<1>4. QED
  BY <1>2, <1>3

LEMMA ReadyKeeps ==
  ASSUME IInv, NEW p \in Procs, Ready(p)
  PROVE  IInv'
<1>1. pc[p] = "ready" /\ pc[p] \notin Aimless \cup Making /\ UNCHANGED <<cloud, cred, hosts, bounds>>
  BY DEF Ready, At, Aimless, Making
<1>2. box[p] \in Boxes /\ row[box[p]] \in Row /\ Bounds' /\ hosts' \subseteq Boxes
  BY <1>1, Still DEF IInv, Own, DbTypes
<1>3. CASE Clash(box[p])
  <2>1. Throw(p) /\ UNCHANGED <<row, cred>> /\ UNCHANGED dbVars
    BY <1>1, <1>3 DEF Ready, dbVars
  <2>2. QED
    BY <1>2, <2>1, Still, EndedStill
<1>4. CASE ~Clash(box[p])
  <2> DEFINE x == [row[box[p]] EXCEPT !.status = "ready"]
             y == [x EXCEPT !.ip = TRUE]
             r == [y EXCEPT !.host = TRUE]
  <2>1. x \in Row /\ x.cred = row[box[p]].cred /\ x.status = "ready"
    BY <1>2 DEF Row, Statuses
  <2>2. /\ Goto(p, "seeds") /\ UNCHANGED jobVars
        /\ row' = [row EXCEPT ![box[p]] = r]
    BY <1>4 DEF Ready
  <2> HIDE DEF x
  <2>3. y \in Row /\ y.cred = x.cred /\ y.status = x.status
    BY <2>1 DEF Row
  <2> HIDE DEF y
  <2>4. r \in Row /\ r.cred = y.cred /\ r.status = y.status
    BY <2>3 DEF Row
  <2> HIDE DEF r
  <2>5. JobTypes' /\ Backed /\ r.status \notin Gone
    BY <2>1, <2>2, <2>3, <2>4, Still DEF Gone
  <2>6. Fits(p)
    BY <1>1, <1>2, <1>4, <2>1, <2>2, <2>3, <2>4, <2>5, FitsWritten, SandboxAssumption
  <2>7. "seeds" \in Steps /\ "seeds" \notin Aimless \cup Making \cup Tearing \cup {"finish"}
    BY DEF Steps, Aimless, Making, Tearing
  <2>8. QED
    BY <1>1, <1>2, <2>2, <2>5, <2>6, <2>7, GoneOn
<1>5. QED
  BY <1>3, <1>4

LEMMA SshKeeps ==
  ASSUME IInv, NEW p \in Procs, Ssh(p)
  PROVE  IInv'
<1>1. /\ pc[p] \notin Aimless \cup Making /\ UNCHANGED <<cloud, cred, hosts>>
      /\ row' = IF Clash(box[p]) THEN row ELSE [row EXCEPT ![box[p]].status = "ready"]
      /\ Return(p) \/ Throw(p)
  BY DEF Ssh, At, Aimless, Making
<1>2. Bounds'
  BY Still, FaultBounds DEF Ssh
<1>3. CASE Clash(box[p])
  <2>1. UNCHANGED dbVars /\ UNCHANGED <<row, cred>>
    BY <1>1, <1>3 DEF dbVars
  <2>2. QED
    BY <1>1, <1>2, <2>1, Still, EndedStill
<1>4. CASE ~Clash(box[p])
  <2>1. ProcTypes' /\ JobTypes' /\ Apart(p) /\ Ends(p) /\ Backed
    BY <1>1, ReturnEnds, ThrowEnds
  <2>2. "ready" \in Statuses \ Gone
    BY DEF Statuses, Gone
  <2>3. Fits(p)
    BY <1>1, <1>4, <2>1, <2>2, FitsStatus
  <2>4. QED
    BY <1>2, <2>1, <2>3, Ended
<1>5. QED
  BY <1>3, <1>4

LEMMA CrashKeeps ==
  ASSUME IInv, NEW p \in Procs, Crash(p)
  PROVE  IInv'
<1>1. UNCHANGED <<row, cred>> /\ DbTypes' /\ Release(p) /\ UNCHANGED tries
  BY Still DEF Crash, dbVars
<1>2. ProcTypes' /\ Apart(p) /\ Ends(p)
  BY <1>1, Still, ReleaseEnds
<1>3. PICK v \in {"failed", "waiting"} : End(p, v)
  BY DEF Crash
<1>4. job' \in [Kinds -> [Boxes -> States]] /\ Backed
  BY <1>3, EndBacks DEF States
<1>5. stalled' \subseteq Kinds \X Boxes
  <2>1. held[p] \in Boxes \cup {NoBox} /\ stalled \subseteq Kinds \X Boxes
    BY Still DEF ProcTypes, JobTypes, Name
  <2>2. held[p] # NoBox => task[p] \in Kinds
    BY DEF IInv, Own
  <2>3. QED
    BY <2>1, <2>2 DEF Crash
<1>6. JobTypes' /\ Bounds'
  BY <1>1, <1>4, <1>5, Still DEF Crash, JobTypes, Bounds
<1>7. Fits(p)
  BY <1>1, <1>4, FitsSame
<1>8. QED
  BY <1>2, <1>6, <1>7, Ended

LEMMA BootedKeeps ==
  ASSUME IInv, NEW s \in Boxes, BecomeActive(s)
  PROVE  IInv'
<1>1. UNCHANGED <<row, cred, hosts, jobVars, procVars, bounds>> /\ cloud' = [cloud EXCEPT ![s] = "active"]
  BY DEF BecomeActive
<1>2. TypeOK'
  BY <1>1 DEF IInv, TypeOK, jobVars, procVars, bounds
<1>3. Rows' /\ \A q \in Procs : Own(q)'
  BY <1>1 DEF IInv, Rows, Own, Active, Gone, jobVars, procVars
<1>4. QED
  BY <1>2, <1>3 DEF IInv

LEMMA Initially == Init => IInv
<1> SUFFICES ASSUME Init PROVE IInv
  OBVIOUS
<1>1. NoCred.id = NoBox /\ NoCred \in [id : Boxes \cup {NoBox}, key : Boxes \cup {NoBox}]
  BY DEF NoCred
<1>2. TypeOK
  BY <1>1, NoRowType DEF Init, TypeOK, Steps
<1>3. Rows
  BY NoRowType DEF Init, Rows, Active, Gone, Kinds
<1>4. \A p \in Procs : Own(p)
  BY NoRowType DEF Init, Own, Aimless, Making, Tearing, Kinds
<1>5. QED
  BY <1>2, <1>3, <1>4 DEF IInv

LEMMA Inductive == IInv /\ [Next]_vars => IInv'
<1> SUFFICES ASSUME IInv, [Next]_vars PROVE IInv'
  OBVIOUS
<1>1. CASE \E p \in Webs, r \in Requests : Request(p, r)
  BY <1>1, RequestKeeps
<1>2. CASE \E p \in Slots, k \in Kinds, s \in Boxes : Take(p, k, s)
  BY <1>2, TakeKeeps
<1>3. ASSUME NEW p \in Procs, Step(p) PROVE IInv'
  BY <1>3, CheckKeeps, StoreKeyKeeps, InsertRowKeeps, CreateDropletKeeps, RecordDropletKeeps,
     AddProvisionKeeps, AddCleanupKeeps, PickKeeps, ReadStepKeeps, MarkKeeps, DeleteDropletKeeps,
     DeleteHostKeeps, DeleteCredKeeps, FinishKeeps, JobStepKeeps, ReadyKeeps, SshKeeps
     DEF Step
<1>4. ASSUME NEW p \in Procs, Crash(p) PROVE IInv'
  BY <1>4, CrashKeeps
<1>5. ASSUME NEW s \in Boxes, BecomeActive(s) PROVE IInv'
  BY <1>5, BootedKeeps
<1>6. CASE UNCHANGED vars
  <2>1. TypeOK'
    BY <1>6 DEF IInv, TypeOK, vars, dbVars, jobVars, procVars, bounds
  <2>2. Rows' /\ \A q \in Procs : Own(q)'
    BY <1>6 DEF IInv, Rows, Own, Active, Gone, vars, dbVars, jobVars, procVars
  <2>3. QED
    BY <2>1, <2>2 DEF IInv
<1>7. QED
  BY <1>1, <1>2, <1>3, <1>4, <1>5, <1>6 DEF Next

\* The rows, jobs and handlers of sandbox-provisioner.ts and worker/sandbox keep
\* their types: no step works without the sandbox, row or job it needs.
THEOREM TypeCorrect == Spec => []TypeOK
<1>1. IInv => TypeOK
  BY DEF IInv
<1>2. QED
  BY Initially, Inductive, <1>1, PTL DEF Spec
-----------------------------------------------------------------------------
(* What a step may touch.                                                  *)

\* A row, a host registration or a droplet of another sandbox stays, in a step
\* on a row and in one on the cloud; a deleted credential is nobody else's.
LEMMA OthersStay ==
  ASSUME IInv, NEW p \in Procs, Step(p), NEW s \in Boxes, s # box[p]
  PROVE  row'[s] = row[s] /\ cloud'[s] = cloud[s] /\ (s \in hosts => s \in hosts')
<1>t. row \in [Boxes -> Row] /\ cloud \in [Boxes -> {"none", "booting", "active", "gone"}]
  BY Still DEF DbTypes
<1>1. CASE UNCHANGED <<row, cloud, hosts>>
  BY <1>1
<1>2. CASE InsertRow(p) \/ RecordDroplet(p) \/ Mark(p) \/ Finish(p) \/ Ready(p) \/ Seed(p) \/ Ssh(p)
  <2>1. UNCHANGED <<cloud, hosts>>
    BY <1>2 DEF InsertRow, RecordDroplet, Mark, Finish, Ready, Seed, Ssh
  <2>2. row' = row \/ \E r : row' = [row EXCEPT ![box[p]] = r]
    BY <1>2 DEF InsertRow, RecordDroplet, Mark, Finish, Ready, Seed, Ssh
  <2>3. QED
    BY <1>t, <2>1, <2>2
<1>3. CASE CreateDroplet(p)
  BY <1>t, <1>3 DEF CreateDroplet
<1>4. CASE DeleteDroplet(p)
  BY <1>t, <1>4 DEF DeleteDroplet
<1>5. CASE DeleteHost(p)
  BY <1>t, <1>5 DEF DeleteHost
<1>6. CASE Register(p)
  BY <1>6 DEF Register
<1>7. CASE DeleteCred(p)
  <2>1. pc[p] = "uncred" /\ UNCHANGED <<cloud, hosts>>
    BY <1>7 DEF DeleteCred, At
  <2>2. CASE snap[p].cred # NoBox /\ cred.id = snap[p].cred
    <3>1. row[s].cred # snap[p].cred
      BY <2>1, <2>2, CredIsOwn
    <3>2. row' = [t \in Boxes |-> IF row[t].cred = snap[p].cred
                                  THEN [row[t] EXCEPT !.cred = NoBox] ELSE row[t]]
      BY <1>7, <2>2 DEF DeleteCred
    <3>3. QED
      BY <2>1, <3>1, <3>2
  <2>3. CASE ~(snap[p].cred # NoBox /\ cred.id = snap[p].cred)
    BY <1>7, <2>1, <2>3 DEF DeleteCred
  <2>4. QED
    BY <2>2, <2>3
<1>8. QED
  BY <1>1, <1>2, <1>3, <1>4, <1>5, <1>6, <1>7
     DEF Step, Check, StoreKey, AddProvision, AddCleanup, Pick, Load, Guard, Open, Boot,
         AddSeeds, Look, dbVars

\* What a step, in the hands of nobody, leaves alone.
Touched(s) ==
  row'[s] # row[s] \/ (s \in hosts /\ s \notin hosts') \/ (Live(s) /\ ~Live(s)')

LEMMA InSomeHands ==
  ASSUME IInv, [Next]_vars, NEW s \in Boxes, Touched(s)
  PROVE  \E p \in Procs : box[p] = s
<1>1. ASSUME NEW p \in Procs, Step(p) PROVE box[p] = s
  BY <1>1, OthersStay DEF Touched, Live
<1>2. ASSUME UNCHANGED dbVars PROVE FALSE
  BY <1>2 DEF Touched, Live, dbVars
<1>3. ASSUME NEW t \in Boxes, BecomeActive(t) PROVE FALSE
  BY <1>3, Still DEF BecomeActive, Touched, Live, DbTypes
<1>4. QED
  BY <1>1, <1>2, <1>3 DEF Next, Request, Take, Crash, vars

\* destroySandbox and the jobs write and delete what belongs to the sandbox they
\* were called for, although they work from a row read before, and a credential
\* deleted by its id takes no other row with it.
THEOREM OnlyItsOwn == Spec => OthersUntouched
<1>1. IInv /\ [Next]_vars =>
        [\A s \in Boxes :
           row'[s] # row[s] \/ (s \in hosts /\ s \notin hosts')
           \/ (Live(s) /\ ~Live(s)') =>
             \E p \in Procs : box[p] = s]_vars
  BY InSomeHands DEF Touched
<1>2. QED
  BY Initially, Inductive, <1>1, PTL DEF Spec, OthersUntouched
-----------------------------------------------------------------------------
(* The key of the tenant's credential.                                     *)

\* The row that names the credential has its key; while a call is before its
\* insert no row names it, and what the call has stored is its own key.
Fit ==
  /\ \A s \in Boxes : row[s].cred # NoBox => cred.key = s
  /\ \A p \in Procs : pc[p] \in Making => \A s \in Boxes : row[s].cred = NoBox
  /\ \A p \in Procs : pc[p] = "insert" /\ snap[p].cred # NoBox /\ cred.id = snap[p].cred =>
       cred.key = box[p]

\* A step that stores no key and inserts no row.
Unmade(p) ==
  /\ pc'[p] \notin Making
  /\ \A q \in Procs \ {p} : pc'[q] = pc[q] /\ box'[q] = box[q] /\ snap'[q] = snap[q]

LEMMA GotoUnmade ==
  ASSUME IInv, NEW p \in Procs, NEW l \in Steps \ Making, Goto(p, l) PROVE Unmade(p)
BY Still DEF Goto, Unmade, ProcTypes

LEMMA EndUnmade ==
  ASSUME IInv, NEW p \in Procs, Release(p) \/ Return(p) \/ Throw(p) PROVE Unmade(p)
<1>1. Apart(p) /\ Ends(p)
  BY Still, ReleaseEnds, ReturnEnds, ThrowEnds
<1>2. QED
  BY <1>1 DEF Apart, Ends, Unmade, Making

\* A step of one process that is not of the three below stores no key, inserts no
\* row and begins no call.
Plain(p) ==
  /\ Unmade(p)
  /\ \A s \in Boxes : row'[s].cred \in {row[s].cred, NoBox}
  /\ cred' = cred \/ cred'.id = NoBox

LEMMA PlainStep ==
  ASSUME IInv, NEW p \in Procs, Step(p), ~Check(p), ~StoreKey(p), ~InsertRow(p)
  PROVE  Plain(p)
<1>t. row \in [Boxes -> Row] /\ cred \in [id : Name, key : Name] /\ NoCred.id = NoBox
  BY Still DEF DbTypes, NoCred
<1>m. \A l \in Steps \ Making : Goto(p, l) => Unmade(p)
  BY GotoUnmade
<1>s. {"record", "activate", "ttl", "delete", "unhost", "uncred", "finish", "open", "register", "ready",
       "seeds", "ssh", "load", "mark", "boot", "seed", "check", "create"} \subseteq Steps \ Making
  BY DEF Steps, Making
<1>1. ASSUME UNCHANGED <<row, cred>>, Unmade(p) PROVE Plain(p)
  BY <1>1 DEF Plain
<1>2. ASSUME row' = row \/ \E r \in Row : r.cred = row[box[p]].cred /\ row' = [row EXCEPT ![box[p]] = r],
             cred' = cred, Unmade(p)
      PROVE  Plain(p)
  BY <1>t, <1>2 DEF Plain
<1>b. pc[p] \notin Aimless => box[p] \in Boxes /\ row[box[p]] \in Row
  BY <1>t DEF IInv, Own
<1>3. CASE CreateDroplet(p)
  <2>1. Unmade(p) /\ cred' = cred
    BY <1>3, <1>m, <1>s, EndUnmade DEF CreateDroplet
  <2>2. box[p] \in Boxes /\ row[box[p]] \in Row
    BY <1>3, <1>b DEF CreateDroplet, At, Aimless
  <2> DEFINE r == [row[box[p]] EXCEPT !.status = "error"]
  <2>3. r \in Row /\ r.cred = row[box[p]].cred
    BY <2>2, RowSet DEF Statuses
  <2>4. row' = row \/ row' = [row EXCEPT ![box[p]] = r]
    BY <1>3 DEF CreateDroplet
  <2> HIDE DEF r
  <2>5. QED
    BY <1>2, <2>1, <2>3, <2>4
<1>4. CASE RecordDroplet(p)
  <2>1. Unmade(p) /\ cred' = cred
    BY <1>4, <1>m, <1>s DEF RecordDroplet
  <2>2. box[p] \in Boxes /\ row[box[p]] \in Row
    BY <1>4, <1>b DEF RecordDroplet, At, Aimless
  <2> DEFINE r == [row[box[p]] EXCEPT !.droplet = TRUE]
  <2>3. r \in Row /\ r.cred = row[box[p]].cred /\ row' = [row EXCEPT ![box[p]] = r]
    BY <1>4, <2>2 DEF RecordDroplet, Row
  <2> HIDE DEF r
  <2>4. QED
    BY <1>2, <2>1, <2>3
<1>5. CASE Mark(p) \/ Seed(p) \/ Ssh(p)
  <2>1. Unmade(p) /\ cred' = cred
    BY <1>5, <1>m, <1>s, EndUnmade DEF Mark, Seed, Ssh
  <2>2. box[p] \in Boxes /\ row[box[p]] \in Row
    BY <1>5, <1>b DEF Mark, Seed, Ssh, At, Aimless
  <2>3. PICK st \in Statuses : row' = row \/ row' = [row EXCEPT ![box[p]].status = st]
    BY <1>5 DEF Mark, Seed, Ssh, Statuses
  <2> DEFINE r == [row[box[p]] EXCEPT !.status = st]
  <2>4. r \in Row /\ r.cred = row[box[p]].cred /\ (row' = row \/ row' = [row EXCEPT ![box[p]] = r])
    BY <2>2, <2>3, RowSet
  <2> HIDE DEF r
  <2>5. QED
    BY <1>2, <2>1, <2>4
<1>6. CASE Ready(p)
  <2>1. Unmade(p) /\ cred' = cred
    BY <1>6, <1>m, <1>s, EndUnmade DEF Ready
  <2>2. box[p] \in Boxes /\ row[box[p]] \in Row
    BY <1>6, <1>b DEF Ready, At, Aimless
  <2> DEFINE x == [row[box[p]] EXCEPT !.status = "ready"]
             y == [x EXCEPT !.ip = TRUE]
             r == [y EXCEPT !.host = TRUE]
  <2>3. x \in Row /\ x.cred = row[box[p]].cred
    BY <2>2, RowSet DEF Statuses
  <2>4. row' = row \/ row' = [row EXCEPT ![box[p]] = r]
    BY <1>6 DEF Ready
  <2> HIDE DEF x
  <2>5. y \in Row /\ y.cred = x.cred
    BY <2>3 DEF Row
  <2> HIDE DEF y
  <2>6. r \in Row /\ r.cred = y.cred
    BY <2>5 DEF Row
  <2> HIDE DEF r
  <2>7. QED
    BY <1>2, <2>1, <2>3, <2>4, <2>5, <2>6
<1>7. CASE Finish(p)
  <2>1. Unmade(p) /\ cred' = cred
    <3>1. CASE Return(p)
      BY <1>7, <3>1, EndUnmade DEF Finish
    <3>2. CASE ~Return(p)
      BY <1>7, <3>2, <1>s, Still DEF Finish, Unmade, ProcTypes
    <3>3. QED
      BY <3>1, <3>2
  <2>2. box[p] \in Boxes /\ row[box[p]] \in Row
    BY <1>7, <1>b DEF Finish, At, Aimless
  <2> DEFINE r == [row[box[p]] EXCEPT !.status = "destroyed"]
  <2>3. r \in Row /\ r.cred = row[box[p]].cred /\ row' = [row EXCEPT ![box[p]] = r]
    BY <1>7, <2>2, RowSet DEF Finish, Statuses
  <2> HIDE DEF r
  <2>4. QED
    BY <1>2, <2>1, <2>3
<1>8. CASE DeleteHost(p)
  <2>1. Unmade(p) /\ cred' = cred
    BY <1>8, <1>m, <1>s DEF DeleteHost
  <2>2. box[p] \in Boxes /\ row[box[p]] \in Row
    BY <1>8, <1>b DEF DeleteHost, At, Aimless
  <2> DEFINE r == [row[box[p]] EXCEPT !.host = FALSE]
  <2>3. r \in Row /\ r.cred = row[box[p]].cred /\ (row' = row \/ row' = [row EXCEPT ![box[p]] = r])
    BY <1>8, <2>2 DEF DeleteHost, Row
  <2> HIDE DEF r
  <2>4. QED
    BY <1>2, <2>1, <2>3
<1>9. CASE DeleteCred(p)
  <2>1. Unmade(p)
    BY <1>9, <1>m, <1>s DEF DeleteCred
  <2>2. CASE snap[p].cred # NoBox /\ cred.id = snap[p].cred
    <3>1. cred' = NoCred /\ row' = [s \in Boxes |-> IF row[s].cred = snap[p].cred
                                                   THEN [row[s] EXCEPT !.cred = NoBox] ELSE row[s]]
      BY <1>9, <2>2 DEF DeleteCred
    <3>2. \A x \in Row : [x EXCEPT !.cred = NoBox].cred = NoBox
      BY DEF Row
    <3>3. \A s \in Boxes : row'[s].cred \in {row[s].cred, NoBox}
      BY <1>t, <3>1, <3>2
    <3>4. QED
      BY <1>t, <2>1, <3>1, <3>3 DEF Plain
  <2>3. CASE ~(snap[p].cred # NoBox /\ cred.id = snap[p].cred)
    BY <1>1, <1>9, <2>1, <2>3 DEF DeleteCred
  <2>4. QED
    BY <2>2, <2>3
<1>10. CASE AddProvision(p) \/ AddCleanup(p) \/ Guard(p) \/ Boot(p) \/ Register(p) \/ AddSeeds(p)
            \/ DeleteDroplet(p)
  BY <1>1, <1>10, <1>m, <1>s, EndUnmade
     DEF AddProvision, AddCleanup, Guard, Boot, Register, AddSeeds, DeleteDroplet, dbVars
<1>11. CASE Pick(p) \/ Load(p) \/ Open(p) \/ Look(p)
  <2>1. UNCHANGED <<row, cred>>
    BY <1>11 DEF Pick, Load, Open, Look, dbVars
  <2>2. CASE Return(p) \/ Throw(p)
    BY <1>1, <2>1, <2>2, EndUnmade
  <2>3. CASE ~(Return(p) \/ Throw(p))
    <3>1. PICK l \in {"load", "mark", "boot", "seed"} : pc' = [pc EXCEPT ![p] = l]
      BY <1>11, <2>3 DEF Pick, Load, Open, Look
    <3>2. \A q \in Procs \ {p} : box'[q] = box[q] /\ snap'[q] = snap[q]
      BY <1>11, <2>3, Still DEF Pick, Load, Open, Look, ProcTypes
    <3>3. Unmade(p)
      BY <1>s, <3>1, <3>2, Still DEF Unmade, ProcTypes
    <3>4. QED
      BY <1>1, <2>1, <3>3
  <2>4. QED
    BY <2>2, <2>3
<1>12. QED
  BY <1>3, <1>4, <1>5, <1>6, <1>7, <1>8, <1>9, <1>10, <1>11 DEF Step

LEMMA PlainFits ==
  ASSUME IInv, Fit, NEW p \in Procs, Plain(p), IInv'
  PROVE  Fit'
<1>1. \A s \in Boxes : row'[s].cred # NoBox => row'[s].cred = row[s].cred /\ cred' = cred
  BY DEF Plain, IInv, Rows
<1>2. \A s \in Boxes : row'[s].cred # NoBox => cred'.key = s
  BY <1>1 DEF Fit
<1>3. \A q \in Procs : pc'[q] \in Making =>
        /\ q # p /\ pc'[q] = pc[q] /\ box'[q] = box[q] /\ snap'[q] = snap[q]
  BY DEF Plain, Unmade
<1>4. \A q \in Procs : pc'[q] \in Making => \A s \in Boxes : row'[s].cred = NoBox
  BY <1>1, <1>3 DEF Fit
<1>5. \A q \in Procs : pc'[q] = "insert" /\ snap'[q].cred # NoBox /\ cred'.id = snap'[q].cred =>
        cred'.key = box'[q]
  BY <1>3 DEF Fit, Plain, Making
<1>6. QED
  BY <1>2, <1>4, <1>5 DEF Fit

LEMMA CheckFits ==
  ASSUME IInv, Fit, NEW p \in Procs, Check(p)
  PROVE  Fit'
<1>1. UNCHANGED <<row, cred, snap>>
  BY DEF Check, dbVars
<1>2. \A q \in Procs \ {p} : pc'[q] = pc[q] /\ box'[q] = box[q]
  BY Still DEF Check, ProcTypes
<1>3. pc'[p] \in {"activate", "key"} /\ (pc'[p] = "key" => \A s \in Boxes : ~Active(s))
  BY Still DEF Check, ProcTypes
<1>4. pc'[p] \in Making => \A s \in Boxes : row[s].cred = NoBox
  BY <1>3 DEF Making, IInv, Rows
<1>5. pc'[p] # "insert"
  BY <1>3
<1>6. QED
  BY <1>1, <1>2, <1>4, <1>5 DEF Fit

LEMMA StoreKeyFits ==
  ASSUME IInv, Fit, OneAtATime, NEW p \in Procs, StoreKey(p)
  PROVE  Fit'
<1>1. pc[p] = "key" /\ UNCHANGED <<row, box>> /\ cred'.key = box[p]
  BY DEF StoreKey, At
<1>2. \A s \in Boxes : row[s].cred = NoBox
  BY <1>1 DEF Fit, Making
<1>3. \A q \in Procs \ {p} : pc'[q] = pc[q] /\ pc[q] \notin Making
  BY <1>1, Still DEF StoreKey, ProcTypes, OneAtATime, Making
<1>4. \A q \in Procs : pc'[q] = "insert" => q = p
  BY <1>3 DEF Making
<1>5. QED
  BY <1>1, <1>2, <1>4 DEF Fit

LEMMA InsertRowFits ==
  ASSUME IInv, Fit, OneAtATime, NEW p \in Procs, InsertRow(p)
  PROVE  Fit'
<1>1. pc[p] = "insert" /\ cred' = cred /\ \A s \in Boxes : row[s].cred = NoBox
  BY DEF InsertRow, At, Fit, Making
<1>2. CASE Throw(p) /\ UNCHANGED row
  <2>1. Plain(p)
    BY <1>1, <1>2, EndUnmade DEF Plain
  <2>2. IInv'
    BY InsertRowKeeps
  <2>3. QED
    BY <2>1, <2>2, PlainFits
<1>3. CASE ~(Throw(p) /\ UNCHANGED row)
  <2> DEFINE r == [NoRow EXCEPT !.status = "provisioning", !.cred = snap[p].cred]
  <2>1. row' = [row EXCEPT ![box[p]] = r] /\ Goto(p, "create") /\ cred.id = snap[p].cred
    BY <1>3 DEF InsertRow
  <2>2. r.cred = snap[p].cred
    BY DEF NoRow
  <2> HIDE DEF r
  <2>3. Unmade(p)
    BY <2>1, GotoUnmade DEF Steps, Making
  <2>4. \A q \in Procs : pc'[q] \notin Making
    BY <1>1, <2>3 DEF Unmade, OneAtATime, Making
  <2>5. \A s \in Boxes : row'[s].cred # NoBox => s = box[p] /\ snap[p].cred # NoBox
    BY <1>1, <2>1, <2>2, Still DEF DbTypes
  <2>6. \A s \in Boxes : row'[s].cred # NoBox => cred'.key = s
    BY <1>1, <2>1, <2>5 DEF Fit
  <2>7. QED
    BY <2>4, <2>6 DEF Fit, Making
<1>4. QED
  BY <1>2, <1>3

LEMMA FitInductive == IInv /\ Fit /\ OneAtATime /\ [Next]_vars => Fit'
<1> SUFFICES ASSUME IInv, Fit, OneAtATime, [Next]_vars PROVE Fit'
  OBVIOUS
<1>i. IInv'
  BY Inductive
<1>1. ASSUME NEW p \in Procs, Step(p) PROVE Fit'
  BY <1>1, <1>i, CheckFits, StoreKeyFits, InsertRowFits, PlainStep, PlainFits
<1>2. ASSUME NEW p \in Procs, UNCHANGED <<row, cred>>, Unmade(p) PROVE Fit'
  BY <1>2, <1>i, PlainFits DEF Plain
<1>3. ASSUME NEW p \in Procs, Crash(p) PROVE Fit'
  BY <1>2, <1>3, EndUnmade DEF Crash, dbVars
<1>4. ASSUME NEW p \in Webs, NEW r \in Requests, Request(p, r) PROVE Fit'
  <2>1. UNCHANGED <<row, cred, box, snap>> /\ \A q \in Procs : pc'[q] \in Making => pc'[q] = pc[q]
    BY <1>4, Still DEF Request, ProcTypes, Procs, Making, dbVars
  <2>2. QED
    BY <2>1 DEF Fit, Making
<1>5. ASSUME NEW p \in Slots, NEW k \in Kinds, NEW s \in Boxes, Take(p, k, s) PROVE Fit'
  <2>1. UNCHANGED <<row, cred, snap>> /\ p \in Procs /\ pc[p] = "idle"
    BY <1>5 DEF Take, dbVars, Procs, At
  <2>2. pc' = [pc EXCEPT ![p] = CASE k = "provision" -> "guard" [] k = "seed" -> "look" [] k = "cleanup" -> "load"]
    BY <1>5 DEF Take
  <2>3. (CASE k = "provision" -> "guard" [] k = "seed" -> "look" [] k = "cleanup" -> "load")
          \in {"guard", "look", "load"}
    BY DEF Kinds
  <2>4. pc'[p] \notin Making /\ \A q \in Procs \ {p} : pc'[q] = pc[q]
    BY <2>1, <2>2, <2>3, Still DEF ProcTypes, Making
  <2>5. \A q \in Procs \ {p} : box'[q] = box[q]
    BY <1>5, Still DEF Take, ProcTypes
  <2>6. Unmade(p)
    BY <2>1, <2>4, <2>5 DEF Unmade
  <2>7. QED
    BY <1>2, <2>1, <2>6
<1>6. CASE UNCHANGED <<row, cred, pc, box, snap>>
  BY <1>6 DEF Fit
<1>7. QED
  BY <1>1, <1>3, <1>4, <1>5, <1>6 DEF Next, BecomeActive, vars, dbVars, procVars

\* provisionSandbox replaces the tenant's key before it knows whether it may
\* insert a sandbox, and yet, as long as no two of its calls overlap between check
\* and insert, the key that a ready sandbox names is its own.
THEOREM KeyFitsThen == Spec => KeyFitsAlone
<1>1. Init => Fit
  BY NoRowType DEF Init, Fit, Making
<1>2. Fit => KeyFits
  BY DEF Fit, KeyFits
<1>3. QED
  BY Initially, Inductive, FitInductive, <1>1, <1>2, PTL DEF Spec, KeyFitsAlone
=============================================================================
