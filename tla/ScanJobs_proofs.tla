-------------------------- MODULE ScanJobs_proofs --------------------------
(***************************************************************************)
(* ScanJobs for any number of instances, workers and scans, without the    *)
(* bounds of the model-checking runs: its types, the honesty of its        *)
(* success reports, the contract of the scan API it keeps, what the        *)
(* SIGTERM drain knows, where scans run in process that a scan has one     *)
(* verdict, and until a process dies that what BullMQ calls completed is   *)
(* recorded.                                                               *)
(***************************************************************************)
EXTENDS ScanJobs, SequenceTheorems, TLAPS

\* A slot in use, or whose timer is set, has a process and a scan.
Slots ==
  \A e \in Execs :
    phase[e] # "free" \/ timer[e] # "off" => host[e] \in Procs /\ scan[e] \in Jobs

\* Real work is done only for a scan that was handed to the queue or begun in
\* process.
Sent(j) == dispatch[j] \in {"queue", "inline"}
Undertaken ==
  /\ \A j \in Jobs : bull[j] # "absent" \/ owner[j] # NoOne => dispatch[j] = "queue"
  /\ \A e \in Execs : phase[e] # "free" \/ timer[e] # "off" => Sent(scan[e])

\* A copy of a record has a verdict only when the scan was undertaken, claims
\* success only after the drift was handed over, and lacks the real mark while open
\* only when the scan is a sample.
Honest(r, j) ==
  /\ Resolved(r) => Sent(j)
  /\ r.status = "succeeded" => handed[j]
  /\ r.status = "open" /\ ~r.real => dispatch[j] = "sample"

\* A pending reply carries an honest copy, and its verdict is earned.
HonestCall(c) ==
  /\ Honest(c.copy, c.job)
  /\ c.op = "resolve" => Sent(c.job)
  /\ c.op = "resolve" /\ c.status = "succeeded" => handed[c.job]

HonestState ==
  /\ \A p \in Procs, j \in Jobs : Honest(store[p][j], j)
  /\ \A j \in Jobs : Honest(redis[j], j)
  /\ \A p \in Procs : \A i \in 1..Len(calls[p]) : HonestCall(calls[p][i])
  /\ \A e \in Execs : phase[e] = "handed" => handed[scan[e]]

IInv == TypeOK /\ Slots /\ Undertaken /\ HonestState /\ NoPhantomSuccess
-----------------------------------------------------------------------------
(* Types.                                                                  *)

LEMMA RecordTypes ==
  /\ NoRec \in Record
  /\ \A a, b \in Record : PickNewer(a, b) \in {a, b}
<1>1. NoRec \in Record
  BY DEF NoRec, Record
<1>2. ASSUME NEW a \in Record, NEW b \in Record
      PROVE  PickNewer(a, b) \in {a, b}
  BY SMT DEF PickNewer, Record, Known, Resolved, Terminal
<1>3. QED
  BY <1>1, <1>2

LEMMA PublishTypes ==
  ASSUME TypeOK, NEW p \in Procs, NEW j \in Jobs, NEW r \in Record,
         Publish(p, j, r)
  PROVE  /\ redis' \in [Jobs -> Record]
         /\ conn' \in [Procs -> {"wait", "connecting", "ready"}]
  BY DEF TypeOK, Publish, UseClient

LEMMA ResolveTypes ==
  ASSUME TypeOK, NEW p \in Procs, NEW j \in Jobs, NEW copy \in Record,
         NEW s \in Terminal, Resolve(p, j, copy, s)
  PROVE  /\ store' \in [Procs -> [Jobs -> Record]]
         /\ redis' \in [Jobs -> Record]
         /\ conn' \in [Procs -> {"wait", "connecting", "ready"}]
         /\ clock' \in Nat
<1> DEFINE r == [real |-> copy.real, status |-> s, at |-> clock + 1]
<1>1. CASE Resolved(copy)
  BY <1>1 DEF Resolve, TypeOK
<1>2. CASE ~Resolved(copy)
  <2>1. r \in Record
    BY DEF TypeOK, Record
  <2>2. /\ clock' = clock + 1
        /\ store' = [store EXCEPT ![p][j] = r]
        /\ Publish(p, j, r)
    BY <1>2 DEF Resolve
  <2> HIDE DEF r
  <2>3. store' \in [Procs -> [Jobs -> Record]]
    BY <2>1, <2>2 DEF TypeOK
  <2>4. QED
    BY <2>1, <2>2, <2>3, PublishTypes DEF TypeOK
<1>3. QED
  BY <1>1, <1>2

LEMMA CallResolveTypes ==
  ASSUME TypeOK, NEW p \in Procs, NEW j \in Jobs, NEW s \in Terminal,
         NEW e \in Execs \cup {NoOne}, CallResolve(p, j, s, e)
  PROVE  /\ store' \in [Procs -> [Jobs -> Record]]
         /\ redis' \in [Jobs -> Record]
         /\ conn' \in [Procs -> {"wait", "connecting", "ready"}]
         /\ calls' \in [Procs -> Seq(Call)]
         /\ clock' \in Nat
<1> DEFINE c == [op |-> "resolve", job |-> j, status |-> s, by |-> e,
                 copy |-> redis[j]]
<1>1. CASE MustFetch(p, j)
  <2>1. c \in Call
    BY DEF Call, TypeOK
  <2>2. /\ calls' = [calls EXCEPT ![p] = Append(@, c)]
        /\ UNCHANGED <<store, redis, conn, clock>>
    BY <1>1 DEF CallResolve
  <2> HIDE DEF c
  <2>3. Append(calls[p], c) \in Seq(Call)
    BY <2>1 DEF TypeOK
  <2>4. QED
    BY <2>2, <2>3 DEF TypeOK
<1>2. CASE ~MustFetch(p, j)
  <2>1. Resolve(p, j, store[p][j], s) /\ UNCHANGED calls
    BY <1>2 DEF CallResolve
  <2>2. store[p][j] \in Record
    BY DEF TypeOK
  <2>3. QED
    BY <2>1, <2>2, ResolveTypes DEF TypeOK
<1>3. QED
  BY <1>1, <1>2

LEMMA DoneTypes ==
  ASSUME TypeOK, NEW p \in Procs, NEW j \in Jobs, Done(p, j)
  PROVE  running' \in [Procs -> SUBSET Jobs]
<1>1. running[p] \ {j} \in SUBSET Jobs
  BY DEF TypeOK
<1>2. QED
  BY <1>1 DEF Done, TypeOK

LEMMA FinishTypes ==
  ASSUME TypeOK, NEW e \in Execs, NEW ok \in BOOLEAN, Finish(e, ok)
  PROVE  /\ bull' \in [Jobs -> BullStates]
         /\ tries' \in [Jobs -> Nat]
         /\ stalls' \in [Jobs -> Nat]
         /\ owner' \in [Jobs -> Execs \cup {NoOne}]
BY DEF Finish, TypeOK, BullStates

LEMMA TypeInit == Init => TypeOK /\ Slots
<1> SUFFICES ASSUME Init PROVE TypeOK /\ Slots
  OBVIOUS
<1>1. calls \in [Procs -> Seq(Call)]
  BY DEF Init
<1>2. QED
  BY <1>1, RecordTypes DEF Init, TypeOK, Slots, Phases, BullStates

\* Every action keeps the types and the slots.
LEMMA TypeStep == TypeOK /\ Slots /\ [Next]_vars => TypeOK' /\ Slots'
<1> SUFFICES ASSUME TypeOK, Slots, [Next]_vars PROVE TypeOK' /\ Slots'
  OBVIOUS
<1> USE DEF execVars, procVars, bullVars, bounds
<1>1. ASSUME NEW w \in Webs, NEW j \in Jobs, Enqueue(w, j)
      PROVE  TypeOK' /\ Slots'
  <2>1. PICK real \in BOOLEAN :
          /\ store' = [store EXCEPT ![w][j] = QueuedRecord(real)]
          /\ Publish(w, j, QueuedRecord(real))
          /\ dispatch' = [dispatch EXCEPT ![j] =
                            IF real THEN "accepted" ELSE "sample"]
    BY <1>1, ModesAssumption DEF Enqueue
  <2> DEFINE r == QueuedRecord(real)
  <2>2. r \in Record /\ w \in Procs
    BY DEF QueuedRecord, Record, Procs
  <2>3. redis' \in [Jobs -> Record]
        /\ conn' \in [Procs -> {"wait", "connecting", "ready"}]
    BY <2>1, <2>2, PublishTypes
  <2>4. store' \in [Procs -> [Jobs -> Record]]
    BY <2>1, <2>2 DEF TypeOK
  <2>5. dispatch' \in [Jobs -> {"none", "sample", "accepted"} \cup
                               {"queue", "inline", "error"}]
    BY <2>1 DEF TypeOK
  <2>6. QED
    BY <1>1, <2>3, <2>4, <2>5 DEF Enqueue, TypeOK, Slots
<1>2. ASSUME NEW w \in Webs, NEW j \in Jobs, ToQueue(w, j)
      PROVE  TypeOK' /\ Slots'
  BY <1>2 DEF ToQueue, TypeOK, Slots, BullStates
<1>3. ASSUME NEW w \in Webs, NEW j \in Jobs, NEW e \in Execs, Inline(w, j, e)
      PROVE  TypeOK' /\ Slots'
  BY <1>3 DEF Inline, StartExec, TypeOK, Slots, Procs, Phases
<1>4. ASSUME NEW w \in Webs, NEW j \in Jobs, AddError(w, j)
      PROVE  TypeOK' /\ Slots'
  BY <1>4 DEF AddError, TypeOK, Slots
<1>5. ASSUME NEW w \in Webs, NEW j \in Jobs, Poll(w, j)
      PROVE  TypeOK' /\ Slots'
  <2> DEFINE remote == IF conn[w] = "ready" THEN redis[j] ELSE NoRec
             newer == PickNewer(store[w][j], remote)
  <2>1. w \in Procs
    BY DEF Procs
  <2>2. newer \in Record
    <3>1. store[w][j] \in Record /\ remote \in Record
      BY <2>1, RecordTypes DEF TypeOK
    <3> HIDE DEF remote
    <3>2. QED
      BY <3>1, RecordTypes
  <2>3. store' \in [Procs -> [Jobs -> Record]]
    <3>1. store' = [store EXCEPT ![w][j] = newer]
      BY <1>5 DEF Poll
    <3> HIDE DEF newer
    <3>2. QED
      BY <2>1, <2>2, <3>1 DEF TypeOK
  <2>4. shown' \in [Jobs -> SUBSET Terminal]
    <3>1. \/ Resolved(newer) /\ shown' = [shown EXCEPT ![j] = @ \cup {newer.status}]
          \/ shown' = [shown EXCEPT ![j] = @ \cup {"succeeded"}]
          \/ UNCHANGED shown
      BY <1>5 DEF Poll
    <3>2. PICK x \in Terminal : \/ shown' = [shown EXCEPT ![j] = @ \cup {x}]
                               \/ UNCHANGED shown
      BY <3>1 DEF Resolved, Terminal
    <3>3. shown[j] \cup {x} \in SUBSET Terminal
      BY DEF TypeOK
    <3>4. QED
      BY <3>2, <3>3 DEF TypeOK
  <2>5. conn' \in [Procs -> {"wait", "connecting", "ready"}]
    BY <1>5 DEF Poll, UseClient, TypeOK
  <2>6. QED
    BY <1>5, <2>3, <2>4, <2>5 DEF Poll, TypeOK, Slots
<1>6. ASSUME NEW p \in Workers, NEW j \in Jobs, NEW e \in Execs, Dequeue(p, j, e)
      PROVE  TypeOK' /\ Slots'
  BY <1>6 DEF Dequeue, StartExec, TypeOK, Slots, Procs, Phases, BullStates
<1>7. ASSUME NEW e \in Execs, Progress(e)
      PROVE  TypeOK' /\ Slots'
  <2> DEFINE p == host[e]
             j == scan[e]
             c == [op |-> "progress", job |-> j, status |-> "failed",
                   by |-> NoOne, copy |-> redis[j]]
  <2>1. p \in Procs /\ j \in Jobs
    BY <1>7 DEF Progress, Slots
  <2>2. store[p][j] \in Record /\ redis[j] \in Record
    BY <2>1 DEF TypeOK
  <2>3. updates' \in Nat
    BY <1>7 DEF Progress, TypeOK
  <2>4. /\ redis' \in [Jobs -> Record]
        /\ conn' \in [Procs -> {"wait", "connecting", "ready"}]
    <3>1. \/ UNCHANGED <<redis, conn>>
          \/ Publish(p, j, store[p][j])
          \/ UseClient(p) /\ UNCHANGED redis
      BY <1>7 DEF Progress
    <3> HIDE DEF p, j
    <3>2. CASE UNCHANGED <<redis, conn>>
      BY <3>2 DEF TypeOK
    <3>3. CASE Publish(p, j, store[p][j])
      BY <2>1, <2>2, <3>3, PublishTypes
    <3>4. CASE UseClient(p) /\ UNCHANGED redis
      BY <2>1, <3>4 DEF TypeOK, UseClient
    <3>5. QED
      BY <3>1, <3>2, <3>3, <3>4
  <2>5. calls' \in [Procs -> Seq(Call)]
    <3>1. c \in Call
      BY <2>1, <2>2 DEF Call, Terminal
    <3>2. \/ UNCHANGED calls
          \/ calls' = [calls EXCEPT ![p] = Append(@, c)]
      BY <1>7 DEF Progress
    <3> HIDE DEF c, p
    <3>3. Append(calls[p], c) \in Seq(Call)
      BY <3>1, <2>1 DEF TypeOK
    <3>4. QED
      BY <3>2, <3>3 DEF TypeOK
  <2>6. QED
    BY <1>7, <2>3, <2>4, <2>5 DEF Progress, TypeOK, Slots
<1>8. ASSUME NEW e \in Execs, StoreDrift(e)
      PROVE  TypeOK' /\ Slots'
  BY <1>8 DEF StoreDrift, TypeOK, Slots, Phases
<1>9. ASSUME NEW e \in Execs, NEW v \in Verdicts, Conclude(e, v)
      PROVE  TypeOK' /\ Slots'
  <2> DEFINE p == host[e]
             j == scan[e]
             s == StatusOf(v)
  <2>1. p \in Procs /\ j \in Jobs /\ phase[e] # "free"
    BY <1>9 DEF Conclude, Concluded, Slots
  <2>2. s \in Terminal /\ CallResolve(p, j, s, e)
    BY <1>9 DEF Conclude, StatusOf, Terminal
  <2>3. /\ store' \in [Procs -> [Jobs -> Record]]
        /\ redis' \in [Jobs -> Record]
        /\ conn' \in [Procs -> {"wait", "connecting", "ready"}]
        /\ calls' \in [Procs -> Seq(Call)]
        /\ clock' \in Nat
    <3> HIDE DEF s, p, j
    <3>1. QED
      BY <2>1, <2>2, CallResolveTypes
  <2>4. running' \in [Procs -> SUBSET Jobs]
    <3>1. Done(p, j) \/ UNCHANGED running
      BY <1>9 DEF Conclude
    <3> HIDE DEF p, j
    <3>2. QED
      BY <2>1, <3>1, DoneTypes DEF TypeOK
  <2>5. /\ phase' \in [Execs -> Phases]
        /\ verdict' \in [Execs -> {"none", "succeeded", "failed", "thrown"}]
    BY <1>9 DEF Conclude, Concluded, TypeOK, Phases, Verdicts
  <2>6. Slots'
    BY <1>9, <2>1, <2>5 DEF Conclude, Slots, TypeOK
  <2>7. QED
    BY <1>9, <2>3, <2>4, <2>5, <2>6 DEF Conclude, TypeOK
<1>10. ASSUME NEW p \in Procs, HandleReply(p)
       PROVE  TypeOK' /\ Slots'
  <2> DEFINE c == Head(calls[p])
  <2>1. calls[p] \in Seq(Call) /\ calls[p] # <<>>
    BY <1>10 DEF HandleReply, TypeOK
  <2>2. c \in Call
    BY <2>1
  <2>3. calls' \in [Procs -> Seq(Call)]
    <3>1. Tail(calls[p]) \in Seq(Call)
      BY <2>1
    <3>2. QED
      BY <1>10, <3>1 DEF HandleReply, TypeOK
  <2>4. /\ c.job \in Jobs /\ c.copy \in Record /\ c.status \in Terminal
    BY <2>2 DEF Call
  <2>5. CASE c.op = "progress"
    <3>1. \/ Publish(p, c.job, c.copy)
          \/ UNCHANGED <<redis, conn>>
      BY <1>10, <2>5 DEF HandleReply
    <3>2. /\ redis' \in [Jobs -> Record]
          /\ conn' \in [Procs -> {"wait", "connecting", "ready"}]
      <4> HIDE DEF c
      <4>1. QED
        BY <2>4, <3>1, PublishTypes DEF TypeOK
    <3>3. UNCHANGED <<store, clock, running, phase>>
      BY <1>10, <2>5 DEF HandleReply
    <3>4. QED
      BY <1>10, <2>3, <3>2, <3>3 DEF HandleReply, TypeOK, Slots
  <2>6. CASE c.op = "resolve"
    <3>1. Resolve(p, c.job, c.copy, c.status)
      BY <1>10, <2>6 DEF HandleReply
    <3>2. /\ store' \in [Procs -> [Jobs -> Record]]
          /\ redis' \in [Jobs -> Record]
          /\ conn' \in [Procs -> {"wait", "connecting", "ready"}]
          /\ clock' \in Nat
      <4> HIDE DEF c
      <4>1. QED
        BY <2>4, <3>1, ResolveTypes
    <3>3. running' \in [Procs -> SUBSET Jobs]
      <4>1. Done(p, c.job) \/ UNCHANGED running
        BY <1>10, <2>6 DEF HandleReply
      <4> HIDE DEF c
      <4>2. QED
        BY <2>4, <4>1, DoneTypes DEF TypeOK
    <3>4. phase' = [x \in Execs |->
                     IF x = c.by /\ phase[x] = "fetching" THEN "settling"
                     ELSE phase[x]]
      BY <1>10, <2>6 DEF HandleReply
    <3>5. phase' \in [Execs -> Phases] /\ Slots'
      BY <1>10, <3>4 DEF HandleReply, TypeOK, Phases, Slots
    <3>6. QED
      BY <1>10, <2>3, <3>2, <3>3, <3>5 DEF HandleReply, TypeOK
  <2>7. QED
    BY <2>2, <2>5, <2>6 DEF Call
<1>11. ASSUME NEW e \in Execs, Settle(e)
       PROVE  TypeOK' /\ Slots'
  <2>1. host[e] \in Procs /\ scan[e] \in Jobs
    BY <1>11 DEF Settle, Slots
  <2>2. running' \in [Procs -> SUBSET Jobs]
    BY <1>11, <2>1, DoneTypes DEF Settle
  <2>3. audited' \in [Jobs -> SUBSET {"completed", "failed"}]
    BY <1>11 DEF Settle, TypeOK
  <2>4. /\ bull' \in [Jobs -> BullStates]
        /\ tries' \in [Jobs -> Nat]
        /\ stalls' \in [Jobs -> Nat]
        /\ owner' \in [Jobs -> Execs \cup {NoOne}]
    <3>1. Finish(e, verdict[e] # "thrown") \/ UNCHANGED bullVars
      BY <1>11 DEF Settle
    <3>2. QED
      BY <3>1, FinishTypes DEF TypeOK
  <2>5. QED
    BY <1>11, <2>1, <2>2, <2>3, <2>4 DEF Settle, TypeOK, Slots, Phases
<1>12. ASSUME NEW e \in Execs, Deadline(e)
       PROVE  TypeOK' /\ Slots'
  <2> DEFINE p == host[e]
             j == scan[e]
  <2>1. p \in Procs /\ j \in Jobs
    BY <1>12 DEF Deadline, Slots
  <2>2. CallResolve(p, j, "failed", NoOne) /\ Done(p, j)
    BY <1>12 DEF Deadline
  <2>3. /\ store' \in [Procs -> [Jobs -> Record]]
        /\ redis' \in [Jobs -> Record]
        /\ conn' \in [Procs -> {"wait", "connecting", "ready"}]
        /\ calls' \in [Procs -> Seq(Call)]
        /\ clock' \in Nat
        /\ running' \in [Procs -> SUBSET Jobs]
    <3> HIDE DEF p, j
    <3>1. "failed" \in Terminal
      BY DEF Terminal
    <3>2. QED
      BY <2>1, <2>2, <3>1, CallResolveTypes, DoneTypes
  <2>4. /\ bull' \in [Jobs -> BullStates]
        /\ tries' \in [Jobs -> Nat]
        /\ stalls' \in [Jobs -> Nat]
        /\ owner' \in [Jobs -> Execs \cup {NoOne}]
    <3>1. Finish(e, TRUE) \/ UNCHANGED bullVars
      BY <1>12 DEF Deadline
    <3>2. QED
      BY <3>1, FinishTypes DEF TypeOK
  <2>5. audited' \in [Jobs -> SUBSET {"completed", "failed"}]
    BY <1>12 DEF Deadline, TypeOK
  <2>6. /\ timer' \in [Execs -> {"off", "armed", "fired"}]
        /\ racing' \in [Execs -> BOOLEAN]
        /\ Slots'
    BY <1>12, <2>1 DEF Deadline, TypeOK, Slots
  <2>7. QED
    BY <1>12, <2>3, <2>4, <2>5, <2>6 DEF Deadline, TypeOK
<1>13. ASSUME NEW e \in Execs, Reclaim(e)
       PROVE  TypeOK' /\ Slots'
  BY <1>13 DEF Reclaim, TypeOK, Slots, Phases
<1>14. ASSUME NEW p \in Procs, Reconnect(p)
       PROVE  TypeOK' /\ Slots'
  BY <1>14 DEF Reconnect, TypeOK, Slots
<1>15. ASSUME NEW p \in Procs, Drop(p)
       PROVE  TypeOK' /\ Slots'
  <2> DEFINE q == calls[p]
             r == [i \in DOMAIN q |-> [q[i] EXCEPT !.copy = NoRec]]
  <2>1. q \in Seq(Call)
    BY DEF TypeOK
  <2>2. r \in Seq(Call)
    <3>1. \A i \in 1..Len(q) : q[i] \in Call
      BY <2>1
    <3>2. \A i \in 1..Len(q) : [q[i] EXCEPT !.copy = NoRec] \in Call
      BY <3>1, RecordTypes DEF Call
    <3>3. DOMAIN q = 1..Len(q) /\ Len(q) \in Nat
      BY <2>1
    <3>4. QED
      BY <3>2, <3>3
  <2>3. calls' = [calls EXCEPT ![p] = r]
    BY <1>15 DEF Drop
  <2> HIDE DEF r
  <2>4. calls' \in [Procs -> Seq(Call)]
    BY <2>2, <2>3 DEF TypeOK
  <2>5. QED
    BY <1>15, <2>4 DEF Drop, TypeOK, Slots
<1>16. ASSUME NEW p \in Procs, Crash(p)
       PROVE  TypeOK' /\ Slots'
  <2>1. store' \in [Procs -> [Jobs -> Record]]
    BY <1>16, RecordTypes DEF Crash, TypeOK
  <2>2. calls' \in [Procs -> Seq(Call)]
    BY <1>16 DEF Crash, TypeOK
  <2>3. owner' \in [Jobs -> Execs \cup {NoOne}]
    BY <1>16 DEF Crash, TypeOK
  <2>4. /\ phase' \in [Execs -> Phases]
        /\ host' \in [Execs -> Procs \cup {NoOne}]
        /\ scan' \in [Execs -> Jobs \cup {NoOne}]
        /\ verdict' \in [Execs -> {"none", "succeeded", "failed", "thrown"}]
        /\ timer' \in [Execs -> {"off", "armed", "fired"}]
        /\ racing' \in [Execs -> BOOLEAN]
    BY <1>16 DEF Crash, TypeOK, Phases
  <2>5. Slots'
    BY <1>16 DEF Crash, TypeOK, Slots
  <2>6. QED
    BY <1>16, <2>1, <2>2, <2>3, <2>4, <2>5 DEF Crash, TypeOK
<1>17. ASSUME NEW j \in Jobs, Stall(j)
       PROVE  TypeOK' /\ Slots'
  BY <1>17 DEF Stall, TypeOK, Slots, BullStates
<1>18. CASE UNCHANGED vars
  BY <1>18 DEF vars, TypeOK, Slots
<1>land. ASSUME NEW j \in Jobs, Land(j)
         PROVE  TypeOK' /\ Slots'
  BY <1>land DEF Land, TypeOK, Slots
<1>19. QED
  BY <1>1, <1>2, <1>3, <1>4, <1>5, <1>6, <1>7, <1>8, <1>9, <1>10, <1>11,
     <1>12, <1>13, <1>14, <1>15, <1>16, <1>17, <1>18, <1>land
     DEF Next, WebStep, ExecStep

\* The variables of ScanJobs keep their types in every behaviour.
THEOREM TypeCorrect == Spec => []TypeOK
<1>1. TypeOK /\ Slots /\ [Next]_vars => (TypeOK /\ Slots)'
  BY TypeStep
<1>2. QED
  BY TypeInit, <1>1, PTL DEF Spec
-----------------------------------------------------------------------------
(* Real work.                                                              *)

\* Every step keeps real work to the scans that were sent.
LEMMA UndertakenStep ==
  TypeOK /\ Slots /\ Undertaken /\ [Next]_vars => Undertaken'
<1> SUFFICES ASSUME TypeOK, Slots, Undertaken, [Next]_vars PROVE Undertaken'
  OBVIOUS
<1> USE DEF execVars, procVars, bullVars, bounds
<1>1. ASSUME NEW w \in Webs, NEW j \in Jobs,
             \/ Enqueue(w, j)
             \/ ToQueue(w, j)
             \/ AddError(w, j)
      PROVE  Undertaken'
  <2>1. \A k \in Jobs : Sent(k) => dispatch'[k] = dispatch[k]
    BY <1>1 DEF Enqueue, ToQueue, AddError, Sent, TypeOK
  <2>2. \A k \in Jobs : \/ bull'[k] = bull[k]
                        \/ dispatch'[k] = "queue"
    BY <1>1 DEF Enqueue, ToQueue, AddError, TypeOK
  <2>3. UNCHANGED <<owner, phase, scan, timer>>
    BY <1>1 DEF Enqueue, ToQueue, AddError
  <2>4. QED
    BY <2>1, <2>2, <2>3 DEF Undertaken, Sent, Slots
<1>2. ASSUME NEW w \in Webs, NEW j \in Jobs, NEW e \in Execs, Inline(w, j, e)
      PROVE  Undertaken'
  BY <1>2 DEF Inline, StartExec, Undertaken, Sent, Slots, TypeOK
<1>3. ASSUME NEW p \in Workers, NEW j \in Jobs, NEW e \in Execs, Dequeue(p, j, e)
      PROVE  Undertaken'
  BY <1>3 DEF Dequeue, StartExec, Undertaken, Sent, Slots, TypeOK
<1>4. ASSUME UNCHANGED <<dispatch, bull, owner, phase, scan, timer>>
      PROVE  Undertaken'
  BY <1>4 DEF Undertaken, Sent
<1>5. ASSUME NEW w \in Webs, NEW j \in Jobs, Poll(w, j)
      PROVE  Undertaken'
  BY <1>5, <1>4 DEF Poll
<1>6. ASSUME NEW e \in Execs,
             \/ Progress(e)
             \/ StoreDrift(e)
             \/ \E v \in Verdicts : Conclude(e, v)
      PROVE  Undertaken'
  BY <1>6 DEF Progress, StoreDrift, Conclude, Concluded, Undertaken, Sent, TypeOK
<1>7. ASSUME NEW e \in Execs, Settle(e) \/ Deadline(e)
      PROVE  Undertaken'
  <2>1. \A j \in Jobs : bull'[j] # "absent" \/ owner'[j] # NoOne =>
          bull[j] # "absent" \/ owner[j] # NoOne
    <3>1. UNCHANGED bullVars \/ \E ok \in BOOLEAN : Finish(e, ok)
      BY <1>7 DEF Settle, Deadline
    <3>2. QED
      BY <3>1, ProcsAssumption DEF Finish
  <2>2. \A x \in Execs : phase'[x] # "free" \/ timer'[x] # "off" =>
          phase[x] # "free" \/ timer[x] # "off"
    BY <1>7 DEF Settle, Deadline, TypeOK
  <2>3. UNCHANGED <<dispatch, scan>>
    BY <1>7 DEF Settle, Deadline
  <2>4. QED
    BY <2>1, <2>2, <2>3 DEF Undertaken, Sent
<1>8. ASSUME NEW e \in Execs, Reclaim(e)
      PROVE  Undertaken'
  BY <1>8 DEF Reclaim, Undertaken, Sent, TypeOK
<1>9. ASSUME NEW p \in Procs, HandleReply(p)
      PROVE  Undertaken'
  <2>1. \A x \in Execs : phase'[x] # "free" => phase[x] # "free"
    BY <1>9 DEF HandleReply
  <2>2. QED
    BY <1>9, <2>1 DEF HandleReply, Undertaken, Sent
<1>10. ASSUME NEW p \in Procs, Reconnect(p) \/ Drop(p)
       PROVE  Undertaken'
  BY <1>10, <1>4 DEF Reconnect, Drop
<1>11. ASSUME NEW p \in Procs, Crash(p)
       PROVE  Undertaken'
  BY <1>11 DEF Crash, Undertaken, Sent
<1>12. ASSUME NEW j \in Jobs, Stall(j)
       PROVE  Undertaken'
  BY <1>12 DEF Stall, Undertaken, Sent, TypeOK
<1>13. CASE UNCHANGED vars
  BY <1>13, <1>4 DEF vars
<1>land. ASSUME NEW j \in Jobs, Land(j)
         PROVE  Undertaken'
  BY <1>land, <1>4 DEF Land
<1>14. QED
  BY <1>1, <1>2, <1>3, <1>5, <1>6, <1>7, <1>8, <1>9, <1>10, <1>11, <1>12,
     <1>13, <1>land DEF Next, WebStep, ExecStep
-----------------------------------------------------------------------------
(* Honesty.                                                                *)

\* Sent and Honest, of the next state.
SentNext(j) == dispatch'[j] \in {"queue", "inline"}

HonestNext(r, j) ==
  /\ Resolved(r) => SentNext(j)
  /\ r.status = "succeeded" => handed'[j]
  /\ r.status = "open" /\ ~r.real => dispatch'[j] = "sample"

\* A scan once undertaken stays so, events once handed over stay handed over, and
\* a sample stays a sample.
Carry ==
  \A j \in Jobs : /\ Sent(j) => SentNext(j)
                  /\ handed[j] => handed'[j]
                  /\ dispatch[j] = "sample" => dispatch'[j] = "sample"

LEMMA StepCarries == TypeOK /\ Slots /\ [Next]_vars => Carry
<1> SUFFICES ASSUME TypeOK, Slots, [Next]_vars PROVE Carry
  OBVIOUS
<1>1. ASSUME NEW w \in Webs, NEW j \in Jobs,
             \/ Enqueue(w, j)
             \/ ToQueue(w, j)
             \/ \E e \in Execs : Inline(w, j, e)
             \/ AddError(w, j)
      PROVE  Carry
  BY <1>1 DEF Enqueue, ToQueue, Inline, AddError, Carry, Sent, SentNext,
              TypeOK
<1>2. ASSUME NEW e \in Execs, StoreDrift(e)
      PROVE  Carry
  BY <1>2 DEF StoreDrift, Carry, Sent, SentNext, TypeOK
<1>3. CASE UNCHANGED <<handed, dispatch>>
  BY <1>3 DEF Carry, Sent, SentNext
<1>4. ASSUME NEW w \in Webs, NEW j \in Jobs, Poll(w, j)
      PROVE  Carry
  BY <1>4, <1>3 DEF Poll
<1>5. ASSUME NEW p \in Workers, NEW j \in Jobs, NEW e \in Execs, Dequeue(p, j, e)
      PROVE  Carry
  BY <1>5, <1>3 DEF Dequeue
<1>6. ASSUME NEW e \in Execs,
             \/ Progress(e)
             \/ \E v \in Verdicts : Conclude(e, v)
             \/ Settle(e)
             \/ Deadline(e)
             \/ Reclaim(e)
      PROVE  Carry
  BY <1>6, <1>3 DEF Progress, Conclude, Settle, Deadline, Reclaim
<1>7. ASSUME NEW p \in Procs,
             HandleReply(p) \/ Reconnect(p) \/ Drop(p) \/ Crash(p)
      PROVE  Carry
  BY <1>7, <1>3 DEF HandleReply, Reconnect, Drop, Crash
<1>8. ASSUME NEW j \in Jobs, Stall(j)
      PROVE  Carry
  BY <1>8, <1>3 DEF Stall
<1>9. CASE UNCHANGED vars
  BY <1>9, <1>3 DEF vars
<1>land. ASSUME NEW j \in Jobs, Land(j)
         PROVE  Carry
  BY <1>land, <1>3 DEF Land
<1>10. QED
  BY <1>1, <1>2, <1>4, <1>5, <1>6, <1>7, <1>8, <1>9, <1>land
     DEF Next, WebStep, ExecStep

LEMMA CopyCarries ==
  ASSUME Carry
  PROVE  \A r : \A j \in Jobs : Honest(r, j) => HonestNext(r, j)
BY DEF Carry, Honest, HonestNext

LEMMA PublishHonest ==
  ASSUME TypeOK, HonestState, Carry,
         NEW p \in Procs, NEW j \in Jobs, NEW r, HonestNext(r, j),
         Publish(p, j, r)
  PROVE  \A k \in Jobs : HonestNext(redis'[k], k)
<1>1. \A k \in Jobs : redis'[k] = redis[k] \/ (k = j /\ redis'[k] = r)
  BY DEF Publish, TypeOK
<1>2. \A k \in Jobs : HonestNext(redis[k], k)
  BY CopyCarries DEF HonestState
<1>3. QED
  BY <1>1, <1>2

\* A verdict that was earned, put on an honest copy, leaves honest records.
LEMMA ResolveHonest ==
  ASSUME TypeOK, HonestState, Carry,
         NEW p \in Procs, NEW j \in Jobs, NEW copy \in Record,
         NEW s \in Terminal, s = "succeeded" => handed'[j], SentNext(j),
         Resolve(p, j, copy, s)
  PROVE  /\ \A q \in Procs, k \in Jobs : HonestNext(store'[q][k], k)
         /\ \A k \in Jobs : HonestNext(redis'[k], k)
<1> DEFINE r == [real |-> copy.real, status |-> s, at |-> clock + 1]
<1>1. /\ \A q \in Procs, k \in Jobs : HonestNext(store[q][k], k)
      /\ \A k \in Jobs : HonestNext(redis[k], k)
  BY CopyCarries DEF HonestState
<1>2. CASE Resolved(copy)
  BY <1>1, <1>2 DEF Resolve
<1>3. CASE ~Resolved(copy)
  <2>1. HonestNext(r, j)
    BY DEF HonestNext, Terminal
  <2>2. store' = [store EXCEPT ![p][j] = r] /\ Publish(p, j, r)
    BY <1>3 DEF Resolve
  <2> HIDE DEF r
  <2>3. \A q \in Procs, k \in Jobs :
          store'[q][k] = store[q][k] \/ (k = j /\ store'[q][k] = r)
    BY <2>2 DEF TypeOK
  <2>4. QED
    BY <1>1, <2>1, <2>2, <2>3, PublishHonest
<1>4. QED
  BY <1>2, <1>3

LEMMA CallResolveHonest ==
  ASSUME TypeOK, HonestState, Carry,
         NEW p \in Procs, NEW j \in Jobs, NEW s \in Terminal, NEW e,
         s = "succeeded" => handed[j], Sent(j),
         CallResolve(p, j, s, e)
  PROVE  /\ \A q \in Procs, k \in Jobs : HonestNext(store'[q][k], k)
         /\ \A k \in Jobs : HonestNext(redis'[k], k)
         /\ \A q \in Procs : \A i \in 1..Len(calls'[q]) : HonestCall(calls'[q][i])
<1> DEFINE c == [op |-> "resolve", job |-> j, status |-> s, by |-> e,
                 copy |-> redis[j]]
<1>1. CASE MustFetch(p, j)
  <2>1. /\ calls' = [calls EXCEPT ![p] = Append(@, c)]
        /\ UNCHANGED <<store, redis>>
    BY <1>1 DEF CallResolve
  <2>2. HonestCall(c)
    BY DEF HonestCall, HonestState
  <2> HIDE DEF c
  <2>3. ASSUME NEW q \in Procs, NEW i \in 1..Len(calls'[q])
        PROVE  HonestCall(calls'[q][i])
    <3>1. calls[q] \in Seq(Call)
      BY DEF TypeOK
    <3>2. CASE q = p
      <4>1. calls'[q] = Append(calls[q], c)
        BY <2>1, <3>2 DEF TypeOK
      <4>2. calls'[q][i] = c \/ (i \in 1..Len(calls[q]) /\ calls'[q][i] = calls[q][i])
        BY <3>1, <4>1
      <4>3. QED
        BY <2>2, <4>2 DEF HonestState
    <3>3. CASE q # p
      BY <2>1, <3>3 DEF TypeOK, HonestState
    <3>4. QED
      BY <3>2, <3>3
  <2>4. QED
    BY <2>1, <2>3, CopyCarries DEF HonestState
<1>2. CASE ~MustFetch(p, j)
  <2>1. Resolve(p, j, store[p][j], s) /\ UNCHANGED calls
    BY <1>2 DEF CallResolve
  <2>2. store[p][j] \in Record
    BY DEF TypeOK
  <2>3. (s = "succeeded" => handed'[j]) /\ SentNext(j)
    BY DEF Carry
  <2>4. QED
    BY <2>1, <2>2, <2>3, ResolveHonest DEF HonestState
<1>3. QED
  BY <1>1, <1>2
LEMMA HonestInit == Init => Undertaken /\ HonestState /\ NoPhantomSuccess
<1> SUFFICES ASSUME Init PROVE Undertaken /\ HonestState /\ NoPhantomSuccess
  OBVIOUS
<1>1. \A p \in Procs : calls[p] = <<>>
  BY DEF Init
<1>2. \A p \in Procs : Len(calls[p]) = 0
  BY <1>1
<1>3. QED
  BY <1>2 DEF Init, Undertaken, HonestState, Honest, NoRec, Resolved, Terminal,
              NoPhantomSuccess

\* The parts of the honest state, of the next state: the copies, the pending
\* replies and the executions past their storing step.
HonestStore == \A q \in Procs, k \in Jobs : HonestNext(store'[q][k], k)
HonestRedis == \A k \in Jobs : HonestNext(redis'[k], k)
HonestReplies == \A q \in Procs : \A i \in 1..Len(calls'[q]) :
                   HonestCall(calls'[q][i])
StoredFirst == \A e \in Execs : phase'[e] = "handed" => handed'[scan'[e]]

LEMMA HonestParts ==
  ASSUME TypeOK', Carry, HonestStore, HonestRedis, HonestReplies, StoredFirst
  PROVE  HonestState'
<1>1. ASSUME NEW q \in Procs, NEW i \in 1..Len(calls'[q])
      PROVE  HonestCall(calls[q][i])'
  <2> DEFINE c == calls'[q][i]
  <2>1. calls'[q] \in Seq(Call)
    BY DEF TypeOK
  <2>2. c \in Call
    BY <2>1
  <2>3. c.job \in Jobs
    BY <2>2 DEF Call
  <2>4. HonestCall(c)
    BY DEF HonestReplies
  <2>5. QED
    BY <2>3, <2>4 DEF HonestCall, Honest, Carry, Sent, SentNext
<1>2. \A q \in Procs, k \in Jobs : Honest(store[q][k], k)'
  BY DEF HonestStore, HonestNext, Honest, Sent, SentNext
<1>3. \A k \in Jobs : Honest(redis[k], k)'
  BY DEF HonestRedis, HonestNext, Honest, Sent, SentNext
<1>4. QED
  BY <1>1, <1>2, <1>3 DEF HonestState, StoredFirst

\* What a step leaves alone stays honest.
LEMMA HonestFrame ==
  ASSUME TypeOK, Slots, HonestState, NoPhantomSuccess, Carry
  PROVE  /\ UNCHANGED store => HonestStore
         /\ UNCHANGED redis => HonestRedis
         /\ UNCHANGED calls => HonestReplies
         /\ (\A e \in Execs : phase'[e] = "handed" =>
               phase[e] = "handed" /\ scan'[e] = scan[e]) => StoredFirst
         /\ UNCHANGED shown => NoPhantomSuccess'
<1>1. UNCHANGED store => HonestStore
  BY CopyCarries DEF HonestState, HonestStore
<1>2. UNCHANGED redis => HonestRedis
  BY CopyCarries DEF HonestState, HonestRedis
<1>3. UNCHANGED calls => HonestReplies
  BY DEF HonestState, HonestReplies
<1>4. (\A e \in Execs : phase'[e] = "handed" =>
         phase[e] = "handed" /\ scan'[e] = scan[e]) => StoredFirst
  BY DEF HonestState, StoredFirst, Carry, Slots
<1>5. UNCHANGED shown => NoPhantomSuccess'
  BY DEF NoPhantomSuccess, Carry
<1>6. QED
  BY <1>1, <1>2, <1>3, <1>4, <1>5
\* Every step keeps the copies honest and the reports earned.
LEMMA HonestStep ==
  /\ TypeOK /\ Slots /\ Undertaken /\ HonestState /\ NoPhantomSuccess
  /\ [Next]_vars
  => HonestState' /\ NoPhantomSuccess'
<1> SUFFICES ASSUME TypeOK, Slots, Undertaken, HonestState, NoPhantomSuccess,
                    [Next]_vars
             PROVE  HonestState' /\ NoPhantomSuccess'
  OBVIOUS
<1> USE DEF execVars, procVars, bullVars, bounds
<1>a. Carry
  BY StepCarries
<1>b. TypeOK'
  BY TypeStep
<1> DEFINE Goal == /\ HonestStore /\ HonestRedis /\ HonestReplies
                   /\ StoredFirst /\ NoPhantomSuccess'
<1>f. /\ UNCHANGED store => HonestStore
      /\ UNCHANGED redis => HonestRedis
      /\ UNCHANGED calls => HonestReplies
      /\ (\A e \in Execs : phase'[e] = "handed" =>
            phase[e] = "handed" /\ scan'[e] = scan[e]) => StoredFirst
      /\ UNCHANGED <<phase, scan>> => StoredFirst
      /\ UNCHANGED shown => NoPhantomSuccess'
  BY <1>a, HonestFrame
<1>c. SUFFICES Goal
  BY <1>a, <1>b, HonestParts
<1>1. ASSUME NEW w \in Webs, NEW j \in Jobs, Enqueue(w, j)
      PROVE  Goal
  <2>1. PICK real \in BOOLEAN :
          /\ store' = [store EXCEPT ![w][j] = QueuedRecord(real)]
          /\ Publish(w, j, QueuedRecord(real))
          /\ dispatch' = [dispatch EXCEPT ![j] =
                            IF real THEN "accepted" ELSE "sample"]
    BY <1>1, ModesAssumption DEF Enqueue
  <2> DEFINE r == QueuedRecord(real)
  <2>2. HonestNext(r, j) /\ w \in Procs
    BY <2>1 DEF QueuedRecord, HonestNext, Resolved, Terminal, Procs, TypeOK
  <2>3. store' = [store EXCEPT ![w][j] = r] /\ Publish(w, j, r)
    BY <2>1
  <2> HIDE DEF r
  <2>4. HonestRedis
    BY <1>a, <2>2, <2>3, PublishHonest DEF HonestRedis
  <2>5. HonestStore
    <3>1. \A q \in Procs, k \in Jobs :
            store'[q][k] = store[q][k] \/ (k = j /\ store'[q][k] = r)
      BY <2>3 DEF TypeOK
    <3>2. \A q \in Procs, k \in Jobs : HonestNext(store[q][k], k)
      BY <1>a, CopyCarries DEF HonestState
    <3>3. QED
      BY <2>2, <3>1, <3>2 DEF HonestStore
  <2>6. QED
    BY <1>1, <1>f, <2>4, <2>5 DEF Enqueue
<1>2. ASSUME NEW p \in Procs, NEW j \in Jobs, NEW e \in Execs,
             Inline(p, j, e) \/ Dequeue(p, j, e)
      PROVE  Goal
  <2>1. StoredFirst
    <3>1. ASSUME NEW x \in Execs, phase'[x] = "handed"
          PROVE  phase[x] = "handed" /\ scan'[x] = scan[x]
      BY <1>2, <3>1 DEF Inline, Dequeue, StartExec, TypeOK
    <3>2. QED
      BY <1>f, <3>1
  <2>2. QED
    BY <1>2, <1>f, <2>1 DEF Inline, Dequeue
<1>3. ASSUME NEW w \in Webs, NEW j \in Jobs, Poll(w, j)
      PROVE  Goal
  <2> DEFINE remote == IF conn[w] = "ready" THEN redis[j] ELSE NoRec
             newer == PickNewer(store[w][j], remote)
  <2>1. w \in Procs
    BY DEF Procs
  <2>2. Honest(newer, j)
    <3>1. store[w][j] \in Record /\ remote \in Record
      BY <2>1, RecordTypes DEF TypeOK
    <3>2. Honest(store[w][j], j) /\ Honest(remote, j)
      BY <2>1 DEF HonestState, Honest, NoRec, Resolved, Terminal
    <3> HIDE DEF remote
    <3>3. newer \in {store[w][j], remote}
      BY <3>1, RecordTypes
    <3>4. QED
      BY <3>2, <3>3
  <2>3. /\ store' = [store EXCEPT ![w][j] = newer]
        /\ \/ /\ Resolved(newer)
              /\ shown' = [shown EXCEPT ![j] = @ \cup {newer.status}]
           \/ /\ newer.status = "open" /\ ~newer.real
              /\ shown' = [shown EXCEPT ![j] = @ \cup {"succeeded"}]
           \/ UNCHANGED shown
        /\ UNCHANGED <<redis, calls, phase, scan, handed, dispatch>>
    BY <1>3 DEF Poll
  <2> HIDE DEF newer
  <2>4. HonestStore
    <3>1. \A q \in Procs, k \in Jobs :
            store'[q][k] = store[q][k] \/ (k = j /\ store'[q][k] = newer)
      BY <2>3 DEF TypeOK
    <3>2. /\ \A q \in Procs, k \in Jobs : HonestNext(store[q][k], k)
          /\ HonestNext(newer, j)
      BY <1>a, <2>2, CopyCarries DEF HonestState
    <3>3. QED
      BY <3>1, <3>2 DEF HonestStore
  <2>5. NoPhantomSuccess'
    <3>1. \A k \in Jobs : "succeeded" \in shown'[k] =>
            "succeeded" \in shown[k] \/ handed[k] \/ dispatch[k] = "sample"
      <4>1. PICK x \in Terminal :
              /\ \/ shown' = [shown EXCEPT ![j] = @ \cup {x}]
                 \/ UNCHANGED shown
              /\ x = "succeeded" => handed[j] \/ dispatch[j] = "sample"
        <5>1. CASE UNCHANGED shown
          BY <5>1, "failed" \in Terminal DEF Terminal
        <5>2. CASE shown' # shown
          BY <5>2, <2>2, <2>3 DEF Honest, Resolved, Terminal
        <5>3. QED
          BY <5>1, <5>2
      <4>2. \A k \in Jobs : \/ shown'[k] = shown[k]
                            \/ k = j /\ shown'[k] = shown[k] \cup {x}
        BY <4>1 DEF TypeOK
      <4>3. ASSUME NEW k \in Jobs, "succeeded" \in shown'[k],
                   "succeeded" \notin shown[k]
            PROVE  handed[k] \/ dispatch[k] = "sample"
        BY <4>1, <4>2, <4>3
      <4>4. QED
        BY <4>3
    <3>2. QED
      BY <2>3, <3>1 DEF NoPhantomSuccess
  <2>6. QED
    BY <1>f, <2>3, <2>4, <2>5
<1>4. ASSUME NEW e \in Execs, Progress(e)
      PROVE  Goal
  <2> DEFINE p == host[e]
             j == scan[e]
             c == [op |-> "progress", job |-> j, status |-> "failed",
                   by |-> NoOne, copy |-> redis[j]]
  <2>1. p \in Procs /\ j \in Jobs
    BY <1>4 DEF Progress, Slots
  <2>2. HonestRedis
    <3>1. \/ UNCHANGED redis
          \/ Publish(p, j, store[p][j])
      BY <1>4 DEF Progress
    <3> HIDE DEF p, j
    <3>2. HonestNext(store[p][j], j)
      BY <2>1, <1>a, CopyCarries DEF HonestState
    <3>3. QED
      BY <1>a, <1>f, <2>1, <3>1, <3>2, PublishHonest DEF HonestRedis
  <2>3. HonestReplies
    <3>1. UNCHANGED calls \/ calls' = [calls EXCEPT ![p] = Append(@, c)]
      BY <1>4 DEF Progress
    <3>2. HonestCall(c)
      BY <2>1 DEF HonestCall, HonestState
    <3> HIDE DEF c, p, j
    <3>3. ASSUME calls' = [calls EXCEPT ![p] = Append(@, c)],
                 NEW q \in Procs, NEW i \in 1..Len(calls'[q])
          PROVE  HonestCall(calls'[q][i])
      <4>1. calls[q] \in Seq(Call)
        BY DEF TypeOK
      <4>2. CASE q = p
        <5>1. calls'[q] = Append(calls[q], c)
          BY <3>3, <4>2 DEF TypeOK
        <5>2. \/ calls'[q][i] = c
              \/ i \in 1..Len(calls[q]) /\ calls'[q][i] = calls[q][i]
          BY <4>1, <5>1
        <5>3. QED
          BY <3>2, <5>2 DEF HonestState
      <4>3. CASE q # p
        BY <3>3, <4>3 DEF TypeOK, HonestState
      <4>4. QED
        BY <4>2, <4>3
    <3>4. QED
      BY <1>f, <3>1, <3>3 DEF HonestReplies
  <2>4. QED
    BY <1>4, <1>f, <2>2, <2>3 DEF Progress
<1>5. ASSUME NEW e \in Execs, StoreDrift(e)
      PROVE  Goal
  <2>1. StoredFirst
    BY <1>5, <1>a DEF StoreDrift, StoredFirst, HonestState, Carry, Slots, TypeOK
  <2>2. QED
    BY <1>5, <1>f, <2>1 DEF StoreDrift
<1>6. ASSUME NEW e \in Execs, NEW v \in Verdicts, Conclude(e, v)
      PROVE  Goal
  <2> DEFINE p == host[e]
             j == scan[e]
             s == StatusOf(v)
  <2>1. /\ p \in Procs /\ j \in Jobs
        /\ s \in Terminal /\ CallResolve(p, j, s, e)
        /\ s = "succeeded" => handed[j]
        /\ Sent(j)
    BY <1>6 DEF Conclude, Concluded, StatusOf, Slots, Undertaken, Terminal,
                HonestState
  <2>2. HonestStore /\ HonestRedis /\ HonestReplies
    <3> HIDE DEF p, j, s
    <3>1. QED
      BY <1>a, <2>1, CallResolveHonest
         DEF HonestStore, HonestRedis, HonestReplies
  <2>3. StoredFirst
    BY <1>6, <1>a DEF Conclude, StoredFirst, HonestState, Carry, Slots, TypeOK
  <2>4. QED
    BY <1>6, <1>f, <2>2, <2>3 DEF Conclude
<1>7. ASSUME NEW p \in Procs, HandleReply(p)
      PROVE  Goal
  <2> DEFINE c == Head(calls[p])
  <2>1. calls[p] \in Seq(Call) /\ calls[p] # <<>>
    BY <1>7 DEF HandleReply, TypeOK
  <2>2. c \in Call /\ HonestCall(c)
    <3>1. 1 \in 1..Len(calls[p]) /\ c = calls[p][1]
      BY <2>1
    <3>2. QED
      BY <2>1, <3>1 DEF HonestState
  <2>3. /\ c.job \in Jobs /\ c.copy \in Record /\ c.status \in Terminal
        /\ c.op \in {"progress", "resolve"}
    BY <2>2 DEF Call
  <2>4. HonestReplies
    <3>1. calls' = [calls EXCEPT ![p] = Tail(calls[p])]
      BY <1>7 DEF HandleReply
    <3>2. ASSUME NEW q \in Procs, NEW i \in 1..Len(calls'[q])
          PROVE  HonestCall(calls'[q][i])
      <4>1. CASE q = p
        <5>1. calls'[q] = Tail(calls[p])
          BY <3>1, <4>1 DEF TypeOK
        <5>2. i + 1 \in 1..Len(calls[p]) /\ calls'[q][i] = calls[p][i + 1]
          BY <2>1, <5>1
        <5>3. QED
          BY <5>2 DEF HonestState
      <4>2. CASE q # p
        BY <3>1, <4>2 DEF TypeOK, HonestState
      <4>3. QED
        BY <4>1, <4>2
    <3>3. QED
      BY <3>2 DEF HonestReplies
  <2>5. CASE c.op = "progress"
    <3>1. /\ \/ Publish(p, c.job, c.copy)
             \/ UNCHANGED redis
          /\ UNCHANGED <<store, phase, scan, shown>>
      BY <1>7, <2>5 DEF HandleReply
    <3>2. HonestRedis
      <4>1. HonestNext(c.copy, c.job)
        BY <1>a, <2>2, <2>3, CopyCarries DEF HonestCall
      <4> HIDE DEF c
      <4>2. QED
        BY <1>a, <1>f, <2>3, <3>1, <4>1, PublishHonest DEF HonestRedis
    <3>3. QED
      BY <1>f, <2>4, <3>1, <3>2
  <2>6. CASE c.op = "resolve"
    <3>1. Resolve(p, c.job, c.copy, c.status)
      BY <1>7, <2>6 DEF HandleReply
    <3>2. (c.status = "succeeded" => handed'[c.job]) /\ SentNext(c.job)
      BY <1>a, <2>2, <2>3, <2>6 DEF HonestCall, Carry
    <3>3. HonestStore /\ HonestRedis
      <4> HIDE DEF c
      <4>1. QED
        BY <1>a, <2>3, <3>1, <3>2, ResolveHonest DEF HonestStore, HonestRedis
    <3>4. StoredFirst
      <4>1. \A e \in Execs : phase'[e] = "handed" => phase[e] = "handed"
        BY <1>7, <2>6 DEF HandleReply
      <4>2. UNCHANGED scan
        BY <1>7 DEF HandleReply
      <4>3. QED
        BY <1>a, <4>1, <4>2 DEF StoredFirst, HonestState, Carry, Slots
    <3>5. QED
      BY <1>7, <1>f, <2>4, <3>3, <3>4 DEF HandleReply
  <2>7. QED
    BY <2>3, <2>5, <2>6
<1>8. ASSUME NEW e \in Execs, Settle(e) \/ Reclaim(e)
      PROVE  Goal
  <2>1. StoredFirst
    <3>1. ASSUME NEW x \in Execs, phase'[x] = "handed"
          PROVE  phase[x] = "handed" /\ scan'[x] = scan[x]
      BY <1>8, <3>1 DEF Settle, Reclaim, TypeOK
    <3>2. QED
      BY <1>f, <3>1
  <2>2. QED
    BY <1>8, <1>f, <2>1 DEF Settle, Reclaim
<1>9. ASSUME NEW e \in Execs, Deadline(e)
      PROVE  Goal
  <2> DEFINE p == host[e]
             j == scan[e]
  <2>1. /\ p \in Procs /\ j \in Jobs /\ Sent(j)
        /\ CallResolve(p, j, "failed", NoOne)
    BY <1>9 DEF Deadline, Slots, Undertaken
  <2>2. HonestStore /\ HonestRedis /\ HonestReplies
    <3> HIDE DEF p, j
    <3>1. QED
      BY <1>a, <2>1, CallResolveHonest
         DEF HonestStore, HonestRedis, HonestReplies, Terminal
  <2>3. QED
    BY <1>9, <1>f, <2>2 DEF Deadline
<1>10. ASSUME NEW p \in Procs, Drop(p)
       PROVE  Goal
  <2>1. ASSUME NEW q \in Procs, NEW i \in 1..Len(calls'[q])
        PROVE  HonestCall(calls'[q][i])
    <3>1. calls[q] \in Seq(Call)
      BY DEF TypeOK
    <3>2. CASE q = p
      <4>1. calls'[q] = [k \in DOMAIN calls[q] |->
                           [calls[q][k] EXCEPT !.copy = NoRec]]
        BY <1>10, <3>2 DEF Drop, TypeOK
      <4>2. DOMAIN calls[q] = 1..Len(calls[q]) /\ Len(calls[q]) \in Nat
        BY <3>1
      <4>3. Len(calls'[q]) = Len(calls[q])
        BY <4>1, <4>2
      <4>4. calls[q][i] \in Call /\ i \in 1..Len(calls[q])
        BY <3>1, <4>3
      <4>5. calls'[q][i] = [calls[q][i] EXCEPT !.copy = NoRec]
        BY <4>1, <4>2, <4>4
      <4>6. HonestCall(calls[q][i])
        BY <4>4 DEF HonestState
      <4>7. QED
        BY <4>4, <4>5, <4>6 DEF HonestCall, Honest, Call, NoRec, Resolved, Terminal
    <3>3. CASE q # p
      BY <1>10, <3>3 DEF Drop, TypeOK, HonestState
    <3>4. QED
      BY <3>2, <3>3
  <2>2. QED
    BY <1>10, <1>f, <2>1 DEF Drop, HonestReplies
<1>11. ASSUME NEW p \in Procs, Crash(p)
       PROVE  Goal
  <2>1. HonestStore
    <3>1. \A q \in Procs, k \in Jobs :
            store'[q][k] = store[q][k] \/ store'[q][k] = NoRec
      BY <1>11 DEF Crash, TypeOK
    <3>2. \A q \in Procs, k \in Jobs : HonestNext(store[q][k], k)
      BY <1>a, CopyCarries DEF HonestState
    <3>3. QED
      BY <3>1, <3>2 DEF HonestStore, HonestNext, NoRec, Resolved, Terminal
  <2>2. HonestReplies
    <3>1. \A q \in Procs : calls'[q] = calls[q] \/ calls'[q] = <<>>
      BY <1>11 DEF Crash, TypeOK
    <3>2. \A q \in Procs : \A i \in 1..Len(calls'[q]) : calls'[q] = calls[q]
      BY <3>1
    <3>3. QED
      BY <3>2 DEF HonestReplies, HonestState
  <2>3. StoredFirst
    <3>1. ASSUME NEW x \in Execs, phase'[x] = "handed"
          PROVE  phase[x] = "handed" /\ scan'[x] = scan[x]
      BY <1>11, <3>1 DEF Crash
    <3>2. QED
      BY <1>f, <3>1
  <2>4. QED
    BY <1>11, <1>f, <2>1, <2>2, <2>3 DEF Crash
<1>12. ASSUME NEW w \in Webs, NEW j \in Jobs, ToQueue(w, j) \/ AddError(w, j)
       PROVE  Goal
  BY <1>12, <1>f DEF ToQueue, AddError
<1>13. ASSUME NEW j \in Jobs, Stall(j)
       PROVE  Goal
  BY <1>13, <1>f DEF Stall
<1>14. ASSUME NEW p \in Procs, Reconnect(p)
       PROVE  Goal
  BY <1>14, <1>f DEF Reconnect
<1>15. CASE UNCHANGED vars
  BY <1>15, <1>f DEF vars
<1>land. ASSUME NEW j \in Jobs, Land(j)
         PROVE  Goal
  BY <1>land, <1>f DEF Land
<1>16. QED
  <2> HIDE DEF Goal
  <2>1. CASE WebStep
    BY <2>1, <1>1, <1>2, <1>3, <1>12 DEF WebStep, Procs
  <2>2. CASE \E e \in Execs : ExecStep(e)
    BY <2>2, <1>4, <1>5, <1>6, <1>8, <1>9 DEF ExecStep
  <2>3. QED
    BY <2>1, <2>2, <1>2, <1>7, <1>10, <1>11, <1>13, <1>14, <1>15,
       <1>land DEF Next, Procs

\* A client is told that a real scan succeeded only after hosts of it were
\* compared with their baselines and their events handed over, with any number
\* of instances, workers, crashes and lost connections, and however late the
\* events land, if they do.
THEOREM SuccessIsEarned == Spec => []NoPhantomSuccess
<1>1. Init => IInv
  BY TypeInit, HonestInit DEF IInv
<1>2. IInv /\ [Next]_vars => IInv'
  BY TypeStep, UndertakenStep, HonestStep DEF IInv
<1>3. IInv => NoPhantomSuccess
  BY DEF IInv
<1>4. QED
  BY <1>1, <1>2, <1>3, PTL DEF Spec
-----------------------------------------------------------------------------
(* The contract of the scan API.                                           *)

\* How far the contract has a scan, told from its dispatch.
Accepted(j) == IF dispatch[j] \in {"none", "sample"} THEN dispatch[j] ELSE "real"

LEMMA AcceptedKept ==
  ASSUME \A j \in Jobs : Accepted(j)' = Accepted(j)
  PROVE  [j \in Jobs |-> Accepted(j)]' = [j \in Jobs |-> Accepted(j)]
OBVIOUS

\* What leaves the dispatch, the drift and the reports alone is a stutter of the
\* contract.
LEMMA ContractStutter ==
  ASSUME \A j \in Jobs : Accepted(j)' = Accepted(j),
         UNCHANGED <<handed, landed, shown>>
  PROVE  UNCHANGED Contract!vars
BY AcceptedKept DEF Contract!vars, Accepted

\* Every step is a step of the contract or leaves its variables alone: POST
\* accepts, StoreDrift hands over what Land may bring to Postgres, a poll reports.
LEMMA ContractStep ==
  IInv /\ [Next]_vars => [Contract!Next]_Contract!vars
<1> SUFFICES ASSUME IInv, [Next]_vars PROVE [Contract!Next]_Contract!vars
  OBVIOUS
<1> USE DEF execVars, procVars, bullVars, bounds
<1> DEFINE Goal == [Contract!Next]_Contract!vars
<1>g. SUFFICES Goal
  OBVIOUS
<1>a. TypeOK /\ Slots /\ Undertaken /\ HonestState
  BY DEF IInv
<1>s. ASSUME \A j \in Jobs : Accepted(j)' = Accepted(j),
             UNCHANGED <<handed, landed, shown>>
      PROVE  Goal
  BY <1>s, ContractStutter
<1>u. ASSUME UNCHANGED <<dispatch, handed, landed, shown>>
      PROVE  Goal
  BY <1>u, <1>s DEF Accepted
<1>1. ASSUME NEW w \in Webs, NEW j \in Jobs, Enqueue(w, j)
      PROVE  Goal
  <2>1. Contract!Accept(j)
    <3>1. PICK kind \in {"sample", "real"} :
            dispatch' = [dispatch EXCEPT ![j] =
                           IF kind = "real" THEN "accepted" ELSE "sample"]
      BY <1>1, ModesAssumption DEF Enqueue
    <3>2. \A k \in Jobs : Accepted(k)' = IF k = j THEN kind ELSE Accepted(k)
      BY <1>a, <3>1 DEF Accepted, TypeOK
    <3>3. Accepted(j) = "none" /\ UNCHANGED <<handed, landed, shown>>
      BY <1>1 DEF Enqueue, Accepted
    <3>4. QED
      BY <3>2, <3>3 DEF Contract!Accept, Accepted
  <2>2. QED
    BY <2>1 DEF Contract!Next
<1>2. ASSUME NEW w \in Webs, NEW j \in Jobs,
             \/ ToQueue(w, j)
             \/ \E e \in Execs : Inline(w, j, e)
             \/ AddError(w, j)
      PROVE  Goal
  <2>1. \A k \in Jobs : Accepted(k)' = Accepted(k)
    BY <1>a, <1>2 DEF ToQueue, Inline, AddError, Accepted, TypeOK
  <2>2. QED
    BY <1>2, <1>s, <2>1 DEF ToQueue, Inline, AddError
<1>3. ASSUME NEW w \in Webs, NEW j \in Jobs, Poll(w, j)
      PROVE  Goal
  <2> DEFINE remote == IF conn[w] = "ready" THEN redis[j] ELSE NoRec
             newer == PickNewer(store[w][j], remote)
  <2>1. Honest(newer, j)
    <3>1. w \in Procs
      BY DEF Procs
    <3>2. store[w][j] \in Record /\ remote \in Record
      BY <1>a, <3>1, RecordTypes DEF TypeOK
    <3>3. Honest(store[w][j], j) /\ Honest(remote, j)
      BY <1>a, <3>1 DEF HonestState, Honest, NoRec, Resolved, Terminal
    <3> HIDE DEF remote
    <3>4. QED
      BY <3>2, <3>3, RecordTypes
  <2>2. /\ \/ Resolved(newer) /\ shown' = [shown EXCEPT ![j] = @ \cup {newer.status}]
           \/ /\ newer.status = "open" /\ ~newer.real
              /\ shown' = [shown EXCEPT ![j] = @ \cup {"succeeded"}]
           \/ UNCHANGED shown
        /\ UNCHANGED <<dispatch, handed, landed>>
    BY <1>3 DEF Poll
  <2> HIDE DEF newer
  <2>3. CASE UNCHANGED shown
    BY <2>2, <2>3, <1>u
  <2>4. ASSUME shown' = [shown EXCEPT ![j] = @ \cup {"succeeded"}],
               dispatch[j] = "sample" \/ handed[j]
        PROVE  Goal
    <3>1. Contract!ReportSuccess(j)
      BY <2>2, <2>4 DEF Contract!ReportSuccess
    <3>2. QED
      BY <3>1 DEF Contract!Next
  <2>5. ASSUME shown' = [shown EXCEPT ![j] = @ \cup {"failed"}], Sent(j)
        PROVE  Goal
    <3>1. Contract!ReportFailure(j)
      BY <2>2, <2>5 DEF Contract!ReportFailure, Sent
    <3>2. QED
      BY <3>1 DEF Contract!Next
  <2>6. QED
    BY <2>1, <2>2, <2>3, <2>4, <2>5 DEF Honest, Resolved, Terminal
<1>4. ASSUME NEW e \in Execs, StoreDrift(e)
      PROVE  Goal
  <2>1. scan[e] \in Jobs /\ Sent(scan[e])
    BY <1>a, <1>4 DEF StoreDrift, Slots, Undertaken
  <2>2. /\ handed' = [handed EXCEPT ![scan[e]] = TRUE]
        /\ UNCHANGED <<dispatch, landed, shown>>
    BY <1>4 DEF StoreDrift
  <2>3. Contract!HandOver(scan[e])
    BY <2>1, <2>2 DEF Contract!HandOver, Sent
  <2>4. QED
    BY <2>1, <2>3 DEF Contract!Next
<1>5. ASSUME NEW p \in Workers, NEW j \in Jobs, NEW e \in Execs, Dequeue(p, j, e)
      PROVE  Goal
  BY <1>5, <1>u DEF Dequeue
<1>6. ASSUME NEW e \in Execs,
             \/ Progress(e)
             \/ \E v \in Verdicts : Conclude(e, v)
             \/ Settle(e)
             \/ Deadline(e)
             \/ Reclaim(e)
      PROVE  Goal
  BY <1>6, <1>u DEF Progress, Conclude, Settle, Deadline, Reclaim
<1>7. ASSUME NEW p \in Procs,
             HandleReply(p) \/ Reconnect(p) \/ Drop(p) \/ Crash(p)
      PROVE  Goal
  BY <1>7, <1>u DEF HandleReply, Reconnect, Drop, Crash
<1>8. ASSUME NEW j \in Jobs, Stall(j)
      PROVE  Goal
  BY <1>8, <1>u DEF Stall
<1>9. CASE UNCHANGED vars
  BY <1>9, <1>u DEF vars
<1>land. ASSUME NEW j \in Jobs, Land(j)
         PROVE  Goal
  <2>1. handed[j] /\ landed' = [landed EXCEPT ![j] = TRUE]
        /\ UNCHANGED <<dispatch, handed, shown>>
    BY <1>land DEF Land
  <2>2. Contract!Land(j)
    BY <2>1 DEF Contract!Land
  <2>3. QED
    BY <2>2 DEF Contract!Next
<1>10. QED
  <2> HIDE DEF Goal
  <2>1. CASE WebStep
    BY <2>1, <1>1, <1>2, <1>3 DEF WebStep
  <2>2. CASE \E e \in Execs : ExecStep(e)
    BY <2>2, <1>4, <1>6 DEF ExecStep
  <2>3. QED
    BY <2>1, <2>2, <1>5, <1>7, <1>8, <1>9, <1>land DEF Next

\* The system of instances, workers, queue and caches keeps the contract of
\* the scan API: its initial states are the contract's, and every step is one
\* of the contract's or a stutter.
THEOREM ContractKept == Spec => ImplementsContract
<1>1. Init => Contract!Init
  BY DEF Init, Contract!Init
<1>2. Init => IInv
  BY TypeInit, HonestInit DEF IInv
<1>3. IInv /\ [Next]_vars => IInv'
  BY TypeStep, UndertakenStep, HonestStep DEF IInv
<1>4. QED
  BY <1>1, <1>2, <1>3, ContractStep, PTL DEF Spec, ImplementsContract, Contract!Spec
-----------------------------------------------------------------------------
(* What the SIGTERM drain knows.                                           *)

\* An execution whose call of executeDriftScanJob has no verdict yet.
Busy(e) == phase[e] \in {"collecting", "handed"} /\ timer[e] = "armed"

\* A free slot belongs to no process.  In a web instance no two executions
\* have the same scan, and a reply that will resolve a scan there finds that
\* its execution has a verdict or ran out of time.
FreeSlots == \A e \in Execs : phase[e] = "free" => host[e] = NoOne
OneEach ==
  \A e, f \in Execs :
    host[e] \in Webs /\ host[f] = host[e] /\ scan[f] = scan[e] => e = f
RepliesAreLate ==
  \A w \in Webs : \A i \in 1..Len(calls[w]) : \A e \in Execs :
    calls[w][i].op = "resolve" /\ host[e] = w /\ scan[e] = calls[w][i].job
      => ~Busy(e)

DrainInv == FreeSlots /\ OneEach /\ RepliesAreLate /\ DrainKnowsInlineScans

LEMMA DrainInit == Init => DrainInv
<1> SUFFICES ASSUME Init PROVE DrainInv
  OBVIOUS
<1>1. \A p \in Procs : Len(calls[p]) = 0
  BY DEF Init
<1>2. NoOne \notin Webs
  BY ProcsAssumption DEF Procs
<1>3. QED
  BY <1>1, <1>2 DEF Init, DrainInv, FreeSlots, OneEach, RepliesAreLate, Procs,
                     DrainKnowsInlineScans

\* A reply that appears is at the end of its process's queue.
LEMMA AppendedReply ==
  ASSUME TypeOK, NEW p \in Procs, NEW c,
         calls' = [calls EXCEPT ![p] = Append(@, c)]
  PROVE  \A q \in Procs : \A i \in 1..Len(calls'[q]) :
           \/ i \in 1..Len(calls[q]) /\ calls'[q][i] = calls[q][i]
           \/ q = p /\ calls'[q][i] = c
<1> SUFFICES ASSUME NEW q \in Procs, NEW i \in 1..Len(calls'[q])
             PROVE  \/ i \in 1..Len(calls[q]) /\ calls'[q][i] = calls[q][i]
                    \/ q = p /\ calls'[q][i] = c
  OBVIOUS
<1>1. calls[q] \in Seq(Call)
  BY DEF TypeOK
<1>2. CASE q = p
  <2>1. calls'[q] = Append(calls[q], c)
    BY <1>2 DEF TypeOK
  <2>2. QED
    BY <1>1, <1>2, <2>1
<1>3. CASE q # p
  BY <1>3 DEF TypeOK
<1>4. QED
  BY <1>2, <1>3

\* CallResolve awaits no reply but one that resolves its scan.
LEMMA CallResolveReplies ==
  ASSUME TypeOK, NEW p \in Procs, NEW j \in Jobs, NEW s, NEW e,
         CallResolve(p, j, s, e)
  PROVE  \A q \in Procs : \A i \in 1..Len(calls'[q]) :
           \/ i \in 1..Len(calls[q]) /\ calls'[q][i] = calls[q][i]
           \/ q = p /\ calls'[q][i].job = j
<1> DEFINE c == [op |-> "resolve", job |-> j, status |-> s, by |-> e,
                 copy |-> redis[j]]
<1>1. UNCHANGED calls \/ calls' = [calls EXCEPT ![p] = Append(@, c)]
  BY DEF CallResolve
<1>2. c.job = j
  OBVIOUS
<1> HIDE DEF c
<1>3. CASE UNCHANGED calls
  BY <1>3
<1>4. CASE calls' = [calls EXCEPT ![p] = Append(@, c)]
  <2>1. \A q \in Procs : \A i \in 1..Len(calls'[q]) :
           \/ i \in 1..Len(calls[q]) /\ calls'[q][i] = calls[q][i]
           \/ q = p /\ calls'[q][i] = c
    BY <1>4, AppendedReply
  <2>2. QED
    BY <1>2, <2>1
<1>5. QED
  BY <1>1, <1>3, <1>4

\* The replies that are left were there before.
LEMMA OlderReplies ==
  ASSUME TypeOK, NEW p \in Procs, HandleReply(p)
  PROVE  \A q \in Procs : \A i \in 1..Len(calls'[q]) :
           \E k \in 1..Len(calls[q]) : calls'[q][i] = calls[q][k]
<1> SUFFICES ASSUME NEW q \in Procs, NEW i \in 1..Len(calls'[q])
             PROVE  \E k \in 1..Len(calls[q]) : calls'[q][i] = calls[q][k]
  OBVIOUS
<1>1. calls[q] \in Seq(Call) /\ calls[p] # <<>>
  BY DEF TypeOK, HandleReply
<1>2. CASE q = p
  <2>1. calls'[q] = Tail(calls[q])
    BY <1>2 DEF TypeOK, HandleReply
  <2>2. i + 1 \in 1..Len(calls[q]) /\ calls'[q][i] = calls[q][i + 1]
    BY <1>1, <1>2, <2>1
  <2>3. QED
    BY <2>2
<1>3. CASE q # p
  BY <1>3 DEF TypeOK, HandleReply
<1>4. QED
  BY <1>2, <1>3

LEMMA DroppedReplies ==
  ASSUME TypeOK, NEW p \in Procs, Drop(p)
  PROVE  \A q \in Procs :
           /\ Len(calls'[q]) = Len(calls[q])
           /\ \A i \in 1..Len(calls[q]) :
                calls'[q][i] \in {calls[q][i], [calls[q][i] EXCEPT !.copy = NoRec]}
<1> SUFFICES ASSUME NEW q \in Procs
             PROVE  /\ Len(calls'[q]) = Len(calls[q])
                    /\ \A i \in 1..Len(calls[q]) :
                         calls'[q][i] \in {calls[q][i],
                                           [calls[q][i] EXCEPT !.copy = NoRec]}
  OBVIOUS
<1>1. DOMAIN calls[q] = 1..Len(calls[q]) /\ Len(calls[q]) \in Nat
  BY DEF TypeOK
<1>2. CASE q = p
  <2>1. calls'[q] = [i \in DOMAIN calls[q] |-> [calls[q][i] EXCEPT !.copy = NoRec]]
    BY <1>2 DEF Drop, TypeOK
  <2>2. QED
    BY <1>1, <2>1
<1>3. CASE q # p
  BY <1>3 DEF Drop, TypeOK
<1>4. QED
  BY <1>2, <1>3

\* A step that gives no slot away and starts no execution keeps the invariant
\* when it forgets no scan under way and awaits no reply for one.
LEMMA DrainFrame ==
  ASSUME DrainInv, UNCHANGED <<host, scan>>,
         \A e \in Execs : phase'[e] = "free" => phase[e] = "free",
         \A e \in Execs : Busy(e)' => Busy(e),
         \A w \in Webs : \A i \in 1..Len(calls'[w]) :
           calls'[w][i].op = "resolve" =>
             \/ \E k \in 1..Len(calls[w]) :
                  /\ calls[w][k].op = "resolve"
                  /\ calls[w][k].job = calls'[w][i].job
             \/ \A e \in Execs :
                  host[e] = w /\ scan[e] = calls'[w][i].job => ~Busy(e)',
         \A e \in Execs : Busy(e)' /\ host[e] \in Webs
                            => scan[e] \in running'[host[e]]
  PROVE  DrainInv'
<1>1. FreeSlots' /\ OneEach'
  BY DEF DrainInv, FreeSlots, OneEach
<1>2. RepliesAreLate'
  BY DEF DrainInv, RepliesAreLate
<1>3. DrainKnowsInlineScans'
  BY DEF DrainKnowsInlineScans, Busy
<1>4. QED
  BY <1>1, <1>2, <1>3 DEF DrainInv

LEMMA DrainStep == TypeOK /\ Slots /\ Undertaken /\ HonestState /\ DrainInv
                   /\ [Next]_vars => DrainInv'
<1> SUFFICES ASSUME TypeOK, Slots, Undertaken, HonestState, DrainInv, [Next]_vars
             PROVE  DrainInv'
  OBVIOUS
<1> USE DEF execVars, procVars, bullVars, bounds
<1>d. /\ \A e \in Execs : Busy(e) /\ host[e] \in Webs => scan[e] \in running[host[e]]
      /\ \A e, f \in Execs :
           host[e] \in Webs /\ host[f] = host[e] /\ scan[f] = scan[e] => e = f
  BY DEF DrainInv, DrainKnowsInlineScans, Busy, OneEach
<1>1. ASSUME UNCHANGED <<host, scan, phase, timer, calls>>,
             \A p \in Procs : running[p] \subseteq running'[p]
      PROVE  DrainInv'
  BY <1>1, <1>d, DrainFrame DEF Busy, Procs
<1>2. ASSUME NEW w \in Webs, NEW j \in Jobs,
             \/ Enqueue(w, j)
             \/ ToQueue(w, j)
             \/ AddError(w, j)
             \/ Poll(w, j)
      PROVE  DrainInv'
  <2>1. \A p \in Procs : running[p] \subseteq running'[p]
    BY <1>2 DEF Enqueue, ToQueue, AddError, Poll, TypeOK
  <2>2. UNCHANGED <<host, scan, phase, timer, calls>>
    BY <1>2 DEF Enqueue, ToQueue, AddError, Poll
  <2>3. QED
    BY <1>1, <2>1, <2>2
<1>3. ASSUME NEW e \in Execs, StoreDrift(e)
      PROVE  DrainInv'
  <2>1. /\ UNCHANGED <<host, scan, timer, calls, running>>
        /\ phase[e] = "collecting"
        /\ phase' = [phase EXCEPT ![e] = "handed"]
    BY <1>3 DEF StoreDrift
  <2>2. \A x \in Execs : /\ Busy(x)' => Busy(x)
                         /\ phase'[x] = "free" => phase[x] = "free"
    BY <2>1 DEF Busy, TypeOK
  <2>3. QED
    BY <1>d, <2>1, <2>2, DrainFrame DEF Procs
<1>4. ASSUME NEW j \in Jobs, Stall(j) \/ Land(j)
      PROVE  DrainInv'
  BY <1>4, <1>1 DEF Stall, Land
<1>5. ASSUME NEW p \in Procs, Reconnect(p)
      PROVE  DrainInv'
  BY <1>5, <1>1 DEF Reconnect
<1>6. ASSUME NEW p \in Procs, Drop(p)
      PROVE  DrainInv'
  <2>1. UNCHANGED <<host, scan, phase, timer, running>>
    BY <1>6 DEF Drop
  <2>2. ASSUME NEW w \in Webs, NEW i \in 1..Len(calls'[w])
        PROVE  \E k \in 1..Len(calls[w]) : /\ calls[w][k].op = calls'[w][i].op
                                           /\ calls[w][k].job = calls'[w][i].job
    <3>1. /\ i \in 1..Len(calls[w])
          /\ calls'[w][i] \in {calls[w][i], [calls[w][i] EXCEPT !.copy = NoRec]}
      BY <1>6, DroppedReplies DEF Procs
    <3>2. calls[w][i] \in Call
      BY <3>1 DEF TypeOK, Procs
    <3>3. QED
      BY <3>1, <3>2 DEF Call
  <2>3. QED
    BY <1>d, <2>1, <2>2, DrainFrame DEF Busy
<1>7. ASSUME NEW e \in Execs, Progress(e)
      PROVE  DrainInv'
  <2> DEFINE p == host[e]
             c == [op |-> "progress", job |-> scan[e], status |-> "failed",
                   by |-> NoOne, copy |-> redis[scan[e]]]
  <2>1. UNCHANGED <<host, scan, phase, timer, running>>
    BY <1>7 DEF Progress
  <2>2. p \in Procs
    BY <1>7 DEF Progress, Slots
  <2>3. UNCHANGED calls \/ calls' = [calls EXCEPT ![p] = Append(@, c)]
    BY <1>7 DEF Progress
  <2>4. c.op # "resolve"
    OBVIOUS
  <2> HIDE DEF c, p
  <2>5. ASSUME calls' = [calls EXCEPT ![p] = Append(@, c)]
        PROVE  \A q \in Procs : \A i \in 1..Len(calls'[q]) :
                 \/ i \in 1..Len(calls[q]) /\ calls'[q][i] = calls[q][i]
                 \/ calls'[q][i].op # "resolve"
    BY <2>2, <2>4, <2>5, AppendedReply
  <2>6. \A q \in Webs : \A i \in 1..Len(calls'[q]) :
           \/ i \in 1..Len(calls[q]) /\ calls'[q][i] = calls[q][i]
           \/ calls'[q][i].op # "resolve"
    BY <2>3, <2>5 DEF Procs
  <2>7. QED
    BY <1>d, <2>1, <2>6, DrainFrame DEF Busy
\* A step of execution e that ends its being busy may resolve its scan, for
\* no other execution of the process has that scan.
<1>8. ASSUME NEW e \in Execs, host[e] \in Procs, scan[e] \in Jobs,
             UNCHANGED <<host, scan>>, ~Busy(e)',
             \A x \in Execs : Busy(x)' => Busy(x),
             \A x \in Execs : phase'[x] = "free" => phase[x] = "free",
             Done(host[e], scan[e]) \/ UNCHANGED running,
             \A q \in Procs : \A i \in 1..Len(calls'[q]) :
               \/ i \in 1..Len(calls[q]) /\ calls'[q][i] = calls[q][i]
               \/ q = host[e] /\ calls'[q][i].job = scan[e]
      PROVE  DrainInv'
  <2>1. \A x \in Execs : Busy(x)' /\ host[x] \in Webs
                         => scan[x] \in running'[host[x]]
    <3> SUFFICES ASSUME NEW x \in Execs, Busy(x)', host[x] \in Webs
                 PROVE  scan[x] \in running'[host[x]]
      OBVIOUS
    <3>1. scan[x] \in running[host[x]] /\ x # e
      BY <1>8, <1>d
    <3>2. host[x] = host[e] => scan[x] # scan[e]
      BY <1>d, <3>1
    <3>3. host[x] \in Procs
      BY DEF Procs
    <3>4. CASE UNCHANGED running
      BY <3>1, <3>4
    <3>5. CASE Done(host[e], scan[e])
      <4>1. running' = [running EXCEPT ![host[e]] = @ \ {scan[e]}]
        BY <3>5 DEF Done
      <4>2. \/ running'[host[x]] = running[host[x]]
            \/ /\ host[x] = host[e]
               /\ running'[host[x]] = running[host[x]] \ {scan[e]}
        BY <3>3, <4>1 DEF TypeOK
      <4>3. QED
        BY <3>1, <3>2, <4>2
    <3>6. QED
      BY <1>8, <3>4, <3>5
  <2>2. \A x \in Execs : host[e] \in Webs /\ host[x] = host[e] /\ scan[x] = scan[e]
                         => ~Busy(x)'
    BY <1>8, <1>d
  <2>3. QED
    BY <1>8, <2>1, <2>2, DrainFrame DEF Procs
<1>9. ASSUME NEW e \in Execs, NEW v \in Verdicts, Conclude(e, v)
      PROVE  DrainInv'
  <2> DEFINE p == host[e]
             j == scan[e]
  <2>1. p \in Procs /\ j \in Jobs
    BY <1>9 DEF Conclude, Concluded, Slots
  <2>2. CallResolve(p, j, StatusOf(v), e) /\ (Done(p, j) \/ UNCHANGED running)
    BY <1>9 DEF Conclude
  <2>3. /\ UNCHANGED <<host, scan, timer>>
        /\ \/ phase' = [phase EXCEPT ![e] = "fetching"]
           \/ phase' = [phase EXCEPT ![e] = "settling"]
    BY <1>9 DEF Conclude
  <2>4. /\ ~Busy(e)'
        /\ \A x \in Execs : Busy(x)' => Busy(x)
        /\ \A x \in Execs : phase'[x] = "free" => phase[x] = "free"
    BY <2>3 DEF Busy, TypeOK
  <2>5. \A q \in Procs : \A i \in 1..Len(calls'[q]) :
           \/ i \in 1..Len(calls[q]) /\ calls'[q][i] = calls[q][i]
           \/ q = p /\ calls'[q][i].job = j
    <3> HIDE DEF p, j
    <3>1. QED
      BY <2>1, <2>2, CallResolveReplies
  <2>6. QED
    BY <1>8, <2>1, <2>2, <2>3, <2>4, <2>5
<1>10. ASSUME NEW e \in Execs, Deadline(e)
       PROVE  DrainInv'
  <2> DEFINE p == host[e]
             j == scan[e]
  <2>1. p \in Procs /\ j \in Jobs
    BY <1>10 DEF Deadline, Slots
  <2>2. CallResolve(p, j, "failed", NoOne) /\ Done(p, j)
    BY <1>10 DEF Deadline
  <2>3. /\ UNCHANGED <<host, scan, phase>>
        /\ timer' = [timer EXCEPT ![e] = "fired"]
    BY <1>10 DEF Deadline
  <2>4. /\ ~Busy(e)'
        /\ \A x \in Execs : Busy(x)' => Busy(x)
        /\ \A x \in Execs : phase'[x] = "free" => phase[x] = "free"
    BY <2>3 DEF Busy, TypeOK
  <2>5. \A q \in Procs : \A i \in 1..Len(calls'[q]) :
           \/ i \in 1..Len(calls[q]) /\ calls'[q][i] = calls[q][i]
           \/ q = p /\ calls'[q][i].job = j
    <3> HIDE DEF p, j
    <3>1. QED
      BY <2>1, <2>2, CallResolveReplies
  <2>6. QED
    BY <1>8, <2>1, <2>2, <2>3, <2>4, <2>5
<1>11. ASSUME NEW e \in Execs, Settle(e)
       PROVE  DrainInv'
  <2>1. host[e] \in Procs /\ scan[e] \in Jobs
    BY <1>11 DEF Settle, Slots
  <2>2. /\ UNCHANGED <<host, scan, timer, calls>> /\ Done(host[e], scan[e])
        /\ phase[e] = "settling" /\ phase' = [phase EXCEPT ![e] = "done"]
    BY <1>11 DEF Settle
  <2>3. /\ ~Busy(e)'
        /\ \A x \in Execs : Busy(x)' => Busy(x)
        /\ \A x \in Execs : phase'[x] = "free" => phase[x] = "free"
    BY <2>2 DEF Busy, TypeOK
  <2>4. QED
    BY <1>8, <2>1, <2>2, <2>3
<1>12. ASSUME NEW p \in Procs, HandleReply(p)
       PROVE  DrainInv'
  <2> DEFINE c == Head(calls[p])
  <2>1. c \in Call /\ c = calls[p][1] /\ 1 \in 1..Len(calls[p])
    <3>1. calls[p] \in Seq(Call) /\ calls[p] # <<>>
      BY <1>12 DEF HandleReply, TypeOK
    <3>2. QED
      BY <3>1
  <2>2. c.job \in Jobs
    BY <2>1 DEF Call
  <2>3. UNCHANGED <<host, scan, timer>>
    BY <1>12 DEF HandleReply
  <2>4. \A x \in Execs : /\ Busy(x)' => Busy(x)
                         /\ phase'[x] = "free" => phase[x] = "free"
    BY <1>12 DEF HandleReply, Busy
  <2>5. UNCHANGED running \/ (Done(p, c.job) /\ c.op = "resolve")
    BY <1>12 DEF HandleReply
  <2>6. c.op = "resolve" => \A x \in Execs :
          host[x] = p /\ p \in Webs /\ scan[x] = c.job => ~Busy(x)
    BY <2>1 DEF DrainInv, RepliesAreLate
  <2>7. \A x \in Execs : Busy(x)' /\ host[x] \in Webs
                         => scan[x] \in running'[host[x]]
    <3> HIDE DEF c
    <3> SUFFICES ASSUME NEW x \in Execs, Busy(x)', host[x] \in Webs
                 PROVE  scan[x] \in running'[host[x]]
      OBVIOUS
    <3>1. scan[x] \in running[host[x]] /\ Busy(x)
      BY <1>d, <2>4
    <3>2. c.op = "resolve" /\ host[x] = p => scan[x] # c.job
      BY <2>6, <3>1
    <3>3. host[x] \in Procs
      BY DEF Procs
    <3>4. QED
      BY <2>2, <2>5, <3>1, <3>2, <3>3 DEF Done, TypeOK
  <2>8. \A q \in Webs : \A i \in 1..Len(calls'[q]) :
           \E k \in 1..Len(calls[q]) : calls'[q][i] = calls[q][k]
    BY <1>12, OlderReplies DEF Procs
  <2>9. QED
    BY <2>3, <2>4, <2>7, <2>8, DrainFrame
<1>13. ASSUME NEW w \in Webs, NEW j \in Jobs, NEW e \in Execs, Inline(w, j, e)
       PROVE  DrainInv'
  <2>1. /\ phase[e] = "free" /\ host[e] = NoOne
        /\ dispatch[j] = "accepted" /\ j \in running[w]
        /\ phase' = [phase EXCEPT ![e] = "collecting"]
        /\ host' = [host EXCEPT ![e] = w]
        /\ scan' = [scan EXCEPT ![e] = j]
        /\ timer' = [timer EXCEPT ![e] = "armed"]
        /\ UNCHANGED <<running, calls>>
    BY <1>13 DEF Inline, StartExec, DrainInv, FreeSlots
  <2>2. /\ \A x \in Execs : x # e => /\ host'[x] = host[x] /\ scan'[x] = scan[x]
                                     /\ phase'[x] = phase[x]
        /\ host'[e] = w /\ scan'[e] = j /\ phase'[e] = "collecting"
    BY <2>1 DEF TypeOK
  <2>10. \A x \in Execs : x # e => (Busy(x)' <=> Busy(x))
    BY <2>1 DEF Busy, TypeOK
  <2>3. \A x \in Execs : host[x] \in Webs => scan[x] # j
    <3>1. \A x \in Execs : host[x] \in Webs => phase[x] # "free"
      BY ProcsAssumption DEF DrainInv, FreeSlots, Procs
    <3>2. QED
      BY <2>1, <3>1 DEF Undertaken, Sent
  <2>4. \A q \in Webs : \A i \in 1..Len(calls[q]) :
          calls[q][i].op = "resolve" => calls[q][i].job # j
    BY <2>1 DEF HonestState, HonestCall, Sent, Procs
  <2>5. FreeSlots'
    BY <2>2 DEF DrainInv, FreeSlots
  <2>6. OneEach'
    BY <1>d, <2>1, <2>2, <2>3 DEF OneEach
  <2>7. RepliesAreLate'
    BY <2>1, <2>2, <2>10, <2>4 DEF DrainInv, RepliesAreLate
  <2>8. DrainKnowsInlineScans'
    <3>1. \A x \in Execs : Busy(x)' /\ host'[x] \in Webs
                           => scan'[x] \in running'[host'[x]]
      BY <1>d, <2>1, <2>2, <2>10
    <3>2. QED
      BY <3>1 DEF DrainKnowsInlineScans, Busy
  <2>9. QED
    BY <2>5, <2>6, <2>7, <2>8 DEF DrainInv
<1>14. ASSUME NEW p \in Workers, NEW j \in Jobs, NEW e \in Execs, Dequeue(p, j, e)
       PROVE  DrainInv'
  <2>1. /\ phase[e] = "free" /\ p \notin Webs
        /\ phase' = [phase EXCEPT ![e] = "collecting"]
        /\ host' = [host EXCEPT ![e] = p]
        /\ scan' = [scan EXCEPT ![e] = j]
        /\ timer' = [timer EXCEPT ![e] = "armed"]
        /\ UNCHANGED <<running, calls>>
    BY <1>14, ProcsAssumption DEF Dequeue, StartExec
  <2>2. /\ \A x \in Execs : x # e => /\ host'[x] = host[x] /\ scan'[x] = scan[x]
                                     /\ phase'[x] = phase[x]
        /\ host'[e] = p /\ phase'[e] = "collecting"
    BY <2>1 DEF TypeOK
  <2>10. \A x \in Execs : x # e => (Busy(x)' <=> Busy(x))
    BY <2>1 DEF Busy, TypeOK
  <2>3. FreeSlots'
    BY <2>2 DEF DrainInv, FreeSlots
  <2>4. OneEach'
    BY <1>d, <2>1, <2>2 DEF OneEach
  <2>5. RepliesAreLate'
    BY <2>1, <2>2, <2>10 DEF DrainInv, RepliesAreLate
  <2>6. DrainKnowsInlineScans'
    <3>1. \A x \in Execs : Busy(x)' /\ host'[x] \in Webs
                           => scan'[x] \in running'[host'[x]]
      BY <1>d, <2>1, <2>2, <2>10
    <3>2. QED
      BY <3>1 DEF DrainKnowsInlineScans, Busy
  <2>7. QED
    BY <2>3, <2>4, <2>5, <2>6 DEF DrainInv
\* Slots that are given up by their process leave the others as they are.
<1>15. ASSUME NEW dead \in SUBSET Execs,
              \A x \in Execs : IF x \in dead
                               THEN host'[x] = NoOne /\ ~Busy(x)'
                               ELSE /\ host'[x] = host[x] /\ scan'[x] = scan[x]
                                    /\ Busy(x)' => Busy(x)
                                    /\ phase'[x] = phase[x],
              \A q \in Procs : calls'[q] \in {calls[q], <<>>},
              \A q \in Procs : \/ running'[q] = running[q]
                               \/ \A x \in Execs : host'[x] # q
       PROVE  DrainInv'
  <2>1. NoOne \notin Webs
    BY ProcsAssumption DEF Procs
  <2>2. FreeSlots'
    BY <1>15 DEF DrainInv, FreeSlots
  <2>3. OneEach'
    BY <1>15, <1>d, <2>1 DEF OneEach
  <2>4. RepliesAreLate'
    <3>1. \A q \in Webs : \A i \in 1..Len(calls'[q]) : calls'[q] = calls[q]
      BY <1>15 DEF Procs
    <3>2. QED
      BY <1>15, <2>1, <3>1 DEF DrainInv, RepliesAreLate
  <2>5. DrainKnowsInlineScans'
    <3>1. \A x \in Execs : Busy(x)' /\ host'[x] \in Webs
                           => scan'[x] \in running'[host'[x]]
      BY <1>15, <1>d, <2>1 DEF Procs
    <3>2. QED
      BY <3>1 DEF DrainKnowsInlineScans, Busy
  <2>6. QED
    BY <2>2, <2>3, <2>4, <2>5 DEF DrainInv
<1>16. ASSUME NEW e \in Execs, Reclaim(e)
       PROVE  DrainInv'
  <2>1. \A x \in Execs : IF x \in {e}
                         THEN host'[x] = NoOne /\ ~Busy(x)'
                         ELSE /\ host'[x] = host[x] /\ scan'[x] = scan[x]
                              /\ Busy(x)' => Busy(x)
                              /\ phase'[x] = phase[x]
    BY <1>16 DEF Reclaim, Busy, TypeOK
  <2>2. UNCHANGED <<calls, running>>
    BY <1>16 DEF Reclaim
  <2>3. {e} \in SUBSET Execs
    OBVIOUS
  <2>4. QED
    BY <1>15, <2>1, <2>2, <2>3
<1>17. ASSUME NEW p \in Procs, Crash(p)
       PROVE  DrainInv'
  <2> DEFINE dead == {e \in Execs : host[e] = p}
  <2>1. \A x \in Execs : IF x \in dead
                         THEN host'[x] = NoOne /\ ~Busy(x)'
                         ELSE /\ host'[x] = host[x] /\ scan'[x] = scan[x]
                              /\ Busy(x)' => Busy(x)
                              /\ phase'[x] = phase[x]
    BY <1>17 DEF Crash, Busy
  <2>2. \A q \in Procs : calls'[q] \in {calls[q], <<>>}
    BY <1>17 DEF Crash, TypeOK
  <2>3. \A q \in Procs : \/ running'[q] = running[q]
                         \/ \A x \in Execs : host'[x] # q
    <3>1. \A q \in Procs : q # p => running'[q] = running[q]
      BY <1>17 DEF Crash, TypeOK
    <3>2. \A x \in Execs : host'[x] # p
      BY <1>17, ProcsAssumption DEF Crash
    <3>3. QED
      BY <3>1, <3>2
  <2>4. dead \in SUBSET Execs
    OBVIOUS
  <2> HIDE DEF dead
  <2>5. QED
    BY <1>15, <2>1, <2>2, <2>3, <2>4
<1>18. CASE UNCHANGED vars
  BY <1>18, <1>1 DEF vars
<1>19. QED
  <2>1. CASE WebStep
    BY <2>1, <1>2, <1>13 DEF WebStep
  <2>2. CASE \E e \in Execs : ExecStep(e)
    BY <2>2, <1>3, <1>7, <1>9, <1>10, <1>11, <1>16 DEF ExecStep
  <2>3. QED
    BY <2>1, <2>2, <1>4, <1>5, <1>6, <1>12, <1>14, <1>17, <1>18 DEF Next

\* The SIGTERM drain of a web instance knows every scan that runs in process
\* and has no verdict yet, however many calls, polls, deadlines and crashes
\* came before.
THEOREM DrainKnows == Spec => []DrainKnowsInlineScans
<1> DEFINE J == IInv /\ DrainInv
<1>1. Init => J
  BY TypeInit, HonestInit, DrainInit DEF IInv
<1>2. J /\ [Next]_vars => J'
  BY TypeStep, UndertakenStep, HonestStep, DrainStep DEF IInv
<1>3. J => DrainKnowsInlineScans
  BY DEF DrainInv
<1>4. QED
  BY <1>1, <1>2, <1>3, PTL DEF Spec
-----------------------------------------------------------------------------
(* One verdict for a scan that runs in process.                            *)

\* Without the queue a scan has at most one execution, in a process that has
\* met the scan and never asks Redis for it.
InProcess ==
  /\ \A j \in Jobs : bull[j] = "absent" /\ owner[j] = NoOne
  /\ \A p \in Procs : calls[p] = <<>>
  /\ \A p \in Procs, j \in Jobs : j \in running[p] => Known(store[p][j])
  /\ \A e \in Execs : phase[e] # "free" => Known(store[host[e]][scan[e]])
  /\ \A e, f \in Execs :
       phase[e] # "free" /\ phase[f] # "free" /\ scan[e] = scan[f] => e = f

\* The verdicts that a copy of the record or a poll has given of a scan.
Said(j) ==
  {s \in Terminal : \/ \E p \in Procs : store[p][j].status = s
                    \/ redis[j].status = s
                    \/ s \in shown[j]}

\* There is one, the process of the execution is the first to say it, and of
\* a scan not yet sent nothing is said but a sample's success.
OneVerdict == \A j \in Jobs : \A s, t \in Said(j) : s = t
HostFirst ==
  \A e \in Execs : phase[e] # "free" =>
    Said(scan[e]) = {} \/ Resolved(store[host[e]][scan[e]])
SaidOfSent ==
  \A j \in Jobs : \/ Said(j) = {} \/ Sent(j)
                  \/ dispatch[j] = "sample" /\ Said(j) \subseteq {"succeeded"}

VerdictInv == InProcess /\ OneVerdict /\ HostFirst /\ SaidOfSent

LEMMA VerdictInit == Init => VerdictInv
<1> SUFFICES ASSUME Init PROVE VerdictInv
  OBVIOUS
<1>1. \A j \in Jobs : Said(j) = {}
  BY DEF Init, Said, NoRec, Terminal
<1>2. InProcess
  BY DEF Init, InProcess
<1>3. QED
  BY <1>1, <1>2 DEF Init, VerdictInv, OneVerdict, HostFirst, SaidOfSent

\* A step that starts no execution and loses no record keeps the process.
LEMMA InProcessFrame ==
  ASSUME InProcess,
         \A j \in Jobs : bull'[j] = "absent" /\ owner'[j] = NoOne,
         \A p \in Procs : calls'[p] = <<>>,
         \A p \in Procs, j \in Jobs : /\ j \in running'[p] => j \in running[p]
                                      /\ Known(store[p][j]) => Known(store'[p][j]),
         \A e \in Execs : phase'[e] # "free" =>
           /\ phase[e] # "free" /\ host'[e] = host[e] /\ scan'[e] = scan[e]
           /\ host[e] \in Procs /\ scan[e] \in Jobs
  PROVE  InProcess'
<1>1. \A e \in Execs : phase'[e] # "free" => Known(store'[host'[e]][scan'[e]])
  BY DEF InProcess
<1>2. \A e, f \in Execs :
        phase'[e] # "free" /\ phase'[f] # "free" /\ scan'[e] = scan'[f] => e = f
  BY DEF InProcess
<1>3. \A p \in Procs, j \in Jobs : j \in running'[p] => Known(store'[p][j])
  BY DEF InProcess
<1>4. QED
  BY <1>1, <1>2, <1>3 DEF InProcess, Known

\* The process has the verdict s of scan j, if it had none before, and perhaps
\* publishes it.
Decides(p, j, s) ==
  /\ UNCHANGED calls
  /\ Resolved(store[p][j]) => UNCHANGED <<store, redis>>
  /\ ~Resolved(store[p][j]) => \E r \in Record :
       /\ r.status = s
       /\ store' = [store EXCEPT ![p][j] = r]
       /\ redis' = [redis EXCEPT ![j] = r] \/ UNCHANGED redis

\* CallResolve of an execution resolves at once, from its process's own copy.
LEMMA HostResolves ==
  ASSUME TypeOK, InProcess, NEW e \in Execs, phase[e] # "free",
         NEW p \in Procs, NEW j \in Jobs, p = host[e], j = scan[e],
         NEW s \in Terminal, NEW x, CallResolve(p, j, s, x)
  PROVE  Decides(p, j, s)
<1>1. ~MustFetch(p, j) /\ Known(store[p][j])
  BY DEF MustFetch, InProcess
<1>2. Resolve(p, j, store[p][j], s) /\ UNCHANGED calls
  BY <1>1 DEF CallResolve
<1>3. ASSUME ~Resolved(store[p][j])
      PROVE  \E r \in Record : /\ r.status = s
                               /\ store' = [store EXCEPT ![p][j] = r]
                               /\ redis' = [redis EXCEPT ![j] = r] \/ UNCHANGED redis
  <2> DEFINE r == [real |-> store[p][j].real, status |-> s, at |-> clock + 1]
  <2>1. r \in Record
    BY DEF TypeOK, Record
  <2>2. store' = [store EXCEPT ![p][j] = r] /\ Publish(p, j, r)
    BY <1>2, <1>3 DEF Resolve
  <2>3. r.status = s
    OBVIOUS
  <2> HIDE DEF r
  <2>4. QED
    BY <2>1, <2>2, <2>3 DEF Publish
<1>4. QED
  BY <1>1, <1>2, <1>3 DEF Resolve, Decides

LEMMA ResolveKeepsKnown ==
  ASSUME TypeOK, NEW p \in Procs, NEW j \in Jobs, NEW r \in Record,
         r.status \in Terminal, store' = [store EXCEPT ![p][j] = r]
  PROVE  \A q \in Procs, k \in Jobs : Known(store[q][k]) => Known(store'[q][k])
BY DEF TypeOK, Known, Terminal

LEMMA DoneForgets ==
  ASSUME TypeOK, NEW p \in Procs, NEW j \in Jobs, Done(p, j)
  PROVE  \A q \in Procs, k \in Jobs : k \in running'[q] => k \in running[q]
BY DEF TypeOK, Done

\* Nothing but a job in the queue is done by the queue.
LEMMA QueueIdle ==
  ASSUME InProcess, NEW e \in Execs,
         UNCHANGED bullVars \/ \E ok \in BOOLEAN : Finish(e, ok)
  PROVE  \A j \in Jobs : bull'[j] = "absent" /\ owner'[j] = NoOne
BY ProcsAssumption DEF InProcess, Finish, bullVars

LEMMA InProcessStep ==
  ASSUME "queue" \notin Modes, TypeOK, Slots, Undertaken, HonestState, DrainInv,
         InProcess, [Next]_vars
  PROVE  InProcess'
<1> USE DEF execVars, procVars, bullVars, bounds
<1>s. \A e \in Execs : phase[e] # "free" => host[e] \in Procs /\ scan[e] \in Jobs
  BY DEF Slots
<1>1. ASSUME NEW w \in Webs, NEW j \in Jobs, Enqueue(w, j)
      PROVE  InProcess'
  <2>1. PICK r : Known(r) /\ store' = [store EXCEPT ![w][j] = r]
    BY <1>1 DEF Enqueue, QueuedRecord, Known
  <2>2. \A p \in Procs, k \in Jobs :
          /\ Known(store[p][k]) => Known(store'[p][k])
          /\ p = w /\ k = j => Known(store'[p][k])
    BY <2>1 DEF TypeOK
  <2>3. \A p \in Procs, k \in Jobs :
          k \in running'[p] => k \in running[p] \/ (p = w /\ k = j)
    BY <1>1 DEF Enqueue, TypeOK
  <2>4. UNCHANGED <<bull, owner, calls, phase, host, scan>>
    BY <1>1 DEF Enqueue
  <2>5. QED
    BY <1>s, <2>2, <2>3, <2>4 DEF InProcess, Known
<1>2. ASSUME NEW w \in Webs, NEW j \in Jobs, ToQueue(w, j)
      PROVE  FALSE
  BY <1>2 DEF ToQueue
<1>3. ASSUME NEW w \in Webs, NEW j \in Jobs, NEW e \in Execs, Inline(w, j, e)
      PROVE  InProcess'
  <2>1. /\ phase[e] = "free" /\ dispatch[j] = "accepted" /\ j \in running[w]
        /\ UNCHANGED <<bull, owner, calls, running, store>>
        /\ phase' = [phase EXCEPT ![e] = "collecting"]
        /\ host' = [host EXCEPT ![e] = w]
        /\ scan' = [scan EXCEPT ![e] = j]
    BY <1>3 DEF Inline, StartExec
  <2>2. /\ phase'[e] # "free" /\ host'[e] = w /\ scan'[e] = j /\ w \in Procs
        /\ \A x \in Execs : x # e => /\ phase'[x] = phase[x] /\ host'[x] = host[x]
                                     /\ scan'[x] = scan[x]
    BY <2>1 DEF TypeOK, Procs
  <2>3. \A x \in Execs : phase[x] # "free" => scan[x] # j
    BY <2>1 DEF Undertaken, Sent
  <2>4. \A x \in Execs : phase'[x] # "free" => Known(store[host'[x]][scan'[x]])
    BY <2>1, <2>2 DEF InProcess
  <2>5. \A x, y \in Execs :
          phase'[x] # "free" /\ phase'[y] # "free" /\ scan'[x] = scan'[y] => x = y
    BY <2>2, <2>3 DEF InProcess
  <2>6. QED
    BY <2>1, <2>4, <2>5 DEF InProcess
<1>4. ASSUME UNCHANGED <<bull, owner, calls, phase, host, scan>>,
             \A p \in Procs, j \in Jobs : /\ j \in running'[p] => j \in running[p]
                                          /\ Known(store[p][j]) => Known(store'[p][j])
      PROVE  InProcess'
  BY <1>4, <1>s, InProcessFrame DEF InProcess
<1>5. ASSUME NEW w \in Webs, NEW j \in Jobs, AddError(w, j)
      PROVE  InProcess'
  BY <1>5, <1>4 DEF AddError
<1>6. ASSUME NEW w \in Webs, NEW j \in Jobs, Poll(w, j)
      PROVE  InProcess'
  <2> DEFINE remote == IF conn[w] = "ready" THEN redis[j] ELSE NoRec
             newer == PickNewer(store[w][j], remote)
  <2>1. Known(store[w][j]) => Known(newer)
    BY DEF PickNewer
  <2>2. store' = [store EXCEPT ![w][j] = newer]
    BY <1>6 DEF Poll
  <2> HIDE DEF newer
  <2>3. \A p \in Procs, k \in Jobs : Known(store[p][k]) => Known(store'[p][k])
    BY <2>1, <2>2 DEF TypeOK
  <2>4. UNCHANGED <<bull, owner, calls, phase, host, scan, running>>
    BY <1>6 DEF Poll
  <2>5. QED
    BY <1>4, <2>3, <2>4
<1>7. ASSUME NEW p \in Workers, NEW j \in Jobs, NEW e \in Execs, Dequeue(p, j, e)
      PROVE  FALSE
  BY <1>7 DEF Dequeue, InProcess
<1>8. ASSUME NEW e \in Execs, Progress(e)
      PROVE  InProcess'
  <2>1. Known(store[host[e]][scan[e]])
    BY <1>8 DEF Progress, InProcess
  <2>2. UNCHANGED <<bull, owner, calls, phase, host, scan, running, store>>
    BY <1>8, <2>1 DEF Progress
  <2>3. QED
    BY <1>4, <2>2
<1>9. ASSUME NEW e \in Execs, StoreDrift(e)
      PROVE  InProcess'
  <2>1. /\ UNCHANGED <<bull, owner, calls, host, scan, running, store>>
        /\ \A x \in Execs : phase'[x] # "free" => phase[x] # "free"
    BY <1>9 DEF StoreDrift, TypeOK
  <2>2. QED
    BY <1>s, <2>1, InProcessFrame DEF InProcess
<1>10. ASSUME NEW e \in Execs,
              \/ \E v \in Verdicts : Conclude(e, v)
              \/ Deadline(e)
       PROVE  InProcess'
  <2>1. phase[e] # "free"
    BY <1>10, ProcsAssumption
       DEF Conclude, Concluded, Deadline, Slots, DrainInv, FreeSlots
  <2>2. PICK p \in Procs, j \in Jobs : p = host[e] /\ j = scan[e]
    BY <1>s, <2>1
  <2>3. PICK s \in Terminal, by \in Execs \cup {NoOne} : CallResolve(p, j, s, by)
    BY <1>10, <2>2 DEF Conclude, Deadline, StatusOf, Terminal
  <2>4. /\ UNCHANGED calls
        /\ \A q \in Procs, k \in Jobs : Known(store[q][k]) => Known(store'[q][k])
    <3>1. Decides(p, j, s)
      BY <2>1, <2>2, <2>3, HostResolves
    <3>2. QED
      BY <3>1, ResolveKeepsKnown DEF Decides
  <2>5. /\ UNCHANGED <<host, scan>>
        /\ \A x \in Execs : phase'[x] # "free" => phase[x] # "free"
    BY <1>10, <2>1 DEF Conclude, Deadline, TypeOK
  <2>6. \A q \in Procs, k \in Jobs : k \in running'[q] => k \in running[q]
    <3>1. Done(p, j) \/ UNCHANGED running
      BY <1>10, <2>2 DEF Conclude, Deadline
    <3>2. QED
      BY <3>1, DoneForgets
  <2>7. \A k \in Jobs : bull'[k] = "absent" /\ owner'[k] = NoOne
    BY <1>10, QueueIdle DEF Conclude, Deadline
  <2>8. QED
    BY <1>s, <2>4, <2>5, <2>6, <2>7, InProcessFrame DEF InProcess
<1>11. ASSUME NEW e \in Execs, Settle(e) \/ Reclaim(e)
       PROVE  InProcess'
  <2>1. /\ UNCHANGED <<calls, store>>
        /\ \A x \in Execs : phase'[x] # "free" =>
             phase[x] # "free" /\ host'[x] = host[x] /\ scan'[x] = scan[x]
    BY <1>11 DEF Settle, Reclaim, TypeOK
  <2>2. \A q \in Procs, k \in Jobs : k \in running'[q] => k \in running[q]
    <3>1. CASE Settle(e)
      <4>1. PICK p \in Procs, j \in Jobs : p = host[e] /\ j = scan[e]
        BY <1>s, <3>1 DEF Settle
      <4>2. Done(p, j)
        BY <3>1, <4>1 DEF Settle
      <4>3. QED
        BY <4>2, DoneForgets
    <3>2. CASE Reclaim(e)
      BY <3>2 DEF Reclaim
    <3>3. QED
      BY <1>11, <3>1, <3>2
  <2>3. \A k \in Jobs : bull'[k] = "absent" /\ owner'[k] = NoOne
    BY <1>11, QueueIdle DEF Settle, Reclaim
  <2>4. QED
    BY <1>s, <2>1, <2>2, <2>3, InProcessFrame DEF InProcess
<1>12. ASSUME NEW p \in Procs, HandleReply(p)
       PROVE  FALSE
  BY <1>12 DEF HandleReply, InProcess
<1>13. ASSUME NEW p \in Procs, Reconnect(p)
       PROVE  InProcess'
  BY <1>13, <1>4 DEF Reconnect
<1>14. ASSUME NEW p \in Procs, Drop(p)
       PROVE  InProcess'
  <2>1. UNCHANGED <<bull, owner, phase, host, scan, running, store>>
    BY <1>14 DEF Drop
  <2>2. ASSUME NEW q \in Procs PROVE calls'[q] = <<>>
    <3>1. Len(calls'[q]) = 0
      BY <1>14, DroppedReplies DEF InProcess
    <3>2. calls'[q] \in Seq(Call)
      BY TypeStep DEF TypeOK
    <3>3. QED
      BY <3>1, <3>2
  <2>3. QED
    BY <1>s, <2>1, <2>2, InProcessFrame DEF InProcess
<1>15. ASSUME NEW p \in Procs, Crash(p)
       PROVE  InProcess'
  <2>1. /\ \A q \in Procs : calls'[q] = <<>>
        /\ \A j \in Jobs : bull'[j] = "absent" /\ owner'[j] = NoOne
    BY <1>15 DEF Crash, InProcess, TypeOK
  <2>2. /\ \A q \in Procs : q # p => store'[q] = store[q] /\ running'[q] = running[q]
        /\ running'[p] = {}
    BY <1>15 DEF Crash, TypeOK
  <2>3. \A x \in Execs : phase'[x] # "free" =>
          /\ phase[x] # "free" /\ host'[x] = host[x] /\ scan'[x] = scan[x]
          /\ host[x] # p
    BY <1>15 DEF Crash
  <2>4. QED
    BY <1>s, <2>1, <2>2, <2>3 DEF InProcess
<1>16. ASSUME NEW j \in Jobs, Stall(j)
       PROVE  FALSE
  BY <1>16 DEF Stall, InProcess
<1>17. CASE UNCHANGED vars
  BY <1>17, <1>4 DEF vars
<1>land. ASSUME NEW j \in Jobs, Land(j)
         PROVE  InProcess'
  BY <1>land, <1>4 DEF Land
<1>18. QED
  <2>1. CASE WebStep
    BY <2>1, <1>1, <1>2, <1>3, <1>5, <1>6 DEF WebStep
  <2>2. CASE \E e \in Execs : ExecStep(e)
    BY <2>2, <1>8, <1>9, <1>10, <1>11 DEF ExecStep
  <2>3. QED
    BY <2>1, <2>2, <1>7, <1>12, <1>13, <1>14, <1>15, <1>16, <1>17,
       <1>land DEF Next

\* A step after which no more is said than before keeps the verdicts when no
\* process of an execution loses its own.
LEMMA SaidLess ==
  ASSUME OneVerdict, HostFirst, SaidOfSent, Carry,
         \A k \in Jobs : Said(k)' \subseteq Said(k),
         \A e \in Execs : phase'[e] # "free" =>
           /\ phase[e] # "free" /\ host'[e] = host[e] /\ scan'[e] = scan[e]
           /\ scan[e] \in Jobs
           /\ Resolved(store[host[e]][scan[e]]) => Resolved(store'[host[e]][scan[e]])
  PROVE  OneVerdict' /\ HostFirst' /\ SaidOfSent'
<1>1. OneVerdict'
  BY DEF OneVerdict
<1>2. HostFirst'
  <2> SUFFICES ASSUME NEW e \in Execs, phase'[e] # "free"
               PROVE  Said(scan[e])' = {} \/ Resolved(store[host[e]][scan[e]])'
    BY DEF HostFirst
  <2>1. PICK j \in Jobs : j = scan[e] /\ scan'[e] = j
    OBVIOUS
  <2>2. Said(j) = {} \/ Resolved(store[host[e]][j])
    BY <2>1 DEF HostFirst
  <2>3. Said(j)' = {} \/ Resolved(store'[host'[e]][j])
    BY <2>1, <2>2
  <2>4. Said(scan[e])' = Said(j)'
    BY <2>1 DEF Said
  <2>5. QED
    BY <2>1, <2>3, <2>4 DEF Resolved
<1>3. SaidOfSent'
  <2>1. \A k \in Jobs : /\ Sent(k) => Sent(k)'
                        /\ dispatch[k] = "sample" => dispatch'[k] = "sample"
    BY DEF Carry, Sent, SentNext
  <2>2. QED
    BY <2>1 DEF SaidOfSent
<1>4. QED
  BY <1>1, <1>2, <1>3

\* The step of TerminalKept.
VerdictsKept ==
  \A j \in Jobs :
    /\ \A p \in Procs :
         Resolved(store[p][j]) =>
           store'[p][j].status \in {store[p][j].status, "none"}
    /\ Resolved(redis[j]) => redis'[j] = redis[j]

\* An execution's verdict is the first, or changes nothing.
LEMMA SaidFirst ==
  ASSUME TypeOK, InProcess, OneVerdict, HostFirst, SaidOfSent, Carry,
         NEW e \in Execs, phase[e] # "free",
         NEW p \in Procs, NEW j \in Jobs, p = host[e], j = scan[e],
         NEW s \in Terminal, Sent(j), Decides(p, j, s),
         UNCHANGED <<host, scan, shown, dispatch>>,
         \A x \in Execs : phase'[x] # "free" =>
           phase[x] # "free" /\ host[x] \in Procs /\ scan[x] \in Jobs
  PROVE  OneVerdict' /\ HostFirst' /\ SaidOfSent' /\ VerdictsKept
<1>1. CASE Resolved(store[p][j])
  <2>1. UNCHANGED <<store, redis>>
    BY <1>1 DEF Decides
  <2>2. \A k \in Jobs : Said(k)' = Said(k)
    BY <2>1 DEF Said
  <2>3. OneVerdict' /\ HostFirst' /\ SaidOfSent'
    BY <2>1, <2>2, SaidLess
  <2>4. VerdictsKept
    BY <2>1 DEF VerdictsKept
  <2>5. QED
    BY <2>3, <2>4
<1>2. CASE ~Resolved(store[p][j])
  <2>1. PICK r \in Record : /\ r.status = s
                            /\ store' = [store EXCEPT ![p][j] = r]
                            /\ redis' = [redis EXCEPT ![j] = r] \/ UNCHANGED redis
    BY <1>2 DEF Decides
  <2>2. /\ store'[p][j] = r
        /\ \A q \in Procs, k \in Jobs :
             store'[q][k] = store[q][k] \/ (q = p /\ k = j)
        /\ \A k \in Jobs : redis'[k] = redis[k] \/ (k = j /\ redis'[k] = r)
    BY <2>1 DEF TypeOK
  <2>3. Said(j) = {}
    BY <1>2 DEF HostFirst
  <2>4. /\ \A q \in Procs : store[q][j].status \notin Terminal
        /\ redis[j].status \notin Terminal /\ shown[j] = {}
    BY <2>3 DEF Said, TypeOK
  <2>5. \A k \in Jobs : Said(k)' \subseteq IF k = j THEN {s} ELSE Said(k)
    <3>1. ASSUME NEW t \in Said(j)' PROVE t = s
      BY <2>1, <2>2, <2>4, <3>1 DEF Said
    <3>2. ASSUME NEW k \in Jobs, k # j PROVE Said(k)' = Said(k)
      BY <2>2, <3>2 DEF Said
    <3>3. QED
      BY <3>1, <3>2
  <2>6. OneVerdict'
    BY <2>5 DEF OneVerdict
  <2>7. HostFirst'
    <3> SUFFICES ASSUME NEW x \in Execs, phase'[x] # "free"
                 PROVE  Said(scan[x])' = {} \/ Resolved(store[host[x]][scan[x]])'
      BY DEF HostFirst
    <3>1. PICK k \in Jobs, q \in Procs : /\ k = scan[x] /\ scan'[x] = k
                                         /\ q = host[x] /\ host'[x] = q
      OBVIOUS
    <3>2. Said(scan[x])' = Said(k)'
      BY <3>1 DEF Said
    <3>3. CASE k = j
      <4>1. x = e
        BY <3>1, <3>3 DEF InProcess
      <4>2. QED
        BY <2>1, <2>2, <3>1, <3>3, <4>1 DEF Resolved
    <3>4. CASE k # j
      <4>1. Said(k) = {} \/ Resolved(store[q][k])
        BY <3>1 DEF HostFirst
      <4>2. store'[q][k] = store[q][k] /\ Said(k)' \subseteq Said(k)
        BY <2>2, <2>5, <3>4
      <4>3. QED
        BY <3>1, <3>2, <4>1, <4>2 DEF Resolved
    <3>5. QED
      BY <3>3, <3>4
  <2>8. SaidOfSent'
    BY <2>5 DEF SaidOfSent, Sent
  <2>9. VerdictsKept
    BY <2>2, <2>4 DEF VerdictsKept, Resolved
  <2>10. QED
    BY <2>6, <2>7, <2>8, <2>9
<1>3. QED
  BY <1>1, <1>2

LEMMA VerdictStep ==
  ASSUME "queue" \notin Modes, IInv, DrainInv, VerdictInv, [Next]_vars
  PROVE  OneVerdict' /\ HostFirst' /\ SaidOfSent' /\ VerdictsKept
<1> USE DEF execVars, procVars, bullVars, bounds
<1> DEFINE Goal == OneVerdict' /\ HostFirst' /\ SaidOfSent' /\ VerdictsKept
<1>g. SUFFICES Goal
  OBVIOUS
<1>a. /\ TypeOK /\ Slots /\ Undertaken /\ HonestState /\ Carry
      /\ InProcess /\ OneVerdict /\ HostFirst /\ SaidOfSent
  BY StepCarries DEF IInv, VerdictInv
<1>s. \A e \in Execs : phase[e] # "free" => host[e] \in Procs /\ scan[e] \in Jobs
  BY <1>a DEF Slots
\* Steps that touch neither the records nor the reports.
<1>1. ASSUME UNCHANGED <<store, redis, shown>>,
             \A e \in Execs : phase'[e] # "free" =>
               phase[e] # "free" /\ host'[e] = host[e] /\ scan'[e] = scan[e]
      PROVE  Goal
  <2>1. \A k \in Jobs : Said(k)' = Said(k)
    BY <1>1 DEF Said
  <2>2. OneVerdict' /\ HostFirst' /\ SaidOfSent'
    BY <1>1, <1>a, <1>s, <2>1, SaidLess
  <2>3. QED
    BY <1>1, <2>2 DEF VerdictsKept
<1>2. ASSUME NEW w \in Webs, NEW j \in Jobs, Enqueue(w, j)
      PROVE  Goal
  <2>1. PICK r : /\ r.status = "open"
                 /\ store' = [store EXCEPT ![w][j] = r]
                 /\ redis' = [redis EXCEPT ![j] = r] \/ UNCHANGED redis
    <3>1. PICK real \in BOOLEAN :
            /\ store' = [store EXCEPT ![w][j] = QueuedRecord(real)]
            /\ Publish(w, j, QueuedRecord(real))
      BY <1>2, ModesAssumption DEF Enqueue
    <3>2. QueuedRecord(real).status = "open"
      BY DEF QueuedRecord
    <3>3. QED
      BY <3>1, <3>2 DEF Publish
  <2>2. dispatch[j] = "none" /\ UNCHANGED <<shown, phase, host, scan>>
    BY <1>2 DEF Enqueue
  <2>3. Said(j) = {}
    BY <1>a, <2>2 DEF SaidOfSent, Sent
  <2>4. /\ \A q \in Procs, k \in Jobs :
             \/ store'[q][k] = store[q][k]
             \/ k = j /\ store'[q][k].status = "open"
        /\ \A k \in Jobs : \/ redis'[k] = redis[k]
                           \/ k = j /\ redis'[k].status = "open"
    BY <1>a, <2>1 DEF TypeOK
  <2>5. /\ \A q \in Procs : store[q][j].status \notin Terminal
        /\ redis[j].status \notin Terminal
    BY <2>3 DEF Said
  <2>6. \A k \in Jobs : Said(k)' \subseteq Said(k)
    BY <2>2, <2>4 DEF Said, Terminal
  <2>7. \A e \in Execs : phase[e] # "free" => scan[e] # j
    BY <1>a, <2>2 DEF Undertaken, Sent
  <2>8. \A e \in Execs : phase[e] # "free" /\ Resolved(store[host[e]][scan[e]]) =>
          Resolved(store'[host[e]][scan[e]])
    BY <1>s, <2>4, <2>7
  <2>9. OneVerdict' /\ HostFirst' /\ SaidOfSent'
    BY <1>a, <1>s, <2>2, <2>6, <2>8, SaidLess
  <2>10. VerdictsKept
    BY <2>4, <2>5 DEF VerdictsKept, Resolved
  <2>11. QED
    BY <2>9, <2>10
<1>3. ASSUME NEW w \in Webs, NEW j \in Jobs, NEW e \in Execs, Inline(w, j, e)
      PROVE  Goal
  <2>1. /\ dispatch[j] = "accepted" /\ UNCHANGED <<store, redis, shown>>
        /\ dispatch' = [dispatch EXCEPT ![j] = "inline"]
        /\ scan' = [scan EXCEPT ![e] = j] /\ host' = [host EXCEPT ![e] = w]
        /\ phase' = [phase EXCEPT ![e] = "collecting"]
    BY <1>3 DEF Inline, StartExec
  <2>2. \A k \in Jobs : Said(k)' = Said(k)
    BY <2>1 DEF Said
  <2>3. Said(j) = {}
    BY <1>a, <2>1 DEF SaidOfSent, Sent
  <2>4. OneVerdict'
    BY <1>a, <2>2 DEF OneVerdict
  <2>5. HostFirst'
    <3> SUFFICES ASSUME NEW x \in Execs, phase'[x] # "free"
                 PROVE  Said(scan[x])' = {} \/ Resolved(store[host[x]][scan[x]])'
      BY DEF HostFirst
    <3>1. CASE x = e
      <4>1. scan'[x] = j
        BY <1>a, <2>1, <3>1 DEF TypeOK
      <4>2. Said(scan[x])' = Said(j)'
        BY <4>1 DEF Said
      <4>3. QED
        BY <2>2, <2>3, <4>2
    <3>2. CASE x # e
      <4>1. /\ phase[x] # "free" /\ scan'[x] = scan[x] /\ host'[x] = host[x]
        BY <1>a, <2>1, <3>2 DEF TypeOK
      <4>2. PICK k \in Jobs : k = scan[x]
        BY <1>s, <4>1
      <4>3. Said(scan[x])' = Said(k)'
        BY <4>1, <4>2 DEF Said
      <4>4. Said(k) = {} \/ Resolved(store[host[x]][k])
        BY <1>a, <4>1, <4>2 DEF HostFirst
      <4>5. QED
        BY <2>1, <2>2, <4>1, <4>2, <4>3, <4>4 DEF Resolved
    <3>3. QED
      BY <3>1, <3>2
  <2>6. SaidOfSent'
    BY <1>a, <2>2 DEF SaidOfSent, Carry, Sent, SentNext
  <2>7. VerdictsKept
    BY <2>1 DEF VerdictsKept
  <2>8. QED
    BY <2>4, <2>5, <2>6, <2>7
<1>4. ASSUME NEW w \in Webs, NEW j \in Jobs, Poll(w, j)
      PROVE  Goal
  <2> DEFINE remote == IF conn[w] = "ready" THEN redis[j] ELSE NoRec
             newer == PickNewer(store[w][j], remote)
  <2>1. w \in Procs /\ dispatch[j] \in {"sample", "queue", "inline"}
    BY <1>4 DEF Poll, Procs
  <2>2. /\ UNCHANGED <<redis, dispatch, phase, host, scan>>
        /\ store' = [store EXCEPT ![w][j] = newer]
        /\ \/ /\ Resolved(newer)
              /\ shown' = [shown EXCEPT ![j] = @ \cup {newer.status}]
           \/ /\ newer.status = "open" /\ ~newer.real
              /\ shown' = [shown EXCEPT ![j] = @ \cup {"succeeded"}]
           \/ UNCHANGED shown
    BY <1>4 DEF Poll
  <2>3. newer \in Record /\ Honest(newer, j)
    <3>1. store[w][j] \in Record /\ remote \in Record
      BY <1>a, <2>1, RecordTypes DEF TypeOK
    <3>2. Honest(store[w][j], j) /\ Honest(remote, j)
      BY <1>a, <2>1 DEF HonestState, Honest, NoRec, Resolved, Terminal
    <3> HIDE DEF remote
    <3>3. newer \in {store[w][j], remote}
      BY <3>1, RecordTypes
    <3>4. QED
      BY <3>1, <3>2, <3>3
  <2>4. Resolved(newer) => newer.status \in Said(j)
    <3>1. \/ newer = store[w][j]
          \/ newer = redis[j]
          \/ ~Resolved(newer)
      <4>1. newer \in {store[w][j], remote}
        BY DEF PickNewer
      <4>2. QED
        BY <4>1 DEF NoRec, Resolved, Terminal
    <3> HIDE DEF newer
    <3>2. QED
      BY <2>1, <3>1 DEF Said, Resolved
  <2>5. Resolved(store[w][j]) => Resolved(newer)
    BY <1>a, <2>1 DEF PickNewer, Known, Resolved, Terminal
  <2> HIDE DEF newer
  <2>6. \A q \in Procs, k \in Jobs : \/ store'[q][k] = store[q][k]
                                     \/ q = w /\ k = j /\ store'[q][k] = newer
    BY <1>a, <2>2 DEF TypeOK
  <2>7. PICK s \in Terminal :
          /\ \A k \in Jobs : shown'[k] \in {shown[k]} \cup
                               (IF k = j THEN {shown[k] \cup {s}} ELSE {})
          /\ \/ s \in Said(j)
             \/ s = "succeeded" /\ dispatch[j] = "sample"
             \/ UNCHANGED shown
    <3>1. CASE UNCHANGED shown
      BY <3>1, "failed" \in Terminal DEF Terminal
    <3>2. CASE /\ Resolved(newer)
               /\ shown' = [shown EXCEPT ![j] = @ \cup {newer.status}]
      BY <1>a, <2>4, <3>2 DEF Resolved, TypeOK
    <3>3. CASE /\ newer.status = "open" /\ ~newer.real
               /\ shown' = [shown EXCEPT ![j] = @ \cup {"succeeded"}]
      <4>1. dispatch[j] = "sample" /\ "succeeded" \in Terminal
        BY <2>3, <3>3 DEF Honest, Terminal
      <4>2. QED
        BY <1>a, <3>3, <4>1 DEF TypeOK
    <3>4. QED
      BY <2>2, <3>1, <3>2, <3>3
  <2>8. VerdictsKept
    <3>1. ASSUME NEW q \in Procs, NEW k \in Jobs, Resolved(store[q][k])
          PROVE  store'[q][k].status = store[q][k].status
      <4>1. CASE store'[q][k] = store[q][k]
        BY <4>1
      <4>2. CASE q = w /\ k = j /\ store'[q][k] = newer
        <5>1. store[q][k].status \in Said(j) /\ newer.status \in Said(j)
          BY <2>4, <2>5, <3>1, <4>2 DEF Said, Resolved
        <5>2. QED
          BY <1>a, <4>2, <5>1 DEF OneVerdict
      <4>3. QED
        BY <2>6, <4>1, <4>2
    <3>2. QED
      BY <2>2, <3>1 DEF VerdictsKept
  <2>9. \A e \in Execs : phase[e] # "free" /\ Resolved(store[host[e]][scan[e]]) =>
          Resolved(store'[host[e]][scan[e]])
    BY <1>s, <2>5, <2>6
  <2>10. CASE s \in Said(j) \/ UNCHANGED shown
    <3>1. \A k \in Jobs : Said(k)' \subseteq Said(k)
      BY <2>2, <2>4, <2>6, <2>7, <2>10 DEF Said, Resolved
    <3>2. OneVerdict' /\ HostFirst' /\ SaidOfSent'
      BY <1>a, <1>s, <2>2, <2>9, <3>1, SaidLess
    <3>3. QED
      BY <2>8, <3>2
  <2>11. CASE s = "succeeded" /\ dispatch[j] = "sample"
    <3>1. Said(j) \subseteq {"succeeded"}
      BY <1>a, <2>11 DEF SaidOfSent, Sent
    <3>2. \A k \in Jobs : Said(k)' \subseteq IF k = j THEN {"succeeded"} ELSE Said(k)
      <4>1. \A k \in Jobs : Said(k)' \subseteq Said(k) \cup
                              (IF k = j THEN {"succeeded"} ELSE {})
        BY <2>2, <2>4, <2>6, <2>7, <2>11 DEF Said, Resolved
      <4>2. QED
        BY <3>1, <4>1
    <3>3. OneVerdict'
      BY <1>a, <3>2 DEF OneVerdict
    <3>4. SaidOfSent'
      BY <1>a, <2>2, <2>11, <3>2 DEF SaidOfSent, Sent
    <3>5. HostFirst'
      <4> SUFFICES ASSUME NEW x \in Execs, phase'[x] # "free"
                   PROVE  Said(scan[x])' = {} \/ Resolved(store[host[x]][scan[x]])'
        BY DEF HostFirst
      <4>1. PICK k \in Jobs : k = scan[x] /\ k # j
        BY <1>a, <1>s, <2>2, <2>11 DEF Undertaken, Sent
      <4>2. Said(scan[x])' = Said(k)'
        BY <2>2, <4>1 DEF Said
      <4>3. Said(k) = {} \/ Resolved(store[host[x]][k])
        BY <1>a, <2>2, <4>1 DEF HostFirst
      <4>4. store'[host[x]][k] = store[host[x]][k]
        BY <1>s, <2>2, <2>6, <4>1
      <4>5. QED
        BY <2>2, <3>2, <4>1, <4>2, <4>3, <4>4 DEF Resolved
    <3>6. QED
      BY <2>8, <3>3, <3>4, <3>5
  <2>12. QED
    BY <2>7, <2>10, <2>11
<1>5. ASSUME NEW e \in Execs, Progress(e)
      PROVE  Goal
  <2>1. PICK p \in Procs, j \in Jobs : p = host[e] /\ j = scan[e]
    BY <1>5, <1>s DEF Progress
  <2>2. Known(store[p][j]) /\ phase[e] # "free"
    BY <1>5, <1>a, <2>1 DEF Progress, InProcess
  <2>3. UNCHANGED <<store, shown, phase, host, scan, dispatch>>
    BY <1>5, <2>1, <2>2 DEF Progress
  <2>4. CASE Resolved(store[p][j])
    BY <1>1, <1>5, <2>1, <2>2, <2>3, <2>4 DEF Progress
  <2>5. CASE ~Resolved(store[p][j])
    <3>1. Publish(p, j, store[p][j])
      BY <1>5, <2>1, <2>2, <2>5 DEF Progress
    <3>2. \A k \in Jobs : redis'[k] = redis[k] \/ (k = j /\ ~Resolved(redis'[k]))
      BY <1>a, <2>5, <3>1 DEF Publish, TypeOK
    <3>3. \A k \in Jobs : Said(k)' \subseteq Said(k)
      BY <2>3, <3>2 DEF Said, Resolved
    <3>4. Said(j) = {}
      BY <1>a, <2>1, <2>2, <2>5 DEF HostFirst
    <3>5. ~Resolved(redis[j])
      BY <3>4 DEF Said, Resolved
    <3>6. OneVerdict' /\ HostFirst' /\ SaidOfSent'
      BY <1>a, <1>s, <2>3, <3>3, SaidLess
    <3>7. VerdictsKept
      BY <2>3, <3>2, <3>5 DEF VerdictsKept
    <3>8. QED
      BY <3>6, <3>7
  <2>6. QED
    BY <2>4, <2>5
<1>6. ASSUME NEW e \in Execs,
             \/ \E v \in Verdicts : Conclude(e, v)
             \/ Deadline(e)
      PROVE  Goal
  <2>1. phase[e] # "free"
    BY <1>6, <1>a, ProcsAssumption
       DEF Conclude, Concluded, Deadline, Slots, DrainInv, FreeSlots
  <2>2. PICK p \in Procs, j \in Jobs : p = host[e] /\ j = scan[e]
    BY <1>s, <2>1
  <2>3. PICK s \in Terminal, x \in Execs \cup {NoOne} : CallResolve(p, j, s, x)
    BY <1>6, <2>2 DEF Conclude, Deadline, StatusOf, Terminal
  <2>4. Decides(p, j, s)
    BY <1>a, <2>1, <2>2, <2>3, HostResolves
  <2>5. /\ UNCHANGED <<host, scan, shown, dispatch>>
        /\ \A y \in Execs : phase'[y] # "free" => phase[y] # "free"
    BY <1>6, <1>a, <2>1 DEF Conclude, Deadline, TypeOK
  <2>6. Sent(j)
    BY <1>a, <2>1, <2>2 DEF Undertaken
  <2>7. QED
    BY <1>a, <1>s, <2>1, <2>2, <2>4, <2>5, <2>6, SaidFirst
<1>7. ASSUME NEW e \in Execs, StoreDrift(e) \/ Settle(e) \/ Reclaim(e)
      PROVE  Goal
  <2>1. /\ UNCHANGED <<store, redis, shown>>
        /\ \A x \in Execs : phase'[x] # "free" =>
             phase[x] # "free" /\ host'[x] = host[x] /\ scan'[x] = scan[x]
    BY <1>7, <1>a DEF StoreDrift, Settle, Reclaim, TypeOK
  <2>2. QED
    BY <1>1, <2>1
<1>8. ASSUME NEW p \in Procs, Crash(p)
      PROVE  Goal
  <2>1. /\ UNCHANGED <<redis, shown>>
        /\ store' = [store EXCEPT ![p] = [j \in Jobs |-> NoRec]]
    BY <1>8 DEF Crash
  <2>2. /\ \A q \in Procs, k \in Jobs : store'[q][k] = store[q][k] \/ store'[q][k] = NoRec
        /\ \A q \in Procs : q # p => store'[q] = store[q]
    BY <1>a, <2>1 DEF TypeOK
  <2>3. \A k \in Jobs : Said(k)' \subseteq Said(k)
    BY <2>1, <2>2 DEF Said, NoRec, Terminal
  <2>4. \A x \in Execs : phase'[x] # "free" =>
          /\ phase[x] # "free" /\ host'[x] = host[x] /\ scan'[x] = scan[x]
          /\ host[x] # p
    BY <1>8 DEF Crash
  <2>5. OneVerdict' /\ HostFirst' /\ SaidOfSent'
    BY <1>a, <1>s, <2>2, <2>3, <2>4, SaidLess
  <2>6. VerdictsKept
    BY <2>1, <2>2 DEF VerdictsKept, NoRec
  <2>7. QED
    BY <2>5, <2>6
<1>9. ASSUME NEW w \in Webs, NEW j \in Jobs, ToQueue(w, j) \/ AddError(w, j)
      PROVE  Goal
  BY <1>9, <1>1 DEF ToQueue, AddError
<1>10. ASSUME NEW p \in Procs, Reconnect(p) \/ Drop(p)
       PROVE  Goal
  BY <1>10, <1>1 DEF Reconnect, Drop
<1>11. ASSUME NEW p \in Procs, HandleReply(p)
       PROVE  FALSE
  BY <1>11, <1>a DEF HandleReply, InProcess
<1>12. ASSUME NEW p \in Workers, NEW j \in Jobs, NEW e \in Execs, Dequeue(p, j, e)
       PROVE  FALSE
  BY <1>12, <1>a DEF Dequeue, InProcess
<1>13. ASSUME NEW j \in Jobs, Stall(j) \/ Land(j)
       PROVE  Goal
  BY <1>13, <1>1 DEF Stall, Land
<1>14. CASE UNCHANGED vars
  BY <1>14, <1>1 DEF vars
<1>15. QED
  <2> HIDE DEF Goal
  <2>1. CASE WebStep
    BY <2>1, <1>2, <1>3, <1>4, <1>9 DEF WebStep
  <2>2. CASE \E e \in Execs : ExecStep(e)
    BY <2>2, <1>5, <1>6, <1>7 DEF ExecStep
  <2>3. QED
    BY <2>1, <2>2, <1>8, <1>10, <1>11, <1>12, <1>13, <1>14 DEF Next

\* What the two theorems below rest on.
Told == IInv /\ DrainInv /\ VerdictInv

LEMMA ToldInit == Init => Told
BY TypeInit, HonestInit, DrainInit, VerdictInit DEF Told, IInv

LEMMA ToldStep == "queue" \notin Modes /\ Told /\ [Next]_vars => Told' /\ VerdictsKept
<1> SUFFICES ASSUME "queue" \notin Modes, Told, [Next]_vars
             PROVE  Told' /\ VerdictsKept
  OBVIOUS
<1>1. IInv'
  BY TypeStep, UndertakenStep, HonestStep DEF Told, IInv
<1>2. DrainInv'
  BY DrainStep DEF Told, IInv
<1>3. InProcess'
  BY InProcessStep DEF Told, IInv, VerdictInv
<1>4. OneVerdict' /\ HostFirst' /\ SaidOfSent' /\ VerdictsKept
  BY VerdictStep DEF Told
<1>5. VerdictInv'
  BY <1>3, <1>4 DEF VerdictInv
<1>6. QED
  BY <1>1, <1>2, <1>4, <1>5 DEF Told

\* Where scans run in process, two polls of a scan never give two verdicts,
\* whatever the deadline, the collector's late answer and the crash of an
\* instance do.
THEOREM InlineVerdictsAgree ==
  ASSUME "queue" \notin Modes PROVE Spec => []ShownAgree
<1>1. Told => ShownAgree
  <2> SUFFICES ASSUME Told, NEW j \in Jobs, shown[j] = Terminal PROVE FALSE
    BY DEF ShownAgree
  <2>1. {"succeeded", "failed"} \subseteq Said(j)
    BY DEF Said, Terminal
  <2>2. QED
    BY <2>1 DEF Told, VerdictInv, OneVerdict
<1>2. Told /\ [Next]_vars => Told'
  BY ToldStep
<1>3. QED
  BY <1>1, <1>2, ToldInit, PTL DEF Spec

\* markComplete and markFailed (scan-jobs.ts) of a job that already has a
\* verdict change nothing: where scans run in process, a verdict stands in a
\* Map until its process ends and in Redis for good.
THEOREM InlineVerdictsStand ==
  ASSUME "queue" \notin Modes PROVE Spec => TerminalKept
<1>1. Told /\ [Next]_vars => Told' /\ [VerdictsKept]_vars
  BY ToldStep
<1>2. QED
  BY <1>1, ToldInit, PTL DEF Spec, TerminalKept, VerdictsKept
-----------------------------------------------------------------------------
(* What BullMQ calls completed.                                            *)

\* The lock of a job is held by the execution that races for its outcome.
Locks ==
  /\ \A j \in Jobs, e \in Execs : owner[j] = e => scan[e] = j /\ racing[e]
  /\ \A e \in Execs : racing[e] => phase[e] \notin {"free", "done"}

Kept(j) == \E p \in Procs : Resolved(store[p][j])
Awaited(j) ==
  \E p \in Procs : \E i \in 1..Len(calls[p]) :
    calls[p][i].op = "resolve" /\ calls[p][i].job = j

\* An execution that waits for a fetch waits for one, of its own scan.
OwnReply ==
  /\ \A p \in Procs : \A i \in 1..Len(calls[p]) : \A e \in Execs :
       calls[p][i].by = e =>
         phase[e] = "fetching" /\ calls[p][i].op = "resolve" /\ calls[p][i].job = scan[e]
  /\ \A p, q \in Procs : \A i \in 1..Len(calls[p]), k \in 1..Len(calls[q]) :
       calls[p][i].by \in Execs /\ calls[q][k].by = calls[p][i].by => p = q /\ i = k

\* Until a process dies, a verdict that has been published or fetched is in the
\* Map of the process that published it, and an execution settles only once its
\* scan has a verdict there.
MapsKeep ==
  /\ \A j \in Jobs : Resolved(redis[j]) => Kept(j)
  /\ \A p \in Procs : \A i \in 1..Len(calls[p]) :
       Resolved(calls[p][i].copy) => Kept(calls[p][i].job)
  /\ \A e \in Execs : phase[e] = "settling" => Kept(scan[e])
  /\ \A j \in Jobs : bull[j] = "completed" => Kept(j) \/ Awaited(j)

RecordInv == Locks /\ (crashes = 0 => OwnReply /\ MapsKeep)

LEMMA RecordInit == Init => RecordInv
<1> SUFFICES ASSUME Init PROVE RecordInv
  OBVIOUS
<1>1. \A p \in Procs : Len(calls[p]) = 0
  BY DEF Init
<1>2. NoOne \notin Execs
  BY ProcsAssumption
<1>3. QED
  BY <1>1, <1>2 DEF Init, RecordInv, Locks, OwnReply, MapsKeep, Resolved, Terminal, NoRec

\* The locks, crashes included.
LEMMA LocksFinish ==
  ASSUME TypeOK, Slots, Locks, NEW e \in Execs, NEW ok, NEW r \in BOOLEAN, UNCHANGED scan,
         phase' \in [Execs -> Phases], racing' = [racing EXCEPT ![e] = FALSE],
         \A x \in Execs \ {e} : racing[x] => phase'[x] \notin {"free", "done"},
         IF racing[e] THEN Finish(e, ok) ELSE UNCHANGED bullVars
  PROVE  Locks'
<1>1. \A x \in Execs : racing'[x] <=> x # e /\ racing[x]
  BY DEF TypeOK
<1>2. \A j \in Jobs : owner'[j] = owner[j] \/ owner'[j] = NoOne
  BY DEF Finish, bullVars
<1>3. \A j \in Jobs : owner'[j] # e
  <2>1. CASE racing[e]
    BY <2>1, ProcsAssumption DEF Finish
  <2>2. CASE ~racing[e]
    BY <2>2 DEF Locks, bullVars
  <2>3. QED
    BY <2>1, <2>2
<1>4. QED
  BY <1>1, <1>2, <1>3, ProcsAssumption DEF Locks

LEMMA LocksStart ==
  ASSUME TypeOK, Locks, NEW e \in Execs, NEW p, NEW j \in Jobs, StartExec(e, p, j),
         \A k \in Jobs : owner'[k] = owner[k] \/ (owner'[k] = e /\ k = j)
  PROVE  Locks'
<1>1. /\ scan' = [scan EXCEPT ![e] = j] /\ racing' = [racing EXCEPT ![e] = TRUE]
      /\ phase' = [phase EXCEPT ![e] = "collecting"] /\ ~racing[e]
  BY DEF StartExec, Locks
<1>2. \A x \in Execs : /\ racing'[x] <=> x = e \/ racing[x]
                       /\ x # e => scan'[x] = scan[x] /\ phase'[x] = phase[x]
                       /\ x = e => scan'[x] = j /\ phase'[x] = "collecting"
  BY <1>1 DEF TypeOK
<1>3. \A k \in Jobs : owner[k] # e
  BY <1>1 DEF Locks
<1>4. QED
  BY <1>2, <1>3 DEF Locks

LEMMA LocksStep == TypeOK /\ Slots /\ Locks /\ [Next]_vars => Locks'
<1> SUFFICES ASSUME TypeOK, Slots, Locks, [Next]_vars PROVE Locks'
  OBVIOUS
<1> USE DEF execVars, procVars, bullVars, bounds
<1>1. ASSUME UNCHANGED <<scan, racing>>, \A j \in Jobs : owner'[j] \in {owner[j], NoOne},
             \A e \in Execs : racing[e] => phase'[e] \notin {"free", "done"}
      PROVE  Locks'
  BY <1>1, ProcsAssumption DEF Locks
<1>2. ASSUME UNCHANGED <<scan, racing, phase, owner>> PROVE Locks'
  BY <1>2 DEF Locks
<1>3. ASSUME NEW w \in Webs, NEW j \in Jobs,
             Enqueue(w, j) \/ ToQueue(w, j) \/ AddError(w, j) \/ Poll(w, j)
      PROVE  Locks'
  BY <1>2, <1>3 DEF Enqueue, ToQueue, AddError, Poll
<1>4. ASSUME NEW w \in Webs, NEW j \in Jobs, NEW e \in Execs, Inline(w, j, e) PROVE Locks'
  BY <1>4, LocksStart DEF Inline
<1>5. ASSUME NEW p \in Workers, NEW j \in Jobs, NEW e \in Execs, Dequeue(p, j, e) PROVE Locks'
  <2>1. \A k \in Jobs : owner'[k] = owner[k] \/ (owner'[k] = e /\ k = j)
    BY <1>5 DEF Dequeue, TypeOK
  <2>2. QED
    BY <1>5, <2>1, LocksStart DEF Dequeue
<1>6. ASSUME NEW e \in Execs, Progress(e) PROVE Locks'
  BY <1>2, <1>6 DEF Progress
<1>7. ASSUME NEW e \in Execs, StoreDrift(e) PROVE Locks'
  <2>1. UNCHANGED <<scan, racing, owner>> /\ phase' = [phase EXCEPT ![e] = "handed"]
    BY <1>7 DEF StoreDrift
  <2>2. QED
    BY <1>1, <2>1 DEF TypeOK, Locks
<1>8. ASSUME NEW e \in Execs, NEW v \in Verdicts, Conclude(e, v) PROVE Locks'
  <2>1. UNCHANGED <<scan, racing, owner>>
    BY <1>8 DEF Conclude
  <2>2. phase' = [phase EXCEPT ![e] = "fetching"] \/ phase' = [phase EXCEPT ![e] = "settling"]
    BY <1>8 DEF Conclude
  <2>3. QED
    BY <1>1, <2>1, <2>2 DEF TypeOK, Locks
<1>9. ASSUME NEW p \in Procs, HandleReply(p) PROVE Locks'
  <2>1. UNCHANGED <<scan, racing, owner>>
    BY <1>9 DEF HandleReply
  <2>2. \A e \in Execs : phase'[e] = phase[e] \/ phase'[e] = "settling"
    BY <1>9 DEF HandleReply
  <2>3. QED
    BY <1>1, <2>1, <2>2 DEF Locks
<1>10. ASSUME NEW e \in Execs, Settle(e) PROVE Locks'
  <2>1. /\ UNCHANGED scan /\ racing' = [racing EXCEPT ![e] = FALSE]
        /\ phase' = [phase EXCEPT ![e] = "done"]
        /\ IF racing[e] THEN Finish(e, verdict[e] # "thrown") ELSE UNCHANGED bullVars
    BY <1>10 DEF Settle
  <2>2. /\ phase' \in [Execs -> Phases]
        /\ \A x \in Execs \ {e} : racing[x] => phase'[x] \notin {"free", "done"}
    BY <2>1 DEF TypeOK, Phases, Locks
  <2>3. QED
    BY <2>1, <2>2, LocksFinish
<1>11. ASSUME NEW e \in Execs, Deadline(e) PROVE Locks'
  <2>1. /\ UNCHANGED <<scan, phase>> /\ racing' = [racing EXCEPT ![e] = FALSE]
        /\ IF racing[e] THEN Finish(e, TRUE) ELSE UNCHANGED bullVars
    BY <1>11 DEF Deadline
  <2>2. /\ phase' \in [Execs -> Phases]
        /\ \A x \in Execs \ {e} : racing[x] => phase'[x] \notin {"free", "done"}
    BY <2>1 DEF TypeOK, Locks
  <2>3. QED
    BY <2>1, <2>2, LocksFinish
<1>12. ASSUME NEW e \in Execs, Reclaim(e) PROVE Locks'
  <2>1. /\ UNCHANGED <<racing, owner>> /\ phase[e] = "done" /\ ~racing[e]
        /\ phase' = [phase EXCEPT ![e] = "free"] /\ scan' = [scan EXCEPT ![e] = NoOne]
    BY <1>12 DEF Reclaim, Locks
  <2>2. \A x \in Execs : x # e => phase'[x] = phase[x] /\ scan'[x] = scan[x]
    BY <2>1 DEF TypeOK
  <2>3. QED
    BY <2>1, <2>2 DEF Locks
<1>13. ASSUME NEW j \in Jobs, Stall(j) PROVE Locks'
  <2>1. \A k \in Jobs : owner'[k] \in {owner[k], NoOne}
    BY <1>13 DEF Stall, TypeOK
  <2>2. QED
    BY <1>1, <1>13, <2>1 DEF Stall, Locks
<1>14. ASSUME NEW p \in Procs, Crash(p) PROVE Locks'
  <2>1. \A e \in Execs : /\ racing'[e] => racing[e] /\ host[e] # p
                         /\ host[e] # p => scan'[e] = scan[e] /\ phase'[e] = phase[e]
                                           /\ racing'[e] = racing[e]
    BY <1>14 DEF Crash, TypeOK
  <2>2. \A j \in Jobs, e \in Execs : owner'[j] = e => owner[j] = e /\ host[e] # p
    BY <1>14, ProcsAssumption DEF Crash
  <2>3. QED
    BY <2>1, <2>2 DEF Locks
<1>15. ASSUME NEW p \in Procs, Reconnect(p) \/ Drop(p) PROVE Locks'
  BY <1>2, <1>15 DEF Reconnect, Drop
<1>16. CASE UNCHANGED vars
  BY <1>2, <1>16 DEF vars
<1>land. ASSUME NEW j \in Jobs, Land(j) PROVE Locks'
  BY <1>2, <1>land DEF Land
<1>17. QED
  <2>1. CASE WebStep
    BY <2>1, <1>3, <1>4 DEF WebStep
  <2>2. CASE \E e \in Execs : ExecStep(e)
    BY <2>2, <1>6, <1>7, <1>8, <1>10, <1>11, <1>12 DEF ExecStep
  <2>3. QED
    BY <2>1, <2>2, <1>5, <1>9, <1>13, <1>14, <1>15, <1>16,
       <1>land DEF Next

\* Replies come last and are handled first.
LEMMA LastReply ==
  ASSUME TypeOK, NEW p \in Procs, NEW c, calls' = [calls EXCEPT ![p] = Append(@, c)]
  PROVE  /\ \A q \in Procs : \A i \in 1..Len(calls'[q]) :
              \/ i \in 1..Len(calls[q]) /\ calls'[q][i] = calls[q][i]
              \/ q = p /\ i = Len(calls[p]) + 1 /\ calls'[q][i] = c
         /\ \A q \in Procs : \A i \in 1..Len(calls[q]) :
              i \in 1..Len(calls'[q]) /\ calls'[q][i] = calls[q][i]
         /\ Len(calls[p]) + 1 \in 1..Len(calls'[p]) /\ calls'[p][Len(calls[p]) + 1] = c
<1>1. \A q \in Procs : calls[q] \in Seq(Call)
  BY DEF TypeOK
<1>2. calls'[p] = Append(calls[p], c) /\ \A q \in Procs \ {p} : calls'[q] = calls[q]
  BY DEF TypeOK
<1>3. /\ Len(calls'[p]) = Len(calls[p]) + 1 /\ Len(calls[p]) \in Nat
      /\ \A i \in 1..Len(calls[p]) : calls'[p][i] = calls[p][i]
      /\ calls'[p][Len(calls[p]) + 1] = c
  BY <1>1, <1>2
<1>4. QED
  BY <1>2, <1>3

LEMMA FirstReply ==
  ASSUME TypeOK, NEW p \in Procs, calls[p] # <<>>, calls' = [calls EXCEPT ![p] = Tail(@)]
  PROVE  /\ 1 \in 1..Len(calls[p]) /\ Head(calls[p]) = calls[p][1] /\ calls[p][1] \in Call
         /\ \A q \in Procs \ {p} : calls'[q] = calls[q]
         /\ \A i \in 1..Len(calls'[p]) : i + 1 \in 1..Len(calls[p]) /\ i + 1 # 1
                                         /\ calls'[p][i] = calls[p][i + 1]
         /\ \A i \in 1..Len(calls[p]) : i # 1 => i - 1 \in 1..Len(calls'[p])
                                                  /\ calls'[p][i - 1] = calls[p][i]
<1>1. calls[p] \in Seq(Call) /\ calls'[p] = Tail(calls[p])
  BY DEF TypeOK
<1>2. \A q \in Procs \ {p} : calls'[q] = calls[q]
  BY DEF TypeOK
<1>3. Len(calls[p]) \in Nat \ {0} /\ Head(calls[p]) = calls[p][1] /\ Len(calls'[p]) = Len(calls[p]) - 1
  <2>1. Len(calls[p]) \in Nat \ {0}
    BY <1>1, EmptySeq
  <2>2. Head(calls[p]) = calls[p][1]
    BY <1>1
  <2>3. Len(calls'[p]) = Len(calls[p]) - 1
    BY <1>1, HeadTailProperties
  <2>4. QED
    BY <2>1, <2>2, <2>3
<1>4. 1 \in 1..Len(calls[p]) /\ calls[p][1] \in Call
  BY <1>1, <1>3
<1>5. \A i \in 1..Len(calls'[p]) : calls'[p][i] = calls[p][i + 1]
  BY <1>1, <1>3
<1>6. \A i \in 1..Len(calls'[p]) : i + 1 \in 1..Len(calls[p]) /\ i + 1 # 1
  BY <1>3
<1>7. ASSUME NEW i \in 1..Len(calls[p]), i # 1
      PROVE  i - 1 \in 1..Len(calls'[p]) /\ calls'[p][i - 1] = calls[p][i]
  <2>1. i - 1 \in 1..Len(calls'[p]) /\ (i - 1) + 1 = i
    BY <1>3, <1>7
  <2>2. QED
    BY <1>5, <2>1
<1>8. QED
  BY <1>2, <1>3, <1>4, <1>5, <1>6, <1>7

\* The replies of executions.
LEMMA OwnFrame ==
  ASSUME OwnReply, UNCHANGED calls,
         \A e \in Execs : phase[e] = "fetching" => phase'[e] = "fetching" /\ scan'[e] = scan[e]
  PROVE  OwnReply'
BY DEF OwnReply

LEMMA OwnAppend ==
  ASSUME TypeOK, OwnReply, NEW p \in Procs, NEW c, calls' = [calls EXCEPT ![p] = Append(@, c)],
         UNCHANGED scan,
         \A x \in Execs : phase[x] = "fetching" => phase'[x] = "fetching",
         \A x \in Execs : c.by = x => /\ phase[x] # "fetching" /\ phase'[x] = "fetching"
                                      /\ c.op = "resolve" /\ c.job = scan[x]
  PROVE  OwnReply'
<1>1. \A q \in Procs : \A i \in 1..Len(calls'[q]) :
        \/ i \in 1..Len(calls[q]) /\ calls'[q][i] = calls[q][i]
        \/ q = p /\ i = Len(calls[p]) + 1 /\ calls'[q][i] = c
  BY LastReply
<1>2. \A q \in Procs : \A i \in 1..Len(calls[q]) : \A e \in Execs :
        calls[q][i].by = e =>
          phase[e] = "fetching" /\ calls[q][i].op = "resolve" /\ calls[q][i].job = scan[e]
  BY DEF OwnReply
<1>3. \A q, r \in Procs : \A i \in 1..Len(calls[q]), k \in 1..Len(calls[r]) :
        calls[q][i].by \in Execs /\ calls[r][k].by = calls[q][i].by => q = r /\ i = k
  BY DEF OwnReply
<1>4. \A q \in Procs : \A i \in 1..Len(calls[q]) : c.by \in Execs => calls[q][i].by # c.by
  BY <1>2
<1>5. \A q \in Procs : \A i \in 1..Len(calls'[q]) : \A e \in Execs :
        calls'[q][i].by = e =>
          phase'[e] = "fetching" /\ calls'[q][i].op = "resolve" /\ calls'[q][i].job = scan'[e]
  BY <1>1, <1>2
<1>6. \A q, r \in Procs : \A i \in 1..Len(calls'[q]), k \in 1..Len(calls'[r]) :
        calls'[q][i].by \in Execs /\ calls'[r][k].by = calls'[q][i].by => q = r /\ i = k
  BY <1>1, <1>3, <1>4
<1>7. QED
  BY <1>5, <1>6 DEF OwnReply

LEMMA OwnTail ==
  ASSUME TypeOK, OwnReply, NEW p \in Procs, calls[p] # <<>>, calls' = [calls EXCEPT ![p] = Tail(@)],
         UNCHANGED scan,
         \A x \in Execs : phase'[x] = phase[x] \/ calls[p][1].by = x
  PROVE  OwnReply'
<1>1. \A q \in Procs : \A i \in 1..Len(calls'[q]) : \E k \in 1..Len(calls[q]) :
        calls'[q][i] = calls[q][k] /\ (IF q = p THEN k = i + 1 ELSE k = i)
  <2> SUFFICES ASSUME NEW q \in Procs, NEW i \in 1..Len(calls'[q])
               PROVE  \E k \in 1..Len(calls[q]) :
                        calls'[q][i] = calls[q][k] /\ (IF q = p THEN k = i + 1 ELSE k = i)
    OBVIOUS
  <2>1. CASE q = p
    <3>1. i + 1 \in 1..Len(calls[q]) /\ calls'[q][i] = calls[q][i + 1]
      BY <2>1, FirstReply
    <3>2. QED
      BY <2>1, <3>1
  <2>2. CASE q # p
    <3>1. calls'[q] = calls[q]
      BY <2>2, FirstReply
    <3>2. QED
      BY <2>2, <3>1
  <2>3. QED
    BY <2>1, <2>2
<1>2. 1 \in 1..Len(calls[p]) /\ \A q \in Procs : Len(calls'[q]) \in Nat
  BY FirstReply, TypeStep DEF TypeOK
<1>3. \A q \in Procs : \A k \in 1..Len(calls[q]) : \A e \in Execs :
        calls[q][k].by = e => \/ q = p /\ k = 1
                              \/ calls[p][1].by # e
  BY <1>2 DEF OwnReply
<1>4. \A q \in Procs : \A i \in 1..Len(calls'[q]) : \A e \in Execs :
        calls'[q][i].by = e =>
          phase'[e] = "fetching" /\ calls'[q][i].op = "resolve" /\ calls'[q][i].job = scan'[e]
  <2> SUFFICES ASSUME NEW q \in Procs, NEW i \in 1..Len(calls'[q]), NEW e \in Execs,
                      calls'[q][i].by = e
               PROVE  phase'[e] = "fetching" /\ calls'[q][i].op = "resolve"
                      /\ calls'[q][i].job = scan'[e]
    OBVIOUS
  <2>1. PICK k \in 1..Len(calls[q]) :
          calls'[q][i] = calls[q][k] /\ (IF q = p THEN k = i + 1 ELSE k = i)
    BY <1>1
  <2>2. ~(q = p /\ k = 1)
    BY <2>1
  <2>3. calls[p][1].by # e
    BY <1>3, <2>1, <2>2
  <2>4. QED
    BY <2>1, <2>3 DEF OwnReply
<1>5. \A q, r \in Procs : \A i \in 1..Len(calls'[q]), k \in 1..Len(calls'[r]) :
        calls'[q][i].by \in Execs /\ calls'[r][k].by = calls'[q][i].by => q = r /\ i = k
  <2> TAKE q, r \in Procs
  <2> TAKE i \in 1..Len(calls'[q]), k \in 1..Len(calls'[r])
  <2> HAVE calls'[q][i].by \in Execs /\ calls'[r][k].by = calls'[q][i].by
  <2>1. PICK x \in 1..Len(calls[q]) :
          calls'[q][i] = calls[q][x] /\ (IF q = p THEN x = i + 1 ELSE x = i)
    BY <1>1
  <2>2. PICK y \in 1..Len(calls[r]) :
          calls'[r][k] = calls[r][y] /\ (IF r = p THEN y = k + 1 ELSE y = k)
    BY <1>1
  <2>3. q = r /\ x = y
    BY <2>1, <2>2 DEF OwnReply
  <2>4. i \in Nat /\ k \in Nat
    BY <1>2
  <2>5. QED
    BY <2>1, <2>2, <2>3, <2>4
<1>6. QED
  BY <1>4, <1>5 DEF OwnReply

\* What the Maps hold.
KeptNext(j) == \E p \in Procs : Resolved(store'[p][j])
AwaitedNext(j) ==
  \E p \in Procs : \E i \in 1..Len(calls'[p]) :
    calls'[p][i].op = "resolve" /\ calls'[p][i].job = j

\* A verdict in a Map stays; one in Redis was there or is in a Map; one in a copy
\* was in a copy or in Redis.
Stays == \A p \in Procs, j \in Jobs : Resolved(store[p][j]) => Resolved(store'[p][j])
Earned == \A j \in Jobs : Resolved(redis'[j]) => Resolved(redis[j]) \/ KeptNext(j)
Asked ==
  \A p \in Procs : \A i \in 1..Len(calls'[p]) : Resolved(calls'[p][i].copy) =>
    \/ \E q \in Procs : \E k \in 1..Len(calls[q]) :
         calls'[p][i].job = calls[q][k].job /\ Resolved(calls[q][k].copy)
    \/ calls'[p][i].job \in Jobs /\ Resolved(redis[calls'[p][i].job])
Answered == \A j \in Jobs : Awaited(j) => AwaitedNext(j) \/ KeptNext(j)
Completes ==
  \A j \in Jobs : bull'[j] = "completed" => bull[j] = "completed" \/ KeptNext(j) \/ AwaitedNext(j)
Settles ==
  \A e \in Execs : phase'[e] = "settling" =>
    (phase[e] = "settling" /\ scan'[e] = scan[e]) \/ KeptNext(scan'[e])

LEMMA MapsFrame ==
  ASSUME TypeOK, Slots, MapsKeep, Stays, Earned, Asked, Answered, Completes, Settles
  PROVE  MapsKeep'
<1>1. \A j \in Jobs : Kept(j) => KeptNext(j)
  BY DEF Stays, Kept, KeptNext
<1>2. \A j \in Jobs : Resolved(redis[j]) => KeptNext(j)
  BY <1>1 DEF MapsKeep
<1>3. \A j \in Jobs : Resolved(redis'[j]) => KeptNext(j)
  BY <1>2 DEF Earned
<1>4. \A q \in Procs : \A k \in 1..Len(calls[q]) : calls[q][k].job \in Jobs
  <2>1. \A q \in Procs : \A k \in 1..Len(calls[q]) : calls[q][k] \in Call
    BY DEF TypeOK
  <2>2. QED
    BY <2>1 DEF Call
<1>5. \A p \in Procs : \A i \in 1..Len(calls'[p]) :
        Resolved(calls'[p][i].copy) => KeptNext(calls'[p][i].job)
  <2> SUFFICES ASSUME NEW p \in Procs, NEW i \in 1..Len(calls'[p]), Resolved(calls'[p][i].copy)
               PROVE  KeptNext(calls'[p][i].job)
    OBVIOUS
  <2>1. CASE \E q \in Procs : \E k \in 1..Len(calls[q]) :
               calls'[p][i].job = calls[q][k].job /\ Resolved(calls[q][k].copy)
    BY <1>1, <1>4, <2>1 DEF MapsKeep
  <2>2. CASE calls'[p][i].job \in Jobs /\ Resolved(redis[calls'[p][i].job])
    BY <1>2, <2>2
  <2>3. QED
    BY <2>1, <2>2 DEF Asked
<1>6. \A e \in Execs : phase'[e] = "settling" => KeptNext(scan'[e])
  BY <1>1 DEF Settles, MapsKeep, Slots
<1>7. \A j \in Jobs : bull'[j] = "completed" => KeptNext(j) \/ AwaitedNext(j)
  BY <1>1 DEF Completes, MapsKeep, Answered
<1>8. QED
  BY <1>3, <1>5, <1>6, <1>7 DEF MapsKeep, Kept, KeptNext, Awaited, AwaitedNext

LEMMA CallsSame == UNCHANGED calls => Asked /\ Answered
BY DEF Asked, Answered, Awaited, AwaitedNext

LEMMA CallAdded ==
  ASSUME TypeOK, NEW p \in Procs, NEW c, calls' = [calls EXCEPT ![p] = Append(@, c)],
         c.job \in Jobs, c.copy = redis[c.job]
  PROVE  Asked /\ Answered /\ (c.op = "resolve" => AwaitedNext(c.job))
<1>1. /\ \A q \in Procs : \A i \in 1..Len(calls'[q]) :
           \/ i \in 1..Len(calls[q]) /\ calls'[q][i] = calls[q][i]
           \/ q = p /\ i = Len(calls[p]) + 1 /\ calls'[q][i] = c
      /\ \A q \in Procs : \A i \in 1..Len(calls[q]) :
           i \in 1..Len(calls'[q]) /\ calls'[q][i] = calls[q][i]
      /\ Len(calls[p]) + 1 \in 1..Len(calls'[p]) /\ calls'[p][Len(calls[p]) + 1] = c
  BY LastReply
<1>2. Asked
  BY <1>1 DEF Asked
<1>3. Answered
  BY <1>1 DEF Answered, Awaited, AwaitedNext
<1>4. QED
  BY <1>1, <1>2, <1>3 DEF AwaitedNext

LEMMA PublishEarns ==
  ASSUME TypeOK, NEW p \in Procs, NEW j \in Jobs, NEW r, Publish(p, j, r), Resolved(r) => KeptNext(j)
  PROVE  Earned
BY DEF Publish, Earned, TypeOK

LEMMA ResolveKeeps ==
  ASSUME TypeOK, NEW p \in Procs, NEW j \in Jobs, NEW copy \in Record, NEW s \in Terminal,
         Resolve(p, j, copy, s)
  PROVE  Stays /\ Earned /\ (~Resolved(copy) => KeptNext(j) /\ Resolved(store'[p][j]))
<1> DEFINE r == [real |-> copy.real, status |-> s, at |-> clock + 1]
<1>1. CASE Resolved(copy)
  BY <1>1 DEF Resolve, Stays, Earned
<1>2. CASE ~Resolved(copy)
  <2>1. r.status \in Terminal
    OBVIOUS
  <2>2. store' = [store EXCEPT ![p][j] = r] /\ Publish(p, j, r)
    BY <1>2 DEF Resolve
  <2> HIDE DEF r
  <2>3. store'[p][j] = r /\ \A q \in Procs, k \in Jobs : store'[q][k] \in {r, store[q][k]}
    BY <2>2 DEF TypeOK
  <2>4. Stays /\ KeptNext(j) /\ Resolved(store'[p][j])
    BY <2>1, <2>3 DEF Stays, KeptNext, Resolved
  <2>5. QED
    BY <2>2, <2>4, PublishEarns
<1>3. QED
  BY <1>1, <1>2

LEMMA CallResolveKeeps ==
  ASSUME TypeOK, NEW p \in Procs, NEW j \in Jobs, NEW s \in Terminal, NEW e, CallResolve(p, j, s, e)
  PROVE  /\ Stays /\ Earned /\ Asked /\ Answered
         /\ IF MustFetch(p, j) THEN AwaitedNext(j) ELSE KeptNext(j)
<1> DEFINE c == [op |-> "resolve", job |-> j, status |-> s, by |-> e, copy |-> redis[j]]
<1>1. CASE MustFetch(p, j)
  <2>1. calls' = [calls EXCEPT ![p] = Append(@, c)] /\ UNCHANGED <<store, redis>>
    BY <1>1 DEF CallResolve
  <2>2. c.job = j /\ c.op = "resolve" /\ c.copy = redis[c.job]
    OBVIOUS
  <2> HIDE DEF c
  <2>3. Asked /\ Answered /\ AwaitedNext(j)
    BY <2>1, <2>2, CallAdded
  <2>4. QED
    BY <1>1, <2>1, <2>3 DEF Stays, Earned
<1>2. CASE ~MustFetch(p, j)
  <2>1. Resolve(p, j, store[p][j], s) /\ UNCHANGED calls /\ store[p][j] \in Record
    BY <1>2 DEF CallResolve, TypeOK
  <2>2. Stays /\ Earned /\ (~Resolved(store[p][j]) => KeptNext(j))
    BY <2>1, ResolveKeeps
  <2>3. KeptNext(j)
    BY <2>2 DEF Stays, KeptNext
  <2>4. QED
    BY <1>2, <2>1, <2>2, <2>3, CallsSame
<1>3. QED
  BY <1>1, <1>2

LEMMA TailAnswers ==
  ASSUME TypeOK, NEW p \in Procs, calls[p] # <<>>, calls' = [calls EXCEPT ![p] = Tail(@)],
         calls[p][1].op = "resolve" => KeptNext(calls[p][1].job)
  PROVE  Answered
<1> SUFFICES ASSUME NEW j \in Jobs, Awaited(j) PROVE AwaitedNext(j) \/ KeptNext(j)
  BY DEF Answered
<1>1. PICK q \in Procs : \E i \in 1..Len(calls[q]) :
        calls[q][i].op = "resolve" /\ calls[q][i].job = j
  BY DEF Awaited
<1>2. PICK i \in 1..Len(calls[q]) : calls[q][i].op = "resolve" /\ calls[q][i].job = j
  BY <1>1
<1>3. CASE q # p
  <2>1. calls'[q] = calls[q]
    BY <1>3, FirstReply
  <2>2. QED
    BY <1>2, <2>1 DEF AwaitedNext
<1>4. CASE q = p /\ i = 1
  BY <1>2, <1>4
<1>5. CASE q = p /\ i # 1
  <2>1. i - 1 \in 1..Len(calls'[p]) /\ calls'[p][i - 1] = calls[p][i]
    BY <1>5, FirstReply
  <2>2. QED
    BY <1>2, <1>5, <2>1 DEF AwaitedNext
<1>6. QED
  BY <1>3, <1>4, <1>5

LEMMA RecordReply ==
  ASSUME TypeOK, Slots, OwnReply, MapsKeep, NEW p \in Procs, HandleReply(p)
  PROVE  OwnReply' /\ MapsKeep'
<1> DEFINE c == calls[p][1]
<1>1. /\ calls[p] # <<>> /\ calls' = [calls EXCEPT ![p] = Tail(@)]
      /\ UNCHANGED <<scan, bull>>
  BY DEF HandleReply, bullVars
<1>2. 1 \in 1..Len(calls[p]) /\ Head(calls[p]) = c /\ c \in Call
  BY <1>1, FirstReply
<1> HIDE DEF c
<1>3. c.job \in Jobs /\ c.copy \in Record /\ c.status \in Terminal
  BY <1>2 DEF Call
<1>4. Asked
  <2>1. \A q \in Procs : \A i \in 1..Len(calls'[q]) :
          \E k \in 1..Len(calls[q]) : calls'[q][i] = calls[q][k]
    BY OlderReplies
  <2>2. ASSUME NEW q \in Procs, NEW i \in 1..Len(calls'[q]), Resolved(calls'[q][i].copy)
        PROVE  \E r \in Procs : \E k \in 1..Len(calls[r]) :
                 calls'[q][i].job = calls[r][k].job /\ Resolved(calls[r][k].copy)
    <3>1. PICK k \in 1..Len(calls[q]) : calls'[q][i] = calls[q][k]
      BY <2>1
    <3>2. QED
      BY <2>2, <3>1
  <2>3. QED
    BY <2>2 DEF Asked
<1>5. Completes
  BY <1>1 DEF Completes
<1>6. \/ /\ c.op = "progress"
         /\ IF c.copy.status = "open" THEN Publish(p, c.job, c.copy)
            ELSE UNCHANGED <<redis, conn>>
         /\ UNCHANGED <<store, phase>>
      \/ /\ c.op = "resolve" /\ Resolve(p, c.job, c.copy, c.status)
         /\ \A e \in Execs : phase'[e] = IF e = c.by /\ phase[e] = "fetching" THEN "settling"
                                         ELSE phase[e]
  BY <1>2 DEF HandleReply
<1>7. OwnReply'
  <2>1. \A x \in Execs : phase'[x] = phase[x] \/ c.by = x
    BY <1>6
  <2>2. QED
    BY <1>1, <2>1, OwnTail DEF c
<1>8. ASSUME c.op = "progress",
             IF c.copy.status = "open" THEN Publish(p, c.job, c.copy)
             ELSE UNCHANGED <<redis, conn>>,
             UNCHANGED <<store, phase>>
      PROVE  MapsKeep'
  <2>1. Stays /\ Settles
    BY <1>1, <1>8 DEF Stays, Settles
  <2>2. Earned
    <3>1. CASE c.copy.status = "open"
      BY <1>3, <1>8, <3>1, PublishEarns DEF Resolved, Terminal
    <3>2. CASE c.copy.status # "open"
      BY <1>8, <3>2 DEF Earned
    <3>3. QED
      BY <3>1, <3>2
  <2>3. Answered
    BY <1>1, <1>8, TailAnswers DEF c
  <2>4. QED
    BY <1>4, <1>5, <2>1, <2>2, <2>3, MapsFrame
<1>9. ASSUME c.op = "resolve", Resolve(p, c.job, c.copy, c.status),
             \A e \in Execs : phase'[e] = IF e = c.by /\ phase[e] = "fetching" THEN "settling"
                                          ELSE phase[e]
      PROVE  MapsKeep'
  <2>1. Stays /\ Earned /\ (~Resolved(c.copy) => KeptNext(c.job))
    BY <1>3, <1>9, ResolveKeeps
  <2>2. Resolved(c.copy) => Kept(c.job)
    BY <1>2 DEF MapsKeep, c
  <2>3. KeptNext(c.job)
    BY <1>3, <2>1, <2>2 DEF Stays, Kept, KeptNext
  <2>4. Answered
    BY <1>1, <2>3, TailAnswers DEF c
  <2>5. \A e \in Execs : c.by = e => c.job = scan[e]
    BY <1>2 DEF OwnReply, c
  <2>6. Settles
    BY <1>1, <1>9, <2>3, <2>5 DEF Settles
  <2>7. QED
    BY <1>4, <1>5, <2>1, <2>4, <2>6, MapsFrame
<1>10. QED
  BY <1>6, <1>7, <1>8, <1>9

LEMMA FinishCompletes ==
  ASSUME TypeOK, NEW e, NEW ok, IF racing[e] THEN Finish(e, ok) ELSE UNCHANGED bullVars,
         \A j \in Jobs : owner[j] = e => KeptNext(j) \/ AwaitedNext(j)
  PROVE  Completes
BY DEF Finish, bullVars, Completes

LEMMA RecordStep == IInv /\ RecordInv /\ [Next]_vars => RecordInv'
<1> SUFFICES ASSUME IInv, RecordInv, [Next]_vars PROVE RecordInv'
  OBVIOUS
<1> USE DEF execVars, procVars, bullVars, bounds
<1>1. TypeOK /\ Slots /\ Undertaken /\ HonestState /\ Locks
  BY DEF IInv, RecordInv
<1>2. TypeOK' /\ Slots' /\ Locks'
  BY <1>1, TypeStep, LocksStep
<1> SUFFICES ASSUME crashes' = 0 PROVE OwnReply' /\ MapsKeep'
  BY <1>2 DEF RecordInv
<1>3. crashes = 0 /\ \A p \in Procs : ~Crash(p)
  <2>1. \A p \in Procs : ~Crash(p)
    BY <1>1 DEF Crash, TypeOK
  <2>2. UNCHANGED crashes
    <3>1. CASE WebStep
      BY <3>1 DEF WebStep, Enqueue, ToQueue, Inline, AddError, Poll
    <3>2. CASE \E e \in Execs : ExecStep(e)
      BY <3>2 DEF ExecStep, Progress, StoreDrift, Conclude, Settle, Deadline, Reclaim
    <3>3. CASE \E p \in Workers, j \in Jobs, e \in Execs : Dequeue(p, j, e)
      BY <3>3 DEF Dequeue
    <3>4. CASE \E p \in Procs : HandleReply(p) \/ Reconnect(p) \/ Drop(p)
      BY <3>4 DEF HandleReply, Reconnect, Drop
    <3>5. CASE \E j \in Jobs : Stall(j) \/ Land(j)
      BY <3>5 DEF Stall, Land
    <3>6. QED
      BY <2>1, <3>1, <3>2, <3>3, <3>4, <3>5 DEF Next, vars
  <2>3. QED
    BY <2>1, <2>2
<1>4. OwnReply /\ MapsKeep
  BY <1>3 DEF RecordInv
\* Steps that touch no record.
<1>5. ASSUME UNCHANGED <<store, redis, calls>>,
             \A e \in Execs : phase[e] = "fetching" => phase'[e] = "fetching" /\ scan'[e] = scan[e],
             \A e \in Execs : phase'[e] = "settling" => phase[e] = "settling" /\ scan'[e] = scan[e],
             Completes
      PROVE  OwnReply' /\ MapsKeep'
  <2>1. Stays /\ Earned /\ Settles
    BY <1>5 DEF Stays, Earned, Settles
  <2>2. QED
    BY <1>1, <1>4, <1>5, <2>1, CallsSame, MapsFrame, OwnFrame
<1>6. ASSUME UNCHANGED <<store, redis, calls, phase, scan, bull>> PROVE OwnReply' /\ MapsKeep'
  BY <1>5, <1>6 DEF Completes
\* Steps that leave the executions and BullMQ alone and ask for nothing.
<1>7. ASSUME UNCHANGED <<calls, phase, scan, bull>>, Stays, Earned PROVE OwnReply' /\ MapsKeep'
  <2>1. Completes /\ Settles
    BY <1>7 DEF Completes, Settles
  <2>2. QED
    BY <1>1, <1>4, <1>7, <2>1, CallsSame, MapsFrame, OwnFrame
<1>8. ASSUME NEW w \in Webs, NEW j \in Jobs, Enqueue(w, j) PROVE OwnReply' /\ MapsKeep'
  <2>1. w \in Procs /\ UNCHANGED <<calls, phase, scan, bull>>
    BY <1>8 DEF Procs, Enqueue
  <2>2. PICK real \in BOOLEAN : store' = [store EXCEPT ![w][j] = QueuedRecord(real)]
                                /\ Publish(w, j, QueuedRecord(real))
    BY <1>8, ModesAssumption DEF Enqueue
  <2>3. ~Resolved(QueuedRecord(real))
    BY DEF Resolved, QueuedRecord, Terminal
  <2>4. ~Resolved(store[w][j])
    BY <1>1, <1>8, <2>1 DEF Enqueue, HonestState, Honest, Sent
  <2>5. Stays
    BY <1>1, <2>2, <2>4 DEF Stays, TypeOK
  <2>6. Earned
    BY <1>1, <2>1, <2>2, <2>3, PublishEarns
  <2>7. QED
    BY <1>7, <2>1, <2>5, <2>6
<1>9. ASSUME NEW w \in Webs, NEW j \in Jobs, ToQueue(w, j) PROVE OwnReply' /\ MapsKeep'
  <2>1. UNCHANGED <<store, redis, calls, phase, scan>> /\ bull' = [bull EXCEPT ![j] = "waiting"]
    BY <1>9 DEF ToQueue
  <2>2. QED
    BY <1>1, <1>5, <2>1 DEF Completes, TypeOK
<1>10. ASSUME NEW w \in Webs, NEW j \in Jobs, AddError(w, j) PROVE OwnReply' /\ MapsKeep'
  BY <1>6, <1>10 DEF AddError
<1>11. ASSUME NEW w \in Webs, NEW j \in Jobs, Poll(w, j) PROVE OwnReply' /\ MapsKeep'
  <2> DEFINE local == store[w][j]
             remote == IF conn[w] = "ready" THEN redis[j] ELSE NoRec
             newer == PickNewer(local, remote)
  <2>1. w \in Procs /\ UNCHANGED <<calls, phase, scan, bull, redis>>
        /\ store' = [store EXCEPT ![w][j] = newer]
    BY <1>11 DEF Procs, Poll
  <2>2. Resolved(local) => Resolved(newer)
    BY DEF PickNewer, Resolved, Known, Terminal
  <2> HIDE DEF newer
  <2>3. Stays
    BY <1>1, <2>1, <2>2 DEF Stays, TypeOK
  <2>4. Earned
    BY <2>1 DEF Earned
  <2>5. QED
    BY <1>7, <2>1, <2>3, <2>4
\* An execution begins.
<1>12. ASSUME NEW e \in Execs, NEW p, NEW j \in Jobs, StartExec(e, p, j),
              UNCHANGED <<store, redis, calls>>, Completes
       PROVE  OwnReply' /\ MapsKeep'
  <2>1. /\ phase[e] = "free" /\ phase' = [phase EXCEPT ![e] = "collecting"]
        /\ scan' = [scan EXCEPT ![e] = j]
    BY <1>12 DEF StartExec
  <2>2. \A x \in Execs : x # e => phase'[x] = phase[x] /\ scan'[x] = scan[x]
    BY <1>1, <2>1 DEF TypeOK
  <2>3. phase'[e] = "collecting"
    BY <1>1, <2>1 DEF TypeOK
  <2>4. QED
    BY <1>5, <1>12, <2>1, <2>2, <2>3
<1>13. ASSUME NEW w \in Webs, NEW j \in Jobs, NEW e \in Execs, Inline(w, j, e)
       PROVE  OwnReply' /\ MapsKeep'
  BY <1>12, <1>13 DEF Inline, Completes
<1>14. ASSUME NEW p \in Workers, NEW j \in Jobs, NEW e \in Execs, Dequeue(p, j, e)
       PROVE  OwnReply' /\ MapsKeep'
  <2>1. Completes
    BY <1>1, <1>14 DEF Dequeue, Completes, TypeOK
  <2>2. QED
    BY <1>12, <1>14, <2>1 DEF Dequeue
<1>15. ASSUME NEW e \in Execs, Progress(e) PROVE OwnReply' /\ MapsKeep'
  <2> DEFINE p == host[e]
             j == scan[e]
             c == [op |-> "progress", job |-> j, status |-> "failed", by |-> NoOne,
                   copy |-> redis[j]]
  <2>1. p \in Procs /\ j \in Jobs /\ UNCHANGED <<store, phase, scan, bull>>
    BY <1>1, <1>15 DEF Progress, Slots
  <2>2. \/ UNCHANGED <<redis, calls>>
        \/ ~Resolved(store[p][j]) /\ Publish(p, j, store[p][j]) /\ UNCHANGED calls
        \/ UNCHANGED redis /\ calls' = [calls EXCEPT ![p] = Append(@, c)]
    BY <1>15 DEF Progress
  <2>3. c.by = NoOne /\ c.job = j /\ c.copy = redis[c.job] /\ c.op = "progress"
    OBVIOUS
  <2> HIDE DEF p, j, c
  <2>4. CASE UNCHANGED <<redis, calls>>
    BY <1>6, <2>1, <2>4
  <2>5. CASE ~Resolved(store[p][j]) /\ Publish(p, j, store[p][j]) /\ UNCHANGED calls
    <3>1. Stays
      BY <2>1 DEF Stays
    <3>2. Earned
      BY <1>1, <2>1, <2>5, PublishEarns
    <3>3. QED
      BY <1>7, <2>1, <2>5, <3>1, <3>2
  <2>6. CASE UNCHANGED redis /\ calls' = [calls EXCEPT ![p] = Append(@, c)]
    <3>1. Stays /\ Earned /\ Completes /\ Settles
      BY <2>1, <2>6 DEF Stays, Earned, Completes, Settles
    <3>2. Asked /\ Answered
      BY <1>1, <2>1, <2>3, <2>6, CallAdded
    <3>3. \A x \in Execs : c.by # x
      BY <2>3, ProcsAssumption
    <3>4. OwnReply'
      BY <1>1, <1>4, <2>1, <2>6, <3>3, OwnAppend
    <3>5. QED
      BY <1>1, <1>4, <3>1, <3>2, <3>4, MapsFrame
  <2>7. QED
    BY <2>2, <2>4, <2>5, <2>6
<1>16. ASSUME NEW e \in Execs, StoreDrift(e) PROVE OwnReply' /\ MapsKeep'
  <2>1. /\ phase[e] = "collecting" /\ phase' = [phase EXCEPT ![e] = "handed"]
        /\ UNCHANGED <<store, redis, calls, scan, bull>>
    BY <1>16 DEF StoreDrift
  <2>2. QED
    BY <1>1, <1>5, <2>1 DEF Completes, TypeOK
<1>17. ASSUME NEW e \in Execs, NEW v \in Verdicts, Conclude(e, v) PROVE OwnReply' /\ MapsKeep'
  <2> DEFINE p == host[e]
             j == scan[e]
             st == StatusOf(v)
             c == [op |-> "resolve", job |-> j, status |-> st, by |-> e, copy |-> redis[j]]
  <2>1. /\ p \in Procs /\ j \in Jobs /\ st \in Terminal
        /\ UNCHANGED <<scan, bull>> /\ phase[e] \in {"collecting", "handed"}
    BY <1>1, <1>17 DEF Conclude, Concluded, Slots, StatusOf, Verdicts, Terminal
  <2>2. /\ CallResolve(p, j, st, e)
        /\ phase' = [phase EXCEPT ![e] = IF MustFetch(p, j) THEN "fetching" ELSE "settling"]
    BY <1>17 DEF Conclude
  <2>3. MustFetch(p, j) => calls' = [calls EXCEPT ![p] = Append(@, c)]
    BY <2>2 DEF CallResolve
  <2>4. ~MustFetch(p, j) => UNCHANGED calls
    BY <2>2 DEF CallResolve
  <2>5. c.by = e /\ c.op = "resolve" /\ c.job = scan[e]
    OBVIOUS
  <2> HIDE DEF p, st, c
  <2>6. /\ Stays /\ Earned /\ Asked /\ Answered
        /\ IF MustFetch(p, j) THEN AwaitedNext(j) ELSE KeptNext(j)
    BY <1>1, <2>1, <2>2, CallResolveKeeps
  <2>7. Completes
    BY <2>1 DEF Completes
  <2>8. /\ \A x \in Execs : x # e => phase'[x] = phase[x]
        /\ phase'[e] = IF MustFetch(p, j) THEN "fetching" ELSE "settling"
    BY <1>1, <2>2 DEF TypeOK
  <2>9. Settles
    BY <2>1, <2>6, <2>8 DEF Settles
  <2>10. OwnReply'
    <3>1. CASE MustFetch(p, j)
      <4>1. \A x \in Execs : phase[x] = "fetching" => phase'[x] = "fetching"
        BY <2>1, <2>8
      <4>2. \A x \in Execs : c.by = x => /\ phase[x] # "fetching" /\ phase'[x] = "fetching"
                                         /\ c.op = "resolve" /\ c.job = scan[x]
        BY <2>1, <2>5, <2>8, <3>1
      <4>3. QED
        BY <1>1, <1>4, <2>1, <2>3, <3>1, <4>1, <4>2, OwnAppend
    <3>2. CASE ~MustFetch(p, j)
      BY <1>4, <2>1, <2>4, <2>8, <3>2, OwnFrame
    <3>3. QED
      BY <3>1, <3>2
  <2>11. QED
    BY <1>1, <1>4, <2>6, <2>7, <2>9, <2>10, MapsFrame
<1>18. ASSUME NEW p \in Procs, HandleReply(p) PROVE OwnReply' /\ MapsKeep'
  BY <1>1, <1>4, <1>18, RecordReply
<1>19. ASSUME NEW e \in Execs, Settle(e) PROVE OwnReply' /\ MapsKeep'
  <2>1. /\ phase[e] = "settling" /\ phase' = [phase EXCEPT ![e] = "done"]
        /\ UNCHANGED <<store, redis, calls, scan>>
        /\ IF racing[e] THEN Finish(e, verdict[e] # "thrown") ELSE UNCHANGED bullVars
    BY <1>19 DEF Settle
  <2>2. \A j \in Jobs : owner[j] = e => Kept(j)
    BY <1>1, <1>4, <2>1 DEF Locks, MapsKeep
  <2>3. \A j \in Jobs : owner[j] = e => KeptNext(j)
    BY <2>1, <2>2 DEF Kept, KeptNext
  <2>4. Completes
    BY <1>1, <2>1, <2>3, FinishCompletes
  <2>5. \A x \in Execs : x # e => phase'[x] = phase[x]
    BY <1>1, <2>1 DEF TypeOK
  <2>6. phase'[e] = "done"
    BY <1>1, <2>1 DEF TypeOK
  <2>7. QED
    BY <1>5, <2>1, <2>4, <2>5, <2>6
<1>20. ASSUME NEW e \in Execs, Deadline(e) PROVE OwnReply' /\ MapsKeep'
  <2> DEFINE p == host[e]
             j == scan[e]
             c == [op |-> "resolve", job |-> j, status |-> "failed", by |-> NoOne,
                   copy |-> redis[j]]
  <2>1. /\ p \in Procs /\ j \in Jobs /\ "failed" \in Terminal /\ UNCHANGED <<phase, scan>>
        /\ IF racing[e] THEN Finish(e, TRUE) ELSE UNCHANGED bullVars
    BY <1>1, <1>20 DEF Deadline, Slots, Terminal
  <2>2. CallResolve(p, j, "failed", NoOne)
    BY <1>20 DEF Deadline
  <2>3. MustFetch(p, j) => calls' = [calls EXCEPT ![p] = Append(@, c)]
    BY <2>2 DEF CallResolve
  <2>4. ~MustFetch(p, j) => UNCHANGED calls
    BY <2>2 DEF CallResolve
  <2>5. \A x \in Execs : c.by # x
    BY ProcsAssumption
  <2> HIDE DEF p, c
  <2>6. /\ Stays /\ Earned /\ Asked /\ Answered
        /\ IF MustFetch(p, j) THEN AwaitedNext(j) ELSE KeptNext(j)
    BY <1>1, <2>1, <2>2, CallResolveKeeps
  <2>7. \A k \in Jobs : owner[k] = e => KeptNext(k) \/ AwaitedNext(k)
    BY <1>1, <2>6 DEF Locks
  <2>8. Completes
    BY <1>1, <2>1, <2>7, FinishCompletes
  <2>9. Settles
    BY <2>1 DEF Settles
  <2>10. OwnReply'
    <3>1. CASE MustFetch(p, j)
      BY <1>1, <1>4, <2>1, <2>3, <2>5, <3>1, OwnAppend
    <3>2. CASE ~MustFetch(p, j)
      BY <1>4, <2>1, <2>4, <3>2, OwnFrame
    <3>3. QED
      BY <3>1, <3>2
  <2>11. QED
    BY <1>1, <1>4, <2>6, <2>8, <2>9, <2>10, MapsFrame
<1>21. ASSUME NEW e \in Execs, Reclaim(e) PROVE OwnReply' /\ MapsKeep'
  <2>1. /\ phase[e] = "done" /\ phase' = [phase EXCEPT ![e] = "free"]
        /\ scan' = [scan EXCEPT ![e] = NoOne] /\ UNCHANGED <<store, redis, calls, bull>>
    BY <1>21 DEF Reclaim
  <2>2. \A x \in Execs : x # e => phase'[x] = phase[x] /\ scan'[x] = scan[x]
    BY <1>1, <2>1 DEF TypeOK
  <2>3. phase'[e] = "free" /\ Completes
    BY <1>1, <2>1 DEF TypeOK, Completes
  <2>4. QED
    BY <1>5, <2>1, <2>2, <2>3
<1>22. ASSUME NEW j \in Jobs, Stall(j) PROVE OwnReply' /\ MapsKeep'
  <2>1. UNCHANGED <<store, redis, calls, phase, scan>>
    BY <1>22 DEF Stall
  <2>2. \A k \in Jobs : bull'[k] = bull[k] \/ bull'[k] # "completed"
    BY <1>1, <1>22 DEF Stall, TypeOK
  <2>3. QED
    BY <1>5, <2>1, <2>2 DEF Completes
<1>land. ASSUME NEW j \in Jobs, Land(j) PROVE OwnReply' /\ MapsKeep'
  BY <1>6, <1>land DEF Land
<1>23. ASSUME NEW p \in Procs, Reconnect(p) PROVE OwnReply' /\ MapsKeep'
  BY <1>6, <1>23 DEF Reconnect
<1>24. ASSUME NEW p \in Procs, Drop(p) PROVE OwnReply' /\ MapsKeep'
  <2>1. UNCHANGED <<store, redis, phase, scan, bull>>
    BY <1>24 DEF Drop
  <2>2. \A q \in Procs : Len(calls'[q]) = Len(calls[q]) /\ Len(calls[q]) \in Nat
    BY <1>1, <1>24, DroppedReplies DEF TypeOK
  <2>3. ASSUME NEW q \in Procs, NEW i \in 1..Len(calls[q])
        PROVE  /\ calls'[q][i].op = calls[q][i].op /\ calls'[q][i].job = calls[q][i].job
               /\ calls'[q][i].by = calls[q][i].by
               /\ Resolved(calls'[q][i].copy) => Resolved(calls[q][i].copy)
    <3>1. calls[q][i] \in Call
      BY <1>1 DEF TypeOK
    <3>2. calls'[q][i] \in {calls[q][i], [calls[q][i] EXCEPT !.copy = NoRec]}
      BY <1>1, <1>24, DroppedReplies
    <3>3. ~Resolved(NoRec)
      BY DEF Resolved, NoRec, Terminal
    <3> HIDE DEF NoRec
    <3>4. QED
      BY <3>1, <3>2, <3>3 DEF Call
  <2>4. Stays /\ Earned /\ Completes /\ Settles
    BY <2>1 DEF Stays, Earned, Completes, Settles
  <2>5. Asked
    BY <2>2, <2>3 DEF Asked
  <2>6. Answered
    BY <2>2, <2>3 DEF Answered, Awaited, AwaitedNext
  <2>7. OwnReply'
    <3>1. \A q \in Procs : \A i \in 1..Len(calls'[q]) : \A e \in Execs :
            calls'[q][i].by = e =>
              phase'[e] = "fetching" /\ calls'[q][i].op = "resolve" /\ calls'[q][i].job = scan'[e]
      BY <1>4, <2>1, <2>2, <2>3 DEF OwnReply
    <3>2. \A q, r \in Procs : \A i \in 1..Len(calls'[q]), k \in 1..Len(calls'[r]) :
            calls'[q][i].by \in Execs /\ calls'[r][k].by = calls'[q][i].by => q = r /\ i = k
      <4> TAKE q, r \in Procs
      <4> TAKE i \in 1..Len(calls'[q]), k \in 1..Len(calls'[r])
      <4> HAVE calls'[q][i].by \in Execs /\ calls'[r][k].by = calls'[q][i].by
      <4>1. i \in 1..Len(calls[q]) /\ k \in 1..Len(calls[r])
        BY <2>2
      <4>2. calls[q][i].by \in Execs /\ calls[r][k].by = calls[q][i].by
        BY <2>3, <4>1
      <4>3. QED
        BY <1>4, <4>1, <4>2 DEF OwnReply
    <3>3. QED
      BY <3>1, <3>2 DEF OwnReply
  <2>8. QED
    BY <1>1, <1>4, <2>4, <2>5, <2>6, <2>7, MapsFrame
<1>25. CASE UNCHANGED vars
  BY <1>6, <1>25 DEF vars
<1>26. QED
  <2>1. CASE WebStep
    BY <2>1, <1>8, <1>9, <1>10, <1>11, <1>13 DEF WebStep
  <2>2. CASE \E e \in Execs : ExecStep(e)
    BY <2>2, <1>15, <1>16, <1>17, <1>19, <1>20, <1>21 DEF ExecStep
  <2>3. QED
    BY <2>1, <2>2, <1>3, <1>14, <1>18, <1>22, <1>23, <1>24, <1>25,
       <1>land DEF Next

\* As long as no process has died, a scan that BullMQ counts as completed has its
\* outcome in the Map of some process, or a fetch under way that will record it
\* (the processor of the scan worker returns only after resolveScanAsync, and the
\* deadline resolves before it wins the race).
THEOREM CompletionRecorded == Spec => [](crashes = 0 => CompletedIsRecorded)
<1>1. Init => IInv /\ RecordInv
  BY TypeInit, HonestInit, RecordInit DEF IInv
<1>2. IInv /\ RecordInv /\ [Next]_vars => IInv' /\ RecordInv'
  BY TypeStep, UndertakenStep, HonestStep, RecordStep DEF IInv
<1>3. RecordInv => (crashes = 0 => CompletedIsRecorded)
  BY DEF RecordInv, MapsKeep, Kept, Awaited, CompletedIsRecorded
<1>4. QED
  BY <1>1, <1>2, <1>3, PTL DEF Spec
=============================================================================
