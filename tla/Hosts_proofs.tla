---------------------------- MODULE Hosts_proofs ----------------------------
(***************************************************************************)
(* Type correctness of Hosts, and its two safety properties, for any       *)
(* number of processes and requests and for any bounds.                    *)
(***************************************************************************)
EXTENDS Hosts, TLAPS

Operations == {"scan", "capture", "accept", "ingest", "delete", "reset", "install"}

Tasks(d) ==
  [op : Operations \cup {"none", "push"}, at : Steps, proc : Procs \cup {None},
   snap : Versions \cup {None}, base : Versions \cup {None},
   deletion : 0..d, found : BOOLEAN, blind : BOOLEAN]

ReqTypes == req \in [Slots -> Tasks(deletions)]

\* TypeOK without the requests.
RestTypes ==
  /\ world \in Versions /\ baseline \in Versions \cup {None}
  /\ events \in Diffs \cup {None}
  /\ pending \in [Slots -> [proc : Procs, diff : Diffs] \cup {None}]
  /\ cache \in [Procs -> Versions \cup {None}]
  /\ deletions \in Nat /\ {tomb, expired} \subseteq 0..deletions
  /\ mirror \in [Procs -> 0..deletions]
  /\ job \in [Slots -> {"none", "queued", "running", "succeeded", "failed"}]
  /\ ops \in 0..MaxOps /\ faults \in 0..MaxFaults /\ crashes \in 0..MaxCrashes

\* What a request has at the steps that use it.
Formed(t) ==
  /\ t.at # "idle" => t.proc \in Procs
  /\ t.at \in {"check", "get", "bootstrap", "drift", "record", "pin", "empty"}
       => t.snap \in Versions
  /\ t.at = "drift" => t.base \in Versions

AllFormed == \A r \in Slots : Formed(req[r])

\* A deletion that is about to be written is nobody else's yet.
Graves ==
  \A r \in Slots : req[r].at = "engrave" =>
    /\ req[r].op = "delete" /\ req[r].deletion # 0 /\ req[r].deletion # tomb
    /\ \A q \in Slots \ {r} :
         /\ req[q].op = "push" => req[q].deletion # req[r].deletion
         /\ req[q].at = "engrave" => req[q].deletion # req[r].deletion

IInv == ReqTypes /\ RestTypes /\ AllFormed /\ Graves /\ BuriedStaysOut

-----------------------------------------------------------------------------
(* Types of what the steps are built from.                                 *)

LEMMA TypesSplit == TypeOK <=> ReqTypes /\ RestTypes
  BY DEF TypeOK, ReqTypes, RestTypes, Tasks, Operations, FirstStep

LEMMA FreeIsTask ==
  ASSUME NEW d \in Nat
  PROVE  Free \in Tasks(d) /\ Formed(Free)
  BY DEF Free, Tasks, Steps, Formed

LEMMA FaultTypes ==
  ASSUME RestTypes, Works \/ Fault
  PROVE  faults' \in 0..MaxFaults
  BY HostsAssumption DEF RestTypes, Works, Fault

LEMMA MirrorTypes ==
  ASSUME RestTypes, NEW p, NEW d \in 0..deletions, mirror' = [mirror EXCEPT ![p] = d]
  PROVE  mirror' \in [Procs -> 0..deletions]
  BY DEF RestTypes

LEMMA JobTypes ==
  ASSUME RestTypes, NEW r, NEW s \in {"queued", "running", "succeeded", "failed"},
         job' = [job EXCEPT ![r] = s]
  PROVE  job' \in [Slots -> {"none", "queued", "running", "succeeded", "failed"}]
  BY DEF RestTypes

LEMMA CacheTypes ==
  ASSUME RestTypes, NEW p, NEW s \in Versions \cup {None}, cache' = [cache EXCEPT ![p] = s]
  PROVE  cache' \in [Procs -> Versions \cup {None}]
  BY DEF RestTypes

LEMMA StoreTypes ==
  ASSUME RestTypes, NEW r \in Slots, req[r].proc \in Procs,
         NEW diff \in Diffs, Store(r, diff)
  PROVE  pending' \in [Slots -> [proc : Procs, diff : Diffs] \cup {None}]
<1> DEFINE w == [proc |-> req[r].proc, diff |-> diff]
<1>1. w \in [proc : Procs, diff : Diffs]
  OBVIOUS
<1>2. pending' = [pending EXCEPT ![r] = w]
  BY DEF Store
<1> HIDE DEF w
<1>3. QED
  BY <1>1, <1>2 DEF RestTypes

-----------------------------------------------------------------------------
(* A request goes on: the part of a step that the invariant speaks of.     *)

\* What may follow s in a slot, but for a push that leaves its check and a
\* deletion that is buried.
Follows(t, s) ==
  /\ t \in Tasks(deletions) /\ Formed(t)
  /\ t.op = s.op /\ t.at # "engrave"
  /\ t.op = "push" =>
       t.deletion = s.deletion /\ t.blind = s.blind /\ s.at # "check"

Advance(r) == \E t : req' = [req EXCEPT ![r] = t] /\ (t = Free \/ Follows(t, req[r]))

LEMMA GotoAdvances ==
  ASSUME IInv, NEW r \in Slots, NEW s \in Steps \ {"engrave"}, Goto(r, s),
         req[r].op = "push" => req[r].at # "check",
         Formed([req[r] EXCEPT !.at = s])
  PROVE  Advance(r)
<1> DEFINE t == [req[r] EXCEPT !.at = s]
<1>1. req' = [req EXCEPT ![r] = t]
  BY DEF Goto
<1>2. req[r] \in Tasks(deletions)
  BY DEF IInv, ReqTypes
<1>3. /\ t \in Tasks(deletions) /\ t.op = req[r].op /\ t.at = s
      /\ t.deletion = req[r].deletion /\ t.blind = req[r].blind
  BY <1>2 DEF Tasks
<1>4. Follows(t, req[r])
  BY <1>3 DEF Follows
<1>5. QED
  BY <1>1, <1>4 DEF Advance

LEMMA DoneAdvances == ASSUME NEW r, Done(r) PROVE Advance(r)
  BY DEF Done, Advance

LEMMA AdvanceKeeps ==
  ASSUME IInv, RestTypes', NEW r \in Slots, Advance(r),
         tomb' \in {0, tomb}, UNCHANGED <<deletions, expired>>
  PROVE  IInv'
<1>1. PICK t : req' = [req EXCEPT ![r] = t] /\ (t = Free \/ Follows(t, req[r]))
  BY DEF Advance
<1>2. deletions \in Nat
  BY DEF IInv, RestTypes
<1>3. t \in Tasks(deletions) /\ Formed(t)
  BY <1>1, <1>2, FreeIsTask DEF Follows
<1>4. ReqTypes' /\ AllFormed'
  BY <1>1, <1>3 DEF IInv, ReqTypes, AllFormed, Formed
<1>5. /\ t.at # "engrave"
      /\ t.op = "push" => /\ req[r].op = "push" /\ t.deletion = req[r].deletion
                          /\ t.blind = req[r].blind /\ req[r].at # "check"
  BY <1>1 DEF Free, Follows
<1>6. req'[r] = t /\ \A q \in Slots \ {r} : req'[q] = req[q]
  BY <1>1 DEF IInv, ReqTypes
<1>7. Graves'
  BY <1>5, <1>6 DEF IInv, Graves
<1>8. BuriedStaysOut'
  BY <1>5, <1>6 DEF IInv, BuriedStaysOut, Alive
<1>2a. QED
  BY <1>4, <1>7, <1>8 DEF IInv

\* Steps that leave the requests alone.
LEMMA OthersKeep ==
  ASSUME IInv, RestTypes', UNCHANGED <<req, deletions, tomb>>,
         expired' = expired \/ expired' = expired + 1
  PROVE  IInv'
<1>1. ReqTypes' /\ AllFormed' /\ Graves'
  BY DEF IInv, ReqTypes, AllFormed, Formed, Graves
<1>2. tomb \in Nat /\ expired \in Nat
  BY DEF IInv, RestTypes
<1>3. BuriedStaysOut'
  BY <1>2 DEF IInv, BuriedStaysOut, Alive
<1>4. QED
  BY <1>1, <1>3 DEF IInv

-----------------------------------------------------------------------------
(* One lemma for each step.                                                *)

LEMMA InitKeeps == Init => IInv
<1> SUFFICES ASSUME Init PROVE IInv
  OBVIOUS
<1>1. req = [r \in Slots |-> Free] /\ deletions = 0
  BY DEF Init
<1>2. ReqTypes /\ AllFormed
  BY <1>1, FreeIsTask DEF ReqTypes, AllFormed
<1>3. RestTypes
  BY HostsAssumption DEF Init, RestTypes, Versions
<1>4. Graves /\ BuriedStaysOut
  BY <1>1 DEF Graves, BuriedStaysOut, Free
<1>5. QED
  BY <1>2, <1>3, <1>4 DEF IInv

LEMMA ChangesKeeps == ASSUME IInv, Changes PROVE IInv'
<1>1. RestTypes'
  BY HostsAssumption DEF IInv, RestTypes, Changes, rows, memory, history, Versions
<1>2. QED
  BY <1>1, OthersKeep DEF Changes, rows, history

LEMMA ExpireKeeps == ASSUME IInv, Expire PROVE IInv'
<1>1. expired' \in 0..deletions
  BY DEF IInv, RestTypes, Expire
<1>2. RestTypes'
  BY <1>1 DEF IInv, RestTypes, Expire, rows, memory
<1>3. QED
  BY <1>2, OthersKeep DEF Expire, rows

LEMMA LandKeeps == ASSUME IInv, NEW r \in Slots, Land(r) PROVE IInv'
<1>1. pending[r] \in [proc : Procs, diff : Diffs]
  BY DEF IInv, RestTypes, Land
<1>2. events' \in Diffs \cup {None}
  BY <1>1 DEF IInv, RestTypes, Land
<1>3. pending' \in [Slots -> [proc : Procs, diff : Diffs] \cup {None}]
  BY DEF IInv, RestTypes, Land
<1>4. faults' \in 0..MaxFaults
  BY FaultTypes DEF IInv, Land
<1>5. RestTypes'
  BY <1>2, <1>3, <1>4 DEF IInv, RestTypes, Land, memory, history
<1>6. QED
  BY <1>5, OthersKeep DEF Land, history

LEMMA SweepKeeps == ASSUME IInv, NEW r \in Slots, Sweep(r) PROVE IInv'
<1>1. RestTypes'
  BY JobTypes DEF IInv, RestTypes, Sweep, memory, history
<1>2. QED
  BY <1>1, OthersKeep DEF Sweep, history

LEMMA RefuseKeeps == ASSUME IInv, NEW r \in Slots, Refuse(r) PROVE IInv'
<1>1. Advance(r)
  BY DoneAdvances DEF Refuse
<1>2. req[r].proc \in Procs
  BY DEF IInv, AllFormed, Formed, Refuse, At
<1>3. Mirrored(req[r].proc) \in 0..deletions
  BY <1>2 DEF IInv, RestTypes, Mirrored
<1>4. mirror' \in [Procs -> 0..deletions]
  BY <1>3, MirrorTypes DEF IInv, Refuse
<1>5. RestTypes'
  BY <1>4 DEF IInv, RestTypes, Refuse, rows, history
<1>6. QED
  BY <1>1, <1>5, AdvanceKeeps DEF Refuse, rows, history

LEMMA GetBaselineKeeps == ASSUME IInv, NEW r \in Slots, GetBaseline(r) PROVE IInv'
<1>1. req[r].op \in {"push", "scan"} /\ req[r].at = "get" /\ req[r] \in Tasks(deletions)
  BY DEF GetBaseline, At, IInv, ReqTypes
<1>2. Formed(req[r])
  BY DEF IInv, AllFormed
<1>3. Advance(r)
  <2>1. CASE Done(r)
    BY <2>1, DoneAdvances
  <2>2. CASE Goto(r, "bootstrap")
    <3>1. Formed([req[r] EXCEPT !.at = "bootstrap"])
      BY <1>1, <1>2 DEF Formed, Tasks
    <3>2. QED
      BY <1>1, <2>2, <3>1, GotoAdvances DEF Steps
  <2>3. CASE baseline # None /\ req' = [req EXCEPT ![r].at = "drift", ![r].base = baseline]
    <3> DEFINE t == [req[r] EXCEPT !.at = "drift", !.base = baseline]
    <3>1. req' = [req EXCEPT ![r] = t]
      BY <2>3 DEF IInv, ReqTypes
    <3>2. baseline \in Versions
      BY <2>3 DEF IInv, RestTypes
    <3>3. t \in Tasks(deletions) /\ Formed(t)
      BY <1>1, <1>2, <3>2 DEF Tasks, Steps, Formed
    <3>4. Follows(t, req[r])
      BY <1>1, <3>3 DEF Follows, Tasks
    <3>5. QED
      BY <3>1, <3>4 DEF Advance
  <2>4. QED
    BY <2>1, <2>2, <2>3 DEF GetBaseline
<1>4. faults' \in 0..MaxFaults
  BY FaultTypes DEF IInv, GetBaseline
<1>5. RestTypes'
  BY <1>4 DEF IInv, RestTypes, GetBaseline, rows, memory, history
<1>6. QED
  BY <1>3, <1>5, AdvanceKeeps DEF GetBaseline, rows, history

LEMMA BootstrapKeeps == ASSUME IInv, NEW r \in Slots, Bootstrap(r) PROVE IInv'
<1>1. req[r].op = "push" /\ req[r].at = "bootstrap" /\ req[r] \in Tasks(deletions)
  BY DEF Bootstrap, At, IInv, ReqTypes
<1>2. Formed(req[r]) /\ req[r].snap \in Versions
  BY <1>1 DEF IInv, AllFormed, Formed
<1>3. Advance(r)
  <2>1. CASE Done(r)
    BY <2>1, DoneAdvances
  <2>2. CASE Goto(r, "record")
    <3>1. Formed([req[r] EXCEPT !.at = "record"])
      BY <1>1, <1>2 DEF Formed, Tasks
    <3>2. QED
      BY <1>1, <2>2, <3>1, GotoAdvances DEF Steps
  <2>3. CASE req' = [req EXCEPT ![r].at = "drift", ![r].base = req[r].snap]
    <3> DEFINE t == [req[r] EXCEPT !.at = "drift", !.base = req[r].snap]
    <3>1. req' = [req EXCEPT ![r] = t]
      BY <2>3 DEF IInv, ReqTypes
    <3>2. t \in Tasks(deletions) /\ Formed(t)
      BY <1>1, <1>2 DEF Tasks, Steps, Formed
    <3>3. Follows(t, req[r])
      BY <1>1, <3>2 DEF Follows, Tasks
    <3>4. QED
      BY <3>1, <3>3 DEF Advance
  <2>4. QED
    BY <2>1, <2>2, <2>3 DEF Bootstrap
<1>4. faults' \in 0..MaxFaults
  BY FaultTypes DEF IInv, Bootstrap
<1>5. RestTypes'
  BY <1>2, <1>4 DEF IInv, RestTypes, Bootstrap, memory, history
<1>6. QED
  BY <1>3, <1>5, AdvanceKeeps DEF Bootstrap, history

LEMMA DriftKeeps == ASSUME IInv, NEW r \in Slots, Drift(r) PROVE IInv'
<1>1. Advance(r)
  BY DoneAdvances DEF Drift
<1>2. req[r].proc \in Procs /\ req[r].snap \in Versions /\ req[r].base \in Versions
  BY DEF IInv, AllFormed, Formed, Drift, At
<1>3. pending' \in [Slots -> [proc : Procs, diff : Diffs] \cup {None}]
  <2>1. Diff(req[r].base, req[r].snap) \in Diffs
    BY <1>2 DEF Diff, Diffs
  <2>2. QED
    BY <1>2, <2>1, StoreTypes DEF IInv, Drift
<1>4. cache' \in [Procs -> Versions \cup {None}]
  BY <1>2 DEF IInv, RestTypes, Drift
<1>5. RestTypes'
  BY <1>3, <1>4 DEF IInv, RestTypes, Drift, rows, history
<1>6. QED
  BY <1>1, <1>5, AdvanceKeeps DEF Drift, rows, history

LEMMA RecordKeeps == ASSUME IInv, NEW r \in Slots, Record(r) PROVE IInv'
<1>1. Advance(r)
  BY DoneAdvances DEF Record
<1>2. req[r].snap \in Versions
  BY DEF IInv, AllFormed, Formed, Record, At
<1>3. RestTypes'
  BY <1>2, CacheTypes DEF IInv, RestTypes, Record, rows, history
<1>4. QED
  BY <1>1, <1>3, AdvanceKeeps DEF Record, rows, history

LEMMA SelectKeeps == ASSUME IInv, NEW r \in Slots, Select(r) PROVE IInv'
<1>1. req[r].op = "accept" /\ req[r].at = "select" /\ req[r] \in Tasks(deletions)
  BY DEF Select, At, IInv, ReqTypes
<1>2. Formed([req[r] EXCEPT !.at = "strip"])
  BY <1>1 DEF IInv, AllFormed, Formed, Tasks
<1>3. Advance(r)
  BY <1>1, <1>2, GotoAdvances, DoneAdvances DEF Select, Steps
<1>4. RestTypes'
  BY DEF IInv, RestTypes, Select, rows, memory, history
<1>5. QED
  BY <1>3, <1>4, AdvanceKeeps DEF Select, rows, history

LEMMA StripKeeps == ASSUME IInv, NEW r \in Slots, Strip(r) PROVE IInv'
<1>1. req[r].op = "accept" /\ req[r].at = "strip" /\ req[r] \in Tasks(deletions)
  BY DEF Strip, At, IInv, ReqTypes
<1>2. req[r].proc \in Procs /\ Formed([req[r] EXCEPT !.at = "collect"])
  BY <1>1 DEF IInv, AllFormed, Formed, Tasks
<1>3. Advance(r)
  BY <1>1, <1>2, GotoAdvances DEF Strip, Steps
<1>4. PICK rest \in ({events} \ {None}) \cup {NoDrift} : Store(r, rest)
  BY DEF Strip
<1>5. rest \in Diffs
  BY <1>4, HostsAssumption DEF NoDrift, Diff, Diffs, Versions, IInv, RestTypes
<1>6. pending' \in [Slots -> [proc : Procs, diff : Diffs] \cup {None}]
  BY <1>2, <1>4, <1>5, StoreTypes DEF IInv
<1>7. RestTypes'
  BY <1>6 DEF IInv, RestTypes, Strip, rows, memory, history
<1>8. QED
  BY <1>3, <1>7, AdvanceKeeps DEF Strip, rows, history

LEMMA CollectKeeps == ASSUME IInv, NEW r \in Slots, Collect(r) PROVE IInv'
<1>1. req[r].op \in {"scan", "capture", "accept"} /\ req[r].at = "collect" /\ req[r] \in Tasks(deletions)
  BY DEF Collect, At, IInv, ReqTypes
<1>2. Formed(req[r]) /\ req[r].proc \in Procs
  BY <1>1 DEF IInv, AllFormed, Formed
<1>3. Advance(r)
  <2>1. CASE Done(r)
    BY <2>1, DoneAdvances
  <2>2. CASE Goto(r, "fail")
    <3>1. Formed([req[r] EXCEPT !.at = "fail"])
      BY <1>1, <1>2 DEF Formed, Tasks
    <3>2. QED
      BY <1>1, <2>2, <3>1, GotoAdvances DEF Steps
  <2>3. CASE \E s \in {world, cache[req[r].proc], baseline} \ {None} :
               req' = [req EXCEPT ![r].at = Collected[req[r].op], ![r].snap = s]
    <3>1. PICK s \in {world, cache[req[r].proc], baseline} \ {None} :
            req' = [req EXCEPT ![r].at = Collected[req[r].op], ![r].snap = s]
      BY <2>3
    <3>2. s \in Versions
      BY <1>2, <3>1 DEF IInv, RestTypes
    <3>3. Collected[req[r].op] \in {"get", "pin"}
      BY <1>1 DEF Collected
    <3> DEFINE t == [req[r] EXCEPT !.at = Collected[req[r].op], !.snap = s]
    <3>4. req' = [req EXCEPT ![r] = t]
      BY <3>1 DEF IInv, ReqTypes
    <3>5. t \in Tasks(deletions) /\ Formed(t)
      BY <1>1, <1>2, <3>2, <3>3 DEF Tasks, Steps, Formed
    <3>6. Follows(t, req[r])
      BY <1>1, <3>3, <3>5 DEF Follows, Tasks
    <3>7. QED
      BY <3>4, <3>6 DEF Advance
  <2>4. QED
    BY <2>1, <2>2, <2>3 DEF Collect
<1>4. RestTypes'
  BY DEF IInv, RestTypes, Collect, rows, memory, history
<1>5. QED
  BY <1>3, <1>4, AdvanceKeeps DEF Collect, rows, history

LEMMA StartCaptureKeeps == ASSUME IInv, NEW r \in Slots, StartCapture(r) PROVE IInv'
<1>1. req[r].op = "capture" /\ req[r].at = "start" /\ req[r] \in Tasks(deletions)
  BY DEF StartCapture, At, IInv, ReqTypes
<1>2. \A s \in {"collect", "fail"} : Formed([req[r] EXCEPT !.at = s])
  BY <1>1 DEF IInv, AllFormed, Formed, Tasks
<1>3. Advance(r)
  BY <1>1, <1>2, GotoAdvances DEF StartCapture, Steps
<1>4. job' \in [Slots -> {"none", "queued", "running", "succeeded", "failed"}]
  BY JobTypes DEF IInv, RestTypes, StartCapture
<1>5. faults' \in 0..MaxFaults
  BY FaultTypes DEF IInv, StartCapture
<1>6. RestTypes'
  BY <1>4, <1>5 DEF IInv, RestTypes, StartCapture, memory, history
<1>7. QED
  BY <1>3, <1>6, AdvanceKeeps DEF StartCapture, history

LEMMA PinKeeps == ASSUME IInv, NEW r \in Slots, Pin(r) PROVE IInv'
<1>1. /\ req[r].op \in {"capture", "accept", "ingest"} /\ req[r].at = "pin"
      /\ req[r] \in Tasks(deletions)
  BY DEF Pin, At, IInv, ReqTypes
<1>2. req[r].snap \in Versions /\ \A s \in {"empty", "fail"} : Formed([req[r] EXCEPT !.at = s])
  BY <1>1 DEF IInv, AllFormed, Formed, Tasks
<1>3. Advance(r)
  BY <1>1, <1>2, GotoAdvances, DoneAdvances DEF Pin, Steps
<1>4. faults' \in 0..MaxFaults
  BY FaultTypes DEF IInv, Pin
<1>5. RestTypes'
  BY <1>2, <1>4 DEF IInv, RestTypes, Pin, memory, history
<1>6. QED
  BY <1>3, <1>5, AdvanceKeeps DEF Pin, history

LEMMA EmptyKeeps == ASSUME IInv, NEW r \in Slots, Empty(r) PROVE IInv'
<1>1. req[r].op = "capture" /\ req[r].at = "empty" /\ req[r] \in Tasks(deletions)
  BY DEF Empty, At, IInv, ReqTypes
<1>2. /\ req[r].snap \in Versions /\ req[r].proc \in Procs
      /\ Formed([req[r] EXCEPT !.at = "succeed"])
  BY <1>1 DEF IInv, AllFormed, Formed, Tasks
<1>3. Advance(r)
  BY <1>1, <1>2, GotoAdvances DEF Empty, Steps
<1>4. pending' \in [Slots -> [proc : Procs, diff : Diffs] \cup {None}]
  <2>1. Diff(req[r].snap, req[r].snap) \in Diffs
    BY <1>2 DEF Diff, Diffs
  <2>2. QED
    BY <1>2, <2>1, StoreTypes DEF IInv, Empty
<1>5. RestTypes'
  BY <1>4 DEF IInv, RestTypes, Empty, rows, history
<1>6. QED
  BY <1>3, <1>5, AdvanceKeeps DEF Empty, rows, history

LEMMA FinishKeeps ==
  ASSUME IInv, NEW r \in Slots, NEW step \in {"succeed", "fail"},
         NEW status \in {"succeeded", "failed"}, Finish(r, step, status)
  PROVE  IInv'
<1>1. req[r].op = "capture" /\ req[r].at = step /\ req[r] \in Tasks(deletions)
  BY DEF Finish, At, IInv, ReqTypes
<1>2. Formed([req[r] EXCEPT !.at = "fail"]) \/ Done(r)
  BY <1>1 DEF IInv, AllFormed, Formed, Tasks, Finish
<1>3. Advance(r)
  BY <1>1, <1>2, GotoAdvances, DoneAdvances DEF Finish, Steps
<1>4. job' \in [Slots -> {"none", "queued", "running", "succeeded", "failed"}]
  BY JobTypes DEF IInv, RestTypes, Finish
<1>5. faults' \in 0..MaxFaults
  BY FaultTypes DEF IInv, Finish
<1>6. RestTypes'
  BY <1>4, <1>5 DEF IInv, RestTypes, Finish, memory, history
<1>7. QED
  BY <1>3, <1>6, AdvanceKeeps DEF Finish, history

LEMMA ClearKeeps == ASSUME IInv, NEW r \in Slots, Clear(r) PROVE IInv'
<1>1. req[r].op \in {"reset", "install"} /\ req[r].at = "clear" /\ req[r] \in Tasks(deletions)
  BY DEF Clear, At, IInv, ReqTypes
<1>2. Formed([req[r] EXCEPT !.at = "erase"])
  BY <1>1 DEF IInv, AllFormed, Formed, Tasks
<1>3. Advance(r)
  BY <1>1, <1>2, GotoAdvances DEF Clear, Steps
<1>4. 0 \in 0..deletions
  BY DEF IInv, RestTypes
<1>5. mirror' \in [Procs -> 0..deletions]
  BY <1>4, MirrorTypes DEF IInv, Clear
<1>6. RestTypes'
  BY <1>5 DEF IInv, RestTypes, Clear, rows, history
<1>7. QED
  BY <1>3, <1>6, AdvanceKeeps DEF Clear, rows, history

LEMMA EraseKeeps == ASSUME IInv, NEW r \in Slots, Erase(r) PROVE IInv'
<1>1. req[r].op \in {"reset", "install"} /\ req[r].at = "erase" /\ req[r] \in Tasks(deletions)
  BY DEF Erase, At, IInv, ReqTypes
<1>2. Formed([req[r] EXCEPT !.at = "unpin"])
  BY <1>1 DEF IInv, AllFormed, Formed, Tasks
<1>3. Advance(r)
  BY <1>1, <1>2, GotoAdvances, DoneAdvances DEF Erase, Steps
<1>4. tomb' \in {0, tomb} /\ 0 \in 0..deletions
  BY DEF Erase, IInv, RestTypes
<1>5. faults' \in 0..MaxFaults
  BY FaultTypes DEF IInv, Erase
<1>6. RestTypes'
  BY <1>4, <1>5 DEF IInv, RestTypes, Erase, memory, history
<1>7. QED
  BY <1>3, <1>4, <1>6, AdvanceKeeps DEF Erase, history

LEMMA UnpinKeeps == ASSUME IInv, NEW r \in Slots, Unpin(r) PROVE IInv'
<1>1. req[r].op \in {"delete", "reset"} /\ req[r].at = "unpin" /\ req[r] \in Tasks(deletions)
  BY DEF Unpin, At, IInv, ReqTypes
<1>2. Advance(r)
  <2>1. CASE Done(r)
    BY <2>1, DoneAdvances
  <2>2. CASE req' = [req EXCEPT ![r].at = "scrub",
                                ![r].found = req[r].op = "delete" /\ baseline # None]
    <3> DEFINE b == (req[r].op = "delete" /\ baseline # None)
               t == [req[r] EXCEPT !.at = "scrub", !.found = b]
    <3>1. req' = [req EXCEPT ![r] = t]
      BY <2>2 DEF IInv, ReqTypes
    <3>2. b \in BOOLEAN
      OBVIOUS
    <3> HIDE DEF b
    <3>3. t \in Tasks(deletions) /\ Formed(t)
      BY <1>1, <3>2 DEF IInv, AllFormed, Tasks, Steps, Formed
    <3>4. Follows(t, req[r])
      BY <1>1, <3>3 DEF Follows, Tasks
    <3>5. QED
      BY <3>1, <3>4 DEF Advance
  <2>3. QED
    BY <2>1, <2>2 DEF Unpin
<1>3. faults' \in 0..MaxFaults
  BY FaultTypes DEF IInv, Unpin
<1>4. RestTypes'
  BY <1>3 DEF IInv, RestTypes, Unpin, memory, history
<1>5. QED
  BY <1>2, <1>4, AdvanceKeeps DEF Unpin, history

LEMMA ScrubKeeps == ASSUME IInv, NEW r \in Slots, Scrub(r) PROVE IInv'
<1>1. req[r].op \in {"delete", "reset"} /\ req[r].at = "scrub" /\ req[r] \in Tasks(deletions)
  BY DEF Scrub, At, IInv, ReqTypes
<1>2. Formed([req[r] EXCEPT !.at = "bury"])
  BY <1>1 DEF IInv, AllFormed, Formed, Tasks
<1>3. Advance(r)
  BY <1>1, <1>2, GotoAdvances, DoneAdvances DEF Scrub, Steps
<1>4. cache' \in [Procs -> Versions \cup {None}]
  BY CacheTypes DEF IInv, RestTypes, Scrub
<1>5. faults' \in 0..MaxFaults /\ events' \in {events, None}
  BY FaultTypes DEF IInv, Scrub
<1>6. RestTypes'
  BY <1>4, <1>5 DEF IInv, RestTypes, Scrub, history
<1>7. QED
  BY <1>3, <1>6, AdvanceKeeps DEF Scrub, history

-----------------------------------------------------------------------------
(* Steps that put a request or a deletion where AdvanceKeeps does not say. *)

LEMMA PutTypes ==
  ASSUME IInv, NEW r \in Slots, NEW t \in Tasks(deletions'), Formed(t),
         req' = [req EXCEPT ![r] = t], deletions' \in {deletions, deletions + 1}
  PROVE  /\ ReqTypes' /\ AllFormed'
         /\ req'[r] = t /\ \A q \in Slots \ {r} : req'[q] = req[q]
<1>1. deletions \in Nat
  BY DEF IInv, RestTypes
<1>2. 0..deletions \subseteq 0..deletions'
  BY <1>1
<1>3. Tasks(deletions) \subseteq Tasks(deletions')
  BY <1>2 DEF Tasks
<1>4. req \in [Slots -> Tasks(deletions')]
  BY <1>3 DEF IInv, ReqTypes
<1>5. req' \in [Slots -> Tasks(deletions')]
  BY <1>4
<1>6. req'[r] = t /\ \A q \in Slots \ {r} : req'[q] = req[q]
  BY <1>4
<1>7. AllFormed'
  BY <1>6 DEF IInv, AllFormed, Formed
<1>8. QED
  BY <1>5, <1>6, <1>7 DEF ReqTypes, Tasks

LEMMA AdmitKeeps == ASSUME IInv, NEW r \in Slots, Admit(r) PROVE IInv'
<1>1. /\ req[r].op = "push" /\ req[r].at = "check" /\ req[r] \in Tasks(deletions)
      /\ deletions' = deletions /\ tomb' = tomb /\ expired' = expired
  BY DEF Admit, At, IInv, ReqTypes, rows, history
<1>2. PICK t \in Tasks(deletions) :
        /\ req' = [req EXCEPT ![r] = t] /\ Formed(t)
        /\ t.op = "push" /\ t.at = "get" /\ t.deletion = req[r].deletion
        /\ t.blind \/ ~Alive(tomb)
  <2>1. CASE ~Alive(tomb) /\ req' = [req EXCEPT ![r].at = "get"]
    <3> DEFINE t == [req[r] EXCEPT !.at = "get"]
    <3>1. req' = [req EXCEPT ![r] = t]
      BY <2>1
    <3>2. t \in Tasks(deletions) /\ Formed(t)
      BY <1>1 DEF IInv, AllFormed, Formed, Tasks, Steps
    <3>3. QED
      BY <1>1, <2>1, <3>1, <3>2 DEF Tasks
  <2>2. CASE req' = [req EXCEPT ![r].at = "get", ![r].blind = TRUE]
    <3> DEFINE t == [req[r] EXCEPT !.at = "get", !.blind = TRUE]
    <3>1. req' = [req EXCEPT ![r] = t]
      BY <2>2 DEF IInv, ReqTypes
    <3>2. t \in Tasks(deletions) /\ Formed(t)
      BY <1>1 DEF IInv, AllFormed, Formed, Tasks, Steps
    <3>3. QED
      BY <1>1, <3>1, <3>2 DEF Tasks
  <2>3. QED
    BY <2>1, <2>2 DEF Admit, Stands
<1>3. /\ ReqTypes' /\ AllFormed'
      /\ req'[r] = t /\ \A q \in Slots \ {r} : req'[q] = req[q]
  BY <1>1, <1>2, PutTypes
<1>4. RestTypes'
  <2>1. 0 \in 0..deletions /\ faults' \in 0..MaxFaults
    BY FaultTypes DEF IInv, RestTypes, Admit
  <2>2. mirror' \in [Procs -> 0..deletions]
    BY <2>1, MirrorTypes DEF IInv, Admit
  <2>3. QED
    BY <2>1, <2>2 DEF IInv, RestTypes, Admit, rows, history
<1>5. Graves'
  BY <1>1, <1>2, <1>3 DEF IInv, Graves
<1>6. BuriedStaysOut'
  BY <1>1, <1>2, <1>3 DEF IInv, BuriedStaysOut, Alive
<1>7. QED
  BY <1>3, <1>4, <1>5, <1>6 DEF IInv

\* The new deletion has a number that nothing else has.
LEMMA BuryKeeps == ASSUME IInv, NEW r \in Slots, Bury(r) PROVE IInv'
<1>1. /\ req[r].op = "delete" /\ req[r].at = "bury" /\ req[r] \in Tasks(deletions)
      /\ deletions \in Nat /\ deletions' = deletions + 1
      /\ tomb \in 0..deletions /\ tomb' = tomb /\ expired' = expired
  BY DEF Bury, At, IInv, ReqTypes, RestTypes, rows
<1> DEFINE t == [req[r] EXCEPT !.at = "engrave", !.deletion = deletions + 1]
<1>2. req' = [req EXCEPT ![r] = t]
  BY DEF Bury, IInv, ReqTypes
<1>3. t \in Tasks(deletions')
  <2>1. 0..deletions \subseteq 0..deletions' /\ deletions + 1 \in 0..deletions'
    BY <1>1
  <2>2. req[r] \in Tasks(deletions')
    BY <1>1, <2>1 DEF Tasks
  <2> DEFINE d == deletions + 1
  <2>3. d \in 0..deletions'
    BY <2>1
  <2> HIDE DEF d
  <2>4. [req[r] EXCEPT !.at = "engrave", !.deletion = d] \in Tasks(deletions')
    BY <2>2, <2>3 DEF Tasks, Steps
  <2>5. QED
    BY <2>4 DEF d
<1>4. Formed(t) /\ t.op = "delete" /\ t.at = "engrave" /\ t.deletion = deletions + 1
  BY <1>1 DEF IInv, AllFormed, Formed, Tasks
<1>5. /\ ReqTypes' /\ AllFormed'
      /\ req'[r] = t /\ \A q \in Slots \ {r} : req'[q] = req[q]
  BY <1>1, <1>2, <1>3, <1>4, PutTypes
<1> HIDE DEF t
<1>6. \A q \in Slots : req[q].deletion \in 0..deletions
  BY DEF IInv, ReqTypes, Tasks
<1>7. RestTypes'
  <2>1. 0..deletions \subseteq 0..deletions' /\ deletions + 1 \in 0..deletions'
    BY <1>1
  <2>2. mirror \in [Procs -> 0..deletions']
    BY <2>1 DEF IInv, RestTypes
  <2>3. mirror' \in [Procs -> 0..deletions']
    BY <2>1, <2>2 DEF Bury
  <2>4. deletions' \in Nat /\ {tomb', expired'} \subseteq 0..deletions'
    BY <1>1, <2>1 DEF IInv, RestTypes, Bury
  <2>5. QED
    BY <2>3, <2>4 DEF IInv, RestTypes, Bury, rows
<1>8. Graves'
  BY <1>1, <1>4, <1>5, <1>6 DEF IInv, Graves
<1>2a. BuriedStaysOut'
  BY <1>1, <1>4, <1>5 DEF IInv, BuriedStaysOut, Alive
<1>10. QED
  BY <1>5, <1>7, <1>8, <1>2a DEF IInv

\* No push has met the tombstone that is written now.
LEMMA EngraveKeeps == ASSUME IInv, NEW r \in Slots, Engrave(r) PROVE IInv'
<1>1. /\ req[r].at = "engrave" /\ req[r] \in Tasks(deletions)
      /\ deletions \in Nat /\ deletions' = deletions /\ expired' = expired
      /\ tomb' \in {tomb, req[r].deletion} /\ req' = [req EXCEPT ![r] = Free]
  BY DEF Engrave, Done, At, IInv, ReqTypes, RestTypes, history
<1>2. /\ ReqTypes' /\ AllFormed'
      /\ req'[r] = Free /\ \A q \in Slots \ {r} : req'[q] = req[q]
  BY <1>1, FreeIsTask, PutTypes
<1>3. RestTypes'
  <2>1. tomb' \in 0..deletions
    BY <1>1 DEF IInv, RestTypes, Tasks
  <2>2. faults' \in 0..MaxFaults
    BY FaultTypes DEF IInv, Engrave
  <2>3. QED
    BY <2>1, <2>2 DEF IInv, RestTypes, Engrave, memory, history
<1>4. Free.op = "none" /\ Free.at = "idle"
  BY DEF Free
<1>5. Graves'
  BY <1>1, <1>2, <1>4 DEF IInv, Graves
<1>6. BuriedStaysOut'
  BY <1>1, <1>2, <1>4 DEF IInv, BuriedStaysOut, Graves, Alive
<1>7. QED
  BY <1>2, <1>3, <1>5, <1>6 DEF IInv

LEMMA PushKeeps == ASSUME IInv, NEW r \in Slots, NEW p \in Procs, Push(r, p) PROVE IInv'
<1> DEFINE d == IF Alive(tomb) THEN tomb ELSE 0
           t == [Free EXCEPT !.op = "push", !.at = "check", !.proc = p,
                             !.snap = world, !.deletion = d]
<1>1. /\ req' = [req EXCEPT ![r] = t] /\ deletions \in Nat /\ world \in Versions
      /\ deletions' = deletions /\ tomb' = tomb /\ expired' = expired
  BY DEF Push, IInv, RestTypes, rows, history
<1>2. d \in 0..deletions /\ d \in {0, tomb}
  BY DEF IInv, RestTypes
<1> HIDE DEF d
<1>3. t \in Tasks(deletions) /\ Formed(t) /\ t.at = "check" /\ t.deletion = d
  BY <1>1, <1>2 DEF Free, Tasks, Steps, Formed
<1>4. /\ ReqTypes' /\ AllFormed'
      /\ req'[r] = t /\ \A q \in Slots \ {r} : req'[q] = req[q]
  BY <1>1, <1>3, PutTypes
<1> HIDE DEF t
<1>5. RestTypes'
  BY DEF Push, IInv, RestTypes, rows, memory, history
<1>6. Graves'
  BY <1>1, <1>2, <1>3, <1>4 DEF IInv, Graves
<1>7. BuriedStaysOut'
  BY <1>1, <1>3, <1>4 DEF IInv, BuriedStaysOut, Alive
<1>8. QED
  BY <1>4, <1>5, <1>6, <1>7 DEF IInv

LEMMA RequestKeeps ==
  ASSUME IInv, NEW r \in Slots, NEW p \in Procs, NEW op \in DOMAIN FirstStep, Request(r, p, op)
  PROVE  IInv'
<1> DEFINE first == FirstStep[op]
           snap  == IF op = "ingest" THEN world ELSE None
           t     == [Free EXCEPT !.op = op, !.at = first, !.proc = p, !.snap = snap]
<1>1. /\ req' = [req EXCEPT ![r] = t] /\ deletions \in Nat
      /\ deletions' = deletions /\ tomb' = tomb /\ expired' = expired
  BY DEF Request, IInv, RestTypes
<1>2. /\ op \in Operations
      /\ first \in {"collect", "start", "select", "pin", "unpin", "clear"}
      /\ first = "pin" => op = "ingest"
  BY DEF FirstStep, Operations
<1>2a. snap \in Versions \cup {None} /\ (first = "pin" => snap \in Versions)
  BY <1>2 DEF IInv, RestTypes
<1> HIDE DEF first, snap
<1>3. t \in Tasks(deletions) /\ Formed(t) /\ t.op # "push" /\ t.at # "engrave"
  <2>1. Free \in Tasks(deletions)
    BY <1>1, FreeIsTask
  <2>2. op \in Operations \cup {"none", "push"} /\ first \in Steps /\ p \in Procs \cup {None}
    BY <1>2 DEF Steps
  <2>3. t \in Tasks(deletions)
    BY <1>2a, <2>1, <2>2 DEF Tasks
  <2>4. t.op = op /\ t.at = first /\ t.proc = p /\ t.snap = snap
    BY <2>1 DEF Tasks
  <2>5. op # "push"
    BY <1>2 DEF Operations
  <2>6. QED
    BY <1>2, <1>2a, <2>3, <2>4, <2>5 DEF Formed
<1>4. /\ ReqTypes' /\ AllFormed'
      /\ req'[r] = t /\ \A q \in Slots \ {r} : req'[q] = req[q]
  BY <1>1, <1>3, PutTypes
<1> HIDE DEF t
<1>5. RestTypes'
  <2>1. ops' \in 0..MaxOps
    BY HostsAssumption DEF Request, IInv, RestTypes
  <2>2. job' \in [Slots -> {"none", "queued", "running", "succeeded", "failed"}]
    BY JobTypes DEF Request, IInv, RestTypes
  <2>3. QED
    BY <2>1, <2>2 DEF Request, IInv, RestTypes, memory
<1>6. Graves'
  BY <1>1, <1>3, <1>4 DEF IInv, Graves
<1>7. BuriedStaysOut'
  BY <1>1, <1>3, <1>4 DEF IInv, BuriedStaysOut, Alive
<1>8. QED
  BY <1>4, <1>5, <1>6, <1>7 DEF IInv

LEMMA CrashKeeps == ASSUME IInv, NEW p \in Procs, Crash(p) PROVE IInv'
<1>1. /\ req' = [r \in Slots |-> IF req[r].proc = p THEN Free ELSE req[r]]
      /\ deletions \in Nat /\ deletions' = deletions /\ tomb' = tomb /\ expired' = expired
  BY DEF Crash, IInv, RestTypes, rows, history
<1>2. \A r \in Slots : req'[r] = Free \/ req'[r] = req[r]
  BY <1>1
<1>3. ReqTypes'
  BY <1>1, FreeIsTask DEF IInv, ReqTypes
<1>4. AllFormed'
  BY <1>1, <1>2, FreeIsTask DEF IInv, AllFormed
<1>5. RestTypes'
  <2>1. cache' \in [Procs -> Versions \cup {None}]
    BY DEF Crash, IInv, RestTypes
  <2>2. mirror' \in [Procs -> 0..deletions]
    <3>1. 0 \in 0..deletions
      BY <1>1
    <3>2. QED
      BY <3>1, MirrorTypes DEF Crash, IInv
  <2>3. pending' \in [Slots -> [proc : Procs, diff : Diffs] \cup {None}]
    BY DEF Crash, IInv, RestTypes
  <2>4. crashes' \in 0..MaxCrashes
    BY HostsAssumption DEF Crash, IInv, RestTypes
  <2>5. QED
    BY <2>1, <2>2, <2>3, <2>4 DEF Crash, IInv, RestTypes, rows, history
<1>6. Free.op = "none" /\ Free.at = "idle"
  BY DEF Free
<1>7. Graves'
  BY <1>1, <1>2, <1>6 DEF IInv, Graves
<1>8. BuriedStaysOut'
  BY <1>1, <1>2, <1>6 DEF IInv, BuriedStaysOut, Alive
<1>2a. QED
  BY <1>3, <1>4, <1>5, <1>7, <1>8 DEF IInv

-----------------------------------------------------------------------------
(* The theorems.                                                           *)

LEMMA StepKeeps == ASSUME IInv, NEW r \in Slots, Step(r) PROVE IInv'
<1>1. CASE Succeed(r) \/ Fail(r)
  BY <1>1, FinishKeeps DEF Succeed, Fail
<1>2. CASE \/ Refuse(r) \/ Admit(r) \/ GetBaseline(r) \/ Bootstrap(r) \/ Drift(r) \/ Record(r)
  BY <1>2, RefuseKeeps, AdmitKeeps, GetBaselineKeeps, BootstrapKeeps, DriftKeeps, RecordKeeps
<1>3. CASE Select(r) \/ Strip(r) \/ Collect(r) \/ StartCapture(r) \/ Pin(r) \/ Empty(r)
  BY <1>3, SelectKeeps, StripKeeps, CollectKeeps, StartCaptureKeeps, PinKeeps, EmptyKeeps
<1>4. CASE Clear(r) \/ Erase(r) \/ Unpin(r) \/ Scrub(r) \/ Bury(r) \/ Engrave(r)
  BY <1>4, ClearKeeps, EraseKeeps, UnpinKeeps, ScrubKeeps, BuryKeeps, EngraveKeeps
<1>5. QED
  BY <1>1, <1>2, <1>3, <1>4 DEF Step

LEMMA StutterKeeps == IInv /\ UNCHANGED vars => IInv'
<1> SUFFICES ASSUME IInv, UNCHANGED vars PROVE IInv'
  OBVIOUS
<1>1. RestTypes'
  BY DEF IInv, RestTypes, vars, rows, memory, history
<1>2. QED
  BY <1>1, OthersKeep DEF vars, rows, history

LEMMA NextKeeps == IInv /\ [Next]_vars => IInv'
<1> SUFFICES ASSUME IInv, [Next]_vars PROVE IInv'
  OBVIOUS
<1>1. CASE Changes \/ Expire
  BY <1>1, ChangesKeeps, ExpireKeeps
<1>2. CASE \E p \in Procs : Crash(p)
  BY <1>2, CrashKeeps
<1>3. CASE \E r \in Slots : Step(r) \/ Land(r) \/ Sweep(r)
  BY <1>3, StepKeeps, LandKeeps, SweepKeeps
<1>4. CASE \E r \in Slots, p \in Procs :
             Push(r, p) \/ \E op \in DOMAIN FirstStep : Request(r, p, op)
  BY <1>4, PushKeeps, RequestKeeps
<1>5. CASE UNCHANGED vars
  BY <1>5, StutterKeeps
<1>6. QED
  BY <1>1, <1>2, <1>3, <1>4, <1>5 DEF Next

\* The invariant holds in every state: of the rows, the requests' fields at the
\* steps that read them, and the numbers of tombstones about to be written.
THEOREM Invariance == Spec => []IInv
<1>1. Init => IInv
  BY InitKeeps
<1>2. IInv /\ [Next]_vars => IInv'
  BY NextKeeps
<1>3. QED
  BY <1>1, <1>2, PTL DEF Spec

\* Rows, memories and requests hold values of their types, so a push that
\* bootstraps, or a job that pins, has a snapshot in its hands.
THEOREM TypeCorrect == Spec => []TypeOK
<1>1. IInv => TypeOK
  BY TypesSplit DEF IInv
<1>2. QED
  BY <1>1, Invariance, PTL

\* ingest/agent/route.ts:214: a push that comes while a tombstone stands passes
\* the check only when that tombstone is gone or its time is over, or when the
\* lookup failed, whatever other processes delete, clear or forget meanwhile.
THEOREM BuriedStayOut == Spec => []BuriedStaysOut
<1>1. IInv => BuriedStaysOut
  BY DEF IInv
<1>2. QED
  BY <1>1, Invariance, PTL

\* ingest/agent/route.ts:322: no number of first pushes, scans, deletions or
\* exits replaces a baseline that is pinned: a capture, an acceptance or
\* POST /ingest does.
THEOREM OnlyCapturesReplace == Spec => PinnedUntilCaptured
<1> DEFINE Replaced == baseline # None /\ baseline' \notin {None, baseline}
           Captured == \E r \in Slots : At(r, {"capture", "accept", "ingest"}, "pin")
<1>1. ASSUME NEW r \in Slots, Step(r) PROVE Replaced => Captured
  <2>1. CASE Bootstrap(r)
    BY <2>1 DEF Bootstrap
  <2>2. CASE Pin(r)
    BY <2>2 DEF Pin
  <2>3. CASE Unpin(r)
    BY <2>3 DEF Unpin
  <2>4. CASE Refuse(r) \/ Admit(r) \/ GetBaseline(r) \/ Drift(r) \/ Record(r)
    BY <2>4 DEF Refuse, Admit, GetBaseline, Drift, Record, rows
  <2>5. CASE \/ Select(r) \/ Strip(r) \/ Collect(r) \/ StartCapture(r)
             \/ Empty(r) \/ Succeed(r) \/ Fail(r)
    BY <2>5 DEF Select, Strip, Collect, StartCapture, Empty, Succeed, Fail, Finish, rows
  <2>6. CASE Clear(r) \/ Erase(r) \/ Scrub(r) \/ Bury(r) \/ Engrave(r)
    BY <2>6 DEF Clear, Erase, Scrub, Bury, Engrave, rows
  <2>7. QED
    BY <1>1, <2>1, <2>2, <2>3, <2>4, <2>5, <2>6 DEF Step
<1>2. ASSUME NEW r \in Slots, Land(r) \/ Sweep(r) PROVE ~Replaced
  BY <1>2 DEF Land, Sweep
<1>3. ASSUME NEW r \in Slots, NEW p \in Procs, Push(r, p) \/ \E op \in DOMAIN FirstStep : Request(r, p, op)
      PROVE  ~Replaced
  BY <1>3 DEF Push, Request, rows
<1>4. ASSUME NEW p \in Procs, Crash(p) PROVE ~Replaced
  BY <1>4 DEF Crash, rows
<1>5. ASSUME Changes \/ Expire \/ UNCHANGED vars PROVE ~Replaced
  BY <1>5 DEF Changes, Expire, vars, rows
<1>6. [Next]_vars => (Replaced => Captured)
  BY <1>1, <1>2, <1>3, <1>4, <1>5 DEF Next
<1>7. [Next]_vars => [Replaced => Captured]_vars
  BY <1>6
<1>8. QED
  BY <1>7, PTL DEF Spec, PinnedUntilCaptured
=============================================================================
