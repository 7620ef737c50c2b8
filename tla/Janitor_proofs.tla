---------------------------- MODULE Janitor_proofs ----------------------------
(***************************************************************************)
(* Charon for any account, operators and scans: what has been protected    *)
(* ever since an approval was loaded is not deleted, an approval that      *)
(* succeeds leaves nothing behind, and a scan lists nothing that has been  *)
(* suppressed or protected ever since it began.                            *)
(***************************************************************************)
EXTENDS Janitor, FiniteSetTheorems, SequenceTheorems, TLAPS

Entries   == [res : Res, holds : BOOLEAN]
OneEach(s) == \A i, j \in DOMAIN s : s[i].res = s[j].res => i = j

\* A call about to delete has found its resource unprotected or gone, one about
\* to commit has left none.
Calls ==
  \A o \in Ops :
    /\ call[o].at = "delete" /\ call[o].res \in since[o].marked => ~cloud[call[o].res].alive
    /\ call[o].at = "commit" => ~cloud[call[o].res].alive

\* What a scan holds is not what has been marked or hidden since it began.
Scans ==
  \A s \in Scanners :
    /\ scan[s].at \in {"filter", "finalize"} =>
         \A f \in scan[s].found : f[1] \in since[s].marked => ~cloud[f[1]].listed
    /\ scan[s].at = "finalize" => \A f \in scan[s].found : f[1] \notin since[s].hidden

\* The history remembers no more than what holds now.
Remembered ==
  \A p \in Procs :
    /\ since[p].hidden \subseteq HiddenBy(sup)
    /\ \A r \in since[p].marked : Protected(cloud[r].tag, PolicyOf(p))

\* A decision that goes on is about a request for the resource it was loaded for.
Deciding == {"reject", "execute", "fetch", "delete", "commit"}
Backed(c, rq) ==
  c.at \in Deciding /\ c.same => rq[c.req].st # "none" /\ rq[c.req].res = c.res
Typed == TypeOK /\ OneEach(sup) /\ \A o \in Ops : Backed(call[o], req)

IInv == Typed /\ Remembered /\ Calls
-----------------------------------------------------------------------------
(* Suppressions.                                                           *)

\* As many entries as resources at most.
LEMMA OneEachFits ==
  ASSUME NEW s \in Seq(Entries), OneEach(s)
  PROVE  Len(s) <= Cardinality(Res)
<1> DEFINE f == [i \in 1..Len(s) |-> s[i].res]
<1>1. Len(s) \in Nat /\ DOMAIN s = 1..Len(s) /\ \A i \in 1..Len(s) : s[i] \in Entries
  BY LenProperties, ElementOfSeq
<1>2. f \in Injection(1..Len(s), Res)
  <2>1. f \in [1..Len(s) -> Res] /\ \A i \in 1..Len(s) : f[i] = s[i].res
    BY <1>1 DEF Entries
  <2> HIDE DEF f
  <2>2. \A i, j \in 1..Len(s) : f[i] = f[j] => i = j
    BY <1>1, <2>1 DEF OneEach
  <2>3. QED
    BY <2>1, <2>2 DEF Injection, IsInjective
<1>3. Cardinality(1..Len(s)) <= Cardinality(Res)
  BY <1>2, FS_Injection, JanitorAssumption
<1>4. Cardinality(1..Len(s)) = Len(s)
  <2>1. Cardinality(1..Len(s)) = IF 1 <= Len(s) THEN Len(s) - 1 + 1 ELSE 0
    BY <1>1, FS_Interval
  <2>2. QED
    BY <1>1, <2>1
<1>5. QED
  BY <1>3, <1>4

LEMMA WithoutOne ==
  ASSUME NEW s \in Seq(Entries), OneEach(s), NEW r \in Res
  PROVE  /\ Without(s, r) \in Seq(Entries) /\ OneEach(Without(s, r))
         /\ \A i \in DOMAIN Without(s, r) : Without(s, r)[i].res # r
<1>1. Len(s) \in Nat /\ DOMAIN s = 1..Len(s) /\ \A i \in 1..Len(s) : s[i] \in Entries
  BY LenProperties, ElementOfSeq
<1>2. CASE ~\E i \in DOMAIN s : s[i].res = r
  BY <1>2 DEF Without
<1>3. CASE \E i \in DOMAIN s : s[i].res = r
  <2> DEFINE k == CHOOSE i \in DOMAIN s : s[i].res = r
             a == SubSeq(s, 1, k - 1)
             b == SubSeq(s, k + 1, Len(s))
             w == a \o b
  <2>1. k \in 1..Len(s) /\ s[k].res = r
    BY <1>1, <1>3
  <2>2. w = Without(s, r)
    BY <1>3 DEF Without
  <2> HIDE DEF k
  <2>3. /\ a \in Seq(Entries) /\ Len(a) = k - 1
        /\ \A i \in 1..(k - 1) : a[i] = s[i]
    <3>1. \A i \in 1..(k - 1) : s[i] \in Entries
      BY <1>1, <2>1
    <3>2. /\ a \in Seq(Entries) /\ Len(a) = IF 1 <= k - 1 THEN k - 1 - 1 + 1 ELSE 0
          /\ \A i \in 1..(k - 1 - 1 + 1) : a[i] = s[1 + i - 1]
      BY <2>1, <3>1, SubSeqProperties
    <3>3. QED
      BY <2>1, <3>2
  <2>4. /\ b \in Seq(Entries) /\ Len(b) = Len(s) - k
        /\ \A i \in 1..(Len(s) - k) : b[i] = s[k + i]
    <3>1. \A i \in (k + 1)..Len(s) : s[i] \in Entries
      BY <1>1, <2>1
    <3>2. /\ b \in Seq(Entries)
          /\ Len(b) = IF k + 1 <= Len(s) THEN Len(s) - (k + 1) + 1 ELSE 0
          /\ \A i \in 1..(Len(s) - (k + 1) + 1) : b[i] = s[k + 1 + i - 1]
      BY <1>1, <2>1, <3>1, SubSeqProperties
    <3>3. /\ Len(s) - (k + 1) + 1 = Len(s) - k /\ (k + 1 <= Len(s) <=> k < Len(s))
          /\ \A i \in 1..(Len(s) - k) : k + 1 + i - 1 = k + i
      BY <1>1, <2>1
    <3> HIDE DEF b
    <3>4. Len(b) = Len(s) - k
      <4>1. CASE k < Len(s)
        BY <3>2, <3>3, <4>1
      <4>2. CASE ~(k < Len(s))
        <5>a. k \in Int /\ Len(s) \in Int /\ k <= Len(s)
          BY <1>1, <2>1
        <5>1. k = Len(s) /\ Len(s) - k = 0
          BY <4>2, <5>a
        <5>2. QED
          BY <3>2, <3>3, <4>2, <5>1
      <4>3. QED
        BY <4>1, <4>2
    <3>5. QED
      BY <3>2, <3>3, <3>4
  <2> HIDE DEF a, b
  <2>5. /\ w \in Seq(Entries) /\ Len(w) = Len(s) - 1
        /\ \A i \in 1..(Len(s) - 1) : w[i] = IF i <= k - 1 THEN a[i] ELSE b[i - (k - 1)]
    <3>1. /\ w \in Seq(Entries) /\ Len(w) = Len(a) + Len(b)
          /\ \A i \in 1..(Len(a) + Len(b)) : w[i] = IF i <= Len(a) THEN a[i] ELSE b[i - Len(a)]
      BY <2>3, <2>4, ConcatProperties
    <3>2. QED
      BY <1>1, <2>1, <2>3, <2>4, <3>1
  <2>6. DOMAIN w = 1..(Len(s) - 1)
    BY <2>5, LenProperties
  <2> HIDE DEF w
  <2>7. \A i \in 1..(Len(s) - 1) : w[i] = IF i < k THEN s[i] ELSE s[i + 1]
    <3> SUFFICES ASSUME NEW i \in 1..(Len(s) - 1)
                 PROVE  w[i] = IF i < k THEN s[i] ELSE s[i + 1]
      OBVIOUS
    <3>1. CASE i < k
      BY <1>1, <2>1, <2>3, <2>5, <3>1
    <3>2. CASE ~(i < k)
      <4>1. i - (k - 1) \in 1..(Len(s) - k) /\ k + (i - (k - 1)) = i + 1 /\ ~(i <= k - 1)
        BY <1>1, <2>1, <3>2
      <4>2. b[i - (k - 1)] = s[k + (i - (k - 1))]
        BY <2>4, <4>1
      <4>3. QED
        BY <2>5, <3>2, <4>1, <4>2
    <3>3. QED
      BY <3>1, <3>2
  <2>8. \A i \in 1..(Len(s) - 1) : w[i].res # r
    BY <1>1, <2>1, <2>7 DEF OneEach
  <2>9. OneEach(w)
    BY <1>1, <2>1, <2>6, <2>7 DEF OneEach
  <2>10. QED
    BY <2>2, <2>5, <2>6, <2>8, <2>9
<1>4. QED
  BY <1>2, <1>3

LEMMA UpsertOne ==
  ASSUME NEW s \in Seq(Entries), OneEach(s), NEW r \in Res
  PROVE  Upsert(s, r) \in Seq(Entries) /\ OneEach(Upsert(s, r))
<1> DEFINE e == [res |-> r, holds |-> TRUE]
           w == Without(s, r)
           u == <<e>> \o w
<1>1. w \in Seq(Entries) /\ OneEach(w) /\ \A i \in DOMAIN w : w[i].res # r
  BY WithoutOne
<1>2. Len(w) \in Nat /\ DOMAIN w = 1..Len(w)
  BY <1>1, LenProperties
<1>3. u = Upsert(s, r)
  BY DEF Upsert
<1> HIDE DEF w
<1>4. <<e>> \in Seq(Entries) /\ Len(<<e>>) = 1 /\ <<e>>[1] = e
  BY DEF Entries
<1>5. e.res = r
  OBVIOUS
<1> HIDE DEF e
<1>6. /\ u \in Seq(Entries) /\ Len(u) = 1 + Len(w)
      /\ \A i \in 1..(1 + Len(w)) : u[i] = IF i <= 1 THEN e ELSE w[i - 1]
  <2>1. /\ u \in Seq(Entries) /\ Len(u) = Len(<<e>>) + Len(w)
        /\ \A i \in 1..(Len(<<e>>) + Len(w)) :
             u[i] = IF i <= Len(<<e>>) THEN <<e>>[i] ELSE w[i - Len(<<e>>)]
    BY <1>1, <1>4, ConcatProperties
  <2> HIDE DEF u
  <2>2. QED
    BY <1>2, <1>4, <2>1
<1>7. DOMAIN u = 1..(1 + Len(w))
  BY <1>6, LenProperties
<1> HIDE DEF u
<1>8. OneEach(u)
  <2> SUFFICES ASSUME NEW i \in 1..(1 + Len(w)), NEW j \in 1..(1 + Len(w)), u[i].res = u[j].res
               PROVE  i = j
    BY <1>7 DEF OneEach
  <2>1. \A m \in 1..(1 + Len(w)) : m > 1 => m - 1 \in DOMAIN w /\ u[m] = w[m - 1]
    BY <1>2, <1>6
  <2>2. CASE i = 1 \/ j = 1
    BY <1>1, <1>5, <1>6, <2>1, <2>2
  <2>3. CASE i > 1 /\ j > 1
    <3>1. i - 1 = j - 1
      BY <1>1, <2>1, <2>3 DEF OneEach
    <3>2. QED
      BY <3>1
  <2>4. QED
    BY <1>2, <2>2, <2>3
<1>9. QED
  BY <1>3, <1>6, <1>8

LEMMA ExpireOne ==
  ASSUME NEW s \in Seq(Entries), OneEach(s), NEW i \in DOMAIN s
  PROVE  LET x == [s EXCEPT ![i].holds = FALSE] IN x \in Seq(Entries) /\ OneEach(x)
<1> DEFINE e == [s[i] EXCEPT !.holds = FALSE]
           x == [s EXCEPT ![i] = e]
<1>1. i \in 1..Len(s) /\ DOMAIN s = 1..Len(s)
  BY LenProperties
<1>2. s[i] \in Entries
  BY <1>1, ElementOfSeq
<1>3. e \in Entries /\ e.res = s[i].res
  BY <1>2 DEF Entries
<1> HIDE DEF e
<1>4. x \in Seq(Entries) /\ Len(x) = Len(s) /\ \A j \in 1..Len(s) : x[j] = IF j = i THEN e ELSE s[j]
  BY <1>1, <1>3, ExceptSeq
<1>5. DOMAIN x = 1..Len(s)
  BY <1>4, LenProperties
<1> HIDE DEF x
<1>6. OneEach(x)
  BY <1>1, <1>3, <1>4, <1>5 DEF OneEach
<1>7. QED
  BY <1>4, <1>6 DEF x, e
-----------------------------------------------------------------------------
(* Types.                                                                  *)

CallType == [at : CallSteps, req : Reqs, res : Res, mode : Modes, extra : BOOLEAN, same : BOOLEAN]
ScanType == [at : {"idle", "list", "filter", "finalize"}, extra : BOOLEAN,
             found : SUBSET (Res \X Tags)]
ReqRow   == [st : {"none", "pending", "rejected", "executed"}, res : Res, mode : Modes]
Resource == [alive : BOOLEAN, tag : Tags, listed : BOOLEAN]

\* A request that waits has its finding; a call believes rows that are there, and
\* a decision its request.
Held(f, rq, c) ==
  /\ \A q \in Reqs : rq[q].st # "none" => f[rq[q].res] # "absent"
  /\ \A o \in Ops : c[o].same => f[c[o].res] # "absent"
  /\ \A o \in Ops : Backed(c[o], rq)

\* What Remember makes of the history.
LEMMA RememberTypes ==
  ASSUME Remember, TypeOK
  PROVE  since' \in [Procs -> [hidden : SUBSET Res, marked : SUBSET Res]]
<1>1. \A p \in Procs : since[p].hidden \subseteq Res /\ since[p].marked \subseteq Res
  BY DEF TypeOK
<1>2. QED
  BY <1>1 DEF Remember, Marked, Nothing

\* Typed next, from the parts a step may change.
LEMMA Retyped ==
  ASSUME TypeOK, Remember,
         cloud' \in [Res -> Resource], extra' \in BOOLEAN,
         finding' \in [Res -> Tags \cup {"absent"}],
         sup' \in Seq(Entries), OneEach(sup'),
         req' \in [Reqs -> ReqRow], call' \in [Ops -> CallType],
         scan' \in [Scanners -> ScanType],
         edits' \in 0..MaxEdits, faults' \in 0..MaxFaults, Held(finding', req', call')
  PROVE  Typed'
<1>1. Len(sup') <= Cardinality(Res)
  BY OneEachFits
<1>2. OneEach(sup)' /\ \A o \in Ops : Backed(call[o], req)'
  BY DEF OneEach, Held, Backed
<1>3. QED
  BY <1>1, <1>2, RememberTypes
     DEF Typed, TypeOK, Held, Resource, Entries, ReqRow, CallType, ScanType

LEMMA Constants ==
  /\ AnyRes \in Res /\ AnyReq \in Reqs /\ NoReq \in ReqRow /\ NoReq.st = "none"
  /\ NoCall \in CallType /\ NoCall.at = "idle" /\ ~NoCall.same
  /\ NoScan \in ScanType /\ NoScan.at = "idle"
<1>1. AnyRes \in Res /\ AnyReq \in Reqs
  BY JanitorAssumption DEF AnyRes, AnyReq
<1>2. QED
  BY <1>1 DEF NoReq, ReqRow, Modes, NoCall, CallType, CallSteps, NoScan, ScanType

LEMMA Holds ==
  \A at \in CallSteps, r \in Res :
    /\ Holding(at, r) \in CallType /\ Holding(at, r).res = r /\ Holding(at, r).same
    /\ Holding(at, r).at = at
  BY Constants DEF Holding, CallType

\* The rows of findings that go take the requests and the calls' hold with them.
LEMMA Gone ==
  ASSUME Typed, NEW gone \in SUBSET Res, NEW f,
         \A r \in Res : r \notin gone => f[r] = finding[r]
  PROVE  /\ Cascade(gone) \in [Reqs -> ReqRow] /\ Detached(gone) \in [Ops -> CallType]
         /\ Held(f, Cascade(gone), Detached(gone))
         /\ \A o \in Ops : /\ Detached(gone)[o].at = call[o].at
                           /\ Detached(gone)[o].res = call[o].res
                           /\ Detached(gone)[o].extra = call[o].extra
<1>1. req \in [Reqs -> ReqRow] /\ call \in [Ops -> CallType]
  BY DEF Typed, TypeOK, ReqRow, CallType
<1>2. \A q \in Reqs : Cascade(gone)[q] = IF req[q].res \in gone THEN NoReq ELSE req[q]
  BY DEF Cascade
<1>3. \A o \in Ops :
        Detached(gone)[o] = IF call[o].res \in gone THEN [call[o] EXCEPT !.same = FALSE] ELSE call[o]
  BY DEF Detached
<1>4. Cascade(gone) \in [Reqs -> ReqRow]
  BY <1>1, Constants DEF Cascade
<1>5. \A c \in CallType : LET d == [c EXCEPT !.same = FALSE] IN
        d \in CallType /\ ~d.same /\ d.at = c.at /\ d.res = c.res /\ d.extra = c.extra
  BY DEF CallType
<1>6. Detached(gone) \in [Ops -> CallType]
  BY <1>1, <1>5 DEF Detached
<1>7. \A q \in Reqs : Cascade(gone)[q].st # "none" => f[Cascade(gone)[q].res] # "absent"
  BY <1>1, <1>2, Constants DEF Typed, TypeOK, ReqRow
<1>8. \A o \in Ops : Detached(gone)[o].same => f[Detached(gone)[o].res] # "absent"
  <2> SUFFICES ASSUME NEW o \in Ops, Detached(gone)[o].same
               PROVE  f[Detached(gone)[o].res] # "absent"
    OBVIOUS
  <2>1. call[o] \in CallType
    BY <1>1
  <2>2. call[o].res \notin gone
    BY <1>3, <1>5, <2>1
  <2>3. Detached(gone)[o] = call[o] /\ call[o].res \in Res
    BY <1>3, <2>1, <2>2 DEF CallType
  <2>4. QED
    BY <2>2, <2>3 DEF Typed, TypeOK
<1>9. \A o \in Ops : Backed(Detached(gone)[o], Cascade(gone))
  <2> SUFFICES ASSUME NEW o \in Ops, Detached(gone)[o].same, Detached(gone)[o].at \in Deciding
               PROVE  LET q == Cascade(gone)[Detached(gone)[o].req]
                      IN  q.st # "none" /\ q.res = Detached(gone)[o].res
    BY DEF Backed
  <2>1. call[o] \in CallType
    BY <1>1
  <2>2. call[o].res \notin gone
    BY <1>3, <1>5, <2>1
  <2>3. Detached(gone)[o] = call[o] /\ call[o].req \in Reqs
    BY <1>3, <2>1, <2>2 DEF CallType
  <2>4. req[call[o].req].st # "none" /\ req[call[o].req].res = call[o].res
    BY <2>3 DEF Typed, Backed
  <2>5. QED
    BY <1>2, <2>2, <2>3, <2>4
<1>10. QED
  BY <1>1, <1>3, <1>4, <1>5, <1>6, <1>7, <1>8, <1>9 DEF Held

\* A call that goes on, or ends, with rows as they are.
LEMMA CallMoves ==
  ASSUME Typed, NEW o \in Ops, NEW c \in CallType, c.same => finding[c.res] # "absent", Backed(c, req),
         call' = [call EXCEPT ![o] = c], UNCHANGED <<finding, req, sup, scan, extra, edits>>, Remember,
         cloud' \in [Res -> Resource], faults' \in 0..MaxFaults
  PROVE  Typed'
<1>1. call \in [Ops -> CallType]
  BY DEF Typed, TypeOK, CallType
<1>2. /\ call' \in [Ops -> CallType] /\ call'[o] = c
      /\ \A p \in Ops : p # o => call'[p] = call[p]
  BY <1>1
<1>3. Held(finding', req', call')
  <2>1. \A p \in Ops : Backed(call'[p], req')
    BY <1>2 DEF Typed, Backed
  <2>2. QED
    BY <1>2, <2>1 DEF Held, Typed, TypeOK
<1>4. QED
  BY <1>2, <1>3, Retyped DEF Typed, TypeOK, Entries, ReqRow, ScanType

LEMMA DeletesFinding ==
  ASSUME Typed, NEW o \in Ops, DeleteFinding(o), UNCHANGED <<env, scan, edits, faults>>, Remember,
         sup' \in Seq(Entries), OneEach(sup')
  PROVE  /\ Typed'
         /\ call'[o] = NoCall
         /\ \A p \in Ops : p # o => /\ call'[p].at = call[p].at /\ call'[p].res = call[p].res
                                    /\ call'[p].extra = call[p].extra
<1> DEFINE gone == {r \in Res : call[o].same /\ call[o].res = r}
           f == [r \in Res |-> IF r \in gone THEN "absent" ELSE finding[r]]
<1>1. finding' = f /\ req' = Cascade(gone) /\ call' = [Detached(gone) EXCEPT ![o] = NoCall]
  BY DEF DeleteFinding
<1>2. gone \in SUBSET Res /\ \A r \in Res : r \notin gone => f[r] = finding[r]
  OBVIOUS
<1>3. finding' \in [Res -> Tags \cup {"absent"}]
  BY <1>1 DEF Typed, TypeOK
<1> HIDE DEF gone, f
<1>4. /\ Cascade(gone) \in [Reqs -> ReqRow] /\ Detached(gone) \in [Ops -> CallType]
      /\ Held(f, Cascade(gone), Detached(gone))
      /\ \A p \in Ops : /\ Detached(gone)[p].at = call[p].at
                        /\ Detached(gone)[p].res = call[p].res
                        /\ Detached(gone)[p].extra = call[p].extra
  BY <1>2, Gone DEF Typed
<1>5. /\ call' \in [Ops -> CallType] /\ call'[o] = NoCall
      /\ \A p \in Ops : p # o => call'[p] = Detached(gone)[p]
  BY <1>1, <1>4, Constants
<1>6. Held(finding', req', call')
  BY <1>1, <1>4, <1>5, Constants DEF Held, Backed
<1>7. Typed'
  BY <1>1, <1>3, <1>4, <1>5, <1>6, Retyped DEF Typed, TypeOK, env, Resource, ScanType
<1>8. QED
  BY <1>4, <1>5, <1>7

LEMMA Progress ==
  ASSUME NEW x \in ScanType, NEW at, NEW found
  PROVE  [[x EXCEPT !.at = at] EXCEPT !.found = found]
           = [at |-> at, extra |-> x.extra, found |-> found]
<1> DEFINE T == SUBSET (Res \X Tags)
<1>1. x \in [at : {"idle", "list", "filter", "finalize"}, extra : BOOLEAN, found : T]
  BY DEF ScanType
<1> HIDE DEF T
<1>2. PICK a, e, fs : x = [at |-> a, extra |-> e, found |-> fs]
  BY <1>1
<1> DEFINE y == [x EXCEPT !.at = at]
<1>3. y = [at |-> at, extra |-> e, found |-> fs] /\ x.extra = e
  BY <1>2
<1> HIDE DEF y
<1>4. [y EXCEPT !.found = found] = [at |-> at, extra |-> x.extra, found |-> found]
  BY <1>3
<1>5. QED
  BY <1>4 DEF y

\* What a scan holds is resources with tags, and what it writes is tags.
LEMMA ScanTypes ==
  ASSUME TypeOK, NEW s \in Scanners, LoadPolicy(s) \/ List(s) \/ Filter(s) \/ ScanFails(s)
  PROVE  scan' \in [Scanners -> ScanType]
<1>1. scan \in [Scanners -> ScanType] /\ extra \in BOOLEAN
  BY DEF TypeOK, ScanType
<1>2. CASE LoadPolicy(s)
  BY <1>1, <1>2 DEF LoadPolicy, ScanType
<1>3. CASE List(s)
  <2> DEFINE fs == {<<r, View(r)>> : r \in Listing(scan[s].extra)}
             c  == [at |-> "filter", extra |-> scan[s].extra, found |-> fs]
  <2>1. fs \subseteq Res \X Tags
    BY DEF Listing, View, TypeOK, Tags
  <2>2. scan[s] \in ScanType
    BY <1>1
  <2>3. scan' = [scan EXCEPT ![s].at = "filter", ![s].found = fs]
    BY <1>3 DEF List
  <2> HIDE DEF fs
  <2>4. c \in ScanType
    BY <2>1, <2>2 DEF ScanType
  <2>5. scan' = [scan EXCEPT ![s] = c]
    <3>1. [[scan[s] EXCEPT !.at = "filter"] EXCEPT !.found = fs] = c
      BY <2>2, Progress
    <3> HIDE DEF c
    <3>2. QED
      BY <1>1, <2>3, <3>1
  <2> HIDE DEF c
  <2>6. QED
    BY <1>1, <2>4, <2>5
<1>4. CASE Filter(s)
  <2> DEFINE fs == FilterSuppressed(scan[s].found)
             c  == [at |-> "finalize", extra |-> scan[s].extra, found |-> fs]
  <2>2. scan[s] \in ScanType
    BY <1>1
  <2>1. fs \subseteq Res \X Tags
    BY <2>2 DEF FilterSuppressed, ScanType
  <2>3. scan' = [scan EXCEPT ![s].at = "finalize", ![s].found = fs]
    BY <1>1, <1>4 DEF Filter
  <2> HIDE DEF fs
  <2>4. c \in ScanType
    BY <2>1, <2>2 DEF ScanType
  <2>5. scan' = [scan EXCEPT ![s] = c]
    <3>1. [[scan[s] EXCEPT !.at = "finalize"] EXCEPT !.found = fs] = c
      BY <2>2, Progress
    <3> HIDE DEF c
    <3>2. QED
      BY <1>1, <2>3, <3>1
  <2> HIDE DEF c
  <2>6. QED
    BY <1>1, <2>4, <2>5
<1>5. CASE ScanFails(s)
  BY <1>1, <1>5, Constants DEF ScanFails
<1>6. QED
  BY <1>2, <1>3, <1>4, <1>5

LEMMA Listed ==
  ASSUME TypeOK, NEW s \in Scanners, Finalize(s)
  PROVE  /\ finding' \in [Res -> Tags \cup {"absent"}]
         /\ \A r \in Res : finding'[r] # "absent" => \E f \in scan[s].found : f[1] = r
<1> DEFINE Of(r) == CHOOSE f \in scan[s].found : f[1] = r
<1>1. scan[s].found \subseteq Res \X Tags
  BY DEF TypeOK
<1>2. finding' = [r \in Res |-> IF \E f \in scan[s].found : f[1] = r THEN Of(r)[2] ELSE "absent"]
  BY DEF Finalize
<1>3. \A r \in Res : (\E f \in scan[s].found : f[1] = r) => Of(r) \in scan[s].found
  OBVIOUS
<1> HIDE DEF Of
<1>4. \A f \in scan[s].found : f[2] \in Tags
  BY <1>1
<1>5. QED
  BY <1>2, <1>3, <1>4

LEMMA TypeStep == Typed /\ [Next]_vars => Typed'
<1> DEFINE Goal == Typed'
<1> SUFFICES ASSUME Typed, [Next]_vars PROVE Goal
  OBVIOUS
<1>t. /\ cloud \in [Res -> Resource] /\ extra \in BOOLEAN
      /\ finding \in [Res -> Tags \cup {"absent"}]
      /\ sup \in Seq(Entries) /\ OneEach(sup)
      /\ req \in [Reqs -> ReqRow] /\ call \in [Ops -> CallType]
      /\ scan \in [Scanners -> ScanType]
      /\ edits \in 0..MaxEdits /\ faults \in 0..MaxFaults
      /\ Held(finding, req, call) /\ TypeOK
  BY DEF Typed, TypeOK, Resource, Entries, ReqRow, CallType, ScanType, Held
<1>tag. "none" \in Tags
  BY DEF Tags
<1>n. Edit => edits' \in 0..MaxEdits
  BY <1>t, JanitorAssumption DEF Edit
<1>f. Fault => faults' \in 0..MaxFaults
  BY <1>t, JanitorAssumption DEF Fault
<1> HIDE DEF Goal
<1>1. ASSUME NEW r \in Res, Retag(r) \/ Vanish(r) PROVE Goal
  <2>1. cloud' \in [Res -> Resource]
    <3>1. \A c \in Resource, t \in Tags :
            [c EXCEPT !.tag = t] \in Resource /\ [c EXCEPT !.alive = FALSE] \in Resource
      BY DEF Resource
    <3>2. CASE Retag(r)
      <4>1. PICK t \in Tags : cloud' = [cloud EXCEPT ![r].tag = t]
        BY <3>2 DEF Retag
      <4>2. QED
        BY <1>t, <3>1, <4>1
    <3>3. CASE Vanish(r)
      <4>1. cloud' = [cloud EXCEPT ![r].alive = FALSE]
        BY <3>3 DEF Vanish
      <4>2. QED
        BY <1>t, <3>1, <4>1, <1>tag
    <3>4. QED
      BY <1>1, <3>2, <3>3
  <2>2. UNCHANGED <<extra, rows, call, scan, faults>> /\ Edit /\ Remember
    BY <1>1 DEF Retag, Vanish
  <2>3. QED
    BY <1>t, <1>n, <2>1, <2>2, Retyped DEF rows, Goal
<1>2. CASE SetPolicy
  BY <1>t, <1>n, <1>2, Retyped DEF SetPolicy, rows, Goal
<1>3. ASSUME NEW r \in Res, Undo(r) PROVE Goal
  <2>1. sup' \in Seq(Entries) /\ OneEach(sup')
    BY <1>t, <1>3, WithoutOne DEF Undo
  <2>2. QED
    BY <1>t, <1>n, <1>3, <2>1, Retyped DEF Undo, env, Goal
<1>4. ASSUME NEW r \in Res, Expire(r) PROVE Goal
  <2>1. PICK i \in DOMAIN sup : sup' = [sup EXCEPT ![i].holds = FALSE]
    BY <1>4 DEF Expire
  <2>2. sup' \in Seq(Entries) /\ OneEach(sup')
    BY <1>t, <2>1, ExpireOne
  <2>3. QED
    BY <1>t, <1>n, <1>4, <2>2, Retyped DEF Expire, env, Goal
<1>5. ASSUME NEW o \in Ops, NEW r \in Res, ReadToSuppress(o, r) PROVE Goal
  <2>1. /\ Holding("suppress", r) \in CallType /\ Holding("suppress", r).res = r
        /\ Backed(Holding("suppress", r), req)
    BY Holds DEF CallSteps, Backed, Deciding
  <2>2. QED
    BY <1>t, <1>5, <2>1, CallMoves DEF ReadToSuppress, Quiet, env, rows, Goal
<1>6. ASSUME NEW o \in Ops, Suppress(o) PROVE Goal
  <2>1. call[o].res \in Res
    BY <1>t DEF CallType
  <2>2. sup' \in Seq(Entries) /\ OneEach(sup')
    BY <1>t, <1>6, <2>1, UpsertOne DEF Suppress
  <2>3. QED
    BY <1>6, <2>2, DeletesFinding DEF Suppress, Quiet, Goal
<1>7. ASSUME NEW o \in Ops, NEW r \in Res, NEW mode \in Modes, Check(o, r, mode) PROVE Goal
  <2> DEFINE c == [Holding("insert", r) EXCEPT !.mode = mode]
  <2>1. c \in CallType /\ c.res = r /\ Backed(c, req)
    <3>1. /\ Holding("insert", r) \in CallType /\ Holding("insert", r).res = r
          /\ Holding("insert", r).at = "insert"
      BY Holds DEF CallSteps
    <3>2. QED
      BY <3>1 DEF CallType, Backed, Deciding
  <2>2. call' = [call EXCEPT ![o] = c]
    BY <1>7 DEF Check
  <2> HIDE DEF c
  <2>3. QED
    BY <1>t, <1>7, <2>1, <2>2, CallMoves DEF Check, Quiet, env, rows, Goal
<1>8. ASSUME NEW o \in Ops, Insert(o) PROVE Goal
  <2>1. PICK q \in Reqs : req' = [req EXCEPT ![q] = [st |-> "pending", res |-> call[o].res,
                                                     mode |-> call[o].mode]]
    BY <1>8 DEF Insert
  <2>2. req' \in [Reqs -> ReqRow] /\ req'[q].res = call[o].res /\ \A p \in Reqs : p # q => req'[p] = req[p]
    BY <1>t, <2>1 DEF ReqRow, CallType
  <2>3. /\ call' \in [Ops -> CallType] /\ call'[o] = NoCall
        /\ \A p \in Ops : p # o => call'[p] = call[p]
    BY <1>t, <1>8, Constants DEF Insert, Return
  <2>4. Held(finding', req', call')
    <3>1. \A p \in Ops : Backed(call'[p], req')
      BY <1>t, <1>8, <2>1, <2>2, <2>3, Constants DEF Insert, Held, Backed, CallType
    <3>2. finding' = finding /\ finding[call[o].res] # "absent"
      BY <1>t, <1>8 DEF Insert, Held
    <3>3. \A p \in Reqs : req'[p].st # "none" => finding'[req'[p].res] # "absent"
      BY <1>t, <2>2, <3>2 DEF Held
    <3>4. \A p \in Ops : call'[p].same => finding'[call'[p].res] # "absent"
      BY <1>t, <2>3, <3>2, Constants DEF Held
    <3>5. QED
      BY <3>1, <3>3, <3>4 DEF Held
  <2>5. QED
    BY <1>t, <1>8, <2>2, <2>3, <2>4, Retyped DEF Insert, Quiet, env, Goal
<1>9. ASSUME NEW o \in Ops, NEW q \in Reqs, NEW decision \in {"reject", "execute", "fetch"},
             Load(o, q, decision)
      PROVE  Goal
  <2> DEFINE c == [Holding(decision, req[q].res) EXCEPT !.req = q,
                     !.extra = decision = "fetch" /\ extra]
  <2>1. req[q].res \in Res /\ finding[req[q].res] # "absent"
    BY <1>t, <1>9 DEF ReqRow, Load, Held
  <2>2. c \in CallType /\ c.res = req[q].res /\ c.req = q
    <3>1. /\ Holding(decision, req[q].res) \in CallType
          /\ Holding(decision, req[q].res).res = req[q].res
      BY Holds, <2>1 DEF CallSteps
    <3>2. (decision = "fetch" /\ extra) \in BOOLEAN
      OBVIOUS
    <3>3. QED
      BY <3>1, <3>2 DEF CallType
  <2>3. call' = [call EXCEPT ![o] = c]
    BY <1>9 DEF Load
  <2> HIDE DEF c
  <2>4. /\ UNCHANGED <<cloud, extra, finding, req, sup, scan, edits, faults>> /\ Remember
        /\ Backed(c, req) /\ (c.same => finding[c.res] # "absent")
    BY <1>9, <2>1, <2>2 DEF Load, Quiet, env, rows, Backed
  <2>5. QED
    BY <1>t, <2>2, <2>3, <2>4, CallMoves DEF Goal
<1>10. ASSUME NEW o \in Ops, Reject(o) \/ ExecuteDry(o) PROVE Goal
  <2>1. PICK st \in {"rejected", "executed"} : req' = Decided(call[o], st)
    BY <1>10 DEF Reject, ExecuteDry
  <2>2. call[o] \in CallType /\ call[o].at \in Deciding
    BY <1>t, <1>10 DEF Reject, ExecuteDry, Deciding
  <2>3. /\ req' \in [Reqs -> ReqRow]
        /\ \A q \in Reqs : \/ req'[q] = req[q]
                            \/ /\ call[o].same /\ q = call[o].req
                               /\ req'[q].res = req[q].res /\ req'[q].st # "none"
    BY <1>t, <2>1, <2>2 DEF Decided, ReqRow, CallType
  <2>4. /\ call' \in [Ops -> CallType] /\ call'[o] = NoCall
        /\ \A p \in Ops : p # o => call'[p] = call[p]
    BY <1>t, <1>10, Constants DEF Reject, ExecuteDry, Return
  <2>5. Held(finding', req', call')
    <3>1. finding' = finding /\ call[o].req \in Reqs
      BY <1>10, <2>2 DEF Reject, ExecuteDry, CallType
    <3>2. \A p \in Ops : Backed(call'[p], req')
      BY <1>t, <2>3, <2>4, Constants DEF Held, Backed, CallType
    <3>3. call[o].same => finding[call[o].res] # "absent" /\ req[call[o].req].res = call[o].res
      BY <1>t, <2>2 DEF Held, Backed
    <3>4. \A q \in Reqs : req'[q].st # "none" => finding'[req'[q].res] # "absent"
      BY <1>t, <2>3, <3>1, <3>3 DEF Held
    <3>5. QED
      BY <1>t, <2>4, <3>1, <3>2, <3>4, Constants DEF Held
  <2>6. QED
    BY <1>t, <1>10, <2>3, <2>4, <2>5, Retyped DEF Reject, ExecuteDry, Quiet, env, Goal
\* The same call further on.
<1>m. \A o \in Ops, at \in CallSteps :
        LET c == [call[o] EXCEPT !.at = at] IN
        /\ c \in CallType /\ (c.same => finding[c.res] # "absent")
        /\ call[o].at \in Deciding => Backed(c, req)
  <2> SUFFICES ASSUME NEW o \in Ops, NEW at \in CallSteps
               PROVE  LET c == [call[o] EXCEPT !.at = at] IN
                      /\ c \in CallType /\ (c.same => finding[c.res] # "absent")
                      /\ call[o].at \in Deciding => Backed(c, req)
    OBVIOUS
  <2>1. call[o] \in CallType /\ (call[o].same => finding[call[o].res] # "absent") /\ Backed(call[o], req)
    BY <1>t DEF Held
  <2>2. QED
    BY <2>1 DEF CallType, Backed
<1>z. (NoCall.same => finding[NoCall.res] # "absent") /\ Backed(NoCall, req)
  BY Constants DEF Backed
<1>11. ASSUME NEW o \in Ops, Fetch(o) PROVE Goal
  <2>1. Return(o) \/ Goto(o, "delete")
    BY <1>11 DEF Fetch
  <2>2. UNCHANGED <<cloud, extra, finding, req, sup, scan, edits, faults>> /\ Remember
    BY <1>11 DEF Fetch, Quiet, env, rows
  <2>3. CASE Return(o)
    BY <1>t, <1>z, <2>2, <2>3, CallMoves, Constants DEF Return, Goal
  <2>4. CASE Goto(o, "delete")
    <3> DEFINE c == [call[o] EXCEPT !.at = "delete"]
    <3>1. c \in CallType /\ (c.same => finding[c.res] # "absent") /\ Backed(c, req)
      BY <1>m, <1>11 DEF Fetch, Deciding, CallSteps
    <3>2. call' = [call EXCEPT ![o] = c]
      BY <1>t, <2>4 DEF Goto
    <3> HIDE DEF c
    <3>3. QED
      BY <1>t, <2>2, <3>1, <3>2, CallMoves DEF Goal
  <2>5. QED
    BY <2>1, <2>3, <2>4
\* A resource stays one when it is deleted.
<1>d. \A r \in Res, b \in BOOLEAN : [cloud EXCEPT ![r].alive = b] \in [Res -> Resource]
  <2> SUFFICES ASSUME NEW r \in Res, NEW b \in BOOLEAN
               PROVE  [cloud EXCEPT ![r].alive = b] \in [Res -> Resource]
    OBVIOUS
  <2>1. [cloud[r] EXCEPT !.alive = b] \in Resource
    BY <1>t DEF Resource
  <2>2. QED
    BY <1>t, <2>1
<1>12. ASSUME NEW o \in Ops, Delete(o) PROVE Goal
  <2> DEFINE c == [call[o] EXCEPT !.at = "commit"]
  <2>1. c \in CallType /\ (c.same => finding[c.res] # "absent") /\ Backed(c, req)
    BY <1>m, <1>12 DEF Delete, Deciding, CallSteps
  <2>2. call' = [call EXCEPT ![o] = c]
    BY <1>t, <1>12 DEF Delete, Goto
  <2> HIDE DEF c
  <2>3. call[o].res \in Res
    BY <1>t DEF CallType
  <2>4. cloud' \in [Res -> Resource]
    BY <1>d, <1>12, <2>3 DEF Delete
  <2>5. QED
    BY <1>t, <1>12, <2>1, <2>2, <2>4, CallMoves DEF Delete, rows, Goal
<1>13. ASSUME NEW o \in Ops, DeleteFails(o) PROVE Goal
  <2>1. call[o].res \in Res
    BY <1>t DEF CallType
  <2>2. PICK b \in {cloud[call[o].res].alive, FALSE} : cloud' = [cloud EXCEPT ![call[o].res].alive = b]
    BY <1>13 DEF DeleteFails
  <2>3. b \in BOOLEAN
    BY <1>t, <2>1 DEF Resource
  <2>4. cloud' \in [Res -> Resource]
    BY <1>d, <2>1, <2>2, <2>3
  <2>5. QED
    BY <1>t, <1>f, <1>z, <1>13, <2>4, CallMoves, Constants DEF DeleteFails, Return, rows, Goal
<1>14. ASSUME NEW o \in Ops, Commit(o) PROVE Goal
  BY <1>t, <1>14, DeletesFinding DEF Commit, Quiet, Goal
<1>15. ASSUME NEW o \in Ops, Fail(o) PROVE Goal
  BY <1>t, <1>f, <1>z, <1>15, CallMoves, Constants DEF Fail, Return, Quiet, env, rows, Goal
<1>16. ASSUME NEW s \in Scanners, LoadPolicy(s) \/ List(s) \/ Filter(s) \/ ScanFails(s) PROVE Goal
  <2>1. scan' \in [Scanners -> ScanType]
    BY <1>16, ScanTypes DEF Typed
  <2>2. UNCHANGED <<env, rows, call, edits>> /\ Remember /\ (UNCHANGED faults \/ Fault)
    BY <1>16 DEF LoadPolicy, List, Filter, ScanFails
  <2>3. QED
    BY <1>t, <1>f, <2>1, <2>2, Retyped DEF env, rows, Goal
<1>17. ASSUME NEW s \in Scanners, Finalize(s) PROVE Goal
  <2>1. finding' \in [Res -> Tags \cup {"absent"}]
    BY <1>17, Listed DEF Typed
  <2>2. /\ Cascade(Res) \in [Reqs -> ReqRow] /\ Detached(Res) \in [Ops -> CallType]
        /\ Held(finding', Cascade(Res), Detached(Res))
    BY Gone
  <2>3. scan' \in [Scanners -> ScanType]
    BY <1>t, <1>17, Constants DEF Finalize
  <2>4. QED
    BY <1>t, <1>17, <2>1, <2>2, <2>3, Retyped DEF Finalize, env, Goal
<1>18. CASE UNCHANGED vars
  BY <1>18 DEF vars, env, rows, Goal, Typed, TypeOK, OneEach, Backed
<1>19. QED
  BY <1>1, <1>2, <1>3, <1>4, <1>5, <1>6, <1>7, <1>8, <1>9, <1>10, <1>11, <1>12, <1>13, <1>14, <1>15,
     <1>16, <1>17, <1>18
     DEF Next, Owners, Start, Proceed, Scan
-----------------------------------------------------------------------------
(* The history.                                                            *)

\* What is remembered holds, and a process at work only forgets.
LEMMA Remembers ==
  ASSUME Remember
  PROVE  /\ Remembered'
         /\ \A p \in Procs : Working(p) => /\ since'[p].hidden \subseteq since[p].hidden
                                          /\ since'[p].marked \subseteq since[p].marked
<1>1. ASSUME NEW p \in Procs
      PROVE  /\ since'[p].hidden \subseteq HiddenBy(sup')
             /\ \A r \in since'[p].marked : r \in Res /\ Protected(cloud'[r].tag, PolicyOf(p)')
             /\ Working(p) => /\ since'[p].hidden \subseteq since[p].hidden
                             /\ since'[p].marked \subseteq since[p].marked
  <2> DEFINE w == Working(p)'
             pol == PolicyOf(p)'
             hid == HiddenBy(sup') \cap IF Working(p) THEN since[p].hidden
                                         ELSE IF p \in Scanners THEN Res ELSE {}
             mar == Marked(cloud', pol) \cap IF Working(p) THEN since[p].marked ELSE Concern(p)'
  <2>1. since'[p] = IF ~w THEN Nothing ELSE [hidden |-> hid, marked |-> mar]
    BY DEF Remember
  <2>2. /\ hid \subseteq HiddenBy(sup')
        /\ mar \subseteq {r \in Res : Protected(cloud'[r].tag, pol)}
        /\ Working(p) => hid \subseteq since[p].hidden /\ mar \subseteq since[p].marked
    BY DEF Marked
  <2> HIDE DEF w, hid, mar, pol
  <2>3. Nothing.hidden = {} /\ Nothing.marked = {}
    BY DEF Nothing
  <2>4. CASE ~w
    BY <2>1, <2>3, <2>4
  <2>5. CASE w
    <3>1. since'[p].hidden = hid /\ since'[p].marked = mar
      BY <2>1, <2>5
    <3>2. QED
      BY <2>2, <3>1 DEF pol
  <2>6. QED
    BY <2>4, <2>5
<1>2. Remembered'
  BY <1>1 DEF Remembered, HiddenBy
<1>3. QED
  BY <1>1, <1>2

LEMMA RememberedStep ==
  ASSUME Remembered, [Next]_vars
  PROVE  /\ Remembered'
         /\ \A p \in Procs : Working(p) => /\ since'[p].hidden \subseteq since[p].hidden
                                          /\ since'[p].marked \subseteq since[p].marked
<1>1. CASE UNCHANGED vars
  <2>1. Remembered'
    BY <1>1 DEF vars, env, rows, Remembered, HiddenBy, PolicyOf
  <2>2. QED
    BY <1>1, <2>1 DEF vars
<1>2. CASE Next
  <2>1. Remember
    BY <1>2
       DEF Next, Owners, Start, Proceed, Scan, Retag, Vanish, Undo, Expire, SetPolicy, ReadToSuppress,
           Check, Load, Suppress, Insert, Reject, ExecuteDry, Fetch, Delete, DeleteFails, Commit,
           Fail, LoadPolicy, List, Filter, Finalize, ScanFails
  <2>2. QED
    BY <2>1, Remembers
<1>3. QED
  BY <1>1, <1>2

\* Nothing comes back to life, and what is listed with its tags stays so.
LEMMA NoneRises ==
  ASSUME Typed, [Next]_vars
  PROVE  \A r \in Res : (cloud'[r].alive => cloud[r].alive) /\ cloud'[r].listed = cloud[r].listed
<1>1. cloud \in [Res -> Resource]
  BY DEF Typed, TypeOK, Resource
<1>2. \A c \in Resource : /\ \A t : LET d == [c EXCEPT !.tag = t] IN d.alive = c.alive /\ d.listed = c.listed
                        /\ \A b : LET d == [c EXCEPT !.alive = b] IN d.alive = b /\ d.listed = c.listed
  BY DEF Resource
<1>3. ASSUME NEW x \in Res, NEW b \in BOOLEAN, b => cloud[x].alive, cloud' = [cloud EXCEPT ![x].alive = b]
      PROVE  \A r \in Res : (cloud'[r].alive => cloud[r].alive) /\ cloud'[r].listed = cloud[r].listed
  <2> DEFINE d == [cloud[x] EXCEPT !.alive = b]
  <2>1. cloud' = [cloud EXCEPT ![x] = d]
    BY <1>3
  <2>2. d.alive = b /\ d.listed = cloud[x].listed
    BY <1>1, <1>2
  <2> HIDE DEF d
  <2>3. QED
    BY <1>1, <1>3, <2>1, <2>2
<1>4. ASSUME NEW x \in Res, Retag(x)
      PROVE  \A r \in Res : (cloud'[r].alive => cloud[r].alive) /\ cloud'[r].listed = cloud[r].listed
  <2>1. PICK t \in Tags : cloud' = [cloud EXCEPT ![x].tag = t]
    BY <1>4 DEF Retag
  <2> DEFINE d == [cloud[x] EXCEPT !.tag = t]
  <2>2. cloud' = [cloud EXCEPT ![x] = d]
    BY <2>1
  <2>3. d.alive = cloud[x].alive /\ d.listed = cloud[x].listed
    BY <1>1, <1>2
  <2> HIDE DEF d
  <2>4. QED
    BY <1>1, <2>2, <2>3
<1>5. ASSUME NEW x \in Res, Vanish(x)
      PROVE  \A r \in Res : (cloud'[r].alive => cloud[r].alive) /\ cloud'[r].listed = cloud[r].listed
  BY <1>3, <1>5 DEF Vanish
<1>6. \A o \in Ops : call[o].res \in Res
  BY DEF Typed, TypeOK
<1>7. ASSUME NEW o \in Ops, Delete(o)
      PROVE  \A r \in Res : (cloud'[r].alive => cloud[r].alive) /\ cloud'[r].listed = cloud[r].listed
  BY <1>3, <1>6, <1>7 DEF Delete
<1>8. ASSUME NEW o \in Ops, DeleteFails(o)
      PROVE  \A r \in Res : (cloud'[r].alive => cloud[r].alive) /\ cloud'[r].listed = cloud[r].listed
  <2>1. PICK b \in {cloud[call[o].res].alive, FALSE} : cloud' = [cloud EXCEPT ![call[o].res].alive = b]
    BY <1>8 DEF DeleteFails
  <2>2. b \in BOOLEAN /\ (b => cloud[call[o].res].alive)
    BY <1>1, <1>6, <2>1 DEF Resource
  <2>3. QED
    BY <1>3, <1>6, <2>1, <2>2
<1>9. CASE UNCHANGED cloud
  BY <1>9
<1>10. QED
  BY <1>4, <1>5, <1>7, <1>8, <1>9
     DEF Next, Owners, Start, Proceed, Scan, Undo, Expire, SetPolicy, ReadToSuppress, Check, Load, Suppress,
         Insert, Reject, ExecuteDry, Fetch, Commit, Fail, LoadPolicy, List, Filter, Finalize, ScanFails,
         vars, env, Quiet
-----------------------------------------------------------------------------
(* Approvals.                                                              *)

Same(c, d) == c.at = d.at /\ c.res = d.res /\ c.extra = d.extra

\* A call gets to its DELETE or its commit by its own steps only.
LEMMA Onward ==
  ASSUME Typed, [Next]_vars, NEW o \in Ops
  PROVE  \/ Same(call'[o], call[o]) \/ call'[o].at \notin {"delete", "commit"}
         \/ Fetch(o) \/ Delete(o)
<1> DEFINE Goal == \/ Same(call'[o], call[o]) \/ call'[o].at \notin {"delete", "commit"}
                   \/ Fetch(o) \/ Delete(o)
<1> SUFFICES Goal
  OBVIOUS
<1>t. call \in [Ops -> CallType]
  BY DEF Typed, TypeOK, CallType
<1>1. ASSUME NEW p \in Ops, NEW c, c.at \notin {"delete", "commit"}, call' = [call EXCEPT ![p] = c]
      PROVE  Goal
  BY <1>t, <1>1 DEF Same
<1>2. CASE UNCHANGED call
  BY <1>2 DEF Same
<1> HIDE DEF Goal
<1>3. ASSUME NEW p \in Ops, NEW r \in Res, ReadToSuppress(p, r) PROVE Goal
  BY <1>1, <1>3, Holds DEF ReadToSuppress, CallSteps
<1>4. ASSUME NEW p \in Ops, NEW r \in Res, NEW mode \in Modes, Check(p, r, mode) PROVE Goal
  <2> DEFINE c == [Holding("insert", r) EXCEPT !.mode = mode]
  <2>1. c.at = "insert"
    BY Holds DEF CallSteps, CallType
  <2>2. call' = [call EXCEPT ![p] = c]
    BY <1>4 DEF Check
  <2> HIDE DEF c
  <2>3. QED
    BY <1>1, <2>1, <2>2
<1>5. ASSUME NEW p \in Ops, NEW q \in Reqs, NEW decision \in {"reject", "execute", "fetch"},
             Load(p, q, decision)
      PROVE  Goal
  <2> DEFINE c == [Holding(decision, req[q].res) EXCEPT !.req = q,
                     !.extra = decision = "fetch" /\ extra]
  <2>1. c.at = decision
    <3>1. req[q].res \in Res
      BY DEF Typed, TypeOK
    <3>2. Holding(decision, req[q].res) \in CallType /\ Holding(decision, req[q].res).at = decision
      BY <3>1, Holds DEF CallSteps
    <3>3. QED
      BY <3>2 DEF CallType
  <2>2. call' = [call EXCEPT ![p] = c]
    BY <1>5 DEF Load
  <2> HIDE DEF c
  <2>3. QED
    BY <1>1, <2>1, <2>2
<1>6. ASSUME NEW p \in Ops, Return(p) PROVE Goal
  BY <1>1, <1>6, Constants DEF Return
<1>7. ASSUME NEW p \in Ops, Insert(p) \/ Reject(p) \/ ExecuteDry(p) \/ DeleteFails(p) \/ Fail(p) PROVE Goal
  BY <1>6, <1>7 DEF Insert, Reject, ExecuteDry, DeleteFails, Fail
\* What another's step leaves of this call.
<1>8. ASSUME NEW gone \in SUBSET Res PROVE Same(Detached(gone)[o], call[o])
  BY <1>8, Gone DEF Same
<1>9. ASSUME NEW p \in Ops, DeleteFinding(p) PROVE Goal
  <2> DEFINE gone == {r \in Res : call[p].same /\ call[p].res = r}
  <2>1. call' = [Detached(gone) EXCEPT ![p] = NoCall] /\ gone \in SUBSET Res
    BY <1>9 DEF DeleteFinding
  <2> HIDE DEF gone
  <2>2. Same(Detached(gone)[o], call[o])
    BY <1>8, <2>1
  <2>3. DOMAIN Detached(gone) = Ops
    BY DEF Detached
  <2>4. QED
    BY <2>1, <2>2, <2>3, Constants DEF Goal
<1>10. ASSUME NEW p \in Ops, Suppress(p) \/ Commit(p) PROVE Goal
  BY <1>9, <1>10 DEF Suppress, Commit
<1>11. ASSUME NEW p \in Ops, p # o, Goto(p, "delete") \/ Goto(p, "commit") PROVE Goal
  BY <1>t, <1>11 DEF Goto, Goal, Same
<1>12. ASSUME NEW p \in Ops, Fetch(p) PROVE Goal
  BY <1>6, <1>11, <1>12 DEF Fetch, Goal
<1>13. ASSUME NEW p \in Ops, Delete(p) PROVE Goal
  BY <1>11, <1>13 DEF Delete, Goal
<1>14. ASSUME NEW s \in Scanners, Finalize(s) PROVE Goal
  BY <1>8, <1>14 DEF Finalize, Goal
<1>15. QED
  BY <1>2, <1>3, <1>4, <1>5, <1>7, <1>10, <1>12, <1>13, <1>14
     DEF Next, Owners, Start, Proceed, Scan, Retag, Vanish, Undo, Expire, SetPolicy, LoadPolicy, List, Filter,
         ScanFails, vars, rows

\* What a working operator's call remembers to be marked is protected by its policy.
LEMMA CallsStep == IInv /\ [Next]_vars => Calls'
<1> SUFFICES ASSUME IInv, [Next]_vars PROVE Calls'
  OBVIOUS
<1>t. Typed /\ call \in [Ops -> CallType] /\ cloud \in [Res -> Resource]
  BY DEF IInv, Typed, TypeOK, CallType, Resource
<1>r. Remembered'
  BY RememberedStep DEF IInv
<1>1. ASSUME NEW o \in Ops
      PROVE  /\ call'[o].at = "delete" /\ call'[o].res \in since'[o].marked => ~cloud'[call'[o].res].alive
             /\ call'[o].at = "commit" => ~cloud'[call'[o].res].alive
  <2>o. call[o] \in CallType /\ call[o].res \in Res /\ o \in Procs
    BY <1>t DEF CallType, Procs
  <2>n. cloud'[call[o].res].alive => cloud[call[o].res].alive
    BY <1>t, <2>o, NoneRises
  <2>i. /\ call[o].at = "delete" /\ call[o].res \in since[o].marked => ~cloud[call[o].res].alive
        /\ call[o].at = "commit" => ~cloud[call[o].res].alive
    BY DEF IInv, Calls
  <2>1. CASE Same(call'[o], call[o])
    <3>1. call[o].at # "idle" => since'[o].marked \subseteq since[o].marked
      BY <2>o, RememberedStep DEF IInv, Working
    <3>2. QED
      BY <2>1, <2>n, <2>i, <3>1 DEF Same
  <2>2. CASE call'[o].at \notin {"delete", "commit"}
    BY <2>2
  <2>3. CASE Fetch(o) /\ ~(call'[o].at \notin {"delete", "commit"})
    <3> DEFINE c == cloud[call[o].res]
    <3>1. ~(c.alive /\ Protected(c.tag, call[o].extra)) /\ Goto(o, "delete")
      <4>1. Return(o) => call'[o].at = "idle"
        BY <1>t, Constants DEF Return
      <4>2. QED
        BY <2>3, <4>1 DEF Fetch
    <3>2. /\ call'[o].at = "delete" /\ call'[o].res = call[o].res /\ call'[o].extra = call[o].extra
      BY <1>t, <2>o, <3>1 DEF Goto, CallType
    <3>3. cloud' = cloud
      BY <2>3 DEF Fetch, Quiet, env
    <3>4. call[o].res \in since'[o].marked => Protected(c.tag, call[o].extra)
      BY <1>r, <2>o, <3>2, <3>3 DEF Remembered, PolicyOf, Protected
    <3>5. QED
      BY <3>1, <3>2, <3>3, <3>4
  <2>4. CASE Delete(o)
    <3>1. call'[o].at = "commit" /\ call'[o].res = call[o].res
      BY <1>t, <2>o, <2>4 DEF Delete, Goto, CallType
    <3>2. ~cloud'[call[o].res].alive
      BY <1>t, <2>o, <2>4 DEF Delete, Resource
    <3>3. QED
      BY <3>1, <3>2
  <2>5. QED
    BY <1>t, <2>1, <2>2, <2>3, <2>4, Onward
<1>2. QED
  BY <1>1 DEF Calls

LEMMA Initially == Init => IInv
<1> SUFFICES ASSUME Init PROVE IInv
  OBVIOUS
<1>1. cloud \in [Res -> Resource] /\ extra \in BOOLEAN /\ finding \in [Res -> Tags \cup {"absent"}]
  BY DEF Init, Resource, Tags
<1>2. sup \in Seq(Entries) /\ Len(sup) = 0 /\ DOMAIN sup = {}
  BY DEF Init
<1>3. req \in [Reqs -> ReqRow] /\ call \in [Ops -> CallType] /\ scan \in [Scanners -> ScanType]
  BY Constants DEF Init
<1>4. since \in [Procs -> [hidden : SUBSET Res, marked : SUBSET Res]]
  BY DEF Init, Nothing
<1>5. edits \in 0..MaxEdits /\ faults \in 0..MaxFaults
  BY JanitorAssumption DEF Init
<1>6. /\ \A q \in Reqs : req[q].st = "none"
      /\ \A o \in Ops : ~call[o].same /\ call[o].at = "idle"
      /\ \A p \in Procs : since[p].hidden = {} /\ since[p].marked = {}
  BY Constants DEF Init, Nothing
<1>7. 0 <= Cardinality(Res)
  BY FS_CardinalityType, JanitorAssumption
<1>8. Typed
  BY <1>1, <1>2, <1>3, <1>4, <1>5, <1>6, <1>7
     DEF Typed, TypeOK, OneEach, Backed, Resource, Entries, ReqRow, CallType, ScanType
<1>9. Remembered /\ Calls
  BY <1>6 DEF Remembered, Calls
<1>10. QED
  BY <1>8, <1>9 DEF IInv

LEMMA Inductive == IInv /\ [Next]_vars => IInv'
  BY TypeStep, RememberedStep, CallsStep DEF IInv

\* Whatever calls, scans and owners do, the rows are of the shape the code gives
\* them, a request that waits has its finding, and a call that goes on believes
\* only rows that are there (approvals.ts, suppressions.ts, the foreign key of
\* janitor_cleanup_requests).
THEOREM TypeCorrect == Spec => []TypeOK
<1>1. IInv => TypeOK
  BY DEF IInv, Typed
<1>2. QED
  BY Initially, Inductive, <1>1, PTL DEF Spec

\* A live cleanup deletes nothing whose tags have been protected ever since the
\* approval was loaded (performLiveJanitorCleanup reads the resource again).
THEOREM SparesProtected == Spec => ProtectedSpared
<1>1. IInv /\ [Next]_vars =>
        [\A o \in Ops : LET r == call[o].res IN
           call[o].at = "delete" /\ cloud[r].alive /\ ~cloud'[r].alive /\ call'[o] # call[o]
             => r \notin since[o].marked]_vars
  BY DEF IInv, Calls
<1>2. QED
  BY Initially, Inductive, <1>1, PTL DEF Spec, ProtectedSpared

\* An approval that is answered with success leaves no resource behind
\* (approveOrRejectJanitorCleanup, whatever DELETE answered before).
THEOREM ApprovalsDelete == Spec => ApprovedIsGone
<1>1. IInv /\ [Next]_vars =>
        [\A o \in Ops : call[o].at = "commit" /\ call'[o].at = "idle"
           => ~cloud[call[o].res].alive]_vars
  BY DEF IInv, Calls
<1>2. QED
  BY Initially, Inductive, <1>1, PTL DEF Spec, ApprovedIsGone
-----------------------------------------------------------------------------
(* Scans, while no more suppressions are kept than a scan reads.           *)

AllKept == Len(sup) <= ListLimit

LEMMA AllRead ==
  ASSUME NEW s \in Seq(Entries), Len(s) <= ListLimit
  PROVE  Latest(s) = s
<1>1. SubSeq(s, 1, Len(s)) = s
  BY SubSeqFull
<1>2. Len(s) \in Nat
  BY LenProperties
<1>3. (IF Len(s) < ListLimit THEN Len(s) ELSE ListLimit) = Len(s)
  BY <1>2, JanitorAssumption
<1>4. QED
  BY <1>1, <1>3 DEF Latest

\* A scan goes on by its own steps only.
LEMMA ScanMoves ==
  ASSUME TypeOK, [Next]_vars, NEW s \in Scanners
  PROVE  \/ scan'[s] = scan[s]
         \/ LoadPolicy(s) \/ List(s) \/ Filter(s) \/ Finalize(s) \/ ScanFails(s)
<1> DEFINE Goal == \/ scan'[s] = scan[s]
                   \/ LoadPolicy(s) \/ List(s) \/ Filter(s) \/ Finalize(s) \/ ScanFails(s)
<1> SUFFICES Goal
  OBVIOUS
<1>1. scan \in [Scanners -> ScanType]
  BY DEF TypeOK, ScanType
<1>2. CASE UNCHANGED scan
  BY <1>2
<1> HIDE DEF Goal
<1>3. ASSUME NEW x \in Scanners, Scan(x) PROVE Goal
  <2>1. CASE x = s
    BY <1>3, <2>1 DEF Scan, Goal
  <2>2. CASE x # s
    <3>1. scan'[s] = scan[s]
      BY <1>1, <1>3, <2>2 DEF Scan, LoadPolicy, List, Filter, Finalize, ScanFails
    <3>2. QED
      BY <3>1 DEF Goal
  <2>3. QED
    BY <2>1, <2>2
<1>4. QED
  BY <1>2, <1>3
     DEF Next, Owners, Start, Proceed, Retag, Vanish, Undo, Expire, SetPolicy, ReadToSuppress,
         Check, Load, Suppress, Insert, Reject, ExecuteDry, Fetch, Delete, DeleteFails, Commit,
         Fail, Quiet, vars

LEMMA ScansStep == IInv /\ Scans /\ AllKept /\ [Next]_vars => Scans'
<1> SUFFICES ASSUME IInv, Scans, AllKept, [Next]_vars PROVE Scans'
  OBVIOUS
<1>t. Typed /\ TypeOK /\ scan \in [Scanners -> ScanType] /\ cloud \in [Res -> Resource]
  BY DEF IInv, Typed, TypeOK, ScanType, Resource
<1>r. Remembered'
  BY RememberedStep DEF IInv
<1>1. ASSUME NEW s \in Scanners
      PROVE  /\ scan'[s].at \in {"filter", "finalize"} =>
                  \A f \in scan'[s].found : f[1] \in since'[s].marked => ~cloud'[f[1]].listed
             /\ scan'[s].at = "finalize" => \A f \in scan'[s].found : f[1] \notin since'[s].hidden
  <2>s. /\ scan[s] \in ScanType /\ s \in Procs /\ s \notin Ops
        /\ \A f \in scan[s].found : f[1] \in Res
    BY <1>t, JanitorAssumption DEF ScanType, Procs
  <2>l. \A r \in Res : cloud'[r].listed = cloud[r].listed
    BY <1>t, NoneRises
  <2>w. scan[s].at # "idle" => /\ since'[s].hidden \subseteq since[s].hidden
                              /\ since'[s].marked \subseteq since[s].marked
    BY <2>s, RememberedStep DEF IInv, Working
  <2>i. /\ scan[s].at \in {"filter", "finalize"} =>
             \A f \in scan[s].found : f[1] \in since[s].marked => ~cloud[f[1]].listed
        /\ scan[s].at = "finalize" => \A f \in scan[s].found : f[1] \notin since[s].hidden
    BY DEF Scans
  <2>1. CASE scan'[s] = scan[s]
    BY <2>1, <2>s, <2>l, <2>w, <2>i
  <2>2. CASE LoadPolicy(s) \/ Finalize(s) \/ ScanFails(s)
    <3>1. scan'[s].at \in {"list", "idle"}
      BY <1>t, <2>2, Constants DEF LoadPolicy, Finalize, ScanFails
    <3>2. QED
      BY <3>1
  <2>3. CASE List(s)
    <3> DEFINE fs == {<<r, View(r)>> : r \in Listing(scan[s].extra)}
    <3>1. scan'[s].at = "filter" /\ scan'[s].found = fs /\ scan'[s].extra = scan[s].extra
      BY <1>t, <2>3 DEF List, ScanType
    <3>2. cloud' = cloud
      BY <2>3 DEF List, env
    <3>3. \A f \in fs : f[1] \in Res /\ (cloud[f[1]].listed => ~Protected(cloud[f[1]].tag, scan[s].extra))
      BY DEF Listing, View
    <3> HIDE DEF fs
    <3>4. \A r \in since'[s].marked : Protected(cloud[r].tag, scan[s].extra)
      BY <1>r, <2>s, <3>1, <3>2 DEF Remembered, PolicyOf
    <3>5. QED
      BY <3>1, <3>2, <3>3, <3>4
  <2>4. CASE Filter(s)
    <3> DEFINE fs == FilterSuppressed(scan[s].found)
    <3>1. scan[s].at = "filter" /\ scan'[s].at = "finalize" /\ scan'[s].found = fs
      BY <1>t, <2>4 DEF Filter, ScanType
    <3>2. sup' = sup
      BY <2>4 DEF Filter, rows
    <3>3. Latest(sup) = sup
      <4>1. sup \in Seq(Entries) /\ Len(sup) <= ListLimit
        BY <1>t DEF TypeOK, Entries, AllKept
      <4>2. QED
        BY <4>1, AllRead
    <3>4. fs \subseteq scan[s].found /\ \A f \in fs : f[1] \notin HiddenBy(sup)
      BY <3>3 DEF FilterSuppressed
    <3> HIDE DEF fs
    <3>5. since'[s].hidden \subseteq HiddenBy(sup)
      BY <1>r, <2>s, <3>2 DEF Remembered, HiddenBy
    <3>6. QED
      BY <2>s, <2>l, <2>w, <2>i, <3>1, <3>4, <3>5
  <2>5. QED
    BY <1>t, <2>1, <2>2, <2>3, <2>4, ScanMoves
<1>2. QED
  BY <1>1 DEF Scans

\* As long as no more suppressions are kept than a scan reads, a scan lists
\* nothing that has been suppressed, nor anything listed with protected tags, ever
\* since it began (executeJanitorScanJob, docs/operations/charon.md:93).
THEOREM HiddenStaysHidden == Spec /\ []AllKept => SuppressedStaysHidden
<1>1. Init => Scans
  BY Constants DEF Init, Scans
<1>2. IInv /\ Scans /\ AllKept /\ [Next]_vars => Scans'
  BY ScansStep
<1>3. IInv /\ Scans /\ [Next]_vars =>
        [\A s \in Scanners :
           scan[s].at = "finalize" /\ scan'[s].at = "idle" /\ faults' = faults
           => \A r \in since[s].hidden \cup {x \in since[s].marked : cloud[x].listed} :
                finding'[r] = "absent"]_vars
  <2> SUFFICES ASSUME IInv, Scans, [Next]_vars, NEW s \in Scanners,
                      scan[s].at = "finalize", scan'[s].at = "idle", faults' = faults,
                      NEW r \in since[s].hidden \cup {x \in since[s].marked : cloud[x].listed}
               PROVE  finding'[r] = "absent"
    OBVIOUS
  <2>1. TypeOK /\ faults \in 0..MaxFaults /\ s \in Procs
    BY DEF IInv, Typed, TypeOK, Procs
  <2>2. Finalize(s)
    <3>1. ~ScanFails(s)
      BY <2>1, JanitorAssumption DEF ScanFails, Fault
    <3>2. QED
      BY <2>1, <3>1, ScanMoves DEF LoadPolicy, List, Filter
  <2>3. r \in Res
    BY <2>1 DEF TypeOK
  <2>4. \A f \in scan[s].found : f[1] # r
    BY DEF Scans
  <2>5. QED
    BY <2>1, <2>2, <2>3, <2>4, Listed
<1>4. QED
  BY Initially, Inductive, <1>1, <1>2, <1>3, PTL DEF Spec, SuppressedStaysHidden
=============================================================================
