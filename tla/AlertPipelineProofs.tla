------------------------- MODULE AlertPipelineProofs -------------------------
(***************************************************************************)
(* Proofs about AlertPipeline, for any services, deploys, algorithms,      *)
(* evaluations and bounds.                                                 *)
(***************************************************************************)
EXTENDS AlertPipeline, Iteration

-----------------------------------------------------------------------------
(* The inductive invariant.                                                *)

RegType == [service : Services, deploy : DeployIDs, algo : Algorithms \cup {TenantOutlier},
            conf : Confidences, at : 0 .. MaxTime, base : BOOLEAN,
            status : {"active", "resolved", "dismissed"}]
IncType == [service : Services, deploy : DeployIDs, status : Open \cup {"resolved"},
            alerts : Nat \ {0}, seen : 0 .. MaxTime]
Found == {r \in RegType : r.status = "active"}

Backs == {"idle", "scan", "tenants", "resolve"}
JobType == [at : Writing \cup Backs \cup {"save"}, back : Backs,
            left : SUBSET Services, todo : Seq(Found), active : Seq(Nat),
            start : 0 .. MaxTime, reg : Nat, svc : Services \cup {NoService},
            inc : Nat, copy : IncType \cup {NoIncident}]

(* A handler at one of these places has a copy to write back. *)
Holding == {"merge", "check", "close", "acknowledge", "resolveById"}

(* The deploy a handler with regression number r looks for. *)
KeyOf(r, R) == IF r = 0 THEN NoDeploy ELSE R[r].deploy

(* Job j is in order while the stores hold regressions R and incidents I. *)
JobOK(j, R, I) ==
    /\ j \in JobType
    /\ j.at = "save" => j.todo # <<>>
    /\ j.at \in Writing <=> j.svc \in Services
    /\ j.reg \in 0 .. Len(R) /\ j.inc \in 0 .. Len(I)
    /\ \A k \in 1 .. Len(j.active) : j.active[k] \in 1 .. Len(R)
    /\ j.at \in Writing /\ j.reg # 0 => R[j.reg].service = j.svc
    /\ j.at \in {"findAny", "check", "close"} => j.reg # 0 /\ R[j.reg].status # "active"
    /\ j.at \in Holding =>
          /\ j.inc # 0
          /\ j.copy.service = j.svc
          /\ j.copy.service = I[j.inc].service /\ j.copy.deploy = I[j.inc].deploy
    /\ j.at \in {"merge", "check", "close"} /\ KeyOf(j.reg, R) # NoDeploy =>
          j.copy.deploy = KeyOf(j.reg, R)
    /\ j.at = "merge" => j.copy.status \in Open

FieldsOK ==
    /\ clock \in 0 .. MaxTime /\ horizon \in -1 .. clock
    /\ degraded \subseteq Services /\ outliers \subseteq Outliers
    /\ scanner \in BOOLEAN /\ consumer \in BOOLEAN
    /\ engine \in {"running", "stopping", "stopped"}
    /\ handled \in [Services -> Nat]
    /\ crowded \subseteq Services /\ byHand \subseteq Services

(* A deploy is taken once, so the timer of an evaluation fires once. *)
TimersOK ==
    /\ timer \in [Evaluations -> {"unset", "set", "fired"}]
    /\ deployed \subseteq Deploys /\ pending \in Seq(deployed)
    /\ \A i, k \in 1 .. Len(pending) : pending[i] = pending[k] => i = k
    /\ \A e \in Evaluations :
          /\ Evaluates[e] \notin deployed => timer[e] = "unset"
          /\ \A k \in 1 .. Len(pending) : Evaluates[e] = pending[k] => timer[e] = "unset"
          /\ timer[e] # "fired" => job[e] = Idle

TypeInv ==
    /\ regs \in Seq(RegType) /\ incs \in Seq(IncType)
    /\ job \in [Workers -> JobType]
    /\ \A w \in Workers : JobOK(job[w], regs, incs)
    /\ FieldsOK /\ TimersOK

(* While nobody overlapped on a service, one handler works for it and its  *)
(* copy is what the store holds.                                           *)
Alone ==
    \A v, w \in Workers : \A s \in Services \ crowded :
        Serves(job[v], s) /\ Serves(job[w], s) => v = w
Fresh ==
    \A w \in Workers :
        job[w].at \in Holding /\ job[w].svc \notin crowded =>
           job[w].copy = incs[job[w].inc]

(* count[i] is the number of alerts merged into incident i, its creation   *)
(* included.  A copy may have counted fewer.                               *)
Tally(count) ==
    /\ count \in [1 .. Len(incs) -> Nat]
    /\ \A s \in Services : Total(incs, count, s) = handled[s]
    /\ \A i \in 1 .. Len(incs) :
          /\ incs[i].alerts <= count[i]
          /\ incs[i].service \notin crowded => incs[i].alerts = count[i]
    /\ \A w \in Workers :
          job[w].at \in Holding => job[w].copy.alerts <= count[job[w].inc]

(* Incident i is what a new alert of service s and deploy d would join. *)
Joins(I, h, i, s, d) ==
    /\ I[i].service = s /\ I[i].deploy = d
    /\ I[i].status \in Open /\ I[i].seen > h

(* No incident but i is one an alert of s and d would join. *)
NoneElse(I, h, i, s, d) == \A k \in 1 .. Len(I) : k # i => ~ Joins(I, h, k, s, d)

Singles ==
    \A i \in 1 .. Len(incs) :
       /\ Quiet(incs[i].service)
       /\ Joins(incs, horizon, i, incs[i].service, incs[i].deploy)
       => NoneElse(incs, horizon, i, incs[i].service, incs[i].deploy)

(* What the search of w found still holds. *)
Searched(w) ==
    Quiet(job[w].svc) =>
       /\ job[w].at = "create" =>
             NoneElse(incs, horizon, 0, job[w].svc, KeyOf(job[w].reg, regs))
       /\ job[w].at = "merge" =>
             NoneElse(incs, horizon, job[w].inc, job[w].svc, job[w].copy.deploy)

Grouped == Singles /\ \A w \in Workers : Searched(w)

(* Incident i covers the regressions of service s and deploy d. *)
Covers(I, i, s, d) ==
    I[i].service = s /\ I[i].status \in Open /\ I[i].deploy \in {NoDeploy, d}

Serving(r) == \E w \in Workers : job[w].reg = r /\ job[w].at \in Writing

(* An incident names the deploy of some regression of its service. *)
Caused ==
    \A i \in 1 .. Len(incs) : incs[i].deploy # NoDeploy =>
       \E q \in 1 .. Len(regs) :
          regs[q].service = incs[i].service /\ regs[q].deploy = incs[i].deploy

ActiveCovered ==
    \A r \in 1 .. Len(regs) :
       /\ regs[r].status = "active"
       /\ Quiet(regs[r].service) /\ ~Mixed(regs[r].service) /\ ~Serving(r)
       => \E i \in 1 .. Len(incs) : Covers(incs, i, regs[r].service, regs[r].deploy)

(* What w closes an incident for is still over. *)
Closing(w) ==
    job[w].at = "close" /\ Quiet(job[w].svc) =>
       \A r \in 1 .. Len(regs) :
          regs[r].service = job[w].svc /\ regs[r].deploy = KeyOf(job[w].reg, regs)
          => regs[r].status # "active"

Covered == Caused /\ ActiveCovered /\ \A w \in Workers : Closing(w)

AlertInv == TypeInv /\ Alone /\ Fresh /\ (\E count : Tally(count)) /\ Grouped /\ Covered

-----------------------------------------------------------------------------
(* Sequences.                                                              *)

LEMMA SeqIs ==
    ASSUME NEW S, NEW s \in Seq(S)
    PROVE  /\ Len(s) \in Nat /\ DOMAIN s = 1 .. Len(s)
           /\ \A i \in 1 .. Len(s) : s[i] \in S
OBVIOUS

LEMMA AppendIs ==
    ASSUME NEW S, NEW s \in Seq(S), NEW e \in S
    PROVE  /\ Append(s, e) \in Seq(S)
           /\ Len(s) \in Nat /\ Len(Append(s, e)) = Len(s) + 1
           /\ \A i \in 1 .. Len(s) : Append(s, e)[i] = s[i]
           /\ Append(s, e)[Len(s) + 1] = e
           /\ \A i \in 1 .. Len(s) + 1 : i \in 1 .. Len(s) \/ i = Len(s) + 1
OBVIOUS

LEMMA TailIs ==
    ASSUME NEW S, NEW s \in Seq(S), s # <<>>
    PROVE  /\ Head(s) \in S /\ Tail(s) \in Seq(S) /\ Head(s) = s[1]
           /\ Len(s) \in Nat \ {0} /\ Len(Tail(s)) = Len(s) - 1
           /\ \A i \in 1 .. Len(s) - 1 : Tail(s)[i] = s[i + 1]
OBVIOUS

LEMMA ReplaceIs ==
    ASSUME NEW S, NEW s \in Seq(S), NEW i \in 1 .. Len(s), NEW e \in S
    PROVE  /\ [s EXCEPT ![i] = e] \in Seq(S)
           /\ Len([s EXCEPT ![i] = e]) = Len(s)
           /\ \A k \in 1 .. Len(s) :
                 [s EXCEPT ![i] = e][k] = IF k = i THEN e ELSE s[k]
<1>1. PICK t : t = [s EXCEPT ![i] = e]
  OBVIOUS
<1>2. t \in Seq(S) /\ Len(t) = Len(s) /\ \A k \in 1 .. Len(s) : t[k] = IF k = i THEN e ELSE s[k]
  BY <1>1
<1> QED
  BY <1>1, <1>2

(* SetToSeq lists a finite set. *)
LEMMA SetToSeqIs ==
    ASSUME NEW S, IsFiniteSet(S)
    PROVE  SetToSeq(S) \in Seq(S)
<1>1. PICK n \in Nat : ExistsBijection(1 .. n, S)
  BY FS_NatBijection
<1>2. Cardinality(S) = n
  BY <1>1, FS_CountingElements
<1>3. PICK f : f \in Bijection(1 .. n, S)
  BY <1>1 DEF ExistsBijection
<1>4. f \in [1 .. Cardinality(S) -> S] /\ IsInjective(f)
  BY <1>2, <1>3 DEF Bijection, Injection, IsInjective
<1>5. SetToSeq(S) \in [1 .. Cardinality(S) -> S]
  BY <1>4 DEF SetToSeq
<1> QED
  BY <1>2, <1>5

(* What the algorithms find is a finite set of active regressions.         *)
LEMMA DetectionsAre ==
    ASSUME NEW s \in Services, NEW d \in DeployIDs, clock \in 0 .. MaxTime,
           NEW D \in Detections(s, d)
    PROVE  IsFiniteSet(D) /\ D \subseteq Found
<1>1. PICK P : P = Algorithms \X Confidences
  OBVIOUS
<1>2. IsFiniteSet(P)
  BY <1>1, FS_Product, AlertParametersAssumption
<1>3. PICK f : f = [x \in P |-> Regression(s, d, x[1], x[2], clock, FALSE)]
  OBVIOUS
<1>4. PICK R : R = {f[x] : x \in P}
  OBVIOUS
<1>5. IsFiniteSet(R)
  <2>1. f \in Surjection(P, R)
    BY <1>3, <1>4 DEF Surjection
  <2> QED
    BY <1>2, <2>1, FS_Surjection
<1>6. R = {Regression(s, d, x[1], x[2], clock, FALSE) : x \in P}
  BY <1>3, <1>4
<1>7. R \subseteq Found
  <2>1. ASSUME NEW x \in P
        PROVE  f[x] \in Found
    <3>1. x[1] \in Algorithms /\ x[2] \in Confidences
      BY <1>1
    <3> QED
      BY <1>3, <3>1 DEF Regression, Found, RegType
  <2> QED
    BY <1>4, <2>1
<1>8. D \subseteq R
  <2>1. D \in SUBSET {Regression(s, d, x[1], x[2], clock, FALSE) :
                      x \in Algorithms \X Confidences}
    BY DEF Detections
  <2> QED
    BY <1>1, <1>6, <2>1
<1> QED
  BY <1>5, <1>7, <1>8, FS_Subset

(* The list of the active regressions has their numbers. *)
LEMMA ListActiveIs ==
    ASSUME regs \in Seq(RegType)
    PROVE  /\ ListActive \in Seq(Nat)
           /\ \A k \in 1 .. Len(ListActive) : ListActive[k] \in 1 .. Len(regs)
<1>1. PICK N, L : N = Len(regs) /\ L = Seq(1 .. N)
  OBVIOUS
<1>2. N \in Nat
  BY <1>1
<1>3. PICK S, step :
        /\ S = [k \in 0 .. N |-> L]
        /\ step = [k \in 1 .. N |-> [x \in L |->
                     IF regs[k].status = "active" THEN <<k>> \o x ELSE x]]
  OBVIOUS
<1>4. /\ \A k \in 0 .. N : S[k] = L
      /\ \A k \in 1 .. N : k \in 0 .. N /\ k - 1 \in 0 .. N
      /\ \A k \in 1 .. N : \A x \in L :
            step[k][x] = IF regs[k].status = "active" THEN <<k>> \o x ELSE x
      /\ 0 \in 0 .. N
  BY <1>2, <1>3
<1> HIDE <1>3
<1>5. \A k \in 1 .. N : \A x \in L : <<k>> \o x \in L
  BY <1>1, <1>2
<1>6. Leads(step, S, N) /\ <<>> \in S[0]
  <2>1. <<>> \in L
    BY <1>1
  <2>2. \A k \in 1 .. N : \A x \in L : step[k][x] \in L
    BY <1>4, <1>5
  <2> QED
    BY <1>4, <2>1, <2>2 DEF Leads
<1>7. PICK f : IsRun(f, N, <<>>, step, S)
  BY <1>2, <1>6, Iterates
<1>8. \A k \in 1 .. N : f[k] = IF regs[k].status = "active" THEN <<k>> \o f[k - 1] ELSE f[k - 1]
  BY <1>4, <1>7 DEF IsRun
<1>9. f = [k \in 0 .. N |-> IF k = 0 THEN <<>>
                            ELSE IF regs[k].status = "active" THEN <<k>> \o f[k - 1]
                            ELSE f[k - 1]]
  <2>1. \A k \in 0 .. N : k # 0 => k \in 1 .. N
    BY <1>2
  <2>2. f = [k \in 0 .. N |-> f[k]] /\ f[0] = <<>>
    BY <1>7 DEF IsRun
  <2>3. \A k \in 0 .. N : f[k] = IF k = 0 THEN <<>>
                                 ELSE IF regs[k].status = "active" THEN <<k>> \o f[k - 1]
                                 ELSE f[k - 1]
    BY <1>8, <2>1, <2>2
  <2> QED
    BY <2>2, <2>3
<1>10. ListActive \in L
  <2> DEFINE list[k \in 0 .. Len(regs)] ==
               IF k = 0 THEN <<>>
               ELSE IF regs[k].status = "active" THEN <<k>> \o list[k - 1]
               ELSE list[k - 1]
  <2>1. list = [k \in 0 .. Len(regs) |->
               IF k = 0 THEN <<>>
               ELSE IF regs[k].status = "active" THEN <<k>> \o list[k - 1]
               ELSE list[k - 1]]
    <3> SUFFICES \E g : g = [k \in 0 .. Len(regs) |->
               IF k = 0 THEN <<>>
               ELSE IF regs[k].status = "active" THEN <<k>> \o g[k - 1]
               ELSE g[k - 1]]
      BY Zenon
    <3> QED
      BY <1>1, <1>9
  <2>2. ListActive = list[Len(regs)]
    BY Zenon DEF ListActive
  <2> HIDE DEF list
  <2>3. PICK P : P = {k \in 0 .. N : list[k] \in L}
    OBVIOUS
  <2>4. 0 \in P
    BY <1>1, <1>2, <2>1, <2>3
  <2>5. ASSUME NEW k \in 1 .. N, k - 1 \in P PROVE k \in P
    <3>1. k # 0 /\ k \in 0 .. Len(regs)
      BY <1>1, <1>2
    <3>2. list[k] = IF regs[k].status = "active" THEN <<k>> \o list[k - 1] ELSE list[k - 1]
      BY <2>1, <3>1
    <3> QED
      BY <1>4, <1>5, <2>3, <2>5, <3>2
  <2>6. N \in P
    <3>1. 0 .. N \subseteq P
      BY <1>2, <2>4, <2>5, UpTo, Zenon
    <3> QED
      BY <1>2, <3>1
  <2> QED
    BY <1>1, <2>2, <2>3, <2>6
<1> QED
  BY <1>1, <1>2, <1>10

-----------------------------------------------------------------------------
(* Jobs.                                                                   *)

(* Saved regressions keep service and deploy, and none becomes active.     *)
RegsGrow(S, R) ==
    /\ Len(R) <= Len(S)
    /\ \A r \in 1 .. Len(R) :
          /\ S[r].service = R[r].service /\ S[r].deploy = R[r].deploy
          /\ S[r].status = "active" => R[r].status = "active"

(* Incidents keep service and deploy. *)
IncsGrow(J, I) ==
    /\ Len(I) <= Len(J)
    /\ \A i \in 1 .. Len(I) : J[i].service = I[i].service /\ J[i].deploy = I[i].deploy

LEMMA SameGrows ==
    ASSUME NEW R \in Seq(RegType), NEW I \in Seq(IncType)
    PROVE  RegsGrow(R, R) /\ IncsGrow(I, I)
BY DEF RegsGrow, IncsGrow

LEMMA JobFrame ==
    ASSUME NEW R \in Seq(RegType), NEW S \in Seq(RegType), RegsGrow(S, R),
           NEW I \in Seq(IncType), NEW J \in Seq(IncType), IncsGrow(J, I),
           NEW j, JobOK(j, R, I)
    PROVE  JobOK(j, S, J)
<1>1. Len(R) \in Nat /\ Len(S) \in Nat /\ Len(I) \in Nat /\ Len(J) \in Nat
      /\ Len(R) <= Len(S) /\ Len(I) <= Len(J)
  BY DEF RegsGrow, IncsGrow
<1>2. /\ j \in JobType /\ j.reg \in 0 .. Len(R) /\ j.inc \in 0 .. Len(I)
      /\ \A k \in 1 .. Len(j.active) : j.active[k] \in 1 .. Len(R)
  BY DEF JobOK
<1>3. /\ j.reg \in 0 .. Len(S) /\ j.inc \in 0 .. Len(J)
      /\ \A k \in 1 .. Len(j.active) : j.active[k] \in 1 .. Len(S)
      /\ j.reg # 0 => j.reg \in 1 .. Len(R)
      /\ j.inc # 0 => j.inc \in 1 .. Len(I)
  BY <1>1, <1>2
<1>4. KeyOf(j.reg, S) = KeyOf(j.reg, R)
  BY <1>3 DEF KeyOf, RegsGrow
<1>5. /\ j.reg # 0 => /\ S[j.reg].service = R[j.reg].service
                      /\ S[j.reg].status = "active" => R[j.reg].status = "active"
      /\ j.inc # 0 => J[j.inc].service = I[j.inc].service /\ J[j.inc].deploy = I[j.inc].deploy
  BY <1>3 DEF RegsGrow, IncsGrow
<1> QED
  BY <1>2, <1>3, <1>4, <1>5 DEF JobOK

LEMMA IdleIs ==
    ASSUME NEW R \in Seq(RegType), NEW I \in Seq(IncType)
    PROVE  /\ JobOK(Idle, R, I)
           /\ Idle.at = "idle" /\ Idle.reg = 0 /\ Idle.at \notin Writing
<1>1. /\ Idle.at = "idle" /\ Idle.back = "idle" /\ Idle.left = {} /\ Idle.todo = <<>>
      /\ Idle.active = <<>> /\ Idle.start = 0 /\ Idle.reg = 0 /\ Idle.svc = NoService
      /\ Idle.inc = 0 /\ Idle.copy = NoIncident
  BY DEF Idle
<1>2. Idle \in JobType
  <2>1. <<>> \in Seq(Found) /\ <<>> \in Seq(Nat) /\ 0 \in 0 .. MaxTime
    BY AlertParametersAssumption
  <2> QED
    BY <2>1 DEF Idle, JobType, Backs
<1>3. NoService \notin Services /\ Idle.at \notin Writing /\ Idle.at \notin Holding
  BY <1>1, AlertParametersAssumption DEF Writing, Holding
<1>4. Len(R) \in Nat /\ Len(I) \in Nat /\ Len(<<>>) = 0
  OBVIOUS
<1> QED
  BY <1>1, <1>2, <1>3, <1>4 DEF JobOK

(* A handler that returns is no longer at work on its alert. *)
LEMMA ReturnIs ==
    ASSUME NEW R \in Seq(RegType), NEW I \in Seq(IncType), NEW j, JobOK(j, R, I)
    PROVE  /\ JobOK(Return(j), R, I)
           /\ Return(j).at \notin Writing /\ Return(j).reg = 0
           /\ Return(j).svc \notin Services
<1>1. PICK r : r = Return(j)
  OBVIOUS
<1>2. j \in JobType
  BY DEF JobOK
<1>3. /\ r \in JobType
      /\ r.at = IF j.todo # <<>> THEN "save" ELSE j.back
      /\ r.todo = j.todo /\ r.active = j.active
      /\ r.reg = 0 /\ r.svc = NoService /\ r.inc = 0
  <2>1. j.back \in Backs
    BY <1>2 DEF JobType
  <2> QED
    BY <1>1, <1>2, <2>1 DEF Return, JobType
<1>4. r.at \notin Writing /\ r.at \notin Holding /\ NoService \notin Services
  <2>1. j.back \in Backs
    BY <1>2 DEF JobType
  <2> QED
    BY <1>3, <2>1, AlertParametersAssumption DEF Writing, Holding, Backs
<1>5. JobOK(r, R, I)
  <2>1. Len(R) \in Nat /\ Len(I) \in Nat
    OBVIOUS
  <2>2. \A k \in 1 .. Len(r.active) : r.active[k] \in 1 .. Len(R)
    BY <1>3 DEF JobOK
  <2>3. r.at = "save" => r.todo # <<>>
    <3>1. j.back # "save"
      BY <1>2 DEF JobType, Backs
    <3> QED
      BY <1>3, <3>1
  <2>4. r.at \notin {"findAny", "check", "close", "merge"}
    BY <1>4 DEF Writing
  <2> QED
    BY <1>3, <1>4, <2>1, <2>2, <2>3, <2>4 DEF JobOK
<1> QED
  BY <1>1, <1>3, <1>4, <1>5

LEMMA ProceedIs ==
    ASSUME job \in [Workers -> JobType], NEW w \in Workers, NEW j, Proceed(w, j)
    PROVE  /\ job'[w] = j /\ DOMAIN job' = Workers
           /\ \A v \in Workers : v # w => job'[v] = job[v]
           /\ crowded \subseteq crowded'
           /\ crowded \subseteq Services => crowded' \subseteq Services
           /\ \A s \in Services \ crowded' : Serves(j, s) =>
                 \A v \in Workers : v # w => ~ Serves(job[v], s)
BY DEF Proceed

LEMMA TimersFrame ==
    ASSUME TimersOK, job \in [Workers -> JobType], NEW w \in Workers, NEW j, Proceed(w, j),
           timer' = timer, deployed' = deployed, pending' = pending,
           w \notin Evaluations \/ job[w].at # "idle"
    PROVE  TimersOK'
<1>1. ASSUME NEW e \in Evaluations, timer[e] # "fired"
      PROVE  job'[e] = Idle
  <2>1. job[e] = Idle
    BY <1>1 DEF TimersOK
  <2>2. e # w /\ e \in Workers
    BY <2>1 DEF Idle, Workers
  <2> QED
    BY <2>1, <2>2, ProceedIs
<1> QED
  BY <1>1 DEF TimersOK

(* A step of one goroutine. *)
LEMMA TypeProceed ==
    ASSUME TypeInv, NEW w \in Workers, NEW j, Proceed(w, j),
           regs' \in Seq(RegType), RegsGrow(regs', regs),
           incs' \in Seq(IncType), IncsGrow(incs', incs),
           JobOK(j, regs', incs'), FieldsOK', TimersOK'
    PROVE  TypeInv'
<1>1. job \in [Workers -> JobType] /\ regs \in Seq(RegType) /\ incs \in Seq(IncType)
  BY DEF TypeInv
<1>2. \A v \in Workers : JobOK(job'[v], regs', incs')
  <2>1. ASSUME NEW v \in Workers PROVE JobOK(job'[v], regs', incs')
    <3>1. CASE v = w
      BY <1>1, <3>1, ProceedIs
    <3>2. CASE v # w
      <4>1. JobOK(job[v], regs, incs)
        BY DEF TypeInv
      <4>2. job'[v] = job[v]
        BY <1>1, <3>2, ProceedIs
      <4> QED
        BY <1>1, <4>1, <4>2, JobFrame
    <3> QED
      BY <3>1, <3>2
  <2> QED
    BY <2>1
<1>3. job' \in [Workers -> JobType]
  <2>1. \A v \in Workers : job'[v] \in JobType
    BY <1>2 DEF JobOK
  <2>2. job' = [job EXCEPT ![w] = j]
    BY DEF Proceed
  <2> QED
    BY <1>1, <2>1, <2>2
<1> QED
  BY <1>2, <1>3 DEF TypeInv

-----------------------------------------------------------------------------
(* What a step does to the stores and to the jobs.                         *)

(* A handler leaves without having written. *)
Leaves(j, n) ==
    n.at \notin Writing /\ (j.at \in Writing => j.at \in {"findAny", "check"})

(* A handler starts for a regression, which is saved or resolved, or for a *)
(* breach, or for an administrator.                                        *)
Starts(j, n) ==
    /\ j.at \notin Writing
    /\ \/ n.at = "find" /\ regs' = regs
       \/ /\ n.at = "find" /\ Len(regs') = Len(regs) + 1
          /\ \A r \in 1 .. Len(regs) : regs'[r] = regs[r]
          /\ n.reg = Len(regs) + 1 /\ n.svc = regs'[Len(regs) + 1].service
       \/ /\ n.at = "findAny"
          /\ \E r \in 1 .. Len(regs) : regs' = UpdateStatus(r, "resolved")
       \/ n.at \in {"acknowledge", "resolveById"} /\ n.copy = incs[n.inc] /\ regs' = regs

(* A handler goes on. *)
GoesOn(j, n) ==
    /\ n.reg = j.reg /\ n.svc = j.svc
    /\ \/ /\ j.at = "find" /\ n.at = "create"
          /\ FindActiveByKey(j.svc, DeployOf(j), horizon) = {}
       \/ /\ j.at = "find" /\ n.at = "merge"
          /\ n.inc \in FindActiveByKey(j.svc, DeployOf(j), horizon)
          /\ n.copy = incs[n.inc]
       \/ j.at = "findAny" /\ n.at = "check" /\ n.copy = incs[n.inc]
       \/ /\ j.at = "check" /\ n.at = "close"
          /\ n.inc = j.inc /\ n.copy = j.copy
          /\ ActiveForDeploy(DeployOf(j)) = {}

(* A step of w that writes no incident. *)
Moves(w) ==
    /\ Proceed(w, job'[w])
    /\ UNCHANGED <<incs, handled, byHand, horizon>>
    /\ \/ Starts(job[w], job'[w])
       \/ regs' = regs /\ (Leaves(job[w], job'[w]) \/ GoesOn(job[w], job'[w]))

(* A step of nobody: time, traffic, deploys, Stop and Dismiss. *)
Outside ==
    /\ UNCHANGED <<incs, job, handled, byHand, crowded>>
    /\ horizon <= horizon'
    /\ \/ regs' = regs
       \/ \E r \in 1 .. Len(regs) : regs' = UpdateStatus(r, "dismissed")

(* A step that leaves the stores, the clock and the engine as they are. *)
LEMMA TypeMove ==
    ASSUME TypeInv, NEW w \in Workers, NEW j, Proceed(w, j), JobOK(j, regs, incs),
           Starts(job[w], j) \/ Leaves(job[w], j) \/ GoesOn(job[w], j),
           regs' = regs, incs' = incs, handled' = handled, byHand' = byHand,
           UNCHANGED <<envVars, engineVars>>,
           w \notin Evaluations \/ job[w].at # "idle"
    PROVE  TypeInv' /\ Moves(w)
<1>1. /\ job \in [Workers -> JobType] /\ regs \in Seq(RegType) /\ incs \in Seq(IncType)
      /\ FieldsOK /\ TimersOK
  BY DEF TypeInv
<1>2. FieldsOK'
  BY <1>1, ProceedIs DEF FieldsOK, envVars, engineVars
<1>3. TimersOK'
  BY <1>1, TimersFrame DEF engineVars
<1>4. TypeInv'
  BY <1>1, <1>2, <1>3, SameGrows, TypeProceed
<1>5. job'[w] = j
  BY <1>1, ProceedIs
<1> QED
  BY <1>4, <1>5 DEF Moves, envVars

-----------------------------------------------------------------------------
(* The actions keep the types.                                             *)

LEMMA TypeFacts ==
    ASSUME TypeInv
    PROVE  /\ job \in [Workers -> JobType] /\ regs \in Seq(RegType) /\ incs \in Seq(IncType)
           /\ \A w \in Workers : JobOK(job[w], regs, incs) /\ job[w] \in JobType
           /\ ScanLoop \in Workers /\ SLOEngine \in Workers /\ AdminAPI \in Workers
           /\ Evaluations \subseteq Workers
           /\ ScanLoop \notin Evaluations /\ SLOEngine \notin Evaluations
           /\ AdminAPI \notin Evaluations
           /\ clock \in 0 .. MaxTime /\ horizon \in Int /\ FieldsOK /\ TimersOK
           /\ Len(regs) \in Nat /\ Len(incs) \in Nat
           /\ RegsGrow(regs, regs) /\ IncsGrow(incs, incs)
<1>1. /\ job \in [Workers -> JobType] /\ regs \in Seq(RegType) /\ incs \in Seq(IncType)
      /\ FieldsOK /\ TimersOK /\ \A w \in Workers : JobOK(job[w], regs, incs)
  BY DEF TypeInv
<1>2. clock \in 0 .. MaxTime /\ horizon \in Int
  BY <1>1 DEF FieldsOK
<1> QED
  BY <1>1, <1>2, SameGrows, AlertParametersAssumption DEF Workers

(* The scan is never at a handler's place while it looks for detections. *)
LEMMA NotWriting ==
    \A x \in Backs \cup {"save"} : x \notin Writing /\ x \notin Holding
BY DEF Backs, Writing, Holding

LEMMA ScanTickMoves ==
    ASSUME TypeInv, ScanTick
    PROVE  TypeInv' /\ Moves(ScanLoop)
<1>1. PICK n : n = [Idle EXCEPT !.at = "scan", !.back = "scan",
                               !.left = Services, !.start = clock]
  OBVIOUS
<1>2. JobOK(n, regs, incs) /\ n.at = "scan"
  <2>1. JobOK(Idle, regs, incs) /\ Idle.at \notin Writing /\ clock \in 0 .. MaxTime
    BY TypeFacts, IdleIs
  <2>2. Idle \in JobType
    BY <2>1 DEF JobOK
  <2>3. n \in JobType
    BY <1>1, <2>1, <2>2 DEF JobType, Backs
  <2>4. /\ n.at = "scan" /\ n.todo = Idle.todo /\ n.active = Idle.active
        /\ n.reg = Idle.reg /\ n.inc = Idle.inc /\ n.svc = Idle.svc
    BY <1>1, <2>2 DEF JobType
  <2> QED
    BY <2>1, <2>3, <2>4, NotWriting DEF JobOK, Backs, Holding
<1>3. Proceed(ScanLoop, n)
  BY <1>1 DEF ScanTick
<1>4. Leaves(job[ScanLoop], n)
  BY <1>2, NotWriting, IdleIs, TypeFacts DEF ScanTick, Leaves, Backs
<1> QED
  BY <1>2, <1>3, <1>4, TypeFacts, TypeMove DEF ScanTick

(* A job away from a handler's place may change what it is going to do. *)
LEMMA JobGoesOn ==
    ASSUME NEW R \in Seq(RegType), NEW I \in Seq(IncType),
           NEW j, JobOK(j, R, I), j.at \in Backs, NEW n \in JobType,
           n.at \in Backs, n.reg = j.reg, n.inc = j.inc, n.svc = j.svc,
           \A k \in 1 .. Len(n.active) : n.active[k] \in 1 .. Len(R)
    PROVE  JobOK(n, R, I)
BY NotWriting DEF JobOK, Backs, Holding

LEMMA ScanServiceMoves ==
    ASSUME TypeInv, NEW s \in Services, ScanService(s)
    PROVE  TypeInv' /\ Moves(ScanLoop)
<1>1. PICK j : j = job[ScanLoop]
  OBVIOUS
<1>2. PICK D \in Detections(s, NoDeploy) :
        Proceed(ScanLoop, Return([j EXCEPT !.left = j.left \ {s}, !.todo = SetToSeq(D)]))
  BY <1>1 DEF ScanService
<1>3. PICK n : n = [j EXCEPT !.left = j.left \ {s}, !.todo = SetToSeq(D)]
  OBVIOUS
<1>4. JobOK(j, regs, incs) /\ j \in JobType /\ j.at = "scan"
  BY <1>1, TypeFacts DEF ScanService
<1>5. SetToSeq(D) \in Seq(Found)
  <2>1. NoDeploy \in DeployIDs
    BY DEF DeployIDs
  <2>2. IsFiniteSet(D) /\ D \subseteq Found
    BY <2>1, TypeFacts, DetectionsAre
  <2>3. SetToSeq(D) \in Seq(D)
    BY <2>2, SetToSeqIs
  <2> QED
    BY <2>2, <2>3
<1>6. JobOK(n, regs, incs)
  <2>1. /\ n \in JobType /\ n.at = j.at /\ n.reg = j.reg /\ n.inc = j.inc /\ n.svc = j.svc
        /\ n.active = j.active
    BY <1>3, <1>4, <1>5 DEF JobType
  <2>2. \A k \in 1 .. Len(j.active) : j.active[k] \in 1 .. Len(regs)
    BY <1>4 DEF JobOK
  <2> QED
    BY <1>4, <2>1, <2>2, TypeFacts, JobGoesOn DEF Backs
<1>7. JobOK(Return(n), regs, incs) /\ Proceed(ScanLoop, Return(n)) /\ Return(n).at \notin Writing
  BY <1>2, <1>3, <1>6, TypeFacts, ReturnIs
<1>8. Leaves(job[ScanLoop], Return(n))
  BY <1>1, <1>4, <1>7, NotWriting DEF Leaves, Backs
<1> QED
  BY <1>7, <1>8, TypeFacts, TypeMove DEF ScanService

LEMMA ScanTenantsMoves ==
    ASSUME TypeInv, NEW s \in Services, ScanTenants(s)
    PROVE  TypeInv' /\ Moves(ScanLoop)
<1>1. PICK j : j = job[ScanLoop]
  OBVIOUS
<1>2. PICK c \in Confidences :
        LET r == Regression(s, NoDeploy, TenantOutlier, c, j.start, s \in degraded)
        IN  Proceed(ScanLoop, Return([j EXCEPT !.left = j.left \ {s},
               !.todo = IF s \in outliers /\ Room(1) THEN <<r>> ELSE <<>>]))
  BY <1>1 DEF ScanTenants
<1>3. PICK t : t = IF s \in outliers /\ Room(1)
                   THEN <<Regression(s, NoDeploy, TenantOutlier, c, j.start, s \in degraded)>>
                   ELSE <<>>
  OBVIOUS
<1>4. PICK n : n = [j EXCEPT !.left = j.left \ {s}, !.todo = t]
  OBVIOUS
<1>5. JobOK(j, regs, incs) /\ j \in JobType /\ j.at = "tenants"
  BY <1>1, TypeFacts DEF ScanTenants
<1>6. t \in Seq(Found)
  <2>1. NoDeploy \in DeployIDs /\ (s \in degraded) \in BOOLEAN /\ j.start \in 0 .. MaxTime
    BY <1>5 DEF DeployIDs, JobType
  <2>2. Regression(s, NoDeploy, TenantOutlier, c, j.start, s \in degraded) \in Found
    BY <2>1 DEF Regression, Found, RegType
  <2> QED
    BY <1>3, <2>2
<1>7. JobOK(n, regs, incs)
  <2>1. /\ n \in JobType /\ n.at = j.at /\ n.reg = j.reg /\ n.inc = j.inc /\ n.svc = j.svc
        /\ n.active = j.active
    BY <1>4, <1>5, <1>6 DEF JobType
  <2>2. \A k \in 1 .. Len(j.active) : j.active[k] \in 1 .. Len(regs)
    BY <1>5 DEF JobOK
  <2> QED
    BY <1>5, <2>1, <2>2, TypeFacts, JobGoesOn DEF Backs
<1>8. JobOK(Return(n), regs, incs) /\ Proceed(ScanLoop, Return(n)) /\ Return(n).at \notin Writing
  BY <1>2, <1>3, <1>4, <1>7, TypeFacts, ReturnIs
<1>9. Leaves(job[ScanLoop], Return(n))
  BY <1>1, <1>5, <1>8, NotWriting DEF Leaves, Backs
<1> QED
  BY <1>8, <1>9, TypeFacts, TypeMove DEF ScanTenants

LEMMA ScanNextMoves ==
    ASSUME TypeInv, ScanNext
    PROVE  TypeInv' /\ Moves(ScanLoop)
<1>1. PICK j : j = job[ScanLoop]
  OBVIOUS
<1>2. PICK n : n = IF j.at = "scan"
           THEN [j EXCEPT !.at = "tenants", !.back = "tenants", !.left = Outliers]
           ELSE [Idle EXCEPT !.at = "resolve", !.back = "resolve", !.active = ListActive]
  OBVIOUS
<1>3. JobOK(j, regs, incs) /\ j \in JobType /\ j.at \in {"scan", "tenants"}
  BY <1>1, TypeFacts DEF ScanNext
<1>4. JobOK(n, regs, incs) /\ n.at \in Backs
  <2>1. CASE j.at = "scan"
    <3>1. Outliers \subseteq Services
      BY AlertParametersAssumption
    <3>2. /\ n \in JobType /\ n.at = "tenants" /\ n.reg = j.reg /\ n.inc = j.inc
          /\ n.svc = j.svc /\ n.active = j.active
      BY <1>2, <1>3, <2>1, <3>1 DEF JobType, Backs
    <3>3. \A k \in 1 .. Len(j.active) : j.active[k] \in 1 .. Len(regs)
      BY <1>3 DEF JobOK
    <3> QED
      BY <1>3, <3>2, <3>3, TypeFacts, JobGoesOn DEF Backs
  <2>2. CASE j.at # "scan"
    <3>1. JobOK(Idle, regs, incs) /\ Idle.at = "idle"
      BY TypeFacts, IdleIs
    <3>2. Idle \in JobType
      BY <3>1 DEF JobOK
    <3>3. /\ ListActive \in Seq(Nat)
          /\ \A k \in 1 .. Len(ListActive) : ListActive[k] \in 1 .. Len(regs)
      BY TypeFacts, ListActiveIs
    <3>4. /\ n \in JobType /\ n.at = "resolve" /\ n.reg = Idle.reg /\ n.inc = Idle.inc
          /\ n.svc = Idle.svc /\ n.active = ListActive
      BY <1>2, <2>2, <3>2, <3>3 DEF JobType, Backs
    <3> QED
      BY <3>1, <3>3, <3>4, TypeFacts, JobGoesOn DEF Backs
  <2> QED
    BY <2>1, <2>2
<1>5. Proceed(ScanLoop, n)
  BY <1>1, <1>2 DEF ScanNext
<1>6. Leaves(job[ScanLoop], n)
  BY <1>1, <1>3, <1>4, NotWriting DEF Leaves, Backs
<1> QED
  BY <1>4, <1>5, <1>6, TypeFacts, TypeMove DEF ScanNext

LEMMA ScanEndsMoves ==
    ASSUME TypeInv, ScanEnds
    PROVE  TypeInv' /\ Moves(ScanLoop)
<1>1. JobOK(Idle, regs, incs) /\ Proceed(ScanLoop, Idle)
  BY TypeFacts, IdleIs DEF ScanEnds
<1>2. Leaves(job[ScanLoop], Idle)
  BY NotWriting, IdleIs, TypeFacts DEF ScanEnds, Leaves, Backs
<1> QED
  BY <1>1, <1>2, TypeFacts, TypeMove DEF ScanEnds

LEMMA BreachMoves ==
    ASSUME TypeInv, NEW s \in Services, Breach(s)
    PROVE  TypeInv' /\ Moves(SLOEngine)
<1>1. PICK n : n = [Idle EXCEPT !.at = "find", !.svc = s]
  OBVIOUS
<1>2. JobOK(n, regs, incs) /\ n.at = "find"
  <2>1. JobOK(Idle, regs, incs) /\ Idle.reg = 0
    BY TypeFacts, IdleIs
  <2>2. Idle \in JobType
    BY <2>1 DEF JobOK
  <2>3. n \in JobType
    BY <1>1, <2>2 DEF JobType, Writing
  <2>4. /\ n.at = "find" /\ n.svc = s /\ n.active = Idle.active /\ n.reg = Idle.reg
        /\ n.inc = Idle.inc
    BY <1>1, <2>2 DEF JobType
  <2> QED
    BY <2>1, <2>3, <2>4 DEF JobOK, Writing, Holding
<1>3. Proceed(SLOEngine, n)
  BY <1>1 DEF Breach
<1>4. Starts(job[SLOEngine], n)
  BY <1>2, IdleIs, TypeFacts DEF Starts, Breach
<1> QED
  BY <1>2, <1>3, <1>4, TypeFacts, TypeMove DEF Breach

LEMMA FindActiveByKeyIs ==
    ASSUME TypeInv, NEW s, NEW d, NEW since, NEW i \in FindActiveByKey(s, d, since)
    PROVE  /\ i \in 1 .. Len(incs) /\ incs[i] \in IncType
           /\ incs[i].status \in Open /\ incs[i].seen > since
           /\ incs[i].service = s /\ (d # NoDeploy => incs[i].deploy = d)
BY TypeFacts DEF FindActiveByKey

(* A handler that found incident i has a copy of it. *)
Finds(j, x, i) == [j EXCEPT !.at = x, !.inc = i, !.copy = incs[i]]

LEMMA FoundJob ==
    ASSUME TypeInv, NEW w \in Workers, job[w].at \in Writing,
           NEW x \in {"merge", "check"},
           x = "check" => job[w].at = "findAny",
           NEW i \in 1 .. Len(incs), incs[i].status \in Open,
           incs[i].service = job[w].svc,
           DeployOf(job[w]) # NoDeploy => incs[i].deploy = DeployOf(job[w]),
           NEW n, n = Finds(job[w], x, i)
    PROVE  /\ JobOK(n, regs, incs)
           /\ n.at = x /\ n.inc = i /\ n.copy = incs[i]
           /\ n.reg = job[w].reg /\ n.svc = job[w].svc
<1>1. PICK j : j = job[w]
  OBVIOUS
<1>2. JobOK(j, regs, incs) /\ j \in JobType /\ incs[i] \in IncType /\ Len(incs) \in Nat
  BY <1>1, TypeFacts
<1>3. PICK c : c = incs[i]
  OBVIOUS
<1>4. /\ n \in JobType /\ n.at = x /\ n.inc = i /\ n.copy = incs[i] /\ n.reg = j.reg
      /\ n.svc = j.svc /\ n.active = j.active
  <2>1. c \in IncType \cup {NoIncident} /\ i \in Nat
    BY <1>2, <1>3
  <2>2. x \in Writing
    BY DEF Writing
  <2>3. n = [j EXCEPT !.at = x, !.inc = i, !.copy = c]
    BY <1>1, <1>3 DEF Finds
  <2> HIDE <1>1, <1>3
  <2>4. PICK a : a = [j EXCEPT !.at = x]
    OBVIOUS
  <2>5. a \in JobType /\ a.at = x /\ a.reg = j.reg /\ a.svc = j.svc /\ a.active = j.active
    BY <1>2, <2>2, <2>4 DEF JobType
  <2>6. n = [a EXCEPT !.inc = i, !.copy = c]
    BY <1>2, <2>3, <2>4 DEF JobType
  <2>7. /\ n \in JobType /\ n.at = a.at /\ n.inc = i /\ n.copy = c /\ n.reg = a.reg
        /\ n.svc = a.svc /\ n.active = a.active
    BY <2>1, <2>5, <2>6 DEF JobType
  <2> QED
    BY <1>3, <2>5, <2>7
<1>5. i \in 0 .. Len(incs) /\ i # 0 /\ x \in Writing /\ x \in Holding /\ x # "save"
      /\ DeployOf(j) = KeyOf(j.reg, regs)
  BY <1>2 DEF Writing, Holding, DeployOf, KeyOf
<1>6. j.svc \in Services /\ (j.reg # 0 => regs[j.reg].service = j.svc)
  BY <1>1, <1>2 DEF JobOK
<1>7. x = "check" => j.reg # 0 /\ regs[j.reg].status # "active"
  BY <1>1, <1>2 DEF JobOK
<1>8. j.reg \in 0 .. Len(regs) /\ \A k \in 1 .. Len(j.active) : j.active[k] \in 1 .. Len(regs)
  BY <1>2 DEF JobOK
<1>9. KeyOf(j.reg, regs) # NoDeploy => incs[i].deploy = KeyOf(j.reg, regs)
  BY <1>1, <1>5
<1> QED
  BY <1>1, <1>4, <1>5, <1>6, <1>7, <1>8, <1>9 DEF JobOK

(* A handler that goes on with what it has. *)
LEMMA NextPlace ==
    ASSUME TypeInv, NEW w \in Workers, NEW x, NEW n, n = [job[w] EXCEPT !.at = x],
           \/ job[w].at = "find" /\ x = "create"
           \/ job[w].at = "check" /\ x = "close"
    PROVE  /\ JobOK(n, regs, incs)
           /\ n.at = x /\ n.inc = job[w].inc /\ n.copy = job[w].copy
           /\ n.reg = job[w].reg /\ n.svc = job[w].svc
<1>1. PICK j : j = job[w]
  OBVIOUS
<1>2. JobOK(j, regs, incs) /\ j \in JobType
  BY <1>1, TypeFacts
<1>3. n \in JobType
  BY <1>1, <1>2 DEF JobType, Writing
<1>4. /\ n.at = x /\ n.inc = j.inc /\ n.copy = j.copy /\ n.reg = j.reg /\ n.svc = j.svc
      /\ n.active = j.active
  BY <1>1, <1>2 DEF JobType
<1> QED
  BY <1>1, <1>2, <1>3, <1>4 DEF JobOK, Writing, Holding

LEMMA FindIncidentMoves ==
    ASSUME TypeInv, NEW w \in Workers, FindIncident(w)
    PROVE  TypeInv' /\ Moves(w)
<1>1. PICK j : j = job[w]
  OBVIOUS
<1>2. job[w].at \in Writing /\ job[w].at # "idle" /\ job[w].at = "find"
  BY DEF FindIncident, Writing
<1>3. PICK n : Proceed(w, n) /\ JobOK(n, regs, incs) /\ GoesOn(job[w], n)
  <2>1. CASE /\ FindActiveByKey(job[w].svc, DeployOf(job[w]), Since) = {}
             /\ Proceed(w, [job[w] EXCEPT !.at = "create"])
    <3>1. PICK m : m = [job[w] EXCEPT !.at = "create"]
      OBVIOUS
    <3>2. JobOK(m, regs, incs) /\ m.at = "create" /\ m.reg = job[w].reg /\ m.svc = job[w].svc
      BY <1>2, <3>1, NextPlace
    <3> QED
      BY <1>2, <2>1, <3>1, <3>2 DEF GoesOn, Since
  <2>2. ASSUME NEW i \in FindActiveByKey(job[w].svc, DeployOf(job[w]), Since),
               Proceed(w, [job[w] EXCEPT !.at = "merge", !.inc = i, !.copy = incs[i]])
        PROVE  \E m : Proceed(w, m) /\ JobOK(m, regs, incs) /\ GoesOn(job[w], m)
    <3>1. PICK m : m = Finds(job[w], "merge", i)
      OBVIOUS
    <3> HIDE <2>2
    <3>5. Proceed(w, m)
      BY <2>2, <3>1 DEF Finds
    <3>2. /\ i \in 1 .. Len(incs) /\ incs[i].status \in Open
          /\ incs[i].service = job[w].svc
          /\ DeployOf(job[w]) # NoDeploy => incs[i].deploy = DeployOf(job[w])
      BY <2>2, FindActiveByKeyIs
    <3>3. /\ JobOK(m, regs, incs) /\ m.at = "merge" /\ m.inc = i /\ m.copy = incs[i]
          /\ m.reg = job[w].reg /\ m.svc = job[w].svc
      BY <1>2, <3>1, <3>2, FoundJob
    <3>4. GoesOn(job[w], m)
      BY <1>2, <2>2, <3>3 DEF GoesOn, Since
    <3> QED
      BY <3>3, <3>4, <3>5
  <2> QED
    BY <2>1, <2>2 DEF FindIncident
<1> QED
  BY <1>2, <1>3, TypeFacts, TypeMove DEF FindIncident

LEMMA FindAnyMoves ==
    ASSUME TypeInv, NEW w \in Workers, FindAny(w)
    PROVE  TypeInv' /\ Moves(w)
<1>2. job[w].at \in Writing /\ job[w].at # "idle" /\ job[w].at = "findAny"
  BY DEF FindAny, Writing
<1>3. PICK n : /\ Proceed(w, n) /\ JobOK(n, regs, incs)
               /\ Leaves(job[w], n) \/ GoesOn(job[w], n)
  <2>1. CASE Proceed(w, Return(job[w]))
    BY <1>2, <2>1, TypeFacts, ReturnIs DEF Leaves
  <2>2. ASSUME NEW i \in FindActiveByKey(job[w].svc, DeployOf(job[w]), -1),
               Proceed(w, [job[w] EXCEPT !.at = "check", !.inc = i, !.copy = incs[i]])
        PROVE  \E m : Proceed(w, m) /\ JobOK(m, regs, incs) /\ GoesOn(job[w], m)
    <3>1. PICK m : m = Finds(job[w], "check", i)
      OBVIOUS
    <3> HIDE <2>2
    <3>5. Proceed(w, m)
      BY <2>2, <3>1 DEF Finds
    <3>2. /\ i \in 1 .. Len(incs) /\ incs[i].status \in Open
          /\ incs[i].service = job[w].svc
          /\ DeployOf(job[w]) # NoDeploy => incs[i].deploy = DeployOf(job[w])
      BY <2>2, FindActiveByKeyIs
    <3>3. /\ JobOK(m, regs, incs) /\ m.at = "check" /\ m.inc = i /\ m.copy = incs[i]
          /\ m.reg = job[w].reg /\ m.svc = job[w].svc
      BY <1>2, <3>1, <3>2, FoundJob
    <3>4. GoesOn(job[w], m)
      BY <1>2, <3>3 DEF GoesOn
    <3> QED
      BY <3>3, <3>4, <3>5
  <2> QED
    BY <2>1, <2>2 DEF FindAny
<1>4. /\ regs' = regs /\ incs' = incs /\ handled' = handled /\ byHand' = byHand
      /\ UNCHANGED <<envVars, engineVars>>
      /\ Starts(job[w], n) \/ Leaves(job[w], n) \/ GoesOn(job[w], n)
  BY <1>3 DEF FindAny
<1> QED
  BY <1>2, <1>3, <1>4, TypeMove

LEMMA CheckActiveMoves ==
    ASSUME TypeInv, NEW w \in Workers, CheckActive(w)
    PROVE  TypeInv' /\ Moves(w)
<1>2. job[w].at = "check" /\ job[w].at # "idle"
  BY DEF CheckActive
<1>3. PICK n : /\ Proceed(w, n) /\ JobOK(n, regs, incs)
               /\ Leaves(job[w], n) \/ GoesOn(job[w], n)
  <2>1. CASE Proceed(w, Return(job[w]))
    BY <1>2, <2>1, TypeFacts, ReturnIs DEF Leaves
  <2>2. CASE /\ ActiveForDeploy(DeployOf(job[w])) = {}
             /\ Proceed(w, [job[w] EXCEPT !.at = "close"])
    <3>1. PICK m : m = [job[w] EXCEPT !.at = "close"]
      OBVIOUS
    <3>2. /\ JobOK(m, regs, incs) /\ m.at = "close" /\ m.reg = job[w].reg /\ m.svc = job[w].svc
          /\ m.inc = job[w].inc /\ m.copy = job[w].copy
      BY <1>2, <3>1, NextPlace
    <3> QED
      BY <1>2, <2>2, <3>1, <3>2 DEF GoesOn
  <2> QED
    BY <2>1, <2>2 DEF CheckActive
<1>4. /\ regs' = regs /\ incs' = incs /\ handled' = handled /\ byHand' = byHand
      /\ UNCHANGED <<envVars, engineVars>>
      /\ Starts(job[w], n) \/ Leaves(job[w], n) \/ GoesOn(job[w], n)
  BY <1>3 DEF CheckActive
<1> QED
  BY <1>2, <1>3, <1>4, TypeMove

LEMMA AdminGetMoves ==
    ASSUME TypeInv, NEW i \in DOMAIN incs, NEW x \in {"acknowledge", "resolveById"},
           AdminGet(i, x)
    PROVE  TypeInv' /\ Moves(AdminAPI)
<1>1. PICK n : n = [Idle EXCEPT !.at = x, !.inc = i, !.svc = incs[i].service, !.copy = incs[i]]
  OBVIOUS
<1>2. JobOK(n, regs, incs) /\ n.at = x /\ n.inc = i /\ n.copy = incs[i]
  <2>1. JobOK(Idle, regs, incs) /\ Idle.reg = 0
    BY TypeFacts, IdleIs
  <2>2. Idle \in JobType /\ i \in 1 .. Len(incs) /\ Len(incs) \in Nat
    BY <2>1, TypeFacts DEF JobOK
  <2>3. PICK c : c = incs[i]
    OBVIOUS
  <2>4. c \in IncType /\ c.service \in Services
    <3>1. incs \in Seq(IncType)
      BY TypeFacts
    <3>2. c \in IncType
      BY <2>2, <2>3, <3>1, SeqIs
    <3> QED
      BY <3>2 DEF IncType
  <2>5. /\ n \in JobType /\ n.at = x /\ n.svc = c.service /\ n.active = Idle.active
        /\ n.reg = Idle.reg /\ n.inc = i /\ n.copy = c
    <3>1. n = [Idle EXCEPT !.at = x, !.inc = i, !.svc = c.service, !.copy = c]
      BY <1>1, <2>3
    <3> HIDE <1>1, <2>3
    <3>2. PICK a : a = [Idle EXCEPT !.at = x, !.inc = i]
      OBVIOUS
    <3>3. a \in JobType /\ a.at = x /\ a.inc = i /\ a.reg = Idle.reg /\ a.active = Idle.active
      <4>1. x \in Writing /\ i \in Nat
        BY <2>2 DEF Writing
      <4>2. Idle \in JobType
        BY <2>2
      <4> QED
        BY <3>2, <4>1, <4>2 DEF JobType
    <3>4. n = [a EXCEPT !.svc = c.service, !.copy = c]
      BY <2>2, <3>1, <3>2 DEF JobType
    <3>5. /\ n \in JobType /\ n.at = a.at /\ n.inc = a.inc /\ n.copy = c /\ n.reg = a.reg
          /\ n.svc = c.service /\ n.active = a.active
      BY <2>4, <3>3, <3>4 DEF JobType
    <3> QED
      BY <3>3, <3>5
  <2> QED
    BY <2>1, <2>2, <2>3, <2>4, <2>5 DEF JobOK, Writing, Holding
<1>3. Proceed(AdminAPI, n)
  BY <1>1 DEF AdminGet
<1>4. Starts(job[AdminAPI], n)
  BY <1>2, IdleIs, TypeFacts DEF Starts, AdminGet
<1> QED
  BY <1>2, <1>3, <1>4, TypeFacts, TypeMove DEF AdminGet

LEMMA EvaluateDeployMoves ==
    ASSUME TypeInv, NEW e \in Evaluations, EvaluateDeploy(e)
    PROVE  TypeInv' /\ Moves(e)
<1>1. PICK d : d = Evaluates[e]
  OBVIOUS
<1>2. d \in DeployIDs /\ DeployService[d] \in Services /\ e \in Workers
  BY <1>1, AlertParametersAssumption DEF DeployIDs, Workers
<1>3. PICK D \in Detections(DeployService[d], d) :
        Proceed(e, Return([Idle EXCEPT !.todo = SetToSeq(Kept(D))]))
  BY <1>1 DEF EvaluateDeploy
<1>4. PICK n : n = [Idle EXCEPT !.todo = SetToSeq(Kept(D))]
  OBVIOUS
<1>5. SetToSeq(Kept(D)) \in Seq(Found)
  <2>1. IsFiniteSet(D) /\ D \subseteq Found
    BY <1>2, TypeFacts, DetectionsAre
  <2>2. Kept(D) \subseteq D
    BY DEF Kept
  <2>3. IsFiniteSet(Kept(D))
    BY <2>1, <2>2, FS_Subset
  <2>4. SetToSeq(Kept(D)) \in Seq(Kept(D))
    BY <2>3, SetToSeqIs
  <2> QED
    BY <2>1, <2>2, <2>4
<1>6. JobOK(n, regs, incs)
  <2>1. JobOK(Idle, regs, incs) /\ Idle.at \in Backs
    BY TypeFacts, IdleIs DEF Backs
  <2>2. Idle \in JobType
    BY <2>1 DEF JobOK
  <2>3. /\ n \in JobType /\ n.at = Idle.at /\ n.reg = Idle.reg /\ n.inc = Idle.inc
        /\ n.svc = Idle.svc /\ n.active = Idle.active
    BY <1>4, <1>5, <2>2 DEF JobType
  <2>4. \A k \in 1 .. Len(Idle.active) : Idle.active[k] \in 1 .. Len(regs)
    BY <2>1 DEF JobOK
  <2> QED
    BY <2>1, <2>3, <2>4, TypeFacts, JobGoesOn
<1>7. JobOK(Return(n), regs, incs) /\ Proceed(e, Return(n)) /\ Return(n).at \notin Writing
  BY <1>3, <1>4, <1>6, TypeFacts, ReturnIs
<1>8. FieldsOK'
  BY <1>2, <1>7, TypeFacts, ProceedIs DEF FieldsOK, EvaluateDeploy, envVars
<1>9. TimersOK'
  <2>1. \A v \in Workers : v # e => job'[v] = job[v]
    BY <1>2, <1>7, TypeFacts, ProceedIs
  <2>2. timer' = [timer EXCEPT ![e] = "fired"] /\ deployed' = deployed /\ pending' = pending
        /\ timer[e] = "set"
    BY DEF EvaluateDeploy
  <2>3. \A x \in Evaluations : x \in Workers
    BY DEF Workers
  <2>4. TimersOK
    BY TypeFacts
  <2>5. \A x \in Evaluations : timer'[x] = IF x = e THEN "fired" ELSE timer[x]
    BY <2>2, <2>4 DEF TimersOK
  <2>6. timer' \in [Evaluations -> {"unset", "set", "fired"}]
    BY <2>2, <2>4 DEF TimersOK
  <2>7. ASSUME NEW x \in Evaluations
        PROVE  /\ Evaluates[x] \notin deployed' => timer'[x] = "unset"
               /\ \A k \in 1 .. Len(pending') : Evaluates[x] = pending'[k] => timer'[x] = "unset"
               /\ timer'[x] # "fired" => job'[x] = Idle
    BY <2>1, <2>2, <2>3, <2>4, <2>5 DEF TimersOK
  <2> QED
    BY <2>2, <2>4, <2>6, <2>7 DEF TimersOK
<1>10. regs' = regs /\ incs' = incs
  BY DEF EvaluateDeploy
<1>11. Moves(e)
  <2>1. job[e] = Idle
    BY TypeFacts DEF EvaluateDeploy, TimersOK
  <2>2. Leaves(job[e], Return(n))
    BY <1>7, <2>1, TypeFacts, IdleIs DEF Leaves
  <2>3. job'[e] = Return(n)
    BY <1>2, <1>7, TypeFacts, ProceedIs
  <2> QED
    BY <1>7, <1>10, <2>2, <2>3 DEF Moves, EvaluateDeploy, envVars
<1> QED
  BY <1>2, <1>7, <1>8, <1>9, <1>10, <1>11, TypeFacts, TypeProceed

-----------------------------------------------------------------------------
(* The actions that write a store.                                         *)

(* A copy is that of an incident of the store, with its service and deploy. *)
LEMMA CopyIs ==
    ASSUME TypeInv, NEW w \in Workers, job[w].at \in Holding
    PROVE  /\ job[w].copy \in IncType /\ job[w].inc \in 1 .. Len(incs)
           /\ job[w].svc \in Services
           /\ job[w].copy.service = job[w].svc
           /\ job[w].copy.service = incs[job[w].inc].service
           /\ job[w].copy.deploy = incs[job[w].inc].deploy
<1>1. JobOK(job[w], regs, incs) /\ job[w] \in JobType /\ Len(incs) \in Nat
  BY TypeFacts
<1>2. job[w].at \in Writing
  BY DEF Holding, Writing
<1>3. /\ job[w].inc \in 1 .. Len(incs) /\ job[w].svc \in Services
      /\ job[w].copy.service = job[w].svc
      /\ job[w].copy.service = incs[job[w].inc].service
      /\ job[w].copy.deploy = incs[job[w].inc].deploy
  BY <1>1, <1>2 DEF JobOK
<1>4. job[w].copy # NoIncident
  BY <1>3, AlertParametersAssumption DEF NoIncident
<1>5. job[w].copy \in IncType
  BY <1>1, <1>4 DEF JobType
<1> QED
  BY <1>3, <1>5

(* Incident i replaced by c. *)
LEMMA WriteIs ==
    ASSUME NEW I \in Seq(IncType), NEW i \in 1 .. Len(I), NEW c \in IncType,
           c.service = I[i].service, c.deploy = I[i].deploy
    PROVE  /\ [I EXCEPT ![i] = c] \in Seq(IncType)
           /\ Len([I EXCEPT ![i] = c]) = Len(I)
           /\ IncsGrow([I EXCEPT ![i] = c], I)
           /\ [I EXCEPT ![i] = c][i] = c
           /\ \A k \in 1 .. Len(I) : k # i => [I EXCEPT ![i] = c][k] = I[k]
<1> DEFINE J == [I EXCEPT ![i] = c]
<1>1. /\ J \in Seq(IncType) /\ Len(J) = Len(I)
      /\ \A k \in 1 .. Len(I) : J[k] = IF k = i THEN c ELSE I[k]
  BY ReplaceIs
<1>2. Len(I) \in Nat
  OBVIOUS
<1> HIDE DEF J
<1>3. IncsGrow(J, I) /\ J[i] = c /\ \A k \in 1 .. Len(I) : k # i => J[k] = I[k]
  BY <1>1, <1>2 DEF IncsGrow
<1> QED
  BY <1>1, <1>3 DEF J

LEMMA StampIs ==
    ASSUME TypeInv, NEW w \in Workers
    PROVE  Stamp(job[w]) \in 0 .. MaxTime
<1>1. JobOK(job[w], regs, incs) /\ regs \in Seq(RegType) /\ clock \in 0 .. MaxTime
      /\ Len(regs) \in Nat
  BY TypeFacts
<1>2. job[w].reg \in 0 .. Len(regs)
  BY <1>1 DEF JobOK
<1>3. CASE job[w].reg = 0
  BY <1>1, <1>3 DEF Stamp
<1>4. CASE job[w].reg # 0
  <2>1. job[w].reg \in 1 .. Len(regs)
    BY <1>1, <1>2, <1>4
  <2>2. regs[job[w].reg] \in RegType
    BY <1>1, <2>1, SeqIs
  <2> QED
    BY <1>4, <2>2 DEF Stamp, RegType
<1> QED
  BY <1>3, <1>4

LEMMA MergedIs ==
    ASSUME TypeInv, NEW w \in Workers, job[w].at = "merge"
    PROVE  /\ Merged(job[w]) \in IncType
           /\ Merged(job[w]).service = job[w].copy.service
           /\ Merged(job[w]).deploy = job[w].copy.deploy
           /\ Merged(job[w]).status = job[w].copy.status
           /\ Merged(job[w]).alerts = job[w].copy.alerts + 1
           /\ Merged(job[w]).seen = Stamp(job[w])
           /\ job[w].copy.status \in Open
<1>1. job[w].copy \in IncType /\ Stamp(job[w]) \in 0 .. MaxTime /\ JobOK(job[w], regs, incs)
  BY CopyIs, StampIs, TypeFacts DEF Holding
<1>2. PICK c, t : c = job[w].copy /\ t = Stamp(job[w])
  OBVIOUS
<1>3. Merged(job[w]) = [c EXCEPT !.seen = t, !.alerts = c.alerts + 1]
  BY <1>2 DEF Merged
<1>4. c.alerts + 1 \in Nat \ {0} /\ c \in IncType /\ t \in 0 .. MaxTime
  BY <1>1, <1>2 DEF IncType
<1> HIDE <1>2
<1>5. /\ Merged(job[w]) \in IncType
      /\ Merged(job[w]).service = c.service /\ Merged(job[w]).deploy = c.deploy
      /\ Merged(job[w]).status = c.status
      /\ Merged(job[w]).alerts = c.alerts + 1 /\ Merged(job[w]).seen = t
  BY <1>3, <1>4 DEF IncType
<1> QED
  BY <1>1, <1>2, <1>5 DEF JobOK

LEMMA RestatedIs ==
    ASSUME NEW c \in IncType, NEW status \in Open \cup {"resolved"},
           NEW d, d = [c EXCEPT !.status = status]
    PROVE  /\ d \in IncType /\ d.service = c.service /\ d.deploy = c.deploy
           /\ d.status = status /\ d.alerts = c.alerts /\ d.seen = c.seen
BY DEF IncType

(* The incident of a handler that found none. *)
Created(j) == [service |-> j.svc, deploy |-> DeployOf(j), status |-> "active",
               alerts |-> 1, seen |-> Stamp(j)]

LEMMA KeyIs ==
    ASSUME TypeInv, NEW w \in Workers
    PROVE  DeployOf(job[w]) \in DeployIDs /\ DeployOf(job[w]) = KeyOf(job[w].reg, regs)
<1>1. JobOK(job[w], regs, incs) /\ regs \in Seq(RegType) /\ Len(regs) \in Nat
  BY TypeFacts
<1>2. job[w].reg \in 0 .. Len(regs)
  BY <1>1 DEF JobOK
<1>3. CASE job[w].reg = 0
  BY <1>3 DEF DeployOf, KeyOf, DeployIDs
<1>4. CASE job[w].reg # 0
  <2>1. job[w].reg \in 1 .. Len(regs)
    BY <1>1, <1>2, <1>4
  <2>2. regs[job[w].reg] \in RegType
    BY <1>1, <2>1, SeqIs
  <2> QED
    BY <1>4, <2>2 DEF DeployOf, KeyOf, RegType
<1> QED
  BY <1>3, <1>4

LEMMA CreatedIs ==
    ASSUME TypeInv, NEW w \in Workers, job[w].at = "create"
    PROVE  Created(job[w]) \in IncType /\ job[w].svc \in Services
<1>1. JobOK(job[w], regs, incs)
  BY TypeFacts
<1>2. job[w].svc \in Services
  BY <1>1 DEF JobOK, Writing
<1>3. "active" \in Open /\ 1 \in Nat \ {0}
  BY DEF Open
<1>4. Stamp(job[w]) \in 0 .. MaxTime /\ DeployOf(job[w]) \in DeployIDs
  BY StampIs, KeyIs
<1> QED
  BY <1>2, <1>3, <1>4 DEF Created, IncType

(* A step that writes a store. *)
LEMMA TypeWrite ==
    ASSUME TypeInv, NEW w \in Workers, NEW j, Proceed(w, j), JobOK(j, regs', incs'),
           regs' \in Seq(RegType), RegsGrow(regs', regs),
           incs' \in Seq(IncType), IncsGrow(incs', incs),
           handled' \in [Services -> Nat], byHand' \subseteq Services,
           UNCHANGED <<envVars, engineVars>>,
           w \notin Evaluations \/ job[w].at # "idle"
    PROVE  TypeInv'
<1>1. FieldsOK'
  BY TypeFacts, ProceedIs DEF FieldsOK, envVars, engineVars
<1>2. TimersOK'
  BY TypeFacts, TimersFrame DEF engineVars
<1> QED
  BY <1>1, <1>2, TypeProceed

LEMMA HandledIs ==
    ASSUME NEW h \in [Services -> Nat], NEW s \in Services,
           NEW g, g = [h EXCEPT ![s] = @ + 1]
    PROVE  /\ g \in [Services -> Nat] /\ g[s] = h[s] + 1
           /\ \A t \in Services : t # s => g[t] = h[t]
OBVIOUS

(* The write of a handler, which then returns. *)
LEMMA TypeWriteReturn ==
    ASSUME TypeInv, NEW w \in Workers, Proceed(w, Return(job[w])),
           job[w].at # "idle", regs' = regs,
           incs' \in Seq(IncType), IncsGrow(incs', incs),
           handled' \in [Services -> Nat], byHand' = byHand,
           UNCHANGED <<envVars, engineVars>>
    PROVE  TypeInv'
<1>1. JobOK(Return(job[w]), regs, incs) /\ regs \in Seq(RegType) /\ incs \in Seq(IncType)
      /\ RegsGrow(regs, regs)
  BY TypeFacts, ReturnIs
<1>2. JobOK(Return(job[w]), regs, incs')
  BY <1>1, JobFrame
<1>3. byHand \subseteq Services
  BY TypeFacts DEF FieldsOK
<1> QED
  BY <1>1, <1>2, <1>3, TypeWrite

LEMMA SaveIs ==
    ASSUME TypeInv, NEW w \in Workers, Save(w)
    PROVE  /\ regs' \in Seq(RegType) /\ Len(regs') = Len(regs) + 1 /\ RegsGrow(regs', regs)
           /\ \A r \in 1 .. Len(regs) : regs'[r] = regs[r]
           /\ regs'[Len(regs) + 1] \in RegType
           /\ job'[w].at = "find" /\ job'[w].reg = Len(regs) + 1
           /\ job'[w].svc = regs'[Len(regs) + 1].service
           /\ job'[w].svc \in Services
           /\ Proceed(w, job'[w]) /\ Starts(job[w], job'[w])
           /\ JobOK(job'[w], regs', incs)
<1>1. PICK j, x : j = job[w] /\ x = Head(j.todo)
  OBVIOUS
<1>2. JobOK(j, regs, incs) /\ j \in JobType /\ regs \in Seq(RegType) /\ Len(regs) \in Nat
      /\ incs \in Seq(IncType) /\ Len(incs) \in Nat
  BY <1>1, TypeFacts
<1>3. j.todo \in Seq(Found) /\ j.todo # <<>>
  BY <1>1, <1>2 DEF Save, JobType, JobOK
<1>4. x \in Found /\ Tail(j.todo) \in Seq(Found) /\ x \in RegType /\ x.service \in Services
  <2>1. x \in Found /\ Tail(j.todo) \in Seq(Found)
    BY <1>1, <1>3, TailIs
  <2> QED
    BY <2>1 DEF Found, RegType
<1>5. regs' = Append(regs, x)
  BY <1>1 DEF Save
<1>6. /\ regs' \in Seq(RegType) /\ Len(regs') = Len(regs) + 1
      /\ \A r \in 1 .. Len(regs) : regs'[r] = regs[r]
      /\ regs'[Len(regs) + 1] = x
  BY <1>2, <1>4, <1>5, AppendIs
<1>7. RegsGrow(regs', regs)
  BY <1>2, <1>6 DEF RegsGrow
<1>8. PICK n : n = [j EXCEPT !.at = "find", !.todo = Tail(j.todo), !.reg = Len(regs) + 1,
                             !.svc = x.service]
  OBVIOUS
<1>9. Proceed(w, n) /\ job'[w] = n
  <2>1. Proceed(w, n)
    BY <1>1, <1>8 DEF Save
  <2> QED
    BY <2>1, TypeFacts, ProceedIs
<1>10. /\ n \in JobType /\ n.at = "find" /\ n.todo = Tail(j.todo) /\ n.reg = Len(regs) + 1
       /\ n.svc = x.service /\ n.inc = j.inc /\ n.active = j.active
  <2>1. PICK a : a = [j EXCEPT !.at = "find", !.todo = Tail(j.todo)]
    OBVIOUS
  <2>2. /\ a \in JobType /\ a.at = "find" /\ a.todo = Tail(j.todo) /\ a.inc = j.inc
        /\ a.active = j.active
    BY <1>2, <1>4, <2>1 DEF JobType, Writing
  <2>3. n = [a EXCEPT !.reg = Len(regs) + 1, !.svc = x.service]
    BY <1>2, <1>8, <2>1 DEF JobType
  <2>4. Len(regs) + 1 \in Nat
    BY <1>2
  <2> HIDE <2>1
  <2>5. /\ n \in JobType /\ n.at = a.at /\ n.todo = a.todo /\ n.reg = Len(regs) + 1
        /\ n.svc = x.service /\ n.inc = a.inc /\ n.active = a.active
    BY <1>4, <2>2, <2>3, <2>4 DEF JobType
  <2> QED
    BY <2>2, <2>5
<1>11. JobOK(n, regs', incs)
  <2>1. j.inc \in 0 .. Len(incs) /\ \A k \in 1 .. Len(j.active) : j.active[k] \in 1 .. Len(regs)
    BY <1>2 DEF JobOK
  <2>2. n.reg \in 0 .. Len(regs') /\ \A k \in 1 .. Len(n.active) : n.active[k] \in 1 .. Len(regs')
    BY <1>2, <1>6, <1>10, <2>1
  <2>3. regs'[n.reg].service = n.svc
    BY <1>6, <1>10
  <2> QED
    BY <1>4, <1>10, <2>1, <2>2, <2>3 DEF JobOK, Writing, Holding
<1>12. Starts(j, n)
  BY <1>1, <1>6, <1>10, NotWriting DEF Starts, Save
<1> QED
  BY <1>1, <1>4, <1>6, <1>7, <1>9, <1>10, <1>11, <1>12

LEMMA SaveMoves ==
    ASSUME TypeInv, NEW w \in Workers, Save(w)
    PROVE  TypeInv' /\ Moves(w)
<1>1. /\ incs' = incs /\ handled' = handled /\ byHand' = byHand
      /\ UNCHANGED <<envVars, engineVars>> /\ job[w].at # "idle"
  BY DEF Save
<1>2. handled \in [Services -> Nat] /\ byHand \subseteq Services
  BY TypeFacts DEF FieldsOK
<1>3. Moves(w)
  BY <1>1, SaveIs DEF Moves, envVars
<1> QED
  BY <1>1, <1>2, <1>3, SaveIs, TypeFacts, TypeWrite

LEMMA MergeIs ==
    ASSUME TypeInv, NEW w \in Workers, Merge(w)
    PROVE  /\ job[w].at = "merge" /\ job[w].at \in Holding
           /\ Proceed(w, Return(job[w]))
           /\ incs' \in Seq(IncType) /\ Len(incs') = Len(incs) /\ IncsGrow(incs', incs)
           /\ incs'[job[w].inc] = Merged(job[w])
           /\ \A k \in 1 .. Len(incs) : k # job[w].inc => incs'[k] = incs[k]
           /\ handled' \in [Services -> Nat]
           /\ handled'[job[w].svc] = handled[job[w].svc] + 1
           /\ \A s \in Services : s # job[w].svc => handled'[s] = handled[s]
           /\ regs' = regs /\ byHand' = byHand /\ UNCHANGED <<envVars, engineVars>>
<1>1. /\ job[w].at = "merge" /\ job[w].at \in Holding /\ Proceed(w, Return(job[w]))
      /\ incs' = [incs EXCEPT ![job[w].inc] = Merged(job[w])]
      /\ handled' = [handled EXCEPT ![job[w].svc] = @ + 1]
      /\ regs' = regs /\ byHand' = byHand /\ UNCHANGED <<envVars, engineVars>>
  BY DEF Merge, Holding
<1>2. /\ job[w].inc \in 1 .. Len(incs) /\ job[w].svc \in Services
      /\ Merged(job[w]) \in IncType
      /\ Merged(job[w]).service = incs[job[w].inc].service
      /\ Merged(job[w]).deploy = incs[job[w].inc].deploy
  BY <1>1, CopyIs, MergedIs
<1>3. /\ incs' \in Seq(IncType) /\ Len(incs') = Len(incs) /\ IncsGrow(incs', incs)
      /\ incs'[job[w].inc] = Merged(job[w])
      /\ \A k \in 1 .. Len(incs) : k # job[w].inc => incs'[k] = incs[k]
  <2>1. incs \in Seq(IncType)
    BY TypeFacts
  <2>2. PICK i, d : i = job[w].inc /\ d = Merged(job[w])
    OBVIOUS
  <2>3. /\ i \in 1 .. Len(incs) /\ d \in IncType /\ d.service = incs[i].service
        /\ d.deploy = incs[i].deploy
    BY <1>1, <1>2, <2>2
  <2> HIDE <2>2
  <2>4. /\ incs' \in Seq(IncType) /\ Len(incs') = Len(incs) /\ IncsGrow(incs', incs)
        /\ incs'[i] = d /\ \A k \in 1 .. Len(incs) : k # i => incs'[k] = incs[k]
    <3>1. /\ [incs EXCEPT ![i] = d] \in Seq(IncType)
          /\ Len([incs EXCEPT ![i] = d]) = Len(incs)
          /\ IncsGrow([incs EXCEPT ![i] = d], incs)
          /\ [incs EXCEPT ![i] = d][i] = d
          /\ \A k \in 1 .. Len(incs) : k # i => [incs EXCEPT ![i] = d][k] = incs[k]
      BY <2>1, <2>3, WriteIs
    <3>2. incs' = [incs EXCEPT ![i] = d]
      BY <1>1, <2>2
    <3> QED
      BY <3>1, <3>2
  <2> QED
    BY <2>2, <2>4
<1>4. handled \in [Services -> Nat]
  BY TypeFacts DEF FieldsOK
<1>5. /\ handled' \in [Services -> Nat] /\ handled'[job[w].svc] = handled[job[w].svc] + 1
      /\ \A s \in Services : s # job[w].svc => handled'[s] = handled[s]
  BY <1>1, <1>2, <1>4, HandledIs
<1> QED
  BY <1>1, <1>3, <1>5

LEMMA MergeType ==
    ASSUME TypeInv, NEW w \in Workers, Merge(w)
    PROVE  TypeInv'
<1>1. job[w].at # "idle"
  BY MergeIs
<1> QED
  BY <1>1, MergeIs, TypeWriteReturn

LEMMA CreateIs ==
    ASSUME TypeInv, NEW w \in Workers, Create(w)
    PROVE  /\ job[w].at = "create" /\ job[w].svc \in Services
           /\ Proceed(w, Return(job[w]))
           /\ incs' \in Seq(IncType) /\ Len(incs') = Len(incs) + 1 /\ IncsGrow(incs', incs)
           /\ incs'[Len(incs) + 1] = Created(job[w])
           /\ \A k \in 1 .. Len(incs) : incs'[k] = incs[k]
           /\ handled' \in [Services -> Nat]
           /\ handled'[job[w].svc] = handled[job[w].svc] + 1
           /\ \A s \in Services : s # job[w].svc => handled'[s] = handled[s]
           /\ regs' = regs /\ byHand' = byHand /\ UNCHANGED <<envVars, engineVars>>
<1>1. /\ job[w].at = "create" /\ Proceed(w, Return(job[w]))
      /\ incs' = Append(incs, Created(job[w]))
      /\ handled' = [handled EXCEPT ![job[w].svc] = @ + 1]
      /\ regs' = regs /\ byHand' = byHand /\ UNCHANGED <<envVars, engineVars>>
  BY DEF Create, Created
<1>2. Created(job[w]) \in IncType /\ job[w].svc \in Services
  BY <1>1, CreatedIs
<1>3. /\ incs' \in Seq(IncType) /\ Len(incs') = Len(incs) + 1
      /\ incs'[Len(incs) + 1] = Created(job[w])
      /\ \A k \in 1 .. Len(incs) : incs'[k] = incs[k]
  BY <1>1, <1>2, TypeFacts, AppendIs
<1>4. IncsGrow(incs', incs)
  BY <1>3, TypeFacts DEF IncsGrow
<1>5. handled \in [Services -> Nat]
  BY TypeFacts DEF FieldsOK
<1>6. /\ handled' \in [Services -> Nat] /\ handled'[job[w].svc] = handled[job[w].svc] + 1
      /\ \A s \in Services : s # job[w].svc => handled'[s] = handled[s]
  BY <1>1, <1>2, <1>5, HandledIs
<1> QED
  BY <1>1, <1>2, <1>3, <1>4, <1>6

LEMMA CreateType ==
    ASSUME TypeInv, NEW w \in Workers, Create(w)
    PROVE  TypeInv'
<1>1. job[w].at # "idle"
  BY CreateIs
<1> QED
  BY <1>1, CreateIs, TypeWriteReturn

LEMMA CloseIs ==
    ASSUME TypeInv, NEW w \in Workers, CloseIncident(w)
    PROVE  /\ job[w].at = "close" /\ job[w].at \in Holding
           /\ Proceed(w, Return(job[w]))
           /\ incs' \in Seq(IncType) /\ Len(incs') = Len(incs) /\ IncsGrow(incs', incs)
           /\ incs'[job[w].inc].status = "resolved"
           /\ incs'[job[w].inc].service = job[w].svc
           /\ incs'[job[w].inc].deploy = job[w].copy.deploy
           /\ incs'[job[w].inc].alerts = job[w].copy.alerts
           /\ \A k \in 1 .. Len(incs) : k # job[w].inc => incs'[k] = incs[k]
           /\ regs' = regs /\ byHand' = byHand /\ handled' = handled
           /\ UNCHANGED <<envVars, engineVars>>
<1>1. PICK c : c = [job[w].copy EXCEPT !.status = "resolved"]
  OBVIOUS
<1>2. /\ job[w].at = "close" /\ job[w].at \in Holding /\ Proceed(w, Return(job[w]))
      /\ incs' = [incs EXCEPT ![job[w].inc] = c]
      /\ regs' = regs /\ byHand' = byHand /\ handled' = handled
      /\ UNCHANGED <<envVars, engineVars>>
  BY <1>1 DEF CloseIncident, Holding
<1>3. job[w].copy \in IncType
  BY <1>2, CopyIs
<1>4. /\ c \in IncType /\ c.service = job[w].copy.service /\ c.deploy = job[w].copy.deploy
      /\ c.status = "resolved" /\ c.alerts = job[w].copy.alerts
  BY <1>1, <1>3, RestatedIs
<1>5. /\ job[w].inc \in 1 .. Len(incs) /\ c.service = job[w].svc
      /\ c.service = incs[job[w].inc].service /\ c.deploy = incs[job[w].inc].deploy
  BY <1>2, <1>4, CopyIs
<1>6. /\ incs' \in Seq(IncType) /\ Len(incs') = Len(incs) /\ IncsGrow(incs', incs)
      /\ incs'[job[w].inc] = c
      /\ \A k \in 1 .. Len(incs) : k # job[w].inc => incs'[k] = incs[k]
  <2>1. incs \in Seq(IncType)
    BY TypeFacts
  <2>2. PICK i, d : i = job[w].inc /\ d = c
    OBVIOUS
  <2>3. /\ i \in 1 .. Len(incs) /\ d \in IncType /\ d.service = incs[i].service
        /\ d.deploy = incs[i].deploy
    BY <1>2, <1>4, <1>5, <2>2
  <2> HIDE <2>2
  <2>4. /\ incs' \in Seq(IncType) /\ Len(incs') = Len(incs) /\ IncsGrow(incs', incs)
        /\ incs'[i] = d /\ \A k \in 1 .. Len(incs) : k # i => incs'[k] = incs[k]
    <3>1. /\ [incs EXCEPT ![i] = d] \in Seq(IncType)
          /\ Len([incs EXCEPT ![i] = d]) = Len(incs)
          /\ IncsGrow([incs EXCEPT ![i] = d], incs)
          /\ [incs EXCEPT ![i] = d][i] = d
          /\ \A k \in 1 .. Len(incs) : k # i => [incs EXCEPT ![i] = d][k] = incs[k]
      BY <2>1, <2>3, WriteIs
    <3>2. incs' = [incs EXCEPT ![i] = d]
      BY <1>2, <2>2
    <3> QED
      BY <3>1, <3>2
  <2> QED
    BY <2>2, <2>4
<1> QED
  BY <1>2, <1>4, <1>5, <1>6

LEMMA CloseIncidentType ==
    ASSUME TypeInv, NEW w \in Workers, CloseIncident(w)
    PROVE  TypeInv'
<1>1. job[w].at # "idle"
  BY CloseIs
<1>2. handled \in [Services -> Nat]
  BY TypeFacts DEF FieldsOK
<1> QED
  BY <1>1, <1>2, CloseIs, TypeWriteReturn

LEMMA AdminUpdateIs ==
    ASSUME TypeInv, AdminUpdate
    PROVE  /\ job[AdminAPI].at \in {"acknowledge", "resolveById"}
           /\ job[AdminAPI].at \in Holding /\ Proceed(AdminAPI, Idle)
           /\ incs' \in Seq(IncType) /\ Len(incs') = Len(incs) /\ IncsGrow(incs', incs)
           /\ incs'[job[AdminAPI].inc].status =
                 IF job[AdminAPI].at = "acknowledge" THEN "acknowledged" ELSE "resolved"
           /\ incs'[job[AdminAPI].inc].service = job[AdminAPI].svc
           /\ incs'[job[AdminAPI].inc].deploy = job[AdminAPI].copy.deploy
           /\ incs'[job[AdminAPI].inc].alerts = job[AdminAPI].copy.alerts
           /\ \A k \in 1 .. Len(incs) : k # job[AdminAPI].inc => incs'[k] = incs[k]
           /\ regs' = regs /\ byHand' = byHand \cup {job[AdminAPI].svc}
           /\ handled' = handled /\ UNCHANGED <<envVars, engineVars>>
           /\ AdminAPI \in Workers
<1>1. PICK w, st, c : /\ w = AdminAPI
                      /\ st = IF job[w].at = "acknowledge" THEN "acknowledged" ELSE "resolved"
                      /\ c = [job[w].copy EXCEPT !.status = st]
  OBVIOUS
<1>2. /\ job[w].at \in {"acknowledge", "resolveById"} /\ job[w].at \in Holding
      /\ Proceed(w, Idle) /\ incs' = [incs EXCEPT ![job[w].inc] = c]
      /\ regs' = regs /\ byHand' = byHand \cup {job[w].svc} /\ handled' = handled
      /\ UNCHANGED <<envVars, engineVars>>
  BY <1>1 DEF AdminUpdate, Holding
<1>3. job[w].copy \in IncType /\ w \in Workers /\ st \in Open \cup {"resolved"}
  BY <1>1, <1>2, CopyIs, TypeFacts DEF Open
<1>4. /\ c \in IncType /\ c.service = job[w].copy.service /\ c.deploy = job[w].copy.deploy
      /\ c.status = st /\ c.alerts = job[w].copy.alerts
  BY <1>1, <1>3, RestatedIs
<1>5. /\ job[w].inc \in 1 .. Len(incs) /\ c.service = job[w].svc
      /\ c.service = incs[job[w].inc].service /\ c.deploy = incs[job[w].inc].deploy
  BY <1>2, <1>3, <1>4, CopyIs
<1>6. /\ incs' \in Seq(IncType) /\ Len(incs') = Len(incs) /\ IncsGrow(incs', incs)
      /\ incs'[job[w].inc] = c
      /\ \A k \in 1 .. Len(incs) : k # job[w].inc => incs'[k] = incs[k]
  <2>1. incs \in Seq(IncType)
    BY TypeFacts
  <2>2. PICK i, d : i = job[w].inc /\ d = c
    OBVIOUS
  <2>3. /\ i \in 1 .. Len(incs) /\ d \in IncType /\ d.service = incs[i].service
        /\ d.deploy = incs[i].deploy
    BY <1>2, <1>4, <1>5, <2>2
  <2> HIDE <2>2
  <2>4. /\ incs' \in Seq(IncType) /\ Len(incs') = Len(incs) /\ IncsGrow(incs', incs)
        /\ incs'[i] = d /\ \A k \in 1 .. Len(incs) : k # i => incs'[k] = incs[k]
    <3>1. /\ [incs EXCEPT ![i] = d] \in Seq(IncType)
          /\ Len([incs EXCEPT ![i] = d]) = Len(incs)
          /\ IncsGrow([incs EXCEPT ![i] = d], incs)
          /\ [incs EXCEPT ![i] = d][i] = d
          /\ \A k \in 1 .. Len(incs) : k # i => [incs EXCEPT ![i] = d][k] = incs[k]
      BY <2>1, <2>3, WriteIs
    <3>2. incs' = [incs EXCEPT ![i] = d]
      BY <1>2, <2>2
    <3> QED
      BY <3>1, <3>2
  <2> QED
    BY <2>2, <2>4
<1> QED
  BY <1>1, <1>2, <1>3, <1>4, <1>5, <1>6

LEMMA AdminUpdateType ==
    ASSUME TypeInv, AdminUpdate
    PROVE  TypeInv'
<1>1. JobOK(Idle, regs, incs')
  BY AdminUpdateIs, TypeFacts, IdleIs
<1>2. job[AdminAPI].svc \in Services
  BY AdminUpdateIs, CopyIs
<1>3. byHand' \subseteq Services /\ handled \in [Services -> Nat]
  BY <1>2, AdminUpdateIs, TypeFacts DEF FieldsOK
<1> QED
  BY <1>1, <1>3, AdminUpdateIs, TypeFacts, TypeWrite

LEMMA UpdateStatusIs ==
    ASSUME TypeInv, NEW r \in 1 .. Len(regs), NEW status \in {"resolved", "dismissed"}
    PROVE  /\ UpdateStatus(r, status) \in Seq(RegType)
           /\ Len(UpdateStatus(r, status)) = Len(regs)
           /\ UpdateStatus(r, status)[r].status = status
           /\ UpdateStatus(r, status)[r].service = regs[r].service
           /\ UpdateStatus(r, status)[r].deploy = regs[r].deploy
           /\ UpdateStatus(r, status)[r].at = regs[r].at
           /\ \A k \in 1 .. Len(regs) : k # r => UpdateStatus(r, status)[k] = regs[k]
           /\ RegsGrow(UpdateStatus(r, status), regs)
<1>1. PICK x, y : x = regs[r] /\ y = [x EXCEPT !.status = status]
  OBVIOUS
<1>2. regs \in Seq(RegType) /\ Len(regs) \in Nat
  BY TypeFacts
<1>3. x \in RegType
  BY <1>1, <1>2, SeqIs
<1>4. /\ y \in RegType /\ y.status = status /\ y.service = x.service /\ y.deploy = x.deploy
      /\ y.at = x.at
  BY <1>1, <1>3 DEF RegType
<1>5. UpdateStatus(r, status) = [regs EXCEPT ![r] = y]
  BY <1>1 DEF UpdateStatus
<1>6. /\ [regs EXCEPT ![r] = y] \in Seq(RegType)
      /\ Len([regs EXCEPT ![r] = y]) = Len(regs)
      /\ \A k \in 1 .. Len(regs) :
            [regs EXCEPT ![r] = y][k] = IF k = r THEN y ELSE regs[k]
  BY <1>2, <1>4, ReplaceIs
<1>7. PICK S : S = UpdateStatus(r, status)
  OBVIOUS
<1>8. /\ S \in Seq(RegType) /\ Len(S) = Len(regs) /\ S[r] = y
      /\ \A k \in 1 .. Len(regs) : k # r => S[k] = regs[k]
  BY <1>5, <1>6, <1>7
<1>9. RegsGrow(S, regs)
  <2>1. ASSUME NEW k \in 1 .. Len(regs)
        PROVE  /\ S[k].service = regs[k].service /\ S[k].deploy = regs[k].deploy
               /\ S[k].status = "active" => regs[k].status = "active"
    <3>1. CASE k = r
      <4>1. S[k] = y /\ regs[k] = x /\ status # "active"
        BY <1>1, <1>8, <3>1
      <4> QED
        BY <1>4, <4>1
    <3>2. CASE k # r
      BY <1>8, <3>2
    <3> QED
      BY <3>1, <3>2
  <2>2. Len(regs) <= Len(S)
    BY <1>2, <1>8
  <2> QED
    BY <2>1, <2>2 DEF RegsGrow
<1> QED
  BY <1>1, <1>4, <1>7, <1>8, <1>9

LEMMA CheckResolutionIs ==
    ASSUME TypeInv, CheckResolution
    PROVE  LET r == Head(job[ScanLoop].active)
               n == job'[ScanLoop] IN
           /\ Proceed(ScanLoop, n) /\ JobOK(n, regs', incs) /\ r \in 1 .. Len(regs)
           /\ job[ScanLoop].at = "resolve"
           /\ \/ /\ regs' = UpdateStatus(r, "resolved")
                 /\ n.at = "findAny" /\ n.reg = r /\ n.svc = regs[r].service
              \/ regs' = regs /\ n.at = "resolve"
<1>1. PICK j : j = job[ScanLoop]
  OBVIOUS
<1>2. PICK r, rest : r = Head(j.active) /\ rest = [j EXCEPT !.active = Tail(j.active)]
  OBVIOUS
<1>3. /\ JobOK(j, regs, incs) /\ j \in JobType /\ j.at = "resolve" /\ j.active # <<>>
      /\ regs \in Seq(RegType) /\ Len(regs) \in Nat /\ incs \in Seq(IncType)
      /\ Len(incs) \in Nat
  BY <1>1, TypeFacts DEF CheckResolution
<1>4. /\ j.active \in Seq(Nat) /\ Tail(j.active) \in Seq(Nat)
      /\ \A k \in 1 .. Len(j.active) : j.active[k] \in 1 .. Len(regs)
  <2>1. j.active \in Seq(Nat)
    BY <1>3 DEF JobType
  <2> QED
    BY <1>3, <2>1, TailIs DEF JobOK
<1>5. /\ r \in 1 .. Len(regs)
      /\ \A k \in 1 .. Len(Tail(j.active)) : Tail(j.active)[k] \in 1 .. Len(regs)
  <2>1. /\ Head(j.active) = j.active[1] /\ Len(j.active) \in Nat \ {0}
        /\ Len(Tail(j.active)) = Len(j.active) - 1
        /\ \A i \in 1 .. Len(j.active) - 1 : Tail(j.active)[i] = j.active[i + 1]
    BY <1>3, <1>4, TailIs
  <2>2. 1 \in 1 .. Len(j.active) /\
        \A i \in 1 .. Len(j.active) - 1 : i + 1 \in 1 .. Len(j.active)
    BY <2>1
  <2> QED
    BY <1>2, <1>4, <2>1, <2>2
<1>6. /\ rest \in JobType /\ rest.at = j.at /\ rest.reg = j.reg /\ rest.inc = j.inc
      /\ rest.svc = j.svc /\ rest.active = Tail(j.active)
  BY <1>2, <1>3, <1>4 DEF JobType
<1>7. JobOK(rest, regs, incs)
  BY <1>3, <1>5, <1>6, JobGoesOn DEF Backs
<1>8. CASE regs[r].algo \notin FromZero /\ Recovered(r)
  <2>1. PICK n : n = [rest EXCEPT !.at = "findAny", !.reg = r, !.svc = regs[r].service]
    OBVIOUS
  <2>2. regs' = UpdateStatus(r, "resolved") /\ Proceed(ScanLoop, n)
    BY <1>1, <1>2, <1>8, <2>1 DEF CheckResolution
  <2>3. regs[r].service \in Services /\ r \in Nat
    <3>1. regs[r] \in RegType
      BY <1>3, <1>5, SeqIs
    <3> QED
      BY <1>5, <3>1 DEF RegType
  <2>4. /\ n \in JobType /\ n.at = "findAny" /\ n.reg = r /\ n.svc = regs[r].service
        /\ n.inc = rest.inc /\ n.active = rest.active
    <3>1. PICK s : s = regs[r].service
      OBVIOUS
    <3>2. n = [rest EXCEPT !.at = "findAny", !.reg = r, !.svc = s] /\ s \in Services
      BY <2>1, <2>3, <3>1
    <3> HIDE <3>1, <2>1
    <3>3. /\ n \in JobType /\ n.at = "findAny" /\ n.reg = r /\ n.svc = s
          /\ n.inc = rest.inc /\ n.active = rest.active
      BY <1>6, <2>3, <3>2 DEF JobType, Writing
    <3> QED
      BY <3>1, <3>3
  <2>5. /\ regs' \in Seq(RegType) /\ Len(regs') = Len(regs) /\ regs'[r].status = "resolved"
        /\ regs'[r].service = regs[r].service
    BY <1>5, <2>2, UpdateStatusIs
  <2>6. JobOK(n, regs', incs)
    <3>1. rest.inc \in 0 .. Len(incs)
      BY <1>7 DEF JobOK
    <3>2. n.reg \in 0 .. Len(regs') /\ n.reg # 0
      BY <1>3, <1>5, <2>4, <2>5
    <3>3. \A k \in 1 .. Len(n.active) : n.active[k] \in 1 .. Len(regs')
      BY <1>5, <1>6, <2>4, <2>5
    <3> QED
      BY <2>3, <2>4, <2>5, <3>1, <3>2, <3>3 DEF JobOK, Writing, Holding
  <2>7. job'[ScanLoop] = n
    BY <2>2, TypeFacts, ProceedIs
  <2> QED
    BY <1>1, <1>2, <1>3, <1>5, <2>2, <2>4, <2>6, <2>7
<1>9. CASE ~(regs[r].algo \notin FromZero /\ Recovered(r))
  <2>1. regs' = regs /\ Proceed(ScanLoop, rest)
    BY <1>1, <1>2, <1>9 DEF CheckResolution
  <2>2. job'[ScanLoop] = rest
    BY <2>1, TypeFacts, ProceedIs
  <2> QED
    BY <1>1, <1>2, <1>3, <1>5, <1>6, <1>7, <2>1, <2>2
<1> QED
  BY <1>8, <1>9

LEMMA CheckResolutionMoves ==
    ASSUME TypeInv, CheckResolution
    PROVE  TypeInv' /\ Moves(ScanLoop)
<1>1. /\ incs' = incs /\ handled' = handled /\ byHand' = byHand
      /\ UNCHANGED <<envVars, engineVars>>
  BY DEF CheckResolution
<1>2. handled \in [Services -> Nat] /\ byHand \subseteq Services
  BY TypeFacts DEF FieldsOK
<1>3. PICK r, n : r = Head(job[ScanLoop].active) /\ n = job'[ScanLoop]
  OBVIOUS
<1>4. /\ Proceed(ScanLoop, n) /\ JobOK(n, regs', incs) /\ r \in 1 .. Len(regs)
      /\ job[ScanLoop].at = "resolve"
      /\ \/ regs' = UpdateStatus(r, "resolved") /\ n.at = "findAny"
         \/ regs' = regs /\ n.at = "resolve"
  BY <1>3, CheckResolutionIs
<1>5. regs' \in Seq(RegType) /\ RegsGrow(regs', regs)
  BY <1>4, UpdateStatusIs, TypeFacts
<1>6. Moves(ScanLoop)
  <2>1. Starts(job[ScanLoop], n) \/ (regs' = regs /\ Leaves(job[ScanLoop], n))
    <3>1. "resolve" \notin Writing
      BY NotWriting DEF Backs
    <3>2. CASE regs' = UpdateStatus(r, "resolved") /\ n.at = "findAny"
      <4>1. \E x \in 1 .. Len(regs) : regs' = UpdateStatus(x, "resolved")
        BY <1>4, <3>2
      <4>2. job[ScanLoop].at \notin Writing
        BY <1>4, <3>1
      <4> QED
        BY <3>2, <4>1, <4>2 DEF Starts
    <3>3. CASE regs' = regs /\ n.at = "resolve"
      BY <1>4, <3>1, <3>3 DEF Leaves
    <3> QED
      BY <1>4, <3>2, <3>3
  <2> QED
    BY <1>1, <1>3, <1>4, <2>1 DEF Moves, envVars
<1> QED
  BY <1>1, <1>2, <1>4, <1>5, <1>6, TypeFacts, TypeWrite

(* A step that no goroutine of the pipeline takes. *)
LEMMA TypeOutside ==
    ASSUME TypeInv, Outside, FieldsOK', TimersOK'
    PROVE  TypeInv'
<1>2. job' = job /\ incs' = incs
  BY DEF Outside
<1>3. regs' \in Seq(RegType) /\ RegsGrow(regs', regs)
  BY UpdateStatusIs, TypeFacts DEF Outside
<1>4. \A w \in Workers : JobOK(job[w], regs', incs)
  BY <1>3, TypeFacts, JobFrame
<1> QED
  BY <1>2, <1>3, <1>4, TypeFacts DEF TypeInv

LEMMA DismissOutside ==
    ASSUME TypeInv, NEW r \in DOMAIN regs, Dismiss(r)
    PROVE  TypeInv' /\ Outside
<1>1. /\ regs' = UpdateStatus(r, "dismissed") /\ job' = job /\ incs' = incs
      /\ UNCHANGED <<envVars, engineVars, histVars>>
  BY DEF Dismiss
<1>2. Outside
  <2>1. r \in 1 .. Len(regs) /\ horizon \in Int
    BY TypeFacts
  <2> QED
    BY <1>1, <2>1 DEF Outside, envVars, histVars
<1>3. FieldsOK' /\ TimersOK'
  BY <1>1, TypeFacts DEF FieldsOK, TimersOK, envVars, engineVars, histVars
<1> QED
  BY <1>1, <1>2, <1>3, TypeOutside

LEMMA OnDeployOutside ==
    ASSUME TypeInv, NEW d \in Deploys, OnDeploy(d)
    PROVE  TypeInv' /\ Outside
<1>1. /\ d \notin deployed /\ deployed' = deployed \cup {d} /\ pending' = Append(pending, d)
      /\ UNCHANGED <<regs, incs, job, envVars, timer, scanner, consumer, engine, histVars>>
  BY DEF OnDeploy
<1>2. FieldsOK'
  BY <1>1, TypeFacts DEF FieldsOK, envVars, histVars
<1>3. TimersOK'
  <2>1. /\ deployed \subseteq Deploys /\ pending \in Seq(deployed) /\ Len(pending) \in Nat
        /\ \A k \in 1 .. Len(pending) : pending[k] \in deployed
    BY TypeFacts DEF TimersOK
  <2>2. /\ pending' \in Seq(deployed') /\ Len(pending') = Len(pending) + 1
        /\ \A k \in 1 .. Len(pending) : pending'[k] = pending[k]
        /\ pending'[Len(pending) + 1] = d
        /\ \A k \in 1 .. Len(pending') : k \in 1 .. Len(pending) \/ k = Len(pending) + 1
    <3>1. pending \in Seq(deployed') /\ d \in deployed'
      BY <1>1, <2>1
    <3> QED
      BY <1>1, <3>1, AppendIs
  <2>3. \A i, k \in 1 .. Len(pending') : pending'[i] = pending'[k] => i = k
    <3>1. \A i, k \in 1 .. Len(pending) : pending[i] = pending[k] => i = k
      BY TypeFacts DEF TimersOK
    <3> QED
      BY <1>1, <2>1, <2>2, <3>1
  <2>4. TimersOK
    BY TypeFacts
  <2>5. ASSUME NEW e \in Evaluations
        PROVE  /\ Evaluates[e] \notin deployed' => timer'[e] = "unset"
               /\ \A k \in 1 .. Len(pending') : Evaluates[e] = pending'[k] => timer'[e] = "unset"
               /\ timer'[e] # "fired" => job'[e] = Idle
    BY <1>1, <2>1, <2>2, <2>4 DEF TimersOK
  <2>6. deployed' \subseteq Deploys /\ timer' \in [Evaluations -> {"unset", "set", "fired"}]
    BY <1>1, <2>1, <2>4 DEF TimersOK
  <2> QED
    BY <2>2, <2>3, <2>5, <2>6 DEF TimersOK
<1>4. Outside
  BY <1>1, TypeFacts DEF Outside, envVars, histVars
<1> QED
  BY <1>1, <1>2, <1>3, <1>4, TypeOutside

LEMMA TakeDeployOutside ==
    ASSUME TypeInv, TakeDeploy
    PROVE  TypeInv' /\ Outside
<1>1. /\ pending # <<>> /\ pending' = Tail(pending)
      /\ timer' = [e \in Evaluations |->
                    IF Evaluates[e] = Head(pending) THEN "set" ELSE timer[e]]
      /\ UNCHANGED <<regs, incs, job, envVars, deployed, scanner, consumer, engine, histVars>>
  BY DEF TakeDeploy
<1>2. FieldsOK'
  BY <1>1, TypeFacts DEF FieldsOK, envVars, histVars
<1>3. TimersOK'
  <2>1. /\ deployed \subseteq Deploys /\ pending \in Seq(deployed)
        /\ timer \in [Evaluations -> {"unset", "set", "fired"}]
        /\ \A i, k \in 1 .. Len(pending) : pending[i] = pending[k] => i = k
        /\ \A e \in Evaluations :
              /\ Evaluates[e] \notin deployed => timer[e] = "unset"
              /\ \A k \in 1 .. Len(pending) : Evaluates[e] = pending[k] => timer[e] = "unset"
              /\ timer[e] # "fired" => job[e] = Idle
    BY TypeFacts DEF TimersOK
  <2>2. /\ Head(pending) = pending[1] /\ Head(pending) \in deployed
        /\ Tail(pending) \in Seq(deployed) /\ Len(pending) \in Nat \ {0}
        /\ Len(Tail(pending)) = Len(pending) - 1
        /\ \A i \in 1 .. Len(pending) - 1 : Tail(pending)[i] = pending[i + 1]
    BY <1>1, <2>1, TailIs
  <2>3. /\ 1 \in 1 .. Len(pending)
        /\ \A i \in 1 .. Len(pending') : /\ i + 1 \in 1 .. Len(pending) /\ i + 1 # 1
                                         /\ pending'[i] = pending[i + 1]
    BY <1>1, <2>2
  <2>4. \A i, k \in 1 .. Len(pending') : pending'[i] = pending'[k] => i = k
    <3>1. ASSUME NEW i \in 1 .. Len(pending'), NEW k \in 1 .. Len(pending'),
                 pending'[i] = pending'[k]
          PROVE  i = k
      <4>1. i + 1 = k + 1
        BY <2>1, <2>3, <3>1
      <4> QED
        BY <4>1
    <3> QED
      BY <3>1
  <2>5. ASSUME NEW e \in Evaluations
        PROVE  /\ timer'[e] = IF Evaluates[e] = Head(pending) THEN "set" ELSE timer[e]
               /\ timer'[e] \in {"unset", "set", "fired"}
               /\ Evaluates[e] \notin deployed' => timer'[e] = "unset"
               /\ \A k \in 1 .. Len(pending') : Evaluates[e] = pending'[k] => timer'[e] = "unset"
               /\ timer'[e] # "fired" => job'[e] = Idle
    <3>1. timer'[e] = IF Evaluates[e] = Head(pending) THEN "set" ELSE timer[e]
      BY <1>1
    <3>2. Evaluates[e] = Head(pending) => timer[e] = "unset"
      BY <2>1, <2>2, <2>3
    <3>3. ASSUME NEW k \in 1 .. Len(pending'), Evaluates[e] = pending'[k]
          PROVE  timer'[e] = "unset"
      <4>1. Evaluates[e] = pending[k + 1] /\ k + 1 \in 1 .. Len(pending) /\ k + 1 # 1
        BY <2>3, <3>3
      <4>2. Evaluates[e] # Head(pending)
        BY <2>1, <2>2, <2>3, <4>1
      <4> QED
        BY <2>1, <3>1, <4>1, <4>2
    <3> QED
      BY <1>1, <2>1, <2>2, <3>1, <3>2, <3>3
  <2>6. pending' \in Seq(deployed') /\ deployed' \subseteq Deploys
        /\ timer' \in [Evaluations -> {"unset", "set", "fired"}]
    BY <1>1, <2>1, <2>2, <2>5
  <2> QED
    BY <2>4, <2>5, <2>6 DEF TimersOK
<1>4. Outside
  BY <1>1, TypeFacts DEF Outside, envVars, histVars
<1> QED
  BY <1>1, <1>2, <1>3, <1>4, TypeOutside

LEMMA LifecycleOutside ==
    ASSUME TypeInv, Stop \/ StopScan \/ StopConsumer \/ StopReturns
    PROVE  TypeInv' /\ Outside
<1>1. /\ UNCHANGED <<regs, incs, job, envVars, deployed, pending, timer, histVars>>
      /\ scanner' \in BOOLEAN /\ consumer' \in BOOLEAN
      /\ engine' \in {"running", "stopping", "stopped"}
  BY TypeFacts DEF Stop, StopScan, StopConsumer, StopReturns, FieldsOK
<1>2. FieldsOK' /\ TimersOK'
  BY <1>1, TypeFacts DEF FieldsOK, TimersOK, envVars, histVars
<1>4. Outside
  BY <1>1, TypeFacts DEF Outside, envVars, histVars
<1> QED
  BY <1>1, <1>2, <1>4, TypeOutside

LEMMA TickIs ==
    ASSUME TypeInv, Tick
    PROVE  /\ clock \in Nat /\ clock' = clock + 1 /\ horizon \in Int /\ horizon' \in Int
           /\ horizon <= horizon' /\ FieldsOK'
           /\ UNCHANGED <<regs, incs, job, engineVars, histVars>>
<1>1. clock \in 0 .. MaxTime /\ horizon \in -1 .. clock /\ clock < MaxTime /\ MaxTime \in Nat
  BY TypeFacts, AlertParametersAssumption DEF FieldsOK, Tick
<1>2. clock' = clock + 1 /\ horizon' \in horizon .. clock
  BY DEF Tick
<1>3. clock' \in 0 .. MaxTime /\ horizon' \in -1 .. clock' /\ horizon <= horizon'
  BY <1>1, <1>2
<1> QED
  BY <1>1, <1>2, <1>3, TypeFacts DEF Tick, FieldsOK, engineVars, histVars

LEMMA TickOutside ==
    ASSUME TypeInv, Tick
    PROVE  TypeInv' /\ Outside
<1>1. TimersOK'
  BY TickIs, TypeFacts DEF TimersOK, engineVars
<1>2. Outside
  BY TickIs DEF Outside, histVars
<1> QED
  BY <1>1, <1>2, TickIs, TypeOutside


LEMMA TrafficOutside ==
    ASSUME TypeInv, NEW s \in Services, TrafficChanges(s)
    PROVE  TypeInv' /\ Outside
<1>1. /\ UNCHANGED <<regs, incs, job, clock, horizon, engineVars, histVars>>
      /\ degraded' \subseteq Services /\ outliers' \subseteq Outliers
  BY TypeFacts DEF TrafficChanges, FieldsOK
<1>2. FieldsOK' /\ TimersOK'
  BY <1>1, TypeFacts DEF FieldsOK, TimersOK, engineVars, histVars
<1>4. Outside
  BY <1>1, TypeFacts DEF Outside, envVars, histVars
<1> QED
  BY <1>1, <1>2, <1>4, TypeOutside

LEMMA StepIs ==
    ASSUME TypeInv, [Next]_vars
    PROVE  /\ TypeInv'
           /\ \/ \E w \in Workers : Moves(w) \/ Merge(w) \/ Create(w) \/ CloseIncident(w)
              \/ AdminUpdate \/ Outside
<1>1. CASE UNCHANGED vars
  <2>1. UNCHANGED <<regs, incs, job, envVars, engineVars, histVars>>
    BY <1>1 DEF vars
  <2>2. FieldsOK' /\ TimersOK'
    BY <2>1, TypeFacts DEF FieldsOK, TimersOK, envVars, engineVars, histVars
  <2>3. Outside
    BY <2>1, TypeFacts DEF Outside, envVars, histVars
  <2> QED
    BY <2>2, <2>3, TypeOutside
<1>2. CASE Next
  <2>1. ASSUME NEW w \in Workers, Handle(w)
        PROVE  TypeInv' /\ (Moves(w) \/ Merge(w) \/ Create(w) \/ CloseIncident(w))
    BY <2>1, SaveMoves, FindIncidentMoves, MergeType, CreateType, FindAnyMoves,
       CheckActiveMoves, CloseIncidentType DEF Handle
  <2>2. CASE ScanTick \/ ScanStep
    BY <2>2, ScanTickMoves, ScanServiceMoves, ScanTenantsMoves, ScanNextMoves,
       CheckResolutionMoves, ScanEndsMoves, TypeFacts DEF ScanStep
  <2>3. ASSUME NEW e \in Evaluations, EvaluateDeploy(e)
        PROVE  TypeInv' /\ Moves(e) /\ e \in Workers
    BY <2>3, EvaluateDeployMoves, TypeFacts
  <2>4. ASSUME NEW s \in Services, Breach(s) \/ TrafficChanges(s)
        PROVE  TypeInv' /\ (Moves(SLOEngine) \/ Outside)
    BY <2>4, BreachMoves, TrafficOutside
  <2>5. ASSUME NEW i \in DOMAIN incs, NEW request \in {"acknowledge", "resolveById"},
               AdminGet(i, request)
        PROVE  TypeInv' /\ Moves(AdminAPI)
    BY <2>5, AdminGetMoves
  <2>6. ASSUME NEW r \in DOMAIN regs, Dismiss(r)
        PROVE  TypeInv' /\ Outside
    BY <2>6, DismissOutside
  <2>7. ASSUME NEW d \in Deploys, OnDeploy(d)
        PROVE  TypeInv' /\ Outside
    BY <2>7, OnDeployOutside
  <2>8. CASE AdminUpdate
    BY <2>8, AdminUpdateType
  <2>9. CASE TakeDeploy \/ Tick \/ Stop \/ StopScan \/ StopConsumer \/ StopReturns
    BY <2>9, TakeDeployOutside, TickOutside, LifecycleOutside
  <2>10. SLOEngine \in Workers /\ AdminAPI \in Workers
    BY TypeFacts
  <2> QED
    BY <1>2, <2>1, <2>2, <2>3, <2>4, <2>5, <2>6, <2>7, <2>8, <2>9, <2>10 DEF Next
<1> QED
  BY <1>1, <1>2

LEMMA TypeStart ==
    ASSUME Init
    PROVE  TypeInv
<1>1. regs = <<>> /\ incs = <<>> /\ job = [w \in Workers |-> Idle]
  BY DEF Init
<1>2. regs \in Seq(RegType) /\ incs \in Seq(IncType)
  BY <1>1
<1>3. \A w \in Workers : job[w] = Idle /\ JobOK(job[w], regs, incs)
  BY <1>1, <1>2, IdleIs
<1>4. job \in [Workers -> JobType]
  <2>1. \A w \in Workers : Idle \in JobType
    BY <1>3 DEF JobOK
  <2> QED
    BY <1>1, <2>1
<1>5. FieldsOK
  BY AlertParametersAssumption DEF Init, FieldsOK
<1>6. TimersOK
  <2>1. /\ timer = [e \in Evaluations |-> "unset"] /\ deployed = {} /\ pending = <<>>
        /\ \A e \in Evaluations : job[e] = Idle
    BY <1>3 DEF Init, Workers
  <2>2. Len(pending) = 0 /\ pending \in Seq(deployed)
    BY <2>1
  <2> QED
    BY <2>1, <2>2 DEF TimersOK
<1> QED
  BY <1>2, <1>3, <1>4, <1>5, <1>6 DEF TypeInv

LEMMA TypeHolds ==
    ASSUME TypeInv
    PROVE  TypeOK
<1>1. /\ regs \in Seq(RegType) /\ incs \in Seq(IncType) /\ DOMAIN job = Workers
      /\ FieldsOK /\ TimersOK
  BY TypeFacts
<1>2. \A w \in Workers :
         /\ job[w].at \in Writing \cup {"idle", "scan", "tenants", "resolve", "save"}
         /\ job[w].at # "save" \/ job[w].todo # <<>>
         /\ job[w].reg \in 0 .. Len(regs) /\ job[w].inc \in 0 .. Len(incs)
         /\ job[w].at \in Writing <=> job[w].svc \in Services
  <2>1. ASSUME NEW w \in Workers
        PROVE  /\ job[w].at \in Writing \cup {"idle", "scan", "tenants", "resolve", "save"}
               /\ job[w].at # "save" \/ job[w].todo # <<>>
               /\ job[w].reg \in 0 .. Len(regs) /\ job[w].inc \in 0 .. Len(incs)
               /\ job[w].at \in Writing <=> job[w].svc \in Services
    <3>1. JobOK(job[w], regs, incs) /\ job[w] \in JobType
      BY TypeFacts
    <3> QED
      BY <3>1 DEF JobOK, JobType, Backs
  <2> QED
    BY <2>1
<1> QED
  BY <1>1, <1>2 DEF TypeOK, RegType, IncType, FieldsOK, TimersOK

-----------------------------------------------------------------------------
(* Handlers of one service, one at a time.                                 *)

(* A step of w that writes incidents of the service it works for.          *)
Writes(w) ==
    /\ job[w].at \in Writing /\ job'[w].at \notin Writing
    /\ Proceed(w, job'[w])
    /\ Len(incs) <= Len(incs')
    /\ \A k \in 1 .. Len(incs) :
          incs[k].service # job[w].svc => incs'[k] = incs[k]

LEMMA ChangedOne ==
    ASSUME TypeInv, NEW w \in Workers, job[w].at \in Holding, Len(incs') = Len(incs),
           \A k \in 1 .. Len(incs) : k # job[w].inc => incs'[k] = incs[k]
    PROVE  /\ Len(incs) <= Len(incs')
           /\ \A k \in 1 .. Len(incs) : incs[k].service # job[w].svc => incs'[k] = incs[k]
<1>1. incs[job[w].inc].service = job[w].svc
  BY CopyIs
<1>2. Len(incs) \in Nat
  BY TypeFacts
<1> QED
  BY <1>1, <1>2

LEMMA WritesIs ==
    ASSUME TypeInv
    PROVE  /\ \A w \in Workers : Merge(w) \/ Create(w) \/ CloseIncident(w) => Writes(w)
           /\ AdminUpdate => Writes(AdminAPI)
<1>1. ASSUME NEW w \in Workers, Merge(w) \/ Create(w) \/ CloseIncident(w)
      PROVE  Writes(w)
  <2>1. Proceed(w, Return(job[w])) /\ job[w].at \in Writing
    BY <1>1, MergeIs, CreateIs, CloseIs DEF Writing
  <2>2. Return(job[w]).at \notin Writing /\ job'[w] = Return(job[w])
    BY <2>1, TypeFacts, ReturnIs, ProceedIs
  <2>3. CASE Merge(w)
    BY <2>1, <2>2, <2>3, MergeIs, ChangedOne DEF Writes
  <2>4. CASE CloseIncident(w)
    BY <2>1, <2>2, <2>4, CloseIs, ChangedOne DEF Writes
  <2>5. CASE Create(w)
    BY <2>1, <2>2, <2>5, CreateIs, TypeFacts DEF Writes
  <2> QED
    BY <1>1, <2>3, <2>4, <2>5
<1>2. ASSUME AdminUpdate
      PROVE  Writes(AdminAPI)
  <2>1. /\ Proceed(AdminAPI, Idle) /\ job[AdminAPI].at \in Writing /\ AdminAPI \in Workers
        /\ job[AdminAPI].at \in Holding
    BY <1>2, AdminUpdateIs DEF Holding, Writing
  <2>2. Idle.at \notin Writing /\ job'[AdminAPI] = Idle
    BY <2>1, TypeFacts, IdleIs, ProceedIs
  <2> QED
    BY <1>2, <2>1, <2>2, AdminUpdateIs, ChangedOne DEF Writes
<1> QED
  BY <1>1, <1>2

LEMMA AloneProceed ==
    ASSUME TypeInv, Alone, NEW w \in Workers, Proceed(w, job'[w])
    PROVE  Alone'
<1>1. /\ \A v \in Workers : v # w => job'[v] = job[v]
      /\ crowded \subseteq crowded'
      /\ \A s \in Services \ crowded' : Serves(job'[w], s) =>
            \A v \in Workers : v # w => ~ Serves(job[v], s)
  BY TypeFacts, ProceedIs
<1>2. ASSUME NEW u \in Workers, NEW v \in Workers, NEW s \in Services \ crowded',
             Serves(job'[u], s), Serves(job'[v], s)
      PROVE  u = v
  <2>1. CASE u = w \/ v = w
    BY <1>1, <1>2, <2>1
  <2>2. CASE u # w /\ v # w
    <3>1. job'[u] = job[u] /\ job'[v] = job[v] /\ s \in Services \ crowded
      BY <1>1, <2>2
    <3> QED
      BY <1>2, <3>1 DEF Alone
  <2> QED
    BY <2>1, <2>2
<1> QED
  BY <1>2 DEF Alone, Serves

(* Another handler of a service where nobody overlapped does not exist. *)
LEMMA OthersElsewhere ==
    ASSUME TypeInv, Alone, NEW w \in Workers, NEW v \in Workers, v # w,
           job[w].at \in Writing, job[v].at \in Writing, job[v].svc \notin crowded
    PROVE  job[v].svc # job[w].svc
<1>1. job[v].svc \in Services
  BY TypeFacts DEF JobOK
<1> QED
  BY <1>1 DEF Alone, Serves

LEMMA FreshMoves ==
    ASSUME TypeInv, Fresh, NEW w \in Workers, Moves(w)
    PROVE  Fresh'
<1>1. /\ incs' = incs /\ \A v \in Workers : v # w => job'[v] = job[v]
      /\ crowded \subseteq crowded'
  BY TypeFacts, ProceedIs DEF Moves
<1>2. ASSUME NEW v \in Workers, job'[v].at \in Holding, job'[v].svc \notin crowded'
      PROVE  job'[v].copy = incs[job'[v].inc]
  <2>1. CASE v # w
    <3>1. job'[v] = job[v] /\ job[v].svc \notin crowded
      BY <1>1, <1>2, <2>1
    <3> QED
      BY <1>2, <3>1 DEF Fresh
  <2>2. CASE v = w
    <3>1. job'[w].at \in Writing
      BY <1>2, <2>2 DEF Holding, Writing
    <3>2. CASE Starts(job[w], job'[w])
      BY <1>2, <2>2, <3>2 DEF Starts, Holding
    <3>3. CASE GoesOn(job[w], job'[w])
      <4>1. CASE job[w].at = "check"
        <5>1. job'[w].copy = job[w].copy /\ job'[w].inc = job[w].inc /\ job'[w].svc = job[w].svc
          BY <3>3, <4>1 DEF GoesOn
        <5>2. job[w].at \in Holding /\ job[w].svc \notin crowded
          BY <1>1, <1>2, <2>2, <4>1, <5>1 DEF Holding
        <5> QED
          BY <2>2, <5>1, <5>2 DEF Fresh
      <4>2. CASE job[w].at # "check"
        BY <1>2, <2>2, <3>3, <4>2 DEF GoesOn, Holding
      <4> QED
        BY <4>1, <4>2
    <3> QED
      BY <3>1, <3>2, <3>3 DEF Moves, Leaves
  <2> QED
    BY <2>1, <2>2
<1> QED
  BY <1>1, <1>2 DEF Fresh

LEMMA FreshWrites ==
    ASSUME TypeInv, Alone, Fresh, NEW w \in Workers, Writes(w)
    PROVE  Fresh'
<1>1. /\ \A v \in Workers : v # w => job'[v] = job[v]
      /\ crowded \subseteq crowded'
  BY TypeFacts, ProceedIs DEF Writes
<1>2. ASSUME NEW v \in Workers, job'[v].at \in Holding, job'[v].svc \notin crowded'
      PROVE  job'[v].copy = incs'[job'[v].inc]
  <2>1. v # w /\ job[w].at \in Writing
    BY <1>2 DEF Writes, Holding, Writing
  <2>2. /\ job'[v] = job[v] /\ job[v].at \in Holding /\ job[v].at \in Writing
        /\ job[v].svc \notin crowded
    BY <1>1, <1>2, <2>1 DEF Holding, Writing
  <2>3. job[v].svc # job[w].svc
    BY <2>1, <2>2, OthersElsewhere
  <2>4. job[v].inc \in 1 .. Len(incs) /\ incs[job[v].inc].service = job[v].svc
    BY <2>2, CopyIs
  <2>5. incs'[job[v].inc] = incs[job[v].inc]
    BY <2>3, <2>4 DEF Writes
  <2> QED
    BY <2>2, <2>5 DEF Fresh
<1> QED
  BY <1>2 DEF Fresh

LEMMA AloneStep ==
    ASSUME TypeInv, Alone, Fresh, [Next]_vars
    PROVE  Alone' /\ Fresh'
<1>1. ASSUME NEW w \in Workers, Moves(w) \/ Writes(w)
      PROVE  Alone' /\ Fresh'
  <2>1. Proceed(w, job'[w])
    BY <1>1 DEF Moves, Writes
  <2> QED
    BY <1>1, <2>1, AloneProceed, FreshMoves, FreshWrites
<1>2. CASE Outside
  BY <1>2 DEF Outside, Alone, Fresh, Serves
<1>3. AdminAPI \in Workers
  BY TypeFacts
<1> QED
  BY <1>1, <1>2, <1>3, StepIs, WritesIs

(* An incident that was resolved is opened by an acknowledgement, or where *)
(* handlers of the service overlapped.                                     *)
LEMMA ReopenedBy ==
    ASSUME TypeInv, Fresh, [Next]_vars, NEW i \in 1 .. Len(incs),
           incs[i].status = "resolved", incs'[i].status \in Open
    PROVE  \/ incs[i].service \in crowded'
           \/ /\ job[AdminAPI].at = "acknowledge" /\ job'[AdminAPI] = Idle
              /\ job[AdminAPI].inc = i
<1>1. "resolved" \notin Open
  BY DEF Open
<1>2. incs' # incs
  BY <1>1
<1>3. ASSUME NEW w \in Workers, Merge(w)
      PROVE  incs[i].service \in crowded'
  <2>1. i = job[w].inc
    BY <1>1, <1>3, MergeIs
  <2>2. job[w].copy.status \in Open /\ incs[i].service = job[w].svc
    BY <1>3, <2>1, MergeIs, MergedIs, CopyIs
  <2>3. job[w].svc \in crowded
    BY <1>1, <1>3, <2>1, <2>2, MergeIs DEF Fresh
  <2>4. crowded \subseteq crowded'
    BY <1>3, MergeIs, TypeFacts, ProceedIs
  <2> QED
    BY <2>2, <2>3, <2>4
<1>4. ASSUME NEW w \in Workers, Create(w) \/ CloseIncident(w) PROVE FALSE
  BY <1>1, <1>4, CreateIs, CloseIs
<1>5. CASE AdminUpdate
  <2>1. i = job[AdminAPI].inc /\ job[AdminAPI].at = "acknowledge"
    BY <1>1, <1>5, AdminUpdateIs
  <2>2. job'[AdminAPI] = Idle
    BY <1>5, AdminUpdateIs, TypeFacts, ProceedIs
  <2> QED
    BY <2>1, <2>2
<1>6. ASSUME NEW w \in Workers, Moves(w) PROVE FALSE
  BY <1>2, <1>6 DEF Moves
<1>7. ~ Outside
  BY <1>2 DEF Outside
<1> QED
  BY <1>3, <1>4, <1>5, <1>6, <1>7, StepIs

-----------------------------------------------------------------------------
(* Sums over the incidents of a service.                                   *)

(* What each incident adds to the total of service s. *)
Weights(I, count, s) ==
    [k \in 1 .. Len(I) |-> IF I[k].service = s THEN count[k] ELSE 0]

(* f is the running sum of the first N weights. *)
IsSum(f, w, N) ==
    /\ f[0] = 0
    /\ \A k \in 0 .. N : f[k] \in Nat
    /\ \A k \in 1 .. N : f[k] = f[k - 1] + w[k]

Below(w, v, N) == \A k \in 1 .. N : w[k] <= v[k]
OneMore(w, v, i, N) == \A k \in 1 .. N : v[k] = w[k] + (IF k = i THEN 1 ELSE 0)

LEMMA SumExists ==
    ASSUME NEW N \in Nat, NEW w \in [1 .. N -> Nat]
    PROVE  \E f : f = [k \in 0 .. N |-> f[k]] /\ IsSum(f, w, N)
<1>1. PICK S, step :
        /\ S = [k \in 0 .. N |-> Nat]
        /\ step = [k \in 1 .. N |-> [x \in Nat |-> x + w[k]]]
  OBVIOUS
<1>2. /\ \A k \in 0 .. N : S[k] = Nat
      /\ \A k \in 1 .. N : k \in 0 .. N /\ k - 1 \in 0 .. N
      /\ \A k \in 1 .. N : \A x \in Nat : step[k][x] = x + w[k]
      /\ 0 \in 0 .. N
      /\ \A k \in 1 .. N : w[k] \in Nat
  <2>1. \A k \in 1 .. N : step[k] = [x \in Nat |-> x + w[k]]
    BY <1>1
  <2>2. \A k \in 1 .. N : \A x \in Nat : step[k][x] = x + w[k]
    BY <2>1
  <2>3. \A k \in 0 .. N : S[k] = Nat
    BY <1>1
  <2> HIDE <1>1
  <2>4. \A k \in 1 .. N : k \in 0 .. N /\ k - 1 \in 0 .. N
    OBVIOUS
  <2>5. 0 \in 0 .. N /\ \A k \in 1 .. N : w[k] \in Nat
    OBVIOUS
  <2> QED
    BY <2>2, <2>3, <2>4, <2>5
<1> HIDE <1>1
<1>3. Leads(step, S, N) /\ 0 \in S[0]
  <2>1. ASSUME NEW k \in 1 .. N, NEW x \in S[k - 1]
        PROVE  step[k][x] \in S[k]
    <3>1. x \in Nat /\ w[k] \in Nat /\ S[k] = Nat
      BY <1>2
    <3>2. step[k][x] = x + w[k]
      BY <1>2, <3>1
    <3> QED
      BY <3>1, <3>2
  <2> QED
    BY <1>2, <2>1 DEF Leads
<1>4. PICK f : IsRun(f, N, 0, step, S)
  BY <1>3, Iterates
<1>5. /\ f = [k \in 0 .. N |-> f[k]] /\ f[0] = 0
      /\ \A k \in 0 .. N : f[k] \in S[k]
      /\ \A k \in 1 .. N : f[k] = step[k][f[k - 1]]
  BY <1>4 DEF IsRun
<1>6. \A k \in 0 .. N : f[k] \in Nat
  BY <1>2, <1>5
<1>7. \A k \in 1 .. N : f[k] = f[k - 1] + w[k]
  BY <1>2, <1>5, <1>6
<1> QED
  BY <1>5, <1>6, <1>7 DEF IsSum

LEMMA SumsLE ==
    ASSUME NEW N \in Nat, NEW w \in [1 .. N -> Nat], NEW v \in [1 .. N -> Nat],
           NEW f, IsSum(f, w, N), NEW g, IsSum(g, v, N), Below(w, v, N)
    PROVE  f[N] <= g[N]
<1>1. PICK P : P = {k \in 0 .. N : f[k] <= g[k]}
  OBVIOUS
<1>2. /\ f[0] = 0 /\ g[0] = 0
      /\ \A k \in 0 .. N : f[k] \in Nat /\ g[k] \in Nat
      /\ \A k \in 1 .. N : f[k] = f[k - 1] + w[k] /\ g[k] = g[k - 1] + v[k]
  BY DEF IsSum
<1>3. \A k \in 1 .. N : /\ k \in 0 .. N /\ k - 1 \in 0 .. N
                        /\ w[k] \in Nat /\ v[k] \in Nat /\ w[k] <= v[k]
  BY DEF Below
<1>4. 0 \in P
  BY <1>1, <1>2
<1>5. ASSUME NEW k \in 1 .. N, k - 1 \in P PROVE k \in P
  BY <1>1, <1>2, <1>3, <1>5
<1>6. 0 .. N \subseteq P
  BY <1>4, <1>5, UpTo, Zenon
<1> QED
  BY <1>1, <1>6

LEMMA SumsSame ==
    ASSUME NEW N \in Nat, NEW w \in [1 .. N -> Nat],
           NEW f, IsSum(f, w, N), NEW g, IsSum(g, w, N)
    PROVE  f[N] = g[N]
<1>1. Below(w, w, N)
  BY DEF Below
<1>2. f[N] <= g[N] /\ g[N] <= f[N]
  BY <1>1, SumsLE
<1>3. f[N] \in Nat /\ g[N] \in Nat
  BY DEF IsSum
<1> QED
  BY <1>2, <1>3

LEMMA WeightsAre ==
    ASSUME NEW I \in Seq(IncType), NEW count \in [1 .. Len(I) -> Nat], NEW s
    PROVE  /\ Weights(I, count, s) \in [1 .. Len(I) -> Nat] /\ Len(I) \in Nat
           /\ \A k \in 1 .. Len(I) :
                 Weights(I, count, s)[k] = IF I[k].service = s THEN count[k] ELSE 0
<1>1. \A k \in 1 .. Len(I) : count[k] \in Nat
  OBVIOUS
<1> QED
  BY <1>1 DEF Weights

LEMMA TotalIs ==
    ASSUME NEW I \in Seq(IncType), NEW count \in [1 .. Len(I) -> Nat], NEW s
    PROVE  \E f : IsSum(f, Weights(I, count, s), Len(I)) /\ Total(I, count, s) = f[Len(I)]
<1>1. PICK N, w : N = Len(I) /\ w = Weights(I, count, s)
  OBVIOUS
<1>2. /\ N \in Nat /\ w \in [1 .. N -> Nat]
      /\ \A k \in 1 .. N : w[k] = IF I[k].service = s THEN count[k] ELSE 0
  BY <1>1, WeightsAre
<1>3. PICK f : f = [k \in 0 .. N |-> f[k]] /\ IsSum(f, w, N)
  BY <1>2, SumExists
<1>4. f = [k \in 0 .. N |-> IF k = 0 THEN 0
                 ELSE f[k - 1] + (IF I[k].service = s THEN count[k] ELSE 0)]
  <2>1. \A k \in 0 .. N : k # 0 => k \in 1 .. N
    BY <1>2
  <2>2. f[0] = 0 /\ \A k \in 1 .. N : f[k] = f[k - 1] + w[k]
    BY <1>3 DEF IsSum
  <2>3. \A k \in 0 .. N : f[k] = IF k = 0 THEN 0
                 ELSE f[k - 1] + (IF I[k].service = s THEN count[k] ELSE 0)
    BY <1>2, <2>1, <2>2
  <2> QED
    BY <1>3, <2>3
<1> DEFINE t[k \in 0 .. Len(I)] ==
             IF k = 0 THEN 0
             ELSE t[k - 1] + (IF I[k].service = s THEN count[k] ELSE 0)
<1>5. t = [k \in 0 .. Len(I) |->
             IF k = 0 THEN 0
             ELSE t[k - 1] + (IF I[k].service = s THEN count[k] ELSE 0)]
  <2> SUFFICES \E g : g = [k \in 0 .. Len(I) |->
             IF k = 0 THEN 0
             ELSE g[k - 1] + (IF I[k].service = s THEN count[k] ELSE 0)]
    BY Zenon
  <2> QED
    BY <1>1, <1>4
<1>6. Total(I, count, s) = t[Len(I)]
  BY Zenon DEF Total
<1> HIDE DEF t
<1>7. t[0] = 0 /\ \A k \in 1 .. N : t[k] = t[k - 1] + w[k]
  <2>1. 0 \in 0 .. Len(I) /\ \A k \in 1 .. N : k \in 0 .. Len(I) /\ k # 0
    BY <1>1, <1>2
  <2>2. t[0] = 0 /\ \A k \in 1 .. N :
           t[k] = t[k - 1] + (IF I[k].service = s THEN count[k] ELSE 0)
    BY <1>5, <2>1
  <2> QED
    BY <1>2, <2>2
<1>8. \A k \in 0 .. N : t[k] \in Nat
  <2>1. PICK P : P = {k \in 0 .. N : t[k] \in Nat}
    OBVIOUS
  <2>2. 0 \in P
    BY <1>2, <1>7, <2>1
  <2>3. ASSUME NEW k \in 1 .. N, k - 1 \in P PROVE k \in P
    <3>1. k \in 0 .. N /\ t[k - 1] \in Nat /\ w[k] \in Nat
      BY <1>2, <2>1, <2>3
    <3>2. t[k] = t[k - 1] + w[k]
      BY <1>7
    <3> QED
      BY <2>1, <3>1, <3>2
  <2>4. 0 .. N \subseteq P
    BY <1>2, <2>2, <2>3, UpTo, Zenon
  <2> QED
    BY <2>1, <2>4
<1>9. IsSum(t, w, N)
  BY <1>7, <1>8 DEF IsSum
<1> QED
  BY <1>1, <1>6, <1>9

LEMMA TotalNat ==
    ASSUME NEW I \in Seq(IncType), NEW c \in [1 .. Len(I) -> Nat], NEW s
    PROVE  Total(I, c, s) \in Nat
<1>1. PICK f : IsSum(f, Weights(I, c, s), Len(I)) /\ Total(I, c, s) = f[Len(I)]
  BY TotalIs
<1>2. Len(I) \in 0 .. Len(I)
  OBVIOUS
<1> QED
  BY <1>1, <1>2 DEF IsSum

LEMMA TotalLE ==
    ASSUME NEW I \in Seq(IncType), NEW J \in Seq(IncType), Len(I) = Len(J),
           NEW c \in [1 .. Len(I) -> Nat], NEW d \in [1 .. Len(J) -> Nat], NEW s,
           Below(Weights(I, c, s), Weights(J, d, s), Len(I))
    PROVE  Total(I, c, s) <= Total(J, d, s)
<1>1. PICK f : IsSum(f, Weights(I, c, s), Len(I)) /\ Total(I, c, s) = f[Len(I)]
  BY TotalIs
<1>2. PICK g : IsSum(g, Weights(J, d, s), Len(J)) /\ Total(J, d, s) = g[Len(J)]
  BY TotalIs
<1>3. PICK N, w, v : N = Len(I) /\ w = Weights(I, c, s) /\ v = Weights(J, d, s)
  OBVIOUS
<1>4. N \in Nat /\ w \in [1 .. N -> Nat] /\ v \in [1 .. N -> Nat]
  BY <1>3, WeightsAre
<1>5. IsSum(f, w, N) /\ IsSum(g, v, N) /\ Below(w, v, N)
  BY <1>1, <1>2, <1>3
<1>6. f[N] <= g[N]
  BY <1>4, <1>5, SumsLE
<1> QED
  BY <1>1, <1>2, <1>3, <1>6

LEMMA TotalSame ==
    ASSUME NEW I \in Seq(IncType), NEW J \in Seq(IncType), Len(I) = Len(J),
           NEW c \in [1 .. Len(I) -> Nat], NEW d \in [1 .. Len(J) -> Nat], NEW s,
           Weights(I, c, s) = Weights(J, d, s)
    PROVE  Total(I, c, s) = Total(J, d, s)
<1>1. PICK f : IsSum(f, Weights(I, c, s), Len(I)) /\ Total(I, c, s) = f[Len(I)]
  BY TotalIs
<1>2. PICK g : IsSum(g, Weights(J, d, s), Len(J)) /\ Total(J, d, s) = g[Len(J)]
  BY TotalIs
<1>3. PICK N, w : N = Len(I) /\ w = Weights(I, c, s)
  OBVIOUS
<1>4. N \in Nat /\ w \in [1 .. N -> Nat]
  BY <1>3, WeightsAre
<1>5. IsSum(f, w, N) /\ IsSum(g, w, N)
  BY <1>1, <1>2, <1>3
<1>6. f[N] = g[N]
  BY <1>4, <1>5, SumsSame
<1> QED
  BY <1>1, <1>2, <1>3, <1>6

LEMMA TotalOneMore ==
    ASSUME NEW I \in Seq(IncType), NEW J \in Seq(IncType), Len(I) = Len(J),
           NEW c \in [1 .. Len(I) -> Nat], NEW d \in [1 .. Len(J) -> Nat], NEW s,
           NEW i \in 1 .. Len(I),
           OneMore(Weights(I, c, s), Weights(J, d, s), i, Len(I))
    PROVE  Total(J, d, s) = Total(I, c, s) + 1
<1>1. PICK f : IsSum(f, Weights(I, c, s), Len(I)) /\ Total(I, c, s) = f[Len(I)]
  BY TotalIs
<1>2. PICK g : IsSum(g, Weights(J, d, s), Len(J)) /\ Total(J, d, s) = g[Len(J)]
  BY TotalIs
<1>3. PICK N, w, v : N = Len(I) /\ w = Weights(I, c, s) /\ v = Weights(J, d, s)
  OBVIOUS
<1>4. N \in Nat /\ w \in [1 .. N -> Nat] /\ v \in [1 .. N -> Nat] /\ i \in 1 .. N
  BY <1>3, WeightsAre
<1>5. IsSum(f, w, N) /\ IsSum(g, v, N) /\ OneMore(w, v, i, N)
  BY <1>1, <1>2, <1>3
<1> HIDE <1>3
<1>6. g[N] = f[N] + 1
  <2>1. PICK P : P = {k \in 0 .. N : g[k] = f[k] + (IF i <= k THEN 1 ELSE 0)}
    OBVIOUS
  <2>2. /\ f[0] = 0 /\ g[0] = 0
        /\ \A k \in 0 .. N : f[k] \in Nat /\ g[k] \in Nat
        /\ \A k \in 1 .. N : f[k] = f[k - 1] + w[k] /\ g[k] = g[k - 1] + v[k]
    BY <1>5 DEF IsSum
  <2>3. \A k \in 1 .. N : /\ k \in 0 .. N /\ k - 1 \in 0 .. N
                          /\ w[k] \in Nat /\ v[k] = w[k] + (IF k = i THEN 1 ELSE 0)
    BY <1>4, <1>5 DEF OneMore
  <2>4. 0 \in P
    BY <1>4, <2>1, <2>2
  <2>5. ASSUME NEW k \in 1 .. N, k - 1 \in P PROVE k \in P
    <3>1. /\ g[k - 1] = f[k - 1] + (IF i <= k - 1 THEN 1 ELSE 0)
          /\ f[k - 1] \in Nat /\ w[k] \in Nat
          /\ f[k] = f[k - 1] + w[k] /\ g[k] = g[k - 1] + v[k]
          /\ v[k] = w[k] + (IF k = i THEN 1 ELSE 0)
      BY <2>1, <2>2, <2>3, <2>5
    <3>2. g[k] = f[k] + (IF i <= k THEN 1 ELSE 0)
      <4>1. CASE k = i
        <5>1. ~ (i <= k - 1) /\ i <= k
          BY <4>1
        <5>2. g[k - 1] = f[k - 1] /\ v[k] = w[k] + 1
          BY <3>1, <4>1, <5>1
        <5>4. PICK a, b : a = f[k - 1] /\ b = w[k]
          OBVIOUS
        <5>5. a \in Nat /\ b \in Nat /\ f[k] = a + b /\ g[k] = a + (b + 1)
          BY <3>1, <5>2, <5>4
        <5>6. g[k] = f[k] + 1
          BY <5>5
        <5> QED
          BY <5>1, <5>6
      <4>2. CASE k # i
        BY <3>1, <4>2
      <4> QED
        BY <4>1, <4>2
    <3> QED
      BY <2>1, <2>3, <3>2
  <2>6. 0 .. N \subseteq P
    BY <1>4, <2>4, <2>5, UpTo, Zenon
  <2>7. N \in P
    BY <1>4, <2>6
  <2> QED
    BY <1>4, <2>1, <2>7
<1> QED
  BY <1>1, <1>2, <1>3, <1>6

LEMMA TotalAppend ==
    ASSUME NEW I \in Seq(IncType), NEW J \in Seq(IncType), Len(J) = Len(I) + 1,
           NEW c \in [1 .. Len(I) -> Nat], NEW d \in [1 .. Len(J) -> Nat], NEW s,
           \A k \in 1 .. Len(I) : Weights(I, c, s)[k] = Weights(J, d, s)[k]
    PROVE  Total(J, d, s) = Total(I, c, s) + Weights(J, d, s)[Len(I) + 1]
<1>1. PICK f : IsSum(f, Weights(I, c, s), Len(I)) /\ Total(I, c, s) = f[Len(I)]
  BY TotalIs
<1>2. PICK g : IsSum(g, Weights(J, d, s), Len(J)) /\ Total(J, d, s) = g[Len(J)]
  BY TotalIs
<1>3. PICK N, w, v : N = Len(I) /\ w = Weights(I, c, s) /\ v = Weights(J, d, s)
  OBVIOUS
<1>4. /\ N \in Nat /\ w \in [1 .. N -> Nat] /\ N + 1 \in 1 .. N + 1 /\ N + 1 - 1 = N
      /\ \A k \in 1 .. N : w[k] = v[k]
  <2>1. Weights(I, c, s) \in [1 .. Len(I) -> Nat] /\ Len(I) \in Nat
    BY WeightsAre
  <2>2. N \in Nat /\ w \in [1 .. N -> Nat]
    BY <1>3, <2>1
  <2>3. \A k \in 1 .. N : w[k] = v[k]
    BY <1>3
  <2> QED
    BY <2>2, <2>3
<1>5. IsSum(f, w, N) /\ IsSum(g, v, N + 1)
  BY <1>1, <1>2, <1>3
<1>6. IsSum(g, w, N)
  <2>1. /\ \A k \in 0 .. N : k \in 0 .. N + 1
        /\ \A k \in 1 .. N : k \in 1 .. N + 1
    BY <1>4
  <2>2. /\ g[0] = 0 /\ \A k \in 0 .. N + 1 : g[k] \in Nat
        /\ \A k \in 1 .. N + 1 : g[k] = g[k - 1] + v[k]
    BY <1>5 DEF IsSum
  <2>3. \A k \in 1 .. N : g[k] = g[k - 1] + w[k]
    BY <1>4, <2>1, <2>2
  <2> QED
    BY <2>1, <2>2, <2>3 DEF IsSum
<1>7. f[N] = g[N]
  BY <1>4, <1>5, <1>6, SumsSame
<1>8. g[N + 1] = g[N + 1 - 1] + v[N + 1]
  BY <1>4, <1>5 DEF IsSum
<1>9. Total(J, d, s) = g[N + 1] /\ Total(I, c, s) = f[N] /\ v[N + 1] = Weights(J, d, s)[Len(I) + 1]
  BY <1>1, <1>2, <1>3
<1> QED
  BY <1>4, <1>7, <1>8, <1>9

LEMMA TotalKept ==
    ASSUME NEW I \in Seq(IncType), NEW J \in Seq(IncType), Len(I) = Len(J),
           NEW c \in [1 .. Len(I) -> Nat], NEW s,
           Weights(I, c, s) = Weights(J, c, s)
    PROVE  Total(J, c, s) = Total(I, c, s)
<1>1. c \in [1 .. Len(J) -> Nat]
  OBVIOUS
<1> QED
  BY <1>1, TotalSame

-----------------------------------------------------------------------------
(* Alerts are counted.                                                     *)

LEMMA TallyStart ==
    ASSUME Init
    PROVE  Tally(<<>>)
<1>1. incs = <<>> /\ incs \in Seq(IncType) /\ Len(incs) = 0
  BY DEF Init
<1>2. <<>> \in [1 .. Len(incs) -> Nat]
  BY <1>1
<1>3. ASSUME NEW s \in Services
      PROVE  Total(incs, <<>>, s) = handled[s]
  <2>1. PICK f : /\ IsSum(f, Weights(incs, <<>>, s), Len(incs))
                 /\ Total(incs, <<>>, s) = f[Len(incs)]
    BY <1>1, <1>2, TotalIs
  <2>2. Total(incs, <<>>, s) = 0
    BY <1>1, <2>1 DEF IsSum
  <2> QED
    BY <2>2 DEF Init
<1>4. \A w \in Workers : job[w].at \notin Holding
  BY NotWriting DEF Init, Idle, Backs
<1> QED
  BY <1>1, <1>2, <1>3, <1>4 DEF Tally

LEMMA TallyCounts ==
    ASSUME TypeInv, NEW count, Tally(count)
    PROVE  AlertsCounted
<1>1. incs \in Seq(IncType) /\ Len(incs) \in Nat /\ DOMAIN incs = 1 .. Len(incs)
  BY TypeFacts
<1>2. /\ AlertCounts \in [1 .. Len(incs) -> Nat]
      /\ \A i \in 1 .. Len(incs) : AlertCounts[i] = incs[i].alerts
  <2>1. \A i \in 1 .. Len(incs) : incs[i].alerts \in Nat
    <3>1. \A i \in 1 .. Len(incs) : incs[i] \in IncType
      BY <1>1
    <3> QED
      BY <3>1 DEF IncType
  <2> QED
    BY <1>1, <2>1 DEF AlertCounts
<1>3. /\ count \in [1 .. Len(incs) -> Nat]
      /\ \A s \in Services : Total(incs, count, s) = handled[s]
      /\ \A i \in 1 .. Len(incs) :
            /\ incs[i].alerts <= count[i]
            /\ incs[i].service \notin crowded => incs[i].alerts = count[i]
  BY DEF Tally
<1>4. ASSUME NEW s \in Services
      PROVE  Total(incs, AlertCounts, s) <= handled[s]
  <2>1. Below(Weights(incs, AlertCounts, s), Weights(incs, count, s), Len(incs))
    <3>1. ASSUME NEW k \in 1 .. Len(incs)
          PROVE  Weights(incs, AlertCounts, s)[k] <= Weights(incs, count, s)[k]
      <4>1. /\ Weights(incs, AlertCounts, s)[k]
                  = IF incs[k].service = s THEN AlertCounts[k] ELSE 0
            /\ Weights(incs, count, s)[k] = IF incs[k].service = s THEN count[k] ELSE 0
        BY DEF Weights
      <4>2. AlertCounts[k] <= count[k]
        BY <1>2, <1>3
      <4> QED
        BY <4>1, <4>2
    <3> QED
      BY <3>1 DEF Below
  <2>2. Total(incs, AlertCounts, s) <= Total(incs, count, s)
    BY <1>1, <1>2, <1>3, <2>1, TotalLE
  <2> QED
    BY <1>3, <2>2
<1>5. ASSUME NEW s \in Services, s \notin crowded
      PROVE  Total(incs, AlertCounts, s) = handled[s]
  <2>1. Weights(incs, AlertCounts, s) = Weights(incs, count, s)
    BY <1>2, <1>3, <1>5 DEF Weights
  <2>2. Total(incs, AlertCounts, s) = Total(incs, count, s)
    BY <1>1, <1>2, <1>3, <2>1, TotalSame
  <2> QED
    BY <1>3, <2>2
<1> QED
  BY <1>4, <1>5 DEF AlertsCounted

(* A handler other than the one that writes keeps its copy. *)
LEMMA TallyOthers ==
    ASSUME TypeInv, NEW count, Tally(count), NEW w \in Workers, Writes(w),
           NEW d, \A i \in 1 .. Len(incs) : count[i] <= d[i] /\ count[i] \in Nat /\ d[i] \in Nat
    PROVE  \A v \in Workers : job'[v].at \in Holding => job'[v].copy.alerts <= d[job'[v].inc]
<1>1. ASSUME NEW v \in Workers, job'[v].at \in Holding
      PROVE  job'[v].copy.alerts <= d[job'[v].inc]
  <2>1. v # w
    BY <1>1 DEF Writes, Holding, Writing
  <2>2. job'[v] = job[v]
    BY <2>1, TypeFacts, ProceedIs DEF Writes
  <2>3. /\ job[v].copy.alerts <= count[job[v].inc]
        /\ job[v].inc \in 1 .. Len(incs) /\ job[v].copy.alerts \in Nat
    <3>1. job[v].copy \in IncType /\ job[v].inc \in 1 .. Len(incs)
      BY <1>1, <2>2, CopyIs
    <3> QED
      BY <1>1, <2>2, <3>1 DEF Tally, IncType
  <2>4. count[job[v].inc] <= d[job[v].inc] /\ count[job[v].inc] \in Nat /\ d[job[v].inc] \in Nat
    BY <2>3
  <2> QED
    BY <2>2, <2>3, <2>4
<1> QED
  BY <1>1

LEMMA TallyMoves ==
    ASSUME TypeInv, TypeInv', NEW count, Tally(count), NEW w \in Workers, Moves(w)
    PROVE  Tally(count)'
<1>1. /\ incs' = incs /\ handled' = handled /\ \A v \in Workers : v # w => job'[v] = job[v]
      /\ crowded \subseteq crowded'
  BY TypeFacts, ProceedIs DEF Moves
<1>2. ASSUME NEW v \in Workers, job'[v].at \in Holding
      PROVE  job'[v].copy.alerts <= count[job'[v].inc]
  <2>1. CASE v # w
    BY <1>1, <1>2, <2>1 DEF Tally
  <2>2. CASE v = w
    <3>1. job'[w].inc \in 1 .. Len(incs)
      <4>1. JobOK(job'[w], regs', incs') /\ Len(incs) \in Nat
        BY TypeFacts DEF TypeInv
      <4> QED
        BY <1>1, <1>2, <2>2, <4>1 DEF JobOK
    <3>2. \/ job'[w].copy = incs[job'[w].inc]
          \/ /\ job[w].at \in Holding
             /\ job'[w].copy = job[w].copy /\ job'[w].inc = job[w].inc
      BY <1>2, <2>2 DEF Moves, Starts, Leaves, GoesOn, Holding, Writing
    <3> QED
      BY <2>2, <3>1, <3>2 DEF Tally
  <2> QED
    BY <2>1, <2>2
<1> QED
  BY <1>1, <1>2 DEF Tally

LEMMA TallyMerge ==
    ASSUME TypeInv, Fresh, NEW count, Tally(count), NEW w \in Workers, Merge(w)
    PROVE  \E d : Tally(d)'
<1>1. PICK i : i = job[w].inc
  OBVIOUS
<1>2. /\ incs \in Seq(IncType) /\ incs' \in Seq(IncType) /\ Len(incs) \in Nat
      /\ i \in 1 .. Len(incs) /\ Len(incs') = Len(incs)
      /\ count \in [1 .. Len(incs) -> Nat]
      /\ \A k \in 1 .. Len(incs) : count[k] \in Nat
  BY <1>1, MergeIs, CopyIs, TypeFacts DEF Tally
<1>3. PICK d : d = [k \in 1 .. Len(incs) |-> count[k] + (IF k = i THEN 1 ELSE 0)]
  OBVIOUS
<1>4. /\ d \in [1 .. Len(incs) -> Nat]
      /\ \A k \in 1 .. Len(incs) : d[k] = count[k] + (IF k = i THEN 1 ELSE 0)
      /\ \A k \in 1 .. Len(incs) : count[k] <= d[k] /\ d[k] \in Nat
  BY <1>2, <1>3
<1>5. /\ incs[i].service = job[w].svc /\ job[w].svc \in Services
      /\ job[w].copy.alerts \in Nat /\ job[w].copy.alerts <= count[i]
      /\ job[w].svc \notin crowded => job[w].copy.alerts = count[i]
  <2>1. job[w].at \in Holding
    BY MergeIs
  <2>2. incs[i].service = job[w].svc /\ job[w].svc \in Services /\ job[w].copy \in IncType
    BY <1>1, <2>1, CopyIs
  <2>3. job[w].copy.alerts <= count[i]
    BY <1>1, <2>1 DEF Tally
  <2>4. job[w].svc \notin crowded => job[w].copy = incs[i] /\ incs[i].alerts = count[i]
    BY <1>1, <1>2, <2>1, <2>2 DEF Fresh, Tally
  <2> QED
    BY <2>2, <2>3, <2>4 DEF IncType
<1>6. /\ \A k \in 1 .. Len(incs) : k # i => incs'[k] = incs[k]
      /\ incs'[i].service = incs[i].service
      /\ incs'[i].alerts = job[w].copy.alerts + 1
      /\ \A k \in 1 .. Len(incs) : incs'[k].service = incs[k].service
  <2>1. /\ \A k \in 1 .. Len(incs) : k # i => incs'[k] = incs[k]
        /\ incs'[i] = Merged(job[w])
    BY <1>1, MergeIs
  <2>2. /\ Merged(job[w]).service = incs[i].service
        /\ Merged(job[w]).alerts = job[w].copy.alerts + 1
    BY <1>1, MergeIs, MergedIs, CopyIs
  <2> QED
    BY <2>1, <2>2
<1>7. ASSUME NEW s \in Services
      PROVE  Total(incs', d, s) = handled'[s]
  <2>1. Total(incs, count, s) = handled[s]
    BY DEF Tally
  <2>2. /\ \A k \in 1 .. Len(incs) :
              Weights(incs, count, s)[k] = IF incs[k].service = s THEN count[k] ELSE 0
        /\ \A k \in 1 .. Len(incs) :
              Weights(incs', d, s)[k] = IF incs[k].service = s THEN d[k] ELSE 0
    <3>1. Len(incs') = Len(incs)
      BY <1>2
    <3> QED
      BY <1>6, <3>1 DEF Weights
  <2>9. PICK I, J : I = incs /\ J = incs'
    OBVIOUS
  <2>10. /\ I \in Seq(IncType) /\ J \in Seq(IncType) /\ Len(I) = Len(J)
         /\ count \in [1 .. Len(I) -> Nat] /\ d \in [1 .. Len(J) -> Nat]
         /\ i \in 1 .. Len(I)
    BY <1>2, <1>4, <2>9
  <2>3. CASE s = job[w].svc
    <3>1. OneMore(Weights(incs, count, s), Weights(incs', d, s), i, Len(incs))
      <4>1. ASSUME NEW k \in 1 .. Len(incs)
            PROVE  Weights(incs', d, s)[k]
                      = Weights(incs, count, s)[k] + (IF k = i THEN 1 ELSE 0)
        <5>1. CASE incs[k].service = s
          BY <1>4, <2>2, <5>1
        <5>2. CASE incs[k].service # s
          BY <1>5, <2>2, <2>3, <5>2
        <5> QED
          BY <5>1, <5>2
      <4> QED
        BY <4>1 DEF OneMore
    <3>2. OneMore(Weights(I, count, s), Weights(J, d, s), i, Len(I))
      BY <2>9, <3>1
    <3>3. Total(J, d, s) = Total(I, count, s) + 1
      BY <2>10, <3>2, TotalOneMore
    <3> QED
      BY <2>1, <2>3, <2>9, <3>3, MergeIs
  <2>4. CASE s # job[w].svc
    <3>1. Weights(incs, count, s) = Weights(incs', d, s)
      <4>1. \A k \in 1 .. Len(incs) : incs[k].service = s => d[k] = count[k]
        BY <1>2, <1>4, <1>5, <2>4
      <4> QED
        BY <1>2, <1>6, <4>1 DEF Weights
    <3>2. Weights(I, count, s) = Weights(J, d, s)
      BY <2>9, <3>1
    <3>3. Total(I, count, s) = Total(J, d, s)
      BY <2>10, <3>2, TotalSame
    <3> QED
      BY <2>1, <2>4, <2>9, <3>3, MergeIs
  <2> QED
    BY <2>3, <2>4
<1>8. ASSUME NEW k \in 1 .. Len(incs)
      PROVE  /\ incs'[k].alerts <= d[k]
             /\ incs'[k].service \notin crowded' => incs'[k].alerts = d[k]
  <2>1. crowded \subseteq crowded'
    BY MergeIs, TypeFacts, ProceedIs
  <2>2. CASE k = i
    BY <1>2, <1>4, <1>5, <1>6, <2>1, <2>2
  <2>3. CASE k # i
    <3>1. incs'[k] = incs[k] /\ d[k] = count[k]
      BY <1>2, <1>4, <1>6, <2>3
    <3> QED
      BY <2>1, <3>1 DEF Tally
  <2> QED
    BY <2>2, <2>3
<1>9. \A v \in Workers : job'[v].at \in Holding => job'[v].copy.alerts <= d[job'[v].inc]
  BY <1>2, <1>4, WritesIs, TallyOthers
<1>10. Tally(d)'
  BY <1>2, <1>4, <1>7, <1>8, <1>9 DEF Tally
<1> QED
  BY <1>10

LEMMA TallyCreate ==
    ASSUME TypeInv, NEW count, Tally(count), NEW w \in Workers, Create(w)
    PROVE  \E d : Tally(d)'
<1>1. PICK N : N = Len(incs)
  OBVIOUS
<1>2. /\ incs \in Seq(IncType) /\ incs' \in Seq(IncType) /\ N \in Nat
      /\ Len(incs') = N + 1 /\ N + 1 \in 1 .. N + 1
      /\ count \in [1 .. Len(incs) -> Nat]
      /\ \A k \in 1 .. N : count[k] \in Nat /\ k \in 1 .. N + 1 /\ k # N + 1
      /\ \A k \in 1 .. N + 1 : k = N + 1 \/ k \in 1 .. N
  <2>1. /\ incs \in Seq(IncType) /\ N \in Nat /\ count \in [1 .. Len(incs) -> Nat]
    BY <1>1, TypeFacts DEF Tally
  <2>2. incs' \in Seq(IncType) /\ Len(incs') = N + 1
    BY <1>1, CreateIs
  <2>3. /\ N + 1 \in 1 .. N + 1 /\ \A k \in 1 .. N : k \in 1 .. N + 1 /\ k # N + 1
        /\ \A k \in 1 .. N + 1 : k = N + 1 \/ k \in 1 .. N
    BY <2>1
  <2>4. \A k \in 1 .. N : count[k] \in Nat
    BY <1>1, <2>1
  <2> QED
    BY <2>1, <2>2, <2>3, <2>4
<1>3. PICK d : d = [k \in 1 .. N + 1 |-> IF k = N + 1 THEN 1 ELSE count[k]]
  OBVIOUS
<1>4. /\ d \in [1 .. Len(incs') -> Nat] /\ d[N + 1] = 1
      /\ \A k \in 1 .. N : d[k] = count[k]
  BY <1>2, <1>3
<1>5. /\ \A k \in 1 .. N : incs'[k] = incs[k]
      /\ incs'[N + 1].service = job[w].svc /\ incs'[N + 1].alerts = 1
      /\ job[w].svc \in Services
  <2>1. /\ \A k \in 1 .. N : incs'[k] = incs[k]
        /\ incs'[N + 1] = Created(job[w]) /\ job[w].svc \in Services
    BY <1>1, CreateIs
  <2>2. Created(job[w]).service = job[w].svc /\ Created(job[w]).alerts = 1
    BY DEF Created
  <2> QED
    BY <2>1, <2>2
<1>6. ASSUME NEW s \in Services
      PROVE  Total(incs', d, s) = handled'[s]
  <2>1. Total(incs, count, s) = handled[s] /\ handled[s] \in Nat
    BY TypeFacts DEF Tally, FieldsOK
  <2>2. /\ \A k \in 1 .. Len(incs) :
              Weights(incs, count, s)[k] = IF incs[k].service = s THEN count[k] ELSE 0
        /\ \A k \in 1 .. Len(incs') :
              Weights(incs', d, s)[k] = IF incs'[k].service = s THEN d[k] ELSE 0
    BY DEF Weights
  <2>3. \A k \in 1 .. Len(incs) : Weights(incs, count, s)[k] = Weights(incs', d, s)[k]
    BY <1>1, <1>2, <1>4, <1>5, <2>2
  <2>9. PICK I, J : I = incs /\ J = incs'
    OBVIOUS
  <2>4. /\ Len(J) = Len(I) + 1 /\ I \in Seq(IncType) /\ J \in Seq(IncType)
        /\ count \in [1 .. Len(I) -> Nat] /\ d \in [1 .. Len(J) -> Nat]
        /\ \A k \in 1 .. Len(I) : Weights(I, count, s)[k] = Weights(J, d, s)[k]
    BY <1>1, <1>2, <1>4, <2>3, <2>9
  <2>10. Total(J, d, s) = Total(I, count, s) + Weights(J, d, s)[Len(I) + 1]
    BY <2>4, TotalAppend
  <2>5. Total(incs', d, s) = Total(incs, count, s) + Weights(incs', d, s)[Len(incs) + 1]
    BY <2>9, <2>10
  <2>6. Weights(incs', d, s)[N + 1] = IF s = job[w].svc THEN 1 ELSE 0
    BY <1>2, <1>4, <1>5, <2>2
  <2>7. handled'[s] = handled[s] + (IF s = job[w].svc THEN 1 ELSE 0)
    <3>1. s = job[w].svc => handled'[s] = handled[s] + 1
      BY CreateIs
    <3>2. s # job[w].svc => handled'[s] = handled[s]
      BY CreateIs
    <3> QED
      BY <2>1, <3>1, <3>2
  <2> QED
    BY <1>1, <2>1, <2>5, <2>6, <2>7
<1>7. ASSUME NEW k \in 1 .. N + 1
      PROVE  /\ incs'[k].alerts <= d[k]
             /\ incs'[k].service \notin crowded' => incs'[k].alerts = d[k]
  <2>1. crowded \subseteq crowded'
    BY CreateIs, TypeFacts, ProceedIs
  <2>2. CASE k = N + 1
    BY <1>4, <1>5, <2>2
  <2>3. CASE k \in 1 .. N
    <3>1. incs'[k] = incs[k] /\ d[k] = count[k]
      BY <1>4, <1>5, <2>3
    <3> QED
      BY <1>1, <2>1, <2>3, <3>1 DEF Tally
  <2> QED
    BY <1>2, <2>2, <2>3
<1>8. \A v \in Workers : job'[v].at \in Holding => job'[v].copy.alerts <= d[job'[v].inc]
  <2>1. \A k \in 1 .. Len(incs) : count[k] <= d[k] /\ count[k] \in Nat /\ d[k] \in Nat
    BY <1>1, <1>2, <1>4
  <2> QED
    BY <2>1, WritesIs, TallyOthers
<1>9. Tally(d)'
  BY <1>2, <1>4, <1>6, <1>7, <1>8 DEF Tally
<1> QED
  BY <1>9

(* A copy written back for a change of status counts what it counted. *)
LEMMA TallyRestate ==
    ASSUME TypeInv, Fresh, NEW count, Tally(count), NEW w \in Workers, Writes(w),
           job[w].at \in Holding, handled' = handled,
           incs' \in Seq(IncType), Len(incs') = Len(incs), IncsGrow(incs', incs),
           incs'[job[w].inc].alerts = job[w].copy.alerts,
           \A k \in 1 .. Len(incs) : k # job[w].inc => incs'[k] = incs[k]
    PROVE  Tally(count)'
<1>1. /\ incs \in Seq(IncType) /\ Len(incs) \in Nat /\ crowded \subseteq crowded'
      /\ count \in [1 .. Len(incs) -> Nat]
      /\ \A k \in 1 .. Len(incs) : count[k] \in Nat /\ incs'[k].service = incs[k].service
  BY TypeFacts, ProceedIs DEF Tally, IncsGrow, Writes
<1>2. ASSUME NEW s \in Services
      PROVE  Total(incs', count, s) = handled'[s]
  <2>1. Weights(incs, count, s) = Weights(incs', count, s)
    BY <1>1 DEF Weights
  <2>2. Total(incs', count, s) = Total(incs, count, s)
    <3>1. incs' \in Seq(IncType) /\ Len(incs) = Len(incs')
      OBVIOUS
    <3> QED
      BY <1>1, <2>1, <3>1, TotalKept
  <2> QED
    BY <2>2 DEF Tally
<1>3. ASSUME NEW k \in 1 .. Len(incs)
      PROVE  /\ incs'[k].alerts <= count[k]
             /\ incs'[k].service \notin crowded' => incs'[k].alerts = count[k]
  <2>1. CASE k = job[w].inc
    <3>1. incs[k].service = job[w].svc
      BY <2>1, CopyIs
    <3>2. job[w].copy.alerts <= count[k]
      BY <2>1 DEF Tally
    <3>3. job[w].svc \notin crowded => job[w].copy = incs[k]
      BY <2>1 DEF Fresh
    <3>4. incs[k].service \notin crowded => incs[k].alerts = count[k]
      BY DEF Tally
    <3> QED
      BY <1>1, <2>1, <3>1, <3>2, <3>3, <3>4
  <2>2. CASE k # job[w].inc
    <3>1. incs'[k] = incs[k]
      BY <2>2
    <3> QED
      BY <1>1, <3>1 DEF Tally
  <2> QED
    BY <2>1, <2>2
<1>4. \A v \in Workers : job'[v].at \in Holding => job'[v].copy.alerts <= count[job'[v].inc]
  <2>1. \A i \in 1 .. Len(incs) :
           count[i] <= count[i] /\ count[i] \in Nat /\ count[i] \in Nat
    BY <1>1
  <2> QED
    BY <2>1, TallyOthers
<1> QED
  BY <1>1, <1>2, <1>3, <1>4 DEF Tally

LEMMA TallyStep ==
    ASSUME TypeInv, TypeInv', Fresh, NEW count, Tally(count), [Next]_vars
    PROVE  \E d : Tally(d)'
<1>1. ASSUME NEW w \in Workers, CloseIncident(w)
      PROVE  Tally(count)'
  <2>1. Writes(w)
    BY <1>1, WritesIs
  <2> QED
    BY <1>1, <2>1, CloseIs, TallyRestate
<1>2. ASSUME AdminUpdate
      PROVE  Tally(count)'
  <2>1. Writes(AdminAPI)
    BY <1>2, WritesIs
  <2> QED
    BY <1>2, <2>1, AdminUpdateIs, TallyRestate
<1>3. ASSUME Outside
      PROVE  Tally(count)'
  BY <1>3 DEF Outside, Tally
<1>4. ASSUME NEW w \in Workers, Moves(w)
      PROVE  Tally(count)'
  BY <1>4, TallyMoves
<1>5. ASSUME NEW w \in Workers, Merge(w) \/ Create(w)
      PROVE  \E d : Tally(d)'
  BY <1>5, TallyMerge, TallyCreate
<1> QED
  BY <1>1, <1>2, <1>3, <1>4, <1>5, StepIs

-----------------------------------------------------------------------------
(* Grouping.                                                               *)

LEMMA SeenIs ==
    ASSUME NEW I \in Seq(IncType), NEW i \in 1 .. Len(I)
    PROVE  /\ I[i].service \in Services /\ I[i].deploy \in DeployIDs
           /\ I[i].seen \in Nat /\ I[i].seen <= MaxTime
<1>1. I[i] \in IncType
  BY SeqIs
<1> QED
  BY <1>1, AlertParametersAssumption DEF IncType

(* A search that finds nothing: no incident is joined. *)
LEMMA NoneFound ==
    ASSUME TypeInv, NEW s, NEW d, FindActiveByKey(s, d, horizon) = {}
    PROVE  NoneElse(incs, horizon, 0, s, d)
<1> SUFFICES ASSUME NEW n \in 1 .. Len(incs), Joins(incs, horizon, n, s, d) PROVE FALSE
  BY DEF NoneElse
<1>1. incs \in Seq(IncType) /\ DOMAIN incs = 1 .. Len(incs) /\ MaxTime \in Nat
  BY TypeFacts, SeqIs, AlertParametersAssumption
<1>2. PICK M : M = {i \in DOMAIN incs :
                      /\ incs[i].status \in Open
                      /\ incs[i].seen > horizon
                      /\ incs[i].service = s
                      /\ d # NoDeploy => incs[i].deploy = d}
  OBVIOUS
<1>3. n \in M /\ M \subseteq 1 .. Len(incs)
  BY <1>1, <1>2 DEF Joins
<1>4. PICK T : T = {MaxTime - incs[i].seen : i \in M}
  OBVIOUS
<1>5. T \in SUBSET Nat /\ T # {}
  <2>1. \A i \in M : MaxTime - incs[i].seen \in Nat
    BY <1>1, <1>3, SeenIs
  <2> QED
    BY <1>3, <1>4, <2>1
<1>6. PICK x \in T : \A y \in T : x <= y
  BY <1>5, Least
<1>7. PICK i \in M : x = MaxTime - incs[i].seen
  BY <1>4
<1>8. ASSUME NEW k \in M PROVE incs[k].seen <= incs[i].seen
  <2>1. MaxTime - incs[i].seen <= MaxTime - incs[k].seen
    BY <1>4, <1>6, <1>7
  <2>2. incs[i].seen \in Nat /\ incs[k].seen \in Nat
    BY <1>1, <1>3, SeenIs
  <2> QED
    BY <1>1, <2>1, <2>2
<1>9. i \in FindActiveByKey(s, d, horizon)
  <2>1. FindActiveByKey(s, d, horizon)
           = {m \in M : \A k \in M : incs[k].seen <= incs[m].seen}
    BY <1>2 DEF FindActiveByKey
  <2> QED
    BY <1>8, <2>1
<1> QED
  BY <1>9

(* What a search for s and d that names a deploy, or finds one without,    *)
(* returns is joined.                                                      *)
LEMMA FoundJoins ==
    ASSUME TypeInv, NEW s, NEW d, NEW i \in FindActiveByKey(s, d, horizon)
    PROVE  i \in 1 .. Len(incs) /\ Joins(incs, horizon, i, s, incs[i].deploy)
<1>1. DOMAIN incs = 1 .. Len(incs)
  BY TypeFacts, SeqIs
<1> QED
  BY <1>1 DEF FindActiveByKey, Joins

(* No incident starts to be joined for s and d. *)
Thins(s, d) ==
    \A k \in 1 .. Len(incs') :
       Joins(incs', horizon', k, s, d) => k \in 1 .. Len(incs) /\ Joins(incs, horizon, k, s, d)

LEMMA ThinsKeeps ==
    ASSUME NEW s, NEW d, Thins(s, d), NEW i, NoneElse(incs, horizon, i, s, d)
    PROVE  NoneElse(incs', horizon', i, s, d)
BY DEF Thins, NoneElse

LEMMA ThinsSame ==
    ASSUME TypeInv, TypeInv', incs' = incs, horizon <= horizon', NEW s, NEW d
    PROVE  Thins(s, d)
<1>1. incs \in Seq(IncType) /\ horizon \in Int /\ horizon' \in Int
  BY TypeFacts DEF TypeInv, FieldsOK
<1>2. \A k \in 1 .. Len(incs) : incs[k].seen \in Nat
  BY <1>1, SeenIs
<1> QED
  BY <1>1, <1>2 DEF Thins, Joins

(* A step that writes incident n, of service t and deploy e. *)
WritesOne(n, t, e) ==
    /\ horizon' = horizon /\ n \in 1 .. Len(incs') /\ Len(incs) <= Len(incs')
    /\ incs'[n].service = t /\ incs'[n].deploy = e
    /\ \A k \in 1 .. Len(incs') : k # n => k \in 1 .. Len(incs) /\ incs'[k] = incs[k]

LEMMA ThinsOthers ==
    ASSUME NEW n, NEW t, NEW e, WritesOne(n, t, e), NEW s, NEW d, s # t \/ d # e
    PROVE  Thins(s, d)
BY DEF WritesOne, Thins, Joins

LEMMA ThinsResolved ==
    ASSUME NEW n, NEW t, NEW e, WritesOne(n, t, e), incs'[n].status = "resolved",
           NEW s, NEW d
    PROVE  Thins(s, d)
<1>1. "resolved" \notin Open
  BY DEF Open
<1> QED
  BY <1>1 DEF WritesOne, Thins, Joins

LEMMA WritesOneIs ==
    ASSUME TypeInv
    PROVE  /\ \A w \in Workers :
                /\ Merge(w) \/ CloseIncident(w) =>
                     WritesOne(job[w].inc, job[w].svc, job[w].copy.deploy)
                /\ Create(w) =>
                     WritesOne(Len(incs) + 1, job[w].svc, KeyOf(job[w].reg, regs))
           /\ AdminUpdate =>
                WritesOne(job[AdminAPI].inc, job[AdminAPI].svc, job[AdminAPI].copy.deploy)
<1>1. Len(incs) \in Nat
  BY TypeFacts
<1>2. ASSUME NEW w \in Workers, Merge(w)
      PROVE  WritesOne(job[w].inc, job[w].svc, job[w].copy.deploy)
  <2>1. /\ incs'[job[w].inc].service = job[w].svc
        /\ incs'[job[w].inc].deploy = job[w].copy.deploy
        /\ job[w].inc \in 1 .. Len(incs)
    BY <1>2, MergeIs, MergedIs, CopyIs
  <2> QED
    BY <1>1, <1>2, <2>1, MergeIs DEF WritesOne, envVars
<1>3. ASSUME NEW w \in Workers, CloseIncident(w)
      PROVE  WritesOne(job[w].inc, job[w].svc, job[w].copy.deploy)
  <2>1. job[w].inc \in 1 .. Len(incs)
    BY <1>3, CloseIs, CopyIs
  <2> QED
    BY <1>1, <1>3, <2>1, CloseIs DEF WritesOne, envVars
<1>4. ASSUME NEW w \in Workers, Create(w)
      PROVE  WritesOne(Len(incs) + 1, job[w].svc, KeyOf(job[w].reg, regs))
  <2>1. /\ incs'[Len(incs) + 1].service = job[w].svc
        /\ incs'[Len(incs) + 1].deploy = KeyOf(job[w].reg, regs)
    <3>1. /\ incs'[Len(incs) + 1] = Created(job[w])
          /\ DeployOf(job[w]) = KeyOf(job[w].reg, regs)
      BY <1>4, CreateIs, KeyIs
    <3>2. Created(job[w]).service = job[w].svc /\ Created(job[w]).deploy = DeployOf(job[w])
      BY DEF Created
    <3> QED
      BY <3>1, <3>2
  <2>2. \A k \in 1 .. Len(incs) + 1 : k # Len(incs) + 1 => k \in 1 .. Len(incs)
    BY <1>1
  <2> QED
    BY <1>1, <1>4, <2>1, <2>2, CreateIs DEF WritesOne, envVars
<1>5. ASSUME AdminUpdate
      PROVE  WritesOne(job[AdminAPI].inc, job[AdminAPI].svc, job[AdminAPI].copy.deploy)
  <2>1. job[AdminAPI].inc \in 1 .. Len(incs)
    BY <1>5, AdminUpdateIs, CopyIs
  <2> QED
    BY <1>1, <1>5, <2>1, AdminUpdateIs DEF WritesOne, envVars
<1> QED
  BY <1>2, <1>3, <1>4, <1>5

(* Services stay disturbed, and a regression keeps its deploy. *)
LEMMA Grows ==
    ASSUME TypeInv, [Next]_vars
    PROVE  /\ crowded \subseteq crowded' /\ byHand \subseteq byHand'
           /\ RegsGrow(regs', regs) /\ incs' \in Seq(IncType)
           /\ \A w \in Workers : KeyOf(job[w].reg, regs') = KeyOf(job[w].reg, regs)
<1>1. /\ crowded \subseteq crowded' /\ byHand \subseteq byHand'
      /\ RegsGrow(regs', regs)
  <2>1. ASSUME NEW w \in Workers, Moves(w)
        PROVE  /\ crowded \subseteq crowded' /\ byHand \subseteq byHand'
               /\ RegsGrow(regs', regs)
    <3>1. /\ Proceed(w, job'[w]) /\ byHand' = byHand
          /\ Starts(job[w], job'[w]) \/ regs' = regs
      BY <2>1 DEF Moves
    <3>2. CASE regs' = regs
      BY <3>1, <3>2, TypeFacts, ProceedIs
    <3>3. CASE /\ Len(regs') = Len(regs) + 1
               /\ \A r \in 1 .. Len(regs) : regs'[r] = regs[r]
      BY <3>1, <3>3, TypeFacts, ProceedIs DEF RegsGrow
    <3>4. CASE \E r \in 1 .. Len(regs) : regs' = UpdateStatus(r, "resolved")
      BY <3>1, <3>4, UpdateStatusIs, TypeFacts, ProceedIs
    <3> QED
      BY <3>1, <3>2, <3>3, <3>4 DEF Starts
  <2>2. ASSUME NEW w \in Workers, Merge(w) \/ Create(w) \/ CloseIncident(w)
        PROVE  /\ crowded \subseteq crowded' /\ byHand \subseteq byHand'
               /\ RegsGrow(regs', regs)
    <3>1. /\ Proceed(w, Return(job[w])) /\ byHand' = byHand /\ regs' = regs
      BY <2>2, MergeIs, CreateIs, CloseIs
    <3> QED
      BY <3>1, TypeFacts, ProceedIs
  <2>3. CASE AdminUpdate
    BY <2>3, AdminUpdateIs, TypeFacts, ProceedIs
  <2>4. CASE Outside
    BY <2>4, UpdateStatusIs, TypeFacts DEF Outside
  <2> QED
    BY <2>1, <2>2, <2>3, <2>4, StepIs
<1>2. ASSUME NEW w \in Workers
      PROVE  KeyOf(job[w].reg, regs') = KeyOf(job[w].reg, regs)
  <2>1. job[w].reg \in 0 .. Len(regs) /\ Len(regs) \in Nat
    BY TypeFacts DEF JobOK
  <2>2. job[w].reg # 0 => job[w].reg \in 1 .. Len(regs)
    BY <2>1
  <2> QED
    BY <1>1, <2>2 DEF KeyOf, RegsGrow
<1>3. TypeInv'
  BY StepIs
<1> QED
  BY <1>1, <1>2, <1>3 DEF TypeInv

(* For a quiet service, no incident starts to be joined, or just one is.   *)
Settled(s, d) == Thins(s, d) \/ \E m : NoneElse(incs', horizon', m, s, d)

LEMMA SinglesKept ==
    ASSUME TypeInv, TypeInv', Singles, [Next]_vars,
           \A s, d : s \notin crowded' \cup byHand' => Settled(s, d)
    PROVE  Singles'
<1>1. ASSUME NEW i \in 1 .. Len(incs'), incs'[i].service \notin crowded' \cup byHand',
             Joins(incs', horizon', i, incs'[i].service, incs'[i].deploy)
      PROVE  NoneElse(incs', horizon', i, incs'[i].service, incs'[i].deploy)
  <2>1. PICK s, d : s = incs'[i].service /\ d = incs'[i].deploy
    OBVIOUS
  <2>2. Joins(incs', horizon', i, s, d) /\ s \notin crowded' \cup byHand' /\ Settled(s, d)
    BY <1>1, <2>1
  <2>3. CASE Thins(s, d)
    <3>1. i \in 1 .. Len(incs) /\ Joins(incs, horizon, i, s, d)
      BY <2>2, <2>3 DEF Thins
    <3>2. incs[i].service = s /\ incs[i].deploy = d
      BY <3>1 DEF Joins
    <3>3. Quiet(s)
      BY <2>2, Grows DEF Quiet
    <3>4. NoneElse(incs, horizon, i, s, d)
      BY <3>1, <3>2, <3>3 DEF Singles
    <3> QED
      BY <2>1, <2>3, <3>4, ThinsKeeps
  <2>4. CASE \E m : NoneElse(incs', horizon', m, s, d)
    <3>1. PICK m : NoneElse(incs', horizon', m, s, d)
      BY <2>4
    <3>2. i = m
      BY <2>2, <3>1 DEF NoneElse
    <3> QED
      BY <2>1, <3>1, <3>2
  <2> QED
    BY <2>2, <2>3, <2>4 DEF Settled
<1> QED
  BY <1>1 DEF Singles, Quiet

(* A handler that does not move still finds what it found. *)
LEMMA SearchedKept ==
    ASSUME TypeInv, [Next]_vars, NEW v \in Workers, Searched(v), job'[v] = job[v],
           job[v].at \in {"create", "merge"} /\ job[v].svc \notin crowded' \cup byHand'
              => \A d : Thins(job[v].svc, d)
    PROVE  Searched(v)'
<1> SUFFICES ASSUME job[v].svc \notin crowded' \cup byHand', job[v].at \in {"create", "merge"}
             PROVE  /\ job[v].at = "create" =>
                          NoneElse(incs', horizon', 0, job[v].svc, KeyOf(job[v].reg, regs'))
                    /\ job[v].at = "merge" =>
                          NoneElse(incs', horizon', job[v].inc, job[v].svc, job[v].copy.deploy)
  BY DEF Searched, Quiet
<1>1. Quiet(job[v].svc) /\ KeyOf(job[v].reg, regs') = KeyOf(job[v].reg, regs)
  BY Grows DEF Quiet
<1>2. CASE job[v].at = "create"
  <2>1. NoneElse(incs, horizon, 0, job[v].svc, KeyOf(job[v].reg, regs))
    BY <1>1, <1>2 DEF Searched
  <2>2. NoneElse(incs', horizon', 0, job[v].svc, KeyOf(job[v].reg, regs))
    BY <2>1, ThinsKeeps
  <2> QED
    BY <1>1, <1>2, <2>2
<1>3. CASE job[v].at = "merge"
  <2>1. NoneElse(incs, horizon, job[v].inc, job[v].svc, job[v].copy.deploy)
    BY <1>1, <1>3 DEF Searched
  <2> QED
    BY <1>3, <2>1, ThinsKeeps
<1> QED
  BY <1>2, <1>3

(* A handler that is at neither place has nothing to keep. *)
LEMMA SearchedNothing ==
    ASSUME NEW v, job'[v].at \notin {"create", "merge"}
    PROVE  Searched(v)'
BY DEF Searched

LEMMA GroupedMoves ==
    ASSUME TypeInv, TypeInv', Grouped, [Next]_vars, NEW w \in Workers, Moves(w)
    PROVE  Grouped'
<1>1. /\ incs' = incs /\ horizon' = horizon /\ \A v \in Workers : v # w => job'[v] = job[v]
      /\ horizon \in Int
  BY TypeFacts, ProceedIs DEF Moves
<1>2. \A s, d : Thins(s, d)
  BY <1>1, ThinsSame
<1>3. Singles'
  BY <1>2, SinglesKept DEF Grouped, Settled
<1>4. ASSUME NEW v \in Workers, v # w PROVE Searched(v)'
  BY <1>1, <1>2, <1>4, SearchedKept DEF Grouped
<1>5. Searched(w)'
  <2>1. CASE job'[w].at \notin {"create", "merge"}
    BY <2>1, SearchedNothing
  <2>2. CASE job'[w].at \in {"create", "merge"}
    <3>1. /\ regs' = regs /\ GoesOn(job[w], job'[w])
      BY <2>2 DEF Moves, Starts, Leaves, Writing
    <3>2. /\ job'[w].svc = job[w].svc /\ job'[w].reg = job[w].reg
          /\ DeployOf(job[w]) = KeyOf(job[w].reg, regs)
      BY <3>1, KeyIs DEF GoesOn
    <3>3. CASE job'[w].at = "create"
      <4>1. FindActiveByKey(job[w].svc, DeployOf(job[w]), horizon) = {}
        BY <3>1, <3>3 DEF GoesOn
      <4>2. NoneElse(incs, horizon, 0, job[w].svc, KeyOf(job[w].reg, regs))
        BY <3>2, <4>1, NoneFound
      <4> QED
        BY <1>1, <3>1, <3>2, <3>3, <4>2 DEF Searched
    <3>4. CASE job'[w].at = "merge"
      <4>1. /\ job'[w].inc \in FindActiveByKey(job[w].svc, DeployOf(job[w]), horizon)
            /\ job'[w].copy = incs[job'[w].inc]
        BY <3>1, <3>4 DEF GoesOn
      <4>2. PICK i : i = job'[w].inc
        OBVIOUS
      <4>3. i \in 1 .. Len(incs) /\ Joins(incs, horizon, i, job[w].svc, incs[i].deploy)
        BY <4>1, <4>2, FoundJoins
      <4>4. incs[i].service = job[w].svc
        BY <4>3 DEF Joins
      <4>5. Quiet(job[w].svc) => NoneElse(incs, horizon, i, job[w].svc, incs[i].deploy)
        BY <4>3, <4>4 DEF Grouped, Singles
      <4>6. job[w].svc \notin crowded' \cup byHand' =>
               NoneElse(incs, horizon, i, job[w].svc, incs[i].deploy)
        BY <4>5, Grows DEF Quiet
      <4> QED
        BY <1>1, <3>2, <3>4, <4>1, <4>2, <4>6 DEF Searched, Quiet
    <3> QED
      BY <2>2, <3>3, <3>4
  <2> QED
    BY <2>1, <2>2
<1> QED
  BY <1>3, <1>4, <1>5 DEF Grouped

(* A step of w that writes one incident of its service.  It leaves that    *)
(* service and deploy with one incident to join, or the service disturbed. *)
LEMMA GroupedWrites ==
    ASSUME TypeInv, TypeInv', Alone, Grouped, [Next]_vars, NEW w \in Workers, Writes(w),
           NEW n, NEW d, WritesOne(n, job[w].svc, d),
           job[w].svc \notin crowded' \cup byHand' => Settled(job[w].svc, d)
    PROVE  Grouped'
<1>1. /\ \A v \in Workers : v # w => job'[v] = job[v]
      /\ job[w].at \in Writing /\ job'[w].at \notin Writing
  BY TypeFacts, ProceedIs DEF Writes
<1>2. ASSUME NEW s, NEW e, s # job[w].svc \/ e # d
      PROVE  Thins(s, e)
  BY <1>2, ThinsOthers
<1>3. \A s, e : s \notin crowded' \cup byHand' => Settled(s, e)
  BY <1>2 DEF Settled
<1>4. Singles'
  BY <1>3, SinglesKept DEF Grouped
<1>5. ASSUME NEW v \in Workers, v # w PROVE Searched(v)'
  <2>1. ASSUME job[v].at \in {"create", "merge"}, job[v].svc \notin crowded' \cup byHand'
        PROVE  \A e : Thins(job[v].svc, e)
    <3>1. job[v].at \in Writing /\ job[v].svc \notin crowded
      BY <2>1, Grows DEF Writing
    <3>2. job[v].svc # job[w].svc
      BY <1>1, <1>5, <3>1, OthersElsewhere
    <3> QED
      BY <1>2, <3>2
  <2> QED
    BY <1>1, <1>5, <2>1, SearchedKept DEF Grouped
<1>6. Searched(w)'
  BY <1>1, SearchedNothing DEF Writing
<1> QED
  BY <1>4, <1>5, <1>6 DEF Grouped

LEMMA GroupedMerge ==
    ASSUME TypeInv, Grouped, [Next]_vars, NEW w \in Workers, Merge(w),
           job[w].svc \notin crowded' \cup byHand'
    PROVE  Settled(job[w].svc, job[w].copy.deploy)
<1>1. job[w].at = "merge" /\ Quiet(job[w].svc)
  BY MergeIs, Grows DEF Quiet
<1>2. NoneElse(incs, horizon, job[w].inc, job[w].svc, job[w].copy.deploy)
  BY <1>1 DEF Grouped, Searched
<1>3. /\ horizon' = horizon /\ Len(incs') = Len(incs)
      /\ \A k \in 1 .. Len(incs) : k # job[w].inc => incs'[k] = incs[k]
  BY MergeIs DEF envVars
<1>4. NoneElse(incs', horizon', job[w].inc, job[w].svc, job[w].copy.deploy)
  BY <1>2, <1>3 DEF NoneElse, Joins
<1> QED
  BY <1>4 DEF Settled

LEMMA GroupedCreate ==
    ASSUME TypeInv, Grouped, [Next]_vars, NEW w \in Workers, Create(w),
           job[w].svc \notin crowded' \cup byHand'
    PROVE  Settled(job[w].svc, KeyOf(job[w].reg, regs))
<1>1. job[w].at = "create" /\ Quiet(job[w].svc)
  BY CreateIs, Grows DEF Quiet
<1>2. NoneElse(incs, horizon, 0, job[w].svc, KeyOf(job[w].reg, regs))
  BY <1>1 DEF Grouped, Searched
<1>3. /\ horizon' = horizon /\ Len(incs') = Len(incs) + 1
      /\ \A k \in 1 .. Len(incs) : incs'[k] = incs[k]
      /\ \A k \in 1 .. Len(incs) + 1 : k # Len(incs) + 1 => k \in 1 .. Len(incs) /\ k # 0
  <2>1. Len(incs) \in Nat
    BY TypeFacts
  <2> QED
    BY <2>1, CreateIs DEF envVars
<1>4. NoneElse(incs', horizon', Len(incs) + 1, job[w].svc, KeyOf(job[w].reg, regs))
  BY <1>2, <1>3 DEF NoneElse, Joins
<1> QED
  BY <1>4 DEF Settled

LEMMA GroupedStep ==
    ASSUME TypeInv, TypeInv', Alone, Grouped, [Next]_vars
    PROVE  Grouped'
<1>1. ASSUME NEW w \in Workers, Merge(w)
      PROVE  Grouped'
  <2>1. /\ Writes(w) /\ WritesOne(job[w].inc, job[w].svc, job[w].copy.deploy)
    BY <1>1, WritesIs, WritesOneIs
  <2>2. job[w].svc \notin crowded' \cup byHand' => Settled(job[w].svc, job[w].copy.deploy)
    BY <1>1, GroupedMerge
  <2> QED
    BY <2>1, <2>2, GroupedWrites
<1>2. ASSUME NEW w \in Workers, Create(w)
      PROVE  Grouped'
  <2>1. /\ Writes(w) /\ WritesOne(Len(incs) + 1, job[w].svc, KeyOf(job[w].reg, regs))
    BY <1>2, WritesIs, WritesOneIs
  <2>2. job[w].svc \notin crowded' \cup byHand' =>
           Settled(job[w].svc, KeyOf(job[w].reg, regs))
    BY <1>2, GroupedCreate
  <2> QED
    BY <2>1, <2>2, GroupedWrites
<1>3. ASSUME NEW w \in Workers, CloseIncident(w)
      PROVE  Grouped'
  <2>1. /\ Writes(w) /\ WritesOne(job[w].inc, job[w].svc, job[w].copy.deploy)
        /\ incs'[job[w].inc].status = "resolved"
    BY <1>3, WritesIs, WritesOneIs, CloseIs
  <2>2. Settled(job[w].svc, job[w].copy.deploy)
    BY <2>1, ThinsResolved DEF Settled
  <2> QED
    BY <2>1, <2>2, GroupedWrites
<1>4. CASE AdminUpdate
  <2>1. /\ Writes(AdminAPI) /\ AdminAPI \in Workers
        /\ WritesOne(job[AdminAPI].inc, job[AdminAPI].svc, job[AdminAPI].copy.deploy)
        /\ job[AdminAPI].svc \in byHand'
    BY <1>4, WritesIs, WritesOneIs, AdminUpdateIs
  <2> QED
    BY <2>1, GroupedWrites
<1>5. CASE Outside
  <2>1. incs' = incs /\ job' = job /\ horizon <= horizon'
    BY <1>5 DEF Outside
  <2>2. \A s, d : Thins(s, d)
    BY <2>1, ThinsSame
  <2>3. Singles'
    BY <2>2, SinglesKept DEF Grouped, Settled
  <2>4. ASSUME NEW v \in Workers PROVE Searched(v)'
    BY <2>1, <2>2, SearchedKept DEF Grouped
  <2> QED
    BY <2>3, <2>4 DEF Grouped
<1>6. ASSUME NEW w \in Workers, Moves(w)
      PROVE  Grouped'
  BY <1>6, GroupedMoves
<1> QED
  BY <1>1, <1>2, <1>3, <1>4, <1>5, <1>6, StepIs

LEMMA GroupedStart ==
    ASSUME Init
    PROVE  Grouped
<1>1. Len(incs) = 0 /\ \A w \in Workers : job[w].at = "idle"
  BY DEF Init, Idle
<1> QED
  BY <1>1 DEF Grouped, Singles, Searched

LEMMA GroupedMeans ==
    ASSUME TypeInv, Grouped
    PROVE  OneFreshIncident
<1>1. DOMAIN incs = 1 .. Len(incs)
  BY TypeFacts, SeqIs
<1> QED
  BY <1>1 DEF OneFreshIncident, Grouped, Singles, NoneElse, Joins

-----------------------------------------------------------------------------
(* Active regressions are covered.                                         *)

LEMMA CausedCreate ==
    ASSUME TypeInv, Caused, NEW w \in Workers, Create(w)
    PROVE  Caused'
<1>1. /\ regs' = regs /\ incs' \in Seq(IncType) /\ Len(incs') = Len(incs) + 1
      /\ \A k \in 1 .. Len(incs) : incs'[k] = incs[k]
      /\ Len(incs) \in Nat /\ job[w].at = "create"
  BY CreateIs, TypeFacts
<1>2. /\ incs'[Len(incs) + 1].service = job[w].svc
      /\ incs'[Len(incs) + 1].deploy = KeyOf(job[w].reg, regs)
  BY WritesOneIs DEF WritesOne
<1>3. ASSUME NEW i \in 1 .. Len(incs'), incs'[i].deploy # NoDeploy
      PROVE  \E q \in 1 .. Len(regs) :
                regs[q].service = incs'[i].service /\ regs[q].deploy = incs'[i].deploy
  <2>1. CASE i \in 1 .. Len(incs)
    BY <1>1, <1>3, <2>1 DEF Caused
  <2>2. CASE i = Len(incs) + 1
    <3>1. KeyOf(job[w].reg, regs) # NoDeploy
      BY <1>2, <1>3, <2>2
    <3>2. job[w].reg \in 0 .. Len(regs) /\ Len(regs) \in Nat
      BY TypeFacts DEF JobOK
    <3>3. /\ job[w].reg # 0 /\ job[w].reg \in 1 .. Len(regs)
          /\ regs[job[w].reg].deploy = KeyOf(job[w].reg, regs)
      BY <3>1, <3>2 DEF KeyOf
    <3>4. regs[job[w].reg].service = job[w].svc
      BY <1>1, <3>3, TypeFacts DEF JobOK, Writing
    <3> QED
      BY <1>2, <2>2, <3>3, <3>4
  <2>3. i \in 1 .. Len(incs) \/ i = Len(incs) + 1
    BY <1>1
  <2> QED
    BY <2>1, <2>2, <2>3
<1> QED
  BY <1>1, <1>3 DEF Caused

LEMMA CausedKept ==
    ASSUME Caused, IncsGrow(incs', incs), Len(incs') = Len(incs), RegsGrow(regs', regs),
           Len(regs) \in Nat, Len(regs') \in Nat
    PROVE  Caused'
<1>1. ASSUME NEW i \in 1 .. Len(incs'), incs'[i].deploy # NoDeploy
      PROVE  \E q \in 1 .. Len(regs') :
                regs'[q].service = incs'[i].service /\ regs'[q].deploy = incs'[i].deploy
  <2>1. /\ i \in 1 .. Len(incs) /\ incs'[i].service = incs[i].service
        /\ incs'[i].deploy = incs[i].deploy
    BY DEF IncsGrow
  <2>2. PICK q \in 1 .. Len(regs) :
           regs[q].service = incs[i].service /\ regs[q].deploy = incs[i].deploy
    BY <1>1, <2>1 DEF Caused
  <2>3. /\ q \in 1 .. Len(regs') /\ regs'[q].service = regs[q].service
        /\ regs'[q].deploy = regs[q].deploy
    BY DEF RegsGrow
  <2> QED
    BY <2>1, <2>2, <2>3
<1> QED
  BY <1>1 DEF Caused

LEMMA CausedStep ==
    ASSUME TypeInv, TypeInv', Caused, [Next]_vars
    PROVE  Caused'
<1>1. /\ RegsGrow(regs', regs) /\ Len(regs) \in Nat /\ Len(regs') \in Nat
      /\ IncsGrow(incs, incs)
  BY Grows, TypeFacts DEF TypeInv
<1>2. ASSUME NEW w \in Workers, Create(w) PROVE Caused'
  BY <1>2, CausedCreate
<1>3. ASSUME NEW w \in Workers, Merge(w) \/ CloseIncident(w) PROVE Caused'
  BY <1>1, <1>3, MergeIs, CloseIs, CausedKept
<1>4. CASE AdminUpdate
  BY <1>1, <1>4, AdminUpdateIs, CausedKept
<1>5. ASSUME incs' = incs PROVE Caused'
  BY <1>1, <1>5, CausedKept
<1>6. Outside => incs' = incs
  BY DEF Outside
<1>7. ASSUME NEW w \in Workers, Moves(w) PROVE incs' = incs
  BY <1>7 DEF Moves
<1> QED
  BY <1>2, <1>3, <1>4, <1>5, <1>6, <1>7, StepIs

(* A regression that is new is being served. *)
LEMMA NewServed ==
    ASSUME TypeInv, [Next]_vars, NEW r \in 1 .. Len(regs'), r \notin 1 .. Len(regs)
    PROVE  \E w \in Workers : /\ Moves(w) /\ job'[w].reg = r /\ job'[w].at = "find"
                              /\ job'[w].svc = regs'[r].service
<1>1. Len(regs) \in Nat
  BY TypeFacts
<1>2. regs' # regs
  OBVIOUS
<1>3. \A q \in 1 .. Len(regs) : \A status \in {"resolved", "dismissed"} :
         Len(UpdateStatus(q, status)) = Len(regs)
  BY UpdateStatusIs
<1>4. ~ Outside
  BY <1>2, <1>3 DEF Outside
<1>5. \A w \in Workers : ~ Merge(w) /\ ~ Create(w) /\ ~ CloseIncident(w)
  BY <1>2, MergeIs, CreateIs, CloseIs
<1>6. ~ AdminUpdate
  BY <1>2, AdminUpdateIs
<1>7. PICK w \in Workers : Moves(w)
  BY <1>4, <1>5, <1>6, StepIs
<1>8. Starts(job[w], job'[w])
  BY <1>2, <1>7 DEF Moves
<1>9. /\ job'[w].at = "find" /\ Len(regs') = Len(regs) + 1
      /\ job'[w].reg = Len(regs) + 1 /\ job'[w].svc = regs'[Len(regs) + 1].service
  BY <1>2, <1>3, <1>8 DEF Starts
<1>10. r = Len(regs) + 1
  BY <1>1, <1>9
<1> QED
  BY <1>7, <1>9, <1>10

LEMMA ClosingStep ==
    ASSUME TypeInv, TypeInv', [Next]_vars, NEW v \in Workers, Closing(v)
    PROVE  Closing(v)'
<1> SUFFICES ASSUME job'[v].at = "close", job'[v].svc \notin crowded' \cup byHand',
                    NEW r \in 1 .. Len(regs'),
                    regs'[r].service = job'[v].svc, regs'[r].deploy = KeyOf(job'[v].reg, regs'),
                    regs'[r].status = "active"
             PROVE  FALSE
  BY DEF Closing, Quiet
<1>1. Len(regs) \in Nat /\ Len(regs') \in Nat /\ DOMAIN regs = 1 .. Len(regs)
  BY TypeFacts, SeqIs DEF TypeInv
<1>2. CASE job'[v] = job[v]
  <2>1. Quiet(job[v].svc) /\ KeyOf(job[v].reg, regs') = KeyOf(job[v].reg, regs)
    BY <1>2, Grows DEF Quiet
  <2>2. CASE r \in 1 .. Len(regs)
    <3>1. /\ regs[r].service = job[v].svc /\ regs[r].deploy = KeyOf(job[v].reg, regs)
          /\ regs[r].status = "active"
      BY <1>2, <2>1, <2>2, Grows DEF RegsGrow
    <3> QED
      BY <1>2, <2>1, <2>2, <3>1 DEF Closing
  <2>3. CASE r \notin 1 .. Len(regs)
    <3>1. PICK w \in Workers : /\ Moves(w) /\ job'[w].reg = r /\ job'[w].at = "find"
                               /\ job'[w].svc = regs'[r].service
      BY <2>3, NewServed
    <3>2. v # w
      BY <3>1
    <3>3. job[v].svc \in Services \ crowded' /\ job[v].at \in Writing
      BY <1>2, TypeFacts DEF JobOK, Writing
    <3>4. Serves(job'[w], job[v].svc) /\ Serves(job[v], job[v].svc)
      BY <1>2, <3>1, <3>3 DEF Serves, Writing
    <3>5. Proceed(w, job'[w])
      BY <3>1 DEF Moves
    <3>6. ~ Serves(job[v], job[v].svc)
      BY <3>2, <3>3, <3>4, <3>5, TypeFacts, ProceedIs
    <3> QED
      BY <3>4, <3>6
  <2> QED
    BY <2>2, <2>3
<1>3. CASE job'[v] # job[v]
  <2>1. ~ Outside
    BY <1>3 DEF Outside
  <2>2. ASSUME NEW w \in Workers, Writes(w) PROVE FALSE
    <3>1. v = w
      BY <1>3, <2>2, TypeFacts, ProceedIs DEF Writes
    <3> QED
      BY <2>2, <3>1 DEF Writes, Writing
  <2>3. PICK w \in Workers : Moves(w)
    BY <2>1, <2>2, StepIs, WritesIs, TypeFacts
  <2>4. v = w
    BY <1>3, <2>3, TypeFacts, ProceedIs DEF Moves
  <2>5. /\ regs' = regs /\ job'[v].reg = job[v].reg
        /\ ActiveForDeploy(DeployOf(job[v])) = {}
    BY <2>3, <2>4 DEF Moves, Starts, Leaves, GoesOn, Writing
  <2>6. DeployOf(job[v]) = KeyOf(job[v].reg, regs)
    BY KeyIs
  <2>7. r \in ActiveForDeploy(DeployOf(job[v]))
    BY <1>1, <2>5, <2>6 DEF ActiveForDeploy
  <2> QED
    BY <2>5, <2>7
<1> QED
  BY <1>2, <1>3

LEMMA CopyTells ==
    ASSUME TypeInv, NEW w \in Workers
    PROVE  /\ job[w].at \in Writing /\ job[w].reg # 0 => regs[job[w].reg].service = job[w].svc
           /\ job[w].at \in {"findAny", "check", "close"} =>
                 job[w].reg # 0 /\ regs[job[w].reg].status # "active"
           /\ job[w].at \in {"merge", "check", "close"} /\ KeyOf(job[w].reg, regs) # NoDeploy =>
                 job[w].copy.deploy = KeyOf(job[w].reg, regs)
           /\ job[w].reg # 0 => /\ job[w].reg \in 1 .. Len(regs)
                                /\ KeyOf(job[w].reg, regs) = regs[job[w].reg].deploy
<1>1. JobOK(job[w], regs, incs) /\ Len(regs) \in Nat
  BY TypeFacts
<1>2. job[w].reg # 0 => job[w].reg \in 1 .. Len(regs)
  BY <1>1 DEF JobOK
<1> QED
  BY <1>1, <1>2 DEF JobOK, KeyOf

MixedIn(R, s) ==
    \E q, r \in DOMAIN R :
        /\ R[q].service = s /\ R[r].service = s
        /\ R[q].deploy = NoDeploy /\ R[r].deploy # NoDeploy

(* Two regressions of a service, one of a deploy and one of none. *)
LEMMA MixedIs ==
    ASSUME TypeInv, NEW s, NEW q \in 1 .. Len(regs), NEW r \in 1 .. Len(regs),
           regs[q].service = s, regs[r].service = s,
           regs[q].deploy = NoDeploy, regs[r].deploy # NoDeploy
    PROVE  Mixed(s)
<1>1. DOMAIN regs = 1 .. Len(regs)
  BY TypeFacts, SeqIs
<1> QED
  BY <1>1 DEF Mixed

LEMMA MixedStays ==
    ASSUME TypeInv, TypeInv', [Next]_vars, NEW s, Mixed(s)
    PROVE  MixedIn(regs', s)
<1>1. /\ DOMAIN regs = 1 .. Len(regs) /\ DOMAIN regs' = 1 .. Len(regs')
      /\ Len(regs) \in Nat /\ Len(regs') \in Nat /\ RegsGrow(regs', regs)
  BY TypeFacts, SeqIs, Grows DEF TypeInv
<1>2. \A q \in 1 .. Len(regs) : /\ q \in 1 .. Len(regs')
                                /\ regs'[q].service = regs[q].service
                                /\ regs'[q].deploy = regs[q].deploy
  BY <1>1 DEF RegsGrow
<1> QED
  BY <1>1, <1>2 DEF Mixed, MixedIn

(* The incident a handler of an active regression writes covers it. *)
LEMMA WrittenCovers ==
    ASSUME TypeInv, Caused, NEW w \in Workers, Merge(w) \/ Create(w), job[w].reg # 0,
           ~ Mixed(job[w].svc)
    PROVE  \E i \in 1 .. Len(incs') :
              Covers(incs', i, job[w].svc, KeyOf(job[w].reg, regs))
<1>1. CASE Create(w)
  <2>1. /\ WritesOne(Len(incs) + 1, job[w].svc, KeyOf(job[w].reg, regs))
        /\ incs'[Len(incs) + 1].status = "active" /\ "active" \in Open
    <3>1. incs'[Len(incs) + 1] = Created(job[w])
      BY <1>1, CreateIs
    <3>2. incs'[Len(incs) + 1].status = "active"
      BY <3>1 DEF Created
    <3> QED
      BY <1>1, <3>2, WritesOneIs DEF Open
  <2> QED
    BY <2>1 DEF WritesOne, Covers
<1>2. CASE Merge(w)
  <2>1. /\ WritesOne(job[w].inc, job[w].svc, job[w].copy.deploy)
        /\ incs'[job[w].inc].status \in Open
        /\ job[w].at = "merge" /\ job[w].at \in Writing /\ job[w].at \in Holding
    BY <1>2, WritesOneIs, MergeIs, MergedIs DEF Writing
  <2>2. job[w].copy.deploy \in {NoDeploy, KeyOf(job[w].reg, regs)}
    <3> SUFFICES ASSUME job[w].copy.deploy # NoDeploy, KeyOf(job[w].reg, regs) = NoDeploy
                 PROVE  FALSE
      BY <2>1, CopyTells
    <3>1. /\ job[w].inc \in 1 .. Len(incs) /\ incs[job[w].inc].service = job[w].svc
          /\ incs[job[w].inc].deploy # NoDeploy
      BY <2>1, CopyIs
    <3>2. PICK q \in 1 .. Len(regs) :
             regs[q].service = job[w].svc /\ regs[q].deploy # NoDeploy
      BY <3>1 DEF Caused
    <3>3. /\ job[w].reg \in 1 .. Len(regs) /\ regs[job[w].reg].service = job[w].svc
          /\ regs[job[w].reg].deploy = NoDeploy
      BY <2>1, CopyTells
    <3> QED
      BY <3>2, <3>3, MixedIs
  <2> QED
    BY <2>1, <2>2 DEF WritesOne, Covers
<1> QED
  BY <1>1, <1>2

(* A regression that is not served any more is covered by what was written. *)
LEMMA ServedCovered ==
    ASSUME TypeInv, TypeInv', Caused, [Next]_vars, NEW r \in 1 .. Len(regs),
           regs[r].status = "active", Serving(r),
           \A w \in Workers : ~ (job'[w].reg = r /\ job'[w].at \in Writing),
           regs[r].service \notin byHand', ~ Mixed(regs[r].service)
    PROVE  \E i \in 1 .. Len(incs') : Covers(incs', i, regs[r].service, regs[r].deploy)
<1>1. PICK v \in Workers : job[v].reg = r /\ job[v].at \in Writing
  BY DEF Serving
<1>2. /\ job'[v] # job[v] /\ r # 0 /\ regs[r].service = job[v].svc
      /\ regs[r].deploy = KeyOf(job[v].reg, regs)
      /\ job[v].at \notin {"findAny", "check", "close"}
  BY <1>1, CopyTells
<1>3. ASSUME NEW w \in Workers, Moves(w) PROVE FALSE
  <2>1. v = w
    BY <1>2, <1>3, TypeFacts, ProceedIs DEF Moves
  <2>2. job'[v].at \in Writing => job'[v].reg # r
    BY <1>1
  <2>3. ~ Starts(job[v], job'[v])
    BY <1>1 DEF Starts
  <2>4. ~ Leaves(job[v], job'[v])
    BY <1>1, <1>2 DEF Leaves
  <2>5. ~ GoesOn(job[v], job'[v])
    BY <1>1, <2>2 DEF GoesOn, Writing
  <2> QED
    BY <1>3, <2>1, <2>3, <2>4, <2>5 DEF Moves
<1>4. ~ Outside
  BY <1>2 DEF Outside
<1>5. ASSUME NEW w \in Workers, Writes(w) PROVE v = w
  BY <1>2, <1>5, TypeFacts, ProceedIs DEF Writes
<1>6. ~ AdminUpdate
  <2> SUFFICES ASSUME AdminUpdate PROVE FALSE
    OBVIOUS
  <2>1. v = AdminAPI
    BY <1>5, WritesIs, TypeFacts
  <2> QED
    BY <1>2, <2>1, AdminUpdateIs
<1>7. ~ CloseIncident(v)
  BY <1>2, CloseIs
<1>8. Merge(v) \/ Create(v)
  BY <1>3, <1>4, <1>5, <1>6, <1>7, StepIs, WritesIs
<1>9. \E i \in 1 .. Len(incs') : Covers(incs', i, job[v].svc, KeyOf(job[v].reg, regs))
  BY <1>1, <1>2, <1>8, WrittenCovers
<1> QED
  BY <1>2, <1>9

(* An incident that covers an active regression goes on to. *)
LEMMA CoverStays ==
    ASSUME TypeInv, TypeInv', [Next]_vars, \A w \in Workers : Closing(w),
           NEW r \in 1 .. Len(regs), regs[r].status = "active",
           regs[r].service \notin crowded' \cup byHand', ~ Mixed(regs[r].service),
           NEW i \in 1 .. Len(incs), Covers(incs, i, regs[r].service, regs[r].deploy)
    PROVE  \E n \in 1 .. Len(incs') : Covers(incs', n, regs[r].service, regs[r].deploy)
<1> SUFFICES i \in 1 .. Len(incs') /\ Covers(incs', i, regs[r].service, regs[r].deploy)
  OBVIOUS
<1>1. CASE incs' = incs
  BY <1>1
<1>2. ASSUME NEW w \in Workers, Create(w)
      PROVE  i \in 1 .. Len(incs') /\ incs'[i] = incs[i]
  BY <1>2, CreateIs, TypeFacts
<1>3. ASSUME NEW w \in Workers, Merge(w)
      PROVE  i \in 1 .. Len(incs') /\ Covers(incs', i, regs[r].service, regs[r].deploy)
  <2>1. CASE i # job[w].inc
    BY <1>3, <2>1, MergeIs DEF Covers
  <2>2. CASE i = job[w].inc
    <3>1. /\ incs'[i].service = incs[i].service /\ incs'[i].deploy = incs[i].deploy
          /\ incs'[i].status \in Open /\ i \in 1 .. Len(incs')
      BY <1>3, <2>2, MergeIs, MergedIs, CopyIs
    <3> QED
      BY <3>1 DEF Covers
  <2> QED
    BY <2>1, <2>2
<1>4. ASSUME NEW w \in Workers, CloseIncident(w)
      PROVE  i \in 1 .. Len(incs') /\ Covers(incs', i, regs[r].service, regs[r].deploy)
  <2>1. CASE i # job[w].inc
    BY <1>4, <2>1, CloseIs DEF Covers
  <2>2. CASE i = job[w].inc
    <3>1. /\ job[w].at = "close" /\ job[w].at \in Holding /\ job[w].at \in Writing
      BY <1>4, CloseIs DEF Writing
    <3>2. /\ job[w].svc = regs[r].service /\ incs[i].deploy \in {NoDeploy, regs[r].deploy}
          /\ incs[i].deploy = job[w].copy.deploy
      BY <2>2, <3>1, CopyIs DEF Covers
    <3>3. Quiet(job[w].svc)
      BY <3>2, Grows DEF Quiet
    <3>4. regs[r].deploy # KeyOf(job[w].reg, regs)
      BY <3>1, <3>2, <3>3 DEF Closing
    <3>5. KeyOf(job[w].reg, regs) = NoDeploy
      BY <3>1, <3>2, <3>4, CopyTells
    <3>6. /\ job[w].reg \in 1 .. Len(regs) /\ regs[job[w].reg].service = regs[r].service
          /\ regs[job[w].reg].deploy = NoDeploy
      BY <3>1, <3>2, <3>5, CopyTells
    <3> QED
      BY <3>4, <3>5, <3>6, MixedIs
  <2> QED
    BY <2>1, <2>2
<1>5. ASSUME AdminUpdate
      PROVE  i \in 1 .. Len(incs') /\ Covers(incs', i, regs[r].service, regs[r].deploy)
  <2>1. i # job[AdminAPI].inc
    <3> SUFFICES ASSUME i = job[AdminAPI].inc PROVE FALSE
      OBVIOUS
    <3>1. /\ incs[i].service = job[AdminAPI].svc /\ job[AdminAPI].svc \in byHand'
      BY <1>5, AdminUpdateIs, CopyIs
    <3> QED
      BY <3>1 DEF Covers
  <2> QED
    BY <1>5, <2>1, AdminUpdateIs DEF Covers
<1>6. Outside => incs' = incs
  BY DEF Outside
<1>7. ASSUME NEW w \in Workers, Moves(w) PROVE incs' = incs
  BY <1>7 DEF Moves
<1> QED
  BY <1>1, <1>2, <1>3, <1>4, <1>5, <1>6, <1>7, StepIs DEF Covers

LEMMA CoveredStep ==
    ASSUME TypeInv, TypeInv', Covered, [Next]_vars
    PROVE  Covered'
<1>1. Caused' /\ \A v \in Workers : Closing(v)'
  BY CausedStep, ClosingStep DEF Covered
<1>2. ASSUME NEW r \in 1 .. Len(regs'), regs'[r].status = "active",
             regs'[r].service \notin crowded' \cup byHand', ~ MixedIn(regs', regs'[r].service),
             \A w \in Workers : ~ (job'[w].reg = r /\ job'[w].at \in Writing)
      PROVE  \E i \in 1 .. Len(incs') : Covers(incs', i, regs'[r].service, regs'[r].deploy)
  <2>1. r \in 1 .. Len(regs)
    BY <1>2, NewServed DEF Writing
  <2>2. /\ regs'[r].service = regs[r].service /\ regs'[r].deploy = regs[r].deploy
        /\ regs[r].status = "active"
    BY <1>2, <2>1, Grows DEF RegsGrow
  <2>3. ~ Mixed(regs[r].service)
    BY <1>2, <2>2, MixedStays
  <2>4. regs[r].service \notin crowded' \cup byHand' /\ Quiet(regs[r].service)
    BY <1>2, <2>2, Grows DEF Quiet
  <2>5. CASE Serving(r)
    BY <1>2, <2>1, <2>2, <2>3, <2>4, <2>5, ServedCovered DEF Covered
  <2>6. CASE ~ Serving(r)
    <3>1. PICK i \in 1 .. Len(incs) : Covers(incs, i, regs[r].service, regs[r].deploy)
      BY <2>1, <2>2, <2>3, <2>4, <2>6 DEF Covered, ActiveCovered
    <3>2. \E n \in 1 .. Len(incs') : Covers(incs', n, regs[r].service, regs[r].deploy)
      BY <2>1, <2>2, <2>3, <2>4, <3>1, CoverStays DEF Covered
    <3> QED
      BY <2>2, <3>2
  <2> QED
    BY <2>5, <2>6
<1>3. ActiveCovered'
  BY <1>2 DEF ActiveCovered, Serving, Quiet, Mixed, MixedIn
<1> QED
  BY <1>1, <1>3 DEF Covered

LEMMA CoveredStart ==
    ASSUME Init
    PROVE  Covered
<1>1. Len(incs) = 0 /\ Len(regs) = 0 /\ \A w \in Workers : job[w].at = "idle"
  BY DEF Init, Idle
<1> QED
  BY <1>1 DEF Covered, Caused, ActiveCovered, Closing

LEMMA CoveredMeans ==
    ASSUME TypeInv, Covered
    PROVE  ActiveIsCovered
<1>1. DOMAIN incs = 1 .. Len(incs) /\ DOMAIN regs = 1 .. Len(regs)
  BY TypeFacts, SeqIs
<1>2. ASSUME NEW r \in 1 .. Len(regs), regs[r].status = "active",
             Quiet(regs[r].service), ~ Mixed(regs[r].service),
             \A w \in Workers : job[w].reg = r => job[w].at \notin Writing
      PROVE  \E i \in IncidentsOf(regs[r].service) :
                incs[i].status \in Open /\ incs[i].deploy \in {NoDeploy, regs[r].deploy}
  <2>1. PICK i \in 1 .. Len(incs) : Covers(incs, i, regs[r].service, regs[r].deploy)
    BY <1>2 DEF Covered, ActiveCovered, Serving
  <2> QED
    BY <1>1, <2>1 DEF Covers, IncidentsOf
<1> QED
  BY <1>1, <1>2 DEF ActiveIsCovered

-----------------------------------------------------------------------------
(* The theorems.                                                           *)

LEMMA InvStart ==
    ASSUME Init
    PROVE  AlertInv
<1>1. TypeInv
  BY TypeStart
<1>2. \A w \in Workers : job[w].at = "idle" /\ job[w].at \notin Writing
                         /\ job[w].at \notin Holding
  BY DEF Init, Idle, Writing, Holding
<1>3. Alone /\ Fresh
  BY <1>2 DEF Alone, Fresh, Serves
<1> QED
  BY <1>1, <1>3, TallyStart, GroupedStart, CoveredStart DEF AlertInv

LEMMA InvStep ==
    ASSUME AlertInv, [Next]_vars
    PROVE  AlertInv'
<1>1. TypeInv /\ TypeInv' /\ Alone /\ Fresh /\ Grouped /\ Covered
  BY StepIs DEF AlertInv
<1>2. PICK count : Tally(count)
  BY DEF AlertInv
<1>3. PICK d : Tally(d)'
  BY <1>1, <1>2, TallyStep
<1>4. (\E c : Tally(c))'
  BY <1>3
<1>5. Alone' /\ Fresh' /\ Grouped' /\ Covered'
  BY <1>1, AloneStep, GroupedStep, CoveredStep
<1> QED
  BY <1>1, <1>4, <1>5 DEF AlertInv

(* Every reachable state satisfies the inductive invariant. *)
THEOREM Invariance == Spec => []AlertInv
<1>1. Init => AlertInv
  BY InvStart
<1>2. AlertInv /\ [Next]_vars => AlertInv'
  BY InvStep
<1> QED
  BY <1>1, <1>2, PTL DEF Spec

(* Regressions, incidents and jobs keep their types: no handler writes     *)
(* back under an incident or a regression that is not in the store.        *)
THEOREM TypeCorrect == Spec => []TypeOK
<1>1. AlertInv => TypeOK
  BY TypeHolds DEF AlertInv
<1> QED
  BY <1>1, Invariance, PTL

(* No alert is counted twice, and none is lost on a service where handlers *)
(* never overlapped (AlertCount in handleActive and OnSLOBreach).          *)
THEOREM CountsHold == Spec => []AlertsCounted
<1>1. AlertInv => AlertsCounted
  <2> SUFFICES ASSUME AlertInv PROVE AlertsCounted
    OBVIOUS
  <2>1. PICK count : Tally(count)
    BY DEF AlertInv
  <2> QED
    BY <2>1, TallyCounts DEF AlertInv
<1> QED
  BY <1>1, Invariance, PTL

(* Two open incidents in the group window never share service and deploy,  *)
(* where neither overlapping handlers nor an administrator disturbed them  *)
(* (FindActiveByKey before Save in the incident service).                  *)
THEOREM FreshIncidentsAreSingle == Spec => []OneFreshIncident
<1>1. AlertInv => OneFreshIncident
  BY GroupedMeans DEF AlertInv
<1> QED
  BY <1>1, Invariance, PTL

(* An active regression that was handled has an open incident: resolving   *)
(* another regression does not close it (handleResolved).                  *)
THEOREM ActiveStaysCovered == Spec => []ActiveIsCovered
<1>1. AlertInv => ActiveIsCovered
  BY CoveredMeans DEF AlertInv
<1> QED
  BY <1>1, Invariance, PTL

(* A resolved incident is opened again only by an administrator's          *)
(* acknowledgement, or where handlers of its service overlapped (Update).  *)
THEOREM ResolvedIsFinal == Spec => ResolvedStaysResolved
<1> DEFINE A == \A i \in DOMAIN incs :
                   /\ incs[i].status = "resolved" /\ incs'[i].status \in Open
                   => \/ incs[i].service \in crowded'
                      \/ /\ job[AdminAPI].at = "acknowledge" /\ job'[AdminAPI] = Idle
                         /\ job[AdminAPI].inc = i
<1>1. AlertInv /\ [Next]_vars => [A]_vars
  <2> SUFFICES ASSUME AlertInv, [Next]_vars PROVE A
    OBVIOUS
  <2>1. TypeInv /\ Fresh /\ DOMAIN incs = 1 .. Len(incs)
    BY TypeFacts, SeqIs DEF AlertInv
  <2> QED
    BY <2>1, ReopenedBy
<1>2. ResolvedStaysResolved <=> [][A]_vars
  BY DEF ResolvedStaysResolved
<1> HIDE DEF A
<1>3. Spec => [][A]_vars
  BY <1>1, Invariance, PTL DEF Spec
<1> QED
  BY <1>2, <1>3
=============================================================================
