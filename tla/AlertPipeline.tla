--------------------------- MODULE AlertPipeline ---------------------------
(***************************************************************************)
(* From metrics to incidents: the regression engine (pkg/regression), the  *)
(* stores it and the incident service write (pkg/regression/memory,        *)
(* pkg/incident/memory and filestore), pkg/incident/service.go, the SLO    *)
(* engine's alerts and the admin API's requests, wired in cmd/gateway.     *)
(*                                                                         *)
(* Each store operation is atomic under the store's mutex; a handler is a  *)
(* sequence of them, so handlers of the scan goroutine, of evaluation      *)
(* timers, of request goroutines and of administrators interleave, each    *)
(* with a copy of the incident it found.  Metrics are the environment's:   *)
(* degraded services may trip algorithms, the others do not.  Severities,  *)
(* titles, tenants, webhooks and notifications are left out.               *)
(*                                                                         *)
(* handled, crowded and byHand are history: no guard reads them.           *)
(***************************************************************************)
EXTENDS Integers, Sequences, FiniteSets, FiniteSetsExt, SequencesExt

CONSTANTS
    Services,
    Deploys,            \* deploy IDs
    DeployService,      \* DeployService[d]: the service d deploys
    NoDeploy,           \* the empty deploy ID of the continuous scan
    Algorithms,         \* those of runAlgorithms
    TenantOutlier,      \* detectTenantOutlier
    FromZero,           \* algorithms whose BeforeValue was 0
    Confidences,
    Evaluations,        \* the timers of OnDeploy's EvalTimes
    Evaluates,          \* Evaluates[e]: the deploy e evaluates
    Outliers,           \* services that may have an outlier tenant
    PendingSize,        \* capacity of Engine.pending
    ScanLoop, SLOEngine, AdminAPI,
    NoService,
    MaxRegressions, MaxTime, MaxBreaches, MaxRequests,    \* bounds
    MayStop             \* bound: whether the engine is ever stopped

ASSUME AlertParametersAssumption ==
    /\ DeployService \in [Deploys -> Services]
    /\ Evaluates \in [Evaluations -> Deploys]
    /\ NoDeploy \notin Deploys
    /\ NoService \notin Services
    /\ TenantOutlier \notin Algorithms
    /\ FromZero \subseteq Algorithms /\ IsFiniteSet(Algorithms)
    /\ Confidences \subseteq Nat /\ Confidences # {} /\ IsFiniteSet(Confidences)
    /\ Outliers \subseteq Services
    /\ PendingSize \in Nat \ {0}
    /\ {ScanLoop, SLOEngine, AdminAPI} \cap Evaluations = {}
    /\ MaxRegressions \in Nat /\ MaxTime \in Nat
    /\ MaxBreaches \in Nat /\ MaxRequests \in Nat /\ MayStop \in BOOLEAN

VARIABLES
    regs,       \* Store.regressions, in order of Save
    incs,       \* the incidents, in order of Save; an index is an ID
    job,        \* what each goroutine is doing
    clock,      \* time.Now, as coarse as the changes it separates
    horizon,    \* now - groupWindow: later stamps are in the group window
    degraded,   \* services whose metrics are worse than their baseline
    outliers,   \* services with a tenant far worse than the fleet
    deployed,   \* deploys posted
    pending,    \* Engine.pending
    timer,      \* the time.AfterFunc of each evaluation
    scanner,    \* the scanLoop goroutine is running
    consumer,   \* the deployConsumer goroutine is running: done is open
    engine,     \* Stop: "running", "stopping", "stopped"
    breaches,   \* SLO alerts so far (bound)
    requests,   \* admin requests so far (bound)
    handled,    \* alerts merged or created, by service (history)
    crowded,    \* services two handlers served at once (history)
    byHand      \* services whose incidents an administrator wrote (history)

envVars == <<clock, horizon, degraded, outliers>>
engineVars == <<deployed, pending, timer, scanner, consumer, engine>>
histVars == <<handled, crowded, byHand>>
vars == <<regs, incs, job, envVars, engineVars, breaches, requests, histVars>>

Workers == Evaluations \cup {ScanLoop, SLOEngine, AdminAPI}
DeployIDs == Deploys \cup {NoDeploy}

NoIncident == [service |-> NoService, deploy |-> NoDeploy,
               status |-> "resolved", alerts |-> 0, seen |-> -1]

Idle == [at |-> "idle", back |-> "idle", left |-> {}, todo |-> <<>>,
         active |-> <<>>, start |-> 0, reg |-> 0, svc |-> NoService,
         inc |-> 0, copy |-> NoIncident]

(* A handler has its alert or its copy and has not written or returned.    *)
Writing == {"find", "merge", "create", "findAny", "check", "close",
            "acknowledge", "resolveById"}
Serves(j, s) == j.at \in Writing /\ j.svc = s

(* Every step of a handler goes through here, to record crowding.          *)
Proceed(w, j) ==
    /\ job' = [job EXCEPT ![w] = j]
    /\ crowded' = crowded \cup
                     {s \in Services : Serves(j, s) /\
                         \E v \in Workers \ {w} : Serves(job[v], s)}

(* Mutant of Return: the handler's copy is kept. *)
MutReturn(j) ==
    [j EXCEPT !.at = IF j.todo # <<>> THEN "save" ELSE j.back]

(* The alert of w is handled: the next detection, or the caller's loop.    *)
Return(j) ==
    [j EXCEPT !.at = IF j.todo # <<>> THEN "save" ELSE j.back,
              !.reg = 0, !.svc = NoService, !.inc = 0, !.copy = NoIncident]

Init ==
    /\ regs = <<>> /\ incs = <<>>
    /\ job = [w \in Workers |-> Idle]
    /\ clock = 0 /\ horizon = -1
    /\ degraded = {} /\ outliers = {}
    /\ deployed = {} /\ pending = <<>>
    /\ timer = [e \in Evaluations |-> "unset"]
    /\ scanner = TRUE /\ consumer = TRUE /\ engine = "running"
    /\ breaches = 0 /\ requests = 0
    /\ handled = [s \in Services |-> 0]
    /\ crowded = {} /\ byHand = {}

-----------------------------------------------------------------------------
(* The stores.                                                             *)

Open == {"active", "acknowledged"}

(* FindActiveByKey: the incidents it may return, several only on a tie.    *)
FindActiveByKey(s, d, since) ==
    LET Matches == {i \in DOMAIN incs :
                      /\ incs[i].status \in Open
                      /\ incs[i].seen > since
                      /\ incs[i].service = s
                      /\ d # NoDeploy => incs[i].deploy = d}
    IN  {i \in Matches : \A k \in Matches : incs[k].seen <= incs[i].seen}

ActiveForDeploy(d) ==
    {r \in DOMAIN regs : regs[r].deploy = d /\ regs[r].status = "active"}

(* UpdateStatus of the regression store. *)
UpdateStatus(r, status) ==
    [regs EXCEPT ![r] = [regs[r] EXCEPT !.status = status]]

(* existingMap: the last one the newest-first loop writes is the oldest.   *)
Existing(d, a) ==
    LET same == {r \in ActiveForDeploy(d) : regs[r].algo = a}
    IN  {r \in same : \A q \in same :
            \/ regs[r].at < regs[q].at
            \/ regs[r].at = regs[q].at /\ r <= q}

-----------------------------------------------------------------------------
(* Detection.                                                              *)

Regression(s, d, a, conf, at, base) ==
    [service |-> s, deploy |-> d, algo |-> a, conf |-> conf, at |-> at,
     base |-> base, status |-> "active"]

(* Bound: detections stop when the store would pass MaxRegressions. *)
Room(n) == Len(regs) + n + MapThenSumSet(LAMBDA w : Len(job[w].todo), Workers)
              <= MaxRegressions

(* What the algorithms may find: they compare with a healthy baseline. *)
Detections(s, d) ==
    {D \in SUBSET {Regression(s, d, x[1], x[2], clock, FALSE) :
                      x \in Algorithms \X Confidences} :
        /\ s \notin degraded => D = {}
        /\ \A x, y \in D : x.algo = y.algo => x = y}

(* scanLoop: the ticker; Scan reads the services and now. *)
ScanTick ==
    /\ scanner /\ job[ScanLoop] = Idle
    /\ Proceed(ScanLoop, [Idle EXCEPT !.at = "scan", !.back = "scan",
                                      !.left = Services, !.start = clock])
    /\ UNCHANGED <<regs, incs, envVars, engineVars, breaches, requests,
                   handled, byHand>>

(* Scan and runAlgorithms: one service's windows. *)
ScanService(s) ==
    LET j == job[ScanLoop] IN
    /\ j.at = "scan" /\ s \in j.left
    /\ \E D \in Detections(s, NoDeploy) :
          /\ Room(Cardinality(D))
          /\ Proceed(ScanLoop, Return([j EXCEPT !.left = @ \ {s},
                                                !.todo = SetToSeq(D)]))
    /\ UNCHANGED <<regs, incs, envVars, engineVars, breaches, requests,
                   handled, byHand>>

(* Scan's second loop: the fleet's P99 is the service's. *)
ScanTenants(s) ==
    LET j == job[ScanLoop] IN
    /\ j.at = "tenants" /\ s \in j.left
    /\ \E c \in Confidences :
          LET r == Regression(s, NoDeploy, TenantOutlier, c, j.start,
                              s \in degraded)
          IN  Proceed(ScanLoop, Return([j EXCEPT !.left = @ \ {s},
                 !.todo = IF s \in outliers /\ Room(1) THEN <<r>> ELSE <<>>]))
    /\ UNCHANGED <<regs, incs, envVars, engineVars, breaches, requests,
                   handled, byHand>>

(* List of the active regressions, newest first. *)
ListActive ==
    LET list[k \in 0 .. Len(regs)] ==
            IF k = 0 THEN <<>>
            ELSE IF regs[k].status = "active" THEN <<k>> \o list[k - 1]
            ELSE list[k - 1]
    IN  list[Len(regs)]

(* The end of a loop of Scan; checkResolutions lists the active ones. *)
ScanNext ==
    LET j == job[ScanLoop] IN
    /\ j.at \in {"scan", "tenants"} /\ j.left = {}
    /\ Proceed(ScanLoop,
         IF j.at = "scan"
           THEN [j EXCEPT !.at = "tenants", !.back = "tenants",
                          !.left = Outliers]
           ELSE [Idle EXCEPT !.at = "resolve", !.back = "resolve",
                             !.active = ListActive])
    /\ UNCHANGED <<regs, incs, envVars, engineVars, breaches, requests,
                   handled, byHand>>

(* evaluateDeploy and runAlgorithmsForDeploy up to the first Save. *)
Kept(D) == {x \in D : \A r \in Existing(x.deploy, x.algo) :
                         x.conf > regs[r].conf}

EvaluateDeploy(e) ==
    LET d == Evaluates[e] IN
    /\ timer[e] = "set"
    /\ timer' = [timer EXCEPT ![e] = "fired"]
    /\ \E D \in Detections(DeployService[d], d) :
          /\ Room(Cardinality(D))
          /\ Proceed(e, Return([Idle EXCEPT !.todo = SetToSeq(Kept(D))]))
    /\ UNCHANGED <<regs, incs, envVars, deployed, pending, scanner, consumer,
                   engine, breaches, requests, handled, byHand>>

-----------------------------------------------------------------------------
(* Handlers: OnRegression of a saved detection, of a resolution, and       *)
(* OnSLOBreach.                                                            *)

Save(w) ==
    LET j == job[w] IN
    /\ j.at = "save"
    /\ regs' = Append(regs, Head(j.todo))
    /\ Proceed(w, [j EXCEPT !.at = "find", !.todo = Tail(@),
                            !.reg = Len(regs) + 1,
                            !.svc = Head(j.todo).service])
    /\ UNCHANGED <<incs, envVars, engineVars, breaches, requests, handled,
                   byHand>>

(* Any service may breach its targets: one slow request is enough.  Record *)
(* holds the SLO engine's mutex: one alert at a time.                      *)
Breach(s) ==
    /\ job[SLOEngine] = Idle
    /\ breaches < MaxBreaches /\ breaches' = breaches + 1
    /\ Proceed(SLOEngine, [Idle EXCEPT !.at = "find", !.svc = s])
    /\ UNCHANGED <<regs, incs, envVars, engineVars, requests, handled, byHand>>

DeployOf(j) == IF j.reg = 0 THEN NoDeploy ELSE regs[j.reg].deploy

(* Mutant of Since: the window is not subtracted. *)
MutSince == clock

Since == horizon

(* Mutant of FindIncident: a resolved incident is found and reopened. *)
MutFindIncident(w) ==
    LET j == job[w]
        found == {i \in DOMAIN incs : /\ incs[i].service = j.svc
                                      /\ incs[i].seen > Since} IN
    /\ j.at = "find"
    /\ \/ /\ found = {}
          /\ Proceed(w, [j EXCEPT !.at = "create"])
       \/ \E i \in found :
             Proceed(w, [j EXCEPT !.at = "merge", !.inc = i,
                                  !.copy = [incs[i] EXCEPT !.status = "active"]])
    /\ UNCHANGED <<regs, incs, envVars, engineVars, breaches, requests,
                   handled, byHand>>

(* handleActive and OnSLOBreach: the search, in the group window. *)
FindIncident(w) ==
    LET j == job[w]
        found == FindActiveByKey(j.svc, DeployOf(j), Since) IN
    /\ j.at = "find"
    /\ \/ /\ found = {}
          /\ Proceed(w, [j EXCEPT !.at = "create"])
       \/ \E i \in found :
             Proceed(w, [j EXCEPT !.at = "merge", !.inc = i, !.copy = incs[i]])
    /\ UNCHANGED <<regs, incs, envVars, engineVars, breaches, requests,
                   handled, byHand>>

(* A regression is as old as its detection, a breach is now. *)
Stamp(j) == IF j.reg = 0 THEN clock ELSE regs[j.reg].at

(* Mutant of Merged: the alert is not counted. *)
MutMerged(j) == [j.copy EXCEPT !.seen = Stamp(j)]

(* The incident found, with this alert in it: Update replaces it whole. *)
Merged(j) == [j.copy EXCEPT !.seen = Stamp(j), !.alerts = @ + 1]

Merge(w) ==
    LET j == job[w] IN
    /\ j.at = "merge"
    /\ incs' = [incs EXCEPT ![j.inc] = Merged(j)]
    /\ handled' = [handled EXCEPT ![j.svc] = @ + 1]
    /\ Proceed(w, Return(j))
    /\ UNCHANGED <<regs, envVars, engineVars, breaches, requests, byHand>>

Create(w) ==
    LET j == job[w] IN
    /\ j.at = "create"
    /\ incs' = Append(incs, [service |-> j.svc, deploy |-> DeployOf(j),
                             status |-> "active", alerts |-> 1,
                             seen |-> Stamp(j)])
    /\ handled' = [handled EXCEPT ![j.svc] = @ + 1]
    /\ Proceed(w, Return(j))
    /\ UNCHANGED <<regs, envVars, engineVars, breaches, requests, byHand>>

(* The metric is within a tenth of the baseline it was compared with. *)
Recovered(r) == (regs[r].service \in degraded) = regs[r].base

(* checkResolutions: one of the regressions that were active. *)
CheckResolution ==
    LET j == job[ScanLoop]
        r == Head(j.active)
        rest == [j EXCEPT !.active = Tail(@)] IN
    /\ j.at = "resolve" /\ j.active # <<>>
    /\ IF regs[r].algo \notin FromZero /\ Recovered(r)
         THEN /\ regs' = UpdateStatus(r, "resolved")
              /\ Proceed(ScanLoop, [rest EXCEPT !.at = "findAny", !.reg = r,
                                                !.svc = regs[r].service])
         ELSE /\ UNCHANGED regs
              /\ Proceed(ScanLoop, rest)
    /\ UNCHANGED <<incs, envVars, engineVars, breaches, requests, handled,
                   byHand>>

ScanEnds ==
    /\ job[ScanLoop].at = "resolve" /\ job[ScanLoop].active = <<>>
    /\ Proceed(ScanLoop, Idle)
    /\ UNCHANGED <<regs, incs, envVars, engineVars, breaches, requests,
                   handled, byHand>>

(* handleResolved: the search, however old the incident. *)
FindAny(w) ==
    LET j == job[w]
        found == FindActiveByKey(j.svc, DeployOf(j), -1) IN
    /\ j.at = "findAny"
    /\ \/ /\ found = {}
          /\ Proceed(w, Return(j))
       \/ \E i \in found :
             Proceed(w, [j EXCEPT !.at = "check", !.inc = i, !.copy = incs[i]])
    /\ UNCHANGED <<regs, incs, envVars, engineVars, breaches, requests,
                   handled, byHand>>

(* Mutant of CheckActive: it does not look. *)
MutCloseAlways(w) ==
    /\ job[w].at = "check"
    /\ Proceed(w, [job[w] EXCEPT !.at = "close"])
    /\ UNCHANGED <<regs, incs, envVars, engineVars, breaches, requests,
                   handled, byHand>>

(* Mutant of CheckActive: it looks for the wrong answer. *)
MutCheckActive(w) ==
    LET j == job[w] IN
    /\ j.at = "check"
    /\ Proceed(w, IF ActiveForDeploy(DeployOf(j)) # {}
                    THEN [j EXCEPT !.at = "close"] ELSE Return(j))
    /\ UNCHANGED <<regs, incs, envVars, engineVars, breaches, requests,
                   handled, byHand>>

CheckActive(w) ==
    LET j == job[w] IN
    /\ j.at = "check"
    /\ Proceed(w, IF ActiveForDeploy(DeployOf(j)) = {}
                    THEN [j EXCEPT !.at = "close"] ELSE Return(j))
    /\ UNCHANGED <<regs, incs, envVars, engineVars, breaches, requests,
                   handled, byHand>>

CloseIncident(w) ==
    LET j == job[w] IN
    /\ j.at = "close"
    /\ incs' = [incs EXCEPT ![j.inc] = [j.copy EXCEPT !.status = "resolved"]]
    /\ Proceed(w, Return(j))
    /\ UNCHANGED <<regs, envVars, engineVars, breaches, requests, handled,
                   byHand>>

-----------------------------------------------------------------------------
(* The admin API: acknowledge and resolve get a copy and write it back.    *)

Requested == requests < MaxRequests /\ requests' = requests + 1

AdminGet(i, request) ==
    /\ Requested
    /\ job[AdminAPI] = Idle
    /\ Proceed(AdminAPI, [Idle EXCEPT !.at = request, !.inc = i,
                            !.svc = incs[i].service, !.copy = incs[i]])
    /\ UNCHANGED <<regs, incs, envVars, engineVars, breaches, handled, byHand>>

AdminUpdate ==
    LET j == job[AdminAPI]
        status == IF j.at = "acknowledge" THEN "acknowledged" ELSE "resolved"
    IN
    /\ j.at \in {"acknowledge", "resolveById"}
    /\ incs' = [incs EXCEPT ![j.inc] = [j.copy EXCEPT !.status = status]]
    /\ byHand' = byHand \cup {j.svc}
    /\ Proceed(AdminAPI, Idle)
    /\ UNCHANGED <<regs, envVars, engineVars, breaches, requests, handled>>

Dismiss(r) ==
    /\ Requested
    /\ regs' = UpdateStatus(r, "dismissed")
    /\ UNCHANGED <<incs, job, envVars, engineVars, breaches, histVars>>

-----------------------------------------------------------------------------
(* Deploys and the engine's lifecycle.                                     *)

(* The send blocks while the channel is full. *)
OnDeploy(d) ==
    /\ d \notin deployed
    /\ Len(pending) < PendingSize
    /\ deployed' = deployed \cup {d}
    /\ pending' = Append(pending, d)
    /\ UNCHANGED <<regs, incs, job, envVars, timer, scanner, consumer, engine,
                   breaches, requests, histVars>>

(* deployConsumer: every evaluation of the deploy gets its timer. *)
TakeDeploy ==
    /\ consumer /\ pending # <<>>
    /\ pending' = Tail(pending)
    /\ timer' = [e \in Evaluations |->
                    IF Evaluates[e] = Head(pending) THEN "set" ELSE timer[e]]
    /\ UNCHANGED <<regs, incs, job, envVars, deployed, scanner, consumer,
                   engine, breaches, requests, histVars>>

Stop ==
    /\ MayStop
    /\ engine = "running"
    /\ engine' = "stopping"
    /\ UNCHANGED <<regs, incs, job, envVars, deployed, pending, timer, scanner,
                   consumer, breaches, requests, histVars>>

(* The goroutines see the closed stop channel at their select. *)
StopScan ==
    /\ engine # "running" /\ scanner /\ job[ScanLoop] = Idle
    /\ scanner' = FALSE
    /\ UNCHANGED <<regs, incs, job, envVars, deployed, pending, timer,
                   consumer, engine, breaches, requests, histVars>>

StopConsumer ==
    /\ engine # "running" /\ consumer
    /\ consumer' = FALSE
    /\ UNCHANGED <<regs, incs, job, envVars, deployed, pending, timer,
                   scanner, engine, breaches, requests, histVars>>

StopReturns ==
    /\ engine = "stopping" /\ ~consumer
    /\ engine' = "stopped"
    /\ UNCHANGED <<regs, incs, job, envVars, deployed, pending, timer,
                   scanner, consumer, breaches, requests, histVars>>

-----------------------------------------------------------------------------
(* The environment: time and traffic.                                      *)

Tick ==
    /\ clock < MaxTime
    /\ clock' = clock + 1
    /\ horizon' \in horizon .. clock
    /\ UNCHANGED <<regs, incs, job, degraded, outliers, engineVars, breaches,
                   requests, histVars>>

TrafficChanges(s) ==
    /\ \/ /\ degraded' \in {degraded \cup {s}, degraded \ {s}}
          /\ UNCHANGED outliers
       \/ /\ s \in Outliers
          /\ outliers' \in {outliers \cup {s}, outliers \ {s}}
          /\ UNCHANGED degraded
    /\ UNCHANGED <<regs, incs, job, clock, horizon, engineVars, breaches,
                   requests, histVars>>

-----------------------------------------------------------------------------
Handle(w) ==
    \/ Save(w) \/ FindIncident(w) \/ Merge(w) \/ Create(w)
    \/ FindAny(w) \/ CheckActive(w) \/ CloseIncident(w)

ScanStep ==
    \/ \E s \in Services : ScanService(s) \/ ScanTenants(s)
    \/ ScanNext \/ CheckResolution \/ ScanEnds

Next ==
    \/ \E w \in Workers : Handle(w)
    \/ ScanTick \/ ScanStep
    \/ \E e \in Evaluations : EvaluateDeploy(e)
    \/ \E s \in Services : Breach(s) \/ TrafficChanges(s)
    \/ \E i \in DOMAIN incs, request \in {"acknowledge", "resolveById"} :
          AdminGet(i, request)
    \/ AdminUpdate
    \/ \E r \in DOMAIN regs : Dismiss(r)
    \/ \E d \in Deploys : OnDeploy(d)
    \/ TakeDeploy \/ Stop \/ StopScan \/ StopConsumer \/ StopReturns
    \/ Tick

Spec == Init /\ [][Next]_vars

(* Goroutines run, timers fire and tickers tick.  Clients, administrators, *)
(* traffic and Stop do nothing they do not want to.                        *)
Fairness ==
    /\ \A w \in Workers : WF_vars(Handle(w))
    /\ WF_vars(ScanTick) /\ WF_vars(ScanStep)
    /\ \A e \in Evaluations : WF_vars(EvaluateDeploy(e))
    /\ WF_vars(AdminUpdate)
    /\ WF_vars(TakeDeploy) /\ WF_vars(StopConsumer) /\ WF_vars(StopReturns)

FairSpec == Spec /\ Fairness

-----------------------------------------------------------------------------
(* Properties.                                                             *)

TypeOK ==
    /\ regs \in Seq([service : Services, deploy : DeployIDs,
                     algo : Algorithms \cup {TenantOutlier},
                     conf : Confidences, at : 0 .. MaxTime, base : BOOLEAN,
                     status : {"active", "resolved", "dismissed"}])
    /\ incs \in Seq([service : Services, deploy : DeployIDs,
                     status : Open \cup {"resolved"}, alerts : Nat \ {0},
                     seen : 0 .. MaxTime])
    /\ DOMAIN job = Workers
    /\ \A w \in Workers :
          /\ job[w].at \in Writing \cup {"idle", "scan", "tenants", "resolve",
                                         "save"}
          /\ job[w].at # "save" \/ job[w].todo # <<>>
          /\ job[w].reg \in 0 .. Len(regs) /\ job[w].inc \in 0 .. Len(incs)
          /\ job[w].at \in Writing <=> job[w].svc \in Services
    /\ clock \in 0 .. MaxTime /\ horizon \in -1 .. clock
    /\ degraded \subseteq Services /\ outliers \subseteq Outliers
    /\ deployed \subseteq Deploys /\ pending \in Seq(deployed)
    /\ timer \in [Evaluations -> {"unset", "set", "fired"}]
    /\ scanner \in BOOLEAN /\ consumer \in BOOLEAN
    /\ engine \in {"running", "stopping", "stopped"}
    /\ handled \in [Services -> Nat]
    /\ crowded \subseteq Services /\ byHand \subseteq Services

IncidentsOf(s) == {i \in DOMAIN incs : incs[i].service = s}

(* Disturbed services: two handlers at once, or an administrator.          *)
Quiet(s) == s \notin crowded \cup byHand

(* Regressions of the service come both from deploys and from scans.       *)
Mixed(s) ==
    \E q, r \in DOMAIN regs :
        /\ regs[q].service = s /\ regs[r].service = s
        /\ regs[q].deploy = NoDeploy /\ regs[r].deploy # NoDeploy

(* The sum of count[i] for the incidents i of s among I. *)
Total(I, count, s) ==
    LET t[k \in 0 .. Len(I)] ==
            IF k = 0 THEN 0
            ELSE t[k - 1] + (IF I[k].service = s THEN count[k] ELSE 0)
    IN  t[Len(I)]

AlertCounts == [i \in DOMAIN incs |-> incs[i].alerts]

(* No alert is counted twice, whatever copies are written back over each   *)
(* other (AlertCount in handleActive, OnSLOBreach), and none is lost while *)
(* handlers of a service do not overlap.                                   *)
AlertsCounted ==
    \A s \in Services :
        /\ Total(incs, AlertCounts, s) <= handled[s]
        /\ s \notin crowded => Total(incs, AlertCounts, s) = handled[s]

(* Grouping: two open incidents in the group window never share service    *)
(* and deploy, unless handlers overlapped or an administrator reopened one *)
(* (FindActiveByKey before Save in the service).                           *)
OneFreshIncident ==
    \A i, k \in DOMAIN incs :
        /\ i # k
        /\ incs[i].service = incs[k].service /\ Quiet(incs[i].service)
        /\ incs[i].status \in Open /\ incs[k].status \in Open
        /\ incs[i].seen > horizon /\ incs[k].seen > horizon
        => incs[i].deploy # incs[k].deploy

(* An active regression that was handled has an open incident of its       *)
(* service, and of its deploy if it has one: no resolution of another      *)
(* regression closes it (handleResolved).  Not where scans and deploys     *)
(* both found regressions of the service, nor where handlers overlapped.   *)
ActiveIsCovered ==
    \A r \in DOMAIN regs :
        LET s == regs[r].service IN
        /\ regs[r].status = "active"
        /\ Quiet(s) /\ ~Mixed(s)
        /\ \A w \in Workers : job[w].reg = r => job[w].at \notin Writing
        => \E i \in IncidentsOf(s) :
              /\ incs[i].status \in Open
              /\ incs[i].deploy \in {NoDeploy, regs[r].deploy}

(* A resolved incident is only reopened by an administrator's acknowledge, *)
(* which does not look at its status, or by a copy that an overlapping     *)
(* handler took before it was resolved (Update).                           *)
ResolvedStaysResolved ==
    [][\A i \in DOMAIN incs :
          /\ incs[i].status = "resolved" /\ incs'[i].status \in Open
          => \/ incs[i].service \in crowded'
             \/ /\ job[AdminAPI].at = "acknowledge" /\ job'[AdminAPI] = Idle
                /\ job[AdminAPI].inc = i]_vars

StaysRunning == [](engine = "running")
Healthy(s) == <>[](s \notin degraded)

(* When a service is back at its baseline for good, its regressions are    *)
(* resolved (checkResolutions).  Outlier tenants have a property of their  *)
(* own.                                                                    *)
RegressionsResolve ==
    \A s \in Services :
        StaysRunning /\ Healthy(s) =>
            <>[](\A r \in DOMAIN regs :
                    /\ regs[r].service = s /\ regs[r].algo # TenantOutlier
                    => regs[r].status # "active")

Undisturbed(s) == [](Quiet(s) /\ ~Mixed(s) /\ horizon = -1)

(* And the incidents of its deploys are resolved, when no handlers overlap *)
(* and they stay in the group window (handleResolved).                     *)
DeployIncidentsClose ==
    \A s \in Services :
        StaysRunning /\ Healthy(s) /\ Undisturbed(s) =>
            <>[](\A i \in IncidentsOf(s) :
                    incs[i].deploy # NoDeploy => incs[i].status = "resolved")

(* The phase 4de design: "auto-resolves when source issues recover", for   *)
(* the incidents of scans too.                                             *)
IncidentsClose ==
    \A s \in Services :
        StaysRunning /\ Healthy(s) /\ Undisturbed(s) =>
            <>[](\A i \in IncidentsOf(s) : incs[i].status = "resolved")

(* The phase 4de design: "One bad deploy = one incident".                  *)
OneIncidentPerDeploy ==
    \A i, k \in DOMAIN incs :
        /\ incs[i].deploy = incs[k].deploy /\ incs[i].deploy # NoDeploy
        /\ incs[i].status \in Open /\ incs[k].status \in Open
        => i = k

(* The phase 4de design: "If all resolved -> auto-resolve the incident".   *)
ClosedWhenAllResolved ==
    [][\A i \in DOMAIN incs :
          /\ incs[i].status \in Open /\ incs'[i].status = "resolved"
          => ActiveForDeploy(incs[i].deploy) = {}]_vars

(* The phase 4a design: "Results from later evaluations replace earlier    *)
(* ones (keyed by deploy_id + algorithm + service)".                       *)
OneActivePerKey ==
    \A q, r \in DOMAIN regs :
        /\ regs[q].status = "active" /\ regs[r].status = "active"
        /\ regs[q].deploy = regs[r].deploy /\ regs[q].deploy # NoDeploy
        /\ regs[q].algo = regs[r].algo
        => q = r

(* engine.go: "Stop signals the engine to shut down and waits for          *)
(* goroutines to finish."                                                  *)
StopWaits == engine = "stopped" => ~scanner

(* The phase 4a design: a regression is resolved if "the metric has        *)
(* returned to within 10% of the before-value"; of an outlier tenant, the  *)
(* tenant's.                                                               *)
OutlierResolvedWhenGone ==
    [][\A r \in DOMAIN regs :
          /\ regs[r].algo = TenantOutlier
          /\ regs[r].status = "active" /\ regs'[r].status = "resolved"
          => regs[r].service \notin outliers]_vars
=============================================================================
