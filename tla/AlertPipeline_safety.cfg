SPECIFICATION Spec
CONSTANTS
    d1 = d1
    s1 = s1
    Services = {s1}
    Deploys = {d1}
    DeployService <- MCDeployService
    NoDeploy = NoDeploy
    Algorithms = {latency}
    TenantOutlier = TenantOutlier
    FromZero = {}
    Confidences = {1}
    Evaluations = {e1}
    Evaluates <- MCEvaluates
    Outliers = {}
    PendingSize = 1
    ScanLoop = ScanLoop
    SLOEngine = SLOEngine
    AdminAPI = AdminAPI
    NoService = NoService
    MaxRegressions = 2
    MaxTime = 1
    MaxBreaches = 1
    MaxRequests = 1
    MayStop = FALSE
INVARIANTS TypeOK AlertsCounted OneFreshIncident ActiveIsCovered
PROPERTY ResolvedStaysResolved
CHECK_DEADLOCK FALSE
