SPECIFICATION FairSpec

CONSTANTS
    USDC = USDC
    XLM = XLM
    daily = daily
    weekly = weekly
    alice = alice
    bob = bob
    worker = worker
    route = route
    Merchants = {alice, bob}
    Assets = {XLM}
    Grain <- MCGrain
    Cadences = {}
    Period <- MCPeriod
    Threshold = Threshold
    Amounts = {3}
    ThresholdAmounts = {1}
    AutoApproveLimits = {4}
    ApprovalThreshold = 5
    MaxBatchAmount = 20
    MaxAttempts = 2
    Passes = {worker, route}
    Worker = worker
    Evaluator = Evaluator
    Operator = Operator
    EarlyRelease = FALSE
    ManualRetry = FALSE
    AmbiguousRail = FALSE
    MaxBatches = 2
    MaxTime = 0

PROPERTIES
    AutoApprovedComesToRest
    EvaluationEnds
