SPECIFICATION Spec

CONSTANTS
    USDC = USDC
    XLM = XLM
    daily = daily
    weekly = weekly
    alice = alice
    bob = bob
    worker = worker
    route = route
    Merchants = {alice}
    Assets = {XLM}
    Grain <- MCGrain
    Cadences = {}
    Period <- MCPeriod
    Threshold = Threshold
    Amounts = {3, 5}
    ThresholdAmounts = {1}
    AutoApproveLimits = {4}
    ApprovalThreshold = 5
    MaxBatchAmount = 20
    MaxAttempts = 2
    Passes = {worker}
    Worker = worker
    Evaluator = Evaluator
    Operator = Operator
    EarlyRelease = TRUE
    ManualRetry = FALSE
    AmbiguousRail = FALSE
    MaxBatches = 2
    MaxTime = 0

INVARIANTS
    NoDoublePayment
