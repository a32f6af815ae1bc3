SPECIFICATION Spec

CONSTANTS
    USDC = USDC
    XLM = XLM
    daily = daily
    weekly = weekly
    alice = alice
    bob = bob
    worker = worker
    route = route
    Merchants = {alice}
    Assets = {USDC, XLM}
    Grain <- MCGrain
    Cadences = {daily, weekly}
    Period <- MCPeriod
    Threshold = Threshold
    Amounts = {3, 5}
    ThresholdAmounts = {}
    AutoApproveLimits = {4}
    ApprovalThreshold = 5
    MaxBatchAmount = 20
    MaxAttempts = 2
    Passes = {worker}
    Worker = worker
    Evaluator = Evaluator
    Operator = Operator
    EarlyRelease = FALSE
    ManualRetry = FALSE
    AmbiguousRail = FALSE
    MaxBatches = 2
    MaxTime = 1

INVARIANTS
    NoDoublePayment
    MoneyConserved
    RejectedIsFinal
    OneBatchPerCycle

PROPERTIES
    ImplementsFunds
