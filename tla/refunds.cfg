SPECIFICATION FairSpec

CONSTANTS
    tick1 = tick1
    tick2 = tick2
    MaxRefunds = 2
    MaxJobs = 2
    MaxEntries = 3
    Ticks = {tick1, tick2}
    MaxAttempts = 2
    MaxLost = 1
    Inputs <- SomeInputs
    AlwaysUnder = 1
    FullWindow = 0
    MaxPct = 100
    AutoApproval = 2

INVARIANTS
    ProcessingIsCalled
    RefundedOnce
    DisputedIsReviewed

PROPERTIES
    ClosedIsFinal
    JobsSettle

CHECK_DEADLOCK FALSE
