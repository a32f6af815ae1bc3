SPECIFICATION FairSpec

CONSTANTS
    tick1 = tick1
    tick2 = tick2
    MaxJobs = 2
    Passes = {tick1, tick2}
    PassSizes = {1, 2}
    MaxAttempts = 2
    InitialDelay = 2
    Multiplier = 2
    MaxDelay = 1
    Jitter = TRUE
    MaxAge = 1
    MaxRequeues = 1

INVARIANTS
    ProcessingIsRun
    DeadIsListed
    AttemptsAccounted

PROPERTIES
    EveryJobSettles
