SPECIFICATION CircuitFairSpec

CONSTANTS
    call1 = call1
    call2 = call2
    call3 = call3
    request1 = request1
    Calls = {call1, call2, call3}
    HttpRequests = {request1}
    failureThreshold = 3
    successThreshold = 2
    timeoutMs = 2
    halfOpenMaxCalls = 1
    requestTimeoutMs = 2

INVARIANTS
    OpenMeansFailing
    TrialsBounded

PROPERTIES
    LeavesHalfOpen
