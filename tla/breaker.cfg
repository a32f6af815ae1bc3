SPECIFICATION FairSpec

CONSTANTS
    call1 = call1
    call2 = call2
    call3 = call3
    Calls = {call1, call2, call3}
    slidingWindowSize = 5
    minimumCallsToOpen = 4
    failureRateThreshold = 60
    failureThreshold = 3
    successThreshold = 2
    waitDurationInOpenState = 2
    permittedNumberOfCallsInHalfOpenState = 2
    requestTimeoutMs = 2

INVARIANTS
    WindowAgrees

PROPERTIES
    LeavesHalfOpen
