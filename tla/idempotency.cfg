SPECIFICATION FairSpec

CONSTANTS
    k1 = k1
    k2 = k2
    b1 = b1
    b2 = b2
    MaxRequests = 3
    Keys = {k1, k2}
    Bodies = {b1, b2}
    MaxEntries = 1

INVARIANTS
    RunsAccounted
    ReplayIsOwn

PROPERTIES
    MarksRemoved

CHECK_DEADLOCK FALSE
