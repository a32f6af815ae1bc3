SPECIFICATION FairSpec

CONSTANTS
    m1 = m1
    pass1 = pass1
    pass2 = pass2
    MaxDeliveries = 2
    Merchants = {m1}
    Passes = {pass1, pass2}
    MaxAttempts = 2
    MaxTroubles = 2

INVARIANTS
    AcceptedOnce
    DeliveredHasEvent

PROPERTIES
    DeliveredIsFinal
    EveryDeliverySettles

CHECK_DEADLOCK FALSE
