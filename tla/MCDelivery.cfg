CONSTANTS
    w1 = w1
    w2 = w2
    n1 = n1
    n2 = n2
    Worker = {w1, w2}
    Event = {1}
    BatchSize = 1
    MaxFaults = 2
    Nobody = Nobody
    Gone = Gone
    Consumer = {n1, n2}
    Prefetch = 2
    MaxCuts = 2
SPECIFICATION FairDelivery
INVARIANTS
    NothingLost
PROPERTIES
    NotifiesOnce
    EveryEventNotified
    EveryEventPublished
CHECK_DEADLOCK FALSE
