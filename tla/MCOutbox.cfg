CONSTANTS
    w1 = w1
    w2 = w2
    Worker = {w1, w2}
    Event = {1, 2, 3}
    BatchSize = 2
    MaxFaults = 2
    Nobody = Nobody
    Gone = Gone
SPECIFICATION Spec
SYMMETRY Symmetric
INVARIANTS
    PublishedWasAccepted
    ResentOnlyAfterFaults
    LeasesAreWorkedOn
PROPERTIES
    PublishedIsFinal
    FreshLeaseKept
CHECK_DEADLOCK FALSE
