CONSTANTS
    k1 = k1
    k2 = k2
    alice = alice
    w1 = w1
    n1 = n1
    Call = {1, 2}
    Key = {k1, k2}
    User = {alice}
    Registered = {alice}
    Book = {1, 2}
    Stock <- Shelf
    Requests <- Orderings
    MaxInt = 9
    Worker = {w1}
    BatchSize = 1
    MaxMishaps = 1
    Nobody = Nobody
    Gone = Gone
    Consumer = {n1}
    Prefetch = 1
    MaxCuts = 1
SPECIFICATION PipelineSpec
INVARIANTS
    NoOrderForgotten
    OneNotificationPerKey
PROPERTIES
    OrdersAnnouncedOnce
CHECK_DEADLOCK FALSE
