CONSTANTS
    c1 = c1
    c2 = c2
    c3 = c3
    k1 = k1
    alice = alice
    Call = {c1, c2, c3}
    Key = {k1}
    User = {alice}
    Registered = {alice}
    Book = {1, 2, 3}
    Stock <- Shelf
    Requests <- Purchases
    MaxInt = 9
    MaxFaults = 1
SPECIFICATION MCGatewaySpec
INVARIANTS
    SameOrderTold
    NoMeansNo
    ReadsFollowAnswers
PROPERTIES
    ClientIsTold
    EveryCallAnswered
