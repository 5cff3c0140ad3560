CONSTANTS
    c1 = c1
    c2 = c2
    c3 = c3
    k1 = k1
    k2 = k2
    alice = alice
    bob = bob
    Call = {c1, c2, c3}
    Key = {k1, k2}
    User = {alice, bob}
    Registered = {alice}
    Book = {1, 2, 3, 4}
    Stock <- Shelf
    Requests <- MixedRequests
    MaxInt = 2
SPECIFICATION Spec
SYMMETRY Symmetric
INVARIANTS
    TypeOK
    FreshReads
    KeyUnique
    SoldMatchesOrders
    AnswersTrue
    SomeoneCanGoOn
PROPERTIES
    RefusalsReal
    PlacesAtomically
