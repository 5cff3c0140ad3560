CONSTANTS
    c1 = c1
    c2 = c2
    k1 = k1
    k2 = k2
    alice = alice
    a1 = a1
    a2 = a2
    i1 = i1
    i2 = i2
    i3 = i3
    Call = {c1, c2}
    Key = {k1, k2}
    User = {alice}
    Registered = {alice}
    Book = {1, 2}
    Stock <- Shelf
    Requests <- Orderings
    MaxInt = 9
    Admin = {a1, a2}
    BookId = {1, 2, 3}
    Isbn = {i1, i2, i3}
    Isbns <- ShelfIsbns
    Tasks <- Editings
SPECIFICATION StoreSpec
SYMMETRY Symmetric
PROPERTIES
    OrdersPlacedFresh
