CONSTANTS
    a1 = a1
    a2 = a2
    a3 = a3
    i1 = i1
    i2 = i2
    i3 = i3
    Admin = {a1, a2, a3}
    BookId = {1, 2, 3, 4}
    Isbn = {i1, i2, i3}
    Stock <- Shelf
    Isbns <- ShelfIsbns
    Tasks <- AllTasks
SPECIFICATION Spec
INVARIANTS
    IsbnUnique
PROPERTIES
    DuplicatesReal
