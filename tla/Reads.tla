-------------------------------- MODULE Reads --------------------------------
(***************************************************************************)
(* The queries of Orders and Books (getOrder, listUserOrders, getCatalog,  *)
(* getBook).  Each is one SELECT that takes no lock, so what it answers is *)
(* a function of what is committed when it runs.  They are asked here of   *)
(* every state of the Gateway and createOrder, as clients may ask at any   *)
(* time; a query that fails or times out answers with nothing.             *)
(***************************************************************************)
EXTENDS Gateway

Found(code, os, rows) == [code |-> code, orders |-> os, rows |-> rows]
Nothing(code) == Found(code, {}, NoRows)

\* findById.
GetOrder(id) ==
    LET Matching == {o \in orders : o.id = id}
    IN  IF Matching = {} THEN Nothing("ORDER_NOT_FOUND") ELSE Found("OK", Matching, NoRows)

\* ensureUserExists, then findByUserId.
ListUserOrders(user) ==
    IF user \in Registered THEN Found("OK", {o \in orders : o.user = user}, NoRows)
    ELSE Nothing("USER_NOT_FOUND")

Active == {b \in DOMAIN books : books[b].active}
RowsOf(bs) == [b \in bs |-> books[b]]

\* findActiveCatalog.
GetCatalog == Found("OK", {}, RowsOf(Active))

\* findActiveById.
GetBook(id) ==
    IF id \in Active THEN Found("OK", {}, RowsOf({id})) ELSE Nothing("BOOK_NOT_FOUND")

-----------------------------------------------------------------------------
(* Properties.                                                             *)

\* What a client has bought, it and everybody else can see.  It finds the
\* order it was told of: by its id, the very same one and no other, and in the
\* list of its user, however many attempts it took.  And its copies are shown
\* to nobody as available, in the catalog or on the page of the book.
ReadsFollowAnswers ==
    LET bought == UNION {http[c].orders : c \in Call}
    IN  /\ \A o \in bought : /\ GetOrder(o.id).orders = {o}
                           /\ o \in ListUserOrders(o.user).orders
        /\ \A b \in Book : \A rows \in {GetCatalog.rows, GetBook(b).rows} :
              b \in DOMAIN rows => rows[b].available <= Stock[b].available - Copies(bought, b)
=============================================================================
