------------------------------ MODULE Checkout ------------------------------
(***************************************************************************)
(* What createOrder computes from a request (apps/orders-service): the     *)
(* merged items, the hash that tells requests with one key apart, and the  *)
(* lines and total of the order; and the replay of a second request with   *)
(* the same key.  Stock and concurrency are in Orders, which takes its     *)
(* requests merged.                                                        *)
(*                                                                         *)
(* @IsUUID accepts a UUID in either case.  PostgreSQL compares UUIDs by    *)
(* value and returns them in lower case; the Maps of createOrder compare   *)
(* their spellings.                                                        *)
(***************************************************************************)
EXTENDS Money, SequencesExt, Sorting

CONSTANTS Spelling,  \* ids of books as clients write them, numbered in the
                     \* order of localeCompare
          BookOf,    \* the book that an id is the id of
          Lower,     \* the id of each book as PostgreSQL returns it
          Price,     \* prices of the books that exist and are active
          Requests   \* a user and a sequence of items

Items == [bookId : Spelling, quantity : Nat \ {0}]

ASSUME CheckoutAssumption ==
    /\ Spelling \subseteq Nat
    /\ \A b \in DOMAIN Lower : Lower[b] \in Spelling /\ BookOf[Lower[b]] = b
    /\ \A s \in Spelling : BookOf[s] \in DOMAIN Lower
    /\ DOMAIN Price \subseteq DOMAIN Lower
    /\ \A b \in DOMAIN Price : Price[b] \in Amounts
    /\ \A r \in Requests : r.items \in Seq(Items) /\ r.items # <<>>

VARIABLES
    request,  \* the request that is computed
    stage,    \* how far createOrder is
    items,    \* requestedItems
    lines,    \* orderItems
    total,    \* totalCents
    order,    \* the committed order of the key, if there is one
    answer    \* the code of the answer

vars == <<request, stage, items, lines, total, order, answer>>

Item(id, quantity) == [bookId |-> id, quantity |-> quantity]

\* How much of an id the items ask for together.
Quantity(list, id) ==
    SumFunction([i \in DOMAIN list |-> IF list[i].bookId = id THEN list[i].quantity ELSE 0])

Ids(list) == {list[i].bookId : i \in DOMAIN list}

\* Mutant of MergeDuplicateItems: items stay in the order of the request.
MergeUnsorted(list) ==
    LET First(s) == CHOOSE i \in DOMAIN list :
                       list[i].bookId = s /\ \A j \in 1..(i - 1) : list[j].bookId # s
    IN  SetToSortSeq({Item(s, Quantity(list, s)) : s \in Ids(list)},
                     LAMBDA x, y : First(x.bookId) < First(y.bookId))

\* Mutant of MergeDuplicateItems: the last item of an id wins.
MergeOverwriting(list) ==
    LET Final(s) == CHOOSE i \in DOMAIN list :
                       list[i].bookId = s /\ \A j \in (i + 1)..Len(list) : list[j].bookId # s
    IN  SetToSortSeq({list[Final(s)] : s \in Ids(list)},
                     LAMBDA x, y : x.bookId < y.bookId)

\* mergeDuplicateItems: one item of each spelling, in the order of localeCompare.
MergeDuplicateItems(list) ==
    LET ids == Sorted(Ids(list))
    IN  [i \in DOMAIN ids |-> Item(ids[i], Quantity(list, ids[i]))]

\* createRequestHash: SHA-256 of the user and the merged items.
CreateRequestHash(user, merged) == <<user, merged>>

\* The record of the order; asked is the request it was placed for.
Order(asked, hash, bill, cents) ==
    [asked |-> asked, hash |-> hash, lines |-> bill, totalAmount |-> FormatMoney(cents)]
NoOrder == Order(<<>>, <<>>, <<>>, 0)

Init ==
    /\ request \in Requests
    /\ stage = "receive"
    /\ items = <<>> /\ lines = <<>> /\ total = 0
    /\ order = NoOrder
    /\ answer = ""

\* The items are merged; a key that has an order is replayed or refused.
Receive ==
    /\ stage = "receive"
    /\ items' = MergeDuplicateItems(request.items)
    /\ IF order = NoOrder
       THEN stage' = "price" /\ UNCHANGED answer
       ELSE /\ stage' = "answered"
            /\ answer' = IF order.hash = CreateRequestHash(request.user, items')
                         THEN "OK" ELSE "IDEMPOTENCY_KEY_REUSED"
    /\ UNCHANGED <<request, lines, total, order>>

\* The next item of the loop.
Requested == items[Len(lines) + 1]

\* Mutant of Found: booksById has its keys in upper case.
FoundInUpperCase ==
    \E b \in DOMAIN Price : BookOf[Requested.bookId] = b /\ Lower[b] # Requested.bookId

\* What booksById has: books are found by value and looked up by spelling.
Found ==
    \E b \in DOMAIN Price : BookOf[Requested.bookId] = b /\ Lower[b] = Requested.bookId

More == stage = "price" /\ Len(lines) < Len(items)

\* assertBookCanBeOrdered: no book, or an inactive one.
RefuseItem ==
    /\ More
    /\ ~Found
    /\ stage' = "answered"
    /\ answer' = "BOOK_NOT_AVAILABLE"
    /\ UNCHANGED <<request, items, lines, total, order>>

\* The loop: one line, computed in cents.
PriceItem ==
    /\ More
    /\ Found
    /\ LET book == BookOf[Requested.bookId]
           unitPriceCents == MoneyToCents(Price[book])
           lineTotalCents == unitPriceCents * Requested.quantity
       IN  /\ total' = total + lineTotalCents
           /\ lines' = Append(lines,
                 [ book |-> book, quantity |-> Requested.quantity,
                   unitPrice |-> FormatMoney(unitPriceCents),
                   lineTotal |-> FormatMoney(lineTotalCents) ])
    /\ UNCHANGED <<request, stage, items, order, answer>>

\* The order is written, with its event, and answered.
Complete ==
    /\ stage = "price"
    /\ Len(lines) = Len(items)
    /\ order' = Order(request, CreateRequestHash(request.user, items), lines, total)
    /\ stage' = "answered"
    /\ answer' = "OK"
    /\ UNCHANGED <<request, items, lines, total>>

\* The client sends another request with the same key.
Repeat ==
    /\ stage = "answered"
    /\ request' \in Requests
    /\ stage' = "receive"
    /\ items' = <<>> /\ lines' = <<>> /\ total' = 0 /\ answer' = ""
    /\ UNCHANGED order

Next == Receive \/ RefuseItem \/ PriceItem \/ Complete \/ Repeat

Spec == Init /\ [][Next]_vars

-----------------------------------------------------------------------------
(* Properties.                                                             *)

\* However the client split, repeated and ordered its items, it is charged to
\* the cent what it asked for: the quantity of every item at the price of its
\* book, and the lines add up to the total.
ExactTotal ==
    order # NoOrder =>
        LET asked == order.asked.items
            Cents(item) == item.quantity * MoneyToCents(Price[BookOf[item.bookId]])
            Asked == SumFunction([i \in DOMAIN asked |-> Cents(asked[i])])
            Charged == SumFunction([i \in DOMAIN order.lines |->
                                       MoneyToCents(order.lines[i].lineTotal)])
        IN  MoneyToCents(order.totalAmount) = Asked /\ Charged = Asked

\* A request with a used key is replayed exactly if it asks for what the order
\* was placed for: the same user and as much of the same ids, in any order and
\* however split.
ReplaysSamePurchase ==
    stage = "answered" /\ order # NoOrder =>
        (answer = "OK" <=>
            /\ request.user = order.asked.user
            /\ \A s \in Spelling :
                  Quantity(request.items, s) = Quantity(order.asked.items, s))

\* The event of an order passes the validation of its consumer, which would
\* neither ack nor nack it otherwise, and counts every book once.
EventAcceptable ==
    order # NoOrder =>
        /\ Matches(order.totalAmount)
        /\ Len(order.lines) >= 1
        /\ \A i, j \in DOMAIN order.lines : order.lines[i].book = order.lines[j].book => i = j

\* A client that writes the ids of books as it was given them is refused for
\* want of a book only if one of those it asked for is not there.
NotAvailableIsTrue ==
    LET asked == Ids(request.items)
    IN  answer = "BOOK_NOT_AVAILABLE" /\ asked \subseteq {Lower[b] : b \in DOMAIN Lower} =>
            \E s \in asked : BookOf[s] \notin DOMAIN Price
=============================================================================
