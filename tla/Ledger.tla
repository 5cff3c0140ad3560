------------------------------- MODULE Ledger -------------------------------
(***************************************************************************)
(* What the bookstore promises of its stock, its orders and its outbox,    *)
(* whatever the services do internally: an order is placed in one step,    *)
(* against the stock of that moment, together with the one event that      *)
(* announces it, and no idempotency key is ever used by two orders.        *)
(*                                                                         *)
(* This is the abstract specification that Orders implements.              *)
(***************************************************************************)
EXTENDS Integers

CONSTANT Stock  \* the books on sale at the beginning, by id

VARIABLES books,   \* the rows of books, by id
          orders,  \* the rows of orders, each with its order_items
          outbox   \* the rows of outbox_events

ledger == <<books, orders, outbox>>

-----------------------------------------------------------------------------

\* A line of an order can be taken from its book's shelf.
InStock(row, line) ==
    /\ row.active
    /\ line.quantity <= row.available
    /\ line.unitPrice = row.price

\* The row of a book once a line of it has been sold.
Sell(row, line) ==
    [row EXCEPT !.available = @ - line.quantity, !.sold = @ + line.quantity]

\* The shelf after all lines of an order.
Shelf(o) ==
    [b \in DOMAIN books |-> IF b \in DOMAIN o.lines
                            THEN Sell(books[b], o.lines[b])
                            ELSE books[b]]

\* The event that announces an order.
Announcement(o) ==
    [id |-> o.id, orderId |-> o.id, userId |-> o.user, lines |-> o.lines]

\* An order is placed: all of it, or nothing of it.
Place(o) ==
    /\ \A other \in orders : other.key # o.key /\ other.id # o.id
    /\ \A b \in DOMAIN o.lines : b \in DOMAIN books /\ InStock(books[b], o.lines[b])
    /\ books' = Shelf(o)
    /\ orders' = orders \cup {o}
    /\ outbox' = outbox \cup {Announcement(o)}

-----------------------------------------------------------------------------

Init ==
    /\ books = Stock
    /\ orders = {}
    /\ outbox = {}

\* Any order may be placed: which one is whatever a step adds.
Next == \E o \in orders' \ orders : Place(o)

Spec == Init /\ [][Next]_ledger
=============================================================================
