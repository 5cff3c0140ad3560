------------------------------- MODULE Orders -------------------------------
(***************************************************************************)
(* OrdersService.createOrder (apps/orders-service), run by any number of   *)
(* concurrent calls against one PostgreSQL database.                       *)
(*                                                                         *)
(* books, orders and outbox are the COMMITTED rows.  What a transaction    *)
(* has written and not committed is in tx[c], and nobody else sees it      *)
(* (READ COMMITTED); the rows it has locked FOR UPDATE are those it holds  *)
(* in lock.  One action is one statement of the transaction, or one step   *)
(* of the call between two awaits: calls interleave everywhere else.       *)
(*                                                                         *)
(* A request is what the call works with after mergeDuplicateItems: items  *)
(* maps each requested book to its total quantity.  The sha256 of the      *)
(* canonical JSON of a request tells two requests apart exactly when user  *)
(* or items differ, so Hash is the pair of them.                           *)
(***************************************************************************)
EXTENDS Integers, FiniteSetsExt

CONSTANTS Call,        \* calls of createOrder, over the life of the system
          Key, User,   \* idempotency keys and user ids that requests carry
          Registered,  \* the users the Users service knows
          Book,        \* book ids that requests name; "book.id ASC" is <
          Stock,       \* the rows of books at the beginning, by id
          Requests,    \* the requests that clients send
          MaxInt       \* the largest value of an integer column

Quantity == Nat \ {0}
Row   == [available : Nat, sold : Nat, price : Quantity, active : BOOLEAN]
Line  == [quantity : Quantity, unitPrice : Quantity]

\* What a client sends, and the lines that order_items keeps of it.
IsRequest(r) ==
    /\ r.key \in Key
    /\ r.user \in User
    /\ DOMAIN r.items \subseteq Book
    /\ \A b \in DOMAIN r.items : r.items[b] \in Quantity

AreLines(lines) ==
    /\ DOMAIN lines \subseteq Book
    /\ \A b \in DOMAIN lines : lines[b] \in Line

ASSUME OrdersAssumption ==
    /\ Book \subseteq Nat
    /\ Registered \subseteq User
    /\ MaxInt \in Nat
    /\ DOMAIN Stock \subseteq Book
    /\ \A b \in DOMAIN Stock : Stock[b] \in Row
    /\ \A r \in Requests : IsRequest(r)

\* A row of orders with its order_items, and a row of outbox_events.
IsOrder(o) ==
    /\ o.id \in Call
    /\ o.key \in Key
    /\ o.user \in User
    /\ AreLines(o.lines)

IsEvent(e) ==
    /\ e.id \in Call
    /\ e.orderId \in Call
    /\ e.userId \in User
    /\ AreLines(e.lines)

Hash(r) == <<r.user, r.items>>

VARIABLES
    books,     \* committed rows of books
    orders,    \* committed rows of orders and order_items
    outbox,    \* committed rows of outbox_events
    entity,    \* the Book entities a call has loaded: its locked rows
    tx,        \* the rows a call has written and not committed
    request,   \* what each call was asked
    pc,        \* where each call is
    reply      \* what each call answered

store == <<books, orders, outbox>>
vars  == <<books, orders, outbox, entity, tx, request, pc, reply>>

\* Answers: the order, or the code of the error.  Nothing before either.
Success(o)    == [code |-> "OK", orders |-> {o}]
Failure(code) == [code |-> code, orders |-> {}]
NoReply       == Failure("")

Code == {"", "OK", "IDEMPOTENCY_KEY_REUSED", "USER_NOT_FOUND",
         "USERS_SERVICE_TIMEOUT", "USERS_SERVICE_UNAVAILABLE",
         "BOOK_NOT_AVAILABLE", "INSUFFICIENT_STOCK", "INTERNAL_ERROR"}

NoRows   == [b \in {} |-> 0]
Writes(bs, os, es) == [books |-> bs, orders |-> os, outbox |-> es]
NoWrites == Writes(NoRows, {}, {})

-----------------------------------------------------------------------------
(* The state of a call.                                                    *)

Outside == {"idle", "find", "user", "respond", "reread", "done", "crashed"}
InTransaction == {"lock", "save", "insert", "event", "commit"}

Init ==
    /\ books = Stock
    /\ orders = {}
    /\ outbox = {}
    /\ entity = [c \in Call |-> NoRows]
    /\ tx = [c \in Call |-> NoWrites]
    /\ request \in [Call -> Requests]
    /\ pc = [c \in Call |-> "idle"]
    /\ reply = [c \in Call |-> NoReply]

Goto(c, label) == pc' = [pc EXCEPT ![c] = label]

\* The call answers, and is over.
Answer(c, answer) ==
    /\ Goto(c, "done")
    /\ reply' = [reply EXCEPT ![c] = answer]

\* The database forgets the transaction of a call and frees its rows.
RollBack(c) ==
    /\ entity' = [entity EXCEPT ![c] = NoRows]
    /\ tx' = [tx EXCEPT ![c] = NoWrites]

\* Mutant of Replay: the request hash is not compared.
ReplayAnything(o, r) == Success(o)

\* replayOrder: the stored order, if it was placed by the same request.
Replay(o, r) ==
    IF o.hash = Hash(r) THEN Success(o) ELSE Failure("IDEMPOTENCY_KEY_REUSED")

\* findByIdempotencyKey.
OrdersOf(key) == {o \in orders : o.key = key}

-----------------------------------------------------------------------------
(* Before the transaction.                                                 *)

\* The request reaches createOrder.
Receive(c) ==
    /\ pc[c] = "idle"
    /\ Goto(c, "find")
    /\ UNCHANGED <<store, entity, tx, request, reply>>

\* Mutant of FindByKey: only the unique index keeps a key from being used twice.
SkipLookup(c) ==
    /\ pc[c] = "find"
    /\ Goto(c, "user")
    /\ UNCHANGED <<store, entity, tx, request, reply>>

\* The key is looked up outside any transaction.
FindByKey(c) ==
    /\ pc[c] = "find"
    /\ \/ \E o \in OrdersOf(request[c].key) : Answer(c, Replay(o, request[c]))
       \/ /\ OrdersOf(request[c].key) = {}
          /\ Goto(c, "user")
          /\ UNCHANGED reply
    /\ UNCHANGED <<store, entity, tx, request>>

\* ensureUserExists: the Users service answers, is late, or is away.
EnsureUser(c) ==
    /\ pc[c] = "user"
    /\ \/ /\ request[c].user \in Registered
          /\ Goto(c, "lock")
          /\ UNCHANGED reply
       \/ /\ request[c].user \notin Registered
          /\ Answer(c, Failure("USER_NOT_FOUND"))
       \/ \E code \in {"USERS_SERVICE_TIMEOUT", "USERS_SERVICE_UNAVAILABLE"} :
             Answer(c, Failure(code))
    /\ UNCHANGED <<store, entity, tx, request>>

-----------------------------------------------------------------------------
(* findBooksForUpdate: SELECT ... ORDER BY book.id FOR UPDATE.  PostgreSQL *)
(* locks the rows one by one in that order, and waits for each.            *)

Locked(c) == DOMAIN entity[c]

\* Mutant of Free: the rows are read without FOR UPDATE.
NeverWait(b) == TRUE

Free(b) == \A d \in Call : b \notin Locked(d)

\* The existing rows among those requested that are still to be locked.
ToLock(c) == (DOMAIN request[c].items \cap DOMAIN books) \ Locked(c)

\* Mutant of IsNext: the query has no ORDER BY.
InAnyOrder(c, b) == b \in ToLock(c)

IsNext(c, b) == b \in ToLock(c) /\ \A d \in ToLock(c) : b <= d

\* A row is locked and read: what is read is its last committed version.
LockBook(c, b) ==
    /\ pc[c] = "lock"
    /\ IsNext(c, b)
    /\ Free(b)
    /\ entity' = [entity EXCEPT ![c] =
                    [d \in Locked(c) \cup {b} |->
                        IF d = b THEN books[b] ELSE entity[c][d]]]
    /\ UNCHANGED <<store, tx, request, pc, reply>>

-----------------------------------------------------------------------------
(* The loop over the requested items, in order of book id.                 *)

\* Mutants of Verdict: stock is compared with one unit too many, or too few.
SellsOneMore(c, b) ==
    IF b \notin Locked(c) \/ ~entity[c][b].active THEN "BOOK_NOT_AVAILABLE"
    ELSE IF entity[c][b].available + 1 < request[c].items[b] THEN "INSUFFICIENT_STOCK"
    ELSE "OK"

KeepsTheLast(c, b) ==
    IF b \notin Locked(c) \/ ~entity[c][b].active THEN "BOOK_NOT_AVAILABLE"
    ELSE IF entity[c][b].available <= request[c].items[b] THEN "INSUFFICIENT_STOCK"
    ELSE "OK"

\* What assertBookCanBeOrdered finds of a requested item: a code, or "OK".
Verdict(c, b) ==
    CASE b \notin Locked(c)                               -> "BOOK_NOT_AVAILABLE"
      [] b \in Locked(c) /\ ~entity[c][b].active          -> "BOOK_NOT_AVAILABLE"
      [] b \in Locked(c) /\ entity[c][b].active
         /\ entity[c][b].available < request[c].items[b]  -> "INSUFFICIENT_STOCK"
      [] OTHER                                            -> "OK"

Refused(c) == {b \in DOMAIN request[c].items : Verdict(c, b) # "OK"}

\* Mutant of Take: sold_quantity is forgotten.
TakeUncounted(row, quantity) == [row EXCEPT !.available = @ - quantity]

\* The entity of a book after its item was taken.
Take(row, quantity) ==
    [row EXCEPT !.available = @ - quantity, !.sold = @ + quantity]

\* All items can be had: every entity is changed, in memory.
TakeItems(c) ==
    /\ pc[c] = "lock"
    /\ ToLock(c) = {}
    /\ Refused(c) = {}
    /\ entity' = [entity EXCEPT ![c] =
                    [b \in Locked(c) |-> Take(@[b], request[c].items[b])]]
    /\ Goto(c, "save")
    /\ UNCHANGED <<store, tx, request, reply>>

\* Mutant of RefuseItems: the transaction is left open.
RefuseKeepingLocks(c) ==
    /\ pc[c] = "lock"
    /\ ToLock(c) = {}
    /\ \E b \in Refused(c) : Answer(c, Failure(Verdict(c, b)))
    /\ UNCHANGED <<store, entity, tx, request>>

\* The first item that cannot be had ends the call and its transaction.
RefuseItems(c) ==
    /\ pc[c] = "lock"
    /\ ToLock(c) = {}
    /\ \E b \in Refused(c) :
          /\ \A d \in Refused(c) : b <= d
          /\ Answer(c, Failure(Verdict(c, b)))
    /\ RollBack(c)
    /\ UNCHANGED <<store, request>>

-----------------------------------------------------------------------------
(* The writes of the transaction.                                          *)

\* Mutant of SaveBooks: the books are saved outside the transaction.
SaveBooksAtOnce(c) ==
    /\ pc[c] = "save"
    /\ books' = [b \in DOMAIN books |-> IF b \in Locked(c) THEN entity[c][b]
                                        ELSE books[b]]
    /\ Goto(c, "insert")
    /\ UNCHANGED <<orders, outbox, entity, tx, request, reply>>

\* saveBooks: the columns are written, if sold_quantity still fits its type.
SaveBooks(c) ==
    /\ pc[c] = "save"
    /\ \A b \in Locked(c) : entity[c][b].sold <= MaxInt
    /\ tx' = [tx EXCEPT ![c] = Writes(entity[c], {}, {})]
    /\ Goto(c, "insert")
    /\ UNCHANGED <<store, entity, request, reply>>

\* saveBooks: PostgreSQL refuses a value that is out of range.
Overflow(c) ==
    /\ pc[c] = "save"
    /\ \E b \in Locked(c) : entity[c][b].sold > MaxInt
    /\ Answer(c, Failure("INTERNAL_ERROR"))
    /\ RollBack(c)
    /\ UNCHANGED <<store, request>>

\* The row and the lines that createOrder inserts.
NewOrder(c) ==
    [id    |-> c,
     key   |-> request[c].key,
     user  |-> request[c].user,
     hash  |-> Hash(request[c]),
     lines |-> [b \in DOMAIN request[c].items |->
                   [quantity  |-> request[c].items[b],
                    unitPrice |-> entity[c][b].price]]]

\* Mutant of KeyPending: there is no unique index, only lookups.
NeverPending(c) == FALSE

\* Another transaction has inserted the key and has not ended: the unique
\* index UQ_orders_idempotency_key makes the insert wait for its outcome.
KeyPending(c) ==
    \E d \in Call \ {c} : \E o \in tx[d].orders : o.key = request[c].key

\* createOrder: the key is free, and the order is inserted.
InsertOrder(c) ==
    /\ pc[c] = "insert"
    /\ ~KeyPending(c)
    /\ OrdersOf(request[c].key) = {}
    /\ tx' = [tx EXCEPT ![c] = Writes(@.books, {NewOrder(c)}, {})]
    /\ Goto(c, "event")
    /\ UNCHANGED <<store, entity, request, reply>>

\* createOrder: the key is taken (23505), so the call will read the order
\* that has it once its own transaction is rolled back.
MeetKeyConflict(c) ==
    /\ pc[c] = "insert"
    /\ ~KeyPending(c)
    /\ OrdersOf(request[c].key) # {}
    /\ RollBack(c)
    /\ Goto(c, "reread")
    /\ UNCHANGED <<store, request, reply>>

\* createOrderCreatedEvent: totalAmount and itemCount are computed from the
\* lines of the order, which stand for both.
NewEvent(c, o) ==
    [id |-> c, orderId |-> o.id, userId |-> o.user, lines |-> o.lines]

\* Mutant of SaveOutboxEvent: the event is saved outside the transaction.
SaveEventAtOnce(c) ==
    /\ pc[c] = "event"
    /\ outbox' = outbox \cup {NewEvent(c, o) : o \in tx[c].orders}
    /\ Goto(c, "commit")
    /\ UNCHANGED <<books, orders, entity, tx, request, reply>>

SaveOutboxEvent(c) ==
    /\ pc[c] = "event"
    /\ tx' = [tx EXCEPT ![c] = Writes(@.books, @.orders,
                                      {NewEvent(c, o) : o \in @.orders})]
    /\ Goto(c, "commit")
    /\ UNCHANGED <<store, entity, request, reply>>

\* COMMIT: all that was written is seen from now on, and the rows are free.
Commit(c) ==
    /\ pc[c] = "commit"
    /\ books' = [b \in DOMAIN books |-> IF b \in DOMAIN tx[c].books
                                        THEN tx[c].books[b]
                                        ELSE books[b]]
    /\ orders' = orders \cup tx[c].orders
    /\ outbox' = outbox \cup tx[c].outbox
    /\ RollBack(c)
    /\ Goto(c, "respond")
    /\ UNCHANGED <<request, reply>>

-----------------------------------------------------------------------------
(* After the transaction.                                                  *)

\* Mutant of Respond: the transaction is not awaited.
RespondUnawaited(c) ==
    /\ pc[c] = "commit"
    /\ \E o \in tx[c].orders : Answer(c, Success(o))
    /\ RollBack(c)
    /\ UNCHANGED <<store, request>>

\* The committed order is returned.
Respond(c) ==
    /\ pc[c] = "respond"
    /\ \E o \in orders : o.id = c /\ Answer(c, Success(o))
    /\ UNCHANGED <<store, entity, tx, request>>

\* The catch of createOrder: the order that took the key is replayed; if it
\* is not there the error of the insert is thrown again.
Reread(c) ==
    /\ pc[c] = "reread"
    /\ Answer(c, IF OrdersOf(request[c].key) = {}
                 THEN Failure("INTERNAL_ERROR")
                 ELSE Replay(CHOOSE o \in OrdersOf(request[c].key) : TRUE,
                             request[c]))
    /\ UNCHANGED <<store, entity, tx, request>>

-----------------------------------------------------------------------------
(* What may go wrong.                                                      *)

\* A statement fails: the connection is lost, a total_amount overflows,
\* the acknowledgement of COMMIT does not arrive (pc = "respond").
DatabaseError(c) ==
    /\ pc[c] \in InTransaction \cup {"find", "respond", "reread"}
    /\ Answer(c, Failure("INTERNAL_ERROR"))
    /\ RollBack(c)
    /\ UNCHANGED <<store, request>>

\* The process of the call dies; PostgreSQL rolls the open transaction back.
Crash(c) ==
    /\ pc[c] \notin {"idle", "done", "crashed"}
    /\ Goto(c, "crashed")
    /\ RollBack(c)
    /\ UNCHANGED <<store, request, reply>>

-----------------------------------------------------------------------------

\* What a call does when nothing goes wrong with the database or the process.
Step(c) ==
    \/ FindByKey(c)
    \/ EnsureUser(c)
    \/ \E b \in Book : LockBook(c, b)
    \/ TakeItems(c)
    \/ RefuseItems(c)
    \/ SaveBooks(c)
    \/ Overflow(c)
    \/ InsertOrder(c)
    \/ MeetKeyConflict(c)
    \/ SaveOutboxEvent(c)
    \/ Commit(c)
    \/ Respond(c)
    \/ Reread(c)

\* All calls are over.
Finished ==
    /\ \A c \in Call : pc[c] \in {"done", "crashed"}
    /\ UNCHANGED vars

Next ==
    \/ \E c \in Call : Receive(c) \/ Step(c) \/ DatabaseError(c) \/ Crash(c)
    \/ Finished

Spec == Init /\ [][Next]_vars

-----------------------------------------------------------------------------
(* Properties.                                                             *)

\* The types of the variables.
TypeOK ==
    /\ DOMAIN Stock \subseteq DOMAIN books
    /\ \A b \in DOMAIN books : books[b] \in Row
    /\ \A o \in orders : IsOrder(o)
    /\ \A e \in outbox : IsEvent(e)
    /\ DOMAIN entity = Call
    /\ DOMAIN tx = Call
    /\ \A c \in Call :
          /\ Locked(c) \subseteq DOMAIN books \cap DOMAIN request[c].items
          /\ \A b \in Locked(c) : entity[c][b] \in Row
          /\ \A b \in DOMAIN tx[c].books : tx[c].books[b] \in Row
          /\ \A o \in tx[c].orders : IsOrder(o)
          /\ \A e \in tx[c].outbox : IsEvent(e)
          /\ reply[c].code \in Code
          /\ reply[c].orders \subseteq orders
    /\ request \in [Call -> Requests]
    /\ pc \in [Call -> Outside \cup InTransaction]
    /\ DOMAIN reply = Call

\* The entities a transaction works on never go stale: until it ends, no other
\* transaction has the same row locked, and the committed row is still the
\* one the entity was made from.  A lock that is missing, taken late or given
\* up early would lose the update of another order.
FreshReads ==
    \A c \in Call :
        /\ \A d \in Call \ {c} : Locked(c) \cap Locked(d) = {}
        /\ pc[c] = "lock" => \A b \in Locked(c) : entity[c][b] = books[b]
        /\ pc[c] \in {"save", "insert", "event", "commit"} =>
              \A b \in Locked(c) :
                  entity[c][b] = Take(books[b], request[c].items[b])

\* No two orders have the same idempotency key, whether they are committed
\* or still being written by transactions that run at the same time.
KeyUnique ==
    LET Written == orders \cup UNION {tx[c].orders : c \in Call}
    IN  \A o, p \in Written : o.key = p.key => o = p

\* The outbox announces every committed order exactly once, and nothing
\* else: neither survives without the other, wherever the call was cut off.
EventPerOrder ==
    /\ \A o \in orders : \E e \in outbox : e.orderId = o.id /\ e.lines = o.lines
    /\ \A e \in outbox : \E o \in orders : e.orderId = o.id
    /\ \A e, f \in outbox : e.orderId = f.orderId => e = f

\* How many copies of a book some orders contain.
Copies(os, b) ==
    SumFunction([o \in {p \in os : b \in DOMAIN p.lines} |-> o.lines[b].quantity])

\* The books that left the shelf are those of the orders: sold_quantity and
\* available_quantity differ from the initial stock by what was ordered.
SoldMatchesOrders ==
    \A b \in DOMAIN books :
        /\ books[b].sold = Stock[b].sold + Copies(orders, b)
        /\ books[b].available = Stock[b].available - Copies(orders, b)

\* What a call answers is true of the database from then on: the order it
\* returns is committed and is the one asked for; a refusal has placed no
\* order; a key reported as reused belongs to another request's order.
AnswersTrue ==
    \A c \in Call :
        LET r == request[c] IN
        /\ reply[c].code = "OK" =>
              \E o \in orders : /\ reply[c] = Success(o)
                                /\ o.key = r.key
                                /\ o.hash = Hash(r)
        /\ reply[c].code \notin {"", "OK", "INTERNAL_ERROR"} =>
              \A o \in orders : o.id # c
        /\ reply[c].code = "IDEMPOTENCY_KEY_REUSED" =>
              \E o \in orders : o.key = r.key /\ o.hash # Hash(r)

\* The read that follows a key conflict finds the order: the error of the
\* insert is never thrown again by createOrder.
ConflictIsResolved ==
    \A c \in Call : pc[c] = "reread" => OrdersOf(request[c].key) # {}

\* A call waits for another one: for a row, or for the outcome of its insert.
WaitsFor(c, d) ==
    /\ c # d
    /\ \/ pc[c] = "lock" /\ \E b \in Locked(d) : IsNext(c, b)
       \/ pc[c] = "insert" /\ \E o \in tx[d].orders : o.key = request[c].key

\* Calls never wait for each other in a circle, however their books overlap:
\* of finitely many calls one waits for none of them.
NoWaitCycle ==
    \A S \in SUBSET Call :
        S # {} /\ IsFiniteSet(S) => \E c \in S : \A d \in S : ~WaitsFor(c, d)

\* A call has arrived, is not over, and neither a row nor a key keeps it from
\* its next step.
UnderWay == {c \in Call : pc[c] \notin {"idle", "done", "crashed"}}

CanGoOn(c) ==
    /\ pc[c] = "lock" => \/ ToLock(c) = {}
                         \/ \E b \in ToLock(c) : IsNext(c, b) /\ Free(b)
    /\ pc[c] = "insert" => ~KeyPending(c)
    /\ pc[c] = "respond" => \E o \in orders : o.id = c

\* With no error and no crash to end one of them, some call under way can
\* always take its next step: who holds a row or a key is never over.
SomeoneCanGoOn ==
    UnderWay # {} /\ IsFiniteSet(UnderWay) => \E c \in UnderWay : CanGoOn(c)

\* Stock is refused only when it is really short: what a transaction has
\* taken and not committed never makes another one fail.
RefusalsReal ==
    [][\A c \in Call :
          reply'[c] # reply[c] /\ reply'[c].code = "INSUFFICIENT_STOCK" =>
              \E b \in DOMAIN request[c].items \cap DOMAIN books :
                  books[b].available < request[c].items[b]]_vars

Promise == INSTANCE Ledger

\* Orders are placed as the ledger promises: each in one step, all its lines
\* at the stock and the prices of that step, with its event.
PlacesAtomically == Promise!Spec

\* Calls that have arrived are all answered in the end, unless their process
\* dies: none of them waits for ever for a row or a key.
EveryCallAnswered ==
    LET Waiting(c) == pc[c] \notin {"idle", "done", "crashed"}
    IN  (\E c \in Call : Waiting(c)) ~> (\A c \in Call : ~Waiting(c))

\* What a transaction has locked and written at each of its steps, and what
\* of it is left when it has ended.
Stage(c) ==
    LET o == NewOrder(c) IN
    /\ pc[c] \in Outside => entity[c] = NoRows
    /\ pc[c] \in Outside \cup {"lock", "save"} => tx[c] = NoWrites
    /\ pc[c] \in {"save", "insert", "event", "commit"} =>
          /\ Locked(c) = DOMAIN request[c].items
          /\ \A b \in Locked(c) : entity[c][b].active
    /\ pc[c] = "insert" => tx[c] = Writes(entity[c], {}, {})
    /\ pc[c] = "event"  => tx[c] = Writes(entity[c], {o}, {})
    /\ pc[c] = "commit" => tx[c] = Writes(entity[c], {o}, {NewEvent(c, o)})
    /\ pc[c] = "respond" => \E p \in orders : p.id = c
    /\ pc[c] \notin {"done", "crashed"} => reply[c] = NoReply

\* A committed order is what the call of its id was asked for, and that call
\* is past its transaction.
Origin(o) ==
    /\ pc[o.id] \in {"respond", "done", "crashed"}
    /\ o.key = request[o.id].key
    /\ o.user = request[o.id].user
    /\ o.hash = Hash(request[o.id])

\* The inductive invariant that the safety properties follow from.
Inv ==
    /\ TypeOK
    /\ \A c \in Call : Stage(c)
    /\ \A o \in orders : Origin(o)
    /\ FreshReads
    /\ KeyUnique
    /\ EventPerOrder
    /\ AnswersTrue
    /\ ConflictIsResolved

\* README: repeating the same key and request returns the original order.
\* So a call never refuses the stock that the order of its own key has taken.
RetryReturnsOrder ==
    [][\A c \in Call :
          reply'[c] # reply[c] /\ reply'[c].code = "INSUFFICIENT_STOCK" =>
              \A o \in OrdersOf(request[c].key) : o.hash # Hash(request[c])]_vars
=============================================================================
