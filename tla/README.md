# Verification of bookstore-microservices

TLA+ specifications of the bookstore: how orders take stock, how the Books
service edits the same rows, how an order's event reaches the notification of
its buyer, how accounts are opened, and what clients are told of all this by a
Gateway that may stop waiting. TLC checks small instances; TLAPS proves every safety
property and every refinement that the passing runs check, for all instances.
Only what needs fairness is left to TLC.
Paths are relative to the repository.

## 1. Inventory

Five NestJS applications over one PostgreSQL database, TCP between the Gateway
and the services, RabbitMQ for the one event.

| Component | State | Operations that change it | Interacts with |
|---|---|---|---|
| Orders: `createOrder` (`apps/orders-service/src/orders/services`, `repositories`) | rows of `orders`, `order_items`, `books` (stock), `outbox_events`; per call: its transaction, locked rows, entities | `createOrder` | Users (TCP request), PostgreSQL, Books (same table) |
| Orders: outbox (`.../outbox`) | `outbox_events` (published, lease, attempts, next attempt); per process: `publishing`, its batch, the RabbitMQ client's buffer | `publishPending`, `publishOne`, `claimPending`, `markPublished`, `markFailed` | PostgreSQL, RabbitMQ |
| Books (`apps/books-service`) | rows of `books`; per call: an entity | `createBook`, `updateBook`, `deactivateBook` | PostgreSQL, Orders (same table) |
| Notifications (`apps/notifications-service`) | rows of `notifications`; deliveries not acknowledged | `handleOrderCreated` | RabbitMQ, PostgreSQL |
| Users (`apps/users-service`) | rows of `users` | `signup` | PostgreSQL |
| API Gateway (`apps/api-gateway`) | none but pending requests and throttling counters | `dispatch` | all services |
| `libs/common`, `libs/database` | none | validation pipe, logging, contracts | all |
| `database/migrations`, `database/seeds` | the schema; the seed upserts two books | run by hand or at deployment | |

What is hard, and where (PROJECT.json lists each hazard at its line):

- **Orders.** Calls interleave at every `await`. The key is looked up before
  the transaction, stock is read under row locks and written some awaits later,
  and an insert may wait for another transaction's key. Any statement may fail,
  the acknowledgement of `COMMIT` may be lost, the process may die. Correct
  means: stock, order and event change together or not at all; no key is used
  twice; what a call answers is true; calls do not wait in a circle.
- **Books.** Entities are loaded without a lock and saved as a whole, against
  other edits and against orders. Correct means: ISBNs stay unique, and an edit
  changes what it was asked to change. The second is not so: see the findings.
- **Outbox.** A lease covers a batch and may run out while its owner is alive;
  a message may be in the queue although its confirm never came; a mark may come
  late. Correct means: published implies accepted, published is final, every
  event is published in the end, and nothing is sent again unless something went
  wrong.
- **Users.** The email is looked up, then a password is hashed for a while, then
  the row is inserted; the insert may wait for another one that fails or dies.
  Correct means: one account per email, and what a signup is told is true.
- **Gateway.** It stops waiting after a deadline or when its connection closes,
  and nothing takes the TCP message back. Its table of routes, the payloads it
  builds and the two validations must agree. Correct means: a client that
  retries with its key ends up with one order and knows it; each request reaches
  the handler it names, with the ids of its path and the key of its header.
- **Computations of an order.** Items are merged, sorted and hashed, money is
  computed in cents. Correct means: charged to the cent what was asked for, and
  the same purchase is recognised however it is written.
- **Notifications.** Messages are repeated, and a handler may outlive its
  channel. Correct means: one notification per event, and none is lost.

## 2. Modules

| Module | Models | Kind |
|---|---|---|
| `Ledger` | what orders promise: one step takes the stock, adds the order and its event | abstract |
| `Orders` | concurrent calls of `createOrder`, statement by statement | detailed, implements `Ledger` |
| `OrdersProofs` | theorems about `Orders` | proofs |
| `Books` | concurrent `createBook`, `updateBook`, `deactivateBook` | detailed |
| `BooksProofs` | theorems about `Books` | proofs |
| `Store` | `Orders` and `Books` over one `books` table | composition |
| `Outbox` | publishers, their leases, the RabbitMQ client | detailed |
| `Announcing` | what delivery promises: one notification for each committed event | abstract |
| `Notifications` | the queue and its consumers | detailed |
| `Delivery` | `Outbox` and `Notifications` over one queue | composition, implements `Announcing` |
| `DeliveryProofs` | theorems about `Outbox` and `Delivery` | proofs |
| `Pipeline` | `Orders` and `Delivery` over one `outbox_events` table | composition, implements `Orders`, `Delivery` and `Announcing` |
| `Accounts` | what the bookstore promises of accounts and of what is said about them | abstract |
| `Users` | concurrent `signup` and `getUser` | detailed, implements `Accounts` |
| `UsersProofs` | theorems about `Users` | proofs |
| `Gateway` | HTTP requests and retries in front of `Orders` | composition, implements `Orders` |
| `Reads` | `getOrder`, `listUserOrders`, `getCatalog`, `getBook`, asked of any state of `Gateway` | operators |
| `CompositionProofs` | theorems about `Store`, `Pipeline`, `Gateway` and `Reads`, from those about their parts | proofs |
| `Money` | `moneyToCents`, `formatMoney` | operators |
| `Sorting` | sorted sets of numbers as lists, without recursion | operators |
| `Checkout` | what `createOrder` computes, and replays of its key | detailed |
| `CheckoutProofs` | theorems about `Money` and `Checkout` | proofs |
| `Routes` | one request through middleware, registry, payload and both validations | detailed |
| `RoutesProofs` | theorems about `Routes` | proofs |
| `Sums` | laws of sums over finite sets and of sorted sets | lemmas |
| `MCOrders`, `MCBooks`, `MCStore`, `MCOutbox`, `MCDelivery`, `MCPipeline`, `MCGateway`, `MCUsers`, `MCRoutes`, `MCCheckout` | values for the constants | for TLC |

Operators whose comment begins with "Mutant of" are plausible bugs. No
specification uses them; each is there to show that a property fails if the
code had that bug (PROJECT.json, "mutants").

### Orders

`books`, `orders`, `outbox` are the committed rows. `tx[c]` is what the
transaction of call `c` has written and nobody else sees; `entity[c]` are the
Book entities it has loaded, whose domain is the set of rows it holds
`FOR UPDATE`. `pc[c]` is the place in `createOrder`:

| `pc` | Action | Code (`orders.service.ts`, `orders.repository.ts`) |
|---|---|---|
| `idle` | `Receive` | the controller |
| `find` | `FindByKey` | `findByIdempotencyKey`, `replayOrder` |
| `user` | `EnsureUser` | `ensureUserExists` with its three errors |
| `lock` | `LockBook` (row by row), `TakeItems`, `RefuseItems` | `findBooksForUpdate` and the loop over the items |
| `save` | `SaveBooks`, `Overflow` | `saveBooks` |
| `insert` | `InsertOrder`, `MeetKeyConflict` | `createOrder` of the transaction |
| `event` | `SaveOutboxEvent` | `saveOutboxEvent` |
| `commit` | `Commit` | the end of `runInTransaction` |
| `respond` | `Respond` | `return createdOrder` |
| `reread` | `Reread` | the `catch` |
| any | `DatabaseError`, `Crash` | a failed statement; the death of the process |

A request is taken after `mergeDuplicateItems`: a key, a user and a function
from books to quantities. The sha256 of the canonical JSON becomes the pair it
is computed from, which assumes no collisions. Book ids are numbers because
only their order matters. Prices are positive numbers; totals and item counts
are functions of the lines and are left out of the rows. A lost
acknowledgement of `COMMIT` is `DatabaseError` at `respond`.

Writes of one statement are one action: in PostgreSQL nobody sees them before
the commit, and `saveBooks` only touches rows that are already locked. What a
statement waits for is its guard: `Free` for a row, `~KeyPending` for the
unique index. When two calls wait for the same row either may get it.

### Books and Store

TypeORM's `save` of an entity with an id reads the row again, compares it with
the entity and updates the columns that differ. `LoadBook` is `findById` and
the assignments, `CompareRow` the second read, `WriteColumns` the `UPDATE`.
`isbns` stands for all descriptive columns. `OwnKeys` is the set of declared
fields, because the validation pipe builds an `UpdateBookRequest` instance
(`transform: true`) and class fields compiled for ES2023 are defined on it;
`INVALID_BOOK_UPDATE` is therefore never reached, and `LoadBook` has the check as
its guard. A failed statement and a process that dies are both `Fail`: neither
has written anything. The `UPDATE` of any of them may meet the unique index, also
when it only writes back an ISBN that its book has lost to another since: `createBook`
and `updateBook` then answer `DUPLICATE_BOOK_ISBN`, `deactivateBook` has no `catch`
and ends with an internal error (`MeetDuplicate`).

`Store` shares `books` between the two. The Books service reads without waiting
and its `UPDATE` waits until no order holds the row (`Free`).

### Outbox, Notifications and Delivery

A row of `outbox_events` is published or not, has an owner, is `due`
(`next_attempt_at` has passed) and its lease may be `stale` (older than
`OUTBOX_LOCK_TIMEOUT_MS`). Time is these two facts: `BecomeDue` and `GoStale` may
happen at any time, so that every setting of the timeouts and every skew of
clocks is covered. A claim is one SQL statement and one action. `buffer` is what
the RabbitMQ client of a process (`ClientRMQ` over amqp-connection-manager) holds: a
publisher that stops waiting (`TimeOut`) does not take the message back, and the broker
may accept it later (`AcceptUnheard`). A message whose confirm is lost with the
connection is in the queue and still in the client, which sends it again by itself
(`LoseConfirm`): one claim may put several copies into the queue. `Crash` covers the kill of a process
and the rejections of `claimPending` and `markFailed`, which `void
this.publishPending()` leaves unhandled. `Restart` draws a new `workerId`, so the
old leases belong to `Gone`.

In `Notifications` a delivery is `handling` (its INSERT is awaited), then
`stored`, then acknowledged. `Disconnect` returns what is not acknowledged to the
queue while the handlers run on as `orphan`s; `Die` ends them too. `Nack` covers
an INSERT that failed and one that only seemed to.

`Delivery` puts both around one `queue`.

### Pipeline

In `Orders` the outbox is the set of committed events, in `Delivery` it is a table
whose rows some `Write` adds. `Pipeline` is both at once: a step of `createOrder`
(`Placing`) that commits an event adds its row, due at once and nobody's; a step of a
publisher, the broker or a consumer (`Sending`) adds none and changes nothing of
`Orders`. An event has the id of the call that placed its order, so events are calls,
and calls are numbers here because claims are ordered by `occurred_at`; which call
commits first is left open, so this order may be any. A process of the Orders
service runs calls and a publisher. `Crash` of a call and `Crash` of a publisher are
separate steps, so that the death of a process is several of them, and more may happen
than in the code. What `Pipeline` says that its parts cannot is about requests and
orders: which of them are notified, and how often.

### Gateway

A call of `Orders` is one HTTP request. `stage` is where it is in the Gateway,
`http` what its client was answered. `Dispatch` is `dispatch` up to `send`;
`Relay`, `GiveUp` (the `timeout` of `send`) and `Lose` (the connection closes)
end the wait, each through `toHttpException`. `Arrive` is independent of them: a
message that was sent may be handled after its client was told 504 or 500, and
`Work` goes on whoever waits. `Throttle` and `Refuse` answer without a message.
`Cut` is a client, or the Gateway, that goes away. Whatever goes wrong, in the
Gateway or in `createOrder`, is counted by `faults` and bounded by `MaxFaults`;
a connection that closes because its process died is not counted twice. The
attempts of a purchase are the calls with one request; a client may repeat any
request at any time, so attempts overlap in every way.

### Users

`at[c]` is the place in `signup`: `find`, `hash`, `insert`, `commit`. `save` runs
an INSERT and a COMMIT of its own, between which `pending[c]` holds the row that
the unique index already knows: another INSERT of the email waits
(`EmailPending`) until that transaction has ended, and then inserts or meets
`23505`. Emails are spelled in several ways and looked up as `Lower` of them.
Passwords, names and hashes are left out: no branch looks at them. The id of an
account is the call that opened it.

`Accounts` adds what clients have been told to the accounts: one may be shown, or
an email denied, only when it is open.

### Routes

The whole life of one request, for every method, path and body of the instance.
`Registry` is the table in its order, `Matching` and `Resolve` the loop over it,
`Payload` the spreads of `buildPayload` and `dispatch`. `Valid` is a validation by class: all that is required, no
more than is declared, every value well-formed; the Gateway applies it with the
class of the route, the service (`Taken`) with that of its handler. A path is the
sequence of what stands between slashes, empty strings included. Of a value only
counts whether it is a UUID, which one, and whether it is well-formed.

### Checkout and Money

`Checkout` is one key's life through the pure part of `createOrder`:
`MergeDuplicateItems`, `CreateRequestHash` (the hash is the pair it is computed
from), the loop in cents (`PriceItem`), the order and its event, then any other
request with the same key (`Repeat`). Ids come as spellings, because `@IsUUID`
takes both cases: books are found by value and looked up by spelling. `Money`
has the two conversions, with amounts as the number before the point and the
digits after it.

### Reads

Each query is one SELECT without a lock, so its answer is a function of what is
committed, and a client may ask at any time: the properties are invariants of
`Gateway` about what the queries would answer. A query that fails or times out
answers with nothing, which they allow.

## 3. Runs

| Run | Instance | Shows |
|---|---|---|
| `orders` | 3 calls, 2 keys, 8 requests | the safety properties of `Orders`, that it never comes to stand, and that it implements `Ledger` |
| `orders_retry` | as above, 2 requests | finding 2 |
| `books` | 3 writers, 9 tasks | ISBNs stay unique, duplicates are real |
| `store` | 2 orders, 2 writers | orders are placed at the stock and prices of the moment, whatever is edited |
| `store_sales` | as above | findings 1 and 3 |
| `outbox` | 2 publishers, 3 events, batches of 2, 2 faults | published implies accepted, published is final, nothing is sent again without a fault, leases hold and are worked on |
| `delivery` | 2 publishers, 2 consumers, 1 event, 2 faults, 2 lost channels | nothing is lost, one notification, and every event is published and notified in the end |
| `pipeline` | 2 calls, 2 keys, 3 requests, 1 publisher, 1 consumer, 1 fault, 1 lost channel | orders are announced and nothing else is, once each and once for a key; none is forgotten between the services |
| `gateway` | 3 requests, 3 purchases with one key, 1 fault | all clients of a key are told of the same order and find it; a final refusal is final; no call waits for ever; a client that keeps trying is told the truth about its purchase |
| `users` | 3 calls, 2 emails in 3 spellings | emails stay unique, signups are told the truth and are answered, accounts that were shown are found, and it implements `Accounts` |
| `routes` | every path of up to 4 segments over 9 words, 5 methods, 13 bodies | routes do not hide each other, path and header win, both validations agree, one id traces a request |
| `checkout` | 2 books and one that is not sold, lists of up to 3 items, 2 users | exact totals, replays of the same purchase only, valid events, true refusals |

Bounds, and why they are enough:

- `orders`: three calls are needed for a circle of waits that is not a pair and
  for a third call that reads what two others compete for; the requests share
  both keys and both books, ask for the last copy, for an unknown user, for an
  inactive and a missing book. Book 1 has three copies and `MaxInt = 2`, so that
  selling all of them overflows `sold_quantity`. Calls are symmetric.
- `books`: three writers, because one ISBN may be looked up by one, freed by
  another and taken by a third. New books have two ids to choose from.
- `store`: two orders and two writers over two books; one writer alone already
  loses an update.
- `outbox`: the third event makes the batch limit bite. Two faults allow a
  stale lease and a late mark, or a crash and a timeout; three faults were
  tried with two events and showed nothing else.
- `delivery`: one event is enough for duplicates, which never mix events; two
  faults allow a crash and a message that is sent again, or a failed insert as
  well.
- `pipeline`: two calls share a key, with one request or two, or a book; every
  failure of a call may happen at any step and is not counted. One fault of the
  publisher and one lost channel are enough for a message that is sent or handled
  twice; more replicas are in `delivery`, and any number of everything is proved.
- `gateway`: three attempts of one purchase, two and a third request that uses its
  key for another, or three that compete for one key; `MCGatewayInit` leaves out
  what only swaps the names of the calls. With one copy of each book calls wait for
  rows and for the key, a retry finds the copy that its first attempt has taken gone,
  and a purchase of two copies is short of stock for good. Three attempts are the
  fewest that `ClientIsTold` speaks of with one fault. What more requests or faults could do
  to safety is proved (section 5). `MaxInt` is not reached: a purchase that
  overflows a column would be answered 500 each time.
- `users`: one signup inserts, one waits for it, one looks up before or after;
  the two spellings of one email meet the second email's.
- `routes`: a path of four segments is the longest template, the words are
  those of all templates plus a UUID, an unknown word and the empty one. Bodies
  are tried on `POST` and `PUT` of up to three segments, which is where a body
  is used.
- `checkout`: two items of one or two copies, or three single ones, in any
  order; prices with a zero in either place of the cents.

Fairness:

- `delivery` assumes that the poll timer keeps firing, that the confirm of
  a message comes (that it is late, lost or refused is a fault), that time passes, and
  that a dead container is restarted (`restart: unless-stopped` in
  `compose.yaml`). It does not assume that a live worker's lease expires. Faults
  are not forced and there are finitely many: "once things stop going wrong".
  Further, the queue hands out every message in turn and an INSERT tried again
  and again succeeds in the end (strong fairness). The README of the repository
  says itself that there is no answer to an event that fails for ever.
- `gateway` assumes that messages to a live process arrive, that calls which can
  go on do (Node.js runs every continuation and PostgreSQL grants a lock that is
  free), that replies are relayed, that the end of a process is noticed by its
  connection, and that a client which has nothing to wait for and was not told
  what became of its purchase repeats it. Nothing that goes wrong is assumed to
  happen, and it happens at most `MaxFaults` times. `ClientIsTold` is about clients
  that have two attempts more than that and wait for the answer to one before they
  send the next. Because of finding 2 they must not take one `409 INSUFFICIENT_STOCK`
  for an answer (`Conclusive`, `Told`); two of them, one after the other, are true:
  by the second the order of a late original would be found by its key. With one
  attempt less, or with attempts beside each other, TLC refutes the property.
- `users` assumes that a signup that can take a step does; neither failures nor
  crashes are assumed.

Deadlock is not checked in the outbox, delivery and pipeline runs, where nothing is left
to do when all is published and notified, nor in `routes`, where the request's way
ends. In the others `Finished` is a step of the
specification, so any other state without a successor is an error. In `orders` that
alone would say little, because a call that waits may always crash or have its
statement fail: `SomeoneCanGoOn` says that among the calls under way one has what its
next step needs.

## 4. Findings

1. **Sales are lost** (`store_sales`). `updateBook` and `deactivateBook` save an
   entity read without a lock; an order that commits in between has its
   `available_quantity` and `sold_quantity` set back. `README.md:156` says that
   row locks prevent lost inventory updates.
2. **A retry can be refused** (`orders_retry`). A retry that overlaps its
   original passes the key lookup, waits for the row, and finds the stock taken
   by its own order: `409 INSUFFICIENT_STOCK`. `README.md:124` says it returns the
   original order. The order and the stock are right; the answer is not what is
   promised. A further attempt gets the order (`ClientIsTold`).
3. **An edit changes other fields** (`store_sales`). The columns that finding 1
   sets back are ones the edit was not given: `sold_quantity` is no field of a
   request. `books.service.spec.ts:144` says only supplied fields are updated. Two
   overlapping edits set each other's columns back in the same way, so that an edit
   of the price alone can answer `DUPLICATE_BOOK_ISBN`, and a deactivation can end
   with an internal error: `DuplicatesReal` speaks of the ISBN that a call would
   write, whether it was asked to or not.

Three more were met while modelling, and no run is spent on them:

- `hasUpdates` (`books.service.ts:156`) looks for own keys of an object whose class
  declares them all (see Books and Store above), so an update that sets nothing is
  accepted. `books.service.spec.ts:174` tests the rejection with a plain object, which
  is not what arrives.
- The TCP client of NestJS fails what is pending on a connection that closes with
  an error that has no code, so the Gateway answers `500 INTERNAL_ERROR` (`Lose`).
  `README.md:154` says a lost connection becomes `503 MICROSERVICE_UNAVAILABLE`. A
  refused one does.
- `@IsUUID` takes `bookId` in either case, PostgreSQL finds the row, and `booksById`
  is asked for the client's spelling with the database's as its keys (`Found` of
  `Checkout`): the order of a book on sale is refused with `BOOK_NOT_AVAILABLE` when
  its id is in upper case. `NotAvailableIsTrue` is therefore stated of ids as
  clients were given them, and equal purchases are equal spellings.

## 5. Proofs

`OrdersProofs` proves, from `OrdersAssumption` alone (book ids are numbers, the
initial rows have their type, requests are well formed), for any number of
calls, keys, users, books and requests:

- `Invariance`: `Spec => []Inv`, and from it `TypeCorrect`, `NoStaleRows`,
  `KeysAreUnique`, `EventsMatchOrders`, `AnswersAreTrue`, `ConflictsResolve`;
- `Refinement`: `Spec => PlacesAtomically`, that is, `Orders` implements `Ledger`;
- `RefusalsAreReal`: `Spec => RefusalsReal`;
- `NothingSoldTwice`: `Spec => []SoldMatchesOrders`;
- `NoCircleOfWaits`: `Spec => []NoWaitCycle`;
- `NoStandstill`: `Spec => []SomeoneCanGoOn`.

`Inv` is the conjunction of the properties with two facts that make them
inductive. `Stage(c)` says what a transaction holds and has written at each of
its steps: without it nothing links what `Commit` makes visible to what was read.
`Origin(o)` says that a committed order belongs to a call that is past its
transaction: without it a call could commit a second order of the same id.
The argument runs action by action. Local steps change one call's part of the
state (`LocalStep`, `MoveStep`, `AnswerStep`); the steps with content are
`LockBook`, where `Free` gives exclusion and the entity equals the committed row,
`InsertOrder`, where `~KeyPending` and the lookup give uniqueness, and `Commit`,
where `FreshReads` says that the rows written are the committed ones with the
items taken. The same facts make `Commit` a `Place` step of `Ledger` and every
other step a stutter.

For `NoCircleOfWaits` one more fact is invariant: a call that still locks has
locked only books below all those it has yet to lock (`InOrder`). So whoever waits
comes strictly before the one it waits for (`Before`): a call that waits for a row
precedes one that holds it and waits for a greater row, or is past locking; a call
that waits for a key precedes one that has inserted its order. A strict order has no circle in a finite set of calls (`NoCircle`, from the finiteness of its
subsets). `NoStandstill` applies this to the calls under way. One of them waits for none of
them, and whoever holds a row or a key is under way (`HoldersAreUnderWay`, from `Stage`: a call
that is over holds nothing), so it waits for nobody at all: the least row it has yet to lock,
which exists because ids are numbers (`LeastNatural`), is free, and so is its key.

For `NothingSoldTwice` the sum of the copies in all orders is followed through
`Commit`, the one step that adds to it: it adds one order, which had not been there
(`Origin`), so the sum grows by what that order has of each book (`SumAdd`), which is
what `FreshReads` says the rows it writes have lost.

`BooksProofs` proves from `BooksAssumption` (the books at the beginning are typed
and have different ISBNs, tasks are well formed), for any writers, books, ISBNs and
tasks: `BooksInvariance`, and from it `BooksTypes`, `IsbnsAreUnique` and
`DuplicatesAreReal`. The invariant adds `Carries` to the properties: the entity a
call edits is whole and of a book that exists, and past its check has the ISBN it
was asked to set. Without it an UPDATE could write anything; with it each `UPDATE`
and each `INSERT` leaves a typed row, and the guard of the unique index does the
rest. `DuplicatesAreReal` is about all calls: what an `UPDATE` would write as the ISBN
is the entity's or the row's, and the row's is in no other row, so an ISBN that another
book has is the entity's (`WrittenIsbn`); a lookup and an `INSERT` name the ISBN that the
call was asked to set (`TakenIsWanted`).

`CompositionProofs` proves of `Store` that neither service harms what was proved of the other
(`StoreInvariance`: the invariants of both hold together), from the assumptions of
both, and from that `OrdersArePlacedFresh`: `StoreSpec => OrdersPlacedFresh`. An
order only changes what rows contain, which `Carries` does not look at; an edit
changes no row that is locked (`FreeRowsOnly`), which is all that `FreshReads` needs
(`UnderOrders`). What the proof does not give is the converse, and that is finding
1: an edit is not safe from orders.

`DeliveryProofs` proves of `Outbox`, from `OutboxAssumption` (the events are numbers,
the batch size is positive, the workers are finitely many and `Nobody` and `Gone` are
not among them), for any workers, events, batch size and number of faults:

- `OutboxTypes`: `Spec => []TypeOK`;
- `NothingMarkedUnsent`: `Spec => []PublishedWasAccepted`;
- `PublishedStays`: `Spec => PublishedIsFinal`;
- `LeaseExcludes`: `Spec => FreshLeaseKept`;
- `RepeatsHaveCauses`: `Spec => []ResentOnlyAfterFaults`;
- `LeasesHaveWork`: `Spec => []LeasesAreWorkedOn`.

Its invariant `OInv` adds to `PublishedWasAccepted` what makes it inductive:
`Heard`, a worker about to mark its event has heard the broker accept it;
`Leases`, a published row has no lease and a leased row is due; `AtWork`, what a
publisher works on is a row. `Kept` says what one table may be to the next, and
the two action properties are read off it: each of the functions that change
rows (`Leased`, `Published`, `Released`) is shown to keep it once, then each
action needs only its own control state. `LeaseExcludes` needs the control state as well (`LeaseStep`): of all steps only a claim
of another worker, a mark or a failed mark, and a crash change who owns a row; the claim
is kept out by `Candidates`, a mark of a worker that is late by `Owns`, and a crash
gives up the leases of its own worker only. For `RepeatsHaveCauses` the copies are summed
over all workers and set off against the faults (`Paid`). What makes it inductive is that
the claim which is possible next is paid for beforehand: `Again(e)` is one while `e` is
unpublished and nobody's, or its lease is stale, or its owner is about to give it up. A
claim spends that one, an accepted message moves from a buffer to the queue, and whatever
brings the next claim about or adds a copy (a timeout, a rejected message, a lost
confirm, a lease that runs out under a living worker, a failed mark, a crash) is a
fault (`Charged`).
For `LeasesHaveWork` each action of a worker is shown to give nobody else a lease and to
leave the worker with leases only on what it still has before it (`Hands`). That a worker
with nothing to do has an empty batch (`IdleEmpty`) makes this inductive: every error path
ends in a mark, or in a crash, whose leases are nobody's any more.

Of `Delivery` it proves for any publishers, consumers and events, any prefetch
count, any number of faults and lost channels:

- `NothingIsLost`: `DeliverySpec => []NothingLost`;
- `DeliveryNotifiesOnce`: `DeliverySpec => NotifiesOnce`, that is, `Delivery`
  implements `Announcing`.

In `Delivery` the queue shrinks, so "the broker has accepted it" does not last. What
lasts is that an event is `Safe`: it has its notification, or a copy of it is in the
queue or with a handler whose delivery is not acknowledged. The invariant `DInv` says
that whatever is published, or about to be marked, is safe; that what awaits its ack
has its notification (`StoredFirst`), so that an ack never drops the last copy; and
that nobody handles an event that is not committed (`OnlyCommitted`), which makes
every INSERT a `Notify` step or a stutter. Publishers' steps are shown to add copies
only (`SendStep`), consumers' steps to keep what is safe (`TakeStep`).

`CompositionProofs` proves of `Pipeline`, from the assumptions of `Orders`, of `Outbox` and
of `Delivery`:

- `PipelineOrders`: `PipelineSpec => Spec`, and `PipelineDelivers`: `PipelineSpec =>
  Post!DeliverySpec`, so that every theorem about either part holds of the whole;
- `NoOrderIsForgotten`: `PipelineSpec => []NoOrderForgotten`;
- `OneNotificationForKey`: `PipelineSpec => []OneNotificationPerKey`;
- `OrdersAreAnnounced`: `PipelineSpec => OrdersAnnouncedOnce`, that is, `Pipeline`
  implements `Announcing` with the committed orders for what is written;
- `AnsweredAreNotified`: `FairPipeline /\ (Post!FairDelivery => Post!EveryEventNotified) =>
  AnsweredIsNotified`.

The invariant `PInv` is that of `Orders`, that of `Delivery`, and `SameTable`: the rows are
those of the committed events. A step of `createOrder` either commits nothing, and is a
stutter of `Delivery`, or is a `Commit`, and adds exactly the row of its call, which was not
there (`CommitAdds`, from `Stage` and `Origin`): that is a `Write`. A step of `Delivery` that
adds no row is any of its other steps. `EventPerOrder` then turns what `Delivery` says of rows
into what clients care for, orders, and `KeyUnique` makes it one notification for a key.
`AnsweredAreNotified` is about liveness. Fairness is out of the prover's reach, so it takes
for its hypothesis what the `delivery` run shows, that a fair `Delivery` notifies every
event. The fairness of the pipeline is that of its delivery: calls may stop anywhere. The
rest is `AnswersTrue`: who was given an order was given a committed one, whose row is in
the table.

`CompositionProofs` proves of `Gateway`, from the assumptions of `Orders` and `MaxFaults \in Nat`,
that `GatewaySpec => Spec` (`BehindGateway`): every step of the composition is a
step of `Orders` or leaves it alone, so all theorems of `OrdersProofs` hold behind
the Gateway. On top of it:

- `GatewayTypes`: `GatewaySpec => []GatewayTypeOK`;
- `OneOrderPerKey`: `GatewaySpec => []SameOrderTold`;
- `NoIsFinal`: `GatewaySpec => []NoMeansNo`;
- `ReadersSeeAnswers`: `GatewaySpec => []ReadsFollowAnswers`.

The invariant `GInv` adds to `Inv` that what a client was told was true of the
database when it was told and stays so, and that a call which was told its user
is unknown belongs to a user that no order has. `SameOrderTold` then follows from
`KeyUnique`, `NoMeansNo` from the hash that the order of the key has for good. The
orders that clients were told of are a subset of the committed ones, so their copies
sum to no more (`CopiesSubset`), and `SoldMatchesOrders` gives what the catalog shows.

`UsersProofs` proves, from `UsersAssumption`, for any calls, emails and
spellings: `UsersInvariance`, and from it `UsersTypes`, `OneAccountPerEmail`,
`SignupAnswersAreTrue`; `UsersImplementAccounts` (`Users` implements `Accounts`)
and `ShownAreFound` (`SignedUpIsFound`). The invariant says of each place of
`signup` what its transaction has written: a row only at `commit`, its own, with
an email no other row has. The step with content is `Insert`, where `EmailPending`
rules out rows on their way and the index those that are committed.

`CheckoutProofs` proves of amounts of any size that `formatMoney` makes what the
columns and the event's pattern take, and that it and `moneyToCents` undo each
other. From that and `CheckoutAssumption` (spellings are numbers, the database's
spelling of a book is one of them, prices are amounts, requests have items of positive
quantity) it proves, for all books, prices and requests:

- `MergesAlike`: requests for the same copies of every id are merged to one list;
- `ChargesExactly`: `Spec => []ExactTotal`;
- `ReplaysExactly`: `Spec => []ReplaysSamePurchase`;
- `EventsAreTaken`: `Spec => []EventAcceptable`;
- `NotAvailableIsReal`: `Spec => []NotAvailableIsTrue`.

The invariant `KInv` says that the lines and cents so far are the bill of the first
items of the merged list (`Billed`), and that an order is the bill of all of them.
`MergedIs` says what the merged list is: sorted, one item of each id, with all of its
copies. For the total the cost is summed by item and by id, and the two sums are the
same (`Regroup`).

`RoutesProofs` proves from `RoutesAssumption` (a path is a list of strings, the UUIDs
that clients know are not those the Gateway makes) for every path, body and header:

- `GatewayAgreesWithServices`: `Spec => []ServicesAgree`;
- `HidesNoRoute`: `Spec => []NoRouteHidden`;
- `PathAndHeaderCount`: `Spec => []PathAndHeaderRule`;
- `TracesByOneId`: `Spec => []TracedByOneId`.

The table, the classes and the handlers are those of the code, so what is needed of
each route is looked up, route by route: its handler (`HandlersOK`), what its path,
header and body may supply (`SuppliedOK`), and that only `catalog` and `:id` of the
books have the same method, length and second segment (`ShapesDiffer`). The invariant
`RInv` says that a message is the payload of its request for the first route that
matches, as the Gateway's validation accepted it. A body can only name an id or a key
when the class of the route declares it, and then the path or the header overrides it.

`Sums` holds what these proofs need of sums and of sorted sets. `SumFunctionOnSet` of
the community modules is a fold over a set; its laws are proved by induction on the
subsets of the set (`SubsetInduction`, from the well-foundedness of inclusion).
Induction principles that take an operator cannot be applied by the provers that are
used here; one about a set can. For the same reason lists are
filtered and sorted with `Sorted`, not with the recursive `SelectSeq` and `SortSeq`, and
objects are spread with `Spread`, not with `@@`.

The type invariants of all modules but `Orders`, which says that no row ever has negative
stock, hold by these theorems and are in no run. Nor are four properties that are close to one that
is checked: `EventPerOrder` to `PlacesAtomically`, `NoWaitCycle` to `SomeoneCanGoOn`,
`ConflictIsResolved` to `AnswersTrue`, `SignupAnswersTrue` to `KeepsAccounts`. They are
parts of the inductive invariants, or follow from them, and are proved.

Only model-checked: liveness, as fairness and ENABLED are out of the prover's reach:
`EveryEventPublished` and `EveryEventNotified` (`delivery`), `ClientIsTold` and
`EveryCallAnswered` (`gateway`), `EverySignupAnswered` (`users`).

## 6. Not modelled

- The throttling counter: it belongs to the library, and `Throttle` may refuse
  any request. Which environment values configure it and the timeouts
  (`gateway-resilience.config.ts`) only sets numbers that the models leave open.
- The numbers of `calculateRetryDelay`: `BecomeDue` may happen at any time.
- Lengths and formats inside validation: a value meets its rules or does not.
- Logging, connection settings, health of the containers.
- Migrations and the seed, which an operator runs; the seed sets the stock and
  sales of its books back, whatever was sold.
- An INSERT of a notification that fails for ever: the code has no answer to it.

## 7. Plan

Done: `Ledger`, `Orders`, `OrdersProofs`, `Books`, `BooksProofs`, `Store`, `Outbox`,
`Announcing`, `Notifications`, `Delivery`, `DeliveryProofs`, `Pipeline`, `Gateway`, `Reads`,
`CompositionProofs`, `Accounts`, `Users`, `UsersProofs`, `Routes`, `RoutesProofs`,
`Money`, `Sorting`, `Checkout`, `CheckoutProofs`, `Sums`.

Left, in this order:

1. The Gateway in front of `Users`, whose signups have no key: what a retry after
   a 504 is told.
2. More of what the liveness properties rest on and can be stated without fairness.
   `SomeoneCanGoOn` and `LeasesAreWorkedOn` are the first of it; the same of signups
   and of consumers is not stated.
