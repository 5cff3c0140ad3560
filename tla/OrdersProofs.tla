---------------------------- MODULE OrdersProofs ----------------------------
(***************************************************************************)
(* Proofs about Orders, for any set of calls, books and requests.          *)
(***************************************************************************)
EXTENDS Orders, Sums

\* The assumption on the constants, one fact for each of its uses.
LEMMA Constants ==
    /\ Book \subseteq Nat
    /\ DOMAIN Stock \subseteq Book
    /\ \A b \in DOMAIN Stock : Stock[b] \in Row
    /\ \A r \in Requests : IsRequest(r)
BY OrdersAssumption DEF OrdersAssumption

\* Taking from a shelf that holds enough gives a row again.
LEMMA TakeIsRow ==
    ASSUME NEW row \in Row, NEW q \in Quantity, q <= row.available
    PROVE  Take(row, q) \in Row
<1> DEFINE taken == [row EXCEPT !.available = row.available - q]
<1>1. row.available - q \in Nat /\ row.sold + q \in Nat
  BY DEF Row, Quantity
<1>2. taken \in Row /\ taken.sold = row.sold
  BY <1>1, Zenon DEF Row
<1>3. [taken EXCEPT !.sold = row.sold + q] \in Row
  BY <1>1, <1>2, Zenon DEF Row
<1> QED
  BY <1>2, <1>3 DEF Take

-----------------------------------------------------------------------------
(* The inductive invariant, arranged by what a step can disturb: the       *)
(* committed rows, each call alone, and calls against each other.          *)

FramesOK ==
    /\ DOMAIN entity = Call
    /\ DOMAIN tx = Call
    /\ DOMAIN reply = Call
    /\ request \in [Call -> Requests]
    /\ pc \in [Call -> Outside \cup InTransaction]

StoreOK ==
    /\ DOMAIN Stock \subseteq DOMAIN books
    /\ \A b \in DOMAIN books : books[b] \in Row
    /\ \A o \in orders : IsOrder(o)
    /\ \A e \in outbox : IsEvent(e)
    /\ EventPerOrder

CallOK(c) ==
    /\ Locked(c) \subseteq DOMAIN books \cap DOMAIN request[c].items
    /\ \A b \in Locked(c) : entity[c][b] \in Row
    /\ \A b \in DOMAIN tx[c].books : tx[c].books[b] \in Row
    /\ \A o \in tx[c].orders : IsOrder(o)
    /\ \A e \in tx[c].outbox : IsEvent(e)
    /\ reply[c].code \in Code
    /\ reply[c].orders \subseteq orders

FreshCall(c) ==
    /\ pc[c] = "lock" => \A b \in Locked(c) : entity[c][b] = books[b]
    /\ pc[c] \in {"save", "insert", "event", "commit"} =>
          \A b \in Locked(c) : entity[c][b] = Take(books[b], request[c].items[b])

TrueAnswer(c) ==
    /\ reply[c].code = "OK" =>
          \E o \in orders : /\ reply[c] = Success(o)
                            /\ o.key = request[c].key
                            /\ o.hash = Hash(request[c])
    /\ reply[c].code \notin {"", "OK", "INTERNAL_ERROR"} =>
          \A o \in orders : o.id # c
    /\ reply[c].code = "IDEMPOTENCY_KEY_REUSED" =>
          \E o \in orders : o.key = request[c].key /\ o.hash # Hash(request[c])
    /\ pc[c] = "reread" => OrdersOf(request[c].key) # {}

CallInv(c) == CallOK(c) /\ Stage(c) /\ FreshCall(c) /\ TrueAnswer(c)

Exclusive == \A c \in Call : \A d \in Call \ {c} : Locked(c) \cap Locked(d) = {}

Origins == \A o \in orders : Origin(o)

Parts == FramesOK /\ StoreOK /\ Origins /\ (\A c \in Call : CallInv(c))
         /\ Exclusive /\ KeyUnique

\* Inv, taken apart into what the proofs need one by one.
LEMMA InvParts == Inv <=> Parts
<1>1. FreshReads <=> Exclusive /\ \A c \in Call : FreshCall(c)
  BY DEF FreshReads, Exclusive, FreshCall
<1>2. AnswersTrue /\ ConflictIsResolved <=> \A c \in Call : TrueAnswer(c)
  BY DEF AnswersTrue, ConflictIsResolved, TrueAnswer
<1>3. TypeOK /\ EventPerOrder <=> FramesOK /\ StoreOK /\ \A c \in Call : CallOK(c)
  BY DEF TypeOK, FramesOK, StoreOK, CallOK
<1>4. (\A o \in orders : Origin(o)) <=> Origins
  BY DEF Origins
<1> QED
  BY <1>1, <1>2, <1>3, <1>4 DEF Inv, Parts, CallInv

-----------------------------------------------------------------------------

\* What a transaction has written, field by field.
LEMMA WritesFields ==
    ASSUME NEW bs, NEW os, NEW es
    PROVE  /\ Writes(bs, os, es).books = bs
           /\ Writes(bs, os, es).orders = os
           /\ Writes(bs, os, es).outbox = es
BY DEF Writes

\* Nothing is placed and nothing is locked at first.
LEMMA InitInv == Init => Parts
<1> SUFFICES ASSUME Init PROVE Parts
  OBVIOUS
<1> USE DEF Init
<1>1. \A c \in Call : /\ entity[c] = NoRows
                      /\ DOMAIN entity[c] = {}
                      /\ tx[c] = NoWrites
                      /\ DOMAIN tx[c].books = {}
                      /\ tx[c].orders = {}
                      /\ tx[c].outbox = {}
  BY DEF NoRows, NoWrites, Writes
<1>2. \A c \in Call : /\ reply[c] = NoReply
                      /\ reply[c].code = ""
                      /\ reply[c].orders = {}
                      /\ pc[c] = "idle"
  BY DEF NoReply, Failure
<1>3. FramesOK
  BY DEF FramesOK, Outside
<1>4. StoreOK
  BY Constants DEF StoreOK, EventPerOrder
<1>5. ASSUME NEW c \in Call PROVE CallInv(c)
  BY <1>1, <1>2 DEF CallInv, CallOK, Stage, FreshCall, TrueAnswer, Locked, Code, Outside
<1>6. Origins /\ Exclusive /\ KeyUnique
  <2>1. Origins
    BY DEF Origins
  <2>2. Exclusive
    BY <1>1 DEF Exclusive, Locked
  <2>3. KeyUnique
    BY <1>1 DEF KeyUnique
  <2> QED
    BY <2>1, <2>2, <2>3
<1> QED
  BY <1>3, <1>4, <1>5, <1>6 DEF Parts

-----------------------------------------------------------------------------

\* c alone moves: the other calls, the committed rows and what was asked stay.
Alone(c) ==
    /\ UNCHANGED <<store, request>>
    /\ \A d \in Call \ {c} : /\ entity'[d] = entity[d]
                             /\ tx'[d] = tx[d]
                             /\ pc'[d] = pc[d]
                             /\ reply'[d] = reply[d]

Over == {"respond", "done", "crashed"}

\* Such a step keeps the invariant if it keeps the part of that call, locks
\* only free rows and inserts no key.
LEMMA LocalStep ==
    ASSUME NEW c \in Call, Parts, Alone(c), FramesOK', CallInv(c)',
           \A b \in Locked(c)' : b \in Locked(c) \/ Free(b),
           tx'[c].orders \subseteq tx[c].orders \/ KeyUnique',
           pc[c] \in Over => pc'[c] \in Over
    PROVE  Parts'
<1>0. books' = books /\ orders' = orders /\ outbox' = outbox /\ request' = request
  BY DEF Alone, store
<1>1. StoreOK'
  BY <1>0 DEF Parts, StoreOK, EventPerOrder
<1>2. ASSUME NEW d \in Call \ {c} PROVE CallInv(d)'
  <2>1. entity'[d] = entity[d] /\ tx'[d] = tx[d] /\ pc'[d] = pc[d] /\ reply'[d] = reply[d]
    BY DEF Alone
  <2>2. CallOK(d)'
    BY <1>0, <2>1 DEF Parts, CallInv, CallOK, Locked
  <2>3. Locked(d)' = Locked(d) /\ NewOrder(d)' = NewOrder(d)
    BY <1>0, <2>1 DEF Locked, NewOrder
  <2>4. Stage(d)'
    <3>1. Stage(d)
      BY DEF Parts, CallInv
    <3> QED
      BY <1>0, <2>1, <2>3, <3>1 DEF Stage, NewEvent
  <2>5. FreshCall(d)'
    <3>1. FreshCall(d)
      BY DEF Parts, CallInv
    <3> QED
      BY <1>0, <2>1, <2>3, <3>1 DEF FreshCall
  <2>6. TrueAnswer(d)'
    <3>1. TrueAnswer(d)
      BY DEF Parts, CallInv
    <3> QED
      BY <1>0, <2>1, <3>1 DEF TrueAnswer, OrdersOf
  <2> QED
    BY <2>2, <2>4, <2>5, <2>6 DEF CallInv
<1>3. Exclusive'
  BY DEF Alone, Parts, Exclusive, Locked, Free
<1>4. Origins'
  <2> SUFFICES ASSUME NEW o \in orders PROVE Origin(o)'
    BY <1>0 DEF Origins
  <2>1. Origin(o) /\ o.id \in Call
    BY DEF Parts, Origins, StoreOK, IsOrder
  <2>2. pc'[o.id] \in Over
    BY <2>1 DEF Alone, Origin, Over
  <2> QED
    BY <1>0, <2>1, <2>2 DEF Origin, Over
<1>5. KeyUnique'
  <2>1. CASE tx'[c].orders \subseteq tx[c].orders
    <3>1. \A d \in Call : tx'[d].orders \subseteq tx[d].orders
      BY <2>1 DEF Alone
    <3> QED
      BY <1>0, <3>1 DEF Parts, KeyUnique
  <2> QED
    BY <2>1
<1> QED
  BY <1>1, <1>2, <1>3, <1>4, <1>5 DEF Parts

-----------------------------------------------------------------------------
(* The two ways a call leaves its transaction, or stays out of it.         *)

\* What makes an answer of c true.
Honest(c, answer) ==
    /\ answer.code \in Code \ {""}
    /\ answer.orders \subseteq orders
    /\ answer.code = "OK" => \E o \in orders : /\ answer = Success(o)
                                               /\ o.key = request[c].key
                                               /\ o.hash = Hash(request[c])
    /\ answer.code \notin {"OK", "INTERNAL_ERROR"} => pc[c] \notin Over
    /\ answer.code = "IDEMPOTENCY_KEY_REUSED" =>
          \E o \in orders : o.key = request[c].key /\ o.hash # Hash(request[c])

\* A call that ends gives back its locks and disturbs no other.
LEMMA LeaveLocked ==
    ASSUME NEW c \in Call, Parts,
           RollBack(c) \/ (pc[c] \in Outside /\ UNCHANGED <<entity, tx>>)
    PROVE  /\ DOMAIN entity' = Call /\ DOMAIN tx' = Call
           /\ \A d \in Call \ {c} : entity'[d] = entity[d] /\ tx'[d] = tx[d]
           /\ entity'[c] = NoRows
           /\ tx'[c] = NoWrites
           /\ DOMAIN entity'[c] = {}
           /\ DOMAIN tx'[c].books = {}
           /\ tx'[c].orders = {}
           /\ tx'[c].outbox = {}
<1>1. CASE RollBack(c)
  BY <1>1 DEF Parts, FramesOK, RollBack, NoRows, NoWrites, Writes
<1>2. CASE pc[c] \in Outside /\ UNCHANGED <<entity, tx>>
  <2>1. entity[c] = NoRows /\ tx[c] = NoWrites
    BY <1>2 DEF Parts, CallInv, Stage
  <2> QED
    BY <1>2, <2>1 DEF Parts, FramesOK, NoRows, NoWrites, Writes
<1> QED
  BY <1>1, <1>2

\* A call that answers, with nothing committed by it in that step.
LEMMA AnswerStep ==
    ASSUME NEW c \in Call, Parts, NEW answer, Answer(c, answer), Honest(c, answer),
           UNCHANGED <<store, request>>,
           RollBack(c) \/ (pc[c] \in Outside /\ UNCHANGED <<entity, tx>>)
    PROVE  Parts'
<1>1. FramesOK'
  BY LeaveLocked DEF Parts, FramesOK, Answer, Goto, Outside
<1>2. reply'[c] = answer /\ pc'[c] = "done"
  BY DEF Parts, FramesOK, Answer, Goto
<1>3. CallOK(c)' /\ Stage(c)' /\ FreshCall(c)'
  BY <1>2, LeaveLocked DEF CallOK, Stage, FreshCall, Honest, Locked, store, Outside
<1>4. TrueAnswer(c)'
  <2>1. pc[c] \notin Over => \A o \in orders : o.id # c
    BY DEF Parts, Origins, Origin, Over
  <2> QED
    BY <1>2, <2>1 DEF TrueAnswer, Honest, store
<1>5. Alone(c)
  BY LeaveLocked DEF Parts, FramesOK, Alone, Answer, Goto
<1> QED
  BY <1>1, <1>2, <1>3, <1>4, <1>5, LeaveLocked, LocalStep DEF CallInv, Locked, Over

\* No reply promises anything.
LEMMA NoReplyFields == NoReply.code = "" /\ NoReply.orders = {}
BY DEF NoReply, Failure

\* A call that goes on to its next statement.
LEMMA MoveStep ==
    ASSUME NEW c \in Call, Parts, NEW label \in {"find", "user", "lock", "reread", "crashed"},
           Goto(c, label), UNCHANGED <<store, request, reply>>,
           RollBack(c) \/ (pc[c] \in Outside /\ UNCHANGED <<entity, tx>>),
           pc[c] \notin {"done", "crashed"},
           pc[c] = "respond" => label = "crashed",
           label = "reread" => OrdersOf(request[c].key) # {}
    PROVE  Parts'
<1>1. FramesOK'
  BY LeaveLocked DEF Parts, FramesOK, Goto, Outside, InTransaction
<1>2. reply'[c] = NoReply /\ pc'[c] = label /\ reply[c] = NoReply
  BY DEF Parts, FramesOK, Goto, CallInv, Stage
<1>3. CallOK(c)' /\ Stage(c)' /\ FreshCall(c)'
  <2>1. reply'[c].code = "" /\ reply'[c].orders = {}
    BY <1>2, NoReplyFields
  <2>2. CallOK(c)'
    BY <2>1, LeaveLocked DEF CallOK, Locked, Code
  <2>3. Stage(c)'
    BY <1>2, LeaveLocked DEF Stage, Outside
  <2>4. FreshCall(c)'
    BY <1>2, LeaveLocked DEF FreshCall, Locked
  <2> QED
    BY <2>2, <2>3, <2>4
<1>4. TrueAnswer(c)'
  <2>1. reply'[c].code = ""
    BY <1>2, NoReplyFields
  <2>2. OrdersOf(request[c].key)' = OrdersOf(request[c].key)
    BY DEF OrdersOf, store
  <2> QED
    BY <1>2, <2>1, <2>2 DEF TrueAnswer
<1>5. Alone(c)
  BY LeaveLocked DEF Parts, FramesOK, Alone, Goto
<1> QED
  BY <1>1, <1>2, <1>3, <1>4, <1>5, LeaveLocked, LocalStep DEF CallInv, Locked, Over

-----------------------------------------------------------------------------
(* One lemma per action.                                                   *)

\* A call arrives.
LEMMA ReceiveInv ==
    ASSUME NEW c \in Call, Parts, Receive(c) PROVE Parts'
BY MoveStep DEF Receive, Outside

\* An order that has the key is returned, or the key is reported as taken.
LEMMA ReplayHonest ==
    ASSUME NEW c \in Call, Parts, NEW o \in OrdersOf(request[c].key), pc[c] \notin Over
    PROVE  Honest(c, Replay(o, request[c]))
BY DEF Honest, Replay, Success, Failure, OrdersOf, Code

\* A failure promises nothing about the database.
LEMMA FailureHonest ==
    ASSUME NEW c \in Call, NEW code \in Code \ {"", "OK", "IDEMPOTENCY_KEY_REUSED"},
           code = "INTERNAL_ERROR" \/ pc[c] \notin Over
    PROVE  Honest(c, Failure(code))
BY DEF Honest, Failure

\* The key is looked up before the transaction.
LEMMA FindByKeyInv ==
    ASSUME NEW c \in Call, Parts, FindByKey(c) PROVE Parts'
<1>1. CASE OrdersOf(request[c].key) = {} /\ Goto(c, "user") /\ UNCHANGED reply
  BY <1>1, MoveStep DEF FindByKey, Outside
<1>2. CASE \E o \in OrdersOf(request[c].key) : Answer(c, Replay(o, request[c]))
  <2>1. PICK o \in OrdersOf(request[c].key) : Answer(c, Replay(o, request[c]))
    BY <1>2
  <2> QED
    BY <2>1, ReplayHonest, AnswerStep DEF FindByKey, Outside, Over
<1> QED
  BY <1>1, <1>2 DEF FindByKey

\* The Users service has the user, or it has not.
LEMMA EnsureUserInv ==
    ASSUME NEW c \in Call, Parts, EnsureUser(c) PROVE Parts'
<1>1. CASE Goto(c, "lock") /\ UNCHANGED reply
  BY <1>1, MoveStep DEF EnsureUser, Outside
<1>2. ASSUME NEW code \in {"USER_NOT_FOUND", "USERS_SERVICE_TIMEOUT", "USERS_SERVICE_UNAVAILABLE"},
             Answer(c, Failure(code))
      PROVE  Parts'
  <2>1. Honest(c, Failure(code))
    BY FailureHonest DEF EnsureUser, Over, Code
  <2> QED
    BY <1>2, <2>1, AnswerStep DEF EnsureUser, Outside
<1> QED
  BY <1>1, <1>2 DEF EnsureUser

\* The items are refused after their rows were read.
LEMMA RefuseItemsInv ==
    ASSUME NEW c \in Call, Parts, RefuseItems(c) PROVE Parts'
<1>1. PICK b \in Refused(c) : Answer(c, Failure(Verdict(c, b)))
  BY DEF RefuseItems
<1>2. Verdict(c, b) \in {"BOOK_NOT_AVAILABLE", "INSUFFICIENT_STOCK"}
  BY <1>1 DEF Refused, Verdict
<1>3. Honest(c, Failure(Verdict(c, b)))
  BY <1>2, FailureHonest DEF RefuseItems, Over, Code
<1> QED
  BY <1>1, <1>3, AnswerStep DEF RefuseItems

\* A statement fails and the transaction is rolled back.
LEMMA FailsInv ==
    ASSUME NEW c \in Call, Parts, Overflow(c) \/ DatabaseError(c) PROVE Parts'
<1>1. Honest(c, Failure("INTERNAL_ERROR"))
  BY FailureHonest DEF Code
<1> QED
  BY <1>1, AnswerStep DEF Overflow, DatabaseError

\* The process dies with its open transaction.
LEMMA CrashInv ==
    ASSUME NEW c \in Call, Parts, Crash(c) PROVE Parts'
BY MoveStep DEF Crash

\* The insert meets a committed order with the same key.
LEMMA MeetKeyConflictInv ==
    ASSUME NEW c \in Call, Parts, MeetKeyConflict(c) PROVE Parts'
BY MoveStep DEF MeetKeyConflict

\* The order that was placed is returned.
LEMMA RespondInv ==
    ASSUME NEW c \in Call, Parts, Respond(c) PROVE Parts'
<1>1. PICK o \in orders : o.id = c /\ Answer(c, Success(o))
  BY DEF Respond
<1>2. Honest(c, Success(o))
  BY <1>1 DEF Parts, Origins, Origin, Honest, Success, Code
<1> QED
  BY <1>1, <1>2, AnswerStep DEF Respond, Outside

\* The key is looked up again after a conflict.
LEMMA RereadInv ==
    ASSUME NEW c \in Call, Parts, Reread(c) PROVE Parts'
<1>1. OrdersOf(request[c].key) # {}
  BY DEF Parts, CallInv, TrueAnswer, Reread
<1>2. PICK o \in OrdersOf(request[c].key) : Answer(c, Replay(o, request[c]))
  BY <1>1 DEF Reread
<1>3. Honest(c, Replay(o, request[c]))
  BY <1>2, ReplayHonest DEF Reread, Over
<1> QED
  BY <1>2, <1>3, AnswerStep DEF Reread, Outside

\* The next row is locked and read.
LEMMA LockBookInv ==
    ASSUME NEW c \in Call, NEW b \in Book, Parts, LockBook(c, b) PROVE Parts'
<1>1. FramesOK'
  BY DEF Parts, FramesOK, LockBook
<1>2. entity'[c] = [d \in Locked(c) \cup {b} |-> IF d = b THEN books[b] ELSE entity[c][d]]
  BY DEF Parts, FramesOK, LockBook
<1>3. b \in DOMAIN books \cap DOMAIN request[c].items
  BY DEF LockBook, IsNext, ToLock
<1>4. /\ Locked(c)' = Locked(c) \cup {b}
      /\ \A d \in Locked(c)' : entity'[c][d] = books[d] /\ books[d] \in Row
  <2>1. \A d \in Locked(c) : entity[c][d] = books[d] /\ d \in DOMAIN books
    BY DEF Parts, CallInv, CallOK, FreshCall, LockBook
  <2> QED
    BY <1>2, <1>3, <2>1 DEF Locked, Parts, StoreOK
<1>5. CallOK(c)'
  BY <1>3, <1>4 DEF Parts, CallInv, CallOK, LockBook, store
<1>6. Stage(c)' /\ FreshCall(c)'
  BY <1>4 DEF Parts, CallInv, Stage, FreshCall, LockBook, store, Outside
<1>7. TrueAnswer(c)'
  BY DEF Parts, CallInv, TrueAnswer, LockBook, store, OrdersOf
<1>8. Alone(c)
  BY DEF Parts, FramesOK, Alone, LockBook
<1>9. \A d \in Locked(c)' : d \in Locked(c) \/ Free(d)
  BY <1>4 DEF LockBook
<1> QED
  BY <1>1, <1>5, <1>6, <1>7, <1>8, <1>9, LocalStep DEF CallInv, LockBook

\* An item that is not refused is locked, on sale and in stock.
LEMMA NotRefused ==
    ASSUME NEW c \in Call, Parts, Refused(c) = {}, NEW b \in DOMAIN request[c].items
    PROVE  /\ b \in Locked(c)
           /\ entity[c][b].active
           /\ request[c].items[b] \in Quantity
           /\ request[c].items[b] <= entity[c][b].available
<1>1. Verdict(c, b) = "OK"
  BY DEF Refused
<1>2. b \in Locked(c) /\ entity[c][b].active
  BY <1>1 DEF Verdict
<1>3. ~(entity[c][b].available < request[c].items[b])
  BY <1>1, <1>2 DEF Verdict
<1>4. request[c].items[b] \in Quantity
  BY Constants DEF Parts, FramesOK, IsRequest
<1>5. entity[c][b].available \in Nat
  BY <1>2 DEF Parts, CallInv, CallOK, Row
<1> QED
  BY <1>2, <1>3, <1>4, <1>5 DEF Quantity

\* Taking copies of a book changes neither its price nor whether it is on sale.
LEMMA TakeKeeps ==
    ASSUME NEW row \in Row, NEW q
    PROVE  Take(row, q).active = row.active /\ Take(row, q).price = row.price
BY DEF Row, Take

\* The copies are taken from the entities in memory.
LEMMA TakeItemsInv ==
    ASSUME NEW c \in Call, Parts, TakeItems(c) PROVE Parts'
<1>1. FramesOK'
  BY DEF Parts, FramesOK, TakeItems, Goto, InTransaction
<1>2. entity'[c] = [b \in Locked(c) |-> Take(entity[c][b], request[c].items[b])]
  BY DEF Parts, FramesOK, TakeItems
<1>3. Locked(c) = DOMAIN request[c].items /\ Locked(c)' = Locked(c)
  BY <1>2, NotRefused DEF Parts, CallInv, CallOK, TakeItems, Locked
<1>4. ASSUME NEW b \in Locked(c)
      PROVE  /\ entity'[c][b] = Take(books[b], request[c].items[b])
             /\ entity'[c][b] \in Row
             /\ entity'[c][b].active
  <2>1. entity[c][b] \in Row /\ entity[c][b] = books[b]
    BY DEF Parts, CallInv, CallOK, FreshCall, TakeItems
  <2>2. /\ entity[c][b].active
        /\ request[c].items[b] \in Quantity
        /\ request[c].items[b] <= entity[c][b].available
    BY <1>3, NotRefused DEF TakeItems
  <2>3. entity'[c][b] = Take(entity[c][b], request[c].items[b])
    BY <1>2
  <2> QED
    BY <2>1, <2>2, <2>3, TakeIsRow, TakeKeeps
<1>5. pc'[c] = "save" /\ pc[c] = "lock" /\ tx'[c] = tx[c] /\ reply'[c] = reply[c]
  BY DEF Parts, FramesOK, TakeItems, Goto
<1>6. CallOK(c)'
  BY <1>3, <1>4, <1>5 DEF Parts, CallInv, CallOK, TakeItems, store
<1>7. Stage(c)' /\ FreshCall(c)'
  <2>1. Stage(c)
    BY DEF Parts, CallInv
  <2>2. Stage(c)'
    BY <1>3, <1>4, <1>5, <2>1 DEF Stage, TakeItems, Outside
  <2>3. FreshCall(c)'
    BY <1>3, <1>4, <1>5 DEF FreshCall, TakeItems, store
  <2> QED
    BY <2>2, <2>3
<1>8. TrueAnswer(c)'
  BY <1>5 DEF Parts, CallInv, TrueAnswer, TakeItems, store, OrdersOf
<1>9. Alone(c)
  BY DEF Parts, FramesOK, Alone, TakeItems, Goto
<1> QED
  BY <1>1, <1>3, <1>5, <1>6, <1>7, <1>8, <1>9, LocalStep DEF CallInv, Over

\* The changed rows are written.
LEMMA SaveBooksInv ==
    ASSUME NEW c \in Call, Parts, SaveBooks(c) PROVE Parts'
<1>1. FramesOK'
  BY DEF Parts, FramesOK, SaveBooks, Goto, InTransaction
<1>2. /\ tx'[c] = Writes(entity[c], {}, {})
      /\ tx'[c].books = entity[c] /\ tx'[c].orders = {} /\ tx'[c].outbox = {}
  BY DEF Parts, FramesOK, SaveBooks, Writes
<1>3. pc'[c] = "insert" /\ pc[c] = "save" /\ entity'[c] = entity[c] /\ reply'[c] = reply[c]
  BY DEF Parts, FramesOK, SaveBooks, Goto
<1>4. CallOK(c)'
  BY <1>2, <1>3 DEF Parts, CallInv, CallOK, SaveBooks, Locked, store
<1>5. Stage(c)'
  <2>1. Stage(c) /\ Locked(c)' = Locked(c)
    BY <1>3 DEF Parts, CallInv, Locked
  <2> QED
    BY <1>2, <1>3, <2>1 DEF Stage, SaveBooks, Outside
<1>a. FreshCall(c)'
  <2>1. FreshCall(c) /\ Locked(c)' = Locked(c)
    BY <1>3 DEF Parts, CallInv, Locked
  <2> QED
    BY <1>3, <2>1 DEF FreshCall, SaveBooks, store
<1>6. TrueAnswer(c)'
  BY <1>3 DEF Parts, CallInv, TrueAnswer, SaveBooks, store, OrdersOf
<1>7. Alone(c)
  BY DEF Parts, FramesOK, Alone, SaveBooks, Goto
<1> QED
  BY <1>1, <1>2, <1>3, <1>4, <1>5, <1>a, <1>6, <1>7, LocalStep DEF CallInv, Over, Locked

\* What is inserted has the columns of an order.
LEMMA NewOrderTyped ==
    ASSUME NEW c \in Call, Parts, Locked(c) = DOMAIN request[c].items
    PROVE  IsOrder(NewOrder(c))
<1>1. IsRequest(request[c])
  BY Constants DEF Parts, FramesOK
<1>2. \A b \in DOMAIN request[c].items : entity[c][b].price \in Quantity
  BY DEF Parts, CallInv, CallOK, Row
<1> QED
  BY <1>1, <1>2 DEF IsOrder, NewOrder, IsRequest, AreLines, Line

\* The order is written when nobody else has or claims its key.
LEMMA InsertOrderInv ==
    ASSUME NEW c \in Call, Parts, InsertOrder(c) PROVE Parts'
<1> DEFINE o == NewOrder(c)
<1>1. FramesOK'
  BY DEF Parts, FramesOK, InsertOrder, Goto, InTransaction
<1>2. /\ pc'[c] = "event" /\ pc[c] = "insert"
      /\ entity'[c] = entity[c] /\ reply'[c] = reply[c] /\ Locked(c)' = Locked(c)
  BY DEF Parts, FramesOK, InsertOrder, Goto, Locked
<1>3. tx[c].books = entity[c] /\ Stage(c) /\ Locked(c) = DOMAIN request[c].items
  <2>1. Stage(c)
    BY DEF Parts, CallInv
  <2> QED
    BY <1>2, <2>1, WritesFields DEF Stage
<1>4. /\ tx'[c] = Writes(entity[c], {o}, {})
      /\ tx'[c].books = entity[c] /\ tx'[c].orders = {o} /\ tx'[c].outbox = {}
  BY <1>3 DEF Parts, FramesOK, InsertOrder, Writes
<1>5. IsOrder(o) /\ o.key = request[c].key
  BY <1>3, NewOrderTyped DEF NewOrder
<1>6. CallOK(c)'
  <2>1. CallOK(c)
    BY DEF Parts, CallInv
  <2>2. \A b \in DOMAIN tx'[c].books : tx'[c].books[b] \in Row
    BY <1>4, <2>1 DEF CallOK, Locked
  <2> HIDE DEF o
  <2> QED
    BY <1>2, <1>4, <1>5, <2>1, <2>2 DEF CallOK, InsertOrder, store
<1>7. Stage(c)'
  <2>1. NewOrder(c)' = o
    BY <1>2 DEF NewOrder, InsertOrder
  <2> QED
    BY <1>2, <1>3, <1>4, <2>1 DEF Stage, InsertOrder, Outside
<1>8. FreshCall(c)'
  <2>1. FreshCall(c)
    BY DEF Parts, CallInv
  <2> QED
    BY <1>2, <2>1 DEF FreshCall, InsertOrder, store
<1>9. TrueAnswer(c)'
  BY <1>2 DEF Parts, CallInv, TrueAnswer, InsertOrder, store, OrdersOf
<1>10. Alone(c)
  BY DEF Parts, FramesOK, Alone, InsertOrder, Goto
<1>11. KeyUnique'
  <2>1. \A d \in Call \ {c} : tx'[d].orders = tx[d].orders
    BY <1>10 DEF Alone
  <2>2. \A p \in orders : p.key # o.key
    BY <1>5 DEF InsertOrder, OrdersOf
  <2>3. \A d \in Call \ {c} : \A p \in tx[d].orders : p.key # o.key
    BY <1>5 DEF InsertOrder, KeyPending
  <2>4. orders' = orders
    BY DEF InsertOrder, store
  <2>5. KeyUnique
    BY DEF Parts
  <2>6. \A p \in orders \cup UNION {tx'[d].orders : d \in Call} :
          \/ p = o
          \/ p \in orders
          \/ \E d \in Call \ {c} : p \in tx[d].orders
    BY <1>4, <2>1
  <2> HIDE DEF o
  <2> QED
    BY <2>2, <2>3, <2>4, <2>5, <2>6 DEF KeyUnique
<1> QED
  BY <1>1, <1>2, <1>6, <1>7, <1>8, <1>9, <1>10, <1>11, LocalStep DEF CallInv, Over

\* The event is written next to its order.
LEMMA SaveOutboxEventInv ==
    ASSUME NEW c \in Call, Parts, SaveOutboxEvent(c) PROVE Parts'
<1> DEFINE o == NewOrder(c)
<1>1. FramesOK'
  BY DEF Parts, FramesOK, SaveOutboxEvent, Goto, InTransaction
<1>2. /\ pc'[c] = "commit" /\ pc[c] = "event"
      /\ entity'[c] = entity[c] /\ reply'[c] = reply[c] /\ Locked(c)' = Locked(c)
  BY DEF Parts, FramesOK, SaveOutboxEvent, Goto, Locked
<1>3. /\ tx[c].books = entity[c] /\ tx[c].orders = {o}
      /\ Stage(c) /\ Locked(c) = DOMAIN request[c].items
  <2>1. Stage(c)
    BY DEF Parts, CallInv
  <2> QED
    BY <1>2, <2>1, WritesFields DEF Stage
<1>4. /\ tx'[c] = Writes(entity[c], {o}, {NewEvent(c, o)})
      /\ tx'[c].books = entity[c] /\ tx'[c].orders = {o}
      /\ tx'[c].outbox = {NewEvent(c, o)}
  BY <1>3 DEF Parts, FramesOK, SaveOutboxEvent, Writes
<1>5. IsOrder(o) /\ IsEvent(NewEvent(c, o))
  <2>1. IsOrder(o)
    BY <1>3 DEF Parts, CallInv, CallOK
  <2>2. o.id = c
    BY DEF NewOrder
  <2> QED
    BY <2>1, <2>2 DEF IsOrder, IsEvent, NewEvent
<1>6. CallOK(c)'
  <2>1. CallOK(c)
    BY DEF Parts, CallInv
  <2>2. \A b \in DOMAIN tx'[c].books : tx'[c].books[b] \in Row
    BY <1>4, <2>1 DEF CallOK, Locked
  <2> HIDE DEF o
  <2> QED
    BY <1>2, <1>4, <1>5, <2>1, <2>2 DEF CallOK, SaveOutboxEvent, store
<1>7. Stage(c)'
  <2>1. NewOrder(c)' = o
    BY <1>2 DEF NewOrder, SaveOutboxEvent
  <2>2. NewEvent(c, o)' = NewEvent(c, o)
    BY <2>1 DEF NewEvent
  <2> QED
    BY <1>2, <1>3, <1>4, <2>1, <2>2 DEF Stage, SaveOutboxEvent, Outside
<1>8. FreshCall(c)'
  <2>1. FreshCall(c)
    BY DEF Parts, CallInv
  <2> QED
    BY <1>2, <2>1 DEF FreshCall, SaveOutboxEvent, store
<1>9. TrueAnswer(c)'
  BY <1>2 DEF Parts, CallInv, TrueAnswer, SaveOutboxEvent, store, OrdersOf
<1>10. Alone(c)
  BY DEF Parts, FramesOK, Alone, SaveOutboxEvent, Goto
<1> QED
  BY <1>1, <1>2, <1>3, <1>4, <1>6, <1>7, <1>8, <1>9, <1>10, LocalStep DEF CallInv, Over

-----------------------------------------------------------------------------
(* COMMIT, the one action that changes what everybody sees.                *)

\* What a commit of c does when o is the order it inserts.
Commits(c, o) ==
    /\ pc[c] = "commit" /\ tx[c].orders = {o}
    /\ IsOrder(o) /\ IsEvent(NewEvent(c, o))
    /\ o.id = c /\ o.key = request[c].key
    /\ o.user = request[c].user /\ o.hash = Hash(request[c])
    /\ DOMAIN o.lines = Locked(c) /\ Locked(c) = DOMAIN request[c].items
    /\ Locked(c) \subseteq DOMAIN books
    /\ \A b \in Locked(c) :
          /\ books[b].active
          /\ o.lines[b] = [quantity |-> request[c].items[b], unitPrice |-> books[b].price]
          /\ entity[c][b] = Take(books[b], request[c].items[b])
          /\ entity[c][b] \in Row
    /\ books' = [b \in DOMAIN books |-> IF b \in Locked(c) THEN entity[c][b] ELSE books[b]]
    /\ orders' = orders \cup {o}
    /\ outbox' = outbox \cup {NewEvent(c, o)}
    /\ \A p \in orders : p.id # c /\ p.key # o.key

\* What a commit makes of the orders, their keys, events and stock.
LEMMA CommitFacts ==
    ASSUME NEW c \in Call, Parts, Commit(c)
    PROVE  \E o : Commits(c, o)
<1>0. PICK o : o = NewOrder(c)
  OBVIOUS
<1>1. pc[c] = "commit" /\ Stage(c) /\ CallOK(c) /\ FreshCall(c)
  BY DEF Parts, CallInv, Commit
<1>2. tx[c] = Writes(entity[c], {o}, {NewEvent(c, o)})
  BY <1>0, <1>1 DEF Stage
<1>3. /\ tx[c].books = entity[c] /\ tx[c].orders = {o}
      /\ tx[c].outbox = {NewEvent(c, o)}
  BY <1>2, WritesFields
<1>4. IsOrder(o) /\ IsEvent(NewEvent(c, o))
  BY <1>1, <1>3 DEF CallOK
<1>5. /\ o.id = c /\ o.key = request[c].key
      /\ o.user = request[c].user /\ o.hash = Hash(request[c])
      /\ o.lines = [b \in DOMAIN request[c].items |->
                       [quantity |-> request[c].items[b], unitPrice |-> entity[c][b].price]]
  BY <1>0 DEF NewOrder
<1>6. Locked(c) = DOMAIN request[c].items /\ Locked(c) \subseteq DOMAIN books
  BY <1>1 DEF Stage, CallOK
<1>7. ASSUME NEW b \in Locked(c)
      PROVE  /\ books[b].active
             /\ o.lines[b] = [quantity  |-> request[c].items[b],
                              unitPrice |-> books[b].price]
             /\ entity[c][b] = Take(books[b], request[c].items[b])
             /\ entity[c][b] \in Row
  <2>1. entity[c][b] = Take(books[b], request[c].items[b]) /\ entity[c][b] \in Row
    BY <1>1 DEF FreshCall, CallOK
  <2>2. books[b] \in Row
    BY <1>6 DEF Parts, StoreOK
  <2>3. entity[c][b].active /\ entity[c][b].active = books[b].active
    BY <1>1, <2>1, <2>2, TakeKeeps DEF Stage
  <2>4. entity[c][b].price = books[b].price
    BY <2>1, <2>2, TakeKeeps
  <2> QED
    BY <1>5, <1>6, <2>1, <2>3, <2>4
<1>8. /\ books' = [b \in DOMAIN books |-> IF b \in Locked(c) THEN entity[c][b] ELSE books[b]]
      /\ orders' = orders \cup {o}
      /\ outbox' = outbox \cup {NewEvent(c, o)}
  BY <1>3 DEF Commit, Locked
<1>9. ASSUME NEW p \in orders PROVE p.id # c /\ p.key # o.key
  <2>1. p.id # c
    BY <1>1 DEF Parts, Origins, Origin
  <2>2. p.key = o.key => p = o
    BY <1>3 DEF Parts, KeyUnique
  <2> QED
    BY <1>5, <2>1, <2>2
<1>10. DOMAIN o.lines = Locked(c)
  BY <1>5, <1>6
<1>11. Commits(c, o)
  BY <1>1, <1>3, <1>4, <1>5, <1>6, <1>7, <1>8, <1>9, <1>10 DEF Commits
<1> QED
  BY <1>11

\* The order, its stock and its event become visible at once.
LEMMA CommitInv ==
    ASSUME NEW c \in Call, Parts, Commit(c) PROVE Parts'
<1>1. PICK q : Commits(c, q)
  BY CommitFacts
<1>2. /\ pc[c] = "commit" /\ tx[c].orders = {q}
      /\ IsOrder(q) /\ IsEvent(NewEvent(c, q))
      /\ q.id = c /\ q.key = request[c].key
      /\ q.user = request[c].user /\ q.hash = Hash(request[c])
      /\ Locked(c) \subseteq DOMAIN books
      /\ \A b \in Locked(c) : entity[c][b] \in Row
      /\ books' = [b \in DOMAIN books |-> IF b \in Locked(c)
                                          THEN entity[c][b]
                                          ELSE books[b]]
      /\ orders' = orders \cup {q}
      /\ outbox' = outbox \cup {NewEvent(c, q)}
      /\ \A p \in orders : p.id # c /\ p.key # q.key
  BY <1>1 DEF Commits
<1>3. /\ DOMAIN entity' = Call /\ DOMAIN tx' = Call
      /\ \A d \in Call \ {c} : entity'[d] = entity[d] /\ tx'[d] = tx[d]
      /\ entity'[c] = NoRows /\ tx'[c] = NoWrites
      /\ DOMAIN entity'[c] = {} /\ DOMAIN tx'[c].books = {}
      /\ tx'[c].orders = {} /\ tx'[c].outbox = {}
  BY LeaveLocked DEF Commit
<1>4. /\ pc' = [pc EXCEPT ![c] = "respond"] /\ pc'[c] = "respond"
      /\ \A d \in Call \ {c} : pc'[d] = pc[d]
      /\ reply' = reply /\ request' = request
  BY DEF Parts, FramesOK, Commit, Goto
<1>5. reply[c] = NoReply
  BY <1>2 DEF Parts, CallInv, Stage
<1>6. FramesOK'
  BY <1>3, <1>4 DEF Parts, FramesOK, Outside
<1>7. StoreOK'
  <2>1. DOMAIN Stock \subseteq DOMAIN books' /\ \A b \in DOMAIN books' : books'[b] \in Row
    BY <1>2 DEF Parts, StoreOK
  <2>2. (\A p \in orders' : IsOrder(p)) /\ (\A e \in outbox' : IsEvent(e))
    BY <1>2 DEF Parts, StoreOK
  <2>3. EventPerOrder'
    <3>1. LET e == NewEvent(c, q) IN e.orderId = c /\ e.lines = q.lines
      BY <1>2 DEF NewEvent
    <3>2. EventPerOrder
      BY DEF Parts, StoreOK
    <3>3. \A e \in outbox : e.orderId # c
      BY <1>2, <3>2 DEF EventPerOrder
    <3> QED
      BY <1>2, <3>1, <3>2, <3>3 DEF EventPerOrder
  <2> QED
    BY <2>1, <2>2, <2>3 DEF StoreOK
<1>8. Origins'
  <2>1. ASSUME NEW p \in orders PROVE Origin(p)'
    <3>1. Origin(p) /\ p.id \in Call /\ p.id # c
      BY <1>2 DEF Parts, Origins, StoreOK, IsOrder
    <3> QED
      BY <1>4, <3>1 DEF Origin
  <2>2. Origin(q)'
    BY <1>2, <1>4 DEF Origin
  <2> QED
    BY <1>2, <2>1, <2>2 DEF Origins
<1>9. ASSUME NEW d \in Call \ {c} PROVE CallInv(d)'
  <2>1. /\ CallOK(d) /\ Stage(d) /\ FreshCall(d) /\ TrueAnswer(d)
        /\ Locked(d)' = Locked(d) /\ Locked(d) \cap Locked(c) = {}
    BY <1>3 DEF Parts, CallInv, Exclusive, Locked
  <2>2. \A b \in Locked(d) : books'[b] = books[b]
    BY <1>2, <2>1 DEF CallOK
  <2>3. CallOK(d)'
    BY <1>2, <1>3, <1>4, <2>1 DEF CallOK
  <2>4. Stage(d)'
    <3>1. NewOrder(d)' = NewOrder(d)
      BY <1>3, <1>4 DEF NewOrder
    <3> QED
      BY <1>2, <1>3, <1>4, <2>1, <3>1 DEF Stage, NewEvent
  <2>5. FreshCall(d)'
    BY <1>3, <1>4, <2>1, <2>2 DEF FreshCall
  <2>6. TrueAnswer(d)'
    BY <1>2, <1>4, <2>1 DEF TrueAnswer, OrdersOf
  <2> QED
    BY <2>3, <2>4, <2>5, <2>6 DEF CallInv
<1>10. CallInv(c)'
  <2>1. reply'[c] = NoReply /\ reply'[c].code = "" /\ reply'[c].orders = {}
    BY <1>4, <1>5, NoReplyFields
  <2>2. CallOK(c)'
    BY <1>3, <2>1 DEF CallOK, Locked, Code
  <2>3. Stage(c)'
    <3>1. \E p \in orders' : p.id = c
      BY <1>2
    <3> QED
      BY <1>3, <1>4, <2>1, <3>1 DEF Stage, Outside
  <2>4. FreshCall(c)' /\ TrueAnswer(c)'
    BY <1>4, <2>1 DEF FreshCall, TrueAnswer
  <2> QED
    BY <2>2, <2>3, <2>4 DEF CallInv
<1>11. Exclusive'
  BY <1>3 DEF Parts, Exclusive, Locked
<1>12. KeyUnique'
  <2>1. orders' \cup UNION {tx'[d].orders : d \in Call}
          \subseteq orders \cup UNION {tx[d].orders : d \in Call}
    BY <1>2, <1>3
  <2> QED
    BY <2>1 DEF Parts, KeyUnique
<1> QED
  BY <1>6, <1>7, <1>8, <1>9, <1>10, <1>11, <1>12 DEF Parts

-----------------------------------------------------------------------------

\* Every step keeps every part of the invariant.
LEMMA NextInv == Parts /\ [Next]_vars => Parts'
<1> SUFFICES ASSUME Parts, [Next]_vars PROVE Parts'
  OBVIOUS
<1>1. ASSUME UNCHANGED vars PROVE Parts'
  <2> USE <1>1 DEF vars
  <2>1. FramesOK' /\ StoreOK' /\ Origins'
    BY DEF Parts, FramesOK, StoreOK, EventPerOrder, Origins, Origin
  <2>2. ASSUME NEW c \in Call PROVE CallInv(c)'
    <3>1. CallInv(c) /\ Locked(c)' = Locked(c) /\ NewOrder(c)' = NewOrder(c)
      BY DEF Parts, Locked, NewOrder
    <3>2. CallOK(c)' /\ Stage(c)'
      BY <3>1 DEF CallInv, CallOK, Stage, NewEvent
    <3>3. FreshCall(c)' /\ TrueAnswer(c)'
      BY <3>1 DEF CallInv, FreshCall, TrueAnswer, OrdersOf
    <3> QED
      BY <3>2, <3>3 DEF CallInv
  <2>3. Exclusive' /\ KeyUnique'
    BY DEF Parts, Exclusive, KeyUnique, Locked
  <2> QED
    BY <2>1, <2>2, <2>3 DEF Parts
<1>2. ASSUME NEW c \in Call, Step(c) PROVE Parts'
  BY <1>2, FindByKeyInv, EnsureUserInv, LockBookInv, TakeItemsInv, RefuseItemsInv,
     SaveBooksInv, FailsInv, InsertOrderInv, MeetKeyConflictInv, SaveOutboxEventInv,
     CommitInv, RespondInv, RereadInv DEF Step
<1>3. ASSUME NEW c \in Call, Receive(c) \/ DatabaseError(c) \/ Crash(c) PROVE Parts'
  BY <1>3, ReceiveInv, FailsInv, CrashInv
<1> QED
  BY <1>1, <1>2, <1>3 DEF Next, Finished

-----------------------------------------------------------------------------
(* Theorems.                                                               *)

\* The inductive invariant holds of every state that any number of
\* concurrent calls of createOrder can reach.
THEOREM Invariance == Spec => []Inv
<1>1. Init => Parts
  BY InitInv
<1>2. Parts /\ [Next]_vars => Parts'
  BY NextInv
<1>3. Parts => Inv
  BY InvParts
<1> QED
  BY <1>1, <1>2, <1>3, PTL DEF Spec

\* The variables keep their types.
THEOREM TypeCorrect == Spec => []TypeOK
<1>1. Inv => TypeOK
  BY DEF Inv
<1> QED
  BY <1>1, Invariance, PTL

\* The rows a transaction works on are locked by it alone and never stale:
\* findBooksForUpdate protects an order against the other orders.
THEOREM NoStaleRows == Spec => []FreshReads
<1>1. Inv => FreshReads
  BY DEF Inv
<1> QED
  BY <1>1, Invariance, PTL

\* An idempotency key is never used by two orders, committed or in flight.
THEOREM KeysAreUnique == Spec => []KeyUnique
<1>1. Inv => KeyUnique
  BY DEF Inv
<1> QED
  BY <1>1, Invariance, PTL

\* Orders and their OrderCreated events are always committed together.
THEOREM EventsMatchOrders == Spec => []EventPerOrder
<1>1. Inv => EventPerOrder
  BY DEF Inv
<1> QED
  BY <1>1, Invariance, PTL

\* What createOrder answers is true of the committed rows, for ever.
THEOREM AnswersAreTrue == Spec => []AnswersTrue
<1>1. Inv => AnswersTrue
  BY DEF Inv
<1> QED
  BY <1>1, Invariance, PTL

\* The catch of createOrder always finds the order its insert ran into.
THEOREM ConflictsResolve == Spec => []ConflictIsResolved
<1>1. Inv => ConflictIsResolved
  BY DEF Inv
<1> QED
  BY <1>1, Invariance, PTL

-----------------------------------------------------------------------------
(* Orders implements Ledger.                                               *)

\* A commit places the order as the ledger asks: unused key, every line on
\* sale, in stock and at its price in the state of the commit.
LEMMA CommitPlaces ==
    ASSUME NEW c \in Call, Parts, Commit(c)
    PROVE  Promise!Next
<1>1. PICK o : Commits(c, o)
  BY CommitFacts
<1>2. /\ o.id = c /\ DOMAIN o.lines = Locked(c) /\ Locked(c) \subseteq DOMAIN books
      /\ orders' = orders \cup {o}
      /\ \A p \in orders : p.id # c /\ p.key # o.key
  BY <1>1 DEF Commits
<1>3. ASSUME NEW b \in Locked(c)
      PROVE  /\ Promise!InStock(books[b], o.lines[b])
             /\ entity[c][b] = Promise!Sell(books[b], o.lines[b])
  <2>1. /\ books[b].active
        /\ o.lines[b] = [quantity |-> request[c].items[b], unitPrice |-> books[b].price]
        /\ entity[c][b] = Take(books[b], request[c].items[b])
        /\ entity[c][b] \in Row
    BY <1>1, <1>3 DEF Commits
  <2>2. o.lines[b].quantity = request[c].items[b] /\ o.lines[b].unitPrice = books[b].price
    BY <2>1
  <2>3. books[b] \in Row
    BY <1>2 DEF Parts, StoreOK
  <2>4. request[c].items[b] \in Quantity
    <3>1. b \in DOMAIN request[c].items
      BY <1>1, <1>3 DEF Commits
    <3> QED
      BY <3>1, Constants DEF Parts, FramesOK, IsRequest
  <2>5. entity[c][b].available = books[b].available - request[c].items[b]
    BY <2>1, <2>3 DEF Take, Row
  <2>6. request[c].items[b] <= books[b].available
    BY <2>1, <2>3, <2>4, <2>5 DEF Row, Quantity
  <2>7. Promise!InStock(books[b], o.lines[b])
    BY <2>1, <2>2, <2>6 DEF Promise!InStock
  <2>8. entity[c][b] = Promise!Sell(books[b], o.lines[b])
    BY <2>1, <2>2 DEF Take, Promise!Sell
  <2> QED
    BY <2>7, <2>8
<1>4. books' = Promise!Shelf(o)
  <2>1. books' = [b \in DOMAIN books |-> IF b \in Locked(c) THEN entity[c][b] ELSE books[b]]
    BY <1>1 DEF Commits
  <2> QED
    BY <1>2, <1>3, <2>1 DEF Promise!Shelf
<1>5. outbox' = outbox \cup {Promise!Announcement(o)}
  BY <1>1, <1>2 DEF Commits, NewEvent, Promise!Announcement
<1>6. Promise!Place(o)
  BY <1>2, <1>3, <1>4, <1>5 DEF Promise!Place
<1>7. o \in orders' \ orders
  BY <1>2
<1> QED
  BY <1>6, <1>7 DEF Promise!Next

\* Every step of a call is invisible to the ledger, or places one order.
LEMMA StepRefines == Parts /\ [Next]_vars => [Promise!Next]_(Promise!ledger)
<1> SUFFICES ASSUME Parts, [Next]_vars
             PROVE  Promise!Next \/ UNCHANGED store
  BY DEF Promise!ledger, store
<1>1. ASSUME NEW c \in Call, Step(c) PROVE Promise!Next \/ UNCHANGED store
  BY <1>1, CommitPlaces DEF Step, FindByKey, EnsureUser, LockBook, TakeItems, RefuseItems,
     SaveBooks, Overflow, InsertOrder, MeetKeyConflict, SaveOutboxEvent, Respond, Reread
<1>2. ASSUME NEW c \in Call, Receive(c) \/ DatabaseError(c) \/ Crash(c) PROVE UNCHANGED store
  BY <1>2 DEF Receive, DatabaseError, Crash
<1>3. ASSUME UNCHANGED vars PROVE UNCHANGED store
  BY <1>3 DEF vars, store
<1> QED
  BY <1>1, <1>2, <1>3 DEF Next, Finished

\* Concurrent calls of createOrder implement the ledger: each order appears
\* in one step, with its event, at the stock and the prices of that step,
\* and nothing else changes the books, the orders or the outbox.
THEOREM Refinement == Spec => PlacesAtomically
<1>1. Init => Promise!Init
  BY DEF Init, Promise!Init
<1>2. Init => Parts
  BY InitInv
<1>3. Parts /\ [Next]_vars => Parts' /\ [Promise!Next]_(Promise!ledger)
  BY NextInv, StepRefines
<1> QED
  BY <1>1, <1>2, <1>3, PTL DEF Spec, PlacesAtomically, Promise!Spec

-----------------------------------------------------------------------------
(* Refusals.                                                               *)

\* The only step that refuses for want of stock is RefuseItems, and what it
\* looks at is the committed row.
LEMMA RefusesShort ==
    ASSUME NEW c \in Call, CallInv(c), FramesOK, RefuseItems(c),
           reply'[c].code = "INSUFFICIENT_STOCK"
    PROVE  \E b \in DOMAIN request[c].items \cap DOMAIN books :
               books[b].available < request[c].items[b]
<1>1. PICK b \in Refused(c) : Answer(c, Failure(Verdict(c, b)))
  BY DEF RefuseItems
<1>2. reply'[c].code = Verdict(c, b)
  BY <1>1 DEF Answer, Failure, FramesOK
<1>3. /\ b \in Locked(c)
      /\ entity[c][b].available < request[c].items[b]
  BY <1>2 DEF Verdict
<1>4. entity[c][b] = books[b]
  BY <1>3 DEF RefuseItems, CallInv, FreshCall
<1>5. b \in DOMAIN request[c].items \cap DOMAIN books
  BY <1>1, <1>3 DEF Refused, CallInv, CallOK
<1> QED
  BY <1>3, <1>4, <1>5

\* An answer that only a look at the key or at the user gave.
LEMMA OtherAnswers ==
    ASSUME NEW c \in Call, FramesOK,
           \/ Receive(c) \/ FindByKey(c) \/ EnsureUser(c) \/ TakeItems(c)
           \/ SaveBooks(c) \/ Overflow(c) \/ InsertOrder(c) \/ MeetKeyConflict(c)
           \/ SaveOutboxEvent(c) \/ Commit(c) \/ Respond(c) \/ Reread(c)
           \/ DatabaseError(c) \/ Crash(c) \/ \E b \in Book : LockBook(c, b)
    PROVE  \/ UNCHANGED reply
           \/ reply'[c].code # "INSUFFICIENT_STOCK"
<1>1. ASSUME NEW a, a.code # "INSUFFICIENT_STOCK", Answer(c, a)
      PROVE  reply'[c].code # "INSUFFICIENT_STOCK"
  BY <1>1 DEF Answer, FramesOK
<1>2. \A o : Success(o).code # "INSUFFICIENT_STOCK"
  BY DEF Success
<1>3. \A code : Failure(code).code = code
  BY DEF Failure
<1>4. \A o, r : Replay(o, r).code # "INSUFFICIENT_STOCK"
  BY <1>2, <1>3 DEF Replay
<1>5. CASE FindByKey(c)
  BY <1>1, <1>4, <1>5 DEF FindByKey
<1>6. CASE EnsureUser(c)
  BY <1>1, <1>3, <1>6 DEF EnsureUser
<1>7. CASE Reread(c)
  BY <1>1, <1>3, <1>4, <1>7 DEF Reread
<1>8. CASE Respond(c)
  BY <1>1, <1>2, <1>8 DEF Respond
<1>9. CASE Overflow(c) \/ DatabaseError(c)
  BY <1>1, <1>3, <1>9 DEF Overflow, DatabaseError
<1>10. CASE \/ Receive(c) \/ TakeItems(c) \/ SaveBooks(c) \/ InsertOrder(c)
            \/ MeetKeyConflict(c) \/ SaveOutboxEvent(c) \/ Commit(c) \/ Crash(c)
            \/ \E b \in Book : LockBook(c, b)
  BY <1>10 DEF Receive, TakeItems, SaveBooks, InsertOrder, MeetKeyConflict,
     SaveOutboxEvent, Commit, Crash, LockBook
<1> QED
  BY <1>5, <1>6, <1>7, <1>8, <1>9, <1>10

\* A step of one call answers nobody else.
LEMMA OnlyOwnReply ==
    ASSUME NEW c \in Call, Receive(c) \/ Step(c) \/ DatabaseError(c) \/ Crash(c),
           FramesOK, NEW d \in Call, d # c
    PROVE  reply'[d] = reply[d]
<1>1. ASSUME NEW a, Answer(c, a) PROVE reply'[d] = reply[d]
  BY <1>1 DEF Answer, FramesOK
<1> QED
  BY <1>1 DEF Step, Receive, FindByKey, EnsureUser, LockBook, TakeItems, RefuseItems,
     SaveBooks, Overflow, InsertOrder, MeetKeyConflict, SaveOutboxEvent, Commit,
     Respond, Reread, DatabaseError, Crash

\* A call that is refused for want of stock finds less in the committed row
\* than it asked for, whatever other transactions have taken and not
\* committed.
THEOREM RefusalsAreReal == Spec => RefusalsReal
<1> DEFINE Short(c) == \E b \in DOMAIN request[c].items \cap DOMAIN books :
                           books[b].available < request[c].items[b]
           Real == \A c \in Call :
                      reply'[c] # reply[c] /\ reply'[c].code = "INSUFFICIENT_STOCK" => Short(c)
<1>1. Parts /\ [Next]_vars => Real
  <2> SUFFICES ASSUME Parts, [Next]_vars, NEW c \in Call, reply'[c] # reply[c],
                      reply'[c].code = "INSUFFICIENT_STOCK"
               PROVE  Short(c)
    OBVIOUS
  <2>1. PICK d \in Call : Receive(d) \/ Step(d) \/ DatabaseError(d) \/ Crash(d)
    BY DEF Next, Finished, vars
  <2>2. d = c
    BY <2>1, OnlyOwnReply DEF Parts
  <2>3. CallInv(c) /\ FramesOK
    BY DEF Parts
  <2>4. RefuseItems(c)
    BY <2>1, <2>2, <2>3, OtherAnswers DEF Step
  <2> QED
    BY <2>3, <2>4, RefusesShort
<1>2. Init => Parts
  BY InitInv
<1>3. Parts /\ [Next]_vars => Parts' /\ [Real]_vars
  BY <1>1, NextInv
<1> QED
  BY <1>1, <1>2, <1>3, PTL DEF Spec, RefusalsReal

-----------------------------------------------------------------------------
(* No circle of waiting calls.                                             *)

\* A transaction has locked its rows in the order of their ids.
InOrder ==
    \A c \in Call : pc[c] = "lock" =>
        \A b \in Locked(c) : \A d \in ToLock(c) : b \in Nat /\ d \in Nat /\ b < d

\* Only LockBook takes a row, the least of those that are left.
LEMMA OrderKept == ASSUME Parts, InOrder, [Next]_vars PROVE InOrder'
<1> SUFFICES ASSUME NEW c \in Call, pc'[c] = "lock",
                    NEW b \in Locked(c)', NEW d \in ToLock(c)'
             PROVE  b \in Nat /\ d \in Nat /\ b < d
  BY DEF InOrder
<1>1. Parts'
  BY NextInv
<1>2. DOMAIN books' = DOMAIN books /\ request' = request
  BY DEF Next, Step, Receive, FindByKey, EnsureUser, LockBook, TakeItems, RefuseItems,
         SaveBooks, Overflow, InsertOrder, MeetKeyConflict, SaveOutboxEvent, Commit,
         Respond, Reread, DatabaseError, Crash, Finished, store, vars
<1>3. CASE pc[c] = "lock" /\ entity'[c] = entity[c]
  BY <1>2, <1>3 DEF InOrder, Locked, ToLock
<1>4. CASE pc[c] # "lock"
  <2>1. pc[c] \in Outside
    BY <1>4 DEF Next, Step, Receive, FindByKey, EnsureUser, LockBook, TakeItems, RefuseItems,
         SaveBooks, Overflow, InsertOrder, MeetKeyConflict, SaveOutboxEvent, Commit,
         Respond, Reread, DatabaseError, Crash, Finished, store, vars, Answer, Goto, Outside,
         Parts, FramesOK
  <2>2. entity[c] = NoRows
    BY <2>1 DEF Parts, CallInv, Stage
  <2>3. entity'[c] = NoRows
    BY <1>4, <2>2 DEF Next, Step, Receive, FindByKey, EnsureUser, LockBook, TakeItems,
         RefuseItems, SaveBooks, Overflow, InsertOrder, MeetKeyConflict, SaveOutboxEvent, Commit,
         Respond, Reread, DatabaseError, Crash, Finished, store, vars, Answer, Goto, RollBack,
         Parts, FramesOK
  <2> QED
    BY <2>3 DEF Locked, NoRows
<1>5. CASE \E a \in Book : LockBook(c, a)
  <2>1. PICK a \in Book : LockBook(c, a)
    BY <1>5
  <2>2. /\ Locked(c)' = Locked(c) \cup {a}
        /\ pc[c] = "lock"
        /\ IsNext(c, a)
    BY <2>1 DEF LockBook, Locked, Parts, FramesOK
  <2>3. d \in ToLock(c) /\ d # a /\ a <= d
    BY <1>2, <2>2 DEF ToLock, IsNext
  <2>4. d \in Nat /\ a \in Nat
    BY <2>1, <2>3, Constants DEF ToLock, Parts, FramesOK, IsRequest
  <2>5. a < d
    BY <2>3, <2>4
  <2>6. b = a \/ (b \in Locked(c) /\ b \in Nat /\ b < d)
    BY <2>2, <2>3 DEF InOrder
  <2> QED
    BY <2>4, <2>5, <2>6
<1>6. CASE pc[c] = "lock" /\ entity'[c] # entity[c] /\ ~ \E a \in Book : LockBook(c, a)
  <2>1. PICK e \in Call : Receive(e) \/ Step(e) \/ DatabaseError(e) \/ Crash(e)
    BY <1>6 DEF Next, Finished, vars
  <2>2. e = c
    BY <1>6, <2>1 DEF Step, Receive, FindByKey, EnsureUser, LockBook, TakeItems, RefuseItems,
         SaveBooks, Overflow, InsertOrder, MeetKeyConflict, SaveOutboxEvent, Commit,
         Respond, Reread, DatabaseError, Crash, RollBack, Parts, FramesOK
  <2>3. TakeItems(c) \/ RefuseItems(c) \/ DatabaseError(c) \/ Crash(c)
    BY <1>6, <2>1, <2>2 DEF Step, Receive, FindByKey, EnsureUser,
         SaveBooks, Overflow, InsertOrder, MeetKeyConflict, SaveOutboxEvent, Commit,
         Respond, Reread
  <2>4. pc'[c] # "lock"
    BY <2>3 DEF TakeItems, RefuseItems, DatabaseError, Crash, Answer, Goto, Parts, FramesOK
  <2> QED
    BY <2>4
<1> QED
  BY <1>3, <1>4, <1>5, <1>6

\* How far a call is: it locks its rows, it inserts, or it waits for nobody.
Phase(c) ==
    IF pc[c] = "lock" /\ \E b \in ToLock(c) : IsNext(c, b) THEN 0
    ELSE IF pc[c] = "insert" THEN 1 ELSE 2

NextBook(c) == CHOOSE b \in ToLock(c) : IsNext(c, b)

\* A call is before another one if it is in an earlier phase, or has come less
\* far in the order of the books.
Before(c, d) ==
    \/ Phase(c) < Phase(d)
    \/ Phase(c) = 0 /\ Phase(d) = 0 /\ NextBook(c) < NextBook(d)

\* The book a call locks next is the one that IsNext says.
LEMMA NextBookIs ==
    ASSUME Parts, NEW c \in Call, NEW b, IsNext(c, b)
    PROVE  NextBook(c) = b /\ b \in Nat /\ b \in ToLock(c)
<1>1. ToLock(c) \subseteq Nat
  BY Constants DEF ToLock, Parts, FramesOK, IsRequest
<1>2. b \in ToLock(c) /\ \A d \in ToLock(c) : IsNext(c, d) => d = b
  BY <1>1 DEF IsNext
<1> QED
  BY <1>1, <1>2 DEF NextBook

\* A call only waits for calls that it is before.
LEMMA WaitsBefore ==
    ASSUME Parts, InOrder, NEW c \in Call, NEW d \in Call, WaitsFor(c, d)
    PROVE  Before(c, d)
<1>1. Stage(d) /\ Stage(c)
  BY DEF Parts, CallInv
<1>2. CASE pc[c] = "lock" /\ \E b \in Locked(d) : IsNext(c, b)
  <2>1. PICK b \in Locked(d) : IsNext(c, b)
    BY <1>2
  <2>2. NextBook(c) = b /\ b \in Nat /\ Phase(c) = 0
    BY <1>2, <2>1, NextBookIs DEF Phase
  <2>3. CASE Phase(d) = 0
    <3>1. pc[d] = "lock" /\ \E a \in ToLock(d) : IsNext(d, a)
      BY <2>3 DEF Phase
    <3>2. PICK a \in ToLock(d) : IsNext(d, a)
      BY <3>1
    <3>3. NextBook(d) = a
      BY <3>2, NextBookIs
    <3>4. b < a
      BY <2>1, <3>1, <3>2 DEF InOrder
    <3> QED
      BY <2>2, <2>3, <3>3, <3>4 DEF Before
  <2>4. CASE Phase(d) # 0
    BY <2>2, <2>4 DEF Before, Phase
  <2> QED
    BY <2>3, <2>4
<1>3. CASE pc[c] = "insert" /\ \E o \in tx[d].orders : o.key = request[c].key
  <2>1. Phase(c) = 1
    BY <1>3 DEF Phase
  <2>2. tx[d].orders # {}
    BY <1>3
  <2>3. tx[d] # NoWrites /\ tx[d] # Writes(entity[d], {}, {})
    BY <2>2, WritesFields DEF NoWrites
  <2>4. pc[d] \notin {"lock", "insert"}
    BY <1>1, <2>3 DEF Stage
  <2>5. Phase(d) = 2
    BY <2>4 DEF Phase
  <2> QED
    BY <2>1, <2>5 DEF Before
<1> QED
  BY <1>2, <1>3 DEF WaitsFor

\* Being before is a strict order.
LEMMA BeforeIsOrder ==
    ASSUME Parts
    PROVE  /\ \A c \in Call : ~Before(c, c)
           /\ \A c, d, e \in Call : Before(c, d) /\ Before(d, e) => Before(c, e)
<1>1. \A c \in Call : Phase(c) \in {0, 1, 2}
  BY DEF Phase
<1>2. ASSUME NEW c \in Call, Phase(c) = 0 PROVE NextBook(c) \in Nat
  <2>1. PICK b \in ToLock(c) : IsNext(c, b)
    BY <1>2 DEF Phase
  <2> QED
    BY <2>1, NextBookIs
<1>3. \A c \in Call : ~Before(c, c)
  BY <1>1, <1>2 DEF Before
<1>4. ASSUME NEW c \in Call, NEW d \in Call, NEW e \in Call, Before(c, d), Before(d, e)
      PROVE  Before(c, e)
  BY <1>1, <1>2, <1>4 DEF Before
<1> QED
  BY <1>3, <1>4

\* Of finitely many calls one is before none of the others, for the sets of
\* calls that are not before each one have a least member.
LEMMA NoCircle ==
    ASSUME Parts, InOrder, NEW S \in SUBSET Call, S # {}, IsFiniteSet(S)
    PROVE  \E c \in S : \A d \in S : ~WaitsFor(c, d)
<1> DEFINE Above(c) == {d \in S : Before(c, d) \/ d = c}
           Sets == {Above(c) : c \in S}
<1>1. IsWellFoundedOn(StrictSubsetOrdering(S), FiniteSubsetsOf(S))
  BY FS_StrictSubsetOrderingWellFounded
<1>2. Sets \subseteq FiniteSubsetsOf(S) /\ Sets # {}
  <2>1. \A c \in S : Above(c) \in SUBSET S
    OBVIOUS
  <2>2. \A c \in S : IsFiniteSet(Above(c))
    BY <2>1, FS_Subset
  <2> QED
    BY <2>1, <2>2 DEF FiniteSubsetsOf
<1>3. \E A \in Sets : \A B \in Sets : ~ (<<B, A>> \in StrictSubsetOrdering(S))
  <2> HIDE DEF Sets
  <2> QED
    BY <1>1, <1>2, WFMin
<1>4. PICK c \in S : \A d \in S : ~ (<<Above(d), Above(c)>> \in StrictSubsetOrdering(S))
  BY <1>3
<1>5. ASSUME NEW d \in S, WaitsFor(c, d) PROVE FALSE
  <2>1. Before(c, d)
    BY <1>5, WaitsBefore
  <2>2. Above(d) \subseteq Above(c)
    BY <2>1, BeforeIsOrder
  <2>3. c \in Above(c) /\ c \notin Above(d)
    BY <2>1, BeforeIsOrder
  <2>4. <<Above(d), Above(c)>> \in StrictSubsetOrdering(S)
    <3> HIDE DEF Above
    <3>1. Above(d) \subseteq S /\ Above(c) \subseteq S
      BY DEF Above
    <3> QED
      BY <2>2, <2>3, <3>1 DEF StrictSubsetOrdering
  <2> QED
    BY <1>4, <2>4
<1> QED
  BY <1>5

\* However the books and keys of finitely many calls overlap, one of them
\* waits for none of the others: locks by the order of ids close no circle,
\* nor do the waits for keys that come on top of them.
THEOREM NoCircleOfWaits == Spec => []NoWaitCycle
<1>1. Init => InOrder
  BY DEF Init, InOrder
<1>2. Parts /\ InOrder /\ [Next]_vars => InOrder'
  BY OrderKept
<1>3. Parts /\ InOrder => NoWaitCycle
  BY NoCircle DEF NoWaitCycle
<1>4. Inv => Parts
  BY InvParts
<1> QED
  BY <1>1, <1>2, <1>3, <1>4, Invariance, PTL DEF Spec

\* A nonempty set of naturals has a least member.
LEMMA LeastNatural ==
    ASSUME NEW T \in SUBSET Nat, T # {}
    PROVE  \E b \in T : \A d \in T : b <= d
<1>1. PICK b \in T : \A d \in T : ~ (<<d, b>> \in OpToRel(<, Nat))
  BY NatLessThanWellFounded, WFMin
<1>2. \A d \in T : ~ (d < b)
  BY <1>1 DEF OpToRel
<1> QED
  BY <1>2

\* A call that has not locked all its rows has one that it locks next.
LEMMA NextIsThere ==
    ASSUME Parts, NEW c \in Call, ToLock(c) # {}
    PROVE  \E b \in ToLock(c) : IsNext(c, b)
<1>1. ToLock(c) \subseteq Nat
  BY Constants DEF ToLock, Parts, FramesOK, IsRequest
<1>2. PICK b \in ToLock(c) : \A d \in ToLock(c) : b <= d
  BY <1>1, LeastNatural
<1> QED
  BY <1>2 DEF IsNext

\* A call that holds a row, or a key, is inside its transaction.
LEMMA HoldersAreUnderWay ==
    ASSUME Parts, NEW d \in Call, Locked(d) # {} \/ tx[d].orders # {}
    PROVE  d \in UnderWay
<1>1. Stage(d)
  BY DEF Parts, CallInv
<1>2. entity[d] # NoRows \/ tx[d] # NoWrites
  BY WritesFields DEF Locked, NoRows, NoWrites
<1>3. pc[d] \notin {"idle", "done", "crashed"}
  BY <1>1, <1>2 DEF Stage, Outside
<1> QED
  BY <1>3 DEF UnderWay

\* A call that waits for none of those under way has what it needs.
LEMMA WaitsOrGoesOn ==
    ASSUME Parts, NEW c \in Call, \A d \in UnderWay : ~WaitsFor(c, d)
    PROVE  CanGoOn(c)
<1>1. ASSUME pc[c] = "lock", ToLock(c) # {}
      PROVE  \E b \in ToLock(c) : IsNext(c, b) /\ Free(b)
  <2>1. PICK b \in ToLock(c) : IsNext(c, b)
    BY <1>1, NextIsThere
  <2>2. ASSUME NEW d \in Call, b \in Locked(d) PROVE FALSE
    <3>1. d # c
      BY <2>1, <2>2 DEF ToLock
    <3>2. WaitsFor(c, d)
      BY <1>1, <2>1, <2>2, <3>1 DEF WaitsFor
    <3>3. d \in UnderWay
      BY <2>2, HoldersAreUnderWay
    <3> QED
      BY <3>2, <3>3
  <2> QED
    BY <2>1, <2>2 DEF Free
<1>2. ASSUME pc[c] = "insert", KeyPending(c) PROVE FALSE
  <2>1. PICK d \in Call \ {c} : \E o \in tx[d].orders : o.key = request[c].key
    BY <1>2 DEF KeyPending
  <2>2. WaitsFor(c, d)
    BY <1>2, <2>1 DEF WaitsFor
  <2>3. d \in UnderWay
    BY <2>1, HoldersAreUnderWay
  <2> QED
    BY <2>2, <2>3
<1>3. pc[c] = "respond" => \E o \in orders : o.id = c
  BY DEF Parts, CallInv, Stage
<1> QED
  BY <1>1, <1>2, <1>3 DEF CanGoOn

\* Whatever its calls ask for, the service never comes to stand with calls
\* under way of which none can take its next step: the call that waits for
\* none of them has its row, its key or its order.
THEOREM NoStandstill == Spec => []SomeoneCanGoOn
<1>1. Init => InOrder
  BY DEF Init, InOrder
<1>2. Parts /\ InOrder /\ [Next]_vars => InOrder'
  BY OrderKept
<1>3. Parts /\ InOrder => SomeoneCanGoOn
  <2> SUFFICES ASSUME Parts, InOrder, UnderWay # {}, IsFiniteSet(UnderWay)
               PROVE  \E c \in UnderWay : CanGoOn(c)
    BY DEF SomeoneCanGoOn
  <2>1. UnderWay \in SUBSET Call
    BY DEF UnderWay
  <2>2. PICK c \in UnderWay : \A d \in UnderWay : ~WaitsFor(c, d)
    BY <2>1, NoCircle
  <2> QED
    BY <2>1, <2>2, WaitsOrGoesOn
<1>4. Inv => Parts
  BY InvParts
<1> QED
  BY <1>1, <1>2, <1>3, <1>4, Invariance, PTL DEF Spec

-----------------------------------------------------------------------------
(* Stock.                                                                  *)

\* How many copies of a book an order contains.
CopiesIn(b, o) == IF b \in DOMAIN o.lines THEN o.lines[b].quantity ELSE 0

\* Copies is a sum over all orders in which those without the book count 0.
LEMMA CopiesType ==
    ASSUME NEW os, IsFiniteSet(os), \A o \in os : IsOrder(o), NEW b
    PROVE  Copies(os, b) \in Nat
<1> DEFINE Ordered == {p \in os : b \in DOMAIN p.lines}
           quantity == [o \in Ordered |-> o.lines[b].quantity]
<1>1. IsFiniteSet(Ordered) /\ DOMAIN quantity = Ordered
  BY FS_Subset
<1>2. \A o \in Ordered : quantity[o] \in Nat
  BY DEF IsOrder, AreLines, Line, Quantity
<1>3. Nat \in {Int, Nat}
  OBVIOUS
<1>4. Copies(os, b) = SumFunctionOnSet(quantity, Ordered)
  BY <1>1 DEF Copies, SumFunction
<1> HIDE DEF Ordered, quantity
<1> QED
  BY <1>1, <1>2, <1>3, <1>4, SumType

\* One more order adds what it contains of the book.
LEMMA CopiesAdd ==
    ASSUME NEW os, IsFiniteSet(os), \A o \in os : IsOrder(o),
           NEW q, IsOrder(q), q \notin os, NEW b
    PROVE  Copies(os \cup {q}, b) = Copies(os, b) + CopiesIn(b, q)
<1> DEFINE Ordered(ps) == {p \in ps : b \in DOMAIN p.lines}
           quantity(ps) == [o \in Ordered(ps) |-> o.lines[b].quantity]
           all == os \cup {q}
<1>1. /\ IsFiniteSet(Ordered(os))
      /\ \A ps : DOMAIN quantity(ps) = Ordered(ps)
      /\ \A ps : Copies(ps, b) = SumFunctionOnSet(quantity(ps), Ordered(ps))
  BY FS_Subset DEF Copies, SumFunction
<1>2. \A ps : \A o \in Ordered(ps) : quantity(ps)[o] = o.lines[b].quantity
  OBVIOUS
<1>3. \A o \in all : b \in DOMAIN o.lines => o.lines[b].quantity \in Nat
  BY DEF IsOrder, AreLines, Line, Quantity
<1>4. CASE b \notin DOMAIN q.lines
  <2>1. Ordered(all) = Ordered(os) /\ quantity(all) = quantity(os)
    BY <1>4
  <2>2. Copies(all, b) = Copies(os, b) /\ Copies(os, b) \in Nat
    BY <1>1, <2>1, CopiesType
  <2> QED
    BY <1>4, <2>2 DEF CopiesIn
<1>5. CASE b \in DOMAIN q.lines
  <2>1. Ordered(all) = Ordered(os) \cup {q} /\ q \notin Ordered(os)
    BY <1>5
  <2>2. \A o \in Ordered(os) : o \in Ordered(all) /\ o \in all
    OBVIOUS
  <2>3. \A o \in Ordered(all) : quantity(all)[o] \in Int
    BY <1>2, <1>3
  <2>4. \A o \in Ordered(os) : quantity(os)[o] \in Int /\ quantity(all)[o] = quantity(os)[o]
    BY <1>2, <1>3, <2>2
  <2>5. quantity(all)[q] = q.lines[b].quantity /\ q.lines[b].quantity \in Nat
    BY <1>2, <1>3, <2>1
  <2> HIDE DEF Ordered, quantity, all
  <2>6. SumFunctionOnSet(quantity(all), Ordered(all))
          = q.lines[b].quantity + SumFunctionOnSet(quantity(all), Ordered(os))
    BY <1>1, <2>1, <2>3, <2>5, SumAdd
  <2>7. SumFunctionOnSet(quantity(all), Ordered(os)) = SumFunctionOnSet(quantity(os), Ordered(os))
    BY <1>1, <2>4, SumAgree
  <2>8. Copies(all, b) = q.lines[b].quantity + Copies(os, b) /\ Copies(os, b) \in Nat
    BY <1>1, <2>6, <2>7, CopiesType
  <2> QED
    BY <1>5, <2>5, <2>8 DEF CopiesIn, all
<1> QED
  BY <1>4, <1>5

\* What stays true of the stock: there are finitely many orders, no book
\* appears or goes, and what was sold is what was ordered.
Counted == IsFiniteSet(orders) /\ DOMAIN books = DOMAIN Stock /\ SoldMatchesOrders

\* A commit moves as many copies as its order contains.
LEMMA CommitCounts ==
    ASSUME NEW c \in Call, Parts, Commit(c), Counted PROVE Counted'
<1>1. PICK o : Commits(c, o)
  BY CommitFacts
<1>2. /\ IsOrder(o) /\ DOMAIN o.lines = Locked(c)
      /\ books' = [b \in DOMAIN books |-> IF b \in Locked(c) THEN entity[c][b] ELSE books[b]]
      /\ orders' = orders \cup {o} /\ o \notin orders
  BY <1>1 DEF Commits
<1>3. IsFiniteSet(orders') /\ DOMAIN books' = DOMAIN Stock
  BY <1>2, FS_AddElement DEF Counted
<1>4. ASSUME NEW b \in DOMAIN books
      PROVE  /\ books'[b].sold = Stock[b].sold + Copies(orders', b)
             /\ books'[b].available = Stock[b].available - Copies(orders', b)
  <2> DEFINE n == Copies(orders, b)
  <2>1. /\ Copies(orders', b) = n + CopiesIn(b, o) /\ n \in Nat
    BY <1>2, CopiesAdd, CopiesType DEF Counted, Parts, StoreOK
  <2>2. /\ books[b].sold = Stock[b].sold + n
        /\ books[b].available = Stock[b].available - n
    BY DEF Counted, SoldMatchesOrders
  <2>3. books[b] \in Row /\ Stock[b] \in Row
    BY Constants DEF Counted, Parts, StoreOK
  <2>4. CASE b \notin Locked(c)
    BY <1>2, <2>1, <2>2, <2>4 DEF CopiesIn
  <2>5. CASE b \in Locked(c)
    <3> DEFINE q == request[c].items[b]
    <3>1. /\ entity[c][b] = Take(books[b], q)
          /\ o.lines[b] = [quantity |-> q, unitPrice |-> books[b].price]
      BY <1>1, <2>5 DEF Commits
    <3>4. books'[b] = Take(books[b], q) /\ CopiesIn(b, o) = q
      BY <1>2, <2>5, <3>1 DEF CopiesIn
    <3>2. q \in Nat
      <4>1. b \in DOMAIN request[c].items
        BY <1>1, <2>5 DEF Commits
      <4> QED
        BY <4>1, Constants DEF Parts, FramesOK, IsRequest, Quantity
    <3>3. books'[b].sold = books[b].sold + q /\ books'[b].available = books[b].available - q
      BY <2>3, <3>4 DEF Take, Row
    <3> HIDE DEF n, q
    <3> QED
      BY <2>1, <2>2, <2>3, <3>2, <3>3, <3>4 DEF Row
  <2> QED
    BY <2>4, <2>5
<1> QED
  BY <1>2, <1>3, <1>4 DEF Counted, SoldMatchesOrders

\* Nothing but a commit changes the stock or the orders.
LEMMA StepCounts == ASSUME Parts, Counted, [Next]_vars PROVE Counted'
<1>1. ASSUME UNCHANGED store PROVE Counted'
  BY <1>1 DEF store, Counted, SoldMatchesOrders
<1>2. ASSUME NEW c \in Call, Step(c) PROVE Counted'
  BY <1>1, <1>2, CommitCounts DEF Step, FindByKey, EnsureUser, LockBook, TakeItems,
     RefuseItems, SaveBooks, Overflow, InsertOrder, MeetKeyConflict, SaveOutboxEvent,
     Respond, Reread
<1>3. ASSUME NEW c \in Call, Receive(c) \/ DatabaseError(c) \/ Crash(c) PROVE Counted'
  BY <1>1, <1>3 DEF Receive, DatabaseError, Crash
<1>4. ASSUME UNCHANGED vars PROVE Counted'
  BY <1>1, <1>4 DEF vars, store
<1> QED
  BY <1>2, <1>3, <1>4 DEF Next, Finished

\* At first nothing is ordered.
LEMMA CountedInit == Init => Counted
<1>1. \A b : Copies({}, b) = 0
  BY SumEmpty DEF Copies, SumFunction
<1>2. \A b \in DOMAIN Stock : Stock[b].sold \in Nat /\ Stock[b].available \in Nat
  BY Constants DEF Row
<1> QED
  BY <1>1, <1>2, FS_EmptySet DEF Init, Counted, SoldMatchesOrders

\* However many orders compete for the same books and whatever fails, the
\* copies that left the shelf are exactly those of the committed orders.
THEOREM NothingSoldTwice == Spec => []SoldMatchesOrders
<1>1. Init => Counted
  BY CountedInit
<1>2. Parts /\ Counted /\ [Next]_vars => Counted'
  BY StepCounts
<1>3. Counted => SoldMatchesOrders
  BY DEF Counted
<1>4. Inv => Parts
  BY InvParts
<1> QED
  BY <1>1, <1>2, <1>3, <1>4, Invariance, PTL DEF Spec
=============================================================================
