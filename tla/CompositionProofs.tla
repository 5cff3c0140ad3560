-------------------------- MODULE CompositionProofs --------------------------
(***************************************************************************)
(* Proofs about what createOrder is composed with.                         *)
(*                                                                         *)
(* Gateway, for any number of calls, purchases and faults: what            *)
(* createOrder guarantees (OrdersProofs) still holds behind the Gateway,   *)
(* clients are told nothing else, and what is read agrees with it (Reads). *)
(*                                                                         *)
(* Store, for any calls of both services: the invariants of Orders and of  *)
(* Books are both kept.  An order transaction changes rows only by COMMIT, *)
(* and the Books service never changes a row that one has locked.          *)
(*                                                                         *)
(* Pipeline, for any calls, publishers, consumers and faults: it           *)
(* implements Orders and Delivery, because each committed order adds one   *)
(* row to the outbox and nothing else does; so an order is never lost on   *)
(* its way to the notification, and a key is notified once.                *)
(***************************************************************************)
EXTENDS Reads, Store, Pipeline, OrdersProofs

-----------------------------------------------------------------------------
(* GATEWAY.                                                                *)

\* A step of createOrder, or something that happens to a call of it.
CallStep(c) == Receive(c) \/ Step(c) \/ DatabaseError(c) \/ Crash(c)

-----------------------------------------------------------------------------
(* The Gateway leaves createOrder alone.                                   *)

\* Each step of the composition is one of Gateway alone or of one call.
LEMMA StepKinds ==
    ASSUME [GatewayNext]_gatewayVars
    PROVE  \/ UNCHANGED vars
           \/ \E c \in Call : CallStep(c) /\ UNCHANGED <<stage, http>>
<1>1. ASSUME NEW c \in Call,
             \/ Dispatch(c) \/ Throttle(c) \/ Refuse(c)
             \/ Relay(c) \/ GiveUp(c) \/ Lose(c) \/ Cut(c)
      PROVE  UNCHANGED vars
  BY <1>1 DEF Dispatch, Throttle, Refuse, Relay, GiveUp, Lose, Cut
<1>2. ASSUME NEW c \in Call, Arrive(c) \/ Work(c) \/ Break(c)
      PROVE  CallStep(c) /\ UNCHANGED <<stage, http>>
  BY <1>2 DEF Arrive, Work, Break, CallStep, gateway
<1>3. CASE AllOver \/ UNCHANGED gatewayVars
  BY <1>3 DEF AllOver, gatewayVars
<1> QED
  BY <1>1, <1>2, <1>3 DEF GatewayNext

\* Behind the Gateway createOrder does what it does alone.
LEMMA StepSimulates == [GatewayNext]_gatewayVars => [Next]_vars
BY StepKinds DEF Next, CallStep

\* Everything proved of createOrder holds behind the Gateway, late and lost
\* messages included.
THEOREM BehindGateway == GatewaySpec => Spec
<1>1. GatewayInit => Init
  BY DEF GatewayInit
<1> QED
  BY <1>1, StepSimulates, PTL DEF GatewaySpec, Spec

-----------------------------------------------------------------------------
(* Answers are final.                                                      *)

\* A call that has answered stays answered.
LEMMA DoneStays ==
    ASSUME Parts, [GatewayNext]_gatewayVars, NEW c \in Call, pc[c] = "done"
    PROVE  pc'[c] = "done" /\ reply'[c] = reply[c]
<1>1. CASE UNCHANGED vars
  BY <1>1 DEF vars
<1>2. ASSUME NEW d \in Call, CallStep(d) PROVE pc'[c] = "done" /\ reply'[c] = reply[c]
  <2>1. d # c
    BY <1>2 DEF CallStep, Receive, Step, FindByKey, EnsureUser, LockBook, TakeItems,
       RefuseItems, SaveBooks, Overflow, InsertOrder, MeetKeyConflict, SaveOutboxEvent,
       Commit, Respond, Reread, DatabaseError, Crash, InTransaction
  <2>2. reply'[c] = reply[c]
    BY <1>2, <2>1, OnlyOwnReply DEF CallStep, Parts
  <2>3. ASSUME NEW label, Goto(d, label) PROVE pc'[c] = pc[c]
    BY <2>1, <2>3 DEF Goto, Parts, FramesOK
  <2>4. ASSUME NEW answer, Answer(d, answer) PROVE pc'[c] = pc[c]
    BY <2>3, <2>4 DEF Answer
  <2>5. pc'[c] = pc[c]
    BY <1>2, <2>3, <2>4 DEF CallStep, Receive, Step, FindByKey, EnsureUser, LockBook,
       TakeItems, RefuseItems, SaveBooks, Overflow, InsertOrder, MeetKeyConflict,
       SaveOutboxEvent, Commit, Respond, Reread, DatabaseError, Crash
  <2> QED
    BY <2>2, <2>5
<1> QED
  BY <1>1, <1>2, StepKinds

\* A step of one call moves nobody else.
LEMMA OnlyOwnPlace ==
    ASSUME Parts, NEW d \in Call, CallStep(d), NEW c \in Call, c # d
    PROVE  pc'[c] = pc[c] /\ reply'[c] = reply[c] /\ request' = request
<1>1. ASSUME NEW label, Goto(d, label) PROVE pc'[c] = pc[c]
  BY <1>1 DEF Goto, Parts, FramesOK
<1>2. ASSUME NEW answer, Answer(d, answer) PROVE pc'[c] = pc[c]
  BY <1>1, <1>2 DEF Answer
<1>3. pc'[c] = pc[c] /\ request' = request
  BY <1>1, <1>2 DEF CallStep, Receive, Step, FindByKey, EnsureUser, LockBook,
     TakeItems, RefuseItems, SaveBooks, Overflow, InsertOrder, MeetKeyConflict,
     SaveOutboxEvent, Commit, Respond, Reread, DatabaseError, Crash
<1>4. reply'[c] = reply[c]
  BY OnlyOwnReply DEF CallStep, Parts
<1> QED
  BY <1>3, <1>4

\* No call that has answered takes a step.
LEMMA DoneIsIdle ==
    ASSUME NEW d \in Call, CallStep(d) PROVE pc[d] # "done"
BY DEF CallStep, Receive, Step, FindByKey, EnsureUser, LockBook, TakeItems,
   RefuseItems, SaveBooks, Overflow, InsertOrder, MeetKeyConflict, SaveOutboxEvent,
   Commit, Respond, Reread, DatabaseError, Crash, InTransaction

-----------------------------------------------------------------------------
(* Only known users buy.                                                   *)

\* A call that is past ensureUserExists is one of a known user; the error
\* USER_NOT_FOUND is only given to others.
Known(c) ==
    /\ pc[c] \in InTransaction => request[c].user \in Registered
    /\ reply[c].code = "USER_NOT_FOUND" => request[c].user \notin Registered

Buyers == \A o \in orders : request[o.id].user \in Registered

\* The only answer that says the user is unknown is that of EnsureUser.
LEMMA SaysUnknown ==
    ASSUME Parts, NEW c \in Call, CallStep(c), reply'[c].code = "USER_NOT_FOUND"
    PROVE  reply' = reply \/ request[c].user \notin Registered
<1>1. ASSUME NEW a, Answer(c, a) PROVE reply'[c] = a
  BY <1>1 DEF Answer, Parts, FramesOK
<1>2. \A o : Success(o).code # "USER_NOT_FOUND"
  BY DEF Success
<1>3. \A code : Failure(code).code = code
  BY DEF Failure
<1>4. \A o, r : Replay(o, r).code # "USER_NOT_FOUND"
  BY <1>2, <1>3 DEF Replay
<1>5. \A b : Verdict(c, b) # "USER_NOT_FOUND"
  BY DEF Verdict
<1>6. CASE FindByKey(c)
  BY <1>1, <1>4, <1>6 DEF FindByKey
<1>7. CASE EnsureUser(c)
  BY <1>1, <1>3, <1>7 DEF EnsureUser
<1>8. CASE RefuseItems(c)
  BY <1>1, <1>3, <1>5, <1>8 DEF RefuseItems
<1>9. CASE Reread(c)
  BY <1>1, <1>3, <1>4, <1>9 DEF Reread
<1>10. CASE Respond(c)
  BY <1>1, <1>2, <1>10 DEF Respond
<1>11. CASE Overflow(c) \/ DatabaseError(c)
  BY <1>1, <1>3, <1>11 DEF Overflow, DatabaseError
<1>12. CASE \/ Receive(c) \/ TakeItems(c) \/ SaveBooks(c) \/ InsertOrder(c)
            \/ MeetKeyConflict(c) \/ SaveOutboxEvent(c) \/ Commit(c) \/ Crash(c)
            \/ \E b \in Book : LockBook(c, b)
  BY <1>12 DEF Receive, TakeItems, SaveBooks, InsertOrder, MeetKeyConflict,
     SaveOutboxEvent, Commit, Crash, LockBook
<1> QED
  BY <1>6, <1>7, <1>8, <1>9, <1>10, <1>11, <1>12 DEF CallStep, Step

\* A call gets into its transaction past ensureUserExists, and only there.
LEMMA EntersKnown ==
    ASSUME Parts, NEW c \in Call, CallStep(c), pc'[c] \in InTransaction
    PROVE  pc[c] \in InTransaction \/ request[c].user \in Registered
<1>1. ASSUME NEW label, Goto(c, label) PROVE pc'[c] = label
  BY <1>1 DEF Goto, Parts, FramesOK
<1>2. ASSUME NEW a, Answer(c, a) PROVE pc'[c] \notin InTransaction
  BY <1>1, <1>2 DEF Answer, InTransaction
<1>3. CASE FindByKey(c) \/ EnsureUser(c)
  BY <1>1, <1>2, <1>3 DEF FindByKey, EnsureUser, InTransaction
<1>4. CASE Receive(c) \/ Respond(c) \/ Reread(c) \/ DatabaseError(c) \/ Crash(c)
  BY <1>1, <1>2, <1>4 DEF Receive, Respond, Reread, DatabaseError, Crash, InTransaction
<1>5. CASE \/ TakeItems(c) \/ RefuseItems(c) \/ SaveBooks(c) \/ Overflow(c)
           \/ InsertOrder(c) \/ MeetKeyConflict(c) \/ SaveOutboxEvent(c) \/ Commit(c)
           \/ \E b \in Book : LockBook(c, b)
  BY <1>5 DEF TakeItems, RefuseItems, SaveBooks, Overflow, InsertOrder,
     MeetKeyConflict, SaveOutboxEvent, Commit, LockBook, InTransaction
<1> QED
  BY <1>3, <1>4, <1>5 DEF CallStep, Step

\* Only Commit adds an order, and its user was looked up.
LEMMA BuyersStep ==
    ASSUME Parts, Buyers, \A c \in Call : Known(c), NEW d \in Call, CallStep(d)
    PROVE  Buyers'
<1>1. request' = request
  BY DEF CallStep, Receive, Step, FindByKey, EnsureUser, LockBook, TakeItems,
     RefuseItems, SaveBooks, Overflow, InsertOrder, MeetKeyConflict, SaveOutboxEvent,
     Commit, Respond, Reread, DatabaseError, Crash
<1>2. CASE Commit(d)
  <2>1. PICK o : Commits(d, o)
    BY <1>2, CommitFacts
  <2>2. orders' = orders \cup {o} /\ o.id = d
    BY <2>1 DEF Commits
  <2>3. request[d].user \in Registered
    BY <1>2 DEF Commit, Known, InTransaction
  <2> QED
    BY <1>1, <2>2, <2>3 DEF Buyers
<1>3. CASE ~Commit(d)
  <2>1. orders' = orders
    BY <1>3 DEF CallStep, Receive, Step, FindByKey, EnsureUser, LockBook, TakeItems,
       RefuseItems, SaveBooks, Overflow, InsertOrder, MeetKeyConflict, SaveOutboxEvent,
       Respond, Reread, DatabaseError, Crash, store
  <2> QED
    BY <1>1, <2>1 DEF Buyers
<1> QED
  BY <1>2, <1>3

\* Each step keeps what is known of every call.
LEMMA KnownStep ==
    ASSUME Parts, \A c \in Call : Known(c), NEW d \in Call, CallStep(d), NEW c \in Call
    PROVE  Known(c)'
<1>1. CASE c # d
  BY <1>1, OnlyOwnPlace DEF Known
<1>2. CASE c = d
  <2>1. request' = request
    BY DEF CallStep, Receive, Step, FindByKey, EnsureUser, LockBook, TakeItems,
       RefuseItems, SaveBooks, Overflow, InsertOrder, MeetKeyConflict, SaveOutboxEvent,
       Commit, Respond, Reread, DatabaseError, Crash
  <2> QED
    BY <1>2, <2>1, SaysUnknown, EntersKnown DEF Known
<1> QED
  BY <1>1, <1>2

-----------------------------------------------------------------------------
(* Clients are told what createOrder answered.                             *)

\* An order that a client was told, or a refusal that NoMeansNo is about, is
\* the answer of createOrder to this very request.
TrueHttp(c) ==
    /\ http[c].status = 200 =>
          pc[c] = "done" /\ reply[c].code = "OK" /\ http[c].orders = reply[c].orders
    /\ http[c].status # 200 => http[c].orders = {}
    /\ http[c].code \in {"IDEMPOTENCY_KEY_REUSED", "USER_NOT_FOUND"} =>
          pc[c] = "done" /\ reply[c].code = http[c].code

GatewayOK ==
    /\ stage \in [Call -> Stages]
    /\ DOMAIN http = Call
    /\ faults \in 0..MaxFaults

GInv ==
    /\ Parts
    /\ GatewayOK
    /\ Buyers
    /\ \A c \in Call : Known(c)
    /\ \A c \in Call : TrueHttp(c)

\* Fields of an answer.
LEMMA HttpFields ==
    ASSUME NEW status, NEW code, NEW os
    PROVE  /\ Http(status, code, os).status = status
           /\ Http(status, code, os).code = code
           /\ Http(status, code, os).orders = os
BY DEF Http

\* What toHttpException makes of an error is never a success, and is one of
\* the two refusals only if the service said so.
LEMMA ToHttpFields ==
    ASSUME NEW error
    PROVE  /\ ToHttpException(error).status # 200
           /\ ToHttpException(error).orders = {}
           /\ ToHttpException(error).code \in {"IDEMPOTENCY_KEY_REUSED", "USER_NOT_FOUND"} =>
                 ToHttpException(error).code = error
<1>1. CASE error = "TimeoutError"
  <2>1. error \notin UnavailableCodes \cup DOMAIN RpcStatus
    BY <1>1 DEF UnavailableCodes, RpcStatus
  <2>2. ToHttpException(error) = Http(504, "MICROSERVICE_TIMEOUT", {})
    BY <1>1, <2>1, Zenon DEF ToHttpException
  <2> QED
    BY <2>2, HttpFields
<1>2. CASE error # "TimeoutError" /\ error \in UnavailableCodes
  BY <1>2 DEF ToHttpException, Http, UnavailableCodes, RpcStatus
<1>3. CASE error \in DOMAIN RpcStatus
  <2>1. error \notin UnavailableCodes /\ error # "TimeoutError"
    BY <1>3 DEF RpcStatus, UnavailableCodes
  <2>2. RpcStatus[error] # 200
    BY <1>3 DEF RpcStatus
  <2>3. ToHttpException(error) = Http(RpcStatus[error], error, {})
    BY <1>3, <2>1, Zenon DEF ToHttpException
  <2> QED
    BY <2>2, <2>3, HttpFields
<1>4. CASE error # "TimeoutError" /\ error \notin UnavailableCodes \cup DOMAIN RpcStatus
  BY <1>4 DEF ToHttpException, Http
<1> QED
  BY <1>1, <1>2, <1>3, <1>4

\* At first nothing has been sent, answered or ordered.
LEMMA GInvInit == GatewayInit => GInv
<1> SUFFICES ASSUME GatewayInit PROVE GInv
  OBVIOUS
<1>1. Parts
  BY InitInv DEF GatewayInit
<1>2. GatewayOK
  BY GatewayAssumption DEF GatewayInit, GatewayOK, Stages, GatewayAssumption
<1>3. Buyers
  BY DEF GatewayInit, Init, Buyers
<1>4. \A c \in Call : Known(c)
  BY DEF GatewayInit, Init, Known, InTransaction, NoReply, Failure
<1>5. \A c \in Call : TrueHttp(c)
  <2> SUFFICES ASSUME NEW c \in Call PROVE TrueHttp(c)
    OBVIOUS
  <2>1. http[c] = NoAnswer
    BY DEF GatewayInit
  <2>2. /\ NoAnswer.status # 200
        /\ NoAnswer.orders = {}
        /\ NoAnswer.code \notin {"IDEMPOTENCY_KEY_REUSED", "USER_NOT_FOUND"}
    BY DEF NoAnswer, Http
  <2> QED
    BY <2>1, <2>2 DEF TrueHttp
<1> QED
  BY <1>1, <1>2, <1>3, <1>4, <1>5 DEF GInv

\* What the client is told, if it is told anything now.
LEMMA ToldNow ==
    ASSUME GInv, GatewayNext, NEW c \in Call, http'[c] # http[c]
    PROVE  \/ \E error : http'[c] = ToHttpException(error)
                       /\ error \notin {"IDEMPOTENCY_KEY_REUSED", "USER_NOT_FOUND"}
           \/ \E status, code : /\ http'[c] = Http(status, code, {})
                               /\ status # 200
                               /\ code \notin {"IDEMPOTENCY_KEY_REUSED", "USER_NOT_FOUND"}
           \/ http'[c] = Relayed(reply[c]) /\ pc[c] = "done" /\ UNCHANGED <<pc, reply>>
<1>1. ASSUME NEW d \in Call, NEW a, Tell(d, a) PROVE d = c /\ http'[c] = a
  <2>1. DOMAIN http = Call
    BY DEF GInv, GatewayOK
  <2> QED
    BY <1>1, <2>1 DEF Tell
<1>2. ASSUME NEW d \in Call, Throttle(d) \/ Cut(d)
      PROVE  \E status, code : /\ http'[c] = Http(status, code, {})
                               /\ status # 200
                               /\ code \notin {"IDEMPOTENCY_KEY_REUSED", "USER_NOT_FOUND"}
  <2>1. CASE Throttle(d)
    BY <1>1, <2>1 DEF Throttle
  <2>2. CASE Cut(d)
    BY <1>1, <2>2 DEF Cut
  <2> QED
    BY <1>2, <2>1, <2>2
<1>3. ASSUME NEW d \in Call, Refuse(d) \/ GiveUp(d) \/ Lose(d)
      PROVE  \E error : http'[c] = ToHttpException(error)
                       /\ error \notin {"IDEMPOTENCY_KEY_REUSED", "USER_NOT_FOUND"}
  <2>1. CASE Refuse(d)
    BY <1>1, <2>1 DEF Refuse
  <2>2. CASE GiveUp(d)
    BY <1>1, <2>2 DEF GiveUp
  <2>3. CASE Lose(d)
    BY <1>1, <2>3 DEF Lose
  <2> QED
    BY <1>3, <2>1, <2>2, <2>3
<1>4. ASSUME NEW d \in Call, Relay(d)
      PROVE  http'[c] = Relayed(reply[c]) /\ pc[c] = "done" /\ UNCHANGED <<pc, reply>>
  BY <1>1, <1>4 DEF Relay, vars
<1>5. ASSUME NEW d \in Call, Dispatch(d) \/ Arrive(d) \/ Work(d) \/ Break(d)
      PROVE  FALSE
  BY <1>5 DEF Dispatch, Arrive, Work, Break, gateway
<1>6. ~AllOver
  BY DEF AllOver, gatewayVars, gateway
<1> QED
  BY <1>2, <1>3, <1>4, <1>5, <1>6 DEF GatewayNext

\* What the client is told of a reply is what the reply says.
LEMMA RelayedFields ==
    ASSUME NEW answer
    PROVE  /\ Relayed(answer).status = 200 =>
                 answer.code = "OK" /\ Relayed(answer).orders = answer.orders
           /\ Relayed(answer).status # 200 => Relayed(answer).orders = {}
           /\ Relayed(answer).code \in {"IDEMPOTENCY_KEY_REUSED", "USER_NOT_FOUND"} =>
                 answer.code = Relayed(answer).code
<1>1. CASE answer.code = "OK"
  <2>1. Relayed(answer) = Http(200, "OK", answer.orders)
    BY <1>1 DEF Relayed
  <2> QED
    BY <1>1, <2>1, HttpFields
<1>2. CASE answer.code # "OK"
  <2>1. Relayed(answer) = ToHttpException(answer.code)
    BY <1>2 DEF Relayed
  <2> QED
    BY <2>1, ToHttpFields
<1> QED
  BY <1>1, <1>2

\* No step makes an answer of the Gateway untrue.
LEMMA TrueHttpStep ==
    ASSUME GInv, [GatewayNext]_gatewayVars, NEW c \in Call
    PROVE  TrueHttp(c)'
<1>1. CASE http'[c] = http[c]
  <2>1. Parts /\ TrueHttp(c)
    BY DEF GInv
  <2>2. pc[c] = "done" => pc'[c] = "done" /\ reply'[c] = reply[c]
    BY <2>1, DoneStays
  <2> QED
    BY <1>1, <2>1, <2>2 DEF TrueHttp
<1>2. CASE http'[c] # http[c]
  <2>1. GatewayNext
    BY <1>2 DEF gatewayVars, gateway
  <2>2. ASSUME NEW error, http'[c] = ToHttpException(error),
               error \notin {"IDEMPOTENCY_KEY_REUSED", "USER_NOT_FOUND"}
        PROVE  TrueHttp(c)'
    BY <2>2, ToHttpFields DEF TrueHttp
  <2>3. ASSUME NEW status, NEW code, http'[c] = Http(status, code, {}), status # 200,
               code \notin {"IDEMPOTENCY_KEY_REUSED", "USER_NOT_FOUND"}
        PROVE  TrueHttp(c)'
    BY <2>3, HttpFields DEF TrueHttp
  <2>4. ASSUME http'[c] = Relayed(reply[c]), pc[c] = "done", UNCHANGED <<pc, reply>>
        PROVE  TrueHttp(c)'
    BY <2>4, RelayedFields DEF TrueHttp
  <2> QED
    BY <1>2, <2>1, <2>2, <2>3, <2>4, ToldNow
<1> QED
  BY <1>1, <1>2

\* The Gateway's own variables keep their types.
LEMMA GatewayOKStep ==
    ASSUME GatewayOK, [GatewayNext]_gatewayVars
    PROVE  GatewayOK'
<1>0. faults \in Nat /\ MaxFaults \in Nat
  BY GatewayAssumption DEF GatewayOK, GatewayAssumption
<1>1. Fault => faults' \in 0..MaxFaults
  BY <1>0 DEF Fault, GatewayOK
<1>2. ASSUME NEW c, NEW label \in Stages, Move(c, label) PROVE stage' \in [Call -> Stages]
  BY <1>2 DEF Move, GatewayOK
<1>3. ASSUME NEW c, NEW a, Tell(c, a) PROVE DOMAIN http' = Call
  BY <1>3 DEF Tell, GatewayOK
<1>4. ASSUME NEW c \in Call, Dispatch(c) \/ Throttle(c) \/ Refuse(c) PROVE GatewayOK'
  BY <1>1, <1>2, <1>3, <1>4 DEF Dispatch, Throttle, Refuse, Stages, GatewayOK
<1>5. ASSUME NEW c \in Call, Relay(c) \/ GiveUp(c) \/ Lose(c) \/ Cut(c) PROVE GatewayOK'
  BY <1>1, <1>2, <1>3, <1>5 DEF Relay, GiveUp, Lose, Cut, Stages, GatewayOK
<1>6. ASSUME NEW c \in Call, Arrive(c) \/ Work(c) \/ Break(c) PROVE GatewayOK'
  BY <1>1, <1>6 DEF Arrive, Work, Break, gateway, GatewayOK
<1>7. CASE AllOver \/ UNCHANGED gatewayVars
  BY <1>7 DEF AllOver, gatewayVars, gateway, GatewayOK
<1> QED
  BY <1>4, <1>5, <1>6, <1>7 DEF GatewayNext

\* Every step keeps the invariant.
LEMMA GInvStep == GInv /\ [GatewayNext]_gatewayVars => GInv'
<1> SUFFICES ASSUME GInv, [GatewayNext]_gatewayVars PROVE GInv'
  OBVIOUS
<1>1. Parts'
  BY StepSimulates, NextInv DEF GInv
<1>2. GatewayOK'
  BY GatewayOKStep DEF GInv
<1>3. Buyers' /\ \A c \in Call : Known(c)'
  <2>1. CASE UNCHANGED vars
    BY <2>1 DEF GInv, vars, Buyers, Known
  <2>2. ASSUME NEW d \in Call, CallStep(d) PROVE Buyers' /\ \A c \in Call : Known(c)'
    BY <2>2, BuyersStep, KnownStep DEF GInv
  <2> QED
    BY <2>1, <2>2, StepKinds
<1>4. \A c \in Call : TrueHttp(c)'
  BY TrueHttpStep
<1> QED
  BY <1>1, <1>2, <1>3, <1>4 DEF GInv

\* The invariant of the composition.
THEOREM GatewayInvariance == GatewaySpec => []GInv
BY GInvInit, GInvStep, PTL DEF GatewaySpec

\* What was shown to a client is what createOrder answered, and committed.
LEMMA GInvTypes == GInv => GatewayTypeOK
<1> SUFFICES ASSUME GInv, NEW c \in Call PROVE http[c].orders \subseteq orders
  BY DEF GInv, GatewayOK, GatewayTypeOK
<1>1. TrueHttp(c) /\ reply[c].orders \subseteq orders
  BY DEF GInv, Parts, CallInv, CallOK
<1> QED
  BY <1>1 DEF TrueHttp

\* The Gateway's variables keep their types, and an order it has shown to a
\* client is committed.
THEOREM GatewayTypes == GatewaySpec => []GatewayTypeOK
BY GInvTypes, GatewayInvariance, PTL

\* However attempts overlap, are repeated, time out and get lost: whoever is
\* answered with an order is answered with the one committed order of its key,
\* and it is the order of its own request.
THEOREM OneOrderPerKey == GatewaySpec => []SameOrderTold
<1>1. GInv => SameOrderTold
  <2> SUFFICES ASSUME GInv, NEW c \in Call, http[c].status = 200
               PROVE  \E o \in orders :
                        /\ http[c].orders = {o}
                        /\ o.key = request[c].key
                        /\ o.hash = Hash(request[c])
                        /\ \A p \in orders : p.key = request[c].key => p = o
    BY DEF SameOrderTold
  <2>1. http[c].orders = reply[c].orders /\ reply[c].code = "OK"
    BY DEF GInv, TrueHttp
  <2>2. PICK o \in orders : /\ reply[c] = Success(o)
                            /\ o.key = request[c].key
                            /\ o.hash = Hash(request[c])
    BY <2>1 DEF GInv, Parts, CallInv, TrueAnswer
  <2>3. reply[c].orders = {o}
    BY <2>2 DEF Success
  <2>4. \A p \in orders : p.key = request[c].key => p = o
    BY <2>2 DEF GInv, Parts, KeyUnique
  <2> QED
    BY <2>1, <2>2, <2>3, <2>4
<1> QED
  BY <1>1, GatewayInvariance, PTL

\* A client that is told "key reused" or "user not found" has not bought
\* anything with this request, and never will by an attempt still under way.
THEOREM NoIsFinal == GatewaySpec => []NoMeansNo
<1>1. GInv => NoMeansNo
  <2> SUFFICES ASSUME GInv, NEW c \in Call,
                      http[c].code \in {"IDEMPOTENCY_KEY_REUSED", "USER_NOT_FOUND"},
                      NEW o \in orders, o.key = request[c].key
               PROVE  o.hash # Hash(request[c])
    BY DEF NoMeansNo
  <2>1. reply[c].code = http[c].code
    BY DEF GInv, TrueHttp
  <2>2. CASE http[c].code = "IDEMPOTENCY_KEY_REUSED"
    <3>1. PICK p \in orders : p.key = request[c].key /\ p.hash # Hash(request[c])
      BY <2>1, <2>2 DEF GInv, Parts, CallInv, TrueAnswer
    <3>2. p = o
      BY <3>1 DEF GInv, Parts, KeyUnique
    <3> QED
      BY <3>1, <3>2
  <2>3. CASE http[c].code = "USER_NOT_FOUND"
    <3>1. request[c].user \notin Registered
      BY <2>1, <2>3 DEF GInv, Known
    <3>2. request[o.id].user \in Registered /\ o.hash = Hash(request[o.id])
      BY DEF GInv, Buyers, Parts, Origins, Origin
    <3> QED
      BY <3>1, <3>2 DEF Hash
  <2> QED
    BY <2>2, <2>3
<1> QED
  BY <1>1, GatewayInvariance, PTL

-----------------------------------------------------------------------------
(* Reads.                                                                  *)

\* A part of the orders contains at most as many copies of a book as all.
LEMMA CopiesSubset ==
    ASSUME NEW os, IsFiniteSet(os), \A o \in os : IsOrder(o), NEW ps \in SUBSET os, NEW b
    PROVE  Copies(ps, b) <= Copies(os, b)
<1> DEFINE Ordered(qs) == {p \in qs : b \in DOMAIN p.lines}
           quantity(qs) == [o \in Ordered(qs) |-> o.lines[b].quantity]
<1>1. IsFiniteSet(Ordered(os)) /\ IsFiniteSet(Ordered(ps)) /\ Ordered(ps) \subseteq Ordered(os)
  BY FS_Subset
<1>2. \A qs : Copies(qs, b) = SumFunctionOnSet(quantity(qs), Ordered(qs))
  BY DEF Copies, SumFunction
<1>3. \A o \in Ordered(os) : quantity(os)[o] \in Nat
  BY DEF IsOrder, AreLines, Line, Quantity
<1>4. \A o \in Ordered(ps) : quantity(os)[o] \in Int /\ quantity(ps)[o] = quantity(os)[o]
  BY <1>1, <1>3
<1> HIDE DEF Ordered, quantity
<1>5. SumFunctionOnSet(quantity(os), Ordered(ps)) <= SumFunctionOnSet(quantity(os), Ordered(os))
  BY <1>1, <1>3, SumSubset
<1>6. SumFunctionOnSet(quantity(ps), Ordered(ps)) = SumFunctionOnSet(quantity(os), Ordered(ps))
  BY <1>1, <1>4, SumAgree
<1> QED
  BY <1>2, <1>5, <1>6

\* The stock stays counted behind the Gateway.
LEMMA StockIsCounted == GatewaySpec => []Counted
<1>1. GatewayInit => Counted
  BY CountedInit DEF GatewayInit
<1>2. GInv /\ Counted /\ [GatewayNext]_gatewayVars => Counted'
  BY StepSimulates, StepCounts DEF GInv
<1> QED
  BY <1>1, <1>2, GatewayInvariance, PTL DEF GatewaySpec

\* Whoever was told of an order finds it, by its id and in the list of its
\* user, and no reader is shown a copy of a book that somebody was told is
\* sold.
THEOREM ReadersSeeAnswers == GatewaySpec => []ReadsFollowAnswers
<1>1. GInv /\ Counted => ReadsFollowAnswers
  <2> SUFFICES ASSUME GInv, Counted PROVE ReadsFollowAnswers
    OBVIOUS
  <2> DEFINE bought == UNION {http[c].orders : c \in Call}
  <2>1. bought \subseteq orders
    BY GInvTypes DEF GatewayTypeOK
  <2>2. ASSUME NEW o \in bought PROVE GetOrder(o.id).orders = {o}
    <3>1. o \in orders
      BY <2>1
    <3>2. \A p \in orders : p.id = o.id => p = o
      BY <3>1 DEF GInv, Parts, Origins, Origin, KeyUnique
    <3>3. {p \in orders : p.id = o.id} = {o}
      BY <3>1, <3>2
    <3>4. Found("OK", {o}, NoRows).orders = {o}
      BY DEF Found
    <3> QED
      BY <3>3, <3>4 DEF GetOrder
  <2>3. ASSUME NEW o \in bought PROVE o \in ListUserOrders(o.user).orders
    <3>1. o \in orders /\ o.user \in Registered
      BY <2>1 DEF GInv, Buyers, Parts, Origins, Origin
    <3>2. \A os : Found("OK", os, NoRows).orders = os
      BY DEF Found
    <3> QED
      BY <3>1, <3>2 DEF ListUserOrders
  <2>4. ASSUME NEW b \in Book, NEW shown \in {GetCatalog.rows, GetBook(b).rows},
               b \in DOMAIN shown
        PROVE  shown[b].available <= Stock[b].available - Copies(bought, b)
    <3>1. b \in DOMAIN books /\ shown[b] = books[b]
      <4>1. CASE shown = GetCatalog.rows
        BY <2>4, <4>1 DEF GetCatalog, Found, RowsOf, Active
      <4>2. CASE shown = GetBook(b).rows
        BY <2>4, <4>2 DEF GetBook, Nothing, Found, RowsOf, Active, NoRows
      <4> QED
        BY <4>1, <4>2
    <3>2. books[b].available = Stock[b].available - Copies(orders, b)
      BY <3>1 DEF Counted, SoldMatchesOrders
    <3>3. IsFiniteSet(orders) /\ \A o \in orders : IsOrder(o)
      BY DEF Counted, GInv, Parts, StoreOK
    <3> HIDE DEF bought
    <3>4. Copies(bought, b) <= Copies(orders, b) /\ Copies(orders, b) \in Nat
      BY <2>1, <3>3, CopiesSubset, CopiesType
    <3>5. Copies(bought, b) \in Nat
      BY <2>1, <3>3, FS_Subset, CopiesType
    <3>6. Stock[b].available \in Nat
      BY <3>1, Constants DEF Counted, Row
    <3> QED
      BY <3>1, <3>2, <3>4, <3>5, <3>6
  <2> QED
    BY <2>2, <2>3, <2>4 DEF ReadsFollowAnswers
<1> QED
  BY <1>1, StockIsCounted, GatewayInvariance, PTL

-----------------------------------------------------------------------------
(* STORE.                                                                  *)

Shelves == INSTANCE BooksProofs

\* The invariant: that of each service.
SInv == Parts /\ Shelves!BInv

-----------------------------------------------------------------------------

\* A step of createOrder changes what rows contain, not which there are.
LEMMA OrderingRows == ASSUME Parts, Ordering PROVE DOMAIN books' = DOMAIN books
BY DEF Ordering, Receive, Step, FindByKey, EnsureUser, LockBook, TakeItems, RefuseItems,
       SaveBooks, Overflow, InsertOrder, MeetKeyConflict, SaveOutboxEvent, Commit,
       Respond, Reread, DatabaseError, Crash, store

\* Every step of the orders service keeps the invariant.
LEMMA OrderingInv == ASSUME SInv, Ordering PROVE SInv'
<1>1. Parts'
  BY NextInv DEF SInv, Ordering, Next
<1>2. DOMAIN books' = DOMAIN books
  BY OrderingRows DEF SInv
<1>3. \A b \in DOMAIN books' : books'[b] \in Shop!Row
  BY <1>1 DEF Parts, StoreOK, Row, Shop!Row, Quantity
<1>4. UNCHANGED <<isbns, task, copy, changed, step, result>>
  BY DEF Ordering
<1>5. Shelves!BInv'
  BY <1>2, <1>3, <1>4
  DEF SInv, Shelves!BInv, Shelves!TablesOK, Shelves!CallsOK, Shelves!Carried,
      Shelves!Carries, Shelves!IsEntity, Shelves!IsbnUnique, Shelves!BookOf, Shelves!Row,
      Shop!Row, Shelves!Column
<1> QED
  BY <1>1, <1>5 DEF SInv

-----------------------------------------------------------------------------
(* Shop, the instance that Store is made of, and Shelves, the one with the *)
(* proofs, are the same module.                                            *)

\* The assumptions of Books hold of the books of the store.
LEMMA SameAssumption == Shelves!BooksAssumption
BY StoreAssumption
  DEF Shop!BooksAssumption, Shop!IsTask, Shop!NoBook, Shop!Row, Shop!Editable,
      Shelves!BooksAssumption, Shelves!IsTask, Shelves!NoBook, Shelves!Row,
      Shelves!Editable

\* The store starts in a state that Books starts in.
LEMMA SameInit == Shop!Init => Shelves!Init
BY DEF Shop!Init, Shelves!Init, Shop!NoCopy, Shelves!NoCopy

\* An action of Books within the store is that action of Books.
LEMMA SameActions ==
    ASSUME NEW a \in Admin, Shop!Act(a) \/ Shop!Fail(a)
    PROVE  Shelves!Act(a) \/ Shelves!Fail(a)
BY Zenon
  DEF Shop!Act, Shop!Fail, Shop!LookUpIsbn, Shop!InsertBook, Shop!MeetDuplicate,
      Shop!LoadBook, Shop!MissBook, Shop!CheckIsbn, Shop!CompareRow, Shop!WriteColumns,
      Shop!IsbnTaken, Shop!Proceed, Shop!Finish, Shop!BookOf, Shop!Written,
      Shop!HasUpdates, Shop!OwnKeys, Shop!Editable, Shop!Edited, Shop!Columns,
      Shop!Column, Shelves!Act, Shelves!Fail, Shelves!LookUpIsbn, Shelves!InsertBook,
      Shelves!MeetDuplicate, Shelves!LoadBook, Shelves!MissBook, Shelves!CheckIsbn,
      Shelves!CompareRow, Shelves!WriteColumns, Shelves!IsbnTaken, Shelves!Proceed,
      Shelves!Finish, Shelves!BookOf, Shelves!Written, Shelves!HasUpdates,
      Shelves!OwnKeys, Shelves!Editable, Shelves!Edited, Shelves!Columns,
      Shelves!Column

-----------------------------------------------------------------------------
(* Steps of the Books service.                                             *)

\* What the Books service may do to the table while transactions run: add
\* rows, and change rows that no transaction has locked.
FreeRowsOnly ==
    /\ DOMAIN books \subseteq DOMAIN books'
    /\ \A b \in DOMAIN books : books'[b] = books[b] \/ Free(b)

\* An action of an admin changes no row that a transaction has locked.
LEMMA ActFree ==
    ASSUME SInv, NEW a \in Admin, Shop!Act(a) \/ Shop!Fail(a),
           step[a] = "write" => Free(task[a].book)
    PROVE  FreeRowsOnly
<1>1. CASE Shop!InsertBook(a)
  <2>1. PICK id \in BookId \ DOMAIN books :
            books' = [b \in DOMAIN books \cup {id} |->
                         IF b \in DOMAIN books THEN books[b]
                         ELSE [available |-> task[a].set.available, sold |-> 0,
                               price |-> task[a].set.price, active |-> TRUE]]
    BY <1>1 DEF Shop!InsertBook
  <2> QED
    BY <2>1 DEF FreeRowsOnly
<1>2. CASE Shop!WriteColumns(a)
  <2>1. PICK row : books' = [books EXCEPT ![task[a].book] = row]
    BY <1>2 DEF Shop!WriteColumns, Shop!BookOf
  <2>2. Free(task[a].book)
    BY <1>2 DEF Shop!WriteColumns
  <2> QED
    BY <2>1, <2>2 DEF FreeRowsOnly
<1>3. CASE \/ Shop!LookUpIsbn(a) \/ Shop!MeetDuplicate(a) \/ Shop!LoadBook(a)
           \/ Shop!MissBook(a) \/ Shop!CheckIsbn(a) \/ Shop!CompareRow(a)
           \/ Shop!Fail(a)
  BY <1>3 DEF Shop!LookUpIsbn, Shop!MeetDuplicate, Shop!LoadBook, Shop!MissBook,
              Shop!CheckIsbn, Shop!CompareRow, Shop!Fail, FreeRowsOnly
<1> QED
  BY <1>1, <1>2, <1>3 DEF Shop!Act

\* An order transaction does not notice: its rows are as it read them.
LEMMA UnderOrders ==
    ASSUME Parts, FreeRowsOnly, \A b \in DOMAIN books' : books'[b] \in Row,
           UNCHANGED <<orders, outbox, entity, tx, request, pc, reply>>
    PROVE  Parts'
<1>1. ASSUME NEW c \in Call, NEW b \in Locked(c)
      PROVE  b \in DOMAIN books' /\ books'[b] = books[b]
  BY DEF Parts, CallInv, CallOK, FreeRowsOnly, Free
<1>2. FramesOK' /\ Origins' /\ Exclusive' /\ KeyUnique'
  BY DEF Parts, FramesOK, Origins, Origin, Hash, Exclusive, Locked, KeyUnique
<1>3. StoreOK'
  BY DEF Parts, StoreOK, FreeRowsOnly, EventPerOrder
<1>4. ASSUME NEW c \in Call PROVE CallInv(c)'
  <2>1. CallInv(c)
    BY DEF Parts
  <2>2. CallOK(c)'
    BY <1>1, <2>1 DEF CallInv, CallOK, Locked
  <2>3. Stage(c)'
    BY <2>1 DEF CallInv, Stage, Locked, NewOrder, NewEvent, Hash
  <2>4. FreshCall(c)'
    BY <1>1, <2>1 DEF CallInv, FreshCall, Locked
  <2>5. TrueAnswer(c)'
    BY <2>1 DEF CallInv, TrueAnswer, OrdersOf, Hash
  <2> QED
    BY <2>2, <2>3, <2>4, <2>5 DEF CallInv
<1> QED
  BY <1>2, <1>3, <1>4 DEF Parts

\* Every step of the books service keeps the invariant.
LEMMA EditingInv == ASSUME SInv, Editing PROVE SInv'
<1>1. PICK a \in Admin :
          /\ Shop!Act(a) \/ Shop!Fail(a)
          /\ step[a] = "write" => Free(task[a].book)
  BY DEF Editing
<1>2. Shelves!Next
  <2>1. Shop!Act(a) \/ Shop!Fail(a)
    BY <1>1
  <2>2. Shelves!Act(a) \/ Shelves!Fail(a)
    BY <2>1, SameActions
  <2> QED
    BY <2>2 DEF Shelves!Next
<1>3. Shelves!BInv'
  BY <1>2, SameAssumption, Shelves!InvKept DEF SInv
<1>4. \A b \in DOMAIN books' : books'[b] \in Row
  BY <1>3 DEF Shelves!BInv, Shelves!TablesOK, Shelves!Row, Row, Quantity
<1>5. Parts'
  BY <1>1, <1>4, ActFree, UnderOrders DEF SInv, Editing
<1> QED
  BY <1>3, <1>5 DEF SInv

-----------------------------------------------------------------------------
(* Theorems.                                                               *)

\* What each service keeps on its own, both keep together.
THEOREM StoreInvariance == StoreSpec => []SInv
<1>1. StoreInit => SInv
  BY InitInv, SameInit, SameAssumption, Shelves!InitInv DEF StoreInit, SInv
<1>2. SInv /\ [StoreNext]_storeVars => SInv'
  <2> SUFFICES ASSUME SInv, [StoreNext]_storeVars PROVE SInv'
    OBVIOUS
  <2>1. CASE Ordering
    BY <2>1, OrderingInv
  <2>2. CASE Editing
    BY <2>2, EditingInv
  <2>3. CASE StoreFinished \/ UNCHANGED storeVars
    <3>1. UNCHANGED vars /\ UNCHANGED Shop!vars
      BY <2>3 DEF StoreFinished, Finished, Shop!Finished, storeVars, vars, Shop!vars
    <3>2. Parts'
      BY <3>1, NextInv DEF SInv
    <3>3. Shelves!BInv'
      BY <3>1, SameAssumption, Shelves!InvKept DEF SInv, Shop!vars, Shelves!vars
    <3> QED
      BY <3>2, <3>3 DEF SInv
  <2> QED
    BY <2>1, <2>2, <2>3 DEF StoreNext
<1> QED
  BY <1>1, <1>2, PTL DEF StoreSpec

\* An order is placed at the stock and the prices of the moment it commits, in
\* one step with its event, while the Books service edits the same rows.
THEOREM OrdersArePlacedFresh == StoreSpec => OrdersPlacedFresh
<1>1. SInv /\ [StoreNext]_storeVars => (orders' # orders => Promise!Next)
  <2> SUFFICES ASSUME SInv, StoreNext, orders' # orders PROVE Promise!Next
    BY DEF storeVars, vars
  <2>1. Ordering
    BY DEF StoreNext, Editing, StoreFinished, Finished, vars
  <2>2. [Promise!Next]_(Promise!ledger)
    BY <2>1, StepRefines DEF SInv, Ordering, Next
  <2> QED
    BY <2>2 DEF Promise!ledger
<1> QED
  BY <1>1, StoreInvariance, PTL DEF StoreSpec, OrdersPlacedFresh

-----------------------------------------------------------------------------
(* PIPELINE.                                                               *)

Mail == INSTANCE DeliveryProofs WITH
            Event <- Call, MaxFaults <- MaxMishaps, faults <- mishaps

-----------------------------------------------------------------------------
(* Post, the instance that Pipeline is made of, and Mail, the one with the *)
(* proofs, are the same module.                                            *)

\* The assumptions of Delivery hold of the calls.
LEMMA PostAssumption == Mail!OutboxAssumption /\ Mail!DeliveryAssumption
BY PipelineAssumption
  DEF Post!OutboxAssumption, Post!DeliveryAssumption, Post!IsFiniteSet,
      Mail!OutboxAssumption, Mail!DeliveryAssumption, Mail!IsFiniteSet

\* It starts in the same states.
LEMMA PostInit == Post!DeliveryInit <=> Mail!DeliveryInit
BY DEF Post!DeliveryInit, Post!Init, Post!NewRow, Post!NoCopies,
       Post!Inbox!ConsumerInit, Post!Inbox!None,
       Mail!DeliveryInit, Mail!Init, Mail!NewRow, Mail!NoCopies,
       Mail!Inbox!ConsumerInit, Mail!Inbox!None

\* A step of a publisher is one.
LEMMA PostPublishing == Post!Publishing <=> Mail!Publishing
BY Zenon
  DEF Post!Publishing, Post!Next, Post!Write, Post!BecomeDue, Post!GoStale,
      Post!Publish, Post!Claim, Post!Emit, Post!Confirm, Post!TimeOut,
      Post!MarkPublished, Post!MarkFailed, Post!Reject, Post!MarkError,
      Post!AcceptUnheard, Post!Awaited, Post!LoseConfirm, Post!Crash, Post!Restart,
      Post!NewRow, Post!NoCopies,
      Post!Goto, Post!Fault, Post!Candidates, Post!IsClaim, Post!Leased, Post!Owns,
      Post!Published, Post!Released, Post!Deliver, Post!GoOn, Post!Cardinality,
      Mail!Publishing, Mail!Next, Mail!Write, Mail!BecomeDue, Mail!GoStale,
      Mail!Publish, Mail!Claim, Mail!Emit, Mail!Confirm, Mail!TimeOut,
      Mail!MarkPublished, Mail!MarkFailed, Mail!Reject, Mail!MarkError,
      Mail!AcceptUnheard, Mail!Awaited, Mail!LoseConfirm, Mail!Crash, Mail!Restart,
      Mail!NewRow, Mail!NoCopies,
      Mail!Goto, Mail!Fault, Mail!Candidates, Mail!IsClaim, Mail!Leased, Mail!Owns,
      Mail!Published, Mail!Released, Mail!Deliver, Mail!GoOn, Mail!Cardinality

\* So is a step of the consuming side.
LEMMA PostConsuming == Post!Consuming <=> Mail!Consuming
BY Zenon
  DEF Post!Consuming, Post!Inbox!ConsumerNext, Post!Inbox!Deliver,
      Post!Inbox!Insert, Post!Inbox!Ack, Post!Inbox!Nack, Post!Inbox!OrphanEnds,
      Post!Inbox!Disconnect, Post!Inbox!Die, Post!Inbox!GiveBack,
      Post!Inbox!Inserted, Post!Inbox!Plus, Post!Inbox!All, Post!Inbox!None,
      Post!Inbox!MapThenSumSet, Post!Inbox!MapThenFoldSet,
      Mail!Consuming, Mail!Inbox!ConsumerNext, Mail!Inbox!Deliver,
      Mail!Inbox!Insert, Mail!Inbox!Ack, Mail!Inbox!Nack, Mail!Inbox!OrphanEnds,
      Mail!Inbox!Disconnect, Mail!Inbox!Die, Mail!Inbox!GiveBack,
      Mail!Inbox!Inserted, Mail!Inbox!Plus, Mail!Inbox!All, Mail!Inbox!None,
      Mail!Inbox!MapThenSumSet, Mail!Inbox!MapThenFoldSet

-----------------------------------------------------------------------------
(* The invariant.                                                          *)

\* The table of events is a function, and has a row for each committed order.
SameTable ==
    /\ rows = [e \in DOMAIN rows |-> rows[e]]
    /\ DOMAIN rows = {o.id : o \in orders}

\* What each part keeps, and the table that both share.
PInv == Parts /\ Mail!DInv /\ SameTable

-----------------------------------------------------------------------------
(* Steps of createOrder.                                                   *)

\* A commit adds the order of the call and its event; neither was there.
LEMMA CommitAdds ==
    ASSUME Parts, SameTable, NEW c \in Call, Commit(c)
    PROVE  /\ c \notin DOMAIN rows
           /\ {o.id : o \in orders'} = {o.id : o \in orders} \cup {c}
           /\ {e.id : e \in NewEvents} = {c}
<1>1. tx[c] = Writes(entity[c], {NewOrder(c)}, {NewEvent(c, NewOrder(c))})
  BY DEF Parts, CallInv, Stage, Commit
<1>2. /\ orders' = orders \cup {NewOrder(c)}
      /\ outbox' = outbox \cup {NewEvent(c, NewOrder(c))}
  BY <1>1 DEF Commit, Writes
<1>3. NewOrder(c).id = c
  BY DEF NewOrder
<1>4. NewEvent(c, NewOrder(c)).id = c /\ NewEvent(c, NewOrder(c)).orderId = c
  BY <1>3 DEF NewEvent
<1>5. ASSUME NEW o \in orders PROVE o.id # c
  BY DEF Parts, Origins, Origin, Commit
<1>6. NewEvent(c, NewOrder(c)) \notin outbox
  BY <1>4, <1>5 DEF Parts, StoreOK, EventPerOrder
<1>7. NewEvents = {NewEvent(c, NewOrder(c))}
  BY <1>2, <1>6 DEF NewEvents
<1>8. c \notin DOMAIN rows
  BY <1>5 DEF SameTable
<1>9. {o.id : o \in orders'} = {o.id : o \in orders} \cup {c}
  BY <1>2, <1>3
<1>10. {e.id : e \in NewEvents} = {c}
  BY <1>4, <1>7
<1> QED
  BY <1>8, <1>9, <1>10

\* No other step of a call commits anything.
LEMMA OthersAddNothing ==
    ASSUME NEW c \in Call, Receive(c) \/ Step(c) \/ DatabaseError(c) \/ Crash(c), ~Commit(c)
    PROVE  UNCHANGED <<orders, outbox>>
BY DEF Step, Receive, FindByKey, EnsureUser, LockBook, TakeItems, RefuseItems, SaveBooks,
       Overflow, InsertOrder, MeetKeyConflict, SaveOutboxEvent, Respond, Reread,
       DatabaseError, Crash, store

\* A step of createOrder is the Write of Delivery, or Delivery does not see it.
LEMMA PlacingWrites ==
    ASSUME Parts, SameTable, Placing
    PROVE  /\ SameTable'
           /\ Mail!Publishing \/ UNCHANGED Mail!deliveryVars
<1> PICK c \in Call : Receive(c) \/ Step(c) \/ DatabaseError(c) \/ Crash(c)
  BY DEF Placing
<1> DEFINE ids == {e.id : e \in NewEvents}
<1>1. /\ rows' = [e \in DOMAIN rows \cup ids |->
                     IF e \in DOMAIN rows THEN rows[e] ELSE Mail!NewRow]
      /\ UNCHANGED <<mode, batch, current, buffer, queue, mishaps>>
      /\ UNCHANGED <<handling, stored, orphan, notifications, cuts>>
  BY DEF Placing, RowsWith, Post!NewRow, Mail!NewRow
<1>2. CASE Commit(c)
  <2>1. c \notin DOMAIN rows /\ ids = {c}
    BY <1>2, CommitAdds
  <2> HIDE DEF ids
  <2>2. rows' = [e \in DOMAIN rows \cup {c} |-> IF e = c THEN Mail!NewRow ELSE rows[e]]
    BY <1>1, <2>1
  <2>3. Mail!Publishing
    BY <1>1, <2>1, <2>2 DEF Mail!Write, Mail!Next, Mail!Publishing
  <2>4. SameTable'
    BY <1>2, <2>2, CommitAdds DEF SameTable
  <2> QED
    BY <2>3, <2>4
<1>3. CASE ~Commit(c)
  <2>1. UNCHANGED <<orders, outbox>>
    BY <1>3, OthersAddNothing
  <2>2. ids = {}
    BY <2>1 DEF NewEvents
  <2> HIDE DEF ids
  <2>3. UNCHANGED rows
    BY <1>1, <2>2 DEF SameTable
  <2> QED
    BY <1>1, <2>1, <2>3 DEF SameTable, Mail!deliveryVars, Mail!vars
<1> QED
  BY <1>2, <1>3

-----------------------------------------------------------------------------
(* Steps of publishers and consumers.                                      *)

\* What is done to the table leaves a table.
LEMMA StillTable ==
    ASSUME SameTable, Mail!DeliveryNext PROVE rows' = [e \in DOMAIN rows' |-> rows'[e]]
<1> DEFINE IsTable(t) == t = [e \in DOMAIN t |-> t[e]]
<1>1. IsTable(rows)
  BY DEF SameTable
<1>2. CASE \E e \in Call : Mail!Write(e)
  BY <1>2 DEF Mail!Write
<1>3. CASE \E e \in DOMAIN rows : Mail!BecomeDue(e) \/ Mail!GoStale(e)
  BY <1>3 DEF Mail!BecomeDue, Mail!GoStale
<1>4. CASE \E w \in Worker : Mail!Claim(w) \/ Mail!Crash(w)
  BY <1>4 DEF Mail!Claim, Mail!Leased, Mail!Crash
<1>5. CASE \E w \in Worker : Mail!MarkPublished(w) \/ Mail!MarkFailed(w) \/ Mail!MarkError(w)
  BY <1>1, <1>5
  DEF Mail!MarkPublished, Mail!MarkFailed, Mail!MarkError, Mail!Published, Mail!Released
<1>6. CASE UNCHANGED rows
  BY <1>1, <1>6
<1> HIDE DEF IsTable
<1>7. IsTable(rows')
  <2>1. CASE Mail!Publishing
    BY <2>1, <1>2, <1>3, <1>4, <1>5, <1>6
    DEF Mail!Publishing, Mail!Next, Mail!Publish, Mail!Emit, Mail!Confirm, Mail!TimeOut,
        Mail!Reject, Mail!AcceptUnheard, Mail!LoseConfirm, Mail!Restart, IsTable
  <2>2. CASE Mail!Consuming
    BY <2>2, <1>6 DEF Mail!Consuming, IsTable
  <2> QED
    BY <2>1, <2>2 DEF Mail!DeliveryNext
<1> QED
  BY <1>7 DEF IsTable

\* A step of Delivery within the pipeline is one of Delivery.
LEMMA SendingSteps == Sending => Mail!DeliveryNext
BY PostPublishing, PostConsuming DEF Sending, Post!DeliveryNext, Mail!DeliveryNext

-----------------------------------------------------------------------------
(* Theorems.                                                               *)

\* Every step of the pipeline is a step of each of its parts or unseen by it.
LEMMA PipelineParts ==
    ASSUME Parts, SameTable, [PipelineNext]_pipelineVars
    PROVE  /\ [Next]_vars
           /\ [Mail!DeliveryNext]_(Mail!deliveryVars)
           /\ SameTable'
<1>1. CASE Placing
  <2>1. Next
    BY <1>1 DEF Placing, Next
  <2> QED
    BY <1>1, <2>1, PlacingWrites DEF Mail!DeliveryNext
<1>2. CASE Sending
  <2>1. UNCHANGED vars /\ DOMAIN rows' = DOMAIN rows
    BY <1>2 DEF Sending
  <2> QED
    BY <1>2, <2>1, SendingSteps, StillTable DEF SameTable, vars
<1>3. CASE UNCHANGED pipelineVars
  BY <1>3 DEF pipelineVars, Post!deliveryVars, Post!vars, Mail!deliveryVars, Mail!vars,
     SameTable, vars
<1> QED
  BY <1>1, <1>2, <1>3 DEF PipelineNext

\* The invariants of Orders and Delivery hold together, and their tables are
\* the same.
THEOREM PipelineInvariance == PipelineSpec => []PInv
<1>1. PipelineInit => PInv
  <2> SUFFICES ASSUME PipelineInit PROVE PInv
    OBVIOUS
  <2>1. Parts
    BY InitInv DEF PipelineInit
  <2>2. Mail!DeliveryInit
    BY PostInit DEF PipelineInit
  <2>3. Mail!DInv
    BY <2>2, PostAssumption, Mail!InitDInv
  <2>4. orders = {} /\ rows = [e \in {} |-> Mail!NewRow]
    BY <2>2 DEF PipelineInit, Init, Mail!DeliveryInit, Mail!Init
  <2>5. SameTable
    BY <2>4 DEF SameTable
  <2> QED
    BY <2>1, <2>3, <2>5 DEF PInv
<1>2. PInv /\ [PipelineNext]_pipelineVars => PInv'
  <2> SUFFICES ASSUME PInv, [PipelineNext]_pipelineVars PROVE PInv'
    OBVIOUS
  <2>1. [Next]_vars /\ [Mail!DeliveryNext]_(Mail!deliveryVars) /\ SameTable'
    BY PipelineParts DEF PInv
  <2>2. Parts'
    BY <2>1, NextInv DEF PInv
  <2>3. Mail!DInv'
    BY <2>1, PostAssumption, Mail!PublishingInv, Mail!ConsumingInv, Mail!StutterDInv
    DEF PInv, Mail!DeliveryNext
  <2> QED
    BY <2>1, <2>2, <2>3 DEF PInv
<1> QED
  BY <1>1, <1>2, PTL DEF PipelineSpec

\* The pipeline implements createOrder: whatever is said of Orders holds here.
THEOREM PipelineOrders == PipelineSpec => Spec
<1>1. PipelineInit => Init
  BY DEF PipelineInit
<1>2. PInv /\ [PipelineNext]_pipelineVars => [Next]_vars
  BY PipelineParts DEF PInv
<1> QED
  BY <1>1, <1>2, PipelineInvariance, PTL DEF PipelineSpec, Spec

\* The pipeline implements Delivery, for which orders just appeared: createOrder
\* does write each event once, and nobody else writes any.
THEOREM PipelineDelivers == PipelineSpec => Post!DeliverySpec
<1>1. PipelineInit => Post!DeliveryInit
  BY DEF PipelineInit
<1>2. PInv /\ [PipelineNext]_pipelineVars => [Post!DeliveryNext]_(Post!deliveryVars)
  <2>1. Mail!DeliveryNext <=> Post!DeliveryNext
    BY PostPublishing, PostConsuming DEF Mail!DeliveryNext, Post!DeliveryNext
  <2>2. UNCHANGED Mail!deliveryVars => UNCHANGED Post!deliveryVars
    BY DEF Mail!deliveryVars, Mail!vars, Post!deliveryVars, Post!vars
  <2> QED
    BY <2>1, <2>2, PipelineParts DEF PInv
<1> QED
  BY <1>1, <1>2, PipelineInvariance, PTL DEF PipelineSpec, Post!DeliverySpec

\* A committed order is in the table of the publishers, and once it is marked
\* published it is notified or on the way.
THEOREM NoOrderIsForgotten == PipelineSpec => []NoOrderForgotten
<1>1. PInv => NoOrderForgotten
  <2> SUFFICES ASSUME PInv, NEW o \in orders
               PROVE  /\ o.id \in DOMAIN rows
                      /\ rows[o.id].published /\ notifications[o.id] = 0
                            => Post!Underway(o.id)
    BY DEF NoOrderForgotten
  <2>1. o.id \in DOMAIN rows
    BY DEF PInv, SameTable
  <2>2. rows[o.id].published => notifications[o.id] = 1 \/ Mail!Underway(o.id)
    BY <2>1 DEF PInv, Mail!DInv, Mail!PublishedIsSafe, Mail!Safe
  <2> QED
    BY <2>1, <2>2 DEF Post!Underway, Mail!Underway
<1> QED
  BY <1>1, PipelineInvariance, PTL

\* A key leads to one notification at most.
THEOREM OneNotificationForKey == PipelineSpec => []OneNotificationPerKey
<1>1. PInv => OneNotificationPerKey
  <2> SUFFICES ASSUME PInv, NEW c \in Call, NEW d \in Call,
                      notifications[c] > 0, notifications[d] > 0,
                      request[c].key = request[d].key
               PROVE  c = d /\ notifications[c] = 1
    BY DEF OneNotificationPerKey
  <2>1. \A e \in Call : notifications[e] \in {0, 1}
    BY DEF PInv, Mail!DInv, Mail!ConsumersOK
  <2>2. ASSUME NEW e \in Call, notifications[e] > 0 PROVE \E o \in orders : o.id = e
    <3>1. e \in DOMAIN rows
      BY <2>2 DEF PInv, Mail!DInv, Mail!OnlyCommitted
    <3> QED
      BY <3>1 DEF PInv, SameTable
  <2>3. PICK o \in orders : o.id = c
    BY <2>2
  <2>4. PICK p \in orders : p.id = d
    BY <2>2
  <2>5. o.key = p.key
    BY <2>3, <2>4 DEF PInv, Parts, Origins, Origin
  <2>6. o = p
    BY <2>5 DEF PInv, Parts, KeyUnique
  <2> QED
    BY <2>1, <2>3, <2>4, <2>6
<1> QED
  BY <1>1, PipelineInvariance, PTL

\* Orders are announced as Announcing promises: each committed order at most
\* once, and nothing else.
THEOREM OrdersAreAnnounced == PipelineSpec => OrdersAnnouncedOnce
<1>1. PipelineInit => Announced!Init
  <2> SUFFICES ASSUME PipelineInit PROVE Announced!Init
    OBVIOUS
  <2>1. orders = {}
    BY DEF PipelineInit, Init
  <2>2. notifications = [e \in Call |-> 0]
    BY DEF PipelineInit, Post!DeliveryInit, Post!Inbox!ConsumerInit, Post!Inbox!None
  <2> QED
    BY <2>1, <2>2 DEF Announced!Init
<1>2. PInv /\ [PipelineNext]_pipelineVars => [Announced!Next]_(Announced!announcing)
  <2> SUFFICES ASSUME PInv, [PipelineNext]_pipelineVars
               PROVE  [Announced!Next]_(Announced!announcing)
    OBVIOUS
  <2>1. [Mail!DeliveryNext]_(Mail!deliveryVars)
    BY PipelineParts DEF PInv
  <2>2. /\ DOMAIN rows = {o.id : o \in orders}
        /\ DOMAIN rows' = {o.id : o \in orders'}
    BY PipelineParts DEF PInv, SameTable
  <2>3. [Mail!Promise!Next]_(Mail!Promise!announcing)
    <3>1. UNCHANGED Mail!deliveryVars => UNCHANGED Mail!Promise!announcing
      BY DEF Mail!deliveryVars, Mail!vars, Mail!Promise!announcing
    <3> QED
      BY <2>1, <3>1, PostAssumption, Mail!PublishingImplements, Mail!ConsumingImplements
      DEF PInv, Mail!DeliveryNext
  <2> QED
    BY <2>2, <2>3
    DEF Mail!Promise!Next, Mail!Promise!Write, Mail!Promise!Notify, Mail!Promise!announcing,
        Announced!Next, Announced!Write, Announced!Notify, Announced!announcing
<1> QED
  BY <1>1, <1>2, PipelineInvariance, PTL
  DEF PipelineSpec, OrdersAnnouncedOnce, Announced!Spec

\* The fairness of the pipeline is that of its delivery.
LEMMA PipelineIsFair == FairPipeline => Post!FairDelivery
BY PipelineDelivers, PTL DEF FairPipeline, Post!FairDelivery

\* If a fair Delivery notifies every event in the end, then whoever was given
\* an order, by whichever of the calls with its key, sees it notified: calls
\* need not do anything more for it.
THEOREM AnsweredAreNotified ==
    FairPipeline /\ (Post!FairDelivery => Post!EveryEventNotified) => AnsweredIsNotified
<1> DEFINE Given(c, d) == reply[c].code = "OK" /\ \E o \in reply[c].orders : o.id = d
<1>1. ASSUME NEW c \in Call, NEW d \in Call
      PROVE  PInv => (Given(c, d) => d \in DOMAIN rows)
  <2> SUFFICES ASSUME PInv, Given(c, d) PROVE d \in DOMAIN rows
    OBVIOUS
  <2>1. PICK p \in reply[c].orders : p.id = d
    OBVIOUS
  <2>2. PICK o \in orders : reply[c] = Success(o)
    BY DEF PInv, Parts, CallInv, TrueAnswer
  <2>3. reply[c].orders = {o}
    BY <2>2 DEF Success
  <2> QED
    BY <2>1, <2>2, <2>3 DEF PInv, SameTable
<1>2. ASSUME NEW c \in Call, NEW d \in Call
      PROVE  PipelineSpec /\ Post!EveryEventNotified
                => (Given(c, d) ~> notifications[d] = 1)
  <2> DEFINE Notified(e) == e \in DOMAIN rows ~> notifications[e] = 1
  <2>1. Post!EveryEventNotified => Notified(d)
    <3>1. Post!EveryEventNotified => \A e \in Call : Notified(e)
      BY DEF Post!EveryEventNotified, Post!Promise!EveryEventNotified
    <3> HIDE DEF Notified
    <3> QED
      BY <3>1
  <2>2. PInv => (Given(c, d) => d \in DOMAIN rows)
    BY <1>1
  <2> HIDE DEF Given
  <2> QED
    BY <2>1, <2>2, PipelineInvariance, PTL
<1>3. PipelineSpec /\ Post!EveryEventNotified => AnsweredIsNotified
  BY <1>2 DEF AnsweredIsNotified
<1> QED
  BY <1>3, PipelineIsFair, PTL DEF FairPipeline
=============================================================================
