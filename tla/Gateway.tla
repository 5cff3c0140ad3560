------------------------------- MODULE Gateway -------------------------------
(***************************************************************************)
(* POST /api/orders from the client's side: ApiGatewayService.dispatch     *)
(* (apps/api-gateway) in front of createOrder, and clients that retry.     *)
(*                                                                         *)
(* A call is one HTTP request.  Calls with the same request are attempts   *)
(* of one purchase: the client repeats the key with the same items.  The   *)
(* Gateway stops waiting after microserviceTimeoutMs or when the           *)
(* connection to Orders is lost, but nothing takes the TCP message back:   *)
(* createOrder may run, and commit, after its client was told 504 or 500.  *)
(***************************************************************************)
EXTENDS Orders

CONSTANT MaxFaults  \* how often something goes wrong, over the life of the system

ASSUME GatewayAssumption == MaxFaults \in Nat

VARIABLES stage,   \* where each HTTP request is in the Gateway
          http,    \* what the client of each HTTP request was answered
          faults   \* how many things have gone wrong

gateway == <<stage, http, faults>>
gatewayVars == <<vars, gateway>>

\* unsent: the client has not sent it; turned: it never became a TCP message;
\* sent: it did; lost: it did, and the connection closed while it was pending.
Stages == {"unsent", "turned", "sent", "lost"}

-----------------------------------------------------------------------------
(* HTTP answers.                                                           *)

Http(status, code, os) == [status |-> status, code |-> code, orders |-> os]
NoAnswer == Http(0, "", {})

\* The RpcExceptions of createOrder, by their code.
RpcStatus ==
    [ IDEMPOTENCY_KEY_REUSED    |-> 409,
      USER_NOT_FOUND            |-> 404,
      USERS_SERVICE_TIMEOUT     |-> 504,
      USERS_SERVICE_UNAVAILABLE |-> 503,
      BOOK_NOT_AVAILABLE        |-> 404,
      INSUFFICIENT_STOCK        |-> 409 ]

\* Errors of the socket that carry a code the Gateway knows.
UnavailableCodes == {"ECONNREFUSED", "ECONNRESET", "EHOSTUNREACH",
                     "ENETUNREACH", "ENOTFOUND", "EPIPE", "ETIMEDOUT"}

\* Mutant of ToHttpException: whatever the service reports is a 404.
AllNotFound(error) == Http(404, "USER_NOT_FOUND", {})

\* toHttpException, of an error that reached the Gateway: TimeoutError, the
\* code of a socket error, the code of an RpcException, or anything else.
ToHttpException(error) ==
    CASE error = "TimeoutError"         -> Http(504, "MICROSERVICE_TIMEOUT", {})
      [] error \in UnavailableCodes     -> Http(503, "MICROSERVICE_UNAVAILABLE", {})
      [] error \in DOMAIN RpcStatus     -> Http(RpcStatus[error], error, {})
      [] OTHER                          -> Http(500, "INTERNAL_ERROR", {})

\* The answer to the client when the reply of createOrder has arrived.
Relayed(answer) ==
    IF answer.code = "OK" THEN Http(200, "OK", answer.orders)
    ELSE ToHttpException(answer.code)

-----------------------------------------------------------------------------
(* The client and the Gateway.                                             *)

GatewayInit ==
    /\ Init
    /\ stage = [c \in Call |-> "unsent"]
    /\ http = [c \in Call |-> NoAnswer]
    /\ faults = 0

Fault == faults < MaxFaults /\ faults' = faults + 1

\* The Gateway waits for createOrder on behalf of a client that waits too.
Pending(c) == stage[c] = "sent" /\ http[c] = NoAnswer

Tell(c, answer) == http' = [http EXCEPT ![c] = answer]

Move(c, label) == stage' = [stage EXCEPT ![c] = label]

\* The client sends the request and dispatch makes a TCP message of it.  A
\* client may repeat a request whenever it likes.
Dispatch(c) ==
    /\ stage[c] = "unsent"
    /\ Move(c, "sent")
    /\ UNCHANGED <<vars, http, faults>>

\* GatewayThrottlerGuard: 429 before the controller is reached.
Throttle(c) ==
    /\ stage[c] = "unsent"
    /\ Fault
    /\ Move(c, "turned")
    /\ Tell(c, Http(429, "THROTTLED", {}))
    /\ UNCHANGED vars

\* There is no connection to Orders and none can be made.
Refuse(c) ==
    /\ stage[c] = "unsent"
    /\ Fault
    /\ Move(c, "turned")
    /\ Tell(c, ToHttpException("ECONNREFUSED"))
    /\ UNCHANGED vars

\* The reply of createOrder arrives in time.
Relay(c) ==
    /\ Pending(c)
    /\ pc[c] = "done"
    /\ Tell(c, Relayed(reply[c]))
    /\ UNCHANGED <<vars, stage, faults>>

\* timeout(microserviceTimeoutMs), wherever createOrder is by then.
GiveUp(c) ==
    /\ Pending(c)
    /\ Fault
    /\ Tell(c, ToHttpException("TimeoutError"))
    /\ UNCHANGED <<vars, stage>>

\* The connection to Orders closes.  The client of the microservice reports
\* the error of the socket, or an Error without a code to what is pending.
Lose(c) ==
    /\ Pending(c)
    /\ IF pc[c] = "crashed" THEN UNCHANGED faults ELSE Fault
    /\ Move(c, "lost")
    /\ \E error \in {"ECONNRESET", "Connection closed"} :
          Tell(c, ToHttpException(error))
    /\ UNCHANGED vars

\* The client's own connection, or the Gateway, is gone.
Cut(c) ==
    /\ Pending(c)
    /\ Fault
    /\ Tell(c, Http(0, "CUT", {}))
    /\ UNCHANGED <<vars, stage>>

-----------------------------------------------------------------------------
(* createOrder, behind the Gateway.                                        *)

\* The message arrives, perhaps after the Gateway gave up waiting for it.
Arrive(c) ==
    /\ stage[c] \in {"sent", "lost"}
    /\ Receive(c)
    /\ UNCHANGED gateway

\* The Users service was late or away.
UsersFailed(c) ==
    reply'[c].code \in {"USERS_SERVICE_TIMEOUT", "USERS_SERVICE_UNAVAILABLE"}

\* createOrder goes on, whether or not anybody waits for it.
Work(c) ==
    /\ Step(c)
    /\ IF UsersFailed(c) THEN Fault ELSE UNCHANGED faults
    /\ UNCHANGED <<stage, http>>

Break(c) ==
    /\ DatabaseError(c) \/ Crash(c)
    /\ Fault
    /\ UNCHANGED <<stage, http>>

-----------------------------------------------------------------------------

\* Everybody was answered and what runs has ended.
AllOver ==
    /\ \A c \in Call : http[c] # NoAnswer /\ pc[c] \in {"idle", "done", "crashed"}
    /\ UNCHANGED gatewayVars

GatewayNext ==
    \/ \E c \in Call :
          \/ Dispatch(c) \/ Throttle(c) \/ Refuse(c)
          \/ Relay(c) \/ GiveUp(c) \/ Lose(c) \/ Cut(c)
          \/ Arrive(c) \/ Work(c) \/ Break(c)
    \/ AllOver

GatewaySpec == GatewayInit /\ [][GatewayNext]_gatewayVars

\* The attempts of one purchase.
Attempts(r) == {c \in Call : request[c] = r}

\* Answers that no repetition of the request would change.  A refusal for
\* want of stock is not one of them: an attempt that overlaps its own original
\* is refused the copies that the original took, though the order is placed.
Conclusive(c) ==
    \/ http[c].status = 200
    \/ http[c].code \in {"USER_NOT_FOUND", "BOOK_NOT_AVAILABLE", "IDEMPOTENCY_KEY_REUSED"}

\* The client knows what became of its purchase: one answer says so, or stock
\* was refused to a second attempt as well.
Told(r) ==
    \/ \E c \in Attempts(r) : Conclusive(c)
    \/ \E c, d \in Attempts(r) :
          c # d /\ {http[c].code, http[d].code} = {"INSUFFICIENT_STOCK"}

\* A client that has no answer to wait for and was not told tries again.
Retry(r) ==
    /\ ~Told(r)
    /\ \A c \in Attempts(r) : ~Pending(c)
    /\ \E c \in Attempts(r) : Dispatch(c)

\* What happens to an attempt if nothing goes wrong: its message arrives, its
\* call goes on, its reply is relayed.  A connection is lost with its process.
GoOn(c) ==
    \/ Arrive(c)
    \/ Work(c)
    \/ Relay(c)
    \/ pc[c] = "crashed" /\ Lose(c)

\* Clients retry, and what can go on does.
GatewayFairness ==
    /\ \A c \in Call : WF_gatewayVars(GoOn(c))
    /\ \A r \in Requests : WF_gatewayVars(Retry(r))

FairGatewaySpec == GatewaySpec /\ GatewayFairness

-----------------------------------------------------------------------------
(* Properties.                                                             *)

\* The types of the Gateway's variables.
GatewayTypeOK ==
    /\ stage \in [Call -> Stages]
    /\ DOMAIN http = Call
    /\ \A c \in Call : http[c].orders \subseteq orders
    /\ faults \in 0..MaxFaults

\* README: a persisted key prevents duplicate orders across retries.  However
\* the attempts of a purchase overlap, time out, get lost and are repeated,
\* all that were answered with an order were answered with the same one: a
\* committed order of that very request, and the only order of its key.
SameOrderTold ==
    \A c \in Call : http[c].status = 200 =>
        \E o \in orders :
            /\ http[c].orders = {o}
            /\ o.key = request[c].key
            /\ o.hash = Hash(request[c])
            /\ \A p \in orders : p.key = request[c].key => p = o

\* A client that is told its key is used up, or its user unknown, has no order
\* of this request, and no attempt of it still under way will place one.
NoMeansNo ==
    \A c \in Call :
        http[c].code \in {"IDEMPOTENCY_KEY_REUSED", "USER_NOT_FOUND"} =>
            \A o \in orders : o.key = request[c].key => o.hash # Hash(request[c])

\* The client of a purchase waits for the answer to an attempt before it sends
\* the next.  What it gave up or lost may still be running.
OneAtATime(r) == \A c, d \in Attempts(r) : Pending(c) /\ Pending(d) => c = d

\* An order of this very request is committed.
Placed(r) == \E o \in orders : o.key = r.key /\ o.hash = Hash(r)

\* Clients that try one attempt at a time, and twice more than something goes
\* wrong, are told in the end, and truly and for good: there is an order of the
\* purchase exactly if its client was shown that order.  Once more is not
\* enough: an attempt that timed out and commits late makes its repetition, and
\* only one of them, be refused the stock that it took (RetryReturnsOrder).
ClientIsTold ==
    LET Patient == {r \in Requests : Cardinality(Attempts(r)) > MaxFaults + 1} IN
    [](\A r \in Patient : OneAtATime(r)) =>
        <>[](\A r \in Patient :
              /\ Told(r)
              /\ Placed(r) <=> \E c \in Attempts(r) : http[c].status = 200)
=============================================================================
