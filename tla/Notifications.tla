---------------------------- MODULE Notifications ----------------------------
(***************************************************************************)
(* The consumers of orders.order.created (apps/notifications-service) and  *)
(* the durable RabbitMQ queue they take it from.                           *)
(*                                                                         *)
(* A delivery stays with the broker until it is acknowledged.  If the      *)
(* channel of a consumer is lost, the broker puts its deliveries back in   *)
(* the queue, while a handler that awaits its INSERT runs on: nothing      *)
(* tells it that the message is no longer its own.                         *)
(*                                                                         *)
(* MaxCuts bounds how often a channel is lost or a process dies.  Failed   *)
(* handlers need no bound: they only give the message back.                *)
(***************************************************************************)
EXTENDS Integers, FiniteSetsExt

CONSTANTS Event,     \* ids of events
          Consumer,  \* replicas of the Notifications service
          Prefetch,  \* prefetchCount
          MaxCuts    \* how many channels are lost

VARIABLES
    queue,          \* copies in the durable queue, by event
    handling,       \* deliveries whose INSERT is awaited, by consumer and event
    stored,         \* deliveries whose INSERT is done and whose ack is not
    orphan,         \* awaited INSERTs whose delivery was given back
    notifications,  \* committed rows of notifications, by event
    cuts            \* channels lost so far

None == [e \in Event |-> 0]
Plus(f, g) == [e \in Event |-> f[e] + g[e]]
All(f) == MapThenSumSet(LAMBDA e : f[e], Event)

ConsumerInit ==
    /\ handling = [c \in Consumer |-> None]
    /\ stored = [c \in Consumer |-> None]
    /\ orphan = [c \in Consumer |-> None]
    /\ notifications = None
    /\ cuts = 0

\* The broker hands out a message while fewer than prefetchCount are unacked.
Deliver(c, e) ==
    /\ queue[e] > 0
    /\ All(handling[c]) + All(stored[c]) < Prefetch
    /\ queue' = [queue EXCEPT ![e] = @ - 1]
    /\ handling' = [handling EXCEPT ![c][e] = @ + 1]
    /\ UNCHANGED <<stored, orphan, notifications, cuts>>

\* Mutant of Inserted: no ON CONFLICT, no unique index.
InsertedAgain(e) == [notifications EXCEPT ![e] = @ + 1]

\* INSERT ... ON CONFLICT ("event_id") DO NOTHING.
Inserted(e) ==
    [notifications EXCEPT ![e] = IF notifications[e] = 0 THEN 1 ELSE @]

\* createFromOrderEvent is done, whether or not it found the event there.
Insert(c, e) ==
    /\ handling[c][e] > 0
    /\ notifications' = Inserted(e)
    /\ handling' = [handling EXCEPT ![c][e] = @ - 1]
    /\ stored' = [stored EXCEPT ![c][e] = @ + 1]
    /\ UNCHANGED <<queue, orphan, cuts>>

\* channel.ack: the broker forgets the message.
Ack(c, e) ==
    /\ stored[c][e] > 0
    /\ stored' = [stored EXCEPT ![c][e] = @ - 1]
    /\ UNCHANGED <<queue, handling, orphan, notifications, cuts>>

\* Mutant of Nack: the message is not requeued.
NackDropping(c, e) ==
    /\ handling[c][e] > 0
    /\ notifications' \in {notifications, Inserted(e)}
    /\ handling' = [handling EXCEPT ![c][e] = @ - 1]
    /\ UNCHANGED <<queue, stored, orphan, cuts>>

\* The INSERT is reported to have failed, and may have been done: the message
\* is requeued.
Nack(c, e) ==
    /\ handling[c][e] > 0
    /\ notifications' \in {notifications, Inserted(e)}
    /\ handling' = [handling EXCEPT ![c][e] = @ - 1]
    /\ queue' = [queue EXCEPT ![e] = @ + 1]
    /\ UNCHANGED <<stored, orphan, cuts>>

\* Mutant of GiveBack: the queue has forgotten what it delivered (noAck).
GiveBackNothing(c) ==
    /\ cuts < MaxCuts
    /\ cuts' = cuts + 1
    /\ handling' = [handling EXCEPT ![c] = None]
    /\ stored' = [stored EXCEPT ![c] = None]
    /\ UNCHANGED <<queue, notifications>>

\* The broker takes back what a consumer has not acknowledged.
GiveBack(c) ==
    /\ cuts < MaxCuts
    /\ cuts' = cuts + 1
    /\ queue' = Plus(queue, Plus(handling[c], stored[c]))
    /\ handling' = [handling EXCEPT ![c] = None]
    /\ stored' = [stored EXCEPT ![c] = None]
    /\ UNCHANGED notifications

\* The channel is lost; handlers that await the database run on.
Disconnect(c) ==
    /\ GiveBack(c)
    /\ orphan' = [orphan EXCEPT ![c] = Plus(@, handling[c])]

\* The process dies with its handlers.
Die(c) ==
    /\ GiveBack(c)
    /\ orphan' = [orphan EXCEPT ![c] = None]

\* A handler without a channel ends, whatever its INSERT did.
OrphanEnds(c, e) ==
    /\ orphan[c][e] > 0
    /\ notifications' \in {notifications, Inserted(e)}
    /\ orphan' = [orphan EXCEPT ![c][e] = @ - 1]
    /\ UNCHANGED <<queue, handling, stored, cuts>>

ConsumerNext ==
    \E c \in Consumer :
        \/ \E e \in Event : Deliver(c, e) \/ Insert(c, e) \/ Ack(c, e)
                            \/ Nack(c, e) \/ OrphanEnds(c, e)
        \/ Disconnect(c)
        \/ Die(c)
=============================================================================
