------------------------------ MODULE Pipeline ------------------------------
(***************************************************************************)
(* From a request to its notification: Orders and Delivery over one        *)
(* outbox_events table.  createOrder commits an event with its order; the  *)
(* publishers of the same service find it in the table, and consumers of   *)
(* the Notifications service take its message from the queue.              *)
(*                                                                         *)
(* An order and its event have the id of the call that places them, so     *)
(* events are calls, and occurred_at orders them by <.  A process of the   *)
(* Orders service runs calls and a publisher: that it dies is a Crash of   *)
(* its calls and one of its publisher, here also possible one by one.      *)
(***************************************************************************)
EXTENDS Orders

CONSTANTS Worker, BatchSize, MaxMishaps, Nobody, Gone, Consumer, Prefetch, MaxCuts

VARIABLES rows, mode, batch, current, buffer, queue, mishaps,
          handling, stored, orphan, notifications, cuts

Post == INSTANCE Delivery WITH
            Event <- Call, MaxFaults <- MaxMishaps, faults <- mishaps

ASSUME PipelineAssumption == Post!OutboxAssumption /\ Post!DeliveryAssumption

pipelineVars == <<vars, Post!deliveryVars>>

PipelineInit == Init /\ Post!DeliveryInit

\* The events that a step commits.
NewEvents == outbox' \ outbox

\* The table with new rows: neither published nor leased, and due at once.
RowsWith(ids) ==
    [e \in DOMAIN rows \cup ids |-> IF e \in DOMAIN rows THEN rows[e] ELSE Post!NewRow]

\* A step of createOrder.  What it commits is there for the publishers.
Placing ==
    /\ \E c \in Call : Receive(c) \/ Step(c) \/ DatabaseError(c) \/ Crash(c)
    /\ rows' = RowsWith({e.id : e \in NewEvents})
    /\ UNCHANGED <<mode, batch, current, buffer, queue, mishaps,
                   handling, stored, orphan, notifications, cuts>>

\* A step of a publisher, the broker or a consumer.  None of them adds rows.
Sending ==
    /\ Post!DeliveryNext
    /\ DOMAIN rows' = DOMAIN rows
    /\ UNCHANGED vars

PipelineNext == Placing \/ Sending

PipelineSpec == PipelineInit /\ [][PipelineNext]_pipelineVars

\* As in Delivery.  Calls need not go on: they may stop anywhere.
FairPipeline == PipelineSpec /\ Post!Fairness /\ Post!ConsumerFairness

-----------------------------------------------------------------------------
(* Properties.                                                             *)

\* The events of committed orders are the rows that publishers work on, and
\* what is marked published has been notified or is still under way: no order
\* is forgotten between the services, whoever fails and whenever.
NoOrderForgotten ==
    \A o \in orders :
        /\ o.id \in DOMAIN rows
        /\ rows[o.id].published /\ notifications[o.id] = 0 => Post!Underway(o.id)

\* However often a client repeats a request with its key, on however many
\* replicas, and however often messages are sent and handled: one of the calls
\* gets a notification, once.
OneNotificationPerKey ==
    \A c, d \in Call :
        /\ notifications[c] > 0 /\ notifications[d] > 0
        /\ request[c].key = request[d].key
        => c = d /\ notifications[c] = 1

Announced == INSTANCE Announcing WITH
                 Event    <- Call,
                 written  <- {o.id : o \in orders},
                 notified <- notifications

\* Committed orders are notified, once each; nothing else ever is: no call
\* that was refused, rolled back or cut off.
OrdersAnnouncedOnce == Announced!Spec

\* A client that was given an order, its own or that of an earlier call, sees
\* the notification of it in the end.
AnsweredIsNotified ==
    \A c, d \in Call :
        reply[c].code = "OK" /\ (\E o \in reply[c].orders : o.id = d)
            ~> notifications[d] = 1
=============================================================================
