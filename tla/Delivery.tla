------------------------------ MODULE Delivery ------------------------------
(***************************************************************************)
(* From a committed order to its notification: the outbox publishers of    *)
(* the Orders service and the consumers of the Notifications service, with *)
(* the queue between them.                                                 *)
(***************************************************************************)
EXTENDS Outbox

CONSTANTS Consumer, Prefetch, MaxCuts

ASSUME DeliveryAssumption == Prefetch \in Nat \ {0} /\ MaxCuts \in Nat

VARIABLES handling, stored, orphan, notifications, cuts

Inbox == INSTANCE Notifications

deliveryVars == <<vars, handling, stored, orphan, notifications, cuts>>

DeliveryInit == Init /\ Inbox!ConsumerInit

\* A step of the Orders service.
Publishing ==
    /\ Next
    /\ UNCHANGED <<handling, stored, orphan, notifications, cuts>>

\* A step of the broker or of the Notifications service.
Consuming ==
    /\ Inbox!ConsumerNext
    /\ UNCHANGED <<rows, mode, batch, current, buffer, faults>>

DeliveryNext == Publishing \/ Consuming

DeliverySpec == DeliveryInit /\ [][DeliveryNext]_deliveryVars

\* The queue hands out every message in turn, a handler that is tried again
\* and again succeeds in the end, and what succeeded is acknowledged.
ConsumerFairness ==
    \A c \in Consumer, e \in Event :
        /\ SF_deliveryVars(Inbox!Deliver(c, e)
                           /\ UNCHANGED <<rows, mode, batch, current, buffer, faults>>)
        /\ SF_deliveryVars(Inbox!Insert(c, e)
                           /\ UNCHANGED <<rows, mode, batch, current, buffer, faults>>)
        /\ WF_deliveryVars(Inbox!Ack(c, e)
                           /\ UNCHANGED <<rows, mode, batch, current, buffer, faults>>)

FairDelivery == DeliverySpec /\ Fairness /\ ConsumerFairness

-----------------------------------------------------------------------------
(* Properties.                                                             *)

\* A copy of an event is in the queue, or with a consumer whose INSERT is
\* awaited and that has not acknowledged it.
Underway(e) == queue[e] > 0 \/ \E c \in Consumer : handling[c][e] > 0

\* A published event is not lost: until it has its notification, a copy of it
\* is under way, whichever consumers have failed and channels have closed.
NothingLost ==
    \A e \in DOMAIN rows :
        rows[e].published /\ notifications[e] = 0 => Underway(e)

Promise == INSTANCE Announcing WITH written <- DOMAIN rows, notified <- notifications

\* Every event gets at most one notification, and only once it is committed,
\* however often its message is sent, delivered and handled.
NotifiesOnce == Promise!Spec

\* README: at-least-once delivery.  Every committed event is notified.
EveryEventNotified == Promise!EveryEventNotified
=============================================================================
