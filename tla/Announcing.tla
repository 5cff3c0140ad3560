----------------------------- MODULE Announcing -----------------------------
(***************************************************************************)
(* What the outbox, RabbitMQ and the Notifications service promise         *)
(* together, whatever is sent twice, lost or retried on the way: an event  *)
(* that was committed gets one notification, and no other event gets any.  *)
(*                                                                         *)
(* This is the abstract specification that Delivery implements.            *)
(***************************************************************************)
EXTENDS Integers

CONSTANT Event  \* ids of events

VARIABLES written,  \* the events committed so far
          notified  \* how many notifications each event has

announcing == <<written, notified>>

Init ==
    /\ written = {}
    /\ notified = [e \in Event |-> 0]

\* An order is committed with its event.
Write(e) ==
    /\ e \notin written
    /\ written' = written \cup {e}
    /\ UNCHANGED notified

\* The first and only notification of an event.
Notify(e) ==
    /\ e \in written
    /\ notified[e] = 0
    /\ notified' = [notified EXCEPT ![e] = 1]
    /\ UNCHANGED written

Next == \E e \in Event : Write(e) \/ Notify(e)

Spec == Init /\ [][Next]_announcing

\* No event waits for its notification for ever.
EveryEventNotified == \A e \in Event : e \in written ~> notified[e] = 1
=============================================================================
