------------------------------- MODULE Outbox -------------------------------
(***************************************************************************)
(* The transactional outbox of the Orders service: OutboxPublisher and     *)
(* OutboxRepository, run by every replica against one outbox_events table, *)
(* and the RabbitMQ client they publish with.                              *)
(*                                                                         *)
(* Time is two facts about a row: due, next_attempt_at has passed, and     *)
(* stale, its lease is older than the lock timeout.  Both become true at   *)
(* some time and nobody knows when: a lease may go stale under a worker    *)
(* that is merely slow.  A claim is one statement; RETURNING gives its     *)
(* rows in no particular order, so a batch is a set.                       *)
(*                                                                         *)
(* Whatever goes wrong costs one of MaxFaults faults, the only bound of    *)
(* the module: behaviours have finitely many of them, as many as one       *)
(* chooses.                                                                *)
(***************************************************************************)
EXTENDS Integers, FiniteSetsExt

CONSTANTS Event,      \* ids of outbox rows; occurred_at orders them by <
          Worker,     \* replicas of the Orders service
          BatchSize,  \* OUTBOX_BATCH_SIZE
          MaxFaults,  \* how many things go wrong
          Nobody,     \* locked_by IS NULL
          Gone        \* the workerId of a process that has died

ASSUME OutboxAssumption ==
    /\ Event \subseteq Nat
    /\ BatchSize \in Nat \ {0}
    /\ MaxFaults \in Nat
    /\ IsFiniteSet(Worker)
    /\ Nobody \notin Worker /\ Gone \notin Worker /\ Nobody # Gone

VARIABLES
    rows,     \* the committed rows of outbox_events, by id
    mode,     \* where each publisher is
    batch,    \* the claimed events a publisher has not emitted yet
    current,  \* the event publishOne works on
    buffer,   \* copies in the RabbitMQ client of a process, by event
    queue,    \* copies in the durable queue, by event
    faults    \* how many things went wrong

vars == <<rows, mode, batch, current, buffer, queue, faults>>

Row == [published : BOOLEAN, owner : Worker \cup {Nobody, Gone},
        stale : BOOLEAN, due : BOOLEAN, attempts : Nat]

NewRow == [published |-> FALSE, owner |-> Nobody, stale |-> FALSE,
           due |-> TRUE, attempts |-> 0]

NoCopies == [e \in Event |-> 0]

Init ==
    /\ rows = [e \in {} |-> NewRow]
    /\ mode = [w \in Worker |-> "poll"]
    /\ batch = [w \in Worker |-> {}]
    /\ current \in [Worker -> Event]
    /\ buffer = [w \in Worker |-> NoCopies]
    /\ queue = NoCopies
    /\ faults = 0

Goto(w, label) == mode' = [mode EXCEPT ![w] = label]

Fault == faults < MaxFaults /\ faults' = faults + 1

-----------------------------------------------------------------------------
(* The table.                                                              *)

\* The Orders service commits an order with its outbox row.
Write(e) ==
    /\ e \notin DOMAIN rows
    /\ rows' = [f \in DOMAIN rows \cup {e} |-> IF f = e THEN NewRow ELSE rows[f]]
    /\ UNCHANGED <<mode, batch, current, buffer, queue, faults>>

\* Mutants of Candidates: leases are ignored, or never expire.
CandidatesDespiteLease ==
    {e \in DOMAIN rows : ~rows[e].published /\ rows[e].due}

CandidatesWithoutLease ==
    {e \in DOMAIN rows : ~rows[e].published /\ rows[e].due /\ rows[e].owner = Nobody}

\* The rows a claim may take: unpublished, due, and not leased for long.
Candidates ==
    {e \in DOMAIN rows : /\ ~rows[e].published
                         /\ rows[e].due
                         /\ rows[e].owner = Nobody \/ rows[e].stale}

\* ORDER BY occurred_at LIMIT: as many as the batch takes, the oldest first.
IsClaim(claim) ==
    /\ claim \subseteq Candidates
    /\ claim # {}
    /\ Cardinality(claim) <= BatchSize
    /\ \A e \in claim : \A f \in Candidates \ claim : e < f
    /\ Cardinality(claim) < BatchSize => claim = Candidates

\* The rows with those of a set leased to a worker from now on.
Leased(claim, w) ==
    [e \in DOMAIN rows |-> IF e \in claim
                           THEN [rows[e] EXCEPT !.owner = w, !.stale = FALSE,
                                                !.attempts = @ + 1]
                           ELSE rows[e]]

\* publishPending when nothing is being published: claimPending finds rows.
Claim(w) ==
    /\ mode[w] = "poll"
    /\ \E claim \in SUBSET Candidates :
          /\ IsClaim(claim)
          /\ rows' = Leased(claim, w)
          /\ batch' = [batch EXCEPT ![w] = claim]
    /\ Goto(w, "batch")
    /\ UNCHANGED <<current, buffer, queue, faults>>

\* The guard of markPublished and markFailed: the lease is still ours.
Owns(w, e) == rows[e].owner = w /\ ~rows[e].published

Published(w, e) ==
    IF Owns(w, e)
    THEN [rows EXCEPT ![e].published = TRUE, ![e].owner = Nobody, ![e].stale = FALSE]
    ELSE rows

\* Mutants of Released: the lease is kept, or whose it is does not matter.
ReleasedLater(w, e) ==
    IF Owns(w, e) THEN [rows EXCEPT ![e].due = FALSE] ELSE rows

ReleasedByAnyone(w, e) ==
    [rows EXCEPT ![e].owner = Nobody, ![e].stale = FALSE, ![e].due = FALSE]

Released(w, e) ==
    IF Owns(w, e)
    THEN [rows EXCEPT ![e].owner = Nobody, ![e].stale = FALSE, ![e].due = FALSE]
    ELSE rows

-----------------------------------------------------------------------------
(* publishOne.                                                             *)

\* emit: the message is handed to the client, and its confirm is awaited.
Emit(w) ==
    /\ mode[w] = "batch"
    /\ \E e \in batch[w] :
          /\ current' = [current EXCEPT ![w] = e]
          /\ batch' = [batch EXCEPT ![w] = @ \ {e}]
          /\ buffer' = [buffer EXCEPT ![w][e] = @ + 1]
    /\ Goto(w, "emit")
    /\ UNCHANGED <<rows, queue, faults>>

\* A copy leaves the client for the queue.
Deliver(w, e) ==
    /\ buffer[w][e] > 0
    /\ buffer' = [buffer EXCEPT ![w][e] = @ - 1]
    /\ queue' = [queue EXCEPT ![e] = @ + 1]

\* The broker accepts the message that is awaited and confirms it.
Confirm(w) ==
    /\ mode[w] = "emit"
    /\ Deliver(w, current[w])
    /\ Goto(w, "mark")
    /\ UNCHANGED <<rows, batch, current, faults>>

\* The copies whose confirm publishOne waits for.
Awaited(w, e) == IF mode[w] = "emit" /\ current[w] = e THEN 1 ELSE 0

\* The broker accepts and confirms a message nobody awaits any more: the
\* publisher has given up on it and the client had kept it.
AcceptUnheard(w, e) ==
    /\ buffer[w][e] > Awaited(w, e)
    /\ Deliver(w, e)
    /\ UNCHANGED <<rows, mode, batch, current, faults>>

\* The broker accepts a message and the connection closes before its confirm
\* comes.  What is not confirmed the client keeps, and sends once more when it
\* has a connection again: the copy in the queue gets company.
LoseConfirm(w, e) ==
    /\ buffer[w][e] > 0
    /\ Fault
    /\ queue' = [queue EXCEPT ![e] = @ + 1]
    /\ UNCHANGED <<rows, mode, batch, current, buffer>>

\* The client reports an error and drops the message.
Reject(w) ==
    /\ mode[w] = "emit"
    /\ buffer[w][current[w]] > 0
    /\ Fault
    /\ buffer' = [buffer EXCEPT ![w][current[w]] = @ - 1]
    /\ Goto(w, "failed")
    /\ UNCHANGED <<rows, batch, current, queue>>

\* Mutant of TimeOut: it is taken for a confirm.
TimeOutTakenForConfirm(w) ==
    /\ mode[w] = "emit"
    /\ Fault
    /\ Goto(w, "mark")
    /\ UNCHANGED <<rows, batch, current, buffer, queue>>

\* No confirm within OUTBOX_PUBLISH_TIMEOUT_MS; the client keeps the message.
TimeOut(w) ==
    /\ mode[w] = "emit"
    /\ Fault
    /\ Goto(w, "failed")
    /\ UNCHANGED <<rows, batch, current, buffer, queue>>

\* The loop of publishPending goes on, or the next poll may claim.
GoOn(w) == Goto(w, IF batch[w] = {} THEN "poll" ELSE "batch")

MarkPublished(w) ==
    /\ mode[w] = "mark"
    /\ rows' = Published(w, current[w])
    /\ GoOn(w)
    /\ UNCHANGED <<batch, current, buffer, queue, faults>>

\* markPublished fails, and may have been done: the catch marks a failure.
MarkError(w) ==
    /\ mode[w] = "mark"
    /\ Fault
    /\ rows' \in {rows, Published(w, current[w])}
    /\ Goto(w, "failed")
    /\ UNCHANGED <<batch, current, buffer, queue>>

\* markFailed: the lease is given up and the row waits for its retry delay.
MarkFailed(w) ==
    /\ mode[w] = "failed"
    /\ rows' = Released(w, current[w])
    /\ GoOn(w)
    /\ UNCHANGED <<batch, current, buffer, queue, faults>>

-----------------------------------------------------------------------------
(* Time, and processes.                                                    *)

\* next_attempt_at passes.
BecomeDue(e) ==
    /\ ~rows[e].due
    /\ rows' = [rows EXCEPT ![e].due = TRUE]
    /\ UNCHANGED <<mode, batch, current, buffer, queue, faults>>

\* OUTBOX_LOCK_TIMEOUT_MS passes.  That a lease goes stale while its owner is
\* alive is a fault.
GoStale(e) ==
    /\ rows[e].owner # Nobody
    /\ ~rows[e].stale
    /\ IF rows[e].owner = Gone THEN UNCHANGED faults ELSE Fault
    /\ rows' = [rows EXCEPT ![e].stale = TRUE]
    /\ UNCHANGED <<mode, batch, current, buffer, queue>>

\* The process dies at any point: killed, or by the rejection of a claim or
\* of markFailed, which nothing handles.  The next process draws a new
\* workerId, so the leases of this one have an owner that never comes back.
Crash(w) ==
    /\ mode[w] # "down"
    /\ Fault
    /\ Goto(w, "down")
    /\ rows' = [e \in DOMAIN rows |-> IF rows[e].owner = w
                                      THEN [rows[e] EXCEPT !.owner = Gone]
                                      ELSE rows[e]]
    /\ batch' = [batch EXCEPT ![w] = {}]
    /\ buffer' = [buffer EXCEPT ![w] = NoCopies]
    /\ UNCHANGED <<current, queue>>

\* The container is restarted.
Restart(w) ==
    /\ mode[w] = "down"
    /\ Goto(w, "poll")
    /\ UNCHANGED <<rows, batch, current, buffer, queue, faults>>

-----------------------------------------------------------------------------

Publish(w) ==
    Claim(w) \/ Emit(w) \/ Confirm(w) \/ TimeOut(w) \/ MarkPublished(w) \/ MarkFailed(w)

Next ==
    \/ \E e \in Event : Write(e)
    \/ \E e \in DOMAIN rows : BecomeDue(e) \/ GoStale(e)
    \/ \E w \in Worker :
          \/ Publish(w)
          \/ Reject(w)
          \/ MarkError(w)
          \/ \E e \in Event : AcceptUnheard(w, e) \/ LoseConfirm(w, e)
          \/ Crash(w)
          \/ Restart(w)

Spec == Init /\ [][Next]_vars

\* Publishers run, restart and poll again; time passes; what the client has
\* it sends.  Faults are not forced, and there are finitely many.
Fairness ==
    /\ \A w \in Worker :
          /\ WF_vars(Claim(w)) /\ WF_vars(Emit(w)) /\ WF_vars(Confirm(w))
          /\ WF_vars(MarkPublished(w)) /\ WF_vars(MarkFailed(w))
          /\ WF_vars(Restart(w))
    /\ \A e \in Event :
          /\ WF_vars(e \in DOMAIN rows /\ BecomeDue(e))
          /\ WF_vars(e \in DOMAIN rows /\ rows[e].owner = Gone /\ GoStale(e))

-----------------------------------------------------------------------------
(* Properties.                                                             *)

\* The types of the variables.
TypeOK ==
    /\ DOMAIN rows \subseteq Event
    /\ \A e \in DOMAIN rows : rows[e] \in Row
    /\ mode \in [Worker -> {"poll", "batch", "emit", "mark", "failed", "down"}]
    /\ batch \in [Worker -> SUBSET DOMAIN rows]
    /\ current \in [Worker -> Event]
    /\ buffer \in [Worker -> [Event -> Nat]]
    /\ queue \in [Event -> Nat]
    /\ faults \in 0 .. MaxFaults

\* A row is marked published only when the broker has accepted its message,
\* whichever worker marks it and however late.
PublishedWasAccepted == \A e \in DOMAIN rows : rows[e].published => queue[e] > 0

\* The copies a worker answers for: in its client, or still to be emitted.
Held(w, e) == buffer[w][e] + IF e \in batch[w] THEN 1 ELSE 0

\* An event is claimed again, and its message sent again, only because
\* something went wrong, and once more at most for each thing that did: a
\* message refused, a confirm late or lost with its connection, a mark that
\* failed, a publisher too slow for its lease or dead.  The copies in the
\* queue, in the clients and still to be emitted all count.
ResentOnlyAfterFaults ==
    \A e \in DOMAIN rows :
        /\ rows[e].attempts <= 1 + faults
        /\ queue[e] + SumFunction([w \in Worker |-> Held(w, e)]) <= 1 + faults

\* A published row is never touched again: not by a worker that lost its
\* lease and ends late, not by a later claim.
PublishedIsFinal ==
    [][\A e \in DOMAIN rows : rows[e].published => rows'[e] = rows[e]]_vars

\* A fresh lease ends by its owner's own hand and in no other way: when the
\* owner has tried to send the event and marks it, or when the owner dies.
\* Another worker can neither take the event nor, ending late with a lease it
\* has lost, give it up for the owner.
FreshLeaseKept ==
    [][\A w \in Worker : \A e \in DOMAIN rows :
          rows[e].owner = w /\ ~rows[e].stale /\ rows'[e].owner # w =>
              \/ current[w] = e /\ mode[w] \in {"mark", "failed"} /\ mode'[w] # mode[w]
              \/ mode'[w] = "down" /\ mode[w] # "down"]_vars

\* A lease is held for work to be done: a worker that owns a row will still
\* emit its event or is about it.  A lease that outlived its work, through a
\* lost confirm, a failed mark or a restart, would keep the event from all
\* workers until it runs out.
LeasesAreWorkedOn ==
    \A w \in Worker : \A e \in DOMAIN rows :
        rows[e].owner = w =>
            \/ e \in batch[w]
            \/ current[w] = e /\ mode[w] \in {"emit", "mark", "failed"}

\* Every committed event is eventually published, whatever happens to the
\* publishers and to single messages, once things stop going wrong.
EveryEventPublished ==
    \A e \in Event : e \in DOMAIN rows ~> e \in DOMAIN rows /\ rows[e].published
=============================================================================
