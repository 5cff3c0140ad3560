---------------------------- MODULE DeliveryProofs ----------------------------
(***************************************************************************)
(* Proofs about Outbox and Delivery: for any workers, consumers and        *)
(* events, any batch size and prefetch count, and any number of faults and *)
(* lost channels.                                                          *)
(***************************************************************************)
EXTENDS Delivery, Sums

-----------------------------------------------------------------------------
(* OUTBOX.                                                                 *)

\* The assumption on the constants, one fact for each of its uses.
LEMMA Constants ==
    /\ MaxFaults \in Nat
    /\ Nobody \notin Worker /\ Gone \notin Worker /\ Nobody # Gone
BY OutboxAssumption DEF OutboxAssumption

-----------------------------------------------------------------------------
(* The inductive invariant.                                                *)

RowsOK == \A e \in DOMAIN rows : rows[e] \in Row

\* A published row has no lease and waits for nothing; a leased row was due
\* when it was claimed and nobody delays it while the lease lasts.
Leases ==
    \A e \in DOMAIN rows :
        /\ rows[e].published => rows[e].owner = Nobody /\ rows[e].due
        /\ rows[e].owner # Nobody => rows[e].due

QueueOK == queue \in [Event -> Nat]

PublishersOK ==
    /\ mode \in [Worker -> {"poll", "batch", "emit", "mark", "failed", "down"}]
    /\ current \in [Worker -> Event]
    /\ DOMAIN rows \subseteq Event
    /\ batch \in [Worker -> SUBSET DOMAIN rows]

\* A publisher that is about to mark its event has heard the broker accept it.
Heard == \A w \in Worker : mode[w] = "mark" => queue[current[w]] > 0

\* What a publisher works on is a row of the table.
AtWork ==
    \A w \in Worker :
        mode[w] \in {"emit", "mark", "failed"} => current[w] \in DOMAIN rows

OInv ==
    /\ RowsOK
    /\ Leases
    /\ QueueOK
    /\ PublishersOK
    /\ Heard
    /\ AtWork
    /\ PublishedWasAccepted

-----------------------------------------------------------------------------
(* The rows a step leaves.                                                 *)

\* What a worker, the clock or a crash makes of a row keeps its type and its
\* place in Leases.
RowInv(row) ==
    /\ row \in Row
    /\ row.published => row.owner = Nobody /\ row.due
    /\ row.owner # Nobody => row.due

\* The two parts of the invariant that speak of one row at a time.
LEMMA RowsInv == RowsOK /\ Leases <=> \A e \in DOMAIN rows : RowInv(rows[e])
BY DEF RowsOK, Leases, RowInv

\* A committed event starts free, due and unpublished.
LEMMA NewRowInv == RowInv(NewRow)
BY Zenon DEF RowInv, NewRow, Row

\* The row of a claimed event.
LEMMA LeasedRow ==
    ASSUME NEW row, RowInv(row), ~row.published, row.due, NEW w \in Worker
    PROVE  RowInv([row EXCEPT !.owner = w, !.stale = FALSE, !.attempts = @ + 1])
<1> DEFINE leased == [row EXCEPT !.owner = w, !.stale = FALSE, !.attempts = row.attempts + 1]
<1>1. row.attempts + 1 \in Nat
  BY DEF RowInv, Row
<1>2. leased \in Row
  BY <1>1, Zenon DEF RowInv, Row
<1>3. leased.published = row.published /\ leased.due = row.due
  BY DEF RowInv, Row
<1> QED
  BY <1>2, <1>3 DEF RowInv

\* The row markPublished writes.
LEMMA PublishedRow ==
    ASSUME NEW row, RowInv(row), row.owner # Nobody
    PROVE  RowInv([row EXCEPT !.published = TRUE, !.owner = Nobody, !.stale = FALSE])
<1> DEFINE done == [row EXCEPT !.published = TRUE, !.owner = Nobody, !.stale = FALSE]
<1>1. done \in Row
  BY Zenon DEF RowInv, Row
<1>2. done.owner = Nobody /\ done.due = row.due
  BY DEF RowInv, Row
<1> QED
  BY <1>1, <1>2 DEF RowInv

\* The row markFailed writes.
LEMMA ReleasedRow ==
    ASSUME NEW row, RowInv(row), ~row.published
    PROVE  RowInv([row EXCEPT !.owner = Nobody, !.stale = FALSE, !.due = FALSE])
<1> DEFINE free == [row EXCEPT !.owner = Nobody, !.stale = FALSE, !.due = FALSE]
<1>1. free \in Row
  BY Zenon DEF RowInv, Row
<1>2. free.owner = Nobody /\ free.published = row.published
  BY DEF RowInv, Row
<1> QED
  BY <1>1, <1>2 DEF RowInv

\* A row whose retry delay has passed.
LEMMA DueRow ==
    ASSUME NEW row, RowInv(row)
    PROVE  RowInv([row EXCEPT !.due = TRUE])
<1> DEFINE due == [row EXCEPT !.due = TRUE]
<1>1. due \in Row
  BY Zenon DEF RowInv, Row
<1>2. due.owner = row.owner /\ due.published = row.published /\ due.due = TRUE
  BY DEF RowInv, Row
<1> QED
  BY <1>1, <1>2 DEF RowInv

\* A row whose lease has run out.
LEMMA StaleRow ==
    ASSUME NEW row, RowInv(row)
    PROVE  RowInv([row EXCEPT !.stale = TRUE])
<1> DEFINE old == [row EXCEPT !.stale = TRUE]
<1>1. old \in Row
  BY Zenon DEF RowInv, Row
<1>2. old.owner = row.owner /\ old.published = row.published /\ old.due = row.due
  BY DEF RowInv, Row
<1> QED
  BY <1>1, <1>2 DEF RowInv

\* A row whose owner has died.
LEMMA OrphanedRow ==
    ASSUME NEW row, RowInv(row), row.owner \in Worker
    PROVE  RowInv([row EXCEPT !.owner = Gone])
<1> DEFINE gone == [row EXCEPT !.owner = Gone]
<1>1. gone \in Row
  BY Zenon DEF RowInv, Row
<1>2. gone.owner = Gone /\ gone.published = row.published /\ gone.due = row.due
  BY DEF RowInv, Row
<1>3. row.owner # Nobody
  BY Constants
<1> QED
  BY <1>1, <1>2, <1>3 DEF RowInv
-----------------------------------------------------------------------------
(* What each kind of step makes of the table.                              *)

\* A table whose rows keep RowInv, are those there were, and are published
\* only if they were or the broker has accepted their message.
Kept(table) ==
    /\ DOMAIN table = DOMAIN rows
    /\ \A e \in DOMAIN rows :
          /\ RowInv(table[e])
          /\ table[e].published => queue[e] > 0
          /\ rows[e].published => table[e] = rows[e]

\* A step that leaves the table alone.
LEMMA SameKept == OInv => Kept(rows)
BY RowsInv DEF OInv, Kept, PublishedWasAccepted

\* A claim takes only unpublished rows that are due.
LEMMA LeasedKept ==
    ASSUME OInv, NEW w \in Worker, NEW claim \in SUBSET Candidates
    PROVE  Kept(Leased(claim, w))
<1> DEFINE table == Leased(claim, w)
<1>1. DOMAIN table = DOMAIN rows
  BY DEF Leased
<1>2. ASSUME NEW e \in DOMAIN rows, e \notin claim PROVE table[e] = rows[e]
  BY <1>2 DEF Leased
<1>3. ASSUME NEW e \in DOMAIN rows, e \in claim
      PROVE  /\ RowInv(table[e])
             /\ ~table[e].published
             /\ ~rows[e].published
  <2>1. ~rows[e].published /\ rows[e].due
    BY <1>3 DEF Candidates
  <2>2. table[e] = [rows[e] EXCEPT !.owner = w, !.stale = FALSE, !.attempts = @ + 1]
    BY <1>3 DEF Leased
  <2>3. RowInv(rows[e])
    BY RowsInv DEF OInv
  <2>4. RowInv(table[e])
    BY <2>1, <2>2, <2>3, LeasedRow
  <2>5. table[e].published = rows[e].published
    BY <2>2, <2>3 DEF RowInv, Row
  <2> QED
    BY <2>1, <2>4, <2>5
<1>4. ASSUME NEW e \in DOMAIN rows PROVE RowInv(rows[e]) /\ (rows[e].published => queue[e] > 0)
  BY RowsInv DEF OInv, PublishedWasAccepted
<1> HIDE DEF table
<1>5. ASSUME NEW e \in DOMAIN rows
      PROVE  /\ RowInv(table[e])
             /\ table[e].published => queue[e] > 0
             /\ rows[e].published => table[e] = rows[e]
  <2>1. CASE e \notin claim
    BY <1>2, <1>4, <2>1
  <2>2. CASE e \in claim
    BY <1>3, <2>2
  <2> QED
    BY <2>1, <2>2
<1>6. Kept(table)
  BY <1>1, <1>5 DEF Kept
<1> QED
  BY <1>6 DEF table

\* Marking changes a row only under its owner's lease.
LEMMA PublishedKept ==
    ASSUME OInv, NEW w \in Worker, NEW e \in DOMAIN rows, queue[e] > 0
    PROVE  Kept(Published(w, e))
<1>1. CASE ~Owns(w, e)
  <2>1. Published(w, e) = rows
    BY <1>1 DEF Published
  <2> QED
    BY <2>1, SameKept
<1>2. CASE Owns(w, e)
  <2> DEFINE table == Published(w, e)
  <2>1. /\ DOMAIN table = DOMAIN rows
        /\ \A f \in DOMAIN rows : f # e => table[f] = rows[f]
        /\ table[e] = [rows[e] EXCEPT !.published = TRUE, !.owner = Nobody, !.stale = FALSE]
    BY <1>2 DEF Published
  <2>2. RowInv(rows[e]) /\ rows[e].owner = w /\ ~rows[e].published
    BY <1>2, RowsInv DEF OInv, Owns
  <2>3. RowInv(table[e])
    BY <2>1, <2>2, PublishedRow, Constants
  <2>4. table[e].owner = Nobody
    BY <2>1, <2>2 DEF RowInv, Row
  <2>5. Kept(rows)
    BY SameKept
  <2> HIDE DEF table
  <2>6. Kept(table)
    BY <2>1, <2>2, <2>3, <2>4, <2>5 DEF Kept
  <2> QED
    BY <2>6 DEF table
<1> QED
  BY <1>1, <1>2

\* So does releasing.
LEMMA ReleasedKept ==
    ASSUME OInv, NEW w \in Worker, NEW e \in DOMAIN rows
    PROVE  Kept(Released(w, e))
<1>1. CASE ~Owns(w, e)
  <2>1. Released(w, e) = rows
    BY <1>1 DEF Released
  <2> QED
    BY <2>1, SameKept
<1>2. CASE Owns(w, e)
  <2> DEFINE table == Released(w, e)
  <2>1. /\ DOMAIN table = DOMAIN rows
        /\ \A f \in DOMAIN rows : f # e => table[f] = rows[f]
        /\ table[e] = [rows[e] EXCEPT !.owner = Nobody, !.stale = FALSE, !.due = FALSE]
    BY <1>2 DEF Released
  <2>2. RowInv(rows[e]) /\ ~rows[e].published
    BY <1>2, RowsInv DEF OInv, Owns
  <2>3. RowInv(table[e])
    BY <2>1, <2>2, ReleasedRow
  <2>4. table[e].owner = Nobody /\ ~table[e].published
    BY <2>1, <2>2 DEF RowInv, Row
  <2>5. Kept(rows)
    BY SameKept
  <2> HIDE DEF table
  <2>6. Kept(table)
    BY <2>1, <2>2, <2>3, <2>4, <2>5 DEF Kept
  <2> QED
    BY <2>6 DEF table
<1> QED
  BY <1>1, <1>2

\* A retry delay passes.
LEMMA DueKept ==
    ASSUME OInv, NEW e \in DOMAIN rows, BecomeDue(e)
    PROVE  Kept(rows')
<1>1. /\ DOMAIN rows' = DOMAIN rows
      /\ \A f \in DOMAIN rows : f # e => rows'[f] = rows[f]
      /\ rows'[e] = [rows[e] EXCEPT !.due = TRUE]
  BY DEF BecomeDue
<1>2. RowInv(rows[e]) /\ ~rows[e].due
  BY RowsInv DEF OInv, BecomeDue
<1>3. RowInv(rows'[e])
  BY <1>1, <1>2, DueRow
<1>4. rows'[e].owner = rows[e].owner /\ rows'[e].published = rows[e].published
  BY <1>1, <1>2 DEF RowInv, Row
<1>5. Kept(rows)
  BY SameKept
<1> QED
  BY <1>1, <1>2, <1>3, <1>4, <1>5 DEF Kept, RowInv

\* A lease runs out.
LEMMA StaleKept ==
    ASSUME OInv, NEW e \in DOMAIN rows, GoStale(e)
    PROVE  Kept(rows')
<1>1. /\ DOMAIN rows' = DOMAIN rows
      /\ \A f \in DOMAIN rows : f # e => rows'[f] = rows[f]
      /\ rows'[e] = [rows[e] EXCEPT !.stale = TRUE]
  BY DEF GoStale
<1>2. RowInv(rows[e]) /\ rows[e].owner # Nobody
  BY RowsInv DEF OInv, GoStale
<1>3. RowInv(rows'[e])
  BY <1>1, <1>2, StaleRow
<1>4. rows'[e].owner = rows[e].owner /\ rows'[e].published = rows[e].published
  BY <1>1, <1>2 DEF RowInv, Row
<1>5. Kept(rows)
  BY SameKept
<1> QED
  BY <1>1, <1>2, <1>3, <1>4, <1>5 DEF Kept, RowInv

\* The leases of a dead process have an owner that never comes back.
LEMMA CrashKept ==
    ASSUME OInv, NEW w \in Worker, Crash(w)
    PROVE  Kept(rows')
<1>1. DOMAIN rows' = DOMAIN rows
  BY DEF Crash
<1>2. ASSUME NEW e \in DOMAIN rows, rows[e].owner # w PROVE rows'[e] = rows[e]
  BY <1>2 DEF Crash
<1>3. ASSUME NEW e \in DOMAIN rows, rows[e].owner = w
      PROVE  RowInv(rows'[e]) /\ rows'[e].owner = Gone /\ ~rows'[e].published
             /\ ~rows[e].published
  <2>1. rows'[e] = [rows[e] EXCEPT !.owner = Gone]
    BY <1>3 DEF Crash
  <2>2. RowInv(rows[e]) /\ ~rows[e].published
    BY <1>3, RowsInv, Constants DEF OInv, RowInv
  <2>3. RowInv(rows'[e])
    BY <1>3, <2>1, <2>2, OrphanedRow
  <2>4. rows'[e].owner = Gone /\ rows'[e].published = rows[e].published
    BY <2>1, <2>2 DEF RowInv, Row
  <2> QED
    BY <2>2, <2>3, <2>4
<1>4. Kept(rows)
  BY SameKept
<1> QED
  BY <1>1, <1>2, <1>3, <1>4 DEF Kept

-----------------------------------------------------------------------------
(* What the actions make of the table and of the queue.                    *)

\* Of the rows a step finds none is lost, and a published one stays as it is.
RowsKept ==
    /\ DOMAIN rows \subseteq DOMAIN rows'
    /\ \A e \in DOMAIN rows :
          rows[e].published => rows'[e] = rows[e]

\* The part of the invariant about the table, and RowsKept.
TableKept == RowsKept /\ RowsOK' /\ Leases' /\ QueueOK' /\ PublishedWasAccepted'

\* The queue only grows: taking messages is the consumers' business.
QueueGrows == queue' \in [Event -> Nat] /\ \A e \in Event : queue'[e] >= queue[e]

\* The broker accepts a copy.
LEMMA DeliverGrows ==
    ASSUME OInv, NEW w \in Worker, NEW e \in Event, Deliver(w, e)
    PROVE  QueueGrows /\ queue'[e] > 0
BY DEF Deliver, OInv, QueueOK, QueueGrows

\* The queue is left alone.
LEMMA SameGrows == ASSUME OInv, UNCHANGED queue PROVE QueueGrows
BY DEF OInv, QueueOK, QueueGrows

\* A step on the rows there are.
LEMMA TableStep ==
    ASSUME OInv, QueueGrows, Kept(rows')
    PROVE  TableKept
<1>1. RowsKept
  BY DEF Kept, RowsKept
<1>2. \A e \in DOMAIN rows' : RowInv(rows'[e])
  BY DEF Kept
<1>3. RowsOK' /\ Leases'
  BY <1>2 DEF RowsOK, Leases, RowInv
<1>4. QueueOK'
  BY DEF QueueGrows, QueueOK
<1>5. ASSUME NEW e \in DOMAIN rows', rows'[e].published PROVE queue'[e] > 0
  BY <1>5 DEF Kept, QueueGrows, OInv, PublishersOK, QueueOK
<1> QED
  BY <1>1, <1>3, <1>4, <1>5 DEF TableKept, PublishedWasAccepted

\* A step that adds a row.
LEMMA WriteStep ==
    ASSUME OInv, NEW e \in Event, Write(e)
    PROVE  TableKept
<1>1. /\ DOMAIN rows' = DOMAIN rows \cup {e}
      /\ rows'[e] = NewRow
      /\ \A f \in DOMAIN rows : rows'[f] = rows[f]
      /\ queue' = queue
  BY DEF Write
<1>2. RowsKept
  BY <1>1 DEF RowsKept
<1>3. \A f \in DOMAIN rows' : RowInv(rows'[f])
  BY <1>1, NewRowInv, RowsInv DEF OInv
<1>4. RowsOK' /\ Leases'
  BY <1>3 DEF RowsOK, Leases, RowInv
<1>5. QueueOK'
  BY <1>1 DEF OInv, QueueOK
<1>6. ~NewRow.published
  BY DEF NewRow
<1>7. PublishedWasAccepted'
  BY <1>1, <1>6 DEF OInv, PublishedWasAccepted
<1> QED
  BY <1>2, <1>4, <1>5, <1>7 DEF TableKept

\* The publishers' part of the invariant.
PubInv == PublishersOK /\ Heard /\ AtWork

-----------------------------------------------------------------------------
(* Every step keeps the invariant.                                         *)

\* The table is empty and every publisher polls.
LEMMA InitInv == Init => OInv
<1> SUFFICES ASSUME Init PROVE OInv
  OBVIOUS
<1>1. DOMAIN rows = {}
  BY DEF Init
<1>2. RowsOK /\ Leases /\ PublishedWasAccepted
  BY <1>1 DEF RowsOK, Leases, PublishedWasAccepted
<1>3. QueueOK
  BY DEF Init, QueueOK, NoCopies
<1>4. PublishersOK
  BY <1>1 DEF Init, PublishersOK
<1>5. \A w \in Worker : mode[w] = "poll"
  BY DEF Init
<1> QED
  BY <1>2, <1>3, <1>4, <1>5 DEF OInv, Heard, AtWork

\* A worker goes somewhere, with nothing to remember there.
LEMMA GotoInv ==
    ASSUME OInv, QueueGrows, RowsKept, DOMAIN rows' \subseteq Event,
           NEW w \in Worker,
           NEW label \in {"poll", "batch", "emit", "mark", "failed", "down"},
           Goto(w, label),
           batch' \in [Worker -> SUBSET DOMAIN rows'],
           current' \in [Worker -> Event],
           \A v \in Worker : v # w => current'[v] = current[v],
           label \in {"emit", "mark", "failed"} => current'[w] \in DOMAIN rows',
           label = "mark" => queue'[current'[w]] > 0
    PROVE  PubInv'
<1>1. mode' = [mode EXCEPT ![w] = label]
  BY DEF Goto
<1>2. mode \in [Worker -> {"poll", "batch", "emit", "mark", "failed", "down"}]
  BY DEF OInv, PublishersOK
<1>3. mode'[w] = label /\ \A v \in Worker : v # w => mode'[v] = mode[v]
  BY <1>1, <1>2
<1>4. PublishersOK'
  BY <1>1, <1>2 DEF PublishersOK
<1>5. AtWork'
  BY <1>3 DEF OInv, AtWork, RowsKept
<1>6. ASSUME NEW v \in Worker, mode'[v] = "mark" PROVE queue'[current'[v]] > 0
  <2>1. CASE v = w
    BY <1>3, <1>6, <2>1
  <2>2. CASE v # w
    <3>1. queue[current[v]] > 0 /\ current[v] \in Event /\ current'[v] = current[v]
      BY <1>3, <1>6, <2>2 DEF OInv, Heard, PublishersOK
    <3>2. /\ queue[current[v]] \in Nat /\ queue'[current[v]] \in Nat
          /\ queue'[current[v]] >= queue[current[v]]
      BY <3>1 DEF QueueGrows, OInv, QueueOK
    <3> QED
      BY <3>1, <3>2
  <2> QED
    BY <2>1, <2>2
<1> QED
  BY <1>4, <1>5, <1>6 DEF PubInv, Heard

\* No worker does anything.
LEMMA StillInv ==
    ASSUME OInv, QueueGrows, RowsKept, DOMAIN rows' \subseteq Event,
           UNCHANGED <<mode, batch, current>>
    PROVE  PubInv'
<1>1. PublishersOK'
  BY DEF OInv, PublishersOK, RowsKept
<1>2. AtWork'
  BY DEF OInv, AtWork, RowsKept
<1>3. ASSUME NEW v \in Worker, mode[v] = "mark" PROVE queue'[current[v]] > 0
  <2>1. queue[current[v]] > 0 /\ current[v] \in Event
    BY <1>3 DEF OInv, Heard, PublishersOK
  <2>2. /\ queue[current[v]] \in Nat /\ queue'[current[v]] \in Nat
        /\ queue'[current[v]] >= queue[current[v]]
    BY <2>1 DEF QueueGrows, OInv, QueueOK
  <2> QED
    BY <2>1, <2>2
<1> QED
  BY <1>1, <1>2, <1>3 DEF PubInv, Heard

\* A step on the rows there are adds none.
LEMMA KeptEvents ==
    ASSUME OInv, Kept(rows')
    PROVE  DOMAIN rows' = DOMAIN rows /\ DOMAIN rows' \subseteq Event
BY DEF Kept, OInv, PublishersOK

\* A step after which the batches and the events at work are those there were.
LEMMA Typed ==
    ASSUME OInv, Kept(rows')
    PROVE  /\ batch \in [Worker -> SUBSET DOMAIN rows']
           /\ current \in [Worker -> Event]
           /\ \A w \in Worker : current[w] \in Event
           /\ \A w \in Worker : mode[w] \in {"emit", "mark", "failed"} =>
                 current[w] \in DOMAIN rows'
BY KeptEvents DEF OInv, PublishersOK, AtWork

\* What a step keeps: the table's part, then the publishers'.
StepKept == TableKept /\ PubInv'

\* A claim fills the batch with rows of the table.
LEMMA ClaimStep == ASSUME OInv, NEW w \in Worker, Claim(w) PROVE StepKept
<1>1. PICK claim \in SUBSET Candidates :
          /\ rows' = Leased(claim, w)
          /\ batch' = [batch EXCEPT ![w] = claim]
  BY DEF Claim
<1>2. Goto(w, "batch") /\ UNCHANGED <<current, queue>>
  BY DEF Claim
<1>3. Kept(rows') /\ QueueGrows
  BY <1>1, <1>2, LeasedKept, SameGrows
<1>4. TableKept
  BY <1>3, TableStep
<1>5. batch' \in [Worker -> SUBSET DOMAIN rows']
  BY <1>1, <1>3, Typed, KeptEvents DEF Candidates
<1>6. PubInv'
  BY <1>2, <1>3, <1>4, <1>5, Typed, KeptEvents, GotoInv DEF TableKept
<1> QED
  BY <1>4, <1>6 DEF StepKept

\* An event of the batch becomes the one at work.
LEMMA EmitStep == ASSUME OInv, NEW w \in Worker, Emit(w) PROVE StepKept
<1>1. PICK e \in batch[w] :
          /\ current' = [current EXCEPT ![w] = e]
          /\ batch' = [batch EXCEPT ![w] = @ \ {e}]
  BY DEF Emit
<1>2. Goto(w, "emit") /\ UNCHANGED <<rows, queue>>
  BY DEF Emit
<1>3. Kept(rows') /\ QueueGrows
  BY <1>2, SameKept, SameGrows
<1>4. TableKept
  BY <1>3, TableStep
<1>5. e \in DOMAIN rows' /\ e \in Event
  BY <1>2 DEF OInv, PublishersOK
<1>6. /\ batch' \in [Worker -> SUBSET DOMAIN rows']
      /\ current' \in [Worker -> Event]
      /\ current'[w] = e
      /\ \A v \in Worker : v # w => current'[v] = current[v]
  BY <1>1, <1>3, <1>5, Typed
<1>7. PubInv'
  BY <1>2, <1>3, <1>4, <1>5, <1>6, KeptEvents, GotoInv DEF TableKept
<1> QED
  BY <1>4, <1>7 DEF StepKept

\* The confirm is heard after the queue has the message.
LEMMA ConfirmStep == ASSUME OInv, NEW w \in Worker, Confirm(w) PROVE StepKept
<1>1. /\ mode[w] = "emit"
      /\ Deliver(w, current[w])
      /\ Goto(w, "mark")
      /\ UNCHANGED <<rows, batch, current>>
  BY DEF Confirm
<1>2. Kept(rows')
  BY <1>1, SameKept
<1>3. QueueGrows /\ queue'[current[w]] > 0
  BY <1>1, <1>2, Typed, DeliverGrows
<1>4. TableKept
  BY <1>2, <1>3, TableStep
<1>5. PubInv'
  BY <1>1, <1>2, <1>3, <1>4, Typed, KeptEvents, GotoInv DEF TableKept
<1> QED
  BY <1>4, <1>5 DEF StepKept

\* A message is accepted that nobody awaits, or its confirm is lost.
LEMMA AcceptStep ==
    ASSUME OInv, NEW w \in Worker, NEW e \in Event, AcceptUnheard(w, e) \/ LoseConfirm(w, e)
    PROVE  StepKept
<1>1. /\ queue' = [queue EXCEPT ![e] = @ + 1]
      /\ UNCHANGED <<rows, mode, batch, current>>
  BY DEF AcceptUnheard, Deliver, LoseConfirm
<1>2. Kept(rows') /\ QueueGrows
  BY <1>1, SameKept DEF OInv, QueueOK, QueueGrows
<1>3. TableKept
  BY <1>2, TableStep
<1>4. PubInv'
  BY <1>1, <1>2, <1>3, KeptEvents, StillInv DEF TableKept
<1> QED
  BY <1>3, <1>4 DEF StepKept

\* The message is given up: rejected by the client, or not confirmed in time.
LEMMA GiveUpStep ==
    ASSUME OInv, NEW w \in Worker, Reject(w) \/ TimeOut(w)
    PROVE  StepKept
<1>1. /\ mode[w] = "emit"
      /\ Goto(w, "failed")
      /\ UNCHANGED <<rows, batch, current, queue>>
  BY DEF Reject, TimeOut
<1>2. Kept(rows') /\ QueueGrows
  BY <1>1, SameKept, SameGrows
<1>3. TableKept
  BY <1>2, TableStep
<1>4. PubInv'
  BY <1>1, <1>2, <1>3, Typed, KeptEvents, GotoInv DEF TableKept
<1> QED
  BY <1>3, <1>4 DEF StepKept

\* The row is marked or released and the loop goes on.
LEMMA MarkStep ==
    ASSUME OInv, NEW w \in Worker, MarkPublished(w) \/ MarkFailed(w)
    PROVE  StepKept
<1>1. /\ GoOn(w)
      /\ UNCHANGED <<batch, current, queue>>
  BY DEF MarkPublished, MarkFailed
<1>2. /\ current[w] \in DOMAIN rows
      /\ MarkPublished(w) => queue[current[w]] > 0
  BY DEF MarkPublished, MarkFailed, OInv, AtWork, Heard
<1>3. Kept(rows')
  BY <1>2, PublishedKept, ReleasedKept DEF MarkPublished, MarkFailed
<1>4. QueueGrows
  BY <1>1, SameGrows
<1>5. TableKept
  BY <1>3, <1>4, TableStep
<1>6. \E label \in {"poll", "batch"} : Goto(w, label)
  BY <1>1 DEF GoOn
<1>7. PubInv'
  BY <1>1, <1>3, <1>4, <1>5, <1>6, Typed, KeptEvents, GotoInv DEF TableKept
<1> QED
  BY <1>5, <1>7 DEF StepKept

\* markPublished rejects, done or not.
LEMMA MarkErrorStep == ASSUME OInv, NEW w \in Worker, MarkError(w) PROVE StepKept
<1>1. /\ mode[w] = "mark"
      /\ rows' \in {rows, Published(w, current[w])}
      /\ Goto(w, "failed")
      /\ UNCHANGED <<batch, current, queue>>
  BY DEF MarkError
<1>2. current[w] \in DOMAIN rows /\ queue[current[w]] > 0
  BY <1>1 DEF OInv, AtWork, Heard
<1>3. Kept(rows')
  BY <1>1, <1>2, PublishedKept, SameKept
<1>4. QueueGrows
  BY <1>1, SameGrows
<1>5. TableKept
  BY <1>3, <1>4, TableStep
<1>6. PubInv'
  BY <1>1, <1>3, <1>4, <1>5, Typed, KeptEvents, GotoInv DEF TableKept
<1> QED
  BY <1>5, <1>6 DEF StepKept

\* A process dies.
LEMMA CrashStep == ASSUME OInv, NEW w \in Worker, Crash(w) PROVE StepKept
<1>1. /\ Goto(w, "down")
      /\ batch' = [batch EXCEPT ![w] = {}]
      /\ UNCHANGED <<current, queue>>
  BY DEF Crash
<1>2. Kept(rows') /\ QueueGrows
  BY <1>1, CrashKept, SameGrows
<1>3. TableKept
  BY <1>2, TableStep
<1>4. batch' \in [Worker -> SUBSET DOMAIN rows']
  BY <1>1, <1>2, Typed
<1>5. PubInv'
  BY <1>1, <1>2, <1>3, <1>4, Typed, KeptEvents, GotoInv DEF TableKept
<1> QED
  BY <1>3, <1>5 DEF StepKept

\* A process comes back.
LEMMA RestartStep == ASSUME OInv, NEW w \in Worker, Restart(w) PROVE StepKept
<1>1. Goto(w, "poll") /\ UNCHANGED <<rows, batch, current, queue>>
  BY DEF Restart
<1>2. Kept(rows') /\ QueueGrows
  BY <1>1, SameKept, SameGrows
<1>3. TableKept
  BY <1>2, TableStep
<1>4. PubInv'
  BY <1>1, <1>2, <1>3, Typed, KeptEvents, GotoInv DEF TableKept
<1> QED
  BY <1>3, <1>4 DEF StepKept

\* Time passes for a row.
LEMMA TimeStep ==
    ASSUME OInv, NEW e \in DOMAIN rows, BecomeDue(e) \/ GoStale(e)
    PROVE  StepKept
<1>1. UNCHANGED <<mode, batch, current, queue>>
  BY DEF BecomeDue, GoStale
<1>2. Kept(rows') /\ QueueGrows
  BY <1>1, DueKept, StaleKept, SameGrows
<1>3. TableKept
  BY <1>2, TableStep
<1>4. PubInv'
  BY <1>1, <1>2, <1>3, KeptEvents, StillInv DEF TableKept
<1> QED
  BY <1>3, <1>4 DEF StepKept

\* An order commits with its event.
LEMMA CommitStep == ASSUME OInv, NEW e \in Event, Write(e) PROVE StepKept
<1>1. /\ DOMAIN rows' = DOMAIN rows \cup {e}
      /\ UNCHANGED <<mode, batch, current, queue>>
  BY DEF Write
<1>2. TableKept
  BY WriteStep
<1>3. DOMAIN rows' \subseteq Event
  BY <1>1 DEF OInv, PublishersOK
<1>4. PubInv'
  BY <1>1, <1>2, <1>3, SameGrows, StillInv DEF TableKept
<1> QED
  BY <1>2, <1>4 DEF StepKept

\* Nothing happens.
LEMMA StutterStep == ASSUME OInv, UNCHANGED vars PROVE StepKept
<1>1. UNCHANGED <<rows, mode, batch, current, queue>>
  BY DEF vars
<1>2. Kept(rows') /\ QueueGrows
  BY <1>1, SameKept, SameGrows
<1>3. TableKept
  BY <1>2, TableStep
<1>4. PubInv'
  BY <1>1, <1>2, <1>3, KeptEvents, StillInv DEF TableKept
<1> QED
  BY <1>3, <1>4 DEF StepKept

\* Every step of the specification.
LEMMA Step == ASSUME OInv, [Next]_vars PROVE StepKept
<1>1. CASE UNCHANGED vars
  BY <1>1, StutterStep
<1>2. CASE \E e \in Event : Write(e)
  BY <1>2, CommitStep
<1>3. CASE \E e \in DOMAIN rows : BecomeDue(e) \/ GoStale(e)
  BY <1>3, TimeStep
<1>4. ASSUME NEW w \in Worker, Publish(w) PROVE StepKept
  BY <1>4, ClaimStep, EmitStep, ConfirmStep, GiveUpStep, MarkStep DEF Publish
<1>5. ASSUME NEW w \in Worker,
             \/ Reject(w)
             \/ MarkError(w)
             \/ \E e \in Event : AcceptUnheard(w, e) \/ LoseConfirm(w, e)
             \/ Crash(w)
             \/ Restart(w)
      PROVE  StepKept
  BY <1>5, GiveUpStep, MarkErrorStep, AcceptStep, CrashStep, RestartStep
<1> QED
  BY <1>1, <1>2, <1>3, <1>4, <1>5 DEF Next

-----------------------------------------------------------------------------
(* The theorems.                                                           *)

\* The inductive invariant holds in every reachable state.
THEOREM Invariance == Spec => []OInv
<1>1. Init => OInv
  BY InitInv
<1>2. OInv /\ [Next]_vars => OInv'
  BY Step DEF StepKept, TableKept, PubInv, OInv
<1> QED
  BY <1>1, <1>2, PTL DEF Spec

\* A client of RabbitMQ never sends or drops a message it does not have, and
\* faults keep within their bound.
BuffersOK ==
    /\ buffer \in [Worker -> [Event -> Nat]]
    /\ faults \in 0..MaxFaults

\* Nothing is held, and nothing has gone wrong, at first.
LEMMA BuffersInit == Init => BuffersOK
BY Constants DEF Init, NoCopies, BuffersOK

\* A fault is counted only below the bound.
LEMMA FaultCounts == ASSUME BuffersOK, Fault PROVE faults' \in 0..MaxFaults
BY Constants DEF BuffersOK, Fault

\* One copy more or less in a client, of which it has one in the second case.
LEMMA BufferChanges ==
    ASSUME BuffersOK, NEW w \in Worker, NEW e \in Event
    PROVE  /\ [buffer EXCEPT ![w][e] = @ + 1] \in [Worker -> [Event -> Nat]]
           /\ buffer[w][e] > 0 =>
                 [buffer EXCEPT ![w][e] = @ - 1] \in [Worker -> [Event -> Nat]]
<1>1. buffer[w][e] \in Nat /\ buffer[w] \in [Event -> Nat]
  BY DEF BuffersOK
<1>2. [buffer[w] EXCEPT ![e] = @ + 1] \in [Event -> Nat]
  BY <1>1
<1>3. buffer[w][e] > 0 => [buffer[w] EXCEPT ![e] = @ - 1] \in [Event -> Nat]
  BY <1>1
<1> QED
  BY <1>2, <1>3 DEF BuffersOK

\* The steps of a publisher and its client.
LEMMA BuffersStep ==
    ASSUME BuffersOK, OInv, NEW w \in Worker,
           \/ Publish(w) \/ Reject(w) \/ MarkError(w) \/ Crash(w) \/ Restart(w)
           \/ \E e \in Event : AcceptUnheard(w, e) \/ LoseConfirm(w, e)
    PROVE  BuffersOK'
<1>1. current[w] \in Event /\ batch[w] \subseteq Event
  BY DEF OInv, PublishersOK
<1>2. CASE UNCHANGED <<buffer, faults>>
  BY <1>2 DEF BuffersOK
<1>3. CASE Emit(w)
  <2>1. PICK e \in batch[w] : buffer' = [buffer EXCEPT ![w][e] = @ + 1]
    BY <1>3 DEF Emit
  <2>2. faults' = faults
    BY <1>3 DEF Emit
  <2> QED
    BY <1>1, <2>1, <2>2, BufferChanges DEF BuffersOK
<1>4. CASE Confirm(w)
  BY <1>1, <1>4, BufferChanges DEF Confirm, Deliver, BuffersOK
<1>5. CASE \E e \in Event : AcceptUnheard(w, e)
  BY <1>5, BufferChanges DEF AcceptUnheard, Deliver, BuffersOK
<1>6. CASE Reject(w)
  BY <1>1, <1>6, BufferChanges, FaultCounts DEF Reject, BuffersOK
<1>7. CASE TimeOut(w) \/ MarkError(w) \/ \E e \in Event : LoseConfirm(w, e)
  BY <1>7, FaultCounts DEF TimeOut, MarkError, LoseConfirm, BuffersOK
<1>8. CASE Crash(w)
  <2>1. buffer' = [buffer EXCEPT ![w] = NoCopies] /\ NoCopies \in [Event -> Nat]
    BY <1>8 DEF Crash, NoCopies
  <2>2. faults' \in 0..MaxFaults
    BY <1>8, FaultCounts DEF Crash
  <2> QED
    BY <2>1, <2>2 DEF BuffersOK
<1> QED
  BY <1>2, <1>3, <1>4, <1>5, <1>6, <1>7, <1>8
     DEF Publish, Claim, MarkPublished, MarkFailed, Restart

\* Every step.
LEMMA BuffersKept == ASSUME BuffersOK, OInv, [Next]_vars PROVE BuffersOK'
<1>1. CASE UNCHANGED vars
  BY <1>1 DEF vars, BuffersOK
<1>2. CASE \E e \in Event : Write(e)
  BY <1>2 DEF Write, BuffersOK
<1>3. CASE \E e \in DOMAIN rows : BecomeDue(e) \/ GoStale(e)
  BY <1>3, FaultCounts DEF BecomeDue, GoStale, BuffersOK
<1> QED
  BY <1>1, <1>2, <1>3, BuffersStep DEF Next

\* The variables of Outbox keep their types.
THEOREM OutboxTypes == Spec => []TypeOK
<1>1. Init => BuffersOK
  BY BuffersInit
<1>2. OInv /\ BuffersOK /\ [Next]_vars => BuffersOK'
  BY BuffersKept
<1>3. OInv /\ BuffersOK => TypeOK
  BY DEF OInv, RowsOK, QueueOK, PublishersOK, BuffersOK, TypeOK
<1> QED
  BY <1>1, <1>2, <1>3, Invariance, PTL DEF Spec

\* A row is marked published only when the broker has accepted its message,
\* whatever mixture of replicas, lost confirms, late marks and crashes led
\* there.
THEOREM NothingMarkedUnsent == Spec => []PublishedWasAccepted
<1>1. OInv => PublishedWasAccepted
  BY DEF OInv
<1> QED
  BY <1>1, Invariance, PTL

\* A published row never changes again, so a worker that ends after its
\* lease has passed on undoes nothing and no later claim sends it once more.
THEOREM PublishedStays == Spec => PublishedIsFinal
<1>1. OInv /\ [Next]_vars =>
        [\A e \in DOMAIN rows : rows[e].published => rows'[e] = rows[e]]_vars
  BY Step DEF StepKept, TableKept, RowsKept
<1> QED
  BY <1>1, Invariance, PTL DEF Spec, PublishedIsFinal

\* The step ends the lease of worker w on event e by w's own hand.
OwnHand(w, e) ==
    \/ current[w] = e /\ mode[w] \in {"mark", "failed"} /\ mode'[w] # mode[w]
    \/ mode'[w] = "down" /\ mode[w] # "down"

\* The table is changed for a fresh lease of worker w to end.
LEMMA LeaseStep ==
    ASSUME OInv, Next, NEW w \in Worker, NEW e \in DOMAIN rows,
           rows[e].owner = w, ~rows[e].stale, rows'[e].owner # w
    PROVE  OwnHand(w, e)
<1>1. rows[e] \in Row /\ mode \in [Worker -> {"poll", "batch", "emit", "mark", "failed", "down"}]
  BY DEF OInv, RowsOK, PublishersOK
<1>2. rows' # rows
  OBVIOUS
<1>3. ~\E f \in Event : Write(f)
  BY DEF Write
<1>4. ~\E f \in DOMAIN rows : BecomeDue(f) \/ GoStale(f)
  BY <1>1 DEF BecomeDue, GoStale, Row
<1>5. ASSUME NEW v \in Worker PROVE ~Claim(v)
  <2> SUFFICES ASSUME Claim(v) PROVE FALSE
    OBVIOUS
  <2>1. PICK claim \in SUBSET Candidates : rows' = Leased(claim, v)
    BY DEF Claim
  <2>2. e \notin claim
    BY Constants DEF Candidates
  <2> QED
    BY <2>1, <2>2 DEF Leased
<1>6. ASSUME NEW v \in Worker, MarkPublished(v) \/ MarkError(v) \/ MarkFailed(v)
      PROVE  OwnHand(w, e)
  <2>1. /\ mode[v] \in {"mark", "failed"}
        /\ mode'[v] # mode[v]
        /\ rows' \in {rows, Published(v, current[v]), Released(v, current[v])}
    BY <1>1, <1>6 DEF MarkPublished, MarkError, MarkFailed, GoOn, Goto
  <2>2. e = current[v] /\ Owns(v, e)
    BY <1>2, <2>1 DEF Published, Released
  <2> QED
    BY <2>1, <2>2 DEF Owns, OwnHand
<1>7. ASSUME NEW v \in Worker, Crash(v) PROVE OwnHand(w, e)
  <2>1. v = w
    BY <1>7 DEF Crash
  <2> QED
    BY <1>1, <1>7, <2>1 DEF Crash, Goto, OwnHand
<1>8. PICK v \in Worker :
          \/ Publish(v) \/ Reject(v) \/ MarkError(v) \/ Crash(v) \/ Restart(v)
          \/ \E f \in Event : AcceptUnheard(v, f) \/ LoseConfirm(v, f)
  BY <1>3, <1>4 DEF Next
<1>9. MarkPublished(v) \/ MarkError(v) \/ MarkFailed(v) \/ Crash(v)
  BY <1>2, <1>5, <1>8 DEF Publish, Emit, Confirm, TimeOut, Reject, Restart, AcceptUnheard,
                          LoseConfirm
<1> QED
  BY <1>6, <1>7, <1>9

\* A fresh lease is its owner's to end, by marking the event or by dying: no
\* claim, late mark or crash of another worker takes it away.
THEOREM LeaseExcludes == Spec => FreshLeaseKept
<1>1. OInv /\ [Next]_vars =>
        [\A w \in Worker : \A e \in DOMAIN rows :
            rows[e].owner = w /\ ~rows[e].stale /\ rows'[e].owner # w => OwnHand(w, e)]_vars
  BY LeaseStep
<1> QED
  BY <1>1, Invariance, PTL DEF Spec, FreshLeaseKept, OwnHand

-----------------------------------------------------------------------------
(* Leases and the work they are held for.                                  *)

AtHand(w, e) ==
    e \in batch[w] \/ (current[w] = e /\ mode[w] \in {"emit", "mark", "failed"})

\* A worker that polls, or is down, has nothing left to emit.
IdleEmpty == \A w \in Worker : mode[w] \in {"poll", "down"} => batch[w] = {}

LInv == OInv /\ IdleEmpty /\ LeasesAreWorkedOn

\* What a step of worker w may do: it gives nobody else a lease, and what it
\* keeps for itself it still works on.
Hands(w) ==
    /\ DOMAIN rows' = DOMAIN rows
    /\ \A v \in Worker \ {w} :
          /\ mode'[v] = mode[v] /\ batch'[v] = batch[v] /\ current'[v] = current[v]
          /\ \A e \in DOMAIN rows : rows'[e].owner = v => rows[e].owner = v
    /\ \A e \in DOMAIN rows : rows'[e].owner = w => AtHand(w, e)'
    /\ mode'[w] \in {"poll", "down"} => batch'[w] = {}

\* Such a step leaves no lease behind.
LEMMA HandsKept ==
    ASSUME LInv, NEW w \in Worker, Hands(w) PROVE IdleEmpty' /\ LeasesAreWorkedOn'
BY DEF LInv, IdleEmpty, LeasesAreWorkedOn, Hands, AtHand

\* A claim is the batch of a worker that has no other.
LEMMA ClaimHands == ASSUME LInv, NEW w \in Worker, Claim(w) PROVE Hands(w)
<1> PICK claim \in SUBSET Candidates :
        IsClaim(claim) /\ rows' = Leased(claim, w) /\ batch' = [batch EXCEPT ![w] = claim]
  BY DEF Claim
<1>1. claim # {}
  BY DEF IsClaim
<1>2. /\ mode'[w] = "batch" /\ batch'[w] = claim
      /\ \A v \in Worker \ {w} :
            mode'[v] = mode[v] /\ batch'[v] = batch[v] /\ current'[v] = current[v]
  BY DEF Claim, Goto, LInv, OInv, PublishersOK
<1>3. DOMAIN rows' = DOMAIN rows
  BY DEF Leased
<1>4. ASSUME NEW e \in DOMAIN rows
      PROVE  rows'[e].owner = IF e \in claim THEN w ELSE rows[e].owner
  BY <1>4 DEF Leased, LInv, OInv, RowsOK, Row
<1>5. \A e \in DOMAIN rows : rows[e].owner # w
  BY DEF Claim, LInv, IdleEmpty, LeasesAreWorkedOn
<1> QED
  BY <1>2, <1>3, <1>4, <1>5 DEF Hands, AtHand

\* What is emitted is worked on until it is marked.
LEMMA SendHands ==
    ASSUME LInv, NEW w \in Worker, Emit(w) \/ Confirm(w) \/ TimeOut(w) \/ Reject(w)
    PROVE  Hands(w)
<1>1. CASE Emit(w)
  <2> PICK e \in batch[w] : /\ current' = [current EXCEPT ![w] = e]
                            /\ batch' = [batch EXCEPT ![w] = @ \ {e}]
    BY <1>1 DEF Emit
  <2>1. /\ mode[w] = "batch" /\ mode'[w] = "emit"
        /\ batch'[w] = batch[w] \ {e} /\ current'[w] = e
        /\ \A v \in Worker \ {w} :
              mode'[v] = mode[v] /\ batch'[v] = batch[v] /\ current'[v] = current[v]
    BY <1>1 DEF Emit, Goto, LInv, OInv, PublishersOK
  <2> QED
    BY <1>1, <2>1 DEF Emit, Hands, AtHand, LInv, LeasesAreWorkedOn
<1>2. CASE Confirm(w) \/ TimeOut(w) \/ Reject(w)
  <2>1. /\ mode[w] = "emit" /\ mode'[w] \in {"mark", "failed"}
        /\ UNCHANGED <<rows, batch, current>>
        /\ \A v \in Worker \ {w} : mode'[v] = mode[v]
    BY <1>2 DEF Confirm, TimeOut, Reject, Goto, LInv, OInv, PublishersOK
  <2> QED
    BY <2>1 DEF Hands, AtHand, LInv, LeasesAreWorkedOn
<1> QED
  BY <1>1, <1>2

\* A mark leaves the owners as they are, but for the event itself, which is
\* not the worker's any more.
LEMMA MarkOwners ==
    ASSUME OInv, NEW w \in Worker, NEW f \in DOMAIN rows, NEW t,
           t = Published(w, f) \/ t = Released(w, f)
    PROVE  /\ DOMAIN t = DOMAIN rows
           /\ \A e \in DOMAIN rows \ {f} : t[e] = rows[e]
           /\ t[f].owner # w
           /\ \A v \in Worker : t[f].owner = v => rows[f].owner = v
<1>1. rows[f] \in Row /\ (rows[f].published => rows[f].owner = Nobody)
  BY DEF OInv, RowsOK, Leases
<1>2. CASE Owns(w, f)
  <2>1. /\ DOMAIN t = DOMAIN rows
        /\ \A e \in DOMAIN rows \ {f} : t[e] = rows[e]
        /\ t[f].owner = Nobody
    BY <1>1, <1>2 DEF Published, Released, Row
  <2> QED
    BY <2>1, Constants
<1>3. CASE ~Owns(w, f)
  <2>1. t = rows
    BY <1>3 DEF Published, Released
  <2>2. rows[f].owner # w
    BY <1>1, <1>3, Constants DEF Owns
  <2> QED
    BY <2>1, <2>2
<1> QED
  BY <1>2, <1>3

\* A worker that has marked its event goes on with the rest of its batch.
LEMMA MarkHands ==
    ASSUME LInv, NEW w \in Worker, MarkPublished(w) \/ MarkFailed(w) PROVE Hands(w)
<1>1. /\ mode[w] \in {"mark", "failed"} /\ current[w] \in DOMAIN rows
      /\ rows' = Published(w, current[w]) \/ rows' = Released(w, current[w])
      /\ UNCHANGED <<batch, current>>
      /\ mode'[w] = IF batch[w] = {} THEN "poll" ELSE "batch"
      /\ \A v \in Worker \ {w} : mode'[v] = mode[v]
  BY DEF MarkPublished, MarkFailed, GoOn, Goto, LInv, OInv, PublishersOK, AtWork
<1>2. /\ DOMAIN rows' = DOMAIN rows
      /\ \A e \in DOMAIN rows \ {current[w]} : rows'[e] = rows[e]
      /\ rows'[current[w]].owner # w
      /\ \A v \in Worker : rows'[current[w]].owner = v => rows[current[w]].owner = v
  BY <1>1, MarkOwners DEF LInv
<1>3. \A e \in DOMAIN rows : \A v \in Worker : rows'[e].owner = v => rows[e].owner = v
  BY <1>2
<1>4. ASSUME NEW e \in DOMAIN rows, rows'[e].owner = w PROVE e \in batch[w]
  <2>1. e # current[w] /\ rows[e].owner = w
    BY <1>2, <1>4
  <2> QED
    BY <2>1 DEF LInv, LeasesAreWorkedOn
<1> QED
  BY <1>1, <1>2, <1>3, <1>4 DEF Hands, AtHand

\* A mark that seems to have failed is taken for a failure.
LEMMA MarkErrorHands == ASSUME LInv, NEW w \in Worker, MarkError(w) PROVE Hands(w)
<1>1. /\ mode[w] = "mark" /\ current[w] \in DOMAIN rows
      /\ rows' = rows \/ rows' = Published(w, current[w])
      /\ UNCHANGED <<batch, current>>
      /\ mode'[w] = "failed"
      /\ \A v \in Worker \ {w} : mode'[v] = mode[v]
  BY DEF MarkError, Goto, LInv, OInv, PublishersOK, AtWork
<1>2. /\ DOMAIN rows' = DOMAIN rows
      /\ \A e \in DOMAIN rows : \A v \in Worker : rows'[e].owner = v => rows[e].owner = v
  BY <1>1, MarkOwners DEF LInv
<1> QED
  BY <1>1, <1>2 DEF Hands, AtHand, LInv, LeasesAreWorkedOn

\* The leases of a worker that dies are nobody's who lives.
LEMMA DownHands ==
    ASSUME LInv, NEW w \in Worker, Crash(w) \/ Restart(w) PROVE Hands(w)
<1>1. CASE Crash(w)
  <2>1. /\ mode'[w] = "down" /\ batch'[w] = {} /\ UNCHANGED current
        /\ \A v \in Worker \ {w} : mode'[v] = mode[v] /\ batch'[v] = batch[v]
        /\ DOMAIN rows' = DOMAIN rows
    BY <1>1 DEF Crash, Goto, LInv, OInv, PublishersOK
  <2>2. ASSUME NEW e \in DOMAIN rows
        PROVE  rows'[e].owner = IF rows[e].owner = w THEN Gone ELSE rows[e].owner
    BY <1>1, <2>2 DEF Crash, LInv, OInv, RowsOK, Row
  <2>3. \A e \in DOMAIN rows : \A v \in Worker :
            rows'[e].owner = v => rows[e].owner = v /\ v # w
    BY <2>2, Constants
  <2> QED
    BY <2>1, <2>3 DEF Hands
<1>2. CASE Restart(w)
  <2>1. /\ mode[w] = "down" /\ mode'[w] = "poll" /\ UNCHANGED <<rows, batch, current>>
        /\ \A v \in Worker \ {w} : mode'[v] = mode[v]
    BY <1>2 DEF Restart, Goto, LInv, OInv, PublishersOK
  <2> QED
    BY <2>1 DEF Hands, AtHand, LInv, IdleEmpty, LeasesAreWorkedOn
<1> QED
  BY <1>1, <1>2

\* Orders, the clock and the broker give and take no lease.
LEMMA OthersHands ==
    ASSUME LInv, UNCHANGED <<mode, batch, current>>,
           \/ UNCHANGED rows
           \/ \E e \in Event : Write(e)
           \/ \E e \in DOMAIN rows : BecomeDue(e) \/ GoStale(e)
    PROVE  IdleEmpty' /\ LeasesAreWorkedOn'
<1>1. \A e \in DOMAIN rows' :
          rows'[e].owner = Nobody \/ (e \in DOMAIN rows /\ rows'[e].owner = rows[e].owner)
  <2>1. CASE \E e \in Event : Write(e)
    BY <2>1 DEF Write, NewRow
  <2>2. CASE \E e \in DOMAIN rows : BecomeDue(e) \/ GoStale(e)
    BY <2>2 DEF BecomeDue, GoStale, LInv, OInv, RowsOK, Row
  <2> QED
    BY <2>1, <2>2
<1> QED
  BY <1>1, Constants DEF LInv, IdleEmpty, LeasesAreWorkedOn

\* A lease is never left behind: a worker that owns an event will still emit
\* it, or awaits its confirm, or marks it.
THEOREM LeasesHaveWork == Spec => []LeasesAreWorkedOn
<1>1. Init => IdleEmpty /\ LeasesAreWorkedOn
  BY DEF Init, IdleEmpty, LeasesAreWorkedOn
<1>2. LInv /\ [Next]_vars => IdleEmpty' /\ LeasesAreWorkedOn'
  <2> SUFFICES ASSUME LInv, [Next]_vars PROVE IdleEmpty' /\ LeasesAreWorkedOn'
    OBVIOUS
  <2>1. ASSUME NEW w \in Worker, \/ Publish(w) \/ Reject(w) \/ MarkError(w)
                                 \/ Crash(w) \/ Restart(w)
        PROVE  Hands(w)
    BY <2>1, ClaimHands, SendHands, MarkHands, MarkErrorHands, DownHands DEF Publish
  <2>2. CASE \/ UNCHANGED vars
             \/ \E e \in Event : Write(e)
             \/ \E e \in DOMAIN rows : BecomeDue(e) \/ GoStale(e)
             \/ \E w \in Worker : \E e \in Event : AcceptUnheard(w, e) \/ LoseConfirm(w, e)
    BY <2>2, OthersHands DEF vars, Write, BecomeDue, GoStale, AcceptUnheard, LoseConfirm
  <2> QED
    BY <2>1, <2>2, HandsKept DEF Next
<1>3. OInv /\ [Next]_vars => OInv'
  BY Step DEF StepKept, TableKept, PubInv, OInv
<1>4. Init => LInv
  BY <1>1, InitInv DEF LInv
<1>5. LInv /\ [Next]_vars => LInv'
  BY <1>2, <1>3 DEF LInv
<1>6. LInv => LeasesAreWorkedOn
  BY DEF LInv
<1> QED
  BY <1>4, <1>5, <1>6, PTL DEF Spec

-----------------------------------------------------------------------------
(* The copies of an event, summed over the workers.                        *)

\* What is not committed has no copies.
Unwritten ==
    \A e \in Event \ DOMAIN rows :
        queue[e] = 0 /\ \A w \in Worker : buffer[w][e] = 0

\* The publisher that holds the lease of an event has failed to send it and is
\* about to give the lease up.
GivenUp(e) == \E w \in Worker : rows[e].owner = w /\ current[w] = e /\ mode[w] = "failed"

\* The claims an event may yet see although nothing more goes wrong: one, if it
\* is unpublished and no worker that is on time works on it.
Again(e) ==
    IF ~rows[e].published /\ (rows[e].owner \notin Worker \/ rows[e].stale \/ GivenUp(e))
    THEN 1 ELSE 0

InHand(e) == SumFunction([w \in Worker |-> Held(w, e)])

\* Every claim and every copy but the first are paid for with a fault, the
\* claim that is possible next among them.
Paid ==
    \A e \in DOMAIN rows :
        /\ rows[e].attempts + Again(e) <= 1 + faults
        /\ queue[e] + InHand(e) + Again(e) <= 1 + faults

CInv == OInv /\ BuffersOK /\ Unwritten /\ Paid

\* What a worker holds is a number.
LEMMA HeldType ==
    ASSUME BuffersOK, NEW w \in Worker, NEW e \in Event PROVE Held(w, e) \in Nat
BY DEF BuffersOK, Held

\* So are all the copies that are not in the queue yet.
LEMMA HandsAreNumbers ==
    ASSUME BuffersOK, NEW e \in Event PROVE InHand(e) \in Int
<1> DEFINE f == [w \in Worker |-> Held(w, e)]
<1>1. DOMAIN f = Worker /\ \A w \in Worker : f[w] \in Int
  BY HeldType
<1>2. InHand(e) = SumFunctionOnSet(f, Worker)
  BY <1>1 DEF InHand, SumFunction
<1>3. IsFiniteSet(Worker)
  BY OutboxAssumption
<1> HIDE DEF f
<1> QED
  BY <1>1, <1>2, <1>3, SumType

\* A step of one worker changes the sum by what it changes of its own.
LEMMA OneHand ==
    ASSUME BuffersOK, BuffersOK', NEW w \in Worker, NEW e \in Event,
           \A v \in Worker \ {w} : Held(v, e)' = Held(v, e)
    PROVE  /\ InHand(e) \in Int
           /\ InHand(e)' = InHand(e) + (Held(w, e)' - Held(w, e))
<1> DEFINE f == [v \in Worker |-> Held(v, e)]
           h == [v \in Worker |-> Held(v, e)']
<1>1. IsFiniteSet(Worker)
  BY OutboxAssumption
<1>2. /\ \A v \in Worker : f[v] = Held(v, e) /\ h[v] = Held(v, e)'
      /\ DOMAIN f = Worker /\ DOMAIN h = Worker
  OBVIOUS
<1>3. InHand(e) = SumFunctionOnSet(f, Worker) /\ InHand(e)' = SumFunctionOnSet(h, Worker)
  BY <1>2 DEF InHand, SumFunction
<1>4. \A v \in Worker : Held(v, e) \in Int /\ Held(v, e)' \in Int
  BY HeldType DEF BuffersOK, Held
<1> HIDE DEF f, h
<1>5. /\ \A v \in Worker : f[v] \in Int /\ h[v] \in Int
      /\ \A v \in Worker \ {w} : h[v] = f[v]
  BY <1>2, <1>4
<1>6. /\ SumFunctionOnSet(f, Worker) \in Int
      /\ SumFunctionOnSet(h, Worker) = SumFunctionOnSet(f, Worker) + (h[w] - f[w])
  BY <1>1, <1>5, SumUpdate
<1> QED
  BY <1>2, <1>3, <1>6

\* What a step of worker w may do to a row: what it adds to the claims and to
\* the copies it pays for, and nobody else's copies change.
Pays(w) ==
    /\ DOMAIN rows' = DOMAIN rows
    /\ \A e \in Event \ DOMAIN rows :
          queue'[e] = queue[e] /\ \A v \in Worker : buffer'[v][e] = buffer[v][e]
    /\ \A e \in DOMAIN rows : \A v \in Worker \ {w} : Held(v, e)' = Held(v, e)
    /\ \A e \in DOMAIN rows :
          /\ rows'[e].attempts + Again(e)' + faults <= rows[e].attempts + Again(e) + faults'
          /\ queue'[e] + Held(w, e)' + Again(e)' + faults
                 <= queue[e] + Held(w, e) + Again(e) + faults'

\* Such a step keeps the account.
LEMMA PaysKept ==
    ASSUME CInv, OInv', BuffersOK', NEW w \in Worker, Pays(w)
    PROVE  CInv'
<1>1. Unwritten'
  BY DEF CInv, Unwritten, Pays
<1>2. ASSUME NEW e \in DOMAIN rows
      PROVE  /\ rows'[e].attempts + Again(e)' <= 1 + faults'
             /\ queue'[e] + InHand(e)' + Again(e)' <= 1 + faults'
  <2>1. e \in Event
    BY DEF CInv, OInv, PublishersOK
  <2>2. InHand(e) \in Int /\ InHand(e)' = InHand(e) + (Held(w, e)' - Held(w, e))
    BY <2>1, OneHand DEF CInv, Pays
  <2>3. /\ rows[e].attempts + Again(e) <= 1 + faults
        /\ queue[e] + InHand(e) + Again(e) <= 1 + faults
    BY DEF CInv, Paid
  <2>4. rows[e].attempts \in Int /\ rows'[e].attempts \in Int
    BY DEF CInv, OInv, RowsOK, Row, Pays
  <2>5. queue[e] \in Int /\ queue'[e] \in Int
    BY <2>1 DEF CInv, OInv, QueueOK
  <2>6. Held(w, e) \in Int /\ Held(w, e)' \in Int
    BY <2>1, HeldType DEF CInv, BuffersOK, Held
  <2>7. faults \in Int /\ faults' \in Int
    BY Constants DEF CInv, BuffersOK
  <2>8. Again(e) \in Int /\ Again(e)' \in Int
    BY DEF Again
  <2>9. /\ rows'[e].attempts + Again(e)' + faults <= rows[e].attempts + Again(e) + faults'
        /\ queue'[e] + Held(w, e)' + Again(e)' + faults
               <= queue[e] + Held(w, e) + Again(e) + faults'
    BY DEF Pays
  <2> QED
    BY <2>2, <2>3, <2>4, <2>5, <2>6, <2>7, <2>8, <2>9
<1>3. Paid'
  BY <1>2 DEF Pays, Paid
<1> QED
  BY <1>1, <1>3 DEF CInv

\* A row that keeps its flag, its owner and the age of its lease is not up for
\* another claim, unless the step has brought its owner to give it up.
LEMMA SameAgain ==
    ASSUME NEW e \in DOMAIN rows, e \in DOMAIN rows',
           \/ rows'[e] = rows[e]
           \/ /\ rows'[e].published = rows[e].published
              /\ rows'[e].owner = rows[e].owner
              /\ rows'[e].stale = rows[e].stale,
           NEW w, \A v \in Worker \ {w} : mode'[v] = mode[v] /\ current'[v] = current[v],
           mode'[w] = "failed" /\ current'[w] = e => mode[w] = "failed" /\ current[w] = e
    PROVE  Again(e)' <= Again(e)
<1>1. GivenUp(e)' => GivenUp(e)
  BY DEF GivenUp
<1>2. Again(e)' = 1 => Again(e) = 1
  BY <1>1 DEF Again
<1> QED
  BY <1>2 DEF Again

\* A row keeps its attempts when its flag, its lease or its delay change.
LEMMA SameAttempts ==
    ASSUME NEW row \in Row, NEW x, NEW y, NEW z
    PROVE  /\ [row EXCEPT !.owner = x].attempts = row.attempts
           /\ [row EXCEPT !.due = x].attempts = row.attempts
           /\ [row EXCEPT !.stale = x].attempts = row.attempts
           /\ [row EXCEPT !.published = x, !.owner = y, !.stale = z].attempts = row.attempts
           /\ [row EXCEPT !.owner = x, !.stale = y, !.due = z].attempts = row.attempts
BY DEF Row

\* The attempts of the rows of a table.
Attempted(table) ==
    DOMAIN table = DOMAIN rows /\ \A e \in DOMAIN rows : table[e].attempts = rows[e].attempts

\* markPublished and markFailed count no attempt.
LEMMA MarksAttempted ==
    ASSUME OInv, NEW w \in Worker, NEW e
    PROVE  Attempted(Published(w, e)) /\ Attempted(Released(w, e))
<1>1. \A f \in DOMAIN rows : rows[f] \in Row
  BY DEF OInv, RowsOK
<1>2. DOMAIN Published(w, e) = DOMAIN rows /\ DOMAIN Released(w, e) = DOMAIN rows
  BY DEF Published, Released
<1>3. ASSUME NEW f \in DOMAIN rows PROVE Published(w, e)[f].attempts = rows[f].attempts
  <2>1. CASE Owns(w, e) /\ f = e
    <3>1. Published(w, e)[f] =
             [rows[f] EXCEPT !.published = TRUE, !.owner = Nobody, !.stale = FALSE]
      BY <2>1 DEF Published
    <3> QED
      BY <1>1, <3>1, SameAttempts
  <2>2. CASE ~(Owns(w, e) /\ f = e)
    BY <2>2 DEF Published
  <2> QED
    BY <2>1, <2>2
<1>4. ASSUME NEW f \in DOMAIN rows PROVE Released(w, e)[f].attempts = rows[f].attempts
  <2>1. CASE Owns(w, e) /\ f = e
    <3>1. Released(w, e)[f] =
             [rows[f] EXCEPT !.owner = Nobody, !.stale = FALSE, !.due = FALSE]
      BY <2>1 DEF Released
    <3> QED
      BY <1>1, <3>1, SameAttempts
  <2>2. CASE ~(Owns(w, e) /\ f = e)
    BY <2>2 DEF Released
  <2> QED
    BY <2>1, <2>2
<1> QED
  BY <1>2, <1>3, <1>4 DEF Attempted

\* A step that either goes wrong or brings no row nearer to another claim.
Charged == \/ faults' = faults + 1
           \/ faults' = faults /\ \A e \in DOMAIN rows : Again(e)' <= Again(e)

\* A step that counts no attempt and hands no copy on, but may drop some.
LEMMA Drops ==
    ASSUME CInv, BuffersOK', NEW w \in Worker, Attempted(rows'), Charged, UNCHANGED queue,
           \A v \in Worker \ {w} : \A e \in Event : Held(v, e)' = Held(v, e),
           \A e \in Event : Held(w, e)' <= Held(w, e),
           \A e \in Event \ DOMAIN rows :
               \A v \in Worker : buffer'[v][e] = buffer[v][e]
    PROVE  Pays(w)
<1>1. DOMAIN rows' = DOMAIN rows /\ DOMAIN rows \subseteq Event
  BY DEF Attempted, CInv, OInv, PublishersOK
<1>2. ASSUME NEW e \in DOMAIN rows
      PROVE  /\ rows'[e].attempts + Again(e)' + faults <= rows[e].attempts + Again(e) + faults'
             /\ queue'[e] + Held(w, e)' + Again(e)' + faults
                    <= queue[e] + Held(w, e) + Again(e) + faults'
  <2>1. rows'[e].attempts = rows[e].attempts /\ rows[e].attempts \in Int
    BY DEF Attempted, CInv, OInv, RowsOK, Row
  <2>2. queue'[e] = queue[e] /\ queue[e] \in Int /\ e \in Event
    BY <1>1 DEF CInv, OInv, QueueOK
  <2>3. Held(w, e) \in Int /\ Held(w, e)' \in Int /\ Held(w, e)' <= Held(w, e)
    BY <2>2, HeldType DEF CInv, BuffersOK, Held
  <2>4. faults \in Int /\ faults' \in Int
    BY Constants DEF CInv, BuffersOK
  <2>5. Again(e) \in {0, 1} /\ Again(e)' \in {0, 1}
    BY DEF Again
  <2>6. Again(e)' + faults <= Again(e) + faults'
    BY <2>4, <2>5 DEF Charged
  <2> QED
    BY <2>1, <2>2, <2>3, <2>4, <2>5, <2>6
<1> QED
  BY <1>1, <1>2 DEF Pays

\* A publisher that does not fail leaves the rows as near to another claim as
\* they were.
LEMMA NoFailure ==
    ASSUME CInv, NEW w \in Worker, UNCHANGED <<rows, faults>>,
           NEW label, Goto(w, label), mode[w] # "failed", label # "failed",
           \A v \in Worker \ {w} : current'[v] = current[v]
    PROVE  Charged
<1>1. mode'[w] = label /\ \A v \in Worker \ {w} : mode'[v] = mode[v]
  BY DEF Goto, CInv, OInv, PublishersOK
<1>2. ASSUME NEW e \in DOMAIN rows PROVE Again(e)' <= Again(e)
  BY <1>1, SameAgain
<1> QED
  BY <1>2 DEF Charged

\* A copy that leaves a client is one more in the queue.
LEMMA DeliverPays ==
    ASSUME CInv, NEW w \in Worker, NEW e \in Event, Deliver(w, e), Charged,
           UNCHANGED <<rows, batch, faults>>
    PROVE  Pays(w)
<1>1. /\ buffer' = [buffer EXCEPT ![w][e] = buffer[w][e] - 1]
      /\ queue' = [queue EXCEPT ![e] = queue[e] + 1]
      /\ buffer[w][e] > 0
  BY DEF Deliver
<1>2. /\ buffer \in [Worker -> [Event -> Nat]] /\ queue \in [Event -> Nat]
      /\ DOMAIN rows \subseteq Event
      /\ \A f \in DOMAIN rows : rows[f].attempts \in Int
      /\ faults \in Int /\ faults' = faults
  BY Constants DEF CInv, OInv, QueueOK, BuffersOK, PublishersOK, RowsOK, Row
<1>3. /\ \A v \in Worker, f \in Event :
            buffer'[v][f] = IF v = w /\ f = e THEN buffer[w][e] - 1 ELSE buffer[v][f]
      /\ \A f \in Event : queue'[f] = IF f = e THEN queue[e] + 1 ELSE queue[f]
  BY <1>1, <1>2
<1>4. e \in DOMAIN rows
  BY <1>1 DEF CInv, Unwritten
<1>5. \A f \in DOMAIN rows : \A v \in Worker \ {w} : Held(v, f)' = Held(v, f)
  BY <1>2, <1>3 DEF Held
<1>6. ASSUME NEW f \in DOMAIN rows
      PROVE  /\ rows'[f].attempts + Again(f)' + faults <= rows[f].attempts + Again(f) + faults'
             /\ queue'[f] + Held(w, f)' + Again(f)' + faults
                    <= queue[f] + Held(w, f) + Again(f) + faults'
  <2>1. Held(w, f)' = IF f = e THEN Held(w, f) - 1 ELSE Held(w, f)
    BY <1>2, <1>3 DEF Held
  <2>2. Held(w, f) \in Int /\ queue[f] \in Int /\ rows[f].attempts \in Int
    BY <1>2, HeldType DEF CInv
  <2>3. Again(f) \in {0, 1} /\ Again(f)' \in {0, 1}
    BY DEF Again
  <2>4. Again(f)' <= Again(f)
    BY <1>2 DEF Charged
  <2> QED
    BY <1>2, <1>3, <2>1, <2>2, <2>3, <2>4
<1> QED
  BY <1>2, <1>3, <1>4, <1>5, <1>6 DEF Pays

\* A confirm that is lost costs a fault, for which there is one copy more.
LEMMA LoseConfirmPays ==
    ASSUME CInv, NEW w \in Worker, NEW e \in Event, LoseConfirm(w, e)
    PROVE  Pays(w)
<1>1. /\ queue' = [queue EXCEPT ![e] = queue[e] + 1]
      /\ faults' = faults + 1
      /\ UNCHANGED <<rows, mode, batch, current, buffer>>
  BY DEF LoseConfirm, Fault
<1>2. e \in DOMAIN rows
  BY DEF LoseConfirm, CInv, Unwritten
<1>3. /\ queue \in [Event -> Nat] /\ DOMAIN rows \subseteq Event
      /\ \A f \in DOMAIN rows : rows[f].attempts \in Int
      /\ faults \in Int
  BY Constants DEF CInv, OInv, QueueOK, BuffersOK, PublishersOK, RowsOK, Row
<1>4. \A v \in Worker : \A f \in Event : Held(v, f)' = Held(v, f)
  BY <1>1 DEF Held
<1>5. ASSUME NEW f \in DOMAIN rows
      PROVE  /\ rows'[f].attempts + Again(f)' + faults <= rows[f].attempts + Again(f) + faults'
             /\ queue'[f] + Held(w, f)' + Again(f)' + faults
                    <= queue[f] + Held(w, f) + Again(f) + faults'
  <2>1. Again(f)' = Again(f) /\ Again(f) \in {0, 1}
    BY <1>1 DEF Again, GivenUp
  <2>2. queue'[f] <= queue[f] + 1 /\ queue[f] \in Int /\ queue'[f] \in Int
    BY <1>1, <1>3
  <2>3. Held(w, f) \in Int /\ Held(w, f)' = Held(w, f)
    BY <1>3, <1>4, HeldType DEF CInv
  <2> QED
    BY <1>1, <1>3, <2>1, <2>2, <2>3
<1> QED
  BY <1>1, <1>2, <1>3, <1>4, <1>5 DEF Pays

\* A claim takes events that were up for it, and then they are not.
LEMMA ClaimPays == ASSUME CInv, NEW w \in Worker, Claim(w) PROVE Pays(w)
<1>1. PICK claim \in SUBSET Candidates :
          rows' = Leased(claim, w) /\ batch' = [batch EXCEPT ![w] = claim]
  BY DEF Claim
<1>2. mode[w] = "poll" /\ UNCHANGED <<current, buffer, queue, faults>>
  BY DEF Claim
<1>3. DOMAIN rows' = DOMAIN rows /\ DOMAIN rows \subseteq Event
  BY <1>1 DEF Leased, CInv, OInv, PublishersOK
<1>4. /\ batch'[w] = claim /\ mode'[w] = "batch"
      /\ \A v \in Worker \ {w} : batch'[v] = batch[v] /\ mode'[v] = mode[v]
  BY <1>1 DEF Claim, Goto, CInv, OInv, PublishersOK
<1>5. ASSUME NEW e \in DOMAIN rows
      PROVE  /\ rows'[e].attempts + Again(e)' <= rows[e].attempts + Again(e)
             /\ Held(w, e)' + Again(e)' <= Held(w, e) + Again(e)
             /\ Held(w, e) \in Int /\ Held(w, e)' \in Int /\ rows[e].attempts \in Int
             /\ rows'[e].attempts \in Int
  <2>1. /\ rows[e] \in Row /\ rows[e].attempts \in Int /\ buffer[w][e] \in Int
    BY <1>3 DEF CInv, OInv, RowsOK, Row, BuffersOK
  <2>2. rows'[e].attempts = IF e \in claim THEN rows[e].attempts + 1 ELSE rows[e].attempts
    BY <1>1, <2>1 DEF Leased, Row
  <2>3. Held(w, e)' = buffer[w][e] + IF e \in claim THEN 1 ELSE 0
    BY <1>2, <1>4 DEF Held
  <2>4. Held(w, e) \in Int /\ Held(w, e) >= buffer[w][e]
    BY <2>1 DEF Held
  <2>5. CASE e \in claim
    <3>1. ~rows[e].published /\ (rows[e].owner = Nobody \/ rows[e].stale)
      BY <2>5 DEF Candidates
    <3>2. Again(e) = 1
      BY <3>1, Constants DEF Again
    <3>3. rows'[e].owner = w /\ ~rows'[e].stale
      BY <1>1, <2>1, <2>5 DEF Leased, Row
    <3>4. ~GivenUp(e)'
      BY <1>4, <3>3 DEF GivenUp
    <3>5. Again(e)' = 0
      BY <3>3, <3>4 DEF Again
    <3> QED
      BY <2>1, <2>2, <2>3, <2>4, <2>5, <3>2, <3>5
  <2>6. CASE e \notin claim
    <3>1. rows'[e] = rows[e]
      BY <1>1, <2>6 DEF Leased
    <3>2. Again(e)' <= Again(e)
      BY <1>2, <1>3, <1>4, <3>1, SameAgain
    <3>3. Again(e) \in {0, 1} /\ Again(e)' \in {0, 1}
      BY DEF Again
    <3> QED
      BY <2>1, <2>2, <2>3, <2>4, <2>6, <3>2, <3>3
  <2> QED
    BY <2>5, <2>6
<1>6. \A e \in DOMAIN rows : \A v \in Worker \ {w} : Held(v, e)' = Held(v, e)
  BY <1>2, <1>4 DEF Held
<1>7. /\ \A e \in DOMAIN rows : queue[e] \in Int /\ Again(e) \in Int /\ Again(e)' \in Int
      /\ faults \in Int
  BY <1>3, Constants DEF CInv, OInv, QueueOK, BuffersOK, Again
<1>8. ASSUME NEW e \in DOMAIN rows
      PROVE  /\ rows'[e].attempts + Again(e)' + faults <= rows[e].attempts + Again(e) + faults'
             /\ queue'[e] + Held(w, e)' + Again(e)' + faults
                    <= queue[e] + Held(w, e) + Again(e) + faults'
  BY <1>2, <1>5, <1>7
<1> QED
  BY <1>2, <1>3, <1>6, <1>8 DEF Pays

\* An event that is emitted leaves the batch for the client.
LEMMA EmitPays ==
    ASSUME CInv, BuffersOK', NEW w \in Worker, Emit(w) PROVE Pays(w)
<1>1. PICK e \in batch[w] :
          /\ batch' = [batch EXCEPT ![w] = batch[w] \ {e}]
          /\ buffer' = [buffer EXCEPT ![w][e] = buffer[w][e] + 1]
          /\ current' = [current EXCEPT ![w] = e]
  BY DEF Emit
<1>2. mode[w] = "batch" /\ Goto(w, "emit") /\ UNCHANGED <<rows, queue, faults>>
  BY DEF Emit
<1>3. /\ buffer \in [Worker -> [Event -> Nat]]
      /\ batch \in [Worker -> SUBSET DOMAIN rows]
      /\ current \in [Worker -> Event]
      /\ DOMAIN rows \subseteq Event
  BY DEF CInv, OInv, BuffersOK, PublishersOK
<1>4. e \in DOMAIN rows /\ e \in Event
  BY <1>3
<1>5. /\ \A v \in Worker, f \in Event :
            buffer'[v][f] = IF v = w /\ f = e THEN buffer[w][e] + 1 ELSE buffer[v][f]
      /\ \A v \in Worker : batch'[v] = IF v = w THEN batch[w] \ {e} ELSE batch[v]
  BY <1>1, <1>3, <1>4
<1>6. \A v \in Worker : \A f \in Event : Held(v, f)' = Held(v, f)
  BY <1>3, <1>5 DEF Held
<1>7. Attempted(rows')
  BY <1>2 DEF Attempted
<1>8. \A f \in Event : Held(w, f)' <= Held(w, f)
  BY <1>6, HeldType DEF CInv
<1>9. \A f \in Event \ DOMAIN rows : \A v \in Worker : buffer'[v][f] = buffer[v][f]
  BY <1>4, <1>5
<1>10. Charged
  BY <1>1, <1>2, <1>3, NoFailure
<1> QED
  BY <1>2, <1>6, <1>7, <1>8, <1>9, <1>10, Drops

\* Copies are dropped with the confirm they wait for, or with their process.
LEMMA LossPays ==
    ASSUME CInv, BuffersOK', NEW w \in Worker, Reject(w) \/ Crash(w) PROVE Pays(w)
<1>1. /\ buffer \in [Worker -> [Event -> Nat]]
      /\ batch \in [Worker -> SUBSET DOMAIN rows]
      /\ current[w] \in Event
      /\ \A e \in DOMAIN rows : rows[e] \in Row
  BY DEF CInv, OInv, BuffersOK, PublishersOK, RowsOK
<1>2. Charged
  BY DEF Reject, Crash, Fault, Charged
<1>3. CASE Reject(w)
  <2> DEFINE e == current[w]
  <2>1. /\ buffer' = [buffer EXCEPT ![w][e] = buffer[w][e] - 1]
        /\ buffer[w][e] > 0
        /\ UNCHANGED <<rows, batch, queue>>
    BY <1>3 DEF Reject
  <2>2. e \in Event /\ e \in DOMAIN rows
    BY <1>1, <2>1 DEF CInv, Unwritten
  <2> HIDE DEF e
  <2>3. \A v \in Worker, f \in Event :
            buffer'[v][f] = IF v = w /\ f = e THEN buffer[w][e] - 1 ELSE buffer[v][f]
    BY <1>1, <2>1, <2>2
  <2>4. /\ \A v \in Worker \ {w} : \A f \in Event : Held(v, f)' = Held(v, f)
        /\ \A f \in Event : Held(w, f)' <= Held(w, f)
    BY <1>1, <2>1, <2>3 DEF Held
  <2>5. Attempted(rows')
    BY <2>1 DEF Attempted
  <2>6. \A f \in Event \ DOMAIN rows : \A v \in Worker : buffer'[v][f] = buffer[v][f]
    BY <2>2, <2>3
  <2> QED
    BY <1>2, <2>1, <2>4, <2>5, <2>6, Drops
<1>4. CASE Crash(w)
  <2>1. /\ rows' = [e \in DOMAIN rows |-> IF rows[e].owner = w
                                          THEN [rows[e] EXCEPT !.owner = Gone]
                                          ELSE rows[e]]
        /\ batch' = [batch EXCEPT ![w] = {}]
        /\ buffer' = [buffer EXCEPT ![w] = NoCopies]
        /\ UNCHANGED queue
    BY <1>4 DEF Crash
  <2>2. Attempted(rows')
    BY <1>1, <2>1, SameAttempts DEF Attempted
  <2>3. \A v \in Worker, f \in Event :
            /\ buffer'[v][f] = IF v = w THEN 0 ELSE buffer[v][f]
            /\ batch'[v] = IF v = w THEN {} ELSE batch[v]
    BY <1>1, <2>1 DEF NoCopies
  <2>4. /\ \A v \in Worker \ {w} : \A f \in Event : Held(v, f)' = Held(v, f)
        /\ \A f \in Event : Held(w, f)' <= Held(w, f)
    BY <1>1, <2>3 DEF Held
  <2>5. \A f \in Event \ DOMAIN rows : \A v \in Worker : buffer'[v][f] = buffer[v][f]
    BY <2>3 DEF CInv, Unwritten
  <2> QED
    BY <1>2, <2>1, <2>2, <2>4, <2>5, Drops
<1> QED
  BY <1>3, <1>4

\* Steps that leave the copies where they are.
LEMMA QuietPays ==
    ASSUME CInv, BuffersOK', NEW w \in Worker, Attempted(rows'), Charged,
           UNCHANGED <<batch, buffer, queue>>
    PROVE  Pays(w)
<1>1. \A v \in Worker : \A e \in Event : Held(v, e)' = Held(v, e)
  BY DEF Held
<1>2. \A e \in Event : Held(w, e)' <= Held(w, e)
  BY <1>1, HeldType DEF CInv
<1> QED
  BY <1>1, <1>2, Drops

\* Marking an event brings none nearer to another claim: what is published is
\* not claimed again, and what is given up was counted when it failed.
LEMMA MarkCharged ==
    ASSUME CInv, NEW w \in Worker, MarkPublished(w) \/ MarkFailed(w) PROVE Charged
<1> DEFINE f == current[w]
<1>1. /\ f \in DOMAIN rows /\ rows[f] \in Row
      /\ \E label \in {"poll", "batch"} :
            mode'[w] = label /\ \A v \in Worker \ {w} : mode'[v] = mode[v]
      /\ UNCHANGED <<current, faults>>
      /\ \/ mode[w] = "mark" /\ rows' = Published(w, f)
         \/ mode[w] = "failed" /\ rows' = Released(w, f)
  BY DEF MarkPublished, MarkFailed, GoOn, Goto, CInv, OInv, PublishersOK, AtWork, RowsOK
<1>2. ASSUME NEW e \in DOMAIN rows PROVE Again(e)' <= Again(e)
  <2>1. DOMAIN rows' = DOMAIN rows
    BY <1>1 DEF Published, Released
  <2>2. CASE e # f \/ ~Owns(w, e)
    <3>1. rows'[e] = rows[e]
      BY <1>1, <2>2 DEF Published, Released
    <3> QED
      BY <1>1, <2>1, <3>1, SameAgain
  <2>3. CASE e = f /\ Owns(w, e) /\ mode[w] = "mark"
    <3>1. rows'[e].published
      BY <1>1, <2>3 DEF Published, Row
    <3> QED
      BY <3>1 DEF Again
  <2>4. CASE e = f /\ Owns(w, e) /\ mode[w] = "failed"
    <3>1. GivenUp(e) /\ ~rows[e].published
      BY <2>4 DEF GivenUp, Owns
    <3> QED
      BY <3>1 DEF Again
  <2> QED
    BY <1>1, <2>2, <2>3, <2>4
<1> QED
  BY <1>1, <1>2 DEF Charged

\* Every step of a worker.
LEMMA WorkerPays ==
    ASSUME CInv, BuffersOK', NEW w \in Worker,
           \/ Publish(w) \/ Reject(w) \/ MarkError(w) \/ Crash(w) \/ Restart(w)
           \/ \E e \in Event : AcceptUnheard(w, e) \/ LoseConfirm(w, e)
    PROVE  Pays(w)
<1>1. CASE Confirm(w)
  <2>1. current[w] \in Event
    BY DEF CInv, OInv, PublishersOK
  <2>2. Charged
    BY <1>1, NoFailure DEF Confirm
  <2> QED
    BY <1>1, <2>1, <2>2, DeliverPays DEF Confirm
<1>2. ASSUME NEW e \in Event, AcceptUnheard(w, e) PROVE Pays(w)
  <2>1. UNCHANGED <<rows, mode, batch, current, faults>>
    BY <1>2 DEF AcceptUnheard
  <2>2. \A f \in DOMAIN rows : Again(f)' <= Again(f)
    BY <2>1, SameAgain
  <2> QED
    BY <1>2, <2>1, <2>2, DeliverPays DEF AcceptUnheard, Charged
<1>3. CASE Restart(w)
  <2>1. Charged
    BY <1>3, NoFailure DEF Restart
  <2> QED
    BY <1>3, <2>1, QuietPays DEF Restart, Attempted
<1>4. CASE TimeOut(w)
  BY <1>4, QuietPays DEF TimeOut, Attempted, Fault, Charged
<1>5. CASE MarkPublished(w) \/ MarkFailed(w) \/ MarkError(w)
  <2>1. UNCHANGED <<batch, buffer, queue>>
    BY <1>5 DEF MarkPublished, MarkFailed, MarkError
  <2>2. Attempted(rows)
    BY DEF Attempted
  <2>3. Attempted(rows')
    BY <1>5, <2>2, MarksAttempted DEF MarkPublished, MarkFailed, MarkError, CInv
  <2>4. Charged
    BY <1>5, MarkCharged DEF MarkError, Fault, Charged
  <2> QED
    BY <2>1, <2>3, <2>4, QuietPays
<1> QED
  BY <1>1, <1>2, <1>3, <1>4, <1>5, ClaimPays, EmitPays, LossPays, LoseConfirmPays DEF Publish

\* Sums over unchanged copies are unchanged.
LEMMA SameHands ==
    ASSUME UNCHANGED <<batch, buffer>>, NEW e PROVE InHand(e)' = InHand(e)
BY DEF InHand, Held

\* A step that claims and copies nothing, and is charged for what it allows.
LEMMA ChargedKept ==
    ASSUME CInv, OInv', BuffersOK', UNCHANGED <<batch, buffer, queue>>,
           Attempted(rows'), Charged
    PROVE  CInv'
<1>1. Unwritten'
  BY DEF CInv, Unwritten, Attempted
<1>2. ASSUME NEW e \in DOMAIN rows
      PROVE  /\ rows'[e].attempts + Again(e)' <= 1 + faults'
             /\ queue'[e] + InHand(e)' + Again(e)' <= 1 + faults'
  <2>1. rows'[e].attempts = rows[e].attempts /\ rows[e].attempts \in Int
    BY DEF Attempted, CInv, OInv, RowsOK, Row
  <2>2. queue'[e] = queue[e] /\ queue[e] \in Int /\ e \in Event
    BY DEF CInv, OInv, QueueOK, PublishersOK
  <2>3. InHand(e)' = InHand(e) /\ InHand(e) \in Int
    BY <2>2, HandsAreNumbers, SameHands DEF CInv
  <2>4. faults \in Int /\ faults' \in Int
    BY Constants DEF CInv, BuffersOK
  <2>5. Again(e) \in {0, 1} /\ Again(e)' \in {0, 1}
    BY DEF Again
  <2>6. Again(e)' + faults <= Again(e) + faults'
    BY <2>4, <2>5 DEF Charged
  <2>7. /\ rows[e].attempts + Again(e) <= 1 + faults
        /\ queue[e] + InHand(e) + Again(e) <= 1 + faults
    BY DEF CInv, Paid
  <2> QED
    BY <2>1, <2>2, <2>3, <2>4, <2>5, <2>6, <2>7
<1>3. Paid'
  BY <1>2 DEF Paid, Attempted
<1> QED
  BY <1>1, <1>3 DEF CInv

\* Time counts no attempt: a lease that runs out under a living worker is a
\* fault, and that of a dead one was counted when its worker died.
LEMMA TimePays ==
    ASSUME CInv, OInv', BuffersOK', NEW e \in DOMAIN rows, BecomeDue(e) \/ GoStale(e)
    PROVE  CInv'
<1>1. UNCHANGED <<mode, batch, current, buffer, queue>>
  BY DEF BecomeDue, GoStale
<1>2. /\ \A f \in DOMAIN rows : rows[f] \in Row
      /\ rows[e].published => rows[e].owner = Nobody
  BY DEF CInv, OInv, RowsOK, Leases
<1>3. /\ DOMAIN rows' = DOMAIN rows
      /\ \A f \in DOMAIN rows \ {e} : rows'[f] = rows[f]
      /\ \/ rows'[e] = [rows[e] EXCEPT !.due = TRUE] /\ UNCHANGED faults
         \/ /\ rows'[e] = [rows[e] EXCEPT !.stale = TRUE]
            /\ rows[e].owner # Nobody
            /\ IF rows[e].owner = Gone THEN UNCHANGED faults ELSE faults' = faults + 1
  BY DEF BecomeDue, GoStale, Fault
<1>4. Attempted(rows')
  <2>1. rows[e] \in Row
    BY <1>2
  <2>2. CASE rows'[e] = [rows[e] EXCEPT !.due = TRUE]
    <3>1. rows'[e].attempts = rows[e].attempts
      BY <2>1, <2>2 DEF Row
    <3> QED
      BY <1>3, <3>1 DEF Attempted
  <2>3. CASE rows'[e] = [rows[e] EXCEPT !.stale = TRUE]
    <3>1. rows'[e].attempts = rows[e].attempts
      BY <2>1, <2>3 DEF Row
    <3> QED
      BY <1>3, <3>1 DEF Attempted
  <2> QED
    BY <1>3, <2>2, <2>3
<1>5. \A f \in DOMAIN rows \ {e} : Again(f)' <= Again(f)
  BY <1>1, <1>3, SameAgain
<1>6. CASE rows'[e] = [rows[e] EXCEPT !.due = TRUE] /\ UNCHANGED faults
  <2>1. /\ rows'[e].published = rows[e].published
        /\ rows'[e].owner = rows[e].owner
        /\ rows'[e].stale = rows[e].stale
    BY <1>2, <1>6 DEF Row
  <2>2. Again(e)' <= Again(e)
    BY <1>1, <1>3, <2>1, SameAgain
  <2> QED
    BY <1>1, <1>4, <1>5, <1>6, <2>2, ChargedKept DEF Charged
<1>7. CASE rows[e].owner = Gone /\ UNCHANGED faults
  <2>1. Again(e) = 1
    BY <1>2, <1>7, Constants DEF Again
  <2>2. Again(e)' <= Again(e)
    BY <2>1 DEF Again
  <2> QED
    BY <1>1, <1>4, <1>5, <1>7, <2>2, ChargedKept DEF Charged
<1>8. CASE faults' = faults + 1
  BY <1>1, <1>4, <1>8, ChargedKept DEF Charged
<1> QED
  BY <1>3, <1>6, <1>7, <1>8

\* A new row has no attempts and no copies, and waits for its first claim.
LEMMA WritePays ==
    ASSUME CInv, OInv', BuffersOK', NEW e \in Event, Write(e)
    PROVE  CInv'
<1>1. /\ DOMAIN rows' = DOMAIN rows \cup {e}
      /\ e \notin DOMAIN rows
      /\ rows'[e] = NewRow
      /\ \A f \in DOMAIN rows : rows'[f] = rows[f]
      /\ UNCHANGED <<mode, batch, current, buffer, queue, faults>>
  BY DEF Write
<1>2. Unwritten'
  BY <1>1 DEF CInv, Unwritten
<1>3. InHand(e) = 0 /\ queue[e] = 0
  <2> DEFINE f == [w \in Worker |-> Held(w, e)]
  <2>1. queue[e] = 0 /\ \A w \in Worker : buffer[w][e] = 0 /\ e \notin batch[w]
    BY <1>1 DEF CInv, OInv, PublishersOK, Unwritten
  <2>2. DOMAIN f = Worker /\ \A w \in Worker : f[w] = 0
    BY <2>1 DEF Held
  <2>3. IsFiniteSet(Worker)
    BY OutboxAssumption
  <2>4. InHand(e) = SumFunctionOnSet(f, Worker)
    BY <2>2 DEF InHand, SumFunction
  <2> HIDE DEF f
  <2>5. SumFunctionOnSet(f, Worker) = 0
    BY <2>2, <2>3, SumZero
  <2> QED
    BY <2>1, <2>4, <2>5
<1>4. NewRow.attempts = 0 /\ Again(e)' \in {0, 1} /\ faults \in Nat
  BY Constants DEF NewRow, Again, CInv, BuffersOK
<1>5. ASSUME NEW f \in DOMAIN rows'
      PROVE  /\ rows'[f].attempts + Again(f)' <= 1 + faults'
             /\ queue'[f] + InHand(f)' + Again(f)' <= 1 + faults'
  <2>1. CASE f = e
    BY <1>1, <1>3, <1>4, <2>1, SameHands
  <2>2. CASE f \in DOMAIN rows
    <3>1. Again(f)' = Again(f)
      BY <1>1, <2>2 DEF Again, GivenUp
    <3> QED
      BY <1>1, <2>2, <3>1, SameHands DEF CInv, Paid
  <2> QED
    BY <1>1, <2>1, <2>2
<1>6. Paid'
  BY <1>5 DEF Paid
<1> QED
  BY <1>2, <1>6 DEF CInv

\* Nothing changes.
LEMMA StutterPays ==
    ASSUME CInv, OInv', BuffersOK', UNCHANGED vars PROVE CInv'
<1>1. UNCHANGED <<rows, mode, batch, current, buffer, queue, faults>>
  BY DEF vars
<1>2. Attempted(rows')
  BY <1>1 DEF Attempted
<1>3. Charged
  BY <1>1, SameAgain DEF Charged
<1> QED
  BY <1>1, <1>2, <1>3, ChargedKept

\* Every claim of an event after the first, and every copy of its message after
\* the first, in the queue, in a client or still to be emitted, has something
\* that went wrong behind it: a publisher that is only retried, redundant or
\* restarted in good order sends nothing twice.
THEOREM RepeatsHaveCauses == Spec => []ResentOnlyAfterFaults
<1>1. Init => BuffersOK
  BY BuffersInit
<1>2. Init => Unwritten /\ Paid
  BY DEF Init, NoCopies, Unwritten, Paid
<1>3. OInv /\ BuffersOK /\ [Next]_vars => OInv' /\ BuffersOK'
  BY Step, BuffersKept DEF StepKept, TableKept, PubInv, OInv
<1>4. CInv /\ [Next]_vars => CInv'
  <2> SUFFICES ASSUME CInv, [Next]_vars PROVE CInv'
    OBVIOUS
  <2>1. OInv' /\ BuffersOK'
    BY <1>3 DEF CInv
  <2>2. ASSUME NEW w \in Worker, Pays(w) PROVE CInv'
    BY <2>1, <2>2, PaysKept
  <2>3. CASE Next
    BY <2>1, <2>2, <2>3, WritePays, TimePays, WorkerPays DEF Next
  <2> QED
    BY <2>1, <2>3, StutterPays
<1>5. Init => CInv
  BY <1>1, <1>2, InitInv DEF CInv
<1>6. CInv => ResentOnlyAfterFaults
  <2> SUFFICES ASSUME CInv, NEW e \in DOMAIN rows
               PROVE  /\ rows[e].attempts <= 1 + faults
                      /\ queue[e] + InHand(e) <= 1 + faults
    BY DEF ResentOnlyAfterFaults, InHand
  <2>1. /\ e \in Event /\ queue[e] \in Int /\ rows[e].attempts \in Int
        /\ faults \in Int /\ Again(e) \in {0, 1}
    BY Constants DEF CInv, OInv, QueueOK, RowsOK, Row, PublishersOK, BuffersOK, Again
  <2>2. InHand(e) \in Int
    BY <2>1, HandsAreNumbers DEF CInv
  <2> QED
    BY <2>1, <2>2 DEF CInv, Paid
<1> QED
  BY <1>4, <1>5, <1>6, PTL DEF Spec

-----------------------------------------------------------------------------
(* DELIVERY.                                                               *)

Copies == [Event -> Nat]

-----------------------------------------------------------------------------
(* The inductive invariant.                                                *)

SendersOK ==
    /\ DOMAIN rows \subseteq Event
    /\ \A e \in DOMAIN rows : "published" \in DOMAIN rows[e]
    /\ mode \in [Worker -> {"poll", "batch", "emit", "mark", "failed", "down"}]
    /\ batch \in [Worker -> SUBSET DOMAIN rows]
    /\ current \in [Worker -> Event]
    /\ buffer \in [Worker -> Copies]

ConsumersOK ==
    /\ queue \in Copies
    /\ handling \in [Consumer -> Copies]
    /\ stored \in [Consumer -> Copies]
    /\ orphan \in [Consumer -> Copies]
    /\ notifications \in [Event -> {0, 1}]

\* Nobody has heard of an event that is not committed.
OnlyCommitted ==
    \A e \in Event \ DOMAIN rows :
        /\ queue[e] = 0
        /\ notifications[e] = 0
        /\ \A w \in Worker : buffer[w][e] = 0
        /\ \A c \in Consumer : handling[c][e] = 0 /\ orphan[c][e] = 0

\* What is ready to be acknowledged has been notified.
StoredFirst ==
    \A c \in Consumer : \A e \in Event : stored[c][e] > 0 => notifications[e] = 1

\* An event that is safe stays so: it has its notification, or a copy on the
\* way that somebody answers for.
Safe(e) == notifications[e] = 1 \/ Underway(e)

\* What a publisher is about to mark, and what is marked, is safe.
HeardIsSafe == \A w \in Worker : mode[w] = "mark" => Safe(current[w])
PublishedIsSafe == \A e \in DOMAIN rows : rows[e].published => Safe(e)

DInv ==
    /\ SendersOK
    /\ ConsumersOK
    /\ OnlyCommitted
    /\ StoredFirst
    /\ HeardIsSafe
    /\ PublishedIsSafe

-----------------------------------------------------------------------------
(* Steps of the Orders service.                                            *)

\* What no step of a publisher does: take a row or a copy away from the
\* consumers, send what is not committed, or mark what nobody has accepted.
Sends ==
    /\ DOMAIN rows \subseteq DOMAIN rows'
    /\ queue' \in Copies
    /\ \A e \in Event : queue[e] <= queue'[e]
    /\ \A e \in Event \ DOMAIN rows' :
          queue'[e] = 0 /\ \A w \in Worker : buffer'[w][e] = 0
    /\ \A w \in Worker : mode'[w] = "mark" =>
          \/ mode[w] = "mark" /\ current'[w] = current[w]
          \/ queue'[current'[w]] > 0
    /\ \A e \in DOMAIN rows' : rows'[e].published =>
          \/ e \in DOMAIN rows /\ rows[e].published
          \/ \E w \in Worker : mode[w] = "mark" /\ current[w] = e

\* Such a step keeps the invariant.
LEMMA SendStep ==
    ASSUME DInv, SendersOK', Sends,
           UNCHANGED <<handling, stored, orphan, notifications>>
    PROVE  DInv'
<1>1. ConsumersOK' /\ StoredFirst'
  BY DEF DInv, ConsumersOK, StoredFirst, Sends
<1>2. OnlyCommitted'
  BY DEF DInv, OnlyCommitted, Sends
<1>3. ASSUME NEW e \in Event, Safe(e) PROVE Safe(e)'
  BY <1>3 DEF Safe, Underway, Sends, DInv, ConsumersOK, Copies
<1>4. HeardIsSafe'
  <2> SUFFICES ASSUME NEW w \in Worker, mode'[w] = "mark",
                      NEW e \in Event, e = current'[w]
               PROVE  Safe(e)'
    BY DEF HeardIsSafe, SendersOK, Safe, Underway
  <2>1. CASE mode[w] = "mark" /\ e = current[w]
    BY <1>3, <2>1 DEF DInv, HeardIsSafe
  <2>2. CASE queue'[e] > 0
    BY <2>2 DEF Safe, Underway
  <2> QED
    BY <2>1, <2>2 DEF Sends
<1>5. PublishedIsSafe'
  <2> SUFFICES ASSUME NEW e \in DOMAIN rows', rows'[e].published PROVE Safe(e)'
    BY DEF PublishedIsSafe
  <2>1. e \in Event
    BY DEF SendersOK
  <2>2. Safe(e)
    BY DEF Sends, DInv, HeardIsSafe, PublishedIsSafe
  <2> QED
    BY <1>3, <2>1, <2>2
<1> QED
  BY <1>1, <1>2, <1>4, <1>5 DEF DInv

\* A step that touches no copies, marks only what was heard, and changes rows
\* only as the functions on rows do.
LEMMA QuietStep ==
    ASSUME DInv, UNCHANGED <<buffer, queue, handling, stored, orphan, notifications>>,
           SendersOK', DOMAIN rows' = DOMAIN rows,
           \A w \in Worker : mode'[w] = "mark" =>
               mode[w] = "mark" /\ current'[w] = current[w],
           \A e \in DOMAIN rows : rows'[e].published =>
               \/ rows[e].published
               \/ \E w \in Worker : mode[w] = "mark" /\ current[w] = e
    PROVE  DInv'
<1>1. queue' \in Copies /\ \A e \in Event : queue[e] <= queue'[e]
  BY DEF DInv, ConsumersOK, Copies
<1>2. \A e \in Event \ DOMAIN rows' :
         queue'[e] = 0 /\ \A w \in Worker : buffer'[w][e] = 0
  BY DEF DInv, OnlyCommitted
<1>3. Sends
  BY <1>1, <1>2 DEF Sends
<1> QED
  BY <1>3, SendStep

\* What a function of the table may do to the rows: mark one event, or none.
Marks(table, e) ==
    /\ DOMAIN table = DOMAIN rows
    /\ \A f \in DOMAIN rows : "published" \in DOMAIN table[f]
    /\ \A f \in DOMAIN rows : table[f].published => rows[f].published \/ f = e

MarksNothing(table) ==
    /\ DOMAIN table = DOMAIN rows
    /\ \A f \in DOMAIN rows : "published" \in DOMAIN table[f]
    /\ \A f \in DOMAIN rows : table[f].published => rows[f].published

\* A row keeps its flag when its lease, its delay or its attempts change.
LEMMA SameFlag ==
    ASSUME NEW row, "published" \in DOMAIN row, NEW x, NEW y, NEW z
    PROVE  /\ "published" \in DOMAIN [row EXCEPT !.owner = x]
           /\ [row EXCEPT !.owner = x].published = row.published
           /\ "published" \in DOMAIN [row EXCEPT !.due = x]
           /\ [row EXCEPT !.due = x].published = row.published
           /\ "published" \in DOMAIN [row EXCEPT !.stale = x]
           /\ [row EXCEPT !.stale = x].published = row.published
           /\ "published" \in DOMAIN [row EXCEPT !.owner = x, !.stale = y, !.attempts = z]
           /\ [row EXCEPT !.owner = x, !.stale = y, !.attempts = z].published = row.published
           /\ "published" \in DOMAIN [row EXCEPT !.owner = x, !.stale = y, !.due = z]
           /\ [row EXCEPT !.owner = x, !.stale = y, !.due = z].published = row.published
OBVIOUS

\* A claim publishes nothing.
LEMMA LeasedMarks ==
    ASSUME SendersOK, NEW w \in Worker, NEW claim
    PROVE  MarksNothing(Leased(claim, w))
<1>1. DOMAIN Leased(claim, w) = DOMAIN rows
  BY DEF Leased
<1>2. ASSUME NEW f \in DOMAIN rows
      PROVE  /\ "published" \in DOMAIN Leased(claim, w)[f]
             /\ Leased(claim, w)[f].published = rows[f].published
  <2>1. "published" \in DOMAIN rows[f]
    BY DEF SendersOK
  <2>2. CASE f \in claim
    <3>1. Leased(claim, w)[f] =
             [rows[f] EXCEPT !.owner = w, !.stale = FALSE, !.attempts = rows[f].attempts + 1]
      BY <2>2 DEF Leased
    <3> QED
      BY <2>1, <3>1, SameFlag
  <2>3. CASE f \notin claim
    BY <2>1, <2>3 DEF Leased
  <2> QED
    BY <2>2, <2>3
<1> QED
  BY <1>1, <1>2 DEF MarksNothing

\* markPublished publishes the event it is for, or nothing.
LEMMA PublishedMarks ==
    ASSUME SendersOK, NEW w \in Worker, NEW e \in Event
    PROVE  Marks(Published(w, e), e)
<1>1. DOMAIN Published(w, e) = DOMAIN rows
  BY DEF Published
<1>2. ASSUME NEW f \in DOMAIN rows
      PROVE  "published" \in DOMAIN Published(w, e)[f]
  BY DEF Published, SendersOK
<1>3. ASSUME NEW f \in DOMAIN rows, f # e
      PROVE  Published(w, e)[f] = rows[f]
  BY <1>3 DEF Published
<1> QED
  BY <1>1, <1>2, <1>3 DEF Marks

\* markFailed publishes nothing.
LEMMA ReleasedMarks ==
    ASSUME SendersOK, NEW w \in Worker, NEW e \in Event
    PROVE  MarksNothing(Released(w, e))
<1>1. DOMAIN Released(w, e) = DOMAIN rows
  BY DEF Released
<1>2. ASSUME NEW f \in DOMAIN rows
      PROVE  /\ "published" \in DOMAIN Released(w, e)[f]
             /\ Released(w, e)[f].published = rows[f].published
  <2>1. "published" \in DOMAIN rows[f]
    BY DEF SendersOK
  <2>2. CASE Owns(w, e) /\ f = e
    <3>1. Released(w, e)[f] =
             [rows[f] EXCEPT !.owner = Nobody, !.stale = FALSE, !.due = FALSE]
      BY <2>2 DEF Released
    <3> QED
      BY <2>1, <3>1, SameFlag
  <2>3. CASE ~Owns(w, e) \/ f # e
    BY <2>1, <2>3 DEF Released
  <2> QED
    BY <2>2, <2>3
<1> QED
  BY <1>1, <1>2 DEF MarksNothing
-----------------------------------------------------------------------------
(* The actions of the publishers.                                          *)

Still == UNCHANGED <<handling, stored, orphan, notifications>>

\* A publisher goes to a label other than "mark" and sends nothing; what it does
\* to the table marks at most what it was about to mark.
LEMMA Turn ==
    ASSUME DInv, Still, UNCHANGED <<buffer, queue, current>>, NEW w \in Worker,
           NEW label \in {"poll", "batch", "emit", "failed", "down"}, Goto(w, label),
           batch' \in [Worker -> SUBSET DOMAIN rows],
           \/ MarksNothing(rows')
           \/ mode[w] = "mark" /\ Marks(rows', current[w])
    PROVE  DInv'
<1>1. mode' = [mode EXCEPT ![w] = label]
  BY DEF Goto
<1>2. /\ DOMAIN rows' = DOMAIN rows
      /\ \A e \in DOMAIN rows' : "published" \in DOMAIN rows'[e]
  BY DEF MarksNothing, Marks
<1>3. mode' \in [Worker -> {"poll", "batch", "emit", "mark", "failed", "down"}]
  BY <1>1 DEF DInv, SendersOK
<1>4. SendersOK'
  BY <1>2, <1>3 DEF DInv, SendersOK
<1>5. ASSUME NEW v \in Worker, mode'[v] = "mark"
      PROVE  mode[v] = "mark" /\ current'[v] = current[v]
  BY <1>1, <1>5 DEF DInv, SendersOK
<1>6. \A e \in DOMAIN rows : rows'[e].published =>
         \/ rows[e].published
         \/ \E v \in Worker : mode[v] = "mark" /\ current[v] = e
  BY DEF MarksNothing, Marks
<1> QED
  BY <1>2, <1>4, <1>5, <1>6, QuietStep DEF Still

\* The rows as they are.
LEMMA SameRows == ASSUME DInv, UNCHANGED rows PROVE MarksNothing(rows')
BY DEF DInv, SendersOK, MarksNothing

\* A new event is pending, unclaimed and nowhere announced.
LEMMA WriteInv == ASSUME DInv, Still, NEW e \in Event, Write(e) PROVE DInv'
<1>1. /\ DOMAIN rows' = DOMAIN rows \cup {e}
      /\ rows'[e] = NewRow
      /\ \A f \in DOMAIN rows : rows'[f] = rows[f]
      /\ UNCHANGED <<mode, batch, current, buffer, queue>>
      /\ e \notin DOMAIN rows
  BY DEF Write
<1>2. "published" \in DOMAIN NewRow /\ ~NewRow.published
  BY DEF NewRow
<1>3. SendersOK'
  BY <1>1, <1>2 DEF DInv, SendersOK
<1>4. \A f \in DOMAIN rows' : rows'[f].published => f \in DOMAIN rows /\ rows[f].published
  BY <1>1, <1>2
<1>5. queue' \in Copies /\ \A f \in Event : queue[f] <= queue'[f]
  BY <1>1 DEF DInv, ConsumersOK, Copies
<1>6. \A f \in Event \ DOMAIN rows' :
         queue'[f] = 0 /\ \A w \in Worker : buffer'[w][f] = 0
  BY <1>1 DEF DInv, OnlyCommitted
<1>7. Sends
  BY <1>1, <1>4, <1>5, <1>6 DEF Sends
<1> QED
  BY <1>3, <1>7, SendStep DEF Still

\* A claim takes a row that no living worker holds.
LEMMA ClaimInv == ASSUME DInv, Still, NEW w \in Worker, Claim(w) PROVE DInv'
<1>1. PICK claim \in SUBSET Candidates :
          rows' = Leased(claim, w) /\ batch' = [batch EXCEPT ![w] = claim]
  BY DEF Claim
<1>2. Goto(w, "batch") /\ UNCHANGED <<current, buffer, queue>>
  BY DEF Claim
<1>3. MarksNothing(rows')
  BY <1>1, LeasedMarks DEF DInv
<1>4. batch' \in [Worker -> SUBSET DOMAIN rows]
  BY <1>1 DEF DInv, SendersOK, Candidates
<1> QED
  BY <1>2, <1>3, <1>4, Turn

\* A copy enters the client of the publisher: of a row of the table.
LEMMA EmitInv == ASSUME DInv, Still, NEW w \in Worker, Emit(w) PROVE DInv'
<1>1. PICK e \in batch[w] :
          /\ current' = [current EXCEPT ![w] = e]
          /\ batch' = [batch EXCEPT ![w] = @ \ {e}]
          /\ buffer' = [buffer EXCEPT ![w][e] = @ + 1]
  BY DEF Emit
<1>2. mode' = [mode EXCEPT ![w] = "emit"] /\ UNCHANGED <<rows, queue>>
  BY DEF Emit, Goto
<1>3. e \in DOMAIN rows /\ e \in Event
  BY DEF DInv, SendersOK
<1>4. buffer' \in [Worker -> Copies]
  BY <1>1, <1>3 DEF DInv, SendersOK, Copies
<1>5. mode' \in [Worker -> {"poll", "batch", "emit", "mark", "failed", "down"}]
  BY <1>2 DEF DInv, SendersOK
<1>6. /\ current' \in [Worker -> Event]
      /\ batch' \in [Worker -> SUBSET DOMAIN rows']
  BY <1>1, <1>2, <1>3 DEF DInv, SendersOK
<1>7. SendersOK'
  BY <1>2, <1>4, <1>5, <1>6 DEF DInv, SendersOK
<1>8. ASSUME NEW f \in Event \ DOMAIN rows, NEW v \in Worker PROVE buffer'[v][f] = 0
  BY <1>1, <1>3 DEF DInv, OnlyCommitted, SendersOK, Copies
<1>9. ASSUME NEW v \in Worker, mode'[v] = "mark"
      PROVE  mode[v] = "mark" /\ current'[v] = current[v]
  BY <1>1, <1>2, <1>9 DEF DInv, SendersOK
<1>10. queue' \in Copies /\ \A f \in Event : queue[f] <= queue'[f]
  BY <1>2 DEF DInv, ConsumersOK, Copies
<1>11. \A f \in Event \ DOMAIN rows' :
          queue'[f] = 0 /\ \A v \in Worker : buffer'[v][f] = 0
  BY <1>2, <1>8 DEF DInv, OnlyCommitted
<1>12. Sends
  BY <1>2, <1>9, <1>10, <1>11 DEF Sends
<1> QED
  BY <1>7, <1>12, SendStep DEF Still

\* The queue takes a copy from a client.
LEMMA Delivered ==
    ASSUME DInv, NEW w \in Worker, NEW e \in Event, Deliver(w, e)
    PROVE  /\ buffer' \in [Worker -> Copies]
           /\ queue' \in Copies
           /\ \A f \in Event : queue[f] <= queue'[f]
           /\ queue'[e] > 0
           /\ \A f \in Event \ DOMAIN rows :
                 queue'[f] = 0 /\ \A v \in Worker : buffer'[v][f] = 0
<1>1. /\ buffer[w][e] > 0
      /\ buffer' = [buffer EXCEPT ![w][e] = @ - 1]
      /\ queue' = [queue EXCEPT ![e] = @ + 1]
  BY DEF Deliver
<1>2. /\ buffer \in [Worker -> [Event -> Nat]]
      /\ queue \in [Event -> Nat]
      /\ buffer[w][e] \in Nat
      /\ queue[e] \in Nat
  BY DEF DInv, SendersOK, ConsumersOK, Copies
<1>3. e \in DOMAIN rows
  BY <1>1 DEF DInv, OnlyCommitted
<1>4. buffer' \in [Worker -> Copies]
  BY <1>1, <1>2 DEF Copies
<1>5. queue' \in Copies /\ queue'[e] > 0 /\ \A f \in Event : queue[f] <= queue'[f]
  BY <1>1, <1>2 DEF Copies
<1>6. ASSUME NEW f \in Event \ DOMAIN rows
      PROVE  queue'[f] = 0 /\ \A v \in Worker : buffer'[v][f] = 0
  BY <1>1, <1>2, <1>3 DEF DInv, OnlyCommitted
<1> QED
  BY <1>4, <1>5, <1>6

\* The broker took the message of an attempt still under way.
LEMMA ConfirmInv == ASSUME DInv, Still, NEW w \in Worker, Confirm(w) PROVE DInv'
<1>1. /\ Deliver(w, current[w])
      /\ mode' = [mode EXCEPT ![w] = "mark"]
      /\ UNCHANGED <<rows, batch, current>>
  BY DEF Confirm, Goto
<1>2. current[w] \in Event
  BY DEF DInv, SendersOK
<1>3. mode' \in [Worker -> {"poll", "batch", "emit", "mark", "failed", "down"}]
  BY <1>1 DEF DInv, SendersOK
<1>4. SendersOK'
  BY <1>1, <1>2, <1>3, Delivered DEF DInv, SendersOK
<1>5. \A v \in Worker : mode'[v] = "mark" =>
         \/ mode[v] = "mark" /\ current'[v] = current[v]
         \/ queue'[current'[v]] > 0
  BY <1>1, <1>2, Delivered DEF DInv, SendersOK
<1>6. Sends
  BY <1>1, <1>2, <1>5, Delivered DEF Sends
<1> QED
  BY <1>4, <1>6, SendStep DEF Still

\* The broker took a message whose attempt has ended.
LEMMA AcceptInv ==
    ASSUME DInv, Still, NEW w \in Worker, NEW e \in Event, AcceptUnheard(w, e)
    PROVE  DInv'
<1>1. Deliver(w, e) /\ UNCHANGED <<rows, mode, batch, current>>
  BY DEF AcceptUnheard
<1>2. SendersOK'
  BY <1>1, Delivered DEF DInv, SendersOK
<1>3. Sends
  BY <1>1, Delivered DEF Sends
<1> QED
  BY <1>2, <1>3, SendStep DEF Still

\* The broker took a message and the client, which does not know, keeps it.
LEMMA LoseConfirmInv ==
    ASSUME DInv, Still, NEW w \in Worker, NEW e \in Event, LoseConfirm(w, e)
    PROVE  DInv'
<1>1. /\ buffer[w][e] > 0
      /\ queue' = [queue EXCEPT ![e] = @ + 1]
      /\ UNCHANGED <<rows, mode, batch, current, buffer>>
  BY DEF LoseConfirm
<1>2. queue \in [Event -> Nat]
  BY DEF DInv, ConsumersOK, Copies
<1>3. e \in DOMAIN rows
  BY <1>1 DEF DInv, OnlyCommitted
<1>4. SendersOK'
  BY <1>1 DEF DInv, SendersOK
<1>5. queue' \in Copies /\ \A f \in Event : queue[f] <= queue'[f]
  BY <1>1, <1>2 DEF Copies
<1>6. \A f \in Event \ DOMAIN rows :
         queue'[f] = 0 /\ \A v \in Worker : buffer'[v][f] = 0
  BY <1>1, <1>2, <1>3 DEF DInv, OnlyCommitted
<1>7. Sends
  BY <1>1, <1>5, <1>6 DEF Sends
<1> QED
  BY <1>4, <1>7, SendStep DEF Still

\* The client drops the message and the publisher marks a failure.
LEMMA RejectStep == ASSUME DInv, Still, NEW w \in Worker, Reject(w) PROVE DInv'
<1>1. /\ buffer[w][current[w]] > 0
      /\ buffer' = [buffer EXCEPT ![w][current[w]] = @ - 1]
      /\ mode' = [mode EXCEPT ![w] = "failed"]
      /\ UNCHANGED <<rows, batch, current, queue>>
  BY DEF Reject, Goto
<1>2. current[w] \in Event /\ buffer[w][current[w]] \in Nat
  BY DEF DInv, SendersOK, Copies
<1>3. buffer' \in [Worker -> Copies]
  BY <1>1, <1>2 DEF DInv, SendersOK, Copies
<1>4. mode' \in [Worker -> {"poll", "batch", "emit", "mark", "failed", "down"}]
  BY <1>1 DEF DInv, SendersOK
<1>5. SendersOK'
  BY <1>1, <1>3, <1>4 DEF DInv, SendersOK
<1>6. ASSUME NEW v \in Worker, mode'[v] = "mark"
      PROVE  mode[v] = "mark" /\ current'[v] = current[v]
  BY <1>1, <1>6 DEF DInv, SendersOK
<1>7. current[w] \in DOMAIN rows
  BY <1>1, <1>2 DEF DInv, OnlyCommitted
<1>8. ASSUME NEW f \in Event \ DOMAIN rows, NEW v \in Worker PROVE buffer'[v][f] = 0
  BY <1>1, <1>7 DEF DInv, OnlyCommitted, SendersOK, Copies
<1>9. queue' \in Copies /\ \A f \in Event : queue[f] <= queue'[f]
  BY <1>1 DEF DInv, ConsumersOK, Copies
<1>10. \A f \in Event \ DOMAIN rows' :
          queue'[f] = 0 /\ \A v \in Worker : buffer'[v][f] = 0
  BY <1>1, <1>8 DEF DInv, OnlyCommitted
<1>11. Sends
  BY <1>1, <1>6, <1>9, <1>10 DEF Sends
<1> QED
  BY <1>5, <1>11, SendStep DEF Still

\* An attempt times out: its message may still be taken later.
LEMMA TimeOutStep == ASSUME DInv, Still, NEW w \in Worker, TimeOut(w) PROVE DInv'
<1>1. Goto(w, "failed") /\ UNCHANGED <<rows, batch, current, buffer, queue>>
  BY DEF TimeOut
<1>2. MarksNothing(rows')
  BY <1>1, SameRows
<1>3. batch' \in [Worker -> SUBSET DOMAIN rows]
  BY <1>1 DEF DInv, SendersOK
<1> QED
  BY <1>1, <1>2, <1>3, Turn

\* A row is marked published only after a confirm, or goes back.
LEMMA MarkInv ==
    ASSUME DInv, Still, NEW w \in Worker, MarkPublished(w) \/ MarkError(w) \/ MarkFailed(w)
    PROVE  DInv'
<1>1. UNCHANGED <<batch, current, buffer, queue>>
  BY DEF MarkPublished, MarkError, MarkFailed
<1>2. PICK label \in {"poll", "batch", "failed"} : Goto(w, label)
  BY DEF MarkPublished, MarkError, MarkFailed, GoOn
<1>3. current[w] \in Event
  BY DEF DInv, SendersOK
<1>4. \/ MarksNothing(rows')
      \/ mode[w] = "mark" /\ Marks(rows', current[w])
  <2>1. CASE mode[w] = "mark" /\ rows' = Published(w, current[w])
    <3>1. Marks(Published(w, current[w]), current[w])
      BY <1>3, PublishedMarks DEF DInv
    <3> QED
      BY <2>1, <3>1
  <2>2. CASE rows' = rows
    BY <2>2 DEF MarksNothing, DInv, SendersOK
  <2>3. CASE rows' = Released(w, current[w])
    <3>1. MarksNothing(Released(w, current[w]))
      BY <1>3, ReleasedMarks DEF DInv
    <3> QED
      BY <2>3, <3>1 DEF MarksNothing
  <2> QED
    BY <2>1, <2>2, <2>3 DEF MarkPublished, MarkError, MarkFailed
<1>5. batch' \in [Worker -> SUBSET DOMAIN rows]
  BY <1>1 DEF DInv, SendersOK
<1> QED
  BY <1>1, <1>2, <1>4, <1>5, Turn

\* A crash forgets the attempt and what the client had buffered.
LEMMA CrashInv == ASSUME DInv, Still, NEW w \in Worker, Crash(w) PROVE DInv'
<1>1. /\ mode' = [mode EXCEPT ![w] = "down"]
      /\ batch' = [batch EXCEPT ![w] = {}]
      /\ buffer' = [buffer EXCEPT ![w] = NoCopies]
      /\ UNCHANGED <<current, queue>>
  BY DEF Crash, Goto
<1>2. DOMAIN rows' = DOMAIN rows
  BY DEF Crash
<1>3. ASSUME NEW e \in DOMAIN rows
      PROVE  "published" \in DOMAIN rows'[e] /\ rows'[e].published = rows[e].published
  <2>1. "published" \in DOMAIN rows[e]
    BY DEF DInv, SendersOK
  <2>2. rows'[e] = rows[e] \/ rows'[e] = [rows[e] EXCEPT !.owner = Gone]
    BY DEF Crash
  <2> QED
    BY <2>1, <2>2, SameFlag
<1>4. NoCopies \in Copies /\ \A e \in Event : NoCopies[e] = 0
  BY DEF NoCopies, Copies
<1>5. mode' \in [Worker -> {"poll", "batch", "emit", "mark", "failed", "down"}]
  BY <1>1 DEF DInv, SendersOK
<1>6. batch' \in [Worker -> SUBSET DOMAIN rows'] /\ buffer' \in [Worker -> Copies]
  BY <1>1, <1>2, <1>4 DEF DInv, SendersOK
<1>7. SendersOK'
  BY <1>1, <1>2, <1>3, <1>5, <1>6 DEF DInv, SendersOK
<1>8. ASSUME NEW v \in Worker, mode'[v] = "mark"
      PROVE  mode[v] = "mark" /\ current'[v] = current[v]
  BY <1>1, <1>8 DEF DInv, SendersOK
<1>9. \A f \in Event \ DOMAIN rows' :
         queue'[f] = 0 /\ \A v \in Worker : buffer'[v][f] = 0
  BY <1>1, <1>2, <1>4 DEF DInv, OnlyCommitted, SendersOK
<1>10. queue' \in Copies /\ \A f \in Event : queue[f] <= queue'[f]
  BY <1>1 DEF DInv, ConsumersOK, Copies
<1>11. Sends
  BY <1>2, <1>3, <1>8, <1>9, <1>10 DEF Sends
<1> QED
  BY <1>7, <1>11, SendStep DEF Still

\* A worker starts with nothing in hand.
LEMMA RestartInv == ASSUME DInv, Still, NEW w \in Worker, Restart(w) PROVE DInv'
<1>1. Goto(w, "poll") /\ UNCHANGED <<rows, batch, current, buffer, queue>>
  BY DEF Restart
<1>2. MarksNothing(rows')
  BY <1>1, SameRows
<1>3. batch' \in [Worker -> SUBSET DOMAIN rows]
  BY <1>1 DEF DInv, SendersOK
<1> QED
  BY <1>1, <1>2, <1>3, Turn

\* The clock.
LEMMA TimeInv ==
    ASSUME DInv, Still, NEW e \in DOMAIN rows, BecomeDue(e) \/ GoStale(e)
    PROVE  DInv'
<1>1. UNCHANGED <<mode, batch, current, buffer, queue>>
  BY DEF BecomeDue, GoStale
<1>2. /\ DOMAIN rows' = DOMAIN rows
      /\ \A f \in DOMAIN rows : f # e => rows'[f] = rows[f]
      /\ \/ rows'[e] = [rows[e] EXCEPT !.due = TRUE]
         \/ rows'[e] = [rows[e] EXCEPT !.stale = TRUE]
  BY DEF BecomeDue, GoStale
<1>3. ASSUME NEW f \in DOMAIN rows
      PROVE  "published" \in DOMAIN rows'[f] /\ rows'[f].published = rows[f].published
  <2>1. "published" \in DOMAIN rows[f]
    BY DEF DInv, SendersOK
  <2> QED
    BY <1>2, <2>1, SameFlag
<1>4. SendersOK'
  BY <1>1, <1>2, <1>3 DEF DInv, SendersOK
<1> QED
  BY <1>1, <1>2, <1>3, <1>4, QuietStep DEF Still

\* Every step of the publishing side keeps the invariant.
LEMMA PublishingInv == ASSUME DInv, Publishing PROVE DInv'
<1>1. Next /\ Still
  BY DEF Publishing, Still
<1>2. CASE \E e \in Event : Write(e)
  BY <1>1, <1>2, WriteInv
<1>3. CASE \E e \in DOMAIN rows : BecomeDue(e) \/ GoStale(e)
  BY <1>1, <1>3, TimeInv
<1>4. CASE \E w \in Worker : Publish(w)
  BY <1>1, <1>4, ClaimInv, EmitInv, ConfirmInv, TimeOutStep, MarkInv DEF Publish
<1>5. CASE \E w \in Worker : Reject(w) \/ MarkError(w) \/ Crash(w) \/ Restart(w)
  BY <1>1, <1>5, RejectStep, MarkInv, CrashInv, RestartInv
<1>6. CASE \E w \in Worker : \E e \in Event : AcceptUnheard(w, e) \/ LoseConfirm(w, e)
  BY <1>1, <1>6, AcceptInv, LoseConfirmInv
<1> QED
  BY <1>1, <1>2, <1>3, <1>4, <1>5, <1>6 DEF Next

-----------------------------------------------------------------------------
(* The actions of the broker and of the consumers.                         *)

\* A step of the consumers keeps the invariant if it keeps what is safe.
LEMMA TakeStep ==
    ASSUME DInv, UNCHANGED <<rows, mode, batch, current, buffer>>,
           ConsumersOK', OnlyCommitted', StoredFirst',
           \A e \in Event : Safe(e) => Safe(e)'
    PROVE  DInv'
<1>1. SendersOK'
  BY DEF DInv, SendersOK
<1>2. HeardIsSafe'
  <2> SUFFICES ASSUME NEW w \in Worker, mode[w] = "mark",
                      NEW e \in Event, e = current[w]
               PROVE  Safe(e)'
    BY DEF HeardIsSafe, DInv, SendersOK, Safe, Underway
  <2> QED
    BY DEF DInv, HeardIsSafe
<1>3. PublishedIsSafe'
  <2> SUFFICES ASSUME NEW e \in DOMAIN rows, rows[e].published PROVE Safe(e)'
    BY DEF PublishedIsSafe
  <2>1. e \in Event /\ Safe(e)
    BY DEF DInv, SendersOK, PublishedIsSafe
  <2> QED
    BY <2>1
<1> QED
  BY <1>1, <1>2, <1>3 DEF DInv

\* An INSERT leaves at most one notification, and none of another event.
LEMMA InsertedOne ==
    ASSUME ConsumersOK, NEW e \in Event,
           notifications' \in {notifications, Inbox!Inserted(e)}
    PROVE  /\ notifications' \in [Event -> {0, 1}]
           /\ \A f \in Event : notifications[f] = 1 => notifications'[f] = 1
           /\ \A f \in Event : f # e => notifications'[f] = notifications[f]
BY DEF ConsumersOK, Inbox!Inserted

\* What a consumer has is a committed event.
LEMMA ConsumedIsCommitted ==
    ASSUME DInv, NEW c \in Consumer, NEW e \in Event,
           queue[e] > 0 \/ handling[c][e] > 0 \/ orphan[c][e] > 0
    PROVE  e \in DOMAIN rows
BY DEF DInv, OnlyCommitted

Publishers == UNCHANGED <<rows, mode, batch, current, buffer>>

\* A delivery moves a copy from the queue to a consumer.
LEMMA DeliverStep ==
    ASSUME DInv, Publishers, NEW c \in Consumer, NEW e \in Event, Inbox!Deliver(c, e)
    PROVE  DInv'
<1>1. /\ queue[e] > 0
      /\ queue' = [queue EXCEPT ![e] = queue[e] - 1]
      /\ handling' = [handling EXCEPT ![c][e] = handling[c][e] + 1]
      /\ UNCHANGED <<stored, orphan, notifications>>
  BY DEF Inbox!Deliver
<1>2. queue \in Copies /\ handling \in [Consumer -> Copies]
      /\ handling[c][e] + 1 \in Nat /\ queue[e] - 1 \in Nat
  BY <1>1 DEF DInv, ConsumersOK, Copies
<1>3. /\ handling' \in [Consumer -> Copies]
      /\ \A d \in Consumer, f \in Event :
            handling'[d][f] = IF d = c /\ f = e THEN handling[c][e] + 1 ELSE handling[d][f]
  BY <1>1, <1>2 DEF Copies
<1>4. queue' \in Copies /\ \A f \in Event : f # e => queue'[f] = queue[f]
  BY <1>1, <1>2 DEF Copies
<1>5. e \in DOMAIN rows
  BY <1>1, ConsumedIsCommitted
<1>6. ConsumersOK' /\ StoredFirst'
  BY <1>1, <1>3, <1>4 DEF DInv, ConsumersOK, StoredFirst
<1>7. OnlyCommitted'
  BY <1>1, <1>3, <1>4, <1>5 DEF DInv, OnlyCommitted, Publishers
<1>8. ASSUME NEW f \in Event, Safe(f) PROVE Safe(f)'
  <2>1. CASE f = e
    <3>1. handling'[c][e] > 0
      BY <1>2, <1>3 DEF Copies
    <3> QED
      BY <2>1, <3>1 DEF Safe, Underway
  <2>2. CASE f # e
    BY <1>1, <1>3, <1>4, <1>8, <2>2 DEF Safe, Underway
  <2> QED
    BY <2>1, <2>2
<1> QED
  BY <1>6, <1>7, <1>8, TakeStep DEF Publishers

\* An insert records an event that was delivered.
LEMMA InsertStep ==
    ASSUME DInv, Publishers, NEW c \in Consumer, NEW e \in Event, Inbox!Insert(c, e)
    PROVE  DInv'
<1>1. /\ handling[c][e] > 0
      /\ notifications' = Inbox!Inserted(e)
      /\ handling' = [handling EXCEPT ![c][e] = handling[c][e] - 1]
      /\ stored' = [stored EXCEPT ![c][e] = stored[c][e] + 1]
      /\ UNCHANGED <<queue, orphan>>
  BY DEF Inbox!Insert
<1>2. /\ handling \in [Consumer -> Copies] /\ stored \in [Consumer -> Copies]
      /\ handling[c][e] - 1 \in Nat /\ stored[c][e] + 1 \in Nat
  BY <1>1 DEF DInv, ConsumersOK, Copies
<1>3. /\ handling' \in [Consumer -> Copies]
      /\ \A d \in Consumer, f \in Event :
            handling'[d][f] = IF d = c /\ f = e THEN handling[c][e] - 1 ELSE handling[d][f]
  BY <1>1, <1>2 DEF Copies
<1>4. /\ stored' \in [Consumer -> Copies]
      /\ \A d \in Consumer, f \in Event :
            stored'[d][f] = IF d = c /\ f = e THEN stored[c][e] + 1 ELSE stored[d][f]
  BY <1>1, <1>2 DEF Copies
<1>5. /\ notifications' \in [Event -> {0, 1}]
      /\ \A f \in Event : notifications[f] = 1 => notifications'[f] = 1
      /\ \A f \in Event : f # e => notifications'[f] = notifications[f]
  BY <1>1, InsertedOne DEF DInv
<1>6. notifications'[e] = 1
  BY <1>1 DEF Inbox!Inserted, DInv, ConsumersOK
<1>7. e \in DOMAIN rows
  BY <1>1, ConsumedIsCommitted
<1>8. ConsumersOK'
  BY <1>1, <1>3, <1>4, <1>5 DEF DInv, ConsumersOK
<1>9. StoredFirst'
  BY <1>4, <1>5, <1>6 DEF DInv, StoredFirst
<1>10. OnlyCommitted'
  BY <1>1, <1>3, <1>5, <1>7 DEF DInv, OnlyCommitted, Publishers
<1>11. ASSUME NEW f \in Event, Safe(f) PROVE Safe(f)'
  <2>1. CASE f = e
    BY <1>6, <2>1 DEF Safe
  <2>2. CASE f # e
    BY <1>1, <1>3, <1>5, <1>11, <2>2 DEF Safe, Underway
  <2> QED
    BY <2>1, <2>2
<1> QED
  BY <1>8, <1>9, <1>10, <1>11, TakeStep DEF Publishers

\* A copy is acknowledged after its event is recorded.
LEMMA AckStep ==
    ASSUME DInv, Publishers, NEW c \in Consumer, NEW e \in Event, Inbox!Ack(c, e)
    PROVE  DInv'
<1>1. /\ stored[c][e] > 0
      /\ stored' = [stored EXCEPT ![c][e] = stored[c][e] - 1]
      /\ UNCHANGED <<queue, handling, orphan, notifications>>
  BY DEF Inbox!Ack
<1>2. stored \in [Consumer -> Copies] /\ stored[c][e] - 1 \in Nat
  BY <1>1 DEF DInv, ConsumersOK, Copies
<1>3. /\ stored' \in [Consumer -> Copies]
      /\ \A d \in Consumer, f \in Event :
            stored'[d][f] = IF d = c /\ f = e THEN stored[c][e] - 1 ELSE stored[d][f]
  BY <1>1, <1>2 DEF Copies
<1>4. ConsumersOK'
  BY <1>1, <1>3 DEF DInv, ConsumersOK
<1>5. StoredFirst'
  BY <1>1, <1>3 DEF DInv, StoredFirst
<1>6. OnlyCommitted'
  BY <1>1 DEF DInv, OnlyCommitted, Publishers
<1>7. \A f \in Event : Safe(f) => Safe(f)'
  BY <1>1 DEF Safe, Underway
<1> QED
  BY <1>4, <1>5, <1>6, <1>7, TakeStep DEF Publishers

\* A failed insert requeues its message, and may have been done.
LEMMA NackStep ==
    ASSUME DInv, Publishers, NEW c \in Consumer, NEW e \in Event, Inbox!Nack(c, e)
    PROVE  DInv'
<1>1. /\ handling[c][e] > 0
      /\ notifications' \in {notifications, Inbox!Inserted(e)}
      /\ handling' = [handling EXCEPT ![c][e] = handling[c][e] - 1]
      /\ queue' = [queue EXCEPT ![e] = queue[e] + 1]
      /\ UNCHANGED <<stored, orphan>>
  BY DEF Inbox!Nack
<1>2. /\ handling \in [Consumer -> Copies] /\ queue \in Copies
      /\ handling[c][e] - 1 \in Nat /\ queue[e] \in Nat
  BY <1>1 DEF DInv, ConsumersOK, Copies
<1>3. /\ handling' \in [Consumer -> Copies]
      /\ \A d \in Consumer, f \in Event :
            handling'[d][f] = IF d = c /\ f = e THEN handling[c][e] - 1 ELSE handling[d][f]
  BY <1>1, <1>2 DEF Copies
<1>4. /\ queue' \in Copies
      /\ queue'[e] > 0
      /\ \A f \in Event : f # e => queue'[f] = queue[f]
  BY <1>1, <1>2 DEF Copies
<1>5. /\ notifications' \in [Event -> {0, 1}]
      /\ \A f \in Event : notifications[f] = 1 => notifications'[f] = 1
      /\ \A f \in Event : f # e => notifications'[f] = notifications[f]
  BY <1>1, InsertedOne DEF DInv
<1>6. e \in DOMAIN rows
  BY <1>1, ConsumedIsCommitted
<1>7. ConsumersOK'
  BY <1>1, <1>3, <1>4, <1>5 DEF DInv, ConsumersOK
<1>8. StoredFirst'
  BY <1>1, <1>5 DEF DInv, StoredFirst
<1>9. OnlyCommitted'
  BY <1>1, <1>3, <1>4, <1>5, <1>6 DEF DInv, OnlyCommitted, Publishers
<1>10. ASSUME NEW f \in Event, Safe(f) PROVE Safe(f)'
  <2>1. CASE f = e
    BY <1>4, <2>1 DEF Safe, Underway
  <2>2. CASE f # e
    BY <1>3, <1>4, <1>5, <1>10, <2>2 DEF Safe, Underway
  <2> QED
    BY <2>1, <2>2
<1> QED
  BY <1>7, <1>8, <1>9, <1>10, TakeStep DEF Publishers

\* A consumer that loses its channel or dies: every copy it had is queued.
LEMMA GiveBackStep ==
    ASSUME DInv, Publishers, NEW c \in Consumer, Inbox!Disconnect(c) \/ Inbox!Die(c)
    PROVE  DInv'
<1>1. /\ queue' = [f \in Event |-> queue[f] + (handling[c][f] + stored[c][f])]
      /\ handling' = [handling EXCEPT ![c] = [f \in Event |-> 0]]
      /\ stored' = [stored EXCEPT ![c] = [f \in Event |-> 0]]
      /\ UNCHANGED notifications
      /\ \/ orphan' = [orphan EXCEPT ![c] = [f \in Event |-> orphan[c][f] + handling[c][f]]]
         \/ orphan' = [orphan EXCEPT ![c] = [f \in Event |-> 0]]
  BY DEF Inbox!Disconnect, Inbox!Die, Inbox!GiveBack, Inbox!Plus, Inbox!None
<1>2. /\ queue \in [Event -> Nat]
      /\ handling \in [Consumer -> [Event -> Nat]]
      /\ stored \in [Consumer -> [Event -> Nat]]
      /\ orphan \in [Consumer -> [Event -> Nat]]
  BY DEF DInv, ConsumersOK, Copies
<1>3. /\ handling' \in [Consumer -> Copies]
      /\ stored' \in [Consumer -> Copies]
      /\ orphan' \in [Consumer -> Copies]
  BY <1>1, <1>2 DEF Copies
<1>4. queue' \in Copies
  BY <1>1, <1>2 DEF Copies
<1>5. ConsumersOK'
  BY <1>1, <1>3, <1>4 DEF DInv, ConsumersOK
<1>6. StoredFirst'
  BY <1>1, <1>2 DEF DInv, StoredFirst
<1>7. ASSUME NEW f \in Event \ DOMAIN rows
      PROVE  /\ queue'[f] = 0
             /\ \A d \in Consumer : handling'[d][f] = 0 /\ orphan'[d][f] = 0
  <2>1. /\ queue[f] = 0 /\ notifications[f] = 0
        /\ \A d \in Consumer : handling[d][f] = 0 /\ orphan[d][f] = 0
    BY DEF DInv, OnlyCommitted
  <2>2. stored[c][f] = 0
    BY <1>2, <2>1 DEF DInv, StoredFirst
  <2> QED
    BY <1>1, <1>2, <2>1, <2>2
<1>8. OnlyCommitted'
  BY <1>1, <1>7 DEF DInv, OnlyCommitted, Publishers
<1>9. ASSUME NEW f \in Event, Safe(f) PROVE Safe(f)'
  <2>1. CASE queue[f] > 0 \/ handling[c][f] > 0
    <3>1. queue'[f] > 0
      BY <1>1, <1>2, <2>1
    <3> QED
      BY <3>1 DEF Safe, Underway
  <2>2. ASSUME NEW d \in Consumer, d # c, handling[d][f] > 0 PROVE Safe(f)'
    BY <1>1, <1>2, <2>2 DEF Safe, Underway
  <2>3. CASE notifications[f] = 1
    BY <1>1, <2>3 DEF Safe
  <2> QED
    BY <1>9, <2>1, <2>2, <2>3 DEF Safe, Underway
<1> QED
  BY <1>5, <1>6, <1>8, <1>9, TakeStep DEF Publishers

\* A handler that lost its channel ends, whatever its insert did.
LEMMA OrphanStep ==
    ASSUME DInv, Publishers, NEW c \in Consumer, NEW e \in Event, Inbox!OrphanEnds(c, e)
    PROVE  DInv'
<1>1. /\ orphan[c][e] > 0
      /\ notifications' \in {notifications, Inbox!Inserted(e)}
      /\ orphan' = [orphan EXCEPT ![c][e] = orphan[c][e] - 1]
      /\ UNCHANGED <<queue, handling, stored>>
  BY DEF Inbox!OrphanEnds
<1>2. orphan \in [Consumer -> Copies] /\ orphan[c][e] - 1 \in Nat
  BY <1>1 DEF DInv, ConsumersOK, Copies
<1>3. /\ orphan' \in [Consumer -> Copies]
      /\ \A d \in Consumer, f \in Event :
            orphan'[d][f] = IF d = c /\ f = e THEN orphan[c][e] - 1 ELSE orphan[d][f]
  BY <1>1, <1>2 DEF Copies
<1>4. /\ notifications' \in [Event -> {0, 1}]
      /\ \A f \in Event : notifications[f] = 1 => notifications'[f] = 1
      /\ \A f \in Event : f # e => notifications'[f] = notifications[f]
  BY <1>1, InsertedOne DEF DInv
<1>5. e \in DOMAIN rows
  BY <1>1, ConsumedIsCommitted
<1>6. ConsumersOK' /\ StoredFirst'
  BY <1>1, <1>3, <1>4 DEF DInv, ConsumersOK, StoredFirst
<1>7. OnlyCommitted'
  BY <1>1, <1>3, <1>4, <1>5 DEF DInv, OnlyCommitted, Publishers
<1>8. \A f \in Event : Safe(f) => Safe(f)'
  BY <1>1, <1>4 DEF Safe, Underway
<1> QED
  BY <1>6, <1>7, <1>8, TakeStep DEF Publishers

\* Every step of the consuming side keeps the invariant.
LEMMA ConsumingInv == ASSUME DInv, Consuming PROVE DInv'
<1>1. Inbox!ConsumerNext /\ Publishers
  BY DEF Consuming, Publishers
<1> QED
  BY <1>1, DeliverStep, InsertStep, AckStep, NackStep, GiveBackStep, OrphanStep
  DEF Inbox!ConsumerNext

-----------------------------------------------------------------------------
(* Theorems.                                                               *)

\* Nothing is written, sent or recorded yet.
LEMMA InitDInv == DeliveryInit => DInv
<1> SUFFICES ASSUME DeliveryInit PROVE DInv
  OBVIOUS
<1>1. DOMAIN rows = {} /\ \A w \in Worker : mode[w] = "poll"
  BY DEF DeliveryInit, Init
<1>2. SendersOK
  BY <1>1 DEF DeliveryInit, Init, SendersOK, NoCopies, Copies
<1>3. ConsumersOK
  BY DEF DeliveryInit, Init, NoCopies, Inbox!ConsumerInit, Inbox!None, ConsumersOK, Copies
<1>4. OnlyCommitted /\ StoredFirst
  BY DEF DeliveryInit, Init, NoCopies, Inbox!ConsumerInit, Inbox!None,
         OnlyCommitted, StoredFirst
<1>5. HeardIsSafe /\ PublishedIsSafe
  BY <1>1 DEF HeardIsSafe, PublishedIsSafe
<1> QED
  BY <1>2, <1>3, <1>4, <1>5 DEF DInv

\* A stuttering step keeps the invariant.
LEMMA StutterDInv == ASSUME DInv, UNCHANGED deliveryVars PROVE DInv'
BY DEF DInv, deliveryVars, vars, SendersOK, ConsumersOK, OnlyCommitted, StoredFirst,
       HeardIsSafe, PublishedIsSafe, Safe, Underway

\* Publishers and consumers keep the invariant, whatever fails.
THEOREM DeliveryInvariance == DeliverySpec => []DInv
<1>1. DeliveryInit => DInv
  BY InitDInv
<1>2. DInv /\ [DeliveryNext]_deliveryVars => DInv'
  BY PublishingInv, ConsumingInv, StutterDInv DEF DeliveryNext
<1> QED
  BY <1>1, <1>2, PTL DEF DeliverySpec

\* A published event that has no notification yet has a copy in the queue or
\* with a consumer that has not acknowledged it.
THEOREM NothingIsLost == DeliverySpec => []NothingLost
<1>1. DInv => NothingLost
  BY DEF DInv, PublishedIsSafe, SendersOK, Safe, NothingLost
<1> QED
  BY <1>1, DeliveryInvariance, PTL

\* No step of the publishers but the commit of an order adds a row.
LEMMA PublishingImplements ==
    ASSUME DInv, Publishing PROVE [Promise!Next]_(Promise!announcing)
<1>1. Next /\ UNCHANGED notifications
  BY DEF Publishing
<1>2. CASE \E e \in Event : Write(e)
  BY <1>1, <1>2 DEF Write, Promise!Next, Promise!Write
<1>3. CASE \E e \in DOMAIN rows : BecomeDue(e) \/ GoStale(e)
  BY <1>1, <1>3 DEF BecomeDue, GoStale, Promise!announcing
<1>4. CASE \E w \in Worker : Publish(w) \/ MarkError(w)
  <2> PICK w \in Worker : Publish(w) \/ MarkError(w)
    BY <1>4
  <2>1. DOMAIN rows' = DOMAIN rows
    <3>1. CASE Claim(w)
      BY <3>1 DEF Claim, Leased
    <3>2. CASE Emit(w) \/ Confirm(w) \/ TimeOut(w)
      BY <3>2 DEF Emit, Confirm, TimeOut
    <3>3. CASE MarkPublished(w) \/ MarkError(w)
      BY <3>3 DEF MarkPublished, MarkError, Published
    <3>4. CASE MarkFailed(w)
      BY <3>4 DEF MarkFailed, Released
    <3> QED
      BY <3>1, <3>2, <3>3, <3>4 DEF Publish
  <2> QED
    BY <1>1, <2>1 DEF Promise!announcing
<1>5. CASE \E w \in Worker : \/ Reject(w) \/ Crash(w) \/ Restart(w)
                             \/ \E e \in Event : AcceptUnheard(w, e) \/ LoseConfirm(w, e)
  BY <1>1, <1>5 DEF Reject, Crash, Restart, AcceptUnheard, LoseConfirm, Promise!announcing
<1> QED
  BY <1>1, <1>2, <1>3, <1>4, <1>5 DEF Next

\* What an INSERT leaves is the first notification of the event, or nothing.
LEMMA InsertedImplements ==
    ASSUME DInv, NEW e \in Event, e \in DOMAIN rows, UNCHANGED rows,
           notifications' \in {notifications, Inbox!Inserted(e)}
    PROVE  [Promise!Next]_(Promise!announcing)
<1>1. CASE notifications' = notifications
  BY <1>1 DEF Promise!announcing
<1>2. CASE notifications' = Inbox!Inserted(e) /\ notifications[e] = 0
  <2>1. Promise!Notify(e)
    BY <1>2 DEF Inbox!Inserted, Promise!Notify
  <2> QED
    BY <2>1 DEF Promise!Next
<1>3. CASE notifications' = Inbox!Inserted(e) /\ notifications[e] # 0
  <2>1. notifications' = notifications
    BY <1>3 DEF Inbox!Inserted, DInv, ConsumersOK
  <2> QED
    BY <2>1 DEF Promise!announcing
<1> QED
  BY <1>1, <1>2, <1>3

\* Every step of the consuming side is a step or a stutter of the abstraction.
LEMMA ConsumingImplements ==
    ASSUME DInv, Consuming PROVE [Promise!Next]_(Promise!announcing)
<1>1. Inbox!ConsumerNext /\ UNCHANGED rows
  BY DEF Consuming
<1>2. ASSUME NEW c \in Consumer, NEW e \in Event,
             Inbox!Insert(c, e) \/ Inbox!Nack(c, e) \/ Inbox!OrphanEnds(c, e)
      PROVE  [Promise!Next]_(Promise!announcing)
  <2>1. e \in DOMAIN rows
    BY <1>2, ConsumedIsCommitted DEF Inbox!Insert, Inbox!Nack, Inbox!OrphanEnds
  <2>2. notifications' \in {notifications, Inbox!Inserted(e)}
    BY <1>2 DEF Inbox!Insert, Inbox!Nack, Inbox!OrphanEnds
  <2> QED
    BY <1>1, <2>1, <2>2, InsertedImplements
<1>3. ASSUME NEW c \in Consumer, NEW e \in Event, Inbox!Deliver(c, e) \/ Inbox!Ack(c, e)
      PROVE  [Promise!Next]_(Promise!announcing)
  BY <1>1, <1>3 DEF Inbox!Deliver, Inbox!Ack, Promise!announcing
<1>4. ASSUME NEW c \in Consumer, Inbox!Disconnect(c) \/ Inbox!Die(c)
      PROVE  [Promise!Next]_(Promise!announcing)
  BY <1>1, <1>4 DEF Inbox!Disconnect, Inbox!Die, Inbox!GiveBack, Promise!announcing
<1> QED
  BY <1>1, <1>2, <1>3, <1>4 DEF Inbox!ConsumerNext

\* Delivery implements Announcing: every event gets at most one notification,
\* and only once it is committed.
THEOREM DeliveryNotifiesOnce == DeliverySpec => NotifiesOnce
<1>1. DeliveryInit => Promise!Init
  BY DEF DeliveryInit, Init, Inbox!ConsumerInit, Inbox!None, Promise!Init
<1>2. DInv /\ [DeliveryNext]_deliveryVars => [Promise!Next]_(Promise!announcing)
  <2>1. UNCHANGED deliveryVars => UNCHANGED Promise!announcing
    BY DEF deliveryVars, vars, Promise!announcing
  <2> QED
    BY <2>1, PublishingImplements, ConsumingImplements DEF DeliveryNext
<1> QED
  BY <1>1, <1>2, DeliveryInvariance, PTL DEF DeliverySpec, NotifiesOnce, Promise!Spec
=============================================================================
