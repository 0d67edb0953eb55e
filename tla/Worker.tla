------------------------------- MODULE Worker -------------------------------
(***************************************************************************)
(* The publishing worker of worker.go: the single writer that drains the   *)
(* fetchers' channel, applies transactions to the DomainMap, buffers       *)
(* transactions of logs that may not be added yet, and publishes signed    *)
(* map heads on the update and MMD tickers.                                *)
(*                                                                         *)
(* The worker runs in one goroutine; one select case (a receive and the    *)
(* whole addToQueueAndProcess it triggers, or a tick and the publish it    *)
(* triggers) is one step.  Readers may interleave with it, but the only    *)
(* map state they can tell apart is what a head commits to, and a head is  *)
(* installed in one step under dm.m.                                       *)
(*                                                                         *)
(* addToQueueAndProcess is a sequential program over the worker's fields,  *)
(* the domain trees and the source tree, modelled as functions over a      *)
(* record W of those values.                                               *)
(***************************************************************************)
EXTENDS DomainMap, Fetcher, TLC

VARIABLES
  mapSize,         \* w.mapSize
  sourceRevisions, \* w.sourceRevisions: TreeSize per added log
  mapRoot,         \* w.mapRoot: the latest (possibly unpublished) root
  queue,           \* w.queue: transactions of logs not yet addable
  workerState      \* "running", or "failed" once run() returned an error

workerVars == <<mapSize, sourceRevisions, mapRoot, queue, workerState>>

\* newWorker: the fields of the latest head (emptySMH for a new map).
WorkerInit ==
  /\ mapSize = smh.mapSize
  /\ sourceRevisions = smh.revs
  /\ mapRoot = smh.root
  /\ queue = <<>>
  /\ workerState = "running"

\* The state addToQueueAndProcess reads and writes.
W == [mapSize |-> mapSize, revs |-> sourceRevisions, root |-> mapRoot,
      queue |-> queue, trees |-> subtrees, src |-> sourceTree,
      failed |-> FALSE]

\* Mutant: mapSize grows by the new STH size, the old one not subtracted.
ProcessTransactionNoOldRev(w, t) ==
  LET added   == Len(w.revs) = t.log
      revs1   == IF added THEN Append(w.revs, 0) ELSE w.revs
      touched == {d \in Domains : t.idx[d] # <<>>}
      trees1  == [d \in DOMAIN w.trees \cup touched |->
                    IF d \in touched
                    THEN AddEntries(w.trees, d, t.log, SortSeq(t.idx[d], <))[d]
                    ELSE w.trees[d]]
  IN [w EXCEPT
        !.mapSize = @ + t.size,
        !.revs    = [revs1 EXCEPT ![t.log + 1] = t.size],
        !.src     = IF added THEN Append(@, t.log) ELSE @,
        !.trees   = trees1,
        !.root    = [d \in Domains |->
                       IF d \in touched
                       THEN UpdateDomainTreeRoot(@, d, Len(trees1[d]))[d]
                       ELSE @[d]],
        !.failed  = \E d \in touched : UpdateRejected(w.root, d, Len(trees1[d]))]

\* Mutant: the size sent to UpdateDomainTreeRoot counts only the batch's
\* entries, not the tree's.
ProcessTransactionBatchSize(w, t) ==
  LET added   == Len(w.revs) = t.log
      revs1   == IF added THEN Append(w.revs, 0) ELSE w.revs
      oldRev  == revs1[t.log + 1]
      touched == {d \in Domains : t.idx[d] # <<>>}
      trees1  == [d \in DOMAIN w.trees \cup touched |->
                    IF d \in touched
                    THEN AddEntries(w.trees, d, t.log, SortSeq(t.idx[d], <))[d]
                    ELSE w.trees[d]]
  IN [w EXCEPT
        !.mapSize = @ + t.size - oldRev,
        !.revs    = [revs1 EXCEPT ![t.log + 1] = t.size],
        !.src     = IF added THEN Append(@, t.log) ELSE @,
        !.trees   = trees1,
        !.root    = [d \in Domains |->
                       IF d \in touched
                       THEN UpdateDomainTreeRoot(@, d, Len(t.idx[d]))[d]
                       ELSE @[d]],
        !.failed  = \E d \in touched : UpdateRejected(w.root, d, Len(t.idx[d]))]

\* processTransaction.  A log whose index equals the number of added logs
\* is added (zero revision, log id appended to the source tree).  mapSize
\* grows by the difference of the new and the recorded STH size (uint64
\* arithmetic; the sum mapSize + new - old is never negative since mapSize
\* includes old, so the wrap-around of the difference cancels) and the
\* revision is replaced.  Then, for every domain with indices (map order
\* does not change the result: each domain touches only its own tree and
\* slot), the indices are sorted, appended to the domain's tree, and the
\* root updated to the tree's size; an update that does not grow the
\* stored size fails and the worker stops.
ProcessTransaction(w, t) ==
  LET added   == Len(w.revs) = t.log
      revs1   == IF added THEN Append(w.revs, 0) ELSE w.revs
      oldRev  == revs1[t.log + 1]
      touched == {d \in Domains : t.idx[d] # <<>>}
      trees1  == [d \in DOMAIN w.trees \cup touched |->
                    IF d \in touched
                    THEN AddEntries(w.trees, d, t.log, SortSeq(t.idx[d], <))[d]
                    ELSE w.trees[d]]
  IN [w EXCEPT
        !.mapSize = @ + t.size - oldRev,
        !.revs    = [revs1 EXCEPT ![t.log + 1] = t.size],
        !.src     = IF added THEN Append(@, t.log) ELSE @,
        !.trees   = trees1,
        !.root    = [d \in Domains |->
                       IF d \in touched
                       THEN UpdateDomainTreeRoot(@, d, Len(trees1[d]))[d]
                       ELSE @[d]],
        !.failed  = \E d \in touched : UpdateRejected(w.root, d, Len(trees1[d]))]

\* tryProcess: a transaction of log k can be applied once logs 0..k-1 are.
CanProcess(w, t) == t.log <= Len(w.revs)

\* Mutant: the sweep walks the queue from the back.
RECURSIVE SweepFromBack(_, _)
SweepFromBack(w, i) ==
  LET j == Len(w.queue) + 1 - i IN
  IF i > Len(w.queue) THEN w
  ELSE IF ~CanProcess(w, w.queue[j]) THEN SweepFromBack(w, i + 1)
  ELSE LET w1 == ProcessTransaction(w, w.queue[j])
       IN IF w1.failed THEN w1
          ELSE SweepFromBack([w1 EXCEPT !.queue = RemoveAt(@, j)], i)

\* Mutant: the index advances past an applied transaction (no i -= 1).
RECURSIVE SweepSkipAfterRemove(_, _)
SweepSkipAfterRemove(w, i) ==
  IF i > Len(w.queue) THEN w
  ELSE IF ~CanProcess(w, w.queue[i]) THEN SweepSkipAfterRemove(w, i + 1)
  ELSE LET w1 == ProcessTransaction(w, w.queue[i])
       IN IF w1.failed THEN w1
          ELSE SweepSkipAfterRemove([w1 EXCEPT !.queue = RemoveAt(@, i)], i + 1)

\* The sweep loop of addToQueueAndProcess: one pass over the queue from the
\* front; an applied transaction is removed and the index stays put
\* (i -= 1; i++), a skipped one advances the index.  An error returns.
RECURSIVE Sweep(_, _)
Sweep(w, i) ==
  IF i > Len(w.queue) THEN w
  ELSE IF ~CanProcess(w, w.queue[i]) THEN Sweep(w, i + 1)
  ELSE LET w1 == ProcessTransaction(w, w.queue[i])
       IN IF w1.failed THEN w1
          ELSE Sweep([w1 EXCEPT !.queue = RemoveAt(@, i)], i)

\* addToQueueAndProcess: try t itself, queue it if its log may not be added
\* yet, then sweep the queue once.
AddToQueueAndProcess(w, t) ==
  LET w1 == IF CanProcess(w, t) THEN ProcessTransaction(w, t)
            ELSE [w EXCEPT !.queue = Append(@, t)]
  IN IF w1.failed THEN w1 ELSE Sweep(w1, 1)

\* Write a W record back into the worker's and the map's variables.
Install(w) ==
  /\ mapSize' = w.mapSize
  /\ sourceRevisions' = w.revs
  /\ mapRoot' = w.root
  /\ queue' = w.queue
  /\ subtrees' = w.trees
  /\ sourceTree' = w.src
  /\ workerState' = IF w.failed THEN "failed" ELSE "running"

\* case t := <-c: receive the oldest transaction and process it.
Receive ==
  /\ workerState = "running"
  /\ chan # <<>>
  /\ chan' = Tail(chan)
  /\ \E w \in {AddToQueueAndProcess(W, Head(chan))} : Install(w)
  /\ UNCHANGED <<smh, smhs, fetched, ctLog, fetcherState>>

\* The publishSHM label: skipped while no STH has been applied
\* (w.mapSize == 0), otherwise CheckAndPublishSMH(w.mapRoot, w.mapSize,
\* w.sourceRevisions); an error ends run() and the worker.
PublishSHM ==
  \/ /\ mapSize = 0
     /\ UNCHANGED <<dmVars, fetcherVars, workerVars>>
  \/ /\ mapSize # 0
     /\ PublishRejected(mapRoot, mapSize, sourceRevisions)
     /\ workerState' = "failed"
     /\ UNCHANGED <<smh, smhs, mapSize, sourceRevisions, mapRoot, queue,
                    subtrees, sourceTree, fetcherVars>>
  \/ /\ mapSize # 0
     /\ ~PublishRejected(mapRoot, mapSize, sourceRevisions)
     /\ InstallHead(NewHead(mapRoot, mapSize, sourceRevisions))
     /\ UNCHANGED <<workerVars, subtrees, sourceTree, fetcherVars>>

\* case <-updateTicker.C: publish when the worker's map size differs from
\* the latest head's (the MMD ticker reset is a timing matter).
UpdateTick ==
  /\ workerState = "running"
  /\ smh.mapSize # mapSize
  /\ PublishSHM

\* case <-mmdTicker.C: publish; a republish if nothing changed since the
\* latest head.  With w.mapSize == 0 the tick only resets the timer, a
\* step that changes nothing.
MMDTick ==
  /\ workerState = "running"
  /\ PublishSHM

=============================================================================
