--------------------------- MODULE DomainTreeIndex ---------------------------
(***************************************************************************)
(* One domain tree of domainTree.go with the goroutines that use it: the   *)
(* worker's AddEntry, and HTTP handlers that look an entry up              *)
(* (getDomainTreeIndex -> EntryToDomainTreeIndex) or read the Merkle tree  *)
(* (getEntryAndProof's GetAuditProof, getConsistencyProof).                *)
(*                                                                         *)
(* Two locks guard it: dtree.m, a RWMutex over leaves and leavesPerLog,    *)
(* and the embedded merkleTree's m, which GetRoot, getRawProof and         *)
(* GetConsistencyProof hold while they use the tree.  AddEntry holds       *)
(* dtree.m only while it calls dtree.tree.AddLeaf.  A step is what one     *)
(* goroutine does between two accesses another goroutine may race with:    *)
(* the worker's AddLeaf is a step of its own, and a lookup's growth of     *)
(* leavesPerLog reads the slice header and writes it back in two steps.    *)
(* Entries and requests are any the client or the worker may send: the    *)
(* worker's order is not assumed.                                          *)
(***************************************************************************)
EXTENDS Integers, Sequences

CONSTANTS
  LogIndices,      \* log indices entries and requests may carry
  CertIndices,     \* certificate indices entries and requests may carry
  MaxLeaves,       \* bound on the size of the tree
  Readers          \* HTTP handler goroutines

ASSUME LogIndices \subseteq Nat /\ CertIndices \subseteq Nat
ASSUME MaxLeaves \in Nat

DomainTreeEntry == [log : LogIndices, cert : CertIndices]
CertAndDTIndex == [cert : CertIndices, dtIndex : Nat]

VARIABLES
  leaves,          \* dtree.leaves
  leavesPerLog,    \* dtree.leavesPerLog: log index + 1 -> list of pairs
  treeSize,        \* leaves of the embedded Merkle tree (dtree.tree)
  rwm,             \* dtree.m: [writer : BOOLEAN, readers : SUBSET Readers]
  treeLock,        \* the merkleTree's m: its holder, or NoHolder
  worker,          \* the worker: [pc : {"idle", "lock", "addLeaf"}, entry]
  reader           \* each handler: [pc, entry, seen] (seen: a length read),
                   \* and what its lookup returned on a tree of size size

vars == <<leaves, leavesPerLog, treeSize, rwm, treeLock, worker, reader>>

NoHolder == "none"
NoEntry == [log |-> 0, cert |-> 0]
Idle == [pc |-> "idle", entry |-> NoEntry, seen |-> 0,
         outcome |-> "none", index |-> 0, size |-> 0]

Init ==
  /\ leaves = <<>>
  /\ leavesPerLog = <<>>
  /\ treeSize = 0
  /\ rwm = [writer |-> FALSE, readers |-> {}]
  /\ treeLock = NoHolder
  /\ worker = [pc |-> "idle", entry |-> NoEntry]
  /\ reader = [r \in Readers |-> Idle]

\* growLeavesPerLog: append empty lists until there are minSize of them.
GrowLeavesPerLog(lpl, minSize) ==
  lpl \o [i \in 1..(IF minSize > Len(lpl) THEN minSize - Len(lpl) ELSE 0) |-> <<>>]

\* AddEntry calls dtree.m.Lock(): sync.RWMutex first announces the writer,
\* which blocks every later RLock, and then waits for the readers inside.
LockForAddEntry ==
  \E e \in DomainTreeEntry :
    /\ worker.pc = "idle"
    /\ Len(leaves) < MaxLeaves
    /\ ~rwm.writer
    /\ rwm' = [rwm EXCEPT !.writer = TRUE]
    /\ worker' = [pc |-> "lock", entry |-> e]
    /\ UNCHANGED <<leaves, leavesPerLog, treeSize, treeLock, reader>>

\* Lock returns once the last reader that held dtree.m has left; AddEntry
\* goes on to its call of dtree.tree.AddLeaf.
AcquireAddEntryLock ==
  /\ worker.pc = "lock"
  /\ rwm.readers = {}
  /\ worker' = [worker EXCEPT !.pc = "addLeaf"]
  /\ UNCHANGED <<leaves, leavesPerLog, treeSize, rwm, treeLock, reader>>

\* Mutant: the recorded position is taken before the leaf is appended and
\* still decremented.
AddEntryIndexBeforeAppend ==
  LET e == worker.entry IN
  /\ worker.pc = "addLeaf"
  /\ treeSize' = treeSize + 1
  /\ leaves' = Append(leaves, e)
  /\ LET grown == GrowLeavesPerLog(leavesPerLog, e.log + 1)
     IN leavesPerLog' =
          [grown EXCEPT ![e.log + 1] =
             Append(@, [cert |-> e.cert, dtIndex |-> Len(leaves) - 1])]
  /\ rwm' = [rwm EXCEPT !.writer = FALSE]
  /\ worker' = [worker EXCEPT !.pc = "idle"]
  /\ UNCHANGED <<treeLock, reader>>

\* The rest of AddEntry: AddLeaf returns, the leaf is appended and its
\* certificate index and position recorded in the list of its log, and
\* the deferred Unlock runs.
AddEntry ==
  LET e == worker.entry IN
  /\ worker.pc = "addLeaf"
  /\ treeSize' = treeSize + 1
  /\ leaves' = Append(leaves, e)
  /\ LET grown == GrowLeavesPerLog(leavesPerLog, e.log + 1)
     IN leavesPerLog' =
          [grown EXCEPT ![e.log + 1] =
             Append(@, [cert |-> e.cert, dtIndex |-> Len(leaves)])]
  /\ rwm' = [rwm EXCEPT !.writer = FALSE]
  /\ worker' = [worker EXCEPT !.pc = "idle"]
  /\ UNCHANGED <<treeLock, reader>>

\* GetRoot, getRawProof or GetConsistencyProof takes the Merkle tree's
\* lock and reads the tree; it does not take dtree.m.
StartTreeRead(r) ==
  /\ reader[r].pc = "idle"
  /\ treeLock = NoHolder
  /\ treeLock' = r
  /\ reader' = [reader EXCEPT ![r].pc = "treeRead"]
  /\ UNCHANGED <<leaves, leavesPerLog, treeSize, rwm, worker>>

EndTreeRead(r) ==
  /\ reader[r].pc = "treeRead"
  /\ treeLock' = NoHolder
  /\ reader' = [reader EXCEPT ![r].pc = "idle"]
  /\ UNCHANGED <<leaves, leavesPerLog, treeSize, rwm, worker>>

\* getDomainTreeIndex calls EntryToDomainTreeIndex for any entry, which
\* takes dtree.m for reading: RLock blocks while a writer holds dtree.m or
\* waits for it.
StartLookup(r) ==
  \E e \in DomainTreeEntry :
    /\ reader[r].pc = "idle"
    /\ ~rwm.writer
    /\ rwm' = [rwm EXCEPT !.readers = @ \cup {r}]
    /\ reader' = [reader EXCEPT ![r] = [Idle EXCEPT !.pc = "grow", !.entry = e]]
    /\ UNCHANGED <<leaves, leavesPerLog, treeSize, treeLock, worker>>

\* The loop condition of growLeavesPerLog: the length of leavesPerLog is
\* read; the loop ends or an append begins with the header read.
GrowCheck(r) ==
  /\ reader[r].pc = "grow"
  /\ reader' = [reader EXCEPT ![r].pc =
                   IF Len(leavesPerLog) >= reader[r].entry.log + 1 THEN "search"
                   ELSE "growing",
                               ![r].seen = Len(leavesPerLog)]
  /\ UNCHANGED <<leaves, leavesPerLog, treeSize, rwm, treeLock, worker>>

\* The append writes back a header one longer than the one it read; the
\* lists past that length, appended meanwhile by other readers, are empty.
GrowWrite(r) ==
  /\ reader[r].pc = "growing"
  /\ leavesPerLog' = SubSeq(leavesPerLog, 1, reader[r].seen) \o <<<<>>>>
  /\ reader' = [reader EXCEPT ![r].pc = "grow"]
  /\ UNCHANGED <<leaves, treeSize, rwm, treeLock, worker>>

\* Mutant: the bisection looks for the first index > the requested one.
RECURSIVE SearchStrict(_, _, _, _)
SearchStrict(list, ci, i, j) ==
  IF i >= j THEN i
  ELSE LET h == (i + j) \div 2
       IN IF ~(list[h + 1].cert > ci) THEN SearchStrict(list, ci, h + 1, j)
          ELSE SearchStrict(list, ci, i, h)

\* sort.Search(len(list), f) with f(k) = list[k].cert >= ci: the smallest
\* k in [i, j) with f(k), or j, found by bisection (h = (i + j) >> 1; f(h)
\* false moves i past h, true moves j to h).  f is monotone only when the
\* list is sorted.
RECURSIVE Search(_, _, _, _)
Search(list, ci, i, j) ==
  IF i >= j THEN i
  ELSE LET h == (i + j) \div 2
       IN IF ~(list[h + 1].cert >= ci) THEN Search(list, ci, h + 1, j)
          ELSE Search(list, ci, i, h)

\* EntryToDomainTreeIndex: grow the per-log lists to cover the requested
\* log, search the log's list for the first certificate index >= the
\* requested one, and compare; leaves[i] with i = len(leaves) panics.
EntryToDomainTreeIndex(lpl, e) ==
  LET list == GrowLeavesPerLog(lpl, e.log + 1)[e.log + 1]
      i    == Search(list, e.cert, 0, Len(list))
  IN CASE i >= Len(list)           -> [outcome |-> "panic", index |-> 0]
       [] list[i + 1].cert # e.cert -> [outcome |-> "error", index |-> 0]
       [] OTHER -> [outcome |-> "found", index |-> list[i + 1].dtIndex]

\* Mutant: the read lock is released only on return, as a non-deferred
\* RUnlock would be, and stays held by a handler that panicked.
LookupPanicKeepsReadLock(r) ==
  LET e == reader[r].entry
      res == IF Len(leavesPerLog) < e.log + 1
             THEN [outcome |-> "panic", index |-> 0]
             ELSE EntryToDomainTreeIndex(leavesPerLog, e)
  IN /\ reader[r].pc = "search"
     /\ reader' = [reader EXCEPT ![r].pc = "respond", ![r].outcome = res.outcome,
                                 ![r].index = res.index, ![r].size = Len(leaves)]
     /\ rwm' = IF res.outcome = "panic" THEN rwm
               ELSE [rwm EXCEPT !.readers = @ \ {r}]
     /\ UNCHANGED <<leaves, leavesPerLog, treeSize, treeLock, worker>>

\* The rest of EntryToDomainTreeIndex: index leavesPerLog (out of range
\* when another reader shortened it), search and compare; the deferred
\* RUnlock runs whether it returns or panics (net/http recovers the
\* handler's panic).
Lookup(r) ==
  LET e == reader[r].entry
      res == IF Len(leavesPerLog) < e.log + 1
             THEN [outcome |-> "panic", index |-> 0]
             ELSE EntryToDomainTreeIndex(leavesPerLog, e)
  IN /\ reader[r].pc = "search"
     /\ reader' = [reader EXCEPT ![r].pc = "respond", ![r].outcome = res.outcome,
                                 ![r].index = res.index, ![r].size = Len(leaves)]
     /\ rwm' = [rwm EXCEPT !.readers = @ \ {r}]
     /\ UNCHANGED <<leaves, leavesPerLog, treeSize, treeLock, worker>>

\* getDomainTreeIndex returns the index or the error to net/http.
Respond(r) ==
  /\ reader[r].pc = "respond"
  /\ reader' = [reader EXCEPT ![r] = Idle]
  /\ UNCHANGED <<leaves, leavesPerLog, treeSize, rwm, treeLock, worker>>

Next ==
  \/ LockForAddEntry \/ AcquireAddEntryLock \/ AddEntry
  \/ \E r \in Readers :
       \/ StartTreeRead(r) \/ EndTreeRead(r)
       \/ StartLookup(r) \/ GrowCheck(r) \/ GrowWrite(r) \/ Lookup(r) \/ Respond(r)

Spec == Init /\ [][Next]_vars

\* Goroutines that have started run on: the worker inside AddEntry and a
\* handler inside a call it has made.  Clients need not send requests, so
\* StartLookup and StartTreeRead carry no fairness.
FairSpec ==
  /\ Spec
  /\ WF_vars(AcquireAddEntryLock) /\ WF_vars(AddEntry)
  /\ \A r \in Readers :
       WF_vars(GrowCheck(r) \/ GrowWrite(r) \/ Lookup(r) \/ Respond(r)
               \/ EndTreeRead(r))

-----------------------------------------------------------------------------
(* Properties                                                              *)

TypeOK ==
  /\ leaves \in Seq(DomainTreeEntry)
  /\ leavesPerLog \in Seq(Seq(CertAndDTIndex))
  /\ treeSize \in 0..MaxLeaves
  /\ rwm \in [writer : BOOLEAN, readers : SUBSET Readers]
  /\ treeLock \in Readers \cup {NoHolder}
  /\ worker.pc \in {"idle", "lock", "addLeaf"}
  /\ \A r \in Readers :
       /\ reader[r].pc \in {"idle", "treeRead", "grow", "growing", "search", "respond"}
       /\ reader[r].outcome \in {"none", "panic", "error", "found"}

\* The reference: the positions among the first n leaves holding an entry.
Positions(e, n) == {p \in 0..n - 1 : leaves[p + 1] = e}

\* The worker's contract (spec 4.4): within the tree, a log's certificate
\* indices never decrease.
OrderedPerLog ==
  \A p, q \in 1..Len(leaves) :
    (p < q /\ leaves[p].log = leaves[q].log) => leaves[p].cert <= leaves[q].cert

\* Whenever the entries of each log were appended in order, a lookup that
\* did not panic is right: it returns a position of the tree holding the
\* requested entry exactly when the tree holds it.  A change to AddEntry's
\* bookkeeping or to the bisection would make a request find the wrong
\* leaf, or miss one the tree has.
LookupMatchesLeaves ==
  \A r \in Readers :
    LET l == reader[r] IN
    (OrderedPerLog /\ l.outcome \in {"error", "found"}) =>
      LET found == Positions(l.entry, l.size) IN
      IF found = {} THEN l.outcome = "error"
      ELSE l.outcome = "found" /\ l.index \in found

\* getDomainTreeIndex answers every request, with an index or an error
\* ("no entry ... found"), and never panics.
LookupNeverPanics == \A r \in Readers : reader[r].outcome # "panic"

\* The worker is never starved by lookups: once AddEntry has called
\* dtree.m.Lock(), it gets the lock however many get-domain-tree-index
\* requests keep arriving, because a waiting writer holds off new readers
\* and the readers inside run to their RUnlock.
AddEntryNotStarved == worker.pc = "lock" ~> worker.pc = "addLeaf"

\* A handler inside EntryToDomainTreeIndex, using leavesPerLog.
InLookup(r) == reader[r].pc \in {"grow", "growing", "search"}

\* No data race on the domain tree (the merkleTree type promises that all
\* its operations are thread-safe): the worker's AddLeaf never runs while
\* a handler holds the Merkle tree's lock and reads the tree, and no
\* handler writes leavesPerLog's header while another handler uses it.
NoDataRace ==
  /\ ~(worker.pc = "addLeaf" /\ treeLock # NoHolder)
  /\ \A r \in Readers :
       reader[r].pc = "growing" => \A q \in Readers \ {r} : ~InLookup(q)

=============================================================================
