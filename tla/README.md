# TLA+ models of the domain-transparency map server

This directory holds TLA+ specifications of the map server in `src/`. The
map server:
- fetches certificates from Certificate Transparency (CT) logs;
- files each certificate under the registrable domains it names;
- publishes signed map heads (SMHs) that commit to all of it.

The models are checked with TLC. `PROJECT.json` lists the components, the
runs, the mutants, the source lines behind every definition, the findings and
the hazards.

## The system

`log-server/dt-structures/cmd/run-server/main.go` wires the server together:

| Part | Source | Role |
|---|---|---|
| Fetchers | `log-server/dt-structures/server/fetcher.go` | One goroutine per CT log; fetcher *i* serves log index *i*. Each iteration reads a new STH, fetches the entries `[start, size)`, normalizes each certificate's DNS names and common name (`util/misc.go`), buckets the entry indices per domain, and sends a `WorkerTransaction` on the worker's channel (capacity `BufferSize` = 32). |
| Worker | `worker.go` | The single writer. One goroutine `select`s over cancellation, an update ticker, an MMD ticker and the channel. A received transaction is applied by `processTransaction`, or queued when its log may not be added yet (log *k* needs logs 0..*k*-1). Every receive ends with one sweep over the queue. A tick publishes through `CheckAndPublishSMH`. An error returned by either ends `run()`, and with it the whole server (`handleInterrupts` waits on the worker's `stopped` channel). |
| DomainMap | `dt-structures/domainMap.go` | The composite authenticated structure. It holds the latest SMH, the SMHs indexed by `mapSize`, a sparse Merkle tree keyed by domain whose leaf holds the domain tree's `DomainTreeRoot` (size and hash), the source tree of log ids, and the domain trees. `CheckAndPublishSMH` is the publish gate: a head is either a republish (same root, same size and revisions) or an extension (larger size, revisions not shrinking). `UpdateDomainTreeRoot` refuses a domain-tree size that does not grow. |
| Domain trees and source tree | `domainTree.go`, `sourceTree.go`, `merkleTree.go` | RFC 6962 append-only trees. |
| Sparse store | `mapstore/wrapper.go`, `mapstore/mem.go` | A content-addressed node store. New nodes are staged; at a publish, `markToSave` marks the nodes reachable from the new root and `pruneUntil` deletes the rest. |
| HTTP handlers, map client | `log-server/dt-structures/server/handlers.go`, `mapclient/mapclient.go` | Read-only users of the DomainMap over HTTP. The tracker calls `get-smh` (verifying the head's signature), `get-domain-root-and-proof` and `get-entry-and-proof`. |
| Domain tracker | `cmd/track-domain/domainTracker.go`, `dt-structures/cmd/track-domain/main.go` | A client that polls the latest SMH and, for each head with a new signature, fetches every tracked domain's tree size at that head and the entries since the size it last saw, then logs them as new certificates. |

## Modules

| Module | Models | State (code) | Actions / operators (code) |
|---|---|---|---|
| `DTCommon` | shared constants | `Domains` (normalized names) | `Entry` = `DomainTreeEntry` |
| `DomainMap` | `domainMap.go`, `DomainTree.AddEntry`, `SourceTree.AddEntry` | `smh`, `smhs`, `subtrees`, `sourceTree` | `PublishRejected`, `NewHead`, `InstallHead` (the three stages of `CheckAndPublishSMH`), `UpdateRejected` / `UpdateDomainTreeRoot`, `GetDomainTree` (`worker.getDomainTree`, creating the tree through `AddDomainTree` when absent), `AddEntries` (`AddEntry` per index) |
| `Fetcher` | `fetcher.go`, `NormalizeDomainName` | `fetched` (`opts.StartIndex`), `chan`, `ctLog` (history of fetched certificates), `fetcherState` (`running`, or `stopped` once `fetcherData` has returned) | `FetcherIteration(k)` = a successful `runFetcherIteration`; `FetcherDecodeError(k)` = an iteration whose batch holds an entry `LogEntryFromLeaf` cannot decode: `processErr` is set, the transaction is never sent and the fetcher stops for good; `Bucket` = `processFetcherBatch`; `CertNames` = the normalization loop |
| `Worker` | `worker.go` | `mapSize`, `sourceRevisions`, `mapRoot`, `queue`, `workerState` | `Receive` (`case t := <-c` with the whole `addToQueueAndProcess`), `UpdateTick`, `MMDTick`, `PublishSHM` (the `publishSHM` label). An MMD tick with `mapSize = 0` returns without publishing, which is a stuttering disjunct of `PublishSHM`; it keeps the system live when every fetcher has stopped before the first STH. `ProcessTransaction`, `CanProcess`, `Sweep` and `AddToQueueAndProcess` are functions over a record `W` of the state the Go code mutates. |
| `DomainTreeIndex` | `DomainTree.AddEntry`, `EntryToDomainTreeIndex`, `getDomainTreeIndex` (`handlers.go`), the `merkleTree` readers, and the two locks | `leaves`, `leavesPerLog`, `treeSize`, `rwm` (`dtree.m`), `treeLock` (the Merkle tree's `m`), `worker`, `reader` (each handler goroutine, with what its lookup returned until it responds) | worker: `LockForAddEntry` (`Lock()` announces the writer), `AcquireAddEntryLock` (the readers inside have left), `AddEntry` (any entry: the worker's order is not assumed); handlers: `StartTreeRead` / `EndTreeRead` (`GetRoot`, `getRawProof`, `GetConsistencyProof`), `StartLookup`, `GrowCheck` / `GrowWrite` (one iteration of `growLeavesPerLog`: read the header, write it back one longer), `Lookup`, `Respond`; `Search` is `sort.Search`'s bisection |
| `SparseStore` | `mapstore/wrapper.go`, `mapstore/mem.go`, driven by `processTransaction` and `CheckAndPublishSMH` | `mem` (keys the mem store holds), `newEntries`, `newEntriesMap`, `trees`, `latest`, `published`, `workerState` | `ProcessCert` (the domain loop of `processTransaction`: `GetDomainTreeRoot`'s reads, then smt's `Set`s through `wrapper.Set`), `Publish` (`SaveNodesForRoot` = `MarkToSave` then `PruneUntil` with `ProcessKeys`, then the install) |
| `SignedHeadLog` | abstract publish gate (spec P1, I1-I4) | `latest`, `history` (heads by map size) | `Publish`: a head with a larger size whose revisions, source list and domain-tree sizes extend the latest |
| `DomainTracker` | the domain tracker | server: `trees`, `heads`, `sig`; tracker: `pc`, `smh`, `lastTreeSizes`; history: `reported`, `started` | server: `AddCert`, `PublishHead`, `Republish`; tracker: `FetchFirstSMH`, `InitTreeSizes` (`UpdateDomainTreeRoots(false)`), `Round` (`WaitForSMH` + `UpdateDomainTreeRoots(true)` + logging), `CTLogPanic`; the handlers it calls: `GetAndVerifySMH`, `GetDomainRootAndProof`, `GetEntryAndProof` (with `FetchEntries`, the request loop of `getTreeUpdate`) |
| `DomainTransparency` | `main.go` composition | all of the first four | `Init`, `Next`, `Spec`, the properties; `SHL`, the head log instance |
| `MCDomainTransparency`, `MCSparseStore`, `MCDomainTracker` | TLC instances | model values and certificate shapes; the tracker's names and their normalization | — |

### Data abstraction

- **Sparse-tree root.** Modelled as the function `Domains -> Nat` from each
  domain to the domain-tree size stored in its leaf; 0 is the empty slot,
  which is also what `GetDomainTreeRoot` returns for an empty slot. Content
  addressing makes two real roots equal exactly when these functions are
  equal (hash collisions aside).
- **Domain tree.** The sequence of its `<<logIndex, certIndex>>` leaves. A
  root of size *n* is the prefix of length *n*.
- **Source tree and revisions.** The source tree is the sequence of log
  indices. A `LogRevision` is its tree size; the root hash of an append-only
  CT log is a function of its size.
- **Certificates.** A certificate is its DNS names and common name after
  normalization. A name is a domain or `InvalidName` (rejected by
  normalization). A JSON entry is a certificate with no valid name.
- **Left out.** Timestamps and signatures. A republish therefore installs a
  head equal to the current one and is a stuttering step. Signing and TLS
  encoding are assumed to succeed.

### Atomicity

- **Receive is one step.** The worker is a single goroutine, and each select
  case runs to completion before the next. A receive, together with the whole
  queue processing it triggers, is therefore one step.
- **No reader process is needed here.** Readers (HTTP handlers) take the map
  lock only around single reads. The map state a reader can tell apart is what
  an installed head commits to: the prefixes of the append-only domain trees
  up to the sizes stored under the head's root. A head is installed in one
  step under `dm.m`. The races that do exist between readers and the worker
  are at a lower level: `DomainTreeIndex` models the domain tree's locks,
  with handlers as processes.
- **`DomainTreeIndex` steps.** A step ends wherever another goroutine can
  interleave: at a lock, at the worker's `AddLeaf` (which other goroutines
  may overlap), and between reading and writing back the `leavesPerLog`
  slice header.

### The sparse store

- **Keys are bodies.** The store is content addressed, so a key is modelled
  by what it hashes: the placeholder, a value, a leaf `(path, valueHash)` or a
  node `(left, right)`. The base store is the set of keys it holds. Two
  domains whose paths differ in the first bit make every shape of the
  compact tree: empty, one leaf, a node over two leaves.
- **The value of a leaf** is the domain's `DomainTreeRoot`, which is the
  hash of its leaves `tls.Marshal(entry)` = `(logIndex, certIndex)`; the
  domain name is not in it. So two domains with the same entries have the
  same value key. The model keeps the value as the domain's certificate
  list, which is equal exactly when those hashes are.
- **lazyledger/smt** is not under `src/`; its reads and writes (`ReadPath`,
  `Writes`) follow spec §4.3 and are marked spec-modelled. The order in
  which `UpdateForRoot` writes the value relative to the path is not known,
  so it is the constant `ValueSetFirst`; both values give the same results.
- **Go map order.** `processTransaction` ranges over a map of domains; every
  order is enumerated (`SetToSeqs`).
- **Per-domain steps.** `UpdateAll` walks that order and calls
  `UpdateDomainTreeRoot` for each domain. That first reads the domain's path
  (`getDomain`). When the read fails (`GetDomainFails`: a key on the path is no
  longer in the mem store), the worker panics and the walk stops. Otherwise
  the domain's writes go through `SetAll`.

### The domain tracker

- **The server is an environment.** Domain trees only grow, heads are
  published with their domain-tree sizes and kept by size, and a republish
  only renews the signature (`sig`).
- **A round is one step.** Every request the tracker makes names a map size
  or a domain-tree size already published, so its answer does not depend
  on when it is made. Any request may fail (`stop`: where each name's loop
  ends), and a failing CT request panics the tracker (`CTLogPanic`).
- **Handlers.** The answers come from operators that translate the three
  handlers the tracker calls. `GetAndVerifySMH` gives the latest head, or
  nothing while the head is the unsigned empty head. `GetDomainRootAndProof`
  gives the tree size under head *k* and the normalized name.
  `GetEntryAndProof` gives an entry of the live tree. Its error checks
  (`index < treeSize <= len(leaves)`) are kept as a TLC `Assert`, which no
  reachable request of the tracker trips.
- **Names.** `Names` are the `--domain` arguments; `Normalize` is what the
  server's `NormalizeDomainName` makes of each.

## Runs

| Run | Config | Expect | Checks |
|---|---|---|---|
| `core_safety` | `MCDomainTransparency.cfg` | pass | `TypeOK`, `HeadsCommitExactly`, `EntriesAppendedInOrder`, `WorkerNeverFails`, `FetchedEventuallyPublished`, `HeadLogRefined` with 2 logs, 2 domains, CT logs of up to 2 certificates, channel of 2, and certificates naming one or both domains once (9,388 states). |
| `out_of_order_apply` | `MCOutOfOrderApply.cfg` | violation | `HeadsCommitExactly` with 3 logs. |
| `queued_forever` | `MCQueuedForever.cfg` | violation | `FetchedEventuallyPublished` with 3 logs. |
| `nameless_batch` | `MCNamelessBatch.cfg` | violation | `WorkerNeverFails` when a certificate has no valid name. |
| `repeated_name` | `MCRepeatedName.cfg` | violation | `EntriesAppendedInOrder` when a CN repeats a SAN. |
| `tree_index` | `DomainTreeIndex.cfg` | pass | `TypeOK`, `LookupMatchesLeaves` and `AddEntryNotStarved` under `FairSpec`, over every sequence of up to 3 appends (2 logs, certificate indices 0..2) and every request of two concurrent handlers (1,099,038 states). |
| `tree_index_panic` | `DomainTreeIndexPanic.cfg` | violation | `LookupNeverPanics`, with one handler (so no race is involved). |
| `tree_race` | `DomainTreeIndexRace.cfg` | violation | `NoDataRace` with two handlers. |
| `store_pruning` | `MCSparseStore.cfg` | pass | `TypeOK`, `PublishedRootsReadable`, `OrphansPruned` with up to 7 certificates, each naming one of two domains (21,845 states). |
| `shared_value` | `MCSparseStoreShared.cfg` | violation | `PublishedRootsReadable` when a certificate names both domains. |
| `tracker_reports` | `MCDomainTracker.cfg` | pass | `TypeOK`, `ReportedOnce`, `NoneSkipped` tracking `a.com` and `b.com`, up to 3 certificates and 4 signatures (106,735 states). |
| `tracker_subdomain` | `MCDomainTrackerSubdomain.cfg` | violation | `ReportedOnce` tracking `www.a.com`. |

### Properties

- **`HeadsCommitExactly`.** Every head ever published commits, for every
  domain, to exactly the entries of the certificates that name it among the
  first `revs[k]` certificates of every log *k* it covers. Its `mapSize` is
  the sum of the revisions, and its source-tree root covers logs 0..*n*-1 in
  order. This is the property a domain owner's tracker relies on: it checks a
  CT inclusion proof against the head's revisions. It ties together the
  fetcher's bucketing, the worker's queueing and application order, and the
  publish gate.
- **`EntriesAppendedInOrder`.** Spec §4.4: within a domain tree, the entries of
  one log have strictly increasing certificate indices.
- **`WorkerNeverFails`.** The publish gate never rejects the worker's own head,
  so `run()` never returns an error (spec §7: upstream data never terminates
  the worker).
- **`FetchedEventuallyPublished`.** The latest head catches up, again and
  again, with every STH a fetcher sent, once the log's predecessors have each
  sent one (I2). Every model log stops growing at `MaxTreeSize`, so this is
  spec P8's "eventually reflected".
- **`LookupMatchesLeaves`** (`DomainTreeIndex`). Whenever each log's entries
  were appended in order (spec §4.4), a lookup that does not panic returns a
  position holding the requested entry exactly when the tree holds it. The
  reference is the set of positions of the leaf sequence, so the check
  compares the per-log bookkeeping and the bisection with the tree itself.
- **`AddEntryNotStarved`** (`DomainTreeIndex`). Once the worker's
  `AddEntry` has called `dtree.m.Lock()`, it gets the lock, however many
  get-domain-tree-index requests keep arriving. `sync.RWMutex` holds off
  new `RLock`s while a writer waits, and every reader inside
  `EntryToDomainTreeIndex` reaches its deferred `RUnlock`, the panicking
  ones included. The mutant releases the read lock only when the lookup
  returns, as a non-deferred `RUnlock` would. Then a lookup that panics at
  `domainTree.go:139` keeps the lock, and the worker waits for ever.
- **`PublishedRootsReadable`** (`SparseStore`). Every node, leaf and value
  under every published root is still in the store (P5/P6), so reads at any
  published head work after later publishes prune.
- **`OrphansPruned`** (`SparseStore`). Every key in the store is under a
  published root or still staged: pruning leaves nothing behind (P6).
- **`HeadLogRefined`** (`DomainTransparency`). `dm.smh` and `dm.smhs`, under
  the refinement mapping `latest <- smh, history <- smhs`, behave as
  `SignedHeadLog`: each installed head has a larger size, keeps the source
  list as a prefix, no revision or domain-tree size shrinks, and the head is
  kept under its size for historical reads.
- **`ReportedOnce`** (`DomainTracker`). No certificate is reported twice for
  the same domain, across rounds and across `--domain` names.
- **`NoneSkipped`** (`DomainTracker`). Every entry of a tracked domain between
  the size seen at start and the size the tracker advanced to has been
  reported, whatever requests failed.
- **`NoDataRace`** (`DomainTreeIndex`). No two goroutines access the same
  memory at once with one of them writing: the worker's `AddLeaf` never
  overlaps a handler's read of the Merkle tree, and no handler writes the
  `leavesPerLog` header while another handler uses it.
- **`TypeOK`.** The type invariant of each module.

Every property of a passing run has a mutant in `PROJECT.json`: a plausible
bug in the definition it checks, under which TLC finds the property violated.

### Findings (violation runs)

1. **Out-of-order apply** (`worker.go:131`). The queue sweep makes one pass.
   With three logs the arrivals are log 2 (STH 1), log 1, log 0, log 2
   (STH 2):
   1. log 2's first transaction is queued, then log 1's;
   2. log 0 arrives and is applied; the sweep skips log 2 and applies log 1;
   3. log 2's second transaction arrives and is applied directly;
   4. the sweep then applies log 2's earlier, stale transaction.

   `sourceRevisions[2]` drops back to 1 while log 2's certificate 1 is already
   in the domain tree. The published head's revision of log 2 therefore does
   not cover an entry it commits to.
2. **Queued forever** (`worker.go:131`). In the same pass, a queued
   transaction that became processable stays in the queue until some other
   transaction arrives.
3. **Nameless batch** (`domainMap.go:140`).
   - A batch whose certificates have no valid name grows `mapSize` but not the
     root.
   - The gate rejects it as a republish with a different size.
   - The worker stops, and `handleInterrupts` then stops the HTTP server.
4. **Repeated name** (`fetcher.go:113`). A certificate is bucketed once per
   name occurrence, so a CN equal to a SAN gives the domain two entries for
   one certificate.
5. **Index lookup panics** (`domainTree.go:139`). `EntryToDomainTreeIndex`
   reads `leaves[i]` for the position `sort.Search` returns, without checking
   `i < len(leaves)`. A request for a log with no entries in the domain tree,
   or for a certificate index above the log's largest, panics the handler
   instead of returning "no entry found".

6. **Shared value pruned** (`wrapper.go:69`). A certificate naming two new
   domains gives both trees the same single entry, so both leaves carry the
   same value key and smt `Set`s it twice:
   - `memMapStore.Set` ignores the second write, but `wrapper.Set` stages it
     again, and `newEntriesMap` keeps only the later position;
   - `markToSave` marks that later entry, and `pruneUntil` hands the earlier,
     unmarked one to `ProcessKeys`, which deletes the key;
   - the published root has lost its value. The next update of either domain
     reads it and `getDomain` panics (`domainMap.go:113`), which crashes the
     server; readers of that head panic too.
7. **Tracker re-reports** (`domainTracker.go:111`). `UpdateDomainTreeRoots`
   reads `lastTreeSizes[d]` under the `--domain` argument as given, while
   `getTreeUpdates` advances it under the server's normalized name. For
   `www.a.com` (or `A.com`) the read size never advances, so every new head
   re-reports every certificate seen since start.

8. **Merkle tree race** (`domainTree.go:119`). `DomainTree.AddEntry` calls
   `dtree.tree.AddLeaf` directly, under `dtree.m` only. `SourceTree.AddEntry`
   instead goes through `merkleTree.addLeaf`, which takes the Merkle tree's
   lock. The proof handlers (`GetAuditProof`, `GetConsistencyProof`) hold
   only that lock, so they read the in-memory tree while the worker appends
   to it. `merkleTree.go` states that all its operations are thread-safe and
   that even reads mutate the tree. In Go a data race is undefined
   behaviour. The same property is also violated by two handlers growing
   `leavesPerLog` under the read lock (`domainTree.go:136`); TLC shows that
   trace when the worker adds no entries (`MaxLeaves = 0`). A handler whose
   grown list is shortened by the other's stale write then indexes past its
   end at line 137.

### Bounds

- **Two logs** are enough for everything the queue does when the bug above
  cannot occur, because with two logs the queue only ever holds log-1
  transactions.
- **Three logs** are the fewest that expose findings 1 and 2.
- **CT logs of up to 2 certificates** allow two STHs per log, so a log can
  have a stale transaction and an extension.
- **Two domains** let one certificate name two domains.
- **A channel of 2** lets transactions of different logs wait together.
- **`DomainTreeIndex`.** Three leaves over two logs and three certificate
  indices give per-log lists of length 0 to 3. Two handlers are the fewest
  that race with each other. The bisection takes every
  branch on them, and requests cover an absent log, an index between
  entries, and an index above all of them.

- **`SparseStore`.** Seven certificates of one domain each give up to
  six publishes over roots of every shape, with each domain's leaf
  replaced several times, with certificates reaching both leaves
  before and after a publish. Two certificates suffice for finding 6.
- **`DomainTracker`.** Three certificates and four signatures give rounds
  with new entries, republishes with none, partial failures followed by a
  resuming round, and certificates naming both domains.

### Fairness

- **Worker.** `WF_vars(Receive)` and `WF_vars(UpdateTick)`. The worker loops
  on its `select` forever, and Go's `select` picks uniformly among the ready
  cases. So a waiting transaction is eventually received, and a pending size
  difference is eventually published by the update ticker.
- **Domain tree handlers.** `FairSpec` of `DomainTreeIndex` has weak
  fairness on the worker's steps after `Lock()` and on each handler's steps
  inside a call it has made: a goroutine that has started runs on. Starting
  a lookup or a proof read has no fairness, since clients need not send
  requests, and neither has the worker's next `AddEntry`.
- **Tracker.** No fairness and no liveness property: any request may fail
  for ever, and a failed CT request ends the tracker.
- **Fetchers.** No fairness. A CT log may stop growing, and `fetcherData`
  sleeps until its start time.

## Plan

1. **Cancellation.** This covers `handleInterrupts` (`main.go:145-167`),
   `ctx.Done()` in the worker (`worker.go:78`) and the
   `context.Background()` fetchers of `main.go:140`. Added to the composed
   model as `cancelled` and `serving` with `Interrupt`, `WorkerCancelled`
   and `Shutdown`, it makes the state space four times larger. Checking the
   two liveness properties then takes over four minutes. It needs a run of
   its own with smaller bounds.

## Hazards not yet covered

`PROJECT.json` lists every hazard at its source line. These have no property
yet:
- the client-chosen growth of `leavesPerLog` (`domainTree.go:136`);
- the tracker's panic on a failed CT request (`domainTracker.go:162`) and
  its reporting of old certificates as new after a failed start-up request
  (`domainTracker.go:117`).

The decode-error path (`fetcher.go:83`) is covered for the partial send:
`HeadsCommitExactly` breaks if the indices gathered before the bad entry are
sent (the `processErr` check at `fetcher.go:120` dropped). That the code stops
the fetcher for good, where spec section 7 says "Logged; retried after
`sthCheckInterval`", is `FetcherDecodeError` itself; it is a divergence
from the spec that no run states as a property. A fetcher blocked on the
channel send (`fetcher.go:127`) is not a hazard: when the worker returns,
it closes `stopped`, and `handleInterrupts` shuts the server down and
`main` returns.

## Not modelled

- **Cryptographic hashing, signatures and TLS encoding.** Replaced by what
  they commit to.
- **HTTP handlers and the map client.** Beyond the three handlers the
  tracker calls: request parsing, JSON encoding and proof verification. The
  tracker assumes every proof verifies. They depend on the committed contents that
  `HeadsCommitExactly` checks.
- **Utilities, flags, keys and the add-certificates tool.** I/O and
  formatting. `treeDrawer` and `shortHash` only format debugging output.
  `merkleMapStore` is an adapter nothing under `src` uses: its `Set` and
  `Delete` return "not supported". `add-certificates` is a separate CLI that
  generates, signs and submits certificates to a test CT log.
