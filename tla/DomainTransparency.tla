------------------------- MODULE DomainTransparency -------------------------
(***************************************************************************)
(* The map server of run-server/main.go: one fetcher per source log, the   *)
(* worker, and the DomainMap they feed, with the properties a published    *)
(* map head must have.                                                     *)
(***************************************************************************)
EXTENDS Worker

vars == <<dmVars, fetcherVars, workerVars>>

Init ==
  /\ DMInit
  /\ FetcherInit
  /\ WorkerInit

Next ==
  \/ \E k \in Logs : /\ FetcherIteration(k) \/ FetcherDecodeError(k)
                     /\ UNCHANGED <<dmVars, workerVars>>
  \/ Receive
  \/ UpdateTick
  \/ MMDTick

\* The worker goroutine loops on its select for ever: a transaction waiting
\* in the channel is eventually received, and the update ticker keeps
\* firing while the map size differs from the latest head's.  Fetchers get
\* no fairness: a CT log may stop growing.
Fairness ==
  /\ WF_vars(Receive)
  /\ WF_vars(UpdateTick)

Spec == Init /\ [][Next]_vars /\ Fairness

-----------------------------------------------------------------------------
(* Properties                                                              *)

TypeOK ==
  /\ smh \in MapHead
  /\ DOMAIN smhs \subseteq 1..NumLogs * MaxTreeSize
  /\ \A m \in DOMAIN smhs : smhs[m] \in MapHead
  /\ DOMAIN subtrees \subseteq Domains
  /\ \A d \in DOMAIN subtrees : subtrees[d] \in Seq(Entry)
  /\ sourceTree \in Seq(Logs)
  /\ fetched \in [Logs -> 0..MaxTreeSize]
  /\ fetcherState \in [Logs -> {"running", "stopped"}]
  /\ chan \in Seq(Transaction) /\ Len(chan) <= BufferSize
  /\ mapSize \in 0..NumLogs * MaxTreeSize
  /\ sourceRevisions \in Seq(0..MaxTreeSize)
  /\ mapRoot \in Root
  /\ queue \in Seq(Transaction)
  /\ workerState \in {"running", "failed"}

\* The entries of d's tree a head commits to: the prefix of the tree of the
\* length stored under the head's root.
Committed(h, d) ==
  LET tree == TreeOf(subtrees, d)
  IN {tree[i] : i \in 1..h.root[d]}

\* The entries d's tree must hold for a head: one per certificate naming d
\* among the first revs[k] certificates of every log k the head covers.
Reflected(h, d) ==
  UNION {{<<k, c>> : c \in {c \in 0..h.revs[k + 1] - 1 :
                              d \in ToSet(CertNames(ctLog[k][c + 1]))}}
         : k \in 0..Len(h.revs) - 1}

\* Every head ever published (the spec's covering commitment, S2-S4, and
\* the mapSize accounting of section 9) commits to exactly the certificates
\* its source log revisions cover: for every domain, the domain-tree prefix
\* under the head's root holds an entry for each certificate of a covered
\* log index that names the domain, and no other; mapSize is the sum of the
\* revisions; the source-tree root covers logs 0..n-1 in index order.  It
\* ties what the worker applied, in the order it applied it, to the fetched
\* CT contents and to the head the publish gate accepted.
HeadsCommitExactly ==
  \A m \in DOMAIN smhs :
    LET h == smhs[m] IN
    /\ h.mapSize = FoldSeq(+, 0, h.revs)
    /\ h.src = [i \in 1..Len(h.revs) |-> i - 1]
    /\ \A d \in Domains : h.root[d] <= Len(TreeOf(subtrees, d))
                           /\ Committed(h, d) = Reflected(h, d)

\* Section 4.4: within a domain tree, the entries of one log are appended in
\* strictly increasing certificate index (the order EntryToDomainTreeIndex's
\* binary search relies on), whatever order the transactions of the logs
\* reached the worker in.
EntriesAppendedInOrder ==
  \A d \in DOMAIN subtrees :
    \A i, j \in 1..Len(subtrees[d]) :
      (i < j /\ subtrees[d][i][1] = subtrees[d][j][1])
        => subtrees[d][i][2] < subtrees[d][j][2]

\* Section 7: the worker's own accounting never disagrees with the publish
\* gate, so CheckAndPublishSMH never rejects the worker's head and run()
\* never returns an error.
WorkerNeverFails == workerState # "failed"

\* Every log that has sent an STH, and whose predecessors have all sent
\* one (I2: log k is added only after logs 0..k-1), is covered by the
\* latest head up to the size of the last STH its fetcher sent.
PublishedCatchesUp ==
  \A k \in Logs :
    (\A j \in 0..k : fetched[j] > 0)
      => Len(smh.revs) > k /\ smh.revs[k + 1] >= fetched[k]

\* P8 and S4: whatever order the fetchers' transactions arrive in, the
\* latest published head catches up with every STH the fetchers sent, again
\* and again.  (Every log of the model stops growing at MaxTreeSize, so this
\* is the spec's "every fetched STH is eventually reflected in a head".)
FetchedEventuallyPublished == []<>PublishedCatchesUp

\* The heads CheckAndPublishSMH installs, dm.smh and dm.smhs, as the signed
\* head log readers see.
SHL == INSTANCE SignedHeadLog WITH latest <- smh, history <- smhs,
                                   EmptyHead <- EmptySMH

\* The publish gate implements the signed head log, whatever heads the
\* worker submits: every head dm.smh takes, over every sequence of ticks
\* and transactions, has a larger map size, extends the source logs and
\* their revisions and the domain-tree sizes of the previous one, and is
\* kept in dm.smhs under its size; a republish changes nothing readers
\* can see.
HeadLogRefined == SHL!Spec

=============================================================================
