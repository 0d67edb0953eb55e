----------------------------- MODULE DomainMap -----------------------------
(***************************************************************************)
(* The composite authenticated structure of dt-structures/domainMap.go:    *)
(* the latest signed map head, the heads indexed by map size, the domain   *)
(* trees and the source tree.                                              *)
(*                                                                         *)
(* Data abstraction.  Hashes are replaced by what they commit to:          *)
(*  - a sparse-tree root is the function Domains -> Nat giving, for every  *)
(*    domain, the DomainTreeSize stored in its leaf (0 = empty slot, which *)
(*    is what GetDomainTreeRoot returns for an empty slot).  Two roots are *)
(*    equal iff they commit to the same leaves, as content addressing      *)
(*    makes the real hashes (collisions aside);                            *)
(*  - a domain tree is the sequence of its DomainTreeEntry leaves          *)
(*    <<logIndex, certIndex>>; its root at size n is the prefix of length  *)
(*    n (RFC 6962 roots of prefixes, merkleTree.go);                       *)
(*  - the source tree is the sequence of log ids; a log id is its index;   *)
(*    a source-tree root is the prefix it commits to;                      *)
(*  - a LogRevision is its TreeSize (a CT root hash is a function of the   *)
(*    append-only log's size);                                             *)
(*  - the timestamp and the signature are left out: signing is assumed to  *)
(*    succeed and a republish installs a head equal to the current one    *)
(*    but for the timestamp.                                               *)
(***************************************************************************)
EXTENDS DTCommon

VARIABLES
  smh,             \* dm.smh: the latest signed map head
  smhs,            \* dm.smhs: map size -> head, every head ever installed
  subtrees,        \* dm.subtrees: registered domain -> its leaves
  sourceTree       \* dm.sourceTree leaves: log ids in order of addition

dmVars == <<smh, smhs, subtrees, sourceTree>>

Root == [Domains -> Nat]                 \* a sparse-tree root, by what it commits
MapHead == [mapSize : Nat, root : Root, revs : Seq(Nat), src : Seq(Nat)]

\* The placeholder root of the empty sparse tree: every slot is empty.
EmptyRoot == [d \in Domains |-> 0]

\* emptySMH: the unsigned head a new DomainMap starts with.
EmptySMH == [mapSize |-> 0, root |-> EmptyRoot, revs |-> <<>>, src |-> <<>>]

\* NewDomainMap: no heads indexed, no domain trees, no source logs.
DMInit ==
  /\ smh = EmptySMH
  /\ smhs = [m \in {} |-> EmptySMH]
  /\ subtrees = [d \in {} |-> <<>>]
  /\ sourceTree = <<>>

\* GetDomainTreeRoot: the DomainTreeSize stored for d under root, 0 if empty.
GetDomainTreeRoot(root, d) == root[d]

\* The leaves of d's tree, empty for a domain with no registered tree.
TreeOf(trees, d) == IF d \in DOMAIN trees THEN trees[d] ELSE <<>>

\* AddDomainTree: register an empty tree for d; an existing tree for d is
\* an error ("domain tree already exists") that leaves the map as it was.
AddDomainTree(trees, d) ==
  IF d \in DOMAIN trees THEN trees
  ELSE [x \in DOMAIN trees \cup {d} |-> IF x = d THEN <<>> ELSE trees[x]]

\* worker.getDomainTree: the registered tree of d, or a new one added with
\* AddDomainTree.  (d is already normalized by the fetcher, so the
\* normalization errors cannot occur.)
GetDomainTree(trees, d) ==
  IF d \in DOMAIN trees THEN trees ELSE AddDomainTree(trees, d)

\* getDomainTree, then DomainTree.AddEntry for each certificate index, in
\* order: one DomainTreeEntry <<log, ci>> is appended per index.
AddEntries(trees, d, log, certIndices) ==
  LET new == [i \in 1..Len(certIndices) |-> <<log, certIndices[i]>>]
  IN [GetDomainTree(trees, d) EXCEPT ![d] = @ \o new]

\* UpdateDomainTreeRoot's check: the new size must exceed the size stored
\* for the domain under root ("cannot go back in time").
UpdateRejected(root, d, treeSize) == GetDomainTreeRoot(root, d) >= treeSize

\* UpdateDomainTreeRoot: the new root stores DomainTreeRoot(treeSize) for d.
UpdateDomainTreeRoot(root, d, treeSize) == [root EXCEPT ![d] = treeSize]

\* CheckAndPublishSMH's validation against the current head, in the order
\* of the code: map size, number of source logs, then each source log size.
\* TRUE when the call returns an error and nothing is installed.
PublishRejected(root, mapSize, revs) ==
  LET isRepublish == root = smh.root
  IN \/ isRepublish /\ mapSize # smh.mapSize
     \/ ~isRepublish /\ mapSize <= smh.mapSize
     \/ isRepublish /\ Len(revs) # Len(smh.revs)
     \/ ~isRepublish /\ Len(revs) < Len(smh.revs)
     \/ \E i \in 1..Len(smh.revs) :
          \/ isRepublish /\ revs[i] # smh.revs[i]
          \/ ~isRepublish /\ revs[i] < smh.revs[i]

\* Mutant: the source-tree root of the current head is always reused.
NewHeadReuseSource(root, mapSize, revs) ==
  IF root = smh.root THEN smh
  ELSE [mapSize |-> mapSize, root |-> root, revs |-> revs, src |-> smh.src]

\* The head CheckAndPublishSMH builds: on a republish the current head (with
\* a fresh timestamp); otherwise the given fields and the source-tree root
\* at Len(revs), reused from the current head when the count is unchanged.
NewHead(root, mapSize, revs) ==
  IF root = smh.root THEN smh
  ELSE [mapSize |-> mapSize, root |-> root, revs |-> revs,
        src |-> IF Len(revs) = Len(smh.revs) THEN smh.src
                ELSE SubSeq(sourceTree, 1, Len(revs))]

\* The installing tail of CheckAndPublishSMH, after validation and signing:
\* dm.smh = head; dm.smhs[head.MapSize] = head.  (Pruning of the sparse
\* store is the business of the MapStore module.)
\* Mutant: the head is installed as the latest but not kept by its size.
InstallHeadLatestOnly(head) ==
  /\ smh' = head
  /\ smhs' = smhs

InstallHead(head) ==
  /\ smh' = head
  /\ smhs' = [m \in DOMAIN smhs \cup {head.mapSize} |->
                IF m = head.mapSize THEN head ELSE smhs[m]]

=============================================================================
