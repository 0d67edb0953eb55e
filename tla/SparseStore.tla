----------------------------- MODULE SparseStore -----------------------------
(***************************************************************************)
(* The copy-on-write store behind the sparse Merkle tree: the wrapper of   *)
(* mapstore/wrapper.go over the memMapStore of mapstore/mem.go, driven by  *)
(* the worker's updates (processTransaction -> UpdateDomainTreeRoot ->     *)
(* smt.UpdateForRoot -> Set) and publishes (CheckAndPublishSMH ->          *)
(* SaveNodesForRoot).                                                      *)
(*                                                                         *)
(* The store is content addressed: a key is the hash of its value, so a    *)
(* key is modelled by the body it hashes (hash collisions aside) and the   *)
(* base store by the set of keys it holds.  Values are stored under the    *)
(* hash of their encoding, leaves as 0x00||path||valueHash and interior    *)
(* nodes as 0x01||left||right.  The sparse tree is over two domains whose  *)
(* paths differ in the first bit: its root is the placeholder, one leaf,   *)
(* or a node over both leaves (the compact tree of spec 4.3).  A domain's  *)
(* DomainTreeRoot is modelled by the certificates in its domain tree, so   *)
(* two domains' roots are equal exactly when their trees are.              *)
(***************************************************************************)
EXTENDS Naturals, Sequences, SequencesExt, TLC

CONSTANTS
  DomL, DomR,      \* the two domains: DomL's path starts with 0, DomR's with 1
  MaxCerts,        \* certificates the worker processes (certificate ids 1..)
  CertShapes,      \* the sets of these domains a certificate may name
  ValueSetFirst    \* TRUE if UpdateForRoot stores the value before the leaf

ASSUME MaxCerts \in Nat /\ ValueSetFirst \in BOOLEAN
ASSUME CertShapes \subseteq (SUBSET {DomL, DomR}) \ {{}}

Domains == {DomL, DomR}
Other(d) == IF d = DomL THEN DomR ELSE DomL

Placeholder == [kind |-> "empty"]
ValueKey(v) == [kind |-> "value", value |-> v]
LeafKey(d, v) == [kind |-> "leaf", path |-> d, value |-> v]
NodeKey(l, r) == [kind |-> "node", left |-> l, right |-> r]

VARIABLES
  mem,            \* memMapStore.mem, as the set of keys it holds
  newEntries,     \* wrapper.newEntries: staged [key, save] in Set order
  newEntriesMap,  \* wrapper.newEntriesMap: key -> position in newEntries
  trees,          \* domain -> certificates of its domain tree (its value)
  nextCert,       \* the next certificate the worker processes
  latest,         \* root of dm.smh
  published,      \* roots of dm.smhs
  workerState     \* "running", "panicked" (getDomain) or "failed" (publish)

vars == <<mem, newEntries, newEntriesMap, trees, nextCert, latest, published,
          workerState>>

\* The state the worker's updates change, as one record.
S == [mem |-> mem, newEntries |-> newEntries, newEntriesMap |-> newEntriesMap,
      trees |-> trees, workerState |-> workerState]

Init ==
  /\ mem = {}
  /\ newEntries = <<>>
  /\ newEntriesMap = <<>>
  /\ trees = [d \in Domains |-> <<>>]
  /\ nextCert = 1
  /\ latest = Placeholder
  /\ published = {}
  /\ workerState = "running"

\* The root smt computes for the domain trees t (spec 4.3).
LeafOf(t, d) == LeafKey(d, t[d])
RootOf(t) ==
  CASE t[DomL] = <<>> /\ t[DomR] = <<>> -> Placeholder
    [] t[DomR] = <<>>                     -> LeafOf(t, DomL)
    [] t[DomL] = <<>>                     -> LeafOf(t, DomR)
    [] OTHER -> NodeKey(LeafOf(t, DomL), LeafOf(t, DomR))

\* The keys of the tree under a root: nodes, leaves and values.
Children(k) ==
  CASE k.kind = "node" -> {k.left, k.right}
    [] k.kind = "leaf" -> {ValueKey(k.value)}
    [] OTHER           -> {}
NodesOf(r) ==
  ({r} \cup Children(r) \cup UNION {Children(c) : c \in Children(r)})
    \ {Placeholder}

\* smt.GetForRoot(d, root): the keys it reads with Get.  When d's slot is
\* empty the walk ends at the other domain's leaf without reading a value.
ReadPath(t, d) ==
  ({RootOf(t)} \ {Placeholder})
    \cup (IF t[d] = <<>> THEN {} ELSE {LeafOf(t, d), ValueKey(t[d])})

\* smt.UpdateForRoot(d, value, root) for the trees t after the update: the
\* keys it Sets, the new leaf up to the new root, and the value.
Writes(t, d) ==
  LET chain == IF t[Other(d)] = <<>> THEN <<LeafOf(t, d)>>
               ELSE <<LeafOf(t, d), RootOf(t)>>
  IN IF ValueSetFirst THEN <<ValueKey(t[d])>> \o chain
     ELSE chain \o <<ValueKey(t[d])>>

\* memMapStore.Set: a key already held keeps its (identical) value.
BaseSet(m, k) == m \cup {k}

\* Mutant: the index records the position before the append.
SetIndexBeforeAppend(s, k) ==
  [s EXCEPT !.mem = @ \cup {k},
            !.newEntries = Append(@, [key |-> k, save |-> FALSE]),
            !.newEntriesMap = (k :> Len(s.newEntries)) @@ @]

\* wrapper.Set with memMapStore.Set: the base store keeps an existing key
\* (same key, same value: a no-op) or adds it; the key is staged again
\* either way, and the index now points at its last staging.
Set(s, k) ==
  [s EXCEPT !.mem = BaseSet(@, k),
            !.newEntries = Append(@, [key |-> k, save |-> FALSE]),
            !.newEntriesMap = (k :> (Len(s.newEntries) + 1)) @@ @]

SetAll(s, ks) == FoldLeft(Set, s, ks)

\* DomainMap.getDomain: smt.GetForRoot reads d's path under the current
\* root, and a key missing from the store is an error getDomain panics on.
GetDomainFails(s, d) == ~(ReadPath(s.trees, d) \subseteq s.mem)

\* DomainMap.UpdateDomainTreeRoot for d, whose tree is now t[d]: the
\* "back in time" check reads the domain at the root (GetDomainTreeRoot,
\* getDomain), then smt.UpdateForRoot Sets the new keys.
UpdateDomainTreeRoot(s, d, t) ==
  IF GetDomainFails(s, d)
  THEN [s EXCEPT !.trees = t, !.workerState = "panicked"]
  ELSE SetAll([s EXCEPT !.trees = t], Writes(t, d))

\* The loop of processTransaction over the certificate's domains, in the
\* order the Go map yields them: AddEntry, then UpdateDomainTreeRoot; a
\* panic ends the worker.
RECURSIVE UpdateAll(_, _, _)
UpdateAll(s, order, c) ==
  IF order = <<>> THEN s
  ELSE LET d  == Head(order)
           s1 == UpdateDomainTreeRoot(s, d, [s.trees EXCEPT ![d] = Append(@, c)])
       IN IF s1.workerState = "panicked" THEN s1
          ELSE UpdateAll(s1, Tail(order), c)

Install(s) ==
  /\ mem' = s.mem
  /\ newEntries' = s.newEntries
  /\ newEntriesMap' = s.newEntriesMap
  /\ trees' = s.trees
  /\ workerState' = s.workerState

\* A transaction with one certificate naming the domains of a shape.
ProcessCert ==
  /\ workerState = "running"
  /\ nextCert <= MaxCerts
  /\ \E shape \in CertShapes : \E order \in SetToSeqs(shape) :
       \E s \in {UpdateAll(S, order, nextCert)} : Install(s)
  /\ nextCert' = nextCert + 1
  /\ UNCHANGED <<latest, published>>

Staged(s, k) == k \in DOMAIN s.newEntriesMap

\* The keys TraverseNodes(root) gets while markToSave walks: the root, and
\* the children of a node mark found staged (mark skips the branch of a
\* node that is not staged).  Get(placeholder) always succeeds.
Visited(s, r) ==
  ({r} \cup (IF r.kind = "node" /\ Staged(s, r) THEN {r.left, r.right}
             ELSE {}))
    \ {Placeholder}

\* Mutant: the leaf handler marks the leaf but not its value.
MarkedNoValue(s, r) == {k \in Visited(s, r) : Staged(s, k)}

\* mark(hash) for every visited key, and mark(valueHash) for a leaf that
\* was itself staged: the staged keys markToSave reaches.
Marked(s, r) ==
  LET hit == {k \in Visited(s, r) : Staged(s, k)}
  IN hit \cup {v \in {ValueKey(l.value) : l \in {k \in hit : k.kind = "leaf"}} :
                 Staged(s, v)}

\* markToSave: ShouldSave on the entry newEntriesMap points at.
MarkToSave(s, r) ==
  [s EXCEPT !.newEntries =
     [i \in DOMAIN s.newEntries |->
        IF s.newEntries[i].key \in Marked(s, r)
           /\ s.newEntriesMap[s.newEntries[i].key] = i
        THEN [s.newEntries[i] EXCEPT !.save = TRUE]
        ELSE s.newEntries[i]]]

\* The position of root's first staging, or of the last entry when it is
\* not staged ("Pruning all nodes").
RootIndex(es, r) ==
  LET i == SelectInSeq(es, LAMBDA e : e.key = r)
  IN IF i = 0 THEN Len(es) ELSE i

\* newEntriesMap rebuilt over the entries kept: each key's last position.
Reindex(es) ==
  [k \in {es[i].key : i \in DOMAIN es} |->
     Max({i \in DOMAIN es : es[i].key = k})]

\* memMapStore.ProcessKeys: delete every listed key not marked ShouldSave.
ProcessKeys(m, keys) ==
  m \ {keys[i].key : i \in {j \in DOMAIN keys : ~keys[j].save}}

\* Mutant: the staged prefix is dropped without ProcessKeys.
PruneUntilKeepAll(s, r) ==
  LET rest == SubSeq(s.newEntries, RootIndex(s.newEntries, r) + 1,
                     Len(s.newEntries))
  IN [s EXCEPT !.newEntries = rest, !.newEntriesMap = Reindex(rest)]

\* pruneUntil: hand the entries up to the root to memMapStore.ProcessKeys,
\* which deletes every entry not marked, and keep the rest staged.
PruneUntil(s, r) ==
  LET ri        == RootIndex(s.newEntries, r)
      toProcess == SubSeq(s.newEntries, 1, ri)
      rest      == SubSeq(s.newEntries, ri + 1, Len(s.newEntries))
  IN [s EXCEPT !.mem = ProcessKeys(@, toProcess),
               !.newEntries = rest,
               !.newEntriesMap = Reindex(rest)]

\* CheckAndPublishSMH for a new root (a republish leaves the store alone
\* and is a stuttering step here): SaveNodesForRoot, then install the head.
\* A Get failing during the traversal fails the publish and stops the
\* worker.
Publish ==
  LET r == RootOf(trees) IN
  /\ workerState = "running"
  /\ r # latest
  /\ \/ /\ ~(Visited(S, r) \subseteq mem)
        /\ workerState' = "failed"
        /\ UNCHANGED <<mem, newEntries, newEntriesMap, trees, latest, published>>
     \/ /\ Visited(S, r) \subseteq mem
        /\ Install(PruneUntil(MarkToSave(S, r), r))
        /\ latest' = r
        /\ published' = published \cup {r}
  /\ UNCHANGED nextCert

Next == ProcessCert \/ Publish

Spec == Init /\ [][Next]_vars

-----------------------------------------------------------------------------
(* Properties                                                              *)

Value == Seq(1..MaxCerts)
Leaf == [kind : {"leaf"}, path : Domains, value : Value]
Key == [kind : {"value"}, value : Value] \cup Leaf
         \cup [kind : {"node"}, left : Leaf, right : Leaf]

TypeOK ==
  /\ newEntries \in Seq([key : Key, save : BOOLEAN])
  /\ newEntriesMap \in [DOMAIN newEntriesMap -> 1..Len(newEntries)]
  /\ mem \subseteq Key
  /\ trees \in [Domains -> Value]
  /\ workerState \in {"running", "panicked", "failed"}

\* Spec P5/P6: every node, leaf and value under a published root stays in
\* the store, so reads at every SMH (getDomain) keep working after later
\* publishes prune the staged keys.
PublishedRootsReadable ==
  \A r \in published : NodesOf(r) \subseteq mem

\* Spec P6: pruning leaves nothing behind: a key in the store is under a
\* published root or still staged (written after the last published root).
OrphansPruned ==
  mem \subseteq UNION {NodesOf(r) : r \in published}
                  \cup {newEntries[i].key : i \in DOMAIN newEntries}

=============================================================================
