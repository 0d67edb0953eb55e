---------------------------- MODULE DomainTracker ----------------------------
(***************************************************************************)
(* The domain tracker of cmd/track-domain: a client that follows the map's *)
(* signed heads and reports every new certificate of the domains given     *)
(* with --domain.  Its loop (track-domain main.go): fetch a first SMH,     *)
(* record the current domain-tree sizes (UpdateDomainTreeRoots(false)),    *)
(* then for every SMH with a new signature fetch each domain's tree size   *)
(* at that head and the entries since the last size seen, and report them.*)
(*                                                                         *)
(* The map server is the environment: domain trees that only grow, heads   *)
(* published with growing map sizes and kept by size (SignedHeadLog), and  *)
(* republishes that only renew the signature.  Every request the tracker   *)
(* makes names a map size or a domain-tree size already published, so its *)
(* answer does not depend on when it is made: a whole round of requests is *)
(* one step, with any of the requests failing.  A certificate stands for   *)
(* its (log index, certificate index) entry; proofs and CT log lookups are *)
(* assumed to verify.                                                      *)
(***************************************************************************)
EXTENDS Naturals, FiniteSets, Sequences, SequencesExt, Functions, TLC

CONSTANTS
  Names,           \* the --domain arguments, in order
  Normalize,       \* NormalizeDomainName on them (the server's names)
  CertShapes,      \* the sets of domains a certificate may name
  MaxCerts,        \* certificates the map receives
  MaxSig           \* signed heads the map issues, republishes included

Domains == Range(Normalize)
NameSet == Range(Names)

ASSUME Normalize \in [NameSet -> Domains]
ASSUME CertShapes \subseteq (SUBSET Domains) \ {{}}

VARIABLES
  trees,           \* server: domain -> certificates of its domain tree
  heads,           \* server: dm.smhs by map size, as domain -> tree size
  sig,             \* server: signatures issued (a republish issues one)
  nextCert,        \* server: the next certificate
  pc,              \* tracker: "fetch", "init", "wait" or "dead"
  smh,             \* tracker: t.smh, as [head index, signature]
  lastTreeSizes,   \* tracker: t.lastTreeSizes (absent keys read as 0)
  reported,        \* history: <<domain, certificate>> -> times reported
  started          \* history: lastTreeSizes when the tracker started

serverVars == <<trees, heads, sig, nextCert>>
trackerVars == <<pc, smh, lastTreeSizes, reported, started>>
vars == <<serverVars, trackerVars>>

\* The size of each served domain tree: len(dtree.leaves), which AddEntry
\* returns.
Sizes == [d \in Domains |-> Len(trees[d])]

Init ==
  /\ trees = [d \in Domains |-> <<>>]
  /\ heads = <<>>
  /\ sig = 0
  /\ nextCert = 1
  /\ pc = "fetch"
  /\ smh = [k |-> 0, sig |-> 0]
  /\ lastTreeSizes = [x \in {} |-> 0]
  /\ reported = [p \in {} |-> 0]
  /\ started = [x \in {} |-> 0]

-----------------------------------------------------------------------------
(* The map server                                                          *)

\* A certificate naming the domains of a shape reaches their trees.
AddCert ==
  /\ nextCert <= MaxCerts
  /\ \E shape \in CertShapes :
       trees' = [d \in Domains |->
                   IF d \in shape THEN Append(trees[d], nextCert) ELSE trees[d]]
  /\ nextCert' = nextCert + 1
  /\ UNCHANGED <<heads, sig, trackerVars>>

\* A head over the current trees (the update tick).
PublishHead ==
  /\ sig < MaxSig
  /\ IF heads = <<>> THEN TRUE ELSE Sizes # Last(heads)
  /\ heads' = Append(heads, Sizes)
  /\ sig' = sig + 1
  /\ UNCHANGED <<trees, nextCert, trackerVars>>

\* The same head with a new timestamp and signature (the MMD tick).
Republish ==
  /\ sig < MaxSig
  /\ heads # <<>>
  /\ sig' = sig + 1
  /\ UNCHANGED <<trees, heads, nextCert, trackerVars>>

\* The read handlers the tracker calls.  dm.smhs is keyed by map size,
\* which grows with every head, so a head is named by its position k.

\* getSMH (GetLatestSMH) and the client's GetAndVerifySMH: the latest head
\* and its signature, or nothing while it is the unsigned empty head whose
\* signature check fails.
GetAndVerifySMH ==
  IF heads = <<>> THEN {} ELSE {[k |-> Len(heads), sig |-> sig]}

\* getDomainRootAndProof: the name normalized, GetSMH(size) and
\* GetDomainTreeRoot at its root: the domain's tree size under head k (0
\* for a domain the head does not hold).
GetDomainRootAndProof(k, n) ==
  [DomainTreeSize |-> heads[k][Normalize[n]],
   NormalizedDomainName |-> Normalize[n]]

\* getEntryAndProof: GetDomainTree, then DomainTree.GetEntryAndProof, which
\* fails unless index < treeSize <= the tree's size (GetEntries on the
\* live leaves, GetAuditProof at treeSize).  The tracker only asks below a
\* size a head committed to, so the error path is asserted unreachable.
GetEntryAndProof(d, treeSize, index) ==
  IF index < treeSize /\ treeSize <= Len(trees[d])
  THEN trees[d][index + 1]
  ELSE Assert(FALSE, "get-entry-and-proof fails")

-----------------------------------------------------------------------------
(* The tracker                                                             *)

\* A Go map read: a missing key reads as 0.
MapGet(m, x) == IF x \in DOMAIN m THEN m[x] ELSE 0

\* FetchSMH until it succeeds: the empty head before the first publish
\* carries no signature and fails verification.
FetchFirstSMH ==
  /\ pc = "fetch"
  /\ \E s \in GetAndVerifySMH : smh' = s
  /\ pc' = "init"
  /\ UNCHANGED <<serverVars, lastTreeSizes, reported, started>>

\* UpdateDomainTreeRoots(false): each name's tree size at the head, under
\* the name as given; a failed request leaves the name out.
InitTreeSizes ==
  /\ pc = "init"
  /\ \E ok \in SUBSET NameSet :
       lastTreeSizes' = [x \in DOMAIN lastTreeSizes \cup ok |->
                           IF x \in ok THEN GetDomainRootAndProof(smh.k, x).DomainTreeSize
                           ELSE lastTreeSizes[x]]
  /\ started' = lastTreeSizes'
  /\ pc' = "wait"
  /\ UNCHANGED <<serverVars, smh, reported>>

\* getTreeUpdate for entry j of domain d: a new update, or d appended to
\* the update an earlier name created for the same entry.
AddUpdate(u, d, e) ==
  IF e \in DOMAIN u THEN [u EXCEPT ![e] = Append(@, d)] ELSE u @@ (e :> <<d>>)

\* getTreeUpdate's request for each index from..to-1 of the root's domain
\* (GetEntryAndProof at the root's tree size), each entry added to
\* updatesMap.
FetchEntries(u, root, from, to) ==
  LET d == root.NormalizedDomainName
  IN FoldLeft(LAMBDA v, i : AddUpdate(v, d, GetEntryAndProof(d, root.DomainTreeSize, i)),
              u, [j \in 1..(to - from) |-> from + j - 1])

\* Mutant: lastTreeSizes is not advanced past the entries fetched.
GetTreeUpdatesNoAdvance(r, root, from, to) ==
  [r EXCEPT !.updates = FetchEntries(@, root, from, to)]

\* Mutant: a failed request still moves lastTreeSizes to the tree size.
GetTreeUpdatesSkipToSize(r, root, from, to) ==
  [updates |-> FetchEntries(r.updates, root, from, to),
   last |-> (root.NormalizedDomainName :> root.DomainTreeSize) @@ r.last]

\* Mutant: lastTreeSizes is set one past the entry fetched.
GetTreeUpdatesOffByOne(r, root, from, to) ==
  [updates |-> FetchEntries(r.updates, root, from, to),
   last |-> (root.NormalizedDomainName :> to + 1) @@ r.last]

\* getTreeUpdates(domainRoot, from, ...) after its requests below to
\* succeeded: entries from..to-1 recorded in updatesMap, and
\* lastTreeSizes[NormalizedDomainName] = to.
GetTreeUpdates(r, root, from, to) ==
  [updates |-> FetchEntries(r.updates, root, from, to),
   last |-> (root.NormalizedDomainName :> to) @@ r.last]

\* UpdateDomainTreeRoots(true) from name i on, over the round's record of
\* updatesMap and lastTreeSizes.  Name n's loop reads lastTreeSizes[n],
\* walks the entries up to the domain's size at head k and records each
\* under the normalized name the server returns; it ends early at the
\* first failed request (stop[i]), or at once when the root request fails.
RECURSIVE UpdateDomainTreeRoots(_, _, _, _)
UpdateDomainTreeRoots(r, i, k, stop) ==
  IF i > Len(Names) THEN r
  ELSE LET root == GetDomainRootAndProof(k, Names[i])
           from == MapGet(r.last, Names[i])
           to   == IF stop[i] < root.DomainTreeSize THEN stop[i]
                   ELSE root.DomainTreeSize
       IN UpdateDomainTreeRoots(IF from < to THEN GetTreeUpdates(r, root, from, to)
                                ELSE r,
                                i + 1, k, stop)

\* Count every <<domain, certificate>> of a round's updates as reported.
Report(rep, u) ==
  LET new == UNION {{<<d, e>> : d \in Range(u[e])} : e \in DOMAIN u}
      times(p) == Cardinality({j \in DOMAIN u[p[2]] : u[p[2]][j] = p[1]})
  IN [p \in DOMAIN rep \cup new |->
        MapGet(rep, p) + (IF p \in new THEN times(p) ELSE 0)]

\* WaitForSMH returns on a head with a new signature; the round runs at it
\* and the main loop logs the updates.
Round ==
  /\ pc = "wait"
  /\ \E s \in GetAndVerifySMH : \E stop \in [1..Len(Names) -> 0..MaxCerts] :
       LET r == UpdateDomainTreeRoots([updates |-> [e \in {} |-> <<>>],
                                       last |-> lastTreeSizes],
                                      1, s.k, stop)
       IN /\ s.sig # smh.sig
          /\ smh' = s
          /\ lastTreeSizes' = r.last
          /\ reported' = Report(reported, r.updates)
  /\ UNCHANGED <<serverVars, pc, started>>

\* A CT log request of getTreeUpdate fails: log.Panic ends the tracker
\* before the round's updates are logged.  The first entry the round
\* fetches is always new to updatesMap, so this happens on any round with
\* an entry to fetch.
CTLogPanic ==
  /\ pc = "wait"
  /\ \E s \in GetAndVerifySMH : \E n \in NameSet :
       /\ s.sig # smh.sig
       /\ MapGet(lastTreeSizes, n) < GetDomainRootAndProof(s.k, n).DomainTreeSize
  /\ pc' = "dead"
  /\ UNCHANGED <<serverVars, smh, lastTreeSizes, reported, started>>

Next ==
  \/ AddCert \/ PublishHead \/ Republish
  \/ FetchFirstSMH \/ InitTreeSizes \/ Round \/ CTLogPanic

Spec == Init /\ [][Next]_vars

-----------------------------------------------------------------------------
(* Properties                                                              *)

TypeOK ==
  /\ pc \in {"fetch", "init", "wait", "dead"}
  /\ smh \in [k : 0..Len(heads), sig : 0..sig]
  /\ \A x \in DOMAIN lastTreeSizes : lastTreeSizes[x] \in 0..MaxCerts
  /\ \A p \in DOMAIN reported : reported[p] \in Nat \ {0}

\* The tracker reports a certificate of a tracked domain at most once: a
\* round fetches the entries after lastTreeSizes and advances it past
\* each one it records, so no later round, and no other --domain name,
\* reports the same entry for the same domain again.
ReportedOnce ==
  \A p \in DOMAIN reported : reported[p] = 1

\* No certificate is skipped: every entry of a tracked domain's tree that
\* lies between the size seen at start and the size the tracker has
\* advanced to has been reported for that domain.
NoneSkipped ==
  \A n \in NameSet : LET d == Normalize[n] IN
    \A j \in (MapGet(started, n) + 1)..MapGet(lastTreeSizes, d) :
      <<d, trees[d][j]>> \in DOMAIN reported

=============================================================================
