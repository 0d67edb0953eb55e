---------------------------- MODULE SignedHeadLog ----------------------------
(***************************************************************************)
(* What the domain map promises the readers of its signed map heads        *)
(* (get-smh, get-domain-root-and-proof by map size, and the domain         *)
(* tracker that follows heads over time), independent of how heads are     *)
(* built: spec P1 and invariants I1-I4.                                    *)
(*                                                                         *)
(*  - heads are published with strictly growing map sizes, and each is    *)
(*    kept for good under its map size (dm.smhs);                          *)
(*  - a later head extends an earlier one: the source tree only gains      *)
(*    logs, no log's revision shrinks, and no domain's tree size shrinks.  *)
(*                                                                         *)
(* A head is taken by what it commits to: its map size, the domain-tree    *)
(* size under every domain of its sparse root, the tree size of every      *)
(* source log, and the source-tree leaves its source root covers.          *)
(* Timestamps and signatures are left out, so a republish is a stuttering  *)
(* step.                                                                   *)
(***************************************************************************)
EXTENDS Naturals, Sequences, SequencesExt

CONSTANTS
  Domains,         \* the domains a root may hold
  EmptyHead        \* the head readers see before the first publish

VARIABLES
  latest,          \* the head get-smh returns
  history          \* map size -> the head published with that size

SignedHead == [mapSize : Nat, root : [Domains -> Nat], revs : Seq(Nat),
         src : Seq(Nat)]

\* A head h may follow g: a larger map, the same source logs and maybe
\* more, in the same order, one revision per log, and nothing shrinking.
Follows(h, g) ==
  /\ h.mapSize > g.mapSize
  /\ IsPrefix(g.src, h.src)
  /\ Len(h.revs) = Len(h.src)
  /\ \A k \in 1..Len(g.revs) : h.revs[k] >= g.revs[k]
  /\ \A d \in Domains : h.root[d] >= g.root[d]

Init ==
  /\ latest = EmptyHead
  /\ history = [m \in {} |-> EmptyHead]

\* A new head is published and kept under its map size.
Publish ==
  /\ latest' \in SignedHead
  /\ Follows(latest', latest)
  /\ history' = history @@ (latest'.mapSize :> latest')

Spec == Init /\ [][Publish]_<<latest, history>>

=============================================================================
