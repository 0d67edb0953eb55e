----------------------------- MODULE DTCommon ------------------------------
(***************************************************************************)
(* Names shared by the components: the normalized domain names and the     *)
(* DomainTreeEntry type of domainTree.go.                                  *)
(***************************************************************************)
EXTENDS Naturals, Sequences

CONSTANTS
  Domains          \* normalized domain names (model values)

\* DomainTreeEntry: <<LogIndex, CertificateIndex>>, a pointer into a CT log.
Entry == Nat \X Nat

=============================================================================
