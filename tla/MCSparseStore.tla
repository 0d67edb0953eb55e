---------------------------- MODULE MCSparseStore ----------------------------
(* SparseStore with the domains as model values. *)
EXTENDS SparseStore

\* Every certificate names one of the two domains.
MCShapesOneDomain == {{DomL}, {DomR}}

\* A certificate may name both domains (a SAN list with two registrable
\* domains), as well as either one.
MCShapesAny == {{DomL}, {DomR}, {DomL, DomR}}
=============================================================================
