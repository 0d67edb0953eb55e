----------------------- MODULE MCDomainTransparency ------------------------
(***************************************************************************)
(* Model of DomainTransparency for TLC: two domains, and certificates      *)
(* drawn from a few shapes.                                                *)
(***************************************************************************)
EXTENDS DomainTransparency

CONSTANTS d1, d2, bad

MCDomains == {d1, d2}

\* Certificates naming one domain, or both; each name once.
MCCertsDistinctNames ==
  { [dns |-> <<d1>>, cn |-> bad],
    [dns |-> <<d2>>, cn |-> bad],
    [dns |-> <<d1, d2>>, cn |-> bad] }

\* A single domain, for the runs with three logs.
MCOneDomain == {d1}

\* Certificates naming d1 once.
MCCertsOneName == { [dns |-> <<d1>>, cn |-> bad] }

\* A certificate whose common name repeats its DNS name, as most do.
MCCertsRepeatedName == { [dns |-> <<d1>>, cn |-> d1] }

\* A certificate with no name that normalizes (an IP-only or malformed
\* certificate), next to a named one.
MCCertsNameless ==
  { [dns |-> <<bad>>, cn |-> bad],
    [dns |-> <<d1>>, cn |-> bad] }

=============================================================================
