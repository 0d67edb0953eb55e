--------------------------- MODULE MCDomainTracker ---------------------------
(* The tracker following two domains, named as the server names them or   *)
(* with a name (a subdomain) the server normalizes to its registered one.  *)
EXTENDS DomainTracker

MCNamesNormalized == <<"a.com", "b.com">>
MCNormalizeNormalized == ("a.com" :> "a.com") @@ ("b.com" :> "b.com")

MCNamesSubdomain == <<"www.a.com", "b.com">>
MCNormalizeSubdomain == ("www.a.com" :> "a.com") @@ ("b.com" :> "b.com")

MCShapes == {{"a.com"}, {"b.com"}, {"a.com", "b.com"}}
=============================================================================
