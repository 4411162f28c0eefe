-------------------------- MODULE MCDomainPurchase --------------------------
(* Instances of DomainPurchase for TLC.                                    *)
EXTENDS DomainPurchase, TLC

CONSTANTS s1, s2, a1, a2, b1

\* One delivery at a time for each of two checkouts, and overlapping deliveries
\* for the first.
OneEach == (a1 :> s1) @@ (b1 :> s2)
TwoAndOne == (a1 :> s1) @@ (a2 :> s1) @@ (b1 :> s2)
=============================================================================
