-------------------------------- MODULE Sums --------------------------------
(* Sums of naturals over finite sets, as the number of units at their places: *)
(* without recursion, so that a proof can add to one and take from it.        *)
EXTENDS Naturals, FiniteSets

\* As many things at each place of S as f says.
Units(f, S) == UNION {{s} \X (1..f[s]) : s \in S}

Total(f, S) == Cardinality(Units(f, S))
=============================================================================
