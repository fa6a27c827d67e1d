-------------------------------- MODULE Sums --------------------------------
(* Sums of natural numbers, without recursion: as many pairs as units.      *)
EXTENDS Naturals, FiniteSets

Units(f) == UNION {{x} \X (1 .. f[x]) : x \in DOMAIN f}
\* The sum of the values of f, a function to natural numbers on a finite set.
Total(f) == Cardinality(Units(f))
=============================================================================
