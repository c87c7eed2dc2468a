------------------------------- MODULE Totals -------------------------------
(***************************************************************************)
(* The sum of a function with natural values over a finite domain, as the  *)
(* number of its units: Units(f) has f[x] elements for each x.             *)
(* FoldFunction of the community modules computes the same number; this    *)
(* form is the one TotalsProofs can reason about.                          *)
(***************************************************************************)
EXTENDS Naturals, FiniteSets

Units(f) == UNION { {x} \X (1 .. f[x]) : x \in DOMAIN f }

Total(f) == Cardinality(Units(f))
=============================================================================
