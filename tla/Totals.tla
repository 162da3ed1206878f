------------------------------- MODULE Totals -------------------------------
(***************************************************************************)
(* The sum of a function with natural values over a finite set.            *)
(***************************************************************************)
EXTENDS Naturals, FiniteSets

\* A sum counts one pair for each unit, so that it is a cardinality.
Total(f, S) == Cardinality(UNION {{x} \X (1 .. f[x]) : x \in S})
=============================================================================
