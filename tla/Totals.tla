------------------------------- MODULE Totals -------------------------------
(* The total of a function over a finite set of indices, which amounts and     *)
(* units of stock are added up with.                                           *)
EXTENDS Integers, FiniteSetsExt

Total(f, S) == MapThenSumSet(LAMBDA i : f[i], S)
=============================================================================
