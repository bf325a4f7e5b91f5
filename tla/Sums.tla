-------------------------------- MODULE Sums --------------------------------
(***************************************************************************)
(* Totals over an index range, as the billing code computes them with SQL  *)
(* SUM or a reduce over rows.  Written as a recursive function, and not as *)
(* one of the community folds, so that SumLemmas can reason about it.      *)
(***************************************************************************)
EXTENDS Integers

\* f[1] + ... + f[n]
Total(f, n) ==
  LET upTo[i \in 0 .. n] == IF i = 0 THEN 0 ELSE upTo[i - 1] + f[i]
  IN  upTo[n]

Smaller(a, b) == IF a <= b THEN a ELSE b
=============================================================================
