-------------------------------- MODULE Sums --------------------------------
(***************************************************************************)
(* The sums that the page takes with Array.prototype.reduce, as recursive  *)
(* functions of how many terms are added.                                  *)
(***************************************************************************)
EXTENDS Integers, Sequences

\* f[1] + .. + f[n].
SumTo(f, n) ==
    LET sum[k \in 0..n] == IF k = 0 THEN 0 ELSE sum[k - 1] + f[k] IN sum[n]

Total(s) == SumTo(s, Len(s))
=============================================================================
