-------------------------------- MODULE Sums --------------------------------
(* Sums over the places of a sequence.                                       *)
EXTENDS Integers

(* What the places of f up to n sum up to.                                   *)
Total(n, f) ==
  LET sum[k \in 0..n] ==
        IF k = 0 THEN 0 ELSE sum[k - 1] + (IF k \in DOMAIN f THEN f[k] ELSE 0)
  IN sum[n]
=============================================================================
