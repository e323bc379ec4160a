----------------------------- MODULE Arithmetic -----------------------------
(* Counters and sums, as the code computes them. *)
EXTENDS Integers

\* usize::saturating_sub
SaturatingSub(a, b) == IF a >= b THEN a - b ELSE 0

\* The sum of the first n elements of a sequence of numbers.
SumTo(s, n) ==
  LET sum[i \in 0..n] == IF i = 0 THEN 0 ELSE sum[i - 1] + s[i]
  IN  sum[n]
=============================================================================
