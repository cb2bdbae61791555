------------------------------- MODULE Powers -------------------------------
(* Powers of two, which bound what a bisection leaves after some rounds.    *)
EXTENDS Integers

\* 2 to the n-th.
Pow2[n \in Nat] == IF n = 0 THEN 1 ELSE 2 * Pow2[n - 1]
=============================================================================
