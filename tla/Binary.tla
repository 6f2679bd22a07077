------------------------------- MODULE Binary -------------------------------
(***************************************************************************)
(* Powers of two, for the ranges of addresses of Filter and of Capture.    *)
(***************************************************************************)
EXTENDS Integers

\* Math.pow(2, n)
Pow2[n \in Nat] == IF n = 0 THEN 1 ELSE 2 * Pow2[n - 1]
=============================================================================
