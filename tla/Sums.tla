-------------------------------- MODULE Sums --------------------------------
(***************************************************************************)
(* Sums of the values of a function of 1..n, as a recursive function: each *)
(* step adds the next value, in their order, where a fold over a set takes *)
(* its elements in any.                                                    *)
(***************************************************************************)
EXTENDS Integers

SumTo(f, n) ==
  LET s[k \in 0..n] == IF k = 0 THEN 0 ELSE s[k - 1] + f[k]
  IN  s[n]
=============================================================================
