----------------------------- MODULE Iteration -----------------------------
(***************************************************************************)
(* A loop over 1 .. n that carries a number along: g[k][y] is what its     *)
(* k-th iteration makes of y.                                              *)
(***************************************************************************)
EXTENDS Integers, Sequences

Trace(g, x, n) ==
  LET after[k \in 0 .. n] == IF k = 0 THEN x ELSE g[k][after[k - 1]]
  IN  after
Iterate(g, x, n) == Trace(g, x, n)[n]

(* The sum of a sequence of numbers, and a power of a number.              *)
Partial(f) == Trace([k \in DOMAIN f |-> [y \in Int |-> y + f[k]]], 0, Len(f))
Total(f) == Partial(f)[Len(f)]
Power(b, n) == Iterate([k \in 1 .. n |-> [y \in Int |-> b * y]], 1, n)
=============================================================================
