------------------------------- MODULE Totals -------------------------------
(***************************************************************************)
(* The sum of the values of a function over 1..n, as a recursive function, *)
(* so that TLC evaluates it and the proof system can reason about it.      *)
(***************************************************************************)
EXTENDS Integers

PartialTotals(n, f) ==
    LET s[i \in 0..n] == IF i = 0 THEN 0 ELSE s[i - 1] + f[i]
    IN  s

Total(n, f) == PartialTotals(n, f)[n]

=============================================================================
