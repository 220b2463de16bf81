------------------------------- MODULE Numbers -------------------------------
(***************************************************************************)
(* What the digits of a number count, for the numbers in the memory        *)
(* (DataType) and for those that are looked for (Search).                  *)
(***************************************************************************)
EXTENDS Naturals

\* base to the power of n: what baseShift comes to after n bytes.
Power(base, n) ==
  LET power[k \in 0 .. n] == IF k = 0 THEN 1 ELSE base * power[k - 1] IN power[n]
=============================================================================
