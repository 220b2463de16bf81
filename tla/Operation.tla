------------------------------ MODULE Operation ------------------------------
(***************************************************************************)
(* The operations that scenario files and searches apply to numbers        *)
(* (src/src/utils.cpp).                                                    *)
(***************************************************************************)
EXTENDS Integers

Operations ==
  {"none", "equal", "negative-equal", "not-equal", "less-than",
   "greater-than", "less-or-equal", "greater-or-equal", "nonzero", "zero",
   "positive", "negative", "sign"}

Bit(b) == IF b THEN 1 ELSE 0

\* Retro::calculate of utils.cpp; a condition is 0 or 1.
Calculate(op, reference, value) ==
  CASE op = "none" -> value
    [] op = "equal" -> Bit(value = reference)
    [] op = "negative-equal" -> Bit(value = -reference)
    [] op = "not-equal" -> Bit(value # reference)
    [] op = "less-than" -> Bit(value < reference)
    [] op = "greater-than" -> Bit(value > reference)
    [] op = "less-or-equal" -> Bit(value <= reference)
    [] op = "greater-or-equal" -> Bit(value >= reference)
    [] op = "nonzero" -> Bit(value # 0)
    [] op = "zero" -> Bit(value = 0)
    [] op = "positive" -> Bit(value > 0)
    [] op = "negative" -> Bit(value < 0)
    [] op = "sign" -> Bit(value > 0) - Bit(value < 0)
=============================================================================
