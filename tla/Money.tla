------------------------------- MODULE Money -------------------------------
(***************************************************************************)
(* The arithmetic of packages/domain/money.ts.                             *)
(*                                                                         *)
(* Every amount the engine stores went through q, so it is a whole number  *)
(* of quanta of 10^-8 unit: the models count quanta, and an amount is an   *)
(* integer.  Prices and margins are counted in quanta and quantities in    *)
(* whole lots, so a price times a quantity is again a number of quanta.    *)
(* What q does to a quotient is to round it to the nearest quantum, halves *)
(* towards +infinity (Math.round).                                         *)
(***************************************************************************)
EXTENDS Integers

\* q(a / b) for a positive b.
RoundDiv(a, b) == (2 * a + b) \div (2 * b)

Sign(n) == IF n > 0 THEN 1 ELSE IF n < 0 THEN -1 ELSE 0

Abs(n) == IF n < 0 THEN -n ELSE n

Least(a, b) == IF a <= b THEN a ELSE b

Greatest(a, b) == IF a >= b THEN a ELSE b
=============================================================================
