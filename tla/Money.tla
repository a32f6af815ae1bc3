-------------------------------- MODULE Money --------------------------------
(***************************************************************************)
(* The rounding of backend/src/services/money.ts.                          *)
(*                                                                         *)
(* Amounts are naturals counted in the finest unit any supported asset     *)
(* has.  An asset whose minor unit is worth g fine units can only hold     *)
(* multiples of g, and quantizeNumber rounds to them.                      *)
(***************************************************************************)
EXTENDS Naturals

\* The quotient of two naturals, rounded to nearest, ties away from zero.
DivRoundHalfUp(numerator, divisor) ==
    LET quotient == numerator \div divisor
    IN  IF 2 * (numerator % divisor) >= divisor THEN quotient + 1 ELSE quotient

\* The multiple of grain nearest to amount.
Quantize(amount, grain) == grain * DivRoundHalfUp(amount, grain)
=============================================================================
