------------------------------ MODULE Doubles -------------------------------
(***************************************************************************)
(* The double and long double of the compiler, as statistics.c uses them:  *)
(* binary floating point that rounds to nearest, ties to even.             *)
(*                                                                         *)
(* A finite double is a whole number of units, the unit being the least    *)
(* positive double, so that halving is where the rounding of the smallest  *)
(* numbers shows.  A long double has more bits and finer units; its range  *)
(* holds every sum of doubles.  The sign of a zero is left out: nothing    *)
(* compares it.                                                            *)
(***************************************************************************)
EXTENDS Integers

CONSTANTS
    Precision,      \* DBL_MANT_DIG
    MaxExponent,    \* the exponent of the largest doubles, in units
    LongPrecision,  \* LDBL_MANT_DIG
    LongFraction    \* a unit is 2^LongFraction units of long double

ASSUME DoublesAssumption ==
    /\ Precision \in Nat \ {0}
    /\ MaxExponent \in Nat
    /\ LongPrecision \in Nat /\ LongPrecision >= Precision
    /\ LongFraction \in Nat

Finite(n) == [class |-> "finite", units |-> n]
Infinite(sign) == [class |-> "infinite", units |-> sign]
NaN == [class |-> "NaN", units |-> 0]

MaxFinite == (2 ^ Precision - 1) * 2 ^ MaxExponent

Magnitude(n) == IF n < 0 THEN -n ELSE n

\* The whole number nearest to num / den, the even one of two.
NearestWhole(num, den) ==
    LET q == num \div den
        r == num % den
    IN  IF 2 * r < den \/ (2 * r = den /\ q % 2 = 0) THEN q ELSE q + 1

\* The least exponent with which p bits reach num / den.
ExponentOf(num, den, p) ==
    CHOOSE e \in 0 .. Magnitude(num) :
        /\ Magnitude(num) < den * 2 ^ (p + e)
        /\ e > 0 => Magnitude(num) >= den * 2 ^ (p + e - 1)

\* num / den in p bits.
Nearest(num, den, p) ==
    LET ulp == 2 ^ ExponentOf(num, den, p)
    IN  NearestWhole(num, den * ulp) * ulp

\* num / den units as a double: what is too large becomes infinite.
Rounded(num, den) ==
    LET n == Nearest(num, den, Precision)
    IN  IF Magnitude(n) <= MaxFinite THEN Finite(n) ELSE Infinite(IF n < 0 THEN -1 ELSE 1)

\* x + y where sum is that of finite numbers, rounded.
Added(x, y, sum) ==
    IF x.class = "finite" /\ y.class = "finite"
    THEN sum
    ELSE IF x = NaN \/ y = NaN \/ (x.class = y.class /\ x # y)
    THEN NaN
    ELSE IF x.class = "infinite" THEN x ELSE y

-----------------------------------------------------------------------------
(* double                                                                  *)

Plus(x, y) == Added(x, y, Rounded(x.units + y.units, 1))
Half(x) == IF x.class = "finite" THEN Rounded(x.units, 2) ELSE x

\* long to double.
FromInteger(n) == Rounded(n, 1)

-----------------------------------------------------------------------------
(* long double, in units of its own                                        *)

LongZero == Finite(0)
ToLong(x) == IF x.class = "finite" THEN Finite(x.units * 2 ^ LongFraction) ELSE x

LongPlus(x, y) == Added(x, y, Finite(Nearest(x.units + y.units, 1, LongPrecision)))

LongQuotient(x, n) ==
    IF x.class = "finite" THEN Finite(Nearest(x.units, n, LongPrecision)) ELSE x

FromLong(x) == IF x.class = "finite" THEN Rounded(x.units, 2 ^ LongFraction) ELSE x
=============================================================================
