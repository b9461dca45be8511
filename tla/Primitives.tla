----------------------------- MODULE Primitives -----------------------------
(***************************************************************************)
(* src/shared/element: the comparators and the numeric projections that    *)
(* the initialisation macros configure for the primitive types.            *)
(*                                                                         *)
(* A char is its byte.  CompareChar reads it as the char of the compiler,  *)
(* which is signed or not; ToNumberChar reads it as unsigned char.         *)
(***************************************************************************)
EXTENDS Doubles

CONSTANTS
    CharBits,       \* CHAR_BIT
    CharIsSigned    \* whether char is a signed type (CHAR_MIN < 0)

ASSUME PrimitivesAssumption ==
    /\ CharBits \in Nat \ {0} /\ CharBits <= Precision
    /\ CharIsSigned \in BOOLEAN

\* (a > b) - (a < b)
Sign(a, b) == IF a > b THEN 1 ELSE IF a < b THEN -1 ELSE 0

CharValue(byte) ==
    IF CharIsSigned /\ byte >= 2 ^ (CharBits - 1) THEN byte - 2 ^ CharBits ELSE byte

CompareChar(first, second) == Sign(CharValue(first), CharValue(second))
CompareInt(first, second) == Sign(first, second)
CompareUnsignedInt(first, second) == Sign(first, second)
CompareLong(first, second) == Sign(first, second)
ComparePointer(first, second) == Sign(first, second)

\* C's a > b, FALSE when one of them is NaN.
Above(a, b) ==
    CASE a.class = "NaN" \/ b.class = "NaN"          -> FALSE
      [] a.class = "finite" /\ b.class = "finite"    -> a.units > b.units
      [] a.class = "infinite" /\ b.class = "finite"  -> a.units > 0
      [] a.class = "finite" /\ b.class = "infinite"  -> b.units < 0
      [] a.class = "infinite" /\ b.class = "infinite" -> a.units > b.units

\* NaN comes after every number.
CompareDouble(a, b) ==
    IF a.class = "NaN"
    THEN IF b.class = "NaN" THEN 0 ELSE 1
    ELSE IF b.class = "NaN"
    THEN -1
    ELSE IF Above(a, b) THEN 1 ELSE IF Above(b, a) THEN -1 ELSE 0

CompareFloat(first, second) == CompareDouble(first, second)

-----------------------------------------------------------------------------
\* A char, an int, an unsigned int and a float fit a double; a long may not.
ToNumberChar(byte) == FromInteger(byte)
ToNumberInt(n) == FromInteger(n)
ToNumberUnsignedInt(n) == FromInteger(n)

\* A slip: the long is converted to int first, whose bits it may not fit.
ToNumberLong_AsInt(n) ==
    FromInteger(CharValue(n % 2 ^ CharBits))

ToNumberLong(n) == FromInteger(n)
ToNumberFloat(x) == x
ToNumberDouble(x) == x

-----------------------------------------------------------------------------
(* What COMPARATOR and TO_NUMBER select for the type of an element: an     *)
(* element is [type, value], its value a finite number of units when its   *)
(* type is an integer type, a byte or a pointer.                           *)

COMPARATOR(x, y) ==
    CASE x.type = "char"         -> CompareChar(x.value.units, y.value.units)
      [] x.type = "int"          -> CompareInt(x.value.units, y.value.units)
      [] x.type = "unsigned int" -> CompareUnsignedInt(x.value.units, y.value.units)
      [] x.type = "long"         -> CompareLong(x.value.units, y.value.units)
      [] x.type = "float"        -> CompareFloat(x.value, y.value)
      [] x.type = "double"       -> CompareDouble(x.value, y.value)

TO_NUMBER(x) ==
    CASE x.type = "char"         -> ToNumberChar(x.value.units)
      [] x.type = "int"          -> ToNumberInt(x.value.units)
      [] x.type = "unsigned int" -> ToNumberUnsignedInt(x.value.units)
      [] x.type = "long"         -> ToNumberLong(x.value.units)
      [] x.type = "float"        -> ToNumberFloat(x.value)
      [] x.type = "double"       -> ToNumberDouble(x.value)

Pointer(x) == x.type = "void *"

\* What a container is initialised with; only elements of one type are compared.
Configured(x, y) ==
    IF x.type # y.type THEN {0}
    ELSE IF Pointer(x) THEN {ComparePointer(x.value.units, y.value.units)}
    ELSE {COMPARATOR(x, y)}

\* A caller that wants statistics of pointers has a projection of its own.
ProjectionOf(x) == IF Pointer(x) THEN x.value ELSE TO_NUMBER(x)
=============================================================================
