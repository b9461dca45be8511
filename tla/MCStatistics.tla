---------------------------- MODULE MCStatistics ----------------------------
(* Small instances of Statistics for TLC: of every type that Primitives    *)
(* knows, and of structs.                                                  *)
EXTENDS Statistics, TLC

Of(t, S) == {[type |-> t, value |-> v] : v \in S}
Whole(S) == {Finite(n) : n \in S}

\* Doubles have three bits, floats two; a long has four and a sign: 9, 11 and 13
\* are no doubles, 13 becomes the double 12, and -9 the double -8.
MCChars == Of("char", Whole({0, 3, 4, 7}))
MCAscii == Of("char", Whole({0, 1, 2, 3}))
MCInts == Of("int", Whole({-4, -1, 0, 3}))
MCUnsigned == Of("unsigned int", Whole({0, 3, 4, 7}))
MCLongs == Of("long", Whole({-9, 11, 12, 13}))
MCFloats == Of("float", Whole({-12, 3}) \cup {NaN, Infinite(-1)})
MCDoubles == Of("double", Whole({-5, 14}) \cup {NaN, Infinite(1)})
MCPointers == Of("void *", Whole({1, 2, 5, 6}))

\* A struct has a comparator and a projection of the caller, and its comparator
\* looks at a key: two structs have the same, and the order of the keys is not that
\* of the numbers.  Among these are the least double and the greatest, and no numbers.
Struct(n, x) == [type |-> "struct", key |-> n, value |-> x]
MCPair == {Struct(2, Finite(5)), Struct(3, Finite(1))}
MCStructs == MCPair \cup {Struct(2, Finite(MaxFinite)), Struct(1, Finite(-12)),
                         Struct(5, NaN), Struct(4, Infinite(1))}

MCElements == MCStructs \cup MCChars \cup MCAscii \cup MCInts \cup MCUnsigned
              \cup MCLongs \cup MCFloats \cup MCDoubles \cup MCPointers

MCAnswers(x, y) ==
    IF x.type = "struct" /\ y.type = "struct" THEN {Sign(x.key, y.key)} ELSE Configured(x, y)
MCProjection(x) == IF x.type = "struct" THEN x.value ELSE ProjectionOf(x)

MCType(n, compare, toNumber, S) ==
    [elementSize |-> n, compare |-> compare, toNumber |-> toNumber, values |-> S]
MCStructTypes == {MCType(0, TRUE, TRUE, {}), MCType(1, FALSE, TRUE, MCPair),
                  MCType(1, TRUE, FALSE, MCPair), MCType(2, TRUE, TRUE, MCStructs)}
MCPrimitiveTypes ==
    {MCType(1, TRUE, TRUE, MCChars), MCType(1, TRUE, TRUE, MCAscii),
     MCType(2, TRUE, TRUE, MCInts), MCType(2, TRUE, TRUE, MCUnsigned),
     MCType(4, TRUE, TRUE, MCLongs), MCType(2, TRUE, TRUE, MCFloats),
     MCType(4, TRUE, TRUE, MCDoubles), MCType(4, TRUE, FALSE, MCPointers)}
MCTypes == MCStructTypes \cup MCPrimitiveTypes

\* The order of the values of one type; a char of three bits is in -4 .. 3.
MCRank(x) ==
    CASE x.type = "struct" -> x.key
      [] x.type = "char" -> (x.value.units + 4) % 8
      [] x.value.class = "NaN" -> 1000
      [] x.value.class = "infinite" -> 100 * x.value.units
      [] OTHER -> x.value.units
MCKey == [x \in MCElements |-> MCRank(x)]

\* No action and no invariant reads result; action properties still see it.
MCView == <<container, pc, loop, values, call>>
=============================================================================
