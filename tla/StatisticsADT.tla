--------------------------- MODULE StatisticsADT ----------------------------
(***************************************************************************)
(* What adt_Min, adt_Max, adt_Mean, adt_Median, adt_Mode and their By      *)
(* variants promise (docs/statistics.md): what they write, and when they   *)
(* fail, in which case they change nothing.                                *)
(***************************************************************************)
EXTENDS Doubles, FiniteSets

CONSTANTS Elements, ElementTypes, Key, Projection(_), NULL, MaxSize

VARIABLES type, size, contents, result

Positions == 0 .. size - 1
NoOutput == NULL

Returned(c, ok, wrote) == [call |-> c, ok |-> ok, wrote |-> wrote]

Init ==
    /\ type \in ElementTypes
    /\ size \in 0 .. MaxSize
    /\ contents \in [Positions -> type.values]
    /\ result = Returned([op |-> NULL, callback |-> FALSE, out |-> NULL], TRUE, NoOutput)

Calls ==
    [op : {"Min", "Max"}, callback : BOOLEAN, out : {NULL, -1} \cup Positions] \cup
    [op : {"Mean", "Median", "Mode"}, callback : BOOLEAN, out : {NULL, -1}]

Refused(c) == size = 0 \/ ~ c.callback \/ c.out = NULL

-----------------------------------------------------------------------------
(* The numbers of the container, and their order: NaN comes last.          *)

Number(i) == Projection(contents[i])

Rank(x) ==
    CASE x.class = "finite"   -> x.units
      [] x.class = "infinite" -> x.units * (MaxFinite + 1)
      [] x.class = "NaN"      -> MaxFinite + 2

\* x is number k of the numbers, counted from 0, when they are put in order.
IsNumber(k, x) ==
    /\ \E i \in Positions : Number(i) = x
    /\ Cardinality({i \in Positions : Rank(Number(i)) < Rank(x)}) <= k
    /\ Cardinality({i \in Positions : Rank(Number(i)) <= Rank(x)}) > k

Frequency(x) == Cardinality({i \in Positions : Number(i) = x})

Total[n \in Nat] == IF n = 0 THEN 0 ELSE Total[n - 1] + Number(n - 1).units

\* The distance between a finite double and the next.
UlpOf(x) == 2 ^ ExponentOf(x.units, 1, Precision)

\* What arithmetic makes of numbers that are not all finite.
NotFinite(S) ==
    LET infinities == {x \in S : x.class = "infinite"}
    IN  IF NaN \in S \/ Cardinality(infinities) = 2 THEN NaN ELSE CHOOSE x \in infinities : TRUE

-----------------------------------------------------------------------------
(* What a successful call writes.                                          *)

\* The first of the elements that no other comes before.
IsMinimum(i) ==
    \A j \in Positions :
        Key[contents[i]] < Key[contents[j]] \/ (Key[contents[i]] = Key[contents[j]] /\ i <= j)

\* The first of the elements that come before no other.
IsMaximum(i) ==
    \A j \in Positions :
        Key[contents[i]] > Key[contents[j]] \/ (Key[contents[i]] = Key[contents[j]] /\ i <= j)

\* The mean of finite numbers is finite, and off by at most the distance of one of
\* them to the next double.
IsMean(x) ==
    LET numbers == {Number(i) : i \in Positions}
    IN  IF \E y \in numbers : y.class # "finite"
        THEN x = NotFinite(numbers)
        ELSE /\ x.class = "finite"
             /\ \E y \in numbers : Magnitude(x.units * size - Total[size]) <= UlpOf(y) * size

\* Of two finite middle values each is halved first, so that the result is
\* finite; it is off by at most a unit besides the rounding of the addition.
IsMedian(x) ==
    \E lower, upper \in {Number(i) : i \in Positions} :
        /\ IsNumber((size - 1) \div 2, lower)
        /\ IsNumber(size \div 2, upper)
        /\ IF size % 2 = 1
           THEN x = lower
           ELSE IF lower.class # "finite" \/ upper.class # "finite"
           THEN x = NotFinite({lower, upper})
           ELSE /\ x.class = "finite"
                /\ Magnitude(2 * x.units - lower.units - upper.units) <= 2 + UlpOf(x)

\* A most frequent number, the least of them; it occurs twice.
IsMode(x) ==
    /\ Frequency(x) >= 2
    /\ \A i \in Positions :
          \/ Frequency(Number(i)) < Frequency(x)
          \/ Frequency(Number(i)) = Frequency(x) /\ Rank(x) <= Rank(Number(i))

-----------------------------------------------------------------------------
Succeeds(c) ==
    /\ ~ Refused(c)
    /\ LET x == result'.wrote
       IN  /\ result' = Returned(c, TRUE, x)
           /\ \/ \E i \in Positions :
                    /\ IF c.op = "Min" THEN IsMinimum(i) ELSE c.op = "Max" /\ IsMaximum(i)
                    /\ x = contents[i]
                    /\ contents' = IF c.out \in Positions
                                   THEN [contents EXCEPT ![c.out] = x]
                                   ELSE contents
              \/ /\ \/ c.op = "Mean" /\ IsMean(x)
                    \/ c.op = "Median" /\ IsMedian(x)
                    \/ c.op = "Mode" /\ IsMode(x)
                 /\ UNCHANGED contents
    /\ UNCHANGED <<type, size>>

\* Median and mode need memory; there is no mode when no number occurs twice.
Fails(c) ==
    /\ Refused(c) \/ c.op \in {"Median", "Mode"}
    /\ result' = Returned(c, FALSE, NoOutput)
    /\ UNCHANGED <<type, size, contents>>

Next == \E c \in Calls : Succeeds(c) \/ Fails(c)

Spec == Init /\ [][Next]_<<type, size, contents, result>>
=============================================================================
