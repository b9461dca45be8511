----------------------------- MODULE Statistics -----------------------------
(***************************************************************************)
(* src/shared/statistics.c: the least and the greatest element of a        *)
(* container by a comparator, and the mean, the median and the mode of the *)
(* numbers its elements are projected to.                                  *)
(*                                                                         *)
(* The comparator and the projection are callbacks of the caller, so each  *)
(* call of one is a step; the scan of the mode has a step per iteration.   *)
(* The container is what its read-only visitor shows: contents.            *)
(***************************************************************************)
EXTENDS Primitives, FiniteSets

CONSTANTS
    Elements,               \* the element values, and
    ElementTypes,           \* their run-time types, see Types
    Key,                    \* what the comparator should order by
    Answers(_, _),          \* the signs of what the comparator may return
    Projection(_),          \* the double toNumber returns
    NULL,
    Junk,                   \* the contents of memory malloc has returned
    SizeMax,                \* SIZE_MAX
    DoubleSize,             \* sizeof(double)
    MaxSize                 \* the largest container

\* values are the elements of one type: those a container can hold together.
Types == [elementSize : Nat, compare : BOOLEAN, toNumber : BOOLEAN,
          values : SUBSET Elements]

\* The values of a double.
Numbers == {Finite(n) : n \in -MaxFinite .. MaxFinite} \cup {Infinite(-1), Infinite(1), NaN}

ASSUME StatisticsAssumption ==
    /\ NULL \notin Int /\ Junk \notin Numbers
    /\ SizeMax \in Nat /\ MaxSize \in 0 .. SizeMax
    /\ DoubleSize \in Nat \ {0}
    /\ ElementTypes \subseteq Types
    /\ \A x, y \in Elements : Answers(x, y) \in (SUBSET {-1, 0, 1}) \ {{}}
    /\ \A x \in Elements : Projection(x) \in Numbers

VARIABLES
    type,       \* the element type of the container
    size,       \* its size, and
    contents,   \* its elements in the order the visitor shows them
    pc,         \* which loop is running, or "idle" between two calls
    loop,       \* the variables of that loop, or the context of its callback
    values,     \* the temporary buffer, NULL when it is not allocated
    call,       \* the arguments of the call
    result      \* the last call, the bool it returned and what it wrote

container == <<type, size, contents>>
vars == <<container, pc, loop, values, call, result>>

Positions == 0 .. size - 1

\* Where a call writes: nowhere, a variable of the caller, or an element.
OwnVariable == -1
NoOutput == NULL

NoCall == [op |-> NULL, callback |-> FALSE, out |-> NULL]
Request(op, callback, out) == [op |-> op, callback |-> callback, out |-> out]
Returned(c, ok, wrote) == [call |-> c, ok |-> ok, wrote |-> wrote]

Init ==
    /\ type \in ElementTypes
    /\ size \in 0 .. MaxSize
    /\ type.elementSize = 0 => size = 0
    /\ contents \in [Positions -> type.values]
    /\ pc = "idle" /\ loop = <<>>
    /\ values = NULL
    /\ call = NoCall
    /\ result = Returned(NoCall, TRUE, NoOutput)

Refuse(c) ==
    /\ result' = Returned(c, FALSE, NoOutput)
    /\ UNCHANGED <<container, pc, loop, values, call>>

Enter(c, where, context) ==
    /\ pc' = where /\ loop' = context
    /\ call' = c
    /\ UNCHANGED <<container, result>>

\* Return, with the temporary buffer freed.
Leave(ok, wrote) ==
    /\ result' = Returned(call, ok, wrote)
    /\ pc' = "idle" /\ loop' = <<>>
    /\ values' = NULL
    /\ call' = NoCall
    /\ UNCHANGED <<type, size>>

\* A step inside a call leaves the container and the call alone.
Running == UNCHANGED <<container, call, result>>

-----------------------------------------------------------------------------
(* Extrema: CopyExtremum, which traverses with FindExtremum.               *)

CopyExtremum(c) ==
    IF size = 0 \/ type.elementSize = 0 \/ ~ c.callback \/ c.out = NULL
    THEN Refuse(c)
    ELSE Enter(c, "extremum", [index |-> 0, selected |-> NULL]) /\ UNCHANGED values

adt_MinBy(compare, outElement) == CopyExtremum(Request("Min", compare, outElement))
adt_MaxBy(compare, outElement) == CopyExtremum(Request("Max", compare, outElement))
adt_Min(outElement) == adt_MinBy(type.compare, outElement)
adt_Max(outElement) == adt_MaxBy(type.compare, outElement)

\* A slip: a later element that is equal replaces the selected one.
Improves_Ties(comparison) ==
    (call.op = "Min" /\ comparison <= 0) \/ (call.op = "Max" /\ comparison >= 0)

Improves(comparison) ==
    (call.op = "Min" /\ comparison < 0) \/ (call.op = "Max" /\ comparison > 0)

FindExtremum ==
    /\ pc = "extremum" /\ loop.index < size
    /\ \/ /\ loop.selected = NULL
          /\ loop' = [index |-> loop.index + 1, selected |-> loop.index]
       \/ /\ loop.selected # NULL
          /\ \E comparison \in Answers(contents[loop.index], contents[loop.selected]) :
                loop' = [index |-> loop.index + 1,
                         selected |-> IF Improves(comparison) THEN loop.index ELSE loop.selected]
    /\ UNCHANGED <<pc, values>>
    /\ Running

\* The output may be an element of the container, which memmove then replaces.
CopySelected ==
    /\ pc = "extremum" /\ loop.index >= size
    /\ contents' = IF call.out \in Positions
                   THEN [contents EXCEPT ![call.out] = contents[loop.selected]]
                   ELSE contents
    /\ Leave(TRUE, contents[loop.selected])

-----------------------------------------------------------------------------
(* Mean                                                                    *)

adt_MeanBy(toNumber, outMean) ==
    LET c == Request("Mean", toNumber, outMean)
    IN  IF size = 0 \/ ~ toNumber \/ outMean = NULL
        THEN Refuse(c)
        ELSE Enter(c, "mean", [index |-> 0, sum |-> LongZero]) /\ UNCHANGED values

adt_Mean(outMean) == adt_MeanBy(type.toNumber, outMean)

\* A slip: the sum is kept in a double.
AddToMean_Double ==
    /\ pc = "mean" /\ loop.index < size
    /\ loop' = [index |-> loop.index + 1,
                sum |-> ToLong(Plus(FromLong(loop.sum), Projection(contents[loop.index])))]
    /\ UNCHANGED <<pc, values>>
    /\ Running

AddToMean ==
    /\ pc = "mean" /\ loop.index < size
    /\ loop' = [index |-> loop.index + 1,
                sum |-> LongPlus(loop.sum, ToLong(Projection(contents[loop.index])))]
    /\ UNCHANGED <<pc, values>>
    /\ Running

DivideSum ==
    /\ pc = "mean" /\ loop.index >= size
    /\ Leave(TRUE, FromLong(LongQuotient(loop.sum, size)))
    /\ UNCHANGED contents

-----------------------------------------------------------------------------
(* CollectNumericValues, and qsort with CompareDouble                      *)

CollectNumericValues(c) ==
    IF size = 0 \/ size > SizeMax \div DoubleSize \/ ~ c.callback
    THEN Refuse(c)
    ELSE \/ /\ values' = [i \in Positions |-> Junk]
            /\ Enter(c, "collect", [index |-> 0])
         \/ Refuse(c)

\* A slip: the index is incremented before it is used.
CollectNumericValue_OneOff ==
    /\ pc = "collect" /\ loop.index < size
    /\ values' = [values EXCEPT ![loop.index + 1] = Projection(contents[loop.index])]
    /\ loop' = [index |-> loop.index + 1]
    /\ UNCHANGED pc
    /\ Running

CollectNumericValue ==
    /\ pc = "collect" /\ loop.index < size
    /\ values' = [values EXCEPT ![loop.index] = Projection(contents[loop.index])]
    /\ loop' = [index |-> loop.index + 1]
    /\ UNCHANGED pc
    /\ Running

\* The values in the order of CompareDouble: the number at an index is one that
\* has at most index others before it, and more than index not behind it.
Sorted(f) ==
    [i \in DOMAIN f |->
        f[CHOOSE j \in DOMAIN f :
            /\ Cardinality({k \in DOMAIN f : CompareDouble(f[k], f[j]) < 0}) <= i
            /\ Cardinality({k \in DOMAIN f : CompareDouble(f[k], f[j]) <= 0}) > i]]

SortValues ==
    /\ pc = "collect" /\ loop.index >= size
    /\ values' = Sorted(values)
    /\ \/ call.op = "Median" /\ pc' = "median" /\ loop' = <<>>
       \/ /\ call.op = "Mode" /\ pc' = "mode"
          /\ loop' = [i |-> 1, currentCount |-> 1, bestCount |-> 1, bestValue |-> values'[0]]
    /\ Running

-----------------------------------------------------------------------------
(* Median                                                                  *)

adt_MedianBy(toNumber, outMedian) ==
    LET c == Request("Median", toNumber, outMedian)
    IN  IF outMedian = NULL THEN Refuse(c) ELSE CollectNumericValues(c)

adt_Median(outMedian) == adt_MedianBy(type.toNumber, outMedian)

\* A slip: the sum of the two middle values is halved.
MiddleOf_AddsFirst(f) ==
    IF size % 2 = 1
    THEN f[size \div 2]
    ELSE Half(Plus(f[size \div 2 - 1], f[size \div 2]))

MiddleOf(f) ==
    IF size % 2 = 1
    THEN f[size \div 2]
    ELSE Plus(Half(f[size \div 2 - 1]), Half(f[size \div 2]))

TakeMiddle ==
    /\ pc = "median"
    /\ Leave(TRUE, MiddleOf(values))
    /\ UNCHANGED contents

-----------------------------------------------------------------------------
(* Mode                                                                    *)

adt_ModeBy(toNumber, outMode) ==
    LET c == Request("Mode", toNumber, outMode)
    IN  IF outMode = NULL THEN Refuse(c) ELSE CollectNumericValues(c)

adt_Mode(outMode) == adt_ModeBy(type.toNumber, outMode)

Repeats(i) == CompareDouble(values[i - 1], values[i]) = 0

\* A slip: a run is not counted anew.
CountRun_NoReset ==
    /\ pc = "mode" /\ loop.i < size
    /\ LET currentCount == IF Repeats(loop.i) THEN loop.currentCount + 1 ELSE loop.currentCount
           better == currentCount > loop.bestCount
       IN  loop' = [i |-> loop.i + 1,
                    currentCount |-> currentCount,
                    bestCount |-> IF better THEN currentCount ELSE loop.bestCount,
                    bestValue |-> IF better THEN values[loop.i] ELSE loop.bestValue]
    /\ UNCHANGED <<pc, values>>
    /\ Running

CountRun ==
    /\ pc = "mode" /\ loop.i < size
    /\ LET currentCount == IF Repeats(loop.i) THEN loop.currentCount + 1 ELSE 1
           better == currentCount > loop.bestCount
       IN  loop' = [i |-> loop.i + 1,
                    currentCount |-> currentCount,
                    bestCount |-> IF better THEN currentCount ELSE loop.bestCount,
                    bestValue |-> IF better THEN values[loop.i] ELSE loop.bestValue]
    /\ UNCHANGED <<pc, values>>
    /\ Running

TakeBest ==
    /\ pc = "mode" /\ loop.i >= size
    /\ IF loop.bestCount = 1
       THEN Leave(FALSE, NoOutput)
       ELSE Leave(TRUE, loop.bestValue)
    /\ UNCHANGED contents

-----------------------------------------------------------------------------
Outputs == {NULL, OwnVariable}

Call ==
    /\ pc = "idle"
    /\ \/ \E out \in Outputs \cup Positions :
             \/ adt_Min(out) \/ adt_Max(out)
             \/ \E compare \in BOOLEAN : adt_MinBy(compare, out) \/ adt_MaxBy(compare, out)
       \/ \E out \in Outputs :
             \/ adt_Mean(out) \/ adt_Median(out) \/ adt_Mode(out)
             \/ \E toNumber \in BOOLEAN :
                   adt_MeanBy(toNumber, out) \/ adt_MedianBy(toNumber, out)
                   \/ adt_ModeBy(toNumber, out)

Step ==
    \/ FindExtremum \/ CopySelected
    \/ AddToMean \/ DivideSum
    \/ CollectNumericValue \/ SortValues
    \/ TakeMiddle
    \/ CountRun \/ TakeBest

Next == Call \/ Step

Spec == Init /\ [][Next]_vars

-----------------------------------------------------------------------------
(* Properties                                                              *)

\* Every index a loop uses is in the container and in the buffer, the buffer is
\* written before it is read and is freed when the call returns.
TypeOK ==
    /\ type \in ElementTypes
    /\ size \in 0 .. MaxSize
    /\ contents \in [Positions -> type.values]
    /\ IF pc \in {"collect", "median", "mode"}
       THEN values \in [Positions -> Numbers \cup {Junk}] /\ size >= 1
       ELSE values = NULL
    /\ CASE pc \in {"idle", "median"} -> loop = <<>>
         [] pc = "extremum" ->
               /\ loop \in [index : 0 .. size, selected : Positions \cup {NULL}]
               /\ loop.selected = NULL <=> loop.index = 0
         [] pc = "mean" ->
               /\ loop.index \in 0 .. size
               /\ loop.sum.class = "finite" => loop.sum.units \in Int
         [] pc = "collect" ->
               /\ loop \in [index : 0 .. size]
               /\ \A i \in Positions : values[i] = Junk <=> i >= loop.index
         [] pc = "mode" ->
               loop \in [i : 1 .. size, currentCount : 1 .. loop.i,
                         bestCount : 1 .. loop.i, bestValue : Numbers]

\* The values before position i of the scan that are equal to the number x.
Counted(x) == Cardinality({j \in 0 .. loop.i - 1 : values[j] = x})

\* statistics.c:274-290: at every iteration of the scan the best value is the
\* least of the values seen most often so far, and the current count is that of
\* the last value seen.  Equal values are adjacent because qsort and the scan ask
\* the same CompareDouble, NaN included.
ScanCounts ==
    pc = "mode" =>
        /\ loop.currentCount = Counted(values[loop.i - 1])
        /\ loop.bestCount = Counted(loop.bestValue)
        /\ \A j \in 0 .. loop.i - 1 :
              \/ Counted(values[j]) < loop.bestCount
              \/ /\ Counted(values[j]) = loop.bestCount
                 /\ CompareDouble(loop.bestValue, values[j]) <= 0

\* The mean of finite numbers lies between the least and the greatest of them: the
\* rounding of the sum does not show as long as a long double has enough bits
\* more than a double for the number of elements (statistics.c:81-87,184-191).
MeanBetweenExtremes ==
    [][pc = "mean" /\ pc' = "idle" /\ (\A i \in Positions : Projection(contents[i]).class = "finite")
       => \E i, j \in Positions :
             /\ CompareDouble(Projection(contents[i]), result'.wrote) <= 0
             /\ CompareDouble(result'.wrote, Projection(contents[j])) <= 0]_vars

\* docs/statistics.md:66, "An even-sized collection averages its two middle projected
\* values": the average of two equal numbers is that number.
MedianOfEqualMiddles ==
    [][pc = "median" /\ pc' = "idle" /\ size % 2 = 0
       /\ values[size \div 2 - 1] = values[size \div 2]
       => result'.wrote = values[size \div 2]]_vars

\* Between call and return nothing changes; then the call has written what
\* StatisticsADT says, or failed and changed nothing (docs/statistics.md).
ADT == INSTANCE StatisticsADT
ImplementsStatistics == ADT!Spec

-----------------------------------------------------------------------------
(* Statistics of the containers that the initialisation macros make: the   *)
(* comparator and the numeric projection are the built-in ones of the type *)
(* of the element (see Primitives).                                        *)

BuiltIn == {"char", "int", "unsigned int", "long", "float", "double"}

\* A char that is negative is a large byte to ToNumberChar and a small char to
\* CompareChar: the two do not agree on it.
Agreeing ==
    /\ type.toNumber
    /\ \A x \in type.values :
          x.type \in BuiltIn /\ (x.type = "char" => CharValue(x.value.units) >= 0)

\* docs/custom_types.md:122-124: the comparator decides extrema,
\* the projection the other statistics.  For a primitive type they are two
\* functions of the library which have to agree: no number of the container lies
\* before that of its minimum or after that of its maximum, although a long loses
\* digits as it becomes a double and a NaN has to come last in both orders.
ExtremaAgreeWithNumbers ==
    [][pc = "extremum" /\ pc' = "idle" /\ Agreeing =>
          \A i \in Positions :
             LET order == CompareDouble(TO_NUMBER(result'.wrote), TO_NUMBER(contents[i]))
             IN  IF call.op = "Min" THEN order <= 0 ELSE order >= 0]_vars
=============================================================================
