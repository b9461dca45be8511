------------------------------ MODULE SortADT ------------------------------
(***************************************************************************)
(* What adt_Sort and adt_SortBy promise of a container: its elements end   *)
(* up in the order of the comparator, or nothing has changed.              *)
(***************************************************************************)
EXTENDS ElementType, Functions

CONSTANT MaxSize

VARIABLES type, size, contents, result

Positions == 0 .. size - 1

Algorithms == {"BUBBLE", "SELECTION", "INSERTION", "QUICK", "BOGO"}
StableAlgorithms == {"BUBBLE", "INSERTION"}

Init ==
    /\ type \in ElementTypes
    /\ size \in 0 .. MaxSize
    /\ contents \in [Positions -> Elements]
    /\ result = [algorithm |-> NULL, compare |-> FALSE, ok |-> TRUE]

Refused(algorithm, compare) ==
    type.elementSize = 0 \/ ~ compare \/ algorithm \notin Algorithms

IsSorted(f) == \A i, j \in Positions : i < j => Key[f[i]] <= Key[f[j]]

\* f has the elements of g in another order; p says where they come from.
Permutes(p, f, g) == \A i \in Positions : f[i] = g[p[i]]
KeepsTies(p, f) == \A i, j \in Positions : i < j /\ Key[f[i]] = Key[f[j]] => p[i] < p[j]

Sorts(algorithm, f, g) ==
    /\ IsSorted(f)
    /\ \E p \in Bijection(Positions, Positions) :
          Permutes(p, f, g) /\ (algorithm \in StableAlgorithms => KeepsTies(p, f))

\* Nothing to be sorted is always sorted; anything more takes memory, and Bogo
\* sort may give up.
Succeeds(algorithm, compare) ==
    /\ ~ Refused(algorithm, compare)
    /\ result' = [algorithm |-> algorithm, compare |-> compare, ok |-> TRUE]
    /\ Sorts(algorithm, contents', contents)
    /\ UNCHANGED <<type, size>>

Fails(algorithm, compare) ==
    /\ Refused(algorithm, compare) \/ size >= 2
    /\ result' = [algorithm |-> algorithm, compare |-> compare, ok |-> FALSE]
    /\ UNCHANGED <<type, size, contents>>

Next ==
    \E algorithm \in Algorithms \cup {"UNKNOWN"}, compare \in BOOLEAN :
        Succeeds(algorithm, compare) \/ Fails(algorithm, compare)

Spec == Init /\ [][Next]_<<type, size, contents, result>>
=============================================================================
