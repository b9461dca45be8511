----------------------------- MODULE MCSorting -----------------------------
(* Small instances of Sorting for TLC.                                     *)
EXTENDS Sorting, TLC

CONSTANTS a, b, x, y

MCThree == {a, x, y}
MCFour == {a, b, x, y}

\* x and y are equal to a comparator.
MCKey == (a :> 1) @@ (x :> 2) @@ (y :> 2) @@ (b :> 3)

MCType(n, c) == [elementSize |-> n, destroy |-> FALSE, compare |-> c]
MCTypes == {MCType(0, TRUE), MCType(1, FALSE), MCType(2, TRUE)}
MCOneType == {MCType(1, TRUE)}

\* A comparator that orders by the key.
MCByKey(e, f) == {IF Key[e] < Key[f] THEN -1 ELSE IF Key[e] = Key[f] THEN 0 ELSE 1}

\* One that answers as it likes.
MCAnything(e, f) == {-1, 0, 1}

\* No action and no invariant reads result; action properties still see it.
MCView == <<container, memory, pc, loop, call>>
=============================================================================
