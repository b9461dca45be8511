---------------------------- MODULE MCLinkedList ----------------------------
(* Small instances of LinkedList for TLC.                                  *)
EXTENDS LinkedList, TLC

CONSTANTS n1, n2, n3, n4, n5, b1, b2, b3, b4, b5, x, y, z

MCNodes == {n1, n2, n3, n4, n5}
MCBlocks == {b1, b2, b3, b4, b5}
MCThreeNodes == {n1, n2, n3}
MCThreeBlocks == {b1, b2, b3}
MCTwo == {x, y}
MCThree == {x, y, z}

\* x and y look the same to a comparator: it compares by a key.
MCKey == (x :> 1) @@ (y :> 1) @@ (z :> 2)

MCPlainTypes == [elementSize : {0, 1, 2}, destroy : {FALSE}, compare : BOOLEAN]
MCOwningTypes == [elementSize : {1}, destroy : {TRUE}, compare : BOOLEAN]

\* malloc may return any free address.
MCAny(free) == free

\* malloc returns the first free address.
MCFirst(free) == IF free = {} THEN {} ELSE {CHOOSE a \in free : TRUE}

\* No action and no invariant reads result; action properties still see it.
MCView == <<container, caller, released>>
=============================================================================
