------------------------- MODULE MCLinkedTraversal --------------------------
(* A small instance of LinkedTraversal for TLC: a char and two ints.       *)
EXTENDS LinkedTraversal, TLC

CONSTANTS n1, n2, n3, b1, b2, b3, c, i, j

MCNodes == {n1, n2, n3}
MCBlocks == {b1, b2, b3}
MCElements == {c, i, j}
MCTypeOf == (c :> "char") @@ (i :> "int") @@ (j :> "int")
MCSizeOf == ("char" :> 1) @@ ("int" :> 2)
MCKey == (c :> 1) @@ (i :> 2) @@ (j :> 3)
MCTypes == {ADT_ELEMENT_TYPE_INFO(type) : type \in DOMAIN MCSizeOf}

\* malloc returns the first free address.
MCFirst(free) == IF free = {} THEN {} ELSE {CHOOSE a \in free : TRUE}

\* No action reads result; action properties still see it.
MCView == <<container, caller, released, visit, kind>>
=============================================================================
