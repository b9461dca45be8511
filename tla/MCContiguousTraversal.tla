----------------------- MODULE MCContiguousTraversal ------------------------
(* A small instance of ContiguousTraversal for TLC: a char, and an int and *)
(* a struct of one width; a struct has no comparator.                      *)
EXTENDS ContiguousTraversal, TLC

CONSTANTS b1, b2, b3, c, i, s

MCBlocks == {b1, b2, b3}
MCElements == {c, i, s}
MCTypeOf == (c :> "char") @@ (i :> "int") @@ (s :> "struct")
MCSizeOf == ("char" :> 1) @@ ("int" :> 2) @@ ("struct" :> 2)
MCKey == (c :> 1) @@ (i :> 2) @@ (s :> 3)
MCTypes == {ADT_ELEMENT_TYPE_INFO(type) : type \in DOMAIN MCSizeOf}

\* malloc returns the first free address.
MCFirst(free) == IF free = {} THEN {} ELSE {CHOOSE a \in free : TRUE}

\* No action reads result; action properties still see it.
MCView == <<container, caller, released, visit, kind>>
=============================================================================
