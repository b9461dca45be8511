------------------------------ MODULE MCQueue -------------------------------
(* A small instance of Queue for TLC: elements that own something and      *)
(* elements that do not.                                                   *)
EXTENDS Queue, TLC

CONSTANTS n1, n2, n3, n4, b1, b2, b3, b4, x, y, z

MCNodes == {n1, n2, n3, n4}
MCBlocks == {b1, b2, b3, b4}
MCElements == {x, y, z}
MCKey == [e \in MCElements |-> e]

MCTypes == [elementSize : {1}, destroy : BOOLEAN, compare : {FALSE}]

\* malloc returns the first free address.
MCFirst(free) == IF free = {} THEN {} ELSE {CHOOSE a \in free : TRUE}

\* No action and no invariant reads result; action properties still see it.
MCView == <<container, caller, released>>

MCSymmetry == Permutations(MCElements)
=============================================================================
