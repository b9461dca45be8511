------------------------------ MODULE MCStack -------------------------------
(* A small instance of Stack for TLC: elements that own something and      *)
(* elements that do not.                                                   *)
EXTENDS Stack, TLC

CONSTANTS b1, b2, b3, x, y, z

MCBlocks == {b1, b2, b3}
MCElements == {x, y, z}
MCKey == [e \in MCElements |-> e]

MCTypes == [elementSize : {1, 2}, destroy : BOOLEAN, compare : {FALSE}]

\* malloc may return any free address.
MCAny(free) == free

\* No action and no invariant reads result; action properties still see it.
MCView == <<container, caller, released>>

MCSymmetry == Permutations(MCBlocks) \cup Permutations(MCElements)
=============================================================================
