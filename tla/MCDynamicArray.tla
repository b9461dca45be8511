--------------------------- MODULE MCDynamicArray ---------------------------
(* Small instances of DynamicArray for TLC.                                *)
EXTENDS DynamicArray, TLC

CONSTANTS b1, b2, b3, x, y, z

MCBlocks == {b1, b2, b3}
MCTwo == {x, y}
MCThree == {x, y, z}

\* x and y look the same to a comparator: it compares by a key.
MCKey == (x :> 1) @@ (y :> 1) @@ (z :> 2)

MCPlainTypes == {[elementSize |-> n, destroy |-> FALSE, compare |-> c] :
                    n \in {0, 1, 2, 4}, c \in {TRUE}}

MCOwningTypes == {[elementSize |-> n, destroy |-> TRUE, compare |-> c] :
                    n \in {1, 2}, c \in {TRUE, FALSE}}

\* malloc may return any free address.
MCAny(free) == free

\* No action reads result, and no invariant: states that differ only in it are
\* one state, while action properties still see the result of every step.
MCView == <<container, caller, released>>

MCSymmetry == Permutations(MCBlocks)
=============================================================================
