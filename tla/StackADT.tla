------------------------------ MODULE StackADT ------------------------------
(***************************************************************************)
(* What Stack_t promises: the element that leaves is the one that entered  *)
(* last.  The last element of contents is the top.                         *)
(***************************************************************************)
EXTENDS SequenceADT

Top == Len(contents)

\* A call that needs an element fails on an empty stack, and on no other.
Peek(out) ==
    \/ Read("Peek", Top, out) /\ out = "usable"
    \/ Fails("Peek", Top - 1, out) /\ ~ (Top > 0 /\ out = "usable")

Pop(out) ==
    \/ Transfer("Pop", Top, out) /\ out = "usable"
    \/ Fails("Pop", Top - 1, out) /\ ~ (Top > 0 /\ out = "usable")

Discard ==
    \/ Delete("Discard", Top)
    \/ Fails("Discard", Top - 1, NULL) /\ Top = 0

Next ==
    \/ Common
    \/ \E e \in Storable : Store("Push", Top, e)
    \/ \E out \in {"usable", "unusable"} : Peek(out) \/ Pop(out)
    \/ Discard

Spec == Init /\ [][Next]_vars
=============================================================================
