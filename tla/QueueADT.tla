------------------------------ MODULE QueueADT ------------------------------
(***************************************************************************)
(* What Queue_t promises: elements leave in the order in which they came.  *)
(* The first element of contents is the front, the last one the back.      *)
(***************************************************************************)
EXTENDS SequenceADT

Waiting == contents # <<>>

\* A call that needs an element fails on an empty queue, and on no other.
FrontOf(out) ==
    \/ Read("Front", 1, out) /\ out = "usable"
    \/ Fails("Front", 0, out) /\ ~ (Waiting /\ out = "usable")

BackOf(out) ==
    \/ Read("Back", Len(contents), out) /\ out = "usable"
    \/ Fails("Back", Len(contents) - 1, out) /\ ~ (Waiting /\ out = "usable")

Dequeue(out) ==
    \/ Transfer("Dequeue", 1, out) /\ out = "usable"
    \/ Fails("Dequeue", 0, out) /\ ~ (Waiting /\ out = "usable")

Discard ==
    \/ Delete("Discard", 1)
    \/ Fails("Discard", 0, NULL) /\ ~ Waiting

Next ==
    \/ Common
    \/ \E e \in Storable : Store("Enqueue", Len(contents), e)
    \/ \E out \in {"usable", "unusable"} : FrontOf(out) \/ BackOf(out) \/ Dequeue(out)
    \/ Discard

Spec == Init /\ [][Next]_vars
=============================================================================
