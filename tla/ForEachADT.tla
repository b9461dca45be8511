----------------------------- MODULE ForEachADT -----------------------------
(***************************************************************************)
(* What adt_ForEach and adt_ForEachMutable promise of a container whose    *)
(* elements are a sequence, even if the visitor calls the container back   *)
(* and changes it: each call of the visitor gets an index and the element  *)
(* that is there when it is called, the indices are 0, 1, 2 and so on, and *)
(* the traversal ends where the sequence ends when that is looked at.      *)
(***************************************************************************)
EXTENDS Integers, Sequences

CONSTANT NULL

VARIABLES
    live,       \* whether the container was initialised
    contents,   \* its elements
    pc,         \* "idle", "loop", or "callback" while the visitor runs
    index,      \* of the element the visitor is at or comes to next
    result      \* the last event, with what the visitor was shown

vars == <<live, contents, pc, index, result>>

Happened(op, i, ok, out) == result' = [op |-> op, index |-> i, arg |-> NULL, ok |-> ok, out |-> out]

Init ==
    /\ ~ live
    /\ contents = <<>>
    /\ pc = "idle" /\ index = 0
    /\ result.op = "none"

Start ==
    /\ pc = "idle" /\ live
    /\ pc' = "loop" /\ index' = 0
    /\ UNCHANGED <<live, contents, result>>

Refuse ==
    /\ pc = "idle"
    /\ Happened("ForEach", 0, FALSE, NULL)
    /\ UNCHANGED <<live, contents, pc, index>>

Show ==
    /\ pc = "loop" /\ index < Len(contents)
    /\ Happened("Visit", index, TRUE, contents[index + 1])
    /\ pc' = "callback"
    /\ UNCHANGED <<live, contents, index>>

Resume ==
    /\ pc = "callback"
    /\ pc' = "loop" /\ index' = index + 1
    /\ UNCHANGED <<live, contents, result>>

Finish ==
    /\ pc = "loop" /\ index >= Len(contents)
    /\ Happened("ForEach", 0, TRUE, NULL)
    /\ pc' = "idle" /\ index' = 0
    /\ UNCHANGED <<live, contents>>

\* A mutable visitor replaces the element it was shown, and no other.
Write ==
    /\ pc = "callback" /\ index < Len(contents)
    /\ result'.op = "Write"
    /\ contents' = [contents EXCEPT ![index + 1] = result'.arg]
    /\ UNCHANGED <<live, pc, index>>

\* The caller, or the visitor, calls an operation of the container.
Change ==
    /\ pc # "loop"
    /\ result'.op \notin {"ForEach", "Visit", "Write"}
    /\ UNCHANGED <<pc, index>>

Next == Start \/ Refuse \/ Show \/ Resume \/ Finish \/ Write \/ Change

Spec == Init /\ [][Next]_vars
=============================================================================
