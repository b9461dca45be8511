------------------------ MODULE ContiguousTraversal -------------------------
(***************************************************************************)
(* The traversal of a contiguous container: adt_ForEach and the mutable    *)
(* variant, and the visitors of dynamic_array.c and stack.c, which agree.  *)
(*                                                                         *)
(* The visitor is a function of the caller: while it runs, it may call any *)
(* operation of the container it visits, so the loop's test and each call  *)
(* of the visitor are steps of their own.  The calls are the type-based    *)
(* ones of the public headers.                                             *)
(***************************************************************************)
EXTENDS ContiguousContainer, PrimitiveDispatch

VARIABLE kind   \* the C type of the container, DynamicArray_t or Stack_t

Array == INSTANCE ArrayPrimitives
Stack == INSTANCE StackPrimitives

\* The running traversal: [pc, i, element, current], element being the
\* address the visitor was given last, current whether nothing was called since.
VARIABLE visit

NotVisiting == [pc |-> "idle", i |-> 0, element |-> NULL, current |-> FALSE]

TraversalInit ==
    /\ Init
    /\ kind \in {"DynamicArray_t", "Stack_t"}
    /\ visit = NotVisiting

\* adt_ForEachMutable, and adt_ForEach, whose visitors are those that write nothing.
\* The visitor function may be NULL.
adt_ForEach(visitor) ==
    /\ visit.pc = "idle"
    /\ IF ~ Live \/ ~ visitor
       THEN Fail("ForEach", 0, NULL) /\ UNCHANGED visit
       ELSE /\ visit' = [NotVisiting EXCEPT !.pc = "loop"]
            /\ UNCHANGED vars

\* A slip: the address of an element is computed from that of the one before.
CallVisitor_StepsPointer ==
    /\ visit.pc = "loop" /\ visit.i < size
    /\ LET element == IF visit.i = 0 THEN ElementAt(0) ELSE [visit.element EXCEPT !.slot = @ + 1]
       IN  /\ visit' = [visit EXCEPT !.pc = "callback", !.element = element, !.current = TRUE]
           /\ Succeed("Visit", visit.i, NULL, Deref(heap, element))
    /\ UNCHANGED <<container, caller, released>>

CallVisitor ==
    /\ visit.pc = "loop" /\ visit.i < size
    /\ visit' = [visit EXCEPT !.pc = "callback", !.element = ElementAt(visit.i),
                              !.current = TRUE]
    /\ Succeed("Visit", visit.i, NULL, CellAt(visit.i))
    /\ UNCHANGED <<container, caller, released>>

\* A slip: an index is looked at again after the visitor has called back.
VisitorReturns_LooksAgain ==
    /\ visit.pc = "callback"
    /\ visit' = [visit EXCEPT !.pc = "loop", !.i = IF visit.current THEN @ + 1 ELSE @]
    /\ UNCHANGED vars

VisitorReturns ==
    /\ visit.pc = "callback"
    /\ visit' = [visit EXCEPT !.pc = "loop", !.i = @ + 1]
    /\ UNCHANGED vars

EndVisit ==
    /\ visit.pc = "loop" /\ visit.i >= size
    /\ visit' = NotVisiting
    /\ Succeed("ForEach", 0, NULL, NoOutput)
    /\ UNCHANGED <<container, caller, released>>

\* A mutable visitor writes through the pointer it was given, before it calls
\* an operation that may move the elements (docs/storage.md:59).
WriteElement(e) ==
    /\ visit.pc = "callback" /\ visit.current /\ Width(e) = elementSize
    /\ heap' = Alloc(heap, visit.element.block,
                     WriteCell(heap[visit.element.block], visit.element.slot, e))
    /\ result' = Called("Write", visit.i, e, TRUE, NoOutput)
    /\ UNCHANGED <<super, storage, caller, released, visit>>

VisitStep == CallVisitor \/ VisitorReturns \/ EndVisit

Traverse ==
    \/ \E visitor \in BOOLEAN : adt_ForEach(visitor)
    \/ \E e \in Elements : WriteElement(e)
    \/ VisitStep

\* The owner of the container, or the visitor, calls an operation.
Operation ==
    /\ visit.pc # "loop"
    /\ \/ kind = "DynamicArray_t" /\ Array!TypedNext
       \/ kind = "Stack_t" /\ Stack!TypedNext
    /\ visit' = [visit EXCEPT !.current = FALSE]

TraversalNext == (Traverse \/ Operation) /\ UNCHANGED kind

\* A traversal runs on, and a visitor returns.
TraversalSpec ==
    /\ TraversalInit
    /\ [][TraversalNext]_<<vars, visit, kind>>
    /\ WF_<<vars, visit>>(VisitStep)

-----------------------------------------------------------------------------
ForEach == INSTANCE ForEachADT WITH
    live <- Live,
    contents <- Contents,
    pc <- visit.pc,
    index <- visit.i

\* dynamic_array.c:21-49, stack.c:21-49: the visitor is always shown an element in
\* use, the one that is at the index it is told at that moment, although it may
\* have made the array grow (and move), shrink, or end its life since the loop
\* began: size and address are read again for each call.
ImplementsForEach == ForEach!Spec

\* A traversal returns if its visitor does, whatever the visitor calls.
VisitEnds == visit.pc # "idle" ~> visit.pc = "idle"

\* README.md:153 and tests/test_primitive_values.cpp:53-73: for arguments of any
\* type a call, from a visitor or not, either does what ListADT or StackADT says,
\* and the container holds elements of one width, or fails and changes nothing
\* because the value is not as wide as the elements are.  That includes
\* containers that were destroyed and initialised again for another type.
ImplementsTyped ==
    /\ [](\A i \in 1 .. size : ~ Misfit(Contents[i]))
    /\ [][CASE Misfit(result'.arg) -> Array!List!Fails(result'.op, result'.index, result'.arg)
           [] OTHER -> \/ result'.op \in {"ForEach", "Visit", "Write"}
                       \/ IF kind = "Stack_t" THEN Stack!LIFO!Next ELSE Array!List!Next]_vars
=============================================================================
