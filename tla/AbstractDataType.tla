-------------------------- MODULE AbstractDataType --------------------------
(***************************************************************************)
(* ADT_Super_t, the header every container of libadt starts with: its      *)
(* vtable, its size and its element type, all zero before Init and after   *)
(* Destroy.                                                                *)
(***************************************************************************)
EXTENDS Ownership, Memory

CONSTANT MaxInitial     \* the longest array passed to InitFrom

ASSUME MaxInitialAssumption == MaxInitial \in 0 .. SizeMax

VARIABLE super      \* [vtable, size, elementType]

VTables == {"DA_VTABLE", "LINKED_LIST_VTABLE", "STACK_VTABLE", "QUEUE_VTABLE"}

ASSUME VTablesAssumption == NULL \notin VTables

ADT_Super_t(SizeType) ==
    [vtable : VTables \cup {NULL}, size : SizeType, elementType : ElementTypeInfo]

ZeroSuper == [vtable |-> NULL, size |-> 0, elementType |-> ZeroType]

Live == super.vtable # NULL
size == super.size
elementType == super.elementType
elementSize == elementType.elementSize

Succeed(op, index, arg, out) == result' = Called(op, index, arg, TRUE, out)

\* The header after one element more, and after one less.
Grown == [super EXCEPT !.size = @ + 1]
Shrunk == [super EXCEPT !.size = @ - 1]

\* Addresses a caller may pass for the element to store, slots being those of
\* the container's own elements: an element that owns something is offered from
\* a variable of the caller only.
SourcesAmong(slots) ==
    {NULL} \cup {Variable(e) : e \in Offered(elementType)} \cup
    (IF elementType.destroy THEN {} ELSE slots)

\* The element such an address stands for when the call is made.
MeantIn(heap, element) == IF element = NULL THEN NULL ELSE Deref(heap, element)

\* Addresses a caller may pass for an element to be copied to: its own
\* variable, or a slot of the container.
CallerVariable == Address(Caller, NULL)
OutputsAmong(slots) == {NULL, CallerVariable} \cup slots

Usable(outElement) == IF outElement = CallerVariable THEN "usable" ELSE "unusable"

\* The resource of every element has exactly one owner: the caller, one of the
\* elements of the container, or nobody because it has been released, once.
OneOwner(contents) ==
    elementType.destroy =>
        \A e \in Elements :
            (IF e \in caller THEN 1 ELSE 0)
            + Cardinality({i \in DOMAIN contents : contents[i] = e})
            + released[e] = 1
=============================================================================
