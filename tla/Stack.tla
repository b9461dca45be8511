------------------------------- MODULE Stack --------------------------------
(***************************************************************************)
(* src/containers/stack/stack.c: Stack_t, the other container over a       *)
(* contiguous storage.  The top is the last element in use.  The caller's  *)
(* contract is that of DynamicArray.                                       *)
(***************************************************************************)
EXTENDS ContiguousContainer

topIndex == size - 1

st_Init(type) ==
    Create("Init", "STACK_VTABLE", 0, {}, type,
           contiguousStorage_Init(heap, EmptyStorage, type.elementSize))

st_InitFrom(elements, count, type) ==
    Create("InitFrom", "STACK_VTABLE", count, {elements[i] : i \in 1 .. count}, type,
           contiguousStorage_InitFrom(heap, EmptyStorage, elements, count, type.elementSize))

st_Peek(outElement) ==
    IF outElement = NULL \/ size = 0
    THEN Fail("Peek", topIndex, Usable(outElement))
    ELSE /\ Succeed("Peek", topIndex, Usable(outElement), CellAt(topIndex))
         /\ UNCHANGED <<container, caller, released>>

\* A slip: an element pushed goes below the top.
st_detail_PushRef_BelowTop(element) ==
    InsertAtIndex("Push", IF size = 0 THEN 0 ELSE topIndex, element)

st_detail_PushRef(element) == InsertAtIndex("Push", size, element)

st_Pop(outElement) ==
    IF \/ outElement = NULL
       \/ size = 0
       \/ contiguousStorage_ContainsAddress(storage, outElement, elementSize)
    THEN Fail("Pop", topIndex, Usable(outElement))
    ELSE TakeAtIndex("Pop", topIndex, outElement)

st_Discard ==
    IF size = 0
    THEN Fail("Discard", topIndex, NULL)
    ELSE RemoveAtIndex("Discard", topIndex)

st_Clear == Empty
st_Destroy == TearDown

-----------------------------------------------------------------------------
StackNext ==
    \/ \E type \in ElementTypes :
          \/ st_Init(type)
          \/ st_InitFrom(NULL, 1, type)
          \/ \E n \in 0 .. MaxInitial : \E s \in [1 .. n -> Elements] :
                OfferedArray(type, s) /\ st_InitFrom(s, n, type)
    \/ \E element \in Sources : st_detail_PushRef(element)
    \/ \E outElement \in {NULL, CallerVariable} : st_Peek(outElement)
    \/ \E outElement \in Outputs : st_Pop(outElement)
    \/ st_Discard
    \/ st_Clear
    \/ st_Destroy
    \/ \E e \in Elements : Acquire(e) /\ UNCHANGED container

StackSpec == Init /\ [][StackNext]_vars

-----------------------------------------------------------------------------
LIFO == INSTANCE StackADT WITH
    MaxIndex <- SizeMax,
    live <- Live,
    contents <- Contents

\* Stack_t is a stack: what is popped, peeked at or discarded is the element
\* pushed last, and each call returns and transfers ownership as StackADT says
\* (docs/stack.md, docs/ownership.md:72-83).
ImplementsStack == LIFO!Spec
=============================================================================
