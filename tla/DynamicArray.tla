---------------------------- MODULE DynamicArray ----------------------------
(***************************************************************************)
(* src/containers/dynamic_array/dynamic_array.c: DynamicArray_t, an        *)
(* indexable array.                                                        *)
(*                                                                         *)
(* One action per public operation, each the whole C function.  The caller *)
(* keeps the contract of docs/ownership.md: it initialises a container     *)
(* that is zeroed or destroyed, and offers an element that owns something  *)
(* only while it owns it.  For elements that own nothing every source is   *)
(* allowed, the slots of the array itself included.                        *)
(***************************************************************************)
EXTENDS ContiguousContainer

da_Init(type) ==
    Create("Init", "DA_VTABLE", 0, {}, type,
           contiguousStorage_Init(heap, EmptyStorage, type.elementSize))

da_InitFrom(elements, count, type) ==
    Create("InitFrom", "DA_VTABLE", count, {elements[i] : i \in 1 .. count}, type,
           contiguousStorage_InitFrom(heap, EmptyStorage, elements, count, type.elementSize))

-----------------------------------------------------------------------------
(* Reading and replacing.                                                  *)

da_Get(index, outElement) ==
    IF outElement = NULL \/ index >= size
    THEN Fail("Get", index, Usable(outElement))
    ELSE /\ Succeed("Get", index, Usable(outElement), CellAt(index))
         /\ UNCHANGED <<container, caller, released>>

Overwrite(index, element) ==
    /\ Succeed("Set", index, Meant(element), NoOutput)
    /\ released' = Destroyed(elementType, <<CellAt(index)>>)
    /\ heap' = Alloc(heap, storage.data,
                     WriteCell(heap[storage.data], index, Deref(heap, element)))
    /\ caller' = HandedOver(elementType, {Deref(heap, element)})
    /\ UNCHANGED <<super, storage>>

\* A slip: an element replaced by itself is destroyed all the same.
da_detail_SetRef_NoSelfTest(index, element) ==
    IF element = NULL \/ index >= size
    THEN Fail("Set", index, Meant(element))
    ELSE Overwrite(index, element)

da_detail_SetRef(index, element) ==
    IF element = NULL \/ index >= size
    THEN Fail("Set", index, Meant(element))
    ELSE IF ElementAt(index) = element
    THEN /\ Succeed("Set", index, Meant(element), NoOutput)
         /\ UNCHANGED <<container, caller, released>>
    ELSE Overwrite(index, element)

\* The indices the search loop of da_detail_IndexOfRef stops at.
MatchesOf(e) == {i \in 0 .. size - 1 : Matches(elementType, CellAt(i), e)}

da_detail_IndexOfRef(e) ==
    IF e = NULL \/ MatchesOf(e) = {}
    THEN Fail("IndexOf", 0, e)
    ELSE \E i \in MatchesOf(e) :
            /\ \A j \in MatchesOf(e) : i <= j
            /\ Succeed("IndexOf", 0, e, i)
            /\ UNCHANGED <<container, caller, released>>

da_detail_ContainsRef(e) ==
    /\ result' = Called("Contains", 0, e, e # NULL /\ MatchesOf(e) # {}, NoOutput)
    /\ UNCHANGED <<container, caller, released>>

-----------------------------------------------------------------------------
(* Insertion.                                                              *)

da_detail_InsertRef(index, element) == InsertAtIndex("Insert", index, element)
da_detail_PrependRef(element) == InsertAtIndex("Prepend", 0, element)
da_detail_AppendRef(element) == InsertAtIndex("Append", size, element)

-----------------------------------------------------------------------------
(* Removal.                                                                *)

da_Remove(index) ==
    IF index >= size
    THEN Fail("Remove", index, NULL)
    ELSE RemoveAtIndex("Remove", index)

\* A slip: an output inside the block is accepted.
da_Take_AnyOutput(index, outElement) ==
    IF outElement = NULL \/ index >= size
    THEN Fail("Take", index, Usable(outElement))
    ELSE TakeAtIndex("Take", index, outElement)

da_Take(index, outElement) ==
    IF \/ outElement = NULL
       \/ index >= size
       \/ contiguousStorage_ContainsAddress(storage, outElement, elementSize)
    THEN Fail("Take", index, Usable(outElement))
    ELSE TakeAtIndex("Take", index, outElement)

da_Clear == Empty
da_Destroy == TearDown

-----------------------------------------------------------------------------
\* Indices a caller asks for: those in range, and the first beyond.
Indices == 0 .. size + 1

ArrayNext ==
    \/ \E type \in ElementTypes :
          \/ da_Init(type)
          \/ da_InitFrom(NULL, 1, type)
          \/ \E n \in 0 .. MaxInitial : \E s \in [1 .. n -> Elements] :
                OfferedArray(type, s) /\ da_InitFrom(s, n, type)
    \/ \E element \in Sources :
          \/ \E index \in Indices : da_detail_InsertRef(index, element)
          \/ da_detail_PrependRef(element)
          \/ da_detail_AppendRef(element)
    \/ \E index \in Indices :
          \/ \E element \in Sources \cup OwnSlot(index) : da_detail_SetRef(index, element)
          \/ \E outElement \in {NULL, CallerVariable} : da_Get(index, outElement)
          \/ \E outElement \in Outputs : da_Take(index, outElement)
          \/ da_Remove(index)
    \/ \E e \in Elements \cup {NULL} : da_detail_IndexOfRef(e) \/ da_detail_ContainsRef(e)
    \/ da_Clear
    \/ da_Destroy
    \/ \E e \in Elements : Acquire(e) /\ UNCHANGED container

ArraySpec == Init /\ [][ArrayNext]_vars

-----------------------------------------------------------------------------
List == INSTANCE ListADT WITH
    MaxIndex <- SizeMax + 1,
    live <- Live,
    contents <- Contents

\* DynamicArray_t is a list: every call returns and does what ListADT says
\* (docs/dynamic_array.md, docs/ownership.md:72-83).
ImplementsList == List!Spec
=============================================================================
