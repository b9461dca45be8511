----------------------------- MODULE LinkedList -----------------------------
(***************************************************************************)
(* src/containers/linked_list/linked_list.c: LinkedList_t, an              *)
(* indexable list over a linked storage.                                   *)
(*                                                                         *)
(* One action per public operation, each the whole C function.  The caller *)
(* keeps the contract of docs/ownership.md, as in DynamicArray.            *)
(***************************************************************************)
EXTENDS LinkedContainer

ll_Init(type) == CreateEmpty("LINKED_LIST_VTABLE", type)

ll_InitFrom(elements, count, type) ==
    Create("InitFrom", "LINKED_LIST_VTABLE", count, {elements[i] : i \in 1 .. count}, type,
           linkedStorage_InitFrom(mem, storage, elements, count, type.elementSize))

-----------------------------------------------------------------------------
(* Reading and replacing.                                                  *)

ll_Get(index, outElement) ==
    IF outElement = NULL \/ ElementAt(index) = NULL
    THEN Fail("Get", index, Usable(outElement))
    ELSE /\ Succeed("Get", index, Usable(outElement), CellAt(index))
         /\ UNCHANGED <<container, caller, released>>

\* A slip: the replaced element is not destroyed.
Overwrite_Forgets(index, element) ==
    /\ Succeed("Set", index, Meant(element), NoOutput)
    /\ mem' = [mem EXCEPT !.heap[ElementAt(index).block][0] = Deref(mem.heap, element)]
    /\ caller' = HandedOver(elementType, {Deref(mem.heap, element)})
    /\ UNCHANGED <<super, storage, released>>

Overwrite(index, element) ==
    /\ Succeed("Set", index, Meant(element), NoOutput)
    /\ released' = Destroyed(elementType, <<CellAt(index)>>)
    /\ mem' = [mem EXCEPT !.heap[ElementAt(index).block][0] = Deref(mem.heap, element)]
    /\ caller' = HandedOver(elementType, {Deref(mem.heap, element)})
    /\ UNCHANGED <<super, storage>>

ll_detail_SetRef(index, element) ==
    IF element = NULL \/ ElementAt(index) = NULL
    THEN Fail("Set", index, Meant(element))
    ELSE IF ElementAt(index) = element
    THEN /\ Succeed("Set", index, Meant(element), NoOutput)
         /\ UNCHANGED <<container, caller, released>>
    ELSE Overwrite(index, element)

\* The positions on the chain the search loop of ll_detail_IndexOfRef stops at.
MatchesOf(e) == {i \in DOMAIN Chain : Matches(elementType, CellOf(Chain[i]), e)}

ll_detail_IndexOfRef(e) ==
    IF e = NULL \/ elementSize = 0 \/ MatchesOf(e) = {}
    THEN Fail("IndexOf", 0, e)
    ELSE \E i \in MatchesOf(e) :
            /\ \A j \in MatchesOf(e) : i <= j
            /\ Succeed("IndexOf", 0, e, i - 1)
            /\ UNCHANGED <<container, caller, released>>

ll_detail_ContainsRef(e) ==
    /\ result' = Called("Contains", 0, e,
                        e # NULL /\ elementSize # 0 /\ MatchesOf(e) # {}, NoOutput)
    /\ UNCHANGED <<container, caller, released>>

-----------------------------------------------------------------------------
(* Insertion.                                                              *)

InsertInStorage(op, index, element) ==
    StoreOutcome(op, index, element,
                 linkedStorage_Insert(mem, storage, size, index, element, elementSize))

ll_detail_InsertRef(index, element) == InsertInStorage("Insert", index, element)
ll_detail_PrependRef(element) == InsertInStorage("Prepend", 0, element)
ll_detail_AppendRef(element) == AppendToStorage("Append", element)

-----------------------------------------------------------------------------
(* Removal.                                                                *)

ll_Remove(index) ==
    IF ElementAt(index) = NULL
    THEN Fail("Remove", index, NULL)
    ELSE RemoveAtIndex("Remove", index, CellAt(index))

ll_Take(index, outElement) ==
    IF \/ outElement = NULL
       \/ linkedStorage_ContainsAddress(mem, storage, outElement, elementSize)
       \/ ElementAt(index) = NULL
    THEN Fail("Take", index, Usable(outElement))
    ELSE TakeAtIndex("Take", index, CellAt(index), outElement)

ll_Clear == Empty
ll_Destroy == TearDown

-----------------------------------------------------------------------------
\* Indices a caller asks for: those in range, and the first beyond.
Indices == 0 .. size + 1

Next ==
    \/ \E type \in ElementTypes :
          \/ ll_Init(type)
          \/ ll_InitFrom(NULL, 1, type)
          \/ \E n \in 0 .. MaxInitial : \E s \in [1 .. n -> Elements] :
                OfferedArray(type, s) /\ ll_InitFrom(s, n, type)
    \/ \E element \in Sources :
          \/ \E index \in Indices : ll_detail_InsertRef(index, element)
          \/ ll_detail_PrependRef(element)
          \/ ll_detail_AppendRef(element)
    \/ \E index \in Indices :
          \/ \E element \in Sources \cup OwnSlot(index) : ll_detail_SetRef(index, element)
          \/ \E outElement \in {NULL, CallerVariable} : ll_Get(index, outElement)
          \/ \E outElement \in Outputs : ll_Take(index, outElement)
          \/ ll_Remove(index)
    \/ \E e \in Elements \cup {NULL} : ll_detail_IndexOfRef(e) \/ ll_detail_ContainsRef(e)
    \/ ll_Clear
    \/ ll_Destroy
    \/ \E e \in Elements : Acquire(e) /\ UNCHANGED container

Spec == Init /\ [][Next]_vars

-----------------------------------------------------------------------------
List == INSTANCE ListADT WITH
    MaxIndex <- SizeMax + 1,
    live <- Live,
    contents <- Contents

\* LinkedList_t is a list: every call returns and does what ListADT says
\* (docs/linked_list.md, docs/ownership.md:72-83).
ImplementsList == List!Spec
=============================================================================
