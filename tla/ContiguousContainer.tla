------------------------ MODULE ContiguousContainer -------------------------
(***************************************************************************)
(* What DynamicArray_t and Stack_t have in common: the shared header super *)
(* and a contiguous storage, written the same way in dynamic_array.c and   *)
(* stack.c.                                                                *)
(***************************************************************************)
EXTENDS ContiguousStorage, AbstractDataType

VARIABLES
    storage,    \* ContiguousStorage_t: [data, capacity]
    heap        \* what is allocated

container == <<super, storage, heap>>
vars == <<container, ownership>>

ElementAt(index) == contiguousStorage_At(storage, index, elementSize)
CellAt(index) == Deref(heap, ElementAt(index))

\* The elements in use, as the caller sees them.
Contents == [i \in 1 .. size |-> CellAt(i - 1)]

Slots == {ElementAt(i) : i \in 0 .. size - 1}
Sources == SourcesAmong(Slots)
Outputs == OutputsAmong(Slots)
Meant(element) == MeantIn(heap, element)

\* The address of the element at an index, which may replace itself.
OwnSlot(index) == IF index < size THEN {ElementAt(index)} ELSE {}

Fail(op, index, arg) ==
    /\ result' = Called(op, index, arg, FALSE, NoOutput)
    /\ UNCHANGED <<container, caller, released>>

Init ==
    /\ OwnershipInit
    /\ super = ZeroSuper
    /\ storage = EmptyStorage
    /\ heap = EmptyHeap

-----------------------------------------------------------------------------
\* Init and InitFrom set the storage up in a local variable, and write the
\* container only if that succeeded.
Create(op, vtable, count, taken, type, outcomes) ==
    /\ ~ Live
    /\ \E r \in outcomes :
          /\ heap' = r.heap
          /\ result' = Called(op, count, NULL, r.ok, NoOutput)
          /\ IF r.ok
             THEN /\ super' = [vtable |-> vtable, size |-> count, elementType |-> type]
                  /\ storage' = r.storage
                  /\ caller' = HandedOver(type, taken)
             ELSE UNCHANGED <<super, storage, caller>>
    /\ UNCHANGED released

\* Insertion of an element at an index, which is counted only once it is stored.
InsertAtIndex(op, index, element) ==
    /\ \E r \in contiguousStorage_Insert(heap, storage, size, index, element, elementSize) :
          /\ heap' = r.heap
          /\ storage' = r.storage
          /\ result' = Called(op, index, Meant(element), r.ok, NoOutput)
          /\ IF r.ok
             THEN super' = Grown /\ caller' = HandedOver(elementType, {Meant(element)})
             ELSE UNCHANGED <<super, caller>>
    /\ UNCHANGED released

\* DestroyElement, then Erase, which must not refuse any more.
RemoveAtIndex(op, index) ==
    LET r == contiguousStorage_Erase(heap, storage, size, index, elementSize)
    IN  /\ released' = Destroyed(elementType, <<CellAt(index)>>)
        /\ heap' = r.heap
        /\ storage' = r.storage
        /\ super' = IF r.ok THEN Shrunk ELSE super
        /\ result' = Called(op, index, NULL, r.ok, NoOutput)
        /\ UNCHANGED caller

\* The element is copied to the caller's variable, then erased.
TakeAtIndex(op, index, outElement) ==
    LET r == contiguousStorage_Erase(heap, storage, size, index, elementSize)
    IN  /\ heap' = r.heap
        /\ storage' = r.storage
        /\ super' = IF r.ok THEN Shrunk ELSE super
        /\ result' = Called(op, index, Usable(outElement), r.ok,
                            IF r.ok THEN CellAt(index) ELSE NoOutput)
        /\ caller' = HandedBack(elementType, CellAt(index))
        /\ UNCHANGED released

\* A slip: the container is emptied without destroying its elements.
Empty_Forgets ==
    /\ super' = [super EXCEPT !.size = 0]
    /\ Succeed("Clear", 0, NULL, NoOutput)
    /\ UNCHANGED <<storage, heap, caller, released>>

\* Every element in use is destroyed; the block stays for later.
Empty ==
    /\ released' = Destroyed(elementType, Contents)
    /\ super' = [super EXCEPT !.size = 0]
    /\ Succeed("Clear", 0, NULL, NoOutput)
    /\ UNCHANGED <<storage, heap, caller>>

TearDown ==
    LET r == contiguousStorage_Destroy(heap, storage)
    IN  /\ released' = Destroyed(elementType, Contents)
        /\ heap' = r.heap
        /\ storage' = r.storage
        /\ super' = ZeroSuper
        /\ Succeed("Destroy", 0, NULL, NoOutput)
        /\ UNCHANGED caller

-----------------------------------------------------------------------------
(* Properties of both containers.                                          *)

\* Every variable has its C type; in particular a size and a capacity are
\* values of size_t (contiguous_storage.h, abstract_data_type.h:70-78).
TypeOK ==
    /\ super \in ADT_Super_t(0 .. SizeMax)
    /\ storage \in [data : Blocks \cup {NULL}, capacity : 0 .. SizeMax]
    /\ DOMAIN heap \subseteq Blocks
    /\ \A b \in DOMAIN heap : heap[b] \in [DOMAIN heap[b] -> Cells]
    /\ caller \subseteq Elements
    /\ released \in [Elements -> Nat]

\* The block the container points at is the only one that is allocated, it has
\* exactly the capacity that is recorded, in bytes that fit a size_t, and the
\* elements in use fit it.  So no call leaks a block (the copy of an aliased
\* element, contiguous_storage.c:174-190, included), writes past the end of
\* one, or keeps a block that realloc has freed.
StorageConsistent ==
    /\ ~ Inconsistent(storage)
    /\ DOMAIN heap = {storage.data} \ {NULL}
    /\ storage.data # NULL => DOMAIN heap[storage.data] = 0 .. storage.capacity - 1
    /\ elementSize > 0 => storage.capacity <= SizeMax \div elementSize
    /\ size <= storage.capacity
    /\ ~ Live => super = ZeroSuper /\ storage.data = NULL

\* What a caller can reach is an element somebody stored: never memory that
\* was not written, was freed by realloc, or lies past the block, whatever
\* alias the source of an insertion was (contiguous_storage.c:171-193).
ContentsDefined == \A i \in 1 .. size : Contents[i] \in Elements

\* docs/ownership.md:72-83.  While the elements own something, the resource of
\* every element has exactly one owner: the caller, one slot of the container, or
\* nobody because it has been released, once.
OwnedOnce == OneOwner(Contents)

\* docs/ownership.md:83 and docs/storage.md:40-44: a call that returns false
\* has changed nothing, neither the container nor what is allocated nor an owner.
FailureChangesNothing ==
    [][~ result'.ok => UNCHANGED <<container, caller, released>>]_vars
=============================================================================
