------------------------- MODULE ContiguousStorage --------------------------
(***************************************************************************)
(* src/shared/storage/contiguous_storage.c: one growable block of          *)
(* element slots, the storage of DynamicArray_t and Stack_t.               *)
(*                                                                         *)
(* A storage is the record ContiguousStorage_t: the block (NULL before the *)
(* first allocation) and its capacity in elements.  How many of its slots  *)
(* are in use is the container's business: the container passes count.     *)
(*                                                                         *)
(* A function that allocates is the set of its outcomes                    *)
(* [ok, heap, storage], one for each way the allocations it makes can go.  *)
(***************************************************************************)
EXTENDS Memory

CONSTANT
    InitialCapacity     \* CONTIGUOUS_STORAGE_INITIAL_CAPACITY

ASSUME InitialCapacityAssumption ==
    InitialCapacity \in 1 .. SizeMax

EmptyStorage == [data |-> NULL, capacity |-> 0]

Outcome(ok, heap, storage) == [ok |-> ok, heap |-> heap, storage |-> storage]

Refused(heap, storage) == {Outcome(FALSE, heap, storage)}

\* The two fields contradict each other.
Inconsistent(storage) == (storage.data = NULL) # (storage.capacity = 0)

-----------------------------------------------------------------------------
(* Creation.  Both write the caller's storage only when they succeed.      *)

contiguousStorage_Init(heap, storage, elementSize) ==
    IF elementSize = 0 \/ InitialCapacity > SizeMax \div elementSize
    THEN Refused(heap, storage)
    ELSE {IF m.data = NULL
          THEN Outcome(FALSE, heap, storage)
          ELSE Outcome(TRUE, m.heap, [data |-> m.data, capacity |-> InitialCapacity]) :
             m \in Malloc(heap, [i \in 0 .. InitialCapacity - 1 |-> Junk])}

\* elements is the caller's array, or NULL.
contiguousStorage_InitFrom(heap, storage, elements, count, elementSize) ==
    IF \/ elementSize = 0
       \/ elements = NULL /\ count > 0
       \/ count > SizeMax \div elementSize
    THEN Refused(heap, storage)
    ELSE IF count = 0
    THEN {Outcome(TRUE, heap, EmptyStorage)}
    ELSE {IF m.data = NULL
          THEN Outcome(FALSE, heap, storage)
          ELSE Outcome(TRUE, m.heap, [data |-> m.data, capacity |-> count]) :
             m \in Malloc(heap, [i \in 0 .. count - 1 |-> elements[i + 1]])}

-----------------------------------------------------------------------------
(* Growth.  The loop at line 105 doubles until the capacity suffices and   *)
(* gives up before a doubling would wrap: it ends with the least of the    *)
(* doublings of its start that lies in required .. SizeMax, if one does.   *)

Doublings(start, required) ==
    {n \in required .. SizeMax : \E k \in 0 .. SizeMax : n = start * 2^k}

GrownCapacity(capacity, required) ==
    LET start == IF capacity = 0 THEN InitialCapacity ELSE capacity
    IN  {n \in Doublings(start, required) :
            \A m \in Doublings(start, required) : n <= m}

\* A slip: the capacity is recorded before realloc is known to have succeeded.
Regrow_CapacityFirst(heap, storage, newCapacity) ==
    {IF r.data = NULL
     THEN Outcome(FALSE, heap, [storage EXCEPT !.capacity = newCapacity])
     ELSE Outcome(TRUE, r.heap, [data |-> r.data, capacity |-> newCapacity]) :
        r \in Realloc(heap, storage.data, newCapacity)}

\* Lines 120-128: realloc and the two assignments after it.
Regrow(heap, storage, newCapacity) ==
    {IF r.data = NULL
     THEN Outcome(FALSE, heap, storage)
     ELSE Outcome(TRUE, r.heap, [data |-> r.data, capacity |-> newCapacity]) :
        r \in Realloc(heap, storage.data, newCapacity)}

contiguousStorage_Reserve(heap, storage, required, elementSize) ==
    IF elementSize = 0 \/ Inconsistent(storage)
    THEN Refused(heap, storage)
    ELSE IF required <= storage.capacity
    THEN {Outcome(TRUE, heap, storage)}
    ELSE LET fitting == {n \in GrownCapacity(storage.capacity, required) :
                            n <= SizeMax \div elementSize}
         IN  IF fitting = {}
             THEN Refused(heap, storage)
             ELSE UNION {Regrow(heap, storage, n) : n \in fitting}

-----------------------------------------------------------------------------
(* Addresses inside the block.                                             *)

\* The address of a slot, NULL for an index the block does not have.
contiguousStorage_At(storage, index, elementSize) ==
    IF storage.data = NULL \/ elementSize = 0 \/ index >= storage.capacity
    THEN NULL
    ELSE Address(storage.data, index)

\* The whole capacity counts, not only the slots in use.
contiguousStorage_ContainsAddress(storage, address, elementSize) ==
    /\ storage.data # NULL
    /\ address # NULL
    /\ elementSize # 0
    /\ storage.capacity <= SizeMax \div elementSize
    /\ address.block = storage.data
    /\ address.slot < storage.capacity

-----------------------------------------------------------------------------
(* Insertion and removal.                                                  *)

ShiftElementsAfterIndexRight(cells, count, index) ==
    MoveCells(cells, index + 1, index, count - index)

shiftElementsAfterIndexLeft(cells, count, index) ==
    MoveCells(cells, index, index + 1, count - index - 1)

\* Lines 186-193: the source is read after the block has grown and shifted.
PlaceElement(heap, storage, count, index, source, elementSize) ==
    {IF ~ r.ok
     THEN r
     ELSE LET block   == r.storage.data
              shifted == Alloc(r.heap, block,
                            ShiftElementsAfterIndexRight(r.heap[block], count, index))
          IN  Outcome(TRUE,
                      Alloc(shifted, block,
                            WriteCell(shifted[block], index, Deref(shifted, source))),
                      r.storage) :
        r \in contiguousStorage_Reserve(heap, storage, (count + 1) % (SizeMax + 1), elementSize)}

\* A slip: the element is read from where the caller said, alias or not.
PlaceCopied_NoCopy(heap, storage, count, index, element, elementSize) ==
    PlaceElement(heap, storage, count, index, element, elementSize)

\* A slip: the copy is freed only on the successful path.
PlaceCopied_LeakOnFailure(heap, storage, count, index, element, elementSize) ==
    UNION {IF m.data = NULL
           THEN Refused(heap, storage)
           ELSE {IF r.ok THEN Outcome(TRUE, Free(r.heap, m.data), r.storage) ELSE r :
                    r \in PlaceElement(m.heap, storage, count, index,
                                       Address(m.data, 0), elementSize)} :
             m \in Malloc(heap, [i \in {0} |-> Deref(heap, element)])}

\* Lines 174-196 for an element inside the block: it is copied out first, and
\* the copy is freed whether or not the block could grow.
PlaceCopied(heap, storage, count, index, element, elementSize) ==
    UNION {IF m.data = NULL
           THEN Refused(heap, storage)
           ELSE {Outcome(r.ok, Free(r.heap, m.data), r.storage) :
                    r \in PlaceElement(m.heap, storage, count, index,
                                       Address(m.data, 0), elementSize)} :
             m \in Malloc(heap, [i \in {0} |-> Deref(heap, element)])}

\* A slip: the guard against count + 1 wrapping to zero is missing.
CannotInsert_Wraps(storage, count, index, element, elementSize) ==
    \/ element = NULL
    \/ elementSize = 0
    \/ Inconsistent(storage)
    \/ count > storage.capacity
    \/ index > count

CannotInsert(storage, count, index, element, elementSize) ==
    \/ element = NULL
    \/ elementSize = 0
    \/ Inconsistent(storage)
    \/ count > storage.capacity
    \/ index > count
    \/ count = SizeMax

contiguousStorage_Insert(heap, storage, count, index, element, elementSize) ==
    IF CannotInsert(storage, count, index, element, elementSize)
    THEN Refused(heap, storage)
    ELSE IF contiguousStorage_ContainsAddress(storage, element, elementSize)
    THEN PlaceCopied(heap, storage, count, index, element, elementSize)
    ELSE PlaceElement(heap, storage, count, index, element, elementSize)

contiguousStorage_Erase(heap, storage, count, index, elementSize) ==
    IF \/ storage.data = NULL
       \/ elementSize = 0
       \/ count = 0
       \/ count > storage.capacity
       \/ index >= count
    THEN Outcome(FALSE, heap, storage)
    ELSE Outcome(TRUE,
                 Alloc(heap, storage.data,
                       shiftElementsAfterIndexLeft(heap[storage.data], count, index)),
                 storage)

\* A slip: the block is forgotten, not freed.
contiguousStorage_Destroy_Forgets(heap, storage) ==
    Outcome(TRUE, heap, EmptyStorage)

contiguousStorage_Destroy(heap, storage) ==
    Outcome(TRUE, Free(heap, storage.data), EmptyStorage)
=============================================================================
