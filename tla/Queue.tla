------------------------------- MODULE Queue --------------------------------
(***************************************************************************)
(* src/containers/queue/queue.c: Queue_t, the other container over a       *)
(* linked storage.  The front is the head, the back the tail.  The         *)
(* caller's contract is that of LinkedList.                                *)
(***************************************************************************)
EXTENDS LinkedContainer

backIndex == size - 1

qu_Init(type) == CreateEmpty("QUEUE_VTABLE", type)

qu_InitFrom(elements, count, type) ==
    Create("InitFrom", "QUEUE_VTABLE", count, {elements[i] : i \in 1 .. count}, type,
           linkedStorage_InitFrom(mem, storage, elements, count, type.elementSize))

qu_Front(outElement) ==
    IF outElement = NULL \/ size = 0 \/ storage.head = NULL
    THEN Fail("Front", 0, Usable(outElement))
    ELSE /\ Succeed("Front", 0, Usable(outElement), CellOf(storage.head))
         /\ UNCHANGED <<container, caller, released>>

qu_Back(outElement) ==
    IF outElement = NULL \/ size = 0 \/ storage.tail = NULL
    THEN Fail("Back", backIndex, Usable(outElement))
    ELSE /\ Succeed("Back", backIndex, Usable(outElement), CellOf(storage.tail))
         /\ UNCHANGED <<container, caller, released>>

qu_detail_EnqueueRef(element) == AppendToStorage("Enqueue", element)

\* head->data is read without a test of head (queue.c:165-168).
qu_Dequeue(outElement) ==
    IF \/ outElement = NULL
       \/ size = 0
       \/ linkedStorage_ContainsAddress(mem, storage, outElement, elementSize)
    THEN Fail("Dequeue", 0, Usable(outElement))
    ELSE TakeAtIndex("Dequeue", 0, CellOf(storage.head), outElement)

\* A slip: the back is discarded, not the front.
qu_Discard_Back ==
    IF size = 0 \/ storage.head = NULL
    THEN Fail("Discard", 0, NULL)
    ELSE RemoveAtIndex("Discard", backIndex, CellOf(storage.tail))

\* A slip: the front is dropped without being destroyed.
qu_Discard_Forgets ==
    IF size = 0 \/ storage.head = NULL
    THEN Fail("Discard", 0, NULL)
    ELSE LET r == linkedStorage_Erase(mem, storage, size, 0)
         IN  /\ mem' = r.mem
             /\ storage' = r.storage
             /\ super' = Shrunk
             /\ Succeed("Discard", 0, NULL, NoOutput)
             /\ UNCHANGED <<caller, released>>

qu_Discard ==
    IF size = 0 \/ storage.head = NULL
    THEN Fail("Discard", 0, NULL)
    ELSE RemoveAtIndex("Discard", 0, CellOf(storage.head))

qu_Clear == Empty
qu_Destroy == TearDown

-----------------------------------------------------------------------------
Next ==
    \/ \E type \in ElementTypes :
          \/ qu_Init(type)
          \/ qu_InitFrom(NULL, 1, type)
          \/ \E n \in 0 .. MaxInitial : \E s \in [1 .. n -> Elements] :
                OfferedArray(type, s) /\ qu_InitFrom(s, n, type)
    \/ \E element \in Sources : qu_detail_EnqueueRef(element)
    \/ \E outElement \in {NULL, CallerVariable} : qu_Front(outElement) \/ qu_Back(outElement)
    \/ \E outElement \in Outputs : qu_Dequeue(outElement)
    \/ qu_Discard
    \/ qu_Clear
    \/ qu_Destroy
    \/ \E e \in Elements : Acquire(e) /\ UNCHANGED container

Spec == Init /\ [][Next]_vars

-----------------------------------------------------------------------------
FIFO == INSTANCE QueueADT WITH
    MaxIndex <- SizeMax,
    live <- Live,
    contents <- Contents

\* Queue_t is a queue: what leaves is what entered first, and each call returns
\* and transfers ownership as QueueADT says (docs/queue.md,
\* docs/ownership.md:72-83).
ImplementsQueue == FIFO!Spec
=============================================================================
