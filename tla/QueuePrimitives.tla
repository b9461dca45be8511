-------------------------- MODULE QueuePrimitives ---------------------------
(* The type-based calls of Queue_t: queue.h and                            *)
(* src/containers/queue/primitive_operations.c.                            *)
EXTENDS Queue, PrimitiveDispatch

QU_INIT(type) == qu_Init(ADT_ELEMENT_TYPE_INFO(type))
QU_INIT_FROM(values) ==
    qu_InitFrom(values, Len(values), ADT_ELEMENT_TYPE_INFO(TypeOf[values[1]]))

qu_detail_EnqueuePrimitive(e) ==
    IF adt_AcceptsElementSize(e) THEN qu_detail_EnqueueRef(Variable(e)) ELSE Fail("Enqueue", size, e)

qu_Enqueue(element) ==
    ADT_DETAIL_DISPATCH_ELEMENT(element, qu_detail_EnqueuePrimitive(element),
                                qu_detail_EnqueueRef(element))

-----------------------------------------------------------------------------
\* The addresses of the elements themselves are left to the container's own module.
TypedNext ==
    \/ \E type \in DOMAIN SizeOf :
          QU_INIT(type) \/ \E values \in ArraysOf(type) : QU_INIT_FROM(values)
    \/ \E element \in Arguments({}) : qu_Enqueue(element)
    \/ \E outElement \in {NULL, CallerVariable} : qu_Dequeue(outElement)
    \/ qu_Discard
    \/ qu_Clear
    \/ qu_Destroy
=============================================================================
