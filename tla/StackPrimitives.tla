-------------------------- MODULE StackPrimitives ---------------------------
(* The type-based calls of Stack_t: stack.h and                            *)
(* src/containers/stack/primitive_operations.c.                            *)
EXTENDS Stack, PrimitiveDispatch

ST_INIT(type) == st_Init(ADT_ELEMENT_TYPE_INFO(type))
ST_INIT_FROM(values) ==
    st_InitFrom(values, Len(values), ADT_ELEMENT_TYPE_INFO(TypeOf[values[1]]))

st_detail_PushPrimitive(e) ==
    IF adt_AcceptsElementSize(e) THEN st_detail_PushRef(Variable(e)) ELSE Fail("Push", size, e)

st_Push(element) ==
    ADT_DETAIL_DISPATCH_ELEMENT(element, st_detail_PushPrimitive(element),
                                st_detail_PushRef(element))

-----------------------------------------------------------------------------
TypedNext ==
    \/ \E type \in DOMAIN SizeOf :
          ST_INIT(type) \/ \E values \in ArraysOf(type) : ST_INIT_FROM(values)
    \/ \E element \in Arguments(Slots) : st_Push(element)
    \/ \E outElement \in Outputs : st_Pop(outElement)
    \/ st_Discard
    \/ st_Clear
    \/ st_Destroy
=============================================================================
