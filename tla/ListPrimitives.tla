--------------------------- MODULE ListPrimitives ---------------------------
(* The type-based calls of LinkedList_t: linked_list.h and                 *)
(* src/containers/linked_list/primitive_operations.c.                      *)
EXTENDS LinkedList, PrimitiveDispatch

LL_INIT(type) == ll_Init(ADT_ELEMENT_TYPE_INFO(type))
LL_INIT_FROM(values) ==
    ll_InitFrom(values, Len(values), ADT_ELEMENT_TYPE_INFO(TypeOf[values[1]]))

\* One function of each kind per primitive type, generated by a macro.
ll_detail_IndexOfPrimitive(e) ==
    IF adt_AcceptsElementSize(e) THEN ll_detail_IndexOfRef(e) ELSE Fail("IndexOf", 0, e)
ll_detail_ContainsPrimitive(e) ==
    IF adt_AcceptsElementSize(e) THEN ll_detail_ContainsRef(e) ELSE Fail("Contains", 0, e)
ll_detail_SetPrimitive(index, e) ==
    IF adt_AcceptsElementSize(e) THEN ll_detail_SetRef(index, Variable(e)) ELSE Fail("Set", index, e)
ll_detail_InsertPrimitive(index, e) ==
    IF adt_AcceptsElementSize(e) THEN ll_detail_InsertRef(index, Variable(e))
    ELSE Fail("Insert", index, e)
ll_detail_PrependPrimitive(e) ==
    IF adt_AcceptsElementSize(e) THEN ll_detail_PrependRef(Variable(e)) ELSE Fail("Prepend", 0, e)
ll_detail_AppendPrimitive(e) ==
    IF adt_AcceptsElementSize(e) THEN ll_detail_AppendRef(Variable(e)) ELSE Fail("Append", size, e)

ll_IndexOf(element) ==
    ADT_DETAIL_DISPATCH_ELEMENT(element, ll_detail_IndexOfPrimitive(element),
                                ll_detail_IndexOfRef(Meant(element)))
ll_Contains(element) ==
    ADT_DETAIL_DISPATCH_ELEMENT(element, ll_detail_ContainsPrimitive(element),
                                ll_detail_ContainsRef(Meant(element)))
ll_Set(index, element) ==
    ADT_DETAIL_DISPATCH_ELEMENT(element, ll_detail_SetPrimitive(index, element),
                                ll_detail_SetRef(index, element))
ll_Insert(index, element) ==
    ADT_DETAIL_DISPATCH_ELEMENT(element, ll_detail_InsertPrimitive(index, element),
                                ll_detail_InsertRef(index, element))
ll_Prepend(element) ==
    ADT_DETAIL_DISPATCH_ELEMENT(element, ll_detail_PrependPrimitive(element),
                                ll_detail_PrependRef(element))
ll_Append(element) ==
    ADT_DETAIL_DISPATCH_ELEMENT(element, ll_detail_AppendPrimitive(element),
                                ll_detail_AppendRef(element))

-----------------------------------------------------------------------------
\* The addresses of the elements themselves are left to the container's own module.
TypedNext ==
    \/ \E type \in DOMAIN SizeOf :
          LL_INIT(type) \/ \E values \in ArraysOf(type) : LL_INIT_FROM(values)
    \/ \E element \in Arguments({}) :
          \/ ll_IndexOf(element) \/ ll_Contains(element)
          \/ ll_Prepend(element) \/ ll_Append(element)
          \/ \E index \in Indices : ll_Set(index, element) \/ ll_Insert(index, element)
    \/ \E index \in Indices :
          \E outElement \in {NULL, CallerVariable} : ll_Take(index, outElement)
    \/ \E index \in Indices : ll_Remove(index)
    \/ ll_Clear
    \/ ll_Destroy
=============================================================================
