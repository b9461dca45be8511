-------------------------- MODULE ArrayPrimitives ---------------------------
(* The type-based calls of DynamicArray_t: dynamic_array.h and             *)
(* src/containers/dynamic_array/primitive_operations.c.                    *)
EXTENDS DynamicArray, PrimitiveDispatch

DA_INIT(type) == da_Init(ADT_ELEMENT_TYPE_INFO(type))
DA_INIT_FROM(values) ==
    da_InitFrom(values, Len(values), ADT_ELEMENT_TYPE_INFO(TypeOf[values[1]]))

\* One function of each kind per primitive type, generated by a macro.
da_detail_IndexOfPrimitive(e) ==
    IF adt_AcceptsElementSize(e) THEN da_detail_IndexOfRef(e) ELSE Fail("IndexOf", 0, e)
da_detail_ContainsPrimitive(e) ==
    IF adt_AcceptsElementSize(e) THEN da_detail_ContainsRef(e) ELSE Fail("Contains", 0, e)
da_detail_SetPrimitive(index, e) ==
    IF adt_AcceptsElementSize(e) THEN da_detail_SetRef(index, Variable(e)) ELSE Fail("Set", index, e)
da_detail_InsertPrimitive(index, e) ==
    IF adt_AcceptsElementSize(e) THEN da_detail_InsertRef(index, Variable(e))
    ELSE Fail("Insert", index, e)
da_detail_PrependPrimitive(e) ==
    IF adt_AcceptsElementSize(e) THEN da_detail_PrependRef(Variable(e)) ELSE Fail("Prepend", 0, e)
da_detail_AppendPrimitive(e) ==
    IF adt_AcceptsElementSize(e) THEN da_detail_AppendRef(Variable(e)) ELSE Fail("Append", size, e)

da_IndexOf(element) ==
    ADT_DETAIL_DISPATCH_ELEMENT(element, da_detail_IndexOfPrimitive(element),
                                da_detail_IndexOfRef(Meant(element)))
da_Contains(element) ==
    ADT_DETAIL_DISPATCH_ELEMENT(element, da_detail_ContainsPrimitive(element),
                                da_detail_ContainsRef(Meant(element)))
da_Set(index, element) ==
    ADT_DETAIL_DISPATCH_ELEMENT(element, da_detail_SetPrimitive(index, element),
                                da_detail_SetRef(index, element))
da_Insert(index, element) ==
    ADT_DETAIL_DISPATCH_ELEMENT(element, da_detail_InsertPrimitive(index, element),
                                da_detail_InsertRef(index, element))
da_Prepend(element) ==
    ADT_DETAIL_DISPATCH_ELEMENT(element, da_detail_PrependPrimitive(element),
                                da_detail_PrependRef(element))
da_Append(element) ==
    ADT_DETAIL_DISPATCH_ELEMENT(element, da_detail_AppendPrimitive(element),
                                da_detail_AppendRef(element))

-----------------------------------------------------------------------------
TypedNext ==
    \/ \E type \in DOMAIN SizeOf :
          DA_INIT(type) \/ \E values \in ArraysOf(type) : DA_INIT_FROM(values)
    \/ \E element \in Arguments(Slots) :
          \/ da_IndexOf(element) \/ da_Contains(element)
          \/ da_Prepend(element) \/ da_Append(element)
          \/ \E index \in Indices : da_Set(index, element) \/ da_Insert(index, element)
    \/ \E index \in Indices :
          \E outElement \in Outputs : da_Take(index, outElement)
    \/ \E index \in Indices : da_Remove(index)
    \/ da_Clear
    \/ da_Destroy
=============================================================================
