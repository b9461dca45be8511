------------------------- MODULE PrimitiveDispatch --------------------------
(***************************************************************************)
(* The type-based calls of the public headers: an element of a primitive   *)
(* type is passed by value, any other by address, and the type of the      *)
(* argument selects the function that is called                            *)
(* (include/libadt/internal/primitive_dispatch.h).                         *)
(*                                                                         *)
(* The functions for values get no pointer they could compare with the     *)
(* container's, so all they check is the size of the type of the value.    *)
(***************************************************************************)
EXTENDS AbstractDataType

CONSTANTS
    TypeOf,     \* the C type of an element value
    SizeOf      \* the sizeof of a C type

Primitives == {"char", "int", "unsigned int", "long", "float", "double"}

ASSUME PrimitiveDispatchAssumption ==
    /\ DOMAIN TypeOf = Elements
    /\ SizeOf \in [DOMAIN SizeOf -> Nat \ {0}]
    /\ \A e \in Elements : TypeOf[e] \in DOMAIN SizeOf

Width(e) == SizeOf[TypeOf[e]]

\* A type that is no primitive has no COMPARATOR; no such type owns anything.
ADT_ELEMENT_TYPE_INFO(type) ==
    [elementSize |-> SizeOf[type], destroy |-> FALSE, compare |-> type \in Primitives]

\* The values with which a C array of a type can be initialised.
ArraysOf(type) ==
    UNION {[1 .. n -> {e \in Elements : TypeOf[e] = type}] : n \in 1 .. MaxInitial}

Values == {e \in Elements : TypeOf[e] \in Primitives}

\* What a caller writes as the element: any value, or an address, which it must
\* not get wrong: of a variable as wide as the elements, or of an element.
Arguments(slots) ==
    Values \cup {p \in SourcesAmong(slots) :
                    p # NULL /\ p.block = Caller => Width(p.slot) = elementSize}

\* Two slips: sizes are not compared; a value that is too narrow is accepted.
adt_AcceptsElementSize_Any(e) == Live
adt_AcceptsElementSize_Narrower(e) == elementType.elementSize >= Width(e)

adt_AcceptsElementSize(e) == elementType.elementSize = Width(e)

\* _Generic on the type of the argument.
ADT_DETAIL_DISPATCH_ELEMENT(element, primitive, ref) ==
    IF element \in Values THEN primitive ELSE ref

\* A value that is not as wide as the elements of the container.
Misfit(e) == e \in Elements /\ Width(e) # elementSize
=============================================================================
