---------------------------- MODULE ElementType -----------------------------
(***************************************************************************)
(* The elements a container stores and the run-time type information that  *)
(* goes with them: ADT_ElementTypeInfo_t of include/libadt.  Of its fields *)
(* only those that decide what a container does to its state are kept: the *)
(* size of an element and whether there is a comparator and a destructor.  *)
(***************************************************************************)
EXTENDS Integers

CONSTANTS
    Elements,       \* the element values a caller stores
    ElementTypes,   \* the type information a caller may pass to Init
    Key,            \* what a configured comparator looks at
    NULL

ElementTypeInfo == [elementSize : Nat, destroy : BOOLEAN, compare : BOOLEAN]

ASSUME ElementTypeAssumption ==
    /\ NULL \notin Elements
    /\ ElementTypes \subseteq ElementTypeInfo
    /\ Elements \subseteq DOMAIN Key

\* The type information of a container that is all zeroes.
ZeroType == [elementSize |-> 0, destroy |-> FALSE, compare |-> FALSE]

\* A slip: the configured comparator is not consulted.
Matches_Bytes(type, x, y) == x = y

\* compare == 0 when there is a comparator, memcmp == 0 otherwise.
Matches(type, x, y) == IF type.compare THEN Key[x] = Key[y] ELSE x = y
=============================================================================
