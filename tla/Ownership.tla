----------------------------- MODULE Ownership ------------------------------
(***************************************************************************)
(* What every container of libadt shares with its caller: the element type *)
(* it was initialised with (module ElementType), and who must release      *)
(* the resources its elements own.  Elements are copied byte by byte; when *)
(* the type has a destroy callback, the copy that is stored takes over the *)
(* resource of the element, named here by the element itself.              *)
(*                                                                         *)
(* caller    the elements whose resource the caller still owns             *)
(* released  how often the resource of an element has been released since  *)
(*           the caller made it                                            *)
(* result    the last call: its arguments, the bool it returned and what   *)
(*           it wrote through its output pointer                           *)
(***************************************************************************)
EXTENDS ElementType, Sequences, FiniteSets

VARIABLES caller, released, result

ownership == <<caller, released, result>>

\* What a caller may pass to be stored: it offers each resource only once.
Offered(type) == IF type.destroy THEN caller ELSE Elements

\* An array of elements, none of them twice if they own something.
OfferedArray(type, s) ==
    /\ \A i \in DOMAIN s : s[i] \in Offered(type)
    /\ type.destroy => \A i, j \in DOMAIN s : i # j => s[i] # s[j]

\* The caller after the elements of S went into a container.
HandedOver(type, S) == IF type.destroy THEN caller \ S ELSE caller

\* The caller after it took the element e out of a container.
HandedBack(type, e) == IF type.destroy THEN caller \cup {e} ELSE caller

\* destroy called once for each element of the sequence s, if there is one.
Destroyed(type, s) ==
    IF type.destroy
    THEN [e \in Elements |-> released[e] + Cardinality({i \in DOMAIN s : s[i] = e})]
    ELSE released

NoOutput == NULL

Called(op, index, arg, ok, out) ==
    [op |-> op, index |-> index, arg |-> arg, ok |-> ok, out |-> out]

OwnershipInit ==
    /\ caller = Elements
    /\ released = [e \in Elements |-> 0]
    /\ result = Called("none", 0, NULL, TRUE, NoOutput)

\* The caller makes a new resource where one has been released.
Acquire(e) ==
    /\ released[e] = 1
    /\ released' = [released EXCEPT ![e] = 0]
    /\ caller' = caller \cup {e}
    /\ result' = Called("Acquire", 0, e, TRUE, NoOutput)
=============================================================================
