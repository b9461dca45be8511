------------------------------- MODULE ListADT -------------------------------
(***************************************************************************)
(* What DynamicArray_t and LinkedList_t promise their caller: an indexable *)
(* sequence that owns its elements.  Indices count from 0, as in the code: *)
(* contents[index + 1] is the element at an index.                         *)
(***************************************************************************)
EXTENDS SequenceADT

Has(index) == index < Len(contents)
ElementAt(index) == contents[index + 1]

\* A call that asks for an element there is not fails, and no other does.
\* The element that is replaced is released, unless it replaces itself.
Set(index, e) ==
    \/ /\ Succeeds("Set", index, e, NoOutput)
       /\ Has(index) /\ e # NULL
       /\ \/ /\ contents' = ReplaceAt(contents, index + 1, e)
             /\ e \in Offered(elementType)
             /\ released' = Destroyed(elementType, <<ElementAt(index)>>)
             /\ caller' = HandedOver(elementType, {e})
          \/ /\ e = ElementAt(index)
             /\ UNCHANGED <<contents, released, caller>>
       /\ UNCHANGED <<live, elementType>>
    \/ Fails("Set", index, e) /\ ~ (Has(index) /\ e # NULL)

Get(index, out) ==
    \/ Read("Get", index + 1, out) /\ out = "usable"
    \/ Fails("Get", index, out) /\ ~ (Has(index) /\ out = "usable")

Take(index, out) ==
    \/ Transfer("Take", index + 1, out) /\ out = "usable"
    \/ Fails("Take", index, out) /\ ~ (Has(index) /\ out = "usable")

Discard(index) ==
    \/ Delete("Remove", index + 1)
    \/ Fails("Remove", index, NULL) /\ ~ Has(index)

\* An element is found as itself or, by a comparator, as another with its key.
Equivalent(e, f) == e = f \/ (elementType.compare /\ Key[e] = Key[f])

Found(e) == {i \in Indices : e # NULL /\ Has(i) /\ Equivalent(ElementAt(i), e)}

\* The first of the matching indices, or failure when there is none.
IndexOf(e) ==
    \/ /\ Succeeds("IndexOf", 0, e, result'.out)
       /\ result'.out \in Found(e)
       /\ \A j \in Found(e) : result'.out <= j
       /\ UNCHANGED <<caller, released, sequence>>
    \/ Fails("IndexOf", 0, e) /\ Found(e) = {}

IsIn(e) ==
    \/ /\ Succeeds("Contains", 0, e, NoOutput)
       /\ Found(e) # {}
       /\ UNCHANGED <<caller, released, sequence>>
    \/ Fails("Contains", 0, e) /\ Found(e) = {}

Next ==
    \/ Common
    \/ \E e \in Storable :
          \/ \E index \in Indices : Store("Insert", index, e) \/ Set(index, e)
          \/ Store("Prepend", 0, e)
          \/ Store("Append", Len(contents), e)
    \/ \E e \in Elements \cup {NULL} : IndexOf(e) \/ IsIn(e)
    \/ \E index \in Indices, out \in {"usable", "unusable"} :
          \/ Get(index, out)
          \/ Take(index, out)
          \/ Discard(index)

Spec == Init /\ [][Next]_vars
=============================================================================
