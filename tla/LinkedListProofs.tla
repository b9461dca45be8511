-------------------------- MODULE LinkedListProofs ---------------------------
(***************************************************************************)
(* LinkedList_t keeps the invariant of LinkedContainerProofs, for every    *)
(* set of elements, nodes and blocks and every SIZE_MAX, and each of its   *)
(* calls is a step of the list that ListADT describes.                     *)
(***************************************************************************)
EXTENDS LinkedList, LinkedContainerProofs

-----------------------------------------------------------------------------
(* The effects of OwnershipProofs, as steps of the abstract list.         *)

\* What LinkedList and ListADT both take from Ownership means the same in both.
LEMMA SharedOperators ==
    /\ \A op, index, arg, ok, out :
          List!Called(op, index, arg, ok, out) = Called(op, index, arg, ok, out)
    /\ List!NoOutput = NULL /\ NoOutput = NULL
    /\ List!ZeroType = ZeroType
    /\ \A type : List!Offered(type) = Offered(type)
    /\ \A type, s : List!OfferedArray(type, s) <=> OfferedArray(type, s)
    /\ \A type, S : List!HandedOver(type, S) = HandedOver(type, S)
    /\ \A type, e : List!HandedBack(type, e) = HandedBack(type, e)
<1>1. \A type : List!Offered(type) = Offered(type)
  BY DEF List!Offered, Offered
<1>2. \A type, s : List!OfferedArray(type, s) <=> OfferedArray(type, s)
  BY DEF List!OfferedArray, OfferedArray, List!Offered, Offered
<1>3. QED
  BY <1>1, <1>2
  DEF List!Called, Called, List!NoOutput, NoOutput, List!ZeroType, ZeroType,
      List!HandedOver, HandedOver, List!HandedBack, HandedBack

LEMMA SharedDestroyed == \A type, s : List!Destroyed(type, s) = Destroyed(type, s)
<1>1. \A S : List!Cardinality(S) = Cardinality(S)
  BY DEF List!Cardinality, Cardinality
<1>2. QED
  BY <1>1 DEF List!Destroyed, Destroyed

LEMMA SharedSequences ==
    ASSUME NEW s \in Seq(Elements)
    PROVE  /\ \A position \in 1 .. Len(s) : List!RemoveAt(s, position) = Removed(s, position)
           /\ \A position \in 1 .. Len(s) + 1, e \in Elements :
                 List!InsertAt(s, position, e) = Inserted(s, position, e)
           /\ List!ToSet(s) = {s[i] : i \in DOMAIN s}
<1>1. \A position \in 1 .. Len(s) : List!RemoveAt(s, position) = Removed(s, position)
  BY RemoveAtLemma DEF List!RemoveAt
<1>2. \A position \in 1 .. Len(s) + 1, e \in Elements :
         List!InsertAt(s, position, e) = Inserted(s, position, e)
  BY InsertAtLemma DEF List!InsertAt
<1>3. QED
  BY <1>1, <1>2 DEF List!ToSet

LEMMA CalledSucceeds ==
    ASSUME NEW op, NEW index, NEW arg, NEW out, result' = Called(op, index, arg, TRUE, out)
    PROVE  List!Succeeds(op, index, arg, out)
BY SharedOperators DEF List!Succeeds, List!Call, Called

LEMMA DeclinedFails ==
    ASSUME NEW op, NEW index, NEW arg, Declined(op, index, arg, Contents, Contents')
    PROVE  List!Fails(op, index, arg)
BY SharedOperators
DEF List!Fails, List!Call, Called, Declined, Idle, List!sequence

LEMMA StepInitialize ==
    ASSUME NEW op, NEW type, Created(op, type, Contents, Contents'),
           \/ op = "Init" /\ Len(Contents') = 0
           \/ op = "InitFrom"
    PROVE  List!Initialize(type)
<1>1. List!Succeeds(op, Len(Contents'), NULL, NoOutput)
  BY CalledSucceeds DEF Created
<1>2. List!ToSet(Contents') = {Contents'[i] : i \in DOMAIN Contents'}
  BY SharedSequences DEF Created
<1>3. op = "Init" => Contents' = <<>>
  BY EmptySeq DEF Created
<1>4. QED
  BY <1>1, <1>2, <1>3, SharedOperators DEF List!Initialize, Created

LEMMA StepStore ==
    ASSUME Inv, NEW op, NEW index, NEW e,
           \/ Declined(op, index, e, Contents, Contents')
           \/ StoredAt(op, index, e, Contents, Contents')
    PROVE  List!Store(op, index, e)
<1>1. CASE Declined(op, index, e, Contents, Contents')
  BY <1>1, DeclinedFails DEF List!Store
<1>2. CASE StoredAt(op, index, e, Contents, Contents')
  <2>1. Contents \in Seq(Elements)
    BY InvLemma
  <2>2. e \in Elements /\ e # NULL
    BY <1>2, ElementTypeAssumption DEF StoredAt, Offered, Inv
  <2>3. index + 1 \in 1 .. Len(Contents) + 1 /\ index <= Len(Contents)
    BY <1>2, <2>1 DEF StoredAt
  <2>4. List!InsertAt(Contents, index + 1, e) = Inserted(Contents, index + 1, e)
    BY <2>1, <2>2, <2>3, SharedSequences
  <2>5. List!Succeeds(op, index, e, List!NoOutput)
    BY <1>2, CalledSucceeds, SharedOperators DEF StoredAt
  <2>6. QED
    BY <1>2, <2>2, <2>3, <2>4, <2>5, SharedOperators DEF List!Store, StoredAt
<1>3. QED
  BY <1>1, <1>2

LEMMA StepRead ==
    ASSUME Inv, NEW op, NEW index, NEW arg, ReadFrom(op, index, arg, Contents, Contents')
    PROVE  List!Read(op, index + 1, arg)
<1>1. Contents \in Seq(Elements)
  BY InvLemma
<1>2. index + 1 \in DOMAIN Contents /\ (index + 1) - 1 = index
  BY <1>1 DEF ReadFrom
<1>3. List!Succeeds(op, index, arg, Contents[index + 1])
  BY CalledSucceeds DEF ReadFrom
<1>4. QED
  BY <1>2, <1>3
  DEF List!Read, List!At, List!Succeeds, ReadFrom, Idle, List!sequence

LEMMA StepTransfer ==
    ASSUME Inv, NEW op, NEW index, NEW arg, TakenFrom(op, index, arg, Contents, Contents')
    PROVE  List!Transfer(op, index + 1, arg)
<1>1. Contents \in Seq(Elements)
  BY InvLemma
<1>2. index + 1 \in DOMAIN Contents /\ (index + 1) - 1 = index
  BY <1>1 DEF TakenFrom
<1>3. List!Succeeds(op, index, arg, Contents[index + 1])
  BY CalledSucceeds DEF TakenFrom
<1>4. List!RemoveAt(Contents, index + 1) = Removed(Contents, index + 1)
  BY <1>1, <1>2, SharedSequences
<1>5. QED
  BY <1>2, <1>3, <1>4, SharedOperators
  DEF List!Transfer, List!At, List!Succeeds, TakenFrom

LEMMA StepDelete ==
    ASSUME Inv, NEW op, NEW index, DeletedFrom(op, index, Contents, Contents')
    PROVE  List!Delete(op, index + 1)
<1>1. Contents \in Seq(Elements)
  BY InvLemma
<1>2. index + 1 \in DOMAIN Contents /\ (index + 1) - 1 = index
  BY <1>1 DEF DeletedFrom
<1>3. List!Succeeds(op, index, NULL, List!NoOutput)
  BY CalledSucceeds, SharedOperators DEF DeletedFrom
<1>4. List!RemoveAt(Contents, index + 1) = Removed(Contents, index + 1)
  BY <1>1, <1>2, SharedSequences
<1>5. QED
  BY <1>2, <1>3, <1>4, SharedDestroyed
  DEF List!Delete, List!At, List!Succeeds, DeletedFrom

LEMMA StepReplace ==
    ASSUME Inv, NEW index, NEW e, ReplacedAt("Set", index, e, Contents, Contents')
    PROVE  List!Set(index, e)
<1>1. Contents \in Seq(Elements)
  BY InvLemma
<1>2. e \in Offered(elementType) /\ e # NULL
  BY ElementTypeAssumption DEF ReplacedAt, Offered, Inv
<1>3. index < Len(Contents) /\ index + 1 \in 1 .. Len(Contents)
  BY <1>1 DEF ReplacedAt
<1>4. List!Succeeds("Set", index, e, List!NoOutput)
  BY CalledSucceeds, SharedOperators DEF ReplacedAt
<1>5. List!ReplaceAt(Contents, index + 1, e) = [Contents EXCEPT ![index + 1] = e]
  BY DEF List!ReplaceAt
<1>6. QED
  BY <1>2, <1>3, <1>4, <1>5, SharedOperators, SharedDestroyed
  DEF List!Set, List!Has, List!ElementAt, ReplacedAt

LEMMA StepVacated ==
    ASSUME NEW op, Vacated(op, Contents, Contents')
    PROVE  List!Clear \/ List!Destroy
<1>1. List!Succeeds(op, 0, NULL, List!NoOutput)
  BY CalledSucceeds, SharedOperators DEF Vacated
<1>2. QED
  BY <1>1, SharedOperators, SharedDestroyed DEF List!Clear, List!Destroy, Vacated

LEMMA StepAcquire ==
    ASSUME NEW e \in Elements, Acquire(e), UNCHANGED <<Live, elementType, Contents>>
    PROVE  List!Common
BY SharedOperators DEF List!Common, Acquire, List!Acquire, List!sequence, NoOutput

-----------------------------------------------------------------------------
(* The steps of LinkedList_t.                                            *)

\* Writing the element of one node of a chain.
Rewrites(m, b, e, new) == new = [m EXCEPT !.heap[b][0] = e]

LEMMA RewrittenLemma ==
    ASSUME NEW m, NEW store, NEW c, Sound(m, store, c), NEW p \in 1 .. Len(c),
           NEW e \in Elements, NEW b, b = m.nodes[c[p]].data, NEW new, Rewrites(m, b, e, new)
    PROVE  /\ Sound(new, store, c)
           /\ Values(new, c) = [Values(m, c) EXCEPT ![p] = e]
           /\ new.nodes = m.nodes /\ DOMAIN new.heap = DOMAIN m.heap
<1>1. /\ m = [nodes |-> m.nodes, heap |-> m.heap]
      /\ m.heap \in [BlocksOf(m.nodes) -> [{0} -> Elements]]
      /\ \A q, r \in DOMAIN m.nodes : m.nodes[q].data = m.nodes[r].data => q = r
  BY DEF Sound, Filled
<1>2. \A i \in 1 .. Len(c) : c[i] \in DOMAIN m.nodes
  BY OnChain DEF Sound
<1>3. \A i, j \in 1 .. Len(c) : c[i] = c[j] => i = j
  BY DEF Sound, Linked
<1>4. b \in BlocksOf(m.nodes)
  BY <1>2 DEF BlocksOf
<1>5. /\ new = [nodes |-> new.nodes, heap |-> new.heap]
      /\ new.nodes = m.nodes
      /\ new.heap = [m.heap EXCEPT ![b] = [m.heap[b] EXCEPT ![0] = e]]
  BY <1>1 DEF Rewrites
<1>6. /\ new.heap \in [BlocksOf(m.nodes) -> [{0} -> Elements]]
      /\ new.heap[b][0] = e
      /\ \A d \in BlocksOf(m.nodes) : d # b => new.heap[d] = m.heap[d]
  <2> DEFINE cell == [m.heap[b] EXCEPT ![0] = e]
  <2>1. m.heap[b] \in [{0} -> Elements]
    BY <1>1, <1>4
  <2>2. cell \in [{0} -> Elements] /\ cell[0] = e
    BY <2>1
  <2>3. new.heap = [m.heap EXCEPT ![b] = cell]
    BY <1>5
  <2> HIDE DEF cell
  <2>4. QED
    BY <1>1, <1>4, <2>2, <2>3
<1>7. Sound(new, store, c)
  BY <1>1, <1>5, <1>6 DEF Sound, Filled
<1>8. \A i \in 1 .. Len(c) : Value(new, c[i]) = IF i = p THEN e ELSE Value(m, c[i])
  <2>1. TAKE i \in 1 .. Len(c)
  <2>2. m.nodes[c[i]].data = b <=> i = p
    BY <1>1, <1>2, <1>3
  <2>3. m.nodes[c[i]].data \in BlocksOf(m.nodes)
    BY <1>2 DEF BlocksOf
  <2>4. QED
    BY <1>5, <1>6, <2>2, <2>3 DEF Value
<1>9. Values(new, c) = [Values(m, c) EXCEPT ![p] = e]
  BY <1>8 DEF Values
<1>10. DOMAIN new.heap = DOMAIN m.heap
  BY <1>1, <1>6
<1>11. QED
  BY <1>5, <1>7, <1>9, <1>10

LEMMA OverwriteInv ==
    ASSUME Inv, NEW index \in 0 .. size - 1, NEW element \in Sources, element # NULL,
           Overwrite(index, element)
    PROVE  /\ Safe
           /\ ReplacedAt("Set", index, Meant(element), Contents, Contents')
<1> DEFINE e == Deref(mem.heap, element)
           b == mem.nodes[Chain[index + 1]].data
<1>1. /\ Sound(mem, storage, Chain)
      /\ size = Len(Chain) /\ size \in Nat
      /\ Contents = Values(mem, Chain)
      /\ Contents \in Seq(Elements) /\ Len(Contents) = size /\ DOMAIN Contents = 1 .. size
  BY InvLemma
<1>2. index \in Nat /\ index < size /\ index + 1 \in 1 .. Len(Chain)
  BY <1>1
<1>3. ElementAt(index).block = b /\ CellAt(index) = Contents[index + 1]
  BY <1>2, CellLemma
<1>4. /\ UNCHANGED <<super, storage>>
      /\ Rewrites(mem, b, e, mem')
      /\ released' = Destroyed(elementType, <<Contents[index + 1]>>)
      /\ caller' = HandedOver(elementType, {e})
      /\ result' = Called("Set", index, Meant(element), TRUE, NoOutput)
  BY <1>3 DEF Overwrite, Succeed, Rewrites
<1>5. e \in Elements /\ e = Meant(element) /\ e \in Offered(elementType)
  BY SourceLemma, ElementTypeAssumption
<1>6. b = mem.nodes[Chain[index + 1]].data
  OBVIOUS
<1> HIDE DEF e, b
<1>7. /\ Sound(mem', storage, Chain)
      /\ Values(mem', Chain) = [Values(mem, Chain) EXCEPT ![index + 1] = e]
      /\ mem'.nodes = mem.nodes /\ DOMAIN mem'.heap = DOMAIN mem.heap
  BY <1>1, <1>2, <1>4, <1>5, <1>6, RewrittenLemma
<1>8. Contents' = [Contents EXCEPT ![index + 1] = e]
  BY <1>1, <1>4, <1>7, NextValues
<1>9. ReplacedAt("Set", index, Meant(element), Contents, Contents')
  BY <1>1, <1>4, <1>5, <1>8 DEF ReplacedAt, Live, elementType
<1>10. released' \in [Elements -> Nat]
  BY <1>1, <1>2, <1>4, OneDestroyed DEF Inv
<1>11. caller' \subseteq Elements
  BY <1>4 DEF Inv, HandedOver
<1>12. Accounts'
  BY <1>1, <1>9, ReplacedAccounted DEF Inv, Accounts
<1>13. Inv'
  <2>1. Sound(mem', storage', Chain)
    BY <1>4, <1>7
  <2>2. /\ super' \in ADT_Super_t(0 .. SizeMax)
        /\ super'.size = Len(Chain)
        /\ super'.vtable # NULL => super'.elementType.elementSize > 0
        /\ super'.vtable = NULL => super' = ZeroSuper
    BY <1>4 DEF Inv, Consistent
  <2>3. QED
    BY <1>10, <1>11, <1>12, <2>1, <2>2, NextInv
<1>14. Steady
  <2>1. \A n \in DOMAIN mem.nodes : mem.nodes[n].data \in DOMAIN mem.heap
    BY <1>1, HeldLemma
  <2>2. result'.op = "Set"
    BY <1>4 DEF Called
  <2>3. QED
    BY <1>7, <2>1, <2>2 DEF Steady
<1>15. Atomic
  BY <1>4 DEF Atomic, Called
<1>16. QED
  BY <1>9, <1>13, <1>14, <1>15 DEF Safe

LEMMA SizeLemma ==
    ASSUME Inv
    PROVE  /\ size \in 0 .. SizeMax /\ size \in Nat /\ SizeMax \in Nat
           /\ Contents \in Seq(Elements) /\ Len(Contents) = size
           /\ \A index \in Nat : List!Has(index) <=> index < size
           /\ Indices \subseteq Nat /\ Indices \subseteq List!Indices
           /\ 0 \in Indices
<1>1. SizeMax \in Nat /\ size \in 0 .. SizeMax
  BY MemoryAssumption, InvLemma
<1>2. Contents \in Seq(Elements) /\ Len(Contents) = size
  BY InvLemma
<1>3. QED
  BY <1>1, <1>2 DEF List!Has, Indices, List!Indices

\* What every step does.
Kept == Safe /\ List!Next

LEMMA KeptCreate ==
    ASSUME NEW type \in ElementTypes, NEW op, NEW count \in 0 .. SizeMax, Safe,
           (op = "Init" /\ count = 0) \/ op = "InitFrom",
           \/ ~ Live /\ Declined(op, count, NULL, Contents, Contents')
           \/ Created(op, type, Contents, Contents') /\ Len(Contents') = count
    PROVE  Kept
<1>1. CASE ~ Live /\ Declined(op, count, NULL, Contents, Contents')
  <2>1. List!Fails(op, count, NULL)
    BY <1>1, DeclinedFails
  <2>2. count \in List!Indices
    BY MemoryAssumption DEF List!Indices
  <2>3. List!CannotInitialize
    BY <1>1, <2>1, <2>2 DEF List!CannotInitialize
  <2>4. QED
    BY <2>3 DEF Kept, List!Next, List!Common
<1>2. CASE Created(op, type, Contents, Contents') /\ Len(Contents') = count
  BY <1>2, StepInitialize DEF Kept, List!Next, List!Common
<1>3. QED
  BY <1>1, <1>2

LEMMA KeptInit ==
    ASSUME Inv, NEW type \in ElementTypes, ll_Init(type)
    PROVE  Kept
<1>1. 0 \in 0 .. SizeMax
  BY MemoryAssumption
<1>2. /\ Safe
      /\ \/ ~ Live /\ Declined("Init", 0, NULL, Contents, Contents')
         \/ Created("Init", type, Contents, Contents') /\ Len(Contents') = 0
  BY CreateEmptyInv DEF ll_Init, VTables
<1>3. QED
  BY <1>1, <1>2, KeptCreate

LEMMA KeptInitFromNull ==
    ASSUME Inv, NEW type \in ElementTypes, ll_InitFrom(NULL, 1, type)
    PROVE  Kept
<1>1. 1 \in 0 .. SizeMax
  BY MemoryAssumption
<1>2. /\ Safe
      /\ \/ ~ Live /\ Declined("InitFrom", 1, NULL, Contents, Contents')
         \/ Created("InitFrom", type, Contents, Contents') /\ Len(Contents') = 1
  <2> DEFINE taken == {NULL[i] : i \in 1 .. 1}
  <2>1. Create("InitFrom", "LINKED_LIST_VTABLE", 1, taken, type,
               linkedStorage_InitFrom(mem, storage, NULL, 1, type.elementSize))
    BY DEF ll_InitFrom
  <2> HIDE DEF taken
  <2>2. "LINKED_LIST_VTABLE" \in VTables /\ 1 # 0
    BY DEF VTables
  <2>3. QED
    BY <1>1, <2>1, <2>2, CreateFromInv
<1>3. QED
  BY <1>1, <1>2, KeptCreate

LEMMA KeptInitFrom ==
    ASSUME Inv, NEW type \in ElementTypes, NEW n \in 0 .. MaxInitial,
           NEW s \in [1 .. n -> Elements], OfferedArray(type, s), ll_InitFrom(s, n, type)
    PROVE  Kept
<1>1. n \in 0 .. SizeMax /\ n \in Nat
  BY MaxInitialAssumption, MemoryAssumption
<1>2. s \in Seq(Elements) /\ Len(s) = n /\ DOMAIN s = 1 .. n
  BY <1>1, FunctionSeq
<1>3. /\ Safe
      /\ \/ ~ Live /\ Declined("InitFrom", n, NULL, Contents, Contents')
         \/ Created("InitFrom", type, Contents, Contents') /\ Len(Contents') = n
  <2> DEFINE taken == {s[i] : i \in 1 .. n}
  <2>1. taken = {s[i] : i \in DOMAIN s}
    BY <1>2
  <2>2. Create("InitFrom", "LINKED_LIST_VTABLE", n, taken, type,
               linkedStorage_InitFrom(mem, storage, s, n, type.elementSize))
    BY DEF ll_InitFrom
  <2> HIDE DEF taken
  <2>3. QED
    BY <1>1, <1>2, <2>1, <2>2, CreateFromInv DEF VTables
<1>4. QED
  BY <1>1, <1>3, KeptCreate

LEMMA StorableLemma ==
    ASSUME Inv, NEW element \in Sources
    PROVE  /\ Meant(element) \in List!Storable
           /\ Meant(element) = NULL <=> element = NULL
BY SourceLemma, SharedOperators DEF List!Storable

LEMMA KeptStore ==
    ASSUME Inv, Safe, NEW element \in Sources, NEW index \in Nat, NEW op,
           \/ Declined(op, index, Meant(element), Contents, Contents')
           \/ StoredAt(op, index, Meant(element), Contents, Contents'),
           \/ op = "Insert" /\ index \in Indices
           \/ op = "Prepend" /\ index = 0
           \/ op = "Append" /\ index = size
    PROVE  Kept
<1>1. List!Store(op, index, Meant(element))
  BY StepStore
<1>2. Meant(element) \in List!Storable
  BY StorableLemma
<1>3. index \in Indices => index \in List!Indices
  BY SizeLemma
<1>4. QED
  BY <1>1, <1>2, <1>3, SizeLemma DEF Kept, List!Next

LEMMA KeptInsertion ==
    ASSUME Inv, NEW element \in Sources, NEW index \in Nat, NEW op,
           InsertInStorage(op, index, element),
           \/ op = "Insert" /\ index \in Indices
           \/ op = "Prepend" /\ index = 0
    PROVE  Kept
BY InsertInv, KeptStore DEF InsertInStorage

LEMMA KeptAppend ==
    ASSUME Inv, NEW element \in Sources, ll_detail_AppendRef(element)
    PROVE  Kept
BY AppendInv, KeptStore, SizeLemma DEF ll_detail_AppendRef

LEMMA KeptSet ==
    ASSUME Inv, NEW index \in Indices, NEW element \in Sources \cup OwnSlot(index),
           ll_detail_SetRef(index, element)
    PROVE  Kept
<1>0. /\ index \in Nat /\ index \in List!Indices /\ size \in Nat
      /\ ElementAt(index) = NULL <=> ~ (index < size)
      /\ index < size => CellAt(index) = Contents[index + 1]
  BY SizeLemma, CellLemma
<1>1. CASE element = NULL \/ ElementAt(index) = NULL
  <2>1. element \in Sources
    BY <1>0, <1>1 DEF OwnSlot, Sources, SourcesAmong
  <2>2. Safe /\ Declined("Set", index, Meant(element), Contents, Contents')
    BY <1>1, FailInv DEF ll_detail_SetRef
  <2>3. List!Fails("Set", index, Meant(element))
    BY <2>2, DeclinedFails
  <2>4. ~ (List!Has(index) /\ Meant(element) # NULL)
    BY <1>0, <1>1, <2>1, SizeLemma, StorableLemma
  <2>5. List!Set(index, Meant(element))
    BY <2>3, <2>4 DEF List!Set
  <2>6. QED
    BY <1>0, <2>1, <2>2, <2>5, StorableLemma DEF Kept, List!Next
<1>2. CASE ~ (element = NULL \/ ElementAt(index) = NULL) /\ ElementAt(index) = element
  <2>1. /\ UNCHANGED <<container, caller, released>>
        /\ result' = Called("Set", index, Meant(element), TRUE, NoOutput)
    BY <1>2 DEF ll_detail_SetRef, Succeed
  <2>2. Safe /\ Idle(Contents, Contents')
    BY <2>1, UnchangedInv
  <2>3. /\ index \in 0 .. size - 1 /\ index + 1 \in 1 .. size
        /\ (index + 1) - 1 = index
    BY <1>0, <1>2
  <2>4. Meant(element) = Contents[index + 1]
    BY <1>0, <1>2 DEF Meant, MeantIn, CellAt
  <2>5. Meant(element) \in Elements /\ Meant(element) # NULL /\ Meant(element) \in List!Storable
    <3>1. DOMAIN Contents = 1 .. size /\ Contents[index + 1] \in Elements
      BY <2>3, SizeLemma
    <3>2. List!ToSet(Contents) = {Contents[i] : i \in DOMAIN Contents}
      BY SizeLemma, SharedSequences
    <3>3. QED
      BY <2>3, <2>4, <3>1, <3>2, ElementTypeAssumption DEF List!Storable
  <2>6. List!Succeeds("Set", index, Meant(element), List!NoOutput)
    BY <2>1, CalledSucceeds, SharedOperators
  <2>7. List!Has(index)
    BY <1>0, <1>2, SizeLemma
  <2>8. List!Set(index, Meant(element))
    BY <2>2, <2>4, <2>5, <2>6, <2>7 DEF List!Set, List!ElementAt, Idle
  <2>9. QED
    BY <1>0, <2>2, <2>5, <2>8 DEF Kept, List!Next
<1>3. CASE ~ (element = NULL \/ ElementAt(index) = NULL) /\ ElementAt(index) # element
  <2>1. Overwrite(index, element)
    BY <1>3 DEF ll_detail_SetRef
  <2>2. index \in 0 .. size - 1 /\ element # NULL
    BY <1>0, <1>3
  <2>3. element \in Sources
    BY <1>3 DEF OwnSlot
  <2>4. Safe /\ ReplacedAt("Set", index, Meant(element), Contents, Contents')
    BY <2>1, <2>2, <2>3, OverwriteInv
  <2>5. List!Set(index, Meant(element))
    BY <2>4, StepReplace
  <2>6. QED
    BY <1>0, <2>3, <2>4, <2>5, StorableLemma DEF Kept, List!Next
<1>4. QED
  BY <1>1, <1>2, <1>3

LEMMA KeptGet ==
    ASSUME Inv, NEW index \in Indices, NEW outElement \in {NULL, CallerVariable},
           ll_Get(index, outElement)
    PROVE  Kept
<1>0. /\ Usable(outElement) \in {"usable", "unusable"}
      /\ Usable(outElement) = "usable" <=> outElement # NULL
      /\ index \in Nat /\ index \in List!Indices /\ size \in Nat
      /\ List!Has(index) <=> index < size
      /\ ElementAt(index) = NULL <=> ~ (index < size)
      /\ index < size => CellAt(index) = Contents[index + 1]
  BY CallerOutput, SizeLemma, CellLemma DEF Usable
<1>1. CASE outElement = NULL \/ ElementAt(index) = NULL
  <2>1. Safe /\ Declined("Get", index, Usable(outElement), Contents, Contents')
    BY <1>1, FailInv DEF ll_Get
  <2>2. List!Get(index, Usable(outElement))
    BY <1>0, <1>1, <2>1, DeclinedFails DEF List!Get
  <2>3. QED
    BY <1>0, <2>1, <2>2 DEF Kept, List!Next
<1>2. CASE ~ (outElement = NULL \/ ElementAt(index) = NULL)
  <2>1. /\ UNCHANGED <<container, caller, released>>
        /\ result' = Called("Get", index, Usable(outElement), TRUE, CellAt(index))
    BY <1>2 DEF ll_Get, Succeed
  <2>2. Safe /\ Idle(Contents, Contents')
    BY <2>1, UnchangedInv
  <2>3. index \in 0 .. size - 1 /\ index + 1 \in 1 .. size /\ (index + 1) - 1 = index
    BY <1>0, <1>2
  <2>4. CellAt(index) = Contents[index + 1]
    BY <1>0, <1>2
  <2>5. ReadFrom("Get", index, Usable(outElement), Contents, Contents')
    BY <2>1, <2>2, <2>3, <2>4, SizeLemma DEF ReadFrom
  <2>6. List!Get(index, Usable(outElement))
    BY <1>0, <1>2, <2>5, StepRead DEF List!Get
  <2>7. QED
    BY <1>0, <2>2, <2>6 DEF Kept, List!Next
<1>3. QED
  BY <1>1, <1>2

LEMMA KeptTake ==
    ASSUME Inv, NEW index \in Indices, NEW outElement \in Outputs, ll_Take(index, outElement)
    PROVE  Kept
<1> DEFINE refuses ==
              \/ outElement = NULL
              \/ linkedStorage_ContainsAddress(mem, storage, outElement, elementSize)
              \/ ElementAt(index) = NULL
<1>0. /\ index \in Nat /\ index \in List!Indices /\ size \in Nat
      /\ List!Has(index) <=> index < size
      /\ ElementAt(index) = NULL <=> ~ (index < size)
      /\ index < size => CellAt(index) = Contents[index + 1]
  BY SizeLemma, CellLemma
<1>1. Usable(outElement) \in {"usable", "unusable"}
  BY DEF Usable
<1>2. refuses <=> ~ (index < size /\ Usable(outElement) = "usable")
  <2>1. CASE index < size
    <3>1. elementSize # 0
      BY <1>0, <2>1, HeaderLemma
    <3>2. QED
      BY <1>0, <2>1, <3>1, OutputLemma, CallerOutput
  <2>2. CASE ~ (index < size)
    BY <1>0, <2>2
  <2>3. QED
    BY <2>1, <2>2
<1>3. CASE refuses
  <2>1. Safe /\ Declined("Take", index, Usable(outElement), Contents, Contents')
    BY <1>3, FailInv DEF ll_Take
  <2>2. List!Take(index, Usable(outElement))
    BY <1>0, <1>2, <1>3, <2>1, DeclinedFails DEF List!Take
  <2>3. QED
    BY <1>0, <1>1, <2>1, <2>2 DEF Kept, List!Next
<1>4. CASE ~ refuses
  <2>1. TakeAtIndex("Take", index, CellAt(index), outElement)
    BY <1>4 DEF ll_Take
  <2>2. index \in 0 .. size - 1 /\ CellAt(index) = Contents[index + 1]
    BY <1>0, <1>2, <1>4
  <2>3. Safe /\ TakenFrom("Take", index, Usable(outElement), Contents, Contents')
    BY <2>1, <2>2, TakeInv
  <2>4. List!Take(index, Usable(outElement))
    BY <1>0, <1>2, <1>4, <2>3, StepTransfer DEF List!Take
  <2>5. QED
    BY <1>0, <1>1, <2>3, <2>4 DEF Kept, List!Next
<1>5. QED
  BY <1>3, <1>4

LEMMA KeptRemove ==
    ASSUME Inv, NEW index \in Indices, ll_Remove(index)
    PROVE  Kept
<1>0. /\ index \in Nat /\ index \in List!Indices /\ size \in Nat
      /\ List!Has(index) <=> index < size
      /\ ElementAt(index) = NULL <=> ~ (index < size)
      /\ index < size => CellAt(index) = Contents[index + 1]
  BY SizeLemma, CellLemma
<1>1. CASE ElementAt(index) = NULL
  <2>1. Safe /\ Declined("Remove", index, NULL, Contents, Contents')
    BY <1>1, FailInv DEF ll_Remove
  <2>2. List!Discard(index)
    BY <1>0, <1>1, <2>1, DeclinedFails DEF List!Discard
  <2>3. QED
    BY <1>0, <2>1, <2>2 DEF Kept, List!Next
<1>2. CASE ElementAt(index) # NULL
  <2>1. RemoveAtIndex("Remove", index, CellAt(index))
    BY <1>2 DEF ll_Remove
  <2>2. index \in 0 .. size - 1 /\ CellAt(index) = Contents[index + 1]
    BY <1>0, <1>2
  <2>3. Safe /\ DeletedFrom("Remove", index, Contents, Contents')
    BY <2>1, <2>2, RemoveInv
  <2>4. List!Discard(index)
    BY <2>3, StepDelete DEF List!Discard
  <2>5. QED
    BY <1>0, <2>3, <2>4 DEF Kept, List!Next
<1>3. QED
  BY <1>1, <1>2

\* Where the search loop stops (positions count from 1) is where the abstract
\* list finds the element (indices count from 0).
LEMMA FoundLemma ==
    ASSUME Inv, NEW e
    PROVE  /\ e = NULL => List!Found(e) = {}
           /\ e # NULL => \A i \in Int : i \in MatchesOf(e) <=> i - 1 \in List!Found(e)
           /\ MatchesOf(e) \subseteq 1 .. size /\ List!Found(e) \subseteq 0 .. size - 1
           /\ elementSize = 0 => MatchesOf(e) = {} /\ List!Found(e) = {}
<1>0. /\ size \in Nat /\ size = Len(Chain)
      /\ \A i : i \in 0 .. size - 1 <=> i \in List!Indices /\ List!Has(i)
      /\ DOMAIN Chain = 1 .. size
  <2>1. \A i : i \in 0 .. size - 1 <=> i \in List!Indices /\ List!Has(i)
    BY SizeLemma DEF List!Indices
  <2>2. DOMAIN Chain = 1 .. Len(Chain)
    BY InvLemma, ChainType
  <2>3. QED
    BY <2>1, <2>2, InvLemma
<1>1. \A i \in 1 .. size :
         Matches(elementType, CellOf(Chain[i]), e) <=> List!Equivalent(List!ElementAt(i - 1), e)
  <2>1. TAKE i \in 1 .. size
  <2>2. i - 1 \in Nat /\ i - 1 < size /\ (i - 1) + 1 = i
    BY <1>0
  <2>3. ElementAt(i - 1) = ElementOf(Chain[i]) /\ CellAt(i - 1) = Contents[i]
    BY <2>2, CellLemma
  <2>4. CellOf(Chain[i]) = List!ElementAt(i - 1)
    BY <2>2, <2>3 DEF CellOf, CellAt, List!ElementAt
  <2>5. QED
    BY <2>4 DEF Matches, List!Equivalent
<1>2. MatchesOf(e) \subseteq 1 .. size /\ List!Found(e) \subseteq 0 .. size - 1
  BY <1>0 DEF MatchesOf, List!Found
<1>3. ASSUME e # NULL, NEW i \in Int
      PROVE  i \in MatchesOf(e) <=> i - 1 \in List!Found(e)
  <2>1. i \in 1 .. size <=> i - 1 \in 0 .. size - 1
    BY <1>0
  <2>2. i \in MatchesOf(e) <=>
           i \in 1 .. size /\ Matches(elementType, CellOf(Chain[i]), e)
    BY <1>0 DEF MatchesOf
  <2>3. i - 1 \in List!Found(e) <=>
           i - 1 \in 0 .. size - 1 /\ List!Equivalent(List!ElementAt(i - 1), e)
    BY <1>0, <1>3 DEF List!Found
  <2>4. QED
    BY <1>1, <2>1, <2>2, <2>3
<1>4. elementSize = 0 => size = 0
  BY HeaderLemma
<1>5. e = NULL => List!Found(e) = {}
  BY DEF List!Found
<1>6. QED
  BY <1>0, <1>2, <1>3, <1>4, <1>5

LEMMA NotFound ==
    ASSUME Inv, NEW e
    PROVE  e = NULL \/ elementSize = 0 \/ MatchesOf(e) = {} <=> List!Found(e) = {}
<1>1. ASSUME e # NULL, NEW i \in MatchesOf(e)
      PROVE  i - 1 \in List!Found(e)
  BY <1>1, FoundLemma, SizeLemma
<1>2. ASSUME e # NULL, NEW i \in List!Found(e)
      PROVE  i + 1 \in MatchesOf(e)
  <2>1. i \in 0 .. size - 1 /\ size \in Nat
    BY FoundLemma, SizeLemma
  <2>2. i + 1 \in Int /\ (i + 1) - 1 = i
    BY <2>1
  <2>3. QED
    BY <1>2, <2>2, FoundLemma
<1>3. QED
  BY <1>1, <1>2, FoundLemma

LEMMA KeptIndexOf ==
    ASSUME Inv, NEW e \in Elements \cup {NULL}, ll_detail_IndexOfRef(e)
    PROVE  Kept
<1>1. CASE e = NULL \/ elementSize = 0 \/ MatchesOf(e) = {}
  <2>1. Safe /\ Declined("IndexOf", 0, e, Contents, Contents')
    BY <1>1, FailInv DEF ll_detail_IndexOfRef
  <2>2. List!IndexOf(e)
    BY <1>1, <2>1, DeclinedFails, NotFound DEF List!IndexOf
  <2>3. QED
    BY <2>1, <2>2 DEF Kept, List!Next
<1>2. CASE ~ (e = NULL \/ elementSize = 0 \/ MatchesOf(e) = {})
  <2>1. PICK i \in MatchesOf(e) :
           /\ \A j \in MatchesOf(e) : i <= j
           /\ Succeed("IndexOf", 0, e, i - 1)
           /\ UNCHANGED <<container, caller, released>>
    BY <1>2 DEF ll_detail_IndexOfRef
  <2>2. Safe /\ Idle(Contents, Contents')
    BY <2>1, UnchangedInv
  <2>3. List!Succeeds("IndexOf", 0, e, i - 1) /\ result'.out = i - 1
    BY <2>1, CalledSucceeds DEF Succeed, Called
  <2>4. i \in 1 .. size /\ size \in Nat
    BY FoundLemma, SizeLemma
  <2>5. i - 1 \in List!Found(e)
    BY <1>2, <2>4, FoundLemma
  <2>6. \A j \in List!Found(e) : i - 1 <= j
    <3>1. TAKE j \in List!Found(e)
    <3>2. j \in 0 .. size - 1
      BY FoundLemma
    <3>3. j + 1 \in Int /\ (j + 1) - 1 = j
      BY <2>4, <3>2
    <3>4. j + 1 \in MatchesOf(e)
      BY <1>2, <3>3, FoundLemma
    <3>5. i <= j + 1
      BY <2>1, <3>4
    <3>6. QED
      BY <2>4, <3>2, <3>5
  <2>7. List!IndexOf(e)
    BY <2>2, <2>3, <2>5, <2>6 DEF List!IndexOf, Idle, List!sequence
  <2>8. QED
    BY <2>2, <2>7 DEF Kept, List!Next
<1>3. QED
  BY <1>1, <1>2

LEMMA KeptContains ==
    ASSUME Inv, NEW e \in Elements \cup {NULL}, ll_detail_ContainsRef(e)
    PROVE  Kept
<1>1. Safe /\ Idle(Contents, Contents')
  BY UnchangedInv DEF ll_detail_ContainsRef
<1>2. CASE e = NULL \/ elementSize = 0 \/ MatchesOf(e) = {}
  <2>1. Declined("Contains", 0, e, Contents, Contents')
    BY <1>1, <1>2 DEF ll_detail_ContainsRef, Declined
  <2>2. List!IsIn(e)
    BY <1>2, <2>1, DeclinedFails, NotFound DEF List!IsIn
  <2>3. QED
    BY <1>1, <2>2 DEF Kept, List!Next
<1>3. CASE ~ (e = NULL \/ elementSize = 0 \/ MatchesOf(e) = {})
  <2>1. List!Succeeds("Contains", 0, e, List!NoOutput)
    BY <1>3, CalledSucceeds, SharedOperators DEF ll_detail_ContainsRef
  <2>2. List!IsIn(e)
    BY <1>1, <1>3, <2>1, NotFound DEF List!IsIn, Idle, List!sequence
  <2>3. QED
    BY <1>1, <2>2 DEF Kept, List!Next
<1>4. QED
  BY <1>2, <1>3

\* Every step keeps the invariant, changes nothing if it returns false, and is
\* a step of the abstract list.
LEMMA NextKept ==
    ASSUME Inv, Next
    PROVE  Kept
<1>1. CASE ll_Clear
  BY <1>1, EmptyInv, StepVacated DEF ll_Clear, Kept, List!Next, List!Common
<1>2. CASE ll_Destroy
  BY <1>2, TearDownInv, StepVacated DEF ll_Destroy, Kept, List!Next, List!Common
<1>3. ASSUME NEW e \in Elements, Acquire(e), UNCHANGED container
      PROVE  Kept
  BY <1>3, AcquireInv, StepAcquire DEF Kept, List!Next
<1>4. ASSUME NEW element \in Sources, NEW index \in Indices,
             ll_detail_InsertRef(index, element)
      PROVE  Kept
  <2>1. index \in Nat
    BY SizeLemma
  <2>2. InsertInStorage("Insert", index, element)
    BY <1>4 DEF ll_detail_InsertRef
  <2>3. QED
    BY <2>1, <2>2, KeptInsertion
<1>5. ASSUME NEW element \in Sources, ll_detail_PrependRef(element)
      PROVE  Kept
  BY <1>5, KeptInsertion DEF ll_detail_PrependRef
<1>6. QED
  BY <1>1, <1>2, <1>3, <1>4, <1>5, KeptInit, KeptAppend, KeptInitFromNull, KeptInitFrom,
     KeptSet, KeptGet, KeptTake, KeptRemove, KeptIndexOf, KeptContains
  DEF Next

LEMMA StutterKept ==
    ASSUME Inv, UNCHANGED vars
    PROVE  Inv' /\ UNCHANGED List!vars
<1>1. Safe /\ Idle(Contents, Contents')
  BY UnchangedInv DEF vars, container, ownership
<1>2. UNCHANGED List!vars
  BY <1>1 DEF Idle, List!vars, List!ownership, List!sequence, vars, ownership
<1>3. QED
  BY <1>1, <1>2 DEF Safe

LEMMA InitialList == Init => List!Init
<1> SUFFICES ASSUME Init
             PROVE  List!Init
  OBVIOUS
<1>1. /\ super = ZeroSuper /\ result = Called("none", 0, NULL, TRUE, NoOutput)
      /\ caller = Elements /\ released = [e \in Elements |-> 0]
  BY DEF Init, OwnershipInit
<1>2. ~ Live /\ elementType = ZeroType /\ size = 0
  BY <1>1 DEF Live, elementType, size, ZeroSuper
<1>3. Contents = <<>>
  BY InitInv
<1>4. List!OwnershipInit
  BY <1>1, SharedOperators DEF List!OwnershipInit
<1>5. QED
  BY <1>2, <1>3, <1>4, SharedOperators DEF List!Init

-----------------------------------------------------------------------------
\* The invariant holds in every state LinkedList_t can be in.
THEOREM Invariance == Spec => []Inv
<1>1. Init => Inv
  BY InitInv
<1>2. Inv /\ [Next]_vars => Inv'
  BY NextKept, StutterKept DEF Kept, Safe
<1>3. QED
  BY <1>1, <1>2, PTL DEF Spec

\* LinkedList_t is well-typed: no size leaves the range of size_t, every link is
\* NULL or a node, every node has an element block (linked_storage.h,
\* abstract_data_type.h:70-78).
THEOREM TypeSafety == Spec => []TypeOK
<1>1. Inv => TypeOK
  BY InvImplies
<1>2. QED
  BY <1>1, Invariance, PTL

\* However many nodes were spliced in and cut out, and whatever allocation
\* failed in between, the links from head and those from tail visit the same
\* size nodes in opposite orders, so every loop ends and every index is reached
\* from either end (linked_storage.c:14-29).
THEOREM LinkSafety == Spec => []WellLinked
<1>1. Inv => WellLinked
  BY InvImplies
<1>2. QED
  BY <1>1, Invariance, PTL

\* Every node that is allocated is on the chain and every block that is
\* allocated the element of one node, after any sequence of calls, those that
\* fail half-way included (linked_storage.c:38-61, 96-125, 139-247).
THEOREM LeakFreedom == Spec => []NothingLeaks
<1>1. Inv => NothingLeaks
  BY InvImplies
<1>2. QED
  BY <1>1, Invariance, PTL

\* While the elements own something, the resource of each has one owner: the
\* caller, one node of the list, or nobody because it was released, once
\* (docs/ownership.md:72-83).
THEOREM OwnershipSafety == Spec => []OwnedOnce
<1>1. Inv => OwnedOnce
  BY InvImplies
<1>2. QED
  BY <1>1, Invariance, PTL

\* A call that returns false has changed nothing: not the list, not a link, not
\* what is allocated, not the owner of an element (docs/ownership.md:83,
\* docs/storage.md:40-44).
THEOREM FailureAtomicity == Spec => FailureChangesNothing
<1>1. Inv /\ [Next]_vars => [~ result'.ok => UNCHANGED <<container, caller, released>>]_vars
  BY NextKept DEF Kept, Safe, Atomic
<1>2. QED
  BY <1>1, Invariance, PTL DEF Spec, FailureChangesNothing

\* A node that a call leaves on the chain keeps its element block, and only Set
\* writes to it: a pointer to an element stays valid while its node lives
\* (docs/storage.md:59).
THEOREM ElementStability == Spec => ElementsStay
<1>1. Inv /\ [Next]_vars =>
         [\A n \in DOMAIN mem.nodes \cap DOMAIN mem'.nodes :
             LET block == mem.nodes[n].data
             IN  /\ mem'.nodes[n].data = block
                 /\ block \in DOMAIN mem'.heap
                 /\ mem'.heap[block] # mem.heap[block] => result'.op = "Set"]_vars
  BY NextKept DEF Kept, Safe, Steady
<1>2. QED
  BY <1>1, Invariance, PTL DEF Spec, ElementsStay

\* LinkedList_t implements the abstract list: whichever end an index is walked
\* to from, whatever allocation fails and whatever alias a source is, the
\* elements stay in the order of the calls, what is read, taken or found is the
\* element at that index, and only the calls that may fail do
\* (linked_list.c, linked_storage.c, docs/linked_list.md).
THEOREM Refinement == Spec => ImplementsList
<1>1. Init => List!Init
  BY InitialList
<1>2. Inv /\ [Next]_vars => [List!Next]_List!vars
  BY NextKept, StutterKept DEF Kept
<1>3. QED
  BY <1>1, <1>2, Invariance, PTL DEF Spec, ImplementsList, List!Spec
=============================================================================
