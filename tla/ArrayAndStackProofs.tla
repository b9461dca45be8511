------------------------ MODULE ArrayAndStackProofs -------------------------
(***************************************************************************)
(* DynamicArray_t and Stack_t keep the invariant that                      *)
(* ContiguousContainerProofs has for both, for every set of elements and   *)
(* blocks, every SIZE_MAX and every initial capacity, and each of their    *)
(* calls is a step of the list, or of the stack, that ListADT and StackADT *)
(* describe.                                                               *)
(***************************************************************************)
EXTENDS DynamicArray, Stack, ContiguousContainerProofs

-----------------------------------------------------------------------------
(* The effects of OwnershipProofs, as steps of the abstract list.         *)

\* What DynamicArray and ListADT both take from Ownership means the same in both.
LEMMA ArraySharedOperators ==
    /\ \A op, index, arg, ok, out :
          List!Called(op, index, arg, ok, out) = Called(op, index, arg, ok, out)
    /\ List!NoOutput = NULL /\ NoOutput = NULL
    /\ List!ZeroType = ZeroType
    /\ \A type : List!Offered(type) = Offered(type)
    /\ \A type, s : List!OfferedArray(type, s) <=> OfferedArray(type, s)
    /\ \A type, S : List!HandedOver(type, S) = HandedOver(type, S)
    /\ \A type, e : List!HandedBack(type, e) = HandedBack(type, e)
<1>1. \A type : List!Offered(type) = Offered(type)
  BY DEF List!Offered, Offered
<1>2. \A type, s : List!OfferedArray(type, s) <=> OfferedArray(type, s)
  BY DEF List!OfferedArray, OfferedArray, List!Offered, Offered
<1>3. QED
  BY <1>1, <1>2
  DEF List!Called, Called, List!NoOutput, NoOutput, List!ZeroType, ZeroType,
      List!HandedOver, HandedOver, List!HandedBack, HandedBack

LEMMA ArraySharedDestroyed == \A type, s : List!Destroyed(type, s) = Destroyed(type, s)
<1>1. \A S : List!Cardinality(S) = Cardinality(S)
  BY DEF List!Cardinality, Cardinality
<1>2. QED
  BY <1>1 DEF List!Destroyed, Destroyed

LEMMA ArraySharedSequences ==
    ASSUME NEW s \in Seq(Elements)
    PROVE  /\ \A position \in 1 .. Len(s) : List!RemoveAt(s, position) = Removed(s, position)
           /\ \A position \in 1 .. Len(s) + 1, e \in Elements :
                 List!InsertAt(s, position, e) = Inserted(s, position, e)
           /\ List!ToSet(s) = {s[i] : i \in DOMAIN s}
<1>1. \A position \in 1 .. Len(s) : List!RemoveAt(s, position) = Removed(s, position)
  BY RemoveAtLemma DEF List!RemoveAt
<1>2. \A position \in 1 .. Len(s) + 1, e \in Elements :
         List!InsertAt(s, position, e) = Inserted(s, position, e)
  BY InsertAtLemma DEF List!InsertAt
<1>3. QED
  BY <1>1, <1>2 DEF List!ToSet

LEMMA ArrayCalledSucceeds ==
    ASSUME NEW op, NEW index, NEW arg, NEW out, result' = Called(op, index, arg, TRUE, out)
    PROVE  List!Succeeds(op, index, arg, out)
BY ArraySharedOperators DEF List!Succeeds, List!Call, Called

LEMMA ArrayDeclinedFails ==
    ASSUME NEW op, NEW index, NEW arg, Declined(op, index, arg, Contents, Contents')
    PROVE  List!Fails(op, index, arg)
BY ArraySharedOperators
DEF List!Fails, List!Call, Called, Declined, Idle, List!sequence

LEMMA ArrayStepInitialize ==
    ASSUME NEW op, NEW type, Created(op, type, Contents, Contents'),
           \/ op = "Init" /\ Len(Contents') = 0
           \/ op = "InitFrom"
    PROVE  List!Initialize(type)
<1>1. List!Succeeds(op, Len(Contents'), NULL, NoOutput)
  BY ArrayCalledSucceeds DEF Created
<1>2. List!ToSet(Contents') = {Contents'[i] : i \in DOMAIN Contents'}
  BY ArraySharedSequences DEF Created
<1>3. op = "Init" => Contents' = <<>>
  BY EmptySeq DEF Created
<1>4. QED
  BY <1>1, <1>2, <1>3, ArraySharedOperators DEF List!Initialize, Created

LEMMA ArrayStepStore ==
    ASSUME Inv, NEW op, NEW index, NEW e,
           \/ Declined(op, index, e, Contents, Contents')
           \/ StoredAt(op, index, e, Contents, Contents')
    PROVE  List!Store(op, index, e)
<1>1. CASE Declined(op, index, e, Contents, Contents')
  BY <1>1, ArrayDeclinedFails DEF List!Store
<1>2. CASE StoredAt(op, index, e, Contents, Contents')
  <2>1. Contents \in Seq(Elements)
    BY ContentsValues DEF Inv
  <2>2. e \in Elements /\ e # NULL
    BY <1>2, ElementTypeAssumption DEF StoredAt, Offered, Inv
  <2>3. index + 1 \in 1 .. Len(Contents) + 1 /\ index <= Len(Contents)
    BY <1>2, <2>1 DEF StoredAt
  <2>4. List!InsertAt(Contents, index + 1, e) = Inserted(Contents, index + 1, e)
    BY <2>1, <2>2, <2>3, ArraySharedSequences
  <2>5. List!Succeeds(op, index, e, List!NoOutput)
    BY <1>2, ArrayCalledSucceeds, ArraySharedOperators DEF StoredAt
  <2>6. QED
    BY <1>2, <2>2, <2>3, <2>4, <2>5, ArraySharedOperators DEF List!Store, StoredAt
<1>3. QED
  BY <1>1, <1>2

LEMMA ArrayStepRead ==
    ASSUME Inv, NEW op, NEW index, NEW arg, ReadFrom(op, index, arg, Contents, Contents')
    PROVE  List!Read(op, index + 1, arg)
<1>1. Contents \in Seq(Elements)
  BY ContentsValues DEF Inv
<1>2. index + 1 \in DOMAIN Contents /\ (index + 1) - 1 = index
  BY <1>1 DEF ReadFrom
<1>3. List!Succeeds(op, index, arg, Contents[index + 1])
  BY ArrayCalledSucceeds DEF ReadFrom
<1>4. QED
  BY <1>2, <1>3
  DEF List!Read, List!At, List!Succeeds, ReadFrom, Idle, List!sequence

LEMMA ArrayStepTransfer ==
    ASSUME Inv, NEW op, NEW index, NEW arg, TakenFrom(op, index, arg, Contents, Contents')
    PROVE  List!Transfer(op, index + 1, arg)
<1>1. Contents \in Seq(Elements)
  BY ContentsValues DEF Inv
<1>2. index + 1 \in DOMAIN Contents /\ (index + 1) - 1 = index
  BY <1>1 DEF TakenFrom
<1>3. List!Succeeds(op, index, arg, Contents[index + 1])
  BY ArrayCalledSucceeds DEF TakenFrom
<1>4. List!RemoveAt(Contents, index + 1) = Removed(Contents, index + 1)
  BY <1>1, <1>2, ArraySharedSequences
<1>5. QED
  BY <1>2, <1>3, <1>4, ArraySharedOperators
  DEF List!Transfer, List!At, List!Succeeds, TakenFrom

LEMMA ArrayStepDelete ==
    ASSUME Inv, NEW op, NEW index, DeletedFrom(op, index, Contents, Contents')
    PROVE  List!Delete(op, index + 1)
<1>1. Contents \in Seq(Elements)
  BY ContentsValues DEF Inv
<1>2. index + 1 \in DOMAIN Contents /\ (index + 1) - 1 = index
  BY <1>1 DEF DeletedFrom
<1>3. List!Succeeds(op, index, NULL, List!NoOutput)
  BY ArrayCalledSucceeds, ArraySharedOperators DEF DeletedFrom
<1>4. List!RemoveAt(Contents, index + 1) = Removed(Contents, index + 1)
  BY <1>1, <1>2, ArraySharedSequences
<1>5. QED
  BY <1>2, <1>3, <1>4, ArraySharedDestroyed
  DEF List!Delete, List!At, List!Succeeds, DeletedFrom

LEMMA ArrayStepReplace ==
    ASSUME Inv, NEW index, NEW e, ReplacedAt("Set", index, e, Contents, Contents')
    PROVE  List!Set(index, e)
<1>1. Contents \in Seq(Elements)
  BY ContentsValues DEF Inv
<1>2. e \in Offered(elementType) /\ e # NULL
  BY ElementTypeAssumption DEF ReplacedAt, Offered, Inv
<1>3. index < Len(Contents) /\ index + 1 \in 1 .. Len(Contents)
  BY <1>1 DEF ReplacedAt
<1>4. List!Succeeds("Set", index, e, List!NoOutput)
  BY ArrayCalledSucceeds, ArraySharedOperators DEF ReplacedAt
<1>5. List!ReplaceAt(Contents, index + 1, e) = [Contents EXCEPT ![index + 1] = e]
  BY DEF List!ReplaceAt
<1>6. QED
  BY <1>2, <1>3, <1>4, <1>5, ArraySharedOperators, ArraySharedDestroyed
  DEF List!Set, List!Has, List!ElementAt, ReplacedAt

LEMMA ArrayStepVacated ==
    ASSUME NEW op, Vacated(op, Contents, Contents')
    PROVE  List!Clear \/ List!Destroy
<1>1. List!Succeeds(op, 0, NULL, List!NoOutput)
  BY ArrayCalledSucceeds, ArraySharedOperators DEF Vacated
<1>2. QED
  BY <1>1, ArraySharedOperators, ArraySharedDestroyed DEF List!Clear, List!Destroy, Vacated

LEMMA ArrayStepAcquire ==
    ASSUME NEW e \in Elements, Acquire(e), UNCHANGED <<Live, elementType, Contents>>
    PROVE  List!Common
BY ArraySharedOperators DEF List!Common, Acquire, List!Acquire, List!sequence, NoOutput

-----------------------------------------------------------------------------
(* The steps of DynamicArray_t.                                            *)

LEMMA ArrayOverwriteInv ==
    ASSUME Inv, NEW index \in 0 .. size - 1, NEW element \in Sources, element # NULL,
           Overwrite(index, element)
    PROVE  /\ Inv' /\ Atomic
           /\ ReplacedAt("Set", index, Meant(element), Contents, Contents')
<1> DEFINE e == Deref(heap, element)
           cells == WriteCell(heap[storage.data], index, e)
<1>0. /\ Consistent(super, storage, heap)
      /\ Sound(heap, storage, {})
      /\ size \in Nat
      /\ size <= storage.capacity
      /\ storage.capacity \in Nat
      /\ storage.capacity > 0 => storage.data # NULL
  BY CapacityLemma DEF Inv, Consistent, size
<1>1. storage.data # NULL /\ index \in 0 .. storage.capacity - 1
  BY <1>0
<1>2. /\ UNCHANGED <<super, storage>>
      /\ heap' = Alloc(heap, storage.data, cells)
      /\ released' = Destroyed(elementType, <<CellAt(index)>>)
      /\ caller' = HandedOver(elementType, {e})
      /\ result' = Called("Set", index, Meant(element), TRUE, NoOutput)
  BY DEF Overwrite, Succeed
<1>3. e \in Elements /\ e \in Cells /\ e = Meant(element) /\ e \in Offered(elementType)
  BY SourceLemma, ElementTypeAssumption DEF Cells
<1>4. heap[storage.data] \in [0 .. storage.capacity - 1 -> Cells]
  BY <1>0, <1>1 DEF Sound
<1> HIDE DEF e
<1>5. /\ cells \in [0 .. storage.capacity - 1 -> Cells]
      /\ \A i \in 0 .. storage.capacity - 1 :
            cells[i] = IF i = index THEN e ELSE heap[storage.data][i]
  BY <1>1, <1>3, <1>4 DEF WriteCell
<1> HIDE DEF cells
<1>6. Sound(heap', storage, {}) /\ heap'[storage.data] = cells
  BY <1>0, <1>1, <1>2, <1>5, RewriteLemma
<1>7. \A i \in 0 .. size - 1 : SlotValue(heap', storage, i) \in Elements
  BY <1>0, <1>3, <1>5, <1>6 DEF SlotValue, Consistent, size
<1>8. Consistent(super', storage', heap')
  BY <1>0, <1>2, <1>6, <1>7 DEF Consistent, size
<1>9. released' \in [Elements -> Nat]
  BY <1>2, OneDestroyed DEF Inv
<1>10. caller' \subseteq Elements
  BY <1>2 DEF Inv, HandedOver
<1>11. /\ Contents = Values(super, storage, heap)
       /\ Contents \in Seq(Elements) /\ Len(Contents) = size
       /\ Contents' = Values(super', storage', heap')
  BY <1>0, <1>8, ContentsValues, NextValues
<1>12. Contents' = [Contents EXCEPT ![index + 1] = e]
  <2>1. \A i \in 1 .. size :
           SlotValue(heap', storage', i - 1) = IF i = index + 1 THEN e ELSE Contents[i]
    <3>1. TAKE i \in 1 .. size
    <3>2. i - 1 \in 0 .. storage.capacity - 1 /\ (i - 1 = index <=> i = index + 1)
      BY <1>0
    <3>3. Contents[i] = heap[storage.data][i - 1]
      BY <1>11 DEF Values, SlotValue, size
    <3>4. SlotValue(heap', storage', i - 1) = cells[i - 1]
      BY <1>2, <1>6 DEF SlotValue
    <3>5. QED
      BY <1>5, <3>2, <3>3, <3>4
  <2>2. /\ DOMAIN Contents = 1 .. size /\ DOMAIN Contents' = 1 .. size
        /\ \A i \in 1 .. size : Contents'[i] = SlotValue(heap', storage', i - 1)
        /\ Contents = [i \in 1 .. size |-> Contents[i]]
        /\ Contents' = [i \in 1 .. size |-> Contents'[i]]
    BY <1>2, <1>11 DEF Values, size
  <2>3. QED
    BY <2>1, <2>2
<1>13. CellAt(index) = Contents[index + 1]
  BY <1>0 DEF Contents
<1>14. ReplacedAt("Set", index, Meant(element), Contents, Contents')
  BY <1>2, <1>3, <1>11, <1>12, <1>13 DEF ReplacedAt, Live, elementType
<1>15. Accounts'
  BY <1>11, <1>14, ReplacedAccounted DEF Inv, Accounts
<1>16. QED
  BY <1>2, <1>8, <1>9, <1>10, <1>14, <1>15 DEF Inv, Atomic, Called

LEMMA ArraySizeLemma ==
    ASSUME Inv
    PROVE  /\ size \in 0 .. SizeMax /\ size \in Nat /\ SizeMax \in Nat
           /\ Contents \in Seq(Elements) /\ Len(Contents) = size
           /\ \A index \in Nat : List!Has(index) <=> index < size
           /\ Indices \subseteq Nat /\ Indices \subseteq List!Indices
           /\ 0 \in Indices
<1>1. SizeMax \in Nat /\ size \in 0 .. SizeMax
  BY MemoryAssumption DEF Inv, Consistent, ADT_Super_t, size
<1>2. Contents \in Seq(Elements) /\ Len(Contents) = size
  BY ContentsValues DEF Inv
<1>3. QED
  BY <1>1, <1>2 DEF List!Has, Indices, List!Indices

\* What every step does.
ArrayKept == Inv' /\ Atomic /\ List!Next

LEMMA ArrayKeptCreate ==
    ASSUME NEW type \in ElementTypes, NEW op, NEW count \in 0 .. SizeMax, Inv', Atomic,
           (op = "Init" /\ count = 0) \/ op = "InitFrom",
           \/ ~ Live /\ Declined(op, count, NULL, Contents, Contents')
           \/ Created(op, type, Contents, Contents') /\ Len(Contents') = count
    PROVE  ArrayKept
<1>1. CASE ~ Live /\ Declined(op, count, NULL, Contents, Contents')
  <2>1. List!Fails(op, count, NULL)
    BY <1>1, ArrayDeclinedFails
  <2>2. count \in List!Indices
    BY MemoryAssumption DEF List!Indices
  <2>3. List!CannotInitialize
    BY <1>1, <2>1, <2>2 DEF List!CannotInitialize
  <2>4. QED
    BY <2>3 DEF ArrayKept, List!Next, List!Common
<1>2. CASE Created(op, type, Contents, Contents') /\ Len(Contents') = count
  BY <1>2, ArrayStepInitialize DEF ArrayKept, List!Next, List!Common
<1>3. QED
  BY <1>1, <1>2

LEMMA ArrayKeptInit ==
    ASSUME Inv, NEW type \in ElementTypes, da_Init(type)
    PROVE  ArrayKept
<1>1. 0 \in 0 .. SizeMax
  BY MemoryAssumption
<1>2. /\ Inv' /\ Atomic
      /\ \/ ~ Live /\ Declined("Init", 0, NULL, Contents, Contents')
         \/ Created("Init", type, Contents, Contents') /\ Len(Contents') = 0
  BY InitStorageInv DEF da_Init, VTables
<1>3. QED
  BY <1>1, <1>2, ArrayKeptCreate

LEMMA ArrayKeptInitFromNull ==
    ASSUME Inv, NEW type \in ElementTypes, da_InitFrom(NULL, 1, type)
    PROVE  ArrayKept
<1>1. 1 \in 0 .. SizeMax
  BY InitialCapacityAssumption, MemoryAssumption
<1>2. /\ Inv' /\ Atomic
      /\ \/ ~ Live /\ Declined("InitFrom", 1, NULL, Contents, Contents')
         \/ Created("InitFrom", type, Contents, Contents') /\ Len(Contents') = 1
  <2> DEFINE taken == {NULL[i] : i \in 1 .. 1}
  <2>1. Create("InitFrom", "DA_VTABLE", 1, taken, type,
               contiguousStorage_InitFrom(heap, EmptyStorage, NULL, 1, type.elementSize))
    BY DEF da_InitFrom
  <2> HIDE DEF taken
  <2>2. "DA_VTABLE" \in VTables /\ 1 # 0
    BY DEF VTables
  <2>3. QED
    BY <1>1, <2>1, <2>2, InitFromStorageInv
<1>3. QED
  BY <1>1, <1>2, ArrayKeptCreate

LEMMA ArrayKeptInitFrom ==
    ASSUME Inv, NEW type \in ElementTypes, NEW n \in 0 .. MaxInitial,
           NEW s \in [1 .. n -> Elements], OfferedArray(type, s), da_InitFrom(s, n, type)
    PROVE  ArrayKept
<1>1. n \in 0 .. SizeMax /\ n \in Nat
  BY MaxInitialAssumption, MemoryAssumption
<1>2. s \in Seq(Elements) /\ Len(s) = n /\ DOMAIN s = 1 .. n
  BY <1>1, FunctionSeq
<1>3. /\ Inv' /\ Atomic
      /\ \/ ~ Live /\ Declined("InitFrom", n, NULL, Contents, Contents')
         \/ Created("InitFrom", type, Contents, Contents') /\ Len(Contents') = n
  <2> DEFINE taken == {s[i] : i \in 1 .. n}
  <2>1. taken = {s[i] : i \in DOMAIN s}
    BY <1>2
  <2>2. Create("InitFrom", "DA_VTABLE", n, taken, type,
               contiguousStorage_InitFrom(heap, EmptyStorage, s, n, type.elementSize))
    BY DEF da_InitFrom
  <2> HIDE DEF taken
  <2>3. QED
    BY <1>1, <1>2, <2>1, <2>2, InitFromStorageInv DEF VTables
<1>4. QED
  BY <1>1, <1>3, ArrayKeptCreate

LEMMA ArrayStorableLemma ==
    ASSUME Inv, NEW element \in Sources
    PROVE  /\ Meant(element) \in List!Storable
           /\ Meant(element) = NULL <=> element = NULL
<1>1. Meant(element) \in Offered(elementType) \cup {NULL}
  BY SourceLemma
<1>2. Meant(element) = NULL <=> element = NULL
  BY SourceLemma, ElementTypeAssumption DEF Meant, MeantIn
<1>3. QED
  BY <1>1, <1>2, ArraySharedOperators DEF List!Storable

LEMMA ArrayKeptInsertion ==
    ASSUME Inv, NEW element \in Sources, NEW index \in Nat, NEW op,
           InsertAtIndex(op, index, element),
           \/ op = "Insert" /\ index \in Indices
           \/ op = "Prepend" /\ index = 0
           \/ op = "Append" /\ index = size
    PROVE  ArrayKept
<1>1. /\ Inv' /\ Atomic
      /\ \/ Declined(op, index, Meant(element), Contents, Contents')
         \/ StoredAt(op, index, Meant(element), Contents, Contents')
  BY InsertInv
<1>2. List!Store(op, index, Meant(element))
  BY <1>1, ArrayStepStore
<1>3. Meant(element) \in List!Storable
  BY ArrayStorableLemma
<1>4. index \in Indices => index \in List!Indices
  BY ArraySizeLemma
<1>5. QED
  BY <1>1, <1>2, <1>3, <1>4, ArraySizeLemma DEF ArrayKept, List!Next

LEMMA ArrayKeptSet ==
    ASSUME Inv, NEW index \in Indices, NEW element \in Sources \cup OwnSlot(index),
           da_detail_SetRef(index, element)
    PROVE  ArrayKept
<1>0. index \in Nat /\ index \in List!Indices /\ size \in Nat
  BY ArraySizeLemma
<1>1. CASE element = NULL \/ index >= size
  <2>1. element \in Sources
    BY <1>0, <1>1 DEF OwnSlot, Sources, SourcesAmong
  <2>2. Inv' /\ Atomic /\ Declined("Set", index, Meant(element), Contents, Contents')
    BY <1>1, FailInv DEF da_detail_SetRef
  <2>3. List!Fails("Set", index, Meant(element))
    BY <2>2, ArrayDeclinedFails
  <2>4. ~ (List!Has(index) /\ Meant(element) # NULL)
    BY <1>0, <1>1, <2>1, ArraySizeLemma, ArrayStorableLemma
  <2>5. List!Set(index, Meant(element))
    BY <2>3, <2>4 DEF List!Set
  <2>6. QED
    BY <1>0, <2>1, <2>2, <2>5, ArrayStorableLemma DEF ArrayKept, List!Next
<1>2. CASE ~ (element = NULL \/ index >= size) /\ ElementAt(index) = element
  <2>1. /\ UNCHANGED <<container, caller, released>>
        /\ result' = Called("Set", index, Meant(element), TRUE, NoOutput)
    BY <1>2 DEF da_detail_SetRef, Succeed
  <2>2. Inv' /\ Atomic /\ Idle(Contents, Contents')
    BY <2>1, UnchangedInv
  <2>3. /\ index \in 0 .. size - 1 /\ index + 1 \in 1 .. size
        /\ (index + 1) - 1 = index
    BY <1>0, <1>2
  <2>4. Meant(element) = Contents[index + 1]
    BY <1>2, <2>3 DEF Meant, MeantIn, Contents, CellAt
  <2>5. Meant(element) \in Elements /\ Meant(element) # NULL /\ Meant(element) \in List!Storable
    <3>1. DOMAIN Contents = 1 .. size /\ Contents[index + 1] \in Elements
      BY <2>3, ArraySizeLemma
    <3>2. List!ToSet(Contents) = {Contents[i] : i \in DOMAIN Contents}
      BY ArraySizeLemma, ArraySharedSequences
    <3>3. QED
      BY <2>3, <2>4, <3>1, <3>2, ElementTypeAssumption DEF List!Storable
  <2>6. List!Succeeds("Set", index, Meant(element), List!NoOutput)
    BY <2>1, ArrayCalledSucceeds, ArraySharedOperators
  <2>7. List!Has(index)
    BY <1>0, <1>2, ArraySizeLemma
  <2>8. List!Set(index, Meant(element))
    BY <2>2, <2>4, <2>5, <2>6, <2>7 DEF List!Set, List!ElementAt, Idle
  <2>9. QED
    BY <1>0, <2>2, <2>5, <2>8 DEF ArrayKept, List!Next
<1>3. CASE ~ (element = NULL \/ index >= size) /\ ElementAt(index) # element
  <2>1. Overwrite(index, element)
    BY <1>3 DEF da_detail_SetRef
  <2>2. index \in 0 .. size - 1 /\ element # NULL
    BY <1>0, <1>3
  <2>3. element \in Sources
    BY <1>3 DEF OwnSlot
  <2>4. Inv' /\ Atomic /\ ReplacedAt("Set", index, Meant(element), Contents, Contents')
    BY <2>1, <2>2, <2>3, ArrayOverwriteInv
  <2>5. List!Set(index, Meant(element))
    BY <2>4, ArrayStepReplace
  <2>6. QED
    BY <1>0, <2>3, <2>4, <2>5, ArrayStorableLemma DEF ArrayKept, List!Next
<1>4. QED
  BY <1>1, <1>2, <1>3

LEMMA ArrayKeptGet ==
    ASSUME Inv, NEW index \in Indices, NEW outElement \in {NULL, CallerVariable},
           da_Get(index, outElement)
    PROVE  ArrayKept
<1>0. /\ Usable(outElement) \in {"usable", "unusable"}
      /\ Usable(outElement) = "usable" <=> outElement # NULL
      /\ index \in Nat /\ index \in List!Indices /\ size \in Nat
      /\ List!Has(index) <=> index < size
  BY OutputLemma, ArraySizeLemma DEF Outputs, OutputsAmong
<1>1. CASE outElement = NULL \/ index >= size
  <2>1. Inv' /\ Atomic /\ Declined("Get", index, Usable(outElement), Contents, Contents')
    BY <1>1, FailInv DEF da_Get
  <2>2. List!Get(index, Usable(outElement))
    BY <1>0, <1>1, <2>1, ArrayDeclinedFails DEF List!Get
  <2>3. QED
    BY <1>0, <2>1, <2>2 DEF ArrayKept, List!Next
<1>2. CASE ~ (outElement = NULL \/ index >= size)
  <2>1. /\ UNCHANGED <<container, caller, released>>
        /\ result' = Called("Get", index, Usable(outElement), TRUE, CellAt(index))
    BY <1>2 DEF da_Get, Succeed
  <2>2. Inv' /\ Atomic /\ Idle(Contents, Contents')
    BY <2>1, UnchangedInv
  <2>3. index \in 0 .. size - 1 /\ index + 1 \in 1 .. size /\ (index + 1) - 1 = index
    BY <1>0, <1>2
  <2>4. CellAt(index) = Contents[index + 1]
    BY <2>3 DEF Contents
  <2>5. ReadFrom("Get", index, Usable(outElement), Contents, Contents')
    BY <2>1, <2>2, <2>3, <2>4, ArraySizeLemma DEF ReadFrom
  <2>6. List!Get(index, Usable(outElement))
    BY <1>0, <1>2, <2>5, ArrayStepRead DEF List!Get
  <2>7. QED
    BY <1>0, <2>2, <2>6 DEF ArrayKept, List!Next
<1>3. QED
  BY <1>1, <1>2

LEMMA ArrayKeptTake ==
    ASSUME Inv, NEW index \in Indices, NEW outElement \in Outputs, da_Take(index, outElement)
    PROVE  ArrayKept
<1> DEFINE refuses == \/ outElement = NULL
                      \/ index >= size
                      \/ contiguousStorage_ContainsAddress(storage, outElement, elementSize)
<1>0. /\ Usable(outElement) \in {"usable", "unusable"}
      /\ index \in Nat /\ index \in List!Indices /\ size \in Nat
      /\ List!Has(index) <=> index < size
      /\ refuses <=> ~ (index < size /\ Usable(outElement) = "usable")
  BY OutputLemma, ArraySizeLemma
<1>1. CASE refuses
  <2>1. Inv' /\ Atomic /\ Declined("Take", index, Usable(outElement), Contents, Contents')
    BY <1>1, FailInv DEF da_Take
  <2>2. List!Take(index, Usable(outElement))
    BY <1>0, <1>1, <2>1, ArrayDeclinedFails DEF List!Take
  <2>3. QED
    BY <1>0, <2>1, <2>2 DEF ArrayKept, List!Next
<1>2. CASE ~ refuses
  <2>1. TakeAtIndex("Take", index, outElement)
    BY <1>2 DEF da_Take
  <2>2. index \in 0 .. size - 1
    BY <1>0, <1>2
  <2>3. Inv' /\ Atomic /\ TakenFrom("Take", index, Usable(outElement), Contents, Contents')
    BY <2>1, <2>2, TakeInv
  <2>4. List!Take(index, Usable(outElement))
    BY <1>0, <1>2, <2>3, ArrayStepTransfer DEF List!Take
  <2>5. QED
    BY <1>0, <2>3, <2>4 DEF ArrayKept, List!Next
<1>3. QED
  BY <1>1, <1>2

LEMMA ArrayKeptRemove ==
    ASSUME Inv, NEW index \in Indices, da_Remove(index)
    PROVE  ArrayKept
<1>0. /\ index \in Nat /\ index \in List!Indices /\ size \in Nat
      /\ List!Has(index) <=> index < size
  BY ArraySizeLemma
<1>1. CASE index >= size
  <2>1. Inv' /\ Atomic /\ Declined("Remove", index, NULL, Contents, Contents')
    BY <1>1, FailInv DEF da_Remove
  <2>2. List!Discard(index)
    BY <1>0, <1>1, <2>1, ArrayDeclinedFails DEF List!Discard
  <2>3. QED
    BY <1>0, <2>1, <2>2 DEF ArrayKept, List!Next
<1>2. CASE ~ (index >= size)
  <2>1. index \in 0 .. size - 1 /\ RemoveAtIndex("Remove", index)
    BY <1>0, <1>2 DEF da_Remove
  <2>2. Inv' /\ Atomic /\ DeletedFrom("Remove", index, Contents, Contents')
    BY <2>1, RemoveInv
  <2>3. List!Discard(index)
    BY <2>2, ArrayStepDelete DEF List!Discard
  <2>4. QED
    BY <1>0, <2>2, <2>3 DEF ArrayKept, List!Next
<1>3. QED
  BY <1>1, <1>2

\* The search loop stops where the abstract list finds the element.
LEMMA ArrayFoundLemma ==
    ASSUME Inv, NEW e
    PROVE  List!Found(e) = IF e = NULL THEN {} ELSE MatchesOf(e)
<1>1. \A i \in 0 .. size - 1 :
         Matches(elementType, CellAt(i), e) <=> List!Equivalent(List!ElementAt(i), e)
  <2>1. TAKE i \in 0 .. size - 1
  <2>2. i + 1 \in 1 .. size /\ (i + 1) - 1 = i
    BY ArraySizeLemma
  <2>3. CellAt(i) = List!ElementAt(i)
    BY <2>2 DEF Contents, List!ElementAt
  <2>4. QED
    BY <2>3 DEF Matches, List!Equivalent
<1>2. \A i : i \in 0 .. size - 1 <=> i \in List!Indices /\ List!Has(i)
  BY ArraySizeLemma DEF List!Indices
<1>3. QED
  BY <1>1, <1>2 DEF List!Found, MatchesOf

LEMMA ArrayKeptIndexOf ==
    ASSUME Inv, NEW e \in Elements \cup {NULL}, da_detail_IndexOfRef(e)
    PROVE  ArrayKept
<1>1. CASE e = NULL \/ MatchesOf(e) = {}
  <2>1. Inv' /\ Atomic /\ Declined("IndexOf", 0, e, Contents, Contents')
    BY <1>1, FailInv DEF da_detail_IndexOfRef
  <2>2. List!IndexOf(e)
    BY <1>1, <2>1, ArrayDeclinedFails, ArrayFoundLemma DEF List!IndexOf
  <2>3. QED
    BY <2>1, <2>2 DEF ArrayKept, List!Next
<1>2. CASE ~ (e = NULL \/ MatchesOf(e) = {})
  <2>1. PICK i \in MatchesOf(e) :
           /\ \A j \in MatchesOf(e) : i <= j
           /\ Succeed("IndexOf", 0, e, i)
           /\ UNCHANGED <<container, caller, released>>
    BY <1>2 DEF da_detail_IndexOfRef
  <2>2. Inv' /\ Atomic /\ Idle(Contents, Contents')
    BY <2>1, UnchangedInv
  <2>3. List!Succeeds("IndexOf", 0, e, i) /\ result'.out = i
    BY <2>1, ArrayCalledSucceeds DEF Succeed, Called
  <2>4. List!IndexOf(e)
    BY <1>2, <2>1, <2>2, <2>3, ArrayFoundLemma DEF List!IndexOf, Idle, List!sequence
  <2>5. QED
    BY <2>2, <2>4 DEF ArrayKept, List!Next
<1>3. QED
  BY <1>1, <1>2

LEMMA ArrayKeptContains ==
    ASSUME Inv, NEW e \in Elements \cup {NULL}, da_detail_ContainsRef(e)
    PROVE  ArrayKept
<1>1. Inv' /\ Atomic /\ Idle(Contents, Contents')
  BY UnchangedInv DEF da_detail_ContainsRef
<1>2. CASE e = NULL \/ MatchesOf(e) = {}
  <2>1. Declined("Contains", 0, e, Contents, Contents')
    BY <1>1, <1>2 DEF da_detail_ContainsRef, Declined
  <2>2. List!IsIn(e)
    BY <1>2, <2>1, ArrayDeclinedFails, ArrayFoundLemma DEF List!IsIn
  <2>3. QED
    BY <1>1, <2>2 DEF ArrayKept, List!Next
<1>3. CASE ~ (e = NULL \/ MatchesOf(e) = {})
  <2>1. List!Succeeds("Contains", 0, e, List!NoOutput)
    BY <1>3, ArrayCalledSucceeds, ArraySharedOperators DEF da_detail_ContainsRef
  <2>2. List!IsIn(e)
    BY <1>1, <1>3, <2>1, ArrayFoundLemma DEF List!IsIn, Idle, List!sequence
  <2>3. QED
    BY <1>1, <2>2 DEF ArrayKept, List!Next
<1>4. QED
  BY <1>2, <1>3

\* Every step keeps the invariant, changes nothing if it returns false, and is
\* a step of the abstract list.
LEMMA ArrayNextKept ==
    ASSUME Inv, ArrayNext
    PROVE  ArrayKept
<1>1. CASE da_Clear
  BY <1>1, EmptyInv, ArrayStepVacated DEF da_Clear, ArrayKept, List!Next, List!Common
<1>2. CASE da_Destroy
  BY <1>2, TearDownInv, ArrayStepVacated DEF da_Destroy, ArrayKept, List!Next, List!Common
<1>3. ASSUME NEW e \in Elements, Acquire(e), UNCHANGED container
      PROVE  ArrayKept
  BY <1>3, AcquireInv, ArrayStepAcquire DEF ArrayKept, List!Next
<1>4. ASSUME NEW element \in Sources, NEW index \in Indices,
             da_detail_InsertRef(index, element)
      PROVE  ArrayKept
  BY <1>4, ArraySizeLemma, ArrayKeptInsertion DEF da_detail_InsertRef
<1>5. ASSUME NEW element \in Sources, da_detail_PrependRef(element)
      PROVE  ArrayKept
  BY <1>5, ArrayKeptInsertion DEF da_detail_PrependRef
<1>6. ASSUME NEW element \in Sources, da_detail_AppendRef(element)
      PROVE  ArrayKept
  BY <1>6, ArraySizeLemma, ArrayKeptInsertion DEF da_detail_AppendRef
<1>7. QED
  BY <1>1, <1>2, <1>3, <1>4, <1>5, <1>6, ArrayKeptInit, ArrayKeptInitFromNull, ArrayKeptInitFrom,
     ArrayKeptSet, ArrayKeptGet, ArrayKeptTake, ArrayKeptRemove, ArrayKeptIndexOf, ArrayKeptContains
  DEF ArrayNext

LEMMA ArrayStutterKept ==
    ASSUME Inv, UNCHANGED vars
    PROVE  Inv' /\ UNCHANGED List!vars
<1>1. Inv' /\ Idle(Contents, Contents')
  BY UnchangedInv DEF vars, container, ownership
<1>2. UNCHANGED List!vars
  BY <1>1 DEF Idle, List!vars, List!ownership, List!sequence, vars, ownership
<1>3. QED
  BY <1>1, <1>2

LEMMA ArrayInitialList == Init => List!Init
<1> SUFFICES ASSUME Init
             PROVE  List!Init
  OBVIOUS
<1>1. /\ super = ZeroSuper /\ result = Called("none", 0, NULL, TRUE, NoOutput)
      /\ caller = Elements /\ released = [e \in Elements |-> 0]
  BY DEF Init, OwnershipInit
<1>2. ~ Live /\ elementType = ZeroType /\ size = 0
  BY <1>1 DEF Live, elementType, size, ZeroSuper
<1>3. Contents = <<>>
  <2>1. Contents \in Seq(Elements) /\ Len(Contents) = 0
    BY <1>2, InitInv, ContentsValues DEF Inv
  <2>2. QED
    BY <2>1, EmptySeq
<1>4. List!OwnershipInit
  BY <1>1, ArraySharedOperators DEF List!OwnershipInit
<1>5. QED
  BY <1>2, <1>3, <1>4, ArraySharedOperators DEF List!Init

-----------------------------------------------------------------------------
\* The invariant holds in every state DynamicArray_t can be in.
THEOREM ArrayInvariance == ArraySpec => []Inv
<1>1. Init => Inv
  BY InitInv
<1>2. Inv /\ [ArrayNext]_vars => Inv'
  BY ArrayNextKept, ArrayStutterKept DEF ArrayKept
<1>3. QED
  BY <1>1, <1>2, PTL DEF ArraySpec

\* DynamicArray_t is well-typed: no size or capacity leaves the range of size_t,
\* the count of an array of SIZE_MAX elements included
\* (contiguous_storage.c:105-118, 166).
THEOREM ArrayTypeSafety == ArraySpec => []TypeOK
<1>1. Inv => TypeOK
  BY InvImplies
<1>2. QED
  BY <1>1, ArrayInvariance, PTL

\* The recorded capacity is that of the one block that is allocated, and the
\* elements fit it, whatever malloc and realloc return and whatever alias the
\* source of an insertion is (contiguous_storage.c:86-197).
THEOREM ArrayStorageSafety == ArraySpec => []StorageConsistent
<1>1. Inv => StorageConsistent
  BY InvImplies
<1>2. QED
  BY <1>1, ArrayInvariance, PTL

\* Every slot in use holds an element somebody stored, never memory that was
\* not written or that realloc has freed (contiguous_storage.c:171-193).
THEOREM ArrayContentsSafety == ArraySpec => []ContentsDefined
<1>1. Inv => ContentsDefined
  BY InvImplies
<1>2. QED
  BY <1>1, ArrayInvariance, PTL

\* While the elements own something, the resource of each has one owner: the
\* caller, one slot of the array, or nobody because it was released, once
\* (docs/ownership.md:72-83).
THEOREM ArrayOwnershipSafety == ArraySpec => []OwnedOnce
<1>1. Inv => OwnedOnce
  BY InvImplies
<1>2. QED
  BY <1>1, ArrayInvariance, PTL

\* A call that returns false has changed nothing: not the array, not the heap,
\* not the owner of an element (docs/ownership.md:83).
THEOREM ArrayFailureAtomicity == ArraySpec => FailureChangesNothing
<1>1. Inv /\ [ArrayNext]_vars => [~ result'.ok => UNCHANGED <<container, caller, released>>]_vars
  BY ArrayNextKept DEF ArrayKept, Atomic
<1>2. QED
  BY <1>1, ArrayInvariance, PTL DEF ArraySpec, FailureChangesNothing

\* DynamicArray_t implements the abstract list: whatever malloc and realloc
\* return and whatever alias a source is, the elements stay in the order of the
\* calls, what is read, taken or found is the element at that index, and only
\* the calls that may fail do (dynamic_array.c:64-295, docs/dynamic_array.md).
THEOREM ArrayRefinement == ArraySpec => ImplementsList
<1>1. Init => List!Init
  BY ArrayInitialList
<1>2. Inv /\ [ArrayNext]_vars => [List!Next]_List!vars
  BY ArrayNextKept, ArrayStutterKept DEF ArrayKept
<1>3. QED
  BY <1>1, <1>2, ArrayInvariance, PTL DEF ArraySpec, ImplementsList, List!Spec

-----------------------------------------------------------------------------
(* The effects of OwnershipProofs, as steps of the abstract stack.         *)

\* What Stack and StackADT both take from Ownership means the same in both.
LEMMA StackSharedOperators ==
    /\ \A op, index, arg, ok, out :
          LIFO!Called(op, index, arg, ok, out) = Called(op, index, arg, ok, out)
    /\ LIFO!NoOutput = NULL /\ NoOutput = NULL
    /\ LIFO!ZeroType = ZeroType
    /\ \A type : LIFO!Offered(type) = Offered(type)
    /\ \A type, s : LIFO!OfferedArray(type, s) <=> OfferedArray(type, s)
    /\ \A type, S : LIFO!HandedOver(type, S) = HandedOver(type, S)
    /\ \A type, e : LIFO!HandedBack(type, e) = HandedBack(type, e)
<1>1. \A type : LIFO!Offered(type) = Offered(type)
  BY DEF LIFO!Offered, Offered
<1>2. \A type, s : LIFO!OfferedArray(type, s) <=> OfferedArray(type, s)
  BY DEF LIFO!OfferedArray, OfferedArray, LIFO!Offered, Offered
<1>3. QED
  BY <1>1, <1>2
  DEF LIFO!Called, Called, LIFO!NoOutput, NoOutput, LIFO!ZeroType, ZeroType,
      LIFO!HandedOver, HandedOver, LIFO!HandedBack, HandedBack

LEMMA StackSharedDestroyed == \A type, s : LIFO!Destroyed(type, s) = Destroyed(type, s)
<1>1. \A S : LIFO!Cardinality(S) = Cardinality(S)
  BY DEF LIFO!Cardinality, Cardinality
<1>2. QED
  BY <1>1 DEF LIFO!Destroyed, Destroyed

LEMMA StackSharedSequences ==
    ASSUME NEW s \in Seq(Elements)
    PROVE  /\ \A position \in 1 .. Len(s) : LIFO!RemoveAt(s, position) = Removed(s, position)
           /\ \A position \in 1 .. Len(s) + 1, e \in Elements :
                 LIFO!InsertAt(s, position, e) = Inserted(s, position, e)
           /\ LIFO!ToSet(s) = {s[i] : i \in DOMAIN s}
<1>1. \A position \in 1 .. Len(s) : LIFO!RemoveAt(s, position) = Removed(s, position)
  BY RemoveAtLemma DEF LIFO!RemoveAt
<1>2. \A position \in 1 .. Len(s) + 1, e \in Elements :
         LIFO!InsertAt(s, position, e) = Inserted(s, position, e)
  BY InsertAtLemma DEF LIFO!InsertAt
<1>3. QED
  BY <1>1, <1>2 DEF LIFO!ToSet

LEMMA StackCalledSucceeds ==
    ASSUME NEW op, NEW index, NEW arg, NEW out, result' = Called(op, index, arg, TRUE, out)
    PROVE  LIFO!Succeeds(op, index, arg, out)
BY StackSharedOperators DEF LIFO!Succeeds, LIFO!Call, Called

LEMMA StackDeclinedFails ==
    ASSUME NEW op, NEW index, NEW arg, Declined(op, index, arg, Contents, Contents')
    PROVE  LIFO!Fails(op, index, arg)
BY StackSharedOperators
DEF LIFO!Fails, LIFO!Call, Called, Declined, Idle, LIFO!sequence

LEMMA StackStepInitialize ==
    ASSUME NEW op, NEW type, Created(op, type, Contents, Contents'),
           \/ op = "Init" /\ Len(Contents') = 0
           \/ op = "InitFrom"
    PROVE  LIFO!Initialize(type)
<1>1. LIFO!Succeeds(op, Len(Contents'), NULL, NoOutput)
  BY StackCalledSucceeds DEF Created
<1>2. LIFO!ToSet(Contents') = {Contents'[i] : i \in DOMAIN Contents'}
  BY StackSharedSequences DEF Created
<1>3. op = "Init" => Contents' = <<>>
  BY EmptySeq DEF Created
<1>4. QED
  BY <1>1, <1>2, <1>3, StackSharedOperators DEF LIFO!Initialize, Created

LEMMA StackStepStore ==
    ASSUME Inv, NEW op, NEW index, NEW e,
           \/ Declined(op, index, e, Contents, Contents')
           \/ StoredAt(op, index, e, Contents, Contents')
    PROVE  LIFO!Store(op, index, e)
<1>1. CASE Declined(op, index, e, Contents, Contents')
  BY <1>1, StackDeclinedFails DEF LIFO!Store
<1>2. CASE StoredAt(op, index, e, Contents, Contents')
  <2>1. Contents \in Seq(Elements)
    BY ContentsValues DEF Inv
  <2>2. e \in Elements /\ e # NULL
    BY <1>2, ElementTypeAssumption DEF StoredAt, Offered, Inv
  <2>3. index + 1 \in 1 .. Len(Contents) + 1 /\ index <= Len(Contents)
    BY <1>2, <2>1 DEF StoredAt
  <2>4. LIFO!InsertAt(Contents, index + 1, e) = Inserted(Contents, index + 1, e)
    BY <2>1, <2>2, <2>3, StackSharedSequences
  <2>5. LIFO!Succeeds(op, index, e, LIFO!NoOutput)
    BY <1>2, StackCalledSucceeds, StackSharedOperators DEF StoredAt
  <2>6. QED
    BY <1>2, <2>2, <2>3, <2>4, <2>5, StackSharedOperators DEF LIFO!Store, StoredAt
<1>3. QED
  BY <1>1, <1>2

LEMMA StackStepRead ==
    ASSUME Inv, NEW op, NEW index, NEW arg, ReadFrom(op, index, arg, Contents, Contents')
    PROVE  LIFO!Read(op, index + 1, arg)
<1>1. Contents \in Seq(Elements)
  BY ContentsValues DEF Inv
<1>2. index + 1 \in DOMAIN Contents /\ (index + 1) - 1 = index
  BY <1>1 DEF ReadFrom
<1>3. LIFO!Succeeds(op, index, arg, Contents[index + 1])
  BY StackCalledSucceeds DEF ReadFrom
<1>4. QED
  BY <1>2, <1>3
  DEF LIFO!Read, LIFO!At, LIFO!Succeeds, ReadFrom, Idle, LIFO!sequence

LEMMA StackStepTransfer ==
    ASSUME Inv, NEW op, NEW index, NEW arg, TakenFrom(op, index, arg, Contents, Contents')
    PROVE  LIFO!Transfer(op, index + 1, arg)
<1>1. Contents \in Seq(Elements)
  BY ContentsValues DEF Inv
<1>2. index + 1 \in DOMAIN Contents /\ (index + 1) - 1 = index
  BY <1>1 DEF TakenFrom
<1>3. LIFO!Succeeds(op, index, arg, Contents[index + 1])
  BY StackCalledSucceeds DEF TakenFrom
<1>4. LIFO!RemoveAt(Contents, index + 1) = Removed(Contents, index + 1)
  BY <1>1, <1>2, StackSharedSequences
<1>5. QED
  BY <1>2, <1>3, <1>4, StackSharedOperators
  DEF LIFO!Transfer, LIFO!At, LIFO!Succeeds, TakenFrom

LEMMA StackStepDelete ==
    ASSUME Inv, NEW op, NEW index, DeletedFrom(op, index, Contents, Contents')
    PROVE  LIFO!Delete(op, index + 1)
<1>1. Contents \in Seq(Elements)
  BY ContentsValues DEF Inv
<1>2. index + 1 \in DOMAIN Contents /\ (index + 1) - 1 = index
  BY <1>1 DEF DeletedFrom
<1>3. LIFO!Succeeds(op, index, NULL, LIFO!NoOutput)
  BY StackCalledSucceeds, StackSharedOperators DEF DeletedFrom
<1>4. LIFO!RemoveAt(Contents, index + 1) = Removed(Contents, index + 1)
  BY <1>1, <1>2, StackSharedSequences
<1>5. QED
  BY <1>2, <1>3, <1>4, StackSharedDestroyed
  DEF LIFO!Delete, LIFO!At, LIFO!Succeeds, DeletedFrom

LEMMA StackStepVacated ==
    ASSUME NEW op, Vacated(op, Contents, Contents')
    PROVE  LIFO!Clear \/ LIFO!Destroy
<1>1. LIFO!Succeeds(op, 0, NULL, LIFO!NoOutput)
  BY StackCalledSucceeds, StackSharedOperators DEF Vacated
<1>2. QED
  BY <1>1, StackSharedOperators, StackSharedDestroyed DEF LIFO!Clear, LIFO!Destroy, Vacated

LEMMA StackStepAcquire ==
    ASSUME NEW e \in Elements, Acquire(e), UNCHANGED <<Live, elementType, Contents>>
    PROVE  LIFO!Common
BY StackSharedOperators DEF LIFO!Common, Acquire, LIFO!Acquire, LIFO!sequence, NoOutput

-----------------------------------------------------------------------------
(* The steps of Stack_t.                                                   *)

LEMMA StackTopLemma ==
    ASSUME Inv
    PROVE  /\ size \in Nat /\ LIFO!Top = size /\ topIndex = LIFO!Top - 1
           /\ Contents \in Seq(Elements)
           /\ size # 0 => topIndex \in 0 .. size - 1 /\ topIndex + 1 = LIFO!Top
<1>1. size \in Nat
  BY CapacityLemma DEF Inv, size
<1>2. LIFO!Top = size /\ Contents \in Seq(Elements)
  BY ContentsValues DEF Inv, LIFO!Top
<1>3. QED
  BY <1>1, <1>2 DEF topIndex

\* What every step does.
StackKept == Inv' /\ Atomic /\ LIFO!Next

LEMMA StackKeptCreate ==
    ASSUME NEW type \in ElementTypes, NEW op, NEW count \in 0 .. SizeMax, Inv', Atomic,
           (op = "Init" /\ count = 0) \/ op = "InitFrom",
           \/ ~ Live /\ Declined(op, count, NULL, Contents, Contents')
           \/ Created(op, type, Contents, Contents') /\ Len(Contents') = count
    PROVE  StackKept
<1>1. CASE ~ Live /\ Declined(op, count, NULL, Contents, Contents')
  BY <1>1, StackDeclinedFails
  DEF StackKept, LIFO!Next, LIFO!Common, LIFO!CannotInitialize, LIFO!Indices
<1>2. CASE Created(op, type, Contents, Contents') /\ Len(Contents') = count
  BY <1>2, StackStepInitialize DEF StackKept, LIFO!Next, LIFO!Common
<1>3. QED
  BY <1>1, <1>2

LEMMA StackKeptInit ==
    ASSUME Inv, NEW type \in ElementTypes, st_Init(type)
    PROVE  StackKept
<1>1. 0 \in 0 .. SizeMax
  BY MemoryAssumption
<1>2. /\ Inv' /\ Atomic
      /\ \/ ~ Live /\ Declined("Init", 0, NULL, Contents, Contents')
         \/ Created("Init", type, Contents, Contents') /\ Len(Contents') = 0
  BY InitStorageInv DEF st_Init, VTables
<1>3. QED
  BY <1>1, <1>2, StackKeptCreate

LEMMA StackKeptInitFromNull ==
    ASSUME Inv, NEW type \in ElementTypes, st_InitFrom(NULL, 1, type)
    PROVE  StackKept
<1>1. 1 \in 0 .. SizeMax
  BY InitialCapacityAssumption, MemoryAssumption
<1>2. /\ Inv' /\ Atomic
      /\ \/ ~ Live /\ Declined("InitFrom", 1, NULL, Contents, Contents')
         \/ Created("InitFrom", type, Contents, Contents') /\ Len(Contents') = 1
  <2> DEFINE taken == {NULL[i] : i \in 1 .. 1}
  <2>1. Create("InitFrom", "STACK_VTABLE", 1, taken, type,
               contiguousStorage_InitFrom(heap, EmptyStorage, NULL, 1, type.elementSize))
    BY DEF st_InitFrom
  <2> HIDE DEF taken
  <2>2. "STACK_VTABLE" \in VTables /\ 1 # 0
    BY DEF VTables
  <2>3. QED
    BY <1>1, <2>1, <2>2, InitFromStorageInv
<1>3. QED
  BY <1>1, <1>2, StackKeptCreate

LEMMA StackKeptInitFrom ==
    ASSUME Inv, NEW type \in ElementTypes, NEW n \in 0 .. MaxInitial,
           NEW s \in [1 .. n -> Elements], OfferedArray(type, s), st_InitFrom(s, n, type)
    PROVE  StackKept
<1>1. n \in 0 .. SizeMax /\ n \in Nat
  BY MaxInitialAssumption, MemoryAssumption
<1>2. s \in Seq(Elements) /\ Len(s) = n /\ DOMAIN s = 1 .. n
  BY <1>1, FunctionSeq
<1>3. /\ Inv' /\ Atomic
      /\ \/ ~ Live /\ Declined("InitFrom", n, NULL, Contents, Contents')
         \/ Created("InitFrom", type, Contents, Contents') /\ Len(Contents') = n
  <2> DEFINE taken == {s[i] : i \in 1 .. n}
  <2>1. taken = {s[i] : i \in DOMAIN s}
    BY <1>2
  <2>2. Create("InitFrom", "STACK_VTABLE", n, taken, type,
               contiguousStorage_InitFrom(heap, EmptyStorage, s, n, type.elementSize))
    BY DEF st_InitFrom
  <2> HIDE DEF taken
  <2>3. QED
    BY <1>1, <1>2, <2>1, <2>2, InitFromStorageInv DEF VTables
<1>4. QED
  BY <1>1, <1>3, StackKeptCreate

LEMMA StackKeptPush ==
    ASSUME Inv, NEW element \in Sources, st_detail_PushRef(element)
    PROVE  StackKept
<1>1. /\ Inv' /\ Atomic
      /\ \/ Declined("Push", size, Meant(element), Contents, Contents')
         \/ StoredAt("Push", size, Meant(element), Contents, Contents')
  BY StackTopLemma, InsertInv DEF st_detail_PushRef
<1>2. LIFO!Store("Push", LIFO!Top, Meant(element))
  BY <1>1, StackTopLemma, StackStepStore
<1>3. Meant(element) \in LIFO!Storable
  BY SourceLemma, StackSharedOperators DEF LIFO!Storable
<1>4. QED
  BY <1>1, <1>2, <1>3 DEF StackKept, LIFO!Next

LEMMA StackKeptPeek ==
    ASSUME Inv, NEW outElement \in {NULL, CallerVariable}, st_Peek(outElement)
    PROVE  StackKept
<1>0. /\ Usable(outElement) \in {"usable", "unusable"}
      /\ Usable(outElement) = "usable" <=> outElement # NULL
  BY OutputLemma DEF Outputs, OutputsAmong
<1>1. CASE outElement = NULL \/ size = 0
  <2>1. Inv' /\ Atomic /\ Declined("Peek", topIndex, Usable(outElement), Contents, Contents')
    BY <1>1, FailInv DEF st_Peek
  <2>2. LIFO!Peek(Usable(outElement))
    BY <1>0, <1>1, <2>1, StackTopLemma, StackDeclinedFails DEF LIFO!Peek
  <2>3. QED
    BY <1>0, <2>1, <2>2 DEF StackKept, LIFO!Next
<1>2. CASE ~ (outElement = NULL \/ size = 0)
  <2>1. /\ UNCHANGED <<container, caller, released>>
        /\ result' = Called("Peek", topIndex, Usable(outElement), TRUE, CellAt(topIndex))
    BY <1>2 DEF st_Peek, Succeed
  <2>2. Inv' /\ Atomic /\ Idle(Contents, Contents')
    BY <2>1, UnchangedInv
  <2>3. CellAt(topIndex) = Contents[topIndex + 1]
    BY <1>2, StackTopLemma DEF Contents
  <2>4. ReadFrom("Peek", topIndex, Usable(outElement), Contents, Contents')
    BY <1>2, <2>1, <2>2, <2>3, StackTopLemma, ContentsValues DEF ReadFrom, Inv
  <2>5. LIFO!Peek(Usable(outElement))
    BY <1>0, <1>2, <2>4, StackTopLemma, StackStepRead DEF LIFO!Peek
  <2>6. QED
    BY <1>0, <2>2, <2>5 DEF StackKept, LIFO!Next
<1>3. QED
  BY <1>1, <1>2

LEMMA StackKeptPop ==
    ASSUME Inv, NEW outElement \in Outputs, st_Pop(outElement)
    PROVE  StackKept
<1> DEFINE refuses == \/ outElement = NULL
                      \/ size = 0
                      \/ contiguousStorage_ContainsAddress(storage, outElement, elementSize)
<1>0. /\ Usable(outElement) \in {"usable", "unusable"}
      /\ refuses <=> ~ (size # 0 /\ Usable(outElement) = "usable")
  BY OutputLemma
<1>1. CASE refuses
  <2>1. Inv' /\ Atomic /\ Declined("Pop", topIndex, Usable(outElement), Contents, Contents')
    BY <1>1, FailInv DEF st_Pop
  <2>2. LIFO!Pop(Usable(outElement))
    BY <1>0, <1>1, <2>1, StackTopLemma, StackDeclinedFails DEF LIFO!Pop
  <2>3. QED
    BY <1>0, <2>1, <2>2 DEF StackKept, LIFO!Next
<1>2. CASE ~ refuses
  <2>1. TakeAtIndex("Pop", topIndex, outElement)
    BY <1>2 DEF st_Pop
  <2>2. Inv' /\ Atomic /\ TakenFrom("Pop", topIndex, Usable(outElement), Contents, Contents')
    BY <1>2, <2>1, StackTopLemma, TakeInv
  <2>3. LIFO!Pop(Usable(outElement))
    BY <1>0, <1>2, <2>2, StackTopLemma, StackStepTransfer DEF LIFO!Pop
  <2>4. QED
    BY <1>0, <2>2, <2>3 DEF StackKept, LIFO!Next
<1>3. QED
  BY <1>1, <1>2

LEMMA StackKeptDiscard ==
    ASSUME Inv, st_Discard
    PROVE  StackKept
<1>1. CASE size = 0
  <2>1. Inv' /\ Atomic /\ Declined("Discard", topIndex, NULL, Contents, Contents')
    BY <1>1, FailInv DEF st_Discard
  <2>2. LIFO!Discard
    BY <1>1, <2>1, StackTopLemma, StackDeclinedFails DEF LIFO!Discard
  <2>3. QED
    BY <2>1, <2>2 DEF StackKept, LIFO!Next
<1>2. CASE size # 0
  <2>1. Inv' /\ Atomic /\ DeletedFrom("Discard", topIndex, Contents, Contents')
    BY <1>2, StackTopLemma, RemoveInv DEF st_Discard
  <2>2. LIFO!Discard
    BY <1>2, <2>1, StackTopLemma, StackStepDelete DEF LIFO!Discard
  <2>3. QED
    BY <2>1, <2>2 DEF StackKept, LIFO!Next
<1>3. QED
  BY <1>1, <1>2

\* Every step keeps the invariant, changes nothing if it returns false, and is
\* a step of the abstract stack.
LEMMA StackNextKept ==
    ASSUME Inv, StackNext
    PROVE  StackKept
<1>1. CASE st_Clear
  BY <1>1, EmptyInv, StackStepVacated DEF st_Clear, StackKept, LIFO!Next, LIFO!Common
<1>2. CASE st_Destroy
  BY <1>2, TearDownInv, StackStepVacated DEF st_Destroy, StackKept, LIFO!Next, LIFO!Common
<1>3. ASSUME NEW e \in Elements, Acquire(e), UNCHANGED container
      PROVE  StackKept
  BY <1>3, AcquireInv, StackStepAcquire DEF StackKept, LIFO!Next
<1>4. QED
  BY <1>1, <1>2, <1>3, StackKeptInit, StackKeptInitFromNull, StackKeptInitFrom,
     StackKeptPush, StackKeptPeek,
     StackKeptPop, StackKeptDiscard
  DEF StackNext

LEMMA StackStutterKept ==
    ASSUME Inv, UNCHANGED vars
    PROVE  Inv' /\ UNCHANGED LIFO!vars
<1>1. Inv' /\ Idle(Contents, Contents')
  BY UnchangedInv DEF vars, container, ownership
<1>2. UNCHANGED LIFO!vars
  BY <1>1 DEF Idle, LIFO!vars, LIFO!ownership, LIFO!sequence, vars, ownership
<1>3. QED
  BY <1>1, <1>2

LEMMA StackInitialStack == Init => LIFO!Init
<1> SUFFICES ASSUME Init
             PROVE  LIFO!Init
  OBVIOUS
<1>1. /\ super = ZeroSuper /\ result = Called("none", 0, NULL, TRUE, NoOutput)
      /\ caller = Elements /\ released = [e \in Elements |-> 0]
  BY DEF Init, OwnershipInit
<1>2. ~ Live /\ elementType = ZeroType /\ size = 0
  BY <1>1 DEF Live, elementType, size, ZeroSuper
<1>3. Contents = <<>>
  <2>1. Contents \in Seq(Elements) /\ Len(Contents) = 0
    BY <1>2, InitInv, ContentsValues DEF Inv
  <2>2. QED
    BY <2>1, EmptySeq
<1>4. LIFO!OwnershipInit
  BY <1>1, StackSharedOperators DEF LIFO!OwnershipInit
<1>5. QED
  BY <1>2, <1>3, <1>4, StackSharedOperators DEF LIFO!Init

-----------------------------------------------------------------------------
\* The invariant holds in every state Stack_t can be in.
THEOREM StackInvariance == StackSpec => []Inv
<1>1. Init => Inv
  BY InitInv
<1>2. Inv /\ [StackNext]_vars => Inv'
  BY StackNextKept, StackStutterKept DEF StackKept
<1>3. QED
  BY <1>1, <1>2, PTL DEF StackSpec

\* Stack_t is well-typed: no size or capacity leaves the range of size_t
\* (contiguous_storage.c:105-118, 166).
THEOREM StackTypeSafety == StackSpec => []TypeOK
<1>1. Inv => TypeOK
  BY InvImplies
<1>2. QED
  BY <1>1, StackInvariance, PTL

\* The recorded capacity is that of the one block that is allocated, and the
\* elements pushed fit it (contiguous_storage.c:86-197).
THEOREM StackStorageSafety == StackSpec => []StorageConsistent
<1>1. Inv => StorageConsistent
  BY InvImplies
<1>2. QED
  BY <1>1, StackInvariance, PTL

\* What is popped, peeked at or discarded is always an element somebody pushed
\* (contiguous_storage.c:171-193, stack.c:114-202).
THEOREM StackContentsSafety == StackSpec => []ContentsDefined
<1>1. Inv => ContentsDefined
  BY InvImplies
<1>2. QED
  BY <1>1, StackInvariance, PTL

\* While the elements own something, the resource of each has one owner: the
\* caller, one slot of the stack, or nobody because it was released, once
\* (docs/ownership.md:72-83).
THEOREM StackOwnershipSafety == StackSpec => []OwnedOnce
<1>1. Inv => OwnedOnce
  BY InvImplies
<1>2. QED
  BY <1>1, StackInvariance, PTL

\* A call that returns false has changed nothing (docs/ownership.md:83).
THEOREM StackFailureAtomicity == StackSpec => FailureChangesNothing
<1>1. Inv /\ [StackNext]_vars => [~ result'.ok => UNCHANGED <<container, caller, released>>]_vars
  BY StackNextKept DEF StackKept, Atomic
<1>2. QED
  BY <1>1, StackInvariance, PTL DEF StackSpec, FailureChangesNothing

\* Stack_t implements the abstract stack: whatever malloc and realloc return,
\* what is popped, peeked at or discarded is the element pushed last, and only
\* the calls that may fail do (stack.c:64-229, docs/stack.md).
THEOREM StackRefinement == StackSpec => ImplementsStack
<1>1. Init => LIFO!Init
  BY StackInitialStack
<1>2. Inv /\ [StackNext]_vars => [LIFO!Next]_LIFO!vars
  BY StackNextKept, StackStutterKept DEF StackKept
<1>3. QED
  BY <1>1, <1>2, StackInvariance, PTL DEF StackSpec, ImplementsStack, LIFO!Spec
=============================================================================
