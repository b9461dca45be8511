----------------------------- MODULE QueueProofs -----------------------------
(***************************************************************************)
(* Queue_t keeps the invariant of LinkedContainerProofs, and each of its   *)
(* calls is a step of the queue that QueueADT describes.                   *)
(***************************************************************************)
EXTENDS Queue, LinkedContainerProofs

-----------------------------------------------------------------------------
(* The effects of OwnershipProofs, as steps of the abstract queue.         *)

\* What Queue and QueueADT both take from Ownership means the same in both.
LEMMA SharedOperators ==
    /\ \A op, index, arg, ok, out :
          FIFO!Called(op, index, arg, ok, out) = Called(op, index, arg, ok, out)
    /\ FIFO!NoOutput = NULL /\ NoOutput = NULL
    /\ FIFO!ZeroType = ZeroType
    /\ \A type : FIFO!Offered(type) = Offered(type)
    /\ \A type, s : FIFO!OfferedArray(type, s) <=> OfferedArray(type, s)
    /\ \A type, S : FIFO!HandedOver(type, S) = HandedOver(type, S)
    /\ \A type, e : FIFO!HandedBack(type, e) = HandedBack(type, e)
<1>1. \A type : FIFO!Offered(type) = Offered(type)
  BY DEF FIFO!Offered, Offered
<1>2. \A type, s : FIFO!OfferedArray(type, s) <=> OfferedArray(type, s)
  BY DEF FIFO!OfferedArray, OfferedArray, FIFO!Offered, Offered
<1>3. QED
  BY <1>1, <1>2
  DEF FIFO!Called, Called, FIFO!NoOutput, NoOutput, FIFO!ZeroType, ZeroType,
      FIFO!HandedOver, HandedOver, FIFO!HandedBack, HandedBack

LEMMA SharedDestroyed == \A type, s : FIFO!Destroyed(type, s) = Destroyed(type, s)
<1>1. \A S : FIFO!Cardinality(S) = Cardinality(S)
  BY DEF FIFO!Cardinality, Cardinality
<1>2. QED
  BY <1>1 DEF FIFO!Destroyed, Destroyed

LEMMA SharedSequences ==
    ASSUME NEW s \in Seq(Elements)
    PROVE  /\ \A position \in 1 .. Len(s) : FIFO!RemoveAt(s, position) = Removed(s, position)
           /\ \A position \in 1 .. Len(s) + 1, e \in Elements :
                 FIFO!InsertAt(s, position, e) = Inserted(s, position, e)
           /\ FIFO!ToSet(s) = {s[i] : i \in DOMAIN s}
<1>1. \A position \in 1 .. Len(s) : FIFO!RemoveAt(s, position) = Removed(s, position)
  BY RemoveAtLemma DEF FIFO!RemoveAt
<1>2. \A position \in 1 .. Len(s) + 1, e \in Elements :
         FIFO!InsertAt(s, position, e) = Inserted(s, position, e)
  BY InsertAtLemma DEF FIFO!InsertAt
<1>3. QED
  BY <1>1, <1>2 DEF FIFO!ToSet

LEMMA CalledSucceeds ==
    ASSUME NEW op, NEW index, NEW arg, NEW out, result' = Called(op, index, arg, TRUE, out)
    PROVE  FIFO!Succeeds(op, index, arg, out)
BY SharedOperators DEF FIFO!Succeeds, FIFO!Call, Called

LEMMA DeclinedFails ==
    ASSUME NEW op, NEW index, NEW arg, Declined(op, index, arg, Contents, Contents')
    PROVE  FIFO!Fails(op, index, arg)
BY SharedOperators
DEF FIFO!Fails, FIFO!Call, Called, Declined, Idle, FIFO!sequence

LEMMA StepInitialize ==
    ASSUME NEW op, NEW type, Created(op, type, Contents, Contents'),
           \/ op = "Init" /\ Len(Contents') = 0
           \/ op = "InitFrom"
    PROVE  FIFO!Initialize(type)
<1>1. FIFO!Succeeds(op, Len(Contents'), NULL, NoOutput)
  BY CalledSucceeds DEF Created
<1>2. FIFO!ToSet(Contents') = {Contents'[i] : i \in DOMAIN Contents'}
  BY SharedSequences DEF Created
<1>3. op = "Init" => Contents' = <<>>
  BY EmptySeq DEF Created
<1>4. QED
  BY <1>1, <1>2, <1>3, SharedOperators DEF FIFO!Initialize, Created

LEMMA StepStore ==
    ASSUME Inv, NEW op, NEW index, NEW e,
           \/ Declined(op, index, e, Contents, Contents')
           \/ StoredAt(op, index, e, Contents, Contents')
    PROVE  FIFO!Store(op, index, e)
<1>1. CASE Declined(op, index, e, Contents, Contents')
  BY <1>1, DeclinedFails DEF FIFO!Store
<1>2. CASE StoredAt(op, index, e, Contents, Contents')
  <2>1. Contents \in Seq(Elements)
    BY InvLemma
  <2>2. e \in Elements /\ e # NULL
    BY <1>2, ElementTypeAssumption DEF StoredAt, Offered, Inv
  <2>3. index + 1 \in 1 .. Len(Contents) + 1 /\ index <= Len(Contents)
    BY <1>2, <2>1 DEF StoredAt
  <2>4. FIFO!InsertAt(Contents, index + 1, e) = Inserted(Contents, index + 1, e)
    BY <2>1, <2>2, <2>3, SharedSequences
  <2>5. FIFO!Succeeds(op, index, e, FIFO!NoOutput)
    BY <1>2, CalledSucceeds, SharedOperators DEF StoredAt
  <2>6. QED
    BY <1>2, <2>2, <2>3, <2>4, <2>5, SharedOperators DEF FIFO!Store, StoredAt
<1>3. QED
  BY <1>1, <1>2

LEMMA StepRead ==
    ASSUME Inv, NEW op, NEW index, NEW arg, ReadFrom(op, index, arg, Contents, Contents')
    PROVE  FIFO!Read(op, index + 1, arg)
<1>1. Contents \in Seq(Elements)
  BY InvLemma
<1>2. index + 1 \in DOMAIN Contents /\ (index + 1) - 1 = index
  BY <1>1 DEF ReadFrom
<1>3. FIFO!Succeeds(op, index, arg, Contents[index + 1])
  BY CalledSucceeds DEF ReadFrom
<1>4. QED
  BY <1>2, <1>3
  DEF FIFO!Read, FIFO!At, FIFO!Succeeds, ReadFrom, Idle, FIFO!sequence

LEMMA StepTransfer ==
    ASSUME Inv, NEW op, NEW index, NEW arg, TakenFrom(op, index, arg, Contents, Contents')
    PROVE  FIFO!Transfer(op, index + 1, arg)
<1>1. Contents \in Seq(Elements)
  BY InvLemma
<1>2. index + 1 \in DOMAIN Contents /\ (index + 1) - 1 = index
  BY <1>1 DEF TakenFrom
<1>3. FIFO!Succeeds(op, index, arg, Contents[index + 1])
  BY CalledSucceeds DEF TakenFrom
<1>4. FIFO!RemoveAt(Contents, index + 1) = Removed(Contents, index + 1)
  BY <1>1, <1>2, SharedSequences
<1>5. QED
  BY <1>2, <1>3, <1>4, SharedOperators
  DEF FIFO!Transfer, FIFO!At, FIFO!Succeeds, TakenFrom

LEMMA StepDelete ==
    ASSUME Inv, NEW op, NEW index, DeletedFrom(op, index, Contents, Contents')
    PROVE  FIFO!Delete(op, index + 1)
<1>1. Contents \in Seq(Elements)
  BY InvLemma
<1>2. index + 1 \in DOMAIN Contents /\ (index + 1) - 1 = index
  BY <1>1 DEF DeletedFrom
<1>3. FIFO!Succeeds(op, index, NULL, FIFO!NoOutput)
  BY CalledSucceeds, SharedOperators DEF DeletedFrom
<1>4. FIFO!RemoveAt(Contents, index + 1) = Removed(Contents, index + 1)
  BY <1>1, <1>2, SharedSequences
<1>5. QED
  BY <1>2, <1>3, <1>4, SharedDestroyed
  DEF FIFO!Delete, FIFO!At, FIFO!Succeeds, DeletedFrom

LEMMA StepVacated ==
    ASSUME NEW op, Vacated(op, Contents, Contents')
    PROVE  FIFO!Clear \/ FIFO!Destroy
<1>1. FIFO!Succeeds(op, 0, NULL, FIFO!NoOutput)
  BY CalledSucceeds, SharedOperators DEF Vacated
<1>2. QED
  BY <1>1, SharedOperators, SharedDestroyed DEF FIFO!Clear, FIFO!Destroy, Vacated

LEMMA StepAcquire ==
    ASSUME NEW e \in Elements, Acquire(e), UNCHANGED <<Live, elementType, Contents>>
    PROVE  FIFO!Common
BY SharedOperators DEF FIFO!Common, Acquire, FIFO!Acquire, FIFO!sequence, NoOutput

-----------------------------------------------------------------------------
(* The steps of Queue_t.                                                   *)

LEMMA FrontLemma ==
    ASSUME Inv
    PROVE  /\ size \in Nat /\ Contents \in Seq(Elements) /\ Len(Contents) = size
           /\ FIFO!Waiting <=> size # 0
           /\ size = 0 <=> storage.head = NULL
           /\ size = 0 <=> storage.tail = NULL
           /\ size # 0 => /\ 0 \in 0 .. size - 1 /\ backIndex \in 0 .. size - 1
                          /\ backIndex + 1 = size
                          /\ CellOf(storage.head) = Contents[0 + 1]
                          /\ CellOf(storage.tail) = Contents[backIndex + 1]
<1>1. /\ size \in Nat /\ Contents \in Seq(Elements) /\ Len(Contents) = size
      /\ backIndex = size - 1
  BY InvLemma DEF backIndex
<1>2. 0 + 1 = 1 /\ backIndex + 1 = size
  BY <1>1
<1>3. FIFO!Waiting <=> size # 0
  BY <1>1, EmptySeq DEF FIFO!Waiting
<1>4. QED
  BY <1>1, <1>2, <1>3, EndsLemma

\* What every step does.
Kept == Safe /\ FIFO!Next

LEMMA KeptCreate ==
    ASSUME NEW type \in ElementTypes, NEW op, NEW count \in 0 .. SizeMax, Safe,
           (op = "Init" /\ count = 0) \/ op = "InitFrom",
           \/ ~ Live /\ Declined(op, count, NULL, Contents, Contents')
           \/ Created(op, type, Contents, Contents') /\ Len(Contents') = count
    PROVE  Kept
<1>1. CASE ~ Live /\ Declined(op, count, NULL, Contents, Contents')
  <2>1. FIFO!Fails(op, count, NULL)
    BY <1>1, DeclinedFails
  <2>2. count \in FIFO!Indices
    BY MemoryAssumption DEF FIFO!Indices
  <2>3. FIFO!CannotInitialize
    BY <1>1, <2>1, <2>2 DEF FIFO!CannotInitialize
  <2>4. QED
    BY <2>3 DEF Kept, FIFO!Next, FIFO!Common
<1>2. CASE Created(op, type, Contents, Contents') /\ Len(Contents') = count
  BY <1>2, StepInitialize DEF Kept, FIFO!Next, FIFO!Common
<1>3. QED
  BY <1>1, <1>2

LEMMA KeptInit ==
    ASSUME Inv, NEW type \in ElementTypes, qu_Init(type)
    PROVE  Kept
<1>1. 0 \in 0 .. SizeMax
  BY MemoryAssumption
<1>2. /\ Safe
      /\ \/ ~ Live /\ Declined("Init", 0, NULL, Contents, Contents')
         \/ Created("Init", type, Contents, Contents') /\ Len(Contents') = 0
  BY CreateEmptyInv DEF qu_Init, VTables
<1>3. QED
  BY <1>1, <1>2, KeptCreate

LEMMA KeptInitFromNull ==
    ASSUME Inv, NEW type \in ElementTypes, qu_InitFrom(NULL, 1, type)
    PROVE  Kept
<1>1. 1 \in 0 .. SizeMax
  BY MemoryAssumption
<1>2. /\ Safe
      /\ \/ ~ Live /\ Declined("InitFrom", 1, NULL, Contents, Contents')
         \/ Created("InitFrom", type, Contents, Contents') /\ Len(Contents') = 1
  <2> DEFINE taken == {NULL[i] : i \in 1 .. 1}
  <2>1. Create("InitFrom", "QUEUE_VTABLE", 1, taken, type,
               linkedStorage_InitFrom(mem, storage, NULL, 1, type.elementSize))
    BY DEF qu_InitFrom
  <2> HIDE DEF taken
  <2>2. "QUEUE_VTABLE" \in VTables /\ 1 # 0
    BY DEF VTables
  <2>3. QED
    BY <1>1, <2>1, <2>2, CreateFromInv
<1>3. QED
  BY <1>1, <1>2, KeptCreate

LEMMA KeptInitFrom ==
    ASSUME Inv, NEW type \in ElementTypes, NEW n \in 0 .. MaxInitial,
           NEW s \in [1 .. n -> Elements], OfferedArray(type, s), qu_InitFrom(s, n, type)
    PROVE  Kept
<1>1. n \in 0 .. SizeMax /\ n \in Nat
  BY MaxInitialAssumption, MemoryAssumption
<1>2. s \in Seq(Elements) /\ Len(s) = n /\ DOMAIN s = 1 .. n
  BY <1>1, FunctionSeq
<1>3. /\ Safe
      /\ \/ ~ Live /\ Declined("InitFrom", n, NULL, Contents, Contents')
         \/ Created("InitFrom", type, Contents, Contents') /\ Len(Contents') = n
  <2> DEFINE taken == {s[i] : i \in 1 .. n}
  <2>1. taken = {s[i] : i \in DOMAIN s}
    BY <1>2
  <2>2. Create("InitFrom", "QUEUE_VTABLE", n, taken, type,
               linkedStorage_InitFrom(mem, storage, s, n, type.elementSize))
    BY DEF qu_InitFrom
  <2> HIDE DEF taken
  <2>3. QED
    BY <1>1, <1>2, <2>1, <2>2, CreateFromInv DEF VTables
<1>4. QED
  BY <1>1, <1>3, KeptCreate

LEMMA KeptEnqueue ==
    ASSUME Inv, NEW element \in Sources, qu_detail_EnqueueRef(element)
    PROVE  Kept
<1>1. /\ Safe
      /\ \/ Declined("Enqueue", size, Meant(element), Contents, Contents')
         \/ StoredAt("Enqueue", size, Meant(element), Contents, Contents')
  BY AppendInv DEF qu_detail_EnqueueRef
<1>2. FIFO!Store("Enqueue", Len(Contents), Meant(element))
  BY <1>1, FrontLemma, StepStore
<1>3. Meant(element) \in FIFO!Storable
  BY SourceLemma, SharedOperators DEF FIFO!Storable
<1>4. QED
  BY <1>1, <1>2, <1>3 DEF Kept, FIFO!Next

LEMMA KeptRead ==
    ASSUME Inv, NEW op, NEW index, NEW out, NEW cell, size # 0,
           index \in 0 .. size - 1, cell = Contents[index + 1],
           Succeed(op, index, out, cell), UNCHANGED <<container, caller, released>>
    PROVE  Safe /\ FIFO!Read(op, index + 1, out)
<1>1. Safe /\ Idle(Contents, Contents')
  BY UnchangedInv
<1>2. ReadFrom(op, index, out, Contents, Contents')
  BY <1>1, FrontLemma DEF ReadFrom, Succeed
<1>3. QED
  BY <1>1, <1>2, StepRead

LEMMA KeptFront ==
    ASSUME Inv, NEW outElement \in {NULL, CallerVariable}, qu_Front(outElement)
    PROVE  Kept
<1>0. /\ Usable(outElement) \in {"usable", "unusable"}
      /\ Usable(outElement) = "usable" <=> outElement # NULL
  BY CallerOutput DEF Usable
<1> DEFINE refuses == outElement = NULL \/ size = 0 \/ storage.head = NULL
<1>1. refuses <=> ~ (size # 0 /\ Usable(outElement) = "usable")
  BY <1>0, FrontLemma
<1>2. CASE refuses
  <2>1. Safe /\ Declined("Front", 0, Usable(outElement), Contents, Contents')
    BY <1>2, FailInv DEF qu_Front
  <2>2. FIFO!FrontOf(Usable(outElement))
    BY <1>1, <1>2, <2>1, FrontLemma, DeclinedFails DEF FIFO!FrontOf
  <2>3. QED
    BY <1>0, <2>1, <2>2 DEF Kept, FIFO!Next
<1>3. CASE ~ refuses
  <2>1. /\ Succeed("Front", 0, Usable(outElement), CellOf(storage.head))
        /\ UNCHANGED <<container, caller, released>>
    BY <1>3 DEF qu_Front
  <2>2. Safe /\ FIFO!Read("Front", 0 + 1, Usable(outElement))
    BY <1>3, <2>1, FrontLemma, KeptRead
  <2>3. FIFO!FrontOf(Usable(outElement))
    BY <1>1, <1>3, <2>2 DEF FIFO!FrontOf
  <2>4. QED
    BY <1>0, <2>2, <2>3 DEF Kept, FIFO!Next
<1>4. QED
  BY <1>2, <1>3

LEMMA KeptBack ==
    ASSUME Inv, NEW outElement \in {NULL, CallerVariable}, qu_Back(outElement)
    PROVE  Kept
<1>0. /\ Usable(outElement) \in {"usable", "unusable"}
      /\ Usable(outElement) = "usable" <=> outElement # NULL
  BY CallerOutput DEF Usable
<1> DEFINE refuses == outElement = NULL \/ size = 0 \/ storage.tail = NULL
<1>1. refuses <=> ~ (size # 0 /\ Usable(outElement) = "usable")
  BY <1>0, FrontLemma
<1>2. backIndex = Len(Contents) - 1
  BY FrontLemma DEF backIndex
<1>3. CASE refuses
  <2>1. Safe /\ Declined("Back", backIndex, Usable(outElement), Contents, Contents')
    BY <1>3, FailInv DEF qu_Back
  <2>2. FIFO!BackOf(Usable(outElement))
    BY <1>1, <1>2, <1>3, <2>1, FrontLemma, DeclinedFails DEF FIFO!BackOf
  <2>3. QED
    BY <1>0, <2>1, <2>2 DEF Kept, FIFO!Next
<1>4. CASE ~ refuses
  <2>1. /\ Succeed("Back", backIndex, Usable(outElement), CellOf(storage.tail))
        /\ UNCHANGED <<container, caller, released>>
    BY <1>4 DEF qu_Back
  <2>2. Safe /\ FIFO!Read("Back", backIndex + 1, Usable(outElement))
    BY <1>4, <2>1, FrontLemma, KeptRead
  <2>3. FIFO!BackOf(Usable(outElement))
    BY <1>1, <1>4, <2>2, FrontLemma DEF FIFO!BackOf
  <2>4. QED
    BY <1>0, <2>2, <2>3 DEF Kept, FIFO!Next
<1>5. QED
  BY <1>3, <1>4

LEMMA KeptDequeue ==
    ASSUME Inv, NEW outElement \in Outputs, qu_Dequeue(outElement)
    PROVE  Kept
<1> DEFINE refuses ==
              \/ outElement = NULL
              \/ size = 0
              \/ linkedStorage_ContainsAddress(mem, storage, outElement, elementSize)
<1>1. Usable(outElement) \in {"usable", "unusable"}
  BY DEF Usable
<1>2. refuses <=> ~ (size # 0 /\ Usable(outElement) = "usable")
  <2>1. CASE size # 0
    <3>1. elementSize # 0
      BY <2>1, HeaderLemma
    <3>2. QED
      BY <2>1, <3>1, OutputLemma, CallerOutput
  <2>2. QED
    BY <2>1
<1>3. CASE refuses
  <2>1. Safe /\ Declined("Dequeue", 0, Usable(outElement), Contents, Contents')
    BY <1>3, FailInv DEF qu_Dequeue
  <2>2. FIFO!Dequeue(Usable(outElement))
    BY <1>2, <1>3, <2>1, FrontLemma, DeclinedFails DEF FIFO!Dequeue
  <2>3. QED
    BY <1>1, <2>1, <2>2 DEF Kept, FIFO!Next
<1>4. CASE ~ refuses
  <2>1. TakeAtIndex("Dequeue", 0, CellOf(storage.head), outElement)
    BY <1>4 DEF qu_Dequeue
  <2>2. 0 \in 0 .. size - 1 /\ CellOf(storage.head) = Contents[0 + 1]
    BY <1>4, FrontLemma
  <2>3. Safe /\ TakenFrom("Dequeue", 0, Usable(outElement), Contents, Contents')
    BY <2>1, <2>2, TakeInv
  <2>4. FIFO!Transfer("Dequeue", 0 + 1, Usable(outElement))
    BY <2>3, StepTransfer
  <2>5. FIFO!Dequeue(Usable(outElement))
    BY <1>2, <1>4, <2>4 DEF FIFO!Dequeue
  <2>6. QED
    BY <1>1, <2>3, <2>5 DEF Kept, FIFO!Next
<1>5. QED
  BY <1>3, <1>4

LEMMA KeptDiscard ==
    ASSUME Inv, qu_Discard
    PROVE  Kept
<1>1. CASE size = 0
  <2>1. Safe /\ Declined("Discard", 0, NULL, Contents, Contents')
    BY <1>1, FailInv DEF qu_Discard
  <2>2. FIFO!Discard
    BY <1>1, <2>1, FrontLemma, DeclinedFails DEF FIFO!Discard
  <2>3. QED
    BY <2>1, <2>2 DEF Kept, FIFO!Next
<1>2. CASE size # 0
  <2>1. RemoveAtIndex("Discard", 0, CellOf(storage.head))
    BY <1>2, FrontLemma DEF qu_Discard
  <2>2. 0 \in 0 .. size - 1 /\ CellOf(storage.head) = Contents[0 + 1]
    BY <1>2, FrontLemma
  <2>3. Safe /\ DeletedFrom("Discard", 0, Contents, Contents')
    BY <2>1, <2>2, RemoveInv
  <2>4. FIFO!Delete("Discard", 0 + 1)
    BY <2>3, StepDelete
  <2>5. FIFO!Discard
    BY <2>4 DEF FIFO!Discard
  <2>6. QED
    BY <2>3, <2>5 DEF Kept, FIFO!Next
<1>3. QED
  BY <1>1, <1>2

\* Every step keeps the invariant, changes nothing if it returns false, and is
\* a step of the abstract queue.
LEMMA NextKept ==
    ASSUME Inv, Next
    PROVE  Kept
<1>1. CASE qu_Clear
  BY <1>1, EmptyInv, StepVacated DEF qu_Clear, Kept, FIFO!Next, FIFO!Common
<1>2. CASE qu_Destroy
  BY <1>2, TearDownInv, StepVacated DEF qu_Destroy, Kept, FIFO!Next, FIFO!Common
<1>3. ASSUME NEW e \in Elements, Acquire(e), UNCHANGED container
      PROVE  Kept
  BY <1>3, AcquireInv, StepAcquire DEF Kept, FIFO!Next
<1>4. QED
  BY <1>1, <1>2, <1>3, KeptInit, KeptInitFromNull, KeptInitFrom, KeptEnqueue, KeptFront,
     KeptBack, KeptDequeue, KeptDiscard
  DEF Next

LEMMA StutterKept ==
    ASSUME Inv, UNCHANGED vars
    PROVE  Inv' /\ UNCHANGED FIFO!vars
<1>1. Safe /\ Idle(Contents, Contents')
  BY UnchangedInv DEF vars, container, ownership
<1>2. UNCHANGED FIFO!vars
  BY <1>1 DEF Idle, FIFO!vars, FIFO!ownership, FIFO!sequence, vars, ownership
<1>3. QED
  BY <1>1, <1>2 DEF Safe

LEMMA InitialQueue == Init => FIFO!Init
<1> SUFFICES ASSUME Init
             PROVE  FIFO!Init
  OBVIOUS
<1>1. /\ super = ZeroSuper /\ result = Called("none", 0, NULL, TRUE, NoOutput)
      /\ caller = Elements /\ released = [e \in Elements |-> 0]
  BY DEF Init, OwnershipInit
<1>2. ~ Live /\ elementType = ZeroType /\ size = 0
  BY <1>1 DEF Live, elementType, size, ZeroSuper
<1>3. Contents = <<>>
  BY InitInv
<1>4. FIFO!OwnershipInit
  BY <1>1, SharedOperators DEF FIFO!OwnershipInit
<1>5. QED
  BY <1>2, <1>3, <1>4, SharedOperators DEF FIFO!Init

-----------------------------------------------------------------------------
\* The invariant holds in every state Queue_t can be in.
THEOREM Invariance == Spec => []Inv
<1>1. Init => Inv
  BY InitInv
<1>2. Inv /\ [Next]_vars => Inv'
  BY NextKept, StutterKept DEF Kept, Safe
<1>3. QED
  BY <1>1, <1>2, PTL DEF Spec

\* Queue_t is well-typed: no size leaves the range of size_t, every link is
\* NULL or a node, every node has an element block (linked_storage.h,
\* abstract_data_type.h:70-78).
THEOREM TypeSafety == Spec => []TypeOK
<1>1. Inv => TypeOK
  BY InvImplies
<1>2. QED
  BY <1>1, Invariance, PTL

\* However many nodes were spliced in and cut out, and whatever allocation
\* failed in between, the links from head and those from tail visit the same
\* size nodes in opposite orders, so every loop ends, and head is NULL only when size
\* is 0, which Dequeue does not test (queue.c:165-168).
THEOREM LinkSafety == Spec => []WellLinked
<1>1. Inv => WellLinked
  BY InvImplies
<1>2. QED
  BY <1>1, Invariance, PTL

\* Every node that is allocated is on the chain and every block that is
\* allocated the element of one node, after any sequence of calls, those that
\* fail half-way included (linked_storage.c:38-61, 96-125, 139-247).
THEOREM LeakFreedom == Spec => []NothingLeaks
<1>1. Inv => NothingLeaks
  BY InvImplies
<1>2. QED
  BY <1>1, Invariance, PTL

\* While the elements own something, the resource of each has one owner: the
\* caller, one node of the queue, or nobody because it was released, once
\* (docs/ownership.md:72-83).
THEOREM OwnershipSafety == Spec => []OwnedOnce
<1>1. Inv => OwnedOnce
  BY InvImplies
<1>2. QED
  BY <1>1, Invariance, PTL

\* A call that returns false has changed nothing: not the queue, not a link, not
\* what is allocated, not the owner of an element (docs/ownership.md:83,
\* docs/storage.md:40-44).
THEOREM FailureAtomicity == Spec => FailureChangesNothing
<1>1. Inv /\ [Next]_vars => [~ result'.ok => UNCHANGED <<container, caller, released>>]_vars
  BY NextKept DEF Kept, Safe, Atomic
<1>2. QED
  BY <1>1, Invariance, PTL DEF Spec, FailureChangesNothing

\* A node that a call leaves on the chain keeps its element block and what is in
\* it: a pointer to an element stays valid while its node lives
\* (docs/storage.md:59).
THEOREM ElementStability == Spec => ElementsStay
<1>1. Inv /\ [Next]_vars =>
         [\A n \in DOMAIN mem.nodes \cap DOMAIN mem'.nodes :
             LET block == mem.nodes[n].data
             IN  /\ mem'.nodes[n].data = block
                 /\ block \in DOMAIN mem'.heap
                 /\ mem'.heap[block] # mem.heap[block] => result'.op = "Set"]_vars
  BY NextKept DEF Kept, Safe, Steady
<1>2. QED
  BY <1>1, Invariance, PTL DEF Spec, ElementsStay

\* Queue_t implements the abstract queue: whatever allocation fails and whatever
\* alias a source is, what leaves is what entered first, what is read is the
\* front or the back, and only the calls that may fail do (queue.c:45-236,
\* docs/queue.md).
THEOREM Refinement == Spec => ImplementsQueue
<1>1. Init => FIFO!Init
  BY InitialQueue
<1>2. Inv /\ [Next]_vars => [FIFO!Next]_FIFO!vars
  BY NextKept, StutterKept DEF Kept
<1>3. QED
  BY <1>1, <1>2, Invariance, PTL DEF Spec, ImplementsQueue, FIFO!Spec
=============================================================================
