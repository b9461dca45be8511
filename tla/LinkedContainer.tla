-------------------------- MODULE LinkedContainer ---------------------------
(***************************************************************************)
(* What LinkedList_t and Queue_t have in common: the shared header super   *)
(* and a linked storage, written the same way in linked_list.c and         *)
(* queue.c.                                                                *)
(***************************************************************************)
EXTENDS LinkedStorage, AbstractDataType

VARIABLES
    storage,    \* LinkedStorage_t: [head, tail]
    mem         \* [nodes, heap]: what is allocated

container == <<super, storage, mem>>
vars == <<container, ownership>>

\* The nodes from head to tail, and the address and value of their elements.
Chain == Walk(mem.nodes, storage.head, "next")
ElementOf(node) ==
    IF node \in DOMAIN mem.nodes THEN Address(mem.nodes[node].data, 0) ELSE NULL
CellOf(node) == Deref(mem.heap, ElementOf(node))

ElementAt(index) == linkedStorage_At(mem, storage, size, index)
CellAt(index) == Deref(mem.heap, ElementAt(index))

\* The elements in the order in which a traversal visits them.
NodeCells == [n \in Nodes |-> CellOf(n)]
Contents == [i \in 1 .. Len(Chain) |-> NodeCells[Chain[i]]]

Slots == {ElementOf(n) : n \in DOMAIN mem.nodes}
Sources == SourcesAmong(Slots)
Outputs == OutputsAmong(Slots)
Meant(element) == MeantIn(mem.heap, element)

\* The address of the element at an index, which may replace itself.
OwnSlot(index) == {ElementAt(index)} \ {NULL}

Fail(op, index, arg) ==
    /\ result' = Called(op, index, arg, FALSE, NoOutput)
    /\ UNCHANGED <<container, caller, released>>

Init ==
    /\ OwnershipInit
    /\ super = ZeroSuper
    /\ storage = EmptyLinks
    /\ mem = EmptyMemory

-----------------------------------------------------------------------------
\* Init and InitFrom set the storage up in a local variable, and write the
\* container only if that succeeded.
Create(op, vtable, count, taken, type, outcomes) ==
    /\ ~ Live
    /\ \E r \in outcomes :
          /\ mem' = r.mem
          /\ result' = Called(op, count, NULL, r.ok, NoOutput)
          /\ IF r.ok
             THEN /\ super' = [vtable |-> vtable, size |-> count, elementType |-> type]
                  /\ storage' = r.storage
                  /\ caller' = HandedOver(type, taken)
             ELSE UNCHANGED <<super, storage, caller>>
    /\ UNCHANGED released

\* ll_Init and qu_Init: elementSize == 0 is refused, nothing is allocated.
CreateEmpty(vtable, type) ==
    Create("Init", vtable, 0, {}, type,
           {IF type.elementSize = 0
            THEN LinkOutcome(FALSE, mem, storage)
            ELSE linkedStorage_Init(mem, storage)})

\* An element is counted only once it is stored.
StoreOutcome(op, index, element, outcomes) ==
    /\ \E r \in outcomes :
          /\ mem' = r.mem
          /\ storage' = r.storage
          /\ result' = Called(op, index, Meant(element), r.ok, NoOutput)
          /\ IF r.ok
             THEN super' = Grown /\ caller' = HandedOver(elementType, {Meant(element)})
             ELSE UNCHANGED <<super, caller>>
    /\ UNCHANGED released

\* ll_detail_AppendRef and qu_detail_EnqueueRef go to the storage directly and
\* make the checks that linkedStorage_Insert would make.
AppendToStorage(op, element) ==
    StoreOutcome(op, size, element,
        IF element = NULL \/ elementSize = 0 \/ size = SizeMax
        THEN {LinkOutcome(FALSE, mem, storage)}
        ELSE linkedStorage_Append(mem, storage, element, elementSize))

\* destroy is called on the element (cell), then its node is erased.
RemoveAtIndex(op, index, cell) ==
    LET r == linkedStorage_Erase(mem, storage, size, index)
    IN  /\ released' = Destroyed(elementType, <<cell>>)
        /\ mem' = r.mem
        /\ storage' = r.storage
        /\ super' = IF r.ok THEN Shrunk ELSE super
        /\ result' = Called(op, index, NULL, r.ok, NoOutput)
        /\ UNCHANGED caller

\* The element (cell) is copied to the caller's variable, then its node is erased.
TakeAtIndex(op, index, cell, outElement) ==
    LET r == linkedStorage_Erase(mem, storage, size, index)
    IN  /\ mem' = r.mem
        /\ storage' = r.storage
        /\ super' = IF r.ok THEN Shrunk ELSE super
        /\ result' = Called(op, index, Usable(outElement), r.ok,
                            IF r.ok THEN cell ELSE NoOutput)
        /\ caller' = HandedBack(elementType, cell)
        /\ UNCHANGED released

\* Every element on the chain is destroyed, then the whole chain is freed.
Emptied(op, newSuper) ==
    LET r == linkedStorage_Destroy(mem, storage)
    IN  /\ released' = Destroyed(elementType, Contents)
        /\ mem' = r.mem
        /\ storage' = r.storage
        /\ super' = newSuper
        /\ Succeed(op, 0, NULL, NoOutput)
        /\ UNCHANGED caller

Empty == Emptied("Clear", [super EXCEPT !.size = 0])
TearDown == Emptied("Destroy", ZeroSuper)

-----------------------------------------------------------------------------
(* Properties of both containers.                                          *)

\* Every variable has its C type (linked_storage.h, abstract_data_type.h:70-78).
TypeOK ==
    /\ super \in ADT_Super_t(0 .. SizeMax)
    /\ storage \in [head : Nodes \cup {NULL}, tail : Nodes \cup {NULL}]
    /\ DOMAIN mem.nodes \subseteq Nodes
    /\ \A n \in DOMAIN mem.nodes :
          mem.nodes[n] \in [previous : Nodes \cup {NULL}, next : Nodes \cup {NULL},
                            data : Blocks]
    /\ DOMAIN mem.heap \subseteq Blocks
    /\ \A b \in DOMAIN mem.heap : mem.heap[b] \in [{0} -> Cells]
    /\ caller \subseteq Elements
    /\ released \in [Elements -> Nat]

\* Following next from head and previous from tail visits the same nodes, in
\* opposite orders, and size of them: so it does not matter from which end
\* NodeAtConst walks (linked_storage.c:14-29), and every loop ends.  The dequeue
\* and the traversals read head->data without a test on this ground.
WellLinked ==
    LET chain == Chain
        back  == Walk(mem.nodes, storage.tail, "previous")
    IN  /\ Len(chain) = size
        /\ Len(back) = size
        /\ \A i \in 1 .. size : chain[i] \in DOMAIN mem.nodes /\ back[i] = chain[size + 1 - i]

\* Every node that is allocated is on the chain, every block that is allocated
\* is the element of exactly one node: nothing leaks, whatever allocation of
\* whatever call failed, and no two elements share memory.
NothingLeaks ==
    /\ DOMAIN mem.nodes = Visited(mem.nodes, storage.head, "next")
    /\ DOMAIN mem.heap = {mem.nodes[n].data : n \in DOMAIN mem.nodes}
    /\ \A m, n \in DOMAIN mem.nodes : mem.nodes[m].data = mem.nodes[n].data => m = n

\* docs/ownership.md:72-83.  While the elements own something, every resource
\* has exactly one owner, and none is released twice.
OwnedOnce == OneOwner(Contents)

\* docs/ownership.md:83 and docs/storage.md:40-44: a call that returns false
\* has changed nothing, neither the container nor what is allocated nor an
\* owner; in particular InitFrom gives back the nodes it had already appended.
FailureChangesNothing ==
    [][~ result'.ok => UNCHANGED <<container, caller, released>>]_vars

\* docs/storage.md:59: "A linked element pointer stays valid until its node is
\* erased or the storage is destroyed."  A node that is on the chain before and
\* after a step keeps its element block, and only Set changes what is in one.
ElementsStay ==
    [][\A n \in DOMAIN mem.nodes \cap DOMAIN mem'.nodes :
          LET block == mem.nodes[n].data
          IN  /\ mem'.nodes[n].data = block
              /\ block \in DOMAIN mem'.heap
              /\ mem'.heap[block] # mem.heap[block] => result'.op = "Set"]_vars
=============================================================================
