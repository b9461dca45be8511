--------------------------- MODULE LinkedStorage ----------------------------
(***************************************************************************)
(* src/shared/storage/linked_storage.c: a doubly linked chain of nodes     *)
(* with an element allocation each, the storage of LinkedList_t and        *)
(* Queue_t.                                                                *)
(*                                                                         *)
(* A storage is the record LinkedStorage_t, [head, tail].  The memory it   *)
(* lives in has a heap of element blocks (module Memory, one cell each)    *)
(* and the nodes that are allocated, [previous, next, data].  As for the   *)
(* contiguous storage, a function that allocates is the set of its         *)
(* outcomes [ok, mem, storage], and the container passes count.            *)
(***************************************************************************)
EXTENDS Memory, FiniteSets

CONSTANT Nodes      \* the addresses malloc can return for a node

ASSUME NodesAssumption ==
    /\ NULL \notin Nodes
    /\ IsFiniteSet(Nodes)
    /\ \A free \in SUBSET Nodes : Fresh(free) \subseteq free

EmptyMemory == [nodes |-> [n \in {} |-> <<>>], heap |-> EmptyHeap]
EmptyLinks == [head |-> NULL, tail |-> NULL]

LinkOutcome(ok, mem, storage) == [ok |-> ok, mem |-> mem, storage |-> storage]

\* One link of every node.  A walk stops at NULL; at a node that was freed it
\* stops too, and where it stands is not a node.
Links(nodes, link) ==
    [n \in Nodes \cup {NULL} |-> IF n \in DOMAIN nodes THEN nodes[n][link] ELSE n]

\* Where a walk stands after k links.
Follow(nodes, start, link, k) ==
    LET after[i \in 0 .. k] ==
            IF i = 0 THEN start ELSE Links(nodes, link)[after[i - 1]]
    IN  after[k]

\* The nodes a loop over the links visits, in order; one more than there are if
\* the loop never ends.
Walk(nodes, start, link) ==
    LET visits == {k \in 0 .. Cardinality(Nodes) : Follow(nodes, start, link, k) \in DOMAIN nodes}
    IN  [i \in 1 .. Cardinality(visits) |-> Follow(nodes, start, link, i - 1)]

Visited(nodes, start, link) == Range(Walk(nodes, start, link))

-----------------------------------------------------------------------------
(* Finding a node.                                                         *)

\* A slip: the walk from the tail makes one step too many.
NodeAt_PastTail(mem, storage, count, index) ==
    IF index >= count
    THEN NULL
    ELSE IF index < count \div 2
    THEN Follow(mem.nodes, storage.head, "next", index)
    ELSE Follow(mem.nodes, storage.tail, "previous", count - index)

\* From the nearer end.
NodeAt(mem, storage, count, index) ==
    IF index >= count
    THEN NULL
    ELSE IF index < count \div 2
    THEN Follow(mem.nodes, storage.head, "next", index)
    ELSE Follow(mem.nodes, storage.tail, "previous", count - 1 - index)

\* The address of the element at an index, NULL if the chain has no such node.
linkedStorage_At(mem, storage, count, index) ==
    LET node == NodeAt(mem, storage, count, index)
    IN  IF node \in DOMAIN mem.nodes THEN Address(mem.nodes[node].data, 0) ELSE NULL

linkedStorage_ContainsAddress(mem, storage, address, elementSize) ==
    /\ address # NULL
    /\ elementSize # 0
    /\ \E n \in Visited(mem.nodes, storage.head, "next") :
          n \in DOMAIN mem.nodes /\ mem.nodes[n].data = address.block

-----------------------------------------------------------------------------
(* Adding a node.                                                          *)

\* A slip: the node is not freed when there is no room for its element.
CreateNode_Leaks(mem, element, elementSize) ==
    {[node |-> NULL, mem |-> mem]} \cup
    {LET nodes == Alloc(mem.nodes, n, [previous |-> NULL, next |-> NULL, data |-> m.data])
     IN  [node |-> IF m.data = NULL THEN NULL ELSE n,
          mem  |-> [nodes |-> nodes, heap |-> m.heap]] :
        n \in IF element = NULL \/ elementSize = 0 THEN {} ELSE Fresh(Nodes \ DOMAIN mem.nodes),
        m \in Malloc(mem.heap, [i \in {0} |-> Deref(mem.heap, element)])}

\* Two allocations, either of which may fail; the node is given back when the
\* one for its element does.
CreateNode(mem, element, elementSize) ==
    {[node |-> NULL, mem |-> mem]} \cup
    {IF m.data = NULL
     THEN [node |-> NULL, mem |-> mem]
     ELSE [node |-> n,
           mem  |-> [nodes |-> Alloc(mem.nodes, n,
                                [previous |-> NULL, next |-> NULL, data |-> m.data]),
                     heap  |-> m.heap]] :
        n \in IF element = NULL \/ elementSize = 0 THEN {} ELSE Fresh(Nodes \ DOMAIN mem.nodes),
        m \in Malloc(mem.heap, [i \in {0} |-> Deref(mem.heap, element)])}

\* The nodes with one link of one node changed; nothing if it is NULL.
Link(nodes, node, link, target) ==
    [n \in DOMAIN nodes |->
        IF n = node THEN [nodes[n] EXCEPT ![link] = target] ELSE nodes[n]]

linkedStorage_Prepend(mem, storage, element, elementSize) ==
    {IF c.node = NULL
     THEN LinkOutcome(FALSE, c.mem, storage)
     ELSE LET linked == Link(c.mem.nodes, c.node, "next", storage.head)
          IN  LinkOutcome(TRUE,
                 [c.mem EXCEPT !.nodes = Link(linked, storage.head, "previous", c.node)],
                 [head |-> c.node,
                  tail |-> IF storage.head = NULL THEN c.node ELSE storage.tail]) :
        c \in CreateNode(mem, element, elementSize)}

\* A slip: the old last node keeps its link to NULL.
linkedStorage_Append_HalfLinked(mem, storage, element, elementSize) ==
    {IF c.node = NULL
     THEN LinkOutcome(FALSE, c.mem, storage)
     ELSE LinkOutcome(TRUE,
             [c.mem EXCEPT !.nodes = Link(c.mem.nodes, c.node, "previous", storage.tail)],
             [head |-> IF storage.tail = NULL THEN c.node ELSE storage.head,
              tail |-> c.node]) :
        c \in CreateNode(mem, element, elementSize)}

linkedStorage_Append(mem, storage, element, elementSize) ==
    {IF c.node = NULL
     THEN LinkOutcome(FALSE, c.mem, storage)
     ELSE LET linked == Link(c.mem.nodes, c.node, "previous", storage.tail)
          IN  LinkOutcome(TRUE,
                 [c.mem EXCEPT !.nodes = Link(linked, storage.tail, "next", c.node)],
                 [head |-> IF storage.tail = NULL THEN c.node ELSE storage.head,
                  tail |-> c.node]) :
        c \in CreateNode(mem, element, elementSize)}

\* Lines 160-176: a node before the one at index, which is neither end's.
InsertBefore(mem, storage, next, element, elementSize) ==
    {IF c.node = NULL
     THEN LinkOutcome(FALSE, c.mem, storage)
     ELSE LET before == c.mem.nodes[next].previous
              placed == Link(Link(c.mem.nodes, c.node, "previous", before),
                             c.node, "next", next)
          IN  LinkOutcome(TRUE,
                 [c.mem EXCEPT !.nodes = Link(Link(placed, before, "next", c.node),
                                              next, "previous", c.node)],
                 storage) :
        c \in CreateNode(mem, element, elementSize)}

\* A slip: the guard against a count past SIZE_MAX is missing.
CannotLink_Wraps(count, index, element, elementSize) ==
    element = NULL \/ elementSize = 0 \/ index > count

CannotLink(count, index, element, elementSize) ==
    element = NULL \/ elementSize = 0 \/ index > count \/ count = SizeMax

linkedStorage_Insert(mem, storage, count, index, element, elementSize) ==
    IF CannotLink(count, index, element, elementSize)
    THEN {LinkOutcome(FALSE, mem, storage)}
    ELSE IF index = 0
    THEN linkedStorage_Prepend(mem, storage, element, elementSize)
    ELSE IF index = count
    THEN linkedStorage_Append(mem, storage, element, elementSize)
    ELSE LET next == NodeAt(mem, storage, count, index)
         IN  IF next \notin DOMAIN mem.nodes
             THEN {LinkOutcome(FALSE, mem, storage)}
             ELSE InsertBefore(mem, storage, next, element, elementSize)

-----------------------------------------------------------------------------
(* Removing nodes.                                                         *)

\* A slip: the tail is not moved when the last node goes.
UnlinkNode_KeepsTail(mem, storage, node) ==
    LET gone  == mem.nodes[node]
        first == Link(mem.nodes, gone.previous, "next", gone.next)
    IN  [nodes   |-> Link(first, gone.next, "previous", gone.previous),
         storage |-> [head |-> IF gone.previous = NULL THEN gone.next ELSE storage.head,
                      tail |-> storage.tail]]

UnlinkNode(mem, storage, node) ==
    LET gone  == mem.nodes[node]
        first == Link(mem.nodes, gone.previous, "next", gone.next)
    IN  [nodes   |-> Link(first, gone.next, "previous", gone.previous),
         storage |-> [head |-> IF gone.previous = NULL THEN gone.next ELSE storage.head,
                      tail |-> IF gone.next = NULL THEN gone.previous ELSE storage.tail]]

\* A slip: the next element is copied into the node, and the next node erased.
linkedStorage_Erase_CopiesNext(mem, storage, count, index) ==
    LET node == NodeAt(mem, storage, count, index)
        next == IF node \in DOMAIN mem.nodes THEN mem.nodes[node].next ELSE NULL
        gone == IF next \in DOMAIN mem.nodes THEN next ELSE node
    IN  IF node \notin DOMAIN mem.nodes
        THEN LinkOutcome(FALSE, mem, storage)
        ELSE LET u == UnlinkNode(mem, storage, gone)
                 block == mem.nodes[node].data
             IN  LinkOutcome(TRUE,
                    [nodes |-> Free(u.nodes, gone),
                     heap  |-> Free(Alloc(mem.heap, block, mem.heap[mem.nodes[gone].data]),
                                    mem.nodes[gone].data)],
                    u.storage)

linkedStorage_Erase(mem, storage, count, index) ==
    LET node == NodeAt(mem, storage, count, index)
    IN  IF node \notin DOMAIN mem.nodes
        THEN LinkOutcome(FALSE, mem, storage)
        ELSE LET u == UnlinkNode(mem, storage, node)
             IN  LinkOutcome(TRUE,
                    [nodes |-> Free(u.nodes, node),
                     heap  |-> Free(mem.heap, mem.nodes[node].data)],
                    u.storage)

\* Every node the loop reaches, and the element of each, is freed.
linkedStorage_Destroy(mem, storage) ==
    LET reached == Visited(mem.nodes, storage.head, "next")
        kept    == {b \in DOMAIN mem.heap :
                       \A n \in reached \cap DOMAIN mem.nodes : mem.nodes[n].data # b}
    IN  LinkOutcome(TRUE,
           [nodes |-> Restrict(mem.nodes, DOMAIN mem.nodes \ reached),
            heap  |-> Restrict(mem.heap, kept)],
           EmptyLinks)

-----------------------------------------------------------------------------
(* Creation.                                                               *)

linkedStorage_Init(mem, storage) == LinkOutcome(TRUE, mem, EmptyLinks)

\* Lines 112-121 up to the i-th element, in a storage of their own: the first
\* append that fails ends the loop.
Appended(mem, elements, count, elementSize) ==
    LET after[i \in 0 .. count] ==
            IF i = 0
            THEN {linkedStorage_Init(mem, EmptyLinks)}
            ELSE UNION {IF o.ok
                        THEN linkedStorage_Append(o.mem, o.storage, Variable(elements[i]),
                                                  elementSize)
                        ELSE {o} : o \in after[i - 1]}
    IN  after[count]

\* A slip: the nodes that were appended before the failure are abandoned.
InitFromOutcome_Abandons(o, storage) ==
    IF o.ok THEN o ELSE LinkOutcome(FALSE, o.mem, storage)

\* Lines 116-124: a partial chain is destroyed again, a complete one is kept.
InitFromOutcome(o, storage) ==
    IF o.ok THEN o
    ELSE LinkOutcome(FALSE, linkedStorage_Destroy(o.mem, o.storage).mem, storage)

linkedStorage_InitFrom(mem, storage, elements, count, elementSize) ==
    IF \/ elementSize = 0
       \/ elements = NULL /\ count > 0
       \/ count > SizeMax \div elementSize
    THEN {LinkOutcome(FALSE, mem, storage)}
    ELSE {InitFromOutcome(o, storage) : o \in Appended(mem, elements, count, elementSize)}
=============================================================================
