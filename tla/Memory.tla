------------------------------- MODULE Memory -------------------------------
(***************************************************************************)
(* The C allocator and the pointers libadt passes around, as src/ uses     *)
(* them.  A heap is a function from the blocks that are allocated to their *)
(* cells; a cell is the room of one element.  malloc and realloc may       *)
(* always fail, and realloc may move, so each is the set of its outcomes.  *)
(*                                                                         *)
(* A pointer is NULL, or a block and a slot of it.  The elements a caller  *)
(* holds in variables of its own are slots of the block Caller, which the  *)
(* library never allocates.  What is read through a pointer into a block   *)
(* that was freed, past its last slot, or through NULL, is Junk.           *)
(***************************************************************************)
EXTENDS ElementType, Functions

CONSTANTS
    Blocks,     \* the addresses malloc can return
    Junk,       \* a cell nobody has written, or that is no longer ours
    Caller,     \* the block of the caller's own variables
    SizeMax,    \* SIZE_MAX
    Fresh(_)    \* which of the free addresses malloc may choose from

ASSUME MemoryAssumption ==
    /\ NULL \notin Blocks
    /\ Caller \notin Blocks \cup {NULL}
    /\ NULL \notin [block : Blocks, slot : 0 .. SizeMax]
    /\ NULL \notin [block : {Caller}, slot : Elements \cup {NULL}]
    /\ Junk \notin Elements
    /\ SizeMax \in Nat
    /\ SizeMax > 0
    /\ \A free \in SUBSET Blocks : Fresh(free) \subseteq free

Cells == Elements \cup {Junk}

EmptyHeap == [b \in {} |-> <<>>]

Alloc(heap, block, cells) ==
    [b \in DOMAIN heap \cup {block} |-> IF b = block THEN cells ELSE heap[b]]

\* free(NULL) does nothing: NULL is never in the domain of a heap.
Free(heap, block) == Restrict(heap, DOMAIN heap \ {block})

\* malloc, followed by the write of the cells.
Malloc(heap, cells) ==
    {[data |-> NULL, heap |-> heap]} \cup
    {[data |-> b, heap |-> Alloc(heap, b, cells)] : b \in Fresh(Blocks \ DOMAIN heap)}

Resized(heap, block, n) ==
    [i \in 0 .. n - 1 |->
        IF block # NULL /\ i \in DOMAIN heap[block] THEN heap[block][i] ELSE Junk]

\* realloc fails and keeps the old block, grows it in place, or moves it.
Realloc(heap, block, n) ==
    LET cells == Resized(heap, block, n)
    IN  {[data |-> NULL, heap |-> heap]} \cup
        {[data |-> b, heap |-> Alloc(heap, b, cells)] :
            b \in {block} \ {NULL}} \cup
        {[data |-> b, heap |-> Alloc(Free(heap, block), b, cells)] :
            b \in Fresh(Blocks \ DOMAIN heap)}

Address(block, slot) == [block |-> block, slot |-> slot]

\* The address of the caller's variable that holds the element e.
Variable(e) == Address(Caller, e)

Deref(heap, pointer) ==
    IF pointer # NULL /\ pointer.block = Caller
    THEN pointer.slot
    ELSE IF /\ pointer # NULL
            /\ pointer.block \in DOMAIN heap
            /\ pointer.slot \in DOMAIN heap[pointer.block]
    THEN heap[pointer.block][pointer.slot]
    ELSE Junk

\* memmove of n cells, which may overlap; it writes past the end if told to.
MoveCells(cells, to, from, n) ==
    [i \in DOMAIN cells \cup (to .. to + n - 1) |->
        IF i \in to .. to + n - 1
        THEN IF i - to + from \in DOMAIN cells THEN cells[i - to + from] ELSE Junk
        ELSE cells[i]]

WriteCell(cells, slot, e) ==
    [i \in DOMAIN cells \cup {slot} |-> IF i = slot THEN e ELSE cells[i]]
=============================================================================
