-------------------------- MODULE LinkedTraversal ---------------------------
(***************************************************************************)
(* The traversal of a linked container: adt_ForEach, adt_ForEachMutable    *)
(* and the visitors of linked_list.c and queue.c, whose loops are alike.   *)
(*                                                                         *)
(* While the visitor runs, it may call operations of the container it      *)
(* visits, here the type-based ones.  The loop reads node->next            *)
(* afterwards, so that a visitor must not erase the node it is at; what    *)
(* else it leaves alone is Contract.                                       *)
(***************************************************************************)
EXTENDS LinkedContainer, PrimitiveDispatch

VARIABLE kind   \* the C type of the container, LinkedList_t or Queue_t

List == INSTANCE ListPrimitives
Queue == INSTANCE QueuePrimitives

\* Visitors change nothing but what lies behind the element they are at, or also
\* what lies before it.
Visitors == {"behind", "anywhere"}

\* The running traversal: [pc, visitor, node, index], and of the nodes that
\* were never erased since it began, those it began with (stayed) and those it has
\* shown (seen).
VARIABLE visit

NotVisiting ==
    [pc |-> "idle", visitor |-> NULL, node |-> NULL, index |-> 0, stayed |-> {},
     seen |-> {}]

TraversalInit ==
    /\ Init
    /\ kind \in {"LinkedList_t", "Queue_t"}
    /\ visit = NotVisiting

\* adt_ForEachMutable, and adt_ForEach, whose visitors are those that write nothing.
\* The visitor function may be NULL.
adt_ForEach(visitor) ==
    /\ visit.pc = "idle"
    /\ IF ~ Live \/ visitor = NULL
       THEN Fail("ForEach", 0, NULL) /\ UNCHANGED visit
       ELSE /\ visit' = [NotVisiting EXCEPT !.pc = "loop", !.visitor = visitor,
                                            !.node = storage.head, !.stayed = Range(Chain)]
            /\ UNCHANGED vars

CallVisitor ==
    /\ visit.pc = "loop" /\ visit.node # NULL
    /\ visit' = [visit EXCEPT !.pc = "callback", !.seen = @ \cup {visit.node}]
    /\ Succeed("Visit", visit.index, NULL, CellOf(visit.node))
    /\ UNCHANGED <<container, caller, released>>

\* index is a size_t: it wraps in a loop that visitors keep going.
Counted(index) == (index + 1) % (SizeMax + 1)

\* Two slips: the next node is looked up by its index; the last leads to the first.
VisitorReturns_ByIndex ==
    /\ visit.pc = "callback"
    /\ visit' = [visit EXCEPT !.pc = "loop", !.index = Counted(@),
                              !.node = IF visit.index + 1 < Len(Chain)
                                       THEN Chain[visit.index + 2] ELSE NULL]
    /\ UNCHANGED vars

VisitorReturns_Around ==
    /\ visit.pc = "callback"
    /\ visit' = [visit EXCEPT !.pc = "loop", !.index = Counted(@),
                              !.node = IF mem.nodes[@].next = NULL THEN storage.head
                                       ELSE mem.nodes[@].next]
    /\ UNCHANGED vars

VisitorReturns ==
    /\ visit.pc = "callback"
    /\ visit' = [visit EXCEPT !.pc = "loop", !.index = Counted(@),
                              !.node = mem.nodes[@].next]
    /\ UNCHANGED vars

\* A slip: the loop ends at the tail it has reached.
EndVisit_AtTail ==
    /\ visit.pc = "loop" /\ visit.node \in {NULL, storage.tail}
    /\ visit' = NotVisiting
    /\ Succeed("ForEach", 0, NULL, NoOutput)
    /\ UNCHANGED <<container, caller, released>>

EndVisit ==
    /\ visit.pc = "loop" /\ visit.node = NULL
    /\ visit' = NotVisiting
    /\ Succeed("ForEach", 0, NULL, NoOutput)
    /\ UNCHANGED <<container, caller, released>>

\* A mutable visitor writes through the pointer it was given: an element stays
\* where it is until its node is erased (docs/storage.md:59).
WriteElement(e) ==
    /\ visit.pc = "callback" /\ Width(e) = elementSize
    /\ mem' = [mem EXCEPT !.heap[ElementOf(visit.node).block][0] = e]
    /\ result' = Called("Write", visit.index, e, TRUE, NoOutput)
    /\ UNCHANGED <<super, storage, caller, released, visit>>

VisitStep == CallVisitor \/ VisitorReturns \/ EndVisit

Traverse ==
    \/ \E visitor \in Visitors \cup {NULL} : adt_ForEach(visitor)
    \/ \E e \in Elements : WriteElement(e)
    \/ VisitStep

\* The node the visitor is at and the nodes before it stay where they are.
FrontStays ==
    \A i \in DOMAIN Chain : i <= visit.index + 1 => i <= Len(Chain') /\ Chain'[i] = Chain[i]

Contract ==
    visit.pc = "callback" =>
        /\ visit.node \in DOMAIN mem'.nodes
        /\ visit.visitor = "behind" => FrontStays

\* The owner of the container, or the visitor, calls an operation.
Operation ==
    /\ visit.pc # "loop"
    /\ \/ kind = "LinkedList_t" /\ List!TypedNext
       \/ kind = "Queue_t" /\ Queue!TypedNext
    /\ Contract
    /\ visit' = [visit EXCEPT !.stayed = @ \cap DOMAIN mem'.nodes,
                              !.seen = @ \cap DOMAIN mem'.nodes]

TraversalNext == (Traverse \/ Operation) /\ UNCHANGED kind

\* A traversal runs on, and a visitor returns.
TraversalSpec ==
    /\ TraversalInit
    /\ [][TraversalNext]_<<vars, visit, kind>>
    /\ WF_<<vars, visit>>(VisitStep)

-----------------------------------------------------------------------------
\* linked_list.c:6-36, queue.c:6-38: whatever a visitor inserts or erases besides the
\* node it is at, it is shown elements of the container only, none of them
\* twice, and every element that is there from the beginning to the end.
SurvivorsShownOnce ==
    [][/\ visit.pc = "loop" /\ visit'.pc = "callback" =>
             /\ visit.node \in Range(Chain) \ visit.seen
             /\ result'.out \in Elements
       /\ visit.pc = "loop" /\ visit'.pc = "idle" => visit.stayed \subseteq visit.seen
      ]_<<vars, visit>>

ForEach == INSTANCE ForEachADT WITH
    live <- Live,
    contents <- Contents,
    pc <- visit.pc,
    index <- visit.index

\* The loop follows links and counts: the index it tells the visitor is the index
\* of the element, and the end of the chain the end of the container, as long as
\* visitors insert and erase behind the element they are at only.
ImplementsForEach ==
    /\ ForEach!Init
    /\ []["anywhere" \in {visit.visitor, visit'.visitor} \/ ForEach!Next]_ForEach!vars

\* A traversal returns if its visitor does, and adds nothing before itself.
VisitEnds == visit.visitor = "behind" ~> visit.pc = "idle"

\* README.md:153 and tests/test_primitive_values.cpp:110-130: for arguments of any
\* type a call, from a visitor or not, either does what ListADT or QueueADT says,
\* and the container holds elements of one width, or fails and changes nothing
\* because the value is not as wide as the elements are.  That includes
\* containers that were destroyed and initialised again for another type.
ImplementsTyped ==
    /\ [](\A i \in 1 .. size : ~ Misfit(Contents[i]))
    /\ [][CASE Misfit(result'.arg) -> List!List!Fails(result'.op, result'.index, result'.arg)
           [] OTHER -> \/ result'.op \in {"ForEach", "Visit", "Write"}
                       \/ IF kind = "Queue_t" THEN Queue!FIFO!Next ELSE List!List!Next]_vars
=============================================================================
