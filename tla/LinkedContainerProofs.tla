------------------------ MODULE LinkedContainerProofs -------------------------
(***************************************************************************)
(* The inductive invariant of LinkedList_t and Queue_t, and what each of   *)
(* the steps they are made of does to it.                                  *)
(*                                                                         *)
(* The chain is described by the sequence c of its nodes: Linked says that *)
(* these are all nodes there are, each linked to its neighbours in c, and  *)
(* Filled that each has an element block of its own and that there is no   *)
(* other.  Adding a node inserts it into c, and removing one removes it,   *)
(* whatever links were rewritten to that end.  As in                       *)
(* ContiguousContainerProofs, each step is then shown to preserve the      *)
(* invariant, to change nothing if the call returns false, and to have one *)
(* of the effects of OwnershipProofs on the sequence of the elements.      *)
(***************************************************************************)
EXTENDS LinkedContainer, OwnershipProofs

\* The i-th node of a chain; there is none before the first and after the last.
At(c, i) == IF i \in 1 .. Len(c) THEN c[i] ELSE NULL

Node == [previous : Nodes \cup {NULL}, next : Nodes \cup {NULL}, data : Blocks]

Typed(nodes) == nodes \in [DOMAIN nodes -> Node]

\* The nodes are those of the chain c, linked in its order.
Linked(nodes, store, c) ==
    /\ c \in Seq(Nodes)
    /\ \A i, j \in 1 .. Len(c) : c[i] = c[j] => i = j
    /\ nodes \in [{c[i] : i \in 1 .. Len(c)} -> Node]
    /\ \A i \in 1 .. Len(c) : /\ nodes[c[i]].previous = At(c, i - 1)
                              /\ nodes[c[i]].next = At(c, i + 1)
    /\ store = [head |-> At(c, 1), tail |-> At(c, Len(c))]

BlocksOf(nodes) == {nodes[n].data : n \in DOMAIN nodes}

\* What is allocated are the nodes and a block with one element for each.
Filled(m) ==
    /\ m = [nodes |-> m.nodes, heap |-> m.heap]
    /\ m.heap \in [BlocksOf(m.nodes) -> [{0} -> Elements]]
    /\ \A p, q \in DOMAIN m.nodes : m.nodes[p].data = m.nodes[q].data => p = q

Sound(m, store, c) == Linked(m.nodes, store, c) /\ Filled(m)

Consistent(header, m, store, c) ==
    /\ header \in ADT_Super_t(0 .. SizeMax)
    /\ Sound(m, store, c)
    /\ header.size = Len(c)
    /\ header.vtable # NULL => header.elementType.elementSize > 0
    /\ header.vtable = NULL => header = ZeroSuper

Accounts == Accounted(elementType, caller, released, Contents)

Inv ==
    /\ Consistent(super, mem, storage, Chain)
    /\ caller \subseteq Elements
    /\ released \in [Elements -> Nat]
    /\ Accounts

-----------------------------------------------------------------------------
(* Following the links.                                                    *)

\* Induction, for lack of a rule: a set of numbers that is not empty has a least.
LEMMA Least ==
    ASSUME NEW T \in SUBSET Nat, T # {}
    PROVE  \E x \in T : \A y \in T : x <= y
<1> DEFINE Below == {0 .. n : n \in T}
<1>1. IsWellFoundedOn(StrictSubsetOrdering(Nat), FiniteSubsetsOf(Nat))
  BY FS_StrictSubsetOrderingWellFounded
<1>2. Below \subseteq FiniteSubsetsOf(Nat) /\ Below # {}
  <2>1. \A n \in T : IsFiniteSet(0 .. n)
    BY FS_Interval
  <2>2. \A n \in T : 0 .. n \subseteq Nat
    OBVIOUS
  <2>3. QED
    BY <2>1, <2>2 DEF FiniteSubsetsOf
<1> HIDE DEF Below
<1>3. PICK D \in Below : \A E \in Below : ~ (<<E, D>> \in StrictSubsetOrdering(Nat))
  BY <1>1, <1>2, WFMin
<1>4. PICK x \in T : D = 0 .. x
  BY DEF Below
<1>5. ASSUME NEW y \in T, y < x
      PROVE  FALSE
  <2> DEFINE A == 0 .. y
             B == 0 .. x
  <2>1. A \in Below /\ A \in SUBSET Nat /\ B \in SUBSET Nat /\ A \subseteq B
    BY <1>5 DEF Below
  <2>2. A # B
    BY <1>5
  <2> HIDE DEF A
  <2>3. <<A, B>> \in StrictSubsetOrdering(Nat)
    <3> HIDE DEF B
    <3>1. QED
      BY <2>1, <2>2 DEF StrictSubsetOrdering
  <2>4. QED
    BY <1>3, <1>4, <2>1, <2>3
<1>6. QED
  BY <1>5

\* A walk stands where a function says that makes the same steps.
LEMMA FollowLemma ==
    ASSUME NEW nodes, NEW start, NEW link, NEW k \in Nat, NEW g,
           g[0] = start,
           \A i \in 1 .. k : g[i] = Links(nodes, link)[g[i - 1]]
    PROVE  Follow(nodes, start, link, k) = g[k]
<1> DEFINE step(x) == Links(nodes, link)[x]
           Steps(f) == f = [i \in 0 .. k |-> IF i = 0 THEN start ELSE step(f[i - 1])]
           after == CHOOSE f : Steps(f)
           h == [i \in 0 .. k |-> g[i]]
<1>1. Follow(nodes, start, link, k) = after[k]
  BY DEF Follow
<1>2. \A i \in 0 .. k : i # 0 => i - 1 \in 0 .. k /\ i \in 1 .. k
  OBVIOUS
<1>3. Steps(h)
  <2> HIDE DEF step
  <2>1. \A i \in 1 .. k : g[i] = step(g[i - 1])
    BY DEF step
  <2>2. QED
    BY <1>2, <2>1
<1>4. Steps(after)
  <2> HIDE DEF Steps
  <2>1. QED
    BY <1>3
<1> HIDE DEF after
<1> DEFINE differ == {i \in 0 .. k : after[i] # g[i]}
<1>5. differ = {}
  <2>1. SUFFICES ASSUME differ # {}
                 PROVE  FALSE
    OBVIOUS
  <2>2. PICK i \in differ : \A j \in differ : i <= j
    <3>1. differ \in SUBSET Nat
      OBVIOUS
    <3> HIDE DEF differ
    <3>2. QED
      BY <2>1, <3>1, Least
  <2>3. i # 0
    BY <1>4, <2>2
  <2>4. i - 1 \in 0 .. k /\ i \in 1 .. k /\ ~ (i <= i - 1)
    BY <1>2, <2>3
  <2>5. after[i - 1] = g[i - 1]
    BY <2>2, <2>4
  <2>6. after[i] = step(after[i - 1])
    BY <1>4, <2>3, <2>4
  <2>7. QED
    BY <2>4, <2>5, <2>6
<1>6. k \in 0 .. k
  OBVIOUS
<1>7. QED
  BY <1>1, <1>5, <1>6

\* What a chain is made of.
LEMMA ChainType ==
    ASSUME NEW nodes, NEW store, NEW c, Linked(nodes, store, c)
    PROVE  /\ Len(c) \in Nat /\ DOMAIN c = 1 .. Len(c)
           /\ DOMAIN nodes = {c[i] : i \in 1 .. Len(c)}
           /\ \A i \in 1 .. Len(c) : /\ c[i] \in Nodes /\ c[i] # NULL
                                     /\ c[i] \in DOMAIN nodes
                                     /\ nodes[c[i]] \in Node
           /\ DOMAIN nodes \subseteq Nodes
           /\ \A q \in DOMAIN nodes : nodes[q] \in Node
           /\ NULL \notin DOMAIN nodes
BY NodesAssumption DEF Linked

LEMMA AtLemma ==
    ASSUME NEW nodes, NEW store, NEW c, Linked(nodes, store, c), NEW i
    PROVE  /\ At(c, i) \in Nodes \cup {NULL}
           /\ At(c, i) \in DOMAIN nodes <=> i \in 1 .. Len(c)
           /\ At(c, i) = NULL <=> i \notin 1 .. Len(c)
           /\ i \in 1 .. Len(c) => At(c, i) = c[i]
BY ChainType DEF At

\* The neighbours of a node of the chain.
LEMMA OnChain ==
    ASSUME NEW nodes, NEW store, NEW c, Linked(nodes, store, c), NEW i \in 1 .. Len(c)
    PROVE  /\ c[i] \in Nodes /\ c[i] # NULL /\ c[i] \in DOMAIN nodes
           /\ nodes[c[i]] \in Node
           /\ nodes[c[i]].previous = At(c, i - 1)
           /\ nodes[c[i]].next = At(c, i + 1)
           /\ \A j : c[i] = At(c, j) <=> i = j
           /\ \A j \in 1 .. Len(c) : c[i] = c[j] <=> i = j
<1>1. c[i] \in Nodes /\ c[i] # NULL /\ c[i] \in DOMAIN nodes /\ nodes[c[i]] \in Node
  BY ChainType
<1>2. \A j : c[i] = At(c, j) <=> i = j
  BY <1>1 DEF Linked, At
<1>3. QED
  BY <1>1, <1>2 DEF Linked

\* One step along the links is one step along the chain, in either direction.
LEMMA StepNext ==
    ASSUME NEW nodes, NEW store, NEW c, Linked(nodes, store, c), NEW i \in Nat \ {0}
    PROVE  Links(nodes, "next")[At(c, i)] = At(c, i + 1)
<1>1. CASE i \in 1 .. Len(c)
  BY <1>1, ChainType DEF Links, At, Linked
<1>2. CASE i \notin 1 .. Len(c)
  <2>1. i + 1 \notin 1 .. Len(c)
    BY <1>2, ChainType
  <2>2. At(c, i) = NULL /\ At(c, i + 1) = NULL
    BY <1>2, <2>1 DEF At
  <2>3. QED
    BY <2>2, ChainType DEF Links
<1>3. QED
  BY <1>1, <1>2

LEMMA StepPrevious ==
    ASSUME NEW nodes, NEW store, NEW c, Linked(nodes, store, c),
           NEW i \in Int, i <= Len(c)
    PROVE  Links(nodes, "previous")[At(c, i)] = At(c, i - 1)
<1>1. CASE i \in 1 .. Len(c)
  BY <1>1, ChainType DEF Links, At, Linked
<1>2. CASE i \notin 1 .. Len(c)
  <2>1. At(c, i) = NULL /\ At(c, i - 1) = NULL
    BY <1>2, ChainType DEF At
  <2>2. QED
    BY <2>1, ChainType DEF Links
<1>3. QED
  BY <1>1, <1>2

\* Any number of steps.
LEMMA FollowNext ==
    ASSUME NEW nodes, NEW store, NEW c, Linked(nodes, store, c), NEW k \in Nat
    PROVE  Follow(nodes, store.head, "next", k) = At(c, k + 1)
<1> DEFINE g == [i \in 0 .. k |-> At(c, i + 1)]
<1>1. g[0] = store.head /\ g[k] = At(c, k + 1)
  BY DEF Linked
<1>2. \A i \in 1 .. k : g[i] = Links(nodes, "next")[g[i - 1]]
  <2>1. TAKE i \in 1 .. k
  <2>2. i - 1 \in 0 .. k /\ i \in 0 .. k /\ i \in Nat \ {0} /\ (i - 1) + 1 = i
    OBVIOUS
  <2>3. Links(nodes, "next")[At(c, i)] = At(c, i + 1)
    BY <2>2, StepNext
  <2>4. QED
    BY <2>2, <2>3
<1> HIDE DEF g
<1>3. QED
  BY <1>1, <1>2, FollowLemma

LEMMA FollowPrevious ==
    ASSUME NEW nodes, NEW store, NEW c, Linked(nodes, store, c), NEW k \in Nat
    PROVE  Follow(nodes, store.tail, "previous", k) = At(c, Len(c) - k)
<1> DEFINE g == [i \in 0 .. k |-> At(c, Len(c) - i)]
<1>0. Len(c) \in Nat
  BY ChainType
<1>1. g[0] = store.tail /\ g[k] = At(c, Len(c) - k)
  BY <1>0 DEF Linked
<1>2. \A i \in 1 .. k : g[i] = Links(nodes, "previous")[g[i - 1]]
  <2>1. TAKE i \in 1 .. k
  <2>2. /\ i - 1 \in 0 .. k /\ i \in 0 .. k
        /\ Len(c) - (i - 1) \in Int /\ Len(c) - (i - 1) <= Len(c)
        /\ (Len(c) - (i - 1)) - 1 = Len(c) - i
    BY <1>0
  <2>3. Links(nodes, "previous")[At(c, Len(c) - (i - 1))] = At(c, Len(c) - i)
    BY <2>2, StepPrevious
  <2>4. QED
    BY <2>2, <2>3
<1> HIDE DEF g
<1>3. QED
  BY <1>1, <1>2, FollowLemma

\* A chain is no longer than there are nodes.
LEMMA ChainLength ==
    ASSUME NEW nodes, NEW store, NEW c, Linked(nodes, store, c)
    PROVE  Len(c) <= Cardinality(Nodes) /\ Cardinality(Nodes) \in Nat
<1>1. c \in Injection(1 .. Len(c), Nodes)
  <2>1. c \in [1 .. Len(c) -> Nodes]
    BY DEF Linked
  <2>2. IsInjective(c)
    BY ChainType DEF IsInjective, Linked
  <2>3. QED
    BY <2>1, <2>2 DEF Injection
<1>2. Cardinality(1 .. Len(c)) = Len(c)
  <2>1. Len(c) \in Nat /\ 1 \in Int /\ Len(c) \in Int
    BY ChainType
  <2>2. Cardinality(1 .. Len(c)) = IF 1 > Len(c) THEN 0 ELSE Len(c) - 1 + 1
    BY <2>1, FS_Interval, Zenon
  <2>3. QED
    BY <2>1, <2>2
<1>3. IsFiniteSet(1 .. Len(c)) /\ IsFiniteSet(Nodes)
  BY ChainType, FS_Interval, NodesAssumption
<1>4. Cardinality(1 .. Len(c)) <= Cardinality(Nodes)
  BY <1>1, <1>3, FS_Injection
<1>5. QED
  BY <1>2, <1>3, <1>4, FS_CardinalityType

LEMMA FirstNumbers ==
    ASSUME NEW n \in Nat
    PROVE  Cardinality(0 .. n - 1) = n
<1>1. 0 \in Int /\ n - 1 \in Int
  OBVIOUS
<1>2. Cardinality(0 .. n - 1) = IF 0 > n - 1 THEN 0 ELSE n - 1 - 0 + 1
  BY <1>1, FS_Interval, Zenon
<1>3. QED
  BY <1>2

\* A loop over the links visits the chain, from either end.
LEMMA WalkNext ==
    ASSUME NEW nodes, NEW store, NEW c, Linked(nodes, store, c)
    PROVE  Walk(nodes, store.head, "next") = c
<1> DEFINE visits == {k \in 0 .. Cardinality(Nodes) :
                         Follow(nodes, store.head, "next", k) \in DOMAIN nodes}
<1>0. Len(c) \in Nat /\ Len(c) <= Cardinality(Nodes) /\ Cardinality(Nodes) \in Nat
  BY ChainType, ChainLength
<1>1. visits = 0 .. Len(c) - 1
  <2>1. \A k \in 0 .. Cardinality(Nodes) :
           Follow(nodes, store.head, "next", k) \in DOMAIN nodes <=> k \in 0 .. Len(c) - 1
    <3>1. TAKE k \in 0 .. Cardinality(Nodes)
    <3>2. Follow(nodes, store.head, "next", k) = At(c, k + 1)
      BY <1>0, FollowNext
    <3>3. At(c, k + 1) \in DOMAIN nodes <=> k + 1 \in 1 .. Len(c)
      BY AtLemma
    <3>4. QED
      BY <1>0, <3>2, <3>3
  <2>2. QED
    BY <1>0, <2>1
<1>2. Cardinality(visits) = Len(c)
  <2>1. Cardinality(0 .. Len(c) - 1) = Len(c)
    BY <1>0, FirstNumbers
  <2>2. QED
    BY <1>1, <2>1
<1>3. \A i \in 1 .. Len(c) : Follow(nodes, store.head, "next", i - 1) = c[i]
  <2>1. TAKE i \in 1 .. Len(c)
  <2>2. i - 1 \in Nat /\ (i - 1) + 1 = i
    BY <1>0
  <2>3. QED
    BY <2>2, FollowNext DEF At
<1>4. c = [i \in 1 .. Len(c) |-> c[i]]
  BY DEF Linked
<1>5. Walk(nodes, store.head, "next")
      = [i \in 1 .. Cardinality(visits) |-> Follow(nodes, store.head, "next", i - 1)]
  BY DEF Walk
<1> HIDE DEF visits
<1>6. QED
  BY <1>2, <1>3, <1>4, <1>5

LEMMA WalkPrevious ==
    ASSUME NEW nodes, NEW store, NEW c, Linked(nodes, store, c)
    PROVE  Walk(nodes, store.tail, "previous") = [i \in 1 .. Len(c) |-> c[Len(c) + 1 - i]]
<1> DEFINE visits == {k \in 0 .. Cardinality(Nodes) :
                         Follow(nodes, store.tail, "previous", k) \in DOMAIN nodes}
<1>0. Len(c) \in Nat /\ Len(c) <= Cardinality(Nodes) /\ Cardinality(Nodes) \in Nat
  BY ChainType, ChainLength
<1>1. visits = 0 .. Len(c) - 1
  <2>1. \A k \in 0 .. Cardinality(Nodes) :
           Follow(nodes, store.tail, "previous", k) \in DOMAIN nodes <=> k \in 0 .. Len(c) - 1
    <3>1. TAKE k \in 0 .. Cardinality(Nodes)
    <3>2. Follow(nodes, store.tail, "previous", k) = At(c, Len(c) - k)
      BY <1>0, FollowPrevious
    <3>3. At(c, Len(c) - k) \in DOMAIN nodes <=> Len(c) - k \in 1 .. Len(c)
      BY AtLemma
    <3>4. QED
      BY <1>0, <3>2, <3>3
  <2>2. QED
    BY <1>0, <2>1
<1>2. Cardinality(visits) = Len(c)
  <2>1. Cardinality(0 .. Len(c) - 1) = Len(c)
    BY <1>0, FirstNumbers
  <2>2. QED
    BY <1>1, <2>1
<1>3. \A i \in 1 .. Len(c) : Follow(nodes, store.tail, "previous", i - 1) = c[Len(c) + 1 - i]
  <2>1. TAKE i \in 1 .. Len(c)
  <2>2. i - 1 \in Nat /\ Len(c) - (i - 1) = Len(c) + 1 - i /\ Len(c) + 1 - i \in 1 .. Len(c)
    BY <1>0
  <2>3. QED
    BY <2>2, FollowPrevious DEF At
<1>5. Walk(nodes, store.tail, "previous")
      = [i \in 1 .. Cardinality(visits) |-> Follow(nodes, store.tail, "previous", i - 1)]
  BY DEF Walk
<1> HIDE DEF visits
<1>6. QED
  BY <1>2, <1>3, <1>5

\* The node at an index is the same from either end (linked_storage.c:14-29).
LEMMA NodeAtLemma ==
    ASSUME NEW m, NEW store, NEW c, Linked(m.nodes, store, c), NEW index \in Nat
    PROVE  NodeAt(m, store, Len(c), index) = At(c, index + 1)
<1>0. Len(c) \in Nat /\ Len(c) \div 2 \in Nat
  BY ChainType
<1>1. CASE index >= Len(c)
  BY <1>0, <1>1 DEF NodeAt, At
<1>2. CASE index < Len(c) /\ index < Len(c) \div 2
  BY <1>0, <1>2, FollowNext DEF NodeAt
<1>3. CASE index < Len(c) /\ ~ (index < Len(c) \div 2)
  <2>1. PICK k \in Nat : k = Len(c) - 1 - index
    BY <1>0, <1>3
  <2>2. NodeAt(m, store, Len(c), index) = Follow(m.nodes, store.tail, "previous", k)
    BY <1>0, <1>3, <2>1 DEF NodeAt
  <2>3. Len(c) - k = index + 1
    BY <1>0, <2>1
  <2>4. QED
    BY <2>2, <2>3, FollowPrevious
<1>4. QED
  BY <1>0, <1>1, <1>2, <1>3

-----------------------------------------------------------------------------
(* Linking nodes.                                                          *)

\* The nodes with the link of one of them changed, field by field.
NextSet(new, nodes, node, target) ==
    /\ DOMAIN new = DOMAIN nodes
    /\ Typed(new)
    /\ \A q \in DOMAIN nodes :
          /\ new[q].previous = nodes[q].previous
          /\ new[q].next = IF q = node THEN target ELSE nodes[q].next
          /\ new[q].data = nodes[q].data

PreviousSet(new, nodes, node, target) ==
    /\ DOMAIN new = DOMAIN nodes
    /\ Typed(new)
    /\ \A q \in DOMAIN nodes :
          /\ new[q].next = nodes[q].next
          /\ new[q].previous = IF q = node THEN target ELSE nodes[q].previous
          /\ new[q].data = nodes[q].data

LEMMA LinkNext ==
    ASSUME NEW nodes, Typed(nodes), NEW node, NEW target \in Nodes \cup {NULL}
    PROVE  NextSet(Link(nodes, node, "next", target), nodes, node, target)
<1>1. \A q \in DOMAIN nodes : nodes[q] \in Node
  BY DEF Typed
<1>2. QED
  BY <1>1 DEF Link, Node, Typed, NextSet

LEMMA LinkPrevious ==
    ASSUME NEW nodes, Typed(nodes), NEW node, NEW target \in Nodes \cup {NULL}
    PROVE  PreviousSet(Link(nodes, node, "previous", target), nodes, node, target)
<1>1. \A q \in DOMAIN nodes : nodes[q] \in Node
  BY DEF Typed
<1>2. QED
  BY <1>1 DEF Link, Node, Typed, PreviousSet

Ends(c) == [head |-> At(c, 1), tail |-> At(c, Len(c))]

\* The nodes with n put between two neighbours, either of which may be missing.
Spliced(nodes, n, block, before, after) ==
    [q \in DOMAIN nodes \cup {n} |->
        IF q = n
        THEN [previous |-> before, next |-> after, data |-> block]
        ELSE [previous |-> IF q = after THEN n ELSE nodes[q].previous,
              next     |-> IF q = before THEN n ELSE nodes[q].next,
              data     |-> nodes[q].data]]

\* The nodes without x, its neighbours linked to each other.
Cut(nodes, x) ==
    [q \in DOMAIN nodes \ {x} |->
        [previous |-> IF q = nodes[x].next THEN nodes[x].previous ELSE nodes[q].previous,
         next     |-> IF q = nodes[x].previous THEN nodes[x].next ELSE nodes[q].next,
         data     |-> nodes[q].data]]

LEMMA AtInserted ==
    ASSUME NEW S, NEW c \in Seq(S), NEW p \in 1 .. Len(c) + 1, NEW n \in S, NEW i \in Int
    PROVE  At(Inserted(c, p, n), i)
           = IF i < p THEN At(c, i) ELSE IF i = p THEN n ELSE At(c, i - 1)
BY InsertedType DEF At, Inserted

LEMMA AtRemoved ==
    ASSUME NEW S, NEW c \in Seq(S), NEW p \in 1 .. Len(c), NEW i \in Int
    PROVE  At(Removed(c, p), i) = IF i < p THEN At(c, i) ELSE At(c, i + 1)
BY RemovedType DEF At, Removed

\* A node linked between two neighbours of a chain is inserted into it.
LEMMA SplicedLinked ==
    ASSUME NEW nodes, NEW store, NEW c, Linked(nodes, store, c),
           NEW p \in 1 .. Len(c) + 1, NEW n \in Nodes, n \notin DOMAIN nodes,
           NEW block \in Blocks,
           NEW d, d = Inserted(c, p, n)
    PROVE  Linked(Spliced(nodes, n, block, At(c, p - 1), At(c, p)), Ends(d), d)
<1> DEFINE new == Spliced(nodes, n, block, At(c, p - 1), At(c, p))
<1>0. c \in Seq(Nodes) /\ Len(c) \in Nat
  BY ChainType DEF Linked
<1>1. d \in Seq(Nodes) /\ Len(d) = Len(c) + 1
  BY <1>0, InsertedType
<1>2. \A i \in Int : At(d, i) = IF i < p THEN At(c, i) ELSE IF i = p THEN n ELSE At(c, i - 1)
  BY <1>0, AtInserted
<1>3. \A i \in 1 .. Len(d) :
         d[i] = IF i < p THEN c[i] ELSE IF i = p THEN n ELSE c[i - 1]
  BY <1>0, <1>1 DEF Inserted
<1>4. \A i \in 1 .. Len(c) : c[i] # n /\ c[i] \in DOMAIN nodes
  BY OnChain
<1>5. \A i, j \in 1 .. Len(c) : c[i] = c[j] => i = j
  BY DEF Linked
<1>6. \A i, j \in 1 .. Len(d) : d[i] = d[j] => i = j
  <2>1. TAKE i, j \in 1 .. Len(d)
  <2>2. HAVE d[i] = d[j]
  <2>3. i = p <=> j = p
    <3>1. ASSUME NEW k \in 1 .. Len(d), k # p
          PROVE  d[k] # n
      <4>1. PICK l \in 1 .. Len(c) : d[k] = c[l]
        BY <1>0, <1>1, <1>3, <3>1
      <4>2. QED
        BY <1>4, <4>1
    <3>2. d[p] = n /\ p \in 1 .. Len(d)
      BY <1>0, <1>1, <1>3
    <3>3. QED
      BY <2>2, <3>1, <3>2
  <2>4. CASE i # p
    <3>1. PICK k \in 1 .. Len(c) : d[i] = c[k] /\ k = IF i < p THEN i ELSE i - 1
      BY <1>0, <1>1, <1>3, <2>4
    <3>2. PICK l \in 1 .. Len(c) : d[j] = c[l] /\ l = IF j < p THEN j ELSE j - 1
      BY <1>0, <1>1, <1>3, <2>3, <2>4
    <3>3. k = l
      BY <1>5, <2>2, <3>1, <3>2
    <3>4. QED
      BY <1>0, <1>1, <2>3, <2>4, <3>1, <3>2, <3>3
  <2>5. QED
    BY <2>3, <2>4
<1>7. DOMAIN nodes \cup {n} = {d[i] : i \in 1 .. Len(d)}
  <2>1. DOMAIN nodes = {c[i] : i \in 1 .. Len(c)}
    BY ChainType
  <2>2. ASSUME NEW i \in 1 .. Len(c)
        PROVE  \E j \in 1 .. Len(d) : c[i] = d[j]
    <3>1. CASE i < p
      <4>1. i \in 1 .. Len(d) /\ d[i] = c[i]
        BY <1>0, <1>1, <1>3, <3>1
      <4>2. QED
        BY <4>1
    <3>2. CASE ~ (i < p)
      <4>1. i + 1 \in 1 .. Len(d) /\ d[i + 1] = c[i]
        BY <1>0, <1>1, <1>3, <3>2
      <4>2. QED
        BY <4>1
    <3>3. QED
      BY <3>1, <3>2
  <2>3. p \in 1 .. Len(d) /\ d[p] = n
    BY <1>0, <1>1, <1>3
  <2>4. ASSUME NEW i \in 1 .. Len(d)
        PROVE  d[i] = n \/ \E j \in 1 .. Len(c) : d[i] = c[j]
    BY <1>0, <1>1, <1>3
  <2>5. \A q \in DOMAIN nodes \cup {n} : \E i \in 1 .. Len(d) : q = d[i]
    BY <2>1, <2>2, <2>3
  <2>6. \A i \in 1 .. Len(d) : d[i] \in DOMAIN nodes \cup {n}
    BY <1>4, <2>4
  <2>7. QED
    BY <2>5, <2>6
<1>8. /\ DOMAIN new = DOMAIN nodes \cup {n}
      /\ new[n] = [previous |-> At(c, p - 1), next |-> At(c, p), data |-> block]
      /\ \A q \in DOMAIN nodes :
            new[q] = [previous |-> IF q = At(c, p) THEN n ELSE nodes[q].previous,
                      next     |-> IF q = At(c, p - 1) THEN n ELSE nodes[q].next,
                      data     |-> nodes[q].data]
  BY DEF Spliced
<1>9. new = [q \in DOMAIN nodes \cup {n} |-> new[q]]
  BY DEF Spliced
<1> HIDE DEF new
<1>10. \A q \in DOMAIN nodes : nodes[q] \in Node
  BY ChainType
<1>11. new \in [DOMAIN nodes \cup {n} -> Node]
  <2>1. new[n] \in Node
    BY <1>8, AtLemma DEF Node
  <2>2. \A q \in DOMAIN nodes : new[q] \in Node
    BY <1>8, <1>10 DEF Node
  <2>3. QED
    BY <1>9, <2>1, <2>2
<1>12. ASSUME NEW i \in 1 .. Len(d)
       PROVE  new[d[i]].previous = At(d, i - 1) /\ new[d[i]].next = At(d, i + 1)
  <2>0. /\ i - 1 \in Int /\ i + 1 \in Int /\ (i + 1) - 1 = i
        /\ At(d, i - 1) = IF i - 1 < p THEN At(c, i - 1)
                          ELSE IF i - 1 = p THEN n ELSE At(c, i - 1 - 1)
        /\ At(d, i + 1) = IF i + 1 < p THEN At(c, i + 1)
                          ELSE IF i + 1 = p THEN n ELSE At(c, i)
    BY <1>1, <1>2
  <2>1. CASE i < p
    <3>1. i \in 1 .. Len(c) /\ d[i] = c[i] /\ c[i] \in DOMAIN nodes
      BY <1>0, <1>3, <1>4, <2>1
    <3>2. c[i] # At(c, p) /\ (c[i] = At(c, p - 1) <=> i = p - 1)
      BY <2>1, <3>1, OnChain
    <3>3. nodes[c[i]].previous = At(c, i - 1) /\ nodes[c[i]].next = At(c, i + 1)
      BY <3>1, OnChain
    <3>4. QED
      BY <1>0, <1>8, <2>0, <2>1, <3>1, <3>2, <3>3
  <2>2. CASE i = p
    BY <1>3, <1>8, <2>0, <2>2
  <2>3. CASE i > p
    <3>1. i - 1 \in 1 .. Len(c) /\ d[i] = c[i - 1] /\ c[i - 1] \in DOMAIN nodes
      BY <1>0, <1>1, <1>3, <1>4, <2>3
    <3>2. c[i - 1] # At(c, p - 1) /\ (c[i - 1] = At(c, p) <=> i - 1 = p)
      BY <1>0, <1>1, <2>3, <3>1, OnChain
    <3>3. nodes[c[i - 1]].previous = At(c, i - 1 - 1) /\ nodes[c[i - 1]].next = At(c, i)
      <4>1. (i - 1) + 1 = i
        OBVIOUS
      <4>2. QED
        BY <3>1, <4>1, OnChain
    <3>4. QED
      BY <1>0, <1>8, <2>0, <2>3, <3>1, <3>2, <3>3
  <2>4. QED
    BY <1>0, <1>1, <2>1, <2>2, <2>3
<1>13. QED
  BY <1>1, <1>6, <1>7, <1>11, <1>12 DEF Linked, Ends, new

\* Linking the two neighbours of a node removes it from the chain.
LEMMA CutLinked ==
    ASSUME NEW nodes, NEW store, NEW c, Linked(nodes, store, c), NEW p \in 1 .. Len(c),
           NEW d, d = Removed(c, p)
    PROVE  Linked(Cut(nodes, c[p]), Ends(d), d)
<1> DEFINE new == Cut(nodes, c[p])
<1>0. c \in Seq(Nodes) /\ Len(c) \in Nat
  BY ChainType DEF Linked
<1>1. d \in Seq(Nodes) /\ Len(d) = Len(c) - 1
  BY <1>0, RemovedType
<1>2. \A i \in Int : At(d, i) = IF i < p THEN At(c, i) ELSE At(c, i + 1)
  BY <1>0, AtRemoved
<1>3. \A i \in 1 .. Len(d) : d[i] = IF i < p THEN c[i] ELSE c[i + 1]
  BY <1>0, <1>1 DEF Removed
<1>4. \A i \in 1 .. Len(c) : c[i] \in DOMAIN nodes
  BY ChainType
<1>5. \A i, j \in 1 .. Len(c) : c[i] = c[j] => i = j
  BY DEF Linked
<1>6. \A i, j \in 1 .. Len(d) : d[i] = d[j] => i = j
  BY <1>0, <1>1, <1>3, <1>5
<1>7. DOMAIN nodes \ {c[p]} = {d[i] : i \in 1 .. Len(d)}
  <2>1. DOMAIN nodes = {c[i] : i \in 1 .. Len(c)}
    BY ChainType
  <2>2. ASSUME NEW i \in 1 .. Len(c), i # p
        PROVE  \E j \in 1 .. Len(d) : c[i] = d[j]
    <3>1. CASE i < p
      <4>1. i \in 1 .. Len(d) /\ d[i] = c[i]
        BY <1>0, <1>1, <1>3, <3>1
      <4>2. QED
        BY <4>1
    <3>2. CASE ~ (i < p)
      <4>1. i - 1 \in 1 .. Len(d) /\ d[i - 1] = c[i]
        BY <1>0, <1>1, <1>3, <2>2, <3>2
      <4>2. QED
        BY <4>1
    <3>3. QED
      BY <3>1, <3>2
  <2>3. ASSUME NEW i \in 1 .. Len(d)
        PROVE  \E j \in 1 .. Len(c) : j # p /\ d[i] = c[j]
    <3>1. CASE i < p
      <4>1. i \in 1 .. Len(c) /\ i # p /\ d[i] = c[i]
        BY <1>0, <1>1, <1>3, <3>1
      <4>2. QED
        BY <4>1
    <3>2. CASE ~ (i < p)
      <4>1. i + 1 \in 1 .. Len(c) /\ i + 1 # p /\ d[i] = c[i + 1]
        BY <1>0, <1>1, <1>3, <3>2
      <4>2. QED
        BY <4>1
    <3>3. QED
      BY <3>1, <3>2
  <2>4. ASSUME NEW q \in DOMAIN nodes, q # c[p]
        PROVE  \E j \in 1 .. Len(d) : q = d[j]
    <3>1. PICK i \in 1 .. Len(c) : q = c[i]
      BY <2>1
    <3>2. QED
      BY <2>2, <2>4, <3>1
  <2>5. ASSUME NEW i \in 1 .. Len(d)
        PROVE  d[i] \in DOMAIN nodes /\ d[i] # c[p]
    BY <1>4, <1>5, <2>3
  <2> HIDE DEF new
  <2>6. QED
    BY <2>4, <2>5
<1> DEFINE before == At(c, p - 1)
           after  == At(c, p + 1)
<1>8. nodes[c[p]].previous = before /\ nodes[c[p]].next = after
  BY OnChain
<1>9. ASSUME NEW q \in DOMAIN nodes, q # c[p]
      PROVE  /\ new[q].previous = IF q = after THEN before ELSE nodes[q].previous
             /\ new[q].next = IF q = before THEN after ELSE nodes[q].next
             /\ new[q].data = nodes[q].data
  BY <1>8, <1>9 DEF Cut
<1>10. before \in Nodes \cup {NULL} /\ after \in Nodes \cup {NULL}
  BY AtLemma
<1> HIDE DEF before, after
<1>11. new \in [DOMAIN nodes \ {c[p]} -> Node]
  <2>1. \A q \in DOMAIN nodes : nodes[q] \in Node
    BY ChainType
  <2>2. QED
    BY <1>8, <1>10, <2>1 DEF Cut, Node
<1> HIDE DEF new
<1>12. ASSUME NEW i \in 1 .. Len(d)
       PROVE  new[d[i]].previous = At(d, i - 1) /\ new[d[i]].next = At(d, i + 1)
  <2>0. /\ i - 1 \in Int /\ i + 1 \in Int /\ (i - 1) + 1 = i
        /\ At(d, i - 1) = IF i - 1 < p THEN At(c, i - 1) ELSE At(c, i)
        /\ At(d, i + 1) = IF i + 1 < p THEN At(c, i + 1) ELSE At(c, i + 1 + 1)
    BY <1>1, <1>2
  <2>1. CASE i < p
    <3>1. i \in 1 .. Len(c) /\ d[i] = c[i] /\ c[i] \in DOMAIN nodes /\ c[i] # c[p]
      BY <1>0, <1>3, <1>4, <1>5, <2>1
    <3>2. c[i] # after /\ (c[i] = before <=> i = p - 1)
      BY <2>1, <3>1, OnChain DEF before, after
    <3>3. nodes[c[i]].previous = At(c, i - 1) /\ nodes[c[i]].next = At(c, i + 1)
      BY <3>1, OnChain
    <3>4. /\ new[c[i]].previous = nodes[c[i]].previous
          /\ new[c[i]].next = IF i = p - 1 THEN after ELSE nodes[c[i]].next
      BY <1>9, <3>1, <3>2
    <3>5. i = p - 1 => p + 1 = i + 1 + 1
      BY <2>0
    <3>6. QED
      BY <1>0, <2>0, <2>1, <3>1, <3>3, <3>4, <3>5 DEF after
  <2>2. CASE ~ (i < p)
    <3>1. i + 1 \in 1 .. Len(c) /\ d[i] = c[i + 1] /\ c[i + 1] \in DOMAIN nodes /\ c[i + 1] # c[p]
      BY <1>0, <1>1, <1>3, <1>4, <1>5, <2>2
    <3>2. c[i + 1] # before /\ (c[i + 1] = after <=> i = p)
      <4>1. i + 1 # p - 1 /\ (i + 1 = p + 1 <=> i = p)
        BY <1>0, <2>2
      <4>2. QED
        BY <3>1, <4>1, OnChain DEF before, after
    <3>3. nodes[c[i + 1]].previous = At(c, i) /\ nodes[c[i + 1]].next = At(c, i + 1 + 1)
      <4>1. (i + 1) - 1 = i
        OBVIOUS
      <4>2. QED
        BY <3>1, <4>1, OnChain
    <3>4. /\ new[c[i + 1]].next = nodes[c[i + 1]].next
          /\ new[c[i + 1]].previous = IF i = p THEN before ELSE nodes[c[i + 1]].previous
      BY <1>9, <3>1, <3>2
    <3>5. QED
      BY <1>0, <2>0, <2>2, <3>1, <3>3, <3>4 DEF before
  <2>3. QED
    BY <2>1, <2>2
<1>13. QED
  BY <1>1, <1>6, <1>7, <1>11, <1>12 DEF Linked, Ends, new

\* Nodes are the same if their fields are.
LEMMA SameNodes ==
    ASSUME NEW f, Typed(f), NEW g, Typed(g), DOMAIN f = DOMAIN g,
           \A q \in DOMAIN f : /\ f[q].previous = g[q].previous
                               /\ f[q].next = g[q].next
                               /\ f[q].data = g[q].data
    PROVE  f = g
<1>1. ASSUME NEW q \in DOMAIN f
      PROVE  f[q] = g[q]
  <2>1. f[q] \in Node /\ g[q] \in Node
    BY DEF Typed
  <2>2. QED
    BY <2>1 DEF Node
<1>2. QED
  BY <1>1 DEF Typed

\* What putting a node between two others does, field by field.
SplicedIn(new, nodes, n, block, before, after) ==
    /\ DOMAIN new = DOMAIN nodes \cup {n}
    /\ Typed(new)
    /\ new[n].previous = before /\ new[n].next = after /\ new[n].data = block
    /\ \A q \in DOMAIN nodes :
          /\ new[q].previous = IF q = after THEN n ELSE nodes[q].previous
          /\ new[q].next = IF q = before THEN n ELSE nodes[q].next
          /\ new[q].data = nodes[q].data

LEMMA SplicedFields ==
    ASSUME NEW nodes, Typed(nodes), NEW n \in Nodes, n \notin DOMAIN nodes,
           NEW block \in Blocks,
           NEW before \in Nodes \cup {NULL}, NEW after \in Nodes \cup {NULL}
    PROVE  SplicedIn(Spliced(nodes, n, block, before, after), nodes, n, block, before, after)
<1>1. \A q \in DOMAIN nodes : nodes[q] \in Node
  BY DEF Typed
<1>2. QED
  BY <1>1 DEF Spliced, Node, Typed, SplicedIn

\* A node as it is created, linked to nothing.
Unlinked(nodes, n, block) ==
    Alloc(nodes, n, [previous |-> NULL, next |-> NULL, data |-> block])

AddedTo(new, nodes, n, block) ==
    /\ DOMAIN new = DOMAIN nodes \cup {n}
    /\ Typed(new)
    /\ new[n].previous = NULL /\ new[n].next = NULL /\ new[n].data = block
    /\ \A q \in DOMAIN nodes : new[q] = nodes[q]

LEMMA UnlinkedFields ==
    ASSUME NEW nodes, Typed(nodes), NEW n \in Nodes, n \notin DOMAIN nodes,
           NEW block \in Blocks
    PROVE  AddedTo(Unlinked(nodes, n, block), nodes, n, block)
<1>1. \A q \in DOMAIN nodes : nodes[q] \in Node
  BY DEF Typed
<1>2. QED
  BY <1>1 DEF Unlinked, Alloc, Node, Typed, AddedTo

\* The outcomes of the creation of a node.
LEMMA CreateNodeLemma ==
    ASSUME NEW m, NEW element, NEW width, NEW c \in CreateNode(m, element, width)
    PROVE  \/ c = [node |-> NULL, mem |-> m]
           \/ /\ element # NULL /\ width # 0
              /\ c.node \in Nodes \ DOMAIN m.nodes
              /\ \E block \in Blocks \ DOMAIN m.heap :
                    c.mem = [nodes |-> Unlinked(m.nodes, c.node, block),
                             heap  |-> Alloc(m.heap, block,
                                             [i \in {0} |-> Deref(m.heap, element)])]
<1>1. CASE c = [node |-> NULL, mem |-> m]
  BY <1>1
<1>2. CASE c # [node |-> NULL, mem |-> m]
  <2> DEFINE cell == [i \in {0} |-> Deref(m.heap, element)]
  <2>1. element # NULL /\ width # 0
    BY <1>2 DEF CreateNode
  <2>2. PICK n \in Fresh(Nodes \ DOMAIN m.nodes), a \in Malloc(m.heap, cell) :
           /\ a.data # NULL
           /\ c = [node |-> n,
                   mem  |-> [nodes |-> Alloc(m.nodes, n,
                                [previous |-> NULL, next |-> NULL, data |-> a.data]),
                             heap  |-> a.heap]]
    BY <1>2, <2>1 DEF CreateNode
  <2>3. n \in Nodes \ DOMAIN m.nodes
    BY <2>2, NodesAssumption
  <2> HIDE DEF cell
  <2>4. PICK block \in Fresh(Blocks \ DOMAIN m.heap) :
           a = [data |-> block, heap |-> Alloc(m.heap, block, cell)]
    <3>1. a # [data |-> NULL, heap |-> m.heap]
      BY <2>2
    <3>2. QED
      BY <2>2, <3>1 DEF Malloc
  <2>5. block \in Blocks \ DOMAIN m.heap
    BY <2>4, MemoryAssumption
  <2>6. a.data = block /\ a.heap = Alloc(m.heap, block, cell)
    BY <2>4
  <2>7. c.node = n /\ c.mem = [nodes |-> Alloc(m.nodes, n,
                                [previous |-> NULL, next |-> NULL, data |-> a.data]),
                             heap  |-> a.heap]
    BY <2>2
  <2>8. QED
    BY <2>1, <2>3, <2>5, <2>6, <2>7 DEF cell, Unlinked
<1>3. QED
  BY <1>1, <1>2

-----------------------------------------------------------------------------
(* The elements on the chain.                                              *)

Value(m, n) == m.heap[m.nodes[n].data][0]

Values(m, c) == [i \in 1 .. Len(c) |-> Value(m, c[i])]

\* A node that stays keeps its block, and the block its element.
Stays(m, new) ==
    \A n \in DOMAIN m.nodes \cap DOMAIN new.nodes :
       /\ new.nodes[n].data = m.nodes[n].data
       /\ m.nodes[n].data \in DOMAIN new.heap
       /\ new.heap[m.nodes[n].data] = m.heap[m.nodes[n].data]

\* Every node has a block, with an element in it.
LEMMA HeldLemma ==
    ASSUME NEW m, NEW store, NEW c, Sound(m, store, c), NEW n \in DOMAIN m.nodes
    PROVE  /\ m.nodes[n].data \in Blocks
           /\ m.nodes[n].data \in DOMAIN m.heap
           /\ m.heap[m.nodes[n].data] \in [{0} -> Elements]
           /\ Value(m, n) \in Elements
<1>1. m.nodes[n] \in Node
  BY ChainType DEF Sound
<1>2. m.nodes[n].data \in Blocks
  BY <1>1 DEF Node
<1>3. /\ DOMAIN m.heap = BlocksOf(m.nodes)
      /\ \A b \in DOMAIN m.heap : m.heap[b] \in [{0} -> Elements]
  BY DEF Sound, Filled
<1>4. m.nodes[n].data \in DOMAIN m.heap
  BY <1>3 DEF BlocksOf
<1>5. QED
  BY <1>2, <1>3, <1>4 DEF Value

LEMMA AddressLemma ==
    ASSUME NEW m, NEW store, NEW c, Sound(m, store, c), NEW n \in DOMAIN m.nodes,
           NEW address, address = Address(m.nodes[n].data, 0)
    PROVE  /\ address # NULL
           /\ address.block = m.nodes[n].data /\ address.slot = 0
           /\ address.block # Caller
           /\ Deref(m.heap, address) = Value(m, n)
<1>1. /\ m.nodes[n].data \in Blocks
      /\ m.nodes[n].data \in DOMAIN m.heap
      /\ m.heap[m.nodes[n].data] \in [{0} -> Elements]
  BY HeldLemma
<1>2. address.block = m.nodes[n].data /\ address.slot = 0
  BY DEF Address
<1>3. 0 \in 0 .. SizeMax
  BY MemoryAssumption
<1>4. address # NULL /\ address.block # Caller
  BY <1>1, <1>2, <1>3, MemoryAssumption DEF Address
<1>5. 0 \in DOMAIN m.heap[m.nodes[n].data]
  BY <1>1
<1>6. QED
  BY <1>1, <1>2, <1>4, <1>5 DEF Deref, Value

LEMMA ValuesLemma ==
    ASSUME NEW m, NEW store, NEW c, Sound(m, store, c)
    PROVE  /\ Values(m, c) \in Seq(Elements)
           /\ Len(Values(m, c)) = Len(c)
<1>1. Len(c) \in Nat /\ \A i \in 1 .. Len(c) : c[i] \in DOMAIN m.nodes
  BY ChainType DEF Sound
<1>2. \A i \in 1 .. Len(c) : Value(m, c[i]) \in Elements
  BY <1>1, HeldLemma
<1>3. PICK n \in Nat : n = Len(c)
  BY <1>1
<1>4. Values(m, c) \in [1 .. n -> Elements]
  BY <1>2, <1>3 DEF Values
<1>5. QED
  BY <1>3, <1>4, FunctionSeq

-----------------------------------------------------------------------------
(* Adding a node.                                                          *)

\* The ways an insertion can end: nothing has happened, or there is a node more.
Extends(m, c, p, e, new, store) ==
    \E d : /\ Sound(new, store, d)
           /\ Values(new, d) = Inserted(Values(m, c), p, e)
           /\ Stays(m, new)

Inserts(m, store, c, p, e, r) ==
    \/ r = LinkOutcome(FALSE, m, store)
    \/ /\ r = LinkOutcome(TRUE, r.mem, r.storage)
       /\ Extends(m, c, p, e, r.mem, r.storage)

LEMMA EndsInserted ==
    ASSUME NEW nodes, NEW store, NEW c, Linked(nodes, store, c),
           NEW p \in 1 .. Len(c) + 1, NEW n \in Nodes
    PROVE  Ends(Inserted(c, p, n))
           = [head |-> IF p = 1 THEN n ELSE store.head,
              tail |-> IF p = Len(c) + 1 THEN n ELSE store.tail]
<1>1. c \in Seq(Nodes) /\ Len(c) \in Nat
  BY ChainType DEF Linked
<1>2. Len(Inserted(c, p, n)) = Len(c) + 1
  BY <1>1, InsertedType
<1>3. /\ At(Inserted(c, p, n), 1) = IF p = 1 THEN n ELSE At(c, 1)
      /\ At(Inserted(c, p, n), Len(c) + 1) = IF p = Len(c) + 1 THEN n ELSE At(c, Len(c))
  <2>1. \A i \in Int : At(Inserted(c, p, n), i)
           = IF i < p THEN At(c, i) ELSE IF i = p THEN n ELSE At(c, i - 1)
    BY <1>1, AtInserted
  <2>2. 1 \in Int /\ Len(c) + 1 \in Int /\ (Len(c) + 1) - 1 = Len(c)
    BY <1>1
  <2>3. QED
    BY <1>1, <2>1, <2>2
<1>4. QED
  BY <1>2, <1>3 DEF Ends, Linked

Adds(m, n, block, e, new) ==
    /\ new = [nodes |-> new.nodes, heap |-> new.heap]
    /\ DOMAIN new.nodes = DOMAIN m.nodes \cup {n}
    /\ new.nodes[n].data = block
    /\ \A q \in DOMAIN m.nodes : new.nodes[q].data = m.nodes[q].data
    /\ new.heap = Alloc(m.heap, block, [i \in {0} |-> e])

\* One node more: the chain, its blocks and its elements.
LEMMA GrownLemma ==
    ASSUME NEW m, NEW store, NEW c, Sound(m, store, c), NEW p \in 1 .. Len(c) + 1,
           NEW n \in Nodes \ DOMAIN m.nodes, NEW block \in Blocks \ DOMAIN m.heap,
           NEW e \in Elements,
           NEW new, NEW end, Linked(new.nodes, end, Inserted(c, p, n)),
           Adds(m, n, block, e, new)
    PROVE  Extends(m, c, p, e, new, end)
<1> DEFINE d == Inserted(c, p, n)
           old == m.nodes
           S == DOMAIN m.nodes
<1>1. /\ Linked(old, store, c) /\ Filled(m)
      /\ c \in Seq(Nodes) /\ Len(c) \in Nat
  BY ChainType DEF Sound, Linked
<1>3. Linked(new.nodes, end, d)
  OBVIOUS
<1>4. /\ DOMAIN new.nodes = S \cup {n}
      /\ new.nodes[n].data = block
      /\ \A q \in S : new.nodes[q].data = old[q].data
  BY DEF Adds
<1>5. /\ DOMAIN new.heap = DOMAIN m.heap \cup {block}
      /\ new.heap[block] = [i \in {0} |-> e]
      /\ \A b \in DOMAIN m.heap : new.heap[b] = m.heap[b]
      /\ new.heap = [b \in DOMAIN new.heap |-> new.heap[b]]
  BY DEF Adds, Alloc
<1> HIDE DEF d
<1>6. /\ DOMAIN m.heap = BlocksOf(old)
      /\ \A b \in DOMAIN m.heap : \E q \in S : b = old[q].data
      /\ \A b \in DOMAIN m.heap : m.heap[b] \in [{0} -> Elements]
      /\ \A p1, p2 \in S : old[p1].data = old[p2].data => p1 = p2
      /\ \A q \in S : old[q].data \in DOMAIN m.heap
  <2>1. DOMAIN m.heap = BlocksOf(old)
    BY <1>1 DEF Filled
  <2>2. /\ \A b \in DOMAIN m.heap : \E q \in S : b = old[q].data
        /\ \A q \in S : old[q].data \in DOMAIN m.heap
    BY <2>1 DEF BlocksOf
  <2>3. QED
    BY <1>1, <2>1, <2>2 DEF Filled
<1>7. Filled(new)
  <2>1. DOMAIN new.nodes = S \cup {n}
    BY <1>4
  <2>2. DOMAIN new.heap = BlocksOf(new.nodes)
    <3>1. \A b \in DOMAIN new.heap : \E q \in S \cup {n} : b = new.nodes[q].data
      BY <1>4, <1>5, <1>6
    <3>2. \A q \in S \cup {n} : new.nodes[q].data \in DOMAIN new.heap
      BY <1>4, <1>5, <1>6
    <3>3. QED
      <4>1. /\ \A b \in DOMAIN new.heap : \E q \in DOMAIN new.nodes : b = new.nodes[q].data
            /\ \A q \in DOMAIN new.nodes : new.nodes[q].data \in DOMAIN new.heap
        BY <2>1, <3>1, <3>2
      <4>2. QED
        BY <4>1 DEF BlocksOf
  <2>3. \A b \in DOMAIN new.heap : new.heap[b] \in [{0} -> Elements]
    BY <1>5, <1>6
  <2>4. \A p1, p2 \in S \cup {n} : new.nodes[p1].data = new.nodes[p2].data => p1 = p2
    BY <1>4, <1>6
  <2>5. new.heap \in [BlocksOf(new.nodes) -> [{0} -> Elements]]
    BY <1>5, <2>2, <2>3
  <2>6. QED
    BY <2>1, <2>4, <2>5 DEF Filled, Adds
<1>8. /\ Value(new, n) = e
      /\ \A q \in S : Value(new, q) = Value(m, q)
  BY <1>4, <1>5, <1>6 DEF Value
<1>9. Len(d) = Len(c) + 1 /\ \A i \in 1 .. Len(c) : c[i] \in S
  <2>1. Len(d) = Len(c) + 1
    BY <1>1, InsertedType DEF d
  <2>2. QED
    BY <1>1, <2>1, OnChain
<1>10. Values(new, d) = Inserted(Values(m, c), p, e)
  <2>1. Len(Values(m, c)) = Len(c) /\ \A i \in 1 .. Len(c) : Values(m, c)[i] = Value(m, c[i])
    BY ValuesLemma DEF Values
  <2>2. \A i \in 1 .. Len(c) + 1 :
           Value(new, d[i]) = IF i < p THEN Values(m, c)[i]
                              ELSE IF i = p THEN e ELSE Values(m, c)[i - 1]
    <3>1. TAKE i \in 1 .. Len(c) + 1
    <3>2. d[i] = IF i < p THEN c[i] ELSE IF i = p THEN n ELSE c[i - 1]
      BY DEF d, Inserted
    <3>3. CASE i < p
      BY <1>1, <1>8, <1>9, <2>1, <3>2, <3>3
    <3>4. CASE i = p
      BY <1>8, <3>2, <3>4
    <3>5. CASE i > p
      <4>1. i - 1 \in 1 .. Len(c)
        BY <1>1, <3>5
      <4>2. QED
        BY <1>8, <1>9, <2>1, <3>2, <3>5, <4>1
    <3>6. QED
      BY <3>3, <3>4, <3>5
  <2>3. QED
    BY <1>9, <2>1, <2>2 DEF Values, Inserted
<1>11. Stays(m, new)
  BY <1>4, <1>5, <1>6 DEF Stays
<1>12. QED
  BY <1>3, <1>7, <1>10, <1>11 DEF Extends, Sound, d

LEMMA GrowLemma ==
    ASSUME NEW m, NEW store, NEW c, Sound(m, store, c), NEW p \in 1 .. Len(c) + 1,
           NEW n \in Nodes \ DOMAIN m.nodes, NEW block \in Blocks \ DOMAIN m.heap,
           NEW e \in Elements
    PROVE  Extends(m, c, p, e,
                   [nodes |-> Spliced(m.nodes, n, block, At(c, p - 1), At(c, p)),
                    heap  |-> Alloc(m.heap, block, [i \in {0} |-> e])],
                   Ends(Inserted(c, p, n)))
<1> DEFINE f == Spliced(m.nodes, n, block, At(c, p - 1), At(c, p))
           new == [nodes |-> f, heap  |-> Alloc(m.heap, block, [i \in {0} |-> e])]
<1>1. /\ Linked(m.nodes, store, c)
      /\ Typed(m.nodes)
  BY DEF Sound, Linked, Typed
<1>3. Linked(f, Ends(Inserted(c, p, n)), Inserted(c, p, n))
  BY <1>1, SplicedLinked
<1>4. At(c, p - 1) \in Nodes \cup {NULL} /\ At(c, p) \in Nodes \cup {NULL}
  BY <1>1, AtLemma
<1>5. SplicedIn(f, m.nodes, n, block, At(c, p - 1), At(c, p))
  BY <1>1, <1>4, SplicedFields
<1> HIDE DEF f
<1>6. Adds(m, n, block, e, new) /\ new.nodes = f
  BY <1>5 DEF Adds, SplicedIn
<1> HIDE DEF new
<1>7. Extends(m, c, p, e, new, Ends(Inserted(c, p, n)))
  BY <1>3, <1>6, GrownLemma
<1>8. QED
  BY <1>7 DEF new, f

\* What every insertion starts with: a node that is linked to nothing, and a
\* block with the element it is given; or neither.
Makes(m, element, a) ==
    \/ a.node = NULL /\ a.mem = m
    \/ /\ a.node \in Nodes /\ a.node \notin DOMAIN m.nodes /\ a.node # NULL
       /\ element # NULL
       /\ \E block \in Blocks \ DOMAIN m.heap :
             /\ AddedTo(a.mem.nodes, m.nodes, a.node, block)
             /\ a.mem = [nodes |-> a.mem.nodes, heap |-> a.mem.heap]
             /\ a.mem.heap = Alloc(m.heap, block, [i \in {0} |-> Deref(m.heap, element)])

LEMMA CreatedLemma ==
    ASSUME NEW m, NEW store, NEW c, Sound(m, store, c), NEW element, NEW width,
           NEW a \in CreateNode(m, element, width)
    PROVE  Makes(m, element, a)
<1>1. CASE a = [node |-> NULL, mem |-> m]
  BY <1>1 DEF Makes
<1>2. CASE a # [node |-> NULL, mem |-> m]
  <2>1. PICK block \in Blocks \ DOMAIN m.heap :
           a.mem = [nodes |-> Unlinked(m.nodes, a.node, block),
                    heap  |-> Alloc(m.heap, block, [i \in {0} |-> Deref(m.heap, element)])]
    BY <1>2, CreateNodeLemma
  <2>2. a.node \in Nodes \ DOMAIN m.nodes /\ element # NULL
    BY <1>2, CreateNodeLemma
  <2>3. a.node # NULL
    BY <2>2, NodesAssumption
  <2>4. Typed(m.nodes)
    BY DEF Sound, Linked, Typed
  <2>5. AddedTo(Unlinked(m.nodes, a.node, block), m.nodes, a.node, block)
    BY <2>2, <2>4, UnlinkedFields
  <2>6. a.mem.nodes = Unlinked(m.nodes, a.node, block)
    BY <2>1
  <2>7. QED
    BY <2>1, <2>2, <2>3, <2>5, <2>6 DEF Makes
<1>3. QED
  BY <1>1, <1>2

\* Nodes with these fields are the nodes with n between two others.
LEMMA IsSpliced ==
    ASSUME NEW new, NEW nodes, Typed(nodes), NEW n \in Nodes, n \notin DOMAIN nodes,
           NEW block \in Blocks,
           NEW before \in Nodes \cup {NULL}, NEW after \in Nodes \cup {NULL},
           SplicedIn(new, nodes, n, block, before, after)
    PROVE  new = Spliced(nodes, n, block, before, after)
<1> DEFINE other == Spliced(nodes, n, block, before, after)
<1>1. SplicedIn(other, nodes, n, block, before, after)
  BY SplicedFields
<1> HIDE DEF other
<1>2. /\ DOMAIN new = DOMAIN other
      /\ Typed(new) /\ Typed(other)
      /\ \A q \in DOMAIN new : /\ new[q].previous = other[q].previous
                               /\ new[q].next = other[q].next
                               /\ new[q].data = other[q].data
  BY <1>1 DEF SplicedIn
<1>3. new = other
  BY <1>2, SameNodes
<1>4. QED
  BY <1>3 DEF other

\* An insertion that leaves such nodes has put the element where it belongs.
LEMMA PlacedLemma ==
    ASSUME NEW m, NEW store, NEW c, Sound(m, store, c), NEW p \in 1 .. Len(c) + 1,
           NEW n \in Nodes, n \notin DOMAIN m.nodes, NEW block \in Blocks \ DOMAIN m.heap,
           NEW e \in Elements, NEW new, NEW end,
           new.nodes = Spliced(m.nodes, n, block, At(c, p - 1), At(c, p)),
           new.heap = Alloc(m.heap, block, [i \in {0} |-> e]),
           new = [nodes |-> new.nodes, heap |-> new.heap],
           end = [head |-> IF p = 1 THEN n ELSE store.head,
                  tail |-> IF p = Len(c) + 1 THEN n ELSE store.tail]
    PROVE  Extends(m, c, p, e, new, end)
<1>1. end = Ends(Inserted(c, p, n))
  BY EndsInserted DEF Sound
<1>2. n \in Nodes \ DOMAIN m.nodes
  OBVIOUS
<1>3. new = [nodes |-> Spliced(m.nodes, n, block, At(c, p - 1), At(c, p)),
             heap  |-> Alloc(m.heap, block, [i \in {0} |-> e])]
  OBVIOUS
<1>4. QED
  BY <1>1, <1>2, <1>3, GrowLemma

\* The three functions that create a node and link it (linked_storage.c:139-233).
LEMMA PrependLemma ==
    ASSUME NEW m, NEW store, NEW c, Sound(m, store, c), NEW element, NEW width,
           NEW e, e = Deref(m.heap, element), element # NULL => e \in Elements,
           NEW r \in linkedStorage_Prepend(m, store, element, width)
    PROVE  Inserts(m, store, c, 1, e, r)
<1>1. PICK a \in CreateNode(m, element, width) :
         r = IF a.node = NULL
             THEN LinkOutcome(FALSE, a.mem, store)
             ELSE LET linked == Link(a.mem.nodes, a.node, "next", store.head)
                  IN  LinkOutcome(TRUE,
                         [a.mem EXCEPT !.nodes = Link(linked, store.head, "previous", a.node)],
                         [head |-> a.node,
                          tail |-> IF store.head = NULL THEN a.node ELSE store.tail])
  BY DEF linkedStorage_Prepend
<1>2. CASE a.node = NULL /\ a.mem = m
  BY <1>1, <1>2 DEF Inserts
<1>3. CASE ~ (a.node = NULL /\ a.mem = m)
  <2>0. Makes(m, element, a)
    BY CreatedLemma
  <2>1. /\ a.node \in Nodes /\ a.node \notin DOMAIN m.nodes /\ a.node # NULL
        /\ element # NULL
    BY <1>3, <2>0 DEF Makes
  <2>2. PICK block \in Blocks \ DOMAIN m.heap :
           /\ AddedTo(a.mem.nodes, m.nodes, a.node, block)
           /\ a.mem = [nodes |-> a.mem.nodes, heap |-> a.mem.heap]
           /\ a.mem.heap = Alloc(m.heap, block, [i \in {0} |-> e])
    BY <1>3, <2>0 DEF Makes
  <2> DEFINE n == a.node
             made == a.mem.nodes
             linked == Link(made, n, "next", store.head)
             placed == Link(linked, store.head, "previous", n)
             end == [head |-> n, tail |-> IF store.head = NULL THEN n ELSE store.tail]
  <2>3. r = LinkOutcome(TRUE, [a.mem EXCEPT !.nodes = placed], end)
    BY <1>1, <2>1
  <2> HIDE DEF placed
  <2>4. /\ r = LinkOutcome(TRUE, r.mem, r.storage)
        /\ r.mem.nodes = placed /\ r.mem.heap = a.mem.heap
        /\ r.mem = [nodes |-> r.mem.nodes, heap |-> r.mem.heap]
        /\ r.storage = end
    <3> HIDE DEF end
    <3>1. r.mem = [a.mem EXCEPT !.nodes = placed] /\ r.storage = end
          /\ r = LinkOutcome(TRUE, r.mem, r.storage)
      BY <2>3 DEF LinkOutcome
    <3>2. QED
      BY <2>2, <3>1
  <2>5. /\ Linked(m.nodes, store, c)
        /\ Len(c) \in Nat /\ 1 \in 1 .. Len(c) + 1
        /\ Typed(m.nodes)
        /\ store.head = At(c, 1) /\ At(c, 1 - 1) = NULL /\ store.head \in Nodes \cup {NULL}
        /\ store.head \in DOMAIN m.nodes <=> Len(c) # 0
        /\ store.head = NULL <=> Len(c) = 0
    <3>1. Linked(m.nodes, store, c) /\ Len(c) \in Nat
      BY ChainType DEF Sound
    <3>2. store.head = At(c, 1) /\ At(c, 1 - 1) = NULL /\ Typed(m.nodes)
      BY <3>1 DEF Linked, At, Typed
    <3>3. 1 \in 1 .. Len(c) <=> Len(c) # 0
      BY <3>1
    <3>4. QED
      BY <3>1, <3>2, <3>3, AtLemma
  <2>6. NextSet(linked, made, n, store.head)
    BY <2>2, <2>5, LinkNext DEF AddedTo
  <2> HIDE DEF linked
  <2>7. PreviousSet(placed, linked, store.head, n)
    BY <2>1, <2>6, LinkPrevious DEF NextSet, placed
  <2> HIDE DEF made, n
  <2>8. SplicedIn(placed, m.nodes, n, block, NULL, store.head)
    <3>1. n \in Nodes /\ n \notin DOMAIN m.nodes /\ n # NULL /\ AddedTo(made, m.nodes, n, block)
          /\ n # store.head
      BY <2>1, <2>2, <2>5 DEF n, made
    <3>2. NULL \notin DOMAIN m.nodes
      BY <2>5, ChainType
    <3>3. DOMAIN placed = DOMAIN m.nodes \cup {n} /\ Typed(placed)
      BY <2>6, <2>7, <3>1 DEF AddedTo, NextSet, PreviousSet
    <3>4. placed[n].previous = NULL /\ placed[n].next = store.head /\ placed[n].data = block
      BY <2>6, <2>7, <3>1 DEF AddedTo, NextSet, PreviousSet
    <3>5. ASSUME NEW q \in DOMAIN m.nodes
          PROVE  /\ placed[q].previous = IF q = store.head THEN n ELSE m.nodes[q].previous
                 /\ placed[q].next = m.nodes[q].next
                 /\ placed[q].data = m.nodes[q].data
                 /\ q # NULL
      BY <2>6, <2>7, <3>1, <3>2 DEF AddedTo, NextSet, PreviousSet
    <3>6. QED
      BY <3>3, <3>4, <3>5 DEF SplicedIn
  <2>9. placed = Spliced(m.nodes, n, block, NULL, store.head)
    BY <2>1, <2>5, <2>8, IsSpliced DEF n
  <2>10. Extends(m, c, 1, e, r.mem, r.storage)
    <3>1. r.storage = [head |-> IF 1 = 1 THEN n ELSE store.head,
                       tail |-> IF 1 = Len(c) + 1 THEN n ELSE store.tail]
      BY <2>4, <2>5 DEF n
    <3>2. /\ r.mem.nodes = Spliced(m.nodes, n, block, At(c, 1 - 1), At(c, 1))
          /\ r.mem.heap = Alloc(m.heap, block, [i \in {0} |-> e])
          /\ r.mem = [nodes |-> r.mem.nodes, heap |-> r.mem.heap]
      BY <2>2, <2>4, <2>5, <2>9
    <3>3. n \in Nodes /\ n \notin DOMAIN m.nodes /\ e \in Elements
      BY <2>1 DEF n
    <3>4. QED
      BY <2>5, <3>1, <3>2, <3>3, PlacedLemma
  <2>11. QED
    BY <2>4, <2>10 DEF Inserts
<1>4. QED
  BY <1>2, <1>3

LEMMA AppendLemma ==
    ASSUME NEW m, NEW store, NEW c, Sound(m, store, c), NEW element, NEW width,
           NEW e, e = Deref(m.heap, element), element # NULL => e \in Elements,
           NEW r \in linkedStorage_Append(m, store, element, width)
    PROVE  Inserts(m, store, c, Len(c) + 1, e, r)
<1>1. PICK a \in CreateNode(m, element, width) :
         r = IF a.node = NULL
             THEN LinkOutcome(FALSE, a.mem, store)
             ELSE LET linked == Link(a.mem.nodes, a.node, "previous", store.tail)
                  IN  LinkOutcome(TRUE,
                         [a.mem EXCEPT !.nodes = Link(linked, store.tail, "next", a.node)],
                         [head |-> IF store.tail = NULL THEN a.node ELSE store.head,
                          tail |-> a.node])
  BY DEF linkedStorage_Append
<1>2. CASE a.node = NULL /\ a.mem = m
  BY <1>1, <1>2 DEF Inserts
<1>3. CASE ~ (a.node = NULL /\ a.mem = m)
  <2>0. Makes(m, element, a)
    BY CreatedLemma
  <2>1. /\ a.node \in Nodes /\ a.node \notin DOMAIN m.nodes /\ a.node # NULL
        /\ element # NULL
    BY <1>3, <2>0 DEF Makes
  <2>2. PICK block \in Blocks \ DOMAIN m.heap :
           /\ AddedTo(a.mem.nodes, m.nodes, a.node, block)
           /\ a.mem = [nodes |-> a.mem.nodes, heap |-> a.mem.heap]
           /\ a.mem.heap = Alloc(m.heap, block, [i \in {0} |-> e])
    BY <1>3, <2>0 DEF Makes
  <2> DEFINE n == a.node
             made == a.mem.nodes
             linked == Link(made, n, "previous", store.tail)
             placed == Link(linked, store.tail, "next", n)
             end == [head |-> IF store.tail = NULL THEN n ELSE store.head, tail |-> n]
  <2>3. r = LinkOutcome(TRUE, [a.mem EXCEPT !.nodes = placed], end)
    BY <1>1, <2>1
  <2> HIDE DEF placed
  <2>4. /\ r = LinkOutcome(TRUE, r.mem, r.storage)
        /\ r.mem.nodes = placed /\ r.mem.heap = a.mem.heap
        /\ r.mem = [nodes |-> r.mem.nodes, heap |-> r.mem.heap]
        /\ r.storage = end
    <3> HIDE DEF end
    <3>1. r.mem = [a.mem EXCEPT !.nodes = placed] /\ r.storage = end
          /\ r = LinkOutcome(TRUE, r.mem, r.storage)
      BY <2>3 DEF LinkOutcome
    <3>2. QED
      BY <2>2, <3>1
  <2>5. /\ Linked(m.nodes, store, c)
        /\ Len(c) \in Nat /\ Len(c) + 1 \in 1 .. Len(c) + 1
        /\ Len(c) + 1 = 1 <=> Len(c) = 0
        /\ Typed(m.nodes)
        /\ store.tail = At(c, (Len(c) + 1) - 1) /\ At(c, Len(c) + 1) = NULL
        /\ store.tail \in Nodes \cup {NULL}
        /\ store.tail \in DOMAIN m.nodes <=> Len(c) # 0
        /\ store.tail = NULL <=> Len(c) = 0
    <3>1. Linked(m.nodes, store, c) /\ Len(c) \in Nat
      BY ChainType DEF Sound
    <3>2. store.tail = At(c, Len(c)) /\ At(c, Len(c) + 1) = NULL /\ Typed(m.nodes)
      BY <3>1 DEF Linked, At, Typed
    <3>3. /\ Len(c) \in 1 .. Len(c) <=> Len(c) # 0
          /\ (Len(c) + 1) - 1 = Len(c)
      BY <3>1
    <3>4. QED
      BY <3>1, <3>2, <3>3, AtLemma
  <2>6. PreviousSet(linked, made, n, store.tail)
    BY <2>2, <2>5, LinkPrevious DEF AddedTo
  <2> HIDE DEF linked
  <2>7. NextSet(placed, linked, store.tail, n)
    BY <2>1, <2>6, LinkNext DEF PreviousSet, placed
  <2> HIDE DEF made, n
  <2>8. SplicedIn(placed, m.nodes, n, block, store.tail, NULL)
    <3>1. n \in Nodes /\ n \notin DOMAIN m.nodes /\ n # NULL /\ AddedTo(made, m.nodes, n, block)
          /\ n # store.tail
      BY <2>1, <2>2, <2>5 DEF n, made
    <3>2. NULL \notin DOMAIN m.nodes
      BY <2>5, ChainType
    <3>3. DOMAIN placed = DOMAIN m.nodes \cup {n} /\ Typed(placed)
      BY <2>6, <2>7, <3>1 DEF AddedTo, NextSet, PreviousSet
    <3>4. placed[n].previous = store.tail /\ placed[n].next = NULL /\ placed[n].data = block
      BY <2>6, <2>7, <3>1 DEF AddedTo, NextSet, PreviousSet
    <3>5. ASSUME NEW q \in DOMAIN m.nodes
          PROVE  /\ placed[q].next = IF q = store.tail THEN n ELSE m.nodes[q].next
                 /\ placed[q].previous = m.nodes[q].previous
                 /\ placed[q].data = m.nodes[q].data
                 /\ q # NULL
      BY <2>6, <2>7, <3>1, <3>2 DEF AddedTo, NextSet, PreviousSet
    <3>6. QED
      BY <3>3, <3>4, <3>5 DEF SplicedIn
  <2>9. placed = Spliced(m.nodes, n, block, store.tail, NULL)
    BY <2>1, <2>5, <2>8, IsSpliced DEF n
  <2>10. Extends(m, c, Len(c) + 1, e, r.mem, r.storage)
    <3>1. r.storage = [head |-> IF Len(c) + 1 = 1 THEN n ELSE store.head,
                       tail |-> IF Len(c) + 1 = Len(c) + 1 THEN n ELSE store.tail]
      BY <2>4, <2>5 DEF n
    <3>2. /\ r.mem.nodes = Spliced(m.nodes, n, block, At(c, (Len(c) + 1) - 1),
                                   At(c, Len(c) + 1))
          /\ r.mem.heap = Alloc(m.heap, block, [i \in {0} |-> e])
          /\ r.mem = [nodes |-> r.mem.nodes, heap |-> r.mem.heap]
      BY <2>2, <2>4, <2>5, <2>9
    <3>3. n \in Nodes /\ n \notin DOMAIN m.nodes /\ e \in Elements
      BY <2>1 DEF n
    <3>4. QED
      BY <2>5, <3>1, <3>2, <3>3, PlacedLemma
  <2>11. QED
    BY <2>4, <2>10 DEF Inserts
<1>4. QED
  BY <1>2, <1>3

LEMMA InsertBeforeLemma ==
    ASSUME NEW m, NEW store, NEW c, Sound(m, store, c), NEW element, NEW width,
           NEW p \in 2 .. Len(c), NEW next, next = At(c, p),
           NEW e, e = Deref(m.heap, element), element # NULL => e \in Elements,
           NEW r \in InsertBefore(m, store, next, element, width)
    PROVE  Inserts(m, store, c, p, e, r)
<1>1. PICK a \in CreateNode(m, element, width) :
         r = IF a.node = NULL
             THEN LinkOutcome(FALSE, a.mem, store)
             ELSE LET before == a.mem.nodes[next].previous
                      made == Link(Link(a.mem.nodes, a.node, "previous", before),
                                   a.node, "next", next)
                  IN  LinkOutcome(TRUE,
                         [a.mem EXCEPT !.nodes = Link(Link(made, before, "next", a.node),
                                                      next, "previous", a.node)],
                         store)
  BY DEF InsertBefore
<1>2. CASE a.node = NULL /\ a.mem = m
  BY <1>1, <1>2 DEF Inserts
<1>3. CASE ~ (a.node = NULL /\ a.mem = m)
  <2>0. Makes(m, element, a)
    BY CreatedLemma
  <2>1. /\ a.node \in Nodes /\ a.node \notin DOMAIN m.nodes /\ a.node # NULL
        /\ element # NULL
    BY <1>3, <2>0 DEF Makes
  <2>2. PICK block \in Blocks \ DOMAIN m.heap :
           /\ AddedTo(a.mem.nodes, m.nodes, a.node, block)
           /\ a.mem = [nodes |-> a.mem.nodes, heap |-> a.mem.heap]
           /\ a.mem.heap = Alloc(m.heap, block, [i \in {0} |-> e])
    BY <1>3, <2>0 DEF Makes
  <2> DEFINE n == a.node
             made == a.mem.nodes
             before == made[next].previous
             one == Link(made, n, "previous", before)
             two == Link(one, n, "next", next)
             three == Link(two, before, "next", n)
             placed == Link(three, next, "previous", n)
  <2>3. r = LinkOutcome(TRUE, [a.mem EXCEPT !.nodes = placed], store)
    BY <1>1, <2>1
  <2> HIDE DEF placed
  <2>4. /\ r = LinkOutcome(TRUE, r.mem, r.storage)
        /\ r.mem.nodes = placed /\ r.mem.heap = a.mem.heap
        /\ r.mem = [nodes |-> r.mem.nodes, heap |-> r.mem.heap]
        /\ r.storage = store
    <3>1. r.mem = [a.mem EXCEPT !.nodes = placed] /\ r.storage = store
          /\ r = LinkOutcome(TRUE, r.mem, r.storage)
      BY <2>3 DEF LinkOutcome
    <3>2. QED
      BY <2>2, <3>1
  <2>5. /\ Linked(m.nodes, store, c)
        /\ Len(c) \in Nat /\ p \in 1 .. Len(c) + 1
        /\ p # 1 /\ p # Len(c) + 1
        /\ Typed(m.nodes)
        /\ next \in DOMAIN m.nodes /\ next \in Nodes
        /\ m.nodes[next].previous = At(c, p - 1)
        /\ At(c, p - 1) \in DOMAIN m.nodes /\ At(c, p - 1) \in Nodes
        /\ At(c, p - 1) # next
    <3>1. Linked(m.nodes, store, c) /\ Len(c) \in Nat
      BY ChainType DEF Sound
    <3>2. p \in 1 .. Len(c) /\ p - 1 \in 1 .. Len(c) /\ p - 1 # p
      BY <3>1
    <3>3. next = c[p] /\ At(c, p - 1) = c[p - 1]
      BY <3>2 DEF At
    <3>4. /\ next \in DOMAIN m.nodes /\ next \in Nodes
          /\ m.nodes[next].previous = At(c, p - 1)
          /\ c[p - 1] \in DOMAIN m.nodes /\ c[p - 1] \in Nodes
          /\ c[p - 1] # c[p]
      BY <3>1, <3>2, <3>3, OnChain
    <3>5. Typed(m.nodes)
      BY <3>1 DEF Linked, Typed
    <3>6. QED
      BY <3>1, <3>2, <3>3, <3>4, <3>5
  <2>6. before = At(c, p - 1)
    BY <2>2, <2>5 DEF AddedTo
  <2> HIDE DEF before, n
  <2>7. PreviousSet(one, made, n, before)
    BY <2>2, <2>5, <2>6, LinkPrevious DEF AddedTo
  <2> HIDE DEF one
  <2>8. NextSet(two, one, n, next)
    BY <2>5, <2>7, LinkNext DEF PreviousSet
  <2> HIDE DEF two
  <2>9. NextSet(three, two, before, n)
    BY <2>1, <2>8, LinkNext DEF NextSet, n
  <2> HIDE DEF three
  <2>10. PreviousSet(placed, three, next, n)
    BY <2>1, <2>9, LinkPrevious DEF NextSet, placed, n
  <2> HIDE DEF made
  <2>11. SplicedIn(placed, m.nodes, n, block, before, next)
    <3>1. /\ n \in Nodes /\ n \notin DOMAIN m.nodes /\ AddedTo(made, m.nodes, n, block)
          /\ n # next /\ n # before /\ before # next
          /\ next \in DOMAIN m.nodes /\ before \in DOMAIN m.nodes
      BY <2>1, <2>2, <2>5, <2>6 DEF n, made
    <3>2. DOMAIN placed = DOMAIN m.nodes \cup {n} /\ Typed(placed)
      BY <2>7, <2>8, <2>9, <2>10, <3>1 DEF AddedTo, NextSet, PreviousSet
    <3>3. placed[n].previous = before /\ placed[n].next = next /\ placed[n].data = block
      BY <2>7, <2>8, <2>9, <2>10, <3>1 DEF AddedTo, NextSet, PreviousSet
    <3>4. ASSUME NEW q \in DOMAIN m.nodes
          PROVE  /\ placed[q].previous = IF q = next THEN n ELSE m.nodes[q].previous
                 /\ placed[q].next = IF q = before THEN n ELSE m.nodes[q].next
                 /\ placed[q].data = m.nodes[q].data
      BY <2>7, <2>8, <2>9, <2>10, <3>1 DEF AddedTo, NextSet, PreviousSet
    <3>5. QED
      BY <3>2, <3>3, <3>4 DEF SplicedIn
  <2>12. placed = Spliced(m.nodes, n, block, before, next)
    BY <2>1, <2>5, <2>6, <2>11, IsSpliced DEF n
  <2>13. Extends(m, c, p, e, r.mem, r.storage)
    <3>1. r.storage = [head |-> IF p = 1 THEN n ELSE store.head,
                       tail |-> IF p = Len(c) + 1 THEN n ELSE store.tail]
      BY <2>4, <2>5 DEF Linked
    <3>2. /\ r.mem.nodes = Spliced(m.nodes, n, block, At(c, p - 1), At(c, p))
          /\ r.mem.heap = Alloc(m.heap, block, [i \in {0} |-> e])
          /\ r.mem = [nodes |-> r.mem.nodes, heap |-> r.mem.heap]
      BY <2>2, <2>4, <2>6, <2>12
    <3>3. n \in Nodes /\ n \notin DOMAIN m.nodes /\ e \in Elements
      BY <2>1 DEF n
    <3>4. QED
      BY <2>5, <3>1, <3>2, <3>3, PlacedLemma
  <2>14. QED
    BY <2>4, <2>13 DEF Inserts
<1>4. QED
  BY <1>2, <1>3

-----------------------------------------------------------------------------
(* Removing a node.                                                        *)

\* The element at position p is gone.
Shrinks(m, c, p, new, store) ==
    \E d : /\ Sound(new, store, d)
           /\ Values(new, d) = Removed(Values(m, c), p)
           /\ Stays(m, new)

LEMMA EndsRemoved ==
    ASSUME NEW nodes, NEW store, NEW c, Linked(nodes, store, c), NEW p \in 1 .. Len(c)
    PROVE  Ends(Removed(c, p))
           = [head |-> IF At(c, p - 1) = NULL THEN At(c, p + 1) ELSE store.head,
              tail |-> IF At(c, p + 1) = NULL THEN At(c, p - 1) ELSE store.tail]
<1>1. c \in Seq(Nodes) /\ Len(c) \in Nat
  BY ChainType DEF Linked
<1>2. Len(Removed(c, p)) = Len(c) - 1
  BY <1>1, RemovedType
<1>3. \A i \in Int : At(Removed(c, p), i) = IF i < p THEN At(c, i) ELSE At(c, i + 1)
  BY <1>1, AtRemoved
<1>4. At(Removed(c, p), 1) = IF p = 1 THEN At(c, p + 1) ELSE store.head
  BY <1>1, <1>3 DEF Linked
<1>5. At(Removed(c, p), Len(c) - 1) = IF p = Len(c) THEN At(c, p - 1) ELSE store.tail
  <2>1. Len(c) - 1 \in Int /\ (Len(c) - 1) + 1 = Len(c)
    BY <1>1
  <2>2. p = Len(c) => Len(c) - 1 < p /\ Len(c) - 1 = p - 1
    BY <1>1
  <2>3. p # Len(c) => ~ (Len(c) - 1 < p)
    BY <1>1
  <2>4. QED
    BY <1>3, <2>1, <2>2, <2>3 DEF Linked
<1>6. (At(c, p - 1) = NULL <=> p = 1) /\ (At(c, p + 1) = NULL <=> p = Len(c))
  <2>1. (p - 1 \notin 1 .. Len(c) <=> p = 1) /\ (p + 1 \notin 1 .. Len(c) <=> p = Len(c))
    BY <1>1
  <2>2. QED
    BY <2>1, AtLemma
<1>7. QED
  BY <1>2, <1>4, <1>5, <1>6 DEF Ends

\* What taking a node out of the chain does, field by field.
CutFrom(new, nodes, x) ==
    /\ DOMAIN new = DOMAIN nodes \ {x}
    /\ Typed(new)
    /\ \A q \in DOMAIN nodes \ {x} :
          /\ new[q].previous
             = IF q = nodes[x].next THEN nodes[x].previous ELSE nodes[q].previous
          /\ new[q].next = IF q = nodes[x].previous THEN nodes[x].next ELSE nodes[q].next
          /\ new[q].data = nodes[q].data

LEMMA CutFields ==
    ASSUME NEW nodes, Typed(nodes), NEW x \in DOMAIN nodes
    PROVE  CutFrom(Cut(nodes, x), nodes, x)
<1>1. \A q \in DOMAIN nodes : nodes[q] \in Node
  BY DEF Typed
<1>2. QED
  BY <1>1 DEF Cut, Node, Typed, CutFrom

LEMMA IsCut ==
    ASSUME NEW new, NEW nodes, Typed(nodes), NEW x \in DOMAIN nodes, CutFrom(new, nodes, x)
    PROVE  new = Cut(nodes, x)
<1> DEFINE other == Cut(nodes, x)
<1>1. CutFrom(other, nodes, x)
  BY CutFields
<1> HIDE DEF other
<1>2. /\ DOMAIN new = DOMAIN other
      /\ Typed(new) /\ Typed(other)
      /\ \A q \in DOMAIN new : /\ new[q].previous = other[q].previous
                               /\ new[q].next = other[q].next
                               /\ new[q].data = other[q].data
  BY <1>1 DEF CutFrom
<1>3. new = other
  BY <1>2, SameNodes
<1>4. QED
  BY <1>3 DEF other

FreedFrom(new, nodes, x) ==
    /\ Typed(new)
    /\ DOMAIN new = DOMAIN nodes \ {x}
    /\ \A q \in DOMAIN nodes \ {x} : new[q] = nodes[q]

LEMMA FreedTyped ==
    ASSUME NEW nodes, Typed(nodes), NEW x
    PROVE  FreedFrom(Free(nodes, x), nodes, x)
<1>1. \A q \in DOMAIN nodes : nodes[q] \in Node
  BY DEF Typed
<1>2. QED
  BY <1>1 DEF Free, Restrict, Typed, FreedFrom

Unlinks(m, c, p, x, u) ==
    /\ Free(u.nodes, x) = Cut(m.nodes, x)
    /\ u.storage = Ends(Removed(c, p))

\* A node and its block are unlinked and freed.
LEMMA UnlinkLemma ==
    ASSUME NEW m, NEW store, NEW c, Linked(m.nodes, store, c), NEW p \in 1 .. Len(c),
           NEW x, x = c[p]
    PROVE  Unlinks(m, c, p, x, UnlinkNode(m, store, x))
<1> DEFINE u == UnlinkNode(m, store, x)
<1>1. /\ x \in DOMAIN m.nodes
      /\ m.nodes[x].previous = At(c, p - 1) /\ m.nodes[x].next = At(c, p + 1)
  BY OnChain
<1>2. At(c, p - 1) \in Nodes \cup {NULL} /\ At(c, p + 1) \in Nodes \cup {NULL}
  BY AtLemma
<1>3. Typed(m.nodes)
  BY DEF Linked, Typed
<1> DEFINE before == m.nodes[x].previous
           after == m.nodes[x].next
           first == Link(m.nodes, before, "next", after)
           second == Link(first, after, "previous", before)
           rest == Free(second, x)
<1>4. before \in Nodes \cup {NULL} /\ after \in Nodes \cup {NULL}
  BY <1>1, <1>2
<1>5. /\ u.nodes = second
      /\ u.storage = [head |-> IF before = NULL THEN after ELSE store.head,
                      tail |-> IF after = NULL THEN before ELSE store.tail]
  BY DEF UnlinkNode
<1> HIDE DEF before, after
<1>6. NextSet(first, m.nodes, before, after)
  BY <1>3, <1>4, LinkNext
<1> HIDE DEF first
<1>7. PreviousSet(second, first, after, before)
  BY <1>4, <1>6, LinkPrevious DEF NextSet
<1> HIDE DEF second
<1>8. FreedFrom(rest, second, x)
  <2>1. Typed(second)
    BY <1>7 DEF PreviousSet
  <2>2. QED
    BY <2>1, FreedTyped
<1> HIDE DEF rest
<1>9. CutFrom(rest, m.nodes, x)
  BY <1>6, <1>7, <1>8 DEF CutFrom, NextSet, PreviousSet, FreedFrom, before, after
<1>10. rest = Cut(m.nodes, x)
  BY <1>1, <1>3, <1>9, IsCut
<1>11. u.storage = Ends(Removed(c, p))
  BY <1>1, <1>5, EndsRemoved DEF before, after
<1>12. QED
  BY <1>5, <1>10, <1>11 DEF rest, Unlinks

Drops(m, x, new) ==
    /\ new = [nodes |-> new.nodes, heap |-> new.heap]
    /\ DOMAIN new.nodes = DOMAIN m.nodes \ {x}
    /\ \A q \in DOMAIN m.nodes \ {x} : new.nodes[q].data = m.nodes[q].data
    /\ new.heap = Free(m.heap, m.nodes[x].data)

LEMMA ShrunkLemma ==
    ASSUME NEW m, NEW store, NEW c, Sound(m, store, c), NEW p \in 1 .. Len(c),
           NEW new, NEW end, Linked(new.nodes, end, Removed(c, p)), Drops(m, c[p], new)
    PROVE  Shrinks(m, c, p, new, end)
<1> DEFINE d == Removed(c, p)
           old == m.nodes
           S == DOMAIN m.nodes
           x == c[p]
           gone == m.nodes[x].data
<1>1. /\ Linked(old, store, c) /\ Filled(m)
      /\ c \in Seq(Nodes) /\ Len(c) \in Nat
      /\ x \in S
  BY ChainType DEF Sound, Linked
<1>2. /\ DOMAIN new.nodes = S \ {x}
      /\ \A q \in S \ {x} : new.nodes[q].data = old[q].data
  BY DEF Drops
<1>3. /\ DOMAIN new.heap = DOMAIN m.heap \ {gone}
      /\ \A b \in DOMAIN m.heap \ {gone} : new.heap[b] = m.heap[b]
      /\ new.heap = [b \in DOMAIN new.heap |-> new.heap[b]]
  BY DEF Drops, Free, Restrict
<1>4. Linked(new.nodes, end, d)
  OBVIOUS
<1>5. /\ DOMAIN m.heap = BlocksOf(old)
      /\ \A b \in DOMAIN m.heap : \E q \in S : b = old[q].data
      /\ \A b \in DOMAIN m.heap : m.heap[b] \in [{0} -> Elements]
      /\ \A p1, p2 \in S : old[p1].data = old[p2].data => p1 = p2
      /\ \A q \in S : old[q].data \in DOMAIN m.heap
  <2>1. DOMAIN m.heap = BlocksOf(old)
    BY <1>1 DEF Filled
  <2>2. /\ \A b \in DOMAIN m.heap : \E q \in S : b = old[q].data
        /\ \A q \in S : old[q].data \in DOMAIN m.heap
    BY <2>1 DEF BlocksOf
  <2>3. QED
    BY <1>1, <2>1, <2>2 DEF Filled
<1>6. \A q \in S \ {x} : old[q].data # gone /\ old[q].data \in DOMAIN new.heap
  BY <1>1, <1>3, <1>5
<1>7. \A i \in 1 .. Len(c) : c[i] \in S /\ (i # p => c[i] # x)
  BY <1>1, OnChain
<1> HIDE DEF d, x, gone, S, old
<1>8. Filled(new)
  <2>1. DOMAIN new.heap = BlocksOf(new.nodes)
    <3>1. \A b \in DOMAIN new.heap : \E q \in DOMAIN new.nodes : b = new.nodes[q].data
      <4>1. TAKE b \in DOMAIN new.heap
      <4>2. PICK q \in S : b = old[q].data
        BY <1>3, <1>5
      <4>3. q # x
        BY <1>3, <4>2 DEF gone, old
      <4>4. QED
        BY <1>2, <4>2, <4>3
    <3>2. \A q \in DOMAIN new.nodes : new.nodes[q].data \in DOMAIN new.heap
      BY <1>2, <1>6
    <3>3. QED
      BY <3>1, <3>2 DEF BlocksOf
  <2>2. \A b \in DOMAIN new.heap : new.heap[b] \in [{0} -> Elements]
    BY <1>3, <1>5
  <2>3. \A p1, p2 \in DOMAIN new.nodes : new.nodes[p1].data = new.nodes[p2].data => p1 = p2
    BY <1>2, <1>5
  <2>4. new.heap \in [BlocksOf(new.nodes) -> [{0} -> Elements]]
    BY <1>3, <2>1, <2>2
  <2>5. QED
    BY <2>3, <2>4 DEF Filled, Drops
<1>9. \A q \in S \ {x} : Value(new, q) = Value(m, q)
  BY <1>2, <1>3, <1>5, <1>6 DEF Value, old
<1>10. Values(new, d) = Removed(Values(m, c), p)
  <2>1. Len(d) = Len(c) - 1
    BY <1>1, RemovedType DEF d
  <2>2. Len(Values(m, c)) = Len(c) /\ \A i \in 1 .. Len(c) : Values(m, c)[i] = Value(m, c[i])
    BY ValuesLemma DEF Values
  <2>3. \A i \in 1 .. Len(c) - 1 :
           Value(new, d[i]) = IF i < p THEN Values(m, c)[i] ELSE Values(m, c)[i + 1]
    <3>1. TAKE i \in 1 .. Len(c) - 1
    <3>2. d[i] = IF i < p THEN c[i] ELSE c[i + 1]
      BY DEF d, Removed
    <3>3. CASE i < p
      <4>1. i \in 1 .. Len(c) /\ i # p
        BY <1>1, <3>3
      <4>2. QED
        BY <1>7, <1>9, <2>2, <3>2, <3>3, <4>1
    <3>4. CASE ~ (i < p)
      <4>1. i + 1 \in 1 .. Len(c) /\ i + 1 # p
        BY <1>1, <3>4
      <4>2. QED
        BY <1>7, <1>9, <2>2, <3>2, <3>4, <4>1
    <3>5. QED
      BY <3>3, <3>4
  <2>4. QED
    BY <2>1, <2>2, <2>3 DEF Values, Removed
<1>11. Stays(m, new)
  BY <1>2, <1>3, <1>6 DEF Stays, S, old
<1>12. QED
  BY <1>4, <1>8, <1>10, <1>11 DEF Shrinks, Sound, d

\* linkedStorage_Erase, which cannot fail for an index in range.
LEMMA EraseLemma ==
    ASSUME NEW m, NEW store, NEW c, Sound(m, store, c), NEW index \in 0 .. Len(c) - 1,
           NEW r, r = linkedStorage_Erase(m, store, Len(c), index)
    PROVE  /\ r.ok = TRUE
           /\ Shrinks(m, c, index + 1, r.mem, r.storage)
<1> DEFINE p == index + 1
           x == c[p]
           u == UnlinkNode(m, store, x)
<1>1. Linked(m.nodes, store, c) /\ Len(c) \in Nat
  BY ChainType DEF Sound
<1>2. p \in 1 .. Len(c) /\ index \in Nat
  BY <1>1
<1>3. NodeAt(m, store, Len(c), index) = x /\ x \in DOMAIN m.nodes
  <2>1. NodeAt(m, store, Len(c), index) = At(c, p)
    BY <1>1, <1>2, NodeAtLemma
  <2>2. QED
    BY <1>1, <1>2, <2>1, AtLemma
<1>4. r = LinkOutcome(TRUE, [nodes |-> Free(u.nodes, x),
                             heap  |-> Free(m.heap, m.nodes[x].data)], u.storage)
  BY <1>3 DEF linkedStorage_Erase
<1> HIDE DEF u
<1>5. /\ r.ok = TRUE
      /\ r.mem.nodes = Free(u.nodes, x)
      /\ r.mem.heap = Free(m.heap, m.nodes[x].data)
      /\ r.mem = [nodes |-> r.mem.nodes, heap |-> r.mem.heap]
      /\ r.storage = u.storage
  BY <1>4 DEF LinkOutcome
<1> HIDE DEF p
<1>6. Free(u.nodes, x) = Cut(m.nodes, x) /\ u.storage = Ends(Removed(c, p))
  <2>1. Unlinks(m, c, p, x, u)
    BY <1>1, <1>2, UnlinkLemma DEF u
  <2>2. QED
    BY <2>1 DEF Unlinks
<1>7. Linked(r.mem.nodes, r.storage, Removed(c, p))
  BY <1>1, <1>2, <1>5, <1>6, CutLinked
<1>8. Typed(m.nodes)
  BY <1>1 DEF Linked, Typed
<1>9. CutFrom(Cut(m.nodes, x), m.nodes, x)
  BY <1>3, <1>8, CutFields
<1>10. Drops(m, x, r.mem)
  BY <1>5, <1>6, <1>9 DEF Drops, CutFrom
<1>11. Shrinks(m, c, p, r.mem, r.storage)
  BY <1>2, <1>7, <1>10, ShrunkLemma
<1>12. QED
  BY <1>5, <1>11 DEF p

-----------------------------------------------------------------------------
(* The insertions of the two containers.                                   *)

\* The ways a call that stores an element at an index can end.
Stores(m, store, c, index, element, width, r) ==
    \/ r = LinkOutcome(FALSE, m, store)
    \/ /\ r = LinkOutcome(TRUE, r.mem, r.storage)
       /\ element # NULL /\ width # 0
       /\ index <= Len(c)
       /\ Len(c) # SizeMax
       /\ Extends(m, c, index + 1, Deref(m.heap, element), r.mem, r.storage)

LEMMA StoresLemma ==
    ASSUME NEW m, NEW store, NEW c, NEW index, NEW element, NEW width, NEW r,
           Inserts(m, store, c, index + 1, Deref(m.heap, element), r),
           element # NULL, width # 0, index <= Len(c), Len(c) # SizeMax
    PROVE  Stores(m, store, c, index, element, width, r)
BY DEF Inserts, Stores

\* linkedStorage_Insert chooses among those three.
LEMMA InsertLemma ==
    ASSUME NEW m, NEW store, NEW c, Sound(m, store, c), NEW index \in Nat,
           NEW element, NEW width, element # NULL => Deref(m.heap, element) \in Elements,
           NEW r \in linkedStorage_Insert(m, store, Len(c), index, element, width)
    PROVE  Stores(m, store, c, index, element, width, r)
<1> DEFINE e == Deref(m.heap, element)
<1>1. CASE CannotLink(Len(c), index, element, width)
  BY <1>1 DEF linkedStorage_Insert, Stores
<1>2. CASE ~ CannotLink(Len(c), index, element, width)
  <2>1. element # NULL /\ width # 0 /\ Len(c) # SizeMax /\ index <= Len(c) /\ Len(c) \in Nat
    BY <1>2, ChainType DEF CannotLink, Sound
  <2> HIDE DEF e
  <2>2. CASE index = 0
    <3>1. r \in linkedStorage_Prepend(m, store, element, width)
      BY <1>2, <2>2 DEF linkedStorage_Insert
    <3>2. Inserts(m, store, c, 1, e, r)
      BY <3>1, PrependLemma DEF e
    <3>3. index + 1 = 1
      BY <2>2
    <3>4. QED
      BY <2>1, <3>2, <3>3, StoresLemma DEF e
  <2>3. CASE index # 0 /\ index = Len(c)
    <3>1. r \in linkedStorage_Append(m, store, element, width)
      BY <1>2, <2>3 DEF linkedStorage_Insert
    <3>2. Inserts(m, store, c, Len(c) + 1, e, r)
      BY <3>1, AppendLemma DEF e
    <3>3. index + 1 = Len(c) + 1
      BY <2>3
    <3>4. QED
      BY <2>1, <3>2, <3>3, StoresLemma DEF e
  <2>4. CASE index # 0 /\ index # Len(c)
    <3> DEFINE next == NodeAt(m, store, Len(c), index)
    <3>1. index + 1 \in 2 .. Len(c) /\ index + 1 \in 1 .. Len(c)
      BY <2>1, <2>4
    <3>2. next = At(c, index + 1)
      BY NodeAtLemma DEF Sound
    <3>3. next \in DOMAIN m.nodes
      BY <3>1, <3>2, AtLemma DEF Sound
    <3>4. r \in InsertBefore(m, store, next, element, width)
      BY <1>2, <2>4, <3>3 DEF linkedStorage_Insert
    <3> HIDE DEF next
    <3>5. Inserts(m, store, c, index + 1, e, r)
      BY <3>1, <3>2, <3>4, InsertBeforeLemma DEF e
    <3>6. QED
      BY <2>1, <3>5, StoresLemma DEF e
  <2>5. QED
    BY <2>2, <2>3, <2>4
<1>3. QED
  BY <1>1, <1>2

LEMMA AppendStores ==
    ASSUME NEW m, NEW store, NEW c, Sound(m, store, c),
           NEW element, NEW width, element # NULL => Deref(m.heap, element) \in Elements,
           NEW r \in IF element = NULL \/ width = 0 \/ Len(c) = SizeMax
                     THEN {LinkOutcome(FALSE, m, store)}
                     ELSE linkedStorage_Append(m, store, element, width)
    PROVE  Stores(m, store, c, Len(c), element, width, r)
<1> DEFINE e == Deref(m.heap, element)
<1>1. CASE element = NULL \/ width = 0 \/ Len(c) = SizeMax
  BY <1>1 DEF Stores
<1>2. CASE ~ (element = NULL \/ width = 0 \/ Len(c) = SizeMax)
  <2>1. r \in linkedStorage_Append(m, store, element, width)
    BY <1>2
  <2> HIDE DEF e
  <2>2. Inserts(m, store, c, Len(c) + 1, e, r)
    BY <2>1, <1>2, AppendLemma DEF e
  <2>3. Len(c) <= Len(c)
    BY ChainType DEF Sound
  <2>4. QED
    BY <1>2, <2>2, <2>3, StoresLemma DEF e
<1>3. QED
  BY <1>1, <1>2

-----------------------------------------------------------------------------
(* An empty chain.                                                         *)

LEMMA EmptyChain ==
    /\ Sound(EmptyMemory, EmptyLinks, <<>>)
    /\ Values(EmptyMemory, <<>>) = <<>>
<1>1. EmptyMemory.nodes = [n \in {} |-> <<>>] /\ EmptyMemory.heap = [b \in {} |-> <<>>]
  BY DEF EmptyMemory, EmptyHeap
<1>2. Linked(EmptyMemory.nodes, EmptyLinks, <<>>)
  BY <1>1 DEF Linked, EmptyLinks, At
<1>3. BlocksOf(EmptyMemory.nodes) = {}
  BY <1>1 DEF BlocksOf
<1>4. Filled(EmptyMemory)
  BY <1>1, <1>3 DEF Filled, EmptyMemory
<1>5. QED
  BY <1>2, <1>4 DEF Sound, Values

LEMMA OnlyEmptyChain ==
    ASSUME NEW m, NEW store, NEW c, Sound(m, store, c), Len(c) = 0
    PROVE  m = EmptyMemory /\ store = EmptyLinks
<1>1. DOMAIN m.nodes = {}
  <2>1. DOMAIN m.nodes = {c[i] : i \in 1 .. Len(c)}
    BY DEF Sound, Linked
  <2>2. 1 .. Len(c) = {}
    OBVIOUS
  <2>3. QED
    BY <2>1, <2>2
<1>2. DOMAIN m.heap = {}
  BY <1>1 DEF Sound, Filled, BlocksOf
<1>3. m.nodes = [n \in {} |-> <<>>] /\ m.heap = [b \in {} |-> <<>>]
  BY <1>1, <1>2 DEF Sound, Linked, Filled
<1>4. m = EmptyMemory
  BY <1>3 DEF Sound, Filled, EmptyMemory, EmptyHeap
<1>5. store = EmptyLinks
  BY DEF Sound, Linked, At, EmptyLinks
<1>6. QED
  BY <1>4, <1>5

LEMMA VisitedLemma ==
    ASSUME NEW nodes, NEW store, NEW c, Linked(nodes, store, c)
    PROVE  Visited(nodes, store.head, "next") = DOMAIN nodes
<1>1. Visited(nodes, store.head, "next") = {c[i] : i \in DOMAIN c}
  BY WalkNext DEF Visited, Range
<1>2. DOMAIN c = 1 .. Len(c) /\ DOMAIN nodes = {c[i] : i \in 1 .. Len(c)}
  BY DEF Linked
<1>3. QED
  BY <1>1, <1>2

\* Everything that is allocated is freed.
LEMMA DestroyLemma ==
    ASSUME NEW m, NEW store, NEW c, Sound(m, store, c)
    PROVE  linkedStorage_Destroy(m, store) = LinkOutcome(TRUE, EmptyMemory, EmptyLinks)
<1> DEFINE reached == Visited(m.nodes, store.head, "next")
           kept == {b \in DOMAIN m.heap :
                       \A n \in reached \cap DOMAIN m.nodes : m.nodes[n].data # b}
<1>1. reached = DOMAIN m.nodes
  BY VisitedLemma DEF Sound
<1>2. linkedStorage_Destroy(m, store)
      = LinkOutcome(TRUE, [nodes |-> Restrict(m.nodes, DOMAIN m.nodes \ reached),
                           heap  |-> Restrict(m.heap, kept)], EmptyLinks)
  BY DEF linkedStorage_Destroy
<1> HIDE DEF reached
<1>3. kept = {}
  <2>1. \A b \in DOMAIN m.heap : \E n \in DOMAIN m.nodes : m.nodes[n].data = b
    BY DEF Sound, Filled, BlocksOf
  <2>2. QED
    BY <1>1, <2>1
<1> HIDE DEF kept
<1>4. Restrict(m.nodes, DOMAIN m.nodes \ reached) = [n \in {} |-> <<>>]
  BY <1>1 DEF Restrict
<1>5. Restrict(m.heap, kept) = [b \in {} |-> <<>>]
  BY <1>3 DEF Restrict
<1>6. QED
  BY <1>2, <1>4, <1>5 DEF EmptyMemory, EmptyHeap

-----------------------------------------------------------------------------
(* Creation from an array.                                                 *)

\* The outcomes after the i-th element, given those before it.
AppendNext(before, element, width) ==
    UNION {IF o.ok THEN linkedStorage_Append(o.mem, o.storage, Variable(element), width)
                   ELSE {o} : o \in before}

\* What the recursive function of Appended is, up to n.
Steps(f, start, elements, n, width) ==
    f = [i \in 0 .. n |->
            IF i = 0 THEN start ELSE AppendNext(f[i - 1], elements[i], width)]

LEMMA StepsExist ==
    ASSUME NEW start, NEW elements, NEW width
    PROVE  \A n \in Nat : \E f : Steps(f, start, elements, n, width)
<1> DEFINE T == {n \in Nat : ~ \E f : Steps(f, start, elements, n, width)}
<1>1. SUFFICES ASSUME T # {}
               PROVE  FALSE
  OBVIOUS
<1>2. PICK n \in T : \A k \in T : n <= k
  <2>1. T \in SUBSET Nat
    OBVIOUS
  <2> HIDE DEF T
  <2>2. QED
    BY <1>1, <2>1, Least
<1>3. n \in Nat /\ ~ \E f : Steps(f, start, elements, n, width)
  OBVIOUS
<1>4. n # 0
  <2>1. Steps([i \in 0 .. 0 |-> start], start, elements, 0, width)
    <3>1. \A i \in 0 .. 0 : i = 0
      OBVIOUS
    <3>2. QED
      BY <3>1 DEF Steps
  <2>2. QED
    BY <1>3, <2>1
<1>5. n - 1 \in Nat /\ ~ (n <= n - 1)
  BY <1>3, <1>4
<1>6. PICK f : Steps(f, start, elements, n - 1, width)
  BY <1>2, <1>5
<1> DEFINE last == AppendNext(f[n - 1], elements[n], width)
           g == [i \in 0 .. n |-> IF i = n THEN last ELSE f[i]]
<1>7. \A i \in 0 .. n - 1 :
         f[i] = IF i = 0 THEN start ELSE AppendNext(f[i - 1], elements[i], width)
  BY <1>6 DEF Steps
<1>8. \A i \in 0 .. n :
         g[i] = IF i = 0 THEN start ELSE AppendNext(g[i - 1], elements[i], width)
  <2>1. TAKE i \in 0 .. n
  <2>2. CASE i = n
    <3>1. n - 1 \in 0 .. n /\ n - 1 # n
      BY <1>3, <1>5
    <3>2. g[n - 1] = f[n - 1]
      BY <3>1
    <3>3. g[i] = last
      BY <2>2
    <3>4. QED
      BY <1>4, <2>2, <3>2, <3>3
  <2>3. CASE i # n
    <3>1. i \in 0 .. n - 1 /\ g[i] = f[i]
      BY <1>3, <2>3
    <3>2. i # 0 => g[i - 1] = f[i - 1]
      BY <1>3, <2>3
    <3> HIDE DEF g
    <3>3. QED
      BY <1>7, <3>1, <3>2
  <2>4. QED
    BY <2>2, <2>3
<1>9. g = [i \in 0 .. n |-> g[i]]
  OBVIOUS
<1> HIDE DEF g
<1>10. Steps(g, start, elements, n, width)
  BY <1>8, <1>9 DEF Steps
<1>11. QED
  BY <1>3, <1>10

\* The storage after i elements, or the part of it that was built when an
\* allocation failed.
Partial(o, elements, i) ==
    \/ /\ o = LinkOutcome(TRUE, o.mem, o.storage)
       /\ \E c : Sound(o.mem, o.storage, c) /\ Values(o.mem, c) = [j \in 1 .. i |-> elements[j]]
    \/ /\ o = LinkOutcome(FALSE, o.mem, o.storage)
       /\ \E c : Sound(o.mem, o.storage, c)

LEMMA VariableLemma ==
    ASSUME NEW h, NEW e \in Elements \cup {NULL}
    PROVE  Variable(e) # NULL /\ Deref(h, Variable(e)) = e
<1>1. Variable(e) \in [block : {Caller}, slot : Elements \cup {NULL}]
  BY DEF Variable, Address
<1>2. Variable(e) # NULL
  BY <1>1, MemoryAssumption
<1>3. Variable(e).block = Caller /\ Variable(e).slot = e
  BY DEF Variable, Address
<1>4. QED
  BY <1>2, <1>3 DEF Deref

LEMMA PartialNext ==
    ASSUME NEW count \in Nat, NEW elements, \A j \in 1 .. count : elements[j] \in Elements,
           NEW i \in 1 .. count, NEW width, NEW before,
           \A o \in before : Partial(o, elements, i - 1),
           NEW r \in AppendNext(before, elements[i], width)
    PROVE  Partial(r, elements, i)
<1>1. PICK o \in before :
         r \in IF o.ok THEN linkedStorage_Append(o.mem, o.storage, Variable(elements[i]), width)
                       ELSE {o}
  BY DEF AppendNext
<1>2. Partial(o, elements, i - 1)
  OBVIOUS
<1>3. CASE o = LinkOutcome(FALSE, o.mem, o.storage) /\ \E c : Sound(o.mem, o.storage, c)
  <2>1. o.ok = FALSE
    BY <1>3 DEF LinkOutcome
  <2>2. r = o
    BY <1>1, <2>1
  <2>3. QED
    BY <1>3, <2>2 DEF Partial
<1>4. CASE /\ o = LinkOutcome(TRUE, o.mem, o.storage)
           /\ \E c : /\ Sound(o.mem, o.storage, c)
                     /\ Values(o.mem, c) = [j \in 1 .. i - 1 |-> elements[j]]
  <2> DEFINE m == o.mem
             store == o.storage
             x == elements[i]
             element == Variable(x)
  <2>1. o.ok = TRUE
    BY <1>4 DEF LinkOutcome
  <2>2. r \in linkedStorage_Append(m, store, element, width)
    BY <1>1, <2>1
  <2>3. PICK c : /\ Sound(m, store, c)
                 /\ Values(m, c) = [j \in 1 .. i - 1 |-> elements[j]]
    BY <1>4
  <2>4. x \in Elements
    OBVIOUS
  <2>5. element # NULL /\ Deref(m.heap, element) = x
    BY <2>4, VariableLemma
  <2>6. Len(c) = i - 1 /\ Len(Values(m, c)) = i - 1
    <3>1. i - 1 \in Nat
      OBVIOUS
    <3>2. Len([j \in 1 .. i - 1 |-> elements[j]]) = i - 1
      <4>1. [j \in 1 .. i - 1 |-> elements[j]] \in [1 .. i - 1 -> Elements]
        OBVIOUS
      <4>2. QED
        BY <3>1, <4>1, FunctionSeq
    <3>3. Len(Values(m, c)) = Len(c)
      BY <2>3, ValuesLemma
    <3>4. QED
      BY <2>3, <3>2, <3>3
  <2> HIDE DEF m, store, x, element
  <2>7. Inserts(m, store, c, Len(c) + 1, x, r)
    BY <2>2, <2>3, <2>4, <2>5, AppendLemma
  <2>8. CASE r = LinkOutcome(FALSE, m, store)
    <3>1. r = LinkOutcome(FALSE, r.mem, r.storage) /\ r.mem = m /\ r.storage = store
      BY <2>8 DEF LinkOutcome
    <3>2. QED
      BY <2>3, <3>1 DEF Partial
  <2>9. CASE /\ r = LinkOutcome(TRUE, r.mem, r.storage)
             /\ Extends(m, c, Len(c) + 1, x, r.mem, r.storage)
    <3>1. PICK d : /\ Sound(r.mem, r.storage, d)
                   /\ Values(r.mem, d) = Inserted(Values(m, c), i, x)
      BY <2>6, <2>9 DEF Extends
    <3>2. Inserted(Values(m, c), i, x) = [j \in 1 .. i |-> elements[j]]
      <4>1. /\ \A j \in 1 .. i - 1 : Values(m, c)[j] = elements[j]
            /\ Len(Values(m, c)) + 1 = i
        BY <2>3, <2>6
      <4>2. \A j \in 1 .. i : (IF j < i THEN Values(m, c)[j]
                               ELSE IF j = i THEN x ELSE Values(m, c)[j - 1]) = elements[j]
        BY <4>1 DEF x
      <4>3. QED
        BY <4>1, <4>2 DEF Inserted
    <3>3. QED
      BY <2>9, <3>1, <3>2 DEF Partial
  <2>10. QED
    BY <2>7, <2>8, <2>9 DEF Inserts
<1>5. QED
  BY <1>2, <1>3, <1>4 DEF Partial

\* By induction: after i elements, they are on the chain or an allocation has failed.
LEMMA AppendedLemma ==
    ASSUME NEW count \in Nat, NEW elements, \A j \in 1 .. count : elements[j] \in Elements,
           NEW width, NEW o \in Appended(EmptyMemory, elements, count, width)
    PROVE  Partial(o, elements, count)
<1> DEFINE start == {linkedStorage_Init(EmptyMemory, EmptyLinks)}
           after == CHOOSE f : Steps(f, start, elements, count, width)
<1>1. Appended(EmptyMemory, elements, count, width) = after[count]
  BY DEF Appended, Steps, AppendNext
<1>2. Steps(after, start, elements, count, width)
  <2> HIDE DEF start
  <2>1. QED
    BY StepsExist
<1>3. \A r \in start : Partial(r, elements, 0)
  <2>1. \A r \in start : r = LinkOutcome(TRUE, EmptyMemory, EmptyLinks)
    BY DEF linkedStorage_Init
  <2>2. [j \in 1 .. 0 |-> elements[j]] = <<>>
    OBVIOUS
  <2>3. \A r \in start : /\ r = LinkOutcome(TRUE, r.mem, r.storage)
                         /\ r.mem = EmptyMemory /\ r.storage = EmptyLinks
    BY <2>1 DEF LinkOutcome
  <2>4. QED
    BY <2>2, <2>3, EmptyChain DEF Partial
<1> HIDE DEF start, after
<1>4. \A i \in 0 .. count :
         after[i] = IF i = 0 THEN start ELSE AppendNext(after[i - 1], elements[i], width)
  BY <1>2 DEF Steps
<1> DEFINE T == {i \in 0 .. count : \E r \in after[i] : ~ Partial(r, elements, i)}
<1>5. T = {}
  <2>1. SUFFICES ASSUME T # {}
                 PROVE  FALSE
    OBVIOUS
  <2>2. PICK i \in T : \A k \in T : i <= k
    <3>1. T \in SUBSET Nat
      OBVIOUS
    <3> HIDE DEF T
    <3>2. QED
      BY <2>1, <3>1, Least
  <2>3. PICK r \in after[i] : ~ Partial(r, elements, i)
    OBVIOUS
  <2>4. i # 0
    BY <1>3, <1>4, <2>3
  <2>5. i - 1 \in 0 .. count /\ i \in 1 .. count /\ ~ (i <= i - 1)
    BY <2>4
  <2>6. \A b \in after[i - 1] : Partial(b, elements, i - 1)
    BY <2>2, <2>5
  <2>7. r \in AppendNext(after[i - 1], elements[i], width)
    BY <1>4, <2>3, <2>4
  <2>8. Partial(r, elements, i)
    BY <2>5, <2>6, <2>7, PartialNext
  <2>9. QED
    BY <2>3, <2>8
<1>6. count \in 0 .. count
  OBVIOUS
<1>7. QED
  BY <1>1, <1>5, <1>6

\* The ways the creation of a storage can end, where nothing was allocated.
Creates(elements, count, width, r) ==
    \/ r.ok = FALSE /\ r.mem = EmptyMemory
    \/ /\ r.ok = TRUE
       /\ width > 0
       /\ \E c : /\ Sound(r.mem, r.storage, c)
                 /\ Values(r.mem, c) = [j \in 1 .. count |-> elements[j]]

\* linkedStorage_InitFrom: all elements in their order, or nothing left.
LEMMA InitFromLemma ==
    ASSUME NEW elements, NEW count \in Nat,
           elements # NULL => \A j \in 1 .. count : elements[j] \in Elements,
           NEW width \in Nat, NEW store,
           NEW r \in linkedStorage_InitFrom(EmptyMemory, store, elements, count, width)
    PROVE  /\ Creates(elements, count, width, r)
           /\ r.ok => elements # NULL \/ count = 0
<1> DEFINE refused == \/ width = 0
                      \/ elements = NULL /\ count > 0
                      \/ count > SizeMax \div width
<1>1. CASE refused
  BY <1>1 DEF linkedStorage_InitFrom, LinkOutcome, Creates
<1>2. CASE ~ refused
  <2>1. PICK o \in Appended(EmptyMemory, elements, count, width) :
           r = InitFromOutcome(o, store)
    BY <1>2 DEF linkedStorage_InitFrom
  <2>2. width > 0 /\ (elements # NULL \/ count = 0)
    BY <1>2
  <2>3. \A j \in 1 .. count : elements[j] \in Elements
    BY <2>2
  <2> HIDE DEF refused
  <2>4. Partial(o, elements, count)
    BY <2>1, <2>3, AppendedLemma
  <2>5. CASE o = LinkOutcome(FALSE, o.mem, o.storage) /\ \E c : Sound(o.mem, o.storage, c)
    <3>1. o.ok = FALSE
      BY <2>5 DEF LinkOutcome
    <3>2. linkedStorage_Destroy(o.mem, o.storage)
          = LinkOutcome(TRUE, EmptyMemory, EmptyLinks)
      BY <2>5, DestroyLemma
    <3>3. r = LinkOutcome(FALSE, EmptyMemory, store)
      BY <2>1, <3>1, <3>2 DEF InitFromOutcome, LinkOutcome
    <3>4. QED
      BY <3>3 DEF Creates, LinkOutcome
  <2>6. CASE /\ o = LinkOutcome(TRUE, o.mem, o.storage)
             /\ \E c : /\ Sound(o.mem, o.storage, c)
                       /\ Values(o.mem, c) = [j \in 1 .. count |-> elements[j]]
    <3>1. o.ok = TRUE
      BY <2>6 DEF LinkOutcome
    <3>2. r = o
      BY <2>1, <3>1 DEF InitFromOutcome
    <3>3. QED
      BY <2>2, <2>6, <3>1, <3>2 DEF Creates
  <2>7. QED
    BY <2>4, <2>5, <2>6 DEF Partial
<1>3. QED
  BY <1>1, <1>2

-----------------------------------------------------------------------------
(* The container.                                                          *)

\* A step that returns false changes nothing.
Atomic == ~ result'.ok => UNCHANGED <<container, caller, released>>

LEMMA NodeValue ==
    ASSUME NEW m, NEW store, NEW c, Sound(m, store, c), NEW n \in DOMAIN m.nodes, NEW address,
           address = IF n \in DOMAIN m.nodes THEN Address(m.nodes[n].data, 0) ELSE NULL
    PROVE  /\ address # NULL
           /\ address.block = m.nodes[n].data /\ address.slot = 0
           /\ address.block # Caller
           /\ Deref(m.heap, address) = Value(m, n)
BY AddressLemma

LEMMA ElementsLemma ==
    ASSUME NEW m, NEW store, NEW c, Sound(m, store, c), NEW cells, NEW s,
           \A n \in Nodes :
              cells[n] = Deref(m.heap, IF n \in DOMAIN m.nodes
                                       THEN Address(m.nodes[n].data, 0) ELSE NULL),
           s = [i \in 1 .. Len(Walk(m.nodes, store.head, "next")) |->
                   cells[Walk(m.nodes, store.head, "next")[i]]]
    PROVE  /\ Walk(m.nodes, store.head, "next") = c
           /\ s = Values(m, c)
           /\ s \in Seq(Elements)
           /\ Len(s) = Len(c) /\ Len(c) \in Nat
           /\ DOMAIN s = 1 .. Len(c)
<1>1. Walk(m.nodes, store.head, "next") = c
  BY WalkNext DEF Sound
<1>2. \A i \in 1 .. Len(c) : cells[c[i]] = Value(m, c[i])
  <2>1. TAKE i \in 1 .. Len(c)
  <2>2. c[i] \in DOMAIN m.nodes /\ c[i] \in Nodes
    BY OnChain DEF Sound
  <2>3. QED
    BY <2>2, NodeValue
<1>3. s = Values(m, c)
  BY <1>1, <1>2 DEF Values
<1>4. Len(c) \in Nat
  BY ChainType DEF Sound
<1>5. DOMAIN s = 1 .. Len(c)
  BY <1>3 DEF Values
<1>6. QED
  BY <1>1, <1>3, <1>4, <1>5, ValuesLemma

\* The elements a traversal would visit are those of the chain.
LEMMA ContentsValues ==
    ASSUME NEW c, Sound(mem, storage, c)
    PROVE  /\ Chain = c
           /\ Contents = Values(mem, c)
           /\ Contents \in Seq(Elements)
           /\ Len(Contents) = Len(c) /\ Len(c) \in Nat
           /\ DOMAIN Contents = 1 .. Len(c)
<1>1. \A n \in Nodes : NodeCells[n] = Deref(mem.heap, IF n \in DOMAIN mem.nodes
                                       THEN Address(mem.nodes[n].data, 0) ELSE NULL)
  BY DEF NodeCells, CellOf, ElementOf
<1>2. Contents = [i \in 1 .. Len(Walk(mem.nodes, storage.head, "next")) |->
                   NodeCells[Walk(mem.nodes, storage.head, "next")[i]]]
  BY DEF Contents, Chain
<1>3. QED
  BY <1>1, <1>2, ElementsLemma DEF Chain

LEMMA NextValues ==
    ASSUME NEW c, Sound(mem', storage', c)
    PROVE  /\ Chain' = c
           /\ Contents' = Values(mem', c)
           /\ Contents' \in Seq(Elements)
           /\ Len(Contents') = Len(c) /\ Len(c) \in Nat
           /\ DOMAIN Contents' = 1 .. Len(c)
<1>1. \A n \in Nodes : NodeCells'[n] = Deref(mem'.heap, IF n \in DOMAIN mem'.nodes
                                       THEN Address(mem'.nodes[n].data, 0) ELSE NULL)
  BY DEF NodeCells, CellOf, ElementOf
<1>2. Contents' = [i \in 1 .. Len(Walk(mem'.nodes, storage'.head, "next")) |->
                   NodeCells'[Walk(mem'.nodes, storage'.head, "next")[i]]]
  BY DEF Contents, Chain
<1>3. QED
  BY <1>1, <1>2, ElementsLemma DEF Chain

\* What the invariant says of the variables.
LEMMA InvLemma ==
    ASSUME Inv
    PROVE  /\ Sound(mem, storage, Chain)
           /\ Linked(mem.nodes, storage, Chain)
           /\ size = Len(Chain) /\ size \in Nat /\ size \in 0 .. SizeMax
           /\ Contents = Values(mem, Chain)
           /\ Contents \in Seq(Elements)
           /\ Len(Contents) = size /\ DOMAIN Contents = 1 .. size
<1>1. Sound(mem, storage, Chain)
  BY DEF Inv, Consistent
<1>2. size \in 0 .. SizeMax /\ size = Len(Chain)
  BY DEF Inv, Consistent, ADT_Super_t, size
<1>3. Linked(mem.nodes, storage, Chain)
  BY <1>1 DEF Sound
<1>4. QED
  BY <1>1, <1>2, <1>3, ContentsValues

\* Where the element at an index is.
LEMMA CellLemma ==
    ASSUME Inv, NEW index \in Nat
    PROVE  /\ ElementAt(index) = NULL <=> ~ (index < size)
           /\ index < size => /\ Chain[index + 1] \in DOMAIN mem.nodes
                              /\ ElementAt(index) = ElementOf(Chain[index + 1])
                              /\ ElementAt(index).block = mem.nodes[Chain[index + 1]].data
                              /\ ElementAt(index).slot = 0
                              /\ CellAt(index) = Contents[index + 1]
<1>0. Sound(mem, storage, Chain) /\ size = Len(Chain) /\ size \in Nat
      /\ Contents = Values(mem, Chain)
  BY InvLemma
<1>1. NodeAt(mem, storage, size, index) = At(Chain, index + 1)
  BY <1>0, NodeAtLemma DEF Sound
<1>2. CASE index < size
  <2>1. index + 1 \in 1 .. Len(Chain)
    BY <1>0, <1>2
  <2>2. At(Chain, index + 1) = Chain[index + 1] /\ Chain[index + 1] \in DOMAIN mem.nodes
    BY <1>0, <2>1, AtLemma DEF Sound
  <2>3. ElementAt(index) = Address(mem.nodes[Chain[index + 1]].data, 0)
    BY <1>1, <2>2 DEF ElementAt, linkedStorage_At
  <2>4. /\ ElementAt(index) # NULL
        /\ ElementAt(index).block = mem.nodes[Chain[index + 1]].data
        /\ ElementAt(index).slot = 0
        /\ Deref(mem.heap, ElementAt(index)) = Value(mem, Chain[index + 1])
    BY <1>0, <2>2, <2>3, AddressLemma
  <2>5. CellAt(index) = Contents[index + 1]
    BY <1>0, <2>1, <2>4 DEF CellAt, Values
  <2>6. QED
    BY <1>2, <2>2, <2>3, <2>4, <2>5 DEF ElementOf
<1>3. CASE ~ (index < size)
  <2>1. index + 1 \notin 1 .. Len(Chain)
    BY <1>0, <1>3
  <2>2. At(Chain, index + 1) \notin DOMAIN mem.nodes
    BY <1>0, <2>1, AtLemma DEF Sound
  <2>3. ElementAt(index) = NULL
    BY <1>1, <2>2 DEF ElementAt, linkedStorage_At
  <2>4. QED
    BY <1>3, <2>3
<1>4. QED
  BY <1>2, <1>3

LEMMA ElementOfLemma ==
    ASSUME Inv, NEW n \in DOMAIN mem.nodes
    PROVE  /\ ElementOf(n) # NULL
           /\ ElementOf(n).block = mem.nodes[n].data /\ ElementOf(n).slot = 0
           /\ ElementOf(n).block # Caller
           /\ CellOf(n) = Value(mem, n) /\ CellOf(n) \in Elements
<1>1. Sound(mem, storage, Chain)
  BY InvLemma
<1>2. ElementOf(n) = Address(mem.nodes[n].data, 0)
  BY DEF ElementOf
<1>3. QED
  BY <1>1, <1>2, AddressLemma, HeldLemma DEF CellOf

\* The two ends of a chain that is not empty.
LEMMA EndsLemma ==
    ASSUME Inv
    PROVE  /\ storage.head = NULL <=> size = 0
           /\ storage.tail = NULL <=> size = 0
           /\ size # 0 => /\ CellOf(storage.head) = Contents[1]
                          /\ CellOf(storage.tail) = Contents[size]
<1>0. /\ Sound(mem, storage, Chain) /\ Linked(mem.nodes, storage, Chain)
      /\ size = Len(Chain) /\ size \in Nat
      /\ Contents = Values(mem, Chain)
  BY InvLemma
<1>1. storage.head = At(Chain, 1) /\ storage.tail = At(Chain, size)
  BY <1>0 DEF Linked
<1>2. (1 \notin 1 .. size <=> size = 0) /\ (size \notin 1 .. size <=> size = 0)
  BY <1>0
<1>3. /\ storage.head = NULL <=> size = 0
      /\ storage.tail = NULL <=> size = 0
  BY <1>0, <1>1, <1>2, AtLemma
<1>4. ASSUME size # 0
      PROVE  CellOf(storage.head) = Contents[1] /\ CellOf(storage.tail) = Contents[size]
  <2>1. 1 \in 1 .. size /\ size \in 1 .. size
    BY <1>2, <1>4
  <2>2. /\ storage.head = Chain[1] /\ storage.tail = Chain[size]
        /\ Chain[1] \in DOMAIN mem.nodes /\ Chain[size] \in DOMAIN mem.nodes
    BY <1>0, <1>1, <2>1, OnChain DEF At
  <2>3. QED
    BY <1>0, <2>1, <2>2, ElementOfLemma DEF Values
<1>5. QED
  BY <1>3, <1>4

\* What the source of an insertion holds when the call is made.
LEMMA SourceLemma ==
    ASSUME Inv, NEW element \in Sources
    PROVE  /\ Meant(element) \in Offered(elementType) \cup {NULL}
           /\ element = NULL <=> Meant(element) = NULL
           /\ element # NULL => /\ Meant(element) = Deref(mem.heap, element)
                                /\ Deref(mem.heap, element) \in Elements
<1>0. caller \subseteq Elements /\ NULL \notin Elements
  BY ElementTypeAssumption DEF Inv
<1>1. CASE element = NULL
  BY <1>1 DEF Meant, MeantIn
<1>2. CASE element # NULL /\ \E e \in Offered(elementType) : element = Variable(e)
  <2>1. PICK e \in Offered(elementType) : element = Variable(e)
    BY <1>2
  <2>2. e \in Elements
    BY <1>0, <2>1 DEF Offered
  <2>3. Deref(mem.heap, element) = e
    BY <2>1, <2>2, VariableLemma
  <2>4. QED
    BY <1>0, <1>2, <2>1, <2>2, <2>3 DEF Meant, MeantIn
<1>3. CASE element # NULL /\ ~ elementType.destroy /\ element \in Slots
  <2>1. PICK n \in DOMAIN mem.nodes : element = ElementOf(n)
    BY <1>3 DEF Slots
  <2>2. Deref(mem.heap, element) \in Elements
    BY <2>1, ElementOfLemma DEF CellOf
  <2>3. QED
    BY <1>0, <1>3, <2>2 DEF Meant, MeantIn, Offered
<1>4. QED
  BY <1>1, <1>2, <1>3 DEF Sources, SourcesAmong

\* An output a call refuses, and one it may write to.
LEMMA OutputLemma ==
    ASSUME Inv, NEW outElement \in Outputs, elementSize # 0
    PROVE  \/ outElement = CallerVariable /\ Usable(outElement) = "usable"
           \/ /\ Usable(outElement) = "unusable"
              /\ \/ outElement = NULL
                 \/ linkedStorage_ContainsAddress(mem, storage, outElement, elementSize)
<1>1. CASE outElement = CallerVariable
  BY <1>1 DEF Usable
<1>2. CASE outElement # CallerVariable /\ outElement = NULL
  BY <1>2 DEF Usable
<1>3. CASE outElement # CallerVariable /\ outElement \in Slots
  <2>1. PICK n \in DOMAIN mem.nodes : outElement = ElementOf(n)
    BY <1>3 DEF Slots
  <2>2. outElement # NULL /\ outElement.block = mem.nodes[n].data
    BY <2>1, ElementOfLemma
  <2>3. n \in Visited(mem.nodes, storage.head, "next")
    BY InvLemma, VisitedLemma
  <2>4. linkedStorage_ContainsAddress(mem, storage, outElement, elementSize)
    BY <2>2, <2>3 DEF linkedStorage_ContainsAddress
  <2>5. QED
    BY <1>3, <2>4 DEF Usable
<1>4. QED
  BY <1>1, <1>2, <1>3 DEF Outputs, OutputsAmong

LEMMA CallerOutput ==
    ASSUME Inv
    PROVE  /\ CallerVariable # NULL
           /\ ~ linkedStorage_ContainsAddress(mem, storage, CallerVariable, elementSize)
<1>1. CallerVariable = Variable(NULL) /\ CallerVariable.block = Caller
  BY DEF CallerVariable, Variable, Address
<1>2. CallerVariable # NULL
  BY <1>1, VariableLemma
<1>3. \A n \in DOMAIN mem.nodes : mem.nodes[n].data # Caller
  BY ElementOfLemma
<1>4. QED
  BY <1>1, <1>2, <1>3 DEF linkedStorage_ContainsAddress

\* A node that stays keeps its element, and only Set changes it.
Steady ==
    \A n \in DOMAIN mem.nodes \cap DOMAIN mem'.nodes :
       LET block == mem.nodes[n].data
       IN  /\ mem'.nodes[n].data = block
           /\ block \in DOMAIN mem'.heap
           /\ mem'.heap[block] # mem.heap[block] => result'.op = "Set"

Safe == Inv' /\ Atomic /\ Steady

LEMMA SteadyLemma ==
    ASSUME Stays(mem, mem')
    PROVE  Steady
BY DEF Stays, Steady

\* What the invariant says of the header.
LEMMA HeaderLemma ==
    ASSUME Inv
    PROVE  /\ super \in ADT_Super_t(0 .. SizeMax)
           /\ SizeMax \in Nat
           /\ Live => elementSize > 0 /\ elementSize # 0
           /\ ~ Live => /\ super = ZeroSuper /\ size = 0 /\ elementSize = 0
                        /\ elementType = ZeroType
           /\ size # SizeMax => /\ Grown \in ADT_Super_t(0 .. SizeMax)
                                /\ Grown.size = size + 1
                                /\ Grown.vtable = super.vtable
                                /\ Grown.elementType = super.elementType
           /\ size > 0 => /\ Shrunk \in ADT_Super_t(0 .. SizeMax)
                          /\ Shrunk.size = size - 1
                          /\ Shrunk.vtable = super.vtable
                          /\ Shrunk.elementType = super.elementType
<1>1. SizeMax \in Nat
  BY MemoryAssumption
<1>2. super \in ADT_Super_t(0 .. SizeMax) /\ size \in 0 .. SizeMax
  BY DEF Inv, Consistent, ADT_Super_t, size
<1>3. elementSize \in Nat
  BY <1>2 DEF ADT_Super_t, ElementTypeInfo, elementSize, elementType
<1>4. Live => elementSize > 0 /\ elementSize # 0
  BY <1>3 DEF Live, Inv, Consistent, elementSize, elementType
<1>5. ~ Live => /\ super = ZeroSuper /\ size = 0 /\ elementSize = 0
                /\ elementType = ZeroType
  <2>1. ZeroSuper.size = 0 /\ ZeroSuper.elementType = ZeroType /\ ZeroType.elementSize = 0
    BY DEF ZeroSuper, ZeroType
  <2>2. ~ Live => super = ZeroSuper
    BY DEF Live, Inv, Consistent
  <2>3. QED
    BY <2>1, <2>2 DEF size, elementSize, elementType
<1>6. ASSUME size # SizeMax
      PROVE  /\ Grown \in ADT_Super_t(0 .. SizeMax)
             /\ Grown.size = size + 1
             /\ Grown.vtable = super.vtable
             /\ Grown.elementType = super.elementType
  <2>1. size + 1 \in 0 .. SizeMax
    BY <1>1, <1>2, <1>6
  <2>2. Grown = [super EXCEPT !.size = size + 1]
    BY DEF Grown, size
  <2>3. QED
    BY <1>2, <2>1, <2>2, ResizedLemma
<1>7. ASSUME size > 0
      PROVE  /\ Shrunk \in ADT_Super_t(0 .. SizeMax)
             /\ Shrunk.size = size - 1
             /\ Shrunk.vtable = super.vtable
             /\ Shrunk.elementType = super.elementType
  <2>1. size - 1 \in 0 .. SizeMax
    BY <1>1, <1>2, <1>7
  <2>2. Shrunk = [super EXCEPT !.size = size - 1]
    BY DEF Shrunk, size
  <2>3. QED
    BY <1>2, <2>1, <2>2, ResizedLemma
<1>8. QED
  BY <1>1, <1>2, <1>4, <1>5, <1>6, <1>7

\* The invariant of a state whose chain is known.
LEMMA NextInv ==
    ASSUME NEW c, Sound(mem', storage', c),
           super' \in ADT_Super_t(0 .. SizeMax), super'.size = Len(c),
           super'.vtable # NULL => super'.elementType.elementSize > 0,
           super'.vtable = NULL => super' = ZeroSuper,
           caller' \subseteq Elements, released' \in [Elements -> Nat],
           Accounts'
    PROVE  Inv'
<1>1. Chain' = c
  BY NextValues
<1>2. Consistent(super', mem', storage', Chain')
  BY <1>1 DEF Consistent
<1>3. QED
  BY <1>2 DEF Inv

-----------------------------------------------------------------------------
(* The invariant implies the properties.                                   *)

\* The invariant implies the properties.
LEMMA InvImplies == Inv => TypeOK /\ WellLinked /\ NothingLeaks /\ OwnedOnce
<1> SUFFICES ASSUME Inv
             PROVE  TypeOK /\ WellLinked /\ NothingLeaks /\ OwnedOnce
  OBVIOUS
<1>1. /\ Sound(mem, storage, Chain) /\ Linked(mem.nodes, storage, Chain) /\ Filled(mem)
      /\ size = Len(Chain) /\ size \in Nat
  BY InvLemma DEF Sound
<1>2. TypeOK
  <2>1. super \in ADT_Super_t(0 .. SizeMax)
    BY HeaderLemma
  <2>2. storage \in [head : Nodes \cup {NULL}, tail : Nodes \cup {NULL}]
    <3>1. At(Chain, 1) \in Nodes \cup {NULL} /\ At(Chain, Len(Chain)) \in Nodes \cup {NULL}
      BY <1>1, AtLemma
    <3>2. QED
      BY <1>1, <3>1 DEF Linked
  <2>3. DOMAIN mem.nodes \subseteq Nodes /\ \A n \in DOMAIN mem.nodes : mem.nodes[n] \in Node
    BY <1>1, ChainType
  <2>4. /\ DOMAIN mem.heap \subseteq Blocks
        /\ \A b \in DOMAIN mem.heap : mem.heap[b] \in [{0} -> Cells]
    <3>1. /\ DOMAIN mem.heap = BlocksOf(mem.nodes)
          /\ \A b \in DOMAIN mem.heap : mem.heap[b] \in [{0} -> Elements]
      BY <1>1 DEF Filled
    <3>2. DOMAIN mem.heap \subseteq Blocks
      BY <2>3, <3>1 DEF BlocksOf, Node
    <3>3. QED
      BY <3>1, <3>2 DEF Cells
  <2>5. QED
    BY <2>1, <2>2, <2>3, <2>4 DEF TypeOK, Inv, Node
<1>3. WellLinked
  <2> DEFINE back == Walk(mem.nodes, storage.tail, "previous")
  <2>1. back = [i \in 1 .. size |-> Chain[size + 1 - i]]
    BY <1>1, WalkPrevious
  <2>2. Len(back) = size
    <3>1. \A i \in 1 .. size : size + 1 - i \in 1 .. size
      BY <1>1
    <3>2. \A i \in 1 .. size : Chain[size + 1 - i] \in Nodes
      BY <1>1, <3>1, OnChain
    <3>3. back \in [1 .. size -> Nodes]
      BY <2>1, <3>2
    <3> HIDE DEF back
    <3>4. QED
      BY <1>1, <3>3, FunctionSeq
  <2>3. \A i \in 1 .. size : Chain[i] \in DOMAIN mem.nodes /\ back[i] = Chain[size + 1 - i]
    BY <1>1, <2>1, OnChain
  <2>4. QED
    BY <1>1, <2>2, <2>3 DEF WellLinked
<1>4. NothingLeaks
  <2>1. DOMAIN mem.nodes = Visited(mem.nodes, storage.head, "next")
    BY <1>1, VisitedLemma
  <2>2. DOMAIN mem.heap = {mem.nodes[n].data : n \in DOMAIN mem.nodes}
    BY <1>1 DEF Filled, BlocksOf
  <2>3. QED
    BY <1>1, <2>1, <2>2 DEF NothingLeaks, Filled
<1>5. OwnedOnce
  BY DEF OwnedOnce, OneOwner, Inv, Accounts, Accounted, Times
<1>6. QED
  BY <1>2, <1>3, <1>4, <1>5

-----------------------------------------------------------------------------
(* Initially, and when nothing happens.                                    *)

\* It holds of a container that is all zero.
LEMMA InitInv == Init => Inv /\ Contents = <<>>
<1> SUFFICES ASSUME Init
             PROVE  Inv /\ Contents = <<>>
  OBVIOUS
<1>1. /\ super = ZeroSuper /\ storage = EmptyLinks /\ mem = EmptyMemory
      /\ caller = Elements /\ released = [e \in Elements |-> 0]
  BY DEF Init, OwnershipInit
<1>2. ZeroSuper \in ADT_Super_t(0 .. SizeMax)
  BY MemoryAssumption DEF ZeroSuper, ZeroType, ADT_Super_t, ElementTypeInfo
<1>3. ZeroSuper.size = 0 /\ ZeroSuper.vtable = NULL
  BY DEF ZeroSuper
<1>4. Sound(mem, storage, <<>>) /\ Values(mem, <<>>) = <<>>
  BY <1>1, EmptyChain
<1>5. Chain = <<>> /\ Contents = <<>>
  BY <1>4, ContentsValues
<1>6. Consistent(super, mem, storage, Chain)
  BY <1>1, <1>2, <1>3, <1>4, <1>5 DEF Consistent
<1>7. elementType.destroy = FALSE
  BY <1>1 DEF elementType, ZeroSuper, ZeroType
<1>8. Accounts
  <2>1. SUFFICES ASSUME NEW e \in Elements
                 PROVE  (IF e \in caller THEN 1 ELSE 0)
                        + (IF elementType.destroy THEN Times(Contents, e) ELSE 0)
                        + released[e] = 1
    BY DEF Accounts, Accounted
  <2>2. e \in caller /\ released[e] = 0
    BY <1>1
  <2>3. QED
    BY <1>7, <2>2
<1>9. QED
  BY <1>1, <1>5, <1>6, <1>8 DEF Inv

LEMMA StaysSame ==
    ASSUME Inv
    PROVE  Stays(mem, mem)
<1>1. Sound(mem, storage, Chain)
  BY InvLemma
<1>2. QED
  BY <1>1, HeldLemma DEF Stays

\* Steps that change nothing, because the call failed or only reads.
LEMMA UnchangedInv ==
    ASSUME Inv, UNCHANGED <<container, caller, released>>
    PROVE  Safe /\ Idle(Contents, Contents')
<1>1. UNCHANGED <<super, storage, mem>>
  BY DEF container
<1>2. Contents' = Contents /\ Chain' = Chain
  BY <1>1 DEF Contents, Chain, NodeCells, CellOf, ElementOf
<1>3. Idle(Contents, Contents') /\ Atomic
  BY <1>1, <1>2 DEF Idle, elementType, Live, Atomic
<1>4. Accounts'
  BY <1>3, IdleAccounted DEF Inv, Accounts
<1>5. Stays(mem, mem')
  BY <1>1, StaysSame
<1>6. Steady
  BY <1>5, SteadyLemma
<1>7. QED
  BY <1>1, <1>2, <1>3, <1>4, <1>6 DEF Inv, Consistent, Safe

LEMMA FailInv ==
    ASSUME Inv, NEW op, NEW index, NEW arg, Fail(op, index, arg)
    PROVE  Safe /\ Declined(op, index, arg, Contents, Contents')
BY UnchangedInv DEF Fail, Declined

-----------------------------------------------------------------------------
(* The steps.                                                              *)

\* Nothing is allocated for a container that is not live.
LEMMA NotLive ==
    ASSUME Inv, ~ Live
    PROVE  /\ mem = EmptyMemory /\ storage = EmptyLinks
           /\ Contents = <<>> /\ elementType = ZeroType
<1>1. Sound(mem, storage, Chain) /\ size = Len(Chain)
      /\ Contents \in Seq(Elements) /\ Len(Contents) = size
  BY InvLemma
<1>2. size = 0 /\ elementType = ZeroType
  BY HeaderLemma
<1>3. Contents = <<>>
  BY <1>1, <1>2, EmptySeq
<1>4. QED
  BY <1>1, <1>2, <1>3, OnlyEmptyChain

\* Each outcome of the creation of a storage is a failure, or holds the elements
\* of an array that the caller may pass.
Furnishes(outcomes, elements, count, taken, type) ==
    \A r \in outcomes :
       /\ Creates(elements, count, type.elementSize, r)
       /\ r.ok => /\ elements \in Seq(Elements)
                  /\ Len(elements) = count
                  /\ OfferedArray(type, elements)
                  /\ taken = {elements[i] : i \in DOMAIN elements}

\* Init and InitFrom.
LEMMA CreateInv ==
    ASSUME Inv, NEW op, NEW vtable \in VTables, NEW count \in 0 .. SizeMax,
           NEW taken, NEW type \in ElementTypes, NEW outcomes, NEW elements,
           Furnishes(outcomes, elements, count, taken, type),
           Create(op, vtable, count, taken, type, outcomes)
    PROVE  /\ Safe
           /\ \/ ~ Live /\ Declined(op, count, NULL, Contents, Contents')
              \/ Created(op, type, Contents, Contents') /\ Len(Contents') = count
<1>0. count \in Nat /\ type \in ElementTypeInfo
  BY MemoryAssumption, ElementTypeAssumption
<1>1. ~ Live /\ mem = EmptyMemory /\ storage = EmptyLinks /\ elementType = ZeroType
  BY NotLive DEF Create
<1>2. PICK r \in outcomes :
         /\ mem' = r.mem
         /\ result' = Called(op, count, NULL, r.ok, NoOutput)
         /\ IF r.ok
            THEN /\ super' = [vtable |-> vtable, size |-> count, elementType |-> type]
                 /\ storage' = r.storage
                 /\ caller' = HandedOver(type, taken)
            ELSE UNCHANGED <<super, storage, caller>>
  BY DEF Create
<1>3. released' = released
  BY DEF Create
<1>4. CASE r.ok = FALSE /\ r.mem = EmptyMemory
  <2>1. UNCHANGED <<container, caller, released>>
    BY <1>1, <1>2, <1>3, <1>4 DEF container
  <2>2. result' = Called(op, count, NULL, FALSE, NoOutput)
    BY <1>2, <1>4
  <2>3. QED
    BY <1>1, <2>1, <2>2, UnchangedInv DEF Declined
<1>5. CASE /\ r.ok = TRUE
           /\ type.elementSize > 0
           /\ \E c : /\ Sound(r.mem, r.storage, c)
                     /\ Values(r.mem, c) = [j \in 1 .. count |-> elements[j]]
  <2>1. /\ super' = [vtable |-> vtable, size |-> count, elementType |-> type]
        /\ storage' = r.storage
        /\ caller' = HandedOver(type, taken)
        /\ mem' = r.mem
        /\ result' = Called(op, count, NULL, TRUE, NoOutput)
    BY <1>2, <1>5
  <2>2. /\ super' \in ADT_Super_t(0 .. SizeMax)
        /\ super'.size = count
        /\ super'.elementType = type
        /\ super'.vtable # NULL
    BY <1>0, <2>1, VTablesAssumption DEF ADT_Super_t
  <2>3. PICK c : /\ Sound(mem', storage', c)
                 /\ Values(mem', c) = [j \in 1 .. count |-> elements[j]]
    BY <1>5, <2>1
  <2>4. /\ elements \in Seq(Elements) /\ Len(elements) = count
        /\ OfferedArray(type, elements)
        /\ taken = {elements[i] : i \in DOMAIN elements}
    BY <1>5 DEF Furnishes
  <2>5. Contents' = elements
    <3>1. elements = [j \in 1 .. count |-> elements[j]]
      BY <2>4
    <3>2. QED
      BY <2>3, <3>1, NextValues
  <2>6. Len(c) = count
    BY <2>3, <2>4, <2>5, NextValues
  <2>7. caller' \subseteq Elements
    BY <2>1 DEF Inv, HandedOver
  <2>8. Created(op, type, Contents, Contents') /\ Len(Contents') = count
    <3>1. Live' = TRUE /\ elementType' = type
      BY <2>2 DEF Live, elementType
    <3>2. QED
      BY <1>1, <1>3, <1>5, <2>1, <2>4, <2>5, <3>1 DEF Created
  <2>9. Accounts'
    BY <2>8, CreatedAccounted DEF Inv, Accounts
  <2>10. Inv'
    <3>1. released' \in [Elements -> Nat]
      BY <1>3 DEF Inv
    <3>2. super'.vtable # NULL => super'.elementType.elementSize > 0
      BY <1>5, <2>2
    <3>3. super'.size = Len(c)
      BY <2>2, <2>6
    <3>4. QED
      BY <2>2, <2>3, <2>7, <2>9, <3>1, <3>2, <3>3, NextInv
  <2>11. Steady
    BY <1>1 DEF Steady, EmptyMemory
  <2>12. Atomic
    BY <2>1 DEF Atomic, Called
  <2>13. QED
    BY <2>8, <2>10, <2>11, <2>12 DEF Safe
<1>6. Creates(elements, count, type.elementSize, r)
  BY DEF Furnishes
<1>7. QED
  BY <1>4, <1>5, <1>6 DEF Creates

\* The insertions: Insert, Prepend, Append and Enqueue.
LEMMA StoreInv ==
    ASSUME Inv, NEW op, NEW index \in Nat, NEW element \in Sources, NEW outcomes,
           \A r \in outcomes : Stores(mem, storage, Chain, index, element, elementSize, r),
           StoreOutcome(op, index, element, outcomes)
    PROVE  /\ Safe
           /\ \/ Declined(op, index, Meant(element), Contents, Contents')
              \/ StoredAt(op, index, Meant(element), Contents, Contents')
<1>0. /\ Sound(mem, storage, Chain)
      /\ size = Len(Chain) /\ size \in Nat
      /\ Contents = Values(mem, Chain)
      /\ Contents \in Seq(Elements) /\ Len(Contents) = size
  BY InvLemma
<1>1. PICK r \in outcomes :
         /\ mem' = r.mem
         /\ storage' = r.storage
         /\ result' = Called(op, index, Meant(element), r.ok, NoOutput)
         /\ IF r.ok
            THEN super' = Grown /\ caller' = HandedOver(elementType, {Meant(element)})
            ELSE UNCHANGED <<super, caller>>
  BY DEF StoreOutcome
<1>2. released' = released
  BY DEF StoreOutcome
<1>3. CASE r = LinkOutcome(FALSE, mem, storage)
  <2>1. r.ok = FALSE /\ r.mem = mem /\ r.storage = storage
    BY <1>3 DEF LinkOutcome
  <2>2. UNCHANGED <<container, caller, released>>
    BY <1>1, <1>2, <2>1 DEF container
  <2>3. result' = Called(op, index, Meant(element), FALSE, NoOutput)
    BY <1>1, <2>1
  <2>4. QED
    BY <2>2, <2>3, UnchangedInv DEF Declined
<1>4. CASE /\ r = LinkOutcome(TRUE, r.mem, r.storage)
           /\ element # NULL /\ elementSize # 0
           /\ index <= Len(Chain)
           /\ Len(Chain) # SizeMax
           /\ Extends(mem, Chain, index + 1, Deref(mem.heap, element), r.mem, r.storage)
  <2> DEFINE e == Meant(element)
  <2>1. e \in Offered(elementType) /\ e = Deref(mem.heap, element) /\ e \in Elements
    BY <1>4, SourceLemma, ElementTypeAssumption
  <2> HIDE DEF e
  <2>2. r.ok = TRUE
    BY <1>4 DEF LinkOutcome
  <2>3. PICK d : /\ Sound(mem', storage', d)
                 /\ Values(mem', d) = Inserted(Contents, index + 1, e)
                 /\ Stays(mem, mem')
    BY <1>0, <1>1, <1>4, <2>1 DEF Extends
  <2>4. /\ super' = Grown
        /\ caller' = HandedOver(elementType, {e})
        /\ result' = Called(op, index, e, TRUE, NoOutput)
    BY <1>1, <2>2 DEF e
  <2>5. Contents' = Inserted(Contents, index + 1, e) /\ Len(d) = size + 1
    <3>1. index + 1 \in 1 .. Len(Contents) + 1
      BY <1>0, <1>4
    <3>2. Len(Inserted(Contents, index + 1, e)) = size + 1
      <4>1. Contents \in Seq(Elements) /\ e \in Elements /\ Len(Contents) + 1 = size + 1
        BY <1>0, <2>1
      <4>2. Len(Inserted(Contents, index + 1, e)) = Len(Contents) + 1
        BY <3>1, <4>1, InsertedType
      <4>3. QED
        BY <4>1, <4>2
    <3>3. Contents' = Values(mem', d) /\ Len(Contents') = Len(d)
      BY <2>3, NextValues
    <3>4. QED
      BY <2>3, <3>2, <3>3
  <2>6. /\ super' \in ADT_Super_t(0 .. SizeMax)
        /\ super'.size = size + 1
        /\ super'.vtable = super.vtable
        /\ super'.elementType = super.elementType
    BY <1>0, <1>4, <2>4, HeaderLemma
  <2>7. Live
    BY <1>4, HeaderLemma
  <2>8. StoredAt(op, index, e, Contents, Contents')
    <3>1. index \in 0 .. Len(Contents)
      BY <1>0, <1>4
    <3>2. UNCHANGED <<Live, elementType>>
      BY <2>6 DEF Live, elementType
    <3>3. QED
      BY <1>2, <2>1, <2>4, <2>5, <2>7, <3>1, <3>2 DEF StoredAt
  <2>9. Accounts'
    BY <1>0, <2>8, StoredAccounted DEF Inv, Accounts
  <2>10. Inv'
    <3>1. caller' \subseteq Elements /\ released' \in [Elements -> Nat]
      BY <1>2, <2>4 DEF Inv, HandedOver
    <3>2. /\ super'.vtable # NULL => super'.elementType.elementSize > 0
          /\ super'.vtable = NULL => super' = ZeroSuper
      BY <2>6, <2>7, HeaderLemma DEF Live, elementSize, elementType
    <3>3. super'.size = Len(d)
      BY <2>5, <2>6
    <3>4. QED
      BY <2>3, <2>6, <2>9, <3>1, <3>2, <3>3, NextInv
  <2>11. Steady
    BY <2>3, SteadyLemma
  <2>12. Atomic
    BY <2>4 DEF Atomic, Called
  <2>13. QED
    BY <2>8, <2>10, <2>11, <2>12 DEF Safe, e
<1>5. Stores(mem, storage, Chain, index, element, elementSize, r)
  OBVIOUS
<1>6. QED
  BY <1>3, <1>4, <1>5 DEF Stores

LEMMA AppendInv ==
    ASSUME Inv, NEW op, NEW element \in Sources, AppendToStorage(op, element)
    PROVE  /\ Safe
           /\ \/ Declined(op, size, Meant(element), Contents, Contents')
              \/ StoredAt(op, size, Meant(element), Contents, Contents')
<1> DEFINE outcomes == IF element = NULL \/ elementSize = 0 \/ size = SizeMax
                       THEN {LinkOutcome(FALSE, mem, storage)}
                       ELSE linkedStorage_Append(mem, storage, element, elementSize)
<1>0. Sound(mem, storage, Chain) /\ size = Len(Chain) /\ size \in Nat
  BY InvLemma
<1>1. \A r \in outcomes : Stores(mem, storage, Chain, size, element, elementSize, r)
  <2>1. TAKE r \in outcomes
  <2>2. r \in IF element = NULL \/ elementSize = 0 \/ Len(Chain) = SizeMax
              THEN {LinkOutcome(FALSE, mem, storage)}
              ELSE linkedStorage_Append(mem, storage, element, elementSize)
    BY <1>0
  <2>3. element # NULL => Deref(mem.heap, element) \in Elements
    BY SourceLemma
  <2>4. Stores(mem, storage, Chain, Len(Chain), element, elementSize, r)
    BY <1>0, <2>2, <2>3, AppendStores
  <2>5. QED
    BY <1>0, <2>4
<1>2. StoreOutcome(op, size, element, outcomes)
  BY DEF AppendToStorage
<1> HIDE DEF outcomes
<1>3. QED
  BY <1>0, <1>1, <1>2, StoreInv

LEMMA InsertInv ==
    ASSUME Inv, NEW op, NEW index \in Nat, NEW element \in Sources,
           StoreOutcome(op, index, element,
                        linkedStorage_Insert(mem, storage, size, index, element, elementSize))
    PROVE  /\ Safe
           /\ \/ Declined(op, index, Meant(element), Contents, Contents')
              \/ StoredAt(op, index, Meant(element), Contents, Contents')
<1> DEFINE outcomes == linkedStorage_Insert(mem, storage, size, index, element, elementSize)
<1>0. Sound(mem, storage, Chain) /\ size = Len(Chain) /\ size \in Nat
  BY InvLemma
<1>1. \A r \in outcomes : Stores(mem, storage, Chain, index, element, elementSize, r)
  BY <1>0, SourceLemma, InsertLemma
<1>2. StoreOutcome(op, index, element, outcomes)
  OBVIOUS
<1> HIDE DEF outcomes
<1>3. QED
  BY <1>1, <1>2, StoreInv

\* The element at an index is erased, and the size one less.
Erased(index, d) ==
    /\ Sound(mem', storage', d)
    /\ Stays(mem, mem')
    /\ Contents' = Removed(Contents, index + 1)
    /\ super' \in ADT_Super_t(0 .. SizeMax)
    /\ super'.size = Len(d)
    /\ super'.vtable = super.vtable
    /\ super'.elementType = super.elementType
    /\ Live

LEMMA ErasedLemma ==
    ASSUME Inv, NEW index \in 0 .. size - 1, NEW r,
           r = linkedStorage_Erase(mem, storage, size, index),
           mem' = r.mem, storage' = r.storage,
           super' = IF r.ok THEN Shrunk ELSE super
    PROVE  r.ok = TRUE /\ \E d : Erased(index, d)
<1>0. /\ Sound(mem, storage, Chain)
      /\ size = Len(Chain) /\ size \in Nat
      /\ Contents = Values(mem, Chain)
      /\ Contents \in Seq(Elements) /\ Len(Contents) = size
  BY InvLemma
<1>1. /\ r.ok = TRUE
      /\ Shrinks(mem, Chain, index + 1, r.mem, r.storage)
  <2>1. index \in 0 .. Len(Chain) - 1
    BY <1>0
  <2>2. r = linkedStorage_Erase(mem, storage, Len(Chain), index)
    BY <1>0
  <2>3. QED
    BY <1>0, <2>1, <2>2, EraseLemma
<1>2. PICK d : /\ Sound(mem', storage', d)
               /\ Values(mem', d) = Removed(Contents, index + 1)
               /\ Stays(mem, mem')
  BY <1>0, <1>1 DEF Shrinks
<1>3. Contents' = Removed(Contents, index + 1) /\ Len(d) = size - 1
  <2>1. index + 1 \in 1 .. Len(Contents)
    BY <1>0
  <2>2. Contents \in Seq(Elements) /\ Len(Contents) - 1 = size - 1
    BY <1>0
  <2>3. Len(Removed(Contents, index + 1)) = Len(Contents) - 1
    BY <2>1, <2>2, RemovedType
  <2>4. Contents' = Values(mem', d) /\ Len(Contents') = Len(d)
    BY <1>2, NextValues
  <2>5. QED
    BY <1>2, <2>2, <2>3, <2>4
<1>4. size > 0 /\ Live
  BY <1>0, HeaderLemma
<1>5. super' = Shrunk
  BY <1>1
<1>6. /\ super' \in ADT_Super_t(0 .. SizeMax)
      /\ super'.size = size - 1
      /\ super'.vtable = super.vtable
      /\ super'.elementType = super.elementType
  BY <1>4, <1>5, HeaderLemma
<1>7. Erased(index, d)
  BY <1>2, <1>3, <1>4, <1>6 DEF Erased
<1>8. QED
  BY <1>1, <1>7

\* The removals: Remove, Take, Discard and Dequeue.
LEMMA ErasedInv ==
    ASSUME Inv, NEW index, NEW d, Erased(index, d),
           caller' \subseteq Elements, released' \in [Elements -> Nat], Accounts',
           result'.ok = TRUE
    PROVE  Safe
<1>1. /\ super'.vtable # NULL => super'.elementType.elementSize > 0
      /\ super'.vtable = NULL => super' = ZeroSuper
  BY HeaderLemma DEF Live, elementSize, elementType, Erased
<1>2. Inv'
  BY <1>1, NextInv DEF Erased
<1>3. Steady
  BY SteadyLemma DEF Erased
<1>4. QED
  BY <1>2, <1>3 DEF Safe, Atomic

LEMMA RemoveInv ==
    ASSUME Inv, NEW op, NEW index \in 0 .. size - 1, NEW cell, cell = Contents[index + 1],
           RemoveAtIndex(op, index, cell)
    PROVE  Safe /\ DeletedFrom(op, index, Contents, Contents')
<1> DEFINE r == linkedStorage_Erase(mem, storage, size, index)
<1>1. /\ mem' = r.mem
      /\ storage' = r.storage
      /\ super' = IF r.ok THEN Shrunk ELSE super
      /\ result' = Called(op, index, NULL, r.ok, NoOutput)
      /\ released' = Destroyed(elementType, <<cell>>)
      /\ caller' = caller
  BY DEF RemoveAtIndex
<1>2. r = linkedStorage_Erase(mem, storage, size, index)
  OBVIOUS
<1> HIDE DEF r
<1>3. PICK d : r.ok = TRUE /\ Erased(index, d)
  BY <1>1, <1>2, ErasedLemma
<1>4. Contents \in Seq(Elements) /\ Len(Contents) = size
  BY InvLemma
<1>5. DeletedFrom(op, index, Contents, Contents')
  BY <1>1, <1>3, <1>4 DEF DeletedFrom, Erased, Live, elementType
<1>6. released' \in [Elements -> Nat]
  BY <1>1, OneDestroyed DEF Inv
<1>7. caller' \subseteq Elements
  BY <1>1 DEF Inv
<1>8. Accounts'
  BY <1>4, <1>5, DeletedAccounted DEF Inv, Accounts
<1>9. result'.ok = TRUE
  BY <1>1, <1>3 DEF Called
<1>10. QED
  BY <1>3, <1>5, <1>6, <1>7, <1>8, <1>9, ErasedInv

LEMMA TakeInv ==
    ASSUME Inv, NEW op, NEW index \in 0 .. size - 1, NEW cell, cell = Contents[index + 1],
           NEW outElement, TakeAtIndex(op, index, cell, outElement)
    PROVE  Safe /\ TakenFrom(op, index, Usable(outElement), Contents, Contents')
<1> DEFINE r == linkedStorage_Erase(mem, storage, size, index)
<1>1. /\ mem' = r.mem
      /\ storage' = r.storage
      /\ super' = IF r.ok THEN Shrunk ELSE super
      /\ result' = Called(op, index, Usable(outElement), r.ok,
                          IF r.ok THEN cell ELSE NoOutput)
      /\ caller' = HandedBack(elementType, cell)
      /\ released' = released
  BY DEF TakeAtIndex
<1>2. r = linkedStorage_Erase(mem, storage, size, index)
  OBVIOUS
<1> HIDE DEF r
<1>3. PICK d : r.ok = TRUE /\ Erased(index, d)
  BY <1>1, <1>2, ErasedLemma
<1>4. Contents \in Seq(Elements) /\ Len(Contents) = size /\ size \in Nat
  BY InvLemma
<1>5. TakenFrom(op, index, Usable(outElement), Contents, Contents')
  BY <1>1, <1>3, <1>4 DEF TakenFrom, Erased, Live, elementType
<1>6. caller' \subseteq Elements
  <2>1. cell \in Elements
    BY <1>4
  <2>2. QED
    BY <1>1, <2>1 DEF Inv, HandedBack
<1>7. released' \in [Elements -> Nat]
  BY <1>1 DEF Inv
<1>8. Accounts'
  BY <1>4, <1>5, TakenAccounted DEF Inv, Accounts
<1>9. result'.ok = TRUE
  BY <1>1, <1>3 DEF Called
<1>10. QED
  BY <1>3, <1>5, <1>6, <1>7, <1>8, <1>9, ErasedInv

\* Clear and Destroy: no node is left.
LEMMA EmptiedInv ==
    ASSUME Inv, NEW op, NEW newSuper, Emptied(op, newSuper),
           newSuper \in ADT_Super_t(0 .. SizeMax), newSuper.size = 0,
           \/ /\ op = "Clear"
              /\ newSuper.vtable = super.vtable
              /\ newSuper.elementType = super.elementType
           \/ op = "Destroy" /\ newSuper = ZeroSuper
    PROVE  Safe /\ Vacated(op, Contents, Contents')
<1>0. /\ Sound(mem, storage, Chain)
      /\ Contents \in Seq(Elements) /\ Len(Contents) = size /\ size \in Nat
      /\ DOMAIN Contents = 1 .. size
  BY InvLemma
<1>1. /\ released' = Destroyed(elementType, Contents)
      /\ mem' = EmptyMemory /\ storage' = EmptyLinks
      /\ super' = newSuper
      /\ result' = Called(op, 0, NULL, TRUE, NoOutput)
      /\ caller' = caller
  <2>1. linkedStorage_Destroy(mem, storage) = LinkOutcome(TRUE, EmptyMemory, EmptyLinks)
    BY <1>0, DestroyLemma
  <2>2. QED
    BY <2>1 DEF Emptied, Succeed, LinkOutcome
<1>2. Sound(mem', storage', <<>>) /\ Values(mem', <<>>) = <<>>
  BY <1>1, EmptyChain
<1>3. Contents' = <<>>
  BY <1>2, NextValues
<1>4. super' = newSuper /\ ZeroSuper.elementType = ZeroType /\ ZeroSuper.vtable = NULL
  BY <1>1 DEF ZeroSuper
<1>5. Vacated(op, Contents, Contents')
  BY <1>1, <1>3, <1>4 DEF Vacated, Live, elementType
<1>6. released' \in [Elements -> Nat]
  <2>1. IsFiniteSet(DOMAIN Contents)
    BY <1>0, FS_Interval
  <2>2. QED
    BY <1>1, <2>1, DestroyedLemma DEF Inv
<1>7. Accounts'
  BY <1>0, <1>5, VacatedAccounted DEF Inv, Accounts
<1>8. /\ super'.vtable # NULL => super'.elementType.elementSize > 0
      /\ super'.vtable = NULL => super' = ZeroSuper
  <2>1. CASE op = "Destroy" /\ newSuper = ZeroSuper
    BY <1>4, <2>1
  <2>2. CASE /\ newSuper.vtable = super.vtable
             /\ newSuper.elementType = super.elementType
    <3>1. super.vtable # NULL => super.elementType.elementSize > 0
      BY HeaderLemma DEF Live, elementSize, elementType
    <3>2. ASSUME super.vtable = NULL
          PROVE  newSuper = ZeroSuper
      <4>1. super = ZeroSuper
        BY <3>2, HeaderLemma DEF Live
      <4>2. newSuper = [vtable |-> newSuper.vtable, size |-> newSuper.size,
                        elementType |-> newSuper.elementType]
        BY DEF ADT_Super_t
      <4>3. QED
        BY <2>2, <4>1, <4>2 DEF ZeroSuper
    <3>3. QED
      BY <1>4, <2>2, <3>1, <3>2
  <2>3. QED
    BY <2>1, <2>2
<1>9. Inv'
  <2>1. Len(<<>>) = 0 /\ super'.size = Len(<<>>) /\ super' \in ADT_Super_t(0 .. SizeMax)
    BY <1>4
  <2>2. caller' \subseteq Elements
    BY <1>1 DEF Inv
  <2>3. QED
    BY <1>2, <1>6, <1>7, <1>8, <2>1, <2>2, NextInv
<1>10. Steady
  BY <1>1 DEF Steady, EmptyMemory
<1>11. Atomic
  BY <1>1 DEF Atomic, Called
<1>12. QED
  BY <1>5, <1>9, <1>10, <1>11 DEF Safe

LEMMA EmptyInv ==
    ASSUME Inv, Empty
    PROVE  Safe /\ Vacated("Clear", Contents, Contents')
<1> DEFINE new == [super EXCEPT !.size = 0]
<1>1. Emptied("Clear", new)
  BY DEF Empty
<1>2. super \in ADT_Super_t(0 .. SizeMax) /\ 0 \in 0 .. SizeMax
  BY HeaderLemma
<1>3. /\ new \in ADT_Super_t(0 .. SizeMax)
      /\ new.size = 0
      /\ new.vtable = super.vtable
      /\ new.elementType = super.elementType
  BY <1>2, ResizedLemma
<1> HIDE DEF new
<1>4. QED
  BY <1>1, <1>3, EmptiedInv

LEMMA TearDownInv ==
    ASSUME Inv, TearDown
    PROVE  Safe /\ Vacated("Destroy", Contents, Contents')
<1>1. Emptied("Destroy", ZeroSuper)
  BY DEF TearDown
<1>2. ZeroSuper \in ADT_Super_t(0 .. SizeMax) /\ ZeroSuper.size = 0
  BY MemoryAssumption DEF ZeroSuper, ZeroType, ADT_Super_t, ElementTypeInfo
<1>3. QED
  BY <1>1, <1>2, EmptiedInv

\* The caller's own step.
LEMMA AcquireInv ==
    ASSUME Inv, NEW e \in Elements, Acquire(e), UNCHANGED container
    PROVE  /\ Safe
           /\ UNCHANGED <<Live, elementType, Contents>>
<1>1. UNCHANGED <<super, storage, mem>>
  BY DEF container
<1>2. UNCHANGED <<Live, elementType, Contents, Chain>>
  BY <1>1 DEF Live, elementType, Contents, Chain, NodeCells, CellOf, ElementOf
<1>3. Accounts'
  BY <1>2, AcquireAccounted, InvLemma DEF Inv, Accounts
<1>4. Stays(mem, mem')
  BY <1>1, StaysSame
<1>5. Steady
  BY <1>4, SteadyLemma
<1>6. Inv'
  BY <1>1, <1>2, <1>3 DEF Inv, Acquire, Consistent
<1>7. Atomic
  BY DEF Acquire, Atomic, Called
<1>8. QED
  BY <1>2, <1>5, <1>6, <1>7 DEF Safe

-----------------------------------------------------------------------------
(* Creation, as both containers call it.                                   *)

\* Init and InitFrom, of an empty container and from an array.
LEMMA CreateEmptyInv ==
    ASSUME Inv, NEW vtable \in VTables, NEW type \in ElementTypes, CreateEmpty(vtable, type)
    PROVE  /\ Safe
           /\ \/ ~ Live /\ Declined("Init", 0, NULL, Contents, Contents')
              \/ Created("Init", type, Contents, Contents') /\ Len(Contents') = 0
<1> DEFINE outcomes == {IF type.elementSize = 0
                        THEN LinkOutcome(FALSE, mem, storage)
                        ELSE linkedStorage_Init(mem, storage)}
<1>1. Create("Init", vtable, 0, {}, type, outcomes)
  BY DEF CreateEmpty
<1>2. mem = EmptyMemory
  BY <1>1, NotLive DEF Create
<1>3. type.elementSize \in Nat
  BY ElementTypeAssumption DEF ElementTypeInfo
<1>4. /\ <<>> \in Seq(Elements) /\ Len(<<>>) = 0
      /\ OfferedArray(type, <<>>)
      /\ {} = {<<>>[i] : i \in DOMAIN <<>>}
      /\ [j \in 1 .. 0 |-> <<>>[j]] = <<>>
  BY DEF OfferedArray
<1>5. Furnishes(outcomes, <<>>, 0, {}, type)
  <2>1. SUFFICES ASSUME NEW r \in outcomes
                 PROVE  /\ Creates(<<>>, 0, type.elementSize, r)
                        /\ r.ok => /\ <<>> \in Seq(Elements)
                                   /\ Len(<<>>) = 0
                                   /\ OfferedArray(type, <<>>)
                                   /\ {} = {<<>>[i] : i \in DOMAIN <<>>}
    BY DEF Furnishes
  <2>2. CASE type.elementSize = 0
    <3>1. r = LinkOutcome(FALSE, EmptyMemory, storage)
      BY <1>2, <2>2
    <3>2. QED
      BY <3>1 DEF Creates, LinkOutcome
  <2>3. CASE type.elementSize # 0
    <3>1. r = LinkOutcome(TRUE, EmptyMemory, EmptyLinks) /\ type.elementSize > 0
      BY <1>2, <1>3, <2>3 DEF linkedStorage_Init
    <3>2. r.ok = TRUE /\ r.mem = EmptyMemory /\ r.storage = EmptyLinks
      BY <3>1 DEF LinkOutcome
    <3>3. \E c : /\ Sound(r.mem, r.storage, c)
                 /\ Values(r.mem, c) = [j \in 1 .. 0 |-> <<>>[j]]
      BY <1>4, <3>2, EmptyChain
    <3>4. Creates(<<>>, 0, type.elementSize, r)
      BY <3>1, <3>2, <3>3 DEF Creates
    <3>5. QED
      BY <1>4, <3>4
  <2>4. QED
    BY <2>2, <2>3
<1>6. 0 \in 0 .. SizeMax
  BY MemoryAssumption
<1> HIDE DEF outcomes
<1>7. QED
  BY <1>1, <1>5, <1>6, CreateInv

LEMMA CreateFromInv ==
    ASSUME Inv, NEW vtable \in VTables, NEW type \in ElementTypes,
           NEW count \in 0 .. SizeMax, NEW taken, NEW elements,
           \/ elements = NULL /\ count # 0
           \/ /\ elements \in Seq(Elements) /\ Len(elements) = count
              /\ OfferedArray(type, elements)
              /\ taken = {elements[i] : i \in DOMAIN elements},
           Create("InitFrom", vtable, count, taken, type,
                  linkedStorage_InitFrom(mem, storage, elements, count, type.elementSize))
    PROVE  /\ Safe
           /\ \/ ~ Live /\ Declined("InitFrom", count, NULL, Contents, Contents')
              \/ Created("InitFrom", type, Contents, Contents') /\ Len(Contents') = count
<1> DEFINE outcomes == linkedStorage_InitFrom(mem, storage, elements, count,
                                              type.elementSize)
<1>1. mem = EmptyMemory
  BY NotLive DEF Create
<1>2. type.elementSize \in Nat /\ count \in Nat
  BY ElementTypeAssumption, MemoryAssumption DEF ElementTypeInfo
<1>3. elements # NULL => \A j \in 1 .. count : elements[j] \in Elements
  OBVIOUS
<1>4. \A r \in outcomes :
         /\ Creates(elements, count, type.elementSize, r)
         /\ r.ok => elements # NULL \/ count = 0
  BY <1>1, <1>2, <1>3, InitFromLemma
<1>5. Create("InitFrom", vtable, count, taken, type, outcomes)
  OBVIOUS
<1> HIDE DEF outcomes
<1>6. Furnishes(outcomes, elements, count, taken, type)
  BY <1>4 DEF Furnishes
<1>7. QED
  BY <1>5, <1>6, CreateInv
=============================================================================
