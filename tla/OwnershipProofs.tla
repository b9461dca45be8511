--------------------------- MODULE OwnershipProofs ---------------------------
(***************************************************************************)
(* How the sequences that containers hold change, and why every resource   *)
(* keeps one owner while they do.  The containers of libadt differ in the  *)
(* storage they use, not in this.                                          *)
(***************************************************************************)
EXTENDS AbstractDataType, FiniteSetTheorems, SequenceTheorems, TLAPS

-----------------------------------------------------------------------------
(* Sequences with one element more, and with one less.                     *)

LEMMA FunctionSeq ==
    ASSUME NEW S, NEW n \in Nat, NEW f \in [1 .. n -> S]
    PROVE  f \in Seq(S) /\ Len(f) = n /\ DOMAIN f = 1 .. n
OBVIOUS

Inserted(s, position, e) ==
    [j \in 1 .. Len(s) + 1 |->
        IF j < position THEN s[j] ELSE IF j = position THEN e ELSE s[j - 1]]

Removed(s, position) ==
    [j \in 1 .. Len(s) - 1 |-> IF j < position THEN s[j] ELSE s[j + 1]]

LEMMA InsertedType ==
    ASSUME NEW S, NEW s \in Seq(S), NEW position \in 1 .. Len(s) + 1, NEW e \in S
    PROVE  /\ Inserted(s, position, e) \in Seq(S)
           /\ Len(Inserted(s, position, e)) = Len(s) + 1
BY DEF Inserted

LEMMA RemovedType ==
    ASSUME NEW S, NEW s \in Seq(S), NEW position \in 1 .. Len(s)
    PROVE  /\ Removed(s, position) \in Seq(S)
           /\ Len(Removed(s, position)) = Len(s) - 1
BY DEF Removed

\* The same, as the community modules write it.
LEMMA InsertAtLemma ==
    ASSUME NEW S, NEW s \in Seq(S), NEW position \in 1 .. Len(s) + 1, NEW e \in S
    PROVE  SubSeq(s, 1, position - 1) \o <<e>> \o SubSeq(s, position, Len(s))
           = Inserted(s, position, e)
<1> DEFINE front == SubSeq(s, 1, position - 1)
           back  == SubSeq(s, position, Len(s))
           left  == front \o <<e>>
<1>1. /\ front \in Seq(S)
      /\ Len(front) = position - 1
      /\ \A i \in 1 .. position - 1 : front[i] = s[i]
  BY SubSeqProperties
<1>2. /\ back \in Seq(S)
      /\ Len(back) = Len(s) - position + 1
      /\ \A i \in 1 .. Len(s) - position + 1 : back[i] = s[position + i - 1]
  BY SubSeqProperties
<1>3. <<e>> \in Seq(S) /\ Len(<<e>>) = 1 /\ <<e>>[1] = e
  OBVIOUS
<1> HIDE DEF front, back
<1>4. /\ left \in Seq(S)
      /\ Len(left) = position
      /\ \A i \in 1 .. position : left[i] = IF i < position THEN s[i] ELSE e
  BY <1>1, <1>3, ConcatProperties
<1> HIDE DEF left
<1> DEFINE whole == left \o back
<1>5. /\ whole \in Seq(S)
      /\ Len(whole) = Len(left) + Len(back)
      /\ \A i \in 1 .. Len(left) + Len(back) :
            whole[i] = IF i <= Len(left) THEN left[i] ELSE back[i - Len(left)]
  BY <1>2, <1>4, ConcatProperties
<1> HIDE DEF whole
<1>6. Len(whole) = Len(s) + 1
  BY <1>2, <1>4, <1>5
<1>7. \A i \in 1 .. Len(s) + 1 : whole[i] = Inserted(s, position, e)[i]
  BY <1>2, <1>4, <1>5 DEF Inserted
<1>8. whole = Inserted(s, position, e)
  BY <1>5, <1>6, <1>7, InsertedType, SeqEqual
<1>9. QED
  BY <1>8 DEF whole, left, front, back

LEMMA RemoveAtLemma ==
    ASSUME NEW S, NEW s \in Seq(S), NEW position \in 1 .. Len(s)
    PROVE  SubSeq(s, 1, position - 1) \o SubSeq(s, position + 1, Len(s))
           = Removed(s, position)
<1> DEFINE front == SubSeq(s, 1, position - 1)
           back  == SubSeq(s, position + 1, Len(s))
<1>1. /\ front \in Seq(S)
      /\ Len(front) = position - 1
      /\ \A i \in 1 .. position - 1 : front[i] = s[i]
  BY SubSeqProperties
<1>2. /\ back \in Seq(S)
      /\ Len(back) = Len(s) - position
      /\ \A i \in 1 .. Len(s) - position : back[i] = s[position + i]
  BY SubSeqProperties
<1> HIDE DEF front, back
<1> DEFINE whole == front \o back
<1>3. /\ whole \in Seq(S)
      /\ Len(whole) = Len(front) + Len(back)
      /\ \A i \in 1 .. Len(front) + Len(back) :
            whole[i] = IF i <= Len(front) THEN front[i] ELSE back[i - Len(front)]
  BY <1>1, <1>2, ConcatProperties
<1> HIDE DEF whole
<1>4. /\ Len(whole) = Len(s) - 1
      /\ \A i \in 1 .. Len(s) - 1 :
            whole[i] = IF i <= position - 1 THEN front[i] ELSE back[i - (position - 1)]
  <2>1. Len(front) = position - 1 /\ Len(front) + Len(back) = Len(s) - 1
    BY <1>1, <1>2
  <2>2. QED
    BY <1>3, <2>1
<1>5. \A i \in 1 .. Len(s) - 1 : whole[i] = Removed(s, position)[i]
  <2>1. TAKE i \in 1 .. Len(s) - 1
  <2>2. Removed(s, position)[i] = IF i < position THEN s[i] ELSE s[i + 1]
    BY DEF Removed
  <2>3. CASE i < position
    BY <1>1, <1>4, <2>2, <2>3
  <2>4. CASE ~ (i < position)
    <3>1. i - (position - 1) \in 1 .. Len(s) - position
      BY <2>4
    <3>2. whole[i] = back[i - (position - 1)]
      BY <1>4, <2>4
    <3>3. back[i - (position - 1)] = s[position + (i - (position - 1))]
      BY <1>2, <3>1
    <3>4. position + (i - (position - 1)) = i + 1
      OBVIOUS
    <3>5. QED
      BY <2>2, <2>4, <3>2, <3>3, <3>4
  <2>5. QED
    BY <2>3, <2>4
<1>6. whole = Removed(s, position)
  <2>1. /\ Removed(s, position) \in Seq(S)
        /\ Len(whole) = Len(Removed(s, position))
        /\ \A i \in 1 .. Len(whole) : whole[i] = Removed(s, position)[i]
    BY <1>4, <1>5, RemovedType
  <2>2. QED
    BY <1>3, <2>1, SeqEqual
<1>7. QED
  BY <1>6 DEF whole, front, back

-----------------------------------------------------------------------------
(* How often an element occurs.                                            *)

Times(s, e) == Cardinality({i \in DOMAIN s : s[i] = e})

LEMMA TimesType ==
    ASSUME NEW s, IsFiniteSet(DOMAIN s), NEW e
    PROVE  /\ IsFiniteSet({i \in DOMAIN s : s[i] = e})
           /\ Times(s, e) \in Nat
<1>1. IsFiniteSet({i \in DOMAIN s : s[i] = e})
  BY FS_Subset
<1>2. QED
  BY <1>1, FS_CardinalityType DEF Times

LEMMA SeqTimesType ==
    ASSUME NEW S, NEW s \in Seq(S), NEW e
    PROVE  /\ IsFiniteSet({i \in DOMAIN s : s[i] = e})
           /\ Times(s, e) \in Nat
<1>1. DOMAIN s = 1 .. Len(s) /\ Len(s) \in Nat
  OBVIOUS
<1>2. IsFiniteSet(1 .. Len(s))
  BY <1>1, FS_Interval
<1>3. QED
  BY <1>1, <1>2, TimesType

LEMMA TimesNone ==
    ASSUME NEW s, NEW e, \A i \in DOMAIN s : s[i] # e
    PROVE  Times(s, e) = 0
<1>1. {i \in DOMAIN s : s[i] = e} = {}
  OBVIOUS
<1>2. QED
  BY <1>1, FS_EmptySet DEF Times

LEMMA TimesInserted ==
    ASSUME NEW S, NEW s \in Seq(S), NEW position \in 1 .. Len(s) + 1, NEW e \in S, NEW x
    PROVE  Times(Inserted(s, position, e), x) = Times(s, x) + (IF e = x THEN 1 ELSE 0)
<1> DEFINE t      == Inserted(s, position, e)
           before == {i \in DOMAIN s : s[i] = x}
           after  == {j \in DOMAIN t : t[j] = x}
           moved  == {j \in DOMAIN t : j # position /\ t[j] = x}
           f      == [i \in before |-> IF i < position THEN i ELSE i + 1]
<1>1. /\ DOMAIN s = 1 .. Len(s) /\ Len(s) \in Nat
      /\ DOMAIN t = 1 .. Len(s) + 1
      /\ \A j \in 1 .. Len(s) + 1 :
            t[j] = IF j < position THEN s[j] ELSE IF j = position THEN e ELSE s[j - 1]
  BY DEF Inserted
<1> HIDE DEF t
<1>2. f \in [before -> moved]
  BY <1>1
<1>3. \A i, j \in before : f[i] = f[j] => i = j
  BY <1>1
<1>4. \A j \in moved : \E i \in before : f[i] = j
  <2>1. TAKE j \in moved
  <2>2. CASE j < position
    <3>1. j \in before /\ f[j] = j
      BY <1>1, <2>2
    <3>2. QED
      BY <3>1
  <2>3. CASE j > position
    <3>1. j - 1 \in before /\ f[j - 1] = j
      BY <1>1, <2>3
    <3>2. QED
      BY <3>1
  <2>4. QED
    BY <1>1, <2>2, <2>3
<1> HIDE DEF f
<1>5. ExistsBijection(before, moved)
  BY <1>2, <1>3, <1>4 DEF ExistsBijection, Bijection, Injection, Surjection, IsInjective
<1>6. IsFiniteSet(before)
  BY SeqTimesType
<1>7. IsFiniteSet(moved) /\ Cardinality(moved) = Cardinality(before)
  BY <1>5, <1>6, FS_Bijection
<1>8. after = IF e = x THEN moved \cup {position} ELSE moved
  BY <1>1
<1>9. position \notin moved
  OBVIOUS
<1>10. Cardinality(before) \in Nat
  BY <1>6, FS_CardinalityType
<1> HIDE DEF before, moved, after
<1>11. Cardinality(moved \cup {position}) = Cardinality(moved) + 1
  BY <1>7, <1>9, FS_AddElement
<1>12. Cardinality(after) = Cardinality(before) + (IF e = x THEN 1 ELSE 0)
  BY <1>7, <1>8, <1>10, <1>11
<1>13. QED
  BY <1>12 DEF Times, t, before, after

LEMMA TimesRemoved ==
    ASSUME NEW S, NEW s \in Seq(S), NEW position \in 1 .. Len(s), NEW x
    PROVE  Times(s, x) = Times(Removed(s, position), x) + (IF s[position] = x THEN 1 ELSE 0)
<1> DEFINE t == Removed(s, position)
<1>1. t \in Seq(S) /\ Len(t) = Len(s) - 1
  BY RemovedType
<1>2. position \in 1 .. Len(t) + 1 /\ s[position] \in S
  BY <1>1
<1>3. \A j \in 1 .. Len(s) - 1 : t[j] = IF j < position THEN s[j] ELSE s[j + 1]
  BY DEF Removed
<1> HIDE DEF t
<1> DEFINE u == Inserted(t, position, s[position])
<1>4. u \in Seq(S) /\ Len(u) = Len(s)
  BY <1>1, <1>2, InsertedType
<1>5. \A j \in 1 .. Len(s) : u[j] = s[j]
  BY <1>1, <1>3 DEF Inserted
<1> HIDE DEF u
<1>6. u = s
  BY <1>4, <1>5, SeqEqual
<1>7. QED
  BY <1>1, <1>2, <1>6, TimesInserted DEF t, u

LEMMA TimesReplaced ==
    ASSUME NEW S, NEW s \in Seq(S), NEW position \in 1 .. Len(s), NEW e \in S, NEW x
    PROVE  Times([s EXCEPT ![position] = e], x) + (IF s[position] = x THEN 1 ELSE 0)
           = Times(s, x) + (IF e = x THEN 1 ELSE 0)
<1> DEFINE t == [s EXCEPT ![position] = e]
<1>1. t \in Seq(S) /\ Len(t) = Len(s) /\ t[position] = e
  BY ExceptSeq
<1>2. Removed(t, position) = Removed(s, position)
  BY <1>1 DEF Removed
<1> HIDE DEF t
<1>3. /\ Times(t, x) = Times(Removed(s, position), x) + (IF e = x THEN 1 ELSE 0)
      /\ Times(s, x) = Times(Removed(s, position), x) + (IF s[position] = x THEN 1 ELSE 0)
  BY <1>1, <1>2, TimesRemoved
<1>4. Times(Removed(s, position), x) \in Nat
  BY RemovedType, SeqTimesType
<1>5. QED
  BY <1>3, <1>4 DEF t

LEMMA TimesDistinct ==
    ASSUME NEW S, NEW s \in Seq(S), \A i, j \in DOMAIN s : i # j => s[i] # s[j], NEW x
    PROVE  Times(s, x) = IF \E i \in DOMAIN s : s[i] = x THEN 1 ELSE 0
<1>1. CASE \E i \in DOMAIN s : s[i] = x
  <2>1. PICK i \in DOMAIN s : s[i] = x
    BY <1>1
  <2>2. {j \in DOMAIN s : s[j] = x} = {i}
    BY <2>1
  <2>3. QED
    BY <1>1, <2>2, FS_Singleton DEF Times
<1>2. QED
  BY <1>1, TimesNone

-----------------------------------------------------------------------------
(* Who owns what.                                                          *)

\* The inductive form of OneOwner: the resources of elements that a container
\* does not own are accounted for too, so that the next owner finds them so.
Accounted(type, own, freed, contents) ==
    \A e \in Elements :
        (IF e \in own THEN 1 ELSE 0)
        + (IF type.destroy THEN Times(contents, e) ELSE 0)
        + freed[e] = 1

\* The effects a call can have on a container that holds the sequence before.
Idle(before, after) ==
    after = before /\ UNCHANGED <<Live, elementType, caller, released>>

Declined(op, index, arg, before, after) ==
    /\ result' = Called(op, index, arg, FALSE, NoOutput)
    /\ Idle(before, after)

ReadFrom(op, index, arg, before, after) ==
    /\ index \in 0 .. Len(before) - 1
    /\ result' = Called(op, index, arg, TRUE, before[index + 1])
    /\ Idle(before, after)

Created(op, type, before, after) ==
    /\ ~ Live /\ elementType = ZeroType
    /\ type.elementSize > 0
    /\ after \in Seq(Elements)
    /\ OfferedArray(type, after)
    /\ result' = Called(op, Len(after), NULL, TRUE, NoOutput)
    /\ Live' = TRUE /\ elementType' = type
    /\ caller' = HandedOver(type, {after[i] : i \in DOMAIN after})
    /\ UNCHANGED released

StoredAt(op, index, e, before, after) ==
    /\ Live
    /\ e \in Offered(elementType)
    /\ index \in 0 .. Len(before)
    /\ result' = Called(op, index, e, TRUE, NoOutput)
    /\ after = Inserted(before, index + 1, e)
    /\ caller' = HandedOver(elementType, {e})
    /\ UNCHANGED <<Live, elementType, released>>

ReplacedAt(op, index, e, before, after) ==
    /\ e \in Offered(elementType)
    /\ index \in 0 .. Len(before) - 1
    /\ result' = Called(op, index, e, TRUE, NoOutput)
    /\ after = [before EXCEPT ![index + 1] = e]
    /\ released' = Destroyed(elementType, <<before[index + 1]>>)
    /\ caller' = HandedOver(elementType, {e})
    /\ UNCHANGED <<Live, elementType>>

TakenFrom(op, index, arg, before, after) ==
    /\ index \in 0 .. Len(before) - 1
    /\ result' = Called(op, index, arg, TRUE, before[index + 1])
    /\ after = Removed(before, index + 1)
    /\ caller' = HandedBack(elementType, before[index + 1])
    /\ UNCHANGED <<Live, elementType, released>>

DeletedFrom(op, index, before, after) ==
    /\ index \in 0 .. Len(before) - 1
    /\ result' = Called(op, index, NULL, TRUE, NoOutput)
    /\ after = Removed(before, index + 1)
    /\ released' = Destroyed(elementType, <<before[index + 1]>>)
    /\ UNCHANGED <<Live, elementType, caller>>

Vacated(op, before, after) ==
    /\ result' = Called(op, 0, NULL, TRUE, NoOutput)
    /\ after = <<>>
    /\ released' = Destroyed(elementType, before)
    /\ \/ op = "Clear" /\ UNCHANGED <<Live, elementType>>
       \/ op = "Destroy" /\ Live' = FALSE /\ elementType' = ZeroType
    /\ UNCHANGED caller

\* What was destroyed is released once more for every time it occurs.
LEMMA DestroyedTimes ==
    ASSUME NEW type, NEW s, released \in [Elements -> Nat], NEW e \in Elements
    PROVE  Destroyed(type, s)[e] = IF type.destroy THEN released[e] + Times(s, e)
                                   ELSE released[e]
<1> DEFINE occurs(x) == Cardinality({i \in DOMAIN s : s[i] = x})
<1>1. Destroyed(type, s) = IF type.destroy
                           THEN [x \in Elements |-> released[x] + occurs(x)]
                           ELSE released
  BY DEF Destroyed
<1>2. Times(s, e) = occurs(e)
  BY DEF Times
<1> HIDE DEF occurs
<1>3. QED
  BY <1>1, <1>2

LEMMA TimesSingle ==
    ASSUME NEW x, NEW e
    PROVE  Times(<<x>>, e) = IF x = e THEN 1 ELSE 0
<1>1. CASE x = e
  <2>1. {i \in DOMAIN <<x>> : <<x>>[i] = e} = {1}
    BY <1>1
  <2>2. QED
    BY <1>1, <2>1, FS_Singleton DEF Times
<1>2. CASE x # e
  <2>1. \A i \in DOMAIN <<x>> : <<x>>[i] # e
    BY <1>2
  <2>2. QED
    BY <1>2, <2>1, TimesNone
<1>3. QED
  BY <1>1, <1>2

\* Destroying a finite sequence of elements counts releases.
LEMMA DestroyedLemma ==
    ASSUME released \in [Elements -> Nat], NEW type,
           NEW s, IsFiniteSet(DOMAIN s)
    PROVE  Destroyed(type, s) \in [Elements -> Nat]
<1>1. \A e : Cardinality({i \in DOMAIN s : s[i] = e}) \in Nat
  <2>1. TAKE e
  <2>2. IsFiniteSet({i \in DOMAIN s : s[i] = e})
    BY FS_Subset
  <2>3. QED
    BY <2>2, FS_CardinalityType
<1> DEFINE times(e) == Cardinality({i \in DOMAIN s : s[i] = e})
<1>2. \A e : times(e) \in Nat
  BY <1>1
<1>3. Destroyed(type, s) = IF type.destroy
                           THEN [e \in Elements |-> released[e] + times(e)]
                           ELSE released
  BY DEF Destroyed
<1> HIDE DEF times
<1>4. QED
  BY <1>2, <1>3

LEMMA OneDestroyed ==
    ASSUME released \in [Elements -> Nat], NEW type, NEW e
    PROVE  Destroyed(type, <<e>>) \in [Elements -> Nat]
<1>1. DOMAIN <<e>> = {1}
  OBVIOUS
<1>2. IsFiniteSet(DOMAIN <<e>>)
  BY <1>1, FS_Singleton
<1>3. QED
  BY <1>2, DestroyedLemma

LEMMA AccountsType ==
    ASSUME NEW before \in Seq(Elements), NEW e \in Elements, released \in [Elements -> Nat]
    PROVE  Times(before, e) \in Nat /\ released[e] \in Nat
BY SeqTimesType

LEMMA IdleAccounted ==
    ASSUME NEW before, NEW after, Idle(before, after),
           Accounted(elementType, caller, released, before)
    PROVE  Accounted(elementType', caller', released', after)
BY DEF Idle, Accounted

LEMMA CreatedAccounted ==
    ASSUME NEW op, NEW type, NEW before, NEW after, Created(op, type, before, after),
           released \in [Elements -> Nat],
           Accounted(elementType, caller, released, before)
    PROVE  Accounted(elementType', caller', released', after)
<1>0. SUFFICES ASSUME NEW e \in Elements
               PROVE  (IF e \in caller' THEN 1 ELSE 0)
                      + (IF type.destroy THEN Times(after, e) ELSE 0)
                      + released[e] = 1
  BY DEF Accounted, Created
<1>1. (IF e \in caller THEN 1 ELSE 0) + released[e] = 1 /\ released[e] \in Nat
  BY DEF Accounted, Created, ZeroType
<1>2. CASE type.destroy
  <2>1. /\ \A i, j \in DOMAIN after : i # j => after[i] # after[j]
        /\ \A i \in DOMAIN after : after[i] \in caller
    BY <1>2 DEF Created, OfferedArray, Offered
  <2>2. Times(after, e) = IF \E i \in DOMAIN after : after[i] = e THEN 1 ELSE 0
    BY <2>1, TimesDistinct DEF Created
  <2>3. caller' = caller \ {after[i] : i \in DOMAIN after}
    BY <1>2 DEF Created, HandedOver
  <2>4. QED
    BY <1>1, <1>2, <2>1, <2>2, <2>3
<1>3. CASE ~ type.destroy
  BY <1>1, <1>3 DEF Created, HandedOver
<1>4. QED
  BY <1>2, <1>3

LEMMA StoredAccounted ==
    ASSUME NEW op, NEW index, NEW x, NEW before \in Seq(Elements), NEW after,
           StoredAt(op, index, x, before, after),
           caller \subseteq Elements, released \in [Elements -> Nat],
           Accounted(elementType, caller, released, before)
    PROVE  Accounted(elementType', caller', released', after)
<1>0. SUFFICES ASSUME NEW e \in Elements
               PROVE  (IF e \in caller' THEN 1 ELSE 0)
                      + (IF elementType.destroy THEN Times(after, e) ELSE 0)
                      + released[e] = 1
  BY DEF Accounted, StoredAt
<1>1. (IF e \in caller THEN 1 ELSE 0)
      + (IF elementType.destroy THEN Times(before, e) ELSE 0) + released[e] = 1
  BY DEF Accounted
<1>2. Times(before, e) \in Nat /\ released[e] \in Nat
  BY AccountsType
<1>3. CASE elementType.destroy
  <2>1. x \in caller /\ x \in Elements /\ caller' = caller \ {x}
    BY <1>3 DEF StoredAt, Offered, HandedOver
  <2>2. index + 1 \in 1 .. Len(before) + 1
    BY DEF StoredAt
  <2>3. Times(after, e) = Times(before, e) + (IF x = e THEN 1 ELSE 0)
    BY <2>1, <2>2, TimesInserted DEF StoredAt
  <2>4. QED
    BY <1>1, <1>2, <1>3, <2>1, <2>3
<1>4. CASE ~ elementType.destroy
  BY <1>1, <1>4 DEF StoredAt, HandedOver
<1>5. QED
  BY <1>3, <1>4

LEMMA ReplacedAccounted ==
    ASSUME NEW op, NEW index, NEW x, NEW before \in Seq(Elements), NEW after,
           ReplacedAt(op, index, x, before, after),
           caller \subseteq Elements, released \in [Elements -> Nat],
           Accounted(elementType, caller, released, before)
    PROVE  Accounted(elementType', caller', released', after)
<1> DEFINE old == before[index + 1]
<1>0. SUFFICES ASSUME NEW e \in Elements
               PROVE  (IF e \in caller' THEN 1 ELSE 0)
                      + (IF elementType.destroy THEN Times(after, e) ELSE 0)
                      + released'[e] = 1
  BY DEF Accounted, ReplacedAt
<1>1. (IF e \in caller THEN 1 ELSE 0)
      + (IF elementType.destroy THEN Times(before, e) ELSE 0) + released[e] = 1
  BY DEF Accounted
<1>2. Times(before, e) \in Nat /\ released[e] \in Nat
  BY AccountsType
<1>3. CASE elementType.destroy
  <2>1. x \in caller /\ x \in Elements /\ caller' = caller \ {x}
    BY <1>3 DEF ReplacedAt, Offered, HandedOver
  <2>2. index + 1 \in 1 .. Len(before)
    BY DEF ReplacedAt
  <2>3. after = [before EXCEPT ![index + 1] = x]
    BY DEF ReplacedAt
  <2>4. Times(after, e) + (IF old = e THEN 1 ELSE 0)
        = Times(before, e) + (IF x = e THEN 1 ELSE 0)
    <3> DEFINE position == index + 1
    <3>1. position \in 1 .. Len(before) /\ x \in Elements
      BY <2>1, <2>2
    <3>2. after = [before EXCEPT ![position] = x] /\ old = before[position]
      BY <2>3
    <3> HIDE DEF position, old
    <3>3. Times([before EXCEPT ![position] = x], e) + (IF before[position] = e THEN 1 ELSE 0)
          = Times(before, e) + (IF x = e THEN 1 ELSE 0)
      BY <3>1, TimesReplaced
    <3>4. QED
      BY <3>2, <3>3
  <2>5. released'[e] = released[e] + (IF old = e THEN 1 ELSE 0)
    BY <1>3, DestroyedTimes, TimesSingle DEF ReplacedAt
  <2>6. Times(after, e) \in Nat
    BY <2>1, <2>2, <2>3, ExceptSeq, SeqTimesType
  <2> HIDE DEF old
  <2>7. QED
    BY <1>1, <1>2, <1>3, <2>1, <2>4, <2>5, <2>6
<1>4. CASE ~ elementType.destroy
  BY <1>1, <1>4 DEF ReplacedAt, HandedOver, Destroyed
<1>5. QED
  BY <1>3, <1>4

LEMMA TakenAccounted ==
    ASSUME NEW op, NEW index, NEW arg, NEW before \in Seq(Elements), NEW after,
           TakenFrom(op, index, arg, before, after),
           released \in [Elements -> Nat],
           Accounted(elementType, caller, released, before)
    PROVE  Accounted(elementType', caller', released', after)
<1> DEFINE old == before[index + 1]
<1>0. SUFFICES ASSUME NEW e \in Elements
               PROVE  (IF e \in caller' THEN 1 ELSE 0)
                      + (IF elementType.destroy THEN Times(after, e) ELSE 0)
                      + released[e] = 1
  BY DEF Accounted, TakenFrom
<1>1. (IF e \in caller THEN 1 ELSE 0)
      + (IF elementType.destroy THEN Times(before, e) ELSE 0) + released[e] = 1
  BY DEF Accounted
<1>2. Times(before, e) \in Nat /\ released[e] \in Nat
  BY AccountsType
<1>3. CASE elementType.destroy
  <2>1. caller' = caller \cup {old}
    BY <1>3 DEF TakenFrom, HandedBack
  <2>2. index + 1 \in 1 .. Len(before) /\ after = Removed(before, index + 1)
    BY DEF TakenFrom
  <2>3. Times(before, e) = Times(after, e) + (IF old = e THEN 1 ELSE 0)
    BY <2>2, TimesRemoved
  <2>4. Times(after, e) \in Nat
    BY <2>2, RemovedType, SeqTimesType
  <2> HIDE DEF old
  <2>5. QED
    BY <1>1, <1>2, <1>3, <2>1, <2>3, <2>4
<1>4. CASE ~ elementType.destroy
  BY <1>1, <1>4 DEF TakenFrom, HandedBack
<1>5. QED
  BY <1>3, <1>4

LEMMA DeletedAccounted ==
    ASSUME NEW op, NEW index, NEW before \in Seq(Elements), NEW after,
           DeletedFrom(op, index, before, after),
           released \in [Elements -> Nat],
           Accounted(elementType, caller, released, before)
    PROVE  Accounted(elementType', caller', released', after)
<1> DEFINE old == before[index + 1]
<1>0. SUFFICES ASSUME NEW e \in Elements
               PROVE  (IF e \in caller THEN 1 ELSE 0)
                      + (IF elementType.destroy THEN Times(after, e) ELSE 0)
                      + released'[e] = 1
  BY DEF Accounted, DeletedFrom
<1>1. (IF e \in caller THEN 1 ELSE 0)
      + (IF elementType.destroy THEN Times(before, e) ELSE 0) + released[e] = 1
  BY DEF Accounted
<1>2. Times(before, e) \in Nat /\ released[e] \in Nat
  BY AccountsType
<1>3. CASE elementType.destroy
  <2>1. index + 1 \in 1 .. Len(before) /\ after = Removed(before, index + 1)
    BY DEF DeletedFrom
  <2>2. Times(before, e) = Times(after, e) + (IF old = e THEN 1 ELSE 0)
    BY <2>1, TimesRemoved
  <2>3. released'[e] = released[e] + (IF old = e THEN 1 ELSE 0)
    BY <1>3, DestroyedTimes, TimesSingle DEF DeletedFrom
  <2>4. Times(after, e) \in Nat
    BY <2>1, RemovedType, SeqTimesType
  <2> HIDE DEF old
  <2>5. QED
    BY <1>1, <1>2, <1>3, <2>2, <2>3, <2>4
<1>4. CASE ~ elementType.destroy
  BY <1>1, <1>4 DEF DeletedFrom, Destroyed
<1>5. QED
  BY <1>3, <1>4

LEMMA VacatedAccounted ==
    ASSUME NEW op, NEW before \in Seq(Elements), NEW after, Vacated(op, before, after),
           released \in [Elements -> Nat],
           Accounted(elementType, caller, released, before)
    PROVE  Accounted(elementType', caller', released', after)
<1>0. SUFFICES ASSUME NEW e \in Elements
               PROVE  (IF e \in caller THEN 1 ELSE 0)
                      + (IF elementType'.destroy THEN Times(after, e) ELSE 0)
                      + released'[e] = 1
  BY DEF Accounted, Vacated
<1>1. (IF e \in caller THEN 1 ELSE 0)
      + (IF elementType.destroy THEN Times(before, e) ELSE 0) + released[e] = 1
  BY DEF Accounted
<1>2. Times(before, e) \in Nat /\ released[e] \in Nat
  BY AccountsType
<1>3. Times(after, e) = 0
  BY TimesNone DEF Vacated
<1>4. released'[e] = IF elementType.destroy THEN released[e] + Times(before, e) ELSE released[e]
  BY DestroyedTimes DEF Vacated
<1>5. QED
  BY <1>1, <1>2, <1>3, <1>4

LEMMA AcquireAccounted ==
    ASSUME NEW e \in Elements, Acquire(e), UNCHANGED elementType,
           NEW before \in Seq(Elements), released \in [Elements -> Nat],
           Accounted(elementType, caller, released, before)
    PROVE  Accounted(elementType', caller', released', before)
<1>0. SUFFICES ASSUME NEW x \in Elements
               PROVE  (IF x \in caller' THEN 1 ELSE 0)
                      + (IF elementType.destroy THEN Times(before, x) ELSE 0)
                      + released'[x] = 1
  BY DEF Accounted
<1>1. (IF x \in caller THEN 1 ELSE 0)
      + (IF elementType.destroy THEN Times(before, x) ELSE 0) + released[x] = 1
  BY DEF Accounted
<1>2. Times(before, x) \in Nat /\ released[x] \in Nat
  BY AccountsType
<1>3. released[e] = 1 /\ released' = [released EXCEPT ![e] = 0] /\ caller' = caller \cup {e}
  BY DEF Acquire
<1>4. QED
  BY <1>1, <1>2, <1>3

-----------------------------------------------------------------------------
(* The header.                                                             *)

\* The header after a successful insertion or removal is well-typed.
LEMMA ResizedLemma ==
    ASSUME super \in ADT_Super_t(0 .. SizeMax), NEW n \in 0 .. SizeMax
    PROVE  LET header == [super EXCEPT !.size = n]
           IN  /\ header \in ADT_Super_t(0 .. SizeMax)
               /\ header.size = n
               /\ header.vtable = super.vtable
               /\ header.elementType = super.elementType
BY DEF ADT_Super_t
=============================================================================
