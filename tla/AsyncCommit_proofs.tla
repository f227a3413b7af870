-------------------------- MODULE AsyncCommit_proofs --------------------------
(***************************************************************************)
(* Proofs about AsyncCommit, for all sets of ids and values, every length  *)
(* of request and every qsort the comparator allows.                       *)
(*                                                                         *)
(* The argument for WritesInBounds: both loops step over the same objects  *)
(* in the same order.  ObjChanges(n) is the set of positions up to n where *)
(* the object differs from the one before.  The first loop counts it,      *)
(* although it removes items as it goes, because the item that takes the   *)
(* place of a removed one has the same object; the second loop's obj_idx   *)
(* counts it again, so it never passes what the first loop counted.        *)
(*                                                                         *)
(* The argument for LastSetWins: the item a round removes is never the     *)
(* last of its key, and a qsort that keeps equal items in order moves the  *)
(* last set of a property behind its others.                               *)
(*                                                                         *)
(* The argument for DedupeHalves: the comparison puts the sets of one      *)
(* property together, so each round meets them until none is left; it      *)
(* keeps one of them and takes two from those to come, or the last one.    *)
(*                                                                         *)
(* The argument for ArraysDecodeToList: Slot(k), the objects met up to     *)
(* item k, is the place the second loop writes item k's object to, and     *)
(* count_props_ptr counts the items of each slot.  The slots go up one at  *)
(* a time along the list, so the items up to slot o are the first ones,    *)
(* and adding up the counts, as the kernel does, finds where they end.     *)
(***************************************************************************)
EXTENDS AsyncCommit, FiniteSetTheorems, SequenceTheorems, WellFoundedInduction,
        TLAPS

PrevObj(s, n) == IF n = 1 THEN 0 ELSE s[n - 1].obj

ObjChanges(s, n) == {k \in 1 .. n : s[k].obj # PrevObj(s, k)}

(* What the first loop has counted before round i.                         *)
DedupeCounts ==
  pc = "dedupe" =>
    /\ i <= Len(items) + 1
    /\ countObjs = Cardinality(ObjChanges(items, i - 1))
    /\ lastObj = PrevObj(items, i)
    /\ objIdx = 0

(* What it has counted when it is over, and until the ioctl.               *)
Counted1 ==
  pc \in {"alloc", "flatten", "ioctl"} =>
    /\ countObjs = Cardinality(ObjChanges(items, Len(items)))
    /\ pc = "alloc" => objIdx = 0

(* What the second loop has filled before round i.                         *)
FlattenCounts ==
  pc = "flatten" =>
    /\ i <= Len(items) + 1
    /\ objIdx = Cardinality(ObjChanges(items, i - 1))
    /\ lastObj = PrevObj(items, i)
    /\ Len(objs) = countObjs /\ Len(countProps) = countObjs
    /\ Len(props) = Len(items) /\ Len(propVals) = Len(items)

IInv == TypeOK /\ DedupeCounts /\ Counted1 /\ FlattenCounts

-----------------------------------------------------------------------------
(* A list without one of its items is a list, one shorter.                 *)
LEMMA WithoutType ==
  ASSUME NEW S, NEW s \in Seq(S), NEW n \in 1 .. Len(s)
  PROVE  /\ Without(s, n) \in Seq(S)
         /\ Len(Without(s, n)) = Len(s) - 1
         /\ \A k \in 1 .. (Len(s) - 1) :
              Without(s, n)[k] = IF k < n THEN s[k] ELSE s[k + 1]
  BY DEF Without

(* An array of n zeros.                                                    *)
LEMMA ZerosType ==
  ASSUME NEW n \in Nat
  PROVE  /\ Zeros(n) \in Seq({0})
         /\ Len(Zeros(n)) = n
  BY DEF Zeros

(* The copy that qsort leaves is a list of the request's items.            *)
LEMMA SortedType ==
  ASSUME NEW s \in Seq(Item), NEW p \in SortOrders(s)
  PROVE  /\ [k \in DOMAIN s |-> s[p[k]]] \in Seq(Item)
         /\ Len([k \in DOMAIN s |-> s[p[k]]]) = Len(s)
<1>1. p \in [DOMAIN s -> DOMAIN s]
  BY DEF SortOrders, Bijection, Injection, Surjection
<1>2. DOMAIN s = 1 .. Len(s)
  OBVIOUS
<1>. QED
  BY <1>1, <1>2

(* Ids are positive numbers.                                               *)
LEMMA IdsPositive ==
  ASSUME NEW it \in Item
  PROVE  it.obj \in Nat \ {0} /\ it.prop \in Nat
<1>1. it.obj \in Objects /\ it.prop \in Properties
  BY DEF Item
<1>2. it.obj \in 1 .. (2 * Half - 1) /\ it.prop \in 1 .. (Half - 1)
  BY <1>1, IdAssumption
<1>. QED
  BY <1>2, IdAssumption

(* Writing into an array keeps its type and its length.                    *)
LEMMA WriteType ==
  ASSUME NEW S, NEW s \in Seq(S), NEW n \in Nat, NEW v, n \in DOMAIN s => v \in S
  PROVE  /\ [s EXCEPT ![n] = v] \in Seq(S)
         /\ Len([s EXCEPT ![n] = v]) = Len(s)
<1>1. CASE n \in DOMAIN s
  BY <1>1, ExceptSeq
<1>2. CASE n \notin DOMAIN s
  <2>1. [s EXCEPT ![n] = v] = s
    BY <1>2
  <2>. QED
    BY <2>1
<1>. QED
  BY <1>1, <1>2

-----------------------------------------------------------------------------
(* Every step keeps the types.                                             *)
LEMMA TypeStep == TypeOK /\ [Next]_vars => TypeOK'
<1>. SUFFICES ASSUME TypeOK, [Next]_vars PROVE TypeOK'
  OBVIOUS
<1>. USE DEF TypeOK, PCs
<1>1. CASE \E it \in Item : AddProperty(it)
  <2>1. PICK it \in Item : AddProperty(it)
    BY <1>1
  <2>. QED
    BY <2>1, IdAssumption DEF AddProperty, loop, arrays
<1>2. CASE ReturnEarly
  BY <1>2 DEF ReturnEarly, loop, arrays
<1>3. CASE Sort
  <2>1. PICK p \in SortOrders(req) : items' = [k \in DOMAIN req |-> req[p[k]]]
    BY <1>3 DEF Sort
  <2>2. items' \in Seq(Item)
    BY <2>1, SortedType
  <2>. QED
    BY <1>3, <2>2 DEF Sort
<1>4. CASE Dedupe
  <2>1. i \in 1 .. Len(items) /\ items[i] \in Item
    BY <1>4 DEF Dedupe
  <2>2. items' \in Seq(Item)
    BY <1>4, <2>1, WithoutType DEF Dedupe
  <2>3. countObjs' \in Nat /\ i' \in Nat \ {0}
    BY <1>4 DEF Dedupe, Counted, NextIndex
  <2>4. lastObj' \in Nat
    BY <1>4, <2>1, IdsPositive DEF Dedupe
  <2>. QED
    BY <1>4, <2>2, <2>3, <2>4 DEF Dedupe, arrays
<1>5. CASE DedupeEnd
  BY <1>5 DEF DedupeEnd, loop, arrays
<1>6. CASE AllocArrays
  <2>1. Zeros(countObjs) \in Seq(Nat) /\ Zeros(Len(items)) \in Seq(Nat)
        /\ Zeros(Len(items)) \in Seq(Values \cup {0})
    BY DEF Zeros
  <2>. QED
    BY <1>6, <2>1, SMTT(30) DEF AllocArrays, arrays, Restart
<1>7. CASE Flatten
  <2>1. i \in 1 .. Len(items) /\ items[i] \in Item
    BY <1>7 DEF Flatten
  <2>2. items[i].obj \in Nat /\ items[i].prop \in Nat /\ items[i].val \in Values
    BY <2>1, IdsPositive DEF Item
  <2>3. objIdx' \in Nat /\ i' \in Nat \ {0} /\ lastObj' \in Nat
    BY <1>7, <2>2 DEF Flatten, NextSlot, NextIndex
  <2>a. NextSlot \in Nat
    BY DEF NextSlot
  <2>b. NextSlot \in DOMAIN countProps => countProps[NextSlot] + 1 \in Nat
    OBVIOUS
  <2>4. objs' \in Seq(Nat) /\ countProps' \in Seq(Nat)
    BY <1>7, <2>2, <2>a, <2>b, WriteType DEF Flatten
  <2>5. props' \in Seq(Nat) /\ propVals' \in Seq(Values \cup {0})
    BY <1>7, <2>2, WriteType DEF Flatten
  <2>. QED
    BY <1>7, <2>3, <2>4, <2>5 DEF Flatten
<1>8. CASE FlattenEnd
  BY <1>8 DEF FlattenEnd, loop, arrays
<1>9. CASE Ioctl
  BY <1>9 DEF Ioctl, IoctlResults, loop, arrays
<1>10. CASE FreeRequest
  BY <1>10, IdAssumption DEF FreeRequest
<1>11. CASE UNCHANGED vars
  BY <1>11 DEF vars, loop, arrays
<1>. QED
  BY <1>1, <1>2, <1>3, <1>4, <1>5, <1>6, <1>7, <1>8, <1>9, <1>10, <1>11
     DEF Next, Commit

(* Type correctness: in every state the variables have their types, and an *)
(* error result is negative.                                               *)
THEOREM TypeCorrect == Spec => []TypeOK
<1>1. Init => TypeOK
  BY IdAssumption DEF Init, TypeOK, PCs
<1>. QED
  BY <1>1, TypeStep, PTL DEF Spec

-----------------------------------------------------------------------------
(* ObjChanges counts positions: it is finite, grows with n, and has one    *)
(* more element exactly where the object changes.                          *)
LEMMA ChangesFinite ==
  ASSUME NEW s, NEW n \in Nat
  PROVE  IsFiniteSet(ObjChanges(s, n)) /\ Cardinality(ObjChanges(s, n)) \in Nat
<1>1. ObjChanges(s, n) \subseteq 1 .. n
  BY DEF ObjChanges
<1>2. IsFiniteSet(1 .. n)
  BY FS_Interval
<1>. QED
  BY <1>1, <1>2, FS_Subset, FS_CardinalityType

LEMMA ChangesEmpty ==
  ASSUME NEW s
  PROVE  ObjChanges(s, 0) = {} /\ Cardinality(ObjChanges(s, 0)) = 0
<1>1. ObjChanges(s, 0) = {}
  BY DEF ObjChanges
<1>. QED
  BY <1>1, FS_EmptySet

LEMMA ChangesStep ==
  ASSUME NEW s, NEW n \in Nat \ {0}
  PROVE  Cardinality(ObjChanges(s, n)) =
           IF s[n].obj # PrevObj(s, n)
           THEN Cardinality(ObjChanges(s, n - 1)) + 1
           ELSE Cardinality(ObjChanges(s, n - 1))
<1>1. CASE s[n].obj # PrevObj(s, n)
  <2>1. ObjChanges(s, n) = ObjChanges(s, n - 1) \cup {n} /\ n \notin ObjChanges(s, n - 1)
    BY <1>1 DEF ObjChanges
  <2>2. IsFiniteSet(ObjChanges(s, n - 1))
    BY ChangesFinite
  <2>. QED
    BY <1>1, <2>1, <2>2, FS_AddElement
<1>2. CASE ~(s[n].obj # PrevObj(s, n))
  <2>1. ObjChanges(s, n) = ObjChanges(s, n - 1)
    BY <1>2 DEF ObjChanges
  <2>. QED
    BY <1>2, <2>1
<1>. QED
  BY <1>1, <1>2

LEMMA ChangesMonotonic ==
  ASSUME NEW s, NEW m \in Nat, NEW n \in Nat, m <= n
  PROVE  Cardinality(ObjChanges(s, m)) <= Cardinality(ObjChanges(s, n))
<1>1. ObjChanges(s, m) \subseteq ObjChanges(s, n)
  BY DEF ObjChanges
<1>. QED
  BY <1>1, ChangesFinite, FS_Subset

(* Every step keeps what the two loops have counted.                       *)
LEMMA CountStep == IInv /\ [Next]_vars => IInv'
<1>. SUFFICES ASSUME IInv, [Next]_vars PROVE IInv'
  OBVIOUS
<1>. USE DEF IInv
<1>0. TypeOK'
  BY TypeStep
<1>1. CASE \E it \in Item : AddProperty(it)
  BY <1>0, <1>1 DEF AddProperty, DedupeCounts, Counted1, FlattenCounts
<1>2. CASE ReturnEarly
  BY <1>0, <1>2 DEF ReturnEarly, DedupeCounts, Counted1, FlattenCounts
<1>3. CASE Sort
  <2>2. Cardinality(ObjChanges(items', 0)) = 0
    BY ChangesEmpty
  <2>3. pc' = "dedupe" /\ i' = 1 /\ countObjs' = 0 /\ lastObj' = 0 /\ objIdx' = 0
    BY <1>3 DEF Sort
  <2>4. PrevObj(items', 1) = 0
    BY DEF PrevObj
  <2>5. DedupeCounts'
    BY <1>0, <2>2, <2>3, <2>4 DEF DedupeCounts, TypeOK
  <2>. QED
    BY <1>0, <2>3, <2>5 DEF Counted1, FlattenCounts
<1>4. CASE Dedupe
  <2>1. /\ i \in Nat \ {0} /\ i \in 1 .. Len(items) /\ items \in Seq(Item)
        /\ pc = "dedupe" /\ pc' = "dedupe" /\ i' = i + 1
        /\ lastObj' = items[i].obj /\ objIdx' = 0
    BY <1>4 DEF Dedupe, TypeOK, NextIndex, DedupeCounts
  <2>2. /\ Len(items') \in Nat /\ i <= Len(items')
        /\ \A k \in 1 .. i : items'[k].obj = items[k].obj
    <3>1. CASE SameAsNext(i)
      <4>1. items' = Without(items, i)
        BY <1>4, <3>1 DEF Dedupe
      <4>2. i < Len(items) /\ items[i + 1].obj = items[i].obj
        BY <3>1 DEF SameAsNext, Key
      <4>3. Len(items') = Len(items) - 1
        BY <2>1, <4>1, WithoutType
      <4>4. \A k \in 1 .. (Len(items) - 1) :
              items'[k] = IF k < i THEN items[k] ELSE items[k + 1]
        BY <2>1, <4>1, WithoutType
      <4>5. Len(items) \in Nat
        BY <2>1
      <4>6. \A k \in 1 .. i : items'[k].obj = items[k].obj
        BY <2>1, <4>2, <4>4, <4>5
      <4>. QED
        BY <2>1, <4>2, <4>3, <4>5, <4>6
    <3>2. CASE ~SameAsNext(i)
      BY <1>4, <2>1, <3>2 DEF Dedupe
    <3>. QED
      BY <3>1, <3>2
  <2>3. ObjChanges(items', i) = ObjChanges(items, i)
    BY <2>1, <2>2 DEF ObjChanges, PrevObj
  <2>4. PrevObj(items', i + 1) = items[i].obj
    BY <2>1, <2>2 DEF PrevObj
  <2>5. countObjs' = Cardinality(ObjChanges(items, i))
    BY <1>4, <2>1, ChangesStep DEF Dedupe, Counted, NewObject, DedupeCounts
  <2>6. DedupeCounts'
    BY <2>1, <2>2, <2>3, <2>4, <2>5 DEF DedupeCounts
  <2>. QED
    BY <1>0, <2>1, <2>6 DEF Counted1, FlattenCounts
<1>5. CASE DedupeEnd
  <2>1. /\ pc = "dedupe" /\ pc' = "alloc" /\ i = Len(items) + 1
        /\ countObjs' = countObjs /\ items' = items /\ objIdx' = objIdx
    BY <1>5 DEF DedupeEnd, TypeOK, DedupeCounts, loop
  <2>2. i - 1 = Len(items)
    BY <2>1 DEF TypeOK
  <2>3. Counted1'
    BY <2>1, <2>2 DEF Counted1, DedupeCounts
  <2>. QED
    BY <1>0, <2>1, <2>3 DEF DedupeCounts, FlattenCounts
<1>6. CASE AllocArrays
  <2>1. CASE pc' = "flatten"
    <3>1. /\ objs' = Zeros(countObjs) /\ countProps' = Zeros(countObjs)
          /\ props' = Zeros(Len(items)) /\ propVals' = Zeros(Len(items))
          /\ i' = 1 /\ lastObj' = 0 /\ pc = "alloc"
          /\ items' = items /\ countObjs' = countObjs /\ objIdx' = objIdx
      BY <1>6, <2>1 DEF AllocArrays, Restart
    <3>2. countObjs \in Nat /\ Len(items) \in Nat
      BY DEF TypeOK
    <3>3. /\ Len(objs') = countObjs /\ Len(countProps') = countObjs
          /\ Len(props') = Len(items) /\ Len(propVals') = Len(items)
      BY <3>1, <3>2, ZerosType
    <3>4. Cardinality(ObjChanges(items', 0)) = 0 /\ PrevObj(items', 1) = 0
      BY ChangesEmpty DEF PrevObj
    <3>5. Counted1'
      BY <2>1, <3>1 DEF Counted1
    <3>6. FlattenCounts'
      BY <3>1, <3>2, <3>3, <3>4 DEF FlattenCounts, Counted1
    <3>. QED
      BY <1>0, <2>1, <3>5, <3>6 DEF DedupeCounts
  <2>2. CASE pc' = "done"
    BY <1>0, <2>2 DEF DedupeCounts, Counted1, FlattenCounts
  <2>. QED
    BY <1>6, <2>1, <2>2 DEF AllocArrays
<1>7. CASE Flatten
  <2>1. /\ i \in Nat \ {0} /\ i \in 1 .. Len(items) /\ items \in Seq(Item)
        /\ pc = "flatten" /\ pc' = "flatten" /\ i' = i + 1 /\ items' = items
        /\ lastObj' = items[i].obj /\ countObjs' = countObjs /\ objIdx' = NextSlot
    BY <1>7 DEF Flatten, TypeOK, NextIndex
  <2>2. NextSlot = Cardinality(ObjChanges(items, i))
    BY <2>1, ChangesStep DEF NextSlot, NewObject, FlattenCounts
  <2>3. /\ Len(objs') = countObjs /\ Len(countProps') = countObjs
        /\ Len(props') = Len(items) /\ Len(propVals') = Len(items)
    BY <1>7, <2>1 DEF Flatten, FlattenCounts, TypeOK
  <2>4. Counted1'
    BY <2>1 DEF Counted1
  <2>5. i' - 1 = i /\ PrevObj(items', i') = items[i].obj
    BY <2>1 DEF PrevObj
  <2>6. FlattenCounts'
    BY <2>1, <2>2, <2>3, <2>5 DEF FlattenCounts
  <2>. QED
    BY <1>0, <2>1, <2>4, <2>6 DEF DedupeCounts
<1>8. CASE FlattenEnd
  BY <1>0, <1>8 DEF FlattenEnd, loop, DedupeCounts, Counted1, FlattenCounts
<1>9. CASE Ioctl
  BY <1>0, <1>9 DEF Ioctl, DedupeCounts, Counted1, FlattenCounts
<1>10. CASE FreeRequest
  BY <1>0, <1>10 DEF FreeRequest, DedupeCounts, Counted1, FlattenCounts
<1>11. CASE UNCHANGED vars
  BY <1>0, <1>11 DEF vars, loop, arrays, DedupeCounts, Counted1, FlattenCounts
<1>. QED
  BY <1>1, <1>2, <1>3, <1>4, <1>5, <1>6, <1>7, <1>8, <1>9, <1>10, <1>11
     DEF Next, Commit

(* What the second loop is about to write to lies inside the arrays.       *)
LEMMA CountsGiveBounds == IInv => WritesInBounds
<1>. SUFFICES ASSUME IInv, pc = "flatten", i <= Len(items)
              PROVE  /\ NextSlot \in 1 .. countObjs
                     /\ i \in 1 .. Len(items)
  BY SMTT(30) DEF WritesInBounds, IInv, FlattenCounts, TypeOK
<1>1. /\ items \in Seq(Item) /\ i \in 1 .. Len(items) /\ i \in Nat \ {0}
      /\ Len(items) \in Nat
  BY DEF IInv, TypeOK
<1>2. NextSlot = Cardinality(ObjChanges(items, i))
  BY <1>1, ChangesStep DEF NextSlot, NewObject, IInv, FlattenCounts
<1>3. countObjs = Cardinality(ObjChanges(items, Len(items)))
  BY DEF IInv, Counted1
<1>4. NextSlot <= countObjs
  BY <1>1, <1>2, <1>3, ChangesMonotonic
<1>5. Cardinality(ObjChanges(items, 1)) = 1
  <2>1. items[1].obj # PrevObj(items, 1)
    BY <1>1, IdsPositive DEF PrevObj
  <2>. QED
    BY <2>1, ChangesStep, ChangesEmpty
<1>6. 1 <= NextSlot
  BY <1>1, <1>2, <1>5, ChangesMonotonic
<1>. QED
  BY <1>1, <1>2, <1>3, <1>4, <1>6, ChangesFinite

(* Memory safety of the second loop, for every request and every qsort:    *)
(* the arrays sized by the first loop hold all that the second one writes. *)
THEOREM BoundsSafe == Spec => []WritesInBounds
<1>1. Init => IInv
  BY IdAssumption
     DEF Init, IInv, TypeOK, PCs, DedupeCounts, Counted1, FlattenCounts
<1>. QED
  BY <1>1, CountStep, CountsGiveBounds, PTL DEF Spec

-----------------------------------------------------------------------------
(* Reordering a list by a bijection of its positions keeps its items.      *)
LEMMA SortKeeps ==
  ASSUME NEW s \in Seq(Item), NEW p \in SortOrders(s)
  PROVE  LET t == [k \in DOMAIN s |-> s[p[k]]]
         IN  KeysOf(t) = KeysOf(s) /\ Range(t) \subseteq Range(s)
<1>. DEFINE t == [k \in DOMAIN s |-> s[p[k]]]
<1>1. p \in [DOMAIN s -> DOMAIN s] /\ \A m \in DOMAIN s : \E k \in DOMAIN s : p[k] = m
  BY DEF SortOrders, Bijection, Injection, Surjection
<1>2. Range(t) \subseteq Range(s)
  BY <1>1 DEF Range
<1>3. KeysOf(t) \subseteq KeysOf(s)
  BY <1>1 DEF KeysOf
<1>4. ASSUME NEW m \in DOMAIN s PROVE Key(s[m]) \in KeysOf(t)
  <2>1. PICK k \in DOMAIN s : p[k] = m
    BY <1>1
  <2>. QED
    BY <2>1 DEF KeysOf
<1>. QED
  BY <1>2, <1>3, <1>4 DEF KeysOf

(* Removing an item whose successor has the same key keeps the keys.       *)
LEMMA WithoutKeeps ==
  ASSUME NEW s \in Seq(Item), NEW n \in 1 .. (Len(s) - 1),
         Key(s[n]) = Key(s[n + 1])
  PROVE  /\ KeysOf(Without(s, n)) = KeysOf(s)
         /\ Range(Without(s, n)) \subseteq Range(s)
<1>. DEFINE t == Without(s, n)
<1>0. n \in 1 .. Len(s) /\ Len(s) \in Nat /\ DOMAIN s = 1 .. Len(s)
  OBVIOUS
<1>1. /\ DOMAIN t = 1 .. (Len(s) - 1)
      /\ \A k \in DOMAIN t : t[k] = IF k < n THEN s[k] ELSE s[k + 1]
  BY <1>0 DEF Without
<1>. HIDE DEF t
<1>2. \A k \in DOMAIN t : \E m \in DOMAIN s : t[k] = s[m]
  <2>. TAKE k \in DOMAIN t
  <2>1. k \in DOMAIN s /\ k + 1 \in DOMAIN s
    BY <1>0, <1>1
  <2>. QED
    BY <1>1, <2>1
<1>3. \A m \in DOMAIN s : \E k \in DOMAIN t : Key(t[k]) = Key(s[m])
  <2>. TAKE m \in DOMAIN s
  <2>1. CASE m < n
    BY <1>0, <1>1, <2>1
  <2>2. CASE m > n
    <3>1. m - 1 \in DOMAIN t /\ t[m - 1] = s[m]
      BY <1>0, <1>1, <2>2
    <3>. QED
      BY <3>1
  <2>3. CASE m = n
    <3>1. n \in DOMAIN t /\ t[n] = s[n + 1]
      BY <1>0, <1>1
    <3>. QED
      BY <2>3, <3>1
  <2>. QED
    BY <1>0, <2>1, <2>2, <2>3
<1>4. KeysOf(t) = KeysOf(s)
  <2>1. \A k \in DOMAIN t : Key(t[k]) \in KeysOf(s)
    <3>. TAKE k \in DOMAIN t
    <3>1. PICK m \in DOMAIN s : t[k] = s[m]
      BY <1>2
    <3>. QED
      BY <3>1 DEF KeysOf
  <2>2. \A m \in DOMAIN s : Key(s[m]) \in KeysOf(t)
    <3>. TAKE m \in DOMAIN s
    <3>1. PICK k \in DOMAIN t : Key(t[k]) = Key(s[m])
      BY <1>3
    <3>. QED
      BY <3>1, Zenon DEF KeysOf
  <2>3. KeysOf(t) \subseteq KeysOf(s)
    BY <2>1, Zenon DEF KeysOf
  <2>4. KeysOf(s) \subseteq KeysOf(t)
    BY <2>2, Zenon DEF KeysOf
  <2>. QED
    BY <2>3, <2>4
<1>5. Range(t) \subseteq Range(s)
  BY <1>2 DEF Range
<1>. QED
  BY <1>4, <1>5 DEF t

(* Every step keeps the items those of the request.                        *)
LEMMA PreserveStep == TypeOK /\ RequestPreserved /\ [Next]_vars => RequestPreserved'
<1>. SUFFICES ASSUME TypeOK, RequestPreserved, [Next]_vars PROVE RequestPreserved'
  OBVIOUS
<1>. USE DEF RequestPreserved
<1>1. CASE \E it \in Item : AddProperty(it)
  BY <1>1 DEF AddProperty
<1>2. CASE ReturnEarly
  BY <1>2 DEF ReturnEarly
<1>3. CASE Sort
  <2>1. PICK p \in SortOrders(req) : items' = [k \in DOMAIN req |-> req[p[k]]]
    BY <1>3 DEF Sort
  <2>2. KeysOf(items') = KeysOf(req) /\ Range(items') \subseteq Range(req)
    BY <2>1, SortKeeps DEF TypeOK
  <2>. QED
    BY <1>3, <2>2 DEF Sort
<1>4. CASE Dedupe
  <2>1. CASE SameAsNext(i)
    <3>1. /\ items \in Seq(Item) /\ i \in 1 .. (Len(items) - 1)
          /\ Key(items[i]) = Key(items[i + 1])
      BY <2>1 DEF SameAsNext, TypeOK
    <3>2. KeysOf(items') = KeysOf(items) /\ Range(items') \subseteq Range(items)
      BY <1>4, <2>1, <3>1, WithoutKeeps DEF Dedupe
    <3>. QED
      BY <1>4, <3>2 DEF Dedupe
  <2>2. CASE ~SameAsNext(i)
    BY <1>4, <2>2 DEF Dedupe
  <2>. QED
    BY <2>1, <2>2
<1>5. CASE DedupeEnd
  BY <1>5 DEF DedupeEnd
<1>6. CASE AllocArrays
  BY <1>6 DEF AllocArrays
<1>7. CASE Flatten
  BY <1>7 DEF Flatten
<1>8. CASE FlattenEnd
  BY <1>8 DEF FlattenEnd
<1>9. CASE Ioctl
  BY <1>9 DEF Ioctl
<1>10. CASE FreeRequest
  BY <1>10 DEF FreeRequest
<1>11. CASE UNCHANGED vars
  BY <1>11 DEF vars
<1>. QED
  BY <1>1, <1>2, <1>3, <1>4, <1>5, <1>6, <1>7, <1>8, <1>9, <1>10, <1>11
     DEF Next, Commit

(* What is sent sets exactly the properties the caller set, to values the  *)
(* caller gave, for every request and every qsort.                         *)
THEOREM RequestKept == Spec => []RequestPreserved
<1>1. Init => RequestPreserved
  BY DEF Init, RequestPreserved
<1>. QED
  BY <1>1, TypeCorrect, PreserveStep, PTL DEF Spec

-----------------------------------------------------------------------------
(* The last position of a key.  It exists because a set of positions has a *)
(* largest element, and is the position LastWith chooses.                  *)
IsLast(s, key, k) ==
  /\ k \in DOMAIN s
  /\ Key(s[k]) = key
  /\ \A m \in DOMAIN s : Key(s[m]) = key => m <= k

(* From the copy on, the list ends every property as the request does.     *)
LastKept ==
  pc \in {"dedupe", "alloc", "flatten", "ioctl"} /\ Len(req) <= StableUpTo =>
    \A key \in KeysOf(req) : LastWith(items, key) = LastWith(req, key)

(* A non-empty set of positions has a largest one: of the sets of its      *)
(* members from k up, one is minimal.                                      *)
LEMMA LargestExists ==
  ASSUME NEW n \in Nat, NEW P \in SUBSET (1 .. n), P # {}
  PROVE  \E k \in P : \A m \in P : m <= k
<1>. DEFINE From(k) == {m \in P : k <= m}
            T == {From(k) : k \in P}
<1>1. IsFiniteSet(1 .. n)
  BY FS_Interval
<1>2. FiniteSubsetsOf(1 .. n) = SUBSET (1 .. n)
  BY <1>1, FS_FiniteSubsetsOfFinite
<1>3. T \subseteq SUBSET (1 .. n) /\ T # {}
  OBVIOUS
<1>4. IsWellFoundedOn(StrictSubsetOrdering(1 .. n), SUBSET (1 .. n))
  BY <1>2, FS_StrictSubsetOrderingWellFounded
<1>5. PICK x \in T : \A y \in T : ~(<<y, x>> \in StrictSubsetOrdering(1 .. n))
  <2>. HIDE DEF T
  <2>. QED
    BY <1>3, <1>4, WFMin
<1>6. PICK k \in P : x = From(k)
  OBVIOUS
<1>7. ASSUME NEW m \in P, ~(m <= k) PROVE FALSE
  <2>0. P \subseteq Int
    OBVIOUS
  <2>1. From(m) \subseteq From(k) /\ k \in From(k) /\ k \notin From(m)
    <3>1. k \in Int /\ m \in Int
      BY <2>0
    <3>2. k <= m /\ k <= k /\ ~(m <= k)
      BY <1>7, <3>1
    <3>3. \A j \in P : m <= j => k <= j
      BY <2>0, <3>1, <3>2
    <3>. QED
      BY <3>2, <3>3
  <2>2. <<From(m), From(k)>> \in StrictSubsetOrdering(1 .. n)
    BY <1>3, <2>1 DEF StrictSubsetOrdering
  <2>. QED
    BY <1>5, <1>6, <2>2
<1>. QED
  BY <1>7

LEMMA LastExists ==
  ASSUME NEW s \in Seq(Item), NEW key \in KeysOf(s)
  PROVE  \E k \in DOMAIN s : IsLast(s, key, k)
<1>. DEFINE P == {k \in DOMAIN s : Key(s[k]) = key}
<1>1. DOMAIN s = 1 .. Len(s) /\ Len(s) \in Nat
  OBVIOUS
<1>2. P \in SUBSET (1 .. Len(s)) /\ P # {}
  BY <1>1 DEF KeysOf
<1>3. PICK k \in P : \A m \in P : m <= k
  <2>. HIDE DEF P
  <2>. QED
    BY <1>1, <1>2, LargestExists
<1>. QED
  BY <1>3 DEF IsLast

LEMMA LastIsLastWith ==
  ASSUME NEW s \in Seq(Item), NEW key, NEW k \in DOMAIN s, IsLast(s, key, k)
  PROVE  LastWith(s, key) = s[k]
<1>1. \A m \in DOMAIN s : IsLast(s, key, m) => m = k
  BY DEF IsLast
<1>2. (CHOOSE m \in DOMAIN s :
         /\ Key(s[m]) = key
         /\ \A j \in DOMAIN s : Key(s[j]) = key => j <= m) = k
  BY <1>1 DEF IsLast
<1>. QED
  BY <1>2 DEF LastWith

(* Equal items compare as 0.                                               *)
LEMMA SameKeyCompares ==
  ASSUME NEW x \in Item, NEW y \in Item, Key(x) = Key(y)
  PROVE  Compare(x, y) = 0
<1>1. x.obj = y.obj /\ x.prop = y.prop /\ x.obj \in Nat /\ y.prop \in Nat
  BY IdsPositive DEF Key
<1>2. AsInt(0) = 0
  BY IdAssumption DEF AsInt
<1>. QED
  BY <1>1, <1>2 DEF Compare

(* A qsort that keeps equal items in order keeps the last of each.         *)
LEMMA SortKeepsLast ==
  ASSUME NEW s \in Seq(Item), NEW p \in SortOrders(s), Len(s) <= StableUpTo,
         NEW key \in KeysOf(s)
  PROVE  LastWith([k \in DOMAIN s |-> s[p[k]]], key) = LastWith(s, key)
<1>. DEFINE t == [k \in DOMAIN s |-> s[p[k]]]
<1>1. p \in [DOMAIN s -> DOMAIN s] /\ \A m \in DOMAIN s : \E k \in DOMAIN s : p[k] = m
  BY DEF SortOrders, Bijection, Injection, Surjection
<1>2. PICK m \in DOMAIN s : IsLast(s, key, m)
  BY LastExists
<1>3. PICK k \in DOMAIN s : p[k] = m
  BY <1>1
<1>4. \A j \in DOMAIN s : p[j] \in DOMAIN s /\ p[j] \in Nat /\ s[p[j]] \in Item
  <2>1. DOMAIN s = 1 .. Len(s) /\ \A n \in DOMAIN s : s[n] \in Item
    OBVIOUS
  <2>2. \A j \in DOMAIN s : p[j] \in DOMAIN s
    BY <1>1
  <2>. HIDE DEF t
  <2>. TAKE j \in DOMAIN s
  <2>3. p[j] \in DOMAIN s
    BY <2>2
  <2>4. s[p[j]] \in Item /\ p[j] \in 1 .. Len(s)
    BY <2>1, <2>3
  <2>. QED
    BY <2>3, <2>4
<1>5. ASSUME NEW j \in DOMAIN s, Key(t[j]) = key, ~(j <= k) PROVE FALSE
  <2>1. k < j /\ Key(s[p[k]]) = Key(s[p[j]])
    BY <1>2, <1>3, <1>5 DEF IsLast
  <2>2. Compare(s[p[k]], s[p[j]]) = 0
    BY <1>4, <2>1, SameKeyCompares
  <2>3. p[k] < p[j]
    BY <2>1, <2>2 DEF SortOrders
  <2>4. p[j] <= m
    BY <1>2, <1>4, <1>5 DEF IsLast
  <2>5. p[j] \in Nat /\ m \in Nat /\ p[k] = m
    BY <1>3, <1>4
  <2>. HIDE DEF t
  <2>. QED
    BY <2>3, <2>4, <2>5
<1>6. t \in Seq(Item) /\ DOMAIN t = DOMAIN s
  BY SortedType
<1>7. t[k] = s[m]
  BY <1>3
<1>8. IsLast(t, key, k)
  BY <1>2, <1>5, <1>6, <1>7 DEF IsLast
<1>. HIDE DEF t
<1>9. LastWith(t, key) = t[k]
  BY <1>6, <1>8, LastIsLastWith
<1>10. LastWith(s, key) = s[m]
  BY <1>2, LastIsLastWith
<1>. QED
  BY <1>7, <1>9, <1>10 DEF t

(* Removing an item whose successor has the same key keeps the last of     *)
(* each key.                                                               *)
LEMMA WithoutKeepsLast ==
  ASSUME NEW s \in Seq(Item), NEW n \in 1 .. (Len(s) - 1),
         Key(s[n]) = Key(s[n + 1]), NEW key \in KeysOf(s)
  PROVE  LastWith(Without(s, n), key) = LastWith(s, key)
<1>. DEFINE t == Without(s, n)
<1>0. n \in 1 .. Len(s) /\ n \in Nat /\ Len(s) \in Nat /\ DOMAIN s = 1 .. Len(s)
  OBVIOUS
<1>1. /\ t \in Seq(Item) /\ DOMAIN t = 1 .. (Len(s) - 1)
      /\ \A k \in DOMAIN t : t[k] = IF k < n THEN s[k] ELSE s[k + 1]
  BY <1>0, WithoutType DEF Without
<1>. HIDE DEF t
<1>2. PICK k \in DOMAIN s : IsLast(s, key, k)
  BY LastExists
<1>3. k \in Nat /\ k # n
  BY <1>0, <1>2 DEF IsLast
<1>4. PICK j \in DOMAIN t : j = (IF k < n THEN k ELSE k - 1)
  BY <1>0, <1>1, <1>3
<1>5. t[j] = s[k]
  BY <1>0, <1>1, <1>3, <1>4
<1>6. ASSUME NEW m \in DOMAIN t, Key(t[m]) = key PROVE m <= j
  <2>1. CASE m < n
    <3>1. m \in DOMAIN s /\ Key(s[m]) = key
      BY <1>0, <1>1, <1>6, <2>1
    <3>2. m <= k
      BY <1>2, <3>1 DEF IsLast
    <3>. QED
      BY <1>0, <1>1, <1>3, <1>4, <2>1, <3>2
  <2>2. CASE ~(m < n)
    <3>1. m + 1 \in DOMAIN s /\ Key(s[m + 1]) = key
      BY <1>0, <1>1, <1>6, <2>2
    <3>2. m + 1 <= k
      BY <1>2, <3>1 DEF IsLast
    <3>. QED
      BY <1>0, <1>1, <1>3, <1>4, <2>2, <3>2
  <2>. QED
    BY <2>1, <2>2
<1>7. IsLast(t, key, j)
  BY <1>2, <1>4, <1>5, <1>6 DEF IsLast
<1>8. LastWith(t, key) = t[j] /\ LastWith(s, key) = s[k]
  BY <1>1, <1>2, <1>7, LastIsLastWith
<1>. QED
  BY <1>5, <1>8 DEF t

(* Every step keeps the last value of every property.                      *)
LEMMA LastStep == TypeOK /\ RequestPreserved /\ LastKept /\ [Next]_vars => LastKept'
<1>. SUFFICES ASSUME TypeOK, RequestPreserved, LastKept, [Next]_vars PROVE LastKept'
  OBVIOUS
<1>. USE DEF LastKept
<1>1. CASE \E it \in Item : AddProperty(it)
  BY <1>1 DEF AddProperty
<1>2. CASE ReturnEarly
  BY <1>2 DEF ReturnEarly
<1>3. CASE Sort
  <2>1. PICK p \in SortOrders(req) : items' = [k \in DOMAIN req |-> req[p[k]]]
    BY <1>3 DEF Sort
  <2>2. Len(req) <= StableUpTo =>
          \A key \in KeysOf(req) : LastWith(items', key) = LastWith(req, key)
    BY <2>1, SortKeepsLast DEF TypeOK
  <2>. QED
    BY <1>3, <2>2 DEF Sort
<1>4. CASE Dedupe
  <2>1. CASE SameAsNext(i)
    <3>1. /\ items \in Seq(Item) /\ i \in 1 .. (Len(items) - 1)
          /\ Key(items[i]) = Key(items[i + 1])
      BY <2>1 DEF SameAsNext, TypeOK
    <3>2. \A key \in KeysOf(items) : LastWith(Without(items, i), key) = LastWith(items, key)
      BY <3>1, WithoutKeepsLast
    <3>3. KeysOf(items) = KeysOf(req)
      BY <1>4 DEF Dedupe, RequestPreserved
    <3>. QED
      BY <1>4, <2>1, <3>2, <3>3 DEF Dedupe
  <2>2. CASE ~SameAsNext(i)
    BY <1>4, <2>2 DEF Dedupe
  <2>. QED
    BY <2>1, <2>2
<1>5. CASE DedupeEnd
  BY <1>5 DEF DedupeEnd
<1>6. CASE AllocArrays
  BY <1>6 DEF AllocArrays
<1>7. CASE Flatten
  BY <1>7 DEF Flatten
<1>8. CASE FlattenEnd
  BY <1>8 DEF FlattenEnd
<1>9. CASE Ioctl
  BY <1>9 DEF Ioctl
<1>10. CASE FreeRequest
  BY <1>10 DEF FreeRequest
<1>11. CASE UNCHANGED vars
  BY <1>11 DEF vars
<1>. QED
  BY <1>1, <1>2, <1>3, <1>4, <1>5, <1>6, <1>7, <1>8, <1>9, <1>10, <1>11
     DEF Next, Commit

(* The kernel ends with the value the caller set last, for every request   *)
(* that qsort sorts without disturbing equal items.                        *)
THEOREM LastValueWins == Spec => []LastSetWins
<1>1. Init => LastKept
  BY DEF Init, LastKept
<1>2. LastKept => LastSetWins
  BY DEF LastKept, LastSetWins
<1>. QED
  BY <1>1, <1>2, TypeCorrect, RequestKept, LastStep, PTL DEF Spec

-----------------------------------------------------------------------------
(* How often a key occurs from position a to position b.                   *)
Positions(s, key, a, b) == {k \in a .. b : Key(s[k]) = key}

Times(s, key, a, b) == Cardinality(Positions(s, key, a, b))

(* The sets of one property stand together in the sorted copy.             *)
Together(s) ==
  \A a, b, c \in DOMAIN s :
    a <= b /\ b <= c /\ Key(s[a]) = Key(s[c]) => Key(s[b]) = Key(s[a])

KeysTogether == pc = "dedupe" => Together(items)

(* Of a property the rounds before i kept all that is left there, and of   *)
(* what is left from i on they will keep half, rounded up.                 *)
HalvedSoFar ==
  pc = "dedupe" =>
    \A key \in KeysOf(req) :
      Times(items, key, 1, i - 1) + (Times(items, key, i, Len(items)) + 1) \div 2
        = (CountOf(req, key) + 1) \div 2

HalvesInv == KeysTogether /\ HalvedSoFar /\ DedupeHalves

LEMMA PositionsFinite ==
  ASSUME NEW s, NEW key, NEW a \in Int, NEW b \in Int
  PROVE  IsFiniteSet(Positions(s, key, a, b)) /\ Times(s, key, a, b) \in Nat
<1>1. Positions(s, key, a, b) \subseteq a .. b
  BY DEF Positions
<1>2. IsFiniteSet(a .. b)
  BY FS_Interval
<1>. QED
  BY <1>1, <1>2, FS_Subset, FS_CardinalityType DEF Times

LEMMA TimesEmpty ==
  ASSUME NEW s, NEW key, NEW a \in Int, NEW b \in Int,
         \A k \in a .. b : Key(s[k]) # key
  PROVE  Times(s, key, a, b) = 0
<1>1. Positions(s, key, a, b) = {}
  BY DEF Positions
<1>. QED
  BY <1>1, FS_EmptySet DEF Times

(* One position more at the end, or at the beginning.                      *)
LEMMA TimesLast ==
  ASSUME NEW s, NEW key, NEW a \in Int, NEW b \in Int, a <= b
  PROVE  Times(s, key, a, b) =
           Times(s, key, a, b - 1) + (IF Key(s[b]) = key THEN 1 ELSE 0)
<1>. DEFINE P == Positions(s, key, a, b - 1)
<1>1. IsFiniteSet(P) /\ Times(s, key, a, b - 1) \in Nat /\ b \notin P
  BY PositionsFinite DEF Positions
<1>2. CASE Key(s[b]) = key
  <2>1. Positions(s, key, a, b) = P \cup {b}
    BY <1>2 DEF Positions
  <2>2. Cardinality(P \cup {b}) = Cardinality(P) + 1
    <3>. HIDE DEF P
    <3>. QED
      BY <1>1, FS_AddElement
  <2>. QED
    BY <1>2, <2>1, <2>2 DEF Times
<1>3. CASE Key(s[b]) # key
  <2>1. Positions(s, key, a, b) = P
    BY <1>3 DEF Positions
  <2>. QED
    BY <1>1, <1>3, <2>1 DEF Times
<1>. QED
  BY <1>2, <1>3

LEMMA TimesFirst ==
  ASSUME NEW s, NEW key, NEW a \in Int, NEW b \in Int, a <= b
  PROVE  Times(s, key, a, b) =
           (IF Key(s[a]) = key THEN 1 ELSE 0) + Times(s, key, a + 1, b)
<1>. DEFINE P == Positions(s, key, a + 1, b)
<1>1. IsFiniteSet(P) /\ Times(s, key, a + 1, b) \in Nat /\ a \notin P
  BY PositionsFinite DEF Positions
<1>2. CASE Key(s[a]) = key
  <2>1. Positions(s, key, a, b) = P \cup {a}
    BY <1>2 DEF Positions
  <2>2. Cardinality(P \cup {a}) = Cardinality(P) + 1
    <3>. HIDE DEF P
    <3>. QED
      BY <1>1, FS_AddElement
  <2>. QED
    BY <1>1, <1>2, <2>1, <2>2 DEF Times
<1>3. CASE Key(s[a]) # key
  <2>1. Positions(s, key, a, b) = P
    BY <1>3 DEF Positions
  <2>. QED
    BY <1>1, <1>3, <2>1 DEF Times
<1>. QED
  BY <1>2, <1>3

LEMMA TimesSame ==
  ASSUME NEW s, NEW t, NEW key, NEW a \in Int, NEW b \in Int,
         \A k \in a .. b : Key(t[k]) = Key(s[k])
  PROVE  Times(t, key, a, b) = Times(s, key, a, b)
BY DEF Times, Positions

(* A stretch of the list moved down by one.                                *)
LEMMA TimesShift ==
  ASSUME NEW s, NEW t, NEW key, NEW a \in Int, NEW b \in Int,
         \A k \in a .. b : t[k - 1] = s[k]
  PROVE  Times(t, key, a - 1, b - 1) = Times(s, key, a, b)
<1>. DEFINE P == Positions(s, key, a, b)
            Q == Positions(t, key, a - 1, b - 1)
            f == [k \in P |-> k - 1]
<1>1. P \subseteq Int /\ Q \subseteq Int
  BY DEF Positions
<1>2. \A k \in P : k - 1 \in Q
  BY DEF Positions
<1>3. \A m \in Q : m + 1 \in P
  <2>. TAKE m \in Q
  <2>1. m \in (a - 1) .. (b - 1) /\ m + 1 \in a .. b /\ (m + 1) - 1 = m /\ Key(t[m]) = key
    BY DEF Positions
  <2>2. t[(m + 1) - 1] = s[m + 1]
    BY <2>1
  <2>. QED
    BY <2>1, <2>2 DEF Positions
<1>. HIDE DEF P, Q
<1>4. f \in Bijection(P, Q)
  <2>1. f \in [P -> Q]
    BY <1>2
  <2>2. \A x, y \in P : f[x] = f[y] => x = y
    BY <1>1
  <2>3. \A m \in Q : \E k \in P : f[k] = m
    <3>. TAKE m \in Q
    <3>1. m + 1 \in P /\ f[m + 1] = m
      BY <1>1, <1>3
    <3>. QED
      BY <3>1
  <2>. HIDE DEF f
  <2>. QED
    BY <2>1, <2>2, <2>3 DEF Bijection, Injection, Surjection, IsInjective
<1>5. ExistsBijection(P, Q)
  BY <1>4 DEF ExistsBijection
<1>6. IsFiniteSet(P)
  BY PositionsFinite DEF P
<1>. QED
  BY <1>5, <1>6, FS_Bijection DEF Times, P, Q

LEMMA TimesAll ==
  ASSUME NEW s \in Seq(Item), NEW key
  PROVE  Times(s, key, 1, Len(s)) = CountOf(s, key) /\ CountOf(s, key) \in Nat
<1>1. DOMAIN s = 1 .. Len(s) /\ Len(s) \in Nat
  OBVIOUS
<1>2. Times(s, key, 1, Len(s)) = CountOf(s, key)
  BY <1>1 DEF Times, Positions, CountOf
<1>. QED
  BY <1>1, <1>2, PositionsFinite

(* The comparison orders items by object, and the properties of an object  *)
(* downwards: their ids are too small for the subtraction to wrap.         *)
LEMMA CompareOrders ==
  ASSUME NEW x \in Item, NEW y \in Item, Compare(x, y) <= 0
  PROVE  /\ x.obj <= y.obj
         /\ x.obj = y.obj => y.prop <= x.prop
<1>1. /\ x.obj \in Nat /\ y.obj \in Nat
  BY IdsPositive
<1>2. x.prop \in 1 .. (Half - 1) /\ y.prop \in 1 .. (Half - 1) /\ Half \in Nat
  BY IdAssumption DEF Item
<1>3. AsInt(y.prop - x.prop) = y.prop - x.prop
  BY <1>2 DEF AsInt
<1>. QED
  BY <1>1, <1>2, <1>3 DEF Compare

(* What qsort leaves has the sets of a property together, as many as the   *)
(* request has.                                                            *)
LEMMA SortBringsTogether ==
  ASSUME NEW s \in Seq(Item), NEW p \in SortOrders(s)
  PROVE  Together([k \in DOMAIN s |-> s[p[k]]])
<1>. DEFINE t == [k \in DOMAIN s |-> s[p[k]]]
<1>1. t \in Seq(Item) /\ DOMAIN t = DOMAIN s /\ DOMAIN s = 1 .. Len(s)
  BY SortedType
<1>2. \A j, k \in DOMAIN s : j < k => Compare(t[j], t[k]) <= 0
  BY DEF SortOrders
<1>. HIDE DEF t
<1>3. ASSUME NEW a \in DOMAIN t, NEW b \in DOMAIN t, NEW c \in DOMAIN t,
             a <= b, b <= c, Key(t[a]) = Key(t[c])
      PROVE  Key(t[b]) = Key(t[a])
  <2>1. a \in Int /\ b \in Int /\ c \in Int
    BY <1>1
  <2>2. t[a] \in Item /\ t[b] \in Item /\ t[c] \in Item
    BY <1>1
  <2>3. CASE a = b \/ b = c
    BY <1>3, <2>3
  <2>4. CASE a < b /\ b < c
    <3>1. Compare(t[a], t[b]) <= 0 /\ Compare(t[b], t[c]) <= 0
      BY <1>1, <1>2, <2>4
    <3>2. t[a].obj <= t[b].obj /\ (t[a].obj = t[b].obj => t[b].prop <= t[a].prop)
      BY <2>2, <3>1, CompareOrders
    <3>3. t[b].obj <= t[c].obj /\ (t[b].obj = t[c].obj => t[c].prop <= t[b].prop)
      BY <2>2, <3>1, CompareOrders
    <3>4. t[a].obj = t[c].obj /\ t[a].prop = t[c].prop
      BY <1>3 DEF Key
    <3>5. /\ t[a].obj \in Nat /\ t[b].obj \in Nat /\ t[c].obj \in Nat
          /\ t[a].prop \in Nat /\ t[b].prop \in Nat /\ t[c].prop \in Nat
      BY <2>2, IdsPositive
    <3>6. t[a].obj = t[b].obj /\ t[a].prop = t[b].prop
      BY <3>2, <3>3, <3>4, <3>5
    <3>. QED
      BY <3>6 DEF Key
  <2>. QED
    BY <1>3, <2>1, <2>3, <2>4
<1>4. Together(t)
  BY <1>3 DEF Together
<1>. QED
  BY <1>4 DEF t

LEMMA SortKeepsCounts ==
  ASSUME NEW s \in Seq(Item), NEW p \in SortOrders(s), NEW key
  PROVE  CountOf([k \in DOMAIN s |-> s[p[k]]], key) = CountOf(s, key)
<1>. DEFINE t == [k \in DOMAIN s |-> s[p[k]]]
            P == {k \in DOMAIN t : Key(t[k]) = key}
            Q == {k \in DOMAIN s : Key(s[k]) = key}
            f == [k \in P |-> p[k]]
<1>1. \A k \in DOMAIN s : p[k] \in DOMAIN s
  BY DEF SortOrders, Bijection, Injection, Surjection
<1>2. \A m \in DOMAIN s : \E k \in DOMAIN s : p[k] = m
  BY DEF SortOrders, Bijection, Injection, Surjection
<1>3. \A j, k \in DOMAIN s : p[j] = p[k] => j = k
  BY DEF SortOrders, Bijection, Injection, IsInjective
<1>4. \A k \in P : p[k] \in Q
  BY <1>1
<1>5. \A m \in Q : \E k \in P : p[k] = m
  BY <1>2
<1>6. P \subseteq DOMAIN s
  OBVIOUS
<1>7. IsFiniteSet(P)
  <2>1. DOMAIN s = 1 .. Len(s) /\ Len(s) \in Nat
    OBVIOUS
  <2>2. IsFiniteSet(DOMAIN s)
    BY <2>1, FS_Interval
  <2>. HIDE DEF P
  <2>. QED
    BY <1>6, <2>2, FS_Subset
<1>. HIDE DEF P, Q, t
<1>8. f \in Bijection(P, Q)
  <2>1. f \in [P -> Q]
    BY <1>4
  <2>2. \A x, y \in P : f[x] = f[y] => x = y
    BY <1>3, <1>6
  <2>3. \A m \in Q : \E k \in P : f[k] = m
    BY <1>5
  <2>. HIDE DEF f
  <2>. QED
    BY <2>1, <2>2, <2>3 DEF Bijection, Injection, Surjection, IsInjective
<1>9. ExistsBijection(P, Q)
  BY <1>8 DEF ExistsBijection
<1>10. Cardinality(P) = Cardinality(Q)
  BY <1>7, <1>9, FS_Bijection
<1>. QED
  BY <1>10 DEF CountOf, P, Q, t

LEMMA WithoutTogether ==
  ASSUME NEW s \in Seq(Item), NEW n \in 1 .. Len(s), Together(s)
  PROVE  Together(Without(s, n))
<1>. DEFINE t == Without(s, n)
            Old(k) == IF k < n THEN k ELSE k + 1
<1>1. /\ DOMAIN t = 1 .. (Len(s) - 1) /\ DOMAIN s = 1 .. Len(s) /\ Len(s) \in Nat
      /\ \A k \in DOMAIN t : t[k] = IF k < n THEN s[k] ELSE s[k + 1]
  BY WithoutType DEF Without
<1>. HIDE DEF t
<1>2. \A k \in DOMAIN t : Old(k) \in DOMAIN s /\ t[k] = s[Old(k)]
  BY <1>1
<1>3. \A j, k \in DOMAIN t : j <= k => Old(j) <= Old(k)
  BY <1>1
<1>. HIDE DEF Old
<1>4. Together(t)
  BY <1>2, <1>3 DEF Together
<1>. QED
  BY <1>4 DEF t

(* One round: of a property's sets from i on it keeps one, and removes one *)
(* more if there are more.                                                 *)
LEMMA RoundHalves ==
  ASSUME NEW s \in Seq(Item), NEW n \in 1 .. Len(s), NEW key, Together(s)
  PROVE  LET t == IF n < Len(s) /\ Key(s[n]) = Key(s[n + 1]) THEN Without(s, n) ELSE s
         IN  Times(t, key, 1, n) + (Times(t, key, n + 1, Len(t)) + 1) \div 2
               = Times(s, key, 1, n - 1) + (Times(s, key, n, Len(s)) + 1) \div 2
<1>0. n \in Nat \ {0} /\ n <= Len(s) /\ Len(s) \in Nat /\ DOMAIN s = 1 .. Len(s)
  OBVIOUS
<1>. DEFINE one == IF Key(s[n]) = key THEN 1 ELSE 0
            pre == Times(s, key, 1, n - 1)
<1>1. pre \in Nat /\ Times(s, key, 1, n) = pre + one
  BY <1>0, TimesLast, PositionsFinite
<1>2. /\ Times(s, key, n + 1, Len(s)) \in Nat
      /\ Times(s, key, n, Len(s)) = one + Times(s, key, n + 1, Len(s))
  BY <1>0, TimesFirst, PositionsFinite
<1>3. CASE n < Len(s) /\ Key(s[n]) = Key(s[n + 1])
  <2>. DEFINE t == Without(s, n)
              suf == Times(s, key, n + 2, Len(s))
  <2>1. /\ Len(t) = Len(s) - 1
        /\ \A k \in 1 .. (Len(s) - 1) : t[k] = IF k < n THEN s[k] ELSE s[k + 1]
    BY WithoutType
  <2>. HIDE DEF t
  <2>2. Times(t, key, 1, n) = Times(s, key, 1, n)
    <3>1. \A k \in 1 .. n : Key(t[k]) = Key(s[k])
      BY <1>0, <1>3, <2>1
    <3>. QED
      BY <1>0, <3>1, TimesSame
  <2>3. Times(t, key, n + 1, Len(t)) = suf
    <3>1. \A k \in (n + 2) .. Len(s) : t[k - 1] = s[k]
      BY <1>0, <1>3, <2>1
    <3>2. Times(t, key, (n + 2) - 1, Len(s) - 1) = suf
      BY <1>0, <3>1, TimesShift, SMTT(30)
    <3>3. (n + 2) - 1 = n + 1
      BY <1>0
    <3>. QED
      BY <2>1, <3>2, <3>3
  <2>4. suf \in Nat /\ Times(s, key, n + 1, Len(s)) = one + suf
    <3>1. n + 1 \in Int /\ n + 1 <= Len(s) /\ (n + 1) + 1 = n + 2
      BY <1>0, <1>3
    <3>2. Times(s, key, n + 1, Len(s))
            = (IF Key(s[n + 1]) = key THEN 1 ELSE 0) + Times(s, key, (n + 1) + 1, Len(s))
      BY <1>0, <3>1, TimesFirst
    <3>3. suf \in Nat
      BY <1>0, PositionsFinite
    <3>. QED
      BY <1>3, <3>1, <3>2, <3>3
  <2>. HIDE DEF pre, suf
  <2>5. pre + one + (suf + 1) \div 2 = pre + (one + one + suf + 1) \div 2
    BY <1>1, <2>4
  <2>6. Times(s, key, n, Len(s)) = one + one + suf
    BY <1>2, <2>4
  <2>7. Times(t, key, 1, n) + (Times(t, key, n + 1, Len(t)) + 1) \div 2
          = pre + (Times(s, key, n, Len(s)) + 1) \div 2
    BY <1>1, <2>2, <2>3, <2>5, <2>6
  <2>. QED
    BY <1>3, <2>7 DEF pre, t
<1>4. CASE ~(n < Len(s) /\ Key(s[n]) = Key(s[n + 1]))
  <2>1. Key(s[n]) = key => Times(s, key, n + 1, Len(s)) = 0
    <3>. SUFFICES ASSUME Key(s[n]) = key PROVE Times(s, key, n + 1, Len(s)) = 0
      OBVIOUS
    <3>1. ASSUME NEW k \in (n + 1) .. Len(s), Key(s[k]) = key PROVE FALSE
      <4>1. n \in DOMAIN s /\ n + 1 \in DOMAIN s /\ k \in DOMAIN s /\ n <= n + 1 /\ n + 1 <= k
        BY <1>0
      <4>2. Key(s[n + 1]) = Key(s[n])
        BY <3>1, <4>1 DEF Together
      <4>. QED
        BY <1>0, <1>4, <4>1, <4>2
    <3>. QED
      BY <1>0, <3>1, TimesEmpty
  <2>2. Times(s, key, n + 1, Len(s)) \in Nat
    BY <1>2
  <2>. HIDE DEF pre
  <2>3. Times(s, key, 1, n) + (Times(s, key, n + 1, Len(s)) + 1) \div 2
          = pre + (Times(s, key, n, Len(s)) + 1) \div 2
    <3>1. CASE one = 0
      BY <1>1, <1>2, <3>1
    <3>2. CASE one = 1
      <4>1. Times(s, key, n + 1, Len(s)) = 0
        BY <2>1, <3>2
      <4>2. Times(s, key, n, Len(s)) = 1 /\ Times(s, key, 1, n) = pre + 1
        BY <1>1, <1>2, <3>2, <4>1
      <4>3. (0 + 1) \div 2 = 0 /\ (1 + 1) \div 2 = 1
        OBVIOUS
      <4>. QED
        BY <1>1, <4>1, <4>2, <4>3
    <3>. QED
      BY <3>1, <3>2
  <2>. QED
    BY <1>4, <2>3 DEF pre
<1>. QED
  BY <1>3, <1>4

(* Every step keeps what the first loop has halved.                        *)
LEMMA HalvesStep ==
  IInv /\ RequestPreserved /\ HalvesInv /\ [Next]_vars => HalvesInv'
<1>. SUFFICES ASSUME TypeOK, DedupeCounts, RequestPreserved, HalvesInv, [Next]_vars
              PROVE  HalvesInv'
  BY DEF IInv
<1>. USE DEF HalvesInv, KeysTogether, HalvedSoFar, DedupeHalves
<1>1. CASE \E it \in Item : AddProperty(it)
  BY <1>1 DEF AddProperty
<1>2. CASE ReturnEarly
  BY <1>2 DEF ReturnEarly
<1>3. CASE Sort
  <2>1. PICK p \in SortOrders(req) : items' = [k \in DOMAIN req |-> req[p[k]]]
    BY <1>3 DEF Sort
  <2>2. pc' = "dedupe" /\ i' = 1 /\ req' = req /\ req \in Seq(Item)
    BY <1>3 DEF Sort, TypeOK
  <2>3. Together(items')
    BY <2>1, <2>2, SortBringsTogether
  <2>4. items' \in Seq(Item)
    BY <2>1, <2>2, SortedType
  <2>5. ASSUME NEW key \in KeysOf(req)
        PROVE  Times(items', key, 1, 0) + (Times(items', key, 1, Len(items')) + 1) \div 2
                 = (CountOf(req, key) + 1) \div 2
    <3>1. CountOf(items', key) = CountOf(req, key)
      BY <2>1, <2>2, SortKeepsCounts
    <3>2. Times(items', key, 1, Len(items')) = CountOf(items', key)
      BY <2>4, TimesAll
    <3>3. Times(items', key, 1, 0) = 0
      BY TimesEmpty
    <3>4. CountOf(req, key) \in Nat
      BY <2>2, TimesAll
    <3>. QED
      BY <3>1, <3>2, <3>3, <3>4
  <2>6. HalvedSoFar'
    BY <2>2, <2>5
  <2>. QED
    BY <2>2, <2>3, <2>6
<1>4. CASE Dedupe
  <2>1. /\ i \in 1 .. Len(items) /\ items \in Seq(Item) /\ i \in Nat \ {0}
        /\ pc = "dedupe" /\ pc' = "dedupe" /\ req' = req /\ i' = i + 1 /\ i' - 1 = i
    BY <1>4 DEF Dedupe, NextIndex, TypeOK
  <2>2. items' = IF i < Len(items) /\ Key(items[i]) = Key(items[i + 1])
                 THEN Without(items, i) ELSE items
    BY <1>4 DEF Dedupe, SameAsNext
  <2>3. Together(items')
    BY <2>1, <2>2, WithoutTogether
  <2>4. ASSUME NEW key \in KeysOf(req)
        PROVE  Times(items', key, 1, i) + (Times(items', key, i + 1, Len(items')) + 1) \div 2
                 = (CountOf(req, key) + 1) \div 2
    <3>1. Times(items', key, 1, i) + (Times(items', key, i + 1, Len(items')) + 1) \div 2
            = Times(items, key, 1, i - 1) + (Times(items, key, i, Len(items)) + 1) \div 2
      BY <2>1, <2>2, RoundHalves
    <3>. QED
      BY <2>1, <3>1
  <2>5. HalvedSoFar'
    BY <2>1, <2>4
  <2>. QED
    BY <2>1, <2>3, <2>5
<1>5. CASE DedupeEnd
  <2>0. /\ pc = "dedupe" /\ pc' = "alloc" /\ req' = req /\ items' = items
        /\ i > Len(items)
    BY <1>5 DEF DedupeEnd
  <2>1. /\ pc = "dedupe" /\ pc' = "alloc" /\ req' = req /\ items' = items
        /\ items \in Seq(Item) /\ i = Len(items) + 1 /\ i - 1 = Len(items)
    <3>1. i \in Nat \ {0} /\ items \in Seq(Item) /\ Len(items) \in Nat
      BY DEF TypeOK
    <3>2. i <= Len(items) + 1
      BY <2>0 DEF DedupeCounts
    <3>. QED
      BY <2>0, <3>1, <3>2
  <2>2. ASSUME NEW key \in KeysOf(req)
        PROVE  CountOf(items, key) = (CountOf(req, key) + 1) \div 2
    <3>1. Times(items, key, 1, Len(items)) = CountOf(items, key) /\ CountOf(items, key) \in Nat
      BY <2>1, TimesAll
    <3>2. Times(items, key, Len(items) + 1, Len(items)) = 0
      <4>1. Len(items) \in Nat
        BY <2>1
      <4>. QED
        BY <4>1, TimesEmpty
    <3>3. Times(items, key, 1, i - 1) + (Times(items, key, i, Len(items)) + 1) \div 2
            = (CountOf(req, key) + 1) \div 2
      BY <2>1
    <3>4. (0 + 1) \div 2 = 0
      OBVIOUS
    <3>. QED
      BY <2>1, <3>1, <3>2, <3>3, <3>4
  <2>. QED
    BY <2>1, <2>2
<1>6. CASE AllocArrays
  BY <1>6 DEF AllocArrays
<1>7. CASE Flatten
  BY <1>7 DEF Flatten
<1>8. CASE FlattenEnd
  BY <1>8 DEF FlattenEnd
<1>9. CASE Ioctl
  BY <1>9 DEF Ioctl
<1>10. CASE FreeRequest
  BY <1>10 DEF FreeRequest
<1>11. CASE UNCHANGED vars
  BY <1>11 DEF vars, loop
<1>. QED
  BY <1>1, <1>2, <1>3, <1>4, <1>5, <1>6, <1>7, <1>8, <1>9, <1>10, <1>11
     DEF Next, Commit

(* A property set n times is sent half as often, rounded up, whatever the  *)
(* order qsort leaves equal items in: the loop that "eliminates duplicate  *)
(* property sets" leaves some for every property set three times or more.  *)
THEOREM DuplicatesHalved == Spec => []DedupeHalves
<1>1. Init => IInv /\ RequestPreserved /\ HalvesInv
  BY IdAssumption
     DEF Init, IInv, TypeOK, PCs, DedupeCounts, Counted1, FlattenCounts,
         RequestPreserved, HalvesInv, KeysTogether, HalvedSoFar, DedupeHalves
<1>2. HalvesInv => DedupeHalves
  BY DEF HalvesInv
<1>. QED
  BY <1>1, <1>2, CountStep, PreserveStep, HalvesStep, PTL DEF Spec, IInv

-----------------------------------------------------------------------------
(* The slot of the arrays that belongs to item k.                          *)
Slot(s, k) == Cardinality(ObjChanges(s, k))

(* The comparison puts the objects in order.                               *)
Ordered(s) == \A j, k \in DOMAIN s : j <= k => s[j].obj <= s[k].obj

(* The items among the first n that fell into slot o.                      *)
InSlot(s, n, o) == {k \in 1 .. n : Slot(s, k) = o}

(* What the second loop has written after n rounds.                        *)
Filled(n) ==
  /\ \A k \in 1 .. n : /\ objs[Slot(items, k)] = items[k].obj
                       /\ props[k] = items[k].prop
                       /\ propVals[k] = items[k].val
  /\ \A o \in 1 .. countObjs : countProps[o] = Cardinality(InSlot(items, n, o))

(* The arrays have the lengths they were allocated with.                   *)
Lengths ==
  /\ Len(objs) = countObjs /\ Len(countProps) = countObjs
  /\ Len(props) = Len(items) /\ Len(propVals) = Len(items)

(* What the second loop relies on, and what it leaves to the ioctl.        *)
FilledInv ==
  /\ pc \in {"dedupe", "alloc", "flatten", "ioctl"} => Ordered(items)
  /\ pc = "flatten" => Filled(i - 1)
  /\ pc = "ioctl" => Filled(Len(items)) /\ Lengths /\ objIdx = countObjs

(* A set of positions that is not empty has a first one.                   *)
LEMMA SmallestExists ==
  ASSUME NEW n \in Nat, NEW P \in SUBSET (1 .. n), P # {}
  PROVE  \E k \in P : \A m \in P : k <= m
<1>. DEFINE Q == {n + 1 - k : k \in P}
<1>1. Q \subseteq 1 .. n /\ Q # {}
  <2>1. PICK k \in P : TRUE
    OBVIOUS
  <2>2. n + 1 - k \in Q
    BY <2>1
  <2>3. \A m \in P : n + 1 - m \in 1 .. n
    OBVIOUS
  <2>. QED
    BY <2>2, <2>3
<1>2. PICK q \in Q : \A m \in Q : m <= q
  <2>. HIDE DEF Q
  <2>. QED
    BY <1>1, LargestExists
<1>3. PICK k \in P : q = n + 1 - k
  OBVIOUS
<1>4. ASSUME NEW m \in P PROVE k <= m
  <2>1. n + 1 - m \in Q
    OBVIOUS
  <2>2. n + 1 - m <= n + 1 - k
    BY <1>2, <1>3, <2>1
  <2>. QED
    BY <2>2
<1>. QED
  BY <1>4

(* Two items of one slot have one object.                                  *)
LEMMA SlotObject ==
  ASSUME NEW s \in Seq(Item), NEW j \in 1 .. Len(s), NEW k \in 1 .. Len(s),
         Slot(s, j) = Slot(s, k)
  PROVE  s[j].obj = s[k].obj
<1>1. ASSUME NEW a \in 1 .. Len(s), NEW b \in 1 .. Len(s), a <= b,
             Slot(s, a) = Slot(s, b), s[a].obj # s[b].obj
      PROVE  FALSE
  <2>0. Len(s) \in Nat /\ a \in Nat /\ b \in Nat
    OBVIOUS
  <2>. DEFINE P == {m \in 1 .. Len(s) : a <= m /\ m <= b /\ s[m].obj # s[a].obj}
  <2>1. b \in P /\ P \subseteq 1 .. Len(s)
    BY <1>1
  <2>2. PICK m \in P : \A x \in P : m <= x
    <3>. HIDE DEF P
    <3>. QED
      BY <2>0, <2>1, SmallestExists
  <2>3. m \in 1 .. Len(s) /\ a <= m /\ m <= b /\ s[m].obj # s[a].obj /\ m # a
    BY <2>2
  <2>4. m - 1 \in 1 .. Len(s) /\ a <= m - 1 /\ m - 1 <= b /\ ~(m <= m - 1) /\ m # 1
    BY <2>0, <2>3
  <2>5. m - 1 \notin P
    <3>. HIDE DEF P
    <3>. QED
      BY <2>2, <2>4
  <2>6. s[m - 1].obj = s[a].obj
    BY <2>4, <2>5
  <2>7. m \in ObjChanges(s, b) /\ m \notin ObjChanges(s, a)
    BY <2>0, <2>3, <2>4, <2>6 DEF ObjChanges, PrevObj
  <2>8. ObjChanges(s, a) \subseteq ObjChanges(s, b)
    BY <1>1, <2>0 DEF ObjChanges
  <2>9. IsFiniteSet(ObjChanges(s, b))
    BY <2>0, ChangesFinite
  <2>. QED
    BY <1>1, <2>7, <2>8, <2>9, FS_Subset DEF Slot
<1>2. CASE j <= k
  BY <1>1, <1>2
<1>3. CASE k <= j
  BY <1>1, <1>3
<1>. QED
  BY <1>2, <1>3

(* In an ordered list, two items of one object have one slot.              *)
LEMMA ObjectSlot ==
  ASSUME NEW s \in Seq(Item), Ordered(s),
         NEW j \in 1 .. Len(s), NEW k \in 1 .. Len(s), s[j].obj = s[k].obj
  PROVE  Slot(s, j) = Slot(s, k)
<1>1. ASSUME NEW a \in 1 .. Len(s), NEW b \in 1 .. Len(s), a <= b,
             s[a].obj = s[b].obj
      PROVE  Slot(s, a) = Slot(s, b)
  <2>1. Len(s) \in Nat /\ a \in Nat \ {0} /\ b \in Nat \ {0} /\ DOMAIN s = 1 .. Len(s)
    OBVIOUS
  <2>2. ASSUME NEW m \in 1 .. Len(s), a <= m, m <= b PROVE s[m].obj = s[a].obj
    <3>1. s[a].obj <= s[m].obj /\ s[m].obj <= s[b].obj
      BY <2>1, <2>2 DEF Ordered
    <3>2. s[m] \in Item /\ s[a] \in Item
      BY <2>1
    <3>3. s[m].obj \in Nat /\ s[a].obj \in Nat
      BY <3>2, IdsPositive
    <3>. QED
      BY <1>1, <3>1, <3>3
  <2>3. ASSUME NEW m \in ObjChanges(s, b) PROVE m \in ObjChanges(s, a)
    <3>1. m \in 1 .. b /\ m \in 1 .. Len(s) /\ s[m].obj # PrevObj(s, m)
      BY <2>1 DEF ObjChanges
    <3>2. CASE m <= a
      BY <2>1, <3>1, <3>2 DEF ObjChanges
    <3>3. CASE a < m
      <4>1. m - 1 \in 1 .. Len(s) /\ a <= m - 1 /\ m - 1 <= b /\ a <= m /\ m <= b /\ m # 1
        BY <2>1, <3>1, <3>3
      <4>2. s[m].obj = s[a].obj /\ s[m - 1].obj = s[a].obj
        BY <2>2, <3>1, <4>1
      <4>. QED
        BY <3>1, <4>1, <4>2 DEF PrevObj
    <3>. QED
      BY <2>1, <3>1, <3>2, <3>3
  <2>4. ObjChanges(s, a) \subseteq ObjChanges(s, b)
    BY <1>1, <2>1 DEF ObjChanges
  <2>5. ObjChanges(s, a) = ObjChanges(s, b)
    BY <2>3, <2>4
  <2>. QED
    BY <2>5 DEF Slot
<1>2. CASE j <= k
  BY <1>1, <1>2
<1>3. CASE k <= j
  BY <1>1, <1>3
<1>. QED
  BY <1>2, <1>3

(* The slots go up one at a time from 1.                                   *)
LEMMA SlotSteps ==
  ASSUME NEW s \in Seq(Item)
  PROVE  /\ \A k \in 0 .. Len(s) : Slot(s, k) \in Nat
         /\ Slot(s, 0) = 0
         /\ \A k \in 1 .. Len(s) : /\ Slot(s, k) <= Slot(s, k - 1) + 1
                                   /\ Slot(s, k) >= 1
         /\ \A j, k \in 0 .. Len(s) : j <= k => Slot(s, j) <= Slot(s, k)
<1>0. Len(s) \in Nat
  OBVIOUS
<1>1. \A k \in 0 .. Len(s) : Slot(s, k) \in Nat
  BY <1>0, ChangesFinite DEF Slot
<1>2. Slot(s, 0) = 0
  BY ChangesEmpty DEF Slot
<1>3. \A j, k \in 0 .. Len(s) : j <= k => Slot(s, j) <= Slot(s, k)
  BY <1>0, ChangesMonotonic DEF Slot
<1>4. ASSUME NEW k \in 1 .. Len(s) PROVE Slot(s, k) <= Slot(s, k - 1) + 1
  <2>1. k \in Nat \ {0} /\ k - 1 \in 0 .. Len(s)
    BY <1>0
  <2>2. Slot(s, k) = Slot(s, k - 1) + 1 \/ Slot(s, k) = Slot(s, k - 1)
    BY <2>1, ChangesStep DEF Slot
  <2>3. Slot(s, k - 1) \in Nat
    BY <1>1, <2>1
  <2>. QED
    BY <2>2, <2>3
<1>5. ASSUME NEW k \in 1 .. Len(s) PROVE Slot(s, k) >= 1
  <2>1. 1 \in 1 .. Len(s) /\ 1 \in 0 .. Len(s) /\ k \in 0 .. Len(s) /\ 1 <= k /\ 1 - 1 = 0
    BY <1>0
  <2>2. s[1] \in Item
    BY <2>1
  <2>3. s[1].obj # PrevObj(s, 1)
    BY <2>2, IdsPositive DEF PrevObj
  <2>4. Slot(s, 1) = Slot(s, 1 - 1) + 1
    BY <2>3, ChangesStep DEF Slot
  <2>5. Slot(s, 1) = 1
    BY <1>2, <2>1, <2>4
  <2>6. Slot(s, 1) <= Slot(s, k) /\ Slot(s, k) \in Nat
    BY <1>1, <1>3, <2>1
  <2>. QED
    BY <2>5, <2>6
<1>. QED
  BY <1>1, <1>2, <1>3, <1>4, <1>5

(* Every slot that is counted belongs to an item.                          *)
LEMMA SlotOnto ==
  ASSUME NEW s \in Seq(Item), NEW o \in 1 .. Slot(s, Len(s))
  PROVE  \E k \in 1 .. Len(s) : Slot(s, k) = o
<1>0. Len(s) \in Nat /\ Slot(s, Len(s)) \in Nat /\ Len(s) \in 0 .. Len(s)
  BY SlotSteps
<1>1. CASE Len(s) = 0
  <2>1. Slot(s, Len(s)) = 0
    BY <1>1, SlotSteps
  <2>. QED
    BY <2>1
<1>2. CASE Len(s) # 0
  <2>. DEFINE P == {k \in 1 .. Len(s) : o <= Slot(s, k)}
  <2>1. Len(s) \in P /\ P \subseteq 1 .. Len(s)
    BY <1>0, <1>2
  <2>2. PICK k \in P : \A m \in P : k <= m
    <3>. HIDE DEF P
    <3>. QED
      BY <1>0, <2>1, SmallestExists
  <2>3. k \in 1 .. Len(s) /\ o <= Slot(s, k) /\ k \in 0 .. Len(s) /\ k - 1 \in 0 .. Len(s)
    BY <1>0, <2>2
  <2>4. /\ Slot(s, k) \in Nat /\ Slot(s, k - 1) \in Nat
        /\ Slot(s, k) <= Slot(s, k - 1) + 1
    BY <2>3, SlotSteps
  <2>5. Slot(s, k - 1) < o
    <3>1. CASE k = 1
      BY <1>0, <3>1, SlotSteps
    <3>2. CASE k # 1
      <4>1. k - 1 \in 1 .. Len(s) /\ ~(k <= k - 1)
        BY <1>0, <2>3, <3>2
      <4>2. ~(o <= Slot(s, k - 1))
        BY <2>2, <4>1
      <4>. QED
        BY <1>0, <2>4, <4>2
    <3>. QED
      BY <3>1, <3>2
  <2>6. Slot(s, k) = o
    BY <1>0, <2>3, <2>4, <2>5
  <2>. QED
    BY <2>3, <2>6
<1>. QED
  BY <1>1, <1>2

(* One more item falls into one slot and no other.                         *)
LEMMA InSlotStep ==
  ASSUME NEW s, NEW n \in Nat \ {0}, NEW o
  PROVE  /\ Cardinality(InSlot(s, n - 1, o)) \in Nat
         /\ Cardinality(InSlot(s, n, o)) =
              IF Slot(s, n) = o THEN Cardinality(InSlot(s, n - 1, o)) + 1
                                ELSE Cardinality(InSlot(s, n - 1, o))
<1>1. InSlot(s, n - 1, o) \subseteq 1 .. (n - 1) /\ n \notin InSlot(s, n - 1, o)
  BY DEF InSlot
<1>2. IsFiniteSet(InSlot(s, n - 1, o))
  <2>1. IsFiniteSet(1 .. (n - 1))
    BY FS_Interval
  <2>. QED
    BY <1>1, <2>1, FS_Subset
<1>3. CASE Slot(s, n) = o
  <2>1. InSlot(s, n, o) = InSlot(s, n - 1, o) \cup {n}
    BY <1>3 DEF InSlot
  <2>. QED
    BY <1>1, <1>2, <1>3, <2>1, FS_AddElement, FS_CardinalityType
<1>4. CASE Slot(s, n) # o
  <2>1. InSlot(s, n, o) = InSlot(s, n - 1, o)
    BY <1>4 DEF InSlot
  <2>. QED
    BY <1>2, <1>4, <2>1, FS_CardinalityType
<1>. QED
  BY <1>3, <1>4

(* What qsort leaves is ordered by object, and stays so.                   *)
LEMMA SortOrdered ==
  ASSUME NEW s \in Seq(Item), NEW p \in SortOrders(s)
  PROVE  Ordered([k \in DOMAIN s |-> s[p[k]]])
<1>. DEFINE t == [k \in DOMAIN s |-> s[p[k]]]
<1>1. t \in Seq(Item) /\ DOMAIN t = DOMAIN s /\ DOMAIN s = 1 .. Len(s) /\ Len(s) \in Nat
  BY SortedType
<1>2. \A j, k \in DOMAIN s : j < k => Compare(t[j], t[k]) <= 0
  BY DEF SortOrders
<1>. HIDE DEF t
<1>3. ASSUME NEW j \in DOMAIN t, NEW k \in DOMAIN t, j <= k
      PROVE  t[j].obj <= t[k].obj
  <2>1. j \in Int /\ k \in Int /\ t[j] \in Item /\ t[k] \in Item
    BY <1>1
  <2>2. CASE j = k
    <3>1. t[j].obj \in Nat
      BY <2>1, IdsPositive
    <3>. QED
      BY <2>2, <3>1
  <2>3. CASE j < k
    <3>1. Compare(t[j], t[k]) <= 0
      BY <1>1, <1>2, <2>3
    <3>. QED
      BY <2>1, <3>1, CompareOrders
  <2>. QED
    BY <1>3, <2>1, <2>2, <2>3
<1>4. Ordered(t)
  BY <1>3 DEF Ordered
<1>. QED
  BY <1>4 DEF t

LEMMA WithoutOrdered ==
  ASSUME NEW s \in Seq(Item), NEW n \in 1 .. Len(s), Ordered(s)
  PROVE  Ordered(Without(s, n))
<1>. DEFINE t == Without(s, n)
            Old(k) == IF k < n THEN k ELSE k + 1
<1>1. /\ DOMAIN t = 1 .. (Len(s) - 1) /\ DOMAIN s = 1 .. Len(s) /\ Len(s) \in Nat
      /\ \A k \in DOMAIN t : t[k] = IF k < n THEN s[k] ELSE s[k + 1]
  BY WithoutType DEF Without
<1>. HIDE DEF t
<1>2. \A k \in DOMAIN t : Old(k) \in DOMAIN s /\ t[k] = s[Old(k)]
  BY <1>1
<1>3. \A j, k \in DOMAIN t : j <= k => Old(j) <= Old(k)
  BY <1>1
<1>. HIDE DEF Old
<1>4. Ordered(t)
  BY <1>2, <1>3 DEF Ordered
<1>. QED
  BY <1>4 DEF t

(* Every step keeps what the second loop has written.                      *)
LEMMA FilledStep == IInv /\ FilledInv /\ [Next]_vars => FilledInv'
<1>. SUFFICES ASSUME IInv, FilledInv, [Next]_vars PROVE FilledInv'
  OBVIOUS
<1>1. CASE \E it \in Item : AddProperty(it)
  BY <1>1 DEF AddProperty, FilledInv
<1>2. CASE ReturnEarly
  BY <1>2 DEF ReturnEarly, FilledInv
<1>3. CASE Sort
  <2>1. PICK p \in SortOrders(req) : items' = [k \in DOMAIN req |-> req[p[k]]]
    BY <1>3 DEF Sort
  <2>2. Ordered(items')
    BY <2>1, SortOrdered DEF IInv, TypeOK
  <2>3. pc' = "dedupe"
    BY <1>3 DEF Sort
  <2>. QED
    BY <2>2, <2>3 DEF FilledInv
<1>4. CASE Dedupe
  <2>1. i \in 1 .. Len(items) /\ items \in Seq(Item) /\ pc = "dedupe" /\ pc' = "dedupe"
    BY <1>4 DEF Dedupe, IInv, TypeOK
  <2>2. Ordered(items)
    BY <2>1 DEF FilledInv
  <2>3. items' = Without(items, i) \/ items' = items
    BY <1>4 DEF Dedupe
  <2>4. Ordered(items')
    BY <2>1, <2>2, <2>3, WithoutOrdered
  <2>. QED
    BY <2>1, <2>4 DEF FilledInv
<1>5. CASE DedupeEnd
  BY <1>5 DEF DedupeEnd, FilledInv
<1>6. CASE AllocArrays
  <2>1. pc = "alloc" /\ items' = items /\ Ordered(items)
    BY <1>6 DEF AllocArrays, FilledInv
  <2>2. CASE pc' = "flatten"
    <3>1. /\ countProps' = Zeros(countObjs) /\ countObjs' = countObjs /\ i' = 1
      BY <1>6, <2>2 DEF AllocArrays, Restart
    <3>2. \A o \in 1 .. countObjs : Zeros(countObjs)[o] = 0
      BY DEF Zeros
    <3>3. \A o : InSlot(items, 0, o) = {}
      BY DEF InSlot
    <3>4. \A o : Cardinality(InSlot(items, 0, o)) = 0
      BY <3>3, FS_EmptySet
    <3>5. i' - 1 = 0 /\ 1 .. 0 = {}
      BY <3>1
    <3>. QED
      BY <2>1, <2>2, <3>1, <3>2, <3>4, <3>5 DEF FilledInv, Filled
  <2>3. CASE pc' = "done"
    BY <2>3 DEF FilledInv
  <2>. QED
    BY <1>6, <2>2, <2>3 DEF AllocArrays
<1>7. CASE Flatten
  <2>0. WritesInBounds
    BY CountsGiveBounds
  <2>1. /\ i \in Nat \ {0} /\ i \in 1 .. Len(items) /\ items \in Seq(Item)
        /\ Len(items) \in Nat
        /\ pc = "flatten" /\ pc' = "flatten" /\ i' = i + 1 /\ i' - 1 = i
        /\ items' = items /\ countObjs' = countObjs
    BY <1>7 DEF Flatten, IInv, TypeOK, NextIndex
  <2>2. Ordered(items) /\ Filled(i - 1)
    BY <2>1 DEF FilledInv
  <2>3. NextSlot = Slot(items, i)
    BY <2>1, ChangesStep DEF NextSlot, NewObject, IInv, FlattenCounts, Slot
  <2>4. /\ objs \in Seq(Nat) /\ countProps \in Seq(Nat) /\ props \in Seq(Nat)
        /\ Len(countProps) = countObjs /\ countObjs \in Nat
        /\ NextSlot \in DOMAIN objs /\ NextSlot \in DOMAIN countProps
        /\ i \in DOMAIN props /\ i \in DOMAIN propVals
    BY <2>0, <2>1 DEF IInv, TypeOK, FlattenCounts, WritesInBounds
  <2>5. /\ objs' = [objs EXCEPT ![Slot(items, i)] = items[i].obj]
        /\ countProps' = [countProps EXCEPT ![Slot(items, i)] = countProps[Slot(items, i)] + 1]
        /\ props' = [props EXCEPT ![i] = items[i].prop]
        /\ propVals' = [propVals EXCEPT ![i] = items[i].val]
    BY <1>7, <2>3 DEF Flatten
  <2>6. ASSUME NEW k \in 1 .. i
        PROVE  /\ objs'[Slot(items, k)] = items[k].obj
               /\ props'[k] = items[k].prop
               /\ propVals'[k] = items[k].val
    <3>1. CASE k = i
      BY <2>3, <2>4, <2>5, <3>1
    <3>2. CASE k # i
      <4>1. k \in 1 .. (i - 1) /\ k \in 1 .. Len(items)
        BY <2>1, <3>2
      <4>2. /\ objs[Slot(items, k)] = items[k].obj /\ props[k] = items[k].prop
            /\ propVals[k] = items[k].val
        BY <2>2, <4>1 DEF Filled
      <4>3. Slot(items, k) = Slot(items, i) => items[k].obj = items[i].obj
        BY <2>1, <4>1, SlotObject
      <4>. QED
        BY <2>3, <2>4, <2>5, <3>2, <4>2, <4>3, SMTT(30)
    <3>. QED
      BY <3>1, <3>2
  <2>7. ASSUME NEW o \in 1 .. countObjs
        PROVE  countProps'[o] = Cardinality(InSlot(items, i, o))
    <3>1. countProps[o] = Cardinality(InSlot(items, i - 1, o))
      BY <2>2 DEF Filled
    <3>2. o \in DOMAIN countProps
      BY <2>4
    <3>3. CASE o = Slot(items, i)
      <4>1. countProps'[o] = countProps[o] + 1
        BY <2>5, <3>2, <3>3
      <4>. QED
        BY <2>1, <3>1, <3>3, <4>1, InSlotStep
    <3>4. CASE o # Slot(items, i)
      <4>1. countProps'[o] = countProps[o]
        BY <2>5, <3>2, <3>4
      <4>. QED
        BY <2>1, <3>1, <3>4, <4>1, InSlotStep
    <3>. QED
      BY <3>3, <3>4
  <2>8. Ordered(items')
    BY <2>1, <2>2
  <2>. QED
    BY <2>1, <2>6, <2>7, <2>8 DEF FilledInv, Filled
<1>8. CASE FlattenEnd
  <2>1. /\ pc = "flatten" /\ pc' = "ioctl" /\ i > Len(items)
        /\ UNCHANGED <<items, objIdx, countObjs, objs, countProps, props, propVals>>
    BY <1>8 DEF FlattenEnd, loop, arrays
  <2>a. i \in Nat /\ Len(items) \in Nat
    BY DEF IInv, TypeOK
  <2>b. i <= Len(items) + 1
    BY <2>1 DEF IInv, FlattenCounts
  <2>2. i = Len(items) + 1 /\ i - 1 = Len(items)
    BY <2>1, <2>a, <2>b
  <2>3. Ordered(items) /\ Filled(Len(items)) /\ Lengths
    BY <2>1, <2>2 DEF FilledInv, IInv, FlattenCounts, Lengths
  <2>4. objIdx = countObjs
    BY <2>1, <2>2 DEF IInv, FlattenCounts, Counted1
  <2>. QED
    BY <2>1, <2>3, <2>4 DEF FilledInv, Filled, Lengths
<1>9. CASE Ioctl
  BY <1>9 DEF Ioctl, FilledInv
<1>10. CASE FreeRequest
  BY <1>10 DEF FreeRequest, FilledInv
<1>11. CASE UNCHANGED vars
  BY <1>11 DEF vars, loop, arrays, FilledInv, Filled, Lengths
<1>. QED
  BY <1>1, <1>2, <1>3, <1>4, <1>5, <1>6, <1>7, <1>8, <1>9, <1>10, <1>11
     DEF Next, Commit

(* Upto satisfies the equation it is defined by: there is a function that   *)
(* does, the number of items up to a slot.                                  *)
LEMMA UptoCounts ==
  ASSUME NEW s \in Seq(Item), countObjs = Slot(s, Len(s)),
         Len(countProps) = countObjs,
         \A o \in 1 .. countObjs : countProps[o] = Cardinality(InSlot(s, Len(s), o))
  PROVE  \A o \in 0 .. countObjs :
           Upto[o] = Cardinality({k \in 1 .. Len(s) : Slot(s, k) <= o})
<1>. DEFINE UpTo(o) == {k \in 1 .. Len(s) : Slot(s, k) <= o}
            U == [o \in 0 .. Len(countProps) |-> Cardinality(UpTo(o))]
<1>0. Len(s) \in Nat /\ Len(s) \in 0 .. Len(s) /\ countObjs \in Nat
  BY SlotSteps
<1>1. \A k \in 1 .. Len(s) : Slot(s, k) \in Nat /\ Slot(s, k) >= 1
  <2>1. \A k \in 1 .. Len(s) : k \in 0 .. Len(s)
    BY <1>0
  <2>. QED
    BY <2>1, SlotSteps
<1>2. \A o \in Nat : IsFiniteSet(UpTo(o)) /\ Cardinality(UpTo(o)) \in Nat
  <2>1. IsFiniteSet(1 .. Len(s))
    BY <1>0, FS_Interval
  <2>2. \A o \in Nat : UpTo(o) \subseteq 1 .. Len(s)
    OBVIOUS
  <2>. HIDE DEF UpTo
  <2>. QED
    BY <2>1, <2>2, FS_Subset, FS_CardinalityType
<1>3. Cardinality(UpTo(0)) = 0
  <2>1. UpTo(0) = {}
    BY <1>1
  <2>. QED
    BY <2>1, FS_EmptySet
<1>4. ASSUME NEW o \in 1 .. countObjs
      PROVE  Cardinality(UpTo(o)) = Cardinality(UpTo(o - 1)) + countProps[o]
  <2>0. o \in Nat /\ o - 1 \in Nat
    BY <1>0
  <2>1. UpTo(o) = UpTo(o - 1) \cup InSlot(s, Len(s), o)
    BY <1>1, <2>0 DEF InSlot
  <2>2. UpTo(o - 1) \cap InSlot(s, Len(s), o) = {}
    BY <1>1, <2>0 DEF InSlot
  <2>3. IsFiniteSet(InSlot(s, Len(s), o)) /\ Cardinality(InSlot(s, Len(s), o)) \in Nat
    <3>1. InSlot(s, Len(s), o) \subseteq 1 .. Len(s)
      BY DEF InSlot
    <3>2. IsFiniteSet(1 .. Len(s))
      BY <1>0, FS_Interval
    <3>. QED
      BY <3>1, <3>2, FS_Subset, FS_CardinalityType
  <2>4. IsFiniteSet(UpTo(o - 1)) /\ Cardinality(UpTo(o - 1)) \in Nat
    BY <1>2, <2>0
  <2>5. Cardinality({}) = 0
    BY FS_EmptySet
  <2>. HIDE DEF UpTo
  <2>6. Cardinality(UpTo(o - 1) \cup InSlot(s, Len(s), o))
          = Cardinality(UpTo(o - 1)) + Cardinality(InSlot(s, Len(s), o))
              - Cardinality(UpTo(o - 1) \cap InSlot(s, Len(s), o))
    BY <2>3, <2>4, FS_Union
  <2>7. Cardinality(UpTo(o - 1) \cap InSlot(s, Len(s), o)) = 0
    BY <2>2, <2>5
  <2>8. Cardinality(UpTo(o)) = Cardinality(UpTo(o - 1) \cup InSlot(s, Len(s), o))
    BY <2>1
  <2>9. countProps[o] = Cardinality(InSlot(s, Len(s), o))
    OBVIOUS
  <2>. QED
    BY <2>3, <2>4, <2>6, <2>7, <2>8, <2>9
<1>. HIDE DEF UpTo
<1>5. \A o \in 0 .. countObjs : U[o] = Cardinality(UpTo(o)) /\ U[o] \in Nat
  BY <1>0, <1>2
<1>6. U = [o \in 0 .. Len(countProps) |-> IF o = 0 THEN 0 ELSE U[o - 1] + countProps[o]]
  <2>1. ASSUME NEW o \in 0 .. Len(countProps)
        PROVE  Cardinality(UpTo(o)) = IF o = 0 THEN 0 ELSE U[o - 1] + countProps[o]
    <3>1. CASE o = 0
      BY <1>3, <3>1
    <3>2. CASE o # 0
      <4>1. o \in 1 .. countObjs /\ o - 1 \in 0 .. countObjs
        BY <1>0, <3>2
      <4>2. U[o - 1] = Cardinality(UpTo(o - 1))
        BY <1>5, <4>1
      <4>. HIDE DEF U
      <4>. QED
        BY <1>4, <3>2, <4>1, <4>2
    <3>. QED
      BY <3>1, <3>2
  <2>. QED
    BY <2>1
<1>. HIDE DEF U
<1>7. Upto = [o \in 0 .. Len(countProps) |->
                IF o = 0 THEN 0 ELSE Upto[o - 1] + countProps[o]]
  <2>1. \E f : f = [o \in 0 .. Len(countProps) |->
                      IF o = 0 THEN 0 ELSE f[o - 1] + countProps[o]]
    BY <1>6
  <2>. QED
    BY <2>1 DEF Upto
<1>8. Upto[0] = 0 /\ U[0] = 0
  BY <1>0, <1>3, <1>5, <1>7
<1>9. \A o \in 1 .. countObjs : /\ Upto[o] = Upto[o - 1] + countProps[o]
                                /\ U[o] = U[o - 1] + countProps[o]
  <2>1. \A o \in 1 .. countObjs : o \in 0 .. Len(countProps) /\ o # 0
    BY <1>0
  <2>. QED
    BY <1>6, <1>7, <2>1
<1>10. ASSUME NEW z \in 1 .. countObjs, Upto[z] # U[z] PROVE FALSE
  <2>. DEFINE P == {o \in 1 .. countObjs : Upto[o] # U[o]}
  <2>1. z \in P /\ P \subseteq 1 .. countObjs
    BY <1>10
  <2>2. PICK m \in P : \A x \in P : m <= x
    <3>. HIDE DEF P
    <3>. QED
      BY <1>0, <2>1, SmallestExists
  <2>3. m \in 1 .. countObjs /\ Upto[m] # U[m]
    BY <2>2
  <2>4. Upto[m - 1] = U[m - 1]
    <3>1. CASE m = 1
      BY <1>8, <3>1
    <3>2. CASE m # 1
      <4>1. m - 1 \in 1 .. countObjs /\ ~(m <= m - 1)
        BY <1>0, <2>3, <3>2
      <4>. QED
        BY <2>2, <4>1
    <3>. QED
      BY <3>1, <3>2
  <2>. QED
    BY <1>9, <2>3, <2>4
<1>11. ASSUME NEW o \in 0 .. countObjs PROVE Upto[o] = Cardinality(UpTo(o))
  <2>1. o = 0 \/ o \in 1 .. countObjs
    BY <1>0
  <2>2. Upto[o] = U[o]
    BY <1>8, <1>10, <2>1
  <2>. QED
    BY <1>5, <2>2
<1>. QED
  BY <1>11 DEF UpTo

(* The items up to slot o are the first ones of the list.                  *)
LEMMA UptoSlot ==
  ASSUME NEW s \in Seq(Item), NEW o \in Nat
  PROVE  LET c == Cardinality({k \in 1 .. Len(s) : Slot(s, k) <= o})
         IN  /\ c \in 0 .. Len(s)
             /\ \A k \in 1 .. Len(s) : Slot(s, k) <= o <=> k <= c
<1>. DEFINE P == {k \in 1 .. Len(s) : Slot(s, k) <= o}
<1>0. Len(s) \in Nat /\ \A k \in 1 .. Len(s) : k \in 0 .. Len(s)
  OBVIOUS
<1>1. CASE P = {}
  <2>1. Cardinality(P) = 0
    BY <1>1, FS_EmptySet
  <2>2. \A k \in 1 .. Len(s) : ~(Slot(s, k) <= o)
    BY <1>1
  <2>. HIDE DEF P
  <2>3. /\ Cardinality(P) \in 0 .. Len(s)
        /\ \A k \in 1 .. Len(s) : Slot(s, k) <= o <=> k <= Cardinality(P)
    BY <1>0, <2>1, <2>2
  <2>. QED
    BY <2>3 DEF P
<1>2. CASE P # {}
  <2>1. PICK m \in P : \A k \in P : k <= m
    <3>1. P \subseteq 1 .. Len(s)
      OBVIOUS
    <3>. HIDE DEF P
    <3>. QED
      BY <1>0, <1>2, <3>1, LargestExists
  <2>2. m \in 1 .. Len(s) /\ Slot(s, m) <= o
    BY <2>1
  <2>3. ASSUME NEW k \in 1 .. Len(s), k <= m PROVE k \in P
    <3>1. Slot(s, k) <= Slot(s, m)
      BY <1>0, <2>2, <2>3, SlotSteps
    <3>2. Slot(s, k) \in Nat /\ Slot(s, m) \in Nat
      BY <1>0, <2>2, SlotSteps
    <3>. QED
      BY <2>2, <3>1, <3>2
  <2>4. P = 1 .. m
    <3>1. \A k \in 1 .. m : k \in 1 .. Len(s) /\ k <= m
      BY <1>0, <2>2
    <3>2. \A k \in P : k \in 1 .. Len(s)
      OBVIOUS
    <3>3. \A k \in P : k \in 1 .. m
      <4>. HIDE DEF P
      <4>. QED
        BY <1>0, <2>1, <2>2, <3>2
    <3>4. \A k \in 1 .. m : k \in P
      <4>. HIDE DEF P
      <4>. QED
        BY <2>3, <3>1
    <3>. HIDE DEF P
    <3>. QED
      BY <3>3, <3>4
  <2>5. Cardinality(P) = m
    <3>. HIDE DEF P
    <3>. QED
      BY <1>0, <2>2, <2>4, FS_Interval
  <2>6. \A k \in 1 .. Len(s) : k \in P <=> Slot(s, k) <= o
    OBVIOUS
  <2>. HIDE DEF P
  <2>7. /\ Cardinality(P) \in 0 .. Len(s)
        /\ \A k \in 1 .. Len(s) : Slot(s, k) <= o <=> k <= Cardinality(P)
    BY <1>0, <2>2, <2>4, <2>5, <2>6
  <2>. QED
    BY <2>7 DEF P
<1>. QED
  BY <1>1, <1>2

(* What was written says what the list says.                               *)
LEMMA FilledDecodes == IInv /\ FilledInv => ArraysDecodeToList
<1>. SUFFICES ASSUME IInv, FilledInv, pc = "ioctl"
              PROVE  /\ objIdx = countObjs
                     /\ IsInjective(objs)
                     /\ Upto[Len(countProps)] = Len(items)
                     /\ Decoded = items
  BY DEF ArraysDecodeToList
<1>1. /\ items \in Seq(Item) /\ Len(items) \in Nat /\ DOMAIN items = 1 .. Len(items)
      /\ objs \in Seq(Nat) /\ props \in Seq(Nat) /\ propVals \in Seq(Values \cup {0})
  BY DEF IInv, TypeOK
<1>2. Ordered(items) /\ Filled(Len(items)) /\ Lengths /\ objIdx = countObjs
  BY DEF FilledInv
<1>3. /\ countObjs = Slot(items, Len(items)) /\ countObjs \in Nat
  BY DEF IInv, Counted1, Slot, TypeOK
<1>4. /\ Len(objs) = countObjs /\ Len(countProps) = countObjs
      /\ DOMAIN objs = 1 .. countObjs /\ DOMAIN props = 1 .. Len(items)
  BY <1>1, <1>2 DEF Lengths
<1>5. \A k \in 1 .. Len(items) : /\ objs[Slot(items, k)] = items[k].obj
                                 /\ props[k] = items[k].prop
                                 /\ propVals[k] = items[k].val
  BY <1>2 DEF Filled
<1>6. \A o \in 1 .. countObjs : countProps[o] = Cardinality(InSlot(items, Len(items), o))
  BY <1>2 DEF Filled
<1>7. ASSUME NEW k \in 1 .. Len(items) PROVE Slot(items, k) \in 1 .. countObjs
  <2>1. k \in 0 .. Len(items) /\ Len(items) \in 0 .. Len(items) /\ k <= Len(items)
    BY <1>1
  <2>2. /\ Slot(items, k) \in Nat /\ Slot(items, k) >= 1
        /\ Slot(items, k) <= Slot(items, Len(items))
    BY <1>1, <2>1, SlotSteps
  <2>. QED
    BY <1>3, <2>2
<1>8. ASSUME NEW o \in 0 .. countObjs
      PROVE  /\ Upto[o] \in 0 .. Len(items)
             /\ \A k \in 1 .. Len(items) : Slot(items, k) <= o <=> k <= Upto[o]
  <2>1. Upto[o] = Cardinality({k \in 1 .. Len(items) : Slot(items, k) <= o})
    BY <1>1, <1>3, <1>4, <1>6, UptoCounts
  <2>. QED
    BY <1>1, <1>3, <2>1, UptoSlot
<1>9. IsInjective(objs)
  <2>1. ASSUME NEW a \in 1 .. countObjs, NEW b \in 1 .. countObjs, objs[a] = objs[b]
        PROVE  a = b
    <3>1. PICK j \in 1 .. Len(items) : Slot(items, j) = a
      BY <1>1, <1>3, SlotOnto
    <3>2. PICK k \in 1 .. Len(items) : Slot(items, k) = b
      BY <1>1, <1>3, SlotOnto
    <3>3. items[j].obj = items[k].obj
      BY <1>5, <2>1, <3>1, <3>2
    <3>. QED
      BY <1>1, <1>2, <3>1, <3>2, <3>3, ObjectSlot
  <2>. QED
    BY <1>4, <2>1 DEF IsInjective
<1>10. Upto[countObjs] = Len(items)
  <2>0. countObjs \in 0 .. countObjs
    BY <1>3
  <2>1. /\ Upto[countObjs] \in 0 .. Len(items)
        /\ \A k \in 1 .. Len(items) : Slot(items, k) <= countObjs <=> k <= Upto[countObjs]
    BY <1>8, <2>0
  <2>2. CASE Len(items) = 0
    BY <2>1, <2>2
  <2>3. CASE Len(items) # 0
    <3>1. Len(items) \in 1 .. Len(items)
      BY <1>1, <2>3
    <3>2. Slot(items, Len(items)) <= countObjs
      BY <1>3
    <3>3. Len(items) <= Upto[countObjs]
      BY <2>1, <3>1, <3>2
    <3>4. Upto[countObjs] \in 0 .. Len(items)
      BY <2>1
    <3>. QED
      BY <1>1, <3>3, <3>4
  <2>. QED
    BY <2>2, <2>3
<1>11. ASSUME NEW k \in 1 .. Len(items)
       PROVE  (CHOOSE o \in DOMAIN objs : k \in (Upto[o - 1] + 1) .. Upto[o])
                = Slot(items, k)
  <2>1. ASSUME NEW o \in 1 .. countObjs
        PROVE  k \in (Upto[o - 1] + 1) .. Upto[o] <=> o = Slot(items, k)
    <3>1. o \in 0 .. countObjs /\ o - 1 \in 0 .. countObjs
      BY <1>3
    <3>2. Slot(items, k) <= o <=> k <= Upto[o]
      BY <1>8, <3>1
    <3>3. Slot(items, k) <= o - 1 <=> k <= Upto[o - 1]
      BY <1>8, <3>1
    <3>4. Upto[o] \in 0 .. Len(items) /\ Upto[o - 1] \in 0 .. Len(items)
      BY <1>8, <3>1
    <3>5. Slot(items, k) \in Nat /\ k \in Nat
      BY <1>1, <1>3, <1>7
    <3>. QED
      BY <1>1, <1>3, <3>2, <3>3, <3>4, <3>5
  <2>2. Slot(items, k) \in 1 .. countObjs
    BY <1>7
  <2>. QED
    BY <1>4, <2>1, <2>2
<1>12. Decoded = items
  <2>1. ASSUME NEW k \in 1 .. Len(items)
        PROVE  [obj  |-> objs[CHOOSE o \in DOMAIN objs :
                                k \in (Upto[o - 1] + 1) .. Upto[o]],
                prop |-> props[k], val |-> propVals[k]] = items[k]
    <3>1. items[k] \in Item
      BY <1>1
    <3>2. items[k] = [obj |-> items[k].obj, prop |-> items[k].prop, val |-> items[k].val]
      BY <3>1 DEF Item
    <3>. QED
      BY <1>5, <1>11, <3>2
  <2>2. items = [k \in 1 .. Len(items) |-> items[k]]
    BY <1>1
  <2>. QED
    BY <1>4, <2>1, <2>2 DEF Decoded
<1>. QED
  BY <1>2, <1>4, <1>9, <1>10, <1>12

(* The four arrays that the ioctl reads say the same as the list they were *)
(* made from, one slot to an object, and none of the slots that were       *)
(* counted is left unused, however long the request and whatever its ids.  *)
THEOREM ArraysDecode == Spec => []ArraysDecodeToList
<1>1. Init => IInv /\ FilledInv
  BY IdAssumption
     DEF Init, IInv, TypeOK, PCs, DedupeCounts, Counted1, FlattenCounts, FilledInv
<1>. QED
  BY <1>1, CountStep, FilledStep, FilledDecodes, PTL DEF Spec
-----------------------------------------------------------------------------
(* The refinement of AtomicRequest.  At the caller's the arrays are empty, *)
(* and a commit that gives up has its error ready.                         *)
Quiet ==
  /\ pc = "caller" => arrays = <<<<>>, <<>>, <<>>, <<>>>>
  /\ pc \in {"dedupe", "alloc"} => ret = -1

LEMMA QuietStep == Quiet /\ [Next]_vars => Quiet'
<1>. SUFFICES ASSUME Quiet, [Next]_vars PROVE Quiet'
  OBVIOUS
<1>. USE DEF Quiet
<1>1. CASE \E it \in Item : AddProperty(it)
  BY <1>1 DEF AddProperty
<1>2. CASE ReturnEarly
  BY <1>2 DEF ReturnEarly
<1>3. CASE Sort
  BY <1>3 DEF Sort
<1>4. CASE Dedupe
  BY <1>4 DEF Dedupe
<1>5. CASE DedupeEnd
  BY <1>5 DEF DedupeEnd
<1>6. CASE AllocArrays
  BY <1>6 DEF AllocArrays
<1>7. CASE Flatten
  BY <1>7 DEF Flatten
<1>8. CASE FlattenEnd
  BY <1>8 DEF FlattenEnd
<1>9. CASE Ioctl
  BY <1>9 DEF Ioctl
<1>10. CASE FreeRequest
  BY <1>10 DEF FreeRequest, arrays
<1>11. CASE UNCHANGED vars
  BY <1>11 DEF vars
<1>. QED
  BY <1>1, <1>2, <1>3, <1>4, <1>5, <1>6, <1>7, <1>8, <1>9, <1>10, <1>11
     DEF Next, Commit

(* Arrays that are left alone say the same as before.                      *)
LEMMA DecodedKept == UNCHANGED arrays => Decoded' = Decoded
<1>. SUFFICES ASSUME UNCHANGED arrays PROVE Decoded' = Decoded
  OBVIOUS
<1>1. objs' = objs /\ countProps' = countProps /\ props' = props /\ propVals' = propVals
  BY DEF arrays
<1>2. Upto' = Upto
  BY <1>1 DEF Upto
<1>. QED
  BY <1>1, <1>2 DEF Decoded

(* An empty list changes nothing.                                          *)
LEMMA EmptyEffect == ASSUME NEW s, DOMAIN s = {} PROVE Effect(s) = Atomic!NoChange
BY DEF Effect, KeysOf, Atomic!NoChange

(* The keys and the positions of AtomicRequest are the ones of the list.   *)
LEMMA AtomicKeys ==
  /\ Atomic!Keys = KeysOf(req)
  /\ \A key, k : k \in Atomic!SetsOf(key) <=> k \in DOMAIN req /\ Key(req[k]) = key
BY DEF Atomic!Keys, Atomic!SetsOf, KeysOf, Key

(* What the kernel makes of a list that keeps the keys and the items of    *)
(* the request, and the last item of each key if the sort is stable, is an *)
(* outcome that AtomicRequest allows.                                      *)
LEMMA EffectIsOutcome ==
  ASSUME req \in Seq(Item), NEW s \in Seq(Item),
         KeysOf(s) = KeysOf(req), Range(s) \subseteq Range(req),
         Len(req) <= StableUpTo =>
           \A key \in KeysOf(req) : LastWith(s, key) = LastWith(req, key)
  PROVE  Atomic!Outcome(Effect(s))
<1>1. DOMAIN Effect(s) = Atomic!Keys
  BY AtomicKeys DEF Effect
<1>2. ASSUME NEW key \in KeysOf(req)
      PROVE  \E k \in Atomic!SetsOf(key) :
               /\ Effect(s)[key] = req[k].val
               /\ Len(req) <= StableUpTo => \A m \in Atomic!SetsOf(key) : m <= k
  <2>0. Effect(s)[key] = LastWith(s, key).val
    BY DEF Effect
  <2>1. CASE Len(req) <= StableUpTo
    <3>1. PICK k \in DOMAIN req : IsLast(req, key, k)
      BY LastExists
    <3>2. LastWith(s, key) = req[k]
      BY <2>1, <3>1, LastIsLastWith
    <3>3. k \in Atomic!SetsOf(key) /\ \A m \in Atomic!SetsOf(key) : m <= k
      BY <3>1, AtomicKeys DEF IsLast
    <3>. QED
      BY <2>0, <3>2, <3>3
  <2>2. CASE ~(Len(req) <= StableUpTo)
    <3>1. PICK j \in DOMAIN s : IsLast(s, key, j)
      BY LastExists
    <3>2. LastWith(s, key) = s[j] /\ Key(s[j]) = key
      BY <3>1, LastIsLastWith DEF IsLast
    <3>3. PICK k \in DOMAIN req : req[k] = s[j]
      BY DEF Range
    <3>4. k \in Atomic!SetsOf(key)
      BY <3>2, <3>3, AtomicKeys
    <3>. QED
      BY <2>0, <2>2, <3>2, <3>3, <3>4
  <2>. QED
    BY <2>1, <2>2
<1>. QED
  BY <1>1, <1>2, AtomicKeys DEF Atomic!Outcome

(* What a step of AtomicRequest is in the terms of this module.            *)
LEMMA AtomicStutter ==
  ASSUME pc # "done", pc' # "done", UNCHANGED req
  PROVE  UNCHANGED Atomic!atomicVars
BY DEF Atomic!atomicVars, Effect, KeysOf

LEMMA AtomicCommit ==
  ASSUME pc # "done", pc' = "done", UNCHANGED req,
         \/ ret' = 0 /\ Atomic!Outcome(Effect(Decoded'))
         \/ ret' \in Int \ Nat
  PROVE  Atomic!Commit
<1>1. (IF pc' = "done" /\ ret' = 0 THEN Effect(Decoded') ELSE Effect(<<>>))
        = IF ret' = 0 THEN Effect(Decoded') ELSE Atomic!NoChange
  BY EmptyEffect
<1>. QED
  BY <1>1 DEF Atomic!Commit

(* Every step of the commit is one of AtomicRequest, or none.              *)
LEMMA AtomicStep ==
  /\ TypeOK /\ Quiet /\ RequestPreserved /\ LastSetWins /\ ArraysDecodeToList
  /\ [Next]_vars
  => [Atomic!Next]_(Atomic!atomicVars)
<1>. SUFFICES ASSUME TypeOK, Quiet, RequestPreserved, LastSetWins, ArraysDecodeToList,
                     [Next]_vars
              PROVE  Atomic!Next \/ UNCHANGED Atomic!atomicVars
  OBVIOUS
<1>1. CASE \E it \in Item : AddProperty(it)
  <2>1. PICK it \in Item : AddProperty(it)
    BY <1>1
  <2>2. pc = "caller" /\ pc' = "caller" /\ Len(req) < MaxItems /\ req' = Append(req, it)
    BY <2>1 DEF AddProperty
  <2>3. Atomic!AddProperty(it)
    BY <2>2 DEF Atomic!AddProperty, Effect, KeysOf
  <2>. QED
    BY <2>3 DEF Atomic!Next
<1>2. CASE ReturnEarly
  <2>1. /\ pc = "caller" /\ pc' = "done" /\ UNCHANGED req /\ UNCHANGED arrays
        /\ ret' = -EINVAL \/ (Len(req) = 0 /\ ret' = 0) \/ ret' = -ENOMEM
    BY <1>2 DEF ReturnEarly
  <2>2. CASE Len(req) = 0 /\ ret' = 0
    <3>1. props' = <<>>
      BY <2>1 DEF Quiet, arrays
    <3>2. DOMAIN Decoded' = {}
      BY <3>1 DEF Decoded
    <3>3. DOMAIN Effect(Decoded') = {}
      BY <3>2 DEF Effect, KeysOf
    <3>4. KeysOf(req) = {}
      BY <2>2 DEF KeysOf, TypeOK
    <3>5. Atomic!Outcome(Effect(Decoded'))
      BY <3>3, <3>4, AtomicKeys DEF Atomic!Outcome
    <3>. QED
      BY <2>1, <2>2, <3>5, AtomicCommit DEF Atomic!Next
  <2>3. CASE ret' = -EINVAL \/ ret' = -ENOMEM
    <3>1. ret' \in Int \ Nat
      BY <2>3 DEF EINVAL, ENOMEM
    <3>. QED
      BY <2>1, <3>1, AtomicCommit DEF Atomic!Next
  <2>. QED
    BY <2>1, <2>2, <2>3
<1>3. CASE Sort \/ Dedupe \/ DedupeEnd \/ Flatten \/ FlattenEnd
  <2>1. pc # "done" /\ pc' # "done" /\ UNCHANGED req
    BY <1>3 DEF Sort, Dedupe, DedupeEnd, Flatten, FlattenEnd
  <2>. QED
    BY <2>1, AtomicStutter
<1>4. CASE AllocArrays
  <2>1. pc = "alloc" /\ UNCHANGED req /\ ret' = ret /\ pc' \in {"flatten", "done"}
    BY <1>4 DEF AllocArrays
  <2>2. CASE pc' = "done"
    <3>1. ret' \in Int \ Nat
      BY <2>1 DEF Quiet
    <3>. QED
      BY <2>1, <2>2, <3>1, AtomicCommit DEF Atomic!Next
  <2>3. CASE pc' = "flatten"
    BY <2>1, <2>3, AtomicStutter
  <2>. QED
    BY <2>1, <2>2, <2>3
<1>5. CASE Ioctl
  <2>1. /\ pc = "ioctl" /\ pc' = "done" /\ UNCHANGED req /\ UNCHANGED arrays
        /\ ret' = 0 \/ ret' = -EBUSY
    BY <1>5 DEF Ioctl, IoctlResults
  <2>2. Decoded' = items
    BY <2>1, DecodedKept DEF ArraysDecodeToList
  <2>3. Atomic!Outcome(Effect(items))
    BY <2>1, EffectIsOutcome DEF RequestPreserved, LastSetWins, TypeOK
  <2>4. ret' = 0 \/ ret' \in Int \ Nat
    BY <2>1 DEF EBUSY
  <2>. QED
    BY <2>1, <2>2, <2>3, <2>4, AtomicCommit DEF Atomic!Next
<1>6. CASE FreeRequest
  <2>1. pc = "done" /\ pc' = "caller" /\ req' = <<>>
    BY <1>6 DEF FreeRequest
  <2>2. Effect(<<>>) = Atomic!NoChange
    BY EmptyEffect
  <2>3. Atomic!FreeRequest
    BY <2>1, <2>2 DEF Atomic!FreeRequest
  <2>. QED
    BY <2>3 DEF Atomic!Next
<1>7. CASE UNCHANGED vars
  <2>1. UNCHANGED <<pc, req, ret>> /\ UNCHANGED arrays
    BY <1>7 DEF vars
  <2>2. Decoded' = Decoded
    BY <2>1, DecodedKept
  <2>. QED
    BY <2>1, <2>2 DEF Atomic!atomicVars, Effect, KeysOf
<1>. QED
  BY <1>1, <1>2, <1>3, <1>4, <1>5, <1>6, <1>7 DEF Next, Commit

(* To its caller a commit is one step: sorting, removing duplicates,       *)
(* allocating and spreading the list over arrays (lines 62-165) implement  *)
(* AtomicRequest, for every request, every order the sort may leave and    *)
(* every place to give up.                                                 *)
THEOREM CommitIsAtomic == Spec => CommitsAtOnce
<1>1. Init => Atomic!Init
  BY EmptyEffect DEF Init, Atomic!Init
<1>2. Init => Quiet
  BY DEF Init, Quiet, arrays
<1>. QED
  BY <1>1, <1>2, QuietStep, AtomicStep, TypeCorrect, RequestKept, LastValueWins,
     ArraysDecode, PTL DEF Spec, CommitsAtOnce, Atomic!Spec

(* What AtomicRequest promises holds in every step of one.                 *)
LEMMA AtomicKeeps ==
  Atomic!AllOrNothing /\ [Atomic!Next]_(Atomic!atomicVars) => Atomic!AllOrNothing'
<1>. SUFFICES ASSUME Atomic!AllOrNothing, [Atomic!Next]_(Atomic!atomicVars)
              PROVE  Atomic!AllOrNothing'
  OBVIOUS
<1>1. CASE \E it \in Item : Atomic!AddProperty(it)
  BY <1>1 DEF Atomic!AddProperty, Atomic!AllOrNothing
<1>2. CASE Atomic!Commit
  BY <1>2 DEF Atomic!Commit, Atomic!AllOrNothing, Atomic!Outcome, Atomic!Keys, Atomic!SetsOf
<1>3. CASE Atomic!FreeRequest
  BY <1>3 DEF Atomic!FreeRequest, Atomic!AllOrNothing
<1>4. CASE UNCHANGED Atomic!atomicVars
  BY <1>4 DEF Atomic!atomicVars, Atomic!AllOrNothing, Atomic!Outcome, Atomic!Keys, Atomic!SetsOf
<1>. QED
  BY <1>1, <1>2, <1>3, <1>4 DEF Atomic!Next

(* A commit that returns an error has made the kernel change nothing, and  *)
(* one that returns 0 leaves each property of the request with a value     *)
(* that the caller set for it.  This follows from AtomicRequest alone.     *)
THEOREM CommitsAllOrNothing == Spec => []Atomic!AllOrNothing
<1>1. Atomic!Init => Atomic!AllOrNothing
  BY DEF Atomic!Init, Atomic!AllOrNothing
<1>. QED
  BY <1>1, AtomicKeeps, CommitIsAtomic, PTL DEF CommitsAtOnce, Atomic!Spec

-----------------------------------------------------------------------------
(* How many steps a commit still makes at most: both loops advance i in    *)
(* every round over a list that does not grow.                             *)
Left ==
  CASE pc = "caller"  -> 2 * Len(req) + 5
    [] pc = "dedupe"  -> (Len(items) - i + 1) + Len(items) + 4
    [] pc = "alloc"   -> Len(items) + 3
    [] pc = "flatten" -> (Len(items) - i + 1) + 2
    [] pc = "ioctl"   -> 1
    [] pc = "done"    -> 0

Progress == Commit => Left \in Nat /\ Left' \in Nat /\ Left' < Left

LEMMA ProgressStep == IInv /\ [Next]_vars => Progress
<1>. SUFFICES ASSUME IInv, Commit PROVE Left \in Nat /\ Left' \in Nat /\ Left' < Left
  BY DEF Progress
<1>0. Len(items) \in Nat /\ Len(req) \in Nat /\ i \in Nat \ {0} /\ items \in Seq(Item)
  BY DEF IInv, TypeOK
<1>1. CASE Sort
  <2>1. PICK p \in SortOrders(req) : items' = [k \in DOMAIN req |-> req[p[k]]]
    BY <1>1 DEF Sort
  <2>2. Len(items') = Len(req)
    BY <2>1, SortedType DEF IInv, TypeOK
  <2>3. Left = 2 * Len(req) + 5
    BY <1>1 DEF Sort, Left
  <2>4. Left' = (Len(items') - 1 + 1) + Len(items') + 4
    BY <1>1 DEF Sort, Left
  <2>. QED
    BY <1>0, <2>2, <2>3, <2>4
<1>2. CASE Dedupe
  <2>1. pc = "dedupe" /\ pc' = "dedupe" /\ i' = i + 1 /\ i <= Len(items)
    BY <1>2 DEF Dedupe, NextIndex
  <2>2. Len(items') \in Nat /\ Len(items') <= Len(items) /\ i <= Len(items')
    <3>1. CASE SameAsNext(i)
      <4>1. Len(items') = Len(items) - 1
        BY <1>0, <1>2, <2>1, <3>1, WithoutType DEF Dedupe
      <4>2. i < Len(items)
        BY <3>1 DEF SameAsNext
      <4>. QED
        BY <1>0, <4>1, <4>2
    <3>2. CASE ~SameAsNext(i)
      BY <1>0, <1>2, <2>1, <3>2 DEF Dedupe
    <3>. QED
      BY <3>1, <3>2
  <2>3. Left = (Len(items) - i + 1) + Len(items) + 4
    BY <2>1 DEF Left
  <2>4. Left' = (Len(items') - (i + 1) + 1) + Len(items') + 4
    BY <2>1 DEF Left
  <2>. QED
    BY <1>0, <2>1, <2>2, <2>3, <2>4
<1>3. CASE DedupeEnd
  <2>1. /\ pc = "dedupe" /\ pc' = "alloc" /\ i = Len(items) + 1 /\ items' = items
    BY <1>0, <1>3 DEF DedupeEnd, IInv, DedupeCounts
  <2>. QED
    BY <1>0, <2>1 DEF Left
<1>4. CASE AllocArrays
  <2>1. /\ pc = "alloc" /\ items' = items
        /\ pc' = "done" \/ (pc' = "flatten" /\ i' = 1)
    BY <1>4 DEF AllocArrays, Restart
  <2>. QED
    BY <1>0, <2>1 DEF Left
<1>5. CASE Flatten
  <2>1. pc = "flatten" /\ pc' = "flatten" /\ i' = i + 1 /\ i <= Len(items) /\ items' = items
    BY <1>5 DEF Flatten, NextIndex
  <2>2. Left = (Len(items) - i + 1) + 2 /\ Left' = (Len(items) - (i + 1) + 1) + 2
    BY <2>1 DEF Left
  <2>. QED
    BY <1>0, <2>1, <2>2
<1>6. CASE FlattenEnd
  <2>1. pc = "flatten" /\ pc' = "ioctl" /\ i = Len(items) + 1 /\ items' = items
    BY <1>0, <1>6 DEF FlattenEnd, IInv, FlattenCounts
  <2>. QED
    BY <1>0, <2>1 DEF Left
<1>7. CASE Ioctl
  BY <1>7 DEF Ioctl, Left
<1>. QED
  BY <1>1, <1>2, <1>3, <1>4, <1>5, <1>6, <1>7 DEF Commit

(* A commit takes at most 2 * n + 5 steps for a request of n sets: Left is *)
(* that where it begins and goes down in every step, whatever the sort and *)
(* the duplicates do.  It is what CommitReturns needs besides fairness.    *)
THEOREM CommitProgresses == Spec => [][Progress]_vars
<1>1. Init => IInv
  BY IdAssumption
     DEF Init, IInv, TypeOK, PCs, DedupeCounts, Counted1, FlattenCounts
<1>2. IInv /\ [Next]_vars => Progress
  BY ProgressStep
<1>. QED
  BY <1>1, <1>2, CountStep, PTL DEF Spec

=============================================================================
