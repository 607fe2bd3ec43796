------------------------------ MODULE ListProof -------------------------------
(***************************************************************************)
(* Facts about the lists of threads/list.cc that the proofs of the         *)
(* scheduler and of the synchronization primitives rest on.                *)
(***************************************************************************)
EXTENDS SortedList, SequenceTheorems, WellFoundedInduction, TLAPS

\* A nonempty set of naturals has a least element.
LEMMA LeastNatural ==
  ASSUME NEW T \in SUBSET Nat, T # {}
  PROVE  \E m \in T : \A i \in T : m <= i
<1>1. PICK m \in T : \A i \in T : <<i, m>> \notin OpToRel(<, Nat)
  BY NatLessThanWellFounded, WFMin
<1>2. ASSUME NEW i \in T
      PROVE  m <= i
  <2>1. m \in Nat /\ i \in Nat
    OBVIOUS
  <2>2. ~(i < m)
    BY <1>1, <2>1, Zenon DEF OpToRel
  <2>3. QED
    BY <2>1, <2>2
<1>3. QED
  BY <1>2

\* The elements of a list have integer keys.
LEMMA ElementTypes ==
  ASSUME NEW S, NEW list \in Seq(Elements(S))
  PROVE  /\ DOMAIN list = 1 .. Len(list)
         /\ Len(list) \in Nat
         /\ \A i \in 1 .. Len(list) : /\ list[i] \in Elements(S)
                                      /\ list[i].item \in S
                                      /\ list[i].key \in Int
<1>1. \A i \in 1 .. Len(list) : list[i] \in Elements(S)
  BY ElementOfSeq
<1>2. QED
  BY <1>1, LenProperties DEF Elements

\* Place is a position of the list or the one after its end; the elements
\* before it have keys no larger, the element at it a larger one.
LEMMA PlaceProperties ==
  ASSUME NEW S, NEW list \in Seq(Elements(S)), NEW key \in Int
  PROVE  /\ Place(list, key) \in 1 .. Len(list) + 1
         /\ \A i \in 1 .. Place(list, key) - 1 : list[i].key <= key
         /\ Place(list, key) <= Len(list) => key < list[Place(list, key)].key
<1>1. /\ DOMAIN list = 1 .. Len(list)
      /\ Len(list) \in Nat
      /\ \A i \in 1 .. Len(list) : list[i].key \in Int
  BY ElementTypes
<1>2. CASE ~\E i \in DOMAIN list : key < list[i].key
  <2>1. Place(list, key) = Len(list) + 1
    BY <1>2 DEF Place
  <2>2. QED
    BY <2>1, <1>1, <1>2
<1>3. CASE \E i \in DOMAIN list : key < list[i].key
  <2> DEFINE Larger == {i \in 1 .. Len(list) : key < list[i].key}
  <2>a. Larger \in SUBSET Nat /\ Larger # {}
    BY <1>3, <1>1
  <2>1. PICK m \in Larger : \A i \in Larger : m <= i
    <3> HIDE DEF Larger
    <3> QED  BY <2>a, LeastNatural
  <2>2. /\ m \in DOMAIN list
        /\ key < list[m].key
        /\ \A j \in 1 .. m - 1 : list[j].key <= key
    BY <2>1, <1>1
  <2> DEFINE P(i) == /\ key < list[i].key
                     /\ \A j \in 1 .. i - 1 : list[j].key <= key
  <2>3. Place(list, key) = CHOOSE i \in DOMAIN list : P(i)
    BY <1>3 DEF Place
  <2>4. /\ Place(list, key) \in DOMAIN list
        /\ P(Place(list, key))
    BY <2>2, <2>3
  <2>5. QED
    BY <2>4, <1>1
<1>4. QED
  BY <1>2, <1>3

\* SortedInsert makes the list one longer: the new element at its place, the
\* elements before and after it in the order they had.
LEMMA InsertShape ==
  ASSUME NEW S, NEW list \in Seq(Elements(S)), NEW item \in S, NEW key \in Int
  PROVE  LET p == Place(list, key)
             new == SortedInsert(list, item, key)
         IN  /\ new \in Seq(Elements(S))
             /\ Len(new) = Len(list) + 1
             /\ \A i \in 1 .. Len(list) + 1 :
                  new[i] = IF i < p THEN list[i]
                           ELSE IF i = p THEN Element(item, key)
                           ELSE list[i - 1]
<1> DEFINE p == Place(list, key)
           before == SubSeq(list, 1, p - 1)
           after == SubSeq(list, p, Len(list))
           mid == <<Element(item, key)>>
<1>1. /\ Len(list) \in Nat
      /\ \A i \in 1 .. Len(list) : list[i] \in Elements(S)
  BY ElementTypes
<1>2. p \in 1 .. Len(list) + 1
  BY PlaceProperties
<1>3. /\ before \in Seq(Elements(S))
      /\ Len(before) = p - 1
      /\ \A i \in 1 .. p - 1 : before[i] = list[i]
  <2>1. \A i \in 1 .. p - 1 : list[i] \in Elements(S)
    BY <1>1, <1>2
  <2>2. /\ before \in Seq(Elements(S))
        /\ Len(before) = IF 1 <= p - 1 THEN p - 1 - 1 + 1 ELSE 0
        /\ \A i \in 1 .. p - 1 - 1 + 1 : before[i] = list[1 + i - 1]
    BY <1>2, <2>1, SubSeqProperties
  <2>3. QED
    BY <2>2, <1>2
<1>4. /\ after \in Seq(Elements(S))
      /\ Len(after) = Len(list) - p + 1
      /\ \A i \in 1 .. Len(list) - p + 1 : after[i] = list[p + i - 1]
  BY <1>1, <1>2, SubSeqProperties
<1>5. /\ mid \in Seq(Elements(S))
      /\ Len(mid) = 1
      /\ mid[1] = Element(item, key)
  BY DEF Element, Elements
<1>6. /\ before \o mid \in Seq(Elements(S))
      /\ Len(before \o mid) = p
      /\ \A i \in 1 .. p : (before \o mid)[i] =
           IF i <= p - 1 THEN list[i] ELSE Element(item, key)
  <2> HIDE DEF p, before, mid
  <2>1. /\ before \o mid \in Seq(Elements(S))
        /\ Len(before \o mid) = Len(before) + Len(mid)
        /\ \A i \in 1 .. Len(before) + Len(mid) : (before \o mid)[i] =
             IF i <= Len(before) THEN before[i] ELSE mid[i - Len(before)]
    BY <1>3, <1>5, ConcatProperties
  <2>2. p - 1 + 1 = p /\ p \in Nat
    BY <1>1, <1>2
  <2>3. ASSUME NEW i \in 1 .. p
        PROVE  (before \o mid)[i] =
                 IF i <= p - 1 THEN list[i] ELSE Element(item, key)
    <3>1. i > p - 1 => i - (p - 1) = 1
      BY <2>2
    <3>2. QED
      BY <1>3, <1>5, <2>1, <2>2, <3>1
  <2>4. QED
    BY <2>1, <2>2, <2>3, <1>3, <1>5
<1>7. /\ (before \o mid) \o after \in Seq(Elements(S))
      /\ Len((before \o mid) \o after) = Len(list) + 1
      /\ \A i \in 1 .. Len(list) + 1 :
           ((before \o mid) \o after)[i] =
             IF i < p THEN list[i]
             ELSE IF i = p THEN Element(item, key)
             ELSE list[i - 1]
  <2> DEFINE front == before \o mid
  <2> HIDE DEF p, front, before, mid, after
  <2>1. /\ front \o after \in Seq(Elements(S))
        /\ Len(front \o after) = Len(front) + Len(after)
        /\ \A i \in 1 .. Len(front) + Len(after) : (front \o after)[i] =
             IF i <= Len(front) THEN front[i] ELSE after[i - Len(front)]
    BY <1>4, <1>6, ConcatProperties DEF front
  <2>2. Len(front) = p /\ p \in Nat /\ Len(front) + Len(after) = Len(list) + 1
    <3>1. Len(front) = p
      BY <1>6 DEF front
    <3>2. p \in Nat /\ Len(list) \in Nat /\ Len(after) = Len(list) - p + 1
      BY <1>1, <1>2, <1>4
    <3>3. QED
      BY <3>1, <3>2
  <2>3. ASSUME NEW i \in 1 .. Len(list) + 1
        PROVE  (front \o after)[i] =
                 IF i < p THEN list[i]
                 ELSE IF i = p THEN Element(item, key)
                 ELSE list[i - 1]
    <3>1. CASE i <= p
      <4>1. (front \o after)[i] = front[i]
        BY <2>1, <2>2, <3>1
      <4>2. front[i] = IF i <= p - 1 THEN list[i] ELSE Element(item, key)
        BY <1>6, <2>2, <3>1 DEF front
      <4>3. i < p <=> i <= p - 1
        BY <2>2
      <4>4. QED
        BY <4>1, <4>2, <4>3, <3>1, <2>2
    <3>2. CASE i > p
      <4>1. (front \o after)[i] = after[i - p]
        BY <2>1, <2>2, <3>2
      <4>2. after[i - p] = list[p + (i - p) - 1]
        BY <1>1, <1>4, <2>2, <3>2
      <4>3. p + (i - p) - 1 = i - 1
        BY <2>2
      <4>4. QED
        BY <4>1, <4>2, <4>3, <3>2, <2>2
    <3>3. QED
      BY <3>1, <3>2, <2>2
  <2>4. QED
    BY <2>1, <2>2, <2>3 DEF front
<1>8. SortedInsert(list, item, key) = (before \o mid) \o after
  BY DEF SortedInsert, InsertAt
<1>9. QED
  BY <1>7, <1>8

\* SortedInsert adds the item it is given and loses none.
LEMMA InsertItems ==
  ASSUME NEW S, NEW list \in Seq(Elements(S)), NEW item \in S, NEW key \in Int
  PROVE  Items(SortedInsert(list, item, key)) = Items(list) \cup {item}
<1> DEFINE p == Place(list, key)
           new == SortedInsert(list, item, key)
<1>1. /\ DOMAIN list = 1 .. Len(list)
      /\ Len(list) \in Nat
      /\ p \in 1 .. Len(list) + 1
  BY ElementTypes, PlaceProperties
<1>2. /\ new \in Seq(Elements(S))
      /\ Len(new) = Len(list) + 1
      /\ \A i \in 1 .. Len(list) + 1 :
           new[i] = IF i < p THEN list[i]
                    ELSE IF i = p THEN Element(item, key)
                    ELSE list[i - 1]
  BY InsertShape
<1>3. DOMAIN new = 1 .. Len(list) + 1
  BY <1>2, LenProperties
<1> HIDE DEF p, new
<1>4. ASSUME NEW i \in DOMAIN new
      PROVE  new[i].item \in Items(list) \cup {item}
  <2>1. CASE i < p
    BY <2>1, <1>1, <1>2, <1>3 DEF Items
  <2>2. CASE i = p
    BY <2>2, <1>1, <1>2, <1>3 DEF Element
  <2>3. CASE i > p
    <3>1. i - 1 \in DOMAIN list /\ new[i] = list[i - 1]
      BY <2>3, <1>1, <1>2, <1>3
    <3>2. QED
      BY <3>1 DEF Items
  <2>4. QED
    BY <2>1, <2>2, <2>3, <1>1, <1>3
<1>5. ASSUME NEW i \in DOMAIN list
      PROVE  list[i].item \in Items(new)
  <2>1. CASE i < p
    BY <2>1, <1>1, <1>2, <1>3 DEF Items
  <2>2. CASE i >= p
    <3>1. i + 1 \in DOMAIN new /\ new[i + 1] = list[i]
      BY <2>2, <1>1, <1>2, <1>3
    <3>2. QED
      BY <3>1 DEF Items
  <2>3. QED
    BY <2>1, <2>2, <1>1
<1>6. item \in Items(new)
  <2>1. p \in DOMAIN new /\ new[p] = Element(item, key)
    BY <1>1, <1>2, <1>3
  <2>2. QED
    BY <2>1 DEF Items, Element
<1>7. QED
  BY <1>4, <1>5, <1>6 DEF Items, new

\* A sorted list stays sorted: the scheduler always finds the smallest key at
\* the front.
LEMMA InsertSorted ==
  ASSUME NEW S, NEW list \in Seq(Elements(S)), NEW item \in S, NEW key \in Int,
         Sorted(list)
  PROVE  Sorted(SortedInsert(list, item, key))
<1> DEFINE p == Place(list, key)
           new == SortedInsert(list, item, key)
<1>1. /\ DOMAIN list = 1 .. Len(list)
      /\ Len(list) \in Nat
      /\ \A i \in 1 .. Len(list) : list[i].key \in Int
      /\ p \in 1 .. Len(list) + 1
      /\ \A i \in 1 .. p - 1 : list[i].key <= key
      /\ p <= Len(list) => key < list[p].key
  BY ElementTypes, PlaceProperties
<1>2. /\ Len(new) = Len(list) + 1
      /\ new \in Seq(Elements(S))
      /\ \A i \in 1 .. Len(list) + 1 :
           new[i] = IF i < p THEN list[i]
                    ELSE IF i = p THEN Element(item, key)
                    ELSE list[i - 1]
  BY InsertShape
<1>3. DOMAIN new = 1 .. Len(list) + 1
  BY <1>2, LenProperties
<1>4. Element(item, key).key = key
  BY DEF Element
<1>5. \A i \in 1 .. Len(list) : i >= p => key <= list[i].key
  BY <1>1 DEF Sorted
<1> HIDE DEF p, new
<1>6. ASSUME NEW i \in 1 .. Len(list) + 1, NEW j \in 1 .. Len(list) + 1, i < j
      PROVE  new[i].key <= new[j].key
  <2>1. CASE j < p
    <3>1. i \in 1 .. Len(list) /\ j \in 1 .. Len(list) /\ i < p
      BY <2>1, <1>1, <1>6
    <3>2. new[i] = list[i] /\ new[j] = list[j]
      BY <2>1, <3>1, <1>1, <1>2
    <3>3. QED
      BY <3>1, <3>2, <1>1, <1>6 DEF Sorted
  <2>2. CASE j = p
    BY <2>2, <1>1, <1>2, <1>4, <1>6
  <2>3. CASE j > p /\ i < p
    <3>1. j - 1 \in 1 .. Len(list) /\ i \in 1 .. Len(list) /\ j - 1 >= p
      BY <2>3, <1>1, <1>6
    <3>2. new[j] = list[j - 1] /\ new[i] = list[i]
      BY <2>3, <1>1, <1>2
    <3>3. i < j - 1
      BY <2>3, <1>1
    <3>4. QED
      BY <3>1, <3>2, <3>3, <1>1 DEF Sorted
  <2>4. CASE j > p /\ i = p
    <3>1. j - 1 \in 1 .. Len(list) /\ j - 1 >= p
      BY <2>4, <1>1
    <3>2. new[j] = list[j - 1] /\ new[i].key = key
      BY <2>4, <1>1, <1>2, <1>4
    <3>3. QED
      BY <3>1, <3>2, <1>5
  <2>5. CASE j > p /\ i > p
    <3>1. j - 1 \in 1 .. Len(list) /\ i - 1 \in 1 .. Len(list) /\ i - 1 < j - 1
      BY <2>5, <1>1, <1>6
    <3>2. new[j] = list[j - 1] /\ new[i] = list[i - 1]
      BY <2>5, <1>1, <1>2
    <3>3. QED
      BY <3>1, <3>2, <1>1 DEF Sorted
  <2>6. QED
    BY <2>1, <2>2, <2>3, <2>4, <2>5, <1>1
<1>7. QED
  BY <1>3, <1>6 DEF Sorted, new

\* An item that was not on the list is on it once.
LEMMA InsertDistinct ==
  ASSUME NEW S, NEW list \in Seq(Elements(S)), NEW item \in S, NEW key \in Int,
         Distinct(list), item \notin Items(list)
  PROVE  Distinct(SortedInsert(list, item, key))
<1> DEFINE p == Place(list, key)
           new == SortedInsert(list, item, key)
<1>1. /\ DOMAIN list = 1 .. Len(list)
      /\ Len(list) \in Nat
      /\ p \in 1 .. Len(list) + 1
  BY ElementTypes, PlaceProperties
<1>2. /\ Len(new) = Len(list) + 1
      /\ new \in Seq(Elements(S))
      /\ \A i \in 1 .. Len(list) + 1 :
           new[i] = IF i < p THEN list[i]
                    ELSE IF i = p THEN Element(item, key)
                    ELSE list[i - 1]
  BY InsertShape
<1>3. DOMAIN new = 1 .. Len(list) + 1
  BY <1>2, LenProperties
<1> HIDE DEF p, new
<1>4. \A i \in 1 .. Len(list) : list[i].item # item
  BY <1>1 DEF Items
<1>5. ASSUME NEW i \in 1 .. Len(list) + 1, i # p
      PROVE  \E k \in 1 .. Len(list) : /\ new[i] = list[k]
                                       /\ k = IF i < p THEN i ELSE i - 1
  BY <1>1, <1>2, <1>5
<1>6. new[p].item = item
  BY <1>1, <1>2 DEF Element
<1>7. ASSUME NEW i \in 1 .. Len(list) + 1, NEW j \in 1 .. Len(list) + 1, i # j
      PROVE  new[i].item # new[j].item
  <2>1. CASE i = p
    <3>1. j # p
      BY <2>1, <1>7
    <3>2. QED
      BY <3>1, <2>1, <1>4, <1>5, <1>6
  <2>2. CASE j = p
    <3>1. i # p
      BY <2>2, <1>7
    <3>2. QED
      BY <3>1, <2>2, <1>4, <1>5, <1>6
  <2>3. CASE i # p /\ j # p
    <3>1. PICK k \in 1 .. Len(list) : /\ new[i] = list[k]
                                      /\ k = IF i < p THEN i ELSE i - 1
      BY <2>3, <1>5
    <3>2. PICK l \in 1 .. Len(list) : /\ new[j] = list[l]
                                      /\ l = IF j < p THEN j ELSE j - 1
      BY <2>3, <1>5
    <3>3. k # l
      BY <3>1, <3>2, <2>3, <1>7, <1>1
    <3>4. QED
      BY <3>1, <3>2, <3>3, <1>1 DEF Distinct
  <2>4. QED
    BY <2>1, <2>2, <2>3
<1>8. QED
  BY <1>3, <1>7 DEF Distinct, new

\* SortedRemove takes the first element off: the rest keeps its order, and an
\* item that was on the list once is gone.
LEMMA RemoveProperties ==
  ASSUME NEW S, NEW list \in Seq(Elements(S)), list # <<>>
  PROVE  /\ Tail(list) \in Seq(Elements(S))
         /\ Head(list).item \in S
         /\ Head(list).item \in Items(list)
         /\ Items(list) = Items(Tail(list)) \cup {Head(list).item}
         /\ Sorted(list) => Sorted(Tail(list))
         /\ Distinct(list) => /\ Distinct(Tail(list))
                             /\ Head(list).item \notin Items(Tail(list))
<1> DEFINE rest == Tail(list)
<1>1. /\ DOMAIN list = 1 .. Len(list)
      /\ Len(list) \in Nat \ {0}
      /\ Head(list) = list[1]
  BY ElementTypes, EmptySeq
<1>2. /\ rest \in Seq(Elements(S))
      /\ Len(rest) = Len(list) - 1
      /\ \A i \in 1 .. Len(rest) : rest[i] = list[i + 1]
  BY HeadTailProperties
<1>3. DOMAIN rest = 1 .. Len(list) - 1
  BY <1>2, ElementTypes
<1>4. Head(list).item \in S
  BY <1>1, ElementTypes
<1> HIDE DEF rest
<1>5. Items(list) = Items(rest) \cup {list[1].item}
  <2>1. ASSUME NEW i \in DOMAIN list
        PROVE  list[i].item \in Items(rest) \cup {list[1].item}
    <3>1. CASE i = 1
      BY <3>1
    <3>2. CASE i # 1
      <4>1. i - 1 \in DOMAIN rest /\ rest[i - 1] = list[i]
        BY <3>2, <1>1, <1>2, <1>3
      <4>2. QED
        BY <4>1 DEF Items
    <3>3. QED
      BY <3>1, <3>2
  <2>2. ASSUME NEW i \in DOMAIN rest
        PROVE  rest[i].item \in Items(list)
    <3>1. i + 1 \in DOMAIN list /\ rest[i] = list[i + 1]
      BY <1>1, <1>2, <1>3
    <3>2. QED
      BY <3>1 DEF Items
  <2>3. list[1].item \in Items(list)
    BY <1>1 DEF Items
  <2>4. QED
    BY <2>1, <2>2, <2>3 DEF Items
<1>6. ASSUME Sorted(list)
      PROVE  Sorted(rest)
  <2>1. ASSUME NEW i \in DOMAIN rest, NEW j \in DOMAIN rest, i < j
        PROVE  rest[i].key <= rest[j].key
    <3>1. i + 1 \in DOMAIN list /\ rest[i] = list[i + 1]
      BY <2>1, <1>1, <1>2, <1>3
    <3>2. j + 1 \in DOMAIN list /\ rest[j] = list[j + 1]
      BY <2>1, <1>1, <1>2, <1>3
    <3>3. i + 1 < j + 1
      BY <2>1, <1>1, <1>2
    <3>4. QED
      BY <3>1, <3>2, <3>3, <1>6, SMTT(30) DEF Sorted
  <2>2. QED
    BY <2>1 DEF Sorted
<1>7. ASSUME Distinct(list)
      PROVE  Distinct(rest)
  <2>1. ASSUME NEW i \in DOMAIN rest, NEW j \in DOMAIN rest, rest[i].item = rest[j].item
        PROVE  i = j
    <3>1. i + 1 \in DOMAIN list /\ rest[i] = list[i + 1]
      BY <2>1, <1>1, <1>2, <1>3
    <3>2. j + 1 \in DOMAIN list /\ rest[j] = list[j + 1]
      BY <2>1, <1>1, <1>2, <1>3
    <3>3. i + 1 = j + 1
      BY <2>1, <3>1, <3>2, <1>7 DEF Distinct
    <3>4. QED
      BY <2>1, <1>1, <1>2, <3>3
  <2>2. QED
    BY <2>1 DEF Distinct
<1>8. ASSUME Distinct(list)
      PROVE  list[1].item \notin Items(rest)
  <2>1. ASSUME NEW i \in DOMAIN rest
        PROVE  rest[i].item # list[1].item
    <3>1. i + 1 \in DOMAIN list /\ i + 1 # 1 /\ rest[i] = list[i + 1]
      BY <1>1, <1>2, <1>3
    <3>2. QED
      BY <3>1, <1>1, <1>8 DEF Distinct
  <2>2. QED
    BY <2>1 DEF Items
<1>9. QED
  BY <1>1, <1>2, <1>4, <1>5, <1>6, <1>7, <1>8 DEF rest
===============================================================================
