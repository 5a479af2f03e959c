--------------------------- MODULE PriorityProofs ---------------------------
(***************************************************************************)
(* The socket manager implements the priority list: every step that its    *)
(* clock serves is a step of PriorityList, for any number of paths, either  *)
(* clock and any bound on its stamps.                                       *)
(***************************************************************************)
EXTENDS SocketManagerProofs, WellFoundedInduction

(* The enumerations of a set of watched paths that the sort may return. *)
Sorted(S) ==
    { order \in SetToSeqs(S) :
        \A i, j \in DOMAIN order : i < j => watched[order[i]] >= watched[order[j]] }

-----------------------------------------------------------------------------
(* Least elements, without which neither the sort nor its uniqueness can be *)
(* argued.                                                                  *)
LEMMA LeastNatural ==
    ASSUME NEW T \in SUBSET Nat, T # {}
    PROVE  \E least \in T : \A n \in T : least <= n
<1>1. PICK least \in T : \A n \in T : <<n, least>> \notin OpToRel(<, Nat)
    BY NatLessThanWellFounded, WFMin, Zenon
<1>2. \A n \in T : ~ (n < least)
    BY <1>1, Zenon DEF OpToRel
<1> QED BY <1>2

(* A list of different elements, as long as the set it enumerates, misses none. *)
LEMMA EnumerationIsComplete ==
    ASSUME NEW S, IsFiniteSet(S), NEW order \in SetToSeqs(S)
    PROVE  /\ Cardinality(S) \in Nat
           /\ order \in Seq(S)
           /\ DOMAIN order = 1 .. Cardinality(S)
           /\ \A i, j \in DOMAIN order : order[i] = order[j] => i = j
           /\ \A p \in S : \E i \in DOMAIN order : order[i] = p
<1>1. Cardinality(S) \in Nat
    BY FS_CardinalityType
<1>2. /\ order \in [1 .. Cardinality(S) -> S]
      /\ \A i, j \in 1 .. Cardinality(S) : i # j => order[i] # order[j]
    BY DEF SetToSeqs
<1>3. order \in Injection(1 .. Cardinality(S), S)
    BY <1>2 DEF Injection, IsInjective
<1>4. Cardinality(1 .. Cardinality(S)) = Cardinality(S)
    BY <1>1, FS_Interval
<1>5. order \in Surjection(1 .. Cardinality(S), S)
    BY <1>3, <1>4, FS_Injection
<1>6. \A p \in S : \E i \in 1 .. Cardinality(S) : order[i] = p
    BY <1>5 DEF Surjection
<1> QED BY <1>1, <1>2, <1>6

(* The sort always has a result: get_ordered_sockets gives a list. *)
LEMMA SortExists ==
    ASSUME ManagerTypeOK
    PROVE  NewestFirst # {}
<1> DEFINE Unsortable(n) == \E S \in SUBSET DOMAIN watched : Cardinality(S) = n /\ Sorted(S) = {}
<1> DEFINE Bad == {n \in Nat : Unsortable(n)}
<1>1. IsFiniteSet(DOMAIN watched) /\ \A p \in DOMAIN watched : watched[p] \in Nat
    BY ManagerAssumption, FS_Subset DEF ManagerTypeOK, ManagerAssumption, Stamps
<1>2. ASSUME NewestFirst = {} PROVE FALSE
  <2>1. Sorted(DOMAIN watched) = {}
      BY <1>2 DEF Sorted, NewestFirst
  <2>2. Cardinality(DOMAIN watched) \in Bad
      BY <1>1, <2>1, FS_CardinalityType
  <2>3. PICK least \in Bad : \A n \in Bad : least <= n
      BY <2>2, LeastNatural
  <2>4. PICK S \in SUBSET DOMAIN watched : Cardinality(S) = least /\ Sorted(S) = {}
      BY <2>3
  <2>5. IsFiniteSet(S)
      BY <1>1, FS_Subset
  <2>6. CASE S = {}
    <3>1. Cardinality(S) = 0
        BY <2>6, FS_EmptySet
    <3>2. << >> \in SetToSeqs(S)
        BY <3>1, <2>6 DEF SetToSeqs
    <3>3. << >> \in Sorted(S)
        BY <3>2 DEF Sorted
    <3> QED BY <3>3, <2>4
  <2>7. CASE S # {}
    <3> DEFINE T == {watched[p] : p \in S}
    <3>1. T \in SUBSET Nat /\ T # {}
        BY <1>1, <2>7
    <3>2. PICK stamp \in T : \A t \in T : stamp <= t
        BY <3>1, LeastNatural
    <3>3. PICK oldest \in S : \A p \in S : watched[oldest] <= watched[p]
        BY <3>2
    <3> DEFINE Rest == S \ {oldest}
               size == Cardinality(S)
    <3>4. size \in Nat /\ size # 0
        BY <2>5, <2>7, FS_CardinalityType, FS_EmptySet
    <3>5. IsFiniteSet(Rest) /\ Cardinality(Rest) = size - 1
        BY <2>5, FS_RemoveElement
    <3>6. Sorted(Rest) # {}
      <4>1. size - 1 \notin Bad
          BY <2>3, <2>4, <3>4
      <4>2. size - 1 \in Nat
          BY <3>4
      <4>3. Rest \in SUBSET DOMAIN watched
          OBVIOUS
      <4> QED BY <3>5, <4>1, <4>2, <4>3
    <3>7. PICK front : front \in Sorted(Rest)
        BY <3>6
    <3>8. /\ front \in [1 .. (size - 1) -> Rest]
          /\ \A i, j \in 1 .. (size - 1) : i # j => front[i] # front[j]
          /\ \A i, j \in 1 .. (size - 1) : i < j => watched[front[i]] >= watched[front[j]]
        BY <3>5, <3>7 DEF Sorted, SetToSeqs
    <3> DEFINE order == [i \in 1 .. size |-> IF i = size THEN oldest ELSE front[i]]
    <3>9. \A i \in 1 .. size : i = size \/ i \in 1 .. (size - 1)
        BY <3>4
    <3>10. \A i \in 1 .. (size - 1) : front[i] \in S /\ front[i] # oldest
        BY <3>8
    <3>11. order \in [1 .. size -> S]
        BY <3>9, <3>10
    <3>12. \A i, j \in 1 .. size : i # j => order[i] # order[j]
        BY <3>8, <3>9, <3>10
    <3>13. \A i, j \in 1 .. size : i < j => watched[order[i]] >= watched[order[j]]
      <4> SUFFICES ASSUME NEW i \in 1 .. size, NEW j \in 1 .. size, i < j
                   PROVE  watched[order[i]] >= watched[order[j]]
          OBVIOUS
      <4>1. i \in 1 .. (size - 1) /\ order[i] = front[i]
          BY <3>4
      <4>2. CASE j = size
          BY <4>1, <4>2, <1>1, <3>3, <3>10
      <4>3. CASE j \in 1 .. (size - 1)
          BY <4>1, <4>3, <3>8
      <4> QED BY <4>2, <4>3, <3>9
    <3>14. order \in Sorted(S)
      <4> HIDE DEF order
      <4>1. order \in SetToSeqs(S)
          BY <3>11, <3>12 DEF SetToSeqs
      <4> QED BY <4>1, <3>11, <3>13 DEF Sorted
    <3> QED BY <3>14, <2>4
  <2> QED BY <2>6, <2>7
<1> QED BY <1>2

-----------------------------------------------------------------------------
(* What a list of the sort tells: who is in it, and who comes before whom. *)
LEMMA ForwardedIsSorted == ManagerTypeOK => ForwardList \in NewestFirst
    BY SortExists DEF ForwardList

LEMMA SortedList ==
    ASSUME ManagerTypeOK, NEW order \in NewestFirst
    PROVE  /\ IsFiniteSet(DOMAIN watched)
           /\ Cardinality(DOMAIN watched) \in Nat
           /\ order \in Seq(DOMAIN watched) /\ order \in Seq(Paths)
           /\ DOMAIN order = 1 .. Cardinality(DOMAIN watched)
           /\ \A i, j \in DOMAIN order : order[i] = order[j] => i = j
           /\ \A p \in DOMAIN watched : \E i \in DOMAIN order : order[i] = p
           /\ \A i, j \in DOMAIN order : i < j => watched[order[i]] >= watched[order[j]]
<1>1. DOMAIN watched \subseteq Paths /\ IsFiniteSet(DOMAIN watched)
    BY ManagerAssumption, FS_Subset DEF ManagerTypeOK, ManagerAssumption
<1>2. /\ order \in SetToSeqs(DOMAIN watched)
      /\ \A i, j \in DOMAIN order : i < j => watched[order[i]] >= watched[order[j]]
    BY DEF NewestFirst
<1>3. /\ Cardinality(DOMAIN watched) \in Nat
      /\ order \in Seq(DOMAIN watched)
      /\ DOMAIN order = 1 .. Cardinality(DOMAIN watched)
      /\ \A i, j \in DOMAIN order : order[i] = order[j] => i = j
      /\ \A p \in DOMAIN watched : \E i \in DOMAIN order : order[i] = p
    BY <1>1, <1>2, EnumerationIsComplete
<1>4. order \in Seq(Paths)
    BY <1>1, <1>3
<1> QED BY <1>1, <1>2, <1>3, <1>4

(* With different stamps the list is the only one the sort can return. *)
LEMMA SortIsUnique ==
    ManagerTypeOK /\ Distinct(watched) =>
        \A one, other \in NewestFirst : one = other
<1> SUFFICES ASSUME ManagerTypeOK, Distinct(watched),
                    NEW one \in NewestFirst, NEW other \in NewestFirst
             PROVE  one = other
    OBVIOUS
<1> DEFINE size == Cardinality(DOMAIN watched)
<1>1. \A p \in DOMAIN watched : watched[p] \in Nat
    BY DEF ManagerTypeOK, Stamps
<1>2. ASSUME NEW s \in NewestFirst
      PROVE  /\ size \in Nat /\ s \in [1 .. size -> DOMAIN watched]
             /\ \A p \in DOMAIN watched : \E i \in 1 .. size : s[i] = p
             /\ \A i, j \in 1 .. size : s[i] = s[j] => i = j
             /\ \A i, j \in 1 .. size : i < j => watched[s[i]] > watched[s[j]]
  <2>1. /\ size \in Nat /\ s \in [1 .. size -> DOMAIN watched]
        /\ \A p \in DOMAIN watched : \E i \in 1 .. size : s[i] = p
        /\ \A i, j \in 1 .. size : s[i] = s[j] => i = j
        /\ \A i, j \in 1 .. size : i < j => watched[s[i]] >= watched[s[j]]
    <3>1. s \in SetToSeqs(DOMAIN watched)
        BY DEF NewestFirst
    <3> QED BY <3>1, SortedList DEF SetToSeqs
  <2>2. \A i, j \in 1 .. size : i < j => watched[s[i]] # watched[s[j]]
      BY <2>1 DEF Distinct
  <2> QED BY <1>1, <2>1, <2>2
<1> DEFINE Differ == {i \in 1 .. size : one[i] # other[i]}
<1>3. ASSUME Differ # {} PROVE FALSE
  <2>1. Differ \in SUBSET Nat
      BY <1>2
  <2>2. PICK i \in Differ : \A n \in Differ : i <= n
      BY <1>3, <2>1, LeastNatural
  <2>3. ASSUME NEW s \in NewestFirst, NEW t \in NewestFirst, s[i] # t[i],
               \A n \in 1 .. size : n < i => s[n] = t[n]
        PROVE  watched[t[i]] > watched[s[i]]
    <3>1. PICK k \in 1 .. size : t[k] = s[i]
        BY <1>2
    <3>2. ~ (k < i) /\ k # i
        BY <1>2, <2>3, <3>1
    <3> QED BY <1>2, <3>1, <3>2
  <2>4. \A n \in 1 .. size : n < i => one[n] = other[n]
      BY <2>2
  <2>5. watched[one[i]] > watched[other[i]] /\ watched[other[i]] > watched[one[i]]
      BY <2>3, <2>4
  <2> QED BY <1>1, <1>2, <2>5
<1>4. \A i \in 1 .. size : one[i] = other[i]
    BY <1>3
<1> QED BY <1>2, <1>4

-----------------------------------------------------------------------------
(* Who is on the forwarded list, and who comes before whom: all that the     *)
(* steps of the priority list speak of.                                      *)
LEMMA ForwardedList ==
    ManagerTypeOK =>
        /\ ForwardList \in Seq(Paths)
        /\ \A p \in Paths : Promise!Occurs(p, ForwardList) <=> IsWatched(p)
<1> SUFFICES ASSUME ManagerTypeOK
             PROVE  /\ ForwardList \in Seq(Paths)
                    /\ \A p \in Paths : Promise!Occurs(p, ForwardList) <=> IsWatched(p)
    OBVIOUS
<1>1. ForwardList \in NewestFirst
    BY ForwardedIsSorted
<1>2. /\ ForwardList \in Seq(DOMAIN watched) /\ ForwardList \in Seq(Paths)
      /\ \A p \in DOMAIN watched : \E i \in DOMAIN ForwardList : ForwardList[i] = p
    BY <1>1, SortedList
<1>3. \A i \in DOMAIN ForwardList : ForwardList[i] \in DOMAIN watched
    BY <1>2
<1> QED BY <1>2, <1>3 DEF Promise!Occurs, IsWatched

LEMMA ForwardedOrder ==
    ManagerTypeOK /\ Distinct(watched) =>
        \A p, q \in Paths :
            Promise!Before(ForwardList, p, q) <=>
              IsWatched(p) /\ IsWatched(q) /\ watched[p] > watched[q]
<1> SUFFICES ASSUME ManagerTypeOK, Distinct(watched), NEW p \in Paths, NEW q \in Paths
             PROVE  Promise!Before(ForwardList, p, q) <=>
                      IsWatched(p) /\ IsWatched(q) /\ watched[p] > watched[q]
    OBVIOUS
<1>1. ForwardList \in NewestFirst
    BY ForwardedIsSorted
<1>2. /\ Cardinality(DOMAIN watched) \in Nat
      /\ ForwardList \in Seq(DOMAIN watched)
      /\ DOMAIN ForwardList = 1 .. Cardinality(DOMAIN watched)
      /\ \A i, j \in DOMAIN ForwardList : ForwardList[i] = ForwardList[j] => i = j
      /\ \A x \in DOMAIN watched : \E i \in DOMAIN ForwardList : ForwardList[i] = x
      /\ \A i, j \in DOMAIN ForwardList : i < j => watched[ForwardList[i]] >= watched[ForwardList[j]]
    BY <1>1, SortedList
<1>3. \A x \in DOMAIN watched : watched[x] \in Nat
    BY DEF ManagerTypeOK, Stamps
<1>4. \A i \in DOMAIN ForwardList : ForwardList[i] \in DOMAIN watched
    BY <1>2
<1>5. ASSUME Promise!Before(ForwardList, p, q)
      PROVE  IsWatched(p) /\ IsWatched(q) /\ watched[p] > watched[q]
  <2>1. PICK i \in DOMAIN ForwardList, j \in DOMAIN ForwardList :
            i < j /\ ForwardList[i] = p /\ ForwardList[j] = q
      BY <1>5 DEF Promise!Before
  <2>2. i # j
      BY <1>2, <2>1
  <2>3. p # q
      BY <1>2, <2>1, <2>2
  <2> QED BY <1>2, <1>3, <1>4, <2>1, <2>3 DEF Distinct, IsWatched
<1>6. ASSUME IsWatched(p), IsWatched(q), watched[p] > watched[q]
      PROVE  Promise!Before(ForwardList, p, q)
  <2>1. PICK i \in DOMAIN ForwardList : ForwardList[i] = p
      BY <1>2, <1>6 DEF IsWatched
  <2>2. PICK j \in DOMAIN ForwardList : ForwardList[j] = q
      BY <1>2, <1>6 DEF IsWatched
  <2>3. ~ (j < i) /\ i # j
      BY <1>2, <1>3, <1>6, <2>1, <2>2 DEF IsWatched
  <2>4. i < j
      BY <1>2, <2>3
  <2> QED BY <2>1, <2>2, <2>4 DEF Promise!Before
<1> QED BY <1>5, <1>6

(* The same of the list after a step. *)
LEMMA AfterStep ==
    /\ ManagerTypeOK' => (ForwardList \in NewestFirst)'
    /\ (ManagerTypeOK /\ Distinct(watched))' =>
           (\A one, other \in NewestFirst : one = other)'
    /\ ManagerTypeOK' =>
           (/\ ForwardList \in Seq(Paths)
            /\ \A p \in Paths : Promise!Occurs(p, ForwardList) <=> IsWatched(p))'
    /\ (ManagerTypeOK /\ Distinct(watched))' =>
           (\A p, q \in Paths :
               Promise!Before(ForwardList, p, q) <=>
                 IsWatched(p) /\ IsWatched(q) /\ watched[p] > watched[q])'
    BY ForwardedIsSorted, SortIsUnique, ForwardedList, ForwardedOrder, PTL

-----------------------------------------------------------------------------
(* A socket that joins with the latest stamp is pushed in front of the list. *)
LEMMA AddIsPush ==
    ASSUME ManagerTypeOK, ManagerTypeOK', ClockServes, NEW new \in Paths, AddWatched(new)
    PROVE  Promise!Push(new)
<1> DEFINE size == Cardinality(DOMAIN watched)
           list == <<new>> \o ForwardList
<1>1. PICK t \in Now :
          watched' = [q \in DOMAIN watched \cup {new} |-> IF q = new THEN t ELSE watched[q]]
    BY DEF AddWatched
<1>2. /\ new \notin DOMAIN watched
      /\ DOMAIN watched' = DOMAIN watched \cup {new}
      /\ \A q \in DOMAIN watched : watched'[q] = watched[q]
      /\ \A q \in DOMAIN watched : watched'[new] > watched[q]
    BY <1>1 DEF AddWatched, IsWatched, ClockServes
<1>3. ForwardList \in NewestFirst
    BY ForwardedIsSorted
<1>4. /\ IsFiniteSet(DOMAIN watched) /\ size \in Nat
      /\ ForwardList \in Seq(DOMAIN watched) /\ DOMAIN ForwardList = 1 .. size
      /\ \A i, j \in DOMAIN ForwardList : ForwardList[i] = ForwardList[j] => i = j
      /\ \A i, j \in DOMAIN ForwardList : i < j => watched[ForwardList[i]] >= watched[ForwardList[j]]
    BY <1>3, SortedList
<1>5. Cardinality(DOMAIN watched') = size + 1
    BY <1>2, <1>4, FS_AddElement
<1>6. /\ list \in [1 .. (size + 1) -> DOMAIN watched']
      /\ list[1] = new
      /\ \A i \in 1 .. (size + 1) : i # 1 =>
           /\ i - 1 \in 1 .. size
           /\ list[i] = ForwardList[i - 1]
  <2>1. Len(ForwardList) = size
      BY <1>4
  <2>2. /\ list \in Seq(DOMAIN watched') /\ Len(list) = size + 1
        /\ list[1] = new
        /\ \A i \in 1 .. (size + 1) : i # 1 => list[i] = ForwardList[i - 1]
    <3>1. ForwardList \in Seq(DOMAIN watched') /\ <<new>> \in Seq(DOMAIN watched')
        BY <1>2, <1>4
    <3>2. Len(<<new>>) = 1 /\ <<new>>[1] = new
        OBVIOUS
    <3>3. /\ list \in Seq(DOMAIN watched')
          /\ Len(list) = Len(<<new>>) + Len(ForwardList)
          /\ \A i \in 1 .. Len(<<new>>) + Len(ForwardList) :
               list[i] = IF i <= Len(<<new>>) THEN <<new>>[i] ELSE ForwardList[i - Len(<<new>>)]
        BY <3>1, ConcatProperties, Zenon
    <3>4. size \in Nat
        BY <1>4
    <3> HIDE DEF list, size
    <3>5. /\ Len(list) = size + 1
          /\ \A i \in 1 .. (size + 1) :
               list[i] = IF i <= 1 THEN <<new>>[i] ELSE ForwardList[i - 1]
        BY <2>1, <3>2, <3>3, <3>4
    <3>6. list[1] = new
        BY <3>2, <3>4, <3>5
    <3>7. ASSUME NEW i \in 1 .. (size + 1), i # 1 PROVE list[i] = ForwardList[i - 1]
        BY <3>4, <3>5, <3>7
    <3> QED BY <3>3, <3>5, <3>6, <3>7
  <2>3. size \in Nat
      BY <1>4
  <2> HIDE DEF list, size
  <2>4. list \in [1 .. (size + 1) -> DOMAIN watched']
      BY <2>2, <2>3
  <2>5. \A i \in 1 .. (size + 1) : i # 1 => i - 1 \in 1 .. size
      BY <2>3
  <2> QED BY <2>2, <2>4, <2>5
<1>7. \A i \in 1 .. size : ForwardList[i] \in DOMAIN watched /\ ForwardList[i] # new
    BY <1>2, <1>4
<1>8. list \in SetToSeqs(DOMAIN watched')
  <2> SUFFICES ASSUME NEW i \in 1 .. (size + 1), NEW j \in 1 .. (size + 1), i # j
               PROVE  list[i] # list[j]
      BY <1>5, <1>6 DEF SetToSeqs
  <2>1. size \in Nat
      BY <1>4
  <2>2. \A k \in 1 .. (size + 1) : k # 1 => k - 1 \in 1 .. size /\ list[k] = ForwardList[k - 1]
      BY <1>6
  <2>3. \A k, l \in 1 .. size : ForwardList[k] = ForwardList[l] => k = l
      BY <1>4
  <2>4. list[1] = new
      BY <1>6
  <2> HIDE DEF list, size
  <2>5. CASE i = 1 \/ j = 1
      BY <1>7, <2>1, <2>2, <2>4, <2>5
  <2>6. CASE i # 1 /\ j # 1
    <3>1. i - 1 # j - 1
        BY <2>1
    <3> QED BY <2>2, <2>3, <2>6, <3>1
  <2> QED BY <2>5, <2>6
<1>9. ASSUME NEW i \in 1 .. (size + 1), NEW j \in 1 .. (size + 1), i < j
      PROVE  watched'[list[i]] >= watched'[list[j]]
  <2>1. j # 1
      BY <1>4, <1>9
  <2>2. j - 1 \in 1 .. size /\ list[j] = ForwardList[j - 1]
      BY <1>6, <2>1
  <2>3. \A q \in DOMAIN watched : watched[q] \in Nat
      BY DEF ManagerTypeOK, Stamps
  <2>4. watched'[new] \in Nat
      BY <1>2 DEF ManagerTypeOK, Stamps
  <2>5. CASE i = 1
    <3> DEFINE q == ForwardList[j - 1]
    <3>1. q \in DOMAIN watched
        BY <1>7, <2>2
    <3>2. watched'[new] > watched[q] /\ watched'[q] = watched[q] /\ watched[q] \in Nat
        BY <1>2, <2>3, <3>1
    <3>3. list[i] = new /\ list[j] = q
        BY <1>6, <2>2, <2>5
    <3> HIDE DEF q, list
    <3> QED BY <2>4, <3>2, <3>3
  <2>6. CASE i # 1
    <3>1. i - 1 \in 1 .. size /\ list[i] = ForwardList[i - 1]
        BY <1>6, <2>6
    <3>2. i - 1 < j - 1
        BY <1>4, <1>9
    <3>3. watched[ForwardList[i - 1]] >= watched[ForwardList[j - 1]]
        BY <1>4, <2>2, <3>1, <3>2
    <3> QED BY <1>2, <1>7, <2>2, <3>1, <3>3
  <2> QED BY <2>5, <2>6
<1>10. list \in NewestFirst'
  <2> HIDE DEF list
  <2>1. DOMAIN list = 1 .. (size + 1)
      BY <1>6
  <2> QED BY <1>8, <1>9, <2>1 DEF NewestFirst
<1>11. ForwardList' = list
  <2>1. ForwardList' \in NewestFirst'
      BY AfterStep
  <2>2. Distinct(watched')
      BY DEF ClockServes
  <2> QED BY <1>10, <2>1, <2>2, AfterStep
<1>12. ~ Promise!Occurs(new, ForwardList)
    BY <1>2, ForwardedList DEF IsWatched
<1> QED BY <1>11, <1>12 DEF Promise!Push, AddWatched

(* Sockets that leave are dropped from the list and reorder nobody. *)
LEMMA LeaveIsDrop ==
    ASSUME ManagerTypeOK, ManagerTypeOK', ClockServes, NEW gone \in SUBSET Paths,
           watched' = Restrict(watched, DOMAIN watched \ gone), UNCHANGED configured
    PROVE  Promise!Drop(gone)
<1>1. /\ DOMAIN watched' = DOMAIN watched \ gone
      /\ \A p \in DOMAIN watched' : watched'[p] = watched[p]
    BY DEF Restrict
<1>2. Distinct(watched) /\ Distinct(watched')
    BY DEF ClockServes
<1>3. /\ ForwardList' \in Seq(Paths)
      /\ \A p \in Paths : Promise!Occurs(p, ForwardList') <=> p \in DOMAIN watched'
    BY AfterStep DEF IsWatched
<1>4. \A p \in Paths : Promise!Occurs(p, ForwardList) <=> p \in DOMAIN watched
    BY ForwardedList DEF IsWatched
<1>5. \A p, q \in Paths :
          Promise!Before(ForwardList', p, q) <=>
            p \in DOMAIN watched' /\ q \in DOMAIN watched' /\ watched'[p] > watched'[q]
    BY <1>2, AfterStep DEF IsWatched
<1>6. \A p, q \in Paths :
          Promise!Before(ForwardList, p, q) <=>
            p \in DOMAIN watched /\ q \in DOMAIN watched /\ watched[p] > watched[q]
    BY <1>2, ForwardedOrder DEF IsWatched
<1>7. \A p, q \in Paths : Promise!Before(ForwardList', p, q) => Promise!Before(ForwardList, p, q)
    BY <1>1, <1>5, <1>6
<1>8. \A p \in Paths :
          Promise!Occurs(p, ForwardList') <=> Promise!Occurs(p, ForwardList) /\ p \notin gone
    BY <1>1, <1>3, <1>4
<1> QED BY <1>3, <1>7, <1>8 DEF Promise!Drop

(* What leaves the watched map alone leaves the forwarded list alone. *)
LEMMA ForwardedKept == UNCHANGED watched => UNCHANGED ForwardList
<1> SUFFICES ASSUME UNCHANGED watched PROVE UNCHANGED ForwardList
    OBVIOUS
<1>1. NewestFirst' = NewestFirst
    BY DEF NewestFirst
<1> QED BY <1>1 DEF ForwardList

-----------------------------------------------------------------------------
(* At the start no agent is forwarded. *)
LEMMA InitKeepsPromise == ManagerInit => Promise!Init
<1> SUFFICES ASSUME ManagerInit PROVE Promise!Init
    OBVIOUS
<1>1. ManagerTypeOK
    BY ManagerInitType
<1>2. DOMAIN watched = {}
    BY DEF ManagerInit
<1>3. ForwardList \in NewestFirst
    BY <1>1, ForwardedIsSorted
<1>4. /\ ForwardList \in Seq(DOMAIN watched)
      /\ DOMAIN ForwardList = 1 .. Cardinality(DOMAIN watched)
    BY <1>1, <1>3, SortedList
<1>5. DOMAIN ForwardList = {}
    BY <1>2, <1>4, FS_EmptySet
<1>6. ForwardList = << >>
    BY <1>4, <1>5
<1>7. configured \in Seq(Paths)
    BY <1>1, ManagerAssumption DEF ManagerTypeOK, ManagerAssumption
<1> QED BY <1>6, <1>7 DEF Promise!Init

(* Every step of the manager that its clock serves is a step of the priority *)
(* list, or leaves the list as it is.                                        *)
LEMMA StepKeepsPromise ==
    ASSUME ManagerTypeOK, ManagerTypeOK', ClockServes, [ManagerNext]_managerVars
    PROVE  Promise!Next \/ UNCHANGED Promise!vars
<1>1. ASSUME NEW p \in Paths, AddWatched(p) PROVE Promise!Next
    BY <1>1, AddIsPush DEF Promise!Next
<1>2. ASSUME NEW p \in Paths, RemoveWatched(p) PROVE Promise!Next
    BY <1>2, LeaveIsDrop DEF RemoveWatched, Promise!Next
<1>3. CASE ValidateAndCleanup
  <2>1. DOMAIN watched \cap onDisk = DOMAIN watched \ (Paths \ onDisk)
      BY DEF ManagerTypeOK
  <2> QED BY <1>3, <2>1, LeaveIsDrop DEF ValidateAndCleanup, Promise!Next
<1>4. ASSUME NEW list \in Configs, UpdateConfigured(list) PROVE Promise!Next
  <2>1. configured' \in Seq(Paths)
      BY ManagerAssumption DEF ManagerTypeOK, ManagerAssumption
  <2> QED BY <1>4, <2>1, ForwardedKept DEF UpdateConfigured, Promise!Relist, Promise!Next
<1>5. CASE \/ \E p \in Paths : SocketFileAppears(p)
           \/ \E p \in Paths : SocketFileVanishes(p)
           \/ UNCHANGED managerVars
    BY <1>5, ForwardedKept
       DEF SocketFileAppears, SocketFileVanishes, managerState, managerVars, Promise!vars
<1> QED BY <1>1, <1>2, <1>3, <1>4, <1>5 DEF ManagerNext

(* The manager implements the priority list: whatever the mix of additions,  *)
(* removals, cleanups and reloads, a step that the clock serves puts the     *)
(* newest forwarded agent in front, drops who left, and reorders nobody      *)
(* (get_ordered_sockets).                                                    *)
THEOREM PriorityIsKept == ManagerSpec => KeepsPriority
<1>1. ManagerTypeOK /\ ManagerTypeOK' /\ [ManagerNext]_managerVars
          => [ClockServes => Promise!Next]_(Promise!vars)
    BY StepKeepsPromise
<1> QED BY <1>1, InitKeepsPromise, ManagerTypes, PTL DEF ManagerSpec, KeepsPriority
=============================================================================
