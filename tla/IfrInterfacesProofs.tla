------------------------- MODULE IfrInterfacesProofs -------------------------
(***************************************************************************)
(* IfrInterfaces, for any numbers of interfaces, names and members: no     *)
(* interface inherits from one that is not there, and what the checks of   *)
(* names guarantee at the moment they are made.                            *)
(***************************************************************************)
EXTENDS IfrInterfaces, FiniteSetTheorems, SequenceTheorems, WellFoundedInduction, TLAPS

\* What BasesExist needs to be inductive: an interface that is not there has no
\* bases either, which is what makes its creation start from nothing.
BInv ==
    /\ interfaces \subseteq Interfaces
    /\ DOMAIN bases = Interfaces
    /\ \A i \in Interfaces : Range(bases[i]) \subseteq interfaces
    /\ \A i \in Interfaces \ interfaces : bases[i] = <<>>

\* The interfaces that are there are closed under going to a base, so what one
\* of them inherits from, at any distance, is among them.
LEMMA AncestorsExist ==
    ASSUME interfaces \subseteq Interfaces,
           \A i \in Interfaces : Range(bases[i]) \subseteq interfaces,
           NEW i \in interfaces
    PROVE  Ancestors(i) \subseteq interfaces
<1>1. Range(bases[i]) \subseteq interfaces /\ interfaces \in SUBSET Interfaces
  OBVIOUS
<1>2. \A x \in interfaces : Range(bases[x]) \subseteq interfaces
  OBVIOUS
<1> QED
  BY <1>1, <1>2 DEF Ancestors, Through

\* Storing a list of bases that exist keeps the invariant.
LEMMA StoreStep ==
    ASSUME BInv, NEW i \in Interfaces, NEW v, StoreBases(i, v),
           Range(v) \subseteq interfaces, interfaces \subseteq interfaces',
           interfaces' \subseteq Interfaces, i \in interfaces'
    PROVE  BInv'
<1>1. bases'[i] = v /\ \A j \in Interfaces \ {i} : bases'[j] = bases[j]
  BY DEF BInv, StoreBases
<1>2. DOMAIN bases' = Interfaces
  BY DEF BInv, StoreBases
<1>3. \A j \in Interfaces : Range(bases'[j]) \subseteq interfaces'
  BY <1>1 DEF BInv
<1> QED
  BY <1>1, <1>2, <1>3 DEF BInv

\* destroy() lets an interface go only when no other one names it as a base.
LEMMA DestroyInterfaceStep ==
    ASSUME BInv, NEW i \in Interfaces, DestroyInterface(i)
    PROVE  BInv'
<1> USE DEF BInv, DestroyInterface, StoreBases
<1>1. bases'[i] = <<>> /\ \A j \in Interfaces \ {i} : bases'[j] = bases[j]
  OBVIOUS
<1>2. Range(bases'[i]) = {}
  BY <1>1 DEF Range
<1>3. ASSUME NEW j \in Interfaces \ {i} PROVE Range(bases'[j]) \subseteq interfaces'
  <2>1. CASE j \in interfaces
    BY <1>1, <2>1 DEF Unused
  <2>2. CASE j \notin interfaces
    BY <1>1, <2>2 DEF Range
  <2> QED
    BY <2>1, <2>2
<1> QED
  BY <1>1, <1>2, <1>3

\* Every step keeps the invariant.
LEMMA BInvStep == BInv /\ [Next]_vars => BInv'
<1> SUFFICES ASSUME BInv, [Next]_vars PROVE BInv'
  OBVIOUS
<1>1. ASSUME NEW i \in Interfaces, NEW n \in InterfaceNames, NEW v \in BaseLists,
             CreateInterface(i, n, v)
      PROVE BInv'
  BY <1>1, StoreStep DEF CreateInterface, BasesAccepted, BInv
<1>2. ASSUME NEW i \in Interfaces, NEW v \in BaseLists, SetBases(i, v)
      PROVE BInv'
  BY <1>2, StoreStep DEF SetBases, BasesAccepted, BInv
<1>3. ASSUME NEW i \in Interfaces, DestroyInterface(i) PROVE BInv'
  BY <1>3, DestroyInterfaceStep
<1>4. ASSUME UNCHANGED <<interfaces, bases>> PROVE BInv'
  BY <1>4 DEF BInv
<1> QED
  BY <1>1, <1>2, <1>3, <1>4
     DEF Next, vars, CreateMember, RenameMember, MoveMember, DestroyMember,
         RenameInterface, ReadDies

\* Whatever bases are set, in loops too, and whatever is destroyed: the bases of
\* an interface, and theirs, are there (InterfaceDef.cc:48-111).
THEOREM InheritedExists == Spec => []BasesExist
<1>1. Init => BInv
  BY DEF Init, BInv, Range
<1>2. BInv => BasesExist
  BY AncestorsExist DEF BInv, BasesExist
<1> QED
  BY <1>1, <1>2, BInvStep, PTL DEF Spec

-----------------------------------------------------------------------------
(* Numbers, and functions on them that are defined step by step.           *)

\* Any numbers that there are have a least one.
LEMMA Least ==
    ASSUME NEW T \in SUBSET Nat, T # {}
    PROVE  \E m \in T : \A k \in T : m <= k
<1> DEFINE less == {p \in Nat \X Nat : p[1] < p[2]}
<1>1. IsWellFoundedOn(less, Nat)
  BY NatLessThanWellFounded DEF OpToRel
<1>2. PICK m \in T : \A k \in T : <<k, m>> \notin less
  <2> HIDE DEF less
  <2> QED
    BY <1>1, WFMin
<1>3. ASSUME NEW k \in T PROVE m <= k
  <2>1. <<k, m>> \notin less /\ k \in Nat /\ m \in Nat
    BY <1>2
  <2> QED
    BY <2>1
<1> QED
  BY <1>3

\* Numbers that hold 0 and the successor of each one are all numbers.
LEMMA AllNumbers ==
    ASSUME NEW T \in SUBSET Nat, 0 \in T, \A k \in T : k + 1 \in T
    PROVE  T = Nat
<1> SUFFICES ASSUME Nat \ T # {} PROVE FALSE
  OBVIOUS
<1>1. PICK m \in Nat \ T : \A k \in Nat \ T : m <= k
  BY Least
<1>2. m - 1 \in Nat /\ m - 1 \notin Nat \ T
  BY <1>1
<1>3. (m - 1) + 1 \in T
  BY <1>2
<1> QED
  BY <1>1, <1>3

\* The first n steps of a sequence that starts with start and goes on by step.
Prefix(g, start, step, n) ==
    g = [k \in 0..n |-> IF k = 0 THEN start ELSE step[g[k - 1]]]

LEMMA PrefixUnique ==
    ASSUME NEW start, NEW step, NEW n \in Nat, NEW m \in Nat, NEW g, NEW h,
           Prefix(g, start, step, n), Prefix(h, start, step, m)
    PROVE  \A k \in Nat : k <= n /\ k <= m => g[k] = h[k]
<1> DEFINE T == {k \in Nat : k <= n /\ k <= m => g[k] = h[k]}
<1>1. 0 \in T
  BY DEF Prefix
<1>2. ASSUME NEW k \in T PROVE k + 1 \in T
  <2> SUFFICES ASSUME k + 1 <= n, k + 1 <= m PROVE g[k + 1] = h[k + 1]
    OBVIOUS
  <2>1. g[k] = h[k] /\ k + 1 \in 0..n /\ k + 1 \in 0..m /\ k + 1 # 0 /\ (k + 1) - 1 = k
    OBVIOUS
  <2>2. g[k + 1] = step[g[k]] /\ h[k + 1] = step[h[k]]
    BY <2>1 DEF Prefix
  <2> QED
    BY <2>1, <2>2
<1> HIDE DEF T
<1>3. T = Nat
  <2>1. T \in SUBSET Nat
    BY DEF T
  <2> QED
    BY <1>1, <1>2, <2>1, AllNumbers
<1> QED
  BY <1>3 DEF T

LEMMA PrefixExists ==
    ASSUME NEW start, NEW step, NEW n \in Nat
    PROVE  \E g : Prefix(g, start, step, n)
<1> DEFINE T == {k \in Nat : \E g : Prefix(g, start, step, k)}
<1>1. 0 \in T
  <2>1. Prefix([k \in 0..0 |-> start], start, step, 0)
    BY DEF Prefix
  <2> QED
    BY <2>1
<1>2. ASSUME NEW k \in T PROVE k + 1 \in T
  <2>1. PICK g : Prefix(g, start, step, k)
    OBVIOUS
  <2> DEFINE h == [j \in 0..(k + 1) |-> IF j = k + 1 THEN step[g[k]] ELSE g[j]]
  <2>2. ASSUME NEW j \in 0..(k + 1)
        PROVE  h[j] = IF j = 0 THEN start ELSE step[h[j - 1]]
    <3>1. CASE j = k + 1
      <4>1. j # 0 /\ j - 1 = k /\ k \in 0..(k + 1) /\ k # k + 1
        BY <3>1
      <4> QED
        BY <3>1, <4>1
    <3>2. CASE j # k + 1
      <4>1. j \in 0..k /\ (j # 0 => j - 1 \in 0..(k + 1) /\ j - 1 # k + 1)
        BY <3>2
      <4>2. g[j] = IF j = 0 THEN start ELSE step[g[j - 1]]
        BY <2>1, <4>1 DEF Prefix
      <4> QED
        BY <3>2, <4>1, <4>2
    <3> QED
      BY <3>1, <3>2
  <2>3. h = [j \in 0..(k + 1) |-> h[j]]
    OBVIOUS
  <2> HIDE DEF h
  <2>4. Prefix(h, start, step, k + 1)
    BY <2>2, <2>3 DEF Prefix
  <2> QED
    BY <2>4
<1> HIDE DEF T
<1>3. T = Nat
  <2>1. T \in SUBSET Nat
    BY DEF T
  <2> QED
    BY <1>1, <1>2, <2>1, AllNumbers
<1> QED
  BY <1>3 DEF T

\* The whole sequence exists.
Iterate(f, start, step) ==
    f = [k \in Nat |-> IF k = 0 THEN start ELSE step[f[k - 1]]]

LEMMA Iterates ==
    ASSUME NEW start, NEW step
    PROVE  \E f : Iterate(f, start, step)
<1> DEFINE upto(n) == CHOOSE g : Prefix(g, start, step, n)
           f == [n \in Nat |-> upto(n)[n]]
<1>1. \A n \in Nat : Prefix(upto(n), start, step, n)
  BY PrefixExists
<1> HIDE DEF upto
<1>2. ASSUME NEW n \in Nat
      PROVE  f[n] = IF n = 0 THEN start ELSE step[f[n - 1]]
  <2>1. upto(n)[n] = IF n = 0 THEN start ELSE step[upto(n)[n - 1]]
    BY <1>1 DEF Prefix
  <2>2. ASSUME n # 0 PROVE upto(n)[n - 1] = upto(n - 1)[n - 1]
    <3>1. n - 1 \in Nat /\ n - 1 <= n
      BY <2>2
    <3> QED
      BY <1>1, <3>1, PrefixUnique
  <2>3. CASE n = 0
    BY <2>1, <2>3
  <2>4. CASE n # 0
    <3>1. n - 1 \in Nat
      BY <2>4
    <3> QED
      BY <2>1, <2>2, <2>4, <3>1
  <2> QED
    BY <2>3, <2>4
<1>3. f = [n \in Nat |-> f[n]]
  OBVIOUS
<1> HIDE DEF f
<1>4. f = [n \in Nat |-> IF n = 0 THEN start ELSE step[f[n - 1]]]
  BY <1>2, <1>3
<1> QED
  BY <1>4 DEF Iterate

-----------------------------------------------------------------------------
(* interfaceSet() looks at everything inherited, if names tell it apart.   *)

\* The states of its loop.
Walks == [todo : Seq(Interfaces), found : SUBSET Interfaces]

BasesTyped == bases \in [Interfaces -> BaseLists]

LEMMA BaseListsAreLists ==
    ASSUME NEW v \in BaseLists
    PROVE  v \in Seq(Interfaces) /\ Len(v) \in 0..MaxBases
<1>1. PICK k \in 0..MaxBases : v \in [1..k -> Interfaces]
  BY DEF BaseLists
<1>2. k \in Nat /\ Len(v) = k
  BY <1>1, InterfacesAssumption
<1> QED
  BY <1>1, <1>2

\* What there is before and after a base is looked at.
LEMMA VisitTyped ==
    ASSUME BasesTyped, NEW s \in Walks
    PROVE  /\ Visit(s) \in Walks
           /\ s.found \subseteq Visit(s).found
<1>1. CASE s.todo = <<>>
  BY <1>1 DEF Visit
<1>2. CASE s.todo # <<>>
  <2> DEFINE i == Head(s.todo)
  <2>1. s.todo \in Seq(Interfaces) /\ s.found \subseteq Interfaces
    BY DEF Walks
  <2>2. i \in Interfaces /\ Tail(s.todo) \in Seq(Interfaces)
    BY <1>2, <2>1
  <2>3. bases[i] \in Seq(Interfaces)
    BY <2>2, BaseListsAreLists DEF BasesTyped
  <2>4. bases[i] \o Tail(s.todo) \in Seq(Interfaces)
    BY <2>2, <2>3
  <2> QED
    BY <1>2, <2>1, <2>2, <2>4 DEF Visit, Walks
<1> QED
  BY <1>1, <1>2

\* The elements of a list are its first one and those of the rest.
LEMMA RangeHeadTail ==
    ASSUME NEW S, NEW q \in Seq(S), q # <<>>
    PROVE  Range(q) = {Head(q)} \cup Range(Tail(q))
<1>1. Len(q) \in Nat /\ Len(q) > 0 /\ DOMAIN q = 1..Len(q)
  BY EmptySeq
<1>2. Len(Tail(q)) = Len(q) - 1 /\ DOMAIN Tail(q) = 1..(Len(q) - 1)
  BY <1>1
<1>3. \A k \in 1..(Len(q) - 1) : Tail(q)[k] = q[k + 1]
  BY <1>1
<1>4. ASSUME NEW k \in 1..Len(q) PROVE q[k] \in {Head(q)} \cup Range(Tail(q))
  <2>1. CASE k = 1
    BY <2>1
  <2>2. CASE k # 1
    <3>1. k - 1 \in 1..(Len(q) - 1) /\ (k - 1) + 1 = k
      BY <1>1, <2>2
    <3>2. Tail(q)[k - 1] = q[k]
      BY <1>3, <3>1
    <3> QED
      BY <1>2, <3>1, <3>2 DEF Range
  <2> QED
    BY <2>1, <2>2
<1>5. Range(q) \subseteq {Head(q)} \cup Range(Tail(q))
  BY <1>1, <1>4 DEF Range
<1>6. Head(q) \in Range(q)
  BY <1>1 DEF Range
<1>7. ASSUME NEW k \in 1..(Len(q) - 1) PROVE Tail(q)[k] \in Range(q)
  <2>1. k + 1 \in 1..Len(q)
    BY <1>1
  <2> QED
    BY <1>1, <1>3, <2>1 DEF Range
<1>8. Range(Tail(q)) \subseteq Range(q)
  BY <1>2, <1>7 DEF Range
<1> QED
  BY <1>5, <1>6, <1>8

LEMMA RangeConcat ==
    ASSUME NEW S, NEW p \in Seq(S), NEW q \in Seq(S)
    PROVE  Range(p \o q) = Range(p) \cup Range(q)
<1>1. /\ Len(p) \in Nat /\ Len(q) \in Nat /\ p \o q \in Seq(S)
      /\ Len(p \o q) = Len(p) + Len(q)
  OBVIOUS
<1>2. \A k \in 1..(Len(p) + Len(q)) :
        (p \o q)[k] = IF k <= Len(p) THEN p[k] ELSE q[k - Len(p)]
  BY <1>1
<1>3. ASSUME NEW k \in 1..(Len(p) + Len(q)) PROVE (p \o q)[k] \in Range(p) \cup Range(q)
  <2>1. k <= Len(p) => k \in 1..Len(p)
    BY <1>1
  <2>2. ~ (k <= Len(p)) => k - Len(p) \in 1..Len(q)
    BY <1>1
  <2> QED
    BY <1>2, <2>1, <2>2 DEF Range
<1>4. ASSUME NEW k \in 1..Len(p) PROVE p[k] \in Range(p \o q)
  <2>1. k \in 1..(Len(p) + Len(q)) /\ k <= Len(p)
    BY <1>1
  <2>2. (p \o q)[k] = p[k]
    BY <1>2, <2>1
  <2> QED
    BY <1>1, <2>1, <2>2 DEF Range
<1>5. ASSUME NEW k \in 1..Len(q) PROVE q[k] \in Range(p \o q)
  <2>1. k + Len(p) \in 1..(Len(p) + Len(q)) /\ ~ (k + Len(p) <= Len(p))
        /\ (k + Len(p)) - Len(p) = k
    BY <1>1
  <2>2. (p \o q)[k + Len(p)] = q[k]
    BY <1>2, <2>1
  <2> QED
    BY <1>1, <2>1, <2>2 DEF Range
<1>6. Range(p \o q) \subseteq Range(p) \cup Range(q)
  BY <1>1, <1>3 DEF Range
<1> DEFINE r == p \o q
<1>7. /\ \A k \in 1..Len(p) : p[k] \in Range(r)
      /\ \A k \in 1..Len(q) : q[k] \in Range(r)
  BY <1>4, <1>5
<1>8. DOMAIN p = 1..Len(p) /\ DOMAIN q = 1..Len(q)
  OBVIOUS
<1>9. ASSUME NEW x \in Range(p) \cup Range(q) PROVE x \in Range(r)
  <2> HIDE DEF r
  <2>1. (\E k \in 1..Len(p) : x = p[k]) \/ (\E k \in 1..Len(q) : x = q[k])
    BY <1>8 DEF Range
  <2> QED
    BY <1>7, <2>1
<1> QED
  BY <1>6, <1>9

\* A base that has been looked at, or one with its simple name, was found.
Seen(s, x) == \E y \in s.found : name[y] = name[x]
Known(s, x) == x \in Range(s.todo) \/ Seen(s, x)

\* Nothing that has to be looked at is lost.
LEMMA VisitKnows ==
    ASSUME BasesTyped, NEW s \in Walks, NEW x \in Interfaces, Known(s, x)
    PROVE  Known(Visit(s), x)
<1>1. CASE s.todo = <<>>
  BY <1>1 DEF Visit
<1>2. CASE s.todo # <<>>
  <2> DEFINE i == Head(s.todo)
             t == Tail(s.todo)
  <2>1. s.todo \in Seq(Interfaces) /\ s.found \subseteq Interfaces
    BY DEF Walks
  <2>2. i \in Interfaces /\ t \in Seq(Interfaces) /\ Range(s.todo) = {i} \cup Range(t)
    BY <1>2, <2>1, RangeHeadTail
  <2> HIDE DEF i, t
  <2>3. bases[i] \in Seq(Interfaces)
    BY <2>2, BaseListsAreLists DEF BasesTyped
  <2>4. Range(bases[i] \o t) = Range(bases[i]) \cup Range(t)
    BY <2>2, <2>3, RangeConcat
  <2>5. CASE \E y \in s.found : name[y] = name[i]
    <3>1. Visit(s) = [todo |-> t, found |-> s.found]
      BY <1>2, <2>5 DEF Visit, i, t
    <3> QED
      BY <2>2, <2>5, <3>1 DEF Known, Seen
  <2>6. CASE ~ \E y \in s.found : name[y] = name[i]
    <3>1. Visit(s) = [todo |-> bases[i] \o t, found |-> s.found \cup {i}]
      BY <1>2, <2>6 DEF Visit, i, t
    <3> QED
      BY <2>2, <2>4, <3>1 DEF Known, Seen
  <2> QED
    BY <2>5, <2>6
<1> QED
  BY <1>1, <1>2

\* The bases of what is found now have to be looked at next.
LEMMA VisitAddsBases ==
    ASSUME BasesTyped, NEW s \in Walks, NEW z \in Visit(s).found \ s.found,
           NEW x \in Range(bases[z])
    PROVE  Known(Visit(s), x)
<1>1. s.todo # <<>>
  BY DEF Visit
<1> DEFINE i == Head(s.todo)
           t == Tail(s.todo)
<1>2. s.todo \in Seq(Interfaces)
  BY DEF Walks
<1>3. i \in Interfaces /\ t \in Seq(Interfaces)
  BY <1>1, <1>2
<1> HIDE DEF i, t
<1>4. bases[i] \in Seq(Interfaces)
  BY <1>3, BaseListsAreLists DEF BasesTyped
<1>5. Range(bases[i] \o t) = Range(bases[i]) \cup Range(t)
  BY <1>3, <1>4, RangeConcat
<1>6. z = i /\ Visit(s).todo = bases[i] \o t
  BY <1>1 DEF Visit, i, t
<1> QED
  BY <1>5, <1>6 DEF Known

\* What is found and what is still to look at stay among the interfaces of C, if
\* what is found of them has its bases in C.
Within(s, C) == s.found \subseteq C /\ Range(s.todo) \subseteq C

LEMMA VisitWithin ==
    ASSUME BasesTyped, NEW s \in Walks, NEW C, Within(s, C),
           \A x \in Visit(s).found : x \in C => Range(bases[x]) \subseteq C
    PROVE  Within(Visit(s), C)
<1>1. CASE s.todo = <<>>
  BY <1>1 DEF Visit
<1>2. CASE s.todo # <<>>
  <2> DEFINE i == Head(s.todo)
             t == Tail(s.todo)
  <2>1. s.todo \in Seq(Interfaces) /\ s.found \subseteq Interfaces
    BY DEF Walks
  <2>2. i \in Interfaces /\ t \in Seq(Interfaces) /\ Range(s.todo) = {i} \cup Range(t)
    BY <1>2, <2>1, RangeHeadTail
  <2> HIDE DEF i, t
  <2>3. bases[i] \in Seq(Interfaces)
    BY <2>2, BaseListsAreLists DEF BasesTyped
  <2>4. Range(bases[i] \o t) = Range(bases[i]) \cup Range(t)
    BY <2>2, <2>3, RangeConcat
  <2>5. CASE \E y \in s.found : name[y] = name[i]
    <3>1. Visit(s) = [todo |-> t, found |-> s.found]
      BY <1>2, <2>5 DEF Visit, i, t
    <3> QED
      BY <2>2, <3>1 DEF Within
  <2>6. CASE ~ \E y \in s.found : name[y] = name[i]
    <3>1. Visit(s) = [todo |-> bases[i] \o t, found |-> s.found \cup {i}]
      BY <1>2, <2>6 DEF Visit, i, t
    <3>2. i \in C /\ i \in Visit(s).found
      BY <2>2, <3>1 DEF Within
    <3> QED
      BY <2>2, <2>4, <3>1, <3>2 DEF Within
  <2> QED
    BY <2>5, <2>6
<1> QED
  BY <1>1, <1>2

\* How many bases are still to look at, at most.
Left(s) == Len(s.todo) + MaxBases * (Cardinality(Interfaces) - Cardinality(s.found))

LEMMA VisitLeft ==
    ASSUME BasesTyped, NEW s \in Walks, s.todo # <<>>
    PROVE  Left(Visit(s)) <= Left(s) - 1
<1> DEFINE i == Head(s.todo)
           t == Tail(s.todo)
           n == Cardinality(Interfaces)
           c == Cardinality(s.found)
<1>1. s.todo \in Seq(Interfaces) /\ s.found \in SUBSET Interfaces
  BY DEF Walks
<1>2. i \in Interfaces /\ t \in Seq(Interfaces) /\ Len(t) = Len(s.todo) - 1
      /\ Len(s.todo) \in Nat
  BY <1>1
<1>3. bases[i] \in Seq(Interfaces) /\ Len(bases[i]) \in 0..MaxBases
  BY <1>2, BaseListsAreLists DEF BasesTyped
<1>4. Len(bases[i] \o t) = Len(bases[i]) + Len(t)
  BY <1>2, <1>3
<1>5. IsFiniteSet(s.found) /\ n \in Nat /\ c \in Nat /\ MaxBases \in Nat
  BY <1>1, FS_Subset, FS_CardinalityType, InterfacesAssumption
<1>6. i \notin s.found => Cardinality(s.found \cup {i}) = c + 1
  BY <1>5, FS_AddElement
<1> HIDE DEF i, t, n, c
<1>7. CASE \E y \in s.found : name[y] = name[i]
  <2>1. Visit(s) = [todo |-> t, found |-> s.found]
    BY <1>7 DEF Visit, i, t
  <2> DEFINE m == MaxBases * (n - c)
  <2>2. m \in Int
    BY <1>5
  <2>3. Left(s) = Len(s.todo) + m /\ Left(Visit(s)) = Len(t) + m
    BY <2>1 DEF Left, n, c
  <2> HIDE DEF m
  <2> QED
    BY <1>2, <2>2, <2>3
<1>8. CASE ~ \E y \in s.found : name[y] = name[i]
  <2>1. Visit(s) = [todo |-> bases[i] \o t, found |-> s.found \cup {i}]
    BY <1>8 DEF Visit, i, t
  <2>2. i \notin s.found
    BY <1>8
  <2> DEFINE m == MaxBases * (n - c)
             l == MaxBases * (n - (c + 1))
  <2>3. m \in Int /\ l \in Int /\ m = l + MaxBases
    BY <1>5
  <2>4. Left(s) = Len(s.todo) + m
    BY DEF Left, n, c
  <2>5. Left(Visit(s)) = Len(bases[i]) + Len(t) + l
    BY <1>4, <1>6, <2>1, <2>2 DEF Left, n
  <2> HIDE DEF m, l
  <2>6. /\ Len(bases[i]) \in Nat /\ Len(bases[i]) <= MaxBases
        /\ Len(t) = Len(s.todo) - 1 /\ Len(s.todo) \in Nat
    BY <1>2, <1>3, <1>5
  <2>7. \A a, b \in Nat : b <= MaxBases =>
            b + (a - 1) + l <= (a + (l + MaxBases)) - 1
    BY <1>5, <2>3
  <2>8. /\ Left(Visit(s)) = Len(bases[i]) + (Len(s.todo) - 1) + l
        /\ Left(s) = Len(s.todo) + (l + MaxBases)
    BY <2>3, <2>4, <2>5, <2>6
  <2> QED
    BY <2>6, <2>7, <2>8
<1> QED
  BY <1>7, <1>8

\* w is the loop of interfaceSet(v), turn by turn.
Walk(w, v) ==
    /\ w[0] = [todo |-> v, found |-> {}]
    /\ \A k \in Nat : w[k + 1] = Visit(w[k])
    /\ \A k \in Nat : w[k] \in Walks
Turns == MaxBases * (Cardinality(Interfaces) + 1)

LEMMA WalkExists ==
    ASSUME BasesTyped, NEW v \in BaseLists
    PROVE  \E w : Walk(w, v) /\ InterfaceSet(v) = w[Turns].found
<1> DEFINE start == [todo |-> v, found |-> {}]
           step == [s \in Walks |-> Visit(s)]
           w == CHOOSE f : f = [k \in Nat |-> IF k = 0 THEN start ELSE Visit(f[k - 1])]
<1>1. start \in Walks
  <2>1. v \in Seq(Interfaces) /\ {} \in SUBSET Interfaces
    BY BaseListsAreLists
  <2> QED
    BY <2>1 DEF Walks
<1> HIDE DEF start, step
<1>2. PICK f : Iterate(f, start, step)
  BY Iterates
<1>3. \A k \in Nat : f[k] \in Walks
  <2> DEFINE T == {k \in Nat : f[k] \in Walks}
  <2>1. 0 \in T
    BY <1>1, <1>2 DEF Iterate
  <2>2. ASSUME NEW k \in T PROVE k + 1 \in T
    <3>1. f[k + 1] = step[f[k]]
      BY <1>2 DEF Iterate
    <3>2. step[f[k]] = Visit(f[k])
      BY DEF step
    <3> QED
      BY <3>1, <3>2, VisitTyped
  <2> HIDE DEF T
  <2>3. T = Nat
    <3>1. T \in SUBSET Nat
      BY DEF T
    <3> QED
      BY <2>1, <2>2, <3>1, AllNumbers
  <2> QED
    BY <2>3 DEF T
<1>4. f = [k \in Nat |-> IF k = 0 THEN start ELSE Visit(f[k - 1])]
  <2>1. ASSUME NEW k \in Nat PROVE f[k] = IF k = 0 THEN start ELSE Visit(f[k - 1])
    <3>1. k # 0 => k - 1 \in Nat
      OBVIOUS
    <3> QED
      BY <1>2, <1>3, <3>1 DEF Iterate, step
  <2>2. f = [k \in Nat |-> f[k]]
    BY <1>2 DEF Iterate
  <2> QED
    BY <2>1, <2>2
<1>5. w = [k \in Nat |-> IF k = 0 THEN start ELSE Visit(w[k - 1])]
  BY <1>4
<1>6. InterfaceSet(v) = w[Turns].found
  BY DEF InterfaceSet, Turns, start
<1> HIDE DEF w
<1>7. w[0] = start /\ \A k \in Nat : w[k + 1] = Visit(w[k])
  <2>1. \A k \in Nat : k + 1 \in Nat /\ k + 1 # 0 /\ (k + 1) - 1 = k
    OBVIOUS
  <2> QED
    BY <1>5, <2>1
<1>8. \A k \in Nat : w[k] \in Walks
  <2> DEFINE T == {k \in Nat : w[k] \in Walks}
  <2>1. 0 \in T
    BY <1>1, <1>7
  <2>2. ASSUME NEW k \in T PROVE k + 1 \in T
    BY <1>7, VisitTyped
  <2> HIDE DEF T
  <2>3. T = Nat
    <3>1. T \in SUBSET Nat
      BY DEF T
    <3> QED
      BY <2>1, <2>2, <3>1, AllNumbers
  <2> QED
    BY <2>3 DEF T
<1> QED
  BY <1>6, <1>7, <1>8 DEF Walk, start

\* After that many turns there is nothing left to look at.
LEMMA WalkEnds ==
    ASSUME BasesTyped, NEW v \in BaseLists, NEW w, Walk(w, v)
    PROVE  Turns \in Nat /\ w[Turns].todo = <<>>
<1> DEFINE n == Cardinality(Interfaces)
           T == {k \in Nat : w[k].todo = <<>> \/ Left(w[k]) + k <= Turns}
<1>1. n \in Nat /\ MaxBases \in Nat /\ MaxBases * n \in Nat
      /\ MaxBases * (n + 1) = MaxBases + MaxBases * n
  <2>1. n \in Nat /\ MaxBases \in Nat
    BY FS_CardinalityType, InterfacesAssumption
  <2> QED
    BY <2>1
<1>2. Turns \in Nat /\ Turns = MaxBases + MaxBases * n
  BY <1>1 DEF Turns
<1>3. 0 \in T
  <2>1. w[0].todo = v /\ w[0].found = {}
    BY DEF Walk
  <2>2. Len(v) \in Nat /\ Len(v) <= MaxBases
    BY BaseListsAreLists, <1>1
  <2>3. Left(w[0]) = Len(v) + MaxBases * n
    BY <1>1, <2>1, FS_EmptySet DEF Left
  <2> QED
    BY <1>1, <1>2, <2>2, <2>3
<1>4. ASSUME NEW k \in T PROVE k + 1 \in T
  <2>1. k \in Nat /\ w[k + 1] = Visit(w[k]) /\ w[k] \in Walks /\ w[k + 1] \in Walks
    BY DEF Walk
  <2>2. CASE w[k].todo = <<>>
    BY <2>1, <2>2 DEF Visit
  <2>3. CASE w[k].todo # <<>>
    <3>1. Left(w[k + 1]) <= Left(w[k]) - 1 /\ Left(w[k]) + k <= Turns
      BY <2>1, <2>3, VisitLeft
    <3>2. \A s \in Walks : Left(s) \in Int
      BY <1>1, FS_Subset, FS_CardinalityType, InterfacesAssumption DEF Left, Walks
    <3>3. Left(w[k + 1]) + (k + 1) <= Turns
      BY <1>2, <2>1, <3>1, <3>2
    <3> QED
      BY <2>1, <3>3
  <2> QED
    BY <2>2, <2>3
<1>5. Turns \in T
  <2>1. T \in SUBSET Nat
    OBVIOUS
  <2> HIDE DEF T
  <2> QED
    BY <1>2, <1>3, <1>4, <2>1, AllNumbers
<1>6. SUFFICES ASSUME Left(w[Turns]) + Turns <= Turns PROVE w[Turns].todo = <<>>
  BY <1>2, <1>5
<1> DEFINE s == w[Turns]
           c == Cardinality(s.found)
<1>7. s \in Walks
  BY <1>2 DEF Walk
<1> HIDE DEF s, n
<1>8. s.todo \in Seq(Interfaces) /\ Len(s.todo) \in Nat
  BY <1>7 DEF Walks
<1>9. c \in Nat /\ c <= n
  BY <1>7, FS_Subset, FS_CardinalityType, InterfacesAssumption DEF Walks, n
<1>10. MaxBases * (n - c) \in Nat
  <2>1. n - c \in Nat
    BY <1>1, <1>9 DEF n
  <2> HIDE DEF c
  <2> QED
    BY <1>1, <2>1
<1>11. Len(s.todo) + MaxBases * (n - c) <= 0
  <2>1. Left(s) + Turns <= Turns /\ Left(s) = Len(s.todo) + MaxBases * (n - c)
    BY <1>6 DEF s, Left, n
  <2> HIDE DEF c
  <2> QED
    BY <1>2, <1>8, <1>10, <2>1
<1>12. Len(s.todo) = 0
  BY <1>8, <1>10, <1>11
<1> QED
  BY <1>8, <1>12 DEF s

\* Only interfaces are found.
LEMMA InterfaceSetTyped ==
    ASSUME BasesTyped, NEW v \in BaseLists
    PROVE  InterfaceSet(v) \subseteq Interfaces
<1>1. PICK w : Walk(w, v) /\ InterfaceSet(v) = w[Turns].found
  BY WalkExists
<1>2. Turns \in Nat
  BY <1>1, WalkEnds
<1>3. w[Turns] \in Walks
  BY <1>1, <1>2 DEF Walk
<1> QED
  BY <1>1, <1>3 DEF Walks

\* Everything on the list, and every base of what is found, is found or has the
\* simple name of something found.
LEMMA AllSeen ==
    ASSUME BasesTyped, NEW v \in BaseLists, NEW w, Walk(w, v)
    PROVE  LET s == w[Turns]
           IN /\ \A x \in Range(v) : Seen(s, x)
              /\ \A z \in s.found : \A x \in Range(bases[z]) : Seen(s, x)
<1> DEFINE Sound(s) == /\ \A x \in Range(v) : Known(s, x)
                       /\ \A z \in s.found : \A x \in Range(bases[z]) : Known(s, x)
           T == {k \in Nat : Sound(w[k])}
<1>1. \A q \in Seq(Interfaces) : Range(q) \subseteq Interfaces
  BY DEF Range
<1>2. \A z \in Interfaces : Range(bases[z]) \subseteq Interfaces
  BY <1>1, BaseListsAreLists DEF BasesTyped
<1>3. Range(v) \subseteq Interfaces
  BY <1>1, BaseListsAreLists
<1>4. 0 \in T
  BY DEF Walk, Known
<1>5. ASSUME NEW k \in T PROVE k + 1 \in T
  <2>1. /\ w[k + 1] = Visit(w[k]) /\ w[k] \in Walks
        /\ w[k].found \subseteq Interfaces
    BY DEF Walk, Walks
  <2>2. Sound(w[k])
    OBVIOUS
  <2>3. \A x \in Range(v) : Known(w[k + 1], x)
    BY <1>3, <2>1, <2>2, VisitKnows
  <2>4. ASSUME NEW z \in w[k + 1].found, NEW x \in Range(bases[z])
        PROVE  Known(w[k + 1], x)
    <3>1. CASE z \in w[k].found
      BY <1>2, <2>1, <2>2, <3>1, VisitKnows
    <3>2. CASE z \notin w[k].found
      BY <2>1, <3>2, VisitAddsBases
    <3> QED
      BY <3>1, <3>2
  <2> QED
    BY <2>3, <2>4
<1> HIDE DEF T
<1>6. T = Nat
  <2>1. T \in SUBSET Nat
    BY DEF T
  <2> QED
    BY <1>4, <1>5, <2>1, AllNumbers
<1>7. Sound(w[Turns]) /\ w[Turns].todo = <<>>
  BY <1>6, WalkEnds DEF T
<1> QED
  BY <1>7 DEF Known, Range

\* If the interfaces of C are told apart by their names, hold the list and, of
\* those that are found, the bases, then just what can be reached is found: the
\* list, and the bases of what is found.
Closed(F, v) ==
    /\ Range(v) \subseteq F
    /\ \A z \in F : Range(bases[z]) \subseteq F

LEMMA FoundAll ==
    ASSUME BasesTyped, NEW v \in BaseLists, NEW C, Range(v) \subseteq C, ToldApart(C),
           \A x \in InterfaceSet(v) : x \in C => Range(bases[x]) \subseteq C
    PROVE  /\ InterfaceSet(v) \subseteq Interfaces
           /\ Closed(InterfaceSet(v), v)
<1>1. PICK w : Walk(w, v) /\ InterfaceSet(v) = w[Turns].found
  BY WalkExists
<1> DEFINE F == InterfaceSet(v)
           T == {k \in Nat : k <= Turns => w[Turns - k].found \subseteq F}
           W == {k \in Nat : k <= Turns => Within(w[k], C)}
<1>2. Turns \in Nat
  BY <1>1, WalkEnds
<1> HIDE DEF F
<1>3. T = Nat
  <2>1. 0 \in T
    BY <1>1, <1>2 DEF F
  <2>2. ASSUME NEW k \in T PROVE k + 1 \in T
    <3> SUFFICES ASSUME k + 1 <= Turns PROVE w[Turns - (k + 1)].found \subseteq F
      OBVIOUS
    <3>1. Turns - (k + 1) \in Nat /\ (Turns - (k + 1)) + 1 = Turns - k /\ k <= Turns
      BY <1>2
    <3>2. w[Turns - k] = Visit(w[Turns - (k + 1)]) /\ w[Turns - (k + 1)] \in Walks
      BY <1>1, <3>1 DEF Walk
    <3>3. w[Turns - (k + 1)].found \subseteq w[Turns - k].found
      BY <3>2, VisitTyped
    <3> QED
      BY <3>1, <3>3
  <2> HIDE DEF T
  <2>3. T \in SUBSET Nat
    BY DEF T
  <2> QED
    BY <2>1, <2>2, <2>3, AllNumbers
<1>4. \A k \in Nat : k <= Turns => w[k].found \subseteq F
  <2> SUFFICES ASSUME NEW k \in Nat, k <= Turns PROVE w[k].found \subseteq F
    OBVIOUS
  <2>1. Turns - k \in Nat /\ Turns - (Turns - k) = k /\ Turns - k <= Turns
    BY <1>2
  <2>2. Turns - k \in T
    BY <1>3, <2>1
  <2> QED
    BY <2>1, <2>2
<1>5. W = Nat
  <2>1. 0 \in W
    BY <1>1 DEF Walk, Within
  <2>2. ASSUME NEW k \in W PROVE k + 1 \in W
    <3> SUFFICES ASSUME k + 1 <= Turns PROVE Within(w[k + 1], C)
      OBVIOUS
    <3>1. w[k + 1] = Visit(w[k]) /\ w[k] \in Walks /\ Within(w[k], C)
      BY <1>1, <1>2 DEF Walk
    <3>2. w[k + 1].found \subseteq F
      BY <1>4
    <3>3. \A x \in F : x \in C => Range(bases[x]) \subseteq C
      BY DEF F
    <3> QED
      BY <3>1, <3>2, <3>3, VisitWithin
  <2> HIDE DEF W
  <2>3. W \in SUBSET Nat
    BY DEF W
  <2> QED
    BY <2>1, <2>2, <2>3, AllNumbers
<1>6. F \subseteq C
  BY <1>1, <1>2, <1>5 DEF F, Within
<1>7. w[Turns].found = F /\ w[Turns] \in Walks
  BY <1>1, <1>2 DEF F, Walk
<1>8. F \subseteq Interfaces
  BY <1>7 DEF Walks
<1>9. /\ \A x \in Range(v) : \E y \in F : name[y] = name[x]
      /\ \A z \in F : \A x \in Range(bases[z]) : \E y \in F : name[y] = name[x]
  BY <1>1, <1>7, AllSeen DEF Seen
<1>10. \A x \in C, y \in F : name[y] = name[x] => x = y
  BY <1>6 DEF ToldApart
<1>11. \A z \in F : Range(bases[z]) \subseteq C
  BY <1>6 DEF F
<1>12. Closed(F, v)
  BY <1>9, <1>10, <1>11 DEF Closed
<1> QED
  BY <1>8, <1>12 DEF F

-----------------------------------------------------------------------------
(* set_intersection() finds a common name, if all names have one case.     *)

Names(s) == s.a \cup s.b
OneCase(N) == \A n, o \in N : n[2] = o[2]

\* Some name comes first.
LEMMA FirstExists ==
    ASSUME NEW N \in SUBSET Identifiers, N # {}
    PROVE  First(N) \in N /\ \A o \in N : Letter(First(N)) <= Letter(o)
<1>1. \A o \in N : Letter(o) \in Nat
  BY InterfacesAssumption DEF Letter
<1> DEFINE L == {Letter(o) : o \in N}
<1>2. L \in SUBSET Nat /\ L # {}
  BY <1>1
<1>3. PICK l \in L : \A k \in L : l <= k
  BY <1>2, Least
<1>4. \E n \in N : \A o \in N : Letter(n) <= Letter(o)
  BY <1>3
<1> QED
  BY <1>4 DEF First

\* A name is its letter and its case, and so is its place in the order.
LEMMA CodesDiffer ==
    ASSUME NEW x \in Identifiers, NEW y \in Identifiers, x[2] = y[2]
    PROVE  /\ Code(x) \in Int /\ Code(y) \in Int
           /\ Letter(x) \in Int /\ Letter(y) \in Int
           /\ Code(x) <= Code(y) <=> Letter(x) <= Letter(y)
           /\ Code(x) = Code(y) <=> x = y
<1>1. /\ x \in (1..26) \X {"upper", "lower"}
      /\ y \in (1..26) \X {"upper", "lower"}
  BY InterfacesAssumption
<1>2. x = <<x[1], x[2]>> /\ y = <<y[1], y[2]>> /\ x[1] \in Int /\ y[1] \in Int
  BY <1>1
<1>3. x[1] = y[1] <=> x = y
  BY <1>2
<1> QED
  BY <1>2, <1>3 DEF Code, Letter

\* One turn of the merge keeps a common name until both sets come to it.
Meets(s, n) == n \in s.both \/ (n \in s.a /\ n \in s.b)
Merges == [a : SUBSET Identifiers, b : SUBSET Identifiers, both : SUBSET Identifiers]

LEMMA MergeStep ==
    ASSUME NEW s \in Merges, OneCase(Names(s))
    PROVE  /\ Merge(s) \in Merges
           /\ Merge(s).a \subseteq s.a /\ Merge(s).b \subseteq s.b
           /\ s.both \subseteq Merge(s).both
           /\ \A n \in Identifiers : Meets(s, n) => Meets(Merge(s), n)
           /\ s.a # {} /\ s.b # {} => Merge(s).a # s.a \/ Merge(s).b # s.b
<1>1. CASE s.a = {} \/ s.b = {}
  BY <1>1 DEF Merge
<1>2. CASE s.a # {} /\ s.b # {}
  <2> DEFINE x == First(s.a)
             y == First(s.b)
  <2>1. s.a \in SUBSET Identifiers /\ s.b \in SUBSET Identifiers /\ s.both \in SUBSET Identifiers
    BY DEF Merges
  <2>2. /\ x \in s.a /\ \A o \in s.a : Letter(x) <= Letter(o)
        /\ y \in s.b /\ \A o \in s.b : Letter(y) <= Letter(o)
    BY <1>2, <2>1, FirstExists
  <2> HIDE DEF x, y
  <2>3. Merge(s) = [a |-> IF Code(x) <= Code(y) THEN s.a \ {x} ELSE s.a,
                    b |-> IF Code(y) <= Code(x) THEN s.b \ {y} ELSE s.b,
                    both |-> IF Code(x) = Code(y) THEN s.both \cup {x} ELSE s.both]
    BY <1>2 DEF Merge, x, y
  <2>4. x[2] = y[2]
    BY <2>2 DEF OneCase, Names
  <2>5. /\ Code(x) \in Int /\ Code(y) \in Int /\ Letter(x) \in Int /\ Letter(y) \in Int
        /\ Code(x) <= Code(y) <=> Letter(x) <= Letter(y)
        /\ Code(y) <= Code(x) <=> Letter(y) <= Letter(x)
        /\ Code(x) = Code(y) <=> x = y
    BY <2>1, <2>2, <2>4, CodesDiffer
  <2>6. Merge(s) \in Merges
    BY <2>1, <2>2, <2>3 DEF Merges
  <2>7. Merge(s).a # s.a \/ Merge(s).b # s.b
    BY <2>2, <2>3, <2>5
  <2>8. ASSUME NEW n \in Identifiers, Meets(s, n) PROVE Meets(Merge(s), n)
    <3>1. CASE x = y
      BY <2>3, <2>5, <2>8, <3>1 DEF Meets
    <3>2. CASE x # y
      <4>1. ASSUME n \in s.a, n \in s.b PROVE n \in Merge(s).a /\ n \in Merge(s).b
        <5>1. n = x => Letter(y) <= Letter(x)
          BY <2>2, <4>1
        <5>2. n = y => Letter(x) <= Letter(y)
          BY <2>2, <4>1
        <5>3. ~ (Code(x) <= Code(y) /\ Code(y) <= Code(x))
          BY <2>5, <3>2
        <5> QED
          BY <2>3, <2>5, <4>1, <5>1, <5>2, <5>3
      <4>2. s.both \subseteq Merge(s).both
        BY <2>3
      <4> QED
        BY <2>8, <4>1, <4>2 DEF Meets
    <3> QED
      BY <3>1, <3>2
  <2>9. /\ Merge(s).a \subseteq s.a /\ Merge(s).b \subseteq s.b
        /\ s.both \subseteq Merge(s).both
    BY <2>3
  <2> QED
    BY <2>6, <2>7, <2>8, <2>9
<1> QED
  BY <1>1, <1>2

\* There are finitely many names.
LEMMA IdentifiersFinite == IsFiniteSet(Identifiers)
<1>1. IsFiniteSet(1..26)
  <2>1. \A a, b \in Int : IsFiniteSet(a..b)
    BY FS_Interval
  <2>2. 1 \in Int /\ 26 \in Int
    OBVIOUS
  <2> QED
    BY <2>1, <2>2, Zenon
<1> DEFINE cases == {"upper", "lower"}
<1>2. IsFiniteSet(cases)
  <2>1. cases = {"upper"} \cup {"lower"}
    OBVIOUS
  <2>2. IsFiniteSet({"upper"})
    BY FS_Singleton
  <2> DEFINE one == {"upper"}
  <2>3. IsFiniteSet(one) /\ cases = one \cup {"lower"}
    BY <2>1, <2>2
  <2> HIDE DEF cases, one
  <2> QED
    BY <2>3, FS_AddElement
<1>3. Identifiers \in SUBSET ((1..26) \X cases)
  BY InterfacesAssumption
<1> HIDE DEF cases
<1>4. IsFiniteSet((1..26) \X cases)
  BY <1>1, <1>2, FS_Product
<1> QED
  BY <1>3, <1>4, FS_Subset

\* A turn with names left in both sets takes at least one away.
LEMMA MergeShrinks ==
    ASSUME NEW s \in Merges, OneCase(Names(s)), s.a # {}, s.b # {}
    PROVE  /\ Cardinality(s.a) \in Nat /\ Cardinality(s.b) \in Nat
           /\ Cardinality(Merge(s).a) \in Nat /\ Cardinality(Merge(s).b) \in Nat
           /\ Cardinality(Merge(s).a) + Cardinality(Merge(s).b) <
                Cardinality(s.a) + Cardinality(s.b)
<1> DEFINE r == Merge(s)
<1>1. /\ r.a \subseteq s.a /\ r.b \subseteq s.b /\ (r.a # s.a \/ r.b # s.b)
  BY MergeStep
<1>2. s.a \in SUBSET Identifiers /\ s.b \in SUBSET Identifiers
  BY DEF Merges
<1>3. IsFiniteSet(s.a) /\ IsFiniteSet(s.b)
  BY <1>2, IdentifiersFinite, FS_Subset
<1> HIDE DEF r
<1>4. /\ Cardinality(r.a) <= Cardinality(s.a)
      /\ r.a # s.a => Cardinality(r.a) < Cardinality(s.a)
      /\ Cardinality(r.a) \in Nat /\ Cardinality(s.a) \in Nat
  BY <1>1, <1>3, FS_Subset, FS_CardinalityType
<1>5. /\ Cardinality(r.b) <= Cardinality(s.b)
      /\ r.b # s.b => Cardinality(r.b) < Cardinality(s.b)
      /\ Cardinality(r.b) \in Nat /\ Cardinality(s.b) \in Nat
  BY <1>1, <1>3, FS_Subset, FS_CardinalityType
<1>6. Cardinality(r.a) + Cardinality(r.b) < Cardinality(s.a) + Cardinality(s.b)
  BY <1>1, <1>4, <1>5
<1> QED
  BY <1>4, <1>5, <1>6 DEF r

LEMMA Common ==
    ASSUME NEW A \in SUBSET Identifiers, NEW B \in SUBSET Identifiers, OneCase(A \cup B),
           NEW n \in A \cap B
    PROVE  n \in Intersection(A, B)
<1> DEFINE start == [a |-> A, b |-> B, both |-> {}]
           States == {s \in Merges : OneCase(Names(s)) /\ Meets(s, n)}
           step == [s \in States |-> Merge(s)]
           m == CHOOSE f : f = [k \in Nat |-> IF k = 0 THEN start ELSE Merge(f[k - 1])]
           size == Cardinality(A) + Cardinality(B)
           left(s) == Cardinality(s.a) + Cardinality(s.b)
<1>1. start \in States
  BY DEF Merges, Names, Meets
<1>2. ASSUME NEW s \in States PROVE Merge(s) \in States
  <2>1. /\ Merge(s) \in Merges /\ Meets(Merge(s), n)
        /\ Merge(s).a \subseteq s.a /\ Merge(s).b \subseteq s.b
    BY MergeStep
  <2>2. OneCase(Names(Merge(s)))
    BY <2>1 DEF OneCase, Names
  <2> QED
    BY <2>1, <2>2
<1>3. size \in Nat
  BY IdentifiersFinite, FS_Subset, FS_CardinalityType
<1>4. left(start) = size
  OBVIOUS
<1>5. \A s \in States : s \in Merges /\ OneCase(Names(s)) /\ Meets(s, n)
  OBVIOUS
<1> HIDE DEF start, step, States, size
<1>6. PICK f : Iterate(f, start, step)
  BY Iterates
<1>7. \A k \in Nat : f[k] \in States
  <2> DEFINE T == {k \in Nat : f[k] \in States}
  <2>1. 0 \in T
    BY <1>1, <1>6 DEF Iterate
  <2>2. ASSUME NEW k \in T PROVE k + 1 \in T
    <3>1. f[k + 1] = step[f[k]]
      BY <1>6 DEF Iterate
    <3>2. step[f[k]] = Merge(f[k])
      BY DEF step
    <3> QED
      BY <1>2, <3>1, <3>2
  <2> HIDE DEF T
  <2>3. T = Nat
    <3>1. T \in SUBSET Nat
      BY DEF T
    <3> QED
      BY <2>1, <2>2, <3>1, AllNumbers
  <2> QED
    BY <2>3 DEF T
<1>8. f = [k \in Nat |-> IF k = 0 THEN start ELSE Merge(f[k - 1])]
  <2>1. ASSUME NEW k \in Nat PROVE f[k] = IF k = 0 THEN start ELSE Merge(f[k - 1])
    <3>1. k # 0 => k - 1 \in Nat
      OBVIOUS
    <3> QED
      BY <1>6, <1>7, <3>1 DEF Iterate, step
  <2>2. f = [k \in Nat |-> f[k]]
    BY <1>6 DEF Iterate
  <2> QED
    BY <2>1, <2>2
<1>9. m = [k \in Nat |-> IF k = 0 THEN start ELSE Merge(m[k - 1])]
  BY <1>8
<1>10. Intersection(A, B) = m[size].both
  BY DEF Intersection, start, size
<1> HIDE DEF m
<1>11. m[0] = start /\ \A k \in Nat : m[k + 1] = Merge(m[k])
  <2>1. \A k \in Nat : k + 1 \in Nat /\ k + 1 # 0 /\ (k + 1) - 1 = k
    OBVIOUS
  <2> QED
    BY <1>9, <2>1
<1> DEFINE T == {k \in Nat : /\ m[k] \in States
                             /\ \/ m[k].a = {} \/ m[k].b = {}
                                \/ left(m[k]) + k <= size}
<1>12. 0 \in T
  BY <1>1, <1>3, <1>4, <1>11
<1>13. ASSUME NEW k \in T PROVE k + 1 \in T
  <2>1. m[k + 1] = Merge(m[k]) /\ m[k] \in States /\ m[k + 1] \in States
    BY <1>2, <1>11
  <2>2. CASE m[k].a = {} \/ m[k].b = {}
    <3>1. m[k + 1] = m[k]
      BY <2>1, <2>2 DEF Merge
    <3> QED
      BY <2>1, <2>2, <3>1
  <2>3. CASE ~ (m[k].a = {} \/ m[k].b = {})
    <3>1. left(m[k]) \in Nat /\ left(m[k + 1]) \in Nat /\ left(m[k + 1]) < left(m[k])
      BY <1>5, <2>1, <2>3, MergeShrinks
    <3>2. left(m[k]) + k <= size
      BY <2>3
    <3> HIDE DEF left
    <3>3. left(m[k + 1]) + (k + 1) <= size
      BY <1>3, <3>1, <3>2
    <3> QED
      BY <2>1, <3>3 DEF left
  <2> QED
    BY <2>2, <2>3
<1>14. size \in T
  <2>1. T \in SUBSET Nat
    OBVIOUS
  <2> HIDE DEF T
  <2> QED
    BY <1>3, <1>12, <1>13, <2>1, AllNumbers
<1> DEFINE s == m[size]
<1>15. s \in Merges /\ OneCase(Names(s)) /\ Meets(s, n)
  BY <1>5, <1>14
<1>16. s.a = {} \/ s.b = {}
  <2> SUFFICES ASSUME s.a # {}, s.b # {}, left(s) + size <= size PROVE FALSE
    BY <1>14
  <2>1. left(Merge(s)) \in Nat /\ left(s) \in Nat /\ left(Merge(s)) < left(s)
    BY <1>15, MergeShrinks
  <2> HIDE DEF left, s
  <2> QED
    BY <1>3, <2>1
<1> QED
  BY <1>10, <1>15, <1>16 DEF Meets

-----------------------------------------------------------------------------
(* Who owns what.                                                          *)

\* What OwnKept and CreatedDistinct need of the state: lists of bases are lists
\* of interfaces, and what an interface owns has a name and an owner that is there.
IInv ==
    /\ BInv
    /\ BasesTyped
    /\ owner \in [Members -> Interfaces \cup {None}]
    /\ member \in [Members -> Identifiers \cup {None}]
    /\ \A m \in Members : owner[m] # None => owner[m] \in interfaces
    /\ \A m \in Members : owner[m] # None => member[m] \in Identifiers

LEMMA StoreBasesTyped ==
    ASSUME BasesTyped, NEW i \in Interfaces, NEW v \in BaseLists, StoreBases(i, v)
    PROVE  BasesTyped'
BY DEF BasesTyped, StoreBases, BaseLists

LEMMA EmptyBaseList == <<>> \in BaseLists
<1>1. 0 \in 0..MaxBases /\ <<>> \in [1..0 -> Interfaces]
  BY InterfacesAssumption
<1>2. IsInjective(<<>>)
  BY DEF IsInjective
<1> QED
  BY <1>1, <1>2 DEF BaseLists

LEMMA IInvStep == IInv /\ [Next]_vars => IInv'
<1> SUFFICES ASSUME IInv, [Next]_vars PROVE IInv'
  OBVIOUS
<1> USE DEF IInv
<1>b. BInv'
  BY BInvStep
<1>1. ASSUME NEW i \in Interfaces, NEW n \in InterfaceNames, NEW v \in BaseLists,
             CreateInterface(i, n, v)
      PROVE IInv'
  BY <1>1, <1>b, StoreBasesTyped DEF CreateInterface
<1>2. ASSUME NEW i \in Interfaces, NEW v \in BaseLists, SetBases(i, v)
      PROVE IInv'
  BY <1>2, <1>b, StoreBasesTyped DEF SetBases
<1>3. ASSUME NEW i \in Interfaces, NEW m \in Members, NEW n \in Identifiers,
             CreateMember(i, m, n) \/ MoveMember(m, i, n)
      PROVE IInv'
  <2>1. /\ owner' = [owner EXCEPT ![m] = i] /\ member' = [member EXCEPT ![m] = n]
        /\ UNCHANGED <<interfaces, bases>> /\ i \in interfaces
    BY <1>3 DEF CreateMember, MoveMember
  <2>2. BasesTyped'
    BY <2>1 DEF BasesTyped
  <2> QED
    BY <1>b, <2>1, <2>2
<1>4. ASSUME NEW m \in Members, NEW n \in Identifiers, RenameMember(m, n) PROVE IInv'
  <2>1. /\ member' = [member EXCEPT ![m] = n] /\ UNCHANGED <<interfaces, bases, owner>>
    BY <1>4 DEF RenameMember
  <2>2. BasesTyped'
    BY <2>1 DEF BasesTyped
  <2> QED
    BY <1>b, <2>1, <2>2
<1>5. ASSUME NEW m \in Members, DestroyMember(m) PROVE IInv'
  <2>1. /\ owner' = [owner EXCEPT ![m] = None] /\ member' = [member EXCEPT ![m] = None]
        /\ UNCHANGED <<interfaces, bases>>
    BY <1>5 DEF DestroyMember
  <2>2. BasesTyped'
    BY <2>1 DEF BasesTyped
  <2> QED
    BY <1>b, <2>1, <2>2
<1>6. ASSUME NEW i \in Interfaces, DestroyInterface(i) PROVE IInv'
  <2>1. BasesTyped'
    BY <1>6, EmptyBaseList, StoreBasesTyped DEF DestroyInterface
  <2>2. /\ interfaces' = interfaces \ {i}
        /\ owner' = [m \in Members |-> IF m \in Own(i) THEN None ELSE owner[m]]
        /\ member' = [m \in Members |-> IF m \in Own(i) THEN None ELSE member[m]]
    BY <1>6 DEF DestroyInterface
  <2>3. \A m \in Members : m \in Own(i) <=> owner[m] = i
    BY DEF Own
  <2> QED
    BY <1>b, <2>1, <2>2, <2>3
<1>7. ASSUME UNCHANGED <<interfaces, bases, owner, member>> PROVE IInv'
  BY <1>7, <1>b DEF BasesTyped
<1> QED
  BY <1>1, <1>2, <1>3, <1>4, <1>5, <1>6, <1>7 DEF Next, vars, RenameInterface, ReadDies

LEMMA IInvInit == Init => IInv
<1> SUFFICES ASSUME Init PROVE IInv
  OBVIOUS
<1>1. BInv
  BY DEF Init, BInv, Range
<1>2. BasesTyped
  BY EmptyBaseList DEF Init, BasesTyped
<1> QED
  BY <1>1, <1>2 DEF Init, IInv

-----------------------------------------------------------------------------
(* What the checks guarantee.                                              *)

\* Through(v) is the least set that holds v and the bases of what it holds.
LEMMA ThroughLeast ==
    ASSUME NEW v, NEW F \in SUBSET Interfaces, Closed(F, v)
    PROVE  Through(v) \subseteq F
BY DEF Through, Closed

LEMMA ThroughClosed ==
    ASSUME BasesTyped, NEW v \in BaseLists
    PROVE  Through(v) \subseteq Interfaces /\ Closed(Through(v), v)
<1>1. \A q \in BaseLists : Range(q) \subseteq Interfaces
  BY BaseListsAreLists DEF Range
<1>2. \A x \in Interfaces : Range(bases[x]) \subseteq Interfaces
  BY <1>1 DEF BasesTyped
<1> QED
  BY <1>1, <1>2 DEF Through, Closed

\* With the bases v, an interface inherits from nothing outside a set that holds v
\* and the bases of what it holds.
LEMMA NewAncestors ==
    ASSUME BasesTyped, NEW i \in Interfaces, NEW v, StoreBases(i, v),
           NEW F \in SUBSET Interfaces, Closed(F, v)
    PROVE  Ancestors(i)' \subseteq F
<1>1. bases'[i] = v /\ \A x \in Interfaces \ {i} : bases'[x] = bases[x]
  BY DEF BasesTyped, StoreBases
<1>2. \A x \in F : Range(bases'[x]) \subseteq F
  BY <1>1 DEF Closed
<1>3. Range(bases'[i]) \subseteq F
  BY <1>1 DEF Closed
<1> QED
  BY <1>2, <1>3 DEF Ancestors, Through

\* The bases of an interface change in three requests.
LEMMA WhoChangesBases ==
    ASSUME BasesTyped, [Next]_vars, NEW i \in Interfaces, bases'[i] # bases[i]
    PROVE  \/ \E n \in InterfaceNames, v \in BaseLists : CreateInterface(i, n, v)
           \/ \E v \in BaseLists : SetBases(i, v)
           \/ DestroyInterface(i)
<1>1. \A j \in Interfaces : \A v : StoreBases(j, v) => i = j
  BY DEF BasesTyped, StoreBases
<1> QED
  BY <1>1 DEF Next, vars, CreateInterface, SetBases, DestroyInterface, CreateMember,
              RenameMember, MoveMember, DestroyMember, RenameInterface, ReadDies

\* destroy() leaves nothing to inherit from.
LEMMA DestroyedInheritsNothing ==
    ASSUME BasesTyped, NEW i \in Interfaces, DestroyInterface(i)
    PROVE  Ancestors(i)' = {}
<1>1. Closed({}, <<>>) /\ {} \in SUBSET Interfaces
  BY DEF Closed, Range
<1>2. Ancestors(i)' \subseteq {}
  BY <1>1, NewAncestors DEF DestroyInterface
<1> QED
  BY <1>2

\* Whatever the bases are, loops included: when a list of them is accepted, no two
\* things inherited through it at any distance differ only in case, provided that
\* the interfaces looked at have different simple names (InterfaceDef.cc:391-451).
THEOREM InheritedNamesDiffer == Spec => InheritedDistinct
<1> DEFINE Step == \A i \in Interfaces :
                (bases'[i] # bases[i] /\ ToldApart(Through(bases'[i]))) =>
                    \A m, o \in OwnOf(Ancestors(i))' :
                        m # o => Letter(member[m]) # Letter(member[o])
<1>1. IInv /\ [Next]_vars => Step
  <2> SUFFICES ASSUME IInv, [Next]_vars, NEW i \in Interfaces, bases'[i] # bases[i],
                      ToldApart(Through(bases'[i])),
                      NEW m \in OwnOf(Ancestors(i))', NEW o \in OwnOf(Ancestors(i))',
                      m # o
               PROVE  Letter(member[m]) # Letter(member[o])
    OBVIOUS
  <2>1. ASSUME NEW v \in BaseLists, InheritedNamesOk(v), StoreBases(i, v),
               UNCHANGED owner
        PROVE  Letter(member[m]) # Letter(member[o])
    <3>1. bases'[i] = v
      BY <2>1 DEF IInv, BasesTyped, StoreBases
    <3> DEFINE C == Through(v)
               F == InterfaceSet(v)
    <3>2. Range(v) \subseteq C /\ ToldApart(C) /\ \A x \in C : Range(bases[x]) \subseteq C
      BY <3>1, ThroughClosed DEF IInv, Closed
    <3> HIDE DEF C
    <3>3. F \in SUBSET Interfaces /\ Closed(F, v)
      BY <3>2, FoundAll DEF IInv
    <3> HIDE DEF F
    <3>4. Ancestors(i)' \subseteq F
      BY <2>1, <3>3, NewAncestors DEF IInv
    <3>5. m \in OwnOf(F) /\ o \in OwnOf(F)
      BY <2>1, <3>4 DEF OwnOf
    <3> QED
      BY <2>1, <3>5 DEF InheritedNamesOk, Inherited, F
  <2>2. CASE DestroyInterface(i)
    BY <2>2, DestroyedInheritsNothing DEF OwnOf, IInv
  <2> QED
    BY <2>1, <2>2, WhoChangesBases
       DEF IInv, CreateInterface, SetBases, BasesAccepted
<1> QED
  BY <1>1, IInvInit, IInvStep, PTL DEF Spec, InheritedDistinct

\* When a list of bases is accepted, nothing inherited has the name of something
\* the interface has itself, provided that what it inherits from has different
\* simple names and all names have one case. The list led through nothing but what
\* is inherited now: had it led through the interface itself, its own names would
\* have been found in both sets (InterfaceDef.cc:48-92).
THEOREM OwnNamesKept == Spec => OwnKept
<1> DEFINE Proviso(i) == /\ bases'[i] # bases[i] /\ ToldApart(Ancestors(i))'
                         /\ \A m, o \in Members : owner[m] # None /\ owner[o] # None =>
                                                    member[m][2] = member[o][2]
           Step == \A i \in Interfaces : Proviso(i) =>
                    \A m \in Own(i), o \in OwnOf(Ancestors(i))' : member[m] # member[o]
<1>1. IInv /\ [Next]_vars => Step
  <2> SUFFICES ASSUME IInv, [Next]_vars, NEW i \in Interfaces, Proviso(i),
                      NEW m \in Own(i), NEW o \in OwnOf(Ancestors(i))'
               PROVE  member[m] # member[o]
    OBVIOUS
  <2>1. BasesTyped /\ owner[m] = i /\ i # None /\ i \in interfaces /\ m \in Members
    BY InterfacesAssumption DEF IInv, Own
  <2>2. ASSUME NEW v \in BaseLists, SetBases(i, v), member[m] = member[o] PROVE FALSE
    <3>1. /\ BasesAccepted(Own(i), v) /\ StoreBases(i, v)
          /\ UNCHANGED <<interfaces, name, owner, member>>
      BY <2>2 DEF SetBases
    <3>2. bases'[i] = v /\ \A x \in Interfaces \ {i} : bases'[x] = bases[x]
      BY <2>1, <3>1 DEF BasesTyped, StoreBases
    <3> DEFINE C == Ancestors(i)'
               F == InterfaceSet(v)
               A == NamesOf(Inherited(v))
               B == NamesOf(Own(i))
    <3>3. \A q \in OwnOf(F), r \in Own(i) : member[q] # member[r]
      <4>1. \A q \in OwnOf(F) \cup Own(i) : owner[q] # None /\ member[q] \in Identifiers
                                             /\ q \in Members
        <5>1. F \subseteq Interfaces
          BY <2>1, InterfaceSetTyped
        <5> HIDE DEF F
        <5> QED
          BY <2>1, <5>1, InterfacesAssumption DEF IInv, OwnOf, Own
      <4>2. A \in SUBSET Identifiers /\ B \in SUBSET Identifiers /\ OneCase(A \cup B)
        BY <4>1 DEF NamesOf, Inherited, OneCase
      <4>3. Intersection(A, B) = {}
        BY <3>1 DEF BasesAccepted
      <4> HIDE DEF A, B
      <4>4. A \cap B = {}
        BY <4>2, <4>3, Common
      <4> QED
        BY <4>4 DEF A, B, NamesOf, Inherited
    <3>4. i \notin F
      <4>1. m \in OwnOf({i}) /\ (i \in F => m \in OwnOf(F))
        BY <2>1 DEF OwnOf
      <4> QED
        BY <3>3, <4>1
    <3>5. Range(v) \subseteq C /\ \A x \in C : Range(bases'[x]) \subseteq C
      <4>1. \A q \in BaseLists : Range(q) \subseteq Interfaces
        BY BaseListsAreLists DEF Range
      <4>2. \A x \in Interfaces : Range(bases'[x]) \subseteq Interfaces
        BY <2>1, <3>2, <4>1 DEF BasesTyped
      <4> QED
        BY <3>2, <4>2 DEF Ancestors, Through
    <3>6. \A x \in F : x \in C => Range(bases[x]) \subseteq C
      <4>1. F \subseteq Interfaces
        BY <2>1, InterfaceSetTyped
      <4> HIDE DEF F, C
      <4> QED
        BY <3>2, <3>4, <3>5, <4>1
    <3>7. ToldApart(C)
      BY <3>1 DEF ToldApart
    <3> HIDE DEF C
    <3>8. F \in SUBSET Interfaces /\ Closed(F, v)
      BY <2>1, <3>5, <3>6, <3>7, FoundAll
    <3>9. Ancestors(i)' \subseteq F
      <4> HIDE DEF F
      <4> QED
        BY <2>1, <3>1, <3>8, NewAncestors
    <3>10. o \in OwnOf(F)
      BY <3>1, <3>9 DEF OwnOf
    <3> QED
      BY <2>2, <3>3, <3>10
  <2>3. CASE DestroyInterface(i)
    BY <2>1, <2>3, DestroyedInheritsNothing DEF OwnOf
  <2>4. ~ \E n \in InterfaceNames, v \in BaseLists : CreateInterface(i, n, v)
    BY <2>1 DEF CreateInterface
  <2> QED
    BY <2>1, <2>2, <2>3, <2>4, WhoChangesBases
<1> QED
  BY <1>1, IInvInit, IInvStep, PTL DEF Spec, OwnKept

\* An attribute or operation is created only under a name, in any case, that the
\* interface neither has nor inherits, provided that the simple names of what it
\* inherits from tell them apart (InterfaceDef.cc:153-198, 373-388).
THEOREM CreatedNamesDiffer == Spec => CreatedDistinct
<1> DEFINE Step == \A m \in Members, i \in Interfaces :
                (owner[m] = None /\ owner'[m] = i /\ ToldApart(Ancestors(i))) =>
                    \A o \in OwnOf(Ancestors(i) \cup {i}) :
                        Letter(member'[m]) # Letter(member[o])
<1>1. IInv /\ [Next]_vars => Step
  <2> SUFFICES ASSUME IInv, [Next]_vars, NEW m \in Members, NEW i \in Interfaces,
                      owner[m] = None, owner'[m] = i, ToldApart(Ancestors(i)),
                      NEW o \in OwnOf(Ancestors(i) \cup {i})
               PROVE  Letter(member'[m]) # Letter(member[o])
    OBVIOUS
  <2>1. i # None /\ BasesTyped /\ bases[i] \in BaseLists
    BY InterfacesAssumption DEF IInv, BasesTyped
  <2>2. PICK n \in Identifiers : CreateMember(i, m, n)
    <3>1. ~ \E j \in Interfaces : DestroyInterface(j)
      BY <2>1 DEF DestroyInterface
    <3>2. ASSUME NEW j \in Interfaces, NEW q \in Members, NEW n \in Identifiers,
                 CreateMember(j, q, n)
          PROVE  j = i /\ q = m
      BY <2>1, <3>2 DEF CreateMember, IInv
    <3>3. ASSUME NEW j \in Interfaces, NEW q \in Members, NEW n \in Identifiers,
                 MoveMember(q, j, n)
          PROVE  FALSE
      BY <2>1, <3>3 DEF MoveMember, IInv
    <3>4. ~ \E q \in Members : DestroyMember(q)
      BY <2>1 DEF DestroyMember, IInv
    <3>5. owner' # owner
      BY <2>1
    <3> QED
      BY <3>1, <3>2, <3>3, <3>4, <3>5
         DEF Next, vars, CreateInterface, SetBases, RenameMember, RenameInterface, ReadDies
  <2>3. member'[m] = n
    BY <2>2 DEF CreateMember, IInv
  <2> DEFINE C == Ancestors(i)
             F == InterfaceSet(bases[i])
  <2>4. Range(bases[i]) \subseteq C /\ \A x \in C : Range(bases[x]) \subseteq C
    BY <2>1, ThroughClosed DEF Ancestors, Closed
  <2>5. ToldApart(C)
    OBVIOUS
  <2> HIDE DEF C
  <2>6. F \in SUBSET Interfaces /\ Closed(F, bases[i])
    BY <2>1, <2>4, <2>5, FoundAll
  <2> HIDE DEF F
  <2>7. C \subseteq F
    BY <2>6, ThroughLeast DEF C, Ancestors
  <2>8. CASE o \in Own(i)
    BY <2>2, <2>3, <2>8 DEF CreateMember, NameFree
  <2>9. CASE o \notin Own(i)
    <3>1. o \in OwnOf(F)
      BY <2>7, <2>9 DEF C, OwnOf, Own
    <3>2. o \in Inherited(bases[i])
      BY <3>1 DEF Inherited, F
    <3> QED
      BY <2>2, <2>3, <3>2 DEF CreateMember, NoInheritedClash
  <2> QED
    BY <2>8, <2>9
<1> QED
  BY <1>1, IInvInit, IInvStep, PTL DEF Spec, CreatedDistinct

=============================================================================
