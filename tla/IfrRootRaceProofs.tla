-------------------------- MODULE IfrRootRaceProofs --------------------------
(***************************************************************************)
(* IfrRootRace, for any numbers of threads, modules, definitions, names    *)
(* and ids: what survives when requests on the Repository run beside the   *)
(* one that IRpoa serves.                                                  *)
(***************************************************************************)
EXTENDS IfrRootRace, SequenceTheorems, WellFoundedInduction, TLAPS

Creating == {"name", "id", "addId", "contain"}
Renaming == {"rename", "setName"}
Destroying == {"unlink", "removeId"}
Places == {"idle"} \cup Creating \cup Renaming \cup Destroying

\* The types, and what a request has of its arguments.
RaceTypeOK ==
    /\ pc \in [Threads -> Places]
    /\ job \in [Threads -> Jobs]
    /\ served \in Threads \cup {None}
    /\ members \in [Containers -> Seq(Defs)]
    /\ name \in [Defs -> Names \cup {None}]
    /\ id \in [Defs -> Ids \cup {None}]
    /\ idmap \in [Ids -> Defs \cup {None}]
    /\ died \in BOOLEAN
JobOK ==
    \A t \in Threads :
        /\ pc[t] = "idle" => job[t] = NoJob
        /\ pc[t] # "idle" => job[t].at \in Containers /\ job[t].def \in Defs
        /\ pc[t] \in Creating \cup Renaming => job[t].name \in Names
        /\ pc[t] \in Creating => job[t].id \in Ids

\* A request below the Repository has IRpoa: there is one at most.
BelowRoot(t) ==
    \/ pc[t] \in Renaming \cup Destroying
    \/ pc[t] \in Creating /\ job[t].at # Root
OneServed == \A t \in Threads : BelowRoot(t) => served = t

\* A definition is in one place of one list, and in the hands of one request; the
\* one that makes it or has taken it out has it in no list, the others have it
\* in the list they found it in.
PlacedOnce ==
    \A c, e \in Containers : \A j \in DOMAIN members[c], k \in DOMAIN members[e] :
        members[c][j] = members[e][k] => c = e /\ j = k
HeldOnce ==
    \A t, u \in Threads :
        (t # u /\ pc[t] # "idle") => job[t].def # job[u].def
HeldWhere ==
    \A t \in Threads :
        /\ pc[t] \in Creating \cup {"removeId"} => ~ Exists(job[t].def)
        /\ pc[t] \in Renaming \cup {"unlink"} => InList(job[t].at, job[t].def)

\* Below the Repository a name that was found free stays free until the request
\* that found it so is through.
StillFree ==
    \A t \in Threads :
        /\ pc[t] \in Creating \ {"name"} => name[job[t].def] = job[t].name
        /\ (pc[t] \in (Creating \ {"name"}) \cup {"setName"} /\ job[t].at # Root)
            => NameFree(job[t].at, job[t].name)

\* The map has a definition under its own id, and none that is not registered
\* yet; it has those in the lists, and those about to join or to leave the map.
OwnId == \A i \in Ids : idmap[i] # None => id[idmap[i]] = i
InMap(d) == id[d] \in Ids /\ idmap[id[d]] = d
MapComplete ==
    /\ \A c \in Containers : \A k \in DOMAIN members[c] : InMap(members[c][k])
    /\ \A t \in Threads : pc[t] \in {"contain", "removeId"} => InMap(job[t].def)
MapSound ==
    /\ \A i \in Ids : idmap[i] # None => Exists(idmap[i]) \/ InHand(idmap[i])
    /\ \A t \in Threads : \A i \in Ids :
        pc[t] \in {"name", "id", "addId"} => idmap[i] # job[t].def

RInv ==
    /\ RaceTypeOK /\ JobOK /\ OneServed
    /\ PlacedOnce /\ HeldOnce /\ HeldWhere
    /\ StillFree /\ DistinctBelowRoot
    /\ OwnId /\ MapComplete /\ MapSound

-----------------------------------------------------------------------------
(* Lists.                                                                  *)

\* The list of a container after Append().
LEMMA Appended ==
    ASSUME RaceTypeOK, NEW c \in Containers, NEW d \in Defs,
           members' = [members EXCEPT ![c] = Append(@, d)]
    PROVE  /\ members' \in [Containers -> Seq(Defs)]
           /\ \A e \in Containers \ {c} : members'[e] = members[e]
           /\ DOMAIN members'[c] = DOMAIN members[c] \cup {Len(members[c]) + 1}
           /\ \A k \in DOMAIN members[c] : members'[c][k] = members[c][k]
           /\ members'[c][Len(members[c]) + 1] = d
<1> DEFINE s == members[c]
<1>1. s \in Seq(Defs) /\ members'[c] = Append(s, d)
  BY DEF RaceTypeOK
<1>2. /\ Append(s, d) \in Seq(Defs)
      /\ Len(Append(s, d)) = Len(s) + 1
      /\ \A k \in 1..Len(s) : Append(s, d)[k] = s[k]
      /\ Append(s, d)[Len(s) + 1] = d
  BY <1>1, AppendProperties
<1>3. DOMAIN s = 1..Len(s) /\ DOMAIN Append(s, d) = 1..(Len(s) + 1)
  BY <1>1, <1>2, LenProperties
<1>4. 1..(Len(s) + 1) = (1..Len(s)) \cup {Len(s) + 1}
  BY <1>1, LenProperties
<1>5. members' \in [Containers -> Seq(Defs)]
  BY <1>1, <1>2 DEF RaceTypeOK
<1> QED
  BY <1>1, <1>2, <1>3, <1>4, <1>5 DEF RaceTypeOK

\* What RemoveAt() leaves: every place but the k-th, in order.
LEMMA RemovedAt ==
    ASSUME NEW S, NEW s \in Seq(S), NEW k \in 1..Len(s)
    PROVE  /\ RemoveAt(s, k) \in Seq(S)
           /\ Len(RemoveAt(s, k)) = Len(s) - 1
           /\ \A j \in 1..(Len(s) - 1) :
                RemoveAt(s, k)[j] = s[IF j < k THEN j ELSE j + 1]
<1> DEFINE a == SubSeq(s, 1, k - 1)
           b == SubSeq(s, k + 1, Len(s))
           n == Len(s)
<1>1. n \in Nat /\ k \in Nat /\ 1 <= k /\ k <= n
  BY LenProperties
<1>2. \A i \in 1..n : s[i] \in S
  BY ElementOfSeq
<1>3. a \in Seq(S) /\ Len(a) = k - 1 /\ \A i \in 1..(k - 1) : a[i] = s[i]
  <2>1. \A i \in 1..(k - 1) : s[i] \in S
    BY <1>1, <1>2
  <2> HIDE DEF n
  <2>2. /\ a \in Seq(S)
        /\ Len(a) = IF 1 <= k - 1 THEN k - 1 - 1 + 1 ELSE 0
        /\ \A i \in 1..(k - 1 - 1 + 1) : a[i] = s[1 + i - 1]
    BY <1>1, <2>1, SubSeqProperties
  <2> HIDE DEF a
  <2> QED
    BY <1>1, <2>2
<1>4. b \in Seq(S) /\ Len(b) = n - k /\ \A i \in 1..(n - k) : b[i] = s[k + i]
  <2>1. \A i \in (k + 1)..n : s[i] \in S
    BY <1>1, <1>2
  <2>2. k + 1 \in Int /\ n \in Int
    BY <1>1
  <2> HIDE DEF n
  <2>3. /\ b \in Seq(S)
        /\ Len(b) = IF k + 1 <= n THEN n - (k + 1) + 1 ELSE 0
        /\ \A i \in 1..(n - (k + 1) + 1) : b[i] = s[k + 1 + i - 1]
    BY <2>1, <2>2, SubSeqProperties DEF n
  <2> HIDE DEF b
  <2> QED
    BY <1>1, <2>3
<1>5. RemoveAt(s, k) = a \o b
  BY DEF RemoveAt
<1> HIDE DEF a, b, n
<1>6. /\ a \o b \in Seq(S)
      /\ Len(a \o b) = Len(a) + Len(b)
      /\ \A i \in 1..(Len(a) + Len(b)) :
            (a \o b)[i] = IF i <= Len(a) THEN a[i] ELSE b[i - Len(a)]
  BY <1>3, <1>4, ConcatProperties
<1>7. Len(a \o b) = n - 1
  BY <1>1, <1>3, <1>4, <1>6
<1>8. ASSUME NEW j \in 1..(n - 1)
      PROVE (a \o b)[j] = s[IF j < k THEN j ELSE j + 1]
  <2>1. CASE j < k
    BY <1>1, <1>3, <1>4, <1>6, <2>1
  <2>2. CASE ~ (j < k)
    <3>1. j - Len(a) \in 1..(n - k) /\ k + (j - Len(a)) = j + 1
      BY <1>1, <1>3, <2>2
    <3>2. (a \o b)[j] = b[j - Len(a)]
      BY <1>1, <1>3, <1>4, <1>6, <2>2
    <3> QED
      BY <1>4, <2>2, <3>1, <3>2
  <2> QED
    BY <2>1, <2>2
<1> QED
  BY <1>5, <1>6, <1>7, <1>8 DEF n

\* A list in which find_if() finds a definition, and the place it finds.
LEMMA Found ==
    ASSUME RaceTypeOK, NEW c \in Containers, NEW d, InList(c, d)
    PROVE  FirstIn(c, d) \in DOMAIN members[c] /\ members[c][FirstIn(c, d)] = d
<1> DEFINE places == {k \in DOMAIN members[c] : members[c][k] = d}
           less == {p \in Nat \X Nat : p[1] < p[2]}
<1>1. DOMAIN members[c] = 1..Len(members[c]) /\ Len(members[c]) \in Nat
  BY LenProperties DEF RaceTypeOK
<1>2. places \subseteq Nat /\ places # {}
  BY <1>1 DEF InList
<1>3. IsWellFoundedOn(less, Nat)
  BY NatLessThanWellFounded DEF OpToRel
<1>4. PICK k \in places : \A j \in places : <<j, k>> \notin less
  <2> HIDE DEF places, less
  <2> QED
    BY <1>2, <1>3, WFMin
<1>5. ASSUME NEW j \in 1..k - 1 PROVE members[c][j] # d
  <2>1. j \in DOMAIN members[c] /\ j \in Nat /\ k \in Nat /\ j < k
    BY <1>1
  <2>2. <<j, k>> \in less
    BY <2>1
  <2> QED
    BY <1>4, <2>1, <2>2
<1> QED
  BY <1>4, <1>5 DEF FirstIn

\* The list of a container after the place that find_if() found is erased.
LEMMA Erased ==
    ASSUME RaceTypeOK, NEW c \in Containers, NEW k \in DOMAIN members[c],
           members' = [members EXCEPT ![c] = RemoveAt(@, k)]
    PROVE  /\ members' \in [Containers -> Seq(Defs)]
           /\ \A e \in Containers \ {c} : members'[e] = members[e]
           /\ \A j \in DOMAIN members'[c] :
                LET old(i) == IF i < k THEN i ELSE i + 1 IN
                /\ old(j) \in DOMAIN members[c] \ {k}
                /\ members'[c][j] = members[c][old(j)]
           /\ \A i \in DOMAIN members[c] \ {k} :
                \E j \in DOMAIN members'[c] : members'[c][j] = members[c][i]
<1> DEFINE s == members[c]
           n == Len(s)
<1>1. s \in Seq(Defs) /\ DOMAIN s = 1..n /\ n \in Nat /\ k \in 1..n
  BY LenProperties DEF RaceTypeOK
<1>2. members'[c] = RemoveAt(s, k)
  BY DEF RaceTypeOK
<1> HIDE DEF n
<1>3. /\ RemoveAt(s, k) \in Seq(Defs)
      /\ Len(RemoveAt(s, k)) = n - 1
      /\ \A j \in 1..(n - 1) :
            RemoveAt(s, k)[j] = s[IF j < k THEN j ELSE j + 1]
  BY <1>1, RemovedAt DEF n
<1>4. DOMAIN RemoveAt(s, k) = 1..(n - 1)
  BY <1>3, LenProperties
<1>5. members' \in [Containers -> Seq(Defs)]
  BY <1>2, <1>3 DEF RaceTypeOK
<1>6. \A e \in Containers \ {c} : members'[e] = members[e]
  BY DEF RaceTypeOK
<1>7. ASSUME NEW j \in DOMAIN members'[c]
      PROVE  /\ (IF j < k THEN j ELSE j + 1) \in DOMAIN s \ {k}
             /\ members'[c][j] = s[IF j < k THEN j ELSE j + 1]
  BY <1>1, <1>2, <1>3, <1>4
<1>8. ASSUME NEW i \in DOMAIN s \ {k}
      PROVE \E j \in DOMAIN members'[c] : members'[c][j] = s[i]
  <2>1. CASE i < k
    <3>1. i \in 1..(n - 1)
      BY <1>1, <2>1
    <3> QED
      BY <1>2, <1>3, <1>4, <2>1, <3>1
  <2>2. CASE ~ (i < k)
    <3>1. i - 1 \in 1..(n - 1) /\ ~ (i - 1 < k) /\ (i - 1) + 1 = i
      BY <1>1, <2>2
    <3>2. RemoveAt(s, k)[i - 1] = s[i]
      BY <1>3, <3>1
    <3> QED
      BY <1>2, <1>4, <3>1, <3>2
  <2> QED
    BY <2>1, <2>2
<1> QED
  BY <1>5, <1>6, <1>7, <1>8

\* Said of the members of a container and not of the places in its list.
LEMMA NameFreeMembers ==
    ASSUME NEW c, NEW n
    PROVE  NameFree(c, n) <=> \A d : InList(c, d) => name[d] # n
BY DEF NameFree, InList

-----------------------------------------------------------------------------
(* Steps.                                                                  *)

\* A failed assertion ends everything.
LEMMA DiesStep ==
    ASSUME RaceAssumption, RInv, NEW t \in Threads,
           Dies, UNCHANGED <<store>>
    PROVE  RInv'
<1> USE DEF RInv, Dies, store, Places, Creating, Renaming, Destroying
<1>1. RaceTypeOK'
  BY DEF RaceAssumption, RaceTypeOK, JobOK, Jobs, NoJob, Containers
<1>2. JobOK'
  BY DEF RaceAssumption, RaceTypeOK, JobOK, Jobs, NoJob, Containers
<1>3. OneServed'
  BY DEF RaceAssumption, RaceTypeOK, JobOK, OneServed, BelowRoot, Containers
<1>4. PlacedOnce'
  BY DEF RaceAssumption, PlacedOnce
<1>5. HeldOnce'
  BY DEF RaceAssumption, RaceTypeOK, JobOK, HeldOnce, HeldWhere, NoJob, InHand,
         Exists, InList, OneServed, BelowRoot
<1>6. HeldWhere'
  BY DEF RaceAssumption, RaceTypeOK, JobOK, HeldOnce, HeldWhere, InHand,
         Exists, InList
<1>7. StillFree'
  BY DEF RaceAssumption, RaceTypeOK, JobOK, OneServed, BelowRoot, HeldOnce,
         HeldWhere, StillFree, NameFree, Exists, InHand, InList
<1>8. DistinctBelowRoot'
  BY DEF RaceAssumption, RaceTypeOK, JobOK, HeldWhere, PlacedOnce,
         DistinctBelowRoot, StillFree, NameFree, Exists, InHand, InList,
         Containers
<1>9. OwnId'
  BY DEF RaceAssumption, RaceTypeOK, JobOK, OwnId, MapSound
<1>10. MapComplete'
  BY DEF RaceAssumption, RaceTypeOK, JobOK, OwnId, MapSound, MapComplete,
         InMap, HeldOnce, HeldWhere, Exists, InHand, InList
<1>11. MapSound'
  BY DEF RaceAssumption, RaceTypeOK, JobOK, Jobs, OwnId, MapSound, MapComplete,
         InMap, HeldOnce, HeldWhere, NoJob, Exists, InHand, InList
<1> QED
  BY <1>1, <1>2, <1>3, <1>4, <1>5, <1>6, <1>7, <1>8, <1>9, <1>10, <1>11

\* A request that returns with nothing registered leaves nothing behind.
LEMMA ReturnStep ==
    ASSUME RaceAssumption, RInv, NEW t \in Threads,
           pc[t] \in {"name", "id", "addId"} \cup Renaming,
           Return(t), UNCHANGED <<store, died>>
    PROVE  RInv'
<1> USE DEF RInv, Return, store, Places, Creating, Renaming, Destroying
<1>1. RaceTypeOK'
  BY DEF RaceAssumption, RaceTypeOK, JobOK, Jobs, NoJob, Containers
<1>2. JobOK'
  BY DEF RaceAssumption, RaceTypeOK, JobOK, Jobs, NoJob, Containers
<1>3. OneServed'
  BY DEF RaceAssumption, RaceTypeOK, JobOK, OneServed, BelowRoot, Containers
<1>4. PlacedOnce'
  BY DEF RaceAssumption, PlacedOnce
<1>5. HeldOnce'
  BY DEF RaceAssumption, RaceTypeOK, JobOK, HeldOnce, HeldWhere, NoJob, InHand,
         Exists, InList, OneServed, BelowRoot
<1>6. HeldWhere'
  BY DEF RaceAssumption, RaceTypeOK, JobOK, HeldOnce, HeldWhere, InHand,
         Exists, InList
<1>7. StillFree'
  BY DEF RaceAssumption, RaceTypeOK, JobOK, OneServed, BelowRoot, HeldOnce,
         HeldWhere, StillFree, NameFree, Exists, InHand, InList
<1>8. DistinctBelowRoot'
  BY DEF RaceAssumption, RaceTypeOK, JobOK, HeldWhere, PlacedOnce,
         DistinctBelowRoot, StillFree, NameFree, Exists, InHand, InList,
         Containers
<1>9. OwnId'
  BY DEF RaceAssumption, RaceTypeOK, JobOK, OwnId, MapSound
<1>10. MapComplete'
  BY DEF RaceAssumption, RaceTypeOK, JobOK, OwnId, MapSound, MapComplete,
         InMap, HeldOnce, HeldWhere, Exists, InHand, InList
<1>11. MapSound'
  BY DEF RaceAssumption, RaceTypeOK, JobOK, Jobs, OwnId, MapSound, MapComplete,
         InMap, HeldOnce, HeldWhere, NoJob, Exists, InHand, InList
<1> QED
  BY <1>1, <1>2, <1>3, <1>4, <1>5, <1>6, <1>7, <1>8, <1>9, <1>10, <1>11

\* create_xxx() starts with a definition that nothing holds.
LEMMA BeginCreateStep ==
    ASSUME RaceAssumption, RInv, NEW t \in Threads,
           NEW c \in Containers, NEW d \in Defs, NEW n \in Names, NEW i \in Ids,
           BeginCreate(t, c, d, n, i)
    PROVE  RInv'
<1> USE DEF RInv, BeginCreate, Admitted, store, Places, Creating, Renaming,
            Destroying
<1>1. RaceTypeOK'
  BY DEF RaceAssumption, RaceTypeOK, JobOK, Jobs, NoJob, Containers
<1>2. JobOK'
  BY DEF RaceAssumption, RaceTypeOK, JobOK, Jobs, NoJob, Containers
<1>3. OneServed'
  BY DEF RaceAssumption, RaceTypeOK, JobOK, OneServed, BelowRoot, Containers
<1>4. PlacedOnce'
  BY DEF RaceAssumption, PlacedOnce
<1>5. HeldOnce'
  BY DEF RaceAssumption, RaceTypeOK, JobOK, HeldOnce, HeldWhere, NoJob, InHand,
         Exists, InList, OneServed, BelowRoot
<1>6. HeldWhere'
  BY DEF RaceAssumption, RaceTypeOK, JobOK, HeldOnce, HeldWhere, InHand,
         Exists, InList
<1>7. StillFree'
  BY DEF RaceAssumption, RaceTypeOK, JobOK, OneServed, BelowRoot, HeldOnce,
         HeldWhere, StillFree, NameFree, Exists, InHand, InList
<1>8. DistinctBelowRoot'
  BY DEF RaceAssumption, RaceTypeOK, JobOK, HeldWhere, PlacedOnce,
         DistinctBelowRoot, StillFree, NameFree, Exists, InHand, InList,
         Containers
<1>9. OwnId'
  BY DEF RaceAssumption, RaceTypeOK, JobOK, OwnId, MapSound
<1>10. MapComplete'
  BY DEF RaceAssumption, RaceTypeOK, JobOK, OwnId, MapSound, MapComplete,
         InMap, HeldOnce, HeldWhere, Exists, InHand, InList
<1>11. MapSound'
  <2>1. \A x : x # None /\ InHand(x) => InHand(x)'
    BY DEF RaceAssumption, RaceTypeOK, JobOK, InHand, NoJob
  <2>2. \A x : Exists(x)' <=> Exists(x)
    BY DEF Exists, InList
  <2>3. \A j \in Ids : idmap[j] # d
    BY DEF RaceAssumption, MapSound
  <2> QED
    BY <2>1, <2>2, <2>3 DEF RaceTypeOK, MapSound
<1> QED
  BY <1>1, <1>2, <1>3, <1>4, <1>5, <1>6, <1>7, <1>8, <1>9, <1>10, <1>11

\* name(v) starts with a definition of a container.
LEMMA BeginRenameStep ==
    ASSUME RaceAssumption, RInv, NEW t \in Threads,
           NEW c \in Containers, NEW d \in Defs, NEW n \in Names,
           BeginRename(t, c, d, n)
    PROVE  RInv'
<1> USE DEF RInv, BeginRename, Admitted, store, Places, Creating, Renaming,
            Destroying
<1>1. RaceTypeOK'
  BY DEF RaceAssumption, RaceTypeOK, JobOK, Jobs, NoJob, Containers
<1>2. JobOK'
  BY DEF RaceAssumption, RaceTypeOK, JobOK, Jobs, NoJob, Containers
<1>3. OneServed'
  BY DEF RaceAssumption, RaceTypeOK, JobOK, OneServed, BelowRoot, Containers
<1>4. PlacedOnce'
  BY DEF RaceAssumption, PlacedOnce
<1>5. HeldOnce'
  <2>1. \A u \in Threads : pc[u] # "idle" => job[u].def # d
    <3>1. served = None /\ Exists(d)
      BY DEF RaceAssumption, Exists
    <3>2. \A u \in Threads : ~ BelowRoot(u)
      BY <3>1 DEF RaceAssumption, OneServed
    <3> QED
      BY <3>1, <3>2 DEF BelowRoot, HeldWhere, RaceTypeOK
  <2>2. job'[t].def = d
    BY DEF RaceTypeOK
  <2>3. \A u \in Threads \ {t} : pc'[u] = pc[u] /\ job'[u] = job[u]
    BY DEF RaceTypeOK
  <2>4. ASSUME NEW u \in Threads, NEW v \in Threads, u # v, pc'[u] # "idle"
        PROVE  job'[u].def # job'[v].def
    BY <2>1, <2>2, <2>3, <2>4 DEF RaceAssumption, RaceTypeOK, JobOK, HeldOnce,
                                  NoJob
  <2> QED
    BY <2>4 DEF HeldOnce
<1>6. HeldWhere'
  BY DEF RaceAssumption, RaceTypeOK, JobOK, HeldOnce, HeldWhere, InHand,
         Exists, InList
<1>7. StillFree'
  BY DEF RaceAssumption, RaceTypeOK, JobOK, OneServed, BelowRoot, HeldOnce,
         HeldWhere, StillFree, NameFree, Exists, InHand, InList
<1>8. DistinctBelowRoot'
  BY DEF RaceAssumption, RaceTypeOK, JobOK, HeldWhere, PlacedOnce,
         DistinctBelowRoot, StillFree, NameFree, Exists, InHand, InList,
         Containers
<1>9. OwnId'
  BY DEF RaceAssumption, RaceTypeOK, JobOK, OwnId, MapSound
<1>10. MapComplete'
  BY DEF RaceAssumption, RaceTypeOK, JobOK, OwnId, MapSound, MapComplete,
         InMap, HeldOnce, HeldWhere, Exists, InHand, InList
<1>11. MapSound'
  BY DEF RaceAssumption, RaceTypeOK, JobOK, Jobs, OwnId, MapSound, MapComplete,
         InMap, HeldOnce, HeldWhere, NoJob, Exists, InHand, InList
<1> QED
  BY <1>1, <1>2, <1>3, <1>4, <1>5, <1>6, <1>7, <1>8, <1>9, <1>10, <1>11

\* destroy() starts with a definition of a container.
LEMMA BeginDestroyStep ==
    ASSUME RaceAssumption, RInv, NEW t \in Threads,
           NEW c \in Containers, NEW d \in Defs, BeginDestroy(t, c, d)
    PROVE  RInv'
<1> USE DEF RInv, BeginDestroy, Admitted, store, Places, Creating, Renaming,
            Destroying
<1>1. RaceTypeOK'
  BY DEF RaceAssumption, RaceTypeOK, JobOK, Jobs, NoJob, Containers
<1>2. JobOK'
  BY DEF RaceAssumption, RaceTypeOK, JobOK, Jobs, NoJob, Containers
<1>3. OneServed'
  BY DEF RaceAssumption, RaceTypeOK, JobOK, OneServed, BelowRoot, Containers
<1>4. PlacedOnce'
  BY DEF RaceAssumption, PlacedOnce
<1>5. HeldOnce'
  <2>1. \A u \in Threads : pc[u] # "idle" => job[u].def # d
    <3>1. served = None /\ Exists(d)
      BY DEF RaceAssumption, Exists
    <3>2. \A u \in Threads : ~ BelowRoot(u)
      BY <3>1 DEF RaceAssumption, OneServed
    <3> QED
      BY <3>1, <3>2 DEF BelowRoot, HeldWhere, RaceTypeOK
  <2>2. job'[t].def = d
    BY DEF RaceTypeOK
  <2>3. \A u \in Threads \ {t} : pc'[u] = pc[u] /\ job'[u] = job[u]
    BY DEF RaceTypeOK
  <2>4. ASSUME NEW u \in Threads, NEW v \in Threads, u # v, pc'[u] # "idle"
        PROVE  job'[u].def # job'[v].def
    BY <2>1, <2>2, <2>3, <2>4 DEF RaceAssumption, RaceTypeOK, JobOK, HeldOnce,
                                  NoJob
  <2> QED
    BY <2>4 DEF HeldOnce
<1>6. HeldWhere'
  BY DEF RaceAssumption, RaceTypeOK, JobOK, HeldOnce, HeldWhere, InHand,
         Exists, InList
<1>7. StillFree'
  BY DEF RaceAssumption, RaceTypeOK, JobOK, OneServed, BelowRoot, HeldOnce,
         HeldWhere, StillFree, NameFree, Exists, InHand, InList
<1>8. DistinctBelowRoot'
  BY DEF RaceAssumption, RaceTypeOK, JobOK, HeldWhere, PlacedOnce,
         DistinctBelowRoot, StillFree, NameFree, Exists, InHand, InList,
         Containers
<1>9. OwnId'
  BY DEF RaceAssumption, RaceTypeOK, JobOK, OwnId, MapSound
<1>10. MapComplete'
  BY DEF RaceAssumption, RaceTypeOK, JobOK, OwnId, MapSound, MapComplete,
         InMap, HeldOnce, HeldWhere, Exists, InHand, InList
<1>11. MapSound'
  BY DEF RaceAssumption, RaceTypeOK, JobOK, Jobs, OwnId, MapSound, MapComplete,
         InMap, HeldOnce, HeldWhere, NoJob, Exists, InHand, InList
<1> QED
  BY <1>1, <1>2, <1>3, <1>4, <1>5, <1>6, <1>7, <1>8, <1>9, <1>10, <1>11

\* init() has found the name free and takes it.
LEMMA NameStep ==
    ASSUME RaceAssumption, RInv, NEW t \in Threads,
           CheckName(t), NameFree(job[t].at, job[t].name)
    PROVE  RInv'
<1> USE DEF RInv, CheckName, At, Goto, Return, Places, Creating, Renaming,
            Destroying
<1>1. RaceTypeOK'
  BY DEF RaceAssumption, RaceTypeOK, JobOK, Jobs, NoJob, Containers
<1>2. JobOK'
  BY DEF RaceAssumption, RaceTypeOK, JobOK, Jobs, NoJob, Containers
<1>3. OneServed'
  BY DEF RaceAssumption, RaceTypeOK, JobOK, OneServed, BelowRoot, Containers
<1>4. PlacedOnce'
  BY DEF RaceAssumption, PlacedOnce
<1>5. HeldOnce'
  BY DEF RaceAssumption, RaceTypeOK, JobOK, HeldOnce, HeldWhere, NoJob, InHand,
         Exists, InList, OneServed, BelowRoot
<1>6. HeldWhere'
  BY DEF RaceAssumption, RaceTypeOK, JobOK, HeldOnce, HeldWhere, InHand,
         Exists, InList
<1>7. StillFree'
  <2>1. \A x \in Defs : x # job[t].def => name'[x] = name[x]
    BY DEF RaceTypeOK
  <2>2. \A x : Exists(x) => x # job[t].def
    BY DEF HeldWhere
  <2>3. ASSUME NEW c \in Containers, NEW n PROVE NameFree(c, n)' <=> NameFree(c, n)
    <3>1. \A k \in DOMAIN members[c] : members[c][k] \in Defs
      BY DEF RaceTypeOK
    <3>2. \A k \in DOMAIN members[c] : name'[members[c][k]] = name[members[c][k]]
      BY <2>1, <2>2, <3>1 DEF Exists, InList
    <3> QED
      BY <3>2 DEF NameFree
  <2>4. \A u \in Threads : u # t /\ pc[u] # "idle" => name'[job[u].def] = name[job[u].def]
    BY <2>1 DEF HeldOnce, JobOK
  <2>5. \A u \in Threads : u # t => pc'[u] = pc[u]
    BY DEF RaceTypeOK
  <2>6. pc'[t] = "id" /\ pc[t] = "name" /\ job' = job
    BY DEF RaceTypeOK
  <2>7. name'[job[t].def] = job[t].name /\ job[t].at \in Containers
    BY DEF RaceTypeOK, JobOK
  <2>8. ASSUME NEW u \in Threads, u # t
        PROVE  /\ pc'[u] \in Creating \ {"name"} => name'[job[u].def] = job[u].name
               /\ (pc'[u] \in (Creating \ {"name"}) \cup {"setName"}
                    /\ job[u].at # Root) => NameFree(job[u].at, job[u].name)'
    <3>1. pc[u] # "idle" => job[u].at \in Containers
      BY DEF JobOK
    <3> QED
      BY <2>3, <2>4, <2>5, <2>8, <3>1 DEF StillFree
  <2> QED
    BY <2>3, <2>6, <2>7, <2>8 DEF StillFree
<1>8. DistinctBelowRoot'
  BY DEF RaceAssumption, RaceTypeOK, JobOK, HeldWhere, PlacedOnce,
         DistinctBelowRoot, StillFree, NameFree, Exists, InHand, InList,
         Containers
<1>9. OwnId'
  BY DEF RaceAssumption, RaceTypeOK, JobOK, OwnId, MapSound
<1>10. MapComplete'
  BY DEF RaceAssumption, RaceTypeOK, JobOK, OwnId, MapSound, MapComplete,
         InMap, HeldOnce, HeldWhere, Exists, InHand, InList
<1>11. MapSound'
  BY DEF RaceAssumption, RaceTypeOK, JobOK, Jobs, OwnId, MapSound, MapComplete,
         InMap, HeldOnce, HeldWhere, NoJob, Exists, InHand, InList
<1> QED
  BY <1>1, <1>2, <1>3, <1>4, <1>5, <1>6, <1>7, <1>8, <1>9, <1>10, <1>11

\* init() has found the id free.
LEMMA IdStep ==
    ASSUME RaceAssumption, RInv, NEW t \in Threads,
           CheckId(t), idmap[job[t].id] = None
    PROVE  RInv'
<1> USE DEF RInv, CheckId, At, Goto, Return, store, Places, Creating, Renaming,
            Destroying
<1>1. RaceTypeOK'
  BY DEF RaceAssumption, RaceTypeOK, JobOK, Jobs, NoJob, Containers
<1>2. JobOK'
  BY DEF RaceAssumption, RaceTypeOK, JobOK, Jobs, NoJob, Containers
<1>3. OneServed'
  BY DEF RaceAssumption, RaceTypeOK, JobOK, OneServed, BelowRoot, Containers
<1>4. PlacedOnce'
  BY DEF RaceAssumption, PlacedOnce
<1>5. HeldOnce'
  BY DEF RaceAssumption, RaceTypeOK, JobOK, HeldOnce, HeldWhere, NoJob, InHand,
         Exists, InList, OneServed, BelowRoot
<1>6. HeldWhere'
  BY DEF RaceAssumption, RaceTypeOK, JobOK, HeldOnce, HeldWhere, InHand,
         Exists, InList
<1>7. StillFree'
  BY DEF RaceAssumption, RaceTypeOK, JobOK, OneServed, BelowRoot, HeldOnce,
         HeldWhere, StillFree, NameFree, Exists, InHand, InList
<1>8. DistinctBelowRoot'
  BY DEF RaceAssumption, RaceTypeOK, JobOK, HeldWhere, PlacedOnce,
         DistinctBelowRoot, StillFree, NameFree, Exists, InHand, InList,
         Containers
<1>9. OwnId'
  BY DEF RaceAssumption, RaceTypeOK, JobOK, OwnId, MapSound
<1>10. MapComplete'
  BY DEF RaceAssumption, RaceTypeOK, JobOK, OwnId, MapSound, MapComplete,
         InMap, HeldOnce, HeldWhere, Exists, InHand, InList
<1>11. MapSound'
  BY DEF RaceAssumption, RaceTypeOK, JobOK, Jobs, OwnId, MapSound, MapComplete,
         InMap, HeldOnce, HeldWhere, NoJob, Exists, InHand, InList
<1> QED
  BY <1>1, <1>2, <1>3, <1>4, <1>5, <1>6, <1>7, <1>8, <1>9, <1>10, <1>11

\* addId() has its definition in the map under a free id.
LEMMA AddIdStep ==
    ASSUME RaceAssumption, RInv, NEW t \in Threads,
           AddId(t), idmap[job[t].id] = None
    PROVE  RInv'
<1> USE DEF RInv, AddId, At, Goto, Places, Creating, Renaming, Destroying
<1>1. RaceTypeOK'
  <2>1. job[t].id \in Ids /\ job[t].def \in Defs
    BY DEF JobOK
  <2>2. /\ id' \in [Defs -> Ids \cup {None}]
        /\ idmap' \in [Ids -> Defs \cup {None}]
    BY <2>1 DEF RaceTypeOK
  <2> QED
    BY <2>2 DEF RaceTypeOK
<1>2. JobOK'
  BY DEF RaceAssumption, RaceTypeOK, JobOK, Jobs, NoJob, Containers
<1>3. OneServed'
  BY DEF RaceAssumption, RaceTypeOK, JobOK, OneServed, BelowRoot, Containers
<1>4. PlacedOnce'
  BY DEF RaceAssumption, PlacedOnce
<1>5. HeldOnce'
  BY DEF RaceAssumption, RaceTypeOK, JobOK, HeldOnce, HeldWhere, NoJob, InHand,
         Exists, InList, OneServed, BelowRoot
<1>6. HeldWhere'
  BY DEF RaceAssumption, RaceTypeOK, JobOK, HeldOnce, HeldWhere, InHand,
         Exists, InList
<1>7. StillFree'
  BY DEF RaceAssumption, RaceTypeOK, JobOK, OneServed, BelowRoot, HeldOnce,
         HeldWhere, StillFree, NameFree, Exists, InHand, InList
<1>8. DistinctBelowRoot'
  BY DEF RaceAssumption, RaceTypeOK, JobOK, HeldWhere, PlacedOnce,
         DistinctBelowRoot, StillFree, NameFree, Exists, InHand, InList,
         Containers
<1>9. OwnId'
  BY DEF RaceAssumption, RaceTypeOK, JobOK, OwnId, MapSound
<1>10. MapComplete'
  <2>1. \A x \in Defs : InMap(x) /\ x # job[t].def => InMap(x)'
    BY DEF RaceAssumption, RaceTypeOK, JobOK, InMap
  <2>2. InMap(job[t].def)'
    BY DEF RaceTypeOK, JobOK, InMap
  <2>3. \A c \in Containers : \A k \in DOMAIN members[c] :
            members[c][k] \in Defs /\ members[c][k] # job[t].def
    BY DEF RaceTypeOK, HeldWhere, Exists, InList
  <2> QED
    BY <2>1, <2>2, <2>3 DEF RaceTypeOK, JobOK, MapComplete, HeldOnce
<1>11. MapSound'
  <2>1. \A i \in Ids : idmap'[i] = IF i = job[t].id THEN job[t].def ELSE idmap[i]
    BY DEF RaceTypeOK
  <2>2. (\A x : InHand(x)' <=> InHand(x)) /\ (\A x : Exists(x)' <=> Exists(x))
    BY DEF InHand, Exists, InList
  <2>3. InHand(job[t].def)
    BY DEF InHand
  <2>4. \A u \in Threads : u # t => pc'[u] = pc[u]
    BY DEF RaceTypeOK
  <2>5. pc'[t] = "contain"
    BY DEF RaceTypeOK
  <2> QED
    BY <2>1, <2>2, <2>3, <2>4, <2>5 DEF MapSound, HeldOnce
<1> QED
  BY <1>1, <1>2, <1>3, <1>4, <1>5, <1>6, <1>7, <1>8, <1>9, <1>10, <1>11

\* name(v) has found the name free.
LEMMA CheckRenameStep ==
    ASSUME RaceAssumption, RInv, NEW t \in Threads,
           CheckRename(t), NameFree(job[t].at, job[t].name)
    PROVE  RInv'
<1> USE DEF RInv, CheckRename, At, Goto, Return, store, Places, Creating,
            Renaming, Destroying
<1>1. RaceTypeOK'
  BY DEF RaceAssumption, RaceTypeOK, JobOK, Jobs, NoJob, Containers
<1>2. JobOK'
  BY DEF RaceAssumption, RaceTypeOK, JobOK, Jobs, NoJob, Containers
<1>3. OneServed'
  BY DEF RaceAssumption, RaceTypeOK, JobOK, OneServed, BelowRoot, Containers
<1>4. PlacedOnce'
  BY DEF RaceAssumption, PlacedOnce
<1>5. HeldOnce'
  BY DEF RaceAssumption, RaceTypeOK, JobOK, HeldOnce, HeldWhere, NoJob, InHand,
         Exists, InList, OneServed, BelowRoot
<1>6. HeldWhere'
  BY DEF RaceAssumption, RaceTypeOK, JobOK, HeldOnce, HeldWhere, InHand,
         Exists, InList
<1>7. StillFree'
  BY DEF RaceAssumption, RaceTypeOK, JobOK, OneServed, BelowRoot, HeldOnce,
         HeldWhere, StillFree, NameFree, Exists, InHand, InList
<1>8. DistinctBelowRoot'
  BY DEF RaceAssumption, RaceTypeOK, JobOK, HeldWhere, PlacedOnce,
         DistinctBelowRoot, StillFree, NameFree, Exists, InHand, InList,
         Containers
<1>9. OwnId'
  BY DEF RaceAssumption, RaceTypeOK, JobOK, OwnId, MapSound
<1>10. MapComplete'
  BY DEF RaceAssumption, RaceTypeOK, JobOK, OwnId, MapSound, MapComplete,
         InMap, HeldOnce, HeldWhere, Exists, InHand, InList
<1>11. MapSound'
  BY DEF RaceAssumption, RaceTypeOK, JobOK, Jobs, OwnId, MapSound, MapComplete,
         InMap, HeldOnce, HeldWhere, NoJob, Exists, InHand, InList
<1> QED
  BY <1>1, <1>2, <1>3, <1>4, <1>5, <1>6, <1>7, <1>8, <1>9, <1>10, <1>11

\* name(v) takes a name that is still free.
LEMMA SetNameStep ==
    ASSUME RaceAssumption, RInv, NEW t \in Threads,
           SetName(t)
    PROVE  RInv'
<1> USE DEF RInv, SetName, At, Return, Places, Creating, Renaming, Destroying
<1>1. RaceTypeOK'
  BY DEF RaceAssumption, RaceTypeOK, JobOK, Jobs, NoJob, Containers
<1>2. JobOK'
  BY DEF RaceAssumption, RaceTypeOK, JobOK, Jobs, NoJob, Containers
<1>3. OneServed'
  BY DEF RaceAssumption, RaceTypeOK, JobOK, OneServed, BelowRoot, Containers
<1>4. PlacedOnce'
  BY DEF RaceAssumption, PlacedOnce
<1>5. HeldOnce'
  BY DEF RaceAssumption, RaceTypeOK, JobOK, HeldOnce, HeldWhere, NoJob, InHand,
         Exists, InList, OneServed, BelowRoot
<1>6. HeldWhere'
  BY DEF RaceAssumption, RaceTypeOK, JobOK, HeldOnce, HeldWhere, InHand,
         Exists, InList
<1>7. StillFree'
  BY DEF RaceAssumption, RaceTypeOK, JobOK, OneServed, BelowRoot, HeldOnce,
         HeldWhere, StillFree, NameFree, Exists, InHand, InList
<1>8. DistinctBelowRoot'
  BY DEF RaceAssumption, RaceTypeOK, JobOK, HeldWhere, PlacedOnce,
         DistinctBelowRoot, StillFree, NameFree, Exists, InHand, InList,
         Containers
<1>9. OwnId'
  BY DEF RaceAssumption, RaceTypeOK, JobOK, OwnId, MapSound
<1>10. MapComplete'
  BY DEF RaceAssumption, RaceTypeOK, JobOK, OwnId, MapSound, MapComplete,
         InMap, HeldOnce, HeldWhere, Exists, InHand, InList
<1>11. MapSound'
  BY DEF RaceAssumption, RaceTypeOK, JobOK, Jobs, OwnId, MapSound, MapComplete,
         InMap, HeldOnce, HeldWhere, NoJob, Exists, InHand, InList
<1> QED
  BY <1>1, <1>2, <1>3, <1>4, <1>5, <1>6, <1>7, <1>8, <1>9, <1>10, <1>11

\* uncheckedDestroy() takes the id out of the map last.
LEMMA RemoveIdStep ==
    ASSUME RaceAssumption, RInv, NEW t \in Threads,
           RemoveId(t)
    PROVE  RInv'
<1> USE DEF RInv, RemoveId, At, Return, Places, Creating, Renaming, Destroying
<1> DEFINE d == job[t].def
<1>0. d \in Defs /\ id[d] \in Ids /\ idmap[id[d]] = d /\ d # None
  BY DEF RaceAssumption, JobOK, MapComplete, InMap
<1> USE <1>0
<1>1. RaceTypeOK'
  <2>1. job' \in [Threads -> Jobs]
    BY DEF RaceTypeOK, Jobs, NoJob
  <2> QED
    BY <2>1 DEF RaceTypeOK
<1>2. JobOK'
  BY DEF RaceAssumption, RaceTypeOK, JobOK, Jobs, NoJob, Containers
<1>3. OneServed'
  BY DEF RaceAssumption, RaceTypeOK, JobOK, OneServed, BelowRoot, Containers
<1>4. PlacedOnce'
  BY DEF RaceAssumption, PlacedOnce
<1>5. HeldOnce'
  BY DEF RaceAssumption, RaceTypeOK, JobOK, HeldOnce, HeldWhere, NoJob, InHand,
         Exists, InList, OneServed, BelowRoot
<1>6. HeldWhere'
  BY DEF RaceAssumption, RaceTypeOK, JobOK, HeldOnce, HeldWhere, InHand,
         Exists, InList
<1>7. StillFree'
  BY DEF RaceAssumption, RaceTypeOK, JobOK, OneServed, BelowRoot, HeldOnce,
         HeldWhere, StillFree, NameFree, Exists, InHand, InList
<1>8. DistinctBelowRoot'
  BY DEF RaceAssumption, RaceTypeOK, JobOK, HeldWhere, PlacedOnce,
         DistinctBelowRoot, StillFree, NameFree, Exists, InHand, InList,
         Containers
<1>9. OwnId'
  BY DEF RaceAssumption, RaceTypeOK, JobOK, OwnId, MapSound
<1>10. MapComplete'
  BY DEF RaceAssumption, RaceTypeOK, JobOK, OwnId, MapSound, MapComplete,
         InMap, HeldOnce, HeldWhere, Exists, InHand, InList
<1>11. MapSound'
  <2>1. \A i \in Ids : idmap'[i] = IF i = id[d] THEN None ELSE idmap[i]
    BY <1>0 DEF RaceTypeOK
  <2>2. \A i \in Ids : idmap'[i] # None => idmap[i] # d
    BY <2>1, <1>0 DEF RaceAssumption, OwnId
  <2>3. \A x : Exists(x)' <=> Exists(x)
    BY DEF Exists, InList
  <2>4. \A x : InHand(x) /\ x # d => InHand(x)'
    BY <1>0 DEF RaceTypeOK, InHand
  <2>5. \A u \in Threads : u # t => pc'[u] = pc[u] /\ job'[u] = job[u]
    BY <1>0 DEF RaceTypeOK
  <2>6. pc'[t] = "idle" /\ \A u \in Threads : pc'[u] # "idle" => job[u].def # None
    BY <1>0 DEF RaceTypeOK, JobOK, RaceAssumption
  <2> QED
    BY <2>1, <2>2, <2>3, <2>4, <2>5, <2>6 DEF MapSound
<1> QED
  BY <1>1, <1>2, <1>3, <1>4, <1>5, <1>6, <1>7, <1>8, <1>9, <1>10, <1>11

\* addContained() puts the definition that init() made in its container.
LEMMA AddContainedStep ==
    ASSUME RaceAssumption, RInv, NEW t \in Threads,
           AddContained(t), ~ InList(job[t].at, job[t].def)
    PROVE  RInv'
<1> USE DEF RInv, AddContained, At, Return, Places, Creating, Renaming,
            Destroying
<1> DEFINE c == job[t].at
           d == job[t].def
           last == Len(members[c]) + 1
<1>a. /\ c \in Containers /\ d \in Defs /\ ~ Exists(d) /\ InMap(d)
      /\ name[d] = job[t].name
      /\ c # Root => NameFree(c, name[d])
  BY DEF JobOK, HeldWhere, MapComplete, StillFree
<1>b. /\ members' \in [Containers -> Seq(Defs)]
      /\ \A e \in Containers \ {c} : members'[e] = members[e]
      /\ DOMAIN members'[c] = DOMAIN members[c] \cup {last}
      /\ \A k \in DOMAIN members[c] : members'[c][k] = members[c][k]
      /\ members'[c][last] = d
  BY <1>a, Appended
<1> HIDE DEF c, d, last
<1>c. \A e \in Containers : \A x : InList(e, x)' <=> InList(e, x) \/ (e = c /\ x = d)
  <2> HIDE DEF RInv, AddContained, At, Return
  <2>1. ASSUME NEW e \in Containers \ {c}, NEW x PROVE InList(e, x)' <=> InList(e, x)
    BY <1>b DEF InList
  <2>2. ASSUME NEW e \in Containers, e = c, NEW x
        PROVE  InList(e, x)' <=> InList(e, x) \/ x = d
    <3>1. InList(e, x)' <=> \E k \in DOMAIN members[e] \cup {last} : members'[e][k] = x
      BY <1>b, <2>2 DEF InList
    <3>2. ASSUME NEW k \in DOMAIN members[e] PROVE members'[e][k] = members[e][k]
      BY <1>b, <2>2
    <3> QED
      BY <1>b, <2>2, <3>1, <3>2 DEF InList
  <2> QED
    BY <2>1, <2>2
<1>d. \A x : Exists(x)' <=> Exists(x) \/ x = d
  BY <1>a, <1>c DEF Exists
<1>e. /\ pc'[t] = "idle" /\ job'[t] = NoJob
      /\ \A u \in Threads \ {t} : pc'[u] = pc[u] /\ job'[u] = job[u]
  BY DEF RaceTypeOK
<1>f. \A e \in Containers : \A j \in DOMAIN members'[e] :
        \/ /\ j \in DOMAIN members[e] /\ members'[e][j] = members[e][j]
           /\ members[e][j] # d
        \/ e = c /\ j = last /\ members'[e][j] = d
  BY <1>a, <1>b DEF Exists, InList
<1>1. RaceTypeOK'
  <2>1. NoJob \in Jobs
    BY DEF Jobs, NoJob
  <2>2. job' \in [Threads -> Jobs] /\ pc' \in [Threads -> Places]
    <3>1. job' = [job EXCEPT ![t] = NoJob] /\ job \in [Threads -> Jobs]
      BY DEF RaceTypeOK
    <3>2. job' \in [Threads -> Jobs]
      BY <2>1, <3>1
    <3> QED
      BY <3>2 DEF RaceTypeOK
  <2>3. served' \in Threads \cup {None} /\ died' \in BOOLEAN
    BY DEF RaceTypeOK
  <2> QED
    BY <1>b, <2>2, <2>3 DEF RaceTypeOK
<1>2. JobOK'
  BY <1>e DEF JobOK
<1>3. OneServed'
  BY DEF RaceAssumption, RaceTypeOK, JobOK, OneServed, BelowRoot, Containers
<1>4. PlacedOnce'
  BY <1>f DEF PlacedOnce
<1>5. HeldOnce'
  BY <1>e DEF RaceAssumption, RaceTypeOK, JobOK, HeldOnce, NoJob
<1>6. HeldWhere'
  BY <1>c, <1>d, <1>e DEF RaceTypeOK, JobOK, HeldWhere, HeldOnce, d
<1>7. StillFree'
  <2>1. \A e \in Containers \ {c} : \A n : NameFree(e, n)' <=> NameFree(e, n)
    BY <1>b DEF NameFree
  <2>2. \A u \in Threads \ {t} : BelowRoot(u) => c = Root
    BY DEF OneServed, BelowRoot, c
  <2>3. ASSUME NEW u \in Threads \ {t}, job[u].at # Root,
               pc[u] \in (Creating \ {"name"}) \cup {"setName"}
        PROVE  NameFree(job[u].at, job[u].name)'
    <3>1. job[u].at \in Containers \ {c} /\ NameFree(job[u].at, job[u].name)
      BY <2>2, <2>3 DEF StillFree, JobOK, BelowRoot
    <3> QED
      BY <1>e, <2>1, <3>1
  <2> QED
    BY <1>e, <2>3 DEF StillFree
<1>8. DistinctBelowRoot'
  <2>1. ASSUME NEW e \in Modules, NEW j \in DOMAIN members'[e],
               NEW k \in DOMAIN members'[e], j # k
        PROVE  name[members'[e][j]] # name[members'[e][k]]
    <3>1. e \in Containers /\ e # Root
      BY DEF RaceAssumption, Containers
    <3> QED
      BY <1>a, <1>f, <2>1, <3>1 DEF DistinctBelowRoot, NameFree
  <2> QED
    BY <2>1 DEF DistinctBelowRoot
<1>9. OwnId'
  BY DEF RaceAssumption, RaceTypeOK, JobOK, OwnId, MapSound
<1>10. MapComplete'
  <2>1. \A e \in Containers : \A j \in DOMAIN members'[e] : InMap(members'[e][j])
    BY <1>a, <1>f DEF MapComplete
  <2>2. \A x : InMap(x)' <=> InMap(x)
    BY DEF InMap
  <2> QED
    BY <1>e, <2>1, <2>2 DEF MapComplete
<1>11. MapSound'
  <2>1. \A x : InHand(x) /\ x # d => InHand(x)'
    BY <1>e DEF InHand, d
  <2> QED
    BY <1>d, <1>e, <2>1 DEF MapSound
<1> QED
  BY <1>1, <1>2, <1>3, <1>4, <1>5, <1>6, <1>7, <1>8, <1>9, <1>10, <1>11

\* removeContained() takes one definition, in its one place, out of the list.
LEMMA RemoveContainedStep ==
    ASSUME RaceAssumption, RInv, NEW t \in Threads,
           RemoveContained(t), InList(job[t].at, job[t].def)
    PROVE  RInv'
<1> USE DEF RInv, RemoveContained, At, Goto, Places, Creating, Renaming,
            Destroying
<1> DEFINE c == job[t].at
           d == job[t].def
           p == FirstIn(c, d)
           old(i) == IF i < p THEN i ELSE i + 1
<1>a. /\ c \in Containers /\ d \in Defs /\ InList(c, d)
      /\ p \in DOMAIN members[c] /\ members[c][p] = d
  BY Found DEF JobOK, HeldWhere
<1>b. /\ members' \in [Containers -> Seq(Defs)]
      /\ \A e \in Containers \ {c} : members'[e] = members[e]
      /\ \A j \in DOMAIN members'[c] :
            /\ old(j) \in DOMAIN members[c] \ {p}
            /\ members'[c][j] = members[c][old(j)]
      /\ \A i \in DOMAIN members[c] \ {p} :
            \E j \in DOMAIN members'[c] : members'[c][j] = members[c][i]
  BY <1>a, Erased
<1>c. \A e \in Containers : \A i \in DOMAIN members[e] :
        members[e][i] = d <=> e = c /\ i = p
  BY <1>a DEF PlacedOnce
<1> HIDE DEF c, d, p, old
<1>d. \A e \in Containers : \A x : InList(e, x)' <=> InList(e, x) /\ x # d
  BY <1>a, <1>b, <1>c DEF InList
<1>e. \A x : Exists(x)' <=> Exists(x) /\ x # d
  BY <1>d DEF Exists
<1>f. /\ pc'[t] = "removeId" /\ job' = job
      /\ \A u \in Threads \ {t} : pc'[u] = pc[u]
  BY DEF RaceTypeOK
<1>g. /\ \A e \in Containers : members[e] \in Seq(Defs) /\ members'[e] \in Seq(Defs)
      /\ p \in Nat
      /\ \A e \in Containers : DOMAIN members'[e] \subseteq Nat
  BY <1>a, <1>b, LenProperties DEF RaceTypeOK
<1>h. \A i, j \in DOMAIN members'[c] : old(i) = old(j) => i = j
  BY <1>a, <1>g DEF old
<1>1. RaceTypeOK'
  BY <1>b DEF RaceTypeOK
<1>2. JobOK'
  BY DEF RaceAssumption, RaceTypeOK, JobOK, Jobs, NoJob, Containers
<1>3. OneServed'
  BY DEF RaceAssumption, RaceTypeOK, JobOK, OneServed, BelowRoot, Containers
<1>4. PlacedOnce'
  <2>1. ASSUME NEW e \in Containers, NEW f \in Containers,
               NEW j \in DOMAIN members'[e], NEW k \in DOMAIN members'[f],
               members'[e][j] = members'[f][k]
        PROVE  e = f /\ j = k
    <3>1. e # c => j \in DOMAIN members[e] /\ members'[e][j] = members[e][j]
      BY <1>b
    <3>2. f # c => k \in DOMAIN members[f] /\ members'[f][k] = members[f][k]
      BY <1>b
    <3> QED
      BY <1>a, <1>b, <1>h, <2>1, <3>1, <3>2 DEF PlacedOnce
  <2> QED
    BY <2>1 DEF PlacedOnce
<1>5. HeldOnce'
  BY DEF RaceAssumption, RaceTypeOK, JobOK, HeldOnce, HeldWhere, NoJob, InHand,
         Exists, InList, OneServed, BelowRoot
<1>6. HeldWhere'
  BY <1>d, <1>e, <1>f DEF RaceTypeOK, JobOK, HeldWhere, HeldOnce, d
<1>7. StillFree'
  <2>1. \A e \in Containers : \A n : NameFree(e, n) => NameFree(e, n)'
    BY <1>d, NameFreeMembers DEF NameFree, InList
  <2> QED
    BY <1>f, <2>1 DEF StillFree, JobOK
<1>8. DistinctBelowRoot'
  <2>1. ASSUME NEW e \in Modules, NEW j \in DOMAIN members'[e],
               NEW k \in DOMAIN members'[e], j # k
        PROVE  name[members'[e][j]] # name[members'[e][k]]
    <3>1. e \in Containers
      BY DEF Containers
    <3>2. CASE e = c
      <4>1. old(j) # old(k)
        BY <1>h, <2>1, <3>2
      <4> QED
        BY <1>b, <3>2, <4>1 DEF DistinctBelowRoot
    <3>3. CASE e # c
      BY <1>b, <2>1, <3>1, <3>3 DEF DistinctBelowRoot
    <3> QED
      BY <3>2, <3>3
  <2> QED
    BY <2>1 DEF DistinctBelowRoot
<1>9. OwnId'
  BY DEF RaceAssumption, RaceTypeOK, JobOK, OwnId, MapSound
<1>10. MapComplete'
  <2>1. ASSUME NEW e \in Containers, NEW j \in DOMAIN members'[e]
        PROVE  InMap(members'[e][j])
    <3>1. \E k \in DOMAIN members[e] : members'[e][j] = members[e][k]
      BY <1>a, <1>b, <2>1
    <3> QED
      BY <3>1 DEF MapComplete
  <2>2. \A x : InMap(x)' <=> InMap(x)
    BY DEF InMap
  <2> QED
    BY <1>a, <1>f, <2>1, <2>2 DEF MapComplete, d
<1>11. MapSound'
  <2>1. InHand(d) /\ \A x : InHand(x)' <=> InHand(x)
    BY DEF InHand, d
  <2> QED
    BY <1>e, <1>f, <2>1 DEF MapSound
<1> QED
  BY <1>1, <1>2, <1>3, <1>4, <1>5, <1>6, <1>7, <1>8, <1>9, <1>10, <1>11

-----------------------------------------------------------------------------
(* Theorems.                                                               *)

\* Every step keeps the invariant.
LEMMA RInvStep ==
    ASSUME RaceAssumption PROVE RInv /\ [Next]_vars => RInv'
<1> SUFFICES ASSUME RInv, [Next]_vars PROVE RInv'
  OBVIOUS
<1>1. ASSUME NEW t \in Threads, NEW c \in Containers, NEW d \in Defs,
             NEW n \in Names, NEW i \in Ids, BeginCreate(t, c, d, n, i)
      PROVE RInv'
  BY <1>1, BeginCreateStep
<1>2. ASSUME NEW t \in Threads, NEW c \in Containers, NEW d \in Defs,
             NEW n \in Names, BeginRename(t, c, d, n)
      PROVE RInv'
  BY <1>2, BeginRenameStep
<1>3. ASSUME NEW t \in Threads, NEW c \in Containers, NEW d \in Defs,
             BeginDestroy(t, c, d)
      PROVE RInv'
  BY <1>3, BeginDestroyStep
<1>4. ASSUME NEW t \in Threads, CheckName(t) PROVE RInv'
  BY <1>4, NameStep, ReturnStep DEF CheckName, At, store
<1>5. ASSUME NEW t \in Threads, CheckId(t) PROVE RInv'
  BY <1>5, IdStep, ReturnStep DEF CheckId, At
<1>6. ASSUME NEW t \in Threads, AddId(t) PROVE RInv'
  BY <1>6, AddIdStep, DiesStep DEF AddId, store
<1>7. ASSUME NEW t \in Threads, AddContained(t) PROVE RInv'
  BY <1>7, AddContainedStep, DiesStep DEF AddContained, store
<1>8. ASSUME NEW t \in Threads, CheckRename(t) PROVE RInv'
  BY <1>8, CheckRenameStep, ReturnStep DEF CheckRename, At, Renaming
<1>9. ASSUME NEW t \in Threads, SetName(t) PROVE RInv'
  BY <1>9, SetNameStep
<1>10. ASSUME NEW t \in Threads, RemoveContained(t) PROVE RInv'
  BY <1>10, RemoveContainedStep, DiesStep DEF RemoveContained, store
<1>11. ASSUME NEW t \in Threads, RemoveId(t) PROVE RInv'
  BY <1>11, RemoveIdStep
<1>12. CASE UNCHANGED vars
  BY <1>12
     DEF vars, RInv, RaceTypeOK, JobOK, OneServed, BelowRoot, PlacedOnce,
         HeldOnce, HeldWhere, StillFree, DistinctBelowRoot, OwnId, MapComplete,
         MapSound, InMap, InHand, Exists, InList, NameFree
<1> QED
  BY <1>1, <1>2, <1>3, <1>4, <1>5, <1>6, <1>7, <1>8, <1>9, <1>10, <1>11, <1>12
     DEF Next, Step

\* A repository without definitions, and no request.
LEMMA InitRInv == ASSUME RaceAssumption PROVE Init => RInv
<1> SUFFICES ASSUME Init PROVE RInv
  OBVIOUS
<1> USE DEF Init
<1>1. RaceTypeOK
  <2>1. \A c \in Containers : members[c] \in Seq(Defs)
    BY EmptySeq
  <2> QED
    BY <2>1 DEF RaceTypeOK, Places, Jobs, NoJob
<1>2. JobOK /\ OneServed /\ HeldOnce /\ HeldWhere /\ StillFree
  BY DEF JobOK, OneServed, BelowRoot, HeldOnce, HeldWhere, StillFree,
         Creating, Renaming, Destroying
<1>3. PlacedOnce /\ DistinctBelowRoot
  BY DEF PlacedOnce, DistinctBelowRoot, Containers
<1>4. OwnId /\ MapComplete /\ MapSound
  BY DEF OwnId, MapComplete, MapSound
<1> QED
  BY <1>1, <1>2, <1>3, <1>4 DEF RInv

\* In all the interleavings of requests on the Repository with those that IRpoa
\* serves, a definition is in one list, is in the hands of one request, and is
\* in the id map from addId() to removeId() (Contained.cc:128-151).
THEOREM RaceInvariance == Spec => []RInv
<1>1. RaceAssumption
  BY RaceAssumption
<1> QED
  BY <1>1, InitRInv, RInvStep, PTL DEF Spec

\* Below the Repository no two definitions of a container ever have one name,
\* however many requests on the Repository run beside: what checkName() found
\* out still holds when the request uses it, because requests on a module wait
\* for IRpoa (Repository.cc:580-589).
THEOREM NamesDistinctBelowRoot == Spec => []DistinctBelowRoot
BY RaceInvariance, PTL DEF RInv

\* What lookup_id() finds is what the containers hold, but for the definitions
\* that some request is creating or destroying (Repository.cc:498-520).
THEOREM IdsRegistered == Spec => []Registered
<1>1. RInv => Registered
  BY DEF RInv, Registered, MapComplete, InMap, MapSound
<1> QED
  BY <1>1, RaceInvariance, PTL

\* Of the four assertions that requests meet, addContained()'s, removeContained()'s
\* and removeId()'s never fail: a definition is destroyed and joins its container
\* once.  Only addId()'s can (Repository.cc:498-510, Container.cc:516-518, 549-557).
THEOREM AssertionsHold == Spec => OnlyAddIdAsserts
<1>1. RInv /\ [Next]_vars => [died' # died => \E t \in Threads : AddId(t)]_vars
  <2> SUFFICES ASSUME RInv, Next, died' # died PROVE \E t \in Threads : AddId(t)
    BY DEF vars
  <2>1. ASSUME NEW t \in Threads, AddContained(t) PROVE FALSE
    BY <2>1 DEF AddContained, At, RInv, HeldWhere, JobOK, Exists, Creating
  <2>2. ASSUME NEW t \in Threads, RemoveContained(t) PROVE FALSE
    BY <2>2 DEF RemoveContained, At, RInv, HeldWhere
  <2>3. ASSUME NEW t \in Threads, RemoveId(t) PROVE FALSE
    <3>1. idmap[id[job[t].def]] = job[t].def /\ job[t].def \in Defs
      BY <2>3 DEF RemoveId, At, RInv, MapComplete, InMap, JobOK
    <3> QED
      BY <2>3, <3>1, RaceAssumption DEF RemoveId, RaceAssumption
  <2> QED
    BY <2>1, <2>2, <2>3
       DEF Next, Step, BeginCreate, BeginRename, BeginDestroy, CheckName, CheckId,
           CheckRename, SetName
<1> QED
  BY <1>1, RaceInvariance, PTL DEF Spec, OnlyAddIdAsserts

=============================================================================
