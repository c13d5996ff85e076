-------------------------- MODULE IfrObjectsProofs --------------------------
(***************************************************************************)
(* Proofs about IfrObjects, IfrReads and IfrLookupName, for every value of *)
(* their constants: any number of definitions, of identifiers and of ids,  *)
(* any mix of kinds, with or without definitions loaded at the start.      *)
(*                                                                         *)
(* None of the invariants is inductive alone.  That no two siblings share  *)
(* a name needs _contents and _defined_in to agree, because the check for  *)
(* the name walks _contents; that no dependency dangles needs to know that *)
(* the Repository owns none, because destroy() works on it too.  IInv      *)
(* joins them, and one lemma for each action shows the action keeps it.    *)
(*                                                                         *)
(* What clients read follows from IInv:                                    *)
(*   - a scoped name leads to the one definition that its container chain  *)
(*     spells (LookupFinds).  Names tell the definitions of one container  *)
(*     apart and only containers have contents (Holders), so lookup() and  *)
(*     the chain that spells the name go the same way, step by step;       *)
(*   - lookup_name() finds what is within its levels (LookupNameFinds): by *)
(*     induction on the levels, and where none are given because there are *)
(*     no more levels than definitions;                                    *)
(*   - an absolute name goes stale from above only: a step either leaves a *)
(*     definition's own name and place alone, or writes its absolute name  *)
(*     anew from that of its container (NameStaleOnlyFromAbove).           *)
(***************************************************************************)
EXTENDS IfrLookupName, FiniteSetTheorems, SequenceTheorems, WellFoundedInduction,
        TLAPS

\* What no request changes: the primitive definition stays in the object map
\* and keeps its kind, and the Repository refers to no type.
FixedServants ==
    /\ kind[Prim] = "Primitive"
    /\ IsActive(Prim)
    /\ deps[Root] = {}
    /\ refs[Root] = {}

IInv ==
    /\ TypeOK
    /\ FixedServants
    /\ IdmapSound
    /\ ContainmentSound
    /\ SiblingNamesDistinct
    /\ DependencySound
    /\ UnresolvedMeansGone

-----------------------------------------------------------------------------
(* Facts about the operators.                                              *)

\* The recursion of containedObjectSet() misses nothing: the set it returns
\* holds the object and, with each of its members, that member's contents.
LEMMA ContainedObjectSetClosed ==
    ASSUME TypeOK, NEW o \in Objs \cup {Root}
    PROVE  /\ o \in ContainedObjectSet(o)
           /\ \A d \in ContainedObjectSet(o) :
                contents[d] \subseteq ContainedObjectSet(o)
           /\ ContainedObjectSet(o) \subseteq Objs \cup {o}
<1>1. contents[o] \subseteq Below(o)
  BY DEF TypeOK, Below, Servants
<1>2. \A d \in Below(o) : contents[d] \subseteq Below(o)
  BY DEF TypeOK, Below, Servants
<1>3. Below(o) \subseteq Objs
  BY DEF Below
<1> QED
  BY <1>1, <1>2, <1>3 DEF ContainedObjectSet

\* A setter stores references to definitions clients have seen, and nothing else.
LEMMA RefValuesType ==
    ASSUME NEW k, NEW R \in RefValues(k)
    PROVE  R \subseteq TypeReferences
<1>1. CASE k \in OneRefKinds
  BY <1>1 DEF RefValues
<1>2. CASE k \notin OneRefKinds /\ k \in ManyRefKinds
  BY <1>2 DEF RefValues
<1>3. CASE k \notin OneRefKinds /\ k \notin ManyRefKinds
  BY <1>3 DEF RefValues
<1> QED
  BY <1>1, <1>2, <1>3

\* After a setter, the object that was set holds only references to definitions
\* that are alive, with a dependency, or gone, without one; the dependencies
\* of all other objects are as before.
LEMMA StoreReferencesSound ==
    ASSUME TypeOK, FixedServants,
           NEW o \in Objs, NEW k, NEW R \in RefValues(k), StoreReferences(o, R)
    PROVE  /\ refs' \in [Servants -> SUBSET (Objs \cup {Prim})]
           /\ deps' \in [Servants -> SUBSET (Objs \cup {Prim})]
           /\ \A x \in Servants \ {o} : refs'[x] = refs[x] /\ deps'[x] = deps[x]
           /\ \A t \in deps'[o] : IsActive(t) /\ t \in refs'[o]
           /\ \A t \in refs'[o] \ deps'[o] : life[t] = "gone"
<1>1. R \subseteq TypeReferences
  BY RefValuesType
<1>2. TypeReferences \subseteq Objs \cup {Prim}
  BY DEF TypeReferences
<1>3. refs'[o] = R /\ deps'[o] = Resolved(R)
  BY DEF TypeOK, StoreReferences, Servants
<1>4. \A t \in R : IsActive(t) \/ life[t] = "gone"
  BY <1>1 DEF TypeReferences, TypeOK, FixedServants, IsActive, Servants
<1>5. /\ refs' \in [Servants -> SUBSET (Objs \cup {Prim})]
      /\ deps' \in [Servants -> SUBSET (Objs \cup {Prim})]
  BY <1>1, <1>2 DEF TypeOK, StoreReferences, Resolved, Servants
<1>6. \A x \in Servants \ {o} : refs'[x] = refs[x] /\ deps'[x] = deps[x]
  BY DEF TypeOK, StoreReferences
<1> QED
  BY <1>3, <1>4, <1>5, <1>6 DEF Resolved

-----------------------------------------------------------------------------
(* Each action keeps the invariant.                                        *)

LEMMA InitIInv == Init => IInv
<1> SUFFICES ASSUME Init PROVE IInv
  OBVIOUS
<1> USE ConstantsAssumption
<1>1. PICK ks \in [Loaded -> Kinds \cap Containable("Repository")] :
        /\ kind = [s \in Servants |->
                    IF s = Root THEN "Repository"
                    ELSE IF s = Prim THEN "Primitive"
                    ELSE IF s \in Loaded THEN ks[s] ELSE "None"]
        /\ refs = [s \in Servants |->
                    IF s \in Loaded /\ ks[s] \in OneRefKinds
                    THEN {Prim} ELSE {}]
  BY DEF Init
<1>2. PICK ix \in [Loaded -> 1..MaxIndex], ns \in [Loaded -> Names],
           is \in [Loaded -> Ids] :
        /\ \A x, y \in Loaded :
            x # y => /\ ix[x] # ix[y] /\ is[x] # is[y]
                     /\ CaseClass[ns[x]] # CaseClass[ns[y]]
        /\ index = [o \in Objs |-> IF o \in Loaded THEN ix[o] ELSE 0]
        /\ name = [o \in Objs |->
                    IF o \in Loaded THEN ns[o] ELSE NoString]
        /\ absName = [o \in Objs |-> IF o \in Loaded THEN <<ns[o]>> ELSE <<>>]
        /\ id = [o \in Objs |-> IF o \in Loaded THEN is[o] ELSE NoString]
        /\ idmap = [i \in Ids |->
                    IF \E o \in Loaded : is[o] = i
                    THEN CHOOSE o \in Loaded : is[o] = i ELSE NoObj]
  BY DEF Init
<1>3. /\ life = [s \in Servants |->
                  IF s \in Objs \ Loaded THEN "unborn" ELSE "active"]
      /\ deps = refs
      /\ definedIn = [o \in Objs |-> IF o \in Loaded THEN Root ELSE NoObj]
      /\ contents = [s \in Servants |-> IF s = Root THEN Loaded ELSE {}]
      /\ anonymous = {} /\ crash = "no"
  BY DEF Init
<1>4. \A s \in Loaded : ks[s] \in AllKinds
  BY DEF Containable, HeldByModule, TypedefKinds, AllKinds, ContainedKinds
<1>5. kind \in [Servants -> AllKinds]
  BY <1>1, <1>4 DEF Servants, AllKinds
<1>6. /\ refs \in [Servants -> SUBSET (Objs \cup {Prim})]
      /\ \A x \in Servants : refs[x] \subseteq {Prim}
      /\ \A x \in Servants \ Loaded : refs[x] = {}
  BY <1>1 DEF Servants
<1>7. \A i \in Ids : idmap[i] # NoObj =>
        idmap[i] \in Loaded /\ is[idmap[i]] = i
  BY <1>2
<1>8. /\ index \in [Objs -> Nat]
      /\ name \in [Objs -> Names \cup {NoString}]
      /\ id \in [Objs -> Ids \cup {NoString}]
      /\ idmap \in [Ids -> Objs \cup {NoObj}]
  BY <1>2, <1>7
<1>9. absName \in [Objs -> Seq(Names)]
  <2>1. \A o \in Loaded : <<ns[o]>> \in Seq(Names)
    OBVIOUS
  <2> QED
    BY <1>2, <2>1
<1>10. TypeOK
  BY <1>3, <1>5, <1>6, <1>8, <1>9 DEF TypeOK, Servants
<1>11. FixedServants
  BY <1>1, <1>3, <1>6 DEF FixedServants, IsActive, Servants
<1>12. IdmapSound
  BY <1>2, <1>3, <1>7 DEF IdmapSound, IsActive, Servants
<1>13. ContainmentSound
  BY <1>3 DEF ContainmentSound, IsActive, Servants
<1>14. SiblingNamesDistinct
  BY <1>2, <1>3 DEF SiblingNamesDistinct
<1>15. DependencySound /\ UnresolvedMeansGone
  BY <1>3, <1>6 DEF DependencySound, UnresolvedMeansGone, IsActive, Servants
<1> QED
  BY <1>10, <1>11, <1>12, <1>13, <1>14, <1>15 DEF IInv

\* A request that brings the process down, or that does nothing.
LEMMA DiesIInv ==
    ASSUME IInv, NEW site \in CrashSites, Dies(site)
    PROVE  IInv'
BY DEF Dies, IInv, TypeOK, FixedServants, IdmapSound, ContainmentSound,
       SiblingNamesDistinct, DependencySound, UnresolvedMeansGone, IsActive,
       tree, naming, ids, links

\* Facts about a container a request names.
LEMMA ContainerType ==
    ASSUME IInv, NEW c \in Servants, kind[c] \in ContainerKinds
    PROVE  c \in Objs \cup {Root} /\ c # NoObj /\ c # Prim
BY ConstantsAssumption DEF IInv, FixedServants, ContainerKinds, Servants

LEMMA AbsoluteNameType ==
    ASSUME TypeOK, NEW c \in Objs \cup {Root}, NEW n \in Names
    PROVE  AbsoluteName(c, n) \in Seq(Names)
<1>1. CASE c = Root
  BY <1>1 DEF AbsoluteName
<1>2. CASE c # Root
  BY <1>2 DEF AbsoluteName, TypeOK
<1> QED
  BY <1>1, <1>2

LEMMA CreateContainedIInv ==
    ASSUME IInv, NEW o \in Objs, NEW c \in Servants, NEW k \in ContainedKinds,
           NEW i \in Ids, NEW n \in Names, CreateContained(c, o, k, i, n)
    PROVE  IInv'
<1> USE ConstantsAssumption
<1>1. /\ life[o] = "unborn"
      /\ kind[c] \in ContainerKinds
      /\ NameFree(c, n) /\ idmap[i] = NoObj
      /\ life' = [life EXCEPT ![o] = "active"]
      /\ kind' = [kind EXCEPT ![o] = k]
      /\ definedIn' = [definedIn EXCEPT ![o] = c]
      /\ contents' = [contents EXCEPT ![c] = @ \cup {o}]
      /\ name' = [name EXCEPT ![o] = n]
      /\ absName' = [absName EXCEPT ![o] = AbsoluteName(c, n)]
      /\ id' = [id EXCEPT ![o] = i]
      /\ idmap' = [idmap EXCEPT ![i] = o]
      /\ anonymous' = anonymous /\ crash' = crash
  BY DEF CreateContained, CreateRequest
<1>2. PICK pos \in 1..MaxIndex : index' = [index EXCEPT ![o] = pos]
  BY DEF CreateContained
<1>3. PICK R \in RefValues(k) : StoreReferences(o, R)
  BY DEF CreateContained
<1>4. TypeOK /\ FixedServants
  BY DEF IInv
<1>5. /\ refs' \in [Servants -> SUBSET (Objs \cup {Prim})]
      /\ deps' \in [Servants -> SUBSET (Objs \cup {Prim})]
      /\ \A x \in Servants \ {o} : refs'[x] = refs[x] /\ deps'[x] = deps[x]
      /\ \A t \in deps'[o] : IsActive(t) /\ t \in refs'[o]
      /\ \A t \in refs'[o] \ deps'[o] : life[t] = "gone"
  BY <1>3, <1>4, StoreReferencesSound
<1>6. c \in Objs \cup {Root} /\ c # NoObj /\ c # Prim
  BY <1>1, ContainerType
<1>7. absName' \in [Objs -> Seq(Names)]
  BY <1>1, <1>4, <1>6, AbsoluteNameType DEF TypeOK
<1>8. kind' \in [Servants -> AllKinds]
  BY <1>1, <1>4 DEF TypeOK, AllKinds
<1>9. TypeOK'
  BY <1>1, <1>2, <1>4, <1>5, <1>6, <1>7, <1>8 DEF TypeOK, Servants
<1>10. FixedServants'
  BY <1>1, <1>4, <1>5 DEF FixedServants, TypeOK, IsActive, Servants
<1>11. (\A j \in Ids : idmap[j] # o) /\ definedIn[o] = NoObj
  BY <1>1 DEF IInv, IdmapSound, ContainmentSound, IsActive, Servants
<1>12. IdmapSound'
  BY <1>1, <1>4, <1>11 DEF IInv, TypeOK, IdmapSound, IsActive, Servants
<1>13. ContainmentSound'
  BY <1>1, <1>4, <1>6, <1>11 DEF IInv, TypeOK, ContainmentSound, IsActive, Servants
<1>14. \A x \in Objs : definedIn[x] = c => CaseClass[name[x]] # CaseClass[n]
  BY <1>1 DEF IInv, ContainmentSound, NameFree
<1>15. SiblingNamesDistinct'
  BY <1>1, <1>4, <1>11, <1>14 DEF IInv, TypeOK, SiblingNamesDistinct
<1>16. \A x \in Servants : (IsActive(x) => IsActive(x)')
                         /\ (life[x] = "gone" => life'[x] = "gone")
  BY <1>1, <1>4 DEF TypeOK, IsActive, Servants
<1>17. DependencySound'
  BY <1>1, <1>4, <1>5, <1>16 DEF IInv, TypeOK, DependencySound, IsActive, Servants
<1>18. UnresolvedMeansGone'
  <2> SUFFICES ASSUME NEW x \in Servants, NEW t \in refs'[x] \ deps'[x]
               PROVE  life'[t] = "gone"
    BY DEF UnresolvedMeansGone
  <2>1. t \in Servants
    BY <1>5 DEF Servants
  <2>2. life[t] = "gone"
    BY <1>5 DEF IInv, UnresolvedMeansGone
  <2> QED
    BY <2>1, <2>2, <1>16
<1> QED
  BY <1>9, <1>10, <1>12, <1>13, <1>15, <1>17, <1>18 DEF IInv

LEMMA CreateAnonymousIInv ==
    ASSUME IInv, NEW o \in Objs, NEW k \in AnonymousKinds, CreateAnonymous(o, k)
    PROVE  IInv'
<1> USE ConstantsAssumption
<1>1. /\ life[o] = "unborn"
      /\ life' = [life EXCEPT ![o] = "active"]
      /\ kind' = [kind EXCEPT ![o] = k]
      /\ anonymous' = anonymous \cup {o}
      /\ UNCHANGED <<definedIn, contents, index, name, absName, id, idmap, crash>>
  BY DEF CreateAnonymous, naming, ids
<1>2. PICK R \in RefValues(k) : StoreReferences(o, R)
  BY DEF CreateAnonymous
<1>3. TypeOK /\ FixedServants
  BY DEF IInv
<1>4. /\ refs' \in [Servants -> SUBSET (Objs \cup {Prim})]
      /\ deps' \in [Servants -> SUBSET (Objs \cup {Prim})]
      /\ \A x \in Servants \ {o} : refs'[x] = refs[x] /\ deps'[x] = deps[x]
      /\ \A t \in deps'[o] : IsActive(t) /\ t \in refs'[o]
      /\ \A t \in refs'[o] \ deps'[o] : life[t] = "gone"
  BY <1>2, <1>3, StoreReferencesSound
<1>5. TypeOK'
  BY <1>1, <1>3, <1>4 DEF TypeOK, Servants, AllKinds
<1>6. FixedServants'
  BY <1>1, <1>3, <1>4 DEF FixedServants, TypeOK, IsActive, Servants
<1>7. \A x \in Servants : (IsActive(x) => IsActive(x)')
                        /\ (life[x] = "gone" => life'[x] = "gone")
  BY <1>1, <1>3 DEF TypeOK, IsActive, Servants
<1>8. IdmapSound' /\ ContainmentSound' /\ SiblingNamesDistinct'
  BY <1>1, <1>3, <1>7
     DEF IInv, TypeOK, IdmapSound, ContainmentSound, SiblingNamesDistinct, Servants
<1>9. DependencySound'
  BY <1>1, <1>3, <1>4, <1>7 DEF IInv, TypeOK, DependencySound, IsActive, Servants
<1>10. UnresolvedMeansGone'
  <2> SUFFICES ASSUME NEW x \in Servants, NEW t \in refs'[x] \ deps'[x]
               PROVE  life'[t] = "gone"
    BY DEF UnresolvedMeansGone
  <2>1. t \in Servants
    BY <1>4 DEF Servants
  <2>2. life[t] = "gone"
    BY <1>4 DEF IInv, UnresolvedMeansGone
  <2> QED
    BY <2>1, <2>2, <1>7
<1> QED
  BY <1>5, <1>6, <1>8, <1>9, <1>10 DEF IInv

LEMMA SetReferencesIInv ==
    ASSUME IInv, NEW o \in Objs, SetReferences(o)
    PROVE  IInv'
<1> USE ConstantsAssumption
<1>1. /\ IsActive(o)
      /\ UNCHANGED <<life, kind, definedIn, contents, index, anonymous, name,
                     absName, id, idmap, crash>>
  BY DEF SetReferences, tree, naming, ids
<1>2. PICK R \in RefValues(kind[o]) : StoreReferences(o, R)
  BY DEF SetReferences
<1>3. TypeOK /\ FixedServants
  BY DEF IInv
<1>4. /\ refs' \in [Servants -> SUBSET (Objs \cup {Prim})]
      /\ deps' \in [Servants -> SUBSET (Objs \cup {Prim})]
      /\ \A x \in Servants \ {o} : refs'[x] = refs[x] /\ deps'[x] = deps[x]
      /\ \A t \in deps'[o] : IsActive(t) /\ t \in refs'[o]
      /\ \A t \in refs'[o] \ deps'[o] : life[t] = "gone"
  BY <1>2, <1>3, StoreReferencesSound
<1>5. TypeOK' /\ FixedServants'
  BY <1>1, <1>3, <1>4 DEF TypeOK, FixedServants, IsActive, Servants
<1>6. IdmapSound' /\ ContainmentSound' /\ SiblingNamesDistinct'
  BY <1>1 DEF IInv, IdmapSound, ContainmentSound, SiblingNamesDistinct, IsActive
<1>7. DependencySound'
  BY <1>1, <1>3, <1>4 DEF IInv, TypeOK, DependencySound, IsActive, Servants
<1>8. UnresolvedMeansGone'
  BY <1>1, <1>3, <1>4 DEF IInv, TypeOK, UnresolvedMeansGone, Servants
<1> QED
  BY <1>5, <1>6, <1>7, <1>8 DEF IInv

LEMMA SetIdIInv ==
    ASSUME IInv, NEW o \in Objs, NEW i \in Ids, SetId(o, i)
    PROVE  IInv'
<1> USE ConstantsAssumption
<1>1. /\ IsActive(o) /\ idmap[i] = NoObj
      /\ id' = [id EXCEPT ![o] = i]
      /\ idmap' = [idmap EXCEPT ![id[o]] = NoObj, ![i] = o]
      /\ UNCHANGED <<life, kind, definedIn, contents, index, anonymous, name,
                     absName, refs, deps, crash>>
  BY DEF SetId, ReplaceId, tree, naming, links
<1>2. TypeOK'
  BY <1>1 DEF IInv, TypeOK
<1>3. IdmapSound'
  <2> SUFFICES ASSUME NEW j \in Ids, idmap'[j] # NoObj
               PROVE  life'[idmap'[j]] = "active" /\ id'[idmap'[j]] = j
    BY DEF IdmapSound, IsActive
  <2>1. CASE j = i
    BY <1>1, <2>1 DEF IInv, TypeOK, IsActive
  <2>2. CASE j # i
    <3>1. j # id[o] /\ idmap'[j] = idmap[j]
      BY <1>1, <2>2 DEF IInv, TypeOK
    <3>2. IsActive(idmap[j]) /\ id[idmap[j]] = j
      BY <3>1 DEF IInv, IdmapSound
    <3> QED
      BY <1>1, <3>1, <3>2 DEF IInv, TypeOK, IsActive
  <2> QED
    BY <2>1, <2>2
<1>4. /\ FixedServants' /\ ContainmentSound' /\ SiblingNamesDistinct'
      /\ DependencySound' /\ UnresolvedMeansGone'
  BY <1>1 DEF IInv, FixedServants, ContainmentSound, SiblingNamesDistinct,
              DependencySound, UnresolvedMeansGone, IsActive
<1> QED
  BY <1>2, <1>3, <1>4 DEF IInv

LEMMA RenameIInv ==
    ASSUME IInv, NEW o \in Objs, NEW n \in Names, Rename(o, n)
    PROVE  IInv'
<1> USE ConstantsAssumption
<1>1. /\ definedIn[o] # NoObj
      /\ CaseClass[n] = CaseClass[name[o]] \/ NameFree(definedIn[o], n)
      /\ name' = [name EXCEPT ![o] = n]
      /\ absName' = [absName EXCEPT ![o] = AbsoluteName(definedIn[o], n)]
      /\ UNCHANGED <<life, kind, definedIn, contents, index, anonymous, id,
                     idmap, refs, deps, crash>>
  BY DEF Rename, tree, ids, links
<1>2. definedIn[o] \in Objs \cup {Root}
  BY <1>1 DEF IInv, TypeOK
<1>3. absName' \in [Objs -> Seq(Names)]
  BY <1>1, <1>2, AbsoluteNameType DEF IInv, TypeOK
<1>4. TypeOK'
  BY <1>1, <1>3 DEF IInv, TypeOK
<1>5. SiblingNamesDistinct'
  <2>1. \A x \in Objs \ {o} : definedIn[x] = definedIn[o] =>
            CaseClass[name[x]] # CaseClass[n]
    BY <1>1, <1>2
       DEF IInv, ContainmentSound, SiblingNamesDistinct, NameFree, Servants
  <2> QED
    BY <1>1, <2>1 DEF IInv, TypeOK, SiblingNamesDistinct
<1>6. /\ FixedServants' /\ IdmapSound' /\ ContainmentSound'
      /\ DependencySound' /\ UnresolvedMeansGone'
  BY <1>1 DEF IInv, FixedServants, IdmapSound, ContainmentSound,
              DependencySound, UnresolvedMeansGone, IsActive
<1> QED
  BY <1>4, <1>5, <1>6 DEF IInv

LEMMA RelocateIInv ==
    ASSUME IInv, NEW o \in Objs, NEW c \in Objs, NEW n \in Names,
           MoveRequest(o, c), Relocate(o, c, n)
    PROVE  IInv'
<1> USE ConstantsAssumption
<1>1. /\ c # definedIn[o] /\ definedIn[o] # NoObj
      /\ IsActive(o) /\ NameFree(c, n)
      /\ definedIn' = [definedIn EXCEPT ![o] = c]
      /\ contents' = [contents EXCEPT ![definedIn[o]] = @ \ {o},
                                      ![c] = @ \cup {o}]
      /\ name' = [name EXCEPT ![o] = n]
      /\ absName' = [absName EXCEPT ![o] = AbsoluteName(c, n)]
      /\ UNCHANGED <<life, kind, index, anonymous, id, idmap, refs, deps>>
      /\ crash' \in CrashSites \cup {"no"}
  BY DEF MoveRequest, Relocate, Reparent, RepositoryReferenced, CrashSites, ids,
         links
<1>2. definedIn[o] \in Objs \cup {Root} /\ definedIn[o] \in Servants
  BY <1>1 DEF IInv, TypeOK, Servants
<1>3. absName' \in [Objs -> Seq(Names)]
  BY <1>1, AbsoluteNameType DEF IInv, TypeOK
<1>4. TypeOK'
  <2>1. /\ definedIn' \in [Objs -> Objs \cup {Root, NoObj}]
        /\ contents' \in [Servants -> SUBSET Objs]
        /\ name' \in [Objs -> Names \cup {NoString}]
    BY <1>1, <1>2 DEF IInv, TypeOK, Servants
  <2> QED
    BY <1>1, <1>3, <2>1 DEF IInv, TypeOK
<1>5. ContainmentSound'
  <2>1. \A x \in Objs, d \in Servants : x \in contents[d] <=> definedIn[x] = d
    BY DEF IInv, ContainmentSound
  <2>2. /\ contents'[c] = contents[c] \cup {o}
        /\ contents'[definedIn[o]] = contents[definedIn[o]] \ {o}
        /\ \A d \in Servants \ {c, definedIn[o]} : contents'[d] = contents[d]
    BY <1>1, <1>2 DEF IInv, TypeOK, Servants
  <2>3. definedIn'[o] = c /\ \A x \in Objs \ {o} : definedIn'[x] = definedIn[x]
    BY <1>1 DEF IInv, TypeOK
  <2>4. ASSUME NEW x \in Objs, NEW d \in Servants
        PROVE  x \in contents'[d] <=> definedIn'[x] = d
    <3>1. x \in contents[d] <=> definedIn[x] = d
      BY <2>1
    <3>2. CASE d = c
      BY <1>1, <2>2, <2>3, <3>1, <3>2
    <3>3. CASE d = definedIn[o]
      BY <1>1, <2>2, <2>3, <3>1, <3>3
    <3>4. CASE d \notin {c, definedIn[o]}
      BY <2>2, <2>3, <3>1, <3>4
    <3> QED
      BY <3>2, <3>3, <3>4
  <2>5. \A x \in Objs : definedIn'[x] # NoObj => life'[x] = "active"
    BY <1>1, <2>3 DEF IInv, ContainmentSound, IsActive
  <2> QED
    BY <2>4, <2>5 DEF ContainmentSound, IsActive
<1>6. SiblingNamesDistinct'
  <2>1. \A x \in Objs : definedIn[x] = c => CaseClass[name[x]] # CaseClass[n]
    BY <1>1 DEF IInv, ContainmentSound, NameFree, Servants
  <2> QED
    BY <1>1, <2>1 DEF IInv, TypeOK, SiblingNamesDistinct
<1>7. /\ FixedServants' /\ IdmapSound'
      /\ DependencySound' /\ UnresolvedMeansGone'
  BY <1>1 DEF IInv, FixedServants, IdmapSound, DependencySound,
              UnresolvedMeansGone, IsActive
<1> QED
  BY <1>4, <1>5, <1>6, <1>7 DEF IInv

LEMMA DestroyIInv ==
    ASSUME IInv, NEW o \in Objs, Destroy(o)
    PROVE  IInv'
<1> USE ConstantsAssumption
<1> DEFINE D == ContainedObjectSet(o)
<1>1. /\ DependentObjectSet(o) \subseteq D
      /\ life' = [life EXCEPT ![o] = "gone"]
      /\ definedIn' = [x \in Objs |-> IF x \in D THEN NoObj ELSE definedIn[x]]
      /\ contents' = [c \in Servants |-> IF c \in D THEN {} ELSE contents[c] \ D]
      /\ anonymous' = anonymous \ {o}
      /\ index' = [index EXCEPT ![o] = 0]
      /\ name' = [name EXCEPT ![o] = NoString]
      /\ absName' = [absName EXCEPT ![o] = <<>>]
      /\ id' = [id EXCEPT ![o] = NoString]
      /\ idmap' = [i \in Ids |-> IF \E d \in D : id[d] = i THEN NoObj
                                 ELSE idmap[i]]
      /\ refs' = [x \in Servants |-> IF x \in D THEN {} ELSE refs[x]]
      /\ deps' = [x \in Servants |-> IF x \in D THEN {} ELSE deps[x]]
      /\ kind' = kind
      /\ crash' \in CrashSites \cup {"no"}
  BY DEF Destroy, DestroyRequest, ClearReferences, RepositoryReferenced, CrashSites
<1>2. o \in D /\ (\A d \in D : contents[d] \subseteq D) /\ D \subseteq Objs
  BY ContainedObjectSetClosed DEF IInv
<1> HIDE DEF D
<1>3. TypeOK'
  <2> USE DEF IInv, TypeOK
  <2>1. life' \in [Servants -> {"unborn", "active", "gone"}]
        /\ kind' \in [Servants -> AllKinds]
    BY <1>1
  <2>2. definedIn' \in [Objs -> Objs \cup {Root, NoObj}]
    BY <1>1
  <2>3. contents' \in [Servants -> SUBSET Objs]
    BY <1>1
  <2>4. index' \in [Objs -> Nat] /\ anonymous' \in SUBSET Objs
    BY <1>1
  <2>5. name' \in [Objs -> Names \cup {NoString}]
        /\ id' \in [Objs -> Ids \cup {NoString}]
    BY <1>1
  <2>6. absName' \in [Objs -> Seq(Names)]
    <3>1. <<>> \in Seq(Names)
      OBVIOUS
    <3> QED
      BY <1>1, <3>1
  <2>7. idmap' \in [Ids -> Objs \cup {NoObj}]
    BY <1>1
  <2>8. /\ refs' \in [Servants -> SUBSET (Objs \cup {Prim})]
        /\ deps' \in [Servants -> SUBSET (Objs \cup {Prim})]
    BY <1>1
  <2> QED
    BY <1>1, <2>1, <2>2, <2>3, <2>4, <2>5, <2>6, <2>7, <2>8
<1>4. FixedServants'
  BY <1>1, <1>2 DEF IInv, TypeOK, FixedServants, IsActive, Servants
<1>5. IdmapSound'
  BY <1>1, <1>2 DEF IInv, TypeOK, IdmapSound, IsActive, Servants
<1>6. ContainmentSound'
  BY <1>1, <1>2 DEF IInv, TypeOK, ContainmentSound, IsActive, Servants
<1>7. SiblingNamesDistinct'
  BY <1>1, <1>2 DEF IInv, TypeOK, SiblingNamesDistinct
<1>8. \A x \in Servants \ D : deps[x] \cap D = {}
  BY <1>1 DEF DependentObjectSet, D
<1>9. DependencySound'
  BY <1>1, <1>2, <1>8 DEF IInv, TypeOK, DependencySound, IsActive, Servants
<1>10. UnresolvedMeansGone'
  BY <1>1, <1>2 DEF IInv, TypeOK, UnresolvedMeansGone, Servants
<1> QED
  BY <1>3, <1>4, <1>5, <1>6, <1>7, <1>9, <1>10 DEF IInv

LEMMA DestroyRepositoryIInv ==
    ASSUME IInv, DestroyRepository
    PROVE  IInv'
<1> USE ConstantsAssumption
<1>1. /\ life' = [life EXCEPT ![Root] = "gone"]
      /\ UNCHANGED <<kind, definedIn, contents, index, anonymous, name, absName,
                     id, idmap, refs, deps>>
      /\ crash' \in CrashSites \cup {"no"}
  BY DEF DestroyRepository, RepositoryReferenced, CrashSites, tree, naming, ids,
         links
<1>2. \A o \in Objs \cup {Prim} : life'[o] = life[o]
  BY <1>1 DEF IInv, TypeOK, Servants
<1>3. TypeOK'
  BY <1>1 DEF IInv, TypeOK, Servants
<1>4. FixedServants' /\ IdmapSound' /\ ContainmentSound' /\ SiblingNamesDistinct'
  BY <1>1, <1>2 DEF IInv, TypeOK, FixedServants, IdmapSound, ContainmentSound,
                    SiblingNamesDistinct, IsActive, Servants
<1>5. DependencySound' /\ UnresolvedMeansGone'
  BY <1>1, <1>2 DEF IInv, TypeOK, FixedServants, DependencySound,
                    UnresolvedMeansGone, IsActive, Servants
<1> QED
  BY <1>3, <1>4, <1>5 DEF IInv

\* Every request that brings the process down changes nothing else.
LEMMA DyingRequests ==
    ASSUME \/ \E c \in Servants, k \in ContainedKinds \cap Kinds, i \in Ids, n \in Names,
                 site \in {"initRemoveId", "wrongAdapter", "typeLoop"} :
                    CreateContainedDies(c, k, i, n, site)
           \/ \E o \in Objs : SetNameDies(o) \/ DestroyDies(o) \/ ReadDies(o)
           \/ \E k \in Kinds, site \in {"wrongAdapter", "typeLoop"} :
                SetReferencesDies(k, site)
           \/ \E o \in Objs, i \in Ids : SetIdDies(o, i)
           \/ \E o, c \in Objs, n \in Names : MoveDies(o, c, n)
    PROVE  \E site \in CrashSites : Dies(site)
BY DEF CreateContainedDies, SetNameDies, DestroyDies, ReadDies,
       SetReferencesDies, SetIdDies, MoveDies, CrashSites

LEMMA NextIInv ==
    ASSUME IInv, [Next]_vars
    PROVE  IInv'
<1>1. ASSUME NEW o \in Objs, NEW c \in Servants, NEW k \in ContainedKinds \cap Kinds,
             NEW i \in Ids, NEW n \in Names, CreateContained(c, o, k, i, n)
      PROVE  IInv'
  BY <1>1, CreateContainedIInv
<1>2. ASSUME NEW o \in Objs, NEW k \in AnonymousKinds, CreateAnonymous(o, k)
      PROVE  IInv'
  BY <1>2, CreateAnonymousIInv
<1>3. ASSUME NEW o \in Objs, SetReferences(o)
      PROVE  IInv'
  BY <1>3, SetReferencesIInv
<1>4. ASSUME NEW o \in Objs, Destroy(o)
      PROVE  IInv'
  BY <1>4, DestroyIInv
<1>5. ASSUME NEW o \in Objs, NEW i \in Ids, SetId(o, i)
      PROVE  IInv'
  BY <1>5, SetIdIInv
<1>6. ASSUME NEW o \in Objs, NEW n \in Names, SetName(o, n)
      PROVE  IInv'
  BY <1>6, RenameIInv DEF SetName
<1>7. ASSUME NEW o \in Objs, NEW c \in Objs, NEW n \in Names, Move(o, c, n)
      PROVE  IInv'
  BY <1>7, RenameIInv, RelocateIInv DEF Move
<1>8. CASE DestroyRepository
  BY <1>8, DestroyRepositoryIInv
<1>9. ASSUME NEW site \in CrashSites, Dies(site)
      PROVE  IInv'
  BY <1>9, DiesIInv
<1>10. CASE UNCHANGED vars
  BY <1>10 DEF vars, tree, naming, ids, links, IInv, TypeOK, FixedServants,
               IdmapSound, ContainmentSound, SiblingNamesDistinct,
               DependencySound, UnresolvedMeansGone, IsActive
<1> QED
  BY <1>1, <1>2, <1>3, <1>4, <1>5, <1>6, <1>7, <1>8, <1>9, <1>10, DyingRequests
     DEF Next

-----------------------------------------------------------------------------
(* Theorems.                                                               *)

\* The inductive invariant holds in every state of the server.
THEOREM Invariance == Spec => []IInv
BY InitIInv, NextIInv, PTL DEF Spec

\* Every variable keeps its type.
THEOREM TypeCorrect == Spec => []TypeOK
BY Invariance, PTL DEF IInv

\* lookup_id() returns live definitions that carry the id asked for.
THEOREM IdmapIsSound == Spec => []IdmapSound
BY Invariance, PTL DEF IInv

\* _contents and _defined_in agree, and hold live definitions only.
THEOREM ContainmentIsSound == Spec => []ContainmentSound
BY Invariance, PTL DEF IInv

\* No two definitions of a container have names that differ only in case.
THEOREM SiblingsAreDistinct == Spec => []SiblingNamesDistinct
BY Invariance, PTL DEF IInv

\* No dependency dangles: a type in use is not destroyed.
THEOREM DependenciesAreSound == Spec => []DependencySound
BY Invariance, PTL DEF IInv

\* Only a reference to what was destroyed before goes without a dependency.
THEOREM UnresolvedIsGone == Spec => []UnresolvedMeansGone
BY Invariance, PTL DEF IInv

\* No step takes a definition in use out of the containment tree.
LEMMA StepUsedStaysDefined ==
    ASSUME IInv, [Next]_vars, NEW x \in Servants, NEW t \in Objs,
           t \in deps[x], t \in deps'[x], definedIn[t] # NoObj
    PROVE  definedIn'[t] # NoObj
<1> USE ConstantsAssumption
<1>1. ASSUME NEW o \in Objs, NEW c \in Servants, NEW k \in ContainedKinds \cap Kinds,
             NEW i \in Ids, NEW n \in Names, CreateContained(c, o, k, i, n)
      PROVE  definedIn'[t] # NoObj
  BY <1>1 DEF CreateContained, IInv, TypeOK, Servants
<1>2. ASSUME NEW o \in Objs, Destroy(o)
      PROVE  definedIn'[t] # NoObj
  <2>1. definedIn'[t] = IF t \in ContainedObjectSet(o) THEN NoObj
                        ELSE definedIn[t]
    BY <1>2 DEF Destroy
  <2>2. deps'[x] = IF x \in ContainedObjectSet(o) THEN {} ELSE deps[x]
    BY <1>2 DEF Destroy, ClearReferences
  <2>3. x \in DependentObjectSet(o) => x \in ContainedObjectSet(o)
    BY <1>2 DEF Destroy, DestroyRequest
  <2> QED
    BY <2>1, <2>2, <2>3 DEF DependentObjectSet
<1>3. ASSUME NEW o \in Objs, NEW c \in Objs, NEW n \in Names, Move(o, c, n)
      PROVE  definedIn'[t] # NoObj
  BY <1>3 DEF Move, Rename, Relocate, Reparent, tree, IInv, TypeOK, Servants
<1>4. ASSUME \/ \E o \in Objs, k \in AnonymousKinds : CreateAnonymous(o, k)
             \/ \E o \in Objs : SetReferences(o)
             \/ \E o \in Objs, i \in Ids : SetId(o, i)
             \/ \E o \in Objs, n \in Names : SetName(o, n)
             \/ DestroyRepository
             \/ \E site \in CrashSites : Dies(site)
             \/ UNCHANGED vars
      PROVE  definedIn' = definedIn
  BY <1>4 DEF CreateAnonymous, SetReferences, SetId, SetName, Rename,
              DestroyRepository, Dies, vars, tree
<1> QED
  BY <1>1, <1>2, <1>3, <1>4, DyingRequests DEF Next

\* A definition that is in use stays where it can be found.
THEOREM UsedDefinitionsStay == Spec => UsedStaysDefined
<1>1. IInv /\ [Next]_vars =>
        [\A x \in Servants, t \in Objs :
            (t \in deps[x] /\ t \in deps'[x] /\ definedIn[t] # NoObj)
                => definedIn'[t] # NoObj]_vars
  BY StepUsedStaysDefined
<1> QED
  BY <1>1, Invariance, PTL DEF Spec, UsedStaysDefined

-----------------------------------------------------------------------------
(* Counting.                                                               *)

\* A set of numbers that is not empty has a least one.
LEMMA Least ==
    ASSUME NEW T \in SUBSET Nat, T # {}
    PROVE  \E m \in T : \A k \in T : m <= k
<1> DEFINE less == {p \in Nat \X Nat : p[1] < p[2]}
<1>1. IsWellFoundedOn(less, Nat)
  BY NatLessThanWellFounded DEF OpToRel
<1>2. PICK m \in T : \A k \in T : <<k, m>> \notin less
  <2> HIDE DEF less
  <2> QED
    BY <1>1, WFMin
<1>3. ASSUME NEW k \in T PROVE m <= k
  <2>1. <<k, m>> \notin less /\ k \in Nat /\ m \in Nat
    BY <1>2
  <2> QED
    BY <2>1
<1> QED
  BY <1>3

\* The way of lookup() from c, as far as component n.
Way(g, c, path, n) ==
    g = [k \in 0..n |-> IF k = 0 THEN c ELSE Step(g[k - 1], path[k])]

\* Two ways agree as far as both go.
LEMMA WayUnique ==
    ASSUME NEW c, NEW path, NEW n \in Nat, NEW m \in Nat, NEW g, NEW h,
           Way(g, c, path, n), Way(h, c, path, m),
           NEW k \in 0..n, k \in 0..m
    PROVE  g[k] = h[k]
<1> DEFINE T == {j \in 0..n : j \in 0..m /\ g[j] # h[j]}
<1> SUFFICES ASSUME T # {} PROVE FALSE
  OBVIOUS
<1>1. PICK j \in T : \A i \in T : j <= i
  <2>1. T \in SUBSET Nat
    OBVIOUS
  <2> QED
    BY <2>1, Least
<1>2. j # 0
  BY DEF Way
<1>3. j - 1 \in 0..n /\ j - 1 \in 0..m /\ j - 1 \notin T
  BY <1>1, <1>2
<1>4. g[j - 1] = h[j - 1]
  BY <1>3
<1>5. g[j] = Step(g[j - 1], path[j]) /\ h[j] = Step(h[j - 1], path[j])
  BY <1>2 DEF Way
<1> QED
  BY <1>4, <1>5

LEMMA WayExists ==
    ASSUME NEW c, NEW path, NEW n \in Nat
    PROVE  \E g : Way(g, c, path, n)
<1> DEFINE T == {j \in Nat : ~ \E g : Way(g, c, path, j)}
<1> SUFFICES ASSUME T # {} PROVE FALSE
  OBVIOUS
<1>1. PICK j \in T : \A i \in T : j <= i
  BY Least
<1>2. CASE j = 0
  <2>1. Way([k \in 0..0 |-> c], c, path, 0)
    BY DEF Way
  <2> QED
    BY <1>2, <2>1
<1>3. CASE j # 0
  <2>1. j - 1 \in Nat /\ j - 1 \notin T
    BY <1>1, <1>3
  <2>2. PICK g : Way(g, c, path, j - 1)
    BY <2>1
  <2> DEFINE h == [k \in 0..j |-> IF k = j THEN Step(g[j - 1], path[j]) ELSE g[k]]
  <2>3. ASSUME NEW k \in 0..j
        PROVE  h[k] = IF k = 0 THEN c ELSE Step(h[k - 1], path[k])
    <3>1. CASE k = j
      BY <1>3, <3>1
    <3>2. CASE k # j
      <4>1. k \in 0..(j - 1) /\ h[k] = g[k]
        BY <3>2
      <4>2. k # 0 => k - 1 \in 0..(j - 1) /\ h[k - 1] = g[k - 1]
        BY <4>1
      <4>3. g[k] = IF k = 0 THEN c ELSE Step(g[k - 1], path[k])
        BY <4>1, <2>2 DEF Way
      <4> QED
        BY <4>1, <4>2, <4>3
    <3> QED
      BY <3>1, <3>2
  <2>4. h = [k \in 0..j |-> h[k]]
    OBVIOUS
  <2> HIDE DEF h
  <2>5. Way(h, c, path, j)
    BY <2>3, <2>4 DEF Way
  <2> QED
    BY <2>5
<1> QED
  BY <1>2, <1>3

\* lookup() from c takes one step after another.
LEMMA ReachedStep ==
    ASSUME NEW c, NEW path
    PROVE  /\ Reached(c, path)[0] = c
           /\ \A k \in Nat : k # 0 =>
                Reached(c, path)[k] = Step(Reached(c, path)[k - 1], path[k])
<1> DEFINE way(n) == CHOOSE g : Way(g, c, path, n)
           f == [n \in Nat |-> way(n)[n]]
<1>1. \A n \in Nat : Way(way(n), c, path, n)
  BY WayExists
<1> HIDE DEF way
<1>2. ASSUME NEW k \in Nat
      PROVE  f[k] = IF k = 0 THEN c ELSE Step(f[k - 1], path[k])
  <2>1. CASE k = 0
    BY <1>1, <2>1 DEF Way
  <2>2. CASE k # 0
    <3>1. k - 1 \in Nat /\ k - 1 \in 0..k /\ k - 1 \in 0..(k - 1) /\ k \in 0..k
      BY <2>2
    <3>2. way(k)[k - 1] = way(k - 1)[k - 1]
      BY <1>1, <3>1, WayUnique
    <3>3. way(k)[k] = Step(way(k)[k - 1], path[k])
      BY <1>1, <2>2, <3>1 DEF Way
    <3> QED
      BY <2>2, <3>1, <3>2, <3>3
  <2> QED
    BY <2>1, <2>2
<1>3. f = [k \in Nat |-> f[k]]
  OBVIOUS
<1> HIDE DEF f
<1>4. f = [k \in Nat |-> IF k = 0 THEN c ELSE Step(f[k - 1], path[k])]
  BY <1>2, <1>3
<1> DEFINE r == Reached(c, path)
<1>5. r = [k \in Nat |-> IF k = 0 THEN c ELSE Step(r[k - 1], path[k])]
  BY <1>4 DEF Reached
<1> HIDE DEF r
<1>6. r[0] = c /\ \A k \in Nat : k # 0 => r[k] = Step(r[k - 1], path[k])
  BY <1>5
<1> QED
  BY <1>6 DEF r

-----------------------------------------------------------------------------
(* Containers.                                                             *)

\* Only containers have contents, and only those that were created.
Holders ==
    \A c \in Servants : contents[c] # {} =>
        kind[c] \in ContainerKinds /\ life[c] # "unborn"

LEMMA InitHolders == Init => Holders
BY ConstantsAssumption DEF Init, Holders, Servants, ContainerKinds

LEMMA CreateHolders ==
    ASSUME TypeOK, Holders, NEW o \in Objs, NEW c \in Servants, NEW k \in ContainedKinds,
           NEW i \in Ids, NEW n \in Names, CreateContained(c, o, k, i, n)
    PROVE  Holders'
<1>1. /\ life[o] = "unborn" /\ life' = [life EXCEPT ![o] = "active"]
      /\ kind' = [kind EXCEPT ![o] = k]
      /\ contents' = [contents EXCEPT ![c] = @ \cup {o}]
      /\ IsActive(c) /\ kind[c] \in ContainerKinds
  BY DEF CreateContained, CreateRequest
<1>2. contents[o] = {} /\ c # o
  BY <1>1 DEF Holders, IsActive, Servants
<1>3. ASSUME NEW e \in Servants, contents'[e] # {}
      PROVE  kind'[e] \in ContainerKinds /\ life'[e] # "unborn"
  <2>1. CASE e = c
    BY <1>1, <1>2, <2>1 DEF TypeOK, IsActive
  <2>2. CASE e # c
    BY <1>1, <1>2, <1>3, <2>2 DEF TypeOK, Holders
  <2> QED
    BY <2>1, <2>2
<1> QED
  BY <1>3 DEF Holders

LEMMA MoveHolders ==
    ASSUME TypeOK, Holders, NEW o \in Objs, NEW c \in Objs, NEW n \in Names,
           MoveRequest(o, c), Relocate(o, c, n)
    PROVE  Holders'
<1>1. /\ UNCHANGED <<life, kind>>
      /\ contents' = [contents EXCEPT ![definedIn[o]] = @ \ {o}, ![c] = @ \cup {o}]
      /\ IsActive(c) /\ kind[c] \in ContainerKinds
  BY DEF MoveRequest, Relocate, Reparent
<1>2. ASSUME NEW e \in Servants, contents'[e] # {}
      PROVE  kind'[e] \in ContainerKinds /\ life'[e] # "unborn"
  <2>1. CASE e = c
    BY <1>1, <2>1 DEF IsActive
  <2>2. CASE e # c
    <3>1. contents[e] # {}
      BY <1>1, <1>2, <2>2 DEF TypeOK
    <3> QED
      BY <1>1, <3>1 DEF Holders
  <2> QED
    BY <2>1, <2>2
<1> QED
  BY <1>2 DEF Holders

LEMMA DestroyHolders ==
    ASSUME TypeOK, Holders, NEW o \in Objs, Destroy(o)
    PROVE  Holders'
<1>1. /\ life' = [life EXCEPT ![o] = "gone"] /\ kind' = kind
      /\ \A c \in Servants : contents'[c] \subseteq contents[c]
  BY DEF Destroy
<1> QED
  BY <1>1 DEF Holders, TypeOK

LEMMA NextHolders ==
    ASSUME IInv, Holders, [Next]_vars
    PROVE  Holders'
<1> USE DEF IInv
<1>1. ASSUME NEW o \in Objs, NEW k \in AnonymousKinds, CreateAnonymous(o, k)
      PROVE  Holders'
  <2>1. /\ life[o] = "unborn" /\ life' = [life EXCEPT ![o] = "active"]
        /\ kind' = [kind EXCEPT ![o] = k] /\ contents' = contents
    BY <1>1 DEF CreateAnonymous
  <2>2. contents[o] = {}
    BY <2>1 DEF Holders, Servants
  <2> QED
    BY <2>1, <2>2 DEF Holders, TypeOK
<1>2. ASSUME UNCHANGED <<life, kind, contents>> PROVE Holders'
  BY <1>2 DEF Holders
<1>3. ASSUME NEW o \in Objs, NEW c \in Objs, NEW n \in Names, Move(o, c, n)
      PROVE  Holders'
  <2>1. CASE Rename(o, n)
    BY <2>1, <1>2 DEF Rename, tree
  <2>2. CASE Relocate(o, c, n)
    BY <1>3, <2>2, MoveHolders DEF Move
  <2> QED
    BY <1>3, <2>1, <2>2 DEF Move
<1>4. CASE DestroyRepository
  BY <1>4 DEF DestroyRepository, tree, Holders, TypeOK
<1>5. ASSUME NEW o \in Objs, SetReferences(o) PROVE Holders'
  BY <1>5, <1>2 DEF SetReferences, tree
<1>6. ASSUME NEW o \in Objs, NEW i \in Ids, SetId(o, i) PROVE Holders'
  BY <1>6, <1>2 DEF SetId, tree
<1>7. ASSUME NEW o \in Objs, NEW n \in Names, SetName(o, n) PROVE Holders'
  BY <1>7, <1>2 DEF SetName, Rename, tree
<1>8. ASSUME NEW site \in CrashSites, Dies(site) PROVE Holders'
  BY <1>8, <1>2 DEF Dies, tree
<1>9. CASE UNCHANGED vars
  BY <1>9, <1>2 DEF vars, tree
<1> QED
  BY <1>1, <1>3, <1>4, <1>5, <1>6, <1>7, <1>8, <1>9, CreateHolders,
     DestroyHolders, DyingRequests DEF Next

-----------------------------------------------------------------------------
(* Scoped names.                                                           *)

\* A step of lookup() goes from a container to the definition in it.
LEMMA StepDown ==
    ASSUME IInv, Holders, NEW x \in Objs, NEW c \in Servants, definedIn[x] = c
    PROVE  Step(c, name[x]) = x
<1> USE ConstantsAssumption
<1>1. x \in contents[c] /\ c # NoObj
  BY DEF IInv, ContainmentSound
<1>2. kind[c] \in ContainerKinds
  BY <1>1 DEF Holders
<1>3. ASSUME NEW y \in Child(c, name[x]) PROVE y = x
  <2>1. y \in contents[c] /\ name[y] = name[x]
    BY DEF Child
  <2>2. y \in Objs /\ definedIn[y] = c
    BY <2>1 DEF IInv, TypeOK, ContainmentSound
  <2> QED
    BY <1>1, <2>1, <2>2 DEF IInv, SiblingNamesDistinct
<1>4. x \in Child(c, name[x])
  BY <1>1 DEF Child
<1> QED
  BY <1>1, <1>2, <1>3, <1>4 DEF Step

\* A step that leads anywhere leads from a container into it.
LEMMA StepFound ==
    ASSUME IInv, NEW c \in Servants \cup {NoObj}, NEW n, Step(c, n) # NoObj
    PROVE  /\ c \in Servants
           /\ Step(c, n) \in Objs
           /\ definedIn[Step(c, n)] = c /\ name[Step(c, n)] = n
<1>1. c \in Servants /\ Step(c, n) \in Child(c, n)
  BY DEF Step
<1>2. Child(c, n) \subseteq Objs
  BY <1>1 DEF IInv, TypeOK, Child
<1> QED
  BY <1>1, <1>2 DEF IInv, ContainmentSound, Child

LEMMA PathLength ==
    ASSUME NEW path \in Paths
    PROVE  Len(path) \in Nat \ {0}
<1>1. PICK k \in 1..MaxDepth : path \in [1..k -> Names]
  BY DEF Paths
<1>2. k \in Nat \ {0}
  BY <1>1, ConstantsAssumption
<1>3. path \in Seq(Names)
  BY <1>1, <1>2, SeqDef
<1> QED
  BY <1>1, <1>2, <1>3, LenProperties

\* lookup() follows a chain that spells the path to its end.
LEMMA ChainFollowed ==
    ASSUME IInv, Holders, NEW path \in Paths, NEW chain \in Chains(path)
    PROVE  chain[Len(path)] = Lookup(Root, path)
<1> DEFINE n == Len(path)
           r == Reached(Root, path)
           T == {k \in 1..n : chain[k] # r[k]}
<1>1. n \in Nat \ {0}
  BY PathLength
<1>2. /\ chain \in [1..n -> Objs]
      /\ \A k \in 1..n : /\ name[chain[k]] = path[k]
                         /\ definedIn[chain[k]] = IF k = 1 THEN Root ELSE chain[k - 1]
  BY DEF Chains
<1>3. r[0] = Root /\ \A k \in Nat : k # 0 => r[k] = Step(r[k - 1], path[k])
  BY ReachedStep
<1> HIDE DEF n, r
<1>4. ASSUME T # {} PROVE FALSE
  <2>1. PICK j \in T : \A i \in T : j <= i
    <3>1. T \in SUBSET Nat
      BY <1>1
    <3> QED
      BY <1>4, <3>1, Least
  <2> DEFINE c == IF j = 1 THEN Root ELSE chain[j - 1]
  <2>2. r[j - 1] = c
    <3>1. CASE j = 1
      BY <1>3, <3>1
    <3>2. CASE j # 1
      <4>1. j - 1 \in 1..n /\ ~ (j <= j - 1)
        BY <1>1, <3>2
      <4>2. j - 1 \notin T
        BY <2>1, <4>1
      <4> QED
        BY <3>2, <4>1, <4>2
    <3> QED
      BY <3>1, <3>2
  <2>3. c \in Servants
    <3>1. j # 1 => j - 1 \in 1..n
      BY <1>1
    <3> QED
      BY <1>2, <3>1 DEF Servants
  <2>4. chain[j] \in Objs /\ definedIn[chain[j]] = c /\ name[chain[j]] = path[j]
    BY <1>2
  <2> HIDE DEF c
  <2>5. Step(c, path[j]) = chain[j]
    BY <2>3, <2>4, StepDown
  <2>6. r[j] = Step(r[j - 1], path[j])
    BY <1>1, <1>3
  <2> QED
    BY <2>2, <2>5, <2>6
<1>5. chain[n] = r[n]
  BY <1>1, <1>4
<1> QED
  BY <1>5 DEF n, r, Lookup

\* What lookup() returns is the end of a chain that spells the path.
LEMMA LookedUpChain ==
    ASSUME IInv, NEW path \in Paths, Lookup(Root, path) # NoObj
    PROVE  \E chain \in Chains(path) : chain[Len(path)] = Lookup(Root, path)
<1> DEFINE n == Len(path)
           r == Reached(Root, path)
           Untyped == {k \in 0..n : r[k] \notin Servants \cup {NoObj}}
           Lost == {k \in 0..n : r[n - k] = NoObj}
<1>1. n \in Nat \ {0}
  BY PathLength
<1>2. r[0] = Root /\ \A k \in Nat : k # 0 => r[k] = Step(r[k - 1], path[k])
  BY ReachedStep
<1>3. r[n] # NoObj
  BY DEF Lookup
<1> HIDE DEF n, r
<1>4. ASSUME Untyped # {} PROVE FALSE
  <2>1. PICK j \in Untyped : \A i \in Untyped : j <= i
    <3>1. Untyped \in SUBSET Nat
      BY <1>1
    <3> QED
      BY <1>4, <3>1, Least
  <2>2. j # 0
    BY <1>2 DEF Servants
  <2>3. j - 1 \in 0..n /\ j \in Nat /\ ~ (j <= j - 1)
    BY <1>1, <2>2
  <2>4. r[j - 1] \in Servants \cup {NoObj}
    BY <2>1, <2>3
  <2>5. r[j] = Step(r[j - 1], path[j])
    BY <1>2, <2>2, <2>3
  <2>6. r[j] # NoObj => r[j] \in Objs
    BY <2>4, <2>5, StepFound
  <2> QED
    BY <2>6 DEF Servants
<1>5. \A k \in 0..n : r[k] \in Servants \cup {NoObj}
  BY <1>4
<1>6. ASSUME Lost # {} PROVE FALSE
  <2>1. PICK j \in Lost : \A i \in Lost : j <= i
    <3>1. Lost \in SUBSET Nat
      BY <1>1
    <3> QED
      BY <1>6, <3>1, Least
  <2>2. j # 0 /\ j \in 0..n /\ r[n - j] = NoObj
    BY <1>1, <1>3
  <2>3. /\ j - 1 \in 0..n /\ ~ (j <= j - 1)
        /\ n - j \in 0..n /\ n - (j - 1) \in Nat \ {0} /\ (n - (j - 1)) - 1 = n - j
    BY <1>1, <2>2
  <2>4. r[n - (j - 1)] # NoObj
    BY <2>1, <2>3
  <2>5. r[n - (j - 1)] = Step(r[n - j], path[n - (j - 1)])
    BY <1>2, <2>3
  <2>6. r[n - j] \in Servants
    BY <1>5, <2>3, <2>4, <2>5, StepFound
  <2> QED
    BY <2>2, <2>6, ConstantsAssumption
<1>7. ASSUME NEW k \in 1..n
      PROVE  /\ r[k] \in Objs /\ name[r[k]] = path[k]
             /\ definedIn[r[k]] = r[k - 1]
  <2>1. /\ k \in Nat \ {0} /\ k - 1 \in 0..n
        /\ n - k \in 0..n /\ n - (n - k) = k
    BY <1>1
  <2>2. r[k] # NoObj
    BY <1>6, <2>1
  <2>3. r[k] = Step(r[k - 1], path[k])
    BY <1>2, <2>1
  <2> QED
    BY <1>5, <2>1, <2>2, <2>3, StepFound
<1> DEFINE chain == [k \in 1..n |-> r[k]]
<1>8. chain \in [1..n -> Objs]
  BY <1>7
<1>9. ASSUME NEW k \in 1..n
      PROVE  /\ name[chain[k]] = path[k]
             /\ definedIn[chain[k]] = IF k = 1 THEN Root ELSE chain[k - 1]
  <2>1. CASE k = 1
    BY <1>2, <1>7, <2>1
  <2>2. CASE k # 1
    <3>1. k - 1 \in 1..n
      BY <1>1, <2>2
    <3> QED
      BY <1>7, <2>2, <3>1
  <2> QED
    BY <2>1, <2>2
<1>10. n \in 1..n
  BY <1>1
<1> HIDE DEF chain
<1>11. chain \in Chains(path)
  BY <1>8, <1>9 DEF Chains, n
<1>12. chain[n] = r[n]
  BY <1>10 DEF chain
<1> QED
  BY <1>11, <1>12 DEF n, r, Lookup

LEMMA InvLookupFinds ==
    ASSUME IInv, Holders
    PROVE  LookupFinds
<1> SUFFICES ASSUME NEW path \in Paths
             PROVE  {chain[Len(path)] : chain \in Chains(path)} =
                        {Lookup(Root, path)} \ {NoObj}
  BY DEF LookupFinds
<1>1. ASSUME NEW chain \in Chains(path)
      PROVE  chain[Len(path)] = Lookup(Root, path) /\ chain[Len(path)] # NoObj
  <2>1. Len(path) \in 1..Len(path)
    BY PathLength
  <2>2. chain[Len(path)] \in Objs
    BY <2>1 DEF Chains
  <2> QED
    BY <2>2, ChainFollowed, ConstantsAssumption DEF Servants
<1>2. Lookup(Root, path) # NoObj =>
        \E chain \in Chains(path) : chain[Len(path)] = Lookup(Root, path)
  BY LookedUpChain
<1> QED
  BY <1>1, <1>2

\* Containers hold, and nothing else does.
THEOREM HoldersAreContainers == Spec => []Holders
<1>1. Holders /\ IInv /\ [Next]_vars => Holders'
  BY NextHolders
<1> QED
  BY <1>1, InitHolders, Invariance, PTL DEF Spec

\* A scoped name leads to the one definition its container chain spells.
THEOREM LookupIsExact == Spec => []LookupFinds
BY InvLookupFinds, HoldersAreContainers, Invariance, PTL

-----------------------------------------------------------------------------
(* lookup_name().                                                          *)

\* Numbers that hold 0 and the successor of each one are all numbers.
LEMMA AllNumbers ==
    ASSUME NEW T \in SUBSET Nat, 0 \in T, \A k \in T : k + 1 \in T
    PROVE  T = Nat
<1> SUFFICES ASSUME Nat \ T # {} PROVE FALSE
  OBVIOUS
<1>1. PICK m \in Nat \ T : \A k \in Nat \ T : m <= k
  BY Least
<1>2. m - 1 \in Nat /\ m - 1 \notin Nat \ T
  BY <1>1
<1>3. (m - 1) + 1 \in T
  BY <1>2
<1> QED
  BY <1>1, <1>3

\* The first n steps of a sequence that starts with start and goes on by step.
Prefix(g, start, step, n) ==
    g = [k \in 0..n |-> IF k = 0 THEN start ELSE step[g[k - 1]]]

LEMMA PrefixUnique ==
    ASSUME NEW start, NEW step, NEW n \in Nat, NEW m \in Nat, NEW g, NEW h,
           Prefix(g, start, step, n), Prefix(h, start, step, m)
    PROVE  \A k \in Nat : k <= n /\ k <= m => g[k] = h[k]
<1> DEFINE T == {k \in Nat : k <= n /\ k <= m => g[k] = h[k]}
<1>1. 0 \in T
  BY DEF Prefix
<1>2. ASSUME NEW k \in T PROVE k + 1 \in T
  <2> SUFFICES ASSUME k + 1 <= n, k + 1 <= m PROVE g[k + 1] = h[k + 1]
    OBVIOUS
  <2>1. g[k] = h[k] /\ k + 1 \in 0..n /\ k + 1 \in 0..m /\ k + 1 # 0 /\ (k + 1) - 1 = k
    OBVIOUS
  <2>2. g[k + 1] = step[g[k]] /\ h[k + 1] = step[h[k]]
    BY <2>1 DEF Prefix
  <2> QED
    BY <2>1, <2>2
<1> HIDE DEF T
<1>3. T = Nat
  <2>1. T \in SUBSET Nat
    BY DEF T
  <2> QED
    BY <1>1, <1>2, <2>1, AllNumbers
<1> QED
  BY <1>3 DEF T

LEMMA PrefixExists ==
    ASSUME NEW start, NEW step, NEW n \in Nat
    PROVE  \E g : Prefix(g, start, step, n)
<1> DEFINE T == {k \in Nat : \E g : Prefix(g, start, step, k)}
<1>1. 0 \in T
  <2>1. Prefix([k \in 0..0 |-> start], start, step, 0)
    BY DEF Prefix
  <2> QED
    BY <2>1
<1>2. ASSUME NEW k \in T PROVE k + 1 \in T
  <2>1. PICK g : Prefix(g, start, step, k)
    OBVIOUS
  <2> DEFINE h == [j \in 0..(k + 1) |-> IF j = k + 1 THEN step[g[k]] ELSE g[j]]
  <2>2. ASSUME NEW j \in 0..(k + 1)
        PROVE  h[j] = IF j = 0 THEN start ELSE step[h[j - 1]]
    <3>1. CASE j = k + 1
      <4>1. j # 0 /\ j - 1 = k /\ k \in 0..(k + 1) /\ k # k + 1
        BY <3>1
      <4> QED
        BY <3>1, <4>1
    <3>2. CASE j # k + 1
      <4>1. j \in 0..k /\ (j # 0 => j - 1 \in 0..(k + 1) /\ j - 1 # k + 1)
        BY <3>2
      <4>2. g[j] = IF j = 0 THEN start ELSE step[g[j - 1]]
        BY <2>1, <4>1 DEF Prefix
      <4> QED
        BY <3>2, <4>1, <4>2
    <3> QED
      BY <3>1, <3>2
  <2>3. h = [j \in 0..(k + 1) |-> h[j]]
    OBVIOUS
  <2> HIDE DEF h
  <2>4. Prefix(h, start, step, k + 1)
    BY <2>2, <2>3 DEF Prefix
  <2> QED
    BY <2>4
<1> HIDE DEF T
<1>3. T = Nat
  <2>1. T \in SUBSET Nat
    BY DEF T
  <2> QED
    BY <1>1, <1>2, <2>1, AllNumbers
<1> QED
  BY <1>3 DEF T

\* The whole sequence exists.
Iterate(f, start, step) ==
    f = [k \in Nat |-> IF k = 0 THEN start ELSE step[f[k - 1]]]

LEMMA Iterates ==
    ASSUME NEW start, NEW step
    PROVE  \E f : Iterate(f, start, step)
<1> DEFINE upto(n) == CHOOSE g : Prefix(g, start, step, n)
           f == [n \in Nat |-> upto(n)[n]]
<1>1. \A n \in Nat : Prefix(upto(n), start, step, n)
  BY PrefixExists
<1> HIDE DEF upto
<1>2. ASSUME NEW n \in Nat
      PROVE  f[n] = IF n = 0 THEN start ELSE step[f[n - 1]]
  <2>1. upto(n)[n] = IF n = 0 THEN start ELSE step[upto(n)[n - 1]]
    BY <1>1 DEF Prefix
  <2>2. ASSUME n # 0 PROVE upto(n)[n - 1] = upto(n - 1)[n - 1]
    <3>1. n - 1 \in Nat /\ n - 1 <= n
      BY <2>2
    <3> QED
      BY <1>1, <3>1, PrefixUnique
  <2>3. CASE n = 0
    BY <2>1, <2>3
  <2>4. CASE n # 0
    <3>1. n - 1 \in Nat
      BY <2>4
    <3> QED
      BY <2>1, <2>2, <2>4, <3>1
  <2> QED
    BY <2>3, <2>4
<1>3. f = [n \in Nat |-> f[n]]
  OBVIOUS
<1> HIDE DEF f
<1>4. f = [n \in Nat |-> IF n = 0 THEN start ELSE step[f[n - 1]]]
  BY <1>2, <1>3
<1> QED
  BY <1>4 DEF Iterate

\* What is found level by level: own[c] in c, and what is found in sub[c].
Layered(f, own, sub) ==
    f = [k \in Nat |->
            [c \in Servants |->
                IF k = 0 THEN {}
                ELSE own[c] \cup AllOf(f[k - 1], sub[c])]]

LEMMA LayeredExists ==
    ASSUME NEW own \in [Servants -> SUBSET Objs], NEW sub \in [Servants -> SUBSET Objs]
    PROVE  \E f : Layered(f, own, sub)
<1> DEFINE G == [Servants -> SUBSET Objs]
           start == [c \in Servants |-> {}]
           next(g) == [c \in Servants |-> own[c] \cup AllOf(g, sub[c])]
           step == [g \in G |-> next(g)]
<1>1. start \in G
  OBVIOUS
<1>2. ASSUME NEW g \in G PROVE next(g) \in G
  <2>1. ASSUME NEW c \in Servants
        PROVE  own[c] \cup AllOf(g, sub[c]) \in SUBSET Objs
    BY DEF Servants, AllOf
  <2> QED
    BY <2>1
<1>3. \A g \in G : step[g] = next(g)
  OBVIOUS
<1> HIDE DEF G, start, step, next
<1>4. PICK f : Iterate(f, start, step)
  BY Iterates
<1>5. \A k \in Nat : f[k] \in G
  <2> DEFINE T == {k \in Nat : f[k] \in G}
  <2>1. 0 \in T
    BY <1>1, <1>4 DEF Iterate
  <2>2. ASSUME NEW k \in T PROVE k + 1 \in T
    <3>1. f[k + 1] = step[f[k]]
      BY <1>4 DEF Iterate
    <3> QED
      BY <1>2, <1>3, <3>1
  <2> HIDE DEF T
  <2>3. T = Nat
    <3>1. T \in SUBSET Nat
      BY DEF T
    <3> QED
      BY <2>1, <2>2, <3>1, AllNumbers
  <2> QED
    BY <2>3 DEF T
<1>6. ASSUME NEW k \in Nat
      PROVE  f[k] = [c \in Servants |->
                        IF k = 0 THEN {}
                        ELSE own[c] \cup AllOf(f[k - 1], sub[c])]
  <2>1. CASE k = 0
    BY <1>4, <2>1 DEF Iterate, start
  <2>2. CASE k # 0
    <3>1. k - 1 \in Nat /\ f[k] = step[f[k - 1]]
      BY <1>4, <2>2 DEF Iterate
    <3>2. f[k] = next(f[k - 1])
      BY <1>3, <1>5, <3>1
    <3> QED
      BY <2>2, <3>2 DEF next
  <2> QED
    BY <2>1, <2>2
<1>7. f = [k \in Nat |-> f[k]]
  BY <1>4 DEF Iterate
<1> QED
  BY <1>6, <1>7 DEF Layered

LEMMA LayeredStep ==
    ASSUME NEW own, NEW sub, NEW f, Layered(f, own, sub), NEW c \in Servants, NEW k \in Nat
    PROVE  /\ f[0][c] = {}
           /\ f[k + 1][c] = own[c] \cup AllOf(f[k], sub[c])
<1>1. k + 1 \in Nat /\ k + 1 # 0 /\ (k + 1) - 1 = k
  OBVIOUS
<1>2. f[0][c] = {}
  BY DEF Layered
<1>3. f[k + 1] = [d \in Servants |->
                    IF k + 1 = 0 THEN {}
                    ELSE own[d] \cup AllOf(f[(k + 1) - 1], sub[d])]
  BY <1>1 DEF Layered
<1> QED
  BY <1>1, <1>2, <1>3

\* Within says what its definition says.
LEMMA WithinStep ==
    ASSUME TypeOK, NEW c \in Servants, NEW k \in Nat
    PROVE  /\ Within[0][c] = {}
           /\ Within[k + 1][c] = contents[c] \cup AllOf(Within[k], contents[c])
<1>1. contents \in [Servants -> SUBSET Objs]
  BY DEF TypeOK
<1>2. PICK f : Layered(f, contents, contents)
  BY <1>1, LayeredExists
<1>3. Layered(Within, contents, contents)
  BY <1>2 DEF Within, Layered
<1> QED
  BY <1>3, LayeredStep

\* So does Found.
LEMMA FoundStep ==
    ASSUME TypeOK, NEW n, NEW limit, NEW c \in Servants, NEW k \in Nat
    PROVE  /\ Found(n, limit)[0][c] = {}
           /\ Found(n, limit)[k + 1][c] =
                Matching(c, n, limit) \cup
                AllOf(Found(n, limit)[k], SubContainers(c))
<1> DEFINE own == [d \in Servants |-> Matching(d, n, limit)]
           sub == [d \in Servants |-> SubContainers(d)]
           f == Found(n, limit)
<1>1. own \in [Servants -> SUBSET Objs] /\ sub \in [Servants -> SUBSET Objs]
  BY DEF TypeOK, Matching, Contents, SubContainers
<1>2. \A d \in Servants : /\ own[d] = Matching(d, n, limit)
                          /\ sub[d] = SubContainers(d)
  OBVIOUS
<1> HIDE DEF own, sub
<1>3. PICK g : Layered(g, own, sub)
  BY <1>1, LayeredExists
<1> DEFINE lookup(h, j) ==
            [d \in Servants |->
                IF j = 0 THEN {}
                ELSE Matching(d, n, limit) \cup
                     AllOf(h[j - 1], SubContainers(d))]
           layer(h, j) ==
            [d \in Servants |->
                IF j = 0 THEN {} ELSE own[d] \cup AllOf(h[j - 1], sub[d])]
<1>4. ASSUME NEW h, NEW j PROVE lookup(h, j) = layer(h, j)
  BY <1>2
<1>5. f = [j \in Nat |-> lookup(f, j)]
  <2>1. g = [j \in Nat |-> layer(g, j)]
    BY <1>3 DEF Layered
  <2> HIDE DEF lookup, layer
  <2>2. g = [j \in Nat |-> lookup(g, j)]
    BY <1>4, <2>1
  <2> QED
    BY <2>2 DEF Found, lookup
<1>6. Layered(f, own, sub)
  <2> HIDE DEF f, lookup, layer
  <2>1. f = [j \in Nat |-> layer(f, j)]
    BY <1>4, <1>5
  <2> QED
    BY <2>1 DEF Layered, layer
<1>7. f[0][c] = {} /\ f[k + 1][c] = own[c] \cup AllOf(f[k], sub[c])
  BY <1>6, LayeredStep
<1> QED
  BY <1>2, <1>7 DEF f

\* What lookup_name() finds k levels down is what is there and matches: what is no
\* container has nothing inside.
Hit(x, n, limit) == limit \in {"all", kind[x]} /\ Matches(x, n, limit)

LEMMA NothingWithin ==
    ASSUME TypeOK, NEW c \in Servants, contents[c] = {}, NEW k \in Nat
    PROVE  Within[k][c] = {}
<1>1. CASE k = 0
  BY <1>1, WithinStep
<1>2. CASE k # 0
  <2>1. k - 1 \in Nat /\ (k - 1) + 1 = k
    BY <1>2
  <2>2. Within[(k - 1) + 1][c] = contents[c] \cup AllOf(Within[k - 1], contents[c])
    BY <2>1, WithinStep
  <2> QED
    BY <2>1, <2>2 DEF AllOf
<1> QED
  BY <1>1, <1>2

LEMMA FoundIsWithin ==
    ASSUME TypeOK, Holders, NEW n, NEW limit, NEW k \in Nat, NEW c \in Servants
    PROVE  Found(n, limit)[k][c] = {x \in Within[k][c] : Hit(x, n, limit)}
<1> DEFINE f == Found(n, limit)
           T == {j \in Nat : \A d \in Servants :
                    f[j][d] = {x \in Within[j][d] : Hit(x, n, limit)}}
<1>1. contents \in [Servants -> SUBSET Objs] /\ Objs \subseteq Servants
  BY DEF TypeOK, Servants
<1>2. 0 \in T
  <2>1. \A d \in Servants : f[0][d] = {} /\ Within[0][d] = {}
    BY FoundStep, WithinStep
  <2> QED
    BY <2>1
<1>3. ASSUME NEW j \in T PROVE j + 1 \in T
  <2> SUFFICES ASSUME NEW d \in Servants
               PROVE  f[j + 1][d] = {x \in Within[j + 1][d] : Hit(x, n, limit)}
    OBVIOUS
  <2> DEFINE here == Matching(d, n, limit)
             S == SubContainers(d)
  <2>1. f[j + 1][d] = here \cup AllOf(f[j], S)
    BY FoundStep
  <2>2. Within[j + 1][d] = contents[d] \cup AllOf(Within[j], contents[d])
    BY WithinStep
  <2>3. \A x \in contents[d] : /\ x \in Servants
                               /\ f[j][x] = {y \in Within[j][x] : Hit(y, n, limit)}
    BY <1>1
  <2>4. \A x \in contents[d] \ S : Within[j][x] = {}
    <3>1. \A x \in contents[d] \ S : x \in Servants /\ contents[x] = {}
      BY <2>3 DEF SubContainers, Holders
    <3> QED
      BY <3>1, NothingWithin
  <2>5. S \subseteq contents[d] /\ here = {x \in contents[d] : Hit(x, n, limit)}
    BY DEF SubContainers, Matching, Contents, Hit
  <2> HIDE DEF f, here, S
  <2>6. AllOf(f[j], S) = {y \in AllOf(Within[j], contents[d]) : Hit(y, n, limit)}
    <3>1. ASSUME NEW y \in AllOf(f[j], S)
          PROVE  y \in AllOf(Within[j], contents[d]) /\ Hit(y, n, limit)
      BY <2>3, <2>5, <3>1 DEF AllOf
    <3>2. ASSUME NEW y \in AllOf(Within[j], contents[d]), Hit(y, n, limit)
          PROVE  y \in AllOf(f[j], S)
      <4>1. PICK x \in contents[d] : y \in Within[j][x]
        BY DEF AllOf
      <4>2. x \in S /\ y \in f[j][x]
        BY <2>3, <2>4, <3>2, <4>1
      <4> QED
        BY <4>2 DEF AllOf
    <3> QED
      BY <3>1, <3>2
  <2> QED
    BY <2>1, <2>2, <2>5, <2>6
<1> HIDE DEF T
<1>4. T = Nat
  <2>1. T \in SUBSET Nat
    BY DEF T
  <2> QED
    BY <1>2, <1>3, <2>1, AllNumbers
<1> QED
  BY <1>4 DEF T

\* One level more adds what is inside the definitions that are there.
LEMMA WithinTyped ==
    ASSUME TypeOK, NEW k \in Nat, NEW c \in Servants
    PROVE  Within[k][c] \subseteq Objs
<1> DEFINE T == {j \in Nat : \A d \in Servants : Within[j][d] \subseteq Objs}
<1>1. contents \in [Servants -> SUBSET Objs] /\ Objs \subseteq Servants
  BY DEF TypeOK, Servants
<1>2. 0 \in T
  BY WithinStep
<1>3. ASSUME NEW j \in T PROVE j + 1 \in T
  <2> SUFFICES ASSUME NEW d \in Servants PROVE Within[j + 1][d] \subseteq Objs
    OBVIOUS
  <2>1. Within[j + 1][d] = contents[d] \cup AllOf(Within[j], contents[d])
    BY WithinStep
  <2>2. \A x \in contents[d] : Within[j][x] \subseteq Objs
    BY <1>1
  <2> QED
    BY <1>1, <2>1, <2>2 DEF AllOf
<1> HIDE DEF T
<1>4. T = Nat
  <2>1. T \in SUBSET Nat
    BY DEF T
  <2> QED
    BY <1>2, <1>3, <2>1, AllNumbers
<1> QED
  BY <1>4 DEF T

LEMMA WithinGrows ==
    ASSUME TypeOK, NEW k \in Nat, NEW c \in Servants
    PROVE  Within[k + 1][c] =
            Within[k][c] \cup contents[c] \cup AllOf(contents, Within[k][c])
<1> DEFINE grown(j, d) == Within[j][d] \cup contents[d] \cup AllOf(contents, Within[j][d])
           T == {j \in Nat : \A d \in Servants : Within[j + 1][d] = grown(j, d)}
<1>1. contents \in [Servants -> SUBSET Objs] /\ Objs \subseteq Servants
  BY DEF TypeOK, Servants
<1>2. 0 \in T
  <2>1. ASSUME NEW d \in Servants PROVE Within[0 + 1][d] = grown(0, d)
    <3>1. /\ Within[0][d] = {}
          /\ Within[0 + 1][d] = contents[d] \cup AllOf(Within[0], contents[d])
          /\ \A x \in contents[d] : Within[0][x] = {}
      BY <1>1, WithinStep
    <3> QED
      BY <3>1 DEF AllOf
  <2> QED
    BY <2>1
<1>3. ASSUME NEW j \in T PROVE j + 1 \in T
  <2> SUFFICES ASSUME NEW d \in Servants
               PROVE  Within[(j + 1) + 1][d] = grown(j + 1, d)
    OBVIOUS
  <2>1. Within[j + 1][d] = contents[d] \cup AllOf(Within[j], contents[d])
    BY WithinStep
  <2>2. Within[(j + 1) + 1][d] = contents[d] \cup AllOf(Within[j + 1], contents[d])
    BY WithinStep
  <2>3. \A x \in contents[d] :
            Within[j + 1][x] = Within[j][x] \cup contents[x] \cup AllOf(contents, Within[j][x])
    BY <1>1
  <2>4. ASSUME NEW y \in AllOf(Within[j + 1], contents[d]) PROVE y \in grown(j + 1, d)
    <3>1. PICK x \in contents[d] : y \in Within[j + 1][x]
      BY DEF AllOf
    <3>2. CASE y \in Within[j][x]
      BY <2>1, <3>1, <3>2 DEF AllOf
    <3>3. CASE y \in contents[x]
      BY <2>1, <3>1, <3>3 DEF AllOf
    <3>4. CASE y \in AllOf(contents, Within[j][x])
      <4>1. PICK z \in Within[j][x] : y \in contents[z]
        BY <3>4 DEF AllOf
      <4>2. z \in Within[j + 1][d]
        BY <2>1, <3>1, <4>1 DEF AllOf
      <4> QED
        BY <4>1, <4>2 DEF AllOf
    <3> QED
      BY <2>3, <3>1, <3>2, <3>3, <3>4
  <2>5. ASSUME NEW y \in Within[j + 1][d] PROVE y \in Within[(j + 1) + 1][d]
    <3>1. CASE y \in contents[d]
      BY <2>2, <3>1
    <3>2. CASE y \notin contents[d]
      <4>1. PICK x \in contents[d] : y \in Within[j][x]
        BY <2>1, <3>2 DEF AllOf
      <4>2. y \in Within[j + 1][x]
        BY <2>3, <4>1
      <4> QED
        BY <2>2, <4>1, <4>2 DEF AllOf
    <3> QED
      BY <3>1, <3>2
  <2>6. ASSUME NEW y \in AllOf(contents, Within[j + 1][d])
        PROVE  y \in Within[(j + 1) + 1][d]
    <3>1. PICK z \in Within[j + 1][d] : y \in contents[z]
      BY DEF AllOf
    <3>2. CASE z \in contents[d]
      <4>1. y \in Within[j + 1][z]
        BY <2>3, <3>1, <3>2
      <4> QED
        BY <2>2, <3>2, <4>1 DEF AllOf
    <3>3. CASE z \notin contents[d]
      <4>1. PICK x \in contents[d] : z \in Within[j][x]
        BY <2>1, <3>1, <3>3 DEF AllOf
      <4>2. y \in AllOf(contents, Within[j][x])
        BY <3>1, <4>1 DEF AllOf
      <4>3. y \in Within[j + 1][x]
        BY <2>3, <4>1, <4>2
      <4> QED
        BY <2>2, <4>1, <4>3 DEF AllOf
    <3> QED
      BY <3>2, <3>3
  <2> QED
    BY <2>2, <2>4, <2>5, <2>6
<1> HIDE DEF T
<1>4. T = Nat
  <2>1. T \in SUBSET Nat
    BY DEF T
  <2> QED
    BY <1>2, <1>3, <2>1, AllNumbers
<1> QED
  BY <1>4 DEF T

\* After as many levels as there are definitions, everything inside is there: a
\* level that adds nothing is the last one, and every other one adds a definition.
LEMMA WithinAll ==
    ASSUME TypeOK, NEW c \in Servants
    PROVE  /\ Cardinality(Objs) \in Nat
           /\ Within[Cardinality(Objs)][c] = Below(c)
<1> DEFINE N == Cardinality(Objs)
           Complete(W) == contents[c] \subseteq W /\ \A y \in W : contents[y] \subseteq W
           T == {j \in Nat : \/ Complete(Within[j][c])
                             \/ Cardinality(Within[j][c]) >= j}
           B == {j \in Nat : Within[j][c] \subseteq Below(c)}
<1>1. contents \in [Servants -> SUBSET Objs] /\ Objs \subseteq Servants
  BY DEF TypeOK, Servants
<1>2. N \in Nat /\ IsFiniteSet(Objs)
  BY FS_CardinalityType, FiniteAssumption
<1>3. \A j \in Nat : /\ Within[j][c] \subseteq Objs
                     /\ IsFiniteSet(Within[j][c])
                     /\ Cardinality(Within[j][c]) \in Nat
                     /\ Cardinality(Within[j][c]) <= N
                     /\ Cardinality(Within[j][c]) = N => Within[j][c] = Objs
  <2>1. \A j \in Nat : Within[j][c] \in SUBSET Objs
    BY WithinTyped
  <2> QED
    BY <1>2, <2>1, FS_Subset, FS_CardinalityType
<1>4. \A j \in Nat : Within[j + 1][c] =
        Within[j][c] \cup contents[c] \cup AllOf(contents, Within[j][c])
  BY WithinGrows
<1>5. 0 \in T
  <2>1. Cardinality(Within[0][c]) \in Nat
    BY <1>3
  <2> QED
    BY <2>1
<1>6. ASSUME NEW j \in T PROVE j + 1 \in T
  <2> DEFINE V == Within[j][c]
             W == Within[j + 1][c]
  <2>1. W = V \cup contents[c] \cup AllOf(contents, V)
    BY <1>4
  <2>2. CASE Complete(V)
    <3>1. W = V
      BY <2>1, <2>2 DEF AllOf
    <3> QED
      BY <2>2, <3>1
  <2>3. CASE ~ Complete(V)
    <3>1. V \subseteq W /\ V # W
      BY <2>1, <2>3 DEF AllOf
    <3>2. /\ IsFiniteSet(W) /\ Cardinality(V) \in Nat /\ Cardinality(W) \in Nat
      BY <1>3
    <3>3. Cardinality(V) >= j
      BY <2>3
    <3> HIDE DEF V, W
    <3>4. Cardinality(V) <= Cardinality(W) /\ Cardinality(V) # Cardinality(W)
      BY <3>1, <3>2, FS_Subset
    <3>5. Cardinality(W) >= j + 1
      BY <3>2, <3>3, <3>4
    <3> QED
      BY <3>5 DEF W
  <2> QED
    BY <2>2, <2>3
<1>7. 0 \in B
  BY WithinStep
<1>8. ASSUME NEW j \in B PROVE j + 1 \in B
  <2>1. contents[c] \subseteq Below(c) /\ \A d \in Below(c) : contents[d] \subseteq Below(c)
    BY <1>1 DEF Below
  <2> QED
    BY <1>4, <2>1 DEF AllOf
<1>9. N \in T /\ N \in B
  <2>1. T \in SUBSET Nat /\ B \in SUBSET Nat
    OBVIOUS
  <2> HIDE DEF T, B
  <2> QED
    BY <1>2, <1>5, <1>6, <1>7, <1>8, <2>1, AllNumbers
<1>10. Complete(Within[N][c])
  <2> SUFFICES ASSUME Cardinality(Within[N][c]) >= N PROVE Complete(Within[N][c])
    BY <1>9
  <2>1. Within[N][c] = Objs
    BY <1>2, <1>3
  <2> QED
    BY <1>1, <2>1
<1>11. Below(c) \subseteq Within[N][c]
  BY <1>2, <1>3, <1>10 DEF Below
<1> QED
  BY <1>2, <1>9, <1>11

LEMMA InvLookupNameFinds ==
    ASSUME TypeOK, Holders
    PROVE  LookupNameFinds
<1> SUFFICES ASSUME NEW c \in Objs \cup {Root}, NEW n \in Names,
                    NEW limit \in Kinds \cup {"all"}, NEW levels \in {-1} \cup 1..MaxDepth
             PROVE  LET named == {x \in IF levels = -1 THEN Below(c)
                                        ELSE Within[levels][c] :
                                    name[x] = n /\ limit \in {"all", kind[x]}}
                        found == LookupName(c, n, levels, limit)
                    IN named \subseteq found /\ (limit = "all" => found = named)
  BY DEF LookupNameFinds
<1> DEFINE k == IF levels > 0 THEN levels ELSE Cardinality(Objs)
           W == IF levels = -1 THEN Below(c) ELSE Within[levels][c]
<1>1. c \in Servants /\ MaxDepth \in Nat
  BY ConstantsAssumption DEF Servants
<1>2. k \in Nat /\ Within[k][c] = W
  <2>1. CASE levels = -1
    BY <1>1, <2>1, WithinAll
  <2>2. CASE levels # -1
    <3>1. levels \in Nat /\ levels > 0
      BY <1>1, <2>2
    <3> QED
      BY <2>2, <3>1
  <2> QED
    BY <2>1, <2>2
<1> HIDE DEF W
<1>3. LookupName(c, n, levels, limit) = Found(n, limit)[k][c]
  BY DEF LookupName
<1> HIDE DEF k
<1>4. LookupName(c, n, levels, limit) = {x \in W : Hit(x, n, limit)}
  BY <1>1, <1>2, <1>3, FoundIsWithin
<1>5. \A x \in W : /\ name[x] = n /\ limit \in {"all", kind[x]} => Hit(x, n, limit)
                   /\ Hit(x, n, limit) /\ limit = "all" => name[x] = n
  <2>1. "all" \notin AllKinds
    BY DEF AllKinds, ContainedKinds, AnonymousKinds
  <2>2. \A x \in W : kind[x] \in AllKinds
    <3>1. W \subseteq Servants
      BY <1>1, <1>2, WithinTyped DEF Servants
    <3> QED
      BY <3>1 DEF TypeOK
  <2> QED
    BY <2>1, <2>2 DEF Hit, Matches
<1> QED
  BY <1>4, <1>5 DEF W

\* lookup_name() finds every definition of the name within the levels it was given,
\* and no other one if it is asked for no kind (Container.cc:80-123).
THEOREM LookupNameIsExact == Spec => []LookupNameFinds
<1>1. IInv => TypeOK
  BY DEF IInv
<1> QED
  BY <1>1, InvLookupNameFinds, HoldersAreContainers, Invariance, PTL

-----------------------------------------------------------------------------
(* Absolute names.                                                         *)

\* A step leaves the names and the place of x alone.
NameKept(x) == name'[x] = name[x] /\ absName'[x] = absName[x] /\ definedIn'[x] = definedIn[x]

\* A step writes them anew, the absolute name under that of the container.
Rewritten(x) ==
    \E c \in Objs \cup {Root}, n \in Names :
        /\ definedIn'[x] = c /\ name'[x] = n
        /\ absName'[x] = AbsoluteName(c, n)
        /\ c # x /\ c # Root => absName'[c] = absName[c]

LEMMA StepKeptOrRewritten ==
    ASSUME IInv, [Next]_vars, NEW x \in Objs, definedIn'[x] # NoObj
    PROVE  NameKept(x) \/ Rewritten(x)
<1> USE ConstantsAssumption DEF IInv
<1>1. ASSUME NEW o \in Objs, NEW c \in Servants, NEW k \in ContainedKinds \cap Kinds,
             NEW i \in Ids, NEW n \in Names, CreateContained(c, o, k, i, n)
      PROVE  NameKept(x) \/ Rewritten(x)
  <2>1. /\ definedIn' = [definedIn EXCEPT ![o] = c]
        /\ name' = [name EXCEPT ![o] = n]
        /\ absName' = [absName EXCEPT ![o] = AbsoluteName(c, n)]
        /\ c \in Objs \cup {Root}
    BY <1>1, ContainerType DEF CreateContained, CreateRequest
  <2> QED
    BY <2>1 DEF NameKept, Rewritten, TypeOK
<1>2. ASSUME NEW o \in Objs, NEW n \in Names, Rename(o, n)
      PROVE  NameKept(x) \/ Rewritten(x)
  <2>1. /\ definedIn' = definedIn /\ definedIn[o] \in Objs \cup {Root}
        /\ name' = [name EXCEPT ![o] = n]
        /\ absName' = [absName EXCEPT ![o] = AbsoluteName(definedIn[o], n)]
    BY <1>2 DEF Rename, TypeOK, tree
  <2> QED
    BY <2>1 DEF NameKept, Rewritten, TypeOK
<1>3. ASSUME NEW o \in Objs, NEW c \in Objs, NEW n \in Names, Relocate(o, c, n)
      PROVE  NameKept(x) \/ Rewritten(x)
  <2>1. /\ definedIn' = [definedIn EXCEPT ![o] = c]
        /\ name' = [name EXCEPT ![o] = n]
        /\ absName' = [absName EXCEPT ![o] = AbsoluteName(c, n)]
    BY <1>3 DEF Relocate, Reparent
  <2> QED
    BY <2>1 DEF NameKept, Rewritten, TypeOK
<1>4. ASSUME NEW o \in Objs, Destroy(o)
      PROVE  NameKept(x)
  <2>1. /\ o \in ContainedObjectSet(o)
        /\ definedIn' = [y \in Objs |-> IF y \in ContainedObjectSet(o) THEN NoObj
                                        ELSE definedIn[y]]
        /\ name' = [name EXCEPT ![o] = NoString]
        /\ absName' = [absName EXCEPT ![o] = <<>>]
    BY <1>4 DEF Destroy, ContainedObjectSet
  <2> QED
    BY <2>1 DEF NameKept, TypeOK
<1>5. ASSUME UNCHANGED <<definedIn, name, absName>> PROVE NameKept(x)
  BY <1>5 DEF NameKept
<1>6. ASSUME NEW o \in Objs, NEW k \in AnonymousKinds, CreateAnonymous(o, k)
      PROVE  NameKept(x)
  BY <1>5, <1>6 DEF CreateAnonymous, naming
<1>7. ASSUME NEW o \in Objs, SetReferences(o) PROVE NameKept(x)
  BY <1>5, <1>7 DEF SetReferences, naming, tree
<1>8. ASSUME NEW o \in Objs, NEW i \in Ids, SetId(o, i) PROVE NameKept(x)
  BY <1>5, <1>8 DEF SetId, naming, tree
<1>9. CASE DestroyRepository
  BY <1>5, <1>9 DEF DestroyRepository, naming, tree
<1>10. ASSUME NEW site \in CrashSites, Dies(site) PROVE NameKept(x)
  BY <1>5, <1>10 DEF Dies, naming, tree
<1>11. CASE UNCHANGED vars
  BY <1>5, <1>11 DEF vars, naming, tree
<1> QED
  BY <1>1, <1>2, <1>3, <1>4, <1>6, <1>7, <1>8, <1>9, <1>10, <1>11, DyingRequests
     DEF Next, SetName, Move

\* What follows in a chain is inside what goes before it.
LEMMA ChainNests ==
    ASSUME IInv, NEW path \in Seq(Names), NEW chain \in Chains(path),
           NEW i \in 1..Len(path), NEW j \in 1..Len(path), i < j
    PROVE  chain[j] \in Below(chain[i])
<1> DEFINE n == Len(path)
<1>1. n \in Nat
  BY LenProperties
<1>2. /\ \A k \in 1..n : chain[k] \in Objs
      /\ \A k \in 1..n : k # 1 => definedIn[chain[k]] = chain[k - 1]
  BY DEF Chains
<1> HIDE DEF n
<1>3. ASSUME NEW k \in 1..n, k # 1 PROVE chain[k] \in contents[chain[k - 1]]
  <2>1. k - 1 \in 1..n
    BY <1>1, <1>3
  <2> QED
    BY <1>2, <1>3, <2>1 DEF IInv, ContainmentSound, Servants
<1>4. ASSUME NEW S \in SUBSET Objs, contents[chain[i]] \subseteq S,
             \A c \in S : contents[c] \subseteq S
      PROVE  chain[j] \in S
  <2> DEFINE T == {k \in (i + 1)..j : chain[k] \notin S}
  <2>1. i \in 1..n /\ j \in 1..n
    BY DEF n
  <2>2. ASSUME T # {} PROVE FALSE
    <3>1. PICK m \in T : \A k \in T : m <= k
      <4>1. T \in SUBSET Nat
        BY <1>1, <2>1
      <4> QED
        BY <2>2, <4>1, Least
    <3>2. m \in 1..n /\ m # 1 /\ m \in (i + 1)..j
      BY <1>1, <2>1
    <3>3. CASE m = i + 1
      <4>1. m - 1 = i
        BY <1>1, <2>1, <3>2, <3>3
      <4> QED
        BY <1>3, <1>4, <3>1, <3>2, <4>1
    <3>4. CASE m # i + 1
      <4>1. m - 1 \in (i + 1)..j /\ ~ (m <= m - 1)
        BY <1>1, <2>1, <3>2, <3>4
      <4>2. chain[m - 1] \in S
        BY <3>1, <4>1
      <4> QED
        BY <1>3, <1>4, <3>1, <3>2, <4>2
    <3> QED
      BY <3>3, <3>4
  <2>3. j \in (i + 1)..j
    BY <1>1, <2>1
  <2> QED
    BY <2>2, <2>3
<1> QED
  BY <1>2, <1>4 DEF Below, n

\* A chain is one still if none of its definitions was renamed or moved.
LEMMA ChainStands ==
    ASSUME NEW path, NEW chain \in Chains(path),
           \A k \in 1..Len(path) : /\ name'[chain[k]] = name[chain[k]]
                                   /\ definedIn'[chain[k]] = definedIn[chain[k]]
    PROVE  /\ chain \in [1..Len(path) -> Objs]
           /\ \A k \in 1..Len(path) :
                /\ name'[chain[k]] = path[k]
                /\ definedIn'[chain[k]] = IF k = 1 THEN Root ELSE chain[k - 1]
BY DEF Chains

LEMMA KeptNameStale ==
    ASSUME IInv, NEW x \in Objs, NameKept(x), NameLeadsBack(x), definedIn'[x] # NoObj
    PROVE  \/ NameLeadsBack(x)'
           \/ \E y \in Objs : x \in Below(y) /\ <<name[y], definedIn[y]>> #
                                                <<name'[y], definedIn'[y]>>
<1> DEFINE path == absName[x]
           n == Len(path)
<1>1. path \in Seq(Names) /\ path # <<>> /\ n \in Nat
  <2>1. path # <<>>
    BY ConstantsAssumption DEF NameLeadsBack, LeadsTo, Servants
  <2>2. path \in Seq(Names)
    BY DEF IInv, TypeOK
  <2> QED
    BY <2>1, <2>2, LenProperties
<1>2. PICK chain \in Chains(path) : chain[n] = x
  BY ConstantsAssumption DEF NameLeadsBack, LeadsTo
<1>3. absName'[x] = path
  BY DEF NameKept
<1> HIDE DEF path
<1>4. CASE \A k \in 1..n : /\ name'[chain[k]] = name[chain[k]]
                           /\ definedIn'[chain[k]] = definedIn[chain[k]]
  <2>1. chain \in Chains(absName[x])'
    BY <1>3, <1>4, ChainStands DEF Chains
  <2> QED
    BY <1>1, <1>2, <1>3, <2>1 DEF NameLeadsBack, LeadsTo
<1>5. ASSUME NEW k \in 1..n,
             name'[chain[k]] # name[chain[k]] \/ definedIn'[chain[k]] # definedIn[chain[k]]
      PROVE  \E y \in Objs : x \in Below(y) /\ <<name[y], definedIn[y]>> #
                                               <<name'[y], definedIn'[y]>>
  <2>1. k # n
    BY <1>2, <1>5 DEF NameKept
  <2>2. n \in 1..n /\ k < n
    BY <1>1, <2>1
  <2>3. x \in Below(chain[k])
    BY <1>1, <1>2, <2>2, ChainNests
  <2>4. chain[k] \in Objs
    BY DEF Chains
  <2> QED
    BY <1>5, <2>3, <2>4
<1> QED
  BY <1>4, <1>5

LEMMA RewrittenNameStale ==
    ASSUME IInv, NEW x \in Objs, Rewritten(x),
           \A c \in Servants : c = definedIn'[x] => NameLeadsBack(c)'
    PROVE  NameLeadsBack(x)'
<1> USE ConstantsAssumption
<1>1. PICK c \in Objs \cup {Root}, n \in Names :
        /\ definedIn'[x] = c /\ name'[x] = n
        /\ absName'[x] = AbsoluteName(c, n)
        /\ c # x /\ c # Root => absName'[c] = absName[c]
  BY DEF Rewritten
<1>2. NameLeadsBack(c)' /\ c # NoObj
  BY <1>1 DEF Servants
<1>3. CASE c = Root
  <2>1. absName'[x] = <<n>>
    BY <1>1, <1>3 DEF AbsoluteName
  <2>2. Len(<<n>>) = 1 /\ <<n>>[1] = n /\ <<n>> # <<>>
    OBVIOUS
  <2> DEFINE chain == [k \in 1..1 |-> x]
  <2>3. chain \in [1..1 -> Objs] /\ \A k \in 1..1 : k = 1 /\ chain[k] = x
    OBVIOUS
  <2> HIDE DEF chain
  <2>4. \A k \in 1..1 : name'[chain[k]] = <<n>>[k] /\ definedIn'[chain[k]] = Root
    BY <1>1, <1>3, <2>2, <2>3
  <2>5. chain \in Chains(absName[x])'
    BY <2>1, <2>2, <2>3, <2>4 DEF Chains
  <2>6. chain[1] = x
    BY <2>3
  <2> QED
    BY <1>1, <1>2, <2>1, <2>2, <2>5, <2>6 DEF NameLeadsBack, LeadsTo
<1>4. CASE c = x
  BY <1>2, <1>4
<1>5. CASE c # Root /\ c # x
  <2> DEFINE path == absName[c]
             long == Append(path, n)
             m == Len(path)
  <2>1. path \in Seq(Names) /\ absName'[c] = path
    BY <1>1, <1>5 DEF IInv, TypeOK
  <2>2. path # <<>> /\ LeadsTo(absName[c], c)'
    BY <1>2, <1>5, <2>1 DEF NameLeadsBack, LeadsTo
  <2>3. PICK chain \in Chains(absName[c])' : chain[m] = c
    BY <2>1, <2>2 DEF LeadsTo
  <2>4. /\ absName'[x] = long /\ long # <<>>
        /\ m \in Nat \ {0} /\ Len(long) = m + 1
        /\ long[m + 1] = n /\ \A k \in 1..m : long[k] = path[k]
    <3>1. absName'[x] = long
      BY <1>1, <1>5 DEF AbsoluteName
    <3>2. m \in Nat \ {0}
      BY <2>1, <2>2, LenProperties, EmptySeq
    <3>3. Len(long) = m + 1 /\ long[m + 1] = n /\ \A k \in 1..m : long[k] = path[k]
      BY <2>1, AppendProperties, LenProperties
    <3> QED
      BY <3>1, <3>2, <3>3
  <2>5. /\ chain \in [1..m -> Objs]
        /\ \A k \in 1..m :
            /\ name'[chain[k]] = path[k]
            /\ definedIn'[chain[k]] = IF k = 1 THEN Root ELSE chain[k - 1]
    BY <2>1, <2>3 DEF Chains
  <2> HIDE DEF path, long, m
  <2> DEFINE longer == [k \in 1..(m + 1) |-> IF k = m + 1 THEN x ELSE chain[k]]
  <2>6. longer \in [1..(m + 1) -> Objs]
    BY <2>4, <2>5
  <2>7. ASSUME NEW k \in 1..(m + 1)
        PROVE  /\ name'[longer[k]] = long[k]
               /\ definedIn'[longer[k]] = IF k = 1 THEN Root ELSE longer[k - 1]
    <3>1. CASE k = m + 1
      <4>1. k # 1 /\ k - 1 = m /\ m \in 1..(m + 1) /\ m # m + 1
        BY <2>4, <3>1
      <4>2. longer[k] = x /\ longer[k - 1] = c
        BY <2>3, <3>1, <4>1
      <4> QED
        BY <1>1, <2>4, <3>1, <4>1, <4>2
    <3>2. CASE k # m + 1
      <4>1. k \in 1..m /\ longer[k] = chain[k]
        BY <2>4, <3>2
      <4>2. k # 1 => k - 1 \in 1..(m + 1) /\ longer[k - 1] = chain[k - 1]
        BY <2>4, <4>1
      <4> QED
        BY <2>4, <2>5, <4>1, <4>2
    <3> QED
      BY <3>1, <3>2
  <2>8. longer[m + 1] = x
    BY <2>4
  <2> HIDE DEF longer
  <2>9. longer \in Chains(absName[x])'
    BY <2>4, <2>6, <2>7 DEF Chains
  <2> QED
    BY <1>1, <1>2, <2>4, <2>8, <2>9 DEF NameLeadsBack, LeadsTo
<1> QED
  BY <1>3, <1>4, <1>5

\* A step that makes an absolute name lead elsewhere comes from above.
LEMMA StepNameStale ==
    ASSUME IInv, [Next]_vars, NEW x \in Objs,
           definedIn[x] = NoObj \/ NameLeadsBack(x), definedIn'[x] # NoObj
    PROVE  \/ NameLeadsBack(x)'
           \/ \E y \in Objs : x \in Below(y) /\ <<name[y], definedIn[y]>> #
                                                <<name'[y], definedIn'[y]>>
           \/ \E c \in Servants : c = definedIn'[x] /\ ~ NameLeadsBack(c)'
<1>1. CASE NameKept(x)
  BY <1>1, KeptNameStale DEF NameKept
<1>2. CASE Rewritten(x)
  BY <1>2, RewrittenNameStale
<1> QED
  BY <1>1, <1>2, StepKeptOrRewritten

\* An absolute name goes stale from above only: with a definition around it.
THEOREM NamesStaleFromAbove == Spec => NameStaleOnlyFromAbove
<1>1. IInv /\ [Next]_vars =>
        [\A x \in Objs :
            ((definedIn[x] = NoObj \/ NameLeadsBack(x)) /\ definedIn'[x] # NoObj) =>
            \/ NameLeadsBack(x)'
            \/ \E y \in Objs : x \in Below(y) /\ <<name[y], definedIn[y]>> #
                                                 <<name'[y], definedIn'[y]>>
            \/ \E c \in Servants : c = definedIn'[x] /\ ~ NameLeadsBack(c)']_vars
  BY StepNameStale
<1> QED
  BY <1>1, Invariance, PTL DEF Spec, NameStaleOnlyFromAbove

=============================================================================
