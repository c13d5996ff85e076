--------------------------- MODULE IfrCarefulProofs ---------------------------
(***************************************************************************)
(* Proofs about IfrCareful, for every value of its constants: under the    *)
(* five rules no request ends the server, no definition is lost, a request *)
(* changes one definition, and what clients see is a catalogue.            *)
(*                                                                         *)
(* The rules work because containment and type references stay well        *)
(* founded.  NestingEnds says so of _defined_in and ChainsEnd of what      *)
(* type() recurses through; both are stated without recursion: in every    *)
(* set some member leads out of the set.  GInv adds to the first what ties *)
(* a definition to its id and its container, on top of the invariant of    *)
(* IfrObjectsProofs; CInv is GInv while chains end and the server runs.    *)
(***************************************************************************)
EXTENDS IfrCareful, IfrObjectsProofs

\* The Repository is up; no client made a second one, nor a primitive.
Rooted ==
    /\ IsActive(Root)
    /\ kind[Root] = "Repository"
    /\ \A o \in Objs : kind[o] \in ContainedKinds \cup AnonymousKinds \cup {"None"}

\* What is in a container is what is alive and is not anonymous.
Placed ==
    \A o \in Objs : definedIn[o] # NoObj <=> IsActive(o) /\ kind[o] \in ContainedKinds

\* Only a live container has contents.
Held ==
    \A c \in Servants : contents[c] # {} => IsActive(c) /\ kind[c] \in ContainerKinds

\* A definition in a container has a name, and an absolute name.
Named ==
    \A o \in Objs : definedIn[o] # NoObj => name[o] \in Names /\ absName[o] # <<>>

\* A definition in a container has an id, and the id leads to it.
Registered ==
    \A o \in Objs :
        /\ definedIn[o] # NoObj => id[o] \in Ids /\ idmap[id[o]] = o
        /\ definedIn[o] = NoObj => id[o] = NoString

\* Following _defined_in one leaves any set of definitions.
NestingEnds ==
    \A U \in SUBSET Objs : U # {} => \E x \in U : definedIn[x] \notin U

\* type() leaves any set of types.
ChainsEnd ==
    \A S \in SUBSET (Objs \cup {Prim}) :
        S # {} => \E x \in S : Delegate(x) \cap S = {}

\* A container holds what it can hold; the Repository keeps a list of the types
\* that are in none; a kind that holds one reference has one.
Fitting ==
    \A o \in Objs : definedIn[o] # NoObj => kind[o] \in Containable(kind[definedIn[o]])
Listed ==
    \A o \in Objs : o \in anonymous <=> IsActive(o) /\ kind[o] \in AnonymousKinds
Referring ==
    \A o \in Objs : (IsActive(o) /\ kind[o] \in OneRefKinds) => refs[o] # {}

\* What holds of the definitions also when they were read back from a file; CInv
\* is more than that, because a file can bring chains that do not end.
GInv ==
    /\ IInv
    /\ Rooted /\ Placed /\ Held /\ Named /\ Registered
    /\ NestingEnds
    /\ Fitting /\ Listed /\ Referring

CInv ==
    /\ GInv
    /\ crash = "no"
    /\ ChainsEnd

-----------------------------------------------------------------------------
(* Facts about the operators.                                              *)

\* What is below an object is in one of the containers below it.
LEMMA BelowParents ==
    ASSUME IInv, NEW o \in Objs \cup {Root}, NEW x \in Below(o)
    PROVE  definedIn[x] \in ContainedObjectSet(o)
<1> DEFINE S == {y \in Below(o) : definedIn[y] \in ContainedObjectSet(o)}
<1>1. contents[o] \subseteq Below(o) /\ \A d \in Below(o) : contents[d] \subseteq Below(o)
  BY DEF IInv, TypeOK, Below, Servants
<1>2. Below(o) \subseteq Objs
  BY DEF Below
<1>3. ASSUME NEW d \in ContainedObjectSet(o), NEW y \in contents[d]
      PROVE  y \in S
  <2>1. d \in Servants /\ contents[d] \subseteq Objs
    BY <1>2 DEF ContainedObjectSet, IInv, TypeOK, Servants
  <2>2. definedIn[y] = d
    BY <2>1, <1>3 DEF IInv, ContainmentSound
  <2>3. y \in Below(o)
    BY <1>1, <1>3 DEF ContainedObjectSet
  <2> QED
    BY <2>2, <2>3
<1>4. S \subseteq Objs /\ contents[o] \subseteq S /\ \A c \in S : contents[c] \subseteq S
  BY <1>2, <1>3 DEF ContainedObjectSet
<1>5. x \in S
  <2> HIDE DEF S
  <2> QED
    BY <1>4 DEF Below
<1> QED
  BY <1>5

\* No definition is inside itself.
LEMMA NoLoops ==
    ASSUME GInv, NEW o \in Objs
    PROVE  ~ InLoop(o)
<1> SUFFICES ASSUME o \in Below(o) PROVE FALSE
  BY DEF InLoop
<1>1. Below(o) \subseteq Objs
  BY DEF Below
<1>2. \A x \in Below(o) : definedIn[x] \in Below(o)
  BY BelowParents DEF CInv, GInv, ContainedObjectSet
<1> QED
  BY <1>1, <1>2 DEF CInv, GInv, NestingEnds

\* A definition that is in a container is below the Repository.
LEMMA PlacedIsReachable ==
    ASSUME GInv, NEW o \in Objs, definedIn[o] # NoObj
    PROVE  o \in Below(Root)
<1> USE ConstantsAssumption
<1> DEFINE U == {x \in Objs : definedIn[x] # NoObj /\ x \notin Below(Root)}
<1>1. /\ contents[Root] \subseteq Below(Root)
      /\ \A d \in Below(Root) : contents[d] \subseteq Below(Root)
  BY DEF CInv, GInv, IInv, TypeOK, Below, Servants
<1>2. ASSUME NEW x \in U PROVE definedIn[x] \in U
  <2>1. x \in contents[definedIn[x]] /\ definedIn[x] \in Objs \cup {Root}
    BY DEF CInv, GInv, IInv, TypeOK, ContainmentSound, Servants
  <2>2. definedIn[x] \in Objs \ Below(Root)
    BY <1>1, <2>1
  <2>3. IsActive(definedIn[x]) /\ kind[definedIn[x]] \in ContainerKinds
    BY <2>1 DEF CInv, GInv, Held, Servants
  <2>4. kind[definedIn[x]] \in ContainedKinds
    BY <2>2, <2>3 DEF CInv, GInv, Rooted, ContainerKinds, ContainedKinds, AnonymousKinds
  <2> QED
    BY <2>2, <2>3, <2>4 DEF CInv, GInv, Placed
<1>3. U = {}
  BY <1>2 DEF CInv, GInv, NestingEnds
<1> QED
  BY <1>3

\* With nothing in it, an object contains itself only.
LEMMA EmptyContainer ==
    ASSUME NEW o \in Objs, contents[o] = {}
    PROVE  ContainedObjectSet(o) = {o}
<1>1. Below(o) = {}
  BY DEF Below
<1> QED
  BY <1>1 DEF ContainedObjectSet

\* type() goes through the whole of a chain.
LEMMA TypeChainClosed ==
    ASSUME TypeOK, NEW t \in Objs \cup {Prim}
    PROVE  /\ t \in TypeChain(t) /\ TypeChain(t) \subseteq Objs \cup {Prim}
           /\ \A x \in TypeChain(t) : Delegate(x) \subseteq TypeChain(t)
<1>1. \A x \in Objs \cup {Prim} : Delegate(x) \subseteq Objs \cup {Prim}
  BY DEF TypeOK, Delegate, Servants
<1>2. ASSUME NEW x \in TypeChain(t), NEW y \in Delegate(x)
      PROVE  y \in TypeChain(t)
  BY <1>1 DEF TypeChain
<1> QED
  BY <1>2 DEF TypeChain

\* Every call of type() comes to an end.
LEMMA NeverEndless ==
    ASSUME CInv, NEW t \in Objs \cup {Prim}
    PROVE  TypeOutcome(t) # "endless"
<1> SUFFICES ASSUME \A x \in TypeChain(t) :
                        /\ IsActive(x) /\ kind[x] \in DelegatingKinds
                        /\ refs[x] # {}
             PROVE  FALSE
  BY DEF TypeOutcome
<1>1. \A x \in TypeChain(t) : Delegate(x) # {} /\ Delegate(x) \subseteq TypeChain(t)
  BY TypeChainClosed DEF CInv, GInv, IInv, Delegate
<1> QED
  BY <1>1, TypeChainClosed DEF CInv, GInv, IInv, ChainsEnd

\* No request of a careful client brings the server down.
LEMMA NobodyDies ==
    ASSUME CInv, NEW o \in Objs
    PROVE  /\ \A c, k, i, n : ~ CreateContainedDies(c, k, i, n, "typeLoop")
           /\ ~ SetNameDies(o) /\ ~ ReadDies(o)
           /\ contents[o] = {} => ~ DestroyDies(o)
           /\ \A k \in Kinds : ~ SetReferencesDies(k, "typeLoop")
           /\ \A i \in Ids : ~ SetIdDies(o, i)
           /\ \A c \in Objs, n \in Names : ~ MoveDies(o, c, n)
<1>1. \A k : ~ SetterDies(k, "typeLoop")
  BY NeverEndless DEF SetterDies, TypeReferences
<1>2. \A c, k, i, n : ~ CreateContainedDies(c, k, i, n, "typeLoop")
  BY <1>1 DEF CreateContainedDies
<1>3. \A k \in Kinds : ~ SetReferencesDies(k, "typeLoop")
  BY <1>1 DEF SetReferencesDies
<1>4. ~ SetNameDies(o) /\ ~ ReadDies(o)
  BY NoLoops, NeverEndless DEF CInv, GInv, Placed, SetNameDies, ReadDies
<1>5. contents[o] = {} => ~ DestroyDies(o)
  BY EmptyContainer, ConstantsAssumption
     DEF CInv, GInv, Placed, Registered, DestroyDies, DestroyRequest, Unregistrable,
         Servants
<1>6. \A i \in Ids : ~ SetIdDies(o, i)
  BY ConstantsAssumption DEF CInv, GInv, Placed, Registered, SetIdDies, Servants
<1>7. \A c \in Objs, n \in Names : ~ MoveDies(o, c, n)
  BY DEF CInv, GInv, Placed, MoveDies, MoveRequest
<1> QED
  BY <1>2, <1>3, <1>4, <1>5, <1>6, <1>7

-----------------------------------------------------------------------------
(* Each action keeps the invariant.                                        *)

\* No absolute name is empty.
LEMMA AbsoluteNameEnds ==
    ASSUME TypeOK, NEW c \in Objs \cup {Root}, NEW n \in Names
    PROVE  AbsoluteName(c, n) # <<>>
<1>1. (IF c = Root THEN <<>> ELSE absName[c]) \in Seq(Names)
  BY DEF TypeOK
<1>2. \A s \in Seq(Names) : Len(Append(s, n)) # 0
  OBVIOUS
<1>3. Len(AbsoluteName(c, n)) # 0
  BY <1>1, <1>2 DEF AbsoluteName
<1> QED
  BY <1>3

LEMMA InitCInv == Init => CInv
<1> SUFFICES ASSUME Init PROVE CInv
  OBVIOUS
<1> USE ConstantsAssumption
<1>1. PICK ks \in [Loaded -> Kinds \cap Containable("Repository")] :
        /\ kind = [s \in Servants |->
                    IF s = Root THEN "Repository"
                    ELSE IF s = Prim THEN "Primitive"
                    ELSE IF s \in Loaded THEN ks[s] ELSE "None"]
        /\ refs = [s \in Servants |->
                    IF s \in Loaded /\ ks[s] \in OneRefKinds
                    THEN {Prim} ELSE {}]
  BY DEF Init
<1>2. PICK ix \in [Loaded -> 1..MaxIndex], ns \in [Loaded -> Names],
           is \in [Loaded -> Ids] :
        /\ \A x, y \in Loaded :
            x # y => /\ ix[x] # ix[y] /\ is[x] # is[y]
                     /\ CaseClass[ns[x]] # CaseClass[ns[y]]
        /\ index = [o \in Objs |-> IF o \in Loaded THEN ix[o] ELSE 0]
        /\ name = [o \in Objs |->
                    IF o \in Loaded THEN ns[o] ELSE NoString]
        /\ absName = [o \in Objs |-> IF o \in Loaded THEN <<ns[o]>> ELSE <<>>]
        /\ id = [o \in Objs |-> IF o \in Loaded THEN is[o] ELSE NoString]
        /\ idmap = [i \in Ids |->
                    IF \E o \in Loaded : is[o] = i
                    THEN CHOOSE o \in Loaded : is[o] = i ELSE NoObj]
  BY DEF Init
<1>3. /\ life = [s \in Servants |->
                  IF s \in Objs \ Loaded THEN "unborn" ELSE "active"]
      /\ definedIn = [o \in Objs |-> IF o \in Loaded THEN Root ELSE NoObj]
      /\ contents = [s \in Servants |-> IF s = Root THEN Loaded ELSE {}]
      /\ crash = "no"
  BY DEF Init
<1>4. \A o \in Loaded : ks[o] \in ContainedKinds
  BY DEF Containable, HeldByModule, TypedefKinds, ContainedKinds
<1>5. Rooted
  BY <1>1, <1>3, <1>4 DEF Rooted, IsActive, Servants
<1>6. Placed
  BY <1>1, <1>3, <1>4 DEF Placed, IsActive, Servants
<1>7. Held
  BY <1>3, <1>5 DEF Held, Rooted, ContainerKinds
<1>8. Registered
  <2>1. \A o \in Loaded : idmap[is[o]] = o
    BY <1>2
  <2> QED
    BY <1>2, <1>3, <2>1 DEF Registered, Servants
<1>9. NestingEnds
  BY <1>3 DEF NestingEnds, Servants
<1>10. Named
  <2>1. \A o \in Loaded : <<ns[o]>> # <<>>
    OBVIOUS
  <2> QED
    BY <1>2, <1>3, <2>1 DEF Named
<1>11. ChainsEnd
  <2>1. Delegate(Prim) = {} /\ \A x \in Objs : Delegate(x) \subseteq {Prim}
    BY <1>1 DEF Delegate, DelegatingKinds, Servants
  <2> SUFFICES ASSUME NEW S \in SUBSET (Objs \cup {Prim}), S # {}
               PROVE  \E x \in S : Delegate(x) \cap S = {}
    BY DEF ChainsEnd
  <2>2. CASE Prim \in S
    BY <2>1, <2>2
  <2>3. CASE Prim \notin S
    BY <2>1, <2>3
  <2> QED
    BY <2>2, <2>3
<1>12. Fitting
  BY <1>1, <1>3 DEF Fitting, Servants
<1>13. Listed
  BY <1>1, <1>3, <1>4 DEF Init, Listed, IsActive, Servants, ContainedKinds, AnonymousKinds
<1>14. Referring
  BY <1>1, <1>3 DEF Referring, IsActive, Servants
<1> QED
  BY <1>3, <1>5, <1>6, <1>7, <1>8, <1>9, <1>10, <1>11, <1>12, <1>13, <1>14, InitIInv
     DEF CInv, GInv

\* An object nobody created is in no container, contains nothing, has no id, and
\* no reference leads to it.
LEMMA Unborn ==
    ASSUME GInv, NEW o \in Objs, life[o] = "unborn"
    PROVE  /\ contents[o] = {} /\ definedIn[o] = NoObj
           /\ \A x \in Objs : definedIn[x] # o
           /\ \A x \in Servants : o \notin refs[x]
           /\ \A i \in Ids : idmap[i] # o
           /\ o \notin TypeReferences
<1> USE ConstantsAssumption
<1>1. contents[o] = {} /\ definedIn[o] = NoObj
  BY DEF GInv, Held, Placed, IsActive, Servants
<1>2. \A x \in Objs : definedIn[x] # o
  BY <1>1 DEF GInv, IInv, ContainmentSound, Servants
<1>3. \A x \in Servants : o \notin refs[x]
  BY DEF GInv, IInv, DependencySound, UnresolvedMeansGone, IsActive
<1>4. \A i \in Ids : idmap[i] # o
  BY DEF GInv, IInv, IdmapSound, IsActive, Servants
<1>5. o \notin TypeReferences
  BY DEF TypeReferences
<1> QED
  BY <1>1, <1>2, <1>3, <1>4, <1>5

\* The references of a new object do not close a chain.
LEMMA NewEndsChains ==
    ASSUME CInv, NEW o \in Objs, NEW k, NEW R \in RefValues(k),
           life[o] = "unborn", StoreReferences(o, R),
           life' = [life EXCEPT ![o] = "active"], kind' = [kind EXCEPT ![o] = k]
    PROVE  ChainsEnd'
<1> SUFFICES ASSUME NEW S \in SUBSET (Objs \cup {Prim}), S # {}
             PROVE  \E x \in S : (Delegate(x))' \cap S = {}
  BY DEF ChainsEnd
<1>1. o \notin R
  BY Unborn, RefValuesType DEF CInv
<1>2. (Delegate(o))' \subseteq R
  BY DEF Delegate, StoreReferences, CInv, GInv, IInv, TypeOK, Servants
<1>3. \A x \in (Objs \cup {Prim}) \ {o} :
        (Delegate(x))' = Delegate(x) /\ o \notin Delegate(x)
  BY Unborn
     DEF Delegate, IsActive, StoreReferences, CInv, GInv, IInv, TypeOK, Servants
<1>4. CASE S \ {o} = {}
  BY <1>1, <1>2, <1>4
<1>5. CASE S \ {o} # {}
  <2>1. PICK x \in S \ {o} : Delegate(x) \cap (S \ {o}) = {}
    BY <1>5 DEF CInv, ChainsEnd
  <2> QED
    BY <1>3, <2>1
<1> QED
  BY <1>4, <1>5

\* A kind that holds one reference is given one.
LEMMA OneReference ==
    ASSUME NEW k \in OneRefKinds, NEW R \in RefValues(k)
    PROVE  R # {}
BY DEF RefValues

LEMMA CreateContainedGInv ==
    ASSUME GInv, NEW o \in Objs, NEW c \in Servants,
           NEW k \in ContainedKinds \cap Kinds, NEW i \in Ids, NEW n \in Names,
           CreateContained(c, o, k, i, n)
    PROVE  GInv'
<1> USE ConstantsAssumption
<1>1. /\ life[o] = "unborn"
      /\ IsActive(c) /\ kind[c] \in ContainerKinds /\ idmap[i] = NoObj
      /\ life' = [life EXCEPT ![o] = "active"]
      /\ kind' = [kind EXCEPT ![o] = k]
      /\ definedIn' = [definedIn EXCEPT ![o] = c]
      /\ contents' = [contents EXCEPT ![c] = @ \cup {o}]
      /\ name' = [name EXCEPT ![o] = n]
      /\ id' = [id EXCEPT ![o] = i]
      /\ idmap' = [idmap EXCEPT ![i] = o]
      /\ k \in Containable(kind[c]) /\ anonymous' = anonymous
      /\ \E R \in RefValues(k) : refs' = [refs EXCEPT ![o] = R]
  BY DEF CreateContained, CreateRequest, StoreReferences
<1>2. IInv' /\ TypeOK
  <2>1. IInv'
    BY CreateContainedIInv DEF GInv
  <2> QED
    BY <2>1 DEF GInv, IInv
<1>3. c # NoObj /\ c # o
  BY <1>1 DEF IsActive, Servants
<1>4. Rooted'
  BY <1>1, <1>2 DEF GInv, Rooted, TypeOK, IsActive, Servants
<1>5. Placed'
  BY <1>1, <1>2, <1>3 DEF GInv, Placed, TypeOK, IsActive, Servants
<1>6. Held'
  BY <1>1, <1>2, <1>3, Unborn DEF GInv, Held, TypeOK, IsActive, Servants
<1>7. Registered'
  BY <1>1, <1>2, <1>3, Unborn DEF GInv, Registered, TypeOK, Servants
<1>8. NestingEnds'
  <2> SUFFICES ASSUME NEW U \in SUBSET Objs, U # {}
               PROVE  \E x \in U : definedIn'[x] \notin U
    BY DEF NestingEnds
  <2>1. CASE U \ {o} = {}
    BY <1>1, <1>2, <1>3, <2>1 DEF TypeOK
  <2>2. CASE U \ {o} # {}
    <3>1. PICK x \in U \ {o} : definedIn[x] \notin U \ {o}
      BY <2>2 DEF GInv, NestingEnds
    <3> QED
      BY <1>1, <1>2, <3>1, Unborn DEF TypeOK
  <2> QED
    BY <2>1, <2>2
<1>9. Named'
  <2>1. absName' = [absName EXCEPT ![o] = AbsoluteName(c, n)] /\ c \in Objs \cup {Root}
    BY <1>1, ContainerType DEF CreateContained, GInv, IInv
  <2> QED
    BY <1>1, <1>2, <2>1, AbsoluteNameEnds DEF GInv, Named, TypeOK
<1>10. Fitting'
  BY <1>1, <1>2, <1>3, Unborn DEF GInv, Fitting, TypeOK, Servants
<1>11. Listed'
  BY <1>1, <1>2
     DEF GInv, Listed, TypeOK, IsActive, Servants, AnonymousKinds, ContainedKinds
<1>12. Referring'
  <2>1. PICK R \in RefValues(k) : refs' = [refs EXCEPT ![o] = R]
    BY <1>1
  <2>2. k \in OneRefKinds => R # {}
    BY OneReference
  <2> QED
    BY <1>1, <1>2, <2>1, <2>2 DEF GInv, Referring, TypeOK, IsActive, Servants
<1> QED
  BY <1>2, <1>4, <1>5, <1>6, <1>7, <1>8, <1>9, <1>10, <1>11, <1>12 DEF GInv

LEMMA CreateAnonymousGInv ==
    ASSUME GInv, NEW o \in Objs, NEW k \in AnonymousKinds, CreateAnonymous(o, k)
    PROVE  GInv'
<1> USE ConstantsAssumption
<1>1. /\ life[o] = "unborn"
      /\ life' = [life EXCEPT ![o] = "active"]
      /\ kind' = [kind EXCEPT ![o] = k]
      /\ anonymous' = anonymous \cup {o}
      /\ \E R \in RefValues(k) : refs' = [refs EXCEPT ![o] = R]
      /\ UNCHANGED <<definedIn, contents, name, absName, id, idmap>>
  BY DEF CreateAnonymous, StoreReferences, naming, ids
<1>2. IInv' /\ TypeOK
  <2>1. IInv'
    BY CreateAnonymousIInv DEF GInv
  <2> QED
    BY <2>1 DEF GInv, IInv
<1>3. Rooted' /\ Held' /\ Named' /\ Registered' /\ NestingEnds'
  BY <1>1, <1>2, Unborn
     DEF GInv, Rooted, Held, Named, Registered, NestingEnds, TypeOK, IsActive, Servants
<1>4. Placed'
  BY <1>1, <1>2, Unborn
     DEF GInv, Placed, TypeOK, IsActive, Servants, AnonymousKinds, ContainedKinds
<1>5. Fitting'
  BY <1>1, <1>2, Unborn DEF GInv, Fitting, TypeOK, Servants
<1>6. Listed'
  BY <1>1, <1>2 DEF GInv, Listed, TypeOK, IsActive, Servants
<1>7. Referring'
  <2>1. PICK R \in RefValues(k) : refs' = [refs EXCEPT ![o] = R]
    BY <1>1
  <2>2. k \in OneRefKinds => R # {}
    BY OneReference
  <2> QED
    BY <1>1, <1>2, <2>1, <2>2 DEF GInv, Referring, TypeOK, IsActive, Servants
<1> QED
  BY <1>2, <1>3, <1>4, <1>5, <1>6, <1>7 DEF GInv

LEMMA SetReferencesGInv ==
    ASSUME GInv, NEW o \in Objs, SetReferences(o)
    PROVE  GInv'
<1>1. /\ UNCHANGED <<life, kind, definedIn, contents, anonymous, name, absName, id, idmap>>
      /\ \E R \in RefValues(kind[o]) : refs' = [refs EXCEPT ![o] = R]
  BY DEF SetReferences, StoreReferences, tree, naming, ids
<1>2. TypeOK /\ IInv'
  <2>1. IInv'
    BY SetReferencesIInv DEF GInv
  <2> QED
    BY <2>1 DEF GInv, IInv
<1>3. /\ Rooted' /\ Placed' /\ Held' /\ Named' /\ Registered' /\ NestingEnds'
      /\ Fitting' /\ Listed'
  BY <1>1
     DEF GInv, Rooted, Placed, Held, Named, Registered, NestingEnds, Fitting, Listed,
         IsActive
<1>4. Referring'
  <2>1. PICK R \in RefValues(kind[o]) : refs' = [refs EXCEPT ![o] = R]
    BY <1>1
  <2>2. kind[o] \in OneRefKinds => R # {}
    BY OneReference
  <2> QED
    BY <1>1, <1>2, <2>1, <2>2 DEF GInv, Referring, TypeOK, IsActive, Servants
<1> QED
  BY <1>2, <1>3, <1>4 DEF GInv

LEMMA SetIdGInv ==
    ASSUME GInv, NEW o \in Objs, NEW i \in Ids, SetId(o, i)
    PROVE  GInv'
<1> USE ConstantsAssumption
<1>1. /\ IsActive(o) /\ kind[o] \in ContainedKinds /\ idmap[i] = NoObj
      /\ id' = [id EXCEPT ![o] = i]
      /\ idmap' = [idmap EXCEPT ![id[o]] = NoObj, ![i] = o]
      /\ UNCHANGED <<life, kind, definedIn, contents, anonymous, name, absName, refs>>
  BY DEF SetId, ReplaceId, tree, naming, links
<1>2. IInv'
  BY SetIdIInv DEF GInv
<1>3. /\ Rooted' /\ Placed' /\ Held' /\ Named' /\ NestingEnds'
      /\ Fitting' /\ Listed' /\ Referring'
  BY <1>1
     DEF GInv, Rooted, Placed, Held, Named, NestingEnds, Fitting, Listed, Referring, IsActive
<1>4. TypeOK
  BY DEF GInv, IInv
<1>5. ASSUME NEW x \in Objs, definedIn'[x] # NoObj
      PROVE  id'[x] \in Ids /\ idmap'[id'[x]] = x
  <2>1. id[x] \in Ids /\ idmap[id[x]] = x /\ id[x] # i
    BY <1>1, <1>5 DEF GInv, Registered, Servants
  <2>2. id[o] \in Ids /\ idmap[id[o]] = o
    BY <1>1 DEF GInv, Registered, Placed
  <2>3. CASE x = o
    BY <1>1, <1>4, <2>3 DEF TypeOK
  <2>4. CASE x # o
    BY <1>1, <1>4, <2>1, <2>2, <2>4 DEF TypeOK
  <2> QED
    BY <2>3, <2>4
<1>6. ASSUME NEW x \in Objs, definedIn'[x] = NoObj
      PROVE  id'[x] = NoString
  BY <1>1, <1>4, <1>6 DEF GInv, Registered, Placed, TypeOK
<1>7. Registered'
  BY <1>5, <1>6 DEF Registered
<1> QED
  BY <1>2, <1>3, <1>7 DEF GInv

LEMMA RenameGInv ==
    ASSUME GInv, NEW o \in Objs, NEW n \in Names, Rename(o, n)
    PROVE  GInv'
<1>1. UNCHANGED <<life, kind, definedIn, contents, anonymous, id, idmap, refs>>
  BY DEF Rename, tree, ids, links
<1>2. IInv'
  BY RenameIInv DEF GInv
<1>3. Named'
  <2>1. definedIn[o] \in Objs \cup {Root}
    BY DEF Rename, GInv, IInv, TypeOK
  <2> QED
    BY <2>1, AbsoluteNameEnds DEF Rename, tree, GInv, IInv, TypeOK, Named
<1> QED
  BY <1>1, <1>2, <1>3
     DEF GInv, Rooted, Placed, Held, Registered, NestingEnds, Fitting, Listed, Referring,
         IsActive

LEMMA RelocateGInv ==
    ASSUME GInv, NEW o \in Objs, NEW c \in Objs, NEW n \in Names,
           MoveRequest(o, c), Relocate(o, c, n), c \notin ContainedObjectSet(o)
    PROVE  GInv'
<1> USE ConstantsAssumption
<1>1. /\ definedIn[o] # NoObj
      /\ IsActive(c) /\ kind[c] \in ContainerKinds
      /\ definedIn' = [definedIn EXCEPT ![o] = c]
      /\ contents' = [contents EXCEPT ![definedIn[o]] = @ \ {o},
                                      ![c] = @ \cup {o}]
      /\ name' = [name EXCEPT ![o] = n]
      /\ UNCHANGED <<life, kind, anonymous, id, idmap, refs>>
      /\ kind[o] \in Containable(kind[c])
  BY DEF MoveRequest, Relocate, Reparent, ids, links
<1>2. TypeOK /\ IInv'
  <2>1. IInv'
    BY RelocateIInv DEF GInv
  <2> QED
    BY <2>1 DEF GInv, IInv
<1>3. Fitting'
  BY <1>1, <1>2 DEF GInv, Fitting, TypeOK
<1>4. c # NoObj
  BY DEF Servants
<1>5. Rooted' /\ Listed' /\ Referring'
  BY <1>1 DEF GInv, Rooted, Listed, Referring, IsActive
<1>6. Placed' /\ Registered'
  BY <1>1, <1>2, <1>4 DEF GInv, Placed, Registered, TypeOK, IsActive
<1>7. \A d \in Servants \ {c} : contents'[d] \subseteq contents[d]
  BY <1>1, <1>2 DEF TypeOK
<1>8. Held'
  BY <1>1, <1>7 DEF GInv, Held, IsActive
<1>9. Named'
  BY <1>1, <1>2, AbsoluteNameEnds DEF Relocate, GInv, Named, TypeOK
<1>10. NestingEnds'
  <2> SUFFICES ASSUME NEW U \in SUBSET Objs, U # {},
                      \A x \in U : definedIn'[x] \in U
               PROVE  FALSE
    BY DEF NestingEnds
  <2>1. definedIn'[o] = c /\ \A x \in Objs \ {o} : definedIn'[x] = definedIn[x]
    BY <1>1, <1>2 DEF TypeOK
  <2>2. CASE o \notin U
    BY <2>1, <2>2 DEF GInv, NestingEnds
  <2>3. CASE o \in U
    <3> DEFINE W == U \ ContainedObjectSet(o)
    <3>1. c \in W /\ o \notin W
      BY <2>1, <2>3 DEF ContainedObjectSet
    <3>2. \A d \in ContainedObjectSet(o) : contents[d] \subseteq ContainedObjectSet(o)
      BY <1>2, ContainedObjectSetClosed
    <3>3. \A x \in W : definedIn[x] \in W
      BY <2>1, <3>1, <3>2 DEF GInv, IInv, ContainmentSound, Servants
    <3> QED
      BY <3>1, <3>3 DEF GInv, NestingEnds
  <2> QED
    BY <2>2, <2>3
<1> QED
  BY <1>2, <1>3, <1>5, <1>6, <1>8, <1>9, <1>10 DEF GInv

LEMMA DestroyGInv ==
    ASSUME GInv, NEW o \in Objs, contents[o] = {}, Destroy(o)
    PROVE  GInv'
<1> USE ConstantsAssumption
<1>1. /\ ContainedObjectSet(o) = {o}
      /\ life' = [life EXCEPT ![o] = "gone"]
      /\ definedIn' = [x \in Objs |-> IF x \in {o} THEN NoObj ELSE definedIn[x]]
      /\ contents' = [c \in Servants |-> IF c \in {o} THEN {} ELSE contents[c] \ {o}]
      /\ name' = [name EXCEPT ![o] = NoString]
      /\ id' = [id EXCEPT ![o] = NoString]
      /\ idmap' = [i \in Ids |-> IF \E d \in {o} : id[d] = i THEN NoObj ELSE idmap[i]]
      /\ refs' = [x \in Servants |-> IF x \in {o} THEN {} ELSE refs[x]]
      /\ kind' = kind /\ anonymous' = anonymous \ {o}
  BY EmptyContainer DEF Destroy, ClearReferences
<1>2. TypeOK /\ IInv'
  <2>1. IInv'
    BY DestroyIInv DEF GInv
  <2> QED
    BY <2>1 DEF GInv, IInv
<1>3. Rooted'
  BY <1>1, <1>2 DEF GInv, Rooted, IsActive, TypeOK, Servants
<1>4. Fitting' /\ Listed' /\ Referring'
  BY <1>1, <1>2 DEF GInv, Fitting, Listed, Referring, IsActive, TypeOK, Servants
<1>5. Placed' /\ Held'
  BY <1>1, <1>2 DEF GInv, Placed, Held, IsActive, TypeOK, Servants
<1>6. Registered'
  <2>1. \A x \in Objs \ {o} : definedIn[x] # NoObj => id[x] # id[o]
    BY <1>2 DEF GInv, Registered, Servants
  <2> QED
    BY <1>1, <1>2, <2>1 DEF GInv, Registered, TypeOK, Servants
<1>7. NestingEnds'
  <2> SUFFICES ASSUME NEW U \in SUBSET Objs, U # {},
                      \A x \in U : definedIn'[x] \in U
               PROVE  FALSE
    BY DEF NestingEnds
  <2>1. o \notin U
    BY <1>1 DEF Servants
  <2> QED
    BY <1>1, <2>1 DEF GInv, NestingEnds
<1>8. Named'
  BY <1>1, <1>2 DEF Destroy, GInv, Named, TypeOK
<1> QED
  BY <1>2, <1>3, <1>4, <1>5, <1>6, <1>7, <1>8 DEF GInv

\* A request that ends the server leaves the definitions alone.
LEMMA DiesGInv ==
    ASSUME GInv, UNCHANGED <<life, kind, tree, naming, ids, links>>,
           crash' \in CrashSites \cup {"no"}
    PROVE  GInv'
<1>1. IInv'
  BY DEF GInv, IInv, TypeOK, FixedServants, IdmapSound, ContainmentSound,
         SiblingNamesDistinct, DependencySound, UnresolvedMeansGone, IsActive, tree,
         naming, ids, links
<1> QED
  BY <1>1
     DEF GInv, Rooted, Placed, Held, Named, Registered, NestingEnds, Fitting, Listed,
         Referring, IsActive, tree, naming, ids, links

\* The requests of careful clients that end the server.
Failing ==
    /\ UNCHANGED <<life, kind, tree, naming, ids, links>>
    /\ crash' \in CrashSites

\* The requests of careful clients that change the definition o.
ChangeOf(o) ==
    \/ \E k \in AnonymousKinds : CreateAnonymous(o, k)
    \/ \E c \in Servants, k \in ContainedKinds \cap Kinds, i \in Ids, n \in Names :
        CreateContained(c, o, k, i, n)
    \/ CarefulSet(o)
    \/ contents[o] = {} /\ Destroy(o)
    \/ \E i \in Ids : SetId(o, i)
    \/ \E n \in Names : Rename(o, n)
    \/ \E c \in Objs, n \in Names :
        MoveRequest(o, c) /\ Relocate(o, c, n) /\ c \notin ContainedObjectSet(o)

\* Every step of the careful clients changes a definition, or ends the server.
LEMMA CarefulOrFailing ==
    ASSUME CarefulNext
    PROVE  Failing \/ \E o \in Objs : ChangeOf(o)
<1>1. \A site : Dies(site) /\ site \in CrashSites => Failing
  BY DEF Dies, Failing
<1>2. ASSUME NEW c, NEW k, NEW i, NEW n, CreateContainedDies(c, k, i, n, "typeLoop")
      PROVE  Failing
  BY <1>1, <1>2 DEF CreateContainedDies, CrashSites
<1>3. ASSUME NEW k \in Kinds, SetReferencesDies(k, "typeLoop") PROVE Failing
  BY <1>1, <1>3 DEF SetReferencesDies, CrashSites
<1>4. ASSUME NEW o \in Objs, SetNameDies(o) \/ DestroyDies(o) \/ ReadDies(o)
      PROVE  Failing
  BY <1>1, <1>4 DEF SetNameDies, DestroyDies, ReadDies, CrashSites
<1>5. ASSUME NEW o \in Objs, NEW i \in Ids, SetIdDies(o, i) PROVE Failing
  BY <1>1, <1>5 DEF SetIdDies, CrashSites
<1>6. ASSUME NEW o \in Objs, NEW c \in Objs, NEW n \in Names, MoveDies(o, c, n)
      PROVE  Failing
  BY <1>1, <1>6 DEF MoveDies, CrashSites
<1>7. CASE \E o \in Objs, k \in AnonymousKinds : CreateAnonymous(o, k)
  BY <1>7 DEF ChangeOf
<1>8. CASE \E o \in Objs : CarefulCreate(o) \/ CarefulSet(o) \/ SetNameDies(o)
                           \/ CarefulDestroy(o) \/ ReadDies(o)
  BY <1>2, <1>4, <1>8 DEF CarefulCreate, CarefulDestroy, ChangeOf
<1>9. CASE \E o, c \in Objs, n \in Names : CarefulMove(o, c, n)
  BY <1>6, <1>9 DEF CarefulMove, Move, ChangeOf
<1> QED
  BY <1>3, <1>5, <1>7, <1>8, <1>9 DEF CarefulNext, SetName, ChangeOf

\* What was read back from a file, chains that do not end among it, stays what it
\* is under the requests of careful clients.
LEMMA NextGInv ==
    ASSUME GInv, [CarefulNext]_vars
    PROVE  GInv'
<1>1. ASSUME NEW o \in Objs, ChangeOf(o) PROVE GInv'
  BY <1>1, CreateAnonymousGInv, CreateContainedGInv, SetReferencesGInv, DestroyGInv,
     SetIdGInv, RenameGInv, RelocateGInv DEF ChangeOf, CarefulSet
<1>2. CASE Failing
  BY <1>2, DiesGInv DEF Failing
<1>3. CASE UNCHANGED vars
  BY <1>3, DiesGInv DEF vars, GInv, IInv, TypeOK
<1> QED
  BY <1>1, <1>2, <1>3, CarefulOrFailing

\* Under careful clients no request fails.
LEMMA CarefulSteps ==
    ASSUME CInv, CarefulNext
    PROVE  \E o \in Objs : ChangeOf(o)
<1>1. \A c, k, i, n : ~ CreateContainedDies(c, k, i, n, "typeLoop")
  BY NeverEndless DEF CreateContainedDies, SetterDies, TypeReferences
<1>2. \A k \in Kinds : ~ SetReferencesDies(k, "typeLoop")
  BY NeverEndless DEF SetReferencesDies, SetterDies, TypeReferences
<1> QED
  BY <1>1, <1>2, NobodyDies
     DEF CarefulNext, CarefulCreate, CarefulDestroy, CarefulMove, Move, SetName,
         ChangeOf

\* The fourth rule keeps the chains ending.
LEMMA CarefulSetEndsChains ==
    ASSUME CInv, NEW o \in Objs, CarefulSet(o)
    PROVE  ChainsEnd'
<1>1. /\ SetReferences(o)
      /\ UNCHANGED <<life, kind>>
      /\ kind[o] \in DelegatingKinds => \A t \in refs'[o] : o \notin TypeChain(t)
  BY DEF CarefulSet, SetReferences
<1>2. TypeOK /\ IInv'
  <2>1. IInv'
    BY <1>1, SetReferencesIInv DEF CInv, GInv
  <2> QED
    BY <2>1 DEF CInv, GInv, IInv
<1>3. refs'[o] \subseteq Objs \cup {Prim} /\ \A x \in Servants \ {o} : refs'[x] = refs[x]
  BY <1>1, <1>2 DEF SetReferences, StoreReferences, IInv, TypeOK, Servants
<1>4. \A x \in (Objs \cup {Prim}) \ {o} : (Delegate(x))' = Delegate(x)
  BY <1>1, <1>3 DEF Delegate, IsActive, Servants
<1> SUFFICES ASSUME NEW S \in SUBSET (Objs \cup {Prim}), S # {},
                    \A x \in S : (Delegate(x))' \cap S # {}
             PROVE  FALSE
  BY DEF ChainsEnd
<1>5. CASE o \notin S
  BY <1>4, <1>5 DEF CInv, ChainsEnd
<1>6. CASE o \in S
  <2>1. kind[o] \in DelegatingKinds /\ (Delegate(o))' \subseteq refs'[o]
    BY <1>1, <1>6 DEF Delegate
  <2>2. PICK t \in refs'[o] : t \in S
    BY <1>6, <2>1
  <2> DEFINE W == S \cap TypeChain(t)
  <2>3. o \notin W
    BY <1>1, <2>1
  <2>4. t \in W /\ \A x \in TypeChain(t) : Delegate(x) \subseteq TypeChain(t)
    BY <1>2, <1>3, <2>2, TypeChainClosed
  <2>5. \A x \in W : Delegate(x) \cap W # {}
    BY <1>4, <2>3, <2>4
  <2> QED
    BY <2>4, <2>5 DEF CInv, ChainsEnd
<1> QED
  BY <1>5, <1>6

\* No step of careful clients lets type() recurse without end.
LEMMA NextEndsChains ==
    ASSUME CInv, NEW o \in Objs, ChangeOf(o)
    PROVE  ChainsEnd' /\ crash' = "no"
<1>1. ASSUME NEW k \in AnonymousKinds, CreateAnonymous(o, k)
      PROVE  ChainsEnd' /\ crash' = "no"
  BY <1>1, NewEndsChains DEF CreateAnonymous, CInv
<1>2. ASSUME NEW c \in Servants, NEW k \in ContainedKinds \cap Kinds, NEW i \in Ids,
             NEW n \in Names, CreateContained(c, o, k, i, n)
      PROVE  ChainsEnd' /\ crash' = "no"
  BY <1>2, NewEndsChains DEF CreateContained, CInv
<1>3. CASE CarefulSet(o)
  BY <1>3, CarefulSetEndsChains DEF CarefulSet, SetReferences, CInv
<1>4. CASE contents[o] = {} /\ Destroy(o)
  <2>1. /\ life' = [life EXCEPT ![o] = "gone"] /\ kind' = kind
        /\ \A x \in Servants : refs'[x] \in {refs[x], {}}
        /\ RepositoryReferenced
    BY <1>4 DEF Destroy, ClearReferences
  <2>2. \A x \in Objs \cup {Prim} : (Delegate(x))' \subseteq Delegate(x)
    BY <2>1 DEF Delegate, IsActive, CInv, GInv, IInv, TypeOK, Servants
  <2>3. crash' = "no"
    BY <2>1, ConstantsAssumption
       DEF RepositoryReferenced, CInv, GInv, Rooted, IInv, TypeOK, IsActive, Servants
  <2> QED
    BY <2>2, <2>3 DEF CInv, ChainsEnd
<1>5. ASSUME UNCHANGED <<life, kind, refs>>, crash' = crash \/ RepositoryReferenced
      PROVE  ChainsEnd' /\ crash' = "no"
  BY <1>5
     DEF CInv, GInv, Rooted, RepositoryReferenced, ChainsEnd, Delegate, IsActive
<1> QED
  BY <1>1, <1>2, <1>3, <1>4, <1>5
     DEF ChangeOf, SetId, Rename, Relocate, tree, naming, ids, links

LEMMA NextCInv ==
    ASSUME CInv, [CarefulNext]_vars
    PROVE  CInv'
<1>1. GInv'
  BY NextGInv DEF CInv
<1>2. CASE CarefulNext
  BY <1>1, <1>2, CarefulSteps, NextEndsChains DEF CInv
<1>3. CASE UNCHANGED vars
  BY <1>1, <1>3 DEF vars, CInv, ChainsEnd, Delegate, IsActive, links
<1> QED
  BY <1>2, <1>3

-----------------------------------------------------------------------------
(* Theorems.                                                               *)

\* The inductive invariant holds in every state careful clients can reach.
THEOREM CarefulInvariance == CarefulSpec => []CInv
BY InitCInv, NextCInv, PTL DEF CarefulSpec

\* Clients that keep the five rules never bring the server down: no assertion
\* fails, no recursion is endless, no NULL container is used.
THEOREM CarefulNeverDies == CarefulSpec => []NeverDies
<1>1. CInv => NeverDies
  BY DEF CInv, GInv, NeverDies
<1> QED
  BY <1>1, CarefulInvariance, PTL

\* Every definition that is alive can be reached from the Repository, and by id.
THEOREM CarefulNothingLost == CarefulSpec => []NothingLost
<1>1. CInv => NothingLost
  BY PlacedIsReachable DEF CInv, GInv, Placed, Registered, NothingLost
<1> QED
  BY <1>1, CarefulInvariance, PTL

-----------------------------------------------------------------------------
(* One definition at a time.                                               *)

\* Destroying a definition takes no other one out of the id map.
LEMMA OnlyOwnId ==
    ASSUME CInv, NEW o \in Objs, NEW p \in Objs \ {o}, NEW i \in Ids, idmap[i] = p
    PROVE  id[o] # i
<1> USE ConstantsAssumption
<1>1. id[p] = i /\ p # NoObj
  BY DEF CInv, GInv, IInv, IdmapSound, Servants
<1>2. id[o] \in Ids => idmap[id[o]] = o
  BY DEF CInv, GInv, Registered
<1> QED
  BY <1>1, <1>2

\* What OneAtATime says of a step, for the definition o.
OthersKept(o) ==
    \A p \in Objs \ {o} :
        /\ life'[p] = life[p] /\ name'[p] = name[p] /\ refs'[p] = refs[p]
        /\ id'[p] = id[p] /\ definedIn'[p] = definedIn[p]
        /\ \A i \in Ids : idmap[i] = p <=> idmap'[i] = p

LEMMA StepOthersKept ==
    ASSUME CInv, NEW o \in Objs, ChangeOf(o)
    PROVE  OthersKept(o)
<1> USE ConstantsAssumption
<1>1. TypeOK
  BY DEF CInv, GInv, IInv
<1>2. ASSUME NEW k \in AnonymousKinds, CreateAnonymous(o, k)
      PROVE  OthersKept(o)
  BY <1>1, <1>2
     DEF CreateAnonymous, StoreReferences, naming, ids, OthersKept, TypeOK, Servants
<1>3. ASSUME NEW c \in Servants, NEW k \in ContainedKinds \cap Kinds,
             NEW i \in Ids, NEW n \in Names, CreateContained(c, o, k, i, n)
      PROVE  OthersKept(o)
  <2>1. \A j \in Ids : idmap'[j] = IF j = i THEN o ELSE idmap[j]
    BY <1>1, <1>3 DEF CreateContained, TypeOK
  <2>2. idmap[i] \notin Objs
    BY <1>3 DEF CreateContained, CreateRequest, Servants
  <2>3. \A p \in Objs \ {o}, j \in Ids : idmap[j] = p <=> idmap'[j] = p
    BY <2>1, <2>2
  <2> QED
    BY <1>1, <1>3, <2>3
       DEF CreateContained, StoreReferences, OthersKept, TypeOK, Servants
<1>4. ASSUME CarefulSet(o)
      PROVE  OthersKept(o)
  BY <1>1, <1>4
     DEF CarefulSet, SetReferences, StoreReferences, tree, naming, ids, OthersKept,
         TypeOK, Servants
<1>5. ASSUME contents[o] = {}, Destroy(o)
      PROVE  OthersKept(o)
  <2>1. ContainedObjectSet(o) = {o}
    BY <1>5, EmptyContainer
  <2>2. \A p \in Objs \ {o}, i \in Ids : idmap[i] = p <=> idmap'[i] = p
    BY <1>5, <2>1, OnlyOwnId DEF Destroy, Servants
  <2>3. \A p \in Objs \ {o} :
            /\ life'[p] = life[p] /\ name'[p] = name[p] /\ refs'[p] = refs[p]
            /\ id'[p] = id[p] /\ definedIn'[p] = definedIn[p]
    BY <1>1, <1>5, <2>1 DEF Destroy, ClearReferences, TypeOK, Servants
  <2> QED
    BY <2>2, <2>3 DEF OthersKept
<1>6. ASSUME NEW i \in Ids, SetId(o, i)
      PROVE  OthersKept(o)
  <2>1. \A j \in Ids : idmap'[j] = IF j = i THEN o
                                   ELSE IF j = id[o] THEN NoObj ELSE idmap[j]
    BY <1>1, <1>6 DEF SetId, ReplaceId, TypeOK
  <2>2. idmap[i] \notin Objs /\ NoObj \notin Objs
    BY <1>6 DEF SetId, Servants
  <2>3. \A p \in Objs \ {o}, j \in Ids : idmap[j] = p <=> idmap'[j] = p
    BY <2>1, <2>2, OnlyOwnId
  <2> QED
    BY <1>1, <1>6, <2>3
       DEF SetId, ReplaceId, tree, naming, links, OthersKept, TypeOK
<1>7. ASSUME NEW n \in Names, Rename(o, n)
      PROVE  OthersKept(o)
  BY <1>1, <1>7 DEF Rename, tree, ids, links, OthersKept, TypeOK
<1>8. ASSUME NEW c \in Objs, NEW n \in Names, Relocate(o, c, n)
      PROVE  OthersKept(o)
  BY <1>1, <1>8 DEF Relocate, Reparent, ids, links, OthersKept, TypeOK
<1> QED
  BY <1>2, <1>3, <1>4, <1>5, <1>6, <1>7, <1>8 DEF ChangeOf

\* A request changes one definition and what leads to it, and no other.
THEOREM CarefulOneAtATime == CarefulSpec => OneAtATime
<1>1. CInv /\ [CarefulNext]_vars =>
        [\E o \in Objs : \A p \in Objs \ {o} :
            /\ life'[p] = life[p] /\ name'[p] = name[p] /\ refs'[p] = refs[p]
            /\ id'[p] = id[p] /\ definedIn'[p] = definedIn[p]
            /\ \A i \in Ids : idmap[i] = p <=> idmap'[i] = p]_vars
  BY CarefulSteps, StepOthersKept DEF OthersKept
<1> QED
  BY <1>1, CarefulInvariance, PTL DEF CarefulSpec, OneAtATime

-----------------------------------------------------------------------------
(* The careful server implements the catalogue.                            *)

LEMMA EntryFields ==
    ASSUME NEW o
    PROVE  /\ EntryOf(o).def = o /\ EntryOf(o).in = definedIn[o]
           /\ EntryOf(o).name = name[o] /\ EntryOf(o).id = id[o]
BY DEF EntryOf

\* The entries of any two definitions fit together.
FitTogether ==
    \A o, p \in Defined :
        o # p => /\ EntryOf(p).id # EntryOf(o).id
                 /\ EntryOf(p).in = EntryOf(o).in =>
                    CaseClass[EntryOf(p).name] # CaseClass[EntryOf(o).name]

\* The definitions in a container are the entries of a catalogue.
LEMMA EntriesFit ==
    ASSUME CInv
    PROVE  Abstract!Catalogue /\ FitTogether
<1>1. \A o \in Defined : EntryOf(o) \in Abstract!Entry
  BY DEF CInv, GInv, IInv, TypeOK, Named, Registered, Defined, EntryOf, Abstract!Entry
<1>2. Entries \subseteq Abstract!Entry
  BY <1>1 DEF Entries
<1>3. Uses \subseteq Servants \X Servants
  BY DEF Uses, CInv, GInv, IInv, TypeOK, Servants
<1>4. \A o, p \in Defined : o # p => id[o] # id[p]
  BY DEF CInv, GInv, Registered, Defined
<1>5. \A o, p \in Defined :
        (o # p /\ definedIn[o] = definedIn[p]) => CaseClass[name[o]] # CaseClass[name[p]]
  BY DEF CInv, GInv, IInv, SiblingNamesDistinct, Defined
<1> QED
  BY <1>2, <1>3, <1>4, <1>5, EntryFields DEF Abstract!Catalogue, FitTogether

\* Whatever the catalogue takes to be inside a definition is inside it.
LEMMA InsideIsContained ==
    ASSUME CInv, NEW o \in Objs
    PROVE  Abstract!Inside(o) \subseteq ContainedObjectSet(o)
<1> DEFINE S == ContainedObjectSet(o)
<1>1. o \in S /\ S \subseteq Objs /\ \A d \in S : contents[d] \subseteq S
  BY ContainedObjectSetClosed DEF CInv, GInv, IInv
<1> HIDE DEF S
<1>2. \A p \in Defined : definedIn[p] \in S => p \in S
  BY <1>1 DEF CInv, GInv, IInv, ContainmentSound, Defined, Servants
<1>3. \A e \in Entries : e.in \in S => e.def \in S
  BY <1>2, EntryFields DEF Entries
<1>4. Abstract!Inside(o) \subseteq S
  BY <1>1, <1>3 DEF Abstract!Inside
<1> QED
  BY <1>4 DEF S

\* A live container is a place of the catalogue.
LEMMA ContainersArePlaces ==
    ASSUME CInv, NEW c \in Objs \cup {Root}, IsActive(c), kind[c] \in ContainerKinds
    PROVE  c \in Abstract!Places
<1>1. CASE c = Root
  BY <1>1 DEF Abstract!Places
<1>2. CASE c # Root
  <2>1. kind[c] \in ContainedKinds
    BY <1>2 DEF CInv, GInv, Rooted, ContainerKinds, ContainedKinds, AnonymousKinds
  <2>2. c \in Defined
    BY <1>2, <2>1 DEF CInv, GInv, Placed, Defined
  <2> QED
    BY <2>2, EntryFields DEF Abstract!Places, Entries
<1> QED
  BY <1>1, <1>2

\* When only o's dependencies change, only its uses do.
LEMMA OnlyUsesOf ==
    ASSUME NEW o \in Servants, \A x \in Servants \ {o} : deps'[x] = deps[x]
    PROVE  Abstract!UsesOf(o)
<1>1. \A x \in Servants \ {o} : {x} \X deps'[x] = {x} \X deps[x]
  OBVIOUS
<1>2. ASSUME NEW p, p[1] # o
      PROVE  p \in Uses' <=> p \in Uses
  <2>1. p \in Uses <=> \E x \in Servants \ {o} : p \in {x} \X deps[x]
    BY <1>2 DEF Uses
  <2>2. p \in Uses' <=> \E x \in Servants \ {o} : p \in {x} \X deps'[x]
    BY <1>2 DEF Uses
  <2> QED
    BY <1>1, <2>1, <2>2
<1> QED
  BY <1>2 DEF Abstract!UsesOf

LEMMA InitStart == Init => Abstract!Start
<1> SUFFICES ASSUME Init PROVE Abstract!Start
  OBVIOUS
<1>1. CInv
  BY InitCInv
<1>2. \A o \in Defined : definedIn[o] = Root
  BY DEF Init, Defined
<1>3. \A e \in Entries : e.in = Root
  BY <1>2, EntryFields DEF Entries
<1>4. \A e \in Entries : Abstract!Fits(e, Entries \ {e})
  BY <1>1, EntriesFit, EntryFields DEF Entries, Abstract!Fits, FitTogether
<1>5. \A e, f \in Entries : e.def = f.def => e = f
  BY EntryFields DEF Entries
<1> QED
  BY <1>1, <1>3, <1>4, <1>5, EntriesFit DEF Abstract!Start

\* What is said of the definitions other than o is what it was.
LEMMA OtherEntries ==
    ASSUME CInv, NEW o \in Objs, OthersKept(o)
    PROVE  /\ Defined' \ {o} = Defined \ {o}
           /\ \A p \in Defined \ {o} : EntryOf(p)' = EntryOf(p)
           /\ Entries' \ {EntryOf(o)'} = Entries \ {EntryOf(o)}
<1>1. Defined' \ {o} = Defined \ {o}
  BY DEF OthersKept, Defined
<1>2. \A p \in Defined \ {o} : EntryOf(p)' = EntryOf(p)
  BY DEF OthersKept, Defined, EntryOf
<1>3. \A p : p # o => EntryOf(p) # EntryOf(o) /\ EntryOf(p)' # EntryOf(o)'
  BY DEF EntryOf
<1>4. Entries \ {EntryOf(o)} = {EntryOf(p) : p \in Defined \ {o}}
  BY <1>3 DEF Entries
<1>5. Entries' \ {EntryOf(o)'} = {EntryOf(p)' : p \in Defined' \ {o}}
  BY <1>3 DEF Entries
<1> QED
  BY <1>1, <1>2, <1>4, <1>5

\* A definition that stays in a container, and does not come to be inside itself,
\* is an entry that is amended.
LEMMA AmendStep ==
    ASSUME CInv, CInv', NEW o \in Objs, OthersKept(o),
           definedIn[o] # NoObj, definedIn'[o] # NoObj, deps' = deps,
           definedIn'[o] \in Abstract!Places \ ContainedObjectSet(o)
    PROVE  Abstract!Change
<1>1. o \in Defined /\ o \in Defined'
  BY DEF Defined
<1>2. EntryOf(o) \in Entries /\ EntryOf(o)' \in Entries'
  BY <1>1 DEF Entries
<1>3. Abstract!Catalogue' /\ FitTogether'
  BY EntriesFit, PTL
<1>4. EntryOf(o)' \in Abstract!Entry
  BY <1>2, <1>3 DEF Abstract!Catalogue, Abstract!Entry
<1>5. Entries' = (Entries \ {EntryOf(o)}) \cup {EntryOf(o)'}
  BY <1>2, OtherEntries
<1>6. Abstract!Fits(EntryOf(o)', Entries \ {EntryOf(o)})
  <2> SUFFICES ASSUME NEW p \in Defined \ {o}
               PROVE  /\ EntryOf(p).id # EntryOf(o)'.id
                      /\ EntryOf(p).in = EntryOf(o)'.in =>
                        CaseClass[EntryOf(p).name] # CaseClass[EntryOf(o)'.name]
    BY DEF Abstract!Fits, Entries
  <2>1. p \in Defined' /\ EntryOf(p)' = EntryOf(p)
    BY OtherEntries
  <2> QED
    BY <1>1, <1>3, <2>1 DEF FitTogether
<1>7. EntryOf(o)'.def = EntryOf(o).def /\ EntryOf(o)'.in = definedIn'[o]
  BY DEF EntryOf
<1>8. EntryOf(o)'.in \in Abstract!Places \ Abstract!Inside(EntryOf(o).def)
  BY <1>7, InsideIsContained, EntryFields
<1>9. UNCHANGED Uses
  BY DEF Uses
<1>10. Abstract!Amend(EntryOf(o), EntryOf(o)')
  BY <1>5, <1>6, <1>7, <1>8, <1>9 DEF Abstract!Amend
<1> QED
  BY <1>2, <1>4, <1>10 DEF Abstract!Change

\* A definition that comes into being is an entry that is entered.
LEMMA EnterStep ==
    ASSUME CInv, CInv', NEW o \in Objs, OthersKept(o),
           definedIn[o] = NoObj, definedIn'[o] # NoObj,
           \A x \in Servants \ {o} : deps'[x] = deps[x],
           definedIn'[o] \in Abstract!Places
    PROVE  Abstract!Change
<1>1. o \notin Defined /\ o \in Defined'
  BY DEF Defined
<1>2. EntryOf(o)' \in Entries' /\ \A e \in Entries : e.def # o
  BY <1>1, EntryFields DEF Entries
<1>3. Abstract!Catalogue' /\ FitTogether'
  BY EntriesFit, PTL
<1>4. EntryOf(o)' \in Abstract!Entry
  BY <1>2, <1>3 DEF Abstract!Catalogue, Abstract!Entry
<1>5. EntryOf(o)'.def = o /\ EntryOf(o)'.in = definedIn'[o]
  BY DEF EntryOf
<1>6. Entries' = Entries \cup {EntryOf(o)'}
  <2>1. EntryOf(o) \notin Entries
    BY <1>2, EntryFields
  <2> QED
    BY <1>2, <2>1, OtherEntries
<1>7. Abstract!Fits(EntryOf(o)', Entries)
  <2> SUFFICES ASSUME NEW p \in Defined
               PROVE  /\ EntryOf(p).id # EntryOf(o)'.id
                      /\ EntryOf(p).in = EntryOf(o)'.in =>
                        CaseClass[EntryOf(p).name] # CaseClass[EntryOf(o)'.name]
    BY DEF Abstract!Fits, Entries
  <2>1. p # o /\ p \in Defined' /\ EntryOf(p)' = EntryOf(p)
    BY <1>1, OtherEntries
  <2> QED
    BY <1>1, <1>3, <2>1 DEF FitTogether
<1>8. Abstract!UsesOf(o)
  BY OnlyUsesOf DEF Servants
<1>9. Abstract!Enter(EntryOf(o)')
  BY <1>2, <1>5, <1>6, <1>7, <1>8 DEF Abstract!Enter
<1> QED
  BY <1>2, <1>4, <1>9 DEF Abstract!Change

\* A destroyed definition is an entry that is withdrawn.
LEMMA WithdrawStep ==
    ASSUME CInv, NEW o \in Objs, OthersKept(o),
           definedIn[o] # NoObj, definedIn'[o] = NoObj, contents[o] = {},
           \A x \in Servants \ {o} : deps'[x] = deps[x],
           DependentObjectSet(o) \subseteq {o}
    PROVE  Abstract!Change
<1>1. o \in Defined /\ o \notin Defined'
  BY DEF Defined
<1>2. EntryOf(o) \in Entries
  BY <1>1 DEF Entries
<1>3. Entries' = Entries \ {EntryOf(o)}
  <2>1. EntryOf(o)' \notin Entries'
    BY <1>1 DEF Entries, EntryOf
  <2> QED
    BY <2>1, OtherEntries
<1>4. \A e \in Entries : e.in # EntryOf(o).def
  <2>1. \A p \in Defined : definedIn[p] # o
    BY DEF CInv, GInv, IInv, ContainmentSound, Defined, Servants
  <2> QED
    BY <2>1, EntryFields DEF Entries
<1>5. \A p \in Uses : p[2] = EntryOf(o).def => p[1] = EntryOf(o).def
  <2> SUFFICES ASSUME NEW x \in Servants, o \in deps[x] PROVE x = o
    BY EntryFields DEF Uses
  <2> QED
    BY DEF DependentObjectSet, ContainedObjectSet
<1>6. Abstract!UsesOf(EntryOf(o).def)
  BY OnlyUsesOf, EntryFields DEF Servants
<1>7. Abstract!Withdraw(EntryOf(o))
  BY <1>3, <1>4, <1>5, <1>6 DEF Abstract!Withdraw
<1> QED
  BY <1>2, <1>7 DEF Abstract!Change

\* What happens to an object that is in no container shows in its uses only, and
\* so does what a definition is set to refer to.
LEMMA UseStep ==
    ASSUME CInv, NEW o \in Objs, OthersKept(o),
           \/ definedIn[o] = NoObj /\ definedIn'[o] = NoObj
           \/ UNCHANGED <<definedIn, name, id>>,
           \A x \in Servants \ {o} : deps'[x] = deps[x]
    PROVE  Abstract!Change
<1>1. Entries' = Entries
  <2>1. CASE definedIn[o] = NoObj /\ definedIn'[o] = NoObj
    <3>1. EntryOf(o) \notin Entries /\ EntryOf(o)' \notin Entries'
      BY <2>1 DEF Entries, EntryOf, Defined
    <3> QED
      BY <3>1, OtherEntries
  <2>2. CASE UNCHANGED <<definedIn, name, id>>
    BY <2>2 DEF Entries, EntryOf, Defined
  <2> QED
    BY <2>1, <2>2
<1>2. o \in Servants /\ Abstract!UsesOf(o)
  BY OnlyUsesOf DEF Servants
<1> QED
  BY <1>1, <1>2 DEF Abstract!Change, Abstract!Use

LEMMA StepChange ==
    ASSUME CInv, CInv', NEW o \in Objs, ChangeOf(o)
    PROVE  Abstract!Change
<1> USE ConstantsAssumption
<1>1. TypeOK /\ OthersKept(o)
  BY StepOthersKept DEF CInv, GInv, IInv
<1>2. ASSUME NEW k \in AnonymousKinds, CreateAnonymous(o, k)
      PROVE  Abstract!Change
  <2>1. definedIn[o] = NoObj /\ definedIn'[o] = NoObj
    BY <1>2, Unborn DEF CreateAnonymous, CInv
  <2>2. \A x \in Servants \ {o} : deps'[x] = deps[x]
    BY <1>1, <1>2 DEF CreateAnonymous, StoreReferences, TypeOK
  <2> QED
    BY <1>1, <2>1, <2>2, UseStep
<1>3. ASSUME NEW c \in Servants, NEW k \in ContainedKinds \cap Kinds,
             NEW i \in Ids, NEW n \in Names, CreateContained(c, o, k, i, n)
      PROVE  Abstract!Change
  <2>1. definedIn[o] = NoObj /\ definedIn'[o] = c
    BY <1>1, <1>3, Unborn DEF CreateContained, TypeOK, CInv
  <2>2. \A x \in Servants \ {o} : deps'[x] = deps[x]
    BY <1>1, <1>3 DEF CreateContained, StoreReferences, TypeOK
  <2>3. c \in Abstract!Places /\ c # NoObj
    BY <1>3, ContainerType, ContainersArePlaces
       DEF CreateContained, CreateRequest, CInv, GInv
  <2> QED
    BY <1>1, <2>1, <2>2, <2>3, EnterStep
<1>4. CASE CarefulSet(o)
  <2>1. UNCHANGED <<definedIn, name, id>>
    BY <1>4 DEF CarefulSet, SetReferences, tree, naming, ids
  <2>2. \A x \in Servants \ {o} : deps'[x] = deps[x]
    BY <1>1, <1>4 DEF CarefulSet, SetReferences, StoreReferences, TypeOK
  <2> QED
    BY <1>1, <2>1, <2>2, UseStep
<1>5. CASE contents[o] = {} /\ Destroy(o)
  <2>1. ContainedObjectSet(o) = {o}
    BY <1>5, EmptyContainer
  <2>2. definedIn'[o] = NoObj /\ DependentObjectSet(o) \subseteq {o}
    BY <1>5, <2>1 DEF Destroy, DestroyRequest
  <2>3. \A x \in Servants \ {o} : deps'[x] = deps[x]
    BY <1>5, <2>1 DEF Destroy, ClearReferences
  <2> QED
    BY <1>1, <1>5, <2>2, <2>3, WithdrawStep, UseStep
<1>6. ASSUME definedIn[o] # NoObj, definedIn' = definedIn, deps' = deps
      PROVE  Abstract!Change
  <2>1. definedIn[o] \in Objs \cup {Root} /\ o \in contents[definedIn[o]]
    BY <1>1, <1>6 DEF CInv, GInv, IInv, ContainmentSound, TypeOK, Servants
  <2>2. definedIn[o] \in Abstract!Places
    BY <2>1, ContainersArePlaces DEF CInv, GInv, Held, Servants
  <2>3. definedIn[o] \notin ContainedObjectSet(o)
    <3>1. \A d \in ContainedObjectSet(o) : contents[d] \subseteq Below(o)
      BY <1>1 DEF ContainedObjectSet, Below, TypeOK, Servants
    <3> QED
      BY <2>1, <3>1, NoLoops DEF InLoop, CInv
  <2> QED
    BY <1>1, <1>6, <2>2, <2>3, AmendStep
<1>7. ASSUME NEW i \in Ids, SetId(o, i)
      PROVE  Abstract!Change
  BY <1>6, <1>7 DEF SetId, tree, links, CInv, GInv, Placed
<1>8. ASSUME NEW n \in Names, Rename(o, n)
      PROVE  Abstract!Change
  BY <1>6, <1>8 DEF Rename, tree, links
<1>9. ASSUME NEW c \in Objs, NEW n \in Names,
             MoveRequest(o, c), Relocate(o, c, n), c \notin ContainedObjectSet(o)
      PROVE  Abstract!Change
  <2>1. definedIn[o] # NoObj /\ definedIn'[o] = c /\ deps' = deps
    BY <1>1, <1>9 DEF Relocate, Reparent, links, TypeOK
  <2>2. c \in Abstract!Places /\ c # NoObj
    BY <1>9, ContainersArePlaces DEF MoveRequest, Servants
  <2> QED
    BY <1>1, <1>9, <2>1, <2>2, AmendStep
<1> QED
  BY <1>2, <1>3, <1>4, <1>5, <1>7, <1>8, <1>9 DEF ChangeOf

\* To its clients the server is the catalogue they were promised: every request
\* enters, amends or withdraws one entry, or changes what one of them uses.
THEOREM CarefulRefinement == CarefulSpec => ImplementsCatalogue
<1>1. Init => Abstract!Start
  BY InitStart
<1>2. CInv /\ CInv' /\ [CarefulNext]_vars => [Abstract!Change]_(Abstract!catalogue)
  <2>1. CASE UNCHANGED vars
    BY <2>1 DEF vars, tree, naming, ids, links, Abstract!catalogue, Entries,
                EntryOf, Defined, Uses
  <2> QED
    BY <2>1, CarefulSteps, StepChange
<1> QED
  BY <1>1, <1>2, CarefulInvariance, PTL
     DEF CarefulSpec, ImplementsCatalogue, Abstract!CatalogueSpec

=============================================================================
