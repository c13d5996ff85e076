----------------------------- MODULE IfrObjects -----------------------------
(***************************************************************************)
(* The object graph of the omniIFR Interface Repository server: the        *)
(* definitions (servants) a Repository holds, the containment tree they    *)
(* form, the map from repository ids to definitions, and the dependencies  *)
(* that keep a definition alive while another one is built from it.        *)
(*                                                                         *)
(* Every servant but the Repository lives in the POA "IRpoa", whose        *)
(* SINGLE_THREAD_MODEL makes one request one atomic step; requests on the  *)
(* Repository itself are atomic here too (IfrRootRace models their         *)
(* interleaving).  An action is a whole CORBA request.  A request that the *)
(* server refuses with an exception and no effect is a stuttering step and *)
(* has no action; a request that brings the process down sets "crash".     *)
(*                                                                         *)
(* Kinds modelled: Module, Struct, Exception, Interface (as a container),  *)
(* Attribute, Alias, Constant, Enum and the anonymous Sequence, Array,     *)
(* String, Wstring and Fixed.                                              *)
(***************************************************************************)
EXTENDS Naturals, Sequences, FiniteSets

CONSTANTS
    Objs,       \* servants clients can create; an object id is never reused
    Root,       \* the Repository, Repository_impl::_inst
    Prim,       \* a PrimitiveDef (all of them behave alike)
    NoObj,      \* the NULL pointer
    Names,      \* the valid IDL identifiers clients use
    CaseClass,  \* identifiers with the same class differ only in case
    Ids,        \* repository ids
    NoString,   \* the NULL String_var
    Kinds,      \* the kinds clients create in this instance
    Readonly,   \* the -r option
    Loaded,     \* definitions already there when the server starts
    MaxRefs,    \* bound: references held by one struct or exception
    MaxDepth,   \* bound: components of an absolute name
    MaxIndex    \* bound: position numbers handed out in one container

Servants == Objs \cup {Root, Prim}

ContainerKinds == {"Repository", "Module", "Struct", "Exception", "Interface"}
AnonymousKinds == {"Sequence", "Array", "String", "Wstring", "Fixed"}
ContainedKinds ==
    {"Module", "Struct", "Exception", "Interface", "Attribute", "Alias",
     "Constant", "Enum"}
AllKinds ==
    ContainedKinds \cup AnonymousKinds \cup {"Repository", "Primitive", "None"}

\* Kinds with the IDLType interface: what a type reference can denote.
IDLTypeKinds ==
    AnonymousKinds \cup {"Primitive", "Struct", "Interface", "Alias", "Enum"}

\* Kinds whose type() is computed from the type() of the one they refer to.
DelegatingKinds == {"Alias", "Sequence", "Array"}
\* Kinds that hold exactly one reference, and kinds that hold any number.
OneRefKinds  == DelegatingKinds \cup {"Constant", "Attribute"}
ManyRefKinds == {"Struct", "Exception"}
\* Kinds whose setter calls type() on every reference before storing it.
CheckedKinds == {"Constant"} \cup ManyRefKinds

ASSUME ConstantsAssumption ==
    /\ Root \notin Objs /\ Prim \notin Objs /\ Root # Prim
    /\ NoObj \notin Servants
    /\ NoString \notin Ids \cup Names
    /\ CaseClass \in [Names -> Names]
    /\ Kinds \subseteq ContainedKinds \cup AnonymousKinds
    /\ Readonly \in BOOLEAN
    /\ Loaded \subseteq Objs
    /\ MaxRefs \in Nat /\ MaxDepth \in Nat /\ MaxIndex \in Nat

-----------------------------------------------------------------------------

VARIABLES
    life,       \* "unborn", "active" (in the POA's object map) or "gone"
    kind,       \* def_kind()
    definedIn,  \* Contained_impl::_defined_in
    contents,   \* Container_impl::_contents, as a set
    index,      \* Contained_impl::_index: position within the container
    anonymous,  \* Repository_impl::_anonymous
    name,       \* Contained_impl::_name
    absName,    \* Contained_impl::_absolute_name
    id,         \* Contained_impl::_id
    idmap,      \* Repository_impl::_idmap
    refs,       \* the object references an object holds to its types
    deps,       \* those of them whose servant was found: its Dependency objects
    crash       \* "no", or the place where the process died

tree == <<definedIn, contents, index, anonymous>>
naming == <<name, absName>>
ids == <<id, idmap>>
links == <<refs, deps>>
vars == <<life, kind, tree, naming, ids, links, crash>>

\* The places where a request can bring the server process down.
CrashSites ==
    { "initRemoveId",      \* assertion, Repository.cc:508, from a failed init()
      "removeId",          \* the same assertion, from id(v) or destroy()
      "name",              \* assertion on _defined_in, Contained.cc:140
      "defined_in",        \* assertion on _defined_in, Contained.cc:190
      "nullContainer",     \* NULL oldContainer used, Contained.cc:293
      "freedListNode",     \* erased node advanced, Container.cc:453
      "containmentLoop",   \* unbounded recursion over _contents
      "typeLoop",          \* unbounded recursion of type()
      "wrongAdapter",      \* exit(1), Dependency.h:60
      "deleteRepository" } \* the static Repository deletes itself

IsActive(s) == life[s] = "active"
Running == crash = "no"

-----------------------------------------------------------------------------
(* Containment.                                                            *)

\* canContain() of each container kind.
TypedefKinds == {"Struct", "Enum", "Alias"}
HeldByModule ==
    TypedefKinds \cup {"Constant", "Exception", "Interface", "Module"}
HeldByInterface == TypedefKinds \cup {"Constant", "Exception", "Attribute"}
HeldByStruct == {"Struct", "Enum"}
Containable(ck) ==
    IF ck \in {"Repository", "Module"} THEN HeldByModule
    ELSE IF ck = "Interface" THEN HeldByInterface
    ELSE IF ck \in {"Struct", "Exception"} THEN HeldByStruct
    ELSE {}

\* Everything inside an object: the least set that holds its contents and the
\* contents of its members.
Below(o) ==
    LET closed == {S \in SUBSET Objs : /\ contents[o] \subseteq S
                                       /\ \A c \in S : contents[c] \subseteq S}
    IN {x \in Objs : \A S \in closed : x \in S}

\* containedObjectSet().
ContainedObjectSet(o) == {o} \cup Below(o)

\* The recursion over _contents does not end for an object inside itself.
InLoop(o) == o \in Below(o)

\* dependentObjectSet(): owners of a dependency on the object or its contents.
DependentObjectSet_NotRecursive(o) == {x \in Servants : o \in deps[x]}
DependentObjectSet(o) ==
    LET D == ContainedObjectSet(o) IN {x \in Servants : deps[x] \cap D # {}}

\* lookupServant(v, false) of a container finds nothing.
NameFree_ExactMatch(c, n) == \A x \in contents[c] : name[x] # n
NameFree(c, n) == \A x \in contents[c] : CaseClass[name[x]] # CaseClass[n]

\* The absolute name updateAbsoluteName() computes under container c.
AbsoluteName_OneLevel(c, n) == Append(IF c = Root THEN <<>> ELSE <<name[c]>>, n)
AbsoluteName(c, n) == Append(IF c = Root THEN <<>> ELSE absName[c], n)

\* The position addContained() gives a new object: one more than the last.
IsNextIndex(c, k) ==
    /\ \A x \in contents[c] : index[x] < k
    /\ k = 1 \/ \E x \in contents[c] : index[x] = k - 1

-----------------------------------------------------------------------------
(* References to types.                                                    *)

\* Where type() of x goes on to.
Delegate(x) ==
    IF IsActive(x) /\ kind[x] \in DelegatingKinds THEN refs[x] ELSE {}

\* The objects whose type() a call of type() on t goes through.
TypeChain(t) ==
    LET closed == {S \in SUBSET (Objs \cup {Prim}) :
                    /\ Delegate(t) \subseteq S
                    /\ \A x \in S : Delegate(x) \subseteq S}
    IN {t} \cup {x \in Objs \cup {Prim} : \A S \in closed : x \in S}

\* How that call ends: with an exception when the chain reaches a destroyed
\* object or a nil reference, never when every object of it delegates to
\* another one, and otherwise with the TypeCode.
TypeOutcome(t) ==
    LET chain == TypeChain(t) IN
    IF \E x \in chain :
        ~ IsActive(x) \/ (kind[x] \in DelegatingKinds /\ refs[x] = {})
    THEN "exception"
    ELSE IF \A x \in chain : kind[x] \in DelegatingKinds THEN "endless"
    ELSE "typecode"

\* What is left after stripping aliases is a type a constant can have.
IsBasicType(t) ==
    LET chain == TypeChain(t) IN
    \E e \in chain :
        /\ kind[e] \in {"Primitive", "String", "Wstring", "Fixed"}
        /\ \A x \in chain \ {e} : kind[x] = "Alias"

\* Type references clients can hold; the object may have been destroyed since.
TypeReferences ==
    {Prim} \cup {t \in Objs : life[t] # "unborn" /\ kind[t] \in IDLTypeKinds}

\* The setter of an object of kind k accepts t.
Accepted(k, t) ==
    /\ k \in CheckedKinds => TypeOutcome(t) = "typecode"
    /\ k = "Constant" => IsBasicType(t)

\* The values of the reference attribute an object of kind k can be given.
RefValues(k) ==
    IF k \in OneRefKinds
    THEN {{t} : t \in {t \in TypeReferences : Accepted(k, t)}}
    ELSE IF k \in ManyRefKinds
    THEN {R \in SUBSET {t \in TypeReferences : Accepted(k, t)} :
            Cardinality(R) <= MaxRefs}
    ELSE {{}}

\* referenceToServant(): the references whose servant is in the object map.
Resolved_WithNulls(R) == {IF IsActive(t) THEN t ELSE NoObj : t \in R}
Resolved(R) == {t \in R : IsActive(t)}

\* Dependency1::assign() and Dependency3::uncheckedAssign(): clear() and set().
StoreReferences(o, R) ==
    /\ refs' = [refs EXCEPT ![o] = R]
    /\ deps' = [deps EXCEPT ![o] = Resolved(R)]

\* clear() of every Dependency of the objects of D.
ClearReferences_ServantsOnly(D) ==
    /\ refs' = refs
    /\ deps' = [x \in Servants |-> IF x \in D THEN {} ELSE deps[x]]
ClearReferences(D) ==
    /\ refs' = [x \in Servants |-> IF x \in D THEN {} ELSE refs[x]]
    /\ deps' = [x \in Servants |-> IF x \in D THEN {} ELSE deps[x]]

\* A setter call that brings the process down: a reference to another server
\* is stored, or the type of a looping definition is asked for.
SetterDies(k, site) ==
    \/ site = "wrongAdapter" /\ k \in OneRefKinds \cup ManyRefKinds
    \/ /\ site = "typeLoop" /\ k \in CheckedKinds
       /\ \E t \in TypeReferences : TypeOutcome(t) = "endless"

-----------------------------------------------------------------------------
(* Requests.                                                               *)

\* The server is up and accepts changes.
MayChange == Running /\ ~ Readonly

\* The process dies while it serves a request.
Dies(site) ==
    crash' = site /\ UNCHANGED <<life, kind, tree, naming, ids, links>>

\* The container's list holds a reference on the Repository for each of its
\* members; once destroyed, the Repository deletes itself with the last one.
RepositoryReferenced ==
    crash' = IF life'[Root] = "gone" /\ contents'[Root] = {} /\ anonymous' = {}
             THEN "deleteRepository" ELSE "no"

\* A container offers its create_xxx() operations for every contained kind; the
\* name, then the id, are checked before the kind is.  What an interface checks
\* besides, of inherited names, is in IfrInterfaces: more is created here.
CreateRequest_IdUnchecked(c, k, i, n) ==
    /\ MayChange
    /\ IsActive(c) /\ kind[c] \in ContainerKinds
    /\ k \in ContainedKinds \cap Kinds
    /\ NameFree(c, n)
CreateRequest(c, k, i, n) ==
    /\ MayChange
    /\ IsActive(c) /\ kind[c] \in ContainerKinds
    /\ k \in ContainedKinds \cap Kinds
    /\ NameFree(c, n)
    /\ idmap[i] = NoObj

\* create_module(), create_struct(), ... : init(), the reference setter, and
\* activation.  A setter that throws leaves nothing behind (Creche).
CreateContained(c, o, k, i, n) ==
    /\ life[o] = "unborn"
    /\ CreateRequest(c, k, i, n)
    /\ k \in Containable(kind[c])
    /\ Len(AbsoluteName(c, n)) <= MaxDepth
    /\ life' = [life EXCEPT ![o] = "active"]
    /\ kind' = [kind EXCEPT ![o] = k]
    /\ definedIn' = [definedIn EXCEPT ![o] = c]
    /\ contents' = [contents EXCEPT ![c] = @ \cup {o}]
    /\ \E pos \in 1..MaxIndex :
        IsNextIndex(c, pos) /\ index' = [index EXCEPT ![o] = pos]
    /\ name' = [name EXCEPT ![o] = n]
    /\ absName' = [absName EXCEPT ![o] = AbsoluteName(c, n)]
    /\ id' = [id EXCEPT ![o] = i]
    /\ idmap' = [idmap EXCEPT ![i] = o]
    /\ \E R \in RefValues(k) : StoreReferences(o, R)
    /\ UNCHANGED <<anonymous, crash>>

\* When the container cannot hold the kind, init() unregisters the id and then
\* uncheckedDestroy() unregisters it again.
CreateContainedDies(c, k, i, n, site) ==
    /\ CreateRequest(c, k, i, n)
    /\ IF k \in Containable(kind[c]) THEN SetterDies(k, site)
       ELSE site = "initRemoveId"
    /\ Dies(site)

\* create_string(), create_sequence(), ... on the Repository.
CreateAnonymous(o, k) ==
    /\ life[o] = "unborn"
    /\ MayChange
    /\ IsActive(Root)
    /\ k \in AnonymousKinds \cap Kinds
    /\ life' = [life EXCEPT ![o] = "active"]
    /\ kind' = [kind EXCEPT ![o] = k]
    /\ anonymous' = anonymous \cup {o}
    /\ \E R \in RefValues(k) : StoreReferences(o, R)
    /\ UNCHANGED <<definedIn, contents, index, naming, ids, crash>>

\* original_type_def(), members(), type_def() or element_type_def().
SetReferences(o) ==
    /\ MayChange
    /\ IsActive(o) /\ kind[o] \in OneRefKinds \cup ManyRefKinds
    /\ \E R \in RefValues(kind[o]) : StoreReferences(o, R)
    /\ UNCHANGED <<life, kind, tree, naming, ids, crash>>

SetReferencesDies(k, site) ==
    /\ MayChange
    /\ \/ \E o \in Objs : IsActive(o) /\ kind[o] = k
       \/ k \in AnonymousKinds \cap Kinds /\ IsActive(Root)
    /\ SetterDies(k, site)
    /\ Dies(site)

\* removeId() of the old id, addId() of the new one.
ReplaceId_OldKept(o, i) ==
    /\ id' = [id EXCEPT ![o] = i]
    /\ idmap' = [idmap EXCEPT ![i] = o]
ReplaceId_NewNotAdded(o, i) ==
    /\ id' = [id EXCEPT ![o] = i]
    /\ idmap' = [idmap EXCEPT ![id[o]] = NoObj]
ReplaceId(o, i) ==
    /\ id' = [id EXCEPT ![o] = i]
    /\ idmap' = [idmap EXCEPT ![id[o]] = NoObj, ![i] = o]

\* id(v): the new id must be free, the old one must be registered.
SetId(o, i) ==
    /\ MayChange
    /\ IsActive(o) /\ kind[o] \in ContainedKinds
    /\ i # id[o] /\ idmap[i] = NoObj /\ idmap[id[o]] # NoObj
    /\ ReplaceId(o, i)
    /\ UNCHANGED <<life, kind, tree, naming, links, crash>>

SetIdDies(o, i) ==
    /\ MayChange
    /\ IsActive(o) /\ kind[o] \in ContainedKinds
    /\ i # id[o] /\ idmap[i] = NoObj /\ idmap[id[o]] = NoObj
    /\ Dies("removeId")

\* name(v) in the container the object is in: an identifier that differs from
\* the current one only in case is not looked up.
Rename(o, n) ==
    /\ definedIn[o] # NoObj
    /\ n # name[o]
    /\ CaseClass[n] = CaseClass[name[o]] \/ NameFree(definedIn[o], n)
    /\ Len(AbsoluteName(definedIn[o], n)) <= MaxDepth
    /\ name' = [name EXCEPT ![o] = n]
    /\ absName' = [absName EXCEPT ![o] = AbsoluteName(definedIn[o], n)]
    /\ UNCHANGED <<life, kind, tree, ids, links, crash>>

SetName(o, n) ==
    /\ MayChange
    /\ IsActive(o) /\ kind[o] \in ContainedKinds
    /\ Rename(o, n)

SetNameDies(o) ==
    /\ MayChange
    /\ IsActive(o) /\ kind[o] \in ContainedKinds
    /\ definedIn[o] = NoObj
    /\ Dies("name")

\* move(): the target must be found in "IRpoa", so it is never the Repository;
\* nothing keeps it from being the object itself or something inside it.
MoveRequest(o, c) ==
    /\ MayChange
    /\ IsActive(o) /\ kind[o] \in ContainedKinds
    /\ IsActive(c) /\ kind[c] \in ContainerKinds
    /\ kind[o] \in Containable(kind[c])

\* addContained() to the new container, removeContained() from the old one.
Reparent_NotRemoved(o, c) ==
    /\ definedIn' = [definedIn EXCEPT ![o] = c]
    /\ contents' = [contents EXCEPT ![c] = @ \cup {o}]
Reparent_NotAdded(o, c) ==
    /\ definedIn' = [definedIn EXCEPT ![o] = c]
    /\ contents' = [contents EXCEPT ![definedIn[o]] = @ \ {o}]
Reparent(o, c) ==
    /\ definedIn' = [definedIn EXCEPT ![o] = c]
    /\ contents' = [contents EXCEPT ![definedIn[o]] = @ \ {o},
                                    ![c] = @ \cup {o}]

Relocate(o, c, n) ==
    /\ c # definedIn[o]
    /\ definedIn[o] # NoObj
    /\ NameFree(c, n)
    /\ Len(AbsoluteName(c, n)) <= MaxDepth
    /\ Reparent(o, c)
    /\ name' = [name EXCEPT ![o] = n]
    /\ absName' = [absName EXCEPT ![o] = AbsoluteName(c, n)]
    /\ UNCHANGED <<life, kind, index, anonymous, ids, links>>
    /\ RepositoryReferenced

Move(o, c, n) ==
    /\ MoveRequest(o, c)
    /\ (c = definedIn[o] /\ Rename(o, n)) \/ Relocate(o, c, n)

MoveDies(o, c, n) ==
    /\ MoveRequest(o, c)
    /\ definedIn[o] = NoObj /\ NameFree(c, n)
    /\ Dies("nullContainer")

-----------------------------------------------------------------------------
(* destroy(), which does not ask whether the repository is read-only.      *)

DestroyRequest_Unchecked(o) == Running /\ IsActive(o) /\ ~ InLoop(o)
DestroyRequest(o) ==
    /\ Running
    /\ IsActive(o)
    /\ ~ InLoop(o)
    /\ DependentObjectSet(o) \subseteq ContainedObjectSet(o)

\* Every id of the objects of D is registered, each with a different object.
Unregistrable(D) ==
    \A d \in D :
        /\ idmap[id[d]] # NoObj
        /\ \A e \in D : id[d] = id[e] => d = e

\* uncheckedDestroy() of o and of what is inside it, then deactivation of o
\* alone: its contents stay in the POA's object map, in no container.
Destroy(o) ==
    LET D == ContainedObjectSet(o) IN
    /\ DestroyRequest(o)
    /\ kind[o] \in ContainedKinds => Unregistrable(D)
    /\ life' = [life EXCEPT ![o] = "gone"]
    /\ definedIn' = [x \in Objs |-> IF x \in D THEN NoObj ELSE definedIn[x]]
    /\ contents' = [c \in Servants |-> IF c \in D THEN {} ELSE contents[c] \ D]
    /\ anonymous' = anonymous \ {o}
    /\ index' = [index EXCEPT ![o] = 0]
    /\ name' = [name EXCEPT ![o] = NoString]
    /\ absName' = [absName EXCEPT ![o] = <<>>]
    /\ id' = [id EXCEPT ![o] = NoString]
    /\ idmap' = [i \in Ids |-> IF \E d \in D : id[d] = i THEN NoObj
                               ELSE idmap[i]]
    /\ ClearReferences(D)
    /\ RepositoryReferenced
    /\ UNCHANGED kind

\* An id of D is registered no more; or the traversal of _contents, whose
\* current node each child erases, runs off a freed list node.
DestroyDies(o) ==
    /\ DestroyRequest(o)
    /\ kind[o] \in ContainedKinds
    /\ \/ ~ Unregistrable(ContainedObjectSet(o)) /\ Dies("removeId")
       \/ contents[o] # {} /\ Dies("freedListNode")

\* destroy() on the Repository itself; only _primitives is emptied.
DestroyRepository ==
    /\ DestroyRequest(Root)
    /\ life' = [life EXCEPT ![Root] = "gone"]
    /\ UNCHANGED <<kind, tree, naming, ids, links>>
    /\ RepositoryReferenced

\* Requests that only read, and never return.
ReadDies(o) ==
    /\ Running
    /\ IsActive(o)
    /\ \/ /\ kind[o] \in ContainedKinds /\ definedIn[o] = NoObj
          /\ Dies("defined_in")
       \/ kind[o] \in DelegatingKinds /\ TypeOutcome(o) = "endless" /\ Dies("typeLoop")
       \/ InLoop(o) /\ Dies("containmentLoop")

-----------------------------------------------------------------------------

\* What reincarnation left in the Repository: an empty one when Loaded = {}.
Init ==
    /\ crash = "no"
    /\ life = [s \in Servants |->
                IF s \in Objs \ Loaded THEN "unborn" ELSE "active"]
    /\ \E ks \in [Loaded -> Kinds \cap Containable("Repository")] :
        /\ kind = [s \in Servants |->
                    IF s = Root THEN "Repository"
                    ELSE IF s = Prim THEN "Primitive"
                    ELSE IF s \in Loaded THEN ks[s] ELSE "None"]
        /\ refs = [s \in Servants |->
                    IF s \in Loaded /\ ks[s] \in OneRefKinds
                    THEN {Prim} ELSE {}]
    /\ deps = refs
    /\ definedIn = [o \in Objs |-> IF o \in Loaded THEN Root ELSE NoObj]
    /\ contents = [s \in Servants |-> IF s = Root THEN Loaded ELSE {}]
    /\ anonymous = {}
    /\ \E ix \in [Loaded -> 1..MaxIndex], ns \in [Loaded -> Names],
          is \in [Loaded -> Ids] :
        /\ \A x, y \in Loaded :
            x # y => /\ ix[x] # ix[y] /\ is[x] # is[y]
                     /\ CaseClass[ns[x]] # CaseClass[ns[y]]
        /\ index = [o \in Objs |-> IF o \in Loaded THEN ix[o] ELSE 0]
        /\ name = [o \in Objs |->
                    IF o \in Loaded THEN ns[o] ELSE NoString]
        /\ absName = [o \in Objs |-> IF o \in Loaded THEN <<ns[o]>> ELSE <<>>]
        /\ id = [o \in Objs |-> IF o \in Loaded THEN is[o] ELSE NoString]
        /\ idmap = [i \in Ids |->
                    IF \E o \in Loaded : is[o] = i
                    THEN CHOOSE o \in Loaded : is[o] = i ELSE NoObj]

Next ==
    \/ \E o \in Objs, c \in Servants, k \in ContainedKinds \cap Kinds,
          i \in Ids, n \in Names : CreateContained(c, o, k, i, n)
    \/ \E c \in Servants, k \in ContainedKinds \cap Kinds, i \in Ids, n \in Names,
          site \in {"initRemoveId", "wrongAdapter", "typeLoop"} :
        CreateContainedDies(c, k, i, n, site)
    \/ \E o \in Objs, k \in AnonymousKinds : CreateAnonymous(o, k)
    \/ \E o \in Objs : SetReferences(o) \/ SetNameDies(o) \/ Destroy(o)
                       \/ DestroyDies(o) \/ ReadDies(o)
    \/ \E k \in Kinds, site \in {"wrongAdapter", "typeLoop"} : SetReferencesDies(k, site)
    \/ \E o \in Objs, i \in Ids : SetId(o, i) \/ SetIdDies(o, i)
    \/ \E o \in Objs, n \in Names : SetName(o, n)
    \/ \E o, c \in Objs, n \in Names : Move(o, c, n) \/ MoveDies(o, c, n)
    \/ DestroyRepository

Spec == Init /\ [][Next]_vars

-----------------------------------------------------------------------------
(* Properties.                                                             *)

TypeOK ==
    /\ life \in [Servants -> {"unborn", "active", "gone"}]
    /\ kind \in [Servants -> AllKinds]
    /\ definedIn \in [Objs -> Objs \cup {Root, NoObj}]
    /\ contents \in [Servants -> SUBSET Objs]
    /\ index \in [Objs -> Nat]
    /\ anonymous \in SUBSET Objs
    /\ name \in [Objs -> Names \cup {NoString}]
    /\ absName \in [Objs -> Seq(Names)]
    /\ id \in [Objs -> Ids \cup {NoString}]
    /\ idmap \in [Ids -> Objs \cup {NoObj}]
    /\ refs \in [Servants -> SUBSET (Objs \cup {Prim})]
    /\ deps \in [Servants -> SUBSET (Objs \cup {Prim})]
    /\ crash \in CrashSites \cup {"no"}

\* lookup_id() never returns a freed servant, and what it returns carries the
\* id that was asked for - whatever was renamed, moved, destroyed or orphaned,
\* and whoever reused an id (Repository.cc:83-94, Contained.cc:106-129, 304).
IdmapSound ==
    \A i \in Ids : idmap[i] # NoObj => /\ IsActive(idmap[i])
                                       /\ id[idmap[i]] = i

\* _contents and _defined_in agree: an object is in the list of the container
\* it points to and in no other, and only live servants are in a list
\* (Container.cc:505-557, Contained.cc:222-308).
ContainmentSound ==
    /\ \A o \in Objs, c \in Servants : o \in contents[c] <=> definedIn[o] = c
    /\ \A o \in Objs : definedIn[o] # NoObj => IsActive(o)

\* Two definitions in one container differ by more than case, however they got
\* there: created, renamed or moved (Contained.cc:136-173, Container.cc:507-510).
SiblingNamesDistinct ==
    \A o, p \in Objs :
        (o # p /\ definedIn[o] = definedIn[p] /\ definedIn[o] # NoObj)
            => CaseClass[name[o]] # CaseClass[name[p]]

\* A dependency is only ever held by and on a live object, and stands for a
\* reference its owner holds: a type in use cannot be destroyed, not even with
\* the container it is in (IRObject.h:105-109, IRObject.cc:87-127).
DependencySound ==
    \A x \in Servants : \A t \in deps[x] :
        IsActive(x) /\ IsActive(t) /\ t \in refs[x]

\* A reference without a dependency is one to an object that was destroyed
\* before the reference was stored: no other reference is ever left unguarded,
\* and none outlives its dependency (Dependency.h:112-137, 259-321).
UnresolvedMeansGone ==
    \A x \in Servants : \A t \in refs[x] \ deps[x] : life[t] = "gone"

\* A definition that is in use stays where it can be found: no request takes it
\* out of the containment tree while somebody who survives the request depends
\* on it, whether it is destroyed itself or goes with a container
\* (Container.cc:316-338, IRObject.cc:91-111).
UsedStaysDefined ==
    [][\A x \in Servants, t \in Objs :
        (t \in deps[x] /\ t \in deps'[x] /\ definedIn[t] # NoObj)
            => definedIn'[t] # NoObj]_vars

=============================================================================
