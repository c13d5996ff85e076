------------------------------ MODULE IfrCareful ------------------------------
(***************************************************************************)
(* The object graph under clients that keep to five rules the server does  *)
(* not enforce:                                                            *)
(*   - nothing is created in a container that cannot hold its kind;        *)
(*   - a container is emptied before it is destroyed, and the Repository   *)
(*     is never destroyed;                                                 *)
(*   - a container is not moved into itself or into something inside it;   *)
(*   - an alias, sequence or array is not made to refer back to itself     *)
(*     through others (a struct may hold a sequence of itself);            *)
(*   - types of other servers are not referred to.                         *)
(* These clients see the repository the documentation promises: the server *)
(* stays up, and everything ever created can be found until it is          *)
(* destroyed.  Each rule is necessary: the runs of IfrObjects break one.   *)
(***************************************************************************)
EXTENDS IfrObjects

\* The first rule, also when a setter call of the create_xxx() fails.
CarefulCreate(o) ==
    \E c \in Servants, k \in ContainedKinds \cap Kinds, i \in Ids, n \in Names :
        /\ k \in Containable(kind[c])
        /\ CreateContained(c, o, k, i, n) \/ CreateContainedDies(c, k, i, n, "typeLoop")

\* The second rule.
CarefulDestroy(o) == contents[o] = {} /\ (Destroy(o) \/ DestroyDies(o))

\* The third rule.
CarefulMove(o, c, n) ==
    c \notin ContainedObjectSet(o) /\ (Move(o, c, n) \/ MoveDies(o, c, n))

\* The fourth rule: o is in no chain that starts at what it comes to refer to.
CarefulSet(o) ==
    /\ SetReferences(o)
    /\ kind[o] \in DelegatingKinds => \A t \in refs'[o] : o \notin TypeChain(t)

CarefulNext ==
    \/ \E o \in Objs, k \in AnonymousKinds : CreateAnonymous(o, k)
    \/ \E o \in Objs : CarefulCreate(o) \/ CarefulSet(o) \/ SetNameDies(o)
                       \/ CarefulDestroy(o) \/ ReadDies(o)
    \/ \E k \in Kinds : SetReferencesDies(k, "typeLoop")
    \/ \E o \in Objs, i \in Ids : SetId(o, i) \/ SetIdDies(o, i)
    \/ \E o \in Objs, n \in Names : SetName(o, n)
    \/ \E o, c \in Objs, n \in Names : CarefulMove(o, c, n)

CarefulSpec == Init /\ [][CarefulNext]_vars

-----------------------------------------------------------------------------
(* The catalogue clients see: the definitions that are in a container.     *)

Defined == {o \in Objs : definedIn[o] # NoObj}
EntryOf(o) == [def |-> o, in |-> definedIn[o], name |-> name[o], id |-> id[o]]
Entries == {EntryOf(o) : o \in Defined}
Uses == UNION {{x} \X deps[x] : x \in Servants}

Abstract == INSTANCE IfrCatalogue WITH
    Definitions <- Objs,
    Users <- Servants,
    entries <- Entries,
    uses <- Uses

\* Every request is one change of the catalogue, or none: what init(), move(),
\* the setters and destroy() do to lists, maps, names and dependencies adds up to
\* what a repository promises (Contained.cc:57-308, IRObject.cc:87-127).
ImplementsCatalogue == Abstract!CatalogueSpec

-----------------------------------------------------------------------------

\* No request brings the server down: no assertion fails, no recursion is
\* endless, no NULL container is used.
NeverDies == crash = "no"

\* Every definition that was created and not destroyed is where a browser that
\* starts at the Repository and a client with its id find it.
NothingLost ==
    \A o \in Objs : (IsActive(o) /\ kind[o] \in ContainedKinds) =>
        o \in Below(Root) /\ idmap[id[o]] = o

\* A request changes what one definition says of itself, or takes that
\* definition away; what all the others say of themselves, and the ids and the
\* places they are found under, are as before.
OneAtATime ==
    [][\E o \in Objs : \A p \in Objs \ {o} :
        /\ life'[p] = life[p] /\ name'[p] = name[p] /\ refs'[p] = refs[p]
        /\ id'[p] = id[p] /\ definedIn'[p] = definedIn[p]
        /\ \A i \in Ids : idmap[i] = p <=> idmap'[i] = p]_vars

=============================================================================
