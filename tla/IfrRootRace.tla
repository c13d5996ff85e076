----------------------------- MODULE IfrRootRace -----------------------------
(***************************************************************************)
(* Requests in steps.  All definitions are served by the POA "IRpoa" under *)
(* the SINGLE_THREAD_MODEL: one request at a time.  The Repository is not: *)
(* it is activated in omniINSPOA, whose requests run in any number of      *)
(* threads and take no lock, beside each other and beside the request that *)
(* IRpoa is serving.  Contained_impl::init(), which checks the name, then  *)
(* the id, then registers the id, then joins the container, was written as *)
(* if no other request could come between.                                 *)
(*                                                                         *)
(* A step reads or writes one shared structure, and is atomic here.  Names *)
(* are compared exactly; IfrObjects has the comparison without case.       *)
(***************************************************************************)
EXTENDS Naturals, Sequences, FiniteSets, SequencesExt

CONSTANTS
    Threads,    \* ORB threads that serve requests
    Modules,    \* ModuleDefs that exist and stay
    Root,       \* the Repository
    Defs,       \* definitions that requests can create
    Names, Ids,
    None        \* no thread, definition, name or id

Containers == Modules \cup {Root}

ASSUME RaceAssumption ==
    /\ Root \notin Modules \cup Defs
    /\ None \notin Threads \cup Defs \cup Names \cup Ids \cup Containers

VARIABLES
    pc,         \* what each thread does next
    job,        \* the request each thread serves
    served,     \* the thread that is in IRpoa
    members,    \* Container_impl::_contents, a list
    name, id,   \* _name and _id of each definition
    idmap,      \* Repository_impl::_idmap
    died        \* an assertion failed

vars == <<pc, job, served, members, name, id, idmap, died>>
store == <<members, name, id, idmap>>

NoJob == [at |-> None, def |-> None, name |-> None, id |-> None]
Jobs == [at : Containers \cup {None}, def : Defs \cup {None},
         name : Names \cup {None}, id : Ids \cup {None}]

InList(c, d) == \E k \in DOMAIN members[c] : members[c][k] = d
\* Where find_if() finds it.
FirstIn(c, d) ==
    CHOOSE k \in DOMAIN members[c] :
        members[c][k] = d /\ \A j \in 1..k - 1 : members[c][j] # d
\* lookupServant(v, false) finds nothing.
NameFree(c, n) == \A k \in DOMAIN members[c] : name[members[c][k]] # n

\* A definition no thread has in hand and no container holds is not there.
InHand(d) == \E t \in Threads : job[t].def = d
Exists(d) == \E c \in Containers : InList(c, d)

-----------------------------------------------------------------------------

\* A request on the Repository starts at once; one on a definition when IRpoa
\* is free.
Admitted_AnyThread(t, c) == ~ died /\ pc[t] = "idle" /\ served' = served
Admitted(t, c) ==
    /\ ~ died
    /\ pc[t] = "idle"
    /\ IF c = Root THEN served' = served ELSE served = None /\ served' = t

\* The request returns, with or without an exception.
Return_LockKept(t) ==
    /\ pc' = [pc EXCEPT ![t] = "idle"]
    /\ job' = [job EXCEPT ![t] = NoJob]
    /\ served' = IF served = t /\ pc[t] # "name" THEN None ELSE served
Return(t) ==
    /\ pc' = [pc EXCEPT ![t] = "idle"]
    /\ job' = [job EXCEPT ![t] = NoJob]
    /\ served' = IF served = t THEN None ELSE served

Goto(t, place) ==
    /\ pc' = [pc EXCEPT ![t] = place]
    /\ UNCHANGED <<job, served>>

\* An assertion fails.
Dies == died' = TRUE /\ UNCHANGED <<pc, job, served>>

At(t, place) == ~ died /\ pc[t] = place

\* create_xxx() on container c.
BeginCreate(t, c, d, n, i) ==
    /\ Admitted(t, c)
    /\ ~ Exists(d) /\ ~ InHand(d)
    /\ pc' = [pc EXCEPT ![t] = "name"]
    /\ job' = [job EXCEPT ![t] = [at |-> c, def |-> d, name |-> n, id |-> i]]
    /\ UNCHANGED <<store, died>>

\* init(): name(v).
CheckName(t) ==
    /\ At(t, "name")
    /\ IF NameFree(job[t].at, job[t].name)
       THEN /\ name' = [name EXCEPT ![job[t].def] = job[t].name]
            /\ Goto(t, "id")
       ELSE Return(t) /\ name' = name
    /\ UNCHANGED <<members, id, idmap, died>>

\* init(): id(v), the check.
CheckId(t) ==
    /\ At(t, "id")
    /\ IF idmap[job[t].id] = None THEN Goto(t, "addId") ELSE Return(t)
    /\ UNCHANGED <<store, died>>

\* init(): id(v), addId() with its assertion.
AddId_NoAssertion(t) ==
    /\ At(t, "addId")
    /\ id' = [id EXCEPT ![job[t].def] = job[t].id]
    /\ idmap' = [idmap EXCEPT ![job[t].id] = job[t].def]
    /\ Goto(t, "contain") /\ died' = died
    /\ UNCHANGED <<members, name>>
AddId(t) ==
    /\ At(t, "addId")
    /\ IF idmap[job[t].id] = None
       THEN /\ id' = [id EXCEPT ![job[t].def] = job[t].id]
            /\ idmap' = [idmap EXCEPT ![job[t].id] = job[t].def]
            /\ Goto(t, "contain") /\ died' = died
       ELSE Dies /\ UNCHANGED <<id, idmap>>
    /\ UNCHANGED <<members, name>>

\* init(): addContained(), with its assertion.
AddContained(t) ==
    /\ At(t, "contain")
    /\ IF InList(job[t].at, job[t].def)
       THEN Dies /\ members' = members
       ELSE /\ members' = [members EXCEPT ![job[t].at] = Append(@, job[t].def)]
            /\ Return(t) /\ died' = died
    /\ UNCHANGED <<name, id, idmap>>

\* name(v) on a definition d of container c.
BeginRename(t, c, d, n) ==
    /\ Admitted(t, d)
    /\ InList(c, d) /\ name[d] # n
    /\ pc' = [pc EXCEPT ![t] = "rename"]
    /\ job' = [job EXCEPT ![t] = [at |-> c, def |-> d, name |-> n, id |-> None]]
    /\ UNCHANGED <<store, died>>

CheckRename(t) ==
    /\ At(t, "rename")
    /\ IF NameFree(job[t].at, job[t].name) THEN Goto(t, "setName") ELSE Return(t)
    /\ UNCHANGED <<store, died>>

SetName(t) ==
    /\ At(t, "setName")
    /\ name' = [name EXCEPT ![job[t].def] = job[t].name]
    /\ Return(t)
    /\ UNCHANGED <<members, id, idmap, died>>

\* destroy() of a definition without contents: uncheckedDestroy() takes it out
\* of its container, then its id out of the map, and asserts that each is there.
BeginDestroy(t, c, d) ==
    /\ Admitted(t, d)
    /\ InList(c, d)
    /\ pc' = [pc EXCEPT ![t] = "unlink"]
    /\ job' = [job EXCEPT ![t] = [at |-> c, def |-> d, name |-> None,
                                  id |-> None]]
    /\ UNCHANGED <<store, died>>

RemoveContained(t) ==
    /\ At(t, "unlink")
    /\ IF InList(job[t].at, job[t].def)
       THEN /\ members' = [members EXCEPT ![job[t].at] =
                            RemoveAt(@, FirstIn(job[t].at, job[t].def))]
            /\ Goto(t, "removeId") /\ died' = died
       ELSE Dies /\ members' = members
    /\ UNCHANGED <<name, id, idmap>>

RemoveId(t) ==
    LET i == id[job[t].def] IN
    /\ At(t, "removeId")
    /\ IF idmap[i] # None
       THEN /\ idmap' = [idmap EXCEPT ![i] = None]
            /\ Return(t) /\ died' = died
       ELSE Dies /\ idmap' = idmap
    /\ UNCHANGED <<members, name, id>>

Init ==
    /\ pc = [t \in Threads |-> "idle"]
    /\ job = [t \in Threads |-> NoJob]
    /\ served = None
    /\ members = [c \in Containers |-> <<>>]
    /\ name = [d \in Defs |-> None]
    /\ id = [d \in Defs |-> None]
    /\ idmap = [i \in Ids |-> None]
    /\ died = FALSE

Step(t) ==
    \/ CheckName(t)
    \/ CheckId(t)
    \/ AddId(t)
    \/ AddContained(t)
    \/ CheckRename(t)
    \/ SetName(t)
    \/ RemoveContained(t)
    \/ RemoveId(t)

Next ==
    \E t \in Threads :
        \/ \E c \in Containers, d \in Defs, n \in Names, i \in Ids :
            BeginCreate(t, c, d, n, i)
        \/ \E c \in Containers, d \in Defs, n \in Names : BeginRename(t, c, d, n)
        \/ \E c \in Containers, d \in Defs : BeginDestroy(t, c, d)
        \/ Step(t)

\* The operating system runs every thread that serves a request.
Spec == Init /\ [][Next]_vars /\ \A t \in Threads : WF_vars(Step(t))

-----------------------------------------------------------------------------
(* Properties.                                                             *)

\* In a container served by IRpoa, two definitions never have one name, also
\* while requests on the Repository run beside (Repository.cc:580-589).
DistinctBelowRoot ==
    \A c \in Modules : \A j, k \in DOMAIN members[c] :
        j # k => name[members[c][j]] # name[members[c][k]]

\* Whatever runs beside it, a definition that is in a container is the one
\* lookup_id() finds under its id; and what lookup_id() finds is in a container
\* or in the hands of the request that creates or destroys it.
Registered ==
    /\ \A c \in Containers : \A k \in DOMAIN members[c] :
        idmap[id[members[c][k]]] = members[c][k]
    /\ \A i \in Ids : idmap[i] # None => Exists(idmap[i]) \/ InHand(idmap[i])

\* Two requests never take the same definition out of its container, or out of
\* the id map, and none puts one where it is: of the assertions on the way only
\* addId()'s can fail (Repository.cc:498-510, Container.cc:516-518, 549-557).
OnlyAddIdAsserts == [][died' # died => \E t \in Threads : AddId(t)]_vars

\* No request keeps IRpoa from the next one for ever, refused ones included,
\* unless the process dies.
IRpoaFreed == served # None ~> (served = None \/ died)

\* Container.cc:507-510: "Precondition: We know that the contained->name is not
\* already in use by this container".
NameNotInUse ==
    \A t \in Threads : pc[t] = "contain" => NameFree(job[t].at, job[t].name)

=============================================================================
