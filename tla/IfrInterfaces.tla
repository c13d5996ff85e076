---------------------------- MODULE IfrInterfaces ----------------------------
(***************************************************************************)
(* Inheritance between interfaces: base_interfaces(), the attributes and   *)
(* operations of each interface, and the checks that no interface gets two *)
(* of one name, its own or inherited.                                      *)
(*                                                                         *)
(* The interfaces may be in different modules, so two of them may have one *)
(* simple name.  Ids, types, and what else an interface contains are in    *)
(* IfrObjects; so is the crash of a destroy() that finds contents: here    *)
(* they are orphaned and take no further part.                             *)
(***************************************************************************)
EXTENDS Naturals, Sequences, FiniteSets, SequencesExt

CONSTANTS
    Interfaces,     \* InterfaceDefs clients can create
    InterfaceNames, \* their simple names
    Attributes, Operations, \* AttributeDefs, OperationDefs clients can create
    Identifiers,    \* names of attributes and operations: <<letter, case>>
    None,
    MaxBases        \* bound: direct bases of one interface, each given once

Members == Attributes \cup Operations

ASSUME InterfacesAssumption ==
    /\ Identifiers \subseteq (1..26) \X {"upper", "lower"}
    /\ None \notin Interfaces \cup InterfaceNames \cup Identifiers
    /\ Attributes \cap Operations = {}
    /\ IsFiniteSet(Interfaces)
    /\ MaxBases \in Nat

VARIABLES
    interfaces, \* those that were created and not destroyed
    name,       \* _name of each interface
    bases,      \* _base_interfaces
    owner,      \* the interface an attribute or operation is in
    member,     \* _name of each attribute and operation
    crash       \* "no", or the request that brought the server down

vars == <<interfaces, name, bases, owner, member, crash>>

\* Upper-case letters come before lower-case ones in the order of strings.
Letter(n) == n[1]
Code(n) == n[1] + (IF n[2] = "upper" THEN 64 ELSE 96)

Own(i) == {m \in Members : owner[m] = i}
OwnOf(S) == {m \in Members : owner[m] \in S}
NamesOf(M) == {member[m] : m \in M}

\* Everything an interface with the bases v inherits from, at any distance.
Through(v) ==
    LET closed == {S \in SUBSET Interfaces :
                    /\ Range(v) \subseteq S
                    /\ \A x \in S : Range(bases[x]) \subseteq S}
    IN {x \in Interfaces : \A S \in closed : x \in S}
Ancestors(i) == Through(bases[i])

-----------------------------------------------------------------------------
(* The checks.                                                             *)

\* interfaceSet(), one base of s.todo at a time: an interface that has the simple
\* name of another found before is passed over, and so is what it inherits.
Visit(s) ==
    IF s.todo = <<>> THEN s
    ELSE LET i == Head(s.todo)
         IN IF \E x \in s.found : name[x] = name[i]
            THEN [todo |-> Tail(s.todo), found |-> s.found]
            ELSE [todo |-> bases[i] \o Tail(s.todo), found |-> s.found \cup {i}]

\* The bases of v and those of an interface are looked at once at most.
InterfaceSet_DirectOnly(v) ==
    FoldLeft(LAMBDA found, i :
                IF \E x \in found : name[x] = name[i]
                THEN found ELSE found \cup {i}, {}, v)
InterfaceSet(v) ==
    LET walk[k \in Nat] ==
            IF k = 0 THEN [todo |-> v, found |-> {}] ELSE Visit(walk[k - 1])
    IN walk[MaxBases * (Cardinality(Interfaces) + 1)].found

\* What inheritedNameSet() looks at, and whether it finds no clash in it.
Inherited(v) == OwnOf(InterfaceSet(v))
InheritedNamesOk(v) ==
    \A m, o \in Inherited(v) : m # o => Letter(member[m]) # Letter(member[o])

\* set_intersection() of two sets ordered without regard to case - by a merge
\* that compares with regard to case.
First(N) == CHOOSE n \in N : \A o \in N : Letter(n) <= Letter(o)
Merge(s) ==
    IF s.a = {} \/ s.b = {} THEN s
    ELSE LET x == First(s.a)
             y == First(s.b)
         IN [a |-> IF Code(x) <= Code(y) THEN s.a \ {x} ELSE s.a,
             b |-> IF Code(y) <= Code(x) THEN s.b \ {y} ELSE s.b,
             both |-> IF Code(x) = Code(y) THEN s.both \cup {x} ELSE s.both]
Intersection(A, B) ==
    LET merged[k \in Nat] ==
            IF k = 0 THEN [a |-> A, b |-> B, both |-> {}] ELSE Merge(merged[k - 1])
    IN merged[Cardinality(A) + Cardinality(B)].both

\* base_interfaces(v) of an interface with the attributes and operations M; a
\* destroyed base cannot be asked for its name.
BasesAccepted_OwnUnchecked(M, v) ==
    Range(v) \subseteq interfaces /\ InheritedNamesOk(v)
BasesAccepted(M, v) ==
    /\ Range(v) \subseteq interfaces
    /\ InheritedNamesOk(v)
    /\ Intersection(NamesOf(Inherited(v)), NamesOf(M)) = {}

\* checkInheritedNameClash().
NoInheritedClash_ExactMatch(i, n) ==
    /\ InheritedNamesOk(bases[i])
    /\ n \notin NamesOf(Inherited(bases[i]))
NoInheritedClash(i, n) ==
    /\ InheritedNamesOk(bases[i])
    /\ \A m \in Inherited(bases[i]) : Letter(member[m]) # Letter(n)

\* lookupServant(v, false) of an interface finds nothing.
NameFree(i, n) == \A m \in Own(i) : Letter(member[m]) # Letter(n)

\* contents(limit_type, false): with dk_Operation the attributes of the bases
\* are added too, with dk_Attribute nothing is.
Contents(i, limit) ==
    IF limit = "Attribute" THEN Own(i) \cap Attributes
    ELSE (Own(i) \cap Operations) \cup OwnOf(Ancestors(i))

-----------------------------------------------------------------------------
(* Requests.                                                               *)

Running == crash = "no"
BaseLists == {v \in UNION {[1..k -> Interfaces] : k \in 0..MaxBases} : IsInjective(v)}

\* Dependency2::assign(), or clear() when v is empty.
StoreBases(i, v) == bases' = [bases EXCEPT ![i] = v]

\* create_interface(); a list of bases that is refused leaves nothing behind.
CreateInterface(i, n, v) ==
    /\ Running
    /\ i \notin interfaces
    /\ BasesAccepted({}, v)
    /\ interfaces' = interfaces \cup {i}
    /\ name' = [name EXCEPT ![i] = n]
    /\ StoreBases(i, v)
    /\ UNCHANGED <<owner, member, crash>>

\* base_interfaces(v).
SetBases(i, v) ==
    /\ Running
    /\ i \in interfaces
    /\ BasesAccepted(Own(i), v)
    /\ StoreBases(i, v)
    /\ UNCHANGED <<interfaces, name, owner, member, crash>>

\* create_attribute(), create_operation().
CreateMember(i, m, n) ==
    /\ Running
    /\ i \in interfaces
    /\ owner[m] = None
    /\ NoInheritedClash(i, n)
    /\ NameFree(i, n)
    /\ owner' = [owner EXCEPT ![m] = i]
    /\ member' = [member EXCEPT ![m] = n]
    /\ UNCHANGED <<interfaces, name, bases, crash>>

\* name(v) of an attribute or operation: inherited names are not looked at.
RenameMember(m, n) ==
    /\ Running
    /\ owner[m] # None
    /\ Letter(n) = Letter(member[m]) \/ NameFree(owner[m], n)
    /\ member' = [member EXCEPT ![m] = n]
    /\ UNCHANGED <<interfaces, name, bases, owner, crash>>

\* move() to another interface, perhaps under another name: the same.
MoveMember(m, i, n) ==
    /\ Running
    /\ owner[m] # None /\ i \in interfaces /\ i # owner[m]
    /\ NameFree(i, n)
    /\ owner' = [owner EXCEPT ![m] = i]
    /\ member' = [member EXCEPT ![m] = n]
    /\ UNCHANGED <<interfaces, name, bases, crash>>

DestroyMember(m) ==
    /\ Running
    /\ owner[m] # None
    /\ owner' = [owner EXCEPT ![m] = None]
    /\ member' = [member EXCEPT ![m] = None]
    /\ UNCHANGED <<interfaces, name, bases, crash>>

\* name(v) of an interface, or move() to another module.
RenameInterface(i, n) ==
    /\ Running
    /\ i \in interfaces
    /\ name' = [name EXCEPT ![i] = n]
    /\ UNCHANGED <<interfaces, bases, owner, member, crash>>

\* destroy() of an interface nobody inherits from, or only itself does.
Unused_FirstBaseOnly(i) ==
    \A j \in interfaces \ {i} : i \notin {bases[j][k] : k \in DOMAIN bases[j] \cap {1}}
Unused(i) == \A j \in interfaces \ {i} : i \notin Range(bases[j])
DestroyInterface(i) ==
    /\ Running
    /\ i \in interfaces
    /\ Unused(i)
    /\ interfaces' = interfaces \ {i}
    /\ name' = [name EXCEPT ![i] = None]
    /\ StoreBases(i, <<>>)
    /\ owner' = [m \in Members |-> IF m \in Own(i) THEN None ELSE owner[m]]
    /\ member' = [m \in Members |-> IF m \in Own(i) THEN None ELSE member[m]]
    /\ UNCHANGED crash

\* is_a(), contents(), describe_interface() of an interface that inherits from
\* itself do not end; describe_interface() takes everything contents() returns
\* for operations to be an operation.
ReadDies(i) ==
    /\ Running
    /\ i \in interfaces
    /\ \/ i \in Ancestors(i) \/ \E a \in Ancestors(i) : a \in Ancestors(a)
       \/ ~ Contents(i, "Operation") \subseteq Operations
    /\ crash' = "describe_interface"
    /\ UNCHANGED <<interfaces, name, bases, owner, member>>

Init ==
    /\ interfaces = {}
    /\ name = [i \in Interfaces |-> None]
    /\ bases = [i \in Interfaces |-> <<>>]
    /\ owner = [m \in Members |-> None]
    /\ member = [m \in Members |-> None]
    /\ crash = "no"

Next ==
    \/ \E i \in Interfaces, n \in InterfaceNames, v \in BaseLists :
        CreateInterface(i, n, v)
    \/ \E i \in Interfaces, v \in BaseLists : SetBases(i, v)
    \/ \E i \in Interfaces, m \in Members, n \in Identifiers : CreateMember(i, m, n)
    \/ \E m \in Members, n \in Identifiers : RenameMember(m, n)
    \/ \E m \in Members, i \in Interfaces, n \in Identifiers : MoveMember(m, i, n)
    \/ \E m \in Members : DestroyMember(m)
    \/ \E i \in Interfaces, n \in InterfaceNames : RenameInterface(i, n)
    \/ \E i \in Interfaces : DestroyInterface(i) \/ ReadDies(i)

Spec == Init /\ [][Next]_vars

-----------------------------------------------------------------------------
(* Properties.                                                             *)

\* An interface's bases are there as long as it is, and so are theirs: is_a() and
\* contents() never ask a destroyed interface (InterfaceDef.cc:55, 91, 105-111).
BasesExist ==
    /\ \A i \in Interfaces : Range(bases[i]) \subseteq interfaces
    /\ \A i \in interfaces : Ancestors(i) \subseteq interfaces

\* The simple names of interfaces tell them apart.
ToldApart(S) == \A a, b \in S : a # b => name[a] # name[b]

\* When a list of bases is accepted, no two things inherited through it, at any
\* distance, differ only in case - provided that no two of the interfaces looked
\* at have one simple name, for then one of them is passed over. They are those
\* the list led to before: more than is inherited now, if it led through the
\* interface itself and so through the bases it had (InterfaceDef.cc:391-451).
InheritedDistinct ==
    [][\A i \in Interfaces :
        (bases'[i] # bases[i] /\ ToldApart(Through(bases'[i]))) =>
            \A m, o \in OwnOf(Ancestors(i))' :
                m # o => Letter(member[m]) # Letter(member[o])]_vars

\* When a list of bases is accepted, nothing inherited has the name of something
\* the interface has itself, so that an interface with attributes or operations
\* never comes to inherit from itself - provided that the simple names of what is
\* inherited tell them apart, and as long as all names have one case (InterfaceDef.cc:48-92).
OwnKept ==
    [][\A i \in Interfaces :
        (/\ bases'[i] # bases[i] /\ ToldApart(Ancestors(i))'
         /\ \A m, o \in Members : owner[m] # None /\ owner[o] # None =>
                                    member[m][2] = member[o][2]) =>
            \A m \in Own(i), o \in OwnOf(Ancestors(i))' : member[m] # member[o]]_vars

\* An attribute or operation is never created under a name, in any case, that
\* the interface has or inherits at that moment, provided that the simple names
\* of what it inherits from tell them apart (InterfaceDef.cc:153-198, 373-388).
CreatedDistinct ==
    [][\A m \in Members, i \in Interfaces :
        (owner[m] = None /\ owner'[m] = i /\ ToldApart(Ancestors(i))) =>
            \A o \in OwnOf(Ancestors(i) \cup {i}) :
                Letter(member'[m]) # Letter(member[o])]_vars

=============================================================================
