------------------------------- MODULE IfrTypes -------------------------------
(***************************************************************************)
(* The TypeCodes of definitions: what type() computes on demand, what a    *)
(* setter computes once and keeps, and the checks a setter makes with them *)
(* - the labels of a union against its discriminator, the value of a       *)
(* constant against its type, the rules for oneway operations - while the  *)
(* aliases they were made with are retargeted behind their back.           *)
(*                                                                         *)
(* All definitions exist from the start, as their create_xxx() leaves them *)
(* when it is given no members; names, ids and containers are in           *)
(* IfrObjects.  A request that is refused changes nothing and is a         *)
(* stuttering step, but for one (SetResultHalf).                           *)
(***************************************************************************)
EXTENDS Naturals, Sequences, FiniteSets

CONSTANTS
    Primitives,     \* kinds of PrimitiveDef, some of "void", "short", ...
    Links,          \* definitions of a kind in LinkKinds
    Holders,        \* definitions of a kind in HolderKinds
    LinkKinds, HolderKinds,
    CaseClass,      \* names with the same class differ only in case
    MemberLists,    \* lists of members clients set, without their types
    Values,         \* TypeCodes of the values clients give a constant
    ClientTypes,    \* TypeCodes clients ask the canonical form of
    MemberChoices,  \* typed members the rule for union members is tried on
    None,
    MaxNesting,     \* bound: TypeCodes within TypeCodes, when one is kept
    MaxMembers      \* bound: lists the rule for union members is tried on

Defs == Links \cup Holders

ASSUME TypesAssumption ==
    /\ Primitives \subseteq
        {"void", "octet", "short", "long", "boolean", "string", "any"}
    /\ {"void", "short"} \subseteq Primitives
    /\ LinkKinds \subseteq {"Alias", "Sequence", "Exception"}
    /\ HolderKinds \subseteq
        {"Struct", "Union", "Enum", "Constant", "Operation", "Attribute"}
    /\ Links \cap Holders = {} /\ None \notin Defs \cup Primitives
    /\ Defs \cap Primitives = {} /\ IsFiniteSet(Defs)
    /\ \A v \in MemberLists : \A i \in DOMAIN v :
        v[i] = [name |-> v[i].name, label |-> v[i].label, def |-> v[i].def,
                type |-> v[i].type, mode |-> v[i].mode]
    /\ MaxNesting \in Nat /\ MaxMembers \in Nat

-----------------------------------------------------------------------------
(* TypeCodes.                                                              *)

\* A TypeCode: its TCKind, the definition its repository id names, and the
\* TypeCodes it is made of (content; or members; or discriminator, members).
\* stripped is what equivalent() compares: aliases do not count, and an id
\* stands for what it names.
TC(k, i, ps) ==
    LET own == [kind |-> k, id |-> i,
                parts |-> IF i # None THEN <<>>
                          ELSE [j \in DOMAIN ps |-> ps[j].stripped]]
        deepest == CHOOSE n \in {ps[j].nesting : j \in DOMAIN ps} :
                        \A j \in DOMAIN ps : ps[j].nesting <= n
    IN [kind |-> k, id |-> i, parts |-> ps,
        stripped |-> IF k = "Alias" THEN ps[1].stripped ELSE own,
        nesting |-> IF ps = <<>> THEN 0 ELSE 1 + deepest]
NullType == TC("null", None, <<>>)

\* TypeCode::equivalent(), and the kind left when aliases are stripped out.
Equivalent(tc1, tc2) == tc1.stripped = tc2.stripped
UnaliasedKind(tc) == tc.stripped.kind

\* An octet is an octet.
ASSUME LabelsAssumption ==
    \A c \in MemberChoices :
        c.label.type.kind = "octet" => UnaliasedKind(c.label.type) = "octet"

DiscriminatorKinds == {"short", "long", "boolean", "Enum"}
ConstantKinds == {"octet", "short", "long", "boolean", "string"}

-----------------------------------------------------------------------------

VARIABLES
    kind,       \* def_kind()
    live,       \* definitions that were not destroyed
    typeDef,    \* _original_type_def, _element_type_def, _type_def,
                \* _discriminator_type_def or _result_def
    members,    \* _members, _params
    value,      \* the TypeCode of _value, or _result
    mode,       \* OperationDef_impl::_mode
    exceptions, \* OperationDef_impl::_exceptions
    described   \* OperationDef_impl::_excDescriptionSeq

vars == <<kind, live, typeDef, members, value, mode, exceptions, described>>

Refs == Primitives \cup Defs
\* Kinds with the IDLType interface, and those whose type() asks another's.
IDLTypeKinds == {"Alias", "Sequence", "Struct", "Union", "Enum"}
DelegatingKinds == {"Alias", "Sequence", "Union"}

\* References to types a client can hold.
TypeRefs == Primitives \cup {d \in Defs : kind[d] \in IDLTypeKinds}

Delegates(t) == t \in live /\ kind[t] \in DelegatingKinds

\* The definitions type() goes through - the least set that holds t and, with
\* a definition, what it delegates to - and whether it ends with a TypeCode.
Chain(t) ==
    LET closed == {S \in SUBSET Defs :
                    /\ t \in Defs => t \in S
                    /\ \A x \in S : Delegates(x) /\ typeDef[x] \in Defs =>
                                        typeDef[x] \in S}
    IN {x \in Defs : \A S \in closed : x \in S}
HasType(t) == t \in Refs /\ Chain(t) \subseteq live

\* type() of a definition of kind k with the members ms, given that of the one
\* it refers to.
TypeGiven(t, k, ms, asked) ==
    IF t \in Primitives THEN TC(t, None, <<>>)
    ELSE LET kept == [i \in DOMAIN ms |-> ms[i].type]
         IN CASE k = "Alias"    -> TC("Alias", t, <<asked>>)
              [] k = "Sequence" -> TC("Sequence", None, <<asked>>)
              [] k = "Union"    -> TC("Union", t, <<asked>> \o kept)
              [] k = "Enum"     -> TC("Enum", t, <<>>)
              [] OTHER          -> TC(k, t, kept)

\* type() of what is behind a reference, which goes through at most n others.
\* No definition delegates to itself (Retarget), so no chain is longer than
\* there are definitions.
Types(kinds, refs, lists) ==
    LET types[n \in Nat] ==
            [t \in Refs |->
                TypeGiven(t, kinds[t], lists[t],
                          IF n = 0 THEN NullType ELSE types[n - 1][refs[t]])]
    IN types
\* The ORB is taken to make a TypeCode of any parts; of labels that no longer fit
\* their discriminator it may refuse to (UnionDef.cc:190-195).
TypeOf(t) == Types(kind, typeDef, members)[Cardinality(Defs)][t]

\* Definitions that hold a resolved reference to d.
Users_ByMembersOnly(d) ==
    {x \in live : \E i \in DOMAIN members[x] : members[x][i].def = d}
Users(d) ==
    {x \in live : \/ typeDef[x] = d
                  \/ \E i \in DOMAIN members[x] : members[x][i].def = d
                  \/ d \in exceptions[x]}

-----------------------------------------------------------------------------
(* The checks of the setters.                                              *)

\* Dependency3::check(), EnumDef_impl::members().
NamesDistinct(v) ==
    \A i, j \in DOMAIN v : i # j => CaseClass[v[i].name] # CaseClass[v[j].name]

\* Octet zero, the label of the default member.
IsDefault(label) == label.type.kind = "octet" /\ label.val = 0
SameLabel(l, m) == Equivalent(l.type, m.type) /\ l.val = m.val

\* UnionDef_impl::members(): the label of member i, against those before it.
LabelAccepted(v, i, disc) ==
    \/ IsDefault(v[i].label)
    \/ /\ Equivalent(v[i].label.type, disc)
       /\ \A j \in 1..i - 1 : ~ SameLabel(v[i].label, v[j].label)

\* Its name, against those before it, going back: once one differs, no earlier
\* member may have the name.
NameAccepted_AnyEarlier(v, i) ==
    \A k \in 1..i - 1 :
        /\ CaseClass[v[k].name] = CaseClass[v[i].name] => v[k].name = v[i].name
        /\ v[k].name = v[i].name => v[k].type = v[i].type
NameAccepted(v, i) ==
    \A k \in 1..i - 1 :
        /\ CaseClass[v[k].name] = CaseClass[v[i].name] => v[k].name = v[i].name
        /\ v[k].name = v[i].name =>
            /\ \A m \in k + 1..i - 1 : CaseClass[v[m].name] = CaseClass[v[i].name]
            /\ v[k].type = v[i].type

UnionAccepted(v, disc) ==
    \A i \in DOMAIN v : LabelAccepted(v, i, disc) /\ NameAccepted(v, i)

\* checkOneway(), which compares kind() and so does not look through an alias.
IsVoid_Unaliased(t) == UnaliasedKind(TypeOf(t)) = "void"
IsVoid(t) == TypeOf(t).kind = "void"
OnewayAccepted(m, params, result) ==
    m = "oneway" =>
        /\ HasType(result) /\ IsVoid(result)
        /\ \A i \in DOMAIN params : params[i].mode = "in"

\* Each member's type is set from its type_def; all of them must answer.  A
\* definition inside itself nests deeper each time its members are set.
AllTyped(v) ==
    \A i \in DOMAIN v :
        HasType(v[i].def) /\ TypeOf(v[i].def).nesting <= MaxNesting
Typed_AsSent(v) == v
Typed(v) == [i \in DOMAIN v |-> [v[i] EXCEPT !.type = TypeOf(v[i].def)]]

\* Every list of members as a client can send it: types are references it
\* holds, which may be stale.
Sent == {v \in MemberLists : \A i \in DOMAIN v : v[i].def \in TypeRefs}

-----------------------------------------------------------------------------
(* Requests.  o is the definition that is asked.                           *)

Asked(o, k) == o \in live /\ kind[o] = k

\* original_type_def(v), element_type_def(v), type_def(v) of an attribute:
\* nothing is asked of v.  That v leads back to o is for IfrObjects.
Retarget(o, t) ==
    /\ o \in live /\ kind[o] \in {"Alias", "Sequence", "Attribute"}
    /\ t \in TypeRefs /\ o \notin Chain(t)
    /\ typeDef' = [typeDef EXCEPT ![o] = t]
    /\ UNCHANGED <<kind, live, members, value, mode, exceptions, described>>

\* members(v) of a struct or an exception.
SetMembers(o, v) ==
    /\ Asked(o, "Struct") \/ Asked(o, "Exception")
    /\ AllTyped(v) /\ NamesDistinct(v)
    /\ members' = [members EXCEPT ![o] = Typed(v)]
    /\ UNCHANGED <<kind, live, typeDef, value, mode, exceptions, described>>

\* members(v) of an enum: names only.
SetEnumerators(o, v) ==
    /\ Asked(o, "Enum")
    /\ NamesDistinct(v)
    /\ members' = [members EXCEPT ![o] =
                    [i \in DOMAIN v |-> [v[i] EXCEPT !.def = None]]]
    /\ UNCHANGED <<kind, live, typeDef, value, mode, exceptions, described>>

\* discriminator_type_def(v): the members go if the type of v is not that of
\* the definition that was referred to before, as it is now.
MembersKept_Always(o, t) == members[o]
MembersKept(o, t) ==
    IF Equivalent(TypeOf(t), TypeOf(typeDef[o])) THEN members[o] ELSE <<>>
SetDiscriminator(o, t) ==
    /\ Asked(o, "Union")
    /\ t \in TypeRefs /\ o \notin Chain(t)
    /\ HasType(t) /\ UnaliasedKind(TypeOf(t)) \in DiscriminatorKinds
    /\ HasType(typeDef[o])
    /\ typeDef' = [typeDef EXCEPT ![o] = t]
    /\ members' = [members EXCEPT ![o] = MembersKept(o, t)]
    /\ UNCHANGED <<kind, live, value, mode, exceptions, described>>

\* members(v) of a union.
SetUnionMembers(o, v) ==
    /\ Asked(o, "Union")
    /\ HasType(typeDef[o]) /\ AllTyped(v)
    /\ UnionAccepted(Typed(v), TypeOf(typeDef[o]))
    /\ members' = [members EXCEPT ![o] = Typed(v)]
    /\ UNCHANGED <<kind, live, typeDef, value, mode, exceptions, described>>

\* type_def(v) of a constant: the value goes if its own type is not that of v.
ValueKept_ByDefinition(o, t) ==
    IF HasType(typeDef[o]) /\ Equivalent(TypeOf(t), TypeOf(typeDef[o]))
    THEN value[o] ELSE NullType
ValueKept(o, t) ==
    IF Equivalent(TypeOf(t), value[o]) THEN value[o] ELSE NullType
SetConstantType(o, t) ==
    /\ Asked(o, "Constant")
    /\ t \in TypeRefs
    /\ HasType(t) /\ UnaliasedKind(TypeOf(t)) \in ConstantKinds
    /\ typeDef' = [typeDef EXCEPT ![o] = t]
    /\ value' = [value EXCEPT ![o] = ValueKept(o, t)]
    /\ UNCHANGED <<kind, live, members, mode, exceptions, described>>

\* value(v).
SetValue(o, tc) ==
    /\ Asked(o, "Constant")
    /\ HasType(typeDef[o]) /\ Equivalent(TypeOf(typeDef[o]), tc)
    /\ value' = [value EXCEPT ![o] = tc]
    /\ UNCHANGED <<kind, live, typeDef, members, mode, exceptions, described>>

\* result_def(v).
SetResult(o, t) ==
    /\ Asked(o, "Operation")
    /\ t \in TypeRefs /\ HasType(t)
    /\ OnewayAccepted(mode[o], members[o], t)
    /\ typeDef' = [typeDef EXCEPT ![o] = t]
    /\ value' = [value EXCEPT ![o] = TypeOf(t)]
    /\ UNCHANGED <<kind, live, members, mode, exceptions, described>>

\* The same for a v that has no type, when nothing has asked it before: the
\* reference is stored, and then the exception leaves _result as it was.
SetResultHalf(o, t) ==
    /\ Asked(o, "Operation")
    /\ t \in TypeRefs /\ ~ HasType(t)
    /\ OnewayAccepted(mode[o], members[o], t)
    /\ typeDef' = [typeDef EXCEPT ![o] = t]
    /\ UNCHANGED <<kind, live, members, value, mode, exceptions, described>>

\* params(v), whose types stay as they were sent.
SetParams(o, v) ==
    /\ Asked(o, "Operation")
    /\ OnewayAccepted(mode[o], v, typeDef[o])
    /\ NamesDistinct(v)
    /\ members' = [members EXCEPT ![o] = v]
    /\ UNCHANGED <<kind, live, typeDef, value, mode, exceptions, described>>

\* mode(v).
SetMode(o, m) ==
    /\ Asked(o, "Operation")
    /\ OnewayAccepted(m, members[o], typeDef[o])
    /\ mode' = [mode EXCEPT ![o] = m]
    /\ UNCHANGED <<kind, live, typeDef, members, value, exceptions, described>>

\* exceptions(v): each is described before the references are stored.
SetExceptions(o, E) ==
    /\ Asked(o, "Operation")
    /\ E \subseteq {x \in live : kind[x] = "Exception"}
    /\ exceptions' = [exceptions EXCEPT ![o] = E]
    /\ described' = [described EXCEPT ![o] = {TypeOf(x) : x \in E}]
    /\ UNCHANGED <<kind, live, typeDef, members, value, mode>>

\* destroy() of a definition nothing but itself depends on.
Destroy(o) ==
    /\ o \in live /\ Users(o) \subseteq {o}
    /\ live' = live \ {o}
    /\ typeDef' = [typeDef EXCEPT ![o] = None]
    /\ members' = [members EXCEPT ![o] = <<>>]
    /\ exceptions' = [exceptions EXCEPT ![o] = {}]
    /\ UNCHANGED <<kind, value, mode, described>>

-----------------------------------------------------------------------------

\* Definitions that exist: each refers to a primitive type, and has no members.
Init ==
    /\ kind \in {k \in [Defs -> LinkKinds \cup HolderKinds] :
                    /\ \A d \in Links : k[d] \in LinkKinds
                    /\ \A d \in Holders : k[d] \in HolderKinds}
    /\ live = Defs
    /\ typeDef = [d \in Defs |->
                    IF kind[d] \in {"Alias", "Sequence", "Union", "Constant",
                                    "Attribute"} THEN "short"
                    ELSE IF kind[d] = "Operation" THEN "void" ELSE None]
    /\ members = [d \in Defs |-> <<>>]
    /\ value = [d \in Defs |->
                    IF kind[d] = "Constant" THEN TypeOf("short")
                    ELSE IF kind[d] = "Operation" THEN TypeOf("void")
                    ELSE NullType]
    /\ mode = [d \in Defs |-> "normal"]
    /\ exceptions = [d \in Defs |-> {}]
    /\ described = [d \in Defs |-> {}]

Next ==
    \/ \E o \in Defs, t \in Refs :
        Retarget(o, t) \/ SetDiscriminator(o, t) \/ SetConstantType(o, t)
        \/ SetResult(o, t) \/ SetResultHalf(o, t)
    \/ \E o \in Defs, v \in Sent :
        SetMembers(o, v) \/ SetEnumerators(o, v) \/ SetUnionMembers(o, v)
        \/ SetParams(o, v)
    \/ \E o \in Defs, tc \in Values : SetValue(o, tc)
    \/ \E o \in Defs, m \in {"normal", "oneway"} : SetMode(o, m)
    \/ \E o \in Defs, E \in SUBSET Links : SetExceptions(o, E)
    \/ \E o \in Defs : Destroy(o)

Spec == Init /\ [][Next]_vars

-----------------------------------------------------------------------------
(* Properties.                                                             *)

TypeOK ==
    /\ kind \in [Defs -> LinkKinds \cup HolderKinds]
    /\ live \subseteq Defs
    /\ typeDef \in [Defs -> Refs \cup {None}]
    /\ \A d \in Defs : \A i \in DOMAIN members[d] :
        /\ members[d][i].def \in Refs \cup {None}
        /\ kind[d] \in {"Struct", "Exception", "Union"} =>
            members[d][i].type.kind # "null"
    /\ mode \in [Defs -> {"normal", "oneway"}]
    /\ exceptions \in [Defs -> SUBSET Links]

\* A oneway operation returns void - by its reference, by the TypeCode it kept,
\* and whatever aliases come to mean - and all its parameters are "in", however
\* its mode, result and parameters came to meet (OperationDef.cc:45-124,
\* 190-213).
OnewayLegal ==
    \A o \in live : (kind[o] = "Operation" /\ mode[o] = "oneway") =>
        /\ typeDef[o] = "void" /\ value[o].kind = "void"
        /\ \A i \in DOMAIN members[o] : members[o][i].mode = "in"

\* What a list of union members must be: names that differ only in case are one
\* name, the members with it follow one another and have one type; labels are
\* of the discriminator's type and distinct, but for those of the default.
WellFormed(v, disc) ==
    /\ \A c \in {CaseClass[v[i].name] : i \in DOMAIN v} :
        \E first, last \in DOMAIN v :
            /\ \A i \in DOMAIN v :
                (CaseClass[v[i].name] = c) <=> (i \in first..last)
            /\ \A i \in first..last :
                v[i].name = v[first].name /\ v[i].type = v[first].type
    /\ LET labelled == {i \in DOMAIN v : ~ IsDefault(v[i].label)} IN
        /\ \A i \in labelled : Equivalent(v[i].label.type, disc)
        /\ \A i, j \in labelled : i # j => v[i].label.val # v[j].label.val

\* The loops of UnionDef_impl::members() accept exactly the well-formed lists
\* (UnionDef.cc:109-184): a fact about lists of up to MaxMembers typed members,
\* the same in every state, evaluated where runs of a union begin.
UnionRule ==
    (Init /\ \E u \in Holders : kind[u] = "Union") =>
    \A n \in 0..MaxMembers : \A v \in [1..n -> MemberChoices],
                              p \in Primitives \cap DiscriminatorKinds :
        UnionAccepted(v, TC(p, None, <<>>)) <=> WellFormed(v, TC(p, None, <<>>))

\* The labels of a union have its discriminator's type, the value of a constant
\* has the constant's type.
Fits(o) ==
    /\ HasType(typeDef[o])
    /\ kind[o] = "Union" =>
        \A i \in DOMAIN members[o] :
            \/ IsDefault(members[o][i].label)
            \/ Equivalent(members[o][i].label.type, TypeOf(typeDef[o]))
    /\ kind[o] = "Constant" =>
        value[o] = NullType \/ Equivalent(value[o], TypeOf(typeDef[o]))

\* Labels and values stop to fit in one way only: an alias on the way to the
\* type of their union or constant is given another type.  No setter of the
\* union or constant itself, and no destruction, makes them stale
\* (UnionDef.cc:68-79, ConstantDef.cc:78-84).
StaleOnlyByRetarget ==
    [][\A o \in live \cap live' :
        (kind[o] \in {"Union", "Constant"} /\ Fits(o) /\ ~ Fits(o)') =>
            \E a \in (Chain(typeDef[o]) \cap Defs) \ {o} :
                typeDef'[a] # typeDef[a]]_vars

\* A stale value does not survive the next call: whatever happened to aliases
\* before, a change of a constant's type or value leaves a value of its type or
\* none (ConstantDef.cc:44-113).  The same is not true of a union's labels.
RepairedBySetting ==
    [][\A o \in live \cap live' :
        (kind[o] = "Constant" /\ (typeDef'[o] # typeDef[o] \/ value'[o] # value[o]))
            => Fits(o)']_vars

\* A definition that has a type loses it only when one that its type is made
\* from is given another reference: never because one was destroyed
\* (Dependency.h:100-137, IRObject.cc:91-111).
TypeLostOnlyByRetarget ==
    [][\A o \in live \cap live' :
        (Delegates(o) /\ HasType(o) /\ ~ HasType(o)') =>
            \E a \in Chain(o) \cap live' : typeDef'[a] # typeDef[a]]_vars

=============================================================================
