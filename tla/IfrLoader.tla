------------------------------ MODULE IfrLoader ------------------------------
(***************************************************************************)
(* The omniidl back-end (src/backend/ifr.py): a client that enters the     *)
(* declarations of an IDL file in the Repository.  It looks each of them   *)
(* up, creates it or brings it up to date, and goes on to what is inside.  *)
(* Each call of the server is a request of IfrObjects.  A loader exits at  *)
(* the first thing it does not expect, and takes nothing back; it can be   *)
(* killed at any moment; several can work at once.                         *)
(*                                                                         *)
(* A file is the sequence of its visits, in the visitor's order: records   *)
(*   [visit |-> "declare" | "again" | "forward" | "typedef" | "end",       *)
(*    kind, scope, name, id, type |-> [path, wrapped]]                     *)
(* where the scope is the absolute name of what is open, "again" is a      *)
(* further declarator of one attribute declaration, "end" closes what was  *)
(* opened last, and the type, which for a struct or exception stands at    *)
(* its "end", is a primitive one (path <<>>), a name in the file, or an    *)
(* anonymous sequence of one of these (wrapped).  The lookup of a typedef  *)
(* is a visit of its own, for the struct or enum that is declared inside   *)
(* the typedef is visited between it and the rest.                         *)
(* Operations and unions are visited like constants and structs.  No load  *)
(* gets past a union that is declared forward or a native type, which are  *)
(* in no file here, nor past a constant of an enum type                    *)
(* (ConstantDef.cc:56-89), which is in files here.                         *)
(***************************************************************************)
EXTENDS IfrCareful, IfrReads, SequencesExt

CONSTANTS
    Loaders,    \* runs of omniidl that are at work at the same time
    Files,      \* valid IDL files; versions of one file are different files
    MaxLoads    \* bound: loads begun in one run of the server

Openers == {"Module", "Interface", "Struct", "Exception"}
Opens(v) == v.visit = "declare" /\ v.kind \in Openers
\* The absolute name of what a visit is about, and of what is open after it.
PathOf(v) == IF v.visit = "end" THEN v.scope ELSE Append(v.scope, v.name)
ScopeAfter(v) ==
    IF v.visit = "end" THEN Front(v.scope) ELSE IF Opens(v) THEN PathOf(v) ELSE v.scope

\* What the front end of omniidl has checked before it calls the back-end.
TypedVisit(v) ==
    /\ v.visit \in {"declare", "again", "forward", "typedef", "end"}
    /\ v.kind \in ContainedKinds \cap Kinds
    /\ v.scope \in Seq(Names) /\ v.type.path \in Seq(Names)
    /\ v.visit # "end" => v.name \in Names /\ v.id \in Ids
    /\ v.visit = "again" => v.kind = "Attribute"
    /\ v.visit = "forward" => v.kind \in {"Struct", "Interface"}
    /\ v.visit = "typedef" => v.kind = "Alias"
    /\ v.kind = "Constant" => ~ v.type.wrapped
\* A scope is the one the visits before left open, and can hold the kind.
WellNested(f) ==
    /\ f[1].scope = <<>>
    /\ \A i \in DOMAIN f : i + 1 \in DOMAIN f => f[i + 1].scope = ScopeAfter(f[i])
    /\ \A i \in DOMAIN f :
        IF f[i].scope = <<>>
        THEN f[i].visit # "end" /\ f[i].kind \in Containable("Repository")
        ELSE \E j \in 1..(i - 1) :
            /\ Opens(f[j]) /\ PathOf(f[j]) = f[i].scope
            /\ IF f[i].visit = "end" THEN f[i].kind = f[j].kind
               ELSE f[i].kind \in Containable(f[j].kind)
\* Names of one scope differ by more than case, and ids differ.  What is visited
\* twice is a module, was declared forward, or is a type that is declared inside
\* a typedef or a member, which is visited for each declarator.
DeclaredOnce(f) ==
    \A i, j \in {i \in DOMAIN f : f[i].visit # "end"} :
        \/ f[i].scope = f[j].scope /\ CaseClass[f[i].name] = CaseClass[f[j].name]
        \/ f[i].id = f[j].id
        => /\ PathOf(f[i]) = PathOf(f[j])
           /\ f[i].kind = f[j].kind /\ f[i].id = f[j].id
           /\ \/ i = j \/ f[i].kind \in {"Module", "Struct", "Enum"}
              \/ f[i].visit # f[j].visit /\ {"forward", "typedef"} \cap {f[i].visit, f[j].visit} # {}
SameEachTime(f) ==
    \A i, j \in DOMAIN f :
        (f[i].visit = f[j].visit /\ PathOf(f[i]) = PathOf(f[j])) => f[i].type = f[j].type
TypesDeclared(f) ==
    \A i \in DOMAIN f : f[i].type.path # <<>> =>
        \E j \in 1..(i - 1) :
            /\ f[j].visit \notin {"typedef", "end"} /\ PathOf(f[j]) = f[i].type.path
            /\ f[j].kind \in IDLTypeKinds
\* Visit i looks up the typedef that visit j makes.
Typedef(f, i, j) ==
    /\ i < j /\ f[i].visit = "typedef" /\ f[j].visit = "declare"
    /\ PathOf(f[i]) = PathOf(f[j])
    /\ \A k \in (i + 1)..(j - 1) :
        f[k].visit \in {"declare", "end"} /\ f[k].kind \in {"Struct", "Enum"}
TypedefsWhole(f) ==
    /\ \A i \in DOMAIN f : f[i].visit = "typedef" => \E j \in DOMAIN f : Typedef(f, i, j)
    /\ \A j \in DOMAIN f : (f[j].visit = "declare" /\ f[j].kind = "Alias") =>
            \E i \in DOMAIN f : Typedef(f, i, j)
OneTypeEach(f) ==
    \A i \in DOMAIN f : f[i].visit = "again" =>
        /\ i > 1 /\ f[i - 1].visit \in {"declare", "again"}
        /\ f[i - 1].kind = f[i].kind /\ f[i - 1].type = f[i].type

ASSUME LoaderAssumption ==
    /\ MaxLoads \in Nat
    /\ \A f \in Files :
        /\ Len(f) \in Nat \ {0} /\ DOMAIN f = 1..Len(f)
        /\ \A i \in DOMAIN f : TypedVisit(f[i])
        /\ WellNested(f) /\ DeclaredOnce(f) /\ SameEachTime(f)
        /\ TypesDeclared(f) /\ TypedefsWhole(f) /\ OneTypeEach(f)

VARIABLES
    loader,     \* each loader: what it visits, and IfrVisitor's state
    begun       \* the files whose load was ever begun, and how many loads

allVars == <<vars, loader, begun>>

\* Kinds that get their type when they are created.
TypedAtOnce == {"Constant", "Attribute", "Alias"}
\* visitStruct() and visitException() visit the members, then set them.
TypedAtEnd == {"Struct", "Exception"}

Idle == [status |-> "idle"]
AtWork(l) == loader[l].status = "running"
Current(l) == loader[l].file[loader[l].at]
Container(l) == Last(loader[l].stack)
In(l, phase) == loader[l].status = "running" /\ loader[l].phase = phase

FirstPhase(v) ==
    IF v.visit = "end" THEN (IF v.kind \in TypedAtEnd THEN "type" ELSE "pop")
    ELSE IF v.visit = "declare" /\ v.kind \in TypedAtOnce THEN "type"
    ELSE "find"

\* What the loader does next is p.
GoOn(l, p) == loader' = [loader EXCEPT ![l].phase = p]

\* The visits up to n are over.
GoPast(l, n, stack) ==
    LET L == loader[l] IN
    loader' = [loader EXCEPT ![l] =
                IF n = Len(L.file) THEN [L EXCEPT !.status = "done"]
                ELSE [L EXCEPT !.at = n + 1, !.stack = stack,
                               !.phase = FirstPhase(L.file[n + 1])]]

\* The visit is over, and o, which it found or made, is pushed if it is opened.
NextVisit(l, o) ==
    LET L == loader[l]
        v == Current(l)
    IN GoPast(l, L.at, IF v.visit = "end" THEN Front(L.stack)
                       ELSE IF Opens(v) THEN Append(L.stack, o) ELSE L.stack)

\* A typedef that is there is left as it is, and what is declared inside it is
\* not visited at all.
LeaveTypedef(l) ==
    LET L == loader[l] IN
    GoPast(l, CHOOSE j \in DOMAIN L.file : Typedef(L.file, L.at, j), L.stack)

\* sys.exit(1), or an exception nothing catches.
Exits(l) == loader' = [loader EXCEPT ![l].status = "failed"]
Fails(l) == Exits(l) /\ UNCHANGED vars

\* The servant the server makes next; an object id tells it from all others.
New == CHOOSE o \in Objs : life[o] = "unborn"
SomeNew == \E o \in Objs : life[o] = "unborn"

-----------------------------------------------------------------------------
(* Steps: each has one call of the server, or none.                        *)

\* omniidl is started with file f.
Begin(l, f) ==
    /\ ~ AtWork(l)
    /\ begun.loads < MaxLoads
    /\ begun' = [files |-> begun.files \cup {f}, loads |-> begun.loads + 1]
    /\ loader' = [k \in Loaders |->
                    IF k = l THEN
                        [status |-> "running", file |-> f, at |-> 1,
                         phase |-> FirstPhase(f[1]), stack |-> <<Root>>,
                         found |-> NoObj, resultType |-> NoObj,
                         before |-> {o \in Objs : IsActive(o)},
                         met |-> UNION {{loader[j].file} \cup loader[j].met :
                                            j \in {j \in Loaders \ {l} : AtWork(j)}}]
                    ELSE IF AtWork(k) THEN [loader[k] EXCEPT !.met = @ \cup {f}]
                    ELSE loader[k]]
    /\ UNCHANGED vars

\* What comes after the type of v.
AfterType(v) ==
    IF v.visit = "end" THEN "refs" ELSE IF v.kind = "Alias" THEN "make" ELSE "find"

\* visitDeclaredType(): the absolute name must lead to an IDLType.  initValue() of
\* a constant asks it for its type().
TypeNamed(path) == IF path = <<>> THEN Prim ELSE Lookup(Root, path)
ResolveType(l) ==
    LET v == Current(l)
        t == TypeNamed(v.type.path)
        found == t # NoObj /\ kind[t] \in IDLTypeKinds
        asked == found /\ v.kind = "Constant"
    IN /\ In(l, "type")
       /\ \/ ~ found /\ Fails(l)
          \/ asked /\ TypeOutcome(t) = "exception" /\ Fails(l)
          \/ asked /\ TypeOutcome(t) = "endless" /\ Dies("typeLoop") /\ Exits(l)
          \/ /\ found /\ (asked => TypeOutcome(t) = "typecode")
             /\ loader' = [loader EXCEPT
                            ![l].resultType = t,
                            ![l].phase = IF v.type.wrapped THEN "wrap" ELSE AfterType(v)]
             /\ UNCHANGED vars

\* visitSequenceType(): a new anonymous type, each time.
WrapType(l) ==
    /\ In(l, "wrap") /\ SomeNew
    /\ CreateAnonymous(New, "Sequence")
    /\ refs'[New] = {loader[l].resultType}
    /\ loader' = [loader EXCEPT ![l].resultType = New,
                                ![l].phase = AfterType(Current(l))]

\* addToContainer(), visitTypedef() and visitForward(): lookup() in the
\* container.  An alias that is there is left as it is, whatever its type; so
\* is whatever has the name of a forward declaration.  The assertion in
\* create() fails if an earlier declarator set ref.
Expected_Anything(v, x) == TRUE
Expected_ModulesClosed(v, x) == kind[x] = v.kind /\ v.kind # "Module"
Expected(v, x) == kind[x] = v.kind
LeftAlone == {"forward", "typedef"}
Find(l) ==
    LET v == Current(l)
        x == Lookup(Container(l), <<v.name>>)
    IN /\ In(l, "find")
       /\ UNCHANGED vars
       /\ IF x = NoObj THEN
            IF v.visit = "again" THEN Exits(l)
            ELSE IF v.visit = "typedef" THEN NextVisit(l, x)
            ELSE GoOn(l, "make")
          ELSE IF v.visit # "forward" /\ ~ Expected(v, x) THEN Exits(l)
          ELSE IF v.visit \notin LeftAlone THEN
            loader' = [loader EXCEPT ![l].found = x, ![l].phase = "id"]
          ELSE IF v.visit = "typedef" THEN LeaveTypedef(l)
          ELSE NextVisit(l, x)

\* What becomes of a call that gives a type without end to an object of kind k,
\* and of one that gives a type the setter does not take.
Loops(k, t) == k \in CheckedKinds /\ TypeOutcome(t) = "endless"
Throws(k, t) == ~ Accepted(k, t) /\ ~ Loops(k, t)

\* create_xxx(), with no members yet where they can be set later.  A container
\* that cannot hold the kind, or a type without end, ends the server.
FirstRefs(l) == IF Current(l).kind \in TypedAtOnce THEN {loader[l].resultType} ELSE {}
MakeRefused(l) ==
    LET v == Current(l) IN
    \/ ~ NameFree(Container(l), v.name)
    \/ idmap[v.id] # NoObj
    \/ \E t \in FirstRefs(l) : Throws(v.kind, t)
Make(l) ==
    LET v == Current(l) IN
    /\ In(l, "make")
    /\ \/ MakeRefused(l) /\ Fails(l)
       \/ /\ SomeNew
          /\ CreateContained(Container(l), New, v.kind, v.id, v.name)
          /\ refs'[New] = FirstRefs(l)
          /\ NextVisit(l, New)
       \/ \E site \in {"initRemoveId", "typeLoop"} :
            /\ CreateContainedDies(Container(l), v.kind, v.id, v.name, site)
            /\ site = "typeLoop" => \E t \in FirstRefs(l) : Loops(v.kind, t)
            /\ Exits(l)

\* setRef(): _set_id(), and for what has its type at once _set_type_def().
UpdateId(l) ==
    LET v == Current(l)
        o == loader[l].found
        goOn == IF v.kind \in TypedAtOnce THEN GoOn(l, "refs") ELSE NextVisit(l, o)
    IN /\ In(l, "id")
       /\ \/ id[o] = v.id /\ goOn /\ UNCHANGED vars
          \/ SetId(o, v.id) /\ goOn
          \/ id[o] # v.id /\ idmap[v.id] # NoObj /\ Fails(l)
          \/ SetIdDies(o, v.id) /\ Exits(l)

\* _set_type_def() of what was found, _set_members() of what is being closed.
UpdateTarget(l) == IF Current(l).visit = "end" THEN Container(l) ELSE loader[l].found
UpdateRefs(l) ==
    LET o == UpdateTarget(l) IN
    /\ In(l, "refs")
    /\ \/ /\ SetReferences(o) /\ refs'[o] = {loader[l].resultType}
          /\ NextVisit(l, o)
       \/ Throws(kind[o], loader[l].resultType) /\ Fails(l)
       \/ /\ MayChange /\ Loops(kind[o], loader[l].resultType)
          /\ Dies("typeLoop") /\ Exits(l)

\* The end of a module or interface: pop().
Pop(l) == In(l, "pop") /\ NextVisit(l, NoObj) /\ UNCHANGED vars

\* The process is killed.
Kill(l) ==
    /\ AtWork(l)
    /\ loader' = [loader EXCEPT ![l].status = "killed"]
    /\ UNCHANGED vars

-----------------------------------------------------------------------------

LoaderInit ==
    /\ Init
    /\ loader = [l \in Loaders |-> Idle]
    /\ begun = [files |-> {}, loads |-> 0]

LoaderStep(l) ==
    \/ ResolveType(l) \/ WrapType(l) \/ Find(l) \/ Make(l) \/ UpdateId(l)
    \/ UpdateRefs(l) \/ Pop(l) \/ Kill(l)

LoaderNext ==
    \/ \E l \in Loaders, f \in Files : Begin(l, f)
    \/ \E l \in Loaders : LoaderStep(l) /\ UNCHANGED begun

LoaderSpec == LoaderInit /\ [][LoaderNext]_allVars

-----------------------------------------------------------------------------
(* Properties.                                                             *)

\* Reference t stands for the type of visit v.
Denotes(t, v) ==
    IF v.type.wrapped THEN kind[t] = "Sequence" /\ refs[t] = {TypeNamed(v.type.path)}
    ELSE t = TypeNamed(v.type.path)

\* What visit i declares is in the Repository.
Entered(f, i, before) ==
    LET v == f[i]
        o == Lookup(Root, PathOf(v))
        typed == IF v.visit = "end" THEN v.kind \in TypedAtEnd
                 ELSE v.visit # "typedef" /\ v.kind \in TypedAtOnce
    IN /\ o # NoObj
       /\ v.visit # "forward" => kind[o] = v.kind
       /\ ~ (v.kind = "Alias" /\ o \in before) =>
            /\ v.visit \in {"declare", "again"} => id[o] = v.id
            /\ typed => \E t \in refs[o] : refs[o] = {t} /\ Denotes(t, v)

\* Visit i is inside a typedef that was there.
LeftOut(f, i, before) ==
    \E a, j \in DOMAIN f :
        /\ Typedef(f, a, j) /\ a < i /\ i < j
        /\ Lookup(Root, PathOf(f[a])) \in before

\* A load that ends well leaves every declaration of its file where it belongs,
\* with its kind, its id and its types - whatever other versions were loaded
\* before, however many loads were killed or failed half-way, and whoever loads
\* the same file at the same time.  The exceptions: typedefs that were there
\* before and what is declared inside them (ifr.py:595-611), and loads that meet
\* another version, or one that has.
LoadedAsDeclared ==
    [][\A l \in Loaders :
        LET L == loader[l] IN
        (AtWork(l) /\ loader'[l].status = "done" /\ L.met \subseteq {L.file}) =>
            \A i \in DOMAIN L.file :
                (LeftOut(L.file, i, L.before) \/ Entered(L.file, i, L.before))']_allVars

\* Something left by an earlier load is in the way of visit v.
InTheWay(v, c, before) ==
    \/ v.visit # "end" /\ \E x \in contents[c] \cap before :
        CaseClass[name[x]] = CaseClass[v.name] /\ (name[x] # v.name \/ kind[x] # v.kind)
    \/ v.visit # "end" /\ \E x \in before : idmap[v.id] = x /\ x \notin Child(c, v.name)
    \/ \E x \in before : x = TypeNamed(v.type.path) /\ kind[x] \notin IDLTypeKinds
    \/ /\ TypeNamed(v.type.path) # NoObj
       /\ \E x \in before : kind[x] = "Alias" /\ x \in TypeChain(TypeNamed(v.type.path))

\* The type of visit i is missing, for it is declared inside a typedef that was
\* there, and only there.
TypeLeftOut(f, i, before) ==
    /\ TypeNamed(f[i].type.path) = NoObj
    /\ \A j \in 1..(i - 1) :
        (f[j].visit \notin {"typedef", "end"} /\ PathOf(f[j]) = f[i].type.path) => LeftOut(f, j, before)

\* The type of visit i is a basic one, or the aliases of the file lead to one.
OfBasicType(f, i) ==
    \E basic \in SUBSET DOMAIN f :
        /\ i \in basic
        /\ \A j \in basic :
            /\ ~ f[j].type.wrapped
            /\ \/ f[j].type.path = <<>>
               \/ \E k \in basic : /\ k < j /\ f[k].visit = "declare" /\ f[k].kind = "Alias"
                                   /\ PathOf(f[k]) = f[j].type.path
\* Visit i fails wherever it is made: a further declarator of an attribute
\* (ifr.py:277), or a constant of another type than a basic one - by the grammar
\* an enum (ConstantDef.cc:56-89).
NeverLoaded(f, i) ==
    f[i].visit = "again" \/ (f[i].kind = "Constant" /\ ~ OfBasicType(f, i))

\* A load that nobody disturbs fails for the first thing an earlier load left in
\* its way - a name, an id, the old meaning of a typedef or of a name that is
\* declared forward, a typedef with a type inside - or for a declaration the
\* back-end cannot enter; never because of anything else its own file declared,
\* nor of a load of the same file that was killed half-way (ifr.py:57-63, 97-102,
\* 277, 733-743).
FailsForAReason ==
    [][\A l \in Loaders :
        LET L == loader[l] IN
        (AtWork(l) /\ loader'[l].status = "failed" /\ L.met = {}) =>
            \/ NeverLoaded(L.file, L.at)
            \/ TypeLeftOut(L.file, L.at, L.before)
            \/ InTheWay(Current(l), Container(l), L.before)]_allVars

\* Of several loads of one file that can be loaded at all, begun at any time in an
\* empty Repository, not all fail: each failure is another one's success.
SomeoneGetsThrough ==
    (/\ Loaded = {}
     /\ \E f \in Files : begun.files = {f} /\ \A i \in DOMAIN f : ~ NeverLoaded(f, i))
        => \E l \in Loaders : loader[l].status \in {"running", "done", "killed"}

\* CarefulCreate(o) with its parameters read off the step.
CarefullyCreated(o) ==
    /\ definedIn'[o] \in Servants /\ name'[o] \in Names /\ id'[o] \in Ids
    /\ kind'[o] \in Containable(kind[definedIn'[o]])
    /\ CreateContained(definedIn'[o], o, kind'[o], id'[o], name'[o])
CarefulRequest ==
    \/ UNCHANGED vars
    \/ \E o \in Objs : life'[o] # life[o] /\ CarefullyCreated(o)
    \/ \E o \in Objs : life'[o] # life[o] /\ CreateAnonymous(o, "Sequence")
    \/ \E o \in Objs : refs'[o] # refs[o] /\ CarefulSet(o)
    \/ \E o \in Objs, i \in Ids : SetId(o, i)

\* Loaders are careful clients: any number of them, at any speed, loading any
\* versions in any order, send only requests that CarefulNext allows, so they
\* never bring the server down or lose a definition.  In particular the typedefs
\* of two versions never come to refer to each other (ifr.py:595-611).
LoadersAreCareful == [][CarefulRequest]_vars

=============================================================================
