# A TLA+ verification of omniIFR

omniIFR is a CORBA Interface Repository: a server that holds IDL definitions
(modules, interfaces, structs, constants, ...) as CORBA objects, lets clients
create, change, look up and destroy them, and saves them to a file. This
directory models the server in TLA+, checks it with TLC on small instances and
proves its central invariants with TLAPS for instances of any size.

File and line references are to the repository; without a directory they are to
`src/repository/`.

## 1. Inventory

| Part | State | Operations | Meets the others through |
|---|---|---|---|
| `IRObject_impl` (IRObject) | `_dependencies`, `_activated` | `destroy`, `depend`/`undepend`, (de)activation | base class of every servant |
| `Contained_impl` (Contained.cc) | `_id`, `_name`, `_version`, `_index`, `_defined_in`, `_absolute_name` | `init`, `id`, `name`, `version`, `move`, `uncheckedDestroy` | its container's list, the Repository's id map |
| `Container_impl` (Container.cc) | `_contents` (a list) | `create_xxx`, `lookup*`, `contents`, `describe_contents`, `addContained`, `removeContained`, `recreate` | calls `init`, `uncheckedDestroy` of its contents |
| Dependencies (Dependency.h) | a reference and the servant found for it | `assign`, `clear`, `set` | `depend`/`undepend` of the target |
| Types (StructDef.cc ... FixedDef.cc) | references to other types | setters, `type` | Dependencies |
| `UnionDef_impl` | discriminator, members | setters, label algorithm | Dependencies |
| `InterfaceDef_impl`, Attribute, Operation | base interfaces, members | `base_interfaces`, `create_attribute`, ... | containment, Dependencies |
| `Repository_impl` (Repository.cc) | `_idmap`, `_anonymous`, `_primitives`, `_poa` | `create_string` ..., `lookup_id`, `reincarnate`, `output` | singleton used by all |
| POAs (Repository.cc:388-417, 568-601) | object maps, threads | dispatch of requests | `IRpoa` one at a time, `omniINSPOA` many at once |
| Persistence (Persist, PersistNode) | an output stream; the parsed tree | `startup`, `checkpoint` | `output` and `reincarnate` of every class |
| Daemon (daemon_unix.cc, main.cc) | pidfile, pipe, flags | `daemonize`, `runningOk`, `shutdown`, signal handlers | starts the Repository, calls `checkpoint` |
| `ifr.py` (src/backend) | none | visits an IDL tree, creates or updates definitions | a client |
| Browser, build files, Windows daemon | | | not modelled |

What is hard here:

- **Long call sequences.** Definitions are renamed, moved and destroyed with
  everything inside them, and three structures (containment lists, id map,
  dependencies) must agree after every sequence. Destroying a container leaves
  its contents *active in the POA* but in no container ("orphans"); what they do
  later is part of the model.
- **Partial failure.** `init()` and `move()` change state before the last check
  that can refuse them.
- **Crash and restart.** The file is truncated by the first checkpoint of a
  process and appended to by the later ones.
- **Concurrency.** Definitions are served one at a time, the Repository itself
  by any number of threads, and a checkpoint walks over everything in a signal
  handler, without a lock.
- **Process start-up.** fork, a pipe, a pidfile shared by invocations, exit
  handlers and a destructor that both report a status.

`PROJECT.json` lists each hazard with its line and the properties that cover it.

Correctness, by part:

- *Object graph*: the id map leads only to live objects with that id; lists and
  `_defined_in` agree; siblings differ by more than case.
- *Dependencies*: a type in use stays where it can be found.
- *Names*: a scoped name leads to the definition whose containers spell it, and
  an absolute name goes stale in known ways only.
- *Types*: labels, values and oneway operations stay legal whatever is set in
  whatever order; an alias changed behind their back is the only exception.
- *Loader*: a load that ends well entered its file, whatever was there before.
- *Persistence*: a checkpoint misses nothing; what it wrote comes back; what else comes back is
  known exactly.
- *Scheduling*: a race on the Repository cannot damage what is below it.
- *Daemon*: the invoking command returns, a reported failure is a failure, and a
  refused start disturbs nobody.

## 2. The modules

| Module | Models | Used by |
|---|---|---|
| `IfrObjects` | the object graph; one action per request | `IfrReads`, `IfrCareful` and what extends them |
| `IfrObjectsProofs` | its inductive invariant and seven theorems; three about reads | `IfrCarefulProofs` |
| `IfrReads` | what clients read of the graph: scoped and absolute names | `IfrLookupName`, `IfrLoader` |
| `IfrLookupName` | `lookup_name()` and `contents()` | |
| `IfrCatalogue` | the abstract repository: entries and uses | `IfrCareful` |
| `IfrCareful` | the graph under clients that keep five rules; implements `IfrCatalogue` | `IfrPersistence`, `IfrLoader` |
| `IfrCarefulProofs` | that they are enough, and the refinement | `IfrPersistenceProofs` |
| `IfrPersistence` | IfrCareful + the file, checkpoints, crashes, restarts | |
| `IfrPersistenceProofs` | its inductive invariant and five theorems; EXTENDS `IfrCarefulProofs` | |
| `IfrLoader` | IfrCareful + `ifr.py`: several clients that enter IDL files | |
| `IfrLoaderProofs` | its inductive invariants and eight theorems; EXTENDS `IfrCarefulProofs` | |
| `IfrTypes` | TypeCodes, members, labels, values, oneway rules | `IfrCanonical` |
| `IfrTypesProofs` | its inductive invariant and six theorems | |
| `IfrCanonical` | `get_canonical_typecode()` | |
| `IfrInterfaces` | inheritance: bases, members, name checks | |
| `IfrInterfacesProofs` | that what is inherited from exists, and what the name checks guarantee | |
| `IfrRootRace` | create, rename and destroy in steps, several threads | |
| `IfrRootRaceProofs` | its inductive invariant and four theorems | |
| `IfrDaemon` | starting and stopping server processes | |
| `IfrDaemonProofs` | its inductive invariant and two theorems | |
| `MCxxx` | values of the constants for TLC | the runs |

### IfrObjects

State corresponds to members of the C++ classes, named in the declaration of
each variable. `life` is the POA's object map: "active" servants receive
requests, "gone" ones are deactivated. `refs` are the object references a
definition stores, `deps` those whose servant was found, i.e. its `Dependency`
objects. `crash` records where a request brought the process down; nothing
happens afterwards. A request that throws and changes nothing is a stuttering
step, so it has no action; one whose exception leaves a change behind has one.

| Action | Code |
|---|---|
| `CreateContained`, `CreateContainedDies` | `create_xxx()`, Container.cc:155-261, with `init()`, the setter, `Creche` and activation |
| `CreateAnonymous` | Repository.cc:299-349 |
| `SetReferences`, `SetReferencesDies` | the type setters: AliasDef.cc, StructDef.cc, ExceptionDef.cc, ConstantDef.cc, SequenceDef.cc, ArrayDef.cc, with Dependency.h |
| `SetId`, `SetIdDies` | Contained.cc:106-129 |
| `SetName`, `SetNameDies` | Contained.cc:136-173 |
| `Move`, `MoveDies` | Contained.cc:222-295 |
| `Destroy`, `DestroyDies`, `DestroyRepository` | IRObject.cc:87-127 and `uncheckedDestroy()` |
| `ReadDies` | reads that fail an assertion or never return |

`Container_impl::uncheckedDestroy()` (Container.cc:449-458) walks a list while
each visited child erases its own node, and then advances through the erased
node. That is undefined behaviour. The model has two outcomes: every child is
visited (`Destroy`), or the process dies (`DestroyDies`). A walk that goes on
through unrelated memory is not modelled.

The type of a struct or exception is computed when its members are set
(StructDef.cc:35-62), so only aliases, sequences and arrays pass `type()` on;
`TypeOutcome` is how such a chain ends.

Abstractions: `contents` is a set, and the order of the list is `index`; a
struct's members are the set of their types, because the names of the members
and their order matter to none of the properties; interfaces are containers
and types, attributes are what refers to a type inside one; versions are added in
`IfrPersistence`. A type setter of an alias, sequence, array or attribute stores
any reference; the others ask for its `type()` first (`CheckedKinds`).

### IfrReads, IfrLookupName

Pure operators on the state of `IfrObjects`. `Lookup` is `lookup()`, component by
component and case included: `Step` is one component, looked up in what those
before it led to. `Child` is a set because the code takes the first match of a
list; `SiblingNamesDistinct` makes it at most one. `Chains` says what a scoped
name should lead to, with no reference to how it is looked up. `LookupName` of
`IfrLookupName` keeps the precedence of `&&` and `||` in the code's test
(Container.cc:99-100) and the way `levels_to_search` is counted down: `Found` is
the code's recursion, as a function on the number of levels left. With -1 the
code goes on until the containers end; the model counts as many levels as there
are definitions, which is the same unless a container is inside itself, and then
the code never returns.

### IfrCareful

The server does not enforce five rules its documentation takes for granted:
nothing is created where it cannot be contained, a container is emptied before
it is destroyed, a container is not moved into itself, a type does not refer to
itself, no reference is to another server. `IfrCareful` restricts the actions of
`IfrObjects` accordingly and keeps every "dies" action the rules leave possible,
so that `NeverDies` says that the rules are *sufficient*. The actions of
`IfrObjects` that the rules exclude show that each is needed.

### IfrCatalogue

The promise behind it all, without lists, maps or servants: a catalogue of
entries (definition, container, name, id), and who uses whom. `Enter`, `Amend`,
`Withdraw` and `Use` change one entry at a time; places, names and ids are
unique, containers never contain each other, and nothing is withdrawn while it
contains something or is used. The refinement mapping (end of `IfrCareful`):
an entry is what a definition in a container says of itself, and the uses are
the `Dependency` objects. That `_contents`, `_idmap` and the object map say the
same is not in the mapping; it is what `ContainmentSound`, `IdmapSound` and
`NothingLost` add.

### IfrPersistence

`file` is the tree `PersistNode` builds from the records, as a function from
paths to attributes: adding a record is `AddNode`, the code's `addnode()`.
Reading the file record by record and appending records one by one give the same
tree, so a checkpoint updates the tree directly. `opened` is "this process has
opened the stream": when it is false the checkpoint starts from an empty file.

A checkpoint is a walk, `walk`: the iterators of the nested loops in `output()`
and `outputContents()`, as the path from the Repository to where they stand.
Each step writes one record, and any request may be served before the next.
`After` is the iterator's `++`: the lists are sorted by position number, so where
it goes is known even when the list has changed. What is moved into a list goes
in front of all that have its number (Container.cc:526-533), so it is not met
when an iterator stands on one of those: `walk.past` remembers that. Otherwise,
of two definitions with one number either may come first. A definition that was moved or destroyed while an
iterator stands on it leaves the iterator in freed memory: the walk is then
stuck and only `Stop` can follow; so it is when a request has brought the
process down (`Running`). `Stop` during a walk is also the crash in a
checkpoint, after any number of complete records; a record cut in the middle is
not modelled.

| Action | Code |
|---|---|
| `BeginCheckpoint` | the handler of SIGUSR2 and `Persist::outstream()` |
| `WriteAnonymous` | the first loop of `Repository_impl::output()`, a set sorted by address |
| `WriteFirst` | `outputContents()` of the definition just written |
| `WriteNext` | the loops that have ended are left, the innermost other one goes on |
| `EndCheckpoint` | the handler returns |

`Restart` is `reincarnate()`: recreate all
servants, then restore their references; `Clash` are the exceptions that end it,
`SharedOid` the case in which a servant could not be activated. A server that
was refused or has twins does nothing more in the model. `saved` is a history
variable: what the last checkpoint wrote, or `Unknown` when what it wrote was
changed again before it ended, and the file is a mixture. `walk.due` is history
too, but for the anonymous types, whose loop it ends: what was there when the
checkpoint began, is not written yet, and has not changed its name, id, place or
life since, nor has anything it is in.

`MadeByInterface`, `NilReference` and `Relink` are `reincarnate()` of the classes
where it matters: an interface recreates its attributes itself, a constant or
alias whose only reference was nil makes the start fail, and references are
stored without the checks of a setter. `PersistenceAssumption` says that the
attributes of a leaf are not those of a branch and that no identifier of IDL is
an object id.

### IfrLoader

`src/backend/ifr.py`, one load per omniidl process, one call of the server per
step, on top of `IfrObjects`: look a name up, create what is not there or bring
it up to date, go inside. A file is the sequence of its visits, in the visitor's
order, each with the scope it is in; the stack is `IfrVisitor.stack`. A loader
exits at the first kind it does not expect and at the first exception, undoes
nothing, and can be killed at any step (`Kill`); others can work at the same time.

The back-end is called with a tree that the front end of omniidl has checked, and
`LoaderAssumption` says what that means for the visits: scopes are opened and
closed in order (`WellNested`), what two visits of one name or id are about is one
declaration (`DeclaredOnce`) with one type (`SameEachTime`), types are declared
before they are used (`TypesDeclared`), a typedef is looked up and then made, with
nothing between but what is declared inside it (`TypedefsWhole`), and all declarators
of an attribute declaration have one type (`OneTypeEach`). It says nothing of what the
back-end cannot enter: a further declarator of an attribute, and a constant of an enum
type, which ConstantDef.cc:56-89 always refuses. Both are valid IDL, both are in files
of the run, and `NeverLoaded` names them. Unions declared forward and native types,
which no load gets past either, are in no file here.
TLC evaluates `LoaderAssumption` on the files of the run. `Make`, `UpdateId` and `UpdateRefs`
keep the calls that end the server; that loaders never make one is proved, and not
built in.

| Action | Code |
|---|---|
| `ResolveType`, `WrapType` | `visitDeclaredType()`, `visitSequenceType()` |
| `Find` | `addToContainer()`, and the lookups of `visitTypedef()`, `visitForward()` |
| `Make` | `create()` of each wrapper |
| `UpdateId`, `UpdateRefs` | `setRef()` and `setMembers()` |
| `Pop` | the end of a module or interface |

A typedef that is there is left as it is, and what is declared inside it is not
visited (ifr.py:598-603). Its lookup is therefore a visit of its own ("typedef"),
then come the visits of the struct or enum inside it, if there is one, and then the
visit that resolves its type and makes it; `LeaveTypedef` goes past all of them.
Whatever else has a type has resolved it before it is looked up, and a
constant asks that type for its TypeCode at once (`initValue()`).

### IfrTypes, IfrCanonical

What the object graph leaves out of types. A TypeCode is a record with a kind,
the definition its id stands for, and parts; what `TypeCode::equivalent()`
compares of it is a field of its own (`stripped`), so that `Equivalent` is an
equality. `type()` of aliases, sequences and
unions is computed when it is asked for (`TypeOf`, a function on the number of
definitions it goes through, which are `Chain`); the types of members, the result of an
operation and the value of a constant are *kept* from the moment they were set.
All definitions exist from the start, as `create_xxx()` leaves them without
members, and are destroyed for good; names and containers are in `IfrObjects`.

| Action | Code |
|---|---|
| `Retarget` | AliasDef.cc:35-39, SequenceDef.cc, AttributeDef.cc:41-45 |
| `SetMembers`, `SetEnumerators` | StructDef.cc:35-62, ExceptionDef.cc:42-65, EnumDef.cc:35-53 |
| `SetDiscriminator`, `SetUnionMembers` | UnionDef.cc:43-88, 95-188 |
| `SetConstantType`, `SetValue` | ConstantDef.cc:44-113 |
| `SetResult`, `SetResultHalf`, `SetParams`, `SetMode`, `SetExceptions` | OperationDef.cc:45-124 |
| `Destroy` | IRObject.cc:87-127, `uncheckedDestroy()` |

`SetResultHalf` is the setter that stores a reference and then throws
(OperationDef.cc:50-51). `CanonicalForm` is `get_canonical_typecode()`; it changes
nothing, and is checked on TypeCodes in which known and unknown definitions
contain each other. It goes no further inside than the first definition it finds:
what that kept of its members may be stale, and `CanonicalIsKnown` does not say
otherwise. `UnionAccepted` follows the loops of
`UnionDef_impl::members()`; `WellFormed` says what they are for, and `UnionRule`
that the two agree. `Equivalent` is the ORB's and external.

### IfrInterfaces

`bases` is `_base_interfaces`, `owner` the interface an attribute or operation is
in. The interfaces may be in different modules, so two can share a simple name.
The checks are operators that follow the code step by step where its result
depends on the steps: `InterfaceSet` visits one base at a time (`Visit`) and skips
an ancestor that has the *name* of one already found (InterfaceDef.cc:400), and
`Intersection` merges (`Merge`) two sets ordered without regard to case by a
comparison that regards it (67-70).

| Action | Code |
|---|---|
| `CreateInterface` | Container.cc:237-248 |
| `SetBases` | InterfaceDef.cc:48-92 |
| `CreateMember` | `create_attribute()`, `create_operation()`, InterfaceDef.cc:153-198 |
| `RenameMember`, `RenameInterface` | Contained.cc:136-173 |
| `MoveMember` | Contained.cc:222-295 |
| `DestroyMember`, `DestroyInterface` | IRObject.cc:87-127 and `uncheckedDestroy()` |
| `ReadDies` | `is_a()`, `contents()`, `describe_interface()` that never end or misread a description |

No invariant says that inherited names are distinct, because they are not: a
rename or a move looks at one interface only, and so does a creation in a base
that has derived interfaces. What the code does guarantee holds *at the moment
of each check*, so the properties are about steps, and their provisos say exactly
when the checks miss something: two ancestors with one simple name, and, for
`OwnKept`, names of different case. The proviso of `InheritedDistinct` is about
the interfaces the new list leads to *before* it is set, `Through(bases'[i])`.
Those are more than `i` inherits from afterwards if the list leads through `i`
itself: four interfaces are enough for one of the bases that `i` is losing to hide
an interface that it is getting.

### IfrRootRace

`Contained_impl::init()` in the steps in which it touches shared structures:
name check, id check, `addId()`, `addContained()`; `name(v)` in two steps;
`uncheckedDestroy()` in two. `served` is the thread inside `IRpoa`; requests on
the Repository do not wait for it. A step is atomic, which the C++ containers do
not promise: the model says what goes wrong *even if* each access were atomic.
Moves, anonymous types and nested containers are left out: a `ModuleDef` that
stays and the Repository are the two kinds of places a definition can be in.

### IfrDaemon

One process per invocation, in the steps between which another process or the
parent can see a difference. `ExitFailed` is `exit(-1)` with its exit handler
(`on_exit` or `atexit`: `HaveOnExit`), `LeaveMain` the return from `main()`,
whose local `Daemon` is destroyed first and calls `shutdown(0)`. Process ids are
reused. `CheckPidfile` refuses to start for any server it finds, and may refuse for a
process that is none, or because it cannot read the pidfile. External: what `Repository_impl::init()` does is one of success, an
exception, or `exit()`.

## 3. The runs

| Run | Checks | Bounds | Result |
|---|---|---|---|
| tree | `IdmapSound`, `ContainmentSound`, `SiblingNamesDistinct`, `LookupFinds`, `LookupNameFinds`, `NameStaleOnlyFromAbove` | 4 modules, names n and N (equal but for case), 3 ids, depth 3 | hold |
| links | `TypeOK`, `DependencySound`, `UnresolvedMeansGone`, `UsedStaysDefined` | 4 objects: structs, sequences, constants; 1 name, 2 ids, 1 reference each | hold |
| careful | `NeverDies`, `NothingLost`, `OneAtATime`, `ImplementsCatalogue` | 3 objects: modules, structs, aliases; 2 names, 3 ids | hold |
| loader | `LoadedAsDeclared`, `FailsForAReason`, `SomeoneGetsThrough`, `LoadersAreCareful` | 7 versions of a file of 6 to 12 visits, 2 loaders, 2 loads, 6 objects | hold |
| types | `TypeOK`, `UnionRule`, `OnewayLegal`, `CanonicalIsKnown`, `StaleOnlyByRetarget`, `RepairedBySetting`, `TypeLostOnlyByRetarget` | 2 aliases, sequences or exceptions, 1 definition that holds members, 3 primitive types; lists of 3 union members | hold |
| persistence | `RestoredAsSaved`, `NothingMissed`, `LeftoversAtTheTop`, `RefusedForLeftovers` | 2 objects: modules, sequences; 2 names, 2 ids; any number of checkpoints, crashes, restarts | hold |
| interfaces | `BasesExist`, `InheritedDistinct`, `OwnKept`, `CreatedDistinct` | 3 interfaces, 2 simple names, 1 attribute, 1 operation, identifiers a, b, B; 2 bases each | hold |
| root_race | `DistinctBelowRoot`, `Registered`, `OnlyAddIdAsserts`, `IRpoaFreed` | 3 threads, 1 module, 2 definitions, 2 names, 2 ids | hold |
| daemon | `FailedIsFailed`, `PidfileRespected`, `ParentReleased` | 2 servers that start again and again, 2 process ids | hold |
| reload | `ReloadedOnRestart` | as persistence | violated |
| root_name | `NameNotInUse` | 2 threads | violated |
| daemon_status | `SuccessIsSuccess` | 2 servers | violated |

The violated properties are what comments and documents say; `PROJECT.json`
"findings" quotes them, and others that need no run to be seen: a failed
`init()` that ends the process (`CreateContainedDies`), a reference to another
server that does (`SetReferencesDies`), `destroy()` of a read-only repository
(`DestroyRequest` has no `MayChange`), the inherited contents of an interface
(`ReadDies` of `IfrInterfaces`), constants of an enum type, which no file can load
(`NeverLoaded`), structs inside typedefs, which a second load skips (`LeftOut`), labels that outlive their discriminator's type,
a result that disagrees with its reference (`SetResultHalf`), the limits of
`lookup_name()` (`Matches`) and `describe_contents()`, and two more of `ifr.py`.

Why the bounds are enough. Four objects allow a container, two siblings in it
and one more elsewhere, containers three deep, a container moved into its own
grandchild, and orphans that meet a new definition with a reused id. Two names
that differ only in case make every path of the name comparison happen. Fewer ids
than objects force reuse. In `links`, four objects allow a chain of three
references and a user outside. Object ids are not reused, so a run ends after
|Objs| creations: that is the only bound on the length of an object-graph run,
and the theorems remove it. In `persistence`, two objects allow a definition and
another that takes its name, or its container; the number of checkpoints and
restarts is not bounded, but a process appends to a file only while that has at
most `MaxPaths` = 3 paths, one more than one checkpoint writes: leftovers of two
checkpoints meet. In `interfaces`, three interfaces allow a base of a
base, two bases with a clash between them, a base inherited twice, and loops;
the members and interfaces are reused after their destruction, so runs have any length. A list
of bases names an interface once. In `loader`, the files turn typedefs
round, move a struct, change an id and a kind, clash in case only, declare
forward what was a constant, declare an interface with two attributes at once, a
struct inside a typedef of two declarators that is used further on, and a constant of
an enum type; every pair
of them, and every file with itself, is loaded in sequence, interleaved call by
call, and after a kill at every step. A third load is cut (`MaxLoads`): what two
loads leave and a third meets is covered only as far as two files in one
repository already are in each other's way. In `types`, two links give an alias
of an alias, an alias of a destroyed sequence, and an exception used by an
operation; the definition under test sees lists of members with labels of either
type, parameters of either mode and names that clash; `MaxNesting` bounds the
TypeCodes kept, which a struct that holds a sequence of itself would let grow
for ever (BUGS lists why). Three members are the fewest that can separate two
equal names by another. Bounds that cut behaviour are named constants:
`MaxRefs`, `MaxDepth`, `MaxIndex`, `MaxBases`, `MaxLoads`, `MaxNesting`,
`MaxMembers`.

`CHECK_DEADLOCK FALSE` in the object-graph, type and interface configurations,
because a run ends when every object has been used or the server has died; in
`loader`, because it ends after `MaxLoads`; in `root_race`,
because a failed assertion ends the process. The daemon runs check for deadlock.

Symmetry is used for objects and ids in the runs without liveness, and for names
in `careful`, whose two names differ by more than case; the definitions tell none
of them apart. `types` and `loader` use none: their lists and files name things.

### Fairness

- `IfrRootRace`: weak fairness of each thread's own steps, `Step(t)`. The
  operating system runs a thread that is serving a request; none of the steps
  waits for another thread. Nothing obliges clients to send requests, so the
  Begin actions are not fair. `IRpoaFreed` is then the absence of a request that
  holds `IRpoa` for ever.
- `IfrDaemon`: weak fairness of `Proceed(p)`, what a process does by itself, and
  of `ParentExits(p)`, a blocking read that returns once there is data or no
  writer. Starts, signals and crashes are not fair.

## 4. What is proved

All proofs are checked by TLAPS and hold for any finite or infinite sets of
objects, names, ids, processes, threads, loaders and files, any finite set of
interfaces, of definitions in `IfrTypes`, and of definitions that `lookup_name()`
searches, and any bounds, under the named assumptions of the modules:

| Assumption | Says |
|---|---|
| `ConstantsAssumption` (IfrObjects) | the special values are distinct; `CaseClass` maps names to names; kinds are kinds |
| `PersistenceAssumption` | a branch is no leaf; identifiers are not object ids |
| `TypesAssumption` | definitions are finitely many, and no primitive types; kinds are kinds; members in lists have the fields of members |
| `LabelsAssumption` (IfrTypes) | a label whose TCKind is octet is an octet, aliases or not |
| `RaceAssumption`, `DaemonAssumption` | the special values are distinct |
| `InterfacesAssumption` | the special values are distinct; interfaces are finitely many |
| `FiniteAssumption` (IfrLookupName) | definitions are finitely many |
| `LoaderAssumption` | files are what the front end of omniidl lets through: see IfrLoader in section 2 |

**IfrObjectsProofs.** The inductive invariant is

    IInv == TypeOK, FixedServants, IdmapSound, ContainmentSound,
            SiblingNamesDistinct, DependencySound, UnresolvedMeansGone

`FixedServants` (the primitive type is active and stays a primitive type; the
Repository refers to nothing) is what the others need and no run names.
The parts need each other: `IdmapSound` survives a destruction because
`ContainmentSound` says that what is unregistered with a container is really
inside it; `DependencySound` survives because the check in `destroy()` covers
exactly the set that is destroyed. There is one lemma per action, each showing
the parts that action can disturb, and `Invariance` combines them. From it:
`TypeCorrect`, `IdmapIsSound`, `ContainmentIsSound`, `SiblingsAreDistinct`,
`DependenciesAreSound`, `UnresolvedIsGone`, and, as an action property,
`UsedDefinitionsStay`. What is inside a container is defined without recursion,
as the least set closed under "contents of"; the lemmas about it use only that
it is closed.

Of reads, in the same module, `IInv` is almost enough. `Holders` - what has contents was
created as a container - is inductive beside it, and `lookup()` needs it because
it descends through containers only. The recursion of `Lookup` is a function on
the number of components (`ReachedStep` shows that it exists, from the least
number at which it would not); then `ChainFollowed` and `LookedUpChain` compare it
with the chain that spells the name, at the first component where they would
part. That gives `LookupIsExact`. `NamesStaleFromAbove` rests on two facts:
every step leaves a definition's names and place alone (`Kept`) or writes them anew
under its container (`StepKeptOrRewritten`), and what follows in a chain is inside
what goes before (`ChainNests`), so that a broken chain was broken above.
`LookupNameIsExact` compares two functions on the number of levels, what is found
and what is within, at the least number at which they would differ; that -1
reaches everything needs that containers outside loops nest no deeper than there
are definitions, which is where the set has to be finite.

**IfrCarefulProofs.** Under the five rules, `CInv` adds to `IInv` that the server
is up (`crash = "no"`), that every definition is in a container, has a name and
is in the id map under its id, and two well-foundedness facts, stated as "every
non-empty set of objects has one whose container (whose delegate) is outside it":
`NestingEnds` for `_defined_in` and `ChainsEnd` for `type()`. The recursions of
the C++ end because of these two, and each rule is used where one of them, or an
assertion, would fail: the third rule in `NestingEnds` for `move()`, the fourth
in `ChainsEnd` for setters, the second for orphans, the first for a failed
`init()`, the fifth for `exit()`. Stating them with sets avoids an induction over
paths, which the prover cannot do. `CarefulNeverDies`, `CarefulNothingLost` and
`CarefulOneAtATime` follow, and `CarefulRefinement` proves
`CarefulSpec => ImplementsCatalogue`: one lemma per action maps a request to
`Enter`, `Amend`, `Withdraw`, `Use` or a stuttering step.

`GInv` is `CInv` without `ChainsEnd` and `crash = "no"`. A restart keeps it, but not
those two: a reloaded file may be a mixture of two checkpoints, whose aliases go
round, and `type()` then never ends.

**IfrPersistenceProofs.** `PInv` puts together

- the definitions, at any moment: `GInv`, `Made`, `Idle`;
- the file: `Tree` (what a node is in is there), `Records` (what leaves can say),
  `Kept` (all the last checkpoint wrote is still there, and not below a branch),
  `Fits` and `Apart` (it can be read back together: nothing in it is where it
  cannot be, no two records share an object, an id, or a place and name),
  `TopsWhole` (below a top it wrote there is nothing else);
- the two together while a checkpoint runs: `Written` (what was written is as it
  was written, and is in what was written before it);
- the iterators: `WalkOK`, `Visited`, `Nested`, `Standing` (each stands on
  something that is in what the one outside stands on, and has met everything
  written there), and `Ahead` (nothing that is due has been passed).

`Apart` is where the invariant of the definitions does its work: two records are
for different ids, or names, because two definitions had them when they were
written, and `Written` carries that from record to record while requests are
served. `TopsWhole` needs `Standing`: a record below a top that was written is
only added while the iterators are inside that top, so `addnode()` never replaces
a node of the same checkpoint. `Ahead` needs the order of the list, and says
what `walk.past` is for: a definition that was moved in front of an iterator is not
due. `LeftoversOnlyAtTheTop`, `RefusedOnlyForLeftovers`, `CheckpointRestored` and
`CheckpointMissesNothing` follow; the third also needs that `Load` gives back each
field, for which `LoadFields` counts records by their object ids.

**IfrRootRaceProofs.** `RInv` says of the requests in flight what IRpoa makes true:
one at a time below the Repository (`OneServed`), each definition in one place of
one list (`PlacedOnce`) and in the hands of one request (`HeldOnce`, `HeldWhere`),
a name found free below the Repository still free when it is used (`StillFree`), and
the id map complete and sound but for what is in hand (`MapComplete`, `MapSound`,
`OwnId`). From it: `NamesDistinctBelowRoot`, `IdsRegistered`, and `AssertionsHold` -
of the assertions that requests meet, only that of `addId()` can fail.

**IfrInterfacesProofs.** `BInv`: an interface that is not there has no bases, and
those of the others are there. Only that makes `BasesExist` inductive, since
creation starts from the list the last interface of that name left. It is about
direct bases, and closed, so `InheritedExists` gets the ancestors at any distance
without following the code's recursion.

The checks need the recursion followed, and it is a function on the number of
steps, so that a fact about all steps is one about the least step where it fails.
Whatever has to be looked at is on the list or has the name of something found
(`VisitKnows`), and each visit leaves less to do (`VisitLeft`), so the walk ends
(`WalkEnds`); it has then found everything that is inherited, if the names of that
tell it apart (`FoundAll`). The merge, likewise, loses no name that is in both
sets as long as all names have one case (`Common`).
`InheritedNamesDiffer`, `OwnNamesKept` and `CreatedNamesDiffer` follow.

**IfrTypesProofs.** `TInv` adds to `TypeOK` and `OnewayLegal` that references are
to types (`Referred`, `Referring`) and that an operation whose reference is to
void has kept the TypeCode of void (`ResultKept`): `checkOneway()` looks at the
reference, `OnewayLegal` speaks of both. The rest is about what a step does to a
type that exists. `TypeOf` is a recursive function on the number of definitions;
that it is what its definition says is `TypesStep`. `SameType` then compares two
states, at the first depth where what `equivalent()` compares would differ: a step
that leaves the references on a type's `Chain` alone leaves its type equivalent,
even when members on the way are set. `DestroyOther`: what may be destroyed is on
the chain of nothing else, since who delegates to it is a user of it. From these,
`TypesOutliveDestruction`, `ConstantsRepaired` and `StaleByRetarget`, with one lemma
per setter of a union or constant. `UnionMembersRule` is about lists of any
length: the loop over earlier members is compared with the first and the last
index of a name (`Ends`). None of these needs that chains have no loops:
what a setter is given is not made from the definition that is set, and that is
enough.

**IfrLoaderProofs.** `LInv` puts beside `CInv` what makes a loader's memory of the
server true while others work: absolute names are right (`AbsExact`) and nothing
is gone (`NothingGone`), because loaders neither rename, move nor destroy; and, of
each loader (`Placing`), that its stack is the containers its file opened, by name and
kind (`Opened`), that what it found is what its visit is about (`Stands`), and that
the type it resolved is one. What others do keeps all of that (`PlacingKept`).
With it each step of a loader is a request of a careful client (`NextLInv`), the
hardest being the fourth rule, that types have an end: an alias is only made, never
retargeted, and what is given another type (constants, attributes, structs,
exceptions) is nothing that types go through. Hence `LoadsAreCareful` and
`LoadersRefineCareful`, and by the theorems about careful clients `LoadsAreSafe` and
`LoadsEnterACatalogue`.

`OneLoaderGetsThrough` is about loads of one file in an empty Repository. `SInv`
adds that all that is there is what visits of the file declare, with their kinds,
ids and types (`Mirrored`) and that a typedef is not there before what is inside it
(`InsideThere`). For a file that can be loaded at all, whose constants have types that
lead to basic ones (`ConstantsAccepted`), this leaves one reason to fail: what the loader is about to make was made by another one since it looked. A typedef is
looked up some visits before it is made, so it can be lost to another loader long before
the loader comes to it (`Overtaken`); such a loader is `Doomed`. `SomeoneGetsThrough`
itself is not inductive, for the last loaders could all be doomed. What is, is that
one of them is neither failed nor doomed (`GetsThrough`): the one that made what the
others wanted last went on to its next visit.

`LoadsEnterTheirFile` and `FailuresHaveReasons` carry through every step how far each
loader has entered its file (`Entering`, a part of `AInv`): as long as only loads of
the same file were beside it, every visit it has finished is entered as the file has
it (`Done`) or inside a typedef that was there before (`Omitted`), and what is new since
it began is declared by the file and, if it is a typedef, has inside it all that the
file declares there (`DeclaredSince`, `Whole`): a loader that skips a typedef another
one has made since skips nothing that is missing. As long as nobody was beside it, what
it is about to make is not there. Whoever is beside a loader has been met by it, and so
has whom that one has met (`AllMet`). A step
of one loader adds to its own file's declarations and leaves the rest
(`Contributes`, `Completes`), so it preserves what every other loader of that file has
done (`HandledKept`); that no later visit undoes an earlier one is a fact about the
files: an id and a path belong to one definition (`DeclaredOnce`), which gets one type
however often it is visited (`TypedOnce`). An error then has a
reason (`Blamed`): what cannot be made, found as expected or given its id is in
the way since before the load, for had the load entered it, it would be
what the visit declares; a type that is missing is inside a typedef that was there
(`ResolveTypeStopped`). A constant whose type leads to a basic one through typedefs of
the file is refused only when one of them was there before, which the loader does not
bring up to date (`ConstantsType`); any other constant is `NeverLoaded`, and so is
every further declarator of an attribute. TLC checked `AInv` and
`SInv` in the configuration of the `loader` run before they were proved.

**IfrDaemonProofs.** `DInv` adds to the types: a failure in the pipe was written
by a child that is done; a child that has reported nothing still holds the pipe;
running processes have different ids, and one that passed its check does not
find itself in the pidfile before it wrote it. `FailedStartsLeaveNothing` and
`PidfileIsRespected` follow.

**Only model-checked**: `CanonicalIsKnown`, about a recursion over TypeCodes
(`CanonicalForm`), which would need an induction over data; the liveness
properties `IRpoaFreed` and `ParentReleased`, which no installed prover handles;
and the three violated properties.

## 5. Not modelled, and why

- `describe()` and `describe_contents()` copy what is there; the limit of the
  latter is wrong on every call and needs no model (finding).
- Bounds and lengths of strings, sequences, arrays and fixed types, contexts of
  operations, the mode of attributes: setters that store what they are given.
- In `IfrLoader`: operations and unions, which are entered like constants and
  structs; base interfaces and versions.
- A checkpoint or another request in the middle of a request's own changes,
  requests during reincarnation, memory after shutdown, reference counts of servants. Their
  outcome depends on what C++ data races do to `std::list` and `std::map`;
  `IfrRootRace` shows what goes wrong even without them.
- `PersistNode::delnode()`: nothing writes the records it reads.
- The Windows daemon (registry and service-manager calls around the same
  server), the browser (a read-only user interface), the build system.

## 6. Plan

Done: the object graph, careful clients, persistence, root race, daemon,
interfaces, types, reads, the loader, the abstract catalogue, and proofs about all of
these.

What would add most next: unions and operations in the containment graph, and with
them base interfaces and versions in the loader.
