---------------------------- MODULE IfrPersistence ----------------------------
(***************************************************************************)
(* The database file: SIGUSR2 makes the server write every definition to   *)
(* omniifr.db, and a server that starts reads the file back.               *)
(*                                                                         *)
(* The file is a sequence of records, each with the absolute name of its   *)
(* definition, and is opened (and emptied) by the first checkpoint of a    *)
(* process; the checkpoints that follow append to it.  Reading folds the   *)
(* records into a tree (PersistNode): "file" is that tree, which is all    *)
(* that later reads can tell about the file.                               *)
(*                                                                         *)
(* The definitions and the requests that change them are those of          *)
(* IfrCareful.  A checkpoint walks over them in a signal handler, without  *)
(* a lock: requests are served between any two records it writes.          *)
(***************************************************************************)
EXTENDS IfrCareful, SequencesExt

CONSTANTS
    Branch,     \* the attributes of a node that only has children
    Unknown,    \* what was saved, when that cannot be told
    MaxPaths    \* bound: a file with more paths is not appended to

\* What the attributes of a node say.  The names of its identifiers are no object
\* ids, which the ORB makes up: a definition and an anonymous type share no path.
Attributes ==
    [oid : Objs, id : Ids \cup {NoString}, class : AllKinds, index : Nat,
     refs : SUBSET (Objs \cup {Prim}), blank : BOOLEAN]

ASSUME PersistenceAssumption ==
    /\ Branch \notin Attributes
    /\ Names \cap Objs = {}

VARIABLES
    file,      \* the PersistNode tree the file is read as: path -> attributes
    opened,    \* Persist::_outstream is open
    blank,     \* definitions whose _version is the empty string
    server,    \* "up", "down", or how a startup ended badly: "refused", "twins"
    walk,      \* the checkpoint that is being written, see below
    saved      \* what the last checkpoint wrote, for the properties:
               \* path -> attributes; Unknown when a definition was written
               \* under a name that is not its own, when one that was written
               \* changed its name, place or id before the end, or went, and
               \* when the checkpoint was cut

pvars == <<vars, file, opened, blank, server, walk, saved>>

\* The checkpoint's loops: walk.at are the definitions its iterators stand on,
\* from the Repository down; walk.wrote is what it has written; walk.past is what
\* came into a list right in front of where an iterator stands; walk.due are the
\* definitions that it found, that have not changed since, nor has anything they
\* are in, and that are not written yet.
NoWalk == [on |-> FALSE, at |-> <<>>, due |-> {}, wrote |-> {}, past |-> {}]

\* Where output() puts a definition: under its absolute name, or, when it is
\* anonymous, under its object id.
PathOf(o) == IF o \in anonymous THEN <<o>> ELSE absName[o]
\* The same, were the absolute name what it should be.
PathTo(o) == IF o \in anonymous THEN <<o>> ELSE AbsoluteName(definedIn[o], name[o])

\* What outputSelf() and output() write.
AttrsOf(o) ==
    [oid |-> o, id |-> id[o], class |-> kind[o], index |-> index[o],
     refs |-> refs[o], blank |-> o \in blank]

\* Where an iterator over contents[c] goes first, and after x.  addContained() puts
\* what is moved in front of all that have its position number; the others with
\* one number are in any order.
FirstOf(S) == {y \in S : \A z \in S : index[y] <= index[z]}
After_ByIndex(c, x) == FirstOf({y \in contents[c] : index[y] > index[x]})
After(c, x) ==
    FirstOf({y \in contents[c] : \/ index[y] > index[x]
                                 \/ /\ index[y] = index[x]
                                    /\ y \notin walk.wrote \cup walk.past})

\* PersistNode::addnode(): the leaf replaces a node of the same name and all
\* that is below it; branches that are missing are added.
AddNode_ChildrenKept(T, p, a) ==
    [q \in DOMAIN T \cup {SubSeq(p, 1, k) : k \in 1..Len(p)} |->
        IF q = p THEN a ELSE IF q \in DOMAIN T THEN T[q] ELSE Branch]
AddNode_OldLeafKept(T, p, a) ==
    [q \in DOMAIN T \cup {SubSeq(p, 1, k) : k \in 1..Len(p)} |->
        IF q \in DOMAIN T THEN T[q] ELSE IF q = p THEN a ELSE Branch]
AddNode(T, p, a) ==
    LET kept == {q \in DOMAIN T : ~ IsPrefix(p, q)}
    IN [q \in kept \cup {SubSeq(p, 1, k) : k \in 1..Len(p)} |->
            IF q = p THEN a ELSE IF q \in kept THEN T[q] ELSE Branch]

-----------------------------------------------------------------------------
(* Reading the file back.                                                  *)

\* InterfaceDef_impl::reincarnate() makes the attributes in an interface;
\* Container_impl::recreate() passes over one that is elsewhere.
MadeByInterface(p) ==
    file[p].class = "Attribute" => Len(p) > 1 /\ file[Front(p)].class = "Interface"

\* Both skip a node without attributes or with an empty version, and the whole
\* tree under it; only containers are searched further.
Recreated(p) ==
    \A k \in 1..Len(p) :
        LET a == file[SubSeq(p, 1, k)] IN
        /\ a # Branch
        /\ ~ a.blank
        /\ k < Len(p) => a.class \in ContainerKinds
        /\ MadeByInterface(SubSeq(p, 1, k))
Restored == {p \in DOMAIN file : Recreated(p)}

\* init() refuses an id or a name that is taken, and a kind its container
\* cannot hold: the exception ends the startup.
Clash ==
    LET named == {p \in Restored : file[p].class \in ContainedKinds} IN
    \/ \E p, q \in named : p # q /\ file[p].id = file[q].id
    \/ \E p, q \in named : /\ p # q /\ Front(p) = Front(q)
                           /\ CaseClass[Last(p)] = CaseClass[Last(q)]
    \/ \E p \in named : /\ Len(p) > 1
                        /\ file[p].class \notin Containable(file[Front(p)].class)

\* Where one reference was written, reincarnate() does not take a nil one.
NilReference ==
    \E p \in Restored : file[p].class \in OneRefKinds /\ file[p].refs = {}

\* Two nodes with one object id: only the first of them can be activated.
SharedOid == \E p, q \in Restored : p # q /\ file[p].oid = file[q].oid

\* reincarnate() of each definition that is there again: the references that are
\* in its node, without the checks of a setter.
Relink(node) ==
    LET there == DOMAIN node \cup {Prim} IN
    /\ refs' = [s \in Servants |-> IF s \in DOMAIN node THEN node[s].refs ELSE {}]
    /\ deps' = [s \in Servants |->
                    IF s \in DOMAIN node THEN node[s].refs \cap there ELSE {}]

\* Repository_impl::reincarnate(): all servants first, then the references.
Load ==
    LET live == {file[p].oid : p \in Restored}
        At(o) == CHOOSE p \in Restored : file[p].oid = o
        isNamed(o) == o \in live /\ file[At(o)].class \in ContainedKinds
        parent(o) == IF Len(At(o)) = 1 THEN Root ELSE file[Front(At(o))].oid
        up == [o \in Objs |-> IF isNamed(o) THEN parent(o) ELSE NoObj]
    IN  /\ life' = [s \in Servants |-> IF s \in live THEN "active" ELSE life[s]]
        /\ kind' = [s \in Servants |->
                        IF s \in live THEN file[At(s)].class ELSE kind[s]]
        /\ definedIn' = up
        /\ contents' = [c \in Servants |-> {o \in live : up[o] = c}]
        /\ index' = [o \in Objs |-> IF isNamed(o) THEN file[At(o)].index ELSE 0]
        /\ anonymous' = {o \in live : ~ isNamed(o)}
        /\ name' = [o \in Objs |-> IF isNamed(o) THEN Last(At(o)) ELSE NoString]
        /\ absName' = [o \in Objs |-> IF isNamed(o) THEN At(o) ELSE <<>>]
        /\ id' = [o \in Objs |-> IF isNamed(o) THEN file[At(o)].id ELSE NoString]
        /\ idmap' = [i \in Ids |->
                        IF \E o \in live : isNamed(o) /\ file[At(o)].id = i
                        THEN CHOOSE o \in live : isNamed(o) /\ file[At(o)].id = i
                        ELSE NoObj]
        /\ Relink([o \in live |-> file[At(o)]])

-----------------------------------------------------------------------------
(* Actions.                                                                *)

\* A client's request.
Says(o) == <<life[o], definedIn[o], absName[o], name[o], id[o]>>
Changed == {o \in Objs : Says(o)' # Says(o)}
InFront(o) ==
    \E k \in 1..Len(walk.at) - 1 :
        definedIn'[o] = walk.at[k] /\ index'[o] = index[walk.at[k + 1]]
Request ==
    /\ server = "up"
    /\ CarefulNext
    /\ blank' = {o \in blank : life'[o] = "active"}
    /\ saved' = IF Changed \cap walk.wrote # {} THEN Unknown ELSE saved
    /\ walk' = [walk EXCEPT !.due = @ \ UNION {ContainedObjectSet(x) : x \in Changed},
                            !.past = @ \cup {o \in Changed : InFront(o)}]
    /\ UNCHANGED <<file, opened, server>>

\* version(v): any string is accepted, the empty one included.
SetVersion(o) ==
    /\ server = "up" /\ MayChange
    /\ IsActive(o) /\ kind[o] \in ContainedKinds
    /\ \/ blank' = blank \cup {o}
       \/ blank' = blank \ {o}
    /\ UNCHANGED <<vars, file, opened, server, walk, saved>>

\* The handler of SIGUSR2, which a read-only server ignores.  The first
\* checkpoint of a process empties the file.
BeginCheckpoint ==
    /\ server = "up" /\ Running /\ ~ Readonly
    /\ ~ walk.on
    /\ opened => Cardinality(DOMAIN file) <= MaxPaths
    /\ file' = IF opened THEN file ELSE <<>>
    /\ opened' = TRUE
    /\ walk' = [NoWalk EXCEPT !.on = TRUE,
                              !.due = {o \in Objs : life[o] = "active"}]
    /\ saved' = <<>>
    /\ UNCHANGED <<vars, blank, server>>

\* The record of o is appended, and the iterators stand where path says.
WriteRecord(o, path) ==
    /\ file' = AddNode(file, PathOf(o), AttrsOf(o))
    /\ walk' = [walk EXCEPT !.at = path, !.due = @ \ {o},
                            !.wrote = @ \cup {o}]
    /\ saved' = IF saved = Unknown \/ PathOf(o) # PathTo(o) THEN Unknown
                ELSE [p \in DOMAIN saved \cup {PathOf(o)} |->
                        IF p = PathOf(o) THEN AttrsOf(o) ELSE saved[p]]
    /\ UNCHANGED <<vars, opened, blank, server>>

\* Repository_impl::output(): first the anonymous types, in the order of their
\* addresses; one that is made meanwhile may be passed already.
AtAnonymous == walk.on /\ Running /\ Range(walk.at) \subseteq anonymous
WriteAnonymous(o) ==
    /\ AtAnonymous
    /\ o \in anonymous \ walk.wrote
    /\ WriteRecord(o, <<o>>)

\* outputContents(), of a container within a container: each definition, and
\* then what it contains.
InContents == walk.at # <<>> /\ Head(walk.at) = Root
AtNamed ==
    /\ walk.on /\ Running
    /\ InContents \/ (AtAnonymous /\ walk.due \cap anonymous = {})
Path == IF InContents THEN walk.at ELSE <<Root>>
WriteFirst(o) ==
    /\ AtNamed
    /\ o \in FirstOf(contents[Last(Path)])
    /\ WriteRecord(o, Append(Path, o))

\* The loops that are inside the k-th are through.
Through(k) ==
    /\ contents[Last(Path)] = {}
    /\ \A j \in (k + 1)..(Len(Path) - 1) :
            Path[j + 1] \in contents[Path[j]] /\ After(Path[j], Path[j + 1]) = {}
WriteNext(o) ==
    /\ AtNamed
    /\ \E k \in 1..(Len(Path) - 1) :
        /\ Through(k)
        /\ Path[k + 1] \in contents[Path[k]] /\ o \in After(Path[k], Path[k + 1])
        /\ WriteRecord(o, Append(SubSeq(Path, 1, k), o))
EndCheckpoint ==
    /\ AtNamed /\ Through(0)
    /\ walk' = NoWalk
    /\ UNCHANGED <<vars, file, opened, blank, server, saved>>

\* The process ends, and what it had in memory with it.
Forget ==
    /\ life' = [s \in Servants |->
                    IF s \in Objs /\ life[s] = "active" THEN "gone" ELSE life[s]]
    /\ definedIn' = [o \in Objs |-> NoObj]
    /\ contents' = [s \in Servants |-> {}]
    /\ index' = [o \in Objs |-> 0]
    /\ anonymous' = {}
    /\ name' = [o \in Objs |-> NoString]
    /\ absName' = [o \in Objs |-> <<>>]
    /\ id' = [o \in Objs |-> NoString]
    /\ idmap' = [i \in Ids |-> NoObj]
    /\ refs' = [s \in Servants |-> {}]
    /\ deps' = [s \in Servants |-> {}]
    /\ crash' = "no"
    /\ blank' = {}
    /\ opened' = FALSE
    /\ server' = "down"
    /\ walk' = NoWalk
    /\ UNCHANGED kind

\* SIGTERM, which saves nothing, or a crash, between two records at the most.
\* This also ends a checkpoint whose iterator stands on something that is no
\* longer in the list: it is advanced through freed memory.
Stop ==
    /\ server = "up" /\ Forget
    /\ saved' = IF walk.on THEN Unknown ELSE saved
    /\ UNCHANGED file

\* Persist::startup(), from Repository_impl::init().
Restart ==
    /\ server = "down"
    /\ IF Clash \/ NilReference \/ SharedOid
       THEN /\ server' = IF Clash \/ NilReference THEN "refused" ELSE "twins"
            /\ UNCHANGED vars
       ELSE server' = "up" /\ Load /\ UNCHANGED crash
    /\ UNCHANGED <<file, opened, blank, walk, saved>>

PInit ==
    /\ Init
    /\ file = <<>> /\ opened = FALSE /\ blank = {} /\ server = "up"
    /\ walk = NoWalk /\ saved = <<>>

PNext ==
    \/ Request
    \/ \E o \in Objs : SetVersion(o)
    \/ BeginCheckpoint \/ EndCheckpoint
    \/ \E o \in Objs : WriteAnonymous(o) \/ WriteFirst(o) \/ WriteNext(o)
    \/ Stop
    \/ Restart

PSpec == PInit /\ [][PNext]_pvars

-----------------------------------------------------------------------------

\* In the file and in none of its paths of the last checkpoint.
Leftovers == {p \in DOMAIN file : p \notin DOMAIN saved /\ file[p] # Branch}

\* What a restart finds of the last checkpoint it restores completely, whatever
\* was done elsewhere while that was written: same object, same place, same name,
\* same id, same references - unless an empty version, its own or that of an
\* enclosing definition, hides it.
RestoredAsSaved ==
    [][(server = "down" /\ server' = "up" /\ saved # Unknown) =>
        \A p \in DOMAIN saved :
            (\A k \in 1..Len(p) : ~ saved[SubSeq(p, 1, k)].blank) =>
                LET o == saved[p].oid IN
                /\ life'[o] = "active" /\ kind'[o] = saved[p].class
                /\ refs'[o] = saved[p].refs
                /\ kind'[o] \in ContainedKinds =>
                    /\ absName'[o] = p /\ id'[o] = saved[p].id
                    /\ idmap'[id'[o]] = o
                    /\ o \in contents'[definedIn'[o]]
                    /\ index'[o] = saved[p].index]_pvars

\* Definitions that were destroyed, moved or renamed between two checkpoints of
\* one process come back only as whole trees at the top: under a name that
\* nothing at the top of the last checkpoint has.
LeftoversAtTheTop ==
    (saved # Unknown /\ ~ walk.on) =>
        \A p \in Leftovers : \A q \in DOMAIN saved : Head(p) # Head(q)

\* A checkpoint misses nothing that is there, and stays where it is and as it is,
\* from its begin to its end, whatever is created, moved and destroyed meanwhile.
NothingMissed == [][(walk.on /\ ~ walk'.on /\ server' = "up") => walk.due = {}]_pvars

\* A startup fails only because of such leftovers: one checkpoint, written to a
\* fresh file under current names, can always be read back.
RefusedForLeftovers ==
    (server \in {"refused", "twins"} /\ saved # Unknown) => Leftovers # {}

\* README:126-127: "Once saved, the database is reloaded each time OmniIFR
\* restarts."  Not so after a rename or a change of id at the top between two
\* complete checkpoints of one process.
ReloadedOnRestart == saved # Unknown => server # "refused"

=============================================================================
