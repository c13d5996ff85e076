------------------------- MODULE IfrPersistenceProofs -------------------------
(***************************************************************************)
(* IfrPersistence, for any sets of definitions, names and ids, any number  *)
(* of checkpoints, and requests between any two records: what the last     *)
(* checkpoint wrote comes back, what else comes back is at the top, and a  *)
(* checkpoint misses nothing.                                              *)
(*                                                                         *)
(* PInv has three parts.  The file: Kept says that the records of the last *)
(* checkpoint are in it under all they were written in, Fits and Apart     *)
(* that they can be read back together, TopsWhole that a record written at *)
(* the top has taken everything of an older file away below it.  The       *)
(* definitions: what was written still is as it was (Written), or saved is *)
(* Unknown.  It ties the file to GInv, so that two records are apart       *)
(* because two definitions are.  The walk: Nested and Standing say where   *)
(* the iterators are; without Standing a record could be written into a    *)
(* tree that another has replaced.  Ahead says of what is due that no      *)
(* iterator has passed it, which is NothingMissed once all loops are       *)
(* through.                                                                *)
(***************************************************************************)
EXTENDS IfrPersistence, IfrCarefulProofs, SequenceTheorems, WellFoundedInduction

\* The paths of the nodes from the top down to p.
NodePaths == Seq(Names \cup Objs) \ {<<>>}
NodesTo(p) == {SubSeq(p, 1, k) : k \in 1..Len(p)}

\* A server that is down knows no definition, and writes nothing.
Idle ==
    /\ server # "up" => ~ walk.on /\ \A o \in Objs : ~ IsActive(o)
    /\ ~ walk.on => walk = NoWalk

\* What was created has a kind.
Made == \A o \in Objs : IsActive(o) => kind[o] # "None"

WalkOK ==
    walk \in [on : BOOLEAN, at : Seq(Objs \cup {Root}), due : SUBSET Objs,
             wrote : SUBSET Objs, past : SUBSET Objs]

\* The file is a tree, and its records say what can be read back.
Tree == \A p \in DOMAIN file : p \in NodePaths /\ NodesTo(p) \subseteq DOMAIN file
Records ==
    \A p \in DOMAIN file : file[p] # Branch =>
        /\ file[p] \in Attributes
        /\ file[p].class \in ContainedKinds \cup AnonymousKinds
        /\ file[p].class \in ContainedKinds => p \in Seq(Names) /\ file[p].id \in Ids
        /\ \A t \in file[p].refs : t = Prim \/ life[t] # "unborn"

\* What the last checkpoint wrote is in the file, with all it is in.
Kept ==
    saved # Unknown => \A p \in DOMAIN saved :
        /\ p \in DOMAIN file /\ file[p] = saved[p] /\ saved[p] # Branch
        /\ NodesTo(p) \subseteq DOMAIN saved

\* Its records fit in where they are, and no two of them are for one object,
\* or under one id, or under names that differ only in case.
Fits ==
    saved # Unknown => \A p \in DOMAIN saved :
        /\ Len(p) = 1 =>
            saved[p].class \in Containable("Repository") \cup AnonymousKinds
        /\ Len(p) > 1 => saved[p].class \in Containable(saved[Front(p)].class)
        /\ saved[p].class \in OneRefKinds => saved[p].refs # {}
Apart ==
    saved # Unknown => \A p, q \in DOMAIN saved : p # q =>
        /\ saved[p].oid # saved[q].oid
        /\ {saved[p].class, saved[q].class} \subseteq ContainedKinds =>
            /\ saved[p].id # saved[q].id
            /\ Front(p) = Front(q) => CaseClass[Last(p)] # CaseClass[Last(q)]

\* Nothing else is in the trees whose top it wrote.
TopsWhole ==
    saved # Unknown => \A p \in DOMAIN file, q \in DOMAIN saved :
        Head(p) = Head(q) => p \in DOMAIN saved

\* What was written still is what was written.
Written ==
    (walk.on /\ saved # Unknown) =>
        /\ \A o \in walk.wrote :
            /\ IsActive(o) /\ PathOf(o) = PathTo(o)
            /\ o \notin anonymous => definedIn[o] \in walk.wrote \cup {Root}
            /\ PathOf(o) \in DOMAIN saved
            /\ saved[PathOf(o)].oid = o /\ saved[PathOf(o)].id = id[o]
            /\ saved[PathOf(o)].class = kind[o]
        /\ \A p \in DOMAIN saved :
            saved[p].oid \in walk.wrote /\ PathOf(saved[p].oid) = p

\* The iterators stand one in the other, and what they have passed comes first.
Visited == \A o \in walk.wrote : life[o] # "unborn"
Nested == \A k \in 1..Len(Path) - 1 : Path[k + 1] \in walk.wrote
Standing ==
    (walk.on /\ saved # Unknown) =>
        /\ \A k \in 1..Len(Path) - 1 :
            /\ definedIn[Path[k + 1]] = Path[k]
            /\ \A y \in contents[Path[k]] \cap walk.wrote : index[y] <= index[Path[k + 1]]
        /\ contents[Last(Path)] \cap walk.wrote = {}

\* What is due will be come to: it is in something that is due, or that an
\* iterator is in and has not passed.
Ahead ==
    /\ walk.due \cap (walk.wrote \cup walk.past) = {}
    /\ \A o \in walk.due : IsActive(o)
    /\ InContents => walk.due \cap anonymous = {}
    /\ \A o \in walk.due : definedIn[o] # NoObj =>
        definedIn[o] \in walk.due \cup Range(Path)
    /\ \A o \in walk.due, k \in 1..Len(Path) - 1 :
        (definedIn[o] = Path[k] /\ IsActive(Path[k + 1])) => index[Path[k + 1]] <= index[o]

PInv ==
    /\ GInv /\ Made /\ Idle /\ WalkOK
    /\ Tree /\ Records
    /\ Kept /\ Fits /\ Apart /\ TopsWhole
    /\ Written
    /\ Visited /\ Nested /\ Standing
    /\ Ahead

\* What is left of a path when its end is cut off.
LEMMA CutPath ==
    ASSUME NEW S, NEW p \in Seq(S), NEW k \in 1..Len(p)
    PROVE  LET c == SubSeq(p, 1, k) IN
           /\ c \in Seq(S) /\ c # <<>> /\ Len(c) = k
           /\ Head(c) = Head(p) /\ Last(c) = p[k]
           /\ \A j \in 1..k : SubSeq(c, 1, j) = SubSeq(p, 1, j)
           /\ \A j \in 1..k : c[j] = p[j]
           /\ k = Len(p) => c = p
           /\ k > 1 => Front(c) = SubSeq(p, 1, k - 1)
<1> DEFINE c == SubSeq(p, 1, k)
<1>1. Len(p) \in Nat /\ k \in Nat /\ k >= 1 /\ k <= Len(p)
  BY LenProperties
<1>2. \A i \in 1..k : p[i] \in S
  BY <1>1, ElementOfSeq
<1>3. c \in Seq(S) /\ Len(c) = k /\ \A i \in 1..k : c[i] = p[i]
  BY <1>1, <1>2, SubSeqProperties
<1>4. c # <<>>
  BY <1>1, <1>3, EmptySeq
<1>5. Head(c) = Head(p)
  BY <1>1, HeadTailOfSubSeq, SubSeqFull
<1>6. \A j \in 1..k : SubSeq(c, 1, j) = SubSeq(p, 1, j)
  BY <1>1, <1>3, SubSeqOfSubSeq, k - 1 + 1 = k
<1>7. k = Len(p) => c = p
  BY SubSeqFull
<1>8. Last(c) = p[k]
  BY <1>1, <1>3 DEF Last
<1>9. k > 1 => Front(c) = SubSeq(p, 1, k - 1)
  BY <1>1, <1>3, <1>6 DEF Front
<1> QED
  BY <1>3, <1>4, <1>5, <1>6, <1>7, <1>8, <1>9

LEMMA CutNode ==
    ASSUME NEW S, NEW p \in Seq(S), NEW k \in 1..Len(p), NEW c, c = SubSeq(p, 1, k)
    PROVE  /\ c \in Seq(S) /\ c # <<>> /\ Len(c) = k
           /\ \A j \in 1..k : SubSeq(c, 1, j) = SubSeq(p, 1, j)
BY CutPath, Z3

LEMMA AppendPath ==
    ASSUME NEW S, NEW s \in Seq(S), NEW e \in S
    PROVE  LET p == Append(s, e) IN
           /\ p \in Seq(S) /\ p # <<>> /\ Len(p) = Len(s) + 1
           /\ Front(p) = s /\ Last(p) = e
           /\ Head(p) = IF s = <<>> THEN e ELSE Head(s)
           /\ \A k \in 1..Len(s) : SubSeq(p, 1, k) = SubSeq(s, 1, k) /\ p[k] = s[k]
           /\ SubSeq(p, 1, Len(p)) = p
<1> DEFINE p == Append(s, e)
<1>1. /\ p \in Seq(S) /\ p # <<>> /\ Len(p) = Len(s) + 1 /\ Len(s) \in Nat
      /\ \A k \in 1..Len(s) : p[k] = s[k]
      /\ p[Len(s) + 1] = e
  BY AppendProperties, LenProperties
<1> HIDE DEF p
<1>2. \A k \in 1..Len(s) : SubSeq(p, 1, k) = SubSeq(s, 1, k)
  <2> TAKE k \in 1..Len(s)
  <2>1. k \in 1..Len(p) /\ k \in 1..Len(s)
    BY <1>1
  <2>2. /\ SubSeq(p, 1, k) \in Seq(S) /\ Len(SubSeq(p, 1, k)) = k
        /\ \A j \in 1..k : SubSeq(p, 1, k)[j] = p[j]
    BY <1>1, <2>1, CutPath
  <2>3. /\ SubSeq(s, 1, k) \in Seq(S) /\ Len(SubSeq(s, 1, k)) = k
        /\ \A j \in 1..k : SubSeq(s, 1, k)[j] = s[j]
    BY <2>1, CutPath
  <2> QED
    BY <1>1, <2>1, <2>2, <2>3, SeqEqual
<1>3. Front(p) = s
  <2>1. CASE s = <<>>
    BY <1>1, <2>1, SubSeqEmpty, EmptySeq DEF Front
  <2>2. CASE s # <<>>
    BY <1>1, <1>2, <2>2, SubSeqFull, EmptySeq DEF Front
  <2> QED
    BY <2>1, <2>2
<1>4. Last(p) = e
  BY <1>1 DEF Last
<1>5. Head(p) = IF s = <<>> THEN e ELSE Head(s)
  BY HeadTailAppend DEF p
<1>6. SubSeq(p, 1, Len(p)) = p
  BY <1>1, SubSeqFull
<1> QED
  BY <1>1, <1>2, <1>3, <1>4, <1>5, <1>6 DEF p

\* A path is determined by where it leads and where that is.
LEMMA PathEnds ==
    ASSUME NEW S, NEW p \in Seq(S), p # <<>>
    PROVE  /\ Len(p) \in Nat /\ Len(p) >= 1 /\ Last(p) \in S /\ Front(p) \in Seq(S)
           /\ p = Append(Front(p), Last(p))
           /\ Len(Front(p)) = Len(p) - 1
           /\ Len(p) > 1 => Front(p) = SubSeq(p, 1, Len(p) - 1)
<1>1. PICK s \in Seq(S), e \in S : p = Append(s, e)
  BY SequenceEmptyOrAppend
<1>2. Len(p) = Len(s) + 1 /\ Front(p) = s /\ Last(p) = e /\ Len(s) \in Nat
  BY <1>1, AppendPath, LenProperties
<1> QED
  BY <1>1, <1>2 DEF Front

LEMMA PrefixOf ==
    ASSUME NEW S, NEW p \in Seq(S), p # <<>>, NEW q \in Seq(S)
    PROVE  IsPrefix(p, q) <=> p \in NodesTo(q)
<1>1. Len(p) \in Nat /\ Len(p) >= 1 /\ Len(q) \in Nat /\ SubSeq(p, 1, Len(p)) = p
  BY PathEnds, LenProperties, SubSeqFull
<1>2. ASSUME IsPrefix(p, q) PROVE p \in NodesTo(q)
  <2>1. Len(p) \in 1..Len(q) /\ p = SubSeq(q, 1, Len(p))
    BY <1>1, <1>2 DEF IsPrefix
  <2> QED
    BY <2>1 DEF NodesTo
<1>3. ASSUME NEW k \in 1..Len(q), p = SubSeq(q, 1, k) PROVE IsPrefix(p, q)
  <2>1. Len(p) = k
    BY <1>3, CutPath
  <2> QED
    BY <1>1, <1>3, <2>1 DEF IsPrefix
<1> QED
  BY <1>2, <1>3 DEF NodesTo

-----------------------------------------------------------------------------
(* Requests, and what surrounds a checkpoint.                              *)

LEMMA NoPaths == DOMAIN <<>> = {} /\ Len(<<>>) = 0 /\ <<>> \in Seq(Objs \cup {Root})
<1>1. <<>> \in Seq(Objs \cup {Root}) /\ Len(<<>>) = 0
  BY EmptySeq
<1>2. DOMAIN <<>> = 1..Len(<<>>)
  BY <1>1, LenProperties
<1> QED
  BY <1>1, <1>2

\* Where a walk begins.
LEMMA StartPath ==
    Len(<<Root>>) = 1 /\ Last(<<Root>>) = Root /\ Range(<<Root>>) = {Root}
<1>1. Len(<<Root>>) = 1 /\ <<Root>>[1] = Root /\ DOMAIN <<Root>> = {1}
  OBVIOUS
<1> QED
  BY <1>1 DEF Last, Range

\* Without a checkpoint there is nothing to say about one.
LEMMA NoWalkNext ==
    ASSUME walk' = NoWalk
    PROVE  /\ WalkOK' /\ ~ walk'.on
           /\ Written' /\ Visited' /\ Nested' /\ Standing' /\ Ahead'
<1>1. /\ walk'.on = FALSE /\ walk'.at = <<>> /\ walk'.due = {} /\ walk'.wrote = {}
      /\ walk'.past = {}
  BY DEF NoWalk
<1>2. WalkOK'
  BY NoPaths DEF WalkOK, NoWalk
<1>3. Path' = <<Root>>
  BY <1>1 DEF Path, InContents
<1>4. Nested'
  BY <1>3, StartPath DEF Nested
<1> QED
  BY <1>1, <1>2, <1>3, <1>4, StartPath DEF Written, Visited, Standing, Ahead

LEMMA InitPInv == PInit => PInv
<1> SUFFICES ASSUME PInit PROVE PInv
  OBVIOUS
<1>1. GInv
  BY InitCInv DEF PInit, CInv
<1>2. walk = NoWalk /\ server = "up" /\ file = <<>> /\ saved = <<>>
  BY DEF PInit
<1>3. Idle /\ Made
  <2>1. \A o \in Objs : IsActive(o) => o \in Loaded /\ definedIn[o] = Root
    BY DEF PInit, Init, IsActive, Servants
  <2>2. \A o \in Objs : IsActive(o) => kind[o] \in ContainedKinds
    BY <1>1, <2>1, ConstantsAssumption DEF GInv, Placed, Servants
  <2> QED
    BY <1>2, <2>2 DEF Idle, Made, ContainedKinds
<1>4. Tree /\ Records /\ Kept /\ Fits /\ Apart /\ TopsWhole
  BY <1>2, NoPaths DEF Tree, Records, Kept, Fits, Apart, TopsWhole
<1>5. /\ walk.on = FALSE /\ walk.at = <<>> /\ walk.due = {} /\ walk.wrote = {}
      /\ walk.past = {}
  BY <1>2 DEF NoWalk
<1>6. WalkOK
  BY <1>2, NoPaths DEF WalkOK, NoWalk
<1>7. Nested
  <2>1. Path = <<Root>>
    BY <1>5 DEF Path, InContents
  <2> QED
    BY <2>1, StartPath DEF Nested
<1>8. Written /\ Visited /\ Standing /\ Ahead
  BY <1>5 DEF Written, Visited, Standing, Ahead
<1> QED
  BY <1>1, <1>3, <1>4, <1>6, <1>7, <1>8 DEF PInv

\* A definition that was made keeps its kind, and its position while it is there;
\* once it is gone it does not come back before a restart.
LEMMA Steady ==
    ASSUME GInv, CarefulNext, NEW x \in Objs
    PROVE  /\ life[x] # "unborn" =>
                /\ kind'[x] = kind[x] /\ life'[x] # "unborn"
                /\ life'[x] = "active" => life[x] = "active" /\ index'[x] = index[x]
           /\ (life[x] = "unborn" /\ life'[x] = "active") => kind'[x] # "None"
<1> USE ConstantsAssumption
<1> DEFINE Same ==
        /\ life[x] # "unborn" =>
            /\ kind'[x] = kind[x] /\ life'[x] # "unborn"
            /\ life'[x] = "active" => life[x] = "active" /\ index'[x] = index[x]
        /\ (life[x] = "unborn" /\ life'[x] = "active") => kind'[x] # "None"
<1>1. TypeOK
  BY DEF GInv, IInv
<1>2. CASE Failing
  BY <1>2 DEF Failing, tree
<1>3. ASSUME NEW o \in Objs, NEW k \in AnonymousKinds, CreateAnonymous(o, k)
      PROVE  Same
  <2>1. k # "None"
    BY DEF AnonymousKinds
  <2> QED
    BY <1>1, <1>3, <2>1 DEF CreateAnonymous, TypeOK, Servants
<1>4. ASSUME NEW o \in Objs, NEW c \in Servants, NEW k \in ContainedKinds \cap Kinds,
             NEW i \in Ids, NEW n \in Names, CreateContained(c, o, k, i, n)
      PROVE  Same
  <2>1. life[o] = "unborn" /\ \E pos : index' = [index EXCEPT ![o] = pos]
    BY <1>4 DEF CreateContained
  <2>2. k # "None"
    BY DEF ContainedKinds
  <2> QED
    BY <1>1, <1>4, <2>1, <2>2 DEF CreateContained, TypeOK, Servants
<1>5. ASSUME NEW o \in Objs, Destroy(o)
      PROVE  Same
  BY <1>1, <1>5 DEF Destroy, TypeOK, Servants
<1>6. ASSUME NEW o \in Objs, CarefulSet(o) PROVE Same
  BY <1>6 DEF CarefulSet, SetReferences, tree
<1>7. ASSUME NEW o \in Objs, NEW i \in Ids, SetId(o, i) PROVE Same
  BY <1>7 DEF SetId, tree
<1>8. ASSUME NEW o \in Objs, NEW n \in Names, Rename(o, n) PROVE Same
  BY <1>8 DEF Rename, tree
<1>9. ASSUME NEW o \in Objs, NEW c \in Objs, NEW n \in Names, Relocate(o, c, n)
      PROVE  Same
  BY <1>9 DEF Relocate
<1> QED
  BY <1>2, <1>3, <1>4, <1>5, <1>6, <1>7, <1>8, <1>9, CarefulOrFailing DEF ChangeOf

\* What is below an object has the contents it has below it, too.
LEMMA ContentsStayWith ==
    ASSUME GInv, NEW x \in Objs, NEW c \in ContainedObjectSet(x), NEW o \in Objs,
           definedIn[o] = c
    PROVE  o \in ContainedObjectSet(x)
<1>1. c \in Objs /\ contents[c] \subseteq ContainedObjectSet(x)
  BY ContainedObjectSetClosed DEF GInv, IInv
<1> QED
  BY <1>1 DEF GInv, IInv, ContainmentSound, Servants

\* A request leaves the walk's iterators where they are.
LEMMA RequestFields ==
    ASSUME PInv, Request
    PROVE  /\ server = "up" /\ server' = "up" /\ file' = file
           /\ walk'.on = walk.on /\ walk'.at = walk.at /\ walk'.wrote = walk.wrote
           /\ walk'.due = walk.due \ UNION {ContainedObjectSet(x) : x \in Changed}
           /\ walk'.past \in SUBSET (walk.past \cup Changed)
           /\ WalkOK'
           /\ ~ walk.on => walk' = NoWalk
           /\ saved' # Unknown => saved' = saved /\ Changed \cap walk.wrote = {}
<1>1. WalkOK
  BY DEF PInv
<1>2. walk' = [walk EXCEPT !.due = @ \ UNION {ContainedObjectSet(x) : x \in Changed},
                           !.past = @ \cup {o \in Changed : InFront(o)}]
  BY DEF Request
<1>3. Changed \subseteq Objs
  BY DEF Changed
<1>4. /\ walk'.on = walk.on /\ walk'.at = walk.at /\ walk'.wrote = walk.wrote
      /\ walk'.due = walk.due \ UNION {ContainedObjectSet(x) : x \in Changed}
      /\ walk'.past = walk.past \cup {o \in Changed : InFront(o)}
      /\ walk' \in [on : {walk.on}, at : {walk.at}, due : {walk'.due},
                    wrote : {walk.wrote}, past : {walk'.past}]
  BY <1>1, <1>2 DEF WalkOK
<1>5. WalkOK'
  BY <1>1, <1>3, <1>4 DEF WalkOK
<1>6. ASSUME ~ walk.on PROVE walk' = NoWalk
  <2>1. walk = NoWalk
    BY <1>6 DEF PInv, Idle
  <2>2. walk.at = <<>> /\ walk.due = {} /\ walk.past = {} /\ walk.wrote = {}
    BY <2>1 DEF NoWalk
  <2>3. {o \in Changed : InFront(o)} = {}
    BY <2>2, NoPaths DEF InFront
  <2> QED
    BY <1>4, <2>1, <2>2, <2>3 DEF NoWalk
<1>7. saved' # Unknown => saved' = saved /\ Changed \cap walk.wrote = {}
  BY DEF Request
<1> QED
  BY <1>4, <1>5, <1>6, <1>7 DEF Request

LEMMA SamePath ==
    ASSUME walk'.at = walk.at
    PROVE  Path' = Path /\ InContents' = InContents
BY DEF Path, InContents

\* The iterators stand on definitions, the first in the Repository.
LEMMA PathType ==
    ASSUME WalkOK
    PROVE  /\ Path \in Seq(Objs \cup {Root}) /\ Path # <<>>
           /\ Len(Path) \in Nat /\ Len(Path) >= 1
           /\ Path[1] = Root /\ Head(Path) = Root
           /\ \A k \in 1..Len(Path) : Path[k] \in Objs \cup {Root}
           /\ Last(Path) = Path[Len(Path)] /\ Last(Path) \in Objs \cup {Root}
           /\ \A k \in 1..Len(Path) : Path[k] \in Range(Path)
           /\ \A x \in Range(Path) : \E k \in 1..Len(Path) : x = Path[k]
<1>1. Path \in Seq(Objs \cup {Root}) /\ Path # <<>> /\ Head(Path) = Root
  <2>1. CASE InContents
    BY <2>1 DEF WalkOK, Path, InContents
  <2>2. CASE ~ InContents
    <3>1. Path = <<Root>>
      BY <2>2 DEF Path
    <3>2. <<Root>> \in Seq(Objs \cup {Root}) /\ <<Root>> # <<>> /\ Head(<<Root>>) = Root
      OBVIOUS
    <3> QED
      BY <3>1, <3>2
  <2> QED
    BY <2>1, <2>2
<1>2. Len(Path) \in Nat /\ Len(Path) >= 1 /\ DOMAIN Path = 1..Len(Path)
  BY <1>1, EmptySeq, LenProperties
<1>3. Path[1] = Root
  BY <1>1
<1>4. \A k \in 1..Len(Path) : Path[k] \in Objs \cup {Root}
  BY <1>1, <1>2, ElementOfSeq
<1> QED
  BY <1>1, <1>2, <1>3, <1>4 DEF Last, Range

\* What was written, and does not say anything else after a request, is as it was.
LEMMA WrittenStays ==
    ASSUME PInv, Request, GInv', NEW o \in walk.wrote, o \notin Changed,
           walk.on, saved # Unknown
    PROVE  /\ IsActive(o) /\ IsActive(o)' /\ definedIn'[o] = definedIn[o]
           /\ absName'[o] = absName[o] /\ name'[o] = name[o] /\ id'[o] = id[o]
           /\ kind'[o] = kind[o] /\ index'[o] = index[o]
           /\ o \in anonymous' <=> o \in anonymous
           /\ PathOf(o)' = PathOf(o)
<1>1. o \in Objs /\ IsActive(o)
  BY DEF PInv, WalkOK, Written
<1>2. /\ life'[o] = life[o] /\ definedIn'[o] = definedIn[o]
      /\ absName'[o] = absName[o] /\ name'[o] = name[o] /\ id'[o] = id[o]
  BY <1>1 DEF Changed, Says
<1>3. kind'[o] = kind[o] /\ index'[o] = index[o]
  BY <1>1, <1>2, Steady DEF PInv, Request, IsActive
<1>4. o \in anonymous' <=> o \in anonymous
  BY <1>1, <1>2, <1>3 DEF PInv, GInv, Listed, IsActive
<1> QED
  BY <1>1, <1>2, <1>3, <1>4 DEF PathOf, IsActive

LEMMA RequestWritten ==
    ASSUME PInv, Request, GInv'
    PROVE  Written'
<1> USE ConstantsAssumption
<1> SUFFICES ASSUME walk.on, saved' # Unknown
             PROVE  Written'
  BY RequestFields DEF Written
<1>1. /\ saved' = saved /\ walk'.wrote = walk.wrote /\ walk'.on = walk.on
      /\ \A o \in walk.wrote : o \notin Changed
  BY RequestFields
<1>2. ASSUME NEW o \in walk.wrote
      PROVE  /\ IsActive(o)' /\ PathOf(o)' = PathOf(o) /\ PathTo(o)' = PathTo(o)
             /\ o \notin anonymous' => definedIn'[o] \in walk.wrote \cup {Root}
             /\ id'[o] = id[o] /\ kind'[o] = kind[o]
  <2>1. o \notin anonymous => definedIn[o] \in walk.wrote \cup {Root}
    BY <1>1, <1>2 DEF PInv, Written
  <2>2. /\ IsActive(o)' /\ PathOf(o)' = PathOf(o) /\ definedIn'[o] = definedIn[o]
        /\ o \in anonymous' <=> o \in anonymous
        /\ id'[o] = id[o] /\ kind'[o] = kind[o] /\ name'[o] = name[o]
    BY <1>1, <1>2, WrittenStays
  <2>3. \A c \in walk.wrote : absName'[c] = absName[c]
    BY <1>1, WrittenStays
  <2>4. PathTo(o)' = PathTo(o)
    BY <2>1, <2>2, <2>3 DEF PathTo, AbsoluteName
  <2> QED
    BY <2>1, <2>2, <2>4
<1>3. \A p \in DOMAIN saved : saved[p].oid \in walk.wrote /\ PathOf(saved[p].oid) = p
  BY <1>1 DEF PInv, Written
<1>4. ASSUME NEW o \in walk.wrote
      PROVE  /\ PathOf(o) = PathTo(o) /\ PathOf(o) \in DOMAIN saved
             /\ saved[PathOf(o)].oid = o /\ saved[PathOf(o)].id = id[o]
             /\ saved[PathOf(o)].class = kind[o]
  BY <1>1, <1>4 DEF PInv, Written
<1> QED
  BY <1>1, <1>2, <1>3, <1>4 DEF Written

LEMMA RequestStanding ==
    ASSUME PInv, Request, GInv'
    PROVE  Visited' /\ Nested' /\ Standing'
<1> USE ConstantsAssumption
<1>1. Visited'
  BY RequestFields, Steady DEF PInv, Visited, Request, WalkOK
<1>2. Path' = Path /\ Nested'
  BY RequestFields, SamePath DEF PInv, Nested
<1>3. ASSUME walk.on, saved' # Unknown
      PROVE  Standing'
  <2>1. /\ saved' = saved /\ walk'.wrote = walk.wrote
        /\ \A o \in walk.wrote : o \notin Changed
    BY <1>3, RequestFields
  <2>2. \A o \in walk.wrote : definedIn'[o] = definedIn[o] /\ index'[o] = index[o]
    BY <1>3, <2>1, WrittenStays
  <2>3. \A c \in Servants : contents'[c] \cap walk.wrote = contents[c] \cap walk.wrote
    BY <2>2 DEF PInv, GInv, IInv, ContainmentSound, WalkOK
  <2>4. \A k \in 1..Len(Path) : Path[k] \in Servants
    BY PathType DEF PInv, Servants
  <2>5. Last(Path) \in Servants
    BY PathType DEF PInv, Servants
  <2>6. /\ \A k \in 1..Len(Path) - 1 :
            /\ definedIn[Path[k + 1]] = Path[k]
            /\ \A y \in contents[Path[k]] \cap walk.wrote : index[y] <= index[Path[k + 1]]
        /\ contents[Last(Path)] \cap walk.wrote = {}
    BY <1>3, <2>1 DEF PInv, Standing
  <2>7. \A k \in 1..Len(Path) - 1 : Path[k + 1] \in walk.wrote /\ k \in 1..Len(Path)
    BY PathType DEF PInv, Nested
  <2>8. ASSUME NEW k \in 1..Len(Path) - 1
        PROVE  /\ definedIn'[Path[k + 1]] = Path[k]
               /\ \A y \in contents'[Path[k]] \cap walk.wrote :
                    index'[y] <= index'[Path[k + 1]]
    <3>1. Path[k + 1] \in walk.wrote /\ Path[k] \in Servants
      BY <2>4, <2>7
    <3>2. /\ definedIn'[Path[k + 1]] = definedIn[Path[k + 1]]
          /\ index'[Path[k + 1]] = index[Path[k + 1]]
          /\ contents'[Path[k]] \cap walk.wrote = contents[Path[k]] \cap walk.wrote
      BY <2>2, <2>3, <3>1
    <3> QED
      BY <2>2, <2>6, <3>2
  <2> QED
    BY <1>2, <2>1, <2>3, <2>5, <2>6, <2>8 DEF Standing
<1> QED
  BY <1>1, <1>2, <1>3, RequestFields DEF Standing

\* What a request leaves due is where it was.
LEMMA RequestAhead ==
    ASSUME PInv, Request, GInv'
    PROVE  Ahead'
<1> USE ConstantsAssumption
<1>1. Path' = Path /\ InContents' = InContents
  BY RequestFields, SamePath
<1>2. ASSUME NEW o \in walk'.due
      PROVE  /\ o \in walk.due /\ o \in Objs /\ o \notin Changed
             /\ \A x \in Changed : o \notin ContainedObjectSet(x)
  <2>1. o \in walk.due /\ \A x \in Changed : o \notin ContainedObjectSet(x)
    BY <1>2, RequestFields
  <2> QED
    BY <2>1 DEF PInv, WalkOK, ContainedObjectSet
<1>3. ASSUME NEW o \in walk'.due
      PROVE  /\ IsActive(o) /\ IsActive(o)' /\ definedIn'[o] = definedIn[o]
             /\ index'[o] = index[o] /\ (o \in anonymous' => o \in anonymous)
  <2>1. o \in Objs /\ IsActive(o)
    BY <1>2 DEF PInv, Ahead
  <2>2. life'[o] = life[o] /\ definedIn'[o] = definedIn[o]
    BY <1>2 DEF Changed, Says
  <2>3. index'[o] = index[o] /\ kind'[o] = kind[o]
    BY <2>1, <2>2, Steady DEF PInv, Request, IsActive
  <2> QED
    BY <2>1, <2>2, <2>3 DEF PInv, GInv, Listed, IsActive
<1>4. walk'.due \cap (walk'.wrote \cup walk'.past) = {}
  BY <1>2, RequestFields DEF PInv, Ahead
<1>5. InContents' => walk'.due \cap anonymous' = {}
  BY <1>1, <1>2, <1>3 DEF PInv, Ahead
<1>6. ASSUME NEW o \in walk'.due, definedIn'[o] # NoObj
      PROVE  definedIn'[o] \in walk'.due \cup Range(Path')
  <2>1. definedIn[o] \in walk.due \cup Range(Path)
    BY <1>2, <1>3, <1>6 DEF PInv, Ahead
  <2>2. ASSUME definedIn[o] \in walk.due PROVE definedIn[o] \in walk'.due
    <3> SUFFICES ASSUME NEW x \in Changed, definedIn[o] \in ContainedObjectSet(x)
                 PROVE  FALSE
      BY <2>2, RequestFields
    <3>1. o \in ContainedObjectSet(x)
      BY <1>2, ContentsStayWith DEF PInv, Changed
    <3> QED
      BY <1>2, <3>1
  <2> QED
    BY <1>1, <1>3, <2>1, <2>2
<1>7. ASSUME NEW o \in walk'.due, NEW k \in 1..Len(Path') - 1,
             definedIn'[o] = Path'[k], IsActive(Path[k + 1])'
      PROVE  index'[Path'[k + 1]] <= index'[o]
  <2>1. Path[k + 1] \in walk.wrote /\ Path[k + 1] \in Objs
    BY <1>1, <1>7 DEF PInv, Nested, WalkOK
  <2>2. life[Path[k + 1]] # "unborn" /\ life'[Path[k + 1]] = "active"
    BY <1>1, <1>7, <2>1 DEF PInv, Visited, IsActive
  <2>3. IsActive(Path[k + 1]) /\ index'[Path[k + 1]] = index[Path[k + 1]]
    BY <2>1, <2>2, Steady DEF PInv, Request, IsActive
  <2> QED
    BY <1>1, <1>2, <1>3, <1>7, <2>3 DEF PInv, Ahead
<1> QED
  BY <1>3, <1>4, <1>5, <1>6, <1>7 DEF Ahead

LEMMA RequestPInv ==
    ASSUME PInv, Request
    PROVE  PInv'
<1>1. GInv'
  BY NextGInv DEF PInv, Request
<1>2. Idle' /\ WalkOK' /\ Made'
  <2>1. ASSUME NEW x \in Objs, life'[x] = "active" PROVE kind'[x] # "None"
    <3>1. life[x] # "unborn" => IsActive(x) /\ kind'[x] = kind[x]
      BY <2>1, Steady DEF PInv, Request, IsActive
    <3>2. life[x] = "unborn" => kind'[x] # "None"
      BY <2>1, Steady DEF PInv, Request
    <3> QED
      BY <3>1, <3>2 DEF PInv, Made
  <2> QED
    BY <2>1, RequestFields DEF PInv, Idle, Made, IsActive
<1>3. Tree' /\ Records'
  <2>1. file' = file /\ Tree' /\ (\A t \in Objs : life[t] # "unborn" => life'[t] # "unborn")
    BY RequestFields, Steady DEF PInv, Tree, Request
  <2>2. \A p \in DOMAIN file : file[p] # Branch => file[p].refs \subseteq Objs \cup {Prim}
    BY DEF PInv, Records, Attributes
  <2> QED
    BY <2>1, <2>2 DEF PInv, Records
<1>4. Kept' /\ Fits' /\ Apart' /\ TopsWhole'
  BY RequestFields DEF PInv, Kept, Fits, Apart, TopsWhole
<1> QED
  BY <1>1, <1>2, <1>3, <1>4, RequestWritten, RequestStanding, RequestAhead DEF PInv

LEMMA SetVersionPInv ==
    ASSUME PInv, NEW o \in Objs, SetVersion(o)
    PROVE  PInv'
<1>1. UNCHANGED <<vars, file, opened, server, walk, saved>>
  BY DEF SetVersion
<1>2. UNCHANGED <<life, kind, definedIn, contents, index, anonymous, name, absName, id>>
  BY <1>1 DEF vars, tree, naming, ids
<1>3. GInv'
  BY <1>1, NextGInv DEF PInv
<1>4. Idle' /\ Made' /\ WalkOK' /\ Tree' /\ Records'
  BY <1>1, <1>2 DEF PInv, Idle, Made, IsActive, WalkOK, Tree, Records
<1>5. Kept' /\ Fits' /\ Apart' /\ TopsWhole'
  BY <1>1 DEF PInv, Kept, Fits, Apart, TopsWhole
<1>6. Written'
  BY <1>1, <1>2 DEF PInv, Written, IsActive, PathOf, PathTo, AbsoluteName
<1>7. Path' = Path /\ InContents' = InContents
  BY <1>1 DEF Path, InContents
<1>8. Visited' /\ Nested' /\ Standing' /\ Ahead'
  BY <1>1, <1>2, <1>7 DEF PInv, Visited, Nested, Standing, Ahead, IsActive
<1> QED
  BY <1>3, <1>4, <1>5, <1>6, <1>8 DEF PInv

LEMMA BeginPInv ==
    ASSUME PInv, BeginCheckpoint
    PROVE  PInv'
<1> USE ConstantsAssumption
<1>1. /\ UNCHANGED <<life, kind, definedIn, contents, index, anonymous, vars>>
      /\ server = "up" /\ server' = "up" /\ saved' = <<>>
      /\ file' = file \/ file' = <<>>
      /\ walk' = [NoWalk EXCEPT !.on = TRUE, !.due = {o \in Objs : life[o] = "active"}]
  BY DEF BeginCheckpoint, vars, tree
<1>2. GInv'
  BY <1>1, NextGInv DEF PInv
<1>3. /\ walk'.on = TRUE /\ walk'.at = <<>> /\ walk'.wrote = {} /\ walk'.past = {}
      /\ walk'.due = {o \in Objs : life[o] = "active"}
  BY <1>1 DEF NoWalk
<1>4. Idle' /\ Made' /\ WalkOK'
  BY <1>1, <1>3, NoPaths DEF PInv, Idle, Made, IsActive, WalkOK, NoWalk
<1>5. Tree' /\ Records'
  BY <1>1, NoPaths DEF PInv, Tree, Records
<1>6. Kept' /\ Fits' /\ Apart' /\ TopsWhole'
  BY <1>1, NoPaths DEF Kept, Fits, Apart, TopsWhole
<1>7. Path' = <<Root>> /\ ~ InContents'
  BY <1>3 DEF Path, InContents
<1>8. Written' /\ Visited' /\ Nested' /\ Standing'
  BY <1>1, <1>3, <1>7, NoPaths, StartPath DEF Written, Visited, Nested, Standing
<1>9. ASSUME NEW o \in Objs, definedIn[o] # NoObj
      PROVE  definedIn[o] \in walk'.due \cup {Root}
  <2>1. definedIn[o] \in Objs \cup {Root} /\ o \in contents[definedIn[o]]
    BY <1>9 DEF PInv, GInv, IInv, TypeOK, ContainmentSound, Servants
  <2>2. IsActive(definedIn[o])
    BY <2>1 DEF PInv, GInv, Held, Servants
  <2> QED
    BY <1>3, <2>1, <2>2 DEF IsActive
<1>10. Ahead'
  BY <1>1, <1>3, <1>7, <1>9, StartPath DEF Ahead, IsActive
<1> QED
  BY <1>2, <1>4, <1>5, <1>6, <1>8, <1>10 DEF PInv

LEMMA EndPInv ==
    ASSUME PInv, EndCheckpoint
    PROVE  PInv'
<1>1. UNCHANGED <<vars, life, kind, file, server, saved>> /\ walk' = NoWalk
  BY DEF EndCheckpoint, vars
<1>2. GInv'
  BY <1>1, NextGInv DEF PInv
<1>3. Idle' /\ Made' /\ Tree' /\ Records'
  BY <1>1, NoWalkNext DEF PInv, Idle, Made, Tree, Records, IsActive
<1>4. Kept' /\ Fits' /\ Apart' /\ TopsWhole'
  BY <1>1 DEF PInv, Kept, Fits, Apart, TopsWhole
<1> QED
  BY <1>1, <1>2, <1>3, <1>4, NoWalkNext DEF PInv

\* Without definitions the Repository is empty, and nothing refers to a type.
LEMMA ForgetGInv ==
    ASSUME GInv, Forget
    PROVE  GInv' /\ \A o \in Objs : ~ IsActive(o)' /\ (life[o] # "unborn" => life'[o] # "unborn")
<1> USE ConstantsAssumption
<1>1. /\ life' = [s \in Servants |->
                    IF s \in Objs /\ life[s] = "active" THEN "gone" ELSE life[s]]
      /\ definedIn' = [o \in Objs |-> NoObj] /\ contents' = [s \in Servants |-> {}]
      /\ index' = [o \in Objs |-> 0] /\ anonymous' = {}
      /\ name' = [o \in Objs |-> NoString] /\ absName' = [o \in Objs |-> <<>>]
      /\ id' = [o \in Objs |-> NoString] /\ idmap' = [i \in Ids |-> NoObj]
      /\ refs' = [s \in Servants |-> {}] /\ deps' = [s \in Servants |-> {}]
      /\ crash' = "no" /\ kind' = kind
  BY DEF Forget
<1>2. TypeOK
  BY DEF GInv, IInv
<1>3. \A o \in Objs : life'[o] # "active" /\ (life[o] # "unborn" => life'[o] # "unborn")
  BY <1>1, <1>2 DEF Servants, TypeOK
<1>4. TypeOK'
  <2>1. <<>> \in Seq(Names)
    OBVIOUS
  <2>2. /\ life' \in [Servants -> {"unborn", "active", "gone"}] /\ kind' \in [Servants -> AllKinds]
        /\ definedIn' \in [Objs -> Objs \cup {Root, NoObj}]
        /\ contents' \in [Servants -> SUBSET Objs] /\ index' \in [Objs -> Nat]
    BY <1>1, <1>2 DEF TypeOK
  <2> QED
    BY <1>1, <2>1, <2>2 DEF TypeOK
<1>5. FixedServants' /\ Rooted'
  BY <1>1, <1>2 DEF GInv, IInv, FixedServants, Rooted, IsActive, TypeOK, Servants
<1>6. /\ IdmapSound' /\ ContainmentSound' /\ SiblingNamesDistinct'
      /\ DependencySound' /\ UnresolvedMeansGone'
  BY <1>1
     DEF IdmapSound, ContainmentSound, SiblingNamesDistinct, DependencySound,
         UnresolvedMeansGone, Servants
<1>7. Placed' /\ Held' /\ Named' /\ Registered'
  BY <1>1, <1>3 DEF Placed, Held, Named, Registered, IsActive
<1>8. NestingEnds' /\ Fitting' /\ Listed' /\ Referring'
  BY <1>1, <1>3 DEF NestingEnds, Fitting, Listed, Referring, IsActive, Servants
<1> QED
  BY <1>3, <1>4, <1>5, <1>6, <1>7, <1>8 DEF GInv, IInv, IsActive

LEMMA StopPInv ==
    ASSUME PInv, Stop
    PROVE  PInv'
<1>1. /\ Forget /\ walk' = NoWalk /\ file' = file /\ server' = "down"
      /\ saved' # Unknown => saved' = saved
  BY DEF Stop, Forget
<1>2. GInv' /\ \A o \in Objs : ~ IsActive(o)' /\ (life[o] # "unborn" => life'[o] # "unborn")
  BY <1>1, ForgetGInv DEF PInv
<1>3. Idle' /\ Made' /\ Tree'
  BY <1>1, <1>2, NoWalkNext DEF PInv, Idle, Made, Tree
<1>4. Records'
  <2>1. \A p \in DOMAIN file : file[p] # Branch => file[p].refs \subseteq Objs \cup {Prim}
    BY DEF PInv, Records, Attributes
  <2> QED
    BY <1>1, <1>2, <2>1 DEF PInv, Records
<1>5. Kept' /\ Fits' /\ Apart' /\ TopsWhole'
  BY <1>1 DEF PInv, Kept, Fits, Apart, TopsWhole
<1> QED
  BY <1>1, <1>2, <1>3, <1>4, <1>5, NoWalkNext DEF PInv

-----------------------------------------------------------------------------
(* A record is written.                                                    *)

\* addnode() replaces what is at and under the path, and nothing else.
LEMMA AddNodeTree ==
    ASSUME Tree, NEW p \in NodePaths, NEW a, file' = AddNode(file, p, a)
    PROVE  /\ Tree' /\ p \in DOMAIN file' /\ file'[p] = a
           /\ DOMAIN file' = {q \in DOMAIN file : p \notin NodesTo(q)} \cup NodesTo(p)
           /\ \A q \in DOMAIN file : p \notin NodesTo(q) => file'[q] = file[q]
           /\ \A q \in DOMAIN file' :
                q = p \/ file'[q] = Branch \/ (q \in DOMAIN file /\ file'[q] = file[q])
<1> DEFINE kept == {q \in DOMAIN file : p \notin NodesTo(q)}
<1>1. p \in Seq(Names \cup Objs) /\ p # <<>> /\ p \in NodesTo(p)
  <2>1. p \in Seq(Names \cup Objs) /\ p # <<>>
    BY DEF NodePaths
  <2>2. Len(p) \in 1..Len(p) /\ SubSeq(p, 1, Len(p)) = p
    BY <2>1, PathEnds, SubSeqFull
  <2> QED
    BY <2>1, <2>2 DEF NodesTo
<1>2. \A q \in DOMAIN file : q \in Seq(Names \cup Objs)
  BY DEF Tree, NodePaths
<1>3. kept = {q \in DOMAIN file : ~ IsPrefix(p, q)}
  BY <1>1, <1>2, PrefixOf
<1>4. file' = [q \in kept \cup NodesTo(p) |->
                IF q = p THEN a ELSE IF q \in kept THEN file[q] ELSE Branch]
  BY <1>3 DEF AddNode, NodesTo
<1>5. p \notin kept
  BY <1>1
<1>6. ASSUME NEW q \in NodePaths, NEW r \in NodesTo(q)
      PROVE  r \in NodePaths /\ NodesTo(r) \subseteq NodesTo(q)
  <2>1. PICK k \in 1..Len(q) : r = SubSeq(q, 1, k)
    BY DEF NodesTo
  <2>2. /\ r \in Seq(Names \cup Objs) /\ r # <<>> /\ Len(r) = k
        /\ \A j \in 1..k : SubSeq(r, 1, j) = SubSeq(q, 1, j)
    <3>1. q \in Seq(Names \cup Objs)
      BY DEF NodePaths
    <3> QED
      BY <2>1, <3>1, CutNode
  <2>3. Len(q) \in Nat
    BY LenProperties DEF NodePaths
  <2> QED
    BY <2>2, <2>3 DEF NodesTo, NodePaths
<1>7. ASSUME NEW q \in kept PROVE NodesTo(q) \subseteq kept
  <2>1. q \in NodePaths /\ NodesTo(q) \subseteq DOMAIN file
    BY DEF Tree
  <2> QED
    BY <1>6, <1>7, <2>1
<1>8. DOMAIN file' = kept \cup NodesTo(p)
  BY <1>4
<1>9. Tree'
  BY <1>6, <1>7, <1>8 DEF Tree
<1>10. p \in DOMAIN file' /\ file'[p] = a
  BY <1>1, <1>4, <1>8
<1>11. \A q \in kept : file'[q] = file[q]
  BY <1>4, <1>5
<1>12. \A q \in DOMAIN file' : q = p \/ file'[q] = Branch \/ q \in kept
  BY <1>4, <1>8
<1> QED
  BY <1>1, <1>8, <1>9, <1>10, <1>11, <1>12

\* What a record says of a live definition can be read back.
LEMMA AttrsType ==
    ASSUME GInv, NEW o \in Objs, IsActive(o),
           kind[o] \in ContainedKinds \cup AnonymousKinds
    PROVE  /\ AttrsOf(o) \in Attributes /\ AttrsOf(o) # Branch
           /\ AttrsOf(o).oid = o /\ AttrsOf(o).id = id[o] /\ AttrsOf(o).class = kind[o]
           /\ AttrsOf(o).refs = refs[o] /\ AttrsOf(o).index = index[o]
           /\ \A t \in refs[o] : t = Prim \/ life[t] # "unborn"
<1>1. AttrsOf(o) \in Attributes
  BY DEF AttrsOf, Attributes, GInv, IInv, TypeOK, Servants
<1>2. AttrsOf(o) # Branch
  BY <1>1, PersistenceAssumption
<1>3. \A t \in refs[o] : t = Prim \/ life[t] # "unborn"
  BY DEF GInv, IInv, DependencySound, UnresolvedMeansGone, IsActive, Servants
<1> QED
  BY <1>1, <1>2, <1>3 DEF AttrsOf

\* A definition is either in a container or among the anonymous types.
LEMMA LiveKinds ==
    ASSUME GInv, NEW o \in Objs, o \in anonymous \/ definedIn[o] # NoObj
    PROVE  /\ IsActive(o)
           /\ o \in anonymous => kind[o] \in AnonymousKinds /\ definedIn[o] = NoObj
           /\ o \notin anonymous =>
                kind[o] \in ContainedKinds /\ definedIn[o] \in Objs \cup {Root}
           /\ kind[o] \in ContainedKinds <=> o \notin anonymous
<1>1. ContainedKinds \cap AnonymousKinds = {}
  BY DEF ContainedKinds, AnonymousKinds
<1> QED
  BY <1>1 DEF GInv, Placed, Listed, IInv, TypeOK

\* The path of a definition that is about to be written, or was, leads through
\* what it is in.
NamedPathFits(o) ==
    LET p == PathOf(o) IN
    /\ p \in Seq(Names) /\ p # <<>> /\ Last(p) = name[o]
    /\ definedIn[o] = Root => Len(p) = 1 /\ Front(p) = <<>>
    /\ definedIn[o] # Root =>
        /\ definedIn[o] \in walk.wrote /\ definedIn[o] \notin anonymous
        /\ Len(p) > 1 /\ Front(p) # <<>>
        /\ Front(p) = PathOf(definedIn[o]) /\ Front(p) \in DOMAIN saved
        /\ saved[Front(p)].oid = definedIn[o]
        /\ saved[Front(p)].class = kind[definedIn[o]]

LEMMA NamedPath ==
    ASSUME PInv, walk.on, saved # Unknown,
           NEW o \in Objs, o \notin anonymous, definedIn[o] \in walk.wrote \cup {Root},
           PathOf(o) = PathTo(o)
    PROVE  NamedPathFits(o)
<1> USE ConstantsAssumption
<1>1. definedIn[o] # NoObj /\ definedIn[o] \in Objs \cup {Root}
  BY DEF PInv, WalkOK, Servants
<1>2. name[o] \in Names /\ PathOf(o) = AbsoluteName(definedIn[o], name[o])
  BY <1>1 DEF PInv, GInv, Named, PathTo
<1>3. CASE definedIn[o] = Root
  <2>1. PICK s \in Seq(Names) : s = <<>> /\ Len(s) = 0 /\ PathOf(o) = Append(s, name[o])
    BY <1>2, <1>3, EmptySeq DEF AbsoluteName
  <2>2. /\ PathOf(o) \in Seq(Names) /\ PathOf(o) # <<>> /\ Len(PathOf(o)) = 1
        /\ Front(PathOf(o)) = <<>> /\ Last(PathOf(o)) = name[o]
    <3>1. PathOf(o) = Append(s, name[o]) /\ name[o] \in Names
      BY <1>2, <2>1
    <3>2. /\ PathOf(o) \in Seq(Names) /\ PathOf(o) # <<>> /\ Len(PathOf(o)) = Len(s) + 1
          /\ Front(PathOf(o)) = s /\ Last(PathOf(o)) = name[o]
      BY <3>1, AppendPath
    <3> QED
      BY <2>1, <3>2
  <2> QED
    BY <1>3, <2>2 DEF NamedPathFits
<1>4. CASE definedIn[o] # Root
  <2> DEFINE c == definedIn[o]
  <2>1. c \in walk.wrote /\ c \in Objs
    BY <1>1, <1>4
  <2>2. c \notin anonymous /\ kind[c] \in ContainedKinds
    <3>1. contents[c] # {}
      BY <1>1, <2>1 DEF PInv, GInv, IInv, ContainmentSound, Servants
    <3>2. kind[c] \in ContainerKinds
      BY <2>1, <3>1 DEF PInv, GInv, Held, Servants
    <3> QED
      BY <2>1, <3>2
         DEF PInv, GInv, Listed, Rooted, ContainerKinds, ContainedKinds, AnonymousKinds
  <2>3. /\ PathOf(c) \in DOMAIN saved /\ saved[PathOf(c)].oid = c
        /\ saved[PathOf(c)].class = kind[c] /\ IsActive(c)
    BY <2>1 DEF PInv, Written
  <2>4. PathOf(c) = absName[c] /\ absName[c] \in Seq(Names) /\ absName[c] # <<>>
    <3>1. definedIn[c] # NoObj
      BY <2>1, <2>2, <2>3 DEF PInv, GInv, Placed
    <3> QED
      BY <2>1, <2>2, <3>1 DEF PathOf, PInv, GInv, Named, IInv, TypeOK
  <2>5. PathOf(o) = Append(absName[c], name[o])
    BY <1>2, <1>4 DEF AbsoluteName
  <2>6. /\ PathOf(o) \in Seq(Names) /\ PathOf(o) # <<>>
        /\ Len(PathOf(o)) = Len(absName[c]) + 1
        /\ Front(PathOf(o)) = absName[c] /\ Last(PathOf(o)) = name[o]
    <3>1. name[o] \in Names /\ absName[c] \in Seq(Names)
      BY <1>2, <2>4
    <3> HIDE DEF c
    <3> QED
      BY <2>5, <3>1, AppendPath
  <2>7. Len(absName[c]) \in Nat \ {0}
    BY <2>4, EmptySeq
  <2> QED
    BY <1>4, <2>1, <2>2, <2>3, <2>4, <2>6, <2>7 DEF NamedPathFits
<1> QED
  BY <1>3, <1>4

\* Two paths to one place are for definitions in one container.
LEMMA SamePlace ==
    ASSUME PInv, walk.on, saved # Unknown,
           NEW o \in Objs, NamedPathFits(o), NEW x \in Objs, NamedPathFits(x),
           Front(PathOf(o)) = Front(PathOf(x))
    PROVE  definedIn[o] = definedIn[x]
BY DEF NamedPathFits

\* The nodes on the way to a path are those on the way to what it is in, and it.
LEMMA NodesToFront ==
    ASSUME NEW S, NEW p \in Seq(S), p # <<>>
    PROVE  /\ p \in NodesTo(p)
           /\ Len(p) = 1 => NodesTo(p) = {p}
           /\ Len(p) > 1 => /\ NodesTo(p) = NodesTo(Front(p)) \cup {p}
                            /\ Front(p) \in NodesTo(p) /\ Head(Front(p)) = Head(p)
<1>1. Len(p) \in Nat /\ Len(p) >= 1 /\ SubSeq(p, 1, Len(p)) = p
  BY PathEnds, SubSeqFull
<1>2. p \in NodesTo(p)
  <2>1. Len(p) \in 1..Len(p)
    BY <1>1
  <2> QED
    BY <1>1, <2>1 DEF NodesTo
<1>3. ASSUME Len(p) = 1 PROVE NodesTo(p) = {p}
  BY <1>1, <1>3 DEF NodesTo
<1>4. ASSUME Len(p) > 1
      PROVE  /\ NodesTo(p) = NodesTo(Front(p)) \cup {p}
             /\ Front(p) \in NodesTo(p) /\ Head(Front(p)) = Head(p)
  <2>1. Len(p) - 1 \in 1..Len(p) /\ Front(p) = SubSeq(p, 1, Len(p) - 1)
    BY <1>1, <1>4, PathEnds
  <2>2. /\ Len(Front(p)) = Len(p) - 1 /\ Head(Front(p)) = Head(p)
        /\ \A j \in 1..(Len(p) - 1) : SubSeq(Front(p), 1, j) = SubSeq(p, 1, j)
    BY <2>1, CutPath
  <2>3. ASSUME NEW r \in NodesTo(p), r # p PROVE r \in NodesTo(Front(p))
    <3>1. PICK k \in 1..Len(p) : r = SubSeq(p, 1, k)
      BY <2>3 DEF NodesTo
    <3>2. k # Len(p)
      BY <1>1, <2>3, <3>1
    <3>3. k \in 1..(Len(p) - 1)
      <4>1. \A n \in Nat : \A j \in 1..n : j # n => j \in 1..(n - 1)
        OBVIOUS
      <4> QED
        BY <1>1, <3>1, <3>2, <4>1
    <3>4. r = SubSeq(Front(p), 1, k) /\ k \in 1..Len(Front(p))
      BY <1>1, <2>2, <3>1, <3>3
    <3> QED
      BY <3>4 DEF NodesTo
  <2>4. ASSUME NEW r \in NodesTo(Front(p)) PROVE r \in NodesTo(p)
    <3>1. PICK k \in 1..(Len(p) - 1) : r = SubSeq(p, 1, k)
      BY <2>2 DEF NodesTo
    <3> QED
      BY <1>1, <3>1 DEF NodesTo
  <2> QED
    BY <1>2, <2>1, <2>2, <2>3, <2>4 DEF NodesTo
<1> QED
  BY <1>2, <1>3, <1>4

\* What the walk is about to write: a live definition it has not written, under
\* its own name, in something it has.
Writable(o) ==
    /\ o \in Objs \ walk.wrote
    /\ o \in anonymous \/ (definedIn[o] # NoObj /\ definedIn[o] \in walk.wrote \cup {Root})

LEMMA WrittenPath ==
    ASSUME PInv, walk.on, saved # Unknown, NEW x \in walk.wrote
    PROVE  /\ x \in Objs /\ (x \in anonymous \/ definedIn[x] # NoObj)
           /\ x \notin anonymous => NamedPathFits(x)
           /\ x \in anonymous => PathOf(x) = <<x>>
           /\ PathOf(x) \in DOMAIN saved
           /\ saved[PathOf(x)].oid = x /\ saved[PathOf(x)].id = id[x]
           /\ saved[PathOf(x)].class = kind[x]
<1> USE ConstantsAssumption
<1>1. /\ x \in Objs /\ IsActive(x) /\ PathOf(x) = PathTo(x)
      /\ x \notin anonymous => definedIn[x] \in walk.wrote \cup {Root}
      /\ PathOf(x) \in DOMAIN saved
      /\ saved[PathOf(x)].oid = x /\ saved[PathOf(x)].id = id[x]
      /\ saved[PathOf(x)].class = kind[x]
  BY DEF PInv, Written, WalkOK
<1>2. x \notin anonymous => NamedPathFits(x) /\ definedIn[x] # NoObj
  BY <1>1, NamedPath DEF PInv, WalkOK, Servants
<1> QED
  BY <1>1, <1>2 DEF PathOf

LEMMA NewPath ==
    ASSUME PInv, walk.on, saved # Unknown,
           NEW o, Writable(o), PathOf(o) = PathTo(o)
    PROVE  LET p == PathOf(o) IN
           /\ p \in NodePaths
           /\ o \in anonymous => Len(p) = 1 /\ NodesTo(p) = {p}
           /\ o \notin anonymous => NamedPathFits(o)
           /\ \A x \in walk.wrote : PathOf(x) # p
           /\ p \notin DOMAIN saved
           /\ NodesTo(p) \subseteq DOMAIN saved \cup {p}
           /\ \A q \in DOMAIN saved : p \notin NodesTo(q)
<1> USE ConstantsAssumption, PersistenceAssumption
<1> DEFINE p == PathOf(o)
<1>1. o \in Objs /\ o \notin walk.wrote /\ (o \in anonymous \/ definedIn[o] # NoObj)
  BY DEF Writable
<1>2. o \notin anonymous => NamedPathFits(o)
  BY <1>1, NamedPath DEF Writable
<1>3. ASSUME o \in anonymous
      PROVE  p = <<o>> /\ p \in NodePaths /\ Len(p) = 1 /\ NodesTo(p) = {p}
  <2>1. p = <<o>>
    BY <1>3 DEF PathOf
  <2>2. <<o>> \in Seq(Names \cup Objs) /\ <<o>> # <<>> /\ Len(<<o>>) = 1
    BY <1>1
  <2> QED
    BY <2>1, <2>2, NodesToFront DEF NodePaths
<1>4. ASSUME o \notin anonymous
      PROVE  p \in NodePaths
  <2>1. p \in Seq(Names) /\ p # <<>>
    BY <1>2, <1>4 DEF NamedPathFits
  <2>2. p \in Seq(Names \cup Objs)
    BY <2>1, SeqMonotonic
  <2> QED
    BY <2>1, <2>2 DEF NodePaths
<1>5. ASSUME NEW x \in walk.wrote, PathOf(x) = p
      PROVE  FALSE
  <2>1. /\ x \in Objs /\ x # o /\ (x \in anonymous \/ definedIn[x] # NoObj)
        /\ x \notin anonymous => NamedPathFits(x)
        /\ x \in anonymous => PathOf(x) = <<x>>
    BY <1>1, WrittenPath
  <2>2. CASE o \in anonymous /\ x \in anonymous
    BY <1>3, <1>5, <2>1, <2>2
  <2>3. CASE o \in anonymous /\ x \notin anonymous
    <3>1. <<o>> \in Seq(Names)
      BY <1>3, <1>5, <2>1, <2>3 DEF NamedPathFits
    <3>2. o \in Names
      BY <3>1
    <3> QED
      BY <1>1, <3>2
  <2>4. CASE o \notin anonymous /\ x \in anonymous
    <3>1. <<x>> \in Seq(Names)
      BY <1>2, <1>5, <2>1, <2>4 DEF NamedPathFits
    <3>2. x \in Names
      BY <3>1
    <3> QED
      BY <2>1, <3>2
  <2>5. CASE o \notin anonymous /\ x \notin anonymous
    <3>1. definedIn[o] = definedIn[x]
      BY <1>1, <1>2, <1>5, <2>1, <2>5, SamePlace
    <3>2. name[o] = name[x]
      BY <1>2, <1>5, <2>1, <2>5 DEF NamedPathFits
    <3> QED
      BY <1>1, <2>1, <2>5, <3>1, <3>2 DEF PInv, GInv, IInv, SiblingNamesDistinct
  <2> QED
    BY <2>2, <2>3, <2>4, <2>5
<1>6. p \notin DOMAIN saved
  BY <1>5 DEF PInv, Written
<1>7. \A q \in DOMAIN saved : p \notin NodesTo(q)
  BY <1>6 DEF PInv, Kept
<1>8. NodesTo(p) \subseteq DOMAIN saved \cup {p}
  <2>1. CASE o \in anonymous
    BY <1>3, <2>1
  <2>2. CASE o \notin anonymous
    <3>1. p \in Seq(Names) /\ p # <<>>
      BY <1>2, <2>2 DEF NamedPathFits
    <3>2. CASE definedIn[o] = Root
      BY <1>2, <2>2, <3>1, <3>2, NodesToFront DEF NamedPathFits
    <3>3. CASE definedIn[o] # Root
      <4>1. Len(p) > 1 /\ Front(p) \in DOMAIN saved
        BY <1>2, <2>2, <3>3 DEF NamedPathFits
      <4>2. NodesTo(Front(p)) \subseteq DOMAIN saved
        BY <4>1 DEF PInv, Kept
      <4> QED
        BY <3>1, <4>1, <4>2, NodesToFront
    <3> QED
      BY <3>2, <3>3
  <2> QED
    BY <2>1, <2>2
<1> QED
  BY <1>2, <1>3, <1>4, <1>5, <1>6, <1>7, <1>8

\* At the top, a path is its head.
LEMMA SingleStep ==
    ASSUME NEW S, NEW p \in Seq(S), NEW q \in Seq(S), Len(p) = 1, Len(q) = 1,
           Head(p) = Head(q)
    PROVE  p = q
<1>1. p # <<>> /\ q # <<>>
  BY EmptySeq
<1>2. p[1] = q[1]
  BY <1>1
<1> QED
  BY <1>2, SeqEqual

LEMMA WriteRecords ==
    ASSUME PInv, NEW o \in Objs, o \in anonymous \/ definedIn[o] # NoObj,
           file' = AddNode(file, PathOf(o), AttrsOf(o)), life' = life
    PROVE  Tree' /\ Records'
<1> USE ConstantsAssumption
<1> DEFINE p == PathOf(o)
<1>1. kind[o] \in ContainedKinds \cup AnonymousKinds /\ IsActive(o)
  BY LiveKinds DEF PInv
<1>2. kind[o] \in ContainedKinds => p \in Seq(Names) \ {<<>>} /\ id[o] \in Ids
  <2>1. ASSUME kind[o] \in ContainedKinds
        PROVE  o \notin anonymous /\ definedIn[o] # NoObj
    BY <2>1, LiveKinds DEF PInv
  <2> QED
    BY <2>1 DEF PathOf, PInv, GInv, Named, Registered, IInv, TypeOK
<1>3. p \in NodePaths
  <2>1. CASE o \in anonymous
    <3>1. <<o>> \in Seq(Names \cup Objs) /\ <<o>> # <<>>
      OBVIOUS
    <3> QED
      BY <2>1, <3>1 DEF PathOf, NodePaths
  <2>2. CASE o \notin anonymous
    <3>1. p \in Seq(Names) \ {<<>>}
      BY <1>2, <2>2, LiveKinds DEF PInv
    <3>2. p \in Seq(Names \cup Objs)
      BY <3>1, SeqMonotonic
    <3> QED
      BY <3>1, <3>2 DEF NodePaths
  <2> QED
    BY <2>1, <2>2
<1>4. /\ Tree' /\ file'[p] = AttrsOf(o)
      /\ \A q \in DOMAIN file' :
            q = p \/ file'[q] = Branch \/ (q \in DOMAIN file /\ file'[q] = file[q])
  BY <1>3, AddNodeTree DEF PInv
<1>5. /\ AttrsOf(o) \in Attributes /\ AttrsOf(o).id = id[o] /\ AttrsOf(o).class = kind[o]
      /\ AttrsOf(o).refs = refs[o]
      /\ \A t \in refs[o] : t = Prim \/ life[t] # "unborn"
  BY <1>1, AttrsType DEF PInv
<1>6. Records'
  <2> SUFFICES ASSUME NEW q \in DOMAIN file', file'[q] # Branch
               PROVE  /\ file'[q] \in Attributes
                      /\ file'[q].class \in ContainedKinds \cup AnonymousKinds
                      /\ file'[q].class \in ContainedKinds =>
                            q \in Seq(Names) /\ file'[q].id \in Ids
                      /\ \A t \in file'[q].refs : t = Prim \/ life'[t] # "unborn"
    BY DEF Records
  <2>1. CASE q = p
    BY <1>1, <1>2, <1>4, <1>5, <2>1
  <2>2. CASE q # p
    <3>1. q \in DOMAIN file /\ file'[q] = file[q]
      BY <1>4, <2>2
    <3> QED
      BY <3>1 DEF PInv, Records
  <2> QED
    BY <2>1, <2>2
<1> QED
  BY <1>4, <1>6

LEMMA WriteSaved ==
    ASSUME PInv, walk.on, saved # Unknown, NEW o, Writable(o), PathOf(o) = PathTo(o),
           file' = AddNode(file, PathOf(o), AttrsOf(o)),
           saved' = [p \in DOMAIN saved \cup {PathOf(o)} |->
                        IF p = PathOf(o) THEN AttrsOf(o) ELSE saved[p]]
    PROVE  Kept' /\ Fits' /\ Apart' /\ TopsWhole'
<1> USE ConstantsAssumption
<1> DEFINE p == PathOf(o)
<1>1. /\ p \in NodePaths
      /\ o \in anonymous => Len(p) = 1 /\ NodesTo(p) = {p}
      /\ o \notin anonymous => NamedPathFits(o)
      /\ \A x \in walk.wrote : PathOf(x) # p
      /\ p \notin DOMAIN saved
      /\ NodesTo(p) \subseteq DOMAIN saved \cup {p}
      /\ \A q \in DOMAIN saved : p \notin NodesTo(q)
  BY NewPath
<1>2. /\ p \in DOMAIN file' /\ file'[p] = AttrsOf(o)
      /\ DOMAIN file' = {q \in DOMAIN file : p \notin NodesTo(q)} \cup NodesTo(p)
      /\ \A q \in DOMAIN file : p \notin NodesTo(q) => file'[q] = file[q]
  BY <1>1, AddNodeTree DEF PInv
<1>3. /\ DOMAIN saved' = DOMAIN saved \cup {p} /\ saved'[p] = AttrsOf(o)
      /\ \A q \in DOMAIN saved : saved'[q] = saved[q]
  BY <1>1
<1>4. o \in Objs \ walk.wrote /\ (o \in anonymous \/ definedIn[o] # NoObj)
  BY DEF Writable
<1>5. /\ IsActive(o) /\ kind[o] \in ContainedKinds \cup AnonymousKinds
      /\ kind[o] \in ContainedKinds <=> o \notin anonymous
      /\ o \in anonymous => kind[o] \in AnonymousKinds
  BY <1>4, LiveKinds DEF PInv
<1>6. /\ AttrsOf(o) # Branch /\ AttrsOf(o).oid = o /\ AttrsOf(o).id = id[o]
      /\ AttrsOf(o).class = kind[o] /\ AttrsOf(o).refs = refs[o]
  BY <1>4, <1>5, AttrsType DEF PInv
<1>13. /\ Len(p) \in Nat /\ Len(p) >= 1 /\ (Len(p) > 1 => Len(p) # 1)
       /\ Len(p) = 1 \/ Len(p) > 1
  <2>1. p \in Seq(Names \cup Objs) /\ p # <<>>
    BY <1>1 DEF NodePaths
  <2>2. Len(p) \in Nat /\ Len(p) >= 1
    BY <2>1, PathEnds
  <2>3. \A n \in Nat : n >= 1 => (n > 1 => n # 1) /\ (n = 1 \/ n > 1)
    OBVIOUS
  <2> HIDE DEF p
  <2> QED
    BY <2>2, <2>3
<1>14. o \notin anonymous =>
        /\ definedIn[o] = Root => Len(p) = 1
        /\ definedIn[o] # Root =>
            /\ Len(p) > 1 /\ Front(p) \in DOMAIN saved
            /\ saved[Front(p)].class = kind[definedIn[o]]
  BY <1>1 DEF NamedPathFits
<1> HIDE DEF p
<1>7. Kept'
  <2> SUFFICES ASSUME NEW q \in DOMAIN saved'
               PROVE  /\ q \in DOMAIN file' /\ file'[q] = saved'[q] /\ saved'[q] # Branch
                      /\ NodesTo(q) \subseteq DOMAIN saved'
    BY DEF Kept
  <2>1. CASE q = p
    BY <1>1, <1>2, <1>3, <1>6, <2>1
  <2>2. CASE q \in DOMAIN saved
    <3>1. /\ q \in DOMAIN file /\ file[q] = saved[q] /\ saved[q] # Branch
          /\ NodesTo(q) \subseteq DOMAIN saved
      BY <2>2 DEF PInv, Kept
    <3> QED
      BY <1>1, <1>2, <1>3, <2>2, <3>1
  <2> QED
    BY <1>3, <2>1, <2>2
<1>8. Fits'
  <2> SUFFICES ASSUME NEW q \in DOMAIN saved'
               PROVE  /\ Len(q) = 1 =>
                            saved'[q].class \in Containable("Repository") \cup AnonymousKinds
                      /\ Len(q) > 1 =>
                            saved'[q].class \in Containable(saved'[Front(q)].class)
                      /\ saved'[q].class \in OneRefKinds => saved'[q].refs # {}
    BY DEF Fits
  <2>1. CASE q = p /\ o \in anonymous
    <3>1. kind[o] \in OneRefKinds => refs[o] # {}
      BY <1>4, <1>5 DEF PInv, GInv, Referring
    <3> QED
      BY <1>1, <1>3, <1>5, <1>6, <1>13, <2>1, <3>1
  <2>2. CASE q = p /\ o \notin anonymous
    <3>1. kind[o] \in Containable(kind[definedIn[o]])
      BY <1>4, <2>2 DEF PInv, GInv, Fitting
    <3>2. kind[o] \in OneRefKinds => refs[o] # {}
      BY <1>4, <1>5 DEF PInv, GInv, Referring
    <3>3. CASE definedIn[o] = Root
      <4>1. kind[Root] = "Repository"
        BY DEF PInv, GInv, Rooted
      <4> QED
        BY <1>3, <1>6, <1>13, <1>14, <2>2, <3>1, <3>2, <3>3, <4>1
    <3>4. CASE definedIn[o] # Root
      BY <1>3, <1>6, <1>13, <1>14, <2>2, <3>1, <3>2, <3>4
    <3> QED
      BY <3>3, <3>4
  <2>3. CASE q \in DOMAIN saved
    <3>1. Len(q) > 1 => Front(q) \in DOMAIN saved
      <4>1. q \in Seq(Names \cup Objs) /\ q # <<>> /\ NodesTo(q) \subseteq DOMAIN saved
        BY <2>3 DEF PInv, Kept, Tree, NodePaths
      <4> QED
        BY <4>1, NodesToFront
    <3> QED
      BY <1>3, <2>3, <3>1 DEF PInv, Fits
  <2> QED
    BY <1>3, <2>1, <2>2, <2>3
<1>9. ASSUME NEW q \in DOMAIN saved
      PROVE  /\ saved[q].oid # o
             /\ {saved[q].class, kind[o]} \subseteq ContainedKinds =>
                /\ saved[q].id # id[o]
                /\ Front(q) = Front(p) => CaseClass[Last(q)] # CaseClass[Last(p)]
  <2> DEFINE x == saved[q].oid
  <2>1. x \in walk.wrote /\ PathOf(x) = q
    BY DEF PInv, Written
  <2>2. /\ x \in Objs /\ x # o /\ (x \in anonymous \/ definedIn[x] # NoObj)
        /\ x \notin anonymous => NamedPathFits(x)
        /\ saved[q].id = id[x] /\ saved[q].class = kind[x]
    BY <1>4, <2>1, WrittenPath
  <2> SUFFICES ASSUME {kind[x], kind[o]} \subseteq ContainedKinds
               PROVE  /\ id[x] # id[o]
                      /\ Front(q) = Front(p) => CaseClass[Last(q)] # CaseClass[Last(p)]
    BY <2>2
  <2>3. x \notin anonymous /\ o \notin anonymous
    BY <1>5, <2>2, LiveKinds DEF PInv
  <2>4. id[x] # id[o]
    BY <1>4, <2>2, <2>3 DEF PInv, GInv, Registered
  <2>5. Last(q) = name[x] /\ Last(p) = name[o]
    BY <1>1, <2>1, <2>2, <2>3 DEF NamedPathFits, p
  <2>6. Front(q) = Front(p) => definedIn[x] = definedIn[o]
    BY <1>1, <1>4, <2>1, <2>2, <2>3, SamePlace DEF p
  <2> QED
    BY <1>4, <2>2, <2>3, <2>4, <2>5, <2>6 DEF PInv, GInv, IInv, SiblingNamesDistinct
<1>10. Apart'
  <2> SUFFICES ASSUME NEW q \in DOMAIN saved', NEW r \in DOMAIN saved', q # r
               PROVE  /\ saved'[q].oid # saved'[r].oid
                      /\ {saved'[q].class, saved'[r].class} \subseteq ContainedKinds =>
                        /\ saved'[q].id # saved'[r].id
                        /\ Front(q) = Front(r) => CaseClass[Last(q)] # CaseClass[Last(r)]
    BY DEF Apart
  <2>1. CASE q \in DOMAIN saved /\ r \in DOMAIN saved
    BY <1>3, <2>1 DEF PInv, Apart
  <2>2. CASE q \in DOMAIN saved /\ r = p
    BY <1>3, <1>6, <1>9, <2>2
  <2>3. CASE q = p /\ r \in DOMAIN saved
    BY <1>3, <1>6, <1>9, <2>3
  <2> QED
    BY <1>3, <2>1, <2>2, <2>3
<1>11. TopsWhole'
  <2> SUFFICES ASSUME NEW q \in DOMAIN file', NEW r \in DOMAIN saved', Head(q) = Head(r),
                      q \notin NodesTo(p)
               PROVE  q \in DOMAIN saved
    BY <1>1, <1>3 DEF TopsWhole
  <2>1. q \in DOMAIN file /\ p \notin NodesTo(q)
    BY <1>2
  <2>2. CASE r \in DOMAIN saved
    BY <2>1, <2>2 DEF PInv, TopsWhole
  <2>3. CASE r = p
    <3>1. p \in Seq(Names \cup Objs) /\ p # <<>> /\ q \in Seq(Names \cup Objs) /\ q # <<>>
      BY <1>1, <2>1 DEF PInv, Tree, NodePaths
    <3>3. CASE Len(p) = 1
      <4>1. 1 \in 1..Len(q)
        BY <3>1, PathEnds
      <4>2. SubSeq(q, 1, 1) \in NodesTo(q)
        BY <4>1 DEF NodesTo
      <4>3. /\ SubSeq(q, 1, 1) \in Seq(Names \cup Objs) /\ Len(SubSeq(q, 1, 1)) = 1
            /\ Head(SubSeq(q, 1, 1)) = Head(q) /\ SubSeq(q, 1, 1) # <<>>
        BY <3>1, <4>1, CutPath
      <4>4. SubSeq(q, 1, 1) = p
        BY <2>3, <3>1, <3>3, <4>3, SingleStep
      <4> QED
        BY <2>1, <4>2, <4>4
    <3>4. CASE Len(p) > 1
      <4>1. o \notin anonymous /\ Head(Front(p)) = Head(p)
        BY <1>1, <1>13, <3>1, <3>4, NodesToFront
      <4>2. Front(p) \in DOMAIN saved
        BY <1>13, <1>14, <3>4, <4>1
      <4> QED
        BY <2>1, <2>3, <4>1, <4>2 DEF PInv, TopsWhole
    <3> QED
      BY <1>13, <3>3, <3>4
  <2> QED
    BY <1>3, <2>2, <2>3
<1> QED
  BY <1>7, <1>8, <1>10, <1>11

\* What the record of o leaves as it was, and what it sets.
LEMMA WriteFields ==
    ASSUME PInv, walk.on, NEW o \in Objs, NEW path \in Seq(Objs \cup {Root}),
           WriteRecord(o, path)
    PROVE  /\ UNCHANGED <<life, kind, definedIn, contents, index, anonymous, name,
                          absName, id, server>>
           /\ walk'.on = TRUE /\ walk'.at = path /\ walk'.due = walk.due \ {o}
           /\ walk'.wrote = walk.wrote \cup {o} /\ walk'.past = walk.past
           /\ GInv' /\ WalkOK' /\ Idle' /\ Made'
           /\ file' = AddNode(file, PathOf(o), AttrsOf(o))
           /\ saved' # Unknown =>
                /\ saved # Unknown /\ PathOf(o) = PathTo(o)
                /\ saved' = [p \in DOMAIN saved \cup {PathOf(o)} |->
                                IF p = PathOf(o) THEN AttrsOf(o) ELSE saved[p]]
<1>1. /\ UNCHANGED <<vars, opened, blank, server>>
      /\ walk' = [walk EXCEPT !.at = path, !.due = @ \ {o}, !.wrote = @ \cup {o}]
      /\ file' = AddNode(file, PathOf(o), AttrsOf(o))
  BY DEF WriteRecord
<1>2. UNCHANGED <<life, kind, definedIn, contents, index, anonymous, name, absName, id>>
  BY <1>1 DEF vars, tree, naming, ids
<1>3. /\ walk'.on = TRUE /\ walk'.at = path /\ walk'.due = walk.due \ {o}
      /\ walk'.wrote = walk.wrote \cup {o} /\ walk'.past = walk.past /\ WalkOK'
  BY <1>1 DEF PInv, WalkOK
<1>4. GInv'
  BY <1>1, NextGInv DEF PInv
<1>5. Idle' /\ Made'
  BY <1>1, <1>2, <1>3 DEF PInv, Idle, Made, IsActive
<1>6. saved' # Unknown =>
        /\ saved # Unknown /\ PathOf(o) = PathTo(o)
        /\ saved' = [p \in DOMAIN saved \cup {PathOf(o)} |->
                        IF p = PathOf(o) THEN AttrsOf(o) ELSE saved[p]]
  BY DEF WriteRecord
<1> QED
  BY <1>1, <1>2, <1>3, <1>4, <1>5, <1>6

\* The file has the record, and the record says what the definition is.
LEMMA WriteFile ==
    ASSUME PInv, walk.on, NEW o \in Objs, NEW path \in Seq(Objs \cup {Root}),
           WriteRecord(o, path), o \in anonymous \/ definedIn[o] # NoObj,
           saved # Unknown => Writable(o)
    PROVE  /\ Tree' /\ Records' /\ Kept' /\ Fits' /\ Apart' /\ TopsWhole'
           /\ Written' /\ Visited'
<1>1. /\ UNCHANGED <<life, kind, definedIn, contents, index, anonymous, name,
                     absName, id, server>>
      /\ walk'.on = TRUE /\ walk'.wrote = walk.wrote \cup {o}
      /\ file' = AddNode(file, PathOf(o), AttrsOf(o))
      /\ saved' # Unknown =>
            /\ saved # Unknown /\ PathOf(o) = PathTo(o)
            /\ saved' = [p \in DOMAIN saved \cup {PathOf(o)} |->
                            IF p = PathOf(o) THEN AttrsOf(o) ELSE saved[p]]
  BY WriteFields
<1>2. Tree' /\ Records'
  BY <1>1, WriteRecords
<1>3. IsActive(o) /\ kind[o] \in ContainedKinds \cup AnonymousKinds
  BY LiveKinds DEF PInv
<1>4. Visited'
  BY <1>1, <1>3 DEF PInv, Visited, IsActive
<1>5. Kept' /\ Fits' /\ Apart' /\ TopsWhole'
  <2>1. CASE saved' = Unknown
    BY <2>1 DEF Kept, Fits, Apart, TopsWhole
  <2>2. CASE saved' # Unknown
    BY <1>1, <2>2, WriteSaved
  <2> QED
    BY <2>1, <2>2
<1>6. ASSUME saved' # Unknown
      PROVE  Written'
  <2> DEFINE p == PathOf(o)
  <2>1. /\ saved # Unknown /\ p = PathTo(o) /\ Writable(o)
        /\ \A x \in walk.wrote : PathOf(x) # p
        /\ p \notin DOMAIN saved
    BY <1>1, <1>6, NewPath
  <2>2. /\ DOMAIN saved' = DOMAIN saved \cup {p} /\ saved'[p] = AttrsOf(o)
        /\ \A q \in DOMAIN saved : saved'[q] = saved[q]
    BY <1>1, <1>6, <2>1
  <2>3. AttrsOf(o).oid = o /\ AttrsOf(o).id = id[o] /\ AttrsOf(o).class = kind[o]
    BY DEF AttrsOf
  <2>4. \A x : PathOf(x)' = PathOf(x) /\ PathTo(x)' = PathTo(x)
    BY <1>1 DEF PathOf, PathTo, AbsoluteName
  <2> HIDE DEF p
  <2>5. ASSUME NEW x \in walk.wrote
        PROVE  /\ IsActive(x) /\ PathOf(x) = PathTo(x)
               /\ x \notin anonymous => definedIn[x] \in walk.wrote \cup {Root}
               /\ PathOf(x) \in DOMAIN saved /\ PathOf(x) # p
               /\ saved[PathOf(x)].oid = x /\ saved[PathOf(x)].id = id[x]
               /\ saved[PathOf(x)].class = kind[x]
    BY <2>1 DEF PInv, Written
  <2>6. ASSUME NEW x \in walk'.wrote
        PROVE  /\ IsActive(x) /\ PathOf(x) = PathTo(x)
               /\ x \notin anonymous => definedIn[x] \in walk'.wrote \cup {Root}
               /\ PathOf(x) \in DOMAIN saved'
               /\ saved'[PathOf(x)].oid = x /\ saved'[PathOf(x)].id = id[x]
               /\ saved'[PathOf(x)].class = kind[x]
    <3>1. CASE x = o
      BY <1>1, <1>3, <2>1, <2>2, <2>3, <3>1 DEF p, Writable
    <3>2. CASE x \in walk.wrote
      BY <1>1, <2>2, <2>5, <3>2
    <3> QED
      BY <1>1, <3>1, <3>2
  <2>7. ASSUME NEW q \in DOMAIN saved'
        PROVE  saved'[q].oid \in walk'.wrote /\ PathOf(saved'[q].oid) = q
    <3>1. CASE q = p
      BY <1>1, <2>2, <2>3, <3>1 DEF p
    <3>2. CASE q \in DOMAIN saved
      BY <1>1, <2>1, <2>2, <3>2 DEF PInv, Written
    <3> QED
      BY <2>2, <3>1, <3>2
  <2> QED
    BY <1>1, <2>4, <2>6, <2>7 DEF Written, IsActive
<1> QED
  BY <1>2, <1>4, <1>5, <1>6 DEF Written

\* An anonymous type is in no container, and nothing is in it.
LEMMA WriteAnonymousPInv ==
    ASSUME PInv, NEW o \in Objs, WriteAnonymous(o)
    PROVE  PInv'
<1> USE ConstantsAssumption
<1>1. walk.on /\ o \in anonymous /\ o \notin walk.wrote /\ WriteRecord(o, <<o>>)
  BY DEF WriteAnonymous, AtAnonymous
<1>2. <<o>> \in Seq(Objs \cup {Root}) /\ <<o>> # <<>> /\ Head(<<o>>) = o
  OBVIOUS
<1>3. /\ UNCHANGED <<life, kind, definedIn, contents, index, anonymous>>
      /\ walk'.on = TRUE /\ walk'.at = <<o>> /\ walk'.due = walk.due \ {o}
      /\ walk'.wrote = walk.wrote \cup {o} /\ walk'.past = walk.past
      /\ GInv' /\ WalkOK' /\ Idle' /\ Made'
      /\ saved' # Unknown => saved # Unknown
  BY <1>1, <1>2, WriteFields
<1>4. Writable(o)
  BY <1>1 DEF Writable
<1>5. /\ Tree' /\ Records' /\ Kept' /\ Fits' /\ Apart' /\ TopsWhole'
      /\ Written' /\ Visited'
  BY <1>1, <1>2, <1>4, WriteFile
<1>6. ~ InContents' /\ Path' = <<Root>>
  BY <1>2, <1>3 DEF InContents, Path
<1>7. ~ InContents /\ Path = <<Root>>
  <2>1. ASSUME walk.at # <<>> PROVE Head(walk.at) # Root
    <3>1. walk.at \in Seq(Objs \cup {Root}) /\ Range(walk.at) \subseteq anonymous
      BY DEF PInv, WalkOK, WriteAnonymous, AtAnonymous
    <3>2. 1 \in DOMAIN walk.at /\ Head(walk.at) = walk.at[1]
      BY <2>1, <3>1, EmptySeq, LenProperties
    <3>3. Head(walk.at) \in anonymous
      BY <3>1, <3>2 DEF Range
    <3> QED
      BY <3>3 DEF PInv, GInv, IInv, TypeOK
  <2> QED
    BY <2>1 DEF InContents, Path
<1>8. definedIn[o] = NoObj /\ kind[o] \in AnonymousKinds
  BY <1>1, LiveKinds DEF PInv
<1>9. contents[o] = {}
  <2>1. kind[o] \notin ContainerKinds
    BY <1>8 DEF AnonymousKinds, ContainerKinds
  <2> QED
    BY <2>1 DEF PInv, GInv, Held, Servants
<1>10. o \notin contents[Root]
  BY <1>8 DEF PInv, GInv, IInv, ContainmentSound, Servants
<1>11. Nested' /\ Standing'
  <2>1. saved # Unknown => contents[Root] \cap walk.wrote = {}
    BY <1>1, <1>7, StartPath DEF PInv, Standing
  <2> QED
    BY <1>3, <1>6, <1>10, <2>1, StartPath DEF Nested, Standing
<1>12. Ahead'
  <2>1. ASSUME NEW x \in walk'.due, definedIn[x] # NoObj
        PROVE  definedIn[x] \in walk'.due \cup {Root}
    <3>1. x \in Objs /\ definedIn[x] \in walk.due \cup {Root}
      BY <1>3, <1>7, <2>1, StartPath DEF PInv, Ahead, WalkOK
    <3>2. definedIn[x] # o
      BY <1>9, <3>1 DEF PInv, GInv, IInv, ContainmentSound, Servants
    <3> QED
      BY <1>3, <3>1, <3>2
  <2>2. /\ walk'.due \cap (walk'.wrote \cup walk'.past) = {}
        /\ \A x \in walk'.due : IsActive(x)
    BY <1>3 DEF PInv, Ahead
  <2> QED
    BY <1>3, <1>6, <2>1, <2>2, StartPath DEF Ahead, IsActive
<1> QED
  BY <1>3, <1>5, <1>11, <1>12 DEF PInv


\* Some element of a finite or infinite set of definitions has the least index.
LEMMA FirstExists ==
    ASSUME index \in [Objs -> Nat], NEW S \in SUBSET Objs, S # {}
    PROVE  FirstOf(S) # {}
<1> DEFINE N == {index[x] : x \in S}
<1>1. N \subseteq Nat /\ N # {}
  OBVIOUS
<1> DEFINE less == {ss \in Nat \X Nat : ss[1] < ss[2]}
<1>6. IsWellFoundedOn(less, Nat)
  BY NatLessThanWellFounded DEF OpToRel
<1>2. PICK n \in N : \A m \in N : ~ (<<m, n>> \in less)
  <2> HIDE DEF less, N
  <2> QED
    BY <1>1, <1>6, WFMin
<1>3. ASSUME NEW m \in N PROVE n <= m
  <2>1. m < n => <<m, n>> \in less
    BY <1>1
  <2>2. ~ (m < n)
    BY <1>2, <2>1
  <2> QED
    BY <1>1, <2>2
<1>4. PICK x \in S : n = index[x]
  BY <1>2
<1>5. \A y \in S : index[x] <= index[y]
  BY <1>3, <1>4
<1> QED
  BY <1>5 DEF FirstOf

\* The walk goes on, from its k-th iterator, to a definition in what that is in.
StepTo(o, k) ==
    /\ AtNamed
    /\ k \in 1..Len(Path) /\ o \in contents[Path[k]]
    /\ WriteRecord(o, Append(SubSeq(Path, 1, k), o))
    /\ \/ k = Len(Path) /\ o \in FirstOf(contents[Path[k]])
       \/ /\ k < Len(Path) /\ Through(k)
          /\ Path[k + 1] \in contents[Path[k]] /\ o \in After(Path[k], Path[k + 1])

LEMMA NamedStep ==
    ASSUME PInv, NEW o \in Objs, WriteFirst(o) \/ WriteNext(o)
    PROVE  \E k \in 1..Len(Path) : StepTo(o, k)
<1>1. /\ Path \in Seq(Objs \cup {Root}) /\ Len(Path) \in Nat /\ Len(Path) >= 1
      /\ Last(Path) = Path[Len(Path)]
  BY PathType DEF PInv
<1>2. CASE WriteFirst(o)
  <2>1. SubSeq(Path, 1, Len(Path)) = Path /\ Len(Path) \in 1..Len(Path)
    BY <1>1, SubSeqFull
  <2>2. o \in contents[Path[Len(Path)]] /\ o \in FirstOf(contents[Path[Len(Path)]])
    BY <1>1, <1>2 DEF WriteFirst, FirstOf
  <2>3. AtNamed /\ WriteRecord(o, Append(Path, o))
    BY <1>2 DEF WriteFirst
  <2>4. StepTo(o, Len(Path))
    BY <2>1, <2>2, <2>3 DEF StepTo
  <2> QED
    BY <2>1, <2>4
<1>3. CASE WriteNext(o)
  <2>1. PICK k \in 1..(Len(Path) - 1) :
            /\ Through(k)
            /\ Path[k + 1] \in contents[Path[k]] /\ o \in After(Path[k], Path[k + 1])
            /\ WriteRecord(o, Append(SubSeq(Path, 1, k), o))
    BY <1>3 DEF WriteNext
  <2>2. k \in 1..Len(Path) /\ k < Len(Path)
    BY <1>1, <2>1
  <2>3. o \in contents[Path[k]] /\ AtNamed
    BY <1>3, <2>1 DEF After, FirstOf, WriteNext
  <2>4. StepTo(o, k)
    BY <2>1, <2>2, <2>3 DEF StepTo
  <2> QED
    BY <2>2, <2>4
<1> QED
  BY <1>2, <1>3

\* Where the iterators stand after such a step.
LEMMA StepPath ==
    ASSUME PInv, NEW o \in Objs, NEW k \in 1..Len(Path), StepTo(o, k)
    PROVE  /\ walk.on /\ Append(SubSeq(Path, 1, k), o) \in Seq(Objs \cup {Root})
           /\ InContents' /\ Path' = Append(SubSeq(Path, 1, k), o)
           /\ k \in Nat /\ k >= 1
           /\ Len(Path') = k + 1 /\ Last(Path') = o /\ Path'[k + 1] = o
           /\ \A j \in 1..k : Path'[j] = Path[j]
           /\ Range(Path') = {Path[j] : j \in 1..k} \cup {o}
           /\ \A j \in 1..k : Path[j] \in Objs \cup {Root}
           /\ \A j \in 1..k : j = 1 \/ (j - 1 \in 1..Len(Path) - 1 /\ Path[j] \in walk.wrote)
           /\ Path[1] = Root
           /\ definedIn[o] = Path[k] /\ definedIn[o] # NoObj
           /\ definedIn[o] \in walk.wrote \cup {Root}
<1> USE ConstantsAssumption
<1>1. /\ Path \in Seq(Objs \cup {Root}) /\ Len(Path) \in Nat /\ Len(Path) >= 1
      /\ Head(Path) = Root /\ Path[1] = Root
      /\ \A j \in 1..Len(Path) : Path[j] \in Objs \cup {Root}
  BY PathType DEF PInv
<1>2. k \in Nat /\ k >= 1 /\ k <= Len(Path)
  BY <1>1
<1> DEFINE base == SubSeq(Path, 1, k)
<1>3. /\ base \in Seq(Objs \cup {Root}) /\ base # <<>> /\ Len(base) = k
      /\ Head(base) = Root /\ \A j \in 1..k : base[j] = Path[j]
  BY <1>1, CutPath
<1> HIDE DEF base
<1> DEFINE p == Append(base, o)
<1>4. /\ p \in Seq(Objs \cup {Root}) /\ p # <<>> /\ Len(p) = k + 1
      /\ Last(p) = o /\ Head(p) = Root
      /\ \A j \in 1..k : p[j] = Path[j]
  BY <1>3, AppendPath
<1>5. p[k + 1] = o
  BY <1>4 DEF Last
<1>6. DOMAIN p = 1..(k + 1)
  BY <1>4, LenProperties
<1> HIDE DEF p
<1>7. Range(p) = {Path[j] : j \in 1..k} \cup {o}
  <2>1. \A i \in 1..(k + 1) : i \in 1..k \/ i = k + 1
    BY <1>2
  <2>2. \A i \in 1..k : i \in 1..(k + 1)
    BY <1>2
  <2>3. k + 1 \in 1..(k + 1)
    BY <1>2
  <2> QED
    BY <1>4, <1>5, <1>6, <2>1, <2>2, <2>3 DEF Range
<1>8. walk.on /\ WriteRecord(o, p) /\ o \in contents[Path[k]]
  BY DEF StepTo, AtNamed, AtAnonymous, p, base
<1>9. walk'.at = p
  BY <1>4, <1>8, WriteFields
<1>10. InContents' /\ Path' = p
  BY <1>4, <1>9 DEF InContents, Path
<1>11. ASSUME NEW j \in 1..k
       PROVE  /\ Path[j] \in Objs \cup {Root}
              /\ j = 1 \/ (j - 1 \in 1..Len(Path) - 1 /\ Path[j] \in walk.wrote)
  <2>1. j \in 1..Len(Path) /\ (j = 1 \/ j - 1 \in 1..Len(Path) - 1) /\ (j - 1) + 1 = j
    BY <1>1, <1>2
  <2>2. j = 1 \/ Path[(j - 1) + 1] \in walk.wrote
    BY <2>1 DEF PInv, Nested
  <2> QED
    BY <1>1, <2>1, <2>2
<1>12. definedIn[o] = Path[k]
  BY <1>1, <1>8 DEF PInv, GInv, IInv, ContainmentSound, Servants
<1>13. definedIn[o] # NoObj
  BY <1>1, <1>12 DEF Servants
<1>14. definedIn[o] \in walk.wrote \cup {Root}
  <2>1. k \in 1..k
    BY <1>2
  <2> QED
    BY <1>1, <1>11, <1>12, <2>1
<1> QED
  BY <1>1, <1>2, <1>4, <1>5, <1>7, <1>8, <1>10, <1>11, <1>12, <1>13, <1>14 DEF p, base


\* No two iterators stand in one list: that would be a loop.
LEMMA PathDistinct ==
    ASSUME PInv, walk.on, saved # Unknown,
           NEW k \in 1..Len(Path), NEW j \in 1..Len(Path), j < k
    PROVE  Path[j] # Path[k]
<1> SUFFICES ASSUME Path[j] = Path[k] PROVE FALSE
  OBVIOUS
<1>1. Len(Path) \in Nat /\ j \in Nat /\ k \in Nat /\ j >= 1 /\ k <= Len(Path)
  BY PathType DEF PInv
<1> DEFINE I == (j + 1)..k
           U == {Path[i] : i \in I}
<1>2. ASSUME NEW i \in I
      PROVE  Path[i] \in Objs /\ definedIn[Path[i]] = Path[i - 1]
  <2>1. i - 1 \in 1..Len(Path) - 1 /\ (i - 1) + 1 = i
    BY <1>1, <1>2
  <2>2. Path[(i - 1) + 1] \in walk.wrote
    BY <2>1 DEF PInv, Nested
  <2>3. definedIn[Path[(i - 1) + 1]] = Path[i - 1]
    BY <2>1 DEF PInv, Standing
  <2> QED
    BY <2>1, <2>2, <2>3 DEF PInv, WalkOK
<1>3. k \in I
  BY <1>1
<1>4. ASSUME NEW i \in I PROVE definedIn[Path[i]] \in U
  <2>1. CASE i = j + 1
    <3>1. definedIn[Path[i]] = Path[j]
      BY <1>1, <1>2, <2>1
    <3> QED
      BY <1>3, <3>1
  <2>2. CASE i # j + 1
    <3>1. i - 1 \in I
      BY <1>1, <2>2
    <3> QED
      BY <1>2, <3>1
  <2> QED
    BY <2>1, <2>2
<1>5. U \subseteq Objs /\ U # {}
  BY <1>2, <1>3
<1>6. \A x \in U : definedIn[x] \in U
  BY <1>4
<1> HIDE DEF U
<1> QED
  BY <1>5, <1>6 DEF PInv, GInv, NestingEnds

\* What the walk comes to next it has not written, nor anything in it; and it
\* comes after all in its list that is written.
LEMMA StepFresh ==
    ASSUME PInv, NEW o \in Objs, NEW k \in 1..Len(Path), StepTo(o, k), saved # Unknown
    PROVE  /\ o \notin walk.wrote
           /\ \A y \in contents[Path[k]] \cap walk.wrote : index[y] <= index[o]
           /\ contents[o] \cap (walk.wrote \cup {o}) = {}
<1> USE ConstantsAssumption
<1>1. /\ walk.on /\ definedIn[o] = Path[k] /\ definedIn[o] \in walk.wrote \cup {Root}
      /\ o \in contents[Path[k]]
  BY StepPath DEF StepTo
<1>2. index \in [Objs -> Nat] /\ walk.wrote \subseteq Objs
  BY DEF PInv, GInv, IInv, TypeOK, WalkOK
<1>3. /\ o \notin walk.wrote
      /\ \A y \in contents[Path[k]] \cap walk.wrote : index[y] <= index[o]
  <2>1. CASE k = Len(Path)
    <3>1. contents[Path[k]] \cap walk.wrote = {}
      BY <1>1, <2>1, PathType DEF PInv, Standing
    <3> QED
      BY <1>1, <3>1
  <2>2. CASE k < Len(Path)
    <3>1. k \in 1..Len(Path) - 1 /\ k \in 1..Len(Path)
      BY <2>2, PathType DEF PInv
    <3> DEFINE z == Path[k + 1]
    <3>2. /\ z \in Objs
          /\ \A y \in contents[Path[k]] \cap walk.wrote : index[y] <= index[z]
      BY <1>1, <1>2, <3>1 DEF PInv, Nested, Standing
    <3>3. \/ index[o] > index[z]
          \/ index[o] = index[z] /\ o \notin walk.wrote \cup walk.past
      BY <2>2 DEF StepTo, After, FirstOf
    <3> HIDE DEF z
    <3> QED
      BY <1>1, <1>2, <3>2, <3>3
  <2> QED
    BY <2>1, <2>2 DEF StepTo
<1>4. ASSUME NEW y \in contents[o] \cap (walk.wrote \cup {o})
      PROVE  FALSE
  <2>1. y \in Objs /\ definedIn[y] = o
    BY DEF PInv, GInv, IInv, TypeOK, ContainmentSound, Servants
  <2>2. CASE y = o
    BY <1>1, <1>3, <2>1, <2>2
  <2>3. CASE y \in walk.wrote
    <3>1. y \notin anonymous
      BY <2>1, LiveKinds DEF PInv, Servants
    <3>2. definedIn[y] \in walk.wrote \cup {Root}
      BY <1>1, <2>3, <3>1 DEF PInv, Written
    <3> QED
      BY <1>3, <2>1, <3>2
  <2> QED
    BY <2>2, <2>3
<1> QED
  BY <1>3, <1>4

LEMMA StepStanding ==
    ASSUME PInv, NEW o \in Objs, NEW k \in 1..Len(Path), StepTo(o, k)
    PROVE  Nested' /\ Standing'
<1> USE ConstantsAssumption
<1> DEFINE path == Append(SubSeq(Path, 1, k), o)
<1>1. /\ walk.on /\ path \in Seq(Objs \cup {Root}) /\ k \in Nat /\ k >= 1
      /\ Len(Path') = k + 1 /\ Last(Path') = o /\ Path'[k + 1] = o
      /\ \A j \in 1..k : Path'[j] = Path[j]
      /\ \A j \in 1..k : Path[j] \in Objs \cup {Root}
      /\ \A j \in 1..k :
            j = 1 \/ (j - 1 \in 1..Len(Path) - 1 /\ Path[j] \in walk.wrote)
      /\ definedIn[o] = Path[k]
  BY StepPath
<1>2. WriteRecord(o, path)
  BY DEF StepTo
<1> HIDE DEF path
<1>3. /\ UNCHANGED <<definedIn, contents, index>>
      /\ walk'.on = TRUE /\ walk'.wrote = walk.wrote \cup {o}
      /\ saved' # Unknown => saved # Unknown
  BY <1>1, <1>2, WriteFields
<1>4. \A j \in 1..k : j = k \/ (j + 1 \in 1..k /\ (j + 1) - 1 = j /\ j + 1 # 1)
  BY <1>1
<1>5. ASSUME NEW j \in 1..k
      PROVE  /\ Path'[j + 1] \in walk'.wrote
             /\ j # k => Path'[j + 1] = Path[j + 1] /\ j \in 1..Len(Path) - 1
  <2>1. CASE j = k
    BY <1>1, <1>3, <2>1
  <2>2. CASE j # k
    <3>1. j + 1 \in 1..k /\ (j + 1) - 1 = j /\ j + 1 # 1
      BY <1>4, <2>2
    <3>2. Path[j + 1] \in walk.wrote /\ j \in 1..Len(Path) - 1
      BY <1>1, <3>1
    <3> QED
      BY <1>1, <1>3, <3>1, <3>2
  <2> QED
    BY <2>1, <2>2
<1>6. Len(Path') - 1 = k
  BY <1>1
<1>7. Nested'
  BY <1>5, <1>6 DEF Nested
<1>8. ASSUME saved' # Unknown
      PROVE  Standing'
  <2>1. saved # Unknown
    BY <1>3, <1>8
  <2>2. /\ o \notin walk.wrote
        /\ \A y \in contents[Path[k]] \cap walk.wrote : index[y] <= index[o]
        /\ contents[o] \cap (walk.wrote \cup {o}) = {}
    BY <2>1, StepFresh
  <2>3. ASSUME NEW j \in 1..k
        PROVE  /\ definedIn[Path'[j + 1]] = Path[j]
               /\ \A y \in contents[Path[j]] \cap (walk.wrote \cup {o}) :
                    index[y] <= index[Path'[j + 1]]
    <3>1. CASE j = k
      <4>1. index[o] <= index[o]
        BY DEF PInv, GInv, IInv, TypeOK
      <4> QED
        BY <1>1, <2>2, <3>1, <4>1
    <3>2. CASE j # k
      <4>1. Path'[j + 1] = Path[j + 1] /\ j \in 1..Len(Path) - 1
        BY <1>5, <3>2
      <4>2. /\ definedIn[Path[j + 1]] = Path[j]
            /\ \A y \in contents[Path[j]] \cap walk.wrote : index[y] <= index[Path[j + 1]]
        BY <1>1, <2>1, <4>1 DEF PInv, Standing
      <4>3. j < k /\ j \in 1..Len(Path) /\ k \in 1..Len(Path)
        BY <1>1, <3>2, PathType DEF PInv
      <4>4. Path[j] # Path[k]
        BY <1>1, <2>1, <4>3, PathDistinct
      <4>5. o \notin contents[Path[j]]
        BY <1>1, <4>4 DEF PInv, GInv, IInv, ContainmentSound, Servants
      <4> QED
        BY <4>1, <4>2, <4>5
    <3> QED
      BY <3>1, <3>2
  <2> QED
    BY <1>1, <1>3, <1>6, <2>2, <2>3 DEF Standing
<1> QED
  BY <1>7, <1>8 DEF Standing


\* What is in a list that an iterator is through with is not due.
LEMMA ThroughPassed ==
    ASSUME PInv, NEW k \in 0..(Len(Path) - 1), Through(k), NEW x \in walk.due,
           NEW j \in (k + 1)..Len(Path), definedIn[x] = Path[j]
    PROVE  FALSE
<1> USE ConstantsAssumption
<1>1. /\ Len(Path) \in Nat /\ k \in Nat /\ Last(Path) = Path[Len(Path)]
      /\ \A i \in 1..Len(Path) : Path[i] \in Servants
  BY PathType DEF PInv, Servants
<1>2. x \in Objs /\ j \in 1..Len(Path) /\ Path[j] \in Servants
  BY <1>1 DEF PInv, WalkOK
<1>3. x \in contents[Path[j]]
  BY <1>2 DEF PInv, GInv, IInv, ContainmentSound
<1>4. CASE j = Len(Path)
  BY <1>1, <1>3, <1>4 DEF Through
<1>5. CASE j # Len(Path)
  <2>1. j \in (k + 1)..(Len(Path) - 1) /\ j \in 1..Len(Path) - 1 /\ j + 1 \in 1..Len(Path)
    BY <1>1, <1>5
  <2> DEFINE z == Path[j + 1]
  <2>2. z \in contents[Path[j]] /\ After(Path[j], z) = {}
    BY <2>1 DEF Through
  <2>3. z \in Objs /\ IsActive(z)
    BY <1>2, <2>2 DEF PInv, GInv, IInv, TypeOK, ContainmentSound, Servants
  <2>4. index[z] <= index[x] /\ x \notin walk.wrote \cup walk.past
    BY <2>1, <2>3 DEF PInv, Ahead
  <2>5. index \in [Objs -> Nat] /\ contents[Path[j]] \subseteq Objs
    BY <1>2 DEF PInv, GInv, IInv, TypeOK
  <2> HIDE DEF z
  <2> DEFINE S == {y \in contents[Path[j]] :
                    \/ index[y] > index[z]
                    \/ index[y] = index[z] /\ y \notin walk.wrote \cup walk.past}
  <2>6. index[x] > index[z] \/ index[x] = index[z]
    BY <1>2, <2>3, <2>4, <2>5
  <2>7. x \in S
    BY <1>3, <2>4, <2>6
  <2>8. S \in SUBSET Objs
    BY <2>5
  <2>9. FirstOf(S) = {}
    BY <2>2 DEF After
  <2> HIDE DEF S
  <2> QED
    BY <2>5, <2>7, <2>8, <2>9, FirstExists
<1> QED
  BY <1>4, <1>5

\* What comes after the k-th iterator comes after what the walk goes on to.
LEMMA StepFirst ==
    ASSUME PInv, NEW o \in Objs, NEW k \in 1..Len(Path), StepTo(o, k),
           NEW x \in walk.due, definedIn[x] = Path[k]
    PROVE  index[o] <= index[x]
<1> USE ConstantsAssumption
<1>1. x \in Objs /\ Path[k] \in Servants
  BY PathType DEF PInv, WalkOK, Servants
<1>2. x \in contents[Path[k]]
  BY <1>1 DEF PInv, GInv, IInv, ContainmentSound
<1>3. CASE k = Len(Path) /\ o \in FirstOf(contents[Path[k]])
  BY <1>2, <1>3 DEF FirstOf
<1>4. CASE /\ k < Len(Path) /\ Path[k + 1] \in contents[Path[k]]
           /\ o \in After(Path[k], Path[k + 1])
  <2>1. k \in 1..Len(Path) - 1
    BY <1>4, PathType DEF PInv
  <2> DEFINE z == Path[k + 1]
  <2>2. z \in Objs /\ IsActive(z)
    BY <1>1, <1>4 DEF PInv, GInv, IInv, TypeOK, ContainmentSound, Servants
  <2>3. index[z] <= index[x] /\ x \notin walk.wrote \cup walk.past
    BY <2>1, <2>2 DEF PInv, Ahead
  <2>4. index \in [Objs -> Nat]
    BY DEF PInv, GInv, IInv, TypeOK
  <2>5. o \in After(Path[k], z)
    BY <1>4
  <2> HIDE DEF z
  <2>6. index[x] > index[z] \/ index[x] = index[z]
    BY <1>1, <2>2, <2>3, <2>4
  <2> QED
    BY <1>2, <2>3, <2>5, <2>6 DEF After, FirstOf
<1> QED
  BY <1>3, <1>4 DEF StepTo

LEMMA StepAhead ==
    ASSUME PInv, NEW o \in Objs, NEW k \in 1..Len(Path), StepTo(o, k)
    PROVE  Ahead'
<1> USE ConstantsAssumption
<1> DEFINE path == Append(SubSeq(Path, 1, k), o)
<1>1. /\ walk.on /\ path \in Seq(Objs \cup {Root}) /\ k \in Nat /\ k >= 1
      /\ InContents' /\ Len(Path') = k + 1 /\ Path'[k + 1] = o
      /\ \A j \in 1..k : Path'[j] = Path[j]
      /\ Range(Path') = {Path[j] : j \in 1..k} \cup {o}
  BY StepPath
<1>2. WriteRecord(o, path)
  BY DEF StepTo
<1> HIDE DEF path
<1>3. /\ UNCHANGED <<life, definedIn, contents, index, anonymous>>
      /\ walk'.on = TRUE /\ walk'.due = walk.due \ {o} /\ walk'.past = walk.past
      /\ walk'.wrote = walk.wrote \cup {o}
  BY <1>1, <1>2, WriteFields
<1>4. Len(Path) \in Nat /\ k <= Len(Path)
  BY PathType DEF PInv
<1>5. /\ walk'.due \cap (walk'.wrote \cup walk'.past) = {}
      /\ \A x \in walk'.due : IsActive(x)'
  BY <1>3 DEF PInv, Ahead, IsActive
<1>6. walk'.due \cap anonymous' = {}
  <2>1. InContents \/ walk.due \cap anonymous = {}
    BY DEF StepTo, AtNamed
  <2> QED
    BY <1>3, <2>1 DEF PInv, Ahead
<1>7. ASSUME NEW x \in walk'.due, definedIn[x] # NoObj
      PROVE  definedIn[x] \in walk'.due \cup Range(Path')
  <2>1. x \in walk.due /\ definedIn[x] \in walk.due \cup Range(Path)
    BY <1>3, <1>7 DEF PInv, Ahead
  <2>2. CASE definedIn[x] \in walk.due
    BY <1>1, <1>3, <2>2
  <2>3. CASE definedIn[x] \in Range(Path)
    <3>1. PICK j \in 1..Len(Path) : definedIn[x] = Path[j]
      BY <2>3, PathType DEF PInv
    <3>2. CASE j <= k
      <4>1. j \in 1..k
        BY <1>1, <3>1, <3>2
      <4> QED
        BY <1>1, <3>1, <4>1
    <3>3. CASE k < j
      <4>1. j \in (k + 1)..Len(Path) /\ k < Len(Path) /\ k \in 0..(Len(Path) - 1)
        BY <1>1, <1>4, <3>1, <3>3
      <4>2. Through(k)
        BY <1>4, <4>1 DEF StepTo
      <4> QED
        BY <2>1, <3>1, <4>1, <4>2, ThroughPassed
    <3> QED
      BY <1>1, <3>1, <3>2, <3>3
  <2> QED
    BY <2>1, <2>2, <2>3
<1>8. ASSUME NEW x \in walk'.due, NEW j \in 1..k, definedIn[x] = Path[j],
             IsActive(Path'[j + 1])
      PROVE  index[Path'[j + 1]] <= index[x]
  <2>1. x \in walk.due
    BY <1>3
  <2>2. CASE j = k
    BY <1>1, <1>8, <2>1, <2>2, StepFirst
  <2>3. CASE j # k
    <3>1. j + 1 \in 1..k /\ j \in 1..Len(Path) - 1
      BY <1>1, <1>4, <2>3
    <3>2. Path'[j + 1] = Path[j + 1]
      BY <1>1, <3>1
    <3> QED
      BY <1>8, <2>1, <3>1, <3>2 DEF PInv, Ahead
  <2> QED
    BY <2>2, <2>3
<1>9. Len(Path') - 1 = k
  BY <1>1
<1>10. ASSUME NEW x \in walk'.due, NEW j \in 1..k, definedIn'[x] = Path'[j],
              life'[Path'[j + 1]] = "active"
       PROVE  index'[Path'[j + 1]] <= index'[x]
  <2>1. life' = life /\ definedIn' = definedIn /\ index' = index /\ Path'[j] = Path[j]
    BY <1>1, <1>3
  <2>2. IsActive(Path'[j + 1])
    BY <1>10, <2>1 DEF IsActive
  <2> QED
    BY <1>8, <1>10, <2>1, <2>2
<1> QED
  BY <1>3, <1>5, <1>6, <1>7, <1>9, <1>10 DEF Ahead, IsActive

LEMMA WriteNamedPInv ==
    ASSUME PInv, NEW o \in Objs, WriteFirst(o) \/ WriteNext(o)
    PROVE  PInv'
<1>1. PICK k \in 1..Len(Path) : StepTo(o, k)
  BY NamedStep
<1> DEFINE path == Append(SubSeq(Path, 1, k), o)
<1>2. /\ walk.on /\ path \in Seq(Objs \cup {Root}) /\ WriteRecord(o, path)
      /\ definedIn[o] # NoObj /\ definedIn[o] \in walk.wrote \cup {Root}
  BY <1>1, StepPath DEF StepTo
<1>3. saved # Unknown => o \notin walk.wrote
  BY <1>1, StepFresh
<1>4. saved # Unknown => Writable(o)
  BY <1>2, <1>3 DEF Writable
<1> HIDE DEF path
<1>5. GInv' /\ WalkOK' /\ Idle' /\ Made'
  BY <1>2, WriteFields
<1>6. /\ Tree' /\ Records' /\ Kept' /\ Fits' /\ Apart' /\ TopsWhole'
      /\ Written' /\ Visited'
  BY <1>2, <1>4, WriteFile
<1>7. Nested' /\ Standing' /\ Ahead'
  BY <1>1, StepStanding, StepAhead
<1> QED
  BY <1>5, <1>6, <1>7 DEF PInv


-----------------------------------------------------------------------------
(* A restart.                                                              *)

\* Load by its parts: the definitions that come back, the node each comes back
\* from, and where it is put.
Live == {file[p].oid : p \in Restored}
At(o) == CHOOSE p \in Restored : file[p].oid = o
Back(o) == o \in Live /\ file[At(o)].class \in ContainedKinds
Parent(o) == IF Len(At(o)) = 1 THEN Root ELSE file[Front(At(o))].oid
Up(o) == IF Back(o) THEN Parent(o) ELSE NoObj

LEMMA LoadFields ==
    ASSUME Load
    PROVE  /\ life' = [s \in Servants |-> IF s \in Live THEN "active" ELSE life[s]]
           /\ kind' = [s \in Servants |-> IF s \in Live THEN file[At(s)].class ELSE kind[s]]
           /\ definedIn' = [o \in Objs |-> Up(o)]
           /\ contents' = [c \in Servants |-> {o \in Live : definedIn'[o] = c}]
           /\ index' = [o \in Objs |-> IF Back(o) THEN file[At(o)].index ELSE 0]
           /\ anonymous' = {o \in Live : ~ Back(o)}
           /\ name' = [o \in Objs |-> IF Back(o) THEN Last(At(o)) ELSE NoString]
           /\ absName' = [o \in Objs |-> IF Back(o) THEN At(o) ELSE <<>>]
           /\ id' = [o \in Objs |-> IF Back(o) THEN file[At(o)].id ELSE NoString]
           /\ idmap' = [i \in Ids |->
                            IF \E o \in Live : Back(o) /\ file[At(o)].id = i
                            THEN CHOOSE o \in Live : Back(o) /\ file[At(o)].id = i
                            ELSE NoObj]
           /\ refs' = [s \in Servants |-> IF s \in Live THEN file[At(s)].refs ELSE {}]
           /\ deps' = [s \in Servants |->
                            IF s \in Live THEN file[At(s)].refs \cap (Live \cup {Prim})
                            ELSE {}]
<1> DEFINE node == [o \in Live |-> file[At(o)]]
<1>1. Relink(node)
  BY DEF Load, Live, At
<1>2. DOMAIN node = Live /\ \A s \in Live : node[s] = file[At(s)]
  OBVIOUS
<1>3. /\ refs' = [s \in Servants |-> IF s \in Live THEN file[At(s)].refs ELSE {}]
      /\ deps' = [s \in Servants |->
                    IF s \in Live THEN file[At(s)].refs \cap (Live \cup {Prim}) ELSE {}]
  BY <1>1, <1>2 DEF Relink
<1>4. definedIn' = [o \in Objs |-> Up(o)]
  BY DEF Load, Live, At, Back, Parent, Up
<1>5. contents' = [c \in Servants |-> {o \in Live : definedIn'[o] = c}]
  BY <1>4 DEF Load, Live, At, Back, Parent, Up
<1>6. /\ life' = [s \in Servants |-> IF s \in Live THEN "active" ELSE life[s]]
      /\ kind' = [s \in Servants |-> IF s \in Live THEN file[At(s)].class ELSE kind[s]]
      /\ index' = [o \in Objs |-> IF Back(o) THEN file[At(o)].index ELSE 0]
      /\ anonymous' = {o \in Live : ~ Back(o)}
  BY DEF Load, Live, At, Back
<1>7. /\ name' = [o \in Objs |-> IF Back(o) THEN Last(At(o)) ELSE NoString]
      /\ absName' = [o \in Objs |-> IF Back(o) THEN At(o) ELSE <<>>]
      /\ id' = [o \in Objs |-> IF Back(o) THEN file[At(o)].id ELSE NoString]
      /\ idmap' = [i \in Ids |->
                    IF \E o \in Live : Back(o) /\ file[At(o)].id = i
                    THEN CHOOSE o \in Live : Back(o) /\ file[At(o)].id = i
                    ELSE NoObj]
  BY DEF Load, Live, At, Back
<1> QED
  BY <1>3, <1>4, <1>5, <1>6, <1>7

\* A node that is read back is a definition in a container that is read back too.
LEMMA RestoredNode ==
    ASSUME PInv, NEW p \in Restored
    PROVE  /\ p \in DOMAIN file /\ p \in Seq(Names \cup Objs) /\ p # <<>>
           /\ Len(p) \in Nat /\ Len(p) >= 1
           /\ file[p] # Branch /\ file[p] \in Attributes
           /\ file[p].class \in ContainedKinds \cup AnonymousKinds
           /\ file[p].class \in ContainedKinds => p \in Seq(Names) /\ file[p].id \in Ids
           /\ \A t \in file[p].refs : t = Prim \/ life[t] # "unborn"
           /\ Len(p) = 1 => file[p].class # "Attribute" /\ Front(p) = <<>>
           /\ Len(p) > 1 =>
                Front(p) \in Restored /\ file[Front(p)].class \in ContainerKinds
<1>1. p \in DOMAIN file /\ Recreated(p)
  BY DEF Restored
<1>2. p \in Seq(Names \cup Objs) /\ p # <<>> /\ NodesTo(p) \subseteq DOMAIN file
  BY <1>1 DEF PInv, Tree, NodePaths
<1>3. /\ Len(p) \in Nat /\ Len(p) >= 1 /\ Front(p) \in Seq(Names \cup Objs)
      /\ Len(Front(p)) = Len(p) - 1
      /\ Len(p) > 1 => Front(p) = SubSeq(p, 1, Len(p) - 1)
      /\ SubSeq(p, 1, Len(p)) = p /\ Len(p) \in 1..Len(p)
  BY <1>2, PathEnds, SubSeqFull
<1>4. file[p] # Branch /\ MadeByInterface(p)
  BY <1>1, <1>3 DEF Recreated
<1>5. Len(p) = 1 => file[p].class # "Attribute" /\ Front(p) = <<>>
  <2>1. ASSUME Len(p) = 1 PROVE file[p].class # "Attribute"
    BY <1>3, <1>4, <2>1 DEF MadeByInterface
  <2>2. ASSUME Len(p) = 1 PROVE Front(p) = <<>>
    BY <1>3, <2>2, EmptySeq
  <2> QED
    BY <2>1, <2>2
<1>6. ASSUME Len(p) > 1
      PROVE  Front(p) \in Restored /\ file[Front(p)].class \in ContainerKinds
  <2> DEFINE n == Len(p) - 1
             c == SubSeq(p, 1, n)
  <2>1. n \in 1..Len(p) /\ n < Len(p) /\ c = Front(p)
    BY <1>3, <1>6
  <2>2. c \in Seq(Names \cup Objs) /\ Len(c) = n /\ \A j \in 1..n : SubSeq(c, 1, j) = SubSeq(p, 1, j)
    BY <1>2, <2>1, CutPath
  <2>3. c \in DOMAIN file
    BY <1>2, <2>1 DEF NodesTo
  <2>4. file[c].class \in ContainerKinds
    BY <1>1, <2>1 DEF Recreated
  <2>5. \A j \in 1..n : j \in 1..Len(p) /\ (j < n => j < Len(p))
    BY <1>3
  <2> HIDE DEF n, c
  <2>6. Recreated(c)
    BY <1>1, <2>2, <2>5 DEF Recreated
  <2> QED
    BY <2>1, <2>3, <2>4, <2>6 DEF Restored
<1> QED
  BY <1>1, <1>2, <1>3, <1>4, <1>5, <1>6 DEF PInv, Records

\* Where a definition comes back from.
LEMMA LiveNode ==
    ASSUME PInv, ~ SharedOid
    PROVE  /\ \A o \in Live : o \in Objs /\ At(o) \in Restored /\ file[At(o)].oid = o
           /\ \A p \in Restored : file[p].oid \in Live /\ At(file[p].oid) = p
<1>1. ASSUME NEW o \in Live
      PROVE  o \in Objs /\ At(o) \in Restored /\ file[At(o)].oid = o
  <2>1. PICK p \in Restored : file[p].oid = o
    BY <1>1 DEF Live
  <2>2. file[p] \in Attributes
    BY RestoredNode
  <2>3. At(o) \in Restored /\ file[At(o)].oid = o
    BY <2>1 DEF At
  <2> QED
    BY <2>1, <2>2, <2>3 DEF Attributes
<1>2. ASSUME NEW p \in Restored
      PROVE  file[p].oid \in Live /\ At(file[p].oid) = p
  <2>1. file[p].oid \in Live
    BY DEF Live
  <2> QED
    BY <1>1, <2>1 DEF SharedOid
<1> QED
  BY <1>1, <1>2

\* A definition that comes back in a container: what it comes back from, and what
\* it comes back in.
LEMMA BackNode ==
    ASSUME PInv, ~ Clash, ~ SharedOid, NEW o, Back(o)
    PROVE  /\ o \in Objs /\ o \in Live /\ At(o) \in Restored /\ file[At(o)].oid = o
           /\ At(o) \in Seq(Names) /\ At(o) # <<>>
           /\ Last(At(o)) \in Names /\ file[At(o)].id \in Ids
           /\ file[At(o)].class \in ContainedKinds
           /\ Len(At(o)) \in Nat /\ Len(At(o)) >= 1
           /\ Parent(o) \in Objs \cup {Root} /\ Parent(o) # NoObj
           /\ Len(At(o)) = 1 =>
                /\ Parent(o) = Root /\ Front(At(o)) = <<>>
                /\ file[At(o)].class # "Attribute"
           /\ Len(At(o)) # 1 =>
                /\ Parent(o) \in Live /\ Parent(o) \in Objs
                /\ At(Parent(o)) = Front(At(o))
                /\ Back(Parent(o)) /\ Len(At(Parent(o))) < Len(At(o))
                /\ file[At(Parent(o))].class \in ContainerKinds
                /\ file[At(o)].class \in Containable(file[At(Parent(o))].class)
<1> USE ConstantsAssumption
<1> DEFINE p == At(o)
<1>1. o \in Live /\ o \in Objs /\ p \in Restored /\ file[p].oid = o
  BY LiveNode DEF Back
<1>2. file[p].class \in ContainedKinds
  BY DEF Back
<1>3. /\ p \in Seq(Names) /\ p # <<>> /\ file[p].id \in Ids
      /\ Len(p) \in Nat /\ Len(p) >= 1
      /\ Len(p) = 1 => file[p].class # "Attribute" /\ Front(p) = <<>>
      /\ Len(p) > 1 => Front(p) \in Restored /\ file[Front(p)].class \in ContainerKinds
  BY <1>1, <1>2, RestoredNode
<1> HIDE DEF p
<1>4. Last(p) \in Names /\ Len(Front(p)) = Len(p) - 1
  BY <1>3, PathEnds
<1>5. CASE Len(p) = 1
  BY <1>1, <1>2, <1>3, <1>4, <1>5 DEF Parent, Servants, p
<1>6. CASE Len(p) # 1
  <2> DEFINE q == Front(p)
  <2>1. q \in Restored /\ file[q].class \in ContainerKinds /\ Len(p) > 1
    <3>1. \A n \in Nat : n >= 1 /\ n # 1 => n > 1
      OBVIOUS
    <3>2. Len(p) > 1
      BY <1>3, <1>6, <3>1, Zenon
    <3> QED
      BY <1>3, <3>2
  <2>2. Parent(o) = file[q].oid
    BY <1>6 DEF Parent, p
  <2>3. /\ Parent(o) \in Live /\ Parent(o) \in Objs /\ At(Parent(o)) = q
    BY <2>1, <2>2, LiveNode
  <2>4. file[q].class \in ContainedKinds
    <3>1. file[q].class \in ContainedKinds \cup AnonymousKinds
      BY <2>1, RestoredNode
    <3> QED
      BY <2>1, <3>1 DEF ContainerKinds, AnonymousKinds
  <2>5. Back(Parent(o))
    BY <2>3, <2>4 DEF Back
  <2>6. file[p].class \in Containable(file[q].class)
    BY <1>1, <1>2, <2>1 DEF Clash
  <2>7. Len(q) < Len(p)
    BY <1>3, <1>4
  <2> QED
    BY <1>1, <1>2, <1>3, <1>4, <1>6, <2>1, <2>3, <2>5, <2>6, <2>7 DEF Servants, p
<1> QED
  BY <1>5, <1>6


\* What a server that is down knows of a definition, and what comes back of it.
LEMMA LoadLife ==
    ASSUME PInv, server = "down", ~ SharedOid, Load
    PROVE  /\ Live \subseteq Objs
           /\ \A o \in Objs :
                /\ IsActive(o)' <=> o \in Live
                /\ o \in Live => kind'[o] = file[At(o)].class
                /\ o \notin Live => life'[o] = life[o] /\ life[o] # "active"
                /\ kind[o] # "None" => kind'[o] # "None"
                /\ life[o] # "unborn" => life'[o] # "unborn"
           /\ \A s \in {Root, Prim} : life'[s] = life[s] /\ kind'[s] = kind[s]
<1> USE ConstantsAssumption
<1>1. Live \subseteq Objs /\ \A o \in Live : At(o) \in Restored
  BY LiveNode
<1>2. /\ life' = [s \in Servants |-> IF s \in Live THEN "active" ELSE life[s]]
      /\ kind' = [s \in Servants |-> IF s \in Live THEN file[At(s)].class ELSE kind[s]]
  BY LoadFields
<1>3. \A o \in Objs : life[o] # "active"
  BY DEF PInv, Idle, IsActive
<1>4. \A o \in Live : file[At(o)].class # "None"
  <2> SUFFICES ASSUME NEW o \in Live PROVE file[At(o)].class # "None"
    OBVIOUS
  <2>1. file[At(o)].class \in ContainedKinds \cup AnonymousKinds
    BY <1>1, RestoredNode
  <2> QED
    BY <2>1 DEF ContainedKinds, AnonymousKinds
<1> QED
  BY <1>1, <1>2, <1>3, <1>4 DEF Servants, IsActive

LEMMA LoadTypeOK ==
    ASSUME PInv, server = "down", ~ Clash, ~ SharedOid, Load, crash' = crash
    PROVE  TypeOK'
<1> USE ConstantsAssumption
<1>1. TypeOK
  BY DEF PInv, GInv, IInv
<1>2. /\ Live \subseteq Objs
      /\ \A o \in Live : At(o) \in Restored /\ file[At(o)] \in Attributes
  BY LiveNode, RestoredNode
<1>3. \A o \in Live : /\ file[At(o)].class \in AllKinds /\ file[At(o)].index \in Nat
                      /\ file[At(o)].refs \in SUBSET (Objs \cup {Prim})
  BY <1>2 DEF Attributes
<1>4. life' \in [Servants -> {"unborn", "active", "gone"}] /\ kind' \in [Servants -> AllKinds]
  <2>1. /\ life' = [s \in Servants |-> IF s \in Live THEN "active" ELSE life[s]]
        /\ kind' = [s \in Servants |-> IF s \in Live THEN file[At(s)].class ELSE kind[s]]
    BY LoadFields
  <2>2. \A s \in Live : file[At(s)].class \in AllKinds
    BY <1>3
  <2>3. /\ life \in [Servants -> {"unborn", "active", "gone"}]
        /\ kind \in [Servants -> AllKinds]
    BY <1>1 DEF TypeOK
  <2>4. life' \in [Servants -> {"unborn", "active", "gone"}]
    BY <2>1, <2>3
  <2>5. kind' \in [Servants -> AllKinds]
    BY <2>1, <2>2, <2>3
  <2> QED
    BY <2>4, <2>5
<1>5. \A o \in Objs : Up(o) \in Objs \cup {Root, NoObj}
  BY BackNode DEF Up
<1>6. definedIn' \in [Objs -> Objs \cup {Root, NoObj}]
  BY <1>5, LoadFields
<1>7. contents' \in [Servants -> SUBSET Objs] /\ anonymous' \in SUBSET Objs
  BY <1>2, LoadFields
<1>8. index' \in [Objs -> Nat]
  BY <1>3, LoadFields DEF Back
<1>9. /\ name' \in [Objs -> Names \cup {NoString}] /\ absName' \in [Objs -> Seq(Names)]
      /\ id' \in [Objs -> Ids \cup {NoString}]
  <2>1. \A o : Back(o) => /\ Last(At(o)) \in Names /\ At(o) \in Seq(Names)
                          /\ file[At(o)].id \in Ids
    BY BackNode
  <2>2. <<>> \in Seq(Names)
    OBVIOUS
  <2>3. /\ name' = [o \in Objs |-> IF Back(o) THEN Last(At(o)) ELSE NoString]
        /\ absName' = [o \in Objs |-> IF Back(o) THEN At(o) ELSE <<>>]
        /\ id' = [o \in Objs |-> IF Back(o) THEN file[At(o)].id ELSE NoString]
    BY LoadFields
  <2>4. name' \in [Objs -> Names \cup {NoString}]
    BY <2>1, <2>3
  <2>5. absName' \in [Objs -> Seq(Names)]
    BY <2>1, <2>2, <2>3
  <2>6. id' \in [Objs -> Ids \cup {NoString}]
    BY <2>1, <2>3
  <2> QED
    BY <2>4, <2>5, <2>6
<1>10. idmap' \in [Ids -> Objs \cup {NoObj}]
  BY <1>2, LoadFields
<1>11. /\ refs' \in [Servants -> SUBSET (Objs \cup {Prim})]
       /\ deps' \in [Servants -> SUBSET (Objs \cup {Prim})]
  BY <1>3, LoadFields
<1> QED
  BY <1>1, <1>4, <1>6, <1>7, <1>8, <1>9, <1>10, <1>11 DEF TypeOK

\* Two definitions that come back in containers have different ids, and in one
\* container names that differ by more than case.
LEMMA BackApart ==
    ASSUME PInv, ~ Clash, ~ SharedOid, NEW o, Back(o), NEW x, Back(x), o # x
    PROVE  /\ file[At(o)].id # file[At(x)].id
           /\ Parent(o) = Parent(x) => CaseClass[Last(At(o))] # CaseClass[Last(At(x))]
<1> USE ConstantsAssumption
<1>1. /\ At(o) \in Restored /\ file[At(o)].oid = o /\ file[At(o)].class \in ContainedKinds
      /\ At(x) \in Restored /\ file[At(x)].oid = x /\ file[At(x)].class \in ContainedKinds
  BY BackNode
<1>2. At(o) # At(x)
  BY <1>1
<1>3. file[At(o)].id # file[At(x)].id
  BY <1>1, <1>2 DEF Clash
<1>4. ASSUME Parent(o) = Parent(x) PROVE Front(At(o)) = Front(At(x))
  <2>1. CASE Len(At(o)) = 1
    <3>1. Front(At(o)) = <<>> /\ Parent(o) = Root
      BY <2>1, BackNode
    <3>2. Len(At(x)) = 1
      BY <1>4, <3>1, BackNode
    <3> QED
      BY <3>1, <3>2, BackNode
  <2>2. CASE Len(At(o)) # 1
    <3>1. Front(At(o)) = At(Parent(o)) /\ Parent(o) \in Objs
      BY <2>2, BackNode
    <3>2. Len(At(x)) # 1
      BY <1>4, <3>1, BackNode
    <3>3. Front(At(x)) = At(Parent(x))
      BY <3>2, BackNode
    <3> QED
      BY <1>4, <3>1, <3>3
  <2> QED
    BY <2>1, <2>2
<1>5. ASSUME Parent(o) = Parent(x)
      PROVE  CaseClass[Last(At(o))] # CaseClass[Last(At(x))]
  BY <1>1, <1>2, <1>4, <1>5 DEF Clash
<1> QED
  BY <1>3, <1>5


\* The rest of the invariant of IfrObjectsProofs holds of what was read back.
LEMMA LoadIInv ==
    ASSUME PInv, server = "down", ~ Clash, ~ SharedOid, Load, crash' = crash
    PROVE  IInv'
<1> USE ConstantsAssumption
<1>1. TypeOK'
  BY LoadTypeOK
<1>2. /\ Live \subseteq Objs /\ \A o : Back(o) => o \in Live
      /\ \A o \in Live : At(o) \in Restored
  BY LiveNode DEF Back
<1>3. FixedServants'
  <2>1. Root \notin Live /\ Prim \notin Live
    BY <1>2
  <2>2. refs'[Root] = {} /\ deps'[Root] = {}
    BY <2>1, LoadFields DEF Servants
  <2> QED
    BY <2>2, LoadLife DEF FixedServants, PInv, GInv, IInv, IsActive
<1>4. IdmapSound'
  <2> SUFFICES ASSUME NEW i \in Ids, idmap'[i] # NoObj
               PROVE  life'[idmap'[i]] = "active" /\ id'[idmap'[i]] = i
    BY DEF IdmapSound, IsActive
  <2>1. idmap'[i] = IF \E o \in Live : Back(o) /\ file[At(o)].id = i
                    THEN CHOOSE o \in Live : Back(o) /\ file[At(o)].id = i
                    ELSE NoObj
    BY LoadFields
  <2> DEFINE o == idmap'[i]
  <2>2. o \in Live /\ Back(o) /\ file[At(o)].id = i
    BY <2>1
  <2> HIDE DEF o
  <2>3. life'[o] = "active" /\ id'[o] = i
    BY <1>2, <2>2, LoadFields DEF Servants
  <2> QED
    BY <2>3 DEF o
<1>5. definedIn' = [o \in Objs |-> Up(o)]
  BY LoadFields
<1>6. ContainmentSound'
  <2>1. contents' = [c \in Servants |-> {o \in Live : definedIn'[o] = c}]
    BY LoadFields
  <2>2. \A o \in Objs : definedIn'[o] # NoObj => o \in Live
    BY <1>2, <1>5 DEF Up
  <2>3. \A o \in Objs, c \in Servants : o \in contents'[c] <=> definedIn'[o] = c
    BY <2>1, <2>2
  <2>4. \A o \in Objs : definedIn'[o] # NoObj => life'[o] = "active"
    BY <2>2, LoadFields DEF Servants
  <2> QED
    BY <2>3, <2>4 DEF ContainmentSound, IsActive
<1>7. SiblingNamesDistinct'
  <2> SUFFICES ASSUME NEW o \in Objs, NEW x \in Objs, o # x,
                      definedIn'[o] = definedIn'[x], definedIn'[o] # NoObj
               PROVE  CaseClass[name'[o]] # CaseClass[name'[x]]
    BY DEF SiblingNamesDistinct
  <2>1. Back(o) /\ Back(x) /\ Parent(o) = Parent(x)
    BY <1>5 DEF Up
  <2>2. name'[o] = Last(At(o)) /\ name'[x] = Last(At(x))
    BY <2>1, LoadFields
  <2> QED
    BY <2>1, <2>2, BackApart
<1>8. \A x \in Servants :
        /\ deps'[x] \subseteq refs'[x]
        /\ deps'[x] # {} \/ refs'[x] # {} => x \in Live
        /\ deps'[x] \subseteq Live \cup {Prim}
        /\ \A t \in refs'[x] \ deps'[x] : t \notin Live \cup {Prim}
        /\ x \in Live => \A t \in refs'[x] : t = Prim \/ life[t] # "unborn"
  <2> SUFFICES ASSUME NEW x \in Servants
               PROVE  /\ deps'[x] \subseteq refs'[x]
                      /\ deps'[x] # {} \/ refs'[x] # {} => x \in Live
                      /\ deps'[x] \subseteq Live \cup {Prim}
                      /\ \A t \in refs'[x] \ deps'[x] : t \notin Live \cup {Prim}
                      /\ x \in Live => \A t \in refs'[x] : t = Prim \/ life[t] # "unborn"
    OBVIOUS
  <2>1. /\ refs'[x] = IF x \in Live THEN file[At(x)].refs ELSE {}
        /\ deps'[x] = IF x \in Live THEN file[At(x)].refs \cap (Live \cup {Prim}) ELSE {}
    BY LoadFields
  <2>2. x \in Live => \A t \in file[At(x)].refs : t = Prim \/ life[t] # "unborn"
    BY <1>2, RestoredNode
  <2> QED
    BY <2>1, <2>2
<1>9. life'[Prim] = "active" /\ \A t \in Live : life'[t] = "active"
  <2>1. life'[Prim] = "active"
    BY <1>3 DEF FixedServants, IsActive
  <2>2. \A t \in Live : life'[t] = "active"
    BY <1>2, LoadFields DEF Servants
  <2> QED
    BY <2>1, <2>2
<1>10. DependencySound'
  <2>1. \A x \in Servants : \A t \in deps'[x] :
            life'[x] = "active" /\ life'[t] = "active" /\ t \in refs'[x]
    BY <1>8, <1>9
  <2> QED
    BY <2>1 DEF DependencySound, IsActive
<1>11. UnresolvedMeansGone'
  <2> SUFFICES ASSUME NEW x \in Servants, NEW t \in refs'[x] \ deps'[x]
               PROVE  life'[t] = "gone"
    BY DEF UnresolvedMeansGone
  <2>1. t \in Objs /\ t \notin Live
    BY <1>1, <1>8 DEF TypeOK
  <2>2. life[t] # "unborn" /\ life[t] # "active" /\ life'[t] = life[t]
    BY <1>8, <2>1, LoadLife
  <2> QED
    BY <2>1, <2>2 DEF PInv, GInv, IInv, TypeOK, Servants
<1> QED
  BY <1>1, <1>3, <1>4, <1>6, <1>7, <1>10, <1>11 DEF IInv

\* A path that leads to a definition is longer than one to what it is in, so that
\* following _defined_in ends.
LEMMA LoadNestingEnds ==
    ASSUME PInv, ~ Clash, ~ SharedOid, Load
    PROVE  NestingEnds'
<1> USE ConstantsAssumption
<1>1. definedIn' = [o \in Objs |-> Up(o)]
  BY LoadFields
<1> SUFFICES ASSUME NEW U \in SUBSET Objs, U # {}, \A x \in U : Up(x) \in U
             PROVE  FALSE
  BY <1>1 DEF NestingEnds
<1>2. \A x \in U : Back(x) /\ Parent(x) \in U
  BY DEF Up, Servants
<1> DEFINE N == {Len(At(x)) : x \in U}
           less == {ss \in Nat \X Nat : ss[1] < ss[2]}
<1>3. N \subseteq Nat /\ N # {}
  <2>1. \A x \in U : Len(At(x)) \in Nat
    BY <1>2, BackNode
  <2> QED
    BY <2>1
<1>4. IsWellFoundedOn(less, Nat)
  BY NatLessThanWellFounded DEF OpToRel
<1>5. PICK n \in N : \A m \in N : <<m, n>> \notin less
  <2> HIDE DEF N, less
  <2> QED
    BY <1>3, <1>4, WFMin
<1>6. PICK x \in U : n = Len(At(x))
  BY <1>5
<1>7. Parent(x) \in U /\ Back(x) /\ Parent(x) # Root
  BY <1>2
<1>8. /\ Len(At(Parent(x))) < Len(At(x)) /\ Len(At(x)) \in Nat
      /\ Len(At(Parent(x))) \in Nat
  BY <1>2, <1>7, BackNode
<1>9. Len(At(Parent(x))) \in N
  BY <1>7
<1>10. <<Len(At(Parent(x))), n>> \in less
  BY <1>6, <1>8
<1> QED
  BY <1>5, <1>9, <1>10


LEMMA LoadPlaces ==
    ASSUME PInv, server = "down", ~ Clash, ~ NilReference, ~ SharedOid, Load,
           TypeOK', IdmapSound'
    PROVE  /\ Rooted' /\ Placed' /\ Held' /\ Named' /\ Registered'
           /\ Fitting' /\ Listed' /\ Referring' /\ Made'
<1> USE ConstantsAssumption
<1>1. /\ Live \subseteq Objs /\ \A o : Back(o) => o \in Live
      /\ \A o \in Live :
            /\ At(o) \in Restored
            /\ file[At(o)].class \in ContainedKinds \cup AnonymousKinds
  BY LiveNode, RestoredNode DEF Back
<1>2. /\ \A o \in Objs :
            /\ life'[o] = "active" <=> o \in Live
            /\ o \in Live => kind'[o] = file[At(o)].class
            /\ o \notin Live => life'[o] = life[o] /\ kind'[o] = kind[o]
      /\ \A s \in {Root, Prim} : life'[s] = life[s] /\ kind'[s] = kind[s]
  <2>1. \A o \in Objs : o \notin Live => kind'[o] = kind[o]
    BY LoadFields DEF Servants
  <2> QED
    BY <2>1, LoadLife DEF IsActive
<1>3. definedIn' = [o \in Objs |-> Up(o)]
  BY LoadFields
<1>4. \A o \in Objs : /\ definedIn'[o] # NoObj <=> Back(o)
                      /\ Back(o) => definedIn'[o] = Parent(o)
  BY <1>3, BackNode DEF Up
<1>5. life'[Root] = "active" /\ kind'[Root] = "Repository"
  BY <1>2 DEF PInv, GInv, Rooted, IsActive
<1>6. Rooted'
  <2>1. \A o \in Objs : kind'[o] \in ContainedKinds \cup AnonymousKinds \cup {"None"}
    BY <1>1, <1>2 DEF PInv, GInv, Rooted
  <2> QED
    BY <1>5, <2>1 DEF Rooted, IsActive
<1>7. Placed'
  BY <1>2, <1>4 DEF Placed, IsActive, Back
<1>8. ASSUME NEW o, Back(o)
      PROVE  /\ life'[Parent(o)] = "active" /\ kind'[Parent(o)] \in ContainerKinds
             /\ kind'[o] \in Containable(kind'[Parent(o)])
  <2>1. kind'[o] = file[At(o)].class /\ o \in Objs
    BY <1>1, <1>2, <1>8
  <2>2. CASE Len(At(o)) = 1
    <3>1. /\ Parent(o) = Root /\ file[At(o)].class # "Attribute"
          /\ file[At(o)].class \in ContainedKinds
      BY <1>8, <2>2, BackNode
    <3>2. ContainedKinds \ {"Attribute"} \subseteq Containable("Repository")
      BY DEF ContainedKinds, Containable, HeldByModule, TypedefKinds
    <3> QED
      BY <1>5, <2>1, <3>1, <3>2 DEF ContainerKinds
  <2>3. CASE Len(At(o)) # 1
    <3>1. /\ Parent(o) \in Live /\ Parent(o) \in Objs
          /\ file[At(Parent(o))].class \in ContainerKinds
          /\ file[At(o)].class \in Containable(file[At(Parent(o))].class)
      BY <1>8, <2>3, BackNode
    <3> QED
      BY <1>2, <2>1, <3>1
  <2> QED
    BY <2>2, <2>3
<1>9. Held'
  <2> SUFFICES ASSUME NEW c \in Servants, NEW o \in contents'[c]
               PROVE  life'[c] = "active" /\ kind'[c] \in ContainerKinds
    BY DEF Held, IsActive
  <2>1. contents' = [d \in Servants |-> {x \in Live : definedIn'[x] = d}]
    BY LoadFields
  <2>2. o \in Objs /\ definedIn'[o] = c
    BY <1>1, <2>1
  <2>3. Back(o) /\ c = Parent(o)
    BY <1>4, <2>2
  <2> QED
    BY <1>8, <2>3
<1>10. Fitting'
  BY <1>4, <1>8 DEF Fitting
<1>11. Named'
  <2> SUFFICES ASSUME NEW o \in Objs, Back(o)
               PROVE  name'[o] \in Names /\ absName'[o] # <<>>
    BY <1>4 DEF Named
  <2>1. name'[o] = Last(At(o)) /\ absName'[o] = At(o)
    BY LoadFields
  <2> QED
    BY <2>1, BackNode
<1>12. Registered'
  <2>1. id' = [o \in Objs |-> IF Back(o) THEN file[At(o)].id ELSE NoString]
    BY LoadFields
  <2>2. ASSUME NEW o \in Objs, Back(o)
        PROVE  id'[o] \in Ids /\ idmap'[id'[o]] = o
    <3> DEFINE i == file[At(o)].id
    <3>1. id'[o] = i /\ i \in Ids
      BY <2>1, <2>2, BackNode
    <3>2. idmap'[i] = IF \E x \in Live : Back(x) /\ file[At(x)].id = i
                      THEN CHOOSE x \in Live : Back(x) /\ file[At(x)].id = i
                      ELSE NoObj
      BY <3>1, LoadFields
    <3>3. \A x : Back(x) /\ file[At(x)].id = i => x = o
      BY <2>2, BackApart
    <3>4. o \in Live
      BY <1>1, <2>2
    <3> HIDE DEF i
    <3>5. Back(o) /\ file[At(o)].id = i
      BY <2>2 DEF i
    <3> QED
      BY <3>1, <3>2, <3>3, <3>4, <3>5
  <2>3. \A o \in Objs : ~ Back(o) => id'[o] = NoString
    BY <2>1
  <2> QED
    BY <1>4, <2>2, <2>3 DEF Registered
<1>13. Listed'
  <2>1. anonymous' = {o \in Live : ~ Back(o)}
    BY LoadFields
  <2>2. \A o \in Live : ~ Back(o) <=> file[At(o)].class \in AnonymousKinds
    <3>1. ContainedKinds \cap AnonymousKinds = {}
      BY DEF ContainedKinds, AnonymousKinds
    <3> QED
      BY <1>1, <3>1 DEF Back
  <2> QED
    BY <1>1, <1>2, <2>1, <2>2 DEF Listed, IsActive
<1>14. Referring'
  <2> SUFFICES ASSUME NEW o \in Objs, life'[o] = "active", kind'[o] \in OneRefKinds
               PROVE  refs'[o] # {}
    BY DEF Referring, IsActive
  <2>1. o \in Live /\ kind'[o] = file[At(o)].class
    BY <1>2
  <2>2. refs'[o] = file[At(o)].refs
    BY <1>1, <2>1, LoadFields DEF Servants
  <2> QED
    BY <1>1, <2>1, <2>2 DEF NilReference
<1>15. Made'
  <2>1. \A o \in Live : file[At(o)].class # "None"
    BY <1>1 DEF ContainedKinds, AnonymousKinds
  <2> QED
    BY <1>2, <2>1 DEF Made, IsActive
<1> QED
  BY <1>6, <1>7, <1>9, <1>10, <1>11, <1>12, <1>13, <1>14, <1>15

LEMMA RestartPInv ==
    ASSUME PInv, Restart
    PROVE  PInv'
<1>1. UNCHANGED <<file, opened, blank, walk, saved>> /\ server = "down"
  BY DEF Restart
<1>2. walk' = NoWalk
  BY <1>1 DEF PInv, Idle
<1>3. Tree' /\ Kept' /\ Fits' /\ Apart' /\ TopsWhole'
  BY <1>1 DEF PInv, Tree, Kept, Fits, Apart, TopsWhole
<1>4. CASE Clash \/ NilReference \/ SharedOid
  <2>1. UNCHANGED vars /\ UNCHANGED <<life, kind>>
    BY <1>4 DEF Restart, vars
  <2>2. GInv'
    BY <2>1, NextGInv DEF PInv
  <2>3. Idle' /\ Made' /\ Records'
    BY <1>1, <1>2, <2>1, NoWalkNext DEF PInv, Idle, Made, Records, IsActive
  <2> QED
    BY <1>2, <1>3, <2>2, <2>3, NoWalkNext DEF PInv
<1>5. CASE ~ (Clash \/ NilReference \/ SharedOid)
  <2>1. Load /\ crash' = crash /\ server' = "up"
    BY <1>5 DEF Restart
  <2>2. IInv' /\ NestingEnds'
    BY <1>1, <1>5, <2>1, LoadIInv, LoadNestingEnds
  <2>3. /\ Rooted' /\ Placed' /\ Held' /\ Named' /\ Registered'
        /\ Fitting' /\ Listed' /\ Referring' /\ Made'
    BY <1>1, <1>5, <2>1, <2>2, LoadPlaces DEF IInv
  <2>4. GInv'
    BY <2>2, <2>3 DEF GInv
  <2>5. Idle'
    BY <1>2, <2>1 DEF Idle
  <2>6. Records'
    <3>1. \A p \in DOMAIN file : file[p] # Branch => file[p].refs \subseteq Objs \cup {Prim}
      BY DEF PInv, Records, Attributes
    <3>2. \A t \in Objs : life[t] # "unborn" => life'[t] # "unborn"
      BY <1>1, <1>5, <2>1, LoadLife
    <3> QED
      BY <1>1, <3>1, <3>2 DEF PInv, Records
  <2> QED
    BY <1>2, <1>3, <2>3, <2>4, <2>5, <2>6, NoWalkNext DEF PInv
<1> QED
  BY <1>4, <1>5


-----------------------------------------------------------------------------
(* The theorems.                                                           *)

LEMMA PNextPInv ==
    ASSUME PInv, [PNext]_pvars
    PROVE  PInv'
<1>1. CASE Request
  BY <1>1, RequestPInv
<1>2. ASSUME NEW o \in Objs, SetVersion(o) PROVE PInv'
  BY <1>2, SetVersionPInv
<1>3. CASE BeginCheckpoint
  BY <1>3, BeginPInv
<1>4. CASE EndCheckpoint
  BY <1>4, EndPInv
<1>5. ASSUME NEW o \in Objs, WriteAnonymous(o) PROVE PInv'
  BY <1>5, WriteAnonymousPInv
<1>6. ASSUME NEW o \in Objs, WriteFirst(o) \/ WriteNext(o) PROVE PInv'
  BY <1>6, WriteNamedPInv
<1>7. CASE Stop
  BY <1>7, StopPInv
<1>8. CASE Restart
  BY <1>8, RestartPInv
<1>9. CASE UNCHANGED pvars
  <2>1. /\ UNCHANGED <<vars, life, kind, definedIn, contents, index, anonymous, name, absName, id>>
        /\ UNCHANGED <<file, server, walk, saved>>
    BY <1>9 DEF pvars, vars, tree, naming, ids
  <2>2. GInv'
    BY <2>1, NextGInv DEF PInv
  <2>3. Idle' /\ Made' /\ WalkOK' /\ Tree' /\ Records'
    BY <2>1 DEF PInv, Idle, Made, IsActive, WalkOK, Tree, Records
  <2>4. Kept' /\ Fits' /\ Apart' /\ TopsWhole'
    BY <2>1 DEF PInv, Kept, Fits, Apart, TopsWhole
  <2>5. Written'
    BY <2>1 DEF PInv, Written, IsActive, PathOf, PathTo, AbsoluteName
  <2>6. Path' = Path /\ InContents' = InContents
    BY <2>1 DEF Path, InContents
  <2>7. Visited' /\ Nested' /\ Standing' /\ Ahead'
    BY <2>1, <2>6 DEF PInv, Visited, Nested, Standing, Ahead, IsActive
  <2> QED
    BY <2>2, <2>3, <2>4, <2>5, <2>7 DEF PInv
<1> QED
  BY <1>1, <1>2, <1>3, <1>4, <1>5, <1>6, <1>7, <1>8, <1>9 DEF PNext

\* Through any sequence of requests, checkpoints that requests are served during,
\* crashes and restarts, the definitions stay a tree with unique ids and distinct
\* names, and the file keeps all that the last checkpoint wrote.
THEOREM PersistenceInvariance == PSpec => []PInv
<1> QED
  BY InitPInv, PNextPInv, PTL DEF PSpec

\* What is in the file and was not written by the last checkpoint shares its top
\* with nothing that was: addnode() replaced the rest.
THEOREM LeftoversOnlyAtTheTop == PSpec => []LeftoversAtTheTop
<1>1. PInv => LeftoversAtTheTop
  BY DEF PInv, TopsWhole, LeftoversAtTheTop, Leftovers
<1> QED
  BY <1>1, PersistenceInvariance, PTL

\* What was written last is read back without a clash, as far as nothing else is.
LEMMA RefusedStep ==
    ASSUME PInv, RefusedForLeftovers, [PNext]_pvars
    PROVE  RefusedForLeftovers'
<1> SUFFICES ASSUME server' \in {"refused", "twins"}, saved' # Unknown, Leftovers' = {}
             PROVE  FALSE
  BY DEF RefusedForLeftovers
<1>1. CASE server \in {"refused", "twins"}
  <2>1. ~ walk.on
    BY <1>1 DEF PInv, Idle
  <2>2. ~ PNext
    BY <1>1, <2>1
       DEF PNext, Request, SetVersion, BeginCheckpoint, EndCheckpoint, WriteAnonymous,
           WriteFirst, WriteNext, AtAnonymous, AtNamed, Stop, Restart
  <2>3. file' = file /\ saved' = saved
    BY <2>2 DEF pvars
  <2> QED
    BY <1>1, <2>3 DEF RefusedForLeftovers, Leftovers
<1>2. CASE server \notin {"refused", "twins"}
  <2>1. Restart
    BY <1>2
       DEF PNext, pvars, Request, SetVersion, BeginCheckpoint, EndCheckpoint,
           WriteAnonymous, WriteFirst, WriteNext, WriteRecord, Stop, Forget
  <2>2. file' = file /\ saved' = saved /\ (Clash \/ NilReference \/ SharedOid)
    BY <2>1 DEF Restart
  <2>3. \A p \in DOMAIN file : file[p] # Branch => p \in DOMAIN saved
    BY <2>2 DEF Leftovers
  <2>4. ASSUME NEW p \in Restored
        PROVE  /\ p \in DOMAIN saved /\ file[p] = saved[p]
               /\ Len(p) > 1 => Front(p) \in DOMAIN saved /\ file[Front(p)] = saved[Front(p)]
    <3>1. \A q \in Restored : q \in DOMAIN saved /\ file[q] = saved[q]
      BY <2>2, <2>3, RestoredNode DEF PInv, Kept
    <3> QED
      BY <3>1, RestoredNode
  <2>5. ~ SharedOid
    BY <2>2, <2>4 DEF SharedOid, PInv, Apart
  <2>6. ~ NilReference
    BY <2>2, <2>4 DEF NilReference, PInv, Fits
  <2>7. ~ Clash
    <3>1. \A p, q \in Restored :
            (p # q /\ {file[p].class, file[q].class} \subseteq ContainedKinds) =>
                /\ file[p].id # file[q].id
                /\ Front(p) = Front(q) => CaseClass[Last(p)] # CaseClass[Last(q)]
      BY <2>2, <2>4 DEF PInv, Apart
    <3>2. \A p \in Restored :
            Len(p) > 1 => file[p].class \in Containable(file[Front(p)].class)
      BY <2>2, <2>4 DEF PInv, Fits
    <3> QED
      BY <3>1, <3>2 DEF Clash
  <2> QED
    BY <2>2, <2>5, <2>6, <2>7
<1> QED
  BY <1>1, <1>2

\* A checkpoint that was written whole and under current names is no reason for a
\* startup to fail: one that does meets records of an earlier checkpoint.
THEOREM RefusedOnlyForLeftovers == PSpec => []RefusedForLeftovers
<1>1. PInit => RefusedForLeftovers
  BY DEF PInit, RefusedForLeftovers
<1> QED
  BY <1>1, RefusedStep, PersistenceInvariance, PTL DEF PSpec

\* The records of the last checkpoint that no empty version hides are read back.
LEMMA SavedRestored ==
    ASSUME PInv, saved # Unknown, NEW p \in DOMAIN saved,
           \A k \in 1..Len(p) : ~ saved[SubSeq(p, 1, k)].blank
    PROVE  p \in Restored /\ file[p] = saved[p]
<1>1. /\ p \in DOMAIN file /\ file[p] = saved[p] /\ NodesTo(p) \subseteq DOMAIN saved
      /\ p \in Seq(Names \cup Objs) /\ p # <<>> /\ Len(p) \in Nat
  BY LenProperties DEF PInv, Kept, Tree, NodePaths
<1>2. ASSUME NEW k \in 1..Len(p)
      PROVE  LET q == SubSeq(p, 1, k) IN
             /\ q \in DOMAIN saved /\ file[q] = saved[q] /\ file[q] # Branch
             /\ Len(q) = k /\ (k > 1 => Front(q) = SubSeq(p, 1, k - 1))
  <2>1. SubSeq(p, 1, k) \in DOMAIN saved
    BY <1>1 DEF NodesTo
  <2>2. /\ Len(SubSeq(p, 1, k)) = k
        /\ k > 1 => Front(SubSeq(p, 1, k)) = SubSeq(p, 1, k - 1)
    BY <1>1, CutPath
  <2> QED
    BY <2>1, <2>2 DEF PInv, Kept
<1>3. ASSUME NEW k \in 1..Len(p), k > 1
      PROVE  LET q == SubSeq(p, 1, k)
                 c == SubSeq(p, 1, k - 1)
             IN file[q].class \in Containable(file[c].class)
  <2>1. k - 1 \in 1..Len(p)
    BY <1>1, <1>3
  <2> QED
    BY <1>2, <1>3, <2>1 DEF PInv, Fits
<1>4. \A ck : Containable(ck) # {} => ck \in ContainerKinds
  BY DEF Containable, ContainerKinds
<1>5. \A ck : "Attribute" \in Containable(ck) => ck = "Interface"
  BY DEF Containable, HeldByModule, HeldByInterface, HeldByStruct, TypedefKinds
<1>6. ASSUME NEW k \in 1..Len(p)
      PROVE  LET q == SubSeq(p, 1, k) IN
             /\ file[q] # Branch /\ ~ file[q].blank
             /\ k < Len(p) => file[q].class \in ContainerKinds
             /\ MadeByInterface(q)
  <2> DEFINE q == SubSeq(p, 1, k)
  <2>1. file[q] # Branch /\ ~ file[q].blank /\ Len(q) = k
    BY <1>2
  <2>2. ASSUME k < Len(p) PROVE file[q].class \in ContainerKinds
    <3>1. k + 1 \in 1..Len(p) /\ k + 1 > 1 /\ (k + 1) - 1 = k
      BY <1>1, <2>2
    <3>2. file[SubSeq(p, 1, k + 1)].class \in Containable(file[q].class)
      BY <1>3, <3>1
    <3> QED
      BY <1>4, <3>2
  <2>3. ASSUME file[q].class = "Attribute"
        PROVE  Len(q) > 1 /\ file[Front(q)].class = "Interface"
    <3>1. CASE k > 1
      BY <1>2, <1>3, <1>5, <2>1, <2>3, <3>1
    <3>2. CASE k = 1
      <4>1. file[q].class \in Containable("Repository") \cup AnonymousKinds
        BY <1>2, <2>1, <3>2 DEF PInv, Fits
      <4>2. "Attribute" \notin Containable("Repository") \cup AnonymousKinds
        BY DEF Containable, HeldByModule, TypedefKinds, AnonymousKinds
      <4> QED
        BY <2>3, <4>1, <4>2
    <3>3. k > 1 \/ k = 1
      BY <1>1
    <3> QED
      BY <3>1, <3>2, <3>3
  <2> QED
    BY <2>1, <2>2, <2>3 DEF MadeByInterface
<1> QED
  BY <1>1, <1>6 DEF Restored, Recreated

LEMMA RestoredStep ==
    ASSUME PInv, PInv', [PNext]_pvars, server = "down", server' = "up", saved # Unknown,
           NEW p \in DOMAIN saved,
           \A k \in 1..Len(p) : ~ saved[SubSeq(p, 1, k)].blank
    PROVE  LET o == saved[p].oid IN
           /\ life'[o] = "active" /\ kind'[o] = saved[p].class
           /\ refs'[o] = saved[p].refs
           /\ kind'[o] \in ContainedKinds =>
                /\ absName'[o] = p /\ id'[o] = saved[p].id
                /\ idmap'[id'[o]] = o
                /\ o \in contents'[definedIn'[o]]
                /\ index'[o] = saved[p].index
<1> USE ConstantsAssumption
<1>1. Restart
  <2>1. ~ walk.on
    BY DEF PInv, Idle
  <2> QED
    BY <2>1
       DEF PNext, pvars, Request, SetVersion, BeginCheckpoint, EndCheckpoint,
           WriteAnonymous, WriteFirst, WriteNext, AtAnonymous, AtNamed, Stop
<1>2. Load /\ ~ Clash /\ ~ SharedOid
  BY <1>1 DEF Restart
<1>3. p \in Restored /\ file[p] = saved[p]
  BY SavedRestored
<1> DEFINE o == saved[p].oid
<1>4. o \in Live /\ o \in Objs /\ At(o) = p
  BY <1>2, <1>3, LiveNode
<1> HIDE DEF o
<1>5. life'[o] = "active" /\ kind'[o] = saved[p].class /\ refs'[o] = saved[p].refs
  BY <1>2, <1>3, <1>4, LoadFields DEF Servants
<1>6. ASSUME kind'[o] \in ContainedKinds
      PROVE  /\ absName'[o] = p /\ id'[o] = saved[p].id /\ idmap'[id'[o]] = o
             /\ o \in contents'[definedIn'[o]] /\ index'[o] = saved[p].index
  <2>1. Back(o)
    BY <1>3, <1>4, <1>5, <1>6 DEF Back
  <2>2. absName'[o] = p /\ id'[o] = saved[p].id /\ index'[o] = saved[p].index
    BY <1>2, <1>3, <1>4, <2>1, LoadFields
  <2>3. definedIn'[o] # NoObj
    BY <1>4, <1>5, <1>6 DEF PInv, GInv, Placed, IsActive
  <2>4. idmap'[id'[o]] = o
    BY <1>4, <2>3 DEF PInv, GInv, Registered
  <2>5. definedIn'[o] \in Servants
    BY <1>4, <2>3 DEF PInv, GInv, IInv, TypeOK, Servants
  <2>6. o \in contents'[definedIn'[o]]
    BY <1>4, <2>3, <2>5 DEF PInv, GInv, IInv, ContainmentSound
  <2> QED
    BY <2>2, <2>4, <2>6
<1> QED
  BY <1>5, <1>6 DEF o

\* A server that starts has each definition the last checkpoint wrote: the same
\* object, of the same kind, with the same references, under its name and its id.
THEOREM CheckpointRestored == PSpec => RestoredAsSaved
<1>1. (PInv /\ PInv' /\ [PNext]_pvars) =>
        ((server = "down" /\ server' = "up" /\ saved # Unknown) =>
            \A p \in DOMAIN saved :
                (\A k \in 1..Len(p) : ~ saved[SubSeq(p, 1, k)].blank) =>
                    LET o == saved[p].oid IN
                    /\ life'[o] = "active" /\ kind'[o] = saved[p].class
                    /\ refs'[o] = saved[p].refs
                    /\ kind'[o] \in ContainedKinds =>
                        /\ absName'[o] = p /\ id'[o] = saved[p].id
                        /\ idmap'[id'[o]] = o
                        /\ o \in contents'[definedIn'[o]]
                        /\ index'[o] = saved[p].index)
  BY RestoredStep
<1> QED
  BY <1>1, PersistenceInvariance, PTL DEF PSpec, RestoredAsSaved

LEMMA MissedStep ==
    ASSUME PInv, [PNext]_pvars, walk.on, ~ walk'.on, server' = "up"
    PROVE  walk.due = {}
<1> USE ConstantsAssumption
<1>1. EndCheckpoint
  <2>1. ~ Stop /\ ~ BeginCheckpoint /\ ~ Restart /\ \A o \in Objs : ~ SetVersion(o)
    BY DEF Stop, Forget, BeginCheckpoint, Restart, SetVersion, PInv, Idle
  <2>2. ~ Request
    BY RequestFields
  <2>3. \A o \in Objs : ~ WriteAnonymous(o) /\ ~ WriteFirst(o) /\ ~ WriteNext(o)
    <3>1. \A path : \A o \in Objs : ~ WriteRecord(o, path)
      BY DEF WriteRecord, PInv, WalkOK
    <3> QED
      BY <3>1 DEF WriteAnonymous, WriteFirst, WriteNext
  <2> QED
    BY <2>1, <2>2, <2>3 DEF PNext, pvars
<1>2. Through(0) /\ walk.due \cap anonymous = {}
  BY <1>1 DEF EndCheckpoint, AtNamed, PInv, Ahead
<1> SUFFICES ASSUME walk.due # {} PROVE FALSE
  OBVIOUS
<1>3. PICK x \in walk.due : definedIn[x] \notin walk.due
  BY DEF PInv, GInv, NestingEnds, WalkOK
<1>4. x \in Objs /\ IsActive(x) /\ x \notin anonymous
  BY <1>2 DEF PInv, Ahead, WalkOK
<1>5. definedIn[x] # NoObj
  BY <1>4 DEF PInv, Made, GInv, Rooted, Placed, Listed
<1>6. definedIn[x] \in Range(Path)
  BY <1>3, <1>5 DEF PInv, Ahead
<1>7. PICK j \in 1..Len(Path) : definedIn[x] = Path[j]
  BY <1>6, PathType DEF PInv
<1>8. 0 \in 0..(Len(Path) - 1) /\ j \in (0 + 1)..Len(Path)
  BY <1>7, PathType DEF PInv
<1> QED
  BY <1>2, <1>7, <1>8, ThroughPassed

\* A checkpoint that comes to its end has written every definition that was there
\* when it began, and that nobody touched meanwhile.
THEOREM CheckpointMissesNothing == PSpec => NothingMissed
<1>1. (PInv /\ [PNext]_pvars) =>
        ((walk.on /\ ~ walk'.on /\ server' = "up") => walk.due = {})
  BY MissedStep
<1> QED
  BY <1>1, PersistenceInvariance, PTL DEF PSpec, NothingMissed


=============================================================================
