--------------------------- MODULE IfrLoaderProofs ---------------------------
(***************************************************************************)
(* Proofs about IfrLoader, for every value of its constants: any number of *)
(* loaders, any valid files.                                               *)
(*                                                                         *)
(* LInv says that what a loader remembers of the server is still true,     *)
(* whatever the others have done meanwhile: it makes each of its calls a   *)
(* request of a careful client.  SInv adds, for loads of one file in an    *)
(* empty Repository, that nothing is there but what the file declares, and *)
(* that one loader is not about to make what another one has made.         *)
(* AInv adds, for loads beside which only their own file is loaded, that   *)
(* the visits a loader has finished are entered as the file has them, or   *)
(* are inside a typedef that was there, that what is new is declared by it *)
(* and has inside it all the file declares there, and that what a loader   *)
(* nobody disturbs is about to make is not there yet.                      *)
(***************************************************************************)
EXTENDS IfrLoader, IfrCarefulProofs

-----------------------------------------------------------------------------
(* The invariant.                                                          *)

\* Kinds whose type is brought up to date.
TypedFirst == {"Constant", "Attribute"}
Phases(v) ==
    IF v.visit = "end"
    THEN IF v.kind \in TypedAtEnd THEN {"type", "wrap", "refs"} ELSE {"pop"}
    ELSE IF v.visit = "forward" THEN {"find", "make"}
    ELSE IF v.visit = "again" THEN {"find", "id", "refs"}
    ELSE IF v.visit = "typedef" THEN {"find"}
    ELSE IF v.kind \in TypedFirst THEN {"type", "wrap", "find", "make", "id", "refs"}
    ELSE IF v.kind = "Alias" THEN {"type", "wrap", "make"}
    ELSE {"find", "make", "id"}

JobPhases == {"type", "wrap", "find", "make", "id", "refs", "pop"}
Jobs ==
    [status : {"running", "done", "failed", "killed"}, file : Files, at : Nat,
     phase : JobPhases, stack : Seq(Objs \cup {Root}), found : Objs \cup {NoObj},
     resultType : Objs \cup {Prim, NoObj}, before : SUBSET Objs, met : SUBSET Files]

LoaderTyped ==
    /\ loader \in [Loaders -> Jobs \cup {Idle}]
    /\ begun \in [files : SUBSET Files, loads : Nat]

\* Nothing is ever moved or renamed: absolute names are right.
AbsExact ==
    \A o \in Objs : definedIn[o] # NoObj => absName[o] = AbsoluteName(definedIn[o], name[o])

\* Nothing is ever destroyed.
NothingGone == \A o \in Objs : life[o] # "gone"

\* c is what the scope s of file f opened.
Opened(f, c, s) ==
    IF s = <<>> THEN c = Root
    ELSE /\ c \in Objs /\ definedIn[c] # NoObj /\ absName[c] = s
         /\ \E j \in DOMAIN f : Opens(f[j]) /\ PathOf(f[j]) = s /\ kind[c] = f[j].kind

\* o is what visit v declares in container c.
Stands(o, v, c) ==
    /\ o \in Objs /\ definedIn[o] = c /\ name[o] = v.name /\ kind[o] = v.kind

Visited(L) == L.file[L.at]

\* The loader knows the type of the visit.
KnowsType(L) ==
    LET v == Visited(L) IN
    \/ v.visit = "again" \/ L.phase \in {"wrap", "refs"}
    \/ L.phase \in {"find", "id"} /\ v.kind \in TypedFirst
    \/ L.phase = "make" /\ v.kind \in TypedAtOnce

Placing(L) ==
    L.status = "running" =>
        /\ L.at \in DOMAIN L.file
        /\ L.phase \in Phases(Visited(L))
        /\ Len(L.stack) = Len(Visited(L).scope) + 1
        /\ \A k \in 1..Len(L.stack) :
            Opened(L.file, L.stack[k], SubSeq(Visited(L).scope, 1, k - 1))
        /\ (L.phase = "id" \/ (L.phase = "refs" /\ Visited(L).visit # "end")) =>
                Stands(L.found, Visited(L), Last(L.stack))
        /\ L.resultType # NoObj => IsActive(L.resultType)
        /\ KnowsType(L) => L.resultType # NoObj

LInv ==
    /\ CInv
    /\ LoaderTyped
    /\ AbsExact
    /\ NothingGone
    /\ \A l \in Loaders : Placing(loader[l])

-----------------------------------------------------------------------------
(* Sequences.                                                              *)

LEMMA SamePrefix ==
    ASSUME NEW S, NEW s \in Seq(S), NEW t \in Seq(S), NEW k \in Nat, k <= Len(s),
           k <= Len(t), \A i \in 1..k : s[i] = t[i]
    PROVE  SubSeq(t, 1, k) = SubSeq(s, 1, k)
<1> DEFINE a == SubSeq(t, 1, k)
           b == SubSeq(s, 1, k)
<1>1. a \in Seq(S) /\ Len(a) = k /\ \A i \in 1..k : a[i] = t[i]
  OBVIOUS
<1>2. b \in Seq(S) /\ Len(b) = k /\ \A i \in 1..k : b[i] = s[i]
  OBVIOUS
<1> HIDE DEF a, b
<1>3. a = b
  BY <1>1, <1>2
<1> QED
  BY <1>3 DEF a, b

LEMMA Pushed ==
    ASSUME NEW S, NEW s \in Seq(S), NEW x \in S
    PROVE  /\ Append(s, x) \in Seq(S) /\ Len(Append(s, x)) = Len(s) + 1
           /\ \A i \in 1..Len(s) : Append(s, x)[i] = s[i]
           /\ Append(s, x)[Len(s) + 1] = x
           /\ \A k \in 0..Len(s) : SubSeq(Append(s, x), 1, k) = SubSeq(s, 1, k)
           /\ SubSeq(Append(s, x), 1, Len(s) + 1) = Append(s, x)
OBVIOUS

LEMMA Popped ==
    ASSUME NEW S, NEW s \in Seq(S), s # <<>>
    PROVE  /\ Front(s) \in Seq(S) /\ Len(Front(s)) = Len(s) - 1 /\ Len(s) - 1 \in Nat
           /\ \A i \in 1..(Len(s) - 1) : Front(s)[i] = s[i]
           /\ \A k \in 0..(Len(s) - 1) : SubSeq(Front(s), 1, k) = SubSeq(s, 1, k)
<1>1. /\ Front(s) \in Seq(S) /\ Len(Front(s)) = Len(s) - 1 /\ Len(s) - 1 \in Nat
      /\ \A i \in 1..(Len(s) - 1) : Front(s)[i] = s[i]
  <2>1. Len(s) \in Nat /\ Len(s) # 0
    OBVIOUS
  <2>2. \A n \in Nat : n <= Len(s) =>
            /\ SubSeq(s, 1, n) \in Seq(S) /\ Len(SubSeq(s, 1, n)) = n
            /\ \A i \in 1..n : SubSeq(s, 1, n)[i] = s[i]
    OBVIOUS
  <2>3. Front(s) = SubSeq(s, 1, Len(s) - 1) /\ Len(s) - 1 \in Nat /\ Len(s) - 1 <= Len(s)
    BY <2>1 DEF Front
  <2> QED
    BY <2>2, <2>3
<1>2. ASSUME NEW k \in 0..(Len(s) - 1)
      PROVE  SubSeq(Front(s), 1, k) = SubSeq(s, 1, k)
  <2>1. /\ k \in Nat /\ k <= Len(s) /\ k <= Len(Front(s))
        /\ \A i \in 1..k : s[i] = Front(s)[i]
    BY <1>1
  <2> HIDE DEF Front
  <2> QED
    BY <1>1, <2>1, SamePrefix
<1> QED
  BY <1>1, <1>2

-----------------------------------------------------------------------------
(* Files.                                                                  *)

LEMMA FileFacts ==
    ASSUME NEW f \in Files
    PROVE  /\ Len(f) \in Nat \ {0} /\ DOMAIN f = 1..Len(f)
           /\ \A i \in DOMAIN f : TypedVisit(f[i])
           /\ WellNested(f) /\ DeclaredOnce(f) /\ SameEachTime(f)
           /\ TypesDeclared(f) /\ TypedefsWhole(f) /\ OneTypeEach(f)
BY LoaderAssumption

\* What is visited twice has one kind and one id.
LEMMA SamePath ==
    ASSUME NEW f \in Files, NEW i \in DOMAIN f, NEW j \in DOMAIN f,
           f[i].visit # "end", f[j].visit # "end", PathOf(f[i]) = PathOf(f[j])
    PROVE  /\ f[i].scope = f[j].scope /\ f[i].name = f[j].name
           /\ f[i].kind = f[j].kind /\ f[i].id = f[j].id
<1>1. f[i].scope \in Seq(Names) /\ f[j].scope \in Seq(Names)
  BY FileFacts DEF TypedVisit
<1>2. f[i].scope = f[j].scope /\ f[i].name = f[j].name
  <2> PICK s, n : s = f[i].scope /\ n = f[i].name
    OBVIOUS
  <2> PICK t, m : t = f[j].scope /\ m = f[j].name
    OBVIOUS
  <2>1. Append(s, n) = Append(t, m)
    BY DEF PathOf
  <2>2. s \in Seq(Names) /\ t \in Seq(Names)
    BY <1>1
  <2> QED
    BY <2>1, <2>2
<1> QED
  BY <1>2, FileFacts DEF DeclaredOnce

\* A typedef is looked up in one visit and made in one later one.
LEMMA TypedefEnds ==
    ASSUME NEW f \in Files, NEW i \in DOMAIN f, f[i].visit = "typedef",
           NEW j, j = CHOOSE k \in DOMAIN f : Typedef(f, i, k)
    PROVE  /\ j \in DOMAIN f /\ Typedef(f, i, j) /\ i < j
           /\ f[i].kind = "Alias" /\ f[j].kind = "Alias" /\ f[j].visit = "declare"
           /\ f[i].scope = f[j].scope /\ f[i].name = f[j].name
<1>1. \E k \in DOMAIN f : Typedef(f, i, k)
  BY FileFacts DEF TypedefsWhole
<1>2. j \in DOMAIN f /\ Typedef(f, i, j)
  BY <1>1
<1>3. f[j].visit = "declare" /\ PathOf(f[i]) = PathOf(f[j]) /\ i < j
  BY <1>2 DEF Typedef
<1>4. f[i].kind = "Alias"
  BY FileFacts DEF TypedVisit
<1>5. f[i].scope = f[j].scope /\ f[i].name = f[j].name /\ f[i].kind = f[j].kind
  BY <1>2, <1>3, SamePath
<1> QED
  BY <1>2, <1>3, <1>4, <1>5

\* What a step of lookup() leads to.
LEMMA LookupOne ==
    ASSUME NEW c, NEW n
    PROVE  Lookup(c, <<n>>) = Step(c, n)
<1>1. Len(<<n>>) = 1 /\ <<n>>[1] = n /\ 1 \in Nat /\ 1 # 0 /\ 1 - 1 = 0
  OBVIOUS
<1>2. /\ Reached(c, <<n>>)[0] = c
      /\ Reached(c, <<n>>)[1] = Step(Reached(c, <<n>>)[1 - 1], <<n>>[1])
  BY <1>1, ReachedStep
<1> QED
  BY <1>1, <1>2 DEF Lookup

-----------------------------------------------------------------------------
(* Requests.                                                               *)

\* What is alive stays what and where it is.
Keeps ==
    \A o \in Objs : IsActive(o) =>
        /\ life'[o] = "active" /\ kind'[o] = kind[o] /\ definedIn'[o] = definedIn[o]
        /\ name'[o] = name[o] /\ absName'[o] = absName[o]

LEMMA RequestIsCareful == CarefulRequest => CarefulNext \/ UNCHANGED vars
<1>1. ASSUME NEW o \in Objs, CarefullyCreated(o) PROVE CarefulCreate(o)
  <2>1. kind'[o] \in ContainedKinds \cap Kinds
    BY <1>1 DEF CarefullyCreated, CreateContained, CreateRequest
  <2> QED
    BY <1>1, <2>1 DEF CarefullyCreated, CarefulCreate
<1>2. "Sequence" \in AnonymousKinds
  BY DEF AnonymousKinds
<1> QED
  BY <1>1, <1>2 DEF CarefulRequest, CarefulNext

LEMMA RequestKeeps ==
    ASSUME CInv, AbsExact, NothingGone, CarefulRequest
    PROVE  Keeps /\ AbsExact' /\ NothingGone'
<1> USE DEF CInv, GInv, IInv
<1>1. ASSUME NEW o \in Objs, CarefullyCreated(o)
      PROVE  Keeps /\ AbsExact' /\ NothingGone'
  <2> DEFINE c == definedIn'[o]
  <2>1. /\ c \in Servants /\ IsActive(c) /\ life[o] = "unborn"
        /\ kind[c] \in ContainerKinds
        /\ life' = [life EXCEPT ![o] = "active"]
        /\ kind' = [kind EXCEPT ![o] = kind'[o]]
        /\ definedIn' = [definedIn EXCEPT ![o] = c]
        /\ name' = [name EXCEPT ![o] = name'[o]]
        /\ absName' = [absName EXCEPT ![o] = AbsoluteName(c, name'[o])]
    BY <1>1 DEF CarefullyCreated, CreateContained, CreateRequest
  <2>2. Keeps
    BY <2>1 DEF Keeps, IsActive, TypeOK, Servants
  <2>3. c # o /\ \A x \in Objs : definedIn[x] # o
    BY <2>1, Unborn DEF IsActive
  <2>4. NothingGone'
    BY <2>1 DEF NothingGone, TypeOK, Servants
  <2>5. absName' \in [Objs -> Seq(Names)] /\ absName'[o] = AbsoluteName(c, name'[o])
    <3>1. c \in Objs \cup {Root}
      BY <2>1, ConstantsAssumption DEF FixedServants, Servants, ContainerKinds
    <3>2. AbsoluteName(c, name'[o]) \in Seq(Names)
      BY <1>1, <3>1, AbsoluteNameType DEF CarefullyCreated
    <3> QED
      BY <2>1, <3>2 DEF TypeOK
  <2>6. ASSUME NEW x \in Objs, definedIn'[x] # NoObj
        PROVE  absName'[x] = (AbsoluteName(definedIn[x], name[x]))'
    <3>1. CASE x = o
      BY <2>1, <2>3, <2>5, <3>1 DEF AbsoluteName, TypeOK, Servants
    <3>2. CASE x # o
      BY <2>1, <2>3, <2>6, <3>2 DEF AbsExact, AbsoluteName, TypeOK
    <3> QED
      BY <3>1, <3>2
  <2> QED
    BY <2>2, <2>4, <2>6 DEF AbsExact
<1>2. ASSUME NEW o \in Objs, CreateAnonymous(o, "Sequence")
      PROVE  Keeps /\ AbsExact' /\ NothingGone'
  <2>1. /\ life[o] = "unborn" /\ life' = [life EXCEPT ![o] = "active"]
        /\ kind' = [kind EXCEPT ![o] = "Sequence"]
        /\ UNCHANGED <<definedIn, name, absName>>
    BY <1>2 DEF CreateAnonymous, naming
  <2> QED
    BY <2>1 DEF Keeps, AbsExact, NothingGone, AbsoluteName, IsActive, TypeOK, Servants
<1>3. ASSUME UNCHANGED <<life, kind, definedIn, name, absName>>
      PROVE  Keeps /\ AbsExact' /\ NothingGone'
  BY <1>3 DEF Keeps, AbsExact, NothingGone, AbsoluteName, IsActive
<1>4. ASSUME NEW o \in Objs, CarefulSet(o) PROVE Keeps /\ AbsExact' /\ NothingGone'
  BY <1>3, <1>4 DEF CarefulSet, SetReferences, tree, naming
<1>5. ASSUME NEW o \in Objs, NEW i \in Ids, SetId(o, i)
      PROVE  Keeps /\ AbsExact' /\ NothingGone'
  BY <1>3, <1>5 DEF SetId, tree, naming
<1>6. CASE UNCHANGED vars
  BY <1>3, <1>6 DEF vars, tree, naming
<1> QED
  BY <1>1, <1>2, <1>4, <1>5, <1>6 DEF CarefulRequest

-----------------------------------------------------------------------------
(* Where the loaders are.                                                  *)

LEMMA OpenedKept ==
    ASSUME CInv, Keeps, NEW f, NEW c, NEW s, Opened(f, c, s)
    PROVE  Opened(f, c, s)'
BY DEF Opened, Keeps, CInv, GInv, Placed

LEMMA PlacingKept ==
    ASSUME CInv, CInv', Keeps, NEW L \in Jobs \cup {Idle}, Placing(L)
    PROVE  Placing(L)'
<1> SUFFICES ASSUME L.status = "running" PROVE Placing(L)'
  BY DEF Placing
<1>1. L \in Jobs
  BY DEF Idle
<1>2. /\ L.at \in DOMAIN L.file
      /\ L.phase \in Phases(Visited(L))
      /\ Len(L.stack) = Len(Visited(L).scope) + 1
      /\ \A k \in 1..Len(L.stack) :
            Opened(L.file, L.stack[k], SubSeq(Visited(L).scope, 1, k - 1))
      /\ (L.phase = "id" \/ (L.phase = "refs" /\ Visited(L).visit # "end")) =>
                Stands(L.found, Visited(L), Last(L.stack))
      /\ L.resultType # NoObj => IsActive(L.resultType)
      /\ KnowsType(L) => L.resultType # NoObj
  BY DEF Placing
<1>3. \A k \in 1..Len(L.stack) :
        Opened(L.file, L.stack[k], SubSeq(Visited(L).scope, 1, k - 1))'
  BY <1>2, OpenedKept
<1>4. \A c : c \in Objs \cup {Root} /\ Stands(L.found, Visited(L), c)
                => Stands(L.found, Visited(L), c)'
  BY ConstantsAssumption DEF Stands, Keeps, CInv, GInv, Placed, Servants
<1>5. L.resultType # NoObj => IsActive(L.resultType)'
  <2>1. L.resultType \in Objs \cup {Prim, NoObj}
    BY <1>1 DEF Jobs
  <2> QED
    BY <1>2, <2>1 DEF Keeps, CInv, GInv, IInv, FixedServants, IsActive
<1>6. (L.phase = "id" \/ (L.phase = "refs" /\ Visited(L).visit # "end")) =>
                Stands(L.found, Visited(L), Last(L.stack))'
  <2>1. Last(L.stack) \in Objs \cup {Root}
    <3>1. Len(L.stack) \in 1..Len(L.stack) /\ L.stack \in Seq(Objs \cup {Root})
      <4>1. Len(Visited(L).scope) \in Nat
        <5>1. Visited(L).scope \in Seq(Names)
          BY <1>1, <1>2, FileFacts DEF TypedVisit, Visited, Jobs
        <5> QED
          BY <5>1
      <4> QED
        BY <1>1, <1>2, <4>1 DEF Jobs
    <3> QED
      BY <3>1 DEF Last
  <2> QED
    BY <1>2, <1>4, <2>1
<1> QED
  BY <1>2, <1>3, <1>5, <1>6 DEF Placing

\* The container at the end of the stack is the scope of the visit.
LEMMA ContainerFacts ==
    ASSUME CInv, NEW L \in Jobs, L.status = "running", Placing(L)
    PROVE  /\ L.file \in Files /\ L.at \in DOMAIN L.file /\ TypedVisit(Visited(L))
           /\ L.stack \in Seq(Objs \cup {Root}) /\ Len(L.stack) \in Nat \ {0}
           /\ Last(L.stack) \in Objs \cup {Root}
           /\ Opened(L.file, Last(L.stack), Visited(L).scope)
<1>1. /\ L.file \in Files /\ L.at \in DOMAIN L.file
      /\ L.stack \in Seq(Objs \cup {Root})
      /\ Len(L.stack) = Len(Visited(L).scope) + 1
      /\ \A k \in 1..Len(L.stack) :
            Opened(L.file, L.stack[k], SubSeq(Visited(L).scope, 1, k - 1))
  BY DEF Jobs, Placing
<1>2. TypedVisit(Visited(L)) /\ Visited(L).scope \in Seq(Names)
  BY <1>1, FileFacts DEF Visited, TypedVisit
<1>3. /\ Len(L.stack) \in Nat \ {0} /\ Len(L.stack) \in 1..Len(L.stack)
      /\ Len(L.stack) - 1 = Len(Visited(L).scope)
  <2>1. Len(Visited(L).scope) \in Nat
    BY <1>2
  <2> QED
    BY <1>1, <2>1
<1>4. SubSeq(Visited(L).scope, 1, Len(Visited(L).scope)) = Visited(L).scope
  BY <1>2
<1>5. Last(L.stack) = L.stack[Len(L.stack)]
  BY DEF Last
<1>6. Opened(L.file, Last(L.stack), SubSeq(Visited(L).scope, 1, Len(L.stack) - 1))
  BY <1>1, <1>3, <1>5
<1>7. Last(L.stack) \in Objs \cup {Root}
  BY <1>1, <1>3, <1>5
<1> QED
  BY <1>1, <1>2, <1>3, <1>4, <1>6, <1>7

\* It can hold what is declared in it, and is what is closed.
LEMMA ContainerHolds ==
    ASSUME CInv, NEW L \in Jobs, L.status = "running", Placing(L)
    PROVE  /\ IsActive(Last(L.stack)) /\ kind[Last(L.stack)] \in ContainerKinds
           /\ Visited(L).visit # "end" =>
                Visited(L).kind \in Containable(kind[Last(L.stack)])
           /\ Visited(L).visit = "end" =>
                Last(L.stack) \in Objs /\ kind[Last(L.stack)] = Visited(L).kind
<1> DEFINE f == L.file
           v == Visited(L)
           c == Last(L.stack)
<1>1. /\ f \in Files /\ L.at \in DOMAIN f /\ c \in Objs \cup {Root} /\ Opened(f, c, v.scope)
      /\ v = f[L.at]
  BY ContainerFacts DEF Visited
<1>2. IF v.scope = <<>>
      THEN v.visit # "end" /\ v.kind \in Containable("Repository")
      ELSE \E j \in 1..(L.at - 1) :
            /\ Opens(f[j]) /\ PathOf(f[j]) = v.scope
            /\ IF v.visit = "end" THEN v.kind = f[j].kind
               ELSE v.kind \in Containable(f[j].kind)
  <2> HIDE DEF f, v, c
  <2>1. WellNested(f)
    BY <1>1, FileFacts
  <2> QED
    BY <1>1, <2>1 DEF WellNested
<1>3. 1..(L.at - 1) \subseteq DOMAIN f
  <2>1. Len(f) \in Nat /\ DOMAIN f = 1..Len(f)
    BY <1>1, FileFacts
  <2> QED
    BY <1>1, <2>1
<1> HIDE DEF f, v, c
<1>4. CASE v.scope = <<>>
  BY <1>1, <1>2, <1>4 DEF Opened, CInv, GInv, Rooted, ContainerKinds, f, v, c
<1>5. CASE v.scope # <<>>
  <2>1. PICK j \in DOMAIN f :
            /\ Opens(f[j]) /\ PathOf(f[j]) = v.scope
            /\ IF v.visit = "end" THEN v.kind = f[j].kind
               ELSE v.kind \in Containable(f[j].kind)
    BY <1>2, <1>3, <1>5
  <2>2. /\ c \in Objs /\ definedIn[c] # NoObj
        /\ \E i \in DOMAIN f : Opens(f[i]) /\ PathOf(f[i]) = v.scope /\ kind[c] = f[i].kind
    BY <1>1, <1>5 DEF Opened
  <2>3. PICK i \in DOMAIN f : Opens(f[i]) /\ PathOf(f[i]) = v.scope /\ kind[c] = f[i].kind
    BY <2>2
  <2>4. f[i].kind = f[j].kind
    BY <1>1, <2>1, <2>3, SamePath DEF Opens
  <2>5. IsActive(c) /\ kind[c] \in ContainerKinds
    BY <2>2, <2>3 DEF CInv, GInv, Placed, Opens, Openers, ContainerKinds
  <2> QED
    BY <2>1, <2>2, <2>3, <2>4, <2>5 DEF f, v, c
<1> QED
  BY <1>4, <1>5

\* What stands for a visit has its absolute name.
LEMMA StandsThere ==
    ASSUME CInv, AbsExact, NEW L \in Jobs, L.status = "running", Placing(L),
           NEW o, Stands(o, Visited(L), Last(L.stack)), Visited(L).visit # "end"
    PROVE  /\ o \in Objs /\ definedIn[o] # NoObj /\ absName[o] = PathOf(Visited(L))
           /\ kind[o] = Visited(L).kind
<1>1. /\ Opened(L.file, Last(L.stack), Visited(L).scope)
      /\ Last(L.stack) \in Objs \cup {Root}
  BY ContainerFacts
<1>2. /\ o \in Objs /\ definedIn[o] = Last(L.stack) /\ name[o] = Visited(L).name
      /\ kind[o] = Visited(L).kind
  BY DEF Stands
<1>3. definedIn[o] # NoObj
  BY <1>1, <1>2, ConstantsAssumption DEF Servants
<1>4. absName[o] = AbsoluteName(Last(L.stack), Visited(L).name)
  BY <1>2, <1>3 DEF AbsExact
<1>5. (IF Last(L.stack) = Root THEN <<>> ELSE absName[Last(L.stack)]) = Visited(L).scope
  BY <1>1, ConstantsAssumption DEF Opened
<1> QED
  BY <1>2, <1>3, <1>4, <1>5 DEF AbsoluteName, PathOf

\* The record of a loader that is past visit n, and of one that goes on to the
\* next visit.
Past(L, n, stack) ==
    IF n = Len(L.file) THEN [L EXCEPT !.status = "done"]
    ELSE [L EXCEPT !.at = n + 1, !.stack = stack, !.phase = FirstPhase(L.file[n + 1])]
StackAfter(L, o) ==
    IF Visited(L).visit = "end" THEN Front(L.stack)
    ELSE IF Opens(Visited(L)) THEN Append(L.stack, o) ELSE L.stack
Moved(L, o) == Past(L, L.at, StackAfter(L, o))
\* ... and of one that goes past the typedef it has found.
LastOf(L) == CHOOSE j \in DOMAIN L.file : Typedef(L.file, L.at, j)
Skipped(L) == Past(L, LastOf(L), L.stack)

LEMMA FirstPhases ==
    ASSUME NEW v
    PROVE  /\ FirstPhase(v) \in {"type", "find", "pop"}
           /\ TypedVisit(v) => FirstPhase(v) \in Phases(v)
BY DEF FirstPhase, Phases, TypedVisit, TypedFirst, TypedAtOnce

\* It is in place when its stack is.
LEMMA PastPlacing ==
    ASSUME CInv, NEW L \in Jobs, L.status = "running", Placing(L), Placing(L)',
           NEW f, f = L.file, NEW n \in DOMAIN f, NEW stack,
           n # Len(f) => /\ stack \in Seq(Objs \cup {Root})
                         /\ Len(stack) = Len(f[n + 1].scope) + 1
                         /\ \A k \in 1..Len(stack) :
                                Opened(f, stack[k], SubSeq(f[n + 1].scope, 1, k - 1))',
           f[n].kind = "Attribute" => L.resultType # NoObj
    PROVE  Past(L, n, stack) \in Jobs /\ Placing(Past(L, n, stack))'
<1> PICK M : M = Past(L, n, stack)
  OBVIOUS
<1>1. f \in Files /\ n \in Nat /\ L.at \in Nat
  <2>1. f \in Files /\ L.at \in Nat
    BY DEF Jobs
  <2>2. Len(f) \in Nat /\ DOMAIN f = 1..Len(f)
    BY <2>1, FileFacts
  <2> QED
    BY <2>1, <2>2
<1>2. L.resultType # NoObj => IsActive(L.resultType)'
  BY DEF Placing
<1>3. CASE n = Len(f)
  <2>1. M = [L EXCEPT !.status = "done"]
    BY <1>3 DEF Past
  <2>2. M \in Jobs /\ M.status = "done"
    BY <2>1 DEF Jobs
  <2> QED
    BY <2>2 DEF Placing
<1>4. CASE n # Len(f)
  <2> PICK w : w = f[n + 1]
    OBVIOUS
  <2>1. n + 1 \in DOMAIN f /\ n + 1 \in Nat /\ TypedVisit(w)
    <3>1. n + 1 \in DOMAIN f /\ n + 1 \in Nat
      <4>1. Len(f) \in Nat /\ DOMAIN f = 1..Len(f)
        BY <1>1, FileFacts
      <4> QED
        BY <1>1, <1>4, <4>1
    <3> QED
      BY <1>1, <3>1, FileFacts
  <2>2. M = [L EXCEPT !.at = n + 1, !.stack = stack, !.phase = FirstPhase(w)]
    BY <1>4 DEF Past
  <2>4. FirstPhase(w) \in Phases(w) /\ FirstPhase(w) \in {"type", "find", "pop"}
    BY <2>1, FirstPhases
  <2>5. /\ M \in Jobs /\ M.file = f /\ M.at = n + 1 /\ M.stack = stack
        /\ M.phase = FirstPhase(w) /\ M.resultType = L.resultType /\ M.status = "running"
    BY <1>4, <2>1, <2>2, <2>4 DEF Jobs, JobPhases
  <2>6. Visited(M) = w
    BY <2>5 DEF Visited
  <2>7. KnowsType(M) => M.resultType # NoObj
    <3>1. CASE w.visit = "again"
      <4>1. OneTypeEach(f) /\ w.kind = "Attribute"
        BY <1>1, <2>1, <3>1, FileFacts DEF TypedVisit
      <4>2. f[(n + 1) - 1].kind = w.kind /\ (n + 1) - 1 = n
        BY <1>1, <2>1, <3>1, <4>1 DEF OneTypeEach
      <4> QED
        BY <2>5, <4>1, <4>2
    <3>2. CASE w.visit # "again"
      <4>1. w.visit \in {"declare", "forward", "typedef", "end"}
            /\ (w.visit = "forward" => w.kind \in {"Struct", "Interface"})
            /\ (w.visit = "typedef" => w.kind = "Alias")
        BY <2>1, <3>2 DEF TypedVisit
      <4> QED
        BY <2>5, <2>6, <4>1 DEF KnowsType, FirstPhase, TypedFirst, TypedAtOnce
    <3> QED
      BY <3>1, <3>2
  <2>8. Placing(M)'
    <3>1. M.at \in DOMAIN M.file
      BY <2>1, <2>5
    <3>2. M.phase \in Phases(Visited(M))
      BY <2>4, <2>5, <2>6
    <3>3. /\ Len(M.stack) = Len(Visited(M).scope) + 1
          /\ \A k \in 1..Len(M.stack) :
                Opened(M.file, M.stack[k], SubSeq(Visited(M).scope, 1, k - 1))'
      BY <1>4, <2>5, <2>6
    <3>4. M.phase # "id" /\ M.phase # "refs"
      BY <2>4, <2>5
    <3> QED
      BY <3>1, <3>2, <3>3, <3>4, <1>2, <2>5, <2>7 DEF Placing
  <2> QED
    BY <2>5, <2>8
<1> QED
  BY <1>3, <1>4

LEMMA MovedPlacing ==
    ASSUME CInv, NEW L \in Jobs, L.status = "running", Placing(L), Placing(L)', NEW o,
           Opens(Visited(L)) =>
                /\ o \in Objs /\ definedIn'[o] # NoObj
                /\ absName'[o] = PathOf(Visited(L)) /\ kind'[o] = Visited(L).kind,
           Visited(L).kind = "Attribute" => L.resultType # NoObj
    PROVE  Moved(L, o) \in Jobs /\ Placing(Moved(L, o))'
<1> DEFINE f == L.file
           v == Visited(L)
           M == Moved(L, o)
           stack == StackAfter(L, o)
<1>1. /\ f \in Files /\ L.at \in DOMAIN f /\ L.at \in Nat /\ TypedVisit(v)
      /\ L.stack \in Seq(Objs \cup {Root}) /\ Len(L.stack) \in Nat \ {0}
      /\ v = f[L.at]
  BY ContainerFacts DEF Jobs, Visited
<1>2. /\ Len(L.stack) = Len(v.scope) + 1
      /\ \A k \in 1..Len(L.stack) : Opened(f, L.stack[k], SubSeq(v.scope, 1, k - 1))'
      /\ L.resultType # NoObj => IsActive(L.resultType)'
  BY DEF Placing
<1>4. ASSUME L.at # Len(f)
      PROVE  /\ stack \in Seq(Objs \cup {Root}) /\ Len(stack) = Len(f[L.at + 1].scope) + 1
             /\ \A k \in 1..Len(stack) :
                    Opened(f, stack[k], SubSeq(f[L.at + 1].scope, 1, k - 1))'
  <2> DEFINE w == f[L.at + 1]
  <2>1. /\ L.at + 1 \in DOMAIN f /\ w.scope = ScopeAfter(v) /\ L.at + 1 \in Nat
        /\ w.scope \in Seq(Names) /\ v.scope \in Seq(Names)
        /\ v.visit # "end" => v.name \in Names
    <3>1. L.at + 1 \in DOMAIN f /\ L.at + 1 \in Nat
      <4>1. Len(f) \in Nat /\ DOMAIN f = 1..Len(f)
        BY <1>1, FileFacts
      <4> QED
        BY <1>1, <1>4, <4>1
    <3>2. w.scope = ScopeAfter(v)
      BY <1>1, <3>1, FileFacts DEF WellNested
    <3> QED
      BY <1>1, <3>1, <3>2, FileFacts DEF TypedVisit
  <2>3. /\ stack \in Seq(Objs \cup {Root}) /\ Len(stack) = Len(w.scope) + 1
        /\ \A k \in 1..Len(stack) : Opened(f, stack[k], SubSeq(w.scope, 1, k - 1))'
    <3>1. CASE v.visit = "end"
      <4>1. v.scope # <<>>
        BY <1>1, <3>1, FileFacts DEF WellNested
      <4>2. w.scope = Front(v.scope) /\ stack = Front(L.stack)
        BY <2>1, <3>1 DEF ScopeAfter, StackAfter
      <4>3. /\ Len(w.scope) = Len(v.scope) - 1 /\ Len(v.scope) - 1 \in Nat
            /\ \A k \in 0..(Len(v.scope) - 1) :
                    SubSeq(w.scope, 1, k) = SubSeq(v.scope, 1, k)
        <5> HIDE DEF f, v, w, stack
        <5> QED
          BY <2>1, <4>1, <4>2, Popped
      <4>4. L.stack # <<>>
        BY <1>1
      <4>5. /\ stack \in Seq(Objs \cup {Root}) /\ Len(stack) = Len(L.stack) - 1
            /\ \A k \in 1..(Len(L.stack) - 1) : stack[k] = L.stack[k]
        <5> HIDE DEF f, v, w, stack
        <5> QED
          BY <1>1, <4>2, <4>4, Popped
      <4> HIDE DEF stack
      <4>6. ASSUME NEW k \in 1..Len(stack)
            PROVE  Opened(f, stack[k], SubSeq(w.scope, 1, k - 1))'
        <5>1. /\ k \in 1..Len(L.stack) /\ k \in 1..(Len(L.stack) - 1)
              /\ k - 1 \in 0..(Len(v.scope) - 1)
          <6>1. Len(v.scope) \in Nat
            BY <2>1
          <6> QED
            BY <1>1, <1>2, <4>3, <4>5, <6>1
        <5> QED
          BY <1>2, <4>3, <4>5, <5>1
      <4>7. Len(stack) = Len(w.scope) + 1
        BY <1>1, <1>2, <4>3, <4>5
      <4> QED
        BY <4>5, <4>6, <4>7
    <3>2. CASE v.visit # "end" /\ Opens(v)
      <4>0. w.scope = PathOf(v) /\ stack = Append(L.stack, o)
        <5>1. w.scope = PathOf(v)
          <6> HIDE DEF f, v, w
          <6> QED
            BY <2>1, <3>2 DEF ScopeAfter
        <5> QED
          BY <3>2, <5>1 DEF StackAfter
      <4>1. w.scope = Append(v.scope, v.name) /\ stack = Append(L.stack, o)
        BY <3>2, <4>0 DEF PathOf
      <4>2. /\ Len(w.scope) = Len(v.scope) + 1 /\ Len(v.scope) \in Nat
            /\ \A k \in 0..Len(v.scope) : SubSeq(w.scope, 1, k) = SubSeq(v.scope, 1, k)
            /\ SubSeq(w.scope, 1, Len(v.scope) + 1) = w.scope
        BY <2>1, <3>2, <4>1, Pushed
      <4>3. /\ stack \in Seq(Objs \cup {Root}) /\ Len(stack) = Len(L.stack) + 1
            /\ \A k \in 1..Len(L.stack) : stack[k] = L.stack[k]
            /\ stack[Len(L.stack) + 1] = o
        <5>1. o \in Objs \cup {Root}
          BY <3>2
        <5> HIDE DEF f, v, w, stack
        <5> QED
          BY <1>1, <4>1, <5>1, Pushed
      <4> HIDE DEF stack
      <4>a. PICK m \in Nat, n \in Nat :
                m = Len(L.stack) /\ n = Len(v.scope) /\ m = n + 1 /\ Len(stack) = m + 1
        BY <1>1, <1>2, <4>2, <4>3
      <4>4. ASSUME NEW k \in 1..Len(stack)
            PROVE  Opened(f, stack[k], SubSeq(w.scope, 1, k - 1))'
        <5>0. k \in 1..(m + 1)
          BY <4>a
        <5>1. CASE k <= Len(L.stack)
          <6>0. k <= m
            BY <4>a, <5>1
          <6>1. k \in 1..Len(L.stack) /\ k - 1 \in 0..Len(v.scope)
            <7> HIDE DEF f, v, w
            <7>1. k \in 1..m /\ k - 1 \in 0..n
              BY <4>a, <5>0, <6>0
            <7> QED
              BY <4>a, <7>1
          <6> QED
            BY <1>2, <4>2, <4>3, <6>1
        <5>2. CASE ~ (k <= Len(L.stack))
          <6>1. k = Len(L.stack) + 1 /\ k - 1 = Len(v.scope) + 1
            <7>1. ~ (k <= m)
              BY <4>a, <5>2
            <7>2. k = m + 1 /\ k - 1 = n + 1
              BY <4>a, <5>0, <7>1
            <7> QED
              BY <4>a, <7>2
          <6>2. w.scope # <<>> /\ w.scope = PathOf(v)
            <7>1. Len(w.scope) = n + 1
              BY <4>2, <4>a
            <7>2. w.scope # <<>>
              <8> HIDE DEF w
              <8> QED
                BY <4>a, <7>1
            <7> QED
              BY <4>0, <7>2, Zenon
          <6>3. Opened(f, o, w.scope)'
            BY <1>1, <3>2, <6>2 DEF Opened
          <6> QED
            BY <4>2, <4>3, <6>1, <6>3
        <5> QED
          BY <5>1, <5>2
      <4>5. Len(stack) = Len(w.scope) + 1
        BY <1>2, <4>2, <4>3
      <4> QED
        BY <4>3, <4>4, <4>5
    <3>3. CASE v.visit # "end" /\ ~ Opens(v)
      <4>1. w.scope = v.scope /\ stack = L.stack
        BY <2>1, <3>3 DEF ScopeAfter, StackAfter
      <4> QED
        BY <1>1, <1>2, <4>1
    <3> QED
      BY <3>1, <3>2, <3>3
  <2> QED
    BY <2>3
<1>5. v.kind = "Attribute" => L.resultType # NoObj
  OBVIOUS
<1> HIDE DEF f, v, stack
<1>6. f = L.file /\ M = Past(L, L.at, stack) /\ f[L.at] = v
  BY DEF Moved, StackAfter, Visited, f, v, stack
<1> HIDE DEF M
<1> QED
  BY <1>1, <1>4, <1>5, <1>6, PastPlacing DEF M

\* The typedef it skips ends where the loader is.
LEMMA SkippedPlacing ==
    ASSUME CInv, NEW L \in Jobs, L.status = "running", Placing(L), Placing(L)',
           Visited(L).visit = "typedef"
    PROVE  Skipped(L) \in Jobs /\ Placing(Skipped(L))'
<1> PICK f : f = L.file
  OBVIOUS
<1> PICK n : n = LastOf(L)
  OBVIOUS
<1>1. /\ f \in Files /\ L.at \in DOMAIN f /\ f[L.at] = Visited(L)
      /\ L.stack \in Seq(Objs \cup {Root})
  BY ContainerFacts DEF Jobs, Visited
<1>2. /\ n \in DOMAIN f /\ f[n].kind = "Alias" /\ f[n].visit = "declare"
      /\ f[n].scope = f[L.at].scope
  BY <1>1, TypedefEnds DEF LastOf
<1>3. /\ Len(L.stack) = Len(f[L.at].scope) + 1
      /\ \A k \in 1..Len(L.stack) :
            Opened(f, L.stack[k], SubSeq(f[L.at].scope, 1, k - 1))'
  BY <1>1 DEF Placing
<1>4. n # Len(f) => f[n + 1].scope = f[L.at].scope
  <2> SUFFICES ASSUME n # Len(f) PROVE f[n + 1].scope = f[n].scope
    BY <1>2
  <2>1. n + 1 \in DOMAIN f
    <3>1. Len(f) \in Nat /\ DOMAIN f = 1..Len(f)
      BY <1>1, FileFacts
    <3> QED
      BY <1>2, <3>1
  <2>2. WellNested(f)
    BY <1>1, FileFacts
  <2>3. f[n + 1].scope = ScopeAfter(f[n])
    BY <1>2, <2>1, <2>2 DEF WellNested
  <2>4. ~ Opens(f[n]) /\ f[n].visit # "end"
    BY <1>2 DEF Opens, Openers
  <2> QED
    BY <2>3, <2>4 DEF ScopeAfter
<1> QED
  BY <1>1, <1>2, <1>3, <1>4, PastPlacing DEF Skipped

-----------------------------------------------------------------------------
(* Each step is a careful request, and leaves its loader in place.         *)

\* The loader gets to a place that fits what the step did.
Advances(l) ==
    \E M \in Jobs : loader' = [loader EXCEPT ![l] = M] /\ Placing(M)'

LEMMA JobOf ==
    ASSUME LInv, NEW l \in Loaders, AtWork(l)
    PROVE  loader[l] \in Jobs /\ Placing(loader[l]) /\ loader[l].status = "running"
BY DEF LInv, LoaderTyped, AtWork, Idle

\* What a request keeps, while a loader is where it is.
LEMMA AfterRequest ==
    ASSUME LInv, CarefulRequest
    PROVE  /\ CInv' /\ AbsExact' /\ NothingGone' /\ Keeps
           /\ \A L \in Jobs \cup {Idle} : Placing(L) => Placing(L)'
<1>1. CInv' /\ AbsExact' /\ NothingGone' /\ Keeps
  BY RequestIsCareful, RequestKeeps, NextCInv DEF LInv
<1> QED
  BY <1>1, PlacingKept DEF LInv

\* A loader that ends is in any place.
LEMMA Stops ==
    ASSUME LInv, NEW l \in Loaders, AtWork(l),
           NEW s \in {"failed", "killed"}, loader' = [loader EXCEPT ![l].status = s]
    PROVE  Advances(l)
<1> PICK L \in Jobs : L = loader[l]
  BY JobOf
<1> DEFINE M == [L EXCEPT !.status = s]
<1>1. M \in Jobs /\ M.status = s
  BY DEF Jobs
<1>2. loader' = [loader EXCEPT ![l] = M]
  OBVIOUS
<1> HIDE DEF M
<1>3. Placing(M)'
  BY <1>1 DEF Placing
<1> QED
  BY <1>1, <1>2, <1>3 DEF Advances

LEMMA Goes ==
    ASSUME LInv, CarefulRequest, NEW l \in Loaders, AtWork(l), NEW o,
           NextVisit(l, o), NEW v, v = Current(l),
           Opens(v) => /\ o \in Objs /\ definedIn'[o] # NoObj
                       /\ absName'[o] = PathOf(v) /\ kind'[o] = v.kind,
           v.kind = "Attribute" => loader[l].resultType # NoObj
    PROVE  Advances(l)
<1> PICK L \in Jobs : L = loader[l] /\ Placing(L) /\ L.status = "running"
  BY JobOf
<1> PICK M : M = Moved(L, o)
  OBVIOUS
<1>1. Visited(L) = v
  BY DEF Visited, Current
<1>2. loader' = [loader EXCEPT ![l] = M]
  BY <1>1 DEF NextVisit, GoPast, Moved, Past, StackAfter
<1>3. Placing(L)' /\ CInv' /\ CInv
  BY AfterRequest DEF LInv
<1>4. Opens(v) => /\ o \in Objs /\ definedIn'[o] # NoObj
                  /\ absName'[o] = PathOf(v) /\ kind'[o] = v.kind
  OBVIOUS
<1>5. Visited(L).kind = "Attribute" => L.resultType # NoObj
  BY <1>1
<1>6. M \in Jobs /\ Placing(M)'
  BY <1>1, <1>3, <1>4, <1>5, MovedPlacing
<1> QED
  BY <1>2, <1>6 DEF Advances

LEMMA Leaves ==
    ASSUME LInv, CarefulRequest, NEW l \in Loaders, AtWork(l), LeaveTypedef(l),
           Current(l).visit = "typedef"
    PROVE  Advances(l)
<1> PICK L \in Jobs : L = loader[l] /\ Placing(L) /\ L.status = "running"
  BY JobOf
<1> PICK M : M = Skipped(L)
  OBVIOUS
<1>1. Visited(L).visit = "typedef"
  BY DEF Visited, Current
<1>2. loader' = [loader EXCEPT ![l] = M]
  BY DEF LeaveTypedef, GoPast, Skipped, Past, LastOf
<1>3. Placing(L)' /\ CInv' /\ CInv
  BY AfterRequest DEF LInv
<1>4. M \in Jobs /\ Placing(M)'
  BY <1>1, <1>3, SkippedPlacing
<1> QED
  BY <1>2, <1>4 DEF Advances

\* What lookup() finds is in a container.
LEMMA LookupTyped ==
    ASSUME IInv, NEW path \in Seq(Names), path # <<>>, Lookup(Root, path) # NoObj
    PROVE  Lookup(Root, path) \in Objs /\ definedIn[Lookup(Root, path)] # NoObj
<1> DEFINE r == Reached(Root, path)
           T == {k \in Nat : r[k] \in Servants \cup {NoObj}}
<1>1. r[0] = Root /\ \A k \in Nat : k # 0 => r[k] = Step(r[k - 1], path[k])
  BY ReachedStep
<1> HIDE DEF r
<1>2. 0 \in T
  BY <1>1 DEF Servants
<1>3. ASSUME NEW k \in T PROVE k + 1 \in T
  <2>1. k + 1 \in Nat /\ k + 1 # 0 /\ (k + 1) - 1 = k
    OBVIOUS
  <2>2. r[k + 1] = Step(r[k], path[k + 1])
    BY <1>1, <2>1
  <2>3. r[k + 1] \in Servants \cup {NoObj}
    <3>1. r[k] \in Servants \cup {NoObj} /\ k \in Nat
      OBVIOUS
    <3> HIDE DEF T
    <3>2. CASE Step(r[k], path[k + 1]) = NoObj
      BY <2>2, <3>2
    <3>3. CASE Step(r[k], path[k + 1]) # NoObj
      <4>1. Step(r[k], path[k + 1]) \in Objs
        BY <3>1, <3>3, StepFound
      <4> QED
        BY <2>2, <4>1 DEF Servants
    <3> QED
      BY <3>2, <3>3
  <2> QED
    BY <2>1, <2>3
<1>4. T = Nat
  <2>1. T \in SUBSET Nat
    OBVIOUS
  <2> HIDE DEF T
  <2> QED
    BY <1>2, <1>3, <2>1, AllNumbers
<1>5. Len(path) \in Nat /\ Len(path) # 0 /\ Len(path) - 1 \in Nat
  BY EmptySeq
<1>6. r[Len(path)] = Step(r[Len(path) - 1], path[Len(path)])
  BY <1>1, <1>5
<1>7. r[Len(path) - 1] \in Servants \cup {NoObj}
  BY <1>4, <1>5
<1>8. Lookup(Root, path) = r[Len(path)]
  BY DEF Lookup, r
<1> QED
  BY <1>6, <1>7, <1>8, StepFound, ConstantsAssumption

LEMMA ResolveTypeSteps ==
    ASSUME LInv, NEW l \in Loaders, ResolveType(l)
    PROVE  CarefulRequest /\ Advances(l)
<1>1. AtWork(l)
  BY DEF ResolveType, In, AtWork
<1> PICK L \in Jobs : L = loader[l] /\ Placing(L) /\ L.status = "running" /\ L.phase = "type"
  BY <1>1, JobOf DEF ResolveType, In
<1> DEFINE v == Visited(L)
           t == TypeNamed(v.type.path)
           then == IF v.type.wrapped THEN "wrap" ELSE AfterType(v)
<1>0. t # NoObj => t \in Objs \cup {Prim} /\ IsActive(t)
  <2> SUFFICES ASSUME t # NoObj PROVE t \in Objs \cup {Prim} /\ IsActive(t)
    OBVIOUS
  <2>1. v.type.path \in Seq(Names)
    BY ContainerFacts DEF LInv, TypedVisit
  <2>2. CASE v.type.path = <<>>
    BY <2>2 DEF TypeNamed, LInv, CInv, GInv, IInv, FixedServants
  <2>3. CASE v.type.path # <<>>
    <3>1. t = Lookup(Root, v.type.path)
      BY <2>3 DEF TypeNamed
    <3>2. t \in Objs /\ definedIn[t] # NoObj
      BY <2>1, <2>3, <3>1, LookupTyped DEF LInv, CInv, GInv
    <3> QED
      BY <3>2 DEF LInv, CInv, GInv, Placed
  <2> QED
    BY <2>2, <2>3
<1>2. CASE Fails(l)
  <2>1. CarefulRequest
    BY <1>2 DEF Fails, CarefulRequest
  <2> QED
    BY <1>1, <1>2, <2>1, Stops DEF Fails, Exits
<1>3. CASE /\ t # NoObj /\ UNCHANGED vars
           /\ loader' = [loader EXCEPT ![l].resultType = t, ![l].phase = then]
  <2>0. CarefulRequest
    BY <1>3 DEF CarefulRequest
  <2>1. t \in Objs \cup {Prim} /\ IsActive(t)
    BY <1>0, <1>3
  <2>2. v.visit # "again" /\ then \in Phases(v) /\ then \in JobPhases
        /\ (then = "refs" => v.visit = "end") /\ then # "id"
    BY DEF Placing, Phases, AfterType, TypedFirst, JobPhases
  <2> PICK M : M = [L EXCEPT !.resultType = t, !.phase = then]
    OBVIOUS
  <2>3. M \in Jobs
    BY <2>1, <2>2 DEF Jobs
  <2>4. loader' = [loader EXCEPT ![l] = M]
    BY <1>3
  <2>5. /\ M.status = "running" /\ M.phase = then /\ M.resultType = t /\ M.file = L.file
        /\ M.at = L.at /\ M.stack = L.stack /\ M.found = L.found
    BY DEF Jobs
  <2> HIDE DEF t, then
  <2>6. Visited(M) = v
    BY <2>5 DEF Visited
  <2>7. Placing(M)
    BY <2>1, <2>2, <2>5, <2>6, ConstantsAssumption DEF Placing, Servants
  <2>8. Placing(M)'
    BY <2>0, <2>3, <2>7, AfterRequest
  <2> QED
    BY <2>0, <2>3, <2>4, <2>8 DEF Advances
<1>4. v = Current(l)
  BY DEF Visited, Current
<1>5. t # NoObj => TypeOutcome(t) # "endless"
  BY <1>0, NeverEndless DEF LInv
<1> HIDE DEF t, then
<1>6. \/ Fails(l)
      \/ t # NoObj /\ TypeOutcome(t) = "endless"
      \/ /\ t # NoObj /\ UNCHANGED vars
         /\ loader' = [loader EXCEPT ![l].resultType = t, ![l].phase = then]
  BY <1>4 DEF ResolveType, t, then
<1> QED
  BY <1>2, <1>3, <1>5, <1>6

LEMMA NewIsUnborn ==
    ASSUME SomeNew
    PROVE  New \in Objs /\ life[New] = "unborn"
BY DEF SomeNew, New

LEMMA WrapTypeSteps ==
    ASSUME LInv, NEW l \in Loaders, WrapType(l)
    PROVE  CarefulRequest /\ Advances(l)
<1>1. /\ AtWork(l) /\ New \in Objs /\ life[New] = "unborn" /\ CreateAnonymous(New, "Sequence")
      /\ loader[l].phase = "wrap"
      /\ loader' = [loader EXCEPT ![l].resultType = New,
                                  ![l].phase = AfterType(Current(l))]
  BY NewIsUnborn DEF WrapType, In, AtWork
<1> PICK o \in Objs : o = New
  BY <1>1
<1>2. life' = [life EXCEPT ![o] = "active"] /\ life[o] = "unborn"
  BY <1>1 DEF CreateAnonymous
<1>3. IsActive(o)' /\ life'[o] # life[o]
  BY <1>2 DEF IsActive, LInv, CInv, GInv, IInv, TypeOK, Servants
<1>4. CarefulRequest
  BY <1>1, <1>3 DEF CarefulRequest
<1> PICK L \in Jobs : L = loader[l] /\ Placing(L) /\ L.status = "running" /\ L.phase = "wrap"
  BY <1>1, JobOf
<1> DEFINE v == Visited(L)
           then == AfterType(v)
<1> PICK M : M = [L EXCEPT !.resultType = o, !.phase = then]
  OBVIOUS
<1>5. v = Current(l)
  BY DEF Visited, Current
<1>6. /\ then \in Phases(v) /\ then \in JobPhases
      /\ (then = "refs" => v.visit = "end") /\ then # "id"
  BY DEF Placing, Phases, AfterType, TypedFirst, JobPhases
<1>7. M \in Jobs
  BY <1>6 DEF Jobs
<1>8. loader' = [loader EXCEPT ![l] = M]
  BY <1>1, <1>5
<1>9. /\ M.status = "running" /\ M.phase = then /\ M.resultType = o /\ M.file = L.file
      /\ M.at = L.at /\ M.stack = L.stack /\ M.found = L.found
  BY DEF Jobs
<1> HIDE DEF then
<1>10. Visited(M) = v
  BY <1>9 DEF Visited
<1>11. Placing(L)'
  BY <1>4, AfterRequest
<1>12. Placing(M)'
  BY <1>3, <1>6, <1>9, <1>10, <1>11, ConstantsAssumption DEF Placing, Servants
<1> QED
  BY <1>4, <1>7, <1>8, <1>12 DEF Advances

\* The loader stays where it is.
LEMMA Stays ==
    ASSUME LInv, CarefulRequest, NEW l \in Loaders, AtWork(l),
           NEW v, v = Current(l), NEW c, c = Container(l),
           NEW p \in JobPhases \cap Phases(v), NEW o \in Objs \cup {NoObj},
           NEW M, M = [loader[l] EXCEPT !.phase = p, !.found = o],
           loader' = [loader EXCEPT ![l] = M],
           p \in {"id", "refs"} => Stands(o, v, c)',
           p \notin {"wrap"},
           (p = "refs" \/ v.visit = "again" \/ (p = "make" /\ v.kind \in TypedAtOnce)
            \/ (p \in {"find", "id"} /\ v.kind \in TypedFirst))
                => loader[l].resultType # NoObj
    PROVE  Advances(l)
<1> PICK L \in Jobs : L = loader[l] /\ Placing(L) /\ L.status = "running"
  BY JobOf
<1>1. Visited(L) = v /\ Last(L.stack) = c
  BY DEF Visited, Current, Container
<1>2. M \in Jobs /\ loader' = [loader EXCEPT ![l] = M]
  BY DEF Jobs
<1>3. /\ M.status = "running" /\ M.phase = p /\ M.resultType = L.resultType
      /\ M.file = L.file /\ M.at = L.at /\ M.stack = L.stack /\ M.found = o
  BY DEF Jobs
<1>4. Visited(M) = v
  BY <1>1, <1>3 DEF Visited
<1>5. Placing(L)'
  BY AfterRequest
<1>6. KnowsType(M) => M.resultType # NoObj
  BY <1>3, <1>4 DEF KnowsType
<1>7. Placing(M)'
  BY <1>1, <1>3, <1>4, <1>5, <1>6 DEF Placing
<1> QED
  BY <1>2, <1>7 DEF Advances

LEMMA FindSteps ==
    ASSUME LInv, NEW l \in Loaders, Find(l)
    PROVE  CarefulRequest /\ Advances(l)
<1>1. AtWork(l) /\ UNCHANGED vars /\ CarefulRequest
  BY DEF Find, In, AtWork, CarefulRequest
<1> PICK L \in Jobs : L = loader[l] /\ Placing(L) /\ L.status = "running" /\ L.phase = "find"
  BY <1>1, JobOf DEF Find, In
<1> PICK v : v = Current(l)
  OBVIOUS
<1> PICK c : c = Container(l)
  OBVIOUS
<1> PICK x : x = Lookup(c, <<v.name>>)
  OBVIOUS
<1>2. Visited(L) = v /\ Last(L.stack) = c
  BY DEF Visited, Current, Container
<1>3. TypedVisit(v) /\ c \in Servants \cup {NoObj} /\ "find" \in Phases(v)
  <2>1. TypedVisit(v) /\ c \in Objs \cup {Root}
    BY <1>2, ContainerFacts DEF LInv
  <2> QED
    BY <1>2, <2>1 DEF Servants, Placing
<1>4. x = Step(c, v.name)
  BY LookupOne
<1>5. x # NoObj => x \in Objs /\ definedIn[x] = c /\ name[x] = v.name
  BY <1>3, <1>4, StepFound DEF LInv, CInv, GInv
<1>6. KnowsType(L) => L.resultType # NoObj
  BY DEF Placing
<1>7. CASE Fails(l)
  BY <1>1, <1>7, Stops DEF Fails, Exits
<1>8. CASE x = NoObj /\ v.visit \notin {"again", "typedef"} /\ GoOn(l, "make")
  <2> PICK p : p = "make"
    OBVIOUS
  <2>1. p \in JobPhases \cap Phases(v)
    BY <1>3, <1>8 DEF JobPhases, Phases, TypedVisit, TypedFirst
  <2>2. L.found \in Objs \cup {NoObj}
    BY DEF Jobs
  <2> PICK M : M = [L EXCEPT !.phase = p, !.found = L.found]
    OBVIOUS
  <2>3. loader' = [loader EXCEPT ![l] = M]
    <3>1. M = [L EXCEPT !.phase = p]
      BY DEF Jobs
    <3> QED
      BY <1>8, <3>1 DEF GoOn
  <2>4. v.kind \in TypedAtOnce => L.resultType # NoObj
    <3>1. v.kind \in TypedAtOnce => v.kind \in TypedFirst
      BY <1>3, <1>8 DEF Phases, TypedAtOnce, TypedFirst, TypedVisit
    <3> QED
      BY <1>2, <1>6, <3>1 DEF KnowsType
  <2>5. p \in {"make"}
    OBVIOUS
  <2> QED
    BY <1>1, <1>8, <2>1, <2>2, <2>3, <2>4, <2>5, Stays
<1>9. CASE v.visit \in LeftAlone /\ NextVisit(l, x)
  <2>1. ~ Opens(v) /\ v.kind # "Attribute"
    BY <1>3, <1>9 DEF Opens, TypedVisit, LeftAlone
  <2> QED
    BY <1>1, <1>9, <2>1, Goes
<1>10. CASE v.visit = "typedef" /\ LeaveTypedef(l)
  BY <1>1, <1>10, Leaves
<1>11. CASE /\ x # NoObj /\ v.visit \notin LeftAlone /\ Expected(v, x)
            /\ loader' = [loader EXCEPT ![l].found = x, ![l].phase = "id"]
  <2>1. "id" \in JobPhases \cap Phases(v)
    BY <1>3, <1>11 DEF JobPhases, Phases, TypedVisit, TypedFirst, LeftAlone
  <2>2. x \in Objs /\ definedIn'[x] = c /\ name'[x] = v.name /\ kind'[x] = v.kind
    BY <1>1, <1>5, <1>11 DEF Expected, vars, tree, naming
  <2> PICK M : M = [loader[l] EXCEPT !.phase = "id", !.found = x]
    OBVIOUS
  <2>3. loader' = [loader EXCEPT ![l] = M]
    BY <1>11
  <2>4. (v.visit = "again" \/ v.kind \in TypedFirst) => L.resultType # NoObj
    BY <1>2, <1>6 DEF KnowsType
  <2> QED
    <3> PICK p : p = "id"
      OBVIOUS
    <3>1. /\ x \in Objs \cup {NoObj} /\ loader[l].resultType = L.resultType
          /\ p \in JobPhases \cap Phases(v) /\ p \notin {"wrap"}
          /\ M = [loader[l] EXCEPT !.phase = p, !.found = x] /\ Stands(x, v, c)'
      BY <2>1, <2>2 DEF Stands
    <3> QED
      BY <1>1, <2>3, <2>4, <3>1, Stays
<1> QED
  BY <1>1, <1>7, <1>8, <1>9, <1>10, <1>11 DEF Find, LeftAlone, Fails

LEMMA UpdateIdSteps ==
    ASSUME LInv, NEW l \in Loaders, UpdateId(l)
    PROVE  CarefulRequest /\ Advances(l)
<1>1. AtWork(l)
  BY DEF UpdateId, In, AtWork
<1> PICK L \in Jobs : L = loader[l] /\ Placing(L) /\ L.status = "running" /\ L.phase = "id"
  BY <1>1, JobOf DEF UpdateId, In
<1> PICK v : v = Current(l)
  OBVIOUS
<1> PICK c : c = Container(l)
  OBVIOUS
<1> PICK o : o = L.found
  OBVIOUS
<1> DEFINE goOn == IF v.kind \in TypedAtOnce THEN GoOn(l, "refs") ELSE NextVisit(l, o)
<1>2. Visited(L) = v /\ Last(L.stack) = c
  BY DEF Visited, Current, Container
<1>3. /\ TypedVisit(v) /\ "id" \in Phases(v) /\ Stands(o, v, c)
      /\ KnowsType(L) => L.resultType # NoObj
  BY <1>2, ContainerFacts DEF LInv, Placing
<1>4. v.visit \in {"declare", "again"} /\ v.id \in Ids /\ o \in Objs
  BY <1>3 DEF Phases, TypedVisit, Stands
<1>5. ASSUME CarefulRequest, goOn PROVE Advances(l)
  <2>1. Placing(L)' /\ Keeps
    BY <1>5, AfterRequest
  <2>2. CASE v.kind \in TypedAtOnce
    <3>1. "refs" \in JobPhases \cap Phases(v)
      BY <1>3, <1>4, <2>2 DEF JobPhases, Phases, TypedAtOnce, TypedFirst
    <3> PICK M : M = [loader[l] EXCEPT !.phase = "refs", !.found = o]
      OBVIOUS
    <3>2. loader' = [loader EXCEPT ![l] = M]
      <4>1. M = [L EXCEPT !.phase = "refs"]
        BY DEF Jobs
      <4> QED
        BY <1>5, <2>2, <4>1 DEF GoOn
    <3>3. Stands(o, v, c)'
      BY <1>2, <2>1 DEF Placing
    <3>4. L.resultType # NoObj
      <4>1. v.visit = "again" \/ v.kind \in TypedFirst
        BY <1>3, <1>4, <2>2 DEF Phases, TypedAtOnce, TypedFirst
      <4> QED
        BY <1>2, <1>3, <4>1 DEF KnowsType
    <3> PICK p : p = "refs"
      OBVIOUS
    <3>6. /\ CarefulRequest /\ o \in Objs \cup {NoObj}
          /\ p \in JobPhases \cap Phases(v) /\ p \notin {"wrap"}
          /\ M = [loader[l] EXCEPT !.phase = p, !.found = o]
      BY <1>4, <1>5, <3>1
    <3> HIDE DEF goOn
    <3> QED
      BY <1>1, <3>2, <3>3, <3>4, <3>6, Stays
  <2>3. CASE v.kind \notin TypedAtOnce
    <3>1. /\ o \in Objs /\ definedIn[o] # NoObj /\ absName[o] = PathOf(v)
          /\ kind[o] = v.kind
      BY <1>2, <1>3, <1>4, StandsThere DEF LInv
    <3>2. IsActive(o)
      BY <3>1 DEF LInv, CInv, GInv, Placed
    <3>3. v.kind # "Attribute" /\ NextVisit(l, o)
      BY <1>5, <2>3 DEF TypedAtOnce
    <3>4. /\ o \in Objs /\ definedIn'[o] # NoObj /\ absName'[o] = PathOf(v)
          /\ kind'[o] = v.kind
      BY <2>1, <3>1, <3>2 DEF Keeps
    <3> QED
      BY <1>1, <1>5, <3>3, <3>4, Goes
  <2> QED
    BY <2>2, <2>3
<1>6. CASE UNCHANGED vars /\ goOn
  BY <1>5, <1>6 DEF CarefulRequest
<1>7. CASE SetId(o, v.id) /\ goOn
  BY <1>4, <1>5, <1>7 DEF CarefulRequest
<1>8. CASE Fails(l)
  <2>1. CarefulRequest
    BY <1>8 DEF Fails, CarefulRequest
  <2> QED
    BY <1>1, <1>8, <2>1, Stops DEF Fails, Exits
<1>9. CASE SetIdDies(o, v.id)
  BY <1>4, <1>9, NobodyDies DEF LInv
<1> HIDE DEF goOn
<1> QED
  BY <1>6, <1>7, <1>8, <1>9 DEF UpdateId, goOn

LEMMA PopSteps ==
    ASSUME LInv, NEW l \in Loaders, Pop(l)
    PROVE  CarefulRequest /\ Advances(l)
<1>1. AtWork(l) /\ UNCHANGED vars /\ CarefulRequest /\ NextVisit(l, NoObj)
  BY DEF Pop, In, AtWork, CarefulRequest
<1> PICK L \in Jobs : L = loader[l] /\ Placing(L) /\ L.status = "running" /\ L.phase = "pop"
  BY <1>1, JobOf DEF Pop, In
<1> PICK v : v = Current(l)
  OBVIOUS
<1>2. Visited(L) = v
  BY DEF Visited, Current
<1>3. "pop" \in Phases(v)
  BY <1>2 DEF Placing
<1>4. v.visit = "end"
  BY <1>3 DEF Phases
<1>5. v.kind \in ContainerKinds
  BY <1>2, <1>4, ContainerHolds DEF LInv
<1>6. ~ Opens(v) /\ v.kind # "Attribute"
  BY <1>4, <1>5 DEF Opens, ContainerKinds
<1> QED
  BY <1>1, <1>6, Goes

LEMMA KillSteps ==
    ASSUME LInv, NEW l \in Loaders, Kill(l)
    PROVE  CarefulRequest /\ Advances(l)
BY Stops DEF Kill, CarefulRequest

\* No type is without end.
LEMMA NothingLoops ==
    ASSUME CInv, NEW k, NEW t \in Objs \cup {Prim}
    PROVE  ~ Loops(k, t)
BY NeverEndless DEF Loops

\* A setter that stores what is there changes nothing.
LEMMA SameReferences ==
    ASSUME CInv, NothingGone, NEW o \in Objs, SetReferences(o), refs' = refs
    PROVE  UNCHANGED vars
<1>1. PICK R \in RefValues(kind[o]) :
            /\ refs' = [refs EXCEPT ![o] = R]
            /\ deps' = [deps EXCEPT ![o] = Resolved(R)]
  BY DEF SetReferences, StoreReferences
<1> USE DEF CInv, GInv, IInv
<1>2. R = refs[o] /\ refs[o] \subseteq Objs \cup {Prim}
  BY <1>1 DEF TypeOK, Servants
<1>3. \A t \in refs[o] : life[t] # "gone"
  BY <1>2 DEF NothingGone, FixedServants, IsActive
<1>4. deps[o] = refs[o]
  BY <1>3 DEF UnresolvedMeansGone, DependencySound, Servants
<1>5. \A t \in refs[o] : IsActive(t)
  BY <1>4 DEF DependencySound, Servants
<1>6. Resolved(R) = deps[o]
  BY <1>2, <1>4, <1>5 DEF Resolved
<1>7. deps' = deps
  BY <1>1, <1>6 DEF TypeOK, Servants
<1> QED
  BY <1>7 DEF SetReferences, vars, links

LEMMA UpdateRefsSteps ==
    ASSUME LInv, NEW l \in Loaders, UpdateRefs(l)
    PROVE  CarefulRequest /\ Advances(l)
<1>1. AtWork(l)
  BY DEF UpdateRefs, In, AtWork
<1> PICK L \in Jobs : L = loader[l] /\ Placing(L) /\ L.status = "running" /\ L.phase = "refs"
  BY <1>1, JobOf DEF UpdateRefs, In
<1> PICK v : v = Current(l)
  OBVIOUS
<1> PICK o : o = UpdateTarget(l)
  OBVIOUS
<1> PICK t : t = L.resultType
  OBVIOUS
<1>2. Visited(L) = v /\ Last(L.stack) = Container(l)
  BY DEF Visited, Current, Container
<1>3. /\ TypedVisit(v) /\ "refs" \in Phases(v)
      /\ t \in Objs \cup {Prim}
  <2>1. TypedVisit(v) /\ "refs" \in Phases(v)
    BY <1>2, ContainerFacts DEF LInv, Placing
  <2>2. t # NoObj /\ t \in Objs \cup {Prim, NoObj}
    BY DEF Placing, KnowsType, Jobs
  <2> QED
    BY <2>1, <2>2
<1>4. o \in Objs /\ kind[o] = v.kind /\ kind[o] \notin DelegatingKinds /\ ~ Opens(v)
  <2>1. CASE v.visit = "end"
    <3>1. o \in Objs /\ kind[o] = v.kind
      BY <1>2, <2>1, ContainerHolds DEF LInv, UpdateTarget
    <3>2. v.kind \in TypedAtEnd
      BY <1>3, <2>1 DEF Phases
    <3> QED
      BY <2>1, <3>1, <3>2 DEF TypedAtEnd, DelegatingKinds, Opens
  <2>2. CASE v.visit # "end"
    <3>1. o = L.found
      BY <2>2 DEF UpdateTarget
    <3>2. o \in Objs /\ kind[o] = v.kind
      BY <1>2, <2>2, <3>1 DEF Placing, Stands
    <3>3. v.kind \in TypedFirst
      BY <1>3, <2>2 DEF Phases, TypedVisit, TypedFirst
    <3> QED
      BY <3>2, <3>3 DEF TypedFirst, DelegatingKinds, Opens, Openers
  <2> QED
    BY <2>1, <2>2
<1>5. CASE SetReferences(o) /\ NextVisit(l, o)
  <2>1. CarefulRequest
    <3>1. CASE refs' = refs
      BY <1>4, <1>5, <3>1, SameReferences DEF LInv, CarefulRequest
    <3>2. CASE refs' # refs
      <4>1. CarefulSet(o)
        BY <1>4, <1>5 DEF CarefulSet
      <4>2. refs'[o] # refs[o]
        <5>1. PICK R : refs' = [refs EXCEPT ![o] = R]
          BY <1>5 DEF SetReferences, StoreReferences
        <5> QED
          BY <1>4, <3>2, <5>1 DEF LInv, CInv, GInv, IInv, TypeOK, Servants
      <4> QED
        BY <1>4, <4>1, <4>2 DEF CarefulRequest
    <3> QED
      BY <3>1, <3>2
  <2>2. L.resultType # NoObj
    BY <1>3, ConstantsAssumption DEF Servants
  <2> QED
    BY <1>1, <1>4, <1>5, <2>1, <2>2, Goes
<1>6. CASE Fails(l)
  <2>1. CarefulRequest
    BY <1>6 DEF Fails, CarefulRequest
  <2> QED
    BY <1>1, <1>6, <2>1, Stops DEF Fails, Exits
<1>7. ~ Loops(kind[o], t)
  BY <1>3, NothingLoops DEF LInv
<1> QED
  BY <1>5, <1>6, <1>7 DEF UpdateRefs

\* A loader never asks for what ends the server.
LEMMA MakeFacts ==
    ASSUME LInv, NEW l \in Loaders, In(l, "make"), NEW v, v = Current(l),
           NEW c, c = Container(l)
    PROVE  /\ TypedVisit(v) /\ v.visit \in {"declare", "forward"}
           /\ c \in Objs \cup {Root} /\ c \in Servants /\ c # NoObj
           /\ v.kind \in Containable(kind[c]) /\ AbsoluteName(c, v.name) = PathOf(v)
           /\ v.kind \in TypedAtOnce => loader[l].resultType # NoObj
           /\ \A site \in {"initRemoveId", "typeLoop"} :
                ~ /\ CreateContainedDies(c, v.kind, v.id, v.name, site)
                  /\ site = "typeLoop" => \E t \in FirstRefs(l) : Loops(v.kind, t)
<1> PICK L \in Jobs : L = loader[l] /\ Placing(L) /\ L.status = "running" /\ L.phase = "make"
  BY JobOf DEF In, AtWork
<1>1. Visited(L) = v /\ Last(L.stack) = c
  BY DEF Visited, Current, Container
<1>2. /\ TypedVisit(v) /\ "make" \in Phases(v) /\ c \in Objs \cup {Root}
      /\ v.kind \in TypedAtOnce => L.resultType # NoObj
      /\ Opened(L.file, c, v.scope)
  BY <1>1, ContainerFacts DEF LInv, Placing, KnowsType
<1>3. v.visit \in {"declare", "forward"}
  BY <1>2 DEF Phases, TypedVisit
<1>4. v.kind \in Containable(kind[c]) /\ c \in Servants /\ c # NoObj
  <2>1. v.kind \in Containable(kind[c])
    BY <1>1, <1>3, ContainerHolds DEF LInv
  <2> QED
    BY <1>2, <2>1, ConstantsAssumption DEF Servants
<1>5. AbsoluteName(c, v.name) = PathOf(v)
  <2>1. (IF c = Root THEN <<>> ELSE absName[c]) = v.scope
    BY <1>2, ConstantsAssumption DEF Opened
  <2> QED
    BY <1>3, <2>1 DEF AbsoluteName, PathOf
<1>6. ASSUME NEW site \in {"initRemoveId", "typeLoop"},
             CreateContainedDies(c, v.kind, v.id, v.name, site),
             site = "typeLoop" => \E t \in FirstRefs(l) : Loops(v.kind, t)
      PROVE  FALSE
  <2>1. SetterDies(v.kind, site)
    BY <1>4, <1>6 DEF CreateContainedDies
  <2>2. site = "typeLoop"
    BY <1>6, <2>1 DEF SetterDies
  <2>3. FirstRefs(l) \subseteq Objs \cup {Prim}
    BY <1>2 DEF FirstRefs, Jobs
  <2> QED
    BY <1>6, <2>2, <2>3, NothingLoops DEF LInv
<1> HIDE DEF CreateContainedDies, FirstRefs, Loops
<1> QED
  BY <1>2, <1>3, <1>4, <1>5, <1>6

\* What it makes is what it visits.
LEMMA Made ==
    ASSUME LInv, NEW l \in Loaders, In(l, "make"), NEW v, v = Current(l),
           NEW c, c = Container(l), SomeNew,
           CreateContained(c, New, v.kind, v.id, v.name)
    PROVE  \E o \in Objs :
            /\ o = New /\ life[o] = "unborn" /\ life'[o] = "active"
            /\ kind'[o] = v.kind /\ definedIn'[o] = c /\ name'[o] = v.name
            /\ absName'[o] = PathOf(v) /\ id'[o] = v.id /\ CarefullyCreated(o)
            /\ \A x \in Objs \ {o} :
                id'[x] = id[x] /\ refs'[x] = refs[x] /\ definedIn'[x] = definedIn[x]
<1> PICK o \in Objs : o = New /\ life[o] = "unborn"
  BY NewIsUnborn
<1>1. /\ TypedVisit(v) /\ v.visit \in {"declare", "forward"} /\ c \in Servants
      /\ v.kind \in Containable(kind[c]) /\ AbsoluteName(c, v.name) = PathOf(v)
  BY MakeFacts
<1>2. /\ life' = [life EXCEPT ![o] = "active"] /\ kind' = [kind EXCEPT ![o] = v.kind]
      /\ definedIn' = [definedIn EXCEPT ![o] = c] /\ name' = [name EXCEPT ![o] = v.name]
      /\ absName' = [absName EXCEPT ![o] = AbsoluteName(c, v.name)]
      /\ id' = [id EXCEPT ![o] = v.id]
  BY DEF CreateContained
<1>3. /\ life'[o] = "active" /\ kind'[o] = v.kind /\ definedIn'[o] = c
      /\ name'[o] = v.name /\ absName'[o] = PathOf(v) /\ id'[o] = v.id
  BY <1>1, <1>2 DEF LInv, CInv, GInv, IInv, TypeOK, Servants
<1>4. CarefullyCreated(o)
  <2>1. CreateContained(definedIn'[o], o, kind'[o], id'[o], name'[o])
    BY <1>3
  <2>2. /\ definedIn'[o] \in Servants /\ name'[o] \in Names /\ id'[o] \in Ids
        /\ kind'[o] \in Containable(kind[definedIn'[o]])
    BY <1>1, <1>3 DEF TypedVisit
  <2> HIDE DEF CreateContained
  <2> QED
    BY <2>1, <2>2 DEF CarefullyCreated
<1>5. ASSUME NEW x \in Objs \ {o}
      PROVE  id'[x] = id[x] /\ refs'[x] = refs[x] /\ definedIn'[x] = definedIn[x]
  <2>1. \E R : refs' = [refs EXCEPT ![o] = R]
    BY DEF CreateContained, StoreReferences
  <2> QED
    BY <1>2, <2>1 DEF LInv, CInv, GInv, IInv, TypeOK, Servants
<1> HIDE DEF CreateContained
<1> QED
  BY <1>3, <1>4, <1>5

LEMMA MakeSteps ==
    ASSUME LInv, NEW l \in Loaders, Make(l)
    PROVE  CarefulRequest /\ Advances(l)
<1>1. AtWork(l) /\ In(l, "make")
  BY DEF Make, In, AtWork
<1> PICK v : v = Current(l)
  OBVIOUS
<1> PICK c : c = Container(l)
  OBVIOUS
<1>2. CASE Fails(l)
  <2>1. CarefulRequest
    BY <1>2 DEF Fails, CarefulRequest
  <2> QED
    BY <1>1, <1>2, <2>1, Stops DEF Fails, Exits
<1>3. ASSUME SomeNew, CreateContained(c, New, v.kind, v.id, v.name), NextVisit(l, New)
      PROVE  CarefulRequest /\ Advances(l)
  <2>1. PICK o \in Objs :
            /\ o = New /\ life[o] = "unborn" /\ life'[o] = "active"
            /\ kind'[o] = v.kind /\ definedIn'[o] = c
            /\ absName'[o] = PathOf(v) /\ CarefullyCreated(o)
    BY <1>1, <1>3, Made
  <2>2. CarefulRequest
    BY <2>1 DEF CarefulRequest
  <2>3. definedIn'[o] # NoObj /\ (v.kind = "Attribute" => loader[l].resultType # NoObj)
    BY <1>1, <2>1, MakeFacts DEF TypedAtOnce
  <2> QED
    BY <1>1, <1>3, <2>1, <2>2, <2>3, Goes
<1>4. ASSUME NEW site \in {"initRemoveId", "typeLoop"},
             CreateContainedDies(c, v.kind, v.id, v.name, site),
             site = "typeLoop" => \E t \in FirstRefs(l) : Loops(v.kind, t)
      PROVE  FALSE
  BY <1>1, <1>4, MakeFacts
<1> QED
  BY <1>2, <1>3, <1>4 DEF Make

LEMMA StepOfLoader ==
    ASSUME LInv, NEW l \in Loaders, LoaderStep(l)
    PROVE  CarefulRequest /\ Advances(l)
BY ResolveTypeSteps, WrapTypeSteps, FindSteps, MakeSteps, UpdateIdSteps, UpdateRefsSteps,
   PopSteps, KillSteps DEF LoaderStep

-----------------------------------------------------------------------------
(* The invariant of the loaders.                                           *)

\* Where a loader is does not depend on whom it met.
LEMMA MeetingPlacing ==
    ASSUME NEW L \in Jobs, NEW S \in SUBSET Files, Placing(L)
    PROVE  [L EXCEPT !.met = S] \in Jobs /\ Placing([L EXCEPT !.met = S])
<1> PICK M : M = [L EXCEPT !.met = S]
  OBVIOUS
<1>1. /\ M \in Jobs
      /\ M.status = L.status /\ M.phase = L.phase /\ M.resultType = L.resultType
      /\ M.file = L.file /\ M.at = L.at /\ M.stack = L.stack /\ M.found = L.found
  BY DEF Jobs
<1>2. Visited(M) = Visited(L)
  BY <1>1 DEF Visited
<1>3. Placing(M)
  BY <1>1, <1>2 DEF Placing, KnowsType
<1> QED
  BY <1>1, <1>3

\* Where a loader begins.
LEMMA FirstPlacing ==
    ASSUME NEW f \in Files, NEW B \in SUBSET Objs, NEW S \in SUBSET Files
    PROVE  LET L == [status |-> "running", file |-> f, at |-> 1,
                     phase |-> FirstPhase(f[1]), stack |-> <<Root>>,
                     found |-> NoObj, resultType |-> NoObj, before |-> B, met |-> S]
           IN L \in Jobs /\ Placing(L)
<1> PICK L : L = [status |-> "running", file |-> f, at |-> 1,
                  phase |-> FirstPhase(f[1]), stack |-> <<Root>>,
                  found |-> NoObj, resultType |-> NoObj, before |-> B, met |-> S]
  OBVIOUS
<1> PICK v : v = f[1]
  OBVIOUS
<1>1. /\ L.status = "running" /\ L.file = f /\ L.at = 1 /\ L.phase = FirstPhase(v)
      /\ L.stack = <<Root>> /\ L.resultType = NoObj
  OBVIOUS
<1>2. 1 \in DOMAIN f /\ Visited(L) = v
  <2>1. Len(f) \in Nat \ {0} /\ DOMAIN f = 1..Len(f)
    BY FileFacts
  <2> QED
    BY <1>1, <2>1 DEF Visited
<1>3. TypedVisit(v) /\ v.scope = <<>> /\ v.visit # "again"
  <2>1. TypedVisit(v) /\ v.scope = <<>>
    BY <1>2, FileFacts DEF WellNested
  <2>2. v.visit # "again"
    BY <1>2, FileFacts DEF OneTypeEach
  <2> QED
    BY <2>1, <2>2
<1>4. FirstPhase(v) \in Phases(v) /\ FirstPhase(v) \in {"type", "find", "pop"}
  BY <1>3, FirstPhases
<1>5. L \in Jobs
  <2>1. <<Root>> \in Seq(Objs \cup {Root}) /\ 1 \in Nat
    OBVIOUS
  <2> QED
    BY <1>4, <2>1 DEF Jobs, JobPhases
<1>6. /\ Len(L.stack) = Len(Visited(L).scope) + 1
      /\ \A k \in 1..Len(L.stack) :
            Opened(L.file, L.stack[k], SubSeq(Visited(L).scope, 1, k - 1))
  <2>1. Len(<<Root>>) = 1 /\ <<Root>>[1] = Root /\ Len(<<>>) = 0 /\ 1 - 1 = 0
        /\ SubSeq(<<>>, 1, 0) = <<>> /\ 1..1 = {1}
    OBVIOUS
  <2>2. Opened(f, Root, <<>>)
    BY DEF Opened
  <2>3. Len(L.stack) = 1 /\ L.stack[1] = Root /\ Visited(L).scope = <<>> /\ L.file = f
    BY <1>1, <1>2, <1>3, <2>1
  <2>4. 1..Len(L.stack) = {1} /\ Len(L.stack) = Len(Visited(L).scope) + 1
    BY <2>1, <2>3
  <2>5. Opened(L.file, L.stack[1], SubSeq(Visited(L).scope, 1, 1 - 1))
    BY <2>1, <2>2, <2>3
  <2> QED
    BY <2>4, <2>5
<1>7. ~ KnowsType(L)
  BY <1>1, <1>2, <1>3, <1>4 DEF KnowsType, FirstPhase, TypedFirst, TypedAtOnce, TypedVisit
<1>8. Placing(L)
  BY <1>1, <1>2, <1>4, <1>6, <1>7 DEF Placing
<1> QED
  BY <1>5, <1>8

LEMMA InitLInv == LoaderInit => LInv
<1> SUFFICES ASSUME LoaderInit PROVE LInv
  OBVIOUS
<1>1. CInv
  BY InitCInv DEF LoaderInit
<1>2. LoaderTyped
  BY DEF LoaderInit, LoaderTyped
<1>3. AbsExact /\ NothingGone
  <2>1. NothingGone
    BY DEF LoaderInit, Init, NothingGone, Servants
  <2>2. AbsExact
    <3> SUFFICES ASSUME NEW o \in Objs, definedIn[o] # NoObj
                 PROVE  absName[o] = AbsoluteName(definedIn[o], name[o])
      BY DEF AbsExact
    <3>1. definedIn[o] = Root /\ absName[o] = <<name[o]>>
      BY DEF LoaderInit, Init
    <3>2. \A n : Append(<<>>, n) = <<n>>
      OBVIOUS
    <3> QED
      BY <3>1, <3>2 DEF AbsoluteName
  <2> QED
    BY <2>1, <2>2
<1>4. \A l \in Loaders : Placing(loader[l])
  BY DEF LoaderInit, Placing, Idle
<1> QED
  BY <1>1, <1>2, <1>3, <1>4 DEF LInv

LEMMA BeginLInv ==
    ASSUME LInv, NEW l \in Loaders, NEW f \in Files, Begin(l, f)
    PROVE  UNCHANGED vars /\ LInv'
<1> DEFINE B == {o \in Objs : IsActive(o)}
           S == UNION {{loader[j].file} \cup loader[j].met :
                            j \in {j \in Loaders \ {l} : AtWork(j)}}
           L == [status |-> "running", file |-> f, at |-> 1,
                 phase |-> FirstPhase(f[1]), stack |-> <<Root>>,
                 found |-> NoObj, resultType |-> NoObj, before |-> B, met |-> S]
<1>1. /\ UNCHANGED vars
      /\ begun' = [files |-> begun.files \cup {f}, loads |-> begun.loads + 1]
      /\ loader' = [k \in Loaders |->
                      IF k = l THEN L
                      ELSE IF AtWork(k) THEN [loader[k] EXCEPT !.met = @ \cup {f}]
                      ELSE loader[k]]
  BY DEF Begin
<1>2. L \in Jobs /\ Placing(L)
  <2>1. B \in SUBSET Objs /\ S \in SUBSET Files
    BY JobOf DEF Jobs
  <2> HIDE DEF B, S
  <2> QED
    BY <2>1, FirstPlacing
<1> HIDE DEF L
<1>3. ASSUME NEW k \in Loaders
      PROVE  loader'[k] \in Jobs \cup {Idle} /\ Placing(loader'[k])
  <2>1. CASE k = l
    BY <1>1, <1>2, <2>1
  <2>2. CASE k # l /\ AtWork(k)
    <3>1. loader[k] \in Jobs /\ Placing(loader[k])
      BY <2>2, JobOf
    <3>2. loader[k].met \cup {f} \in SUBSET Files
      BY <3>1 DEF Jobs
    <3> QED
      BY <1>1, <2>2, <3>1, <3>2, MeetingPlacing
  <2>3. CASE k # l /\ ~ AtWork(k)
    BY <1>1, <2>3 DEF LInv, LoaderTyped
  <2> QED
    BY <2>1, <2>2, <2>3
<1>4. CarefulRequest
  BY <1>1 DEF CarefulRequest
<1>5. LoaderTyped'
  <2>1. loader' \in [Loaders -> Jobs \cup {Idle}]
    BY <1>1, <1>3
  <2>2. begun' \in [files : SUBSET Files, loads : Nat]
    BY <1>1 DEF LInv, LoaderTyped
  <2> QED
    BY <2>1, <2>2 DEF LoaderTyped
<1>6. \A k \in Loaders : Placing(loader[k])'
  <2>1. ASSUME NEW k \in Loaders PROVE Placing(loader[k])'
    <3> PICK M \in Jobs \cup {Idle} : M = loader'[k] /\ Placing(M)
      BY <1>3
    <3>1. Placing(M)'
      BY <1>4, AfterRequest
    <3> QED
      BY <3>1
  <2> QED
    BY <2>1
<1> QED
  BY <1>1, <1>4, <1>5, <1>6, AfterRequest DEF LInv

LEMMA StepLInv ==
    ASSUME LInv, NEW l \in Loaders, LoaderStep(l), UNCHANGED begun
    PROVE  CarefulRequest /\ LInv'
<1>1. CarefulRequest /\ Advances(l)
  BY StepOfLoader
<1>2. PICK M \in Jobs : loader' = [loader EXCEPT ![l] = M] /\ Placing(M)'
  BY <1>1 DEF Advances
<1>3. LoaderTyped'
  BY <1>2 DEF LInv, LoaderTyped
<1>4. ASSUME NEW k \in Loaders PROVE Placing(loader[k])'
  <2>1. CASE k = l
    <3>1. loader'[k] = M
      BY <1>2, <2>1 DEF LInv, LoaderTyped
    <3> QED
      BY <1>2, <3>1
  <2>2. CASE k # l
    <3> PICK L \in Jobs \cup {Idle} : L = loader[k] /\ Placing(L)
      BY DEF LInv, LoaderTyped
    <3>1. Placing(L)' /\ loader'[k] = L
      BY <1>1, <1>2, <2>2, AfterRequest DEF LInv, LoaderTyped
    <3> QED
      BY <3>1
  <2> QED
    BY <2>1, <2>2
<1> QED
  BY <1>1, <1>3, <1>4, AfterRequest DEF LInv

LEMMA NextLInv ==
    ASSUME LInv, [LoaderNext]_allVars
    PROVE  LInv' /\ CarefulRequest
<1>1. CASE UNCHANGED allVars
  <2>1. UNCHANGED vars /\ UNCHANGED loader /\ UNCHANGED begun
    BY <1>1 DEF allVars
  <2>2. CarefulRequest
    BY <2>1 DEF CarefulRequest
  <2>3. ASSUME NEW k \in Loaders PROVE Placing(loader[k])'
    <3> PICK L \in Jobs \cup {Idle} : L = loader[k] /\ Placing(L)
      BY DEF LInv, LoaderTyped
    <3>1. Placing(L)'
      BY <2>2, AfterRequest
    <3> QED
      BY <2>1, <3>1
  <2> QED
    BY <2>1, <2>2, <2>3, AfterRequest DEF LInv, LoaderTyped
<1>2. ASSUME NEW l \in Loaders, NEW f \in Files, Begin(l, f)
      PROVE  LInv' /\ CarefulRequest
  BY <1>2, BeginLInv DEF CarefulRequest
<1>3. ASSUME NEW l \in Loaders, LoaderStep(l), UNCHANGED begun
      PROVE  LInv' /\ CarefulRequest
  BY <1>3, StepLInv
<1> QED
  BY <1>1, <1>2, <1>3 DEF LoaderNext

-----------------------------------------------------------------------------
(* Theorems.                                                               *)

\* In every state loaders can reach, what each of them believes to have opened
\* and found is what is there: nothing another loader does moves, renames or
\* replaces a container on its stack, or the object it is bringing up to date.
THEOREM LoaderInvariance == LoaderSpec => []LInv
BY InitLInv, NextLInv, PTL DEF LoaderSpec

\* Loaders send only requests that careful clients send: whatever the versions
\* of the files they load, however many are at work, wherever one is killed, none
\* creates a definition where it cannot be held, and none makes two types refer to
\* each other (ifr.py:595-611).
THEOREM LoadsAreCareful == LoaderSpec => LoadersAreCareful
<1>1. LInv /\ [LoaderNext]_allVars => [CarefulRequest]_vars
  BY NextLInv
<1> QED
  BY <1>1, LoaderInvariance, PTL DEF LoaderSpec, LoadersAreCareful

\* So what is proved of careful clients holds of loaders (ifr.py:90-167).
THEOREM LoadersRefineCareful == LoaderSpec => CarefulSpec
<1>1. LoaderInit => Init
  BY DEF LoaderInit
<1>2. LInv /\ [LoaderNext]_allVars => [CarefulNext]_vars
  BY NextLInv, RequestIsCareful
<1> QED
  BY <1>1, <1>2, LoaderInvariance, PTL DEF LoaderSpec, CarefulSpec

\* No load of valid files brings the server down, and nothing that was entered is
\* lost, in whatever order the calls of the loaders arrive (Contained.cc:57-99,
\* Repository.cc:498-510).
THEOREM LoadsAreSafe == LoaderSpec => []NeverDies /\ []NothingLost
BY LoadersRefineCareful, CarefulNeverDies, CarefulNothingLost, PTL

\* To omniidl, too, the server is the abstract catalogue: each call enters or
\* amends one entry (Container.cc:155-261, Contained.cc:106-129).
THEOREM LoadsEnterACatalogue == LoaderSpec => ImplementsCatalogue
BY LoadersRefineCareful, CarefulRefinement, PTL

-----------------------------------------------------------------------------
(* Several loads of one file.                                              *)

\* t is what the type of visit v names, and what v is given as its type.
Base(t, v) ==
    IF v.type.path = <<>> THEN t = Prim
    ELSE t \in Objs /\ definedIn[t] # NoObj /\ absName[t] = v.type.path
Denoted(t, v) ==
    IF v.type.wrapped THEN t \in Objs /\ kind[t] = "Sequence" ELSE Base(t, v)

\* Everything in the Repository is what a visit of the file declares.
MirrorOf(o, v) ==
    /\ v.visit \notin {"typedef", "end"}
    /\ absName[o] = PathOf(v) /\ kind[o] = v.kind /\ id[o] = v.id
    /\ kind[o] = "Alias" => \E t \in refs[o] : refs[o] = {t} /\ Denoted(t, v)
Mirrored(f) ==
    \A o \in Objs : definedIn[o] # NoObj => \E i \in DOMAIN f : MirrorOf(o, f[i])

\* What visit v declares is there.
There(v) == \E o \in Objs : definedIn[o] # NoObj /\ absName[o] = PathOf(v)

\* What is declared inside a typedef is there before the typedef is.
InsideThere(f) ==
    \A a, i, j \in DOMAIN f :
        /\ Typedef(f, a, j) /\ a < i /\ i < j /\ f[i].visit # "end"
        /\ There(f[j])
        => There(f[i])

\* The loader has the type of its visit.
HasType(L) ==
    LET v == Visited(L) IN
    \/ L.phase \in {"make", "id"} /\ v.kind \in TypedAtOnce
    \/ L.phase = "find" /\ v.kind \in TypedFirst
    \/ L.phase = "refs"

Loading(L, f) ==
    L.status = "running" =>
        /\ L.file = f
        /\ \A i \in 1..(L.at - 1) : f[i].visit \notin {"typedef", "end"} => There(f[i])
        /\ L.phase = "wrap" => Visited(L).type.wrapped
        /\ HasType(L) => Denoted(L.resultType, Visited(L))

\* Visit n is of a typedef that was not there when it was looked up, and is now.
Overtaken(f, n) ==
    \E a, j \in DOMAIN f : Typedef(f, a, j) /\ a < n /\ n <= j /\ There(f[j])

\* The loader is about to create what another loader has created since it looked.
Doomed(L) ==
    /\ L.status = "running"
    /\ (L.phase = "make" /\ There(Visited(L))) \/ Overtaken(L.file, L.at)
GetsThrough(L) == L.status \in {"running", "done", "killed"} /\ ~ Doomed(L)

Single(f) ==
    /\ Loaded = {} /\ begun.files = {f} /\ \A i \in DOMAIN f : ~ NeverLoaded(f, i)

SInv ==
    /\ LInv
    /\ (Loaded = {} /\ begun.files = {}) =>
            (\A o \in Objs : definedIn[o] = NoObj) /\ \A l \in Loaders : loader[l] = Idle
    /\ \A f \in Files : Single(f) =>
            /\ Mirrored(f) /\ InsideThere(f)
            /\ \A l \in Loaders : Loading(loader[l], f)
            /\ \E l \in Loaders : GetsThrough(loader[l])

\* Looking up one more name is one more step.
LEMMA LookupMore ==
    ASSUME NEW c, NEW S, NEW s \in Seq(S), NEW n \in S
    PROVE  Lookup(c, Append(s, n)) = Step(Lookup(c, s), n)
<1> DEFINE more == Append(s, n)
           r == Reached(c, s)
           q == Reached(c, more)
           T == {k \in Nat : k <= Len(s) => q[k] = r[k]}
<1>1. /\ r[0] = c /\ \A k \in Nat : k # 0 => r[k] = Step(r[k - 1], s[k])
      /\ q[0] = c /\ \A k \in Nat : k # 0 => q[k] = Step(q[k - 1], more[k])
  <2>1. r[0] = c /\ \A k \in Nat : k # 0 => r[k] = Step(r[k - 1], s[k])
    BY ReachedStep
  <2> HIDE DEF more
  <2>2. q[0] = c /\ \A k \in Nat : k # 0 => q[k] = Step(q[k - 1], more[k])
    BY ReachedStep
  <2> QED
    BY <2>1, <2>2
<1>2. /\ Len(more) = Len(s) + 1 /\ Len(s) \in Nat /\ more[Len(s) + 1] = n
      /\ \A k \in 1..Len(s) : more[k] = s[k]
  BY Pushed
<1> HIDE DEF more, r, q
<1>3. 0 \in T
  BY <1>1
<1>4. ASSUME NEW k \in T PROVE k + 1 \in T
  <2>1. k \in Nat /\ (k <= Len(s) => q[k] = r[k])
    OBVIOUS
  <2>2. k + 1 \in Nat /\ k + 1 # 0 /\ (k + 1) - 1 = k
    BY <2>1
  <2>3. k + 1 <= Len(s) => k <= Len(s) /\ more[k + 1] = s[k + 1]
    BY <1>2, <2>1
  <2>4. q[k + 1] = Step(q[k], more[k + 1]) /\ r[k + 1] = Step(r[k], s[k + 1])
    BY <1>1, <2>2
  <2>5. k + 1 <= Len(s) => q[k + 1] = r[k + 1]
    BY <2>1, <2>3, <2>4
  <2> QED
    BY <2>2, <2>5
<1>5. T = Nat
  <2>1. T \in SUBSET Nat
    OBVIOUS
  <2> HIDE DEF T
  <2> QED
    BY <1>3, <1>4, <2>1, AllNumbers
<1>6. q[Len(s)] = r[Len(s)]
  BY <1>2, <1>5
<1>7. Len(s) + 1 \in Nat /\ Len(s) + 1 # 0 /\ (Len(s) + 1) - 1 = Len(s)
  BY <1>2
<1>8. q[Len(s) + 1] = Step(q[Len(s)], n)
  BY <1>1, <1>2, <1>7
<1> QED
  BY <1>2, <1>6, <1>8 DEF Lookup, r, q, more

\* What is in a container is found in it.
LEMMA StepsTo ==
    ASSUME CInv, NEW o \in Objs, definedIn[o] # NoObj
    PROVE  Step(definedIn[o], name[o]) = o
<1> DEFINE c == definedIn[o]
<1> USE DEF CInv, GInv, IInv
<1>1. c \in Servants /\ o \in contents[c]
  BY DEF ContainmentSound, TypeOK, Servants
<1>2. kind[c] \in ContainerKinds
  BY <1>1 DEF Held
<1>3. Child(c, name[o]) = {o}
  <2>1. o \in Child(c, name[o])
    BY <1>1 DEF Child
  <2>2. ASSUME NEW x \in Child(c, name[o]) PROVE x = o
    <3>1. x \in contents[c] /\ name[x] = name[o]
      BY <2>2 DEF Child
    <3>2. x \in Objs /\ definedIn[x] = c /\ SiblingNamesDistinct
      BY <1>1, <3>1 DEF TypeOK, ContainmentSound
    <3> QED
      BY <1>1, <3>1, <3>2 DEF SiblingNamesDistinct
  <2> QED
    BY <2>1, <2>2
<1> QED
  BY <1>2, <1>3 DEF Step

\* A definition is in the Repository or in another definition.
LEMMA ContainerOf ==
    ASSUME CInv, NEW o \in Objs, definedIn[o] # NoObj
    PROVE  /\ definedIn[o] # Root =>
                definedIn[o] \in Objs /\ definedIn[definedIn[o]] # NoObj
           /\ name[o] \in Names /\ IsActive(o)
<1> USE DEF CInv, GInv, IInv
<1>1. definedIn[o] \in Objs \cup {Root}
  BY DEF TypeOK
<1>2. o \in contents[definedIn[o]]
  BY <1>1 DEF ContainmentSound, Servants
<1>3. IsActive(definedIn[o]) /\ kind[definedIn[o]] \in ContainerKinds
  BY <1>1, <1>2 DEF Held, Servants
<1>4. ASSUME definedIn[o] # Root
      PROVE  definedIn[o] \in Objs /\ definedIn[definedIn[o]] # NoObj
  <2>1. kind[definedIn[o]] \in ContainedKinds
    BY <1>1, <1>3, <1>4 DEF Rooted, ContainerKinds, ContainedKinds, AnonymousKinds
  <2> QED
    BY <1>1, <1>3, <1>4, <2>1 DEF Placed
<1> QED
  BY <1>4 DEF Named, Placed

\* The absolute name of a definition is that of its container and its name.
LEMMA NameSplit ==
    ASSUME CInv, AbsExact, NEW o \in Objs, definedIn[o] # NoObj,
           NEW s \in Seq(Names), NEW n \in Names, absName[o] = Append(s, n)
    PROVE  /\ name[o] = n
           /\ s = IF definedIn[o] = Root THEN <<>> ELSE absName[definedIn[o]]
<1> DEFINE b == IF definedIn[o] = Root THEN <<>> ELSE absName[definedIn[o]]
<1>1. absName[o] = Append(b, name[o])
  BY DEF AbsExact, AbsoluteName
<1>2. b \in Seq(Names)
  BY ContainerOf DEF CInv, GInv, IInv, TypeOK
<1> HIDE DEF b
<1> PICK m : m = name[o]
  OBVIOUS
<1>3. Append(s, n) = Append(b, m)
  BY <1>1
<1>4. s = b /\ n = m
  BY <1>2, <1>3
<1> QED
  BY <1>4 DEF b

\* An absolute name leads to its definition.
LEMMA LookupAbs ==
    ASSUME CInv, AbsExact, NEW o \in Objs, definedIn[o] # NoObj
    PROVE  Lookup(Root, absName[o]) = o
<1> DEFINE U == {x \in Objs : definedIn[x] # NoObj /\ Lookup(Root, absName[x]) # x}
<1> SUFFICES ASSUME U # {} PROVE FALSE
  OBVIOUS
<1>1. PICK x \in U : definedIn[x] \notin U
  <2>1. U \in SUBSET Objs
    OBVIOUS
  <2> HIDE DEF U
  <2> QED
    BY <2>1 DEF CInv, GInv, NestingEnds
<1>2. /\ x \in Objs /\ definedIn[x] # NoObj /\ Lookup(Root, absName[x]) # x
      /\ name[x] \in Names /\ Step(definedIn[x], name[x]) = x
  BY <1>1, ContainerOf, StepsTo
<1>3. CASE definedIn[x] = Root
  <2>1. absName[x] = <<name[x]>>
    <3>1. absName[x] = Append(<<>>, name[x])
      BY <1>2, <1>3 DEF AbsExact, AbsoluteName
    <3> QED
      BY <3>1
  <2> QED
    BY <1>2, <1>3, <2>1, LookupOne
<1>4. CASE definedIn[x] # Root
  <2> DEFINE c == definedIn[x]
  <2>1. c \in Objs /\ definedIn[c] # NoObj
    BY <1>2, <1>4, ContainerOf
  <2>2. Lookup(Root, absName[c]) = c
    BY <1>1, <2>1
  <2>3. absName[x] = Append(absName[c], name[x]) /\ absName[c] \in Seq(Names)
    BY <1>2, <1>4, <2>1 DEF AbsExact, AbsoluteName, CInv, GInv, IInv, TypeOK
  <2> HIDE DEF U
  <2>4. Lookup(Root, absName[x]) = Step(Lookup(Root, absName[c]), name[x])
    BY <1>2, <2>3, LookupMore
  <2> QED
    BY <1>2, <2>2, <2>4
<1> QED
  BY <1>3, <1>4

\* So absolute names are unique.
LEMMA AbsUnique ==
    ASSUME CInv, AbsExact, NEW o \in Objs, NEW p \in Objs,
           definedIn[o] # NoObj, definedIn[p] # NoObj, absName[o] = absName[p]
    PROVE  o = p
BY LookupAbs

\* lookup() in its container finds what a visit declares if, and only if, it is
\* there.
LEMMA FindsThere ==
    ASSUME LInv, NEW L \in Jobs, L.status = "running", Placing(L),
           Visited(L).visit # "end"
    PROVE  LET x == Lookup(Last(L.stack), <<Visited(L).name>>) IN
           /\ x # NoObj => /\ x \in Objs /\ definedIn[x] = Last(L.stack)
                           /\ definedIn[x] # NoObj /\ absName[x] = PathOf(Visited(L))
           /\ x = NoObj => ~ There(Visited(L))
<1> PICK v : v = Visited(L)
  OBVIOUS
<1> PICK c : c = Last(L.stack)
  OBVIOUS
<1> PICK x : x = Lookup(c, <<v.name>>)
  OBVIOUS
<1>1. /\ TypedVisit(v) /\ c \in Objs \cup {Root} /\ Opened(L.file, c, v.scope)
      /\ CInv /\ AbsExact
  BY ContainerFacts DEF LInv
<1>2. x = Step(c, v.name) /\ c \in Servants /\ c # NoObj
  BY <1>1, LookupOne, ConstantsAssumption DEF Servants
<1>3. v.name \in Names /\ v.scope \in Seq(Names) /\ PathOf(v) = Append(v.scope, v.name)
  BY <1>1 DEF TypedVisit, PathOf
<1>4. v.scope = IF c = Root THEN <<>> ELSE absName[c]
  BY <1>1, ConstantsAssumption DEF Opened
<1>5. ASSUME x # NoObj
      PROVE  /\ x \in Objs /\ definedIn[x] = c /\ definedIn[x] # NoObj
             /\ absName[x] = PathOf(v)
  <2>1. x \in Objs /\ definedIn[x] = c /\ name[x] = v.name
    BY <1>1, <1>2, <1>5, StepFound DEF CInv, GInv
  <2> QED
    BY <1>1, <1>2, <1>3, <1>4, <2>1 DEF AbsExact, AbsoluteName
<1>6. ASSUME There(v) PROVE x # NoObj
  <2>1. PICK o \in Objs : definedIn[o] # NoObj /\ absName[o] = PathOf(v)
    BY <1>6 DEF There
  <2>2. /\ name[o] = v.name
        /\ v.scope = IF definedIn[o] = Root THEN <<>> ELSE absName[definedIn[o]]
    BY <1>1, <1>3, <2>1, NameSplit
  <2>3. definedIn[o] = c
    <3>1. CASE definedIn[o] = Root
      BY <1>1, <2>2, <3>1 DEF Opened
    <3>2. CASE definedIn[o] # Root
      <4> PICK d : d = definedIn[o]
        OBVIOUS
      <4>1. d \in Objs /\ definedIn[d] # NoObj /\ absName[d] = v.scope
        BY <1>1, <2>1, <2>2, <3>2, ContainerOf
      <4>2. v.scope # <<>>
        BY <1>1, <4>1 DEF CInv, GInv, Named
      <4>3. c \in Objs /\ definedIn[c] # NoObj /\ absName[c] = v.scope
        BY <1>1, <4>2 DEF Opened
      <4> QED
        BY <1>1, <4>1, <4>3, AbsUnique
    <3> QED
      BY <3>1, <3>2
  <2>4. Step(c, v.name) = o
    BY <1>1, <2>1, <2>2, <2>3, StepsTo
  <2> QED
    BY <1>2, <2>1, <2>4, ConstantsAssumption DEF Servants
<1> QED
  BY <1>5, <1>6

\* Nothing that is referred to is gone.
LEMMA ReferencesLive ==
    ASSUME CInv, NothingGone, NEW x \in Servants, NEW t \in refs[x]
    PROVE  t \in Objs \cup {Prim} /\ IsActive(t)
<1> USE DEF CInv, GInv, IInv
<1>1. t \in Objs \cup {Prim}
  BY DEF TypeOK
<1>2. life[t] # "gone"
  BY <1>1 DEF NothingGone, FixedServants, IsActive
<1> QED
  BY <1>1, <1>2 DEF UnresolvedMeansGone, DependencySound

\* So every type has a TypeCode.
LEMMA TypesEnd ==
    ASSUME CInv, NothingGone, NEW t \in Objs \cup {Prim}, IsActive(t)
    PROVE  TypeOutcome(t) = "typecode"
<1> DEFINE S == {x \in Objs \cup {Prim} : IsActive(x)}
<1>1. \A x \in S : Delegate(x) \subseteq S
  BY ReferencesLive DEF Delegate, Servants
<1>2. S \in SUBSET (Objs \cup {Prim}) /\ t \in S
  OBVIOUS
<1> HIDE DEF S
<1>3. TypeChain(t) \subseteq S
  BY <1>1, <1>2 DEF TypeChain
<1>4. \A x \in S : IsActive(x) /\ (kind[x] \in DelegatingKinds => refs[x] # {})
  BY DEF S, CInv, GInv, IInv, FixedServants, Referring, OneRefKinds, DelegatingKinds
<1>5. TypeOutcome(t) # "exception"
  BY <1>3, <1>4 DEF TypeOutcome
<1> QED
  BY <1>5, NeverEndless DEF TypeOutcome

\* What an alias of u goes through is what u goes through.
LEMMA AliasChain ==
    ASSUME CInv, NEW t \in Objs, NEW u \in Objs \cup {Prim}, Delegate(t) = {u}
    PROVE  TypeChain(u) \subseteq TypeChain(t) /\ TypeChain(t) \subseteq {t} \cup TypeChain(u)
<1>1. /\ u \in TypeChain(u) /\ TypeChain(u) \subseteq Objs \cup {Prim}
      /\ \A x \in TypeChain(u) : Delegate(x) \subseteq TypeChain(u)
  BY TypeChainClosed DEF CInv, GInv, IInv
<1>2. /\ t \in TypeChain(t) /\ TypeChain(t) \subseteq Objs \cup {Prim}
      /\ \A x \in TypeChain(t) : Delegate(x) \subseteq TypeChain(t)
  BY TypeChainClosed DEF CInv, GInv, IInv
<1>3. \A S \in SUBSET (Objs \cup {Prim}), y \in Objs \cup {Prim} :
        (Delegate(y) \subseteq S /\ \A x \in S : Delegate(x) \subseteq S)
            => TypeChain(y) \subseteq {y} \cup S
  BY DEF TypeChain
<1>4. TypeChain(t) \subseteq {t} \cup TypeChain(u)
  BY <1>1, <1>3
<1>5. TypeChain(u) \subseteq {u} \cup TypeChain(t)
  BY <1>2, <1>3
<1> QED
  BY <1>2, <1>4, <1>5

\* Only what was opened is closed.
LEMMA EndOfOpener ==
    ASSUME NEW f \in Files, NEW i \in DOMAIN f, f[i].visit = "end"
    PROVE  f[i].kind \in Openers
<1>1. WellNested(f) /\ DOMAIN f = 1..Len(f) /\ Len(f) \in Nat
  BY FileFacts
<1>2. PICK j \in 1..(i - 1) : Opens(f[j]) /\ f[i].kind = f[j].kind
  BY <1>1 DEF WellNested
<1> QED
  BY <1>2 DEF Opens

\* What is there is of the kind, and has the id, of every visit to its name.
LEMMA MirrorAt ==
    ASSUME NEW f \in Files, Mirrored(f), NEW o \in Objs, definedIn[o] # NoObj,
           NEW j \in DOMAIN f, f[j].visit # "end", absName[o] = PathOf(f[j])
    PROVE  kind[o] = f[j].kind /\ id[o] = f[j].id
<1>1. PICK i \in DOMAIN f : MirrorOf(o, f[i])
  BY DEF Mirrored
<1>2. /\ f[i].visit # "end" /\ PathOf(f[i]) = PathOf(f[j])
      /\ kind[o] = f[i].kind /\ id[o] = f[i].id
  BY <1>1 DEF MirrorOf
<1>3. f[i].kind = f[j].kind /\ f[i].id = f[j].id
  BY <1>2, SamePath, Zenon
<1> QED
  BY <1>2, <1>3

\* An alias has the type of its one declaration.
LEMMA MirrorAlias ==
    ASSUME NEW f \in Files, Mirrored(f), NEW o \in Objs, definedIn[o] # NoObj,
           NEW j \in DOMAIN f, f[j].visit = "declare", absName[o] = PathOf(f[j]),
           f[j].kind = "Alias"
    PROVE  MirrorOf(o, f[j])
<1>1. PICK i \in DOMAIN f : MirrorOf(o, f[i])
  BY DEF Mirrored
<1>2. /\ f[i].visit \notin {"typedef", "end"} /\ PathOf(f[i]) = PathOf(f[j])
      /\ f[i].scope = f[j].scope /\ f[i].name = f[j].name /\ f[i].kind = "Alias"
  <2>1. f[i].visit \notin {"typedef", "end"} /\ PathOf(f[i]) = PathOf(f[j])
    BY <1>1 DEF MirrorOf
  <2>2. f[i].visit # "end" /\ f[j].visit # "end"
    BY <2>1
  <2>3. f[i].scope = f[j].scope /\ f[i].name = f[j].name /\ f[i].kind = f[j].kind
    BY <2>1, <2>2, SamePath, Zenon
  <2> QED
    BY <2>1, <2>3
<1>3. f[i].visit = "declare"
  BY <1>2, FileFacts DEF TypedVisit
<1>4. i = j
  <2>1. DeclaredOnce(f)
    BY FileFacts
  <2> QED
    BY <1>2, <1>3, <2>1 DEF DeclaredOnce
<1> QED
  BY <1>1, <1>4

\* What the file gives a constant as its type is a basic type.
LEMMA ConstantsAccepted ==
    ASSUME CInv, NothingGone, NEW f \in Files, Mirrored(f), NEW i \in DOMAIN f,
           f[i].kind = "Constant", OfBasicType(f, i), NEW t, Denoted(t, f[i])
    PROVE  IsBasicType(t)
<1>1. PICK basic \in SUBSET DOMAIN f :
        /\ i \in basic
        /\ \A k \in basic :
            /\ ~ f[k].type.wrapped
            /\ \/ f[k].type.path = <<>>
               \/ \E j \in basic : /\ j < k /\ f[j].visit = "declare" /\ f[j].kind = "Alias"
                                   /\ PathOf(f[j]) = f[k].type.path
  BY DEF OfBasicType
<1> DEFINE T == {k \in basic : \E u : Base(u, f[k]) /\ ~ IsBasicType(u)}
<1>2. DOMAIN f \subseteq Nat
  <2>1. DOMAIN f = 1..Len(f) /\ Len(f) \in Nat
    BY FileFacts
  <2> QED
    BY <2>1
<1>3. T = {}
  <2> SUFFICES ASSUME T # {} PROVE FALSE
    OBVIOUS
  <2>1. PICK k \in T : \A m \in T : k <= m
    <3>1. T \in SUBSET Nat
      BY <1>2
    <3> HIDE DEF T
    <3> QED
      BY <3>1, Least
  <2>2. PICK u : Base(u, f[k]) /\ ~ IsBasicType(u)
    BY <2>1
  <2>3. CASE f[k].type.path = <<>>
    <3>1. u = Prim
      BY <2>2, <2>3 DEF Base
    <3>2. Delegate(Prim) = {} /\ kind[Prim] = "Primitive"
      BY DEF Delegate, CInv, GInv, IInv, FixedServants, DelegatingKinds
    <3>3. TypeChain(Prim) = {Prim}
      BY <3>2 DEF TypeChain
    <3> QED
      BY <2>2, <3>1, <3>2, <3>3 DEF IsBasicType
  <2>4. CASE f[k].type.path # <<>>
    <3>1. PICK j \in basic : /\ j < k /\ f[j].visit = "declare" /\ f[j].kind = "Alias"
                             /\ PathOf(f[j]) = f[k].type.path
      BY <1>1, <2>1, <2>4
    <3>2. u \in Objs /\ definedIn[u] # NoObj /\ absName[u] = PathOf(f[j])
      BY <2>2, <2>4, <3>1 DEF Base
    <3>3. f[j].visit = "declare"
      BY <3>1
    <3>4. MirrorOf(u, f[j])
      BY <3>1, <3>2, <3>3, MirrorAlias
    <3>5. PICK w \in refs[u] : refs[u] = {w} /\ Denoted(w, f[j])
      BY <3>1, <3>4 DEF MirrorOf
    <3>6. Base(w, f[j])
      BY <1>1, <3>1, <3>5 DEF Denoted
    <3>7. IsBasicType(w)
      <4>1. j \in Nat /\ k \in Nat /\ ~ (k <= j)
        BY <1>2, <2>1, <3>1
      <4>2. j \notin T
        BY <2>1, <4>1
      <4> QED
        BY <3>1, <3>6, <4>2
    <3>8. IsActive(u) /\ kind[u] = "Alias"
      BY <3>1, <3>2, <3>4 DEF MirrorOf, CInv, GInv, Placed
    <3>9. w \in Objs \cup {Prim} /\ Delegate(u) = {w}
      BY <3>2, <3>5, <3>8, ReferencesLive DEF Delegate, DelegatingKinds, Servants
    <3>10. TypeChain(w) \subseteq TypeChain(u) /\ TypeChain(u) \subseteq {u} \cup TypeChain(w)
      BY <3>2, <3>9, AliasChain
    <3>11. IsBasicType(u)
      BY <3>7, <3>8, <3>10 DEF IsBasicType
    <3> QED
      BY <2>2, <3>11
  <2> QED
    BY <2>3, <2>4
<1>4. i \in basic /\ Base(t, f[i])
  BY <1>1 DEF Denoted
<1> QED
  BY <1>3, <1>4

\* A setter takes what the file gives it.
LEMMA NothingThrows ==
    ASSUME CInv, NothingGone, NEW f \in Files, Mirrored(f), NEW i \in DOMAIN f,
           ~ NeverLoaded(f, i),
           NEW t \in Objs \cup {Prim}, IsActive(t), Denoted(t, f[i])
    PROVE  ~ Throws(f[i].kind, t)
BY TypesEnd, ConstantsAccepted DEF Throws, Accepted, NeverLoaded

\* All loads are of file f.
OneFile(f) ==
    /\ f \in Files /\ \A i \in DOMAIN f : ~ NeverLoaded(f, i)
    /\ Mirrored(f) /\ InsideThere(f)
    /\ \A l \in Loaders : Loading(loader[l], f)

LEMMA NothingAgain ==
    ASSUME NEW f, OneFile(f), NEW i \in DOMAIN f
    PROVE  f[i].visit # "again"
BY DEF OneFile, NeverLoaded

\* After its step the loader gets through, unless it was doomed; and then nothing
\* was created.
Fares(l, f) ==
    \E M : /\ loader' = [loader EXCEPT ![l] = M]
           /\ Loading(M, f)'
           /\ \/ GetsThrough(M)'
              \/ Doomed(loader[l]) /\ UNCHANGED <<definedIn, absName>>

LEMMA DefinitionsKept ==
    ASSUME CInv, Keeps, NEW v, NEW t
    PROVE  /\ There(v) => There(v)'
           /\ (Denoted(t, v) /\ IsActive(t)) => Denoted(t, v)'
<1>1. \A o \in Objs : definedIn[o] # NoObj => IsActive(o)
  BY DEF CInv, GInv, Placed
<1>2. \A o \in Objs : definedIn[o] # NoObj =>
            definedIn'[o] # NoObj /\ absName'[o] = absName[o]
  BY <1>1 DEF Keeps
<1>3. There(v) => There(v)'
  BY <1>2 DEF There
<1>4. Base(t, v) => Base(t, v)'
  BY <1>2 DEF Base
<1> QED
  BY <1>3, <1>4 DEF Denoted, Keeps

LEMMA MirroredKept ==
    ASSUME CInv, NothingGone, Keeps, NEW f, Mirrored(f),
           \A o \in Objs : definedIn[o] # NoObj =>
                id'[o] = id[o] /\ (kind[o] = "Alias" => refs'[o] = refs[o]),
           \A o \in Objs : (definedIn[o] = NoObj /\ definedIn'[o] # NoObj) =>
                \E i \in DOMAIN f : MirrorOf(o, f[i])'
    PROVE  Mirrored(f)'
<1> SUFFICES ASSUME NEW o \in Objs, definedIn'[o] # NoObj
             PROVE  \E i \in DOMAIN f : MirrorOf(o, f[i])'
  BY DEF Mirrored
<1>1. CASE definedIn[o] # NoObj
  <2>1. PICK i \in DOMAIN f : MirrorOf(o, f[i])
    BY <1>1 DEF Mirrored
  <2>2. PICK v : v = f[i]
    OBVIOUS
  <2>3. IsActive(o)
    BY <1>1 DEF CInv, GInv, Placed
  <2>4. /\ absName'[o] = absName[o] /\ kind'[o] = kind[o] /\ id'[o] = id[o]
        /\ kind[o] = "Alias" => refs'[o] = refs[o]
    BY <1>1, <2>3 DEF Keeps
  <2>5. ASSUME NEW t \in refs[o], Denoted(t, v) PROVE Denoted(t, v)'
    <3>1. IsActive(t)
      BY ReferencesLive DEF Servants
    <3> QED
      BY <2>5, <3>1, DefinitionsKept
  <2>6. MirrorOf(o, v)
    BY <2>1, <2>2
  <2>7. MirrorOf(o, v)'
    BY <2>4, <2>5, <2>6 DEF MirrorOf
  <2> QED
    BY <2>2, <2>7
<1> QED
  BY <1>1

\* Nothing of this changes when no request is sent.
LEMMA NothingSent ==
    ASSUME UNCHANGED vars, NEW f, NEW M
    PROVE  /\ Mirrored(f) => Mirrored(f)'
           /\ InsideThere(f) => InsideThere(f)'
           /\ Loading(M, f) => Loading(M, f)'
           /\ GetsThrough(M) => GetsThrough(M)'
           /\ UNCHANGED <<definedIn, absName>>
<1>1. UNCHANGED <<definedIn, absName, kind, id, refs>>
  BY DEF vars, tree, naming, ids, links
<1>2. \A v, t : Denoted(t, v) <=> Denoted(t, v)'
  BY <1>1 DEF Denoted, Base
<1>3. \A v : There(v) <=> There(v)'
  BY <1>1 DEF There
<1>4. \A v, o : MirrorOf(o, v) => MirrorOf(o, v)'
  BY <1>1, <1>2 DEF MirrorOf
<1>5. Mirrored(f) => Mirrored(f)'
  BY <1>1, <1>4 DEF Mirrored
<1>6. Loading(M, f) => Loading(M, f)'
  BY <1>2, <1>3 DEF Loading
<1>7. GetsThrough(M) => GetsThrough(M)'
  BY <1>3 DEF GetsThrough, Doomed, Overtaken
<1>8. InsideThere(f) => InsideThere(f)'
  BY <1>3 DEF InsideThere
<1> QED
  BY <1>1, <1>5, <1>6, <1>7, <1>8

\* What is past is there.
LEMMA PastLoading ==
    ASSUME NEW f, OneFile(f), NEW L \in Jobs, L.status = "running", L.file = f,
           NEW n \in DOMAIN f, NEW stack,
           \A i \in 1..n : f[i].visit \notin {"typedef", "end"} => There(f[i])'
    PROVE  /\ Loading(Past(L, n, stack), f)'
           /\ ~ Overtaken(f, n + 1)' => GetsThrough(Past(L, n, stack))'
<1> PICK M : M = Past(L, n, stack)
  OBVIOUS
<1>1. n \in Nat /\ Len(f) \in Nat /\ DOMAIN f = 1..Len(f) /\ f \in Files
  <2>1. Len(f) \in Nat /\ DOMAIN f = 1..Len(f) /\ f \in Files
    BY FileFacts DEF OneFile
  <2> QED
    BY <2>1
<1>2. CASE n = Len(f)
  <2>1. M.status = "done"
    BY <1>2 DEF Past, Jobs
  <2> QED
    BY <2>1 DEF Loading, GetsThrough, Doomed
<1>3. CASE n # Len(f)
  <2> PICK w : w = f[n + 1]
    OBVIOUS
  <2>1. /\ M.status = "running" /\ M.file = f /\ M.at = n + 1
        /\ M.phase = FirstPhase(w) /\ M.phase \in {"type", "find", "pop"}
    BY <1>3, FirstPhases DEF Past, Jobs
  <2>2. Visited(M) = w /\ (n + 1) - 1 = n
    BY <1>1, <2>1 DEF Visited
  <2>3. w.visit \in {"declare", "forward", "typedef", "end"}
        /\ (w.visit = "forward" => w.kind \in {"Struct", "Interface"})
        /\ (w.visit = "typedef" => w.kind = "Alias")
    <3>1. n + 1 \in DOMAIN f
      BY <1>1, <1>3
    <3> QED
      BY <1>1, <3>1, NothingAgain, FileFacts DEF TypedVisit
  <2>4. ~ HasType(M)
    BY <2>1, <2>2, <2>3 DEF HasType, FirstPhase, TypedFirst, TypedAtOnce
  <2>5. M.phase # "wrap" /\ M.phase # "make"
    BY <2>1
  <2>6. Loading(M, f)'
    BY <2>1, <2>2, <2>4, <2>5 DEF Loading
  <2>7. ~ Overtaken(f, n + 1)' => GetsThrough(M)'
    BY <2>1, <2>5 DEF GetsThrough, Doomed
  <2> QED
    BY <2>6, <2>7
<1> QED
  BY <1>2, <1>3

\* What the step of a loader adds to what is there: nothing, or what it visits.
Adds(f, L) ==
    \/ UNCHANGED <<definedIn, absName>>
    \/ /\ Visited(L).visit \in {"declare", "forward"} /\ ~ Doomed(L)
       /\ \A j \in DOMAIN f : There(f[j])' => There(f[j]) \/ PathOf(f[j]) = PathOf(Visited(L))

\* A loader that has gone on is overtaken if it was doomed.
LEMMA MovedOvertaken ==
    ASSUME LInv, NEW f \in Files, NEW L \in Jobs, L.status = "running", L.file = f,
           Placing(L), Adds(f, L), Visited(L).visit = "typedef" => ~ There(Visited(L))'
    PROVE  Overtaken(f, L.at + 1)' => Doomed(L)
<1> PICK v : v = Visited(L)
  OBVIOUS
<1>0. L.at \in DOMAIN f /\ L.at \in Nat /\ v = f[L.at]
  BY DEF Placing, Jobs, Visited
<1> SUFFICES ASSUME Overtaken(f, L.at + 1)' PROVE Doomed(L)
  OBVIOUS
<1>1. PICK a \in DOMAIN f, j \in DOMAIN f :
          Typedef(f, a, j) /\ a < L.at + 1 /\ L.at + 1 <= j /\ There(f[j])'
  BY DEF Overtaken
<1>2. a \in Nat /\ j \in Nat
  <2>1. Len(f) \in Nat /\ DOMAIN f = 1..Len(f)
    BY <1>0, FileFacts
  <2> QED
    BY <2>1
<1>3. /\ f[j].visit = "declare" /\ PathOf(f[a]) = PathOf(f[j]) /\ f[a].visit = "typedef"
      /\ \A k \in (a + 1)..(j - 1) : f[k].kind \in {"Struct", "Enum"}
  BY <1>1 DEF Typedef
<1>4. a # L.at
  <2> SUFFICES ASSUME a = L.at PROVE FALSE
    OBVIOUS
  <2>1. ~ There(v)' /\ PathOf(v) = PathOf(f[j])
    BY <1>0, <1>3
  <2> QED
    BY <1>1, <2>1 DEF There
<1>5. a < L.at /\ L.at <= j /\ L.at \in (a + 1)..(j - 1)
  BY <1>0, <1>1, <1>2, <1>4
<1>6. f[j].kind = "Alias" /\ v.kind # "Alias"
  <2>1. TypedVisit(f[a]) /\ f[a].visit # "end" /\ f[j].visit # "end"
    BY <1>0, <1>3, FileFacts
  <2>2. f[a].kind = f[j].kind
    BY <1>0, <1>3, <2>1, SamePath, Zenon
  <2> QED
    BY <1>0, <1>3, <1>5, <2>1, <2>2 DEF TypedVisit
<1>7. There(f[j])
  <2>1. CASE UNCHANGED <<definedIn, absName>>
    BY <1>1, <2>1 DEF There
  <2>2. CASE /\ v.visit \in {"declare", "forward"}
             /\ There(f[j]) \/ PathOf(f[j]) = PathOf(v)
    <3>1. f[L.at].visit # "end" /\ f[j].visit # "end"
      BY <1>0, <1>3, <2>2
    <3>2. PathOf(f[j]) # PathOf(v)
      <4> SUFFICES ASSUME PathOf(f[j]) = PathOf(f[L.at]) PROVE FALSE
        BY <1>0
      <4>1. f[j].kind = f[L.at].kind
        BY <1>0, <3>1, SamePath, Zenon
      <4> QED
        BY <1>0, <1>6, <4>1
    <3> QED
      BY <2>2, <3>2
  <2> QED
    BY <1>1, <2>1, <2>2 DEF Adds
<1> QED
  BY <1>0, <1>1, <1>5, <1>7 DEF Doomed, Overtaken

\* A loader that goes on to the next visit gets through, if it was not doomed.
LEMMA MovedLoading ==
    ASSUME LInv, Keeps, NEW f, OneFile(f), NEW L \in Jobs, L.status = "running",
           Placing(L), Loading(L, f), NEW o, Adds(f, L),
           Visited(L).visit \notin {"typedef", "end"} => There(Visited(L))',
           Visited(L).visit = "typedef" => ~ There(Visited(L))'
    PROVE  Loading(Moved(L, o), f)' /\ (GetsThrough(Moved(L, o))' \/ Doomed(L))
<1> PICK v : v = Visited(L)
  OBVIOUS
<1>1. L.file = f /\ L.at \in DOMAIN f /\ L.at \in Nat /\ v = f[L.at] /\ f \in Files
  BY DEF Loading, Placing, Jobs, Visited, OneFile
<1>2. ASSUME NEW i \in 1..L.at, f[i].visit \notin {"typedef", "end"} PROVE There(f[i])'
  <2>1. CASE i = L.at
    BY <1>1, <1>2, <2>1
  <2>2. CASE i # L.at
    <3>1. i \in 1..(L.at - 1)
      BY <1>1, <2>2
    <3> PICK w : w = f[i]
      OBVIOUS
    <3>2. There(w)
      BY <1>2, <3>1 DEF Loading
    <3> QED
      BY <3>2, DefinitionsKept DEF LInv
  <2> QED
    BY <2>1, <2>2
<1>3. Overtaken(f, L.at + 1)' => Doomed(L)
  BY <1>1, MovedOvertaken
<1>4. /\ Loading(Moved(L, o), f)'
      /\ ~ Overtaken(f, L.at + 1)' => GetsThrough(Moved(L, o))'
  BY <1>1, <1>2, PastLoading DEF Moved
<1> QED
  BY <1>3, <1>4

\* One that has gone past a typedef is not.
LEMMA SkippedOvertaken ==
    ASSUME NEW f \in Files, NEW m \in DOMAIN f, NEW n \in DOMAIN f, Typedef(f, m, n)
    PROVE  ~ Overtaken(f, n + 1)'
<1> SUFFICES ASSUME NEW a \in DOMAIN f, NEW j \in DOMAIN f,
                    Typedef(f, a, j), a < n + 1, n + 1 <= j
             PROVE  FALSE
  BY DEF Overtaken
<1>1. a \in Nat /\ j \in Nat /\ n \in Nat
  <2>1. Len(f) \in Nat /\ DOMAIN f = 1..Len(f)
    BY FileFacts
  <2> QED
    BY <2>1
<1>2. a # n /\ f[n].kind = "Alias"
  <2>1. /\ PathOf(f[m]) = PathOf(f[n]) /\ f[m].visit = "typedef" /\ f[n].visit = "declare"
        /\ f[a].visit = "typedef"
    BY DEF Typedef
  <2>2. f[m].kind = "Alias"
    BY <2>1, FileFacts DEF TypedVisit
  <2>3. f[m].kind = f[n].kind
    BY <2>1, SamePath
  <2> QED
    BY <2>1, <2>2, <2>3
<1>3. n \in (a + 1)..(j - 1)
  BY <1>1, <1>2
<1> QED
  BY <1>2, <1>3 DEF Typedef

\* So does one that leaves a typedef that is there.
LEMMA SkippedLoading ==
    ASSUME LInv, UNCHANGED vars, NEW f, OneFile(f), NEW L \in Jobs, L.status = "running",
           Placing(L), Loading(L, f), Visited(L).visit = "typedef", There(Visited(L))
    PROVE  Loading(Skipped(L), f)' /\ GetsThrough(Skipped(L))'
<1> PICK n : n = LastOf(L)
  OBVIOUS
<1>1. /\ L.file = f /\ L.at \in DOMAIN f /\ L.at \in Nat /\ f \in Files
      /\ f[L.at].visit = "typedef" /\ There(f[L.at])
  BY DEF Loading, Placing, Jobs, Visited, OneFile
<1>2. /\ n \in DOMAIN f /\ Typedef(f, L.at, n) /\ L.at < n
      /\ f[n].kind = "Alias" /\ f[n].visit = "declare"
  BY <1>1, TypedefEnds DEF LastOf
<1>3. There(f[n])
  <2>1. PathOf(f[L.at]) = PathOf(f[n])
    BY <1>2 DEF Typedef
  <2> QED
    BY <1>1, <2>1 DEF There
<1>4. DOMAIN f \subseteq Nat /\ \A i \in 1..n : i \in DOMAIN f
  <2>1. Len(f) \in Nat /\ DOMAIN f = 1..Len(f)
    BY <1>1, FileFacts
  <2> QED
    BY <1>2, <2>1
<1>5. ASSUME NEW i \in 1..n, f[i].visit \notin {"typedef", "end"} PROVE There(f[i])'
  <2>1. There(f[i])
    <3>1. CASE i < L.at
      <4>1. i \in 1..(L.at - 1)
        BY <1>1, <3>1
      <4> QED
        BY <1>5, <4>1 DEF Loading
    <3>2. CASE L.at < i /\ i < n
      BY <1>1, <1>2, <1>3, <1>4, <1>5, <3>2 DEF OneFile, InsideThere
    <3>3. CASE i = n
      BY <1>3, <3>3
    <3>4. i # L.at
      BY <1>1, <1>5
    <3>5. i \in Nat /\ n \in Nat /\ i <= n
      BY <1>2, <1>4
    <3> QED
      BY <1>1, <3>1, <3>2, <3>3, <3>4, <3>5
  <2> PICK w : w = f[i]
    OBVIOUS
  <2> QED
    BY <2>1 DEF There, vars, tree, naming
<1>6. ~ Overtaken(f, n + 1)'
  BY <1>1, <1>2, SkippedOvertaken
<1> QED
  BY <1>1, <1>2, <1>5, <1>6, PastLoading DEF Skipped

LEMMA GoesThrough ==
    ASSUME LInv, CarefulRequest, NEW f, OneFile(f), NEW l \in Loaders, AtWork(l),
           NEW v, v = Current(l), NEW o, NextVisit(l, o), Adds(f, loader[l]),
           v.visit \notin {"typedef", "end"} => There(v)',
           v.visit = "typedef" => ~ There(v)'
    PROVE  Fares(l, f)
<1> PICK L \in Jobs : L = loader[l] /\ Placing(L) /\ L.status = "running"
  BY JobOf
<1> PICK M : M = Moved(L, o)
  OBVIOUS
<1>1. Visited(L) = v
  BY DEF Visited, Current
<1>2. loader' = [loader EXCEPT ![l] = M]
  BY <1>1 DEF NextVisit, GoPast, Moved, Past, StackAfter
<1>3. Loading(L, f) /\ Keeps
  BY AfterRequest DEF OneFile
<1>4. Loading(M, f)' /\ (GetsThrough(M)' \/ Doomed(L))
  <2>1. /\ Visited(L).visit \notin {"typedef", "end"} => There(Visited(L))'
        /\ Visited(L).visit = "typedef" => ~ There(Visited(L))'
    BY <1>1
  <2>2. Adds(f, L)
    OBVIOUS
  <2> QED
    BY <1>3, <2>1, <2>2, MovedLoading
<1>5. Doomed(L) => UNCHANGED <<definedIn, absName>>
  BY DEF Adds
<1> QED
  BY <1>2, <1>4, <1>5 DEF Fares

LEMMA LeavesThrough ==
    ASSUME LInv, UNCHANGED vars, NEW f, OneFile(f), NEW l \in Loaders, AtWork(l),
           NEW v, v = Current(l), v.visit = "typedef", There(v), LeaveTypedef(l)
    PROVE  Fares(l, f)
<1> PICK L \in Jobs : L = loader[l] /\ Placing(L) /\ L.status = "running"
  BY JobOf
<1> PICK M : M = Skipped(L)
  OBVIOUS
<1>1. Visited(L) = v /\ Loading(L, f)
  BY DEF Visited, Current, OneFile
<1>2. loader' = [loader EXCEPT ![l] = M]
  BY DEF LeaveTypedef, GoPast, Skipped, Past, LastOf
<1>3. Loading(M, f)' /\ GetsThrough(M)'
  BY <1>1, SkippedLoading
<1> QED
  BY <1>2, <1>3 DEF Fares

\* A loader that fails was doomed; one that is killed is no failure.
LEMMA FailsDoomed ==
    ASSUME LInv, NEW l \in Loaders, NEW f, AtWork(l), Fails(l), Doomed(loader[l])
    PROVE  Fares(l, f)
<1> PICK L \in Jobs : L = loader[l]
  BY JobOf
<1> PICK M : M = [L EXCEPT !.status = "failed"]
  OBVIOUS
<1>1. loader' = [loader EXCEPT ![l] = M] /\ M.status = "failed"
  BY DEF Fails, Exits, Jobs
<1>2. Loading(M, f)'
  BY <1>1 DEF Loading
<1>3. UNCHANGED <<definedIn, absName>>
  BY DEF Fails, vars, tree, naming
<1> QED
  BY <1>1, <1>2, <1>3 DEF Fares

LEMMA KillFares ==
    ASSUME LInv, NEW f, OneFile(f), NEW l \in Loaders, Kill(l)
    PROVE  Mirrored(f)' /\ Fares(l, f)
<1> PICK L \in Jobs : L = loader[l]
  BY JobOf DEF Kill
<1> PICK M : M = [L EXCEPT !.status = "killed"]
  OBVIOUS
<1>1. loader' = [loader EXCEPT ![l] = M] /\ M.status = "killed"
  BY DEF Kill, Jobs
<1>2. Loading(M, f)' /\ GetsThrough(M)'
  BY <1>1 DEF Loading, GetsThrough, Doomed
<1> QED
  BY <1>1, <1>2, NothingSent DEF Fares, OneFile, Kill

LEMMA PopFares ==
    ASSUME LInv, NEW f, OneFile(f), NEW l \in Loaders, Pop(l)
    PROVE  Mirrored(f)' /\ Fares(l, f)
<1>1. AtWork(l) /\ UNCHANGED vars /\ CarefulRequest /\ NextVisit(l, NoObj)
  BY DEF Pop, In, AtWork, CarefulRequest
<1> PICK L \in Jobs : L = loader[l] /\ Placing(L) /\ L.status = "running" /\ L.phase = "pop"
  BY <1>1, JobOf DEF Pop, In
<1> PICK v : v = Current(l)
  OBVIOUS
<1>2. v.visit = "end" /\ Adds(f, loader[l])
  BY <1>1 DEF Placing, Phases, Visited, Current, Adds, vars, tree, naming
<1> QED
  BY <1>1, <1>2, GoesThrough, NothingSent DEF OneFile

\* What is made in the place of a typedef is made after its lookup.
LEMMA AliasOvertaken ==
    ASSUME NEW f \in Files, NEW n \in DOMAIN f, f[n].visit = "declare",
           f[n].kind = "Alias", There(f[n])
    PROVE  Overtaken(f, n)
<1>1. PICK a \in DOMAIN f : Typedef(f, a, n)
  BY FileFacts DEF TypedefsWhole
<1>2. n \in Nat /\ a < n
  <2>1. Len(f) \in Nat /\ DOMAIN f = 1..Len(f)
    BY FileFacts
  <2> QED
    BY <1>1, <2>1 DEF Typedef
<1> QED
  BY <1>1, <1>2 DEF Overtaken

\* Every type is declared before it is used, so it is there.
LEMMA TypeIsThere ==
    ASSUME LInv, NEW f, OneFile(f), NEW L \in Jobs, L.status = "running",
           Placing(L), Loading(L, f), NEW v, v = Visited(L),
           NEW t, t = TypeNamed(v.type.path)
    PROVE  t \in Objs \cup {Prim} /\ t # NoObj /\ kind[t] \in IDLTypeKinds /\ Base(t, v)
<1>1. L.file = f /\ f \in Files /\ L.at \in DOMAIN f /\ v = f[L.at]
  BY DEF Loading, Placing, OneFile, Visited
<1>2. CASE v.type.path = <<>>
  <2>1. t = Prim /\ kind[Prim] = "Primitive"
    BY <1>2 DEF TypeNamed, LInv, CInv, GInv, IInv, FixedServants
  <2> QED
    BY <1>2, <2>1, ConstantsAssumption DEF Base, IDLTypeKinds, Servants
<1>3. CASE v.type.path # <<>>
  <2>1. PICK j \in 1..(L.at - 1) :
            /\ f[j].visit \notin {"typedef", "end"} /\ PathOf(f[j]) = v.type.path /\ f[j].kind \in IDLTypeKinds
    BY <1>1, <1>3, FileFacts DEF TypesDeclared
  <2>2. j \in DOMAIN f
    <3>1. Len(f) \in Nat /\ DOMAIN f = 1..Len(f)
      BY <1>1, FileFacts
    <3> QED
      BY <1>1, <2>1, <3>1
  <2>3. There(f[j])
    BY <2>1 DEF Loading
  <2>4. PICK o \in Objs : definedIn[o] # NoObj /\ absName[o] = PathOf(f[j])
    BY <2>3 DEF There
  <2>5. kind[o] = f[j].kind
    BY <1>1, <2>1, <2>2, <2>4, MirrorAt DEF OneFile
  <2>6. t = o
    BY <1>3, <2>1, <2>4, LookupAbs DEF TypeNamed, LInv
  <2> QED
    BY <1>3, <2>1, <2>4, <2>5, <2>6, ConstantsAssumption DEF Base, Servants
<1> QED
  BY <1>2, <1>3

LEMMA ResolveTypeFares ==
    ASSUME LInv, NEW f, OneFile(f), NEW l \in Loaders, ResolveType(l)
    PROVE  Mirrored(f)' /\ Fares(l, f)
<1>1. AtWork(l)
  BY DEF ResolveType, In, AtWork
<1> PICK L \in Jobs : L = loader[l] /\ Placing(L) /\ L.status = "running" /\ L.phase = "type"
  BY <1>1, JobOf DEF ResolveType, In
<1> PICK v : v = Visited(L)
  OBVIOUS
<1> PICK t : t = TypeNamed(v.type.path)
  OBVIOUS
<1> PICK then : then = IF v.type.wrapped THEN "wrap" ELSE AfterType(v)
  OBVIOUS
<1>2. Loading(L, f) /\ v = Current(l)
  BY DEF OneFile, Visited, Current
<1>3. t \in Objs \cup {Prim} /\ t # NoObj /\ kind[t] \in IDLTypeKinds /\ Base(t, v)
  BY <1>2, TypeIsThere
<1>a. TypeOutcome(t) = "typecode"
  <2>1. IsActive(t)
    BY <1>3 DEF Base, LInv, CInv, GInv, IInv, Placed, FixedServants
  <2> QED
    BY <1>3, <2>1, TypesEnd DEF LInv
<1> PICK M : M = [L EXCEPT !.resultType = t, !.phase = then]
  OBVIOUS
<1>4. loader' = [loader EXCEPT ![l] = M] /\ UNCHANGED vars
  BY <1>2, <1>3, <1>a DEF ResolveType
<1>5. /\ M.status = "running" /\ M.phase = then /\ M.resultType = t /\ M.file = L.file
      /\ M.at = L.at
  BY DEF Jobs
<1>6. Visited(M) = v
  BY <1>5 DEF Visited
<1>7. then = "wrap" => v.type.wrapped
  BY DEF AfterType
<1>8. HasType(M) => Denoted(t, v)
  <2>1. v.type.wrapped => ~ HasType(M)
    BY <1>5 DEF HasType
  <2> QED
    BY <1>3, <2>1 DEF Denoted
<1>9. Loading(M, f)
  BY <1>2, <1>5, <1>6, <1>7, <1>8 DEF Loading
<1>10. Doomed(M) => Doomed(L)
  <2>1. then = "make" => v.kind = "Alias" /\ v.visit = "declare"
    <3>1. "type" \in Phases(v) /\ TypedVisit(v)
      BY ContainerFacts DEF Placing, LInv
    <3> QED
      BY <3>1 DEF AfterType, Phases, TypedVisit
  <2>2. then = "make" /\ There(v) => Overtaken(L.file, L.at)
    BY <2>1, AliasOvertaken DEF Placing, Jobs, Visited
  <2> QED
    BY <1>5, <1>6, <2>2 DEF Doomed
<1>11. GetsThrough(M) \/ Doomed(L)
  BY <1>5, <1>10 DEF GetsThrough
<1> QED
  BY <1>4, <1>9, <1>11, NothingSent DEF Fares, OneFile

LEMMA WrapTypeFares ==
    ASSUME LInv, NEW f, OneFile(f), NEW l \in Loaders, WrapType(l)
    PROVE  Mirrored(f)' /\ Fares(l, f)
<1>1. AtWork(l) /\ CarefulRequest
  BY WrapTypeSteps DEF WrapType, In, AtWork
<1> PICK o \in Objs : o = New /\ life[o] = "unborn"
  BY NewIsUnborn DEF WrapType
<1> PICK L \in Jobs : L = loader[l] /\ Placing(L) /\ L.status = "running" /\ L.phase = "wrap"
  BY <1>1, JobOf DEF WrapType, In
<1> PICK v : v = Visited(L)
  OBVIOUS
<1> PICK M : M = [L EXCEPT !.resultType = o, !.phase = AfterType(v)]
  OBVIOUS
<1>2. v = Current(l) /\ Loading(L, f) /\ Keeps /\ CInv /\ NothingGone
  BY <1>1, AfterRequest DEF OneFile, Visited, Current, LInv
<1>3. loader' = [loader EXCEPT ![l] = M]
  BY <1>2 DEF WrapType
<1>4. /\ UNCHANGED <<definedIn, absName, id>>
      /\ kind' = [kind EXCEPT ![o] = "Sequence"]
      /\ \E R : refs' = [refs EXCEPT ![o] = R]
  BY DEF WrapType, CreateAnonymous, naming, ids, StoreReferences
<1>5. definedIn[o] = NoObj /\ kind'[o] = "Sequence"
  BY <1>2, <1>4, Unborn DEF CInv, GInv, IInv, TypeOK, Servants
<1>6. Mirrored(f)'
  <2>1. \A x \in Objs : definedIn[x] # NoObj => refs'[x] = refs[x]
    BY <1>2, <1>4, <1>5 DEF CInv, GInv, IInv, TypeOK, Servants
  <2> QED
    BY <1>2, <1>4, <2>1, MirroredKept DEF OneFile
<1>7. /\ M.status = "running" /\ M.phase = AfterType(v) /\ M.resultType = o
      /\ M.file = L.file /\ M.at = L.at
  BY DEF Jobs
<1>8. Visited(M) = v /\ M.phase # "wrap"
  BY <1>7 DEF Visited, AfterType
<1>9. Denoted(o, v)'
  BY <1>2, <1>5 DEF Denoted, Loading
<1>10. ASSUME NEW i \in 1..(L.at - 1), f[i].visit \notin {"typedef", "end"}
       PROVE  There(f[i])'
  <2> PICK w : w = f[i]
    OBVIOUS
  <2>1. There(w)
    BY <1>2, <1>10 DEF Loading
  <2> QED
    BY <1>2, <2>1, DefinitionsKept
<1>11. Loading(M, f)'
  BY <1>2, <1>7, <1>8, <1>9, <1>10 DEF Loading
<1>12. Doomed(M)' => Doomed(L)
  <2>1. AfterType(v) = "make" => v.kind = "Alias" /\ v.visit = "declare"
    <3>1. "wrap" \in Phases(v) /\ TypedVisit(v)
      BY ContainerFacts DEF Placing, LInv
    <3> QED
      BY <3>1 DEF AfterType, Phases, TypedVisit
  <2>2. AfterType(v) = "make" /\ There(v) => Overtaken(L.file, L.at)
    BY <2>1, AliasOvertaken DEF Placing, Jobs, Visited
  <2>3. /\ There(v)' => There(v)
        /\ Overtaken(L.file, L.at)' => Overtaken(L.file, L.at)
    BY <1>4 DEF There, Overtaken
  <2> QED
    BY <1>7, <1>8, <2>2, <2>3 DEF Doomed
<1>13. GetsThrough(M)' \/ Doomed(L)
  BY <1>7, <1>12 DEF GetsThrough
<1> QED
  BY <1>3, <1>4, <1>6, <1>11, <1>13 DEF Fares

LEMMA FindFares ==
    ASSUME LInv, NEW f, OneFile(f), NEW l \in Loaders, Find(l)
    PROVE  Mirrored(f)' /\ Fares(l, f)
<1>1. AtWork(l) /\ UNCHANGED vars /\ CarefulRequest
  BY DEF Find, In, AtWork, CarefulRequest
<1> PICK L \in Jobs : L = loader[l] /\ Placing(L) /\ L.status = "running" /\ L.phase = "find"
  BY <1>1, JobOf DEF Find, In
<1> PICK v : v = Visited(L)
  OBVIOUS
<1> PICK x : x = Lookup(Last(L.stack), <<v.name>>)
  OBVIOUS
<1>2. v = Current(l) /\ Container(l) = Last(L.stack) /\ Loading(L, f) /\ Keeps
  BY <1>1, AfterRequest DEF OneFile, Visited, Current, Container
<1>3. /\ f \in Files /\ L.at \in DOMAIN f /\ v = f[L.at] /\ L.file = f /\ "find" \in Phases(v)
  BY <1>2 DEF Loading, Placing, OneFile, Visited
<1>4. v.visit \in {"declare", "forward", "typedef"} /\ Adds(f, loader[l])
  <2>1. v.visit # "again"
    BY <1>3, NothingAgain
  <2> QED
    BY <1>1, <1>3, <2>1, FileFacts DEF TypedVisit, Phases, Adds, vars, tree, naming
<1>5. /\ x # NoObj => /\ x \in Objs /\ definedIn[x] # NoObj /\ absName[x] = PathOf(v)
      /\ x = NoObj => ~ There(v)
  BY <1>4, FindsThere
<1>6. x # NoObj => kind[x] = v.kind /\ There(v)
  BY <1>3, <1>4, <1>5, MirrorAt DEF OneFile, There
<1>7. CASE x = NoObj /\ v.visit # "typedef" /\ GoOn(l, "make")
  <2> PICK p : p = "make"
    OBVIOUS
  <2> PICK M : M = [L EXCEPT !.phase = p]
    OBVIOUS
  <2>1. loader' = [loader EXCEPT ![l] = M]
    BY <1>7 DEF GoOn
  <2>2. /\ M.status = "running" /\ M.phase = p /\ M.resultType = L.resultType
        /\ M.file = L.file /\ M.at = L.at
    BY DEF Jobs
  <2>3. Visited(M) = v
    BY <2>2 DEF Visited
  <2>4. HasType(M) => HasType(L)
    <3>1. v.kind \in TypedAtOnce => v.kind \in TypedFirst
      BY <1>3, <1>4, <1>7, FileFacts DEF TypedAtOnce, TypedFirst, Phases, TypedVisit
    <3> QED
      BY <2>2, <2>3, <3>1 DEF HasType
  <2>5. Loading(M, f)
    BY <1>2, <2>2, <2>3, <2>4 DEF Loading
  <2>6. GetsThrough(M) \/ Doomed(L)
    BY <1>5, <1>7, <2>2, <2>3 DEF GetsThrough, Doomed
  <2> QED
    BY <1>1, <2>1, <2>5, <2>6, NothingSent DEF Fares, OneFile
<1>8. CASE x # NoObj /\ v.visit # "typedef" /\ NextVisit(l, x)
  <2>1. There(v)'
    BY <1>2, <1>6, <1>8, DefinitionsKept DEF LInv
  <2> QED
    BY <1>1, <1>2, <1>4, <1>8, <2>1, GoesThrough, NothingSent DEF OneFile
<1>9. CASE /\ x # NoObj /\ v.visit \notin LeftAlone
           /\ loader' = [loader EXCEPT ![l].found = x, ![l].phase = "id"]
  <2> PICK M : M = [L EXCEPT !.found = x, !.phase = "id"]
    OBVIOUS
  <2>1. loader' = [loader EXCEPT ![l] = M]
    BY <1>9
  <2>2. /\ M.status = "running" /\ M.phase = "id" /\ M.resultType = L.resultType
        /\ M.file = L.file /\ M.at = L.at
    BY DEF Jobs
  <2>3. Visited(M) = v
    BY <2>2 DEF Visited
  <2>4. HasType(M) => HasType(L)
    <3>1. v.kind \in TypedAtOnce => v.kind \in TypedFirst
      BY <1>3, <1>4, <1>9, FileFacts DEF TypedAtOnce, TypedFirst, Phases, TypedVisit, LeftAlone
    <3> QED
      BY <2>2, <2>3, <3>1 DEF HasType
  <2>5. Loading(M, f)
    BY <1>2, <2>2, <2>3, <2>4 DEF Loading
  <2>6. GetsThrough(M) \/ Doomed(L)
    BY <2>2 DEF GetsThrough, Doomed
  <2> QED
    BY <1>1, <2>1, <2>5, <2>6, NothingSent DEF Fares, OneFile
<1>10. x # NoObj => Expected(v, x)
  BY <1>6 DEF Expected
<1>11. CASE x = NoObj /\ v.visit = "typedef" /\ NextVisit(l, x)
  <2>1. ~ There(v)'
    BY <1>1, <1>5, <1>11 DEF There, vars, tree, naming
  <2> QED
    BY <1>1, <1>2, <1>4, <1>11, <2>1, GoesThrough, NothingSent DEF OneFile
<1>12. CASE x # NoObj /\ v.visit = "typedef" /\ LeaveTypedef(l)
  BY <1>1, <1>2, <1>6, <1>12, LeavesThrough, NothingSent DEF OneFile
<1> QED
  BY <1>2, <1>4, <1>7, <1>8, <1>9, <1>10, <1>11, <1>12 DEF Find, LeftAlone

\* The server refuses to create only what is already there.
LEMMA RefusedIsThere ==
    ASSUME LInv, NEW f, OneFile(f), NEW l \in Loaders, In(l, "make"), MakeRefused(l),
           NEW v, v = Current(l)
    PROVE  There(v)
<1> PICK L \in Jobs : L = loader[l] /\ Placing(L) /\ L.status = "running" /\ L.phase = "make"
  BY JobOf DEF In, AtWork
<1> PICK c : c = Container(l)
  OBVIOUS
<1> USE DEF LInv, CInv, GInv, IInv
<1>1. Visited(L) = v /\ Last(L.stack) = c /\ Loading(L, f)
  BY DEF Visited, Current, Container, OneFile
<1>2. /\ f \in Files /\ L.at \in DOMAIN f /\ v = f[L.at] /\ DeclaredOnce(f)
      /\ ~ NeverLoaded(f, L.at)
  BY <1>1, FileFacts DEF Loading, Placing, OneFile, Visited
<1>3. /\ TypedVisit(v) /\ v.visit # "end" /\ c \in Objs \cup {Root} /\ c \in Servants
      /\ c # NoObj
      /\ v.kind \in TypedAtOnce => L.resultType # NoObj
  BY MakeFacts
<1>4. Opened(L.file, c, v.scope)
  BY <1>1, ContainerFacts
<1>5. ASSUME NEW o \in Objs, definedIn[o] # NoObj, NEW i \in DOMAIN f,
             MirrorOf(o, f[i]), PathOf(f[i]) = PathOf(v)
      PROVE  There(v)
  BY <1>5 DEF MirrorOf, There
<1>6. CASE ~ NameFree(c, v.name)
  <2>1. PICK x \in contents[c] : CaseClass[name[x]] = CaseClass[v.name]
    BY <1>6 DEF NameFree
  <2>2. x \in Objs /\ definedIn[x] = c /\ definedIn[x] # NoObj
    BY <1>3, <2>1 DEF TypeOK, ContainmentSound
  <2>3. PICK i \in DOMAIN f : MirrorOf(x, f[i])
    BY <2>2 DEF OneFile, Mirrored
  <2>4. /\ f[i].scope \in Seq(Names) /\ f[i].name \in Names /\ f[i].visit # "end"
        /\ absName[x] = Append(f[i].scope, f[i].name)
    BY <1>2, <2>3, FileFacts DEF MirrorOf, TypedVisit, PathOf
  <2>5. /\ name[x] = f[i].name
        /\ f[i].scope = IF c = Root THEN <<>> ELSE absName[c]
    BY <2>2, <2>4, NameSplit
  <2>6. v.scope = IF c = Root THEN <<>> ELSE absName[c]
    BY <1>4, ConstantsAssumption DEF Opened
  <2>7. PathOf(f[i]) = PathOf(v)
    <3>1. f[i].scope = v.scope /\ CaseClass[f[i].name] = CaseClass[v.name]
      BY <2>1, <2>5, <2>6
    <3> QED
      BY <1>2, <1>3, <2>4, <3>1 DEF DeclaredOnce
  <2> QED
    BY <1>5, <2>2, <2>3, <2>7
<1>7. CASE idmap[v.id] # NoObj
  <2> PICK x : x = idmap[v.id]
    OBVIOUS
  <2>1. v.id \in Ids
    BY <1>3 DEF TypedVisit
  <2>2. x \in Objs /\ id[x] = v.id
    BY <1>7, <2>1 DEF TypeOK, IdmapSound
  <2>3. definedIn[x] # NoObj
    BY <2>1, <2>2, ConstantsAssumption DEF Registered
  <2>4. PICK i \in DOMAIN f : MirrorOf(x, f[i])
    BY <2>2, <2>3 DEF OneFile, Mirrored
  <2>5. f[i].id = v.id /\ f[i].visit # "end"
    BY <2>2, <2>4 DEF MirrorOf
  <2>6. PathOf(f[i]) = PathOf(v)
    BY <1>2, <1>3, <2>5 DEF DeclaredOnce
  <2> QED
    BY <1>5, <2>2, <2>3, <2>4, <2>6
<1>8. ASSUME NEW t \in FirstRefs(l) PROVE ~ Throws(v.kind, t)
  <2>1. v.kind \in TypedAtOnce /\ t = L.resultType
    BY <1>8 DEF FirstRefs
  <2>2. t # NoObj /\ IsActive(t) /\ t \in Objs \cup {Prim}
    BY <1>3, <2>1 DEF Placing, Jobs
  <2>3. Denoted(t, v)
    BY <1>1, <2>1 DEF Loading, HasType
  <2> QED
    BY <1>2, <2>2, <2>3, NothingThrows DEF OneFile
<1> QED
  BY <1>6, <1>7, <1>8 DEF MakeRefused

\* What is there has its name taken.
LEMMA ThereTaken ==
    ASSUME LInv, NEW l \in Loaders, In(l, "make"), NEW v, v = Current(l), There(v)
    PROVE  ~ NameFree(Container(l), v.name)
<1> PICK L \in Jobs : L = loader[l] /\ Placing(L) /\ L.status = "running" /\ L.phase = "make"
  BY JobOf DEF In, AtWork
<1> PICK c : c = Container(l)
  OBVIOUS
<1>1. Visited(L) = v /\ Last(L.stack) = c
  BY DEF Visited, Current, Container
<1>2. v.visit # "end" /\ c \in Servants /\ c \in Objs \cup {Root}
  BY MakeFacts
<1> PICK x : x = Lookup(c, <<v.name>>)
  OBVIOUS
<1>3. x # NoObj
  BY <1>1, <1>2, FindsThere
<1>4. x = Step(c, v.name)
  BY LookupOne
<1>5. x \in contents[c] /\ name[x] = v.name
  BY <1>2, <1>3, <1>4 DEF Step, Child
<1> QED
  BY <1>5 DEF NameFree

LEMMA MakeFares ==
    ASSUME LInv, NEW f, OneFile(f), NEW l \in Loaders, Make(l)
    PROVE  Mirrored(f)' /\ Fares(l, f)
<1>1. AtWork(l) /\ In(l, "make") /\ CarefulRequest
  BY MakeSteps DEF Make, In, AtWork
<1> PICK L \in Jobs : L = loader[l] /\ Placing(L) /\ L.status = "running" /\ L.phase = "make"
  BY <1>1, JobOf DEF In
<1> PICK v : v = Current(l)
  OBVIOUS
<1> PICK c : c = Container(l)
  OBVIOUS
<1>2. Visited(L) = v /\ Loading(L, f) /\ Keeps /\ CInv /\ NothingGone
  BY <1>1, AfterRequest DEF Visited, Current, OneFile, LInv
<1>3. CASE MakeRefused(l) /\ Fails(l)
  <2>1. There(v)
    BY <1>1, <1>3, RefusedIsThere
  <2>2. Doomed(loader[l])
    BY <1>2, <2>1 DEF Doomed
  <2> QED
    BY <1>1, <1>3, <2>2, FailsDoomed, NothingSent DEF Fails, OneFile
<1>4. ASSUME SomeNew, CreateContained(c, New, v.kind, v.id, v.name),
             refs'[New] = FirstRefs(l), NextVisit(l, New)
      PROVE  Mirrored(f)' /\ Fares(l, f)
  <2>1. PICK o \in Objs :
            /\ o = New /\ life[o] = "unborn"
            /\ kind'[o] = v.kind /\ definedIn'[o] = c
            /\ absName'[o] = PathOf(v) /\ id'[o] = v.id
            /\ \A x \in Objs \ {o} :
                id'[x] = id[x] /\ refs'[x] = refs[x] /\ definedIn'[x] = definedIn[x]
    BY <1>1, <1>4, Made
  <2>2. c # NoObj /\ v.visit \in {"declare", "forward"}
        /\ (v.kind \in TypedAtOnce => L.resultType # NoObj)
    BY <1>1, MakeFacts
  <2>3. There(v)'
    BY <2>1, <2>2 DEF There
  <2>0. L.at \in DOMAIN f /\ v = f[L.at] /\ L.file = f /\ DOMAIN f \subseteq Nat
    <3>1. L.at \in DOMAIN f /\ v = f[L.at] /\ L.file = f
      BY <1>2 DEF Placing, Loading, Visited
    <3>2. Len(f) \in Nat /\ DOMAIN f = 1..Len(f)
      BY FileFacts DEF OneFile
    <3> QED
      BY <3>1, <3>2
  <2>a. ~ There(v)
    <3>1. NameFree(c, v.name)
      BY <1>4 DEF CreateContained, CreateRequest
    <3> QED
      BY <1>1, <3>1, ThereTaken
  <2>b. ~ Doomed(L)
    <3> SUFFICES ASSUME Overtaken(f, L.at) PROVE FALSE
      BY <1>2, <2>0, <2>a DEF Doomed
    <3>1. PICK a \in DOMAIN f, j \in DOMAIN f :
                Typedef(f, a, j) /\ a < L.at /\ L.at <= j /\ There(f[j])
      BY DEF Overtaken
    <3>2. CASE L.at = j
      BY <2>0, <2>a, <3>1, <3>2
    <3>3. CASE L.at # j
      <4>1. L.at < j
        BY <2>0, <3>1, <3>3
      <4>2. There(f[L.at])
        BY <2>0, <2>2, <3>1, <4>1 DEF OneFile, InsideThere
      <4> QED
        BY <2>0, <2>a, <4>2
    <3> QED
      BY <3>2, <3>3
  <2>c. Adds(f, L)
    <3>1. v.visit \in {"declare", "forward"}
      BY <1>1, MakeFacts
    <3>2. ASSUME NEW j \in DOMAIN f, There(f[j])'
          PROVE  There(f[j]) \/ PathOf(f[j]) = PathOf(v)
      <4>1. PICK x \in Objs : definedIn'[x] # NoObj /\ absName'[x] = PathOf(f[j])
        BY <3>2 DEF There
      <4>2. CASE x = o
        BY <2>1, <4>1, <4>2
      <4>3. CASE x # o
        <5>1. definedIn[x] # NoObj
          BY <2>1, <4>1, <4>3
        <5>2. absName'[x] = absName[x]
          BY <1>2, <5>1 DEF Keeps, CInv, GInv, Placed
        <5> QED
          BY <4>1, <5>1, <5>2 DEF There
      <4> QED
        BY <4>2, <4>3
    <3> QED
      BY <1>2, <2>b, <3>1, <3>2 DEF Adds
  <2>4. definedIn[o] = NoObj
    BY <1>2, <2>1, Unborn DEF CInv
  <2>5. MirrorOf(o, v)'
    <3>1. ASSUME v.kind = "Alias"
          PROVE  \E t \in refs'[o] : refs'[o] = {t} /\ Denoted(t, v)'
      <4>1. refs'[o] = {L.resultType}
        BY <1>4, <2>1, <3>1 DEF FirstRefs, TypedAtOnce
      <4>2. IsActive(L.resultType) /\ Denoted(L.resultType, v)
        BY <1>2, <2>2, <3>1 DEF Placing, Loading, HasType, TypedAtOnce
      <4> PICK t : t = L.resultType
        OBVIOUS
      <4>3. Denoted(t, v)'
        BY <1>2, <4>2, DefinitionsKept
      <4> QED
        BY <4>1, <4>3
    <3> QED
      BY <2>1, <2>2, <3>1 DEF MirrorOf
  <2>6. L.at \in DOMAIN f /\ v = f[L.at]
    BY <1>2 DEF Placing, Loading, Visited
  <2>7. Mirrored(f)'
    <3>1. \A x \in Objs : definedIn[x] # NoObj =>
                id'[x] = id[x] /\ (kind[x] = "Alias" => refs'[x] = refs[x])
      BY <2>1, <2>4
    <3>2. ASSUME NEW x \in Objs, definedIn[x] = NoObj, definedIn'[x] # NoObj
          PROVE  \E i \in DOMAIN f : MirrorOf(x, f[i])'
      <4>1. x = o
        BY <2>1, <3>2
      <4> QED
        BY <2>5, <2>6, <4>1
    <3> QED
      BY <1>2, <3>1, <3>2, MirroredKept DEF OneFile
  <2>8. Fares(l, f)
    <3>1. v.visit \in {"declare", "forward"}
      BY <1>1, MakeFacts
    <3> QED
      BY <1>1, <1>4, <2>3, <2>c, <3>1, GoesThrough
  <2> QED
    BY <2>7, <2>8
<1>5. ASSUME NEW site \in {"initRemoveId", "typeLoop"},
             CreateContainedDies(c, v.kind, v.id, v.name, site),
             site = "typeLoop" => \E t \in FirstRefs(l) : Loops(v.kind, t)
      PROVE  FALSE
  BY <1>1, <1>5, MakeFacts
<1> QED
  BY <1>3, <1>4, <1>5 DEF Make

\* What was found has its kind and its id.
LEMMA FoundIsMirror ==
    ASSUME LInv, NEW f, OneFile(f), NEW L \in Jobs, L.status = "running", Placing(L),
           Loading(L, f), Visited(L).visit # "end", L.phase \in {"id", "refs"},
           NEW o, o = L.found, NEW v, v = Visited(L)
    PROVE  o \in Objs /\ id[o] = v.id /\ There(v) /\ IsActive(o)
<1>1. Stands(o, v, Last(L.stack))
  BY DEF Placing
<1>2. /\ o \in Objs /\ definedIn[o] # NoObj /\ absName[o] = PathOf(v)
      /\ kind[o] = v.kind
  BY <1>1, StandsThere DEF LInv
<1>3. f \in Files /\ L.at \in DOMAIN f /\ v = f[L.at]
  BY DEF Loading, Placing, OneFile, Visited
<1>4. id[o] = v.id
  BY <1>2, <1>3, MirrorAt DEF OneFile
<1> QED
  BY <1>2, <1>4 DEF There, LInv, CInv, GInv, Placed

LEMMA UpdateIdFares ==
    ASSUME LInv, NEW f, OneFile(f), NEW l \in Loaders, UpdateId(l)
    PROVE  Mirrored(f)' /\ Fares(l, f)
<1>1. AtWork(l)
  BY DEF UpdateId, In, AtWork
<1> PICK L \in Jobs : L = loader[l] /\ Placing(L) /\ L.status = "running" /\ L.phase = "id"
  BY <1>1, JobOf DEF UpdateId, In
<1> PICK v : v = Current(l)
  OBVIOUS
<1> PICK o : o = L.found
  OBVIOUS
<1>2. Visited(L) = v /\ Loading(L, f) /\ v.visit # "end"
  BY DEF Visited, Current, OneFile, Placing, Phases
<1>3. o \in Objs /\ id[o] = v.id /\ There(v)
  BY <1>2, FoundIsMirror
<1>4. /\ UNCHANGED vars
      /\ IF v.kind \in TypedAtOnce THEN GoOn(l, "refs") ELSE NextVisit(l, o)
  BY <1>3 DEF UpdateId, SetId, SetIdDies
<1>5. CarefulRequest /\ Adds(f, loader[l])
  BY <1>4 DEF CarefulRequest, Adds, vars, tree, naming
<1>9. v.visit # "typedef"
  BY <1>2 DEF Placing, Phases
<1>6. Mirrored(f)' /\ Keeps /\ CInv
  BY <1>4, <1>5, NothingSent, AfterRequest DEF OneFile, LInv
<1>7. CASE v.kind \in TypedAtOnce
  <2> PICK M : M = [L EXCEPT !.phase = "refs"]
    OBVIOUS
  <2>1. loader' = [loader EXCEPT ![l] = M]
    BY <1>4, <1>7 DEF GoOn
  <2>2. /\ M.status = "running" /\ M.phase = "refs" /\ M.resultType = L.resultType
        /\ M.file = L.file /\ M.at = L.at
    BY DEF Jobs
  <2>3. Visited(M) = v
    BY <1>2, <2>2 DEF Visited
  <2>4. Loading(M, f)
    BY <1>2, <1>7, <2>2, <2>3 DEF Loading, HasType
  <2>5. GetsThrough(M) \/ Doomed(L)
    BY <2>2 DEF GetsThrough, Doomed
  <2> QED
    BY <1>4, <1>6, <2>1, <2>4, <2>5, NothingSent DEF Fares
<1>8. CASE v.kind \notin TypedAtOnce
  <2>1. There(v)'
    BY <1>3, <1>6, DefinitionsKept
  <2> QED
    BY <1>1, <1>4, <1>5, <1>6, <1>8, <1>9, <2>1, GoesThrough
<1> QED
  BY <1>7, <1>8

LEMMA UpdateRefsFares ==
    ASSUME LInv, NEW f, OneFile(f), NEW l \in Loaders, UpdateRefs(l)
    PROVE  Mirrored(f)' /\ Fares(l, f)
<1>1. AtWork(l) /\ CarefulRequest
  BY UpdateRefsSteps DEF UpdateRefs, In, AtWork
<1> PICK L \in Jobs : L = loader[l] /\ Placing(L) /\ L.status = "running" /\ L.phase = "refs"
  BY <1>1, JobOf DEF UpdateRefs, In
<1> PICK v : v = Current(l)
  OBVIOUS
<1> PICK o : o = UpdateTarget(l)
  OBVIOUS
<1> PICK t : t = L.resultType
  OBVIOUS
<1>2. /\ Visited(L) = v /\ Last(L.stack) = Container(l) /\ Loading(L, f)
      /\ Keeps /\ CInv /\ NothingGone
  BY <1>1, AfterRequest DEF Visited, Current, Container, OneFile, LInv
<1>3. t \in Objs \cup {Prim} /\ IsActive(t) /\ Denoted(t, v)
  <2>1. t # NoObj /\ t \in Objs \cup {Prim, NoObj}
    BY DEF Placing, KnowsType, Jobs
  <2> QED
    BY <1>2, <2>1 DEF Placing, Loading, HasType
<1>4. /\ f \in Files /\ L.at \in DOMAIN f /\ v = f[L.at] /\ TypedVisit(v)
      /\ "refs" \in Phases(v) /\ ~ NeverLoaded(f, L.at)
  BY <1>2, FileFacts DEF Loading, Placing, OneFile, Visited
<1>5. o \in Objs /\ kind[o] = v.kind /\ kind[o] # "Alias"
  <2>1. CASE v.visit = "end"
    <3>1. o \in Objs /\ kind[o] = v.kind
      BY <1>2, <2>1, ContainerHolds DEF UpdateTarget
    <3>2. v.kind \in TypedAtEnd
      BY <1>4, <2>1 DEF Phases
    <3> QED
      BY <3>1, <3>2 DEF TypedAtEnd
  <2>2. CASE v.visit # "end"
    <3>1. o = L.found
      BY <2>2 DEF UpdateTarget
    <3>2. o \in Objs /\ kind[o] = v.kind
      BY <1>2, <2>2, <3>1 DEF Placing, Stands
    <3>3. v.kind \in TypedFirst
      BY <1>4, <2>2 DEF Phases, TypedVisit, TypedFirst
    <3> QED
      BY <3>2, <3>3 DEF TypedFirst
  <2> QED
    BY <2>1, <2>2
<1>6. ~ Throws(kind[o], t) /\ ~ Loops(kind[o], t)
  BY <1>2, <1>3, <1>4, <1>5, NothingThrows, NothingLoops DEF OneFile
<1>7. SetReferences(o) /\ NextVisit(l, o)
  BY <1>6 DEF UpdateRefs
<1>8. /\ UNCHANGED <<definedIn, absName, kind, id>>
      /\ \E R : refs' = [refs EXCEPT ![o] = R]
  BY <1>7 DEF SetReferences, StoreReferences, tree, naming, ids
<1>9. Mirrored(f)'
  <2>1. \A x \in Objs : kind[x] = "Alias" => refs'[x] = refs[x]
    BY <1>2, <1>5, <1>8 DEF CInv, GInv, IInv, TypeOK, Servants
  <2> QED
    BY <1>2, <1>8, <2>1, MirroredKept DEF OneFile
<1>10. v.visit # "end" => There(v)'
  <2>1. v.visit # "end" => There(v)
    BY <1>2, FoundIsMirror
  <2> QED
    BY <1>2, <2>1, DefinitionsKept
<1>11. v.visit # "typedef" /\ Adds(f, loader[l])
  BY <1>4, <1>8 DEF Phases, Adds
<1> QED
  BY <1>1, <1>7, <1>9, <1>10, <1>11, GoesThrough

LEMMA StepFares ==
    ASSUME LInv, NEW f, OneFile(f), NEW l \in Loaders, LoaderStep(l)
    PROVE  Mirrored(f)' /\ Fares(l, f)
BY ResolveTypeFares, WrapTypeFares, FindFares, MakeFares, UpdateIdFares, UpdateRefsFares,
   PopFares, KillFares DEF LoaderStep

\* Only create_xxx() puts something in a container.
LEMMA OnlyMakeDefines ==
    ASSUME LInv, NEW l \in Loaders, LoaderStep(l)
    PROVE  UNCHANGED <<definedIn, absName>> \/ (Make(l) /\ ~ UNCHANGED vars)
<1>1. UNCHANGED vars => UNCHANGED <<definedIn, absName>>
  BY DEF vars, tree, naming
<1>2. CASE ResolveType(l) \/ Find(l) \/ Pop(l) \/ Kill(l)
  BY <1>1, <1>2 DEF ResolveType, Find, Pop, Kill, Fails, Dies, tree, naming
<1>3. CASE WrapType(l)
  BY <1>3 DEF WrapType, CreateAnonymous, naming
<1>4. CASE UpdateId(l)
  BY <1>1, <1>4 DEF UpdateId, Fails, SetId, SetIdDies, Dies, tree, naming
<1>5. CASE UpdateRefs(l)
  BY <1>1, <1>5 DEF UpdateRefs, Fails, SetReferences, Dies, tree, naming
<1>6. CASE Make(l)
  BY <1>1, <1>6
<1> QED
  BY <1>2, <1>3, <1>4, <1>5, <1>6 DEF LoaderStep

\* What is declared inside a typedef is made before the typedef.
LEMMA InsideKept ==
    ASSUME LInv, NEW f, OneFile(f), NEW l \in Loaders, LoaderStep(l)
    PROVE  InsideThere(f)'
<1>1. CASE UNCHANGED <<definedIn, absName>>
  BY <1>1 DEF OneFile, InsideThere, There
<1>2. CASE Make(l) /\ ~ UNCHANGED vars
  <2>1. AtWork(l) /\ In(l, "make") /\ CarefulRequest
    BY <1>2, MakeSteps DEF Make, In, AtWork
  <2> PICK L \in Jobs : L = loader[l] /\ Placing(L) /\ L.status = "running" /\ L.phase = "make"
    BY <2>1, JobOf DEF In
  <2> PICK v : v = Current(l)
    OBVIOUS
  <2> PICK c : c = Container(l)
    OBVIOUS
  <2>2. Visited(L) = v /\ Loading(L, f) /\ Keeps /\ CInv
    BY <2>1, AfterRequest DEF Visited, Current, OneFile, LInv
  <2>3. SomeNew /\ CreateContained(c, New, v.kind, v.id, v.name)
    BY <1>2, <2>1, MakeFacts DEF Make, Fails
  <2>4. PICK o \in Objs :
            /\ absName'[o] = PathOf(v)
            /\ \A x \in Objs \ {o} : definedIn'[x] = definedIn[x]
    BY <2>1, <2>3, Made
  <2>5. /\ f \in Files /\ L.at \in DOMAIN f /\ v = f[L.at]
        /\ v.visit \in {"declare", "forward"} /\ TypedVisit(v) /\ DOMAIN f = 1..Len(f)
        /\ DeclaredOnce(f)
    BY <2>1, <2>2, MakeFacts, FileFacts DEF Placing, Loading, Visited, OneFile
  <2>6. ASSUME NEW w, There(w)', ~ There(w) PROVE PathOf(w) = PathOf(v)
    <3>1. PICK x \in Objs : definedIn'[x] # NoObj /\ absName'[x] = PathOf(w)
      BY <2>6 DEF There
    <3>2. CASE x = o
      BY <2>4, <3>1, <3>2
    <3>3. CASE x # o
      <4>1. definedIn[x] # NoObj
        BY <2>4, <3>1, <3>3
      <4>2. absName'[x] = absName[x]
        BY <2>2, <4>1 DEF Keeps, CInv, GInv, Placed
      <4> QED
        BY <2>6, <3>1, <4>1, <4>2 DEF There
    <3> QED
      BY <3>2, <3>3
  <2>7. ASSUME NEW a \in DOMAIN f, NEW i \in DOMAIN f, NEW j \in DOMAIN f,
               Typedef(f, a, j), a < i, i < j, f[i].visit # "end", There(f[j])'
        PROVE  There(f[i])'
    <3>1. There(f[i]) => There(f[i])'
      <4> PICK w : w = f[i]
        OBVIOUS
      <4> QED
        BY <2>2, DefinitionsKept
    <3>2. CASE There(f[j])
      <4>1. There(f[i])
        BY <2>7, <3>2 DEF OneFile, InsideThere
      <4> QED
        BY <3>1, <4>1
    <3>3. CASE ~ There(f[j])
      <4>1. PathOf(f[j]) = PathOf(v)
        <5> PICK w : w = f[j]
          OBVIOUS
        <5> QED
          BY <2>6, <2>7, <3>3
      <4>2. /\ f[j].visit = "declare" /\ f[a].visit = "typedef"
            /\ PathOf(f[a]) = PathOf(f[j]) /\ f[i].visit \in {"declare", "end"}
        <5>1. i \in (a + 1)..(j - 1)
          BY <2>5, <2>7
        <5> QED
          BY <2>7, <5>1 DEF Typedef
      <4>3. f[a].kind = "Alias" /\ v.visit # "end" /\ f[j].visit # "end" /\ f[a].visit # "end"
        BY <2>5, <4>2, FileFacts DEF TypedVisit
      <4>4. f[j].kind = "Alias" /\ f[L.at].kind = "Alias"
        <5>1. PathOf(f[a]) = PathOf(f[L.at])
          BY <2>5, <4>1, <4>2
        <5>2. f[a].kind = f[j].kind
          BY <2>5, <4>2, <4>3, SamePath, Zenon
        <5>3. f[a].kind = f[L.at].kind
          BY <2>5, <4>3, <5>1, SamePath, Zenon
        <5> QED
          BY <4>3, <5>2, <5>3
      <4>5. v.visit = "declare" /\ f[j].scope = v.scope /\ f[j].name = v.name
        <5>1. v.visit = "declare"
          BY <2>5, <4>4 DEF TypedVisit
        <5>2. f[j].visit # "end" /\ f[L.at].visit # "end" /\ PathOf(f[j]) = PathOf(f[L.at])
          BY <2>5, <4>1, <4>3
        <5>3. f[j].scope = f[L.at].scope /\ f[j].name = f[L.at].name
          BY <2>5, <5>2, SamePath, Zenon
        <5> QED
          BY <2>5, <5>1, <5>3
      <4>6. j = L.at
        BY <2>5, <4>2, <4>4, <4>5 DEF DeclaredOnce
      <4>7. i \in 1..(L.at - 1)
        <5>1. Len(f) \in Nat
          BY <2>5, FileFacts
        <5> QED
          BY <2>5, <2>7, <4>6, <5>1
      <4>8. There(f[i])
        BY <2>2, <2>7, <4>2, <4>7 DEF Loading
      <4> QED
        BY <3>1, <4>8
    <3> QED
      BY <3>2, <3>3
  <2> QED
    BY <2>7 DEF InsideThere
<1>3. ~ UNCHANGED <<definedIn, absName>> => Make(l) /\ ~ UNCHANGED vars
  BY OnlyMakeDefines
<1> QED
  BY <1>1, <1>2, <1>3

\* After a step of one loader, some loader gets through.
LEMMA StepSingle ==
    ASSUME SInv, NEW l \in Loaders, LoaderStep(l), UNCHANGED begun,
           NEW f \in Files, Single(f)
    PROVE  /\ Mirrored(f)' /\ InsideThere(f)'
           /\ \A k \in Loaders : Loading(loader[k], f)'
           /\ \E k \in Loaders : GetsThrough(loader[k])'
<1>1. OneFile(f) /\ LInv
  BY DEF OneFile, Single, SInv
<1>2. CarefulRequest /\ Keeps /\ CInv /\ NothingGone
  BY <1>1, StepLInv, AfterRequest DEF LInv
<1>3. Mirrored(f)' /\ Fares(l, f) /\ InsideThere(f)'
  BY <1>1, StepFares, InsideKept
<1>4. PICK M :
        /\ loader' = [loader EXCEPT ![l] = M] /\ Loading(M, f)'
        /\ \/ GetsThrough(M)'
           \/ Doomed(loader[l]) /\ UNCHANGED <<definedIn, absName>>
  BY <1>3 DEF Fares
<1>5. loader'[l] = M /\ \A k \in Loaders \ {l} : loader'[k] = loader[k]
  BY <1>1, <1>4 DEF LInv, LoaderTyped
<1>6. ASSUME NEW k \in Loaders PROVE Loading(loader[k], f)'
  <2>1. CASE k = l
    BY <1>4, <1>5, <2>1
  <2>2. CASE k # l
    <3> PICK L \in Jobs \cup {Idle} : L = loader[k] /\ Placing(L) /\ Loading(L, f)
      BY <1>1 DEF LInv, LoaderTyped, OneFile
    <3>1. Loading(L, f)'
      <4> SUFFICES ASSUME L.status = "running" PROVE Loading(L, f)'
        BY DEF Loading
      <4> PICK v : v = Visited(L)
        OBVIOUS
      <4>1. L.file = f /\ (L.phase = "wrap" => v.type.wrapped)
        BY DEF Loading
      <4>2. ASSUME NEW i \in 1..(L.at - 1), f[i].visit \notin {"typedef", "end"}
            PROVE  There(f[i])'
        <5> PICK w : w = f[i]
          OBVIOUS
        <5>1. There(w)
          BY <4>2 DEF Loading
        <5> QED
          BY <1>2, <5>1, DefinitionsKept
      <4>3. ASSUME HasType(L) PROVE Denoted(L.resultType, v)'
        <5> PICK t : t = L.resultType
          OBVIOUS
        <5>1. Denoted(t, v)
          BY <4>3 DEF Loading
        <5>2. t # NoObj
          <6>1. t = Prim \/ t \in Objs
            BY <5>1 DEF Denoted, Base
          <6> QED
            BY <6>1, ConstantsAssumption DEF Servants
        <5>3. IsActive(t)
          BY <5>2 DEF Placing
        <5> QED
          BY <1>2, <5>1, <5>3, DefinitionsKept
      <4> QED
        BY <4>1, <4>2, <4>3 DEF Loading
    <3> QED
      BY <1>5, <2>2, <3>1
  <2> QED
    BY <2>1, <2>2
<1>7. \E k \in Loaders : GetsThrough(loader[k])'
  <2>1. CASE GetsThrough(M)'
    BY <1>5, <2>1
  <2>2. CASE Doomed(loader[l]) /\ UNCHANGED <<definedIn, absName>>
    <3>1. PICK k \in Loaders : GetsThrough(loader[k])
      BY DEF SInv
    <3>2. k # l
      BY <2>2, <3>1 DEF GetsThrough
    <3> PICK L : L = loader[k] /\ L = loader'[k]
      BY <1>5, <3>2
    <3>3. GetsThrough(L)'
      BY <2>2, <3>1 DEF GetsThrough, Doomed, Overtaken, There
    <3> QED
      BY <3>3
  <2> QED
    BY <1>4, <2>1, <2>2
<1> QED
  BY <1>3, <1>6, <1>7

\* A loader that begins has failed at nothing.
LEMMA BeginSingle ==
    ASSUME SInv, NEW l \in Loaders, NEW f \in Files, Begin(l, f), Single(f)'
    PROVE  /\ Mirrored(f)' /\ InsideThere(f)'
           /\ \A k \in Loaders : Loading(loader[k], f)'
           /\ \E k \in Loaders : GetsThrough(loader[k])'
<1> PICK L : L = loader'[l]
  OBVIOUS
<1>1. /\ UNCHANGED vars
      /\ begun'.files = begun.files \cup {f}
      /\ L.status = "running" /\ L.file = f /\ L.at = 1 /\ L.phase = FirstPhase(f[1])
      /\ \A k \in Loaders \ {l} :
            loader'[k] = IF AtWork(k) THEN [loader[k] EXCEPT !.met = @ \cup {f}]
                         ELSE loader[k]
  BY DEF Begin
<1>2. begun.files = {} \/ begun.files = {f}
  BY <1>1 DEF Single
<1>3. Loaded = {} /\ \A i \in DOMAIN f : ~ NeverLoaded(f, i)
  BY DEF Single
<1>4. \A k \in Loaders : Loading(loader[k], f)
  <2>1. CASE begun.files = {}
    BY <1>3, <2>1 DEF SInv, Loading, Idle
  <2>2. CASE begun.files = {f}
    BY <1>3, <2>2 DEF SInv, Single
  <2> QED
    BY <1>2, <2>1, <2>2
<1>5. Mirrored(f) /\ InsideThere(f)
  <2>1. CASE begun.files = {}
    BY <1>3, <2>1 DEF SInv, Mirrored, InsideThere, There
  <2>2. CASE begun.files = {f}
    BY <1>3, <2>2 DEF SInv, Single
  <2> QED
    BY <1>2, <2>1, <2>2
<1>6. Loading(L, f) /\ GetsThrough(L)
  <2> PICK v : v = f[1]
    OBVIOUS
  <2>1. Visited(L) = v /\ 1..(1 - 1) = {}
    BY <1>1 DEF Visited
  <2>2. v.visit \in {"declare", "forward", "typedef", "end"}
        /\ (v.visit = "forward" => v.kind \in {"Struct", "Interface"})
        /\ (v.visit = "typedef" => v.kind = "Alias")
    <3>1. 1 \in DOMAIN f
      <4>1. Len(f) \in Nat \ {0} /\ DOMAIN f = 1..Len(f)
        BY FileFacts
      <4> QED
        BY <4>1
    <3> QED
      BY <1>3, <3>1, FileFacts DEF TypedVisit, NeverLoaded
  <2>3. L.phase = FirstPhase(v) /\ L.phase \in {"type", "find", "pop"}
    BY <1>1, FirstPhases
  <2>4. ~ HasType(L)
    BY <2>1, <2>2, <2>3 DEF HasType, FirstPhase, TypedFirst, TypedAtOnce
  <2>5. ~ Doomed(L)
    <3>1. ~ Overtaken(f, 1)
      <4>1. Len(f) \in Nat /\ DOMAIN f = 1..Len(f)
        BY FileFacts
      <4> QED
        BY <4>1 DEF Overtaken
    <3> QED
      BY <1>1, <2>3, <3>1 DEF Doomed
  <2>6. L.phase # "wrap"
    BY <2>3
  <2> QED
    BY <1>1, <2>1, <2>4, <2>5, <2>6 DEF Loading, GetsThrough
<1>7. ASSUME NEW k \in Loaders PROVE Loading(loader'[k], f)
  <2>1. CASE k = l
    BY <1>6, <2>1
  <2>2. CASE k # l /\ AtWork(k)
    <3> PICK K \in Jobs : K = loader[k]
      BY <2>2, JobOf DEF SInv
    <3> PICK M : M = [K EXCEPT !.met = @ \cup {f}]
      OBVIOUS
    <3>1. /\ M.status = K.status /\ M.phase = K.phase /\ M.resultType = K.resultType
          /\ M.file = K.file /\ M.at = K.at
      BY DEF Jobs
    <3>2. Visited(M) = Visited(K)
      BY <3>1 DEF Visited
    <3>3. Loading(K, f)
      BY <1>4
    <3>4. Loading(M, f)
      BY <3>1, <3>2, <3>3 DEF Loading, HasType
    <3> QED
      BY <1>1, <2>2, <3>4
  <2>3. CASE k # l /\ ~ AtWork(k)
    BY <1>1, <1>4, <2>3
  <2> QED
    BY <2>1, <2>2, <2>3
<1>8. ASSUME NEW k \in Loaders PROVE Loading(loader[k], f)'
  <2> PICK K : K = loader'[k]
    OBVIOUS
  <2> QED
    BY <1>1, <1>7, NothingSent
<1>9. GetsThrough(L)'
  BY <1>1, <1>6, NothingSent
<1> QED
  BY <1>1, <1>5, <1>8, <1>9, NothingSent

LEMMA InitSInv == LoaderInit => SInv
<1> SUFFICES ASSUME LoaderInit PROVE SInv
  OBVIOUS
<1>1. LInv
  BY InitLInv
<1>2. Loaded = {} => \A o \in Objs : definedIn[o] = NoObj
  BY DEF LoaderInit, Init
<1>3. \A l \in Loaders : loader[l] = Idle
  BY DEF LoaderInit
<1>4. \A f \in Files : ~ Single(f)
  BY DEF LoaderInit, Single
<1> QED
  BY <1>1, <1>2, <1>3, <1>4 DEF SInv

LEMMA NextSInv ==
    ASSUME SInv, [LoaderNext]_allVars
    PROVE  SInv'
<1>1. LInv /\ LInv'
  BY NextLInv DEF SInv
<1>2. CASE UNCHANGED allVars
  <2>1. UNCHANGED vars /\ UNCHANGED loader /\ UNCHANGED begun /\ UNCHANGED definedIn
    BY <1>2 DEF allVars, vars, tree
  <2>2. ASSUME NEW f \in Files, Single(f)'
        PROVE  /\ Mirrored(f)' /\ InsideThere(f)'
               /\ \A l \in Loaders : Loading(loader[l], f)'
               /\ \E l \in Loaders : GetsThrough(loader[l])'
    <3>1. Single(f)
      BY <2>1, <2>2 DEF Single
    <3>2. Mirrored(f)' /\ InsideThere(f)'
      BY <2>1, <3>1, NothingSent DEF SInv
    <3>3. ASSUME NEW l \in Loaders PROVE Loading(loader[l], f)'
      <4> PICK L : L = loader[l]
        OBVIOUS
      <4>1. Loading(L, f)'
        BY <2>1, <3>1, NothingSent DEF SInv
      <4> QED
        BY <2>1, <4>1
    <3>4. PICK l \in Loaders : GetsThrough(loader[l])
      BY <3>1 DEF SInv
    <3> PICK L : L = loader[l]
      OBVIOUS
    <3>5. GetsThrough(L)'
      BY <2>1, <3>4, NothingSent
    <3> QED
      BY <2>1, <3>2, <3>3, <3>5
  <2> QED
    BY <1>1, <2>1, <2>2 DEF SInv
<1>3. ASSUME NEW l \in Loaders, NEW f \in Files, Begin(l, f) PROVE SInv'
  <2>1. f \in begun'.files
    BY <1>3 DEF Begin
  <2>2. ASSUME NEW g \in Files, Single(g)' PROVE g = f
    BY <2>1, <2>2 DEF Single
  <2> QED
    BY <1>1, <1>3, <2>1, <2>2, BeginSingle DEF SInv
<1>4. ASSUME NEW l \in Loaders, LoaderStep(l), UNCHANGED begun PROVE SInv'
  <2>1. begun.files = {} => Loaded # {}
    <3>1. AtWork(l)
      BY <1>4 DEF LoaderStep, ResolveType, WrapType, Find, Make, UpdateId, UpdateRefs,
                  Pop, Kill, In, AtWork
    <3> QED
      BY <3>1 DEF SInv, AtWork, Idle
  <2>2. ASSUME NEW f \in Files, Single(f)' PROVE Single(f)
    BY <1>4, <2>2 DEF Single
  <2>3. ASSUME NEW f \in Files, Single(f)'
        PROVE  /\ Mirrored(f)' /\ InsideThere(f)'
               /\ \A k \in Loaders : Loading(loader[k], f)'
               /\ \E k \in Loaders : GetsThrough(loader[k])'
    BY <1>4, <2>2, <2>3, StepSingle
  <2> QED
    BY <1>1, <1>4, <2>1, <2>3 DEF SInv
<1> QED
  BY <1>2, <1>3, <1>4 DEF LoaderNext

\* Of several loads of one file in an empty Repository not all fail: what makes
\* one of them fail is that another one made, in between, what it was about to
\* make itself, and that one goes on.  At no time is every loader that is left
\* about to make what is there (ifr.py:57-63, 97-102).
THEOREM OneLoaderGetsThrough == LoaderSpec => []SomeoneGetsThrough
<1>1. LoaderInit => SInv
  BY InitSInv
<1>2. SInv /\ [LoaderNext]_allVars => SInv'
  BY NextSInv
<1>3. SInv => SomeoneGetsThrough
  BY DEF SInv, SomeoneGetsThrough, Single, GetsThrough
<1> QED
  BY <1>1, <1>2, <1>3, PTL DEF LoaderSpec

-----------------------------------------------------------------------------
(* What a load leaves, and what stops one.                                 *)

\* t stands for the type of visit v, and if it is anonymous for nothing else.
Stood(t, v) ==
    IF v.type.wrapped
    THEN /\ t \in Objs /\ IsActive(t) /\ definedIn[t] = NoObj /\ kind[t] = "Sequence"
         /\ \E u \in refs[t] : refs[t] = {u} /\ Base(u, v)
    ELSE Base(t, v)

\* Visits that give what they are about its type.
Typing(v) ==
    IF v.visit = "end" THEN v.kind \in TypedAtEnd
    ELSE v.visit # "typedef" /\ v.kind \in TypedAtOnce

\* o has what visit v writes in it.
Identified(o, v) == v.visit \in {"declare", "again"} => id[o] = v.id
TypedAs(o, v) == Typing(v) => \E t \in refs[o] : refs[o] = {t} /\ Stood(t, v)

\* Visit v has been entered; B is what was there before.
DoneIn(o, v, B) ==
    /\ definedIn[o] # NoObj /\ absName[o] = PathOf(v)
    /\ v.visit # "forward" => kind[o] = v.kind
    /\ ~ (v.kind = "Alias" /\ o \in B) => Identified(o, v) /\ TypedAs(o, v)
Done(v, B) == v.visit = "typedef" \/ \E o \in Objs : DoneIn(o, v, B)

\* Visit i is inside a typedef that was there; or it has been entered.
Omitted(f, i, B) ==
    \E a, j \in DOMAIN f :
        /\ Typedef(f, a, j) /\ a < i /\ i < j
        /\ \E o \in B : definedIn[o] # NoObj /\ absName[o] = PathOf(f[a])
Handled(f, i, B) == Done(f[i], B) \/ Omitted(f, i, B)

\* What is inside the typedef that makes o has been entered.
Whole(f, o) ==
    kind[o] = "Alias" =>
        \A a, i, j \in DOMAIN f :
            (Typedef(f, a, j) /\ a < i /\ i < j /\ absName[o] = PathOf(f[j])) => Done(f[i], {})

\* What is new is what the file declares, and new typedefs have their type.
Declares(v, o) ==
    /\ v.visit \notin {"typedef", "end"}
    /\ absName[o] = PathOf(v) /\ kind[o] = v.kind /\ id[o] = v.id
    /\ kind[o] = "Alias" => TypedAs(o, v)
DeclaredSince(f, B) ==
    \A o \in Objs \ B : definedIn[o] # NoObj =>
        Whole(f, o) /\ \E i \in DOMAIN f : Declares(f[i], o)

\* What a loader has done so far, if only loads of its own file were beside it.
Entering(L) ==
    L.status = "running" =>
        /\ L.phase = "wrap" => Visited(L).type.wrapped /\ Base(L.resultType, Visited(L))
        /\ HasType(L) => Stood(L.resultType, Visited(L))
        /\ L.met \subseteq {L.file} =>
            /\ \A i \in 1..(L.at - 1) : Handled(L.file, i, L.before)
            /\ DeclaredSince(L.file, L.before)
            /\ (L.phase = "refs" /\ Visited(L).visit # "end") => id[L.found] = Visited(L).id
        /\ L.met = {} => ~ Doomed(L)

\* Who is at work beside another loader has been met, and all that it has met.
AllMet ==
    \A k, l \in Loaders :
        (k # l /\ AtWork(k) /\ AtWork(l)) =>
            /\ loader[k].file \in loader[l].met
            /\ loader[k].met \subseteq loader[l].met \cup {loader[l].file}

AInv ==
    /\ LInv
    /\ AllMet
    /\ \A l \in Loaders : Entering(loader[l])

-----------------------------------------------------------------------------
(* What the visits of a file say of one object.                            *)

\* What is found by a path has it as its absolute name.
LEMMA LookupHasName ==
    ASSUME CInv, AbsExact, NEW path \in Seq(Names), path # <<>>,
           Lookup(Root, path) # NoObj
    PROVE  /\ Lookup(Root, path) \in Objs /\ definedIn[Lookup(Root, path)] # NoObj
           /\ absName[Lookup(Root, path)] = path
<1> DEFINE r == Reached(Root, path)
           p(k) == SubSeq(path, 1, k)
           Fits(x, k) ==
                \/ x = NoObj
                \/ k = 0 /\ x = Root
                \/ k # 0 /\ x \in Objs /\ definedIn[x] # NoObj /\ absName[x] = p(k)
           T == {k \in Nat : k <= Len(path) => Fits(r[k], k)}
<1>1. r[0] = Root /\ \A k \in Nat : k # 0 => r[k] = Step(r[k - 1], path[k])
  BY ReachedStep
<1> HIDE DEF r
<1>2. Len(path) \in Nat /\ Len(path) # 0 /\ IInv
  BY EmptySeq DEF CInv, GInv
<1>3. 0 \in T
  BY <1>1
<1>4. ASSUME NEW k \in T PROVE k + 1 \in T
  <2>1. k \in Nat /\ k + 1 \in Nat /\ k + 1 # 0 /\ (k + 1) - 1 = k
    OBVIOUS
  <2> SUFFICES ASSUME k + 1 <= Len(path) PROVE Fits(r[k + 1], k + 1)
    BY <2>1
  <2>2. k <= Len(path) /\ Fits(r[k], k) /\ k + 1 \in 1..Len(path)
    BY <1>2, <2>1
  <2> PICK c, x, n : c = r[k] /\ x = r[k + 1] /\ n = path[k + 1]
    OBVIOUS
  <2>3. x = Step(c, n) /\ n \in Names
    BY <1>1, <2>1, <2>2
  <2>4. c \in Servants \cup {NoObj}
    BY <2>2 DEF Servants
  <2>5. CASE x = NoObj
    BY <2>5
  <2>6. CASE x # NoObj
    <3>1. x \in Objs /\ definedIn[x] = c /\ name[x] = n /\ c # NoObj
      <4>1. c # NoObj
        BY <2>3, <2>6 DEF Step
      <4> QED
        BY <1>2, <2>3, <2>4, <2>6, <4>1, StepFound
    <3>2. absName[x] = Append(IF c = Root THEN <<>> ELSE absName[c], n)
      BY <3>1 DEF AbsExact, AbsoluteName
    <3>3. (IF c = Root THEN <<>> ELSE absName[c]) = p(k)
      <4>1. CASE k = 0
        <5>1. c = Root /\ p(0) = <<>>
          BY <1>1, <4>1
        <5> QED
          BY <4>1, <5>1
      <4>2. CASE k # 0
        <5>1. c \in Objs /\ absName[c] = p(k)
          BY <2>2, <3>1, <4>2
        <5> QED
          BY <5>1, ConstantsAssumption
      <4> QED
        BY <4>1, <4>2
    <3>4. Append(p(k), path[k + 1]) = p(k + 1)
      BY <1>2, <2>1, <2>2
    <3>5. absName[x] = p(k + 1)
      BY <3>2, <3>3, <3>4
    <3> HIDE DEF p
    <3> QED
      BY <2>1, <3>1, <3>5
  <2> QED
    BY <2>5, <2>6
<1>5. T = Nat
  <2>1. T \in SUBSET Nat
    OBVIOUS
  <2> HIDE DEF T
  <2> QED
    BY <1>3, <1>4, <2>1, AllNumbers
<1>6. Fits(r[Len(path)], Len(path))
  BY <1>2, <1>5
<1>7. Lookup(Root, path) = r[Len(path)] /\ p(Len(path)) = path
  BY DEF Lookup, r
<1> HIDE DEF p
<1> QED
  BY <1>2, <1>6, <1>7

\* What is given its type is given one type.
LEMMA TypedOnce ==
    ASSUME NEW f \in Files, NEW i \in DOMAIN f, NEW j \in DOMAIN f,
           Typing(f[i]), Typing(f[j]), PathOf(f[i]) = PathOf(f[j]), f[i].kind = f[j].kind
    PROVE  f[i].type = f[j].type
<1>1. SameEachTime(f) /\ DeclaredOnce(f) /\ TypedVisit(f[i]) /\ TypedVisit(f[j])
  BY FileFacts
<1>2. CASE f[i].visit = f[j].visit
  BY <1>1, <1>2 DEF SameEachTime
<1>3. CASE f[i].visit # f[j].visit
  <2>1. f[i].visit # "end" /\ f[j].visit # "end"
    BY <1>3 DEF Typing, TypedAtEnd, TypedAtOnce
  <2>2. f[i].visit \in {"declare", "again"} /\ f[j].visit \in {"declare", "again"}
        /\ f[i].kind \in TypedAtOnce
    BY <1>1, <2>1 DEF Typing, TypedVisit, TypedAtOnce
  <2>3. f[i].scope = f[j].scope /\ f[i].name = f[j].name
    BY <2>1, SamePath, Zenon
  <2>4. f[i].kind \notin {"Module", "Struct", "Enum"}
    BY <2>2 DEF TypedAtOnce
  <2> QED
    BY <1>1, <1>3, <2>1, <2>2, <2>3, <2>4 DEF DeclaredOnce
<1> QED
  BY <1>2, <1>3

\* A typedef is declared once.
LEMMA AliasOnce ==
    ASSUME NEW f \in Files, NEW i \in DOMAIN f, NEW j \in DOMAIN f,
           f[i].visit \notin {"typedef", "end"}, f[j].visit \notin {"typedef", "end"},
           PathOf(f[i]) = PathOf(f[j]), f[i].kind = "Alias"
    PROVE  i = j
<1>1. f[i].scope = f[j].scope /\ f[i].name = f[j].name /\ f[j].kind = "Alias"
  BY SamePath
<1>2. f[i].visit = "declare" /\ f[j].visit = "declare" /\ DeclaredOnce(f)
  BY <1>1, FileFacts DEF TypedVisit
<1> QED
  BY <1>1, <1>2 DEF DeclaredOnce

\* What is inside a typedef is inside no other, and is a struct or an enum.
LEMMA TypedefAround ==
    ASSUME NEW f \in Files, NEW a \in DOMAIN f, NEW b \in DOMAIN f, NEW j \in DOMAIN f,
           NEW k \in DOMAIN f, NEW i \in DOMAIN f,
           Typedef(f, a, j), a < i, i < j, Typedef(f, b, k), b < i, i < k
    PROVE  a = b /\ f[i].kind # "Alias" /\ f[i].visit # "typedef"
<1>1. a \in Nat /\ b \in Nat /\ j \in Nat /\ k \in Nat /\ i \in Nat
  <2>1. Len(f) \in Nat /\ DOMAIN f = 1..Len(f)
    BY FileFacts
  <2> QED
    BY <2>1
<1>2. i \in (a + 1)..(j - 1)
  BY <1>1
<1>3. f[i].kind # "Alias" /\ f[i].visit # "typedef"
  BY <1>2 DEF Typedef
<1>4. f[a].visit = "typedef" /\ f[b].visit = "typedef"
  BY DEF Typedef
<1>5. ~ (a < b)
  <2>1. a < b => b \in (a + 1)..(j - 1)
    BY <1>1
  <2> QED
    BY <1>4, <2>1 DEF Typedef
<1>6. ~ (b < a)
  <2>1. b < a => a \in (b + 1)..(k - 1)
    BY <1>1
  <2> QED
    BY <1>4, <2>1 DEF Typedef
<1> QED
  BY <1>1, <1>3, <1>5, <1>6

-----------------------------------------------------------------------------
(* What a loader of a file changes in the Repository.                      *)

\* A step keeps the types that are there; what it changes is given what a visit of
\* f gives it, and what is new is what f declares.
KeepsTypes ==
    /\ Keeps
    /\ \A o \in Objs : (IsActive(o) /\ definedIn[o] = NoObj) => refs'[o] = refs[o]
Contributes(f) ==
    /\ KeepsTypes
    /\ \A o \in Objs : definedIn[o] # NoObj =>
        /\ \/ id'[o] = id[o]
           \/ \E j \in DOMAIN f :
                f[j].visit # "end" /\ PathOf(f[j]) = absName[o] /\ id'[o] = f[j].id
        /\ \/ refs'[o] = refs[o]
           \/ \E j \in DOMAIN f :
                /\ Typing(f[j]) /\ PathOf(f[j]) = absName[o] /\ f[j].kind = kind[o]
                /\ \E t \in refs'[o] : refs'[o] = {t} /\ Stood(t, f[j])'
        /\ kind[o] = "Alias" => id'[o] = id[o] /\ refs'[o] = refs[o]
    /\ \A o \in Objs : (definedIn[o] = NoObj /\ definedIn'[o] # NoObj) =>
        \E j \in DOMAIN f : Declares(f[j], o)'
\* What it makes a typedef of is there.
Completes(f) ==
    \A o \in Objs : (definedIn[o] = NoObj /\ definedIn'[o] # NoObj) => Whole(f, o)'

\* A step without a request contributes to any file.
LEMMA NothingContributes ==
    ASSUME UNCHANGED vars, NEW f
    PROVE  Contributes(f) /\ Completes(f)
<1>1. UNCHANGED <<life, kind, definedIn, name, absName, id, refs>>
  BY DEF vars, tree, naming, ids, links
<1> QED
  BY <1>1 DEF Contributes, Completes, KeepsTypes, Keeps, IsActive

\* What stands for a type of the file goes on doing so: new types refer to what
\* they are made of, and nothing is retargeted.
LEMMA StoodKept ==
    ASSUME CInv, KeepsTypes, NEW v, NEW t
    PROVE  /\ Base(t, v) => Base(t, v)'
           /\ Stood(t, v) => Stood(t, v)'
<1>1. Keeps /\ \A o \in Objs : (IsActive(o) /\ definedIn[o] = NoObj) => refs'[o] = refs[o]
  BY DEF KeepsTypes
<1>2. \A o \in Objs : definedIn[o] # NoObj => IsActive(o)
  BY DEF CInv, GInv, Placed
<1>3. \A u : Base(u, v) => Base(u, v)'
  BY <1>1, <1>2 DEF Base, Keeps
<1>4. v.type.wrapped => (Stood(t, v) => Stood(t, v)')
  BY <1>1, <1>3 DEF Stood, Keeps, IsActive
<1>5. ~ v.type.wrapped => (Stood(t, v) => Stood(t, v)')
  BY <1>3 DEF Stood
<1> QED
  BY <1>3, <1>4, <1>5

\* What stood for the type of a visit does for another one with the same type.
LEMMA SameTypeLater ==
    ASSUME NEW v, NEW w, v.type = w.type, NEW t
    PROVE  Stood(t, v)' => Stood(t, w)'
BY DEF Stood, Base

\* What a visit wrote is still there when a load of the same file has done more.
LEMMA IdentifiedKept ==
    ASSUME CInv, NEW f \in Files, Contributes(f), NEW i \in DOMAIN f,
           NEW o \in Objs, definedIn[o] # NoObj, absName[o] = PathOf(f[i]),
           f[i].visit # "end", id[o] = f[i].id
    PROVE  id'[o] = f[i].id
<1>1. CASE id'[o] = id[o]
  BY <1>1
<1>2. CASE id'[o] # id[o]
  <2>1. PICK j \in DOMAIN f :
            f[j].visit # "end" /\ PathOf(f[j]) = absName[o] /\ id'[o] = f[j].id
    BY <1>2 DEF Contributes
  <2>2. f[j].id = f[i].id
    BY <2>1, SamePath
  <2> QED
    BY <2>1, <2>2
<1> QED
  BY <1>1, <1>2

LEMMA TypedAsKept ==
    ASSUME CInv, NEW f \in Files, Contributes(f), NEW i \in DOMAIN f,
           NEW o \in Objs, definedIn[o] # NoObj, absName[o] = PathOf(f[i]),
           f[i].visit # "forward" => kind[o] = f[i].kind, NEW v, v = f[i], TypedAs(o, v)
    PROVE  TypedAs(o, v)'
<1> SUFFICES ASSUME Typing(v) PROVE \E t \in refs'[o] : refs'[o] = {t} /\ Stood(t, v)'
  BY DEF TypedAs
<1>1. CASE refs'[o] = refs[o]
  <2>1. PICK t \in refs[o] : refs[o] = {t} /\ Stood(t, v)
    BY DEF TypedAs
  <2>2. Stood(t, v)'
    BY <2>1, StoodKept DEF Contributes
  <2> QED
    BY <1>1, <2>1, <2>2
<1>2. CASE refs'[o] # refs[o]
  <2>1. PICK j \in DOMAIN f :
            /\ Typing(f[j]) /\ PathOf(f[j]) = absName[o] /\ f[j].kind = kind[o]
            /\ \E t \in refs'[o] : refs'[o] = {t} /\ Stood(t, f[j])'
    BY <1>2 DEF Contributes
  <2>2. v.visit # "forward"
    BY FileFacts DEF TypedVisit, Typing, TypedAtOnce
  <2>3. f[j].type = v.type
    BY <2>1, <2>2, TypedOnce
  <2> PICK w : w = f[j]
    OBVIOUS
  <2>4. PICK t \in refs'[o] : refs'[o] = {t} /\ Stood(t, w)'
    BY <2>1
  <2>5. Stood(t, v)'
    BY <2>3, <2>4, SameTypeLater
  <2> QED
    BY <2>4, <2>5
<1> QED
  BY <1>1, <1>2

\* The visits a load has finished stay finished while loads of the same file do
\* more.
LEMMA DoneKept ==
    ASSUME CInv, NEW f \in Files, Contributes(f), NEW i \in DOMAIN f, NEW v, v = f[i],
           NEW B, Done(v, B)
    PROVE  Done(v, B)'
<1> SUFFICES ASSUME v.visit # "typedef" PROVE Done(v, B)'
  BY DEF Done
<1>1. PICK o \in Objs : DoneIn(o, v, B)
  BY DEF Done
<1>2. /\ definedIn[o] # NoObj /\ absName[o] = PathOf(v)
      /\ v.visit # "forward" => kind[o] = v.kind
      /\ ~ (v.kind = "Alias" /\ o \in B) => Identified(o, v) /\ TypedAs(o, v)
  BY <1>1 DEF DoneIn
<1>3. IsActive(o)
  BY <1>2 DEF CInv, GInv, Placed
<1>4. definedIn'[o] = definedIn[o] /\ absName'[o] = absName[o] /\ kind'[o] = kind[o]
  BY <1>3 DEF Contributes, KeepsTypes, Keeps
<1>5. Identified(o, v) => Identified(o, v)'
  BY <1>2, IdentifiedKept DEF Identified
<1>6. TypedAs(o, v) => TypedAs(o, v)'
  BY <1>2, TypedAsKept
<1>7. DoneIn(o, v, B)'
  BY <1>2, <1>4, <1>5, <1>6 DEF DoneIn
<1> QED
  BY <1>7 DEF Done

LEMMA HandledKept ==
    ASSUME CInv, NEW f \in Files, Contributes(f), NEW i \in DOMAIN f, NEW B \in SUBSET Objs,
           Handled(f, i, B)
    PROVE  Handled(f, i, B)'
<1>1. CASE Done(f[i], B)
  <2> PICK v : v = f[i]
    OBVIOUS
  <2>1. Done(v, B)'
    BY <1>1, DoneKept
  <2> QED
    BY <2>1 DEF Handled
<1>2. CASE Omitted(f, i, B)
  <2>1. \A o \in B : definedIn[o] # NoObj =>
            definedIn'[o] # NoObj /\ absName'[o] = absName[o]
    BY DEF Contributes, KeepsTypes, Keeps, CInv, GInv, Placed
  <2>2. Omitted(f, i, B)'
    BY <1>2, <2>1 DEF Omitted
  <2> QED
    BY <2>2 DEF Handled
<1> QED
  BY <1>1, <1>2 DEF Handled

LEMMA WholeKept ==
    ASSUME CInv, NEW f \in Files, Contributes(f), NEW o \in Objs, definedIn[o] # NoObj,
           Whole(f, o)
    PROVE  Whole(f, o)'
<1>1. IsActive(o)
  BY DEF CInv, GInv, Placed
<1>2. absName'[o] = absName[o] /\ kind'[o] = kind[o]
  BY <1>1 DEF Contributes, KeepsTypes, Keeps
<1> SUFFICES ASSUME kind[o] = "Alias", NEW a \in DOMAIN f, NEW i \in DOMAIN f,
                    NEW j \in DOMAIN f, Typedef(f, a, j), a < i, i < j,
                    absName[o] = PathOf(f[j])
             PROVE  Done(f[i], {})'
  BY <1>2 DEF Whole
<1> PICK v : v = f[i]
  OBVIOUS
<1>3. Done(v, {})
  BY DEF Whole
<1>4. Done(v, {})'
  BY <1>3, DoneKept
<1> QED
  BY <1>4

\* What a load of the file adds is declared by it.
LEMMA DeclaredSinceKept ==
    ASSUME CInv, NEW f \in Files, Contributes(f), Completes(f), NEW B, DeclaredSince(f, B)
    PROVE  DeclaredSince(f, B)'
<1> SUFFICES ASSUME NEW o \in Objs \ B, definedIn'[o] # NoObj
             PROVE  Whole(f, o)' /\ \E i \in DOMAIN f : Declares(f[i], o)'
  BY DEF DeclaredSince
<1>1. CASE definedIn[o] = NoObj
  BY <1>1 DEF Contributes, Completes
<1>2. CASE definedIn[o] # NoObj
  <2>1. PICK i \in DOMAIN f : Declares(f[i], o)
    BY <1>2 DEF DeclaredSince
  <2> PICK v : v = f[i]
    OBVIOUS
  <2>2. /\ v.visit \notin {"typedef", "end"}
        /\ absName[o] = PathOf(v) /\ kind[o] = v.kind /\ id[o] = v.id
        /\ kind[o] = "Alias" => TypedAs(o, v)
    BY <2>1 DEF Declares
  <2>3. IsActive(o)
    BY <1>2 DEF CInv, GInv, Placed
  <2>4. absName'[o] = absName[o] /\ kind'[o] = kind[o]
    BY <2>3 DEF Contributes, KeepsTypes, Keeps
  <2>5. id'[o] = v.id
    BY <1>2, <2>2, IdentifiedKept
  <2>6. kind[o] = "Alias" => TypedAs(o, v)'
    BY <1>2, <2>2, TypedAsKept
  <2>7. Declares(v, o)'
    BY <2>2, <2>4, <2>5, <2>6 DEF Declares
  <2>8. Whole(f, o)'
    BY <1>2, WholeKept DEF DeclaredSince
  <2> QED
    BY <2>7, <2>8
<1> QED
  BY <1>1, <1>2

LEMMA SoFarKept ==
    ASSUME CInv, NEW f \in Files, Contributes(f), Completes(f), NEW L \in Jobs, L.file = f,
           L.at \in DOMAIN f, L.status = "running", Entering(L), L.met \subseteq {f}
    PROVE  /\ \A i \in 1..(L.at - 1) : Handled(f, i, L.before)'
           /\ DeclaredSince(f, L.before)'
<1> PICK B \in SUBSET Objs : B = L.before
  BY DEF Jobs
<1>1. DeclaredSince(f, B)'
  <2>1. DeclaredSince(f, B)
    BY DEF Entering
  <2> QED
    BY <2>1, DeclaredSinceKept
<1>2. ASSUME NEW i \in 1..(L.at - 1) PROVE Handled(f, i, B)'
  <2>1. i \in DOMAIN f
    <3>1. Len(f) \in Nat /\ DOMAIN f = 1..Len(f)
      BY FileFacts
    <3> QED
      BY <3>1
  <2>2. Handled(f, i, B)
    BY DEF Entering
  <2> QED
    BY <2>1, <2>2, HandledKept
<1> QED
  BY <1>1, <1>2

\* A loader that has only met loads of its own file loses nothing by their steps.
LEMMA EnteringKept ==
    ASSUME LInv, NEW f \in Files, Contributes(f), NEW K \in Jobs \cup {Idle}, Placing(K),
           Entering(K), K.status = "running" => f \in K.met,
           (K.status = "running" /\ K.met \subseteq {K.file}) => Completes(f)
    PROVE  Entering(K)'
<1> SUFFICES ASSUME K.status = "running" PROVE Entering(K)'
  BY DEF Entering
<1> PICK v : v = Visited(K)
  OBVIOUS
<1>1. K \in Jobs /\ CInv /\ AbsExact /\ K.met # {}
  BY DEF Idle, LInv
<1>2. /\ K.phase = "wrap" => v.type.wrapped /\ Base(K.resultType, v)'
      /\ HasType(K) => Stood(K.resultType, v)'
  <2> PICK t : t = K.resultType
    OBVIOUS
  <2>1. /\ K.phase = "wrap" => v.type.wrapped /\ Base(t, v)
        /\ HasType(K) => Stood(t, v)
    BY DEF Entering
  <2>2. (Base(t, v) => Base(t, v)') /\ (Stood(t, v) => Stood(t, v)')
    BY <1>1, StoodKept DEF Contributes
  <2> QED
    BY <2>1, <2>2
<1>3. ASSUME K.met \subseteq {K.file}
      PROVE  /\ \A i \in 1..(K.at - 1) : Handled(K.file, i, K.before)'
             /\ DeclaredSince(K.file, K.before)'
             /\ (K.phase = "refs" /\ v.visit # "end") => id'[K.found] = v.id
  <2>1. K.file = f /\ K.at \in DOMAIN f /\ v = f[K.at] /\ Completes(f)
    BY <1>3 DEF Placing, Visited
  <2>2. /\ \A i \in 1..(K.at - 1) : Handled(f, i, K.before)'
        /\ DeclaredSince(f, K.before)'
    BY <1>1, <1>3, <2>1, SoFarKept
  <2>3. ASSUME K.phase = "refs", v.visit # "end" PROVE id'[K.found] = v.id
    <3> PICK o : o = K.found
      OBVIOUS
    <3>1. Stands(o, v, Last(K.stack)) /\ id[o] = v.id
      BY <1>3, <2>3 DEF Placing, Entering
    <3>2. o \in Objs /\ definedIn[o] # NoObj /\ absName[o] = PathOf(v)
      BY <1>1, <2>3, <3>1, StandsThere
    <3> QED
      BY <1>1, <2>1, <2>3, <3>1, <3>2, IdentifiedKept
  <2> QED
    BY <2>1, <2>2, <2>3
<1> QED
  BY <1>1, <1>2, <1>3 DEF Entering

-----------------------------------------------------------------------------
(* What a loader has done after its step.                                  *)

\* All that a load that is over has done.
Finished(M) ==
    (M.status = "done" /\ M.met \subseteq {M.file}) =>
        \A i \in DOMAIN M.file : Handled(M.file, i, M.before)

\* The loader gets to where what it has done is there.
Enters(l) ==
    \E M : /\ loader' = [loader EXCEPT ![l] = M]
           /\ M.file = loader[l].file /\ M.met = loader[l].met
           /\ M.before = loader[l].before
           /\ Entering(M)' /\ Finished(M)'

\* The loader's memory is right when it goes past visit n.
LEMMA PastEntering ==
    ASSUME NEW f \in Files, NEW L \in Jobs, L.status = "running", L.file = f,
           NEW n \in DOMAIN f, NEW stack,
           L.met \subseteq {f} => /\ \A i \in 1..n : Handled(f, i, L.before)'
                                  /\ DeclaredSince(f, L.before)',
           L.met = {} => ~ Overtaken(f, n + 1)',
           NEW v, v = f[n], v.kind = "Attribute" => Stood(L.resultType, v)',
           NEW M, M = Past(L, n, stack)
    PROVE  /\ Entering(M)' /\ Finished(M)'
           /\ M.file = f /\ M.met = L.met /\ M.before = L.before
<1>1. n \in Nat /\ Len(f) \in Nat /\ DOMAIN f = 1..Len(f)
  <2>1. Len(f) \in Nat /\ DOMAIN f = 1..Len(f)
    BY FileFacts
  <2> QED
    BY <2>1
<1>2. CASE n = Len(f)
  <2>1. M.status = "done" /\ M.file = f /\ M.met = L.met /\ M.before = L.before
    BY <1>2 DEF Past, Jobs
  <2>2. Finished(M)'
    BY <1>1, <1>2, <2>1 DEF Finished
  <2> QED
    BY <2>1, <2>2 DEF Entering
<1>3. CASE n # Len(f)
  <2> PICK w : w = f[n + 1]
    OBVIOUS
  <2>1. /\ M.status = "running" /\ M.file = f /\ M.at = n + 1 /\ M.before = L.before
        /\ M.phase = FirstPhase(w) /\ M.phase \in {"type", "find", "pop"}
        /\ M.resultType = L.resultType /\ M.met = L.met
    BY <1>3, FirstPhases DEF Past, Jobs
  <2>2. Visited(M) = w /\ M.at - 1 = n
    BY <1>1, <2>1 DEF Visited
  <2>3. n + 1 \in DOMAIN f /\ TypedVisit(w)
    <3>1. n + 1 \in DOMAIN f
      BY <1>1, <1>3
    <3> QED
      BY <3>1, FileFacts
  <2>4. HasType(M) => Stood(M.resultType, w)'
    <3>1. CASE w.visit = "again"
      <4>1. w.kind = "Attribute" /\ OneTypeEach(f) /\ (n + 1) - 1 = n
        BY <1>1, <2>3, <3>1, FileFacts DEF TypedVisit
      <4>2. v.kind = "Attribute" /\ v.type = w.type
        BY <1>1, <2>3, <3>1, <4>1 DEF OneTypeEach
      <4> PICK t : t = L.resultType
        OBVIOUS
      <4>3. Stood(t, v)'
        BY <4>2
      <4>4. Stood(t, w)'
        BY <4>2, <4>3, SameTypeLater
      <4> QED
        BY <2>1, <4>4
    <3>2. CASE w.visit # "again"
      <4>1. w.visit \in {"declare", "forward", "typedef", "end"}
            /\ (w.visit = "forward" => w.kind \in {"Struct", "Interface"})
            /\ (w.visit = "typedef" => w.kind = "Alias")
        BY <2>3, <3>2 DEF TypedVisit
      <4>2. ~ HasType(M)
        BY <2>1, <2>2, <4>1 DEF HasType, FirstPhase, TypedFirst, TypedAtOnce
      <4> QED
        BY <4>2
    <3> QED
      BY <3>1, <3>2
  <2>5. M.met = {} => ~ Doomed(M)'
    BY <2>1 DEF Doomed
  <2>6. M.phase # "wrap" /\ M.phase # "refs"
    BY <2>1
  <2>7. M.met \subseteq {M.file} =>
            /\ \A i \in 1..(M.at - 1) : Handled(M.file, i, M.before)'
            /\ DeclaredSince(M.file, M.before)'
    BY <2>1, <2>2
  <2>8. Entering(M)'
    BY <2>1, <2>2, <2>4, <2>5, <2>6, <2>7 DEF Entering
  <2> QED
    BY <2>1, <2>8 DEF Finished
<1> QED
  BY <1>2, <1>3

LEMMA GoesEntering ==
    ASSUME LInv, NEW l \in Loaders, AtWork(l), Entering(loader[l]), NEW f,
           f = loader[l].file, Contributes(f), NEW v, v = Current(l), NEW o,
           NextVisit(l, o),
           \A B : (B = loader[l].before /\ loader[l].met \subseteq {f}) =>
                Completes(f) /\ Done(v, B)',
           loader[l].met = {} =>
                Adds(f, loader[l]) /\ (v.visit = "typedef" => ~ There(v)'),
           \A t : (t = loader[l].resultType /\ v.kind = "Attribute") => Stood(t, v)'
    PROVE  Enters(l)
<1> PICK L \in Jobs : L = loader[l] /\ Placing(L) /\ L.status = "running" /\ Entering(L)
  BY JobOf
<1> PICK M : M = Moved(L, o)
  OBVIOUS
<1> PICK B : B = L.before
  OBVIOUS
<1>1. /\ Visited(L) = v /\ L.file = f /\ f \in Files /\ CInv
      /\ L.at \in DOMAIN f /\ L.at \in Nat /\ v = f[L.at]
  BY DEF Visited, Current, Jobs, LInv, Placing
<1>2. loader' = [loader EXCEPT ![l] = M]
  BY <1>1 DEF NextVisit, GoPast, Moved, Past, StackAfter
<1>3. L.met \subseteq {f} =>
        /\ \A i \in 1..L.at : Handled(f, i, B)'
        /\ DeclaredSince(f, B)'
  <2> SUFFICES ASSUME L.met \subseteq {f}
               PROVE  /\ \A i \in 1..L.at : Handled(f, i, B)'
                      /\ DeclaredSince(f, B)'
    OBVIOUS
  <2>1. Completes(f) /\ Done(v, B)'
    OBVIOUS
  <2>2. Handled(f, L.at, B)'
    BY <1>1, <2>1 DEF Handled
  <2>3. /\ \A i \in 1..(L.at - 1) : Handled(f, i, B)'
        /\ DeclaredSince(f, B)'
    BY <1>1, <2>1, SoFarKept
  <2>4. ASSUME NEW i \in 1..L.at, i # L.at PROVE i \in 1..(L.at - 1)
    BY <1>1, <2>4
  <2> QED
    BY <2>2, <2>3, <2>4
<1>4. ASSUME L.met = {} PROVE ~ Overtaken(f, L.at + 1)'
  <2>1. Adds(f, L) /\ (Visited(L).visit = "typedef" => ~ There(Visited(L))')
    BY <1>1, <1>4
  <2>2. ~ Doomed(L)
    BY <1>4 DEF Entering
  <2> QED
    BY <1>1, <2>1, <2>2, MovedOvertaken
<1>5. v.kind = "Attribute" => Stood(L.resultType, v)'
  OBVIOUS
<1>6. /\ Entering(M)' /\ Finished(M)' /\ M.file = f /\ M.met = L.met
      /\ M.before = L.before
  <2> PICK stack : stack = StackAfter(L, o)
    OBVIOUS
  <2>1. M = Past(L, L.at, stack)
    BY DEF Moved
  <2> QED
    BY <1>1, <1>3, <1>4, <1>5, <2>1, PastEntering
<1> QED
  BY <1>2, <1>6 DEF Enters

\* A loader that leaves a typedef alone enters nothing that is inside it, unless
\* the typedef is new; and then it was made after what is inside it.
LEMMA LeavesEntering ==
    ASSUME AInv, NEW l \in Loaders, AtWork(l), UNCHANGED vars, NEW f,
           f = loader[l].file, NEW v, v = Current(l), v.visit = "typedef", LeaveTypedef(l),
           NEW x \in Objs, definedIn[x] # NoObj, absName[x] = PathOf(v), kind[x] = v.kind
    PROVE  Enters(l)
<1> PICK L \in Jobs : L = loader[l] /\ Placing(L) /\ L.status = "running" /\ Entering(L)
  BY JobOf DEF AInv
<1> PICK M : M = Skipped(L)
  OBVIOUS
<1> PICK B \in SUBSET Objs : B = L.before
  BY DEF Jobs
<1> PICK n : n = LastOf(L)
  OBVIOUS
<1>1. /\ Visited(L) = v /\ L.file = f /\ f \in Files /\ LInv /\ CInv
      /\ L.at \in DOMAIN f /\ L.at \in Nat /\ v = f[L.at]
  BY DEF Visited, Current, Jobs, AInv, LInv, Placing
<1>2. loader' = [loader EXCEPT ![l] = M]
  BY DEF LeaveTypedef, GoPast, Skipped, Past, LastOf
<1>3. /\ n \in DOMAIN f /\ Typedef(f, L.at, n) /\ L.at < n
      /\ f[n].kind = "Alias" /\ f[n].visit = "declare" /\ v.kind = "Alias"
  BY <1>1, TypedefEnds DEF LastOf
<1>4. n \in Nat /\ \A i \in 1..n : i \in DOMAIN f
  <2>1. Len(f) \in Nat /\ DOMAIN f = 1..Len(f)
    BY <1>1, FileFacts
  <2> QED
    BY <1>3, <2>1
<1>5. absName[x] = PathOf(f[n]) /\ absName[x] = PathOf(f[L.at])
  BY <1>1, <1>3 DEF Typedef
<1>6. ASSUME L.met \subseteq {f}
      PROVE  (\A i \in 1..n : Handled(f, i, B)) /\ DeclaredSince(f, B)
  <2>1. (\A i \in 1..(L.at - 1) : Handled(f, i, B)) /\ DeclaredSince(f, B)
    BY <1>1, <1>6 DEF Entering
  <2>2. ASSUME x \notin B PROVE Whole(f, x) /\ Identified(x, f[n]) /\ TypedAs(x, f[n])
    <3>1. Whole(f, x) /\ \E i \in DOMAIN f : Declares(f[i], x)
      BY <2>1, <2>2 DEF DeclaredSince
    <3>2. PICK i \in DOMAIN f : Declares(f[i], x)
      BY <3>1
    <3>3. i = n
      <4>1. f[i].visit \notin {"typedef", "end"} /\ PathOf(f[i]) = PathOf(f[n])
            /\ f[i].kind = "Alias"
        BY <1>3, <1>5, <3>2 DEF Declares
      <4> QED
        BY <1>1, <1>3, <4>1, AliasOnce
    <3> QED
      BY <1>3, <3>1, <3>2, <3>3 DEF Declares, Identified
  <2>3. Done(f[n], B)
    BY <1>3, <1>5, <2>2 DEF Done, DoneIn
  <2>4. ASSUME NEW i \in 1..n, L.at < i, i < n PROVE Handled(f, i, B)
    <3>1. i \in DOMAIN f
      BY <1>4
    <3>2. CASE x \in B
      BY <1>1, <1>3, <1>5, <2>4, <3>1, <3>2 DEF Omitted, Handled
    <3>3. CASE x \notin B
      <4>1. Done(f[i], {})
        BY <1>1, <1>3, <1>5, <2>2, <2>4, <3>1, <3>3 DEF Whole
      <4>2. f[i].kind # "Alias"
        BY <1>1, <1>3, <2>4, <3>1, TypedefAround
      <4> QED
        BY <4>1, <4>2 DEF Done, DoneIn, Handled
    <3> QED
      BY <3>2, <3>3
  <2>5. Handled(f, L.at, B)
    BY <1>1 DEF Handled, Done
  <2>6. ASSUME NEW i \in 1..n
        PROVE  i \in 1..(L.at - 1) \/ i = L.at \/ (L.at < i /\ i < n) \/ i = n
    BY <1>1, <1>4
  <2> QED
    BY <2>1, <2>3, <2>4, <2>5, <2>6 DEF Handled
<1>7. L.met \subseteq {f} => /\ \A i \in 1..n : Handled(f, i, B)'
                             /\ DeclaredSince(f, B)'
  <2> SUFFICES ASSUME L.met \subseteq {f}
               PROVE  /\ \A i \in 1..n : Handled(f, i, B)'
                      /\ DeclaredSince(f, B)'
    OBVIOUS
  <2>1. Contributes(f) /\ Completes(f)
    BY NothingContributes
  <2>2. DeclaredSince(f, B)'
    BY <1>1, <1>6, <2>1, DeclaredSinceKept
  <2>3. ASSUME NEW i \in 1..n PROVE Handled(f, i, B)'
    BY <1>1, <1>4, <1>6, <2>1, HandledKept
  <2> QED
    BY <2>2, <2>3
<1>8. ~ Overtaken(f, n + 1)'
  BY <1>1, <1>3, SkippedOvertaken
<1>9. /\ Entering(M)' /\ Finished(M)' /\ M.file = f /\ M.met = L.met
      /\ M.before = L.before
  <2> PICK stack, w : stack = L.stack /\ w = f[n]
    OBVIOUS
  <2>1. M = Past(L, n, stack) /\ w.kind # "Attribute"
    BY <1>3 DEF Skipped
  <2> QED
    BY <1>1, <1>3, <1>7, <1>8, <2>1, PastEntering
<1> QED
  BY <1>1, <1>2, <1>9 DEF Enters

\* It promises nothing once it has stopped.
LEMMA StopsEntering ==
    ASSUME LInv, NEW l \in Loaders, AtWork(l), NEW s \in {"failed", "killed"},
           loader' = [loader EXCEPT ![l].status = s]
    PROVE  Enters(l)
<1> PICK L \in Jobs : L = loader[l]
  BY JobOf
<1> PICK M : M = [L EXCEPT !.status = s]
  OBVIOUS
<1>1. /\ loader' = [loader EXCEPT ![l] = M] /\ M.status = s
      /\ M.file = L.file /\ M.met = L.met /\ M.before = L.before
  BY DEF Jobs
<1>2. Entering(M)' /\ Finished(M)'
  BY <1>1 DEF Entering, Finished
<1> QED
  BY <1>1, <1>2 DEF Enters

\* Where nothing is sent, nothing is undone.
LEMMA NothingUndone ==
    ASSUME UNCHANGED vars, NEW M, NEW v, NEW B
    PROVE  /\ Done(v, B) => Done(v, B)'
           /\ There(v)' => There(v)
           /\ Doomed(M)' => Doomed(M)
           /\ Entering(M) => Entering(M)'
<1>1. UNCHANGED <<life, definedIn, absName, kind, id, refs>>
  BY DEF vars, tree, naming, ids, links
<1>2. \A t, w : (Base(t, w) <=> Base(t, w)')
  BY <1>1 DEF Base
<1>3. \A t, w : Stood(t, w) => Stood(t, w)'
  BY <1>1, <1>2 DEF Stood, IsActive
<1>4. \A w : There(w)' => There(w)
  BY <1>1 DEF There
<1>5. \A o, w : TypedAs(o, w) => TypedAs(o, w)'
  BY <1>1, <1>3 DEF TypedAs
<1>6. \A w, b : Done(w, b) => Done(w, b)'
  BY <1>1, <1>5 DEF Done, DoneIn, Identified
<1>7. \A g, i, b : Handled(g, i, b) => Handled(g, i, b)'
  BY <1>1, <1>6 DEF Handled, Omitted
<1>8. \A g, o : Whole(g, o) => Whole(g, o)'
  BY <1>1, <1>6 DEF Whole
<1>9. \A g, b : DeclaredSince(g, b) => DeclaredSince(g, b)'
  BY <1>1, <1>5, <1>8 DEF DeclaredSince, Declares
<1>10. Doomed(M)' => Doomed(M)
  BY <1>4 DEF Doomed, Overtaken
<1>11. Entering(M) => Entering(M)'
  BY <1>1, <1>2, <1>3, <1>7, <1>9, <1>10 DEF Entering
<1> QED
  BY <1>4, <1>6, <1>10, <1>11

\* A loader and its file.
LEMMA LoaderFile ==
    ASSUME AInv, NEW l \in Loaders, AtWork(l)
    PROVE  \E L \in Jobs :
            /\ L = loader[l] /\ L.status = "running" /\ Placing(L) /\ Entering(L)
            /\ L.file \in Files /\ L.at \in DOMAIN L.file /\ Visited(L) = L.file[L.at]
            /\ Visited(L) = Current(l) /\ Last(L.stack) = Container(l)
            /\ TypedVisit(Visited(L)) /\ L.phase \in Phases(Visited(L))
            /\ LInv /\ CInv /\ AbsExact /\ NothingGone
<1> PICK L \in Jobs : L = loader[l] /\ Placing(L) /\ L.status = "running"
  BY JobOf DEF AInv
<1>1. Entering(L) /\ LInv /\ CInv /\ AbsExact /\ NothingGone
  BY DEF AInv, LInv
<1>2. L.file \in Files /\ L.at \in DOMAIN L.file /\ TypedVisit(Visited(L))
      /\ L.phase \in Phases(Visited(L))
  BY <1>1, ContainerFacts DEF Placing
<1> QED
  BY <1>1, <1>2 DEF Visited, Current, Container

\* What a loader that goes on to phase p with type t has to know.
Suits(L, p, t) ==
    LET v == Visited(L) IN
    /\ p = "wrap" => v.type.wrapped /\ Base(t, v)
    /\ (p # "wrap" /\ (p = "refs" \/ v.kind \in TypedAtOnce)) =>
            Stood(t, v) \/ (t = L.resultType /\ HasType(L))
    /\ p = "refs" => v.visit = "end"
    /\ p = "make" => ~ There(v) \/ Overtaken(L.file, L.at)
Onward(L, p, t, x) == [L EXCEPT !.phase = p, !.resultType = t, !.found = x]

\* It stays with its visit, which has what it knew.
LEMMA StaysEntering ==
    ASSUME LInv, NEW l \in Loaders, AtWork(l), Entering(loader[l]), UNCHANGED vars,
           NEW L \in Jobs, L = loader[l], NEW p, NEW t, NEW x, Suits(L, p, t), NEW M,
           M = Onward(L, p, t, x),
           loader' = [loader EXCEPT ![l] = M]
    PROVE  Enters(l)
<1> PICK v : v = Visited(L)
  OBVIOUS
<1>1. /\ M.status = L.status /\ M.phase = p /\ M.resultType = t /\ M.file = L.file
      /\ M.at = L.at /\ M.met = L.met /\ M.before = L.before
      /\ L.status = "running" /\ loader' = [loader EXCEPT ![l] = M]
  BY DEF Jobs, AtWork, Onward
<1>2. Visited(M) = v
  BY <1>1 DEF Visited
<1>3. HasType(M) => Stood(t, v)
  <2> SUFFICES ASSUME HasType(M) PROVE Stood(t, v)
    OBVIOUS
  <2>1. p # "wrap" /\ (p = "refs" \/ v.kind \in TypedAtOnce)
    BY <1>1, <1>2 DEF HasType, TypedFirst, TypedAtOnce
  <2>2. HasType(L) => Stood(L.resultType, v)
    BY <1>1 DEF Entering
  <2> QED
    BY <2>1, <2>2 DEF Suits
<1>4. Doomed(M) => Doomed(L)
  BY <1>1, <1>2 DEF Doomed, Suits
<1>5. Entering(M)
  <2>1. p = "wrap" => v.type.wrapped /\ Base(t, v)
    BY DEF Suits
  <2>2. p = "refs" => v.visit = "end"
    BY DEF Suits
  <2> QED
    BY <1>1, <1>2, <1>3, <1>4, <2>1, <2>2 DEF Entering
<1>6. Entering(M)'
  BY <1>5, NothingUndone
<1> QED
  BY <1>1, <1>6 DEF Enters, Finished, AtWork

LEMMA ResolveTypeEnters ==
    ASSUME AInv, NEW l \in Loaders, NEW f, f = loader[l].file, ResolveType(l)
    PROVE  Contributes(f) /\ Enters(l) /\ Completes(f)
<1>1. AtWork(l)
  BY DEF ResolveType, In, AtWork
<1> PICK L \in Jobs :
        /\ L = loader[l] /\ L.status = "running" /\ Placing(L) /\ Entering(L)
        /\ L.file \in Files /\ L.at \in DOMAIN L.file /\ Visited(L) = L.file[L.at]
        /\ Visited(L) = Current(l) /\ TypedVisit(Visited(L))
        /\ L.phase \in Phases(Visited(L)) /\ LInv /\ CInv /\ AbsExact
  BY <1>1, LoaderFile
<1> PICK v : v = Visited(L)
  OBVIOUS
<1> PICK t : t = TypeNamed(v.type.path)
  OBVIOUS
<1> PICK then : then = IF v.type.wrapped THEN "wrap" ELSE AfterType(v)
  OBVIOUS
<1>2. L.phase = "type"
  BY DEF ResolveType, In
<1>3. t # NoObj => Base(t, v) /\ TypeOutcome(t) # "endless"
  <2> SUFFICES ASSUME t # NoObj PROVE Base(t, v) /\ TypeOutcome(t) # "endless"
    OBVIOUS
  <2>1. Base(t, v)
    <3>1. v.type.path \in Seq(Names)
      BY DEF TypedVisit
    <3> QED
      BY <3>1, LookupHasName DEF Base, TypeNamed
  <2>2. t \in Objs \cup {Prim} /\ IsActive(t)
    BY <2>1 DEF Base, CInv, GInv, IInv, Placed, FixedServants
  <2> QED
    BY <2>1, <2>2, NeverEndless
<1>4. CASE Fails(l)
  <2>1. UNCHANGED vars
    BY <1>4 DEF Fails
  <2> QED
    BY <1>1, <1>4, <2>1, StopsEntering, NothingContributes DEF Fails, Exits
<1>5. CASE /\ t # NoObj /\ UNCHANGED vars
           /\ loader' = [loader EXCEPT ![l].resultType = t, ![l].phase = then]
  <2> PICK x : x = L.found
    OBVIOUS
  <2> PICK M : M = Onward(L, then, t, x)
    OBVIOUS
  <2>1. UNCHANGED vars
    BY <1>5
  <2>2. loader' = [loader EXCEPT ![l] = M]
    <3>1. M = [L EXCEPT !.resultType = t, !.phase = then]
      BY DEF Jobs, Onward
    <3> QED
      BY <1>5, <3>1
  <2>3. then = "wrap" => v.type.wrapped /\ Base(t, v)
    BY <1>3, <1>5 DEF AfterType
  <2>4. then # "wrap" => Stood(t, v)
    BY <1>3, <1>5 DEF Stood
  <2>5. then = "refs" => v.visit = "end"
    BY DEF AfterType
  <2>6. (then = "make" /\ There(v)) => Overtaken(L.file, L.at)
    <3>1. then = "make" => v.kind = "Alias" /\ v.visit = "declare"
      BY <1>2 DEF AfterType, Phases, TypedVisit
    <3> QED
      BY <3>1, AliasOvertaken
  <2>7. Suits(L, then, t)
    BY <2>3, <2>4, <2>5, <2>6 DEF Suits
  <2>8. Enters(l)
    BY <1>1, <2>1, <2>2, <2>7, StaysEntering
  <2> QED
    BY <1>5, <2>8, NothingContributes
<1>6. \/ Fails(l)
      \/ t # NoObj /\ TypeOutcome(t) = "endless"
      \/ /\ t # NoObj /\ UNCHANGED vars
         /\ loader' = [loader EXCEPT ![l].resultType = t, ![l].phase = then]
  BY DEF ResolveType
<1> QED
  BY <1>3, <1>4, <1>5, <1>6

LEMMA WrapTypeEnters ==
    ASSUME AInv, NEW l \in Loaders, NEW f, f = loader[l].file, WrapType(l)
    PROVE  Contributes(f) /\ Enters(l) /\ Completes(f)
<1>1. AtWork(l)
  BY DEF WrapType, In, AtWork
<1> PICK L \in Jobs :
        /\ L = loader[l] /\ L.status = "running" /\ Placing(L) /\ Entering(L)
        /\ L.file \in Files /\ L.at \in DOMAIN L.file /\ Visited(L) = L.file[L.at]
        /\ Visited(L) = Current(l) /\ TypedVisit(Visited(L))
        /\ L.phase \in Phases(Visited(L)) /\ LInv /\ CInv
  BY <1>1, LoaderFile
<1> PICK v : v = Visited(L)
  OBVIOUS
<1> PICK u : u = L.resultType
  OBVIOUS
<1> PICK o \in Objs : o = New /\ life[o] = "unborn"
  BY NewIsUnborn DEF WrapType
<1>2. L.phase = "wrap" /\ Keeps
  BY WrapTypeSteps, AfterRequest DEF WrapType, In
<1>3. /\ UNCHANGED <<definedIn, absName, id>>
      /\ life' = [life EXCEPT ![o] = "active"]
      /\ kind' = [kind EXCEPT ![o] = "Sequence"]
      /\ (\E R : refs' = [refs EXCEPT ![o] = R]) /\ refs'[o] = {u}
  BY DEF WrapType, CreateAnonymous, naming, ids, StoreReferences
<1>4. /\ definedIn'[o] = NoObj /\ kind'[o] = "Sequence" /\ life'[o] = "active"
      /\ ~ IsActive(o)
      /\ \A x \in Objs \ {o} : refs'[x] = refs[x]
  BY <1>3, Unborn DEF CInv, GInv, IInv, TypeOK, Servants, IsActive
<1>5. KeepsTypes
  BY <1>2, <1>4 DEF KeepsTypes
<1>6. Contributes(f) /\ Completes(f)
  <2>1. \A x \in Objs : definedIn[x] # NoObj => x # o
    BY <1>3, <1>4
  <2> QED
    BY <1>3, <1>4, <1>5, <2>1 DEF Contributes, Completes
<1> PICK then : then = AfterType(v)
  OBVIOUS
<1> PICK M : M = [L EXCEPT !.resultType = o, !.phase = then]
  OBVIOUS
<1>7. loader' = [loader EXCEPT ![l] = M]
  BY DEF WrapType
<1>8. /\ M.status = "running" /\ M.phase = then /\ M.resultType = o
      /\ M.file = L.file /\ M.at = L.at /\ M.met = L.met /\ M.before = L.before
  BY DEF Jobs
<1>9. Visited(M) = v /\ then # "wrap" /\ (then = "refs" => v.visit = "end")
  BY <1>8 DEF Visited, AfterType
<1>10. Stood(o, v)'
  <2>1. v.type.wrapped /\ Base(u, v)
    BY <1>2 DEF Entering
  <2>2. Base(u, v)'
    BY <1>5, <2>1, StoodKept
  <2> QED
    BY <1>3, <1>4, <2>1, <2>2 DEF Stood, IsActive
<1>11. L.met \subseteq {f} =>
        /\ \A i \in 1..(L.at - 1) : Handled(f, i, L.before)'
        /\ DeclaredSince(f, L.before)'
  BY <1>6, SoFarKept
<1>12. M.met = {} => ~ Doomed(M)'
  <2>1. then = "make" => v.kind = "Alias" /\ v.visit = "declare"
    BY <1>2, <1>9 DEF AfterType, Phases, TypedVisit
  <2>2. (then = "make" /\ There(v)) => Overtaken(L.file, L.at)
    BY <2>1, AliasOvertaken
  <2>3. \A w : There(w)' <=> There(w)
    BY <1>3 DEF There
  <2>4. Doomed(M)' => Overtaken(L.file, L.at)
    BY <1>8, <1>9, <2>2, <2>3 DEF Doomed, Overtaken
  <2>5. Overtaken(L.file, L.at) => Doomed(L)
    BY DEF Doomed
  <2> QED
    BY <1>8, <2>4, <2>5 DEF Entering
<1>13. Entering(M)'
  BY <1>8, <1>9, <1>10, <1>11, <1>12 DEF Entering
<1>14. Finished(M)'
  BY <1>8 DEF Finished
<1>15. M.file = loader[l].file /\ M.met = loader[l].met /\ M.before = loader[l].before
  BY <1>8
<1>16. Enters(l)
  BY <1>7, <1>13, <1>14, <1>15 DEF Enters
<1> QED
  BY <1>6, <1>16

LEMMA FindEnters ==
    ASSUME AInv, NEW l \in Loaders, NEW f, f = loader[l].file, Find(l)
    PROVE  Contributes(f) /\ Enters(l) /\ Completes(f)
<1>1. AtWork(l) /\ UNCHANGED vars
  BY DEF Find, In, AtWork
<1> PICK L \in Jobs :
        /\ L = loader[l] /\ L.status = "running" /\ Placing(L) /\ Entering(L)
        /\ L.file \in Files /\ L.at \in DOMAIN L.file /\ Visited(L) = L.file[L.at]
        /\ Visited(L) = Current(l) /\ Last(L.stack) = Container(l)
        /\ TypedVisit(Visited(L)) /\ L.phase \in Phases(Visited(L)) /\ LInv
  BY <1>1, LoaderFile
<1> PICK v : v = Visited(L)
  OBVIOUS
<1> PICK x : x = Lookup(Last(L.stack), <<v.name>>)
  OBVIOUS
<1>2. L.phase = "find" /\ Contributes(f) /\ Completes(f)
  BY <1>1, NothingContributes DEF Find, In
<1>3. v.visit \in {"declare", "again", "forward", "typedef"} /\ v = f[L.at]
      /\ (v.kind \in TypedAtOnce /\ v.visit # "typedef" => HasType(L))
  BY <1>2 DEF Phases, TypedVisit, HasType, TypedFirst, TypedAtOnce
<1>4. /\ x # NoObj => /\ x \in Objs /\ definedIn[x] # NoObj /\ absName[x] = PathOf(v)
      /\ x = NoObj => ~ There(v)
  BY <1>3, FindsThere
<1>5. CASE Fails(l)
  BY <1>1, <1>2, <1>5, StopsEntering DEF Fails, Exits
<1>6. ASSUME NEW p \in {"make", "id"}, p = "make" => x = NoObj, v.visit # "typedef",
             NEW y, NEW t, t = L.resultType, NEW M, M = Onward(L, p, t, y),
             loader' = [loader EXCEPT ![l] = M]
      PROVE  Enters(l)
  <2>1. Suits(L, p, t)
    BY <1>3, <1>4, <1>6 DEF Suits
  <2> QED
    BY <1>1, <1>6, <2>1, StaysEntering
<1>7. CASE x = NoObj /\ v.visit # "typedef" /\ GoOn(l, "make")
  <2> PICK y, p, t : y = L.found /\ p = "make" /\ t = L.resultType
    OBVIOUS
  <2> PICK M : M = Onward(L, p, t, y)
    OBVIOUS
  <2>1. loader' = [loader EXCEPT ![l] = M]
    <3>1. M = [L EXCEPT !.phase = p]
      BY DEF Jobs, Onward
    <3> QED
      BY <1>7, <3>1 DEF GoOn
  <2>2. x = NoObj /\ v.visit # "typedef" /\ p \in {"make", "id"}
    BY <1>7
  <2> QED
    BY <1>2, <1>6, <2>1, <2>2
<1>8. CASE /\ x # NoObj /\ v.visit \notin LeftAlone
           /\ loader' = [loader EXCEPT ![l].found = x, ![l].phase = "id"]
  <2> PICK p, t : p = "id" /\ t = L.resultType
    OBVIOUS
  <2> PICK M : M = Onward(L, p, t, x)
    OBVIOUS
  <2>1. loader' = [loader EXCEPT ![l] = M]
    <3>1. M = [L EXCEPT !.found = x, !.phase = p]
      BY DEF Jobs, Onward
    <3> QED
      BY <1>8, <3>1
  <2>2. v.visit # "typedef" /\ p \in {"make", "id"} /\ p # "make"
    BY <1>8 DEF LeftAlone
  <2> QED
    BY <1>2, <1>6, <2>1, <2>2
<1>9. CASE x = NoObj /\ v.visit = "typedef" /\ NextVisit(l, x)
  <2>1. v.kind # "Attribute"
    BY <1>9 DEF TypedVisit
  <2>2. \A B : Done(v, B)'
    BY <1>9 DEF Done
  <2>3. ~ There(v)' /\ Adds(f, loader[l])
    BY <1>1, <1>4, <1>9 DEF There, Adds, vars, tree, naming
  <2> QED
    BY <1>1, <1>2, <1>9, <2>1, <2>2, <2>3, GoesEntering
<1>10. CASE x # NoObj /\ v.visit = "forward" /\ NextVisit(l, x)
  <2>1. v.kind # "Attribute" /\ v.kind # "Alias" /\ ~ Typing(v)
    BY <1>10 DEF TypedVisit, Typing, TypedAtOnce
  <2>2. ASSUME NEW B PROVE Done(v, B)'
    <3>1. Done(v, B)
      BY <1>4, <1>10, <2>1 DEF Done, DoneIn, Identified, TypedAs
    <3> QED
      BY <1>1, <3>1, NothingUndone
  <2>3. Adds(f, loader[l])
    BY <1>1 DEF Adds, vars, tree, naming
  <2> QED
    BY <1>1, <1>2, <1>10, <2>1, <2>2, <2>3, GoesEntering
<1>11. CASE x # NoObj /\ v.visit = "typedef" /\ kind[x] = v.kind /\ LeaveTypedef(l)
  <2>1. x \in Objs /\ definedIn[x] # NoObj /\ absName[x] = PathOf(v) /\ kind[x] = v.kind
    BY <1>4, <1>11
  <2>2. v = Current(l) /\ v.visit = "typedef" /\ LeaveTypedef(l)
    BY <1>11
  <2> QED
    BY <1>1, <1>2, <2>1, <2>2, LeavesEntering
<1>12. \/ Fails(l)
       \/ x = NoObj /\ v.visit # "typedef" /\ GoOn(l, "make")
       \/ x = NoObj /\ v.visit = "typedef" /\ NextVisit(l, x)
       \/ x # NoObj /\ v.visit = "forward" /\ NextVisit(l, x)
       \/ x # NoObj /\ v.visit = "typedef" /\ kind[x] = v.kind /\ LeaveTypedef(l)
       \/ /\ x # NoObj /\ v.visit \notin LeftAlone
          /\ loader' = [loader EXCEPT ![l].found = x, ![l].phase = "id"]
  <2>1. Exits(l) => Fails(l)
    BY <1>1 DEF Fails
  <2> QED
    BY <1>3, <2>1 DEF Find, LeftAlone, Expected
<1> QED
  BY <1>2, <1>5, <1>7, <1>8, <1>9, <1>10, <1>11, <1>12

\* What is made is not there yet, nor is the typedef it is inside of.
LEMMA MadeIsNew ==
    ASSUME LInv, NEW l \in Loaders, NEW L \in Jobs, L = loader[l], In(l, "make"),
           CarefulRequest, NEW o \in Objs, definedIn[o] = NoObj,
           \A x \in Objs \ {o} : definedIn'[x] = definedIn[x],
           absName'[o] = PathOf(Visited(L)), L.met = {} => ~ Doomed(L),
           NEW f, f = L.file, Visited(L).visit \in {"declare", "forward"}
    PROVE  L.met = {} => Adds(f, L)
<1> SUFFICES ASSUME L.met = {} PROVE Adds(f, L)
  OBVIOUS
<1> PICK v : v = Visited(L)
  OBVIOUS
<1>1. Keeps /\ \A x \in Objs : definedIn[x] # NoObj => IsActive(x)
  BY AfterRequest DEF LInv, CInv, GInv, Placed
<1>2. ASSUME NEW j \in DOMAIN f, There(f[j])' PROVE There(f[j]) \/ PathOf(f[j]) = PathOf(v)
  <2>1. PICK x \in Objs : definedIn'[x] # NoObj /\ absName'[x] = PathOf(f[j])
    BY <1>2 DEF There
  <2>2. CASE x = o
    BY <2>1, <2>2
  <2>3. CASE x # o
    <3>1. definedIn[x] # NoObj /\ absName'[x] = absName[x]
      BY <1>1, <2>1, <2>3 DEF Keeps
    <3> QED
      BY <2>1, <3>1 DEF There
  <2> QED
    BY <2>2, <2>3
<1> QED
  BY <1>2 DEF Adds

\* When a typedef is made, what is inside it has been entered.
LEMMA MakesWhole ==
    ASSUME LInv, NEW f \in Files, NEW L \in Jobs, L.status = "running", L.file = f,
           Placing(L), Entering(L), L.met \subseteq {f}, Contributes(f),
           NEW v, v = Visited(L), v.visit \in {"declare", "forward"}, ~ There(v),
           NEW o \in Objs, absName'[o] = PathOf(v), kind'[o] = v.kind
    PROVE  Whole(f, o)'
<1> SUFFICES ASSUME v.kind = "Alias", NEW a \in DOMAIN f, NEW i \in DOMAIN f,
                    NEW j \in DOMAIN f, Typedef(f, a, j), a < i, i < j,
                    PathOf(v) = PathOf(f[j])
             PROVE  Done(f[i], {})'
  BY DEF Whole
<1> PICK B : B = L.before
  OBVIOUS
<1>1. L.at \in DOMAIN f /\ v = f[L.at] /\ L.at \in Nat /\ CInv
  BY DEF Placing, Visited, Jobs, LInv
<1>2. f[j].visit = "declare" /\ PathOf(f[a]) = PathOf(v)
  BY DEF Typedef
<1>3. j = L.at
  BY <1>1, <1>2, AliasOnce
<1>4. i \in 1..(L.at - 1)
  <2>1. Len(f) \in Nat /\ DOMAIN f = 1..Len(f)
    BY FileFacts
  <2> QED
    BY <1>3, <2>1
<1>5. Handled(f, i, B)
  BY <1>4 DEF Entering
<1>6. f[i].kind # "Alias" /\ f[i].visit # "typedef"
  BY TypedefAround
<1>7. ~ Omitted(f, i, B)
  <2> SUFFICES ASSUME Omitted(f, i, B) PROVE FALSE
    OBVIOUS
  <2>1. PICK b \in DOMAIN f, k \in DOMAIN f :
            /\ Typedef(f, b, k) /\ b < i /\ i < k
            /\ \E x \in B : definedIn[x] # NoObj /\ absName[x] = PathOf(f[b])
    BY DEF Omitted
  <2>2. a = b
    BY <2>1, TypedefAround
  <2> QED
    BY <1>2, <2>1, <2>2 DEF There, Jobs
<1>8. Done(f[i], {})
  BY <1>5, <1>6, <1>7 DEF Handled, Done, DoneIn
<1> PICK w : w = f[i]
  OBVIOUS
<1>9. Done(w, {})'
  BY <1>1, <1>8, DoneKept
<1> QED
  BY <1>9

LEMMA MakeEnters ==
    ASSUME AInv, NEW l \in Loaders, NEW f, f = loader[l].file, Make(l)
    PROVE  /\ Contributes(f) /\ Enters(l)
           /\ loader[l].met \subseteq {f} => Completes(f)
<1>1. AtWork(l) /\ In(l, "make") /\ CarefulRequest
  BY MakeSteps DEF Make, In, AtWork, AInv
<1> PICK L \in Jobs :
        /\ L = loader[l] /\ L.status = "running" /\ Placing(L) /\ Entering(L)
        /\ L.file \in Files /\ L.at \in DOMAIN L.file /\ Visited(L) = L.file[L.at]
        /\ Visited(L) = Current(l) /\ Last(L.stack) = Container(l) /\ LInv /\ CInv
  BY <1>1, LoaderFile
<1> PICK v : v = Visited(L)
  OBVIOUS
<1> PICK c : c = Last(L.stack)
  OBVIOUS
<1>2. L.phase = "make" /\ Keeps
  BY <1>1, AfterRequest DEF In
<1>3. CASE Fails(l)
  BY <1>1, <1>3, StopsEntering, NothingContributes DEF Fails, Exits
<1>4. ASSUME SomeNew, CreateContained(c, New, v.kind, v.id, v.name),
             refs'[New] = FirstRefs(l), NextVisit(l, New)
      PROVE  /\ Contributes(f) /\ Enters(l)
             /\ L.met \subseteq {f} => Completes(f)
  <2>1. PICK o \in Objs :
            /\ o = New /\ life[o] = "unborn"
            /\ kind'[o] = v.kind /\ definedIn'[o] = c
            /\ absName'[o] = PathOf(v) /\ id'[o] = v.id
            /\ \A x \in Objs \ {o} :
                id'[x] = id[x] /\ refs'[x] = refs[x] /\ definedIn'[x] = definedIn[x]
    BY <1>1, <1>4, Made
  <2>2. c # NoObj /\ v.visit \in {"declare", "forward"} /\ ~ There(v)
    <3>1. NameFree(c, v.name)
      BY <1>4, Zenon DEF CreateContained, CreateRequest
    <3> QED
      BY <1>1, <3>1, MakeFacts, ThereTaken
  <2>3. definedIn[o] = NoObj /\ ~ IsActive(o)
    BY <2>1, Unborn DEF CInv, IsActive
  <2>4. KeepsTypes
    BY <1>2, <2>1, <2>3 DEF KeepsTypes
  <2>5. v.kind \in TypedAtOnce => refs'[o] = {L.resultType} /\ Stood(L.resultType, v)'
    <3> SUFFICES ASSUME v.kind \in TypedAtOnce
                 PROVE  refs'[o] = {L.resultType} /\ Stood(L.resultType, v)'
      OBVIOUS
    <3> PICK t : t = L.resultType
      OBVIOUS
    <3>1. Stood(t, v)
      BY <1>2 DEF Entering, HasType
    <3>2. Stood(t, v)'
      BY <2>4, <3>1, StoodKept
    <3> QED
      BY <1>4, <2>1, <3>2 DEF FirstRefs
  <2>6. TypedAs(o, v)'
    BY <2>2, <2>5 DEF TypedAs, Typing
  <2>7. Declares(v, o)'
    BY <2>1, <2>2, <2>6 DEF Declares
  <2>8. Contributes(f)
    <3>1. \A x \in Objs : definedIn[x] # NoObj => x # o
      BY <2>3
    <3>2. \A x \in Objs : (definedIn[x] = NoObj /\ definedIn'[x] # NoObj) => x = o
      BY <2>1
    <3>3. \E j \in DOMAIN f : Declares(f[j], o)'
      BY <2>7
    <3> QED
      BY <2>1, <2>4, <3>1, <3>2, <3>3 DEF Contributes
  <2>9. ASSUME NEW B PROVE Done(v, B)'
    BY <2>1, <2>2, <2>6 DEF Done, DoneIn, Identified
  <2>a. L.met \subseteq {f} => Completes(f)
    <3>1. L.met \subseteq {f} => Whole(f, o)'
      BY <2>1, <2>2, <2>8, MakesWhole
    <3>2. \A x \in Objs : (definedIn[x] = NoObj /\ definedIn'[x] # NoObj) => x = o
      BY <2>1
    <3> QED
      BY <3>1, <3>2 DEF Completes
  <2>b. L.met = {} => Adds(f, L)
    <3>1. L.met = {} => ~ Doomed(L)
      BY DEF Entering
    <3> QED
      BY <1>1, <2>1, <2>2, <2>3, <3>1, MadeIsNew
  <2>10. v.kind = "Attribute" => Stood(L.resultType, v)'
    BY <2>5 DEF TypedAtOnce
  <2>11. \A t : (t = L.resultType /\ v.kind = "Attribute") => Stood(t, v)'
    BY <2>10
  <2>12. Enters(l)
    BY <1>1, <1>4, <2>2, <2>8, <2>9, <2>a, <2>b, <2>11, GoesEntering
  <2> QED
    BY <2>8, <2>12, <2>a
<1>5. ASSUME NEW site \in {"initRemoveId", "typeLoop"},
             CreateContainedDies(c, v.kind, v.id, v.name, site),
             site = "typeLoop" => \E t \in FirstRefs(l) : Loops(v.kind, t)
      PROVE  FALSE
  BY <1>1, <1>5, MakeFacts
<1> QED
  BY <1>3, <1>4, <1>5 DEF Make

LEMMA UpdateIdEnters ==
    ASSUME AInv, NEW l \in Loaders, NEW f, f = loader[l].file, UpdateId(l)
    PROVE  Contributes(f) /\ Enters(l) /\ Completes(f)
<1>1. AtWork(l) /\ CarefulRequest
  BY UpdateIdSteps DEF UpdateId, In, AtWork, AInv
<1> PICK L \in Jobs :
        /\ L = loader[l] /\ L.status = "running" /\ Placing(L) /\ Entering(L)
        /\ L.file \in Files /\ L.at \in DOMAIN L.file /\ Visited(L) = L.file[L.at]
        /\ Visited(L) = Current(l) /\ Last(L.stack) = Container(l)
        /\ TypedVisit(Visited(L)) /\ L.phase \in Phases(Visited(L))
        /\ LInv /\ CInv /\ AbsExact
  BY <1>1, LoaderFile
<1> PICK v : v = Visited(L)
  OBVIOUS
<1> PICK o : o = L.found
  OBVIOUS
<1> DEFINE goOn == IF v.kind \in TypedAtOnce THEN GoOn(l, "refs") ELSE NextVisit(l, o)
<1>2. L.phase = "id" /\ Keeps
  BY <1>1, AfterRequest DEF UpdateId, In
<1>3. v.visit \in {"declare", "again"} /\ v.kind # "Alias" /\ v.id \in Ids
  BY <1>2 DEF Phases, TypedVisit, TypedFirst
<1>a. UNCHANGED <<definedIn, absName>> /\ Completes(f) /\ Adds(f, loader[l])
  <2>1. LoaderStep(l) /\ ~ Make(l)
    BY DEF LoaderStep, UpdateId, Make, In
  <2>2. UNCHANGED <<definedIn, absName>>
    BY <2>1, OnlyMakeDefines
  <2> QED
    BY <2>2 DEF Completes, Adds
<1>4. /\ o \in Objs /\ definedIn[o] # NoObj /\ absName[o] = PathOf(v)
      /\ kind[o] = v.kind
  <2>1. Stands(o, v, Last(L.stack))
    BY <1>2 DEF Placing
  <2> QED
    BY <1>3, <2>1, StandsThere
<1>5. IsActive(o)
  BY <1>4 DEF CInv, GInv, Placed
<1>6. ASSUME Contributes(f), id'[o] = v.id, goOn PROVE Enters(l)
  <2>1. v.kind \in TypedAtOnce => Stood(L.resultType, v)'
    <3> PICK t : t = L.resultType
      OBVIOUS
    <3>1. v.kind \in TypedAtOnce => Stood(t, v)
      BY <1>2 DEF Entering, HasType
    <3> QED
      BY <1>6, <3>1, StoodKept DEF Contributes
  <2>2. CASE v.kind \in TypedAtOnce
    <3> PICK M : M = [L EXCEPT !.phase = "refs"]
      OBVIOUS
    <3>1. loader' = [loader EXCEPT ![l] = M]
      BY <1>6, <2>2 DEF GoOn
    <3>2. /\ M.status = "running" /\ M.phase = "refs" /\ M.resultType = L.resultType
          /\ M.file = L.file /\ M.at = L.at /\ M.met = L.met /\ M.before = L.before
          /\ M.found = o
      BY DEF Jobs
    <3>3. Visited(M) = v /\ (M.met = {} => ~ Doomed(M)')
      <4>1. Visited(M) = v
        BY <3>2 DEF Visited
      <4>2. Doomed(M)' => Overtaken(L.file, L.at)
        BY <1>a, <3>2 DEF Doomed, Overtaken, There
      <4>3. Overtaken(L.file, L.at) => Doomed(L)
        BY DEF Doomed
      <4> QED
        BY <3>2, <4>1, <4>2, <4>3 DEF Entering
    <3>4. L.met \subseteq {f} =>
            /\ \A i \in 1..(L.at - 1) : Handled(f, i, L.before)'
            /\ DeclaredSince(f, L.before)'
      BY <1>6, <1>a, SoFarKept
    <3>5. Entering(M)'
      BY <1>6, <2>1, <2>2, <3>2, <3>3, <3>4 DEF Entering
    <3> QED
      BY <3>1, <3>2, <3>5 DEF Enters, Finished
  <2>3. CASE v.kind \notin TypedAtOnce
    <3>1. v.kind # "Attribute" /\ NextVisit(l, o)
      BY <1>6, <2>3 DEF TypedAtOnce
    <3>2. definedIn'[o] # NoObj /\ absName'[o] = PathOf(v) /\ kind'[o] = v.kind
      BY <1>2, <1>4, <1>5 DEF Keeps
    <3>3. ASSUME NEW B PROVE Done(v, B)'
      BY <1>3, <1>4, <1>6, <2>3, <3>2 DEF Done, DoneIn, Identified, TypedAs, Typing
    <3> HIDE DEF goOn
    <3> QED
      BY <1>1, <1>3, <1>6, <1>a, <3>1, <3>3, GoesEntering
  <2> QED
    BY <2>2, <2>3
<1>7. CASE id[o] = v.id /\ goOn /\ UNCHANGED vars
  <2>1. id'[o] = v.id
    BY <1>7 DEF vars, ids
  <2> QED
    BY <1>6, <1>7, <2>1, NothingContributes
<1>8. CASE SetId(o, v.id) /\ goOn
  <2>1. /\ id' = [id EXCEPT ![o] = v.id] /\ UNCHANGED <<definedIn, refs>>
    BY <1>8 DEF SetId, ReplaceId, tree, links
  <2>2. id'[o] = v.id /\ \A x \in Objs \ {o} : id'[x] = id[x]
    BY <1>4, <2>1 DEF CInv, GInv, IInv, TypeOK
  <2>3. KeepsTypes
    BY <1>2, <2>1 DEF KeepsTypes
  <2>4. \E j \in DOMAIN f :
            f[j].visit # "end" /\ PathOf(f[j]) = absName[o] /\ id'[o] = f[j].id
    BY <1>3, <1>4, <2>2
  <2>5. Contributes(f)
    BY <1>3, <1>4, <2>1, <2>2, <2>3, <2>4 DEF Contributes
  <2> QED
    BY <1>6, <1>8, <1>a, <2>2, <2>5
<1>9. CASE Fails(l)
  BY <1>1, <1>9, StopsEntering, NothingContributes DEF Fails, Exits
<1>10. CASE SetIdDies(o, v.id)
  BY <1>3, <1>4, <1>10, NobodyDies
<1> HIDE DEF goOn
<1> QED
  BY <1>7, <1>8, <1>9, <1>10, <1>a DEF UpdateId, goOn

LEMMA UpdateRefsEnters ==
    ASSUME AInv, NEW l \in Loaders, NEW f, f = loader[l].file, UpdateRefs(l)
    PROVE  Contributes(f) /\ Enters(l) /\ Completes(f)
<1>1. AtWork(l) /\ CarefulRequest
  BY UpdateRefsSteps DEF UpdateRefs, In, AtWork, AInv
<1> PICK L \in Jobs :
        /\ L = loader[l] /\ L.status = "running" /\ Placing(L) /\ Entering(L)
        /\ L.file \in Files /\ L.at \in DOMAIN L.file /\ Visited(L) = L.file[L.at]
        /\ Visited(L) = Current(l) /\ Last(L.stack) = Container(l)
        /\ TypedVisit(Visited(L)) /\ L.phase \in Phases(Visited(L))
        /\ LInv /\ CInv /\ AbsExact
  BY <1>1, LoaderFile
<1> PICK v : v = Visited(L)
  OBVIOUS
<1> PICK o : o = UpdateTarget(l)
  OBVIOUS
<1> PICK t : t = L.resultType
  OBVIOUS
<1>2. L.phase = "refs" /\ Keeps
  BY <1>1, AfterRequest DEF UpdateRefs, In
<1>3. Typing(v) /\ v.visit \notin {"forward", "typedef"} /\ v.kind # "Alias"
  BY <1>2 DEF Phases, TypedVisit, Typing, TypedAtEnd, TypedAtOnce, TypedFirst
<1>a. Completes(f) /\ Adds(f, loader[l])
  <2>1. LoaderStep(l) /\ ~ Make(l)
    BY DEF LoaderStep, UpdateRefs, Make, In
  <2>2. UNCHANGED <<definedIn, absName>>
    BY <2>1, OnlyMakeDefines
  <2> QED
    BY <2>2 DEF Completes, Adds
<1>4. /\ o \in Objs /\ definedIn[o] # NoObj /\ absName[o] = PathOf(v)
      /\ kind[o] = v.kind
  <2>1. CASE v.visit = "end"
    <3> PICK c : c = Last(L.stack)
      OBVIOUS
    <3>1. c \in Objs /\ kind[c] = v.kind /\ Opened(f, c, v.scope) /\ o = c
      BY <2>1, ContainerHolds, ContainerFacts DEF UpdateTarget
    <3>2. v.scope # <<>>
      BY <2>1, FileFacts DEF WellNested
    <3> QED
      BY <2>1, <3>1, <3>2 DEF Opened, PathOf
  <2>2. CASE v.visit # "end"
    <3>1. o = L.found /\ Stands(o, v, Last(L.stack))
      BY <1>2, <2>2 DEF Placing, UpdateTarget
    <3> QED
      BY <2>2, <3>1, StandsThere
  <2> QED
    BY <2>1, <2>2
<1>5. IsActive(o)
  BY <1>4 DEF CInv, GInv, Placed
<1>6. Stood(t, v) /\ t \in Objs \cup {Prim}
  <2>1. t # NoObj /\ t \in Objs \cup {Prim, NoObj}
    BY <1>2 DEF Placing, KnowsType, Jobs
  <2> QED
    BY <1>2, <2>1 DEF Entering, HasType
<1>7. CASE SetReferences(o) /\ refs'[o] = {t} /\ NextVisit(l, o)
  <2>1. UNCHANGED <<definedIn, id>> /\ \A x \in Objs \ {o} : refs'[x] = refs[x]
    <3>1. (\E R : refs' = [refs EXCEPT ![o] = R]) /\ UNCHANGED <<definedIn, id>>
      BY <1>7 DEF SetReferences, StoreReferences, tree, ids
    <3> QED
      BY <3>1 DEF CInv, GInv, IInv, TypeOK, Servants
  <2>2. KeepsTypes
    BY <1>2, <1>4, <2>1 DEF KeepsTypes
  <2>3. Stood(t, v)'
    BY <1>6, <2>2, StoodKept
  <2>4. \E u \in refs'[o] : refs'[o] = {u} /\ Stood(u, v)'
    BY <1>7, <2>3
  <2>5. Contributes(f)
    <3>1. \E j \in DOMAIN f :
                /\ Typing(f[j]) /\ PathOf(f[j]) = absName[o] /\ f[j].kind = kind[o]
                /\ \E u \in refs'[o] : refs'[o] = {u} /\ Stood(u, f[j])'
      BY <1>3, <1>4, <2>4
    <3> QED
      BY <1>3, <1>4, <2>1, <2>2, <3>1 DEF Contributes
  <2>6. definedIn'[o] # NoObj /\ absName'[o] = PathOf(v) /\ kind'[o] = v.kind
    BY <1>2, <1>4, <1>5 DEF Keeps
  <2>7. ASSUME NEW B, L.met \subseteq {f} PROVE Done(v, B)'
    <3>1. Identified(o, v)'
      <4>1. v.visit # "end" => id[o] = v.id
        BY <1>2, <2>7 DEF Entering, UpdateTarget
      <4> QED
        BY <2>1, <4>1 DEF Identified
    <3>2. TypedAs(o, v)'
      BY <2>4 DEF TypedAs
    <3> QED
      BY <1>4, <2>6, <3>1, <3>2 DEF Done, DoneIn
  <2>8. Enters(l)
    BY <1>1, <1>3, <1>7, <1>a, <2>3, <2>5, <2>7, GoesEntering
  <2> QED
    BY <1>a, <2>5, <2>8
<1>8. CASE Fails(l)
  BY <1>1, <1>8, StopsEntering, NothingContributes DEF Fails, Exits
<1>9. ~ Loops(kind[o], t)
  BY <1>6, NothingLoops
<1> QED
  BY <1>7, <1>8, <1>9, <1>a DEF UpdateRefs

LEMMA PopEnters ==
    ASSUME AInv, NEW l \in Loaders, NEW f, f = loader[l].file, Pop(l)
    PROVE  Contributes(f) /\ Enters(l) /\ Completes(f)
<1>1. AtWork(l) /\ UNCHANGED vars /\ NextVisit(l, NoObj)
  BY DEF Pop, In, AtWork
<1> PICK L \in Jobs :
        /\ L = loader[l] /\ L.status = "running" /\ Placing(L) /\ Entering(L)
        /\ L.file \in Files /\ L.at \in DOMAIN L.file /\ Visited(L) = L.file[L.at]
        /\ Visited(L) = Current(l) /\ L.phase \in Phases(Visited(L)) /\ LInv /\ CInv
  BY <1>1, LoaderFile
<1> PICK v : v = Visited(L)
  OBVIOUS
<1> PICK c : c = Last(L.stack)
  OBVIOUS
<1>2. /\ v.visit = "end" /\ v.kind \notin TypedAtEnd /\ Contributes(f) /\ Completes(f)
      /\ Adds(f, loader[l])
  BY <1>1, NothingContributes DEF Pop, In, Phases, Adds, vars, tree, naming
<1>3. c \in Objs /\ kind[c] = v.kind /\ Opened(f, c, v.scope) /\ v.scope # <<>>
  BY <1>2, ContainerHolds, ContainerFacts, FileFacts DEF WellNested
<1>4. v.kind # "Attribute"
  BY <1>2, EndOfOpener DEF Openers
<1>5. ASSUME NEW B PROVE Done(v, B)'
  <2>1. Done(v, B)
    BY <1>2, <1>3 DEF Done, DoneIn, Opened, PathOf, Identified, TypedAs, Typing
  <2> QED
    BY <1>1, <2>1, NothingUndone
<1> QED
  BY <1>1, <1>2, <1>4, <1>5, GoesEntering

LEMMA KillEnters ==
    ASSUME AInv, NEW l \in Loaders, NEW f, f = loader[l].file, Kill(l)
    PROVE  Contributes(f) /\ Enters(l) /\ Completes(f)
BY StopsEntering, NothingContributes DEF Kill, AInv

\* Each step of a loader contributes to its file, and leaves its own memory
\* right.
LEMMA StepEnters ==
    ASSUME AInv, NEW l \in Loaders, NEW f, f = loader[l].file, LoaderStep(l)
    PROVE  /\ Contributes(f) /\ Enters(l) /\ AtWork(l)
           /\ loader[l].met \subseteq {f} => Completes(f)
<1>1. AtWork(l)
  BY DEF LoaderStep, ResolveType, WrapType, Find, Make, UpdateId, UpdateRefs, Pop, Kill,
         In, AtWork
<1> QED
  BY <1>1, ResolveTypeEnters, WrapTypeEnters, FindEnters, MakeEnters, UpdateIdEnters,
     UpdateRefsEnters, PopEnters, KillEnters DEF LoaderStep

-----------------------------------------------------------------------------
(* What a load leaves.                                                     *)

LEMMA InitAInv == LoaderInit => AInv
<1> SUFFICES ASSUME LoaderInit PROVE AInv
  OBVIOUS
<1>1. LInv /\ \A l \in Loaders : loader[l] = Idle
  BY InitLInv DEF LoaderInit
<1> QED
  BY <1>1 DEF AInv, AllMet, AtWork, Entering, Idle

\* A loader that has only begun has done nothing.
LEMMA FirstEntering ==
    ASSUME LInv, NEW f \in Files, NEW L, L.status = "running", L.file = f, L.at = 1,
           L.phase = FirstPhase(f[1]), L.before = {o \in Objs : IsActive(o)}
    PROVE  Entering(L)
<1> PICK v : v = f[1]
  OBVIOUS
<1>1. Visited(L) = v /\ 1..(L.at - 1) = {}
  BY DEF Visited
<1>2. 1 \in DOMAIN f
  <2>1. Len(f) \in Nat \ {0} /\ DOMAIN f = 1..Len(f)
    BY FileFacts
  <2> QED
    BY <2>1
<1>3. v.visit \in {"declare", "forward", "typedef", "end"}
      /\ (v.visit = "forward" => v.kind \in {"Struct", "Interface"})
      /\ (v.visit = "typedef" => v.kind = "Alias")
  <2>1. OneTypeEach(f) /\ TypedVisit(f[1])
    BY <1>2, FileFacts
  <2>2. v.visit # "again"
    BY <1>2, <2>1 DEF OneTypeEach
  <2> QED
    BY <2>1, <2>2 DEF TypedVisit
<1>4. L.phase = FirstPhase(v) /\ L.phase \in {"type", "find", "pop"}
  BY FirstPhases
<1>5. ~ HasType(L) /\ ~ Doomed(L)
  <2>1. ~ HasType(L)
    BY <1>1, <1>3, <1>4 DEF HasType, FirstPhase, TypedFirst, TypedAtOnce
  <2>2. ~ Overtaken(f, 1)
    <3>1. \A a \in DOMAIN f : ~ (a < 1)
      <4>1. Len(f) \in Nat /\ DOMAIN f = 1..Len(f)
        BY FileFacts
      <4> QED
        BY <4>1
    <3> QED
      BY <3>1 DEF Overtaken
  <2> QED
    BY <1>4, <2>1, <2>2 DEF Doomed
<1>6. DeclaredSince(f, L.before)
  BY DEF DeclaredSince, LInv, CInv, GInv, Placed
<1> QED
  BY <1>1, <1>4, <1>5, <1>6 DEF Entering

LEMMA BeginAInv ==
    ASSUME AInv, NEW l \in Loaders, NEW f \in Files, Begin(l, f)
    PROVE  AInv'
<1>1. LInv /\ LInv' /\ UNCHANGED vars
  BY BeginLInv DEF AInv
<1> PICK L : L = loader'[l]
  OBVIOUS
<1>2. /\ L.status = "running" /\ L.file = f /\ L.at = 1 /\ L.phase = FirstPhase(f[1])
      /\ L.before = {o \in Objs : IsActive(o)}
      /\ L.met = UNION {{loader[j].file} \cup loader[j].met :
                            j \in {j \in Loaders \ {l} : AtWork(j)}}
      /\ ~ AtWork(l)
      /\ \A k \in Loaders \ {l} :
            loader'[k] = IF AtWork(k) THEN [loader[k] EXCEPT !.met = @ \cup {f}]
                         ELSE loader[k]
  BY DEF Begin
<1>3. ASSUME NEW k \in Loaders PROVE Entering(loader'[k])
  <2>1. CASE k = l
    BY <1>1, <1>2, <2>1, FirstEntering
  <2>2. CASE k # l /\ AtWork(k)
    <3> PICK K \in Jobs : K = loader[k] /\ K.status = "running" /\ Entering(K)
      BY <2>2, JobOf DEF AInv
    <3> PICK M : M = [K EXCEPT !.met = @ \cup {f}]
      OBVIOUS
    <3>1. /\ M.status = K.status /\ M.phase = K.phase /\ M.resultType = K.resultType
          /\ M.file = K.file /\ M.at = K.at /\ M.before = K.before /\ M.found = K.found
          /\ M.met = K.met \cup {f}
      BY DEF Jobs
    <3>2. Visited(M) = Visited(K) /\ (HasType(M) => HasType(K)) /\ M.met # {}
      BY <3>1 DEF Visited, HasType
    <3>3. M.met \subseteq {M.file} => K.met \subseteq {K.file}
      BY <3>1
    <3>4. Entering(M)
      BY <3>1, <3>2, <3>3 DEF Entering
    <3> QED
      BY <1>2, <2>2, <3>4
  <2>3. CASE k # l /\ ~ AtWork(k)
    BY <1>2, <2>3 DEF AInv
  <2> QED
    BY <2>1, <2>2, <2>3
<1>4. ASSUME NEW k \in Loaders PROVE Entering(loader[k])'
  <2> PICK K : K = loader'[k]
    OBVIOUS
  <2>1. Entering(K)'
    BY <1>1, <1>3, NothingUndone
  <2> QED
    BY <2>1
<1>5. ASSUME NEW k \in Loaders \ {l}
      PROVE  /\ loader'[k].status = "running" <=> AtWork(k)
             /\ AtWork(k) => /\ loader'[k].file = loader[k].file
                             /\ loader'[k].met = loader[k].met \cup {f}
  <2>1. AtWork(k) => loader[k] \in Jobs
    BY <1>1, JobOf
  <2> QED
    BY <1>2, <2>1 DEF AtWork, Jobs
<1>6. ASSUME NEW k \in Loaders, NEW j \in Loaders, k # j,
             loader'[k].status = "running", loader'[j].status = "running"
      PROVE  /\ loader'[k].file \in loader'[j].met
             /\ loader'[k].met \subseteq loader'[j].met \cup {loader'[j].file}
  <2>1. CASE k = l
    <3>1. AtWork(j) /\ loader'[j].file = loader[j].file
          /\ loader'[j].met = loader[j].met \cup {f}
      BY <1>5, <1>6, <2>1
    <3>2. \A i \in Loaders \ {l} : AtWork(i) =>
            {loader[i].file} \cup loader[i].met \subseteq loader[j].met \cup {loader[j].file}
      BY <3>1 DEF AInv, AllMet
    <3>3. L.met \subseteq loader[j].met \cup {loader[j].file}
      BY <1>2, <3>2
    <3> QED
      BY <1>2, <2>1, <3>1, <3>3
  <2>2. CASE j = l
    <3>1. AtWork(k) /\ loader'[k].file = loader[k].file
          /\ loader'[k].met = loader[k].met \cup {f} /\ k \in Loaders \ {l}
      BY <1>5, <1>6, <2>2
    <3>2. {loader[k].file} \cup loader[k].met \subseteq L.met
      BY <1>2, <3>1
    <3> QED
      BY <1>2, <2>2, <3>1, <3>2
  <2>3. CASE k # l /\ j # l
    <3>1. AtWork(k) /\ AtWork(j)
      BY <1>5, <1>6, <2>3
    <3>2. /\ loader[k].file \in loader[j].met
          /\ loader[k].met \subseteq loader[j].met \cup {loader[j].file}
      BY <1>6, <3>1 DEF AInv, AllMet
    <3> QED
      BY <1>5, <2>3, <3>1, <3>2
  <2> QED
    BY <2>1, <2>2, <2>3
<1>7. AllMet'
  BY <1>6 DEF AllMet, AtWork
<1> QED
  BY <1>1, <1>4, <1>7 DEF AInv

LEMMA StepAInv ==
    ASSUME AInv, NEW l \in Loaders, LoaderStep(l), UNCHANGED begun
    PROVE  AInv' /\ Finished(loader[l])'
<1>1. LInv /\ LInv'
  BY StepLInv DEF AInv
<1> PICK f : f = loader[l].file
  OBVIOUS
<1>2. /\ Contributes(f) /\ Enters(l) /\ AtWork(l)
      /\ loader[l].met \subseteq {f} => Completes(f)
  BY StepEnters
<1>3. f \in Files
  BY <1>1, <1>2, JobOf DEF Jobs
<1>4. PICK M :
        /\ loader' = [loader EXCEPT ![l] = M]
        /\ M.file = loader[l].file /\ M.met = loader[l].met /\ M.before = loader[l].before
        /\ Entering(M)' /\ Finished(M)'
  BY <1>2 DEF Enters
<1>5. loader'[l] = M /\ \A k \in Loaders \ {l} : loader'[k] = loader[k]
  BY <1>1, <1>4 DEF LInv, LoaderTyped
<1>6. ASSUME NEW k \in Loaders PROVE Entering(loader[k])'
  <2>1. CASE k = l
    BY <1>4, <1>5, <2>1
  <2>2. CASE k # l
    <3> PICK K \in Jobs \cup {Idle} : K = loader[k] /\ Placing(K) /\ Entering(K)
      BY <1>1 DEF LInv, LoaderTyped, AInv
    <3>1. K.status = "running" =>
            f \in K.met /\ loader[l].met \subseteq K.met \cup {K.file}
            /\ K.file \in loader[l].met
      BY <1>2, <2>2 DEF AInv, AllMet, AtWork
    <3>2. (K.status = "running" /\ K.met \subseteq {K.file}) => K.file = f /\ Completes(f)
      BY <1>2, <3>1
    <3>3. Entering(K)'
      BY <1>1, <1>2, <1>3, <3>1, <3>2, EnteringKept
    <3> QED
      BY <1>5, <2>2, <3>3
  <2> QED
    BY <2>1, <2>2
<1>7. AllMet'
  <2>1. \A k \in Loaders :
            loader'[k].status = "running" =>
                /\ AtWork(k) /\ loader'[k].file = loader[k].file
                /\ loader'[k].met = loader[k].met
    BY <1>2, <1>4, <1>5 DEF AtWork
  <2> QED
    BY <2>1 DEF AInv, AllMet, AtWork
<1>8. Finished(loader[l])'
  BY <1>4, <1>5
<1> QED
  BY <1>1, <1>6, <1>7, <1>8 DEF AInv

LEMMA NextAInv ==
    ASSUME AInv, [LoaderNext]_allVars
    PROVE  AInv'
<1>1. CASE UNCHANGED allVars
  <2>1. UNCHANGED vars /\ UNCHANGED loader
    BY <1>1 DEF allVars
  <2>2. ASSUME NEW k \in Loaders PROVE Entering(loader[k])'
    <3> PICK K : K = loader[k]
      OBVIOUS
    <3>1. Entering(K)'
      BY <2>1, NothingUndone DEF AInv
    <3> QED
      BY <2>1, <3>1
  <2>3. LInv'
    BY NextLInv DEF AInv
  <2> QED
    BY <2>1, <2>2, <2>3 DEF AInv, AllMet, AtWork
<1> QED
  BY <1>1, BeginAInv, StepAInv DEF LoaderNext

\* What has been done is what the load was to leave.
DoneIsEntered ==
    \A f \in Files, B \in SUBSET Objs :
        (\A i \in DOMAIN f : Handled(f, i, B)) =>
            \A i \in DOMAIN f : LeftOut(f, i, B) \/ Entered(f, i, B)

LEMMA DoneEntered == LInv => DoneIsEntered
<1> SUFFICES ASSUME LInv, NEW f \in Files, NEW B \in SUBSET Objs,
                    \A i \in DOMAIN f : Handled(f, i, B), NEW i \in DOMAIN f
             PROVE  LeftOut(f, i, B) \/ Entered(f, i, B)
  BY DEF DoneIsEntered
<1> PICK v : v = f[i]
  OBVIOUS
<1>1. ASSUME NEW j \in DOMAIN f, Omitted(f, j, B) PROVE LeftOut(f, j, B) /\ f[j].kind # "Alias"
  <2>1. PICK a \in DOMAIN f, k \in DOMAIN f :
            /\ Typedef(f, a, k) /\ a < j /\ j < k
            /\ \E o \in B : definedIn[o] # NoObj /\ absName[o] = PathOf(f[a])
    BY <1>1 DEF Omitted
  <2>2. PICK o \in B : definedIn[o] # NoObj /\ absName[o] = PathOf(f[a])
    BY <2>1
  <2>3. Lookup(Root, PathOf(f[a])) = o
    BY <2>2, LookupAbs DEF LInv
  <2> QED
    BY <2>1, <2>2, <2>3, TypedefAround DEF LeftOut
<1>2. CASE Omitted(f, i, B)
  BY <1>1, <1>2
<1>3. ASSUME NEW w, v.visit = "typedef" \/ w = v, NEW o \in Objs, DoneIn(o, w, B),
             PathOf(w) = PathOf(v), w.kind = v.kind, v.visit = "typedef" => w.visit = "declare",
             w.visit # "typedef"
      PROVE  Entered(f, i, B)
  <2>1. /\ definedIn[o] # NoObj /\ absName[o] = PathOf(w)
        /\ w.visit # "forward" => kind[o] = w.kind
        /\ ~ (w.kind = "Alias" /\ o \in B) => Identified(o, w) /\ TypedAs(o, w)
    BY <1>3 DEF DoneIn
  <2>2. Lookup(Root, PathOf(v)) = o /\ o # NoObj
    BY <1>3, <2>1, LookupAbs, ConstantsAssumption DEF LInv, Servants
  <2>3. ASSUME NEW t, Base(t, w) PROVE t = TypeNamed(w.type.path)
    BY <2>3, LookupAbs DEF Base, TypeNamed, LInv
  <2>4. ASSUME NEW t, Stood(t, w) PROVE Denotes(t, w)
    BY <2>3, <2>4 DEF Stood, Denotes
  <2>5. CASE v.visit = "typedef"
    BY <1>3, <2>1, <2>2, <2>5 DEF Entered
  <2>6. CASE v.visit # "typedef" /\ w = v
    BY <2>1, <2>2, <2>4, <2>6 DEF Entered, Identified, TypedAs, Typing
  <2> QED
    BY <1>3, <2>5, <2>6
<1>4. CASE v.visit = "typedef"
  <2> PICK n : n = CHOOSE k \in DOMAIN f : Typedef(f, i, k)
    OBVIOUS
  <2>1. /\ n \in DOMAIN f /\ Typedef(f, i, n) /\ f[n].kind = "Alias" /\ v.kind = "Alias"
        /\ f[n].visit = "declare"
    BY <1>4, TypedefEnds
  <2>2. Done(f[n], B) /\ PathOf(f[n]) = PathOf(v)
    BY <1>1, <2>1 DEF Handled, Typedef
  <2>3. PICK o \in Objs : DoneIn(o, f[n], B)
    BY <2>1, <2>2 DEF Done
  <2> QED
    BY <1>3, <1>4, <2>1, <2>2, <2>3
<1>5. CASE v.visit # "typedef" /\ ~ Omitted(f, i, B)
  <2>1. PICK o \in Objs : DoneIn(o, v, B)
    BY <1>5 DEF Handled, Done
  <2> QED
    BY <1>3, <1>5, <2>1
<1> QED
  BY <1>2, <1>4, <1>5

\* A load that ends is finished.
EndsFinished ==
    \A l \in Loaders :
        (AtWork(l) /\ loader'[l].status = "done") =>
            /\ Finished(loader[l])'
            /\ loader'[l].file = loader[l].file /\ loader'[l].met = loader[l].met
            /\ loader'[l].before = loader[l].before
            /\ loader[l] \in Jobs

LEMMA NextEndsFinished ==
    ASSUME AInv, [LoaderNext]_allVars
    PROVE  EndsFinished
<1> SUFFICES ASSUME NEW l \in Loaders, AtWork(l), loader'[l].status = "done"
             PROVE  /\ Finished(loader[l])'
                    /\ loader'[l].file = loader[l].file /\ loader'[l].met = loader[l].met
                    /\ loader'[l].before = loader[l].before
                    /\ loader[l] \in Jobs
  BY DEF EndsFinished
<1>1. LInv /\ loader[l] \in Jobs
  BY JobOf DEF AInv
<1>2. loader'[l] # loader[l]
  BY DEF AtWork
<1>3. CASE UNCHANGED allVars
  BY <1>2, <1>3 DEF allVars
<1>4. ASSUME NEW k \in Loaders, NEW f \in Files, Begin(k, f) PROVE FALSE
  <2>1. k # l
    BY <1>4 DEF Begin
  <2>2. loader'[l] = [loader[l] EXCEPT !.met = @ \cup {f}]
    BY <1>4, <2>1 DEF Begin
  <2> QED
    BY <1>1, <2>2 DEF AtWork, Jobs
<1>5. ASSUME NEW k \in Loaders, LoaderStep(k), UNCHANGED begun
      PROVE  /\ Finished(loader[l])'
             /\ loader'[l].file = loader[l].file /\ loader'[l].met = loader[l].met
             /\ loader'[l].before = loader[l].before
  <2> PICK f : f = loader[k].file
    OBVIOUS
  <2>1. Enters(k)
    BY <1>5, StepEnters
  <2>2. PICK M :
            /\ loader' = [loader EXCEPT ![k] = M]
            /\ M.file = loader[k].file /\ M.met = loader[k].met
            /\ M.before = loader[k].before
    BY <2>1 DEF Enters
  <2>3. k = l
    BY <1>2, <2>2
  <2>4. loader'[l] = M
    BY <1>1, <2>2, <2>3 DEF LInv, LoaderTyped
  <2> QED
    BY <1>5, <2>2, <2>3, <2>4, StepAInv
<1> QED
  BY <1>1, <1>3, <1>4, <1>5 DEF LoaderNext

\* A load that ends well has left every declaration of its file where it belongs,
\* with its kind, id and type, whatever files, other versions of it among them,
\* were loaded before: what an earlier visit wrote, no later one and no other load
\* of the same file takes back (ifr.py:90-167, 277, 379-407).  Excepted are the
\* typedefs that were there, and what is declared inside them (ifr.py:595-611).
THEOREM LoadsEnterTheirFile == LoaderSpec => LoadedAsDeclared
<1>1. LoaderSpec => []AInv
  BY InitAInv, NextAInv, PTL DEF LoaderSpec
<1>2. AInv => LInv
  BY DEF AInv
<1>3. AInv /\ AInv' /\ [LoaderNext]_allVars => EndsFinished /\ DoneIsEntered'
  <2>1. AInv /\ [LoaderNext]_allVars => EndsFinished
    BY NextEndsFinished
  <2>2. LInv => DoneIsEntered
    BY DoneEntered
  <2> QED
    BY <1>2, <2>1, <2>2, PTL
<1>4. ASSUME EndsFinished, DoneIsEntered',
             NEW l \in Loaders, AtWork(l), loader'[l].status = "done",
             loader[l].met \subseteq {loader[l].file}, NEW i \in DOMAIN loader[l].file
      PROVE  (LeftOut(loader[l].file, i, loader[l].before)
              \/ Entered(loader[l].file, i, loader[l].before))'
  <2>1. /\ Finished(loader[l])'
        /\ loader'[l].file = loader[l].file /\ loader'[l].met = loader[l].met
        /\ loader'[l].before = loader[l].before
        /\ loader[l].file \in Files /\ loader[l].before \in SUBSET Objs
    BY <1>4 DEF EndsFinished, Jobs
  <2>2. \A j \in DOMAIN loader[l].file : Handled(loader[l].file, j, loader[l].before)'
    BY <1>4, <2>1 DEF Finished
  <2>3. loader'[l].file \in Files /\ loader'[l].before \in SUBSET Objs
        /\ i \in DOMAIN loader'[l].file
    BY <1>4, <2>1
  <2> QED
    BY <1>4, <2>1, <2>2, <2>3 DEF DoneIsEntered
<1>5. EndsFinished /\ DoneIsEntered' =>
        \A l \in Loaders :
            LET L == loader[l] IN
            (AtWork(l) /\ loader'[l].status = "done" /\ L.met \subseteq {L.file}) =>
                \A i \in DOMAIN L.file :
                    (LeftOut(L.file, i, L.before) \/ Entered(L.file, i, L.before))'
  BY <1>4
<1> QED
  BY <1>1, <1>3, <1>5, PTL DEF LoaderSpec, LoadedAsDeclared

-----------------------------------------------------------------------------
(* What stops a load.                                                      *)

\* What is new has the kind and the id of every visit to its name.
LEMMA DeclaredAs ==
    ASSUME NEW f \in Files, NEW B, DeclaredSince(f, B), NEW o \in Objs, o \notin B,
           definedIn[o] # NoObj, NEW j \in DOMAIN f, f[j].visit # "end",
           absName[o] = PathOf(f[j])
    PROVE  kind[o] = f[j].kind /\ id[o] = f[j].id
<1>1. PICK i \in DOMAIN f : Declares(f[i], o)
  BY DEF DeclaredSince
<1>2. f[i].visit # "end" /\ PathOf(f[i]) = PathOf(f[j])
  BY <1>1 DEF Declares
<1>3. f[i].kind = f[j].kind /\ f[i].id = f[j].id
  BY <1>2, SamePath, Zenon
<1> QED
  BY <1>1, <1>3 DEF Declares

\* A new definition whose id or, but for case, whose place a visit wants is the one
\* that visit is about.
LEMMA NewIsVisited ==
    ASSUME CInv, AbsExact, NEW f \in Files, NEW B, DeclaredSince(f, B), NEW x \in Objs,
           x \notin B, definedIn[x] # NoObj, NEW j \in DOMAIN f, f[j].visit # "end",
           \/ id[x] = f[j].id
           \/ /\ CaseClass[name[x]] = CaseClass[f[j].name]
              /\ f[j].scope = IF definedIn[x] = Root THEN <<>> ELSE absName[definedIn[x]]
    PROVE  absName[x] = PathOf(f[j])
<1>1. PICK i \in DOMAIN f : Declares(f[i], x)
  BY DEF DeclaredSince
<1>2. f[i].visit # "end" /\ absName[x] = PathOf(f[i]) /\ id[x] = f[i].id
  BY <1>1 DEF Declares
<1>3. CASE id[x] = f[j].id
  <2>1. DeclaredOnce(f)
    BY FileFacts
  <2>2. f[i].id = f[j].id
    BY <1>2, <1>3
  <2>3. PathOf(f[i]) = PathOf(f[j])
    BY <1>2, <2>1, <2>2 DEF DeclaredOnce
  <2> QED
    BY <1>2, <2>3
<1>4. CASE /\ CaseClass[name[x]] = CaseClass[f[j].name]
           /\ f[j].scope = IF definedIn[x] = Root THEN <<>> ELSE absName[definedIn[x]]
  <2>1. /\ f[i].scope \in Seq(Names) /\ f[i].name \in Names
        /\ absName[x] = Append(f[i].scope, f[i].name)
    BY <1>2, FileFacts DEF TypedVisit, PathOf
  <2>2. f[i].name = name[x] /\ f[i].scope = f[j].scope
    BY <1>4, <2>1, NameSplit
  <2>3. DeclaredOnce(f)
    BY FileFacts
  <2>4. f[i].scope = f[j].scope /\ CaseClass[f[i].name] = CaseClass[f[j].name]
    BY <1>4, <2>2
  <2> QED
    BY <1>2, <2>3, <2>4 DEF DeclaredOnce
<1> QED
  BY <1>3, <1>4

\* The type t goes through a typedef that was there before.
ThroughOld(t, B) == \E x \in B : kind[x] = "Alias" /\ x \in TypeChain(t)

\* A constant gets a basic type, or its type goes through a typedef that was there.
LEMMA ConstantsType ==
    ASSUME LInv, NEW f \in Files, NEW n \in DOMAIN f, NEW B,
           \A i \in 1..(n - 1) : Handled(f, i, B), OfBasicType(f, n),
           NEW t, Stood(t, f[n])
    PROVE  \/ IsBasicType(t)
           \/ ThroughOld(TypeNamed(f[n].type.path), B)
<1>0. CInv /\ AbsExact /\ NothingGone
  BY DEF LInv
<1>1. PICK basic \in SUBSET DOMAIN f :
        /\ n \in basic
        /\ \A k \in basic :
            /\ ~ f[k].type.wrapped
            /\ \/ f[k].type.path = <<>>
               \/ \E j \in basic : /\ j < k /\ f[j].visit = "declare" /\ f[j].kind = "Alias"
                                   /\ PathOf(f[j]) = f[k].type.path
  BY DEF OfBasicType
<1> DEFINE T == {k \in basic : /\ k <= n
                               /\ \E u : Base(u, f[k]) /\ ~ IsBasicType(u) /\ ~ ThroughOld(u, B)}
<1>2. DOMAIN f = 1..Len(f) /\ Len(f) \in Nat
  BY FileFacts
<1>3. T = {}
  <2> SUFFICES ASSUME T # {} PROVE FALSE
    OBVIOUS
  <2>1. PICK k \in T : \A m \in T : k <= m
    <3>1. T \in SUBSET Nat
      BY <1>2
    <3> HIDE DEF T
    <3> QED
      BY <3>1, Least
  <2>2. PICK u : Base(u, f[k]) /\ ~ IsBasicType(u) /\ ~ ThroughOld(u, B)
    BY <2>1
  <2>3. CASE f[k].type.path = <<>>
    <3>1. u = Prim
      BY <2>2, <2>3 DEF Base
    <3>2. Delegate(Prim) = {} /\ kind[Prim] = "Primitive"
      BY <1>0 DEF Delegate, CInv, GInv, IInv, FixedServants, DelegatingKinds
    <3>3. TypeChain(Prim) = {Prim}
      BY <3>2 DEF TypeChain
    <3> QED
      BY <2>2, <3>1, <3>2, <3>3 DEF IsBasicType
  <2>4. CASE f[k].type.path # <<>>
    <3>1. PICK j \in basic : /\ j < k /\ f[j].visit = "declare" /\ f[j].kind = "Alias"
                             /\ PathOf(f[j]) = f[k].type.path
      BY <1>1, <2>1, <2>4
    <3>2. u \in Objs /\ definedIn[u] # NoObj /\ absName[u] = PathOf(f[j])
      BY <2>2, <2>4, <3>1 DEF Base
    <3>3. j \in 1..(n - 1) /\ j \in DOMAIN f /\ ~ (k <= j) /\ j <= n
      BY <1>2, <2>1, <3>1
    <3> PICK v : v = f[j]
      OBVIOUS
    <3>4. v.visit = "declare" /\ v.kind = "Alias" /\ PathOf(v) = f[k].type.path
      BY <3>1
    <3>5. PICK o \in Objs : DoneIn(o, v, B)
      <4>1. ~ Omitted(f, j, B)
        BY <3>3, <3>4, TypedefAround DEF Omitted
      <4> QED
        BY <3>3, <3>4, <4>1 DEF Handled, Done
    <3>6. o = u
      BY <1>0, <3>2, <3>5, AbsUnique DEF DoneIn
    <3>7. kind[u] = "Alias" /\ IsActive(u)
      BY <1>0, <3>1, <3>2, <3>4, <3>5, <3>6 DEF DoneIn, CInv, GInv, Placed
    <3>8. u \in TypeChain(u)
      BY DEF TypeChain
    <3>9. u \notin B
      BY <2>2, <3>7, <3>8 DEF ThroughOld
    <3>10. PICK w \in refs[u] : refs[u] = {w} /\ Stood(w, v)
      BY <3>1, <3>4, <3>5, <3>6, <3>9 DEF DoneIn, TypedAs, Typing, TypedAtOnce
    <3>11. Base(w, v)
      BY <1>1, <3>1, <3>10 DEF Stood
    <3>12. w \in Objs \cup {Prim} /\ Delegate(u) = {w}
      BY <1>0, <3>2, <3>7, <3>10, ReferencesLive DEF Delegate, DelegatingKinds, Servants
    <3>13. TypeChain(w) \subseteq TypeChain(u) /\ TypeChain(u) \subseteq {u} \cup TypeChain(w)
      BY <1>0, <3>2, <3>12, AliasChain
    <3>14. ~ ThroughOld(w, B)
      BY <2>2, <3>13 DEF ThroughOld
    <3>15. j \notin T
      BY <2>1, <3>3
    <3>16. IsBasicType(w)
      BY <3>1, <3>3, <3>11, <3>14, <3>15
    <3>17. IsBasicType(u)
      BY <3>7, <3>13, <3>16 DEF IsBasicType
    <3> QED
      BY <2>2, <3>17
  <2> QED
    BY <2>3, <2>4
<1>4. n \in basic /\ n <= n /\ Base(t, f[n])
  BY <1>1, <1>2 DEF Stood
<1>5. IsBasicType(t) \/ ThroughOld(t, B)
  BY <1>3, <1>4
<1>6. t = TypeNamed(f[n].type.path)
  BY <1>0, <1>4, LookupAbs DEF Base, TypeNamed
<1> QED
  BY <1>5, <1>6

\* What a setter does not take is a type that goes through such a typedef, or that
\* of a constant the back-end never loads.
LEMMA ThrownIsOld ==
    ASSUME LInv, NEW f \in Files, NEW n \in DOMAIN f, NEW B, ~ NeverLoaded(f, n),
           \A i \in 1..(n - 1) : Handled(f, i, B), NEW t \in Objs \cup {Prim}, IsActive(t),
           Stood(t, f[n]), Throws(f[n].kind, t)
    PROVE  /\ ThroughOld(TypeNamed(f[n].type.path), B)
           /\ TypeNamed(f[n].type.path) # NoObj
<1>1. TypeOutcome(t) = "typecode" /\ CInv /\ AbsExact
  BY TypesEnd DEF LInv
<1>2. f[n].kind = "Constant" /\ ~ IsBasicType(t)
  BY <1>1 DEF Throws, Accepted, Loops
<1>3. OfBasicType(f, n)
  BY <1>2 DEF NeverLoaded
<1>4. ThroughOld(TypeNamed(f[n].type.path), B)
  BY <1>2, <1>3, ConstantsType
<1>5. ~ f[n].type.wrapped
  BY <1>2, FileFacts DEF TypedVisit
<1>6. t = TypeNamed(f[n].type.path)
  BY <1>1, <1>5, LookupAbs DEF Stood, Base, TypeNamed
<1> QED
  BY <1>4, <1>6, ConstantsAssumption DEF Servants

\* A loader that nobody disturbs, where it is.
Alone(L) ==
    /\ L \in Jobs /\ L.status = "running" /\ L.met = {} /\ Placing(L) /\ Entering(L)

\* What is known of a loader that nobody has disturbed.
LEMMA AloneFacts ==
    ASSUME LInv, NEW L, Alone(L), NEW f, f = L.file, NEW B, B = L.before,
           NEW v, v = Visited(L), NEW c, c = Last(L.stack)
    PROVE  /\ CInv /\ AbsExact /\ NothingGone
           /\ f \in Files /\ L.at \in DOMAIN f /\ v = f[L.at] /\ TypedVisit(v)
           /\ L.phase \in Phases(v) /\ B \in SUBSET Objs
           /\ c \in Objs \cup {Root} /\ c \in Servants
           /\ v.scope = IF c = Root THEN <<>> ELSE absName[c]
           /\ \A i \in 1..(L.at - 1) : Handled(f, i, B)
           /\ DeclaredSince(f, B)
           /\ ~ Doomed(L)
<1>1. L \in Jobs /\ L.status = "running" /\ L.met = {} /\ Placing(L) /\ Entering(L)
  BY DEF Alone
<1>2. CInv /\ AbsExact /\ NothingGone
  BY DEF LInv
<1>3. /\ f \in Files /\ L.at \in DOMAIN f /\ TypedVisit(v)
      /\ c \in Objs \cup {Root} /\ Opened(f, c, v.scope)
  BY <1>1, <1>2, ContainerFacts
<1>4. v.scope = IF c = Root THEN <<>> ELSE absName[c]
  BY <1>3, ConstantsAssumption DEF Opened
<1>5. L.met \subseteq {L.file}
  BY <1>1
<1>6. /\ \A i \in 1..(L.at - 1) : Handled(f, i, B)
      /\ DeclaredSince(f, B)
      /\ ~ Doomed(L)
  BY <1>1, <1>5 DEF Entering
<1>7. v = f[L.at] /\ L.phase \in Phases(v) /\ B \in SUBSET Objs /\ c \in Servants
  BY <1>1, <1>3 DEF Visited, Placing, Jobs, Servants
<1> QED
  BY <1>2, <1>3, <1>4, <1>6, <1>7

\* A type that is not there is inside a typedef that was; what is there instead of a
\* type was declared forward, and was there before.
LEMMA ResolveTypeStopped ==
    ASSUME LInv, NEW L, Alone(L), NEW v, v = Visited(L), NEW t, t = TypeNamed(v.type.path),
           t = NoObj \/ kind[t] \notin IDLTypeKinds
    PROVE  TypeLeftOut(L.file, L.at, L.before) \/ InTheWay(v, Last(L.stack), L.before)
<1> PICK f, B, n : f = L.file /\ B = L.before /\ n = L.at
  OBVIOUS
<1>1. /\ CInv /\ AbsExact /\ f \in Files /\ n \in DOMAIN f /\ v = f[n]
      /\ \A i \in 1..(n - 1) : Handled(f, i, B)
      /\ DeclaredSince(f, B)
  BY AloneFacts
<1>2. v.type.path # <<>>
  <2>1. kind[Prim] = "Primitive" /\ Prim # NoObj
    BY <1>1, ConstantsAssumption DEF CInv, GInv, IInv, FixedServants, Servants
  <2> QED
    BY <2>1 DEF TypeNamed, IDLTypeKinds
<1>3. t = Lookup(Root, v.type.path) /\ 1..(n - 1) \subseteq DOMAIN f
  <2>1. Len(f) \in Nat /\ DOMAIN f = 1..Len(f)
    BY <1>1, FileFacts
  <2> QED
    BY <1>1, <1>2, <2>1 DEF TypeNamed
<1>4. CASE t = NoObj
  <2>1. ASSUME NEW j \in 1..(n - 1), f[j].visit \notin {"typedef", "end"},
               PathOf(f[j]) = v.type.path
        PROVE  LeftOut(f, j, B)
    <3>1. ~ Done(f[j], B)
      <4> SUFFICES ASSUME NEW o \in Objs, DoneIn(o, f[j], B) PROVE FALSE
        BY <2>1 DEF Done
      <4>1. Lookup(Root, v.type.path) = o
        BY <1>1, <2>1, LookupAbs DEF DoneIn
      <4> QED
        BY <1>3, <1>4, <4>1, ConstantsAssumption DEF Servants
    <3>2. PICK a \in DOMAIN f, k \in DOMAIN f :
            /\ Typedef(f, a, k) /\ a < j /\ j < k
            /\ \E o \in B : definedIn[o] # NoObj /\ absName[o] = PathOf(f[a])
      BY <1>1, <3>1 DEF Handled, Omitted
    <3>3. PICK o \in B : definedIn[o] # NoObj /\ absName[o] = PathOf(f[a])
      BY <3>2
    <3>4. B \in SUBSET Objs
      BY AloneFacts
    <3>5. Lookup(Root, PathOf(f[a])) = o
      BY <1>1, <3>3, <3>4, LookupAbs
    <3> QED
      BY <3>2, <3>3, <3>5 DEF LeftOut
  <2>2. TypeLeftOut(f, n, B)
    BY <1>1, <1>4, <2>1 DEF TypeLeftOut
  <2> QED
    BY <2>2
<1>5. CASE t # NoObj
  <2>1. PICK j \in 1..(n - 1) :
          /\ f[j].visit # "end" /\ PathOf(f[j]) = v.type.path /\ f[j].kind \in IDLTypeKinds
    BY <1>1, <1>2, FileFacts DEF TypesDeclared
  <2>2. v.type.path \in Seq(Names)
    BY <1>1, FileFacts DEF TypedVisit
  <2>3. t \in Objs /\ definedIn[t] # NoObj /\ absName[t] = PathOf(f[j])
    BY <1>1, <1>2, <1>3, <1>5, <2>1, <2>2, LookupHasName
  <2>4. t \in B
    BY <1>1, <1>3, <1>5, <2>1, <2>3, DeclaredAs
  <2> QED
    BY <1>5, <2>4 DEF InTheWay
<1> QED
  BY <1>4, <1>5

\* What has the name of a declaration and another kind was there.
LEMMA FindStopped ==
    ASSUME LInv, NEW L, Alone(L), NEW v, v = Visited(L), v.visit # "end",
           NEW x, x = Lookup(Last(L.stack), <<v.name>>), x # NoObj, kind[x] # v.kind
    PROVE  InTheWay(v, Last(L.stack), L.before)
<1> PICK f, B, c : f = L.file /\ B = L.before /\ c = Last(L.stack)
  OBVIOUS
<1>1. /\ CInv /\ AbsExact /\ f \in Files /\ L.at \in DOMAIN f /\ v = f[L.at]
      /\ DeclaredSince(f, B) /\ c \in Servants
  BY AloneFacts
<1>2. x \in Objs /\ definedIn[x] = c /\ definedIn[x] # NoObj /\ absName[x] = PathOf(v)
  BY FindsThere DEF Alone
<1>3. x \in B
  BY <1>1, <1>2, DeclaredAs
<1>4. x \in contents[c] /\ name[x] = v.name
  <2>1. x \in contents[c]
    BY <1>1, <1>2 DEF CInv, GInv, IInv, ContainmentSound
  <2>2. v.scope \in Seq(Names) /\ v.name \in Names /\ absName[x] = Append(v.scope, v.name)
    BY <1>1, <1>2, FileFacts DEF TypedVisit, PathOf
  <2> QED
    BY <1>1, <1>2, <2>1, <2>2, NameSplit
<1> QED
  BY <1>3, <1>4 DEF InTheWay

\* An id that is taken, by something else than what the visit is about, was taken.
LEMMA IdTaken ==
    ASSUME LInv, NEW L, Alone(L), NEW v, v = Visited(L), v.visit # "end",
           NEW x, x = idmap[v.id], x # NoObj,
           x \in Objs /\ definedIn[x] # NoObj => absName[x] # PathOf(v)
    PROVE  InTheWay(v, Last(L.stack), L.before)
<1> PICK f, B, c : f = L.file /\ B = L.before /\ c = Last(L.stack)
  OBVIOUS
<1>1. /\ CInv /\ AbsExact /\ f \in Files /\ L.at \in DOMAIN f /\ v = f[L.at] /\ TypedVisit(v)
      /\ DeclaredSince(f, B) /\ c \in Servants
      /\ v.scope = IF c = Root THEN <<>> ELSE absName[c]
  BY AloneFacts
<1>2. v.id \in Ids
  BY <1>1 DEF TypedVisit
<1>3. x \in Objs /\ id[x] = v.id
  BY <1>1, <1>2 DEF CInv, GInv, IInv, TypeOK, IdmapSound
<1>4. definedIn[x] # NoObj
  BY <1>1, <1>2, <1>3, ConstantsAssumption DEF CInv, GInv, Registered
<1>5. x \in B
  BY <1>1, <1>3, <1>4, NewIsVisited
<1>6. x \notin Child(c, v.name)
  <2> SUFFICES ASSUME x \in Child(c, v.name) PROVE FALSE
    OBVIOUS
  <2>1. definedIn[x] = c /\ name[x] = v.name
    BY <1>1, <1>3 DEF Child, CInv, GInv, IInv, ContainmentSound
  <2>2. absName[x] = PathOf(v)
    BY <1>1, <1>3, <1>4, <2>1 DEF AbsExact, AbsoluteName, PathOf
  <2> QED
    BY <1>3, <1>4, <2>2
<1> QED
  BY <1>5, <1>6 DEF InTheWay

\* What refuses to be created was there, or is of a type that goes through what was.
LEMMA MakeStopped ==
    ASSUME LInv, NEW l \in Loaders, NEW L, L = loader[l], Alone(L), L.phase = "make",
           MakeRefused(l), NEW v, v = Current(l), ~ NeverLoaded(L.file, L.at)
    PROVE  InTheWay(v, Last(L.stack), L.before)
<1> PICK f, B, c : f = L.file /\ B = L.before /\ c = Last(L.stack)
  OBVIOUS
<1>1. /\ CInv /\ AbsExact /\ f \in Files /\ L.at \in DOMAIN f /\ v = f[L.at] /\ TypedVisit(v)
      /\ DeclaredSince(f, B) /\ c \in Servants /\ ~ There(v) /\ v = Visited(L)
      /\ v.scope = IF c = Root THEN <<>> ELSE absName[c]
      /\ \A i \in 1..(L.at - 1) : Handled(f, i, B)
  <2>1. v = Visited(L)
    BY DEF Visited, Current
  <2>2. ~ Doomed(L) /\ L.status = "running"
    BY AloneFacts DEF Alone
  <2>3. ~ There(v)
    BY <2>1, <2>2 DEF Doomed
  <2> QED
    BY <2>1, <2>3, AloneFacts
<1>2. In(l, "make") /\ c = Container(l)
  BY DEF In, Alone, Container
<1>3. v.visit # "end" /\ AbsoluteName(c, v.name) = PathOf(v) /\ c # NoObj
  BY <1>2, MakeFacts
<1>4. CASE ~ NameFree(c, v.name)
  <2>1. PICK x \in contents[c] : CaseClass[name[x]] = CaseClass[v.name]
    BY <1>4 DEF NameFree
  <2>2. x \in Objs /\ definedIn[x] = c /\ definedIn[x] # NoObj
    BY <1>1, <1>3, <2>1 DEF CInv, GInv, IInv, TypeOK, ContainmentSound
  <2>3. absName[x] # PathOf(v)
    BY <1>1, <2>2 DEF There
  <2>4. x \in B
    <3> SUFFICES ASSUME x \notin B PROVE FALSE
      OBVIOUS
    <3> PICK j \in DOMAIN f : j = L.at
      BY <1>1
    <3>1. f[j].visit # "end" /\ v = f[j]
      BY <1>1, <1>3
    <3>2. CaseClass[name[x]] = CaseClass[f[j].name]
      BY <2>1, <3>1
    <3>3. f[j].scope = IF definedIn[x] = Root THEN <<>> ELSE absName[definedIn[x]]
      BY <1>1, <2>2, <3>1
    <3>4. absName[x] = PathOf(f[j])
      BY <1>1, <2>2, <3>1, <3>2, <3>3, NewIsVisited
    <3> QED
      BY <2>3, <3>1, <3>4
  <2>5. name[x] # v.name
    BY <1>1, <1>3, <2>2, <2>3 DEF AbsExact
  <2> QED
    BY <1>3, <2>1, <2>4, <2>5 DEF InTheWay
<1>5. CASE idmap[v.id] # NoObj
  <2> PICK x : x = idmap[v.id]
    OBVIOUS
  <2>1. x \in Objs /\ definedIn[x] # NoObj => absName[x] # PathOf(v)
    BY <1>1 DEF There
  <2> QED
    BY <1>1, <1>3, <1>5, <2>1, IdTaken
<1>6. ASSUME NEW t \in FirstRefs(l), Throws(v.kind, t)
      PROVE  InTheWay(v, c, B)
  <2>1. v.kind \in TypedAtOnce /\ t = L.resultType
    BY <1>6 DEF FirstRefs
  <2>2. t # NoObj
    BY <1>2, <2>1, MakeFacts
  <2>3. t \in Objs \cup {Prim} /\ IsActive(t) /\ Stood(t, v)
    BY <1>1, <2>1, <2>2 DEF Alone, Placing, Entering, HasType, Jobs
  <2>4. ThroughOld(TypeNamed(v.type.path), B) /\ TypeNamed(v.type.path) # NoObj
    <3> PICK n \in DOMAIN f : n = L.at
      BY <1>1
    <3>1. /\ v = f[n] /\ Throws(f[n].kind, t) /\ Stood(t, f[n]) /\ ~ NeverLoaded(f, n)
          /\ \A i \in 1..(n - 1) : Handled(f, i, B)
      BY <1>1, <1>6, <2>3
    <3> QED
      BY <1>1, <2>3, <3>1, ThrownIsOld
  <2> QED
    BY <2>4 DEF InTheWay, ThroughOld
<1>7. \/ ~ NameFree(c, v.name)
      \/ idmap[v.id] # NoObj
      \/ \E t \in FirstRefs(l) : Throws(v.kind, t)
  BY <1>2 DEF MakeRefused
<1>8. InTheWay(v, c, B)
  BY <1>4, <1>5, <1>6, <1>7
<1> QED
  BY <1>8

\* An id that cannot be given to what was found was taken before the load.
LEMMA UpdateIdStopped ==
    ASSUME LInv, NEW L, Alone(L), L.phase = "id", NEW v, v = Visited(L),
           id[L.found] # v.id, idmap[v.id] # NoObj
    PROVE  InTheWay(v, Last(L.stack), L.before)
<1> PICK o, x : o = L.found /\ x = idmap[v.id]
  OBVIOUS
<1>1. CInv /\ AbsExact /\ TypedVisit(v) /\ L.phase \in Phases(v)
  BY AloneFacts
<1>2. v.visit # "end" /\ v.id \in Ids
  BY <1>1 DEF Phases, TypedVisit
<1>3. o \in Objs /\ definedIn[o] # NoObj /\ absName[o] = PathOf(v)
  <2>1. L \in Jobs /\ L.status = "running" /\ Placing(L) /\ Stands(o, v, Last(L.stack))
    BY DEF Alone, Placing
  <2> QED
    BY <1>1, <1>2, <2>1, StandsThere
<1>4. x # o
  BY <1>1, <1>2 DEF CInv, GInv, IInv, IdmapSound
<1>5. x \in Objs /\ definedIn[x] # NoObj => absName[x] # PathOf(v)
  BY <1>1, <1>3, <1>4, AbsUnique
<1> QED
  BY <1>2, <1>5, IdTaken

\* A type that cannot be set goes through a typedef that was there before.
LEMMA UpdateRefsStopped ==
    ASSUME LInv, NEW L, Alone(L), L.phase = "refs", NEW v, v = Visited(L),
           Throws(v.kind, L.resultType), ~ NeverLoaded(L.file, L.at)
    PROVE  InTheWay(v, Last(L.stack), L.before)
<1> PICK f, B, t : f = L.file /\ B = L.before /\ t = L.resultType
  OBVIOUS
<1>1. /\ f \in Files /\ L.at \in DOMAIN f /\ v = f[L.at]
      /\ \A i \in 1..(L.at - 1) : Handled(f, i, B)
  BY AloneFacts
<1>2. t \in Objs \cup {Prim} /\ IsActive(t) /\ Stood(t, v)
  <2>1. t # NoObj
    BY DEF Alone, Placing, KnowsType
  <2> QED
    BY <2>1 DEF Alone, Placing, Entering, HasType, Jobs
<1>3. ThroughOld(TypeNamed(v.type.path), B) /\ TypeNamed(v.type.path) # NoObj
  <2> PICK n \in DOMAIN f : n = L.at
    BY <1>1
  <2>1. /\ v = f[n] /\ Throws(f[n].kind, t) /\ Stood(t, f[n]) /\ ~ NeverLoaded(f, n)
        /\ \A i \in 1..(n - 1) : Handled(f, i, B)
    BY <1>1, <1>2
  <2> QED
    BY <1>1, <1>2, <2>1, ThrownIsOld
<1> QED
  BY <1>3 DEF InTheWay, ThroughOld

\* Only a loader that exits fails.
LEMMA GoingIsNoFailure ==
    ASSUME LInv, NEW l \in Loaders, AtWork(l), NEW o, NEW p, NEW t
    PROVE  /\ NextVisit(l, o) => loader'[l].status # "failed"
           /\ LeaveTypedef(l) => loader'[l].status # "failed"
           /\ GoOn(l, p) => loader'[l].status # "failed"
           /\ loader' = [loader EXCEPT ![l].resultType = t, ![l].phase = p] =>
                loader'[l].status # "failed"
           /\ loader' = [loader EXCEPT ![l].found = t, ![l].phase = p] =>
                loader'[l].status # "failed"
           /\ loader' = [loader EXCEPT ![l].status = "killed"] =>
                loader'[l].status # "failed"
<1>1. loader[l] \in Jobs /\ loader[l].status = "running" /\ l \in DOMAIN loader
  BY JobOf DEF LInv, LoaderTyped
<1>2. ASSUME NEW n, NEW s, GoPast(l, n, s) PROVE loader'[l].status # "failed"
  BY <1>1, <1>2 DEF GoPast, Jobs
<1>3. NextVisit(l, o) => loader'[l].status # "failed"
  BY <1>2 DEF NextVisit
<1>4. LeaveTypedef(l) => loader'[l].status # "failed"
  BY <1>2 DEF LeaveTypedef
<1> QED
  BY <1>1, <1>3, <1>4 DEF GoOn, Jobs

\* Why loader l fails, if it does.
Blamed(l) ==
    \/ NeverLoaded(loader[l].file, loader[l].at)
    \/ TypeLeftOut(loader[l].file, loader[l].at, loader[l].before)
    \/ InTheWay(Current(l), Container(l), loader[l].before)

\* Each step that fails has a reason.
LEMMA StepBlamed ==
    ASSUME AInv, NEW l \in Loaders, LoaderStep(l), loader'[l].status = "failed",
           loader[l].met = {}
    PROVE  Blamed(l)
<1>1. AtWork(l)
  BY DEF LoaderStep, ResolveType, WrapType, Find, Make, UpdateId, UpdateRefs, Pop, Kill,
         In, AtWork
<1> PICK L \in Jobs :
        /\ L = loader[l] /\ L.status = "running" /\ Placing(L) /\ Entering(L)
        /\ Visited(L) = Current(l) /\ Last(L.stack) = Container(l)
        /\ TypedVisit(Visited(L)) /\ L.phase \in Phases(Visited(L)) /\ LInv /\ CInv
  BY <1>1, LoaderFile
<1> PICK v, c, B, f, n :
        v = Visited(L) /\ c = Last(L.stack) /\ B = L.before /\ f = L.file /\ n = L.at
  OBVIOUS
<1>2. Alone(L)
  BY DEF Alone
<1>3. /\ \A o : ~ NextVisit(l, o)
      /\ ~ LeaveTypedef(l)
      /\ \A p : ~ GoOn(l, p)
      /\ \A t, p : loader' # [loader EXCEPT ![l].resultType = t, ![l].phase = p]
      /\ \A t, p : loader' # [loader EXCEPT ![l].found = t, ![l].phase = p]
      /\ loader' # [loader EXCEPT ![l].status = "killed"]
  BY <1>1, GoingIsNoFailure
<1> SUFFICES ASSUME ~ NeverLoaded(f, n) PROVE TypeLeftOut(f, n, B) \/ InTheWay(v, c, B)
  BY DEF Blamed
<1>0. v.visit # "again" /\ v = f[n]
  BY DEF NeverLoaded, Visited
<1>4. CASE ResolveType(l)
  <2> PICK t : t = TypeNamed(v.type.path)
    OBVIOUS
  <2>1. t = NoObj \/ kind[t] \notin IDLTypeKinds
    <3> SUFFICES ASSUME t # NoObj, kind[t] \in IDLTypeKinds PROVE FALSE
      OBVIOUS
    <3>1. v.type.path \in Seq(Names) /\ IInv
      BY DEF TypedVisit, CInv, GInv
    <3>2. t \in Objs \cup {Prim} /\ IsActive(t)
      BY <3>1, LookupTyped DEF TypeNamed, CInv, GInv, IInv, FixedServants, Placed
    <3>3. TypeOutcome(t) = "typecode"
      BY <3>2, TypesEnd DEF LInv
    <3> QED
      BY <1>3, <1>4, <3>3 DEF ResolveType
  <2> QED
    BY <1>2, <2>1, ResolveTypeStopped
<1>5. CASE WrapType(l)
  BY <1>3, <1>5 DEF WrapType
<1>6. CASE Find(l)
  <2> PICK x : x = Lookup(c, <<v.name>>)
    OBVIOUS
  <2>1. \/ x = NoObj /\ v.visit = "again"
        \/ x # NoObj /\ v.visit # "forward" /\ kind[x] # v.kind
    BY <1>3, <1>6 DEF Find, Expected, LeftAlone
  <2>2. v.visit # "end"
    BY <1>6 DEF Find, In, Phases
  <2> QED
    BY <1>0, <1>2, <2>1, <2>2, FindStopped
<1>7. CASE Make(l)
  <2>1. L.phase = "make" /\ MakeRefused(l)
    <3>1. In(l, "make")
      BY <1>7 DEF Make
    <3>2. ASSUME NEW site \in {"initRemoveId", "typeLoop"},
                 CreateContainedDies(c, v.kind, v.id, v.name, site),
                 site = "typeLoop" => \E t \in FirstRefs(l) : Loops(v.kind, t)
          PROVE  FALSE
      BY <3>1, <3>2, MakeFacts
    <3> QED
      BY <1>3, <1>7, <3>1, <3>2 DEF Make, In
  <2> QED
    BY <1>2, <2>1, MakeStopped
<1>8. CASE UpdateId(l)
  <2> PICK o : o = L.found
    OBVIOUS
  <2>1. L.phase = "id"
    BY <1>8 DEF UpdateId, In
  <2>2. o \in Objs /\ v.id \in Ids
    BY <2>1 DEF Placing, Stands, Phases, TypedVisit
  <2>3. ~ SetIdDies(o, v.id)
    BY <2>2, NobodyDies
  <2>4. id[o] # v.id /\ idmap[v.id] # NoObj
    BY <1>3, <1>8, <2>3 DEF UpdateId
  <2> QED
    BY <1>2, <2>1, <2>4, UpdateIdStopped
<1>9. CASE UpdateRefs(l)
  <2> PICK o, t : o = UpdateTarget(l) /\ t = L.resultType
    OBVIOUS
  <2>1. L.phase = "refs"
    BY <1>9 DEF UpdateRefs, In
  <2>2. kind[o] = v.kind
    <3>1. CASE v.visit = "end"
      BY <3>1, ContainerHolds DEF UpdateTarget
    <3>2. CASE v.visit # "end"
      BY <2>1, <3>2 DEF UpdateTarget, Placing, Stands
    <3> QED
      BY <3>1, <3>2
  <2>3. t \in Objs \cup {Prim}
    BY <2>1 DEF Placing, KnowsType, Jobs
  <2>4. ~ Loops(kind[o], t)
    BY <2>3, NothingLoops
  <2>5. Throws(v.kind, t)
    BY <1>3, <1>9, <2>2, <2>4 DEF UpdateRefs
  <2> QED
    BY <1>2, <2>1, <2>5, UpdateRefsStopped
<1>10. CASE Pop(l) \/ Kill(l)
  BY <1>3, <1>10 DEF Pop, Kill
<1> QED
  BY <1>4, <1>5, <1>6, <1>7, <1>8, <1>9, <1>10 DEF LoaderStep

\* Each loader that fails has a reason.
FailuresBlamed ==
    \A l \in Loaders :
        (AtWork(l) /\ loader'[l].status = "failed" /\ loader[l].met = {}) => Blamed(l)

LEMMA NextFailuresBlamed ==
    ASSUME AInv, [LoaderNext]_allVars
    PROVE  FailuresBlamed
<1> SUFFICES ASSUME NEW l \in Loaders, AtWork(l), loader'[l].status = "failed",
                    loader[l].met = {}
             PROVE  Blamed(l)
  BY DEF FailuresBlamed
<1>1. LInv /\ loader[l] \in Jobs /\ loader'[l] # loader[l]
  BY JobOf DEF AInv, AtWork
<1>2. CASE UNCHANGED allVars
  BY <1>1, <1>2 DEF allVars
<1>3. ASSUME NEW k \in Loaders, NEW f \in Files, Begin(k, f) PROVE FALSE
  <2>1. k # l
    BY <1>3 DEF Begin
  <2>2. loader'[l] = [loader[l] EXCEPT !.met = @ \cup {f}]
    BY <1>3, <2>1 DEF Begin
  <2> QED
    BY <1>1, <2>2 DEF AtWork, Jobs
<1>4. ASSUME NEW k \in Loaders, LoaderStep(k) PROVE Blamed(l)
  <2> PICK f : f = loader[k].file
    OBVIOUS
  <2>1. Enters(k)
    BY <1>4, StepEnters
  <2>2. k = l
    BY <1>1, <2>1 DEF Enters
  <2> QED
    BY <1>4, <2>2, StepBlamed
<1> QED
  BY <1>2, <1>3, <1>4 DEF LoaderNext

\* A load that nobody disturbs fails only for what was there when it began - a
\* typedef that keeps what is inside it out is one such thing - or for a declaration
\* that the back-end cannot enter at all: a further declarator of an attribute or a
\* constant of an enum type.  What the loader has entered itself is found again
\* where and as its later visits expect it, however the file is written
\* (ifr.py:57-63, 97-102, 277, 598-603, 733-743, ConstantDef.cc:56-89).
THEOREM FailuresHaveReasons == LoaderSpec => FailsForAReason
<1>1. LoaderSpec => []AInv
  BY InitAInv, NextAInv, PTL DEF LoaderSpec
<1>2. AInv /\ [LoaderNext]_allVars => FailuresBlamed
  BY NextFailuresBlamed
<1>3. FailuresBlamed =>
        \A l \in Loaders :
            (AtWork(l) /\ loader'[l].status = "failed" /\ loader[l].met = {}) =>
                \/ NeverLoaded(loader[l].file, loader[l].at)
                \/ TypeLeftOut(loader[l].file, loader[l].at, loader[l].before)
                \/ InTheWay(Current(l), Container(l), loader[l].before)
  BY DEF FailuresBlamed, Blamed
<1> QED
  BY <1>1, <1>2, <1>3, PTL DEF LoaderSpec, FailsForAReason

=============================================================================
