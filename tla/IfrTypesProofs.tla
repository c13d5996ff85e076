--------------------------- MODULE IfrTypesProofs ---------------------------
(***************************************************************************)
(* Proofs about IfrTypes.  Three things have to be known before a step can *)
(* be argued about:                                                        *)
(*                                                                         *)
(* - what Types computes, a function defined by recursion on Nat: that one *)
(*   step of it is what its definition says (TypesStep) needs that a       *)
(*   finite computation exists and is unique, by the least number where it *)
(*   would not;                                                            *)
(* - what equivalent() compares of a TypeCode: through aliases and         *)
(*   sequences, that of the type referred to, and no member                *)
(*   (GivenStripped);                                                      *)
(* - which definitions type() goes through: Chain, a least closed set.     *)
(*                                                                         *)
(* A step that leaves the references on the chain of a type alone then     *)
(* leaves alone what equivalent() compares of it (SameType), and no        *)
(* destruction touches the chain of another definition (DestroyOther).     *)
(*                                                                         *)
(* The inductive invariant TInv adds to TypeOK and OnewayLegal that        *)
(* references are to types, and that an operation whose reference is to    *)
(* void has kept the TypeCode of void: when the mode is set, checkOneway() *)
(* looks at the reference, and OnewayLegal speaks of both.                 *)
(***************************************************************************)
EXTENDS IfrTypes, FiniteSetTheorems, WellFoundedInduction, TLAPS

-----------------------------------------------------------------------------
(* Counting.                                                               *)

\* A set of numbers that is not empty has a least one.
LEMMA Least ==
    ASSUME NEW T \in SUBSET Nat, T # {}
    PROVE  \E m \in T : \A k \in T : m <= k
<1> DEFINE less == {p \in Nat \X Nat : p[1] < p[2]}
<1>1. IsWellFoundedOn(less, Nat)
  BY NatLessThanWellFounded DEF OpToRel
<1>2. PICK m \in T : \A k \in T : <<k, m>> \notin less
  <2> HIDE DEF less
  <2> QED
    BY <1>1, WFMin
<1>3. ASSUME NEW k \in T PROVE m <= k
  <2>1. <<k, m>> \notin less /\ k \in Nat /\ m \in Nat
    BY <1>2
  <2> QED
    BY <2>1
<1> QED
  BY <1>3

-----------------------------------------------------------------------------
(* TypeCodes.                                                              *)

\* What the first n steps of Types compute.
Upto(K, R, M, g, n) ==
    g = [j \in 0..n |->
            [t \in Refs |-> TypeGiven(t, K[t], M[t],
                                      IF j = 0 THEN NullType ELSE g[j - 1][R[t]])]]

\* Two computations agree as far as both go.
LEMMA UptoUnique ==
    ASSUME NEW K, NEW R, NEW M, NEW n \in Nat, NEW m \in Nat, NEW g, NEW h,
           Upto(K, R, M, g, n), Upto(K, R, M, h, m),
           NEW k \in 0..n, k \in 0..m
    PROVE  g[k] = h[k]
<1> DEFINE T == {j \in 0..n : j \in 0..m /\ g[j] # h[j]}
<1> SUFFICES ASSUME T # {} PROVE FALSE
  OBVIOUS
<1>1. PICK j \in T : \A i \in T : j <= i
  <2>1. T \in SUBSET Nat
    OBVIOUS
  <2> QED
    BY <2>1, Least
<1>2. /\ g[j] = [t \in Refs |-> TypeGiven(t, K[t], M[t],
                            IF j = 0 THEN NullType ELSE g[j - 1][R[t]])]
      /\ h[j] = [t \in Refs |-> TypeGiven(t, K[t], M[t],
                            IF j = 0 THEN NullType ELSE h[j - 1][R[t]])]
  BY DEF Upto
<1>3. CASE j = 0
  BY <1>2, <1>3
<1>4. CASE j # 0
  <2>1. j - 1 \in 0..n /\ j - 1 \in 0..m /\ j - 1 \notin T
    BY <1>1, <1>4
  <2>2. g[j - 1] = h[j - 1]
    BY <2>1
  <2> QED
    BY <1>2, <2>2
<1> QED
  BY <1>3, <1>4

\* Any number of steps can be computed.
LEMMA UptoExists ==
    ASSUME NEW K, NEW R, NEW M, NEW n \in Nat
    PROVE  \E g : Upto(K, R, M, g, n)
<1> DEFINE T == {j \in Nat : ~ \E g : Upto(K, R, M, g, j)}
<1> SUFFICES ASSUME T # {} PROVE FALSE
  OBVIOUS
<1>1. PICK j \in T : \A i \in T : j <= i
  BY Least
<1>2. CASE j = 0
  <2>1. Upto(K, R, M, [i \in 0..0 |->
                        [t \in Refs |-> TypeGiven(t, K[t], M[t], NullType)]], 0)
    BY DEF Upto
  <2> QED
    BY <1>2, <2>1
<1>3. CASE j # 0
  <2>1. j - 1 \in Nat /\ j - 1 \notin T
    BY <1>1, <1>3
  <2>2. PICK g : Upto(K, R, M, g, j - 1)
    BY <2>1
  <2> DEFINE next == [t \in Refs |-> TypeGiven(t, K[t], M[t], g[j - 1][R[t]])]
             h == [i \in 0..j |-> IF i = j THEN next ELSE g[i]]
  <2>3. ASSUME NEW i \in 0..j
        PROVE  h[i] = [t \in Refs |-> TypeGiven(t, K[t], M[t],
                                IF i = 0 THEN NullType ELSE h[i - 1][R[t]])]
    <3>1. CASE i = j
      <4>1. j - 1 \in 0..j /\ j - 1 # j
        BY <1>3
      <4>2. h[j - 1] = g[j - 1] /\ h[j] = next
        BY <4>1
      <4> QED
        BY <1>3, <3>1, <4>2
    <3>2. CASE i # j
      <4>1. i \in 0..(j - 1) /\ h[i] = g[i]
        BY <3>2
      <4>2. i # 0 => i - 1 \in 0..(j - 1) /\ h[i - 1] = g[i - 1]
        BY <4>1
      <4>3. g[i] = [t \in Refs |-> TypeGiven(t, K[t], M[t],
                                IF i = 0 THEN NullType ELSE g[i - 1][R[t]])]
        BY <4>1, <2>2 DEF Upto
      <4> QED
        BY <4>1, <4>2, <4>3
    <3> QED
      BY <3>1, <3>2
  <2>4. h = [i \in 0..j |-> h[i]]
    OBVIOUS
  <2> HIDE DEF h
  <2>5. Upto(K, R, M, h, j)
    BY <2>3, <2>4 DEF Upto
  <2> QED
    BY <2>5
<1> QED
  BY <1>2, <1>3

\* Types computes what its definition says.
LEMMA TypesStep ==
    ASSUME NEW K, NEW R, NEW M, NEW k \in Nat
    PROVE  Types(K, R, M)[k] =
            [t \in Refs |-> TypeGiven(t, K[t], M[t],
                    IF k = 0 THEN NullType ELSE Types(K, R, M)[k - 1][R[t]])]
<1> DEFINE upto(n) == CHOOSE g : Upto(K, R, M, g, n)
           f == [n \in Nat |-> upto(n)[n]]
           r == Types(K, R, M)
<1>1. \A n \in Nat : Upto(K, R, M, upto(n), n)
  BY UptoExists
<1> HIDE DEF upto
<1>2. ASSUME NEW n \in Nat
      PROVE  f[n] = [t \in Refs |-> TypeGiven(t, K[t], M[t],
                            IF n = 0 THEN NullType ELSE f[n - 1][R[t]])]
  <2>1. upto(n)[n] = [t \in Refs |-> TypeGiven(t, K[t], M[t],
                            IF n = 0 THEN NullType ELSE upto(n)[n - 1][R[t]])]
    BY <1>1 DEF Upto
  <2>2. CASE n = 0
    BY <2>1, <2>2
  <2>3. CASE n # 0
    <3>1. n - 1 \in Nat /\ n - 1 \in 0..n /\ n - 1 \in 0..(n - 1)
      BY <2>3
    <3>2. upto(n)[n - 1] = upto(n - 1)[n - 1]
      BY <1>1, <3>1, UptoUnique
    <3> QED
      BY <2>1, <3>1, <3>2
  <2> QED
    BY <2>2, <2>3
<1>3. f = [n \in Nat |-> f[n]]
  OBVIOUS
<1> HIDE DEF f
<1>4. f = [n \in Nat |-> [t \in Refs |-> TypeGiven(t, K[t], M[t],
                            IF n = 0 THEN NullType ELSE f[n - 1][R[t]])]]
  BY <1>2, <1>3
<1>5. r = [n \in Nat |-> [t \in Refs |-> TypeGiven(t, K[t], M[t],
                            IF n = 0 THEN NullType ELSE r[n - 1][R[t]])]]
  BY <1>4 DEF Types
<1> HIDE DEF r
<1> QED
  BY <1>5 DEF r

\* The TCKind of a TypeCode, and what equivalent() compares of it.
LEMMA TCKind == \A k, i, ps : TC(k, i, ps).kind = k
BY DEF TC

LEMMA StrippedAlias == \A i, ps : TC("Alias", i, ps).stripped = ps[1].stripped
BY DEF TC

LEMMA StrippedOther ==
    \A k, i, ps : k # "Alias" =>
        TC(k, i, ps).stripped =
            [kind |-> k, id |-> i,
             parts |-> IF i # None THEN <<>> ELSE [j \in DOMAIN ps |-> ps[j].stripped]]
BY DEF TC

LEMMA StrippedKind == \A k, i, ps : k # "Alias" => TC(k, i, ps).stripped.kind = k
BY DEF TC

\* The TCKind of the type() of a definition is its own kind.
LEMMA GivenKind ==
    ASSUME NEW t, NEW k, NEW ms, NEW asked
    PROVE  TypeGiven(t, k, ms, asked).kind = IF t \in Primitives THEN t ELSE k
<1>1. CASE t \in Primitives
  BY <1>1, TCKind DEF TypeGiven
<1>2. CASE t \notin Primitives
  <2>1. \E i, ps : TypeGiven(t, k, ms, asked) = TC(k, i, ps)
    BY <1>2 DEF TypeGiven
  <2> QED
    BY <1>2, <2>1, TCKind
<1> QED
  BY <1>1, <1>2

\* What equivalent() compares of the type() of a definition: through aliases and
\* sequences, that of the one it refers to, and of no member.
LEMMA GivenStripped ==
    ASSUME TypesAssumption, NEW t \in Refs, NEW k, NEW ms, NEW ns, NEW x, NEW y,
           t \in Defs /\ k \in {"Alias", "Sequence"} => x.stripped = y.stripped
    PROVE  TypeGiven(t, k, ms, x).stripped = TypeGiven(t, k, ns, y).stripped
<1>1. CASE t \in Primitives
  BY <1>1 DEF TypeGiven
<1>2. CASE t \notin Primitives
  <2>1. t \in Defs /\ t # None
    BY <1>2 DEF TypesAssumption, Refs
  <2>2. CASE k = "Alias"
    <3>1. /\ TypeGiven(t, k, ms, x) = TC("Alias", t, <<x>>)
          /\ TypeGiven(t, k, ns, y) = TC("Alias", t, <<y>>)
      BY <1>2, <2>2 DEF TypeGiven
    <3>2. <<x>>[1] = x /\ <<y>>[1] = y
      OBVIOUS
    <3> QED
      <4>1. /\ TC("Alias", t, <<x>>).stripped = <<x>>[1].stripped
            /\ TC("Alias", t, <<y>>).stripped = <<y>>[1].stripped
        BY StrippedAlias
      <4> QED
        BY <2>1, <2>2, <3>1, <3>2, <4>1
  <2>3. CASE k = "Sequence"
    <3>1. /\ TypeGiven(t, k, ms, x) = TC("Sequence", None, <<x>>)
          /\ TypeGiven(t, k, ns, y) = TC("Sequence", None, <<y>>)
      BY <1>2, <2>3 DEF TypeGiven
    <3>2. DOMAIN <<x>> = {1} /\ DOMAIN <<y>> = {1} /\ <<x>>[1] = x /\ <<y>>[1] = y
      OBVIOUS
    <3> DEFINE p == [j \in DOMAIN <<x>> |-> <<x>>[j].stripped]
               q == [j \in DOMAIN <<y>> |-> <<y>>[j].stripped]
    <3>3. p = q
      BY <2>1, <2>3, <3>2
    <3> QED
      <4>1. TC("Sequence", None, <<x>>).stripped =
                [kind |-> "Sequence", id |-> None, parts |-> p]
        BY StrippedOther
      <4>2. TC("Sequence", None, <<y>>).stripped =
                [kind |-> "Sequence", id |-> None, parts |-> q]
        BY StrippedOther
      <4> HIDE DEF p, q
      <4> QED
        BY <3>1, <3>3, <4>1, <4>2
  <2>4. CASE k \notin {"Alias", "Sequence"}
    <3>1. \E ps : TypeGiven(t, k, ms, x) = TC(k, t, ps)
      BY <1>2, <2>4 DEF TypeGiven
    <3>2. \E ps : TypeGiven(t, k, ns, y) = TC(k, t, ps)
      BY <1>2, <2>4 DEF TypeGiven
    <3> QED
      <4>1. \A ps : TC(k, t, ps).stripped = [kind |-> k, id |-> t, parts |-> <<>>]
        BY <2>1, <2>4, StrippedOther
      <4> QED
        BY <3>1, <3>2, <4>1
  <2> QED
    BY <2>2, <2>3, <2>4
<1> QED
  BY <1>1, <1>2

\* The number of steps TypeOf takes is one.
LEMMA DefsCount ==
    ASSUME TypesAssumption
    PROVE  Cardinality(Defs) \in Nat
BY FS_CardinalityType DEF TypesAssumption

\* TypeOf has the kind of its definition.
LEMMA TypeOfKind ==
    ASSUME TypesAssumption, NEW t \in Refs
    PROVE  TypeOf(t).kind = IF t \in Primitives THEN t ELSE kind[t]
<1> DEFINE n == Cardinality(Defs)
           f == Types(kind, typeDef, members)
<1>1. n \in Nat
  BY DefsCount
<1> HIDE DEF n
<1>2. f[n] = [r \in Refs |-> TypeGiven(r, kind[r], members[r],
                    IF n = 0 THEN NullType ELSE f[n - 1][typeDef[r]])]
  BY <1>1, TypesStep
<1> HIDE DEF f
<1>3. f[n][t] = TypeGiven(t, kind[t], members[t],
                    IF n = 0 THEN NullType ELSE f[n - 1][typeDef[t]])
  BY <1>2
<1>4. TypeOf(t) = f[n][t]
  BY DEF TypeOf, f, n
<1> QED
  BY <1>3, <1>4, GivenKind

-----------------------------------------------------------------------------
(* Chains.                                                                 *)

\* The chain of t holds t and goes on as far as there is something to ask.
LEMMA ChainClosed ==
    ASSUME NEW t
    PROVE  /\ Chain(t) \subseteq Defs
           /\ t \in Defs => t \in Chain(t)
           /\ \A x \in Chain(t) : Delegates(x) /\ typeDef[x] \in Defs =>
                                    typeDef[x] \in Chain(t)
BY DEF Chain

\* It is no longer than it has to be.
LEMMA ChainLeast ==
    ASSUME NEW t, NEW S \in SUBSET Defs, t \in Defs => t \in S,
           \A x \in S : Delegates(x) /\ typeDef[x] \in Defs => typeDef[x] \in S
    PROVE  Chain(t) \subseteq S
BY DEF Chain

\* A step that leaves the definitions of a chain where they are, and what they
\* refer to, makes the chain no longer.
LEMMA SameChain ==
    ASSUME NEW t, kind' = kind,
           \A x \in Chain(t) : /\ typeDef'[x] = typeDef[x]
                               /\ x \in live' => x \in live
    PROVE  Chain(t)' \subseteq Chain(t)
<1> DEFINE S == Chain(t)
<1>1. /\ S \subseteq Defs /\ (t \in Defs => t \in S)
      /\ \A x \in S : Delegates(x) /\ typeDef[x] \in Defs => typeDef[x] \in S
  BY ChainClosed
<1> HIDE DEF S
<1>2. ASSUME NEW x \in S, Delegates(x)', typeDef'[x] \in Defs
      PROVE  typeDef'[x] \in S
  <2>1. Delegates(x) /\ typeDef'[x] = typeDef[x]
    BY <1>2 DEF Delegates, S
  <2> QED
    BY <1>1, <1>2, <2>1
<1>3. Chain(t)' \subseteq S
  BY <1>1, <1>2 DEF Chain
<1> QED
  BY <1>3 DEF S

\* Live definitions that ask another have one to ask.
Referring == \A d \in live : kind[d] \in DelegatingKinds => typeDef[d] \in Refs

\* Such a step changes nothing that equivalent() compares of the type of t.
LEMMA SameType ==
    ASSUME TypesAssumption, Referring, NEW t \in Refs, kind' = kind,
           Chain(t) \subseteq live,
           \A x \in Chain(t) : typeDef'[x] = typeDef[x]
    PROVE  TypeOf(t)'.stripped = TypeOf(t).stripped
<1> DEFINE f == Types(kind, typeDef, members)
           g == Types(kind', typeDef', members')
           n == Cardinality(Defs)
           C == Chain(t) \cup Primitives
           T == {j \in Nat : \E r \in C : f[j][r].stripped # g[j][r].stripped}
<1>1. /\ \A j \in Nat : f[j] = [r \in Refs |-> TypeGiven(r, kind[r], members[r],
                            IF j = 0 THEN NullType ELSE f[j - 1][typeDef[r]])]
      /\ \A j \in Nat : g[j] = [r \in Refs |-> TypeGiven(r, kind'[r], members'[r],
                            IF j = 0 THEN NullType ELSE g[j - 1][typeDef'[r]])]
  BY TypesStep
<1>2. TypeOf(t) = f[n][t] /\ TypeOf(t)' = g[n][t]
  BY DEF TypeOf
<1>3. C \subseteq Refs /\ t \in C
  BY ChainClosed DEF Refs
<1>4. ASSUME NEW r \in C, r \in Defs, kind[r] \in DelegatingKinds
      PROVE  typeDef[r] \in C /\ typeDef'[r] = typeDef[r]
  <2>1. r \in Chain(t)
    BY <1>4 DEF TypesAssumption
  <2>2. r \in live /\ typeDef[r] \in Refs
    BY <1>4, <2>1 DEF Referring
  <2> QED
    BY <1>4, <2>1, <2>2, ChainClosed DEF Delegates, Refs
<1> HIDE DEF f, g, C
<1>5. ASSUME T # {} PROVE FALSE
  <2>1. PICK j \in T : \A i \in T : j <= i
    BY <1>5, Least
  <2>2. PICK r \in C : f[j][r].stripped # g[j][r].stripped
    BY <2>1
  <2> DEFINE x == IF j = 0 THEN NullType ELSE f[j - 1][typeDef[r]]
             y == IF j = 0 THEN NullType ELSE g[j - 1][typeDef'[r]]
  <2>3. /\ f[j][r] = TypeGiven(r, kind[r], members[r], x)
        /\ g[j][r] = TypeGiven(r, kind[r], members'[r], y)
    <3>1. j \in Nat /\ r \in Refs
      BY <1>3
    <3>2. f[j] = [s \in Refs |-> TypeGiven(s, kind[s], members[s],
                            IF j = 0 THEN NullType ELSE f[j - 1][typeDef[s]])]
      BY <1>1, <3>1
    <3>3. g[j] = [s \in Refs |-> TypeGiven(s, kind'[s], members'[s],
                            IF j = 0 THEN NullType ELSE g[j - 1][typeDef'[s]])]
      BY <1>1, <3>1
    <3> QED
      BY <3>1, <3>2, <3>3
  <2>4. ASSUME r \in Defs, kind[r] \in {"Alias", "Sequence"}
        PROVE  x.stripped = y.stripped
    <3>1. CASE j = 0
      BY <3>1
    <3>2. CASE j # 0
      <4>1. j - 1 \in Nat /\ j - 1 \notin T
        BY <2>1, <3>2
      <4>2. typeDef[r] \in C /\ typeDef'[r] = typeDef[r]
        BY <1>4, <2>4 DEF DelegatingKinds
      <4> QED
        BY <3>2, <4>1, <4>2
    <3> QED
      BY <3>1, <3>2
  <2> HIDE DEF x, y
  <2>5. f[j][r].stripped = g[j][r].stripped
    BY <1>3, <2>3, <2>4, GivenStripped
  <2> QED
    BY <2>2, <2>5
<1>6. f[n][t].stripped = g[n][t].stripped
  <2>1. n \in Nat /\ n \notin T
    BY <1>5, DefsCount
  <2> QED
    BY <1>3, <2>1
<1> QED
  BY <1>2, <1>6

-----------------------------------------------------------------------------
(* The inductive invariant.                                                *)

\* A reference is to a type.
Referred ==
    \A d \in Defs : \/ typeDef[d] \in Primitives \cup {None}
                    \/ typeDef[d] \in Defs /\ kind[typeDef[d]] \in IDLTypeKinds

\* An operation whose reference is to void has kept the TypeCode of void.
ResultKept ==
    \A o \in live :
        kind[o] = "Operation" /\ typeDef[o] = "void" => value[o].kind = "void"

TInv ==
    /\ TypeOK
    /\ members = [d \in Defs |-> members[d]]
    /\ value = [d \in Defs |-> value[d]]
    /\ Referred
    /\ Referring
    /\ ResultKept
    /\ OnewayLegal

\* The kinds of definitions are no primitive types, and none is null.
LEMMA KindsApart ==
    ASSUME TypesAssumption, TypeOK, NEW d \in Defs
    PROVE  /\ kind[d] \in LinkKinds \cup HolderKinds
           /\ kind[d] \notin {"void", "null", "octet", "short", "long", "boolean",
                              "string", "any"}
BY DEF TypesAssumption, TypeOK

\* What clients hold refers to types.
LEMMA TypeRefsAre ==
    ASSUME NEW t \in TypeRefs
    PROVE  /\ t \in Refs
           /\ t \in Primitives \/ (t \in Defs /\ kind[t] \in IDLTypeKinds)
BY DEF TypeRefs, Refs

\* Only void is void.
LEMMA VoidIs ==
    ASSUME TypesAssumption, TypeOK, NEW t \in Refs
    PROVE  TypeOf(t).kind = "void" <=> t = "void"
<1>1. t = "void" => t \in Primitives
  BY DEF TypesAssumption
<1>2. t \notin Primitives => kind[t] # "void"
  BY KindsApart DEF Refs
<1> QED
  BY <1>1, <1>2, TypeOfKind

\* Void always answers.
LEMMA VoidHasType ==
    ASSUME TypesAssumption
    PROVE  HasType("void")
<1>1. "void" \in Primitives /\ "void" \notin Defs
  BY DEF TypesAssumption
<1>2. Chain("void") \subseteq {}
  BY <1>1, ChainLeast
<1> QED
  BY <1>1, <1>2 DEF HasType, Refs

\* The members a setter stores.
LEMMA TypedMembers ==
    ASSUME TypesAssumption, TypeOK, NEW v \in Sent
    PROVE  /\ DOMAIN Typed(v) = DOMAIN v
           /\ \A i \in DOMAIN v : /\ v[i].def \in Refs
                                  /\ Typed(v)[i].def = v[i].def
                                  /\ Typed(v)[i].label = v[i].label
                                  /\ Typed(v)[i].type.kind # "null"
<1>1. DOMAIN Typed(v) = DOMAIN v
  BY DEF Typed
<1>2. ASSUME NEW i \in DOMAIN v
      PROVE  /\ v[i].def \in Refs
             /\ Typed(v)[i].def = v[i].def
             /\ Typed(v)[i].label = v[i].label
             /\ Typed(v)[i].type = TypeOf(v[i].def)
  <2>1. v[i].def \in Refs
    BY TypeRefsAre DEF Sent
  <2>2. v[i] = [name |-> v[i].name, label |-> v[i].label, def |-> v[i].def,
                type |-> v[i].type, mode |-> v[i].mode]
    BY DEF Sent, TypesAssumption
  <2>3. Typed(v)[i] = [v[i] EXCEPT !.type = TypeOf(v[i].def)]
    BY DEF Typed
  <2> QED
    BY <2>1, <2>2, <2>3
<1>3. ASSUME NEW t \in Refs PROVE TypeOf(t).kind # "null"
  <2>1. t \in Primitives => t # "null"
    BY DEF TypesAssumption
  <2>2. t \notin Primitives => kind[t] # "null"
    BY KindsApart DEF Refs
  <2> QED
    BY <2>1, <2>2, TypeOfKind
<1> QED
  BY <1>1, <1>2, <1>3

\* Definitions as create_xxx() leaves them.
LEMMA InitTInv ==
    ASSUME TypesAssumption, Init
    PROVE  TInv
<1>1. /\ kind \in [Defs -> LinkKinds \cup HolderKinds] /\ live = Defs
      /\ typeDef = [d \in Defs |->
                    IF kind[d] \in {"Alias", "Sequence", "Union", "Constant",
                                    "Attribute"} THEN "short"
                    ELSE IF kind[d] = "Operation" THEN "void" ELSE None]
      /\ members = [d \in Defs |-> <<>>]
      /\ value = [d \in Defs |->
                    IF kind[d] = "Constant" THEN TypeOf("short")
                    ELSE IF kind[d] = "Operation" THEN TypeOf("void")
                    ELSE NullType]
      /\ mode = [d \in Defs |-> "normal"]
      /\ exceptions = [d \in Defs |-> {}]
  BY DEF Init
<1>2. "short" \in Primitives /\ "void" \in Primitives
  BY DEF TypesAssumption
<1>3. typeDef \in [Defs -> Refs \cup {None}]
  BY <1>1, <1>2 DEF Refs
<1>4. TypeOK
  <2>1. \A d \in Defs : DOMAIN members[d] = {}
    BY <1>1
  <2> QED
    BY <1>1, <1>3, <2>1 DEF TypeOK
<1>5. members = [d \in Defs |-> members[d]] /\ value = [d \in Defs |-> value[d]]
  BY <1>1
<1>6. Referred
  BY <1>1, <1>2 DEF Referred
<1>7. Referring
  BY <1>1, <1>2 DEF Referring, DelegatingKinds, Refs
<1>8. ResultKept
  <2>1. TypeOf("void").kind = "void"
    BY <1>2, <1>4, VoidIs DEF Refs
  <2> QED
    BY <1>1, <2>1 DEF ResultKept
<1>9. OnewayLegal
  BY <1>1 DEF OnewayLegal
<1> QED
  BY <1>4, <1>5, <1>6, <1>7, <1>8, <1>9 DEF TInv

\* Setters of members, of definitions other than operations.
Relist(o, v) ==
    /\ members' = [members EXCEPT ![o] = v]
    /\ UNCHANGED <<kind, live, typeDef, value, mode, exceptions>>
    /\ kind[o] # "Operation"
    /\ \A i \in DOMAIN v :
        /\ v[i].def \in Refs \cup {None}
        /\ kind[o] \in {"Struct", "Exception", "Union"} => v[i].type.kind # "null"

\* Such a setter keeps the invariant.
LEMMA RelistTInv ==
    ASSUME TypesAssumption, TInv, NEW o \in Defs, NEW v, Relist(o, v)
    PROVE  TInv'
<1> USE DEF Relist
<1>1. \A d \in Defs : members'[d] = IF d = o THEN v ELSE members[d]
  BY DEF TInv
<1>2. members' = [d \in Defs |-> members'[d]]
  BY DEF TInv
<1>3. TypeOK'
  BY <1>1 DEF TInv, TypeOK
<1>4. OnewayLegal'
  <2>1. live \subseteq Defs /\ OnewayLegal
    BY DEF TInv, TypeOK
  <2>2. ASSUME NEW d \in live, kind[d] = "Operation", mode[d] = "oneway"
        PROVE  /\ typeDef'[d] = "void" /\ value'[d].kind = "void"
               /\ \A i \in DOMAIN members'[d] : members'[d][i].mode = "in"
    <3>1. d \in Defs /\ d # o
      BY <2>1, <2>2
    <3> QED
      BY <1>1, <2>1, <2>2, <3>1 DEF OnewayLegal
  <2> QED
    BY <2>2 DEF OnewayLegal
<1> QED
  BY <1>2, <1>3, <1>4 DEF TInv, Referred, Referring, ResultKept

\* Setters of the type of definitions other than operations.
LEMMA RetypeTInv ==
    ASSUME TypesAssumption, TInv, NEW o \in Defs, NEW t \in TypeRefs, NEW v, NEW w,
           typeDef' = [typeDef EXCEPT ![o] = t],
           members' = [members EXCEPT ![o] = v], v \in {<<>>, members[o]},
           value' = [value EXCEPT ![o] = w],
           UNCHANGED <<kind, live, mode, exceptions>>,
           kind[o] # "Operation"
    PROVE  TInv'
<1>1. \A d \in Defs : /\ members'[d] = IF d = o THEN v ELSE members[d]
                      /\ typeDef'[d] = IF d = o THEN t ELSE typeDef[d]
                      /\ value'[d] = IF d = o THEN w ELSE value[d]
  <2>1. \A d \in Defs : members'[d] = IF d = o THEN v ELSE members[d]
    BY DEF TInv
  <2>2. \A d \in Defs : typeDef'[d] = IF d = o THEN t ELSE typeDef[d]
    BY DEF TInv, TypeOK
  <2>3. \A d \in Defs : value'[d] = IF d = o THEN w ELSE value[d]
    BY DEF TInv
  <2> QED
    BY <2>1, <2>2, <2>3
<1>2. /\ members' = [d \in Defs |-> members'[d]]
      /\ value' = [d \in Defs |-> value'[d]]
  BY DEF TInv
<1>3. /\ t \in Refs
      /\ t \in Primitives \/ (t \in Defs /\ kind[t] \in IDLTypeKinds)
  BY TypeRefsAre
<1>4. TypeOK'
  <2>1. \A i \in DOMAIN v : v = members[o]
    OBVIOUS
  <2>2. typeDef' \in [Defs -> Refs \cup {None}]
    BY <1>3 DEF TInv, TypeOK
  <2> QED
    BY <1>1, <2>1, <2>2 DEF TInv, TypeOK
<1>5. OnewayLegal'
  <2>1. live \subseteq Defs /\ OnewayLegal
    BY DEF TInv, TypeOK
  <2>2. ASSUME NEW d \in live, kind[d] = "Operation", mode[d] = "oneway"
        PROVE  /\ typeDef'[d] = "void" /\ value'[d].kind = "void"
               /\ \A i \in DOMAIN members'[d] : members'[d][i].mode = "in"
    <3>1. d \in Defs /\ d # o
      BY <2>1, <2>2
    <3> QED
      BY <1>1, <2>1, <2>2, <3>1 DEF OnewayLegal
  <2> QED
    BY <2>2 DEF OnewayLegal
<1>6. Referred' /\ Referring'
  BY <1>1, <1>3 DEF TInv, Referred, Referring, TypeOK
<1>7. ResultKept'
  BY <1>1 DEF TInv, ResultKept, TypeOK
<1> QED
  BY <1>2, <1>4, <1>5, <1>6, <1>7 DEF TInv

\* Setters of the value of a constant, and of the result, parameters and mode of
\* an operation, after which it is as checkOneway() wants it.
Reset(o, t, v, w, m) ==
    /\ typeDef' = [typeDef EXCEPT ![o] = t]
    /\ members' = [members EXCEPT ![o] = v]
    /\ value' = [value EXCEPT ![o] = w]
    /\ mode' = [mode EXCEPT ![o] = m]
    /\ UNCHANGED <<kind, live, exceptions>>
    /\ kind[o] \in {"Constant", "Operation"}
    /\ t \in TypeRefs \cup {typeDef[o]}
    /\ \A i \in DOMAIN v : v[i].def \in Refs \cup {None}
    /\ m \in {"normal", "oneway"}
    /\ kind[o] = "Operation" =>
            /\ t = "void" => w.kind = "void"
            /\ m = "oneway" => t = "void" /\ \A i \in DOMAIN v : v[i].mode = "in"

\* So do these.
LEMMA ResetTInv ==
    ASSUME TypesAssumption, TInv, NEW o \in Defs, NEW t, NEW v, NEW w, NEW m,
           Reset(o, t, v, w, m)
    PROVE  TInv'
<1> USE DEF Reset
<1>1. \A d \in Defs : /\ members'[d] = IF d = o THEN v ELSE members[d]
                      /\ typeDef'[d] = IF d = o THEN t ELSE typeDef[d]
                      /\ value'[d] = IF d = o THEN w ELSE value[d]
                      /\ mode'[d] = IF d = o THEN m ELSE mode[d]
  <2>1. \A d \in Defs : members'[d] = IF d = o THEN v ELSE members[d]
    BY DEF TInv
  <2>2. \A d \in Defs : typeDef'[d] = IF d = o THEN t ELSE typeDef[d]
    BY DEF TInv, TypeOK
  <2>3. \A d \in Defs : value'[d] = IF d = o THEN w ELSE value[d]
    BY DEF TInv
  <2>4. \A d \in Defs : mode'[d] = IF d = o THEN m ELSE mode[d]
    BY DEF TInv, TypeOK
  <2> QED
    BY <2>1, <2>2, <2>3, <2>4
<1>2. /\ members' = [d \in Defs |-> members'[d]]
      /\ value' = [d \in Defs |-> value'[d]]
  BY DEF TInv
<1>3. /\ t \in Refs \cup {None}
      /\ \/ t \in Primitives \cup {None}
         \/ t \in Defs /\ kind[t] \in IDLTypeKinds
  <2>1. CASE t \in TypeRefs
    BY <2>1, TypeRefsAre
  <2>2. CASE t = typeDef[o]
    BY <2>2 DEF TInv, TypeOK, Referred
  <2> QED
    BY <2>1, <2>2
<1>4. TypeOK'
  <2>1. /\ typeDef' \in [Defs -> Refs \cup {None}]
        /\ mode' \in [Defs -> {"normal", "oneway"}]
    BY <1>3 DEF TInv, TypeOK
  <2> QED
    BY <1>1, <2>1 DEF TInv, TypeOK
<1>5. Referred'
  BY <1>1, <1>3 DEF TInv, Referred
<1>6. live \subseteq Defs
  BY DEF TInv, TypeOK
<1>7. Referring'
  <2>1. ASSUME NEW d \in live, kind[d] \in DelegatingKinds
        PROVE  typeDef'[d] \in Refs
    <3>1. d \in Defs /\ d # o
      BY <1>6, <2>1 DEF DelegatingKinds
    <3> QED
      BY <1>1, <2>1, <3>1 DEF TInv, Referring
  <2> QED
    BY <2>1 DEF Referring
<1>8. ResultKept'
  <2>1. ASSUME NEW d \in live, kind[d] = "Operation", typeDef'[d] = "void"
        PROVE  value'[d].kind = "void"
    <3>1. CASE d = o
      BY <1>1, <2>1, <3>1
    <3>2. CASE d # o
      <4>1. typeDef'[d] = typeDef[d] /\ value'[d] = value[d]
        BY <1>1, <1>6, <3>2
      <4> HIDE DEF Reset
      <4> QED
        BY <2>1, <4>1 DEF TInv, ResultKept
    <3> QED
      BY <3>1, <3>2
  <2> QED
    BY <2>1 DEF ResultKept
<1>9. OnewayLegal'
  <2>1. ASSUME NEW d \in live, kind[d] = "Operation", mode'[d] = "oneway"
        PROVE  /\ typeDef'[d] = "void" /\ value'[d].kind = "void"
               /\ \A i \in DOMAIN members'[d] : members'[d][i].mode = "in"
    <3>1. d \in Defs
      BY <1>6
    <3>2. CASE d = o
      BY <1>1, <2>1, <3>2
    <3>3. CASE d # o
      <4>1. /\ members'[d] = members[d] /\ typeDef'[d] = typeDef[d]
            /\ value'[d] = value[d] /\ mode'[d] = mode[d]
        BY <1>1, <3>1, <3>3
      <4> HIDE DEF Reset
      <4> QED
        BY <2>1, <4>1 DEF TInv, OnewayLegal
    <3> QED
      BY <3>2, <3>3
  <2> QED
    BY <2>1 DEF OnewayLegal
<1> QED
  BY <1>2, <1>4, <1>5, <1>7, <1>8, <1>9 DEF TInv

\* result_def(v), whether or not v has a type.
LEMMA SetResultTInv ==
    ASSUME TypesAssumption, TInv, NEW o \in Defs, NEW t \in Refs,
           SetResult(o, t) \/ SetResultHalf(o, t)
    PROVE  TInv'
<1> DEFINE w == IF HasType(t) THEN TypeOf(t) ELSE value[o]
<1>1. /\ Asked(o, "Operation") /\ t \in TypeRefs
      /\ OnewayAccepted(mode[o], members[o], t)
      /\ typeDef' = [typeDef EXCEPT ![o] = t]
      /\ value' = [value EXCEPT ![o] = w]
      /\ UNCHANGED <<kind, live, members, mode, exceptions>>
  BY DEF SetResult, SetResultHalf, TInv
<1>2. t = "void" => HasType(t)
  BY VoidHasType
<1>3. TypeOf(t).kind = "void" <=> t = "void"
  BY VoidIs DEF TInv
<1>4. t = "void" => w.kind = "void"
  BY <1>2, <1>3
<1> HIDE DEF w
<1>5. mode[o] = "oneway" =>
        t = "void" /\ \A i \in DOMAIN members[o] : members[o][i].mode = "in"
  BY <1>1, <1>3 DEF OnewayAccepted, IsVoid
<1>6. /\ members' = [members EXCEPT ![o] = members[o]]
      /\ mode' = [mode EXCEPT ![o] = mode[o]]
      /\ mode[o] \in {"normal", "oneway"}
      /\ \A i \in DOMAIN members[o] : members[o][i].def \in Refs \cup {None}
  BY <1>1 DEF TInv, TypeOK
<1>7. Reset(o, t, members[o], w, mode[o])
  BY <1>1, <1>4, <1>5, <1>6 DEF Reset, Asked
<1> QED
  BY <1>7, ResetTInv

\* Setters of the parameters and the mode.
LEMMA CheckedTInv ==
    ASSUME TypesAssumption, TInv, NEW o \in Defs, NEW v, NEW m,
           Asked(o, "Operation"), OnewayAccepted(m, v, typeDef[o]),
           members' = [members EXCEPT ![o] = v],
           mode' = [mode EXCEPT ![o] = m],
           UNCHANGED <<kind, live, typeDef, value, exceptions>>,
           \A i \in DOMAIN v : v[i].def \in Refs \cup {None},
           m \in {"normal", "oneway"}
    PROVE  TInv'
<1>1. o \in live /\ kind[o] = "Operation"
  BY DEF Asked
<1>2. m = "oneway" => typeDef[o] = "void" /\ \A i \in DOMAIN v : v[i].mode = "in"
  <2>1. typeDef[o] \in Refs => (TypeOf(typeDef[o]).kind = "void" <=> typeDef[o] = "void")
    BY VoidIs DEF TInv
  <2> QED
    BY <2>1 DEF OnewayAccepted, IsVoid, HasType
<1>3. typeDef[o] = "void" => value[o].kind = "void"
  BY <1>1 DEF TInv, ResultKept
<1>4. /\ typeDef' = [typeDef EXCEPT ![o] = typeDef[o]]
      /\ value' = [value EXCEPT ![o] = value[o]]
  BY DEF TInv, TypeOK
<1>5. Reset(o, typeDef[o], v, value[o], m)
  BY <1>1, <1>2, <1>3, <1>4 DEF Reset
<1> QED
  BY <1>5, ResetTInv

\* value(v) of a constant.
LEMMA SetValueTInv ==
    ASSUME TypesAssumption, TInv, NEW o \in Defs, NEW tc, SetValue(o, tc)
    PROVE  TInv'
<1>1. /\ Asked(o, "Constant")
      /\ value' = [value EXCEPT ![o] = tc]
      /\ UNCHANGED <<kind, live, typeDef, members, mode, exceptions>>
  BY DEF SetValue
<1>2. /\ typeDef' = [typeDef EXCEPT ![o] = typeDef[o]]
      /\ members' = [members EXCEPT ![o] = members[o]]
      /\ mode' = [mode EXCEPT ![o] = mode[o]]
      /\ mode[o] \in {"normal", "oneway"}
      /\ \A i \in DOMAIN members[o] : members[o][i].def \in Refs \cup {None}
  BY <1>1 DEF TInv, TypeOK
<1>3. Reset(o, typeDef[o], members[o], tc, mode[o])
  BY <1>1, <1>2 DEF Reset, Asked
<1> QED
  BY <1>3, ResetTInv

\* destroy(): nothing referred to what goes.
LEMMA DestroyTInv ==
    ASSUME TypesAssumption, TInv, NEW o \in Defs, Destroy(o)
    PROVE  TInv'
<1>1. /\ live' = live \ {o}
      /\ typeDef' = [typeDef EXCEPT ![o] = None]
      /\ members' = [members EXCEPT ![o] = <<>>]
      /\ exceptions' = [exceptions EXCEPT ![o] = {}]
      /\ UNCHANGED <<kind, value, mode>>
  BY DEF Destroy
<1>2. \A d \in Defs : /\ members'[d] = IF d = o THEN <<>> ELSE members[d]
                      /\ typeDef'[d] = IF d = o THEN None ELSE typeDef[d]
  BY <1>1 DEF TInv, TypeOK
<1>3. /\ members' = [d \in Defs |-> members'[d]]
      /\ live' \subseteq Defs /\ live \subseteq Defs
  BY <1>1 DEF TInv, TypeOK
<1>4. TypeOK'
  <2>1. /\ typeDef' \in [Defs -> Refs \cup {None}]
        /\ exceptions' \in [Defs -> SUBSET Links]
    BY <1>1 DEF TInv, TypeOK
  <2>2. DOMAIN <<>> = {}
    OBVIOUS
  <2> QED
    BY <1>1, <1>2, <1>3, <2>1, <2>2 DEF TInv, TypeOK
<1>5. Referred' /\ Referring'
  BY <1>1, <1>2, <1>3 DEF TInv, Referred, Referring
<1>6. ResultKept'
  BY <1>1, <1>2, <1>3 DEF TInv, ResultKept
<1>7. OnewayLegal'
  <2>1. ASSUME NEW d \in live', kind'[d] = "Operation", mode'[d] = "oneway"
        PROVE  /\ typeDef'[d] = "void" /\ value'[d].kind = "void"
               /\ \A i \in DOMAIN members'[d] : members'[d][i].mode = "in"
    <3>1. d \in live /\ d \in Defs /\ d # o
      BY <1>1, <1>3
    <3>2. members'[d] = members[d] /\ typeDef'[d] = typeDef[d]
      BY <1>2, <3>1
    <3> QED
      BY <1>1, <2>1, <3>1, <3>2 DEF TInv, OnewayLegal
  <2> QED
    BY <2>1 DEF OnewayLegal
<1> QED
  BY <1>1, <1>3, <1>4, <1>5, <1>6, <1>7 DEF TInv

\* Every request keeps the invariant.
LEMMA NextTInv ==
    ASSUME TypesAssumption, TInv, [Next]_vars
    PROVE  TInv'
<1>1. ASSUME NEW o \in Defs, NEW t \in Refs, Retarget(o, t)
      PROVE  TInv'
  <2>1. /\ t \in TypeRefs /\ typeDef' = [typeDef EXCEPT ![o] = t]
        /\ UNCHANGED <<kind, live, members, value, mode, exceptions>>
        /\ kind[o] # "Operation"
    BY <1>1 DEF Retarget
  <2>2. /\ members' = [members EXCEPT ![o] = members[o]]
        /\ value' = [value EXCEPT ![o] = value[o]]
    BY <2>1 DEF TInv
  <2> QED
    BY <2>1, <2>2, RetypeTInv
<1>2. ASSUME NEW o \in Defs, NEW t \in Refs, SetDiscriminator(o, t)
      PROVE  TInv'
  <2>1. /\ t \in TypeRefs /\ typeDef' = [typeDef EXCEPT ![o] = t]
        /\ members' = [members EXCEPT ![o] = MembersKept(o, t)]
        /\ MembersKept(o, t) \in {<<>>, members[o]}
        /\ UNCHANGED <<kind, live, value, mode, exceptions>>
        /\ kind[o] # "Operation"
    BY <1>2 DEF SetDiscriminator, MembersKept, Asked
  <2>2. value' = [value EXCEPT ![o] = value[o]]
    BY <2>1 DEF TInv
  <2> QED
    BY <2>1, <2>2, RetypeTInv
<1>3. ASSUME NEW o \in Defs, NEW t \in Refs, SetConstantType(o, t)
      PROVE  TInv'
  <2>1. /\ t \in TypeRefs /\ typeDef' = [typeDef EXCEPT ![o] = t]
        /\ value' = [value EXCEPT ![o] = ValueKept(o, t)]
        /\ UNCHANGED <<kind, live, members, mode, exceptions>>
        /\ kind[o] # "Operation"
    BY <1>3 DEF SetConstantType, Asked
  <2>2. members' = [members EXCEPT ![o] = members[o]]
    BY <2>1 DEF TInv
  <2> QED
    BY <2>1, <2>2, RetypeTInv
<1>4. ASSUME NEW o \in Defs, NEW v \in Sent, SetMembers(o, v) \/ SetUnionMembers(o, v)
      PROVE  TInv'
  <2>1. /\ members' = [members EXCEPT ![o] = Typed(v)]
        /\ UNCHANGED <<kind, live, typeDef, value, mode, exceptions>>
        /\ kind[o] # "Operation"
    BY <1>4 DEF SetMembers, SetUnionMembers, Asked
  <2>2. \A i \in DOMAIN Typed(v) : /\ Typed(v)[i].def \in Refs \cup {None}
                                   /\ Typed(v)[i].type.kind # "null"
    BY TypedMembers DEF TInv
  <2>3. Relist(o, Typed(v))
    BY <2>1, <2>2 DEF Relist
  <2> QED
    BY <2>3, RelistTInv
<1>5. ASSUME NEW o \in Defs, NEW v \in Sent, SetEnumerators(o, v)
      PROVE  TInv'
  <2> DEFINE w == [i \in DOMAIN v |-> [v[i] EXCEPT !.def = None]]
  <2>1. /\ members' = [members EXCEPT ![o] = w]
        /\ UNCHANGED <<kind, live, typeDef, value, mode, exceptions>>
        /\ kind[o] = "Enum"
    BY <1>5 DEF SetEnumerators, Asked
  <2>2. ASSUME NEW i \in DOMAIN w PROVE w[i].def = None
    <3>1. v[i] = [name |-> v[i].name, label |-> v[i].label, def |-> v[i].def,
                  type |-> v[i].type, mode |-> v[i].mode]
      BY DEF Sent, TypesAssumption
    <3> QED
      BY <3>1
  <2> HIDE DEF w
  <2>3. Relist(o, w)
    BY <2>1, <2>2 DEF Relist
  <2> QED
    BY <2>3, RelistTInv
<1>6. ASSUME NEW o \in Defs, NEW E \in SUBSET Links, SetExceptions(o, E)
      PROVE  TInv'
  <2>1. /\ exceptions' = [exceptions EXCEPT ![o] = E]
        /\ UNCHANGED <<kind, live, typeDef, members, value, mode>>
    BY <1>6 DEF SetExceptions
  <2>2. exceptions' \in [Defs -> SUBSET Links]
    BY <2>1 DEF TInv, TypeOK
  <2>3. TypeOK'
    BY <2>1, <2>2 DEF TInv, TypeOK
  <2>4. Referred' /\ Referring' /\ ResultKept' /\ OnewayLegal'
    BY <2>1 DEF TInv, Referred, Referring, ResultKept, OnewayLegal
  <2> QED
    BY <2>1, <2>3, <2>4 DEF TInv
<1>7. CASE UNCHANGED vars
  <2>1. TypeOK'
    BY <1>7 DEF vars, TInv, TypeOK
  <2>2. Referred' /\ Referring' /\ ResultKept' /\ OnewayLegal'
    BY <1>7 DEF vars, TInv, Referred, Referring, ResultKept, OnewayLegal
  <2> QED
    BY <1>7, <2>1, <2>2 DEF vars, TInv
<1>8. ASSUME NEW o \in Defs, NEW v \in Sent, SetParams(o, v)
      PROVE  TInv'
  <2>1. /\ Asked(o, "Operation") /\ OnewayAccepted(mode[o], v, typeDef[o])
        /\ members' = [members EXCEPT ![o] = v]
        /\ UNCHANGED <<kind, live, typeDef, value, mode, exceptions>>
    BY <1>8 DEF SetParams
  <2>2. mode' = [mode EXCEPT ![o] = mode[o]] /\ mode[o] \in {"normal", "oneway"}
    BY <2>1 DEF TInv, TypeOK
  <2>3. \A i \in DOMAIN v : v[i].def \in Refs \cup {None}
    BY TypeRefsAre DEF Sent
  <2> QED
    BY <2>1, <2>2, <2>3, CheckedTInv
<1>9. ASSUME NEW o \in Defs, NEW m \in {"normal", "oneway"}, SetMode(o, m)
      PROVE  TInv'
  <2>1. /\ Asked(o, "Operation") /\ OnewayAccepted(m, members[o], typeDef[o])
        /\ mode' = [mode EXCEPT ![o] = m]
        /\ UNCHANGED <<kind, live, typeDef, members, value, exceptions>>
    BY <1>9 DEF SetMode
  <2>2. /\ members' = [members EXCEPT ![o] = members[o]]
        /\ \A i \in DOMAIN members[o] : members[o][i].def \in Refs \cup {None}
    BY <2>1 DEF TInv, TypeOK
  <2> QED
    BY <2>1, <2>2, CheckedTInv
<1> QED
  BY <1>1, <1>2, <1>3, <1>4, <1>5, <1>6, <1>7, <1>8, <1>9, SetResultTInv,
     SetValueTInv, DestroyTInv DEF Next

-----------------------------------------------------------------------------
(* The invariants.                                                         *)

\* The inductive invariant holds in every state.
THEOREM TypesInvariance == Spec => []TInv
<1>1. Init => TInv
  BY TypesAssumption, InitTInv
<1>2. TInv /\ [Next]_vars => TInv'
  BY TypesAssumption, NextTInv
<1> QED
  BY <1>1, <1>2, PTL DEF Spec

\* Type correctness, with the part that is no typing: a member that a setter
\* stored has the TypeCode its type answered, never the null one.
THEOREM TypeCorrect == Spec => []TypeOK
<1>1. TInv => TypeOK
  BY DEF TInv
<1> QED
  BY <1>1, TypesInvariance, PTL

\* A oneway operation returns void and has only "in" parameters, in whatever
\* order its setters were called.
THEOREM OnewayStaysLegal == Spec => []OnewayLegal
<1>1. TInv => OnewayLegal
  BY DEF TInv
<1> QED
  BY <1>1, TypesInvariance, PTL

-----------------------------------------------------------------------------
(* The rule for union members.                                             *)

\* Labels: what the loop checks of each against those before it.
LEMMA LabelsWellFormed ==
    ASSUME LabelsAssumption, NEW n \in Nat, NEW v \in [1..n -> MemberChoices],
           NEW disc, UnaliasedKind(disc) # "octet"
    PROVE  (\A i \in DOMAIN v : LabelAccepted(v, i, disc)) <=>
           LET labelled == {i \in DOMAIN v : ~ IsDefault(v[i].label)} IN
            /\ \A i \in labelled : Equivalent(v[i].label.type, disc)
            /\ \A i, j \in labelled : i # j => v[i].label.val # v[j].label.val
<1> DEFINE L == {i \in DOMAIN v : ~ IsDefault(v[i].label)}
<1>1. DOMAIN v = 1..n /\ L \subseteq 1..n
  OBVIOUS
<1>2. ASSUME \A i \in DOMAIN v : LabelAccepted(v, i, disc)
      PROVE  /\ \A i \in L : Equivalent(v[i].label.type, disc)
             /\ \A i, j \in L : i # j => v[i].label.val # v[j].label.val
  <2>1. \A i \in L : /\ Equivalent(v[i].label.type, disc)
                     /\ \A j \in 1..i - 1 : ~ SameLabel(v[i].label, v[j].label)
    BY <1>2 DEF LabelAccepted
  <2>2. ASSUME NEW i \in L, NEW j \in L, j < i
        PROVE  v[i].label.val # v[j].label.val
    <3>1. j \in 1..i - 1
      BY <1>1, <2>2
    <3> QED
      BY <2>1, <3>1 DEF SameLabel, Equivalent
  <2>3. \A i, j \in L : i # j => i < j \/ j < i
    BY <1>1
  <2> HIDE DEF L
  <2> QED
    BY <2>1, <2>2, <2>3
<1>3. ASSUME \A i \in L : Equivalent(v[i].label.type, disc),
             \A i, j \in L : i # j => v[i].label.val # v[j].label.val,
             NEW i \in DOMAIN v
      PROVE  LabelAccepted(v, i, disc)
  <2>1. CASE IsDefault(v[i].label)
    BY <2>1 DEF LabelAccepted
  <2>2. CASE i \in L
    <3>1. ASSUME NEW j \in 1..i - 1 PROVE ~ SameLabel(v[i].label, v[j].label)
      <4>1. j \in DOMAIN v /\ j # i
        BY <1>1
      <4>2. CASE j \in L
        BY <1>3, <2>2, <4>1, <4>2 DEF SameLabel
      <4>3. CASE IsDefault(v[j].label)
        <5>1. UnaliasedKind(v[j].label.type) = "octet"
          <6>1. v[j] \in MemberChoices
            BY <1>1, <4>1
          <6> QED
            BY <4>3, <6>1 DEF LabelsAssumption, IsDefault
        <5>2. Equivalent(v[i].label.type, disc)
          BY <1>3, <2>2
        <5> QED
          BY <5>1, <5>2 DEF SameLabel, Equivalent, UnaliasedKind
      <4> QED
        BY <4>1, <4>2, <4>3
    <3>2. Equivalent(v[i].label.type, disc)
      BY <1>3, <2>2
    <3> QED
      BY <3>1, <3>2 DEF LabelAccepted
  <2> QED
    BY <2>1, <2>2
<1> QED
  BY <1>2, <1>3

\* A set of indices has a least and a greatest one.
Spanned(T) == \E first, last \in T : \A k \in T : k \in first..last

LEMMA Ends ==
    ASSUME NEW n \in Nat, NEW T, T \subseteq 1..n, T # {}
    PROVE  Spanned(T)
<1>1. PICK first \in T : \A k \in T : first <= k
  <2>1. T \in SUBSET Nat
    OBVIOUS
  <2> QED
    BY <2>1, Least
<1> DEFINE R == {n - k : k \in T}
<1>2. PICK r \in R : \A k \in R : r <= k
  <2>1. R \in SUBSET Nat /\ R # {}
    OBVIOUS
  <2> HIDE DEF R
  <2> QED
    BY <2>1, Least
<1>3. PICK last \in T : r = n - last
  OBVIOUS
<1>4. ASSUME NEW k \in T PROVE k \in first..last
  <2>1. first <= k /\ n - last <= n - k
    BY <1>1, <1>2, <1>3
  <2>2. k \in 1..n /\ first \in 1..n /\ last \in 1..n
    OBVIOUS
  <2> QED
    BY <2>1, <2>2
<1> QED
  BY <1>4 DEF Spanned

\* Names: what the loop checks of each, going back.
LEMMA NamesWellFormed ==
    ASSUME NEW n \in Nat, NEW v \in [1..n -> MemberChoices]
    PROVE  (\A i \in DOMAIN v : NameAccepted(v, i)) <=>
           \A c \in {CaseClass[v[i].name] : i \in DOMAIN v} :
            \E first, last \in DOMAIN v :
                /\ \A i \in DOMAIN v :
                    (CaseClass[v[i].name] = c) <=> (i \in first..last)
                /\ \A i \in first..last :
                    v[i].name = v[first].name /\ v[i].type = v[first].type
<1>1. DOMAIN v = 1..n
  OBVIOUS
<1>2. ASSUME \A i \in DOMAIN v : NameAccepted(v, i),
             NEW c \in {CaseClass[v[i].name] : i \in DOMAIN v}
      PROVE  \E first, last \in DOMAIN v :
                /\ \A i \in DOMAIN v :
                    (CaseClass[v[i].name] = c) <=> (i \in first..last)
                /\ \A i \in first..last :
                    v[i].name = v[first].name /\ v[i].type = v[first].type
  <2> DEFINE T == {i \in 1..n : CaseClass[v[i].name] = c}
  <2>1. PICK first, last \in T : \A k \in T : k \in first..last
    <3>1. T \subseteq 1..n /\ T # {}
      BY <1>1
    <3> HIDE DEF T
    <3>2. Spanned(T)
      BY <3>1, Ends
    <3> QED
      BY <3>2 DEF Spanned
  <2>2. /\ first \in 1..n /\ last \in 1..n
        /\ CaseClass[v[first].name] = c /\ CaseClass[v[last].name] = c
    OBVIOUS
  <2>3. ASSUME NEW i \in 1..n, i \in first..last, i # first
        PROVE  first \in 1..i - 1
    BY <2>2, <2>3
  <2>4. ASSUME NEW i \in T, i # first
        PROVE  v[i].name = v[first].name /\ v[i].type = v[first].type
    <3>1. i \in 1..n /\ i \in first..last /\ CaseClass[v[i].name] = c
      BY <2>1
    <3>2. first \in 1..i - 1 /\ NameAccepted(v, i)
      BY <1>1, <1>2, <2>3, <2>4, <3>1
    <3> QED
      BY <2>2, <3>1, <3>2 DEF NameAccepted
  <2>5. ASSUME NEW i \in first..last PROVE i \in T
    <3>1. i \in 1..n
      BY <2>2
    <3>2. CASE i # first /\ i # last
      <4>1. last \in 1..n /\ last # first /\ last \in first..last
        BY <2>2, <2>5, <3>2
      <4>2. first \in 1..last - 1 /\ i \in first + 1..last - 1
        BY <2>2, <2>5, <3>1, <3>2
      <4>3. NameAccepted(v, last)
        BY <1>1, <1>2, <2>2
      <4>4. v[first].name = v[last].name
        BY <2>2, <4>2, <4>3 DEF NameAccepted
      <4>5. CaseClass[v[i].name] = CaseClass[v[last].name]
        BY <4>2, <4>3, <4>4 DEF NameAccepted
      <4> QED
        BY <2>2, <3>1, <4>5
    <3> QED
      BY <3>1, <3>2, <2>2
  <2>6. \A i \in DOMAIN v : (CaseClass[v[i].name] = c) <=> (i \in first..last)
    BY <1>1, <2>1, <2>5
  <2>7. \A i \in first..last :
            v[i].name = v[first].name /\ v[i].type = v[first].type
    BY <2>4, <2>5
  <2> QED
    BY <1>1, <2>2, <2>6, <2>7
<1>3. ASSUME \A c \in {CaseClass[v[i].name] : i \in DOMAIN v} :
                \E first, last \in DOMAIN v :
                    /\ \A i \in DOMAIN v :
                        (CaseClass[v[i].name] = c) <=> (i \in first..last)
                    /\ \A i \in first..last :
                        v[i].name = v[first].name /\ v[i].type = v[first].type,
             NEW i \in DOMAIN v
      PROVE  NameAccepted(v, i)
  <2> DEFINE c == CaseClass[v[i].name]
  <2>1. PICK first, last \in DOMAIN v :
            /\ \A j \in DOMAIN v :
                (CaseClass[v[j].name] = c) <=> (j \in first..last)
            /\ \A j \in first..last :
                v[j].name = v[first].name /\ v[j].type = v[first].type
    <3>1. c \in {CaseClass[v[j].name] : j \in DOMAIN v}
      OBVIOUS
    <3> HIDE DEF c
    <3> QED
      BY <1>3, <3>1, Zenon
  <2>2. i \in first..last
    BY <2>1
  <2>3. ASSUME NEW k \in 1..i - 1, CaseClass[v[k].name] = c
        PROVE  /\ v[k].name = v[i].name /\ v[k].type = v[i].type
               /\ \A m \in k + 1..i - 1 : CaseClass[v[m].name] = c
    <3>1. k \in 1..n /\ k < i
      BY <1>1
    <3>2. k \in first..last
      BY <1>1, <2>1, <2>3, <3>1
    <3>3. \A m \in k + 1..i - 1 : m \in 1..n /\ m \in first..last
      BY <1>1, <2>1, <2>2, <3>1, <3>2
    <3> HIDE DEF c
    <3> QED
      BY <1>1, <2>1, <2>2, <3>2, <3>3
  <2>4. \A k \in 1..i - 1 : v[k].name = v[i].name => CaseClass[v[k].name] = c
    OBVIOUS
  <2> QED
    BY <2>3, <2>4 DEF NameAccepted
<1> QED
  BY <1>2, <1>3

\* The loops of UnionDef_impl::members() accept exactly the well-formed lists,
\* of any length.
THEOREM UnionMembersRule == Spec => []UnionRule
<1>1. ASSUME NEW n \in Nat, NEW v \in [1..n -> MemberChoices],
             NEW p \in Primitives \cap DiscriminatorKinds
      PROVE  UnionAccepted(v, TC(p, None, <<>>)) <=> WellFormed(v, TC(p, None, <<>>))
  <2> DEFINE disc == TC(p, None, <<>>)
  <2>1. UnaliasedKind(disc) # "octet"
    <3>1. p # "Alias" /\ p # "octet"
      BY DEF DiscriminatorKinds
    <3>2. disc.stripped.kind = p
      BY <3>1, StrippedKind
    <3> QED
      BY <3>1, <3>2 DEF UnaliasedKind
  <2> HIDE DEF disc
  <2>2. UnionAccepted(v, disc) <=> /\ \A i \in DOMAIN v : LabelAccepted(v, i, disc)
                                   /\ \A i \in DOMAIN v : NameAccepted(v, i)
    BY DEF UnionAccepted
  <2>3. UnionAccepted(v, disc) <=> WellFormed(v, disc)
    BY <2>1, <2>2, LabelsAssumption, LabelsWellFormed, NamesWellFormed DEF WellFormed
  <2> QED
    BY <2>3 DEF disc
<1>2. 0..MaxMembers \subseteq Nat
  BY TypesAssumption DEF TypesAssumption
<1>3. UnionRule
  BY <1>1, <1>2 DEF UnionRule
<1> QED
  BY <1>3, PTL

-----------------------------------------------------------------------------
(* What a step does to types that exist.                                   *)

\* Definitions come to no end but by destroy(), and change no kind.
LEMMA NextLive ==
    ASSUME [Next]_vars
    PROVE  /\ kind' = kind
           /\ live' = live \/ \E d \in Defs : Destroy(d)
<1>1. CASE UNCHANGED vars
  BY <1>1 DEF vars
<1>2. CASE Next
  BY <1>2 DEF Next, Retarget, SetDiscriminator, SetConstantType, SetResult,
     SetResultHalf, SetMembers, SetEnumerators, SetUnionMembers, SetParams, SetValue,
     SetMode, SetExceptions, Destroy
<1> QED
  BY <1>1, <1>2

\* What a type is made from does not change, so it stays and stays equivalent.
Kept(t) == HasType(t)' /\ TypeOf(t)'.stripped = TypeOf(t).stripped

LEMMA Untouched ==
    ASSUME TypesAssumption, Referring, NEW t, HasType(t), kind' = kind, live' = live,
           \A x \in Chain(t) : typeDef'[x] = typeDef[x]
    PROVE  Kept(t)
<1>1. t \in Refs /\ Chain(t) \subseteq live
  BY DEF HasType
<1>2. Chain(t)' \subseteq Chain(t)
  BY SameChain
<1>3. TypeOf(t)'.stripped = TypeOf(t).stripped
  BY <1>1, SameType
<1> QED
  BY <1>1, <1>2, <1>3 DEF Kept, HasType

\* A definition that others are made from cannot be destroyed.
LEMMA DestroyOther ==
    ASSUME TypesAssumption, TInv, NEW d \in Defs, Destroy(d), NEW t, HasType(t), t # d
    PROVE  Kept(t)
<1>1. t \in Refs /\ Chain(t) \subseteq live
  BY DEF HasType
<1>2. /\ kind' = kind /\ live' = live \ {d} /\ Users(d) \subseteq {d}
      /\ \A x \in Defs : typeDef'[x] = IF x = d THEN None ELSE typeDef[x]
  BY DEF Destroy, TInv, TypeOK
<1>3. d \notin Chain(t)
  <2> DEFINE S == Chain(t) \ {d}
  <2>1. S \in SUBSET Defs /\ (t \in Defs => t \in S)
    BY ChainClosed
  <2>2. ASSUME NEW x \in S, Delegates(x), typeDef[x] \in Defs
        PROVE  typeDef[x] \in S
    <3>1. typeDef[x] # d
      BY <1>2, <2>2 DEF Users, Delegates
    <3> QED
      BY <2>2, <3>1, ChainClosed
  <2> HIDE DEF S
  <2>3. Chain(t) \subseteq S
    BY <2>1, <2>2, ChainLeast
  <2> QED
    BY <2>3 DEF S
<1>4. \A x \in Chain(t) : typeDef'[x] = typeDef[x] /\ (x \in live' => x \in live)
  BY <1>2, <1>3, ChainClosed
<1>5. Chain(t)' \subseteq Chain(t)
  BY <1>2, <1>4, SameChain
<1>6. TypeOf(t)'.stripped = TypeOf(t).stripped
  BY <1>1, <1>2, <1>4, SameType DEF TInv
<1> QED
  BY <1>1, <1>2, <1>3, <1>5, <1>6 DEF Kept, HasType

\* A definition that has a type loses it only when one that its type is made
\* from is given another reference: never because one was destroyed.
THEOREM TypesOutliveDestruction == Spec => TypeLostOnlyByRetarget
<1> DEFINE Step == \A o \in live \cap live' :
                    (Delegates(o) /\ HasType(o) /\ ~ HasType(o)') =>
                        \E a \in Chain(o) \cap live' : typeDef'[a] # typeDef[a]
<1>1. TInv /\ [Next]_vars => Step
  <2> SUFFICES ASSUME TInv, [Next]_vars, NEW o \in live \cap live', HasType(o),
                      \A a \in Chain(o) \cap live' : typeDef'[a] = typeDef[a]
               PROVE  HasType(o)'
    OBVIOUS
  <2>1. CASE live' = live
    <3>1. Chain(o) \subseteq live
      BY DEF HasType
    <3> QED
      BY <2>1, <3>1, NextLive, TypesAssumption, Untouched DEF TInv, Kept
  <2>2. CASE \E d \in Defs : Destroy(d)
    <3>1. PICK d \in Defs : Destroy(d)
      BY <2>2
    <3>2. o # d
      BY <3>1 DEF Destroy
    <3> QED
      BY <3>1, <3>2, TypesAssumption, DestroyOther DEF Kept
  <2> QED
    BY <2>1, <2>2, NextLive
<1>2. TInv /\ [Next]_vars => [Step]_vars
  BY <1>1
<1> QED
  BY <1>2, TypesInvariance, PTL DEF Spec, TypeLostOnlyByRetarget

\* What the setters of other definitions leave alone.
Same(o) == typeDef'[o] = typeDef[o] /\ members'[o] = members[o] /\ value'[o] = value[o]

\* What a step does to a union or a constant.
LEMMA StepsOf ==
    ASSUME TInv, [Next]_vars, NEW o \in live \cap live',
           kind[o] \in {"Union", "Constant"}
    PROVE  \/ \E t \in Refs : SetDiscriminator(o, t) \/ SetConstantType(o, t)
           \/ \E v \in Sent : SetUnionMembers(o, v)
           \/ \E tc \in Values : SetValue(o, tc)
           \/ Same(o)
<1> SUFFICES ASSUME ~ \E t \in Refs : SetDiscriminator(o, t) \/ SetConstantType(o, t),
                    ~ \E v \in Sent : SetUnionMembers(o, v),
                    ~ \E tc \in Values : SetValue(o, tc)
             PROVE  Same(o)
  OBVIOUS
<1>1. o \in Defs /\ live \subseteq Defs
  BY DEF TInv, TypeOK
<1>2. ASSUME NEW d \in Defs, NEW t \in Refs,
             Retarget(d, t) \/ SetResult(d, t) \/ SetResultHalf(d, t)
      PROVE  Same(o)
  <2>1. d # o /\ \E x, w : /\ typeDef' = [typeDef EXCEPT ![d] = x]
                           /\ value' = [value EXCEPT ![d] = w] /\ members' = members
    BY <1>2 DEF Retarget, SetResult, SetResultHalf, Asked, TInv
  <2> QED
    BY <1>1, <2>1 DEF Same, TInv, TypeOK
<1>3. ASSUME NEW d \in Defs, NEW t \in Refs, SetDiscriminator(d, t)
      PROVE  Same(o)
  <2>1. d # o /\ value' = value
    BY <1>3 DEF SetDiscriminator
  <2>2. typeDef'[o] = typeDef[o] /\ members'[o] = members[o]
    BY <1>1, <1>3, <2>1 DEF SetDiscriminator, TInv, TypeOK
  <2> QED
    BY <2>1, <2>2 DEF Same
<1>4. ASSUME NEW d \in Defs, NEW t \in Refs, SetConstantType(d, t)
      PROVE  Same(o)
  <2>1. d # o /\ members' = members
    BY <1>4 DEF SetConstantType
  <2>2. typeDef'[o] = typeDef[o] /\ value'[o] = value[o]
    BY <1>1, <1>4, <2>1 DEF SetConstantType, TInv, TypeOK
  <2> QED
    BY <2>1, <2>2 DEF Same
<1>5. ASSUME NEW d \in Defs, NEW v \in Sent,
             \/ SetMembers(d, v) \/ SetEnumerators(d, v)
             \/ SetUnionMembers(d, v) \/ SetParams(d, v)
      PROVE  Same(o)
  <2>1. d # o /\ typeDef' = typeDef /\ value' = value
    BY <1>5 DEF SetMembers, SetEnumerators, SetUnionMembers, SetParams, Asked
  <2>2. members'[o] = members[o]
    BY <1>1, <1>5, <2>1
       DEF SetMembers, SetEnumerators, SetUnionMembers, SetParams, TInv
  <2> QED
    BY <2>1, <2>2 DEF Same
<1>6. ASSUME NEW d \in Defs, NEW tc \in Values, SetValue(d, tc)
      PROVE  Same(o)
  <2>1. d # o
    BY <1>6
  <2> QED
    BY <1>1, <1>6, <2>1 DEF SetValue, Same, TInv
<1>7. ASSUME NEW d \in Defs, Destroy(d)
      PROVE  Same(o)
  <2>1. d # o /\ value' = value
    BY <1>7 DEF Destroy
  <2>2. typeDef'[o] = typeDef[o] /\ members'[o] = members[o]
    BY <1>1, <1>7, <2>1 DEF Destroy, TInv, TypeOK
  <2> QED
    BY <2>1, <2>2 DEF Same
<1>8. ASSUME NEW d \in Defs,
             \/ \E m \in {"normal", "oneway"} : SetMode(d, m)
             \/ \E E \in SUBSET Links : SetExceptions(d, E)
      PROVE  Same(o)
  BY <1>8 DEF SetMode, SetExceptions, Same
<1>9. CASE UNCHANGED vars
  BY <1>9 DEF vars, Same
<1> QED
  BY <1>2, <1>3, <1>4, <1>5, <1>6, <1>7, <1>8, <1>9 DEF Next

\* A type is made of types: no constant, attribute or operation is among them.
LEMMA ChainOfTypes ==
    ASSUME TypesAssumption, TInv, NEW t \in TypeRefs, NEW x \in Chain(t)
    PROVE  kind[x] \in IDLTypeKinds
<1> DEFINE S == {y \in Defs : kind[y] \in IDLTypeKinds}
<1>1. t \in Defs => t \in S
  BY TypeRefsAre DEF TypesAssumption
<1>2. ASSUME NEW y \in S, Delegates(y), typeDef[y] \in Defs
      PROVE  typeDef[y] \in S
  BY <1>2 DEF TInv, Referred, TypesAssumption
<1> HIDE DEF S
<1>3. S \in SUBSET Defs
  BY DEF S
<1>4. Chain(t) \subseteq S
  BY <1>1, <1>2, <1>3, ChainLeast
<1> QED
  BY <1>4 DEF S

\* A setter that gives o another type, which o is no part of.
LEMMA RetypedKept ==
    ASSUME TypesAssumption, TInv, NEW o \in Defs, NEW t, HasType(t), o \notin Chain(t),
           typeDef' = [typeDef EXCEPT ![o] = t], kind' = kind, live' = live
    PROVE  typeDef'[o] = t /\ Kept(t)
<1>1. \A x \in Defs : typeDef'[x] = IF x = o THEN t ELSE typeDef[x]
  BY DEF TInv, TypeOK
<1>2. \A x \in Chain(t) : typeDef'[x] = typeDef[x]
  BY <1>1, ChainClosed
<1> QED
  BY <1>1, <1>2, Untouched DEF TInv

\* A constant whose type was set, and one whose value was set.
LEMMA RetypedConstantFits ==
    ASSUME TypesAssumption, TInv, NEW o \in Defs, NEW t \in Refs, SetConstantType(o, t)
    PROVE  Fits(o)'
<1>1. /\ kind[o] = "Constant" /\ t \in TypeRefs /\ HasType(t)
      /\ typeDef' = [typeDef EXCEPT ![o] = t] /\ kind' = kind /\ live' = live
      /\ value'[o] = ValueKept(o, t)
  BY DEF SetConstantType, Asked, TInv
<1>2. o \notin Chain(t)
  BY <1>1, ChainOfTypes DEF IDLTypeKinds
<1>3. typeDef'[o] = t /\ Kept(t)
  BY <1>1, <1>2, RetypedKept
<1>4. value'[o] = NullType \/ value'[o].stripped = TypeOf(t).stripped
  BY <1>1 DEF ValueKept, Equivalent
<1>5. HasType(typeDef[o])' /\ TypeOf(typeDef[o])'.stripped = TypeOf(t).stripped
  BY <1>3 DEF Kept
<1> QED
  BY <1>1, <1>4, <1>5 DEF Fits, Equivalent

LEMMA ValuedConstantFits ==
    ASSUME TypesAssumption, TInv, NEW o \in Defs, NEW tc, SetValue(o, tc)
    PROVE  Fits(o)'
<1>1. /\ kind[o] = "Constant" /\ HasType(typeDef[o]) /\ kind' = kind /\ live' = live
      /\ Equivalent(TypeOf(typeDef[o]), tc) /\ value'[o] = tc /\ typeDef' = typeDef
  BY DEF SetValue, Asked, TInv
<1>2. Kept(typeDef[o])
  BY <1>1, Untouched DEF TInv
<1>3. HasType(typeDef[o])' /\ TypeOf(typeDef[o])'.stripped = tc.stripped
  BY <1>1, <1>2 DEF Kept, Equivalent
<1> QED
  BY <1>1, <1>3 DEF Fits, Equivalent

\* A stale value does not survive the next call: whatever happened to aliases
\* before, a change of a constant's type or value leaves a value of its type or
\* none.
THEOREM ConstantsRepaired == Spec => RepairedBySetting
<1> DEFINE Step == \A o \in live \cap live' :
        (kind[o] = "Constant" /\ (typeDef'[o] # typeDef[o] \/ value'[o] # value[o]))
            => Fits(o)'
<1>1. TInv /\ [Next]_vars => Step
  <2> SUFFICES ASSUME TInv, [Next]_vars, NEW o \in live \cap live',
                      kind[o] = "Constant", ~ Same(o)
               PROVE  Fits(o)'
    BY DEF Same
  <2>1. o \in Defs
    BY DEF TInv, TypeOK
  <2>2. CASE \E t \in Refs : SetConstantType(o, t)
    BY <2>1, <2>2, TypesAssumption, RetypedConstantFits
  <2>3. CASE \E tc \in Values : SetValue(o, tc)
    BY <2>1, <2>3, TypesAssumption, ValuedConstantFits
  <2>4. \/ \E t \in Refs : SetConstantType(o, t)
        \/ \E tc \in Values : SetValue(o, tc)
    BY StepsOf DEF SetDiscriminator, SetUnionMembers, Asked
  <2> QED
    BY <2>2, <2>3, <2>4
<1>2. TInv /\ [Next]_vars => [Step]_vars
  BY <1>1
<1> QED
  BY <1>2, TypesInvariance, PTL DEF Spec, RepairedBySetting

\* A union whose discriminator was set, and one whose members were set.
LEMMA RetypedUnionFits ==
    ASSUME TypesAssumption, TInv, NEW o \in Defs, NEW t \in Refs, SetDiscriminator(o, t),
           Fits(o)
    PROVE  Fits(o)'
<1>1. /\ kind[o] = "Union" /\ HasType(t) /\ o \notin Chain(t)
      /\ typeDef' = [typeDef EXCEPT ![o] = t] /\ kind' = kind /\ live' = live
      /\ members'[o] = MembersKept(o, t)
  BY DEF SetDiscriminator, Asked, TInv
<1>2. typeDef'[o] = t /\ Kept(t)
  BY <1>1, RetypedKept
<1>3. HasType(typeDef[o])' /\ TypeOf(typeDef[o])'.stripped = TypeOf(t).stripped
  BY <1>2 DEF Kept
<1>4. ASSUME NEW i \in DOMAIN members'[o]
      PROVE  \/ IsDefault(members'[o][i].label)
             \/ members'[o][i].label.type.stripped = TypeOf(t).stripped
  <2>1. /\ members'[o] = members[o]
        /\ TypeOf(t).stripped = TypeOf(typeDef[o]).stripped
    BY <1>1, <1>4 DEF MembersKept, Equivalent
  <2> QED
    BY <1>1, <1>4, <2>1 DEF Fits, Equivalent
<1> QED
  BY <1>1, <1>3, <1>4 DEF Fits, Equivalent

LEMMA MemberedUnionFits ==
    ASSUME TypesAssumption, TInv, NEW o \in Defs, NEW v \in Sent, SetUnionMembers(o, v)
    PROVE  Fits(o)'
<1>1. /\ kind[o] = "Union" /\ HasType(typeDef[o]) /\ kind' = kind /\ live' = live
      /\ UnionAccepted(Typed(v), TypeOf(typeDef[o]))
      /\ members'[o] = Typed(v) /\ typeDef' = typeDef
  BY DEF SetUnionMembers, Asked, TInv
<1>2. Kept(typeDef[o])
  BY <1>1, Untouched DEF TInv
<1>3. /\ HasType(typeDef[o])'
      /\ TypeOf(typeDef[o])'.stripped = TypeOf(typeDef[o]).stripped
  BY <1>1, <1>2 DEF Kept
<1> DEFINE w == Typed(v)
<1>4. \A i \in DOMAIN w : \/ IsDefault(w[i].label)
                          \/ w[i].label.type.stripped = TypeOf(typeDef[o]).stripped
  BY <1>1 DEF UnionAccepted, LabelAccepted, Equivalent
<1>5. members'[o] = w
  BY <1>1
<1> HIDE DEF w
<1> QED
  BY <1>1, <1>3, <1>4, <1>5 DEF Fits, Equivalent

\* What fits goes on to fit while nothing happens to it or to its type.
LEMMA SameFits ==
    ASSUME TypesAssumption, TInv, [Next]_vars, NEW o \in live \cap live', Fits(o), Same(o),
           \A a \in Chain(typeDef[o]) \ {o} : typeDef'[a] = typeDef[a]
    PROVE  Fits(o)'
<1> DEFINE t == typeDef[o]
<1>1. HasType(t) /\ typeDef'[o] = t /\ kind' = kind
  BY NextLive DEF Fits, Same
<1>2. Kept(t)
  <2>1. CASE live' = live
    <3>1. \A x \in Chain(t) : typeDef'[x] = typeDef[x]
      BY <1>1
    <3> QED
      BY <1>1, <2>1, <3>1, Untouched DEF TInv
  <2>2. CASE \E d \in Defs : Destroy(d)
    <3>1. PICK d \in Defs : Destroy(d)
      BY <2>2
    <3>2. t # d
      BY <3>1 DEF Destroy, Users
    <3> QED
      BY <1>1, <3>1, <3>2, DestroyOther
  <2> QED
    BY <2>1, <2>2, NextLive
<1>3. /\ HasType(typeDef[o])'
      /\ TypeOf(typeDef[o])'.stripped = TypeOf(typeDef[o]).stripped
  BY <1>1, <1>2 DEF Kept
<1>4. members'[o] = members[o] /\ value'[o] = value[o]
  BY DEF Same
<1> QED
  BY <1>1, <1>3, <1>4 DEF Fits, Equivalent

\* Labels and values stop to fit in one way only: an alias on the way to the
\* type of their union or constant is given another type.
THEOREM StaleByRetarget == Spec => StaleOnlyByRetarget
<1> DEFINE Step == \A o \in live \cap live' :
        (kind[o] \in {"Union", "Constant"} /\ Fits(o) /\ ~ Fits(o)') =>
            \E a \in (Chain(typeDef[o]) \cap Defs) \ {o} :
                typeDef'[a] # typeDef[a]
<1>1. TInv /\ [Next]_vars => Step
  <2> SUFFICES ASSUME TInv, [Next]_vars, NEW o \in live \cap live',
                      kind[o] \in {"Union", "Constant"}, Fits(o),
                      \A a \in (Chain(typeDef[o]) \cap Defs) \ {o} :
                            typeDef'[a] = typeDef[a]
               PROVE  Fits(o)'
    OBVIOUS
  <2>1. o \in Defs
    BY DEF TInv, TypeOK
  <2>2. CASE \E t \in Refs : SetDiscriminator(o, t)
    BY <2>1, <2>2, TypesAssumption, RetypedUnionFits
  <2>3. CASE \E t \in Refs : SetConstantType(o, t)
    BY <2>1, <2>3, TypesAssumption, RetypedConstantFits
  <2>4. CASE \E v \in Sent : SetUnionMembers(o, v)
    BY <2>1, <2>4, TypesAssumption, MemberedUnionFits
  <2>5. CASE \E tc \in Values : SetValue(o, tc)
    BY <2>1, <2>5, TypesAssumption, ValuedConstantFits
  <2>6. CASE Same(o)
    <3>1. \A a \in Chain(typeDef[o]) \ {o} : typeDef'[a] = typeDef[a]
      BY ChainClosed
    <3> QED
      BY <2>6, <3>1, TypesAssumption, SameFits
  <2> QED
    BY <2>2, <2>3, <2>4, <2>5, <2>6, StepsOf
<1>2. TInv /\ [Next]_vars => [Step]_vars
  BY <1>1
<1> QED
  BY <1>2, TypesInvariance, PTL DEF Spec, StaleOnlyByRetarget

=============================================================================
