---------------------------- MODULE IfrLookupName ----------------------------
(***************************************************************************)
(* lookup_name(): every definition of a name, or of a kind, within a       *)
(* number of levels.                                                       *)
(***************************************************************************)
EXTENDS IfrReads, Integers, FiniteSets

\* However many definitions clients create, there are finitely many.
ASSUME FiniteAssumption == IsFiniteSet(Objs)

\* contents(limit_type, true).
Contents(c, limit) == {x \in contents[c] : limit \in {"all", kind[x]}}
SubContainers(c) == {x \in contents[c] : kind[x] \in ContainerKinds}

\* The test of a definition: for a limit other than dk_all it reads
\*   (the name matches && limit_type == dk_all) || the kind matches
Matches_AnyName(x, n, limit) == limit \in {"all", kind[x]}
Matches(x, n, limit) == (name[x] = n /\ limit = "all") \/ limit = kind[x]
Matching(c, n, limit) == {x \in Contents(c, limit) : Matches(x, n, limit)}

\* What f gives for the members of S, together.
AllOf(f, S) == UNION {f[x] : x \in S}

\* lookup_name() of every container with k levels left to search: those of its
\* contents that match, and what its containers find with one level less.
Found(n, limit) ==
    LET found[k \in Nat] ==
            [c \in Servants |->
                IF k = 0 THEN {}
                ELSE Matching(c, n, limit) \cup AllOf(found[k - 1], SubContainers(c))]
    IN found

\* The count starts one lower than it is given, and sub-levels are searched until
\* it is 0: if it starts below, until the containers end.  Definitions nest no
\* deeper than there are any, unless one is inside itself; the search of a
\* container that holds one of those never ends, and has no result to model.
LookupName(c, n, levels, limit) ==
    Found(n, limit)[IF levels > 0 THEN levels ELSE Cardinality(Objs)][c]

-----------------------------------------------------------------------------

\* What is inside each definition, k levels down.
Within[k \in Nat] ==
    [c \in Servants |->
        IF k = 0 THEN {}
        ELSE contents[c] \cup AllOf(Within[k - 1], contents[c])]

\* lookup_name() with levels_to_search >= 1 or -1 returns every definition of
\* that name within those levels; no other, if no kind is asked for
\* (Container.cc:80-123).  A container inside itself is searched for ever.
LookupNameFinds ==
    \A c \in {Root} \cup {o \in Objs : IsActive(o) /\ kind[o] \in ContainerKinds},
       n \in Names, limit \in Kinds \cup {"all"} :
        (\A x \in ContainedObjectSet(c) \ {Root} : ~ InLoop(x)) =>
            \A levels \in {-1} \cup 1..MaxDepth :
                LET named == {x \in IF levels = -1 THEN Below(c)
                                    ELSE Within[levels][c] :
                                name[x] = n /\ limit \in {"all", kind[x]}}
                    found == LookupName(c, n, levels, limit)
                IN named \subseteq found /\ (limit = "all" => found = named)

=============================================================================
