------------------------------- MODULE IfrReads -------------------------------
(***************************************************************************)
(* What clients read of the object graph: lookup() and absolute_name().    *)
(* They change nothing; what matters is whether they lead to the right     *)
(* definition in every state that renaming, moving and destroying can      *)
(* reach.  lookup_name() is in IfrLookupName, inherited contents are in    *)
(* IfrInterfaces.                                                          *)
(***************************************************************************)
EXTENDS IfrObjects

\* The first in the list whose name is n; EqualName regards case.
Child_AnyCase(c, n) == {x \in contents[c] : CaseClass[name[x]] = CaseClass[n]}
Child(c, n) == {x \in contents[c] : name[x] = n}

\* One component of a scoped name, looked up in what the components before it
\* led to; only a container has anything to look in.
Step(c, n) ==
    IF c # NoObj /\ kind[c] \in ContainerKinds /\ Child(c, n) # {}
    THEN CHOOSE x \in Child(c, n) : TRUE
    ELSE NoObj

\* lookup(): component by component from c.
Reached(c, path) ==
    LET reached[k \in Nat] == IF k = 0 THEN c ELSE Step(reached[k - 1], path[k])
    IN reached
Lookup(c, path) == Reached(c, path)[Len(path)]

-----------------------------------------------------------------------------

Paths == UNION {[1..k -> Names] : k \in 1..MaxDepth}

\* The chains of definitions, each inside the one before and the first in the
\* Repository, that spell a path; it leads to the last of them.
Chains(path) ==
    {chain \in [1..Len(path) -> Objs] :
        \A k \in 1..Len(path) :
            /\ name[chain[k]] = path[k]
            /\ definedIn[chain[k]] = IF k = 1 THEN Root ELSE chain[k - 1]}
LeadsTo(path, x) ==
    path # <<>> /\ \E chain \in Chains(path) : chain[Len(path)] = x

\* A scoped name leads to the one definition whose container chain spells it,
\* case included, and to nothing else: whatever was renamed to a name that
\* differs only in case, moved, orphaned or destroyed (Container.cc:460-503).
LookupFinds ==
    \A path \in Paths :
        {chain[Len(path)] : chain \in Chains(path)} =
            {Lookup(Root, path)} \ {NoObj}

\* absolute_name() leads to its definition.
NameLeadsBack(c) == c = Root \/ (definedIn[c] # NoObj /\ LeadsTo(absName[c], c))

\* An absolute name goes stale in one way only: from above.  The definition is
\* inside another one whose own name or place changed, or its container has an
\* absolute name that is stale; no change of its own name or place, or of its
\* neighbours', makes it lead elsewhere (Contained.cc:199-215).
NameStaleOnlyFromAbove ==
    [][\A x \in Objs :
        ((definedIn[x] = NoObj \/ NameLeadsBack(x)) /\ definedIn'[x] # NoObj) =>
        \/ NameLeadsBack(x)'
        \/ \E y \in Objs : x \in Below(y) /\ <<name[y], definedIn[y]>> #
                                             <<name'[y], definedIn'[y]>>
        \/ \E c \in Servants : c = definedIn'[x] /\ ~ NameLeadsBack(c)']_vars

=============================================================================
