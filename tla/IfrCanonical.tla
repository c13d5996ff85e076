----------------------------- MODULE IfrCanonical -----------------------------
(***************************************************************************)
(* get_canonical_typecode(): a TypeCode whose outermost parts that name a  *)
(* definition of the repository are replaced by that definition's own.     *)
(***************************************************************************)
EXTENDS IfrTypes

\* A definition of the right kind has the id of the TypeCode.
Found(tc) == tc.id \in live /\ kind[tc.id] = tc.kind

RECURSIVE CanonicalForm_TopOnly(_), CanonicalForm(_)
CanonicalForm_TopOnly(tc) == IF Found(tc) THEN TypeOf(tc.id) ELSE tc
CanonicalForm(tc) ==
    IF Found(tc) THEN TypeOf(tc.id)
    ELSE TC(tc.kind, tc.id,
            [i \in DOMAIN tc.parts |-> CanonicalForm(tc.parts[i])])

-----------------------------------------------------------------------------

\* A part of a TypeCode that can be looked up is what that definition answers, and
\* a part that cannot has parts of which the same is true.  What a definition kept
\* of its members may be stale, and is not looked at (Repository.cc:132-135).
RECURSIVE IsCanonical(_)
IsCanonical(tc) ==
    \/ Found(tc) /\ tc = TypeOf(tc.id)
    \/ ~ Found(tc) /\ \A i \in DOMAIN tc.parts : IsCanonical(tc.parts[i])

\* The canonical form of a TypeCode has its kind and id, is canonical down to the
\* first definitions found in it, and is its own canonical form
\* (Repository.cc:97-282).
CanonicalIsKnown ==
    \A tc \in ClientTypes :
        (\A d \in live : IF kind[d] \in DelegatingKinds THEN HasType(d) ELSE TRUE) =>
            LET c == CanonicalForm(tc) IN
            /\ c.kind = tc.kind /\ c.id = tc.id
            /\ IsCanonical(c) /\ CanonicalForm(c) = c

=============================================================================
