---------------------------- MODULE MCIfrObjects ----------------------------
(* Small instances of IfrObjects, IfrReads and IfrLookupName for TLC.      *)
EXTENDS IfrLookupName, TLC

CONSTANTS o1, o2, o3, o4, n, N, m

\* n and N are the same identifier but for case.
MCCaseClass == [x \in Names |-> IF x = N THEN n ELSE x]
Symmetry == Permutations(Objs) \cup Permutations(Ids)
=============================================================================
