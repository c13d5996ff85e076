-------------------------- MODULE MCIfrPersistence --------------------------
(* Small instances of IfrPersistence for TLC.                              *)
EXTENDS IfrPersistence

CONSTANTS o1, o2, o3, n, N, m

\* n and N are the same identifier but for case.
MCCaseClass == [x \in Names |-> IF x = N THEN n ELSE x]
Symmetry == Permutations(Objs) \cup Permutations(Ids)
\* For names that differ by more than their case.
NameSymmetry == Symmetry \cup Permutations(Names)
=============================================================================
