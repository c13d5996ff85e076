---------------------------- MODULE MCIfrCareful ----------------------------
(* Small instances of IfrCareful for TLC.                                  *)
EXTENDS IfrCareful, TLC

CONSTANTS o1, o2, o3, o4, n, N, m

\* n and N are the same identifier but for case.
MCCaseClass == [x \in Names |-> IF x = N THEN n ELSE x]
\* In an instance without N, MCCaseClass is the identity.
Symmetry == Permutations(Objs) \cup Permutations(Ids) \cup Permutations(Names)
=============================================================================
