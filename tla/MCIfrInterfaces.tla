--------------------------- MODULE MCIfrInterfaces ---------------------------
(* Small instances of IfrInterfaces for TLC.                               *)
EXTENDS IfrInterfaces

\* The identifiers a, b and B.
MCIdentifiers == {<<1, "lower">>, <<2, "lower">>, <<2, "upper">>}

\* Interfaces differ in nothing but what is stored of them, nor do their names.
MCSymmetry == Permutations(Interfaces) \cup Permutations(InterfaceNames)
=============================================================================
