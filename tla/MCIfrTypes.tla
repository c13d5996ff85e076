------------------------------ MODULE MCIfrTypes ------------------------------
(* A small instance of IfrTypes and IfrCanonical for TLC.                    *)
EXTENDS IfrCanonical, TLC

CONSTANTS a, b, h, n, N, m

\* n and N are the same identifier but for case.
MCCaseClass == [x \in {n, N, m} |-> IF x = N THEN n ELSE x]

Short == TC("short", None, <<>>)
Long == TC("long", None, <<>>)
Default == [type |-> TC("octet", None, <<>>), val |-> 0]
MCLabels == {Default, [type |-> Short, val |-> 1], [type |-> Short, val |-> 2],
             [type |-> Long, val |-> 1]}

Member(x, l, t, md) ==
    [name |-> x, label |-> l, def |-> t, type |-> NullType, mode |-> md]
MCMemberChoices ==
    {[Member(x, l, None, "in") EXCEPT !.type = t] :
        x \in {n, N, m}, l \in MCLabels, t \in {Short, TC("Alias", a, <<Short>>)}}
\* Lists the setters are given: labels of either type and of none, parameters
\* of either mode, members of a changing type, and names that clash.
S1 == [type |-> Short, val |-> 1]
L1 == [type |-> Long, val |-> 1]
MCMemberLists ==
    { <<>>, <<Member(n, S1, "short", "in")>>, <<Member(n, L1, a, "out")>>,
      <<Member(n, Default, b, "in"), Member(m, L1, "short", "in")>>,
      <<Member(n, Default, "short", "in"), Member(N, Default, "short", "in")>> }

MCValues == {Short, Long, TC("string", None, <<>>), TC("Alias", a, <<Long>>)}

MCClientTypes ==
    {Short, TC("Alias", a, <<Long>>), TC("Alias", "unknown", <<TC("Alias", b, <<Short>>)>>),
     TC("Sequence", None, <<TC("Struct", h, <<>>)>>),
     TC("Struct", "unknown", <<TC("Union", h, <<Short>>), TC("Alias", a, <<Long>>)>>),
     TC("Union", "unknown", <<TC("Alias", b, <<Short>>), TC("Enum", h, <<>>)>>)}
=============================================================================
