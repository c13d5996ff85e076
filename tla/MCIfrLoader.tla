----------------------------- MODULE MCIfrLoader -----------------------------
(* A small instance of IfrLoader for TLC: IDL files.                       *)
EXTENDS IfrLoader

MCCaseClass == [x \in Names |-> IF x = "s" THEN "S" ELSE x]
Objects == 1..6

Type(path, wrapped) == [path |-> path, wrapped |-> wrapped]
Basic == Type(<<>>, FALSE)
V(visit, k, s, n, i, t) ==
    [visit |-> visit, kind |-> k, scope |-> s, name |-> n, id |-> i, type |-> t]
D(k, s, n, i, t) == V("declare", k, s, n, i, t)
End(k, s, t) == V("end", k, s, NoString, NoString, t)
M == <<"M">>
MS == <<"M", "S">>
MA == <<"M", "A">>

T(k, s, n, i, t) == <<V("typedef", k, s, n, i, Basic), D(k, s, n, i, t)>>

\* module M { typedef long A; typedef A B; struct S; struct S { sequence<S> x; }; };
Original ==
    << D("Module", <<>>, "M", "idM", Basic) >>
    \o T("Alias", M, "A", "idA", Basic) \o T("Alias", M, "B", "idB", Type(MA, FALSE))
    \o << V("forward", "Struct", M, "S", "idS", Basic), D("Struct", M, "S", "idS", Basic),
          End("Struct", MS, Type(MS, TRUE)), End("Module", M, Basic) >>

\* The typedefs turned round, and the struct gone to the top with its id.
Turned ==
    << D("Module", <<>>, "M", "idM", Basic) >>
    \o T("Alias", M, "B", "idB", Basic) \o T("Alias", M, "A", "idA", Type(<<"M", "B">>, FALSE))
    \o << End("Module", M, Basic),
          D("Struct", <<>>, "S", "idS", Basic), End("Struct", <<"S">>, Type(MA, FALSE)) >>

\* The module has another id, A is a struct, B a constant, and s clashes with S.
Changed ==
    << D("Module", <<>>, "M", "idM2", Basic), D("Constant", M, "B", "idB", Basic),
       D("Struct", M, "A", "idA", Basic), End("Struct", MA, Type(<<>>, TRUE)) >>
    \o T("Alias", M, "s", "idS", Type(MA, FALSE)) \o << End("Module", M, Basic) >>

\* An interface where the struct was, with two attributes declared at once; a
\* constant of a type that an earlier version called otherwise.
Attributes ==
    << D("Module", <<>>, "M", "idM", Basic) >> \o T("Alias", M, "B", "idB", Basic)
    \o << D("Constant", M, "A", "idA", Type(<<"M", "B">>, FALSE)),
          D("Interface", M, "S", "idS", Basic),
          D("Attribute", MS, "A", "idM2", Basic),
          V("again", "Attribute", MS, "B", "idS2", Basic),
          End("Interface", MS, Basic), End("Module", M, Basic) >>

\* A sequence of a struct that is only declared forward, under the name of a
\* constant of an earlier version.
Forward ==
    << D("Module", <<>>, "M", "idM", Basic),
       V("forward", "Struct", M, "B", "idB", Basic) >>
    \o T("Alias", M, "S", "idS", Type(<<"M", "B">>, TRUE))
    \o << D("Struct", M, "B", "idB", Basic), End("Struct", <<"M", "B">>, Basic),
          End("Module", M, Basic) >>

\* module M { typedef struct S { long x; } A, B; };  struct S { M::S x; };
Inside ==
    LET S == << D("Struct", M, "S", "idS", Basic), End("Struct", MS, Basic) >>
        A == T("Alias", M, "A", "idA", Type(MS, FALSE))
        B == T("Alias", M, "B", "idB", Type(MS, FALSE))
    IN << D("Module", <<>>, "M", "idM", Basic), A[1] >> \o S \o << A[2], B[1] >> \o S
       \o << B[2], End("Module", M, Basic),
             D("Struct", <<>>, "S", "idS2", Basic), End("Struct", <<"S">>, Type(MS, FALSE)) >>

\* module M { enum S { x }; typedef S B; const B A = x; };
EnumConstant ==
    << D("Module", <<>>, "M", "idM", Basic), D("Enum", M, "S", "idS", Basic) >>
    \o T("Alias", M, "B", "idB", Type(MS, FALSE))
    \o << D("Constant", M, "A", "idA", Type(<<"M", "B">>, FALSE)), End("Module", M, Basic) >>

MCFiles == {Original, Turned, Changed, Attributes, Forward, Inside, EnumConstant}
=============================================================================
