---------------------------- MODULE IfrCatalogue ----------------------------
(***************************************************************************)
(* What an Interface Repository promises its clients, without saying how:  *)
(* a catalogue of definitions, each with a name in a container and an id,  *)
(* where a name or an id leads to one definition at most, containers never *)
(* contain each other, and nothing is withdrawn while it is used.  A       *)
(* client changes one entry at a time.  IfrCareful implements it.          *)
(***************************************************************************)
CONSTANTS
    Definitions,    \* what can be entered in the catalogue
    Root,           \* the container that is always there
    Names, Ids,
    CaseClass,      \* names with the same class differ only in case
    Users           \* what can use a definition: others, and nameless types

VARIABLES
    entries,    \* what can be found: [def, in, name, id]
    uses        \* pairs <<user, used>>

catalogue == <<entries, uses>>

\* Where an entry can be put.
Places == {Root} \cup {e.def : e \in entries}

\* d and all it contains, directly or not.
Inside(d) ==
    {x \in Definitions :
        \A S \in SUBSET Definitions :
            (d \in S /\ \A e \in entries : e.in \in S => e.def \in S) => x \in S}

\* An entry like new can stand beside the entries of E.
Fits(new, E) ==
    \A e \in E : /\ e.id # new.id
                 /\ e.in = new.in => CaseClass[e.name] # CaseClass[new.name]

\* Only u's uses change.
UsesOf(u) == {p \in uses' : p[1] # u} = {p \in uses : p[1] # u}

-----------------------------------------------------------------------------

\* A definition comes into the catalogue, with what it uses.
Enter(new) ==
    /\ entries' = entries \cup {new}
    /\ \A e \in entries : e.def # new.def
    /\ new.in \in Places /\ Fits(new, entries)
    /\ UsesOf(new.def)

\* An entry is renamed, given another id, or put elsewhere with its contents.
Amend(old, new) ==
    /\ new.def = old.def
    /\ entries' = (entries \ {old}) \cup {new}
    /\ new.in \in Places \ Inside(old.def)
    /\ Fits(new, entries \ {old})
    /\ UNCHANGED uses

\* An entry that contains nothing, and that nothing else uses, goes.
Withdraw(old) ==
    /\ entries' = entries \ {old}
    /\ \A e \in entries : e.in # old.def
    /\ \A p \in uses : p[2] = old.def => p[1] = old.def
    /\ UsesOf(old.def)

\* A definition, or a nameless type, comes to use others, or no longer does.
Use(u) == entries' = entries /\ UsesOf(u)

Entry == [def : Definitions, in : Definitions \cup {Root}, name : Names, id : Ids]

Change ==
    \/ \E u \in Users : Use(u)
    \/ \E old \in entries : Withdraw(old)
    \/ \E new \in entries' \cap Entry : Enter(new)
    \/ \E old \in entries, new \in entries' \cap Entry : Amend(old, new)

Catalogue == entries \subseteq Entry /\ uses \subseteq Users \X Users

\* A server that starts with definitions loaded starts with any catalogue that
\* has them at the top.
Start ==
    /\ Catalogue
    /\ \A e \in entries : e.in = Root /\ Fits(e, entries \ {e})
    /\ \A e, f \in entries : e.def = f.def => e = f

CatalogueSpec == Start /\ [][Change]_catalogue

=============================================================================
