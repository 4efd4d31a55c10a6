------------------------------ MODULE TypeFromPos ------------------------------
(***************************************************************************)
(* What is under the cursor of an editor (TypeFromPos in gohandler.py),    *)
(* the names an editor lists (GetNameReferencesHandler), and the           *)
(* definition that is resolved for the cursor (ResolveBase), in            *)
(* basic_handlers.py:339-535.                                              *)
(*                                                                         *)
(* The editor's text is the file of SelectTarget up to a definition: what  *)
(* is imported comes after it.  layouts[n] says where the elements of a    *)
(* text of n definitions stand; a place is the positions before its first  *)
(* and after its last character.                                           *)
(***************************************************************************)
EXTENDS SelectTarget

CONSTANTS
    Layouts,    \* by their number of definitions
    Positions,  \* of the cursor
    Comment     \* nothing is at the cursor

NoTarget == [type |-> Comment, target |-> NoName, start |-> Nothing]

\* Where a definition and its elements stand: its elements begin inside it.
IsDefinition(def) ==
    /\ def.from \in Nat /\ def.to \in Nat /\ def.from < def.to
    /\ DOMAIN def.elements \subseteq Nat
    /\ \A e \in DOMAIN def.elements :
          /\ def.elements[e].from \in Nat
          /\ def.from <= def.elements[e].from /\ def.elements[e].from < def.to

ASSUME TypeFromPosAssumption ==
    /\ DOMAIN Layouts = 1..MaxDefs
    /\ \A n \in 1..MaxDefs : \A layout \in Layouts[n] :
          /\ DOMAIN layout.allhttps = 1..n
          /\ \A d \in 1..n : IsDefinition(layout.allhttps[d])
    /\ Positions \subseteq Nat

-----------------------------------------------------------------------------
InBetween(place, position) == place.from < position /\ position < place.to

First(S) == CHOOSE i \in S : \A j \in S : i <= j

\* Wrong variant: a position between two elements belongs to the one before.
PickLastBefore(def, position) ==
    LET found == {e \in DOMAIN def.elements : def.elements[e].from < position}
    IN IF found = {} THEN Comment
       ELSE def.elements[CHOOSE e \in found : \A f \in found : f <= e].type

\* pick_in_http: the first element, in the order the code asks for them, that
\* the cursor is in.  An NTLM authentication is looked up where a digest one
\* would be, and never found; a line that is no header is a parameter.
PickInHttp(def, position) ==
    LET found == {e \in DOMAIN def.elements :
                    /\ def.elements[e].type # "ntlm_auth"
                    /\ InBetween(def.elements[e], position)}
    IN IF found = {} THEN Comment ELSE def.elements[First(found)].type

\* get_target on the text's own definitions.
OwnTarget(layout, name) ==
    IF GetTarget(name) \in DOMAIN layout.allhttps THEN GetTarget(name) ELSE Nothing

\* What is answered for an element of the definition at index: its name or
\* its number, and where its base begins if it is in the text.
ResultFor(layout, index, type) ==
    [type |-> type,
     target |-> Label(index),
     start |-> LET base == OwnTarget(layout, file[index].base)
               IN IF file[index].base = NoName \/ base = Nothing THEN Nothing
                  ELSE layout.allhttps[base].from]

\* figure_n_get: variables are looked at only if nothing is imported.
FigureNGet(layout, position) ==
    LET In(places) == \E i \in DOMAIN places : InBetween(places[i], position)
        found == {i \in DOMAIN layout.allhttps :
                    /\ InBetween(layout.allhttps[i], position)
                    /\ PickInHttp(layout.allhttps[i], position) # Comment}
    IN IF ~InBetween(layout.text, position) THEN NoTarget
       ELSE IF In(layout.imports) THEN [NoTarget EXCEPT !.type = "import"]
       ELSE IF layout.imports = <<>> /\ In(layout.variables)
            THEN [NoTarget EXCEPT !.type = "variable"]
       ELSE IF found = {} THEN NoTarget
       ELSE ResultFor(layout, First(found), PickInHttp(layout.allhttps[First(found)], position))

\* get_resolved: without a target the first definition is loaded.
ResolvedDefinition(layout, position) ==
    LET name == FigureNGet(layout, position).target
    IN IF name = NoName THEN 1
       ELSE IF name \in Defs THEN name   \* the number of one without a name
       ELSE GetTarget(name)

\* get_for_http: an entry for each definition, from its name or its url on.
NamesListed(layout) ==
    [i \in DOMAIN layout.allhttps |->
        LET def == layout.allhttps[i]
            begins == {e \in DOMAIN def.elements :
                         def.elements[e].type = IF file[i].name = NoName THEN "url" ELSE "name"}
        IN [name |-> Label(i),
            start |-> IF begins = {} THEN def.from ELSE def.elements[First(begins)].from,
            end |-> def.to]]

-----------------------------------------------------------------------------
\* The name is a number that stands for a later definition or for none.
Misleading(i) == file[i].name \in Numbers \ (1..i)

\* In a file that passed validate_names, what is resolved for the cursor is
\* the definition that the cursor is in, and an entry of the list of names
\* selects the definition it points at; unless that has zero or a number
\* above its own position for a name, and wherever an element is found at all.  A base
\* that is in the text is found where the chain of bases finds it
\* (gohandler.py:64-199, basic_handlers.py:341-402, 448-500).
CursorSelectsItsDefinition ==
    pc = "select" =>
        \A n \in Defs : \A layout \in Layouts[n] :
            /\ \A position \in Positions :
                  LET result == FigureNGet(layout, position)
                      i == ResolvedDefinition(layout, position)
                  IN result.target # NoName =>
                        \E d \in 1..n :
                           /\ InBetween(layout.allhttps[d], position)
                           /\ Misleading(d) \/ i = d
                           /\ result.start # Nothing =>
                                 result.start = layout.allhttps[Base(d)].from
                           /\ \E e \in DOMAIN layout.allhttps[d].elements :
                                 /\ InBetween(layout.allhttps[d].elements[e], position)
                                 /\ result.type = layout.allhttps[d].elements[e].type
            /\ \A d \in 1..n :
                  LET entry == NamesListed(layout)[d]
                  IN /\ Misleading(d) \/ file[d].name = NoName \/ GetTarget(entry.name) = d
                     /\ layout.allhttps[d].from <= entry.start
                     /\ entry.start < entry.end
=============================================================================
