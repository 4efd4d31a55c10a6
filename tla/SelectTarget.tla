---------------------------- MODULE SelectTarget ----------------------------
(***************************************************************************)
(* How a definition of a .http file and the definitions it extends are     *)
(* found (BaseModelProcessor.validate_names, select_target, get_target in  *)
(* dothttp/parse/__init__.py:295-360).                                     *)
(*                                                                         *)
(* A file is the sequence of its definitions, imported ones included.  A   *)
(* definition has a name and perhaps a base, or neither.  Names are words  *)
(* or decimal numbers; a number also stands for the definition at that     *)
(* position.  parents is parents_http, as positions in the file.           *)
(***************************************************************************)
EXTENDS Integers, Sequences

CONSTANTS
    Words,     \* names that are no numbers
    Numbers,   \* names that are decimal numbers
    NoName,    \* no name, no base, no target
    MaxDefs,   \* bound: definitions in a file
    MaxWalk    \* bound: rounds of select_target's loop

Names == Words \cup Numbers

ASSUME SelectTargetAssumption ==
    /\ Numbers \subseteq Nat
    /\ Words \cap Int = {}
    /\ NoName \notin Words \cup Int
    /\ MaxDefs \in Nat \ {0}
    /\ MaxWalk \in Nat /\ MaxWalk >= MaxDefs

Definition ==
    [name : {NoName}, base : {NoName}] \cup [name : Names, base : Names \cup {NoName}]

Files == UNION {[1..n -> Definition] : n \in 1..MaxDefs}

VARIABLES
    file,     \* the definitions
    target,   \* args.target
    pc,       \* where load is
    http,     \* the selected definition
    parent,   \* the name the loop looks for
    parents   \* parents_http

vars == <<file, target, pc, http, parent, parents>>

input == <<file, target>>

Defs == DOMAIN file

Nothing == 0

\* get_target: a number is a position, a word the first definition of that
\* name; Nothing if it raises.
GetTarget(t) ==
    IF t \in Numbers
    THEN IF t \in Defs THEN t ELSE Nothing
    ELSE IF \E i \in Defs : file[i].name = t
         THEN CHOOSE i \in Defs :
                 /\ file[i].name = t
                 /\ \A j \in Defs : file[j].name = t => i <= j
         ELSE Nothing

\* The definition that i extends, if there is one.
Base(i) == IF file[i].base = NoName THEN Nothing ELSE GetTarget(file[i].base)

\* What validate_names enters for a definition: its name or its position.
Label(i) == IF file[i].name = NoName THEN i ELSE file[i].name

\* A name is refused if an earlier definition has it as name or position.
NameAppeared == \E i, j \in Defs : j < i /\ Label(i) \in {Label(j), j}

-----------------------------------------------------------------------------
Init ==
    /\ file \in Files
    /\ target \in Names \cup {NoName}
    /\ pc = "validate"
    /\ http = Nothing
    /\ parent = NoName
    /\ parents = <<>>

ValidateNames ==
    /\ pc = "validate"
    /\ pc' = IF NameAppeared THEN "refused" ELSE "select"
    /\ UNCHANGED <<input, http, parent, parents>>

\* select_target without a target takes the first definition.
Selected == IF target = NoName THEN 1 ELSE GetTarget(target)

\* There is no such target.
SelectFails ==
    /\ pc = "select"
    /\ Selected = Nothing
    /\ pc' = "refused"
    /\ UNCHANGED <<input, http, parent, parents>>

\* A definition that names itself as its base is refused here; one without
\* a base is ready.
SelectHttp ==
    /\ pc = "select"
    /\ Selected # Nothing
    /\ http' = Selected
    /\ parent' = file[Selected].base
    /\ pc' = IF file[Selected].base = NoName THEN "ready"
             ELSE IF file[Selected].base = file[Selected].name THEN "refused"
             ELSE "extend"
    /\ UNCHANGED <<input, parents>>

\* Wrong variant: the base of the target is looked up again.
ExtendTargetAgain ==
    LET grand == GetTarget(parent) IN
    /\ pc = "extend"
    /\ grand # Nothing
    /\ Len(parents) < MaxWalk
    /\ parents' = Append(parents, grand)
    /\ IF file[grand].name = NoName
       THEN pc' = "undefined" /\ UNCHANGED parent
       ELSE /\ parent' = IF file[grand].base = NoName THEN NoName ELSE file[http].base
            /\ pc' = IF parent' = NoName THEN "ready" ELSE "extend"
    /\ UNCHANGED <<input, http>>

\* Wrong variant: only the nearest base is taken.
ExtendOnce ==
    LET grand == GetTarget(parent) IN
    /\ pc = "extend"
    /\ grand # Nothing
    /\ parents' = Append(parents, grand)
    /\ parent' = NoName
    /\ pc' = IF file[grand].name = NoName THEN "undefined" ELSE "ready"
    /\ UNCHANGED <<input, http>>

\* One round of "while parent".  The test "parent in self.parents_http"
\* compares a name with definitions and is never true.  A definition without
\* a name has no base to go on with: the AttributeError becomes
\* UndefinedHttpToExtend.
Extend ==
    LET grand == GetTarget(parent) IN
    /\ pc = "extend"
    /\ grand # Nothing
    /\ Len(parents) < MaxWalk
    /\ parents' = Append(parents, grand)
    /\ IF file[grand].name = NoName
       THEN pc' = "undefined" /\ UNCHANGED parent
       ELSE /\ parent' = file[grand].base
            /\ pc' = IF parent' = NoName THEN "ready" ELSE "extend"
    /\ UNCHANGED <<input, http>>

\* get_target raises, which becomes UndefinedHttpToExtend.
ExtendFails ==
    /\ pc = "extend"
    /\ GetTarget(parent) = Nothing
    /\ pc' = "undefined"
    /\ UNCHANGED <<input, http, parent, parents>>

Next == ValidateNames \/ SelectFails \/ SelectHttp \/ Extend \/ ExtendFails

Spec == Init /\ [][Next]_vars

\* The code is sequential and goes on until it returns or raises.
FairSpec == Spec /\ WF_vars(Next)

Ended == {"ready", "refused", "undefined"}

-----------------------------------------------------------------------------
TypeOK ==
    /\ file \in Files
    /\ target \in Names \cup {NoName}
    /\ pc \in {"validate", "select", "extend"} \cup Ended
    /\ http \in Defs \cup {Nothing}
    /\ parent \in Names \cup {NoName}
    /\ parents \in Seq(Defs)
    /\ Len(parents) <= MaxWalk

\* A file that passed validate_names has one definition per word, and a
\* definition whose name is a number not above its position is the one that
\* number selects.  (A number above it selects another definition.)
NamesSelectTheirDefinition ==
    pc \in {"select", "extend", "ready", "undefined"} =>
        \A i \in Defs :
            file[i].name \in Words \/ file[i].name \in 1..i
                => GetTarget(file[i].name) = i

\* No chain of bases leads back to where it came from: definitions can be
\* ranked such that every base ranks below what extends it.
Ranks == 0..MaxDefs

DescendsBy(rank) == \A i \in Defs : Base(i) # Nothing => rank[Base(i)] < rank[i]

Acyclic == \E rank \in [Defs -> Ranks] : DescendsBy(rank)

\* In a file without circular bases the loop meets no definition twice,
\* hence it goes round once per definition at most.
NoneTwice ==
    Acyclic =>
        \A i, j \in DOMAIN parents :
            parents[i] # http /\ (parents[i] = parents[j] => i = j)

\* What a set of definitions has to contain to hold all the ancestors of i.
ClosedUnderBase(S, i) ==
    /\ Base(i) \in S \cup {Nothing}
    /\ \A j \in S : Base(j) \in S \cup {Nothing}

Ancestors(i) == {j \in Defs : \A S \in SUBSET Defs : ClosedUnderBase(S, i) => j \in S}

\* A request inherits from all the ancestors of its definition and from
\* nothing else (later stages read parents_http only).
InheritsFromAncestors ==
    pc = "ready" => {parents[i] : i \in DOMAIN parents} = Ancestors(http)

\* A file without circular bases is always decided, one way or the other.
SelectionEnds == Acyclic ~> pc \in Ended

-----------------------------------------------------------------------------
\* "Found circular reference" (parse/__init__.py:311-315) is what the loop is
\* meant to raise when it comes back to a definition it has been to.  The
\* code goes round for ever instead.
CircularReferenceFound ==
    \A i, j \in DOMAIN parents : parents[i] = parents[j] => i = j
=============================================================================
