----------------------------- MODULE AliasTable -----------------------------
(* The alias map of one bucket (memory/aliasing.py, AliasTable): real ids    *)
(* are replaced by short aliases before a text goes to the LLM and restored  *)
(* in what comes back.  The alias of an id is the number it was given, so a  *)
(* map is the sequence of its ids, with the version every allocation bumps   *)
(* and the flag a seal sets.  Ids have four types with a counter each that   *)
(* never meet; one is modelled.  Texts are the sets of ids they mention, and *)
(* ids are numbers, in the order the code meets them.                        *)
EXTENDS Integers, Sequences, FiniteSets, Functions

EmptyMap == [ids |-> <<>>, ver |-> 1, sealed |-> FALSE]

IsMap(m, Ids) ==
    /\ m.ids \in Seq(Ids) /\ m.ver \in Nat \ {0} /\ m.sealed \in BOOLEAN

Mapped(m) == Range(m.ids)

\* A finite set of numbers in their order.
Ascending(S) ==
    CHOOSE s \in [1..Cardinality(S) -> S] : \A i, j \in DOMAIN s : i < j => s[i] < s[j]

\* The ids of a text the map has no alias for, in the order they are met.
Fresh(m, text) == Ascending(text \ Mapped(m))

\* One transaction over the text: every new id takes the next number.
Encoded(m, text) ==
    [m EXCEPT !.ids = @ \o Fresh(m, text), !.ver = @ + Len(Fresh(m, text))]

\* The numbers that stand for the mapped ids of the text ...
Aliases(m, text) == {n \in 1..Len(m.ids) : m.ids[n] \in text}

\* ... and what numbers that came back stand for.
Known(m, said) == said \subseteq 1..Len(m.ids)
Decoded(m, said) == {m.ids[n] : n \in said \cap 1..Len(m.ids)}

Frozen(m) == IF m.sealed THEN m ELSE [m EXCEPT !.sealed = TRUE, !.ver = @ + 1]
=============================================================================
