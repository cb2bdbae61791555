----------------------------- MODULE MinCorpus -----------------------------
(***************************************************************************)
(* The command `FuzzyVM minCorpus` (minimizeCorpus): it reads the files of *)
(* the corpus directory, and removes those that have another file as a     *)
(* prefix.  Files that cannot be read are left alone, and the first file   *)
(* that cannot be removed ends the command.                                *)
(***************************************************************************)
EXTENDS Integers, Sequences

CONSTANTS
    LastName, \* bound: the files have the names 1..LastName, in directory order
    Data      \* contents of a file: a set of sequences

ASSUME LastNameAssumption == LastName \in Nat
ASSUME DataAssumption     == \A d \in Data : d \in Seq(Nat)

VARIABLES
    step,     \* minimizeCorpus: "read", "mark", "remove" or "returned"
    held,     \* history: what the files held when the command started
    there,    \* the files of the directory
    listed,   \* the files that could be read: the slice files
    toDelete, \* the variable of the same name
    mresult   \* what the command returned, or "none"

mvars == <<step, held, there, listed, toDelete, mresult>>

Names == 1..LastName

Prefix(f, g) ==
    /\ Len(held[f]) <= Len(held[g])
    /\ \A i \in 1..Len(held[f]) : held[f][i] = held[g][i]

MInit ==
    /\ step = "read" /\ mresult = "none"
    /\ there \in SUBSET Names
    /\ held \in [there -> Data]
    /\ listed = {} /\ toDelete = {}

\* os.ReadDir, and os.ReadFile of each entry, which may fail.
ReadFiles ==
    /\ step = "read"
    /\ \/ step' = "mark" /\ listed' \in SUBSET there /\ UNCHANGED mresult
       \/ step' = "returned" /\ mresult' = "err" /\ UNCHANGED listed
    /\ UNCHANGED <<held, there, toDelete>>

\* Mutant: identical files delete each other.
Redundant_Identical(g) == \E f \in listed \ {g} : Prefix(f, g)

\* Mutant: only earlier files are compared with.
Redundant_Earlier(g) == \E f \in listed \ {g} : f < g /\ Prefix(f, g)

\* g is marked: another file is a prefix of it, and of two files of one length only
\* the later counts.
Redundant(g) ==
    \E f \in listed \ {g} :
       /\ ~(Len(held[f]) = Len(held[g]) /\ g < f)
       /\ Prefix(f, g)

Mark ==
    /\ step = "mark"
    /\ toDelete' = {g \in listed : Redundant(g)}
    /\ step' = "remove"
    /\ UNCHANGED <<held, there, listed, mresult>>

\* The range over toDelete, in any order.
Remove ==
    /\ step = "remove"
    /\ \/ \E g \in toDelete :
             \/ /\ there' = there \ {g} /\ toDelete' = toDelete \ {g}
                /\ UNCHANGED <<step, mresult>>
             \/ /\ step' = "returned" /\ mresult' = "err"
                /\ UNCHANGED <<there, toDelete>>
       \/ /\ toDelete = {}
          /\ step' = "returned" /\ mresult' = "nil"
          /\ UNCHANGED <<there, toDelete>>
    /\ UNCHANGED <<held, listed>>

MNext == ReadFiles \/ Mark \/ Remove

MSpec == MInit /\ [][MNext]_mvars

-----------------------------------------------------------------------------
\* Type invariant.
MTypeOK ==
    /\ step \in {"read", "mark", "remove", "returned"}
    /\ there \subseteq Names /\ DOMAIN held \subseteq Names
    /\ \A f \in DOMAIN held : held[f] \in Data
    /\ listed \subseteq DOMAIN held
    /\ toDelete \subseteq listed \cap there
    /\ mresult \in {"none", "nil", "err"}

\* The corpus loses no start of a program, at whatever file the removal stops: each
\* file the command found still has a prefix in the directory, itself or another, and
\* what it could not read it has not removed.
PrefixesSurvive ==
    \A g \in DOMAIN held :
       IF g \in listed THEN \E f \in listed \cap there : Prefix(f, g) ELSE g \in there

\* A run without an error leaves nothing for a second one to do.
Minimal ==
    mresult = "nil" => \A f, g \in listed \cap there : Prefix(f, g) => f = g

\* "A corpus element is redundant if it is a prefix of another element: the longer
\* one already covers it" (minimizeCorpus).
LongerCovers ==
    \A f \in DOMAIN held \ there : \E g \in there : Prefix(f, g)
=============================================================================
