------------------------------- MODULE Corpus -------------------------------
(***************************************************************************)
(* The command `FuzzyVM corpus`: each element is the prefix of a million   *)
(* random bytes that createTest finds, by bisection, to be about as long   *)
(* as the program generated from it needs.                                 *)
(***************************************************************************)
EXTENDS Powers, FiniteSets, Sequences

CONSTANTS
    Size,   \* the random bytes drawn for an element (1000000 in the code)
    Cutoff, \* createTest stops at a range narrower than this (10 in the code)
    Count   \* -count

MaxSize == 1202603 \* bound: up to it the powers of e below are all there are

ASSUME SizeAssumption   == Size \in 2..MaxSize
ASSUME CutoffAssumption == Cutoff \in Nat \ {0, 1}
ASSUME CountAssumption  == Count \in Nat

VARIABLES
    at,       \* the command: "create", "probe", "write" or "returned"
    left,     \* createTest: the variable of the same name
    right,    \* createTest: the variable of the same name
    b,        \* createTest: the length of the slice of the same name
    round,    \* createTest: the loop variable i
    usedUp,   \* history: the lengths whose filler was used up, of this element
    valid,    \* history: the lengths that had bytes left, of this element
    elements, \* the files written, in order: "whole", or "part" after an error
    cresult   \* what the command returned, or "none"

search == <<left, right, b, round, usedUp, valid>>
cvars  == <<at, search, elements, cresult>>

\* The powers of e from the 0th to the 13th, rounded up.
PowersOfE ==
    <<1, 3, 8, 21, 55, 149, 404, 1097, 2981, 8104, 22027, 59875, 162755, 442414>>

\* int(math.Log(float64(n))+1): how many powers of e are at most n.
LogPlusOne(n) == Cardinality({i \in 1..14 : n >= PowersOfE[i]})

Rounds == LogPlusOne(Size) + 1

CInit ==
    /\ at = "create" /\ elements = <<>> /\ cresult = "none"
    /\ left = 0 /\ right = 0 /\ b = 0 /\ round = 0
    /\ usedUp = {} /\ valid = {}

\* CreateNewCorpusElement, up to the loop of createTest; or it has no random bytes; or
\* the command has made all elements.
Create ==
    /\ at = "create"
    /\ \/ /\ Len(elements) < Count
          /\ at' = "probe"
          /\ left' = 0 /\ right' = Size /\ b' = Size \div 2 /\ round' = 0
          /\ usedUp' = {} /\ valid' = {}
          /\ UNCHANGED cresult
       \/ /\ Len(elements) < Count
          /\ at' = "returned" /\ cresult' = "err"
          /\ UNCHANGED search
       \/ /\ Len(elements) >= Count
          /\ at' = "returned" /\ cresult' = "nil"
          /\ UNCHANGED search
    /\ UNCHANGED elements

\* The end of a round of createTest, with the new bounds.
Narrow(l, r) ==
    /\ left' = l /\ right' = r
    /\ b' = l + (r - l) \div 2
    /\ round' = round + 1
    /\ at' = IF r - l < Cutoff \/ round + 1 >= Rounds THEN "write" ELSE "probe"

\* Mutant: the bounds are swapped.
Probe_Swapped ==
    /\ at = "probe"
    /\ \/ Narrow(b, right) /\ valid' = valid \cup {b} /\ UNCHANGED usedUp
       \/ Narrow(left, b) /\ usedUp' = usedUp \cup {b} /\ UNCHANGED valid
    /\ UNCHANGED <<elements, cresult>>

\* Mutant: only one of the bounds moves.
Probe_KeepsRight ==
    /\ at = "probe"
    /\ \/ Narrow(left, right) /\ valid' = valid \cup {b} /\ UNCHANGED usedUp
       \/ Narrow(b, right) /\ usedUp' = usedUp \cup {b} /\ UNCHANGED valid
    /\ UNCHANGED <<elements, cresult>>

\* One round: the program generated from b bytes leaves some of them, or it uses
\* them up.
Probe ==
    /\ at = "probe"
    /\ \/ Narrow(left, b) /\ valid' = valid \cup {b} /\ UNCHANGED usedUp
       \/ Narrow(b, right) /\ usedUp' = usedUp \cup {b} /\ UNCHANGED valid
    /\ UNCHANGED <<elements, cresult>>

\* os.WriteFile, to the file named by the hash of the element.
WriteElement ==
    /\ at = "write"
    /\ \/ /\ elements' = Append(elements, "whole")
          /\ at' = "create" /\ UNCHANGED cresult
       \/ /\ elements' \in {elements, Append(elements, "part")}
          /\ at' = "returned" /\ cresult' = "err"
    /\ UNCHANGED search

CNext == Create \/ Probe \/ WriteElement

CSpec == CInit /\ [][CNext]_cvars

-----------------------------------------------------------------------------
\* Type invariant.
CorpusTypeOK ==
    /\ at \in {"create", "probe", "write", "returned"}
    /\ left \in 0..Size /\ right \in 0..Size /\ b \in 0..Size /\ round \in 0..Rounds
    /\ usedUp \subseteq 0..Size /\ valid \subseteq 0..Size
    /\ elements \in Seq({"whole", "part"}) /\ Len(elements) <= Count
    /\ cresult \in {"none", "nil", "err"}

\* The bounds are lengths with a known outcome, whatever the outcomes of the others:
\* the program of `left` bytes used them all, that of `right` left some; and a probe
\* is always a length that has not been tried.
Bracket ==
    at \in {"probe", "write"} =>
       /\ left \in usedUp \cup {0} /\ right \in valid \cup {Size}
       /\ at = "probe" => left < b /\ b < right
       /\ at = "write" => left <= b /\ b < right

\* The search converges although its number of rounds is fixed beforehand: an element
\* is at most a cutoff, or 2^-Rounds of the random bytes, away from the bounds.
Converges ==
    at = "write" =>
       right - left < Cutoff \/ right - left - 1 <= (Size - 1) \div Pow2[Rounds]
=============================================================================
