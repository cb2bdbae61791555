---------------------------- MODULE FuzzyVMProofs ----------------------------
(***************************************************************************)
(* The commands of FuzzyVM, one by one and composed.  `corpus`: the        *)
(* bisection brackets the length it looks for and converges, for every     *)
(* number of random bytes and every cutoff.  `minCorpus` keeps a prefix of *)
(* every file and no more files than that takes, for every corpus, read in *)
(* every order.  `run`: racing writers leave complete files, and it takes  *)
(* three passes of ensureDirs to lose a test for want of a directory, for  *)
(* any number of workers, tests, pieces and directories, and of runs one   *)
(* after the other.                                                        *)
(***************************************************************************)
EXTENDS FuzzyVM, NatLemmas, FiniteSetTheorems, TLAPS

-----------------------------------------------------------------------------
(* The search of createTest.                                               *)

\* The midpoint b is that of the bounds, and there are rounds left.
SearchInv ==
    /\ CorpusTypeOK /\ Bracket
    /\ at = "probe" => round < Rounds /\ b = left + (right - left) \div 2
    /\ at = "write" => left < right
    /\ at \in {"probe", "write"} => Len(elements) < Count

LEMMA SizeType == Size \in Nat /\ Size >= 2
<1>1. MaxSize \in Nat
  BY DEF MaxSize
<1> QED BY <1>1, SizeAssumption

LEMMA RoundsType == Rounds \in Nat \ {0}
<1> DEFINE S == {i \in 1..14 : Size >= PowersOfE[i]}
<1>1. 1 \in Int /\ 14 \in Int /\ IsFiniteSet(1..14)
  <2>1. 1 \in Int /\ 14 \in Int
    OBVIOUS
  <2> QED BY <2>1, FS_Interval, Zenon
<1>2. S \in SUBSET (1..14)
  OBVIOUS
<1>3. IsFiniteSet(S)
  BY <1>1, <1>2, FS_Subset
<1>4. Cardinality(S) \in Nat
  BY <1>3, FS_CardinalityType
<1>5. Rounds = Cardinality(S) + 1
  BY DEF Rounds, LogPlusOne
<1> HIDE DEF S
<1> QED BY <1>4, <1>5

\* The half in which the search goes on is a range of lengths, with its middle.
LEMMA Halves ==
    ASSUME NEW l \in Nat, NEW r \in Nat, l < r
    PROVE  /\ l + (r - l) \div 2 \in Nat
           /\ l <= l + (r - l) \div 2 /\ l + (r - l) \div 2 < r
           /\ r - l >= 2 => l < l + (r - l) \div 2
OBVIOUS

LEMMA NarrowKeepsSearchInv ==
    ASSUME SearchInv, at = "probe", NEW l \in 0..Size, NEW r \in 0..Size, l < r,
           Narrow(l, r), UNCHANGED <<elements, cresult>>,
           usedUp' \subseteq 0..Size, valid' \subseteq 0..Size,
           l \in usedUp' \cup {0}, r \in valid' \cup {Size}
    PROVE  SearchInv'
<1>1. /\ left' = l /\ right' = r /\ b' = l + (r - l) \div 2 /\ round' = round + 1
      /\ at' = IF r - l < Cutoff \/ round + 1 >= Rounds THEN "write" ELSE "probe"
  BY DEF Narrow
<1>2. b' \in Nat /\ l <= b' /\ b' < r /\ (r - l >= 2 => l < b')
  BY <1>1, Halves, SizeType
<1>3. round' \in 0..Rounds /\ (at' = "probe" => round' < Rounds)
  BY <1>1, RoundsType DEF SearchInv, CorpusTypeOK
<1>4. at' = "probe" => r - l >= 2
  BY <1>1, CutoffAssumption, SizeType
<1>5. CorpusTypeOK'
  BY <1>1, <1>2, <1>3, SizeType DEF SearchInv, CorpusTypeOK
<1>6. Bracket'
  BY <1>1, <1>2, <1>4 DEF Bracket
<1> QED BY <1>1, <1>3, <1>5, <1>6 DEF SearchInv

LEMMA SearchInvHolds == CSpec => []SearchInv
<1>1. CInit => SearchInv
  BY RoundsType, SizeType, CountAssumption
  DEF CInit, SearchInv, CorpusTypeOK, Bracket
<1>2. SearchInv /\ [CNext]_cvars => SearchInv'
  <2> SUFFICES ASSUME SearchInv, [CNext]_cvars PROVE SearchInv'
    OBVIOUS
  <2>1. CASE Create
    <3>1. Size \div 2 \in Nat /\ 0 < Size \div 2 /\ Size \div 2 < Size
      BY SizeType
    <3>2. CASE at' = "probe"
      <4>1. /\ left' = 0 /\ right' = Size /\ b' = Size \div 2 /\ round' = 0
            /\ usedUp' = {} /\ valid' = {} /\ UNCHANGED <<elements, cresult>>
            /\ Len(elements) < Count
        BY <2>1, <3>2 DEF Create
      <4>2. CorpusTypeOK'
        BY <3>1, <3>2, <4>1, RoundsType, SizeType DEF SearchInv, CorpusTypeOK
      <4>3. Bracket'
        BY <3>1, <3>2, <4>1, SizeType DEF Bracket
      <4>4. b' = left' + (right' - left') \div 2
        BY <4>1, SizeType
      <4> QED BY <3>2, <4>1, <4>2, <4>3, <4>4, RoundsType DEF SearchInv
    <3>3. CASE at' # "probe"
      BY <2>1, <3>3 DEF Create, SearchInv, CorpusTypeOK, Bracket, search
    <3> QED BY <3>2, <3>3
  <2>2. CASE Probe
    <3>1. /\ left \in 0..Size /\ right \in 0..Size /\ b \in 0..Size
          /\ left < b /\ b < right /\ at = "probe"
          /\ left \in usedUp \cup {0} /\ right \in valid \cup {Size}
          /\ usedUp \subseteq 0..Size /\ valid \subseteq 0..Size
      BY <2>2 DEF Probe, SearchInv, CorpusTypeOK, Bracket
    <3>2. CASE Narrow(left, b) /\ valid' = valid \cup {b} /\ UNCHANGED usedUp
      BY <2>2, <3>1, <3>2, NarrowKeepsSearchInv DEF Probe
    <3>3. CASE Narrow(b, right) /\ usedUp' = usedUp \cup {b} /\ UNCHANGED valid
      BY <2>2, <3>1, <3>3, NarrowKeepsSearchInv DEF Probe
    <3> QED BY <2>2, <3>2, <3>3 DEF Probe
  <2>3. CASE WriteElement
    <3>1. UNCHANGED search /\ at' \in {"create", "returned"}
      BY <2>3 DEF WriteElement
    <3>2. elements' \in Seq({"whole", "part"}) /\ Len(elements') <= Count
      BY <2>3, CountAssumption, SMTT(30) DEF WriteElement, SearchInv, CorpusTypeOK
    <3> QED
      BY <2>3, <3>1, <3>2 DEF WriteElement, SearchInv, CorpusTypeOK, Bracket, search
  <2>4. CASE UNCHANGED cvars
    BY <2>4 DEF cvars, search, SearchInv, CorpusTypeOK, Bracket
  <2> QED BY <2>1, <2>2, <2>3, <2>4 DEF CNext
<1> QED BY <1>1, <1>2, PTL DEF CSpec

\* The bounds of the search are lengths with a known outcome, and each probe is of a
\* length between them, whatever the programs of the lengths in between do.
THEOREM SearchIsBracketed == CSpec => [](CorpusTypeOK /\ Bracket)
<1>1. SearchInv => CorpusTypeOK /\ Bracket
  BY DEF SearchInv
<1> QED BY <1>1, SearchInvHolds, PTL

-----------------------------------------------------------------------------
(* How far the search of createTest gets in its rounds.                    *)

\* Every round halves the range, but for one length.
ConvergeInv ==
    /\ at \in {"probe", "write"} => (right - left - 1) * Pow2[round] <= Size - 1
    /\ at = "write" => right - left < Cutoff \/ round = Rounds

LEMMA ConvergeStep == SearchInv /\ ConvergeInv /\ [CNext]_cvars => ConvergeInv'
<1> SUFFICES ASSUME SearchInv, ConvergeInv, [CNext]_cvars PROVE ConvergeInv'
  OBVIOUS
<1>1. CASE Create
  <2>1. CASE at' = "probe"
    <3>1. left' = 0 /\ right' = Size /\ round' = 0
      BY <1>1, <2>1 DEF Create
    <3>2. (Size - 0 - 1) * 1 <= Size - 1
      BY SizeType
    <3> QED BY <2>1, <3>1, <3>2, PowersOfTwo DEF ConvergeInv
  <2>2. CASE at' # "probe"
    BY <1>1, <2>2 DEF Create, ConvergeInv
  <2> QED BY <2>1, <2>2
<1>2. CASE Probe
  <2>1. /\ left \in Nat /\ right \in Nat /\ b \in Nat /\ round \in Nat /\ at = "probe"
        /\ b = left + (right - left) \div 2 /\ left < b /\ b < right
    BY <1>2 DEF Probe, SearchInv, CorpusTypeOK, Bracket
  <2>2. ASSUME NEW l \in Nat, NEW r \in Nat, Narrow(l, r),
               2 * (r - l - 1) <= right - left - 1
        PROVE  ConvergeInv'
    <3>1. left' = l /\ right' = r /\ round' = round + 1
      BY <2>2 DEF Narrow
    <3>2. (r - l - 1) * Pow2[round + 1] <= Size - 1
      <4>1. right - left - 1 \in Nat /\ r - l - 1 \in Int /\ Size - 1 \in Nat
        BY <2>1, SizeType
      <4>2. (right - left - 1) * Pow2[round] <= Size - 1
        BY <2>1 DEF ConvergeInv
      <4> QED BY <2>1, <2>2, <4>1, <4>2, Halving
    <3>3. at' = "write" => r - l < Cutoff \/ round' = Rounds
      BY <2>1, <2>2, RoundsType DEF Narrow, SearchInv
    <3> QED BY <3>1, <3>2, <3>3 DEF ConvergeInv
  <2>3. 2 * (b - left - 1) <= right - left - 1 /\ 2 * (right - b - 1) <= right - left - 1
    BY <2>1
  <2> QED BY <1>2, <2>1, <2>2, <2>3 DEF Probe
<1>3. CASE WriteElement
  BY <1>3 DEF WriteElement, search, ConvergeInv
<1>4. CASE UNCHANGED cvars
  BY <1>4 DEF cvars, search, ConvergeInv
<1> QED BY <1>1, <1>2, <1>3, <1>4 DEF CNext

\* However the programs of the lengths that are tried behave, the search has halved the
\* million bytes as often as it planned to, or it has come closer than the cutoff.
THEOREM SearchConverges == CSpec => []Converges
<1>1. CInit => ConvergeInv
  BY DEF CInit, ConvergeInv
<1>2. ASSUME SearchInv, ConvergeInv, at = "write", ~(right - left < Cutoff)
      PROVE  right - left - 1 <= (Size - 1) \div Pow2[Rounds]
  <2>1. right - left - 1 \in Int /\ Size - 1 \in Nat /\ Pow2[Rounds] \in Nat \ {0}
    <3>1. Pow2[Rounds] \in Nat \ {0}
      BY RoundsType, PowersOfTwo
    <3> QED BY <1>2, <3>1, SizeType DEF SearchInv, CorpusTypeOK
  <2>2. (right - left - 1) * Pow2[Rounds] <= Size - 1
    BY <1>2 DEF ConvergeInv
  <2> QED BY <2>1, <2>2, QuotientBound
<1>3. SearchInv /\ ConvergeInv => Converges
  BY <1>2 DEF Converges
<1> QED BY <1>1, <1>3, ConvergeStep, SearchInvHolds, PTL DEF CSpec

-----------------------------------------------------------------------------
(* The marks of minimizeCorpus.                                            *)

\* Only redundant files are removed; when the removal goes well, all of them are.
MarkInv ==
    /\ MTypeOK
    /\ there \subseteq DOMAIN held
    /\ step \in {"read", "mark"} =>
          there = DOMAIN held /\ toDelete = {} /\ mresult = "none"
    /\ step = "read" => listed = {}
    /\ \A g \in DOMAIN held \ there : g \in listed /\ Redundant(g)
    /\ step = "remove" =>
          /\ mresult = "none"
          /\ \A g \in toDelete : Redundant(g)
          /\ \A g \in listed \cap there : Redundant(g) => g \in toDelete
    /\ mresult = "nil" => \A g \in listed \cap there : ~Redundant(g)

LEMMA HeldType ==
    ASSUME MTypeOK, NEW f \in DOMAIN held
    PROVE  f \in Nat /\ held[f] \in Seq(Nat) /\ Len(held[f]) \in Nat
<1>1. f \in Nat
  BY LastNameAssumption DEF MTypeOK, Names
<1>2. held[f] \in Seq(Nat)
  BY DataAssumption DEF MTypeOK
<1> QED BY <1>1, <1>2

LEMMA PrefixTransitive ==
    ASSUME MTypeOK, NEW f \in DOMAIN held, NEW g \in DOMAIN held, NEW h \in DOMAIN held,
           Prefix(f, g), Prefix(g, h)
    PROVE  Prefix(f, h)
<1>1. Len(held[f]) \in Nat /\ Len(held[g]) \in Nat /\ Len(held[h]) \in Nat
  BY HeldType
<1> QED BY <1>1 DEF Prefix

\* The shortest prefix of a file, and of several the first, is marked by none.
LEMMA FirstPrefixStays ==
    ASSUME MTypeOK, NEW g \in listed
    PROVE  \E f \in listed : Prefix(f, g) /\ ~Redundant(f)
<1> DEFINE Before   == {f \in listed : Prefix(f, g)}
           Lengths  == {Len(held[f]) : f \in Before}
<1>1. \A f \in listed : f \in DOMAIN held /\ f \in Nat /\ Len(held[f]) \in Nat
  BY HeldType DEF MTypeOK
<1>2. g \in Before
  BY <1>1 DEF Prefix
<1>3. PICK n \in Lengths : \A m \in Lengths : n <= m
  <2>1. Lengths \in SUBSET Nat /\ Lengths # {}
    BY <1>1, <1>2
  <2> HIDE DEF Lengths
  <2> QED BY <2>1, LeastElement
<1> DEFINE Shortest == {f \in Before : Len(held[f]) = n}
<1>4. PICK f \in Shortest : \A h \in Shortest : f <= h
  <2>1. Shortest \in SUBSET Nat /\ Shortest # {}
    BY <1>1, <1>3
  <2> HIDE DEF Shortest
  <2> QED BY <2>1, LeastElement
<1>5. ASSUME NEW h \in listed \ {f}, Prefix(h, f), ~(Len(held[h]) = Len(held[f]) /\ f < h)
      PROVE  FALSE
  <2>1. Prefix(h, g)
    BY <1>1, <1>4, <1>5, PrefixTransitive
  <2>2. Len(held[h]) <= n /\ n <= Len(held[h])
    BY <1>3, <1>4, <1>5, <2>1 DEF Prefix
  <2>3. Len(held[h]) = n /\ Len(held[f]) = n
    BY <1>1, <1>3, <1>4, <1>5, <2>2
  <2>4. f <= h
    BY <1>4, <1>5, <2>1, <2>3
  <2> QED BY <1>1, <1>4, <1>5, <2>3, <2>4
<1>6. ~Redundant(f)
  BY <1>5 DEF Redundant
<1> QED BY <1>4, <1>6

LEMMA MarkInvInductive == MarkInv /\ [MNext]_mvars => MarkInv'
<1> SUFFICES ASSUME MarkInv, [MNext]_mvars PROVE MarkInv'
  OBVIOUS
<1>1. ASSUME UNCHANGED <<held, listed>>
      PROVE  \A g : Redundant(g)' <=> Redundant(g)
  BY <1>1 DEF Redundant, Prefix
<1>2. CASE ReadFiles
  BY <1>2 DEF ReadFiles, MarkInv, MTypeOK
<1>3. CASE Mark
  <2>1. \A g : Redundant(g)' <=> Redundant(g)
    BY <1>1, <1>3 DEF Mark
  <2> QED BY <1>3, <2>1 DEF Mark, MarkInv, MTypeOK
<1>4. CASE Remove
  <2>1. \A g : Redundant(g)' <=> Redundant(g)
    BY <1>1, <1>4 DEF Remove
  <2>2. CASE \E g \in toDelete :
                /\ there' = there \ {g} /\ toDelete' = toDelete \ {g}
                /\ UNCHANGED <<step, mresult>>
    BY <1>4, <2>1, <2>2 DEF Remove, MarkInv, MTypeOK
  <2>3. CASE step' = "returned" /\ mresult' = "err" /\ UNCHANGED <<there, toDelete>>
    BY <1>4, <2>1, <2>3 DEF Remove, MarkInv, MTypeOK
  <2>4. CASE /\ toDelete = {} /\ step' = "returned" /\ mresult' = "nil"
             /\ UNCHANGED <<there, toDelete>>
    BY <1>4, <2>1, <2>4 DEF Remove, MarkInv, MTypeOK
  <2> QED BY <1>4, <2>2, <2>3, <2>4 DEF Remove
<1>5. CASE UNCHANGED mvars
  <2>1. \A g : Redundant(g)' <=> Redundant(g)
    BY <1>1, <1>5 DEF mvars
  <2> QED BY <1>5, <2>1 DEF mvars, MarkInv, MTypeOK
<1> QED BY <1>2, <1>3, <1>4, <1>5 DEF MNext

LEMMA MarkInvHolds == MSpec => []MarkInv
<1>1. MInit => MarkInv
  BY DEF MInit, MarkInv, MTypeOK, Names
<1> QED BY <1>1, MarkInvInductive, PTL DEF MSpec

\* Every file that minimizeCorpus has read keeps a prefix in the directory, at every
\* step of the removal, and no other file is touched.
THEOREM CorpusKeepsPrefixes == MSpec => []PrefixesSurvive
<1>1. MarkInv => PrefixesSurvive
  <2> SUFFICES ASSUME MarkInv, NEW g \in DOMAIN held
               PROVE  IF g \in listed THEN \E f \in listed \cap there : Prefix(f, g)
                                      ELSE g \in there
    BY DEF PrefixesSurvive
  <2>1. CASE g \in listed
    <3>1. PICK f \in listed : Prefix(f, g) /\ ~Redundant(f)
      BY <2>1, FirstPrefixStays DEF MarkInv
    <3>2. f \in there
      BY <3>1 DEF MarkInv, MTypeOK
    <3> QED BY <2>1, <3>1, <3>2
  <2>2. CASE g \notin listed
    BY <2>2 DEF MarkInv
  <2> QED BY <2>1, <2>2
<1> QED BY <1>1, MarkInvHolds, PTL

\* After a run without an error no file is a prefix of another.
THEOREM CorpusIsMinimal == MSpec => []Minimal
<1>1. MarkInv => Minimal
  <2> SUFFICES ASSUME MarkInv, mresult = "nil", NEW f \in listed \cap there,
                      NEW g \in listed \cap there, Prefix(f, g), f # g
               PROVE  FALSE
    BY DEF Minimal
  <2>1. ~Redundant(f) /\ ~Redundant(g)
    BY DEF MarkInv
  <2>2. f \in DOMAIN held /\ g \in DOMAIN held
    BY DEF MarkInv, MTypeOK
  <2>3. f \in Nat /\ g \in Nat
    BY <2>2, HeldType DEF MarkInv
  <2>4. Len(held[f]) = Len(held[g]) /\ g < f
    BY <2>1, <2>3 DEF Redundant
  <2>5. Prefix(g, f)
    BY <2>4 DEF Prefix
  <2> QED BY <2>1, <2>3, <2>4, <2>5 DEF Redundant
<1> QED BY <1>1, MarkInvHolds, PTL

-----------------------------------------------------------------------------
(* The tests of run.                                                       *)

\* A piece is in its file, or a worker is still to write it.
Covered(t, k) ==
    \/ k \in content[t]
    \/ \E w \in Workers : test[w] = t /\ pc[w] = "write" /\ piece[w] <= k

Underway(t) == \E w \in Workers : test[w] = t /\ pc[w] \in {"stat", "open"}

\* A test nobody failed to store has its file, with every piece covered, or somebody
\* is about to create it.
CoverInv ==
    /\ exists \subseteq given
    /\ \A t \in given \ failed :
          /\ t \in exists => \A k \in 1..Pieces : Covered(t, k)
          /\ t \notin exists => Underway(t)

USE PieceAssumption, NullAssumption

-----------------------------------------------------------------------------
\* The part of the type invariant that concerns one worker's locals.
LocalsOK ==
    /\ pc \in [Workers -> {"idle", "stat", "open", "write"}]
    /\ test \in [Workers -> Tests \cup {NULL}]
    /\ \A w \in Workers : pc[w] = "idle" <=> test[w] = NULL

LEMMA ReturnLocals ==
    ASSUME LocalsOK, NEW w \in Workers, Return(w)
    PROVE  LocalsOK' /\ piece' = piece
BY DEF LocalsOK, Return

LEMMA GotoLocals ==
    ASSUME LocalsOK, NEW w \in Workers, pc[w] # "idle", UNCHANGED test,
           NEW where \in {"stat", "open", "write"}, pc' = [pc EXCEPT ![w] = where]
    PROVE  LocalsOK'
BY DEF LocalsOK

LEMMA WorkerHasTest ==
    ASSUME TypeOK, NEW w \in Workers, pc[w] # "idle"
    PROVE  test[w] \in Tests
BY DEF TypeOK

\* What the code does with a test, it was given before.
GivenInv == \A w \in Workers : test[w] # NULL => test[w] \in given

LEMMA GiveUpTyped ==
    ASSUME TypeOK, GivenInv, NEW w \in Workers, pc[w] # "idle", GiveUp(w),
           UNCHANGED given
    PROVE  TypeOK' /\ GivenInv'
<1>1. LocalsOK' /\ piece' = piece
  BY ReturnLocals DEF GiveUp, TypeOK, LocalsOK
<1>2. test[w] \in given
  BY DEF GivenInv, TypeOK
<1>3. GivenInv'
  BY DEF GivenInv, GiveUp, Return, TypeOK
<1> QED BY <1>1, <1>2, <1>3 DEF TypeOK, LocalsOK, GiveUp, files

LEMMA TypeStep == TypeOK /\ GivenInv /\ [Next]_vars => TypeOK' /\ GivenInv'
<1> SUFFICES ASSUME TypeOK, GivenInv, [Next]_vars PROVE TypeOK' /\ GivenInv'
  OBVIOUS
<1>a. LocalsOK
  BY DEF TypeOK, LocalsOK
<1>1. ASSUME NEW w \in Workers, Fuzz(w) PROVE TypeOK' /\ GivenInv'
  <2>1. PICK t \in Tests : test' = [test EXCEPT ![w] = t] /\ given' = given \cup {t}
    BY <1>1 DEF Fuzz
  <2>2. LocalsOK'
    BY <1>a, <1>1, <2>1 DEF LocalsOK, Fuzz
  <2>3. GivenInv'
    BY <2>1 DEF GivenInv, TypeOK
  <2>4. given' \subseteq Tests /\ dups' \subseteq given' /\ failed' \subseteq given'
    BY <1>1, <2>1 DEF TypeOK, Fuzz
  <2> QED BY <1>1, <2>2, <2>3, <2>4 DEF TypeOK, LocalsOK, Fuzz, files
<1>2. ASSUME NEW w \in Workers, Stat(w) PROVE TypeOK' /\ GivenInv'
  <2>1. pc[w] # "idle" /\ test[w] \in given /\ UNCHANGED given
    BY <1>2 DEF Stat, GivenInv, TypeOK
  <2>2. CASE Fail(w, "stat")
    BY <2>1, <2>2, GiveUpTyped DEF Fail
  <2>3. CASE Return(w) /\ dups' = dups \cup {test[w]} /\ UNCHANGED <<files, failed>>
    <3>1. LocalsOK' /\ piece' = piece
      BY <1>a, <2>3, ReturnLocals
    <3>2. GivenInv'
      BY <2>1, <2>3 DEF GivenInv, Return, TypeOK
    <3> QED BY <2>1, <2>3, <3>1, <3>2 DEF TypeOK, LocalsOK, files
  <2>4. CASE Goto(w, "open") /\ UNCHANGED <<files, dups, failed>>
    <3>1. LocalsOK' /\ piece' = piece
      BY <1>a, <2>1, <2>4, GotoLocals DEF Goto
    <3>2. GivenInv'
      BY <2>1, <2>4 DEF GivenInv, Goto
    <3> QED BY <2>1, <2>4, <3>1, <3>2 DEF TypeOK, LocalsOK, files
  <2> QED BY <1>2, <2>2, <2>3, <2>4 DEF Stat
<1>3. ASSUME NEW w \in Workers, Open(w) PROVE TypeOK' /\ GivenInv'
  <2>1. pc[w] # "idle" /\ test[w] \in Tests /\ UNCHANGED given
    BY <1>3, WorkerHasTest DEF Open
  <2>2. CASE Fail(w, "open")
    BY <2>1, <2>2, GiveUpTyped DEF Fail
  <2>3. CASE ~Fail(w, "open")
    <3>1. /\ exists' = exists \cup {test[w]} /\ content' = [content EXCEPT ![test[w]] = {}]
          /\ pc' = [pc EXCEPT ![w] = "write"] /\ piece' = [piece EXCEPT ![w] = 1]
          /\ test' = test /\ dups' = dups /\ failed' = failed /\ given' = given
      BY <1>3, <2>3 DEF Open
    <3>2. LocalsOK'
      BY <1>a, <2>1, <3>1, GotoLocals
    <3>3. piece' \in [Workers -> 1..Pieces]
      BY <3>1 DEF TypeOK
    <3> QED BY <2>1, <3>1, <3>2, <3>3 DEF TypeOK, LocalsOK, GivenInv
  <2> QED BY <2>2, <2>3
<1>4. ASSUME NEW w \in Workers, Write(w) PROVE TypeOK' /\ GivenInv'
  <2>1. pc[w] # "idle" /\ test[w] \in Tests /\ UNCHANGED given
    BY <1>4, WorkerHasTest DEF Write
  <2>2. CASE Fail(w, "write")
    BY <2>1, <2>2, GiveUpTyped DEF Fail
  <2>3. CASE ~Fail(w, "write")
    <3>1. /\ content' = [content EXCEPT ![test[w]] = @ \cup {piece[w]}]
          /\ exists' = exists /\ dups' = dups /\ failed' = failed
          /\ IF piece[w] < Pieces
               THEN piece' = [piece EXCEPT ![w] = @ + 1] /\ UNCHANGED <<pc, test>>
               ELSE Return(w)
      BY <1>4, <2>3 DEF Write
    <3>2. content' \in [Tests -> SUBSET (1..Pieces)]
      BY <2>1, <3>1 DEF TypeOK
    <3>3. CASE piece[w] < Pieces
      <4>1. piece' \in [Workers -> 1..Pieces]
        BY <3>1, <3>3 DEF TypeOK
      <4> QED BY <2>1, <3>1, <3>2, <3>3, <4>1 DEF TypeOK, GivenInv
    <3>4. CASE ~(piece[w] < Pieces)
      <4>1. LocalsOK' /\ piece' = piece
        BY <1>a, <3>1, <3>4, ReturnLocals
      <4>2. GivenInv'
        BY <2>1, <3>1, <3>4 DEF GivenInv, Return, TypeOK
      <4> QED BY <2>1, <3>1, <3>2, <4>1, <4>2 DEF TypeOK, LocalsOK
    <3> QED BY <3>3, <3>4
  <2> QED BY <2>2, <2>3
<1>5. ASSUME NEW w \in Workers, Kill(w) PROVE TypeOK' /\ GivenInv'
  BY <1>5, GiveUpTyped DEF Kill, Fail
<1>6. CASE UNCHANGED vars
  BY <1>6 DEF vars, files, TypeOK, GivenInv
<1> QED BY <1>1, <1>2, <1>3, <1>4, <1>5, <1>6 DEF Next

LEMMA TypeInit == Init => TypeOK /\ GivenInv
BY DEF Init, TypeOK, GivenInv

-----------------------------------------------------------------------------
\* A worker other than w covers, or is about to create, what it did before.
LEMMA OthersKeepCovering ==
    ASSUME TypeOK, NEW w \in Workers, NEW t, NEW k,
           \A v \in Workers \ {w} : test'[v] = test[v] /\ pc'[v] = pc[v] /\ piece'[v] = piece[v],
           content[t] \subseteq content'[t], Covered(t, k),
           ~(test[w] = t /\ pc[w] = "write")
    PROVE  Covered(t, k)'
BY DEF Covered

LEMMA OthersUnderway ==
    ASSUME NEW w \in Workers, NEW t, Underway(t), test[w] # t,
           \A v \in Workers \ {w} : test'[v] = test[v] /\ pc'[v] = pc[v]
    PROVE  Underway(t)'
BY DEF Underway

LEMMA GiveUpCovered ==
    ASSUME TypeOK, CoverInv, NEW w \in Workers, GiveUp(w), UNCHANGED given
    PROVE  CoverInv'
<1>1. /\ \A v \in Workers \ {w} : test'[v] = test[v] /\ pc'[v] = pc[v] /\ piece'[v] = piece[v]
      /\ failed' = failed \cup {test[w]} /\ content' = content /\ exists' = exists
  BY DEF GiveUp, Return, files, TypeOK
<1>2. ASSUME NEW t \in given' \ failed' PROVE
         /\ t \in exists' => \A k \in 1..Pieces : Covered(t, k)'
         /\ t \notin exists' => Underway(t)'
  <2>1. t \in given \ failed /\ test[w] # t
    BY <1>1, <1>2
  <2> QED BY <1>1, <2>1, OthersKeepCovering, OthersUnderway DEF CoverInv
<1> QED BY <1>1, <1>2 DEF CoverInv

LEMMA CoverStep == TypeOK /\ GivenInv /\ CoverInv /\ [Next]_vars => CoverInv'
<1> SUFFICES ASSUME TypeOK, GivenInv, CoverInv, [Next]_vars PROVE CoverInv'
  OBVIOUS
<1>1. ASSUME NEW w \in Workers, Fuzz(w) PROVE CoverInv'
  <2>1. PICK t \in Tests : test' = [test EXCEPT ![w] = t] /\ given' = given \cup {t}
    BY <1>1 DEF Fuzz
  <2>2. /\ \A v \in Workers \ {w} : test'[v] = test[v] /\ pc'[v] = pc[v] /\ piece'[v] = piece[v]
        /\ failed' = failed /\ content' = content /\ exists' = exists
        /\ test[w] = NULL /\ pc[w] = "idle" /\ test'[w] = t /\ pc'[w] = "stat"
    BY <1>1, <2>1 DEF Fuzz, files, TypeOK
  <2>3. ASSUME NEW u \in given' \ failed' PROVE
           /\ u \in exists' => \A k \in 1..Pieces : Covered(u, k)'
           /\ u \notin exists' => Underway(u)'
    <3>1. CASE u \in exists
      <4>1. u \in given \ failed
        BY <2>2, <3>1 DEF CoverInv
      <4> QED BY <2>2, <3>1, <4>1, OthersKeepCovering DEF CoverInv
    <3>2. CASE u \notin exists /\ u = t
      BY <2>2, <3>2 DEF Underway
    <3>3. CASE u \notin exists /\ u # t
      <4>1. u \in given \ failed /\ u \in Tests
        BY <2>1, <2>2, <3>3 DEF TypeOK
      <4> QED BY <2>2, <3>3, <4>1, OthersUnderway, NullAssumption DEF CoverInv
    <3> QED BY <3>1, <3>2, <3>3
  <2> QED BY <2>1, <2>2, <2>3 DEF CoverInv
<1>2. ASSUME NEW w \in Workers, Stat(w) PROVE CoverInv'
  <2>1. CASE Fail(w, "stat")
    BY <1>2, <2>1, GiveUpCovered DEF Stat, Fail
  <2>2. CASE test[w] \in exists /\ Return(w) /\ UNCHANGED <<files, failed>>
    <3>1. /\ \A v \in Workers \ {w} : test'[v] = test[v] /\ pc'[v] = pc[v] /\ piece'[v] = piece[v]
          /\ failed' = failed /\ content' = content /\ exists' = exists /\ given' = given
          /\ pc[w] = "stat"
      BY <1>2, <2>2 DEF Stat, Return, files, TypeOK
    <3>2. ASSUME NEW u \in given \ failed PROVE
             /\ u \in exists' => \A k \in 1..Pieces : Covered(u, k)'
             /\ u \notin exists' => Underway(u)'
      BY <2>2, <3>1, OthersKeepCovering, OthersUnderway DEF CoverInv
    <3> QED BY <3>1, <3>2 DEF CoverInv
  <2>3. CASE test[w] \notin exists /\ Goto(w, "open") /\ UNCHANGED <<files, failed>>
    <3>1. /\ \A v \in Workers \ {w} : test'[v] = test[v] /\ pc'[v] = pc[v] /\ piece'[v] = piece[v]
          /\ failed' = failed /\ content' = content /\ exists' = exists /\ given' = given
          /\ pc[w] = "stat" /\ pc'[w] = "open" /\ test'[w] = test[w]
      BY <1>2, <2>3 DEF Stat, Goto, files, TypeOK
    <3>2. ASSUME NEW u \in given \ failed, u \in exists PROVE \A k \in 1..Pieces : Covered(u, k)'
      BY <3>1, <3>2, OthersKeepCovering DEF CoverInv
    <3>3. ASSUME NEW u \in given \ failed, u \notin exists PROVE Underway(u)'
      <4>1. PICK v \in Workers : test[v] = u /\ pc[v] \in {"stat", "open"}
        BY <3>3 DEF CoverInv, Underway
      <4> QED BY <3>1, <4>1 DEF Underway
    <3> QED BY <3>1, <3>2, <3>3 DEF CoverInv
  <2> QED BY <1>2, <2>1, <2>2, <2>3 DEF Stat
<1>3. ASSUME NEW w \in Workers, Open(w) PROVE CoverInv'
  <2>1. CASE Fail(w, "open")
    BY <1>3, <2>1, GiveUpCovered DEF Open, Fail
  <2>2. CASE ~Fail(w, "open")
    <3>1. /\ exists' = exists \cup {test[w]} /\ content' = [content EXCEPT ![test[w]] = {}]
          /\ pc' = [pc EXCEPT ![w] = "write"] /\ piece' = [piece EXCEPT ![w] = 1]
          /\ test' = test /\ failed' = failed /\ given' = given /\ pc[w] = "open"
      BY <1>3, <2>2 DEF Open
    <3>2. /\ \A v \in Workers \ {w} : test'[v] = test[v] /\ pc'[v] = pc[v] /\ piece'[v] = piece[v]
          /\ pc'[w] = "write" /\ piece'[w] = 1 /\ test[w] \in given
      BY <3>1, NullAssumption DEF TypeOK, GivenInv
    <3>3. ASSUME NEW u \in given \ failed PROVE
             /\ u \in exists' => \A k \in 1..Pieces : Covered(u, k)'
             /\ u \notin exists' => Underway(u)'
      <4>1. CASE u = test[w]
        BY <3>1, <3>2, <4>1 DEF Covered
      <4>2. CASE u # test[w]
        <5>1. content'[u] = content[u]
          BY <3>1, <4>2 DEF TypeOK
        <5> QED BY <3>1, <3>2, <4>2, <5>1, OthersKeepCovering, OthersUnderway DEF CoverInv
      <4> QED BY <4>1, <4>2
    <3> QED BY <3>1, <3>2, <3>3 DEF CoverInv
  <2> QED BY <2>1, <2>2
<1>4. ASSUME NEW w \in Workers, Write(w) PROVE CoverInv'
  <2>1. CASE Fail(w, "write")
    BY <1>4, <2>1, GiveUpCovered DEF Write, Fail
  <2>2. CASE ~Fail(w, "write")
    <3>1. /\ content' = [content EXCEPT ![test[w]] = @ \cup {piece[w]}]
          /\ exists' = exists /\ failed' = failed /\ given' = given /\ pc[w] = "write"
          /\ IF piece[w] < Pieces
               THEN piece' = [piece EXCEPT ![w] = @ + 1] /\ UNCHANGED <<pc, test>>
               ELSE Return(w)
      BY <1>4, <2>2 DEF Write
    <3>2. \A v \in Workers \ {w} : test'[v] = test[v] /\ pc'[v] = pc[v] /\ piece'[v] = piece[v]
      BY <3>1 DEF Return, TypeOK
    <3>3. /\ test[w] \in Tests /\ piece[w] \in content'[test[w]]
          /\ \A u \in Tests : content[u] \subseteq content'[u]
      BY <3>1, WorkerHasTest DEF TypeOK
    <3>4. ASSUME NEW u \in given \ failed, u \in exists, NEW k \in 1..Pieces PROVE Covered(u, k)'
      <4>1. Covered(u, k) /\ u \in Tests
        BY <3>4 DEF CoverInv, TypeOK
      <4>2. CASE u # test[w]
        BY <3>2, <3>3, <4>1, <4>2, OthersKeepCovering
      <4>3. CASE u = test[w] /\ k = piece[w]
        BY <3>3, <4>3 DEF Covered
      <4>4. CASE u = test[w] /\ piece[w] < k
        <5>1. piece[w] < Pieces /\ piece[w] + 1 <= k
          BY <3>4, <4>4 DEF TypeOK
        <5>2. pc'[w] = "write" /\ test'[w] = u /\ piece'[w] <= k
          BY <3>1, <4>4, <5>1 DEF TypeOK
        <5> QED BY <5>2 DEF Covered
      <4>5. CASE u = test[w] /\ k < piece[w]
        <5>1. CASE k \in content[u]
          BY <3>3, <4>1, <5>1 DEF Covered
        <5>2. CASE k \notin content[u]
          <6>1. PICK v \in Workers : test[v] = u /\ pc[v] = "write" /\ piece[v] <= k
            BY <4>1, <5>2 DEF Covered
          <6>2. v # w
            BY <4>5, <6>1 DEF TypeOK
          <6> QED BY <3>2, <6>1, <6>2 DEF Covered
        <5> QED BY <5>1, <5>2
      <4>6. k < piece[w] \/ k = piece[w] \/ piece[w] < k
        BY DEF TypeOK
      <4> QED BY <4>2, <4>3, <4>4, <4>5, <4>6
    <3>5. ASSUME NEW u \in given \ failed, u \notin exists PROVE Underway(u)'
      <4>1. PICK v \in Workers : test[v] = u /\ pc[v] \in {"stat", "open"}
        BY <3>5 DEF CoverInv, Underway
      <4> QED BY <3>1, <3>2, <4>1 DEF Underway
    <3> QED BY <3>1, <3>4, <3>5 DEF CoverInv
  <2> QED BY <2>1, <2>2
<1>5. ASSUME NEW w \in Workers, Kill(w) PROVE CoverInv'
  BY <1>5, GiveUpCovered DEF Kill, Fail
<1>6. CASE UNCHANGED vars
  BY <1>6 DEF vars, files, CoverInv, Covered, Underway
<1> QED BY <1>1, <1>2, <1>3, <1>4, <1>5, <1>6 DEF Next

\* A file, once created, stays: what was called a duplicate has one.
DupsExist == dups \subseteq exists

LEMMA DupsStep == TypeOK /\ DupsExist /\ [Next]_vars => DupsExist'
<1> SUFFICES ASSUME TypeOK, DupsExist, [Next]_vars PROVE exists \subseteq exists' /\ dups' \subseteq exists
  BY DEF DupsExist
<1>1. ASSUME NEW w \in Workers, Fuzz(w) \/ Open(w) \/ Write(w) \/ Kill(w)
      PROVE  exists \subseteq exists' /\ dups' = dups
  BY <1>1 DEF Fuzz, Open, Write, Kill, Fail, GiveUp, files
<1>2. ASSUME NEW w \in Workers, Stat(w)
      PROVE  exists' = exists /\ dups' \subseteq dups \cup {test[w]}
             /\ (dups' = dups \/ test[w] \in exists)
  BY <1>2 DEF Stat, Fail, GiveUp, files
<1>3. CASE UNCHANGED vars
  BY <1>3 DEF vars, files, DupsExist
<1> QED BY <1>1, <1>2, <1>3 DEF Next, DupsExist

-----------------------------------------------------------------------------
(* run, which the workers of the store are a part of.                      *)

StoreInv == TypeOK /\ GivenInv /\ CoverInv /\ DupsExist

\* The end of the fuzzer is the end of all its workers, whatever they were at.
LEMMA FuzzerEndsStep == StoreInv /\ FuzzerEnds => StoreInv'
<1> SUFFICES ASSUME StoreInv, FuzzerEnds PROVE StoreInv'
  OBVIOUS
<1> DEFINE lost == {test[w] : w \in {v \in Workers : pc[v] # "idle"}}
<1>1. /\ pc' = [w \in Workers |-> "idle"] /\ test' = [w \in Workers |-> NULL]
      /\ failed' = failed \cup lost /\ piece' = piece /\ exists' = exists
      /\ content' = content /\ given' = given /\ dups' = dups
  BY DEF FuzzerEnds, files
<1>2. lost \subseteq given
  BY DEF StoreInv, TypeOK, GivenInv
<1>3. \A w \in Workers : test[w] \in lost \/ pc[w] = "idle"
  OBVIOUS
<1> HIDE DEF lost
<1>4. TypeOK' /\ GivenInv'
  BY <1>1, <1>2 DEF StoreInv, TypeOK, GivenInv
<1>5. ASSUME NEW t \in given' \ failed'
      PROVE  t \in exists' /\ \A k \in 1..Pieces : Covered(t, k)'
  <2>1. t \in given \ failed /\ t \notin lost
    BY <1>1, <1>5
  <2>2. ~Underway(t) /\ \A k \in 1..Pieces : Covered(t, k) => k \in content[t]
    BY <1>3, <2>1 DEF Underway, Covered
  <2> QED BY <1>1, <2>1, <2>2 DEF StoreInv, CoverInv, Covered
<1>6. CoverInv' /\ DupsExist'
  BY <1>1, <1>5 DEF StoreInv, CoverInv, DupsExist
<1> QED BY <1>4, <1>6 DEF StoreInv

\* A worker that finds no directory for its test gives up.
LEMMA NoDirectoryStep ==
    ASSUME StoreInv, NEW w \in Workers, NoDirectory(w)
    PROVE  StoreInv'
<1>1. pc[w] # "idle" /\ GiveUp(w) /\ given' = given /\ exists' = exists /\ dups' = dups
  BY DEF NoDirectory, GiveUp, files
<1> QED
  BY <1>1, GiveUpTyped, GiveUpCovered DEF StoreInv, DupsExist

LEMMA StoreStep == StoreInv /\ [FNext]_fvars => StoreInv'
<1> SUFFICES ASSUME StoreInv, [FNext]_fvars PROVE StoreInv'
  OBVIOUS
<1>1. CASE [Next]_vars
  BY <1>1, TypeStep, CoverStep, DupsStep DEF StoreInv
<1>2. CASE FuzzerEnds
  BY <1>2, FuzzerEndsStep
<1>3. CASE \E w \in Workers : NoDirectory(w)
  BY <1>3, NoDirectoryStep
<1>4. CASE EnsureDir \/ DirsDone \/ StartGenerator \/ RunAgain
  BY <1>1, <1>4 DEF EnsureDir, DirsDone, StartGenerator, RunAgain, store
<1>5. CASE \E w \in Workers : LookForDir(w) \/ MakeDir(w) \/ Work(w) \/ KillWorker(w)
  BY <1>1, <1>5 DEF LookForDir, MakeDir, Work, KillWorker, store, Next
<1>6. CASE cmd # "run" \/ UNCHANGED fvars
  BY <1>1, <1>6 DEF FNext, fvars, store
<1> QED BY <1>2, <1>3, <1>4, <1>5, <1>6 DEF FNext, Run

LEMMA StoreInvHolds == FSpec => []StoreInv
<1>1. FInit => StoreInv
  <2>1. Init => CoverInv /\ DupsExist
    BY DEF Init, CoverInv, DupsExist
  <2> QED BY <2>1, TypeInit DEF FInit, StoreInv
<1> QED BY <1>1, StoreStep, PTL DEF FSpec

\* However the workers race for a file, and whenever the fuzzer ends, a test that nobody
\* failed to store is complete once nobody works on it.
THEOREM RacingWritersComplete == FSpec => []CompleteWhenQuiet
<1>1. StoreInv => CompleteWhenQuiet
  <2> SUFFICES ASSUME TypeOK, CoverInv, NEW t \in given \ failed,
                      \A w \in Workers : test[w] # t
               PROVE  Complete(t)
    BY DEF CompleteWhenQuiet, StoreInv
  <2>1. t \in exists /\ \A k \in 1..Pieces : k \in content[t]
    BY DEF CoverInv, Covered, Underway
  <2>2. content[t] \subseteq 1..Pieces
    BY DEF TypeOK
  <2> QED BY <2>1, <2>2 DEF Complete
<1> QED BY <1>1, StoreInvHolds, PTL

\* What storeTest calls a duplicate is there: complete, or with its file in the hands of a
\* worker that goes on, unless somebody failed to store it.
THEOREM DuplicatesAreThere == FSpec => []DuplicatesArePresent
<1>1. StoreInv => DuplicatesArePresent
  <2> SUFFICES ASSUME TypeOK, CoverInv, DupsExist, NEW t \in dups \ failed,
                      ~\E w \in Workers : test[w] = t /\ pc[w] = "write"
               PROVE  Complete(t)
    BY DEF DuplicatesArePresent, StoreInv
  <2>1. t \in exists /\ \A k \in 1..Pieces : k \in content[t]
    BY DEF TypeOK, CoverInv, DupsExist, Covered
  <2>2. content[t] \subseteq 1..Pieces
    BY <2>1 DEF TypeOK
  <2> QED BY <2>1, <2>2 DEF Complete
<1> QED BY <1>1, StoreInvHolds, PTL

-----------------------------------------------------------------------------
(* The directories.                                                        *)

\* Workers live while the fuzzer runs, and store tests when they have been through
\* their init.
RunTypeOK ==
    /\ cmd \in {"corpus", "minCorpus", "run"}
    /\ phase \in {"dirs", "start", "init", "wait", "returned"}
    /\ next \in 1..(LastDir + 1) /\ dirs \subseteq 1..LastDir
    /\ wnext \in [Workers -> NotStarted..(LastDir + 1)] /\ missing \subseteq Workers
    /\ cut \subseteq {"run", "child"} \cup Workers
    /\ \A w \in Workers : /\ phase # "wait" => pc[w] = "idle" /\ wnext[w] = NotStarted
                          /\ pc[w] # "idle" => Started(w)
                          /\ w \in missing => ~Started(w)

\* A pass of ensureDirs that left nothing out has all directories behind it.
PassInv ==
    /\ "run" \notin cut =>
          /\ phase = "dirs" => 1..(next - 1) \subseteq dirs
          /\ phase \in {"start", "init", "wait"} => 1..LastDir \subseteq dirs
    /\ "child" \notin cut =>
          /\ phase = "init" => NotStarted..(next - 1) \subseteq dirs
          /\ phase = "wait" => NotStarted..LastDir \subseteq dirs
    /\ \A w \in Workers \ cut : NotStarted..(wnext[w] - 1) \subseteq dirs

RunInv == RunTypeOK /\ PassInv

LEMMA LastDirType ==
    /\ LastDir \in Nat /\ NotStarted = 3 /\ NotStarted <= LastDir
    /\ \A t \in Tests : ShardDir(ShardOf[t]) \in NotStarted..LastDir
BY ShardAssumption DEF LastDir, ShardDir, NotStarted

\* A pass of run or of the child advances.
LEMMA EnsureDirStep == RunInv /\ EnsureDir => RunInv'
<1> SUFFICES ASSUME RunInv, EnsureDir PROVE RunInv'
  OBVIOUS
<1> USE LastDirType DEF RunInv, NextDir, PassOver
<1>1. /\ phase \in {"dirs", "init"} /\ next \in 1..LastDir
      /\ UNCHANGED <<cmd, wnext, missing, pc>>
  BY DEF EnsureDir, store, vars, RunTypeOK
<1>2. /\ dirs \subseteq dirs' /\ dirs' \subseteq dirs \cup {next}
      /\ cut \subseteq cut' /\ cut' \subseteq cut \cup {Pass}
  BY DEF EnsureDir
<1>3. \/ next' = next + 1 /\ phase' = phase /\ (next \in dirs' \/ Pass \in cut')
      \/ /\ next' = next /\ phase' = IF phase = "dirs" THEN "start" ELSE "wait"
         /\ Pass \in cut'
  BY DEF EnsureDir
<1>4. Pass \in {"run", "child"} /\ (phase = "dirs" <=> Pass = "run")
  BY DEF Pass
<1>5. RunTypeOK'
  <2>1. next' \in 1..(LastDir + 1) /\ dirs' \subseteq 1..LastDir
        /\ cut' \subseteq {"run", "child"} \cup Workers /\ phase' \in {"dirs", "start", "init", "wait"}
    BY <1>1, <1>2, <1>3, <1>4 DEF RunTypeOK
  <2>2. \A w \in Workers : pc'[w] = "idle" /\ wnext'[w] = NotStarted
    BY <1>1 DEF RunTypeOK
  <2>3. \A w \in Workers : ~Started(w)'
    BY <2>2 DEF Started
  <2> QED BY <1>1, <2>1, <2>2, <2>3 DEF RunTypeOK
<1>6. PassInv'
  <2>1. CASE next' = next + 1 /\ phase' = phase /\ (next \in dirs' \/ Pass \in cut')
    <3>1. /\ 1..(next' - 1) \subseteq 1..(next - 1) \cup {next}
          /\ NotStarted..(next' - 1) \subseteq NotStarted..(next - 1) \cup {next}
      BY <1>1, <2>1
    <3> QED BY <1>1, <1>2, <1>4, <2>1, <3>1 DEF PassInv
  <2>2. CASE /\ next' = next /\ phase' = IF phase = "dirs" THEN "start" ELSE "wait"
             /\ Pass \in cut'
    BY <1>1, <1>2, <1>4, <2>2 DEF PassInv
  <2> QED BY <1>3, <2>1, <2>2
<1> QED BY <1>5, <1>6

LEMMA DirsDoneStep == RunInv /\ DirsDone => RunInv'
<1> SUFFICES ASSUME RunInv, DirsDone PROVE RunInv'
  OBVIOUS
<1> USE LastDirType DEF RunInv
<1>1. /\ phase \in {"dirs", "init"} /\ next > LastDir
      /\ phase' = IF phase = "dirs" THEN "start" ELSE "wait"
      /\ UNCHANGED <<cmd, next, wnext, missing, dirs, cut, pc>>
  BY DEF DirsDone, PassOver, store, vars
<1>2. RunTypeOK'
  BY <1>1 DEF RunTypeOK, Started
<1>3. 1..LastDir \subseteq 1..(next - 1) /\ NotStarted..LastDir \subseteq NotStarted..(next - 1)
  BY <1>1 DEF RunTypeOK
<1> QED BY <1>1, <1>2, <1>3 DEF PassInv

LEMMA StartStep == RunInv /\ (StartGenerator \/ FuzzerEnds \/ RunAgain) => RunInv'
<1> SUFFICES ASSUME RunInv, StartGenerator \/ FuzzerEnds \/ RunAgain PROVE RunInv'
  OBVIOUS
<1> USE LastDirType DEF RunInv
<1>1. CASE StartGenerator
  <2>1. /\ phase = "start" /\ UNCHANGED <<cmd, wnext, missing, dirs, cut, pc>>
        /\ \/ phase' = "init" /\ next' = NotStarted
           \/ phase' = "returned" /\ next' = next
    BY <1>1 DEF StartGenerator, store, vars, NotStarted
  <2>2. NotStarted..(NotStarted - 1) = {}
    OBVIOUS
  <2> QED BY <2>1, <2>2 DEF RunTypeOK, PassInv, Started
<1>2. CASE FuzzerEnds
  <2>1. /\ phase' = "returned" /\ wnext' = [w \in Workers |-> NotStarted] /\ missing' = {}
        /\ pc' = [w \in Workers |-> "idle"] /\ UNCHANGED <<cmd, next, dirs, cut>>
    BY <1>2 DEF FuzzerEnds
  <2>2. NotStarted..(NotStarted - 1) = {}
    OBVIOUS
  <2> QED BY <2>1, <2>2 DEF RunTypeOK, PassInv
<1>3. CASE RunAgain
  <2>1. /\ phase = "returned" /\ phase' = "dirs" /\ next' = 1 /\ cut' = {}
        /\ UNCHANGED <<cmd, wnext, missing, dirs, pc>>
    BY <1>3 DEF RunAgain, store, vars
  <2>2. 1..(1 - 1) = {} /\ NotStarted..(NotStarted - 1) = {}
    OBVIOUS
  <2> QED BY <2>1, <2>2 DEF RunTypeOK, PassInv, Started
<1> QED BY <1>1, <1>2, <1>3

\* The init of a worker advances.
LEMMA LookForDirStep ==
    ASSUME RunInv, NEW w \in Workers, LookForDir(w)
    PROVE  RunInv'
<1> USE LastDirType DEF RunInv
<1>1. PICK dir \in wnext[w]..(LastDir + 1) :
         /\ wnext' = [wnext EXCEPT ![w] = dir]
         /\ missing' = IF dir <= LastDir THEN missing \cup {w} ELSE missing
         /\ cut' = IF wnext[w]..(dir - 1) \subseteq dirs THEN cut ELSE cut \cup {w}
  BY DEF LookForDir
<1>2. phase = "wait" /\ ~Started(w) /\ w \notin missing /\ UNCHANGED <<cmd, phase, next, dirs, pc>>
  BY DEF LookForDir, store, vars
<1>3. wnext[w] \in NotStarted..(LastDir + 1) /\ dir \in NotStarted..(LastDir + 1)
  BY <1>1 DEF RunTypeOK
<1>4. RunTypeOK'
  <2>1. wnext' \in [Workers -> NotStarted..(LastDir + 1)] /\ missing' \subseteq Workers
        /\ cut' \subseteq {"run", "child"} \cup Workers
    BY <1>1, <1>3 DEF RunTypeOK
  <2>2. \A v \in Workers : /\ pc'[v] # "idle" => Started(v)'
                           /\ v \in missing' => ~Started(v)'
    BY <1>1, <1>2, <1>3 DEF RunTypeOK, Started
  <2> QED BY <1>2, <2>1, <2>2 DEF RunTypeOK
<1>5. w \notin cut' => NotStarted..(dir - 1) \subseteq dirs
  <2>1. NotStarted..(dir - 1) \subseteq NotStarted..(wnext[w] - 1) \cup wnext[w]..(dir - 1)
    BY <1>3
  <2> QED BY <1>1, <2>1 DEF PassInv
<1>6. wnext'[w] = dir /\ \A v \in Workers \ {w} : wnext'[v] = wnext[v]
  BY <1>1 DEF RunTypeOK
<1>7. cut \subseteq cut'
  BY <1>1
<1> QED BY <1>2, <1>4, <1>5, <1>6, <1>7 DEF PassInv

LEMMA MakeDirStep ==
    ASSUME RunInv, NEW w \in Workers, MakeDir(w)
    PROVE  RunInv'
<1> USE LastDirType DEF RunInv
<1>1. /\ phase = "wait" /\ w \in missing /\ missing' = missing \ {w}
      /\ UNCHANGED <<cmd, phase, next, pc>>
  BY DEF MakeDir, store, vars
<1>2. \/ /\ dirs' = dirs \cup {wnext[w]} /\ cut' = cut
         /\ wnext' = [wnext EXCEPT ![w] = wnext[w] + 1]
      \/ /\ dirs' = dirs /\ cut' = cut \cup {w}
         /\ wnext' = [wnext EXCEPT ![w] = LastDir + 1]
  BY DEF MakeDir
<1>3. wnext[w] \in NotStarted..LastDir /\ pc[w] = "idle"
  BY <1>1 DEF RunTypeOK, Started
<1>4. RunTypeOK'
  <2>0. /\ wnext[w] + 1 \in NotStarted..(LastDir + 1) /\ LastDir + 1 \in NotStarted..(LastDir + 1)
        /\ wnext[w] \in 1..LastDir
    BY <1>3
  <2>1. wnext' \in [Workers -> NotStarted..(LastDir + 1)] /\ dirs' \subseteq 1..LastDir
        /\ cut' \subseteq {"run", "child"} \cup Workers
    <3>1. wnext \in [Workers -> NotStarted..(LastDir + 1)] /\ dirs \subseteq 1..LastDir
          /\ cut \subseteq {"run", "child"} \cup Workers
      BY DEF RunTypeOK
    <3>2. wnext' \in [Workers -> NotStarted..(LastDir + 1)]
      BY <1>2, <2>0, <3>1
    <3>3. dirs' \subseteq 1..LastDir
      BY <1>2, <2>0, <3>1
    <3>4. cut' \subseteq {"run", "child"} \cup Workers
      BY <1>2, <3>1
    <3> QED BY <3>2, <3>3, <3>4
  <2>2. \A v \in Workers : /\ pc'[v] # "idle" => Started(v)'
                           /\ v \in missing' => ~Started(v)'
    BY <1>1, <1>2, <1>3 DEF RunTypeOK, Started
  <2> QED BY <1>1, <2>1, <2>2 DEF RunTypeOK
<1>5. w \notin cut' => NotStarted..(wnext'[w] - 1) \subseteq dirs'
  <2>1. NotStarted..(wnext[w] + 1 - 1) \subseteq NotStarted..(wnext[w] - 1) \cup {wnext[w]}
    BY <1>3
  <2> QED BY <1>2, <2>1 DEF PassInv, RunTypeOK
<1>6. \A v \in Workers \ {w} : wnext'[v] = wnext[v]
  BY <1>2 DEF RunTypeOK
<1>7. cut \subseteq cut' /\ dirs \subseteq dirs'
  BY <1>2
<1> QED BY <1>1, <1>4, <1>5, <1>6, <1>7 DEF PassInv

LEMMA WorkStep ==
    ASSUME TypeOK, RunInv, NEW w \in Workers, Work(w) \/ NoDirectory(w)
    PROVE  RunInv'
<1>1. phase = "wait" /\ UNCHANGED uvars /\ Started(w)
  BY DEF Work, NoDirectory, RunInv, RunTypeOK
<1>2. \A v \in Workers \ {w} : pc'[v] = pc[v]
  BY DEF Work, NoDirectory, Fuzz, Stat, Open, Write, Fail, GiveUp, Return, Goto, TypeOK
<1> QED BY <1>1, <1>2 DEF uvars, passVars, RunInv, RunTypeOK, PassInv, Started

\* The process that takes the place of a killed worker begins with its init.
LEMMA KillWorkerStep ==
    ASSUME TypeOK, RunInv, NEW w \in Workers, KillWorker(w)
    PROVE  RunInv'
<1> USE LastDirType DEF RunInv
<1>1. /\ phase = "wait" /\ pc[w] # "idle" /\ pc' = [pc EXCEPT ![w] = "idle"]
      /\ wnext' = [wnext EXCEPT ![w] = NotStarted] /\ cut' = cut \ {w}
      /\ UNCHANGED <<cmd, phase, next, missing, dirs>>
  BY DEF KillWorker, Kill, Fail, GiveUp, Return
<1>2. w \notin missing /\ w \notin {"run", "child"}
  BY <1>1, PassAssumption DEF RunTypeOK
<1>3. NotStarted..(NotStarted - 1) = {}
  OBVIOUS
<1>4. RunTypeOK'
  <2>1. wnext' \in [Workers -> NotStarted..(LastDir + 1)]
    BY <1>1 DEF RunTypeOK
  <2>2. \A v \in Workers : /\ pc'[v] # "idle" => Started(v)'
                           /\ v \in missing' => ~Started(v)'
    BY <1>1, <1>2 DEF RunTypeOK, Started, TypeOK
  <2> QED BY <1>1, <2>1, <2>2 DEF RunTypeOK
<1>5. wnext'[w] = NotStarted /\ \A v \in Workers \ {w} : wnext'[v] = wnext[v]
  BY <1>1 DEF RunTypeOK
<1> QED BY <1>1, <1>2, <1>3, <1>4, <1>5 DEF PassInv

LEMMA RunStep == TypeOK /\ RunInv /\ [FNext]_fvars => RunInv'
<1> SUFFICES ASSUME TypeOK, RunInv, [FNext]_fvars PROVE RunInv'
  OBVIOUS
<1>1. CASE Run
  BY <1>1, EnsureDirStep, DirsDoneStep, StartStep, LookForDirStep, MakeDirStep, WorkStep,
     KillWorkerStep DEF Run
<1>2. CASE UNCHANGED uvars /\ UNCHANGED store
  BY <1>2 DEF uvars, passVars, store, vars, RunInv, RunTypeOK, PassInv, Started
<1> QED BY <1>1, <1>2 DEF FNext, fvars

LEMMA RunInvHolds == FSpec => []RunInv
<1>1. FInit => RunInv
  <2>1. 1 \in 1..(LastDir + 1) /\ 1..(1 - 1) = {} /\ NotStarted..(NotStarted - 1) = {}
    BY LastDirType
  <2> QED BY <2>1, LastDirType DEF FInit, Init, RunInv, RunTypeOK, PassInv, Started
<1>2. StoreInv => TypeOK
  BY DEF StoreInv
<1> QED BY <1>1, <1>2, RunStep, StoreInvHolds, PTL DEF FSpec

\* A worker that is about to open a file in a directory that is not there has seen three
\* passes of ensureDirs leave one out: that of run, that of the child and its own. So it
\* takes more than one failing call, in the first run or in a later one, to lose a test.
THEOREM NoTestIsLost == FSpec => []NoTestLost
<1>1. TypeOK /\ RunInv => NoTestLost
  <2> SUFFICES ASSUME TypeOK, RunInv, NEW w \in Workers, pc[w] = "open", ~DirThere(test[w])
               PROVE  {"run", "child", w} \subseteq cut
    BY DEF NoTestLost
  <2>1. phase = "wait" /\ Started(w)
    BY DEF RunInv, RunTypeOK
  <2>2. ShardDir(ShardOf[test[w]]) \in (NotStarted..LastDir) \ dirs
    BY WorkerHasTest, LastDirType DEF DirThere
  <2>3. NotStarted..LastDir \subseteq 1..LastDir
    BY LastDirType
  <2>4. NotStarted..LastDir \subseteq NotStarted..(wnext[w] - 1)
    BY <2>1, LastDirType DEF Started, RunInv, RunTypeOK
  <2> QED BY <2>1, <2>2, <2>3, <2>4 DEF RunInv, PassInv
<1>2. StoreInv => TypeOK
  BY DEF StoreInv
<1> QED BY <1>1, <1>2, RunInvHolds, StoreInvHolds, PTL

-----------------------------------------------------------------------------
\* A process runs one command: what is proved of a command of the corpus holds of
\* the program.
THEOREM CorpusCommandsRunAlone == FSpec => CSpec /\ MSpec
<1>1. FInit => CInit /\ MInit
  BY DEF FInit
<1>2. [FNext]_fvars => [CNext]_cvars /\ [MNext]_mvars
  BY DEF FNext, fvars
<1> QED BY <1>1, <1>2, PTL DEF FSpec, CSpec, MSpec

\* Every variable of the program keeps its type, and there are workers only while the
\* fuzzer runs.
THEOREM TypeCorrect == FSpec => []FTypeOK
<1>1. MarkInv => MTypeOK
  BY DEF MarkInv
<1>2. StoreInv /\ RunInv /\ CorpusTypeOK /\ MTypeOK => FTypeOK
  BY DEF StoreInv, RunInv, RunTypeOK, FTypeOK
<1> QED
  BY <1>1, <1>2, StoreInvHolds, RunInvHolds, CorpusCommandsRunAlone, SearchIsBracketed,
     MarkInvHolds, PTL
=============================================================================
