-------------------------- MODULE MinimizerProofs --------------------------
(***************************************************************************)
(* The minimizer keeps what a program does, for every program, every       *)
(* behaviour of its prefixes and every size.                               *)
(***************************************************************************)
EXTENDS Minimizer, NatLemmas, SequenceTheorems, TLAPS

Limit == maxTraceSize - traceSizeMargin

\* While nothing is dropped, the buffer holds all that was written.
BufferInv ==
    ~overflow =>
      /\ buf = written /\ row * MinLine <= written
      /\ row > 0 => written <= Limit

\* A program that is searched was traced to its end.
ShortInv ==
    ((pc = "filled" /\ ~overflow) \/ pc = "search" \/ Minimized)
        => ~long(runs[code])

\* The bounds of the search: a prefix that differs, and one that does not.
SearchInv ==
    /\ lo > 0 => ~Same(lo - 1)
    /\ hi < code => Same(hi)

ResultInv ==
    Minimized => lo = hi /\ result = IF lo + Extra < code THEN lo + Extra ELSE lo

IInv == TypeOK /\ BufferInv /\ ShortInv /\ SearchInv /\ ResultInv

-----------------------------------------------------------------------------
\* A fitting trace has few steps, because each is a line.
LEMMA FewSteps ==
    ASSUME NEW n \in Nat, n * MinLine <= Limit
    PROVE  n <= maxTraceSteps
<1> SUFFICES ASSUME n > maxTraceSteps PROVE FALSE
  BY SizeAssumption
<1>1. n \in Nat /\ MinLine \in Nat /\ maxTraceSteps + 1 \in Nat /\ Limit \in Int
  BY SizeAssumption, LineAssumption DEF Limit
<1>2. PICK d \in Nat : n = (maxTraceSteps + 1) + d
  <2>1. n - (maxTraceSteps + 1) \in Nat /\ n = (maxTraceSteps + 1) + (n - (maxTraceSteps + 1))
    BY <1>1, SizeAssumption
  <2> QED BY <2>1
<1>3. n * MinLine = (MinLine * (maxTraceSteps + 1)) + (d * MinLine)
  BY <1>1, <1>2
<1>4. d * MinLine \in Nat /\ MinLine * (maxTraceSteps + 1) \in Nat
  BY <1>1, <1>2
<1> QED BY <1>1, <1>3, <1>4, LineAssumption DEF Limit

\* Equal sums are equal executions, when neither was cut off.
LEMMA SameIsEqual ==
    ASSUME NEW s \in Seq(Steps), NEW t \in Seq(Steps), ~long(s), ~long(t)
    PROVE  sum(s) = sum(t) <=> s = t
<1>1. Len(s) <= maxTraceSteps /\ Len(t) <= maxTraceSteps
  BY SizeAssumption, LenProperties DEF long
<1>2. sum(s) = s /\ sum(t) = t
  <2>1. sum(s) = SubSeq(s, 1, Len(s)) /\ sum(t) = SubSeq(t, 1, Len(t))
    BY <1>1, SizeAssumption, LenProperties DEF sum
  <2> QED BY <2>1, SubSeqFull
<1> QED BY <1>2

\* So the predicate of the search is equality with the program, once that was traced.
LEMMA SameMeansEqual ==
    ASSUME TypeOK, ~long(runs[code]), NEW n \in 0..code
    PROVE  Same(n) <=> runs[n] = runs[code]
<1>1. runs[n] \in Seq(Steps) /\ runs[code] \in Seq(Steps)
  BY DEF TypeOK
<1> QED BY <1>1, SameIsEqual DEF Same

LEMMA MidBetween ==
    ASSUME NEW i \in Nat, NEW j \in Nat, i < j
    PROVE  (i + j) \div 2 \in i..(j - 1)
OBVIOUS

-----------------------------------------------------------------------------
LEMMA InitHolds == Init => IInv
<1> SUFFICES ASSUME Init PROVE IInv
  OBVIOUS
<1> USE TraceAssumption, SizeAssumption, LineAssumption DEF Init
<1>1. code \in Nat /\ runs \in [0..code -> Seq(Steps)] /\ Len(runs[code]) \in Nat
  BY LenProperties
<1>2. TypeOK
  <2>1. row \in 0..Len(runs[code]) /\ written \in 0..maxTraceSize /\ buf \in 0..maxTraceSize
    BY <1>1
  <2>2. lo \in 0..code /\ hi \in lo..code /\ probes \in Nat /\ result \in 0..code
    BY <1>1
  <2>3. pc = "fill" /\ overflow = FALSE /\ err = "nil"
    OBVIOUS
  <2> HIDE DEF Init
  <2> QED BY <1>1, <2>1, <2>2, <2>3 DEF TypeOK
<1>3. BufferInv
  <2>1. row = 0 /\ written = 0 /\ buf = 0 /\ 0 * MinLine = 0
    OBVIOUS
  <2> QED BY <2>1 DEF BufferInv
<1>4. ShortInv /\ SearchInv /\ ResultInv
  BY <1>1 DEF ShortInv, SearchInv, ResultInv, Minimized
<1> QED BY <1>2, <1>3, <1>4 DEF IInv

\* Fill: one step, and the cut at the limit.
LEMMA FillStep == IInv /\ (FillLine \/ FillCut) => IInv'
<1> SUFFICES ASSUME IInv, FillLine \/ FillCut PROVE IInv'
  OBVIOUS
<1> USE SizeAssumption, LineAssumption
<1>1. UNCHANGED <<code, runs, searching, err, result>> /\ pc = "fill"
  BY DEF FillLine, FillCut
<1>2. code \in Nat /\ runs[code] \in Seq(Steps) /\ row \in 0..Len(runs[code])
      /\ written \in 0..maxTraceSize /\ buf \in 0..maxTraceSize /\ overflow \in BOOLEAN
  BY DEF IInv, TypeOK
<1>3. Len(runs[code]) \in Nat
  BY <1>2, LenProperties
<1>4. CASE FillLine
  <2>1. Line \in Nat /\ Line >= MinLine
    <3>1. runs[code][row + 1] \in Steps
      BY <1>2, <1>3, <1>4, ElementOfSeq, SMTT(30) DEF FillLine
    <3> QED BY <3>1 DEF Line
  <2>2. written' = written + Line /\ row' = row + 1 /\ pc' = pc /\ Write(Line)
        /\ written + Line <= maxTraceSize /\ row < Len(runs[code])
    BY <1>4 DEF FillLine
  <2>3. overflow' = TooMuch(Line) /\ buf' = IF TooMuch(Line) THEN buf ELSE buf + Line
    BY <2>2 DEF Write
  <2>4. TooMuch(Line) \in BOOLEAN
    BY <1>2 DEF TooMuch
  <2>5. ~overflow' => ~overflow /\ buf' = buf + Line /\ buf + Line <= Limit
    <3>1. TooMuch(Line) => overflow'
      BY <2>3
    <3>2. ~TooMuch(Line) => ~overflow /\ buf + Line <= Limit
      BY <2>1, <1>2, SizeAssumption DEF TooMuch, Limit
    <3> QED BY <3>1, <3>2, <2>3
  <2>6. BufferInv'
    <3>1. ASSUME ~overflow' PROVE buf = written /\ row * MinLine <= written
      BY <3>1, <2>5 DEF IInv, BufferInv
    <3>2. row * MinLine \in Nat /\ row' * MinLine = (row * MinLine) + MinLine
      BY <2>2, <1>2, <1>3
    <3>3. ASSUME ~overflow' PROVE buf' = written' /\ written' <= Limit
      BY <3>3, <3>1, <2>2, <2>5
    <3>4. ASSUME ~overflow' PROVE row' * MinLine <= written'
      <4> DEFINE k == row * MinLine
                 j == row' * MinLine
      <4>1. k \in Nat /\ j = k + MinLine /\ k <= written
        BY <3>1, <3>2, <3>4
      <4>2. written \in Nat /\ written' = written + Line /\ Line >= MinLine /\ Line \in Nat
        BY <2>1, <2>2, <1>2
      <4> HIDE DEF k, j
      <4>3. j <= written'
        BY <4>1, <4>2
      <4> QED BY <4>3 DEF j
    <3> QED BY <3>3, <3>4 DEF BufferInv
  <2>7. TypeOK'
    <3>1. row' \in 0..Len(runs[code]) /\ written' \in 0..maxTraceSize
      BY <2>1, <2>2, <1>2, <1>3
    <3>2. buf' \in 0..maxTraceSize /\ overflow' \in BOOLEAN
      BY <2>1, <2>3, <2>4, <1>2, SizeAssumption DEF TooMuch
    <3> QED BY <3>1, <3>2, <1>1, <2>2 DEF IInv, TypeOK, searching
  <2> QED BY <2>2, <2>6, <2>7, <1>1
          DEF IInv, ShortInv, SearchInv, ResultInv, Minimized, searching, Same
<1>5. CASE FillCut
  <2>1. PICK n \in 0..(maxTraceSize - written) :
           written + n > Limit /\ Write(n) /\ written' = written + n
    BY <1>5 DEF FillCut, Limit
  <2>2. pc' = "filled" /\ row' = row
    BY <1>5 DEF FillCut
  <2>3. TooMuch(n)
    BY <2>1, <1>2 DEF TooMuch, Limit, IInv, BufferInv
  <2>4. overflow' = TRUE /\ buf' = buf
    BY <2>1, <2>3 DEF Write
  <2>5. TypeOK'
    <3>1. written' \in 0..maxTraceSize
      BY <2>1, <1>2
    <3> QED BY <3>1, <1>1, <2>2, <2>4 DEF IInv, TypeOK, searching
  <2> QED BY <2>2, <2>4, <2>5, <1>1
          DEF IInv, BufferInv, ShortInv, SearchInv, ResultInv, Minimized, searching, Same
<1> QED BY <1>4, <1>5

\* The end of the trace, and the three early exits.
LEMMA ExitStep == IInv /\ (FillEnd \/ FillError \/ TooLarge \/ TooShort) => IInv'
<1> SUFFICES ASSUME IInv, FillEnd \/ FillError \/ TooLarge \/ TooShort PROVE IInv'
  OBVIOUS
<1> USE SizeAssumption
<1>1. UNCHANGED <<code, runs, filling, searching>>
  BY DEF FillEnd, FillError, TooLarge, TooShort
<1>2. TypeOK' /\ BufferInv' /\ SearchInv'
  BY <1>1, SMTT(30) DEF IInv, TypeOK, BufferInv, SearchInv, Same, filling, searching, Return,
              FillEnd, FillError, TooLarge, TooShort
<1>3. CASE FillEnd
  <2>1. ~overflow => Len(runs[code]) <= maxTraceSteps
    <3> SUFFICES ASSUME ~overflow PROVE row <= maxTraceSteps
      BY <1>3 DEF FillEnd
    <3>1. row \in Nat /\ (row = 0 \/ row * MinLine <= Limit)
      <4>1. row \in 0..Len(runs[code]) /\ runs[code] \in Seq(Steps) /\ written \in 0..maxTraceSize
        BY DEF IInv, TypeOK
      <4>2. row \in Nat /\ row * MinLine \in Nat /\ Limit \in Int
        BY <4>1, LenProperties, LineAssumption DEF Limit
      <4>3. row * MinLine <= written /\ (row > 0 => written <= Limit)
        BY DEF IInv, BufferInv
      <4> QED BY <4>1, <4>2, <4>3
    <3> QED BY <3>1, FewSteps
  <2>2. ~overflow => ~long(runs[code])
    <3>1. Len(runs[code]) \in Nat
      BY LenProperties DEF IInv, TypeOK
    <3> QED BY <2>1, <3>1 DEF long
  <2> QED BY <1>1, <1>2, <1>3, <2>2
          DEF IInv, ShortInv, ResultInv, FillEnd, Minimized, filling
<1>4. CASE FillError \/ TooLarge \/ TooShort
  <2>1. ~Minimized'
    BY <1>1, <1>4 DEF FillError, TooLarge, TooShort, Return, Minimized, IInv, TypeOK
  <2>2. pc' = "done"
    BY <1>4 DEF FillError, TooLarge, TooShort, Return
  <2> QED BY <1>2, <2>1, <2>2 DEF IInv, ShortInv, ResultInv
<1> QED BY <1>3, <1>4

LEMMA SearchStep == IInv /\ (StartSearch \/ Probe \/ Found) => IInv'
<1> SUFFICES ASSUME IInv, StartSearch \/ Probe \/ Found PROVE IInv'
  OBVIOUS
<1> USE SizeAssumption
<1>1. UNCHANGED <<code, runs, filling>>
  BY DEF StartSearch, Probe, Found
<1>2. code \in Nat /\ lo \in 0..code /\ hi \in lo..code /\ probes \in Nat
  BY DEF IInv, TypeOK
<1>3. CASE StartSearch
  <2>1. TypeOK' /\ BufferInv' /\ SearchInv'
    BY <1>1, <1>3 DEF StartSearch, IInv, TypeOK, BufferInv, SearchInv, Same, filling, searching
  <2>2. ShortInv' /\ ResultInv'
    BY <1>1, <1>3 DEF StartSearch, IInv, ShortInv, ResultInv, Minimized
  <2> QED BY <2>1, <2>2 DEF IInv
<1>4. CASE Probe
  <2>1. Mid \in lo..(hi - 1)
    BY <1>2, <1>4, MidBetween DEF Probe, Mid
  <2>2. lo' \in 0..code /\ hi' \in lo'..code /\ probes' \in Nat
    BY <1>2, <1>4, <2>1 DEF Probe
  <2>3. SearchInv'
    <3>1. CASE Same(Mid)
      <4>1. hi' = Mid /\ lo' = lo
        BY <1>4, <3>1 DEF Probe
      <4> QED BY <1>1, <3>1, <4>1 DEF IInv, SearchInv, Same
    <3>2. CASE ~Same(Mid)
      <4>1. hi' = hi /\ lo' = Mid + 1 /\ lo' - 1 = Mid
        BY <1>2, <1>4, <2>1, <3>2 DEF Probe
      <4> QED BY <1>1, <3>2, <4>1 DEF IInv, SearchInv, Same
    <3> QED BY <3>1, <3>2
  <2>4. TypeOK' /\ BufferInv'
    BY <1>1, <1>4, <2>2 DEF Probe, IInv, TypeOK, BufferInv, filling
  <2>5. ShortInv' /\ ResultInv'
    BY <1>1, <1>4 DEF Probe, IInv, ShortInv, ResultInv, Minimized
  <2> QED BY <2>3, <2>4, <2>5 DEF IInv
<1>5. CASE Found
  <2>1. pc' = "done" /\ err' = "nil" /\ lo = hi /\ UNCHANGED searching
        /\ result' = IF lo + Extra < code THEN lo + Extra ELSE lo
    BY <1>5 DEF Found, Return
  <2>2. result' \in 0..code
    BY <1>2, <2>1
  <2>3. TypeOK' /\ BufferInv' /\ SearchInv'
    BY <1>1, <2>1, <2>2 DEF IInv, TypeOK, BufferInv, SearchInv, Same, filling, searching
  <2>4. ShortInv'
    BY <1>1, <1>5 DEF Found, IInv, ShortInv
  <2>5. ResultInv'
    BY <1>1, <2>1 DEF ResultInv, searching
  <2> QED BY <2>3, <2>4, <2>5 DEF IInv
<1> QED BY <1>3, <1>4, <1>5

LEMMA Inductive == IInv /\ [Next]_vars => IInv'
<1> SUFFICES ASSUME IInv, [Next]_vars PROVE IInv'
  OBVIOUS
<1>1. CASE UNCHANGED vars
  BY <1>1 DEF vars, filling, searching, IInv, TypeOK, BufferInv, ShortInv, SearchInv,
              ResultInv, Minimized, Same
<1> QED BY <1>1, FillStep, ExitStep, SearchStep DEF Next, Terminated

LEMMA InvariantHolds == Spec => []IInv
BY InitHolds, Inductive, PTL DEF Spec

-----------------------------------------------------------------------------
\* Every variable of MinimizeProgram keeps its type: the prefix it returns is one of the
\* program, and the search does not leave the program.
THEOREM TypeCorrect == Spec => []TypeOK
<1>1. IInv => TypeOK
  BY DEF IInv
<1> QED BY <1>1, InvariantHolds, PTL

\* Where the search ends: a prefix that was executed and is the program's equal, behind one
\* that is not.
LEMMA FoundIsFirst ==
    ASSUME IInv, Minimized
    PROVE  /\ lo = code \/ runs[lo] = runs[code]
           /\ lo > 0 => runs[lo - 1] # runs[code]
<1>1. TypeOK /\ ~long(runs[code]) /\ lo = hi /\ SearchInv
  BY DEF IInv, ShortInv, ResultInv
<1>2. lo \in 0..code /\ (lo > 0 => lo - 1 \in 0..code) /\ code \in Nat
  BY <1>1 DEF TypeOK
<1>3. lo = code \/ runs[lo] = runs[code]
  BY <1>1, <1>2, SameMeansEqual DEF SearchInv
<1>4. lo > 0 => runs[lo - 1] # runs[code]
  BY <1>1, <1>2, SameMeansEqual DEF SearchInv
<1> QED BY <1>3, <1>4

\* However prefixes behave, the prefix that was found runs like the program.
THEOREM FoundIsProbed == Spec => []FoundWasProbed
<1>1. IInv => FoundWasProbed
  BY FoundIsFirst DEF FoundWasProbed
<1> QED BY <1>1, InvariantHolds, PTL

\* The code that MinimizeProgram returns runs like the program, added bytes included, if
\* a prefix that does goes on to do so when it grows.
THEOREM MinimizedIsFaithful == Spec => []MinimizedRunsTheSame
<1>1. ASSUME IInv, Minimized, RunsOn PROVE runs[result] = runs[code]
  <2>1. code \in Nat /\ lo \in 0..code /\ result \in 0..code /\ Extra \in Nat
    BY <1>1, SizeAssumption DEF IInv, TypeOK
  <2>2. lo <= result
    BY <1>1, <2>1 DEF IInv, ResultInv
  <2>3. runs[lo] = runs[code]
    BY <1>1, FoundIsFirst
  <2> QED BY <1>1, <2>1, <2>2, <2>3 DEF RunsOn
<1>2. IInv => MinimizedRunsTheSame
  BY <1>1 DEF MinimizedRunsTheSame
<1> QED BY <1>2, InvariantHolds, PTL

\* And no prefix that does is shorter by more than the added bytes.
THEOREM MinimizedIsShort == Spec => []NothingShorter
<1>1. ASSUME IInv, Minimized, RunsOn, NEW n \in 0..code, runs[n] = runs[code]
      PROVE  result <= n + Extra
  <2>1. code \in Nat /\ lo \in 0..code /\ result \in 0..code /\ Extra \in Nat
    BY <1>1, SizeAssumption DEF IInv, TypeOK
  <2>2. result <= lo + Extra
    BY <1>1, <2>1 DEF IInv, ResultInv
  <2>3. lo <= n
    <3> SUFFICES ASSUME n < lo PROVE FALSE
      BY <2>1
    <3>1. lo - 1 \in 0..code /\ n <= lo - 1
      BY <2>1
    <3>2. runs[lo - 1] = runs[code]
      BY <1>1, <3>1 DEF RunsOn
    <3> QED BY <1>1, <2>1, <3>2, FoundIsFirst
  <2> QED BY <2>1, <2>2, <2>3
<1>2. IInv => NothingShorter
  BY <1>1 DEF NothingShorter
<1> QED BY <1>2, InvariantHolds, PTL

-----------------------------------------------------------------------------
(* How large the trace is: what the buffer has dropped.                      *)

\* The bytes of a trace, from their equation.
LEMMA BytesEquation ==
    ASSUME NEW t \in Seq(Steps)
    PROVE  /\ BytesUpTo(t) \in [0..Len(t) -> Nat]
           /\ BytesUpTo(t)[0] = 0
           /\ \A k \in 1..Len(t) : BytesUpTo(t)[k] = BytesUpTo(t)[k - 1] + LineSize[t[k]]
<1> DEFINE N == Len(t)
           F == [k \in 1..N |-> [x \in Nat |-> x + LineSize[t[k]]]]
           Equation(f) == f = [k \in 0..N |-> IF k = 0 THEN 0 ELSE f[k - 1] + LineSize[t[k]]]
<1>1. N \in Nat /\ \A k \in 1..N : t[k] \in Steps /\ LineSize[t[k]] \in Nat
  BY ElementOfSeq, LenProperties, LineAssumption
<1>2. F \in [1..N -> [Nat -> Nat]]
  BY <1>1
<1>3. PICK f \in [0..N -> Nat] : Unfolds(f, N, 0, F)
  <2> HIDE DEF N, F
  <2> QED BY <1>1, <1>2, BoundedRecursion
<1>4. Equation(f)
  <2>1. ASSUME NEW k \in 0..N
        PROVE f[k] = IF k = 0 THEN 0 ELSE f[k - 1] + LineSize[t[k]]
    <3>1. f[k] = IF k = 0 THEN 0 ELSE F[k][f[k - 1]]
      BY <1>3 DEF Unfolds
    <3>2. CASE k # 0
      <4>1. k \in 1..N /\ f[k - 1] \in Nat
        <5>1. k \in 1..N /\ k - 1 \in 0..N
          BY <1>1, <3>2
        <5> QED BY <1>3, <5>1
      <4>2. F[k] = [x \in Nat |-> x + LineSize[t[k]]]
        BY <4>1
      <4> HIDE DEF F
      <4>3. F[k][f[k - 1]] = f[k - 1] + LineSize[t[k]]
        BY <4>1, <4>2
      <4> QED BY <3>1, <3>2, <4>3
    <3> QED BY <3>1, <3>2
  <2> QED BY <1>3, <2>1 DEF Unfolds
<1> DEFINE g == BytesUpTo(t)
<1>5. Equation(g)
  BY <1>4 DEF BytesUpTo
<1> HIDE DEF g
<1>6. g[0] = 0 /\ \A k \in 1..N : g[k] = g[k - 1] + LineSize[t[k]]
  <2>1. ASSUME NEW k \in 1..N PROVE g[k] = g[k - 1] + LineSize[t[k]]
    <3>1. k \in 0..N /\ k # 0
      BY <1>1
    <3> QED BY <1>5, <3>1
  <2>2. g[0] = 0
    BY <1>1, <1>5
  <2> QED BY <2>1, <2>2
<1> DEFINE T == {k \in 0..N : g[k] \in Nat}
<1>7. 0 \in T /\ \A k \in 0..(N - 1) : k \in T => k + 1 \in T
  <2>1. 0 \in T
    BY <1>1, <1>6
  <2>2. ASSUME NEW k \in 0..(N - 1), k \in T PROVE k + 1 \in T
    <3>1. k + 1 \in 1..N /\ (k + 1) - 1 = k
      BY <1>1
    <3>2. g[k + 1] = g[k] + LineSize[t[k + 1]]
      BY <1>6, <3>1
    <3> QED BY <1>1, <2>2, <3>1, <3>2
  <2> QED BY <2>1, <2>2
<1> HIDE DEF T
<1>8. \A k \in 0..N : k \in T
  BY <1>1, <1>7, BoundedInduction
<1>9. g \in [0..N -> Nat]
  BY <1>5, <1>8 DEF T
<1> QED BY <1>6, <1>9 DEF g

\* The whole trace has at least the bytes of its beginning.
LEMMA BytesGrow ==
    ASSUME NEW t \in Seq(Steps), NEW k \in 0..Len(t)
    PROVE  BytesUpTo(t)[k] <= Bytes(t)
<1> DEFINE g == BytesUpTo(t)
           N == Len(t)
           T == {d \in 0..(N - k) : g[k] <= g[k + d]}
<1>1. N \in Nat /\ g \in [0..N -> Nat] /\ \A i \in 1..N : g[i] = g[i - 1] + LineSize[t[i]]
  BY BytesEquation, LenProperties
<1>2. \A i \in 1..N : LineSize[t[i]] \in Nat
  BY ElementOfSeq, LineAssumption
<1> HIDE DEF g, N
<1>3. k \in 0..N /\ N - k \in Nat
  BY <1>1 DEF N
<1>4. 0 \in T
  BY <1>1, <1>3
<1>5. ASSUME NEW d \in 0..((N - k) - 1), d \in T PROVE d + 1 \in T
  <2>1. (k + (d + 1)) \in 1..N /\ (k + (d + 1)) - 1 = k + d /\ k + d \in 0..N
    BY <1>1, <1>3
  <2>2. g[k + (d + 1)] = g[k + d] + LineSize[t[k + (d + 1)]]
    BY <1>1, <2>1
  <2>3. g[k] \in Nat /\ g[k + d] \in Nat /\ g[k] <= g[k + d]
    BY <1>1, <1>3, <1>5, <2>1
  <2>4. g[k] <= g[k + (d + 1)]
    <3>1. LineSize[t[k + (d + 1)]] \in Nat
      BY <1>2, <2>1 DEF N
    <3> QED BY <2>2, <2>3, <3>1
  <2>5. d + 1 \in 0..(N - k)
    BY <1>3
  <2> QED BY <2>4, <2>5
<1> HIDE DEF T
<1>6. \A d \in 0..(N - k) : d \in T
  BY <1>3, <1>4, <1>5, BoundedInduction
<1>7. N - k \in T /\ k + (N - k) = N
  BY <1>1, <1>3, <1>6
<1>8. g[k] <= g[N]
  BY <1>7 DEF T
<1> QED BY <1>8 DEF g, N, Bytes

\* What was written is what Fill has traced, and the buffer knows whether it fits.
SizeInv ==
    /\ overflow <=> written > Limit
    /\ pc = "fill" => written = BytesUpTo(runs[code])[row] /\ err = "nil"
    /\ pc # "fill" /\ err # "fill" => (overflow <=> Bytes(runs[code]) > Limit)
    /\ pc \in {"filled", "search"} => err = "nil"
    /\ pc = "search" => ~overflow
    /\ pc = "done" /\ err # "fill" => (err = "ErrTraceTooLarge" <=> overflow)

LEMMA SizeInductive == IInv /\ SizeInv /\ [Next]_vars => SizeInv'
<1> SUFFICES ASSUME IInv, SizeInv, [Next]_vars PROVE SizeInv'
  OBVIOUS
<1> DEFINE t == runs[code]
<1>1. /\ t \in Seq(Steps) /\ Len(t) \in Nat /\ row \in 0..Len(t) /\ written \in Nat
      /\ Limit \in Int /\ Limit <= maxTraceSize /\ maxTraceSize \in Nat
      /\ overflow \in BOOLEAN /\ (~overflow => buf = written)
  BY SizeAssumption, LenProperties DEF IInv, TypeOK, BufferInv, Limit
<1>2. ASSUME NEW n \in Nat, Write(n), written' = written + n
      PROVE  overflow' <=> written' > Limit
  <2>1. overflow' <=> TooMuch(n)
    BY <1>2 DEF Write, TooMuch
  <2>2. TooMuch(n) <=> written + n > Limit
    <3>1. CASE overflow
      BY <1>1, <3>1 DEF SizeInv, TooMuch
    <3>2. CASE ~overflow
      BY <1>1, <3>2 DEF TooMuch, Limit
    <3> QED BY <3>1, <3>2
  <2> QED BY <1>2, <2>1, <2>2
<1>3. CASE FillLine
  <2>1. /\ row + 1 \in 1..Len(t) /\ (row + 1) - 1 = row
        /\ row' = row + 1 /\ written' = written + Line /\ Write(Line)
        /\ UNCHANGED <<code, runs, pc, err>> /\ pc = "fill"
    BY <1>1, <1>3 DEF FillLine
  <2>2. Line \in Nat
    BY <1>1, <2>1, ElementOfSeq, LineAssumption DEF Line
  <2>3. BytesUpTo(t)[row + 1] = BytesUpTo(t)[row] + Line
    BY <1>1, <2>1, BytesEquation DEF Line
  <2>4. overflow' <=> written' > Limit
    BY <1>2, <2>1, <2>2
  <2>5. BytesUpTo(t)' = BytesUpTo(t)
    BY <2>1 DEF BytesUpTo
  <2>6. written' = BytesUpTo(runs'[code'])[row']
    BY <2>1, <2>3 DEF SizeInv
  <2> QED BY <2>1, <2>4, <2>6 DEF SizeInv, BytesUpTo
<1>4. CASE FillCut
  <2>1. PICK n \in 0..(maxTraceSize - written) :
           written + n > Limit /\ Write(n) /\ written' = written + n
    BY <1>4 DEF FillCut, Limit
  <2>2. /\ row + 1 \in 1..Len(t) /\ (row + 1) - 1 = row /\ written + Line > maxTraceSize
        /\ UNCHANGED <<code, runs, err>> /\ pc = "fill" /\ pc' = "filled"
    BY <1>1, <1>4 DEF FillCut
  <2>3. Line \in Nat
    BY <1>1, <2>2, ElementOfSeq, LineAssumption DEF Line
  <2>4. BytesUpTo(t)[row + 1] = written + Line
    BY <1>1, <2>2, BytesEquation DEF Line, SizeInv
  <2>5. row + 1 \in 0..Len(t) /\ Bytes(t) \in Nat
    <3>1. BytesUpTo(t) \in [0..Len(t) -> Nat] /\ Len(t) \in 0..Len(t)
      BY <1>1, BytesEquation
    <3> QED BY <2>2, <3>1 DEF Bytes
  <2>6. written + Line <= Bytes(t)
    BY <1>1, <2>4, <2>5, BytesGrow
  <2>7. Bytes(t) > Limit
    BY <1>1, <2>2, <2>3, <2>5, <2>6
  <2>8. overflow' /\ written' > Limit
    BY <1>1, <1>2, <2>1
  <2>9. Bytes(runs'[code']) > Limit
    BY <2>2, <2>7
  <2> QED BY <2>2, <2>8, <2>9 DEF SizeInv, Bytes, BytesUpTo
<1>5. CASE FillEnd
  <2>1. /\ row = Len(t) /\ UNCHANGED <<code, runs, row, written, buf, overflow, err>>
        /\ pc = "fill" /\ pc' = "filled"
    BY <1>5 DEF FillEnd, filling
  <2>2. written = Bytes(t)
    BY <2>1 DEF Bytes, SizeInv
  <2> QED BY <2>1, <2>2 DEF SizeInv, Bytes, BytesUpTo
<1>6. CASE FillError \/ TooLarge \/ TooShort \/ StartSearch \/ Probe \/ Found
  <2>1. UNCHANGED <<code, runs, written, overflow>>
    BY <1>6 DEF FillError, TooLarge, TooShort, StartSearch, Probe, Found, filling
  <2>2. Bytes(runs[code])' = Bytes(runs[code])
    BY <2>1 DEF Bytes, BytesUpTo
  <2>3. CASE FillError
    BY <2>1, <2>2, <2>3 DEF FillError, Return, SizeInv
  <2>4. CASE TooLarge
    BY <2>1, <2>2, <2>4 DEF TooLarge, Return, SizeInv
  <2>5. CASE TooShort
    BY <2>1, <2>2, <2>5 DEF TooShort, Return, SizeInv
  <2>6. CASE StartSearch
    BY <2>1, <2>2, <2>6 DEF StartSearch, SizeInv
  <2>7. CASE Probe
    BY <2>1, <2>2, <2>7 DEF Probe, SizeInv
  <2>8. CASE Found
    BY <2>1, <2>2, <2>8 DEF Found, Return, SizeInv
  <2> QED BY <1>6, <2>3, <2>4, <2>5, <2>6, <2>7, <2>8
<1>7. CASE UNCHANGED vars
  BY <1>7 DEF vars, filling, SizeInv, Bytes, BytesUpTo
<1> QED BY <1>3, <1>4, <1>5, <1>6, <1>7 DEF Next, Terminated

\* A trace is refused exactly when it does not fit the buffer, although neither Fill nor
\* the buffer reports what is dropped.
THEOREM TooLargeCorrect == Spec => []TooLargeIsExact
<1>1. Init => SizeInv
  <2> SUFFICES ASSUME Init PROVE SizeInv
    OBVIOUS
  <2>1. runs[code] \in Seq(Steps)
    BY TraceAssumption DEF Init
  <2>2. written = 0 /\ row = 0 /\ overflow = FALSE /\ pc = "fill" /\ err = "nil"
    BY DEF Init
  <2>3. BytesUpTo(runs[code])[0] = 0 /\ ~(0 > Limit)
    BY <2>1, BytesEquation, SizeAssumption DEF Limit
  <2> QED BY <2>2, <2>3 DEF SizeInv
<1>2. SizeInv => TooLargeIsExact
  BY DEF SizeInv, TooLargeIsExact, Limit
<1> QED BY <1>1, <1>2, SizeInductive, InvariantHolds, PTL DEF Spec

-----------------------------------------------------------------------------
(* How many prefixes are executed.                                           *)

\* Every probe halves the interval.
ProbeInv == (hi - lo) * Pow2[probes] <= code /\ FewProbes

LEMMA ProbeInductive == IInv /\ ProbeInv /\ [Next]_vars => ProbeInv'
<1> SUFFICES ASSUME IInv, ProbeInv, [Next]_vars PROVE ProbeInv'
  OBVIOUS
<1>1. code \in Nat /\ lo \in 0..code /\ hi \in lo..code /\ probes \in Nat
  BY DEF IInv, TypeOK
<1>2. CASE Probe
  <2>1. probes' = probes + 1 /\ code' = code /\ lo < hi
    BY <1>2 DEF Probe
  <2>2. 2 * (hi' - lo') <= hi - lo /\ hi' - lo' \in Int
    <3>1. 2 * Mid \in {lo + hi, lo + hi - 1} /\ Mid \in Nat
      BY <1>1 DEF Mid
    <3> QED BY <1>1, <1>2, <3>1 DEF Probe
  <2>3. (hi' - lo') * Pow2[probes + 1] <= code
    <3>1. hi - lo \in Nat
      BY <1>1
    <3> QED BY <1>1, <2>2, <3>1, Halving DEF ProbeInv
  <2>4. Pow2[probes] <= code
    <3>1. hi - lo \in Nat /\ 1 <= hi - lo /\ Pow2[probes] \in Nat
      BY <1>1, <2>1, PowersOfTwo
    <3>2. 1 * Pow2[probes] <= (hi - lo) * Pow2[probes]
      BY <3>1, TimesMonotone
    <3>3. (hi - lo) * Pow2[probes] \in Nat
      BY <3>1
    <3> QED BY <1>1, <3>1, <3>2, <3>3 DEF ProbeInv
  <2>5. (probes + 1) - 1 = probes
    BY <1>1
  <2> QED BY <2>1, <2>3, <2>4, <2>5 DEF ProbeInv, FewProbes
<1>3. CASE UNCHANGED <<code, searching>>
  BY <1>3 DEF searching, ProbeInv, FewProbes
<1> QED BY <1>2, <1>3 DEF Next, FillLine, FillCut, FillEnd, FillError, TooLarge, TooShort,
                          StartSearch, Found, Terminated, vars

\* The program is executed about log2(len) times, whatever its prefixes do.
THEOREM ProbesAreFew == Spec => []FewProbes
<1>1. Init => ProbeInv
  <2> SUFFICES ASSUME Init PROVE ProbeInv
    OBVIOUS
  <2>1. code \in Nat /\ lo = 0 /\ hi = code /\ probes = 0
    BY TraceAssumption DEF Init
  <2>2. (code - 0) * 1 = code
    BY <2>1
  <2> QED BY <2>1, <2>2, PowersOfTwo DEF ProbeInv, FewProbes
<1>2. ProbeInv => FewProbes
  BY DEF ProbeInv
<1> QED BY <1>1, <1>2, ProbeInductive, InvariantHolds, PTL DEF Spec
=============================================================================
