----------------------------- MODULE Minimizer -----------------------------
(***************************************************************************)
(* fuzzer.MinimizeProgram: the shortest prefix of a program that runs like *)
(* the whole program, found by a binary search that executes a prefix at   *)
(* each probe.  An execution is the sequence of its traced steps.  The     *)
(* search compares rolling hashes of the steps up to maxTraceSteps; before *)
(* it, the program must have produced a trace that fits in a buffer.       *)
(* Nothing is assumed of how a prefix runs: code can read itself.          *)
(***************************************************************************)
EXTENDS Powers, Sequences

CONSTANTS
    Steps,           \* what OnOpcode can see of an instruction
    Traces,          \* executions: sequences of steps
    LineSize,        \* the bytes Fill writes for a step
    MinLine,         \* the shortest line: JSON with pc, op, gas, cost, depth, stack
    CodeLens,        \* lengths of programs
    maxTraceSize, traceSizeMargin, minMinimizeSize, maxTraceSteps,
    Extra            \* the bytes kept behind the prefix that was found (100)

ASSUME TraceAssumption == Traces \subseteq Seq(Steps) /\ CodeLens \subseteq Nat
ASSUME SizeAssumption ==
    /\ {maxTraceSize, traceSizeMargin, minMinimizeSize, maxTraceSteps, Extra} \subseteq Nat
    /\ traceSizeMargin <= maxTraceSize

\* A trace that fits the buffer has at most maxTraceSteps steps: with the constants of the
\* code this says that a line has more than 22 bytes.
ASSUME LineAssumption ==
    /\ MinLine \in Nat /\ LineSize \in [Steps -> Nat] /\ \A s \in Steps : LineSize[s] >= MinLine
    /\ MinLine * (maxTraceSteps + 1) > maxTraceSize - traceSizeMargin

VARIABLES
    code,     \* the length of the program
    runs,     \* runs[n]: the execution of its first n bytes
    pc,       \* "fill", "filled", "search" or "done"
    row,      \* Fill: steps written
    written,  \* Fill: bytes written
    buf,      \* cappedBuffer: bytes kept
    overflow, \* cappedBuffer.overflow
    lo, hi,   \* sort.Search: the answer is in lo..hi
    probes,   \* history: prefixes executed
    err,      \* the error returned, or "nil"
    result    \* the length of the code returned with it

filling   == <<row, written, buf, overflow>>
searching == <<lo, hi, probes>>
vars      == <<code, runs, pc, filling, searching, err, result>>

Init ==
    /\ code \in CodeLens /\ runs \in [0..code -> Traces]
    /\ pc = "fill" /\ row = 0 /\ written = 0 /\ buf = 0 /\ overflow = FALSE
    /\ lo = 0 /\ hi = code /\ probes = 0 /\ err = "nil" /\ result = 0

Return(e, n) == pc' = "done" /\ err' = e /\ result' = n

-----------------------------------------------------------------------------
(* Fill into the cappedBuffer.                                               *)

TooMuch(n) == overflow \/ buf + n > maxTraceSize - traceSizeMargin

\* Mutant: a line that fits ends the overflow.
Write_Forgets(n) ==
    /\ overflow' = (buf + n > maxTraceSize - traceSizeMargin)
    /\ buf' = IF overflow' THEN buf ELSE buf + n

\* cappedBuffer.Write accepts n bytes and keeps them while they fit.
Write(n) ==
    /\ overflow' = TooMuch(n)
    /\ buf' = IF TooMuch(n) THEN buf ELSE buf + n

Line == LineSize[runs[code][row + 1]]

FillLine ==
    /\ pc = "fill" /\ row < Len(runs[code]) /\ written + Line <= maxTraceSize
    /\ Write(Line) /\ written' = written + Line /\ row' = row + 1
    /\ UNCHANGED <<code, runs, pc, searching, err, result>>

\* Fill stops at maxTraceSize, or just under it, without an error.
FillCut ==
    /\ pc = "fill" /\ row < Len(runs[code]) /\ written + Line > maxTraceSize
    /\ \E n \in 0..(maxTraceSize - written) :
          /\ written + n > maxTraceSize - traceSizeMargin
          /\ Write(n) /\ written' = written + n
    /\ pc' = "filled"
    /\ UNCHANGED <<code, runs, row, searching, err, result>>

FillEnd ==
    /\ pc = "fill" /\ row = Len(runs[code])
    /\ pc' = "filled"
    /\ UNCHANGED <<code, runs, filling, searching, err, result>>

FillError ==
    /\ pc = "fill"
    /\ Return("fill", 0)
    /\ UNCHANGED <<code, runs, filling, searching>>

TooLarge ==
    /\ pc = "filled" /\ overflow
    /\ Return("ErrTraceTooLarge", 0)
    /\ UNCHANGED <<code, runs, filling, searching>>

TooShort ==
    /\ pc = "filled" /\ ~overflow /\ code < minMinimizeSize
    /\ Return("nil", code)
    /\ UNCHANGED <<code, runs, filling, searching>>

-----------------------------------------------------------------------------
(* The search.                                                               *)

\* hashTracer: the steps it has folded, and whether there were too many.
sum(t)  == SubSeq(t, 1, IF Len(t) < maxTraceSteps THEN Len(t) ELSE maxTraceSteps)
long(t) == Len(t) > maxTraceSteps

\* Mutant: whether the probe was traced to its end is ignored.
Same_AnyLength(n) == sum(runs[n]) = sum(runs[code])

\* The predicate of sort.Search.  A hash stands for the steps it was folded from.
Same(n) == ~long(runs[n]) /\ sum(runs[n]) = sum(runs[code])

\* orgHash.
StartSearch ==
    /\ pc = "filled" /\ ~overflow /\ code >= minMinimizeSize
    /\ pc' = "search"
    /\ UNCHANGED <<code, runs, filling, searching, err, result>>

Mid == (lo + hi) \div 2

\* Mutant: the predicate is inverted.
Probe_Inverted ==
    /\ pc = "search" /\ lo < hi
    /\ IF ~Same(Mid) THEN hi' = Mid /\ UNCHANGED lo ELSE lo' = Mid + 1 /\ UNCHANGED hi
    /\ probes' = probes + 1
    /\ UNCHANGED <<code, runs, pc, filling, err, result>>

\* Mutant: a prefix that runs differently stays in the interval.
Probe_KeepsMid ==
    /\ pc = "search" /\ lo < hi
    /\ IF Same(Mid) THEN hi' = Mid /\ UNCHANGED lo ELSE lo' = Mid /\ UNCHANGED hi
    /\ probes' = probes + 1
    /\ UNCHANGED <<code, runs, pc, filling, err, result>>

Probe ==
    /\ pc = "search" /\ lo < hi
    /\ IF Same(Mid) THEN hi' = Mid /\ UNCHANGED lo ELSE lo' = Mid + 1 /\ UNCHANGED hi
    /\ probes' = probes + 1
    /\ UNCHANGED <<code, runs, pc, filling, err, result>>

\* Mutant: the extra bytes are added twice.
Found_Twice ==
    /\ pc = "search" /\ lo = hi
    /\ Return("nil", IF lo + Extra < code THEN lo + Extra + Extra ELSE lo)
    /\ UNCHANGED <<code, runs, filling, searching>>

Found ==
    /\ pc = "search" /\ lo = hi
    /\ Return("nil", IF lo + Extra < code THEN lo + Extra ELSE lo)
    /\ UNCHANGED <<code, runs, filling, searching>>

-----------------------------------------------------------------------------
Terminated == pc = "done" /\ UNCHANGED vars

Next ==
    \/ FillLine \/ FillCut \/ FillEnd \/ FillError
    \/ TooLarge \/ TooShort \/ StartSearch \/ Probe \/ Found
    \/ Terminated

Spec == Init /\ [][Next]_vars

-----------------------------------------------------------------------------
TypeOK ==
    /\ code \in Nat /\ runs \in [0..code -> Seq(Steps)]
    /\ pc \in {"fill", "filled", "search", "done"}
    /\ row \in 0..Len(runs[code]) /\ written \in 0..maxTraceSize
    /\ buf \in 0..maxTraceSize /\ overflow \in BOOLEAN
    /\ lo \in 0..code /\ hi \in lo..code /\ probes \in Nat
    /\ err \in {"nil", "fill", "ErrTraceTooLarge"} /\ result \in 0..code

\* A prefix that runs like the program is not made different by more of the program.
RunsOn == \A i, j \in 0..code : i <= j /\ runs[i] = runs[code] => runs[j] = runs[code]

\* The search returned a prefix, not the early exits.
Minimized == pc = "done" /\ err = "nil" /\ code >= minMinimizeSize

\* What MinimizeProgram returns runs step by step like the program, although only hashes
\* of bounded traces were compared, at a few lengths, and bytes were added to the one
\* that was found.  It needs what sort.Search needs, a prefix that runs on.
MinimizedRunsTheSame == Minimized /\ RunsOn => runs[result] = runs[code]

\* However prefixes behave, the search ends at one that was executed and found to run
\* like the program, or at the whole program.
FoundWasProbed == Minimized => lo = code \/ runs[lo] = runs[code]

\* No much shorter prefix is missed: any prefix that runs like the program is at most
\* the added bytes shorter than the result.
NothingShorter ==
    Minimized /\ RunsOn
        => \A n \in 0..code : runs[n] = runs[code] => result <= n + Extra

\* The bytes of the first k steps of a trace, and of all of them.
BytesUpTo(t) ==
    LET upTo[k \in 0..Len(t)] == IF k = 0 THEN 0 ELSE upTo[k - 1] + LineSize[t[k]]
    IN  upTo

Bytes(t) == BytesUpTo(t)[Len(t)]

\* ErrTraceTooLarge is the answer exactly for programs whose whole trace is larger than the
\* buffer, though Fill stops without an error and the buffer accepts what it drops.
TooLargeIsExact ==
    pc = "done" /\ err # "fill" =>
        (err = "ErrTraceTooLarge" <=> Bytes(runs[code]) > maxTraceSize - traceSizeMargin)

\* "re-execute the program ~log2(len) times" (hashtracer.go:28): a step slower than that
\* trips the watchdog of the fuzzer.
FewProbes == probes > 0 => Pow2[probes - 1] <= code
=============================================================================
