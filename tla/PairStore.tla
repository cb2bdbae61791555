----------------------------- MODULE PairStore -----------------------------
(***************************************************************************)
(* What a fuzzing campaign promises about its database.  The database is   *)
(* what its log of writes has recorded; a crash loses the end of the log.  *)
(* A worker turns an input into a program (its full code) and tries to     *)
(* minimize it.  A full code in the database is never looked at again, so  *)
(* it may only be there together with its minimized code, or when there is *)
(* none because its trace is too large.                                    *)
(***************************************************************************)
EXTENDS Integers, Sequences

CONSTANTS
    Inputs,   \* fuzz inputs
    Codes,    \* EVM bytecodes
    Full,     \* the code generated from an input
    Min,      \* the minimized code, or TooLarge, or Failed
    TooLarge, \* the trace exceeds the buffer (ErrTraceTooLarge)
    Failed    \* the program cannot be filled (any other error)

\* Campaign, which instantiates this module, assumes it of its programs.
ProgramsOK ==
    /\ Full \in [Inputs -> Codes] /\ Min \in [Inputs -> Codes \cup {TooLarge, Failed}]
    /\ TooLarge \notin Codes /\ Failed \notin Codes /\ TooLarge # Failed

VARIABLE log \* the writes, each a set of codes

\* The codes of the first n writes, and all of them.
Recorded(n) == UNION {log[k] : k \in 1..n}
Database    == Recorded(Len(log))

\* Input i accounts for code c in the set S.
Accounts(i, c, S) ==
    \/ Full[i] = c /\ (Min[i] = TooLarge \/ Min[i] \in S)
    \/ Min[i] = c /\ Full[i] \in S

\* Every code in the set is there for a reason.
Closed(S) == S \subseteq Codes /\ \A c \in S : \E i \in Inputs : Accounts(i, c, S)

Init == log = <<>>

Write(S) == log' = Append(log, S)

\* The full code and its minimized code are in the database after one write, which
\* leaves out what was there.
RecordPair(i) ==
    /\ Min[i] \in Codes
    /\ \E S \in SUBSET {Full[i], Min[i]} :
          {Full[i], Min[i]} \subseteq Database \cup S /\ Write(S)

\* The full code alone: it has no minimized code, or that is already there.
RecordFull(i) ==
    /\ Min[i] = TooLarge \/ Min[i] \in Database
    /\ Write({Full[i]})

\* A crash: some of the last writes are lost.
Lose == \E n \in 0..Len(log) : log' = SubSeq(log, 1, n)

Next == (\E i \in Inputs : RecordPair(i) \/ RecordFull(i)) \/ Lose

Spec == Init /\ [][Next]_log

\* No step leaves a full code behind without its minimized code, a crash that loses
\* any number of writes included: such a program would be skipped forever (run,
\* "already have this code in our db").
PairClosed == Closed(Database)
=============================================================================
