----------------------------- MODULE ByteStream -----------------------------
(***************************************************************************)
(* What a filler promises to the strategies that draw from it: the fuzz    *)
(* input repeated for ever, each byte read once and in order.              *)
(***************************************************************************)
EXTENDS Integers, Sequences

VARIABLES
    data,  \* the fuzz input, never empty
    taken, \* how many bytes were taken since the stream was opened or reset
    out    \* the bytes taken last

\* Byte number t of the stream.
At(t) == data[(t % Len(data)) + 1]

Init == Len(data) > 0 /\ taken = 0 /\ out = <<>>

Take ==
    /\ taken' = taken + Len(out')
    /\ out' = [k \in 1..Len(out') |-> At(taken + k - 1)]
    /\ UNCHANGED data

Reset == taken' = 0 /\ UNCHANGED <<data, out>>

Next == Take \/ Reset

Spec == Init /\ [][Next]_<<data, taken, out>>
=============================================================================
