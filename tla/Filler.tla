------------------------------- MODULE Filler -------------------------------
(***************************************************************************)
(* filler.Filler: the source of all choices of the program generator.  It  *)
(* hands out the bytes of a fuzz input and starts again when they are used *)
(* up.  Every method is one or two calls of Byte and ByteSlice; ByteSlice  *)
(* is modelled step by step because of the loop in it.                     *)
(***************************************************************************)
EXTENDS Integers, Sequences

CONSTANTS
    Inputs,   \* fuzz inputs: sequences of bytes
    Lens,     \* the fixed lengths asked for: Uint16, Uint32, BigInt256, Read, ...
    MaxTaken  \* bound: no method is called that would take more bytes than this

Byte256 == 0..255

ASSUME InputAssumption == Inputs \subseteq Seq(Byte256)
ASSUME LenAssumption   == Lens \subseteq Nat /\ MaxTaken \in Nat

VARIABLES
    data,    \* Filler.data
    pointer, \* Filler.pointer
    usedUp,  \* Filler.usedUp
    pc,      \* "idle", or where in ByteSlice: "slice" (its start) or "copy" (the loop)
    want,    \* ByteSlice: items
    start,   \* ByteSlice: start
    b,       \* ByteSlice: the bytes copied so far
    taken,   \* history: bytes handed out since NewFiller or Reset
    out      \* what the last call of Byte or ByteSlice returned

fields == <<data, pointer, usedUp>>
locals == <<want, start, b>>
vars   == <<fields, pc, locals, taken, out>>

\* NewFiller; an empty input is replaced by one zero byte.
Init ==
    /\ data \in {IF i = <<>> THEN <<0>> ELSE i : i \in Inputs}
    /\ pointer = 0 /\ usedUp = FALSE
    /\ pc = "idle" /\ want = 0 /\ start = 0 /\ b = <<>>
    /\ taken = 0 /\ out = <<>>

\* Mutant: the last byte does not count as the end.
incPointer_Late(i) ==
    /\ usedUp' = (usedUp \/ pointer + i > Len(data))
    /\ pointer' = (pointer + i) % Len(data)

incPointer(i) ==
    /\ usedUp' = (usedUp \/ pointer + i >= Len(data))
    /\ pointer' = (pointer + i) % Len(data)

Return(bytes) == out' = bytes /\ taken' = taken + Len(bytes)

Byte == Return(<<data[pointer + 1]>>) /\ incPointer(1) /\ UNCHANGED data

-----------------------------------------------------------------------------
(* The methods, by what they call.                                         *)

\* Byte and Bool.
TakeByte ==
    /\ pc = "idle" /\ taken < MaxTaken
    /\ Byte
    /\ UNCHANGED <<pc, locals>>

\* Uint16 to Uint64, BigInt16 to BigInt256, Read and ByteSlice itself.
TakeSlice ==
    /\ pc = "idle"
    /\ \E n \in Lens : taken + n <= MaxTaken /\ want' = n
    /\ pc' = "slice"
    /\ UNCHANGED <<fields, start, b, taken, out>>

\* How many bytes follow the first one in GasInt and MemInt; one, in MemInt, is a
\* call of Byte.
WideInt(first) == IF first = 254 THEN 8 ELSE IF first = 255 THEN 32 ELSE 4
MemInt(first)  == IF first < 253 THEN 1 ELSE WideInt(first)

\* ByteSlice256, GasInt and MemInt: a byte says how many more are taken.
TakeCounted ==
    LET first == data[pointer + 1] IN
    /\ pc = "idle"
    /\ Byte
    /\ want' \in {first, WideInt(first), MemInt(first)}
    /\ taken + 1 + want' <= MaxTaken
    /\ pc' = "slice"
    /\ UNCHANGED <<start, b>>

Reset ==
    /\ pc = "idle"
    /\ pointer' = 0 /\ usedUp' = FALSE /\ taken' = 0
    /\ UNCHANGED <<data, pc, locals, out>>

-----------------------------------------------------------------------------
(* ByteSlice.                                                              *)

\* Enough bytes are left before the end of the data.
SliceWithin ==
    /\ pc = "slice" /\ pointer + want <= Len(data)
    /\ Return(SubSeq(data, pointer + 1, pointer + want))
    /\ incPointer(want)
    /\ pc' = "idle"
    /\ UNCHANGED <<data, locals>>

StartWrap ==
    /\ pc = "slice" /\ pointer + want > Len(data)
    /\ pc' = "copy" /\ start' = pointer /\ b' = <<>>
    /\ UNCHANGED <<fields, want, taken, out>>

\* Mutant: the next round starts where this one has ended, behind the data.
CopyChunk_NoRewind ==
    /\ pc = "copy" /\ Len(b) < want
    /\ LET room == want - Len(b)
           left == Len(data) - pointer
           it   == IF room < left THEN room ELSE left
       IN b' = b \o SubSeq(data, pointer + 1, pointer + it) /\ pointer' = pointer + it
    /\ UNCHANGED <<data, usedUp, pc, want, start, taken, out>>

\* One round of the loop: copy what fits, and go back to the start of the data.
CopyChunk ==
    /\ pc = "copy" /\ Len(b) < want
    /\ LET room == want - Len(b)
           left == Len(data) - pointer
           it   == IF room < left THEN room ELSE left
       IN b' = b \o SubSeq(data, pointer + 1, pointer + it)
    /\ pointer' = 0
    /\ UNCHANGED <<data, usedUp, pc, want, start, taken, out>>

\* Mutant: the pointer is advanced from 0, where the loop has left it.
FinishWrap_FromZero ==
    /\ pc = "copy" /\ Len(b) = want
    /\ pointer' = want % Len(data) /\ usedUp' = TRUE
    /\ Return(b)
    /\ pc' = "idle"
    /\ UNCHANGED <<data, locals>>

FinishWrap ==
    /\ pc = "copy" /\ Len(b) = want
    /\ pointer' = (start + want) % Len(data) /\ usedUp' = TRUE
    /\ Return(b)
    /\ pc' = "idle"
    /\ UNCHANGED <<data, locals>>

ByteSlice == SliceWithin \/ StartWrap \/ CopyChunk \/ FinishWrap

Next == TakeByte \/ TakeSlice \/ TakeCounted \/ Reset \/ ByteSlice

Spec == Init /\ [][Next]_vars

\* A call that has started runs; nothing makes a strategy ask for more.
FairSpec == Spec /\ WF_vars(ByteSlice)

-----------------------------------------------------------------------------
\* Type invariant; the pointer is an index of data.
TypeOK ==
    /\ data \in Seq(Byte256) /\ Len(data) > 0
    /\ pointer \in 0..(Len(data) - 1) /\ usedUp \in BOOLEAN
    /\ pc \in {"idle", "slice", "copy"}
    /\ want \in Nat /\ start \in 0..(Len(data) - 1) /\ b \in Seq(Byte256)
    /\ taken \in Nat /\ out \in Seq(Byte256)

\* UsedUp, by which Fuzz tells its inputs apart, is exact between two calls: it is true
\* if and only if the last byte of the input was handed out, wrapped reads included.
UsedUpIsExact == pc = "idle" => (usedUp <=> taken >= Len(data))

\* The bytes handed out are those of the stream: none is skipped and none is read
\* twice, however the reads straddle the end of the data.
Stream == INSTANCE ByteStream WITH data <- data, taken <- taken, out <- out
ImplementsByteStream == Stream!Spec

\* The loop of ByteSlice ends ("should not happen, infinite loop").
SliceReturns == pc # "idle" ~> pc = "idle"
=============================================================================
