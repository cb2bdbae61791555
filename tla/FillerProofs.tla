---------------------------- MODULE FillerProofs ----------------------------
(***************************************************************************)
(* The filler implements the byte stream, and its usedUp flag is exact,    *)
(* for every input and every sequence of calls; and the selector that      *)
(* draws from it selects by weight, for every list of importances.         *)
(***************************************************************************)
EXTENDS Selector, SequenceTheorems, TLAPS

At(t) == data[(t % Len(data)) + 1]

\* Outside the loop of ByteSlice the pointer is where the stream is.
PointerInv == pc # "copy" => pointer = taken % Len(data)

\* Inside it, b is a prefix of what is to come, and the pointer is behind it.
CopyInv ==
    pc = "copy" =>
      /\ start = taken % Len(data) /\ start + want > Len(data)
      /\ Len(b) <= want
      /\ Len(b) < want => pointer = (taken + Len(b)) % Len(data)
      /\ \A k \in 1..Len(b) : b[k] = At(taken + k - 1)

UsedUpInv == usedUp <=> taken >= Len(data)

IInv == TypeOK /\ PointerInv /\ CopyInv /\ UsedUpInv

-----------------------------------------------------------------------------
(* Arithmetic modulo the length.                                           *)

LEMMA DivMod ==
    ASSUME NEW t \in Nat, NEW n \in Nat \ {0}
    PROVE  t \div n \in Nat /\ t % n \in 0..(n - 1) /\ t = (n * (t \div n)) + (t % n)
OBVIOUS

LEMMA ModUnique ==
    ASSUME NEW n \in Nat \ {0}, NEW q \in Nat, NEW r \in 0..(n - 1)
    PROVE  ((n * q) + r) % n = r
OBVIOUS

\* Reducing early makes no difference.
LEMMA ModMod ==
    ASSUME NEW t \in Nat, NEW n \in Nat \ {0}, NEW j \in Nat
    PROVE  ((t % n) + j) % n = (t + j) % n
<1> DEFINE q == t \div n
           r == t % n
           p == (r + j) \div n
           s == (r + j) % n
<1>1. t = (n * q) + r /\ q \in Nat /\ r \in Nat
  BY DivMod
<1> HIDE DEF q, r
<1>2. r + j = (n * p) + s /\ p \in Nat /\ s \in 0..(n - 1)
  <2>1. r + j \in Nat
    BY <1>1
  <2> QED BY <2>1, DivMod
<1> HIDE DEF p, s
<1>3. t + j = (n * (q + p)) + s
  BY <1>1, <1>2
<1>4. (t + j) % n = s
  <2>1. q + p \in Nat
    BY <1>1, <1>2
  <2>2. ((n * (q + p)) + s) % n = s
    BY <1>2, <2>1, ModUnique
  <2> QED BY <1>3, <2>2
<1> QED BY <1>4 DEF s, r

LEMMA ModSmall ==
    ASSUME NEW t \in Nat, NEW n \in Nat \ {0}, t < n
    PROVE  t % n = t
OBVIOUS

LEMMA ModSelf ==
    ASSUME NEW n \in Nat \ {0}
    PROVE  n % n = 0
OBVIOUS

\* A chunk of the data that starts where the stream is continues the stream.
LEMMA ChunkIsStream ==
    ASSUME TypeOK, NEW t \in Nat, NEW n \in Nat, pointer = t % Len(data),
           pointer + n <= Len(data)
    PROVE  /\ SubSeq(data, pointer + 1, pointer + n) \in Seq(Byte256)
           /\ Len(SubSeq(data, pointer + 1, pointer + n)) = n
           /\ \A k \in 1..n :
                 SubSeq(data, pointer + 1, pointer + n)[k] = At(t + k - 1)
<1> DEFINE lo == pointer + 1
           hi == pointer + n
           c  == SubSeq(data, lo, hi)
<1>1. data \in Seq(Byte256) /\ Len(data) \in Nat \ {0} /\ pointer \in Nat
  BY DEF TypeOK
<1>2. c \in Seq(Byte256) /\ Len(c) = n /\ \A k \in 1..n : c[k] = data[pointer + k]
  <2>1. lo \in Int /\ hi \in Int /\ \A i \in lo..hi : data[i] \in Byte256
    BY <1>1
  <2>2. hi - lo + 1 = n /\ (IF lo <= hi THEN hi - lo + 1 ELSE 0) = n
        /\ \A k \in 1..n : lo + k - 1 = pointer + k
    BY <1>1
  <2> HIDE DEF lo, hi
  <2>3. /\ c \in Seq(Byte256)
        /\ Len(c) = IF lo <= hi THEN hi - lo + 1 ELSE 0
        /\ \A i \in 1..(hi - lo + 1) : c[i] = data[lo + i - 1]
    BY <2>1, SubSeqProperties
  <2> HIDE DEF c
  <2>4. Len(c) = n
    BY <2>2, <2>3
  <2>5. ASSUME NEW k \in 1..n PROVE c[k] = data[pointer + k]
    BY <2>2, <2>3
  <2> QED BY <2>3, <2>4, <2>5
<1> HIDE DEF c, lo, hi
<1>3. ASSUME NEW k \in 1..n PROVE c[k] = At(t + k - 1)
  <2>1. k - 1 \in Nat /\ pointer + (k - 1) \in Nat /\ pointer + (k - 1) < Len(data)
    BY <1>1
  <2>2. (t + (k - 1)) % Len(data) = pointer + (k - 1)
    BY <1>1, <2>1, ModMod, ModSmall
  <2>3. t + k - 1 = t + (k - 1) /\ (pointer + (k - 1)) + 1 = pointer + k
    BY <1>1
  <2> QED BY <1>2, <2>2, <2>3 DEF At
<1> QED BY <1>2, <1>3 DEF c, lo, hi

\* Advancing past n bytes keeps the pointer on the stream and the flag exact.
LEMMA IncPointer ==
    ASSUME TypeOK, UsedUpInv, NEW n \in Nat, pointer = taken % Len(data),
           incPointer(n), taken' = taken + n, data' = data
    PROVE  /\ pointer' = taken' % Len(data) /\ pointer' \in 0..(Len(data) - 1)
           /\ usedUp' \in BOOLEAN /\ UsedUpInv'
<1>1. Len(data) \in Nat \ {0} /\ taken \in Nat /\ pointer \in Nat /\ pointer + n \in Nat
  BY DEF TypeOK
<1>2. pointer' = taken' % Len(data)
  BY <1>1, ModMod DEF incPointer
<1>3. pointer' \in 0..(Len(data) - 1)
  BY <1>1, DivMod DEF incPointer
<1>4. usedUp' = (usedUp \/ pointer + n >= Len(data))
  BY DEF incPointer
<1>5. pointer <= taken /\ (taken < Len(data) => pointer = taken)
  <2>1. CASE taken < Len(data) BY <1>1, <2>1, ModSmall
  <2>2. CASE taken >= Len(data) BY <1>1, <2>2 DEF TypeOK
  <2> QED BY <1>1, <2>1, <2>2
<1>6. taken' >= Len(data) <=> (taken >= Len(data) \/ pointer + n >= Len(data))
  BY <1>1, <1>5
<1> QED BY <1>2, <1>3, <1>4, <1>6 DEF UsedUpInv

-----------------------------------------------------------------------------
LEMMA InitIInv == Init => IInv
<1> SUFFICES ASSUME Init PROVE IInv
  OBVIOUS
<1>1. data \in Seq(Byte256) /\ Len(data) \in Nat /\ Len(data) > 0
  <2>1. PICK i \in Inputs : data = IF i = <<>> THEN <<0>> ELSE i
    BY DEF Init
  <2>2. i \in Seq(Byte256)
    BY InputAssumption
  <2>3. CASE i = <<>> BY <2>1, <2>3 DEF Byte256
  <2>4. CASE i # <<>> BY <2>1, <2>2, <2>4
  <2> QED BY <2>3, <2>4
<1>2. 0 % Len(data) = 0
  BY <1>1, ModSmall
<1>3. TypeOK
  <2>1. 0 \in 0..(Len(data) - 1) /\ <<>> \in Seq(Byte256) /\ 0 \in Nat
    BY <1>1
  <2> QED BY <1>1, <2>1 DEF Init, TypeOK
<1> QED BY <1>1, <1>2, <1>3 DEF Init, IInv, PointerInv, CopyInv, UsedUpInv

\* A call of Byte takes one byte of the stream.
LEMMA ByteIsTake ==
    ASSUME IInv, pc = "idle", Byte
    PROVE  /\ data' = data /\ taken' = taken + 1 /\ taken' \in Nat
           /\ out' \in Seq(Byte256) /\ Len(out') = 1 /\ out'[1] = At(taken)
           /\ pointer' = taken' % Len(data) /\ pointer' \in 0..(Len(data) - 1)
           /\ usedUp' \in BOOLEAN /\ UsedUpInv'
<1>1. TypeOK /\ UsedUpInv /\ pointer = taken % Len(data)
  BY DEF IInv, PointerInv
<1>2. out' = <<data[pointer + 1]>> /\ taken' = taken + 1 /\ data' = data /\ incPointer(1)
  BY DEF Byte, Return
<1>3. data[pointer + 1] \in Byte256 /\ taken \in Nat
  BY <1>1 DEF TypeOK
<1>4. out' \in Seq(Byte256) /\ Len(out') = 1 /\ out'[1] = At(taken)
  BY <1>1, <1>2, <1>3 DEF At
<1>5. /\ pointer' = taken' % Len(data) /\ pointer' \in 0..(Len(data) - 1)
      /\ usedUp' \in BOOLEAN /\ UsedUpInv'
  BY <1>1, <1>2, IncPointer
<1> QED BY <1>2, <1>3, <1>4, <1>5

-----------------------------------------------------------------------------
(* Every step keeps the invariant, and is a step of the stream or none.    *)

LEMMA TakeIsStream ==
    ASSUME out' \in Seq(Byte256), \A k \in 1..Len(out') : out'[k] = At(taken + k - 1),
           taken' = taken + Len(out'), data' = data
    PROVE  Stream!Take
<1>1. out' = [k \in 1..Len(out') |-> out'[k]]
  OBVIOUS
<1>2. out' = [k \in 1..Len(out') |-> Stream!At(taken + k - 1)]
  BY <1>1 DEF At, Stream!At
<1> QED BY <1>2 DEF Stream!Take

StreamStep == [Stream!Next]_<<data, taken, out>>

LEMMA TakeByteStep == IInv /\ TakeByte => IInv' /\ StreamStep
<1> SUFFICES ASSUME IInv, TakeByte PROVE IInv' /\ StreamStep
  OBVIOUS
<1>1. pc = "idle" /\ pc' = "idle" /\ Byte /\ want' = want /\ start' = start /\ b' = b
  BY DEF TakeByte, locals
<1>2. /\ data' = data /\ taken' = taken + 1 /\ taken' \in Nat
      /\ out' \in Seq(Byte256) /\ Len(out') = 1 /\ out'[1] = At(taken)
      /\ pointer' = taken' % Len(data) /\ pointer' \in 0..(Len(data) - 1)
      /\ usedUp' \in BOOLEAN /\ UsedUpInv'
  BY <1>1, ByteIsTake
<1>3. TypeOK'
  BY <1>1, <1>2 DEF IInv, TypeOK
<1>4. IInv'
  BY <1>1, <1>2, <1>3 DEF IInv, PointerInv, CopyInv
<1>5. \A k \in 1..Len(out') : out'[k] = At(taken + k - 1)
  <2>1. taken + 1 - 1 = taken
    BY DEF IInv, TypeOK
  <2> QED BY <1>2, <2>1
<1> QED BY <1>2, <1>4, <1>5, TakeIsStream DEF StreamStep, Stream!Next

LEMMA TakeCountedStep == IInv /\ TakeCounted => IInv' /\ StreamStep
<1> SUFFICES ASSUME IInv, TakeCounted PROVE IInv' /\ StreamStep
  OBVIOUS
<1>1. pc = "idle" /\ pc' = "slice" /\ Byte /\ start' = start /\ b' = b
  BY DEF TakeCounted
<1>2. /\ data' = data /\ taken' = taken + 1 /\ taken' \in Nat
      /\ out' \in Seq(Byte256) /\ Len(out') = 1 /\ out'[1] = At(taken)
      /\ pointer' = taken' % Len(data) /\ pointer' \in 0..(Len(data) - 1)
      /\ usedUp' \in BOOLEAN /\ UsedUpInv'
  BY <1>1, ByteIsTake
<1>3. want' \in Nat
  <2>1. data[pointer + 1] \in Byte256
    BY DEF IInv, TypeOK
  <2>2. data[pointer + 1] \in Nat
    BY <2>1 DEF Byte256
  <2> QED BY <2>2 DEF TakeCounted, WideInt, MemInt
<1>4. TypeOK'
  BY <1>1, <1>2, <1>3 DEF IInv, TypeOK
<1>5. IInv'
  BY <1>1, <1>2, <1>4 DEF IInv, PointerInv, CopyInv
<1>6. \A k \in 1..Len(out') : out'[k] = At(taken + k - 1)
  <2>1. taken + 1 - 1 = taken
    BY DEF IInv, TypeOK
  <2> QED BY <1>2, <2>1
<1> QED BY <1>2, <1>5, <1>6, TakeIsStream DEF StreamStep, Stream!Next

LEMMA TakeSliceStep == IInv /\ TakeSlice => IInv' /\ StreamStep
<1> SUFFICES ASSUME IInv, TakeSlice PROVE IInv' /\ StreamStep
  OBVIOUS
<1>1. /\ pc' = "slice" /\ pc = "idle" /\ want' \in Nat /\ start' = start /\ b' = b
      /\ data' = data /\ pointer' = pointer /\ usedUp' = usedUp
      /\ taken' = taken /\ out' = out
  BY LenAssumption DEF TakeSlice, fields
<1>2. TypeOK'
  BY <1>1 DEF IInv, TypeOK
<1> QED
  BY <1>1, <1>2 DEF IInv, PointerInv, CopyInv, UsedUpInv, StreamStep

LEMMA ResetStep == IInv /\ Reset => IInv' /\ StreamStep
<1> SUFFICES ASSUME IInv, Reset PROVE IInv' /\ StreamStep
  OBVIOUS
<1>1. /\ pc' = "idle" /\ want' = want /\ start' = start /\ b' = b
      /\ data' = data /\ pointer' = 0 /\ usedUp' = FALSE /\ taken' = 0 /\ out' = out
  BY DEF Reset, locals
<1>2. Len(data) \in Nat \ {0} /\ 0 % Len(data) = 0 /\ 0 \in 0..(Len(data) - 1)
  <2>1. Len(data) \in Nat \ {0}
    BY DEF IInv, TypeOK
  <2> QED BY <2>1, ModSmall
<1>3. TypeOK'
  BY <1>1, <1>2 DEF IInv, TypeOK
<1>4. PointerInv' /\ CopyInv' /\ UsedUpInv'
  BY <1>1, <1>2 DEF PointerInv, CopyInv, UsedUpInv
<1>5. Stream!Reset
  BY <1>1 DEF Stream!Reset
<1> QED BY <1>3, <1>4, <1>5 DEF IInv, StreamStep, Stream!Next

LEMMA SliceWithinStep == IInv /\ SliceWithin => IInv' /\ StreamStep
<1> SUFFICES ASSUME IInv, SliceWithin PROVE IInv' /\ StreamStep
  OBVIOUS
<1> DEFINE c == SubSeq(data, pointer + 1, pointer + want)
<1>1. /\ pc = "slice" /\ pc' = "idle" /\ pointer + want <= Len(data)
      /\ want' = want /\ start' = start /\ b' = b /\ data' = data
      /\ out' = c /\ taken' = taken + Len(c) /\ incPointer(want)
  BY DEF SliceWithin, Return, locals
<1>2. TypeOK /\ UsedUpInv /\ pointer = taken % Len(data) /\ want \in Nat /\ taken \in Nat
  BY <1>1 DEF IInv, PointerInv, TypeOK
<1>3. /\ c \in Seq(Byte256) /\ Len(c) = want
      /\ \A k \in 1..want : c[k] = At(taken + k - 1)
  BY <1>1, <1>2, ChunkIsStream
<1> HIDE DEF c
<1>4. /\ pointer' = taken' % Len(data) /\ pointer' \in 0..(Len(data) - 1)
      /\ usedUp' \in BOOLEAN /\ UsedUpInv'
  BY <1>1, <1>2, <1>3, IncPointer
<1>5. TypeOK'
  BY <1>1, <1>2, <1>3, <1>4 DEF TypeOK
<1>6. IInv'
  BY <1>1, <1>4, <1>5 DEF IInv, PointerInv, CopyInv
<1>7. Stream!Take
  BY <1>1, <1>3, TakeIsStream
<1> QED BY <1>6, <1>7 DEF StreamStep, Stream!Next

LEMMA StartWrapStep == IInv /\ StartWrap => IInv' /\ StreamStep
<1> SUFFICES ASSUME IInv, StartWrap PROVE IInv' /\ StreamStep
  OBVIOUS
<1>1. /\ pc = "slice" /\ pc' = "copy" /\ pointer + want > Len(data)
      /\ want' = want /\ start' = pointer /\ b' = <<>> /\ data' = data
      /\ pointer' = pointer /\ usedUp' = usedUp /\ taken' = taken /\ out' = out
  BY DEF StartWrap, fields
<1>2. TypeOK /\ pointer = taken % Len(data) /\ want \in Nat /\ taken \in Nat
  BY <1>1 DEF IInv, PointerInv, TypeOK
<1>3. TypeOK'
  BY <1>1, <1>2 DEF TypeOK
<1>4. CopyInv'
  <2>1. Len(b') = 0 /\ 1..Len(b') = {} /\ taken + 0 = taken
    BY <1>1, <1>2
  <2> QED BY <1>1, <1>2, <2>1 DEF CopyInv
<1> QED BY <1>1, <1>3, <1>4 DEF IInv, PointerInv, UsedUpInv, StreamStep

LEMMA CopyChunkStep == IInv /\ CopyChunk => IInv' /\ StreamStep
<1> SUFFICES ASSUME IInv, CopyChunk PROVE IInv' /\ StreamStep
  OBVIOUS
<1> DEFINE i  == Len(b)
           it == IF want - i < Len(data) - pointer THEN want - i ELSE Len(data) - pointer
           c  == SubSeq(data, pointer + 1, pointer + it)
<1>1. /\ pc = "copy" /\ pc' = "copy" /\ i < want
      /\ want' = want /\ start' = start /\ b' = b \o c /\ data' = data
      /\ pointer' = 0 /\ usedUp' = usedUp /\ taken' = taken /\ out' = out
  BY DEF CopyChunk
<1>2. /\ TypeOK /\ UsedUpInv /\ Len(data) \in Nat \ {0} /\ pointer \in 0..(Len(data) - 1)
      /\ want \in Nat /\ taken \in Nat /\ i \in Nat /\ b \in Seq(Byte256)
  BY DEF IInv, TypeOK
<1>3. /\ start = taken % Len(data) /\ start + want > Len(data)
      /\ pointer = (taken + i) % Len(data)
      /\ \A k \in 1..i : b[k] = At(taken + k - 1)
  BY <1>1 DEF IInv, CopyInv
<1>4. it \in Nat /\ pointer + it <= Len(data) /\ i + it <= want
      /\ (i + it < want => pointer + it = Len(data))
  BY <1>1, <1>2
<1> HIDE DEF it
<1>5. /\ c \in Seq(Byte256) /\ Len(c) = it
      /\ \A k \in 1..it : c[k] = At((taken + i) + k - 1)
  <2>1. taken + i \in Nat
    BY <1>2
  <2> QED BY <1>2, <1>3, <1>4, <2>1, ChunkIsStream
<1> HIDE DEF c
<1>6. /\ b' \in Seq(Byte256) /\ Len(b') = i + it
      /\ \A k \in 1..(i + it) : b'[k] = IF k <= i THEN b[k] ELSE c[k - i]
  BY <1>1, <1>2, <1>5, ConcatProperties
<1>7. ASSUME NEW k \in 1..(i + it) PROVE b'[k] = At(taken + k - 1)
  <2>1. CASE k <= i
    BY <1>2, <1>3, <1>4, <1>6, <2>1, SMTT(30)
  <2>2. CASE k > i
    <3>1. k - i \in 1..it /\ (taken + i) + (k - i) - 1 = taken + k - 1
      BY <1>2, <1>4, <2>2
    <3> QED BY <1>2, <1>4, <1>5, <1>6, <2>2, <3>1
  <2> QED BY <1>2, <1>4, <2>1, <2>2
<1>8. i + it < want => 0 = (taken + (i + it)) % Len(data)
  <2> SUFFICES ASSUME i + it < want PROVE 0 = (taken + (i + it)) % Len(data)
    OBVIOUS
  <2>1. pointer + it = Len(data) /\ taken + i \in Nat
    BY <1>2, <1>4
  <2>2. ((taken + i) + it) % Len(data) = Len(data) % Len(data)
    <3>1. (((taken + i) % Len(data)) + it) % Len(data) = ((taken + i) + it) % Len(data)
      BY <1>2, <1>4, <2>1, ModMod
    <3> QED BY <1>3, <2>1, <3>1
  <2>3. (taken + i) + it = taken + (i + it)
    BY <1>2, <1>4
  <2> QED BY <1>2, <2>2, <2>3, ModSelf
<1>9. TypeOK'
  BY <1>1, <1>2, <1>6 DEF TypeOK
<1>10. CopyInv'
  <2>1. \A k \in 1..Len(b') : b'[k] = At(taken + k - 1)'
    BY <1>1, <1>6, <1>7 DEF At
  <2> QED BY <1>1, <1>3, <1>4, <1>6, <1>8, <2>1 DEF CopyInv
<1> QED BY <1>1, <1>2, <1>9, <1>10 DEF IInv, PointerInv, UsedUpInv, StreamStep

LEMMA FinishWrapStep == IInv /\ FinishWrap => IInv' /\ StreamStep
<1> SUFFICES ASSUME IInv, FinishWrap PROVE IInv' /\ StreamStep
  OBVIOUS
<1>1. /\ pc = "copy" /\ pc' = "idle" /\ Len(b) = want
      /\ want' = want /\ start' = start /\ b' = b /\ data' = data
      /\ pointer' = (start + want) % Len(data) /\ usedUp' = TRUE
      /\ out' = b /\ taken' = taken + want
  BY DEF FinishWrap, Return, locals
<1>2. /\ TypeOK /\ Len(data) \in Nat \ {0} /\ want \in Nat /\ taken \in Nat
      /\ b \in Seq(Byte256) /\ start \in 0..(Len(data) - 1)
  BY DEF IInv, TypeOK
<1>3. /\ start = taken % Len(data) /\ start + want > Len(data)
      /\ \A k \in 1..Len(b) : b[k] = At(taken + k - 1)
  BY <1>1 DEF IInv, CopyInv
<1>4. pointer' = taken' % Len(data)
  BY <1>1, <1>2, <1>3, ModMod
<1>5. pointer' \in 0..(Len(data) - 1)
  <2>1. start + want \in Nat
    BY <1>2
  <2> QED BY <1>1, <1>2, <2>1, DivMod
<1>6. taken' >= Len(data)
  <2>1. start <= taken
    <3>1. CASE taken < Len(data) BY <1>2, <1>3, <3>1, ModSmall
    <3>2. CASE taken >= Len(data) BY <1>2, <3>2
    <3> QED BY <1>2, <3>1, <3>2
  <2>2. start + want > Len(data) /\ taken' = taken + want
    BY <1>1, <1>3
  <2>3. start \in Nat /\ want \in Nat /\ taken \in Nat /\ Len(data) \in Nat
    BY <1>2
  <2> QED BY <2>1, <2>2, <2>3
<1>7. TypeOK'
  BY <1>1, <1>2, <1>5 DEF TypeOK
<1>8. IInv'
  BY <1>1, <1>4, <1>6, <1>7 DEF IInv, PointerInv, CopyInv, UsedUpInv
<1>9. Stream!Take
  BY <1>1, <1>2, <1>3, TakeIsStream
<1> QED BY <1>8, <1>9 DEF StreamStep, Stream!Next

-----------------------------------------------------------------------------
LEMMA StepPreserves == IInv /\ [Next]_vars => IInv' /\ StreamStep
<1>1. IInv /\ UNCHANGED vars => IInv' /\ StreamStep
  BY DEF IInv, TypeOK, PointerInv, CopyInv, UsedUpInv, At, StreamStep, vars, fields, locals
<1> QED
  BY <1>1, TakeByteStep, TakeSliceStep, TakeCountedStep, ResetStep, SliceWithinStep,
     StartWrapStep, CopyChunkStep, FinishWrapStep DEF Next, ByteSlice

\* The fields and locals of the filler keep their types; the pointer never leaves
\* the data.
THEOREM TypeCorrect == Spec => []TypeOK
<1>1. IInv => TypeOK
  BY DEF IInv
<1> QED BY <1>1, InitIInv, StepPreserves, PTL DEF Spec

\* UsedUp is exact whatever was called before.
THEOREM UsedUpCorrect == Spec => []UsedUpIsExact
<1>1. IInv => UsedUpIsExact
  BY DEF IInv, UsedUpInv, UsedUpIsExact
<1> QED BY <1>1, InitIInv, StepPreserves, PTL DEF Spec

\* No byte of the input is skipped or repeated: the filler implements the stream.
THEOREM FillerIsByteStream == Spec => ImplementsByteStream
<1>1. Init => Stream!Init
  <2>1. Init => Len(data) > 0
    BY InitIInv DEF IInv, TypeOK
  <2> QED BY <2>1 DEF Init, Stream!Init
<1> QED
  BY <1>1, InitIInv, StepPreserves, PTL
  DEF Spec, ImplementsByteStream, Stream!Spec, StreamStep

-----------------------------------------------------------------------------
(* The selector on top of the filler.                                      *)

USE DEF table, search

\* To the filler, the selector is one more caller of ByteSlice.
THEOREM SelectorUsesFiller == SSpec => Spec
<1>1. SInit => Init
  BY DEF SInit
<1>2. [SNext]_svars => [Next]_vars
  BY DEF SNext, svars, Select, Fill, AddStrategy, Complete, Draw, StartSearch, Probe,
         Found, Next
<1> QED BY <1>1, <1>2, PTL DEF SSpec, Spec

\* The table as far as it was built.
TableInv ==
    /\ importances \in Seq(Int) /\ cum \in Seq(Nat) /\ total \in Nat
    /\ Len(cum) <= Len(importances) + 1
    /\ stage # "build" => Len(cum) = Len(importances) + 1
    /\ \A i \in 1..Len(cum) : cum[i] = Below(i) + Weight(i) /\ cum[i] > Below(i)
    /\ total = IF Len(cum) = 0 THEN 0 ELSE cum[Len(cum)]

\* Uint16 is ByteSlice(2).
DrawInv == stage = "draw" => want = 2 /\ (pc = "idle" => Len(out) = 2)

\* The strategy looked for is neither before low nor, but for the last, behind high.
LookupInv ==
    stage = "search" =>
        /\ drawn \in Nat /\ drawn < total
        /\ low \in Nat /\ high \in Nat /\ low <= high /\ high <= Len(cum)
        /\ low > 0 => cum[low] <= drawn
        /\ high < Len(cum) => drawn < cum[high + 1]

ChosenInv ==
    /\ stage = "build" => chosen = 0
    /\ stage = "ready" /\ chosen # 0 =>
          chosen \in 1..Len(cum) /\ Below(chosen) <= drawn /\ drawn < cum[chosen]

SelectorInv == TableInv /\ DrawInv /\ LookupInv /\ ChosenInv

LEMMA AddStrategyStep == SelectorInv /\ AddStrategy => SelectorInv'
<1> SUFFICES ASSUME SelectorInv, AddStrategy PROVE SelectorInv'
  OBVIOUS
<1> DEFINE n == Len(cum)
           w == Weight(n + 1)
<1>1. /\ stage = "build" /\ stage' = "build" /\ n < Len(importances) + 1
      /\ importances' = importances /\ total' = total + w /\ cum' = Append(cum, total + w)
      /\ chosen' = chosen
  BY DEF AddStrategy
<1>2. /\ importances \in Seq(Int) /\ cum \in Seq(Nat) /\ total \in Nat /\ n \in Nat
      /\ \A i \in 1..n : cum[i] = Below(i) + Weight(i) /\ cum[i] > Below(i)
      /\ total = IF n = 0 THEN 0 ELSE cum[n]
  BY DEF SelectorInv, TableInv
<1>3. w \in Nat /\ w > 0
  <2>1. n + 1 \in DOMAIN importances => importances[n + 1] \in Int
    BY <1>2
  <2> QED BY <2>1, WeightAssumption DEF Weight
<1>4. \A i : Weight(i)' = Weight(i)
  BY <1>1 DEF Weight
<1> HIDE DEF w
<1>5. /\ cum' \in Seq(Nat) /\ Len(cum') = n + 1 /\ cum'[n + 1] = total + w
      /\ \A i \in 1..n : cum'[i] = cum[i]
  BY <1>1, <1>2, <1>3
<1>6. ASSUME NEW i \in 1..(n + 1)
      PROVE  cum'[i] = Below(i)' + Weight(i)' /\ cum'[i] > Below(i)'
  <2>1. CASE i = n + 1
    <3>1. Below(i)' = total
      <4>1. CASE n = 0 BY <1>2, <2>1, <4>1 DEF Below
      <4>2. CASE n # 0
        <5>1. i # 1 /\ i - 1 = n /\ n \in 1..n
          BY <1>2, <2>1, <4>2
        <5> QED BY <1>2, <1>5, <4>2, <5>1 DEF Below
      <4> QED BY <4>1, <4>2
    <3> QED BY <1>2, <1>3, <1>4, <1>5, <2>1, <3>1 DEF w
  <2>2. CASE i # n + 1
    <3>1. i \in 1..n /\ (i # 1 => i - 1 \in 1..n)
      BY <1>2, <2>2
    <3>2. Below(i)' = Below(i)
      BY <1>5, <3>1 DEF Below
    <3> QED BY <1>2, <1>4, <1>5, <3>1, <3>2
  <2> QED BY <2>1, <2>2
<1>7. TableInv'
  BY <1>1, <1>2, <1>3, <1>5, <1>6, SMTT(30) DEF TableInv
<1> QED BY <1>1, <1>7 DEF SelectorInv, DrawInv, LookupInv, ChosenInv

\* The rest of the program leaves the table alone.
LEMMA TableKept ==
    ASSUME TableInv, UNCHANGED table, stage' # "build" => stage # "build"
    PROVE  TableInv' /\ Len(cum') = Len(cum) /\ \A i : Below(i)' = Below(i)
<1>1. importances' = importances /\ cum' = cum /\ total' = total
  OBVIOUS
<1>2. \A i : Below(i)' = Below(i) /\ Weight(i)' = Weight(i)
  BY <1>1 DEF Below, Weight
<1> QED BY <1>1, <1>2 DEF TableInv

LEMMA CompleteStep == SelectorInv /\ Complete => SelectorInv'
<1> SUFFICES ASSUME SelectorInv, Complete PROVE SelectorInv'
  OBVIOUS
<1>1. /\ stage = "build" /\ stage' \in {"ready", "panicked"}
      /\ Len(cum) = Len(importances) + 1
      /\ UNCHANGED table /\ UNCHANGED search
  BY DEF Complete
<1>2. TableInv'
  <2>1. \A i : Below(i)' = Below(i) /\ Weight(i)' = Weight(i)
    BY <1>1 DEF Below, Weight
  <2> QED BY <1>1, <2>1 DEF SelectorInv, TableInv
<1> QED BY <1>1, <1>2 DEF SelectorInv, DrawInv, LookupInv, ChosenInv

LEMMA DrawStep == TypeOK /\ SelectorInv /\ Draw => SelectorInv'
<1> SUFFICES ASSUME TypeOK, SelectorInv, Draw PROVE SelectorInv'
  OBVIOUS
<1>1. /\ stage = "ready" /\ stage' = "draw" /\ pc' = "slice" /\ want' = 2
      /\ UNCHANGED table /\ UNCHANGED search
  BY DEF Draw, TakeSlice
<1>2. TableInv'
  BY <1>1, TableKept DEF SelectorInv
<1> QED BY <1>1, <1>2 DEF SelectorInv, DrawInv, LookupInv, ChosenInv

\* The two bytes are there, and the table has a positive total.
LEMMA StartSearchStep == TypeOK /\ SelectorInv /\ StartSearch => SelectorInv'
<1> SUFFICES ASSUME TypeOK, SelectorInv, StartSearch PROVE SelectorInv'
  OBVIOUS
<1>1. /\ stage = "draw" /\ stage' = "search" /\ pc = "idle"
      /\ drawn' = (256 * out[1] + out[2]) % total /\ low' = 0 /\ high' = Len(cum)
      /\ UNCHANGED table
  BY DEF StartSearch
<1>2. TableInv'
  BY <1>1, TableKept DEF SelectorInv
<1>3. out[1] \in Nat /\ out[2] \in Nat
  <2>1. Len(out) = 2 /\ out \in Seq(Byte256)
    BY <1>1 DEF SelectorInv, DrawInv, TypeOK
  <2>2. out[1] \in Byte256 /\ out[2] \in Byte256
    BY <2>1
  <2> QED BY <2>2 DEF Byte256
<1>4. Len(cum) \in Nat /\ Len(cum) > 0 /\ total \in Nat /\ total > 0
  <2> DEFINE n == Len(cum)
  <2>1. /\ n = Len(importances) + 1 /\ importances \in Seq(Int) /\ cum \in Seq(Nat)
        /\ total \in Nat /\ total = IF n = 0 THEN 0 ELSE cum[n]
        /\ \A i \in 1..n : cum[i] > Below(i)
    BY <1>1 DEF SelectorInv, TableInv
  <2>2. n \in Nat /\ n > 0 /\ n \in 1..n
    BY <2>1
  <2>3. Below(n) \in Nat
    <3>1. n # 1 => n - 1 \in 1..n
      BY <2>2
    <3> QED BY <2>1, <3>1 DEF Below
  <2>4. cum[n] > Below(n) /\ total = cum[n]
    BY <2>1, <2>2
  <2> QED BY <2>1, <2>2, <2>3, <2>4
<1>5. drawn' \in Nat /\ drawn' < total
  <2>1. 256 * out[1] + out[2] \in Nat /\ total \in Nat \ {0}
    BY <1>3, <1>4
  <2>2. drawn' \in 0..(total - 1)
    BY <1>1, <2>1, DivMod
  <2> QED BY <1>4, <2>2
<1>6. LookupInv'
  BY <1>1, <1>4, <1>5 DEF LookupInv
<1> QED BY <1>1, <1>2, <1>6 DEF SelectorInv, DrawInv, ChosenInv

LEMMA ProbeStep == SelectorInv /\ Probe => SelectorInv'
<1> SUFFICES ASSUME SelectorInv, Probe PROVE SelectorInv'
  OBVIOUS
<1> DEFINE mid == (low + high) \div 2
<1>1. /\ stage = "search" /\ stage' = "search" /\ low < high
      /\ IF cum[mid + 1] > drawn THEN high' = mid /\ low' = low
                                 ELSE low' = mid + 1 /\ high' = high
      /\ drawn' = drawn /\ chosen' = chosen /\ UNCHANGED table
  BY DEF Probe
<1>2. TableInv'
  BY <1>1, TableKept DEF SelectorInv
<1>3. /\ drawn \in Nat /\ drawn < total
      /\ low \in Nat /\ high \in Nat /\ low <= high /\ high <= Len(cum)
      /\ low > 0 => cum[low] <= drawn
      /\ high < Len(cum) => drawn < cum[high + 1]
      /\ cum \in Seq(Nat) /\ Len(cum) \in Nat
  BY <1>1 DEF SelectorInv, LookupInv, TableInv
<1>4. mid \in Nat /\ low <= mid /\ mid < high /\ mid + 1 \in Nat
  BY <1>1, <1>3
<1>5. cum[mid + 1] \in Nat
  BY <1>3, <1>4
<1> HIDE DEF mid
<1>6. LookupInv'
  BY <1>1, <1>3, <1>4, <1>5, SMTT(30) DEF LookupInv
<1> QED BY <1>1, <1>2, <1>6 DEF SelectorInv, DrawInv, ChosenInv

\* The interval is empty before the end of the table, because total is never drawn.
LEMMA FoundStep == SelectorInv /\ Found => SelectorInv'
<1> SUFFICES ASSUME SelectorInv, Found PROVE SelectorInv'
  OBVIOUS
<1>1. /\ stage = "search" /\ stage' = "ready" /\ low >= high
      /\ chosen' = low + 1 /\ drawn' = drawn /\ UNCHANGED table
  BY DEF Found
<1>2. TableInv' /\ \A i : Below(i)' = Below(i)
  BY <1>1, TableKept DEF SelectorInv
<1>3. /\ drawn \in Nat /\ drawn < total
      /\ low \in Nat /\ high \in Nat /\ low <= high /\ high <= Len(cum)
      /\ low > 0 => cum[low] <= drawn
      /\ high < Len(cum) => drawn < cum[high + 1]
      /\ cum \in Seq(Nat) /\ Len(cum) \in Nat
      /\ total = IF Len(cum) = 0 THEN 0 ELSE cum[Len(cum)]
  BY <1>1 DEF SelectorInv, LookupInv, TableInv
<1>4. low = high
  BY <1>1, <1>3
<1>5. high < Len(cum)
  <2> SUFFICES ASSUME high = Len(cum) PROVE FALSE
    BY <1>3
  <2>1. CASE Len(cum) = 0 BY <1>3, <2>1
  <2>2. CASE Len(cum) # 0
    <3>1. cum[Len(cum)] \in Nat
      BY <1>3, <2>2
    <3> QED BY <1>3, <1>4, <2>2, <3>1
  <2> QED BY <2>1, <2>2
<1>6. low + 1 \in 1..Len(cum) /\ drawn < cum[low + 1]
  BY <1>3, <1>4, <1>5
<1>7. Below(low + 1) <= drawn
  <2>1. CASE low = 0 BY <1>3, <2>1 DEF Below
  <2>2. CASE low # 0
    <3>1. low + 1 # 1 /\ (low + 1) - 1 = low /\ low > 0
      BY <1>3, <2>2
    <3> QED BY <1>3, <3>1 DEF Below
  <2> QED BY <2>1, <2>2
<1>8. ChosenInv'
  BY <1>1, <1>2, <1>6, <1>7 DEF ChosenInv
<1> QED BY <1>1, <1>2, <1>8 DEF SelectorInv, DrawInv, LookupInv

\* The filler returns as many bytes as it was asked for.
LEMMA FillStep == TypeOK /\ SelectorInv /\ Fill => SelectorInv'
<1> SUFFICES ASSUME TypeOK, SelectorInv, Fill PROVE SelectorInv'
  OBVIOUS
<1>1. /\ stage \in {"ready", "draw"} /\ stage' = stage
      /\ UNCHANGED table /\ UNCHANGED search
  BY DEF Fill
<1>2. TableInv' /\ \A i : Below(i)' = Below(i)
  BY <1>1, TableKept DEF SelectorInv
<1>3. ASSUME stage = "draw" PROVE DrawInv'
  <2>1. want = 2 /\ ByteSlice
    BY <1>3 DEF SelectorInv, DrawInv, Fill
  <2>2. CASE SliceWithin
    <3> DEFINE lo == pointer + 1
               hi == pointer + want
    <3>1. out' = SubSeq(data, lo, hi) /\ want' = want /\ hi <= Len(data)
      BY <2>2 DEF SliceWithin, Return, locals
    <3>2. lo \in Int /\ hi \in Int /\ lo <= hi /\ hi - lo + 1 = 2
          /\ \A i \in lo..hi : data[i] \in Byte256
      BY <2>1, <3>1 DEF TypeOK
    <3> HIDE DEF lo, hi
    <3>3. Len(SubSeq(data, lo, hi)) = IF lo <= hi THEN hi - lo + 1 ELSE 0
      BY <3>2, SubSeqProperties
    <3> QED BY <2>1, <3>1, <3>2, <3>3 DEF DrawInv
  <2>3. CASE StartWrap
    BY <2>1, <2>3 DEF StartWrap, DrawInv
  <2>4. CASE CopyChunk
    BY <2>1, <2>4 DEF CopyChunk, DrawInv
  <2>5. CASE FinishWrap
    BY <2>1, <2>5 DEF FinishWrap, Return, locals, DrawInv
  <2> QED BY <2>1, <2>2, <2>3, <2>4, <2>5 DEF ByteSlice
<1>4. DrawInv'
  BY <1>1, <1>3 DEF DrawInv
<1> QED BY <1>1, <1>2, <1>4 DEF SelectorInv, LookupInv, ChosenInv

LEMMA SelectorInvHolds == SSpec => []SelectorInv
<1>1. SInit => SelectorInv
  <2> SUFFICES ASSUME SInit PROVE SelectorInv
    OBVIOUS
  <2>1. importances \in Seq(Int) /\ cum = <<>> /\ total = 0 /\ stage = "build" /\ chosen = 0
    BY WeightAssumption DEF SInit
  <2> QED BY <2>1 DEF SelectorInv, TableInv, DrawInv, LookupInv, ChosenInv
<1>2. TypeOK /\ SelectorInv /\ [SNext]_svars => SelectorInv'
  <2>1. SelectorInv /\ UNCHANGED svars => SelectorInv'
    BY DEF svars, vars, fields, locals, SelectorInv, TableInv, DrawInv, LookupInv,
           ChosenInv, Below, Weight
  <2> QED
    BY <2>1, AddStrategyStep, CompleteStep, DrawStep, StartSearchStep, ProbeStep, FoundStep,
       FillStep DEF SNext, Select
<1>3. SSpec => []TypeOK
  BY SelectorUsesFiller, TypeCorrect, PTL
<1> QED BY <1>1, <1>2, <1>3, PTL DEF SSpec

\* Whatever the importances and the bytes drawn, Select returns the strategy in whose
\* share the number lies, and the shares are as long as the weights.
THEOREM SelectionIsWeighted == SSpec => []SelectsByWeight
<1>1. SelectorInv => SelectsByWeight
  <2> SUFFICES ASSUME SelectorInv, stage = "ready" PROVE SelectsByWeight
    BY DEF SelectsByWeight
  <2>1. Len(cum) = Len(importances) + 1 /\ Len(cum) \in Nat /\ Len(cum) # 0
    <3>1. importances \in Seq(Int) /\ Len(cum) = Len(importances) + 1
      BY DEF SelectorInv, TableInv
    <3> QED BY <3>1
  <2> QED BY <2>1 DEF SelectorInv, TableInv, ChosenInv, SelectsByWeight, Strategies
<1> QED BY <1>1, SelectorInvHolds, PTL

=============================================================================
