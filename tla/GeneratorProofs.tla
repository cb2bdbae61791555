--------------------------- MODULE GeneratorProofs ---------------------------
(***************************************************************************)
(* One budget bounds the whole tree of nested generations, for every limit *)
(* on bytes and depth and however large the strategies are; what they emit *)
(* keeps the bounds that this counts with; and the jumps among it land     *)
(* where the strategies that emit them mean them to.                       *)
(***************************************************************************)
EXTENDS Generator, NatLemmas, SequenceTheorems, TLAPS

LevelType == [rounds : Nat, len : Nat, prev : Nat]

\* Between two strategies nothing has been emitted that prev does not know of.
PrevInv == \A d \in 1..Depth : levels[d].prev = levels[d].len

\* The rounds of a level that waits for a nested one are not used up.
WaitInv == \A d \in 1..(Depth - 1) : levels[d].rounds > 0

\* The recursion is not deeper than the limit.
DepthInv == Depth <= MaxRecursionLevel + 1

\* The calls of generateCode in progress, the first counted even when it is over.
InProgress == IF levels = <<>> THEN 1 ELSE Depth

\* Every level that has returned has taken the budget at most one empty
\* create-and-call further below zero.
FloorInv == budget + MaxEmit + ((MaxRecursionLevel + 1 - InProgress) * MaxCall) >= 0

\* Every call of generateCode that is over has cost its caller a create-and-call.
CallsInv == (calls - InProgress) * MinCall <= emitted

IInv == /\ BTypeOK /\ PrevInv /\ WaitInv /\ DepthInv
        /\ Accounting /\ FloorInv /\ CallsInv

-----------------------------------------------------------------------------
(* Arithmetic.                                                             *)

\* What is embedded for a quarter of the budget fits the budget.
LEMMA SpreadFits ==
    ASSUME NEW b \in Nat
    PROVE  GoDiv(b, 4) \in Nat /\ Spread * GoDiv(b, 4) <= b
<1>1. GoDiv(b, 4) \in Nat /\ 4 * GoDiv(b, 4) <= b
  BY DEF GoDiv
<1>2. Spread * GoDiv(b, 4) <= 4 * GoDiv(b, 4)
  BY <1>1, BudgetAssumption, TimesMonotone
<1> QED BY <1>1, <1>2, BudgetAssumption

\* A nested program costs at most MaxCall bytes that the budget does not have.
LEMMA CallSize ==
    ASSUME NEW b \in Int, NEW n \in CallSizes(b)
    PROVE  n \in Nat /\ MinCall <= n /\ (n <= b + MaxCall \/ (b < 0 /\ n <= MaxCall))
<1>1. CASE b < 0
  BY <1>1, BudgetAssumption DEF CallSizes
<1>2. CASE b >= 0
  <2>1. b \in Nat
    BY <1>2
  <2>2. Spread * GoDiv(b, 4) <= b /\ Spread * GoDiv(b, 4) \in Int
    BY <2>1, SpreadFits, BudgetAssumption
  <2>3. n \in MinCall..(MaxCall + (Spread * GoDiv(b, 4)))
    BY <1>2 DEF CallSizes
  <2> QED BY <2>2, <2>3, BudgetAssumption
<1> QED BY <1>1, <1>2

\* What CreateAndCall keeps of the init code is a part of it, and not more than a
\* quarter of the budget: the slice expression never panics, also when nested
\* programs have left the budget negative.
THEOREM TruncateInRange ==
    ASSUME NEW size \in Nat, NEW b \in Int
    PROVE  /\ Truncate(size, b) \in 0..size
           /\ b >= 0 => 4 * Truncate(size, b) <= b
           /\ b < 4 => Truncate(size, b) = 0
<1>1. CASE b >= 0
  <2>1. GoDiv(b, 4) \in Nat /\ 4 * GoDiv(b, 4) <= b /\ (b < 4 => GoDiv(b, 4) = 0)
    BY <1>1 DEF GoDiv
  <2> QED BY <1>1, <2>1 DEF Truncate
<1>2. CASE b < 0
  <2>1. GoDiv(b, 4) \in Int /\ GoDiv(b, 4) <= 0
    BY <1>2 DEF GoDiv
  <2> QED BY <1>2, <2>1 DEF Truncate
<1> QED BY <1>1, <1>2

-----------------------------------------------------------------------------
\* What the end of a round of level d does, when d is the innermost level or the
\* one around it.
LEMMA GrowFacts ==
    ASSUME IInv, NEW d \in 1..Depth, levels[d].rounds > 0, NEW n \in Nat, Grow(d, n)
    PROVE  /\ levels' \in Seq(LevelType) /\ Len(levels') = d
           /\ budget' = budget - n /\ emitted' = emitted + n
           /\ PrevInv' /\ WaitInv' /\ Accounting'
<1> DEFINE l == levels[d]
           new == [rounds |-> l.rounds - 1, len |-> l.len + n, prev |-> l.len + n]
           outer == SubSeq(levels, 1, d - 1)
<1>1. levels \in Seq(LevelType) /\ Depth \in Nat /\ l \in LevelType /\ l.prev = l.len
      /\ budget \in Int /\ emitted \in Nat
  <2>1. levels \in Seq(LevelType) /\ budget \in Int /\ emitted \in Nat
    BY DEF IInv, BTypeOK, LevelType
  <2>2. Depth \in Nat /\ l \in LevelType
    BY <2>1 DEF Depth
  <2>3. l.prev = l.len
    BY DEF IInv, PrevInv
  <2> QED BY <2>1, <2>2, <2>3
<1>2. new \in LevelType
  BY <1>1, SMTT(30) DEF LevelType
<1>3. outer \in Seq(LevelType) /\ Len(outer) = d - 1
      /\ \A i \in 1..(d - 1) : outer[i] = levels[i]
  BY <1>1 DEF Depth
<1>4. levels' = Append(outer, new)
  BY DEF Grow
<1> HIDE DEF outer, new
<1>5. levels' \in Seq(LevelType) /\ Len(levels') = d
      /\ levels'[d] = new /\ \A i \in 1..(d - 1) : levels'[i] = levels[i]
  BY <1>2, <1>3, <1>4
<1>6. budget' = budget - n /\ emitted' = emitted + n
  BY <1>1 DEF Grow, LevelType
<1>7. PrevInv'
  <2>1. ASSUME NEW i \in 1..d PROVE levels'[i].prev = levels'[i].len
    <3>1. CASE i = d BY <1>5, <3>1 DEF new
    <3>2. CASE i # d BY <1>1, <1>5, <3>2 DEF IInv, PrevInv
    <3> QED BY <3>1, <3>2
  <2> QED BY <1>5, <2>1 DEF PrevInv, Depth
<1>8. WaitInv'
  <2>1. ASSUME NEW i \in 1..(d - 1) PROVE levels'[i].rounds > 0
    BY <1>1, <1>5 DEF IInv, WaitInv
  <2> QED BY <1>5, <2>1 DEF WaitInv, Depth
<1>9. Accounting'
  BY <1>1, <1>6, BudgetAssumption DEF IInv, Accounting
<1> QED BY <1>5, <1>6, <1>7, <1>8, <1>9

-----------------------------------------------------------------------------
LEMMA InitIInv == BInit => IInv
<1> SUFFICES ASSUME BInit PROVE IInv
  OBVIOUS
<1>1. PICK c \in Counters : levels = <<Level(c)>>
  BY DEF BInit
<1>2. Level(c) \in LevelType /\ levels \in Seq(LevelType) /\ Len(levels) = 1
      /\ levels[1] = Level(c)
  BY <1>1, BudgetAssumption DEF Level, LevelType
<1>3. BTypeOK
  BY <1>2, BudgetAssumption DEF BTypeOK, BInit, LevelType
<1>4. PrevInv /\ WaitInv /\ DepthInv
  BY <1>2, BudgetAssumption DEF PrevInv, WaitInv, DepthInv, Depth, Level
<1>5. Accounting
  BY BudgetAssumption DEF Accounting, BInit
<1>6. InProgress = 1
  BY <1>2 DEF InProgress, Depth
<1>7. (MaxRecursionLevel + 1 - 1) * MaxCall >= 0
  BY BudgetAssumption, TimesMonotone
<1>8. FloorInv /\ CallsInv
  BY <1>6, <1>7, BudgetAssumption DEF FloorInv, CallsInv, BInit
<1> QED BY <1>3, <1>4, <1>5, <1>8 DEF IInv

LEMMA ExecuteStep ==
    ASSUME IInv, NEW n \in 0..MaxEmit, Execute(n)
    PROVE  IInv'
<1>1. levels \in Seq(LevelType) /\ Depth \in Nat \ {0} /\ n \in Nat /\ budget \in Int
      /\ calls \in Nat /\ emitted \in Nat /\ calls' = calls
      /\ levels[Depth].rounds > 0 /\ budget > 0 /\ Grow(Depth, n)
  BY BudgetAssumption DEF IInv, BTypeOK, LevelType, Execute, Looping, Depth
<1>2. /\ levels' \in Seq(LevelType) /\ Len(levels') = Depth
      /\ budget' = budget - n /\ emitted' = emitted + n
      /\ PrevInv' /\ WaitInv' /\ Accounting'
  BY <1>1, GrowFacts
<1>3. InProgress' = Depth /\ InProgress = Depth /\ Depth' = Depth
  BY <1>1, <1>2 DEF InProgress, Depth
<1>4. BTypeOK' /\ DepthInv'
  BY <1>1, <1>2, <1>3 DEF BTypeOK, LevelType, DepthInv, IInv
<1>5. FloorInv'
  <2> DEFINE above == MaxRecursionLevel + 1 - Depth
  <2>1. above \in Nat
    BY <1>1, BudgetAssumption DEF IInv, DepthInv
  <2>2. above * MaxCall \in Nat
    BY <2>1, BudgetAssumption
  <2> HIDE DEF above
  <2>3. budget' + MaxEmit + (above * MaxCall) >= 0
    BY <1>1, <1>2, <2>2, BudgetAssumption
  <2> QED BY <1>3, <2>3 DEF FloorInv, above
<1>6. CallsInv'
  <2>1. (calls - Depth) * MinCall \in Int /\ (calls - Depth) * MinCall <= emitted
    BY <1>1, <1>3, BudgetAssumption DEF IInv, CallsInv
  <2>2. (calls - Depth) * MinCall <= emitted'
    BY <1>1, <1>2, <2>1
  <2> QED BY <1>1, <1>3, <2>2 DEF CallsInv
<1> QED BY <1>2, <1>4, <1>5, <1>6 DEF IInv

LEMMA NestStep ==
    ASSUME IInv, NEW c \in Counters, Nest(c)
    PROVE  IInv'
<1>1. /\ levels \in Seq(LevelType) /\ Depth \in Nat \ {0} /\ budget \in Int
      /\ calls \in Nat /\ emitted \in Nat /\ calls' = calls + 1
      /\ budget' = budget /\ emitted' = emitted
      /\ levels[Depth].rounds > 0 /\ budget > 0 /\ Depth - 1 < MaxRecursionLevel
      /\ levels' = Append(levels, Level(c))
  BY DEF IInv, BTypeOK, LevelType, Nest, MayNest, Looping, Depth
<1>2. Level(c) \in LevelType /\ Level(c).prev = Level(c).len
  BY BudgetAssumption DEF Level, LevelType
<1>3. levels' \in Seq(LevelType) /\ Len(levels') = Depth + 1
      /\ levels'[Depth + 1] = Level(c) /\ \A i \in 1..Depth : levels'[i] = levels[i]
  BY <1>1, <1>2 DEF Depth
<1>4. InProgress' = Depth + 1 /\ InProgress = Depth /\ Depth' = Depth + 1
  BY <1>1, <1>3 DEF InProgress, Depth
<1>5. BTypeOK' /\ DepthInv' /\ Accounting'
  BY <1>1, <1>3, <1>4, BudgetAssumption, SMTT(30) DEF BTypeOK, LevelType, DepthInv, IInv, Accounting
<1>6. PrevInv'
  <2>1. ASSUME NEW i \in 1..(Depth + 1) PROVE levels'[i].prev = levels'[i].len
    <3>1. CASE i = Depth + 1 BY <1>2, <1>3, <3>1
    <3>2. CASE i # Depth + 1 BY <1>1, <1>3, <3>2 DEF IInv, PrevInv
    <3> QED BY <3>1, <3>2
  <2> QED BY <1>4, <2>1 DEF PrevInv
<1>7. WaitInv'
  <2>1. ASSUME NEW i \in 1..Depth PROVE levels'[i].rounds > 0
    <3>1. CASE i = Depth BY <1>1, <1>3, <3>1
    <3>2. CASE i # Depth BY <1>1, <1>3, <3>2 DEF IInv, WaitInv
    <3> QED BY <3>1, <3>2
  <2>2. Depth' - 1 = Depth
    BY <1>1, <1>4
  <2> QED BY <2>1, <2>2 DEF WaitInv
<1>8. FloorInv'
  <2> DEFINE above == MaxRecursionLevel + 1 - (Depth + 1)
  <2>1. above \in Nat
    BY <1>1, BudgetAssumption
  <2>2. above * MaxCall \in Nat
    BY <2>1, BudgetAssumption
  <2> HIDE DEF above
  <2>3. budget' + MaxEmit + (above * MaxCall) >= 0
    BY <1>1, <2>2, BudgetAssumption
  <2> QED BY <1>4, <2>3 DEF FloorInv, above
<1>9. CallsInv'
  <2>1. calls' - InProgress' = calls - InProgress
    BY <1>1, <1>4
  <2> QED BY <1>1, <2>1 DEF CallsInv, IInv
<1> QED BY <1>5, <1>6, <1>7, <1>8, <1>9 DEF IInv

LEMMA ReturnStep ==
    ASSUME IInv, NEW n \in CallSizes(budget), Return(n)
    PROVE  IInv'
<1>1. /\ levels \in Seq(LevelType) /\ Depth \in Nat /\ Depth > 1 /\ budget \in Int
      /\ calls \in Nat /\ emitted \in Nat /\ calls' = calls
      /\ Grow(Depth - 1, n)
  BY DEF IInv, BTypeOK, LevelType, Return, Depth
<1>2. n \in Nat /\ MinCall <= n
      /\ (n <= budget + MaxCall \/ (budget < 0 /\ n <= MaxCall))
  BY <1>1, CallSize
<1> DEFINE d == Depth - 1
<1>3. d \in 1..Depth /\ d \in Nat \ {0} /\ Depth = d + 1 /\ levels[d].rounds > 0
  BY <1>1 DEF IInv, WaitInv
<1> HIDE DEF d
<1>4. /\ levels' \in Seq(LevelType) /\ Len(levels') = d
      /\ budget' = budget - n /\ emitted' = emitted + n
      /\ PrevInv' /\ WaitInv' /\ Accounting'
  BY <1>1, <1>2, <1>3, GrowFacts DEF d
<1>5. InProgress' = d /\ InProgress = d + 1 /\ Depth' = d
  BY <1>1, <1>3, <1>4 DEF InProgress, Depth
<1>6. BTypeOK' /\ DepthInv'
  BY <1>1, <1>2, <1>3, <1>4, <1>5, BudgetAssumption DEF BTypeOK, LevelType, DepthInv, IInv
<1>7. FloorInv'
  <2> DEFINE above == MaxRecursionLevel + 1 - (d + 1)
             room  == above * MaxCall
  <2>1. above \in Nat
    BY <1>1, <1>3, BudgetAssumption DEF IInv, DepthInv
  <2>2. room \in Nat
    BY <2>1, BudgetAssumption
  <2>3. budget + MaxEmit + room >= 0
    BY <1>5 DEF IInv, FloorInv
  <2>4. (MaxRecursionLevel + 1 - d) * MaxCall = room + MaxCall
    <3>1. MaxRecursionLevel + 1 - d = above + 1
      BY <1>3, BudgetAssumption
    <3> HIDE DEF above
    <3> QED BY <2>1, <3>1, TimesSuccessor, BudgetAssumption
  <2> HIDE DEF room
  <2>5. budget' + MaxEmit + (room + MaxCall) >= 0
    BY <1>1, <1>2, <1>4, <2>2, <2>3, BudgetAssumption, SMTT(30)
  <2> QED BY <1>5, <2>4, <2>5 DEF FloorInv
<1>8. CallsInv'
  <2> DEFINE over == calls - (d + 1)
             cost == over * MinCall
  <2>1. over \in Int /\ cost \in Int /\ cost <= emitted
    BY <1>1, <1>3, <1>5, BudgetAssumption DEF IInv, CallsInv
  <2>2. calls - d = over + 1
    BY <1>1, <1>3
  <2>3. (over + 1) * MinCall = cost + MinCall
    <3> HIDE DEF over
    <3> QED BY <2>1, TimesSuccessor, BudgetAssumption
  <2> HIDE DEF cost, over
  <2>4. cost + MinCall <= emitted'
    BY <1>1, <1>2, <1>4, <2>1, BudgetAssumption, SMTT(30)
  <2> QED BY <1>1, <1>5, <2>2, <2>3, <2>4 DEF CallsInv
<1> QED BY <1>4, <1>6, <1>7, <1>8 DEF IInv

LEMMA FinishStep ==
    ASSUME IInv, Finish
    PROVE  IInv'
<1>1. /\ Depth = 1 /\ levels' = <<>> /\ budget' = budget
      /\ calls' = calls /\ emitted' = emitted
  BY DEF Finish
<1>2. InProgress = 1 /\ InProgress' = 1 /\ Depth' = 0
  BY <1>1 DEF InProgress, Depth
<1>3. BTypeOK' /\ PrevInv' /\ WaitInv' /\ DepthInv' /\ Accounting'
  BY <1>1, <1>2, BudgetAssumption
     DEF IInv, BTypeOK, PrevInv, WaitInv, DepthInv, Accounting, LevelType
<1>4. FloorInv' /\ CallsInv'
  BY <1>1, <1>2 DEF IInv, FloorInv, CallsInv
<1> QED BY <1>3, <1>4 DEF IInv

LEMMA StepIInv == IInv /\ [BNext]_bvars => IInv'
<1> SUFFICES ASSUME IInv, [BNext]_bvars PROVE IInv'
  OBVIOUS
<1>1. CASE \E n \in 0..MaxEmit : Execute(n) BY <1>1, ExecuteStep
<1>2. CASE \E c \in Counters : Nest(c) BY <1>2, NestStep
<1>3. CASE \E n \in CallSizes(budget) : Return(n) BY <1>3, ReturnStep
<1>4. CASE Finish BY <1>4, FinishStep
<1>5. CASE UNCHANGED bvars
  BY <1>5 DEF bvars, IInv, BTypeOK, PrevInv, WaitInv, DepthInv, Accounting, FloorInv,
              CallsInv, InProgress, Depth
<1> QED BY <1>1, <1>2, <1>3, <1>4, <1>5 DEF BNext

-----------------------------------------------------------------------------
LEMMA IInvHolds == BSpec => []IInv
BY InitIInv, StepIInv, PTL DEF BSpec

\* The variables keep their types, and no byte is charged twice or not at all.
THEOREM AccountingHolds == BSpec => [](BTypeOK /\ Accounting)
<1>1. IInv => BTypeOK /\ Accounting
  BY DEF IInv
<1> QED BY <1>1, IInvHolds, PTL

\* However programs nest, all of them together pass maxTotalBytes by at most one
\* strategy and one empty create-and-call per level.
THEOREM BudgetBoundHolds == BSpec => []BudgetBound
<1>1. ASSUME IInv PROVE BudgetBound
  <2>1. InProgress \in Nat \ {0} /\ InProgress <= MaxRecursionLevel + 1
    BY <1>1, BudgetAssumption DEF IInv, BTypeOK, InProgress, Depth, DepthInv
  <2>2. (MaxRecursionLevel + 1 - InProgress) * MaxCall <= MaxRecursionLevel * MaxCall
    <3>1. /\ MaxRecursionLevel + 1 - InProgress \in Int
          /\ MaxRecursionLevel + 1 - InProgress <= MaxRecursionLevel
      BY <2>1, BudgetAssumption
    <3> QED BY <3>1, BudgetAssumption, TimesMonotone
  <2>3. /\ MaxRecursionLevel * MaxCall \in Int
        /\ (MaxRecursionLevel + 1 - InProgress) * MaxCall \in Int
    BY <2>1, BudgetAssumption
  <2>4. /\ budget \in Int /\ emitted \in Nat /\ budget + emitted = MaxTotalBytes
        /\ budget + MaxEmit + ((MaxRecursionLevel + 1 - InProgress) * MaxCall) >= 0
    BY <1>1 DEF IInv, BTypeOK, Accounting, FloorInv
  <2> QED BY <2>2, <2>3, <2>4, BudgetAssumption DEF BudgetBound
<1> QED BY <1>1, IInvHolds, PTL

\* The number of nested generations is bounded by the bytes, whatever the counters
\* of the programs and the depth.
THEOREM TreeBoundedHolds == BSpec => []TreeBounded
<1>1. ASSUME IInv PROVE TreeBounded
  <2>1. InProgress \in Nat /\ InProgress <= MaxRecursionLevel + 1
    BY <1>1, BudgetAssumption DEF IInv, BTypeOK, InProgress, Depth, DepthInv
  <2>2. calls \in Nat /\ emitted \in Nat /\ (calls - InProgress) * MinCall <= emitted
    BY <1>1 DEF IInv, BTypeOK, CallsInv
  <2>3. (calls - (MaxRecursionLevel + 1)) * MinCall <= (calls - InProgress) * MinCall
    BY <2>1, <2>2, BudgetAssumption, TimesMonotone
  <2>4. /\ (calls - (MaxRecursionLevel + 1)) * MinCall \in Int
        /\ (calls - InProgress) * MinCall \in Int
    BY <2>1, <2>2, BudgetAssumption
  <2> QED BY <2>2, <2>3, <2>4 DEF TreeBounded
<1> QED BY <1>1, IInvHolds, PTL

-----------------------------------------------------------------------------
(* The assembler.                                                          *)

Code == Seq(0..JUMPDEST)
Shapes == Seq(0..32)

\* FlattenSeq concatenates from left to right.
LEMMA FlattenEquation ==
    ASSUME NEW S, NEW seqs \in Seq(Seq(S)), seqs # <<>>
    PROVE  \E c : /\ c[1] = seqs[1]
                  /\ \A i \in 1..(Len(seqs) - 1) : c[i + 1] = c[i] \o seqs[i + 1]
                  /\ FlattenSeq(seqs) = c[Len(seqs)]
<1> DEFINE N == Len(seqs)
           C == Seq(S)
           F == [i \in 1..N |-> [s \in C |-> IF i = 1 THEN seqs[i] ELSE s \o seqs[i]]]
           Equation(f) == f = [i \in 1..N |-> IF i = 1 THEN seqs[i] ELSE f[i - 1] \o seqs[i]]
<1>1. N \in Nat \ {0} /\ \A i \in 1..N : seqs[i] \in C
  BY ElementOfSeq, EmptySeq
<1>2. F \in [1..N -> [C -> C]]
  BY <1>1
<1>3. PICK f \in [0..N -> C] : Unfolds(f, N, <<>>, F)
  <2>1. <<>> \in C
    OBVIOUS
  <2> HIDE DEF N, F, C
  <2> QED BY <1>1, <1>2, <2>1, BoundedRecursion
<1> DEFINE g == [i \in 1..N |-> f[i]]
<1>4. Equation(g)
  <2>1. ASSUME NEW i \in 1..N
        PROVE g[i] = IF i = 1 THEN seqs[i] ELSE g[i - 1] \o seqs[i]
    <3>1. i \in 0..N /\ i # 0 /\ i - 1 \in 0..N
      BY <1>1
    <3>2. f[i - 1] \in C /\ g[i] = f[i]
      <4> HIDE DEF F, C
      <4> QED BY <1>3, <3>1
    <3>3. f[i] = F[i][f[i - 1]]
      BY <1>3, <3>1 DEF Unfolds
    <3>4. F[i] = [s \in C |-> IF i = 1 THEN seqs[i] ELSE s \o seqs[i]]
      OBVIOUS
    <3>5. i # 1 => g[i - 1] = f[i - 1]
      BY <1>1
    <3> HIDE DEF F, g, C
    <3>6. f[i] = IF i = 1 THEN seqs[i] ELSE f[i - 1] \o seqs[i]
      BY <3>2, <3>3, <3>4
    <3> QED BY <3>2, <3>5, <3>6
  <2> QED BY <2>1
<1> DEFINE c == CHOOSE h : Equation(h)
<1>5. Equation(c)
  <2> HIDE DEF Equation, g
  <2> QED BY <1>4
<1>6. FlattenSeq(seqs) = c[N]
  BY <1>1 DEF FlattenSeq
<1> HIDE DEF c
<1>7. ASSUME NEW i \in 1..(N - 1) PROVE c[i + 1] = c[i] \o seqs[i + 1]
  <2>1. i + 1 \in 1..N /\ i + 1 # 1 /\ (i + 1) - 1 = i
    BY <1>1
  <2> QED BY <1>5, <2>1
<1>8. c[1] = seqs[1]
  BY <1>1, <1>5
<1> QED BY <1>6, <1>7, <1>8

\* Sequences of which every one is in a set that is closed under concatenation
\* make a sequence in that set.
LEMMA FlattenIn ==
    ASSUME NEW S, NEW C \in SUBSET Seq(S), <<>> \in C,
           \A s, t \in C : s \o t \in C, NEW seqs \in Seq(C)
    PROVE  FlattenSeq(seqs) \in C
<1>1. Len(seqs) \in Nat /\ \A i \in 1..Len(seqs) : seqs[i] \in C
  BY ElementOfSeq, LenProperties
<1>2. CASE seqs = <<>>
  <2>1. FlattenSeq(seqs) = seqs
    BY <1>2, EmptySeq DEF FlattenSeq
  <2> QED BY <1>2, <2>1
<1>3. CASE seqs # <<>>
  <2> DEFINE N == Len(seqs)
  <2>1. N # 0 /\ seqs \in Seq(Seq(S))
    BY <1>3, EmptySeq, SeqMonotonic
  <2>2. PICK c : /\ c[1] = seqs[1]
                 /\ \A i \in 1..(N - 1) : c[i + 1] = c[i] \o seqs[i + 1]
                 /\ FlattenSeq(seqs) = c[N]
    BY <1>3, <2>1, FlattenEquation
  <2> DEFINE T == {i \in 0..N : i # 0 => c[i] \in C}
  <2>3. \A i \in 0..N : i \in T
    <3>1. 0 \in T
      BY <1>1
    <3>2. ASSUME NEW i \in 0..(N - 1), i \in T PROVE i + 1 \in T
      <4>1. i + 1 \in 1..N /\ seqs[i + 1] \in C
        BY <1>1
      <4>2. CASE i = 0
        BY <2>2, <4>1, <4>2
      <4>3. CASE i # 0
        <5>1. i \in 1..(N - 1) /\ c[i] \in C
          BY <1>1, <3>2, <4>3
        <5>2. c[i + 1] = c[i] \o seqs[i + 1]
          BY <2>2, <5>1
        <5>3. c[i + 1] \in C
          BY <4>1, <5>1, <5>2
        <5> QED BY <4>1, <5>3
      <4> QED BY <4>2, <4>3
    <3> HIDE DEF T
    <3> QED BY <1>1, <3>1, <3>2, BoundedInduction
  <2>4. N \in 0..N
    BY <1>1
  <2> HIDE DEF N
  <2> QED BY <2>1, <2>2, <2>3, <2>4
<1> QED BY <1>2, <1>3

\* One byte per sequence makes as many bytes as there are sequences.
LEMMA FlattenUnits ==
    ASSUME NEW x, NEW n \in Nat
    PROVE  Len(FlattenSeq([i \in 1..n |-> <<x>>])) = n
<1> DEFINE seqs == [i \in 1..n |-> <<x>>]
<1>1. seqs \in Seq(Seq({x})) /\ Len(seqs) = n /\ \A i \in 1..n : seqs[i] = <<x>>
  OBVIOUS
<1> HIDE DEF seqs
<1>2. CASE n = 0
  <2>1. seqs = <<>> /\ FlattenSeq(seqs) = seqs
    BY <1>1, <1>2, EmptySeq DEF FlattenSeq
  <2> QED BY <1>1, <1>2, <2>1 DEF seqs
<1>3. CASE n # 0
  <2>1. PICK c : /\ c[1] = seqs[1]
                 /\ \A i \in 1..(n - 1) : c[i + 1] = c[i] \o seqs[i + 1]
                 /\ FlattenSeq(seqs) = c[n]
    <3>1. seqs # <<>>
      BY <1>1, <1>3, EmptySeq
    <3> QED BY <1>1, <3>1, FlattenEquation
  <2> DEFINE T == {i \in 0..n : i # 0 => c[i] \in Seq({x}) /\ Len(c[i]) = i}
  <2>2. \A i \in 0..n : i \in T
    <3>1. 0 \in T
      OBVIOUS
    <3>2. ASSUME NEW i \in 0..(n - 1), i \in T PROVE i + 1 \in T
      <4>1. i + 1 \in 1..n /\ seqs[i + 1] = <<x>>
        BY <1>1
      <4>2. CASE i = 0
        <5>1. c[i + 1] = <<x>> /\ i + 1 = 1
          BY <2>1, <4>1, <4>2
        <5>2. c[i + 1] \in Seq({x}) /\ Len(c[i + 1]) = i + 1
          BY <5>1
        <5> QED BY <4>1, <5>2
      <4>3. CASE i # 0
        <5>0. i \in 1..(n - 1) /\ c[i] \in Seq({x}) /\ Len(c[i]) = i
          BY <3>2, <4>3
        <5>1. c[i + 1] = c[i] \o <<x>>
          BY <2>1, <4>1, <5>0
        <5>2. c[i + 1] \in Seq({x}) /\ Len(c[i + 1]) = i + 1
          BY <5>0, <5>1
        <5> QED BY <4>1, <5>2
      <4> QED BY <4>2, <4>3
    <3> HIDE DEF T
    <3> QED BY <3>1, <3>2, BoundedInduction
  <2> QED BY <1>3, <2>1, <2>2 DEF seqs
<1> QED BY <1>2, <1>3

-----------------------------------------------------------------------------
(* Jump-destination analysis.                                              *)

\* What a byte leaves hidden behind it.
After(before, byte) == IF before > 0 THEN before - 1 ELSE Operand(byte)

LEMMA OperandLength ==
    ASSUME NEW byte
    PROVE  Operand(byte) \in Nat
<1>1. CASE byte \in 1..32
  BY <1>1 DEF Operand
<1>2. CASE byte \notin 1..32
  BY <1>2 DEF Operand
<1> QED BY <1>1, <1>2

LEMMA HiddenEquation ==
    ASSUME NEW code \in Code
    PROVE  /\ Hidden(code) \in [0..Len(code) -> Nat]
           /\ Hidden(code)[0] = 0
           /\ \A i \in 1..Len(code) : Hidden(code)[i] = After(Hidden(code)[i - 1], code[i])
<1> DEFINE N == Len(code)
           F == [i \in 1..N |-> [x \in Nat |-> After(x, code[i])]]
           Equation(f) ==
               f = [i \in 0..N |->
                       IF i = 0 THEN 0
                       ELSE IF f[i - 1] > 0 THEN f[i - 1] - 1 ELSE Operand(code[i])]
<1>1. N \in Nat /\ \A i \in 1..N : Operand(code[i]) \in Nat
  <2>1. N \in Nat
    <3>1. code \in Seq(0..JUMPDEST)
      BY DEF Code
    <3> QED BY <3>1, LenProperties
  <2>2. ASSUME NEW i \in 1..N PROVE Operand(code[i]) \in Nat
    BY OperandLength, Zenon
  <2> QED BY <2>1, <2>2
<1>2. F \in [1..N -> [Nat -> Nat]]
  BY <1>1 DEF After
<1>3. PICK f \in [0..N -> Nat] : Unfolds(f, N, 0, F)
  <2> HIDE DEF N, F
  <2> QED BY <1>1, <1>2, BoundedRecursion
<1>4. Equation(f)
  <2>1. ASSUME NEW i \in 0..N, i # 0 PROVE f[i] = After(f[i - 1], code[i])
    <3>1. i \in 1..N /\ i - 1 \in 0..N
      BY <1>1, <2>1
    <3>2. f[i - 1] \in Nat /\ f[i] = F[i][f[i - 1]]
      <4> HIDE DEF F
      <4> QED BY <1>3, <2>1, <3>1 DEF Unfolds
    <3>3. F[i] = [x \in Nat |-> After(x, code[i])]
      BY <3>1
    <3> HIDE DEF F
    <3> QED BY <3>2, <3>3
  <2>2. f[0] = 0
    <3> HIDE DEF F
    <3> QED BY <1>1, <1>3 DEF Unfolds
  <2> HIDE DEF F
  <2> QED BY <1>3, <2>1, <2>2 DEF After
<1> DEFINE g == CHOOSE h : Equation(h)
<1>5. Equation(g)
  <2> HIDE DEF Equation
  <2> QED BY <1>4
<1>6. Hidden(code) = g
  BY DEF Hidden
<1> HIDE DEF g
<1>7. g[0] = 0 /\ \A i \in 1..N : g[i] = After(g[i - 1], code[i])
  <2>1. ASSUME NEW i \in 1..N PROVE g[i] = After(g[i - 1], code[i])
    <3>1. i \in 0..N /\ i # 0
      BY <1>1
    <3> QED BY <1>5, <3>1 DEF After
  <2>2. g[0] = 0
    BY <1>1, <1>5
  <2> QED BY <2>1, <2>2
<1> DEFINE T == {i \in 0..N : g[i] \in Nat}
<1>8. \A i \in 0..N : i \in T
  <2>1. 0 \in T
    BY <1>1, <1>7
  <2>2. ASSUME NEW i \in 0..(N - 1), i \in T PROVE i + 1 \in T
    <3>1. i + 1 \in 1..N /\ i + 1 \in 0..N /\ (i + 1) - 1 = i /\ g[i] \in Nat
      BY <1>1, <2>2
    <3>2. g[i + 1] = After(g[i], code[i + 1])
      BY <1>7, <3>1
    <3>3. g[i + 1] \in Nat
      BY <1>1, <3>1, <3>2 DEF After
    <3> QED BY <3>1, <3>3
  <2> HIDE DEF T
  <2> QED BY <1>1, <2>1, <2>2, BoundedInduction
<1>9. g \in [0..N -> Nat]
  BY <1>5, <1>8
<1> QED BY <1>6, <1>7, <1>9

\* What is hidden does not depend on what follows.
LEMMA HiddenOfPrefix ==
    ASSUME NEW s \in Code, NEW t \in Code
    PROVE  \A i \in 0..Len(s) : Hidden(s \o t)[i] = Hidden(s)[i]
<1> DEFINE st == s \o t
           T == {i \in 0..Len(s) : Hidden(st)[i] = Hidden(s)[i]}
<1>1. /\ st \in Code /\ Len(s) \in Nat /\ Len(t) \in Nat /\ Len(st) = Len(s) + Len(t)
      /\ \A i \in 1..Len(s) : st[i] = s[i]
  BY DEF Code
<1> HIDE DEF st
<1>2. 0 \in T
  BY <1>1, HiddenEquation
<1>3. ASSUME NEW i \in 0..(Len(s) - 1), i \in T PROVE i + 1 \in T
  <2>1. /\ i + 1 \in 1..Len(s) /\ i + 1 \in 1..Len(st) /\ (i + 1) - 1 = i
        /\ st[i + 1] = s[i + 1] /\ Hidden(st)[i] = Hidden(s)[i]
    BY <1>1, <1>3
  <2>2. Hidden(s)[i + 1] = After(Hidden(s)[i], s[i + 1])
    BY <2>1, HiddenEquation
  <2>3. Hidden(st)[i + 1] = After(Hidden(st)[i], st[i + 1])
    BY <1>1, <2>1, HiddenEquation
  <2> QED BY <2>1, <2>2, <2>3
<1> HIDE DEF T
<1>4. \A i \in 0..Len(s) : i \in T
  BY <1>1, <1>2, <1>3, BoundedInduction
<1> QED BY <1>4 DEF T, st

\* Code of complete instructions.
Complete == {code \in Code : Hidden(code)[Len(code)] = 0}

\* Behind complete instructions the analysis starts anew.
LEMMA HiddenOfSuffix ==
    ASSUME NEW s \in Complete, NEW t \in Code
    PROVE  \A i \in 0..Len(t) : Hidden(s \o t)[Len(s) + i] = Hidden(t)[i]
<1> DEFINE st == s \o t
           T == {i \in 0..Len(t) : Hidden(st)[Len(s) + i] = Hidden(t)[i]}
<1>0. s \in Code /\ Hidden(s)[Len(s)] = 0
  BY DEF Complete
<1>1. /\ st \in Code /\ Len(s) \in Nat /\ Len(t) \in Nat /\ Len(st) = Len(s) + Len(t)
      /\ \A i \in 1..Len(t) : st[Len(s) + i] = t[i]
  BY <1>0 DEF Code
<1>2. 0 \in T
  <2>1. Hidden(st)[Len(s)] = 0
    BY <1>0, <1>1, HiddenOfPrefix
  <2> HIDE DEF st
  <2> QED BY <1>1, <2>1, HiddenEquation
<1> HIDE DEF st
<1>3. ASSUME NEW i \in 0..(Len(t) - 1), i \in T PROVE i + 1 \in T
  <2>1. /\ i + 1 \in 1..Len(t) /\ Len(s) + (i + 1) \in 1..Len(st) /\ (i + 1) - 1 = i
        /\ (Len(s) + (i + 1)) - 1 = Len(s) + i
        /\ st[Len(s) + (i + 1)] = t[i + 1] /\ Hidden(st)[Len(s) + i] = Hidden(t)[i]
    BY <1>1, <1>3
  <2>2. Hidden(t)[i + 1] = After(Hidden(t)[i], t[i + 1])
    BY <2>1, HiddenEquation
  <2>3. Hidden(st)[Len(s) + (i + 1)] = After(Hidden(st)[Len(s) + i], st[Len(s) + (i + 1)])
    BY <1>1, <2>1, HiddenEquation
  <2> QED BY <2>1, <2>2, <2>3
<1> HIDE DEF T
<1>4. \A i \in 0..Len(t) : i \in T
  BY <1>1, <1>2, <1>3, BoundedInduction
<1> QED BY <1>4 DEF T, st

LEMMA CompleteClosed ==
    /\ <<>> \in Complete
    /\ \A s, t \in Complete : s \o t \in Complete
<1>1. <<>> \in Code /\ Len(<<>>) = 0
  BY DEF Code
<1>2. Hidden(<<>>)[Len(<<>>)] = 0
  BY <1>1, HiddenEquation
<1>3. ASSUME NEW s \in Complete, NEW t \in Complete PROVE s \o t \in Complete
  <2>1. s \in Code /\ t \in Code /\ Hidden(t)[Len(t)] = 0
    BY DEF Complete
  <2>2. s \o t \in Code /\ Len(s \o t) = Len(s) + Len(t) /\ Len(t) \in Nat
    BY <2>1 DEF Code
  <2>3. Hidden(s \o t)[Len(s) + Len(t)] = Hidden(t)[Len(t)]
    BY <2>1, <2>2, HiddenOfSuffix
  <2> QED BY <2>1, <2>2, <2>3 DEF Complete
<1> QED BY <1>1, <1>2, <1>3 DEF Complete

\* An instruction is an opcode or a PUSH with its operand.
Instruction(w) == IF w = 0 THEN <<OP>> ELSE <<w>> \o [k \in 1..w |-> OP]

LEMMA InstructionComplete ==
    ASSUME NEW w \in 0..32
    PROVE  Instruction(w) \in Complete
<1>1. CASE w = 0
  <2>1. <<OP>> \in Code /\ Len(<<OP>>) = 1 /\ <<OP>>[1] = OP
    BY DEF Code, OP, JUMPDEST
  <2>2. Hidden(<<OP>>)[0] = 0 /\ Hidden(<<OP>>)[1] = After(Hidden(<<OP>>)[1 - 1], OP)
    BY <2>1, HiddenEquation
  <2>3. Hidden(<<OP>>)[1] = 0
    BY <2>2 DEF After, Operand, OP
  <2> QED BY <1>1, <2>1, <2>3 DEF Instruction, Complete
<1>2. CASE w # 0
  <2> DEFINE c == <<w>> \o [k \in 1..w |-> OP]
  <2>1. c \in Code /\ Len(c) = w + 1 /\ c[1] = w
    <3>1. <<w>> \in Seq(0..JUMPDEST) /\ [k \in 1..w |-> OP] \in Seq(0..JUMPDEST)
      BY DEF OP, JUMPDEST
    <3>2. Len(<<w>>) = 1 /\ Len([k \in 1..w |-> OP]) = w
      OBVIOUS
    <3> QED BY <3>1, <3>2, ConcatProperties DEF Code
  <2> HIDE DEF c
  <2>2. Hidden(c)[0] = 0 /\ \A i \in 1..(w + 1) : Hidden(c)[i] = After(Hidden(c)[i - 1], c[i])
    BY <2>1, HiddenEquation
  <2> DEFINE T == {i \in 0..w : Hidden(c)[i + 1] = w - i}
  <2>3. 0 \in T
    <3>1. Hidden(c)[1] = After(0, w)
      BY <2>1, <2>2
    <3> QED BY <1>2, <3>1 DEF After, Operand
  <2>4. ASSUME NEW i \in 0..(w - 1), i \in T PROVE i + 1 \in T
    <3>1. Hidden(c)[(i + 1) + 1] = After(Hidden(c)[i + 1], c[(i + 1) + 1])
      <4>1. (i + 1) + 1 \in 1..(w + 1) /\ ((i + 1) + 1) - 1 = i + 1
        OBVIOUS
      <4> QED BY <2>2, <4>1
    <3>2. Hidden(c)[(i + 1) + 1] = w - (i + 1)
      BY <2>4, <3>1 DEF After
    <3> QED BY <3>2
  <2> HIDE DEF T
  <2>5. w \in T
    <3>1. \A i \in 0..w : i \in T
      BY <2>3, <2>4, BoundedInduction
    <3> QED BY <3>1
  <2>6. Hidden(c)[Len(c)] = 0
    BY <2>1, <2>5 DEF T
  <2> QED BY <1>2, <2>1, <2>6 DEF Instruction, Complete, c
<1> QED BY <1>1, <1>2

\* The assembler makes complete instructions.
LEMMA AssembleComplete ==
    ASSUME NEW shape \in Shapes
    PROVE  Assemble(shape) \in Complete
<1> DEFINE seqs == [i \in DOMAIN shape |-> Instruction(shape[i])]
<1>1. Assemble(shape) = FlattenSeq(seqs)
  BY DEF Assemble, Instruction
<1>2. seqs \in Seq(Complete)
  <2>1. Len(shape) \in Nat /\ DOMAIN shape = 1..Len(shape)
        /\ \A i \in 1..Len(shape) : shape[i] \in 0..32
    BY ElementOfSeq, LenProperties DEF Shapes
  <2>2. \A i \in 1..Len(shape) : Instruction(shape[i]) \in Complete
    BY <2>1, InstructionComplete
  <2> QED BY <2>1, <2>2
<1> HIDE DEF seqs
<1>3. Complete \in SUBSET Seq(0..JUMPDEST)
  BY DEF Complete, Code
<1> QED BY <1>1, <1>2, <1>3, CompleteClosed, FlattenIn

\* A shape without a PUSH is as long as its code.
LEMMA AssembleOpcodes ==
    ASSUME NEW n \in Nat
    PROVE  Len(Assemble([i \in 1..n |-> 0])) = n
<1>1. Assemble([i \in 1..n |-> 0]) = FlattenSeq([i \in 1..n |-> <<OP>>])
  BY DEF Assemble
<1> QED BY <1>1, FlattenUnits

-----------------------------------------------------------------------------
(* The shapes of the strategies list instructions.                         *)

LEMMA ShapesClosed ==
    /\ <<>> \in Shapes /\ Shapes \in SUBSET Seq(0..32)
    /\ \A s, t \in Shapes : s \o t \in Shapes
BY DEF Shapes

LEMMA TimesShape ==
    ASSUME NEW n \in Nat, NEW shape \in Shapes
    PROVE  Times(n, shape) \in Shapes
<1>1. [i \in 1..n |-> shape] \in Seq(Shapes)
  OBVIOUS
<1> QED BY <1>1, ShapesClosed, FlattenIn DEF Times

LEMMA WidthSmall ==
    ASSUME NEW n
    PROVE  Width(n) \in 1..3 /\ Width(n) \in 0..32
<1>1. Width(n) = 1 \/ Width(n) = 2 \/ Width(n) = 3
  BY DEF Width
<1> QED BY <1>1

LEMMA MstoreFromShape ==
    ASSUME NEW n \in Nat, NEW width \in [Nat -> 0..32]
    PROVE  MstoreFrom(n, width) \in Shapes
<1> DEFINE words == n \div WordSize
           left  == n % WordSize
           stores == [i \in 1..(words + left) |->
                        IF i <= words THEN <<WordSize, width[(i - 1) * WordSize], 0>>
                                      ELSE <<1, width[n - left + (i - words - 1)], 0>>]
<1>1. words \in Nat /\ left \in Nat /\ left <= n /\ words + left \in Nat
  BY DrawAssumption
<1>2. ASSUME NEW i \in 1..(words + left) PROVE stores[i] \in Shapes
  <2>1. WordSize \in 0..32
    BY DrawAssumption
  <2> DEFINE v == width[(i - 1) * WordSize]
             w == width[n - left + (i - words - 1)]
  <2>2. v \in 0..32
    <3> HIDE DEF words, left
    <3>1. (i - 1) * WordSize \in Nat
      BY <1>1, <2>1
    <3> QED BY <3>1
  <2>3. CASE i <= words
    <3>1. stores[i] = <<WordSize, v, 0>>
      BY <2>3
    <3> HIDE DEF stores, v
    <3> QED BY <2>1, <2>2, <3>1 DEF Shapes
  <2>4. CASE ~(i <= words)
    <3>1. stores[i] = <<1, w, 0>>
      BY <2>4
    <3>2. w \in 0..32
      <4> HIDE DEF words, left
      <4>1. n - left + (i - words - 1) \in Nat
        BY <1>1, <2>4
      <4> QED BY <4>1
    <3> HIDE DEF stores, w
    <3> QED BY <3>1, <3>2 DEF Shapes
  <2> QED BY <2>3, <2>4
<1>3. MstoreFrom(n, width) = FlattenSeq(stores)
  BY DEF MstoreFrom
<1>4. stores \in Seq(Shapes)
  <2>1. stores \in [1..(words + left) -> Shapes]
    <3> HIDE DEF words, left
    <3> QED BY <1>2, Zenon
  <2> HIDE DEF words, left, stores
  <2> QED BY <1>1, <2>1
<1> HIDE DEF stores
<1> QED BY <1>3, <1>4, ShapesClosed, FlattenIn

LEMMA MstoreShape ==
    ASSUME NEW n \in Nat
    PROVE  Mstore(n) \in Shapes
<1>1. [address \in Nat |-> Width(address)] \in [Nat -> 0..32]
  BY WidthSmall
<1> QED BY <1>1, MstoreFromShape DEF Mstore

LEMMA MemToStorageShape ==
    ASSUME NEW n \in Nat, NEW v \in 0..32, NEW w \in 0..32
    PROVE  MemToStorage(n, v, w) \in Shapes
<1>1. (n + WordSize - 1) \div WordSize \in Nat
  BY DrawAssumption
<1>2. <<v, 0, w, 0>> \in Shapes
  BY DEF Shapes
<1> QED BY <1>1, <1>2, TimesShape DEF MemToStorage

LEMMA ConditionShape ==
    ASSUME NEW c \in conditions
    PROVE  c \in Shapes
<1>1. CASE c = <<>>
  BY <1>1, ShapesClosed
<1>2. ASSUME NEW w \in Widths, c = <<w>> PROVE c \in Shapes
  <2>1. w \in 0..32
    BY DrawAssumption
  <2> QED BY <1>2, <2>1 DEF Shapes
<1> QED BY <1>1, <1>2 DEF conditions

LEMMA TupleShape ==
    ASSUME NEW n \in Nat, NEW s \in [1..n -> 0..32]
    PROVE  s \in Shapes
BY DEF Shapes

LEMMA LargerRange ==
    ASSUME NEW D, NEW S, NEW T, \A w \in S : w \in T, NEW f \in [D -> S]
    PROVE  f \in [D -> T]
OBVIOUS

LEMMA CallShapesTyped ==
    ASSUME NEW c \in CallShapes
    PROVE  c \in Shapes
<1>1. PICK memory \in callMemory, value \in callValues, target \in callTargets :
         c = memory \o value \o target
  BY DEF CallShapes
<1>2. \A w \in Widths : w \in 0..32
  BY DrawAssumption
<1>3. memory \in Shapes
  <2>1. \A w \in Widths32 : w \in 0..32
    BY <1>2 DEF Widths32
  <2>2. memory \in [1..4 -> Widths32] /\ 4 \in Nat
    BY <1>1 DEF callMemory
  <2>3. memory \in [1..4 -> 0..32]
    BY <2>1, <2>2, LargerRange
  <2> QED BY <2>2, <2>3, TupleShape, Zenon
<1>4. value \in Shapes
  <2>1. CASE value = <<>>
    BY <2>1, ShapesClosed
  <2>2. ASSUME NEW w \in Widths32, value = <<w>> PROVE value \in Shapes
    <3>1. w \in 0..32
      BY <1>2 DEF Widths32
    <3> QED BY <2>2, <3>1 DEF Shapes
  <2> QED BY <2>1, <2>2 DEF callValues
<1>5. target \in Shapes
  <2>1. PICK address \in addresses, gas \in Widths : target = <<address, gas, 0>>
    BY DEF callTargets
  <2>2. address \in 0..32 /\ gas \in 0..32
    BY <1>2 DEF addresses
  <2> QED BY <2>1, <2>2 DEF Shapes
<1> QED BY <1>1, <1>3, <1>4, <1>5, ShapesClosed

LEMMA OperandShapes ==
    /\ \A s \in twoOperands : s \in Shapes
    /\ \A s \in threeOperands : s \in Shapes
<1>1. ASSUME NEW u \in Widths, NEW v \in Widths, NEW w \in Widths
      PROVE  <<v, w, 0>> \in Shapes /\ <<u, v, w, 0>> \in Shapes
  <2>1. u \in 0..32 /\ v \in 0..32 /\ w \in 0..32
    BY DrawAssumption
  <2> QED BY <2>1 DEF Shapes
<1>2. ASSUME NEW s \in twoOperands PROVE s \in Shapes
  <2>1. PICK v \in Widths, w \in Widths : s = <<v, w, 0>>
    BY DEF twoOperands
  <2> QED BY <1>1, <2>1
<1>3. ASSUME NEW s \in threeOperands PROVE s \in Shapes
  <2>1. PICK u \in Widths, v \in Widths, w \in Widths : s = <<u, v, w, 0>>
    BY DEF threeOperands
  <2> QED BY <1>1, <2>1
<1> QED BY <1>2, <1>3

LEMMA StoreShapesTyped ==
    ASSUME NEW s \in storeShapes
    PROVE  s \in Shapes
<1>1. ASSUME NEW n \in DataSizes PROVE Mstore(n) \o <<1, 1, 0>> \in Shapes
  <2>1. n \in Nat
    BY DrawAssumption
  <2>2. <<1, 1, 0>> \in Shapes
    BY DEF Shapes
  <2> QED BY <2>1, <2>2, MstoreShape, ShapesClosed
<1>2. CASE s \in memCopies
  <2>1. PICK n \in DataSizes, v \in Widths32, w \in Widths32 : s = MemToStorage(n, v, w)
    BY <1>2 DEF memCopies
  <2>2. n \in Nat /\ v \in 0..32 /\ w \in 0..32
    BY DrawAssumption DEF Widths32
  <2> QED BY <2>1, <2>2, MemToStorageShape
<1>3. CASE s \in memStores
  <2>1. PICK n \in DataSizes, w \in Widths32 :
            s = MstoreFrom(n, [address \in Nat |-> w])
    BY <1>3 DEF memStores
  <2>2. n \in Nat /\ [address \in Nat |-> w] \in [Nat -> 0..32]
    BY DrawAssumption DEF Widths32
  <2> QED BY <2>1, <2>2, MstoreFromShape
<1>4. \/ s \in memCopies \/ s \in memStores
      \/ \E n \in DataSizes : s = Mstore(n) \o <<1, 1, 0>>
      \/ s \in twoOperands
  BY Zenon DEF storeShapes
<1> QED BY <1>1, <1>2, <1>3, <1>4, OperandShapes, Zenon

LEMMA LoadShapesTyped ==
    ASSUME NEW s \in loadShapes
    PROVE  s \in Shapes
<1>1. ASSUME NEW w \in Widths PROVE <<w>> \in Shapes /\ <<w, 0>> \in Shapes
  <2>1. w \in 0..32
    BY DrawAssumption
  <2> QED BY <2>1 DEF Shapes
<1>2. <<0, 1, 0, 0, 0, 1, 0, 0, 0>> \in Shapes
  BY DEF Shapes
<1>3. \/ \E w \in Widths : s = <<w>> \/ s = <<w, 0>>
      \/ s = <<0, 1, 0, 0, 0, 1, 0, 0, 0>>
  BY Zenon DEF loadShapes
<1> QED BY <1>1, <1>2, <1>3, Zenon

LEMMA StackShapesTyped ==
    ASSUME NEW s \in stackShapes
    PROVE  s \in Shapes
<1>1. ASSUME NEW w \in Widths PROVE <<w, 0>> \in Shapes
  <2>1. w \in 0..32
    BY DrawAssumption
  <2> QED BY <2>1 DEF Shapes
<1>2. (\E w \in Widths : s = <<w, 0>>) \/ s \in twoOperands \/ s \in threeOperands
  BY Zenon DEF stackShapes
<1> QED BY <1>1, <1>2, OperandShapes, Zenon

LEMMA InputWordsTyped == \A n \in inputWords : n \in Nat
<1>1. /\ \A n \in Pairs : 6 * n \in Nat
      /\ \A n \in MSMItems : 5 * n \in Nat /\ 9 * n \in Nat
      /\ \A n \in BLSPairs : 12 * n \in Nat
  BY DrawAssumption
<1>2. \A n \in inputWords :
         \/ n \in {4, 4, 3, 6, 5} \cup {8, 16, 2, 4} \cup {5, 9, 12}
         \/ \E k \in Pairs : n = 6 * k
         \/ \E k \in MSMItems : n = 5 * k \/ n = 9 * k
         \/ \E k \in BLSPairs : n = 12 * k
  BY DEF inputWords
<1> QED BY <1>1, <1>2

LEMMA InputSizesTyped ==
    ASSUME NEW n \in inputSizes
    PROVE  n \in Nat
<1>1. WordSize \in Nat /\ \A size \in DataSizes : size \in Nat
  BY DrawAssumption
<1>2. CASE n \in modExpSizes
  <2>1. PICK base \in DataSizes, exponent \in DataSizes, modulus \in DataSizes :
                n = (3 * WordSize) + base + exponent + modulus
    BY <1>1, <1>2, SMTT(30) DEF modExpSizes
  <2> QED BY <1>1, <2>1
<1>3. CASE \E words \in inputWords : n = words * WordSize
  BY <1>1, <1>3, InputWordsTyped
<1>4. CASE n = (6 * WordSize) + 21
  BY <1>1, <1>4
<1> QED BY <1>1, <1>2, <1>3, <1>4 DEF inputSizes

LEMMA CallingShapesTyped ==
    ASSUME NEW s \in callShapes
    PROVE  s \in Shapes
<1>1. ASSUME NEW n \in inputSizes, NEW c \in CallShapes PROVE Mstore(n) \o c \in Shapes
  <2>1. n \in Nat
    BY InputSizesTyped
  <2> QED BY <2>1, MstoreShape, CallShapesTyped, ShapesClosed
<1>2. s \in CallShapes \/ s = <<>> \/ s \in storedCalls
  BY Zenon DEF callShapes
<1>3. CASE s \in storedCalls
  <2>1. PICK n \in inputSizes, c \in CallShapes : s = Mstore(n) \o c
    BY <1>3 DEF storedCalls
  <2> QED BY <1>1, <2>1
<1> QED BY <1>2, <1>3, CallShapesTyped, ShapesClosed

LEMMA LogOpsTyped ==
    ASSUME NEW op \in logOps
    PROVE  op \in Shapes
<1>1. PICK topics \in SeqOf(Widths, 4) : op = topics \o <<1, 1, 0>>
  BY DEF logOps
<1>2. PICK n \in 0..4 : topics \in [1..n -> Widths]
  BY DEF SeqOf
<1>3. topics \in [1..n -> 0..32]
  <2>1. \A w \in Widths : w \in 0..32
    BY DrawAssumption
  <2> QED BY <1>2, <2>1, Zenon
<1>4. topics \in Shapes
  <2>1. n \in Nat
    OBVIOUS
  <2> QED BY <1>3, <2>1 DEF Shapes
<1>5. <<1, 1, 0>> \in Shapes
  BY DEF Shapes
<1> QED BY <1>1, <1>4, <1>5, ShapesClosed

LEMMA ValueCallsTyped ==
    ASSUME NEW s \in valueCalls
    PROVE  s \in Shapes
<1>1. PICK v \in Widths16, w \in Widths, gas \in 2..3 :
          s = Times(2, Times(4, <<1>>) \o <<v, w, gas, 0, 0>>)
  BY DEF valueCalls
<1>2. v \in 0..32 /\ w \in 0..32 /\ gas \in 0..32
  BY DrawAssumption DEF Widths16
<1>3. <<1>> \in Shapes /\ <<v, w, gas, 0, 0>> \in Shapes
  BY <1>2 DEF Shapes
<1>4. Times(4, <<1>>) \in Shapes
  BY <1>3, TimesShape
<1>5. Times(4, <<1>>) \o <<v, w, gas, 0, 0>> \in Shapes
  BY <1>3, <1>4, ShapesClosed
<1> QED BY <1>1, <1>5, TimesShape

LEMMA CoverageShapesTyped ==
    ASSUME NEW s \in coverageShapes
    PROVE  s \in Shapes
<1>1. <<1>> \in Shapes /\ Times(5, <<1>>) \in Shapes
  <2>1. <<1>> \in Shapes
    BY DEF Shapes
  <2> QED BY <2>1, TimesShape
<1>2. ASSUME NEW w \in Widths
      PROVE  Times(2, <<w, 0, 0>>) \in Shapes /\ Times(5, <<1, w, 0>>) \in Shapes
  <2>1. w \in 0..32
    BY DrawAssumption
  <2>2. <<w, 0, 0>> \in Shapes /\ <<1, w, 0>> \in Shapes
    BY <2>1 DEF Shapes
  <2> QED BY <2>2, TimesShape
<1>3. /\ <<0, 0, 0, 0>> \in Shapes /\ <<1, 1, 1, 0>> \in Shapes /\ <<1, 1, 0>> \in Shapes
  BY DEF Shapes
<1>4. Times(5, <<1>>) \o <<0, 0, 0, 0>> \in Shapes
  BY <1>1, <1>3, ShapesClosed
<1>5. ASSUME NEW n \in DataSizes
      PROVE  /\ Mstore(n) \o <<1, 1, 1, 0>> \in Shapes
             /\ \A op \in logOps : Mstore(n) \o op \in Shapes
  <2>1. Mstore(n) \in Shapes
    BY MstoreShape, DrawAssumption
  <2> QED BY <1>3, <2>1, LogOpsTyped, ShapesClosed
<1>6. \/ \E w \in Widths : s = Times(2, <<w, 0, 0>>) \/ s = Times(5, <<1, w, 0>>)
      \/ s \in valueCalls
      \/ s = Times(5, <<1>>) \o <<0, 0, 0, 0>>
      \/ \E n \in DataSizes : s = Mstore(n) \o <<1, 1, 1, 0>>
      \/ s \in logShapes
  BY Zenon DEF coverageShapes, Widths16
<1>7. CASE s \in logShapes
  <2>1. PICK n \in DataSizes, op \in logOps : s = Mstore(n) \o op
    BY <1>7 DEF logShapes
  <2> QED BY <1>5, <2>1
<1> QED BY <1>2, <1>4, <1>5, <1>6, <1>7, ValueCallsTyped, Zenon

LEMMA ShapesTyped ==
    ASSUME NEW s \in shapes
    PROVE  s \in Shapes
BY StoreShapesTyped, LoadShapesTyped, StackShapesTyped, CallingShapesTyped,
   CoverageShapesTyped DEF shapes

\* stackFill stays below twice the stack limit.
LEMMA StackFillFits ==
    ASSUME NEW b \in Int, NEW s \in StackFill(b)
    PROVE  s \in Shapes /\ Len(Assemble(s)) <= MaxEmit
<1>1. PICK n \in Nat : s = [i \in 1..n |-> 0] /\ n <= MaxEmit
  <2> DEFINE room == GoDiv(b - 8, 2)
             fit(d) == IF d > room THEN room ELSE d
             fill(d, pops) == IF d <= 0 THEN <<>>
                              ELSE [i \in 1..(1 + d + (IF pops THEN d ELSE 0)) |-> 0]
  <2>1. room \in Int
    BY DEF GoDiv
  <2>2. MaxEmit \in Nat /\ StackLimit \in Nat /\ 2 * StackLimit <= MaxEmit /\ 1 <= MaxEmit
    BY BudgetAssumption, DrawAssumption, EmitAssumption
  <2>3. s = fill(fit(StackLimit - 3), TRUE) \/ s = fill(fit(StackLimit), FALSE)
    BY DEF StackFill
  <2> HIDE DEF room
  <2>4. <<>> = [i \in 1..0 |-> 0]
    OBVIOUS
  <2>5. CASE s = fill(fit(StackLimit - 3), TRUE)
    <3> DEFINE d == fit(StackLimit - 3)
    <3>1. d \in Int /\ d <= StackLimit - 3
      BY <2>1, <2>2
    <3> HIDE DEF d
    <3>2. CASE d <= 0
      BY <2>2, <2>4, <2>5, <3>2 DEF d
    <3>3. CASE d > 0
      <4>1. 1 + d + d \in Nat /\ 1 + d + d <= MaxEmit
        BY <2>2, <3>1, <3>3
      <4>2. s = [i \in 1..(1 + d + d) |-> 0]
        BY <2>5, <3>1, <3>3 DEF d
      <4> QED BY <4>1, <4>2
    <3> QED BY <3>1, <3>2, <3>3
  <2>6. CASE s = fill(fit(StackLimit), FALSE)
    <3> DEFINE d == fit(StackLimit)
    <3>1. d \in Int /\ d <= StackLimit
      BY <2>1, <2>2
    <3> HIDE DEF d
    <3>2. CASE d <= 0
      BY <2>2, <2>4, <2>6, <3>2 DEF d
    <3>3. CASE d > 0
      <4>1. 1 + d + 0 \in Nat /\ 1 + d + 0 <= MaxEmit
        BY <2>2, <3>1, <3>3
      <4>2. s = [i \in 1..(1 + d + 0) |-> 0]
        BY <2>6, <3>1, <3>3 DEF d
      <4> QED BY <4>1, <4>2
    <3> QED BY <3>1, <3>2, <3>3
  <2> QED BY <2>3, <2>5, <2>6
<1>2. s \in Shapes
  BY <1>1 DEF Shapes
<1>3. Len(Assemble(s)) = n
  BY <1>1, AssembleOpcodes
<1> QED BY <1>1, <1>2, <1>3

-----------------------------------------------------------------------------
(* CreateAndCall.                                                          *)

LEMMA ByteComplete ==
    ASSUME NEW byte \in {OP, JUMPDEST}
    PROVE  <<byte>> \in Complete
<1>1. <<byte>> \in Code /\ Len(<<byte>>) = 1 /\ <<byte>>[1] = byte
  BY DEF Code, OP, JUMPDEST
<1>2. Hidden(<<byte>>)[0] = 0 /\ Hidden(<<byte>>)[1] = After(Hidden(<<byte>>)[1 - 1], byte)
  BY <1>1, HiddenEquation
<1>3. Operand(byte) = 0
  BY DEF Operand, OP, JUMPDEST
<1>4. Hidden(<<byte>>)[1] = 0
  BY <1>2, <1>3 DEF After
<1> QED BY <1>1, <1>4 DEF Complete

LEMMA CallOpByte ==
    ASSUME NEW op \in CallOps
    PROVE  op.byte \in RawOpcodes /\ op.value \in BOOLEAN
<1>1. CASE op \in [byte : RawOpcodes, value : {FALSE}]
  BY <1>1
<1>2. CASE op \in {[byte |-> OP, value |-> TRUE]}
  <2>1. op.byte = OP /\ op.value = TRUE
    BY <1>2
  <2> QED BY <2>1 DEF RawOpcodes
<1> QED BY <1>1, <1>2 DEF CallOps

LEMMA RawByte ==
    ASSUME NEW byte \in RawOpcodes
    PROVE  <<byte>> \in Code /\ Len(<<byte>>) = 1 /\ (byte \notin RawPushes => <<byte>> \in Complete)
<1>1. byte \in 0..JUMPDEST
  BY DrawAssumption DEF RawOpcodes, OP, JUMPDEST
<1>2. <<byte>> \in Code /\ Len(<<byte>>) = 1
  BY <1>1 DEF Code
<1> QED BY <1>2, ByteComplete DEF RawOpcodes

\* CreateAndCall makes complete instructions, unless its last is a PUSH.
LEMMA CallCodeTyped ==
    ASSUME NEW size \in Nat, NEW c2 \in BOOLEAN, NEW op \in CallOps
    PROVE  /\ CallCode(size, c2, op) \in Code
           /\ op.byte \notin RawPushes => CallCode(size, c2, op) \in Complete
<1> DEFINE salt   == IF c2 THEN <<1>> ELSE <<>>
           create == <<Width(size), 1, 1, 0>>
           args   == Times(IF op.value THEN 5 ELSE 4, <<1>>)
           shape  == Mstore(size) \o salt \o create \o args \o <<0, 0>>
<1>1. salt \in Shapes
  <2>1. <<1>> \in Shapes
    BY DEF Shapes
  <2> QED BY <2>1, ShapesClosed
<1>2. create \in Shapes
  BY WidthSmall DEF Shapes
<1>3. args \in Shapes
  <2>1. <<1>> \in Shapes
    BY DEF Shapes
  <2> QED BY <2>1, TimesShape
<1>4. <<0, 0>> \in Shapes
  BY DEF Shapes
<1>5. CallCode(size, c2, op) = Assemble(shape) \o <<op.byte>>
  BY DEF CallCode
<1>6. shape \in Shapes
  <2> HIDE DEF salt, create, args
  <2> QED BY <1>1, <1>2, <1>3, <1>4, MstoreShape, ShapesClosed
<1> HIDE DEF shape
<1>7. Assemble(shape) \in Complete /\ Assemble(shape) \in Code
  BY <1>6, AssembleComplete DEF Complete
<1>8. <<op.byte>> \in Code /\ (op.byte \notin RawPushes => <<op.byte>> \in Complete)
  BY CallOpByte, RawByte
<1>9. Assemble(shape) \o <<op.byte>> \in Code
  BY <1>7, <1>8 DEF Code
<1> QED BY <1>5, <1>7, <1>8, <1>9, CompleteClosed

\* What is kept of the init code is at most a quarter of a budget.
LEMMA TruncateKept ==
    ASSUME NEW n \in Nat, NEW b \in Int, b <= MaxTotalBytes
    PROVE  /\ Truncate(n, b) \in Kept(n) /\ Truncate(n, b) \in Nat
           /\ Truncate(n, b) <= IF b < 0 THEN 0 ELSE GoDiv(b, 4)
<1> DEFINE k == Truncate(n, b)
<1>1. k \in 0..n
  BY TruncateInRange
<1>2. CASE b < 0
  <2>1. k = 0
    BY <1>2, TruncateInRange
  <2>2. 0 \in 0..(MaxTotalBytes \div 4)
    BY BudgetAssumption
  <2> HIDE DEF k
  <2> QED BY <1>1, <1>2, <2>1, <2>2 DEF Kept, k
<1>3. CASE b >= 0
  <2>1. GoDiv(b, 4) = b \div 4 /\ b \div 4 \in Nat
    BY <1>3 DEF GoDiv
  <2>2. k <= b \div 4
    BY <2>1 DEF Truncate
  <2>3. b \div 4 <= MaxTotalBytes \div 4 /\ MaxTotalBytes \div 4 \in Nat
    BY <1>3, BudgetAssumption
  <2> HIDE DEF k
  <2>4. k \in 0..(MaxTotalBytes \div 4)
    BY <1>1, <2>1, <2>2, <2>3
  <2> QED BY <1>1, <1>3, <2>1, <2>2, <2>4 DEF Kept, k
<1> QED BY <1>2, <1>3

\* The code of a create-and-call has a size that CodeBudget counts on.
LEMMA CallFits ==
    ASSUME NEW n \in Nat, NEW c2 \in BOOLEAN, NEW op \in CallOps,
           budget \in Int, budget <= MaxTotalBytes
    PROVE  /\ Len(CreateAndCall(n, c2, op)) \in CallSizes(budget)
           /\ Len(CreateAndCall(n, c2, op)) \in Nat
<1> DEFINE k == Truncate(n, budget)
           most == IF budget < 0 THEN 0 ELSE GoDiv(budget, 4)
           len == Len(CallCode(k, c2, op))
<1>1. k \in Nat /\ k \in 0..(MaxTotalBytes \div 4) /\ k <= most
  BY TruncateKept DEF Kept
<1>2. most \in Nat
  BY DEF GoDiv
<1>3. Spread * k <= Spread * most
  <2> HIDE DEF k, most
  <2> QED BY <1>1, <1>2, BudgetAssumption, TimesMonotone
<1>4. len \in MinCall..(MaxCall + (Spread * k))
  <2> HIDE DEF k
  <2> QED BY <1>1, CallAssumption
<1>5. len \in MinCall..(MaxCall + (Spread * most)) /\ len \in Nat
  <2> HIDE DEF k, most, len
  <2>1. Spread * k \in Nat /\ Spread * most \in Nat
    BY <1>1, <1>2, BudgetAssumption
  <2> QED BY <1>3, <1>4, <2>1, BudgetAssumption
<1> QED BY <1>5 DEF CallSizes, CreateAndCall

-----------------------------------------------------------------------------
(* Programs.                                                               *)

ProgType == [code : Code, labels : SUBSET Nat, decoys : SUBSET Nat, raw : BOOLEAN]

\* Labels are JUMPDESTs, and as long as all instructions are complete the analysis
\* sees the labels and does not see the decoys.
ProgOK(p) ==
    /\ \A pc \in p.labels : pc \in 0..(Len(p.code) - 1) /\ p.code[pc + 1] = JUMPDEST
    /\ ~p.raw => /\ p.code \in Complete
                 /\ \A pc \in p.labels : Hidden(p.code)[pc] = 0
                 /\ \A pc \in p.decoys : pc \in 0..Len(p.code) /\ Hidden(p.code)[pc] > 0

\* The same for the bytes of a strategy behind at others.
BytesOK(at, bytes, labels, decoys, raw) ==
    /\ \A pc \in labels : \E i \in 0..(Len(bytes) - 1) :
         pc = at + i /\ bytes[i + 1] = JUMPDEST /\ (~raw => Hidden(bytes)[i] = 0)
    /\ ~raw => /\ bytes \in Complete
               /\ \A pc \in decoys : \E i \in 0..Len(bytes) :
                    pc = at + i /\ Hidden(bytes)[i] > 0

Grown(p, bytes, labels, decoys, raw) ==
    [code   |-> p.code \o bytes,
     labels |-> p.labels \cup labels,
     decoys |-> p.decoys \cup decoys,
     raw    |-> p.raw \/ raw]

LEMMA ProgGrows ==
    ASSUME NEW p \in ProgType, ProgOK(p), NEW bytes \in Code,
           NEW labels \in SUBSET Nat, NEW decoys \in SUBSET Nat, NEW raw \in BOOLEAN,
           BytesOK(Len(p.code), bytes, labels, decoys, raw)
    PROVE  LET q == Grown(p, bytes, labels, decoys, raw) IN
           q \in ProgType /\ ProgOK(q) /\ Len(q.code) = Len(p.code) + Len(bytes)
<1> DEFINE q == Grown(p, bytes, labels, decoys, raw)
           c == p.code
           n == Len(c)
<1>1. /\ c \in Code /\ n \in Nat /\ Len(bytes) \in Nat /\ p.labels \in SUBSET Nat
      /\ p.decoys \in SUBSET Nat /\ p.raw \in BOOLEAN
  BY DEF ProgType, Code
<1>2. /\ c \o bytes \in Code /\ Len(c \o bytes) = n + Len(bytes)
      /\ \A i \in 1..n : (c \o bytes)[i] = c[i]
      /\ \A i \in 1..Len(bytes) : (c \o bytes)[n + i] = bytes[i]
  BY <1>1 DEF Code
<1>3. /\ q.code = c \o bytes /\ q.labels = p.labels \cup labels
      /\ q.decoys = p.decoys \cup decoys /\ q.raw = (p.raw \/ raw)
  BY DEF Grown
<1>4. q \in ProgType
  BY <1>1, <1>2 DEF Grown, ProgType
<1>5. ASSUME NEW pc \in q.labels
      PROVE  /\ pc \in 0..(Len(q.code) - 1) /\ q.code[pc + 1] = JUMPDEST
             /\ ~q.raw => Hidden(q.code)[pc] = 0
  <2>1. CASE pc \in p.labels
    <3>1. pc \in 0..(n - 1) /\ c[pc + 1] = JUMPDEST /\ (~p.raw => Hidden(c)[pc] = 0)
      BY <2>1 DEF ProgOK
    <3>2. pc + 1 \in 1..n /\ pc \in 0..n
      BY <1>1, <3>1
    <3>3. Hidden(c \o bytes)[pc] = Hidden(c)[pc]
      BY <1>1, <3>2, HiddenOfPrefix
    <3>4. pc \in 0..(Len(q.code) - 1)
      BY <1>1, <1>2, <1>3, <3>1
    <3> QED BY <1>2, <1>3, <3>1, <3>2, <3>3, <3>4
  <2>2. CASE pc \in labels
    <3>1. PICK i \in 0..(Len(bytes) - 1) :
              pc = n + i /\ bytes[i + 1] = JUMPDEST /\ (~raw => Hidden(bytes)[i] = 0)
      BY <2>2 DEF BytesOK
    <3>2. i + 1 \in 1..Len(bytes) /\ i \in 0..Len(bytes) /\ pc + 1 = n + (i + 1)
      BY <1>1, <3>1
    <3>3. pc \in 0..(Len(q.code) - 1) /\ q.code[pc + 1] = JUMPDEST
      BY <1>1, <1>2, <1>3, <3>1, <3>2
    <3>4. ~q.raw => Hidden(q.code)[pc] = 0
      <4> SUFFICES ASSUME ~q.raw PROVE Hidden(q.code)[pc] = 0
        OBVIOUS
      <4>1. c \in Complete /\ ~raw
        BY <1>3 DEF ProgOK
      <4>2. Hidden(c \o bytes)[n + i] = Hidden(bytes)[i]
        BY <3>2, <4>1, HiddenOfSuffix
      <4> QED BY <1>3, <3>1, <4>1, <4>2
    <3> QED BY <3>3, <3>4
  <2> QED BY <1>3, <2>1, <2>2
<1>6. ASSUME ~q.raw
      PROVE  /\ q.code \in Complete
             /\ \A pc \in q.decoys : pc \in 0..Len(q.code) /\ Hidden(q.code)[pc] > 0
  <2>1. c \in Complete /\ bytes \in Complete /\ ~raw /\ ~p.raw
    BY <1>3, <1>6 DEF ProgOK, BytesOK
  <2>2. q.code \in Complete
    BY <1>3, <2>1, CompleteClosed
  <2>3. ASSUME NEW pc \in p.decoys PROVE pc \in 0..Len(q.code) /\ Hidden(q.code)[pc] > 0
    <3>1. pc \in 0..n /\ Hidden(c)[pc] > 0
      BY <2>1 DEF ProgOK
    <3>2. Hidden(c \o bytes)[pc] = Hidden(c)[pc]
      BY <1>1, <3>1, HiddenOfPrefix
    <3>3. pc \in 0..Len(q.code)
      BY <1>1, <1>2, <1>3, <3>1
    <3> QED BY <1>3, <3>1, <3>2, <3>3
  <2>4. ASSUME NEW pc \in decoys PROVE pc \in 0..Len(q.code) /\ Hidden(q.code)[pc] > 0
    <3>1. PICK i \in 0..Len(bytes) : pc = n + i /\ Hidden(bytes)[i] > 0
      BY <2>1 DEF BytesOK
    <3>2. Hidden(c \o bytes)[n + i] = Hidden(bytes)[i]
      BY <2>1, <3>1, HiddenOfSuffix
    <3>3. pc \in 0..Len(q.code)
      BY <1>1, <1>2, <1>3, <3>1
    <3> QED BY <1>3, <3>1, <3>2, <3>3
  <2> QED BY <1>3, <2>2, <2>3, <2>4
<1>7. ProgOK(q)
  <2> HIDE DEF q
  <2> QED BY <1>5, <1>6 DEF ProgOK
<1>8. Len(q.code) = Len(p.code) + Len(bytes)
  BY <1>2, <1>3
<1> HIDE DEF q
<1> QED BY <1>4, <1>7, <1>8 DEF q

-----------------------------------------------------------------------------
(* The state.                                                              *)

\* The program of every level is well-formed and as long as CodeBudget counts.
ProgInv ==
    /\ progs \in Seq(ProgType) /\ Len(progs) = Depth
    /\ \A d \in 1..Depth : ProgOK(progs[d]) /\ Len(progs[d].code) = levels[d].len

GInv == IInv /\ ProgInv

LEMMA GInvTypes ==
    ASSUME GInv
    PROVE  /\ levels \in Seq(LevelType) /\ Depth = Len(levels) /\ Depth \in Nat
           /\ budget \in Int /\ budget <= MaxTotalBytes
           /\ \A d \in 1..Depth : progs[d] \in ProgType /\ ProgOK(progs[d])
                                  /\ Len(progs[d].code) \in Nat
<1>1. levels \in Seq(LevelType) /\ Depth = Len(levels) /\ Depth \in Nat
  BY DEF GInv, IInv, BTypeOK, LevelType, Depth
<1>2. budget \in Int /\ budget <= MaxTotalBytes
  BY BudgetAssumption DEF GInv, IInv, BTypeOK, Accounting
<1>3. ASSUME NEW d \in 1..Depth
      PROVE  progs[d] \in ProgType /\ ProgOK(progs[d]) /\ Len(progs[d].code) \in Nat
  <2>1. progs[d] \in ProgType /\ ProgOK(progs[d])
    BY <1>1, ElementOfSeq DEF GInv, ProgInv
  <2>2. Len(progs[d].code) = levels[d].len /\ levels[d] \in LevelType
    BY <1>1, ElementOfSeq DEF GInv, ProgInv
  <2> QED BY <2>1, <2>2 DEF LevelType
<1> QED BY <1>1, <1>2, <1>3

\* What the end of a round does to the programs.
LEMMA GrowProgs ==
    ASSUME GInv, NEW d \in 1..Depth, NEW bytes \in Code,
           NEW labels \in SUBSET Nat, NEW decoys \in SUBSET Nat, NEW raw \in BOOLEAN,
           BytesOK(Len(progs[d].code), bytes, labels, decoys, raw),
           Grow(d, Len(bytes)), Emitted(d, bytes, labels, decoys, raw)
    PROVE  ProgInv'
<1> DEFINE new   == Grown(progs[d], bytes, labels, decoys, raw)
           outer == SubSeq(progs, 1, d - 1)
           last  == [rounds |-> levels[d].rounds - 1, len |-> levels[d].len + Len(bytes),
                     prev |-> levels[d].len + Len(bytes)]
           below == SubSeq(levels, 1, d - 1)
<1>1. /\ levels \in Seq(LevelType) /\ Depth = Len(levels) /\ Depth \in Nat
      /\ progs \in Seq(ProgType) /\ Len(progs) = Depth
      /\ progs[d] \in ProgType /\ ProgOK(progs[d]) /\ Len(progs[d].code) = levels[d].len
  BY GInvTypes DEF GInv, ProgInv
<1>2. new \in ProgType /\ ProgOK(new) /\ Len(new.code) = levels[d].len + Len(bytes)
  BY <1>1, ProgGrows
<1>3. progs' = Append(outer, new) /\ levels' = Append(below, last)
  BY DEF Emitted, Grown, Grow
<1>4. /\ outer \in Seq(ProgType) /\ Len(outer) = d - 1
      /\ \A i \in 1..(d - 1) : outer[i] = progs[i]
  BY <1>1
<1>5. /\ below \in Seq(LevelType) /\ Len(below) = d - 1
      /\ \A i \in 1..(d - 1) : below[i] = levels[i]
  BY <1>1
<1>6. last.len = levels[d].len + Len(bytes)
  OBVIOUS
<1> HIDE DEF new, outer, last, below
<1>7. /\ progs' \in Seq(ProgType) /\ Len(progs') = d /\ progs'[d] = new
      /\ \A i \in 1..(d - 1) : progs'[i] = progs[i]
  BY <1>2, <1>3, <1>4
<1>8. /\ Len(levels') = d /\ levels'[d] = last
      /\ \A i \in 1..(d - 1) : levels'[i] = levels[i]
  <2>1. Len(levels') = Len(below) + 1
    BY <1>3, <1>5
  <2> QED BY <1>3, <1>5, <2>1
<1>9. ASSUME NEW i \in 1..d
      PROVE  ProgOK(progs'[i]) /\ Len(progs'[i].code) = levels'[i].len
  <2>1. CASE i = d
    BY <1>2, <1>6, <1>7, <1>8, <2>1
  <2>2. CASE i # d
    <3>1. i \in 1..(d - 1) /\ i \in 1..Depth
      BY <1>1, <2>2
    <3> QED BY <1>7, <1>8, <3>1 DEF GInv, ProgInv
  <2> QED BY <2>1, <2>2
<1> QED BY <1>7, <1>8, <1>9 DEF ProgInv, Depth

\* A strategy that does not nest takes a step of CodeBudget.
LEMMA EmitStep ==
    ASSUME GInv, NEW bytes \in Code, Len(bytes) <= MaxEmit,
           NEW labels \in SUBSET Nat, NEW decoys \in SUBSET Nat, NEW raw \in BOOLEAN,
           BytesOK(Len(Prog.code), bytes, labels, decoys, raw),
           Emit(bytes, labels, decoys, raw)
    PROVE  BNext /\ GInv'
<1>1. Len(bytes) \in 0..MaxEmit
  <2>1. Len(bytes) \in Nat
    BY DEF Code
  <2> QED BY <2>1, BudgetAssumption
<1>2. Execute(Len(bytes)) /\ Emitted(Depth, bytes, labels, decoys, raw)
  BY DEF Emit
<1>3. Depth \in 1..Depth /\ Prog = progs[Depth]
  <2>1. levels # <<>> /\ levels \in Seq(LevelType) /\ Depth = Len(levels)
    BY <1>2, GInvTypes DEF Execute, Looping
  <2>2. Depth \in Nat \ {0}
    BY <2>1, EmptySeq
  <2>3. progs # <<>>
    BY <2>2, EmptySeq DEF GInv, ProgInv
  <2> QED BY <2>2, <2>3 DEF Prog
<1>4. Grow(Depth, Len(bytes))
  BY <1>2 DEF Execute
<1>5. ProgInv'
  BY <1>2, <1>3, <1>4, GrowProgs
<1>6. IInv'
  BY <1>1, <1>2, ExecuteStep DEF GInv
<1> QED BY <1>1, <1>2, <1>5, <1>6 DEF BNext, GInv

\* Complete instructions without labels and decoys.
LEMMA PlainStep ==
    ASSUME GInv, NEW bytes \in Code, Len(bytes) <= MaxEmit, NEW raw \in BOOLEAN,
           ~raw => bytes \in Complete, Emit(bytes, {}, {}, raw)
    PROVE  BNext /\ GInv'
<1>1. BytesOK(Len(Prog.code), bytes, {}, {}, raw)
  BY DEF BytesOK
<1> QED BY <1>1, EmitStep

-----------------------------------------------------------------------------
(* The strategies.                                                         *)

LEMMA EmitOpcodeStep == GInv /\ EmitOpcode => BNext /\ GInv'
<1> SUFFICES ASSUME GInv, EmitOpcode PROVE BNext /\ GInv'
  OBVIOUS
<1>1. PICK op \in RawOpcodes : Emit(<<op>>, {}, {}, op \in RawPushes)
  BY DEF EmitOpcode
<1>2. <<op>> \in Code /\ Len(<<op>>) <= MaxEmit /\ (op \notin RawPushes => <<op>> \in Complete)
  BY RawByte, EmitAssumption
<1> DEFINE raw == op \in RawPushes
<1>3. raw \in BOOLEAN
  OBVIOUS
<1>4. Emit(<<op>>, {}, {}, raw) /\ (~raw => <<op>> \in Complete)
  BY <1>1, <1>2, Zenon
<1> HIDE DEF raw
<1> QED BY <1>2, <1>3, <1>4, PlainStep

LEMMA EmitShapeStep == GInv /\ EmitShape => BNext /\ GInv'
<1> SUFFICES ASSUME GInv, EmitShape PROVE BNext /\ GInv'
  OBVIOUS
<1>1. PICK s \in shapes \cup StackFill(budget) : Emit(Assemble(s), {}, {}, FALSE)
  <2>1. PICK code \in shapeCodes \cup {Assemble(s) : s \in StackFill(budget)} :
           Emit(code, {}, {}, FALSE)
    BY DEF EmitShape
  <2>2. PICK s \in shapes \cup StackFill(budget) : code = Assemble(s)
    BY <2>1 DEF shapeCodes
  <2> QED BY <2>1, <2>2
<1>2. s \in Shapes /\ Len(Assemble(s)) <= MaxEmit
  <2>1. CASE s \in shapes
    BY <2>1, ShapesTyped, EmitAssumption DEF shapeCodes
  <2>2. CASE s \in StackFill(budget)
    BY <2>2, GInvTypes, StackFillFits
  <2> QED BY <2>1, <2>2
<1>3. Assemble(s) \in Complete /\ Assemble(s) \in Code
  BY <1>2, AssembleComplete DEF Complete
<1> QED BY <1>1, <1>2, <1>3, PlainStep

LEMMA EmitCallStep == GInv /\ EmitCall => BNext /\ GInv'
<1> SUFFICES ASSUME GInv, EmitCall PROVE BNext /\ GInv'
  OBVIOUS
<1>1. budget \in Int /\ budget <= MaxTotalBytes
  BY GInvTypes
<1>2. ASSUME NEW n \in DataSizes \cup {w + 2 : w \in Widths}, NEW c2 \in BOOLEAN,
             NEW op \in CallOps, NEW raw \in BOOLEAN, op.byte \in RawPushes => raw,
             Emit(CreateAndCall(n, c2, op), {}, {}, raw)
      PROVE  BNext /\ GInv'
  <2>1. n \in Nat
    <3>1. CASE n \in DataSizes
      BY <3>1, DrawAssumption
    <3>2. CASE n \in {w + 2 : w \in Widths}
      <4>1. PICK w \in Widths : n = w + 2
        BY <3>2
      <4> QED BY <4>1, DrawAssumption
    <3> QED BY <3>1, <3>2
  <2>2. Truncate(n, budget) \in Kept(n) /\ Truncate(n, budget) \in Nat
    BY <1>1, <2>1, TruncateKept
  <2>3. /\ CreateAndCall(n, c2, op) \in Code /\ Len(CreateAndCall(n, c2, op)) <= MaxEmit
        /\ ~raw => CreateAndCall(n, c2, op) \in Complete
    BY <1>2, <2>2, CallCodeTyped, EmitAssumption DEF CreateAndCall
  <2> QED BY <1>2, <2>3, PlainStep
<1>3. [byte |-> OP, value |-> TRUE] \in CallOps /\ StaticCall \in CallOps
  BY DEF CallOps, StaticCall, RawOpcodes
<1>4. OP \notin RawPushes
  BY DrawAssumption DEF OP
<1>5. CASE \E n \in DataSizes, c2 \in BOOLEAN, op \in CallOps :
             Emit(CreateAndCall(n, c2, op), {}, {}, op.byte \in RawPushes)
  <2>1. PICK n \in DataSizes, c2 \in BOOLEAN, op \in CallOps :
             Emit(CreateAndCall(n, c2, op), {}, {}, op.byte \in RawPushes)
    BY <1>5
  <2> DEFINE raw == op.byte \in RawPushes
  <2>2. raw \in BOOLEAN
    OBVIOUS
  <2>3. (op.byte \in RawPushes => raw) /\ Emit(CreateAndCall(n, c2, op), {}, {}, raw)
    BY <2>1, Zenon
  <2> HIDE DEF raw
  <2> QED BY <1>2, <2>2, <2>3
<1>6. CASE \E w \in Widths :
             Emit(CreateAndCall(w + 2, FALSE, [byte |-> OP, value |-> TRUE]), {}, {}, FALSE)
  BY <1>2, <1>3, <1>4, <1>6
<1>7. CASE Emit(CreateAndCall(DeployInit(5), FALSE, StaticCall) \o returnDataCode,
                {}, {}, FALSE)
  <2> DEFINE n == DeployInit(5)
             k == Truncate(n, budget)
             bytes == CallCode(k, FALSE, StaticCall) \o returnDataCode
  <2>1. n \in Nat
    BY DEF DeployInit, Width
  <2>2. k \in Kept(n) /\ k \in Nat
    <3> HIDE DEF n
    <3> QED BY <1>1, <2>1, TruncateKept
  <2> HIDE DEF k
  <2>3. Len(bytes) <= MaxEmit
    BY <2>2, EmitAssumption
  <2>4. CallCode(k, FALSE, StaticCall) \in Complete
    BY <1>3, <1>4, <2>2, CallCodeTyped DEF StaticCall
  <2>5. returnDataCode \in Complete
    <3>1. <<1, 1, 1, 0>> \in Shapes
      BY DEF Shapes
    <3> QED BY <3>1, AssembleComplete DEF returnDataCode
  <2>6. bytes \in Complete /\ bytes \in Code
    BY <2>4, <2>5, CompleteClosed DEF Complete
  <2>7. Emit(bytes, {}, {}, FALSE)
    BY <1>7 DEF CreateAndCall, k
  <2> HIDE DEF bytes
  <2> QED BY <2>3, <2>6, <2>7, PlainStep
<1> QED BY <1>5, <1>6, <1>7 DEF EmitCall

LEMMA ProgTyped ==
    ASSUME GInv
    PROVE  /\ Prog \in ProgType /\ Len(Prog.code) \in Nat
           /\ \A pc \in Prog.labels : pc \in Nat
<1>1. NewProgram \in ProgType
  BY DEF NewProgram, ProgType, Code
<1>2. Prog \in ProgType
  <2>1. CASE progs = <<>>
    BY <1>1, <2>1 DEF Prog
  <2>2. CASE progs # <<>>
    <3>1. Depth \in 1..Depth
      BY <2>2, EmptySeq, GInvTypes DEF GInv, ProgInv
    <3> QED BY <2>2, <3>1, GInvTypes DEF Prog
  <2> QED BY <2>1, <2>2
<1>3. Prog.code \in Seq(0..JUMPDEST) /\ Prog.labels \in SUBSET Nat
  BY <1>2 DEF ProgType, Code
<1> QED BY <1>2, <1>3

LEMMA EmitLabelStep == GInv /\ EmitLabel => BNext /\ GInv'
<1> SUFFICES ASSUME GInv, EmitLabel PROVE BNext /\ GInv'
  OBVIOUS
<1> DEFINE at == Len(Prog.code)
<1>1. at \in Nat /\ Emit(<<JUMPDEST>>, {at}, {}, FALSE)
  BY ProgTyped DEF EmitLabel
<1> HIDE DEF at
<1>2. <<JUMPDEST>> \in Code /\ <<JUMPDEST>> \in Complete
      /\ Len(<<JUMPDEST>>) = 1 /\ <<JUMPDEST>>[0 + 1] = JUMPDEST
  BY ByteComplete DEF Complete
<1>3. Hidden(<<JUMPDEST>>)[0] = 0
  BY <1>2, HiddenEquation
<1>4. BytesOK(at, <<JUMPDEST>>, {at}, {}, FALSE)
  BY <1>1, <1>2, <1>3 DEF BytesOK
<1>5. Len(<<JUMPDEST>>) <= MaxEmit /\ {at} \in SUBSET Nat /\ {} \in SUBSET Nat
  BY <1>1, <1>2, EmitAssumption
<1> QED BY <1>1, <1>2, <1>4, <1>5, EmitStep DEF at

LEMMA EmitJumpStep == GInv /\ EmitJump => BNext /\ GInv'
<1> SUFFICES ASSUME GInv, EmitJump PROVE BNext /\ GInv'
  OBVIOUS
<1>1. PICK dest \in Prog.labels, condition \in conditions :
          Emit(jumpCode(condition, Width(dest)), {}, {}, FALSE)
  BY DEF EmitJump
<1> DEFINE w == Width(dest)
<1>2. w \in 1..3 /\ w \in 0..32
  BY WidthSmall
<1> HIDE DEF w
<1>3. condition \o <<w, 0>> \in Shapes
  <2>1. <<w, 0>> \in Shapes
    BY <1>2 DEF Shapes
  <2> QED BY <2>1, ConditionShape, ShapesClosed
<1>4. jumpCode(condition, w) \in Complete /\ jumpCode(condition, w) \in Code
  BY <1>3, AssembleComplete DEF jumpCode, Complete
<1>5. Len(jumpCode(condition, w)) <= MaxEmit
  BY <1>2, EmitAssumption
<1> QED BY <1>1, <1>4, <1>5, PlainStep DEF w

\* A PUSH1 is two bytes long.
LEMMA AssemblePush ==
    Len(Assemble(<<1>>)) = 2
<1> DEFINE seqs == [i \in DOMAIN <<1>> |-> Instruction(<<1>>[i])]
<1>1. Assemble(<<1>>) = FlattenSeq(seqs)
  BY DEF Assemble, Instruction
<1>2. Instruction(1) \in Code /\ Len(Instruction(1)) = 2
  <2>1. Instruction(1) = <<1>> \o [k \in 1..1 |-> OP]
    BY DEF Instruction
  <2>2. Instruction(1) \in Code
    BY InstructionComplete DEF Complete
  <2> QED BY <2>1, <2>2
<1>3. seqs \in Seq(Seq(0..JUMPDEST)) /\ Len(seqs) = 1 /\ seqs[1] = Instruction(1)
  <2>1. DOMAIN <<1>> = 1..1 /\ <<1>>[1] = 1
    OBVIOUS
  <2>2. seqs = [i \in 1..1 |-> Instruction(1)]
    BY <2>1
  <2> HIDE DEF seqs
  <2> QED BY <1>2, <2>2 DEF Code
<1> HIDE DEF seqs
<1>4. FlattenSeq(seqs) = seqs[1]
  <2>1. seqs # <<>>
    BY <1>3
  <2> QED BY <1>3, <2>1, FlattenEquation
<1> QED BY <1>1, <1>2, <1>3, <1>4

LEMMA ConcatCode ==
    ASSUME NEW s \in Code, NEW t \in Code
    PROVE  /\ s \o t \in Code /\ Len(s) \in Nat /\ Len(t) \in Nat
           /\ Len(s \o t) = Len(s) + Len(t)
           /\ \A i \in 1..Len(s) : (s \o t)[i] = s[i]
           /\ \A i \in 1..Len(t) : (s \o t)[Len(s) + i] = t[i]
BY DEF Code

\* A JUMPDEST between complete instructions is a label.
LEMMA LabelBetween ==
    ASSUME NEW a \in Complete, NEW b \in Complete
    PROVE  LET c == (a \o <<JUMPDEST>>) \o b IN
           /\ c \in Complete /\ c \in Code /\ Hidden(c)[Len(a)] = 0
           /\ Len(a) \in 0..(Len(c) - 1) /\ c[Len(a) + 1] = JUMPDEST
<1> DEFINE j == <<JUMPDEST>>
           s == a \o j
           c == s \o b
<1>1. a \in Code /\ b \in Code /\ Hidden(a)[Len(a)] = 0 /\ Len(a) \in Nat /\ Len(b) \in Nat
  BY DEF Complete, Code
<1>2. j \in Code /\ j \in Complete /\ Len(j) = 1 /\ j[1] = JUMPDEST
  BY ByteComplete DEF Complete
<1> HIDE DEF j
<1>3. s \in Complete
  BY <1>2, CompleteClosed
<1>4. s \in Code /\ Len(s) = Len(a) + 1 /\ s[Len(a) + 1] = JUMPDEST
  <2>1. 1 \in 1..Len(j)
    BY <1>2
  <2>2. /\ a \o j \in Code /\ Len(a \o j) = Len(a) + Len(j)
        /\ (a \o j)[Len(a) + 1] = j[1]
    BY <1>1, <1>2, <2>1, ConcatCode, Zenon
  <2> QED BY <1>2, <2>2, Zenon
<1>5. Hidden(s)[Len(a)] = 0
  <2>1. Len(a) \in 0..Len(a)
    BY <1>1
  <2> QED BY <1>1, <1>2, <2>1, HiddenOfPrefix
<1> HIDE DEF s
<1>6. c \in Complete
  BY <1>3, CompleteClosed
<1>7. c \in Code /\ Len(c) = Len(a) + 1 + Len(b) /\ c[Len(a) + 1] = JUMPDEST
  <2>1. Len(a) + 1 \in 1..Len(s)
    BY <1>1, <1>4
  <2>2. /\ s \o b \in Code /\ Len(s \o b) = Len(s) + Len(b)
        /\ (s \o b)[Len(a) + 1] = s[Len(a) + 1]
    BY <1>1, <1>4, <2>1, ConcatCode, Zenon
  <2> QED BY <1>4, <2>2, Zenon
<1>8. Hidden(c)[Len(a)] = 0
  <2>1. Len(a) \in 0..Len(s)
    BY <1>1, <1>4
  <2> QED BY <1>1, <1>4, <1>5, <2>1, HiddenOfPrefix
<1> HIDE DEF c
<1>9. Len(a) \in 0..(Len(c) - 1)
  BY <1>1, <1>7
<1> QED BY <1>6, <1>7, <1>8, <1>9 DEF c, s, j

LEMMA LoopCodeOK ==
    ASSUME NEW w \in 1..3, NEW at \in Nat
    PROVE  loopCode(w) \in Code /\ BytesOK(at, loopCode(w), {at + 2}, {}, FALSE)
<1> DEFINE push  == Assemble(<<1>>)
           rest  == Assemble(<<0, 0, 1, 0, 0, 0, w, 0, 0>>)
           bytes == (push \o <<JUMPDEST>>) \o rest
<1>1. <<1>> \in Shapes /\ <<0, 0, 1, 0, 0, 0, w, 0, 0>> \in Shapes
  BY DEF Shapes
<1>2. push \in Complete /\ rest \in Complete /\ Len(push) = 2
  BY <1>1, AssembleComplete, AssemblePush
<1>3. loopCode(w) = bytes
  BY DEF loopCode
<1> HIDE DEF push, rest
<1>4. /\ bytes \in Complete /\ bytes \in Code /\ Hidden(bytes)[2] = 0
      /\ 2 \in 0..(Len(bytes) - 1) /\ bytes[2 + 1] = JUMPDEST
  BY <1>2, LabelBetween, ZenonT(60)
<1> HIDE DEF bytes
<1> QED BY <1>3, <1>4 DEF BytesOK

LEMMA EmitLoopStep == GInv /\ EmitLoop => BNext /\ GInv'
<1> SUFFICES ASSUME GInv, EmitLoop PROVE BNext /\ GInv'
  OBVIOUS
<1> DEFINE at == Len(Prog.code)
           w  == Width(at + 2)
<1>1. at \in Nat /\ w \in 1..3 /\ Emit(loopCode(w), {at + 2}, {}, FALSE)
  BY ProgTyped, WidthSmall DEF EmitLoop
<1> HIDE DEF at, w
<1>2. loopCode(w) \in Code /\ BytesOK(at, loopCode(w), {at + 2}, {}, FALSE)
  BY <1>1, LoopCodeOK
<1>3. Len(loopCode(w)) <= MaxEmit /\ {at + 2} \in SUBSET Nat /\ {} \in SUBSET Nat
  BY <1>1, EmitAssumption
<1> QED BY <1>1, <1>2, <1>3, EmitStep DEF at

LEMMA InvalidJumpCodeOK ==
    ASSUME NEW w \in 1..3, NEW at \in Nat
    PROVE  /\ invalidJumpCode(w) \in Code
           /\ BytesOK(at, invalidJumpCode(w), {}, {at + 1}, FALSE)
<1> DEFINE rest  == Assemble(<<0, w, 0>>)
<1>1. <<0, w, 0>> \in Shapes
  BY DEF Shapes
<1>2. rest \in Complete
  BY <1>1, AssembleComplete
<1>3. PICK push : push = <<1, JUMPDEST>>
  OBVIOUS
<1>4. push \in Code /\ Len(push) = 2 /\ push[1] = 1 /\ push[2] = JUMPDEST
  BY <1>3 DEF Code, JUMPDEST
<1>5. Hidden(push)[1] = 1 /\ Hidden(push)[2] = 0
  <2>1. /\ Hidden(push)[0] = 0 /\ Hidden(push)[1] = After(Hidden(push)[0], 1)
        /\ Hidden(push)[2] = After(Hidden(push)[1], JUMPDEST)
    <3>1. \A i \in 1..2 : Hidden(push)[i] = After(Hidden(push)[i - 1], push[i])
      BY <1>4, HiddenEquation
    <3>2. 1 \in 1..2 /\ 2 \in 1..2 /\ 1 - 1 = 0 /\ 2 - 1 = 1
      OBVIOUS
    <3>3. Hidden(push)[0] = 0
      BY <1>4, HiddenEquation
    <3> QED BY <1>4, <3>1, <3>2, <3>3
  <2>2. Hidden(push)[1] = 1
    BY <2>1 DEF After, Operand
  <2> QED BY <2>1, <2>2 DEF After
<1>6. push \in Complete
  BY <1>4, <1>5 DEF Complete
<1>7. PICK bytes : bytes = push \o rest
  OBVIOUS
<1>8. bytes \in Complete /\ bytes \in Code
  BY <1>2, <1>6, <1>7, CompleteClosed DEF Complete
<1>9. Hidden(bytes)[1] = 1 /\ 1 \in 0..Len(bytes)
  <2>1. rest \in Code
    BY <1>2 DEF Complete
  <2> HIDE DEF rest
  <2>2. 1 \in 0..Len(push)
    BY <1>4
  <2>3. Hidden(bytes)[1] = 1
    BY <1>4, <1>5, <1>7, <2>1, <2>2, HiddenOfPrefix
  <2>4. Len(bytes) = 2 + Len(rest) /\ Len(rest) \in Nat
    <3>1. Len(push \o rest) = Len(push) + Len(rest) /\ Len(rest) \in Nat
      BY <1>4, <2>1, ConcatCode, Zenon
    <3> QED BY <1>4, <1>7, <3>1, Zenon
  <2> QED BY <2>3, <2>4
<1>10. invalidJumpCode(w) = bytes
  BY <1>3, <1>7 DEF invalidJumpCode
<1> QED BY <1>8, <1>9, <1>10 DEF BytesOK

LEMMA EmitInvalidJumpStep == GInv /\ EmitInvalidJump => BNext /\ GInv'
<1> SUFFICES ASSUME GInv, EmitInvalidJump PROVE BNext /\ GInv'
  OBVIOUS
<1> DEFINE at == Len(Prog.code)
           w  == Width(at + 1)
<1>1. at \in Nat /\ w \in 1..3 /\ Emit(invalidJumpCode(w), {}, {at + 1}, FALSE)
  BY ProgTyped, WidthSmall DEF EmitInvalidJump
<1> HIDE DEF at, w
<1>2. /\ invalidJumpCode(w) \in Code
      /\ BytesOK(at, invalidJumpCode(w), {}, {at + 1}, FALSE)
  BY <1>1, InvalidJumpCodeOK
<1>3. Len(invalidJumpCode(w)) <= MaxEmit /\ {} \in SUBSET Nat /\ {at + 1} \in SUBSET Nat
  BY <1>1, EmitAssumption
<1> QED BY <1>1, <1>2, <1>3, EmitStep DEF at

LEMMA SkipNestedStep == GInv /\ SkipNested => BNext /\ GInv'
<1> SUFFICES ASSUME GInv, SkipNested PROVE BNext /\ GInv'
  OBVIOUS
<1>1. Emit(<<>>, {}, {}, FALSE)
  BY DEF SkipNested
<1>2. <<>> \in Complete /\ <<>> \in Code /\ Len(<<>>) <= MaxEmit
  BY CompleteClosed, BudgetAssumption DEF Complete
<1> QED BY <1>1, <1>2, PlainStep

LEMMA StartNestedStep == GInv /\ StartNested => BNext /\ GInv'
<1> SUFFICES ASSUME GInv, StartNested PROVE BNext /\ GInv'
  OBVIOUS
<1>1. PICK c \in Counters : Nest(c) /\ progs' = Append(progs, NewProgram)
  BY DEF StartNested
<1>2. /\ levels \in Seq(LevelType) /\ Depth = Len(levels) /\ Depth \in Nat
      /\ progs \in Seq(ProgType) /\ Len(progs) = Depth
      /\ levels' = Append(levels, Level(c))
  BY <1>1, GInvTypes DEF GInv, ProgInv, Nest
<1>3. NewProgram \in ProgType /\ ProgOK(NewProgram) /\ Len(NewProgram.code) = 0
  <2>1. /\ NewProgram.code = <<>> /\ NewProgram.labels = {} /\ NewProgram.decoys = {}
        /\ NewProgram.raw = FALSE
    BY DEF NewProgram
  <2>2. NewProgram \in ProgType
    BY DEF NewProgram, ProgType, Code
  <2> QED BY <2>1, <2>2, CompleteClosed DEF ProgOK
<1>4. Level(c) \in LevelType /\ Level(c).len = 0
  BY BudgetAssumption DEF Level, LevelType
<1>5. /\ progs' \in Seq(ProgType) /\ Len(progs') = Depth + 1 /\ Len(levels') = Depth + 1
      /\ progs'[Depth + 1] = NewProgram /\ levels'[Depth + 1] = Level(c)
      /\ \A i \in 1..Depth : progs'[i] = progs[i] /\ levels'[i] = levels[i]
  BY <1>1, <1>2, <1>3, <1>4
<1>6. ASSUME NEW i \in 1..(Depth + 1)
      PROVE  ProgOK(progs'[i]) /\ Len(progs'[i].code) = levels'[i].len
  <2>1. CASE i = Depth + 1
    BY <1>3, <1>4, <1>5, <2>1
  <2>2. CASE i # Depth + 1
    <3>1. i \in 1..Depth
      BY <1>2, <2>2
    <3> QED BY <1>5, <3>1 DEF GInv, ProgInv
  <2> QED BY <2>1, <2>2
<1>7. ProgInv'
  BY <1>5, <1>6 DEF ProgInv, Depth
<1> QED BY <1>1, <1>7, NestStep DEF GInv, BNext

\* The caller of a nested program embeds it.
LEMMA EmbedStep ==
    ASSUME GInv, NEW n \in Nat, NEW c2 \in BOOLEAN, NEW op \in CallOps,
           NEW raw \in BOOLEAN, op.byte \in RawPushes => raw,
           Return(Len(CreateAndCall(n, c2, op))),
           Emitted(Depth - 1, CreateAndCall(n, c2, op), {}, {}, raw)
    PROVE  BNext /\ GInv'
<1> DEFINE bytes == CreateAndCall(n, c2, op)
<1>1. budget \in Int /\ budget <= MaxTotalBytes /\ Depth \in Nat
  BY GInvTypes
<1>2. Len(bytes) \in CallSizes(budget)
  BY <1>1, CallFits
<1>3. bytes \in Code /\ (~raw => bytes \in Complete)
  <2>1. Truncate(n, budget) \in Nat
    BY <1>1, TruncateKept
  <2> QED BY <2>1, CallCodeTyped DEF CreateAndCall
<1> HIDE DEF bytes
<1>4. Depth - 1 \in 1..Depth /\ Grow(Depth - 1, Len(bytes))
  BY <1>1 DEF Return, bytes
<1>5. BytesOK(Len(progs[Depth - 1].code), bytes, {}, {}, raw)
  BY <1>3 DEF BytesOK
<1>6. ProgInv'
  <2>1. Emitted(Depth - 1, bytes, {}, {}, raw)
    BY DEF bytes
  <2>2. {} \in SUBSET Nat
    OBVIOUS
  <2> QED BY <1>3, <1>4, <1>5, <2>1, <2>2, GrowProgs
<1>7. Return(Len(bytes))
  BY DEF bytes
<1>8. IInv'
  BY <1>2, <1>7, ReturnStep DEF GInv
<1> QED BY <1>2, <1>6, <1>7, <1>8 DEF BNext, GInv

LEMMA DeployInitNat ==
    ASSUME NEW n \in Nat
    PROVE  DeployInit(n) \in Nat
<1>1. Width(n) \in 1..3
  BY WidthSmall
<1> QED BY <1>1 DEF DeployInit

LEMMA AssembleLength ==
    ASSUME NEW s \in Shapes
    PROVE  Len(Assemble(s)) \in Nat
<1>1. Assemble(s) \in Code
  BY AssembleComplete DEF Complete
<1> QED BY <1>1, ConcatCode

LEMMA FinishCreateCallStep == GInv /\ FinishCreateCall => BNext /\ GInv'
<1> SUFFICES ASSUME GInv, FinishCreateCall PROVE BNext /\ GInv'
  OBVIOUS
<1>1. PICK n \in createInits(Len(Prog.code)), c2 \in BOOLEAN, op \in CallOps :
          LET bytes == CreateAndCall(n, c2, op) IN
          Return(Len(bytes)) /\ Emitted(Depth - 1, bytes, {}, {}, op.byte \in RawPushes)
  BY DEF FinishCreateCall
<1>2. n \in Nat
  <2>1. <<1, 1, 0>> \in Shapes
    BY DEF Shapes
  <2>2. Len(Prog.code) + 1 \in Nat
    BY ProgTyped
  <2> QED BY <2>1, <2>2, ProgTyped, DeployInitNat, AssembleLength DEF createInits
<1> DEFINE raw == op.byte \in RawPushes
<1>3. raw \in BOOLEAN
  OBVIOUS
<1>4. /\ op.byte \in RawPushes => raw
      /\ Return(Len(CreateAndCall(n, c2, op)))
      /\ Emitted(Depth - 1, CreateAndCall(n, c2, op), {}, {}, raw)
  BY <1>1, Zenon
<1> HIDE DEF raw
<1> QED BY <1>2, <1>3, <1>4, EmbedStep

LEMMA WriteOpsTyped ==
    ASSUME NEW op \in writeOps
    PROVE  op \in Shapes
<1>1. ASSUME NEW w \in Widths
      PROVE  <<w, 0, 0>> \in Shapes /\ <<w, 0>> \in Shapes
  <2>1. w \in 0..32
    BY DrawAssumption
  <2> QED BY <2>1 DEF Shapes
<1>2. <<1, 1, 1, 0>> \in Shapes /\ <<1>> \in Shapes
  BY DEF Shapes
<1>3. ASSUME NEW w \in Widths PROVE Times(5, <<1>>) \o <<w, 0, 0>> \in Shapes
  BY <1>1, <1>2, TimesShape, ShapesClosed
<1>4. \/ \E w \in Widths : op = Times(5, <<1>>) \o <<w, 0, 0>> \/ op = <<w, 0>>
      \/ op \in twoOperands \/ op \in logOps \/ op = <<1, 1, 1, 0>>
  BY Zenon DEF writeOps
<1> QED BY <1>1, <1>2, <1>3, <1>4, OperandShapes, LogOpsTyped, Zenon

LEMMA FinishStaticContextStep == GInv /\ FinishStaticContext => BNext /\ GInv'
<1> SUFFICES ASSUME GInv, FinishStaticContext PROVE BNext /\ GInv'
  OBVIOUS
<1>1. PICK n \in staticInits(Len(Prog.code)) :
          LET bytes == CreateAndCall(n, FALSE, StaticCall) IN
          Return(Len(bytes)) /\ Emitted(Depth - 1, bytes, {}, {}, FALSE)
  BY DEF FinishStaticContext
<1>2. n \in Nat
  <2>1. PICK op \in writeOps : n = DeployInit(Len(Assemble(op)) + Len(Prog.code))
    BY DEF staticInits
  <2>2. Len(Assemble(op)) + Len(Prog.code) \in Nat
    BY WriteOpsTyped, AssembleLength, ProgTyped
  <2> QED BY <2>1, <2>2, DeployInitNat
<1>3. StaticCall \in CallOps /\ StaticCall.byte \notin RawPushes
  BY DrawAssumption DEF CallOps, StaticCall, RawOpcodes, OP
<1> QED BY <1>1, <1>2, <1>3, EmbedStep

LEMMA FinishProgramStep == GInv /\ FinishProgram => BNext /\ GInv'
<1> SUFFICES ASSUME GInv, FinishProgram PROVE BNext /\ GInv'
  OBVIOUS
<1>1. Finish /\ levels' = <<>> /\ progs' = <<>>
  BY DEF FinishProgram, Finish
<1>2. ProgInv'
  BY <1>1 DEF ProgInv, Depth
<1> QED BY <1>1, <1>2, FinishStep DEF GInv, BNext

-----------------------------------------------------------------------------
LEMMA InitGInv == Init => BInit /\ GInv
<1> SUFFICES ASSUME Init PROVE BInit /\ GInv
  OBVIOUS
<1>1. BInit /\ progs = <<NewProgram>>
  BY DEF Init
<1>2. PICK c \in Counters : levels = <<Level(c)>>
  BY <1>1 DEF BInit
<1>3. /\ NewProgram.code = <<>> /\ NewProgram.labels = {} /\ NewProgram.decoys = {}
      /\ NewProgram.raw = FALSE
  BY DEF NewProgram
<1>4. NewProgram \in ProgType
  BY DEF NewProgram, ProgType, Code
<1>5. ProgOK(NewProgram) /\ Len(NewProgram.code) = 0
  BY <1>3, CompleteClosed DEF ProgOK
<1>6. /\ progs \in Seq(ProgType) /\ Len(progs) = 1 /\ progs[1] = NewProgram
      /\ Len(levels) = 1 /\ levels[1] = Level(c) /\ Level(c).len = 0
  BY <1>1, <1>2, <1>4 DEF Level
<1>7. ProgInv
  BY <1>5, <1>6 DEF ProgInv, Depth
<1> QED BY <1>1, <1>7, InitIInv DEF GInv

LEMMA StepGInv == GInv /\ [Next]_vars => [BNext]_bvars /\ GInv'
<1> SUFFICES ASSUME GInv, [Next]_vars PROVE [BNext]_bvars /\ GInv'
  OBVIOUS
<1>1. CASE EmitOpcode BY <1>1, EmitOpcodeStep
<1>2. CASE EmitShape BY <1>2, EmitShapeStep
<1>3. CASE EmitCall BY <1>3, EmitCallStep
<1>4. CASE EmitLabel BY <1>4, EmitLabelStep
<1>5. CASE EmitJump BY <1>5, EmitJumpStep
<1>6. CASE EmitLoop BY <1>6, EmitLoopStep
<1>7. CASE EmitInvalidJump BY <1>7, EmitInvalidJumpStep
<1>8. CASE SkipNested BY <1>8, SkipNestedStep
<1>9. CASE StartNested BY <1>9, StartNestedStep
<1>10. CASE FinishCreateCall BY <1>10, FinishCreateCallStep
<1>11. CASE FinishStaticContext BY <1>11, FinishStaticContextStep
<1>12. CASE FinishProgram BY <1>12, FinishProgramStep
<1>13. CASE Returned \/ UNCHANGED vars
  <2>1. UNCHANGED bvars /\ progs' = progs
    BY <1>13 DEF vars, Returned
  <2>2. IInv'
    BY <2>1, StepIInv DEF GInv
  <2>3. ProgInv'
    BY <2>1 DEF bvars, GInv, ProgInv, Depth
  <2> QED BY <2>1, <2>2, <2>3 DEF GInv
<1> QED BY <1>1, <1>2, <1>3, <1>4, <1>5, <1>6, <1>7, <1>8, <1>9, <1>10, <1>11, <1>12,
           <1>13 DEF Next

LEMMA GInvHolds == FairSpec => []GInv
<1>1. Init => GInv
  BY InitGInv
<1>2. GInv /\ [Next]_vars => GInv'
  BY StepGInv
<1> QED BY <1>1, <1>2, PTL DEF FairSpec

\* What the strategies really emit stays in the bounds with which CodeBudget counts:
\* every step of the generator is a step of CodeBudget or leaves its variables alone.
THEOREM BudgetImplemented == FairSpec => ImplementsCodeBudget
<1>1. Init => BInit
  BY InitGInv
<1>2. GInv /\ [Next]_vars => [BNext]_bvars
  BY StepGInv
<1> QED BY <1>1, <1>2, GInvHolds, PTL DEF FairSpec, ImplementsCodeBudget, BSpec

\* The generator keeps the types of its variables, and counts the bytes it emits.
THEOREM TypeCorrect == FairSpec => []TypeOK
<1>1. ASSUME GInv PROVE TypeOK
  <2>1. BTypeOK /\ Len(progs) = Depth
    BY <1>1 DEF GInv, IInv, ProgInv
  <2>2. ASSUME NEW d \in 1..Depth
        PROVE  /\ progs[d].code \in Seq(0..JUMPDEST)
               /\ Len(progs[d].code) = levels[d].len /\ progs[d].raw \in BOOLEAN
    <3>1. progs[d] \in ProgType
      BY <1>1, GInvTypes
    <3> QED BY <1>1, <3>1 DEF GInv, ProgInv, ProgType, Code
  <2> QED BY <2>1, <2>2 DEF TypeOK
<1> QED BY <1>1, GInvHolds, PTL

\* In every program, whatever the strategies emit around them, labels stay
\* destinations of jumps and the decoys of invalidJump never become one, as long as
\* no opcode was drawn without its operand.
THEOREM JumpsLand == FairSpec => []JumpsLandAsIntended
<1>1. ASSUME GInv PROVE JumpsLandAsIntended
  <2> SUFFICES ASSUME NEW d \in 1..Depth
               PROVE  LET p == progs[d] IN
                      /\ \A pc \in p.labels : pc < Len(p.code) /\ p.code[pc + 1] = JUMPDEST
                      /\ ~p.raw => /\ \A pc \in p.labels : ValidDest(p.code, pc)
                                   /\ \A pc \in p.decoys : ~ValidDest(p.code, pc)
    BY DEF JumpsLandAsIntended
  <2> DEFINE p == progs[d]
  <2>1. ProgOK(p) /\ Len(p.code) \in Nat
    BY <1>1, GInvTypes
  <2> HIDE DEF p
  <2>2. \A pc \in p.labels : pc < Len(p.code) /\ p.code[pc + 1] = JUMPDEST
    BY <2>1 DEF ProgOK
  <2>3. ASSUME ~p.raw
        PROVE  /\ \A pc \in p.labels : ValidDest(p.code, pc)
               /\ \A pc \in p.decoys : ~ValidDest(p.code, pc)
    BY <2>1, <2>3 DEF ProgOK, ValidDest
  <2> QED BY <2>2, <2>3 DEF p
<1> QED BY <1>1, GInvHolds, PTL

\* The bounds of CodeBudget are bounds of the bytes that the strategies emit.
THEOREM GeneratorKeepsBudget == FairSpec => [](Accounting /\ BudgetBound /\ TreeBounded)
BY BudgetImplemented, AccountingHolds, BudgetBoundHolds, TreeBoundedHolds, PTL
   DEF ImplementsCodeBudget
=============================================================================
