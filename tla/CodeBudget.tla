----------------------------- MODULE CodeBudget -----------------------------
(***************************************************************************)
(* generateCode, with the bytes of the programs counted but not looked at: *)
(* the tree of nested generations that share one byte budget.  A strategy  *)
(* that nests runs the whole loop of the nested program before it emits    *)
(* anything, so the calls in progress form a stack.  Generator adds the    *)
(* bytes.                                                                  *)
(***************************************************************************)
EXTENDS Integers, Sequences

CONSTANTS
    MaxTotalBytes,     \* maxTotalBytes, 10000
    MaxRecursionLevel, \* maxRecursionLevel, 10
    Counters,          \* what the first byte of a seed can be, 0..255
    MaxEmit,           \* the most bytes one strategy emits without nesting; 114532
    MinCall, MaxCall,  \* the least and the most bytes of CreateAndCall besides the init
                       \* code; 18 and 200
    Spread             \* how many bytes embed one byte of init code, at most; 2

ASSUME BudgetAssumption ==
    /\ {MaxTotalBytes, MaxRecursionLevel, MaxEmit, MinCall, MaxCall} \subseteq Nat
    /\ Counters \subseteq Nat
    /\ Spread \in 0..4

VARIABLES
    levels,  \* one record per generateCode in progress, the innermost last
    budget,  \* *env.budget, shared by all of them
    calls,   \* history: how often generateCode was called
    emitted  \* history: bytes emitted by all strategies so far

bvars == <<levels, budget, calls, emitted>>

Depth == Len(levels)

\* A new generateCode: rounds is what is left of counter, len is len(p.Bytes()).
Level(counter) == [rounds |-> counter, len |-> 0, prev |-> 0]

BInit ==
    /\ \E c \in Counters : levels = <<Level(c)>>
    /\ budget = MaxTotalBytes
    /\ calls = 1 /\ emitted = 0

\* Mutant: the loop does not look at the budget.
Looping_Unlimited == levels # <<>> /\ levels[Depth].rounds > 0

Looping == levels # <<>> /\ levels[Depth].rounds > 0 /\ budget > 0

\* Mutant: without budget the loop waits for more instead of ending.
Ended_OnlyByCounter == levels # <<>> /\ levels[Depth].rounds = 0

Ended   == levels # <<>> /\ (levels[Depth].rounds = 0 \/ budget <= 0)

\* Mutant: prev keeps the length of an earlier round.
Grow_KeepsPrev(d, n) ==
    LET l == levels[d] IN
    /\ levels' = Append(SubSeq(levels, 1, d - 1),
                        [rounds |-> l.rounds - 1, len |-> l.len + n, prev |-> l.prev])
    /\ budget' = budget - (l.len + n - l.prev)
    /\ emitted' = emitted + n

\* The strategy of level d is over, and has emitted n bytes: the end of a round.
Grow(d, n) ==
    LET l == levels[d] IN
    /\ levels' = Append(SubSeq(levels, 1, d - 1),
                        [rounds |-> l.rounds - 1, len |-> l.len + n, prev |-> l.len + n])
    /\ budget' = budget - (l.len + n - l.prev)
    /\ emitted' = emitted + n

\* A round whose strategy does not nest.
Execute(n) == Looping /\ Grow(Depth, n) /\ UNCHANGED calls

\* Mutant: the depth of the recursion is not limited.
MayNest_AnyDepth == Looping

\* The guard of createCallGenerator and staticContextGenerator.
MayNest == Looping /\ Depth - 1 < MaxRecursionLevel

\* A nested generateCode begins.
Nest(counter) ==
    /\ MayNest
    /\ levels' = Append(levels, Level(counter))
    /\ calls' = calls + 1
    /\ UNCHANGED <<budget, emitted>>

\* It ends, and the strategy that called it emits n bytes.
Return(n) == Depth > 1 /\ Ended /\ Grow(Depth - 1, n) /\ UNCHANGED calls

\* GenerateProgram has its program.
Finish == Depth = 1 /\ Ended /\ levels' = <<>> /\ UNCHANGED <<budget, calls, emitted>>

\* The quotient of two integers in Go, rounded towards zero.
GoDiv(a, b) == IF a >= 0 THEN a \div b ELSE -((-a) \div b)

\* Mutant: a program that does not fit the budget is embedded all the same.
Truncate_Never(size, b) == size

\* How much of size bytes of init code CreateAndCall keeps.
Truncate(size, b) ==
    LET maxCode == GoDiv(b, 4) IN
    IF size <= maxCode THEN size ELSE IF maxCode < 0 THEN 0 ELSE maxCode

\* At most these numbers of bytes come out of CreateAndCall.
CallSizes(b) == MinCall..(MaxCall + (Spread * (IF b < 0 THEN 0 ELSE GoDiv(b, 4))))

BNext ==
    \/ \E c \in Counters : Nest(c)
    \/ \E n \in CallSizes(budget) : Return(n)
    \/ Finish
    \/ \E n \in 0..MaxEmit : Execute(n)

BSpec == BInit /\ [][BNext]_bvars

-----------------------------------------------------------------------------
BTypeOK ==
    /\ levels \in Seq([rounds : Nat, len : Nat, prev : Nat])
    /\ budget \in Int
    /\ calls \in Nat /\ emitted \in Nat

\* Every emitted byte is taken from the one budget exactly once, whichever level
\* emitted it and whatever was nested in between (generator.go, generateCode).
Accounting == budget + emitted = MaxTotalBytes

\* The budget is looked at between strategies only, so it does not cap the bytecode, as
\* generator.go says it does. But it is passed only once in the whole tree, by at most
\* one strategy, and by one empty create-and-call for each level that still returns.
BudgetBound == emitted <= MaxTotalBytes + MaxEmit + (MaxRecursionLevel * MaxCall)

\* A program that nests cannot multiply: the calls of generateCode that are over
\* have each cost their caller a create-and-call (strategy.go, Environment.budget).
TreeBounded == (calls - (MaxRecursionLevel + 1)) * MinCall <= emitted
=============================================================================
