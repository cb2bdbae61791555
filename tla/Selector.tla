------------------------------ MODULE Selector ------------------------------
(***************************************************************************)
(* The selector of the program generator: newSelector builds the table of  *)
(* cumulative weights when the program starts, and Select draws two bytes  *)
(* from the filler and looks them up in the table by binary search.        *)
(* Between two selections the strategies use the filler as they like.      *)
(***************************************************************************)
EXTENDS Filler

CONSTANTS
    Importances,   \* what Importance returns, for each strategy: sequences of integers
    FallbackWeight \* the weight of the strategy that newSelector adds; 17

ASSUME WeightAssumption ==
    /\ Importances \subseteq Seq(Int) /\ FallbackWeight \in Int
    /\ 2 \in Lens \* Select calls Uint16

VARIABLES
    importances, \* of the strategies newSelector is called with
    cum,         \* selector.cum
    total,       \* selector.total
    stage,       \* "build", "ready", "draw" (Uint16), "search", or "panicked"
    drawn,       \* Select: r, the number looked up
    low, high,      \* sort.Search: the interval
    chosen       \* the strategy selected last, counted from 1; 0 before the first

table  == <<importances, cum, total>>
search == <<drawn, low, high, chosen>>
svars  == <<vars, table, stage, search>>

Strategies == 1..(Len(importances) + 1)

Weight(i) ==
    LET w == IF i \in DOMAIN importances THEN importances[i] ELSE FallbackWeight
    IN IF w < 1 THEN 1 ELSE w

SInit ==
    /\ Init
    /\ importances \in Importances /\ cum = <<>> /\ total = 0 /\ stage = "build"
    /\ drawn = 0 /\ low = 0 /\ high = 0 /\ chosen = 0

-----------------------------------------------------------------------------
(* newSelector, which runs before there is a filler.                       *)

AddStrategy ==
    /\ stage = "build" /\ Len(cum) < Len(importances) + 1
    /\ total' = total + Weight(Len(cum) + 1)
    /\ cum' = Append(cum, total')
    /\ UNCHANGED <<vars, importances, stage, search>>

Complete ==
    /\ stage = "build" /\ Len(cum) = Len(importances) + 1
    /\ stage' = IF total > 0 THEN "ready" ELSE "panicked"
    /\ UNCHANGED <<vars, table, search>>

-----------------------------------------------------------------------------
(* Select.                                                                 *)

\* The call of Uint16, which is ByteSlice(2).
Draw ==
    /\ stage = "ready" /\ TakeSlice /\ want' = 2
    /\ stage' = "draw"
    /\ UNCHANGED <<table, search>>

StartSearch ==
    /\ stage = "draw" /\ pc = "idle"
    /\ drawn' = (256 * out[1] + out[2]) % total \* big endian
    /\ low' = 0 /\ high' = Len(cum)
    /\ stage' = "search"
    /\ UNCHANGED <<vars, table, chosen>>

\* Mutant: the first cumulative weight that is not smaller.
Probe_NotSmaller ==
    /\ stage = "search" /\ low < high
    /\ LET mid == (low + high) \div 2 IN
         IF cum[mid + 1] >= drawn THEN high' = mid /\ UNCHANGED low
                              ELSE low' = mid + 1 /\ UNCHANGED high
    /\ UNCHANGED <<vars, table, stage, drawn, chosen>>

\* One round of sort.Search; index mid of the code is mid + 1 here.
Probe ==
    /\ stage = "search" /\ low < high
    /\ LET mid == (low + high) \div 2 IN
         IF cum[mid + 1] > drawn THEN high' = mid /\ UNCHANGED low
                             ELSE low' = mid + 1 /\ UNCHANGED high
    /\ UNCHANGED <<vars, table, stage, drawn, chosen>>

Found ==
    /\ stage = "search" /\ low >= high
    /\ chosen' = low + 1
    /\ stage' = "ready"
    /\ UNCHANGED <<vars, table, drawn, low, high>>

Select == Draw \/ StartSearch \/ Probe \/ Found

-----------------------------------------------------------------------------
\* The filler works: for a strategy, or for Select.
Fill ==
    /\ \/ stage = "ready" /\ Next
       \/ stage = "draw" /\ ByteSlice
    /\ UNCHANGED <<table, stage, search>>

SNext == AddStrategy \/ Complete \/ Select \/ Fill

SSpec == SInit /\ [][SNext]_svars

\* A call that has started runs.
SFairSpec == SSpec /\ WF_vars(ByteSlice)

-----------------------------------------------------------------------------
\* Where the share of strategy i begins.
Below(i) == IF i = 1 THEN 0 ELSE cum[i - 1]

\* "With probability proportional to its Importance": the shares of the strategies
\* divide 0..total-1, each is as long as the strategy's weight and none is empty, and
\* the strategy selected is the one in whose share the number drawn lies, the first
\* and the last number of every share included.
SelectsByWeight ==
    stage = "ready" =>
        /\ \A i \in Strategies : cum[i] = Below(i) + Weight(i) /\ cum[i] > Below(i)
        /\ total = cum[Len(importances) + 1]
        /\ chosen # 0 => /\ chosen \in Strategies
                         /\ Below(chosen) <= drawn /\ drawn < cum[chosen]
=============================================================================
