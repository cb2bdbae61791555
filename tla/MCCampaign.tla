----------------------------- MODULE MCCampaign -----------------------------
(* Instances of Campaign for TLC.                                            *)
EXTENDS Campaign, TLC

CONSTANTS f, g, h, m, c1, c2, i1, i2, i3, i4, i5

MCmakeKey == [c \in Codes |-> <<"hash", c>>]
MCKeys    == Range(MCmakeKey)

\* i1 and i2 minimize to the same code, the trace of i3 is too large, i4 is a
\* program so short that it is its own minimization, and i5 cannot be filled.
FullOf == (i1 :> f) @@ (i2 :> g) @@ (i3 :> h) @@ (i4 :> m) @@ (i5 :> h)
MinOf  == (i1 :> m) @@ (i2 :> m) @@ (i3 :> TooLarge) @@ (i4 :> m)
           @@ (i5 :> Failed)

MCFull     == [i \in Inputs |-> FullOf[i]]
MCMin      == [i \in Inputs |-> MinOf[i]]
MCPayloads == RunPayloads
MCNone     == {}
MCFaults   == {"get", "commit", "close", "accept"}

WorkerSymmetry == Permutations(Conns)
=============================================================================
