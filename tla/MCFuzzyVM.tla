----------------------------- MODULE MCFuzzyVM -----------------------------
(* Two workers, two tests: both meet in one file, or each works alone.  Two *)
(* corpus elements of the size the program uses.  Four corpus files with    *)
(* the contents of up to two bits.                                          *)
EXTENDS FuzzyVM, TLC

CONSTANTS t1, t2, w1, w2

MCFaults  == {"stat", "open", "write", "kill"}
MCShardOf == [t \in Tests |-> IF t = t1 THEN 1 ELSE 2]
MCData    == UNION {[1..n -> {0, 1}] : n \in 0..2}

WorkerSymmetry == Permutations(Workers)
=============================================================================
