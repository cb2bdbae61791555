----------------------------- MODULE TestStore -----------------------------
(***************************************************************************)
(* The fuzz workers of `FuzzyVM run` (Fuzz and storeTest), which store the *)
(* state tests they generate as files of one output directory.  The name   *)
(* of a file is the hash of the test, so equal tests meet in one file; the *)
(* workers are processes that know nothing of each other, and the Go       *)
(* fuzzer kills one whose input takes too long.                            *)
(***************************************************************************)
EXTENDS Integers, FiniteSets

CONSTANTS
    Workers, \* fuzz worker processes
    Tests,   \* state tests; each has a file of its own
    Pieces,  \* in how many pieces the kernel takes the text of a test
    Faults,  \* what may fail: "stat", "open", "write" and "kill"
    NULL     \* no test

ASSUME PieceAssumption == Pieces \in Nat \ {0}
ASSUME NullAssumption  == NULL \notin Tests

VARIABLES
    pc,      \* storeTest: where each worker is, or "idle"
    test,    \* the test in hand
    piece,   \* which piece the worker writes next
    exists,  \* the files of the output directory
    content, \* the pieces each file holds, at their place
    given,   \* history: the tests Fuzz was to store
    dups,    \* history: the tests storeTest called duplicates
    failed   \* history: the tests some worker failed to store

files == <<exists, content>>
vars  == <<pc, test, piece, files, given, dups, failed>>

Complete(t) == t \in exists /\ content[t] = 1..Pieces

Init ==
    /\ pc = [w \in Workers |-> "idle"]
    /\ test = [w \in Workers |-> NULL]
    /\ piece = [w \in Workers |-> 1]
    /\ exists = {} /\ content = [t \in Tests |-> {}]
    /\ given = {} /\ dups = {} /\ failed = {}

Goto(w, where) == pc' = [pc EXCEPT ![w] = where] /\ UNCHANGED <<test, piece>>

Return(w) ==
    /\ pc' = [pc EXCEPT ![w] = "idle"]
    /\ test' = [test EXCEPT ![w] = NULL]
    /\ UNCHANGED piece

\* storeTest returns an error, or the worker is killed.
GiveUp(w) ==
    /\ Return(w)
    /\ failed' = failed \cup {test[w]}
    /\ UNCHANGED <<files, dups>>

Fail(w, fault) == fault \in Faults /\ GiveUp(w)

\* Fuzz, up to storeTest: a program is generated and minimized, or is too large to
\* be minimized.  An input that is too short, or whose program cannot be filled,
\* changes nothing.
Fuzz(w) ==
    /\ pc[w] = "idle"
    /\ \E t \in Tests : test' = [test EXCEPT ![w] = t] /\ given' = given \cup {t}
    /\ pc' = [pc EXCEPT ![w] = "stat"]
    /\ UNCHANGED <<piece, files, dups, failed>>

\* Mutant: the name of the file is reserved before it is opened.
Stat_Reserves(w) ==
    /\ pc[w] = "stat"
    /\ \/ /\ test[w] \in exists
          /\ Return(w) /\ dups' = dups \cup {test[w]}
          /\ UNCHANGED <<files, failed>>
       \/ /\ test[w] \notin exists
          /\ Goto(w, "open") /\ exists' = exists \cup {test[w]}
          /\ UNCHANGED <<content, dups, failed>>
    /\ UNCHANGED given

Stat(w) ==
    /\ pc[w] = "stat"
    /\ \/ /\ test[w] \in exists
          /\ Return(w) /\ dups' = dups \cup {test[w]}
          /\ UNCHANGED <<files, failed>>
       \/ /\ test[w] \notin exists
          /\ Goto(w, "open")
          /\ UNCHANGED <<files, dups, failed>>
       \/ Fail(w, "stat")
    /\ UNCHANGED given

\* Mutant: the file is opened for appending where another worker has left off.
Open_Resumes(w) ==
    /\ pc[w] = "open"
    /\ exists' = exists \cup {test[w]} /\ UNCHANGED content
    /\ pc' = [pc EXCEPT ![w] = "write"]
    /\ piece' = [piece EXCEPT ![w] = 1 + Cardinality(content[test[w]])]
    /\ UNCHANGED <<test, given, dups, failed>>

\* os.OpenFile with O_TRUNC and O_CREATE: whatever was in the file is gone.
Open(w) ==
    /\ pc[w] = "open"
    /\ \/ /\ exists' = exists \cup {test[w]}
          /\ content' = [content EXCEPT ![test[w]] = {}]
          /\ pc' = [pc EXCEPT ![w] = "write"] /\ piece' = [piece EXCEPT ![w] = 1]
          /\ UNCHANGED <<test, dups, failed>>
       \/ Fail(w, "open")
    /\ UNCHANGED given

\* encoder.Encode: each worker writes at its own offset.
Write(w) ==
    /\ pc[w] = "write"
    /\ \/ /\ content' = [content EXCEPT ![test[w]] = @ \cup {piece[w]}]
          /\ IF piece[w] < Pieces
               THEN /\ piece' = [piece EXCEPT ![w] = @ + 1]
                    /\ UNCHANGED <<pc, test>>
               ELSE Return(w)
          /\ UNCHANGED <<exists, dups, failed>>
       \/ Fail(w, "write")
    /\ UNCHANGED given

\* The watchdog of the Go fuzzer kills the worker, and starts it again.
Kill(w) == pc[w] # "idle" /\ Fail(w, "kill") /\ UNCHANGED given

Next == \E w \in Workers : Fuzz(w) \/ Stat(w) \/ Open(w) \/ Write(w) \/ Kill(w)

Spec == Init /\ [][Next]_vars

-----------------------------------------------------------------------------
\* Type invariant.
TypeOK ==
    /\ pc \in [Workers -> {"idle", "stat", "open", "write"}]
    /\ test \in [Workers -> Tests \cup {NULL}]
    /\ \A w \in Workers : pc[w] = "idle" <=> test[w] = NULL
    /\ piece \in [Workers -> 1..Pieces]
    /\ exists \subseteq Tests
    /\ content \in [Tests -> SUBSET (1..Pieces)]
    /\ given \subseteq Tests /\ dups \subseteq given /\ failed \subseteq given

\* The check for the file and its creation are two steps, so two workers may write
\* the same test at once, and one may truncate what the other has written.  A test
\* that nobody failed to store is nevertheless complete once nobody works on it.
CompleteWhenQuiet ==
    \A t \in given \ failed : (\A w \in Workers : test[w] # t) => Complete(t)

\* "duplicate is true if the test was already present" (storeTest): unless a write
\* of it has failed, it is complete, or some worker that has its file open goes on.
DuplicatesArePresent ==
    \A t \in dups \ failed : Complete(t) \/ \E w \in Workers : test[w] = t /\ pc[w] = "write"
=============================================================================
