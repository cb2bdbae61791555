------------------------------- MODULE Replay -------------------------------
(***************************************************************************)
(* The command `fuzzyvm-db replay`: it runs TestReplayCorpus under         *)
(* coverage instrumentation in a `go test` process and summarises the      *)
(* profile that process leaves behind.                                     *)
(*                                                                         *)
(* Actors: the command; in the test process the test's goroutine, which    *)
(* reads the stored codes into a channel, the workers, which take them out *)
(* of it, and for every code the goroutine that executes it, which its     *)
(* worker abandons after a minute.                                         *)
(***************************************************************************)
EXTENDS Naturals, Sequences, FiniteSets

CONSTANTS
    Stored,  \* how many codes the database holds; they are 1, 2, ... in key order
    RWorkers,\* the workers of the test
    Slots    \* places in the channel per worker (4 in the code)

ASSUME StoredAssumption  == Stored \in Nat
ASSUME WorkersAssumption == IsFiniteSet(RWorkers) /\ RWorkers # {}
ASSUME SlotsAssumption   == Slots \in Nat \ {0}

VARIABLES
    rpc,        \* replay: the next call of the command
    rresult,    \* what replay returned, or "none"
    profile,    \* the coverage profile on disk
    summarized, \* history: the profile that was summarised, or "no"
    limit,      \* -limit; 0 means all
    tpc,        \* the test process: where TestReplayCorpus is
    read,       \* n of forEachCode: the codes handed over so far
    iterErr,    \* the variable of the same name: did the iteration fail?
    codes,      \* the channel
    wpc,        \* each worker: "receive", "select" or "done"
    hand,       \* the code each worker replays, or 0
    exec,       \* the goroutine of each code
    done,       \* its channel of the same name: the result in it, or "none"
    replayed,   \* the counter of the same name
    failed,     \* the counter of the same name
    outcome,    \* history: what replayCode returned for each code
    bad         \* history: the codes of which an execution failed or panicked

command == <<rpc, rresult, profile, summarized, limit>>
test    == <<tpc, read, iterErr, codes>>
pool    == <<wpc, hand, replayed, failed, outcome>>
rvars   == <<command, test, pool, exec, done, bad>>

Code == 1..Stored

\* make(chan []byte, workers*4): what the channel holds.
Capacity == Slots * Cardinality(RWorkers)

\* The codes forEachCode hands over when nothing fails.
Target == IF limit > 0 /\ limit < Stored THEN limit ELSE Stored

Over == tpc \in {"off", "passed", "failed"}

RInit ==
    /\ rpc = "locate" /\ rresult = "none"
    /\ profile \in {"none", "stale"} /\ summarized = "no"
    /\ limit \in 0..(Stored + 1)
    /\ tpc = "off" /\ read = 0 /\ iterErr = FALSE /\ codes = <<>>
    /\ wpc = [w \in RWorkers |-> "receive"] /\ hand = [w \in RWorkers |-> 0]
    /\ exec = [c \in Code |-> "none"] /\ done = [c \in Code |-> "none"]
    /\ replayed = 0 /\ failed = 0
    /\ outcome = [c \in Code |-> "none"] /\ bad = {}

-----------------------------------------------------------------------------
(* The command.                                                            *)

RReturn(r) == rpc' = "returned" /\ rresult' = r

\* Resolving the paths, finding the package and starting `go test`.
StartTest ==
    /\ rpc = "locate"
    /\ \/ rpc' = "testing" /\ tpc' = "open" /\ UNCHANGED rresult
       \/ RReturn("err") /\ UNCHANGED tpc
    /\ UNCHANGED <<profile, summarized, limit, read, iterErr, codes, pool, exec, done, bad>>

\* cmd.Run returns: a failed test ends the command.
AwaitTest ==
    /\ rpc = "testing" /\ Over
    /\ \/ tpc = "passed" /\ rpc' = "summarize" /\ UNCHANGED rresult
       \/ tpc = "failed" /\ RReturn("err")
    /\ UNCHANGED <<profile, summarized, limit, test, pool, exec, done, bad>>

\* summarize, then the HTML report if one is asked for.
Summarize ==
    /\ rpc = "summarize"
    /\ \/ /\ summarized' = profile
          /\ \/ rpc' = "render" /\ UNCHANGED rresult
             \/ RReturn("nil")
       \/ RReturn("err") /\ UNCHANGED summarized
    /\ UNCHANGED <<profile, limit, test, pool, exec, done, bad>>

Render ==
    /\ rpc = "render"
    /\ \E r \in {"nil", "err"} : RReturn(r)
    /\ UNCHANGED <<profile, summarized, limit, test, pool, exec, done, bad>>

Command == StartTest \/ AwaitTest \/ Summarize \/ Render

-----------------------------------------------------------------------------
(* The goroutine of the test.                                              *)

TestQuiet == UNCHANGED <<rpc, rresult, summarized, limit, pool, exec, done, bad>>

\* A test that fails leaves the profile alone, or a part of one.
FailTest == tpc' = "failed" /\ profile' \in {profile, "partial"}

\* openCorpus, and the start of the workers.
OpenCorpus ==
    /\ tpc = "open"
    /\ \/ tpc' = "read" /\ UNCHANGED profile
       \/ FailTest
    /\ TestQuiet /\ UNCHANGED <<read, iterErr, codes>>

\* forEachCode: the next code, the limit, the end, or an error of the iterator.
ReadCode ==
    /\ tpc = "read"
    /\ \/ read < Target /\ tpc' = "send" /\ UNCHANGED iterErr
       \/ read = Target /\ tpc' = "close" /\ UNCHANGED iterErr
       \/ tpc' = "close" /\ iterErr' = TRUE
    /\ TestQuiet /\ UNCHANGED <<profile, read, codes>>

\* codes <- bytes.Clone(code).
SendCode ==
    /\ tpc = "send" /\ Len(codes) < Capacity
    /\ codes' = Append(codes, read + 1)
    /\ read' = read + 1 /\ tpc' = "read"
    /\ TestQuiet /\ UNCHANGED <<profile, iterErr>>

CloseCodes ==
    /\ tpc = "close" /\ tpc' = "wait"
    /\ TestQuiet /\ UNCHANGED <<profile, read, iterErr, codes>>

\* wg.Wait.
WaitWorkers ==
    /\ tpc = "wait" /\ \A w \in RWorkers : wpc[w] = "done"
    /\ tpc' = "verdict"
    /\ TestQuiet /\ UNCHANGED <<profile, read, iterErr, codes>>

\* Mutant: the error of the iteration is logged, and the test passes.
Verdict_Logged ==
    /\ tpc = "verdict"
    /\ tpc' = "passed" /\ profile' = "fresh"
    /\ TestQuiet /\ UNCHANGED <<read, iterErr, codes>>

\* An iteration error fails the test.
Verdict ==
    /\ tpc = "verdict"
    /\ \/ ~iterErr /\ tpc' = "passed" /\ profile' = "fresh"
       \/ iterErr /\ FailTest
    /\ TestQuiet /\ UNCHANGED <<read, iterErr, codes>>

TestMain == \/ OpenCorpus \/ ReadCode \/ SendCode \/ CloseCodes \/ WaitWorkers
            \/ Verdict

\* The timeout of `go test` (2 hours, or -timeout) kills the process.
TestTimeout ==
    /\ ~Over /\ FailTest
    /\ TestQuiet /\ UNCHANGED <<read, iterErr, codes>>

-----------------------------------------------------------------------------
(* The workers, and the goroutines of replayCode.                          *)

\* Mutant: the code is not cloned: the iterator may have moved on.
Receive_NoClone(w) ==
    /\ wpc[w] = "receive" /\ ~Over /\ codes # <<>>
    /\ hand' = [hand EXCEPT ![w] = read]
    /\ exec' = [exec EXCEPT ![hand'[w]] = "cold"]
    /\ codes' = Tail(codes) /\ wpc' = [wpc EXCEPT ![w] = "select"]
    /\ UNCHANGED <<command, tpc, read, iterErr, replayed, failed, outcome, done, bad>>

\* A worker takes a code, and replayCode starts the goroutine that executes it.
Receive(w) ==
    /\ wpc[w] = "receive" /\ ~Over /\ codes # <<>>
    /\ hand' = [hand EXCEPT ![w] = Head(codes)]
    /\ exec' = [exec EXCEPT ![Head(codes)] = "cold"]
    /\ codes' = Tail(codes) /\ wpc' = [wpc EXCEPT ![w] = "select"]
    /\ UNCHANGED <<command, tpc, read, iterErr, replayed, failed, outcome, done, bad>>

\* The range loop ends when the channel is closed and empty.
Drained(w) ==
    /\ wpc[w] = "receive" /\ tpc = "wait" /\ codes = <<>>
    /\ wpc' = [wpc EXCEPT ![w] = "done"]
    /\ UNCHANGED <<command, test, hand, replayed, failed, outcome, exec, done, bad>>

\* replayCode returns to the worker, which counts the code.
Count(w, how) ==
    /\ outcome' = [outcome EXCEPT ![hand[w]] = how]
    /\ replayed' = replayed + 1
    /\ failed' = IF how = "ok" THEN failed ELSE failed + 1
    /\ wpc' = [wpc EXCEPT ![w] = "receive"] /\ hand' = [hand EXCEPT ![w] = 0]
    /\ UNCHANGED <<command, test, exec, bad>>

\* The first case of the select: <-done.
Done(w) ==
    /\ wpc[w] = "select" /\ ~Over /\ done[hand[w]] # "none"
    /\ Count(w, done[hand[w]])
    /\ done' = [done EXCEPT ![hand[w]] = "none"]

\* Mutant: replayCode waits for as long as it takes.
TimeUp_Never(w) == FALSE /\ Count(w, "timeout") /\ UNCHANGED done

\* The second case: <-time.After(replayTimeout).  The goroutine goes on.
TimeUp(w) ==
    /\ wpc[w] = "select" /\ ~Over
    /\ Count(w, "timeout") /\ UNCHANGED done

Worker(w) == Receive(w) \/ Drained(w) \/ Done(w) \/ TimeUp(w)

Executes(c, from, to) ==
    /\ ~Over /\ exec[c] = from /\ exec' = [exec EXCEPT ![c] = to]
    /\ UNCHANGED <<command, test, pool>>

\* Executing with the fuzzer's own prestate; a panic ends the goroutine's work.
ExecuteCold(c) ==
    /\ \/ Executes(c, "cold", "warm") /\ UNCHANGED bad
       \/ \E to \in {"warmErr", "sendErr"} :
             Executes(c, "cold", to) /\ bad' = bad \cup {c}
    /\ UNCHANGED done

\* Mutant: the result of the second execution replaces that of the first.
ExecuteWarm_LastWins(c) ==
    /\ \E from \in {"warm", "warmErr"} :
          \/ Executes(c, from, "sendOk") /\ UNCHANGED bad
          \/ Executes(c, from, "sendErr") /\ bad' = bad \cup {c}
    /\ UNCHANGED done

\* Executing with the seeded prestate (seedPreState); the first error wins.
ExecuteWarm(c) ==
    /\ \/ Executes(c, "warm", "sendOk") /\ UNCHANGED bad
       \/ Executes(c, "warm", "sendErr") /\ bad' = bad \cup {c}
       \/ Executes(c, "warmErr", "sendErr") /\ UNCHANGED bad
    /\ UNCHANGED done

\* Mutant: make(chan error), without a buffer.
DoneCap_Unbuffered == 0

\* make(chan error, 1).
DoneCap == 1

\* A channel takes a value when there is room for it or somebody to receive it.
MaySend(c) ==
    /\ done[c] = "none"
    /\ DoneCap > 0 \/ \E w \in RWorkers : wpc[w] = "select" /\ hand[w] = c

\* done <- err.
Send(c) ==
    /\ MaySend(c)
    /\ \/ Executes(c, "sendOk", "exited") /\ done' = [done EXCEPT ![c] = "ok"]
       \/ Executes(c, "sendErr", "exited") /\ done' = [done EXCEPT ![c] = "err"]
    /\ UNCHANGED bad

Execution(c) == ExecuteCold(c) \/ ExecuteWarm(c) \/ Send(c)

RNext == \/ Command \/ TestMain \/ TestTimeout
         \/ \E w \in RWorkers : Worker(w)
         \/ \E c \in Code : Execution(c)

RSpec == RInit /\ [][RNext]_rvars

-----------------------------------------------------------------------------
\* Type invariant.
RTypeOK ==
    /\ rpc \in {"locate", "testing", "summarize", "render", "returned"}
    /\ rresult \in {"none", "nil", "err"}
    /\ profile \in {"none", "stale", "partial", "fresh"}
    /\ summarized \in {"no", "none", "stale", "partial", "fresh"}
    /\ limit \in 0..(Stored + 1)
    /\ tpc \in {"off", "open", "read", "send", "close", "wait", "verdict", "passed",
                "failed"}
    /\ read \in 0..Target /\ iterErr \in BOOLEAN
    /\ codes \in Seq(Code) /\ Len(codes) <= Capacity
    /\ wpc \in [RWorkers -> {"receive", "select", "done"}]
    /\ hand \in [RWorkers -> 0..Stored]
    /\ \A w \in RWorkers : wpc[w] = "select" <=> hand[w] # 0
    /\ exec \in [Code -> {"none", "cold", "warm", "warmErr", "sendOk", "sendErr",
                          "exited"}]
    /\ done \in [Code -> {"none", "ok", "err"}]
    /\ replayed \in Nat /\ failed \in Nat
    /\ outcome \in [Code -> {"none", "ok", "err", "timeout"}]
    /\ bad \subseteq Code

Queued  == {codes[i] : i \in DOMAIN codes}
InHand  == {hand[w] : w \in RWorkers} \ {0}
Handled == {c \in Code : outcome[c] # "none"}

\* However reading, queueing and replaying interleave, each code that was read is at
\* exactly one place (in the channel, in one worker's hands, or replayed), so that
\* none is lost, replayed twice, or mistaken for another.
EachCodeOnce ==
    /\ Queued \cup InHand \cup Handled = 1..read
    /\ \A i, j \in DOMAIN codes : i # j => codes[i] # codes[j]
    /\ \A v, w \in RWorkers : v # w /\ hand[v] # 0 => hand[v] # hand[w]
    /\ Queued \cap (InHand \cup Handled) = {} /\ InHand \cap Handled = {}

\* "replayed %d codes (%d failed/panicked)": the counters agree with what happened,
\* and a code counted as good has run in both prestates without an error.
CountersHonest ==
    /\ replayed = Cardinality(Handled)
    /\ failed = Cardinality({c \in Code : outcome[c] \in {"err", "timeout"}})
    /\ \A c \in Code : outcome[c] = "ok" => exec[c] = "exited" /\ c \notin bad

\* "a timed-out goroutine can still send and exit" (replayCode).
NobodyBlocked == \A c \in Code : exec[c] \in {"sendOk", "sendErr"} => MaySend(c)

\* A summary is only printed of a profile which this run wrote, after it has handed
\* over and replayed everything it was asked to.
SummaryIsFresh == summarized # "no" => summarized = "fresh" /\ Handled = 1..Target

\* "neither a slow program nor a pathological one can abort or stall the replay".
ReplayEnds == rpc = "testing" ~> rpc = "returned"
=============================================================================
