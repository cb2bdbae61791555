# FuzzyVM in TLA+

FuzzyVM generates EVM programs from fuzz inputs and keeps the interesting ones:
as bytecodes in a pebble database (`fuzzyvm-db`), or as state tests in a
directory (`FuzzyVM run`).  This directory holds TLA+ models of it, the TLC
configurations that check them on small instances, and proofs that TLAPS checks
for every instance.

- [The system](#the-system): components, state, operations, interaction
- [What is hard](#what-is-hard)
- [The modules](#the-modules): which models what, and how it matches the code
- [The runs](#the-runs): what each shows, its bounds, its fairness
- [The proofs](#the-proofs)
- [Disagreements with comments](#disagreements-with-comments)
- [Not modelled](#not-modelled), [Plan](#plan)

To check a run: `tlc -config DBServerLive.cfg MCDBServer.tla`; to check the
proofs of a component: `tlapm DBServerProofs.tla`.  `PROJECT.json` lists the
runs, maps every definition to the lines it models, and names for each property
a mutant of the model that breaks it; the mutants stand in the modules, each
before the definition it changes, with a comment that begins with "Mutant:".

## The system

| component | code | state | operations | correct when |
|---|---|---|---|---|
| database server | `server.go`, `protocol.go`, pebble calls of `main.go` | tracked connections, `closing`, wait group, counters; pebble: committed and synced batches | accept, track, spawn, readFrame, has, put, reply, untrack; shutdown; close; restart after a crash | the database is never used after it was closed; what is acknowledged is stored; shutdown ends; nobody waits for ever |
| fuzz worker | `run` in `main.go`, `FuzzEVM`, `client.go` | the input in hand, the request under way | ask for the full code, minimize, ask for the minimized code, store one or both | no full code is ever in the database without its minimized code; answers fit requests |
| supervisor | `generate` in `main.go` | the open resources, the `interrupted` flag, the child, the error | open, listen, install signals, run the child, shut down, close, report | no signal loses writes; nothing stays open; the exit status is right; Ctrl-C ends the run |
| filler | `filler/fill.go` | data, pointer, `usedUp` | Byte, ByteSlice and what is built on them, Reset | the input is read in order without a gap; `usedUp` is exact |
| state-test store | `run` in `cmd/fuzzyvm/main.go`, `Fuzz`, `storeTest` in `fuzzer.go` | the output directories and their files | make the directories, start the fuzzer; stat, open with truncation, write; start again | concurrent writers leave complete files; every test finds its directory |
| program generator | `generator/*.go` | program, labels, modelled stack height, shared byte budget; the table of weights | select a strategy, execute it, recurse | the budget bounds the tree; labels are JUMPDESTs; strategies are selected by weight |
| minimizer | `MinimizeProgram`, `hashtracer.go` | capped buffer, trace hash, search interval | Fill, probe a prefix, binary search, set the code | the result runs like the original, and is nearly the shortest prefix that does |
| corpus commands | `corpus.go`, `cmd/fuzzyvm/main.go` | search interval; the set of files | createTest, minimizeCorpus | the search brackets the length it looks for; of every deleted file a prefix stays |
| corpus replay | `replay*.go` | the coverage profile, channel of codes, workers, counters, abandoned goroutines | run the test, iterate, replay under a timeout, count, summarise | every code is replayed once, the counters are right, a slow code blocks nobody, the summary is of this run |

How they interact.  `generate` owns the pebble database.  It starts `go test
-fuzz`, which starts worker processes; each dials the Unix socket once and
then, for every input the Go fuzzer hands it, runs `run`: filler → generator →
HAS → minimizer → HAS → PUT.  In the server an acceptor goroutine gives each
connection to a handler goroutine; handlers share the database, two atomic
counters and, under a mutex, the set of tracked connections.  The main
goroutine of `generate` sits in `cmd.Run` and afterwards runs `shutdown` and
`Close` against whatever acceptor and handlers are doing.  A second goroutine
waits for a signal.  `FuzzyVM run` starts a child of the same kind, whose
workers meet only in the file system: in the tests they store, and before that in the
directories for them, which each process makes again.  `replay` starts a `go test`
process that opens the database read-only.  Pebble's lock keeps a second `generate`
away but not a read-only open (`replay_exec.go:178`), so `replay` may run beside a
`generate` that writes; it reads the codes that the database had when it was opened,
with an iterator that may fail.

## What is hard

The hazards are listed with their lines in `PROJECT.json`.  The main ones:

- **Shutdown against everything else.**  A connection may be in the kernel's
  queue, accepted, tracked but not yet counted, reading, between lookup and
  commit, or answering when the listener and the connections are closed.
- **Crashes.**  Commits are not synced (`pebble.NoSync`); a kill loses the end of
  the log.  What may be lost, and that it never splits a pair, depends on the
  batch being the unit of the write-ahead log.
- **Failures half-way.**  A lookup or commit that fails inside `put`; a write
  that fails inside `storeTest`; an early return of `generate`.
- **Check, then act.**  `put` looks up before it commits, `run` asks before it
  stores, `storeTest` looks for the file before it opens it.
- **Signals.**  They come at any moment, more than once, and to the parent alone
  or to the whole process group.
- **Boundaries.**  The end of the fuzz input inside a read; the first and the last
  number of a strategy's share; a search with a number of rounds fixed beforehand.
- **Late answers.**  A code that exceeds the timeout of `replayCode` leaves its
  goroutine running, which reports when nobody listens any more.
- **What an earlier run left.**  A coverage profile, directories, partial files.
- **A limit checked now and then.**  The byte budget of a program tree is looked at
  between two strategies, and one strategy may emit more than all of it.

## The modules

`MC*` modules only give values to constants.  `Powers` defines the powers of two that
say what the searches of `Minimizer` and `Corpus` have left after some rounds;
`NatLemmas` holds the facts about natural numbers, induction and recursion that the
proofs of several components cite.

### DBServer — `server.go`, `client.go`, `protocol.go`, part of `main.go`

One step is what one goroutine does between two points at which another can see
it: a section under `mu`, a database call, a socket call.  The acceptor's place
in `serve` is `apc`, with the connection it has in hand in `acn`; `hpc[c]` is the
place of the handler of connection `c` and `work[c]` its locals; `main` is the
place of `generate` from the return of `cmd.Run` on.  `conns`, `closing`,
`stored`, `received` are the fields of those names.  `wg` is the set of
connections counted in the wait group, which tells more than the number.

| action | code |
|---|---|
| `Dial`, `Send`, `Receive`, `ReceiveError`, `Hangup` | the worker's end of a connection (`socketDB`) |
| `Accept`, `StopAccepting`, `TrackConn`, `Refuse`, `Spawn` | `serve`, `trackConn`; `wg.Add` is a part of `Spawn`, after `mu` was released |
| `ReadFrame`, `Has`, `PutCheck`, `PutCommit`, `PutCount`, `Reply`, `UntrackConn`, `CloseConn` | `handle`, `has`, `put`, the deferred calls |
| `CloseListener`, `CloseTracked`, `WaitHandlers`, `CloseDB` | `shutdown` and `pdb.Close` |
| `Restart` | the process ends or is killed at any step and is started again on the same database |

Pebble is external and modelled from its use: `log` is the sequence of committed
batches, `durable` how many are certain to survive.  `Close` without error
makes all durable; a crash keeps some number of batches of at least `durable`.
Sockets are external: a request and an answer under way for each connection
(`socketDB.mu` allows no second request), and a closed end that the other
side notices.  `Faults` says which calls may fail: lookups, commits and the close of the
database, and `Accept`.  `serve` returns at any error of `Accept`, not only when the
listener was closed, and then nobody accepts until the next start; `StopAccepting`
stands for both.  `Frames` contains
what the workers send and, in runs that ask for it, frames that `decodeBlobs` or
`readFrame` reject.

### Campaign — `run`, `FuzzEVM` — and PairStore, what a campaign promises

`Campaign` extends `DBServer` with the program counter of each worker in `run`.
`GenerateProgram` and `MinimizeProgram` are functions of the input, as in the
code: `Full[i]` is the program, `Min[i]` the minimized code, or `TooLarge`
(`ErrTraceTooLarge`), or `Failed`.  The workers' steps are the steps of
`DBServer` with the frames that `run` sends.

`PairStore` is the abstract specification: a log of writes, each of which leaves
the database with both codes of a program, or adds a full code whose minimized
code is there or cannot exist; a crash forgets any number of the last writes.
Its promise, `PairClosed`, is that each code is there for a reason.
`ImplementsPairStore` says that `Campaign` does nothing else, with the log of
pebble as the log.

### Generate — `generate` as a supervisor

The main goroutine call by call, the watching goroutine, the child, and the
sender of signals.  `open` is what `generate` holds, `installed` whether the
signals go to `sigCh` (capacity one: the channel is a Boolean), `child` how the
child has ended.  `unflushed` abstracts `log` and `durable` of `DBServer`;
`ShutdownServer` is one step because the `db_live` run shows that shutdown ends.
`Interrupt` is Ctrl-C, which reaches the process group; `Terminate` is a signal
to the parent alone.

### Replay — `replay*.go` — and DBCommands, the program

The command (`rpc`), the goroutine of the test (`tpc`), the workers (`wpc`, with
the code in `hand`), and one goroutine for each code that is being executed
(`exec`), with the channel by which it answers (`done`, a place for one result).
Codes are numbered in key order, so that `codes`, the channel between the test
and its workers, is a sequence of numbers.

| action | code |
|---|---|
| `StartTest`, `AwaitTest`, `Summarize`, `Render` | `replay`: start `go test`, wait for it, read its profile |
| `OpenCorpus`, `ReadCode`, `SendCode`, `CloseCodes`, `WaitWorkers`, `Verdict` | `TestReplayCorpus` and `forEachCode` |
| `Receive`, `Drained`, `Done`, `TimeUp` | a worker, with the two cases of the `select` in `replayCode` |
| `ExecuteCold`, `ExecuteWarm`, `Send` | the goroutine of `replayCode`, which may take for ever at any of them |
| `TestTimeout` | the timeout of `go test` |

An execution is external: it succeeds, fails or panics.  What a test that failed
leaves of a profile is external too: what was there before, or a part.
`DBCommands` is the program: a process runs one of the commands to its end.

### Minimizer — `fuzzer.MinimizeProgram`

`Fill` into the capped buffer is modelled line by line, the three early exits and
the loop of `sort.Search` step by step.  An execution is the sequence of what
`OnOpcode` sees (pc, opcode, gas, depth, stack): two programs "run the same" when
these are equal, which is what the code compares.  `runs` gives each prefix an
arbitrary execution, because the EVM is external and code may read itself.  A hash
is the steps it was folded from, at most `maxTraceSteps` of them: collisions of
the 64-bit hash are left out.  What `Fill` does at `maxTraceSize` is modelled as
the comment there describes it: it ends without an error at the limit or less than
`traceSizeMargin` under it.  Two conditions of the code are named: `RunsOn`, which
the binary search needs, is a hypothesis of the two properties that depend on it
and not of `FoundWasProbed`; `LineAssumption` says that a trace that fits the
buffer has at most `maxTraceSteps` steps (with the constants of the code, that a
JSON line has more than 22 bytes), without which the ignored overflow of the
program's own probe (`fuzzer.go:201`) would let a prefix pass for a program that
runs for longer.

### Filler — `filler/fill.go` — and ByteStream, what a filler promises

`Filler` has one action for each kind of method (one byte; a slice of fixed
length; a slice whose length a first byte decides) and runs `ByteSlice` step by
step: `SliceWithin`, or `StartWrap`, `CopyChunk` for each round of the loop, and
`FinishWrap`.  How bytes become integers is left out.  `ByteStream` is the
abstract specification: the input repeated for ever, from which bytes are taken
in order.

### TestStore — `Fuzz`, `storeTest`

Workers that are processes of their own and store tests under the name of their
hash.  `Stat`, `Open` and each piece of the `Write` are separate system calls.
`content[t]` is the set of pieces in the file of `t`, so that truncation and
writes of the same text at the same offset are what they are in a file system.
`Kill` is the watchdog of the Go fuzzer.

### Corpus, MinCorpus, and FuzzyVM, the program

`Corpus` is the command `corpus`: `createTest` round by round.  Whether a filler of
some length is used up is arbitrary for each length (no monotonicity is assumed);
`usedUp` and `valid` remember what was seen.  The number of rounds comes from a
logarithm in floating point, which `LogPlusOne` replaces by a table of the powers
of e.  `MinCorpus` is `minCorpus`: the files that can be read, the marks, and the
removals in any order, each of which may fail.  `Prefix` compares the contents.
`FuzzyVM` adds `run`, with the workers of `TestStore`.  A test belongs to one of the
directories, by its hash, and the directories are made in three passes of `ensureDirs`:
by `run`, by the child that it starts, and by each worker, because the latter two begin
with `init` of `fuzzer_test.go:30`.  A pass ends at the first directory that cannot be
made; nobody looks at what it has left out (`cut` remembers that it did).

| action | code |
|---|---|
| `EnsureDir`, `DirsDone` | the loop of `ensureDirs`, in `run` and in the child |
| `StartGenerator`, `FuzzerEnds`, `RunAgain` | the child is started (or `run` panics), ends, and the user starts the program again over the same directories |
| `LookForDir`, `MakeDir` | `os.Stat` and `os.Mkdir` in a worker: two workers may both find a directory missing, and the slower one's `Mkdir` fails and ends its pass |
| `Work`, `NoDirectory` | a worker at a test; `os.OpenFile` fails when the directory is not there |
| `KillWorker` | the watchdog; the worker that replaces it begins with `init` |

### Selector — `newSelector`, `Select`

Composed with the filler it draws from: `AddStrategy` is a round of `newSelector`,
`Draw` the call of `Uint16`, which the filler then executes, `StartSearch`,
`Probe` and `Found` are `sort.Search`.  Between two selections the strategies
call any method of the filler.

### CodeBudget and Generator — `generator/*.go`

`CodeBudget` is `generateCode` with the bytes counted but not looked at.  A
strategy that nests runs the whole loop of the nested program before it emits
anything, so the calls in progress are a stack, `levels`, with the rounds left,
`len(p.Bytes())` and `prev` of each; `budget` is the one integer they share.

| action | code |
|---|---|
| `Execute(n)` | a round of the loop whose strategy emits `n` bytes and does not nest |
| `Nest(counter)` | `createCallGenerator` or `staticContextGenerator` calls `generateCode`, whose first byte is the counter |
| `Return(n)` | the nested loop is over; the strategy emits `n` bytes, and the round of its own level ends |
| `Finish` | `GenerateProgram` has its program |

The budget is looked at between strategies only: it does not cap the bytecode of a
tree, as the comment at `generator.go:57` has it.  What holds is `BudgetBound`: the tree
passes the budget by one strategy at most, whatever that emits, and by one create-and-call
for each level that returns after that.

`Generator` extends it with the programs, byte by byte as far as the jump
analysis of the EVM can tell bytes apart: PUSHn, JUMPDEST, and everything else.
There is one action for each kind of strategy: complete instructions
(`EmitShape`, with a set of shapes for each strategy file), a raw opcode, a
label, a jump, the bounded loop, the jump that is meant to fail, a call of a
program that was not generated, and the two halves of the strategies that nest.
What is drawn from the filler is nondeterministic.  Three assumptions say what the
constants must satisfy for the bytes to stay in the bounds of `CodeBudget`, and are
evaluated by TLC: `DrawAssumption` (what can be drawn), `EmitAssumption` (no strategy
that does not nest emits more than `MaxEmit`) and `CallAssumption` (the code of a
create-and-call is between `MinCall` and `MaxCall`, and `Spread` for each byte of the
init code).  `inputSizes` has the size of the input of every precompile, drawn numbers of
pairs and items included, and `CallShapes` a call with operands of all lengths that are
drawn for it.  A word counts as a PUSH32, so a word that begins with zeros makes the
code shorter than the model's.

With the constants of the code, TLC finds that `CallAssumption` holds for `MinCall` 18,
`MaxCall` 200 and `Spread` 2, and `EmitAssumption` for `MaxEmit` 114,532 and not for less
(evaluated with the longest operands and data, and a larger thread stack).  That is the longest
precompile call: a bn256 pairing of 511 pairs (256 drawn, 255 that `bloatPairing` adds)
is 3,066 words in memory, 114,452 bytes of code to store them, and 80 for the call.  It
is followed by the same without the added pairs (56,904 and the call), a BLS
multiplication of 8 items in G2 (2,736), a BLS pairing of 5 pairs (2,292) and a stack
fill (2,048).  So `BudgetBound` for the code is 10,000 + 114,532 + 10 * 200, that is
126,532 bytes, twelve times `maxTotalBytes`.  Labels are the PCs that
`addLabel` caches; `decoys` are the destinations of `invalidJumpGenerator`; `raw`
remembers that a PUSH may have been drawn as a bare opcode.  The assembler
(`program.Program`, `ReturnViaCodeCopy`) and the EVM's analysis are external.

## The runs

| run | checks | instance |
|---|---|---|
| `db_live` | `ShutdownCompletes`, `RequestsReturn` | 2 connections, PUTs of two equal blobs, frames that are rejected, an `Accept` that fails, one restart or crash; fairness |
| `db_handlers_gone` | violates `HandlersGoneAfterShutdown` | see below |
| `db_write_errors` | violates `AckMeansStored` | commits may fail |
| `campaign_pairs` | `AckMeansStored`, `ImplementsPairStore` | 2 workers, 2 programs with the same minimized code, one restart or crash at any step; `Accept` and closes may fail |
| `campaign_faults` | `PairClosed`, `ResponsesFit`, `NoUseAfterClose`, `StatsCoverNewCodes` | 2 workers; a pair, a large trace, a program that is its own minimization, one that cannot be filled; lookups, commits, `Accept` and closes that fail; a shutdown at any step |
| `db_commands` | `NoSignalLosesWrites`, `NothingLeftOpen`, `UndisturbedRunReports`, `CtrlCStops`; `EachCodeOnce`, `CountersHonest`, `NobodyBlocked`, `SummaryIsFresh`, `ReplayEnds` | `generate` with up to 3 signals at any moment, any call may fail; `replay` of 3 codes by 2 workers over a channel of 2 places, every limit; executions that fail, panic or never end; fairness |
| `generate_crash` | violates `CrashSurfaces` | up to three signals, at any moment |
| `filler` | `UsedUpIsExact`, `SelectsByWeight`, `ImplementsByteStream`, `SliceReturns` | 8 inputs of up to 5 bytes, slices of 0 to 39 bytes, 40 bytes in a row; 3 and 2 strategies; fairness |
| `fuzzyvm` | `CompleteWhenQuiet`, `DuplicatesArePresent`, `NoTestLost`; `Bracket`, `Converges`; `PrefixesSurvive`, `Minimal` | `run` with 2 workers, 2 tests, files of 3 pieces, 4 directories, every call may fail, workers are killed, further runs; `corpus` with 2 elements of 10^6 random bytes; `minCorpus` on up to 4 files of up to 2 bits |
| `min_corpus_longer` | violates `LongerCovers` | the same |
| `minimizer` | `MinimizedRunsTheSame`, `FoundWasProbed`, `NothingShorter`, `TooLargeIsExact`, `FewProbes` | programs of 2, 4 and 5 bytes, with every assignment of 5 traces to their prefixes |
| `generator` | `TypeOK`, `JumpsLandAsIntended`, `Accounting`, `BudgetBound`, `TreeBounded`, `ImplementsCodeBudget`, `GenerationEnds` | a budget of 36 bytes, one level of nesting, up to 2 rounds in each program, one-byte operands, 5 bytes of data, precompile inputs of up to 24 words, words of 4 bytes, a stack limit of 6; fairness |

The type invariants of the other modules are no properties of a run, because they
are proved: `TypeCorrect` and `CampaignTypeCorrect` below.

**Bounds, and why they are enough.**  `MaxReceived` stops the workers from
sending PUTs once that many blobs were received, `MaxRuns` counts starts of the
process, `MaxSignals` signals, `MaxTaken` bytes taken from a filler between two
resets, `LastName` the files of a corpus.  Two
connections suffice for every interference in the server: handlers share only
the database, the counters and the set of connections, so each race is between
two of them or between one and the main goroutine; the acceptor still holds a
second connection while the first is served.  Two PUTs of up to two blobs allow
equal and overlapping batches.  `db_live` leaves out failing lookups and commits: a
handler takes the same steps after them, so that they change nothing about who
waits for whom.  One restart loses or keeps each suffix of the
log; a second one starts from a state like the first.  Three signals fill the
channel, wake the watcher, and come after `signal.Stop`.  The inputs of the
filler are shorter than the slices, so reads wrap up to eight times, and they
contain the bytes that `GasInt` and `MemInt` treat specially.  Three codes are
more than the channel holds, so that the test waits for a worker; with two workers
one can hold a code that never ends while the other drains the channel.  Two workers
of `run` let one truncate what the other is writing or has completed, and find the same
directory missing; the theorems about them are for any number.  The
corpus elements have the size of the code's own, because the number of rounds depends
on it.  Four files with contents of up to two bits contain chains of prefixes,
equal files and unrelated ones.  The weights of the strategies contain an importance
of zero and shares of one number.  The
minimizer's programs are just long enough for a search of one to three probes
that ends at every length, with and without room for the added bytes, and the
traces end below the limit of the buffer, at it, above it with a shorter line to
come, and at the limit of `Fill`.  The generator's
budget is used up in the middle of a program, in a nested one and by the
create-and-call after it, and one call of a precompile emits almost six times as much as
all of it; two rounds put any strategy before or after any other,
so a raw opcode, a label or a nested program in front of a jump.  The safety
properties for which this could still be too small are proved (below).

**Symmetry** is used for connections and workers, and only in runs without
liveness properties.  **Deadlock** is checked in all runs; where the program may
stop (`generate` or `GenerateProgram` has returned) the specification says so with a
stuttering action.

**Fairness.**  `db_live` assumes weak fairness of the handlers, the acceptor,
the main goroutine once `cmd.Run` has returned, and of a worker's blocked read:
the Go scheduler and the kernel run what can run.  Nothing is assumed of
workers that think, of the end of the fuzzing command, or of crashes.
`db_commands` assumes it, for `generate`, of the two goroutines, and that `go test`
ends after SIGINT, which is the documented behaviour that the comment on `sigCh`
relies on; for `replay`, of the command, the test's goroutine and the workers, whose
timer fires.  Nothing is assumed of executions, which may take for ever, nor of the
timeout of `go test`.  `filler` and `generator` assume it of the sequential code that runs.

## The proofs

What follows is proved for all values of the constants, from the assumptions
named in the modules (`HashAssumption`: the hash of the codes in play is
injective; `PayloadAssumption`: PUT frames carry at least one blob; types of the
other constants; `NULL` differs from what it stands beside).

| theorem | states | argument |
|---|---|---|
| `DBServerProofs!TypeCorrect` | `Spec => []TypeOK` | inductive as it stands, one lemma for each actor |
| `DBServerProofs!DatabaseNotUsedAfterClose` | `Spec => []NoUseAfterClose` | `ShutdownInv` |
| `DBServerProofs!AcknowledgedIsStored` | `Faults \cap {"get", "commit"} = {} => (Spec => []AckMeansStored)` | `AckInv` |
| `DBServerProofs!StatsAreComplete` | `Spec => []StatsCoverNewCodes` | `StatsInv` |
| `CampaignProofs!CampaignUsesServer`, `CampaignTypeCorrect` | `CSpec => Spec`, `CSpec => []CTypeOK` | the workers are clients of the server, so what is proved of it holds |
| `CampaignProofs!AnswersFit` | `CSpec => []ResponsesFit` | `CampaignInv` |
| `CampaignProofs!CampaignStoresPairs` | `CSpec => ImplementsPairStore` | the refinement itself, from `CampaignInv` |
| `CampaignProofs!CampaignClosesPairs` | `CSpec => []PairClosed` | `PairInv` of the abstract store: every prefix of the log is closed, since a crash may return to it |
| `MinimizerProofs!MinimizedIsFaithful`, `MinimizedIsShort` | `Spec => []MinimizedRunsTheSame`, `Spec => []NothingShorter` | the prefix found is a first one, from `SearchInv` |
| `MinimizerProofs!FoundIsProbed`, `TypeCorrect` | `Spec => []FoundWasProbed`, `Spec => []TypeOK` | the same, for any behaviour of the prefixes |
| `MinimizerProofs!TooLargeCorrect` | `Spec => []TooLargeIsExact` | `SizeInv` |
| `MinimizerProofs!ProbesAreFew` | `Spec => []FewProbes` | `ProbeInv` |
| `DBCommandsProofs!CommandsRunAlone` | `DSpec => Spec /\ RSpec` | one process runs one command |
| `DBCommandsProofs!TypeCorrect` | `Spec => []TypeOK` (`generate`) | with `SignalInv`: a child runs only while signals are routed |
| `DBCommandsProofs!SignalsLoseNoWrites` | `Spec => []NoSignalLosesWrites` | the signals are routed to the channel for as long as there is something to flush |
| `DBCommandsProofs!EverythingReleased` | `Spec => []NothingLeftOpen` | what is open is known at each place of the main goroutine |
| `DBCommandsProofs!UndisturbedRunsReport` | `Spec => []UndisturbedRunReports` | `ReportInv`: after the child, the error stands for the failures so far |
| `DBCommandsProofs!CodesAreReplayedOnce` | `RSpec => []EachCodeOnce` | `PlaceInv` |
| `DBCommandsProofs!CountersAreHonest`, `NobodyIsBlocked` | `RSpec => []CountersHonest`, `RSpec => []NobodyBlocked` | `ExecInv`, `CountInv` |
| `DBCommandsProofs!SummariesAreFresh` | `RSpec => []SummaryIsFresh` | `ProgressInv` |
| `FillerProofs!TypeCorrect`, `UsedUpCorrect` | `Spec => []TypeOK`, `Spec => []UsedUpIsExact` | `IInv` |
| `FillerProofs!FillerIsByteStream` | `Spec => ImplementsByteStream` | the refinement itself, from `IInv` |
| `FillerProofs!SelectorUsesFiller` | `SSpec => Spec` | selecting is one more call of `ByteSlice` |
| `FillerProofs!SelectionIsWeighted` | `SSpec => []SelectsByWeight` | `SelectorInv` |
| `GeneratorProofs!AccountingHolds` | `BSpec => [](BTypeOK /\ Accounting)` | between two strategies `prev` is the length, at every level |
| `GeneratorProofs!BudgetBoundHolds` | `BSpec => []BudgetBound` | `FloorInv`, for a longest strategy of any length |
| `GeneratorProofs!TreeBoundedHolds` | `BSpec => []TreeBounded` | `CallsInv` |
| `GeneratorProofs!TruncateInRange` | what `CreateAndCall` keeps of the init code is in range | division that rounds towards zero |
| `GeneratorProofs!BudgetImplemented` | `FairSpec => ImplementsCodeBudget` | the refinement itself, from `GInv` |
| `GeneratorProofs!GeneratorKeepsBudget` | `FairSpec => [](Accounting /\ BudgetBound /\ TreeBounded)` | what is proved of `CodeBudget` holds of the programs that are emitted; `MaxEmit` is what `EmitAssumption` makes it |
| `GeneratorProofs!TypeCorrect`, `JumpsLand` | `FairSpec => []TypeOK`, `FairSpec => []JumpsLandAsIntended` | `GInv`, with `ProgOK` for each program |
| `FuzzyVMProofs!TypeCorrect` | `FSpec => []FTypeOK` | the invariants of the three commands together |
| `FuzzyVMProofs!RacingWritersComplete`, `DuplicatesAreThere` | `FSpec => []CompleteWhenQuiet`, `FSpec => []DuplicatesArePresent` | `CoverInv` |
| `FuzzyVMProofs!NoTestIsLost` | `FSpec => []NoTestLost` | `RunInv`: `RunTypeOK` and `PassInv` |
| `FuzzyVMProofs!CorpusCommandsRunAlone` | `FSpec => CSpec /\ MSpec` | one process runs one command |
| `FuzzyVMProofs!SearchIsBracketed` | `CSpec => [](CorpusTypeOK /\ Bracket)` | `SearchInv` |
| `FuzzyVMProofs!SearchConverges` | `CSpec => []Converges` | `ConvergeInv` |
| `FuzzyVMProofs!CorpusKeepsPrefixes`, `CorpusIsMinimal` | `MSpec => []PrefixesSurvive`, `MSpec => []Minimal` | `MarkInv` |

**Shutdown.**  `NoUseAfterClose` is not inductive: a handler may be alive when
shutdown returns (this is what `db_handlers_gone` shows).  What saves the
database is that such a handler finds its connection closed.  `ShutdownInv`
says, for the time after `CloseTracked`, that every connection the server
tracks has its end closed, so that its handler can only leave `readFrame` by
its exit; and that once the wait group is empty no counted handler is inside a
request.  The handler that escapes the wait is then one that has not read
anything.

**Acknowledgement.**  `AckInv` follows a PUT through `put`: the blobs already
looked at are in the database or kept for the commit; after the commit all of
them are in it; and batches never leave the log without a crash, which goes back
to `acked = flushed`, all of it within the durable part.  It holds when lookups
and commits do not fail; `db_write_errors` shows that it does not when they do.

**Statistics.**  `StatsCoverNewCodes` relates what is in the database to two counters
that handlers add to at different places, and is not inductive.  `StatsInv` counts sets instead of
adding numbers: `InHand` has a pair of a connection and a position for each blob that a
handler has received, kept and not counted as stored, and with `stored` it is at most
`received`; `Uncounted` are the codes committed and not yet counted, and the others
that are new are at most `stored`.  A commit moves the codes of one handler into
`Uncounted`, its count moves them out, and duplicates only make the sets smaller.  At
the summary `Uncounted` is empty, by `ShutdownInv`: nobody is inside a request.

**Campaign.**  The invariant of a worker, its connection and its handler is
`ConnInv`: a worker has one request in flight, which is in one place and fits
where the worker stands (`WorkerFits`, `OneInFlight`, `HandlerFits`); an answer
"present" is true and stays true for as long as the server runs, since codes leave
the database only by a crash, which ends all connections (`Truthful`); and every PUT
under way is of a pair, or of a full code whose minimized code is there or cannot
exist (`PutsJustified`).  With that a commit is a write of `PairStore` whatever
failed before it, a restart is one of its crashes, and everything else a stutter.
The theorems hold for any workers, inputs, faults and number of restarts.

**Replay.**  `PlaceInv` says that the codes that have left the channel are the
first so many in key order, each in one worker's hands or counted.  `ExecInv` follows
the goroutine of a code: it sends once, so that the place in `done` is free when it
does, and it keeps an error until it has sent it.  `ProgressInv` ties the command
to the test: what is summarised was written by a test that had read to its target
and waited for its workers.

**Selector.**  `SelectorInv` is the table with its shares as far as it is built, and
the invariant of the binary search: the shares before `low` end at or below the
number drawn, those from `high` on above it.  That the search does not run
past the table comes from the remainder being smaller than the total.

**Corpus.**  `SearchInv` is `Bracket` with the rounds that are left.  `ConvergeInv`
says how much: `(right - left - 1) * 2^round` never passes `Size - 1`, for any outcomes,
because a round leaves at most half of the lengths between the bounds.  `MarkInv`
rests on `FirstPrefixStays`: among the prefixes of a file take the shortest, and of
those the first in the directory; it exists because the natural numbers are well
ordered, and it is not marked.

**Filler.**  `IInv` relates the concrete state to the number of bytes handed
out: the pointer is `taken % Len(data)` between two calls; in the loop of
`ByteSlice` the bytes copied so far are those of the stream from `start` on; and
`usedUp` says whether `taken` has reached the length of the data.

**Store.**  `CoverInv` says that for every test somebody was to store and
nobody failed to store, the pieces its file lacks are still to be written: some
worker is at or before the opening of the file, or some worker that writes is
at or before the first piece that is missing.  A worker that truncates the file
becomes that worker; the end of the fuzzer counts as a failure of every worker that is
at work.  `PassInv` says of each pass of `ensureDirs` that all directories it has behind
it are there, unless `cut` says that it has left one out; directories are never removed.
A worker at a test has its pass behind it, and so have the child and `run`.

**Minimizer.**  `SearchInv` is the invariant of a binary search with an arbitrary
predicate: it is false just below the interval and true at its end, unless these
are the ends of the code.  That the predicate means equality of executions, and
not of their hashed beginnings, needs the program's trace to be short; this comes
from the buffer through `BufferInv` (what was not dropped is what was written, a
line for each step) and `LineAssumption`.  `SizeInv` ties what `Fill` has written to
the bytes of the trace as far as it was traced, so that the flag of the buffer says
whether the whole trace fits, also when `Fill` stops at its limit.  `ProbeInv` is
`(hi - lo) * 2^probes <= code`.

**Generator.**  `FloorInv` says how far below zero the budget can be: one
strategy, which was started with a positive budget, and one `MaxCall` for each
level that has returned since, because a create-and-call takes no more than the
budget and `MaxCall`.  `CallsInv` says that each call of `generateCode` that is
over has cost its caller `MinCall` bytes.  Both are about the stack of levels,
so they come with `WaitInv` (a level that waits has rounds left) and `DepthInv`.
The bounds on single strategies (`MaxEmit`, `MinCall`, `MaxCall`, `Spread`) are
parameters of `CodeBudget`; that the strategies respect them is `BudgetImplemented`,
proved from the assumptions of `Generator`, which are about the lengths of the codes in
`shapeCodes` and which TLC evaluates.  Its invariant, `GInv`, adds to that of
`CodeBudget` that each program is as long as its level has counted, and `ProgOK`: labels
are at JUMPDESTs, and while no PUSH was drawn without its operand, the program
ends with a complete instruction (`Complete`), labels are not hidden by a PUSH, and
decoys are.  The conclusion alone is not inductive: a program whose last PUSH still
wants bytes would hide the next label.  `Hidden` is a recursive function over the
program; `HiddenOfPrefix` and `HiddenOfSuffix` say that the analysis of a program is that
of its parts when the first part is complete, and are proved by induction over the
position, with the set of positions at which they hold.

**Left to TLC**: the liveness properties `ShutdownCompletes`, `RequestsReturn`,
`SliceReturns`, `GenerationEnds`, `CtrlCStops` and `ReplayEnds`, which rest on fairness
and `ENABLED`.  Every safety property of a run that passes is stated by a theorem.

## Disagreements with comments

Each has a run that violates one property.

- `server.go:43`: `wg.Add` comes after the lock is released, so `shutdown` may
  return before a tracked connection has its handler, although `main.go:215`
  says it waits for every handler (`db_handlers_gone`).  The database is safe.
- `server.go:107`: a PUT that fails is acknowledged, although `protocol.go:19`
  says that the worker sees write errors (`db_write_errors`).
- `main.go:223`: any signal hides the error of the child, a crash it found
  included, although `main.go:224` says that this error surfaces
  (`generate_crash`).
- `cmd/fuzzyvm/main.go:198`: of two files of which one is a prefix of the other,
  `minCorpus` removes the longer one, although `main.go:185` says that the longer
  one covers the other.  An empty file removes all others (`min_corpus_longer`).

More observations, some of them conditions of properties instead.  The partial file that
a failed write leaves counts as the stored test ever after (`fuzzer.go:222`), so
`DuplicatesArePresent` excepts the tests a write of which has failed.  A raw opcode
may be a PUSH that swallows the JUMPDEST emitted next, although `strategy.go:41`
says that jumps to labels always land, so `JumpsLandAsIntended` claims valid
destinations only for programs without such an opcode.  `createTest` returns the
midpoint of its last range, a length that no round has tried; with 10^6 random bytes
the rounds are over before the range is narrower than the cutoff.  `ensureDirs` stops
at the first directory that cannot be made, in a worker also because another worker has
just made it; a test is lost when `run`, the child and the worker have all left its
directory out, which is what `NoTestLost` allows.  A panic in the first execution of a code skips the second one, although
`replay_exec.go:54` describes both variants as run for every code.  `maxTotalBytes`
does not cap "the total bytecode emitted across a whole generation tree"
(`generator.go:57`): the budget is looked at between strategies, and a bn256 pairing alone
may emit 114 KB (`BudgetBound` says by how much the budget may be passed).  `serve`
"accepts connections until the listener is closed" (`server.go:31`), but returns at any
error of `Accept`, for instance when the process has no file descriptor left; a worker that
dials after that waits until shutdown begins, which `RequestsReturn` excepts
(`Abandoned`), while those accepted before get their answers.

## Not modelled

- `packageDir`, the command lines and flags, `inspect` and `count` (which ignore the
  error of their iterator), the layout of the coverage summary: reading, printing and
  text.
- `generator/precompiles`: the values of cryptographic inputs; their sizes are modelled,
  and a precompile call is an input of such a size in memory and a call, or nothing when
  it fails.
- In the generator: the modelled stack height (`stackAware` resets it before each
  use, so that it has no effect on what is emitted), the transaction that
  `CreateGstMaker` adds, and the execution of programs: whether a loop that other
  code jumps into ends (`jump_strategies.go:134`), and what a stack fill that the
  budget has cut short leaves behind.
- `SampleLengthCorpus`, which no command calls.
- `precompileBench`, `benchmark`: measuring tools beside the program.
- The EVM, pebble, the Go fuzzer and sockets are external; what the code relies on
  is in the models.
- The trace file of `setupTrace`, behind a flag that is always false.

## Plan

Done: all components that keep state, the two programs composed of their commands,
the refinements of the campaign, the filler and the generator, and proofs of all safety
properties.  What is left:

1. **Generator**: the choice of a label by a byte of the filler, and with it a
   composition of `Generator` and `Selector`.
