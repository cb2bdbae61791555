------------------------------ MODULE FuzzyVM ------------------------------
(***************************************************************************)
(* The program FuzzyVM: a process runs one of its commands, `corpus`       *)
(* (module Corpus), `minCorpus` (module MinCorpus) or `run`.  `run` makes  *)
(* the output directories and starts `go test -fuzz`, whose workers are    *)
(* those of module TestStore; each test belongs to the directory that the  *)
(* first byte of its hash names.  The process that `run` starts, and each  *)
(* worker process, makes the directories of the tests once more before it  *)
(* does anything else (init of package fuzzer).  When the fuzzer has       *)
(* ended, the user may start another run over the same directories.        *)
(***************************************************************************)
EXTENDS TestStore, Corpus, MinCorpus

CONSTANTS
    Shards,  \* directories for the tests (256 in the code), numbered from 1
    ShardOf  \* the directory of each test

ASSUME ShardAssumption == Shards \in Nat \ {0} /\ ShardOf \in [Tests -> 1..Shards]
ASSUME PassAssumption  == {"run", "child"} \cap Workers = {}

VARIABLES
    cmd,      \* the command the process was started with
    phase,    \* run: "dirs", "start", "wait" or "returned"; "init" while the child starts
    next,     \* ensureDirs, in run or in the child: the index of the next directory
    wnext,    \* ensureDirs, in each worker: the same
    missing,  \* the workers whose os.Stat has just not found that directory
    dirs,     \* the directories there are, by their index
    cut       \* history: the passes of ensureDirs that left a directory out in this
              \* run: "run", "child", and the worker processes alive

passVars == <<next, wnext, missing, dirs, cut>>
uvars == <<cmd, phase, passVars>>
store == vars
fvars == <<uvars, store, cvars, mvars>>

\* run: "out" and "crashes" come before the directories of the tests.
OutDir == 1
ShardDir(k) == k + 2
LastDir == ShardDir(Shards)

DirThere(t) == ShardDir(ShardOf[t]) \in dirs

\* os.Mkdir succeeds; the directories of the tests are inside of "out".
CanMake(dir) == dir \notin dirs /\ (dir >= ShardDir(1) => OutDir \in dirs)

\* A worker process that has not looked at a directory yet, and one that is done.
NotStarted == ShardDir(1)
Started(w) == wnext[w] > LastDir

FInit ==
    /\ cmd \in {"corpus", "minCorpus", "run"}
    /\ Init /\ CInit /\ MInit
    /\ cmd # "minCorpus" => there = {}
    /\ phase = "dirs" /\ next = 1 /\ dirs = {}
    /\ wnext = [w \in Workers |-> NotStarted] /\ missing = {}
    /\ cut = {}

-----------------------------------------------------------------------------
(* run, and the child process up to the end of its init.                   *)

Pass == IF phase = "dirs" THEN "run" ELSE "child"

NextDir  == next' = next + 1 /\ UNCHANGED phase
PassOver == phase' = (IF phase = "dirs" THEN "start" ELSE "wait") /\ UNCHANGED next

\* Mutant: ensureDirs returns at a directory that is there, not at one it cannot make.
EnsureDir_StopsAtExisting ==
    /\ phase \in {"dirs", "init"} /\ next <= LastDir
    /\ \/ next \in dirs /\ PassOver /\ UNCHANGED <<dirs, cut>>
       \/ CanMake(next) /\ dirs' = dirs \cup {next} /\ NextDir /\ UNCHANGED cut
       \/ next \notin dirs /\ NextDir /\ cut' = cut \cup {Pass} /\ UNCHANGED dirs
    /\ UNCHANGED <<cmd, wnext, missing, store>>

\* One turn of ensureDirs.  A directory that cannot be made ends ensureDirs, but
\* not its process; one that os.Stat cannot look at is passed over.
EnsureDir ==
    /\ phase \in {"dirs", "init"} /\ next <= LastDir
    /\ \/ next \in dirs /\ NextDir /\ UNCHANGED <<dirs, cut>>
       \/ CanMake(next) /\ dirs' = dirs \cup {next} /\ NextDir /\ UNCHANGED cut
       \/ /\ next \notin dirs
          /\ PassOver \/ NextDir
          /\ cut' = cut \cup {Pass} /\ UNCHANGED dirs
    /\ UNCHANGED <<cmd, wnext, missing, store>>

DirsDone ==
    /\ phase \in {"dirs", "init"} /\ next > LastDir
    /\ PassOver
    /\ UNCHANGED <<cmd, wnext, missing, dirs, cut, store>>

\* startGenerator, which panics when the child cannot be started.  The child begins
\* with the directories of the tests.
StartGenerator ==
    /\ phase = "start"
    /\ \/ phase' = "init" /\ next' = ShardDir(1)
       \/ phase' = "returned" /\ UNCHANGED next
    /\ UNCHANGED <<cmd, wnext, missing, dirs, cut, store>>

-----------------------------------------------------------------------------
(* The workers.                                                            *)

\* init of a worker process, up to the next directory that its os.Stat does not
\* find; a directory that is there stays there.  One that is passed over although it
\* is missing is one that os.Stat could not look at.
LookForDir(w) ==
    /\ phase = "wait" /\ ~Started(w) /\ w \notin missing
    /\ \E dir \in wnext[w]..(LastDir + 1) \ dirs :
          /\ wnext' = [wnext EXCEPT ![w] = dir]
          /\ missing' = IF dir <= LastDir THEN missing \cup {w} ELSE missing
          /\ cut' = IF wnext[w]..(dir - 1) \subseteq dirs THEN cut ELSE cut \cup {w}
    /\ UNCHANGED <<cmd, phase, next, dirs, store>>

\* Its os.Mkdir, which fails too when another worker was faster: that ends ensureDirs.
MakeDir(w) ==
    /\ phase = "wait" /\ w \in missing
    /\ missing' = missing \ {w}
    /\ \/ /\ CanMake(wnext[w]) /\ dirs' = dirs \cup {wnext[w]}
          /\ wnext' = [wnext EXCEPT ![w] = @ + 1] /\ UNCHANGED cut
       \/ /\ wnext' = [wnext EXCEPT ![w] = LastDir + 1]
          /\ cut' = cut \cup {w} /\ UNCHANGED dirs
    /\ UNCHANGED <<cmd, phase, next, store>>

\* A step of a worker at a test whose directory is there.
Work(w) ==
    /\ phase = "wait" /\ Started(w)
    /\ Fuzz(w) \/ Stat(w) \/ (Open(w) /\ DirThere(test[w])) \/ Write(w)
    /\ UNCHANGED uvars

\* os.OpenFile fails because it is not.
NoDirectory(w) ==
    /\ phase = "wait" /\ pc[w] = "open" /\ ~DirThere(test[w])
    /\ GiveUp(w) /\ UNCHANGED given
    /\ UNCHANGED uvars

\* A worker that is killed is replaced by a new process.
KillWorker(w) ==
    /\ phase = "wait" /\ Kill(w)
    /\ wnext' = [wnext EXCEPT ![w] = NotStarted]
    /\ cut' = cut \ {w}
    /\ UNCHANGED <<cmd, phase, next, missing, dirs>>

-----------------------------------------------------------------------------
\* The fuzzer ends, with its workers, and cmd.Wait returns.
FuzzerEnds ==
    /\ phase \in {"init", "wait"} /\ phase' = "returned"
    /\ wnext' = [w \in Workers |-> NotStarted] /\ missing' = {}
    /\ pc' = [w \in Workers |-> "idle"] /\ test' = [w \in Workers |-> NULL]
    /\ failed' = failed \cup {test[w] : w \in {v \in Workers : pc[v] # "idle"}}
    /\ UNCHANGED <<cmd, next, dirs, cut, piece, files, given, dups>>

\* The user starts the program again.
RunAgain ==
    /\ phase = "returned" /\ phase' = "dirs" /\ next' = 1
    /\ cut' = {}
    /\ UNCHANGED <<cmd, wnext, missing, dirs, store>>

Run == \/ EnsureDir \/ DirsDone \/ StartGenerator \/ FuzzerEnds \/ RunAgain
       \/ \E w \in Workers : LookForDir(w) \/ MakeDir(w) \/ Work(w)
                              \/ NoDirectory(w) \/ KillWorker(w)

-----------------------------------------------------------------------------
FNext == \/ cmd = "run" /\ Run /\ UNCHANGED <<cvars, mvars>>
         \/ cmd = "corpus" /\ CNext /\ UNCHANGED <<uvars, store, mvars>>
         \/ cmd = "minCorpus" /\ MNext /\ UNCHANGED <<uvars, store, cvars>>
         \/ /\ at = "returned" \/ step = "returned"
            /\ UNCHANGED fvars

FSpec == FInit /\ [][FNext]_fvars

-----------------------------------------------------------------------------
\* Type invariant, with those of the commands; workers live while the fuzzer runs.
FTypeOK ==
    /\ TypeOK /\ CorpusTypeOK /\ MTypeOK
    /\ cmd \in {"corpus", "minCorpus", "run"}
    /\ phase \in {"dirs", "start", "init", "wait", "returned"}
    /\ next \in 1..(LastDir + 1) /\ dirs \subseteq 1..LastDir
    /\ wnext \in [Workers -> NotStarted..(LastDir + 1)] /\ missing \subseteq Workers
    /\ cut \subseteq {"run", "child"} \cup Workers
    /\ phase # "wait" => \A w \in Workers : pc[w] = "idle"

\* A worker gets as far as opening a file in a directory that is not there only after
\* three passes of ensureDirs in a row, that of run, that of the child and its own, have
\* all left a directory out. Whatever only one or two of them miss is made up for, in the
\* first run and in later ones over the same directories, so that no test is lost.
NoTestLost ==
    \A w \in Workers : pc[w] = "open" /\ ~DirThere(test[w]) => {"run", "child", w} \subseteq cut
=============================================================================
