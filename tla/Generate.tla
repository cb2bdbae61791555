------------------------------ MODULE Generate ------------------------------
(***************************************************************************)
(* The command `fuzzyvm-db generate` as the supervisor of `go test -fuzz`: *)
(* what it opens on the way up, what it closes on the way down, and how    *)
(* signals and failures turn into its exit status.  What happens on the    *)
(* socket in between is module DBServer.                                   *)
(*                                                                         *)
(* Actors: the main goroutine, the goroutine that watches for signals, the *)
(* child process, and whoever sends signals.                               *)
(***************************************************************************)
EXTENDS Naturals

CONSTANT MaxSignals \* bound: how many signals are sent

ASSUME SignalBound == MaxSignals \in Nat

VARIABLES
    main,        \* generate: the next call of the main goroutine
    status,      \* generate: the variable err, "nil" or "err"
    result,      \* what generate returned to the shell, or "none"
    installed,   \* are SIGINT and SIGTERM routed to sigCh?
    sigCh,       \* is there a signal in the channel (capacity 1)?
    watcher,     \* the watching goroutine: "none", "receiving" or "done"
    interrupted, \* the atomic flag of the same name
    child,       \* `go test`: "none", "running", or how it ended
    childSig,    \* has a SIGINT reached the child?
    open,        \* what generate holds: "db", "sockDir", "listener"
    unflushed,   \* are there committed codes that pebble has not synced?
    failures,    \* history: the calls that failed
    signals,     \* history: how many signals were sent
    pressed      \* history: was Ctrl-C pressed while the child ran?

vars == <<main, status, result, installed, sigCh, watcher, interrupted, child,
          childSig, open, unflushed, failures, signals, pressed>>

Resources == {"db", "sockDir", "listener"}
Calls     == {"createDB", "mkdirTemp", "listen", "start", "child", "close"}

Ended == main \in {"returned", "killed"}

Init ==
    /\ main = "createDB" /\ status = "nil" /\ result = "none"
    /\ installed = FALSE /\ sigCh = FALSE /\ watcher = "none" /\ interrupted = FALSE
    /\ child = "none" /\ childSig = FALSE
    /\ open = {} /\ unflushed = FALSE
    /\ failures = {} /\ signals = 0 /\ pressed = FALSE

-----------------------------------------------------------------------------
(* The main goroutine.                                                     *)

Quiet == UNCHANGED <<sigCh, watcher, interrupted, child, childSig, signals, pressed>>

\* An early return of generate: what it had opened is closed.
FailStart(call) ==
    /\ main' = "returned" /\ result' = "err" /\ status' = "err"
    /\ failures' = failures \cup {call}

CreateDB ==
    /\ main = "createDB"
    /\ \/ /\ main' = "mkdirTemp" /\ open' = {"db"}
          /\ UNCHANGED <<status, result, failures>>
       \/ FailStart("createDB") /\ UNCHANGED open
    /\ Quiet /\ UNCHANGED <<installed, unflushed>>

MkdirTemp ==
    /\ main = "mkdirTemp"
    /\ \/ /\ main' = "listen" /\ open' = open \cup {"sockDir"}
          /\ UNCHANGED <<status, result, failures>>
       \/ FailStart("mkdirTemp") /\ open' = open \ {"db"}
    /\ Quiet /\ UNCHANGED <<installed, unflushed>>

\* Mutant: the error path of Listen forgets the database.
Listen_LeaksDB ==
    /\ main = "listen"
    /\ \/ /\ main' = "notify" /\ open' = open \cup {"listener"}
          /\ UNCHANGED <<status, result, failures>>
       \/ FailStart("listen") /\ open' = open \ {"sockDir"}
    /\ Quiet /\ UNCHANGED <<installed, unflushed>>

Listen ==
    /\ main = "listen"
    /\ \/ /\ main' = "notify" /\ open' = open \cup {"listener"}
          /\ UNCHANGED <<status, result, failures>>
       \/ FailStart("listen") /\ open' = open \ {"db", "sockDir"}
    /\ Quiet /\ UNCHANGED <<installed, unflushed>>

\* Mutant: the signals are routed to a channel that exists, but not yet.
Notify_Forgotten ==
    /\ main = "notify"
    /\ main' = "start" /\ watcher' = "receiving"
    /\ UNCHANGED <<status, result, installed, sigCh, interrupted, child, childSig,
                   open, unflushed, failures, signals, pressed>>

\* signal.Notify, and the start of the watching goroutine.
Notify ==
    /\ main = "notify"
    /\ main' = "start" /\ installed' = TRUE /\ watcher' = "receiving"
    /\ UNCHANGED <<status, result, sigCh, interrupted, child, childSig, open,
                   unflushed, failures, signals, pressed>>

\* cmd.Run, first half: the child is started, or cannot be.
StartChild ==
    /\ main = "start"
    /\ \/ /\ main' = "wait" /\ child' = "running"
          /\ UNCHANGED <<status, failures>>
       \/ /\ main' = "shutdown" /\ status' = "err"
          /\ failures' = failures \cup {"start"}
          /\ UNCHANGED child
    /\ UNCHANGED <<result, installed, sigCh, watcher, interrupted, childSig, open,
                   unflushed, signals, pressed>>

\* cmd.Run, second half: it returns when the child has ended.
WaitChild ==
    /\ main = "wait" /\ child \notin {"none", "running"}
    /\ main' = "shutdown"
    /\ status' = IF child = "ok" THEN "nil" ELSE "err"
    /\ failures' = failures \cup (IF child = "crash" THEN {"child"} ELSE {})
    /\ Quiet /\ UNCHANGED <<result, installed, open, unflushed>>

\* srv.shutdown, which ends (DBServer, ShutdownCompletes).
ShutdownServer ==
    /\ main = "shutdown"
    /\ main' = "closeDB" /\ open' = open \ {"listener"}
    /\ Quiet /\ UNCHANGED <<status, result, installed, unflushed, failures>>

\* Mutant: the error of Close replaces, or clears, the error of the child.
CloseDB_Overwrites ==
    /\ main = "closeDB"
    /\ main' = "report" /\ open' = open \ {"db"}
    /\ \/ unflushed' = FALSE /\ status' = "nil" /\ UNCHANGED failures
       \/ status' = "err" /\ failures' = failures \cup {"close"} /\ UNCHANGED unflushed
    /\ Quiet /\ UNCHANGED <<result, installed>>

\* pdb.Close; its error counts when there is no other.
CloseDB ==
    /\ main = "closeDB"
    /\ main' = "report" /\ open' = open \ {"db"}
    /\ \/ unflushed' = FALSE /\ UNCHANGED <<status, failures>>
       \/ /\ status' = "err" /\ failures' = failures \cup {"close"}
          /\ UNCHANGED unflushed
    /\ Quiet /\ UNCHANGED <<result, installed>>

\* The last lines of generate: an interrupted run reports no error.
Report ==
    /\ main = "report"
    /\ main' = "deferred"
    /\ result' = IF interrupted THEN "nil" ELSE status
    /\ Quiet /\ UNCHANGED <<status, installed, open, unflushed, failures>>

\* The deferred calls: signal.Stop and os.RemoveAll(sockDir).
Deferred ==
    /\ main = "deferred"
    /\ main' = "returned" /\ installed' = FALSE /\ open' = open \ {"sockDir"}
    /\ Quiet /\ UNCHANGED <<status, result, unflushed, failures>>

Main == \/ CreateDB \/ MkdirTemp \/ Listen \/ Notify \/ StartChild \/ WaitChild
        \/ ShutdownServer \/ CloseDB \/ Report \/ Deferred

-----------------------------------------------------------------------------
(* The goroutine that watches for signals: it takes one, and ends.         *)

Watch ==
    /\ watcher = "receiving" /\ sigCh /\ ~Ended
    /\ watcher' = "done" /\ sigCh' = FALSE /\ interrupted' = TRUE
    /\ UNCHANGED <<main, status, result, installed, child, childSig, open, unflushed,
                   failures, signals, pressed>>

-----------------------------------------------------------------------------
(* The environment.                                                        *)

\* The parent's side of a signal: into the channel, which drops what it cannot
\* hold, or the default action.
Signalled ==
    /\ ~Ended /\ signals < MaxSignals
    /\ signals' = signals + 1
    /\ IF installed THEN sigCh' = TRUE /\ UNCHANGED main
                    ELSE main' = "killed" /\ UNCHANGED sigCh
    /\ UNCHANGED <<status, result, installed, watcher, interrupted, child, open,
                   unflushed, failures>>

\* Mutant: the child has a process group of its own, which Ctrl-C does not reach.
Interrupt_OwnGroup ==
    /\ Signalled
    /\ pressed' = (pressed \/ child = "running")
    /\ UNCHANGED childSig

\* Ctrl-C: SIGINT to every process of the group.
Interrupt ==
    /\ Signalled
    /\ pressed' = (pressed \/ child = "running")
    /\ childSig' = (childSig \/ child = "running")

\* kill: SIGTERM to this process alone.
Terminate == Signalled /\ UNCHANGED <<childSig, pressed>>

\* The workers store a code.
Store ==
    /\ child = "running" /\ main = "wait"
    /\ unflushed' = TRUE
    /\ UNCHANGED <<main, status, result, installed, sigCh, watcher, interrupted, child,
                   childSig, open, failures, signals, pressed>>

ChildEnds(how) ==
    /\ child = "running"
    /\ child' = how
    /\ UNCHANGED <<main, status, result, installed, sigCh, watcher, interrupted,
                   childSig, open, unflushed, failures, signals, pressed>>

\* The fuzz time is over, or the fuzzer found a crash.
ChildDone    == \E how \in {"ok", "crash"} : ChildEnds(how)
ChildStopped == childSig /\ \E how \in {"ok", "interrupted"} : ChildEnds(how)

Environment == Interrupt \/ Terminate \/ Store \/ ChildDone \/ ChildStopped

Next == Main \/ Watch \/ Environment \/ (Ended /\ UNCHANGED vars)

Spec == Init /\ [][Next]_vars

\* The goroutines run, and `go test` reacts to SIGINT; nothing else must happen.
FairSpec == Spec /\ WF_vars(Main) /\ WF_vars(Watch) /\ WF_vars(ChildStopped)

-----------------------------------------------------------------------------
\* Type invariant; the child lives inside cmd.Run.
TypeOK ==
    /\ main \in {"createDB", "mkdirTemp", "listen", "notify", "start", "wait",
                 "shutdown", "closeDB", "report", "deferred", "returned", "killed"}
    /\ status \in {"nil", "err"} /\ result \in {"none", "nil", "err"}
    /\ installed \in BOOLEAN /\ sigCh \in BOOLEAN /\ interrupted \in BOOLEAN
    /\ watcher \in {"none", "receiving", "done"}
    /\ child \in {"none", "running", "ok", "crash", "interrupted"}
    /\ child = "running" => main = "wait"
    /\ childSig \in BOOLEAN /\ unflushed \in BOOLEAN
    /\ open \subseteq Resources /\ failures \subseteq Calls
    /\ signals \in 0..MaxSignals /\ pressed \in BOOLEAN

\* What the comment on sigCh is about: no signal, at whatever moment and however
\* often it is sent, kills the process while codes are waiting to be flushed.
NoSignalLosesWrites == main = "killed" => ~unflushed

\* Whichever call fails, generate returns with the database closed, the listener
\* closed and the socket directory removed.
NothingLeftOpen == main = "returned" => open = {}

\* A run nobody interferes with reports an error exactly when something failed.
UndisturbedRunReports ==
    main = "returned" /\ signals = 0 => (result = "err" <=> failures # {})

\* "A genuine fuzz-found crash exits without a signal, so its error still surfaces":
\* the child was not interrupted and found a crash.
CrashSurfaces ==
    main = "returned" /\ child = "crash" /\ ~childSig => result = "err"

\* "Ctrl-C is the normal way to stop an open-ended run": once it is pressed while
\* the child runs, generate ends.
CtrlCStops == pressed ~> main = "returned"
=============================================================================
