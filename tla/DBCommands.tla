----------------------------- MODULE DBCommands -----------------------------
(***************************************************************************)
(* The program fuzzyvm-db: a process runs one of its commands, `generate`  *)
(* (module Generate) or `replay` (module Replay), to its end.  The command *)
(* `inspect` only reads.                                                   *)
(***************************************************************************)
EXTENDS Generate, Replay

VARIABLE app \* the command the process was started with

dvars == <<app, vars, rvars>>

DInit == app \in {"generate", "replay"} /\ Init /\ RInit

Running(name) == app = name /\ UNCHANGED app

DNext == \/ Running("generate") /\ Next /\ UNCHANGED rvars
         \/ Running("replay") /\ RNext /\ UNCHANGED vars
         \/ rpc = "returned" /\ UNCHANGED dvars

DSpec == DInit /\ [][DNext]_dvars

\* Generate's fairness (its FairSpec) for that command.  For replay: the command, the
\* goroutine of the test and the workers are scheduled, and the timer of replayCode
\* fires; an execution may take for ever, and the timeout of `go test` is no help.
DFairSpec ==
    /\ DSpec
    /\ WF_vars(app = "generate" /\ Main)
    /\ WF_vars(app = "generate" /\ Watch)
    /\ WF_vars(app = "generate" /\ ChildStopped)
    /\ WF_rvars(app = "replay" /\ Command)
    /\ WF_rvars(app = "replay" /\ TestMain)
    /\ \A w \in RWorkers : WF_rvars(app = "replay" /\ Worker(w))
=============================================================================
