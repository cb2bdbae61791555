------------------------------ MODULE Campaign ------------------------------
(***************************************************************************)
(* The fuzz workers of `fuzzyvm-db generate` (run and the FuzzEVM harness) *)
(* at work on the database server of module DBServer.  Each worker is a    *)
(* process with one connection; it asks whether a program is already in    *)
(* the database, minimizes it, asks for the minimized code and stores what *)
(* is new, while the others do the same and the server may be stopped,     *)
(* killed and restarted between any two steps.                             *)
(***************************************************************************)
EXTENDS DBServer

CONSTANTS Inputs, Full, Min, TooLarge, Failed

VARIABLES
    wpc,   \* run: what each worker is waiting for, or about to do
    winp   \* run: the input each worker is working on, or NULL

workerVars   == <<wpc, winp>>
campaignVars == <<vars, workerVars>>

HasFrame(code)  == [op |-> "H", key |-> makeKey[code]]
PutFrame(blobs) == [op |-> "P", blobs |-> blobs]

\* The payloads run can send: putCode of the full code, or SetBatch of both.
RunPayloads == {<<Full[i]>> : i \in Inputs}
               \cup {<<Full[i], Min[i]>> : i \in {j \in Inputs : Min[j] \in Codes}}

ASSUME InputAssumption      == NULL \notin Inputs
ASSUME RunPayloadAssumption == Payloads = RunPayloads /\ StrayFrames = {}

Goto(c, pc)  == wpc' = [wpc EXCEPT ![c] = pc] /\ UNCHANGED winp

\* run returns: the input is done, skipped, or given up because of errSocket.
Return(c)    == wpc' = [wpc EXCEPT ![c] = "idle"] /\ winp' = [winp EXCEPT ![c] = NULL]

CInit == Init /\ wpc = [c \in Conns |-> "idle"] /\ winp = [c \in Conns |-> NULL]

-----------------------------------------------------------------------------
\* fuzzDBOnce: the first input makes the worker process dial.
Connect(c) == Dial(c) /\ UNCHANGED workerVars

\* The next input: GenerateProgram, then hasCode of the bytecode.
AskFull(c) ==
    /\ wpc[c] = "idle"
    /\ \E i \in Inputs :
          /\ Send(c, HasFrame(Full[i]))
          /\ winp' = [winp EXCEPT ![c] = i]
    /\ wpc' = [wpc EXCEPT ![c] = "askedFull"]

AnsweredFull(c) ==
    /\ wpc[c] = "askedFull" /\ Receive(c)
    /\ IF resp[c] = "absent" THEN Goto(c, "minimize") ELSE Return(c)

\* MinimizeProgram; then putCode of a program whose trace is too large, nothing
\* for a program that fails, hasCode of the minimized code otherwise.
Minimize(c) ==
    LET i == winp[c] IN
    /\ wpc[c] = "minimize"
    /\ \/ Min[i] = TooLarge /\ Goto(c, "storeFull") /\ UNCHANGED vars
       \/ Min[i] = Failed   /\ Return(c) /\ UNCHANGED vars
       \/ Min[i] \in Codes  /\ Send(c, HasFrame(Min[i])) /\ Goto(c, "askedMin")

AnsweredMin(c) ==
    /\ wpc[c] = "askedMin" /\ Receive(c)
    /\ Goto(c, IF resp[c] = "absent" THEN "storeBoth" ELSE "storeFull")

StoreFull(c) ==
    /\ wpc[c] = "storeFull"
    /\ Send(c, PutFrame(<<Full[winp[c]]>>))
    /\ Goto(c, "stored")

\* db.SetBatch: the full code and the minimized code in one PUT.
StoreBoth(c) ==
    /\ wpc[c] = "storeBoth"
    /\ Send(c, PutFrame(<<Full[winp[c]], Min[winp[c]]>>))
    /\ Goto(c, "stored")

Stored(c) == wpc[c] = "stored" /\ Receive(c) /\ Return(c)

\* writeFrame or readByte fails: FuzzEVM skips the input.
SocketError(c) ==
    /\ \/ ReceiveError(c)
       \/ /\ cli[c] = "idle" /\ ~srv[c]
          /\ wpc[c] \in {"minimize", "storeFull", "storeBoth"}
          /\ UNCHANGED vars
    /\ Return(c)

\* The worker process ends, with its input or between two.
WorkerExit(c) == Hangup(c) /\ Return(c)

Run(c) == \/ Connect(c) \/ AskFull(c) \/ AnsweredFull(c) \/ Minimize(c)
          \/ AnsweredMin(c) \/ StoreFull(c) \/ StoreBoth(c) \/ Stored(c)
          \/ SocketError(c) \/ WorkerExit(c)

\* A new run of generate starts new workers.
NewRun == Restart /\ wpc' = [c \in Conns |-> "idle"] /\ winp' = [c \in Conns |-> NULL]

CNext ==
    \/ \E c \in Conns : Run(c)
    \/ \E c \in Conns : Handle(c) /\ UNCHANGED workerVars
    \/ (Serve \/ CloseListener \/ Shutdown) /\ UNCHANGED workerVars
    \/ NewRun
    \/ Terminated /\ UNCHANGED workerVars

CSpec == CInit /\ [][CNext]_campaignVars

-----------------------------------------------------------------------------
\* Type invariant, with that of the server.
CTypeOK ==
    /\ TypeOK
    /\ wpc \in [Conns -> {"idle", "askedFull", "minimize", "askedMin", "storeFull",
                          "storeBoth", "stored"}]
    /\ winp \in [Conns -> Inputs \cup {NULL}]
    /\ \A c \in Conns : wpc[c] = "idle" <=> winp[c] = NULL

\* The database, as the abstract store sees it: its writes are the batches of pebble,
\* whichever worker and handler they come from.
Pairs == INSTANCE PairStore WITH
            log <- log, Inputs <- Inputs, Codes <- Codes, Full <- Full, Min <- Min,
            TooLarge <- TooLarge, Failed <- Failed

ASSUME ProgramAssumption == Pairs!ProgramsOK

\* Every step of workers, server and crashes is a step of the pair store: a full
\* code appears with its minimized code, or after it, or has none.
ImplementsPairStore == Pairs!Spec

\* What run's comment promises: a failure can't leave the full code present (and
\* thus skipped forever) without its minimized counterpart.  In particular a
\* database reopened after a crash is closed.
PairClosed == Pairs!PairClosed

\* Answers are never mixed up: a worker that asked HAS finds a HAS answer in its
\* connection, one that sent a PUT finds the acknowledgment.  Otherwise Get and
\* putBlobs fail with "unexpected response".
ResponsesFit ==
    \A c \in Conns : resp[c] # NULL =>
        \/ wpc[c] \in {"askedFull", "askedMin"} /\ resp[c] \in {"present", "absent"}
        \/ wpc[c] = "stored" /\ resp[c] = "ack"
=============================================================================
