------------------------------ MODULE DBServer ------------------------------
(***************************************************************************)
(* The process `fuzzyvm-db generate`: the only owner of the pebble         *)
(* database, which it serves to the fuzz workers over a Unix socket.       *)
(*                                                                         *)
(* Goroutines: the acceptor (serve), one handler per connection (handle),  *)
(* and the main goroutine (generate, from the return of cmd.Run on).  Each *)
(* step is what one goroutine does between two points at which another one *)
(* can be seen: a lock section, a database call, a socket call.            *)
(*                                                                         *)
(* Environment: the workers' ends of the sockets, the sockets themselves,  *)
(* pebble, and the operating system, which may kill the process.           *)
(***************************************************************************)
EXTENDS Integers, Sequences, FiniteSets, Functions

CONSTANTS
    Conns,       \* connections the workers may open
    Codes,       \* EVM bytecodes
    Keys,        \* 32-byte hashes
    makeKey,     \* SHA-256, as a function of the codes in play
    Payloads,    \* the blob lists a worker may PUT
    StrayFrames, \* frames no worker of this repository sends, see Frames
    Faults,      \* which calls may fail: "get", "commit", "close", "accept"
    NULL,        \* no frame, no response, no connection
    MaxReceived, \* bound: no PUT is sent once this many blobs were received
    MaxRuns      \* bound: how often the process is started

ASSUME HashAssumption    == makeKey \in Injection(Codes, Keys)
ASSUME PayloadAssumption == Payloads \subseteq Seq(Codes) \ {<<>>}
ASSUME StrayAssumption   == StrayFrames \subseteq [op : {"badPut", "badFrame"}]
ASSUME BoundAssumption   == MaxReceived \in Nat /\ MaxRuns \in Nat

\* What readFrame returns: a HAS query, a PUT with its blobs, a PUT that
\* decodeBlobs rejects, or bytes that are no frame of the protocol (length
\* above maxFrame, unknown opcode, truncated).
HasFrames == [op : {"H"}, key : Keys]
PutFrames == [op : {"P"}, blobs : Payloads]
Frames    == HasFrames \cup PutFrames \cup StrayFrames

Responses == {"absent", "present", "ack"}

ASSUME NullAssumption == NULL \notin Frames \cup Responses \cup Conns

VARIABLES
    main,     \* generate: "running" (in cmd.Run), then the steps of shutdown
    apc,      \* serve: where the acceptor is
    acn,      \* serve: the connection it has in hand, or NULL
    conns,    \* dbServer.conns: connections tracked under mu
    closing,  \* dbServer.closing
    wg,       \* dbServer.wg: the connections whose handler is counted
    hpc,      \* handle: where the handler of each connection is
    work,     \* handle, put: the locals of each handler
    stored,   \* dbServer.stored
    received, \* dbServer.received
    log,      \* pebble: the committed batches, each a set of codes
    durable,  \* pebble: how many batches are certain to survive a crash
    backlog,  \* connections dialled and not yet accepted
    cli,      \* each worker's end: "new", "idle", "waiting" or "closed"
    srv,      \* is the server's end of the connection open?
    req,      \* the frame under way to the server
    resp,     \* the response byte under way to the worker
    runs,     \* how often the process was started
    acked,    \* history: codes whose PUT was acknowledged
    flushed   \* history: acked, as of the last database close without error

acceptorVars == <<apc, acn>>
regVars      == <<conns, closing, wg>>
handlerVars  == <<hpc, work>>
countVars    == <<stored, received>>
dbVars       == <<log, durable>>
netVars      == <<backlog, cli, srv, req, resp>>
histVars     == <<runs, acked, flushed>>
vars == <<main, acceptorVars, regVars, handlerVars, countVars, dbVars, netVars,
          histVars>>

NoWork == [frame |-> NULL, todo |-> <<>>, keep |-> <<>>, answer |-> NULL]

\* The codes of the first n batches, and whether pebble.Get finds a key.
CodesUpTo(n) == UNION {log[i] : i \in 1..n}
StoredCodes  == CodesUpTo(Len(log))
Found(key)   == \E c \in StoredCodes : makeKey[c] = key

\* The main goroutine closes the database as its last step.
DBOpen == main # "closed"

\* Handlers that exist, and those that may be inside a database call.
LivePCs == {"read", "has", "check", "commit", "count", "reply", "exit", "closeConn"}
DBPCs   == {"has", "check", "commit"}

Init ==
    /\ main = "running"
    /\ apc = "accept" /\ acn = NULL
    /\ conns = {} /\ closing = FALSE /\ wg = {}
    /\ hpc = [c \in Conns |-> "none"]
    /\ work = [c \in Conns |-> NoWork]
    /\ stored = 0 /\ received = 0
    /\ log = <<>> /\ durable = 0
    /\ backlog = <<>>
    /\ cli = [c \in Conns |-> "new"]
    /\ srv = [c \in Conns |-> FALSE]
    /\ req = [c \in Conns |-> NULL]
    /\ resp = [c \in Conns |-> NULL]
    /\ runs = 1 /\ acked = {} /\ flushed = {}

-----------------------------------------------------------------------------
(* The workers' end of the connections: client.go.                         *)

\* dialSocketDB.  The connection waits in the kernel until it is accepted.
Dial(c) ==
    /\ main = "running"
    /\ cli[c] = "new"
    /\ cli' = [cli EXCEPT ![c] = "idle"]
    /\ srv' = [srv EXCEPT ![c] = TRUE]
    /\ backlog' = Append(backlog, c)
    /\ UNCHANGED <<main, acceptorVars, regVars, handlerVars, countVars, dbVars,
                   req, resp, histVars>>

\* writeFrame in Get and putBlobs; socketDB.mu allows one request at a time.
Send(c, frame) ==
    /\ cli[c] = "idle" /\ srv[c]
    /\ frame.op = "P" => received < MaxReceived
    /\ cli' = [cli EXCEPT ![c] = "waiting"]
    /\ req' = [req EXCEPT ![c] = frame]
    /\ UNCHANGED <<main, acceptorVars, regVars, handlerVars, countVars, dbVars,
                   backlog, srv, resp, histVars>>

\* readByte in Get and putBlobs returns the response.
Receive(c) ==
    /\ cli[c] = "waiting" /\ resp[c] # NULL
    /\ cli' = [cli EXCEPT ![c] = "idle"]
    /\ resp' = [resp EXCEPT ![c] = NULL]
    /\ UNCHANGED <<main, acceptorVars, regVars, handlerVars, countVars, dbVars,
                   backlog, srv, req, histVars>>

\* readByte in Get and putBlobs fails: the server closed its end (errSocket).
ReceiveError(c) ==
    /\ cli[c] = "waiting" /\ resp[c] = NULL /\ ~srv[c]
    /\ cli' = [cli EXCEPT ![c] = "idle"]
    /\ req' = [req EXCEPT ![c] = NULL]
    /\ UNCHANGED <<main, acceptorVars, regVars, handlerVars, countVars, dbVars,
                   backlog, srv, resp, histVars>>

\* The worker process ends, or dies with its frame half written.
Hangup(c) ==
    /\ cli[c] \in {"idle", "waiting"}
    /\ cli' = [cli EXCEPT ![c] = "closed"]
    /\ \E r \in {req[c], NULL} : req' = [req EXCEPT ![c] = r]
    /\ resp' = [resp EXCEPT ![c] = NULL]
    /\ UNCHANGED <<main, acceptorVars, regVars, handlerVars, countVars, dbVars,
                   backlog, srv, histVars>>

-----------------------------------------------------------------------------
(* The acceptor: dbServer.serve.                                           *)

Accept ==
    /\ apc = "accept" /\ backlog # <<>>
    /\ acn' = Head(backlog) /\ backlog' = Tail(backlog)
    /\ apc' = "accepted"
    /\ UNCHANGED <<main, regVars, handlerVars, countVars, dbVars, cli, srv, req,
                   resp, histVars>>

\* serve returns at any error of Accept: when the listener is closed, and just as
\* well when the process is out of file descriptors.  It is not started again.
StopAccepting ==
    /\ apc = "accept" /\ (main # "running" \/ "accept" \in Faults)
    /\ apc' = "stopped"
    /\ UNCHANGED <<main, acn, regVars, handlerVars, countVars, dbVars, netVars,
                   histVars>>

\* Mutant: a connection accepted during shutdown is tracked all the same.
TrackConn_IgnoresClosing ==
    /\ apc = "accepted"
    /\ apc' = "tracked" /\ conns' = conns \cup {acn}
    /\ UNCHANGED <<main, acn, closing, wg, handlerVars, countVars, dbVars,
                   netVars, histVars>>

\* trackConn, under mu.
TrackConn ==
    /\ apc = "accepted"
    /\ IF closing
         THEN apc' = "refuse" /\ UNCHANGED conns
         ELSE apc' = "tracked" /\ conns' = conns \cup {acn}
    /\ UNCHANGED <<main, acn, closing, wg, handlerVars, countVars, dbVars,
                   netVars, histVars>>

\* Mutant: the refused connection is dropped without being closed.
Refuse_LeavesOpen ==
    /\ apc = "refuse"
    /\ apc' = "accept" /\ acn' = NULL
    /\ UNCHANGED <<main, regVars, handlerVars, countVars, dbVars, netVars, histVars>>

Refuse ==
    /\ apc = "refuse"
    /\ apc' = "accept" /\ acn' = NULL
    /\ srv' = [srv EXCEPT ![acn] = FALSE]
    /\ UNCHANGED <<main, regVars, handlerVars, countVars, dbVars, backlog, cli,
                   req, resp, histVars>>

\* wg.Add(1), outside mu, and the start of the handler.
Spawn ==
    /\ apc = "tracked"
    /\ apc' = "accept" /\ acn' = NULL
    /\ wg' = wg \cup {acn}
    /\ hpc' = [hpc EXCEPT ![acn] = "read"]
    /\ UNCHANGED <<main, conns, closing, work, countVars, dbVars, netVars,
                   histVars>>

-----------------------------------------------------------------------------
(* A handler: dbServer.handle, has and put.                                *)

HandlerOnly ==
    UNCHANGED <<main, acceptorVars, regVars, dbVars, backlog, cli, srv, histVars>>

\* readFrame, and the switch on the opcode.  A frame that was sent before the
\* worker hung up is still read; a closed connection, the end of the stream, an
\* unknown opcode or a frame that is too large end the handler.
ReadFrame(c) ==
    /\ hpc[c] = "read"
    /\ \/ /\ ~srv[c] \/ (req[c] = NULL /\ cli[c] = "closed")
          /\ hpc' = [hpc EXCEPT ![c] = "exit"]
          /\ UNCHANGED <<work, req>>
       \/ /\ srv[c] /\ req[c] # NULL
          /\ req' = [req EXCEPT ![c] = NULL]
          /\ LET frame == req[c] IN
             \/ /\ frame.op = "H"
                /\ hpc' = [hpc EXCEPT ![c] = "has"]
                /\ work' = [work EXCEPT ![c] = [NoWork EXCEPT !.frame = frame]]
             \/ /\ frame.op = "P"
                /\ hpc' = [hpc EXCEPT ![c] = "check"]
                /\ work' = [work EXCEPT ![c] = [NoWork EXCEPT !.frame = frame,
                                                              !.todo = frame.blobs]]
             \/ /\ frame.op = "badPut"   \* put returns decodeBlobs' error
                /\ hpc' = [hpc EXCEPT ![c] = "reply"]
                /\ work' = [work EXCEPT ![c] = [NoWork EXCEPT !.answer = "ack"]]
             \/ /\ frame.op = "badFrame"
                /\ hpc' = [hpc EXCEPT ![c] = "exit"]
                /\ UNCHANGED work
    /\ HandlerOnly /\ UNCHANGED <<countVars, resp>>

\* has: a lookup that fails is logged and answered with respAbsent.
Has(c) ==
    /\ hpc[c] = "has"
    /\ \E answer \in {IF Found(work[c].frame.key) THEN "present" ELSE "absent"}
                        \cup (IF "get" \in Faults THEN {"absent"} ELSE {}) :
          work' = [work EXCEPT ![c].answer = answer]
    /\ hpc' = [hpc EXCEPT ![c] = "reply"]
    /\ HandlerOnly /\ UNCHANGED <<countVars, req, resp>>

\* put: one blob is counted and looked up, and kept if it is new.  After the last
\* one the handler writes what it kept.
CheckBlob(c) ==
    LET code == Head(work[c].todo)
        rest == Tail(work[c].todo)
        keep == IF Found(makeKey[code]) THEN work[c].keep
                                        ELSE Append(work[c].keep, code)
    IN
    /\ work' = [work EXCEPT ![c].todo = rest, ![c].keep = keep,
                            ![c].answer = IF rest = <<>> THEN "ack" ELSE NULL]
    /\ hpc' = [hpc EXCEPT ![c] = IF rest # <<>> THEN "check"
                                 ELSE IF keep # <<>> THEN "commit" ELSE "reply"]

\* Mutant: a failed lookup skips the blob, like a successful one, and put goes on.
PutCheck_SkipsFailed(c) ==
    /\ hpc[c] = "check"
    /\ received' = received + 1
    /\ \/ CheckBlob(c)
       \/ /\ "get" \in Faults
          /\ LET rest == Tail(work[c].todo) IN
             /\ work' = [work EXCEPT ![c].todo = rest, ![c].answer = "ack"]
             /\ hpc' = [hpc EXCEPT ![c] = IF rest # <<>> THEN "check"
                                          ELSE IF work[c].keep # <<>> THEN "commit" ELSE "reply"]
    /\ HandlerOnly /\ UNCHANGED <<stored, req, resp>>

\* Mutant: a failed lookup is answered on the spot, and then once more by handle.
PutCheck_AnswersTwice(c) ==
    /\ hpc[c] = "check"
    /\ received' = received + 1
    /\ \/ CheckBlob(c) /\ UNCHANGED resp
       \/ /\ "get" \in Faults
          /\ work' = [work EXCEPT ![c].answer = "ack"]
          /\ hpc' = [hpc EXCEPT ![c] = "reply"]
          /\ resp' = [resp EXCEPT ![c] = "ack"]
    /\ HandlerOnly /\ UNCHANGED <<stored, req>>

\* put: the loop over the blobs; a lookup that fails makes put return at once.
PutCheck(c) ==
    /\ hpc[c] = "check"
    /\ received' = received + 1
    /\ \/ CheckBlob(c)
       \/ /\ "get" \in Faults
          /\ work' = [work EXCEPT ![c].answer = "ack"]
          /\ hpc' = [hpc EXCEPT ![c] = "reply"]
    /\ HandlerOnly /\ UNCHANGED <<stored, req, resp>>

\* Mutant: the kept blobs are written one by one instead of as a batch.
PutCommit_OneByOne(c) ==
    /\ hpc[c] = "commit"
    /\ log' = Append(log, {Head(work[c].keep)})
    /\ work' = [work EXCEPT ![c].keep = Tail(@)]
    /\ hpc' = [hpc EXCEPT ![c] = IF Len(work[c].keep) = 1 THEN "count" ELSE "commit"]
    /\ UNCHANGED <<main, acceptorVars, regVars, countVars, durable, netVars, histVars>>

\* put: SetBatch commits all kept blobs or, if it fails, none of them.
PutCommit(c) ==
    /\ hpc[c] = "commit"
    /\ \/ /\ log' = Append(log, Range(work[c].keep))
          /\ hpc' = [hpc EXCEPT ![c] = "count"]
       \/ /\ "commit" \in Faults
          /\ hpc' = [hpc EXCEPT ![c] = "reply"]
          /\ UNCHANGED log
    /\ UNCHANGED <<main, acceptorVars, regVars, work, countVars, durable, netVars,
                   histVars>>

\* Mutant: one for the batch instead of one for each code.
PutCount_Batches(c) ==
    /\ hpc[c] = "count"
    /\ stored' = stored + 1
    /\ hpc' = [hpc EXCEPT ![c] = "reply"]
    /\ HandlerOnly /\ UNCHANGED <<work, received, req, resp>>

\* put: the statistics.
PutCount(c) ==
    /\ hpc[c] = "count"
    /\ stored' = stored + Len(work[c].keep)
    /\ hpc' = [hpc EXCEPT ![c] = "reply"]
    /\ HandlerOnly /\ UNCHANGED <<work, received, req, resp>>

\* writeByte; it fails when either end of the connection is closed.
Reply(c) ==
    /\ hpc[c] = "reply"
    /\ IF srv[c] /\ cli[c] # "closed"
         THEN /\ resp' = [resp EXCEPT ![c] = work[c].answer]
              /\ hpc' = [hpc EXCEPT ![c] = "read"]
              /\ acked' = acked \cup IF work[c].frame \in PutFrames
                                       THEN Range(work[c].frame.blobs) ELSE {}
         ELSE /\ hpc' = [hpc EXCEPT ![c] = "exit"]
              /\ UNCHANGED <<resp, acked>>
    /\ work' = [work EXCEPT ![c] = NoWork]
    /\ UNCHANGED <<main, acceptorVars, regVars, countVars, dbVars, backlog, cli,
                   srv, req, runs, flushed>>

\* The deferred calls of handle, and the deferred wg.Done of its goroutine.
UntrackConn(c) ==
    /\ hpc[c] = "exit"
    /\ conns' = conns \ {c}
    /\ hpc' = [hpc EXCEPT ![c] = "closeConn"]
    /\ UNCHANGED <<main, acceptorVars, closing, wg, work, countVars, dbVars,
                   netVars, histVars>>

CloseConn(c) ==
    /\ hpc[c] = "closeConn"
    /\ srv' = [srv EXCEPT ![c] = FALSE]
    /\ wg' = wg \ {c}
    /\ hpc' = [hpc EXCEPT ![c] = "done"]
    /\ UNCHANGED <<main, acceptorVars, conns, closing, work, countVars, dbVars,
                   backlog, cli, req, resp, histVars>>

Handle(c) == \/ ReadFrame(c) \/ Has(c) \/ PutCheck(c) \/ PutCommit(c)
             \/ PutCount(c) \/ Reply(c) \/ UntrackConn(c) \/ CloseConn(c)

-----------------------------------------------------------------------------
(* The main goroutine: generate, from the return of cmd.Run on.            *)

\* shutdown: ln.Close.  The kernel resets the connections not yet accepted.
CloseListener ==
    /\ main = "running"
    /\ main' = "listenerClosed"
    /\ backlog' = <<>>
    /\ srv' = [c \in Conns |-> srv[c] /\ c \notin Range(backlog)]
    /\ UNCHANGED <<acceptorVars, regVars, handlerVars, countVars, dbVars, cli, req,
                   resp, histVars>>

\* Mutant: shutdown forbids new handlers but leaves the old ones in readFrame.
CloseTracked_LeavesOpen ==
    /\ main = "listenerClosed"
    /\ main' = "waiting"
    /\ closing' = TRUE
    /\ UNCHANGED <<acceptorVars, conns, wg, handlerVars, countVars, dbVars, netVars,
                   histVars>>

\* shutdown: the section under mu.
CloseTracked ==
    /\ main = "listenerClosed"
    /\ main' = "waiting"
    /\ closing' = TRUE
    /\ srv' = [c \in Conns |-> srv[c] /\ c \notin conns]
    /\ UNCHANGED <<acceptorVars, conns, wg, handlerVars, countVars, dbVars, backlog,
                   cli, req, resp, histVars>>

\* shutdown: wg.Wait.
WaitHandlers ==
    /\ main = "waiting" /\ wg = {}
    /\ main' = "drained"
    /\ UNCHANGED <<acceptorVars, regVars, handlerVars, countVars, dbVars, netVars,
                   histVars>>

\* Mutant: the process exits without pdb.Close.
CloseDB_NoFlush ==
    /\ main = "drained"
    /\ main' = "closed"
    /\ flushed' = acked
    /\ UNCHANGED <<acceptorVars, regVars, handlerVars, countVars, dbVars, netVars,
                   runs, acked>>

\* pdb.Close, which flushes what the NoSync commits left in memory.
CloseDB ==
    /\ main = "drained"
    /\ main' = "closed"
    /\ \/ durable' = Len(log) /\ flushed' = acked
       \/ "close" \in Faults /\ UNCHANGED <<durable, flushed>>
    /\ UNCHANGED <<acceptorVars, regVars, handlerVars, countVars, log, netVars, runs,
                   acked>>

Shutdown == CloseTracked \/ WaitHandlers \/ CloseDB

\* The process ends, in its own time or killed at any step, and `generate` is
\* started again with new workers.  The write-ahead log is replayed up to some
\* batch: what was not flushed is lost from the end, whole batches at a time.
Restart ==
    /\ runs < MaxRuns
    /\ runs' = runs + 1
    /\ main' = "running"
    /\ apc' = "accept" /\ acn' = NULL
    /\ conns' = {} /\ closing' = FALSE /\ wg' = {}
    /\ hpc' = [c \in Conns |-> "none"]
    /\ work' = [c \in Conns |-> NoWork]
    /\ stored' = 0 /\ received' = 0
    /\ \E n \in durable..Len(log) : log' = SubSeq(log, 1, n) /\ durable' = n
    /\ backlog' = <<>>
    /\ cli' = [c \in Conns |-> "new"]
    /\ srv' = [c \in Conns |-> FALSE]
    /\ req' = [c \in Conns |-> NULL]
    /\ resp' = [c \in Conns |-> NULL]
    /\ acked' = flushed
    /\ UNCHANGED flushed

\* generate has returned; nothing is left to do.
Terminated == main = "closed" /\ UNCHANGED vars

-----------------------------------------------------------------------------
Worker(c)  == \/ Dial(c) \/ Receive(c) \/ ReceiveError(c) \/ Hangup(c)
              \/ \E frame \in Frames : Send(c, frame)
Serve      == Accept \/ StopAccepting \/ TrackConn \/ Refuse \/ Spawn

Next ==
    \/ \E c \in Conns : Worker(c) \/ Handle(c)
    \/ Serve
    \/ CloseListener \/ Shutdown
    \/ Restart
    \/ Terminated

Spec == Init /\ [][Next]_vars

\* Every goroutine that can run does, and so does a worker that waits for an
\* answer.  Nothing forces a worker to dial, send or hang up, the fuzzing
\* command to return, or the process to be killed.
Fairness ==
    /\ \A c \in Conns : WF_vars(Handle(c)) /\ WF_vars(Receive(c) \/ ReceiveError(c))
    /\ WF_vars(Serve)
    /\ WF_vars(Shutdown)

FairSpec == Spec /\ Fairness

-----------------------------------------------------------------------------
\* Type invariant.
TypeOK ==
    /\ main \in {"running", "listenerClosed", "waiting", "drained", "closed"}
    /\ apc \in {"accept", "accepted", "tracked", "refuse", "stopped"}
    /\ acn \in Conns \cup {NULL}
    /\ apc \in {"accepted", "tracked", "refuse"} => acn \in Conns
    /\ conns \in SUBSET Conns /\ closing \in BOOLEAN /\ wg \in SUBSET Conns
    /\ hpc \in [Conns -> LivePCs \cup {"none", "done"}]
    /\ work \in [Conns -> [frame : Frames \cup {NULL}, todo : Seq(Codes),
                           keep : Seq(Codes), answer : Responses \cup {NULL}]]
    /\ stored \in Nat /\ received \in Nat
    /\ log \in Seq(SUBSET Codes) /\ durable \in 0..Len(log)
    /\ backlog \in Seq(Conns)
    /\ cli \in [Conns -> {"new", "idle", "waiting", "closed"}]
    /\ srv \in [Conns -> BOOLEAN]
    /\ req \in [Conns -> Frames \cup {NULL}]
    /\ resp \in [Conns -> Responses \cup {NULL}]
    /\ runs \in Nat /\ acked \in SUBSET Codes /\ flushed \in SUBSET Codes

\* Safety of the shutdown ("no handler is touching the database", server.go):
\* once the main goroutine has closed pebble no handler is inside, or about to
\* enter, a database call.  Pebble panics otherwise.
NoUseAfterClose == ~DBOpen => \A c \in Conns : hpc[c] \notin DBPCs

\* A worker that has been told respAck can drop the code: the database holds it,
\* and across restarts it holds whatever was acknowledged before a clean close.
AckMeansStored == acked \subseteq StoredCodes /\ flushed \subseteq CodesUpTo(durable)

\* The codes this process added to those it found when it started.
NewCodes == StoredCodes \ CodesUpTo(durable)

\* The summary line of generate: when every handler has been waited for, the
\* stored counter has counted each new code and nothing that was not received.
StatsCoverNewCodes ==
    /\ main = "drained" => Cardinality(NewCodes) <= stored
    /\ stored <= received

\* What the comment in generate promises ("waits for every connection handler to
\* finish"): after shutdown there are no handlers.  A connection that was tracked
\* but not yet counted in wg escapes the wait.
HandlersGoneAfterShutdown ==
    main \in {"drained", "closed"} => \A c \in Conns : hpc[c] \notin LivePCs

\* shutdown terminates: closing the connections unblocks every handler it waits
\* for, so once the fuzzing command has returned the database is closed, unless the
\* process is killed meanwhile.
ShutdownCompletes ==
    \A n \in 1..MaxRuns :
       main # "running" /\ runs = n ~> main = "closed" \/ runs > n

\* The connection of a worker that dialled a server whose acceptor has given up.
Abandoned(c) == main = "running" /\ apc = "stopped" /\ c \in Range(backlog)

\* A worker inside Get or putBlobs returns from it, with an answer or an error,
\* whatever the server and the other workers do: also when serve has left its loop
\* at an error of Accept, if its connection was accepted before that.  One that was
\* not waits in the queue of the listener, but not past the start of shutdown.
RequestsReturn == \A c \in Conns : cli[c] = "waiting" ~> cli[c] # "waiting" \/ Abandoned(c)

=============================================================================
