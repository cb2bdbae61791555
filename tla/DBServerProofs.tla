--------------------------- MODULE DBServerProofs ---------------------------
(***************************************************************************)
(* Theorems about the database server, for any number of connections,      *)
(* codes, restarts and requests, and any set of failing calls.             *)
(***************************************************************************)
EXTENDS DBServer, SequenceTheorems, FiniteSetTheorems, TLAPS

-----------------------------------------------------------------------------
(* Types.                                                                  *)

\* A handler that is about to look up a blob has one.
HasBlobToCheck == \A c \in Conns : hpc[c] = "check" => work[c].todo # <<>>

TypeInv == TypeOK /\ HasBlobToCheck

\* A frame with opcode PUT carries a non-empty list of codes.
LEMMA PutFrameBlobs ==
    ASSUME NEW frame \in Frames, frame.op = "P"
    PROVE  frame.blobs \in Seq(Codes) /\ frame.blobs # <<>>
BY PayloadAssumption, StrayAssumption DEF Frames, HasFrames, PutFrames

\* The locals of a handler.
WorkType == [frame : Frames \cup {NULL}, todo : Seq(Codes), keep : Seq(Codes),
             answer : Responses \cup {NULL}]

LEMMA NoWorkType == NoWork \in WorkType
BY DEF NoWork, Responses, WorkType

\* A step that changes the locals of one handler.
LEMMA WorkUpdate ==
    ASSUME work \in [Conns -> WorkType], NEW c \in Conns, NEW w \in WorkType,
           work' = [work EXCEPT ![c] = w]
    PROVE  /\ work' \in [Conns -> WorkType]
           /\ work'[c] = w /\ \A k \in Conns \ {c} : work'[k] = work[k]
OBVIOUS

LEMMA AnswerUpdate ==
    ASSUME work \in [Conns -> WorkType], NEW c \in Conns, NEW answer \in Responses,
           work' = [work EXCEPT ![c].answer = answer]
    PROVE  /\ work' \in [Conns -> WorkType]
           /\ \A k \in Conns : work'[k].todo = work[k].todo
<1> DEFINE w == [work[c] EXCEPT !.answer = answer]
<1>1. w \in WorkType /\ w.todo = work[c].todo
  BY DEF WorkType
<1>2. work' = [work EXCEPT ![c] = w]
  OBVIOUS
<1> HIDE DEF w
<1>3. /\ work' \in [Conns -> WorkType]
      /\ work'[c] = w /\ \A k \in Conns \ {c} : work'[k] = work[k]
  BY <1>1, <1>2, WorkUpdate
<1> QED BY <1>1, <1>3

LEMMA TypeInit == Init => TypeInv
<1> SUFFICES ASSUME Init PROVE TypeInv
  OBVIOUS
<1>1. work \in [Conns -> WorkType] /\ HasBlobToCheck
  BY NoWorkType DEF Init, HasBlobToCheck
<1>2. log \in Seq(SUBSET Codes) /\ durable \in 0..Len(log) /\ backlog \in Seq(Conns)
  BY DEF Init
<1>3. acn \in Conns \cup {NULL} /\ hpc \in [Conns -> LivePCs \cup {"none", "done"}]
  BY DEF Init
<1> QED BY <1>1, <1>2, <1>3 DEF Init, TypeInv, TypeOK, WorkType

LEMMA TypeNext == TypeInv /\ [Next]_vars => TypeInv'
<1> SUFFICES ASSUME TypeInv, [Next]_vars PROVE TypeInv'
  OBVIOUS
<1> USE DEF TypeInv, TypeOK, HasBlobToCheck, WorkType
<1>1. ASSUME NEW c \in Conns, Dial(c) PROVE TypeInv'
  BY <1>1 DEF Dial, acceptorVars, regVars, handlerVars, countVars, dbVars, histVars
<1>2. ASSUME NEW c \in Conns, NEW frame \in Frames, Send(c, frame) PROVE TypeInv'
  BY <1>2 DEF Send, acceptorVars, regVars, handlerVars, countVars, dbVars, histVars
<1>3. ASSUME NEW c \in Conns, Receive(c) PROVE TypeInv'
  BY <1>3 DEF Receive, acceptorVars, regVars, handlerVars, countVars, dbVars, histVars
<1>4. ASSUME NEW c \in Conns, ReceiveError(c) PROVE TypeInv'
  BY <1>4 DEF ReceiveError, acceptorVars, regVars, handlerVars, countVars, dbVars, histVars
<1>5. ASSUME NEW c \in Conns, Hangup(c) PROVE TypeInv'
  BY <1>5 DEF Hangup, acceptorVars, regVars, handlerVars, countVars, dbVars, histVars
<1>6. ASSUME Accept PROVE TypeInv'
  <2>1. Head(backlog) \in Conns /\ Tail(backlog) \in Seq(Conns)
    BY <1>6, HeadTailProperties DEF Accept
  <2> QED
    BY <1>6, <2>1 DEF Accept, regVars, handlerVars, countVars, dbVars, histVars
<1>7. ASSUME StopAccepting PROVE TypeInv'
  BY <1>7 DEF StopAccepting, regVars, handlerVars, countVars, dbVars, netVars, histVars
<1>8. ASSUME TrackConn PROVE TypeInv'
  BY <1>8 DEF TrackConn, handlerVars, countVars, dbVars, netVars, histVars
<1>9. ASSUME Refuse PROVE TypeInv'
  BY <1>9 DEF Refuse, regVars, handlerVars, countVars, dbVars, histVars
<1>10. ASSUME Spawn PROVE TypeInv'
  BY <1>10 DEF Spawn, LivePCs, countVars, dbVars, netVars, histVars
<1>11. ASSUME NEW c \in Conns, ReadFrame(c) PROVE TypeInv'
  <2> USE DEF HandlerOnly, acceptorVars, regVars, dbVars, countVars, histVars
  <2>1. CASE UNCHANGED <<work, req>>
    BY <1>11, <2>1 DEF ReadFrame, LivePCs
  <2>2. CASE req[c] \in Frames /\ req' = [req EXCEPT ![c] = NULL]
    <3> DEFINE frame == req[c]
    <3>1. CASE frame.op = "H" /\ hpc' = [hpc EXCEPT ![c] = "has"]
               /\ work' = [work EXCEPT ![c] = [NoWork EXCEPT !.frame = frame]]
      BY <1>11, <2>2, <3>1, NoWorkType DEF ReadFrame, LivePCs
    <3>2. CASE frame.op = "P" /\ hpc' = [hpc EXCEPT ![c] = "check"]
               /\ work' = [work EXCEPT ![c] = [NoWork EXCEPT !.frame = frame,
                                                             !.todo = frame.blobs]]
      BY <1>11, <2>2, <3>2, NoWorkType, PutFrameBlobs DEF ReadFrame, LivePCs
    <3>3. CASE frame.op = "badPut" /\ hpc' = [hpc EXCEPT ![c] = "reply"]
               /\ work' = [work EXCEPT ![c] = [NoWork EXCEPT !.answer = "ack"]]
      BY <1>11, <2>2, <3>3, NoWorkType DEF ReadFrame, LivePCs, Responses
    <3>4. CASE hpc' = [hpc EXCEPT ![c] = "exit"] /\ UNCHANGED work
      BY <1>11, <2>2, <3>4 DEF ReadFrame, LivePCs
    <3> QED BY <1>11, <2>2, <3>1, <3>2, <3>3, <3>4 DEF ReadFrame
  <2> QED BY <1>11, <2>1, <2>2 DEF ReadFrame
<1>12. ASSUME NEW c \in Conns, Has(c) PROVE TypeInv'
  <2>1. PICK answer \in Responses : work' = [work EXCEPT ![c].answer = answer]
    BY <1>12 DEF Has, Responses
  <2>2. work' \in [Conns -> WorkType] /\ \A k \in Conns : work'[k].todo = work[k].todo
    BY <2>1, AnswerUpdate
  <2>3. hpc' = [hpc EXCEPT ![c] = "reply"]
    BY <1>12 DEF Has
  <2> QED BY <1>12, <2>2, <2>3, SMTT(30) DEF Has, HandlerOnly, LivePCs, acceptorVars, regVars,
                                   dbVars, countVars, histVars
<1>13. ASSUME NEW c \in Conns, PutCheck(c) PROVE TypeInv'
  <2> USE DEF HandlerOnly, acceptorVars, regVars, dbVars, countVars, histVars
  <2>1. Head(work[c].todo) \in Codes /\ Tail(work[c].todo) \in Seq(Codes)
    BY <1>13, HeadTailProperties DEF PutCheck
  <2>2. Append(work[c].keep, Head(work[c].todo)) \in Seq(Codes)
    BY <2>1
  <2>3. CASE CheckBlob(c)
    <3> DEFINE rest == Tail(work[c].todo)
    <3>1. PICK keep \in Seq(Codes), answer \in Responses \cup {NULL},
               pc \in {"check", "commit", "reply"} :
             /\ work' = [work EXCEPT ![c].todo = rest, ![c].keep = keep, ![c].answer = answer]
             /\ hpc' = [hpc EXCEPT ![c] = pc]
             /\ pc = "check" => rest # <<>>
      BY <2>1, <2>2, <2>3 DEF CheckBlob, Responses
    <3>2. work' \in [Conns -> WorkType] /\ work'[c].todo = rest
      <4>1. work'[c] = [work[c] EXCEPT !.todo = rest, !.keep = keep, !.answer = answer]
        BY <3>1
      <4>2. work[c] \in WorkType
        OBVIOUS
      <4>3. work'[c] \in WorkType /\ work'[c].todo = rest
        BY <2>1, <4>1, <4>2
      <4>4. DOMAIN work' = Conns /\ work' = [work EXCEPT ![c] = work'[c]]
        BY <3>1
      <4> QED BY <4>3, <4>4
    <3>3. \A k \in Conns \ {c} : work'[k] = work[k]
      BY <3>1
    <3>4. received' \in Nat
      BY <1>13 DEF PutCheck
    <3>5. HasBlobToCheck'
      BY <3>1, <3>2, <3>3
    <3>6. hpc' \in [Conns -> LivePCs \cup {"none", "done"}]
      BY <3>1 DEF LivePCs
    <3> QED BY <1>13, <3>2, <3>4, <3>5, <3>6 DEF PutCheck
  <2>4. CASE work' = [work EXCEPT ![c].answer = "ack"] /\ hpc' = [hpc EXCEPT ![c] = "reply"]
    <3>1. work' \in [Conns -> WorkType] /\ \A k \in Conns : work'[k].todo = work[k].todo
      <4>1. "ack" \in Responses /\ work' = [work EXCEPT ![c].answer = "ack"]
        BY <2>4 DEF Responses
      <4> QED BY <4>1, AnswerUpdate
    <3>2. received' \in Nat
      BY <1>13 DEF PutCheck
    <3>3. HasBlobToCheck'
      BY <2>4, <3>1
    <3>4. hpc' \in [Conns -> LivePCs \cup {"none", "done"}]
      BY <2>4 DEF LivePCs
    <3> QED BY <1>13, <3>1, <3>2, <3>3, <3>4 DEF PutCheck
  <2> QED BY <1>13, <2>3, <2>4 DEF PutCheck
<1>14. ASSUME NEW c \in Conns, PutCommit(c) PROVE TypeInv'
  <2>1. Range(work[c].keep) \in SUBSET Codes
    BY RangeOfSeq
  <2>2. CASE log' = Append(log, Range(work[c].keep)) /\ hpc' = [hpc EXCEPT ![c] = "count"]
    <3>1. log' \in Seq(SUBSET Codes) /\ Len(log') = Len(log) + 1
      BY <2>1, <2>2
    <3> QED BY <1>14, <2>2, <3>1 DEF PutCommit, LivePCs, acceptorVars, regVars, countVars,
                                     netVars, histVars
  <2>3. CASE UNCHANGED log /\ hpc' = [hpc EXCEPT ![c] = "reply"]
    BY <1>14, <2>3 DEF PutCommit, LivePCs, acceptorVars, regVars, countVars, netVars, histVars
  <2> QED BY <1>14, <2>2, <2>3 DEF PutCommit
<1>15. ASSUME NEW c \in Conns, PutCount(c) PROVE TypeInv'
  BY <1>15 DEF PutCount, HandlerOnly, LivePCs, acceptorVars, regVars, dbVars, countVars, histVars
<1>16. ASSUME NEW c \in Conns, Reply(c) PROVE TypeInv'
  <2>1. acked' \in SUBSET Codes
    <3>1. CASE work[c].frame \in PutFrames
      <4>1. work[c].frame.blobs \in Seq(Codes)
        BY <3>1, PayloadAssumption DEF PutFrames
      <4> QED BY <1>16, <4>1, RangeOfSeq DEF Reply
    <3>2. CASE work[c].frame \notin PutFrames
      BY <1>16, <3>2 DEF Reply
    <3> QED BY <3>1, <3>2
  <2>2. work' \in [Conns -> WorkType] /\ \A k \in Conns \ {c} : work'[k] = work[k]
    <3>1. work' = [work EXCEPT ![c] = NoWork]
      BY <1>16 DEF Reply
    <3> QED BY <3>1, NoWorkType, WorkUpdate
  <2>3. /\ hpc' = [hpc EXCEPT ![c] = "read"] \/ hpc' = [hpc EXCEPT ![c] = "exit"]
        /\ resp' = [resp EXCEPT ![c] = work[c].answer] \/ resp' = resp
    BY <1>16 DEF Reply
  <2>4. hpc' \in [Conns -> LivePCs \cup {"none", "done"}]
    BY <2>3 DEF LivePCs
  <2>5. resp' \in [Conns -> Responses \cup {NULL}]
    <3>1. work[c] \in WorkType
      OBVIOUS
    <3>2. work[c].answer \in Responses \cup {NULL}
      BY <3>1
    <3> HIDE DEF WorkType
    <3> QED BY <2>3, <3>2
  <2>6. HasBlobToCheck'
    BY <2>2, <2>3
  <2> QED
    BY <1>16, <2>1, <2>2, <2>4, <2>5, <2>6 DEF Reply, acceptorVars, regVars, dbVars, countVars
<1>17. ASSUME NEW c \in Conns, UntrackConn(c) PROVE TypeInv'
  BY <1>17 DEF UntrackConn, LivePCs, acceptorVars, dbVars, countVars, netVars, histVars
<1>18. ASSUME NEW c \in Conns, CloseConn(c) PROVE TypeInv'
  BY <1>18 DEF CloseConn, LivePCs, acceptorVars, dbVars, countVars, histVars
<1>19. ASSUME CloseListener PROVE TypeInv'
  BY <1>19 DEF CloseListener, acceptorVars, regVars, handlerVars, dbVars, countVars, histVars
<1>20. ASSUME CloseTracked PROVE TypeInv'
  BY <1>20 DEF CloseTracked, acceptorVars, handlerVars, dbVars, countVars, histVars
<1>21. ASSUME WaitHandlers PROVE TypeInv'
  BY <1>21 DEF WaitHandlers, acceptorVars, regVars, handlerVars, dbVars, countVars, netVars,
               histVars
<1>22. ASSUME CloseDB PROVE TypeInv'
  BY <1>22 DEF CloseDB, acceptorVars, regVars, handlerVars, countVars, netVars
<1>23. ASSUME Restart PROVE TypeInv'
  <2>1. PICK n \in durable..Len(log) : log' = SubSeq(log, 1, n) /\ durable' = n
    BY <1>23 DEF Restart
  <2>2. log' \in Seq(SUBSET Codes) /\ Len(log') = n
    BY <2>1, SubSeqProperties
  <2>3. work' \in [Conns -> WorkType] /\ HasBlobToCheck'
    BY <1>23, NoWorkType DEF Restart
  <2>4. /\ hpc' \in [Conns -> LivePCs \cup {"none", "done"}]
        /\ backlog' \in Seq(Conns) /\ runs' \in Nat /\ durable' \in 0..Len(log')
    BY <1>23, <2>1, <2>2 DEF Restart
  <2> QED BY <1>23, <2>2, <2>3, <2>4 DEF Restart
<1>24. CASE UNCHANGED vars
  BY <1>24 DEF vars, acceptorVars, regVars, handlerVars, countVars, dbVars, netVars, histVars
<1> QED
  BY <1>1, <1>2, <1>3, <1>4, <1>5, <1>6, <1>7, <1>8, <1>9, <1>10, <1>11, <1>12, <1>13,
     <1>14, <1>15, <1>16, <1>17, <1>18, <1>19, <1>20, <1>21, <1>22, <1>23, <1>24
  DEF Next, Worker, Handle, Serve, Shutdown, Terminated

\* Every variable keeps its type, whatever the workers send and whichever database
\* calls fail.
THEOREM TypeCorrect == Spec => []TypeOK
<1>1. TypeInv /\ [Next]_vars => TypeInv'
  BY TypeNext
<1> QED BY TypeInit, <1>1, PTL DEF Spec, TypeInv

-----------------------------------------------------------------------------
(* Shutdown.  WaitHandlers may pass before a tracked connection has got its *)
(* handler, so it is not the wait alone that keeps handlers away from the   *)
(* database: such a handler finds its connection closed, because closing    *)
(* and the tracked connections are guarded by the same mutex.               *)

\* The connections on their way to a handler: not yet accepted, or in the hands
\* of the acceptor.  Each is there once, and has no handler.
Accepting(c) == \/ \E i \in 1..Len(backlog) : backlog[i] = c
                \/ apc \in {"accepted", "tracked", "refuse"} /\ acn = c

OnItsWayOnce ==
    /\ \A c \in Conns : Accepting(c) => hpc[c] = "none" /\ cli[c] # "new"
    /\ \A c \in Conns : cli[c] = "new" => hpc[c] = "none"
    /\ \A i, j \in 1..Len(backlog) : backlog[i] = backlog[j] => i = j
    /\ apc \in {"accepted", "tracked", "refuse"} =>
          \A i \in 1..Len(backlog) : backlog[i] # acn

\* The wait group counts the handlers; a handler that still reads its connection
\* is tracked, and so is the connection that is about to get one.
Registered ==
    /\ \A c \in Conns : c \in wg <=> hpc[c] \in LivePCs
    /\ \A c \in Conns : hpc[c] \in LivePCs \ {"closeConn"} => c \in conns
    /\ apc = "tracked" => acn \in conns

\* closing is set as shutdown says, and from then on tracked connections are
\* closed.
ClosedWhenClosing ==
    /\ closing <=> main \in {"waiting", "drained", "closed"}
    /\ closing => \A c \in conns : ~srv[c]

\* Once shutdown has waited, what handlers are left are on their way out.
LateHandlersExit ==
    main \in {"drained", "closed"} =>
        \A c \in Conns : hpc[c] \in {"none", "read", "exit", "closeConn", "done"}

ShutdownInv == OnItsWayOnce /\ Registered /\ ClosedWhenClosing /\ LateHandlersExit

LEMMA ShutdownInit == Init => ShutdownInv
BY DEF Init, ShutdownInv, OnItsWayOnce, Registered, ClosedWhenClosing, LateHandlersExit,
       Accepting, LivePCs

\* A handler moves from one step to the next and leaves the registers of the server
\* and the connections alone.
LEMMA HandlerMoves ==
    ASSUME TypeInv, ShutdownInv, NEW c \in Conns, NEW pc \in LivePCs \ {"closeConn"},
           hpc[c] \in LivePCs \ {"closeConn"},
           main \in {"drained", "closed"} => pc \in {"read", "exit"},
           hpc' = [hpc EXCEPT ![c] = pc],
           UNCHANGED <<main, apc, acn, conns, closing, wg, backlog, cli, srv>>
    PROVE  ShutdownInv'
<1> USE DEF TypeInv, TypeOK, ShutdownInv
<1>1. \A k \in Conns : hpc'[k] = IF k = c THEN pc ELSE hpc[k]
  OBVIOUS
<1>2. OnItsWayOnce'
  BY <1>1 DEF OnItsWayOnce, Accepting, LivePCs
<1>3. Registered'
  BY <1>1 DEF Registered
<1>4. ClosedWhenClosing'
  BY DEF ClosedWhenClosing
<1>5. LateHandlersExit'
  BY <1>1 DEF LateHandlersExit
<1> QED BY <1>2, <1>3, <1>4, <1>5

LEMMA ShutdownNext == TypeInv /\ ShutdownInv /\ [Next]_vars => ShutdownInv'
<1> SUFFICES ASSUME TypeInv, ShutdownInv, [Next]_vars PROVE ShutdownInv'
  OBVIOUS
<1> USE DEF TypeInv, TypeOK, ShutdownInv, OnItsWayOnce, Registered, ClosedWhenClosing,
            LateHandlersExit, Accepting, LivePCs, acceptorVars, regVars, handlerVars,
            netVars
<1>1. ASSUME NEW c \in Conns, Dial(c) PROVE ShutdownInv'
  BY <1>1, SMTT(30) DEF Dial
<1>2. ASSUME NEW c \in Conns, NEW frame \in Frames, Send(c, frame) PROVE ShutdownInv'
  BY <1>2 DEF Send
<1>3. ASSUME NEW c \in Conns, Receive(c) PROVE ShutdownInv'
  BY <1>3 DEF Receive
<1>4. ASSUME NEW c \in Conns, ReceiveError(c) PROVE ShutdownInv'
  BY <1>4 DEF ReceiveError
<1>5. ASSUME NEW c \in Conns, Hangup(c) PROVE ShutdownInv'
  BY <1>5 DEF Hangup
<1>6. ASSUME Accept PROVE ShutdownInv'
  BY <1>6 DEF Accept
<1>7. ASSUME StopAccepting PROVE ShutdownInv'
  BY <1>7 DEF StopAccepting
<1>8. ASSUME TrackConn PROVE ShutdownInv'
  BY <1>8 DEF TrackConn
<1>9. ASSUME Refuse PROVE ShutdownInv'
  BY <1>9 DEF Refuse
<1>10. ASSUME Spawn PROVE ShutdownInv'
  BY <1>10 DEF Spawn
<1>11. ASSUME NEW c \in Conns, ReadFrame(c) PROVE ShutdownInv'
  <2>1. PICK pc \in {"exit", "has", "check", "reply"} :
           /\ hpc' = [hpc EXCEPT ![c] = pc]
           /\ ~srv[c] => pc = "exit"
    BY <1>11 DEF ReadFrame
  <2>2. main \in {"drained", "closed"} => ~srv[c]
    BY <1>11 DEF ReadFrame
  <2> QED BY <1>11, <2>1, <2>2, HandlerMoves DEF ReadFrame, HandlerOnly
<1>12. ASSUME NEW c \in Conns, Has(c) PROVE ShutdownInv'
  BY <1>12, HandlerMoves DEF Has, HandlerOnly
<1>13. ASSUME NEW c \in Conns, PutCheck(c) PROVE ShutdownInv'
  <2>1. PICK pc \in {"check", "commit", "reply"} : hpc' = [hpc EXCEPT ![c] = pc]
    BY <1>13 DEF PutCheck, CheckBlob
  <2> QED BY <1>13, <2>1, HandlerMoves DEF PutCheck, HandlerOnly
<1>14. ASSUME NEW c \in Conns, PutCommit(c) PROVE ShutdownInv'
  <2>1. PICK pc \in {"count", "reply"} : hpc' = [hpc EXCEPT ![c] = pc]
    BY <1>14 DEF PutCommit
  <2> QED BY <1>14, <2>1, HandlerMoves DEF PutCommit
<1>15. ASSUME NEW c \in Conns, PutCount(c) PROVE ShutdownInv'
  BY <1>15, HandlerMoves DEF PutCount, HandlerOnly
<1>16. ASSUME NEW c \in Conns, Reply(c) PROVE ShutdownInv'
  <2>1. PICK pc \in {"read", "exit"} : hpc' = [hpc EXCEPT ![c] = pc]
    BY <1>16 DEF Reply
  <2> QED BY <1>16, <2>1, HandlerMoves DEF Reply
<1>17. ASSUME NEW c \in Conns, UntrackConn(c) PROVE ShutdownInv'
  BY <1>17 DEF UntrackConn
<1>18. ASSUME NEW c \in Conns, CloseConn(c) PROVE ShutdownInv'
  BY <1>18 DEF CloseConn
<1>19. ASSUME CloseListener PROVE ShutdownInv'
  BY <1>19 DEF CloseListener
<1>20. ASSUME CloseTracked PROVE ShutdownInv'
  BY <1>20 DEF CloseTracked
<1>21. ASSUME WaitHandlers PROVE ShutdownInv'
  BY <1>21 DEF WaitHandlers
<1>22. ASSUME CloseDB PROVE ShutdownInv'
  BY <1>22 DEF CloseDB
<1>23. ASSUME Restart PROVE ShutdownInv'
  BY <1>23 DEF Restart
<1>24. CASE UNCHANGED vars
  BY <1>24 DEF vars
<1> QED
  BY <1>1, <1>2, <1>3, <1>4, <1>5, <1>6, <1>7, <1>8, <1>9, <1>10, <1>11, <1>12, <1>13, <1>14, <1>15, <1>16, <1>17, <1>18, <1>19, <1>20, <1>21, <1>22, <1>23, <1>24
  DEF Next, Worker, Handle, Serve, Shutdown, Terminated

\* No handler is inside a database call, or about to enter one, when the main
\* goroutine closes the database or afterwards: dbServer.shutdown makes pdb.Close
\* safe, although it does not wait for every handler.
THEOREM DatabaseNotUsedAfterClose == Spec => []NoUseAfterClose
<1>1. Init => TypeInv /\ ShutdownInv
  BY TypeInit, ShutdownInit
<1>2. TypeInv /\ ShutdownInv /\ [Next]_vars => (TypeInv /\ ShutdownInv)'
  BY TypeNext, ShutdownNext
<1>3. ShutdownInv => NoUseAfterClose
  BY DEF ShutdownInv, LateHandlersExit, NoUseAfterClose, DBOpen, DBPCs
<1> QED BY <1>1, <1>2, <1>3, PTL DEF Spec

-----------------------------------------------------------------------------
(* Acknowledgments, when no lookup and no commit fails.                     *)

\* What a handler still has to write of the PUT it serves.
Pending(c) == CASE hpc[c] = "check"  -> Range(work[c].todo) \cup Range(work[c].keep)
                [] hpc[c] = "commit" -> Range(work[c].keep)
                [] OTHER             -> {}

\* Each blob of a PUT is pending or stored until the PUT is answered.
BlobsAccounted ==
    \A c \in Conns :
        /\ hpc[c] \in {"check", "commit", "count", "reply"}
        /\ work[c].frame \in PutFrames
        => Range(work[c].frame.blobs) \subseteq Pending(c) \cup StoredCodes

\* A handler in has serves a HAS frame.
Serving == \A c \in Conns : hpc[c] = "has" => work[c].frame \notin PutFrames

AckInv == AckMeansStored /\ BlobsAccounted /\ Serving

LEMMA RangeHeadTail ==
    ASSUME NEW S, NEW s \in Seq(S), s # <<>>
    PROVE  Range(s) = {Head(s)} \cup Range(Tail(s))
<1>t. Tail(s) \in Seq(S)
  BY HeadTailProperties
<1>1. Range(s) = {s[i] : i \in 1..Len(s)} /\ Range(Tail(s)) = {Tail(s)[i] : i \in 1..Len(Tail(s))}
  BY <1>t, RangeEquality
<1>2. Len(s) \in Nat \ {0} /\ Len(Tail(s)) = Len(s) - 1
  BY HeadTailProperties, EmptySeq, LenProperties
<1>3. Head(s) = s[1] /\ \A i \in 1..Len(Tail(s)) : Tail(s)[i] = s[i+1]
  BY HeadTailProperties
<1>4. \A i \in 1..Len(s) : i = 1 \/ (i - 1 \in 1..Len(Tail(s)) /\ s[i] = Tail(s)[i - 1])
  BY <1>2, <1>3
<1>5. \A i \in 1..Len(Tail(s)) : i + 1 \in 1..Len(s)
  BY <1>2
<1>6. ASSUME NEW x \in Range(s) PROVE x \in {Head(s)} \cup Range(Tail(s))
  <2>1. PICK i \in 1..Len(s) : x = s[i]
    BY <1>1
  <2>2. CASE i = 1
    BY <1>3, <2>1, <2>2
  <2>3. CASE i - 1 \in 1..Len(Tail(s)) /\ s[i] = Tail(s)[i - 1]
    BY <1>1, <2>1, <2>3
  <2> QED BY <1>4, <2>2, <2>3
<1>7. ASSUME NEW x \in Range(Tail(s)) PROVE x \in Range(s)
  <2>1. PICK i \in 1..Len(Tail(s)) : x = Tail(s)[i]
    BY <1>1
  <2> QED BY <1>1, <1>3, <1>5, <2>1
<1>8. Head(s) \in Range(s)
  BY <1>1, <1>2, <1>3
<1> QED BY <1>6, <1>7, <1>8

LEMMA RangeAppend ==
    ASSUME NEW S, NEW s \in Seq(S), NEW e \in S
    PROVE  Range(Append(s, e)) = Range(s) \cup {e}
<1>1. Append(s, e) \in Seq(S) /\ Len(Append(s, e)) = Len(s) + 1 /\ Len(s) \in Nat
  BY AppendProperties, LenProperties
<1>2. /\ Range(s) = {s[i] : i \in 1..Len(s)}
      /\ Range(Append(s, e)) = {Append(s, e)[i] : i \in 1..(Len(s) + 1)}
  BY <1>1, RangeEquality
<1>3. \A i \in 1..Len(s) : Append(s, e)[i] = s[i]
  BY AppendProperties
<1>4. Append(s, e)[Len(s) + 1] = e
  BY AppendProperties
<1> QED BY <1>1, <1>2, <1>3, <1>4

\* put, one blob: it is kept unless it is stored; what is kept was among the blobs;
\* the handler goes on to commit only if it has kept something.
LEMMA CheckBlobAccounts ==
    ASSUME TypeInv, NEW c \in Conns, hpc[c] = "check", CheckBlob(c)
    PROVE  /\ hpc' = [hpc EXCEPT ![c] = hpc'[c]] /\ work' = [work EXCEPT ![c] = work'[c]]
           /\ hpc'[c] \in {"check", "commit", "reply"}
           /\ work'[c].frame = work[c].frame
           /\ Range(work[c].todo) \cup Range(work[c].keep) \subseteq Pending(c)' \cup StoredCodes
           /\ Pending(c)' \subseteq Range(work[c].todo) \cup Range(work[c].keep)
           /\ hpc'[c] = "commit" => work'[c].keep # <<>>
           /\ hpc'[c] # "check" => work'[c].answer = "ack"
<1> USE DEF TypeInv, TypeOK, WorkType
<1> DEFINE todo == work[c].todo
           code == Head(todo)
           rest == Tail(todo)
           keep == IF Found(makeKey[code]) THEN work[c].keep
                                           ELSE Append(work[c].keep, code)
           w    == [work[c] EXCEPT !.todo = rest, !.keep = keep,
                                   !.answer = IF rest = <<>> THEN "ack" ELSE NULL]
           pc   == IF rest # <<>> THEN "check"
                   ELSE IF keep # <<>> THEN "commit" ELSE "reply"
<1>1. todo # <<>> /\ todo \in Seq(Codes) /\ work[c].keep \in Seq(Codes)
  BY DEF HasBlobToCheck
<1>2. code \in Codes /\ rest \in Seq(Codes) /\ Range(todo) = {code} \cup Range(rest)
  BY <1>1, HeadTailProperties, RangeHeadTail
<1>3. /\ code \in Range(keep) \cup StoredCodes
      /\ Range(work[c].keep) \subseteq Range(keep)
      /\ Range(keep) \subseteq Range(work[c].keep) \cup {code}
  <2>1. CASE Found(makeKey[code])
    <3>1. PICK d \in StoredCodes : makeKey[d] = makeKey[code]
      BY <2>1 DEF Found
    <3>2. d \in Codes
      BY <3>1, LenProperties, ElementOfSeq DEF StoredCodes, CodesUpTo
    <3>3. d = code
      BY <1>2, <3>1, <3>2, HashAssumption DEF Injection, IsInjective
    <3> QED BY <2>1, <3>1, <3>3
  <2>2. CASE ~Found(makeKey[code])
    BY <1>1, <1>2, <2>2, RangeAppend
  <2> QED BY <2>1, <2>2
<1>4. hpc' = [hpc EXCEPT ![c] = pc]
  BY DEF CheckBlob
<1>5. work' = [work EXCEPT ![c] = w]
  BY DEF CheckBlob
<1>6. /\ w.frame = work[c].frame /\ w.todo = rest /\ w.keep = keep
      /\ w.answer = IF rest = <<>> THEN "ack" ELSE NULL
  OBVIOUS
<1>7. hpc'[c] = pc /\ work'[c] = w
  BY <1>4, <1>5
<1>8. Range(<<>>) = {}
  BY DEF Range
<1>9. /\ Range(rest) \cup Range(keep) \subseteq Pending(c)'
      /\ Pending(c)' \subseteq Range(rest) \cup Range(keep)
  BY <1>6, <1>7, <1>8 DEF Pending
<1>10. pc = "commit" => keep # <<>>
  OBVIOUS
<1>11. pc # "check" => w.answer = "ack"
  BY <1>6
<1>12. pc \in {"check", "commit", "reply"}
  OBVIOUS
<1> HIDE DEF w, pc
<1> QED BY <1>2, <1>3, <1>4, <1>5, <1>6, <1>7, <1>9, <1>10, <1>11, <1>12

\* A commit adds its codes and takes none away.
LEMMA CommitAdds ==
    ASSUME TypeInv, NEW S \in SUBSET Codes, log' = Append(log, S)
    PROVE  /\ StoredCodes' = StoredCodes \cup S
           /\ \A n \in 0..Len(log) : UNION {log'[i] : i \in 1..n} = CodesUpTo(n)
<1>1. log \in Seq(SUBSET Codes)
  BY DEF TypeInv, TypeOK
<1>2. /\ Len(log') = Len(log) + 1 /\ Len(log) \in Nat
      /\ \A i \in 1..Len(log) : log'[i] = log[i]
      /\ log'[Len(log) + 1] = S
  BY <1>1, AppendProperties, LenProperties
<1>3. \A n \in 0..Len(log) : \A i \in 1..n : log'[i] = log[i]
  BY <1>2
<1>4. \A i \in 1..Len(log') : i \in 1..Len(log) \/ i = Len(log) + 1
  BY <1>2
<1>5. \A i \in 1..Len(log) : i \in 1..Len(log')
  BY <1>2
<1>6. Len(log) + 1 \in 1..Len(log')
  BY <1>2
<1>7. StoredCodes' = StoredCodes \cup S
  BY <1>2, <1>4, <1>5, <1>6 DEF StoredCodes, CodesUpTo
<1> QED BY <1>3, <1>7 DEF CodesUpTo

\* A step that touches neither the handlers nor the database.
LEMMA AckUntouched ==
    ASSUME AckInv, UNCHANGED <<handlerVars, dbVars, acked, flushed>>
    PROVE  AckInv'
BY DEF AckInv, AckMeansStored, BlobsAccounted, Serving, Pending, StoredCodes,
       CodesUpTo, handlerVars, dbVars

\* A step of one handler that leaves the database and the history alone.
LEMMA AckHandler ==
    ASSUME TypeInv, AckInv, NEW c \in Conns, NEW pc, NEW w,
           hpc' = [hpc EXCEPT ![c] = pc], work' = [work EXCEPT ![c] = w],
           UNCHANGED <<dbVars, acked, flushed>>,
           pc = "has" => w.frame \notin PutFrames,
           pc \in {"check", "commit", "count", "reply"} /\ w.frame \in PutFrames
             => Range(w.frame.blobs) \subseteq Pending(c)' \cup StoredCodes
    PROVE  AckInv'
<1> USE DEF TypeInv, TypeOK
<1>1. StoredCodes' = StoredCodes /\ AckMeansStored'
  BY DEF AckInv, AckMeansStored, StoredCodes, CodesUpTo, dbVars
<1>2. ASSUME NEW k \in Conns,
             hpc'[k] \in {"check", "commit", "count", "reply"}, work'[k].frame \in PutFrames
      PROVE  Range(work'[k].frame.blobs) \subseteq Pending(k)' \cup StoredCodes
  <2>1. CASE k = c
    BY <1>2, <2>1
  <2>2. CASE k # c
    <3>1. hpc'[k] = hpc[k] /\ work'[k] = work[k]
      BY <2>2
    <3> QED BY <1>2, <3>1 DEF AckInv, BlobsAccounted, Pending
  <2> QED BY <2>1, <2>2
<1>3. Serving'
  BY DEF AckInv, Serving
<1> QED BY <1>1, <1>2, <1>3 DEF AckInv, BlobsAccounted

LEMMA AckInit == Init => AckInv
<1> SUFFICES ASSUME Init PROVE AckInv
  OBVIOUS
<1>1. AckMeansStored
  BY DEF Init, AckMeansStored
<1>2. \A c \in Conns : hpc[c] = "none"
  BY DEF Init
<1> QED BY <1>1, <1>2 DEF AckInv, BlobsAccounted, Serving

LEMMA AckNext ==
    ASSUME Faults \cap {"get", "commit"} = {}
    PROVE  TypeInv /\ AckInv /\ [Next]_vars => AckInv'
<1> SUFFICES ASSUME TypeInv, AckInv, [Next]_vars PROVE AckInv'
  OBVIOUS
<1> USE DEF TypeInv, TypeOK, WorkType
<1>1. ASSUME NEW c \in Conns, Worker(c) PROVE AckInv'
  BY <1>1, AckUntouched DEF Worker, Dial, Send, Receive, ReceiveError, Hangup, histVars
<1>2. ASSUME Accept \/ StopAccepting \/ TrackConn \/ Refuse PROVE AckInv'
  BY <1>2, AckUntouched DEF Accept, StopAccepting, TrackConn, Refuse, histVars
<1>3. ASSUME Spawn PROVE AckInv'
  <2>1. work' = [work EXCEPT ![acn] = work[acn]]
    BY <1>3 DEF Spawn
  <2> QED BY <1>3, <2>1, AckHandler DEF Spawn, histVars
<1>4. ASSUME NEW c \in Conns, ReadFrame(c) PROVE AckInv'
  <2>1. UNCHANGED <<dbVars, acked, flushed>>
    BY <1>4 DEF ReadFrame, HandlerOnly, histVars
  <2>2. CASE hpc' = [hpc EXCEPT ![c] = "exit"] /\ UNCHANGED work
    <3>1. work' = [work EXCEPT ![c] = work[c]]
      BY <2>2
    <3> QED BY <2>1, <2>2, <3>1, AckHandler
  <2>3. CASE req[c] \in Frames /\ req[c].op = "H" /\ hpc' = [hpc EXCEPT ![c] = "has"]
             /\ work' = [work EXCEPT ![c] = [NoWork EXCEPT !.frame = req[c]]]
    <3>1. [NoWork EXCEPT !.frame = req[c]].frame \notin PutFrames
      BY <2>3 DEF NoWork, PutFrames
    <3> QED BY <2>1, <2>3, <3>1, AckHandler
  <2>4. CASE req[c] \in Frames /\ req[c].op = "P" /\ hpc' = [hpc EXCEPT ![c] = "check"]
             /\ work' = [work EXCEPT ![c] = [NoWork EXCEPT !.frame = req[c],
                                                          !.todo = req[c].blobs]]
    <3> DEFINE w == [NoWork EXCEPT !.frame = req[c], !.todo = req[c].blobs]
    <3>1. w.frame = req[c] /\ w.todo = req[c].blobs
      BY DEF NoWork
    <3>2. hpc'[c] = "check" /\ work'[c] = w
      BY <2>4
    <3>3. Range(w.frame.blobs) \subseteq Pending(c)'
      BY <3>1, <3>2 DEF Pending
    <3> QED BY <2>1, <2>4, <3>3, AckHandler
  <2>5. CASE hpc' = [hpc EXCEPT ![c] = "reply"]
             /\ work' = [work EXCEPT ![c] = [NoWork EXCEPT !.answer = "ack"]]
    <3>1. [NoWork EXCEPT !.answer = "ack"].frame \notin PutFrames
      BY NullAssumption DEF NoWork, Frames
    <3> QED BY <2>1, <2>5, <3>1, AckHandler
  <2> QED BY <1>4, <2>2, <2>3, <2>4, <2>5 DEF ReadFrame
<1>5. ASSUME NEW c \in Conns, Has(c) PROVE AckInv'
  <2>1. PICK answer \in Responses : work' = [work EXCEPT ![c].answer = answer]
    BY <1>5 DEF Has, Responses
  <2>2. work' = [work EXCEPT ![c] = [work[c] EXCEPT !.answer = answer]]
    BY <2>1
  <2>3. work[c].frame \notin PutFrames
    BY <1>5 DEF Has, AckInv, Serving
  <2>4. [work[c] EXCEPT !.answer = answer].frame = work[c].frame
    OBVIOUS
  <2> QED BY <1>5, <2>2, <2>3, <2>4, AckHandler DEF Has, HandlerOnly, histVars
<1>6. ASSUME NEW c \in Conns, PutCheck(c) PROVE AckInv'
  <2>1. hpc[c] = "check" /\ CheckBlob(c)
    BY <1>6 DEF PutCheck
  <2>2. work[c].frame \in PutFrames =>
           Range(work[c].frame.blobs) \subseteq Range(work[c].todo) \cup Range(work[c].keep)
                                             \cup StoredCodes
    BY <2>1 DEF AckInv, BlobsAccounted, Pending
  <2>3. work'[c].frame \in PutFrames =>
           Range(work'[c].frame.blobs) \subseteq Pending(c)' \cup StoredCodes
    BY <2>1, <2>2, CheckBlobAccounts
  <2>4. UNCHANGED <<dbVars, acked, flushed>>
    BY <1>6 DEF PutCheck, HandlerOnly, histVars
  <2>5. PICK pc, w : /\ hpc' = [hpc EXCEPT ![c] = pc] /\ work' = [work EXCEPT ![c] = w]
                     /\ w = work'[c] /\ pc \in {"check", "commit", "reply"}
    BY <2>1, CheckBlobAccounts
  <2>6. w.frame \in PutFrames => Range(w.frame.blobs) \subseteq Pending(c)' \cup StoredCodes
    BY <2>3, <2>5
  <2>7. pc # "has"
    BY <2>5
  <2> QED BY <2>4, <2>5, <2>6, <2>7, AckHandler
<1>7. ASSUME NEW c \in Conns, PutCommit(c) PROVE AckInv'
  <2> DEFINE new == Range(work[c].keep)
  <2>1. log' = Append(log, new) /\ hpc' = [hpc EXCEPT ![c] = "count"] /\ new \in SUBSET Codes
    BY <1>7, RangeOfSeq DEF PutCommit
  <2>2. StoredCodes' = StoredCodes \cup new
    BY <2>1, CommitAdds
  <2>3. CodesUpTo(durable)' = CodesUpTo(durable)
    BY <1>7, <2>1, CommitAdds DEF PutCommit, CodesUpTo
  <2>4. AckMeansStored'
    BY <1>7, <2>2, <2>3 DEF PutCommit, AckInv, AckMeansStored, histVars
  <2>5. ASSUME NEW k \in Conns,
               hpc'[k] \in {"check", "commit", "count", "reply"}, work'[k].frame \in PutFrames
        PROVE  Range(work'[k].frame.blobs) \subseteq Pending(k)' \cup StoredCodes'
    <3>1. work' = work
      BY <1>7 DEF PutCommit
    <3>2. CASE k = c
      <4>1. Range(work[c].frame.blobs) \subseteq new \cup StoredCodes
        BY <1>7, <2>5, <3>1, <3>2 DEF PutCommit, AckInv, BlobsAccounted, Pending
      <4> QED BY <2>2, <3>1, <3>2, <4>1
    <3>3. CASE k # c
      <4>1. hpc'[k] = hpc[k] /\ Pending(k)' = Pending(k)
        BY <2>1, <3>1, <3>3 DEF Pending
      <4> QED BY <2>2, <2>5, <3>1, <4>1 DEF AckInv, BlobsAccounted
    <3> QED BY <3>2, <3>3
  <2>6. Serving'
    BY <1>7, <2>1 DEF PutCommit, AckInv, Serving
  <2> QED BY <2>4, <2>5, <2>6 DEF AckInv, BlobsAccounted
<1>8. ASSUME NEW c \in Conns, PutCount(c) PROVE AckInv'
  <2>1. work' = [work EXCEPT ![c] = work[c]]
    BY <1>8 DEF PutCount
  <2>2. Pending(c) = {}
    BY <1>8 DEF PutCount, Pending
  <2>3. work[c].frame \in PutFrames => Range(work[c].frame.blobs) \subseteq StoredCodes
    BY <1>8, <2>2 DEF PutCount, AckInv, BlobsAccounted
  <2> QED BY <1>8, <2>1, <2>3, AckHandler DEF PutCount, HandlerOnly, histVars
<1>9. ASSUME NEW c \in Conns, Reply(c) PROVE AckInv'
  <2>1. Pending(c) = {}
    BY <1>9 DEF Reply, Pending
  <2>2. work[c].frame \in PutFrames => Range(work[c].frame.blobs) \subseteq StoredCodes
    BY <1>9, <2>1 DEF Reply, AckInv, BlobsAccounted
  <2>3. acked' \subseteq StoredCodes
    BY <1>9, <2>2 DEF Reply, AckInv, AckMeansStored
  <2>4. StoredCodes' = StoredCodes /\ CodesUpTo(durable)' = CodesUpTo(durable) /\ flushed' = flushed
    BY <1>9 DEF Reply, StoredCodes, CodesUpTo, dbVars
  <2>5. hpc'[c] \in {"read", "exit"} /\ \A k \in Conns \ {c} : hpc'[k] = hpc[k] /\ work'[k] = work[k]
    BY <1>9 DEF Reply
  <2>6. \A k \in Conns \ {c} : Pending(k)' = Pending(k)
    BY <2>5 DEF Pending
  <2>7. BlobsAccounted'
    BY <2>4, <2>5, <2>6 DEF AckInv, BlobsAccounted
  <2>8. Serving'
    BY <2>5 DEF AckInv, Serving
  <2> QED BY <2>3, <2>4, <2>7, <2>8 DEF AckInv, AckMeansStored
<1>10. ASSUME NEW c \in Conns, UntrackConn(c) \/ CloseConn(c) PROVE AckInv'
  <2>1. PICK pc \in {"closeConn", "done"} :
          hpc' = [hpc EXCEPT ![c] = pc] /\ work' = [work EXCEPT ![c] = work[c]]
    BY <1>10 DEF UntrackConn, CloseConn
  <2> QED BY <1>10, <2>1, AckHandler DEF UntrackConn, CloseConn, histVars
<1>11. ASSUME CloseListener \/ CloseTracked \/ WaitHandlers PROVE AckInv'
  BY <1>11, AckUntouched DEF CloseListener, CloseTracked, WaitHandlers, histVars
<1>12. ASSUME CloseDB PROVE AckInv'
  <2>1. UNCHANGED <<log, acked, handlerVars>>
    BY <1>12 DEF CloseDB
  <2>2. StoredCodes' = StoredCodes
    BY <2>1 DEF StoredCodes, CodesUpTo
  <2>3. ASSUME durable' = Len(log) /\ flushed' = acked PROVE AckMeansStored'
    BY <2>1, <2>3 DEF AckInv, AckMeansStored, StoredCodes, CodesUpTo
  <2>4. ASSUME UNCHANGED <<durable, flushed>> PROVE AckMeansStored'
    BY <2>1, <2>4 DEF AckInv, AckMeansStored, StoredCodes, CodesUpTo
  <2>5. AckMeansStored'
    BY <1>12, <2>3, <2>4 DEF CloseDB
  <2> QED BY <2>1, <2>2, <2>5 DEF AckInv, BlobsAccounted, Serving, Pending, handlerVars
<1>13. ASSUME Restart PROVE AckInv'
  <2>1. PICK n \in durable..Len(log) : log' = SubSeq(log, 1, n) /\ durable' = n
    BY <1>13 DEF Restart
  <2>2. /\ log \in Seq(SUBSET Codes) /\ n \in Nat /\ 1..durable \subseteq 1..n
        /\ \A i \in 1..n : log[i] \in SUBSET Codes
    BY <2>1, LenProperties, ElementOfSeq
  <2>3. Len(log') = n /\ \A i \in 1..n : log'[i] = log[i]
    BY <2>1, <2>2, SubSeqProperties
  <2>4. StoredCodes' = CodesUpTo(n) /\ CodesUpTo(durable)' = CodesUpTo(n)
    BY <2>1, <2>3 DEF StoredCodes, CodesUpTo
  <2>5. CodesUpTo(durable) \subseteq CodesUpTo(n)
    BY <2>2 DEF CodesUpTo
  <2>6. AckMeansStored'
    <3>1. acked' = flushed /\ flushed' = flushed
      BY <1>13 DEF Restart
    <3> QED BY <2>4, <2>5, <3>1 DEF AckInv, AckMeansStored
  <2>7. \A c \in Conns : hpc'[c] = "none"
    BY <1>13 DEF Restart
  <2> QED BY <2>6, <2>7 DEF AckInv, BlobsAccounted, Serving
<1>14. CASE UNCHANGED vars
  BY <1>14, AckUntouched DEF vars, histVars
<1> QED
  BY <1>1, <1>2, <1>3, <1>4, <1>5, <1>6, <1>7, <1>8, <1>9, <1>10, <1>11, <1>12, <1>13, <1>14
  DEF Next, Handle, Serve, Shutdown, Terminated

\* If lookups and commits do not fail, an acknowledged code is in the database, and
\* every code acknowledged before a clean close survives whatever follows, crashes
\* included.
THEOREM AcknowledgedIsStored ==
    ASSUME Faults \cap {"get", "commit"} = {}
    PROVE  Spec => []AckMeansStored
<1>1. Init => TypeInv /\ AckInv
  BY TypeInit, AckInit
<1>2. TypeInv /\ AckInv /\ [Next]_vars => (TypeInv /\ AckInv)'
  BY TypeNext, AckNext
<1> QED BY <1>1, <1>2, PTL DEF Spec, AckInv

-----------------------------------------------------------------------------
(* The statistics.  A handler counts what it received blob by blob, and    *)
(* what it stored after the commit, of all blobs at once: other handlers   *)
(* and the main goroutine can be seen in between.                          *)

Holding == {"check", "commit", "count"}

\* The codes that are committed and not yet counted, and the blobs that handlers have
\* received, kept and not yet counted as stored, each with its handler.
Uncounted == UNION {Range(work[c].keep) : c \in {k \in Conns : hpc[k] = "count"}}
InHand    == {b \in Conns \X (Nat \ {0}) :
                hpc[b[1]] \in Holding /\ b[2] <= Len(work[b[1]].keep)}

\* Only codes that are not yet counted are missing in stored; and every blob that is kept
\* or counted has been received.
StatsInv ==
    /\ IsFiniteSet(NewCodes \ Uncounted) /\ Cardinality(NewCodes \ Uncounted) <= stored
    /\ IsFiniteSet(InHand) /\ Cardinality(InHand) + stored <= received

LEMMA RangeIsSmall ==
    ASSUME NEW S, NEW s \in Seq(S)
    PROVE  IsFiniteSet(Range(s)) /\ Cardinality(Range(s)) <= Len(s)
<1>1. Len(s) \in Nat /\ s \in [1..Len(s) -> S]
  BY LenProperties
<1>2. IsFiniteSet(1..Len(s)) /\ Cardinality(1..Len(s)) = Len(s)
  <2>1. 1 \in Int /\ Len(s) \in Int
    BY <1>1
  <2> QED BY <1>1, <2>1, FS_Interval
<1>3. s \in Surjection(1..Len(s), Range(s))
  BY <1>1 DEF Surjection, Range
<1> QED BY <1>2, <1>3, FS_Surjection

\* Subsets have no more elements.
LEMMA SmallerSet ==
    ASSUME NEW S, NEW T, IsFiniteSet(S), T \subseteq S
    PROVE  /\ IsFiniteSet(T) /\ Cardinality(T) \in Nat /\ Cardinality(S) \in Nat
           /\ Cardinality(T) <= Cardinality(S)
BY FS_Subset, FS_CardinalityType

\* One more element.
LEMMA OneMore ==
    ASSUME NEW S, NEW x, IsFiniteSet(S)
    PROVE  /\ IsFiniteSet(S \cup {x}) /\ Cardinality(S) \in Nat
           /\ Cardinality(S \cup {x}) <= Cardinality(S) + 1
<1>1. Cardinality(S) \in Nat
  BY FS_CardinalityType
<1>2. /\ IsFiniteSet(S \cup {x})
      /\ Cardinality(S \cup {x}) = IF x \in S THEN Cardinality(S) ELSE Cardinality(S) + 1
  BY FS_AddElement
<1> QED BY <1>1, <1>2

\* When no code joins those that are neither counted nor to be counted.
LEMMA StillCounted ==
    ASSUME TypeInv, StatsInv, NewCodes' \ Uncounted' \subseteq NewCodes \ Uncounted
    PROVE  IsFiniteSet(NewCodes' \ Uncounted') /\ Cardinality(NewCodes' \ Uncounted') <= stored
<1> DEFINE S == NewCodes \ Uncounted
           T == NewCodes' \ Uncounted'
<1>1. stored \in Nat /\ IsFiniteSet(S) /\ Cardinality(S) <= stored /\ T \subseteq S
  BY DEF TypeInv, TypeOK, StatsInv
<1> HIDE DEF S, T
<1>2. IsFiniteSet(T) /\ Cardinality(T) \in Nat /\ Cardinality(S) \in Nat
      /\ Cardinality(T) <= Cardinality(S)
  BY <1>1, SmallerSet
<1>3. IsFiniteSet(T) /\ Cardinality(T) <= stored
  BY <1>1, <1>2
<1> QED BY <1>3 DEF T

\* A step that commits nothing and counts at most what it receives.
LEMMA StatsKept ==
    ASSUME TypeInv, StatsInv,
           UNCHANGED <<log, durable, stored>>, received' \in Nat, received <= received',
           \A k \in Conns : hpc[k] = "count" => hpc'[k] = "count" /\ work'[k] = work[k],
           \A k \in Conns : hpc'[k] \in Holding =>
               \/ hpc[k] \in Holding /\ work'[k].keep = work[k].keep
               \/ work'[k].keep = <<>>
    PROVE  StatsInv'
<1>1. NewCodes' = NewCodes
  BY DEF NewCodes, StoredCodes, CodesUpTo
<1>2. Uncounted \subseteq Uncounted'
  BY DEF Uncounted
<1>3. NewCodes' \ Uncounted' \subseteq NewCodes \ Uncounted
  BY <1>1, <1>2
<1>4. InHand' \subseteq InHand
  BY DEF InHand
<1>5. /\ IsFiniteSet(NewCodes' \ Uncounted') /\ Cardinality(NewCodes' \ Uncounted') <= stored
      /\ IsFiniteSet(InHand') /\ Cardinality(InHand') + stored <= received
  <2>1. stored \in Nat /\ received \in Nat
    BY DEF TypeInv, TypeOK
  <2>2. /\ IsFiniteSet(InHand') /\ Cardinality(InHand') \in Nat
        /\ Cardinality(InHand') <= Cardinality(InHand) /\ Cardinality(InHand) \in Nat
    BY <1>4, SmallerSet DEF StatsInv
  <2> QED BY <1>3, <2>1, <2>2, StillCounted DEF StatsInv
<1>6. Cardinality(InHand') \in Nat
  BY <1>4, SmallerSet DEF StatsInv
<1> QED BY <1>5, <1>6 DEF StatsInv, TypeInv, TypeOK

\* put has received one more blob, and may keep it.
LEMMA StatsCheck ==
    ASSUME TypeInv, StatsInv, NEW c \in Conns, PutCheck(c), CheckBlob(c)
    PROVE  StatsInv'
<1> DEFINE keep == work[c].keep
           n    == Len(keep)
<1>1. /\ hpc[c] = "check" /\ received' = received + 1
      /\ UNCHANGED <<log, durable, stored>> /\ received \in Nat /\ stored \in Nat
      /\ \A k \in Conns \ {c} : hpc'[k] = hpc[k] /\ work'[k] = work[k]
  BY DEF PutCheck, CheckBlob, HandlerOnly, dbVars, TypeInv, TypeOK
<1>2. keep \in Seq(Codes) /\ n \in Nat
  BY LenProperties DEF TypeInv, TypeOK
<1>3. work'[c].keep = keep \/ \E code : work'[c].keep = Append(keep, code)
  <2> DEFINE rest == Tail(work[c].todo)
             kept == IF Found(makeKey[Head(work[c].todo)])
                       THEN keep ELSE Append(keep, Head(work[c].todo))
             w    == [work[c] EXCEPT !.todo = rest, !.keep = kept,
                                     !.answer = IF rest = <<>> THEN "ack" ELSE NULL]
  <2>1. work' = [work EXCEPT ![c] = w]
    BY DEF CheckBlob
  <2>2. work \in [Conns -> WorkType]
    BY DEF TypeInv, TypeOK, WorkType
  <2>3. w.keep = kept
    BY <2>2 DEF WorkType
  <2> HIDE DEF w
  <2>4. work'[c] = w
    BY <2>1, <2>2
  <2> QED BY <2>3, <2>4
<1>4. Len(work'[c].keep) \in {n, n + 1}
  <2>1. CASE work'[c].keep = keep
    BY <2>1
  <2>2. ASSUME NEW code, work'[c].keep = Append(keep, code) PROVE Len(work'[c].keep) = n + 1
    BY <1>2, <2>2
  <2> QED BY <1>3, <2>1, <2>2
<1>5. hpc'[c] # "count"
  BY DEF CheckBlob, TypeInv, TypeOK
<1> HIDE DEF keep, n
<1>6. NewCodes' = NewCodes /\ Uncounted' = Uncounted
  BY <1>1, <1>5 DEF NewCodes, StoredCodes, CodesUpTo, Uncounted
<1>7. InHand' \subseteq InHand \cup {<<c, n + 1>>}
  <2> SUFFICES ASSUME NEW k \in Conns, NEW i \in Nat \ {0}, hpc'[k] \in Holding,
                      i <= Len(work'[k].keep)
               PROVE  <<k, i>> \in InHand \cup {<<c, n + 1>>}
    BY DEF InHand
  <2>1. CASE k # c
    BY <1>1, <2>1 DEF InHand
  <2>2. CASE k = c /\ i <= n
    BY <1>1, <2>2 DEF InHand, Holding, n, keep
  <2>3. CASE k = c /\ ~(i <= n)
    BY <1>2, <1>4, <2>3
  <2> QED BY <2>1, <2>2, <2>3
<1>8. /\ IsFiniteSet(InHand \cup {<<c, n + 1>>})
      /\ Cardinality(InHand \cup {<<c, n + 1>>}) <= Cardinality(InHand) + 1
      /\ Cardinality(InHand) \in Nat
  <2>1. IsFiniteSet(InHand)
    BY DEF StatsInv
  <2> QED BY <2>1, OneMore
<1>9. IsFiniteSet(InHand') /\ Cardinality(InHand') <= Cardinality(InHand) + 1
      /\ Cardinality(InHand') \in Nat
  BY <1>7, <1>8, SmallerSet
<1> QED BY <1>1, <1>6, <1>8, <1>9 DEF StatsInv

\* SetBatch: what is committed is uncounted until put has counted it.
LEMMA StatsCommit ==
    ASSUME TypeInv, StatsInv, NEW c \in Conns, PutCommit(c),
           log' = Append(log, Range(work[c].keep)), hpc' = [hpc EXCEPT ![c] = "count"]
    PROVE  StatsInv'
<1> DEFINE new == Range(work[c].keep)
<1>1. UNCHANGED <<work, stored, received, durable>> /\ hpc[c] = "commit"
  BY DEF PutCommit, countVars
<1>2. new \in SUBSET Codes
  BY RangeOfSeq DEF TypeInv, TypeOK
<1>3. StoredCodes' = StoredCodes \cup new /\ CodesUpTo(durable)' = CodesUpTo(durable)
  BY <1>1, <1>2, CommitAdds DEF CodesUpTo, TypeInv, TypeOK
<1>4. hpc'[c] = "count" /\ \A k \in Conns \ {c} : hpc'[k] = hpc[k]
  BY DEF TypeInv, TypeOK
<1>5. Uncounted \cup new \subseteq Uncounted'
  BY <1>1, <1>4 DEF Uncounted
<1> HIDE DEF new
<1>6. NewCodes' \ Uncounted' \subseteq NewCodes \ Uncounted
  BY <1>3, <1>5 DEF NewCodes
<1>7. InHand' = InHand
  BY <1>1, <1>4 DEF InHand, Holding
<1>8. IsFiniteSet(NewCodes' \ Uncounted') /\ Cardinality(NewCodes' \ Uncounted') <= stored
  BY <1>6, StillCounted
<1> QED BY <1>1, <1>7, <1>8 DEF StatsInv

\* put counts what it has committed.
LEMMA StatsCount ==
    ASSUME TypeInv, StatsInv, NEW c \in Conns, PutCount(c)
    PROVE  StatsInv'
<1> DEFINE keep  == work[c].keep
           n     == Len(keep)
           mine  == {c} \X (1..n)
           rest  == NewCodes \ Uncounted
<1>1. /\ hpc[c] = "count" /\ stored' = stored + n
      /\ UNCHANGED <<work, log, durable, received>> /\ received \in Nat /\ stored \in Nat
      /\ hpc'[c] = "reply" /\ \A k \in Conns \ {c} : hpc'[k] = hpc[k]
  BY DEF PutCount, HandlerOnly, dbVars, TypeInv, TypeOK
<1>2. keep \in Seq(Codes) /\ n \in Nat
  BY LenProperties DEF TypeInv, TypeOK
<1>3. IsFiniteSet(Range(keep)) /\ Cardinality(Range(keep)) <= n
  BY <1>2, RangeIsSmall
<1>4. NewCodes' \ Uncounted' \subseteq rest \cup Range(keep)
  <2>1. NewCodes' = NewCodes
    BY <1>1 DEF NewCodes, StoredCodes, CodesUpTo
  <2>2. Uncounted \subseteq Uncounted' \cup Range(keep)
    BY <1>1 DEF Uncounted
  <2> QED BY <2>1, <2>2
<1>5. mine \subseteq InHand /\ InHand' \subseteq InHand \ mine
  <2>1. mine \subseteq InHand
    BY <1>1, <1>2 DEF InHand, Holding
  <2>2. ASSUME NEW k \in Conns, NEW i \in Nat \ {0}, hpc'[k] \in Holding, i <= Len(work'[k].keep)
        PROVE  <<k, i>> \in InHand \ mine
    <3>1. k # c
      BY <1>1, <2>2 DEF Holding
    <3> QED BY <1>1, <2>2, <3>1 DEF InHand
  <2> HIDE DEF mine
  <2> QED BY <2>1, <2>2 DEF InHand
<1>6. IsFiniteSet(mine) /\ Cardinality(mine) = n
  <2>1. IsFiniteSet(1..n) /\ Cardinality(1..n) = n
    <3>1. 1 \in Int /\ n \in Int
      BY <1>2
    <3> QED BY <1>2, <3>1, FS_Interval
  <2>2. IsFiniteSet({c}) /\ Cardinality({c}) = 1
    BY FS_Singleton
  <2>3. IsFiniteSet(mine) /\ Cardinality(mine) = 1 * Cardinality(1..n)
    BY <2>1, <2>2, FS_Product
  <2> QED BY <1>2, <2>1, <2>3
<1> HIDE DEF keep, n, mine, rest
<1>7. IsFiniteSet(NewCodes' \ Uncounted') /\ Cardinality(NewCodes' \ Uncounted') <= stored'
  <2>1. IsFiniteSet(rest) /\ Cardinality(rest) <= stored /\ Cardinality(rest) \in Nat
    BY FS_CardinalityType DEF StatsInv, rest
  <2>2. /\ IsFiniteSet(rest \cup Range(keep))
        /\ Cardinality(rest \cup Range(keep)) =
              Cardinality(rest) + Cardinality(Range(keep)) - Cardinality(rest \cap Range(keep))
    BY <1>3, <2>1, FS_Union
  <2>3. /\ Cardinality(Range(keep)) \in Nat /\ Cardinality(rest \cap Range(keep)) \in Nat
        /\ Cardinality(rest \cup Range(keep)) \in Nat
    BY <1>3, <2>1, <2>2, FS_Intersection, FS_CardinalityType
  <2>4. Cardinality(rest \cup Range(keep)) <= stored'
    BY <1>1, <1>2, <1>3, <2>1, <2>2, <2>3
  <2>5. /\ IsFiniteSet(NewCodes' \ Uncounted')
        /\ Cardinality(NewCodes' \ Uncounted') \in Nat
        /\ Cardinality(NewCodes' \ Uncounted') <= Cardinality(rest \cup Range(keep))
    BY <1>4, <2>2, SmallerSet
  <2> QED BY <1>1, <1>2, <2>3, <2>4, <2>5
<1>8. IsFiniteSet(InHand') /\ Cardinality(InHand') + stored' <= received'
  <2>1. IsFiniteSet(InHand) /\ Cardinality(InHand) \in Nat
        /\ Cardinality(InHand) + stored <= received
    BY FS_CardinalityType DEF StatsInv
  <2>2. IsFiniteSet(InHand \ mine) /\ Cardinality(InHand \ mine) = Cardinality(InHand) - n
    <3>1. InHand \cap mine = mine
      BY <1>5
    <3>2. Cardinality(InHand \cap mine) = n
      BY <1>6, <3>1
    <3> QED BY <2>1, <3>2, FS_Difference
  <2>3. /\ IsFiniteSet(InHand') /\ Cardinality(InHand') \in Nat
        /\ Cardinality(InHand') <= Cardinality(InHand \ mine)
    BY <1>5, <2>2, SmallerSet
  <2> QED BY <1>1, <1>2, <2>1, <2>2, <2>3
<1> QED BY <1>7, <1>8 DEF StatsInv

\* The database is closed, or the process starts: nothing is new any more.
LEMMA StatsNothingNew ==
    ASSUME StoredCodes' = CodesUpTo(durable)', InHand' = {}, stored' = 0, received' = 0
    PROVE  StatsInv'
<1>1. NewCodes' \ Uncounted' = {}
  BY DEF NewCodes
<1> QED BY <1>1, FS_EmptySet DEF StatsInv

LEMMA StatsInit == Init => StatsInv
<1> SUFFICES ASSUME Init PROVE StatsInv
  OBVIOUS
<1>1. StoredCodes = CodesUpTo(durable)
  BY DEF Init, StoredCodes, CodesUpTo
<1>2. NewCodes \ Uncounted = {} /\ InHand = {}
  BY <1>1 DEF Init, NewCodes, InHand, Holding
<1>3. stored = 0 /\ received = 0
  BY DEF Init
<1> QED BY <1>2, <1>3, FS_EmptySet DEF StatsInv

LEMMA StatsNext == TypeInv /\ ShutdownInv /\ StatsInv /\ [Next]_vars => StatsInv'
<1> SUFFICES ASSUME TypeInv, ShutdownInv, StatsInv, [Next]_vars PROVE StatsInv'
  OBVIOUS
<1> DEFINE Quiet == UNCHANGED <<hpc, work, log, durable, stored, received>>
<1>1. stored \in Nat /\ received \in Nat /\ hpc \in [Conns -> LivePCs \cup {"none", "done"}]
      /\ work \in [Conns -> WorkType]
  BY DEF TypeInv, TypeOK, WorkType
<1>2. CASE Quiet
  <2>1. NewCodes' = NewCodes /\ Uncounted' = Uncounted /\ InHand' = InHand
    BY <1>2 DEF NewCodes, StoredCodes, CodesUpTo, Uncounted, InHand
  <2> QED BY <1>2, <2>1 DEF StatsInv
<1>3. ASSUME NEW c \in Conns, Worker(c) PROVE Quiet
  BY <1>3 DEF Worker, Dial, Send, Receive, ReceiveError, Hangup, handlerVars, dbVars, countVars
<1>4. ASSUME Accept \/ StopAccepting \/ TrackConn \/ Refuse PROVE Quiet
  BY <1>4 DEF Accept, StopAccepting, TrackConn, Refuse, handlerVars, dbVars, countVars
<1>5. ASSUME CloseListener \/ CloseTracked \/ WaitHandlers PROVE Quiet
  BY <1>5 DEF CloseListener, CloseTracked, WaitHandlers, handlerVars, dbVars, countVars
<1>6. ASSUME NEW c \in Conns, NEW pc, UNCHANGED <<log, durable, stored, received>>,
             hpc' = [hpc EXCEPT ![c] = pc], pc \notin Holding, hpc[c] # "count",
             \A k \in Conns \ {c} : work'[k] = work[k]
      PROVE  StatsInv'
  <2>1. \A k \in Conns : hpc'[k] = IF k = c THEN pc ELSE hpc[k]
    BY <1>1, <1>6
  <2> QED BY <1>1, <1>6, <2>1, StatsKept
<1>7. CASE Spawn
  <2>1. acn \in Conns /\ hpc[acn] # "count"
    BY <1>7 DEF Spawn, TypeInv, TypeOK, ShutdownInv, OnItsWayOnce, Accepting
  <2> QED BY <1>6, <1>7, <2>1 DEF Spawn, dbVars, countVars, Holding
<1>8. ASSUME NEW c \in Conns, ReadFrame(c) PROVE StatsInv'
  <2>1. /\ UNCHANGED <<log, durable, stored, received>> /\ hpc[c] = "read"
        /\ \A k \in Conns \ {c} : work'[k] = work[k] /\ hpc'[k] = hpc[k]
    <3>1. UNCHANGED <<log, durable, stored, received>> /\ hpc[c] = "read"
      BY <1>8 DEF ReadFrame, HandlerOnly, dbVars, countVars
    <3>2. \E pc, w : hpc' = [hpc EXCEPT ![c] = pc] /\ work' = [work EXCEPT ![c] = w]
      <4>1. work = [work EXCEPT ![c] = work[c]]
        BY <1>1
      <4> QED BY <1>8, <4>1, Zenon DEF ReadFrame
    <3> QED BY <1>1, <3>1, <3>2
  <2>2. hpc'[c] \in Holding => work'[c].keep = <<>>
    BY <1>1, <1>8 DEF ReadFrame, NoWork, Holding
  <2>3. \A k \in Conns : hpc[k] = "count" => hpc'[k] = "count" /\ work'[k] = work[k]
    BY <2>1
  <2> QED BY <1>1, <2>1, <2>2, <2>3, StatsKept
<1>9. ASSUME NEW c \in Conns, Has(c) PROVE StatsInv'
  <2>1. /\ UNCHANGED <<log, durable, stored, received>> /\ hpc[c] = "has"
        /\ \A k \in Conns \ {c} : work'[k] = work[k]
        /\ hpc' = [hpc EXCEPT ![c] = "reply"]
    BY <1>9 DEF Has, HandlerOnly, dbVars, countVars
  <2> QED BY <1>6, <2>1 DEF Holding
<1>10. ASSUME NEW c \in Conns, PutCheck(c) PROVE StatsInv'
  <2>1. CASE CheckBlob(c)
    BY <1>10, <2>1, StatsCheck
  <2>2. CASE work' = [work EXCEPT ![c].answer = "ack"] /\ hpc' = [hpc EXCEPT ![c] = "reply"]
    <3>1. /\ UNCHANGED <<log, durable, stored>> /\ received' = received + 1 /\ hpc[c] = "check"
          /\ \A k \in Conns \ {c} : work'[k] = work[k] /\ hpc'[k] = hpc[k]
          /\ hpc'[c] = "reply"
      BY <1>1, <1>10, <2>2 DEF PutCheck, HandlerOnly, dbVars
    <3>2. received' \in Nat /\ received <= received'
      BY <1>1, <3>1
    <3>3. \A k \in Conns : hpc[k] = "count" => hpc'[k] = "count" /\ work'[k] = work[k]
      BY <3>1
    <3>4. \A k \in Conns : hpc'[k] \in Holding =>
              hpc[k] \in Holding /\ work'[k].keep = work[k].keep
      BY <3>1 DEF Holding
    <3> QED BY <3>1, <3>2, <3>3, <3>4, StatsKept
  <2> QED BY <1>10, <2>1, <2>2 DEF PutCheck
<1>11. ASSUME NEW c \in Conns, PutCommit(c) PROVE StatsInv'
  <2>1. CASE log' = Append(log, Range(work[c].keep)) /\ hpc' = [hpc EXCEPT ![c] = "count"]
    BY <1>11, <2>1, StatsCommit
  <2>2. CASE hpc' = [hpc EXCEPT ![c] = "reply"] /\ UNCHANGED log
    <3>1. UNCHANGED <<log, durable, stored, received, work>> /\ hpc[c] = "commit"
      BY <1>11, <2>2 DEF PutCommit, countVars
    <3> QED BY <1>6, <2>2, <3>1 DEF Holding
  <2> QED BY <1>11, <2>1, <2>2 DEF PutCommit
<1>12. ASSUME NEW c \in Conns, PutCount(c) PROVE StatsInv'
  BY <1>12, StatsCount
<1>13. ASSUME NEW c \in Conns, Reply(c) PROVE StatsInv'
  <2>1. /\ UNCHANGED <<log, durable, stored, received>> /\ hpc[c] = "reply"
        /\ work' = [work EXCEPT ![c] = NoWork]
        /\ hpc' = [hpc EXCEPT ![c] = "read"] \/ hpc' = [hpc EXCEPT ![c] = "exit"]
    BY <1>13 DEF Reply, dbVars, countVars
  <2>2. \A k \in Conns \ {c} : work'[k] = work[k]
    BY <1>1, <2>1
  <2> QED BY <1>6, <2>1, <2>2 DEF Holding
<1>14. ASSUME NEW c \in Conns, UntrackConn(c) \/ CloseConn(c) PROVE StatsInv'
  <2>1. /\ UNCHANGED <<log, durable, stored, received, work>>
        /\ hpc[c] \in {"exit", "closeConn"}
        /\ hpc' = [hpc EXCEPT ![c] = "closeConn"] \/ hpc' = [hpc EXCEPT ![c] = "done"]
    BY <1>14 DEF UntrackConn, CloseConn, dbVars, countVars
  <2> QED BY <1>6, <2>1 DEF Holding
<1>15. CASE CloseDB
  <2>1. UNCHANGED <<hpc, work, log, stored, received>>
        /\ (durable' = Len(log) \/ durable' = durable)
    BY <1>15 DEF CloseDB, handlerVars, countVars
  <2>2. CASE durable' = durable
    BY <1>2, <2>1, <2>2
  <2>3. CASE durable' = Len(log)
    <3>1. NewCodes' = {}
      BY <2>1, <2>3 DEF NewCodes, StoredCodes, CodesUpTo
    <3>2. NewCodes' \ Uncounted' \subseteq NewCodes \ Uncounted
      BY <3>1
    <3>3. InHand' = InHand
      BY <2>1 DEF InHand
    <3>4. IsFiniteSet(NewCodes' \ Uncounted') /\ Cardinality(NewCodes' \ Uncounted') <= stored
      BY <3>2, StillCounted
    <3>5. stored' = stored /\ received' = received
      BY <2>1
    <3> QED BY <3>3, <3>4, <3>5 DEF StatsInv
  <2> QED BY <2>1, <2>2, <2>3
<1>16. CASE Restart
  <2>1. PICK n \in durable..Len(log) : log' = SubSeq(log, 1, n) /\ durable' = n
    BY <1>16 DEF Restart
  <2>2. log \in Seq(SUBSET Codes) /\ n \in 0..Len(log)
    BY <2>1, LenProperties DEF TypeInv, TypeOK
  <2>3. Len(log') = n
    BY <2>1, <2>2, SubSeqProperties
  <2>4. StoredCodes' = CodesUpTo(durable)'
    BY <2>1, <2>3 DEF StoredCodes, CodesUpTo
  <2>5. InHand' = {} /\ stored' = 0 /\ received' = 0
    BY <1>16 DEF Restart, InHand, Holding
  <2> QED BY <2>4, <2>5, StatsNothingNew
<1>17. ASSUME UNCHANGED vars PROVE Quiet
  BY <1>17 DEF vars, handlerVars, dbVars, countVars
<1> QED
  BY <1>2, <1>3, <1>4, <1>5, <1>7, <1>8, <1>9, <1>10, <1>11, <1>12, <1>13, <1>14, <1>15,
     <1>16, <1>17
  DEF Next, Handle, Serve, Shutdown, Terminated

\* The summary line never reports more stored codes than blobs received, and when generate
\* prints it each code that the run added has been counted, although a handler counts
\* after its commit and shutdown does not wait for every handler.
THEOREM StatsAreComplete == Spec => []StatsCoverNewCodes
<1>1. Init => TypeInv /\ ShutdownInv /\ StatsInv
  BY TypeInit, ShutdownInit, StatsInit
<1>2. TypeInv /\ ShutdownInv /\ StatsInv /\ [Next]_vars => (TypeInv /\ ShutdownInv /\ StatsInv)'
  BY TypeNext, ShutdownNext, StatsNext
<1>3. ASSUME TypeInv, ShutdownInv, StatsInv PROVE StatsCoverNewCodes
  <2>1. stored \in Nat /\ received \in Nat /\ Cardinality(InHand) \in Nat
    BY <1>3, FS_CardinalityType DEF TypeInv, TypeOK, StatsInv
  <2>2. ASSUME main = "drained" PROVE Uncounted = {}
    BY <1>3, <2>2 DEF ShutdownInv, LateHandlersExit, Uncounted
  <2>3. ASSUME main = "drained" PROVE NewCodes \ Uncounted = NewCodes
    BY <2>2, <2>3
  <2> QED BY <1>3, <2>1, <2>3 DEF StatsInv, StatsCoverNewCodes
<1> QED BY <1>1, <1>2, <1>3, PTL DEF Spec
=============================================================================
