-------------------------- MODULE DBCommandsProofs --------------------------
(***************************************************************************)
(* Theorems about the commands of fuzzyvm-db.  Generate: types, no write   *)
(* is lost to a signal, nothing is left open, and a run without signals    *)
(* reports what failed, for any number of signals.  Replay: each code is   *)
(* replayed once, the counters are right, nobody is blocked for ever by a  *)
(* code that is given up, and a summary is of this replay, for any number  *)
(* of codes, workers and places in the channel.                            *)
(***************************************************************************)
EXTENDS DBCommands, FiniteSetTheorems, TLAPS

\* A process runs one command: what is proved of a command holds of the program.
THEOREM CommandsRunAlone == DSpec => Spec /\ RSpec
<1>1. DInit => Init /\ RInit
  BY DEF DInit
<1>2. [DNext]_dvars => [Next]_vars /\ [RNext]_rvars
  BY DEF DNext, Running, dvars
<1> QED BY <1>1, <1>2, PTL DEF DSpec, Spec, RSpec

-----------------------------------------------------------------------------
(* generate.                                                               *)

USE DEF Ended, Quiet, FailStart

\* From Notify to the return of generate the signals go to the channel.
Supervising == {"start", "wait", "shutdown", "closeDB", "report", "deferred"}

SignalInv ==
    /\ installed <=> main \in Supervising
    /\ unflushed => main \in Supervising \cup {"returned"}

\* What is open at each step of the way up and down.
Holds(pc) ==
    (IF pc \in {"mkdirTemp", "listen", "notify", "start", "wait", "shutdown", "closeDB"}
       THEN {"db"} ELSE {})
    \cup (IF pc \in {"listen", "notify"} \cup Supervising THEN {"sockDir"} ELSE {})
    \cup (IF pc \in {"notify", "start", "wait", "shutdown"} THEN {"listener"} ELSE {})

OpenInv == main # "killed" => open = Holds(main)

-----------------------------------------------------------------------------
\* The routing of signals, action by action.
LEMMA SignalInvInductive == SignalInv /\ [Next]_vars => SignalInv'
<1> SUFFICES ASSUME SignalInv, [Next]_vars PROVE SignalInv'
  OBVIOUS
<1> USE DEF SignalInv, Supervising
<1>1. CASE CreateDB BY <1>1 DEF CreateDB
<1>2. CASE MkdirTemp BY <1>2 DEF MkdirTemp
<1>3. CASE Listen BY <1>3 DEF Listen
<1>4. CASE Notify BY <1>4 DEF Notify
<1>5. CASE StartChild BY <1>5 DEF StartChild
<1>6. CASE WaitChild BY <1>6 DEF WaitChild
<1>7. CASE ShutdownServer BY <1>7 DEF ShutdownServer
<1>8. CASE CloseDB BY <1>8 DEF CloseDB
<1>9. CASE Report BY <1>9 DEF Report
<1>10. CASE Deferred BY <1>10 DEF Deferred
<1>11. CASE Watch BY <1>11 DEF Watch
<1>12. CASE Signalled \* both Interrupt and Terminate
  <2>1. CASE installed BY <1>12, <2>1 DEF Signalled
  <2>2. CASE ~installed
    <3>1. ~unflushed BY <1>12, <2>2 DEF Signalled
    <3> QED BY <1>12, <2>2, <3>1 DEF Signalled
  <2> QED BY <2>1, <2>2
<1>13. CASE Store BY <1>13 DEF Store
<1>14. CASE ChildDone BY <1>14 DEF ChildDone, ChildEnds
<1>15. CASE ChildStopped BY <1>15 DEF ChildStopped, ChildEnds
<1>16. CASE UNCHANGED vars BY <1>16 DEF vars
<1> QED
  BY <1>1, <1>2, <1>3, <1>4, <1>5, <1>6, <1>7, <1>8, <1>9, <1>10, <1>11, <1>12, <1>13,
     <1>14, <1>15, <1>16 DEF Next, Main, Environment, Interrupt, Terminate

LEMMA SignalInvHolds == Spec => []SignalInv
<1>1. Init => SignalInv
  BY DEF Init, SignalInv, Supervising
<1> QED BY <1>1, SignalInvInductive, PTL DEF Spec

\* However many signals arrive, and whenever, none kills the process while codes
\* wait to be flushed.
THEOREM SignalsLoseNoWrites == Spec => []NoSignalLosesWrites
<1>1. SignalInv => NoSignalLosesWrites
  BY DEF SignalInv, Supervising, NoSignalLosesWrites
<1> QED BY <1>1, SignalInvHolds, PTL

-----------------------------------------------------------------------------
\* Every variable keeps its type, and the child runs only inside cmd.Run.
THEOREM TypeCorrect == Spec => []TypeOK
<1>1. Init => TypeOK
  <2>1. Init => signals \in 0..MaxSignals
    BY SignalBound DEF Init
  <2> QED BY <2>1 DEF Init, TypeOK
<1>2. TypeOK /\ SignalInv /\ [Next]_vars => TypeOK'
  <2> SUFFICES ASSUME TypeOK, SignalInv, [Next]_vars PROVE TypeOK'
    OBVIOUS
  <2> USE SignalBound DEF TypeOK
  <2>a. {"db", "sockDir", "listener"} \subseteq Resources
    BY DEF Resources
  <2>b. {"createDB", "mkdirTemp", "listen", "start", "child", "close"} \subseteq Calls
    BY DEF Calls
  <2>1. CASE CreateDB BY <2>1, <2>a, <2>b DEF CreateDB
  <2>2. CASE MkdirTemp BY <2>2, <2>a, <2>b DEF MkdirTemp
  <2>3. CASE Listen BY <2>3, <2>a, <2>b DEF Listen
  <2>4. CASE Notify BY <2>4 DEF Notify
  <2>5. CASE StartChild BY <2>5, <2>a, <2>b DEF StartChild
  <2>6. CASE WaitChild BY <2>6, <2>a, <2>b DEF WaitChild
  <2>7. CASE ShutdownServer BY <2>7 DEF ShutdownServer
  <2>8. CASE CloseDB BY <2>8, <2>a, <2>b, ZenonT(60) DEF CloseDB
  <2>9. CASE Report BY <2>9 DEF Report
  <2>10. CASE Deferred BY <2>10, ZenonT(60) DEF Deferred
  <2>11. CASE Watch BY <2>11, ZenonT(60) DEF Watch
  <2>c. Signalled => signals' \in 0..MaxSignals
    BY DEF Signalled
  <2>d. ASSUME Signalled, childSig' \in BOOLEAN, pressed' \in BOOLEAN PROVE TypeOK'
    <3>1. child = "running" => installed
      BY DEF SignalInv, Supervising
    <3>2. main' \in {main, "killed"} /\ (child = "running" => main' = main)
      BY <2>d, <3>1 DEF Signalled
    <3>3. sigCh' \in BOOLEAN
      BY <2>d DEF Signalled
    <3>4. /\ status' = status /\ result' = result /\ installed' = installed
          /\ watcher' = watcher /\ interrupted' = interrupted /\ child' = child
          /\ open' = open /\ unflushed' = unflushed /\ failures' = failures
      BY <2>d DEF Signalled
    <3>5. /\ main' \in {"createDB", "mkdirTemp", "listen", "notify", "start", "wait",
                        "shutdown", "closeDB", "report", "deferred", "returned", "killed"}
          /\ child' = "running" => main' = "wait"
      <4>1. CASE child = "running" BY <3>2, <3>4, <4>1
      <4>2. CASE child # "running" BY <3>2, <3>4, <4>2
      <4> QED BY <4>1, <4>2
    <3>6. signals' \in 0..MaxSignals
      BY <2>d, <2>c
    <3> QED BY <2>d, <3>3, <3>4, <3>5, <3>6
  <2>12. CASE Interrupt BY <2>12, <2>d DEF Interrupt
  <2>13. CASE Terminate BY <2>13, <2>d DEF Terminate
  <2>14. CASE Store BY <2>14 DEF Store
  <2>15. CASE ChildDone BY <2>15 DEF ChildDone, ChildEnds
  <2>16. CASE ChildStopped BY <2>16 DEF ChildStopped, ChildEnds
  <2>17. CASE UNCHANGED vars BY <2>17 DEF vars
  <2> QED
    BY <2>1, <2>2, <2>3, <2>4, <2>5, <2>6, <2>7, <2>8, <2>9, <2>10, <2>11, <2>12,
       <2>13, <2>14, <2>15, <2>16, <2>17 DEF Next, Main, Environment
<1> QED BY <1>1, <1>2, SignalInvHolds, PTL DEF Spec

-----------------------------------------------------------------------------
\* What is open, action by action.
LEMMA OpenInvInductive == OpenInv /\ [Next]_vars => OpenInv'
<1> SUFFICES ASSUME OpenInv, [Next]_vars PROVE OpenInv'
  OBVIOUS
<1> USE DEF OpenInv, Holds, Supervising
<1>1. CASE CreateDB BY <1>1 DEF CreateDB
<1>2. CASE MkdirTemp BY <1>2 DEF MkdirTemp
<1>3. CASE Listen BY <1>3 DEF Listen
<1>4. CASE Notify BY <1>4 DEF Notify
<1>5. CASE StartChild BY <1>5 DEF StartChild
<1>6. CASE WaitChild BY <1>6 DEF WaitChild
<1>7. CASE ShutdownServer BY <1>7 DEF ShutdownServer
<1>8. CASE CloseDB BY <1>8 DEF CloseDB
<1>9. CASE Report BY <1>9 DEF Report
<1>10. CASE Deferred BY <1>10 DEF Deferred
<1>11. CASE Watch BY <1>11 DEF Watch
<1>12. CASE Signalled BY <1>12 DEF Signalled
<1>13. CASE Store BY <1>13 DEF Store
<1>14. CASE ChildDone BY <1>14 DEF ChildDone, ChildEnds
<1>15. CASE ChildStopped BY <1>15 DEF ChildStopped, ChildEnds
<1>16. CASE UNCHANGED vars BY <1>16 DEF vars
<1> QED
  BY <1>1, <1>2, <1>3, <1>4, <1>5, <1>6, <1>7, <1>8, <1>9, <1>10, <1>11, <1>12, <1>13,
     <1>14, <1>15, <1>16 DEF Next, Main, Environment, Interrupt, Terminate

\* On every path out of generate, early returns included, the database, the listener
\* and the socket directory are released.
THEOREM EverythingReleased == Spec => []NothingLeftOpen
<1>1. Init => OpenInv
  BY DEF Init, OpenInv, Holds, Supervising
<1>2. OpenInv => NothingLeftOpen
  BY DEF OpenInv, Holds, Supervising, NothingLeftOpen
<1> QED BY <1>1, <1>2, OpenInvInductive, PTL DEF Spec

-----------------------------------------------------------------------------
\* Until the child is over an early return is the only thing that records a failure;
\* from then on the error of generate stands for the failures so far.
GoingUp   == {"createDB", "mkdirTemp", "listen", "notify", "start", "wait"}
GoingDown == {"shutdown", "closeDB", "report"}

ReportInv ==
    signals = 0 =>
        /\ ~sigCh /\ ~interrupted /\ ~childSig /\ child # "interrupted"
        /\ main \in GoingUp => status = "nil" /\ failures = {}
        /\ main \in GoingDown => (status = "err" <=> failures # {})
        /\ main \in {"deferred", "returned"} => (result = "err" <=> failures # {})

LEMMA ReportInvInductive == TypeOK /\ ReportInv /\ [Next]_vars => ReportInv'
<1> SUFFICES ASSUME TypeOK, ReportInv, [Next]_vars PROVE ReportInv'
  OBVIOUS
<1> USE DEF TypeOK, ReportInv, GoingUp, GoingDown
<1>1. CASE CreateDB BY <1>1 DEF CreateDB
<1>2. CASE MkdirTemp BY <1>2 DEF MkdirTemp
<1>3. CASE Listen BY <1>3 DEF Listen
<1>4. CASE Notify BY <1>4 DEF Notify
<1>5. CASE StartChild BY <1>5 DEF StartChild
<1>6. CASE WaitChild BY <1>6 DEF WaitChild
<1>7. CASE ShutdownServer BY <1>7 DEF ShutdownServer
<1>8. CASE CloseDB BY <1>8 DEF CloseDB
<1>9. CASE Report BY <1>9 DEF Report
<1>10. CASE Deferred BY <1>10 DEF Deferred
<1>11. CASE Watch BY <1>11 DEF Watch
<1>12. CASE Signalled \* this run is disturbed
  <2>1. signals \in Nat /\ signals' = signals + 1
    BY <1>12, SignalBound DEF Signalled
  <2>2. signals' # 0
    BY <2>1
  <2> QED BY <2>2
<1>13. CASE Store BY <1>13 DEF Store
<1>14. CASE ChildDone BY <1>14 DEF ChildDone, ChildEnds
<1>15. CASE ChildStopped BY <1>15 DEF ChildStopped, ChildEnds
<1>16. CASE UNCHANGED vars BY <1>16 DEF vars
<1> QED
  BY <1>1, <1>2, <1>3, <1>4, <1>5, <1>6, <1>7, <1>8, <1>9, <1>10, <1>11, <1>12, <1>13,
     <1>14, <1>15, <1>16 DEF Next, Main, Environment, Interrupt, Terminate

\* A run that nobody signals reports an error exactly when one of its calls, or the
\* child, failed: no failure is lost on the way out, and none is made up.
THEOREM UndisturbedRunsReport == Spec => []UndisturbedRunReports
<1>1. Init => ReportInv
  BY DEF Init, ReportInv, GoingUp, GoingDown
<1>2. ReportInv => UndisturbedRunReports
  BY DEF ReportInv, UndisturbedRunReports
<1> QED BY <1>1, <1>2, ReportInvInductive, TypeCorrect, PTL DEF Spec

-----------------------------------------------------------------------------
(* replay: the places of a code.                                           *)

\* The codes that have left the channel are the first so many, in key order.
Taken == read - Len(codes)

PlaceInv ==
    /\ Len(codes) <= read
    /\ \A i \in 1..Len(codes) : codes[i] = Taken + i
    /\ \A c \in Code :
          c <= Taken <=> outcome[c] # "none" \/ \E w \in RWorkers : hand[w] = c
    /\ \A w \in RWorkers : hand[w] # 0 => outcome[hand[w]] = "none"
    /\ \A v, w \in RWorkers : v # w /\ hand[v] # 0 => hand[v] # hand[w]

\* The goroutine of a code sends once, and remembers an error until it has sent it.
ExecInv ==
    \A c \in Code :
       /\ c <= Taken <=> exec[c] # "none"
       /\ done[c] # "none" => exec[c] = "exited"
       /\ c \in bad => /\ exec[c] \in {"warmErr", "sendErr", "exited"}
                       /\ done[c] # "ok" /\ outcome[c] # "ok"
       /\ outcome[c] = "ok" => exec[c] = "exited"

CountInv ==
    /\ replayed = Cardinality(Handled)
    /\ failed = Cardinality({c \in Code : outcome[c] \in {"err", "timeout"}})

\* How far the test has come, and the command behind it.
ProgressInv ==
    /\ tpc \in {"off", "open", "read", "send"} => ~iterErr
    /\ tpc = "send" => read < Target
    /\ tpc \in {"close", "wait", "verdict", "passed"} => iterErr \/ read = Target
    /\ \A w \in RWorkers :
          wpc[w] = "done" => codes = <<>> /\ tpc \in {"wait", "verdict", "passed", "failed"}
    /\ tpc \in {"verdict", "passed"} => \A w \in RWorkers : wpc[w] = "done"
    /\ tpc = "passed" => ~iterErr /\ profile = "fresh"
    /\ rpc = "locate" => tpc = "off"
    /\ rpc \in {"summarize", "render"} => tpc = "passed"
    /\ summarized # "no" => tpc = "passed" /\ summarized = "fresh"

LEMMA TargetType == limit \in 0..(Stored + 1) => Target \in 0..Stored
BY StoredAssumption DEF Target

LEMMA CapacityType == Capacity \in Nat
<1>1. Cardinality(RWorkers) \in Nat
  BY WorkersAssumption, FS_CardinalityType
<1> QED BY <1>1, SlotsAssumption DEF Capacity

LEMMA ProgressInductive == RTypeOK /\ ProgressInv /\ [RNext]_rvars => ProgressInv'
<1> SUFFICES ASSUME RTypeOK, ProgressInv, [RNext]_rvars PROVE ProgressInv'
  OBVIOUS
<1> USE DEF ProgressInv, Target, Over, FailTest, TestQuiet, RReturn, command, test, pool
<1>1. CASE StartTest BY <1>1 DEF StartTest
<1>2. CASE AwaitTest BY <1>2 DEF AwaitTest
<1>3. CASE Summarize BY <1>3 DEF Summarize
<1>4. CASE Render BY <1>4 DEF Render
<1>5. CASE OpenCorpus BY <1>5 DEF OpenCorpus
<1>6. CASE ReadCode BY <1>6 DEF ReadCode
<1>7. CASE SendCode BY <1>7 DEF SendCode
<1>8. CASE CloseCodes BY <1>8 DEF CloseCodes
<1>9. CASE WaitWorkers BY <1>9 DEF WaitWorkers
<1>10. CASE Verdict BY <1>10 DEF Verdict
<1>11. CASE TestTimeout BY <1>11 DEF TestTimeout
<1>12. ASSUME NEW w \in RWorkers, Receive(w) PROVE ProgressInv'
  BY <1>12 DEF Receive, RTypeOK
<1>13. ASSUME NEW w \in RWorkers, Drained(w) PROVE ProgressInv'
  BY <1>13 DEF Drained, RTypeOK
<1>14. ASSUME NEW w \in RWorkers, wpc[w] = "select", ~Over, NEW how, Count(w, how)
       PROVE  ProgressInv'
  BY <1>14 DEF Count, RTypeOK
<1>15. ASSUME NEW w \in RWorkers, Done(w) \/ TimeUp(w) PROVE ProgressInv'
  BY <1>14, <1>15 DEF Done, TimeUp
<1>16. ASSUME NEW c \in Code, Execution(c) PROVE ProgressInv'
  <2>1. UNCHANGED <<command, test, pool>>
    BY <1>16 DEF Execution, ExecuteCold, ExecuteWarm, Send, Executes
  <2> QED BY <2>1
<1>17. CASE UNCHANGED rvars
  BY <1>17 DEF rvars
<1> QED
  BY <1>1, <1>2, <1>3, <1>4, <1>5, <1>6, <1>7, <1>8, <1>9, <1>10, <1>11, <1>12, <1>13,
     <1>15, <1>16, <1>17 DEF RNext, Command, TestMain, Worker

LEMMA TypeInductive == RTypeOK /\ ProgressInv /\ [RNext]_rvars => RTypeOK'
<1> SUFFICES ASSUME RTypeOK, ProgressInv, [RNext]_rvars PROVE RTypeOK'
  OBVIOUS
<1> USE StoredAssumption, TargetType, CapacityType
    DEF RTypeOK, Over, FailTest, TestQuiet, RReturn, command, test, pool
<1>a. UNCHANGED limit
  BY DEF RNext, Command, StartTest, AwaitTest, Summarize, Render, TestMain, OpenCorpus,
         ReadCode, SendCode, CloseCodes, WaitWorkers, Verdict, TestTimeout, Worker,
         Receive, Drained, Done, TimeUp, Count, Execution, ExecuteCold, ExecuteWarm, Send,
         Executes, rvars
<1>b. Target' = Target
  BY <1>a DEF Target
<1> USE <1>b
<1>1. CASE StartTest BY <1>1 DEF StartTest
<1>2. CASE AwaitTest BY <1>2 DEF AwaitTest
<1>3. CASE Summarize BY <1>3 DEF Summarize
<1>4. CASE Render BY <1>4 DEF Render
<1>5. CASE OpenCorpus BY <1>5 DEF OpenCorpus
<1>6. CASE ReadCode BY <1>6, ZenonT(60) DEF ReadCode
<1>7. CASE SendCode
  <2>1. read < Target /\ read + 1 \in Code
    BY <1>7 DEF SendCode, ProgressInv, Code
  <2>2. codes' \in Seq(Code) /\ Len(codes') = Len(codes) + 1
    BY <1>7, <2>1 DEF SendCode
  <2> QED BY <1>7, <2>1, <2>2 DEF SendCode
<1>8. CASE CloseCodes BY <1>8 DEF CloseCodes
<1>9. CASE WaitWorkers BY <1>9 DEF WaitWorkers
<1>10. CASE Verdict BY <1>10 DEF Verdict
<1>11. CASE TestTimeout BY <1>11 DEF TestTimeout
<1>12. ASSUME NEW w \in RWorkers, Receive(w) PROVE RTypeOK'
  <2>1. Head(codes) \in Code /\ codes' \in Seq(Code) /\ Len(codes') <= Capacity
    BY <1>12 DEF Receive
  <2>2. Head(codes) \in 0..Stored /\ Head(codes) # 0
    BY <2>1 DEF Code
  <2>3. /\ wpc' \in [RWorkers -> {"receive", "select", "done"}]
        /\ hand' \in [RWorkers -> 0..Stored]
        /\ \A v \in RWorkers : wpc'[v] = "select" <=> hand'[v] # 0
    BY <1>12, <2>2 DEF Receive
  <2>4. exec' \in [Code -> {"none", "cold", "warm", "warmErr", "sendOk", "sendErr",
                           "exited"}]
    BY <1>12, <2>1 DEF Receive
  <2> QED BY <1>12, <2>1, <2>3, <2>4 DEF Receive
<1>13. ASSUME NEW w \in RWorkers, Drained(w) PROVE RTypeOK'
  BY <1>13 DEF Drained
<1>14. ASSUME NEW w \in RWorkers, wpc[w] = "select", NEW how \in {"ok", "err", "timeout"},
              Count(w, how)
       PROVE  /\ wpc' \in [RWorkers -> {"receive", "select", "done"}]
              /\ hand' \in [RWorkers -> 0..Stored]
              /\ \A v \in RWorkers : wpc'[v] = "select" <=> hand'[v] # 0
              /\ outcome' \in [Code -> {"none", "ok", "err", "timeout"}]
              /\ replayed' \in Nat /\ failed' \in Nat
              /\ UNCHANGED <<command, test, exec, bad>>
  <2>1. hand[w] \in Code /\ outcome' \in [Code -> {"none", "ok", "err", "timeout"}]
    BY <1>14 DEF Count, Code
  <2>2. hand' \in [RWorkers -> 0..Stored]
    BY <1>14 DEF Count
  <2>3. /\ wpc' \in [RWorkers -> {"receive", "select", "done"}]
        /\ \A v \in RWorkers : wpc'[v] = "select" <=> hand'[v] # 0
    BY <1>14 DEF Count
  <2>4. replayed' \in Nat /\ failed' \in Nat
    BY <1>14 DEF Count
  <2>5. UNCHANGED <<command, test, exec, bad>>
    BY <1>14 DEF Count
  <2> QED BY <2>1, <2>2, <2>3, <2>4, <2>5
<1>15. ASSUME NEW w \in RWorkers, Done(w) PROVE RTypeOK'
  <2>1. hand[w] \in Code
    BY <1>15 DEF Done, Code
  <2>2. done[hand[w]] \in {"ok", "err", "timeout"}
    BY <1>15, <2>1 DEF Done
  <2> QED BY <1>14, <1>15, <2>1, <2>2 DEF Done
<1>16. ASSUME NEW w \in RWorkers, TimeUp(w) PROVE RTypeOK'
  BY <1>14, <1>16 DEF TimeUp
<1>17. ASSUME NEW c \in Code, Execution(c) PROVE RTypeOK'
  <2>1. ASSUME NEW from, NEW to \in {"warm", "warmErr", "sendOk", "sendErr", "exited"},
               Executes(c, from, to), bad' \subseteq Code,
               done' \in [Code -> {"none", "ok", "err"}]
        PROVE  RTypeOK'
    BY <2>1 DEF Executes
  <2>2. CASE ExecuteCold(c) BY <2>1, <2>2 DEF ExecuteCold
  <2>3. CASE ExecuteWarm(c) BY <2>1, <2>3 DEF ExecuteWarm
  <2>4. CASE Send(c) BY <2>1, <2>4 DEF Send
  <2> QED BY <1>17, <2>2, <2>3, <2>4 DEF Execution
<1>18. CASE UNCHANGED rvars
  BY <1>18 DEF rvars
<1> QED
  BY <1>1, <1>2, <1>3, <1>4, <1>5, <1>6, <1>7, <1>8, <1>9, <1>10, <1>11, <1>12, <1>13,
     <1>15, <1>16, <1>17, <1>18 DEF RNext, Command, TestMain, Worker

\* The steps that move a code from one place to the next.
LEMMA Moves ==
    ASSUME RTypeOK, [RNext]_rvars
    PROVE  \/ SendCode
           \/ \E w \in RWorkers : Receive(w)
           \/ \E w \in RWorkers, how \in {"ok", "err", "timeout"} :
                 wpc[w] = "select" /\ Count(w, how)
           \/ UNCHANGED <<read, codes, hand, outcome, replayed, failed>>
<1> USE DEF Over, FailTest, TestQuiet, RReturn, command, test, pool
<1>1. CASE Command BY <1>1 DEF Command, StartTest, AwaitTest, Summarize, Render
<1>2. CASE TestMain /\ ~SendCode
  BY <1>2 DEF TestMain, OpenCorpus, ReadCode, CloseCodes, WaitWorkers, Verdict
<1>3. CASE TestTimeout BY <1>3 DEF TestTimeout
<1>4. ASSUME NEW w \in RWorkers, Drained(w)
      PROVE  UNCHANGED <<read, codes, hand, outcome, replayed, failed>>
  BY <1>4 DEF Drained
<1>5. ASSUME NEW w \in RWorkers, Done(w) \/ TimeUp(w)
      PROVE  wpc[w] = "select" /\ \E how \in {"ok", "err", "timeout"} : Count(w, how)
  <2>1. CASE TimeUp(w) BY <2>1 DEF TimeUp
  <2>2. CASE Done(w)
    <3>1. hand[w] \in Code
      BY <2>2 DEF Done, RTypeOK, Code
    <3>2. done[hand[w]] \in {"ok", "err"} /\ Count(w, done[hand[w]]) /\ wpc[w] = "select"
      BY <2>2, <3>1 DEF Done, RTypeOK
    <3> QED BY <3>2
  <2> QED BY <1>5, <2>1, <2>2
<1>6. ASSUME NEW c \in Code, Execution(c)
      PROVE  UNCHANGED <<read, codes, hand, outcome, replayed, failed>>
  BY <1>6 DEF Execution, ExecuteCold, ExecuteWarm, Send, Executes
<1>7. CASE UNCHANGED rvars BY <1>7 DEF rvars
<1> HIDE DEF Over, FailTest, TestQuiet, RReturn, command, test, pool
<1> QED BY <1>1, <1>2, <1>3, <1>4, <1>5, <1>6, <1>7 DEF RNext, Worker

LEMMA PlaceInductive ==
    RTypeOK /\ PlaceInv /\ [RNext]_rvars => PlaceInv'
<1> SUFFICES ASSUME RTypeOK, PlaceInv, [RNext]_rvars PROVE PlaceInv'
  OBVIOUS
<1>a. Stored \in Nat /\ Target \in 0..Stored /\ read \in 0..Stored /\ Len(codes) \in Nat
  BY StoredAssumption, TargetType DEF RTypeOK
<1>1. CASE SendCode
  <2>1. /\ read' = read + 1 /\ codes' = Append(codes, read + 1)
        /\ UNCHANGED <<hand, outcome>>
    BY <1>1 DEF SendCode, TestQuiet, pool
  <2>2. Len(codes') = Len(codes) + 1 /\ Taken' = Taken
    BY <1>a, <2>1 DEF Taken, RTypeOK
  <2>3. \A i \in 1..Len(codes') : codes'[i] = Taken' + i
    BY <1>a, <2>1, <2>2 DEF PlaceInv, RTypeOK, Taken
  <2> QED BY <1>a, <2>1, <2>2, <2>3 DEF PlaceInv
<1>2. ASSUME NEW w \in RWorkers, Receive(w) PROVE PlaceInv'
  <2>1. /\ codes # <<>> /\ codes' = Tail(codes) /\ hand[w] = 0
        /\ hand' = [hand EXCEPT ![w] = Head(codes)]
        /\ UNCHANGED <<read, outcome>>
    BY <1>2 DEF Receive, RTypeOK
  <2>2. /\ Head(codes) = Taken + 1 /\ Head(codes) \in Code
        /\ Len(codes') = Len(codes) - 1 /\ Taken' = Taken + 1
    BY <1>a, <2>1 DEF Taken, RTypeOK, PlaceInv
  <2>3. \A i \in 1..Len(codes') : codes'[i] = Taken' + i
    BY <1>a, <2>1, <2>2 DEF PlaceInv, RTypeOK, Taken
  <2>4. Taken \in Nat
    BY <1>a DEF Taken, PlaceInv
  <2>5. outcome[Head(codes)] = "none" /\ \A v \in RWorkers : hand[v] # Head(codes)
    BY <2>2, <2>4 DEF PlaceInv, Code
  <2>6. \A c \in Code :
           c <= Taken' <=> outcome'[c] # "none" \/ \E v \in RWorkers : hand'[v] = c
    <3> SUFFICES ASSUME NEW c \in Code
                 PROVE  c <= Taken' <=>
                           outcome'[c] # "none" \/ \E v \in RWorkers : hand'[v] = c
      OBVIOUS
    <3>1. c <= Taken' <=> c <= Taken \/ c = Head(codes)
      BY <2>2, <2>4 DEF Code
    <3>2. (\E v \in RWorkers : hand'[v] = c) <=>
             c = Head(codes) \/ \E v \in RWorkers : hand[v] = c
      BY <2>1 DEF RTypeOK, Code
    <3> QED BY <2>1, <3>1, <3>2 DEF PlaceInv
  <2>7. \A v \in RWorkers : hand'[v] # 0 => outcome'[hand'[v]] = "none"
    BY <2>1, <2>5 DEF PlaceInv, RTypeOK
  <2>8. \A v, u \in RWorkers : v # u /\ hand'[v] # 0 => hand'[v] # hand'[u]
    BY <2>1, <2>5 DEF PlaceInv, RTypeOK
  <2>9. Len(codes') <= read'
    BY <1>a, <2>1, <2>2 DEF PlaceInv
  <2> QED BY <2>3, <2>6, <2>7, <2>8, <2>9 DEF PlaceInv
<1>3. ASSUME NEW w \in RWorkers, NEW how \in {"ok", "err", "timeout"}, wpc[w] = "select",
             Count(w, how)
      PROVE  PlaceInv'
  <2>1. /\ hand[w] \in Code /\ hand[w] # 0
        /\ outcome' = [outcome EXCEPT ![hand[w]] = how]
        /\ hand' = [hand EXCEPT ![w] = 0] /\ UNCHANGED <<read, codes>>
    BY <1>3 DEF Count, RTypeOK, Code, test
  <2>2. \A c \in Code : /\ outcome'[c] # "none" <=> outcome[c] # "none" \/ c = hand[w]
                        /\ (\E v \in RWorkers : hand'[v] = c) <=>
                              c # hand[w] /\ \E v \in RWorkers : hand[v] = c
    <3> SUFFICES ASSUME NEW c \in Code
                 PROVE  /\ outcome'[c] # "none" <=> outcome[c] # "none" \/ c = hand[w]
                        /\ (\E v \in RWorkers : hand'[v] = c) <=>
                              c # hand[w] /\ \E v \in RWorkers : hand[v] = c
      OBVIOUS
    <3>1. outcome'[c] # "none" <=> outcome[c] # "none" \/ c = hand[w]
      BY <2>1 DEF RTypeOK
    <3>2. \A v \in RWorkers : hand'[v] = IF v = w THEN 0 ELSE hand[v]
      BY <2>1 DEF RTypeOK
    <3>3. c # 0
      BY DEF Code
    <3>4. \A v \in RWorkers : v # w => hand[v] # hand[w]
      BY <2>1 DEF PlaceInv
    <3> QED BY <3>1, <3>2, <3>3, <3>4
  <2>3. Taken' = Taken
    BY <2>1 DEF Taken
  <2>4. \A c \in Code :
           c <= Taken' <=> outcome'[c] # "none" \/ \E v \in RWorkers : hand'[v] = c
    BY <2>1, <2>2, <2>3 DEF PlaceInv
  <2>5. \A v \in RWorkers : hand'[v] = IF v = w THEN 0 ELSE hand[v]
    BY <2>1 DEF RTypeOK
  <2>6. \A v \in RWorkers : hand'[v] # 0 => outcome'[hand'[v]] = "none"
    <3> SUFFICES ASSUME NEW v \in RWorkers, hand'[v] # 0
                 PROVE  outcome'[hand'[v]] = "none"
      OBVIOUS
    <3>1. v # w /\ hand'[v] = hand[v] /\ hand[v] # hand[w] /\ hand[v] \in Code
      BY <2>1, <2>5 DEF PlaceInv, RTypeOK, Code
    <3> QED BY <2>1, <2>2, <3>1 DEF PlaceInv
  <2>7. \A v, u \in RWorkers : v # u /\ hand'[v] # 0 => hand'[v] # hand'[u]
    BY <2>5 DEF PlaceInv
  <2> QED BY <2>1, <2>3, <2>4, <2>6, <2>7 DEF PlaceInv
<1>4. CASE UNCHANGED <<read, codes, hand, outcome, replayed, failed>>
  BY <1>4 DEF PlaceInv, Taken
<1> QED BY <1>1, <1>2, <1>3, <1>4, Moves

LEMMA ExecInductive ==
    RTypeOK /\ PlaceInv /\ ExecInv /\ [RNext]_rvars => ExecInv'
<1> SUFFICES ASSUME RTypeOK, PlaceInv, ExecInv, [RNext]_rvars PROVE ExecInv'
  OBVIOUS
<1>a. read \in Nat /\ Len(codes) \in Nat /\ Taken \in Nat
  BY StoredAssumption, TargetType DEF RTypeOK, PlaceInv, Taken
<1>1. ASSUME NEW w \in RWorkers, Receive(w) PROVE ExecInv'
  <2>1. /\ codes # <<>> /\ codes' = Tail(codes)
        /\ exec' = [exec EXCEPT ![Head(codes)] = "cold"]
        /\ UNCHANGED <<read, outcome, done, bad>>
    BY <1>1 DEF Receive
  <2>2. Head(codes) = Taken + 1 /\ Head(codes) \in Code /\ Taken' = Taken + 1
    BY <1>a, <2>1 DEF Taken, RTypeOK, PlaceInv
  <2>3. exec[Head(codes)] = "none"
    BY <1>a, <2>2 DEF ExecInv
  <2>4. \A c \in Code : c <= Taken' <=> c <= Taken \/ c = Head(codes)
    BY <1>a, <2>2 DEF Code
  <2> QED BY <2>1, <2>2, <2>3, <2>4 DEF ExecInv, RTypeOK
<1>2. ASSUME NEW w \in RWorkers, Done(w) PROVE ExecInv'
  <2>1. /\ hand[w] \in Code /\ done[hand[w]] # "none"
        /\ outcome' = [outcome EXCEPT ![hand[w]] = done[hand[w]]]
        /\ done' = [done EXCEPT ![hand[w]] = "none"]
        /\ UNCHANGED <<read, codes, exec, bad>>
    BY <1>2 DEF Done, Count, RTypeOK, Code, test
  <2>2. Taken' = Taken
    BY <2>1 DEF Taken
  <2> QED BY <2>1, <2>2 DEF ExecInv, RTypeOK
<1>3. ASSUME NEW w \in RWorkers, TimeUp(w) PROVE ExecInv'
  <2>1. /\ hand[w] \in Code /\ outcome' = [outcome EXCEPT ![hand[w]] = "timeout"]
        /\ UNCHANGED <<read, codes, exec, done, bad>>
    BY <1>3 DEF TimeUp, Count, RTypeOK, Code, test
  <2>2. Taken' = Taken
    BY <2>1 DEF Taken
  <2> QED BY <2>1, <2>2 DEF ExecInv, RTypeOK
<1>4. ASSUME NEW c \in Code, Execution(c) PROVE ExecInv'
  <2>1. UNCHANGED <<read, codes, outcome>> /\ Taken' = Taken
    BY <1>4 DEF Execution, ExecuteCold, ExecuteWarm, Send, Executes, test, pool, Taken
  <2>2. CASE ExecuteCold(c)
    BY <2>1, <2>2 DEF ExecuteCold, Executes, ExecInv, RTypeOK
  <2>3. CASE ExecuteWarm(c)
    BY <2>1, <2>3 DEF ExecuteWarm, Executes, ExecInv, RTypeOK
  <2>4. CASE Send(c)
    BY <2>1, <2>4 DEF Send, Executes, ExecInv, RTypeOK
  <2> QED BY <1>4, <2>2, <2>3, <2>4 DEF Execution
<1>5. CASE SendCode
  <2>1. UNCHANGED <<outcome, exec, done, bad>>
    BY <1>5 DEF SendCode, TestQuiet, pool
  <2>2. Taken' = Taken
    BY <1>5, <1>a DEF SendCode, Taken, RTypeOK
  <2> QED BY <2>1, <2>2 DEF ExecInv
<1>6. CASE UNCHANGED <<read, codes, outcome, exec, done, bad>>
  BY <1>6 DEF ExecInv, Taken
<1>7. CASE Command
  BY <1>6, <1>7
  DEF Command, StartTest, AwaitTest, Summarize, Render, RReturn, test, pool
<1>8. CASE (TestMain /\ ~SendCode) \/ TestTimeout
  BY <1>6, <1>8
  DEF TestMain, OpenCorpus, ReadCode, CloseCodes, WaitWorkers, Verdict, TestTimeout,
      TestQuiet, pool
<1>9. ASSUME NEW w \in RWorkers, Drained(w) PROVE ExecInv'
  BY <1>6, <1>9 DEF Drained, test
<1>10. CASE UNCHANGED rvars
  BY <1>6, <1>10 DEF rvars, test, pool
<1> QED
  BY <1>1, <1>2, <1>3, <1>4, <1>5, <1>7, <1>8, <1>9, <1>10 DEF RNext, Worker

LEMMA CountInductive ==
    RTypeOK /\ PlaceInv /\ CountInv /\ [RNext]_rvars => CountInv'
<1> SUFFICES ASSUME RTypeOK, PlaceInv, CountInv, [RNext]_rvars PROVE CountInv'
  OBVIOUS
<1> DEFINE Failed == {c \in Code : outcome[c] \in {"err", "timeout"}}
<1>1. IsFiniteSet(Handled) /\ IsFiniteSet(Failed)
  <2>1. IsFiniteSet(Code)
    BY StoredAssumption, FS_Interval DEF Code
  <2>2. Handled \in SUBSET Code /\ Failed \in SUBSET Code
    BY DEF Handled
  <2> HIDE DEF Failed
  <2> QED BY <2>1, <2>2, FS_Subset
<1>2. ASSUME NEW w \in RWorkers, NEW how \in {"ok", "err", "timeout"}, wpc[w] = "select",
             Count(w, how)
      PROVE  CountInv'
  <2>1. /\ hand[w] \in Code /\ outcome[hand[w]] = "none"
        /\ outcome' = [outcome EXCEPT ![hand[w]] = how]
        /\ replayed' = replayed + 1
        /\ failed' = IF how = "ok" THEN failed ELSE failed + 1
    BY <1>2 DEF Count, RTypeOK, PlaceInv, Code
  <2>2. Handled' = Handled \cup {hand[w]} /\ hand[w] \notin Handled
    BY <2>1 DEF Handled, RTypeOK
  <2>3. Cardinality(Handled') = Cardinality(Handled) + 1
    BY <1>1, <2>2, FS_AddElement
  <2>4. CASE how = "ok"
    <3>1. Failed' = Failed
      BY <2>1, <2>4 DEF RTypeOK
    <3> QED BY <2>1, <2>3, <2>4, <3>1 DEF CountInv
  <2>5. CASE how # "ok"
    <3>1. Failed' = Failed \cup {hand[w]} /\ hand[w] \notin Failed
      BY <2>1, <2>5 DEF RTypeOK
    <3>2. Cardinality(Failed') = Cardinality(Failed) + 1
      BY <1>1, <3>1, FS_AddElement
    <3> QED BY <2>1, <2>3, <2>5, <3>2 DEF CountInv
  <2> QED BY <2>4, <2>5
<1>3. CASE UNCHANGED <<outcome, replayed, failed>>
  BY <1>3 DEF CountInv, Handled
<1>4. CASE SendCode
  BY <1>3, <1>4 DEF SendCode, TestQuiet, pool
<1>5. ASSUME NEW w \in RWorkers, Receive(w) PROVE CountInv'
  BY <1>3, <1>5 DEF Receive
<1> QED BY <1>2, <1>3, <1>4, <1>5, Moves

LEMMA ReplayInvHolds ==
    RSpec => [](RTypeOK /\ ProgressInv /\ PlaceInv /\ ExecInv /\ CountInv)
<1>1. ASSUME RInit PROVE RTypeOK /\ ProgressInv
  <2>1. Target \in 0..Stored /\ Capacity \in Nat
    BY <1>1, TargetType, CapacityType DEF RInit
  <2>2. RTypeOK
    <3>1. codes \in Seq(Code) /\ Len(codes) <= Capacity
      BY <1>1, <2>1 DEF RInit
    <3>2. \A w \in RWorkers : wpc[w] = "select" <=> hand[w] # 0
      BY <1>1 DEF RInit
    <3>3. hand \in [RWorkers -> 0..Stored] /\ read \in 0..Target
      BY <1>1, <2>1, StoredAssumption DEF RInit
    <3> QED BY <1>1, <3>1, <3>2, <3>3 DEF RInit, RTypeOK
  <2>3. ProgressInv
    BY <1>1 DEF RInit, ProgressInv
  <2> QED BY <2>2, <2>3
<1>2. RInit => PlaceInv /\ ExecInv
  BY StoredAssumption DEF RInit, PlaceInv, ExecInv, Taken, Code
<1>3. ASSUME RInit PROVE CountInv
  <2>1. Handled = {} /\ {c \in Code : outcome[c] \in {"err", "timeout"}} = {}
    BY <1>3 DEF RInit, Handled
  <2> QED BY <1>3, <2>1, FS_EmptySet DEF RInit, CountInv
<1> QED
  BY <1>1, <1>2, <1>3, TypeInductive, ProgressInductive, PlaceInductive, ExecInductive,
     CountInductive, PTL DEF RSpec

\* No interleaving of the reader, the channel and the workers loses a code, replays it
\* twice or takes it for another.
THEOREM CodesAreReplayedOnce == RSpec => []EachCodeOnce
<1>1. RTypeOK /\ PlaceInv => EachCodeOnce
  <2> SUFFICES ASSUME RTypeOK, PlaceInv PROVE EachCodeOnce
    OBVIOUS
  <2>1. read \in 0..Stored /\ Stored \in Nat /\ Len(codes) \in Nat /\ Taken \in Nat
    BY StoredAssumption, TargetType DEF RTypeOK, PlaceInv, Taken
  <2>2. Queued = (Taken + 1)..read
    <3>1. ASSUME NEW c \in (Taken + 1)..read PROVE c \in Queued
      <4>1. c - Taken \in 1..Len(codes)
        BY <2>1 DEF Taken
      <4>2. codes[c - Taken] = c
        BY <2>1, <4>1 DEF PlaceInv
      <4> QED BY <4>1, <4>2 DEF Queued, RTypeOK
    <3>2. ASSUME NEW c \in Queued PROVE c \in (Taken + 1)..read
      <4>1. PICK i \in 1..Len(codes) : c = codes[i]
        BY DEF Queued, RTypeOK
      <4>2. c = Taken + i
        BY <4>1 DEF PlaceInv
      <4> QED BY <2>1, <4>2 DEF Taken
    <3> QED BY <3>1, <3>2
  <2>3. InHand \cup Handled = 1..Taken
    <3>1. ASSUME NEW c \in 1..Taken PROVE c \in InHand \cup Handled
      BY <2>1 DEF PlaceInv, InHand, Handled, Code, Taken
    <3>2. ASSUME NEW c \in InHand \cup Handled PROVE c \in 1..Taken
      <4>1. c \in Code /\ (outcome[c] # "none" \/ \E w \in RWorkers : hand[w] = c)
        BY <2>1 DEF InHand, Handled, Code, RTypeOK
      <4> QED BY <2>1, <4>1 DEF PlaceInv, Code
    <3> QED BY <3>1, <3>2
  <2>4. InHand \cap Handled = {}
    BY DEF PlaceInv, InHand, Handled
  <2>5. ASSUME NEW i \in DOMAIN codes, NEW j \in DOMAIN codes, i # j
        PROVE  codes[i] # codes[j]
    <3>1. i \in 1..Len(codes) /\ j \in 1..Len(codes)
      BY DEF RTypeOK
    <3>2. codes[i] = Taken + i /\ codes[j] = Taken + j
      BY <3>1 DEF PlaceInv
    <3> QED BY <2>1, <2>5, <3>1, <3>2
  <2>6. Taken <= read
    BY <2>1 DEF Taken
  <2>7. Queued \cup InHand \cup Handled = 1..read /\ Queued \cap (InHand \cup Handled) = {}
    BY <2>1, <2>2, <2>3, <2>6
  <2>8. \A v, w \in RWorkers : v # w /\ hand[v] # 0 => hand[v] # hand[w]
    BY DEF PlaceInv
  <2> QED BY <2>4, <2>5, <2>7, <2>8 DEF EachCodeOnce
<1> QED BY <1>1, ReplayInvHolds, PTL

\* The counters of the replay count every code once, and none as good of which an
\* execution failed or has not ended.
THEOREM CountersAreHonest == RSpec => []CountersHonest
<1>1. ExecInv /\ CountInv => CountersHonest
  BY DEF ExecInv, CountInv, CountersHonest
<1> QED BY <1>1, ReplayInvHolds, PTL

\* The goroutine of a code can always send its result, also when nobody waits for it.
THEOREM NobodyIsBlocked == RSpec => []NobodyBlocked
<1>1. ExecInv => NobodyBlocked
  BY DEF ExecInv, NobodyBlocked, MaySend, DoneCap
<1> QED BY <1>1, ReplayInvHolds, PTL

\* What is summarised is the profile of a replay of all the codes that were asked for.
THEOREM SummariesAreFresh == RSpec => []SummaryIsFresh
<1>1. RTypeOK /\ ProgressInv /\ PlaceInv => SummaryIsFresh
  <2> SUFFICES ASSUME RTypeOK, ProgressInv, PlaceInv, summarized # "no"
               PROVE  summarized = "fresh" /\ Handled = 1..Target
    BY DEF SummaryIsFresh
  <2>1. /\ summarized = "fresh" /\ read = Target
        /\ \A w \in RWorkers : wpc[w] = "done" /\ codes = <<>>
    BY DEF ProgressInv
  <2>2. codes = <<>> /\ \A w \in RWorkers : hand[w] = 0
    BY <2>1, WorkersAssumption DEF RTypeOK
  <2>3. Taken = Target /\ Target \in 0..Stored
    BY <2>1, <2>2, TargetType DEF Taken, RTypeOK
  <2>4. \A c \in Code : c <= Target <=> outcome[c] # "none"
    BY <2>2, <2>3 DEF PlaceInv, Code
  <2> QED BY <2>1, <2>3, <2>4, StoredAssumption DEF Handled, Code
<1> QED BY <1>1, ReplayInvHolds, PTL
=============================================================================
