--------------------------- MODULE CampaignProofs ---------------------------
(***************************************************************************)
(* Theorems about the fuzz workers at work on the database server, for any *)
(* number of workers, inputs and restarts, and any set of failing calls:   *)
(* workers get the answers to what they asked, and whatever the others do  *)
(* and whenever the server stops or crashes, the database holds no full    *)
(* code without its minimized code.                                        *)
(***************************************************************************)
EXTENDS Campaign, DBServerProofs

-----------------------------------------------------------------------------
(* The invariant, for each worker with its connection and handler.         *)

Asking == {"askedFull", "askedMin", "stored"}

\* The handler is at work on a frame.
Busy == {"has", "check", "commit", "count", "reply"}

WorkerTypes ==
    /\ wpc \in [Conns -> {"idle", "askedFull", "minimize", "askedMin", "storeFull",
                          "storeBoth", "stored"}]
    /\ winp \in [Conns -> Inputs \cup {NULL}]
    /\ \A c \in Conns : wpc[c] = "idle" <=> winp[c] = NULL

\* The worker waits for an answer exactly where run has asked for one, and it has an
\* input only while it is connected.
WorkerFits(c) ==
    /\ cli[c] = "waiting" <=> wpc[c] \in Asking
    /\ wpc[c] # "idle" => cli[c] \in {"idle", "waiting"}
    /\ wpc[c] \in {"askedMin", "storeBoth"} => Min[winp[c]] \in Codes

\* The frames that may be under way for a worker where it stands.
Asked(c) ==
    {frame \in HasFrames \cup PutFrames :
        \/ wpc[c] = "askedFull" /\ frame = HasFrame(Full[winp[c]])
        \/ wpc[c] = "askedMin"  /\ frame = HasFrame(Min[winp[c]])
        \/ wpc[c] = "stored"    /\ frame \in PutFrames}

\* What a frame is answered with.
Answers(frame) == IF frame \in PutFrames THEN {"ack"} ELSE {"present", "absent"}

\* A request is in one place: in the socket, with the handler, or answered; and it
\* is the one that the worker waits for, unless one of the two has closed its end.
OneInFlight(c) ==
    /\ req[c] # NULL /\ cli[c] # "closed" =>
          cli[c] = "waiting" /\ req[c] \in Asked(c) /\ hpc[c] \notin Busy /\ resp[c] = NULL
    /\ hpc[c] \in Busy /\ srv[c] /\ cli[c] # "closed" =>
          cli[c] = "waiting" /\ work[c].frame \in Asked(c) /\ req[c] = NULL
    /\ resp[c] # NULL =>
          /\ cli[c] = "waiting" /\ req[c] = NULL /\ hpc[c] \notin Busy
          /\ \E frame \in Asked(c) : resp[c] \in Answers(frame)

\* The handler's locals fit its place in the code.
HandlerFits(c) ==
    /\ req[c] # NULL => req[c] \in HasFrames \cup PutFrames
    /\ hpc[c] = "has" => work[c].frame \in HasFrames
    /\ hpc[c] \in {"check", "commit", "count"} => work[c].frame \in PutFrames
    /\ hpc[c] \in {"commit", "count"} => work[c].answer = "ack"
    /\ hpc[c] = "reply" => /\ work[c].frame \in HasFrames \cup PutFrames
                           /\ work[c].answer \in Answers(work[c].frame)

\* An answer "present" is true when it is given and stays true, and the worker that
\* stores a full code alone has been told so of its minimized code.
Truthful(c) ==
    /\ hpc[c] = "reply" /\ work[c].answer = "present" => Found(work[c].frame.key)
    /\ resp[c] = "present" /\ wpc[c] = "askedMin" => Min[winp[c]] \in StoredCodes
    /\ wpc[c] = "storeFull" => Min[winp[c]] = TooLarge \/ Min[winp[c]] \in StoredCodes

\* A list of blobs that run may send, as the database stands.
Justified(blobs) ==
    \E i \in Inputs :
        \/ Min[i] \in Codes /\ blobs = <<Full[i], Min[i]>>
        \/ blobs = <<Full[i]>> /\ (Min[i] = TooLarge \/ Min[i] \in StoredCodes)

\* Every PUT is justified until it is committed, be its worker gone or not, and what
\* the handler has not kept of it is stored.
PutsJustified(c) ==
    /\ req[c] \in PutFrames => Justified(req[c].blobs)
    /\ hpc[c] \in {"check", "commit"} =>
          /\ Justified(work[c].frame.blobs)
          /\ Pending(c) \subseteq Range(work[c].frame.blobs)
          /\ Range(work[c].frame.blobs) \subseteq Pending(c) \cup StoredCodes
    /\ hpc[c] = "commit" => work[c].keep # <<>>

ConnInv(c) == WorkerFits(c) /\ OneInFlight(c) /\ HandlerFits(c) /\ Truthful(c)
              /\ PutsJustified(c)

CampaignInv == TypeInv /\ ShutdownInv /\ WorkerTypes /\ \A c \in Conns : ConnInv(c)

-----------------------------------------------------------------------------
(* Facts about frames and the database.                                    *)

LEMMA FrameFacts ==
    /\ Frames = HasFrames \cup PutFrames
    /\ \A frame \in HasFrames : frame.op = "H" /\ frame \notin PutFrames
    /\ \A frame \in PutFrames : frame.op = "P" /\ frame.blobs \in Payloads
    /\ NULL \notin HasFrames \cup PutFrames
<1>1. StrayFrames = {}
  BY RunPayloadAssumption
<1>2. Frames = HasFrames \cup PutFrames
  BY <1>1 DEF Frames
<1>3. \A frame \in HasFrames : frame.op = "H"
  BY DEF HasFrames
<1>4. \A frame \in PutFrames : frame.op = "P" /\ frame.blobs \in Payloads
  BY DEF PutFrames
<1>5. NULL \notin Frames
  BY NullAssumption
<1> QED BY <1>2, <1>3, <1>4, <1>5

LEMMA ProgramFacts ==
    ASSUME NEW i \in Inputs
    PROVE  /\ Full[i] \in Codes /\ (Min[i] \in Codes \/ Min[i] = TooLarge \/ Min[i] = Failed)
           /\ TooLarge \notin Codes /\ Failed \notin Codes /\ TooLarge # Failed
BY ProgramAssumption DEF Pairs!ProgramsOK

\* What run sends are frames of the protocol.
LEMMA RunFrames ==
    ASSUME NEW i \in Inputs
    PROVE  /\ HasFrame(Full[i]) \in HasFrames /\ PutFrame(<<Full[i]>>) \in PutFrames
           /\ Min[i] \in Codes => /\ HasFrame(Min[i]) \in HasFrames
                                  /\ PutFrame(<<Full[i], Min[i]>>) \in PutFrames
<1>1. \A c \in Codes : makeKey[c] \in Keys
  BY HashAssumption DEF Injection
<1>2. <<Full[i]>> \in Payloads /\ (Min[i] \in Codes => <<Full[i], Min[i]>> \in Payloads)
  BY RunPayloadAssumption DEF RunPayloads
<1> QED BY <1>1, <1>2, ProgramFacts DEF HasFrame, PutFrame, HasFrames, PutFrames

\* SHA-256 has no collisions among the codes.
LEMMA FoundIsStored ==
    ASSUME TypeInv, NEW c \in Codes, Found(makeKey[c])
    PROVE  c \in StoredCodes
<1>1. PICK d \in StoredCodes : makeKey[d] = makeKey[c]
  BY DEF Found
<1>2. log \in Seq(SUBSET Codes)
  BY DEF TypeInv, TypeOK
<1>3. d \in Codes
  BY <1>1, <1>2, LenProperties, ElementOfSeq DEF StoredCodes, CodesUpTo
<1> QED BY <1>1, <1>3, HashAssumption DEF Injection, IsInjective

LEMMA SameLog == log' = log => StoredCodes' = StoredCodes
BY DEF StoredCodes, CodesUpTo

LEMMA StillFound ==
    ASSUME NEW key, Found(key), StoredCodes \subseteq StoredCodes'
    PROVE  Found(key)'
BY DEF Found

-----------------------------------------------------------------------------
(* A connection on which nothing happens but that the server closes its end *)
(* or its handler comes or goes.                                            *)

LEMMA ConnQuieter ==
    ASSUME NEW c \in Conns, ConnInv(c), StoredCodes \subseteq StoredCodes',
           wpc'[c] = wpc[c], winp'[c] = winp[c], cli'[c] = cli[c], req'[c] = req[c],
           resp'[c] = resp[c], srv'[c] => srv[c],
           (hpc'[c] = hpc[c] /\ work'[c] = work[c]) \/ hpc'[c] \notin Busy
    PROVE  ConnInv(c)'
<1>1. WorkerFits(c)'
  BY DEF ConnInv, WorkerFits
<1>2. Asked(c)' = Asked(c)
  BY DEF Asked
<1>3. OneInFlight(c)'
  BY <1>2 DEF ConnInv, OneInFlight
<1>4. HandlerFits(c)'
  BY DEF ConnInv, HandlerFits, Busy
<1>5. Truthful(c)'
  BY StillFound DEF ConnInv, Truthful, Busy
<1>6. PutsJustified(c)'
  <2>1. (req[c] \in PutFrames => Justified(req[c].blobs))'
    BY DEF ConnInv, PutsJustified, Justified
  <2>2. CASE hpc'[c] \in {"check", "commit"}
    <3>1. hpc'[c] = hpc[c] /\ work'[c] = work[c]
      BY <2>2 DEF Busy
    <3>2. Pending(c)' = Pending(c)
      BY <3>1 DEF Pending
    <3>3. Justified(work[c].frame.blobs)'
      BY <2>2, <3>1 DEF ConnInv, PutsJustified, Justified
    <3> QED BY <2>1, <2>2, <3>1, <3>2, <3>3 DEF ConnInv, PutsJustified
  <2>3. CASE hpc'[c] \notin {"check", "commit"}
    BY <2>1, <2>3 DEF PutsJustified
  <2> QED BY <2>2, <2>3
<1> QED BY <1>1, <1>3, <1>4, <1>5, <1>6 DEF ConnInv

\* A step of worker c, or of its handler, leaves the others alone.
LEMMA OneConnection ==
    ASSUME CampaignInv, NEW c \in Conns, ConnInv(c)', StoredCodes \subseteq StoredCodes',
           \A k \in Conns \ {c} :
               /\ wpc'[k] = wpc[k] /\ winp'[k] = winp[k] /\ cli'[k] = cli[k]
               /\ req'[k] = req[k] /\ resp'[k] = resp[k] /\ (srv'[k] => srv[k])
               /\ hpc'[k] = hpc[k] /\ work'[k] = work[k]
    PROVE  \A k \in Conns : ConnInv(k)'
BY ConnQuieter DEF CampaignInv

-----------------------------------------------------------------------------
(* The workers.                                                            *)

\* The others' part of a step of worker c.
WorkerAlone(c) ==
    /\ wpc' = [wpc EXCEPT ![c] = wpc'[c]] /\ winp' = [winp EXCEPT ![c] = winp'[c]]
    /\ cli' = [cli EXCEPT ![c] = cli'[c]] /\ req' = [req EXCEPT ![c] = req'[c]]
    /\ resp' = [resp EXCEPT ![c] = resp'[c]] /\ (srv' = srv \/ srv' = [srv EXCEPT ![c] = TRUE])
    /\ UNCHANGED <<hpc, work, log>>

LEMMA WorkerLeavesOthers ==
    ASSUME CampaignInv, NEW c \in Conns, WorkerAlone(c), ConnInv(c)'
    PROVE  \A k \in Conns : ConnInv(k)'
<1>1. StoredCodes' = StoredCodes
  BY SameLog DEF WorkerAlone
<1>2. ASSUME NEW k \in Conns \ {c}
      PROVE  /\ wpc'[k] = wpc[k] /\ winp'[k] = winp[k] /\ cli'[k] = cli[k]
             /\ req'[k] = req[k] /\ resp'[k] = resp[k] /\ (srv'[k] => srv[k])
             /\ hpc'[k] = hpc[k] /\ work'[k] = work[k]
  BY DEF WorkerAlone, CampaignInv, WorkerTypes, TypeInv, TypeOK
<1> QED BY <1>1, <1>2, OneConnection

\* A frame is sent: nothing else was under way.
LEMMA SendStep ==
    ASSUME CampaignInv, NEW c \in Conns, NEW frame \in HasFrames \cup PutFrames,
           Send(c, frame), WorkerAlone(c), frame \in Asked(c)', wpc'[c] \in Asking,
           wpc'[c] = "askedMin" => Min[winp'[c]] \in Codes,
           frame \in PutFrames => Justified(frame.blobs)
    PROVE  ConnInv(c)'
<1>1. /\ cli[c] = "idle" /\ srv[c] /\ cli'[c] = "waiting" /\ req'[c] = frame
      /\ resp'[c] = resp[c] /\ srv'[c] = srv[c] /\ hpc'[c] = hpc[c] /\ work'[c] = work[c]
  BY DEF Send, WorkerAlone, CampaignInv, TypeInv, TypeOK
<1>2. hpc[c] \notin Busy /\ resp[c] = NULL
  BY <1>1 DEF CampaignInv, ConnInv, OneInFlight
<1>3. WorkerFits(c)'
  BY <1>1 DEF WorkerFits, Asking
<1>4. OneInFlight(c)'
  BY <1>1, <1>2 DEF OneInFlight
<1>5. HandlerFits(c)' /\ Truthful(c)'
  BY <1>1, <1>2, NullAssumption DEF Responses, HandlerFits, Truthful, Busy, Asking
<1>6. StoredCodes' = StoredCodes
  BY SameLog DEF WorkerAlone
<1>7. (req[c] \in PutFrames => Justified(req[c].blobs))'
  BY <1>1, <1>6 DEF Justified
<1>8. PutsJustified(c)'
  BY <1>1, <1>2, <1>7 DEF PutsJustified, Busy
<1> QED BY <1>3, <1>4, <1>5, <1>8 DEF ConnInv

\* The worker does something other than sending, after which nothing is under way
\* for it: it takes its answer, gives up, or has not asked.
LEMMA QuietStep ==
    ASSUME CampaignInv, NEW c \in Conns, WorkerAlone(c), wpc'[c] \notin Asking,
           cli'[c] # "waiting", resp'[c] = NULL,
           cli'[c] # "closed" => req'[c] = NULL /\ (srv'[c] => hpc[c] \notin Busy),
           req'[c] \in {req[c], NULL},
           wpc'[c] # "idle" => cli'[c] = "idle",
           wpc'[c] = "storeBoth" => Min[winp'[c]] \in Codes,
           wpc'[c] = "storeFull" => Min[winp'[c]] = TooLarge \/ Min[winp'[c]] \in StoredCodes
    PROVE  ConnInv(c)'
<1>1. hpc'[c] = hpc[c] /\ work'[c] = work[c] /\ StoredCodes' = StoredCodes /\ ConnInv(c)
  BY SameLog DEF WorkerAlone, CampaignInv
<1>2. WorkerFits(c)'
  BY DEF WorkerFits, Asking
<1>3. OneInFlight(c)'
  BY <1>1 DEF OneInFlight
<1>4. HandlerFits(c)'
  BY <1>1 DEF ConnInv, HandlerFits
<1>5. Truthful(c)'
  BY <1>1, StillFound DEF ConnInv, Truthful, Asking
<1>6. (req[c] \in PutFrames => Justified(req[c].blobs))'
  BY <1>1, FrameFacts DEF ConnInv, PutsJustified, Justified
<1>7. Pending(c)' = Pending(c)
  BY <1>1 DEF Pending
<1>8. hpc[c] \in {"check", "commit"} => Justified(work[c].frame.blobs)'
  BY <1>1 DEF ConnInv, PutsJustified, Justified
<1>9. PutsJustified(c)'
  BY <1>1, <1>6, <1>7, <1>8 DEF ConnInv, PutsJustified
<1> QED BY <1>2, <1>3, <1>4, <1>5, <1>9 DEF ConnInv

\* An answer is taken.
LEMMA ReceiveStep ==
    ASSUME CampaignInv, NEW c \in Conns, WorkerAlone(c), Receive(c), wpc'[c] \notin Asking,
           wpc'[c] = "storeBoth" => Min[winp'[c]] \in Codes,
           wpc'[c] = "storeFull" => Min[winp'[c]] = TooLarge \/ Min[winp'[c]] \in StoredCodes
    PROVE  ConnInv(c)'
<1>1. /\ resp[c] # NULL /\ cli'[c] = "idle" /\ resp'[c] = NULL /\ req'[c] = req[c]
  BY DEF Receive, CampaignInv, TypeInv, TypeOK
<1>2. req[c] = NULL /\ hpc[c] \notin Busy
  BY <1>1 DEF CampaignInv, ConnInv, OneInFlight
<1> QED BY <1>1, <1>2, QuietStep

\* A worker that has not asked anything goes on.
LEMMA UnaskedStep ==
    ASSUME CampaignInv, NEW c \in Conns, WorkerAlone(c), UNCHANGED <<cli, srv, req, resp>>,
           wpc[c] \in {"minimize", "storeFull", "storeBoth"},
           wpc'[c] \in {"storeFull", "idle"},
           wpc'[c] = "storeFull" => Min[winp'[c]] = TooLarge
    PROVE  ConnInv(c)'
<1>1. cli[c] = "idle"
  BY DEF CampaignInv, ConnInv, WorkerFits, Asking
<1>2. req[c] = NULL /\ resp[c] = NULL /\ (srv[c] => hpc[c] \notin Busy)
  BY <1>1 DEF CampaignInv, ConnInv, OneInFlight
<1> QED BY <1>1, <1>2, QuietStep DEF Asking

\* Where an input is at hand, and what it was told of its minimized code.
LEMMA AtWork ==
    ASSUME CampaignInv, NEW c \in Conns, wpc[c] # "idle"
    PROVE  winp[c] \in Inputs /\ ConnInv(c)
BY DEF CampaignInv, WorkerTypes

LEMMA RunStep ==
    ASSUME CampaignInv, NEW c \in Conns, Run(c)
    PROVE  WorkerTypes' /\ WorkerAlone(c) /\ ConnInv(c)'
<1> DEFINE Kept == WorkerTypes' /\ WorkerAlone(c)
<1> USE DEF workerVars, handlerVars, dbVars
<1>1. CASE Connect(c)
  <2>1. Kept
    BY <1>1 DEF Connect, Dial, WorkerAlone, CampaignInv, WorkerTypes, TypeInv, TypeOK
  <2>2. hpc[c] = "none" /\ wpc[c] = "idle" /\ resp[c] = NULL /\ req[c] = NULL
    BY <1>1 DEF Connect, Dial, CampaignInv, ConnInv, WorkerFits, OneInFlight, ShutdownInv,
                OnItsWayOnce
  <2> QED BY <1>1, <2>1, <2>2, QuietStep DEF Connect, Dial, Asking, Busy, CampaignInv, TypeInv,
                                            TypeOK
<1>2. CASE AskFull(c)
  <2>1. PICK i \in Inputs : Send(c, HasFrame(Full[i])) /\ winp' = [winp EXCEPT ![c] = i]
    BY <1>2 DEF AskFull
  <2>2. wpc[c] = "idle" /\ wpc' = [wpc EXCEPT ![c] = "askedFull"]
    BY <1>2 DEF AskFull
  <2>3. Kept
    BY <2>1, <2>2, InputAssumption DEF Send, WorkerAlone, CampaignInv, WorkerTypes, TypeInv, TypeOK
  <2>4. wpc'[c] = "askedFull" /\ winp'[c] = i
    BY <2>1, <2>2 DEF CampaignInv, WorkerTypes
  <2>5. HasFrame(Full[i]) \in HasFrames /\ HasFrame(Full[i]) \notin PutFrames
    BY RunFrames, FrameFacts
  <2>6. HasFrame(Full[i]) \in Asked(c)'
    BY <2>4, <2>5 DEF Asked
  <2>7. PICK frame : frame = HasFrame(Full[i])
    OBVIOUS
  <2> HIDE DEF Kept
  <2>8. ConnInv(c)'
    BY <2>1, <2>3, <2>4, <2>5, <2>6, <2>7, SendStep DEF Kept, Asking
  <2> QED BY <2>3, <2>8 DEF Kept
<1>3. CASE AnsweredFull(c)
  <2>1. wpc[c] = "askedFull" /\ Receive(c)
    BY <1>3 DEF AnsweredFull
  <2>2. \/ wpc' = [wpc EXCEPT ![c] = "minimize"] /\ winp' = winp
        \/ wpc' = [wpc EXCEPT ![c] = "idle"] /\ winp' = [winp EXCEPT ![c] = NULL]
    BY <1>3 DEF AnsweredFull, Goto, Return
  <2>3. Kept
    BY <2>1, <2>2, ZenonT(60) DEF Receive, WorkerAlone, CampaignInv, WorkerTypes, TypeInv, TypeOK
  <2>4. wpc'[c] \in {"minimize", "idle"}
    BY <2>2 DEF CampaignInv, WorkerTypes
  <2> QED BY <2>1, <2>3, <2>4, ReceiveStep DEF Asking
<1>4. CASE Minimize(c) /\ UNCHANGED vars
  <2>1. wpc[c] = "minimize" /\ winp[c] \in Inputs
    BY <1>4, AtWork DEF Minimize
  <2>2. Send(c, HasFrame(Min[winp[c]])) => cli' # cli
    BY DEF Send, CampaignInv, TypeInv, TypeOK
  <2>3. \/ Min[winp[c]] = TooLarge /\ wpc' = [wpc EXCEPT ![c] = "storeFull"] /\ winp' = winp
        \/ wpc' = [wpc EXCEPT ![c] = "idle"] /\ winp' = [winp EXCEPT ![c] = NULL]
    BY <1>4, <2>2 DEF Minimize, Goto, Return, vars, netVars
  <2>4. Kept
    BY <1>4, <2>1, <2>3, ZenonT(60) DEF vars, netVars, WorkerAlone, CampaignInv, WorkerTypes, TypeInv, TypeOK
  <2>5. \/ Min[winp'[c]] = TooLarge /\ wpc'[c] = "storeFull"
        \/ wpc'[c] = "idle"
    BY <2>3 DEF CampaignInv, WorkerTypes
  <2> QED BY <1>4, <2>1, <2>4, <2>5, UnaskedStep DEF vars, netVars
<1>5. CASE Minimize(c) /\ Send(c, HasFrame(Min[winp[c]]))
  <2>1. PICK i \in Inputs : i = winp[c]
    BY <1>5, AtWork DEF Minimize
  <2>2. wpc[c] = "minimize" /\ wpc' = [wpc EXCEPT ![c] = "askedMin"] /\ winp' = winp
        /\ Min[i] \in Codes /\ Send(c, HasFrame(Min[i]))
    <3>1. ~UNCHANGED vars
      BY <1>5 DEF Send, CampaignInv, TypeInv, TypeOK, vars, netVars
    <3> QED BY <1>5, <2>1, <3>1 DEF Minimize, Goto
  <2>3. Kept
    BY <2>1, <2>2 DEF Send, WorkerAlone, CampaignInv, WorkerTypes, TypeInv, TypeOK
  <2>4. wpc'[c] = "askedMin" /\ winp'[c] = i
    BY <2>1, <2>2 DEF CampaignInv, WorkerTypes
  <2>5. HasFrame(Min[i]) \in HasFrames /\ HasFrame(Min[i]) \notin PutFrames
    BY <2>2, RunFrames, FrameFacts
  <2>6. HasFrame(Min[i]) \in Asked(c)'
    BY <2>4, <2>5 DEF Asked
  <2>7. PICK frame : frame = HasFrame(Min[i])
    OBVIOUS
  <2> HIDE DEF Kept
  <2>8. ConnInv(c)'
    BY <2>2, <2>3, <2>4, <2>5, <2>6, <2>7, SendStep DEF Kept, Asking
  <2> QED BY <2>3, <2>8 DEF Kept
<1>6. CASE AnsweredMin(c)
  <2>1. wpc[c] = "askedMin" /\ Receive(c) /\ winp[c] \in Inputs /\ Min[winp[c]] \in Codes
    BY <1>6, AtWork DEF AnsweredMin, ConnInv, WorkerFits
  <2>2. resp[c] \in {"present", "absent"}
    BY <2>1, FrameFacts DEF Receive, CampaignInv, ConnInv, OneInFlight, Asked, Answers, HasFrame,
                            HasFrames
  <2>3. resp[c] = "present" => Min[winp[c]] \in StoredCodes
    BY <2>1 DEF CampaignInv, ConnInv, Truthful
  <2>4. wpc' = [wpc EXCEPT ![c] = IF resp[c] = "absent" THEN "storeBoth" ELSE "storeFull"]
        /\ winp' = winp
    BY <1>6 DEF AnsweredMin, Goto
  <2>5. Kept
    BY <2>1, <2>4 DEF Receive, WorkerAlone, CampaignInv, WorkerTypes, TypeInv, TypeOK
  <2>6. wpc'[c] = (IF resp[c] = "absent" THEN "storeBoth" ELSE "storeFull") /\ winp'[c] = winp[c]
    BY <2>4 DEF CampaignInv, WorkerTypes
  <2> QED BY <2>1, <2>2, <2>3, <2>5, <2>6, ReceiveStep DEF Asking
<1>7. CASE StoreFull(c)
  <2>1. PICK i \in Inputs : i = winp[c]
    BY <1>7, AtWork DEF StoreFull
  <2>2. wpc[c] = "storeFull" /\ wpc' = [wpc EXCEPT ![c] = "stored"] /\ winp' = winp
        /\ Send(c, PutFrame(<<Full[i]>>))
    BY <1>7, <2>1 DEF StoreFull, Goto
  <2>3. Kept
    BY <2>1, <2>2 DEF Send, WorkerAlone, CampaignInv, WorkerTypes, TypeInv, TypeOK
  <2>4. wpc'[c] = "stored"
    BY <2>2 DEF CampaignInv, WorkerTypes
  <2>5. Min[i] = TooLarge \/ Min[i] \in StoredCodes
    BY <2>1, <2>2 DEF CampaignInv, ConnInv, Truthful
  <2>6. PICK frame : frame = PutFrame(<<Full[i]>>)
    OBVIOUS
  <2>7. frame \in PutFrames /\ frame.blobs = <<Full[i]>>
    BY <2>6, RunFrames DEF PutFrame
  <2>8. Justified(frame.blobs)
    BY <2>5, <2>7 DEF Justified
  <2>9. frame \in Asked(c)'
    BY <2>4, <2>7 DEF Asked
  <2> HIDE DEF Kept
  <2>10. ConnInv(c)'
    BY <2>2, <2>3, <2>4, <2>6, <2>7, <2>8, <2>9, SendStep DEF Kept, Asking
  <2> QED BY <2>3, <2>10 DEF Kept
<1>8. CASE StoreBoth(c)
  <2>1. PICK i \in Inputs : i = winp[c]
    BY <1>8, AtWork DEF StoreBoth
  <2>2. wpc[c] = "storeBoth" /\ wpc' = [wpc EXCEPT ![c] = "stored"] /\ winp' = winp
        /\ Send(c, PutFrame(<<Full[i], Min[i]>>))
    BY <1>8, <2>1 DEF StoreBoth, Goto
  <2>3. Kept
    BY <2>1, <2>2 DEF Send, WorkerAlone, CampaignInv, WorkerTypes, TypeInv, TypeOK
  <2>4. wpc'[c] = "stored"
    BY <2>2 DEF CampaignInv, WorkerTypes
  <2>5. Min[i] \in Codes
    BY <2>1, <2>2 DEF CampaignInv, ConnInv, WorkerFits
  <2>6. PICK frame : frame = PutFrame(<<Full[i], Min[i]>>)
    OBVIOUS
  <2>7. frame \in PutFrames /\ frame.blobs = <<Full[i], Min[i]>>
    BY <2>5, <2>6, RunFrames DEF PutFrame
  <2>8. Justified(frame.blobs)
    BY <2>5, <2>7 DEF Justified
  <2>9. frame \in Asked(c)'
    BY <2>4, <2>7 DEF Asked
  <2> HIDE DEF Kept
  <2>10. ConnInv(c)'
    BY <2>2, <2>3, <2>4, <2>6, <2>7, <2>8, <2>9, SendStep DEF Kept, Asking
  <2> QED BY <2>3, <2>10 DEF Kept
<1>9. CASE Stored(c)
  <2>1. Receive(c) /\ wpc' = [wpc EXCEPT ![c] = "idle"] /\ winp' = [winp EXCEPT ![c] = NULL]
    BY <1>9 DEF Stored, Return
  <2>2. Kept
    BY <2>1 DEF Receive, WorkerAlone, CampaignInv, WorkerTypes, TypeInv, TypeOK
  <2>3. wpc'[c] = "idle"
    BY <2>1 DEF CampaignInv, WorkerTypes
  <2> QED BY <2>1, <2>2, <2>3, ReceiveStep DEF Asking
<1>10. CASE SocketError(c) /\ ReceiveError(c)
  <2>1. wpc' = [wpc EXCEPT ![c] = "idle"] /\ winp' = [winp EXCEPT ![c] = NULL]
    BY <1>10 DEF SocketError, Return
  <2>2. Kept
    BY <1>10, <2>1 DEF ReceiveError, WorkerAlone, CampaignInv, WorkerTypes, TypeInv, TypeOK
  <2>3. /\ wpc'[c] = "idle" /\ cli'[c] = "idle" /\ req'[c] = NULL /\ resp'[c] = NULL
        /\ ~srv'[c]
    BY <1>10, <2>1 DEF ReceiveError, CampaignInv, WorkerTypes, TypeInv, TypeOK
  <2> QED BY <2>2, <2>3, QuietStep DEF Asking
<1>11. CASE SocketError(c) /\ UNCHANGED vars
  <2>1. wpc' = [wpc EXCEPT ![c] = "idle"] /\ winp' = [winp EXCEPT ![c] = NULL]
        /\ wpc[c] \in {"minimize", "storeFull", "storeBoth"}
    <3>1. ~ReceiveError(c)
      BY <1>11 DEF ReceiveError, CampaignInv, TypeInv, TypeOK, vars, netVars
    <3> QED BY <1>11, <3>1 DEF SocketError, Return
  <2>2. Kept
    BY <1>11, <2>1 DEF vars, netVars, WorkerAlone, CampaignInv, WorkerTypes, TypeInv, TypeOK
  <2>3. wpc'[c] = "idle"
    BY <2>1 DEF CampaignInv, WorkerTypes
  <2> QED BY <1>11, <2>1, <2>2, <2>3, UnaskedStep DEF vars, netVars
<1>12. CASE WorkerExit(c)
  <2>1. wpc' = [wpc EXCEPT ![c] = "idle"] /\ winp' = [winp EXCEPT ![c] = NULL] /\ Hangup(c)
    BY <1>12 DEF WorkerExit, Return
  <2>2. Kept
    BY <2>1 DEF Hangup, WorkerAlone, CampaignInv, WorkerTypes, TypeInv, TypeOK
  <2>3. /\ wpc'[c] = "idle" /\ cli'[c] = "closed" /\ req'[c] \in {req[c], NULL}
        /\ resp'[c] = NULL
    BY <2>1 DEF Hangup, CampaignInv, WorkerTypes, TypeInv, TypeOK
  <2> QED BY <2>2, <2>3, QuietStep DEF Asking
<1> QED
  BY <1>1, <1>2, <1>3, <1>4, <1>5, <1>6, <1>7, <1>8, <1>9, <1>10, <1>11, <1>12
  DEF Run, Minimize, SocketError

-----------------------------------------------------------------------------
(* The handlers.                                                           *)

\* A step of the handler of c: what it may touch.
HandlerAlone(c) ==
    /\ hpc' = [hpc EXCEPT ![c] = hpc'[c]] /\ work' = [work EXCEPT ![c] = work'[c]]
    /\ req' = [req EXCEPT ![c] = req'[c]] /\ resp' = [resp EXCEPT ![c] = resp'[c]]
    /\ srv' = [srv EXCEPT ![c] = srv'[c]] /\ cli' = cli
    /\ UNCHANGED workerVars

LEMMA HandlerLeavesOthers ==
    ASSUME CampaignInv, NEW c \in Conns, HandlerAlone(c), ConnInv(c)',
           StoredCodes \subseteq StoredCodes'
    PROVE  \A k \in Conns : ConnInv(k)'
<1>1. ASSUME NEW k \in Conns \ {c}
      PROVE  /\ wpc'[k] = wpc[k] /\ winp'[k] = winp[k] /\ cli'[k] = cli[k]
             /\ req'[k] = req[k] /\ resp'[k] = resp[k] /\ (srv'[k] => srv[k])
             /\ hpc'[k] = hpc[k] /\ work'[k] = work[k]
  BY DEF HandlerAlone, CampaignInv, TypeInv, TypeOK, workerVars
<1> QED BY <1>1, OneConnection

\* The handler of c works on the frame that it has read.
LEMMA BusyStep ==
    ASSUME CampaignInv, NEW c \in Conns, HandlerAlone(c), srv'[c] = srv[c],
           StoredCodes \subseteq StoredCodes', hpc'[c] \in Busy,
           \/ req'[c] = req[c] /\ hpc[c] \in Busy /\ work'[c].frame = work[c].frame
           \/ req[c] # NULL /\ req'[c] = NULL /\ work'[c].frame = req[c],
           resp'[c] = resp[c], HandlerFits(c)',
           hpc'[c] = "reply" /\ work'[c].answer = "present" => Found(work[c].frame.key)
                                                             /\ work'[c].frame = work[c].frame,
           PutsJustified(c)'
    PROVE  ConnInv(c)'
<1>1. wpc'[c] = wpc[c] /\ winp'[c] = winp[c] /\ cli'[c] = cli[c] /\ ConnInv(c)
  BY DEF HandlerAlone, workerVars, CampaignInv
<1>2. WorkerFits(c)'
  BY <1>1 DEF ConnInv, WorkerFits
<1>3. Asked(c)' = Asked(c)
  BY <1>1 DEF Asked
<1>4. resp[c] = NULL
  BY <1>1 DEF ConnInv, OneInFlight
<1>5. OneInFlight(c)'
  BY <1>1, <1>3, <1>4 DEF ConnInv, OneInFlight
<1>6. Truthful(c)'
  BY <1>1, <1>4, NullAssumption DEF Responses, ConnInv, Truthful, Found
<1> QED BY <1>2, <1>5, <1>6 DEF ConnInv

LEMMA ReadFrameStep ==
    ASSUME CampaignInv, NEW c \in Conns, ReadFrame(c), UNCHANGED workerVars
    PROVE  HandlerAlone(c) /\ ConnInv(c)' /\ StoredCodes' = StoredCodes
<1>1. StoredCodes' = StoredCodes /\ srv'[c] = srv[c] /\ resp'[c] = resp[c]
  BY SameLog DEF ReadFrame, HandlerOnly, dbVars
<1>2. HandlerAlone(c)
  BY DEF ReadFrame, HandlerOnly, HandlerAlone, workerVars, CampaignInv, TypeInv, TypeOK
<1>3. ConnInv(c) /\ cli'[c] = cli[c] /\ wpc'[c] = wpc[c] /\ winp'[c] = winp[c]
  BY <1>2 DEF HandlerAlone, workerVars, CampaignInv
<1>4. CASE hpc' = [hpc EXCEPT ![c] = "exit"] /\ UNCHANGED <<work, req>>
  <2>1. hpc'[c] = "exit" /\ req'[c] = req[c]
    BY <1>4 DEF CampaignInv, TypeInv, TypeOK
  <2>2. ConnInv(c)'
    BY <1>1, <1>3, <2>1, ConnQuieter DEF Busy
  <2> QED BY <1>1, <1>2, <2>2
<1>5. CASE req[c] # NULL /\ req' = [req EXCEPT ![c] = NULL]
  <2>1. req[c] \in HasFrames \cup PutFrames /\ req'[c] = NULL
    BY <1>3, <1>5 DEF ConnInv, HandlerFits, CampaignInv, TypeInv, TypeOK
  <2>2. CASE req[c] \in HasFrames /\ hpc' = [hpc EXCEPT ![c] = "has"]
             /\ work' = [work EXCEPT ![c] = [NoWork EXCEPT !.frame = req[c]]]
    <3>1. hpc'[c] = "has" /\ work'[c].frame = req[c]
      BY <2>2 DEF NoWork, CampaignInv, TypeInv, TypeOK
    <3>2. HandlerFits(c)' /\ PutsJustified(c)'
      BY <2>1, <2>2, <3>1, FrameFacts DEF HandlerFits, PutsJustified
    <3>3. ConnInv(c)'
      BY <1>1, <1>2, <1>5, <2>1, <3>1, <3>2, BusyStep DEF Busy
    <3> QED BY <1>1, <1>2, <3>3
  <2>3. CASE req[c] \in PutFrames /\ hpc' = [hpc EXCEPT ![c] = "check"]
             /\ work' = [work EXCEPT ![c] = [NoWork EXCEPT !.frame = req[c],
                                                          !.todo = req[c].blobs]]
    <3>1. /\ hpc'[c] = "check" /\ work'[c].frame = req[c] /\ work'[c].todo = req[c].blobs
          /\ work'[c].keep = <<>>
      BY <2>3 DEF NoWork, CampaignInv, TypeInv, TypeOK
    <3>2. HandlerFits(c)'
      BY <2>1, <2>3, <3>1 DEF HandlerFits
    <3>3. Range(<<>>) = {}
      BY DEF Range
    <3>4. Pending(c)' = Range(req[c].blobs)
      BY <3>1, <3>3 DEF Pending
    <3>5. Justified(req[c].blobs)
      BY <1>3, <2>3 DEF ConnInv, PutsJustified
    <3>6. Justified(work[c].frame.blobs)'
      BY <1>1, <3>1, <3>5 DEF Justified
    <3>7. PutsJustified(c)'
      BY <2>1, <3>1, <3>4, <3>6, FrameFacts DEF PutsJustified
    <3>8. ConnInv(c)'
      BY <1>1, <1>2, <1>5, <2>1, <3>1, <3>2, <3>7, BusyStep DEF Busy
    <3> QED BY <1>1, <1>2, <3>8
  <2>4. req[c].op \notin {"badPut", "badFrame"}
    BY <2>1, FrameFacts
  <2>5. /\ req[c].op = "H" => req[c] \in HasFrames
        /\ req[c].op = "P" => req[c] \in PutFrames
    BY <2>1, FrameFacts
  <2> QED BY <1>5, <2>2, <2>3, <2>4, <2>5 DEF ReadFrame, CampaignInv, TypeInv, TypeOK
<1> QED BY <1>4, <1>5 DEF ReadFrame

LEMMA HasStep ==
    ASSUME CampaignInv, NEW c \in Conns, Has(c), UNCHANGED workerVars
    PROVE  HandlerAlone(c) /\ ConnInv(c)' /\ StoredCodes' = StoredCodes
<1>1. StoredCodes' = StoredCodes /\ srv'[c] = srv[c] /\ resp'[c] = resp[c] /\ req'[c] = req[c]
  BY SameLog DEF Has, HandlerOnly, dbVars
<1>2. HandlerAlone(c)
  BY DEF Has, HandlerOnly, HandlerAlone, workerVars, CampaignInv, TypeInv, TypeOK
<1>3. PICK answer \in {"present", "absent"} :
        /\ work' = [work EXCEPT ![c].answer = answer]
        /\ answer = "present" => Found(work[c].frame.key)
  BY DEF Has
<1>4. /\ hpc[c] = "has" /\ hpc'[c] = "reply" /\ work'[c].frame = work[c].frame
      /\ work'[c].answer = answer
  BY <1>3 DEF Has, CampaignInv, TypeInv, TypeOK
<1>5. work[c].frame \in HasFrames /\ ConnInv(c)
  BY <1>4 DEF CampaignInv, ConnInv, HandlerFits
<1>6. HandlerFits(c)'
  BY <1>1, <1>4, <1>5, FrameFacts DEF ConnInv, HandlerFits, Answers
<1>7. PutsJustified(c)'
  BY <1>1, <1>4, <1>5 DEF ConnInv, PutsJustified, Justified
<1>8. ConnInv(c)'
  BY <1>1, <1>2, <1>3, <1>4, <1>6, <1>7, BusyStep DEF Busy
<1> QED BY <1>1, <1>2, <1>8

LEMMA PutCheckStep ==
    ASSUME CampaignInv, NEW c \in Conns, PutCheck(c), UNCHANGED workerVars
    PROVE  HandlerAlone(c) /\ ConnInv(c)' /\ StoredCodes' = StoredCodes
<1>1. StoredCodes' = StoredCodes /\ srv'[c] = srv[c] /\ resp'[c] = resp[c] /\ req'[c] = req[c]
  BY SameLog DEF PutCheck, HandlerOnly, dbVars
<1>2. hpc[c] = "check" /\ TypeInv /\ ConnInv(c) /\ work[c].frame \in PutFrames
  BY DEF PutCheck, CampaignInv, ConnInv, HandlerFits
<1>3. CASE CheckBlob(c)
  <2>1. HandlerAlone(c)
    BY <1>2, <1>3, CheckBlobAccounts DEF PutCheck, HandlerOnly, HandlerAlone, workerVars,
                                         CampaignInv, TypeInv, TypeOK
  <2>2. /\ hpc'[c] \in {"check", "commit", "reply"} /\ work'[c].frame = work[c].frame
        /\ hpc'[c] = "commit" => work'[c].keep # <<>>
        /\ hpc'[c] # "check" => work'[c].answer = "ack"
    BY <1>2, <1>3, CheckBlobAccounts
  <2>3. HandlerFits(c)'
    BY <1>1, <1>2, <2>2 DEF ConnInv, HandlerFits, Answers
  <2>4. Pending(c) = Range(work[c].todo) \cup Range(work[c].keep)
    BY <1>2 DEF Pending
  <2>5. Pending(c)' \subseteq Pending(c) /\ Pending(c) \subseteq Pending(c)' \cup StoredCodes
    BY <1>2, <1>3, <2>4, CheckBlobAccounts
  <2>6. PutsJustified(c)'
    BY <1>1, <1>2, <2>2, <2>5 DEF ConnInv, PutsJustified, Justified
  <2>7. ConnInv(c)'
    BY <1>1, <1>2, <2>1, <2>2, <2>3, <2>6, BusyStep DEF Busy
  <2> QED BY <1>1, <2>1, <2>7
<1>4. CASE work' = [work EXCEPT ![c].answer = "ack"] /\ hpc' = [hpc EXCEPT ![c] = "reply"]
  <2>1. HandlerAlone(c)
    BY <1>4 DEF PutCheck, HandlerOnly, HandlerAlone, workerVars, CampaignInv, TypeInv, TypeOK
  <2>2. hpc'[c] = "reply" /\ work'[c].frame = work[c].frame /\ work'[c].answer = "ack"
    BY <1>4 DEF CampaignInv, TypeInv, TypeOK
  <2>3. HandlerFits(c)'
    BY <1>1, <1>2, <2>2 DEF ConnInv, HandlerFits, Answers
  <2>4. PutsJustified(c)'
    BY <1>1, <1>2, <2>2 DEF ConnInv, PutsJustified, Justified
  <2>5. ConnInv(c)'
    BY <1>1, <1>2, <2>1, <2>2, <2>3, <2>4, BusyStep DEF Busy
  <2> QED BY <1>1, <2>1, <2>5
<1> QED BY <1>3, <1>4 DEF PutCheck

LEMMA PutCommitStep ==
    ASSUME CampaignInv, NEW c \in Conns, PutCommit(c), UNCHANGED workerVars
    PROVE  HandlerAlone(c) /\ ConnInv(c)' /\ StoredCodes \subseteq StoredCodes'
<1>1. /\ srv'[c] = srv[c] /\ resp'[c] = resp[c] /\ req'[c] = req[c]
      /\ work'[c] = work[c] /\ hpc[c] = "commit" /\ hpc'[c] \in {"count", "reply"}
  BY DEF PutCommit, netVars, CampaignInv, TypeInv, TypeOK
<1>2. StoredCodes \subseteq StoredCodes'
  <2>1. CASE log' = Append(log, Range(work[c].keep))
    <3>1. Range(work[c].keep) \in SUBSET Codes
      BY RangeOfSeq DEF CampaignInv, TypeInv, TypeOK
    <3> QED BY <2>1, <3>1, CommitAdds DEF CampaignInv
  <2>2. CASE log' = log
    BY <2>2, SameLog
  <2> QED BY <2>1, <2>2 DEF PutCommit
<1>3. HandlerAlone(c)
  BY DEF PutCommit, netVars, HandlerAlone, workerVars, CampaignInv, TypeInv, TypeOK
<1>4. HandlerFits(c)' /\ work[c].frame \in PutFrames /\ work[c].answer = "ack"
  BY <1>1 DEF CampaignInv, ConnInv, HandlerFits, Answers
<1>5. PutsJustified(c)'
  BY <1>1, <1>2 DEF CampaignInv, ConnInv, PutsJustified, Justified
<1>6. ConnInv(c)'
  BY <1>1, <1>2, <1>3, <1>4, <1>5, BusyStep DEF Busy
<1> QED BY <1>2, <1>3, <1>6

LEMMA PutCountStep ==
    ASSUME CampaignInv, NEW c \in Conns, PutCount(c), UNCHANGED workerVars
    PROVE  HandlerAlone(c) /\ ConnInv(c)' /\ StoredCodes' = StoredCodes
<1>1. /\ srv'[c] = srv[c] /\ resp'[c] = resp[c] /\ req'[c] = req[c]
      /\ work'[c] = work[c] /\ hpc[c] = "count" /\ hpc'[c] = "reply"
  BY DEF PutCount, HandlerOnly, CampaignInv, TypeInv, TypeOK
<1>2. StoredCodes' = StoredCodes
  BY SameLog DEF PutCount, HandlerOnly, dbVars
<1>3. HandlerAlone(c)
  BY DEF PutCount, HandlerOnly, HandlerAlone, workerVars, CampaignInv, TypeInv, TypeOK
<1>4. HandlerFits(c)' /\ work[c].frame \in PutFrames /\ work[c].answer = "ack"
  BY <1>1 DEF CampaignInv, ConnInv, HandlerFits, Answers
<1>5. PutsJustified(c)'
  BY <1>1, <1>2 DEF CampaignInv, ConnInv, PutsJustified, Justified
<1>6. ConnInv(c)'
  BY <1>1, <1>2, <1>3, <1>4, <1>5, BusyStep DEF Busy
<1> QED BY <1>2, <1>3, <1>6

\* The answer goes to the worker that asked; "present" is true when it arrives.
LEMMA ReplyStep ==
    ASSUME CampaignInv, NEW c \in Conns, Reply(c), UNCHANGED workerVars
    PROVE  HandlerAlone(c) /\ ConnInv(c)' /\ StoredCodes' = StoredCodes
<1>1. srv'[c] = srv[c] /\ req'[c] = req[c] /\ hpc[c] = "reply" /\ StoredCodes' = StoredCodes
  BY SameLog DEF Reply, dbVars
<1>2. HandlerAlone(c)
  BY DEF Reply, HandlerAlone, workerVars, CampaignInv, TypeInv, TypeOK
<1>3. ConnInv(c) /\ cli'[c] = cli[c] /\ wpc'[c] = wpc[c] /\ winp'[c] = winp[c]
  BY <1>2 DEF HandlerAlone, workerVars, CampaignInv
<1>4. CASE srv[c] /\ cli[c] # "closed"
  <2>1. hpc'[c] = "read" /\ resp'[c] = work[c].answer
    BY <1>4 DEF Reply, CampaignInv, TypeInv, TypeOK
  <2>2. /\ cli[c] = "waiting" /\ work[c].frame \in Asked(c) /\ req[c] = NULL
        /\ work[c].answer \in Answers(work[c].frame)
    BY <1>1, <1>3, <1>4 DEF ConnInv, OneInFlight, HandlerFits, Busy
  <2>3. WorkerFits(c)' /\ Asked(c)' = Asked(c)
    BY <1>3 DEF ConnInv, WorkerFits, Asked
  <2>4. OneInFlight(c)'
    BY <1>1, <1>3, <2>1, <2>2, <2>3 DEF OneInFlight, Busy
  <2>5. HandlerFits(c)'
    BY <1>1, <2>1, <2>2 DEF HandlerFits
  <2>6. resp'[c] = "present" /\ wpc[c] = "askedMin" => Min[winp[c]] \in StoredCodes
    <3> SUFFICES ASSUME work[c].answer = "present", wpc[c] = "askedMin"
                 PROVE  Min[winp[c]] \in StoredCodes
      BY <2>1
    <3>1. Found(work[c].frame.key)
      BY <1>1, <1>3 DEF ConnInv, Truthful
    <3>2. work[c].frame.key = makeKey[Min[winp[c]]]
      BY <2>2 DEF Asked, HasFrame
    <3>3. Min[winp[c]] \in Codes
      BY <1>3 DEF ConnInv, WorkerFits
    <3> QED BY <3>1, <3>2, <3>3, FoundIsStored DEF CampaignInv
  <2>7. Truthful(c)'
    BY <1>1, <1>3, <2>1, <2>6 DEF ConnInv, Truthful
  <2>8. PutsJustified(c)'
    BY <1>1, <2>1, <2>2, FrameFacts DEF PutsJustified
  <2> QED BY <1>1, <1>2, <2>3, <2>4, <2>5, <2>7, <2>8 DEF ConnInv
<1>5. CASE ~(srv[c] /\ cli[c] # "closed")
  <2>1. hpc'[c] = "exit" /\ resp'[c] = resp[c]
    BY <1>5 DEF Reply, CampaignInv, TypeInv, TypeOK
  <2>2. ConnInv(c)'
    BY <1>1, <1>3, <2>1, ConnQuieter DEF Busy
  <2> QED BY <1>1, <1>2, <2>2
<1> QED BY <1>4, <1>5

LEMMA HandlerEndStep ==
    ASSUME CampaignInv, NEW c \in Conns, UntrackConn(c) \/ CloseConn(c), UNCHANGED workerVars
    PROVE  HandlerAlone(c) /\ ConnInv(c)' /\ StoredCodes' = StoredCodes
<1>1. StoredCodes' = StoredCodes /\ req'[c] = req[c] /\ resp'[c] = resp[c]
  BY SameLog DEF UntrackConn, CloseConn, dbVars, netVars
<1>2. HandlerAlone(c) /\ hpc'[c] \in {"closeConn", "done"} /\ (srv'[c] => srv[c])
  BY DEF UntrackConn, CloseConn, netVars, HandlerAlone, workerVars, CampaignInv, TypeInv, TypeOK
<1>3. ConnInv(c) /\ cli'[c] = cli[c] /\ wpc'[c] = wpc[c] /\ winp'[c] = winp[c]
  BY <1>2 DEF HandlerAlone, workerVars, CampaignInv
<1>4. ConnInv(c)'
  BY <1>1, <1>2, <1>3, ConnQuieter DEF Busy
<1> QED BY <1>1, <1>2, <1>4

LEMMA HandleStep ==
    ASSUME CampaignInv, NEW c \in Conns, Handle(c), UNCHANGED workerVars
    PROVE  \A k \in Conns : ConnInv(k)'
<1>1. HandlerAlone(c) /\ ConnInv(c)' /\ StoredCodes \subseteq StoredCodes'
  BY ReadFrameStep, HasStep, PutCheckStep, PutCommitStep, PutCountStep, ReplyStep,
     HandlerEndStep DEF Handle
<1> QED BY <1>1, HandlerLeavesOthers

-----------------------------------------------------------------------------
(* The acceptor, the main goroutine, and the start of the process.         *)

LEMMA ServerStep ==
    ASSUME CampaignInv, Serve \/ CloseListener \/ Shutdown, UNCHANGED workerVars
    PROVE  \A k \in Conns : ConnInv(k)'
<1> SUFFICES ASSUME NEW k \in Conns PROVE ConnInv(k)'
  OBVIOUS
<1>1. log' = log
  BY DEF Serve, Accept, StopAccepting, TrackConn, Refuse, Spawn, CloseListener, Shutdown,
         CloseTracked, WaitHandlers, CloseDB, dbVars
<1>2. cli' = cli /\ req' = req /\ resp' = resp /\ work' = work
  BY DEF Serve, Accept, StopAccepting, TrackConn, Refuse, Spawn, CloseListener, Shutdown,
         CloseTracked, WaitHandlers, CloseDB, handlerVars, netVars
<1>3. srv'[k] => srv[k]
  BY DEF Serve, Accept, StopAccepting, TrackConn, Refuse, Spawn, CloseListener, Shutdown,
         CloseTracked, WaitHandlers, CloseDB, netVars, CampaignInv, TypeInv, TypeOK
<1>4. hpc'[k] = hpc[k] \/ hpc'[k] = "read"
  BY DEF Serve, Accept, StopAccepting, TrackConn, Refuse, Spawn, CloseListener, Shutdown,
         CloseTracked, WaitHandlers, CloseDB, handlerVars, CampaignInv, TypeInv, TypeOK
<1>5. ConnInv(k) /\ StoredCodes' = StoredCodes
  BY <1>1, SameLog DEF CampaignInv
<1> QED BY <1>2, <1>3, <1>4, <1>5, ConnQuieter DEF workerVars, Busy

\* A process that has just started: nothing is connected, nothing is under way.
Fresh == /\ wpc = [c \in Conns |-> "idle"] /\ winp = [c \in Conns |-> NULL]
         /\ hpc = [c \in Conns |-> "none"] /\ cli = [c \in Conns |-> "new"]
         /\ req = [c \in Conns |-> NULL] /\ resp = [c \in Conns |-> NULL]

LEMMA FreshStart == Fresh => WorkerTypes /\ \A c \in Conns : ConnInv(c)
<1> SUFFICES ASSUME Fresh PROVE WorkerTypes /\ \A c \in Conns : ConnInv(c)
  OBVIOUS
<1>1. WorkerTypes
  BY DEF Fresh, WorkerTypes
<1>2. ASSUME NEW c \in Conns PROVE ConnInv(c)
  <2>1. /\ wpc[c] = "idle" /\ hpc[c] = "none" /\ cli[c] = "new" /\ req[c] = NULL
        /\ resp[c] = NULL
    BY DEF Fresh
  <2> QED BY <2>1, FrameFacts DEF ConnInv, WorkerFits, OneInFlight, HandlerFits, Truthful,
                                  PutsJustified, Asking, Busy
<1> QED BY <1>1, <1>2

LEMMA CampaignInit == CInit => CampaignInv
<1> SUFFICES ASSUME CInit PROVE CampaignInv
  OBVIOUS
<1>1. Fresh
  BY DEF CInit, Init, Fresh
<1> QED BY <1>1, FreshStart, TypeInit, ShutdownInit DEF CampaignInv, CInit

\* Every step of the campaign is a step of the database server.
LEMMA ServerServesCampaign == CampaignInv /\ [CNext]_campaignVars => [Next]_vars
<1> SUFFICES ASSUME CampaignInv, [CNext]_campaignVars PROVE [Next]_vars
  OBVIOUS
<1>1. ASSUME NEW c \in Conns, Run(c) PROVE [Next]_vars
  <2>1. ASSUME NEW frame \in HasFrames \cup PutFrames, Send(c, frame) PROVE Next
    BY <2>1, FrameFacts DEF Next, Worker
  <2>2. CASE AskFull(c)
    <3>1. PICK i \in Inputs : Send(c, HasFrame(Full[i]))
      BY <2>2 DEF AskFull
    <3> QED BY <2>1, <3>1, RunFrames
  <2>3. CASE Minimize(c)
    <3>1. winp[c] \in Inputs
      BY <2>3, AtWork DEF Minimize
    <3>2. CASE Min[winp[c]] \in Codes /\ Send(c, HasFrame(Min[winp[c]]))
      <4>1. PICK i \in Inputs : i = winp[c]
        BY <3>1
      <4> QED BY <2>1, <3>2, <4>1, RunFrames
    <3> QED BY <2>3, <3>2 DEF Minimize
  <2>4. CASE StoreFull(c)
    <3>1. PICK i \in Inputs : i = winp[c]
      BY <2>4, AtWork DEF StoreFull
    <3> QED BY <2>1, <2>4, <3>1, RunFrames DEF StoreFull
  <2>5. CASE StoreBoth(c)
    <3>1. PICK i \in Inputs : i = winp[c]
      BY <2>5, AtWork DEF StoreBoth
    <3>2. Min[i] \in Codes
      BY <2>5, <3>1, AtWork DEF StoreBoth, ConnInv, WorkerFits
    <3> QED BY <2>1, <2>5, <3>1, <3>2, RunFrames DEF StoreBoth
  <2>6. CASE Dial(c) \/ Receive(c) \/ ReceiveError(c) \/ Hangup(c) \/ UNCHANGED vars
    BY <2>6 DEF Next, Worker
  <2> QED BY <1>1, <2>2, <2>3, <2>4, <2>5, <2>6
          DEF Run, Connect, AnsweredFull, AnsweredMin, Stored, SocketError, WorkerExit
<1>2. CASE \E c \in Conns : Handle(c)
  BY <1>2 DEF Next
<1>3. CASE Serve \/ CloseListener \/ Shutdown \/ Restart \/ Terminated
  BY <1>3 DEF Next
<1>4. CASE UNCHANGED campaignVars
  BY <1>4 DEF campaignVars
<1> QED BY <1>1, <1>2, <1>3, <1>4 DEF CNext, NewRun

LEMMA CampaignNext == CampaignInv /\ [CNext]_campaignVars => CampaignInv'
<1> SUFFICES ASSUME CampaignInv, [CNext]_campaignVars PROVE CampaignInv'
  OBVIOUS
<1>1. TypeInv' /\ ShutdownInv'
  BY ServerServesCampaign, TypeNext, ShutdownNext DEF CampaignInv
<1>2. ASSUME NEW c \in Conns, Run(c) PROVE WorkerTypes' /\ \A k \in Conns : ConnInv(k)'
  BY <1>2, RunStep, WorkerLeavesOthers
<1>3. ASSUME UNCHANGED workerVars PROVE WorkerTypes'
  BY <1>3 DEF CampaignInv, WorkerTypes, workerVars
<1>4. ASSUME NEW c \in Conns, Handle(c), UNCHANGED workerVars
      PROVE  \A k \in Conns : ConnInv(k)'
  BY <1>4, HandleStep
<1>5. ASSUME Serve \/ CloseListener \/ Shutdown, UNCHANGED workerVars
      PROVE  \A k \in Conns : ConnInv(k)'
  BY <1>5, ServerStep
<1>6. ASSUME NewRun PROVE WorkerTypes' /\ \A k \in Conns : ConnInv(k)'
  <2>1. Fresh'
    BY <1>6 DEF NewRun, Restart, Fresh
  <2>2. (WorkerTypes /\ \A c \in Conns : ConnInv(c))'
    BY <2>1, FreshStart, PTL
  <2> QED BY <2>2
<1>7. ASSUME UNCHANGED campaignVars PROVE \A k \in Conns : ConnInv(k)'
  <2>1. StoredCodes' = StoredCodes
    BY <1>7, SameLog DEF campaignVars, vars, dbVars
  <2>2. /\ wpc' = wpc /\ winp' = winp /\ cli' = cli /\ req' = req /\ resp' = resp
        /\ srv' = srv /\ hpc' = hpc /\ work' = work
    BY <1>7 DEF campaignVars, vars, workerVars, handlerVars, netVars
  <2> QED BY <2>1, <2>2, ConnQuieter DEF CampaignInv
<1>8. WorkerTypes'
  BY <1>2, <1>3, <1>6 DEF CNext, campaignVars
<1>9. \A k \in Conns : ConnInv(k)'
  BY <1>2, <1>4, <1>5, <1>6, <1>7 DEF CNext, campaignVars, Terminated
<1> QED BY <1>1, <1>8, <1>9 DEF CampaignInv

\* The campaign is a client of the server: what is proved of the server, whatever its
\* clients send, holds in every campaign.
THEOREM CampaignUsesServer == CSpec => Spec
<1>1. CInit => Init
  BY DEF CInit
<1> QED BY <1>1, CampaignInit, CampaignNext, ServerServesCampaign, PTL DEF CSpec, Spec

\* Every variable of workers and server keeps its type, and a worker has an input
\* exactly while it is at work on one.
THEOREM CampaignTypeCorrect == CSpec => []CTypeOK
<1>1. CampaignInv => CTypeOK
  BY DEF CampaignInv, CTypeOK, TypeInv, WorkerTypes
<1> QED BY <1>1, CampaignInit, CampaignNext, PTL DEF CSpec

\* Get and putBlobs never fail with "unexpected response": each answer is one to the
\* request its worker waits for, whatever was closed, lost or restarted meanwhile.
THEOREM AnswersFit == CSpec => []ResponsesFit
<1>1. CampaignInv => ResponsesFit
  <2> SUFFICES ASSUME CampaignInv, NEW c \in Conns, resp[c] # NULL
               PROVE  \/ wpc[c] \in {"askedFull", "askedMin"} /\ resp[c] \in {"present", "absent"}
                      \/ wpc[c] = "stored" /\ resp[c] = "ack"
    BY DEF ResponsesFit
  <2>1. PICK frame \in Asked(c) : resp[c] \in Answers(frame)
    BY DEF CampaignInv, ConnInv, OneInFlight
  <2>2. \/ wpc[c] \in {"askedFull", "askedMin"} /\ frame.op = "H"
        \/ wpc[c] = "stored" /\ frame \in PutFrames
    BY <2>1 DEF Asked, HasFrame
  <2> QED BY <2>1, <2>2, FrameFacts DEF Answers
<1> QED BY <1>1, CampaignInit, CampaignNext, PTL DEF CSpec

-----------------------------------------------------------------------------
(* The campaign implements the pair store.                                 *)

LEMMA DatabaseIsStored == Pairs!Database = StoredCodes
BY DEF Pairs!Database, Pairs!Recorded, StoredCodes, CodesUpTo

\* A commit is the record of a pair, or of a full code that has none to wait for,
\* whether its worker still lives or not.
LEMMA CommitRecords ==
    ASSUME CampaignInv, NEW c \in Conns, PutCommit(c), log' # log
    PROVE  Pairs!Next
<1>1. hpc[c] = "commit" /\ log' = Append(log, Range(work[c].keep))
  BY DEF PutCommit
<1>2. Pending(c) = Range(work[c].keep)
  BY <1>1 DEF Pending
<1>3. PICK S : S = Range(work[c].keep)
  OBVIOUS
<1>4. PICK blobs : blobs = work[c].frame.blobs
  OBVIOUS
<1>5. /\ Justified(blobs) /\ S \subseteq Range(blobs)
      /\ Range(blobs) \subseteq S \cup StoredCodes /\ work[c].keep # <<>>
  BY <1>1, <1>2, <1>3, <1>4 DEF CampaignInv, ConnInv, PutsJustified
<1>6. Pairs!Write(S)
  BY <1>1, <1>3 DEF Pairs!Write
<1>7. PICK i \in Inputs :
        \/ Min[i] \in Codes /\ blobs = <<Full[i], Min[i]>>
        \/ blobs = <<Full[i]>> /\ (Min[i] = TooLarge \/ Min[i] \in StoredCodes)
  BY <1>5 DEF Justified
<1>8. CASE Min[i] \in Codes /\ blobs = <<Full[i], Min[i]>>
  <2>1. Range(blobs) = {Full[i], Min[i]}
    BY <1>8 DEF Range
  <2> QED BY <1>5, <1>6, <1>8, <2>1, DatabaseIsStored DEF Pairs!Next, Pairs!RecordPair
<1>9. CASE blobs = <<Full[i]>> /\ (Min[i] = TooLarge \/ Min[i] \in StoredCodes)
  <2>1. Range(blobs) = {Full[i]}
    BY <1>9 DEF Range
  <2>2. S # {}
    <3>1. work[c].keep \in Seq(Codes)
      BY DEF CampaignInv, TypeInv, TypeOK
    <3>2. Head(work[c].keep) \in Range(work[c].keep)
      BY <1>5, <3>1, RangeHeadTail
    <3> QED BY <1>3, <3>2
  <2>3. S = {Full[i]}
    BY <1>5, <2>1, <2>2
  <2> QED BY <1>6, <1>9, <2>3, DatabaseIsStored DEF Pairs!Next, Pairs!RecordFull
<1> QED BY <1>7, <1>8, <1>9

LEMMA CampaignRefines == CampaignInv /\ [CNext]_campaignVars => [Pairs!Next]_log
<1> SUFFICES ASSUME CampaignInv, [CNext]_campaignVars, log' # log PROVE Pairs!Next
  OBVIOUS
<1>1. CASE \E c \in Conns : Run(c)
  BY <1>1, RunStep DEF WorkerAlone
<1>2. CASE \E c \in Conns : Handle(c)
  <2>1. PICK c \in Conns : Handle(c)
    BY <1>2
  <2>2. PutCommit(c)
    BY <2>1 DEF Handle, ReadFrame, Has, PutCheck, PutCount, Reply, UntrackConn, CloseConn,
                HandlerOnly, dbVars
  <2> QED BY <2>2, CommitRecords
<1>3. CASE Serve \/ CloseListener \/ Shutdown
  BY <1>3 DEF Serve, Accept, StopAccepting, TrackConn, Refuse, Spawn, CloseListener, Shutdown,
              CloseTracked, WaitHandlers, CloseDB, dbVars
<1>4. CASE NewRun
  <2>1. PICK n \in durable..Len(log) : log' = SubSeq(log, 1, n)
    BY <1>4 DEF NewRun, Restart
  <2>2. n \in 0..Len(log)
    BY <2>1 DEF CampaignInv, TypeInv, TypeOK
  <2> QED BY <2>1, <2>2 DEF Pairs!Next, Pairs!Lose
<1>5. CASE Terminated \/ UNCHANGED campaignVars
  BY <1>5 DEF Terminated, campaignVars, vars, dbVars
<1> QED BY <1>1, <1>2, <1>3, <1>4, <1>5 DEF CNext

\* Workers, server, shutdown, failing calls, hang-ups and crashes together do to the
\* database what the pair store allows: a full code is written with its minimized
\* code, after it, or when it has none; a crash loses the last writes.
THEOREM CampaignStoresPairs == CSpec => ImplementsPairStore
<1>1. CInit => Pairs!Init
  BY DEF CInit, Init, Pairs!Init
<1> QED
  BY <1>1, CampaignInit, CampaignNext, CampaignRefines, PTL
  DEF CSpec, ImplementsPairStore, Pairs!Spec

-----------------------------------------------------------------------------
(* The pair store keeps its promise.  A crash may fall back to any earlier   *)
(* write, so the invariant speaks of all of them.                            *)

\* The log and its writes.
LogOK == log \in Seq(SUBSET Codes)

\* Whatever number of writes a crash leaves, they are closed.
PrefixesClosed == \A n \in 0..Len(log) : Pairs!Closed(Pairs!Recorded(n))

PairInv == LogOK /\ PrefixesClosed

\* What accounts for a code in a set accounts for it in a larger one.
LEMMA AccountsMonotone ==
    ASSUME NEW S, NEW T, S \subseteq T, NEW i \in Inputs, NEW c, Pairs!Accounts(i, c, S)
    PROVE  Pairs!Accounts(i, c, T)
BY DEF Pairs!Accounts

\* A write that keeps the database closed keeps every prefix closed.
LEMMA WriteKeepsPrefixes ==
    ASSUME PairInv, NEW S \in SUBSET Codes, Pairs!Write(S), Pairs!Closed(Pairs!Database \cup S)
    PROVE  PairInv'
<1> USE DEF PairInv, LogOK
<1>1. log' = Append(log, S) /\ log' \in Seq(SUBSET Codes) /\ Len(log') = Len(log) + 1
  BY DEF Pairs!Write
<1>2. ASSUME NEW n \in 0..Len(log) PROVE Pairs!Recorded(n)' = Pairs!Recorded(n)
  <2>1. \A k \in 1..n : log'[k] = log[k]
    BY <1>1
  <2> QED BY <2>1 DEF Pairs!Recorded
<1>3. PICK m \in Nat : m = Len(log) + 1
  OBVIOUS
<1>4. Pairs!Recorded(m)' = Pairs!Database \cup S
  <2>1. \A k \in 1..Len(log) : log'[k] = log[k]
    BY <1>1
  <2>2. log'[m] = S
    BY <1>1, <1>3
  <2>3. 1..m = (1..Len(log)) \cup {m}
    BY <1>3
  <2>4. UNION {log'[k] : k \in 1..m} = (UNION {log[k] : k \in 1..Len(log)}) \cup S
    BY <2>1, <2>2, <2>3
  <2> QED BY <2>4 DEF Pairs!Recorded, Pairs!Database
<1>5. ASSUME NEW n \in 0..Len(log') PROVE Pairs!Closed(Pairs!Recorded(n)')
  <2>1. CASE n \in 0..Len(log)
    BY <2>1, <1>2 DEF PrefixesClosed
  <2>2. CASE n = m
    BY <2>2, <1>4
  <2> QED BY <2>1, <2>2, <1>1, <1>3
<1> QED BY <1>1, <1>5 DEF PrefixesClosed, Pairs!Closed, Pairs!Accounts

\* Adding codes that some input accounts for keeps a set closed.
LEMMA ClosedUnion ==
    ASSUME NEW D, Pairs!Closed(D), NEW S \in SUBSET Codes,
           \A c \in S : \E i \in Inputs : Pairs!Accounts(i, c, D \cup S)
    PROVE  Pairs!Closed(D \cup S)
BY AccountsMonotone DEF Pairs!Closed

LEMMA PairStep == PairInv /\ [Pairs!Next]_log => PairInv'
<1> SUFFICES ASSUME PairInv, [Pairs!Next]_log PROVE PairInv'
  OBVIOUS
<1>1. Pairs!Closed(Pairs!Database) /\ Len(log) \in Nat
  BY DEF PairInv, LogOK, PrefixesClosed, Pairs!Database
<1>2. ASSUME NEW i \in Inputs, Pairs!RecordPair(i) PROVE PairInv'
  <2>1. PICK S \in SUBSET {Full[i], Min[i]} :
           {Full[i], Min[i]} \subseteq Pairs!Database \cup S /\ Pairs!Write(S)
    BY <1>2 DEF Pairs!RecordPair
  <2>2. Full[i] \in Codes /\ Min[i] \in Codes
    BY <1>2, ProgramFacts DEF Pairs!RecordPair
  <2>3. Pairs!Accounts(i, Full[i], Pairs!Database \cup S) /\ Pairs!Accounts(i, Min[i], Pairs!Database \cup S)
    BY <2>1 DEF Pairs!Accounts
  <2>4. Pairs!Closed(Pairs!Database \cup S)
    BY <2>1, <2>2, <2>3, <1>1, ClosedUnion
  <2> QED BY <2>1, <2>2, <2>4, WriteKeepsPrefixes
<1>3. ASSUME NEW i \in Inputs, Pairs!RecordFull(i) PROVE PairInv'
  <2>1. Full[i] \in Codes /\ Pairs!Write({Full[i]})
    BY <1>3, ProgramFacts DEF Pairs!RecordFull
  <2>2. Pairs!Accounts(i, Full[i], Pairs!Database \cup {Full[i]})
    BY <1>3 DEF Pairs!RecordFull, Pairs!Accounts
  <2>3. Pairs!Closed(Pairs!Database \cup {Full[i]})
    BY <2>1, <2>2, <1>1, ClosedUnion
  <2> QED BY <2>1, <2>3, WriteKeepsPrefixes
<1>4. CASE Pairs!Lose
  <2>1. PICK m \in 0..Len(log) : log' = SubSeq(log, 1, m)
    BY <1>4 DEF Pairs!Lose
  <2>2. log' \in Seq(SUBSET Codes) /\ Len(log') = m /\ \A k \in 1..m : log'[k] = log[k]
    BY <2>1 DEF PairInv, LogOK
  <2>3. ASSUME NEW n \in 0..m PROVE Pairs!Recorded(n)' = Pairs!Recorded(n)
    <3>1. \A k \in 1..n : log'[k] = log[k]
      BY <2>2
    <3> QED BY <3>1 DEF Pairs!Recorded
  <2>4. \A n \in 0..m : Pairs!Closed(Pairs!Recorded(n)')
    BY <2>3 DEF PairInv, PrefixesClosed
  <2> QED BY <2>2, <2>4 DEF PairInv, LogOK, PrefixesClosed, Pairs!Closed, Pairs!Accounts
<1>5. CASE UNCHANGED log
  BY <1>5 DEF PairInv, LogOK, PrefixesClosed, Pairs!Closed, Pairs!Accounts, Pairs!Recorded
<1> QED BY <1>2, <1>3, <1>4, <1>5 DEF Pairs!Next

\* No step of the pair store, a crash included, leaves a full code without its
\* minimized code: run's promise that no program is skipped forever.
LEMMA PairsStayClosed == Pairs!Spec => []PairClosed
<1>1. Pairs!Init => PairInv
  BY DEF Pairs!Init, PairInv, LogOK, PrefixesClosed, Pairs!Recorded, Pairs!Closed
<1>2. PairInv => PairClosed
  BY DEF PairInv, LogOK, PrefixesClosed, PairClosed, Pairs!PairClosed, Pairs!Database
<1> QED BY <1>1, <1>2, PairStep, PTL DEF Pairs!Spec

\* What run's comment promises of the campaign: whatever fails, and whenever the
\* process is killed, no full code is in the database without its minimized code.
THEOREM CampaignClosesPairs == CSpec => []PairClosed
BY CampaignStoresPairs, PairsStayClosed DEF ImplementsPairStore

=============================================================================
