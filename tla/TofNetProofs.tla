---------------------------- MODULE TofNetProofs -----------------------------
(***************************************************************************)
(* The user's commands and the camera, across both machines, for any modes *)
(* and connections, any buffer sizes and limits, and with every failure of *)
(* the network and of Machine A.                                           *)
(*                                                                         *)
(* What the camera will do once everything has arrived is decided by the   *)
(* last command in flight on the connection or, when none is, by what the  *)
(* main thread of the collector is doing (Asked).  The GUI's location says *)
(* which modes that may be (Wanted): none after Stop, the one last played  *)
(* while it plays.  A connection B has not yet installed has carried no    *)
(* command (Untouched), so a reconnect never resumes an old request.       *)
(*                                                                         *)
(* The second part is about Machine B by itself, whatever connects to it.  *)
(***************************************************************************)
EXTENDS TofNet, SequenceTheorems, TLAPS

(* The types the argument needs. *)
Typed ==
  /\ down \in [Conns -> Seq(DownMsg)]
  /\ backlog \in Seq(Conns)
  /\ aSock \in Conns \cup {NoConn}
  /\ selected \in Modes /\ playedMode \in Modes /\ config \in Modes

(* A connection waits in the listener's backlog once, and not after it was  *)
(* accepted.                                                                *)
QueuedOnce ==
  /\ \A i, j \in 1..Len(backlog) : backlog[i] = backlog[j] => i = j
  /\ bSock \notin Queued

------------------------------------------------------------------------------
(* Locations of the main thread with neither a stream nor its thread. *)
AtRest == {"connect", "hello", "ccb", "dealias", "ready", "acknowledge",
           "close", "caught", "sleep", "exit", "fps", "sendDealias",
           "exportDealias", "switch"}

InStopThread == pc \in {"clearRun", "stopCamera", "join"}
Preparing ==
  \/ pc \in {"accepted", "fps", "sendDealias", "exportDealias", "switch"}
  \/ InStopThread /\ after = "start"
Still == ~streaming /\ cpc \in {"none", "done"}

CollectorRests ==
  /\ pc \in AtRest => ~streaming /\ cpc = "none"
  /\ pc = "join" => ~streaming
  /\ InStopThread => after \in DOMAIN AfterStop

(* The mode, if any, that the main thread is about to start or has started  *)
(* is one of S.                                                             *)
Doing(S) ==
  /\ Preparing => req \in S
  /\ pc \in {"start", "setRun", "announce", "spawn"} => modeName \in S
  /\ pc \in {"loop", "recv"} => modeName \in S \/ Still

Final(s) == s[Len(s)]

(* The last command B has sent on A's connection leads to one of S. *)
Asked(S) ==
  IF down[aSock] = <<>> THEN Doing(S)
  ELSE \/ Final(down[aSock]).type = "StopCapture"
       \/ /\ Final(down[aSock]).type = "StartCapture"
          /\ Final(down[aSock]).mode \in S

------------------------------------------------------------------------------
(* The modes the viewer may have asked for last, by where its GUI is. *)
Wanted ==
  IF gpc = "sendStop" \/ (gpc = "idle" /\ ~fresh) THEN {playedMode}
  ELSE IF gpc = "startSent" THEN {config} ELSE {}

GuiConsistent ==
  /\ ~playing => fresh
  /\ gpc \in {"sendStart", "startSent"} => config = selected
  /\ gpc \notin {"sendStart", "startSent"} /\ ~fresh => config = playedMode
  /\ gpc \in {"prepare", "configure", "sendStart", "startSent"} => playing
  /\ gpc \in {"sendStop", "stopSent"} =>
       \/ then = "closeSockets"
       \/ then = "prepare" /\ playing
       \/ then = "idle" /\ fresh

(* No command has been sent on a connection B has not installed. *)
NewToB ==
  \/ aSock \in Queued
  \/ aSock = bSock /\ aSock # NoConn /\ wpc = "install"
Untouched == NewToB => down[aSock] = <<>> /\ Doing({})

WantedAsked == Connected => Asked(Wanted)

IndInv ==
  /\ Typed /\ QueuedOnce /\ CollectorRests /\ GuiConsistent
  /\ Untouched /\ WantedAsked

------------------------------------------------------------------------------
(* Machine A.  The link as most of its steps leave it. *)
LinkKept == UNCHANGED <<down, aSock, bSock, backlog, listening, lost>>

(* Sending, failing to send and computing keep it. *)
LEMMA SendKeeps ==
  /\ \A m : Send(m) => LinkKept
  /\ SendThrows => LinkKept
  /\ UNCHANGED linkVars => LinkKept
BY DEF Send, SendThrows, LinkKept, linkVars

(* Every step but connecting, receiving and closing keeps it. *)
LEMMA LinkStep ==
  ASSUME MainThread \/ CaptureThread
  PROVE  LinkKept \/ Connect \/ Receive \/ CloseSession
<1> USE SendKeeps
<1>1. CASE Setup
  BY <1>1 DEF Setup, ConnectThrows, SendHello, SendCcb, SendStartupDealias,
              SendReady
<1>2. CASE Loop \/ StopThread
  BY <1>2 DEF Loop, LoopTest, ReceiveThrows, Acknowledge, StopThread,
              ClearRun, StopCamera, Join
<1>3. CASE StartHandler
  BY <1>3 DEF StartHandler, Accepted, ApplyFps, OfferDealias,
              DealiasRequested, Switch, StartCamera, ReportFailure, SetRun,
              Announce, Spawn
<1>4. CASE Teardown
  BY <1>4 DEF Teardown, Caught, Sleep
<1>5. CASE CaptureThread
  BY <1>5 DEF CaptureThread, CaptureTest, Grab, SendFrame, CaptureError,
              LimitStopsCamera, Farewell
<1> QED  BY <1>1, <1>2, <1>3, <1>4, <1>5 DEF MainThread

(* The capture thread never starts the camera, and ends for good. *)
LEMMA CaptureEffect ==
  ASSUME CaptureThread
  PROVE  /\ UNCHANGED <<mainVars, modeName>>
         /\ streaming' => streaming
         /\ cpc \notin {"none", "done"} /\ cpc' # "none"
BY DEF CaptureThread, CaptureTest, Grab, SendFrame, CaptureError,
       LimitStopsCamera, Farewell, StopLocked, cameraVars

(* Neither thread breaks CollectorRests. *)
LEMMA RestsStep ==
  ASSUME CollectorRests, MainThread \/ CaptureThread
  PROVE  CollectorRests'
<1> USE DEF CollectorRests, AtRest, InStopThread, AfterStop
<1>1. CASE Setup
  BY <1>1 DEF Setup, Connect, ConnectThrows, SendHello, SendCcb,
              SendStartupDealias, SendReady, Goto, ThrowFromSetup,
              captureVars, cameraVars
<1>2. CASE LoopTest \/ Receive \/ ReceiveThrows \/ Acknowledge
  BY <1>2 DEF LoopTest, Receive, ReceiveThrows, Acknowledge, CallStopThread,
              ThrowFromLoop, captureVars, cameraVars
<1>3. CASE ClearRun \/ StopCamera
  BY <1>3 DEF ClearRun, StopCamera, StopLocked, Goto, captureVars, cameraVars
<1>4. CASE Join
  BY <1>4 DEF Join, cameraVars
<1>5. CASE Accepted \/ ApplyFps \/ OfferDealias \/ DealiasRequested
  BY <1>5 DEF Accepted, ApplyFps, OfferDealias, DealiasRequested,
              CallStopThread, captureVars, cameraVars
<1>6. CASE Switch \/ StartCamera
  BY <1>6 DEF Switch, StartCamera, captureVars
<1>7. CASE ReportFailure \/ SetRun \/ Announce \/ Spawn
  BY <1>7 DEF ReportFailure, SetRun, Announce, Spawn, Goto, CallStopThread,
              ThrowFromLoop, captureVars, cameraVars
<1>8. CASE Teardown
  BY <1>8 DEF Teardown, CloseSession, Caught, Sleep, StopLocked,
              ClosedOnExit, captureVars, cameraVars
<1>9. CASE CaptureThread
  BY <1>9, CaptureEffect DEF mainVars
<1> QED
  BY <1>1, <1>2, <1>3, <1>4, <1>5, <1>6, <1>7, <1>8, <1>9
  DEF MainThread, Loop, StopThread, StartHandler

(* What the collector is doing leads where it led, unless a new command is  *)
(* received.                                                                *)
LEMMA DoingStep ==
  ASSUME CollectorRests, MainThread \/ CaptureThread, ~Receive,
         NEW S \in SUBSET Modes, Doing(S)
  PROVE  Doing(S)'
<1>1. CASE Setup
  <2>1. pc' \in {"loop", "close", "hello", "ccb", "dealias", "ready"}
    BY <1>1 DEF Setup, Connect, ConnectThrows, SendHello, SendCcb,
                SendStartupDealias, SendReady, Goto, ThrowFromSetup
  <2>2. pc' = "loop" => Still'
    BY <1>1 DEF Setup, Connect, ConnectThrows, SendHello, SendCcb,
                SendStartupDealias, SendReady, Goto, ThrowFromSetup,
                captureVars, cameraVars, CollectorRests, AtRest, Still
  <2> QED  BY <2>1, <2>2 DEF Doing, Preparing, InStopThread
<1>2. CASE LoopTest \/ ReceiveThrows \/ Acknowledge
  <2>1. CASE InStopThread'
    BY <1>2, <2>1 DEF LoopTest, ReceiveThrows, Acknowledge, CallStopThread,
                      ThrowFromLoop, Preparing, InStopThread, Doing
  <2>2. CASE pc' = "recv"
    BY <1>2, <2>2 DEF LoopTest, ReceiveThrows, Acknowledge, CallStopThread,
                      ThrowFromLoop, captureVars, cameraVars, Doing, Still,
                      Preparing, InStopThread
  <2>3. CASE pc' = "loop"
    BY <1>2, <2>3 DEF LoopTest, ReceiveThrows, Acknowledge, CallStopThread,
                      ThrowFromLoop, captureVars, cameraVars, Doing, Still,
                      CollectorRests, AtRest, Preparing, InStopThread
  <2> QED
    BY <1>2, <2>1, <2>2, <2>3 DEF LoopTest, ReceiveThrows, Acknowledge,
       CallStopThread, ThrowFromLoop, Preparing, InStopThread
<1>3. CASE ClearRun \/ StopCamera
  BY <1>3 DEF ClearRun, StopCamera, Goto, Doing, Preparing, InStopThread
<1>4. CASE Join
  <2>1. CASE after = "start"
    BY <1>4, <2>1 DEF Join, AfterStop, Doing, Preparing, InStopThread
  <2>2. CASE after = "failed"
    BY <1>4, <2>2 DEF Join, AfterStop, Doing, Preparing, InStopThread, Still,
                      CollectorRests, cameraVars
  <2>3. CASE after \in {"acknowledge", "returned", "threw"}
    BY <1>4, <2>3 DEF Join, AfterStop, Doing, Preparing, InStopThread
  <2> QED
    BY <1>4, <2>1, <2>2, <2>3
    DEF Join, CollectorRests, Preparing, InStopThread, AfterStop
<1>5. CASE Accepted \/ ApplyFps \/ OfferDealias \/ DealiasRequested
  <2>1. req \in S /\ req' = req
    BY <1>5 DEF Accepted, ApplyFps, OfferDealias, DealiasRequested, Doing,
                Preparing, InStopThread
  <2>2. pc' \in {"clearRun", "fps", "sendDealias", "exportDealias", "switch",
                 "report"}
    BY <1>5 DEF Accepted, ApplyFps, OfferDealias, DealiasRequested,
                CallStopThread
  <2> QED  BY <2>1, <2>2 DEF Doing, Preparing, InStopThread
<1>6. CASE Switch
  <2>1. req \in S /\ req # NoMode
    BY <1>6, LinkAssumption DEF Switch, Doing, Preparing
  <2>2. pc' \in {"start", "report"} /\ (pc' = "start" => modeName' = req)
    BY <1>6, <2>1 DEF Switch, SwitchMode, cameraVars
  <2> QED  BY <2>1, <2>2 DEF Doing, Preparing, InStopThread
<1>7. CASE StartCamera
  <2>1. pc = "start" /\ pc' \in {"setRun", "report"} /\ modeName' = modeName
    BY <1>7 DEF StartCamera
  <2> QED  BY <2>1 DEF Doing, Preparing, InStopThread
<1>8. CASE ReportFailure \/ SetRun \/ Announce \/ Spawn
  <2>1. modeName' = modeName
    BY <1>8 DEF ReportFailure, SetRun, Announce, Spawn, cameraVars
  <2>2. \/ pc' = "clearRun" /\ after' # "start"
        \/ pc \in {"setRun", "announce", "spawn"}
             /\ pc' \in {"announce", "spawn", "loop"}
    BY <1>8 DEF ReportFailure, SetRun, Announce, Spawn, Goto, CallStopThread,
                ThrowFromLoop
  <2> QED  BY <2>1, <2>2 DEF Doing, Preparing, InStopThread
<1>9. CASE Teardown
  BY <1>9 DEF Teardown, CloseSession, Caught, Sleep, Doing, Preparing,
              InStopThread
<1>10. CASE CaptureThread
  BY <1>10, CaptureEffect DEF mainVars, Doing, Still, Preparing, InStopThread
<1> QED
  BY <1>1, <1>2, <1>3, <1>4, <1>5, <1>6, <1>7, <1>8, <1>9, <1>10
  DEF MainThread, Loop, StopThread, StartHandler

------------------------------------------------------------------------------
(* The last element of a queue, as it is served and filled. *)
LEMMA FinalOfTail ==
  ASSUME NEW T, NEW s \in Seq(T), s # <<>>
  PROVE  Final(s) = IF Tail(s) = <<>> THEN Head(s) ELSE Final(Tail(s))
<1>1. Len(s) \in Nat \ {0} /\ Len(Tail(s)) = Len(s) - 1
  OBVIOUS
<1>2. CASE Tail(s) = <<>>
  BY <1>1, <1>2 DEF Final
<1>3. CASE Tail(s) # <<>>
  <2>1. Tail(s) \in Seq(T) /\ Len(Tail(s)) # 0
    BY <1>3, HeadTailProperties, EmptySeq
  <2>2. Tail(s)[Len(s) - 1] = s[Len(s)]
    BY <1>1, <2>1
  <2> QED  BY <1>1, <1>3, <2>2 DEF Final
<1> QED  BY <1>2, <1>3

(* An appended element is the last. *)
LEMMA FinalOfAppend ==
  ASSUME NEW T, NEW s \in Seq(T), NEW e \in T
  PROVE  Append(s, e) # <<>> /\ Final(Append(s, e)) = e
<1>1. Len(Append(s, e)) = Len(s) + 1 /\ Append(s, e)[Len(s) + 1] = e
  OBVIOUS
<1> QED  BY <1>1 DEF Final

(* The sets of connections that wait, as the backlog moves. *)
LEMMA QueueGrows ==
  ASSUME backlog \in Seq(Conns), NEW c \in Conns,
         backlog' = Append(backlog, c)
  PROVE  Queued' = Queued \cup {c}
<1>1. /\ Len(backlog') = Len(backlog) + 1 /\ Len(backlog) \in Nat
      /\ backlog'[Len(backlog) + 1] = c
      /\ \A i \in 1..Len(backlog) : backlog'[i] = backlog[i]
  OBVIOUS
<1> QED  BY <1>1 DEF Queued

(* Accepting takes the oldest connection out. *)
LEMMA QueueMoves ==
  ASSUME backlog \in Seq(Conns), backlog # <<>>, backlog' = Tail(backlog),
         \A i, j \in 1..Len(backlog) : backlog[i] = backlog[j] => i = j
  PROVE  /\ Queued' = Queued \ {Head(backlog)}
         /\ Head(backlog) \in Queued
         /\ \A i, j \in 1..Len(backlog') : backlog'[i] = backlog'[j] => i = j
<1>1. /\ Len(backlog) \in Nat \ {0} /\ Len(backlog') = Len(backlog) - 1
      /\ Head(backlog) = backlog[1]
      /\ \A i \in 1..Len(backlog') : backlog'[i] = backlog[i + 1]
  OBVIOUS
<1>2. Queued' = Queued \ {Head(backlog)}
  <2>1. \A i \in 1..Len(backlog) : i # 1 => /\ i - 1 \in 1..Len(backlog')
                                            /\ backlog'[i - 1] = backlog[i]
    BY <1>1
  <2>2. \A i \in 1..Len(backlog') : /\ i + 1 \in 1..Len(backlog)
                                    /\ i + 1 # 1
    BY <1>1
  <2>3. 1 \in 1..Len(backlog)
    BY <1>1
  <2> QED  BY <1>1, <2>1, <2>2, <2>3 DEF Queued
<1>3. Head(backlog) \in Queued
  BY <1>1 DEF Queued
<1>4. \A i, j \in 1..Len(backlog') : backlog'[i] = backlog'[j] => i = j
  <2> SUFFICES ASSUME NEW i \in 1..Len(backlog'), NEW j \in 1..Len(backlog'),
                      backlog'[i] = backlog'[j]
               PROVE  i = j
    OBVIOUS
  <2>1. i + 1 \in 1..Len(backlog) /\ j + 1 \in 1..Len(backlog)
    BY <1>1
  <2>2. i + 1 = j + 1
    BY <1>1, <2>1
  <2> QED  BY <2>2
<1> QED  BY <1>2, <1>3, <1>4

------------------------------------------------------------------------------
(* The last command keeps deciding while the collector takes the earlier    *)
(* ones and while it carries it out.                                        *)
LEMMA AskedStep ==
  ASSUME Typed, CollectorRests, MainThread \/ CaptureThread,
         ~Connect, ~CloseSession, aSock # NoConn,
         NEW S \in SUBSET Modes, Asked(S)
  PROVE  aSock' = aSock /\ Asked(S)'
<1>1. CASE Receive
  <2>1. PICK m : /\ m = Head(down[aSock]) /\ down[aSock] # <<>>
                 /\ down' = [down EXCEPT ![aSock] = Tail(@)]
                 /\ \/ /\ m.type = "StartCapture"
                       /\ pc' = "accepted" /\ req' = m.mode
                    \/ /\ m.type = "StopCapture"
                       /\ pc' = "clearRun" /\ after' = "acknowledge"
                    \/ /\ m.type = "Shutdown"
                       /\ pc' = "clearRun" /\ after' = "returned"
    BY <1>1 DEF Receive, ARecv, CallStopThread
  <2>2. aSock' = aSock /\ aSock \in Conns
    BY <1>1 DEF Receive, Typed
  <2>3. down[aSock] \in Seq(DownMsg) /\ down'[aSock] = Tail(down[aSock])
    BY <2>1, <2>2 DEF Typed
  <2>4. Final(down[aSock]) = IF Tail(down[aSock]) = <<>> THEN m
                             ELSE Final(Tail(down[aSock]))
    BY <2>1, <2>3, FinalOfTail
  <2>5. \/ Final(down[aSock]).type = "StopCapture"
        \/ /\ Final(down[aSock]).type = "StartCapture"
           /\ Final(down[aSock]).mode \in S
    BY <2>1 DEF Asked
  <2>6. CASE Tail(down[aSock]) = <<>>
    <3>1. Doing(S)'
      BY <2>1, <2>4, <2>5, <2>6 DEF Doing, Preparing, InStopThread
    <3> QED  BY <2>2, <2>3, <2>6, <3>1 DEF Asked
  <2>7. CASE Tail(down[aSock]) # <<>>
    BY <2>2, <2>3, <2>4, <2>5, <2>7 DEF Asked
  <2> QED  BY <2>2, <2>6, <2>7
<1>2. CASE ~Receive
  <2>1. LinkKept
    BY <1>2, LinkStep
  <2>2. Doing(S) => Doing(S)'
    BY <1>2, DoingStep
  <2> QED  BY <2>1, <2>2 DEF LinkKept, Asked
<1> QED  BY <1>1, <1>2

(* A connection without a command stays without. *)
LEMMA RestStep ==
  ASSUME Typed, CollectorRests, MainThread \/ CaptureThread,
         ~Connect, ~CloseSession, aSock # NoConn,
         down[aSock] = <<>>, Doing({})
  PROVE  aSock' = aSock /\ down'[aSock'] = <<>> /\ Doing({})'
<1>1. ~Receive
  BY DEF Receive, ARecv
<1>2. LinkKept
  BY <1>1, LinkStep
<1>3. Doing({})'
  BY <1>1, DoingStep
<1> QED  BY <1>2, <1>3 DEF LinkKept

------------------------------------------------------------------------------
(* The steps of both machines, of the user and of the failures. *)
LEMMA QueuedConns ==
  ASSUME backlog \in Seq(Conns)
  PROVE  Queued \subseteq Conns
BY DEF Queued

(* Only modes are wanted. *)
LEMMA WantedModes == Typed => Wanted \subseteq Modes
BY DEF Typed, Wanted

(* Machine A connects, receives, carries out, sends and closes. *)
LEMMA MachineAStep ==
  ASSUME IndInv, MachineA
  PROVE  IndInv'
<1>0. /\ Typed /\ QueuedOnce /\ CollectorRests /\ GuiConsistent
      /\ Untouched /\ WantedAsked
  BY DEF IndInv
<1>1. /\ MainThread \/ CaptureThread
      /\ UNCHANGED <<wpc, gpc, then, playing, fresh, playedMode, selected,
                     config>>
  BY DEF MachineA, viewerVars, guiVars
<1>2. CollectorRests' /\ GuiConsistent' /\ Wanted' = Wanted
  BY <1>0, <1>1, RestsStep DEF GuiConsistent, Wanted
<1>3. CASE Connect
  <2>1. PICK c \in Conns :
          /\ aSock' = c /\ c # bSock /\ c \notin Queued
          /\ backlog' = Append(backlog, c)
          /\ down' = [down EXCEPT ![c] = <<>>]
          /\ UNCHANGED bSock /\ pc' = "hello"
    BY <1>3 DEF Connect, AConnect, Free, Goto
  <2>2. Typed'
    BY <1>0, <1>1, <2>1 DEF Typed
  <2>3. Queued' = Queued \cup {c}
    BY <1>0, <2>1, QueueGrows DEF Typed
  <2>4. \A i, j \in 1..Len(backlog') : backlog'[i] = backlog'[j] => i = j
    <3>1. /\ Len(backlog') = Len(backlog) + 1 /\ Len(backlog) \in Nat
          /\ backlog'[Len(backlog) + 1] = c
          /\ \A i \in 1..Len(backlog) : backlog'[i] = backlog[i]
      BY <1>0, <2>1 DEF Typed
    <3>2. \A i \in 1..Len(backlog) : backlog'[i] # c
      BY <2>1, <3>1 DEF Queued
    <3>3. \A i \in 1..Len(backlog') :
            i = Len(backlog) + 1 \/ i \in 1..Len(backlog)
      BY <3>1
    <3> QED  BY <1>0, <3>1, <3>2, <3>3 DEF QueuedOnce
  <2>5. QueuedOnce'
    BY <1>0, <2>1, <2>3, <2>4 DEF QueuedOnce
  <2>6. Doing({})' /\ down'[aSock'] = <<>>
    BY <1>0, <2>1 DEF Doing, Preparing, InStopThread, Typed
  <2>7. ~Connected'
    BY <2>1 DEF Connected
  <2> QED
    BY <1>2, <2>2, <2>5, <2>6, <2>7 DEF IndInv, Untouched, WantedAsked
<1>4. CASE CloseSession
  <2>1. /\ aSock' = NoConn /\ UNCHANGED <<backlog, bSock>>
        /\ down' = [c \in Conns |->
                      IF c = aSock /\ (c \notin lost \/ PeerGone(c))
                        THEN <<>> ELSE down[c]]
    BY <1>4 DEF CloseSession, AClose, ADropsInput
  <2>2. Typed'
    BY <1>0, <1>1, <2>1 DEF Typed
  <2>3. QueuedOnce' /\ Queued' = Queued
    BY <1>0, <2>1 DEF QueuedOnce, Queued
  <2>4. ~NewToB' /\ ~Connected'
    BY <1>0, <2>1, <2>3, QueuedConns, LinkAssumption
    DEF NewToB, Connected, Typed
  <2> QED  BY <1>2, <2>2, <2>3, <2>4 DEF IndInv, Untouched, WantedAsked
<1>5. CASE ~Connect /\ ~CloseSession
  <2>1. /\ UNCHANGED <<aSock, bSock, backlog, lost>>
        /\ down' = down \/ down' = [down EXCEPT ![aSock] = Tail(@)]
        /\ down' = down \/ down[aSock] # <<>>
    BY <1>1, <1>5, LinkStep DEF LinkKept, Receive, ARecv
  <2>2. Typed'
    <3>1. down[aSock] # <<>> /\ aSock \in Conns
            => Tail(down[aSock]) \in Seq(DownMsg)
      BY <1>0 DEF Typed
    <3> QED  BY <1>0, <1>1, <2>1, <3>1 DEF Typed
  <2>3. QueuedOnce' /\ Queued' = Queued
    BY <1>0, <2>1 DEF QueuedOnce, Queued
  <2>4. NewToB' = NewToB /\ Connected' = Connected
    BY <1>1, <2>1, <2>3 DEF NewToB, Connected
  <2>5. NewToB => aSock # NoConn
    BY <1>0, QueuedConns, LinkAssumption DEF NewToB, Typed
  <2>6. Untouched'
    BY <1>0, <1>1, <1>5, <2>4, <2>5, RestStep DEF Untouched
  <2>7. WantedAsked'
    <3> SUFFICES ASSUME Connected
                 PROVE  Asked(Wanted)'
      BY <2>4 DEF WantedAsked
    <3>1. PICK S \in SUBSET Modes : S = Wanted
      BY <1>0, WantedModes
    <3>2. Asked(S)
      BY <1>0, <3>1 DEF WantedAsked
    <3>3. Asked(S)'
      BY <1>0, <1>1, <1>5, <3>2, AskedStep DEF Connected
    <3> QED  BY <1>2, <3>1, <3>3 DEF Asked, Doing
  <2> QED  BY <1>2, <2>2, <2>3, <2>6, <2>7 DEF IndInv
<1> QED  BY <1>3, <1>4, <1>5

(* What leads to a few modes leads to one of more. *)
LEMMA AskedMore ==
  ASSUME NEW S, NEW T, S \subseteq T, Asked(S)
  PROVE  Asked(T)
BY DEF Asked, Doing

(* The collector stands still. *)
LEMMA CollectorSame ==
  ASSUME UNCHANGED collectorVars
  PROVE  /\ CollectorRests => CollectorRests'
         /\ \A S : Doing(S)' = Doing(S)
BY DEF collectorVars, mainVars, captureVars, cameraVars, CollectorRests,
       Doing, Preparing, InStopThread, Still

(* B closes: what is under way on a connection A does not hold is gone. *)
LEMMA CloseKeepsSent ==
  ASSUME Typed, BCloseClient \/ BCloseAll \/ BCloseListener
  PROVE  /\ down' \in [Conns -> Seq(DownMsg)]
         /\ aSock \in Conns => down'[aSock] = down[aSock]
         /\ aSock' = aSock
<1>1. <<>> \in Seq(DownMsg)
  OBVIOUS
<1> QED  BY <1>1 DEF Typed, BCloseClient, BCloseAll, BCloseListener

(* A step of B or of the network that sends and accepts nothing: B may let  *)
(* go of its connection and of the backlog.                                 *)
LEMMA NothingSent ==
  ASSUME IndInv, UNCHANGED <<collectorVars, aSock>>,
         down' \in [Conns -> Seq(DownMsg)],
         aSock \in Conns => down'[aSock] = down[aSock],
         bSock' \in {bSock, NoConn}, backlog' \in {backlog, <<>>},
         aSock \in lost => aSock \in lost' \/ bSock' = NoConn,
         wpc' = "install" => wpc = "install",
         selected' \in Modes, playedMode' \in Modes, config' \in Modes,
         GuiConsistent', Wanted \subseteq Wanted'
  PROVE  IndInv'
<1>0. Typed /\ QueuedOnce /\ CollectorRests /\ Untouched /\ WantedAsked
  BY DEF IndInv
<1>1. Typed'
  <2>1. <<>> \in Seq(Conns)
    OBVIOUS
  <2>2. backlog' \in Seq(Conns)
    BY <1>0, <2>1 DEF Typed
  <2> QED  BY <1>0, <2>2 DEF Typed
<1>2. Queued' \subseteq Queued /\ NoConn \notin Queued'
  <2>1. CASE backlog' = backlog
    BY <1>0, <2>1, QueuedConns, LinkAssumption DEF Queued, Typed
  <2>2. CASE backlog' = <<>>
    BY <2>2 DEF Queued
  <2> QED  BY <2>1, <2>2
<1>3. QueuedOnce'
  <2>1. bSock' \notin Queued'
    BY <1>0, <1>2 DEF QueuedOnce
  <2>2. \A i, j \in 1..Len(backlog') : backlog'[i] = backlog'[j] => i = j
    BY <1>0 DEF QueuedOnce
  <2> QED  BY <2>1, <2>2 DEF QueuedOnce
<1>4. Untouched'
  <2>1. NewToB' => NewToB /\ aSock \in Conns
    BY <1>0, <1>2, QueuedConns DEF NewToB, Typed
  <2> QED  BY <1>0, <2>1, CollectorSame DEF Untouched
<1>5. WantedAsked'
  <2> SUFFICES ASSUME Connected'
               PROVE  Asked(Wanted)'
    BY DEF WantedAsked
  <2>1. Connected /\ down'[aSock] = down[aSock]
    BY <1>0 DEF Connected, Typed
  <2>2. Asked(Wanted')
    BY <1>0, <2>1, AskedMore DEF WantedAsked
  <2>3. PICK S : S = Wanted'
    OBVIOUS
  <2>4. Asked(S)'
    BY <2>1, <2>2, <2>3, CollectorSame DEF Asked
  <2> QED  BY <2>3, <2>4 DEF Asked, Doing
<1> QED  BY <1>0, <1>1, <1>3, <1>4, <1>5, CollectorSame DEF IndInv

(* The worker takes the oldest waiting connection. *)
LEMMA AcceptStep ==
  ASSUME IndInv, Accept, UNCHANGED collectorVars
  PROVE  IndInv'
<1>0. /\ Typed /\ QueuedOnce /\ CollectorRests /\ GuiConsistent
      /\ Untouched /\ WantedAsked
  BY DEF IndInv
<1>1. /\ backlog # <<>> /\ bSock' = Head(backlog) /\ backlog' = Tail(backlog)
      /\ UNCHANGED <<down, aSock, lost, guiVars>> /\ wpc' = "install"
  BY DEF Accept, BAccept
<1>2. /\ Queued' = Queued \ {bSock'} /\ bSock' \in Queued
      /\ \A i, j \in 1..Len(backlog') : backlog'[i] = backlog'[j] => i = j
  BY <1>0, <1>1, QueueMoves DEF Typed, QueuedOnce
<1>3. Typed'
  BY <1>0, <1>1, HeadTailProperties DEF Typed, guiVars
<1>4. QueuedOnce'
  BY <1>2 DEF QueuedOnce
<1>5. GuiConsistent' /\ Wanted' = Wanted
  BY <1>0, <1>1 DEF GuiConsistent, Wanted, guiVars
<1>6. Untouched'
  <2>1. NewToB' => aSock \in Queued
    BY <1>1, <1>2 DEF NewToB
  <2> QED  BY <1>0, <1>1, <2>1, CollectorSame DEF Untouched, NewToB
<1>7. WantedAsked'
  <2> SUFFICES ASSUME Connected'
               PROVE  Asked(Wanted)'
    BY DEF WantedAsked
  <2>1. NewToB'
    BY <1>1 DEF Connected, NewToB
  <2>2. down'[aSock'] = <<>> /\ Doing({})'
    BY <1>6, <2>1 DEF Untouched
  <2> QED  BY <2>2 DEF Asked, Doing
<1> QED  BY <1>0, <1>3, <1>4, <1>5, <1>6, <1>7, CollectorSame DEF IndInv

(* The other steps of the worker. *)
LEMMA WorkerStep ==
  ASSUME IndInv, Worker, UNCHANGED collectorVars
  PROVE  IndInv'
<1>1. CASE Accept
  BY <1>1, AcceptStep
<1>2. CASE ~Accept
  <2>1. UNCHANGED guiVars
    BY DEF Worker, Boot, ListenTest, BindListen, AcceptTest, Accept, Install,
           AcceptThrows, PollTest, PollEnds, PeerClosed, PollTimeout,
           ReceiveMessage, ReceiveBlocks, ReceiveFails, HandlerThrows, Leave,
           Fault, Finish
  <2>2. /\ UNCHANGED aSock /\ wpc' # "install"
        /\ down' \in [Conns -> Seq(DownMsg)]
        /\ aSock \in Conns => down'[aSock] = down[aSock]
        /\ \/ UNCHANGED <<bSock, backlog, lost>>
           \/ bSock' = NoConn /\ backlog' \in {backlog, <<>>}
    <3>1. CASE Leave \/ Fault \/ Finish
      <4>1. /\ wpc' # "install" /\ (BCloseClient \/ BCloseAll)
            /\ bSock' = NoConn /\ backlog' \in {backlog, <<>>}
        BY <3>1 DEF Leave, Fault, Finish, BCloseClient, BCloseAll
      <4>2. /\ down' \in [Conns -> Seq(DownMsg)] /\ UNCHANGED aSock
            /\ aSock \in Conns => down'[aSock] = down[aSock]
        BY <4>1, CloseKeepsSent DEF IndInv
      <4> QED  BY <4>1, <4>2
    <3>2. CASE ~(Leave \/ Fault \/ Finish)
      <4>1. UNCHANGED <<down, aSock, bSock, backlog, lost>>
        BY <1>2, <3>2 DEF Worker, Boot, ListenTest, BindListen, AcceptTest,
           Install, AcceptThrows, PollTest, PollEnds, PeerClosed,
           PollTimeout, ReceiveMessage, ReceiveBlocks, ReceiveFails,
           HandlerThrows, linkVars
      <4>2. wpc' # "install"
        BY <1>2, <3>2 DEF Worker, Boot, ListenTest, BindListen, AcceptTest,
           Install, AcceptThrows, PollTest, PollEnds, PeerClosed,
           PollTimeout, ReceiveMessage, ReceiveBlocks, ReceiveFails,
           HandlerThrows
      <4> QED  BY <4>1, <4>2 DEF IndInv, Typed
    <3> QED  BY <3>1, <3>2
  <2>3. GuiConsistent' /\ Wanted' = Wanted
    BY <2>1 DEF IndInv, GuiConsistent, Wanted, guiVars
  <2>4. selected' \in Modes /\ playedMode' \in Modes /\ config' \in Modes
    BY <2>1 DEF IndInv, Typed, guiVars
  <2> QED  BY <2>2, <2>3, <2>4, NothingSent
<1> QED  BY <1>1, <1>2

------------------------------------------------------------------------------
(* What BSend makes of the queue: the command is the last one on a          *)
(* connection both ends hold and the network carries.                       *)
LEMMA SendAppends ==
  ASSUME Typed, NEW m \in DownMsg, BSend(m), bSock # NoConn
  PROVE  /\ down' \in [Conns -> Seq(DownMsg)]
         /\ aSock \in Conns \ {bSock} => down'[aSock] = down[aSock]
         /\ Connected => down'[aSock] # <<>> /\ Final(down'[aSock]) = m
<1>1. /\ down \in [Conns -> Seq(DownMsg)]
      /\ Command("Unacked") \in DownMsg
  BY DEF Typed, Command, DownMsg, DownTypes
<1>2. \/ down' = down /\ ~Connected
      \/ down' = [down EXCEPT ![bSock] = Append(@, Command("Unacked"))]
           /\ ~Connected
      \/ down' = [down EXCEPT ![bSock] = Append(@, m)]
  BY DEF BSend, Connected
<1>3. down' \in [Conns -> Seq(DownMsg)]
  <2>1. bSock \in Conns => /\ Append(down[bSock], m) \in Seq(DownMsg)
                           /\ Append(down[bSock], Command("Unacked"))
                                \in Seq(DownMsg)
    BY <1>1
  <2> QED  BY <1>1, <1>2, <2>1
<1>4. aSock \in Conns \ {bSock} => down'[aSock] = down[aSock]
  BY <1>1, <1>2
<1>5. Connected => down'[aSock] # <<>> /\ Final(down'[aSock]) = m
  <2> SUFFICES ASSUME Connected
               PROVE  down'[aSock] # <<>> /\ Final(down'[aSock]) = m
    OBVIOUS
  <2>1. aSock \in Conns /\ down[aSock] \in Seq(DownMsg)
    BY <1>1 DEF Connected, Typed
  <2>2. down'[aSock] = Append(down[aSock], m)
    BY <1>1, <1>2, <2>1 DEF Connected
  <2> QED  BY <2>1, <2>2, FinalOfAppend
<1> QED  BY <1>3, <1>4, <1>5

(* StopCapture or StartCapture goes out: it leads to T. *)
LEMMA CommandSent ==
  ASSUME IndInv, Valid, NEW m \in DownMsg, BSend(m), NEW T,
         \/ m.type = "StopCapture"
         \/ m.type = "StartCapture" /\ m.mode \in T,
         UNCHANGED <<collectorVars, wpc, aSock, bSock, backlog, lost>>,
         UNCHANGED <<selected, playedMode, config>>,
         GuiConsistent', Wanted' = T
  PROVE  IndInv'
<1>0. Typed /\ QueuedOnce /\ CollectorRests /\ Untouched
  BY DEF IndInv
<1>1. /\ down' \in [Conns -> Seq(DownMsg)]
      /\ aSock \in Conns \ {bSock} => down'[aSock] = down[aSock]
      /\ Connected => down'[aSock] # <<>> /\ Final(down'[aSock]) = m
  BY <1>0, SendAppends DEF Valid
<1>2. Typed' /\ QueuedOnce' /\ Queued' = Queued
  BY <1>0, <1>1 DEF Typed, QueuedOnce, Queued
<1>3. Untouched'
  <2>1. NewToB' = NewToB /\ (NewToB => aSock \in Conns \ {bSock})
    BY <1>0, <1>2, QueuedConns DEF NewToB, QueuedOnce, Valid, Typed
  <2> QED  BY <1>0, <1>1, <2>1, CollectorSame DEF Untouched
<1>4. WantedAsked'
  <2> SUFFICES ASSUME Connected'
               PROVE  Asked(Wanted)'
    BY DEF WantedAsked
  <2>1. Connected
    BY DEF Connected
  <2> QED  BY <1>1, <2>1 DEF Asked
<1> QED  BY <1>0, <1>2, <1>3, <1>4, CollectorSame DEF IndInv

(* A command that cannot be sent leaves no capture behind on a connection   *)
(* that works: the next one starts without a command.                       *)
LEMMA CommandNotSent ==
  ASSUME IndInv, ~Valid \/ BSendFails,
         UNCHANGED <<collectorVars, wpc, down, aSock, bSock, backlog, lost>>,
         UNCHANGED <<selected, playedMode, config>>, GuiConsistent'
  PROVE  IndInv'
<1>0. Typed /\ QueuedOnce /\ CollectorRests /\ Untouched
  BY DEF IndInv
<1>1. Typed' /\ QueuedOnce' /\ Queued' = Queued
  BY <1>0 DEF Typed, QueuedOnce, Queued
<1>2. NewToB' = NewToB
  BY <1>1 DEF NewToB
<1>3. Untouched'
  BY <1>0, <1>2, CollectorSame DEF Untouched
<1>4. Connected' => NewToB'
  BY DEF Connected, NewToB, Valid, BSendFails
<1>5. WantedAsked'
  BY <1>3, <1>4 DEF WantedAsked, Untouched, Asked, Doing
<1> QED  BY <1>0, <1>1, <1>3, <1>5, CollectorSame DEF IndInv

(* The GUI thread and the user. *)
LEMMA GuiStep ==
  ASSUME IndInv, Gui \/ OpenDevice \/ SelectMode \/ PressPlay \/ PressStop,
         UNCHANGED collectorVars
  PROVE  IndInv'
<1>0. GuiConsistent /\ Typed
  BY DEF IndInv
<1>1. CASE PlayCCD \/ StopSent \/ PrepareCamera \/ Configure \/ StartSent
             \/ Stop \/ OpenDevice \/ SelectMode \/ PressPlay \/ PressStop
             \/ JoinWorker
  <2>1. UNCHANGED linkVars /\ (wpc' = "install" => wpc = "install")
    BY <1>1 DEF PlayCCD, StopSent, PrepareCamera, Configure, StartSent, Stop,
       OpenDevice, SelectMode, PressPlay, PressStop, JoinWorker
  <2>2. GuiConsistent'
    BY <1>0, <1>1 DEF GuiConsistent, PlayCCD, StopSent, PrepareCamera,
       Configure, StartSent, Stop, OpenDevice, SelectMode, PressPlay,
       PressStop, JoinWorker, guiVars
  <2>3. Wanted \subseteq Wanted'
    BY <1>0, <1>1 DEF Wanted, GuiConsistent, PlayCCD, StopSent, PrepareCamera,
       Configure, StartSent, Stop, OpenDevice, SelectMode, PressPlay,
       PressStop, JoinWorker, guiVars
  <2>4. selected' \in Modes /\ playedMode' \in Modes /\ config' \in Modes
    BY <1>0, <1>1 DEF Typed, PlayCCD, StopSent, PrepareCamera, Configure,
       StartSent, Stop, OpenDevice, SelectMode, PressPlay, PressStop,
       JoinWorker, guiVars
  <2> QED  BY <1>0, <2>1, <2>2, <2>3, <2>4, NothingSent DEF linkVars, Typed
<1>2. CASE SendStop
  <2>1. /\ UNCHANGED <<wpc, playing, fresh, playedMode, selected, config,
                       aSock, bSock, backlog, lost>>
        /\ gpc = "sendStop"
    BY <1>2 DEF SendStop
  <2>2. CASE Valid /\ BSend(Command("StopCapture")) /\ gpc' = "stopSent"
               /\ UNCHANGED then
    <3>1. GuiConsistent' /\ Wanted' = {}
      BY <1>0, <2>1, <2>2 DEF GuiConsistent, Wanted
    <3>2. /\ Command("StopCapture") \in DownMsg
          /\ Command("StopCapture").type = "StopCapture"
      BY DEF Command, DownMsg, DownTypes
    <3> QED  BY <2>1, <2>2, <3>1, <3>2, CommandSent
  <2>3. CASE (~Valid \/ BSendFails) /\ gpc' = then /\ then' = "none"
               /\ UNCHANGED down
    <3>1. GuiConsistent'
      BY <1>0, <2>1, <2>3 DEF GuiConsistent
    <3> QED  BY <2>1, <2>3, <3>1, CommandNotSent
  <2> QED  BY <1>2, <2>2, <2>3 DEF SendStop
<1>3. CASE SendStart
  <2>1. /\ UNCHANGED <<wpc, playedMode, selected, config, aSock, bSock,
                       backlog, lost, then>>
        /\ gpc = "sendStart"
    BY <1>3 DEF SendStart
  <2>2. CASE Valid /\ BSend(StartCapture(config)) /\ gpc' = "startSent"
               /\ UNCHANGED <<playing, fresh>>
    <3>1. GuiConsistent' /\ Wanted' = {config}
      BY <1>0, <2>1, <2>2 DEF GuiConsistent, Wanted
    <3>2. /\ StartCapture(config) \in DownMsg
          /\ StartCapture(config).type = "StartCapture"
          /\ StartCapture(config).mode = config
      BY <1>0 DEF StartCapture, DownMsg, DownTypes, Typed
    <3> QED  BY <2>1, <2>2, <3>1, <3>2, CommandSent
  <2>3. CASE (~Valid \/ BSendFails) /\ gpc' = "idle" /\ playing' = FALSE
               /\ fresh' = TRUE /\ UNCHANGED down
    <3>1. GuiConsistent'
      BY <1>0, <2>1, <2>3 DEF GuiConsistent
    <3> QED  BY <2>1, <2>3, <3>1, CommandNotSent
  <2> QED  BY <1>3, <2>2, <2>3 DEF SendStart
<1>4. CASE CloseSockets
  <2>1. /\ gpc = "closeSockets" /\ gpc' = "joinWorker"
        /\ UNCHANGED <<wpc, then, playing, fresh, playedMode, selected,
                       config, aSock>>
        /\ BCloseListener \/ BCloseAll
        /\ backlog' = <<>> /\ bSock' \in {bSock, NoConn}
        /\ bSock' = NoConn \/ lost' = lost \cap {aSock, bSock}
    BY <1>4 DEF CloseSockets, BCloseListener, BCloseAll
  <2>2. GuiConsistent' /\ Wanted = {}
    BY <1>0, <2>1 DEF GuiConsistent, Wanted
  <2>3. selected' \in Modes /\ playedMode' \in Modes /\ config' \in Modes
    BY <1>0, <2>1 DEF Typed
  <2>4. /\ down' \in [Conns -> Seq(DownMsg)]
        /\ aSock \in Conns => down'[aSock] = down[aSock]
    BY <1>0, <2>1, CloseKeepsSent
  <2> QED  BY <2>1, <2>2, <2>3, <2>4, NothingSent
<1> QED  BY <1>1, <1>2, <1>3, <1>4 DEF Gui

(* Power and network fail. *)
LEMMA FaultStep ==
  ASSUME IndInv, PowerLoss \/ NetworkFails
  PROVE  IndInv'
<1>0. Typed /\ QueuedOnce /\ GuiConsistent
  BY DEF IndInv
<1>1. CASE PowerLoss
  <2>1. /\ aSock' = NoConn /\ UNCHANGED <<backlog, bSock, viewerVars>>
        /\ pc' = "connect" /\ ~streaming' /\ cpc' = "none"
        /\ down' = [c \in Conns |->
                      IF c = aSock /\ (c \notin lost \/ PeerGone(c))
                        THEN <<>> ELSE down[c]]
    BY <1>1 DEF PowerLoss, ADropsInput
  <2>2. Typed'
    BY <1>0, <2>1 DEF Typed, viewerVars, guiVars
  <2>3. QueuedOnce' /\ Queued' = Queued
    BY <1>0, <2>1 DEF QueuedOnce, Queued
  <2>4. ~NewToB' /\ ~Connected'
    BY <1>0, <2>1, <2>3, QueuedConns, LinkAssumption
    DEF NewToB, Connected, Typed
  <2>5. CollectorRests'
    BY <2>1 DEF CollectorRests, InStopThread
  <2>6. GuiConsistent'
    BY <1>0, <2>1 DEF GuiConsistent, viewerVars, guiVars
  <2> QED
    BY <2>2, <2>3, <2>4, <2>5, <2>6 DEF IndInv, Untouched, WantedAsked
<1>2. CASE NetworkFails
  <2>1. /\ UNCHANGED <<collectorVars, viewerVars, down, aSock, bSock, backlog>>
        /\ aSock \in lost => aSock \in lost'
    BY <1>2 DEF NetworkFails, LoseLink, Cut
  <2>2. GuiConsistent' /\ Wanted' = Wanted
    BY <1>0, <2>1 DEF GuiConsistent, Wanted, viewerVars, guiVars
  <2>3. selected' \in Modes /\ playedMode' \in Modes /\ config' \in Modes
    BY <1>0, <2>1 DEF Typed, viewerVars, guiVars
  <2> QED  BY <1>0, <2>1, <2>2, <2>3, NothingSent DEF viewerVars, Typed
<1> QED  BY <1>1, <1>2

(* Both programs start with nothing asked for. *)
LEMMA InitInd == Init => IndInv
<1> SUFFICES ASSUME Init
             PROVE  IndInv
  OBVIOUS
<1>1. backlog = <<>> /\ aSock = NoConn /\ bSock = NoConn
  BY DEF Init, LinkInit
<1>2. Typed
  BY <1>1, ViewerAssumption DEF Init, LinkInit, ViewerInit, Typed
<1>3. Queued = {} /\ QueuedOnce
  BY <1>1 DEF Queued, QueuedOnce
<1>4. CollectorRests
  BY DEF Init, CollectorInit, CollectorRests, InStopThread
<1>5. GuiConsistent
  BY DEF Init, ViewerInit, GuiConsistent
<1>6. Untouched /\ WantedAsked
  BY <1>1, <1>3 DEF Untouched, NewToB, WantedAsked, Connected
<1> QED  BY <1>2, <1>3, <1>4, <1>5, <1>6 DEF IndInv

(* Every step keeps the invariant. *)
LEMMA StepInd ==
  ASSUME IndInv, [Next]_vars
  PROVE  IndInv'
<1>1. CASE MachineA
  BY <1>1, MachineAStep
<1>2. CASE MachineB
  BY <1>2, WorkerStep, GuiStep DEF MachineB
<1>3. CASE AtTheGui
  BY <1>3, GuiStep DEF AtTheGui
<1>4. CASE PowerLoss \/ NetworkFails
  BY <1>4, FaultStep
<1>5. CASE UNCHANGED vars
  BY <1>5, NothingSent
  DEF vars, linkVars, viewerVars, guiVars, IndInv, Typed, GuiConsistent, Wanted
<1> QED  BY <1>1, <1>2, <1>3, <1>4, <1>5 DEF Next

------------------------------------------------------------------------------
(* The camera object and its device differ only after a STREAMOFF that      *)
(* failed.                                                                  *)
LEMMA StopAgrees ==
  ASSUME DeviceAgrees, NEW fails \in BOOLEAN, NEW closed \in BOOLEAN,
         StopLocked(fails, closed)
  PROVE  DeviceAgrees'
BY DEF DeviceAgrees, StopLocked

LEMMA SameAgrees ==
  ASSUME DeviceAgrees, UNCHANGED <<streaming, started, leftOn>>
  PROVE  DeviceAgrees'
BY DEF DeviceAgrees

(* Stopping, starting and the end of the process. *)
LEMMA CameraAgrees ==
  ASSUME DeviceAgrees, StopCamera \/ Switch \/ StartCamera \/ Teardown
  PROVE  DeviceAgrees'
<1>1. CASE StopCamera
  BY <1>1, StopAgrees DEF StopCamera
<1>2. CASE Switch
  <2>1. CASE \E ok, applied \in BOOLEAN : SwitchMode(ok, applied)
    BY <2>1, SameAgrees, StopAgrees DEF SwitchMode, cameraVars
  <2> QED  BY <1>2, <2>1, SameAgrees DEF Switch, cameraVars
<1>3. CASE StartCamera
  <2>1. CASE (~started \/ streaming) /\ streaming' /\ started'
               /\ UNCHANGED leftOn
    BY <2>1 DEF DeviceAgrees
  <2> QED  BY <1>3, <2>1, SameAgrees, StopAgrees DEF StartCamera
<1>4. CASE Teardown
  <2>1. (pc' = "exit") \in BOOLEAN
    OBVIOUS
  <2>2. CASE ClosedOnExit
    BY <2>2 DEF DeviceAgrees, ClosedOnExit
  <2> QED  BY <1>4, <2>1, <2>2, StopAgrees
           DEF Teardown, CloseSession, Caught, Sleep
<1> QED  BY <1>1, <1>2, <1>3, <1>4

(* Every step of the system keeps them in agreement. *)
LEMMA DeviceStep ==
  ASSUME DeviceAgrees, [Next]_vars
  PROVE  DeviceAgrees'
<1>1. CASE MainThread /\ ~(StopCamera \/ Switch \/ StartCamera \/ Teardown)
  BY <1>1, SameAgrees
  DEF MainThread, Setup, Connect, ConnectThrows, SendHello, SendCcb,
      SendStartupDealias, SendReady, Loop, LoopTest, Receive, ReceiveThrows,
      Acknowledge, StopThread, ClearRun, Join, StartHandler, Accepted,
      ApplyFps, OfferDealias, DealiasRequested, ReportFailure, SetRun,
      Announce, Spawn, cameraVars
<1>2. CASE CaptureThread
  BY <1>2, SameAgrees, StopAgrees
  DEF CaptureThread, CaptureTest, Grab, SendFrame, CaptureError,
      LimitStopsCamera, Farewell, cameraVars
<1>3. CASE MachineB \/ AtTheGui \/ NetworkFails \/ UNCHANGED vars
  BY <1>3, SameAgrees
  DEF MachineB, AtTheGui, NetworkFails, vars, collectorVars, cameraVars
<1>4. CASE PowerLoss
  BY <1>4 DEF PowerLoss, DeviceAgrees
<1> QED  BY <1>1, <1>2, <1>3, <1>4, CameraAgrees DEF Next, MachineA

(* StopStopsCamera of TofNet: whatever was in flight when Stop was pressed  *)
(* - a StartCapture not yet received, one being carried out, a capture, a   *)
(* reconnect, a cut network, a restart of Machine A - once the commands     *)
(* have been carried out the camera is stopped, its thread has ended and    *)
(* the device is off, unless the driver refused to turn it off.             *)
THEOREM StopStops == Spec => []StopStopsCamera
<1>1. IndInv /\ DeviceAgrees /\ [Next]_vars => IndInv' /\ DeviceAgrees'
  BY StepInd, DeviceStep
<1>2. IndInv /\ DeviceAgrees => StopStopsCamera
  <2> SUFFICES ASSUME IndInv, DeviceAgrees, Settled, ~playing
               PROVE  Still
    BY DEF StopStopsCamera, Still, DeviceAgrees
  <2>1. Wanted = {}
    BY DEF IndInv, GuiConsistent, Settled, Wanted
  <2>2. Asked({})
    BY <2>1 DEF IndInv, WantedAsked, Settled
  <2> QED  BY <2>2 DEF Asked, Settled, Doing
<1>3. Init => DeviceAgrees
  BY DEF Init, CollectorInit, DeviceAgrees
<1> QED  BY InitInd, <1>1, <1>2, <1>3, PTL DEF Spec

(* SettledModeAgrees of TofNet: a camera that streams once everything has   *)
(* arrived does so because the viewer plays, in the mode last played and    *)
(* configured, whatever order of mode changes, Stop, Play, failed switches  *)
(* and reconnects led there.                                                *)
THEOREM ModesAgree == Spec => []SettledModeAgrees
<1>1. IndInv /\ [Next]_vars => IndInv'
  BY StepInd
<1>2. IndInv => SettledModeAgrees
  <2> SUFFICES ASSUME IndInv, Settled, Capturing
               PROVE  playing /\ modeName = playedMode /\ config = playedMode
    BY DEF SettledModeAgrees
  <2>1. Asked(Wanted) /\ gpc = "idle"
    BY DEF IndInv, WantedAsked, Settled
  <2>2. modeName \in Wanted
    BY <2>1 DEF Asked, Settled, Doing, Still, Capturing
  <2>3. ~fresh /\ modeName = playedMode
    BY <2>1, <2>2 DEF Wanted
  <2> QED  BY <2>1, <2>3 DEF IndInv, GuiConsistent
<1> QED  BY InitInd, <1>1, <1>2, PTL DEF Spec

------------------------------------------------------------------------------
(***************************************************************************)
(* The viewer's sockets, for every set of modes and connections, every     *)
(* buffer size and silence limit: worker and GUI thread both close them,   *)
(* and yet the client socket has one owner and nothing is left open -      *)
(* in the whole system, and against any peer and any network               *)
(* (ViewerSystem, Alone), where the user also closes the window.           *)
(*                                                                         *)
(* Two things carry the argument.  stop() closes a socket under the worker *)
(* only with m_stopFlag set, and the flag is reset only when no worker     *)
(* exists; and a worker that has ended has closed both sockets, after      *)
(* which only a new worker can open one.                                   *)
(***************************************************************************)
BacklogOK == backlog \in Seq(Conns)

(* What follows a StopCapture is known. *)
ThenKnown ==
  /\ then \in {"none", "idle", "prepare", "stop", "closeSockets"}
  /\ gpc \notin {"sendStop", "stopSent"} => then = "none"

(* stop() closes the sockets with m_stopFlag set. *)
FlagBeforeClose ==
  gpc = "closeSockets" \/ then = "closeSockets" => stopFlag

(* stop() leaves a connection alone that is accepted and not installed. *)
InstallHolds == wpc = "install" => bSock # NoConn

(* A worker that does not run holds no socket, and one that has been joined *)
(* has cleared its flag.                                                    *)
EndedReleased ==
  wpc \in {"none", "ended"} => ~listening /\ backlog = <<>> /\ bSock = NoConn
JoinedCleared == wpc = "none" => ~clientConnected

ClosedJoined == gpc = "closed" => wpc = "none"

FlagsInv == ThenKnown /\ FlagBeforeClose /\ ClosedJoined
SocketInv == BacklogOK /\ InstallHolds /\ EndedReleased /\ JoinedCleared
ViewerInv ==
  FlagsInv /\ SocketInv /\ OneOwnerOfClient /\ ClosedMeansReleased

------------------------------------------------------------------------------
(* Nothing is open before Open Device. *)
LEMMA ViewerStarts == LinkInit /\ ViewerInit => ViewerInv
<1>1. <<>> \in Seq(Conns)
  OBVIOUS
<1> QED
  BY <1>1 DEF LinkInit, ViewerInit, ViewerInv, FlagsInv, SocketInv, BacklogOK,
              ThenKnown, FlagBeforeClose, InstallHolds, EndedReleased,
              JoinedCleared, ClosedJoined, OneOwnerOfClient,
              ClosedMeansReleased, Valid, ActiveStream

(* The worker: listening, accepting and installing a connection. *)
LEMMA AcceptInd ==
  ASSUME ViewerInv,
         \/ Boot \/ ListenTest \/ BindListen \/ AcceptTest \/ Accept
         \/ Install \/ AcceptThrows
  PROVE  ViewerInv'
<1> USE DEF ViewerInv, FlagsInv, SocketInv, BacklogOK, ThenKnown,
            FlagBeforeClose, InstallHolds, EndedReleased, JoinedCleared,
            ClosedJoined, OneOwnerOfClient, ClosedMeansReleased,
            Valid, ActiveStream, flagVars, guiVars, linkVars
<1>1. CASE Boot \/ ListenTest \/ AcceptTest \/ AcceptThrows
  BY <1>1 DEF Boot, ListenTest, AcceptTest, AcceptThrows
<1>2. CASE BindListen
  BY <1>2 DEF BindListen
<1>3. CASE Accept
  <2>1. bSock' \in Conns /\ backlog' \in Seq(Conns)
    BY <1>3 DEF Accept, BAccept
  <2>2. bSock' # NoConn
    BY <2>1, LinkAssumption
  <2> QED  BY <1>3, <2>1, <2>2 DEF Accept, BAccept
<1>4. CASE Install
  BY <1>4 DEF Install
<1> QED  BY <1>1, <1>2, <1>3, <1>4

(* The worker: the receive loop. *)
LEMMA ReceiveInd ==
  ASSUME ViewerInv,
         \/ PollTest \/ PollEnds \/ PeerClosed \/ PollTimeout
         \/ ReceiveMessage \/ ReceiveBlocks \/ ReceiveFails \/ HandlerThrows
  PROVE  ViewerInv'
<1> USE DEF ViewerInv, FlagsInv, SocketInv, BacklogOK, ThenKnown,
            FlagBeforeClose, InstallHolds, EndedReleased, JoinedCleared,
            ClosedJoined, OneOwnerOfClient, ClosedMeansReleased,
            Valid, ActiveStream, flagVars, guiVars, linkVars, Polling
<1>1. CASE PollTest \/ PollEnds
  BY <1>1 DEF PollTest, PollEnds
<1>2. CASE PeerClosed \/ PollTimeout \/ ReceiveBlocks \/ ReceiveFails
  BY <1>2 DEF PeerClosed, PollTimeout, ReceiveBlocks, ReceiveFails
<1>3. CASE ReceiveMessage
  BY <1>3 DEF ReceiveMessage, Handle, ClearStream
<1>4. CASE HandlerThrows
  BY <1>4 DEF HandlerThrows
<1> QED  BY <1>1, <1>2, <1>3, <1>4

(* The worker closes what it holds. *)
LEMMA ReleaseInd ==
  ASSUME ViewerInv, Leave \/ Fault \/ Finish
  PROVE  ViewerInv'
<1> USE DEF ViewerInv, FlagsInv, SocketInv, BacklogOK, ThenKnown,
            FlagBeforeClose, InstallHolds, EndedReleased, JoinedCleared,
            ClosedJoined, OneOwnerOfClient, ClosedMeansReleased,
            Valid, ActiveStream, ClearStream,
            guiVars
<1>1. <<>> \in Seq(Conns)
  OBVIOUS
<1>2. CASE Leave
  BY <1>2 DEF Leave, BCloseClient
<1>3. CASE Fault
  BY <1>1, <1>3 DEF Fault, BCloseAll
<1>4. CASE Finish
  BY <1>1, <1>4 DEF Finish, BCloseAll
<1> QED  BY <1>2, <1>3, <1>4

(* The GUI thread up to stop(): it sends commands and starts the worker. *)
LEMMA CommandInd ==
  ASSUME ViewerInv,
         \/ User \/ PlayCCD \/ SendStop \/ StopSent \/ PrepareCamera
         \/ Configure \/ SendStart \/ StartSent \/ Stop
  PROVE  ViewerInv'
<1> USE DEF ViewerInv, FlagsInv, SocketInv, BacklogOK, ThenKnown,
            FlagBeforeClose, InstallHolds, EndedReleased, JoinedCleared,
            ClosedJoined, OneOwnerOfClient, ClosedMeansReleased,
            Valid, ActiveStream, ClearStream,
            flagVars, guiVars, linkVars
<1>1. CASE OpenDevice
  BY <1>1 DEF OpenDevice
<1>2. CASE SelectMode \/ PressPlay \/ PressStop \/ CloseWindow
  BY <1>2 DEF SelectMode, PressPlay, PressStop, CloseWindow
<1>3. CASE PlayCCD \/ PrepareCamera \/ Configure \/ Stop
  BY <1>3 DEF PlayCCD, PrepareCamera, Configure, Stop
<1>4. CASE SendStop \/ StopSent
  BY <1>4 DEF SendStop, StopSent
<1>5. CASE SendStart \/ StartSent
  BY <1>5 DEF SendStart, StartSent
<1> QED  BY <1>1, <1>2, <1>3, <1>4, <1>5 DEF User

(* The GUI thread: stop() closes the sockets and joins the worker. *)
LEMMA StopInd ==
  ASSUME ViewerInv, CloseSockets \/ JoinWorker
  PROVE  ViewerInv'
<1> USE DEF ViewerInv, FlagsInv, SocketInv, BacklogOK, ThenKnown,
            FlagBeforeClose, InstallHolds, EndedReleased, JoinedCleared,
            ClosedJoined, OneOwnerOfClient, ClosedMeansReleased,
            Valid, ActiveStream, ClearStream,
            flagVars, linkVars
<1>1. <<>> \in Seq(Conns)
  OBVIOUS
<1>2. CASE CloseSockets /\ wpc = "install"
  BY <1>1, <1>2 DEF CloseSockets, BCloseListener
<1>3. CASE CloseSockets /\ wpc # "install"
  BY <1>1, <1>3 DEF CloseSockets, BCloseAll
<1>4. CASE JoinWorker
  BY <1>4 DEF JoinWorker
<1> QED  BY <1>2, <1>3, <1>4

(* Whoever is at the other end touches nothing of the viewer but its        *)
(* backlog, and that only while it listens.                                 *)
LEMMA PeerStep ==
  ASSUME ViewerInv, UNCHANGED <<viewerVars, bSock, listening>>,
         backlog' \in Seq(Conns), backlog' # backlog => listening
  PROVE  ViewerInv'
BY DEF viewerVars, flagVars, guiVars, ViewerInv, FlagsInv, SocketInv,
       BacklogOK, ThenKnown, FlagBeforeClose, InstallHolds, EndedReleased,
       JoinedCleared, ClosedJoined, OneOwnerOfClient, ClosedMeansReleased,
       Valid, ActiveStream

LEMMA ViewerStep ==
  ASSUME ViewerInv, Worker \/ Gui \/ User
  PROVE  ViewerInv'
BY AcceptInd, ReceiveInd, ReleaseInd, CommandInd, StopInd DEF Worker, Gui

(* The collector as the peer. *)
LEMMA SystemStep == ViewerInv /\ [Next]_vars => ViewerInv'
<1> SUFFICES ASSUME ViewerInv, [Next]_vars
             PROVE  ViewerInv'
  OBVIOUS
<1>0. backlog \in Seq(Conns)
  BY DEF ViewerInv, SocketInv, BacklogOK
<1>1. CASE MachineB \/ AtTheGui
  BY <1>1, ViewerStep DEF MachineB, AtTheGui, User
<1>2. CASE MachineA
  <2>1. UNCHANGED <<viewerVars, bSock, listening>>
    BY <1>2, LinkStep DEF MachineA, LinkKept, Connect, AConnect, Receive,
       ARecv, CloseSession, AClose
  <2>2. backlog' \in Seq(Conns) /\ (backlog' # backlog => listening)
    <3>1. CASE Connect
      BY <1>0, <3>1 DEF Connect, AConnect
    <3>2. CASE ~Connect
      BY <1>0, <1>2, <3>2, LinkStep DEF MachineA, LinkKept, Receive, ARecv,
         CloseSession, AClose
    <3> QED  BY <3>1, <3>2
  <2> QED  BY <2>1, <2>2, PeerStep
<1>3. CASE PowerLoss \/ NetworkFails \/ UNCHANGED vars
  <2>1. UNCHANGED <<viewerVars, bSock, listening, backlog>>
    BY <1>3 DEF PowerLoss, NetworkFails, LoseLink, vars, linkVars
  <2> QED  BY <1>0, <2>1, PeerStep
<1> QED  BY <1>1, <1>2, <1>3 DEF Next

------------------------------------------------------------------------------
Alone == INSTANCE ViewerSystem

(* The viewer of ViewerSystem takes the steps of the whole system's viewer. *)
LEMMA SameWorker == Alone!Worker => Worker
BY DEF Worker, Boot, ListenTest, BindListen, AcceptTest, Accept, Install,
       AcceptThrows, PollTest, PollEnds, PeerClosed, PollTimeout,
       ReceiveMessage, ReceiveBlocks, ReceiveFails, HandlerThrows, Leave,
       Fault, Finish, flagVars, guiVars, linkVars, BAccept, Polling, BEof,
       BUnacked, BQuiet, Tick, ActiveStream, Arrived, BRecv, Handle, BTorn,
       BCloseClient, ClearStream, BCloseAll, DataFrame, Alone!Worker,
       Alone!Boot, Alone!ListenTest, Alone!BindListen, Alone!AcceptTest,
       Alone!Accept, Alone!Install, Alone!AcceptThrows, Alone!PollTest,
       Alone!PollEnds, Alone!PeerClosed, Alone!PollTimeout,
       Alone!ReceiveMessage, Alone!ReceiveBlocks, Alone!ReceiveFails,
       Alone!HandlerThrows, Alone!Leave, Alone!Fault, Alone!Finish,
       Alone!flagVars, Alone!guiVars, Alone!linkVars, Alone!BAccept,
       Alone!Polling, Alone!BEof, Alone!BUnacked, Alone!BQuiet, Alone!Tick,
       Alone!ActiveStream, Alone!Arrived, Alone!BRecv, Alone!Handle,
       Alone!BTorn, Alone!BCloseClient, Alone!ClearStream, Alone!BCloseAll,
       Alone!DataFrame

(* The same of the GUI thread and the user. *)
LEMMA SameGui == Alone!Gui \/ Alone!User => Gui \/ User
BY DEF Gui, PlayCCD, SendStop, StopSent, PrepareCamera, Configure, SendStart,
       StartSent, Stop, CloseSockets, JoinWorker, flagVars, linkVars, Valid,
       BSend, Command, BSendFails, ClearStream, StartCapture, BCloseListener,
       BCloseAll, BUnacked, Alone!Gui, Alone!PlayCCD, Alone!SendStop,
       Alone!StopSent, Alone!PrepareCamera, Alone!Configure, Alone!SendStart,
       Alone!StartSent, Alone!Stop, Alone!CloseSockets, Alone!JoinWorker,
       Alone!flagVars, Alone!linkVars, Alone!Valid, Alone!BSend,
       Alone!Command, Alone!BSendFails, Alone!ClearStream, Alone!StartCapture,
       Alone!BCloseListener, Alone!BCloseAll, Alone!BUnacked, User,
       OpenDevice, SelectMode, PressPlay, PressStop, CloseWindow, guiVars,
       Alone!User, Alone!OpenDevice, Alone!SelectMode, Alone!PressPlay,
       Alone!PressStop, Alone!CloseWindow, Alone!guiVars

(* And any other peer. *)
LEMMA AloneStep == ViewerInv /\ [Alone!Next]_Alone!vars => ViewerInv'
<1> SUFFICES ASSUME ViewerInv, [Alone!Next]_Alone!vars
             PROVE  ViewerInv'
  OBVIOUS
<1>0. backlog \in Seq(Conns)
  BY DEF ViewerInv, SocketInv, BacklogOK
<1>1. CASE Alone!Worker \/ Alone!Gui \/ Alone!User
  BY <1>1, SameWorker, SameGui, ViewerStep
<1>2. CASE Alone!Environment /\ UNCHANGED Alone!viewerVars
  <2>1. UNCHANGED <<viewerVars, bSock, listening>>
    BY <1>2 DEF Alone!Environment, Alone!AConnect, Alone!PeerSends,
       Alone!PeerReads, Alone!PeerCloses, Alone!AClose, Alone!PeerDies,
       Alone!LoseLink, viewerVars, flagVars, guiVars, Alone!viewerVars,
       Alone!flagVars, Alone!guiVars
  <2>2. backlog' \in Seq(Conns) /\ (backlog' # backlog => listening)
    <3>1. CASE Alone!AConnect
      BY <1>0, <3>1 DEF Alone!AConnect
    <3>2. CASE ~Alone!AConnect
      BY <1>0, <1>2, <3>2 DEF Alone!Environment, Alone!PeerSends,
         Alone!PeerReads, Alone!PeerCloses, Alone!AClose, Alone!PeerDies,
         Alone!LoseLink
    <3> QED  BY <3>1, <3>2
  <2> QED  BY <2>1, <2>2, PeerStep
<1>3. CASE UNCHANGED Alone!vars
  <2>1. UNCHANGED <<viewerVars, bSock, listening, backlog>>
    BY <1>3 DEF Alone!vars, Alone!viewerVars, Alone!flagVars, Alone!guiVars,
       Alone!linkVars, viewerVars, flagVars, guiVars
  <2> QED  BY <1>0, <2>1, PeerStep
<1> QED  BY <1>1, <1>2, <1>3 DEF Alone!Next

LEMMA AloneInit == Alone!Init => ViewerInv
<1>1. Alone!Init => LinkInit /\ ViewerInit
  BY DEF Alone!Init, Alone!LinkInit, Alone!ViewerInit, LinkInit, ViewerInit
<1> QED  BY <1>1, ViewerStarts

------------------------------------------------------------------------------
(* The client socket has one owner (OneOwnerOfClient): m_clientSocket is    *)
(* valid only in the worker's receive loop, m_clientConnected agrees with   *)
(* it, and only stop() may take it from the worker - with the collector or  *)
(* with any other peer.                                                     *)
THEOREM OneOwner == /\ Spec => []OneOwnerOfClient
                    /\ Alone!Spec => []OneOwnerOfClient
<1>1. ViewerInv => OneOwnerOfClient
  BY DEF ViewerInv
<1>2. Init => ViewerInv
  BY ViewerStarts DEF Init
<1>3. Spec => []OneOwnerOfClient
  BY <1>1, <1>2, SystemStep, PTL DEF Spec
<1>4. Alone!Spec => []OneOwnerOfClient
  BY <1>1, AloneInit, AloneStep, PTL DEF Alone!Spec
<1> QED  BY <1>3, <1>4

(* After the destructor has joined the worker no listener, connection or    *)
(* stream flag is left (ClosedMeansReleased), whichever thread closed what. *)
THEOREM ClosedReleases == Alone!Spec => []ClosedMeansReleased
<1>1. ViewerInv => ClosedMeansReleased
  BY DEF ViewerInv
<1> QED  BY <1>1, AloneInit, AloneStep, PTL DEF Alone!Spec
==============================================================================
