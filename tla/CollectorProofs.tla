--------------------------- MODULE CollectorProofs ---------------------------
(***************************************************************************)
(* Proofs about the collector against any viewer and any network, for      *)
(* every set of modes and connections, every buffer size, with and without *)
(* a frame limit.                                                          *)
(*                                                                         *)
(* The invariants are proved in layers: the types of the link, the types   *)
(* of the collector's own variables together with the location to which    *)
(* stop_thread() returns, the absence of a capture thread in the handlers, *)
(* and on top of that when the camera may stream.  With them the collector *)
(* is shown to implement CaptureStream.                                    *)
(***************************************************************************)
EXTENDS CollectorSystem, TLAPS

(* The collector's own part of TypeOK. *)
LocalTypeOK ==
  /\ grun \in BOOLEAN
  /\ pc \in MainLocations
  /\ after \in {"none"} \cup DOMAIN AfterStop
  /\ req \in Modes \cup {NoMode}
  /\ dealiased \subseteq Modes
  /\ run \in BOOLEAN
  /\ cpc \in CaptureLocations
  /\ frameId \in Nat
  /\ frame \in Modes \cup {NoMode}
  /\ streaming \in BOOLEAN
  /\ started \in BOOLEAN
  /\ leftOn \in BOOLEAN
  /\ modeName \in Modes
  /\ iniMode \in Modes

(* Inside stop_thread() it is known where to go on, and a table is exported *)
(* only for a frame type that was asked for.                                *)
AfterKnown ==
  pc \in {"clearRun", "stopCamera", "join"} => after \in DOMAIN AfterStop

ExportKnown == pc = "exportDealias" => req # NoMode

LocalInv == LocalTypeOK /\ AfterKnown /\ ExportKnown

WireOK == wire \in UpMsg \cup {Silent}

------------------------------------------------------------------------------
(* Every message of either side is one of the protocol.                     *)
LEMMA NoteType == \A t \in UpTypes : Note(t) \in UpMsg
BY DEF Note, UpMsg

LEMMA DealiasType ==
  \A m \in Modes \cup {NoMode} : DealiasData(m) \in UpMsg
BY DEF DealiasData, UpMsg, UpTypes

LEMMA FrameType ==
  \A m \in Modes \cup {NoMode}, n \in Nat : DataFrame(m, n) \in UpMsg
BY DEF DataFrame, UpMsg, UpTypes

LEMMA CommandType ==
  /\ \A m \in Modes \cup {NoMode} : StartCapture(m) \in DownMsg
  /\ \A t \in DownTypes : Command(t) \in DownMsg
BY DEF StartCapture, Command, DownMsg, DownTypes

(* Sending a message keeps the link well typed. *)
LEMMA SendLink ==
  ASSUME LinkTypeOK, NEW m \in UpMsg, Send(m)
  PROVE  LinkTypeOK'
<1>1. up' \in [Conns -> Seq(UpMsg)]
  <2>1. CASE UNCHANGED up
    BY <2>1 DEF LinkTypeOK
  <2>2. CASE up' = [up EXCEPT ![aSock] = Append(@, m)]
    <3>1. aSock \in Conns => Append(up[aSock], m) \in Seq(UpMsg)
      BY DEF LinkTypeOK
    <3> QED  BY <2>2, <3>1 DEF LinkTypeOK
  <2> QED  BY <2>1, <2>2 DEF Send, ASend
<1> QED  BY <1>1 DEF LinkTypeOK, Send

LEMMA SendThrowsLink ==
  ASSUME LinkTypeOK, SendThrows
  PROVE  LinkTypeOK'
BY DEF LinkTypeOK, SendThrows, AError

LEMMA IdleLink ==
  ASSUME LinkTypeOK, UNCHANGED linkVars
  PROVE  LinkTypeOK'
BY DEF LinkTypeOK, linkVars

(* What most steps of the collector do to the link. *)
Sends == \/ \E m \in UpMsg : Send(m)
         \/ SendThrows
         \/ UNCHANGED linkVars

LEMMA SendsLink ==
  ASSUME LinkTypeOK, Sends
  PROVE  LinkTypeOK'
BY SendLink, SendThrowsLink, IdleLink DEF Sends

LEMMA SetupSends ==
  ASSUME LocalTypeOK,
         SendHello \/ SendCcb \/ SendStartupDealias \/ SendReady
  PROVE  Sends
<1> USE NoteType
<1>1. CASE SendHello
  BY <1>1 DEF SendHello, Sends, UpTypes
<1>2. CASE SendCcb
  BY <1>2 DEF SendCcb, Sends, UpTypes, StatusTypes
<1>3. CASE SendStartupDealias
  <2>1. CASE \E m \in StartupModes : Send(DealiasData(m))
    <3>1. StartupModes \subseteq Modes
      BY DEF StartupModes, LocalTypeOK
    <3> QED  BY <2>1, <3>1, DealiasType DEF Sends
  <2>2. CASE Send(Note("Error"))
    BY <2>2 DEF Sends, UpTypes, StatusTypes
  <2> QED  BY <1>3, <2>1, <2>2 DEF SendStartupDealias, Sends
<1>4. CASE SendReady
  BY <1>4 DEF SendReady, Sends, UpTypes, StatusTypes
<1> QED  BY <1>1, <1>2, <1>3, <1>4

LEMMA HandlerSends ==
  ASSUME LocalTypeOK, StartHandler \/ Acknowledge
  PROVE  Sends
<1> USE NoteType
<1>1. CASE Accepted
  BY <1>1 DEF Accepted, Sends, UpTypes, StatusTypes
<1>2. CASE ApplyFps
  BY <1>2 DEF ApplyFps, Sends, UpTypes, StatusTypes
<1>3. CASE OfferDealias
  BY <1>3 DEF OfferDealias, Sends, UpTypes, StatusTypes
<1>4. CASE DealiasRequested
  BY <1>4, DealiasType DEF DealiasRequested, Sends, LocalTypeOK
<1>5. CASE Switch
  BY <1>5 DEF Switch, Sends, UpTypes, StatusTypes
<1>6. CASE StartCamera
  BY <1>6 DEF StartCamera, Sends, UpTypes, StatusTypes
<1>7. CASE ReportFailure
  BY <1>7 DEF ReportFailure, Sends, UpTypes, StatusTypes
<1>8. CASE SetRun \/ Spawn
  BY <1>8 DEF SetRun, Spawn, Sends
<1>9. CASE Announce
  BY <1>9 DEF Announce, Sends, UpTypes, StatusTypes
<1>10. CASE Acknowledge
  BY <1>10 DEF Acknowledge, Sends, UpTypes, StatusTypes
<1> QED  BY <1>1, <1>2, <1>3, <1>4, <1>5, <1>6, <1>7, <1>8, <1>9, <1>10
         DEF StartHandler

LEMMA CaptureSends ==
  ASSUME LocalTypeOK, CaptureThread
  PROVE  Sends
<1> USE NoteType
<1>1. CASE CaptureTest \/ Grab \/ LimitStopsCamera
  BY <1>1 DEF CaptureTest, Grab, LimitStopsCamera, Sends
<1>2. CASE SendFrame
  <2>1. DataFrame(frame, frameId + 1) \in UpMsg
    BY FrameType DEF LocalTypeOK
  <2> QED  BY <1>2, <2>1 DEF SendFrame, Sends
<1>3. CASE CaptureError
  BY <1>3 DEF CaptureError, Sends, UpTypes, StatusTypes
<1>4. CASE Farewell
  BY <1>4 DEF Farewell, Sends, UpTypes, StatusTypes
<1> QED  BY <1>1, <1>2, <1>3, <1>4 DEF CaptureThread

(* The steps of the environment and the rest of the collector's.            *)
LEMMA LinkStep ==
  ASSUME LinkTypeOK, LocalTypeOK, Next
  PROVE  LinkTypeOK'
<1> USE DEF LinkTypeOK
<1>1. CASE Connect
  BY <1>1 DEF Connect, AConnect
<1>2. CASE Receive
  <2>1. PICK m \in DownMsg : ARecv(m)
    BY <1>2 DEF Receive
  <2>2. down' \in [Conns -> Seq(DownMsg)]
    <3>1. aSock \in Conns => Tail(down[aSock]) \in Seq(DownMsg)
      BY <2>1 DEF ARecv
    <3> QED  BY <2>1, <3>1 DEF ARecv
  <2> QED  BY <1>2, <2>2 DEF Receive
<1>3. CASE CloseSession
  BY <1>3 DEF CloseSession, AClose, ADropsInput
<1>4. CASE ViewerListens
  BY <1>4 DEF ViewerListens
<1>5. CASE ViewerAccepts
  BY <1>5 DEF ViewerAccepts, BAccept
<1>6. CASE ViewerReads
  BY <1>6 DEF ViewerReads, BRecv, Arrived
<1>7. CASE ViewerCommands
  <2>1. PICK m \in DownMsg : BSend(m)
    BY <1>7, CommandType DEF ViewerCommands, DownTypes
  <2>2. down' = [down EXCEPT ![bSock] = Append(@, m)]
    BY <1>7, <2>1 DEF ViewerCommands, BSend
  <2>3. bSock \in Conns /\ Append(down[bSock], m) \in Seq(DownMsg)
    BY <1>7 DEF ViewerCommands
  <2>4. down' \in [Conns -> Seq(DownMsg)]
    BY <2>2, <2>3
  <2> QED  BY <1>7, <2>4 DEF ViewerCommands
<1>8. CASE ViewerCloses
  <2>1. <<>> \in Seq(UpMsg) /\ <<>> \in Seq(DownMsg)
    OBVIOUS
  <2>2. CASE BCloseClient
    BY <2>1, <2>2 DEF BCloseClient
  <2>3. CASE BCloseAll
    <3>1. lost' \subseteq Conns /\ backlog' \in Seq(Conns)
      BY <2>3 DEF BCloseAll
    <3> QED  BY <2>1, <2>3, <3>1 DEF BCloseAll
  <2> QED  BY <1>8, <2>2, <2>3 DEF ViewerCloses
<1>9. CASE NetworkFails
  BY <1>9 DEF NetworkFails
<1>10. CASE \/ ConnectThrows \/ LoopTest \/ ReceiveThrows \/ StopThread
            \/ Caught \/ Sleep \/ Interrupt
  <2>1. UNCHANGED linkVars \/ SendThrows
    BY <1>10 DEF ConnectThrows, LoopTest, ReceiveThrows, StopThread, ClearRun,
                 StopCamera, Join, Caught, Sleep, Interrupt
  <2> QED  BY <2>1, SendThrowsLink, IdleLink
<1>11. CASE \/ SendHello \/ SendCcb \/ SendStartupDealias \/ SendReady
            \/ StartHandler \/ Acknowledge \/ CaptureThread
  BY <1>11, SetupSends, HandlerSends, CaptureSends, SendsLink
<1> QED
  BY <1>1, <1>2, <1>3, <1>4, <1>5, <1>6, <1>7, <1>8, <1>9, <1>10, <1>11
  DEF Next, MainThread, Setup, Loop, Teardown, Environment

------------------------------------------------------------------------------
(* Every step keeps the types of the collector's variables, the             *)
(* continuation of stop_thread() and the request behind an export.          *)
LEMMA SetupLocal ==
  ASSUME LocalInv, Setup
  PROVE  LocalInv'
<1> USE DEF LocalInv, LocalTypeOK, AfterKnown, ExportKnown, MainLocations,
            AfterStop, Goto, ThrowFromSetup, captureVars, cameraVars
<1>1. CASE Connect
  BY <1>1 DEF Connect
<1>2. CASE ConnectThrows
  BY <1>2 DEF ConnectThrows
<1>3. CASE SendHello
  BY <1>3 DEF SendHello
<1>4. CASE SendCcb
  BY <1>4 DEF SendCcb
<1>5. CASE SendStartupDealias
  BY <1>5 DEF SendStartupDealias, StartupModes
<1>6. CASE SendReady
  BY <1>6 DEF SendReady
<1> QED  BY <1>1, <1>2, <1>3, <1>4, <1>5, <1>6 DEF Setup

LEMMA StopTyped ==
  ASSUME LocalTypeOK, NEW fails \in BOOLEAN, NEW closed \in BOOLEAN,
         StopLocked(fails, closed)
  PROVE  streaming' \in BOOLEAN /\ started' \in BOOLEAN /\ leftOn' \in BOOLEAN
BY DEF LocalTypeOK, StopLocked

LEMMA LoopLocal ==
  ASSUME LocalInv, Loop \/ StopThread
  PROVE  LocalInv'
<1> USE DEF LocalInv, LocalTypeOK, AfterKnown, ExportKnown, MainLocations,
            AfterStop, Goto, CallStopThread, ThrowFromLoop, captureVars,
            cameraVars
<1>1. CASE LoopTest
  BY <1>1 DEF LoopTest
<1>2. CASE Receive
  <2>1. \A m \in DownMsg : m.mode \in Modes \cup {NoMode}
    BY DEF DownMsg
  <2> QED  BY <1>2, <2>1 DEF Receive
<1>3. CASE ReceiveThrows
  BY <1>3 DEF ReceiveThrows
<1>4. CASE Acknowledge
  BY <1>4 DEF Acknowledge
<1>5. CASE ClearRun
  BY <1>5 DEF ClearRun
<1>6. CASE StopCamera
  <2>1. /\ streaming' \in BOOLEAN
        /\ started' \in BOOLEAN
        /\ leftOn' \in BOOLEAN
    BY <1>6, StopTyped DEF StopCamera
  <2> QED  BY <1>6, <2>1 DEF StopCamera, StopLocked
<1>7. CASE Join
  <2>1. AfterStop[after] \in {"fps", "loop", "acknowledge", "close"}
    BY <1>7 DEF Join
  <2> QED  BY <1>7, <2>1 DEF Join, CaptureLocations
<1> QED  BY <1>1, <1>2, <1>3, <1>4, <1>5, <1>6, <1>7 DEF Loop, StopThread

LEMMA StartLocal ==
  ASSUME LocalInv, StartHandler
  PROVE  LocalInv'
<1> USE DEF LocalInv, LocalTypeOK, AfterKnown, ExportKnown, MainLocations,
            AfterStop, Goto, CallStopThread, ThrowFromLoop, captureVars,
            cameraVars
<1>1. CASE Accepted
  BY <1>1 DEF Accepted
<1>2. CASE ApplyFps
  BY <1>2 DEF ApplyFps
<1>3. CASE OfferDealias
  BY <1>3 DEF OfferDealias
<1>4. CASE DealiasRequested
  BY <1>4 DEF DealiasRequested
<1>5. CASE Switch
  <2>1. CASE UNCHANGED cameraVars
    BY <1>5, <2>1 DEF Switch
  <2>2. CASE \E ok, applied \in BOOLEAN : SwitchMode(ok, applied) /\ req # NoMode
    <3>1. PICK ok \in BOOLEAN, applied \in BOOLEAN : SwitchMode(ok, applied)
      BY <2>2
    <3>2. /\ streaming' \in BOOLEAN
          /\ started' \in BOOLEAN
          /\ leftOn' \in BOOLEAN
      BY <3>1, StopTyped DEF SwitchMode
    <3>3. modeName' \in Modes /\ iniMode' \in Modes
      BY <2>2, <3>1 DEF SwitchMode
    <3> QED  BY <1>5, <3>2, <3>3 DEF Switch
  <2> QED  BY <1>5, <2>1, <2>2 DEF Switch
<1>6. CASE StartCamera
  <2>1. /\ streaming' \in BOOLEAN
        /\ started' \in BOOLEAN
        /\ leftOn' \in BOOLEAN
    BY <1>6, StopTyped DEF StartCamera
  <2> QED  BY <1>6, <2>1 DEF StartCamera
<1>7. CASE ReportFailure
  BY <1>7 DEF ReportFailure
<1>8. CASE SetRun
  BY <1>8 DEF SetRun
<1>9. CASE Announce
  BY <1>9 DEF Announce
<1>10. CASE Spawn
  BY <1>10 DEF Spawn, CaptureLocations
<1> QED  BY <1>1, <1>2, <1>3, <1>4, <1>5, <1>6, <1>7, <1>8, <1>9, <1>10
         DEF StartHandler

LEMMA CaptureLocal ==
  ASSUME LocalInv, CaptureThread
  PROVE  LocalInv'
<1> USE DEF LocalInv, LocalTypeOK, AfterKnown, ExportKnown, CaptureLocations,
            mainVars, captureVars, cameraVars
<1>1. CASE CaptureTest
  BY <1>1 DEF CaptureTest
<1>2. CASE Grab
  BY <1>2 DEF Grab
<1>3. CASE SendFrame
  BY <1>3 DEF SendFrame
<1>4. CASE CaptureError
  BY <1>4 DEF CaptureError
<1>5. CASE LimitStopsCamera
  <2>1. /\ streaming' \in BOOLEAN
        /\ started' \in BOOLEAN
        /\ leftOn' \in BOOLEAN
    BY <1>5, StopTyped DEF LimitStopsCamera
  <2> QED  BY <1>5, <2>1 DEF LimitStopsCamera
<1>6. CASE Farewell
  BY <1>6 DEF Farewell
<1> QED  BY <1>1, <1>2, <1>3, <1>4, <1>5, <1>6 DEF CaptureThread

LEMMA LocalInit ==
  ASSUME Init
  PROVE  LocalInv
BY CollectorAssumption
DEF Init, CollectorInit, LocalInv, LocalTypeOK, AfterKnown, ExportKnown,
    MainLocations, CaptureLocations

LEMMA LocalStep ==
  ASSUME LocalInv, [Next]_vars
  PROVE  LocalInv'
<1> USE DEF ClosedOnExit, LocalInv, LocalTypeOK, AfterKnown, ExportKnown
<1>1. CASE CloseSession
  BY <1>1 DEF CloseSession, MainLocations, captureVars, cameraVars
<1>2. CASE Caught
  <2>1. (pc' = "exit") \in BOOLEAN
    OBVIOUS
  <2>2. /\ streaming' \in BOOLEAN
        /\ started' \in BOOLEAN
        /\ leftOn' \in BOOLEAN
    BY <1>2, <2>1, StopTyped DEF Caught
  <2> QED  BY <1>2, <2>2 DEF Caught, MainLocations, captureVars
<1>3. CASE Sleep
  BY <1>3 DEF Sleep, MainLocations, captureVars, cameraVars
<1>4. CASE Interrupt
  BY <1>4 DEF Interrupt, captureVars, cameraVars
<1>5. CASE UNCHANGED collectorVars
  BY <1>5 DEF collectorVars, mainVars, captureVars, cameraVars
<1>6. CASE Setup \/ Loop \/ StopThread \/ StartHandler \/ CaptureThread
  BY <1>6, SetupLocal, LoopLocal, StartLocal, CaptureLocal
<1> QED  BY <1>1, <1>2, <1>3, <1>4, <1>5, <1>6
         DEF Next, MainThread, Teardown, vars

------------------------------------------------------------------------------
(* The last message A put on its connection is one of the link's. *)
LEMMA WireStep ==
  ASSUME LinkTypeOK, LinkTypeOK', WireOK, [Next]_vars
  PROVE  WireOK'
<1>1. CASE Logged
  <2>1. CASE aSock # NoConn /\ Len(up'[aSock]) > Len(up[aSock])
    <3>1. aSock \in Conns
      BY <2>1 DEF LinkTypeOK
    <3>2. up[aSock] \in Seq(UpMsg) /\ up'[aSock] \in Seq(UpMsg)
      BY <3>1 DEF LinkTypeOK
    <3>3. Len(up'[aSock]) \in 1..Len(up'[aSock])
      BY <2>1, <3>2
    <3>4. up'[aSock][Len(up'[aSock])] \in UpMsg
      BY <3>2, <3>3
    <3> QED  BY <1>1, <2>1, <3>4 DEF Logged, WireOK
  <2>2. CASE ~(aSock # NoConn /\ Len(up'[aSock]) > Len(up[aSock]))
    BY <1>1, <2>2 DEF Logged, WireOK
  <2> QED  BY <2>1, <2>2
<1>2. CASE UNCHANGED wire
  BY <1>2 DEF WireOK
<1> QED  BY <1>1, <1>2 DEF Next, vars

(* Type correctness of the collector and its link (TypeOK): whatever the    *)
(* viewer sends and whenever the network fails, session() and the capture   *)
(* thread only ever reach the locations of the model, hold messages of the  *)
(* protocol and a camera mode the sensor has - an empty or refused frame    *)
(* type never becomes mode_name_.                                           *)
THEOREM TypeCorrect == Spec => []TypeOK
<1> DEFINE IInv == LinkTypeOK /\ LocalInv /\ WireOK
<1>1. Init => IInv
  <2> SUFFICES ASSUME Init PROVE IInv
    OBVIOUS
  <2>1. LinkTypeOK
    <3>1. /\ <<>> \in Seq(UpMsg)
          /\ <<>> \in Seq(DownMsg)
          /\ <<>> \in Seq(Conns)
      OBVIOUS
    <3> QED  BY <3>1 DEF Init, LinkInit, LinkTypeOK
  <2>2. LocalInv
    BY LocalInit
  <2>3. WireOK
    BY DEF Init, WireOK
  <2> QED  BY <2>1, <2>2, <2>3
<1>2. IInv /\ [Next]_vars => IInv'
  <2> SUFFICES ASSUME IInv, [Next]_vars PROVE IInv'
    OBVIOUS
  <2>1. LinkTypeOK'
    <3>1. CASE Next
      BY <3>1, LinkStep DEF LocalInv
    <3>2. CASE UNCHANGED vars
      BY <3>2, IdleLink DEF vars
    <3> QED  BY <3>1, <3>2
  <2>2. LocalInv'
    BY LocalStep
  <2>3. WireOK'
    BY <2>1, WireStep
  <2> QED  BY <2>1, <2>2, <2>3
<1>3. IInv => TypeOK
  BY DEF LocalInv, LocalTypeOK, WireOK, TypeOK
<1> QED  BY <1>1, <1>2, <1>3, PTL DEF Spec

------------------------------------------------------------------------------
(* No step brings a capture thread into a handler that must be alone: only  *)
(* Spawn starts one, on the way back to the command loop, and the handlers  *)
(* are entered through Join, which waits for it.                            *)
LEMMA AloneStep ==
  ASSUME LocalInv, MainAloneInHandlers, [Next]_vars
  PROVE  MainAloneInHandlers'
<1> USE DEF MainAloneInHandlers
<1>1. CASE Setup
  BY <1>1 DEF Setup, Connect, ConnectThrows, SendHello, SendCcb,
              SendStartupDealias, SendReady, Goto, ThrowFromSetup, captureVars
<1>2. CASE LoopTest \/ ReceiveThrows \/ Acknowledge
  BY <1>2 DEF LoopTest, ReceiveThrows, Acknowledge, CallStopThread,
              ThrowFromLoop, captureVars
<1>3. CASE Receive
  BY <1>3 DEF Receive, CallStopThread, captureVars
<1>4. CASE ClearRun \/ StopCamera
  BY <1>4 DEF ClearRun, StopCamera, Goto, captureVars
<1>5. CASE Join
  BY <1>5 DEF Join
<1>6. CASE Accepted \/ ApplyFps \/ OfferDealias \/ DealiasRequested
  BY <1>6 DEF Accepted, ApplyFps, OfferDealias, DealiasRequested,
              CallStopThread, captureVars
<1>7. CASE Switch
  BY <1>7 DEF Switch, captureVars
<1>8. CASE StartCamera \/ ReportFailure \/ SetRun \/ Announce
  BY <1>8 DEF StartCamera, ReportFailure, SetRun, Announce, Goto,
              CallStopThread, ThrowFromLoop, captureVars
<1>9. CASE Spawn
  BY <1>9 DEF Spawn, Goto
<1>10. CASE Teardown
  BY <1>10 DEF Teardown, CloseSession, Caught, Sleep, captureVars
<1>11. CASE CaptureThread
  <2>1. cpc # "none" /\ pc' = pc
    BY <1>11 DEF CaptureThread, CaptureTest, Grab, SendFrame, CaptureError,
                 LimitStopsCamera, Farewell, mainVars
  <2> QED  BY <2>1
<1>12. CASE Interrupt \/ UNCHANGED collectorVars
  BY <1>12 DEF Interrupt, collectorVars, mainVars, captureVars
<1> QED
  BY <1>1, <1>2, <1>3, <1>4, <1>5, <1>6, <1>7, <1>8, <1>9, <1>10, <1>11, <1>12
  DEF Next, MainThread, Loop, StopThread, StartHandler, vars

(* LocalInv holds always: the part of the invariant the rest builds on. *)
LEMMA LocalAlways == Spec => []LocalInv
<1>1. LocalInv /\ [Next]_vars => LocalInv'
  BY LocalStep
<1> QED  BY <1>1, LocalInit, PTL DEF Spec

(* The main thread of session() sends, reconfigures the camera, assigns     *)
(* capture_thread and closes the socket without a lock only while no        *)
(* capture thread exists (MainAloneInHandlers).                             *)
THEOREM MainAlone == Spec => []MainAloneInHandlers
<1>1. Init => MainAloneInHandlers
  BY DEF Init, CollectorInit, MainAloneInHandlers
<1>2. LocalInv /\ MainAloneInHandlers /\ [Next]_vars => MainAloneInHandlers'
  BY AloneStep
<1> QED  BY <1>1, <1>2, LocalAlways, PTL DEF Spec

------------------------------------------------------------------------------
(* When the camera may stream.  In the command loop it streams for a        *)
(* capture thread that goes on capturing or is about to stop it at the      *)
(* frame limit ...                                                          *)
StreamsForThread ==
  pc \in {"loop", "recv"} /\ grun /\ streaming
    => \/ cpc \in {"test", "grab", "send", "failed"} /\ run
       \/ cpc = "stopCamera"

(* ... and from stop_thread()'s join until start() it is stopped, as it is  *)
(* outside the command loop.                                                *)
StoppedInHandlers ==
  pc \in {"join", "acknowledge", "fps", "sendDealias", "exportDealias",
          "switch", "start", "close", "caught", "sleep", "connect", "exit",
          "hello", "ccb", "dealias", "ready"} => ~streaming

(* The thread is spawned with its flag set. *)
SpawnsRunning == pc \in {"announce", "spawn"} => run

CameraInv == StreamsForThread /\ StoppedInHandlers /\ SpawnsRunning

(* Every step keeps CameraInv.  The capture thread cannot clear the flag of *)
(* a capture that is being announced, because it does not exist then.       *)
LEMMA CameraStep ==
  ASSUME LocalInv, MainAloneInHandlers, CameraInv, [Next]_vars
  PROVE  CameraInv'
<1> USE DEF StopLocked, ClosedOnExit, CameraInv, StreamsForThread, StoppedInHandlers, SpawnsRunning
<1>1. CASE Setup
  BY <1>1 DEF Setup, Connect, ConnectThrows, SendHello, SendCcb,
              SendStartupDealias, SendReady, Goto, ThrowFromSetup,
              captureVars, cameraVars
<1>2. CASE LoopTest \/ ReceiveThrows \/ Acknowledge
  BY <1>2 DEF LoopTest, ReceiveThrows, Acknowledge, CallStopThread,
              ThrowFromLoop, captureVars, cameraVars
<1>3. CASE Receive
  BY <1>3 DEF Receive, CallStopThread, captureVars, cameraVars
<1>4. CASE ClearRun \/ StopCamera
  BY <1>4 DEF ClearRun, StopCamera, Goto, captureVars, cameraVars
<1>5. CASE Join
  <2>1. AfterStop[after] \in {"fps", "loop", "acknowledge", "close"}
    BY <1>5 DEF Join, LocalInv, AfterKnown, AfterStop
  <2> QED  BY <1>5, <2>1 DEF Join, cameraVars
<1>6. CASE Accepted \/ ApplyFps \/ OfferDealias \/ DealiasRequested
  BY <1>6 DEF Accepted, ApplyFps, OfferDealias, DealiasRequested,
              CallStopThread, captureVars, cameraVars
<1>7. CASE Switch
  BY <1>7 DEF Switch, SwitchMode, captureVars, cameraVars
<1>8. CASE StartCamera \/ ReportFailure \/ SetRun \/ Announce
  BY <1>8 DEF StartCamera, ReportFailure, SetRun, Announce, Goto,
              CallStopThread, ThrowFromLoop, captureVars, cameraVars
<1>9. CASE Spawn
  BY <1>9 DEF Spawn, Goto, cameraVars
<1>10. CASE Teardown
  BY <1>10 DEF Teardown, CloseSession, Caught, Sleep, captureVars, cameraVars
<1>11. CASE CaptureTest
  BY <1>11 DEF CaptureTest, MainAloneInHandlers, mainVars, cameraVars
<1>12. CASE Grab \/ SendFrame \/ CaptureError \/ LimitStopsCamera \/ Farewell
  BY <1>12 DEF Grab, SendFrame, CaptureError, LimitStopsCamera, Farewell,
               mainVars, cameraVars
<1>13. CASE Interrupt \/ UNCHANGED collectorVars
  BY <1>13 DEF Interrupt, collectorVars, mainVars, captureVars, cameraVars
<1> QED
  BY <1>1, <1>2, <1>3, <1>4, <1>5, <1>6, <1>7, <1>8, <1>9, <1>10, <1>11,
     <1>12, <1>13
  DEF Next, MainThread, CaptureThread, Loop, StopThread, StartHandler, vars

(* What stop_locked() and the closing of the device do to it. *)
LEMMA StopAgrees ==
  ASSUME DeviceAgrees, NEW fails \in BOOLEAN, NEW closed \in BOOLEAN,
         StopLocked(fails, closed)
  PROVE  DeviceAgrees'
BY DEF DeviceAgrees, StopLocked

LEMMA CloseAgrees ==
  ASSUME DeviceAgrees, ClosedOnExit
  PROVE  DeviceAgrees'
BY DEF DeviceAgrees, ClosedOnExit

LEMMA SameAgrees ==
  ASSUME DeviceAgrees, UNCHANGED <<streaming, started, leftOn>>
  PROVE  DeviceAgrees'
BY DEF DeviceAgrees

(* Every step keeps camera and device in agreement. *)
LEMMA DeviceStep ==
  ASSUME DeviceAgrees, [Next]_vars
  PROVE  DeviceAgrees'
<1>1. CASE Setup
  BY <1>1, SameAgrees DEF Setup, Connect, ConnectThrows, SendHello, SendCcb,
                          SendStartupDealias, SendReady, cameraVars
<1>2. CASE Loop
  BY <1>2, SameAgrees DEF Loop, LoopTest, Receive, ReceiveThrows, Acknowledge,
                          cameraVars
<1>3. CASE StopThread
  BY <1>3, SameAgrees, StopAgrees
  DEF StopThread, ClearRun, StopCamera, Join, cameraVars
<1>4. CASE \/ Accepted \/ ApplyFps \/ OfferDealias \/ DealiasRequested
           \/ ReportFailure \/ SetRun \/ Announce \/ Spawn
  BY <1>4, SameAgrees DEF Accepted, ApplyFps, OfferDealias, DealiasRequested,
                          ReportFailure, SetRun, Announce, Spawn, cameraVars
<1>5. CASE Switch
  <2>1. CASE \E ok, applied \in BOOLEAN : SwitchMode(ok, applied)
    BY <2>1, SameAgrees, StopAgrees DEF SwitchMode, cameraVars
  <2> QED  BY <1>5, <2>1, SameAgrees DEF Switch, cameraVars
<1>6. CASE StartCamera
  <2>1. CASE (~started \/ streaming) /\ streaming' /\ started'
               /\ UNCHANGED leftOn
    BY <2>1 DEF DeviceAgrees
  <2> QED  BY <1>6, <2>1, SameAgrees, StopAgrees DEF StartCamera
<1>7. CASE Teardown
  <2>1. (pc' = "exit") \in BOOLEAN
    OBVIOUS
  <2> QED  BY <1>7, <2>1, CloseAgrees, StopAgrees
           DEF Teardown, CloseSession, Caught, Sleep
<1>8. CASE CaptureThread
  BY <1>8, SameAgrees, StopAgrees
  DEF CaptureThread, CaptureTest, Grab, SendFrame, CaptureError,
      LimitStopsCamera, Farewell, cameraVars
<1>9. CASE Interrupt \/ UNCHANGED collectorVars
  BY <1>9, SameAgrees DEF Interrupt, collectorVars, cameraVars
<1> QED  BY <1>1, <1>2, <1>3, <1>4, <1>5, <1>6, <1>7, <1>8, <1>9
         DEF Next, MainThread, StartHandler, vars

(* The process ends with its device closed. *)
ClosedAtExit == pc = "exit" => ~started

LEMMA ExitStep ==
  ASSUME LocalInv, MainAloneInHandlers, ClosedAtExit, [Next]_vars
  PROVE  ClosedAtExit'
<1> USE DEF ClosedAtExit
<1>1. CASE Setup
  BY <1>1 DEF Setup, Connect, ConnectThrows, SendHello, SendCcb,
              SendStartupDealias, SendReady, Goto, ThrowFromSetup
<1>2. CASE Loop \/ ClearRun \/ StopCamera
  BY <1>2 DEF Loop, LoopTest, Receive, ReceiveThrows, Acknowledge, ClearRun,
              StopCamera, Goto, CallStopThread, ThrowFromLoop
<1>3. CASE Join
  BY <1>3 DEF Join, LocalInv, AfterKnown, AfterStop
<1>4. CASE StartHandler
  BY <1>4 DEF StartHandler, Accepted, ApplyFps, OfferDealias,
              DealiasRequested, Switch, StartCamera, ReportFailure, SetRun,
              Announce, Spawn, Goto, CallStopThread, ThrowFromLoop
<1>5. CASE Teardown
  BY <1>5 DEF Teardown, CloseSession, Caught, Sleep, StopLocked, ClosedOnExit
<1>6. CASE CaptureThread
  BY <1>6 DEF CaptureThread, CaptureTest, Grab, SendFrame, CaptureError,
              LimitStopsCamera, Farewell, mainVars, MainAloneInHandlers
<1>7. CASE Interrupt \/ UNCHANGED collectorVars
  BY <1>7 DEF Interrupt, collectorVars, mainVars, cameraVars
<1> QED  BY <1>1, <1>2, <1>3, <1>4, <1>5, <1>6, <1>7
         DEF Next, MainThread, StopThread, vars

(* A device streams with nobody to read it only after a STREAMOFF that      *)
(* failed (IdleCameraStopped): after stop_thread(), a failed start() or the *)
(* frame limit it has been stopped, or left on by its driver, when the main *)
(* thread waits for the next command, and between sessions.                 *)
THEOREM CameraIdle == Spec => []IdleCameraStopped
<1>1. Init => CameraInv
  BY DEF Init, CollectorInit, CameraInv, StreamsForThread, StoppedInHandlers,
         SpawnsRunning
<1>2. LocalInv /\ MainAloneInHandlers /\ CameraInv /\ [Next]_vars
        => CameraInv'
  BY CameraStep
<1>3. Init => DeviceAgrees /\ ClosedAtExit
  BY DEF Init, CollectorInit, DeviceAgrees, ClosedAtExit
<1>4. /\ DeviceAgrees /\ [Next]_vars => DeviceAgrees'
      /\ LocalInv /\ MainAloneInHandlers /\ ClosedAtExit /\ [Next]_vars
           => ClosedAtExit'
  BY DeviceStep, ExitStep
<1>5. CameraInv /\ DeviceAgrees /\ ClosedAtExit => IdleCameraStopped
  BY DEF CameraInv, StreamsForThread, StoppedInHandlers, DeviceAgrees,
         ClosedAtExit, IdleCameraStopped, Idle, Streaming
<1> QED  BY <1>1, <1>2, <1>3, <1>4, <1>5, LocalAlways, MainAlone, PTL DEF Spec

------------------------------------------------------------------------------
(* The collector implements CaptureStream, with the invariants above.  A    *)
(* step of the collector touches the abstract stream in two ways: by what   *)
(* it sends, which reaches a reader only on a live connection (SendEffect,  *)
(* SilentEffect), and by opening or closing the stream, which only Announce *)
(* and Farewell do.                                                         *)

(* The abstract variables. *)
Ftype == IF pc = "spawn" \/ Streaming THEN modeName ELSE NoMode
NextId == IF pc = "spawn" THEN 1 ELSE IF Streaming THEN frameId + 1 ELSE 0
Last == IF Alive THEN wire ELSE Silent

(* A capture is announced in the mode it was asked for. *)
ModeRequested ==
  pc \in {"start", "setRun", "announce"} /\ req # NoMode => modeName = req

(* The capture thread holds a frame of the camera's current mode. *)
FrameOfMode == cpc = "send" => frame = modeName

(* Nothing has been sent on a connection that does not exist. *)
SilentUnconnected == aSock = NoConn => wire = Silent

StreamInv == ModeRequested /\ FrameOfMode /\ SilentUnconnected

------------------------------------------------------------------------------
(* The mode of the camera changes only in switchMode(), which no capture    *)
(* thread sees, and the request only where one is received or given up.     *)
LEMMA ModeStep ==
  ASSUME LocalInv, MainAloneInHandlers, ModeRequested, FrameOfMode,
         [Next]_vars
  PROVE  ModeRequested' /\ FrameOfMode'
<1> USE DEF StopLocked, ClosedOnExit, ModeRequested, FrameOfMode
<1>1. CASE Setup
  BY <1>1 DEF Setup, Connect, ConnectThrows, SendHello, SendCcb,
              SendStartupDealias, SendReady, Goto, ThrowFromSetup,
              captureVars, cameraVars
<1>2. CASE LoopTest \/ ReceiveThrows \/ Acknowledge
  BY <1>2 DEF LoopTest, ReceiveThrows, Acknowledge, CallStopThread,
              ThrowFromLoop, captureVars, cameraVars
<1>3. CASE Receive
  BY <1>3 DEF Receive, CallStopThread, captureVars, cameraVars
<1>4. CASE ClearRun \/ StopCamera
  BY <1>4 DEF ClearRun, StopCamera, Goto, captureVars, cameraVars
<1>5. CASE Join
  <2>1. AfterStop[after] \in {"fps", "loop", "acknowledge", "close"}
    BY <1>5 DEF Join, LocalInv, AfterKnown, AfterStop
  <2> QED  BY <1>5, <2>1 DEF Join, cameraVars
<1>6. CASE Accepted \/ ApplyFps \/ OfferDealias \/ DealiasRequested
  BY <1>6 DEF Accepted, ApplyFps, OfferDealias, DealiasRequested,
              CallStopThread, captureVars, cameraVars
<1>7. CASE Switch
  BY <1>7 DEF Switch, SwitchMode, MainAloneInHandlers, captureVars, cameraVars
<1>8. CASE StartCamera \/ ReportFailure \/ SetRun \/ Announce
  BY <1>8 DEF StartCamera, ReportFailure, SetRun, Announce, Goto,
              CallStopThread, ThrowFromLoop, captureVars, cameraVars
<1>9. CASE Spawn
  BY <1>9 DEF Spawn, Goto, cameraVars
<1>10. CASE Teardown
  BY <1>10 DEF Teardown, CloseSession, Caught, Sleep, captureVars, cameraVars
<1>11. CASE CaptureThread
  BY <1>11 DEF CaptureThread, CaptureTest, Grab, SendFrame, CaptureError,
               LimitStopsCamera, Farewell, mainVars, cameraVars
<1>12. CASE Interrupt \/ UNCHANGED collectorVars
  BY <1>12 DEF Interrupt, collectorVars, mainVars, captureVars, cameraVars
<1> QED
  BY <1>1, <1>2, <1>3, <1>4, <1>5, <1>6, <1>7, <1>8, <1>9, <1>10, <1>11, <1>12
  DEF Next, MainThread, Loop, StopThread, StartHandler, vars

LEMMA SilentStep ==
  ASSUME SilentUnconnected, [Next]_vars
  PROVE  SilentUnconnected'
<1>1. CASE Logged
  BY <1>1 DEF Logged, SilentUnconnected
<1>2. CASE Interrupt /\ UNCHANGED wire
  BY <1>2 DEF Interrupt, linkVars, SilentUnconnected
<1>3. CASE Environment /\ UNCHANGED wire
  BY <1>3 DEF Environment, ViewerListens, ViewerAccepts, BAccept, ViewerReads,
              ViewerCommands, ViewerCloses, BCloseClient, BCloseAll,
              NetworkFails, SilentUnconnected
<1>4. CASE UNCHANGED vars
  BY <1>4 DEF vars, linkVars, SilentUnconnected
<1> QED  BY <1>1, <1>2, <1>3, <1>4 DEF Next

------------------------------------------------------------------------------
(* What a message does to the stream's reader, and what a step without one. *)
LEMMA SendEffect ==
  ASSUME LinkTypeOK, NEW m \in UpMsg, Send(m), Logged
  PROVE  Alive' = Alive /\ Last' = IF Alive THEN m ELSE Silent
<1>1. Alive' = Alive
  BY DEF Send, Alive, Dead, PeerGone, Queued
<1>2. CASE Alive
  <2>1. aSock \in Conns /\ up[aSock] \in Seq(UpMsg)
    BY <1>2 DEF Alive, LinkTypeOK
  <2>2. up'[aSock] = Append(up[aSock], m)
    BY <1>2, <2>1 DEF Send, ASend, Alive, LinkTypeOK
  <2>3. /\ Len(up'[aSock]) = Len(up[aSock]) + 1
        /\ up'[aSock][Len(up[aSock]) + 1] = m
        /\ Len(up[aSock]) \in Nat
    BY <2>1, <2>2
  <2>4. wire' = m
    BY <1>2, <2>3 DEF Logged, Send, Alive
  <2> QED  BY <1>1, <1>2, <2>4 DEF Last
<1>3. CASE ~Alive
  BY <1>1, <1>3 DEF Last
<1> QED  BY <1>1, <1>2, <1>3

LEMMA SilentEffect ==
  ASSUME LinkTypeOK, Logged,
         UNCHANGED <<up, aSock, bSock, backlog, lost>>
  PROVE  Alive' = Alive /\ Last' = Last
<1>1. Alive' = Alive
  BY DEF Alive, Dead, PeerGone, Queued
<1>2. CASE Alive
  <2>1. up[aSock] \in Seq(UpMsg)
    BY <1>2 DEF Alive, LinkTypeOK
  <2>2. wire' = wire
    BY <1>2, <2>1 DEF Logged, Alive
  <2> QED  BY <1>1, <2>2 DEF Last
<1>3. CASE ~Alive
  BY <1>1, <1>3 DEF Last
<1> QED  BY <1>1, <1>2, <1>3

LEMMA ThrowsEffect ==
  ASSUME LinkTypeOK, Logged, SendThrows
  PROVE  ~Alive /\ Alive' = Alive /\ Last' = Last
<1>1. ~Alive
  BY DEF SendThrows, AError, Alive
<1> QED  BY <1>1, SilentEffect DEF SendThrows, AError

------------------------------------------------------------------------------
Refined == Stream!StreamNext \/ UNCHANGED Stream!streamVars

(* A step that sends nothing and leaves the stream alone. *)
LEMMA Stutters ==
  ASSUME LinkTypeOK, Logged,
         UNCHANGED <<up, aSock, bSock, backlog, lost>>,
         UNCHANGED <<Ftype, NextId>>, req' \in Modes \cup {NoMode}
  PROVE  Refined
<1>1. Alive' = Alive /\ Last' = Last
  BY SilentEffect
<1> QED  BY <1>1 DEF Refined, Stream!StreamNext, Stream!Ask,
                     Stream!streamVars, Ftype, NextId, Last

(* A step that fails to send, or sends what says nothing about a stream. *)
LEMMA Fails ==
  ASSUME LinkTypeOK, Logged, SendThrows, UNCHANGED <<Ftype, NextId>>,
         req' \in Modes \cup {NoMode}
  PROVE  Refined
BY Stutters DEF SendThrows, AError

LEMMA Remarks ==
  ASSUME LinkTypeOK, Logged, UNCHANGED <<Ftype, NextId, req>>,
         NEW m \in UpMsg, Send(m),
         \/ m \in {Note("Waiting"), Note("Error")}
         \/ /\ Ftype = NoMode
            /\ \/ m \in {Note("Hello"), Note("CcbFile"),
                         Note("WaitingStart"), Note("Stopped")}
               \/ \E d \in Modes : m = DealiasData(d)
  PROVE  Refined
<1>1. Alive' = Alive /\ Last' = IF Alive THEN m ELSE Silent
  BY SendEffect
<1>2. CASE Alive
  BY <1>1, <1>2
  DEF Refined, Stream!StreamNext, Stream!Remark, Stream!Plain, Stream!Open,
      Note, DealiasData, Ftype, NextId, Last
<1>3. CASE ~Alive
  BY <1>1, <1>3 DEF Refined, Stream!streamVars, Ftype, NextId, Last
<1> QED  BY <1>2, <1>3

(* The connection has ended. *)
LEMMA Ends ==
  ASSUME UNCHANGED <<Ftype, NextId, req>>, ~Alive'
  PROVE  Refined
<1>1. Last' = Silent /\ Alive' = FALSE
  BY DEF Last, Alive
<1>2. CASE Alive
  BY <1>1, <1>2 DEF Refined, Stream!StreamNext, Stream!Die, Stream!Plain,
                    Silent, Ftype, NextId, Last
<1>3. CASE ~Alive
  <2>1. Alive' = Alive
    BY <1>1, <1>3 DEF Alive
  <2> QED  BY <1>1, <1>3, <2>1
           DEF Refined, Stream!streamVars, Ftype, NextId, Last
<1> QED  BY <1>2, <1>3

------------------------------------------------------------------------------
(* Before the command loop. *)
LEMMA SetupRefines ==
  ASSUME LinkTypeOK, LocalInv, MainAloneInHandlers, StreamInv, Setup, Logged
  PROVE  Refined
<1>1. UNCHANGED <<Ftype, NextId, req>> /\ Ftype = NoMode
  BY DEF Setup, Connect, ConnectThrows, SendHello, SendCcb,
         SendStartupDealias, SendReady, Goto, ThrowFromSetup, captureVars,
         cameraVars, MainAloneInHandlers, Ftype, NextId, Streaming
<1>2. req' \in Modes \cup {NoMode}
  BY <1>1 DEF LocalInv, LocalTypeOK
<1> USE NoteType DEF UpTypes, StatusTypes
<1>3. CASE Connect
  <2>1. PICK c \in Conns : /\ aSock = NoConn /\ aSock' = c
                           /\ backlog' = Append(backlog, c)
                           /\ lost' = lost \ {c}
    BY <1>3 DEF Connect, AConnect
  <2>2. backlog'[Len(backlog')] = c /\ Len(backlog') \in 1..Len(backlog')
    BY <2>1 DEF LinkTypeOK
  <2>3. ~Alive /\ Alive'
    BY <2>1, <2>2, LinkAssumption DEF Alive, Dead, PeerGone, Queued
  <2>4. wire' = wire /\ wire = Silent
    BY <2>1, LinkAssumption DEF Logged, StreamInv, SilentUnconnected
  <2> QED  BY <1>1, <2>3, <2>4
           DEF Refined, Stream!StreamNext, Stream!Begin, Stream!Open, Ftype,
               NextId, Last
<1>4. CASE ConnectThrows
  BY <1>1, <1>2, <1>4, Stutters DEF ConnectThrows, linkVars
<1>5. CASE SendHello
  BY <1>1, <1>2, <1>5, Remarks, Fails DEF SendHello
<1>6. CASE SendCcb
  BY <1>1, <1>2, <1>6, Remarks, Fails DEF SendCcb
<1>7. CASE SendStartupDealias
  <2>1. CASE \E m \in StartupModes : Send(DealiasData(m))
    <3>1. StartupModes \subseteq Modes
      BY DEF StartupModes, LocalInv, LocalTypeOK
    <3> QED  BY <1>1, <2>1, <3>1, DealiasType, Remarks
  <2>2. CASE Send(Note("Error"))
    BY <1>1, <2>2, Remarks
  <2>3. CASE SendThrows
    BY <1>1, <1>2, <2>3, Fails
  <2>4. CASE UNCHANGED linkVars
    BY <1>1, <1>2, <2>4, Stutters DEF linkVars
  <2> QED  BY <1>7, <2>1, <2>2, <2>3, <2>4 DEF SendStartupDealias
<1>8. CASE SendReady
  BY <1>1, <1>2, <1>8, Remarks, Fails DEF SendReady
<1> QED  BY <1>3, <1>4, <1>5, <1>6, <1>7, <1>8 DEF Setup

(* The command loop and stop_thread(). *)
LEMMA LoopRefines ==
  ASSUME LinkTypeOK, LocalInv, MainAloneInHandlers, Loop \/ StopThread, Logged
  PROVE  Refined
<1> USE DEF Ftype, NextId, Streaming
<1>1. req \in Modes \cup {NoMode}
  BY DEF LocalInv, LocalTypeOK
<1>2. CASE LoopTest
  BY <1>1, <1>2, Stutters
  DEF LoopTest, CallStopThread, captureVars, cameraVars, linkVars
<1>3. CASE Receive
  <2>1. req' \in Modes \cup {NoMode}
    BY <1>1, <1>3 DEF Receive, DownMsg
  <2> QED  BY <1>3, <2>1, Stutters
           DEF Receive, CallStopThread, captureVars, cameraVars
<1>4. CASE ReceiveThrows
  BY <1>1, <1>4, Fails
  DEF ReceiveThrows, ThrowFromLoop, CallStopThread, captureVars, cameraVars
<1>5. CASE Acknowledge
  <2>1. UNCHANGED <<Ftype, NextId, req>> /\ Ftype = NoMode
    BY <1>5 DEF Acknowledge, MainAloneInHandlers, ThrowFromLoop,
                CallStopThread, captureVars, cameraVars
  <2>2. CASE Send(Note("Stopped"))
    BY <2>1, <2>2, NoteType, Remarks DEF UpTypes, StatusTypes
  <2>3. CASE SendThrows
    BY <1>1, <2>1, <2>3, Fails
  <2> QED  BY <1>5, <2>2, <2>3 DEF Acknowledge
<1>6. CASE ClearRun \/ StopCamera
  BY <1>1, <1>6, Stutters
  DEF ClearRun, StopCamera, Goto, captureVars, cameraVars, linkVars
<1>7. CASE Join
  <2>1. AfterStop[after] \in {"fps", "loop", "acknowledge", "close"}
    BY <1>7 DEF Join, LocalInv, AfterKnown, AfterStop
  <2> QED  BY <1>1, <1>7, <2>1, Stutters DEF Join, cameraVars, linkVars
<1> QED  BY <1>2, <1>3, <1>4, <1>5, <1>6, <1>7 DEF Loop, StopThread

(* StartCapture up to the announcement; no stream is open. *)
LEMMA PrepareRefines ==
  ASSUME LinkTypeOK, LocalInv, MainAloneInHandlers, Logged,
         \/ Accepted \/ ApplyFps \/ OfferDealias \/ DealiasRequested
         \/ Switch \/ StartCamera \/ SetRun
  PROVE  Refined
<1> USE NoteType DEF UpTypes, StatusTypes, Ftype, NextId, Streaming
<1>1. /\ req \in Modes \cup {NoMode}
      /\ req' = req
      /\ UNCHANGED <<Ftype, NextId>>
  BY DEF LocalInv, LocalTypeOK, MainAloneInHandlers, Accepted, ApplyFps,
         OfferDealias, DealiasRequested, Switch, StartCamera, SetRun, Goto,
         CallStopThread, captureVars, cameraVars
<1>2. CASE Send(Note("Waiting"))
  BY <1>1, <1>2, Remarks
<1>3. CASE SendThrows
  BY <1>1, <1>3, Fails
<1>4. CASE UNCHANGED linkVars
  BY <1>1, <1>4, Stutters DEF linkVars
<1>5. CASE DealiasRequested /\ Send(DealiasData(req))
  <2>1. req \in Modes /\ Ftype = NoMode
    BY <1>1, <1>5 DEF DealiasRequested, LocalInv, ExportKnown,
                      MainAloneInHandlers
  <2> QED  BY <1>1, <1>5, <2>1, DealiasType, Remarks
<1> QED
  BY <1>2, <1>3, <1>4, <1>5 DEF Accepted, ApplyFps, OfferDealias,
     DealiasRequested, Switch, StartCamera, SetRun

(* The answer to StartCapture: the stream opens or the request is refused.  *)
LEMMA AnswerRefines ==
  ASSUME LinkTypeOK, LocalInv, MainAloneInHandlers, StreamInv, Logged,
         ReportFailure \/ Announce \/ Spawn
  PROVE  Refined
<1> USE NoteType, LinkAssumption
        DEF UpTypes, StatusTypes, Ftype, NextId, Streaming
<1>1. CASE ReportFailure
  <2>1. UNCHANGED <<Ftype, NextId>> /\ req' = NoMode
    BY <1>1 DEF ReportFailure, CallStopThread, captureVars, cameraVars
  <2>2. CASE Send(Note("Error"))
    <3>1. Alive' = Alive /\ Last' = IF Alive THEN Note("Error") ELSE Silent
      BY <2>2, SendEffect
    <3> QED  BY <2>1, <3>1
             DEF Refined, Stream!StreamNext, Stream!Refuse, Stream!Ask,
                 Stream!Plain, Note, Last
  <2>3. CASE SendThrows
    BY <2>1, <2>3, Fails
  <2> QED  BY <1>1, <2>2, <2>3 DEF ReportFailure
<1>2. CASE Announce
  <2>1. Ftype = NoMode /\ req' = NoMode
    BY <1>2 DEF Announce, MainAloneInHandlers
  <2>2. CASE Send(Note("Capturing")) /\ pc' = "spawn"
    <3>1. Alive' = Alive /\ Last' = IF Alive THEN Note("Capturing") ELSE Last
      BY <2>2, SendEffect DEF Last
    <3>2. Ftype' \in IF req = NoMode THEN Modes ELSE {req}
      BY <1>2, <2>2 DEF Announce, cameraVars, StreamInv, ModeRequested,
                        LocalInv, LocalTypeOK
    <3>3. NextId' = 1
      BY <2>2
    <3> QED  BY <2>1, <3>1, <3>2, <3>3
             DEF Refined, Stream!StreamNext, Stream!OpenStream, Stream!Open,
                 Stream!Plain, Note, Last
  <2>3. CASE SendThrows /\ ThrowFromLoop
    <3>1. UNCHANGED <<Ftype, NextId>>
      BY <1>2, <2>3 DEF Announce, ThrowFromLoop, CallStopThread, captureVars,
                        cameraVars
    <3> QED  BY <2>1, <2>3, <3>1, Fails
  <2> QED  BY <1>2, <2>2, <2>3 DEF Announce
<1>3. CASE Spawn
  <2>1. UNCHANGED <<Ftype, NextId, req>>
    BY <1>3 DEF Spawn, Goto, cameraVars
  <2> QED  BY <1>3, <2>1, Stutters DEF Spawn, linkVars, LocalInv, LocalTypeOK
<1> QED  BY <1>1, <1>2, <1>3

(* The capture thread: frames and the farewell. *)
LEMMA CaptureRefines ==
  ASSUME LinkTypeOK, LocalInv, MainAloneInHandlers, StreamInv, CaptureThread,
         Logged
  PROVE  Refined
<1> USE DEF Ftype, NextId, Streaming
<1>1. /\ cpc # "none" /\ pc # "spawn" /\ pc' = pc
      /\ req' = req /\ req \in Modes \cup {NoMode}
      /\ UNCHANGED modeName
  BY DEF CaptureThread, CaptureTest, Grab, SendFrame, CaptureError,
         LimitStopsCamera, Farewell, mainVars, cameraVars,
         MainAloneInHandlers, LocalInv, LocalTypeOK
<1>2. modeName # NoMode
  BY LinkAssumption DEF LocalInv, LocalTypeOK
<1>3. CASE CaptureTest \/ Grab \/ LimitStopsCamera
  BY <1>1, <1>3, Stutters DEF CaptureTest, Grab, LimitStopsCamera, linkVars
<1>4. CASE SendFrame
  <2>1. /\ Ftype = modeName /\ Ftype' = modeName
        /\ NextId = frameId + 1 /\ NextId' = NextId + 1
    BY <1>1, <1>4 DEF SendFrame
  <2>2. CASE Send(DataFrame(frame, frameId + 1))
    <3>1. frame = Ftype /\ DataFrame(frame, frameId + 1) \in UpMsg
      BY <1>4, <2>1, FrameType
      DEF SendFrame, StreamInv, FrameOfMode, LocalInv, LocalTypeOK
    <3>2. /\ Alive' = Alive
          /\ Last' = IF Alive THEN DataFrame(Ftype, NextId) ELSE Last
      BY <2>1, <2>2, <3>1, SendEffect DEF Last
    <3> HIDE DEF Ftype, NextId
    <3> QED  BY <1>1, <1>2, <2>1, <3>2
             DEF Refined, Stream!StreamNext, Stream!Frame, Stream!Open,
                 DataFrame, Last, Ftype, NextId
  <2>3. CASE SendThrows
    <3>1. ~Alive /\ Alive' = Alive /\ Last' = Last
      BY <2>3, ThrowsEffect
    <3> QED  BY <1>1, <1>2, <2>1, <3>1
             DEF Refined, Stream!StreamNext, Stream!Frame, Stream!Open, Last
  <2> QED  BY <1>4, <2>2, <2>3 DEF SendFrame
<1>5. CASE CaptureError
  <2>1. UNCHANGED <<Ftype, NextId>>
    BY <1>1, <1>5 DEF CaptureError
  <2> QED  BY <1>1, <1>5, <2>1, NoteType, Remarks, Fails
           DEF CaptureError, UpTypes, StatusTypes
<1>6. CASE Farewell
  <2>1. Ftype = modeName /\ Ftype' = NoMode /\ NextId' = 0
    BY <1>1, <1>6 DEF Farewell
  <2>2. /\ Alive' = Alive
        /\ Last' = IF Alive THEN Note("ThreadStopped") ELSE Last
    <3>1. CASE Send(Note("ThreadStopped"))
      BY <3>1, NoteType, SendEffect DEF UpTypes, StatusTypes, Last
    <3>2. CASE SendThrows
      BY <3>2, ThrowsEffect
    <3> QED  BY <1>6, <3>1, <3>2 DEF Farewell
  <2> QED  BY <1>1, <1>2, <2>1, <2>2
           DEF Refined, Stream!StreamNext, Stream!CloseStream, Stream!Open,
               Stream!Plain, Note, Last
<1> QED  BY <1>3, <1>4, <1>5, <1>6 DEF CaptureThread

(* The end of the session: A leaves the connection with no stream open. *)
LEMMA TeardownRefines ==
  ASSUME LinkTypeOK, LocalInv, MainAloneInHandlers, Teardown, Logged
  PROVE  Refined
<1> USE DEF Ftype, NextId, Streaming
<1>1. /\ req' = req /\ req \in Modes \cup {NoMode}
      /\ UNCHANGED <<Ftype, NextId>>
  BY DEF Teardown, CloseSession, Caught, Sleep, MainAloneInHandlers,
         captureVars, cameraVars, LocalInv, LocalTypeOK
<1>2. CASE CloseSession
  <2>1. ~Alive'
    BY <1>2 DEF CloseSession, AClose, Alive
  <2> QED  BY <1>1, <2>1, Ends
<1>3. CASE Caught \/ Sleep
  BY <1>1, <1>3, Stutters DEF Caught, Sleep, linkVars
<1> QED  BY <1>2, <1>3 DEF Teardown

(* The viewer and the network can end a connection and never revive one.    *)
LEMMA EnvironmentRefines ==
  ASSUME LinkTypeOK, Environment, UNCHANGED <<collectorVars, wire>>
  PROVE  Refined
<1> USE DEF Ftype, NextId, Streaming
<1>1. UNCHANGED <<Ftype, NextId, req>>
  BY DEF collectorVars, mainVars, captureVars, cameraVars
<1>2. ~Alive => ~Alive'
  <2> USE DEF Alive, Dead, PeerGone, Queued
  <2>1. CASE ViewerListens \/ ViewerReads \/ ViewerCommands \/ NetworkFails
    BY <2>1 DEF ViewerListens, ViewerReads, ViewerCommands, NetworkFails
  <2>2. CASE ViewerAccepts
    <3>1. /\ backlog \in Seq(Conns) /\ backlog # <<>>
          /\ bSock' = backlog[1] /\ backlog' = Tail(backlog)
          /\ UNCHANGED <<aSock, lost>>
      BY <2>2 DEF ViewerAccepts, BAccept, LinkTypeOK
    <3>2. \A i \in 1..Len(backlog') : /\ i + 1 \in 1..Len(backlog)
                                      /\ backlog'[i] = backlog[i + 1]
      BY <3>1
    <3>3. 1 \in 1..Len(backlog)
      BY <3>1
    <3> QED  BY <2>2, <3>1, <3>2, <3>3 DEF ViewerAccepts
  <2>3. CASE BCloseClient
    BY <2>3 DEF BCloseClient
  <2>4. CASE BCloseAll
    BY <2>4 DEF BCloseAll
  <2> QED  BY <2>1, <2>2, <2>3, <2>4 DEF Environment, ViewerCloses
<1>3. CASE Alive /\ Alive'
  <2>1. Alive' = Alive
    BY <1>3 DEF Alive
  <2> QED  BY <1>1, <2>1 DEF Refined, Stream!streamVars, Last
<1> QED  BY <1>1, <1>2, <1>3, Ends

------------------------------------------------------------------------------
(* What a viewer reads on a connection is a capture stream                  *)
(* (ImplementsCaptureStream): an accepted StartCapture is answered by one   *)
(* Capturing, then by the frames of the requested mode numbered without a   *)
(* gap, then by one farewell, whatever the order of commands, failures of   *)
(* the camera and errors of send_message in session() and its thread.       *)
THEOREM ImplementsStream == Spec => ImplementsCaptureStream
<1>1. Init => Stream!StreamInit /\ StreamInv
  BY DEF Init, LinkInit, CollectorInit, Stream!StreamInit, Stream!Plain,
         Silent, Alive, Streaming, StreamInv, ModeRequested, FrameOfMode,
         SilentUnconnected
<1>2. LocalInv /\ MainAloneInHandlers /\ StreamInv /\ [Next]_vars
        => StreamInv'
  BY ModeStep, SilentStep DEF StreamInv
<1>3. LinkTypeOK /\ LocalInv /\ MainAloneInHandlers /\ StreamInv
        /\ [Next]_vars => [Stream!StreamNext]_Stream!streamVars
  <2> SUFFICES ASSUME LinkTypeOK, LocalInv, MainAloneInHandlers, StreamInv,
                      [Next]_vars
               PROVE  Refined
    BY DEF Refined
  <2>1. CASE MainThread /\ Logged
    BY <2>1, SetupRefines, LoopRefines, PrepareRefines, AnswerRefines,
       TeardownRefines DEF MainThread, StartHandler
  <2>2. CASE CaptureThread /\ Logged
    BY <2>2, CaptureRefines
  <2>3. CASE Interrupt /\ UNCHANGED wire
    BY <2>3 DEF Interrupt, linkVars, captureVars, cameraVars, Refined,
                Stream!streamVars, Alive, Dead, PeerGone, Queued, Streaming
  <2>4. CASE Environment /\ UNCHANGED <<collectorVars, wire>>
    BY <2>4, EnvironmentRefines
  <2>5. CASE UNCHANGED vars
    BY <2>5 DEF vars, linkVars, collectorVars, mainVars, captureVars,
                cameraVars, Refined, Stream!streamVars, Alive, Dead, PeerGone,
                Queued, Streaming
  <2> QED  BY <2>1, <2>2, <2>3, <2>4, <2>5 DEF Next
<1>4. TypeOK => LinkTypeOK
  BY DEF TypeOK
<1> QED  BY <1>1, <1>2, <1>3, <1>4, TypeCorrect, LocalAlways, MainAlone, PTL
         DEF Spec, ImplementsCaptureStream, Stream!StreamSpec
==============================================================================
