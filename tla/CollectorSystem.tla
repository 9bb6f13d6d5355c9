--------------------------- MODULE CollectorSystem ---------------------------
(***************************************************************************)
(* Machine A against any viewer: one that listens, accepts, reads, sends   *)
(* commands and closes its sockets whenever it likes, over a network that  *)
(* may be cut at any moment.                                               *)
(***************************************************************************)
EXTENDS Collector

VARIABLE
  wire     \* history: the last message A put on its live connection

vars == <<linkVars, collectorVars, wire>>

(* Nothing has been sent yet on the connection. *)
Silent == [type |-> "Silent", mode |-> NoMode, id |-> 0]

Init == LinkInit /\ CollectorInit /\ wire = Silent

(* What a step of the collector puts on its connection. *)
Logged ==
  wire' = IF aSock' = NoConn THEN Silent
          ELSE IF aSock # NoConn /\ Len(up'[aSock]) > Len(up[aSock])
            THEN up'[aSock][Len(up'[aSock])]
            ELSE wire

------------------------------------------------------------------------------
(* The viewer as its socket calls allow it to be. *)
ViewerListens ==
  /\ ~listening
  /\ listening' = TRUE
  /\ UNCHANGED <<up, down, aSock, bSock, backlog, fin, lost>>

ViewerAccepts == bSock = NoConn /\ BAccept

ViewerReads ==
  /\ bSock # NoConn
  /\ \E m \in Arrived : BRecv(m)
  /\ UNCHANGED <<down, aSock, bSock, backlog, listening, fin, lost>>

(* A command sent on a connection A does not hear is lost on A. *)
ViewerCommands ==
  /\ bSock # NoConn
  /\ bSock = aSock /\ bSock \notin lost
  /\ \/ \E m \in Modes \cup {NoMode} : BSend(StartCapture(m))
     \/ \E t \in {"StopCapture", "Shutdown"} : BSend(Command(t))
  /\ UNCHANGED <<up, aSock, bSock, backlog, listening, fin, lost>>

ViewerCloses ==
  /\ bSock # NoConn \/ listening
  /\ BCloseClient \/ BCloseAll

(* The network cuts the connection; what B can still read of it is no       *)
(* matter to A.                                                             *)
NetworkFails ==
  /\ aSock # NoConn
  /\ aSock \notin lost
  /\ lost' = lost \cup {aSock}
  /\ UNCHANGED <<up, down, aSock, bSock, backlog, listening, fin>>

Environment ==
  \/ ViewerListens \/ ViewerAccepts \/ ViewerReads \/ ViewerCommands
  \/ ViewerCloses \/ NetworkFails

Next ==
  \/ MainThread /\ Logged
  \/ CaptureThread /\ Logged
  \/ Interrupt /\ UNCHANGED wire
  \/ Environment /\ UNCHANGED <<collectorVars, wire>>

Spec == Init /\ [][Next]_vars

------------------------------------------------------------------------------
MainLocations ==
  {"connect", "hello", "ccb", "dealias", "ready", "loop", "recv", "clearRun",
   "stopCamera", "join", "acknowledge", "accepted", "fps", "sendDealias",
   "exportDealias", "switch", "start", "report", "setRun", "announce",
   "spawn", "close", "caught", "sleep", "exit"}
CaptureLocations ==
  {"none", "test", "grab", "send", "failed", "stopCamera", "farewell", "done"}

(* The types of the collector's variables and of the link. *)
TypeOK ==
  /\ LinkTypeOK
  /\ grun \in BOOLEAN
  /\ pc \in MainLocations
  /\ after \in {"none"} \cup DOMAIN AfterStop
  /\ req \in Modes \cup {NoMode}
  /\ dealiased \subseteq Modes
  /\ run \in BOOLEAN
  /\ cpc \in CaptureLocations
  /\ frameId \in Nat
  /\ frame \in Modes \cup {NoMode}
  /\ streaming \in BOOLEAN
  /\ started \in BOOLEAN
  /\ leftOn \in BOOLEAN
  /\ modeName \in Modes
  /\ iniMode \in Modes
  /\ wire \in UpMsg \cup {Silent}

------------------------------------------------------------------------------
Streaming ==
  cpc \in {"test", "grab", "send", "failed", "stopCamera", "farewell"}

(* The main thread touches what the capture thread shares with it without   *)
(* a lock - it assigns capture_thread, sends the acknowledgement without    *)
(* send_mu, reconfigures the camera, closes the socket - only while no      *)
(* capture thread exists.  A second live thread would abort the process in  *)
(* std::thread's assignment; a live thread during the unlocked send would   *)
(* mix the bytes of two messages.                                           *)
MainAloneInHandlers ==
  pc \in {"fps", "sendDealias", "exportDealias", "switch", "start", "setRun",
          "announce", "spawn", "acknowledge", "close", "caught", "sleep",
          "connect", "hello", "ccb", "dealias", "ready", "exit"}
    => cpc = "none"

(* The main thread waits for a command or for the viewer to come back, and  *)
(* no capture thread runs.                                                  *)
Idle == (pc = "recv" /\ ~Streaming /\ grun) \/ pc \in {"connect", "sleep"}

(* The camera object and the device agree, and the device streams with      *)
(* nobody to read it only when a STREAMOFF failed: after a frame limit, a   *)
(* failed StartCapture, a StopCapture, an exception and a mode switch alike *)
(* every idle device has been stopped or was left on by its driver.  (A     *)
(* device left on is not stopped again: stop_locked() has forgotten that it *)
(* captures.  Each StartCapture is refused until a mode switch or the end   *)
(* of the process closes the device.)                                       *)
IdleCameraStopped ==
  /\ streaming => started /\ ~leftOn
  /\ Idle => ~streaming /\ (started => leftOn)
  /\ pc = "exit" => ~started

(* What the statuses "capture stopped" and "capture frame limit reached;    *)
(* camera stopped" tell the viewer; not so after a failed STREAMOFF.        *)
IdleDeviceStopped == Idle => ~started

(* The sensor streams with the INI controls of the mode it is in, also      *)
(* after a failed mode switch.                                              *)
SensorMatchesMode == streaming => iniMode = modeName

(* When the collector has announced that it waits for a start command, the  *)
(* viewer has been sent the dealias tables of every frame type (if any      *)
(* could be exported).                                                      *)
DealiasForEveryMode == pc = "recv" /\ dealiased # {} => dealiased = Modes

Alive == aSock # NoConn /\ ~Dead(aSock)

(* What a reader of the connection sees is a capture stream. *)
Stream == INSTANCE CaptureStream WITH
  alive <- Alive,
  asked <- req,
  ftype <- IF pc = "spawn" \/ Streaming THEN modeName ELSE NoMode,
  next  <- IF pc = "spawn" THEN 1 ELSE IF Streaming THEN frameId + 1 ELSE 0,
  last  <- IF Alive THEN wire ELSE Silent

(* The collector implements CaptureStream. *)
ImplementsCaptureStream == Stream!StreamSpec

------------------------------------------------------------------------------
(* The two threads of the collector keep running and the viewer keeps       *)
(* accepting and reading.  Nothing makes recv_message return on a           *)
(* connection that was cut without notice (the sockets have no keep-alive), *)
(* so the main thread blocked there is not assumed to go on.                *)
Fairness ==
  /\ WF_vars(MainThread /\ ~(pc = "recv" /\ aSock \in lost) /\ Logged)
  /\ WF_vars(CaptureThread /\ Logged)
  /\ WF_vars(/\ ViewerAccepts \/ ViewerReads
             /\ UNCHANGED <<collectorVars, wire>>)

FairSpec == Spec /\ Fairness

(* stop_thread() returns: the capture thread it joins is neither stuck in a *)
(* send nor goes on capturing.                                              *)
StopThreadReturns == pc = "join" ~> pc # "join"

(* A collector whose viewer has closed the connection leaves the session,   *)
(* capturing or not, and is free to connect again.                          *)
ClosedViewerNoticed ==
  aSock # NoConn /\ PeerGone(aSock) /\ aSock \notin lost
    ~> aSock = NoConn \/ aSock \in lost

(* A is blocked in its greetings to a viewer that has not accepted the      *)
(* connection: the viewer still holds the one before, which A has given up. *)
Unaccepted ==
  /\ pc \in {"hello", "ccb", "dealias", "ready"}
  /\ aSock \in Queued
  /\ Len(up[aSock]) = ChanCap

(* SIGINT or SIGTERM ends the process, in every place but two: the wait for *)
(* a command and a send to a viewer that does not accept the connection.    *)
(* recv_message and send_message retry after EINTR.                         *)
SignalEndsCollector == ~grun /\ pc # "recv" ~> pc = "exit" \/ Unaccepted

(* The same without the second exception: not so once a viewer keeps the    *)
(* connection before, for the tables of a module fill the socket's buffer.  *)
SignalEndsSetup == ~grun /\ pc # "recv" ~> pc = "exit"
==============================================================================
