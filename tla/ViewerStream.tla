---------------------------- MODULE ViewerStream -----------------------------
(***************************************************************************)
(* Machine B: ADINetworkToFStream of tof_net_viewer and the part of the    *)
(* GUI that drives it.  The worker thread (workerLoop) listens, accepts    *)
(* and reads; the GUI thread sends StartCapture and StopCapture on the     *)
(* same socket and shows the newest frame.  They share the client socket   *)
(* (under m_socketMutex) and the atomic flags m_remoteCapturing and        *)
(* m_waitingForFirstFrame, which the GUI writes after it has released the  *)
(* mutex.                                                                  *)
(*                                                                         *)
(* Time is counted in empty poll intervals of the worker (1 s each).       *)
(***************************************************************************)
EXTENDS TofLink

CONSTANTS
  DefaultMode,     \* the mode the GUI selects at start-up
  SilenceLimit     \* kActiveStreamSilenceTimeout in poll intervals

ASSUME ViewerAssumption ==
  /\ DefaultMode \in Modes
  /\ SilenceLimit \in Nat \ {0}

VARIABLES
  wpc,              \* where the worker thread is; "none": not joinable
  stopFlag,         \* m_stopFlag
  running,          \* m_running
  clientConnected,  \* m_clientConnected
  remoteCapturing,  \* m_remoteCapturing
  waitingFirst,     \* m_waitingForFirstFrame
  silence,          \* empty polls since lastMessageTime, up to SilenceLimit
  config,           \* m_config.frameType
  gpc,              \* where the GUI thread is
  then,             \* what the GUI does after sendStopCaptureCommand
  playing,          \* isPlaying
  fresh,            \* captureSeparateEnabled: Play must send StartCapture
  playedMode,       \* modeSelectChanged
  selected          \* modeSelection

flagVars == <<clientConnected, remoteCapturing, waitingFirst>>
guiVars == <<gpc, then, playing, fresh, playedMode, selected, config>>
viewerVars == <<wpc, stopFlag, running, flagVars, silence, guiVars>>

ViewerInit ==
  /\ wpc = "none"
  /\ stopFlag = FALSE
  /\ running = FALSE
  /\ clientConnected = FALSE
  /\ remoteCapturing = FALSE
  /\ waitingFirst = FALSE
  /\ silence = 0
  /\ config = DefaultMode
  /\ gpc = "idle"
  /\ then = "none"
  /\ playing = FALSE
  /\ fresh = TRUE
  /\ playedMode \in Modes
  /\ selected = DefaultMode

ActiveStream == remoteCapturing \/ waitingFirst
ClearStream == remoteCapturing' = FALSE /\ waitingFirst' = FALSE

(* m_clientSocket.valid() *)
Valid == bSock # NoConn /\ wpc # "install"

------------------------------------------------------------------------------
(* The worker thread.                                                       *)
Boot ==
  /\ wpc = "boot"
  /\ wpc' = "listen"
  /\ running' = TRUE
  /\ UNCHANGED <<stopFlag, flagVars, silence, guiVars, linkVars>>

(* The test of the outer loop, and bind_listen after it: stop() may come    *)
(* between the two, and bind_listen may fail.                               *)
ListenTest ==
  /\ wpc = "listen"
  /\ wpc' = IF stopFlag THEN "finish" ELSE "bind"
  /\ UNCHANGED <<stopFlag, running, flagVars, silence, guiVars, linkVars>>

BindListen ==
  /\ wpc = "bind"
  /\ \/ wpc' = "accept" /\ listening' = TRUE
     \/ wpc' = "fault" /\ UNCHANGED listening
  /\ UNCHANGED <<stopFlag, running, flagVars, silence, guiVars, up, down,
                 aSock, bSock, backlog, fin, lost>>

(* The accept loop: its test, then accept_one, which blocks until a         *)
(* connection comes or stop() shuts the listener down.  Then the connection *)
(* moves from the local variable to m_clientSocket, with m_remoteCapturing  *)
(* cleared and m_waitingForFirstFrame left alone; stop() may come between.  *)
AcceptTest ==
  /\ wpc = "accept"
  /\ wpc' = IF stopFlag THEN "listen" ELSE "accepting"
  /\ UNCHANGED <<stopFlag, running, flagVars, silence, guiVars, linkVars>>

Accept ==
  /\ wpc = "accepting"
  /\ BAccept
  /\ wpc' = "install"
  /\ UNCHANGED <<stopFlag, running, flagVars, silence, guiVars>>

Install ==
  /\ wpc = "install"
  /\ wpc' = "test"
  /\ clientConnected' = TRUE
  /\ remoteCapturing' = FALSE
  /\ silence' = 0
  /\ UNCHANGED <<stopFlag, running, waitingFirst, guiVars, linkVars>>

AcceptThrows ==
  /\ wpc = "accepting"
  /\ ~listening
  /\ wpc' = "fault"
  /\ UNCHANGED <<stopFlag, running, flagVars, silence, guiVars, linkVars>>

(* The test of the receive loop; stop() may come right after it. *)
PollTest ==
  /\ wpc = "test"
  /\ wpc' = IF stopFlag \/ bSock = NoConn THEN "leave" ELSE "poll"
  /\ UNCHANGED <<stopFlag, running, flagVars, silence, guiVars, linkVars>>

(* stop() has closed the socket: poll times out or reports the hang-up,     *)
(* recv_message fails.                                                      *)
PollEnds ==
  /\ wpc = "poll"
  /\ bSock = NoConn
  /\ wpc' \in {"test", "leave"}
  /\ UNCHANGED <<stopFlag, running, flagVars, silence, guiVars, linkVars>>

Polling == wpc = "poll" /\ bSock # NoConn

(* Mutant of PeerClosed: POLLHUP is not looked at. *)
HangupIgnored ==
  /\ Polling
  /\ BUnacked
  /\ wpc' = "leave"
  /\ UNCHANGED <<stopFlag, running, flagVars, silence, guiVars, linkVars>>

(* poll reports the end of the connection or its failure. *)
PeerClosed ==
  /\ Polling
  /\ BEof \/ BUnacked
  /\ wpc' = "leave"
  /\ UNCHANGED <<stopFlag, running, flagVars, silence, guiVars, linkVars>>

Tick(n) == IF n < SilenceLimit THEN n + 1 ELSE n

(* Mutant of PollTimeout: the silence is never acted upon. *)
WaitForever ==
  /\ Polling
  /\ BQuiet
  /\ silence' = Tick(silence)
  /\ wpc' = "test"
  /\ UNCHANGED <<stopFlag, running, flagVars, guiVars, linkVars>>

(* poll() times out: a connection that should be streaming and has been     *)
(* silent for SilenceLimit intervals is given up.                           *)
PollTimeout ==
  /\ Polling
  /\ BQuiet
  /\ silence' = Tick(silence)
  /\ wpc' = IF ActiveStream /\ silence' = SilenceLimit THEN "leave" ELSE "test"
  /\ UNCHANGED <<stopFlag, running, flagVars, guiVars, linkVars>>

(* recv_message and the handler of the message.  handleDataFrame either     *)
(* drops the frame (TOFI backpressure) or queues it as the newest one; a    *)
(* Status with code Stopped ends the stream, the other messages only change *)
(* the status text and the calibration files.                               *)
Handle(m) ==
  \/ /\ m.type = "DataFrame"
     /\ waitingFirst' = FALSE
     /\ UNCHANGED remoteCapturing
  \/ /\ m.type \in {"ThreadStopped", "Stopped"}
     /\ ClearStream
  \/ /\ m.type \notin {"ThreadStopped", "Stopped"}
     /\ UNCHANGED <<remoteCapturing, waitingFirst>>

ReceiveMessage ==
  /\ Polling
  /\ \E m \in Arrived : BRecv(m) /\ Handle(m)
  /\ silence' = 0
  /\ wpc' = "test"
  /\ UNCHANGED <<stopFlag, running, clientConnected, guiVars, down, aSock,
                 bSock, backlog, listening, fin, lost>>

(* poll() has seen the beginning of a message the network has cut:          *)
(* recv_message waits for the rest, with no time limit.  It fails when      *)
(* stop() shuts the socket down, or when the kernel gives the connection up *)
(* because a command the GUI sent on it was never acknowledged.             *)
ReceiveBlocks ==
  /\ Polling
  /\ BTorn
  /\ wpc' = "blocked"
  /\ UNCHANGED <<stopFlag, running, flagVars, silence, guiVars, linkVars>>

ReceiveFails ==
  /\ wpc = "blocked"
  /\ bSock = NoConn \/ BUnacked
  /\ wpc' = "leave"
  /\ UNCHANGED <<stopFlag, running, flagVars, silence, guiVars, linkVars>>

(* A handler throws: a calibration file cannot be written. *)
HandlerThrows ==
  /\ Polling
  /\ \E m \in Arrived : BRecv(m) /\ m.type = "CcbFile"
  /\ silence' = 0
  /\ wpc' = "fault"
  /\ UNCHANGED <<stopFlag, running, flagVars, guiVars, down, aSock, bSock,
                 backlog, listening, fin, lost>>

(* Mutant of Leave: the client socket is not closed. *)
LeaveOpen ==
  /\ wpc = "leave"
  /\ clientConnected' = FALSE
  /\ ClearStream
  /\ wpc' = "accept"
  /\ UNCHANGED <<stopFlag, running, silence, guiVars, linkVars>>

(* After the receive loop: the client is closed, the listener stays. *)
Leave ==
  /\ wpc = "leave"
  /\ BCloseClient
  /\ clientConnected' = FALSE
  /\ ClearStream
  /\ wpc' = "accept"
  /\ UNCHANGED <<stopFlag, running, silence, guiVars>>

(* The catch of the outer loop closes both sockets and listens again. *)
Fault ==
  /\ wpc = "fault"
  /\ BCloseAll
  /\ clientConnected' = FALSE
  /\ ClearStream
  /\ wpc' = "listen"
  /\ UNCHANGED <<stopFlag, running, silence, guiVars>>

(* Mutant of Finish: the worker ends without closing its sockets. *)
FinishOpen ==
  /\ wpc = "finish"
  /\ clientConnected' = FALSE
  /\ ClearStream
  /\ running' = FALSE
  /\ wpc' = "ended"
  /\ UNCHANGED <<stopFlag, silence, guiVars, linkVars>>

Finish ==
  /\ wpc = "finish"
  /\ BCloseAll
  /\ clientConnected' = FALSE
  /\ ClearStream
  /\ running' = FALSE
  /\ wpc' = "ended"
  /\ UNCHANGED <<stopFlag, silence, guiVars>>

Worker == \/ Boot \/ ListenTest \/ BindListen \/ AcceptTest \/ Accept
          \/ Install \/ AcceptThrows \/ PollTest \/ PollEnds \/ PeerClosed
          \/ PollTimeout
          \/ ReceiveMessage \/ ReceiveBlocks \/ ReceiveFails \/ HandlerThrows
          \/ Leave \/ Fault \/ Finish

------------------------------------------------------------------------------
(* The GUI thread.                                                          *)

(* Open Device: ADINetworkToFStream::start(). *)
OpenDevice ==
  /\ gpc = "idle"
  /\ wpc = "none"
  /\ ~running
  /\ stopFlag' = FALSE
  /\ wpc' = "boot"
  /\ UNCHANGED <<running, flagVars, silence, guiVars, linkVars>>

SelectMode ==
  /\ gpc = "idle"
  /\ selected' \in Modes \ {selected}
  /\ UNCHANGED <<wpc, stopFlag, running, flagVars, silence, gpc, then,
                 playing, fresh, playedMode, config, linkVars>>

PressPlay ==
  /\ gpc = "idle"
  /\ wpc # "none"
  /\ ~playing
  /\ playing' = TRUE
  /\ UNCHANGED <<wpc, stopFlag, running, flagVars, silence, gpc, then, fresh,
                 playedMode, selected, config, linkVars>>

(* Mutant of PressStop: Stop only stops the display. *)
StopDisplayOnly ==
  /\ gpc = "idle"
  /\ playing
  /\ playing' = FALSE
  /\ fresh' = TRUE
  /\ UNCHANGED <<wpc, stopFlag, running, flagVars, silence, gpc, then,
                 playedMode, selected, config, linkVars>>

(* stopPlayCCD: the next Play has to send StartCapture again. *)
PressStop ==
  /\ gpc = "idle"
  /\ playing
  /\ playing' = FALSE
  /\ fresh' = TRUE
  /\ gpc' = "sendStop"
  /\ then' = "idle"
  /\ UNCHANGED <<wpc, stopFlag, running, flagVars, silence, playedMode,
                 selected, config, linkVars>>

(* PlayCCD, once per rendered frame while playing: at start-up and after a  *)
(* mode change StartCapture is sent, after a mode change StopCapture first. *)
PlayCCD ==
  /\ gpc = "idle"
  /\ playing
  /\ selected # playedMode \/ fresh
  /\ IF selected # playedMode
       THEN gpc' = "sendStop" /\ then' = "prepare"
       ELSE gpc' = "prepare" /\ UNCHANGED then
  /\ UNCHANGED <<wpc, stopFlag, running, flagVars, silence, playing, fresh,
                 playedMode, selected, config, linkVars>>

(* sendStopCaptureCommand: the send under m_socketMutex, then the flags.    *)
SendStop ==
  /\ gpc = "sendStop"
  /\ \/ /\ Valid
        /\ BSend(Command("StopCapture"))
        /\ gpc' = "stopSent"
        /\ UNCHANGED then
     \/ /\ ~Valid \/ BSendFails
        /\ gpc' = then
        /\ then' = "none"
        /\ UNCHANGED down
  /\ UNCHANGED <<wpc, stopFlag, running, flagVars, silence, playing, fresh,
                 playedMode, selected, config, up, aSock, bSock, backlog,
                 listening, fin, lost>>

StopSent ==
  /\ gpc = "stopSent"
  /\ gpc' = then
  /\ then' = "none"
  /\ ClearStream
  /\ UNCHANGED <<wpc, stopFlag, running, clientConnected, silence, playing,
                 fresh, playedMode, selected, config, linkVars>>

(* Mutant of PrepareCamera: StartCapture is sent before configure(). *)
StartUnconfigured ==
  /\ gpc = "prepare"
  /\ gpc' = "sendStart"
  /\ UNCHANGED <<wpc, stopFlag, running, flagVars, silence, then, playing,
                 fresh, playedMode, selected, config, linkVars>>

(* prepareCamera: configureNetworkOnly stops a stream whose worker has not   *)
(* set m_running yet, then configure() takes the selected mode.             *)
PrepareCamera ==
  /\ gpc = "prepare"
  /\ gpc' = IF running THEN "configure" ELSE "stop"
  /\ UNCHANGED <<wpc, stopFlag, running, flagVars, silence, then, playing,
                 fresh, playedMode, selected, config, linkVars>>

Configure ==
  /\ gpc = "configure"
  /\ gpc' = "sendStart"
  /\ config' = selected
  /\ UNCHANGED <<wpc, stopFlag, running, flagVars, silence, then, playing,
                 fresh, playedMode, selected, linkVars>>

(* sendStartCaptureCommand: the send under m_socketMutex, then the flags.   *)
SendStart ==
  /\ gpc = "sendStart"
  /\ \/ /\ Valid
        /\ BSend(StartCapture(config))
        /\ gpc' = "startSent"
        /\ UNCHANGED <<playing, fresh>>
     \/ /\ ~Valid \/ BSendFails
        /\ gpc' = "idle"
        /\ playing' = FALSE
        /\ fresh' = TRUE
        /\ UNCHANGED down
  /\ UNCHANGED <<wpc, stopFlag, running, flagVars, silence, then, playedMode,
                 selected, config, up, aSock, bSock, backlog, listening, fin,
                 lost>>

StartSent ==
  /\ gpc = "startSent"
  /\ gpc' = "idle"
  /\ remoteCapturing' = TRUE
  /\ waitingFirst' = TRUE
  /\ fresh' = FALSE
  /\ playedMode' = selected
  /\ UNCHANGED <<wpc, stopFlag, running, clientConnected, silence, then,
                 playing, selected, config, linkVars>>

(* The window is closed: ~ADIController stops the capture, then             *)
(* ADINetworkToFStream::stop() ends the worker.                             *)
CloseWindow ==
  /\ gpc = "idle"
  /\ wpc # "none"
  /\ playing' = FALSE
  /\ gpc' = "sendStop"
  /\ then' = "stop"
  /\ UNCHANGED <<wpc, stopFlag, running, flagVars, silence, fresh,
                 playedMode, selected, config, linkVars>>

Stop ==
  /\ gpc = "stop"
  /\ stopFlag' = TRUE
  /\ gpc' = "sendStop"
  /\ then' = "closeSockets"
  /\ UNCHANGED <<wpc, running, flagVars, silence, playing, fresh, playedMode,
                 selected, config, linkVars>>

(* Mutant of CloseSockets: the listener is left to the worker. *)
CloseClientOnly ==
  /\ gpc = "closeSockets"
  /\ BCloseClient
  /\ gpc' = "joinWorker"
  /\ UNCHANGED <<wpc, stopFlag, running, flagVars, silence, then, playing,
                 fresh, playedMode, selected, config>>

(* A connection that is accepted and not installed is not closed here.      *)
CloseSockets ==
  /\ gpc = "closeSockets"
  /\ IF wpc = "install" THEN BCloseListener ELSE BCloseAll
  /\ gpc' = "joinWorker"
  /\ UNCHANGED <<wpc, stopFlag, running, flagVars, silence, then, playing,
                 fresh, playedMode, selected, config>>

(* The end of stop(), called by the destructor or, while playing, by        *)
(* configureNetworkOnly.                                                    *)
JoinWorker ==
  /\ gpc = "joinWorker"
  /\ wpc \in {"none", "ended"}
  /\ wpc' = "none"
  /\ gpc' = IF playing THEN "configure" ELSE "closed"
  /\ running' = FALSE
  /\ clientConnected' = FALSE
  /\ ClearStream
  /\ UNCHANGED <<stopFlag, silence, then, playing, fresh, playedMode,
                 selected, config, linkVars>>

User == OpenDevice \/ SelectMode \/ PressPlay \/ PressStop \/ CloseWindow
Gui == \/ PlayCCD \/ SendStop \/ StopSent \/ PrepareCamera
       \/ Configure \/ SendStart \/ StartSent \/ Stop \/ CloseSockets
       \/ JoinWorker

------------------------------------------------------------------------------
(* The worker alone owns the connection: from accept_one until it leaves    *)
(* its receive loop there is at most one, outside there is none, and        *)
(* m_clientConnected says so, except for the moment after stop() has closed *)
(* the sockets under it.                                                    *)
OneOwnerOfClient ==
  /\ bSock # NoConn =>
       wpc \in {"install", "test", "poll", "blocked", "leave", "fault"}
  /\ clientConnected /\ bSock = NoConn => stopFlag
  /\ Valid => clientConnected

(* Once stop() has joined the worker nothing is left open: no listener, no  *)
(* connection, no stream flag, whichever of the two closed what first.      *)
ClosedMeansReleased ==
  gpc = "closed" =>
    /\ ~listening /\ bSock = NoConn /\ backlog = <<>>
    /\ ~running /\ ~clientConnected /\ ~ActiveStream
==============================================================================
