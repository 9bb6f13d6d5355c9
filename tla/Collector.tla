------------------------------ MODULE Collector ------------------------------
(***************************************************************************)
(* Machine A: tof_net_collect.  One main thread runs main() and session(); *)
(* a capture thread, spawned by StartCapture, reads RAW frames from the    *)
(* camera and sends them.  The two share the camera (under its mutex mu_), *)
(* the socket (under send_mu) and the flag capture_thread_run.             *)
(*                                                                         *)
(* An operation done under mu_ or send_mu is one action: the mutex makes   *)
(* it atomic for the other thread.  Main and capture thread interleave     *)
(* between such operations.                                                *)
(***************************************************************************)
EXTENDS TofLink

CONSTANTS
  InitialMode,   \* the frame type set by CameraRawSource::initialize (--m)
  NFrames,       \* args.n_frames: frames per capture, 0 = unlimited
  SensorFrames,  \* bound: frames the sensor delivers in one capture
  SendAllDealias, \* args.send_all_dealias
  SetFps,        \* the viewer asks for a frame rate in StartCapture
  Reconnect      \* args.reconnect

ASSUME CollectorAssumption ==
  /\ InitialMode \in Modes
  /\ NFrames \in Nat
  /\ SensorFrames \in Nat
  /\ SendAllDealias \in BOOLEAN
  /\ SetFps \in BOOLEAN
  /\ Reconnect \in BOOLEAN

VARIABLES
  grun,        \* g_run: cleared by SIGINT or SIGTERM
  pc,          \* where the main thread is
  after,       \* what follows stop_thread() or the close of the session
  req,         \* requestedFt: frame_type of the StartCapture being served
  dealiased,   \* sent_dealias_modes of this session
  run,         \* capture_thread_run
  cpc,         \* where the capture thread is; "none": not joinable
  frameId,     \* frame_id of the capture thread
  frame,       \* frame_type of the frame the capture thread holds
  streaming,   \* capturing_ of the camera
  started,     \* dev->started: the video device streams
  leftOn,      \* history: it does so because a STREAMOFF failed
  modeName,    \* mode_name_ of the camera
  iniMode      \* frame type whose INI controls the sensor was last given

mainVars == <<grun, pc, after, req, dealiased>>
captureVars == <<cpc, frameId, frame>>
cameraVars == <<streaming, started, leftOn, modeName, iniMode>>
collectorVars == <<mainVars, captureVars, cameraVars, run>>

CollectorInit ==
  /\ grun = TRUE
  /\ pc = "connect"
  /\ after = "none"
  /\ req = NoMode
  /\ dealiased = {}
  /\ run = FALSE
  /\ cpc = "none"
  /\ frameId = 0
  /\ frame = NoMode
  /\ streaming = FALSE
  /\ started = FALSE
  /\ leftOn = FALSE
  /\ modeName = InitialMode
  /\ iniMode = InitialMode

------------------------------------------------------------------------------
Send(m) ==
  /\ ASend(m)
  /\ UNCHANGED <<down, aSock, bSock, backlog, listening, fin, lost>>

SendThrows ==
  /\ AError
  /\ UNCHANGED <<down, aSock, bSock, backlog, listening, fin, lost>>

(* The main thread goes from one point of session() to another. *)
Goto(from, to) == pc = from /\ pc' = to

(* stop_thread() is entered; it runs in three steps and then continues. *)
CallStopThread(then) == pc' = "clearRun" /\ after' = then

(* An exception leaves session(): the outer catch runs stop_thread() first, *)
(* before the command loop there is no thread to stop.                      *)
ThrowFromSetup == pc' = "close" /\ after' = "threw"
ThrowFromLoop == CallStopThread("threw")

(* stop_locked(): a camera that captures is asked to stop.  Nobody looks at *)
(* the status, and capturing_ is cleared also when STREAMOFF failed and the *)
(* device streams on; from then on no stop reaches the device.  What        *)
(* follows may close the device, and with its descriptor the stream.        *)
StopLocked(fails, closed) ==
  /\ fails => streaming
  /\ streaming' = FALSE
  /\ started' = (~closed /\ IF streaming THEN fails ELSE started)
  /\ leftOn' = (~closed /\ (leftOn \/ fails))

(* When main() returns the camera object is destroyed and with it the       *)
(* sensor, which closes the device.                                         *)
ClosedOnExit ==
  /\ streaming' = (streaming /\ pc' # "exit")
  /\ started' = (started /\ pc' # "exit")
  /\ leftOn' = (leftOn /\ pc' # "exit")
  /\ UNCHANGED <<modeName, iniMode>>

(* The camera object and its device.  They differ only after a STREAMOFF    *)
(* that failed.                                                             *)
DeviceAgrees ==
  /\ streaming => started /\ ~leftOn
  /\ leftOn => started
  /\ started => streaming \/ leftOn

------------------------------------------------------------------------------
(* session(): connection set-up. *)
Connect ==
  /\ Goto("connect", "hello")
  /\ AConnect
  /\ UNCHANGED <<grun, after, req, dealiased, captureVars, cameraVars, run>>

(* connect() is refused, unreachable or times out: the exception reaches    *)
(* main().                                                                  *)
ConnectThrows ==
  /\ pc = "connect"
  /\ ThrowFromSetup
  /\ UNCHANGED <<grun, req, dealiased, captureVars, cameraVars, run,
                 linkVars>>

SendHello ==
  /\ pc = "hello"
  /\ \/ Goto("hello", "ccb") /\ Send(Note("Hello")) /\ UNCHANGED after
     \/ SendThrows /\ ThrowFromSetup
  /\ UNCHANGED <<grun, req, dealiased, captureVars, cameraVars, run>>

(* export_module_ccb and its CcbFile message; a failed export is reported   *)
(* as Status(Error), whose own failure leaves the session.                  *)
SendCcb ==
  /\ pc = "ccb"
  /\ \/ /\ Goto("ccb", "dealias")
        /\ Send(Note("CcbFile")) \/ Send(Note("Error"))
        /\ UNCHANGED after
     \/ SendThrows /\ ThrowFromSetup
  /\ UNCHANGED <<grun, req, dealiased, captureVars, cameraVars, run>>

(* export_dealias_data() exports the current mode or, when asked to, every  *)
(* mode; a mode whose parameters cannot be read is left out, and a failure  *)
(* before the first message is reported as Status(Error).                   *)
StartupModes == IF SendAllDealias THEN Modes ELSE {modeName}

SendStartupDealias ==
  /\ pc = "dealias"
  /\ \/ \E m \in StartupModes \ dealiased :
          /\ Send(DealiasData(m))
          /\ dealiased' = dealiased \cup {m}
          /\ UNCHANGED <<pc, after>>
     \/ /\ Goto("dealias", "ready")
        /\ UNCHANGED linkVars \/ (dealiased = {} /\ Send(Note("Error")))
        /\ UNCHANGED <<after, dealiased>>
     \/ SendThrows /\ ThrowFromSetup /\ UNCHANGED dealiased
  /\ UNCHANGED <<grun, req, captureVars, cameraVars, run>>

SendReady ==
  /\ pc = "ready"
  /\ \/ Goto("ready", "loop") /\ Send(Note("WaitingStart")) /\ UNCHANGED after
     \/ SendThrows /\ ThrowFromSetup
  /\ UNCHANGED <<grun, req, dealiased, captureVars, cameraVars, run>>

------------------------------------------------------------------------------
(* Mutant of LoopTest: the loop does not look at g_run. *)
LoopForever ==
  /\ Goto("loop", "recv")
  /\ UNCHANGED <<grun, after, req, dealiased, captureVars, cameraVars, run,
                 linkVars>>

(* session(): the command loop.                                             *)
LoopTest ==
  /\ pc = "loop"
  /\ IF grun THEN pc' = "recv" /\ UNCHANGED after
             ELSE CallStopThread("returned")
  /\ UNCHANGED <<grun, req, dealiased, captureVars, cameraVars, run,
                 linkVars>>

(* Mutant of Receive: StopCapture is answered without stop_thread(). *)
ReceiveAnswersFirst ==
  /\ pc = "recv"
  /\ \E m \in DownMsg :
       /\ ARecv(m)
       /\ \/ /\ m.type = "StartCapture"
             /\ pc' = "accepted" /\ req' = m.mode /\ UNCHANGED after
          \/ /\ m.type = "StopCapture"
             /\ pc' = "acknowledge" /\ UNCHANGED <<req, after>>
          \/ /\ m.type = "Shutdown"
             /\ CallStopThread("returned") /\ UNCHANGED req
  /\ UNCHANGED <<grun, dealiased, captureVars, cameraVars, run,
                 up, aSock, bSock, backlog, listening, fin, lost>>

(* recv_message blocks until a command arrives; a signal does not end it    *)
(* (EINTR is retried), the peer's close does.                               *)
Receive ==
  /\ pc = "recv"
  /\ \E m \in DownMsg :
       /\ ARecv(m)
       /\ \/ /\ m.type = "StartCapture"
             /\ pc' = "accepted" /\ req' = m.mode /\ UNCHANGED after
          \/ /\ m.type = "StopCapture"
             /\ CallStopThread("acknowledge") /\ UNCHANGED req
          \/ /\ m.type = "Shutdown"
             /\ CallStopThread("returned") /\ UNCHANGED req
  /\ UNCHANGED <<grun, dealiased, captureVars, cameraVars, run, up, aSock,
                 bSock, backlog, listening, fin, lost>>

(* Mutant of ReceiveThrows: the error of recv_message is ignored. *)
ReceiveErrorIgnored ==
  /\ Goto("recv", "loop")
  /\ SendThrows
  /\ UNCHANGED <<grun, after, req, dealiased, captureVars, cameraVars, run>>

ReceiveThrows ==
  /\ pc = "recv"
  /\ SendThrows
  /\ ThrowFromLoop
  /\ UNCHANGED <<grun, req, dealiased, captureVars, cameraVars, run>>

(* stop_thread(): clear the flag, stop the camera, join the thread. *)
ClearRun ==
  /\ Goto("clearRun", "stopCamera")
  /\ run' = FALSE
  /\ UNCHANGED <<grun, after, req, dealiased, captureVars, cameraVars,
                 linkVars>>

StopCamera ==
  /\ Goto("stopCamera", "join")
  /\ \E fails \in BOOLEAN : StopLocked(fails, FALSE)
  /\ UNCHANGED <<grun, after, req, dealiased, captureVars, modeName, iniMode,
                 run, linkVars>>

(* Where the main thread goes on when stop_thread() returns. *)
AfterStop == [start |-> "fps", failed |-> "loop",
              acknowledge |-> "acknowledge",
              returned |-> "close", threw |-> "close"]

(* Mutant of Join: the thread is detached instead of joined. *)
Detach ==
  /\ pc = "join"
  /\ pc' = AfterStop[after]
  /\ after' = IF pc' = "close" THEN after ELSE "none"
  /\ UNCHANGED <<grun, req, dealiased, captureVars, cameraVars, run, linkVars>>

Join ==
  /\ pc = "join"
  /\ cpc \in {"none", "done"}
  /\ cpc' = "none"
  /\ pc' = AfterStop[after]
  /\ after' = IF pc' = "close" THEN after ELSE "none"
  /\ UNCHANGED <<grun, req, dealiased, frameId, frame, cameraVars, run,
                 linkVars>>

(* StopCapture is answered; the status is sent without send_mu. *)
Acknowledge ==
  /\ pc = "acknowledge"
  /\ \/ pc' = "loop" /\ Send(Note("Stopped")) /\ UNCHANGED after
     \/ SendThrows /\ ThrowFromLoop
  /\ UNCHANGED <<grun, req, dealiased, captureVars, cameraVars, run>>

------------------------------------------------------------------------------
(* StartCapture: every step first announces itself with a Status.  An       *)
(* exception of a step is reported and the session goes on.                 *)
Accepted ==
  /\ pc = "accepted"
  /\ \/ Send(Note("Waiting")) /\ CallStopThread("start")
     \/ SendThrows /\ pc' = "report" /\ UNCHANGED after
  /\ UNCHANGED <<grun, req, dealiased, captureVars, cameraVars, run>>

(* setRequestedFps, when the viewer asks for a rate; it throws on failure. *)
ApplyFps ==
  /\ pc = "fps"
  /\ IF SetFps
       THEN \/ Send(Note("Waiting")) /\ pc' \in {"sendDealias", "report"}
            \/ SendThrows /\ pc' = "report"
       ELSE pc' = "sendDealias" /\ UNCHANGED linkVars
  /\ UNCHANGED <<grun, after, req, dealiased, captureVars, cameraVars, run>>

(* The dealias table of a frame type not yet sent in this session: the      *)
(* announcement, then (in DealiasRequested) the export and its message.     *)
OfferDealias ==
  /\ pc = "sendDealias"
  /\ IF req \in {NoMode} \cup dealiased
       THEN pc' = "switch" /\ UNCHANGED linkVars
       ELSE \/ Send(Note("Waiting")) /\ pc' = "exportDealias"
            \/ SendThrows /\ pc' = "report"
  /\ UNCHANGED <<grun, after, req, dealiased, captureVars, cameraVars, run>>

DealiasRequested ==
  /\ pc = "exportDealias"
  /\ \/ /\ pc' = "switch"
        /\ \/ Send(DealiasData(req)) /\ dealiased' = dealiased \cup {req}
           \/ UNCHANGED <<linkVars, dealiased>>
     \/ pc' = "report" /\ SendThrows /\ UNCHANGED dealiased
     \/ pc' = "report" /\ UNCHANGED <<linkVars, dealiased>>
  /\ UNCHANGED <<grun, after, req, captureVars, cameraVars, run>>

(* switchMode(): nothing to do when the camera is already in that mode.     *)
(* Otherwise the camera is stopped, the INI controls of the new mode are    *)
(* written and the sensor is asked to change, which closes the device and   *)
(* opens it again; mode_name_ changes only when that succeeds.  An unknown  *)
(* frame type fails before the controls.  (The configuration names an INI   *)
(* file for every mode.)                                                    *)
SwitchMode(ok, applied) ==
  IF req = modeName
    THEN ok /\ applied /\ UNCHANGED cameraVars
    ELSE /\ \E fails \in BOOLEAN : StopLocked(fails, applied)
         /\ ok => applied
         /\ modeName' = IF ok THEN req ELSE modeName
         /\ iniMode' = IF applied THEN req ELSE iniMode

(* Mutant of Switch: an empty frame type is not recognised. *)
SwitchToEmpty ==
  /\ pc = "switch"
  /\ \/ /\ Send(Note("Waiting"))
        /\ \E ok, applied \in BOOLEAN :
             /\ SwitchMode(ok, applied)
             /\ pc' = IF ok THEN "start" ELSE "report"
     \/ SendThrows /\ pc' = "report" /\ UNCHANGED cameraVars
  /\ UNCHANGED <<grun, after, req, dealiased, captureVars, run>>

Switch ==
  /\ pc = "switch"
  /\ IF req = NoMode
       THEN pc' = "start" /\ UNCHANGED <<linkVars, cameraVars>>
       ELSE \/ /\ Send(Note("Waiting"))
               /\ \E ok, applied \in BOOLEAN :
                    /\ SwitchMode(ok, applied)
                    /\ pc' = IF ok THEN "start" ELSE "report"
            \/ SendThrows /\ pc' = "report" /\ UNCHANGED cameraVars
  /\ UNCHANGED <<grun, after, req, dealiased, captureVars, run>>

(* start(): stop_locked(), then the sensor is started, which is refused     *)
(* (BUSY) while the device is on and may fail otherwise; capturing_ is set  *)
(* once it streams.  A failing sensor start throws before, a failing        *)
(* warm-up frame after.                                                     *)
StartCamera ==
  /\ pc = "start"
  /\ \/ /\ Send(Note("Waiting"))
        /\ \/ /\ ~started \/ streaming
              /\ streaming' = TRUE /\ started' = TRUE /\ UNCHANGED leftOn
              /\ pc' \in {"setRun", "report"}
           \/ /\ \E fails \in BOOLEAN : StopLocked(fails, FALSE)
              /\ pc' = "report"
     \/ /\ SendThrows /\ pc' = "report"
        /\ UNCHANGED <<streaming, started, leftOn>>
  /\ UNCHANGED <<grun, after, req, dealiased, captureVars, modeName, iniMode,
                 run>>

(* catch of the StartCapture handler. *)
ReportFailure ==
  /\ pc = "report"
  /\ Send(Note("Error")) \/ SendThrows
  /\ CallStopThread("failed")
  /\ req' = NoMode
  /\ UNCHANGED <<grun, dealiased, captureVars, cameraVars, run>>

SetRun ==
  /\ Goto("setRun", "announce")
  /\ run' = TRUE
  /\ UNCHANGED <<grun, after, req, dealiased, captureVars, cameraVars,
                 linkVars>>

Announce ==
  /\ pc = "announce"
  /\ req' = NoMode
  /\ \/ pc' = "spawn" /\ Send(Note("Capturing")) /\ UNCHANGED after
     \/ SendThrows /\ ThrowFromLoop
  /\ UNCHANGED <<grun, dealiased, captureVars, cameraVars, run>>

Spawn ==
  /\ Goto("spawn", "loop")
  /\ cpc' = "test"
  /\ frameId' = 0
  /\ frame' = NoMode
  /\ UNCHANGED <<grun, after, req, dealiased, cameraVars, run, linkVars>>

------------------------------------------------------------------------------
(* Mutant of CaptureTest: the thread only looks at g_run. *)
CaptureUntilSignal ==
  /\ cpc = "test"
  /\ cpc' = IF grun THEN "grab" ELSE "farewell"
  /\ UNCHANGED <<mainVars, frameId, frame, cameraVars, run, linkVars>>

(* The capture thread.  frame_limit_reached is the location "stopCamera".   *)
CaptureTest ==
  /\ cpc = "test"
  /\ IF ~(grun /\ run)
       THEN cpc' = "farewell" /\ UNCHANGED run
       ELSE IF NFrames # 0 /\ frameId >= NFrames
              THEN cpc' = "stopCamera" /\ run' = FALSE
              ELSE cpc' = "grab" /\ UNCHANGED run
  /\ UNCHANGED <<mainVars, frameId, frame, cameraVars, linkVars>>

(* get_frame(): throws when the camera has been stopped or the sensor times *)
(* out; otherwise the frame carries the mode the camera is in.              *)
Grab ==
  /\ cpc = "grab"
  /\ \/ /\ streaming
        /\ frameId < SensorFrames
        /\ frame' = modeName
        /\ cpc' = "send"
     \/ cpc' = "failed" /\ UNCHANGED frame
  /\ UNCHANGED <<mainVars, frameId, cameraVars, run, linkVars>>

SendFrame ==
  /\ cpc = "send"
  /\ frameId' = frameId + 1
  /\ \/ Send(DataFrame(frame, frameId + 1)) /\ cpc' = "test"
     \/ SendThrows /\ cpc' = "failed"
  /\ frame' = NoMode
  /\ UNCHANGED <<mainVars, cameraVars, run>>

CaptureError ==
  /\ cpc = "failed"
  /\ cpc' = "test"
  /\ Send(Note("Error")) \/ SendThrows
  /\ UNCHANGED <<mainVars, frameId, frame, cameraVars, run>>

(* Mutant of LimitStopsCamera: the camera is left running. *)
LimitLeavesCamera ==
  /\ cpc = "stopCamera"
  /\ cpc' = "farewell"
  /\ UNCHANGED <<mainVars, frameId, frame, cameraVars, run, linkVars>>

LimitStopsCamera ==
  /\ cpc = "stopCamera"
  /\ cpc' = "farewell"
  /\ \E fails \in BOOLEAN : StopLocked(fails, FALSE)
  /\ UNCHANGED <<mainVars, frameId, frame, modeName, iniMode, run, linkVars>>

Farewell ==
  /\ cpc = "farewell"
  /\ cpc' = "done"
  /\ Send(Note("ThreadStopped")) \/ SendThrows
  /\ frameId' = 0
  /\ UNCHANGED <<mainVars, frame, cameraVars, run>>

------------------------------------------------------------------------------
(* The end of session() and the reconnect loop of main().  The locals of    *)
(* session() - the socket, sent_dealias_modes - end with it.                *)
CloseSession ==
  /\ pc = "close"
  /\ AClose
  /\ pc' = IF after = "returned"
             THEN IF grun /\ Reconnect THEN "connect" ELSE "exit"
             ELSE "caught"
  /\ after' = "none"
  /\ dealiased' = {}
  /\ ClosedOnExit
  /\ UNCHANGED <<grun, req, captureVars, run>>

Caught ==
  /\ pc = "caught"
  /\ pc' = IF Reconnect /\ grun THEN "sleep" ELSE "exit"
  /\ \E fails \in BOOLEAN : StopLocked(fails, pc' = "exit")
  /\ UNCHANGED <<grun, after, req, dealiased, captureVars, modeName, iniMode,
                 run, linkVars>>

Sleep ==
  /\ pc = "sleep"
  /\ pc' = IF grun /\ Reconnect THEN "connect" ELSE "exit"
  /\ ClosedOnExit
  /\ UNCHANGED <<grun, after, req, dealiased, captureVars, run, linkVars>>

Interrupt ==
  /\ grun
  /\ pc # "exit"
  /\ grun' = FALSE
  /\ UNCHANGED <<pc, after, req, dealiased, captureVars, cameraVars, run,
                 linkVars>>

Setup == \/ Connect \/ ConnectThrows \/ SendHello \/ SendCcb
         \/ SendStartupDealias \/ SendReady
Loop == LoopTest \/ Receive \/ ReceiveThrows \/ Acknowledge
StopThread == ClearRun \/ StopCamera \/ Join
StartHandler == \/ Accepted \/ ApplyFps \/ OfferDealias \/ DealiasRequested
                \/ Switch \/ StartCamera \/ ReportFailure \/ SetRun
                \/ Announce \/ Spawn
Teardown == CloseSession \/ Caught \/ Sleep

MainThread == Setup \/ Loop \/ StopThread \/ StartHandler \/ Teardown
CaptureThread == \/ CaptureTest \/ Grab \/ SendFrame \/ CaptureError
                 \/ LimitStopsCamera \/ Farewell
==============================================================================
