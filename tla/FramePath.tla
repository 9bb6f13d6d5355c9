------------------------------ MODULE FramePath ------------------------------
(***************************************************************************)
(* What becomes of a frame on Machine B: the worker thread takes it from   *)
(* the connection, saves it in the current save session and puts it in a   *)
(* queue of one; the GUI thread shows the queue's frame or else the last   *)
(* one, and opens and closes captures and save sessions meanwhile.         *)
(*                                                                         *)
(* A frame is known by the StartCapture it answers and its number in that  *)
(* capture.  Depth computation is in Calibration, the sockets in TofLink.  *)
(***************************************************************************)
EXTENDS Naturals, Sequences

CONSTANTS
  MaxStarts,     \* bound on the StartCapture commands
  MaxFrames,     \* bound on the frames of a capture
  MaxWire,       \* bound on the frames in flight
  SaveLimit      \* saveProcessedMaxFrames, 0 for none

ASSUME FramePathAssumption ==
  /\ MaxStarts \in Nat
  /\ MaxFrames \in Nat
  /\ MaxWire \in Nat
  /\ SaveLimit \in Nat

VARIABLES
  conn,          \* Machine A is connected
  cmds,          \* commands on their way to A: a capture, or 0 for StopCapture
  capture,       \* the capture A streams, 0 if none
  sent,          \* frames A has sent in it
  wire,          \* frames and Stopped reports on their way to B
  wpc,           \* where the worker is: "read", "first", "save", "caught", "enqueue"
  frame,         \* the frame it handles
  queue,         \* m_queue
  active,        \* m_saveSessionActive
  disabled,      \* m_saveDisabledAfterError
  count,         \* m_savedFrameCount
  session,       \* m_saveSessionDir, as the number of sessions created so far
  files,         \* image files: session, save_index, frame (history)
  rows,          \* lines of frames.csv, likewise (history)
  gpc,           \* where the GUI is: "idle", "send", "flags", "stopped", "close"
  starts,        \* StartCapture commands sent (history)
  waiting,       \* m_waitingForFirstFrame
  lastFrame,     \* m_lastFrame
  shown          \* what getFrame has returned last

linkVars == <<conn, cmds, capture, sent, wire>>
saveVars == <<active, disabled, count, session, files, rows>>
guiVars == <<gpc, starts, lastFrame, shown>>
vars == <<linkVars, wpc, frame, queue, saveVars, guiVars, waiting>>

NoFrame == [cap |-> 0, id |-> 0]        \* nullptr, or the empty frame
Stopped == NoFrame                      \* in wire: the status Stopped

Init ==
  /\ conn = FALSE
  /\ cmds = <<>>
  /\ capture = 0 /\ sent = 0
  /\ wire = <<>>
  /\ wpc = "read" /\ frame = NoFrame
  /\ queue = <<>>
  /\ active = FALSE /\ disabled = FALSE /\ count = 0 /\ session = 0
  /\ files = {} /\ rows = {}
  /\ gpc = "idle" /\ starts = 0
  /\ waiting = FALSE
  /\ lastFrame = NoFrame /\ shown = NoFrame

------------------------------------------------------------------------------
(* Machine A and the connection.                                            *)
Connect ==
  /\ ~conn /\ wire = <<>>
  /\ conn' = TRUE
  /\ UNCHANGED <<cmds, capture, sent, wire, wpc, frame, queue, saveVars,
                 guiVars, waiting>>

ServeStart ==
  /\ capture = 0
  /\ cmds # <<>> /\ Head(cmds) # 0
  /\ cmds' = Tail(cmds)
  /\ capture' = Head(cmds)
  /\ sent' = 0
  /\ UNCHANGED <<conn, wire, wpc, frame, queue, saveVars, guiVars, waiting>>

(* StopCapture, the frame limit or the next StartCapture; A reports Stopped. *)
EndCapture ==
  /\ \/ cmds # <<>> /\ Head(cmds) = 0 /\ cmds' = Tail(cmds)
     \/ capture # 0 /\ UNCHANGED cmds
  /\ Len(wire) < MaxWire
  /\ capture' = 0
  /\ wire' = Append(wire, Stopped)
  /\ UNCHANGED <<conn, sent, wpc, frame, queue, saveVars, guiVars, waiting>>

SendFrame ==
  /\ conn /\ capture # 0
  /\ sent < MaxFrames /\ Len(wire) < MaxWire
  /\ sent' = sent + 1
  /\ wire' = Append(wire, [cap |-> capture, id |-> sent + 1])
  /\ UNCHANGED <<conn, cmds, capture, wpc, frame, queue, saveVars, guiVars,
                 waiting>>

Disconnect ==
  /\ conn
  /\ conn' = FALSE
  /\ cmds' = <<>>
  /\ capture' = 0
  /\ wire' \in {wire, <<>>}
  /\ UNCHANGED <<sent, wpc, frame, queue, saveVars, guiVars, waiting>>

------------------------------------------------------------------------------
(* The worker thread.  A frame is read and may be dropped at once (TOFI     *)
(* backpressure).                                                           *)
Read ==
  /\ wpc = "read" /\ wire # <<>> /\ Head(wire) # Stopped
  /\ wire' = Tail(wire)
  /\ \/ /\ frame' = Head(wire)
        /\ wpc' = "first"
     \/ UNCHANGED <<frame, wpc>>
  /\ UNCHANGED <<conn, cmds, capture, sent, queue, saveVars, guiVars, waiting>>

(* The status Stopped of whichever capture. *)
ReadStopped ==
  /\ wpc = "read" /\ wire # <<>> /\ Head(wire) = Stopped
  /\ wire' = Tail(wire)
  /\ waiting' = FALSE
  /\ UNCHANGED <<conn, cmds, capture, sent, wpc, frame, queue, saveVars,
                 guiVars>>

(* The connection has ended. *)
Gone ==
  /\ wpc = "read" /\ ~conn /\ wire = <<>> /\ waiting
  /\ waiting' = FALSE
  /\ UNCHANGED <<linkVars, wpc, frame, queue, saveVars, guiVars>>

(* m_waitingForFirstFrame.exchange(false) *)
First ==
  /\ wpc = "first"
  /\ waiting' = FALSE
  /\ wpc' = "save"
  /\ UNCHANGED <<linkVars, frame, queue, saveVars, guiVars>>

(* saveProcessedFrameSnapshotIfEnabled, under m_saveMutex.                  *)
Full == SaveLimit # 0 /\ count >= SaveLimit
Index == IF active THEN count ELSE 0
Session == IF active THEN session ELSE session + 1

SkipSave ==
  /\ wpc = "save"
  /\ wpc' = "enqueue"
  /\ UNCHANGED <<linkVars, frame, queue, saveVars, guiVars, waiting>>

(* ensureProcessedSaveSessionLocked opens a new session if none is active.  *)
(* Nothing checks that the line of frames.csv could be written.             *)
Save ==
  /\ wpc = "save" /\ ~disabled /\ ~Full
  /\ active' = TRUE
  /\ session' = Session
  /\ files' = files \cup {<<Session, Index, frame>>}
  /\ rows' \in {rows, rows \cup {<<Session, Index, frame>>}}
  /\ count' = Index + 1
  /\ wpc' = "enqueue"
  /\ UNCHANGED <<linkVars, frame, queue, disabled, guiVars, waiting>>

(* The directory, the index or an image file cannot be written; the         *)
(* exception leaves the block that holds the mutex.                         *)
SaveFails ==
  /\ wpc = "save" /\ ~disabled /\ ~Full
  /\ \/ UNCHANGED saveVars
     \/ /\ active' = TRUE
        /\ session' = Session
        /\ count' = Index
        /\ files' \in {files, files \cup {<<Session, Index, frame>>}}
        /\ UNCHANGED <<disabled, rows>>
  /\ wpc' = "caught"
  /\ UNCHANGED <<linkVars, frame, queue, guiVars, waiting>>

(* Mutant of Caught: the failure is only reported. *)
CaughtOnlyReports ==
  /\ wpc = "caught"
  /\ wpc' = "enqueue"
  /\ UNCHANGED <<linkVars, frame, queue, saveVars, guiVars, waiting>>

Caught ==
  /\ wpc = "caught"
  /\ disabled' = TRUE
  /\ active' = FALSE
  /\ wpc' = "enqueue"
  /\ UNCHANGED <<linkVars, frame, queue, count, session, files, rows, guiVars,
                 waiting>>

(* enqueue_latest, unless not even a RAW image can be made of the frame.    *)
Enqueue ==
  /\ wpc = "enqueue"
  /\ queue' \in {<<frame>>, queue}
  /\ frame' = NoFrame
  /\ wpc' = "read"
  /\ UNCHANGED <<linkVars, saveVars, guiVars, waiting>>

------------------------------------------------------------------------------
(* The GUI thread.                                                          *)
CloseSession ==
  /\ active' = FALSE
  /\ disabled' = FALSE
  /\ count' = 0
  /\ UNCHANGED <<session, files, rows>>

(* configure() or setFrameType() before Play. *)
Configure ==
  /\ gpc = "idle"
  /\ CloseSession
  /\ gpc' = "send"
  /\ UNCHANGED <<linkVars, wpc, frame, queue, starts, lastFrame, shown,
                 waiting>>

(* sendStartCaptureCommand: send, set the flags, close the session.         *)
SendStart ==
  /\ gpc = "send"
  /\ \/ /\ conn /\ starts < MaxStarts
        /\ cmds' = Append(cmds, starts + 1)
        /\ starts' = starts + 1
        /\ gpc' = "flags"
     \/ /\ gpc' = "idle"
        /\ UNCHANGED <<cmds, starts>>
  /\ UNCHANGED <<conn, capture, sent, wire, wpc, frame, queue, saveVars,
                 lastFrame, shown, waiting>>

StartFlags ==
  /\ gpc = "flags"
  /\ waiting' = TRUE
  /\ gpc' = "close"
  /\ UNCHANGED <<linkVars, wpc, frame, queue, saveVars, starts, lastFrame,
                 shown>>

(* sendStopCaptureCommand *)
SendStop ==
  /\ gpc = "idle" /\ conn
  /\ Len(cmds) < MaxStarts
  /\ cmds' = Append(cmds, 0)
  /\ gpc' = "stopped"
  /\ UNCHANGED <<conn, capture, sent, wire, wpc, frame, queue, saveVars, starts, lastFrame, shown, waiting>>

StopFlags ==
  /\ gpc = "stopped"
  /\ waiting' = FALSE
  /\ gpc' = "close"
  /\ UNCHANGED <<linkVars, wpc, frame, queue, saveVars, starts,
                 lastFrame, shown>>

Close ==
  /\ gpc = "close"
  /\ CloseSession
  /\ gpc' = "idle"
  /\ UNCHANGED <<linkVars, wpc, frame, queue, starts, lastFrame, shown,
                 waiting>>

(* Mutant of GetFrame: m_lastFrame is not replaced. *)
GetFrameForgets ==
  /\ gpc = "idle"
  /\ \/ /\ queue # <<>>
        /\ queue' = <<>>
        /\ lastFrame' = IF lastFrame = NoFrame THEN Head(queue) ELSE lastFrame
        /\ shown' = Head(queue)
     \/ /\ queue = <<>>
        /\ shown' = lastFrame
        /\ UNCHANGED <<queue, lastFrame>>
  /\ UNCHANGED <<linkVars, wpc, frame, saveVars, gpc, starts, waiting>>

(* getFrame: the queue's frame, else the one before, else an empty one.     *)
GetFrame ==
  /\ gpc = "idle"
  /\ \/ /\ queue # <<>>
        /\ queue' = <<>>
        /\ lastFrame' = Head(queue)
        /\ shown' = Head(queue)
     \/ /\ queue = <<>>
        /\ shown' = lastFrame
        /\ UNCHANGED <<queue, lastFrame>>
  /\ UNCHANGED <<linkVars, wpc, frame, saveVars, gpc, starts, waiting>>

------------------------------------------------------------------------------
MachineA == Connect \/ ServeStart \/ EndCapture \/ SendFrame \/ Disconnect
Worker == \/ Read \/ ReadStopped \/ Gone \/ First \/ SkipSave \/ Save \/ SaveFails
          \/ Caught \/ Enqueue
Gui == \/ Configure \/ SendStart \/ StartFlags \/ SendStop \/ StopFlags \/ Close
       \/ GetFrame

Next == MachineA \/ Worker \/ Gui

Spec == Init /\ [][Next]_vars

------------------------------------------------------------------------------
Older(f, g) == f.cap < g.cap \/ (f.cap = g.cap /\ f.id < g.id)

(* An image file is written for one frame only, the files of a session are  *)
(* numbered from 0 without a gap, and in the order the frames were taken,   *)
(* and every line of frames.csv stands for the frame its file holds:        *)
(* closing the session at any point of a save, or a save that fails         *)
(* half-way, neither reuses nor skips an index.  Which capture the frames   *)
(* of a session come from is not said: see FirstFrameIsNew.                 *)
SessionConsistent ==
  /\ \A f, g \in files : f[1] = g[1] /\ f[2] = g[2] => f = g
  /\ \A f \in files : \A i \in 0 .. f[2] - 1 :
       \E g \in files : g[1] = f[1] /\ g[2] = i
  /\ \A f, g \in files : f[1] = g[1] /\ f[2] < g[2] => Older(f[3], g[3])
  /\ rows \subseteq files

(* The display never goes back to an earlier frame, although getFrame may   *)
(* return the previous frame again at any time and frames are dropped.      *)
ShownInOrder == [][shown' = shown \/ Older(shown, shown')]_vars

(* The StartCapture commands whose flags are set. *)
Asked == IF gpc = "flags" THEN starts - 1 ELSE starts

(* What the status line reports as the first frame after StartCapture is a  *)
(* frame of that capture.                                                   *)
FirstFrameIsNew ==
  [][wpc = "first" /\ wpc' = "save" /\ waiting => frame.cap >= Asked]_vars
==============================================================================
