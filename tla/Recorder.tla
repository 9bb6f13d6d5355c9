------------------------------ MODULE Recorder -------------------------------
(***************************************************************************)
(* Recording in tof-viewer, with one camera open.  Three threads: the GUI, *)
(* the capture thread of ADIController, which takes a frame from the       *)
(* camera for each request, and the record thread of ADIToFRecorder, which *)
(* writes what the capture thread has queued for it.                       *)
(*                                                                         *)
(* A frame is known by its size, which is that of the camera mode.  The    *)
(* GUI's blocking calls are steps of their own: todo lists those it has    *)
(* yet to make, so that a click is an action and each call another.        *)
(* m_requestMutex is held by the capture thread while it takes a frame,    *)
(* hence Locked.  The buttons, and the look at a recording that has        *)
(* finished, are in the tree of a device: while the user keeps its nodes   *)
(* collapsed the GUI shows frames and does nothing else.                   *)
(***************************************************************************)
EXTENDS Naturals, Sequences

CONSTANTS
  Modes,           \* camera modes, each with a frame size of its own
  NoSize,          \* the size of a frame that could not be taken: 0 x 0
  MaxFrames,       \* bound: frames the user may ask for
  MaxRecordings,   \* bound: recordings started
  MaxQueue,        \* bound: the record thread gets a turn for so many frames,
                   \* and without it one more is queued
  PanicLimit,      \* failures before panicStop (7 in the code)
  ModeChanges      \* the user may change the mode while recording

ASSUME RecorderAssumption ==
  /\ NoSize \notin Modes
  /\ MaxFrames \in Nat \ {0}
  /\ MaxRecordings \in Nat
  /\ MaxQueue \in Nat \ {0}
  /\ PanicLimit \in Nat
  /\ ModeChanges \in BOOLEAN

VARIABLES
  isPlaying, isRecording,
  expanded,        \* the nodes Open Device and ToF Camera Options are
  mode,            \* modeSelection
  active,          \* modeSelectChanged: the mode the camera was prepared for
  separate,        \* captureSeparateEnabled
  frameSize,       \* frameHeight and frameWidth of the frame shown last
  todo,            \* calls the GUI has yet to make in this round
  recordings,      \* started so far
  wpc,             \* capture thread, "none" when there is none
  stopFlag, frameRequested, panicCount, panicStop,
  queue,           \* m_queue
  taken,           \* the frame the capture thread will deliver
  rpc,             \* record thread, "none" when there is none
  recordStop,      \* m_recordTreadStop
  finish,          \* m_finishRecording
  framesToRecord, frameCtr,
  recordQueue,
  writing,         \* the frame the record thread is about to write
  header,          \* the size in the header, that of m_frameDetails
  fileOpen,        \* m_recordFile.is_open()
  file             \* the frames in the file, by size

buttons == <<isPlaying, isRecording, expanded, mode, recordings>>
camera == <<active, separate>>
captureVars == <<wpc, stopFlag, frameRequested, panicCount, panicStop, queue, taken>>
recordVars == <<rpc, recordStop, finish, framesToRecord, frameCtr, writing,
                header, fileOpen, file>>
vars == <<buttons, camera, frameSize, todo, captureVars, recordVars, recordQueue>>

Init ==
  /\ isPlaying = FALSE /\ isRecording = FALSE
  /\ expanded = TRUE
  /\ mode \in Modes /\ active \in Modes
  /\ separate = TRUE
  /\ frameSize = NoSize
  /\ todo = <<>>
  /\ recordings = 0
  /\ wpc = "none"
  /\ stopFlag = FALSE /\ frameRequested = FALSE
  /\ panicCount = 0 /\ panicStop = FALSE
  /\ queue = <<>>
  /\ taken = NoSize
  /\ rpc = "none"
  /\ recordStop = TRUE /\ finish = TRUE
  /\ framesToRecord = 0 /\ frameCtr = 0
  /\ recordQueue = <<>>
  /\ writing = NoSize
  /\ header = NoSize
  /\ fileOpen = FALSE
  /\ file = <<>>

Locked == wpc \in {"camera", "deliver", "show"}

------------------------------------------------------------------------------
(* The capture thread, captureFrames.                                       *)
CaptureLoops ==
  /\ wpc = "top"
  /\ wpc' = IF stopFlag THEN "ended" ELSE "wait"
  /\ UNCHANGED <<buttons, camera, frameSize, todo, stopFlag, frameRequested,
                 panicCount, panicStop, queue, taken, recordVars, recordQueue>>

CaptureWakes ==
  /\ wpc = "wait"
  /\ frameRequested \/ stopFlag
  /\ IF stopFlag THEN wpc' = "ended" /\ panicCount' = 0
                 ELSE wpc' = "camera" /\ UNCHANGED panicCount
  /\ UNCHANGED <<buttons, camera, frameSize, todo, stopFlag, frameRequested,
                 panicStop, queue, taken, recordVars, recordQueue>>

(* Mutant of CaptureFails: the thread tries again before it answers. *)
CaptureRetries ==
  /\ wpc = "camera"
  /\ panicStop' = (panicStop \/ panicCount >= PanicLimit)
  /\ panicCount' = IF panicCount < PanicLimit THEN panicCount + 1 ELSE panicCount
  /\ wpc' = "top"
  /\ UNCHANGED <<buttons, camera, frameSize, todo, stopFlag, frameRequested,
                 queue, taken, recordVars, recordQueue>>

(* requestFrame of the camera fails: an empty frame goes to the GUI, and    *)
(* the failure is counted until the capture stops.                          *)
CaptureFails ==
  /\ wpc = "camera"
  /\ panicStop' = (panicStop \/ panicCount >= PanicLimit)
  /\ panicCount' = IF panicCount < PanicLimit THEN panicCount + 1 ELSE panicCount
  /\ queue' = Append(queue, NoSize)
  /\ frameRequested' = FALSE
  /\ wpc' = "top"
  /\ UNCHANGED <<buttons, camera, frameSize, todo, stopFlag, taken, recordVars,
                 recordQueue>>

(* It succeeds: the frame goes to the recorder if isRecordingEnabled ...    *)
CaptureTakes ==
  /\ wpc = "camera"
  /\ rpc \in {"top", "write"} => Len(recordQueue) < MaxQueue
  /\ wpc' = IF recordStop THEN "show" ELSE "deliver"
  /\ taken' = active
  /\ UNCHANGED <<buttons, camera, frameSize, todo, stopFlag, frameRequested,
                 panicCount, panicStop, queue, recordVars, recordQueue>>

(* ... whether or not the record thread still runs, and to the GUI in any   *)
(* case.                                                                    *)
CaptureDelivers ==
  /\ wpc \in {"deliver", "show"}
  /\ recordQueue' = IF wpc = "deliver" /\ Len(recordQueue) <= MaxQueue
                      THEN Append(recordQueue, taken) ELSE recordQueue
  /\ queue' = Append(queue, taken)
  /\ frameRequested' = FALSE
  /\ wpc' = "top"
  /\ UNCHANGED <<buttons, camera, frameSize, todo, stopFlag, panicCount,
                 panicStop, taken, recordVars>>

Capture ==
  CaptureLoops \/ CaptureWakes \/ CaptureFails \/ CaptureTakes \/ CaptureDelivers

------------------------------------------------------------------------------
(* The record thread, recordThread.  With an empty queue it spins; a file   *)
(* that is not open ends it without a word to the GUI.                      *)
RecordEnds ==
  /\ rpc = "top"
  /\ recordStop \/ ~fileOpen
  /\ rpc' = "ended"
  /\ UNCHANGED <<buttons, camera, frameSize, todo, captureVars, recordStop,
                 finish, framesToRecord, frameCtr, writing, header, fileOpen,
                 file, recordQueue>>

(* Mutant of RecordFinishes: the stop flag is set, not the one the GUI reads. *)
RecordFinishesQuietly ==
  /\ rpc = "top"
  /\ ~recordStop /\ fileOpen
  /\ recordQueue # <<>>
  /\ frameCtr >= framesToRecord
  /\ frameCtr' = 0
  /\ recordStop' = TRUE
  /\ rpc' = "ended"
  /\ UNCHANGED <<buttons, camera, frameSize, todo, captureVars, finish,
                 framesToRecord, writing, header, fileOpen, file, recordQueue>>

(* Enough frames: noticed when the next one is there, which stays queued. *)
RecordFinishes ==
  /\ rpc = "top"
  /\ ~recordStop /\ fileOpen
  /\ recordQueue # <<>>
  /\ frameCtr >= framesToRecord
  /\ frameCtr' = 0
  /\ finish' = TRUE
  /\ rpc' = "ended"
  /\ UNCHANGED <<buttons, camera, frameSize, todo, captureVars, recordStop,
                 framesToRecord, writing, header, fileOpen, file, recordQueue>>

(* Mutant of RecordDequeues: the count is not looked at. *)
RecordDequeuesAny ==
  /\ rpc = "top"
  /\ ~recordStop /\ fileOpen
  /\ recordQueue # <<>>
  /\ writing' = Head(recordQueue)
  /\ recordQueue' = Tail(recordQueue)
  /\ rpc' = "write"
  /\ UNCHANGED <<buttons, camera, frameSize, todo, captureVars, recordStop,
                 finish, framesToRecord, frameCtr, header, fileOpen, file>>

RecordDequeues ==
  /\ rpc = "top"
  /\ ~recordStop /\ fileOpen
  /\ recordQueue # <<>>
  /\ frameCtr < framesToRecord
  /\ writing' = Head(recordQueue)
  /\ recordQueue' = Tail(recordQueue)
  /\ rpc' = "write"
  /\ UNCHANGED <<buttons, camera, frameSize, todo, captureVars, recordStop,
                 finish, framesToRecord, frameCtr, header, fileOpen, file>>

RecordWrites ==
  /\ rpc = "write"
  /\ file' = Append(file, writing)
  /\ frameCtr' = frameCtr + 1
  /\ rpc' = "top"
  /\ UNCHANGED <<buttons, camera, frameSize, todo, captureVars, recordStop,
                 finish, framesToRecord, writing, header, fileOpen, recordQueue>>

Record == RecordEnds \/ RecordFinishes \/ RecordDequeues \/ RecordWrites

------------------------------------------------------------------------------
(* The GUI: the calls its handlers consist of.                              *)
StopCapture == <<"halt", "join">>
StopPlayCCD == StopCapture \o <<"calm">>
StopRecording == <<"haltRecord", "joinRecord">>
ShowFrame == <<"frame", "request">>

(* PlayCCD: a new mode or a start prepares the camera and starts to capture. *)
PlayCCD(playing) ==
  (IF active # mode THEN StopCapture ELSE <<>>)
    \o (IF active # mode \/ separate \/ ~playing THEN <<"start", "request">>
                                                  ELSE <<>>)
    \o ShowFrame

(* What follows the clicks in a round: the end of the tree and PlayCCD. *)
Rest == <<"check", "play">>
Round(open) == IF open THEN Rest ELSE <<"play">>

(* One call is made, and the calls it leads to come next. *)
Call(name, then) ==
  /\ todo # <<>>
  /\ Head(todo) = name
  /\ todo' = then \o Tail(todo)

NoClick ==
  /\ todo = <<>>
  /\ isPlaying \/ isRecording
  /\ todo' = Round(expanded)
  /\ UNCHANGED <<buttons, camera, frameSize, captureVars, recordVars, recordQueue>>

(* The user collapses or expands a node of the tree. *)
ToggleTree ==
  /\ todo = <<>>
  /\ expanded' = ~expanded
  /\ todo' = Round(expanded')
  /\ UNCHANGED <<isPlaying, isRecording, mode, recordings, camera, frameSize,
                 captureVars, recordVars, recordQueue>>

Play ==
  /\ todo = <<>> /\ expanded
  /\ ~isPlaying
  /\ isPlaying' = TRUE
  /\ todo' = Rest
  /\ UNCHANGED <<isRecording, expanded, mode, recordings, camera, frameSize,
                 captureVars, recordVars, recordQueue>>

StopButton ==
  /\ todo = <<>> /\ expanded
  /\ isPlaying
  /\ isPlaying' = FALSE
  /\ isRecording' = FALSE
  /\ separate' = TRUE
  /\ todo' = StopPlayCCD \o (IF isRecording THEN StopRecording ELSE <<>>) \o Rest
  /\ UNCHANGED <<expanded, mode, recordings, active, frameSize, captureVars,
                 recordVars, recordQueue>>

SelectMode ==
  /\ todo = <<>> /\ expanded
  /\ isRecording => ModeChanges
  /\ mode' \in Modes \ {mode}
  /\ todo' = Rest
  /\ UNCHANGED <<isPlaying, isRecording, expanded, recordings, camera, frameSize,
                 captureVars, recordVars, recordQueue>>

(* Start Recording presses Play first if need be. *)
StartRecording ==
  /\ todo = <<>> /\ expanded
  /\ ~isRecording
  /\ recordings < MaxRecordings
  /\ recordings' = recordings + 1
  /\ framesToRecord' \in 1 .. MaxFrames
  /\ isPlaying' = TRUE
  /\ isRecording' = TRUE
  /\ todo' = (IF isPlaying THEN <<>> ELSE PlayCCD(FALSE)) \o <<"record">> \o Rest
  /\ UNCHANGED <<expanded, mode, camera, frameSize, captureVars, rpc,
                 recordStop, finish, frameCtr, writing, header, fileOpen, file,
                 recordQueue>>

StopRecordingButton ==
  /\ todo = <<>> /\ expanded
  /\ isRecording
  /\ isRecording' = FALSE
  /\ isPlaying' = FALSE
  /\ separate' = TRUE
  /\ todo' = StopRecording \o StopPlayCCD \o Rest
  /\ UNCHANGED <<expanded, mode, recordings, active, frameSize, captureVars,
                 recordVars, recordQueue>>

Clicks ==
  \/ Play \/ StopButton \/ SelectMode \/ StartRecording \/ StopRecordingButton
  \/ ToggleTree

(* Mutant of CheckFinished: the flag is reset, the thread is left alone. *)
CheckFinishedOnly ==
  /\ Call("check", <<>>)
  /\ isRecording' = (isRecording /\ ~finish)
  /\ UNCHANGED <<isPlaying, expanded, mode, recordings, camera, frameSize,
                 captureVars, recordVars, recordQueue>>

(* The end of ShowRecordTree: a finished recording is stopped. *)
CheckFinished ==
  /\ Call("check", IF finish /\ isRecording THEN StopRecording ELSE <<>>)
  /\ isRecording' = (isRecording /\ ~finish)
  /\ UNCHANGED <<isPlaying, expanded, mode, recordings, camera, frameSize,
                 captureVars, recordVars, recordQueue>>

(* PlayCCD, then the look at panicStop. *)
PlayOn ==
  /\ Call("play", IF isPlaying THEN PlayCCD(TRUE) \o <<"panic">> ELSE <<>>)
  /\ UNCHANGED <<buttons, camera, frameSize, captureVars, recordVars, recordQueue>>

Panic ==
  /\ Call("panic", IF panicStop THEN StopPlayCCD ELSE <<>>)
  /\ isPlaying' = (isPlaying /\ ~panicStop)
  /\ separate' = (separate \/ panicStop)
  /\ UNCHANGED <<isRecording, expanded, mode, recordings, active, frameSize,
                 captureVars, recordVars, recordQueue>>

(* StopCapture sets the flag under the lock ... *)
HaltCapture ==
  /\ Call("halt", <<>>)
  /\ ~Locked
  /\ stopFlag' = TRUE
  /\ UNCHANGED <<buttons, camera, frameSize, wpc, frameRequested, panicCount,
                 panicStop, queue, taken, recordVars, recordQueue>>

(* ... joins the thread and erases the queue; a request stays pending. *)
JoinCapture ==
  /\ Call("join", <<>>)
  /\ wpc \in {"none", "ended"}
  /\ wpc' = "none"
  /\ queue' = <<>>
  /\ UNCHANGED <<buttons, camera, frameSize, stopFlag, frameRequested,
                 panicCount, panicStop, taken, recordVars, recordQueue>>

(* The rest of stopPlayCCD. *)
Calm ==
  /\ Call("calm", <<>>)
  /\ panicStop' = FALSE
  /\ UNCHANGED <<buttons, camera, frameSize, wpc, stopFlag, frameRequested,
                 panicCount, queue, taken, recordVars, recordQueue>>

(* prepareCamera and StartCapture. *)
StartCapture ==
  /\ Call("start", <<>>)
  /\ active' = mode
  /\ separate' = FALSE
  /\ stopFlag' = FALSE
  /\ wpc' = "top"
  /\ UNCHANGED <<buttons, frameSize, frameRequested, panicCount, panicStop,
                 queue, taken, recordVars, recordQueue>>

RequestFrame ==
  /\ Call("request", <<>>)
  /\ ~Locked
  /\ frameRequested' = TRUE
  /\ UNCHANGED <<buttons, camera, frameSize, wpc, stopFlag, panicCount,
                 panicStop, queue, taken, recordVars, recordQueue>>

GetFrame ==
  /\ Call("frame", <<>>)
  /\ queue # <<>>
  /\ frameSize' = Head(queue)
  /\ queue' = Tail(queue)
  /\ UNCHANGED <<buttons, camera, wpc, stopFlag, frameRequested, panicCount,
                 panicStop, taken, recordVars, recordQueue>>

(* startRecordingRaw: the size in the header is that of the frame shown;    *)
(* frameCtr and the queue are those the recording before has left.  Nobody  *)
(* looks whether the file could be opened.                                  *)
StartRecordingRaw ==
  /\ Call("record", <<>>)
  /\ header' = frameSize
  /\ file' = <<>>
  /\ fileOpen' \in BOOLEAN
  /\ finish' = FALSE
  /\ recordStop' = FALSE
  /\ rpc' = "top"
  /\ UNCHANGED <<buttons, camera, frameSize, captureVars, framesToRecord,
                 frameCtr, writing, recordQueue>>

HaltRecording ==
  /\ Call("haltRecord", <<>>)
  /\ recordStop' = TRUE
  /\ UNCHANGED <<buttons, camera, frameSize, captureVars, rpc, finish,
                 framesToRecord, frameCtr, writing, header, fileOpen, file,
                 recordQueue>>

JoinRecording ==
  /\ Call("joinRecord", <<>>)
  /\ rpc \in {"none", "ended"}
  /\ rpc' = "none"
  /\ fileOpen' = FALSE
  /\ UNCHANGED <<buttons, camera, frameSize, captureVars, recordStop, finish,
                 framesToRecord, frameCtr, writing, header, file, recordQueue>>

GoesOn ==
  \/ NoClick \/ CheckFinished \/ PlayOn \/ Panic \/ HaltCapture \/ JoinCapture
  \/ Calm \/ StartCapture \/ RequestFrame \/ GetFrame \/ StartRecordingRaw
  \/ HaltRecording \/ JoinRecording

Next == Capture \/ Record \/ GoesOn \/ Clicks

Spec == Init /\ [][Next]_vars

(* The threads run and the GUI goes round; clicks and failures are open. *)
FairSpec ==
  Spec /\ WF_vars(Capture) /\ WF_vars(Record) /\ WF_vars(GoesOn)

------------------------------------------------------------------------------
(* No std::thread is assigned to while it still has a thread, which would   *)
(* abort the viewer: whatever way a recording or a capture ended before.    *)
ThreadsJoined ==
  /\ todo # <<>> /\ Head(todo) = "start" => wpc = "none"
  /\ todo # <<>> /\ Head(todo) = "record" => rpc = "none"

(* A recording has at most the frames that were asked for, and they are     *)
(* written while its file is open.                                          *)
NeverTooMany ==
  /\ rpc # "none" => Len(file) <= framesToRecord
  /\ rpc = "write" => fileOpen

(* A recording into a file that could be opened ends by itself, unless the  *)
(* capture is stopped before or the user keeps the tree collapsed: recorder *)
(* and GUI agree on its end although each has a flag of its own.            *)
Unopened == rpc # "none" /\ ~fileOpen
RecordingEnds ==
  isRecording ~> ~isRecording \/ ~isPlaying \/ Unopened \/ ~expanded

(* Without the two exceptions it may go on for ever: the record thread      *)
(* leaves a file that is not open without m_finishRecording, and a          *)
(* collapsed tree does not look at it.                                      *)
RecordingAlwaysEnds == isRecording ~> ~isRecording \/ ~isPlaying

(* No call blocks the GUI for ever: the capture thread answers each request *)
(* whatever the camera does, and the threads end when told to.              *)
GuiServed == todo # <<>> ~> todo = <<>>

(* A recording that finishes has the frames the user has asked for.         *)
RecordingComplete == finish /\ fileOpen => Len(file) = framesToRecord

(* The frames in the file have the size that its header gives, provided the *)
(* recording was started with a frame on show.                              *)
FramesFitHeader ==
  header # NoSize => \A i \in 1 .. Len(file) : file[i] = header
==============================================================================
