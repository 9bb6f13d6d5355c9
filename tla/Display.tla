------------------------------- MODULE Display -------------------------------
(***************************************************************************)
(* The drawing threads of the viewer.  The GUI thread publishes a frame,   *)
(* wakes one worker thread per image the frame holds and waits at a        *)
(* barrier until each has drawn; then it shows the images and goes on to   *)
(* the next frame.  The threads share the frame without a lock: only the   *)
(* barrier keeps the GUI from replacing it under a worker.                 *)
(*                                                                         *)
(* m_frameCapturedMutex is a variable, because a worker tests its          *)
(* condition and falls asleep in two steps under it; sections under        *)
(* m_imshowMutex are single steps.  Frames are told apart from the one     *)
(* before and after: two numbers are enough.                               *)
(***************************************************************************)
EXTENDS Naturals, FiniteSets

CONSTANTS
  Images,        \* the workers: IR, depth and point cloud
  Free           \* no thread

ASSUME DisplayAssumption ==
  /\ IsFiniteSet(Images)
  /\ Free \notin Images

VARIABLES
  capturedFrame, \* m_capturedFrame, 0 for nullptr
  available,     \* m_irFrameAvailable, m_depthFrameAvailable, ...: those that are set
  numOfThreads,
  waitKeyBarrier,
  stopWorkers,   \* m_stopWorkersFlag
  mutex,         \* holder of m_frameCapturedMutex, or Free
  pc,            \* where each worker is
  gpc,           \* where the GUI is
  shown,         \* the images the GUI has asked for last (history)
  drawn          \* the frame each worker has drawn last (history)

shared == <<available, numOfThreads, waitKeyBarrier, stopWorkers>>
vars == <<capturedFrame, shared, mutex, pc, gpc, shown, drawn>>

Init ==
  /\ capturedFrame = 0
  /\ available = {}
  /\ numOfThreads = 0
  /\ waitKeyBarrier = 0
  /\ stopWorkers = FALSE
  /\ mutex = Free
  /\ pc = [w \in Images |-> "top"]
  /\ gpc = "idle"
  /\ shown = {}
  /\ drawn = [w \in Images |-> 0]

------------------------------------------------------------------------------
(* The GUI thread.  It takes the next frame from the controller ...         *)
GetFrame ==
  /\ gpc = "idle"
  /\ capturedFrame' = IF capturedFrame = 1 THEN 2 ELSE 1
  /\ gpc' = "publish"
  /\ UNCHANGED <<shared, mutex, pc, shown, drawn>>

(* ... sets the flags of the images the frame holds and the view shows ...  *)
Publish ==
  /\ gpc = "publish" /\ mutex = Free
  /\ shown' \in SUBSET Images
  /\ available' = shown'
  /\ numOfThreads' = Cardinality(shown')
  /\ gpc' = IF shown' = {} THEN "idle" ELSE "notify"
  /\ UNCHANGED <<capturedFrame, waitKeyBarrier, stopWorkers, mutex, pc, drawn>>

WakeAll == pc' = [w \in Images |-> IF pc[w] = "asleep" THEN "lock" ELSE pc[w]]

(* Mutant of Notify: notify_one. *)
NotifyOne ==
  /\ gpc = "notify"
  /\ \/ \E w \in Images : pc[w] = "asleep" /\ pc' = [pc EXCEPT ![w] = "lock"]
     \/ (\A w \in Images : pc[w] # "asleep") /\ UNCHANGED pc
  /\ gpc' = "barrier"
  /\ UNCHANGED <<capturedFrame, shared, mutex, shown, drawn>>

(* ... wakes the workers ...                                                *)
Notify ==
  /\ gpc = "notify"
  /\ WakeAll
  /\ gpc' = "barrier"
  /\ UNCHANGED <<capturedFrame, shared, mutex, shown, drawn>>

(* ... and waits for them.                                                  *)
Block ==
  /\ gpc = "barrier" /\ waitKeyBarrier # numOfThreads
  /\ gpc' = "blocked"
  /\ UNCHANGED <<capturedFrame, shared, mutex, pc, shown, drawn>>

(* Mutant of Pass: the barrier is not reset. *)
PassKeepsCount ==
  /\ gpc = "barrier" /\ waitKeyBarrier = numOfThreads
  /\ gpc' = "idle"
  /\ UNCHANGED <<capturedFrame, shared, mutex, pc, shown, drawn>>

Pass ==
  /\ gpc = "barrier" /\ waitKeyBarrier = numOfThreads
  /\ waitKeyBarrier' = 0
  /\ gpc' = "idle"
  /\ UNCHANGED <<capturedFrame, available, numOfThreads, stopWorkers, mutex, pc,
                 shown, drawn>>

(* stopPlayCCD *)
StopPlay ==
  /\ gpc = "idle"
  /\ capturedFrame' = 0
  /\ UNCHANGED <<shared, mutex, pc, gpc, shown, drawn>>

(* ~ADIView, and a new view when the device is opened again.                *)
Destroy ==
  /\ gpc = "idle"
  /\ gpc' = "stop"
  /\ UNCHANGED <<capturedFrame, shared, mutex, pc, shown, drawn>>

(* Mutant of SetStop: the flag is set without the mutex. *)
SetStopUnlocked ==
  /\ gpc = "stop"
  /\ stopWorkers' = TRUE
  /\ gpc' = "stopNotify"
  /\ UNCHANGED <<capturedFrame, available, numOfThreads, waitKeyBarrier, mutex,
                 pc, shown, drawn>>

SetStop ==
  /\ gpc = "stop" /\ mutex = Free
  /\ stopWorkers' = TRUE
  /\ gpc' = "stopNotify"
  /\ UNCHANGED <<capturedFrame, available, numOfThreads, waitKeyBarrier, mutex,
                 pc, shown, drawn>>

StopNotify ==
  /\ gpc = "stopNotify"
  /\ WakeAll
  /\ gpc' = "join"
  /\ UNCHANGED <<capturedFrame, shared, mutex, shown, drawn>>

Join ==
  /\ gpc = "join"
  /\ \A w \in Images : pc[w] = "done"
  /\ capturedFrame' = 0
  /\ available' = {}
  /\ numOfThreads' = 0
  /\ waitKeyBarrier' = 0
  /\ stopWorkers' = FALSE
  /\ pc' = [w \in Images |-> "top"]
  /\ gpc' = "idle"
  /\ shown' = {}
  /\ drawn' = [w \in Images |-> 0]
  /\ UNCHANGED mutex

------------------------------------------------------------------------------
(* A worker: _displayIrImage, _displayDepthImage, _displayPointCloudImage.  *)
Goto(w, place) == pc' = [pc EXCEPT ![w] = place]

Top(w) ==
  /\ pc[w] = "top"
  /\ Goto(w, IF stopWorkers THEN "done" ELSE "lock")
  /\ UNCHANGED <<capturedFrame, shared, mutex, gpc, shown, drawn>>

Lock(w) ==
  /\ pc[w] = "lock" /\ mutex = Free
  /\ mutex' = w
  /\ Goto(w, "test")
  /\ UNCHANGED <<capturedFrame, shared, gpc, shown, drawn>>

(* The condition of the wait, under the mutex. *)
Doze(w) ==
  /\ pc[w] = "test" /\ w \notin available /\ ~stopWorkers
  /\ Goto(w, "doze")
  /\ UNCHANGED <<capturedFrame, shared, mutex, gpc, shown, drawn>>

Sleep(w) ==
  /\ pc[w] = "doze"
  /\ mutex' = Free
  /\ Goto(w, "asleep")
  /\ UNCHANGED <<capturedFrame, shared, gpc, shown, drawn>>

Leave(w) ==
  /\ pc[w] = "test" /\ stopWorkers
  /\ mutex' = Free
  /\ Goto(w, "done")
  /\ UNCHANGED <<capturedFrame, shared, gpc, shown, drawn>>

(* Mutant of Take: the flag is not cleared. *)
TakeKeepsFlag(w) ==
  /\ pc[w] = "test" /\ w \in available /\ ~stopWorkers
  /\ mutex' = Free
  /\ Goto(w, IF capturedFrame = 0 THEN "top" ELSE "draw")
  /\ UNCHANGED <<capturedFrame, shared, gpc, shown, drawn>>

Take(w) ==
  /\ pc[w] = "test" /\ w \in available /\ ~stopWorkers
  /\ available' = available \ {w}
  /\ mutex' = Free
  /\ Goto(w, IF capturedFrame = 0 THEN "top" ELSE "draw")
  /\ UNCHANGED <<capturedFrame, numOfThreads, waitKeyBarrier, stopWorkers, gpc,
                 shown, drawn>>

Draw(w) ==
  /\ pc[w] = "draw"
  /\ drawn' = [drawn EXCEPT ![w] = capturedFrame]
  /\ Goto(w, "count")
  /\ UNCHANGED <<capturedFrame, shared, mutex, gpc, shown>>

(* Under m_imshowMutex; the last one notifies after releasing it. *)
Count(w) ==
  /\ pc[w] = "count"
  /\ waitKeyBarrier' = waitKeyBarrier + 1
  /\ Goto(w, IF waitKeyBarrier + 1 = numOfThreads THEN "signal" ELSE "top")
  /\ UNCHANGED <<capturedFrame, available, numOfThreads, stopWorkers, mutex,
                 gpc, shown, drawn>>

Signal(w) ==
  /\ pc[w] = "signal"
  /\ gpc' = IF gpc = "blocked" THEN "barrier" ELSE gpc
  /\ Goto(w, "top")
  /\ UNCHANGED <<capturedFrame, shared, mutex, shown, drawn>>

------------------------------------------------------------------------------
GuiGoesOn == Publish \/ Notify \/ Block \/ Pass \/ SetStop \/ StopNotify \/ Join
Gui == GetFrame \/ StopPlay \/ Destroy \/ GuiGoesOn
Worker(w) == \/ Top(w) \/ Lock(w) \/ Doze(w) \/ Sleep(w) \/ Leave(w) \/ Take(w)
             \/ Draw(w) \/ Count(w) \/ Signal(w)

Next == Gui \/ \E w \in Images : Worker(w)

Spec == Init /\ [][Next]_vars

(* The threads run; what the user does is left open. *)
FairSpec == Spec /\ WF_vars(GuiGoesOn) /\ \A w \in Images : WF_vars(Worker(w))

------------------------------------------------------------------------------
(* The frame is never replaced or dropped while a worker reads it: the      *)
(* barrier is all that protects m_capturedFrame.                            *)
FrameStable ==
  [][capturedFrame' # capturedFrame => \A w \in Images : pc[w] # "draw"]_vars

(* When the GUI has passed the barrier, each image it shows was drawn from  *)
(* the frame it shows: images of two frames are never mixed.                *)
ImagesMatch ==
  gpc = "idle" /\ capturedFrame # 0 => \A w \in shown : drawn[w] = capturedFrame

(* A published frame is drawn: the GUI does not wait at the barrier for     *)
(* ever.                                                                    *)
BarrierPasses == gpc \in {"barrier", "blocked"} ~> gpc = "idle"

(* Closing the view ends: no worker sleeps through m_stopWorkersFlag.       *)
ViewCloses == gpc = "stop" ~> gpc = "idle"
==============================================================================
