------------------------------ MODULE Playback -------------------------------
(***************************************************************************)
(* Playback of a recording: the playback thread of ADIToFRecorder reads a  *)
(* frame whenever one is requested; the GUI thread takes frames from the   *)
(* queue, and its progress bar reads and writes the thread's position      *)
(* without a lock.                                                         *)
(*                                                                         *)
(* A position is a frame number and whether the twelve bytes of the header *)
(* are counted in; a frame is longer than the header.  m_playbackMutex is  *)
(* held by the thread while it reads, hence ReadLocked.                    *)
(***************************************************************************)
EXTENDS Naturals, Sequences

CONSTANTS
  Lengths,    \* numbers of frames of the recordings at hand
  MaxOpens,   \* bound: recordings opened in one run
  Drag        \* the user moves the progress bar

ASSUME PlaybackAssumption ==
  /\ Lengths \subseteq Nat
  /\ MaxOpens \in Nat
  /\ Drag \in BOOLEAN

VARIABLES
  isPlayRecorded,
  opens,       \* recordings opened so far: the number of the one that is open
  length,      \* of the recording that is open, from fileSize
  stop,        \* m_playbackThreadStop
  should,      \* m_shouldReadNewFrame
  paused,      \* isPaused and isPlayRecordPaused, always set together
  eof,         \* m_playbackFile.eof()
  finished,    \* m_playBackEofReached
  pos,         \* currentPBPos
  pbQueue,       \* m_playbackQueue
  tpc,         \* where the playback thread is, "none" when there is none
  at,          \* where the thread reads its frame
  gpc,         \* where the GUI is
  seeker,      \* rawSeeker
  shown        \* the last frame the GUI has taken (history)

threadVars == <<tpc, at, eof, finished>>
fileVars == <<opens, length>>
playVars == <<isPlayRecorded, fileVars, stop, should, paused, pos, pbQueue,
          threadVars, gpc, seeker, shown>>

Position == [rec : Nat, hdr : BOOLEAN]
Start == [rec |-> 0, hdr |-> TRUE]    \* behind the header
Zero == [rec |-> 0, hdr |-> FALSE]    \* byte 0 of the file
Frame(o, p, b) == [of |-> o, at |-> p, blank |-> b]

PlayInit ==
  /\ isPlayRecorded = FALSE
  /\ opens = 0
  /\ length = 0
  /\ stop = TRUE
  /\ should = TRUE
  /\ paused = FALSE
  /\ eof = FALSE
  /\ finished = FALSE
  /\ pos = Zero
  /\ pbQueue = <<>>
  /\ tpc = "none"
  /\ at = Zero
  /\ gpc = "menu"
  /\ seeker = 0
  /\ shown = Frame(0, Zero, FALSE)

ReadLocked == tpc \in {"add", "read", "blank"}

------------------------------------------------------------------------------
(* The playback thread.                                                     *)
ThreadLoops ==
  /\ tpc = "top"
  /\ tpc' = IF stop THEN "ended" ELSE "wait"
  /\ UNCHANGED <<isPlayRecorded, fileVars, stop, should, paused, pos, pbQueue,
                 at, eof, finished, gpc, seeker, shown>>

(* currentPBPos < fileSize - 4 images, in frames of two images *)
MoreToCome ==
  IF pos.hdr THEN pos.rec + 2 < length ELSE pos.rec + 2 <= length

(* Mutant of ThreadWakes: the thread polls, and reads nothing while paused. *)
ThreadPolls ==
  /\ tpc = "wait"
  /\ IF should /\ ~paused
       THEN /\ should' = FALSE
            /\ tpc' = IF MoreToCome THEN "add" ELSE "read"
       ELSE tpc' = "top" /\ UNCHANGED should
  /\ at' = pos
  /\ UNCHANGED <<isPlayRecorded, fileVars, stop, paused, pos, pbQueue, eof,
                 finished, gpc, seeker, shown>>

(* The thread takes the request.  At the end of the file it delivers a      *)
(* blank frame; else it seeks, and moves on unless paused or at the end.    *)
ThreadWakes ==
  /\ tpc = "wait"
  /\ should
  /\ should' = FALSE
  /\ tpc' = CASE eof -> "blank"
              [] ~eof /\ ~paused /\ MoreToCome -> "add"
              [] OTHER -> "read"
  /\ at' = pos
  /\ finished' = (finished \/ eof)
  /\ UNCHANGED <<isPlayRecorded, fileVars, stop, paused, pos, pbQueue, eof,
                 gpc, seeker, shown>>

(* currentPBPos += one frame, racing with the progress bar: the value it    *)
(* adds to was loaded at any time since the seek.                           *)
ThreadAdvances ==
  /\ tpc = "add"
  /\ \E p \in {pos, at} : pos' = [p EXCEPT !.rec = @ + 1]
  /\ tpc' = "read"
  /\ UNCHANGED <<isPlayRecorded, fileVars, stop, should, paused, pbQueue, at,
                 eof, finished, gpc, seeker, shown>>

(* A read beyond the last byte sets eof, which nothing clears again. *)
ThreadDelivers ==
  /\ tpc \in {"read", "blank"}
  /\ eof' = (eof \/ at.rec >= length)
  /\ pbQueue' = Append(pbQueue, Frame(opens, at, tpc = "blank"))
  /\ tpc' = "top"
  /\ UNCHANGED <<isPlayRecorded, fileVars, stop, should, paused, pos, at,
                 finished, gpc, seeker, shown>>

Thread == ThreadLoops \/ ThreadWakes \/ ThreadAdvances \/ ThreadDelivers

------------------------------------------------------------------------------
(* The GUI thread: at most one click in a round, then the progress bar,     *)
(* then the next frame.                                                     *)

(* Open Recording: startPlaybackRaw. *)
OpenRecording ==
  /\ gpc = "menu"
  /\ ~isPlayRecorded
  /\ opens < MaxOpens
  /\ isPlayRecorded' = TRUE
  /\ opens' = opens + 1
  /\ length' \in Lengths
  /\ pos' = Start
  /\ stop' = FALSE
  /\ finished' = FALSE
  /\ eof' = FALSE
  /\ tpc' = "top"
  /\ gpc' = "bar"
  /\ UNCHANGED <<should, paused, pbQueue, at, seeker, shown>>

(* Open Recording of a file that cannot be read, or that ends within the    *)
(* header: the size of a frame is 0, and the viewer dies of the division.   *)
OpenUnreadable ==
  /\ gpc = "menu"
  /\ ~isPlayRecorded
  /\ gpc' = "crashed"
  /\ UNCHANGED <<isPlayRecorded, fileVars, stop, should, paused, pos, pbQueue,
                 threadVars, seeker, shown>>

(* A round without a click; a playback that has finished is paused. *)
PlayNoClick ==
  /\ gpc = "menu"
  /\ isPlayRecorded
  /\ paused' = (paused \/ finished)
  /\ gpc' = "bar"
  /\ UNCHANGED <<isPlayRecorded, fileVars, stop, should, pos, pbQueue,
                 threadVars, seeker, shown>>

(* Pause, or Play again: when finished, from byte 0. *)
PauseButton ==
  /\ gpc = "menu"
  /\ isPlayRecorded
  /\ paused' = ~(paused \/ finished)
  /\ pos' = IF finished THEN Zero ELSE pos
  /\ gpc' = "bar"
  /\ UNCHANGED <<isPlayRecorded, fileVars, stop, should, pbQueue, threadVars,
                 seeker, shown>>

(* The progress bar shows the position and writes back what it shows, or    *)
(* where the user has dragged it to.                                        *)
BarReads ==
  /\ gpc = "bar"
  /\ seeker' = pos.rec
  /\ gpc' = "seek"
  /\ UNCHANGED <<isPlayRecorded, fileVars, stop, should, paused, pos, pbQueue,
                 threadVars, shown>>

(* Mutant of BarWrites: the next frame is written back. *)
BarWritesNext ==
  /\ gpc = "seek"
  /\ pos' = [rec |-> seeker + 1, hdr |-> FALSE]
  /\ gpc' = "get"
  /\ UNCHANGED <<isPlayRecorded, fileVars, stop, should, paused, pbQueue,
                 threadVars, seeker, shown>>

BarWrites ==
  /\ gpc = "seek"
  /\ \E k \in {seeker} \cup {d \in 0 .. length : Drag /\ d < length} :
       pos' = [rec |-> k, hdr |-> FALSE]
  /\ gpc' = "get"
  /\ UNCHANGED <<isPlayRecorded, fileVars, stop, should, paused, pbQueue,
                 threadVars, seeker, shown>>

(* getFrame waits for the queue ... *)
PlayGetFrame ==
  /\ gpc = "get"
  /\ pbQueue # <<>>
  /\ shown' = Head(pbQueue)
  /\ pbQueue' = Tail(pbQueue)
  /\ gpc' = "request"
  /\ UNCHANGED <<isPlayRecorded, fileVars, stop, should, paused, pos,
                 threadVars, seeker>>

(* ... and requestFrame for the lock. *)
PlayRequestFrame ==
  /\ gpc = "request"
  /\ ~ReadLocked
  /\ should' = TRUE
  /\ gpc' = "menu"
  /\ UNCHANGED <<isPlayRecorded, fileVars, stop, paused, pos, pbQueue,
                 threadVars, seeker, shown>>

(* Close Recording and Reset: stopPlayback, which sets the stop flag ... *)
StopPlayback ==
  /\ gpc = "menu"
  /\ stop' = TRUE
  /\ gpc' = "wake"
  /\ UNCHANGED <<isPlayRecorded, fileVars, should, paused, pos, pbQueue,
                 threadVars, seeker, shown>>

(* ... wakes the thread with a request of its own ... *)
StopWakes ==
  /\ gpc = "wake"
  /\ ~ReadLocked
  /\ should' = TRUE
  /\ gpc' = "join"
  /\ UNCHANGED <<isPlayRecorded, fileVars, stop, paused, pos, pbQueue,
                 threadVars, seeker, shown>>

(* Mutant of StopJoins: the frames that were not shown are thrown away. *)
StopJoinsErases ==
  /\ gpc = "join"
  /\ tpc \in {"none", "ended"}
  /\ tpc' = "none"
  /\ isPlayRecorded' = FALSE
  /\ paused' = FALSE
  /\ pbQueue' = <<>>
  /\ gpc' = "menu"
  /\ UNCHANGED <<fileVars, stop, should, pos, at, eof, finished, seeker, shown>>

(* ... and joins it.  The queue stays as it is. *)
StopJoins ==
  /\ gpc = "join"
  /\ tpc \in {"none", "ended"}
  /\ tpc' = "none"
  /\ isPlayRecorded' = FALSE
  /\ paused' = FALSE
  /\ gpc' = "menu"
  /\ UNCHANGED <<fileVars, stop, should, pos, pbQueue, at, eof, finished,
                 seeker, shown>>

PlayGoesOn ==
  \/ PlayNoClick \/ BarReads \/ BarWrites \/ PlayGetFrame \/ PlayRequestFrame
  \/ StopWakes \/ StopJoins
Gui ==
  PlayGoesOn \/ OpenRecording \/ OpenUnreadable \/ PauseButton \/ StopPlayback

PlayNext == Thread \/ Gui

PlaySpec == PlayInit /\ [][PlayNext]_playVars

(* The thread runs and the GUI goes round; what the user does is open. *)
PlayFairSpec == PlaySpec /\ WF_playVars(Thread) /\ WF_playVars(PlayGoesOn)

------------------------------------------------------------------------------
(* The GUI waits for a frame only when one is in the queue, being read or   *)
(* requested: what stopPlayback leaves of the request and the queue never   *)
(* adds up to nothing, and a second playback does not hang.  A playback     *)
(* never starts while the thread of the one before is there.                *)
FrameComing ==
  /\ gpc = "get" => pbQueue # <<>> \/ should \/ ReadLocked
  /\ gpc = "get" => tpc \notin {"none", "ended"}
  /\ gpc = "menu" /\ ~isPlayRecorded => tpc = "none"

(* Playing, pausing and the race for the position may show a frame again    *)
(* but skip none and never go back: from one frame to the next the number   *)
(* grows by one at most.                                                    *)
NoFrameSkipped ==
  [][shown'.of = shown.of /\ ~shown'.blank
       => shown'.at.rec \in {shown.at.rec, shown.at.rec + 1}]_playVars

(* The GUI is never stuck, neither for a frame nor for the thread to end,   *)
(* unless the viewer has died of a file it could not read.                  *)
PlaybackServed == gpc \notin {"menu", "crashed"} ~> gpc = "menu"

(* What is shown is of the recording that is open: startPlayback "opens a   *)
(* currently saved recording and plays it back" (ADIController.h).          *)
ShownIsOpen == gpc = "request" => shown.of = opens

(* A frame is read where it begins: behind the header of twelve bytes.      *)
FramesReadWhole == gpc = "request" /\ ~shown.blank => shown.at.hdr

(* The file never comes to its end for a user who moves the bar: after eof  *)
(* there is no way back.                                                    *)
CanRewind == eof => length = 0

(* A playback that is neither paused nor closed finishes: playbackFinished  *)
(* is the "flag indicating that playback has finished".                     *)
Playing == isPlayRecorded /\ ~paused
PlaybackFinishes == Playing ~> finished \/ ~Playing
==============================================================================
