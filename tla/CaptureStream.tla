---------------------------- MODULE CaptureStream ----------------------------
(***************************************************************************)
(* What Machine A promises whoever reads its side of one connection: an    *)
(* accepted StartCapture(m) is answered by one Capturing, then by frames   *)
(* 1, 2, 3, ... of frame type m with nothing left out, then by one         *)
(* ThreadStopped; no frame is sent between ThreadStopped and the next      *)
(* Capturing; StopCapture is acknowledged only when the stream is over;    *)
(* calibration tables never arrive in the middle of a stream.  Once the    *)
(* connection is dead nothing more is promised on it.                      *)
(***************************************************************************)
EXTENDS Naturals

CONSTANTS Modes, NoMode

VARIABLES
  alive,   \* the connection carries what A sends
  asked,   \* the frame type of the request A is serving
  ftype,   \* frame type of the open stream, NoMode when there is none
  next,    \* number of its next frame
  last     \* the last message on the live connection, Silent before the first

streamVars == <<alive, asked, ftype, next, last>>

Plain(t) == [type |-> t, mode |-> NoMode, id |-> 0]
Open == ftype # NoMode

StreamInit ==
  /\ alive = FALSE
  /\ asked = NoMode
  /\ ftype = NoMode
  /\ next = 0
  /\ last = Plain("Silent")

(* A new connection. *)
Begin ==
  /\ ~alive
  /\ ~Open
  /\ alive' = TRUE
  /\ UNCHANGED <<asked, ftype, next, last>>

(* The connection dies, or A leaves it with no stream open. *)
Die ==
  /\ alive
  /\ alive' = FALSE
  /\ last' = Plain("Silent")
  /\ UNCHANGED <<asked, ftype, next>>

Ask ==
  /\ asked' \in Modes \cup {NoMode}
  /\ UNCHANGED <<alive, ftype, next, last>>

(* Messages that say nothing about a stream. *)
Remark ==
  /\ alive
  /\ \/ last' \in {Plain("Waiting"), Plain("Error")}
     \/ ~Open /\ last' \in {Plain("Hello"), Plain("CcbFile"),
                            Plain("WaitingStart"), Plain("Stopped")}
     \/ ~Open /\ \E m \in Modes :
          last' = [type |-> "DealiasData", mode |-> m, id |-> 0]
  /\ UNCHANGED <<alive, asked, ftype, next>>

(* A request that cannot be served. *)
Refuse ==
  /\ alive
  /\ asked' = NoMode
  /\ last' = Plain("Error")
  /\ UNCHANGED <<alive, ftype, next>>

(* Streams of the mode last asked for; an empty request keeps the mode of   *)
(* the camera.                                                              *)
OpenStream ==
  /\ ~Open
  /\ ftype' \in IF asked = NoMode THEN Modes ELSE {asked}
  /\ asked' = NoMode
  /\ next' = 1
  /\ last' = IF alive THEN Plain("Capturing") ELSE last
  /\ UNCHANGED alive

Frame ==
  /\ Open
  /\ next' = next + 1
  /\ last' = IF alive THEN [type |-> "DataFrame", mode |-> ftype, id |-> next]
                      ELSE last
  /\ UNCHANGED <<alive, asked, ftype>>

CloseStream ==
  /\ Open
  /\ ftype' = NoMode
  /\ next' = 0
  /\ last' = IF alive THEN Plain("ThreadStopped") ELSE last
  /\ UNCHANGED <<alive, asked>>

StreamNext ==
  \/ Begin \/ Die \/ Ask \/ Remark \/ Refuse
  \/ OpenStream \/ Frame \/ CloseStream

StreamSpec == StreamInit /\ [][StreamNext]_streamVars
==============================================================================
