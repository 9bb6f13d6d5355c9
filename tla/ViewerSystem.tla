---------------------------- MODULE ViewerSystem -----------------------------
(***************************************************************************)
(* Machine B against any peer: one that connects, sends messages, takes    *)
(* commands, closes or dies whenever it likes, over a network that may be  *)
(* cut at any moment, also in the middle of a message.                     *)
(***************************************************************************)
EXTENDS ViewerStream

vars == <<linkVars, viewerVars>>

Init == LinkInit /\ ViewerInit

------------------------------------------------------------------------------
(* The peer as its socket calls allow it to be.  The viewer tells four      *)
(* kinds of message apart.                                                  *)
PeerTypes == {"Hello", "CcbFile", "DataFrame", "Stopped"}

PeerSends ==
  /\ aSock # NoConn
  /\ \E t \in PeerTypes : ASend(Note(t))
  /\ UNCHANGED <<down, aSock, bSock, backlog, listening, fin, lost>>

PeerReads ==
  /\ aSock # NoConn
  /\ \E t \in DownTypes, m \in Modes \cup {NoMode} :
       ARecv([type |-> t, mode |-> m])
  /\ UNCHANGED <<up, aSock, bSock, backlog, listening, fin, lost>>

PeerCloses == aSock # NoConn /\ AClose

(* Machine A loses power: nobody closes the connection. *)
PeerDies ==
  /\ aSock # NoConn
  /\ ~PeerGone(aSock)
  /\ aSock' = NoConn
  /\ Cut(aSock)
  /\ ADropsInput
  /\ UNCHANGED <<bSock, backlog, listening, fin>>

Environment ==
  \/ AConnect \/ PeerSends \/ PeerReads \/ PeerCloses \/ PeerDies \/ LoseLink

Next ==
  \/ Worker
  \/ Gui
  \/ User
  \/ Environment /\ UNCHANGED viewerVars

Spec == Init /\ [][Next]_vars

------------------------------------------------------------------------------
WorkerLocations ==
  {"none", "boot", "listen", "bind", "accept", "accepting", "install", "test",
   "poll", "blocked", "leave", "fault", "finish", "ended"}
GuiLocations ==
  {"idle", "sendStop", "stopSent", "prepare", "configure", "sendStart",
   "startSent", "stop", "closeSockets", "joinWorker", "closed"}

(* The types of the viewer's variables and of the link. *)
TypeOK ==
  /\ LinkTypeOK
  /\ wpc \in WorkerLocations
  /\ stopFlag \in BOOLEAN
  /\ running \in BOOLEAN
  /\ clientConnected \in BOOLEAN
  /\ remoteCapturing \in BOOLEAN
  /\ waitingFirst \in BOOLEAN
  /\ silence \in 0..SilenceLimit
  /\ config \in Modes
  /\ gpc \in GuiLocations
  /\ then \in {"none"} \cup GuiLocations
  /\ playing \in BOOLEAN
  /\ fresh \in BOOLEAN
  /\ playedMode \in Modes
  /\ selected \in Modes

------------------------------------------------------------------------------
(* The worker and the GUI thread keep running; neither the user nor the     *)
(* peer has to do anything.  (PeerReads is fair only so that the bound      *)
(* CmdCap does not block a send that never blocks.)                         *)
Fairness ==
  /\ WF_vars(Worker)
  /\ WF_vars(Gui)
  /\ WF_vars(PeerReads /\ UNCHANGED viewerVars)

FairSpec == Spec /\ Fairness

(* ADINetworkToFStream::stop() returns: whatever the worker is doing when   *)
(* it is called - binding, blocked in accept, poll or in the middle of a    *)
(* message - it ends and is joined.                                         *)
StopReturns == gpc = "stop" ~> wpc = "none"

(* A viewer whose peer has closed its end lets go of the connection, so     *)
(* that the next one can be accepted.                                       *)
ClosedPeerNoticed == bSock \in fin ~> bSock \notin fin

(* A peer that vanishes while a capture is on is dropped, unless the stream *)
(* is ended meanwhile or recv_message waits for the rest of a message.      *)
SilentPeerDropped ==
  bSock \in lost /\ ActiveStream
    ~> bSock \notin lost \/ ~ActiveStream \/ wpc = "blocked"

(* A peer that vanishes while a capture is on is always dropped in the end: *)
(* "closing stale socket and waiting for reconnect".                        *)
StalePeerDropped == ~<>[](bSock \in lost /\ remoteCapturing)
==============================================================================
