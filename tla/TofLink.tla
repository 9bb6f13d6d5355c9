------------------------------- MODULE TofLink -------------------------------
(***************************************************************************)
(* The TCP link between Machine A (tof_net_collect) and Machine B          *)
(* (tof_net_viewer), as the two programs use it through tof_net::Socket.   *)
(*                                                                         *)
(* A connection is an identifier that is reused once both ends have let go *)
(* of it.  Each direction of a connection is a FIFO of messages:           *)
(* recv_message returns one message or throws.  A message whose sender     *)
(* closes half-way is an end of file to the receiver; one that the network *)
(* cuts half-way is Torn: its first bytes are there, the rest never comes. *)
(* Unacked stands for what B sends on a connection that has been cut: A    *)
(* never sees it, B's kernel finds out in the end.                         *)
(* A message is its type and the few header fields the receiver acts on; a *)
(* blob (CCB, dealias table, RAW frame) is named by the frame type it      *)
(* belongs to.  The Status(Ok) that the collector sends after a CcbFile or *)
(* DealiasData message changes nothing at the receiver and is part of that *)
(* message here.                                                           *)
(***************************************************************************)
EXTENDS Naturals, Sequences, FiniteSets

CONSTANTS
  Modes,      \* the frame types of the sensor ("sr-native", "lr-mixed", ...)
  Conns,      \* identifiers of TCP connections
  NoConn,     \* no connection: a Socket whose fd_ is -1
  NoMode,     \* the empty frame_type string
  ChanCap,    \* messages that fit the socket buffers from A to B
  CmdCap,     \* bound: commands in flight from B to A
  Backlog     \* connections the listening socket holds before accept

ASSUME LinkAssumption ==
  /\ NoConn \notin Conns
  /\ NoMode \notin Modes
  /\ ChanCap \in Nat \ {0}
  /\ CmdCap \in Nat \ {0}
  /\ Backlog \in Nat \ {0}

VARIABLES
  up,         \* up[c]: messages sent by A on c and not yet received by B
  down,       \* down[c]: messages sent by B on c and not yet received by A
  aSock,      \* the connection A's Socket holds
  bSock,      \* the connection B's process holds
  backlog,    \* connections waiting for B's accept, oldest first
  listening,  \* B's m_listenSocket listens
  fin,        \* connections B still holds and A has closed
  lost        \* connections the network (or A's power) has silently cut

linkVars == <<up, down, aSock, bSock, backlog, listening, fin, lost>>

------------------------------------------------------------------------------
(* Messages.  WaitingStart and Waiting are the two uses of                  *)
(* StatusCode::WaitingForCommand, told apart by their text; ThreadStopped   *)
(* and Stopped are the two uses of StatusCode::Stopped: the capture         *)
(* thread's farewell and the answer to StopCapture.                         *)
StatusTypes == {"WaitingStart", "Waiting", "Capturing", "ThreadStopped",
                "Stopped", "Error"}
UpTypes ==
  {"Hello", "CcbFile", "DealiasData", "DataFrame", "Torn"} \cup StatusTypes
DownTypes == {"StartCapture", "StopCapture", "Shutdown", "Unacked"}

UpMsg == [type : UpTypes, mode : Modes \cup {NoMode}, id : Nat]
DownMsg == [type : DownTypes, mode : Modes \cup {NoMode}]

Note(t) == [type |-> t, mode |-> NoMode, id |-> 0]
DealiasData(m) == [type |-> "DealiasData", mode |-> m, id |-> 0]
DataFrame(m, n) == [type |-> "DataFrame", mode |-> m, id |-> n]
StartCapture(m) == [type |-> "StartCapture", mode |-> m]
Command(t) == [type |-> t, mode |-> NoMode]

------------------------------------------------------------------------------
Queued == {backlog[i] : i \in 1..Len(backlog)}
Free(c) == c # aSock /\ c # bSock /\ c \notin Queued

(* B has closed c (or refused it by closing its listener). *)
PeerGone(c) == c # bSock /\ c \notin Queued

(* What A can notice: its peer closed, or the network cut the connection. *)
Dead(c) == PeerGone(c) \/ c \in lost

LinkInit ==
  /\ up = [c \in Conns |-> <<>>]
  /\ down = [c \in Conns |-> <<>>]
  /\ aSock = NoConn
  /\ bSock = NoConn
  /\ backlog = <<>>
  /\ listening = FALSE
  /\ fin = {}
  /\ lost = {}

(* connect_to: a fresh connection enters the listener's backlog. *)
AConnect ==
  /\ aSock = NoConn
  /\ listening
  /\ Len(backlog) < Backlog
  /\ \E c \in Conns :
       /\ Free(c)
       /\ aSock' = c
       /\ backlog' = Append(backlog, c)
       /\ up' = [up EXCEPT ![c] = <<>>]
       /\ down' = [down EXCEPT ![c] = <<>>]
       /\ lost' = lost \ {c}
  /\ UNCHANGED <<bSock, listening, fin>>

(* send_message by A: blocks while the buffers are full.  On a dead         *)
(* connection the bytes vanish until the kernel learns of it.               *)
ASend(m) ==
  \/ /\ ~Dead(aSock)
     /\ Len(up[aSock]) < ChanCap
     /\ up' = [up EXCEPT ![aSock] = Append(@, m)]
  \/ /\ Dead(aSock)
     /\ UNCHANGED up

(* send_message or recv_message by A throws. *)
AError == Dead(aSock) /\ UNCHANGED up

ARecv(m) ==
  /\ down[aSock] # <<>>
  /\ m = Head(down[aSock])
  /\ m.type # "Unacked"
  /\ down' = [down EXCEPT ![aSock] = Tail(@)]

(* What B has sent and A has not read is gone when A lets go of its socket; *)
(* what is under way on a cut connection that B holds stays unacknowledged. *)
ADropsInput ==
  down' = [c \in Conns |-> IF c = aSock /\ (c \notin lost \/ PeerGone(c))
                             THEN <<>> ELSE down[c]]

(* Socket::close by A.  B reads what is already buffered, then end of file, *)
(* unless the network has cut the connection.                               *)
AClose ==
  /\ aSock' = NoConn
  /\ ADropsInput
  /\ fin' = IF aSock = NoConn \/ Dead(aSock) THEN fin ELSE fin \cup {aSock}
  /\ lost' = IF PeerGone(aSock) THEN lost \ {aSock} ELSE lost
  /\ UNCHANGED <<up, bSock, backlog, listening>>

------------------------------------------------------------------------------
BAccept ==
  /\ listening
  /\ backlog # <<>>
  /\ bSock' = Head(backlog)
  /\ backlog' = Tail(backlog)
  /\ UNCHANGED <<up, down, aSock, listening, fin, lost>>

(* The message B can read next, if any. *)
Arrived == {up[bSock][i] : i \in 1..(IF up[bSock] = <<>> THEN 0 ELSE 1)}

BRecv(m) ==
  /\ m \in Arrived
  /\ m.type # "Torn"
  /\ up' = [up EXCEPT ![bSock] = Tail(@)]

(* The first bytes of a message that never completes can be read. *)
BTorn == \E m \in Arrived : m.type = "Torn"

(* poll reports end of file, or recv returns 0. *)
BEof == up[bSock] = <<>> /\ bSock \in fin

(* poll finds nothing to read. *)
BQuiet == up[bSock] = <<>> /\ bSock \notin fin

(* B has sent a command that was not and will not be acknowledged.          *)
BUnacked ==
  /\ bSock # NoConn
  /\ down[bSock] # <<>>
  /\ down[bSock][Len(down[bSock])].type = "Unacked"

(* send_message by B.  Commands are small and never fill the buffers:       *)
(* CmdCap only bounds the model.  A has the connection, or has closed it,   *)
(* or the network has cut it.                                               *)
BSend(m) ==
  IF bSock \in lost
    THEN down' = IF BUnacked THEN down
                 ELSE [down EXCEPT ![bSock] = Append(@, Command("Unacked"))]
    ELSE IF bSock = aSock
      THEN /\ Len(down[bSock]) < CmdCap
           /\ down' = [down EXCEPT ![bSock] = Append(@, m)]
      ELSE UNCHANGED down

(* send_message by B throws: A has closed, or an earlier command was never  *)
(* acknowledged.                                                            *)
BSendFails ==
  /\ IF bSock \in lost THEN BUnacked ELSE bSock # aSock
  /\ UNCHANGED down

(* Socket::close on the client socket of B.  Nothing is left of a           *)
(* connection that neither end holds.                                       *)
BCloseClient ==
  /\ bSock' = NoConn
  /\ up' = [c \in Conns |-> IF c = bSock THEN <<>> ELSE up[c]]
  /\ fin' = fin \ {bSock}
  /\ lost' = IF aSock = bSock THEN lost ELSE lost \ {bSock}
  /\ down' = [c \in Conns |->
                IF c = bSock /\ c # aSock THEN <<>> ELSE down[c]]
  /\ UNCHANGED <<aSock, backlog, listening>>

(* The client and the listening socket of B are closed: every connection    *)
(* except the one A may still hold is gone, those in the backlog are reset.  *)
BCloseAll ==
  /\ bSock' = NoConn
  /\ listening' = FALSE
  /\ backlog' = <<>>
  /\ up' = [c \in Conns |-> <<>>]
  /\ fin' = {}
  /\ lost' = lost \cap {aSock}
  /\ down' = [c \in Conns |-> IF c = aSock THEN down[c] ELSE <<>>]
  /\ UNCHANGED aSock

(* Only the listening socket is closed: B keeps the connection it holds. *)
BCloseListener ==
  /\ listening' = FALSE
  /\ backlog' = <<>>
  /\ up' = [c \in Conns |-> IF c = bSock THEN up[c] ELSE <<>>]
  /\ fin' = fin \cap {bSock}
  /\ lost' = lost \cap {aSock, bSock}
  /\ UNCHANGED <<down, aSock, bSock>>

------------------------------------------------------------------------------
(* The network stops carrying A's connection without telling either end,    *)
(* between two messages or in the middle of one.                            *)
Cut(c) ==
  /\ lost' = lost \cup {c}
  /\ \/ UNCHANGED up
     \/ ~PeerGone(c) /\ up' = [up EXCEPT ![c] = Append(@, Note("Torn"))]

LoseLink ==
  /\ aSock # NoConn
  /\ aSock \notin lost
  /\ Cut(aSock)
  /\ UNCHANGED <<down, aSock, bSock, backlog, listening, fin>>

LinkTypeOK ==
  /\ up \in [Conns -> Seq(UpMsg)]
  /\ down \in [Conns -> Seq(DownMsg)]
  /\ aSock \in Conns \cup {NoConn}
  /\ bSock \in Conns \cup {NoConn}
  /\ backlog \in Seq(Conns)
  /\ listening \in BOOLEAN
  /\ fin \subseteq Conns
  /\ lost \subseteq Conns
==============================================================================
