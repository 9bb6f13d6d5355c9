--------------------------- MODULE ViewerPatience ----------------------------
(***************************************************************************)
(* ViewerSystem with a history variable that follows m_lastStartCommandTime *)
(* in the worker's unit of time: how long the viewer has waited since Play  *)
(* was pressed when it gives a connection up.                               *)
(***************************************************************************)
EXTENDS ViewerSystem

VARIABLE
  waited    \* history: empty polls since the last StartCapture

PatienceInit == Init /\ waited = 0

PatienceNext ==
  /\ Next
  /\ waited' = IF StartSent THEN 0
               ELSE IF PollTimeout THEN Tick(waited) ELSE waited

PatienceSpec == PatienceInit /\ [][PatienceNext]_<<vars, waited>>

(* Play does not tear down the established connection: a connection that is *)
(* alive is given up for its silence only after the peer has had the whole  *)
(* silence interval to answer StartCapture.                                 *)
PlayKeepsConnection ==
  wpc = "leave" /\ ~stopFlag /\ ActiveStream /\ bSock = aSock
    /\ bSock \notin lost
    => waited = SilenceLimit
==============================================================================
