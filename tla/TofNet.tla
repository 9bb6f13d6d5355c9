------------------------------- MODULE TofNet --------------------------------
(***************************************************************************)
(* The whole system: the collector on Machine A, the viewer on Machine B,  *)
(* the TCP link between them, the user at the viewer, and the failures the *)
(* code is written for: the network is cut without notice, Machine A loses *)
(* power and comes back.                                                   *)
(***************************************************************************)
EXTENDS Collector, ViewerStream

CONSTANTS
  Faults       \* the failures that may happen

ASSUME FaultsAssumption == Faults \subseteq {"network", "power"}

vars == <<linkVars, collectorVars, viewerVars>>

Init == LinkInit /\ CollectorInit /\ ViewerInit

(* Machine A dies and restarts: B is not told, the new process begins with  *)
(* a stopped camera in its initial mode.                                    *)
PowerLoss ==
  /\ "power" \in Faults
  /\ pc # "exit"
  /\ aSock # NoConn
  /\ aSock' = NoConn
  /\ IF PeerGone(aSock) THEN lost' = lost \ {aSock} /\ UNCHANGED up
                        ELSE Cut(aSock)
  /\ ADropsInput
  /\ grun' = TRUE /\ pc' = "connect" /\ after' = "none" /\ req' = NoMode
  /\ dealiased' = {} /\ run' = FALSE /\ cpc' = "none" /\ frameId' = 0
  /\ frame' = NoMode
  /\ streaming' = FALSE /\ started' = FALSE /\ leftOn' = FALSE
  /\ modeName' = InitialMode /\ iniMode' = InitialMode
  /\ UNCHANGED <<bSock, backlog, listening, fin, viewerVars>>

NetworkFails ==
  "network" \in Faults /\ LoseLink /\ UNCHANGED <<collectorVars, viewerVars>>

MachineA == (MainThread \/ CaptureThread) /\ UNCHANGED viewerVars
MachineB == (Worker \/ Gui) /\ UNCHANGED collectorVars

(* The window stays open: closing it is the subject of ViewerSystem, a      *)
(* viewer that goes away that of CollectorSystem.                           *)
AtTheGui == (OpenDevice \/ SelectMode \/ PressPlay \/ PressStop)
              /\ UNCHANGED collectorVars

Next == MachineA \/ MachineB \/ AtTheGui \/ PowerLoss \/ NetworkFails

Spec == Init /\ [][Next]_vars

------------------------------------------------------------------------------
(* Both ends hold the same connection and the network carries it. *)
Connected == aSock # NoConn /\ aSock = bSock /\ aSock \notin lost

(* Every command of the GUI has been carried out. *)
Settled ==
  /\ Connected
  /\ gpc = "idle"
  /\ down[aSock] = <<>>
  /\ pc = "recv"

(* The capture thread takes and sends frames. *)
Capturing == run /\ cpc \in {"test", "grab", "send", "failed"}

(* Once everything the GUI asked for has been carried out, a camera that    *)
(* streams does so because the viewer plays, in the mode the user last      *)
(* played and the viewer is configured for: no order of mode changes, Stop  *)
(* and Play, reconnects and failed switches leaves the GUI, the stream and  *)
(* the camera with different ideas of the mode.                             *)
SettledModeAgrees ==
  Settled /\ Capturing
    => playing /\ modeName = playedMode /\ config = playedMode

(* Stop stops the camera, whatever was in flight when it was pressed: no    *)
(* capture thread is left and the device is off unless its STREAMOFF        *)
(* failed.                                                                  *)
StopStopsCamera ==
  Settled /\ ~playing
    => ~streaming /\ (started => leftOn) /\ cpc \in {"none", "done"}

(* While a capture is on, the silence watchdog is armed: if Machine A stops *)
(* answering now, the viewer will notice (workerLoop's time-out "during     *)
(* capture").                                                               *)
WatchdogArmed ==
  Settled /\ Capturing /\ up[bSock] = <<>> => ActiveStream
==============================================================================
