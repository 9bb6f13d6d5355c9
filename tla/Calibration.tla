----------------------------- MODULE Calibration -----------------------------
(***************************************************************************)
(* Which calibration a depth image is computed with.  Machine A exports    *)
(* the CCB of its camera module and one dealias table per frame type, from *)
(* the hardware or from cache files on its disk, and sends them before the *)
(* frames that need them.  Machine B keeps the CCB in a file and the       *)
(* tables in memory, names the file in its configuration and caches one    *)
(* TOFI context built from them; its GUI thread may replace the            *)
(* configuration at any time.                                              *)
(*                                                                         *)
(* A calibration is known by the camera module it belongs to.  The         *)
(* connection is one FIFO; the sockets are those of TofLink.               *)
(***************************************************************************)
EXTENDS Naturals, Sequences

CONSTANTS
  Modules,       \* camera modules that may be plugged into Machine A
  Modes,         \* frame types
  None,          \* no module
  Local,         \* the calibration in net_tofi_ccb, of no module of Modules
  UseCache,      \* metadata_cache without refresh_metadata
  ExportFails,   \* an export from the hardware may fail
  HasReceived,   \* B has a received CCB file from an earlier run
  MaxWire        \* bound on the messages in flight

ASSUME CalibrationAssumption ==
  /\ None \notin Modules
  /\ Local \notin Modules \cup {None}
  /\ UseCache \in BOOLEAN
  /\ ExportFails \in BOOLEAN
  /\ HasReceived \in BOOLEAN
  /\ MaxWire \in Nat \ {0}

VARIABLES
  module,        \* the module plugged into Machine A
  ccbCache,      \* module.ccb in A's metadata cache
  dealiasCache,  \* dealias_<mode>.bin in A's metadata cache
  apc,           \* where A's session is: "off", "ccb", "dealias", "wait", "stream"
  aMode,         \* mode_name_
  offered,       \* sent_dealias_modes
  cmd,           \* the StartCapture on its way to A, or None
  wire,          \* what A has sent and B has not read
  ccbFile,       \* content of receivedCcbFile on B's disk
  configCcb,     \* m_config.ccbFile: "none", "fallback" or "received"
  isp,           \* m_config.isAdsd3500 (a setting)
  table,         \* m_xyzDealiasData
  tofi,          \* the TOFI context and its key
  wpc,           \* where B's worker is: "read", "config", "release", "compute"
  cur,           \* the frame it computes, with its copy of the configuration
  gpc,           \* where B's GUI is: "idle", "configure", "start"
  draft,         \* the ccbFile of the configuration it prepares
  seen,          \* a CCB has arrived since B was started (history)
  result         \* the last frame B has put in its queue (history)

aVars == <<module, ccbCache, dealiasCache, apc, aMode, offered>>
workerVars == <<ccbFile, table, tofi, wpc, cur, seen, result>>
guiVars == <<gpc, draft>>
vars == <<aVars, cmd, wire, workerVars, configCcb, isp, guiVars>>

Msg(t, of, m) == [type |-> t, of |-> of, mode |-> m]
NoTofi == [mode |-> None, path |-> "none", ccb |-> None, table |-> None]
Raw == [of |-> None, mode |-> None, ccb |-> None, table |-> None, seen |-> FALSE]
Content(path) == CASE path = "received" -> ccbFile
                   [] path = "fallback" -> Local
                   [] OTHER -> None

Init ==
  /\ module \in Modules
  /\ ccbCache = None
  /\ dealiasCache = [m \in Modes |-> None]
  /\ apc = "off"
  /\ aMode \in Modes
  /\ offered = {}
  /\ cmd = None
  /\ wire = <<>>
  /\ ccbFile \in IF HasReceived THEN Modules ELSE {None}
  /\ configCcb = IF HasReceived THEN "received" ELSE "fallback"
  /\ isp \in BOOLEAN
  /\ table = [m \in Modes |-> None]
  /\ tofi = NoTofi
  /\ wpc = "read"
  /\ cur = Raw
  /\ gpc = "idle"
  /\ draft = "none"
  /\ seen = FALSE
  /\ result = Raw

------------------------------------------------------------------------------
(* Machine A.  What an export yields: the cached file if there is one, else *)
(* the module's own data, which is cached if that can be written.           *)
Exported(cached) ==
  IF UseCache /\ cached # None THEN {cached}
  ELSE {module} \cup (IF ExportFails THEN {None} ELSE {})

Cached(new, old) == IF UseCache /\ new # None THEN {new, old} ELSE {old}

Room == Len(wire) < MaxWire
Send(msg) == wire' = IF msg.of = None THEN wire ELSE Append(wire, msg)

(* Mutant of Connect: sent_dealias_modes outlives the session. *)
ConnectKeepsOffered ==
  /\ apc = "off"
  /\ apc' = "ccb"
  /\ cmd' = None
  /\ UNCHANGED <<module, ccbCache, dealiasCache, aMode, offered, wire,
                 workerVars, configCcb, isp, guiVars>>

Connect ==
  /\ apc = "off"
  /\ apc' = "ccb"
  /\ offered' = {}
  /\ cmd' = None
  /\ UNCHANGED <<module, ccbCache, dealiasCache, aMode, wire, workerVars,
                 configCcb, isp, guiVars>>

(* export_module_ccb; a failure is only reported. *)
ExportCcb ==
  /\ apc = "ccb" /\ Room
  /\ \E of \in Exported(ccbCache) :
       /\ Send(Msg("CcbFile", of, None))
       /\ ccbCache' \in Cached(of, ccbCache)
  /\ apc' = "dealias"
  /\ UNCHANGED <<module, dealiasCache, aMode, offered, cmd, workerVars,
                 configCcb, isp, guiVars>>

(* export_dealias_data for one frame type; one that cannot be read is left  *)
(* out.                                                                     *)
ExportDealias(m) ==
  \E of \in Exported(dealiasCache[m]) :
    /\ Send(Msg("DealiasData", of, m))
    /\ offered' = IF of = None THEN offered ELSE offered \cup {m}
    /\ \E kept \in Cached(of, dealiasCache[m]) :
         dealiasCache' = [dealiasCache EXCEPT ![m] = kept]

StartupDealias ==
  /\ apc = "dealias" /\ Room
  /\ ExportDealias(aMode)
  /\ apc' = "wait"
  /\ UNCHANGED <<module, ccbCache, aMode, cmd, workerVars, configCcb, isp,
                 guiVars>>

(* StartCapture ends the running capture, offers the table of the requested *)
(* frame type unless this session has sent it, switches and streams; or it  *)
(* fails and the camera waits.                                              *)
ServeStart ==
  /\ apc \in {"wait", "stream"} /\ Room
  /\ cmd # None
  /\ cmd' = None
  /\ IF cmd \in offered THEN UNCHANGED <<wire, offered, dealiasCache>>
                        ELSE ExportDealias(cmd)
  /\ \/ apc' = "stream" /\ aMode' = cmd
     \/ apc' = "wait" /\ UNCHANGED aMode
  /\ UNCHANGED <<module, ccbCache, workerVars, configCcb, isp, guiVars>>

SendFrame ==
  /\ apc = "stream" /\ Room
  /\ Send(Msg("DataFrame", module, aMode))
  /\ UNCHANGED <<aVars, cmd, workerVars, configCcb, isp, guiVars>>

(* A is switched off, another module may be plugged in; or the connection   *)
(* breaks and A connects again.  B may still read what had arrived.         *)
PowerCycle ==
  /\ apc' = "off"
  /\ module' \in Modules
  /\ aMode' \in Modes
  /\ cmd' = None
  /\ wire' \in {wire, <<>>}
  /\ UNCHANGED <<ccbCache, dealiasCache, offered, workerVars, configCcb, isp,
                 guiVars>>

LoseConnection ==
  /\ apc' = "off"
  /\ cmd' = None
  /\ wire' \in {wire, <<>>}
  /\ UNCHANGED <<module, ccbCache, dealiasCache, aMode, offered, workerVars,
                 configCcb, isp, guiVars>>

------------------------------------------------------------------------------
(* The worker thread of Machine B.                                          *)
Read(t) ==
  /\ wpc = "read"
  /\ wire # <<>>
  /\ Head(wire).type = t
  /\ wire' = Tail(wire)

(* handleCcbFile: the file is replaced, then the configuration names it,    *)
(* then the TOFI context is dropped.                                        *)
WriteCcb ==
  /\ Read("CcbFile")
  /\ ccbFile' = Head(wire).of
  /\ wpc' = "config"
  /\ UNCHANGED <<aVars, cmd, configCcb, isp, table, tofi, cur, seen, result,
                 guiVars>>

(* The file cannot be written: the worker throws and closes the connection. *)
WriteCcbFails ==
  /\ wpc = "read"
  /\ wire # <<>>
  /\ Head(wire).type = "CcbFile"
  /\ wire' = <<>>
  /\ apc' = "off"
  /\ cmd' = None
  /\ UNCHANGED <<module, ccbCache, dealiasCache, aMode, offered,
                 workerVars, configCcb, isp, guiVars>>

NameCcb ==
  /\ wpc = "config"
  /\ configCcb' = "received"
  /\ wpc' = "release"
  /\ UNCHANGED <<aVars, cmd, wire, ccbFile, isp, table, tofi, cur, seen,
                 result, guiVars>>

(* Mutant of ReleaseTofi: the context is kept. *)
ReleaseNothing ==
  /\ wpc = "release"
  /\ seen' = TRUE
  /\ wpc' = "read"
  /\ UNCHANGED <<aVars, cmd, wire, ccbFile, configCcb, isp, table, tofi, cur,
                 result, guiVars>>

ReleaseTofi ==
  /\ wpc = "release"
  /\ tofi' = NoTofi
  /\ seen' = TRUE
  /\ wpc' = "read"
  /\ UNCHANGED <<aVars, cmd, wire, ccbFile, configCcb, isp, table, cur,
                 result, guiVars>>

(* handleDealiasData: table and context under m_tofiMutex. *)
StoreDealias ==
  /\ Read("DealiasData")
  /\ table' = [table EXCEPT ![Head(wire).mode] = Head(wire).of]
  /\ tofi' = NoTofi
  /\ UNCHANGED <<aVars, cmd, ccbFile, configCcb, isp, wpc, cur, seen, result,
                 guiVars>>

(* handleDataFrame: dropped by the backpressure, or computed with a copy of *)
(* the configuration.                                                       *)
DropFrame ==
  /\ Read("DataFrame")
  /\ UNCHANGED <<aVars, cmd, workerVars, configCcb, isp, guiVars>>

TakeFrame ==
  /\ Read("DataFrame")
  /\ cur' = [of |-> Head(wire).of, mode |-> Head(wire).mode,
             path |-> configCcb, seen |-> seen]
  /\ wpc' = "compute"
  /\ UNCHANGED <<aVars, cmd, ccbFile, configCcb, isp, table, tofi, seen,
                 result, guiVars>>

(* ensureTofi / ensureTofiIsp: the context of the same frame type and the   *)
(* same CCB path is used again; otherwise a new one is built from what the  *)
(* file and the tables hold now.                                            *)
Reusable == tofi # NoTofi /\ tofi.mode = cur.mode /\ tofi.path = cur.path
Buildable == isp => cur.path # "none" /\ table[cur.mode] # None
Built == [mode |-> cur.mode, path |-> cur.path, ccb |-> Content(cur.path),
          table |-> table[cur.mode]]

(* computeTofiFrame, or the RAW fallback when building or computing fails. *)
Compute ==
  /\ wpc = "compute"
  /\ \/ /\ Reusable \/ Buildable
        /\ tofi' = IF Reusable THEN tofi ELSE Built
        /\ result' = [of |-> cur.of, mode |-> cur.mode, ccb |-> tofi'.ccb,
                      table |-> tofi'.table, seen |-> cur.seen]
     \/ /\ tofi' = IF Reusable THEN tofi ELSE NoTofi
        /\ result' = Raw
  /\ wpc' = "read"
  /\ cur' = Raw
  /\ UNCHANGED <<aVars, cmd, wire, ccbFile, configCcb, isp, table, seen, guiVars>>

------------------------------------------------------------------------------
(* The GUI thread of Machine B on Play: configureNetworkRawInput looks for  *)
(* the received file, configure() replaces the configuration, then          *)
(* StartCapture is sent if A is there.                                      *)
PrepareConfig ==
  /\ gpc = "idle"
  /\ draft' = IF ccbFile # None THEN "received" ELSE "fallback"
  /\ gpc' = "configure"
  /\ UNCHANGED <<aVars, cmd, wire, workerVars, configCcb, isp>>

Configure ==
  /\ gpc = "configure"
  /\ configCcb' = draft
  /\ draft' = "none"
  /\ gpc' = "start"
  /\ UNCHANGED <<aVars, cmd, wire, workerVars, isp>>

StartCapture ==
  /\ gpc = "start"
  /\ gpc' = "idle"
  /\ IF apc # "off" /\ cmd = None THEN cmd' \in Modes ELSE UNCHANGED cmd
  /\ UNCHANGED <<aVars, wire, workerVars, configCcb, isp, draft>>

------------------------------------------------------------------------------
MachineA == \/ Connect \/ ExportCcb \/ StartupDealias \/ ServeStart \/ SendFrame
            \/ PowerCycle \/ LoseConnection
Worker == \/ WriteCcb \/ WriteCcbFails \/ NameCcb \/ ReleaseTofi \/ StoreDealias
          \/ DropFrame \/ TakeFrame \/ Compute
Gui == PrepareConfig \/ Configure \/ StartCapture

Next == MachineA \/ Worker \/ Gui

Spec == Init /\ [][Next]_vars

------------------------------------------------------------------------------
(* A frame that is shown or saved as depth was computed with the            *)
(* calibration of the camera module that took it: its dealias table on the  *)
(* ISP path, its CCB otherwise, across reconnects and changes of module.    *)
CalibrationIsOwn ==
  result # Raw => result.of = IF isp THEN result.table ELSE result.ccb

(* The cached TOFI context is the one that would be built now: no           *)
(* calibration that has arrived is hidden by a cache key that names only a  *)
(* path.                                                                    *)
TofiIsCurrent ==
  tofi # NoTofi /\ wpc \in {"read", "compute"} =>
    tofi.table = table[tofi.mode] /\ tofi.ccb = Content(tofi.path)

(* The local CCB file of the configuration is used only until the CCB of    *)
(* Machine A arrives.                                                       *)
FallbackOnlyBefore == result # Raw /\ result.seen => result.ccb # Local

(* On the ISP path a frame is computed only with a table Machine A has sent *)
(* of its own module.                                                       *)
TableIsOwn == isp /\ result # Raw => result.table = result.of
==============================================================================
