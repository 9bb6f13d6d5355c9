-------------------------- MODULE CalibrationProofs --------------------------
(***************************************************************************)
(* CalibrationIsOwn and TofiIsCurrent of Calibration, for any camera       *)
(* modules, any frame types and any number of messages in flight.          *)
(*                                                                         *)
(* The messages in flight matter, because a table may be behind a frame of *)
(* the session before.  The invariant says of every frame, wherever it is, *)
(* that the worker will hold the calibration of its module by the time it  *)
(* reads it (Known); the frame A would send next is the case of a position *)
(* behind the last message.                                                *)
(***************************************************************************)
EXTENDS Calibration, TLAPS

Messages == [type : {"CcbFile"}, of : Modules, mode : {None}]
            \cup [type : {"DealiasData", "DataFrame"}, of : Modules,
                  mode : Modes]

Is(msg, t, m) == msg.type = t /\ msg.mode = m

(* Reading s up to position i leaves x in the place (t, m) that held h.     *)
Known(s, i, x, t, m, h) ==
  \/ \E j \in 1 .. i - 1 :
       /\ Is(s[j], t, m) /\ s[j].of = x
       /\ \A k \in j + 1 .. i - 1 : ~Is(s[k], t, m)
  \/ h = x /\ \A k \in 1 .. i - 1 : ~Is(s[k], t, m)

KnowsCcb(i, x) == Known(wire, i, x, "CcbFile", None, ccbFile)
KnowsTable(i, x, m) == Known(wire, i, x, "DealiasData", m, table[m])

(* The types the argument needs. *)
Typed ==
  /\ module \in Modules
  /\ aMode \in Modes
  /\ offered \subseteq Modes
  /\ cmd \in Modes \cup {None}
  /\ wire \in Seq(Messages)
  /\ ccbFile \in Modules
  /\ table \in [Modes -> Modules \cup {None}]

(* The configuration names the received file. *)
NamesReceived ==
  configCcb = "received" /\ (gpc = "configure" => draft = "received")

(* What A has sent in its session reaches B before anything it sends next. *)
InSession == apc \in {"dealias", "wait", "stream"}
SentCcb == InSession => KnowsCcb(Len(wire) + 1, module)
SentTables ==
  /\ apc = "ccb" => offered = {}
  /\ InSession => \A m \in offered : KnowsTable(Len(wire) + 1, module, m)
  /\ apc = "stream" => aMode \in offered

FramesKnown ==
  \A i \in 1 .. Len(wire) : wire[i].type = "DataFrame" =>
    /\ wire[i].mode \in Modes
    /\ KnowsCcb(i, wire[i].of)
    /\ KnowsTable(i, wire[i].of, wire[i].mode)

CurKnown ==
  wpc = "compute" =>
    /\ cur.mode \in Modes /\ cur.path = "received"
    /\ ccbFile = cur.of /\ table[cur.mode] = cur.of

WireInv == SentCcb /\ SentTables /\ FramesKnown
IndInv == /\ Typed /\ NamesReceived /\ WireInv
          /\ CurKnown /\ TofiIsCurrent /\ CalibrationIsOwn

------------------------------------------------------------------------------
(* A message more at the end changes nothing for those before it, and       *)
(* behind it only the place it is for.                                      *)
LEMMA KnownAppend ==
  ASSUME NEW s \in Seq(Messages), NEW msg \in Messages,
         NEW i \in 1 .. Len(s) + 1, NEW x, NEW t, NEW m, NEW h,
         Known(s, i, x, t, m, h)
  PROVE  Known(Append(s, msg), i, x, t, m, h)
<1>1. \A j \in 1 .. i - 1 : Append(s, msg)[j] = s[j]
  OBVIOUS
<1> QED  BY <1>1 DEF Known

LEMMA KnownBehind ==
  ASSUME NEW s \in Seq(Messages), NEW msg \in Messages,
         NEW x, NEW t, NEW m, NEW h,
         IF Is(msg, t, m) THEN msg.of = x ELSE Known(s, Len(s) + 1, x, t, m, h)
  PROVE  Known(Append(s, msg), Len(Append(s, msg)) + 1, x, t, m, h)
<1> DEFINE r == Append(s, msg)
<1>1. /\ Len(s) \in Nat
      /\ Len(r) = Len(s) + 1
      /\ r[Len(s) + 1] = msg
      /\ \A j \in 1 .. Len(s) : r[j] = s[j]
  OBVIOUS
<1> HIDE DEF r
<1>2. CASE Is(msg, t, m)
  BY <1>1, <1>2 DEF Known
<1>3. CASE ~Is(msg, t, m)
  <2>1. Known(s, Len(s) + 1, x, t, m, h)
    BY <1>3
  <2>2. \A k \in 1 .. Len(s) + 1 : Is(r[k], t, m) => k \in 1 .. Len(s)
    BY <1>1, <1>3
  <2> QED  BY <1>1, <2>1, <2>2 DEF Known
<1> QED  BY <1>2, <1>3 DEF r

(* Reading the first message puts it in its place. *)
LEMMA KnownTail ==
  ASSUME NEW s \in Seq(Messages), s # <<>>,
         NEW i \in 2 .. Len(s) + 1, NEW x, NEW t, NEW m, NEW h, NEW g,
         Known(s, i, x, t, m, h),
         g = IF Is(Head(s), t, m) THEN Head(s).of ELSE h
  PROVE  Known(Tail(s), i - 1, x, t, m, g)
<1>1. /\ Len(s) \in Nat /\ Len(s) >= 1 /\ Head(s) = s[1]
      /\ \A j \in 1 .. Len(s) - 1 : Tail(s)[j] = s[j + 1]
  OBVIOUS
<1> DEFINE r == Tail(s)
<1>2. \A j \in 1 .. i - 2 : r[j] = s[j + 1]
  BY <1>1
<1> HIDE DEF r
<1>3. CASE \E j \in 1 .. i - 1 :
             /\ Is(s[j], t, m) /\ s[j].of = x
             /\ \A k \in j + 1 .. i - 1 : ~Is(s[k], t, m)
  <2>1. PICK j \in 1 .. i - 1 :
               /\ Is(s[j], t, m) /\ s[j].of = x
               /\ \A k \in j + 1 .. i - 1 : ~Is(s[k], t, m)
    BY <1>3
  <2>2. \A k \in 1 .. i - 2 : k + 1 > j => ~Is(r[k], t, m)
    BY <1>2, <2>1
  <2>3. CASE j = 1
    BY <1>1, <2>1, <2>2, <2>3 DEF Known
  <2>4. CASE j # 1
    <3>1. j - 1 \in 1 .. i - 2 /\ r[j - 1] = s[j]
      BY <1>2, <2>1, <2>4
    <3> QED  BY <2>1, <2>2, <3>1 DEF Known
  <2> QED  BY <2>3, <2>4
<1>4. CASE h = x /\ \A k \in 1 .. i - 1 : ~Is(s[k], t, m)
  BY <1>1, <1>2, <1>4 DEF Known
<1> QED  BY <1>3, <1>4 DEF Known, r

------------------------------------------------------------------------------
(* How the invariant of the wire is kept: nothing changes for it, a message *)
(* is sent, the first one is read, or the session ends. *)
LEMMA WireSame ==
  ASSUME WireInv,
         UNCHANGED <<module, aMode, apc, offered, wire, ccbFile, table>>
  PROVE  WireInv'
BY DEF WireInv, SentCcb, SentTables, FramesKnown, InSession, KnowsCcb,
       KnowsTable

(* The frames before a new message. *)
LEMMA FramesAppend ==
  ASSUME Typed, FramesKnown, NEW msg \in Messages, wire' = Append(wire, msg),
         UNCHANGED <<ccbFile, table>>,
         msg.type = "DataFrame" =>
           /\ msg.mode \in Modes
           /\ KnowsCcb(Len(wire) + 1, msg.of)
           /\ KnowsTable(Len(wire) + 1, msg.of, msg.mode)
  PROVE  FramesKnown'
<1> SUFFICES ASSUME NEW i \in 1 .. Len(wire'), wire'[i].type = "DataFrame"
             PROVE  /\ wire'[i].mode \in Modes
                    /\ Known(wire', i, wire'[i].of, "CcbFile", None, ccbFile)
                    /\ Known(wire', i, wire'[i].of, "DealiasData",
                             wire'[i].mode, table[wire'[i].mode])
  BY DEF FramesKnown, KnowsCcb, KnowsTable
<1>1. wire \in Seq(Messages) /\ i \in 1 .. Len(wire) + 1
  BY DEF Typed
<1>2. CASE i \in 1 .. Len(wire)
  <2>1. wire'[i] = wire[i]
    BY <1>1, <1>2
  <2> QED  BY <1>1, <1>2, <2>1, KnownAppend
           DEF FramesKnown, KnowsCcb, KnowsTable
<1>3. CASE i = Len(wire) + 1
  <2>1. wire'[i] = msg
    BY <1>1, <1>3
  <2> QED  BY <1>1, <1>3, <2>1, KnownAppend DEF KnowsCcb, KnowsTable
<1> QED  BY <1>1, <1>2, <1>3

(* Reading: the frames that follow, and what A may send next. *)
LEMMA WireTail ==
  ASSUME Typed, WireInv, wire # <<>>, wire' = Tail(wire),
         UNCHANGED <<module, aMode, apc, offered>>,
         ccbFile' = IF Is(Head(wire), "CcbFile", None) THEN Head(wire).of
                                                       ELSE ccbFile,
         \A m \in Modes :
           table'[m] = IF Is(Head(wire), "DealiasData", m) THEN Head(wire).of
                                                           ELSE table[m]
  PROVE  WireInv'
<1> USE DEF WireInv
<1>1. /\ wire \in Seq(Messages) /\ Len(wire) \in Nat /\ Len(wire) >= 1
      /\ Len(wire') = Len(wire) - 1
      /\ \A i \in 1 .. Len(wire') : wire'[i] = wire[i + 1]
  BY DEF Typed
<1>2. \A i \in 2 .. Len(wire) + 1, x \in Modules : KnowsCcb(i, x) =>
        Known(wire', i - 1, x, "CcbFile", None, ccbFile')
  BY <1>1, KnownTail DEF KnowsCcb
<1>3. \A i \in 2 .. Len(wire) + 1, x \in Modules, m \in Modes :
        KnowsTable(i, x, m) =>
        Known(wire', i - 1, x, "DealiasData", m, table'[m])
  BY <1>1, KnownTail DEF KnowsTable
<1>4. /\ Len(wire) + 1 \in 2 .. Len(wire) + 1
      /\ Len(wire') + 1 = Len(wire) + 1 - 1
  BY <1>1
<1>5. SentCcb'
  BY <1>2, <1>4 DEF SentCcb, InSession, KnowsCcb, Typed
<1>6. SentTables'
  <2>1. InSession => \A m \in offered :
          Known(wire', Len(wire') + 1, module, "DealiasData", m, table'[m])
    <3> SUFFICES ASSUME InSession, NEW m \in offered
                 PROVE  Known(wire', Len(wire') + 1, module, "DealiasData", m,
                              table'[m])
      OBVIOUS
    <3>1. m \in Modes /\ KnowsTable(Len(wire) + 1, module, m)
      BY DEF SentTables, Typed
    <3>2. Known(wire', Len(wire) + 1 - 1, module, "DealiasData", m, table'[m])
      BY <1>3, <1>4, <3>1 DEF Typed
    <3> QED  BY <1>4, <3>2
  <2> QED  BY <2>1 DEF SentTables, InSession, KnowsTable
<1>7. FramesKnown'
  <2> SUFFICES ASSUME NEW i \in 1 .. Len(wire'), wire'[i].type = "DataFrame"
               PROVE  /\ wire'[i].mode \in Modes
                      /\ Known(wire', i, wire'[i].of, "CcbFile", None,
                               ccbFile')
                      /\ Known(wire', i, wire'[i].of, "DealiasData",
                               wire'[i].mode, table'[wire'[i].mode])
    BY DEF FramesKnown, KnowsCcb, KnowsTable
  <2>1. /\ i + 1 \in 2 .. Len(wire) + 1 /\ i + 1 \in 1 .. Len(wire)
        /\ i + 1 - 1 = i /\ wire'[i] = wire[i + 1]
    BY <1>1
  <2> DEFINE f == wire[i + 1]
  <2>2. /\ f.of \in Modules /\ f.mode \in Modes
        /\ KnowsCcb(i + 1, f.of) /\ KnowsTable(i + 1, f.of, f.mode)
    <3>1. f \in Messages
      BY <1>1, <2>1
    <3>2. f.of \in Modules
      BY <3>1 DEF Messages
    <3>3. f.type = "DataFrame" /\ i + 1 \in 1 .. Len(wire)
      BY <2>1
    <3> QED  BY <3>2, <3>3 DEF FramesKnown
  <2>3. Known(wire', i + 1 - 1, f.of, "CcbFile", None, ccbFile')
    BY <1>2, <2>1, <2>2
  <2>4. Known(wire', i + 1 - 1, f.of, "DealiasData", f.mode, table'[f.mode])
    BY <1>3, <2>1, <2>2
  <2> QED  BY <2>1, <2>2, <2>3, <2>4
<1> QED  BY <1>5, <1>6, <1>7

LEMMA WireOff ==
  ASSUME WireInv, wire' \in {wire, <<>>}, apc' = "off",
         UNCHANGED <<ccbFile, table>>
  PROVE  WireInv'
<1>1. CASE wire' = wire
  BY <1>1 DEF WireInv, SentCcb, SentTables, FramesKnown, InSession, KnowsCcb,
              KnowsTable
<1>2. CASE wire' = <<>>
  <2>1. FramesKnown'
    BY <1>2 DEF FramesKnown
  <2> QED  BY <2>1 DEF WireInv, SentCcb, SentTables, InSession
<1> QED  BY <1>1, <1>2

(* What A sends next, and that it has it behind it afterwards. *)
LEMMA Sent ==
  ASSUME Typed, WireInv, NEW msg \in Messages, msg.of = module,
         wire' = Append(wire, msg)
  PROVE  /\ InSession \/ Is(msg, "CcbFile", None) =>
              Known(wire', Len(wire') + 1, module, "CcbFile", None, ccbFile)
         /\ \A m \in Modes :
              (InSession /\ m \in offered) \/ Is(msg, "DealiasData", m) =>
                Known(wire', Len(wire') + 1, module, "DealiasData", m,
                      table[m])
<1>1. wire \in Seq(Messages)
  BY DEF Typed
<1>2. ASSUME InSession \/ Is(msg, "CcbFile", None)
      PROVE  Known(wire', Len(wire') + 1, module, "CcbFile", None, ccbFile)
  BY <1>1, <1>2, KnownBehind DEF WireInv, SentCcb, KnowsCcb
<1>3. ASSUME NEW m \in Modes,
             (InSession /\ m \in offered) \/ Is(msg, "DealiasData", m)
      PROVE  Known(wire', Len(wire') + 1, module, "DealiasData", m,
                      table[m])
  BY <1>1, <1>3, KnownBehind DEF WireInv, SentTables, KnowsTable
<1> QED  BY <1>2, <1>3

------------------------------------------------------------------------------
(* Steps that leave what the invariant speaks of alone. *)
LEMMA Quiet ==
  ASSUME IndInv, cmd' \in Modes \cup {None},
         UNCHANGED <<module, aMode, apc, offered, wire, ccbFile, table, tofi,
                     wpc, cur, result, isp>>,
         NamesReceived'
  PROVE  IndInv'
<1>1. WireInv'
  BY WireSame DEF IndInv
<1>2. Typed' /\ CurKnown' /\ TofiIsCurrent' /\ CalibrationIsOwn'
  BY DEF IndInv, Typed, CurKnown, TofiIsCurrent, CalibrationIsOwn, Content
<1> QED  BY <1>1, <1>2 DEF IndInv

(* Machine A: only its own state and the wire change. *)
LEMMA StepOfA ==
  ASSUME IndInv, Typed', WireInv',
         UNCHANGED <<workerVars, configCcb, isp, guiVars>>
  PROVE  IndInv'
<1>1. NamesReceived' /\ CurKnown' /\ TofiIsCurrent' /\ CalibrationIsOwn'
  BY DEF IndInv, NamesReceived, CurKnown, TofiIsCurrent, CalibrationIsOwn,
         Content, workerVars, guiVars
<1> QED  BY <1>1 DEF IndInv

(* Without a cache, exports that succeed yield the calibration of the       *)
(* module.                                                                  *)
LEMMA OwnExport ==
  ASSUME ~UseCache, ~ExportFails, NEW c
  PROVE  Exported(c) = {module}
BY DEF Exported

LEMMA ExportStep ==
  ASSUME ~UseCache, ~ExportFails, IndInv, InSession, NEW m \in Modes,
         ExportDealias(m), UNCHANGED <<module, ccbFile, table>>,
         apc' \in {"wait", "stream"}, aMode' \in Modes,
         apc' = "stream" => aMode' \in offered'
  PROVE  /\ WireInv'
         /\ wire' \in Seq(Messages) /\ offered' \subseteq Modes
<1> DEFINE msg == Msg("DealiasData", module, m)
<1>1. Typed /\ WireInv /\ module \in Modules /\ offered \subseteq Modes
      /\ wire \in Seq(Messages)
  BY DEF IndInv, Typed
<1>2. wire' = Append(wire, msg) /\ offered' = offered \cup {m}
  BY <1>1, OwnExport, CalibrationAssumption DEF ExportDealias, Send, Msg
<1>3. msg \in Messages /\ msg.of = module /\ Is(msg, "DealiasData", m)
      /\ msg.type # "DataFrame"
  BY <1>1 DEF Msg, Messages, Is
<1> HIDE DEF msg
<1>4. FramesKnown'
  BY <1>1, <1>2, <1>3, FramesAppend DEF WireInv
<1>5. /\ Known(wire', Len(wire') + 1, module, "CcbFile", None, ccbFile)
      /\ \A n \in offered \cup {m} :
           Known(wire', Len(wire') + 1, module, "DealiasData", n, table[n])
  BY <1>1, <1>2, <1>3, Sent
<1>6. SentCcb' /\ SentTables'
  BY <1>2, <1>5 DEF SentCcb, SentTables, KnowsCcb, KnowsTable
<1> QED  BY <1>1, <1>2, <1>3, <1>4, <1>6 DEF WireInv

LEMMA InitInd == ASSUME HasReceived, Init PROVE IndInv
<1>1. Typed /\ NamesReceived /\ CurKnown
  BY DEF Init, Typed, NamesReceived, CurKnown
<1>2. WireInv
  BY DEF Init, WireInv, SentCcb, SentTables, FramesKnown, InSession
<1>3. TofiIsCurrent /\ CalibrationIsOwn
  BY DEF Init, TofiIsCurrent, CalibrationIsOwn
<1> QED  BY <1>1, <1>2, <1>3 DEF IndInv

LEMMA StepOfMachineA ==
  ASSUME ~UseCache, ~ExportFails, IndInv, MachineA
  PROVE  IndInv'
<1> USE DEF workerVars, guiVars
<1>1. Typed /\ WireInv /\ module \in Modules /\ wire \in Seq(Messages)
  BY DEF IndInv, Typed
<1>2. CASE Connect
  <2>1. Typed'
    BY <1>1, <1>2 DEF Connect, Typed
  <2>2. WireInv'
    BY <1>1, <1>2 DEF Connect, WireInv, SentCcb, SentTables, FramesKnown,
                      InSession, KnowsCcb, KnowsTable
  <2> QED  BY <1>2, <2>1, <2>2, StepOfA DEF Connect
<1>3. CASE ExportCcb
  <2> DEFINE msg == Msg("CcbFile", module, None)
  <2>1. /\ wire' = Append(wire, msg) /\ apc = "ccb" /\ apc' = "dealias"
        /\ UNCHANGED <<module, aMode, offered, ccbFile, table>>
    BY <1>1, <1>3, OwnExport, CalibrationAssumption DEF ExportCcb, Send, Msg
  <2>2. /\ msg \in Messages /\ msg.of = module /\ Is(msg, "CcbFile", None)
        /\ msg.type # "DataFrame"
    BY <1>1 DEF Msg, Messages, Is
  <2> HIDE DEF msg
  <2>3. FramesKnown'
    BY <1>1, <2>1, <2>2, FramesAppend DEF WireInv
  <2>4. Known(wire', Len(wire') + 1, module, "CcbFile", None, ccbFile)
    BY <1>1, <2>1, <2>2, Sent
  <2>5. offered = {}
    BY <1>1, <2>1 DEF WireInv, SentTables
  <2>6. SentCcb' /\ SentTables'
    BY <2>1, <2>4, <2>5 DEF SentCcb, SentTables, KnowsCcb
  <2>7. Typed'
    BY <1>1, <1>3, <2>1, <2>2 DEF ExportCcb, Typed
  <2> QED  BY <1>3, <2>3, <2>6, <2>7, StepOfA DEF ExportCcb, WireInv
<1>4. CASE StartupDealias
  <2>1. aMode \in Modes /\ InSession
    BY <1>1, <1>4 DEF StartupDealias, Typed, InSession
  <2>2. WireInv' /\ wire' \in Seq(Messages) /\ offered' \subseteq Modes
    BY <1>4, <2>1, ExportStep DEF StartupDealias
  <2>3. Typed'
    BY <1>1, <1>4, <2>2 DEF StartupDealias, Typed
  <2> QED  BY <1>4, <2>2, <2>3, StepOfA DEF StartupDealias
<1>5. CASE ServeStart
  <2>1. /\ cmd \in Modes /\ InSession /\ aMode \in Modes /\ aMode' \in Modes
        /\ apc' \in {"wait", "stream"}
        /\ apc' = "stream" => aMode' = cmd
        /\ cmd' = None
        /\ UNCHANGED <<module, ccbFile, table>>
    BY <1>1, <1>5 DEF ServeStart, Typed, InSession
  <2>2. CASE cmd \in offered
    <3>1. UNCHANGED <<wire, offered>>
      BY <1>5, <2>2 DEF ServeStart
    <3>2. WireInv'
      BY <1>1, <2>1, <2>2, <3>1
      DEF WireInv, SentCcb, SentTables, FramesKnown, InSession, KnowsCcb,
          KnowsTable
    <3>3. Typed'
      BY <1>1, <2>1, <3>1 DEF Typed
    <3> QED  BY <1>5, <3>2, <3>3, StepOfA DEF ServeStart
  <2>3. CASE cmd \notin offered
    <3>1. ExportDealias(cmd)
      BY <1>5, <2>3 DEF ServeStart
    <3>2. cmd \in offered'
      BY <3>1, OwnExport, CalibrationAssumption, <1>1 DEF ExportDealias
    <3>3. WireInv' /\ wire' \in Seq(Messages) /\ offered' \subseteq Modes
      BY <2>1, <3>1, <3>2, ExportStep
    <3>4. Typed'
      BY <1>1, <2>1, <3>3 DEF Typed
    <3> QED  BY <1>5, <3>3, <3>4, StepOfA DEF ServeStart
  <2> QED  BY <2>2, <2>3
<1>6. CASE SendFrame
  <2> DEFINE msg == Msg("DataFrame", module, aMode)
  <2>1. /\ wire' = Append(wire, msg) /\ apc = "stream"
        /\ UNCHANGED <<module, aMode, apc, offered, ccbFile, table>>
    BY <1>1, <1>6, CalibrationAssumption DEF SendFrame, Send, Msg, aVars
  <2>2. /\ msg \in Messages /\ msg.of = module /\ msg.mode = aMode
        /\ aMode \in Modes
    BY <1>1 DEF Msg, Messages, Typed
  <2> HIDE DEF msg
  <2>3. InSession /\ aMode \in offered
    BY <1>1, <2>1 DEF InSession, WireInv, SentTables
  <2>4. KnowsCcb(Len(wire) + 1, module)
        /\ KnowsTable(Len(wire) + 1, module, aMode)
    BY <1>1, <2>3 DEF WireInv, SentCcb, SentTables
  <2>5. FramesKnown'
    BY <1>1, <2>1, <2>2, <2>4, FramesAppend DEF WireInv
  <2>6. /\ Known(wire', Len(wire') + 1, module, "CcbFile", None, ccbFile)
        /\ \A m \in Modes : m \in offered =>
             Known(wire', Len(wire') + 1, module, "DealiasData", m,
                      table[m])
    BY <1>1, <2>1, <2>2, <2>3, Sent
  <2>7. SentCcb' /\ SentTables'
    BY <1>1, <2>1, <2>3, <2>6
    DEF SentCcb, SentTables, KnowsCcb, KnowsTable, Typed
  <2>8. Typed'
    BY <1>1, <1>6, <2>1, <2>2 DEF SendFrame, Typed
  <2> QED  BY <1>6, <2>5, <2>7, <2>8, StepOfA DEF SendFrame, WireInv
<1>7. CASE PowerCycle \/ LoseConnection
  <2>1. WireInv'
    BY <1>1, <1>7, WireOff DEF PowerCycle, LoseConnection
  <2>2. Typed'
    <3>1. wire' \in Seq(Messages)
      <4>1. wire' \in {wire, <<>>}
        BY <1>7 DEF PowerCycle, LoseConnection
      <4>2. <<>> \in Seq(Messages)
        OBVIOUS
      <4> QED  BY <1>1, <4>1, <4>2
    <3>2. /\ module' \in Modules /\ aMode' \in Modes /\ cmd' = None
          /\ UNCHANGED <<offered, ccbFile, table>>
      BY <1>1, <1>7 DEF PowerCycle, LoseConnection, Typed
    <3> QED  BY <1>1, <3>1, <3>2 DEF Typed
  <2> QED  BY <1>7, <2>1, <2>2, StepOfA DEF PowerCycle, LoseConnection
<1> QED  BY <1>2, <1>3, <1>4, <1>5, <1>6, <1>7 DEF MachineA

(* Machine B.  What Compute uses again or builds is up to date. *)
LEMMA ComputedCurrent ==
  ASSUME TofiIsCurrent, Compute
  PROVE  TofiIsCurrent'
<1>1. UNCHANGED <<ccbFile, table>> /\ wpc = "compute"
  BY DEF Compute
<1>2. \A path : Content(path)' = Content(path)
  BY <1>1, Zenon DEF Content
<1>3. Built.table = table[Built.mode] /\ Built.ccb = Content(Built.path)
  BY <1>2 DEF Built
<1>4. tofi' \in {tofi, NoTofi, Built}
  BY DEF Compute
<1> QED  BY <1>1, <1>2, <1>3, <1>4 DEF TofiIsCurrent

(* Only Compute makes a result. *)
LEMMA ComputedOwn ==
  ASSUME IndInv, Compute
  PROVE  CalibrationIsOwn' /\ TofiIsCurrent'
<1>1. /\ cur.mode \in Modes /\ cur.path = "received"
      /\ ccbFile = cur.of /\ table[cur.mode] = cur.of
  BY DEF IndInv, CurKnown, Compute
<1>2. UNCHANGED <<ccbFile, table, isp>>
  BY DEF Compute
<1>3. Content("received") = ccbFile /\ \A path : Content(path)' = Content(path)
  BY <1>2, Zenon DEF Content
<1>4. Reusable => /\ tofi # NoTofi
                  /\ tofi.table = table[tofi.mode]
                  /\ tofi.ccb = Content(tofi.path)
                  /\ tofi.table = cur.of /\ tofi.ccb = cur.of
  BY <1>1, <1>3 DEF IndInv, TofiIsCurrent, Reusable, Compute
<1>5. /\ Built.table = table[Built.mode] /\ Built.ccb = Content(Built.path)
      /\ Built.table = cur.of /\ Built.ccb = cur.of
  BY <1>1, <1>3 DEF Built
<1>6. TofiIsCurrent'
  BY ComputedCurrent DEF IndInv
<1>7. CalibrationIsOwn'
  <2>1. CASE /\ tofi' = IF Reusable THEN tofi ELSE Built
             /\ result' = [of |-> cur.of, mode |-> cur.mode, ccb |-> tofi'.ccb,
                           table |-> tofi'.table, seen |-> cur.seen]
    <3>1. tofi'.table = cur.of /\ tofi'.ccb = cur.of
      BY <1>4, <1>5, <2>1
    <3>2. /\ result'.of = cur.of /\ result'.ccb = cur.of
          /\ result'.table = cur.of
      BY <2>1, <3>1
    <3> QED  BY <3>2 DEF CalibrationIsOwn
  <2>2. CASE result' = Raw
    BY <2>2 DEF CalibrationIsOwn
  <2> QED  BY <2>1, <2>2 DEF Compute
<1> QED  BY <1>6, <1>7

LEMMA StepOfWorker ==
  ASSUME IndInv, Worker
  PROVE  IndInv'
<1>1. /\ Typed /\ WireInv /\ NamesReceived /\ CurKnown
      /\ module \in Modules /\ wire \in Seq(Messages)
  BY DEF IndInv, Typed
<1>2. ASSUME NEW t, Read(t)
      PROVE  /\ wire' \in Seq(Messages) /\ wire # <<>> /\ Head(wire).type = t
             /\ wire' = Tail(wire) /\ wpc = "read"
             /\ Head(wire) \in Messages /\ Head(wire) = wire[1]
             /\ 1 \in 1 .. Len(wire)
  BY <1>1, <1>2 DEF Read
<1>3. CASE WriteCcb
  <2>1. /\ Read("CcbFile")
        /\ UNCHANGED <<module, aMode, apc, offered, table, cmd>>
    BY <1>3 DEF WriteCcb, aVars
  <2>2. Head(wire).mode = None /\ Head(wire).of \in Modules
    BY <1>2, <2>1 DEF Messages
  <2>3. WireInv'
    BY <1>1, <1>2, <1>3, <2>1, <2>2, WireTail DEF WriteCcb, Is
  <2>4. Typed'
    BY <1>1, <1>2, <1>3, <2>1, <2>2 DEF WriteCcb, Typed
  <2>5. NamesReceived' /\ CurKnown' /\ TofiIsCurrent' /\ CalibrationIsOwn'
    BY <1>1, <1>3 DEF IndInv, WriteCcb, NamesReceived, CurKnown, TofiIsCurrent,
                      CalibrationIsOwn, guiVars
  <2> QED  BY <2>3, <2>4, <2>5 DEF IndInv
<1>4. CASE WriteCcbFails
  <2>1. WireInv'
    BY <1>1, <1>4, WireOff DEF WriteCcbFails, workerVars
  <2>2. <<>> \in Seq(Messages)
    OBVIOUS
  <2>3. Typed'
    BY <1>1, <1>4, <2>2 DEF WriteCcbFails, Typed, workerVars
  <2> QED  BY <1>4, <2>1, <2>3, StepOfA DEF WriteCcbFails
<1>5. CASE NameCcb
  <2>1. UNCHANGED <<module, aMode, apc, offered, wire, ccbFile, table, cmd>>
    BY <1>5 DEF NameCcb, aVars
  <2>2. WireInv' /\ Typed'
    BY <1>1, <2>1, WireSame DEF Typed
  <2>3. NamesReceived' /\ CurKnown' /\ TofiIsCurrent' /\ CalibrationIsOwn'
    BY <1>1, <1>5 DEF IndInv, NameCcb, NamesReceived, CurKnown, TofiIsCurrent,
                      CalibrationIsOwn, guiVars
  <2> QED  BY <2>2, <2>3 DEF IndInv
<1>6. CASE ReleaseTofi
  <2>1. UNCHANGED <<module, aMode, apc, offered, wire, ccbFile, table, cmd>>
    BY <1>6 DEF ReleaseTofi, aVars
  <2>2. WireInv' /\ Typed'
    BY <1>1, <2>1, WireSame DEF Typed
  <2>3. NamesReceived' /\ CurKnown' /\ TofiIsCurrent' /\ CalibrationIsOwn'
    BY <1>1, <1>6 DEF IndInv, ReleaseTofi, NamesReceived, CurKnown,
                      TofiIsCurrent, CalibrationIsOwn, guiVars, NoTofi
  <2> QED  BY <2>2, <2>3 DEF IndInv
<1>7. CASE StoreDealias
  <2>1. /\ Read("DealiasData")
        /\ UNCHANGED <<module, aMode, apc, offered, ccbFile, cmd>>
    BY <1>7 DEF StoreDealias, aVars
  <2>2. Head(wire).mode \in Modes /\ Head(wire).of \in Modules
    BY <1>2, <2>1 DEF Messages
  <2>3. WireInv'
    <3>1. \A m \in Modes :
            table'[m] = IF Is(Head(wire), "DealiasData", m) THEN Head(wire).of
                                                            ELSE table[m]
      BY <1>1, <1>2, <1>7, <2>1 DEF StoreDealias, Is, Typed
    <3>2. ~Is(Head(wire), "CcbFile", None)
      BY <1>2, <2>1 DEF Is
    <3> QED  BY <1>1, <1>2, <2>1, <3>1, <3>2, WireTail
  <2>4. Typed'
    BY <1>1, <1>2, <1>7, <2>1, <2>2 DEF StoreDealias, Typed
  <2>5. NamesReceived' /\ CurKnown' /\ TofiIsCurrent' /\ CalibrationIsOwn'
    BY <1>1, <1>2, <1>7 DEF IndInv, StoreDealias, NamesReceived, CurKnown,
       TofiIsCurrent, CalibrationIsOwn, guiVars, NoTofi
  <2> QED  BY <2>3, <2>4, <2>5 DEF IndInv
<1>8. CASE DropFrame \/ TakeFrame
  <2>1. /\ Read("DataFrame")
        /\ UNCHANGED <<module, aMode, apc, offered, ccbFile, table, cmd>>
        /\ UNCHANGED <<configCcb, gpc, draft, tofi, isp, result>>
    BY <1>8 DEF DropFrame, TakeFrame, aVars, workerVars, guiVars
  <2>2. ~Is(Head(wire), "CcbFile", None)
        /\ \A m : ~Is(Head(wire), "DealiasData", m)
    BY <1>2, <2>1 DEF Is
  <2>3. WireInv'
    BY <1>1, <1>2, <2>1, <2>2, WireTail
  <2>4. Typed'
    BY <1>1, <1>2, <2>1 DEF Typed
  <2>5. /\ Head(wire).mode \in Modes
        /\ KnowsCcb(1, Head(wire).of)
        /\ KnowsTable(1, Head(wire).of, Head(wire).mode)
    BY <1>1, <1>2, <2>1 DEF WireInv, FramesKnown
  <2>6. ccbFile = Head(wire).of /\ table[Head(wire).mode] = Head(wire).of
    BY <2>5 DEF KnowsCcb, KnowsTable, Known
  <2>7. CurKnown'
    <3>1. CASE DropFrame
      BY <1>1, <3>1 DEF DropFrame, CurKnown, workerVars
    <3>2. CASE TakeFrame
      BY <1>1, <2>1, <2>5, <2>6, <3>2 DEF TakeFrame, CurKnown, NamesReceived
    <3> QED  BY <1>8, <3>1, <3>2
  <2>8. NamesReceived' /\ TofiIsCurrent' /\ CalibrationIsOwn'
    BY <1>1, <1>2, <2>1 DEF IndInv, NamesReceived, TofiIsCurrent,
       CalibrationIsOwn, Content
  <2> QED  BY <2>3, <2>4, <2>7, <2>8 DEF IndInv
<1>9. CASE Compute
  <2>1. UNCHANGED <<module, aMode, apc, offered, wire, ccbFile, table, cmd>>
    BY <1>9 DEF Compute, aVars
  <2>2. WireInv' /\ Typed'
    BY <1>1, <2>1, WireSame DEF Typed
  <2>3. NamesReceived' /\ CurKnown'
    BY <1>1, <1>9 DEF Compute, NamesReceived, CurKnown, guiVars
  <2> QED  BY <1>9, <2>2, <2>3, ComputedOwn DEF IndInv
<1> QED  BY <1>3, <1>4, <1>5, <1>6, <1>7, <1>8, <1>9 DEF Worker

LEMMA StepOfGui ==
  ASSUME IndInv, Gui
  PROVE  IndInv'
<1>1. /\ UNCHANGED <<module, aMode, apc, offered, wire, ccbFile, table, tofi,
                     wpc, cur, result, isp>>
      /\ cmd' \in Modes \cup {None}
  BY DEF Gui, PrepareConfig, Configure, StartCapture, aVars, workerVars,
         IndInv, Typed
<1>2. ccbFile # None
  BY CalibrationAssumption DEF IndInv, Typed
<1>3. NamesReceived'
  BY <1>2 DEF Gui, PrepareConfig, Configure, StartCapture, IndInv,
              NamesReceived
<1> QED  BY <1>1, <1>3, Quiet

LEMMA NextInd ==
  ASSUME ~UseCache, ~ExportFails, IndInv, [Next]_vars
  PROVE  IndInv'
<1>1. CASE UNCHANGED vars
  <2>1. NamesReceived' /\ Typed
    BY <1>1 DEF IndInv, NamesReceived, vars, guiVars
  <2> QED  BY <1>1, <2>1, Quiet DEF vars, aVars, workerVars, Typed
<1> QED  BY <1>1, StepOfMachineA, StepOfWorker, StepOfGui DEF Next

(* When a CCB was received in an earlier run, nothing is cached on Machine  *)
(* A and its exports succeed, every depth frame is computed with the        *)
(* calibration of the module that took it (ensureTofi, ensureTofiIsp).      *)
THEOREM OwnCalibration ==
  ASSUME HasReceived, ~UseCache, ~ExportFails
  PROVE  Spec => []CalibrationIsOwn
<1>1. Init => IndInv
  BY InitInd
<1>2. IndInv /\ [Next]_vars => IndInv'
  BY NextInd
<1>3. IndInv => CalibrationIsOwn
  BY DEF IndInv
<1> QED  BY <1>1, <1>2, <1>3, PTL DEF Spec

(* Whatever the caches and exports do, the TOFI context in use is the one   *)
(* that would be built now (handleCcbFile, handleDealiasData).              *)
THEOREM CurrentTofi == Spec => []TofiIsCurrent
<1>1. Init => TofiIsCurrent
  BY DEF Init, TofiIsCurrent
<1>2. TofiIsCurrent /\ [Next]_vars => TofiIsCurrent'
  <2> SUFFICES ASSUME TofiIsCurrent, [Next]_vars PROVE TofiIsCurrent'
    OBVIOUS
  <2>1. CASE UNCHANGED <<ccbFile, table, tofi>> /\ (wpc' = wpc \/ wpc = "read")
    BY <2>1 DEF TofiIsCurrent, Content
  <2>2. CASE tofi' = NoTofi \/ wpc' \in {"config", "release"}
    BY <2>2 DEF TofiIsCurrent, NoTofi
  <2>3. CASE MachineA \/ Gui \/ WriteCcbFails \/ UNCHANGED vars
    BY <2>1, <2>3 DEF MachineA, Connect, ExportCcb, StartupDealias, ServeStart,
       SendFrame, PowerCycle, LoseConnection, Gui, PrepareConfig, Configure,
       StartCapture, WriteCcbFails, vars, workerVars
  <2>4. CASE Worker /\ ~WriteCcbFails /\ ~Compute
    BY <2>1, <2>2, <2>4 DEF Worker, WriteCcb, NameCcb, ReleaseTofi,
       StoreDealias, DropFrame, TakeFrame, Read, workerVars
  <2> QED  BY <2>3, <2>4, ComputedCurrent DEF Next, Worker
<1> QED  BY <1>1, <1>2, PTL DEF Spec

==============================================================================
