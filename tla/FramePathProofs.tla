--------------------------- MODULE FramePathProofs ---------------------------
(***************************************************************************)
(* SessionConsistent and ShownInOrder of FramePath, for any number of      *)
(* captures, frames, frames in flight and any save limit.                  *)
(*                                                                         *)
(* Every frame has a place in one order: what has been shown, what waits   *)
(* in the queue, what the worker handles, what is in flight, what A sends  *)
(* next, and the captures still asked for.  The invariant says so; a frame *)
(* moves from one station to the one before and overtakes nobody.          *)
(***************************************************************************)
EXTENDS FramePath, TLAPS

Frames == [cap : Nat, id : Nat]

(* f comes before the captures that are asked for and before the next frame *)
(* of the one that runs ...                                                 *)
Behind(f, st, cm, ca, se) ==
  /\ f.cap <= st
  /\ \A i \in 1 .. Len(cm) : cm[i] # 0 => f.cap < cm[i]
  /\ ca # 0 => f.cap < ca \/ (f.cap = ca /\ f.id <= se)

(* ... and before every frame in flight.                                    *)
Ahead(f, w) == \A i \in 1 .. Len(w) : w[i] # Stopped => Older(f, w[i])

Placed(f) == Behind(f, starts, cmds, capture, sent) /\ Ahead(f, wire)

Typed ==
  /\ starts \in Nat /\ capture \in Nat /\ sent \in Nat
  /\ cmds \in Seq(Nat)
  /\ wire \in Seq(Frames)
  /\ wpc \in {"read", "first", "save", "caught", "enqueue"}
  /\ frame \in Frames /\ lastFrame \in Frames
  /\ queue = <<>> \/ \E f \in Frames : queue = <<f>>
  /\ count \in Nat /\ session \in Nat
  /\ files \subseteq Nat \X Nat \X Frames

(* The commands on their way ask for captures in their order. *)
Commands ==
  /\ capture <= starts
  /\ \A i \in 1 .. Len(cmds) :
       cmds[i] # 0 => cmds[i] <= starts /\ capture < cmds[i]
  /\ \A i, j \in 1 .. Len(cmds) :
       i < j /\ cmds[i] # 0 /\ cmds[j] # 0 => cmds[i] < cmds[j]

(* So are the frames in flight, *)
InFlight ==
  /\ \A i \in 1 .. Len(wire) :
       wire[i] # Stopped => Behind(wire[i], starts, cmds, capture, sent)
  /\ \A i, j \in 1 .. Len(wire) :
       i < j /\ wire[i] # Stopped /\ wire[j] # Stopped
         => Older(wire[i], wire[j])

(* the one the worker handles, *)
Handled == wpc # "read" => Placed(frame)

(* the one in the queue, the one shown last, *)
Queued ==
  queue # <<>> =>
    /\ Placed(queue[1]) /\ Older(lastFrame, queue[1])
    /\ wpc # "read" => Older(queue[1], frame)
Displayed ==
  /\ shown = lastFrame
  /\ Placed(lastFrame)
  /\ wpc # "read" => Older(lastFrame, frame)

(* and the saved ones.  An index of an open session is not used yet.        *)
Saved ==
  \A f \in files :
    /\ Placed(f[3])
    /\ wpc \in {"first", "save"} => Older(f[3], frame)
    /\ f[1] <= session
    /\ active /\ wpc # "caught" /\ f[1] = session => f[2] < count

(* The indexes below the count of an open session are used. *)
Used(n) == \A i \in 0 .. n - 1 : \E g \in files : g[1] = session /\ g[2] = i
Filled == active /\ wpc # "caught" => Used(count)

IndInv == /\ Typed /\ Commands /\ InFlight /\ Handled /\ Queued /\ Displayed
          /\ Saved /\ Filled /\ SessionConsistent

------------------------------------------------------------------------------
(* Sequences, at their ends. *)
LEMMA AppendFacts ==
  ASSUME NEW S, NEW s \in Seq(S), NEW e \in S
  PROVE  /\ Append(s, e) \in Seq(S)
         /\ Len(s) \in Nat /\ Len(Append(s, e)) = Len(s) + 1
         /\ \A i \in 1 .. Len(s) : Append(s, e)[i] = s[i]
         /\ Append(s, e)[Len(s) + 1] = e
OBVIOUS

LEMMA TailFacts ==
  ASSUME NEW S, NEW s \in Seq(S), s # <<>>
  PROVE  /\ Head(s) \in S /\ Head(s) = s[1]
         /\ Len(s) \in Nat \ {0} /\ 1 \in 1 .. Len(s)
         /\ Tail(s) \in Seq(S) /\ Len(Tail(s)) = Len(s) - 1
         /\ \A i \in 1 .. Len(Tail(s)) :
              i + 1 \in 1 .. Len(s) /\ Tail(s)[i] = s[i + 1]
OBVIOUS

------------------------------------------------------------------------------
(* What may happen to the commands and the capture. *)
Same == UNCHANGED <<starts, capture, sent, cmds>>
Serves ==
  /\ cmds # <<>> /\ Head(cmds) # 0 /\ capture = 0
  /\ cmds' = Tail(cmds) /\ capture' = Head(cmds) /\ sent' = 0
  /\ starts' = starts
Ends ==
  /\ \/ cmds' = cmds
     \/ cmds # <<>> /\ cmds' = Tail(cmds)
     \/ cmds' = <<>>
  /\ capture' = 0
  /\ UNCHANGED <<starts, sent>>
Counts ==
  /\ capture # 0
  /\ sent' = sent + 1
  /\ UNCHANGED <<starts, capture, cmds>>
Asks ==
  /\ cmds' = Append(cmds, starts + 1)
  /\ starts' = starts + 1
  /\ UNCHANGED <<capture, sent>>
Stops == cmds' = Append(cmds, 0) /\ UNCHANGED <<starts, capture, sent>>

LEMMA CommandCases ==
  ASSUME [Next]_vars
  PROVE  Same \/ Serves \/ Ends \/ Counts \/ Asks \/ Stops
<1> USE DEF Same, Serves, Ends, Counts, Asks, Stops
<1>1. CASE ServeStart
  BY <1>1 DEF ServeStart, guiVars
<1>2. CASE EndCapture
  BY <1>2 DEF EndCapture, guiVars
<1>3. CASE SendFrame
  BY <1>3 DEF SendFrame, guiVars
<1>4. CASE Disconnect
  BY <1>4 DEF Disconnect, guiVars
<1>5. CASE SendStart \/ SendStop
  BY <1>5 DEF SendStart, SendStop
<1>6. CASE Connect \/ Worker \/ UNCHANGED vars
  BY <1>6 DEF Connect, Worker, Read, ReadStopped, Gone, First, SkipSave, Save,
     SaveFails, Caught, Enqueue, vars, linkVars, guiVars
<1>7. CASE Configure \/ StartFlags \/ StopFlags \/ Close \/ GetFrame
  BY <1>7 DEF Configure, StartFlags, StopFlags, Close, GetFrame, linkVars
<1> QED
  BY <1>1, <1>2, <1>3, <1>4, <1>5, <1>6, <1>7 DEF Next, MachineA, Gui

(* Who is before whom does not change: neither between the commands, nor    *)
(* between a frame and what is still to come.                               *)
LEMMA CommandsStep ==
  ASSUME Typed, Commands, [Next]_vars
  PROVE  /\ starts' \in Nat /\ capture' \in Nat /\ sent' \in Nat
         /\ cmds' \in Seq(Nat)
         /\ Commands'
<1> USE DEF Typed, Commands
<1>1. CASE Same
  BY <1>1 DEF Same
<1>2. CASE Serves
  <2>1. /\ cmds' \in Seq(Nat) /\ Len(cmds') = Len(cmds) - 1
        /\ capture' = cmds[1] /\ 1 \in 1 .. Len(cmds)
        /\ \A i \in 1 .. Len(cmds') :
             i + 1 \in 1 .. Len(cmds) /\ cmds'[i] = cmds[i + 1]
    BY <1>2, TailFacts DEF Serves
  <2> QED  BY <1>2, <2>1 DEF Serves
<1>3. CASE Ends
  <2>0. capture' = 0 /\ UNCHANGED <<starts, sent>>
    BY <1>3 DEF Ends
  <2>1. CASE cmds # <<>> /\ cmds' = Tail(cmds)
    <3>1. /\ cmds' \in Seq(Nat) /\ Len(cmds') = Len(cmds) - 1
          /\ \A i \in 1 .. Len(cmds') :
             i + 1 \in 1 .. Len(cmds) /\ cmds'[i] = cmds[i + 1]
      BY <2>1, TailFacts
    <3>2. ASSUME NEW i \in 1 .. Len(cmds'), cmds'[i] # 0
          PROVE  cmds'[i] <= starts' /\ capture' < cmds'[i]
      <4>1. cmds'[i] = cmds[i + 1] /\ i + 1 \in 1 .. Len(cmds)
        BY <3>1
      <4>2. cmds[i + 1] <= starts /\ cmds[i + 1] \in Nat
        BY <3>2, <4>1
      <4> QED  BY <2>0, <3>2, <4>1, <4>2
    <3>3. ASSUME NEW i \in 1 .. Len(cmds'), NEW j \in 1 .. Len(cmds'),
                 i < j, cmds'[i] # 0, cmds'[j] # 0
          PROVE  cmds'[i] < cmds'[j]
      <4>1. /\ cmds'[i] = cmds[i + 1] /\ i + 1 \in 1 .. Len(cmds)
            /\ cmds'[j] = cmds[j + 1] /\ j + 1 \in 1 .. Len(cmds)
        BY <3>1
      <4>2. i + 1 < j + 1
        BY <3>3
      <4> QED  BY <3>3, <4>1, <4>2
    <3> QED  BY <2>0, <3>1, <3>2, <3>3
  <2>2. CASE cmds' = cmds
    BY <2>0, <2>2
  <2>3. CASE cmds' = <<>>
    <3>1. cmds' \in Seq(Nat) /\ Len(cmds') = 0
      BY <2>3
    <3> QED  BY <2>0, <3>1
  <2> QED  BY <1>3, <2>1, <2>2, <2>3 DEF Ends
<1>4. CASE Counts
  BY <1>4 DEF Counts
<1>5. ASSUME NEW e \in Nat, cmds' = Append(cmds, e), starts' \in Nat,
             starts <= starts', UNCHANGED <<capture, sent>>,
             e = 0 \/ (e = starts' /\ starts < e)
      PROVE  /\ starts' \in Nat /\ capture' \in Nat /\ sent' \in Nat
             /\ cmds' \in Seq(Nat)
             /\ Commands'
  <2>1. /\ cmds' \in Seq(Nat) /\ Len(cmds') = Len(cmds) + 1
        /\ \A i \in 1 .. Len(cmds) : cmds'[i] = cmds[i]
        /\ cmds'[Len(cmds) + 1] = e
    BY <1>5, AppendFacts
  <2>2. \A i \in 1 .. Len(cmds') : i \in 1 .. Len(cmds) \/ i = Len(cmds) + 1
    BY <2>1
  <2>3. ASSUME NEW i \in 1 .. Len(cmds'), cmds'[i] # 0
        PROVE  cmds'[i] <= starts' /\ capture' < cmds'[i]
    <3>1. CASE i \in 1 .. Len(cmds)
      BY <1>5, <2>1, <2>3, <3>1
    <3>2. CASE i = Len(cmds) + 1
      <4>1. cmds'[i] = starts' /\ starts < starts'
        BY <1>5, <2>1, <2>3, <3>2
      <4>2. capture' <= starts /\ capture' \in Nat /\ starts \in Nat
        BY <1>5
      <4> HIDE DEF Typed, Commands
      <4> QED  BY <1>5, <4>1, <4>2
    <3> QED  BY <2>2, <3>1, <3>2
  <2>4. ASSUME NEW i \in 1 .. Len(cmds'), NEW j \in 1 .. Len(cmds'),
               i < j, cmds'[i] # 0, cmds'[j] # 0
        PROVE  cmds'[i] < cmds'[j]
    <3>1. i \in 1 .. Len(cmds) /\ cmds'[i] = cmds[i]
      <4>1. Len(cmds) \in Nat
        BY <2>1, AppendFacts
      <4> HIDE DEF Typed, Commands
      <4>2. i # Len(cmds) + 1
        BY <2>2, <2>4, <4>1
      <4> QED  BY <2>1, <2>2, <4>2
    <3>2. CASE j \in 1 .. Len(cmds)
      BY <2>1, <2>4, <3>1, <3>2
    <3>3. CASE j = Len(cmds) + 1
      BY <1>5, <2>1, <2>4, <3>1, <3>3
    <3> QED  BY <2>2, <3>2, <3>3
  <2>5. capture' <= starts'
    BY <1>5
  <2> QED  BY <1>5, <2>1, <2>3, <2>4, <2>5
<1>6. CASE Asks
  BY <1>5, <1>6 DEF Asks
<1>7. CASE Stops
  BY <1>5, <1>7 DEF Stops
<1> QED  BY <1>1, <1>2, <1>3, <1>4, <1>6, <1>7, CommandCases

LEMMA Stays ==
  ASSUME Typed, Commands, [Next]_vars, NEW f \in Frames,
         Behind(f, starts, cmds, capture, sent)
  PROVE  Behind(f, starts', cmds', capture', sent')
<1>0. Same \/ Serves \/ Ends \/ Counts \/ Asks \/ Stops
  BY CommandCases
<1> USE DEF Typed, Frames, Behind
<1>1. CASE Same
  BY <1>1 DEF Same
<1>2. CASE Serves
  <2>1. /\ Len(cmds') = Len(cmds) - 1
        /\ capture' = cmds[1] /\ 1 \in 1 .. Len(cmds) /\ cmds[1] # 0
        /\ \A i \in 1 .. Len(cmds') :
             i + 1 \in 1 .. Len(cmds) /\ cmds'[i] = cmds[i + 1]
    BY <1>2, TailFacts DEF Serves
  <2> QED  BY <1>2, <2>1 DEF Serves
<1>3. CASE Ends
  <2>0. capture' = 0 /\ UNCHANGED <<starts, sent>>
    BY <1>3 DEF Ends
  <2>1. CASE cmds # <<>> /\ cmds' = Tail(cmds)
    <3>1. /\ Len(cmds') = Len(cmds) - 1
          /\ \A i \in 1 .. Len(cmds') :
             i + 1 \in 1 .. Len(cmds) /\ cmds'[i] = cmds[i + 1]
      BY <2>1, TailFacts
    <3> QED  BY <2>0, <3>1
  <2>2. CASE cmds' = cmds
    BY <2>0, <2>2
  <2>3. CASE cmds' = <<>>
    <3>1. cmds' \in Seq(Nat) /\ Len(cmds') = 0
      BY <2>3
    <3> QED  BY <2>0, <3>1
  <2> QED  BY <1>3, <2>1, <2>2, <2>3 DEF Ends
<1>4. CASE Counts
  BY <1>4 DEF Counts
<1>5. ASSUME NEW e \in Nat, cmds' = Append(cmds, e), starts' \in Nat,
             starts <= starts', UNCHANGED <<capture, sent>>,
             e = 0 \/ (e = starts' /\ starts < e)
      PROVE  Behind(f, starts', cmds', capture', sent')
  <2>1. /\ Len(cmds') = Len(cmds) + 1
        /\ \A i \in 1 .. Len(cmds) : cmds'[i] = cmds[i]
        /\ cmds'[Len(cmds) + 1] = e
    BY <1>5, AppendFacts
  <2>2. \A i \in 1 .. Len(cmds') : i \in 1 .. Len(cmds) \/ i = Len(cmds) + 1
    <3>1. Len(cmds) \in Nat
      BY <1>5, AppendFacts
    <3> HIDE DEF Typed, Behind, Frames
    <3> QED  BY <2>1, <3>1
  <2>3. f.cap <= starts /\ f.cap <= starts' /\ f.cap \in Nat
    BY <1>5
  <2>4. ASSUME NEW i \in 1 .. Len(cmds'), cmds'[i] # 0
        PROVE  f.cap < cmds'[i]
    <3>1. CASE i \in 1 .. Len(cmds)
      BY <2>1, <2>4, <3>1
    <3>2. CASE i = Len(cmds) + 1
      BY <1>5, <2>1, <2>3, <2>4, <3>2
    <3> QED  BY <2>2, <3>1, <3>2
  <2>5. capture' # 0 =>
          f.cap < capture' \/ (f.cap = capture' /\ f.id <= sent')
    BY <1>5
  <2> QED  BY <2>3, <2>4, <2>5
<1>6. CASE Asks
  <2>1. /\ cmds' = Append(cmds, starts + 1) /\ starts + 1 \in Nat
        /\ starts' = starts + 1 /\ starts' \in Nat /\ starts <= starts'
        /\ UNCHANGED <<capture, sent>>
    BY <1>6 DEF Asks
  <2>2. starts + 1 = starts' /\ starts < starts + 1
    BY <2>1
  <2> HIDE DEF Typed, Frames, Behind
  <2> QED  BY <1>5, <2>1, <2>2
<1>7. CASE Stops
  <2>1. /\ cmds' = Append(cmds, 0) /\ 0 \in Nat
        /\ starts' = starts /\ starts' \in Nat /\ starts <= starts'
        /\ UNCHANGED <<capture, sent>>
    BY <1>7 DEF Stops
  <2>2. starts' = starts
    BY <2>1
  <2> HIDE DEF Typed, Frames, Behind
  <2> QED  BY <1>5, <2>1, <2>2
<1> HIDE DEF Behind, Frames, Typed
<1> QED  BY <1>0, <1>1, <1>2, <1>3, <1>4, <1>6, <1>7

------------------------------------------------------------------------------
(* What may happen to the frames in flight. *)
Next1 == [cap |-> capture, id |-> sent + 1]

LEMMA WireCases ==
  ASSUME [Next]_vars
  PROVE  \/ wire' = wire \/ wire' = <<>> \/ wire' = Append(wire, Stopped)
         \/ wire # <<>> /\ wire' = Tail(wire)
         \/ wire' = Append(wire, Next1) /\ Counts
<1>1. CASE ServeStart \/ EndCapture \/ Disconnect \/ Connect
  BY <1>1 DEF ServeStart, EndCapture, Disconnect, Connect
<1>2. CASE SendFrame
  BY <1>2 DEF SendFrame, guiVars, Next1, Counts
<1>3. CASE Worker \/ UNCHANGED vars
  BY <1>3 DEF Worker, Read, ReadStopped, Gone, First, SkipSave, Save,
     SaveFails, Caught, Enqueue, vars, linkVars
<1>4. CASE Gui
  BY <1>4 DEF Gui, Configure, SendStart, StartFlags, SendStop, StopFlags,
     Close, GetFrame, linkVars
<1> QED  BY <1>1, <1>2, <1>3, <1>4 DEF Next, MachineA

LEMMA AheadStays ==
  ASSUME Typed, [Next]_vars, NEW f \in Frames, Placed(f)
  PROVE  Ahead(f, wire')
<1> USE DEF Ahead, Placed
<1>0. wire \in Seq(Frames)
  BY DEF Typed
<1>1. CASE wire # <<>> /\ wire' = Tail(wire)
  <2>1. \A i \in 1 .. Len(wire') :
          i + 1 \in 1 .. Len(wire) /\ wire'[i] = wire[i + 1]
    BY <1>0, <1>1, TailFacts
  <2> QED  BY <2>1
<1>2. ASSUME NEW e \in Frames, wire' = Append(wire, e),
             e = Stopped \/ Older(f, e)
      PROVE  Ahead(f, wire')
  <2>1. /\ Len(wire') = Len(wire) + 1 /\ Len(wire) \in Nat
        /\ \A i \in 1 .. Len(wire) : wire'[i] = wire[i]
        /\ wire'[Len(wire) + 1] = e
    BY <1>0, <1>2, AppendFacts
  <2>2. \A i \in 1 .. Len(wire') : i \in 1 .. Len(wire) \/ i = Len(wire) + 1
    BY <2>1
  <2> QED  BY <1>2, <2>1, <2>2
<1>3. CASE wire' = Append(wire, Stopped)
  <2>1. Stopped \in Frames
    BY DEF Stopped, NoFrame, Frames
  <2> QED  BY <1>2, <1>3, <2>1
<1>4. CASE wire' = Append(wire, Next1) /\ Counts
  <2>1. Next1 \in Frames /\ Next1.cap = capture /\ Next1.id = sent + 1
    BY DEF Next1, Frames, Typed
  <2>2. Older(f, Next1)
    BY <1>4, <2>1 DEF Older, Behind, Counts, Typed, Frames
  <2> QED  BY <1>2, <1>4, <2>1, <2>2
<1>5. CASE wire' = wire \/ wire' = <<>>
  BY <1>5
<1> QED  BY <1>1, <1>3, <1>4, <1>5, WireCases

(* So every frame keeps its place. *)
LEMMA PlaceStays ==
  ASSUME Typed, Commands, [Next]_vars, NEW f \in Frames, Placed(f)
  PROVE  /\ Behind(f, starts', cmds', capture', sent')
         /\ Ahead(f, wire')
BY Stays, AheadStays DEF Placed

LEMMA InFlightStep ==
  ASSUME Typed, Commands, InFlight, [Next]_vars
  PROVE  wire' \in Seq(Frames) /\ InFlight'
<1> DEFINE B(f) == Behind(f, starts', cmds', capture', sent')
<1>0. wire \in Seq(Frames)
  BY DEF Typed
<1>1. \A i \in 1 .. Len(wire) : wire[i] # Stopped => B(wire[i])
  <2> SUFFICES ASSUME NEW i \in 1 .. Len(wire), wire[i] # Stopped
               PROVE  B(wire[i])
    OBVIOUS
  <2>1. wire[i] \in Frames
    BY <1>0
  <2> QED  BY <2>1, Stays DEF InFlight
<1>2. ASSUME NEW e \in Frames, wire' = Append(wire, e),
             \/ e = Stopped
             \/ /\ B(e)
                /\ \A i \in 1 .. Len(wire) :
                     wire[i] # Stopped => Older(wire[i], e)
      PROVE  wire' \in Seq(Frames) /\ InFlight'
  <2> HIDE DEF B
  <2>1. /\ Len(wire') = Len(wire) + 1 /\ Len(wire) \in Nat
        /\ \A i \in 1 .. Len(wire) : wire'[i] = wire[i]
        /\ wire'[Len(wire) + 1] = e /\ wire' \in Seq(Frames)
    BY <1>0, <1>2, AppendFacts
  <2>2. \A i \in 1 .. Len(wire') : i \in 1 .. Len(wire) \/ i = Len(wire) + 1
    BY <2>1
  <2>3. \A i \in 1 .. Len(wire') : wire'[i] # Stopped => B(wire'[i])
    BY <1>1, <1>2, <2>1, <2>2
  <2>4. ASSUME NEW i \in 1 .. Len(wire'), NEW j \in 1 .. Len(wire'), i < j,
               wire'[i] # Stopped, wire'[j] # Stopped
        PROVE  Older(wire'[i], wire'[j])
    <3>1. i \in 1 .. Len(wire)
      BY <2>1, <2>2, <2>4
    <3>2. CASE j \in 1 .. Len(wire)
      BY <2>1, <2>4, <3>1, <3>2 DEF InFlight
    <3>3. CASE j = Len(wire) + 1
      BY <1>2, <2>1, <2>4, <3>1, <3>3
    <3> QED  BY <2>2, <3>2, <3>3
  <2> QED  BY <2>1, <2>3, <2>4 DEF InFlight, B
<1>3. CASE wire # <<>> /\ wire' = Tail(wire)
  <2> HIDE DEF B
  <2>1. /\ wire' \in Seq(Frames)
        /\ \A i \in 1 .. Len(wire') :
             i + 1 \in 1 .. Len(wire) /\ wire'[i] = wire[i + 1]
    BY <1>0, <1>3, TailFacts
  <2>2. \A i \in 1 .. Len(wire') : wire'[i] # Stopped => B(wire'[i])
    BY <1>1, <2>1
  <2>3. ASSUME NEW i \in 1 .. Len(wire'), NEW j \in 1 .. Len(wire'), i < j,
               wire'[i] # Stopped, wire'[j] # Stopped
        PROVE  Older(wire'[i], wire'[j])
    <3>1. /\ i + 1 \in 1 .. Len(wire) /\ wire'[i] = wire[i + 1]
          /\ j + 1 \in 1 .. Len(wire) /\ wire'[j] = wire[j + 1]
      BY <2>1
    <3>2. i + 1 < j + 1
      BY <2>3
    <3> QED  BY <2>3, <3>1, <3>2 DEF InFlight
  <2> QED  BY <2>1, <2>2, <2>3 DEF InFlight, B
<1>4. CASE wire' = Append(wire, Stopped)
  <2>1. Stopped \in Frames
    BY DEF Stopped, NoFrame, Frames
  <2> QED  BY <1>2, <1>4, <2>1
<1>5. CASE wire' = Append(wire, Next1) /\ Counts
  <2>1. Next1 \in Frames /\ Next1.cap = capture /\ Next1.id = sent + 1
    BY DEF Next1, Frames, Typed
  <2>2. B(Next1)
    BY <1>5, <2>1 DEF Behind, Counts, Typed, Commands
  <2>3. \A i \in 1 .. Len(wire) : wire[i] # Stopped => Older(wire[i], Next1)
    <3> SUFFICES ASSUME NEW i \in 1 .. Len(wire), wire[i] # Stopped
                 PROVE  Older(wire[i], Next1)
      OBVIOUS
    <3>1. wire[i] \in Frames /\ Behind(wire[i], starts, cmds, capture, sent)
      BY <1>0 DEF InFlight
    <3>2. capture # 0 /\ capture \in Nat /\ sent \in Nat
      BY <1>5 DEF Counts, Typed
    <3>3. \/ wire[i].cap < capture
          \/ wire[i].cap = capture /\ wire[i].id <= sent
      BY <3>1, <3>2 DEF Behind
    <3> QED  BY <2>1, <3>1, <3>2, <3>3 DEF Older, Frames
  <2> HIDE DEF B
  <2> QED  BY <1>2, <1>5, <2>1, <2>2, <2>3
<1>6. CASE wire' = wire
  BY <1>0, <1>1, <1>6 DEF InFlight
<1>7. CASE wire' = <<>>
  <2>1. wire' \in Seq(Frames) /\ Len(wire') = 0
    BY <1>7
  <2> QED  BY <2>1 DEF InFlight
<1> QED  BY <1>3, <1>4, <1>5, <1>6, <1>7, WireCases

------------------------------------------------------------------------------
(* What holds after every step, whatever it does with the frames of B. *)
Kept(f) == Behind(f, starts', cmds', capture', sent') /\ Ahead(f, wire')
LinkTyped ==
  /\ starts \in Nat /\ capture \in Nat /\ sent \in Nat
  /\ cmds \in Seq(Nat) /\ wire \in Seq(Frames)

LEMMA LinkStep ==
  ASSUME IndInv, [Next]_vars
  PROVE  /\ LinkTyped' /\ Commands' /\ InFlight'
         /\ \A f \in Frames : Placed(f) => Kept(f)
BY CommandsStep, InFlightStep, PlaceStays DEF IndInv, LinkTyped, Kept

(* The frames of B and where they are. *)
Stations == <<wpc, frame, queue, lastFrame, shown>>

(* What is saved and displayed stays where it is. *)
LEMMA SavedStays ==
  ASSUME IndInv, [Next]_vars, UNCHANGED <<session, files, rows>>,
         active' => active /\ count' = count /\ (wpc = "caught" => wpc' = wpc),
         wpc' \in {"first", "save"} =>
           frame' = frame /\ wpc \in {"first", "save"}
  PROVE  Saved' /\ Filled' /\ SessionConsistent'
<1>1. SessionConsistent'
  BY DEF IndInv, SessionConsistent
<1>2. Saved'
  <2> SUFFICES ASSUME NEW f \in files
               PROVE  /\ Kept(f[3])
                      /\ wpc' \in {"first", "save"} => Older(f[3], frame')
                      /\ f[1] <= session
                      /\ active' /\ wpc' # "caught" /\ f[1] = session
                           => f[2] < count'
    BY DEF Saved, Placed, Kept
  <2>1. f[3] \in Frames
    BY DEF IndInv, Typed
  <2> QED  BY <2>1, LinkStep DEF IndInv, Saved
<1>3. Filled'
  BY DEF IndInv, Filled, Used
<1> QED  BY <1>1, <1>2, <1>3

LEMMA QueueStays ==
  ASSUME IndInv, [Next]_vars, UNCHANGED <<queue, lastFrame, shown>>,
         wpc' # "read" => wpc # "read" /\ frame' = frame
  PROVE  Handled' /\ Queued' /\ Displayed'
<1>1. queue # <<>> => queue[1] \in Frames
  BY DEF IndInv, Typed
<1>2. Queued' /\ Displayed'
  BY <1>1, LinkStep DEF IndInv, Typed, Queued, Displayed, Placed, Kept
<1>3. Handled'
  BY LinkStep DEF IndInv, Typed, Handled, Placed, Kept
<1> QED  BY <1>2, <1>3

LEMMA QuietInd ==
  ASSUME IndInv, [Next]_vars, UNCHANGED Stations,
         UNCHANGED <<session, files, rows>>,
         active' => active /\ count' = count, count' \in Nat
  PROVE  IndInv'
<1>1. Typed'
  BY LinkStep DEF IndInv, Typed, LinkTyped, Stations
<1>2. Saved' /\ Filled' /\ SessionConsistent'
  BY SavedStays DEF Stations
<1>3. Handled' /\ Queued' /\ Displayed'
  BY QueueStays DEF Stations
<1> QED  BY <1>1, <1>2, <1>3, LinkStep DEF IndInv

(* The worker takes the first frame in flight. *)
LEMMA ReadInd ==
  ASSUME IndInv, Read, frame' = Head(wire), wpc' = "first"
  PROVE  IndInv'
<1>1. /\ wire \in Seq(Frames) /\ wire # <<>> /\ wire[1] # Stopped
      /\ 1 \in 1 .. Len(wire)
      /\ frame' = wire[1] /\ wire[1] \in Frames
      /\ wire' = Tail(wire)
      /\ \A i \in 1 .. Len(wire') :
           i + 1 \in 1 .. Len(wire) /\ wire'[i] = wire[i + 1]
  BY TailFacts DEF IndInv, Typed, Read
<1>2. /\ UNCHANGED <<cmds, capture, sent, starts, queue, lastFrame, shown>>
      /\ UNCHANGED <<active, count, session, files, rows>>
      /\ [Next]_vars /\ wpc = "read"
  BY DEF Read, saveVars, guiVars, Next, Worker
<1>3. Typed'
  BY <1>1, <1>2, LinkStep DEF IndInv, Typed, LinkTyped
<1>4. Kept(wire[1])
  <2>1. Behind(wire[1], starts, cmds, capture, sent)
    BY <1>1 DEF IndInv, InFlight
  <2>2. Ahead(wire[1], wire')
    <3> SUFFICES ASSUME NEW i \in 1 .. Len(wire'), wire'[i] # Stopped
                 PROVE  Older(wire[1], wire'[i])
      BY DEF Ahead
    <3>1. i + 1 \in 1 .. Len(wire) /\ wire'[i] = wire[i + 1] /\ 1 < i + 1
      BY <1>1
    <3> QED  BY <1>1, <3>1 DEF IndInv, InFlight
  <2> QED  BY <1>2, <2>1, <2>2 DEF Kept
<1>5. Handled'
  BY <1>1, <1>4 DEF Handled, Placed, Kept
<1>6. queue # <<>> => queue[1] \in Frames
  BY DEF IndInv, Typed
<1>7. \A f \in Frames : Placed(f) => Kept(f) /\ Older(f, wire[1])
  BY <1>1, <1>2, LinkStep DEF Placed, Ahead
<1>8. Queued' /\ Displayed'
  BY <1>1, <1>2, <1>6, <1>7
  DEF IndInv, Typed, Queued, Displayed, Placed, Kept
<1>9. Saved'
  <2> SUFFICES ASSUME NEW f \in files
               PROVE  /\ Kept(f[3]) /\ Older(f[3], wire[1])
                      /\ f[1] <= session
                      /\ active /\ f[1] = session => f[2] < count
    BY <1>1, <1>2 DEF Saved, Placed, Kept
  <2>1. f[3] \in Frames
    BY DEF IndInv, Typed
  <2> QED  BY <1>2, <1>7, <2>1 DEF IndInv, Saved
<1>10. SessionConsistent'
  BY <1>2 DEF IndInv, SessionConsistent
<1>11. Filled'
  BY <1>1, <1>2 DEF IndInv, Filled, Used, Read
<1> QED
  BY <1>2, <1>3, <1>5, <1>8, <1>9, <1>10, <1>11, LinkStep DEF IndInv

(* What holds of an index that is about to be used. *)
LEMMA IndexFree ==
  ASSUME IndInv, wpc = "save"
  PROVE  /\ Index \in Nat /\ Session \in Nat /\ Session >= session
         /\ frame \in Frames
         /\ \A f \in files : /\ f[1] = Session => f[2] < Index
                             /\ f[1] <= Session
                             /\ Older(f[3], frame)
                             /\ f[1] \in Nat /\ f[2] \in Nat
         /\ \A i \in 0 .. Index - 1 :
              \E g \in files : g[1] = Session /\ g[2] = i
<1>1. /\ Index \in Nat /\ Session \in Nat /\ Session >= session
      /\ frame \in Frames
      /\ \A f \in files : /\ f[1] = Session => f[2] < Index
                          /\ f[1] <= Session
                          /\ Older(f[3], frame)
                          /\ f[1] \in Nat /\ f[2] \in Nat
  BY DEF IndInv, Typed, Saved, Index, Session
<1>2. ASSUME NEW i \in 0 .. Index - 1
      PROVE  \E g \in files : g[1] = Session /\ g[2] = i
  <2>1. CASE active
    BY <2>1 DEF IndInv, Filled, Used, Index, Session
  <2>2. CASE ~active
    BY <2>2 DEF Index
  <2> QED  BY <2>1, <2>2
<1> QED  BY <1>1, <1>2

(* A file is added, perhaps with its line in frames.csv. *)
LEMMA SaveInd ==
  ASSUME IndInv, Save \/ SaveFails
  PROVE  IndInv'
<1> DEFINE new == <<Session, Index, frame>>
<1>1. /\ UNCHANGED <<frame, queue, lastFrame, shown>>
      /\ UNCHANGED <<starts, cmds, capture, sent, wire>>
      /\ [Next]_vars /\ wpc = "save" /\ wpc' \in {"caught", "enqueue"}
  BY DEF Save, SaveFails, linkVars, guiVars, Next, Worker
<1>2. /\ Index \in Nat /\ Session \in Nat /\ Session >= session
      /\ frame \in Frames
      /\ \A f \in files : /\ f[1] = Session => f[2] < Index
                          /\ f[1] <= Session
                          /\ Older(f[3], frame)
                          /\ f[1] \in Nat /\ f[2] \in Nat
      /\ \A i \in 0 .. Index - 1 :
           \E g \in files : g[1] = Session /\ g[2] = i
  BY <1>1, IndexFree
<1>3. /\ files' \in {files, files \cup {new}}
      /\ rows' = rows \/ (rows' = rows \cup {new} /\ files' = files \cup {new})
      /\ \/ /\ UNCHANGED <<session, files, rows, count, active>>
            /\ wpc' = "caught"
         \/ session' = Session /\ count' = Index /\ wpc' = "caught"
         \/ /\ session' = Session /\ count' = Index + 1 /\ wpc' = "enqueue"
            /\ files' = files \cup {new}
  BY DEF Save, SaveFails, saveVars
<1>4. new \in Nat \X Nat \X Frames
      /\ new[1] = Session /\ new[2] = Index /\ new[3] = frame
  BY <1>2
<1> HIDE DEF new
<1>5. Typed'
  BY <1>1, <1>2, <1>3, <1>4, LinkStep DEF IndInv, Typed, LinkTyped
<1>6. Handled' /\ Queued' /\ Displayed'
  BY <1>1, QueueStays
<1>7. Saved'
  <2>1. \A f \in Frames : Placed(f) => Placed(f)'
    BY <1>1 DEF Placed
  <2>2. Placed(frame)
    BY <1>1 DEF IndInv, Handled
  <2> SUFFICES ASSUME NEW f \in files'
               PROVE  /\ Kept(f[3]) /\ f[1] <= session'
                      /\ active' /\ wpc' # "caught" /\ f[1] = session'
                           => f[2] < count'
    BY <1>1 DEF Saved, Placed, Kept
  <2>3. CASE f = new
    BY <1>1, <1>2, <1>3, <1>4, <2>2, <2>3, LinkStep
  <2>4. CASE f \in files
    <3>1. f[3] \in Frames /\ Placed(f[3]) /\ f[1] <= session
      BY <2>4 DEF IndInv, Typed, Saved
    <3> QED  BY <1>1, <1>2, <1>3, <2>4, <3>1, LinkStep DEF IndInv, Typed
  <2> QED  BY <1>3, <2>3, <2>4
<1>8. SessionConsistent'
  <2>0. SessionConsistent
    BY DEF IndInv
  <2>1. ASSUME NEW f \in files', NEW g \in files', f[1] = g[1], f[2] = g[2]
        PROVE  f = g
    BY <1>2, <1>3, <1>4, <2>0, <2>1 DEF SessionConsistent
  <2>2. rows' \subseteq files'
    BY <1>3, <2>0 DEF SessionConsistent
  <2>3. ASSUME NEW f \in files', NEW g \in files', f[1] = g[1], f[2] < g[2]
        PROVE  Older(f[3], g[3])
    <3>1. f \in files \/ f = new
      BY <1>3
    <3>2. g \in files \/ g = new
      BY <1>3
    <3> QED  BY <1>2, <1>4, <2>0, <2>3, <3>1, <3>2 DEF SessionConsistent
  <2>4. ASSUME NEW f \in files', NEW i \in 0 .. f[2] - 1
        PROVE  \E g \in files' : g[1] = f[1] /\ g[2] = i
    <3>1. CASE f = new
      BY <1>2, <1>3, <1>4, <3>1
    <3>2. CASE f \in files
      BY <1>3, <2>0, <3>2 DEF SessionConsistent
    <3> QED  BY <1>3, <3>1, <3>2
  <2> QED  BY <2>1, <2>2, <2>3, <2>4 DEF SessionConsistent
<1>9. Filled'
  <2> SUFFICES ASSUME wpc' # "caught", NEW i \in 0 .. count' - 1
               PROVE  \E g \in files' : g[1] = session' /\ g[2] = i
    BY DEF Filled, Used
  <2>1. session' = Session /\ count' = Index + 1 /\ files' = files \cup {new}
    BY <1>3
  <2>2. CASE i = Index
    BY <1>4, <2>1, <2>2
  <2>3. CASE i \in 0 .. Index - 1
    BY <1>2, <2>1, <2>3
  <2> QED  BY <1>2, <2>1, <2>2, <2>3
<1> QED  BY <1>1, <1>5, <1>6, <1>7, <1>8, <1>9, LinkStep DEF IndInv

(* The worker hands the frame over. *)
LEMMA EnqueueInd ==
  ASSUME IndInv, Enqueue
  PROVE  IndInv'
<1>1. /\ UNCHANGED <<lastFrame, shown, starts, cmds, capture, sent, wire>>
      /\ UNCHANGED <<active, count, session, files, rows>>
      /\ [Next]_vars /\ wpc = "enqueue" /\ wpc' = "read"
      /\ queue' \in {<<frame>>, queue} /\ frame' = NoFrame
  BY DEF Enqueue, linkVars, saveVars, guiVars, Next, Worker
<1>2. /\ frame \in Frames /\ Kept(frame) /\ Older(lastFrame, frame)
      /\ NoFrame \in Frames
  BY <1>1, LinkStep DEF IndInv, Typed, Handled, Displayed, NoFrame, Frames
<1>3. Typed'
  BY <1>1, <1>2, LinkStep DEF IndInv, Typed, LinkTyped
<1>4. Saved' /\ Filled' /\ SessionConsistent'
  BY <1>1, SavedStays
<1>5. Queued' /\ Handled' /\ Displayed'
  <2>1. CASE queue' = queue
    BY <1>1, <2>1, QueueStays
  <2>2. CASE queue' = <<frame>>
    <3>1. queue'[1] = frame
      BY <2>2
    <3>2. Displayed'
      BY <1>1, LinkStep DEF IndInv, Typed, Displayed, Placed, Kept
    <3> QED  BY <1>1, <1>2, <3>1, <3>2 DEF Queued, Handled, Placed, Kept
  <2> QED  BY <1>1, <2>1, <2>2
<1> QED  BY <1>1, <1>3, <1>4, <1>5, LinkStep DEF IndInv

(* The GUI shows the frame of the queue. *)
LEMMA GetFrameInd ==
  ASSUME IndInv, GetFrame
  PROVE  IndInv'
<1>1. /\ UNCHANGED <<wpc, frame, starts, cmds, capture, sent, wire>>
      /\ UNCHANGED <<active, count, session, files, rows>>
      /\ [Next]_vars
  BY DEF GetFrame, linkVars, saveVars, Next, Gui
<1>2. CASE queue = <<>>
  <2>1. UNCHANGED <<queue, lastFrame, shown>>
    BY <1>2 DEF GetFrame, IndInv, Displayed
  <2> QED  BY <1>1, <2>1, QuietInd DEF Stations, IndInv, Typed
<1>3. CASE queue # <<>>
  <2>1. /\ queue' = <<>> /\ lastFrame' = queue[1] /\ shown' = queue[1]
        /\ queue[1] \in Frames /\ Kept(queue[1])
        /\ wpc # "read" => Older(queue[1], frame)
    BY <1>3, <1>1, LinkStep DEF GetFrame, IndInv, Typed, Queued
  <2>2. Typed'
    BY <1>1, <2>1, LinkStep DEF IndInv, Typed, LinkTyped
  <2>3. Saved' /\ Filled' /\ SessionConsistent'
    BY <1>1, SavedStays
  <2>4. Handled' /\ Queued' /\ Displayed'
    BY <1>1, <2>1, LinkStep
    DEF IndInv, Typed, Handled, Queued, Displayed, Placed, Kept
  <2> QED  BY <1>1, <2>2, <2>3, <2>4, LinkStep DEF IndInv
<1> QED  BY <1>2, <1>3

LEMMA StepInd ==
  ASSUME IndInv, [Next]_vars
  PROVE  IndInv'
<1>0. count \in Nat /\ wpc \in {"read", "first", "save", "caught", "enqueue"}
  BY DEF IndInv, Typed
<1>1. CASE MachineA \/ ReadStopped \/ Gone \/ UNCHANGED vars
  BY <1>0, <1>1, QuietInd
  DEF MachineA, Connect, ServeStart, EndCapture, SendFrame, Disconnect,
      ReadStopped, Gone, vars, linkVars, saveVars, guiVars, Stations
<1>2. CASE \/ Configure \/ SendStart \/ StartFlags
           \/ SendStop \/ StopFlags \/ Close
  BY <1>0, <1>2, QuietInd
  DEF Configure, SendStart, StartFlags, SendStop, StopFlags, Close,
      CloseSession, linkVars, saveVars, guiVars, Stations
<1>3. CASE Read
  <2>1. CASE UNCHANGED <<frame, wpc>>
    BY <1>0, <1>3, <2>1, QuietInd DEF Read, saveVars, guiVars, Stations
  <2>2. CASE frame' = Head(wire) /\ wpc' = "first"
    BY <1>3, <2>2, ReadInd
  <2> QED  BY <1>3, <2>1, <2>2 DEF Read
<1>4. CASE First \/ SkipSave \/ Caught
  <2>1. /\ UNCHANGED <<frame, queue, lastFrame, shown, session, files, rows>>
        /\ UNCHANGED <<starts, cmds, capture, sent, wire>>
        /\ wpc \in {"first", "save", "caught"}
        /\ wpc' \in {"save", "enqueue"}
        /\ wpc' = "save" => wpc = "first"
        /\ active' => active /\ wpc # "caught"
        /\ count' = count
    BY <1>4 DEF First, SkipSave, Caught, linkVars, saveVars, guiVars
  <2>2. Typed'
    BY <1>0, <2>1, LinkStep DEF IndInv, Typed, LinkTyped
  <2>3. Saved' /\ Filled' /\ SessionConsistent'
    BY <2>1, SavedStays
  <2>4. Handled' /\ Queued' /\ Displayed'
    BY <2>1, QueueStays
  <2> QED  BY <2>2, <2>3, <2>4, LinkStep DEF IndInv
<1>5. CASE Save \/ SaveFails
  BY <1>5, SaveInd
<1>6. CASE Enqueue
  BY <1>6, EnqueueInd
<1>7. CASE GetFrame
  BY <1>7, GetFrameInd
<1> QED  BY <1>1, <1>2, <1>3, <1>4, <1>5, <1>6, <1>7 DEF Next, Worker, Gui

LEMMA InitInd == Init => IndInv
<1> SUFFICES ASSUME Init PROVE IndInv
  OBVIOUS
<1>1. Typed
  BY DEF Init, Typed, NoFrame, Frames
<1>2. Commands /\ InFlight /\ Handled /\ Queued /\ Saved /\ Filled
  BY DEF Init, Commands, InFlight, Handled, Queued, Saved, Filled
<1>3. Displayed /\ SessionConsistent
  BY DEF Init, Displayed, SessionConsistent, Placed, Behind, Ahead, NoFrame
<1> QED  BY <1>1, <1>2, <1>3 DEF IndInv

LEMMA Invariance == Spec => []IndInv
BY InitInd, StepInd, PTL DEF Spec

(* Closing a save session at any point of a save, and saves that fail       *)
(* half-way, neither reuse nor skip an index, and the files of a session    *)
(* are numbered in the order the frames were taken                          *)
(* (saveProcessedFrameSnapshotIfEnabled, closeProcessedFrameSaveSession),   *)
(* for any save limit.                                                      *)
THEOREM SessionsConsistent == Spec => []SessionConsistent
BY Invariance, PTL DEF IndInv

(* getFrame never returns an earlier frame than the one before, for any     *)
(* number of captures that stops, mode changes and reconnects separate.     *)
THEOREM DisplayInOrder == Spec => ShownInOrder
<1>1. IndInv /\ [Next]_vars
        => [shown' = shown \/ Older(shown, shown')]_vars
  <2> SUFFICES ASSUME IndInv, [Next]_vars
               PROVE  shown' = shown \/ Older(shown, shown')
    OBVIOUS
  <2>1. CASE GetFrame
    BY <2>1 DEF GetFrame, IndInv, Displayed, Queued, Typed
  <2>2. CASE ~GetFrame
    BY <2>2 DEF Next, MachineA, Connect, ServeStart, EndCapture, SendFrame,
       Disconnect, Worker, Read, ReadStopped, Gone, First, SkipSave, Save,
       SaveFails, Caught, Enqueue, Gui, Configure, SendStart, StartFlags,
       SendStop, StopFlags, Close, vars, guiVars
  <2> QED  BY <2>1, <2>2
<1> QED  BY <1>1, Invariance, PTL DEF Spec, ShownInOrder

==============================================================================
