---------------------------- MODULE DisplayProofs ----------------------------
(***************************************************************************)
(* The barrier of Display, proved for any finite set of images.  The       *)
(* argument counts: the workers that still owe a drawing (Pending) and the *)
(* count at the barrier always add up to numOfThreads, so the GUI passes   *)
(* only when nobody owes one.                                              *)
(***************************************************************************)
EXTENDS Display, FiniteSetTheorems, TLAPS

(* The workers that still have to draw or to count the published frame. *)
Drawing == {w \in Images : pc[w] \in {"draw", "count"}}
Pending == available \cup Drawing

Waiting == gpc \in {"notify", "barrier", "blocked"}

(* The types the argument needs. *)
Typed ==
  /\ available \subseteq Images
  /\ shown \subseteq Images
  /\ numOfThreads \in Nat
  /\ waitKeyBarrier \in Nat
  /\ pc = [w \in Images |-> pc[w]]
  /\ drawn = [w \in Images |-> drawn[w]]

(* What is owed and what is counted add up. *)
Balance ==
  /\ Waiting => /\ capturedFrame # 0
                /\ waitKeyBarrier + Cardinality(Pending) = numOfThreads
  /\ ~Waiting => Pending = {} /\ waitKeyBarrier = 0
  /\ gpc = "publish" => capturedFrame # 0

(* A worker that draws has cleared its flag. *)
FlagCleared == available \cap Drawing = {}

(* Whoever is not about to draw has drawn the published frame. *)
DrawnOrDue ==
  (Waiting \/ gpc = "idle") /\ capturedFrame # 0 =>
    \A w \in shown : \/ w \in available
                     \/ pc[w] = "draw"
                     \/ drawn[w] = capturedFrame

IndInv == Typed /\ Balance /\ FlagCleared /\ DrawnOrDue

------------------------------------------------------------------------------
(* Workers and images are finitely many, so what is pending can be counted. *)
LEMMA PendingFinite ==
  ASSUME Typed
  PROVE  /\ Pending \subseteq Images
         /\ IsFiniteSet(Pending)
         /\ Cardinality(Pending) \in Nat
<1>1. Pending \subseteq Images
  BY DEF Typed, Pending, Drawing
<1>2. IsFiniteSet(Pending)
  BY <1>1, FS_Subset, DisplayAssumption
<1> QED
  BY <1>1, <1>2, FS_CardinalityType

(* What adds nothing is zero. *)
LEMMA NothingAdded ==
  ASSUME NEW m \in Nat, NEW n \in Nat, m + n = m
  PROVE  n = 0
OBVIOUS

(* A new view satisfies the invariant. *)
LEMMA InitInd == Init => IndInv
<1> SUFFICES ASSUME Init PROVE IndInv
  OBVIOUS
<1>1. Typed
  BY DEF Init, Typed
<1>2. Pending = {}
  BY DEF Init, Pending, Drawing
<1> QED
  BY <1>1, <1>2 DEF Init, IndInv, Balance, FlagCleared, DrawnOrDue, Waiting,
                    Pending

(* A step that leaves flags, barrier and the workers' debts alone and keeps *)
(* the GUI on its side of the barrier keeps the balance.                    *)
LEMMA SameBalance ==
  ASSUME Balance, FlagCleared,
         Pending' = Pending, (available \cap Drawing)' = {},
         waitKeyBarrier' = waitKeyBarrier, numOfThreads' = numOfThreads,
         Waiting' <=> Waiting, Waiting => capturedFrame' # 0,
         gpc' = "publish" => capturedFrame' # 0
  PROVE  (Balance /\ FlagCleared)'
BY DEF Balance, FlagCleared

(* A step of the GUI preserves the invariant. *)
LEMMA GuiStep ==
  ASSUME IndInv, Gui
  PROVE  IndInv'
<1> USE DEF IndInv
<1>1. CASE GetFrame \/ StopPlay \/ Destroy
  <2>1. Typed'
    BY <1>1 DEF GetFrame, StopPlay, Destroy, shared, Typed
  <2>2. ~Waiting /\ ~Waiting'
    BY <1>1 DEF GetFrame, StopPlay, Destroy, Waiting
  <2>3. Pending' = Pending /\ (available \cap Drawing)' = {}
    BY <1>1 DEF GetFrame, StopPlay, Destroy, shared, Pending, Drawing,
                FlagCleared
  <2>4. (Balance /\ FlagCleared)'
    BY <1>1, <2>2, <2>3, SameBalance DEF GetFrame, StopPlay, Destroy, shared
  <2>5. DrawnOrDue'
    BY <1>1 DEF GetFrame, StopPlay, Destroy, DrawnOrDue, Waiting
  <2> QED
    BY <2>1, <2>4, <2>5
<1>2. CASE Publish
  <2>1. Drawing = {} /\ Drawing' = {} /\ waitKeyBarrier = 0
    BY <1>2 DEF Publish, Balance, Waiting, Pending, Drawing
  <2>2. Pending' = shown' /\ shown' \subseteq Images
    BY <1>2, <2>1 DEF Publish, Pending
  <2>3. IsFiniteSet(shown') /\ Cardinality(shown') \in Nat
    BY <2>2, FS_Subset, FS_CardinalityType, DisplayAssumption
  <2>4. Typed'
    BY <1>2, <2>2, <2>3 DEF Publish, Typed
  <2>5. Balance'
    <3>1. waitKeyBarrier' = 0 /\ numOfThreads' = Cardinality(Pending')
      BY <1>2, <2>1, <2>2 DEF Publish
    <3>2. Waiting' <=> shown' # {}
      BY <1>2 DEF Publish, Waiting
    <3>3. capturedFrame' # 0 /\ gpc' # "publish"
      BY <1>2 DEF Publish, Balance
    <3> QED
      BY <2>2, <2>3, <3>1, <3>2, <3>3 DEF Balance
  <2>6. FlagCleared' /\ DrawnOrDue'
    BY <1>2, <2>1 DEF Publish, FlagCleared, DrawnOrDue
  <2> QED
    BY <2>4, <2>5, <2>6
<1>3. CASE Notify \/ Block
  <2>1. Typed'
    BY <1>3 DEF Notify, Block, WakeAll, shared, Typed
  <2>2. Waiting /\ Waiting'
    BY <1>3 DEF Notify, Block, Waiting
  <2>3. \A w \in Images : \/ pc'[w] = pc[w]
                          \/ pc[w] = "asleep" /\ pc'[w] = "lock"
    BY <1>3 DEF Notify, Block, WakeAll, Typed
  <2>4. Drawing' = Drawing
    BY <2>3 DEF Drawing
  <2>5. Pending' = Pending /\ (available \cap Drawing)' = {}
    BY <1>3, <2>4 DEF Notify, Block, shared, Pending, FlagCleared
  <2>6. (Balance /\ FlagCleared)'
    BY <1>3, <2>2, <2>5, SameBalance DEF Notify, Block, shared, Balance
  <2>7. DrawnOrDue'
    BY <1>3, <2>2, <2>3 DEF Notify, Block, shared, DrawnOrDue, Typed
  <2> QED
    BY <2>1, <2>6, <2>7
<1>4. CASE Pass
  <2>1. Cardinality(Pending) = 0
    <3>1. Waiting /\ waitKeyBarrier = numOfThreads
      BY <1>4 DEF Pass, Waiting
    <3>2. waitKeyBarrier + Cardinality(Pending) = waitKeyBarrier
      BY <3>1 DEF Balance
    <3>3. waitKeyBarrier \in Nat /\ Cardinality(Pending) \in Nat
      BY PendingFinite DEF Typed
    <3> QED
      BY <3>2, <3>3, NothingAdded
  <2>2. Pending = {}
    BY <2>1, PendingFinite, FS_EmptySet
  <2>3. Pending' = {}
    BY <1>4, <2>2 DEF Pass, Pending, Drawing
  <2>4. Typed'
    BY <1>4 DEF Pass, Typed
  <2>5. Balance'
    BY <1>4, <2>3 DEF Pass, Balance, Waiting
  <2>6. FlagCleared'
    BY <2>3 DEF FlagCleared, Pending
  <2>7. DrawnOrDue'
    BY <1>4 DEF Pass, DrawnOrDue, Waiting
  <2> QED
    BY <2>4, <2>5, <2>6, <2>7
<1>5. CASE SetStop \/ StopNotify
  <2>1. Typed'
    BY <1>5 DEF SetStop, StopNotify, WakeAll, shared, Typed
  <2>2. ~Waiting /\ ~Waiting' /\ gpc' # "idle"
    BY <1>5 DEF SetStop, StopNotify, Waiting
  <2>3. \A w \in Images : \/ pc'[w] = pc[w]
                          \/ pc[w] = "asleep" /\ pc'[w] = "lock"
    BY <1>5 DEF SetStop, StopNotify, WakeAll, Typed
  <2>4. Drawing' = Drawing
    BY <2>3 DEF Drawing
  <2>5. Pending' = Pending /\ (available \cap Drawing)' = {}
    BY <1>5, <2>4 DEF SetStop, StopNotify, shared, Pending, FlagCleared
  <2>6. (Balance /\ FlagCleared)'
    BY <1>5, <2>2, <2>5, SameBalance DEF SetStop, StopNotify, shared
  <2>7. DrawnOrDue'
    BY <2>2 DEF DrawnOrDue
  <2> QED
    BY <2>1, <2>6, <2>7
<1>6. CASE Join
  <2>1. Typed'
    BY <1>6 DEF Join, Typed
  <2>2. Pending' = {} /\ FlagCleared'
    BY <1>6 DEF Join, Pending, Drawing, FlagCleared
  <2>3. Balance' /\ DrawnOrDue'
    BY <1>6, <2>2 DEF Join, Balance, DrawnOrDue, Waiting
  <2> QED
    BY <2>1, <2>2, <2>3
<1> QED
  BY <1>1, <1>2, <1>3, <1>4, <1>5, <1>6 DEF Gui, GuiGoesOn

(* A step of a worker preserves the invariant. *)
LEMMA WorkerStep ==
  ASSUME IndInv, NEW w \in Images, Worker(w)
  PROVE  IndInv'
<1> USE DEF IndInv
<1>1. Typed'
  BY DEF Worker, Top, Lock, Doze, Sleep, Leave, Take, Draw, Count, Signal, Goto,
         shared, Typed
<1>2. \A v \in Images \ {w} : pc'[v] = pc[v] /\ drawn'[v] = drawn[v]
  BY DEF Worker, Top, Lock, Doze, Sleep, Leave, Take, Draw, Count, Signal, Goto,
         shared, Typed
<1>3. /\ shown' = shown /\ capturedFrame' = capturedFrame
      /\ numOfThreads' = numOfThreads
      /\ Waiting' <=> Waiting
      /\ gpc' = "idle" <=> gpc = "idle"
      /\ gpc' = "publish" <=> gpc = "publish"
  BY DEF Worker, Top, Lock, Doze, Sleep, Leave, Take, Draw, Count, Signal,
         shared, Waiting
<1>4. CASE Top(w) \/ Lock(w) \/ Doze(w) \/ Sleep(w) \/ Leave(w) \/ Signal(w)
  <2>1. /\ pc[w] \notin {"draw", "count"} /\ pc'[w] \notin {"draw", "count"}
        /\ available' = available /\ drawn' = drawn
        /\ waitKeyBarrier' = waitKeyBarrier
    BY <1>4 DEF Top, Lock, Doze, Sleep, Leave, Signal, Goto, shared, Typed
  <2>2. Drawing' = Drawing
    BY <1>2, <2>1 DEF Drawing
  <2>3. Pending' = Pending /\ (available \cap Drawing)' = {}
    BY <2>1, <2>2 DEF Pending, FlagCleared
  <2>4. (Balance /\ FlagCleared)'
    BY <1>3, <2>1, <2>3, SameBalance DEF Balance
  <2>5. DrawnOrDue'
    BY <1>2, <1>3, <2>1 DEF DrawnOrDue, Typed
  <2> QED
    BY <1>1, <2>4, <2>5
<1>5. CASE Take(w)
  <2>1. w \in Pending /\ Waiting /\ capturedFrame # 0
    BY <1>5 DEF Take, Pending, Balance
  <2>2. /\ pc'[w] = "draw" /\ available' = available \ {w}
        /\ waitKeyBarrier' = waitKeyBarrier
    BY <1>5, <2>1 DEF Take, Goto, Typed
  <2>3. w \in available /\ w \notin Drawing
    BY <1>5 DEF Take, FlagCleared
  <2>4. Drawing' = Drawing \cup {w}
    BY <1>2, <2>2 DEF Drawing
  <2>5. Pending' = Pending /\ (available \cap Drawing)' = {}
    BY <2>2, <2>3, <2>4 DEF Pending, FlagCleared
  <2>6. (Balance /\ FlagCleared)'
    BY <1>3, <2>1, <2>2, <2>5, SameBalance
  <2>7. DrawnOrDue'
    BY <1>2, <1>3, <1>5, <2>2 DEF Take, DrawnOrDue, Typed
  <2> QED
    BY <1>1, <2>6, <2>7
<1>6. CASE Draw(w)
  <2>1. /\ pc[w] = "draw" /\ pc'[w] = "count"
        /\ available' = available /\ drawn'[w] = capturedFrame
        /\ waitKeyBarrier' = waitKeyBarrier
    BY <1>6 DEF Draw, Goto, shared, Typed
  <2>2. Drawing' = Drawing
    BY <1>2, <2>1 DEF Drawing
  <2>3. Pending' = Pending /\ (available \cap Drawing)' = {}
    BY <2>1, <2>2 DEF Pending, FlagCleared
  <2>4. (Balance /\ FlagCleared)'
    BY <1>3, <2>1, <2>3, SameBalance DEF Balance
  <2>5. DrawnOrDue'
    BY <1>2, <1>3, <2>1 DEF DrawnOrDue, Typed
  <2> QED
    BY <1>1, <2>4, <2>5
<1>7. CASE Count(w)
  <2>1. /\ pc[w] = "count" /\ pc'[w] \in {"signal", "top"}
        /\ available' = available /\ drawn' = drawn
        /\ waitKeyBarrier' = waitKeyBarrier + 1
    BY <1>7 DEF Count, Goto, Typed
  <2>2. Drawing' = Drawing \ {w} /\ w \in Drawing /\ w \notin available
    BY <1>2, <2>1 DEF Drawing, FlagCleared
  <2>3. Pending' = Pending \ {w} /\ w \in Pending
    BY <2>1, <2>2 DEF Pending
  <2>4. Cardinality(Pending') = Cardinality(Pending) - 1
    BY <2>3, PendingFinite, FS_RemoveElement
  <2>5. Waiting
    BY <2>3 DEF Balance
  <2>6. Balance'
    BY <1>3, <2>1, <2>4, <2>5, PendingFinite DEF Balance, Typed
  <2>7. FlagCleared'
    BY <2>1, <2>2 DEF FlagCleared
  <2>8. DrawnOrDue'
    BY <1>2, <1>3, <2>1 DEF DrawnOrDue, Typed
  <2> QED
    BY <1>1, <2>6, <2>7, <2>8
<1> QED
  BY <1>4, <1>5, <1>6, <1>7 DEF Worker

(* The invariant holds in every state of every behaviour. *)
LEMMA Invariance == Spec => []IndInv
<1>1. IndInv /\ [Next]_vars => IndInv'
  <2> SUFFICES ASSUME IndInv, [Next]_vars PROVE IndInv'
    OBVIOUS
  <2>1. CASE Next
    BY <2>1, GuiStep, WorkerStep DEF Next
  <2>2. CASE UNCHANGED vars
    BY <2>2 DEF vars, shared, IndInv, Typed, Balance, FlagCleared, DrawnOrDue,
                Waiting, Pending, Drawing
  <2> QED
    BY <2>1, <2>2
<1> QED
  BY InitInd, <1>1, PTL DEF Spec

(* ImagesMatch of Display, for any finite set of images: once the GUI has   *)
(* passed the barrier, every image it shows is of the frame it holds.       *)
THEOREM BarrierSynchronizes == Spec => []ImagesMatch
<1>1. IndInv => ImagesMatch
  BY DEF IndInv, Typed, Balance, DrawnOrDue, Waiting, Pending, Drawing,
         ImagesMatch
<1> QED
  BY <1>1, Invariance, PTL

(* FrameStable of Display, for any finite set of images: m_capturedFrame is *)
(* never replaced or set to nullptr under a worker that reads it.           *)
THEOREM FrameProtected == Spec => FrameStable
<1>1. IndInv /\ [Next]_vars =>
        [capturedFrame' # capturedFrame =>
           \A w \in Images : pc[w] # "draw"]_vars
  <2> SUFFICES ASSUME IndInv, Next, capturedFrame' # capturedFrame,
                      NEW w \in Images
               PROVE  pc[w] # "draw"
    OBVIOUS
  <2>1. CASE GetFrame \/ StopPlay
    BY <2>1 DEF GetFrame, StopPlay, IndInv, Balance, Waiting, Pending, Drawing
  <2>2. CASE Join
    BY <2>2 DEF Join
  <2>3. CASE \/ Destroy \/ Publish \/ Notify \/ Block \/ Pass \/ SetStop
             \/ StopNotify
    BY <2>3 DEF Destroy, Publish, Notify, Block, Pass, SetStop, StopNotify
  <2>4. CASE \E v \in Images : Worker(v)
    BY <2>4 DEF Worker, Top, Lock, Doze, Sleep, Leave, Take, Draw, Count, Signal
  <2> QED
    BY <2>1, <2>2, <2>3, <2>4 DEF Next, Gui, GuiGoesOn
<1> QED
  BY <1>1, Invariance, PTL DEF Spec, FrameStable
==============================================================================
