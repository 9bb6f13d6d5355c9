---------------------------- MODULE ServerProofs -----------------------------
(***************************************************************************)
(* Theorems about ServerSystem, for any set of connections, any limits and *)
(* any number of buffers, whatever hosts, driver and failures do.          *)
(* WatchdogJustified needs only the watch: the clock (age), what the       *)
(* watchdog read of it (elapsed), how long its GetFrame began ago (since), *)
(* the flag between the two threads and where each thread is.              *)
(* StreamHasItsBuffers and FullStreamHasItsType need the sensor, the       *)
(* driver's queue and the buffer in hand.  ReplyAnswersRequest and         *)
(* SensorBehindRequest are about hosts that come one after the other       *)
(* (OneHost): the first needs the place of the one request a host has      *)
(* pending and the flags of the shared reply buffer, the second also what  *)
(* search, open and hang-up leave in the server while it lives.            *)
(***************************************************************************)
EXTENDS ServerSystem, TLAPS

Watch == <<watchVars, spc>>

(* The types the argument needs. *)
Typed ==
  /\ age \in 0 .. (FrameLimit + 1)
  /\ lasted \in Nat
  /\ elapsed \in Nat
  /\ since \in Nat
  /\ spc \in Wait \cup {"idle", "exited", "crashed", "aborted"}

(* While a GetFrame is served the clock shows how long. *)
ClockTrue ==
  /\ spc \in Wait => lasted = age
  /\ spc = "idle" => lasted = 0

(* getFrameInProgress is set only within a GetFrame. *)
FlagTrue == inProgress /\ Alive => spc \in Wait

(* The GetFrame the watchdog saw in progress began no later than the one    *)
(* whose start time it loads, and no later than what it measures from then. *)
MeasureTrue ==
  Alive =>
    /\ wpc = "load" => age <= since
    /\ wpc = "measure" => elapsed <= since

IndInv == Typed /\ ClockTrue /\ FlagTrue /\ MeasureTrue

------------------------------------------------------------------------------
(* The server starts with no GetFrame and the watchdog asleep. *)
LEMMA InitInd == Init => IndInv
BY ServerAssumption
   DEF Init, ServerInit, IndInv, Typed, ClockTrue, FlagTrue, MeasureTrue, Wait, Alive

(* Steps that do not touch the watch. *)
LEMMA SameWatch ==
  ASSUME IndInv, UNCHANGED Watch
  PROVE  IndInv'
BY DEF Watch, watchVars, dogVars, IndInv, Typed, ClockTrue, FlagTrue,
       MeasureTrue, Wait, Alive

(* The process may die at any time: what the invariant says is of a live    *)
(* one.                                                                     *)
LEMMA Dies ==
  ASSUME IndInv, spc' \in {"exited", "crashed", "aborted"},
         lasted' \in {lasted, 0}, UNCHANGED <<age, elapsed, since>>
  PROVE  IndInv'
BY DEF IndInv, Typed, ClockTrue, FlagTrue, MeasureTrue, Wait, Alive

(* The end of a GetFrame clears the flag; the watchdog may be anywhere. *)
LEMMA FrameEnds ==
  ASSUME IndInv, spc \in Wait, spc' = "idle", inProgress' = FALSE,
         lasted' = 0, UNCHANGED <<age, dogVars>>
  PROVE  IndInv'
BY DEF dogVars, IndInv, Typed, ClockTrue, FlagTrue, MeasureTrue, Wait, Alive

(* A handler other than that of GET_FRAME leaves the watch alone or takes   *)
(* the process down; the latter sets the clock before the flag.             *)
LEMMA CallbackInd ==
  ASSUME IndInv, Callback
  PROVE  IndInv'
<1>1. PICK c \in Conns :
        \/ Established(c) \/ Writeable(c) \/ Closed(c)
        \/ FindSensors(c) \/ ServeOpen(c) \/ ServeStart(c) \/ ServeStop(c)
        \/ ServeSetFrameType(c) \/ StorageOpen(c) \/ StorageUse(c)
        \/ Query(c) \/ HangUp(c)
        \/ Arm(c)
        \/ \E op \in {"Open", "Start", "Stop", "SetFrameType", "Query", "GetFrame"} :
             NullSensor(c, op)
  BY DEF Callback
<1>2. CASE Established(c) \/ Writeable(c) \/ Closed(c)
  <2>1. UNCHANGED Watch
    BY <1>2 DEF Established, Writeable, Closed, Watch
  <2> QED
    BY <2>1, SameWatch
<1>3. CASE FindSensors(c)
  <2>1. UNCHANGED watchVars /\ (spc' = spc \/ spc' = "crashed")
    BY <1>3 DEF FindSensors, NotFrame
  <2> QED
    BY <2>1, SameWatch, Dies DEF watchVars, dogVars, Watch
<1>4. CASE \/ ServeOpen(c) \/ ServeStart(c) \/ ServeStop(c)
           \/ ServeSetFrameType(c) \/ StorageOpen(c) \/ StorageUse(c)
           \/ Query(c) \/ HangUp(c)
  <2>1. UNCHANGED Watch
    BY <1>4 DEF ServeOpen, ServeStart, ServeStop, ServeSetFrameType, StorageOpen,
                StorageUse, Query, HangUp, NotFrame, Watch
  <2> QED
    BY <2>1, SameWatch
<1>5. CASE Arm(c)
  <2>1. /\ spc = "idle" /\ spc' = "stamp" /\ age' = 0
        /\ UNCHANGED <<inProgress, lasted, wpc, elapsed, since>>
    BY <1>5 DEF Arm, Taken, dogVars
  <2> QED
    BY <2>1, ServerAssumption DEF IndInv, Typed, ClockTrue, FlagTrue, MeasureTrue, Wait, Alive
<1>6. CASE \E op \in {"Open", "Start", "Stop", "SetFrameType", "Query", "GetFrame"} :
             NullSensor(c, op)
  BY <1>6, Dies DEF NullSensor, NotFrame, watchVars, dogVars
<1> QED
  BY <1>1, <1>2, <1>3, <1>4, <1>5, <1>6

(* GetFrame goes on, ends, or ends the process. *)
LEMMA GetFrameInd ==
  ASSUME IndInv, GetFrameStep
  PROVE  IndInv'
<1>1. CASE Stamp \/ WaitForBuffer \/ DequeueBuffer \/ GetInternalBuffer
  <2>1. /\ spc \in Wait /\ spc' \in Wait
        /\ UNCHANGED <<age, lasted, wpc, elapsed, since>>
    BY <1>1 DEF Stamp, WaitForBuffer, DequeueBuffer, GetInternalBuffer,
                FrameRest, Wait, dogVars
  <2> QED
    BY <2>1 DEF IndInv, Typed, ClockTrue, FlagTrue, MeasureTrue, Wait, Alive
<1>2. CASE EnqueueBuffer
  BY <1>2, FrameEnds DEF EnqueueBuffer, FrameRest, Wait
<1>3. CASE WaitOrDequeueFails \/ FetchFails \/ EnqueueFails
  <2>1. spc \in Wait /\ \E fatal \in BOOLEAN : FrameFails(fatal)
    BY <1>3 DEF WaitOrDequeueFails, FetchFails, EnqueueFails, Wait
  <2>2. /\ lasted' = 0 /\ UNCHANGED <<age, dogVars>>
        /\ \/ spc' \in {"exited", "aborted"}
           \/ spc' = "idle" /\ inProgress' = FALSE
    BY <2>1 DEF FrameFails, FrameRest, Ends
  <2> QED
    BY <2>1, <2>2, Dies, FrameEnds DEF dogVars
<1> QED
  BY <1>1, <1>2, <1>3 DEF GetFrameStep

(* The watchdog starts to measure only what is in progress. *)
LEMMA WatchdogInd ==
  ASSUME IndInv, Watchdog
  PROVE  IndInv'
<1>1. UNCHANGED <<inProgress, age, lasted>>
  BY DEF Watchdog, WatchdogLooks, WatchdogLoads, WatchdogMeasures,
         WatchdogExits, WatchRest
<1>2. CASE WatchdogLooks
  <2>1. lasted = age /\ since' = lasted /\ wpc' = "load"
        /\ UNCHANGED <<spc, elapsed>>
    BY <1>2 DEF WatchdogLooks, IndInv, FlagTrue, ClockTrue
  <2> QED
    BY <1>1, <2>1 DEF IndInv, Typed, ClockTrue, FlagTrue, MeasureTrue, Wait, Alive
<1>3. CASE WatchdogLoads
  <2>1. age <= since /\ elapsed' = age /\ wpc' = "measure"
        /\ UNCHANGED <<spc, since>>
    BY <1>3 DEF WatchdogLoads, IndInv, MeasureTrue
  <2> QED
    BY <1>1, <2>1 DEF IndInv, Typed, ClockTrue, FlagTrue, MeasureTrue, Wait, Alive
<1>4. CASE WatchdogMeasures
  <2>1. /\ wpc' \notin {"load", "measure"} /\ UNCHANGED spc
        /\ elapsed' = 0 /\ since' = 0
    BY <1>4 DEF WatchdogMeasures
  <2> QED
    BY <1>1, <2>1 DEF IndInv, Typed, ClockTrue, FlagTrue, MeasureTrue, Wait, Alive
<1>5. CASE WatchdogExits
  BY <1>1, <1>5, Dies DEF WatchdogExits, dogVars
<1> QED
  BY <1>2, <1>3, <1>4, <1>5 DEF Watchdog

(* All clocks advance together; those that are past the limit stay there. *)
LEMMA TickInd ==
  ASSUME IndInv, Tick
  PROVE  IndInv'
<1>1. /\ age' = age + 1 /\ age <= FrameLimit
      /\ lasted' = IF spc = "idle" THEN lasted ELSE lasted + 1
      /\ UNCHANGED <<spc, inProgress, wpc>>
  BY DEF Tick
<1>2. /\ wpc = "measure" => elapsed' = Later(elapsed)
      /\ wpc # "measure" => elapsed' = elapsed
      /\ wpc \in {"load", "measure"} => since' = Later(since)
      /\ wpc \notin {"load", "measure"} => since' = since
  BY DEF Tick
<1>3. FrameLimit \in Nat
  BY ServerAssumption
<1>4. Typed' /\ ClockTrue' /\ FlagTrue'
  BY <1>1, <1>2, <1>3
  DEF IndInv, Typed, ClockTrue, FlagTrue, Wait, Alive, Later
<1>5. MeasureTrue'
  BY <1>1, <1>2, <1>3 DEF IndInv, Typed, MeasureTrue, Alive, Later
<1> QED  BY <1>4, <1>5 DEF IndInv

(* systemd starts a server with a watch of its own. *)
LEMMA RestartInd ==
  ASSUME Restart
  PROVE  IndInv'
BY ServerAssumption
   DEF Restart, IndInv, Typed, ClockTrue, FlagTrue, MeasureTrue, Wait, Alive

(* Every step preserves the invariant. *)
LEMMA StepInd ==
  ASSUME IndInv, [Next]_vars
  PROVE  IndInv'
<1>1. CASE Callback \/ GetFrameStep \/ Watchdog \/ Tick
  BY <1>1, CallbackInd, GetFrameInd, WatchdogInd, TickInd
<1>2. CASE Signal
  BY <1>2, SameWatch DEF Signal, Watch
<1>3. CASE ServerReturns
  BY <1>3, Dies DEF ServerReturns, Ends, watchVars, dogVars
<1>4. CASE UNCHANGED <<spc, watchVars>>
  BY <1>4, SameWatch DEF Watch
<1>5. CASE ServerDown
  BY <1>5, RestartInd DEF ServerDown
<1>6. CASE UNCHANGED vars
  BY <1>6, <1>4 DEF vars, serverVars
<1> QED
  BY <1>1, <1>2, <1>3, <1>4, <1>5, <1>6 DEF Next

(* Only WatchdogMeasures condemns the process, by the clock. *)
LEMMA OnlyMeasureDooms ==
  ASSUME [Next]_vars, wpc # "doomed", wpc' = "doomed"
  PROVE  Alive /\ wpc = "measure" /\ elapsed > FrameLimit
<1>1. CASE Watchdog
  BY <1>1 DEF Watchdog, WatchdogLooks, WatchdogLoads, WatchdogMeasures,
              WatchdogExits, dogVars
<1>2. CASE UNCHANGED wpc
  BY <1>2
<1>3. CASE Callback
  <2>1. UNCHANGED wpc
    BY <1>3 DEF Callback, Established, Writeable, Closed, FindSensors, ServeOpen,
                ServeStart, ServeStop, ServeSetFrameType, StorageOpen,
                StorageUse, Query, HangUp, Arm, NullSensor, NotFrame, watchVars,
                dogVars
  <2> QED
    BY <2>1
<1>4. CASE GetFrameStep
  <2>1. UNCHANGED wpc
    BY <1>4 DEF GetFrameStep, Stamp, WaitForBuffer, DequeueBuffer,
                GetInternalBuffer, EnqueueBuffer, WaitOrDequeueFails, FetchFails,
                EnqueueFails, FrameFails, FrameRest, dogVars
  <2> QED
    BY <2>1
<1>5. CASE ServerDown
  BY <1>5 DEF ServerDown, Restart
<1>6. CASE Tick \/ Signal \/ ServerReturns
  BY <1>2, <1>6 DEF Tick, Signal, ServerReturns, watchVars, dogVars
<1> QED
  BY <1>1, <1>2, <1>3, <1>4, <1>5, <1>6
  DEF Next, vars, serverVars, watchVars, dogVars

(* WatchdogJustified of ServerSystem: get_frame_watchdog ends the process   *)
(* only when the GetFrame it saw in progress began longer ago than the      *)
(* limit, although it reads the flag, the time of start and the clock one   *)
(* after the other while time passes and GetFrames end and begin.  It may   *)
(* have ended since: that much BlockedWhenCondemned shows.                  *)
THEOREM NoFalseAlarm == Spec => WatchdogJustified
<1>1. IndInv /\ [Next]_vars => IndInv'
  BY StepInd
<1>2. IndInv /\ [Next]_vars
        => [wpc # "doomed" /\ wpc' = "doomed" => since > FrameLimit]_vars
  <2> SUFFICES ASSUME IndInv, [Next]_vars, wpc # "doomed", wpc' = "doomed"
               PROVE  since > FrameLimit
    OBVIOUS
  <2>1. Alive /\ wpc = "measure" /\ elapsed > FrameLimit
    BY OnlyMeasureDooms
  <2>2. elapsed <= since /\ elapsed \in Nat /\ since \in Nat
    BY <2>1 DEF IndInv, MeasureTrue, Typed
  <2> QED  BY <2>1, <2>2, ServerAssumption
<1> QED
  BY InitInd, <1>1, <1>2, PTL DEF Spec, WatchdogJustified

------------------------------------------------------------------------------
(* The sensor, its device and the driver's queue.  What start() queues is   *)
(* compared with what the driver already has, so the invariant says where a *)
(* buffer may be: nowhere without a queue, in one place at a time, within   *)
(* what is mapped, and in a GetFrame only while one is served.              *)
SensorTyped ==
  /\ mapped \in 0 .. NBuf
  /\ owner \in {"none", "dev", "leaked"}
  /\ started \in BOOLEAN /\ streaming \in BOOLEAN

NoQueue ==
  /\ owner # "dev" => mapped = 0
  /\ owner = "none" => ~streaming /\ queued = {} /\ filled = {}

OnePlace ==
  /\ queued \cap filled = {}
  /\ owner = "dev" => queued \cup filled \subseteq 1 .. mapped
  /\ owner # "leaked" /\ ~started => filled = {}

HeldOnce ==
  /\ Alive /\ spc \notin {"fetch", "enqueue"} => held = 0
  /\ spc \in {"fetch", "enqueue"} => held # 0
  /\ held # 0 => /\ held \notin queued \cup filled
                 /\ owner # "leaked" => held \in 1 .. mapped /\ held \notin lost

(* Only a setFrameType that succeeds maps all buffers. *)
FullHasType == mapped = NBuf => frameType = mode

SensorInv == /\ SensorTyped /\ NoQueue /\ OnePlace /\ HeldOnce /\ FullHasType
             /\ StreamHasItsBuffers

(* There is at least one buffer. *)
LEMMA NBufPositive == NBuf \in Nat /\ NBuf # 0 /\ 0 \in 0 .. NBuf
BY SensorAssumption

(* No sensor: at the start, after a restart and once it was destroyed. *)
LEMMA NoSensor ==
  /\ Init => SensorInv
  /\ SensorGone /\ held' = 0 /\ spc' \notin {"fetch", "enqueue"} => SensorInv'
<1>1. ASSUME Init PROVE SensorInv
  <2>1. /\ mapped = 0 /\ owner = "none" /\ started = FALSE
        /\ streaming = FALSE /\ queued = {} /\ filled = {} /\ held = 0
        /\ frameType = mode /\ spc = "idle"
    BY <1>1 DEF Init, ServerInit, SensorInit
  <2>2. SensorTyped
    BY <2>1, NBufPositive DEF SensorTyped
  <2>3. NoQueue /\ OnePlace
    BY <2>1 DEF NoQueue, OnePlace
  <2>4. HeldOnce /\ FullHasType
    BY <2>1 DEF HeldOnce, FullHasType
  <2> QED  BY <2>1, <2>2, <2>3, <2>4 DEF SensorInv, StreamHasItsBuffers
<1>2. ASSUME SensorGone, held' = 0, spc' \notin {"fetch", "enqueue"}
      PROVE  SensorInv'
  <2>1. /\ mapped' = 0 /\ owner' = "none" /\ started' = FALSE
        /\ streaming' = FALSE /\ queued' = {} /\ filled' = {} /\ held' = 0
        /\ frameType' = mode' /\ spc' \notin {"fetch", "enqueue"}
    BY <1>2 DEF SensorGone, QueueFreed
  <2>2. SensorTyped'
    BY <2>1, NBufPositive DEF SensorTyped
  <2>3. NoQueue' /\ OnePlace'
    BY <2>1 DEF NoQueue, OnePlace
  <2>4. HeldOnce' /\ FullHasType'
    BY <2>1 DEF HeldOnce, FullHasType
  <2> QED  BY <2>1, <2>2, <2>3, <2>4 DEF SensorInv, StreamHasItsBuffers
<1> QED  BY <1>1, <1>2

(* Steps that leave the sensor and the buffer in hand alone. *)
LEMMA SensorSame ==
  ASSUME SensorInv, UNCHANGED <<sensorVars, held>>, Alive' => Alive,
         \/ spc' \in {"exited", "crashed", "aborted"}
         \/ spc' \in {"fetch", "enqueue"} <=> spc \in {"fetch", "enqueue"}
  PROVE  SensorInv'
BY DEF SensorInv, SensorTyped, NoQueue, OnePlace, HeldOnce, FullHasType,
       StreamHasItsBuffers, Alive, sensorVars, devVars, driverVars

(* The methods that are called between two GetFrames. *)
LEMMA MethodInd ==
  ASSUME SensorInv, spc = "idle", UNCHANGED <<held, spc>>, NEW st,
         NEW t,
         \/ Open(st) \/ Start(st) \/ Stop(st) \/ SetFrameType(t, st)
         \/ ClosesDevice /\ started' = FALSE /\ mapped' = 0
              /\ frameType' = NoType /\ mode' = NoType
  PROVE  SensorInv'
<1>0. held = 0 /\ 0 # NBuf /\ held \notin 1 .. mapped
  BY NBufPositive DEF SensorInv, HeldOnce, Alive, SensorTyped
<1> USE DEF SensorInv
<1>1. CASE Open(st)
  <2>1. /\ started' = FALSE /\ mapped' = 0
        /\ UNCHANGED <<frameType, mode, streaming, queued, filled, lost>>
        /\ owner' = IF owner = "dev" THEN "leaked" ELSE owner
    BY <1>1 DEF Open, FreshDevice, QueueForgotten
  <2>2. SensorTyped' /\ NoQueue'
    BY <2>1, NBufPositive DEF SensorTyped, NoQueue
  <2>3. FullHasType'
    BY <1>0, <2>1 DEF FullHasType
  <2>4. OnePlace' /\ HeldOnce'
    BY <1>0, <2>1 DEF SensorTyped, NoQueue, OnePlace, HeldOnce
  <2>5. StreamHasItsBuffers'
    BY <2>1 DEF SensorTyped, NoQueue, StreamHasItsBuffers
  <2> QED  BY <2>2, <2>3, <2>4, <2>5
<1>2. CASE Start(st)
  <2>1. CASE UNCHANGED sensorVars
    BY <2>1, SensorSame DEF Alive
  <2>2. CASE /\ ~started
             /\ \E k \in 0..mapped :
                  /\ 1..k \cap (queued \cup filled) = {}
                  /\ queued' = queued \cup 1..k
             /\ UNCHANGED <<devVars, owner, streaming, filled, lost>>
    <3>1. PICK k \in 0 .. mapped : queued' = queued \cup 1 .. k
                                   /\ 1 .. k \cap (queued \cup filled) = {}
      BY <2>2
    <3>2. /\ UNCHANGED <<started, mapped, owner, streaming, filled, lost>>
          /\ UNCHANGED <<frameType, mode>> /\ ~started
      BY <2>2 DEF devVars
    <3>3. 1 .. k \subseteq 1 .. mapped /\ (mapped = 0 => 1 .. k = {})
      BY <3>1 DEF SensorTyped
    <3>4. SensorTyped' /\ FullHasType'
      BY <3>2 DEF SensorTyped, FullHasType
    <3>5. NoQueue' /\ OnePlace'
      BY <3>1, <3>2, <3>3 DEF SensorTyped, NoQueue, OnePlace
    <3>6. HeldOnce' /\ StreamHasItsBuffers'
      BY <1>0, <3>2 DEF HeldOnce, StreamHasItsBuffers
    <3> QED  BY <3>4, <3>5, <3>6
  <2>3. CASE /\ ~started
             /\ fd /\ mapped > 0 /\ owner = "dev"
             /\ 1..mapped \cap (queued \cup filled) = {}
             /\ queued' = 1..mapped
             /\ streaming' = TRUE
             /\ started' = TRUE
             /\ lost' = {}
             /\ UNCHANGED <<object, fd, mapped, frameType, mode, owner, filled>>
    <3>1. filled = {}
      BY <2>3 DEF OnePlace
    <3>2. SensorTyped' /\ FullHasType' /\ NoQueue'
      BY <2>3 DEF SensorTyped, FullHasType, NoQueue
    <3>3. OnePlace' /\ HeldOnce'
      BY <1>0, <2>3, <3>1 DEF OnePlace, HeldOnce
    <3>4. StreamHasItsBuffers'
      BY <1>0, <2>3, <3>1 DEF StreamHasItsBuffers
    <3> QED  BY <3>2, <3>3, <3>4
  <2> QED  BY <1>2, <2>1, <2>2, <2>3 DEF Start
<1>3. CASE Stop(st)
  <2>1. CASE UNCHANGED sensorVars
    BY <2>1, SensorSame DEF Alive
  <2>2. CASE /\ started' = FALSE /\ streaming' = FALSE
             /\ queued' = {} /\ filled' = {} /\ lost' = {}
             /\ UNCHANGED <<object, fd, mapped, frameType, mode, owner>>
    <3>1. SensorTyped' /\ FullHasType' /\ NoQueue'
      BY <2>2 DEF SensorTyped, FullHasType, NoQueue
    <3>2. OnePlace' /\ HeldOnce' /\ StreamHasItsBuffers'
      BY <1>0, <2>2 DEF OnePlace, HeldOnce, StreamHasItsBuffers
    <3> QED  BY <3>1, <3>2
  <2> QED  BY <1>3, <2>1, <2>2 DEF Stop
<1>4. ASSUME ClosesDevice, started' = FALSE, mapped' = 0,
             frameType' = mode' \/ mapped' # NBuf
      PROVE  SensorInv'
  <2>1. /\ owner' = IF owner = "dev" THEN "none" ELSE owner
        /\ owner = "dev" => streaming' = FALSE /\ queued' = {} /\ filled' = {}
        /\ owner # "dev" => /\ streaming' = streaming /\ queued' = queued
                            /\ filled' = filled /\ lost' = lost
    BY <1>4 DEF ClosesDevice, QueueFreed, driverVars
  <2>2. SensorTyped' /\ NoQueue'
    <3>1. started' \in BOOLEAN /\ mapped' \in 0 .. NBuf
      BY <1>4, NBufPositive
    <3>2. streaming' \in BOOLEAN
      BY <2>1 DEF SensorTyped
    <3>3. owner' \in {"none", "dev", "leaked"} /\ NoQueue'
      BY <1>4, <2>1 DEF SensorTyped, NoQueue
    <3> QED  BY <3>1, <3>2, <3>3 DEF SensorTyped
  <2>3. FullHasType'
    BY <1>4 DEF FullHasType
  <2>4. OnePlace' /\ HeldOnce'
    BY <1>0, <1>4, <2>1 DEF SensorTyped, NoQueue, OnePlace, HeldOnce
  <2>5. StreamHasItsBuffers'
    BY <1>4, <2>1 DEF SensorTyped, NoQueue, StreamHasItsBuffers
  <2> QED  BY <2>2, <2>3, <2>4, <2>5
<1>5. CASE SetFrameType(t, st)
  <2>1. CASE mapped' = 0 /\ ClosesDevice
    BY <1>0, <1>4, <1>5, <2>1 DEF SetFrameType
  <2>2. CASE /\ owner' = "dev" /\ streaming' = FALSE
             /\ queued' = {} /\ filled' = {} /\ lost' = {}
             /\ mapped' \in 0 .. NBuf
             /\ mapped' = NBuf => frameType' = mode'
    <3>1. started' = FALSE
      BY <1>5 DEF SetFrameType
    <3>2. SensorTyped' /\ FullHasType' /\ NoQueue'
      BY <2>2, <3>1 DEF SensorTyped, FullHasType, NoQueue
    <3>3. OnePlace' /\ HeldOnce' /\ StreamHasItsBuffers'
      BY <1>0, <2>2, <3>1 DEF OnePlace, HeldOnce, StreamHasItsBuffers
    <3> QED  BY <3>2, <3>3
  <2>3. CASE /\ owner' = "dev" /\ streaming' = FALSE
             /\ queued' = {} /\ filled' = {} /\ lost' = {}
             /\ mode' = t
             /\ mapped' \in 0 .. (NBuf - 1) \/ (mapped' = NBuf /\ frameType' = t)
    <3>1. mapped' \in 0 .. NBuf /\ (mapped' = NBuf => frameType' = mode')
      BY <2>3, NBufPositive
    <3> QED  BY <2>2, <2>3, <3>1
  <2>4. \/ mapped' = 0 /\ ClosesDevice
        \/ /\ owner' = "dev" /\ streaming' = FALSE
           /\ queued' = {} /\ filled' = {} /\ lost' = {}
           /\ mode' = t
           /\ mapped' \in 0 .. (NBuf - 1) \/ (mapped' = NBuf /\ frameType' = t)
    BY <1>5, Zenon DEF SetFrameType
  <2> QED  BY <2>1, <2>3, <2>4
<1> QED  BY <1>0, <1>1, <1>2, <1>3, <1>4, <1>5

(* A handler runs one method of the sensor, builds a new one, or leaves it  *)
(* alone; the one that dies of a null pointer does too.                     *)
LEMMA CallbackSensor ==
  ASSUME SensorInv, Callback
  PROVE  SensorInv'
<1>1. PICK c \in Conns :
        \/ Established(c) \/ Writeable(c) \/ Closed(c)
        \/ FindSensors(c) \/ ServeOpen(c) \/ ServeStart(c) \/ ServeStop(c)
        \/ ServeSetFrameType(c) \/ StorageOpen(c) \/ StorageUse(c)
        \/ Query(c) \/ HangUp(c)
        \/ Arm(c)
        \/ \E op \in {"Open", "Start", "Stop", "SetFrameType", "Query", "GetFrame"} :
             NullSensor(c, op)
  BY DEF Callback
<1>2. CASE \/ Established(c) \/ Writeable(c) \/ Closed(c) \/ StorageOpen(c)
           \/ StorageUse(c) \/ Query(c) \/ HangUp(c)
  <2>1. UNCHANGED <<sensorVars, held, spc>>
    BY <1>2 DEF Established, Writeable, Closed, StorageOpen, StorageUse, Query,
                HangUp, NotFrame
  <2> QED  BY <2>1, SensorSame DEF Alive
<1>3. CASE FindSensors(c)
  <2>1. spc = "idle" /\ held' = held
    BY <1>3 DEF FindSensors, Taken, NotFrame
  <2>2. \/ UNCHANGED sensorVars /\ (spc' = spc \/ spc' = "crashed")
        \/ /\ ClosesDevice /\ started' = FALSE /\ mapped' = 0
           /\ frameType' = NoType /\ mode' = NoType
           /\ spc' = spc
    BY <1>3 DEF FindSensors, Construct
  <2> QED  BY <2>1, <2>2, SensorSame, MethodInd DEF Alive
<1>4. CASE ServeOpen(c) \/ ServeStart(c) \/ ServeStop(c) \/ ServeSetFrameType(c)
  <2>1. spc = "idle" /\ UNCHANGED <<held, spc>>
    BY <1>4 DEF ServeOpen, ServeStart, ServeStop, ServeSetFrameType, Taken, NotFrame
  <2>2. \E st, t : Open(st) \/ Start(st) \/ Stop(st) \/ SetFrameType(t, st)
    BY <1>4 DEF ServeOpen, ServeStart, ServeStop, ServeSetFrameType
  <2> QED  BY <2>1, <2>2, MethodInd
<1>5. CASE Arm(c)
  <2>1. UNCHANGED <<sensorVars, held>> /\ spc = "idle" /\ spc' = "stamp"
    BY <1>5 DEF Arm, Taken
  <2> QED  BY <2>1, SensorSame DEF Alive
<1>6. CASE \E op \in {"Open", "Start", "Stop", "SetFrameType", "Query", "GetFrame"} :
             NullSensor(c, op)
  <2>1. UNCHANGED <<sensorVars, held>> /\ spc' = "crashed"
    BY <1>6 DEF NullSensor, NotFrame
  <2> QED  BY <2>1, SensorSame DEF Alive
<1> QED  BY <1>1, <1>2, <1>3, <1>4, <1>5, <1>6

(* The buffer of a GetFrame goes from the driver to the program and back,   *)
(* or stays behind when it cannot be queued.                                *)
LEMMA GetFrameSensor ==
  ASSUME SensorInv, GetFrameStep
  PROVE  SensorInv'
<1>1. CASE Stamp \/ WaitForBuffer \/ GetInternalBuffer \/ WaitOrDequeueFails
  <2>1. CASE Stamp \/ WaitForBuffer \/ GetInternalBuffer
    <3>1. /\ UNCHANGED <<sensorVars, held>> /\ Alive
          /\ spc' \in {"fetch", "enqueue"} <=> spc \in {"fetch", "enqueue"}
      BY <2>1 DEF Stamp, WaitForBuffer, GetInternalBuffer, Alive
    <3> QED  BY <3>1, SensorSame
  <2>2. CASE WaitOrDequeueFails
    <3>1. /\ UNCHANGED sensorVars /\ held' = 0
          /\ spc \in {"wait", "dequeue"} /\ spc' \in {"exited", "aborted", "idle"}
      BY <2>2 DEF WaitOrDequeueFails, FrameFails, Ends
    <3>2. held' = held
      BY <3>1 DEF SensorInv, HeldOnce, Alive
    <3> QED  BY <3>1, <3>2, SensorSame DEF Alive
  <2> QED  BY <1>1, <2>1, <2>2
<1>2. CASE DequeueBuffer
  <2>1. PICK b \in Buffers : Dequeue(b) /\ held' = b
    BY <1>2 DEF DequeueBuffer
  <2>2. /\ spc = "dequeue" /\ spc' = "fetch"
        /\ b \in filled /\ filled' = filled \ {b}
        /\ UNCHANGED <<started, mapped, frameType, mode>>
        /\ UNCHANGED <<owner, streaming, queued, lost>>
    BY <1>2, <2>1 DEF DequeueBuffer, Dequeue, devVars
  <2>3. held = 0 /\ held' # 0
    BY <2>1, <2>2, NBufPositive DEF SensorInv, HeldOnce, Alive, Buffers
  <2>4. owner # "leaked" => started /\ owner = "dev"
    BY <2>2 DEF SensorInv, SensorTyped, OnePlace, NoQueue
  <2>5. owner # "leaked" => b \in 1 .. mapped /\ b \notin lost
    BY <2>2, <2>4 DEF SensorInv, OnePlace, StreamHasItsBuffers
  <2>6. SensorTyped' /\ NoQueue' /\ FullHasType'
    BY <2>2 DEF SensorInv, SensorTyped, NoQueue, FullHasType
  <2>7. OnePlace' /\ HeldOnce'
    BY <2>1, <2>2, <2>3, <2>5 DEF SensorInv, OnePlace, HeldOnce, Alive
  <2>8. StreamHasItsBuffers'
    BY <2>1, <2>2, <2>3, NBufPositive
    DEF SensorInv, SensorTyped, OnePlace, StreamHasItsBuffers
  <2> QED  BY <2>6, <2>7, <2>8 DEF SensorInv
<1>3. CASE EnqueueBuffer \/ FetchFails \/ EnqueueFails
  <2>1. /\ spc \in {"fetch", "enqueue"} /\ spc' \notin {"fetch", "enqueue"}
        /\ held' = 0
        /\ UNCHANGED <<started, mapped, frameType, mode>>
        /\ UNCHANGED <<owner, streaming, filled>>
        /\ \/ queued' = queued \cup {held} /\ lost' = lost
           \/ queued' = queued /\ lost' = lost \cup {held}
    BY <1>3 DEF EnqueueBuffer, FetchFails, EnqueueFails, FrameFails, Ends,
                Enqueue, EnqueueRefused, devVars
  <2>2. /\ held # 0 /\ held \notin queued \cup filled
        /\ owner # "leaked" => held \in 1 .. mapped /\ held \notin lost
    BY <2>1 DEF SensorInv, HeldOnce
  <2>3. SensorTyped' /\ FullHasType'
    BY <2>1 DEF SensorInv, SensorTyped, FullHasType
  <2>4. NoQueue' /\ OnePlace'
    BY <2>1, <2>2 DEF SensorInv, SensorTyped, NoQueue, OnePlace
  <2>5. HeldOnce'
    BY <2>1 DEF HeldOnce
  <2>6. StreamHasItsBuffers'
    BY <2>1, <2>2 DEF SensorInv, SensorTyped, StreamHasItsBuffers
  <2> QED  BY <2>3, <2>4, <2>5, <2>6 DEF SensorInv
<1> QED  BY <1>1, <1>2, <1>3 DEF GetFrameStep

(* The driver fills a buffer. *)
LEMMA FillSensor ==
  ASSUME SensorInv, Fill, UNCHANGED <<spc, held>>
  PROVE  SensorInv'
<1>1. PICK b \in queued : queued' = queued \ {b} /\ filled' = filled \cup {b}
  BY DEF Fill
<1>2. streaming /\ UNCHANGED <<started, mapped, frameType, mode>>
      /\ UNCHANGED <<owner, streaming, lost>>
  BY DEF Fill, devVars
<1>3. SensorTyped' /\ FullHasType' /\ NoQueue'
  BY <1>2 DEF SensorInv, SensorTyped, FullHasType, NoQueue
<1>4. OnePlace'
  BY <1>1, <1>2 DEF SensorInv, OnePlace, StreamHasItsBuffers
<1>5. HeldOnce'
  BY <1>1, <1>2 DEF SensorInv, HeldOnce, Alive
<1>6. StreamHasItsBuffers'
  BY <1>1, <1>2 DEF SensorInv, StreamHasItsBuffers
<1> QED  BY <1>3, <1>4, <1>5, <1>6 DEF SensorInv

(* The sensor is destroyed with the process, or its destructor fails. *)
LEMMA ReturnSensor ==
  ASSUME SensorInv, ServerReturns
  PROVE  SensorInv'
<1>1. /\ spc = "idle" /\ spc' \in {"exited", "aborted"} /\ held' = held
      /\ SensorGone \/ UNCHANGED sensorVars
  BY DEF ServerReturns, Ends
<1>2. held' = 0
  BY <1>1 DEF SensorInv, HeldOnce, Alive
<1> QED  BY <1>1, <1>2, NoSensor, SensorSame DEF Alive

(* Every step keeps the sensor, its queue and the buffer in hand in order. *)
LEMMA SensorStep ==
  ASSUME SensorInv, [Next]_vars
  PROVE  SensorInv'
<1>1. CASE Callback \/ GetFrameStep
  BY <1>1, CallbackSensor, GetFrameSensor
<1>2. CASE Watchdog
  <2>1. /\ UNCHANGED <<sensorVars, held>>
        /\ Alive' => Alive
        /\ spc' = spc \/ spc' = "exited"
    BY <1>2 DEF Watchdog, WatchdogLooks, WatchdogLoads, WatchdogMeasures,
                WatchdogExits, WatchRest, Alive
  <2> QED  BY <2>1, SensorSame DEF Alive
<1>7. CASE ServerReturns
  BY <1>7, ReturnSensor
<1>3. CASE Fill /\ UNCHANGED <<spc, held>>
  BY <1>3, FillSensor
<1>4. CASE UNCHANGED <<sensorVars, held, spc>>
  BY <1>4, SensorSame DEF Alive
<1>5. CASE ServerDown
  BY <1>5, NoSensor DEF ServerDown, Restart
<1>6. CASE Tick \/ Signal \/ UNCHANGED vars
  BY <1>4, <1>6 DEF Tick, Signal, vars, serverVars
<1> QED  BY <1>1, <1>2, <1>3, <1>4, <1>5, <1>6, <1>7 DEF Next

(* StreamHasItsBuffers of ServerSystem, for any number of buffers and       *)
(* frame types: whatever call into the driver fails, dev->started tells the *)
(* truth and every buffer of the stream is with the driver, in the GetFrame *)
(* that is served, or one whose VIDIOC_QBUF failed.                         *)
THEOREM BuffersAccounted == Spec => []StreamHasItsBuffers
<1>1. SensorInv /\ [Next]_vars => SensorInv'
  BY SensorStep
<1>2. SensorInv => StreamHasItsBuffers
  BY DEF SensorInv
<1> QED  BY NoSensor, <1>1, <1>2, PTL DEF Spec

(* FullStreamHasItsType of ServerSystem: a stream that got all its buffers  *)
(* delivers the type setFrameType recorded; one that failed half-way never  *)
(* maps the last buffer.                                                    *)
THEOREM FullStreamTyped == Spec => []FullStreamHasItsType
<1>1. SensorInv /\ [Next]_vars => SensorInv'
  BY SensorStep
<1>2. SensorInv => FullStreamHasItsType
  BY DEF SensorInv, FullHasType, FullStreamHasItsType
<1> QED  BY NoSensor, <1>1, <1>2, PTL DEF Spec

------------------------------------------------------------------------------
(* Part two: one host at a time                                             *)

(* The hosts come one after the other, on one connection: a host that left  *)
(* may come back, with requests and replies of its former visit cut off     *)
(* anywhere, and it may be another one.                                     *)
OneHost == \E c : Conns = {c}

(* Every connection has its entries. *)
Mappings ==
  /\ DOMAIN conn = Conns /\ DOMAIN inq = Conns /\ DOMAIN outq = Conns
  /\ DOMAIN host = Conns /\ DOMAIN stage = Conns /\ DOMAIN asked = Conns
  /\ DOMAIN got = Conns

Served == spc \in Wait
Due(c) == c \in writable /\ ~buffered
SkipTrue(c) == buffered => c \in writable
Quiet(c) == inq[c] = <<>> /\ outq[c] = <<>> /\ ~Served /\ ~Due(c)
Single(s) == s = <<>> \/ s = <<Head(s)>>

(* A request is in one place: on its way, served, its reply about to be     *)
(* written, or on its way back.                                             *)
OneAtATime(c) ==
  /\ Single(inq[c]) /\ Single(outq[c])
  /\ inq[c] # <<>> => /\ ~Served /\ ~Due(c) /\ outq[c] = <<>>
                      /\ frame = NoConn /\ SkipTrue(c)
  /\ Served => /\ cur = c /\ c \notin writable /\ ~buffered /\ outq[c] = <<>>
               /\ frame = NoConn
  /\ Due(c) => outq[c] = <<>>
  /\ conn[c] \in {"free", "asking"} => Quiet(c) /\ c \notin writable

Greets(c) ==
  host[c] = "greet" =>
    /\ conn[c] \in {"asking", "up"} /\ asked[c] = "Greeting"
    /\ inq[c] = <<>> /\ ~Served
    /\ Due(c) => buffSend.op = "Greeting"
    /\ outq[c] # <<>> => /\ Head(outq[c]).op \in {"Greeting", "GetFrame"}
                         /\ frame = NoConn /\ SkipTrue(c)
Denied(c) == host[c] = "denied" => conn[c] = "up" /\ inq[c] = <<>> /\ ~Served
Ready(c) ==
  host[c] = "ready" =>
    /\ conn[c] = "up" /\ Quiet(c) /\ frame = NoConn /\ SkipTrue(c)
    /\ got[c].op = asked[c] /\ got[c].to \in {c, NoConn}
Waits(c) ==
  host[c] = "waiting" =>
    /\ conn[c] = "up" /\ SkipTrue(c)
    /\ inq[c] # <<>> => Head(inq[c]).op = asked[c]
    /\ Served => asked[c] = "GetFrame"
    /\ Due(c) => buffSend.op = asked[c] /\ buffSend.to = c
    /\ frame # NoConn => Due(c) /\ frame = c /\ asked[c] = "GetFrame"
    /\ outq[c] # <<>> => /\ Head(outq[c]).op = asked[c]
                         /\ Head(outq[c]).to \in {c, NoConn}

ReplyAt(c) == OneAtATime(c) /\ Greets(c) /\ Denied(c) /\ Ready(c) /\ Waits(c)
ReplyInv == Mappings /\ \A c \in Conns : ReplyAt(c)

(* A queue of one. *)
LEMMA OneElement ==
  ASSUME NEW e
  PROVE  /\ Append(<<>>, e) = <<e>> /\ <<e>> # <<>>
         /\ Head(<<e>>) = e /\ Tail(<<e>>) = <<>>
OBVIOUS


(* The callbacks of one connection. *)
Plain(c) ==
  \/ ServeOpen(c) \/ ServeStart(c) \/ ServeStop(c) \/ ServeSetFrameType(c)
  \/ StorageOpen(c) \/ StorageUse(c) \/ Query(c) \/ HangUp(c)
Null(c) ==
  \E op \in {"Open", "Start", "Stop", "SetFrameType", "Query", "GetFrame"} :
    NullSensor(c, op)
CallbackOf(c) ==
  \/ Established(c) \/ Writeable(c) \/ Closed(c) \/ FindSensors(c)
  \/ Plain(c) \/ Arm(c) \/ Null(c)

(* A callback is one of some connection. *)
LEMMA CallbackCases ==
  ASSUME Callback
  PROVE  \E c \in Conns : CallbackOf(c)
BY DEF Callback, CallbackOf, Plain, Null

(* Hosts and server change the entry of one connection at a time. *)
LEMMA MappingsStep ==
  ASSUME Mappings, [Next]_vars
  PROVE  Mappings'
<1>1. CASE Callback /\ UNCHANGED hostVars
  <2>1. PICK c \in Conns : CallbackOf(c)
    BY <1>1, CallbackCases
  <2>2. CASE Established(c) \/ Writeable(c) \/ Closed(c) \/ FindSensors(c)
    BY <1>1, <2>2 DEF Mappings, hostVars, Established, Writeable, Closed,
                      FindSensors, Taken, NotFrame
  <2>3. CASE Plain(c) \/ Arm(c) \/ Null(c)
    BY <1>1, <2>3 DEF Mappings, hostVars, Plain, ServeOpen, ServeStart,
                      ServeStop, ServeSetFrameType, StorageOpen, StorageUse,
                      Query, HangUp, Arm, Null, NullSensor, Taken, NotFrame
  <2> QED  BY <2>1, <2>2, <2>3 DEF CallbackOf
<1>2. CASE /\ GetFrameStep \/ Watchdog \/ Tick \/ Signal \/ ServerReturns
           /\ UNCHANGED hostVars
  BY <1>2 DEF Mappings, hostVars, wireVars, GetFrameStep, Stamp, WaitForBuffer,
              DequeueBuffer, GetInternalBuffer, EnqueueBuffer,
              WaitOrDequeueFails, FetchFails, EnqueueFails, FrameFails,
              FrameRest, Watchdog, WatchdogLooks, WatchdogLoads,
              WatchdogMeasures, WatchdogExits, WatchRest, Tick, Signal,
              ServerReturns
<1>3. CASE Hosts
  BY <1>3 DEF Mappings, Hosts, Connect, Hear, Ask, Leave, CloseArrives, hostVars
<1>4. CASE ServerDown
  BY <1>4 DEF Mappings, ServerDown, Restart
<1>5. CASE UNCHANGED <<wireVars, hostVars>>
  BY <1>5 DEF Mappings, wireVars, hostVars
<1>6. CASE UNCHANGED vars
  BY <1>5, <1>6 DEF vars, serverVars
<1> QED
  BY <1>1, <1>2, <1>3, <1>4, <1>5, <1>6 DEF Next

(* What ReplyAt speaks of besides the place of the service thread. *)
replyParts == <<wireVars, replyVars, cur, host, asked, got>>

(* The service thread may leave a GetFrame behind, or die. *)
LEMMA ReplySame ==
  ASSUME NEW c, ReplyAt(c), UNCHANGED replyParts, Served' => Served
  PROVE  ReplyAt(c)'
BY DEF ReplyAt, OneAtATime, Greets, Denied, Ready, Waits, Quiet, Due, SkipTrue,
       Single, replyParts, wireVars, replyVars

(* The connection is established, and the greeting is due; what an earlier  *)
(* connection left in the frame buffer or in the flags is still there.      *)
LEMMA EstablishedReply ==
  ASSUME NEW c \in Conns, Mappings, ReplyAt(c), Established(c),
         UNCHANGED hostVars
  PROVE  ReplyAt(c)'
<1> USE DEF ReplyAt, OneAtATime, Greets, Denied, Ready, Waits, Quiet, Due,
            SkipTrue, Served
<1>1. /\ spc' = spc /\ conn[c] = "asking" /\ conn'[c] = "up"
      /\ buffSend'.op = "Greeting"
      /\ c \in writable' /\ UNCHANGED <<inq, outq, frame, buffered, cur>>
      /\ UNCHANGED <<host, asked, got>>
  BY DEF Established, Greeting, Mappings, hostVars
<1>2. inq[c] = <<>> /\ outq[c] = <<>> /\ ~Served
  BY <1>1
<1>3. OneAtATime(c)'
  BY <1>1, <1>2 DEF Single
<1>4. Greets(c)'
  BY <1>1, <1>2
<1>5. Denied(c)' /\ Ready(c)' /\ Waits(c)'
  BY <1>1, <1>2
<1> QED  BY <1>3, <1>4, <1>5

(* A write takes what is due, the frame first; the callback after a         *)
(* buffered write takes nothing.                                            *)
LEMMA WriteableReply ==
  ASSUME NEW c \in Conns, Mappings, ReplyAt(c), Writeable(c),
         UNCHANGED hostVars
  PROVE  ReplyAt(c)'
<1> USE DEF ReplyAt, OneAtATime, Greets, Denied, Ready, Waits, Quiet, Due,
            SkipTrue, Served
<1>1. /\ c \in writable
      /\ UNCHANGED <<spc, conn, inq, buffSend, cur, host, asked, got>>
  BY DEF Writeable, hostVars
<1>2. CASE buffered
  <2>1. /\ buffered' = FALSE /\ c \notin writable'
        /\ UNCHANGED <<outq, frame>>
    BY <1>2 DEF Writeable
  <2> QED  BY <1>1, <1>2, <2>1 DEF Single
<1>3. CASE ~buffered
  <2> DEFINE m == IF frame # NoConn THEN Reply(frame, "GetFrame", TRUE)
                                    ELSE buffSend
  <2>1. outq[c] = <<>> /\ conn[c] \notin {"free", "asking"} /\ ~Served
        /\ inq[c] = <<>>
    BY <1>1, <1>3
  <2>2. outq'[c] = Append(<<>>, m)
    BY <1>3, <2>1 DEF Writeable, Mappings
  <2>3. outq'[c] = <<m>> /\ outq'[c] # <<>> /\ Head(outq'[c]) = m
    BY <2>2, OneElement
  <2>4. frame' = NoConn /\ ~Due(c)' /\ SkipTrue(c)'
    BY <1>1, <1>3 DEF Writeable
  <2>5. /\ frame # NoConn => m.op = "GetFrame" /\ m.to = frame
        /\ frame = NoConn => m = buffSend
    BY DEF Reply
  <2>6. OneAtATime(c)'
    BY <1>1, <2>1, <2>3, <2>4 DEF Single
  <2>7. Greets(c)'
    BY <1>1, <1>3, <2>1, <2>3, <2>4, <2>5
  <2>8. Denied(c)' /\ Ready(c)'
    BY <1>1, <1>3
  <2>9. Waits(c)'
    BY <1>1, <1>3, <2>1, <2>3, <2>4, <2>5
  <2> QED  BY <2>6, <2>7, <2>8, <2>9
<1> QED  BY <1>2, <1>3

(* A closed connection leaves nothing queued. *)
LEMMA ClosedReply ==
  ASSUME NEW c \in Conns, Mappings, ReplyAt(c), Closed(c), UNCHANGED hostVars
  PROVE  ReplyAt(c)'
<1>1. /\ conn[c] = "closing" /\ conn'[c] = "free" /\ ~Served'
      /\ inq'[c] = <<>> /\ outq'[c] = <<>> /\ c \notin writable'
      /\ UNCHANGED <<host, asked, got>>
  BY DEF Closed, Mappings, hostVars, Served, Wait
<1> QED
  BY <1>1 DEF ReplyAt, OneAtATime, Greets, Denied, Ready, Waits, Quiet, Due,
              SkipTrue, Single

(* A request is taken from the queue. *)
LEMMA TakenReply ==
  ASSUME NEW c \in Conns, Mappings, ReplyAt(c), NEW op, Taken(c, op)
  PROVE  /\ inq[c] # <<>> /\ Head(inq[c]).op = op /\ inq'[c] = <<>>
         /\ c \notin writable /\ ~buffered /\ outq[c] = <<>>
         /\ frame = NoConn /\ conn[c] = "up" /\ ~Served
         /\ host[c] \notin {"greet", "denied", "ready"}
         /\ host[c] = "waiting" => asked[c] = op
<1>1. /\ inq[c] # <<>> /\ Head(inq[c]).op = op /\ inq'[c] = Tail(inq[c])
      /\ c \notin writable /\ conn[c] = "up"
  BY DEF Taken, Mappings
<1>2. inq'[c] = <<>>
  BY <1>1, OneElement DEF ReplyAt, OneAtATime, Single
<1> QED
  BY <1>1, <1>2 DEF ReplyAt, OneAtATime, Greets, Denied, Ready, Waits, Quiet,
                    SkipTrue

(* A handler answers the request it took ... *)
LEMMA AnsweredReply ==
  ASSUME NEW c \in Conns, Mappings, ReplyAt(c), NEW op, NEW ok,
         Taken(c, op), Answer(c, op, ok),
         UNCHANGED <<conn, outq, frame, buffered, cur, spc, hostVars>>
  PROVE  ReplyAt(c)'
<1>1. /\ c \in writable' /\ buffSend'.op = op /\ buffSend'.to = c
      /\ UNCHANGED <<host, asked, got>> /\ ~Served'
  BY TakenReply DEF Answer, Reply, hostVars, Served
<1> QED
  BY <1>1, TakenReply DEF ReplyAt, OneAtATime, Greets, Denied, Ready, Waits,
                          Quiet, Due, SkipTrue, Single, Served

(* ... or follows a null pointer ... *)
LEMMA UnansweredReply ==
  ASSUME NEW c \in Conns, Mappings, ReplyAt(c), NEW op, Taken(c, op),
         UNCHANGED <<conn, outq, replyVars, cur, hostVars>>,
         ~Served'
  PROVE  ReplyAt(c)'
<1>1. UNCHANGED <<host, asked, got>>
  BY DEF hostVars
<1> QED
  BY <1>1, TakenReply DEF ReplyAt, OneAtATime, Greets, Denied, Ready, Waits,
                          Quiet, Due, SkipTrue, Single, replyVars

(* ... or starts to wait for a frame. *)
LEMMA ArmReply ==
  ASSUME NEW c \in Conns, Mappings, ReplyAt(c), Arm(c), UNCHANGED hostVars
  PROVE  ReplyAt(c)'
<1>1. /\ Taken(c, "GetFrame") /\ cur' = c
      /\ UNCHANGED <<conn, outq, replyVars>>
      /\ UNCHANGED <<host, asked, got>>
  BY DEF Arm, hostVars
<1> QED
  BY <1>1, TakenReply DEF ReplyAt, OneAtATime, Greets, Denied, Ready, Waits,
                          Quiet, Due, SkipTrue, Single, replyVars

(* The end of a GetFrame is answered to the connection that asked. *)
LEMMA FrameReply ==
  ASSUME NEW c \in Conns, ServerAssumption, Mappings, ReplyAt(c), Served,
         NEW ok, Answer(cur, "GetFrame", ok),
         frame' \in {frame, cur}, ~Served',
         UNCHANGED <<wireVars, buffered, hostVars>>
  PROVE  ReplyAt(c)'
<1>1. /\ cur = c /\ c \in writable' /\ buffSend'.op = "GetFrame"
      /\ buffSend'.to = c /\ UNCHANGED <<host, asked, got>>
      /\ UNCHANGED <<conn, inq, outq>>
      /\ inq[c] = <<>> /\ outq[c] = <<>> /\ frame' \in {NoConn, c}
      /\ ~buffered' /\ conn[c] \notin {"free", "asking"}
  BY DEF Answer, Reply, hostVars, wireVars, ReplyAt, OneAtATime, Quiet
<1> QED
  BY <1>1 DEF ReplyAt, OneAtATime, Greets, Denied, Ready, Waits, Quiet, Due,
              SkipTrue, Single

(* What the server keeps to itself. *)
serverParts == <<replyVars, spc, cur>>

(* A host connects: nothing is on the way yet. *)
LEMMA ConnectReply ==
  ASSUME NEW c \in Conns, Mappings, ReplyAt(c), Connect(c),
         UNCHANGED serverParts
  PROVE  ReplyAt(c)'
<1>1. /\ conn[c] = "free" /\ conn'[c] = "asking" /\ host'[c] = "greet"
      /\ asked'[c] = "Greeting"
      /\ UNCHANGED <<inq, outq, buffSend, frame, writable, buffered, spc, cur>>
  BY DEF Connect, Mappings, serverParts, replyVars
<1> QED
  BY <1>1 DEF ReplyAt, OneAtATime, Greets, Denied, Ready, Waits, Quiet, Due,
              SkipTrue, Served

(* It hears the one message on the way. *)
LEMMA HearReply ==
  ASSUME NEW c \in Conns, Mappings, ReplyAt(c), Hear(c), UNCHANGED serverParts
  PROVE  ReplyAt(c)'
<1> DEFINE m == Head(outq[c])
<1>1. /\ outq[c] # <<>> /\ outq'[c] = Tail(outq[c]) /\ got'[c] = m
      /\ host[c] \in {"greet", "waiting"}
      /\ host'[c] = IF host[c] = "greet" /\ m # Greeting(TRUE)
                      THEN "denied" ELSE "ready"
      /\ UNCHANGED <<conn, inq, asked, buffSend, frame, writable, buffered,
                     spc, cur>>
  BY DEF Hear, Mappings, serverParts, replyVars
<1>2. outq'[c] = <<>>
  BY <1>1, OneElement DEF ReplyAt, OneAtATime, Single
<1>3. inq[c] = <<>> /\ ~Served /\ ~Due(c) /\ conn[c] = "up" /\ SkipTrue(c)
      /\ frame = NoConn
  BY <1>1 DEF ReplyAt, OneAtATime, Greets, Waits, Quiet
<1>4. m = Greeting(TRUE) => m.op = "Greeting" /\ m.to = NoConn
  BY DEF Greeting
<1>5. host'[c] = "ready" => m.op = asked[c] /\ m.to \in {c, NoConn}
  BY <1>1, <1>4 DEF ReplyAt, Greets, Waits
<1> QED
  BY <1>1, <1>2, <1>3, <1>5
  DEF ReplyAt, OneAtATime, Greets, Denied, Ready, Waits, Quiet, Due, SkipTrue,
      Served, Single

(* It asks when nothing else is on the way. *)
LEMMA AskReply ==
  ASSUME NEW c \in Conns, Mappings, ReplyAt(c), Ask(c), UNCHANGED serverParts
  PROVE  ReplyAt(c)'
<1>1. PICK r \in Request : /\ inq' = [inq EXCEPT ![c] = Append(@, r)]
                           /\ asked' = [asked EXCEPT ![c] = r.op]
  BY DEF Ask, Allowed
<1>2. /\ host[c] = "ready" /\ host'[c] = "waiting"
      /\ inq'[c] = Append(inq[c], r) /\ asked'[c] = r.op
      /\ UNCHANGED <<conn, outq, buffSend, frame, writable, buffered, spc, cur>>
  BY <1>1 DEF Ask, Mappings, serverParts, replyVars
<1>3. inq'[c] = <<r>> /\ inq'[c] # <<>> /\ Head(inq'[c]) = r
  BY <1>2, OneElement DEF ReplyAt, Ready, Quiet
<1> QED
  BY <1>2, <1>3
  DEF ReplyAt, OneAtATime, Greets, Denied, Ready, Waits, Quiet, Due, SkipTrue,
      Served, Single

(* It goes, perhaps with a last request; its connection follows. *)
LEMMA LeaveReply ==
  ASSUME NEW c \in Conns, Mappings, ReplyAt(c), Leave(c) \/ CloseArrives(c),
         UNCHANGED serverParts
  PROVE  ReplyAt(c)'
<1>1. UNCHANGED <<outq, buffSend, frame, writable, buffered, spc, cur>>
  BY DEF Leave, CloseArrives, serverParts, replyVars
<1>2. host'[c] = "away"
  BY DEF Leave, CloseArrives, hostVars, Mappings
<1>3. \/ inq'[c] = inq[c]
      \/ \E r : host[c] = "ready" /\ inq'[c] = Append(inq[c], r)
  BY DEF Leave, CloseArrives, Mappings
<1>4. \/ conn'[c] = conn[c]
      \/ conn[c] = "up" /\ conn'[c] = "closing"
      \/ conn[c] = "asking" /\ conn'[c] = "free"
  BY DEF Leave, CloseArrives, Mappings
<1>5. CASE inq'[c] = inq[c]
  BY <1>1, <1>2, <1>4, <1>5
  DEF ReplyAt, OneAtATime, Greets, Denied, Ready, Waits, Quiet, Due, SkipTrue,
      Served, Single
<1>6. ASSUME NEW r, host[c] = "ready", inq'[c] = Append(inq[c], r)
      PROVE  ReplyAt(c)'
  <2>1. inq'[c] = <<r>> /\ inq'[c] # <<>> /\ Head(inq'[c]) = r
    BY <1>6, OneElement DEF ReplyAt, Ready, Quiet
  <2> QED
    BY <1>1, <1>2, <1>4, <1>6, <2>1
    DEF ReplyAt, OneAtATime, Greets, Denied, Ready, Waits, Quiet, Due,
        SkipTrue, Served, Single
<1> QED  BY <1>3, <1>5, <1>6

(* Nothing is left of the connections when the server starts again. *)
LEMMA RestartReply ==
  ASSUME NEW c \in Conns, ServerDown
  PROVE  ReplyAt(c)'
<1>1. /\ conn'[c] = "free" /\ inq'[c] = <<>> /\ outq'[c] = <<>>
      /\ host'[c] = "away" /\ spc' = "idle" /\ writable' = {}
      /\ buffered' = FALSE
  BY DEF ServerDown, Restart
<1> QED
  BY <1>1 DEF ReplyAt, OneAtATime, Greets, Denied, Ready, Waits, Quiet, Due,
              SkipTrue, Served, Wait, Single

(* Nothing is on the way at first. *)
LEMMA ReplyInit == Init => ReplyInv
BY DEF Init, ServerInit, ReplyInv, Mappings, ReplyAt, OneAtATime, Greets,
       Denied, Ready, Waits, Quiet, Due, SkipTrue, Served, Wait, Single

(* A callback of the server keeps the invariant. *)
LEMMA CallbackReply ==
  ASSUME OneHost, ReplyInv, Callback, UNCHANGED hostVars, NEW d \in Conns
  PROVE  ReplyAt(d)'
<1>1. PICK c \in Conns : CallbackOf(c)
  BY CallbackCases
<1>2. c = d /\ Mappings /\ ReplyAt(c)
  BY DEF OneHost, ReplyInv
<1>3. CASE Established(c) \/ Writeable(c) \/ Closed(c)
  BY <1>2, <1>3, EstablishedReply, WriteableReply, ClosedReply
<1>4. CASE Arm(c)
  BY <1>2, <1>4, ArmReply
<1>5. CASE Plain(c)
  <2>1. \E op, ok : Taken(c, op) /\ Answer(c, op, ok)
    BY <1>5 DEF Plain, ServeOpen, ServeStart, ServeStop, ServeSetFrameType,
                StorageOpen, StorageUse, Query, HangUp
  <2>2. UNCHANGED <<conn, outq, frame, buffered, cur, spc>>
    BY <1>5 DEF Plain, ServeOpen, ServeStart, ServeStop, ServeSetFrameType,
                StorageOpen, StorageUse, Query, HangUp, NotFrame
  <2> QED  BY <1>2, <2>1, <2>2, AnsweredReply
<1>6. CASE FindSensors(c)
  <2>1. Taken(c, "FindSensors") /\ UNCHANGED <<conn, outq, frame, buffered, cur>>
    BY <1>6 DEF FindSensors, NotFrame
  <2>2. \/ \E ok : Answer(c, "FindSensors", ok) /\ spc' = spc
        \/ spc' = "crashed" /\ UNCHANGED <<buffSend, writable>>
    BY <1>6 DEF FindSensors
  <2>3. CASE \E ok : Answer(c, "FindSensors", ok) /\ spc' = spc
    BY <1>2, <2>1, <2>3, AnsweredReply
  <2>4. CASE spc' = "crashed" /\ UNCHANGED <<buffSend, writable>>
    BY <1>2, <2>1, <2>4, UnansweredReply DEF replyVars, Served, Wait
  <2> QED  BY <2>2, <2>3, <2>4
<1>7. CASE Null(c)
  <2>1. /\ \E op : Taken(c, op)
        /\ UNCHANGED <<conn, outq, replyVars, cur>> /\ spc' = "crashed"
    BY <1>7 DEF Null, NullSensor, NotFrame, replyVars
  <2> QED  BY <1>2, <2>1, UnansweredReply DEF Served, Wait
<1> QED  BY <1>1, <1>2, <1>3, <1>4, <1>5, <1>6, <1>7 DEF CallbackOf

(* Every step keeps it. *)
LEMMA ReplyStep ==
  ASSUME OneHost, ReplyInv, [Next]_vars
  PROVE  ReplyInv'
<1> SUFFICES ASSUME NEW d \in Conns PROVE ReplyAt(d)'
  BY MappingsStep DEF ReplyInv
<1>0. Mappings /\ ReplyAt(d)
  BY DEF ReplyInv
<1>1. CASE Callback /\ UNCHANGED hostVars
  BY <1>1, CallbackReply
<1>2. CASE GetFrameStep /\ UNCHANGED hostVars
  <2>1. Served
    BY <1>2 DEF GetFrameStep, Stamp, WaitForBuffer, DequeueBuffer,
       GetInternalBuffer, EnqueueBuffer, WaitOrDequeueFails, FetchFails,
       EnqueueFails, Served, Wait
  <2>2. UNCHANGED <<wireVars, buffered, hostVars>>
    BY <1>2 DEF GetFrameStep, Stamp, WaitForBuffer, DequeueBuffer,
       GetInternalBuffer, EnqueueBuffer, WaitOrDequeueFails, FetchFails,
       EnqueueFails, FrameFails, FrameRest, replyVars
  <2>3. \/ UNCHANGED <<replyVars, cur>>
        \/ UNCHANGED replyVars /\ spc' \in {"exited", "aborted"}
        \/ /\ \E ok : Answer(cur, "GetFrame", ok)
           /\ frame' \in {frame, cur} /\ spc' = "idle"
    BY <1>2 DEF GetFrameStep, Stamp, WaitForBuffer, DequeueBuffer,
       GetInternalBuffer, EnqueueBuffer, WaitOrDequeueFails, FetchFails,
       EnqueueFails, FrameFails, Ends, FrameRest, replyVars
  <2>4. CASE UNCHANGED <<replyVars, cur>>
    BY <1>0, <2>1, <2>2, <2>4, ReplySame DEF replyParts, hostVars
  <2>5. CASE UNCHANGED replyVars /\ spc' \in {"exited", "aborted"}
    BY <1>0, <2>1, <2>2, <2>5
    DEF ReplyAt, OneAtATime, Greets, Denied, Ready, Waits, Quiet, Due,
        SkipTrue, Served, Wait, Single, hostVars, replyVars, wireVars
  <2>6. CASE /\ \E ok : Answer(cur, "GetFrame", ok)
             /\ frame' \in {frame, cur} /\ spc' = "idle"
    BY <1>0, <2>1, <2>2, <2>6, FrameReply, ServerAssumption DEF Served, Wait
  <2> QED  BY <2>3, <2>4, <2>5, <2>6
<1>3. CASE /\ Watchdog \/ Tick \/ Signal \/ ServerReturns
           /\ UNCHANGED hostVars
  <2>1. /\ UNCHANGED <<wireVars, replyVars, cur>>
        /\ spc' \in {spc, "exited", "aborted"}
    BY <1>3 DEF Watchdog, WatchdogLooks, WatchdogLoads, WatchdogMeasures,
                WatchdogExits, WatchRest, Tick, Signal, ServerReturns, Ends
  <2>2. UNCHANGED <<host, asked, got>>
    BY <1>3 DEF hostVars
  <2> QED  BY <1>0, <2>1, <2>2, ReplySame DEF replyParts, Served, Wait
<1>4. CASE Hosts /\ UNCHANGED serverParts
  <2>1. PICK c \in Conns : Connect(c) \/ Hear(c) \/ Ask(c) \/ Leave(c) \/ CloseArrives(c)
    BY <1>4 DEF Hosts
  <2>2. c = d
    BY DEF OneHost
  <2> QED
    BY <1>0, <1>4, <2>1, <2>2, ConnectReply, HearReply, AskReply, LeaveReply
<1>5. CASE ServerDown
  BY <1>5, RestartReply
<1>6. CASE UNCHANGED <<replyParts, spc>>
  BY <1>0, <1>6, ReplySame DEF Served, replyParts
<1>7. CASE Fill /\ UNCHANGED <<wireVars, replyVars, spc, cur, hostVars>>
  BY <1>6, <1>7 DEF replyParts, hostVars
<1>8. CASE UNCHANGED vars
  BY <1>6, <1>8 DEF vars, serverVars, replyParts, hostVars
<1> QED
  BY <1>1, <1>2, <1>3, <1>4, <1>5, <1>7, <1>8 DEF Next, serverParts

(* ReplyAnswersRequest of ServerSystem, for hosts that come one after the   *)
(* other: buff_send, buff_frame_to_send, m_frame_ready and                  *)
(* latest_sent_msg_is_was_buffered are shared by all connections, yet a     *)
(* host that has its reply holds the one to its own request, wherever an    *)
(* earlier host vanished and wherever the server was restarted.  Two hosts  *)
(* at a time break it, which is why OneHost is assumed.                     *)
THEOREM OwnReply ==
  ASSUME OneHost
  PROVE  Spec => []ReplyAnswersRequest
<1>1. ReplyInv /\ [Next]_vars => ReplyInv'
  BY ReplyStep
<1>2. ReplyInv => ReplyAnswersRequest
  BY DEF ReplyInv, ReplyAt, Ready, ReplyAnswersRequest
<1> QED  BY ReplyInit, <1>1, <1>2, PTL DEF Spec

------------------------------------------------------------------------------
(* What a host may count on when its search succeeded, and once it opened.  *)
Found == created /\ cam /\ ~engaged /\ object # "none"
Opened == cam /\ object = "opened"

(* The requests a host makes after it opened a sensor. *)
AfterOpen == {"Start", "Stop", "SetFrameType", "GetFrame", "HangUp",
              "StorageOpen", "StorageUse", "Query"}

(* The sensors are not enumerated again while one was never opened. *)
NeverOpened == object = "made" => created /\ ~engaged

(* Where a request stands in the host's sequence. *)
Pending(c) ==
  inq[c] # <<>> =>
    LET op == Head(inq[c]).op IN
    /\ op \in AfterOpen => Opened
    /\ op = "Open" => asked[c] = "Open" /\ (c \in known => cam)
    /\ op \in {"FindSensors", "HangUp"} => stage[c] # "sensor"
    /\ stage[c] = "found" /\ c \in known => op = "FindSensors"
OpenPending(c) == inq[c] # <<>> /\ Head(inq[c]).op = "Open"

(* Where a host may be in its sequence. *)
StageTyped(c) ==
  /\ stage[c] \in {"search", "found", "sensor"}
  /\ host[c] \in {"away", "greet", "ready", "waiting", "denied"}
  /\ stage[c] = "sensor" => host[c] \in {"ready", "waiting"}

(* The host's view of the sensor agrees with the server's. *)
StageTrue(c) ==
  /\ StageTyped(c)
  /\ stage[c] = "found" /\ c \in known => Found
  /\ stage[c] = "sensor" /\ spc # "crashed" => Opened \/ OpenPending(c)

(* A search that is about to be reported as successful was. *)
FoundDue(c) ==
  host[c] = "waiting" =>
    /\ Due(c) /\ buffSend.op = "FindSensors" /\ buffSend.ok => Found
    /\ outq[c] # <<>> /\ Head(outq[c]).op = "FindSensors" /\ Head(outq[c]).ok
         => Found

(* Only a host that opens what it found before the restart crashes it. *)
CrashedBy(c) ==
  spc = "crashed" =>
    /\ asked[c] = "Open" /\ c \notin known
    /\ host[c] \in {"waiting", "away"}
    /\ host[c] = "waiting" => outq[c] = <<>>

KnownAt(c) ==
  /\ NeverOpened /\ Pending(c) /\ StageTrue(c) /\ FoundDue(c) /\ CrashedBy(c)

(* Once the process has ended, its sensors are gone whatever hosts know. *)
Gone == spc \in {"exited", "aborted"}
KnownOrGone(c) == IF Gone THEN StageTyped(c) ELSE KnownAt(c)

CrashInv == ReplyInv /\ \A c \in Conns : KnownOrGone(c)

(* The first connections find no sensor. *)
LEMMA CrashInit == Init => CrashInv
BY ReplyInit
   DEF Init, ServerInit, SensorInit, CrashInv, KnownOrGone, Gone, KnownAt,
       NeverOpened, Pending, StageTrue, StageTyped, FoundDue, CrashedBy, Due

(* What the hosts know and the server holds. *)
lifeParts == <<lifeVars, object, inq, outq, asked, known, host, stage>>

(* Steps that touch neither: replies other than to a search, and the end of *)
(* the process.                                                             *)
LEMMA KnownSame ==
  ASSUME NEW c, KnownAt(c), UNCHANGED lifeParts,
         spc' = "crashed" <=> spc = "crashed",
         \/ Due(c)' => Due(c) /\ UNCHANGED buffSend
         \/ buffSend'.op # "FindSensors"
         \/ host[c] # "waiting"
  PROVE  KnownAt(c)'
BY DEF KnownAt, NeverOpened, Pending, OpenPending, StageTrue, StageTyped,
       FoundDue, CrashedBy, Found, Opened, lifeParts, lifeVars

(* The callbacks that serve no request. *)
LEMMA ConnectionKnown ==
  ASSUME NEW c \in Conns, Mappings, ReplyAt(c), KnownAt(c),
         Established(c) \/ Writeable(c) \/ Closed(c), UNCHANGED hostVars
  PROVE  KnownAt(c)'
<1>0. /\ UNCHANGED <<lifeVars, object, asked, known, host, stage>>
      /\ spc = "idle" /\ spc' = "idle"
  BY DEF Established, Writeable, Closed, hostVars, sensorVars, devVars
<1>1. CASE Established(c)
  <2>1. conn[c] = "asking" /\ UNCHANGED <<inq, outq>>
    BY <1>1 DEF Established
  <2>2. host[c] # "waiting"
    BY <2>1 DEF ReplyAt, Waits
  <2> QED  BY <1>0, <2>1, <2>2, KnownSame DEF lifeParts
<1>2. CASE Writeable(c)
  <2> DEFINE m == IF frame # NoConn THEN Reply(frame, "GetFrame", TRUE)
                                    ELSE buffSend
  <2>1. c \in writable /\ UNCHANGED <<inq, buffSend>> /\ ~Due(c)'
    BY <1>2 DEF Writeable, Due
  <2>2. CASE outq' = outq
    BY <1>0, <2>1, <2>2, KnownSame DEF lifeParts
  <2>3. CASE ~buffered /\ outq' = [outq EXCEPT ![c] = Append(@, m)]
    <3>1. outq[c] = <<>> /\ Due(c)
      BY <2>1, <2>3 DEF ReplyAt, OneAtATime, Due
    <3>2. outq'[c] = <<m>> /\ Head(outq'[c]) = m
      BY <2>3, <3>1, OneElement DEF Mappings
    <3>3. m.op = "FindSensors" => m = buffSend
      BY DEF Reply
    <3>4. FoundDue(c)'
      BY <1>0, <2>1, <3>1, <3>2, <3>3 DEF KnownAt, FoundDue, Found, lifeVars
    <3> QED
      BY <1>0, <2>1, <3>4 DEF KnownAt, NeverOpened, Pending, OpenPending,
         StageTrue, StageTyped, CrashedBy, Found, Opened, lifeVars
  <2> QED  BY <1>2, <2>2, <2>3 DEF Writeable
<1>3. CASE Closed(c)
  <2>1. /\ conn[c] = "closing" /\ inq'[c] = <<>> /\ outq'[c] = <<>>
        /\ c \notin writable'
    BY <1>3 DEF Closed, Mappings
  <2>2. host[c] \notin {"ready", "waiting"}
    BY <2>1 DEF ReplyAt, Waits, Ready
  <2> QED
    BY <1>0, <2>1, <2>2 DEF KnownAt, NeverOpened, Pending, OpenPending,
       StageTrue, StageTyped, FoundDue, CrashedBy, Found, Opened, lifeVars
<1> QED  BY <1>1, <1>2, <1>3

(* A request of an open sensor is served by an open sensor. *)
LEMMA PlainKnown ==
  ASSUME NEW c \in Conns, Mappings, ReplyAt(c), KnownAt(c), Plain(c),
         UNCHANGED hostVars
  PROVE  KnownAt(c)'
<1>0. UNCHANGED <<asked, known, host, stage, outq, buffered>> /\ spc' = spc
  BY DEF Plain, ServeOpen, ServeStart, ServeStop, ServeSetFrameType,
         StorageOpen, StorageUse, Query, HangUp, hostVars, NotFrame
<1>1. PICK op \in AfterOpen \cup {"Open"} :
        /\ Taken(c, op) /\ \E ok : Answer(c, op, ok)
        /\ op = "Open" => ServeOpen(c)
        /\ op = "HangUp" => HangUp(c)
        /\ op \notin {"Open", "HangUp"} => Plain(c) /\ ~HangUp(c) /\ ~ServeOpen(c)
  <2>1. CASE ServeOpen(c)
    BY <2>1 DEF ServeOpen
  <2>2. CASE HangUp(c)
    BY <2>2 DEF HangUp, AfterOpen
  <2>3. CASE ~ServeOpen(c) /\ ~HangUp(c)
    BY <2>3 DEF Plain, ServeStart, ServeStop, ServeSetFrameType, StorageOpen,
                StorageUse, Query, AfterOpen
  <2> QED  BY <2>1, <2>2, <2>3
<1>2. /\ inq[c] # <<>> /\ Head(inq[c]).op = op /\ inq'[c] = <<>>
      /\ outq[c] = <<>> /\ ~Served /\ spc = "idle" /\ buffSend'.op = op
  <2>1. Taken(c, op)
    BY <1>1
  <2>2. PICK ok : Answer(c, op, ok)
    BY <1>1
  <2>3. buffSend'.op = op
    BY <2>2 DEF Answer, Reply
  <2>4. inq[c] # <<>> /\ Head(inq[c]).op = op /\ spc = "idle"
    BY <2>1 DEF Taken
  <2> QED  BY <2>1, <2>3, <2>4, TakenReply
<1>3. stage[c] = "found" => c \notin known
  BY <1>1, <1>2 DEF KnownAt, Pending, AfterOpen
<1>4. NeverOpened' /\ (stage[c] = "sensor" => Opened')
  <2>1. CASE op = "Open"
    BY <1>1, <2>1 DEF ServeOpen, Open, FreshDevice, NeverOpened, Opened
  <2>2. CASE op = "HangUp"
    <3>1. Opened /\ stage[c] # "sensor"
      BY <1>2, <2>2 DEF KnownAt, Pending, AfterOpen
    <3>2. object' = object
      BY <1>1, <2>2 DEF HangUp, sensorVars, devVars
    <3> QED  BY <3>1, <3>2 DEF NeverOpened, Opened
  <2>3. CASE op \notin {"Open", "HangUp"}
    <3>1. Opened
      BY <1>1, <1>2, <2>3 DEF KnownAt, Pending
    <3>2. cam' = cam
      BY <1>1, <2>3 DEF Plain, ServeStart, ServeStop, ServeSetFrameType,
                        StorageOpen, StorageUse, Query, lifeVars
    <3>3. object' \in {object, "opened"}
      BY <1>1, <2>3 DEF Plain, ServeStart, ServeStop, ServeSetFrameType,
                        StorageOpen, StorageUse, Query, sensorVars, devVars,
                        Start, Stop, SetFrameType
    <3> QED  BY <3>1, <3>2, <3>3 DEF NeverOpened, Opened
  <2> QED  BY <2>1, <2>2, <2>3
<1> QED
  BY <1>0, <1>1, <1>2, <1>3, <1>4
  DEF KnownAt, Pending, StageTrue, StageTyped, FoundDue, CrashedBy, AfterOpen

(* A search enumerates when nobody is engaged and the sensor has been       *)
(* opened, or there is none.                                                *)
LEMMA FindKnown ==
  ASSUME NEW c \in Conns, Mappings, ReplyAt(c), KnownAt(c), FindSensors(c),
         UNCHANGED hostVars
  PROVE  KnownAt(c)'
<1>0. UNCHANGED <<asked, known, host, stage, outq>>
  BY DEF FindSensors, hostVars, NotFrame
<1>1. /\ inq[c] # <<>> /\ Head(inq[c]).op = "FindSensors" /\ inq'[c] = <<>>
      /\ outq[c] = <<>> /\ spc = "idle"
  BY TakenReply DEF FindSensors, Taken
<1>2. stage[c] # "sensor"
  BY <1>1 DEF KnownAt, Pending
<1>3. CASE engaged \/ ~created
  <2>1. object # "made"
    BY <1>3 DEF KnownAt, NeverOpened
  <2>2. stage[c] = "found" => c \notin known
    BY <1>3 DEF KnownAt, StageTrue, StageTyped, Found
  <2>3. /\ spc' = spc
        /\ NeverOpened'
        /\ buffSend'.ok => Found'
    <3>1. CASE /\ Answer(c, "FindSensors", FALSE) /\ spc' = spc
               /\ object' = object
      BY <2>1, <3>1 DEF Answer, Reply, NeverOpened
    <3>2. CASE /\ Construct /\ created' = TRUE /\ cam' = TRUE
               /\ engaged' = FALSE /\ spc' = spc
      BY <3>2 DEF Construct, NeverOpened, Found
    <3>3. CASE /\ object' = "none" /\ Answer(c, "FindSensors", FALSE)
               /\ spc' = spc
      BY <3>3 DEF Answer, Reply, NeverOpened
    <3> QED
      BY <1>3, <2>1, <3>1, <3>2, <3>3 DEF FindSensors, Destructible,
         sensorVars, devVars
  <2> QED
    BY <1>0, <1>1, <1>2, <2>2, <2>3
    DEF KnownAt, Pending, StageTrue, StageTyped, FoundDue, CrashedBy
<1>4. CASE ~engaged /\ created
  <2>1. /\ cam' = (object # "none") /\ created' = created
        /\ engaged' = FALSE /\ spc' = spc /\ object' = object
        /\ Answer(c, "FindSensors", object # "none")
    BY <1>4 DEF FindSensors, sensorVars, devVars
  <2>2. NeverOpened' /\ (buffSend'.ok => Found')
    BY <1>4, <2>1 DEF NeverOpened, Found, Answer, Reply
  <2>3. stage[c] = "found" /\ c \in known => Found'
    BY <1>4, <2>1 DEF KnownAt, StageTrue, StageTyped, Found
  <2> QED
    BY <1>0, <1>1, <1>2, <2>1, <2>2, <2>3
    DEF KnownAt, Pending, StageTrue, StageTyped, FoundDue, CrashedBy
<1> QED  BY <1>3, <1>4

(* A GetFrame starts, or the server follows a null pointer. *)
LEMMA TakenKnown ==
  ASSUME NEW c \in Conns, Mappings, ReplyAt(c), KnownAt(c), Arm(c) \/ Null(c),
         UNCHANGED hostVars
  PROVE  KnownAt(c)'
<1>0. /\ UNCHANGED <<lifeVars, object, asked, known, host, stage, outq>>
      /\ UNCHANGED <<buffSend, writable, buffered>>
  BY DEF Arm, Null, NullSensor, NotFrame, hostVars, replyVars, sensorVars,
         devVars
<1>1. PICK op \in AfterOpen \cup {"Open"} :
        /\ Taken(c, op)
        /\ (Arm(c) /\ op = "GetFrame") \/ NullSensor(c, op)
  BY DEF Arm, Null, NullSensor, AfterOpen
<1>2. /\ inq[c] # <<>> /\ Head(inq[c]).op = op /\ inq'[c] = <<>>
      /\ outq[c] = <<>> /\ spc = "idle"
      /\ host[c] \notin {"greet", "denied", "ready"}
      /\ c \notin writable
  BY <1>1, TakenReply DEF Taken
<1>3. stage[c] = "found" => c \notin known
  BY <1>1, <1>2 DEF KnownAt, Pending, AfterOpen
<1>4. CASE Arm(c) /\ op = "GetFrame"
  <2>1. Opened /\ spc' = "stamp"
    BY <1>2, <1>4 DEF KnownAt, Pending, AfterOpen, Arm
  <2> QED
    BY <1>0, <1>2, <1>3, <2>1
    DEF KnownAt, NeverOpened, Pending, StageTrue, StageTyped, FoundDue,
        CrashedBy, Due, Found, Opened, lifeVars
<1>5. CASE NullSensor(c, op)
  <2>1. ~cam /\ spc' = "crashed"
    BY <1>5 DEF NullSensor
  <2>2. asked[c] = "Open" /\ c \notin known
    BY <1>1, <1>2, <2>1 DEF KnownAt, Pending, Opened
  <2> QED
    BY <1>0, <1>2, <1>3, <2>1, <2>2
    DEF KnownAt, NeverOpened, Pending, StageTrue, StageTyped, FoundDue,
        CrashedBy, Due, Found, Opened, lifeVars
<1> QED  BY <1>1, <1>4, <1>5

(* What the hosts do. *)
LEMMA HostsKnown ==
  ASSUME NEW c \in Conns, Mappings, ReplyAt(c), KnownAt(c),
         Connect(c) \/ Hear(c) \/ Ask(c) \/ Leave(c) \/ CloseArrives(c),
         UNCHANGED <<serverParts, lifeVars, object>>
  PROVE  KnownAt(c)'
<1>0. UNCHANGED <<buffSend, writable, buffered, spc>> /\ NeverOpened'
  BY DEF serverParts, replyVars, lifeVars, KnownAt, NeverOpened
<1>1. CASE Connect(c)
  <2>1. /\ host'[c] = "greet" /\ host[c] = "away" /\ inq[c] = <<>>
        /\ spc # "crashed"
        /\ UNCHANGED <<inq, outq, stage, known>>
    BY <1>1 DEF Connect, Mappings, Alive, ReplyAt, OneAtATime, Quiet
  <2> QED
    BY <1>0, <2>1 DEF KnownAt, Pending, OpenPending, StageTrue, StageTyped,
       FoundDue, CrashedBy, Found, Opened, lifeVars
<1>2. CASE Hear(c)
  <2> DEFINE m == Head(outq[c])
  <2>1. /\ outq[c] # <<>> /\ host[c] \in {"greet", "waiting"}
        /\ host'[c] \in {"ready", "denied"}
        /\ host'[c] = "ready" \/ host[c] = "greet"
        /\ UNCHANGED <<inq, asked>>
    BY <1>2 DEF Hear, Mappings
  <2>2. inq[c] = <<>> /\ spc # "crashed"
    BY <2>1 DEF ReplyAt, OneAtATime, KnownAt, CrashedBy
  <2>3. \/ /\ m.op = "FindSensors" /\ m.ok /\ stage'[c] = "found"
        \/ stage'[c] = "search"
        \/ /\ ~(m.op = "FindSensors" /\ m.ok) /\ stage'[c] = stage[c]
           /\ known' = known
    BY <1>2 DEF Hear, Mappings
  <2>4. m.op = "FindSensors" => host[c] = "waiting"
    BY <2>1 DEF ReplyAt, Greets
  <2>5. m.op = "FindSensors" /\ m.ok => Found
    BY <2>1, <2>4 DEF KnownAt, FoundDue
  <2> QED
    BY <1>0, <2>1, <2>2, <2>3, <2>5
    DEF KnownAt, Pending, OpenPending, StageTrue, StageTyped, FoundDue,
        CrashedBy, Found, Opened, lifeVars
<1>3. CASE Ask(c)
  <2>1. PICK r \in Allowed(c) :
          /\ inq' = [inq EXCEPT ![c] = Append(@, r)]
          /\ asked' = [asked EXCEPT ![c] = r.op]
          /\ stage' = [stage EXCEPT ![c] = IF r.op = "Open" THEN "sensor" ELSE @]
    BY <1>3 DEF Ask
  <2>2. /\ host[c] = "ready" /\ host'[c] = "waiting" /\ spc # "crashed"
        /\ inq[c] = <<>> /\ outq[c] = <<>> /\ ~Due(c)
        /\ UNCHANGED <<outq, known>>
    BY <1>3 DEF Ask, Mappings, KnownAt, CrashedBy, ReplyAt, Ready, Quiet
  <2>3. /\ inq'[c] = <<r>> /\ inq'[c] # <<>> /\ Head(inq'[c]) = r
        /\ asked'[c] = r.op
        /\ stage'[c] = IF r.op = "Open" THEN "sensor" ELSE stage[c]
    BY <2>1, <2>2, OneElement DEF Mappings
  <2>4. /\ stage[c] = "search" => r.op = "FindSensors"
        /\ stage[c] = "found" => r.op \in {"FindSensors", "Open"}
        /\ stage[c] = "sensor" => r.op \in AfterOpen \ {"HangUp"}
    BY DEF Allowed, AfterOpen
  <2>5. /\ stage[c] \in {"search", "found", "sensor"}
        /\ stage[c] = "sensor" => Opened
        /\ stage[c] = "found" /\ c \in known => Found
    BY <2>2 DEF KnownAt, StageTrue, StageTyped, OpenPending
  <2>6. Pending(c)'
    BY <1>0, <2>2, <2>3, <2>4, <2>5
    DEF Pending, AfterOpen, Found, Opened, lifeVars
  <2>7. StageTrue(c)'
    BY <1>0, <2>2, <2>3, <2>4, <2>5
    DEF StageTrue, StageTyped, OpenPending, Found, Opened, lifeVars
  <2>8. FoundDue(c)' /\ CrashedBy(c)'
    BY <1>0, <2>2 DEF FoundDue, CrashedBy, Due
  <2> QED  BY <1>0, <2>6, <2>7, <2>8 DEF KnownAt
<1>4. CASE Leave(c)
  <2>1. /\ host'[c] = "away" /\ UNCHANGED <<outq, asked, known>>
        /\ host[c] # "away" => stage'[c] \in {"search", "found"}
        /\ stage'[c] = "found" <=> stage[c] = "found"
        /\ host[c] # "away"
    BY <1>4 DEF Leave, Mappings
  <2>2. stage'[c] \in {"search", "found"}
    BY <2>1
  <2>3. CASE inq' = inq
    BY <1>0, <2>1, <2>2, <2>3
    DEF KnownAt, Pending, OpenPending, StageTrue, StageTyped, FoundDue,
        CrashedBy, Found, Opened, lifeVars
  <2>4. CASE /\ host[c] = "ready" /\ stage[c] = "sensor"
             /\ inq' = [inq EXCEPT ![c] =
                          Append(@, [op |-> "HangUp", type |-> NoType])]
    <3> DEFINE r == [op |-> "HangUp", type |-> NoType]
    <3>1. inq[c] = <<>>
      BY <2>4 DEF ReplyAt, Ready, Quiet
    <3>2. inq'[c] = <<r>> /\ Head(inq'[c]).op = "HangUp"
      BY <2>4, <3>1, OneElement DEF Mappings
    <3>3. spc # "crashed" /\ Opened
      BY <2>4, <3>1 DEF KnownAt, StageTrue, StageTyped, CrashedBy, OpenPending
    <3> QED
      BY <1>0, <2>1, <2>2, <2>4, <3>2, <3>3
      DEF KnownAt, Pending, OpenPending, StageTrue, StageTyped, FoundDue,
          CrashedBy, Found, Opened, lifeVars, AfterOpen
  <2> QED  BY <1>4, <2>3, <2>4 DEF Leave
<1>5. CASE CloseArrives(c)
  <2>1. UNCHANGED <<inq, outq, asked, known, host, stage>>
    BY <1>5 DEF CloseArrives, hostVars
  <2> QED  BY <1>0, <2>1, KnownSame DEF lifeParts, Due
<1> QED  BY <1>1, <1>2, <1>3, <1>4, <1>5

(* Hosts go on when the server has ended. *)
LEMMA HostsTyped ==
  ASSUME NEW c \in Conns, Mappings, StageTyped(c),
         Connect(c) \/ Hear(c) \/ Ask(c) \/ Leave(c) \/ CloseArrives(c)
  PROVE  StageTyped(c)'
<1>1. CASE Connect(c)
  BY <1>1 DEF Connect, Mappings, StageTyped
<1>2. CASE Hear(c)
  <2>1. /\ host'[c] = "ready" \/ (host'[c] = "denied" /\ host[c] = "greet")
        /\ stage'[c] \in {"found", "search", stage[c]}
    BY <1>2 DEF Hear, Mappings
  <2> QED  BY <2>1 DEF StageTyped
<1>3. CASE Ask(c)
  <2>1. host'[c] = "waiting" /\ stage'[c] \in {"sensor", stage[c]}
    BY <1>3 DEF Ask, Mappings
  <2> QED  BY <2>1 DEF StageTyped
<1>4. CASE Leave(c)
  BY <1>4 DEF Leave, Mappings, StageTyped
<1>5. CASE CloseArrives(c)
  BY <1>5 DEF CloseArrives, hostVars, StageTyped
<1> QED  BY <1>1, <1>2, <1>3, <1>4, <1>5

(* After a restart no host has found a sensor in this life of the server.   *)
LEMMA RestartKnown ==
  ASSUME NEW c \in Conns, Mappings, StageTyped(c), ServerDown
  PROVE  KnownAt(c)'
<1>1. /\ inq'[c] = <<>> /\ outq'[c] = <<>> /\ host'[c] = "away"
      /\ stage'[c] = IF host[c] = "away" THEN stage[c] ELSE "search"
      /\ spc' = "idle" /\ known' = {} /\ object' = "none"
  BY DEF ServerDown, Restart, SensorGone
<1> QED
  BY <1>1 DEF KnownAt, NeverOpened, Pending, OpenPending, StageTrue,
              StageTyped, FoundDue, CrashedBy

(* Every step keeps the invariant. *)
LEMMA CrashStep ==
  ASSUME OneHost, CrashInv, [Next]_vars
  PROVE  CrashInv'
<1> SUFFICES ASSUME NEW d \in Conns PROVE KnownOrGone(d)'
  BY ReplyStep DEF CrashInv
<1>0. /\ Mappings /\ ReplyAt(d) /\ StageTyped(d)
      /\ ~Gone => KnownAt(d)
      /\ KnownAt(d)' => KnownOrGone(d)'
  BY DEF CrashInv, ReplyInv, KnownOrGone, KnownAt, StageTrue
<1>1. CASE Callback /\ UNCHANGED hostVars
  <2>1. CallbackOf(d)
    BY <1>1, CallbackCases DEF OneHost
  <2>2. ~Gone
    BY <2>1 DEF CallbackOf, Established, Writeable, Closed, FindSensors,
       Plain, ServeOpen, ServeStart, ServeStop, ServeSetFrameType,
       StorageOpen, StorageUse, Query, HangUp, Arm, Null, NullSensor, Taken,
       Gone
  <2> QED
    BY <1>0, <1>1, <2>1, <2>2, ConnectionKnown, PlainKnown, FindKnown, TakenKnown
    DEF CallbackOf
<1>2. CASE GetFrameStep /\ UNCHANGED hostVars
  <2>1. /\ UNCHANGED <<wireVars, lifeVars, object>> /\ ~Gone
        /\ spc # "crashed" /\ spc' # "crashed"
        /\ UNCHANGED replyVars \/ buffSend'.op = "GetFrame"
    BY <1>2 DEF GetFrameStep, Stamp, WaitForBuffer, DequeueBuffer,
       GetInternalBuffer, EnqueueBuffer, WaitOrDequeueFails, FetchFails,
       EnqueueFails, FrameFails, Ends, FrameRest, replyVars, Answer, Reply,
       Dequeue, Enqueue, EnqueueRefused, sensorVars, devVars, Gone
  <2> QED
    BY <1>0, <1>2, <2>1, KnownSame
    DEF lifeParts, wireVars, hostVars, replyVars, Due
<1>3. CASE /\ Watchdog \/ Tick \/ Signal
           /\ UNCHANGED hostVars
  <2>1. /\ UNCHANGED <<wireVars, replyVars, lifeVars, object>>
        /\ spc' \in {spc, "exited"} /\ spc # "crashed" /\ ~Gone
    BY <1>3 DEF Watchdog, WatchdogLooks, WatchdogLoads, WatchdogMeasures,
       WatchdogExits, WatchRest, Tick, Signal, Alive, Gone, sensorVars, devVars
  <2> QED
    BY <1>0, <1>3, <2>1, KnownSame
    DEF lifeParts, wireVars, hostVars, replyVars, Due
<1>9. CASE ServerReturns /\ UNCHANGED hostVars
  <2>1. Gone' /\ StageTyped(d)
    BY <1>0, <1>9 DEF ServerReturns, Ends, Gone
  <2> QED  BY <1>9, <2>1 DEF KnownOrGone, StageTyped, hostVars
<1>4. CASE Hosts /\ UNCHANGED <<serverParts, lifeVars, sensorVars>>
  <2>1. PICK c \in Conns : Connect(c) \/ Hear(c) \/ Ask(c) \/ Leave(c) \/ CloseArrives(c)
    BY <1>4 DEF Hosts
  <2>2. c = d
    BY DEF OneHost
  <2>3. CASE Gone
    BY <1>0, <1>4, <2>1, <2>2, <2>3, HostsTyped
    DEF KnownOrGone, Gone, serverParts
  <2> QED
    BY <1>0, <1>4, <2>1, <2>2, <2>3, HostsKnown DEF sensorVars, devVars
<1>5. CASE ServerDown
  BY <1>0, <1>5, RestartKnown
<1>6. CASE UNCHANGED <<lifeParts, replyVars, spc>>
  <2>1. CASE Gone
    BY <1>0, <1>6, <2>1 DEF KnownOrGone, Gone, StageTyped, lifeParts
  <2> QED  BY <1>0, <1>6, <2>1, KnownSame DEF replyVars, Due
<1>7. CASE Fill /\ UNCHANGED <<wireVars, replyVars, lifeVars, spc, hostVars>>
  BY <1>6, <1>7 DEF lifeParts, wireVars, hostVars, Fill, devVars
<1>8. CASE UNCHANGED vars
  BY <1>6, <1>8 DEF vars, serverVars, wireVars, hostVars, sensorVars, devVars,
                    lifeParts
<1> QED
  BY <1>1, <1>2, <1>3, <1>4, <1>5, <1>7, <1>8, <1>9 DEF Next, serverParts

(* SensorBehindRequest of ServerSystem, for hosts that come one after the   *)
(* other: search, open and hang-up keep camDepthSensor, depthSensors and    *)
(* what the host knows of them in step, so that no request goes through a   *)
(* null pointer or destroys an unopened sensor object, except for a host    *)
(* that opens a sensor it found before the server was restarted.  What the  *)
(* end of the process destroys is not claimed here: CleanExit is violated.  *)
THEOREM NoNullSensor ==
  ASSUME OneHost
  PROVE  Spec => []SensorBehindRequest
<1>1. CrashInv /\ [Next]_vars => CrashInv'
  BY CrashStep
<1>2. CrashInv => SensorBehindRequest
  <2> SUFFICES ASSUME CrashInv, spc = "crashed"
               PROVE  \E c \in Conns : asked[c] = "Open" /\ c \notin known
    BY DEF SensorBehindRequest
  <2> QED  BY DEF OneHost, CrashInv, KnownOrGone, Gone, KnownAt, CrashedBy
<1> QED  BY CrashInit, <1>1, <1>2, PTL DEF Spec
=============================================================================
