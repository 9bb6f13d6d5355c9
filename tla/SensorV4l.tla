------------------------------ MODULE SensorV4l ------------------------------
(***************************************************************************)
(* Adsd3500Sensor on the board: the sensor object, its video device and    *)
(* the V4L2 buffer queue of the driver behind it.  The operators are the   *)
(* methods of the class; a caller conjoins one of them with its own state  *)
(* change and learns the returned status st.                               *)
(*                                                                         *)
(* Buffers are 1..NBuf.  The driver (external) keeps the ones queued with  *)
(* it and the ones it has filled; a buffer in neither set is with the      *)
(* program.                                                                *)
(***************************************************************************)
EXTENDS Naturals, FiniteSets

CONSTANTS
  NBuf,         \* buffers requested per stream (1 + EXTRA_BUFFERS_COUNT)
  FrameTypes,   \* frame types the host may ask for
  NoType        \* m_implData->frameType before the first setFrameType

ASSUME SensorAssumption ==
  /\ NBuf \in Nat \ {0}
  /\ NoType \notin FrameTypes

VARIABLES
  object,      \* "none", "made" (videoDevs is null) or "opened"
  fd,          \* dev->fd is an open descriptor
  started,     \* dev->started
  mapped,      \* dev->nVideoBuffers
  frameType,   \* m_implData->frameType
  mode,        \* frame type the sensor was last switched to (CTRL_SET_MODE)
  owner,       \* who holds the driver's queue: "none", "dev", "leaked"
  streaming,   \* the driver streams
  queued,      \* buffers waiting to be filled
  filled,      \* buffers waiting to be dequeued
  lost         \* buffers of the stream whose VIDIOC_QBUF failed

devVars == <<object, fd, started, mapped, frameType, mode>>
driverVars == <<owner, streaming, queued, filled, lost>>
sensorVars == <<devVars, driverVars>>

Buffers == 1..NBuf
Status == {"OK", "BUSY", "ERROR"}

SensorInit ==
  /\ object = "none"
  /\ fd = FALSE
  /\ started = FALSE
  /\ mapped = 0
  /\ frameType = NoType
  /\ mode = NoType
  /\ owner = "none"
  /\ streaming = FALSE
  /\ queued = {}
  /\ filled = {}
  /\ lost = {}

SensorTypeOK ==
  /\ object \in {"none", "made", "opened"}
  /\ fd \in BOOLEAN
  /\ started \in BOOLEAN
  /\ mapped \in 0..NBuf
  /\ frameType \in FrameTypes \cup {NoType}
  /\ mode \in FrameTypes \cup {NoType}
  /\ owner \in {"none", "dev", "leaked"}
  /\ streaming \in BOOLEAN
  /\ queued \in SUBSET Buffers
  /\ filled \in SUBSET Buffers
  /\ lost \in SUBSET Buffers

------------------------------------------------------------------------------
(* The driver: it fills buffers while it streams. *)
Fill ==
  /\ streaming
  /\ \E b \in queued : queued' = queued \ {b} /\ filled' = filled \cup {b}
  /\ UNCHANGED <<devVars, owner, streaming, lost>>

(* Closing the descriptor that owns the queue ends streaming and frees the  *)
(* buffers; a descriptor that is only forgotten keeps them.                 *)
QueueFreed ==
  /\ owner' = "none"
  /\ streaming' = FALSE
  /\ queued' = {}
  /\ filled' = {}
  /\ lost' = {}

QueueForgotten ==
  /\ owner' = IF owner = "dev" THEN "leaked" ELSE owner
  /\ UNCHANGED <<streaming, queued, filled, lost>>

ClosesDevice == IF owner = "dev" THEN QueueFreed ELSE UNCHANGED driverVars

------------------------------------------------------------------------------
(* The constructor leaves videoDevs null. *)
Construct ==
  /\ object' = "made"
  /\ fd' = FALSE
  /\ started' = FALSE
  /\ mapped' = 0
  /\ frameType' = NoType
  /\ mode' = NoType

(* open() makes new VideoDevs first and may fail before or after the        *)
(* descriptor is open.  The old array is forgotten, not closed.             *)
FreshDevice(st) ==
  /\ object' = "opened"
  /\ started' = FALSE
  /\ mapped' = 0
  /\ st \in {"OK", "ERROR"}
  /\ IF st = "OK" THEN fd' = TRUE ELSE fd' \in BOOLEAN

Open(st) ==
  /\ FreshDevice(st)
  /\ QueueForgotten
  /\ UNCHANGED <<frameType, mode>>

(* start(): queue every mapped buffer, then STREAMON.  Queueing fails on a  *)
(* buffer the driver has already, STREAMON without buffers or on a queue    *)
(* that another descriptor holds; both may fail for reasons of the driver.  *)
(* What was queued stays queued.                                            *)
Start(st) ==
  \/ /\ started
     /\ st = "BUSY"
     /\ UNCHANGED sensorVars
  \/ /\ ~started
     /\ st = "ERROR"
     /\ \E k \in 0..mapped :
          /\ 1..k \cap (queued \cup filled) = {}
          /\ queued' = queued \cup 1..k
     /\ UNCHANGED <<devVars, owner, streaming, filled, lost>>
  \/ /\ ~started
     /\ st = "OK"
     /\ fd /\ mapped > 0 /\ owner = "dev"
     /\ 1..mapped \cap (queued \cup filled) = {}
     /\ queued' = 1..mapped
     /\ streaming' = TRUE
     /\ started' = TRUE
     /\ lost' = {}
     /\ UNCHANGED <<object, fd, mapped, frameType, mode, owner, filled>>

(* stop(): STREAMOFF gives every buffer back to the program. *)
Stop(st) ==
  \/ /\ ~started
     /\ st = "BUSY"
     /\ UNCHANGED sensorVars
  \/ /\ started
     /\ st = "ERROR"
     /\ UNCHANGED sensorVars
  \/ /\ started
     /\ st = "OK"
     /\ started' = FALSE
     /\ streaming' = FALSE
     /\ queued' = {}
     /\ filled' = {}
     /\ lost' = {}
     /\ UNCHANGED <<object, fd, mapped, frameType, mode, owner>>

(* Mutant of SetFrameType: nVideoBuffers is set before the buffers are      *)
(* mapped.                                                                  *)
SetFrameTypeCountsFirst(t, st) ==
  /\ object' = "opened"
  /\ started' = FALSE
  /\ fd' = TRUE
  /\ mode' = t
  /\ mapped' = NBuf
  /\ owner' = "dev"
  /\ streaming' = FALSE
  /\ queued' = {}
  /\ filled' = {}
  /\ lost' = {}
  /\ \/ st = "ERROR" /\ UNCHANGED frameType
     \/ st = "OK" /\ frameType' = t

(* setFrameType(): stop, unmap and close everything, open again, switch the *)
(* sensor, request and map the buffers.  A failure returns at once: with no *)
(* buffer, before or after the mode was set, or with only some of the       *)
(* buffers mapped.  A queue held by a forgotten descriptor makes the        *)
(* request for buffers fail.  Only success records the type.                *)
SetFrameType(t, st) ==
  /\ object' = "opened"
  /\ started' = FALSE
  /\ \/ /\ st = "ERROR"
        /\ fd' \in BOOLEAN
        /\ mapped' = 0
        /\ mode' \in IF fd' THEN {mode, t} ELSE {mode}
        /\ ClosesDevice
        /\ UNCHANGED frameType
     \/ /\ owner # "leaked"
        /\ fd' = TRUE
        /\ mode' = t
        /\ owner' = "dev"
        /\ streaming' = FALSE
        /\ queued' = {}
        /\ filled' = {}
        /\ lost' = {}
        /\ \/ st = "ERROR" /\ mapped' \in 0..(NBuf - 1) /\ UNCHANGED frameType
           \/ st = "OK" /\ mapped' = NBuf /\ frameType' = t

(* The destructor stops and closes the device.  For an object that was     *)
(* never opened it follows a null pointer: callers say what happens then.   *)
Destructible == object # "made"

(* The process is gone and with it the object; the kernel closes its files. *)
SensorGone ==
  /\ object' = "none"
  /\ fd' = FALSE
  /\ started' = FALSE
  /\ mapped' = 0
  /\ frameType' = NoType
  /\ mode' = NoType
  /\ QueueFreed

------------------------------------------------------------------------------
(* The two calls of a frame that move buffers: dequeue a filled one, queue  *)
(* it again.  One that cannot be queued stays with the program.             *)
Dequeue(b) ==
  /\ b \in filled
  /\ filled' = filled \ {b}
  /\ UNCHANGED <<devVars, owner, streaming, queued, lost>>

Enqueue(b) ==
  /\ queued' = queued \cup {b}
  /\ UNCHANGED <<devVars, owner, streaming, filled, lost>>

EnqueueRefused(b) ==
  /\ lost' = lost \cup {b}
  /\ UNCHANGED <<devVars, owner, streaming, queued, filled>>
==============================================================================
