----------------------------- MODULE FrameServer -----------------------------
(***************************************************************************)
(* aditof-server (apps/server/server.cpp): one thread serves the websocket *)
(* callbacks and runs the requests against the sensor; a second thread,    *)
(* get_frame_watchdog, ends the process when a GetFrame is stuck.  All     *)
(* connections share one reply buffer (buff_send), one frame buffer and    *)
(* the flags that go with them.                                            *)
(*                                                                         *)
(* The websocket library is external: it calls back one connection at a    *)
(* time, serves a pending write before the next read of the same           *)
(* connection, and drops what a closed connection still had queued.        *)
(***************************************************************************)
EXTENDS SensorV4l, Sequences

CONSTANTS
  Conns,        \* connections of clients
  NoConn,
  FrameLimit,   \* kGetFrameHardTimeoutMs, in ticks
  FailLimit     \* kMaxConsecutiveGetFrameFailures

ASSUME ServerAssumption ==
  /\ NoConn \notin Conns
  /\ FrameLimit \in Nat \ {0}
  /\ FailLimit \in Nat \ {0}

VARIABLES
  conn,        \* per connection: "free", "asking", "up", "closing"
  inq,         \* requests on the way to the server
  outq,        \* replies on the way to the client
  oneClient,   \* Client_Connected
  another,     \* no_of_client_connected
  buffSend,    \* buff_send: the reply to write next
  frame,       \* NoConn, or whom the frame in buff_frame_to_send is for (m_frame_ready)
  writable,    \* connections with a pending write callback
  buffered,    \* latest_sent_msg_is_was_buffered
  created,     \* sensors_are_created
  cam,         \* camDepthSensor is not null
  engaged,     \* clientEngagedWithSensors
  spc,         \* where the service thread is
  cur,         \* the connection whose GetFrame is served
  held,        \* the buffer GetFrame has dequeued, 0 for none
  fails,       \* consecutiveGetFrameFailures
  inProgress,  \* getFrameInProgress
  age,         \* ticks since getFrameStartedMs, up to FrameLimit + 1
  lasted,      \* ticks the GetFrame has been served, 0 without (history)
  wpc,         \* where the watchdog thread is
  elapsed,     \* ticks since the start time it has loaded
  since,       \* ticks since the GetFrame it saw in progress began (history)
  interrupted  \* SIGINT or SIGTERM was received

wireVars == <<conn, inq, outq>>
replyVars == <<buffSend, frame, writable, buffered>>
clientVars == <<oneClient, another>>
lifeVars == <<created, cam, engaged>>
dogVars == <<wpc, elapsed, since>>
watchVars == <<inProgress, age, lasted, dogVars>>
serverVars == <<wireVars, replyVars, clientVars, lifeVars, spc, cur, held,
                fails, watchVars, interrupted, sensorVars>>

PlainOps == {"FindSensors", "Open", "Start", "Stop", "GetFrame", "HangUp",
             "StorageOpen", "StorageUse", "Query"}
Request == [op : PlainOps, type : {NoType}]
             \cup [op : {"SetFrameType"}, type : FrameTypes]
Greeting(ok) == [op |-> "Greeting", to |-> NoConn, ok |-> ok]
Reply(c, op, ok) == [op |-> op, to |-> c, ok |-> ok]
Replies == [op : PlainOps \cup {"Greeting", "SetFrameType", "Empty"},
            to : Conns \cup {NoConn}, ok : BOOLEAN]
Empty == Reply(NoConn, "Empty", TRUE)

ServerInit ==
  /\ conn = [c \in Conns |-> "free"]
  /\ inq = [c \in Conns |-> <<>>]
  /\ outq = [c \in Conns |-> <<>>]
  /\ oneClient = FALSE
  /\ another = FALSE
  /\ buffSend = Empty
  /\ frame = NoConn
  /\ writable = {}
  /\ buffered = FALSE
  /\ created = FALSE
  /\ cam = FALSE
  /\ engaged = FALSE
  /\ spc = "idle"
  /\ cur = NoConn
  /\ held = 0
  /\ fails = 0
  /\ inProgress = FALSE
  /\ age = FrameLimit + 1
  /\ lasted = 0
  /\ wpc = "sleep"
  /\ elapsed = 0
  /\ since = 0
  /\ interrupted = FALSE
  /\ SensorInit

------------------------------------------------------------------------------
(* The websocket callbacks.                                                 *)

(* LWS_CALLBACK_ESTABLISHED: the greeting goes to the shared buffer. *)
Established(c) ==
  /\ spc = "idle"
  /\ conn[c] = "asking"
  /\ conn' = [conn EXCEPT ![c] = "up"]
  /\ buffSend' = Greeting(~oneClient)
  /\ oneClient' = TRUE
  /\ another' = (another \/ oneClient)
  /\ writable' = writable \cup {c}
  /\ UNCHANGED <<inq, outq, frame, buffered, lifeVars, spc, cur, held, fails,
                 watchVars, interrupted, sensorVars>>

(* Mutant of Writeable: m_frame_ready is not cleared. *)
WriteableAgain(c) ==
  /\ spc = "idle"
  /\ c \in writable
  /\ writable' = writable \ {c}
  /\ outq' = [outq EXCEPT ![c] =
       Append(@, IF frame # NoConn THEN Reply(frame, "GetFrame", TRUE) ELSE buffSend)]
  /\ UNCHANGED <<conn, inq, buffSend, frame, buffered, clientVars, lifeVars,
                 spc, cur, held, fails, watchVars, interrupted, sensorVars>>

(* LWS_CALLBACK_SERVER_WRITEABLE: skip the callback that follows a buffered *)
(* write, else write the frame if there is one, else buff_send.  The        *)
(* library may buffer part of a write; it then calls back once more.        *)
Writeable(c) ==
  /\ spc = "idle"
  /\ c \in writable
  /\ \/ /\ buffered
        /\ buffered' = FALSE
        /\ writable' = writable \ {c}
        /\ UNCHANGED <<outq, frame>>
     \/ /\ ~buffered
        /\ outq' = [outq EXCEPT ![c] =
             Append(@, IF frame # NoConn THEN Reply(frame, "GetFrame", TRUE)
                                         ELSE buffSend)]
        /\ frame' = NoConn
        /\ \/ buffered' = TRUE /\ UNCHANGED writable
           \/ buffered' = FALSE /\ writable' = writable \ {c}
  /\ UNCHANGED <<conn, inq, buffSend, clientVars, lifeVars, spc, cur, held,
                 fails, watchVars, interrupted, sensorVars>>

(* LWS_CALLBACK_CLOSED: the two flags tell which client it was. *)
Closed(c) ==
  /\ spc = "idle"
  /\ conn[c] = "closing"
  /\ IF oneClient /\ ~another
       THEN oneClient' = FALSE /\ UNCHANGED another
       ELSE another' = FALSE /\ UNCHANGED oneClient
  /\ conn' = [conn EXCEPT ![c] = "free"]
  /\ inq' = [inq EXCEPT ![c] = <<>>]
  /\ outq' = [outq EXCEPT ![c] = <<>>]
  /\ writable' = writable \ {c}
  /\ UNCHANGED <<buffSend, frame, buffered, lifeVars, spc, cur, held, fails,
                 watchVars, interrupted, sensorVars>>

------------------------------------------------------------------------------
(* LWS_CALLBACK_RECEIVE: take a request and run it (invoke_sdk_api).        *)
Taken(c, op) ==
  /\ spc = "idle"
  /\ conn[c] = "up"
  /\ c \notin writable
  /\ inq[c] # <<>>
  /\ Head(inq[c]).op = op
  /\ inq' = [inq EXCEPT ![c] = Tail(@)]

Answer(c, op, ok) ==
  /\ buffSend' = Reply(c, op, ok)
  /\ writable' = writable \cup {c}

(* What every handler but GetFrame leaves alone. *)
NotFrame == <<conn, outq, frame, buffered, clientVars, cur, held, fails,
              watchVars, interrupted>>

(* A handler that calls through camDepthSensor: without it the process      *)
(* dies of a null pointer.                                                  *)
NullSensor(c, op) ==
  /\ Taken(c, op)
  /\ ~cam
  /\ spc' = "crashed"
  /\ UNCHANGED <<NotFrame, buffSend, writable, lifeVars, sensorVars>>

(* Mutant of FindSensors: the sensors are enumerated again on every search. *)
FindSensorsAlways(c) ==
  /\ Taken(c, "FindSensors")
  /\ \/ /\ Destructible
        /\ ClosesDevice
        /\ Construct
        /\ created' = TRUE /\ cam' = TRUE /\ engaged' = FALSE
        /\ Answer(c, "FindSensors", TRUE)
        /\ UNCHANGED spc
     \/ /\ ~Destructible
        /\ spc' = "crashed"
        /\ UNCHANGED <<buffSend, writable, lifeVars, sensorVars>>
  /\ UNCHANGED NotFrame

(* FIND_SENSORS: sensors some client engaged with are dropped first, which  *)
(* makes the enumeration run again; the old sensor object lives until the   *)
(* enumerator clears depthSensors.  There may be no enumerator and no       *)
(* sensor.                                                                  *)
FindSensors(c) ==
  LET again == engaged \/ ~created IN
  /\ Taken(c, "FindSensors")
  /\ engaged' = FALSE
  /\ \/ /\ again
        /\ created' = FALSE
        /\ cam' = (cam /\ ~engaged)
        /\ Answer(c, "FindSensors", FALSE)
        /\ UNCHANGED <<spc, sensorVars>>
     \/ /\ again /\ Destructible
        /\ created' = TRUE
        /\ ClosesDevice
        /\ \/ Construct /\ cam' = TRUE /\ Answer(c, "FindSensors", TRUE)
           \/ /\ object' = "none"
              /\ fd' = FALSE /\ started' = FALSE /\ mapped' = 0
              /\ frameType' = NoType /\ mode' = NoType
              /\ cam' = (cam /\ ~engaged)
              /\ Answer(c, "FindSensors", FALSE)
        /\ UNCHANGED spc
     \/ /\ again /\ ~Destructible
        /\ spc' = "crashed"
        /\ UNCHANGED <<created, cam, buffSend, writable, sensorVars>>
     \/ /\ ~again
        /\ cam' = (object # "none")
        /\ Answer(c, "FindSensors", object # "none")
        /\ UNCHANGED <<created, spc, sensorVars>>
  /\ UNCHANGED NotFrame

(* OPEN engages the client whatever open() returned. *)
ServeOpen(c) ==
  /\ Taken(c, "Open")
  /\ cam
  /\ \E st \in Status : Open(st) /\ Answer(c, "Open", st = "OK")
  /\ engaged' = TRUE
  /\ UNCHANGED <<NotFrame, created, cam, spc>>

ServeStart(c) ==
  /\ Taken(c, "Start")
  /\ cam
  /\ \E st \in Status : Start(st) /\ Answer(c, "Start", st = "OK")
  /\ UNCHANGED <<NotFrame, lifeVars, spc>>

ServeStop(c) ==
  /\ Taken(c, "Stop")
  /\ cam
  /\ \E st \in Status : Stop(st) /\ Answer(c, "Stop", st = "OK")
  /\ UNCHANGED <<NotFrame, lifeVars, spc>>

ServeSetFrameType(c) ==
  /\ Taken(c, "SetFrameType")
  /\ cam
  /\ \E st \in Status :
       /\ SetFrameType(Head(inq[c]).type, st)
       /\ Answer(c, "SetFrameType", st = "OK")
  /\ UNCHANGED <<NotFrame, lifeVars, spc>>

(* Opening a storage or a temperature sensor engages the client too, once   *)
(* the index and the handle are accepted.                                   *)
StorageOpen(c) ==
  /\ Taken(c, "StorageOpen")
  /\ \/ cam /\ engaged' = TRUE
     \/ UNCHANGED engaged
  /\ \E ok \in BOOLEAN : Answer(c, "StorageOpen", ok)
  /\ UNCHANGED <<NotFrame, created, cam, spc, sensorVars>>

(* Reading, writing and closing them needs no camDepthSensor: their lists   *)
(* are empty when it is null.                                               *)
StorageUse(c) ==
  /\ Taken(c, "StorageUse")
  /\ \E ok \in IF cam THEN BOOLEAN ELSE {FALSE} : Answer(c, "StorageUse", ok)
  /\ UNCHANGED <<NotFrame, lifeVars, spc, sensorVars>>

(* The requests that only pass data between host and sensor: registers,     *)
(* controls, ADSD3500 commands, frame types and firmware.                   *)
Query(c) ==
  /\ Taken(c, "Query")
  /\ cam
  /\ \E ok \in BOOLEAN : Answer(c, "Query", ok)
  /\ UNCHANGED <<NotFrame, lifeVars, spc, sensorVars>>

(* HANG_UP drops the references; the object itself stays in depthSensors.   *)
(* A reply is written although the host does not wait for one.              *)
HangUp(c) ==
  /\ Taken(c, "HangUp")
  /\ created' = FALSE
  /\ cam' = (cam /\ ~created)
  /\ engaged' = (engaged /\ ~created)
  /\ Answer(c, "HangUp", TRUE)
  /\ UNCHANGED <<NotFrame, spc, sensorVars>>

------------------------------------------------------------------------------
(* GET_FRAME, one action per blocking call, since the watchdog runs beside. *)
FrameRest == <<wireVars, clientVars, lifeVars, dogVars, interrupted>>

(* Mutant of Arm: getFrameInProgress is stored before getFrameStartedMs. *)
ArmEarly(c) ==
  /\ Taken(c, "GetFrame")
  /\ cam
  /\ spc' = "stamp"
  /\ cur' = c
  /\ inProgress' = TRUE
  /\ UNCHANGED <<conn, outq, replyVars, clientVars, lifeVars, held, fails,
                 age, lasted, dogVars, interrupted, sensorVars>>

(* The constructor of ScopedGetFrameWatch: time first, then the flag. *)
Arm(c) ==
  /\ Taken(c, "GetFrame")
  /\ cam
  /\ spc' = "stamp"
  /\ cur' = c
  /\ age' = 0
  /\ UNCHANGED <<conn, outq, replyVars, clientVars, lifeVars, held, fails,
                 inProgress, lasted, dogVars, interrupted, sensorVars>>

Stamp ==
  /\ spc = "stamp"
  /\ spc' = "wait"
  /\ inProgress' = TRUE
  /\ UNCHANGED <<FrameRest, replyVars, cur, held, fails, age, lasted, sensorVars>>

(* waitForBuffer succeeds when a buffer is ready, or when select reports a  *)
(* queue that does not stream.                                              *)
WaitForBuffer ==
  /\ spc = "wait"
  /\ filled # {} \/ ~streaming
  /\ spc' = "dequeue"
  /\ UNCHANGED <<FrameRest, replyVars, cur, held, fails, inProgress, age,
                 lasted, sensorVars>>

DequeueBuffer ==
  /\ spc = "dequeue"
  /\ \E b \in Buffers : Dequeue(b) /\ held' = b
  /\ spc' = "fetch"
  /\ UNCHANGED <<FrameRest, replyVars, cur, fails, inProgress, age, lasted>>

GetInternalBuffer ==
  /\ spc = "fetch"
  /\ spc' = "enqueue"
  /\ UNCHANGED <<FrameRest, replyVars, cur, held, fails, inProgress, age,
                 lasted, sensorVars>>

(* VIDIOC_QBUF, then the frame is ready and the failures are forgotten. *)
EnqueueBuffer ==
  /\ spc = "enqueue"
  /\ Enqueue(held)
  /\ held' = 0
  /\ frame' = cur
  /\ Answer(cur, "GetFrame", TRUE)
  /\ fails' = 0
  /\ inProgress' = FALSE
  /\ spc' = "idle"
  /\ cur' = NoConn
  /\ lasted' = 0
  /\ UNCHANGED <<FrameRest, buffered, age>>

(* When the process ends by exit() or by the return of main(), depthSensors *)
(* and with it the sensor are destroyed: an object that was never opened    *)
(* makes that end abort.                                                    *)
Ends == spc' = IF Destructible THEN "exited" ELSE "aborted"

(* note_get_frame_failure: the third failure in a row ends the process,     *)
(* anything else is reported to the client.                                 *)
FrameFails(fatal) ==
  /\ fails' = fails + 1
  /\ IF fatal \/ fails + 1 >= FailLimit
       THEN Ends /\ UNCHANGED <<buffSend, writable, inProgress>>
       ELSE /\ spc' = "idle"
            /\ Answer(cur, "GetFrame", FALSE)
            /\ inProgress' = FALSE
  /\ cur' = NoConn
  /\ held' = 0
  /\ lasted' = 0
  /\ UNCHANGED <<FrameRest, frame, buffered, age>>

WaitOrDequeueFails ==
  /\ spc \in {"wait", "dequeue"}
  /\ FrameFails(FALSE)
  /\ UNCHANGED sensorVars

(* Mutant of FetchFails: the buffer is not given back. *)
FetchFailsLeaks ==
  /\ spc = "fetch"
  /\ \E fatal \in BOOLEAN : FrameFails(fatal)
  /\ UNCHANGED sensorVars

(* getInternalBuffer or malloc fails: the buffer goes back to the driver,   *)
(* and nobody looks whether it did.                                         *)
FetchFails ==
  /\ spc = "fetch"
  /\ Enqueue(held) \/ EnqueueRefused(held)
  /\ \E fatal \in BOOLEAN : FrameFails(fatal)

(* VIDIOC_QBUF fails: the buffer stays with the program. *)
EnqueueFails ==
  /\ spc = "enqueue"
  /\ EnqueueRefused(held)
  /\ FrameFails(FALSE)

GetFrameStep ==
  \/ Stamp \/ WaitForBuffer \/ DequeueBuffer \/ GetInternalBuffer
  \/ EnqueueBuffer \/ WaitOrDequeueFails \/ FetchFails \/ EnqueueFails

------------------------------------------------------------------------------
(* The watchdog thread looks at the flag, loads the start time and reads    *)
(* the clock; time may pass, and the GetFrame end, between any two of them. *)
WatchRest == <<wireVars, replyVars, clientVars, lifeVars, cur, held, fails,
               inProgress, age, lasted, interrupted, sensorVars>>
Alive == spc \notin {"exited", "crashed", "aborted"}

WatchdogLooks ==
  /\ Alive /\ ~interrupted
  /\ wpc = "sleep"
  /\ inProgress
  /\ wpc' = "load"
  /\ since' = lasted
  /\ UNCHANGED <<WatchRest, spc, elapsed>>

WatchdogLoads ==
  /\ Alive
  /\ wpc = "load"
  /\ wpc' = "measure"
  /\ elapsed' = age
  /\ UNCHANGED <<WatchRest, spc, since>>

(* Mutant of WatchdogMeasures: the comparison is the wrong way round. *)
WatchdogMisjudges ==
  /\ Alive
  /\ wpc = "measure"
  /\ wpc' = "sleep"
  /\ elapsed' = 0 /\ since' = 0
  /\ UNCHANGED <<WatchRest, spc>>

WatchdogMeasures ==
  /\ Alive
  /\ wpc = "measure"
  /\ wpc' = IF elapsed > FrameLimit THEN "doomed" ELSE "sleep"
  /\ elapsed' = 0 /\ since' = 0
  /\ UNCHANGED <<WatchRest, spc>>

(* _exit(): nothing is destroyed. *)
WatchdogExits ==
  /\ Alive
  /\ wpc = "doomed"
  /\ spc' = "exited"
  /\ UNCHANGED <<WatchRest, dogVars>>

Watchdog ==
  WatchdogLooks \/ WatchdogLoads \/ WatchdogMeasures \/ WatchdogExits

(* Time passes, for all that is measured; past the limit it is not counted. *)
Later(ticks) == IF ticks > FrameLimit THEN ticks ELSE ticks + 1

Tick ==
  /\ Alive
  /\ age <= FrameLimit
  /\ age' = age + 1
  /\ lasted' = IF spc = "idle" THEN lasted ELSE lasted + 1
  /\ elapsed' = IF wpc = "measure" THEN Later(elapsed) ELSE elapsed
  /\ since' = IF wpc \in {"load", "measure"} THEN Later(since) ELSE since
  /\ UNCHANGED <<wireVars, replyVars, clientVars, lifeVars, spc, cur, held,
                 fails, inProgress, wpc, interrupted, sensorVars>>

------------------------------------------------------------------------------
(* SIGINT or SIGTERM; the service loop tests the flag between rounds of     *)
(* callbacks.                                                               *)
Signal ==
  /\ Alive /\ ~interrupted
  /\ interrupted' = TRUE
  /\ UNCHANGED <<wireVars, replyVars, clientVars, lifeVars, spc, cur, held,
                 fails, watchVars, sensorVars>>

(* The loop ends: cleanup_sensors(), join the watchdog, return from main(). *)
(* depthSensors is not cleared and dies with the process.                   *)
ServerReturns ==
  /\ interrupted
  /\ spc = "idle" /\ wpc = "sleep"
  /\ created' = FALSE
  /\ cam' = (cam /\ ~created)
  /\ engaged' = (engaged /\ ~created)
  /\ Ends
  /\ IF Destructible THEN SensorGone ELSE UNCHANGED sensorVars
  /\ UNCHANGED <<wireVars, replyVars, clientVars, cur, held, fails,
                 watchVars, interrupted>>

(* systemd (Restart=on-failure) starts the server again after a failure,    *)
(* unless it was told to stop; the kernel has closed its descriptors and    *)
(* connections meanwhile.                                                   *)
Restart ==
  /\ ~Alive /\ ~interrupted
  /\ oneClient' = FALSE
  /\ another' = FALSE
  /\ buffSend' = Empty
  /\ frame' = NoConn
  /\ writable' = {}
  /\ buffered' = FALSE
  /\ created' = FALSE
  /\ cam' = FALSE
  /\ engaged' = FALSE
  /\ spc' = "idle"
  /\ cur' = NoConn
  /\ held' = 0
  /\ fails' = 0
  /\ inProgress' = FALSE
  /\ age' = FrameLimit + 1
  /\ lasted' = 0
  /\ wpc' = "sleep"
  /\ elapsed' = 0
  /\ since' = 0
  /\ interrupted' = FALSE
  /\ SensorGone
  /\ conn' = [c \in Conns |-> "free"]
  /\ inq' = [c \in Conns |-> <<>>]
  /\ outq' = [c \in Conns |-> <<>>]

Callback ==
  \E c \in Conns :
    \/ Established(c) \/ Writeable(c) \/ Closed(c)
    \/ FindSensors(c) \/ ServeOpen(c) \/ ServeStart(c) \/ ServeStop(c)
    \/ ServeSetFrameType(c) \/ StorageOpen(c) \/ StorageUse(c)
    \/ Query(c) \/ HangUp(c)
    \/ Arm(c)
    \/ \E op \in {"Open", "Start", "Stop", "SetFrameType", "Query", "GetFrame"} :
         NullSensor(c, op)
==============================================================================
