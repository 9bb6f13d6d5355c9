---------------------------- MODULE ServerSystem -----------------------------
(***************************************************************************)
(* aditof-server and its hosts.  A host follows the SDK: it connects to    *)
(* look for sensors, connects again to open one, waits for the reply to    *)
(* every request and hangs up before it goes.  Each connection identifier  *)
(* stands for a host of its own.                                           *)
(***************************************************************************)
EXTENDS FrameServer

CONSTANT Vanish   \* hosts may also vanish while they wait for a reply

VARIABLES
  host,    \* per host: "away", "greet", "ready", "waiting", "denied"
  stage,   \* per host: "search", "found", "sensor"
  asked,   \* per host: the request it waits for
  got,     \* per host: the reply to its last request, Empty until then
  known    \* hosts whose sensor was found in this life of the server (history)

hostVars == <<host, stage, asked, got, known>>
vars == <<serverVars, hostVars>>

Init ==
  /\ ServerInit
  /\ host = [c \in Conns |-> "away"]
  /\ stage = [c \in Conns |-> "search"]
  /\ asked = [c \in Conns |-> "Greeting"]
  /\ got = [c \in Conns |-> Empty]
  /\ known = {}

------------------------------------------------------------------------------
Connect(c) ==
  /\ Alive
  /\ host[c] = "away" /\ conn[c] = "free"
  /\ conn' = [conn EXCEPT ![c] = "asking"]
  /\ host' = [host EXCEPT ![c] = "greet"]
  /\ asked' = [asked EXCEPT ![c] = "Greeting"]
  /\ UNCHANGED <<inq, outq, stage, got, known>>

(* A reply ends the wait; a host that is not greeted goes away. *)
Hear(c) ==
  /\ host[c] \in {"greet", "waiting"}
  /\ outq[c] # <<>>
  /\ LET m == Head(outq[c]) IN
     /\ got' = [got EXCEPT ![c] = m]
     /\ host' = [host EXCEPT ![c] =
          IF host[c] = "greet" /\ m # Greeting(TRUE) THEN "denied" ELSE "ready"]
     /\ stage' = [stage EXCEPT ![c] =
          CASE m.op = "FindSensors" /\ m.ok -> "found"
            [] m.op = "Open" /\ ~m.ok -> "search"
            [] OTHER -> @]
     /\ known' = IF m.op = "FindSensors" /\ m.ok THEN known \cup {c} ELSE known
  /\ outq' = [outq EXCEPT ![c] = Tail(@)]
  /\ UNCHANGED <<conn, inq, asked>>

Allowed(c) ==
  {r \in Request :
     CASE stage[c] = "search" -> r.op = "FindSensors"
       [] stage[c] = "found"  -> r.op \in {"FindSensors", "Open"}
       [] stage[c] = "sensor" ->
            r.op \in {"SetFrameType", "Start", "Stop", "GetFrame",
                      "StorageOpen", "StorageUse", "Query"}}

(* A host looks for sensors and opens them on different connections. *)
Ask(c) ==
  /\ host[c] = "ready"
  /\ ~(stage[c] = "found" /\ asked[c] = "FindSensors")
  /\ conn[c] = "up"
  /\ \E r \in Allowed(c) :
       /\ inq' = [inq EXCEPT ![c] = Append(@, r)]
       /\ asked' = [asked EXCEPT ![c] = r.op]
       /\ stage' = [stage EXCEPT ![c] = IF r.op = "Open" THEN "sensor" ELSE @]
  /\ host' = [host EXCEPT ![c] = "waiting"]
  /\ got' = [got EXCEPT ![c] = Empty]
  /\ UNCHANGED <<conn, outq, known>>

(* The host closes: between requests (hanging up if it had opened a sensor) *)
(* or, when Vanish, at any time.  Losing the server is the same to it.      *)
Leave(c) ==
  /\ host[c] \in {"ready", "denied"} \/ (Vanish /\ host[c] # "away")
  /\ conn[c] \in {"asking", "up"}
  /\ IF host[c] = "ready" /\ stage[c] = "sensor" /\ conn[c] = "up" /\ inq[c] = <<>>
       THEN inq' = [inq EXCEPT ![c] = Append(@, [op |-> "HangUp", type |-> NoType])]
       ELSE UNCHANGED inq
  /\ host' = [host EXCEPT ![c] = "away"]
  /\ stage' = [stage EXCEPT ![c] = IF @ = "found" THEN @ ELSE "search"]
  /\ got' = [got EXCEPT ![c] = Empty]
  /\ UNCHANGED <<conn, outq, asked, known>>

(* The close reaches the server after the request before it. *)
CloseArrives(c) ==
  /\ host[c] = "away"
  /\ conn[c] \in {"asking", "up"}
  /\ inq[c] = <<>>
  /\ conn' = [conn EXCEPT ![c] = IF @ = "up" THEN "closing" ELSE "free"]
  /\ UNCHANGED <<inq, outq, hostVars>>

Hosts ==
  \E c \in Conns : Connect(c) \/ Hear(c) \/ Ask(c) \/ Leave(c) \/ CloseArrives(c)

ServerDown ==
  /\ Restart
  /\ host' = [c \in Conns |-> "away"]
  /\ stage' = [c \in Conns |-> IF host[c] = "away" THEN stage[c] ELSE "search"]
  /\ asked' = [c \in Conns |-> "Greeting"]
  /\ got' = [c \in Conns |-> Empty]
  /\ known' = {}

Next ==
  \/ (Callback \/ GetFrameStep \/ Watchdog \/ Tick \/ Signal \/ ServerReturns)
       /\ UNCHANGED hostVars
  \/ Fill /\ UNCHANGED <<wireVars, replyVars, clientVars, lifeVars, spc, cur,
                         held, fails, watchVars, interrupted, hostVars>>
  \/ Hosts /\ UNCHANGED <<replyVars, clientVars, lifeVars, spc, cur, held,
                          fails, watchVars, interrupted, sensorVars>>
  \/ ServerDown

Spec == Init /\ [][Next]_vars

------------------------------------------------------------------------------
Wait == {"stamp", "wait", "dequeue", "fetch", "enqueue"}

(* The types of the server's, the sensor's and the hosts' variables. *)
TypeOK ==
  /\ SensorTypeOK
  /\ conn \in [Conns -> {"free", "asking", "up", "closing"}]
  /\ inq \in [Conns -> Seq(Request)]
  /\ outq \in [Conns -> Seq(Replies)]
  /\ oneClient \in BOOLEAN
  /\ another \in BOOLEAN
  /\ buffSend \in Replies
  /\ frame \in Conns \cup {NoConn}
  /\ writable \in SUBSET Conns
  /\ buffered \in BOOLEAN
  /\ created \in BOOLEAN
  /\ cam \in BOOLEAN
  /\ engaged \in BOOLEAN
  /\ spc \in Wait \cup {"idle", "exited", "crashed", "aborted"}
  /\ cur \in Conns \cup {NoConn}
  /\ held \in 0..NBuf
  /\ fails \in 0..FailLimit
  /\ inProgress \in BOOLEAN
  /\ age \in 0..(FrameLimit + 1)
  /\ lasted \in 0..(FrameLimit + 1)
  /\ wpc \in {"sleep", "load", "measure", "doomed"}
  /\ elapsed \in 0..(FrameLimit + 1)
  /\ since \in 0..(FrameLimit + 1)
  /\ interrupted \in BOOLEAN
  /\ host \in [Conns -> {"away", "greet", "ready", "waiting", "denied"}]
  /\ stage \in [Conns -> {"search", "found", "sensor"}]
  /\ got \in [Conns -> Replies]
  /\ known \subseteq Conns

(* A host that has its reply holds the one to its own request: buff_send,   *)
(* the frame buffer and the flags that go with them are never written for   *)
(* the wrong request nor a second time.  It holds for hosts that come one   *)
(* after the other; a second host that connects meanwhile breaks it.        *)
ReplyAnswersRequest ==
  \A c \in Conns :
    host[c] = "ready" =>
      got[c].op = asked[c] /\ got[c].to \in {c, NoConn}

(* No request reaches the sensor through a null pointer or destroys an      *)
(* object that was never opened: search, open and hang-up keep              *)
(* camDepthSensor and depthSensors in step.  The one way out is a host that *)
(* opens a sensor it found before the server was restarted.  The end of the *)
(* process is another matter: see CleanExit.                                *)
SensorBehindRequest ==
  spc = "crashed" => \E c \in Conns : asked[c] = "Open" /\ c \notin known

(* dev->started tells the truth about the driver, and every buffer of a     *)
(* stream is with the driver or in the GetFrame that is being served,       *)
(* whatever step of earlier ones failed: only a failed VIDIOC_QBUF takes    *)
(* one away, until the stream is started again.                             *)
StreamHasItsBuffers ==
  owner # "leaked" =>
    /\ started = streaming
    /\ started => 1..mapped \ ({held} \cup lost) = queued \cup filled

(* A stream with all its buffers delivers the frame type that was recorded  *)
(* as set: a setFrameType that failed half-way cannot be started in full.   *)
FullStreamHasItsType ==
  started /\ mapped = NBuf /\ mode # NoType => frameType = mode

(* The watchdog condemns the process only when the GetFrame that it saw in  *)
(* progress began longer ago than the limit, although its flag, start time  *)
(* and clock are read one after the other while requests come and go: never *)
(* for the time since an earlier GetFrame.                                  *)
WatchdogJustified ==
  [][wpc # "doomed" /\ wpc' = "doomed" => since > FrameLimit]_vars

(* Its message claims more, "GetFrame has been blocked for": a watchdog     *)
(* that is held up between the flag and the clock condemns a server whose   *)
(* GetFrame has ended meanwhile.                                            *)
BlockedWhenCondemned ==
  [][wpc # "doomed" /\ wpc' = "doomed"
       => inProgress /\ lasted > FrameLimit]_vars

(* A signal ends the server in order: cleanup_sensors() is called for it.   *)
(* A sensor that was found and never opened makes it die of a null pointer. *)
CleanExit == spc # "aborted"

(* A client that was answered "Connection Allowed" is the only one: the     *)
(* README says "Only one client can be connected to the server at a time".  *)
OneClientAtATime ==
  \A c, d \in Conns :
    host[c] \in {"ready", "waiting"} /\ host[d] \in {"ready", "waiting"} => c = d

(* The first thing a client hears is whether it may stay. *)
GreetedFirst ==
  \A c \in Conns : host[c] = "denied" => got[c].op = "Greeting"

------------------------------------------------------------------------------
(* Time passes (the watchdog sleeps a second between two looks), the        *)
(* watchdog runs and systemd restarts the server.  Nothing is assumed of    *)
(* the calls into the driver: they may block for ever.                      *)
Fairness ==
  /\ WF_vars(Tick /\ UNCHANGED hostVars)
  /\ WF_vars(Watchdog /\ UNCHANGED hostVars)
  /\ WF_vars(Stamp /\ UNCHANGED hostVars)
  /\ WF_vars(ServerDown)

FairSpec == Spec /\ Fairness

(* A GetFrame that is stuck in the driver does not hold the server for      *)
(* ever, unless a signal has ended the watchdog's loop before.              *)
StuckFrameEnds == inProgress ~> ~inProgress \/ interrupted
==============================================================================
