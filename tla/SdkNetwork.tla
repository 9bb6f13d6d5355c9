----------------------------- MODULE SdkNetwork ------------------------------
(***************************************************************************)
(* The host side of the SDK's remote calls: class Network (network.cpp),   *)
(* used by NetworkDepthSensor and NetworkSensorEnumerator.  The            *)
(* application thread connects, sends a request (SendCommand), waits for   *)
(* the reply (recv_server_data) and destroys the object; the service       *)
(* thread (call_lws_service) runs the websocket callbacks.  They share     *)
(* static flags and buffers under two mutexes and a condition variable.    *)
(*                                                                         *)
(* A request is the number of its call; the greeting is number 0.  The     *)
(* websocket library, the link and the server are external: the server     *)
(* answers every request once, in order.  A wait may end at any time; the  *)
(* history late says that one has ended with its answer still to come.     *)
(***************************************************************************)
EXTENDS Integers, Sequences

CONSTANTS
  MaxCalls,   \* bound on the calls of the application
  MaxRetry    \* MAX_RETRY_CNT

ASSUME SdkAssumption ==
  /\ MaxCalls \in Nat \ {0}
  /\ MaxRetry \in Nat \ {0}

VARIABLES
  apc,            \* where the application thread is
  why,            \* what SendCommand and recv_server_data serve: "greet", "call", "bye"
  resend,         \* SendCommand was called from recv_server_data
  sendTry,        \* numRetry of SendCommand
  recvTry,        \* numRetry of recv_server_data
  call,           \* number of the latest call
  outcome,        \* what it returned: "none", "ok", "failed"
  sendBuff,       \* send_buff: the request in it, or None
  recvBuff,       \* recv_buff
  sent,           \* Send_Successful
  nBytes,         \* nBytes against the size SendCommand has measured
  dataReceived,   \* Data_Received
  recvError,      \* recv_data_error
  connected,      \* Server_Connected
  wasConnected,   \* Connection_Closed
  running,        \* Thread_Running: 0, 1 or 2
  socket,         \* web_socket is not NULL
  spc,            \* where the service thread is
  wantWrite,      \* lws_callback_on_writable is pending
  link,           \* the connection as the library sees it
  toServer,       \* requests on the wire
  toClient,       \* replies on the wire
  wired,          \* how often each request was put on the wire (history)
  late            \* a wait of 10 s was too short for its answer (history)

appVars == <<apc, why, resend, sendTry, recvTry, call, outcome>>
flagVars == <<sent, nBytes, dataReceived, recvError, connected>>
threadVars == <<wasConnected, running, spc>>
wireVars == <<toServer, toClient, wired, late>>
vars == <<appVars, sendBuff, recvBuff, flagVars, threadVars, socket, wantWrite,
          link, wireVars>>

Calls == 1..MaxCalls
None == -1
Reply == [of : 0..MaxCalls, kind : {"good", "bad", "denied"}]
Blank == [of |-> None, kind |-> "good"]

Init ==
  /\ apc = "new"
  /\ why = "greet"
  /\ resend = FALSE
  /\ sendTry = 0
  /\ recvTry = 0
  /\ call = 0
  /\ outcome = "none"
  /\ sendBuff = None
  /\ recvBuff = Blank
  /\ sent = FALSE
  /\ nBytes = "full"
  /\ dataReceived = FALSE
  /\ recvError = FALSE
  /\ connected = FALSE
  /\ wasConnected = FALSE
  /\ running = 0
  /\ socket = FALSE
  /\ spc = "unborn"
  /\ wantWrite = FALSE
  /\ link = "none"
  /\ toServer = <<>>
  /\ toClient = <<>>
  /\ wired = [n \in Calls |-> 0]
  /\ late = FALSE

------------------------------------------------------------------------------
(* ServerConnect.  It keeps m_mutex from here until it returns, except      *)
(* while it waits for Server_Connected.                                     *)
ServerConnect ==
  /\ apc = "new"
  /\ apc' = "connecting"
  /\ link' = "pending"
  /\ socket' = TRUE
  /\ spc' = "lws"
  /\ UNCHANGED <<why, resend, sendTry, recvTry, call, outcome, sendBuff,
                 recvBuff, flagVars, wasConnected, running, wantWrite, wireVars>>

Connected ==
  /\ apc = "connecting"
  /\ connected
  /\ recvTry' = 0
  /\ \/ socket /\ apc' = "recv" /\ UNCHANGED connected
     \/ ~socket /\ apc' = "refused" /\ connected' = FALSE
  /\ UNCHANGED <<why, resend, sendTry, call, outcome, sendBuff, recvBuff, sent,
                 nBytes, dataReceived, recvError, threadVars, socket,
                 wantWrite, link, wireVars>>

ConnectTimeout ==
  /\ apc = "connecting"
  /\ ~connected
  /\ apc' = "refused"
  /\ UNCHANGED <<why, resend, sendTry, recvTry, call, outcome, sendBuff,
                 recvBuff, flagVars, threadVars, socket, wantWrite, link,
                 wireVars>>

MutexFree == why # "greet" \/ apc \in {"connecting", "refused", "join", "gone"}
RecvMutexFree == ~resend

------------------------------------------------------------------------------
(* A call of the sensor: refused at once without a connection, else it      *)
(* fills send_buff, the name of the call first and without m_mutex: a write *)
(* callback left over by the call before writes what is there of it.        *)
CallStarts(w) ==
  /\ apc = "ready"
  /\ call < MaxCalls
  /\ call' = call + 1
  /\ why' = w
  /\ sendBuff' = call + 1
  /\ apc' = "fill"
  /\ outcome' = "none"
  /\ UNCHANGED <<resend, sendTry, recvTry, recvBuff, flagVars, threadVars,
                 socket, wantWrite, link, wireVars>>

(* A write that was reported before the size of the request is measured is  *)
(* compared with that size: what it wrote may be anything.                  *)
Measure(outcomeOfOld) ==
  nBytes' = IF sent /\ nBytes # "error" THEN outcomeOfOld ELSE nBytes

(* ... and calls SendCommand, which measures send_buff.                     *)
Filled ==
  /\ apc = "fill"
  /\ apc' = "send"
  /\ recvBuff' = Blank
  /\ sendTry' = 0
  /\ Measure("any")
  /\ UNCHANGED <<why, resend, recvTry, call, outcome, sendBuff, sent,
                 dataReceived, recvError, connected, threadVars, socket,
                 wantWrite, link, wireVars>>

Call == connected /\ CallStarts("call")
HangUp == CallStarts("bye")

(* SendCommand returns st: to the loop of recv_server_data, to a call that  *)
(* goes on to wait for its reply, or to a call that fails.                  *)
SendReturns(ok) ==
  /\ resend' = FALSE
  /\ LET st == ok /\ connected IN
     IF resend
       THEN /\ apc' = IF st THEN "recv" ELSE "received"
            /\ outcome' = IF st THEN outcome ELSE "failed"
            /\ UNCHANGED recvTry
       ELSE /\ apc' = CASE why = "bye" -> "leaving"
                        [] why = "call" /\ st -> "recv"
                        [] OTHER -> "ready"
            /\ outcome' = IF st THEN outcome ELSE "failed"
            /\ recvTry' = 0
  /\ UNCHANGED <<why, call>>

(* The test of SendCommand's loop ... *)
SendLoop ==
  /\ apc = "send"
  /\ \/ /\ connected /\ sendTry < MaxRetry
        /\ apc' = "kick"
        /\ sendTry' = sendTry + 1
        /\ UNCHANGED <<why, resend, recvTry, call, outcome>>
     \/ /\ ~(connected /\ sendTry < MaxRetry)
        /\ SendReturns(FALSE)
        /\ UNCHANGED sendTry
  /\ UNCHANGED <<sendBuff, recvBuff, flagVars, threadVars, socket, wantWrite,
                 link, wireVars>>

(* ... and the request for a write callback on web_socket. *)
Kick ==
  /\ apc = "kick"
  /\ IF socket THEN apc' = "sendWait" /\ wantWrite' = TRUE
               ELSE apc' = "crashed" /\ UNCHANGED wantWrite
  /\ UNCHANGED <<why, resend, sendTry, recvTry, call, outcome, sendBuff,
                 recvBuff, flagVars, threadVars, socket, link, wireVars>>

(* The wait ends with a write: too few or too many bytes mean another round. *)
SendDone ==
  /\ apc = "sendWait"
  /\ sent
  /\ sent' = FALSE
  /\ \/ /\ nBytes \in {"short", "long", "any"}
        /\ apc' = "send"
        /\ UNCHANGED <<why, resend, recvTry, call, outcome>>
     \/ /\ nBytes \in {"full", "any"}
        /\ SendReturns(TRUE)
     \/ /\ nBytes = "error"
        /\ SendReturns(FALSE)
  /\ UNCHANGED <<sendTry, sendBuff, recvBuff, nBytes, dataReceived, recvError,
                 connected, threadVars, socket, wantWrite, link, wireVars>>

(* A write callback is due and nothing blocks it. *)
WriteComing ==
  /\ MutexFree
  /\ \/ spc = "write"
     \/ wantWrite /\ link = "open" /\ (spc = "receive" => RecvMutexFree)

(* Ten seconds without Send_Successful. *)
SendTimeout ==
  /\ apc = "sendWait"
  /\ ~sent
  /\ SendReturns(FALSE)
  /\ late' = (late \/ WriteComing)
  /\ UNCHANGED <<sendTry, sendBuff, recvBuff, flagVars, threadVars, socket,
                 wantWrite, link, toServer, toClient, wired>>

------------------------------------------------------------------------------
(* recv_server_data: the loop test.                                         *)
RecvLoop ==
  /\ apc = "recv"
  /\ IF connected /\ recvTry < MaxRetry
       THEN apc' = "recvWait" /\ recvTry' = recvTry + 1 /\ UNCHANGED outcome
       ELSE apc' = "received" /\ outcome' = "failed" /\ UNCHANGED recvTry
  /\ UNCHANGED <<why, resend, sendTry, call, sendBuff, recvBuff, flagVars,
                 threadVars, socket, wantWrite, link, wireVars>>

(* SendCommand from within, with mutex_recv held: it clears recv_buff, and  *)
(* measures a send_buff that is empty when the request has been written.    *)
Resend ==
  /\ apc' = "send"
  /\ resend' = TRUE
  /\ sendTry' = 0
  /\ recvBuff' = Blank
  /\ Measure(IF sendBuff = None THEN "long" ELSE "any")
  /\ UNCHANGED <<why, recvTry, call, outcome>>

(* Mutant of RecvDone: Data_Received is not reset. *)
RecvDoneAgain ==
  /\ apc = "recvWait"
  /\ dataReceived
  /\ IF recvError THEN Resend
                  ELSE /\ apc' = "received"
                       /\ outcome' = "ok"
                       /\ UNCHANGED <<why, resend, sendTry, recvTry, call, recvBuff, nBytes>>
  /\ UNCHANGED <<sendBuff, sent, dataReceived, recvError, connected, threadVars,
                 socket, wantWrite, link, wireVars>>

(* The wait ends with data, *)
RecvDone ==
  /\ apc = "recvWait"
  /\ dataReceived
  /\ dataReceived' = FALSE
  /\ IF recvError THEN Resend
                  ELSE /\ apc' = "received"
                       /\ outcome' = "ok"
                       /\ UNCHANGED <<why, resend, sendTry, recvTry, call,
                                      recvBuff, nBytes>>
  /\ UNCHANGED <<sendBuff, sent, recvError, connected, threadVars, socket,
                 wantWrite, link, wireVars>>

(* Mutant of RecvTimeout: the wait has no time limit. *)
RecvTimeoutNever ==
  /\ FALSE
  /\ UNCHANGED vars

(* Mutant of RecvTimeout: the last status is taken for the result. *)
RecvTimeoutForgives ==
  /\ apc = "recvWait"
  /\ ~dataReceived
  /\ apc' = "received"
  /\ outcome' = "ok"
  /\ UNCHANGED <<why, resend, sendTry, recvTry, call, sendBuff, recvBuff,
                 flagVars, threadVars, socket, wantWrite, link, wireVars>>

(* or after ten seconds, perhaps with the reply, or the request, on its     *)
(* way.                                                                     *)
ReplyComing == toServer # <<>> \/ toClient # <<>> \/ spc = "receive"

RecvTimeout ==
  /\ apc = "recvWait"
  /\ ~dataReceived
  /\ Resend
  /\ late' = (late \/ ReplyComing)
  /\ UNCHANGED <<sendBuff, sent, dataReceived, recvError, connected,
                 threadVars, socket, wantWrite, link, toServer, toClient, wired>>

(* In the end send_buff is cleared, and ServerConnect reads the greeting.   *)
RecvReturns ==
  /\ apc = "received"
  /\ sendBuff' = None
  /\ LET ok == outcome = "ok" /\ connected
         welcome == ok /\ recvBuff = [of |-> 0, kind |-> "good"] IN
     /\ outcome' = IF ok THEN "ok" ELSE "failed"
     /\ apc' = IF why = "greet" /\ ~welcome THEN "refused" ELSE "ready"
     /\ connected' = IF why = "greet" /\ ~welcome THEN FALSE ELSE connected
     /\ why' = IF why = "greet" /\ ~welcome THEN why ELSE "call"
  /\ UNCHANGED <<resend, sendTry, recvTry, call, recvBuff, sent, nBytes,
                 dataReceived, recvError, threadVars, socket, wantWrite, link,
                 wireVars>>

------------------------------------------------------------------------------
(* The destructor: of an object that was not opened, or after HangUp.  It   *)
(* tells the service thread and waits for it.                               *)
Destroy ==
  /\ apc \in {"ready", "refused", "leaving"}
  /\ apc' = "join"
  /\ running' = 1
  /\ UNCHANGED <<why, resend, sendTry, recvTry, call, outcome, sendBuff,
                 recvBuff, flagVars, wasConnected, spc, socket, wantWrite,
                 link, wireVars>>

Destroyed ==
  /\ apc = "join"
  /\ running = 2
  /\ apc' = "gone"
  /\ link' = "closed"
  /\ UNCHANGED <<why, resend, sendTry, recvTry, call, outcome, sendBuff,
                 recvBuff, flagVars, threadVars, socket, wantWrite, wireVars>>

------------------------------------------------------------------------------
(* The service thread: lws_service picks an event if there is one, the      *)
(* callback runs once it has its mutex, then the loop looks at the flags.   *)
Event ==
  {e \in {"establish", "refuse", "write", "receive", "close"} :
     CASE e = "establish" -> link = "accepted"
       [] e = "refuse"    -> link = "refused"
       [] e = "write"     -> link = "open" /\ wantWrite
       [] e = "receive"   -> link \in {"open", "cut"} /\ toClient # <<>>
       [] e = "close"     -> link = "cut" /\ toClient = <<>>}

LwsService ==
  /\ spc = "lws"
  /\ spc' \in IF Event = {} THEN {"check"} ELSE Event
  /\ wantWrite' = (wantWrite /\ spc' # "write")
  /\ UNCHANGED <<appVars, sendBuff, recvBuff, flagVars, wasConnected, running,
                 socket, link, wireVars>>

OnEstablished ==
  /\ spc = "establish" /\ MutexFree
  /\ spc' = "check"
  /\ connected' = TRUE
  /\ link' = "open"
  /\ UNCHANGED <<appVars, sendBuff, recvBuff, sent, nBytes, dataReceived,
                 recvError, wasConnected, running, socket, wantWrite, wireVars>>

OnConnectionError ==
  /\ spc = "refuse"
  /\ spc' = "check"
  /\ socket' = FALSE
  /\ link' = "closed"
  /\ UNCHANGED <<appVars, sendBuff, recvBuff, flagVars, wasConnected, running,
                 wantWrite, wireVars>>

(* A reply: parsed into recv_buff or found to be malformed. *)
OnReceive ==
  /\ spc = "receive" /\ RecvMutexFree
  /\ spc' = "check"
  /\ recvBuff' = Head(toClient)
  /\ recvError' = (Head(toClient).kind = "bad")
  /\ dataReceived' = TRUE
  /\ toClient' = Tail(toClient)
  /\ UNCHANGED <<appVars, sendBuff, sent, nBytes, connected, wasConnected,
                 running, socket, wantWrite, link, toServer, wired, late>>

(* Mutant of OnWriteable: send_buff keeps the request. *)
OnWriteableKeeps ==
  /\ spc = "write" /\ MutexFree
  /\ spc' = "check"
  /\ \/ sendBuff = None /\ UNCHANGED <<sent, nBytes, toServer, wired>>
     \/ /\ sendBuff # None
        /\ nBytes' = "full"
        /\ sent' = TRUE
        /\ toServer' = Append(toServer, sendBuff)
        /\ wired' = [wired EXCEPT ![sendBuff] = @ + 1]
  /\ UNCHANGED <<appVars, sendBuff, recvBuff, dataReceived, recvError,
                 connected, wasConnected, running, socket, wantWrite, link, toClient, late>>

(* The write: nothing without a request; otherwise the request is written,  *)
(* in full or not, and send_buff is cleared.                                *)
OnWriteable ==
  /\ spc = "write" /\ MutexFree
  /\ spc' = "check"
  /\ \/ /\ sendBuff = None
        /\ UNCHANGED <<sendBuff, sent, nBytes, toServer, wired>>
     \/ /\ sendBuff # None
        /\ nBytes' \in {"full", "short", "error"}
        /\ sent' = TRUE
        /\ sendBuff' = None
        /\ IF nBytes' = "full" /\ link = "open"
             THEN /\ toServer' = Append(toServer, sendBuff)
                  /\ wired' = [wired EXCEPT ![sendBuff] = @ + 1]
             ELSE UNCHANGED <<toServer, wired>>
  /\ UNCHANGED <<appVars, recvBuff, dataReceived, recvError, connected,
                 wasConnected, running, socket, wantWrite, link, toClient, late>>

OnClosed ==
  /\ spc = "close" /\ MutexFree
  /\ spc' = "check"
  /\ connected' = FALSE
  /\ socket' = FALSE
  /\ link' = "closed"
  /\ UNCHANGED <<appVars, sendBuff, recvBuff, sent, nBytes, dataReceived,
                 recvError, wasConnected, running, wantWrite, wireVars>>

(* After a round: a connection that is gone ends the thread, else the       *)
(* destructor does.                                                         *)
ServiceCheck ==
  /\ spc = "check"
  /\ \/ /\ ~connected /\ wasConnected
        /\ wasConnected' = FALSE
        /\ spc' = "ended"
        /\ UNCHANGED running
     \/ /\ connected \/ ~wasConnected
        /\ wasConnected' = (connected \/ wasConnected)
        /\ IF running = 1 THEN running' = 2 /\ spc' = "ended"
                          ELSE spc' = "lws" /\ UNCHANGED running
  /\ UNCHANGED <<appVars, sendBuff, recvBuff, flagVars, socket, wantWrite, link, wireVars>>

------------------------------------------------------------------------------
(* The server and the link (external). *)
ServerAccepts ==
  /\ link = "pending"
  /\ link' = "accepted"
  /\ \E k \in {"good", "denied"} :
       toClient' = Append(toClient, [of |-> 0, kind |-> k])
  /\ UNCHANGED <<appVars, sendBuff, recvBuff, flagVars, threadVars, socket,
                 wantWrite, toServer, wired, late>>

ServerRefuses ==
  /\ link = "pending"
  /\ link' = "refused"
  /\ UNCHANGED <<appVars, sendBuff, recvBuff, flagVars, threadVars, socket,
                 wantWrite, wireVars>>

ServerAnswers ==
  /\ link = "open"
  /\ toServer # <<>>
  /\ \E k \in {"good", "bad"} :
       toClient' = Append(toClient, [of |-> Head(toServer), kind |-> k])
  /\ toServer' = Tail(toServer)
  /\ UNCHANGED <<appVars, sendBuff, recvBuff, flagVars, threadVars, socket,
                 wantWrite, link, wired, late>>

ServerCloses ==
  /\ link = "open"
  /\ link' = "cut"
  /\ toServer' = <<>>
  /\ toClient' \in {toClient, <<>>}
  /\ spc # "receive"
  /\ UNCHANGED <<appVars, sendBuff, recvBuff, flagVars, threadVars, socket,
                 wantWrite, wired, late>>

------------------------------------------------------------------------------
Timeout == ConnectTimeout \/ SendTimeout \/ RecvTimeout

Application ==
  \/ ServerConnect \/ Connected \/ Filled \/ SendLoop \/ Kick \/ SendDone
  \/ RecvLoop \/ RecvDone \/ RecvReturns \/ Destroy \/ Destroyed

Service ==
  \/ LwsService \/ OnEstablished \/ OnConnectionError \/ OnReceive
  \/ OnWriteable \/ OnClosed \/ ServiceCheck

Server == ServerAccepts \/ ServerRefuses \/ ServerAnswers \/ ServerCloses

Next == Application \/ Call \/ HangUp \/ Timeout \/ Service \/ Server

Spec == Init /\ [][Next]_vars

(* Both threads run and every wait of the application is bounded.           *)
Fairness == WF_vars(Application) /\ WF_vars(Timeout) /\ WF_vars(Service)

FairSpec == Spec /\ Fairness

------------------------------------------------------------------------------
(* The types of the flags, the buffers and the control states. *)
TypeOK ==
  /\ apc \in {"new", "connecting", "refused", "ready", "fill", "send", "kick",
              "sendWait", "recv", "recvWait", "received", "leaving", "join",
              "gone", "crashed"}
  /\ why \in {"greet", "call", "bye"}
  /\ resend \in BOOLEAN
  /\ sendTry \in 0..MaxRetry
  /\ recvTry \in 0..MaxRetry
  /\ call \in 0..MaxCalls
  /\ outcome \in {"none", "ok", "failed"}
  /\ sendBuff \in Calls \cup {None}
  /\ recvBuff \in Reply \cup {Blank}
  /\ sent \in BOOLEAN
  /\ nBytes \in {"full", "short", "long", "any", "error"}
  /\ dataReceived \in BOOLEAN
  /\ recvError \in BOOLEAN
  /\ connected \in BOOLEAN
  /\ wasConnected \in BOOLEAN
  /\ running \in 0..2
  /\ socket \in BOOLEAN
  /\ spc \in {"unborn", "lws", "establish", "refuse", "write", "receive",
              "close", "check", "ended"}
  /\ wantWrite \in BOOLEAN
  /\ link \in {"none", "pending", "accepted", "refused", "open", "cut", "closed"}
  /\ toServer \in Seq(Calls)
  /\ toClient \in Seq(Reply)
  /\ wired \in [Calls -> Nat]
  /\ late \in BOOLEAN

(* A request is put on the wire at most once, through all the retries of    *)
(* SendCommand and recv_server_data, with late replies and write callbacks  *)
(* left over by earlier calls: the board never starts, stops or             *)
(* reconfigures the sensor twice for one call.                              *)
OnceOnWire == \A n \in Calls : wired[n] <= 1

(* A call that succeeds returns what the server answered to that call, as   *)
(* long as no wait of ten seconds has been too short for its answer.        *)
AnswerIsOwn ==
  ~late /\ apc = "ready" /\ outcome = "ok"
    => recvBuff = [of |-> call, kind |-> "good"]

(* The same whatever the server and the link take: violated.                *)
LateAnswerIsOwn ==
  apc = "ready" /\ outcome = "ok" => recvBuff = [of |-> call, kind |-> "good"]

(* As long, a request is never written before send_buff holds all of it,    *)
(* although send_buff is filled without m_mutex.                            *)
WrittenWhole == [][apc = "fill" /\ ~late => wired' = wired]_vars

(* The two threads together implement RemoteCall: "ok" is never reported    *)
(* for a request that did not leave the host, through short writes,         *)
(* malformed replies, a connection that closes and the retries.             *)
Busy == {"fill", "send", "kick", "sendWait", "recv", "recvWait", "received"}
Calling == INSTANCE RemoteCall WITH
  last <- call,
  reached <- {0} \cup {n \in Calls : wired[n] > 0},
  result <- IF apc \in Busy THEN "none" ELSE outcome,
  overdue <- late

ImplementsRemoteCall == Calling!CallSpec

(* A retry of recv_server_data that ends has put the request on the wire    *)
(* again, as long as the connection lasts: "No data recvd till time out     *)
(* Retry sending command".                                                  *)
RetryReachesWire ==
  [][resend /\ ~resend' /\ why = "call" /\ link = "open" => wired[call] > 1]_vars

(* SendCommand asks for a write callback only on a socket that exists:      *)
(* Server_Connected guards web_socket.                                      *)
SocketExists == apc # "crashed"

(* Every call comes back to the application, whatever the server does, or   *)
(* ends the process: what SocketExists says can happen.                     *)
CallReturns ==
  apc \in {"fill", "send"}
    ~> apc \in {"ready", "refused", "leaving", "join", "gone", "crashed"}

(* The destructor returns: it waits for the service thread to finish. *)
DestructorReturns == apc = "join" ~> apc = "gone"
==============================================================================
