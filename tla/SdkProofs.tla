------------------------------ MODULE SdkProofs ------------------------------
(***************************************************************************)
(* OnceOnWire, AnswerIsOwn, WrittenWhole and ImplementsRemoteCall of       *)
(* SdkNetwork, proved for any number of calls and retries.                 *)
(*                                                                         *)
(* OnceOnWire holds with a server that may answer at any time.  Its        *)
(* invariant says who may still be written: only the request in send_buff, *)
(* which is that of a call already made and has not been written yet.  The *)
(* others speak of the time before the first wait that was too short.      *)
(* Their invariant says that until then at most one message is on its way, *)
(* that it belongs to the call the application waits for, and that no      *)
(* write callback is left over.                                            *)
(***************************************************************************)
EXTENDS SdkNetwork, SequenceTheorems, TLAPS

(* The types the argument needs. *)
Typed ==
  /\ call \in 0 .. MaxCalls
  /\ sendBuff \in Calls \cup {None}
  /\ wired \in [Calls -> Nat]

(* A call that has not been made is not on the wire. *)
Unmade == \A n \in Calls : n > call => wired[n] = 0

(* What send_buff holds has been asked for and has not been written. *)
Unwritten == sendBuff # None => sendBuff <= call /\ wired[sendBuff] = 0

IndInv == Typed /\ Unmade /\ Unwritten /\ OnceOnWire

------------------------------------------------------------------------------
(* Nothing is on the wire at first. *)
LEMMA InitInd == Init => IndInv
BY SdkAssumption DEF Init, IndInv, Typed, Unmade, Unwritten, OnceOnWire, Calls

(* The state the invariant speaks of. *)
Requests == <<call, sendBuff, wired>>

(* A step that leaves call, send_buff and the wire alone. *)
LEMMA SameRequests ==
  ASSUME IndInv, UNCHANGED Requests
  PROVE  IndInv'
BY DEF Requests, IndInv, Typed, Unmade, Unwritten, OnceOnWire

(* Only a new call, the end of recv_server_data and the write callback      *)
(* change it.                                                               *)
LEMMA OtherSteps ==
  ASSUME Next, ~Call, ~HangUp, ~RecvReturns, ~OnWriteable
  PROVE  UNCHANGED Requests
<1>1. CASE Application
  <2>1. CASE ServerConnect \/ Connected \/ Filled \/ Kick \/ RecvLoop \/ Destroy
             \/ Destroyed
    BY <2>1 DEF ServerConnect, Connected, Filled, Kick, RecvLoop, Destroy,
                Destroyed, Requests, wireVars
  <2>2. CASE SendLoop \/ SendDone
    BY <2>2 DEF SendLoop, SendDone, SendReturns, Requests, wireVars
  <2>3. CASE RecvDone
    BY <2>3 DEF RecvDone, Resend, Requests, wireVars
  <2> QED
    BY <1>1, <2>1, <2>2, <2>3 DEF Application
<1>2. CASE Timeout
  BY <1>2 DEF Timeout, ConnectTimeout, SendTimeout, RecvTimeout, SendReturns,
              Resend, Requests, wireVars
<1>3. CASE Service
  BY <1>3 DEF Service, LwsService, OnEstablished, OnConnectionError, OnReceive,
              OnClosed, ServiceCheck, Requests, wireVars, appVars
<1>4. CASE Server
  BY <1>4 DEF Server, ServerAccepts, ServerRefuses, ServerAnswers, ServerCloses,
              Requests, wireVars, appVars
<1> QED
  BY <1>1, <1>2, <1>3, <1>4 DEF Next

(* Every step preserves the invariant. *)
LEMMA StepInd ==
  ASSUME IndInv, [Next]_vars
  PROVE  IndInv'
<1>1. CASE Call \/ HangUp
  <2>1. PICK w \in {"call", "bye"} : CallStarts(w)
    BY <1>1 DEF Call, HangUp
  <2>2. /\ call' = call + 1 /\ sendBuff' = call + 1 /\ wired' = wired
        /\ call < MaxCalls
    BY <2>1 DEF CallStarts, wireVars
  <2>3. call + 1 \in Calls
    BY <2>2, SdkAssumption DEF IndInv, Typed, Calls
  <2> QED
    BY <2>2, <2>3, SdkAssumption DEF IndInv, Typed, Unmade, Unwritten,
                                     OnceOnWire, Calls, None
<1>2. CASE RecvReturns
  BY <1>2 DEF RecvReturns, wireVars, IndInv, Typed, Unmade, Unwritten,
              OnceOnWire
<1>3. CASE OnWriteable
  <2>1. call' = call
    BY <1>3 DEF OnWriteable, appVars
  <2>2. \/ sendBuff' = sendBuff /\ wired' = wired
        \/ sendBuff' = None /\ wired' = wired
        \/ /\ sendBuff # None /\ sendBuff' = None
           /\ wired' = [wired EXCEPT ![sendBuff] = @ + 1]
    BY <1>3 DEF OnWriteable
  <2> QED
    BY <2>1, <2>2, SdkAssumption DEF IndInv, Typed, Unmade, Unwritten,
                                     OnceOnWire, Calls, None
<1>4. CASE UNCHANGED vars
  BY <1>4, SameRequests DEF vars, appVars, wireVars, Requests
<1> QED
  BY <1>1, <1>2, <1>3, <1>4, OtherSteps, SameRequests

(* OnceOnWire of SdkNetwork: through the retries of SendCommand and         *)
(* recv_server_data, callback_function never writes a request twice.        *)
THEOREM NoRequestTwice == Spec => []OnceOnWire
<1>1. IndInv /\ [Next]_vars => IndInv'
  BY StepInd
<1>2. IndInv => OnceOnWire
  BY DEF IndInv
<1> QED
  BY InitInd, <1>1, <1>2, PTL DEF Spec

------------------------------------------------------------------------------
(* AnswerIsOwn, until a wait is too short for its answer.  At most one      *)
(* message is on its way, a request, its reply or the reply in recv_buff,   *)
(* and it belongs to the call the application waits for.                    *)
Sending == {"fill", "send", "kick", "sendWait"}
Over == apc \in {"refused", "leaving", "join", "gone", "crashed"}
Early == link \in {"none", "pending", "accepted", "refused"}
Live == ~Over /\ link # "closed"
OnTheWay == toServer # <<>> \/ toClient # <<>> \/ dataReceived

Own(r) == r.of = call /\ (why # "greet" => r.kind # "denied")
Wired == call = 0 \/ wired[call] > 0

TypedToo ==
  /\ toServer \in Seq(Calls)
  /\ toClient \in Seq(Reply)
  /\ sendBuff \in {None, call}
  /\ why \in {"greet", "call", "bye"}
  /\ why = "greet" => call = 0
  /\ link \in {"none", "pending", "accepted", "refused", "open", "cut", "closed"}
  /\ recvBuff \in Reply \cup {Blank}
  /\ sendTry \in Nat /\ recvTry \in Nat

(* What the state of the link says of the other variables. *)
LinkKnown ==
  /\ ~Over /\ Early => /\ apc \in {"new", "connecting"}
                       /\ ~sent /\ ~dataReceived /\ ~connected
                       /\ toServer = <<>>
                       /\ link # "accepted" => toClient = <<>>
  /\ ~Over /\ link = "closed" => ~connected /\ toClient = <<>>
  /\ ~Over /\ link \in {"open", "cut"} => connected
  /\ link = "cut" => toServer = <<>>
  /\ apc = "new" => link = "none"
  /\ apc \in {"new", "connecting"} => why = "greet" /\ ~resend

(* An event of the service thread is what the link was seen to offer. *)
EventTrue ==
  /\ spc = "receive" => toClient # <<>>
  /\ ~Over => /\ spc = "receive" => link \in {"open", "cut"}
              /\ spc = "establish" => link = "accepted"
              /\ spc = "refuse" => link = "refused"
              /\ spc = "close" => link = "cut" /\ toClient = <<>>

Resending ==
  /\ resend => apc \in Sending \cup {"crashed"}
  /\ why = "greet" /\ apc \in Sending => resend

(* send_buff holds a request only for the first try of SendCommand, which   *)
(* waits as long as the write is pending.                                   *)
FirstTry == apc \in Sending /\ ~resend /\ (apc = "send" => sendTry = 0)
SendOwn ==
  Live /\ link = "open" /\ sendBuff # None =>
    /\ FirstTry /\ ~sent /\ ~OnTheWay
    /\ apc = "sendWait" => wantWrite \/ spc = "write"
SentOwn == Live /\ link = "open" /\ sent => FirstTry /\ sendBuff = None

(* A write callback is due, or has been made, only while SendCommand waits   *)
(* for it, or when the greeting has failed.                                 *)
Due == spc = "write" \/ (wantWrite /\ link = "open")
NoLeftover ==
  /\ apc \in {"new", "connecting"} => ~wantWrite /\ spc # "write"
  /\ Live /\ Due =>
       \/ apc = "sendWait" /\ ~sent
       \/ why = "greet" /\ apc = "received" /\ outcome = "failed"
  /\ Live /\ link = "open" => ~(spc = "write" /\ wantWrite)
  /\ Live /\ sent => apc = "sendWait"

OneMessage ==
  \/ toServer = <<call>> /\ toClient = <<>> /\ ~dataReceived
  \/ /\ toServer = <<>> /\ ~dataReceived
     /\ Len(toClient) = 1 /\ Own(Head(toClient))
  \/ /\ toServer = <<>> /\ toClient = <<>> /\ dataReceived
     /\ Own(recvBuff) /\ (~recvError => recvBuff.kind # "bad")
AnswerDue ==
  Live /\ OnTheWay =>
    /\ OneMessage /\ Wired /\ ~resend /\ sendBuff = None
    /\ \/ apc = "connecting"
       \/ apc = "recv" /\ recvTry = 0
       \/ apc = "recvWait"
       \/ FirstTry /\ apc # "fill" /\ sent /\ nBytes = "full"

(* A success is reported with the reply to the call. *)
AnswerKept ==
  apc = "received" /\ outcome = "ok" /\ connected =>
    Own(recvBuff) /\ recvBuff.kind # "bad" /\ Wired
OutcomeOpen ==
  /\ outcome \in {"none", "ok", "failed"}
  /\ apc \in Sending \cup {"recv", "recvWait", "new", "connecting"} => outcome = "none"

AnswerInv ==
  /\ TypedToo /\ LinkKnown /\ EventTrue /\ Resending /\ SendOwn
  /\ SentOwn /\ NoLeftover /\ AnswerDue /\ AnswerKept /\ OutcomeOpen /\ AnswerIsOwn

(* Sequences of at most one message. *)
LEMMA SeqFacts ==
  ASSUME NEW S, NEW s \in Seq(S)
  PROVE  /\ <<>> \in Seq(S)
         /\ \A e \in S : Append(s, e) \in Seq(S) /\ Append(s, e) # <<>>
         /\ s # <<>> => Head(s) \in S /\ Tail(s) \in Seq(S)
         /\ s # <<>> /\ Len(s) = 1 => Tail(s) = <<>>
<1>1. <<>> \in Seq(S)
  OBVIOUS
<1>2. ASSUME NEW e \in S PROVE Append(s, e) \in Seq(S) /\ Append(s, e) # <<>>
  BY <1>2, LenProperties, EmptySeq, AppendProperties
<1>3. s # <<>> => Head(s) \in S /\ Tail(s) \in Seq(S)
  OBVIOUS
<1>4. s # <<>> /\ Len(s) = 1 => Tail(s) = <<>>
  <2> SUFFICES ASSUME s # <<>>, Len(s) = 1 PROVE Tail(s) = <<>>
    OBVIOUS
  <2>1. Tail(s) \in Seq(S) /\ Len(Tail(s)) = Len(s) - 1
    BY HeadTailProperties
  <2>2. Tail(s) # <<>> => Len(Tail(s)) # 0
    BY <2>1, EmptySeq
  <2> QED  BY <2>1, <2>2
<1> QED  BY <1>1, <1>2, <1>3, <1>4

LEMMA OneElement ==
  ASSUME NEW e
  PROVE  /\ Append(<<>>, e) = <<e>> /\ <<e>> # <<>> /\ Len(<<e>>) = 1
         /\ Head(<<e>>) = e /\ Tail(<<e>>) = <<>>
OBVIOUS

(* ServerConnect. *)
LEMMA ConnectAnswer ==
  ASSUME IndInv, AnswerInv, ServerConnect \/ Connected \/ ConnectTimeout
  PROVE  AnswerInv'
<1> USE SdkAssumption DEF Sending, Over, Early, Live, OnTheWay, Own, Wired,
          FirstTry, OneMessage, Typed, Calls, None, AnswerInv, IndInv, appVars,
          flagVars, threadVars, wireVars
<1>1. CASE ServerConnect
  <2> USE <1>1 DEF ServerConnect
  <2>1. TypedToo' /\ LinkKnown' /\ EventTrue' /\ Resending'
    BY DEF TypedToo, LinkKnown, EventTrue, Resending, Unwritten
  <2>2. SendOwn' /\ SentOwn'
    BY DEF SendOwn, SentOwn, AnswerDue, TypedToo, LinkKnown, EventTrue,
           Resending
  <2>3. AnswerDue'
    BY DEF SendOwn, SentOwn, AnswerDue, TypedToo, LinkKnown, EventTrue,
           Resending
  <2>4. AnswerKept' /\ OutcomeOpen' /\ AnswerIsOwn'
    BY DEF AnswerKept, AnswerDue, OutcomeOpen, AnswerIsOwn, TypedToo, LinkKnown,
           EventTrue, Resending
  <2>5. NoLeftover'
    BY DEF NoLeftover, Due, SendOwn, SentOwn, AnswerDue, TypedToo, LinkKnown,
           EventTrue, Resending, OutcomeOpen
  <2> QED  BY <2>1, <2>2, <2>3, <2>4, <2>5
<1>2. CASE Connected
  <2> USE <1>2 DEF Connected
  <2>1. TypedToo' /\ LinkKnown' /\ EventTrue' /\ Resending'
    BY DEF TypedToo, LinkKnown, EventTrue, Resending, Unwritten
  <2>2. SendOwn' /\ SentOwn'
    BY DEF SendOwn, SentOwn, AnswerDue, TypedToo, LinkKnown, EventTrue,
           Resending
  <2>3. AnswerDue'
    BY DEF SendOwn, SentOwn, AnswerDue, TypedToo, LinkKnown, EventTrue,
           Resending
  <2>4. AnswerKept' /\ OutcomeOpen' /\ AnswerIsOwn'
    BY DEF AnswerKept, AnswerDue, OutcomeOpen, AnswerIsOwn, TypedToo, LinkKnown,
           EventTrue, Resending
  <2>5. NoLeftover'
    BY DEF NoLeftover, Due, SendOwn, SentOwn, AnswerDue, TypedToo, LinkKnown,
           EventTrue, Resending, OutcomeOpen
  <2> QED  BY <2>1, <2>2, <2>3, <2>4, <2>5
<1>3. CASE ConnectTimeout
  <2> USE <1>3 DEF ConnectTimeout
  <2>1. TypedToo' /\ LinkKnown' /\ EventTrue' /\ Resending'
    BY DEF TypedToo, LinkKnown, EventTrue, Resending, Unwritten
  <2>2. SendOwn' /\ SentOwn'
    BY DEF SendOwn, SentOwn, AnswerDue, TypedToo, LinkKnown, EventTrue,
           Resending
  <2>3. AnswerDue'
    BY DEF SendOwn, SentOwn, AnswerDue, TypedToo, LinkKnown, EventTrue,
           Resending
  <2>4. AnswerKept' /\ OutcomeOpen' /\ AnswerIsOwn'
    BY DEF AnswerKept, AnswerDue, OutcomeOpen, AnswerIsOwn, TypedToo, LinkKnown,
           EventTrue, Resending
  <2>5. NoLeftover'
    BY DEF NoLeftover, Due, SendOwn, SentOwn, AnswerDue, TypedToo, LinkKnown,
           EventTrue, Resending, OutcomeOpen
  <2> QED  BY <2>1, <2>2, <2>3, <2>4, <2>5
<1> QED  BY <1>1, <1>2, <1>3

(* A new call finds nothing left of the one before. *)
LEMMA CallAnswer ==
  ASSUME IndInv, AnswerInv, NEW w \in {"call", "bye"}, w = "call" => connected, CallStarts(w)
  PROVE  AnswerInv'
<1> USE SdkAssumption DEF CallStarts, Sending, Over, Early, Live, OnTheWay, Own,
          Wired, FirstTry, OneMessage, Typed, Calls, None, AnswerInv, IndInv,
          appVars, flagVars, threadVars, wireVars
<1>1. TypedToo' /\ LinkKnown' /\ EventTrue' /\ Resending'
  BY DEF TypedToo, LinkKnown, EventTrue, Resending, Unwritten
<1>2. SendOwn' /\ SentOwn'
  BY DEF SendOwn, SentOwn, AnswerDue, TypedToo, LinkKnown, EventTrue, Resending
<1>3. AnswerDue'
  BY DEF SendOwn, SentOwn, AnswerDue, TypedToo, LinkKnown, EventTrue, Resending
<1>4. AnswerKept' /\ OutcomeOpen' /\ AnswerIsOwn'
  BY DEF AnswerKept, AnswerDue, OutcomeOpen, AnswerIsOwn, TypedToo, LinkKnown,
         EventTrue, Resending
<1>5. NoLeftover'
  BY DEF NoLeftover, Due, SendOwn, SentOwn, AnswerDue, TypedToo, LinkKnown,
         EventTrue, Resending, OutcomeOpen
<1> QED  BY <1>1, <1>2, <1>3, <1>4, <1>5

(* SendCommand.  Nothing is due any more when it gives up, unless a wait was *)
(* too short or the connection is gone.                                     *)
LEMMA SendAnswer ==
  ASSUME IndInv, AnswerInv, Filled \/ SendLoop \/ Kick \/ SendDone \/ (SendTimeout /\ ~late')
  PROVE  AnswerInv'
<1> USE SdkAssumption DEF Sending, Over, Early, Live, OnTheWay, Own, Wired,
          FirstTry, OneMessage, Typed, Calls, None, AnswerInv, IndInv, appVars,
          flagVars, threadVars, wireVars
<1>1. CASE SendLoop
  <2> USE <1>1 DEF SendLoop, SendReturns
  <2>1. TypedToo' /\ LinkKnown' /\ EventTrue' /\ Resending'
    <3>1. TypedToo'
      BY DEF TypedToo, Resending, Unwritten
    <3>2. LinkKnown'
      BY DEF LinkKnown, TypedToo, EventTrue, Resending
    <3>3. EventTrue'
      BY DEF EventTrue, TypedToo, LinkKnown, Resending
    <3>4. Resending'
      BY DEF Resending, TypedToo, LinkKnown
    <3> QED  BY <3>1, <3>2, <3>3, <3>4
  <2>2. SendOwn' /\ SentOwn'
    BY DEF SendOwn, SentOwn, AnswerDue, TypedToo, LinkKnown, EventTrue,
           Resending
  <2>3. AnswerDue'
    BY DEF SendOwn, SentOwn, AnswerDue, TypedToo, LinkKnown, EventTrue,
           Resending
  <2>4. AnswerKept' /\ OutcomeOpen' /\ AnswerIsOwn'
    BY DEF AnswerKept, AnswerDue, OutcomeOpen, AnswerIsOwn, TypedToo, LinkKnown,
           EventTrue, Resending
  <2>5. NoLeftover'
    BY DEF NoLeftover, Due, SendOwn, SentOwn, AnswerDue, TypedToo, LinkKnown,
           EventTrue, Resending, OutcomeOpen
  <2> QED  BY <2>1, <2>2, <2>3, <2>4, <2>5
<1>2. CASE Kick
  <2> USE <1>2 DEF Kick
  <2>1. TypedToo' /\ LinkKnown' /\ EventTrue' /\ Resending'
    BY DEF TypedToo, LinkKnown, EventTrue, Resending, Unwritten
  <2>2. SendOwn' /\ SentOwn'
    BY DEF SendOwn, SentOwn, AnswerDue, TypedToo, LinkKnown, EventTrue,
           Resending
  <2>3. AnswerDue'
    BY DEF SendOwn, SentOwn, AnswerDue, TypedToo, LinkKnown, EventTrue,
           Resending
  <2>4. AnswerKept' /\ OutcomeOpen' /\ AnswerIsOwn'
    BY DEF AnswerKept, AnswerDue, OutcomeOpen, AnswerIsOwn, TypedToo, LinkKnown,
           EventTrue, Resending
  <2>5. NoLeftover'
    BY DEF NoLeftover, Due, SendOwn, SentOwn, AnswerDue, TypedToo, LinkKnown,
           EventTrue, Resending, OutcomeOpen
  <2> QED  BY <2>1, <2>2, <2>3, <2>4, <2>5
<1>3. CASE SendDone
  <2> USE <1>3 DEF SendDone, SendReturns
  <2>1. TypedToo' /\ LinkKnown' /\ EventTrue' /\ Resending'
    <3>1. TypedToo'
      BY DEF TypedToo, Resending, Unwritten
    <3>2. LinkKnown'
      BY DEF LinkKnown, TypedToo, EventTrue, Resending
    <3>3. EventTrue'
      BY DEF EventTrue, TypedToo, LinkKnown, Resending
    <3>4. Resending'
      BY DEF Resending, TypedToo, LinkKnown
    <3> QED  BY <3>1, <3>2, <3>3, <3>4
  <2>2. SendOwn' /\ SentOwn'
    BY DEF SendOwn, SentOwn, AnswerDue, TypedToo, LinkKnown, EventTrue,
           Resending
  <2>3. AnswerDue'
    <3>1. CASE OnTheWay
      BY <3>1 DEF AnswerDue, TypedToo, LinkKnown, Resending
    <3>2. CASE ~OnTheWay
      BY <3>2 DEF AnswerDue
    <3> QED  BY <3>1, <3>2
  <2>4. AnswerKept' /\ OutcomeOpen' /\ AnswerIsOwn'
    BY DEF AnswerKept, AnswerDue, OutcomeOpen, AnswerIsOwn, TypedToo, LinkKnown,
           EventTrue, Resending
  <2>5. NoLeftover'
    BY DEF NoLeftover, Due, SendOwn, SentOwn, AnswerDue, TypedToo, LinkKnown,
           EventTrue, Resending, OutcomeOpen
  <2> QED  BY <2>1, <2>2, <2>3, <2>4, <2>5
<1>4. CASE SendTimeout /\ ~late'
  <2> USE <1>4 DEF SendTimeout, SendReturns, WriteComing, MutexFree, RecvMutexFree
  <2>1. TypedToo' /\ LinkKnown' /\ EventTrue' /\ Resending'
    <3>1. TypedToo'
      BY DEF TypedToo, Resending, Unwritten
    <3>2. LinkKnown'
      BY DEF LinkKnown, TypedToo, EventTrue, Resending
    <3>3. EventTrue'
      BY DEF EventTrue, TypedToo, LinkKnown, Resending
    <3>4. Resending'
      BY DEF Resending, TypedToo, LinkKnown
    <3> QED  BY <3>1, <3>2, <3>3, <3>4
  <2>2. SendOwn' /\ SentOwn'
    BY DEF SendOwn, SentOwn, AnswerDue, TypedToo, LinkKnown, EventTrue,
           Resending
  <2>3. AnswerDue'
    BY DEF SendOwn, SentOwn, AnswerDue, TypedToo, LinkKnown, EventTrue,
           Resending
  <2>4. AnswerKept' /\ OutcomeOpen' /\ AnswerIsOwn'
    BY DEF AnswerKept, AnswerDue, OutcomeOpen, AnswerIsOwn, TypedToo, LinkKnown,
           EventTrue, Resending
  <2>5. NoLeftover'
    BY DEF NoLeftover, Due, SendOwn, SentOwn, AnswerDue, TypedToo, LinkKnown,
           EventTrue, Resending, OutcomeOpen
  <2> QED  BY <2>1, <2>2, <2>3, <2>4, <2>5
<1>5. CASE Filled
  <2> USE <1>5 DEF Filled, Measure, Blank
  <2>1. TypedToo' /\ LinkKnown' /\ EventTrue' /\ Resending'
    BY DEF TypedToo, LinkKnown, EventTrue, Resending, Unwritten
  <2>2. SendOwn' /\ SentOwn'
    BY DEF SendOwn, SentOwn, AnswerDue, NoLeftover, TypedToo, LinkKnown,
           EventTrue, Resending
  <2>3. AnswerDue'
    BY DEF SendOwn, SentOwn, AnswerDue, TypedToo, LinkKnown, EventTrue,
           Resending
  <2>4. AnswerKept' /\ OutcomeOpen' /\ AnswerIsOwn'
    BY DEF AnswerKept, AnswerDue, OutcomeOpen, AnswerIsOwn, TypedToo, LinkKnown,
           EventTrue, Resending
  <2>5. NoLeftover'
    BY DEF NoLeftover, Due, SendOwn, SentOwn, AnswerDue, TypedToo, LinkKnown,
           EventTrue, Resending, OutcomeOpen
  <2> QED  BY <2>1, <2>2, <2>3, <2>4, <2>5
<1> QED  BY <1>1, <1>2, <1>3, <1>4, <1>5

(* recv_server_data.  Its wait ends without data only when nothing is on    *)
(* its way.                                                                     *)
LEMMA ReceiveAnswer ==
  ASSUME IndInv, AnswerInv,
         RecvLoop \/ RecvDone \/ (RecvTimeout /\ ~late') \/ RecvReturns
  PROVE  AnswerInv'
<1> USE SdkAssumption DEF Sending, Over, Early, Live, OnTheWay, Own, Wired,
          FirstTry, OneMessage, Typed, Calls, None, AnswerInv, IndInv, appVars,
          flagVars, threadVars, wireVars
<1>1. CASE RecvLoop
  <2> USE <1>1 DEF RecvLoop
  <2>1. TypedToo' /\ LinkKnown' /\ EventTrue' /\ Resending'
    <3>1. TypedToo'
      BY DEF TypedToo
    <3>2. LinkKnown' /\ EventTrue' /\ Resending'
      BY DEF TypedToo, LinkKnown, EventTrue, Resending
    <3> QED  BY <3>1, <3>2
  <2>2. SendOwn' /\ SentOwn'
    BY DEF SendOwn, SentOwn, AnswerDue, TypedToo, LinkKnown, EventTrue,
           Resending
  <2>3. AnswerDue'
    BY DEF SendOwn, SentOwn, AnswerDue, TypedToo, LinkKnown, EventTrue,
           Resending
  <2>4. AnswerKept' /\ OutcomeOpen' /\ AnswerIsOwn'
    BY DEF AnswerKept, AnswerDue, OutcomeOpen, AnswerIsOwn, TypedToo, LinkKnown,
           EventTrue, Resending
  <2>5. NoLeftover'
    BY DEF NoLeftover, Due, SendOwn, SentOwn, AnswerDue, TypedToo, LinkKnown,
           EventTrue, Resending, OutcomeOpen
  <2> QED  BY <2>1, <2>2, <2>3, <2>4, <2>5
<1>2. CASE RecvDone
  <2> USE <1>2 DEF RecvDone, Resend, Measure
  <2>1. TypedToo' /\ LinkKnown' /\ EventTrue' /\ Resending'
    <3>1. TypedToo'
      BY DEF TypedToo, Resending, Unwritten
    <3>2. LinkKnown'
      BY DEF LinkKnown, TypedToo, EventTrue, Resending
    <3>3. EventTrue'
      BY DEF EventTrue, TypedToo, LinkKnown, Resending
    <3>4. Resending'
      BY DEF Resending, TypedToo, LinkKnown
    <3> QED  BY <3>1, <3>2, <3>3, <3>4
  <2>2. SendOwn' /\ SentOwn'
    BY DEF SendOwn, SentOwn, AnswerDue, TypedToo, LinkKnown, EventTrue,
           Resending
  <2>3. AnswerDue'
    BY DEF SendOwn, SentOwn, AnswerDue, TypedToo, LinkKnown, EventTrue,
           Resending
  <2>4. AnswerKept' /\ OutcomeOpen' /\ AnswerIsOwn'
    BY DEF AnswerKept, AnswerDue, OutcomeOpen, AnswerIsOwn, TypedToo, LinkKnown,
           EventTrue, Resending
  <2>5. NoLeftover'
    BY DEF NoLeftover, Due, SendOwn, SentOwn, AnswerDue, TypedToo, LinkKnown,
           EventTrue, Resending, OutcomeOpen
  <2> QED  BY <2>1, <2>2, <2>3, <2>4, <2>5
<1>3. CASE RecvTimeout /\ ~late'
  <2> USE <1>3 DEF RecvTimeout, Resend, Measure, ReplyComing
  <2>1. TypedToo' /\ LinkKnown' /\ EventTrue' /\ Resending'
    BY DEF TypedToo, LinkKnown, EventTrue, Resending, Unwritten
  <2>2. SendOwn' /\ SentOwn'
    BY DEF SendOwn, SentOwn, AnswerDue, TypedToo, LinkKnown, EventTrue,
           Resending
  <2>3. AnswerDue'
    BY DEF SendOwn, SentOwn, AnswerDue, TypedToo, LinkKnown, EventTrue,
           Resending
  <2>4. AnswerKept' /\ OutcomeOpen' /\ AnswerIsOwn'
    BY DEF AnswerKept, AnswerDue, OutcomeOpen, AnswerIsOwn, TypedToo, LinkKnown,
           EventTrue, Resending
  <2>5. NoLeftover'
    BY DEF NoLeftover, Due, SendOwn, SentOwn, AnswerDue, TypedToo, LinkKnown,
           EventTrue, Resending, OutcomeOpen
  <2> QED  BY <2>1, <2>2, <2>3, <2>4, <2>5
<1>4. CASE RecvReturns
  <2> USE <1>4 DEF RecvReturns, Reply, Blank
  <2>1. TypedToo' /\ LinkKnown' /\ EventTrue' /\ Resending'
    BY DEF TypedToo, LinkKnown, EventTrue, Resending, Unwritten
  <2>2. SendOwn' /\ SentOwn'
    BY DEF SendOwn, SentOwn, AnswerDue, TypedToo, LinkKnown, EventTrue,
           Resending
  <2>3. AnswerDue'
    BY DEF SendOwn, SentOwn, AnswerDue, TypedToo, LinkKnown, EventTrue,
           Resending
  <2>4. AnswerKept' /\ OutcomeOpen' /\ AnswerIsOwn'
    BY DEF AnswerKept, AnswerDue, OutcomeOpen, AnswerIsOwn, TypedToo, LinkKnown,
           EventTrue, Resending
  <2>5. NoLeftover'
    BY DEF NoLeftover, Due, SendOwn, SentOwn, AnswerDue, TypedToo, LinkKnown,
           EventTrue, Resending, OutcomeOpen
  <2> QED  BY <2>1, <2>2, <2>3, <2>4, <2>5
<1> QED  BY <1>1, <1>2, <1>3, <1>4

(* The destructor. *)
LEMMA DestroyAnswer ==
  ASSUME IndInv, AnswerInv, Destroy \/ Destroyed
  PROVE  AnswerInv'
<1> USE SdkAssumption DEF Sending, Over, Early, Live, OnTheWay, Own, Wired,
          FirstTry, OneMessage, Typed, Calls, None, AnswerInv, IndInv, appVars,
          flagVars, threadVars, wireVars
<1>1. CASE Destroy
  <2> USE <1>1 DEF Destroy
  <2>1. TypedToo' /\ LinkKnown' /\ EventTrue' /\ Resending'
    BY DEF TypedToo, LinkKnown, EventTrue, Resending, Unwritten
  <2>2. SendOwn' /\ SentOwn'
    BY DEF SendOwn, SentOwn, AnswerDue, TypedToo, LinkKnown, EventTrue,
           Resending
  <2>3. AnswerDue'
    BY DEF SendOwn, SentOwn, AnswerDue, TypedToo, LinkKnown, EventTrue,
           Resending
  <2>4. AnswerKept' /\ OutcomeOpen' /\ AnswerIsOwn'
    BY DEF AnswerKept, AnswerDue, OutcomeOpen, AnswerIsOwn, TypedToo, LinkKnown,
           EventTrue, Resending
  <2>5. NoLeftover'
    BY DEF NoLeftover, Due, SendOwn, SentOwn, AnswerDue, TypedToo, LinkKnown,
           EventTrue, Resending, OutcomeOpen
  <2> QED  BY <2>1, <2>2, <2>3, <2>4, <2>5
<1>2. CASE Destroyed
  <2> USE <1>2 DEF Destroyed
  <2>1. TypedToo' /\ LinkKnown' /\ EventTrue' /\ Resending'
    BY DEF TypedToo, LinkKnown, EventTrue, Resending, Unwritten
  <2>2. SendOwn' /\ SentOwn'
    BY DEF SendOwn, SentOwn, AnswerDue, TypedToo, LinkKnown, EventTrue,
           Resending
  <2>3. AnswerDue'
    BY DEF SendOwn, SentOwn, AnswerDue, TypedToo, LinkKnown, EventTrue,
           Resending
  <2>4. AnswerKept' /\ OutcomeOpen' /\ AnswerIsOwn'
    BY DEF AnswerKept, AnswerDue, OutcomeOpen, AnswerIsOwn, TypedToo, LinkKnown,
           EventTrue, Resending
  <2>5. NoLeftover'
    BY DEF NoLeftover, Due, SendOwn, SentOwn, AnswerDue, TypedToo, LinkKnown,
           EventTrue, Resending, OutcomeOpen
  <2> QED  BY <2>1, <2>2, <2>3, <2>4, <2>5
<1> QED  BY <1>1, <1>2

(* The service thread between two callbacks. *)
LEMMA LoopAnswer ==
  ASSUME IndInv, AnswerInv, LwsService \/ ServiceCheck
  PROVE  AnswerInv'
<1> USE SdkAssumption DEF Sending, Over, Early, Live, OnTheWay, Own, Wired,
          FirstTry, OneMessage, Typed, Calls, None, AnswerInv, IndInv, appVars,
          flagVars, threadVars, wireVars
<1>1. CASE LwsService
  <2> USE <1>1 DEF LwsService, Event
  <2>1. TypedToo' /\ LinkKnown' /\ EventTrue' /\ Resending'
    <3>1. TypedToo'
      BY DEF TypedToo
    <3>2. LinkKnown' /\ EventTrue' /\ Resending'
      BY DEF TypedToo, LinkKnown, EventTrue, Resending
    <3> QED  BY <3>1, <3>2
  <2>2. SendOwn' /\ SentOwn'
    BY DEF SendOwn, SentOwn, AnswerDue, TypedToo, LinkKnown, EventTrue,
           Resending
  <2>3. AnswerDue'
    BY DEF SendOwn, SentOwn, AnswerDue, TypedToo, LinkKnown, EventTrue,
           Resending
  <2>4. AnswerKept' /\ OutcomeOpen' /\ AnswerIsOwn'
    BY DEF AnswerKept, AnswerDue, OutcomeOpen, AnswerIsOwn, TypedToo, LinkKnown,
           EventTrue, Resending
  <2>5. NoLeftover'
    BY DEF NoLeftover, Due, SendOwn, SentOwn, AnswerDue, TypedToo, LinkKnown,
           EventTrue, Resending, OutcomeOpen
  <2> QED  BY <2>1, <2>2, <2>3, <2>4, <2>5
<1>2. CASE ServiceCheck
  <2> USE <1>2 DEF ServiceCheck
  <2>1. TypedToo' /\ LinkKnown' /\ EventTrue' /\ Resending'
    BY DEF TypedToo, LinkKnown, EventTrue, Resending, Unwritten
  <2>2. SendOwn' /\ SentOwn'
    BY DEF SendOwn, SentOwn, AnswerDue, TypedToo, LinkKnown, EventTrue,
           Resending
  <2>3. AnswerDue'
    BY DEF SendOwn, SentOwn, AnswerDue, TypedToo, LinkKnown, EventTrue,
           Resending
  <2>4. AnswerKept' /\ OutcomeOpen' /\ AnswerIsOwn'
    BY DEF AnswerKept, AnswerDue, OutcomeOpen, AnswerIsOwn, TypedToo, LinkKnown,
           EventTrue, Resending
  <2>5. NoLeftover'
    BY DEF NoLeftover, Due, SendOwn, SentOwn, AnswerDue, TypedToo, LinkKnown,
           EventTrue, Resending, OutcomeOpen
  <2> QED  BY <2>1, <2>2, <2>3, <2>4, <2>5
<1> QED  BY <1>1, <1>2

(* What the write callback puts on the wire is a request. *)
LEMMA WrittenTyped ==
  ASSUME Typed, toServer \in Seq(Calls), OnWriteable
  PROVE  toServer' \in Seq(Calls)
<1>1. toServer' = toServer \/ (toServer' = Append(toServer, sendBuff) /\ sendBuff # None)
  BY DEF OnWriteable
<1>2. sendBuff \in Calls \cup {None}
  BY DEF Typed
<1> QED  BY <1>1, <1>2, SeqFacts

(* The callbacks: the request leaves, the reply arrives, the link comes and  *)
(* goes.                                                                    *)
LEMMA CallbackAnswer ==
  ASSUME IndInv, AnswerInv, OnEstablished \/ OnConnectionError \/ OnReceive \/ OnWriteable \/ OnClosed
  PROVE  AnswerInv'
<1> USE SdkAssumption DEF Sending, Over, Early, Live, OnTheWay, Own, Wired,
          FirstTry, OneMessage, Typed, Calls, None, AnswerInv, IndInv, appVars,
          flagVars, threadVars, wireVars
<1>1. CASE OnEstablished
  <2> USE <1>1 DEF OnEstablished, MutexFree
  <2>1. TypedToo' /\ LinkKnown' /\ EventTrue' /\ Resending'
    BY DEF TypedToo, LinkKnown, EventTrue, Resending, Unwritten
  <2>2. SendOwn' /\ SentOwn'
    BY DEF SendOwn, SentOwn, AnswerDue, TypedToo, LinkKnown, EventTrue,
           Resending
  <2>3. AnswerDue'
    BY DEF SendOwn, SentOwn, AnswerDue, TypedToo, LinkKnown, EventTrue,
           Resending
  <2>4. AnswerKept' /\ OutcomeOpen' /\ AnswerIsOwn'
    BY DEF AnswerKept, AnswerDue, OutcomeOpen, AnswerIsOwn, TypedToo, LinkKnown,
           EventTrue, Resending
  <2>5. NoLeftover'
    BY DEF NoLeftover, Due, SendOwn, SentOwn, AnswerDue, TypedToo, LinkKnown,
           EventTrue, Resending, OutcomeOpen
  <2> QED  BY <2>1, <2>2, <2>3, <2>4, <2>5
<1>2. CASE OnConnectionError
  <2> USE <1>2 DEF OnConnectionError
  <2>1. TypedToo' /\ LinkKnown' /\ EventTrue' /\ Resending'
    BY DEF TypedToo, LinkKnown, EventTrue, Resending, Unwritten
  <2>2. SendOwn' /\ SentOwn'
    BY DEF SendOwn, SentOwn, AnswerDue, TypedToo, LinkKnown, EventTrue,
           Resending
  <2>3. AnswerDue'
    BY DEF SendOwn, SentOwn, AnswerDue, TypedToo, LinkKnown, EventTrue,
           Resending
  <2>4. AnswerKept' /\ OutcomeOpen' /\ AnswerIsOwn'
    BY DEF AnswerKept, AnswerDue, OutcomeOpen, AnswerIsOwn, TypedToo, LinkKnown,
           EventTrue, Resending
  <2>5. NoLeftover'
    BY DEF NoLeftover, Due, SendOwn, SentOwn, AnswerDue, TypedToo, LinkKnown,
           EventTrue, Resending, OutcomeOpen
  <2> QED  BY <2>1, <2>2, <2>3, <2>4, <2>5
<1>3. CASE OnReceive
  <2> USE <1>3 DEF OnReceive, RecvMutexFree
  <2>1. TypedToo' /\ LinkKnown' /\ EventTrue' /\ Resending'
    BY DEF TypedToo, LinkKnown, EventTrue, Resending, Unwritten
  <2>2. SendOwn' /\ SentOwn'
    BY DEF SendOwn, SentOwn, AnswerDue, TypedToo, LinkKnown, EventTrue,
           Resending
  <2>3. AnswerDue'
    <3>1. Live /\ OnTheWay => Tail(toClient) = <<>>
      BY SeqFacts DEF AnswerDue, TypedToo, EventTrue
    <3> QED  BY <3>1 DEF AnswerDue, EventTrue
  <2>4. AnswerKept' /\ OutcomeOpen' /\ AnswerIsOwn'
    BY DEF AnswerKept, AnswerDue, OutcomeOpen, AnswerIsOwn, TypedToo, LinkKnown,
           EventTrue, Resending
  <2>5. NoLeftover'
    BY DEF NoLeftover, Due, SendOwn, SentOwn, AnswerDue, TypedToo, LinkKnown,
           EventTrue, Resending, OutcomeOpen
  <2> QED  BY <2>1, <2>2, <2>3, <2>4, <2>5
<1>4. CASE OnWriteable
  <2> USE <1>4 DEF OnWriteable, MutexFree
  <2>1. TypedToo' /\ LinkKnown' /\ EventTrue' /\ Resending'
    <3>1. toServer' \in Seq(Calls)
      BY WrittenTyped DEF TypedToo
    <3>2. TypedToo'
      BY <3>1 DEF TypedToo
    <3>3. LinkKnown' /\ EventTrue' /\ Resending'
      BY DEF LinkKnown, TypedToo, EventTrue, Resending
    <3> QED  BY <3>2, <3>3
  <2>2. SendOwn' /\ SentOwn'
    BY DEF SendOwn, SentOwn, AnswerDue, TypedToo, LinkKnown, EventTrue,
           Resending
  <2>3. AnswerDue'
    <3>1. CASE /\ sendBuff # None /\ link = "open" /\ sendBuff' = None
               /\ toServer' = Append(toServer, sendBuff) /\ nBytes' = "full"
               /\ wired' = [wired EXCEPT ![sendBuff] = @ + 1] /\ sent' = TRUE
      <4> SUFFICES ASSUME Live' PROVE AnswerDue'
        BY DEF AnswerDue
      <4>1. Live /\ FirstTry /\ ~OnTheWay /\ sendBuff = call
        BY <3>1 DEF SendOwn, TypedToo
      <4>2. apc = "sendWait"
        BY <3>1, <4>1 DEF NoLeftover, Due
      <4>3. OneMessage'
        BY <3>1, <4>1, OneElement
      <4>4. Wired'
        BY <3>1, <4>1
      <4> QED  BY <3>1, <4>1, <4>2, <4>3, <4>4 DEF AnswerDue
    <3>2. CASE UNCHANGED <<toServer, wired>>
      BY <3>2 DEF AnswerDue
    <3> QED  BY <3>1, <3>2
  <2>4. AnswerKept' /\ OutcomeOpen' /\ AnswerIsOwn'
    BY DEF AnswerKept, AnswerDue, OutcomeOpen, AnswerIsOwn, TypedToo, LinkKnown,
           EventTrue, Resending
  <2>5. NoLeftover'
    BY DEF NoLeftover, Due, SendOwn, SentOwn, AnswerDue, TypedToo, LinkKnown,
           EventTrue, Resending, OutcomeOpen
  <2> QED  BY <2>1, <2>2, <2>3, <2>4, <2>5
<1>5. CASE OnClosed
  <2> USE <1>5 DEF OnClosed, MutexFree
  <2>1. TypedToo' /\ LinkKnown' /\ EventTrue' /\ Resending'
    BY DEF TypedToo, LinkKnown, EventTrue, Resending, Unwritten
  <2>2. SendOwn' /\ SentOwn'
    BY DEF SendOwn, SentOwn, AnswerDue, TypedToo, LinkKnown, EventTrue,
           Resending
  <2>3. AnswerDue'
    BY DEF SendOwn, SentOwn, AnswerDue, TypedToo, LinkKnown, EventTrue,
           Resending
  <2>4. AnswerKept' /\ OutcomeOpen' /\ AnswerIsOwn'
    BY DEF AnswerKept, AnswerDue, OutcomeOpen, AnswerIsOwn, TypedToo, LinkKnown,
           EventTrue, Resending
  <2>5. NoLeftover'
    BY DEF NoLeftover, Due, SendOwn, SentOwn, AnswerDue, TypedToo, LinkKnown,
           EventTrue, Resending, OutcomeOpen
  <2> QED  BY <2>1, <2>2, <2>3, <2>4, <2>5
<1> QED  BY <1>1, <1>2, <1>3, <1>4, <1>5

(* The server greets, answers once, or closes. *)
LEMMA ServerAnswer ==
  ASSUME IndInv, AnswerInv, ServerAccepts \/ ServerRefuses \/ ServerAnswers \/ ServerCloses
  PROVE  AnswerInv'
<1> USE SdkAssumption DEF Sending, Over, Early, Live, OnTheWay, Own, Wired,
          FirstTry, OneMessage, Typed, Calls, None, AnswerInv, IndInv, appVars,
          flagVars, threadVars, wireVars
<1>1. CASE ServerAccepts
  <2> USE <1>1 DEF ServerAccepts
  <2>1. TypedToo' /\ LinkKnown' /\ EventTrue' /\ Resending'
    <3>1. TypedToo'
      BY SeqFacts DEF TypedToo, Reply
    <3>2. LinkKnown'
      BY SeqFacts DEF LinkKnown, TypedToo, EventTrue, Resending
    <3>3. EventTrue'
      BY SeqFacts DEF LinkKnown, TypedToo, EventTrue, Resending
    <3>4. Resending'
      BY DEF LinkKnown, TypedToo, Resending
    <3> QED  BY <3>1, <3>2, <3>3, <3>4
  <2>2. SendOwn' /\ SentOwn'
    BY DEF SendOwn, SentOwn, AnswerDue, TypedToo, LinkKnown, EventTrue,
           Resending
  <2>3. AnswerDue'
    BY DEF SendOwn, SentOwn, AnswerDue, TypedToo, LinkKnown, EventTrue,
           Resending
  <2>4. AnswerKept' /\ OutcomeOpen' /\ AnswerIsOwn'
    BY DEF AnswerKept, AnswerDue, OutcomeOpen, AnswerIsOwn, TypedToo, LinkKnown,
           EventTrue, Resending
  <2>5. NoLeftover'
    BY DEF NoLeftover, Due, SendOwn, SentOwn, AnswerDue, TypedToo, LinkKnown,
           EventTrue, Resending, OutcomeOpen
  <2> QED  BY <2>1, <2>2, <2>3, <2>4, <2>5
<1>2. CASE ServerRefuses
  <2> USE <1>2 DEF ServerRefuses
  <2>1. TypedToo' /\ LinkKnown' /\ EventTrue' /\ Resending'
    BY DEF TypedToo, LinkKnown, EventTrue, Resending, Unwritten
  <2>2. SendOwn' /\ SentOwn'
    BY DEF SendOwn, SentOwn, AnswerDue, TypedToo, LinkKnown, EventTrue,
           Resending
  <2>3. AnswerDue'
    BY DEF SendOwn, SentOwn, AnswerDue, TypedToo, LinkKnown, EventTrue,
           Resending
  <2>4. AnswerKept' /\ OutcomeOpen' /\ AnswerIsOwn'
    BY DEF AnswerKept, AnswerDue, OutcomeOpen, AnswerIsOwn, TypedToo, LinkKnown,
           EventTrue, Resending
  <2>5. NoLeftover'
    BY DEF NoLeftover, Due, SendOwn, SentOwn, AnswerDue, TypedToo, LinkKnown,
           EventTrue, Resending, OutcomeOpen
  <2> QED  BY <2>1, <2>2, <2>3, <2>4, <2>5
<1>3. CASE ServerAnswers
  <2> USE <1>3 DEF ServerAnswers
  <2>1. TypedToo' /\ LinkKnown' /\ EventTrue' /\ Resending'
    <3>1. TypedToo'
      BY SeqFacts DEF TypedToo, Reply
    <3>2. LinkKnown'
      BY SeqFacts DEF LinkKnown, TypedToo, EventTrue, Resending
    <3>3. EventTrue'
      <4>1. PICK k \in {"good", "bad"} :
              toClient' = Append(toClient, [of |-> Head(toServer), kind |-> k])
        OBVIOUS
      <4>2. [of |-> Head(toServer), kind |-> k] \in Reply
        BY SeqFacts DEF TypedToo, Reply
      <4>3. toClient' # <<>>
        BY <4>1, <4>2, SeqFacts DEF TypedToo
      <4> QED  BY <4>3 DEF EventTrue
    <3>4. Resending'
      BY DEF LinkKnown, TypedToo, Resending
    <3> QED  BY <3>1, <3>2, <3>3, <3>4
  <2>2. SendOwn' /\ SentOwn'
    BY DEF SendOwn, SentOwn, AnswerDue, TypedToo, LinkKnown, EventTrue,
           Resending
  <2>3. AnswerDue'
    <3> SUFFICES ASSUME Live' PROVE AnswerDue'
      BY DEF AnswerDue
    <3>1. toServer = <<call>> /\ toClient = <<>> /\ ~dataReceived
      BY DEF AnswerDue
    <3>2. /\ toServer' = <<>>
          /\ \E k \in {"good", "bad"} : toClient' = <<[of |-> call, kind |-> k]>>
      BY <3>1, OneElement
    <3>3. OneMessage'
      BY <3>1, <3>2, OneElement
    <3> QED  BY <3>1, <3>3 DEF AnswerDue
  <2>4. AnswerKept' /\ OutcomeOpen' /\ AnswerIsOwn'
    BY DEF AnswerKept, AnswerDue, OutcomeOpen, AnswerIsOwn, TypedToo, LinkKnown,
           EventTrue, Resending
  <2>5. NoLeftover'
    BY DEF NoLeftover, Due, SendOwn, SentOwn, AnswerDue, TypedToo, LinkKnown,
           EventTrue, Resending, OutcomeOpen
  <2> QED  BY <2>1, <2>2, <2>3, <2>4, <2>5
<1>4. CASE ServerCloses
  <2> USE <1>4 DEF ServerCloses
  <2>1. TypedToo' /\ LinkKnown' /\ EventTrue' /\ Resending'
    <3>1. TypedToo'
      BY SeqFacts DEF TypedToo
    <3>2. LinkKnown' /\ EventTrue' /\ Resending'
      BY DEF LinkKnown, TypedToo, EventTrue, Resending
    <3> QED  BY <3>1, <3>2
  <2>2. SendOwn' /\ SentOwn'
    BY DEF SendOwn, SentOwn, AnswerDue, TypedToo, LinkKnown, EventTrue,
           Resending
  <2>3. AnswerDue'
    BY DEF SendOwn, SentOwn, AnswerDue, TypedToo, LinkKnown, EventTrue,
           Resending
  <2>4. AnswerKept' /\ OutcomeOpen' /\ AnswerIsOwn'
    BY DEF AnswerKept, AnswerDue, OutcomeOpen, AnswerIsOwn, TypedToo, LinkKnown,
           EventTrue, Resending
  <2>5. NoLeftover'
    BY DEF NoLeftover, Due, SendOwn, SentOwn, AnswerDue, TypedToo, LinkKnown,
           EventTrue, Resending, OutcomeOpen
  <2> QED  BY <2>1, <2>2, <2>3, <2>4, <2>5
<1> QED  BY <1>1, <1>2, <1>3, <1>4

------------------------------------------------------------------------------
LEMMA AnswerInit == Init => AnswerInv
<1> SUFFICES ASSUME Init PROVE AnswerInv
  OBVIOUS
<1>1. TypedToo
  BY SeqFacts DEF Init, TypedToo
<1> QED
  BY <1>1 DEF Init, AnswerInv, LinkKnown, EventTrue, Resending, SendOwn, SentOwn,
              NoLeftover, Due, AnswerDue, AnswerKept, OutcomeOpen, AnswerIsOwn,
              Over, Early, Live, OnTheWay, Sending, None

LEMMA AnswerSame ==
  ASSUME AnswerInv, UNCHANGED vars
  PROVE  AnswerInv'
BY DEF vars, appVars, flagVars, threadVars, wireVars, AnswerInv, TypedToo,
       LinkKnown, EventTrue, Resending, SendOwn, SentOwn, NoLeftover, Due,
       AnswerDue, AnswerKept, OutcomeOpen, AnswerIsOwn, Over, Early, Live,
       OnTheWay, Own, Wired, FirstTry, OneMessage, Sending

(* As long as no wait was too short, every step preserves the invariant. *)
LEMMA AnswerStep ==
  ASSUME IndInv, AnswerInv, ~late', [Next]_vars
  PROVE  AnswerInv'
<1>1. CASE Application \/ Timeout
  BY <1>1, ConnectAnswer, SendAnswer, ReceiveAnswer, DestroyAnswer
  DEF Application, Timeout
<1>2. CASE Call \/ HangUp
  BY <1>2, CallAnswer DEF Call, HangUp
<1>3. CASE Service
  BY <1>3, LoopAnswer, CallbackAnswer DEF Service
<1>4. CASE Server
  BY <1>4, ServerAnswer DEF Server
<1> QED  BY <1>1, <1>2, <1>3, <1>4, AnswerSame DEF Next

(* An answer that is too late stays so. *)
LEMMA LateStays ==
  ASSUME [Next]_vars, late \in BOOLEAN
  PROVE  late' \in BOOLEAN /\ (late => late')
<1>1. CASE ServerConnect \/ Connected \/ ConnectTimeout \/ Call \/ HangUp \/ Filled
  BY <1>1 DEF ServerConnect, Connected, ConnectTimeout, Call, HangUp, CallStarts,
              Filled, wireVars
<1>2. CASE SendLoop \/ Kick \/ SendDone \/ SendTimeout
  BY <1>2 DEF SendLoop, Kick, SendDone, SendTimeout, wireVars
<1>3. CASE RecvLoop \/ RecvDone \/ RecvTimeout \/ RecvReturns \/ Destroy \/ Destroyed
  BY <1>3 DEF RecvLoop, RecvDone, RecvTimeout, RecvReturns, Destroy, Destroyed, wireVars
<1>4. CASE Service
  BY <1>4 DEF Service, LwsService, OnEstablished, OnConnectionError, OnReceive,
              OnWriteable, OnClosed, ServiceCheck, wireVars
<1>5. CASE Server
  BY <1>5 DEF Server, ServerAccepts, ServerRefuses, ServerAnswers, ServerCloses, wireVars
<1>6. CASE UNCHANGED vars
  BY <1>6 DEF vars, wireVars
<1> QED  BY <1>1, <1>2, <1>3, <1>4, <1>5, <1>6 DEF Next, Application, Timeout

(* The invariant of the three theorems below. *)
InTimeInv == IndInv /\ late \in BOOLEAN /\ (~late => AnswerInv)

LEMMA InTimeHolds == Spec => []InTimeInv
<1>1. Init => InTimeInv
  BY InitInd, AnswerInit DEF InTimeInv, Init
<1>2. InTimeInv /\ [Next]_vars => InTimeInv'
  BY StepInd, AnswerStep, LateStays DEF InTimeInv
<1> QED  BY <1>1, <1>2, PTL DEF Spec

(* AnswerIsOwn of SdkNetwork: a call that succeeds returns the reply to that *)
(* call, for any number of calls and retries and whatever the server and the *)
(* link do, until a wait of ten seconds is too short for its answer.         *)
THEOREM OwnAnswer == Spec => []AnswerIsOwn
<1>1. InTimeInv => AnswerIsOwn
  BY DEF InTimeInv, AnswerInv, AnswerIsOwn
<1> QED  BY InTimeHolds, <1>1, PTL

(* WrittenWhole of SdkNetwork: as long, callback_function does not write a   *)
(* request that the application thread is still filling, although send_buff  *)
(* is filled without m_mutex.                                                *)
THEOREM WholeRequests == Spec => WrittenWhole
<1>1. InTimeInv /\ [Next]_vars => [apc = "fill" /\ ~late => wired' = wired]_vars
  <2> SUFFICES ASSUME InTimeInv, Next, apc = "fill", ~late
               PROVE  wired' = wired
    BY DEF vars, wireVars
  <2>1. CASE OnWriteable
    <3>1. link # "open" => wired' = wired
      BY <2>1 DEF OnWriteable
    <3>2. link = "open" => FALSE
      BY <2>1 DEF OnWriteable, InTimeInv, AnswerInv, NoLeftover, Due, Live, Over
    <3> QED  BY <3>1, <3>2
  <2>2. CASE ~OnWriteable
    <3>1. ~Call /\ ~HangUp /\ ~RecvReturns
      BY DEF Call, HangUp, CallStarts, RecvReturns
    <3> QED  BY <2>2, <3>1, OtherSteps DEF InTimeInv, Requests
  <2> QED  BY <2>1, <2>2
<1> QED  BY InTimeHolds, <1>1, PTL DEF Spec, WrittenWhole

------------------------------------------------------------------------------
(* The refinement.  The abstract variables. *)
Reached == {0} \cup {n \in Calls : wired[n] > 0}
Result == IF apc \in Busy THEN "none" ELSE outcome

(* Only a write reaches the board, and only a request that has not yet. *)
LEMMA ReachStep ==
  ASSUME IndInv, OnWriteable
  PROVE  Calling!Reach \/ UNCHANGED <<call, Reached, Result>>
<1>1. UNCHANGED <<call, apc, outcome>>
  BY DEF OnWriteable, appVars
<1>2. UNCHANGED Result
  BY <1>1 DEF Result, Busy
<1>3. CASE wired' = wired
  BY <1>1, <1>2, <1>3 DEF Reached
<1>4. CASE sendBuff # None /\ wired' = [wired EXCEPT ![sendBuff] = @ + 1]
  <2>1. /\ sendBuff \in Calls /\ sendBuff \in 1 .. call
        /\ wired[sendBuff] = 0 /\ wired'[sendBuff] = 1
    BY <1>4, SdkAssumption DEF IndInv, Typed, Unwritten, Calls, None
  <2>2. Reached' = Reached \cup {sendBuff}
    BY <1>4, <2>1 DEF Reached, IndInv, Typed
  <2>3. sendBuff \notin Reached
    BY <2>1, SdkAssumption DEF Reached, Calls
  <2> QED  BY <1>1, <1>2, <2>1, <2>2, <2>3
           DEF Calling!Reach, Reached, Result
<1> QED  BY <1>3, <1>4 DEF OnWriteable

(* A step of one of the threads returns from a call or changes nothing that *)
(* the caller sees.                                                         *)
LEMMA ReturnStep ==
  ASSUME IndInv, AnswerInv, [Next]_vars, ~Call, ~HangUp, ~OnWriteable
  PROVE  /\ UNCHANGED <<call, Reached>>
         /\ \/ Result' = Result
            \/ /\ Result = "none"
               /\ \/ Result' = "ok" /\ call \in Reached
                  \/ Result' = "failed"
<1>1. UNCHANGED <<call, Reached>>
  <2>1. CASE RecvReturns
    BY <2>1 DEF RecvReturns, wireVars, Reached
  <2>2. CASE ~RecvReturns
    BY <2>2, OtherSteps DEF Requests, Reached, vars, appVars, wireVars
  <2> QED  BY <2>1, <2>2
<1> SUFFICES \/ Result' = Result
             \/ /\ Result = "none"
                /\ \/ Result' = "ok" /\ call \in Reached
                   \/ Result' = "failed"
  BY <1>1
<1> USE DEF Result, Busy, Sending
<1>2. CASE ServerConnect \/ Connected \/ ConnectTimeout \/ Filled \/ Kick
           \/ RecvLoop \/ Destroy \/ Destroyed
  BY <1>2 DEF ServerConnect, Connected, ConnectTimeout, Filled, Kick, RecvLoop,
              Destroy, Destroyed, AnswerInv, OutcomeOpen
<1>3. CASE SendLoop \/ SendDone \/ SendTimeout
  BY <1>3 DEF SendLoop, SendDone, SendTimeout, SendReturns, AnswerInv, OutcomeOpen,
              Resending
<1>4. CASE RecvDone \/ RecvTimeout
  BY <1>4 DEF RecvDone, RecvTimeout, Resend
<1>5. CASE RecvReturns
  <2>1. outcome = "ok" /\ connected => call \in Reached
    BY <1>5 DEF RecvReturns, AnswerInv, AnswerKept, Wired, Reached, IndInv, Typed,
                Calls
  <2> QED  BY <1>5, <2>1 DEF RecvReturns
<1>6. CASE (Service /\ ~OnWriteable) \/ Server \/ UNCHANGED vars
  <2>1. UNCHANGED <<apc, outcome>>
    BY <1>6 DEF Service, LwsService, OnEstablished, OnConnectionError, OnReceive,
                OnClosed, ServiceCheck, Server, ServerAccepts, ServerRefuses,
                ServerAnswers, ServerCloses, vars, appVars
  <2> QED  BY <2>1
<1> QED  BY <1>1, <1>2, <1>3, <1>4, <1>5, <1>6 DEF Next, Application, Timeout

(* ImplementsRemoteCall of SdkNetwork: SendCommand and recv_server_data      *)
(* never report a success for a request that did not leave the host, until a *)
(* wait of ten seconds is too short for its answer.                          *)
THEOREM ImplementsCall == Spec => ImplementsRemoteCall
<1>1. Init => Calling!CallInit
  BY DEF Init, Calling!CallInit, Busy, Calls
<1>2. ASSUME IndInv, AnswerInv, [Next]_vars
      PROVE  \/ Calling!NewCall \/ Calling!Reach \/ Calling!Return
             \/ UNCHANGED <<call, Reached, Result>>
  <2>1. CASE Call \/ HangUp
    <3>1. PICK w \in {"call", "bye"} : CallStarts(w)
      BY <2>1 DEF Call, HangUp
    <3>2. call' = call + 1 /\ apc' = "fill" /\ wired' = wired
      BY <3>1 DEF CallStarts, wireVars
    <3> QED  BY <3>2 DEF Calling!NewCall, Reached, Busy
  <2>2. CASE OnWriteable
    BY <1>2, <2>2, ReachStep
  <2>3. CASE ~Call /\ ~HangUp /\ ~OnWriteable
    BY <1>2, <2>3, ReturnStep DEF Calling!Return, Reached, Result
  <2> QED  BY <2>1, <2>2, <2>3
<1>3. InTimeInv /\ [Next]_vars
        => [Calling!InTime \/ late']_<<call, Reached, Result, late>>
  <2> SUFFICES ASSUME InTimeInv, [Next]_vars, ~late'
               PROVE  Calling!InTime \/ UNCHANGED <<call, Reached, Result, late>>
    OBVIOUS
  <2>1. ~late /\ late' = late
    BY LateStays DEF InTimeInv
  <2> QED  BY <1>2, <2>1 DEF InTimeInv, Calling!InTime
<1>4. InTimeInv /\ [Next]_vars => [Calling!InTime \/ late']_Calling!callVars
  BY <1>3 DEF Calling!callVars, Reached, Result
<1> QED
  BY InTimeHolds, <1>1, <1>4, PTL DEF Spec, ImplementsRemoteCall, Calling!CallSpec
==============================================================================
