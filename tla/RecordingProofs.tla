--------------------------- MODULE RecordingProofs ---------------------------
(***************************************************************************)
(* Proofs about ADIToFRecorder: recording (Recorder) in part one, playback *)
(* (Playback) in part two, for every set of modes and recordings, however  *)
(* often the user records and plays back, and whatever frames are asked    *)
(* for.                                                                    *)
(*                                                                         *)
(* Recording.  The GUI's handlers are lists of calls, and what they have   *)
(* in common is an order: a thread is started behind its join, or when a   *)
(* flag says that there is none (CaptureJoined, RecordJoined).  The record *)
(* thread counts what it writes and asks the count first (Counted).        *)
(*                                                                         *)
(* Playback.  GUI and thread write the position without a lock, but only   *)
(* ever one of two values, the position read last and the one behind it    *)
(* (Steady), because the progress bar writes back what it has read before  *)
(* at most one advance (BarTrue), and a request is never made twice.       *)
(***************************************************************************)
EXTENDS Recorder, Playback, SequenceTheorems, TLAPS

(* The calls the GUI makes, and the sizes of frames. *)
Calls == {"halt", "join", "calm", "haltRecord", "joinRecord", "start",
          "request", "frame", "record", "check", "play", "panic"}
Sizes == Modes \cup {NoSize}

Due(call) == \E i \in 1 .. Len(todo) : todo[i] = call

(* In which order they come: a capture is started first or behind its join, *)
(* a round ends with play or panic, and only the calls of PlayCCD lead to   *)
(* the start of a recording.                                                *)
Leading == {"halt", "join", "start", "request", "frame"}
Ordered(calls) ==
  \A i \in 1 .. Len(calls) :
    /\ calls[i] = "start" => i = 1 \/ calls[i - 1] = "join"
    /\ calls[i] \in {"play", "panic"} => i = Len(calls)
    /\ calls[i] = "check" => i + 1 = Len(calls) /\ calls[i + 1] = "play"
    /\ calls[i] = "record" => \A j \in 1 .. i - 1 : calls[j] \in Leading

RecTyped ==
  /\ todo \in Seq(Calls)
  /\ mode \in Modes /\ active \in Modes
  /\ taken \in Sizes /\ writing \in Sizes
  /\ recordQueue \in Seq(Sizes) /\ file \in Seq(Sizes)
  /\ frameCtr \in Nat /\ framesToRecord \in Nat

(* The capture thread is joined before another is started. *)
CaptureJoined ==
  /\ Due("start") => isPlaying
  /\ separate \/ ~isPlaying => wpc = "none" \/ Due("join")
  /\ todo # <<>> /\ Head(todo) = "start" => wpc = "none"

(* So is the record thread. *)
RecordJoined ==
  /\ Due("record") => isRecording /\ rpc = "none"
  /\ ~isRecording => rpc = "none" \/ Due("joinRecord")

(* Every frame in the file has been counted, and the count checked. *)
Counted ==
  /\ rpc \in {"top", "write"} => Len(file) <= frameCtr
  /\ rpc = "write" => fileOpen /\ frameCtr < framesToRecord
  /\ rpc # "none" => Len(file) <= framesToRecord

RecInv == RecTyped /\ Ordered(todo) /\ CaptureJoined /\ RecordJoined /\ Counted

------------------------------------------------------------------------------
(* What the clicks and calls add to todo, call by call.                     *)
LEMMA StopCalls ==
  /\ StopPlayCCD \o StopRecording \o Rest
       = <<"halt", "join", "calm", "haltRecord", "joinRecord", "check",
           "play">>
  /\ StopPlayCCD \o <<>> \o Rest
       = <<"halt", "join", "calm", "check", "play">>
  /\ StopRecording \o StopPlayCCD \o Rest
       = <<"haltRecord", "joinRecord", "halt", "join", "calm", "check",
           "play">>
  /\ StopPlayCCD \o <<>>
       = <<"halt", "join", "calm">>
  /\ StopRecording \o <<"play">>
       = <<"haltRecord", "joinRecord", "play">>
<1>1. StopPlayCCD \o StopRecording \o Rest
       = <<"halt", "join", "calm", "haltRecord", "joinRecord", "check",
           "play">>
  <2> DEFINE s == StopPlayCCD \o StopRecording \o Rest
  <2>1. s \in Seq(Calls) /\ Len(s) = 7
    BY DEF Calls, StopPlayCCD, StopCapture, StopRecording, Rest
  <2>2. /\ s[1] = "halt" /\ s[2] = "join" /\ s[3] = "calm"
        /\ s[4] = "haltRecord" /\ s[5] = "joinRecord" /\ s[6] = "check"
        /\ s[7] = "play"
    BY DEF StopPlayCCD, StopCapture, StopRecording, Rest
  <2>3. s = <<"halt", "join", "calm", "haltRecord", "joinRecord", "check",
          "play">>
    <3> HIDE DEF s
    <3> QED
      BY <2>1, <2>2
  <2> QED
    BY <2>3
<1>2. StopPlayCCD \o <<>> \o Rest
       = <<"halt", "join", "calm", "check", "play">>
  <2> DEFINE s == StopPlayCCD \o <<>> \o Rest
  <2>1. s \in Seq(Calls) /\ Len(s) = 5
    BY DEF Calls, StopPlayCCD, StopCapture, StopRecording, Rest
  <2>2. /\ s[1] = "halt" /\ s[2] = "join" /\ s[3] = "calm" /\ s[4] = "check"
        /\ s[5] = "play"
    BY DEF StopPlayCCD, StopCapture, StopRecording, Rest
  <2>3. s = <<"halt", "join", "calm", "check", "play">>
    <3> HIDE DEF s
    <3> QED
      BY <2>1, <2>2
  <2> QED
    BY <2>3
<1>3. StopRecording \o StopPlayCCD \o Rest
       = <<"haltRecord", "joinRecord", "halt", "join", "calm", "check",
           "play">>
  <2> DEFINE s == StopRecording \o StopPlayCCD \o Rest
  <2>1. s \in Seq(Calls) /\ Len(s) = 7
    BY DEF Calls, StopPlayCCD, StopCapture, StopRecording, Rest
  <2>2. /\ s[1] = "haltRecord" /\ s[2] = "joinRecord" /\ s[3] = "halt"
        /\ s[4] = "join" /\ s[5] = "calm" /\ s[6] = "check" /\ s[7] = "play"
    BY DEF StopPlayCCD, StopCapture, StopRecording, Rest
  <2>3. s = <<"haltRecord", "joinRecord", "halt", "join", "calm", "check",
          "play">>
    <3> HIDE DEF s
    <3> QED
      BY <2>1, <2>2
  <2> QED
    BY <2>3
<1>4. StopPlayCCD \o <<>>
       = <<"halt", "join", "calm">>
  <2> DEFINE s == StopPlayCCD \o <<>>
  <2>1. s \in Seq(Calls) /\ Len(s) = 3
    BY DEF Calls, StopPlayCCD, StopCapture, StopRecording, Rest
  <2>2. /\ s[1] = "halt" /\ s[2] = "join" /\ s[3] = "calm"
    BY DEF StopPlayCCD, StopCapture, StopRecording, Rest
  <2>3. s = <<"halt", "join", "calm">>
    <3> HIDE DEF s
    <3> QED
      BY <2>1, <2>2
  <2> QED
    BY <2>3
<1>5. StopRecording \o <<"play">>
       = <<"haltRecord", "joinRecord", "play">>
  <2> DEFINE s == StopRecording \o <<"play">>
  <2>1. s \in Seq(Calls) /\ Len(s) = 3
    BY DEF Calls, StopPlayCCD, StopCapture, StopRecording, Rest
  <2>2. /\ s[1] = "haltRecord" /\ s[2] = "joinRecord" /\ s[3] = "play"
    BY DEF StopPlayCCD, StopCapture, StopRecording, Rest
  <2>3. s = <<"haltRecord", "joinRecord", "play">>
    <3> HIDE DEF s
    <3> QED
      BY <2>1, <2>2
  <2> QED
    BY <2>3
<1> QED
  BY <1>1, <1>2, <1>3, <1>4, <1>5

LEMMA PlayCalls ==
  /\ (StopCapture \o <<"start", "request">> \o ShowFrame) \o <<"panic">>
       \o <<>>
       = <<"halt", "join", "start", "request", "frame", "request", "panic">>
  /\ (<<>> \o <<"start", "request">> \o ShowFrame) \o <<"panic">> \o <<>>
       = <<"start", "request", "frame", "request", "panic">>
  /\ (<<>> \o <<>> \o ShowFrame) \o <<"panic">> \o <<>>
       = <<"frame", "request", "panic">>
<1>1. (StopCapture \o <<"start", "request">> \o ShowFrame) \o <<"panic">>
        \o <<>>
       = <<"halt", "join", "start", "request", "frame", "request", "panic">>
  <2> DEFINE s == (StopCapture \o <<"start", "request">> \o ShowFrame)
                    \o <<"panic">> \o <<>>
  <2>1. s \in Seq(Calls) /\ Len(s) = 7
    BY DEF Calls, StopCapture, ShowFrame
  <2>2. /\ s[1] = "halt" /\ s[2] = "join" /\ s[3] = "start"
        /\ s[4] = "request" /\ s[5] = "frame" /\ s[6] = "request"
        /\ s[7] = "panic"
    BY DEF StopCapture, ShowFrame
  <2>3. s = <<"halt", "join", "start", "request", "frame", "request", "panic">>
    <3> HIDE DEF s
    <3> QED
      BY <2>1, <2>2
  <2> QED
    BY <2>3
<1>2. (<<>> \o <<"start", "request">> \o ShowFrame) \o <<"panic">> \o <<>>
       = <<"start", "request", "frame", "request", "panic">>
  <2> DEFINE s == (<<>> \o <<"start", "request">> \o ShowFrame) \o <<"panic">>
                    \o <<>>
  <2>1. s \in Seq(Calls) /\ Len(s) = 5
    BY DEF Calls, StopCapture, ShowFrame
  <2>2. /\ s[1] = "start" /\ s[2] = "request" /\ s[3] = "frame"
        /\ s[4] = "request" /\ s[5] = "panic"
    BY DEF StopCapture, ShowFrame
  <2>3. s = <<"start", "request", "frame", "request", "panic">>
    <3> HIDE DEF s
    <3> QED
      BY <2>1, <2>2
  <2> QED
    BY <2>3
<1>3. (<<>> \o <<>> \o ShowFrame) \o <<"panic">> \o <<>>
       = <<"frame", "request", "panic">>
  <2> DEFINE s == (<<>> \o <<>> \o ShowFrame) \o <<"panic">> \o <<>>
  <2>1. s \in Seq(Calls) /\ Len(s) = 3
    BY DEF Calls, StopCapture, ShowFrame
  <2>2. /\ s[1] = "frame" /\ s[2] = "request" /\ s[3] = "panic"
    BY DEF StopCapture, ShowFrame
  <2>3. s = <<"frame", "request", "panic">>
    <3> HIDE DEF s
    <3> QED
      BY <2>1, <2>2
  <2> QED
    BY <2>3
<1> QED
  BY <1>1, <1>2, <1>3

LEMMA RecordCalls ==
  /\ (StopCapture \o <<"start", "request">> \o ShowFrame) \o <<"record">>
       \o Rest
       = <<"halt", "join", "start", "request", "frame", "request", "record",
           "check", "play">>
  /\ (<<>> \o <<"start", "request">> \o ShowFrame) \o <<"record">> \o Rest
       = <<"start", "request", "frame", "request", "record", "check", "play">>
  /\ <<>> \o <<"record">> \o Rest
       = <<"record", "check", "play">>
<1>1. (StopCapture \o <<"start", "request">> \o ShowFrame) \o <<"record">>
        \o Rest
       = <<"halt", "join", "start", "request", "frame", "request", "record",
           "check", "play">>
  <2> DEFINE s == (StopCapture \o <<"start", "request">> \o ShowFrame)
                    \o <<"record">> \o Rest
  <2>1. s \in Seq(Calls) /\ Len(s) = 9
    BY DEF Calls, StopCapture, ShowFrame, Rest
  <2>2. /\ s[1] = "halt" /\ s[2] = "join" /\ s[3] = "start"
        /\ s[4] = "request" /\ s[5] = "frame" /\ s[6] = "request"
        /\ s[7] = "record" /\ s[8] = "check" /\ s[9] = "play"
    BY DEF StopCapture, ShowFrame, Rest
  <2>3. s = <<"halt", "join", "start", "request", "frame", "request", "record",
          "check", "play">>
    <3> HIDE DEF s
    <3> QED
      BY <2>1, <2>2
  <2> QED
    BY <2>3
<1>2. (<<>> \o <<"start", "request">> \o ShowFrame) \o <<"record">> \o Rest
       = <<"start", "request", "frame", "request", "record", "check", "play">>
  <2> DEFINE s == (<<>> \o <<"start", "request">> \o ShowFrame)
                    \o <<"record">> \o Rest
  <2>1. s \in Seq(Calls) /\ Len(s) = 7
    BY DEF Calls, StopCapture, ShowFrame, Rest
  <2>2. /\ s[1] = "start" /\ s[2] = "request" /\ s[3] = "frame"
        /\ s[4] = "request" /\ s[5] = "record" /\ s[6] = "check"
        /\ s[7] = "play"
    BY DEF StopCapture, ShowFrame, Rest
  <2>3. s = <<"start", "request", "frame", "request", "record", "check",
          "play">>
    <3> HIDE DEF s
    <3> QED
      BY <2>1, <2>2
  <2> QED
    BY <2>3
<1>3. <<>> \o <<"record">> \o Rest
       = <<"record", "check", "play">>
  <2> DEFINE s == <<>> \o <<"record">> \o Rest
  <2>1. s \in Seq(Calls) /\ Len(s) = 3
    BY DEF Calls, StopCapture, ShowFrame, Rest
  <2>2. /\ s[1] = "record" /\ s[2] = "check" /\ s[3] = "play"
    BY DEF StopCapture, ShowFrame, Rest
  <2>3. s = <<"record", "check", "play">>
    <3> HIDE DEF s
    <3> QED
      BY <2>1, <2>2
  <2> QED
    BY <2>3
<1> QED
  BY <1>1, <1>2, <1>3

LEMMA Single ==
  ASSUME NEW s \in Seq(Calls), NEW c, Len(s) = 1, s[1] = c
  PROVE  s = <<c>>
OBVIOUS

(* What is left after check, and after the last call of a round.            *)
LEMMA LastCalls ==
  ASSUME RecTyped, Ordered(todo), todo # <<>>
  PROVE  /\ Head(todo) = "check" =>
              /\ Len(todo) = 2 /\ todo[1] = "check" /\ todo[2] = "play"
              /\ Tail(todo) = <<"play">>
         /\ Head(todo) \in {"play", "panic"} =>
              /\ Len(todo) = 1 /\ todo[1] \in {"play", "panic"}
              /\ Tail(todo) = <<>>
<1> DEFINE rest == Tail(todo)
<1>1. /\ Len(todo) \in Nat \ {0} /\ Head(todo) = todo[1]
      /\ rest \in Seq(Calls) /\ Len(rest) = Len(todo) - 1
      /\ \A i \in 1 .. Len(todo) - 1 : rest[i] = todo[i + 1]
  BY DEF RecTyped
<1>2. rest = <<>> <=> Len(rest) = 0
  BY <1>1, EmptySeq
<1> HIDE DEF rest
<1>3. 1 \in 1 .. Len(todo)
  BY <1>1
<1>4. ASSUME Head(todo) = "check"
      PROVE  /\ Len(todo) = 2 /\ todo[1] = "check" /\ todo[2] = "play"
             /\ rest = <<"play">>
  <2>1. 1 + 1 = Len(todo) /\ todo[1 + 1] = "play"
    BY <1>1, <1>3, <1>4 DEF Ordered
  <2>2. 1 \in 1 .. Len(todo) - 1
    BY <2>1
  <2>3. rest[1] = todo[1 + 1]
    BY <1>1, <2>2
  <2>4. rest \in Seq(Calls) /\ Len(rest) = 1 /\ rest[1] = "play"
    <3>1. Len(todo) = 2
      BY <2>1
    <3>2. Len(rest) = 1
      BY ONLY <1>1, <3>1
    <3>3. rest[1] = "play"
      BY ONLY <2>1, <2>3
    <3> QED
      BY <1>1, <3>2, <3>3
  <2>5. rest = <<"play">>
    BY ONLY <2>4, Single
  <2> QED
    BY <1>1, <1>4, <2>1, <2>5
<1>5. ASSUME Head(todo) \in {"play", "panic"}
      PROVE  Len(todo) = 1 /\ rest = <<>>
  <2>1. Len(todo) = 1
    BY <1>1, <1>3, <1>5 DEF Ordered
  <2> QED
    BY <1>1, <1>2, <2>1
<1> QED
  BY <1>1, <1>4, <1>5 DEF rest

(* The next call is made and nothing comes before the others.               *)
LEMMA Popped ==
  ASSUME RecTyped, Ordered(todo), todo # <<>>, todo' = <<>> \o Tail(todo)
  PROVE  /\ todo' \in Seq(Calls)
         /\ Ordered(todo)'
         /\ \A c \in Calls : Due(c)' => Due(c)
         /\ \A c \in Calls : Due(c) => c = Head(todo) \/ Due(c)'
         /\ todo' # <<>> /\ Head(todo') = "start" => Head(todo) = "join"
         /\ Head(todo) = "record" => ~Due("record")'
<1> DEFINE n == Len(todo)
<1>1. /\ n = Len(todo) /\ n \in Nat \ {0} /\ Head(todo) = todo[1]
      /\ todo' = Tail(todo) /\ todo' \in Seq(Calls) /\ Len(todo') = n - 1
      /\ \A i \in 1 .. n - 1 : todo'[i] = todo[i + 1]
  BY ConcatEmptySeq DEF RecTyped
<1> HIDE DEF n
<1>0. \A i \in 1 .. n :
        /\ todo[i] = "start" => i = 1 \/ todo[i - 1] = "join"
        /\ todo[i] \in {"play", "panic"} => i = n
        /\ todo[i] = "check" => i + 1 = n /\ todo[i + 1] = "play"
        /\ todo[i] = "record" => \A j \in 1 .. i - 1 : todo[j] \in Leading
  BY <1>1 DEF Ordered
<1>2. todo' = <<>> <=> n = 1
  <2>1. todo' = <<>> <=> Len(todo') = 0
    BY <1>1, EmptySeq
  <2> QED
    BY ONLY <1>1, <2>1
<1>3. Ordered(todo)'
  <2> SUFFICES ASSUME NEW i \in 1 .. n - 1
               PROVE  /\ todo'[i] = "start" => i = 1 \/ todo'[i - 1] = "join"
                      /\ todo'[i] \in {"play", "panic"} => i = n - 1
                      /\ todo'[i] = "check" =>
                           i + 1 = n - 1 /\ todo'[i + 1] = "play"
                      /\ todo'[i] = "record" =>
                           \A j \in 1 .. i - 1 : todo'[j] \in Leading
    BY <1>1 DEF Ordered
  <2>1. i + 1 \in 1 .. n /\ todo'[i] = todo[i + 1] /\ (i + 1) - 1 = i
    BY <1>1
  <2>2. todo'[i] = "start" => i = 1 \/ todo'[i - 1] = "join"
    BY <1>1, <2>1 DEF Ordered
  <2>3. todo'[i] \in {"play", "panic"} => i = n - 1
    BY <1>1, <2>1 DEF Ordered
  <2>4. todo'[i] = "check" => i + 1 = n - 1 /\ todo'[i + 1] = "play"
    <3> SUFFICES ASSUME todo[i + 1] = "check"
                 PROVE  i + 1 = n - 1 /\ todo'[i + 1] = "play"
      BY <2>1
    <3>1. (i + 1) + 1 = n /\ todo[(i + 1) + 1] = "play"
      BY <1>0, <2>1
    <3> QED
      BY <1>1, <3>1
  <2>5. ASSUME todo'[i] = "record", NEW j \in 1 .. i - 1
        PROVE  todo'[j] \in Leading
    BY <1>1, <2>1, <2>5 DEF Ordered
  <2> QED
    BY <2>2, <2>3, <2>4, <2>5
<1>4. \A c \in Calls : Due(c)' => Due(c)
  BY <1>1 DEF Due
<1>5. ASSUME NEW c \in Calls, Due(c)
      PROVE  c = Head(todo) \/ Due(c)'
  <2>1. PICK i \in 1 .. n : todo[i] = c
    BY <1>1, <1>5 DEF Due
  <2>2. CASE i = 1
    BY <1>1, <2>1, <2>2
  <2>3. CASE i # 1
    <3>1. /\ i - 1 \in 1 .. n - 1 /\ (i - 1) + 1 = i
          /\ todo'[i - 1] = todo[(i - 1) + 1]
      BY <1>1, <2>3
    <3> QED
      BY <1>1, <2>1, <3>1 DEF Due
  <2> QED
    BY <2>2, <2>3
<1>6. todo' # <<>> /\ Head(todo') = "start" => Head(todo) = "join"
  <2> SUFFICES ASSUME todo' # <<>>, Head(todo') = "start"
               PROVE  Head(todo) = "join"
    OBVIOUS
  <2>1. 2 \in 1 .. n /\ todo[2] = "start"
    BY <1>1, <1>2
  <2>2. todo[2 - 1] = "join"
    BY <1>0, <2>1
  <2> QED
    BY <1>1, <2>2
<1>7. ASSUME Head(todo) = "record", Due("record")'
      PROVE  FALSE
  <2>1. PICK i \in 1 .. n - 1 : todo'[i] = "record"
    BY <1>1, <1>7 DEF Due
  <2>2. i + 1 \in 1 .. n /\ todo[i + 1] = "record" /\ 1 \in 1 .. (i + 1) - 1
    BY <1>1, <2>1
  <2>3. todo[1] \in Leading
    BY <1>0, <2>2
  <2> QED
    BY <1>1, <1>7, <2>3 DEF Leading
<1> QED
  BY <1>1, <1>3, <1>4, <1>5, <1>6, <1>7

(* They are in the right order. *)
Proper(calls) == calls \in Seq(Calls) /\ Ordered(calls)

(* The lists of calls there are. *)
LEMMA ProperCalls ==
  /\ Proper(<<"check", "play">>)
  /\ Proper(<<"halt", "join", "calm", "haltRecord", "joinRecord", "check",
       "play">>)
  /\ Proper(<<"halt", "join", "calm", "check", "play">>)
  /\ Proper(<<"haltRecord", "joinRecord", "halt", "join", "calm", "check",
       "play">>)
  /\ Proper(<<"halt", "join", "calm">>)
  /\ Proper(<<"haltRecord", "joinRecord", "play">>)
  /\ Proper(<<"play">>)
  /\ Proper(<<"halt", "join", "start", "request", "frame", "request",
       "panic">>)
  /\ Proper(<<"start", "request", "frame", "request", "panic">>)
  /\ Proper(<<"frame", "request", "panic">>)
  /\ Proper(<<>>)
  /\ Proper(<<"halt", "join", "start", "request", "frame", "request", "record",
       "check", "play">>)
  /\ Proper(<<"start", "request", "frame", "request", "record", "check",
       "play">>)
  /\ Proper(<<"record", "check", "play">>)
BY DEF Proper, Ordered, Leading, Calls

------------------------------------------------------------------------------
(* Nothing runs and nothing is due at the start. *)
LEMMA RecInit == Init => RecInv
<1> SUFFICES ASSUME Init
             PROVE  RecInv
  OBVIOUS
<1>1. todo = <<>> /\ Len(todo) = 0 /\ file = <<>> /\ recordQueue = <<>>
  BY DEF Init
<1>2. RecTyped
  BY <1>1, EmptySeq DEF Init, RecTyped, Sizes
<1>3. Ordered(todo)
  BY <1>1 DEF Ordered
<1>4. CaptureJoined /\ RecordJoined /\ Counted
  BY <1>1 DEF Init, CaptureJoined, RecordJoined, Counted, Due
<1> QED
  BY <1>2, <1>3, <1>4 DEF RecInv

(* Neither thread makes the GUI's calls or starts a thread. *)
LEMMA CaptureStep ==
  ASSUME RecInv, Capture
  PROVE  RecInv'
<1> USE DEF RecInv, buttons, camera, recordVars
<1>1. /\ UNCHANGED <<todo, isPlaying, isRecording, separate, rpc, mode, active,
                    writing, framesToRecord, frameCtr, fileOpen, file>>
      /\ wpc # "none"
  BY DEF Capture, CaptureLoops, CaptureWakes, CaptureFails, CaptureTakes,
         CaptureDelivers
<1>2. taken' \in Sizes /\ recordQueue' \in Seq(Sizes)
  <2>1. CASE CaptureLoops \/ CaptureWakes \/ CaptureFails
    BY <2>1 DEF CaptureLoops, CaptureWakes, CaptureFails, RecTyped
  <2>2. CASE CaptureTakes
    BY <2>2 DEF CaptureTakes, RecTyped, Sizes
  <2>3. CASE CaptureDelivers
    BY <2>3 DEF CaptureDelivers, RecTyped
  <2> QED
    BY <2>1, <2>2, <2>3 DEF Capture
<1>3. RecTyped'
  BY <1>1, <1>2 DEF RecTyped
<1>4. Ordered(todo)' /\ CaptureJoined' /\ RecordJoined' /\ Counted'
  BY <1>1 DEF Ordered, CaptureJoined, RecordJoined, Counted, Due
<1> QED
  BY <1>3, <1>4

(* What it writes has been counted, and it asks the count before. *)
LEMMA RecordStep ==
  ASSUME RecInv, Record
  PROVE  RecInv'
<1> USE DEF RecInv, buttons, camera, captureVars
<1>1. /\ UNCHANGED <<todo, isPlaying, isRecording, separate, wpc, mode, active,
                    taken, framesToRecord, fileOpen>>
      /\ rpc # "none"
  BY DEF Record, RecordEnds, RecordFinishes, RecordDequeues, RecordWrites
<1>2. RecTyped'
  <2>1. CASE RecordEnds \/ RecordFinishes
    BY <1>1, <2>1 DEF RecordEnds, RecordFinishes, RecTyped
  <2>2. CASE RecordDequeues
    <3>1. writing' \in Sizes /\ recordQueue' \in Seq(Sizes)
      BY <2>2 DEF RecordDequeues, RecTyped
    <3> QED
      BY <1>1, <2>2, <3>1 DEF RecordDequeues, RecTyped
  <2>3. CASE RecordWrites
    <3>1. file' \in Seq(Sizes) /\ frameCtr' \in Nat
      BY <2>3 DEF RecordWrites, RecTyped
    <3> QED
      BY <1>1, <2>3, <3>1 DEF RecordWrites, RecTyped
  <2> QED
    BY <2>1, <2>2, <2>3 DEF Record
<1>3. Ordered(todo)' /\ CaptureJoined' /\ RecordJoined'
  BY <1>1 DEF Ordered, CaptureJoined, RecordJoined, Due
<1>4. Counted'
  <2>1. CASE RecordEnds \/ RecordFinishes
    BY <2>1 DEF RecordEnds, RecordFinishes, Counted
  <2>2. CASE RecordDequeues
    BY <2>2 DEF RecordDequeues, Counted
  <2>3. CASE RecordWrites
    <3>1. Len(file') = Len(file) + 1 /\ Len(file) \in Nat
      BY <2>3 DEF RecordWrites, RecTyped
    <3> QED
      BY <2>3, <3>1 DEF RecordWrites, Counted, RecTyped
  <2> QED
    BY <2>1, <2>2, <2>3 DEF Record
<1> QED
  BY <1>2, <1>3, <1>4

(* Calls of the GUI that only come off the list. *)
LEMMA PopStep ==
  ASSUME RecInv, todo # <<>>, todo' = <<>> \o Tail(todo),
         HaltCapture \/ JoinCapture \/ Calm \/ StartCapture \/ RequestFrame
           \/ GetFrame \/ StartRecordingRaw \/ HaltRecording \/ JoinRecording
  PROVE  RecInv'
<1> USE DEF RecInv, buttons, camera, captureVars, recordVars
<1>1. /\ todo' \in Seq(Calls) /\ Ordered(todo)'
      /\ \A c \in Calls : Due(c)' => Due(c)
      /\ \A c \in Calls : Due(c) => c = Head(todo) \/ Due(c)'
      /\ todo' # <<>> /\ Head(todo') = "start" => Head(todo) = "join"
      /\ Head(todo) = "record" => ~Due("record")'
  BY Popped
<1>2. /\ {"start", "join", "record", "joinRecord"} \subseteq Calls
      /\ Due(Head(todo))
  <2>1. 1 \in 1 .. Len(todo) /\ Head(todo) = todo[1]
    BY DEF RecTyped
  <2> QED
    BY <2>1 DEF Calls, Due
<1>3. CASE HaltCapture \/ Calm \/ RequestFrame \/ GetFrame \/ HaltRecording
  <2>1. /\ UNCHANGED <<isPlaying, isRecording, separate, wpc, rpc, mode,
             active,
                      taken, writing, recordQueue, file, frameCtr,
                      framesToRecord, fileOpen>>
        /\ Head(todo) \in {"halt", "calm", "request", "frame", "haltRecord"}
    BY <1>3 DEF HaltCapture, Calm, RequestFrame, GetFrame, HaltRecording, Call
  <2>2. RecTyped' /\ Counted'
    BY <1>1, <2>1 DEF RecTyped, Counted
  <2>3. CaptureJoined'
    BY <1>1, <1>2, <2>1 DEF CaptureJoined
  <2>4. RecordJoined'
    BY <1>1, <1>2, <2>1 DEF RecordJoined
  <2> QED
    BY <1>1, <2>2, <2>3, <2>4
<1>4. CASE JoinCapture
  <2>1. /\ UNCHANGED <<isPlaying, isRecording, separate, rpc, mode, active,
                      taken, writing, recordQueue, file, frameCtr,
                      framesToRecord, fileOpen>>
        /\ Head(todo) = "join" /\ wpc' = "none"
    BY <1>4 DEF JoinCapture, Call
  <2>2. RecTyped' /\ Counted'
    BY <1>1, <2>1 DEF RecTyped, Counted
  <2>3. CaptureJoined' /\ RecordJoined'
    BY <1>1, <1>2, <2>1 DEF CaptureJoined, RecordJoined
  <2> QED
    BY <1>1, <2>2, <2>3
<1>5. CASE StartCapture
  <2>1. /\ UNCHANGED <<isPlaying, isRecording, rpc, mode, taken, writing,
                      recordQueue, file, frameCtr, framesToRecord, fileOpen>>
        /\ Head(todo) = "start" /\ active' = mode /\ separate' = FALSE
    BY <1>5 DEF StartCapture, Call
  <2>2. RecTyped' /\ Counted'
    BY <1>1, <2>1 DEF RecTyped, Counted
  <2>3. CaptureJoined' /\ RecordJoined'
    BY <1>1, <1>2, <2>1 DEF CaptureJoined, RecordJoined
  <2> QED
    BY <1>1, <2>2, <2>3
<1>6. CASE StartRecordingRaw
  <2>1. /\ UNCHANGED <<isPlaying, isRecording, separate, wpc, mode, active,
                      taken, writing, recordQueue, frameCtr, framesToRecord>>
        /\ Head(todo) = "record" /\ rpc' = "top"
        /\ file' = <<>>
    BY <1>6 DEF StartRecordingRaw, Call
  <2>2. file' \in Seq(Sizes) /\ Len(file') = 0
    BY <2>1, EmptySeq
  <2>3. RecTyped' /\ Counted'
    BY <1>1, <2>1, <2>2 DEF RecTyped, Counted
  <2>4. CaptureJoined' /\ RecordJoined'
    BY <1>1, <1>2, <2>1 DEF CaptureJoined, RecordJoined
  <2> QED
    BY <1>1, <2>3, <2>4
<1>7. CASE JoinRecording
  <2>1. /\ UNCHANGED <<isPlaying, isRecording, separate, wpc, mode, active,
                      taken, writing, recordQueue, file, frameCtr,
                          framesToRecord>>
        /\ Head(todo) = "joinRecord" /\ rpc' = "none"
    BY <1>7 DEF JoinRecording, Call
  <2>2. RecTyped' /\ Counted'
    BY <1>1, <2>1 DEF RecTyped, Counted
  <2>3. CaptureJoined' /\ RecordJoined'
    BY <1>1, <1>2, <2>1 DEF CaptureJoined, RecordJoined
  <2> QED
    BY <1>1, <2>2, <2>3
<1> QED
  BY <1>3, <1>4, <1>5, <1>6, <1>7

(* A round without a stop or a start. *)
LEMMA RestStep ==
  ASSUME RecInv, NoClick \/ Play \/ SelectMode \/ ToggleTree
  PROVE  RecInv'
<1> USE DEF RecInv, buttons, camera, captureVars, recordVars
<1>1. /\ UNCHANGED <<isRecording, separate, wpc, rpc, active, taken, writing,
                    recordQueue, file, frameCtr, framesToRecord, fileOpen>>
      /\ isPlaying => isPlaying'
      /\ mode' \in Modes
      /\ todo = <<>> /\ todo' \in {<<"check", "play">>, <<"play">>}
  BY DEF NoClick, Play, SelectMode, ToggleTree, Round, Rest, RecTyped
<1>2. todo' \in Seq(Calls) /\ Ordered(todo)'
  BY <1>1, ProperCalls DEF Proper
<1>3. ~Due("start")' /\ ~Due("record")' /\ Head(todo') # "start"
  BY <1>1 DEF Due
<1>4. ~Due("join") /\ ~Due("joinRecord")
  BY <1>1 DEF Due
<1>5. RecTyped' /\ Counted'
  BY <1>1, <1>2 DEF RecTyped, Counted
<1>6. CaptureJoined' /\ RecordJoined'
  BY <1>1, <1>3, <1>4 DEF CaptureJoined, RecordJoined
<1> QED
  BY <1>2, <1>5, <1>6

(* A stop joins the capture thread, and the record thread if need be. *)
LEMMA StopStep ==
  ASSUME RecInv, StopButton \/ StopRecordingButton
  PROVE  RecInv'
<1> USE DEF RecInv, camera, captureVars, recordVars
<1>1. /\ UNCHANGED <<mode, wpc, rpc, active, taken, writing, recordQueue, file,
                    frameCtr, framesToRecord, fileOpen>>
      /\ todo = <<>>
  BY DEF StopButton, StopRecordingButton
<1>2. \/ todo' = <<"halt", "join", "calm", "haltRecord", "joinRecord", "check",
           "play">>
      \/ ~isRecording /\ todo' = <<"halt", "join", "calm", "check", "play">>
      \/ todo' = <<"haltRecord", "joinRecord", "halt", "join", "calm", "check",
           "play">>
  <2>1. CASE StopButton
    BY <2>1, StopCalls DEF StopButton
  <2>2. CASE StopRecordingButton
    BY <2>2, StopCalls DEF StopRecordingButton
  <2> QED
    BY <2>1, <2>2
<1>3. todo' \in Seq(Calls) /\ Ordered(todo)'
  BY <1>2, ProperCalls DEF Proper
<1>4. ~Due("start")' /\ ~Due("record")' /\ Head(todo') # "start"
  BY <1>2 DEF Due
<1>5. Due("join")'
  BY <1>2 DEF Due
<1>6. ~isRecording \/ Due("joinRecord")'
  BY <1>2 DEF Due
<1>7. ~Due("joinRecord")
  BY <1>1 DEF Due
<1>8. RecTyped' /\ Counted'
  BY <1>1, <1>3 DEF RecTyped, Counted
<1>9. CaptureJoined' /\ RecordJoined'
  BY <1>1, <1>4, <1>5, <1>6, <1>7 DEF CaptureJoined, RecordJoined
<1> QED
  BY <1>3, <1>8, <1>9

(* A recording begins when no record thread is left, and presses Play when  *)
(* no capture thread is.                                                    *)
LEMMA StartRecordingStep ==
  ASSUME RecInv, StartRecording
  PROVE  RecInv'
<1> USE DEF RecInv, camera, captureVars, recordVars
<1>1. /\ UNCHANGED <<mode, separate, wpc, rpc, active, taken, writing,
                    recordQueue, file, frameCtr, fileOpen>>
      /\ todo = <<>> /\ ~isRecording
      /\ isRecording' = TRUE /\ isPlaying' = TRUE
      /\ framesToRecord' \in Nat
  BY DEF StartRecording
<1>2. ~Due("join") /\ ~Due("joinRecord")
  BY <1>1 DEF Due
<1>3. rpc = "none" /\ (~isPlaying => wpc = "none")
  BY <1>1, <1>2 DEF RecordJoined, CaptureJoined
<1>4. \/ todo' = <<"halt", "join", "start", "request", "frame", "request",
                   "record", "check", "play">>
      \/ ~isPlaying /\ todo' = <<"start", "request", "frame", "request",
                                 "record", "check", "play">>
      \/ todo' = <<"record", "check", "play">>
  BY RecordCalls DEF StartRecording, PlayCCD
<1>5. todo' \in Seq(Calls) /\ Ordered(todo)'
  BY <1>4, ProperCalls DEF Proper
<1>6. Head(todo') = "start" => ~isPlaying
  BY <1>4
<1>7. RecTyped' /\ Counted'
  BY <1>1, <1>3, <1>5 DEF RecTyped, Counted
<1>8. CaptureJoined' /\ RecordJoined'
  BY <1>1, <1>2, <1>3, <1>6 DEF CaptureJoined, RecordJoined
<1> QED
  BY <1>5, <1>7, <1>8

(* A finished recording is joined before isRecording allows another.        *)
LEMMA CheckStep ==
  ASSUME RecInv, CheckFinished
  PROVE  RecInv'
<1> USE DEF RecInv, camera, captureVars, recordVars
<1>1. /\ UNCHANGED <<mode, isPlaying, separate, wpc, rpc, active, taken,
           writing,
                    recordQueue, file, frameCtr, framesToRecord, fileOpen>>
      /\ todo # <<>> /\ Head(todo) = "check"
      /\ isRecording' = (isRecording /\ ~finish)
  BY DEF CheckFinished, Call
<1>2. /\ Len(todo) = 2 /\ todo[1] = "check" /\ todo[2] = "play"
      /\ Tail(todo) = <<"play">>
  BY <1>1, LastCalls
<1>3. \/ finish /\ isRecording /\ todo' = <<"haltRecord", "joinRecord",
           "play">>
      \/ ~(finish /\ isRecording) /\ todo' = <<"play">>
  <2>1. CASE finish /\ isRecording
    BY <1>2, <2>1, StopCalls DEF CheckFinished, Call
  <2>2. CASE ~(finish /\ isRecording)
    <3>1. todo' = <<>> \o <<"play">>
      BY <1>2, <2>2 DEF CheckFinished, Call
    <3>2. <<"play">> \in Seq(Calls)
      BY DEF Calls
    <3> QED
      BY <2>2, <3>1, <3>2, ConcatEmptySeq
  <2> QED
    BY <2>1, <2>2
<1>4. todo' \in Seq(Calls) /\ Ordered(todo)'
  BY <1>3, ProperCalls DEF Proper
<1>5. ~Due("start")' /\ ~Due("record")' /\ Head(todo') # "start"
  BY <1>3 DEF Due
<1>6. ~Due("join") /\ ~Due("joinRecord")
  BY <1>2 DEF Due
<1>7. finish /\ isRecording => Due("joinRecord")'
  BY <1>3 DEF Due
<1>8. RecTyped' /\ Counted'
  BY <1>1, <1>4 DEF RecTyped, Counted
<1>9. CaptureJoined' /\ RecordJoined'
  BY <1>1, <1>5, <1>6, <1>7 DEF CaptureJoined, RecordJoined
<1> QED
  BY <1>4, <1>8, <1>9

(* PlayCCD and the reaction to a panic come at the end of a round.          *)
LEMMA EmptyTwice == <<>> \o <<>> = <<>>
BY EmptySeq, ConcatEmptySeq

LEMMA PlayStep ==
  ASSUME RecInv, PlayOn \/ Panic
  PROVE  RecInv'
<1> USE DEF RecInv, buttons, camera, captureVars, recordVars
<1>1. /\ UNCHANGED <<mode, isRecording, wpc, rpc, active, taken, writing,
                    recordQueue, file, frameCtr, framesToRecord, fileOpen>>
      /\ todo # <<>> /\ Head(todo) \in {"play", "panic"}
  BY DEF PlayOn, Panic, Call
<1>2. /\ Tail(todo) = <<>>
      /\ ~Due("join") /\ ~Due("joinRecord") /\ ~Due("start") /\ ~Due("record")
  BY <1>1, LastCalls DEF Due
<1>3. CASE PlayOn
  <2>1. UNCHANGED <<isPlaying, separate>>
    BY <1>3 DEF PlayOn
  <2>2. \/ isPlaying /\ todo' = <<"halt", "join", "start", "request", "frame",
                                  "request", "panic">>
        \/ /\ isPlaying /\ separate
           /\ todo' = <<"start", "request", "frame", "request", "panic">>
        \/ isPlaying /\ todo' = <<"frame", "request", "panic">>
        \/ todo' = <<>>
    <3>1. todo' = (IF isPlaying THEN PlayCCD(TRUE) \o <<"panic">> ELSE <<>>)
            \o <<>>
      BY <1>2, <1>3 DEF PlayOn, Call
    <3>2. CASE ~isPlaying
      BY <3>1, <3>2, EmptyTwice
    <3>3. CASE isPlaying /\ active # mode
      BY <3>1, <3>3, PlayCalls DEF PlayCCD
    <3>4. CASE isPlaying /\ active = mode /\ separate
      BY <3>1, <3>4, PlayCalls DEF PlayCCD
    <3>5. CASE isPlaying /\ active = mode /\ ~separate
      BY <3>1, <3>5, PlayCalls DEF PlayCCD
    <3> QED
      BY <3>2, <3>3, <3>4, <3>5
  <2>3. todo' \in Seq(Calls) /\ Ordered(todo)'
    BY <2>2, ProperCalls DEF Proper
  <2>4. ~Due("record")' /\ (Due("start")' => isPlaying)
    BY <2>2 DEF Due
  <2>5. todo' # <<>> /\ Head(todo') = "start" => separate
    BY <2>2
  <2>6. RecTyped' /\ Counted'
    BY <1>1, <2>3 DEF RecTyped, Counted
  <2>7. CaptureJoined' /\ RecordJoined'
    BY <1>1, <1>2, <2>1, <2>4, <2>5 DEF CaptureJoined, RecordJoined
  <2> QED
    BY <2>3, <2>6, <2>7
<1>4. CASE Panic
  <2>1. /\ isPlaying' = (isPlaying /\ ~panicStop)
        /\ separate' = (separate \/ panicStop)
    BY <1>4 DEF Panic
  <2>2. \/ panicStop /\ todo' = <<"halt", "join", "calm">>
        \/ ~panicStop /\ todo' = <<>>
    BY <1>2, <1>4, StopCalls, EmptyTwice DEF Panic, Call
  <2>3. todo' \in Seq(Calls) /\ Ordered(todo)'
    BY <2>2, ProperCalls DEF Proper
  <2>4. /\ ~Due("record")' /\ ~Due("start")'
        /\ ~(todo' # <<>> /\ Head(todo') = "start")
    BY <2>2 DEF Due
  <2>5. panicStop => Due("join")'
    BY <2>2 DEF Due
  <2>6. RecTyped' /\ Counted'
    BY <1>1, <2>3 DEF RecTyped, Counted
  <2>7. CaptureJoined' /\ RecordJoined'
    BY <1>1, <1>2, <2>1, <2>4, <2>5 DEF CaptureJoined, RecordJoined
  <2> QED
    BY <2>3, <2>6, <2>7
<1> QED
  BY <1>3, <1>4

LEMMA RecStep == RecInv /\ [Next]_vars => RecInv'
<1> SUFFICES ASSUME RecInv, [Next]_vars
             PROVE  RecInv'
  OBVIOUS
<1>1. CASE Capture \/ Record
  BY <1>1, CaptureStep, RecordStep
<1>2. CASE NoClick \/ Clicks
  BY <1>2, RestStep, StopStep, StartRecordingStep DEF Clicks
<1>3. CASE CheckFinished \/ PlayOn \/ Panic
  BY <1>3, CheckStep, PlayStep
<1>4. CASE HaltCapture \/ JoinCapture \/ Calm \/ StartCapture \/ RequestFrame
             \/ GetFrame \/ StartRecordingRaw \/ HaltRecording \/ JoinRecording
  <2>1. todo # <<>> /\ todo' = <<>> \o Tail(todo)
    BY <1>4
       DEF HaltCapture, JoinCapture, Calm, StartCapture, RequestFrame,
           GetFrame, StartRecordingRaw, HaltRecording, JoinRecording, Call
  <2> QED
    BY <1>4, <2>1, PopStep
<1>5. CASE UNCHANGED vars
  BY <1>5 DEF vars, buttons, camera, captureVars, recordVars, RecInv,
              RecTyped, Ordered, CaptureJoined, RecordJoined, Counted, Due
<1> QED
  BY <1>1, <1>2, <1>3, <1>4, <1>5 DEF Next, GoesOn

------------------------------------------------------------------------------
(* No std::thread is assigned to while it still has a thread                *)
(* (ThreadsJoined): StartCapture and startRecordingRaw find theirs joined,  *)
(* however a capture or a recording ended before - by a click, by itself or *)
(* by a panic stop - and also when the mode changes during a recording.     *)
THEOREM JoinedFirst == Spec => []ThreadsJoined
<1>1. RecInv => ThreadsJoined
  <2> SUFFICES ASSUME RecInv
               PROVE  ThreadsJoined
    OBVIOUS
  <2>1. todo # <<>> => Due(Head(todo))
    <3> SUFFICES ASSUME todo # <<>>
                 PROVE  Due(Head(todo))
      OBVIOUS
    <3>1. 1 \in 1 .. Len(todo) /\ Head(todo) = todo[1]
      BY DEF RecInv, RecTyped
    <3> QED
      BY <3>1 DEF Due
  <2> QED
    BY <2>1 DEF RecInv, CaptureJoined, RecordJoined, ThreadsJoined
<1> QED
  BY <1>1, RecInit, RecStep, PTL DEF Spec

(* recordThread writes at most m_framesToRecord frames, and only into an    *)
(* open file (NeverTooMany), although frameCtr survives a stop.             *)
THEOREM NoFrameTooMany == Spec => []NeverTooMany
<1>1. RecInv => NeverTooMany
  BY DEF RecInv, Counted, NeverTooMany
<1> QED
  BY <1>1, RecInit, RecStep, PTL DEF Spec

------------------------------------------------------------------------------
(* Part two: playback.  The same file holds another thread with its own     *)
(* position and queue.                                                      *)

Live == tpc \in {"top", "wait", "add", "read", "blank"}
Fetching == tpc \in {"add", "read"}

(* The thread is there, and not told to stop, while a playback is open. *)
ThreadThere ==
  /\ gpc \in {"bar", "seek", "get", "request"} => isPlayRecorded
  /\ gpc \in {"bar", "seek", "get", "request", "menu"} /\ isPlayRecorded
       => Live /\ ~stop
  /\ gpc = "menu" /\ ~isPlayRecorded => tpc = "none"

(* Unless the GUI is about to ask for one, a frame is there or on its way. *)
FrameDue == gpc # "request" => pbQueue # <<>> \/ should \/ ReadLocked

DueInv == ThreadThere /\ FrameDue

(* getFrame never waits for a frame that nobody will deliver (FrameComing), *)
(* and a playback starts only when the thread of the one before is joined,  *)
(* with the progress bar dragged or not.                                    *)
THEOREM FrameComes == PlaySpec => []FrameComing
<1>1. PlayInit => DueInv
  BY DEF PlayInit, DueInv, ThreadThere, FrameDue
<1>2. DueInv /\ [PlayNext]_playVars => DueInv'
  <2> SUFFICES ASSUME DueInv, [PlayNext]_playVars
               PROVE  DueInv'
    OBVIOUS
  <2> USE DEF DueInv, ThreadThere, FrameDue, Live, ReadLocked, threadVars,
              fileVars
  <2>1. CASE ThreadLoops
    BY <2>1 DEF ThreadLoops
  <2>2. CASE ThreadWakes
    BY <2>2 DEF ThreadWakes
  <2>3. CASE ThreadAdvances
    BY <2>3 DEF ThreadAdvances
  <2>4. CASE ThreadDelivers
    <3>1. pbQueue' # <<>>
      BY <2>4 DEF ThreadDelivers
    <3> QED
      BY <2>4, <3>1 DEF ThreadDelivers
  <2>5. CASE OpenRecording \/ OpenUnreadable
    BY <2>5 DEF OpenRecording, OpenUnreadable
  <2>6. CASE \/ PlayNoClick \/ PauseButton
            \/ BarReads \/ BarWrites
    BY <2>6 DEF PlayNoClick, PauseButton, BarReads, BarWrites
  <2>7. CASE PlayGetFrame
    BY <2>7 DEF PlayGetFrame
  <2>8. CASE PlayRequestFrame
    BY <2>8 DEF PlayRequestFrame
  <2>9. CASE StopPlayback \/ StopWakes
    BY <2>9 DEF StopPlayback, StopWakes
  <2>10. CASE StopJoins
    BY <2>10 DEF StopJoins
  <2>11. CASE UNCHANGED playVars
    BY <2>11 DEF playVars, fileVars, threadVars
  <2> QED
    BY <2>1, <2>2, <2>3, <2>4, <2>5, <2>6, <2>7, <2>8, <2>9, <2>10, <2>11
       DEF PlayNext, Thread, Gui, PlayGoesOn
<1>3. DueInv => FrameComing
  BY DEF DueInv, ThreadThere, FrameDue, FrameComing, Live
<1> QED
  BY <1>1, <1>2, <1>3, PTL DEF PlaySpec

------------------------------------------------------------------------------
(* The frames in the order they are shown. *)
Near(f, g) ==
  f.of = g.of /\ ~g.blank => g.at.rec \in {f.at.rec, f.at.rec + 1}
Chain ==
  /\ pbQueue # <<>> => Near(shown, pbQueue[1])
  /\ \A i \in 1 .. Len(pbQueue) :
       i > 1 => Near(pbQueue[i - 1], pbQueue[i])

(* The frame that was read last. *)
Latest == IF pbQueue = <<>> THEN shown ELSE pbQueue[Len(pbQueue)]

FrameType == [of : Nat, at : Position, blank : BOOLEAN]

PlayTyped ==
  /\ pbQueue \in Seq(FrameType)
  /\ shown \in FrameType
  /\ pos \in Position /\ at \in Position
  /\ opens \in Nat /\ seeker \in Nat
  /\ eof \in BOOLEAN /\ finished \in BOOLEAN /\ should \in BOOLEAN
  /\ Latest \in FrameType /\ Latest.of <= opens

EndOfFile ==
  /\ finished => eof
  /\ Fetching => ~eof
  /\ tpc = "blank" => eof

(* A request is taken before the next one is made. *)
OneRequest == ReadLocked => ~should

(* Where the thread reads, and where it goes on. *)
Steady ==
  ~eof =>
    /\ tpc = "add" => pos.rec = at.rec
    /\ tpc = "read" => pos.rec \in {at.rec, at.rec + 1}
    /\ Latest.of = opens =>
         /\ Fetching => at.rec \in {Latest.at.rec, Latest.at.rec + 1}
         /\ ~Fetching => /\ at.rec = Latest.at.rec
                         /\ pos.rec \in {at.rec, at.rec + 1}

(* What the progress bar will write back: the position, or the one before   *)
(* it if the thread has advanced meanwhile.                                 *)
BarTrue ==
  ~eof /\ gpc = "seek" =>
    \/ seeker = pos.rec
    \/ /\ \/ tpc = "read"
          \/ ~should /\ tpc # "add" /\ Latest.of = opens
       /\ seeker = at.rec /\ pos.rec = at.rec + 1

OrderInv == PlayTyped /\ Chain /\ EndOfFile /\ OneRequest /\ Steady /\ BarTrue

(* Reading a frame makes it the latest.                                     *)
LEMMA LatestAppended ==
  ASSUME PlayTyped, NEW f \in FrameType, pbQueue' = Append(pbQueue, f)
  PROVE  /\ pbQueue' \in Seq(FrameType)
         /\ Latest' = f
         /\ Chain /\ Near(Latest, f) /\ shown' = shown => Chain'
<1> USE DEF PlayTyped
<1>1. /\ pbQueue' \in Seq(FrameType) /\ pbQueue' # <<>>
      /\ Len(pbQueue') = Len(pbQueue) + 1
      /\ \A i \in 1 .. Len(pbQueue) : pbQueue'[i] = pbQueue[i]
      /\ pbQueue'[Len(pbQueue) + 1] = f
      /\ Len(pbQueue) \in Nat
  OBVIOUS
<1>2. Latest' = f
  BY <1>1 DEF Latest
<1>3. ASSUME Chain, Near(Latest, f), shown' = shown
      PROVE  Chain'
  <2>1. CASE pbQueue = <<>>
    <3>1. Len(pbQueue) = 0
      BY <2>1
    <3> QED
      BY <1>1, <1>3, <2>1, <3>1 DEF Chain, Latest
  <2>2. CASE pbQueue # <<>>
    <3>1. Len(pbQueue) > 0
      BY <2>2
    <3>2. Near(shown', pbQueue'[1])
      BY <1>1, <1>3, <2>2, <3>1 DEF Chain
    <3>3. ASSUME NEW i \in 1 .. Len(pbQueue'), i > 1
          PROVE  Near(pbQueue'[i - 1], pbQueue'[i])
      <4>1. CASE i \in 1 .. Len(pbQueue)
        BY <1>1, <1>3, <3>3, <4>1 DEF Chain
      <4>2. CASE i = Len(pbQueue) + 1
        BY <1>1, <1>3, <2>2, <3>1, <3>3, <4>2 DEF Latest
      <4> QED
        BY <1>1, <3>3, <4>1, <4>2
    <3> QED
      BY <3>2, <3>3 DEF Chain, Near
  <2> QED
    BY <2>1, <2>2
<1> QED
  BY <1>1, <1>2, <1>3

(* getFrame shows the first of the queue; the latest stays the latest.      *)
LEMMA LatestTaken ==
  ASSUME PlayTyped, pbQueue # <<>>, shown' = Head(pbQueue),
           pbQueue' = Tail(pbQueue)
  PROVE  /\ pbQueue' \in Seq(FrameType) /\ shown' \in FrameType
         /\ Latest' = Latest
         /\ shown' = pbQueue[1]
         /\ Chain => Chain'
<1> USE DEF PlayTyped
<1>1. /\ pbQueue' \in Seq(FrameType)
      /\ shown' = pbQueue[1] /\ shown' \in FrameType
      /\ Len(pbQueue) \in Nat \ {0}
      /\ Len(pbQueue') = Len(pbQueue) - 1
      /\ \A i \in 1 .. Len(pbQueue') : pbQueue'[i] = pbQueue[i + 1]
  OBVIOUS
<1>2. pbQueue' = <<>> <=> Len(pbQueue') = 0
  BY <1>1, EmptySeq
<1>3. Latest' = Latest
  <2>1. CASE Len(pbQueue') = 0
    BY <1>1, <1>2, <2>1 DEF Latest
  <2>2. CASE Len(pbQueue') # 0
    BY <1>1, <1>2, <2>2 DEF Latest
  <2> QED
    BY <2>1, <2>2
<1>4. ASSUME Chain
      PROVE  Chain'
  <2>1. pbQueue' # <<>> => Near(shown', pbQueue'[1])
    <3> SUFFICES ASSUME pbQueue' # <<>>
                 PROVE  Near(shown', pbQueue'[1])
      OBVIOUS
    <3>1. Len(pbQueue') > 0
      BY <1>1, <1>2
    <3>2. pbQueue'[1] = pbQueue[2] /\ 2 \in 1 .. Len(pbQueue)
      BY <1>1, <3>1
    <3>3. Near(pbQueue[2 - 1], pbQueue[2])
      BY <1>4, <3>2 DEF Chain
    <3> QED
      BY <1>1, <3>2, <3>3
  <2>2. ASSUME NEW i \in 1 .. Len(pbQueue'), i > 1
        PROVE  Near(pbQueue'[i - 1], pbQueue'[i])
    <3>1. /\ i - 1 \in 1 .. Len(pbQueue') /\ i + 1 \in 1 .. Len(pbQueue)
          /\ i + 1 > 1
      BY <1>1, <2>2
    <3>2. Near(pbQueue[(i + 1) - 1], pbQueue[i + 1])
      BY <1>4, <3>1 DEF Chain
    <3>3. /\ pbQueue'[i - 1] = pbQueue[(i + 1) - 1]
          /\ pbQueue'[i] = pbQueue[i + 1]
      BY <1>1, <3>1
    <3> QED
      BY <3>2, <3>3
  <2> QED
    BY <2>1, <2>2 DEF Chain, Near
<1> QED
  BY <1>1, <1>3, <1>4

(* Where a playback starts. *)
LEMMA Positions == Start \in Position /\ Zero \in Position
BY DEF Start, Zero, Position

(* Every step of thread and GUI.                                            *)
LEMMA OrderStep ==
  ASSUME ~Drag, OrderInv, [PlayNext]_playVars
  PROVE  OrderInv'
<1> USE DEF OrderInv, ReadLocked, Fetching, threadVars, fileVars
<1>1. CASE ThreadLoops
  <2>1. Latest' = Latest /\ (Chain => Chain')
    BY <1>1 DEF ThreadLoops, Latest, Chain, Near
  <2>2. PlayTyped'
    BY <1>1, <2>1 DEF ThreadLoops, PlayTyped, Position
  <2>3. EndOfFile' /\ OneRequest'
    BY <1>1, <2>1 DEF ThreadLoops, PlayTyped, EndOfFile, OneRequest
  <2>4. Steady'
    BY <1>1, <2>1
       DEF ThreadLoops, PlayTyped, Position, EndOfFile, OneRequest, Steady,
           BarTrue
  <2>5. BarTrue'
    BY <1>1, <2>1
       DEF ThreadLoops, PlayTyped, Position, EndOfFile, OneRequest, Steady,
           BarTrue
  <2> QED
    BY <2>1, <2>2, <2>3, <2>4, <2>5
<1>2. CASE ThreadWakes
  <2>1. Latest' = Latest /\ (Chain => Chain')
    BY <1>2 DEF ThreadWakes, Latest, Chain, Near
  <2>2. PlayTyped'
    BY <1>2, <2>1 DEF ThreadWakes, PlayTyped, Position
  <2>3. EndOfFile' /\ OneRequest'
    BY <1>2, <2>1 DEF ThreadWakes, PlayTyped, EndOfFile, OneRequest
  <2>4. Steady'
    BY <1>2, <2>1
       DEF ThreadWakes, PlayTyped, Position, EndOfFile, OneRequest, Steady,
           BarTrue
  <2>5. BarTrue'
    BY <1>2, <2>1
       DEF ThreadWakes, PlayTyped, Position, EndOfFile, OneRequest, Steady,
           BarTrue
  <2> QED
    BY <2>1, <2>2, <2>3, <2>4, <2>5
<1>3. CASE ThreadAdvances
  <2>1. Latest' = Latest /\ (Chain => Chain')
    BY <1>3 DEF ThreadAdvances, Latest, Chain, Near
  <2>2. ~eof /\ pos.rec = at.rec /\ at.rec \in Nat
    BY <1>3
       DEF ThreadAdvances, EndOfFile, Steady, PlayTyped, Position
  <2>3. pos' \in Position /\ pos'.rec = at.rec + 1
    BY <1>3, <2>2 DEF ThreadAdvances, PlayTyped, Position
  <2>4. PlayTyped'
    BY <1>3, <2>1, <2>2, <2>3 DEF ThreadAdvances, PlayTyped, Position
  <2>5. EndOfFile' /\ OneRequest'
    BY <1>3, <2>1, <2>2, <2>3
       DEF ThreadAdvances, PlayTyped, EndOfFile, OneRequest
  <2>6. Steady'
    BY <1>3, <2>1, <2>2, <2>3
       DEF ThreadAdvances, PlayTyped, Position, EndOfFile, OneRequest, Steady,
           BarTrue
  <2>7. BarTrue'
    BY <1>3, <2>1, <2>2, <2>3
       DEF ThreadAdvances, PlayTyped, Position, EndOfFile, OneRequest, Steady,
           BarTrue
  <2> QED
    BY <2>1, <2>4, <2>5, <2>6, <2>7
<1>4. CASE ThreadDelivers
  <2> DEFINE f == Frame(opens, at, tpc = "blank")
  <2>1. f \in FrameType /\ pbQueue' = Append(pbQueue, f)
    BY <1>4 DEF ThreadDelivers, PlayTyped, FrameType, Frame
  <2>2. /\ f.of = opens /\ f.at = at /\ f.blank = (tpc = "blank")
    BY DEF Frame
  <2>3. Near(Latest, f)
    BY <1>4, <2>2 DEF ThreadDelivers, Near, EndOfFile, Steady
  <2>4. /\ Latest' = f /\ Chain' /\ pbQueue' \in Seq(FrameType)
    BY <1>4, <2>1, <2>3, LatestAppended DEF ThreadDelivers
  <2> HIDE DEF f
  <2>5. PlayTyped'
    BY <1>4, <2>1, <2>2, <2>4 DEF ThreadDelivers, PlayTyped
  <2>6. EndOfFile' /\ OneRequest'
    BY <1>4 DEF ThreadDelivers, PlayTyped, EndOfFile, OneRequest
  <2>7. Steady'
    BY <1>4, <2>2, <2>4
       DEF ThreadDelivers, PlayTyped, Position, EndOfFile, Steady
  <2>8. BarTrue'
    BY <1>4, <2>2, <2>4
       DEF ThreadDelivers, PlayTyped, Position, EndOfFile, OneRequest, Steady,
           BarTrue
  <2> QED
    BY <2>4, <2>5, <2>6, <2>7, <2>8
<1>5. CASE OpenRecording
  <2>1. Latest' = Latest /\ (Chain => Chain')
    BY <1>5 DEF OpenRecording, Latest, Chain, Near
  <2>2. Latest.of \in Nat
    BY DEF PlayTyped, FrameType
  <2>3. PlayTyped'
    <3>1. /\ opens \in Nat /\ opens' = opens + 1 /\ Latest.of <= opens
          /\ pos' \in Position
      BY <1>5, Positions DEF OpenRecording, PlayTyped
    <3>2. opens' \in Nat /\ Latest'.of <= opens'
      BY <2>1, <2>2, <3>1
    <3> QED
      BY <1>5, <2>1, <3>1, <3>2 DEF OpenRecording, PlayTyped
  <2>4. EndOfFile' /\ OneRequest'
    BY <1>5, <2>1, <2>2
       DEF OpenRecording, PlayTyped, EndOfFile, OneRequest
  <2>5. Steady'
    BY <1>5, <2>1, <2>2
       DEF OpenRecording, PlayTyped, Position, EndOfFile, OneRequest, Steady,
           BarTrue
  <2>6. BarTrue'
    BY <1>5, <2>1, <2>2
       DEF OpenRecording, PlayTyped, Position, EndOfFile, OneRequest, Steady,
           BarTrue
  <2> QED
    BY <2>1, <2>3, <2>4, <2>5, <2>6
<1>6. CASE PlayNoClick \/ PauseButton
  <2>1. Latest' = Latest /\ (Chain => Chain')
    BY <1>6 DEF PlayNoClick, PauseButton, Latest, Chain, Near
  <2>2. PlayTyped'
    BY <1>6, <2>1, Positions DEF PlayNoClick, PauseButton, PlayTyped
  <2>3. EndOfFile' /\ OneRequest'
    BY <1>6, <2>1
       DEF PlayNoClick, PauseButton, PlayTyped, EndOfFile, OneRequest
  <2>4. Steady'
    BY <1>6, <2>1
       DEF PlayNoClick, PauseButton, PlayTyped, Position, EndOfFile,
           OneRequest, Steady, BarTrue
  <2>5. BarTrue'
    BY <1>6, <2>1
       DEF PlayNoClick, PauseButton, PlayTyped, Position, EndOfFile,
           OneRequest, Steady, BarTrue
  <2> QED
    BY <2>1, <2>2, <2>3, <2>4, <2>5
<1>7. CASE BarReads
  <2>1. Latest' = Latest /\ (Chain => Chain')
    BY <1>7 DEF BarReads, Latest, Chain, Near
  <2>2. PlayTyped'
    BY <1>7, <2>1 DEF BarReads, PlayTyped, Position
  <2>3. EndOfFile' /\ OneRequest'
    BY <1>7, <2>1 DEF BarReads, PlayTyped, EndOfFile, OneRequest
  <2>4. Steady'
    BY <1>7, <2>1
       DEF BarReads, PlayTyped, Position, EndOfFile, OneRequest, Steady,
           BarTrue
  <2>5. BarTrue'
    BY <1>7, <2>1
       DEF BarReads, PlayTyped, Position, EndOfFile, OneRequest, Steady,
           BarTrue
  <2> QED
    BY <2>1, <2>2, <2>3, <2>4, <2>5
<1>8. CASE BarWrites
  <2>1. Latest' = Latest /\ (Chain => Chain')
    BY <1>8 DEF BarWrites, Latest, Chain, Near
  <2>2. pos' \in Position /\ pos'.rec = seeker
    BY <1>8 DEF BarWrites, PlayTyped, Position
  <2>3. PlayTyped'
    BY <1>8, <2>1, <2>2 DEF BarWrites, PlayTyped, Position
  <2>4. EndOfFile' /\ OneRequest'
    BY <1>8, <2>1, <2>2 DEF BarWrites, PlayTyped, EndOfFile, OneRequest
  <2>5. Steady'
    BY <1>8, <2>1, <2>2
       DEF BarWrites, PlayTyped, Position, EndOfFile, OneRequest, Steady,
           BarTrue
  <2>6. BarTrue'
    BY <1>8, <2>1, <2>2
       DEF BarWrites, PlayTyped, Position, EndOfFile, OneRequest, Steady,
           BarTrue
  <2> QED
    BY <2>1, <2>3, <2>4, <2>5, <2>6
<1>9. CASE PlayGetFrame
  <2>1. /\ Latest' = Latest /\ Chain' /\ pbQueue' \in Seq(FrameType)
        /\ shown' \in FrameType
    BY <1>9, LatestTaken DEF PlayGetFrame
  <2>2. PlayTyped'
    BY <1>9, <2>1 DEF PlayGetFrame, PlayTyped, Position
  <2>3. EndOfFile' /\ OneRequest'
    BY <1>9, <2>1 DEF PlayGetFrame, PlayTyped, EndOfFile, OneRequest
  <2>4. Steady'
    BY <1>9, <2>1
       DEF PlayGetFrame, PlayTyped, Position, EndOfFile, OneRequest, Steady,
           BarTrue
  <2>5. BarTrue'
    BY <1>9, <2>1
       DEF PlayGetFrame, PlayTyped, Position, EndOfFile, OneRequest, Steady,
           BarTrue
  <2> QED
    BY <2>1, <2>2, <2>3, <2>4, <2>5
<1>10. CASE \/ PlayRequestFrame \/ StopPlayback
             \/ StopWakes \/ StopJoins \/ OpenUnreadable
  <2>1. Latest' = Latest /\ (Chain => Chain')
    BY <1>10
       DEF OpenUnreadable, PlayRequestFrame, StopPlayback, StopWakes, StopJoins, Latest,
           Chain, Near
  <2>2. PlayTyped'
    BY <1>10, <2>1
       DEF OpenUnreadable, PlayRequestFrame, StopPlayback, StopWakes, StopJoins, PlayTyped,
           Position
  <2>3. EndOfFile' /\ OneRequest'
    BY <1>10, <2>1
       DEF OpenUnreadable, PlayRequestFrame, StopPlayback, StopWakes, StopJoins, PlayTyped,
           EndOfFile, OneRequest
  <2>4. Steady'
    BY <1>10, <2>1
       DEF OpenUnreadable, PlayRequestFrame, StopPlayback, StopWakes, StopJoins, PlayTyped,
           Position, EndOfFile, OneRequest, Steady, BarTrue
  <2>5. BarTrue'
    BY <1>10, <2>1
       DEF OpenUnreadable, PlayRequestFrame, StopPlayback, StopWakes, StopJoins, PlayTyped,
           Position, EndOfFile, OneRequest, Steady, BarTrue
  <2> QED
    BY <2>1, <2>2, <2>3, <2>4, <2>5
<1>11. CASE UNCHANGED playVars
  BY <1>11
     DEF playVars, PlayTyped, Latest, Chain, Near, EndOfFile, OneRequest,
         Steady, BarTrue
<1> QED
  BY <1>1, <1>2, <1>3, <1>4, <1>5, <1>6, <1>7, <1>8, <1>9, <1>10, <1>11
     DEF PlayNext, Thread, Gui, PlayGoesOn

------------------------------------------------------------------------------
(* While nobody drags the bar, a playback never skips a frame and never     *)
(* goes back (NoFrameSkipped), although GUI and thread both write           *)
(* currentPBPos without a lock.                                             *)
THEOREM NeverSkips == ASSUME ~Drag PROVE PlaySpec => NoFrameSkipped
<1>1. PlayInit => OrderInv
  <2> SUFFICES ASSUME PlayInit
               PROVE  OrderInv
    OBVIOUS
  <2>1. pbQueue = <<>> /\ Len(pbQueue) = 0 /\ Latest = shown
    BY DEF PlayInit, Latest
  <2>2. shown \in FrameType /\ shown.of = 0
    BY Positions DEF PlayInit, Frame, FrameType
  <2>3. PlayTyped
    <3>1. pbQueue \in Seq(FrameType)
      BY <2>1, EmptySeq
    <3>2. opens = 0 /\ shown.of <= opens
      <4>1. opens = 0
        BY DEF PlayInit
      <4> QED
        BY ONLY <2>2, <4>1
    <3>3. /\ opens \in Nat /\ seeker \in Nat
          /\ pos \in Position /\ at \in Position
          /\ eof \in BOOLEAN /\ finished \in BOOLEAN /\ should \in BOOLEAN
      BY Positions DEF PlayInit
    <3> QED
      BY <2>1, <2>2, <3>1, <3>2, <3>3 DEF PlayTyped
  <2>4. Chain
    BY <2>1 DEF Chain
  <2>5. EndOfFile /\ OneRequest
    BY DEF PlayInit, EndOfFile, OneRequest, Fetching, ReadLocked
  <2>6. shown.at.rec = 0 /\ at.rec = 0 /\ pos.rec = 0
    BY DEF PlayInit, Frame, Zero
  <2>7. Steady /\ BarTrue
    BY <2>1, <2>6 DEF PlayInit, Steady, BarTrue, Fetching
  <2> QED
    BY <2>3, <2>4, <2>5, <2>7 DEF OrderInv
<1>2. OrderInv /\ [PlayNext]_playVars => OrderInv'
  BY OrderStep
<1>3. OrderInv /\ [PlayNext]_playVars
        => [shown'.of = shown.of /\ ~shown'.blank
              => shown'.at.rec \in {shown.at.rec, shown.at.rec + 1}]_playVars
  <2> SUFFICES ASSUME OrderInv, [PlayNext]_playVars
               PROVE  shown'.of = shown.of /\ ~shown'.blank
                        => shown'.at.rec \in {shown.at.rec, shown.at.rec + 1}
    OBVIOUS
  <2>1. CASE PlayGetFrame
    BY <2>1, LatestTaken DEF PlayGetFrame, OrderInv, Chain, Near
  <2>2. CASE shown' = shown
    BY <2>2
  <2> QED
    BY <2>1, <2>2
       DEF PlayNext, Thread, Gui, PlayGoesOn, playVars, ThreadLoops,
           ThreadWakes, ThreadAdvances, ThreadDelivers, OpenRecording,
           PlayNoClick, PauseButton, BarReads, BarWrites, PlayRequestFrame,
           StopPlayback, StopWakes, StopJoins, OpenUnreadable
<1> QED
  BY <1>1, <1>2, <1>3, PTL DEF PlaySpec, NoFrameSkipped
==============================================================================
