# Verification of the networked ToF capture

This directory holds TLA+ modules, TLC configurations and TLAPS proofs for the
parts of the repository that carry its own concurrency and protocol logic:

* **tof-net** (`tof_net/examples/`): the RAW frame relay between two machines.
  Machine A (`tof-net-collect`) drives the camera and connects to Machine B
  (`tof-net-viewer`), which listens, sends `StartCapture` and `StopCapture`,
  computes depth, saves and shows the frames;
* **the remote camera of the ToF SDK fork** (`ToF/`): `aditof-server` on the
  board, the sensor behind it, and the host's network layer;
* **recording and playback** of the viewers.

The rest of the repository is drivers, vendored libraries and sequential SDK
code (section 7).

## 1. Inventory

| Part | State | Operations | Hard because |
|---|---|---|---|
| `tof-net-common` socket, protocol | file descriptor, socket buffers | connect, bind/listen, accept, send, receive, close | blocking calls without time limits, partial messages, silent cuts |
| collector `session()`, capture thread | `g_run`, `capture_thread_run`, `capture_thread`, `frame_id` | hand over calibration, command loop, start/stop handlers, grab, send, reconnect | two threads on one socket and one camera; some sends are not under `send_mu`; exceptions at every step |
| collector camera | `capturing_`, `mode_name_`, INI controls, the device's `started` | `start`, `stop`, `switchMode`, `setRequestedFps`, `get_frame` | several steps, each may fail; the status of a stop is not looked at |
| calibration, both machines | cache files, received CCB, dealias tables, `m_tofi*` context | export, receive, configure, compute | state of three lifetimes: module, connection, capture |
| viewer worker and GUI | `m_stopFlag`, `m_clientSocket`, `m_remoteCapturing`, `m_waitingForFirstFrame`, `lastMessageTime`, `isPlaying`, `modeSelection` | listen, accept, receive, time out, tear down; Open Device, mode, Play, Stop, close | commands are fire and forget, answers come later on another thread; both threads close sockets |
| frame path of the viewer | save session, frame queue of one, `m_lastFrame` | open and close sessions, save, enqueue, `getFrame` | GUI closes what the worker is writing to; frames of two captures |
| drawing threads (`ADIView`) | `m_capturedFrame`, `m_*FrameAvailable`, `m_barrierCtr`, `numOfThreads` | publish, draw, count, show, stop | frame shared without a lock; only the barrier protects it |
| playback (`ADIToFRecorder`) | position, `m_playbackQueue`, `m_shouldReadNewFrame`, eof flags | open, read, pause, drag, stop | GUI and thread write the position without a lock |
| recording (`ADIToFRecorder`, `ADIController`) | `m_recordQueue`, `frameCtr`, `m_finishRecording`, thread objects | start, stop, capture, write | ends on its own or by a click; three threads |
| `aditof-server` | `buff_send`, `m_frame_ready`, `Client_Connected`, `sensors_are_created`, `getFrameInProgress` | websocket callbacks, requests, watchdog, restart | one reply buffer for all connections; the watchdog looks from another thread |
| `Adsd3500Sensor` | `isOpen`, `started`, buffers | open, start, stop, setFrameType, get frame | each of several ioctls may fail half-way |
| host `Network` | `send_buff`, `recv_buff`, `Server_Connected`, `Data_Received`, `Thread_Running` | ServerConnect, SendCommand, recv_server_data, destructor | static flags shared by two threads, time limits, retry |

The parts of one program interact through shared flags, sockets, queues and
mutexes; the programs through a TCP connection (tof-net) or a websocket (SDK);
and all with the user. `PROJECT.json` lists the components with what is left
out of each, and under `hazards` every place that is hard to test with the
property that watches it.

What makes the parts correct:

* collector: its unlocked sections are never concurrent, the camera does not
  stream unread unless its driver refused to stop it, the stream on the wire is
  well formed, `stop_thread()` returns, a closed viewer and a signal have their
  effect;
* viewer connection: one owner of the socket, nothing open after `stop()`,
  which returns; dead peers are noticed;
* both: once all commands are served, GUI and camera agree;
* calibration: a depth frame is computed with the tables of its own module;
* frame path: no file holds two frames, the display never goes back in time;
* drawing threads: images of one view come from one frame, no deadlock;
* playback and recording: no wait lasts for ever, no frame is skipped, no
  thread object is overwritten, a recording is not longer than asked for;
* server: a reply answers the request it is for, the sensor's idea of the
  driver's queue is right after every failure, the watchdog ends a stuck
  GetFrame and never judges one by the time of another;
* host: no request is sent twice or half-filled, success means the board was
  reached and the answer is the call's own, every call returns.

## 2. Modules

| Module | Models |
|---|---|
| `TofLink` | the connection: `up`, `down` (FIFOs), `aSock`, `bSock` (who holds it), `backlog`, `listening`, `fin` (A closed), `lost` (cut silently) |
| `Collector` | Machine A: `main()`, `session()`, the capture thread and the camera |
| `CaptureStream` | abstract: what A promises the reader of one connection |
| `CollectorSystem` | `Collector` against any viewer and any network; the refinement to `CaptureStream` |
| `ViewerStream` | Machine B: worker thread and the part of the GUI that drives it |
| `ViewerSystem` | `ViewerStream` against any peer |
| `ViewerPatience` | `ViewerSystem` with the time since Play as a history variable |
| `TofNet` | `Collector` and `ViewerStream` over `TofLink`, with faults |
| `Calibration`, `MCCalibration` | which CCB, dealias table and TOFI context a frame is computed with, from the export on A to the result on B |
| `FramePath` | save sessions, the frame queue and what is shown |
| `Display` | the drawing threads, their barrier, stop and destruction of the view |
| `Playback` | the playback thread, the GUI and its progress bar |
| `Recorder` | GUI, capture thread and record thread of a recording |
| `SensorV4l` | the sensor object, its device and the V4L2 buffer queue; operators, no behaviour of its own |
| `FrameServer` | `aditof-server` over `SensorV4l`: callbacks, requests, watchdog, signals, restart |
| `ServerSystem` | `FrameServer` with the hosts that use it |
| `SdkNetwork` | the host's `Network`: application thread, service thread, the server as its peer |
| `RemoteCall` | abstract: what the network layer promises its callers |
| `CollectorProofs`, `TofNetProofs`, `CalibrationProofs`, `FramePathProofs`, `DisplayProofs`, `RecordingProofs`, `SdkProofs`, `ServerProofs` | TLAPS proofs |

A run checks one of these modules directly; the suffix `System` marks a
component closed by the most general environment its code admits.

How state and actions correspond to code:

* In every module a control variable (`pc`, `cpc`, `wpc`, `gpc`, `spc`, ...)
  says at which line a thread is. An operation under one mutex is one action,
  because the mutex makes it atomic for the other threads; a thread may be
  interrupted between such operations, at every blocking call, and between the
  test and the use of a flag that another thread writes. Where a mutex is held
  over a blocking operation it is a variable or a predicate (`ReadLocked`).
* A step of a handler that may fail is an action with both outcomes; failure
  goes where the code's `catch`, `return` or status check goes.
* `Collector`: `stop_thread()` takes three actions (`ClearRun`, `StopCamera`,
  `Join`), and `after` is its return address. `streaming` is `capturing_`;
  `started` is the device. They part when a STREAMOFF fails, which
  `stop_locked()` does not look at (`StopLocked`): the device is then left on
  (`leftOn`) until a mode switch or the end of the process closes it.
* `ViewerStream`: `SendStart` and `StartSent` are two actions because the code
  sets the flags after it has released `m_socketMutex`; so is the moment
  between `accept_one` and the assignment to `m_clientSocket`.
* `Calibration`: a calibration is known by the module it was read from, so
  "the right one" is a statement about history (`results`), not about bytes.
* `SensorV4l`: its operators are the methods of the class. A caller conjoins
  one of them with its own state change and learns the status `st`.
* `FrameServer`: the websocket library is external. It calls back one
  connection at a time, serves a pending write before the next read of a
  connection, and drops what a closed connection had queued. A GetFrame is
  several steps, as the watchdog reads its flag, its start time and the clock
  in between, with time passing between any two of the three. The end of the
  process, by `exit()` or from `main()`, destroys `depthSensors` (`Ends`).
* `SdkNetwork`: one action per section under `mutex_*`; the waits on the
  condition variable end by notification or by `Timeout`, at any moment. The
  history variable `late` says that a wait has ended with its write, its
  request or its reply still to come. `send_buff` is filled in two steps, its
  size is measured and compared with what was written (`Measure`).
* `Recorder`: a click is an action, and `todo` lists the blocking calls its
  handler still has to make, each an action of its own. The buttons and
  `CheckFinished` exist only in a round with the tree nodes expanded
  (`expanded`), and the file of a recording may fail to open (`fileOpen`).
* A message is its type and the header fields the receiver acts on; in
  `SdkNetwork` a request is the number of its call. Blobs, texts, compression
  and wording are left out. In `TofLink` `Torn` is a message that the network
  has cut half-way, `Unacked` a command sent on a cut connection.
* Time is the number of one-second steps (`silence`, `age`), capped by a
  constant.

Names whose comment begins with "Mutant of" are faulty variants of the
definition that follows them; they are used only to show that a property can
fail.

## 3. Runs

| Run | Configuration, module | Bounds | Shows |
|---|---|---|---|
| `collector` | `MCCollector.cfg`, `CollectorSystem` | 1 mode, 2 connection identifiers, 1 message per direction, a backlog of 1, 1 sensor frame, frame limit 1, frame rate requested, every STREAMOFF may fail | `TypeOK`, `MainAloneInHandlers`, `IdleCameraStopped`, `ImplementsCaptureStream`, `StopThreadReturns`, `ClosedViewerNoticed`, `SignalEndsCollector` |
| `viewer` | `MCViewer.cfg`, `ViewerSystem` | 2 modes, 1 connection identifier, silence limit 1 | `OneOwnerOfClient`, `ClosedMeansReleased`, `StopReturns`, `ClosedPeerNoticed`, `SilentPeerDropped` |
| `tofnet_modes` | `MCTofNet.cfg`, `TofNet` | 2 modes, 2 commands in flight, power loss at any time | `SettledModeAgrees`, `StopStopsCamera` |
| `tofnet_faults` | `MCTofNetFaults.cfg`, `TofNet` | 1 mode, 2 commands in flight, cuts and power loss at any time | `StopStopsCamera` |
| `calibration` | `MCCalibration.cfg`, `MCCalibration` | 2 interchangeable modules, 2 modes, 3 messages on the wire, no cache, exports succeed | `CalibrationIsOwn`, `TofiIsCurrent` |
| `frame_path` | `MCFramePath.cfg`, `FramePath` | 2 captures of 2 frames, 2 on the wire, save limit 2, every write may fail, a line of `frames.csv` unnoticed | `SessionConsistent`, `ShownInOrder` |
| `display` | `MCDisplay.cfg`, `Display` | 3 images | `ImagesMatch`, `FrameStable`, `BarrierPasses`, `ViewCloses` |
| `playback` | `MCPlayback.cfg`, `Playback` | 3 recordings of 0, 1 or 3 frames, or a file that cannot be read, bar not dragged | `FrameComing`, `NoFrameSkipped`, `PlaybackServed` |
| `recorder` | `MCRecorder.cfg`, `Recorder` | 2 modes, 2 recordings of 1 frame, each file may fail to open, the tree is collapsed and expanded at any time, queue of at most 2 | `ThreadsJoined`, `NeverTooMany`, `RecordingEnds`, `GuiServed` |
| `server` | `MCServer.cfg`, `ServerSystem` | 2 buffers, 1 frame type, hosts one after the other, limits 1 and 2, the watchdog held up anywhere | `ReplyAnswersRequest`, `SensorBehindRequest`, `StreamHasItsBuffers`, `FullStreamHasItsType`, `WatchdogJustified`, `StuckFrameEnds` |
| `sdk` | `MCSdk.cfg`, `SdkNetwork` | 3 calls, 3 retries, any server: it answers at once, late or never, or closes | `OnceOnWire`, `AnswerIsOwn`, `ImplementsRemoteCall`, `CallReturns` |
| `metadata_cache` | `MCMetadataCache.cfg`, `MCCalibration` | as `calibration`, 1 mode, metadata cache on (the default) | `CalibrationIsOwn` is violated (section 4) |

Why the bounds are enough for what is asked:

* a connection identifier (`TofLink`, `FrameServer`) is reused when both ends
  have let go of it, so one identifier gives arbitrarily many connections in a
  row, and what one leaves behind meets the next. Two of them, in `collector`,
  let A reconnect while the viewer still holds the connection before: A's new
  one waits in the backlog, and A in a send to it;
* `ChanCap = 1` makes every send of A block until B reads, the case in which
  `stop_thread()` could hang; larger buffers only hide it. `CmdCap = 2` lets
  StopCapture and StartCapture be in flight together, which is what a mode
  change needs to go wrong;
* the properties of the run `collector` speak of one mode at a time; its
  safety part and the refinement are proved for every set of modes (section
  6), where a start may change the mode. `NFrames = 1` lets the frame limit end
  a capture beside Stop, errors and signals; that several frames are numbered
  in order is what `ImplementsStream` proves for every limit. `SensorFrames`
  bounds the frames of a capture, after which the sensor only times out, as it
  may at any time;
* two camera modules are a module and the one it was exchanged for; they are
  interchangeable in the code, so the symmetry set is sound (no liveness there);
* two captures of two frames give a frame of the old capture in flight when
  the new one starts, and a save session that reaches its limit;
* three images give a worker that is neither first nor last at the barrier;
  frame numbers are kept modulo two, since only "this frame" and "the one
  before" are compared;
* recordings of 0, 1 and 3 frames are the empty, the shortest and one with a
  frame that is neither first nor last;
* two buffers give a partial V4L2 queue, so a failure between the first and
  the last is possible; `FrameLimit = 1` lets the watchdog look before, at and
  after the limit, and `FailLimit = 2` a failure be followed by another request;
* in `recorder` the queue of frames to record holds at most `MaxQueue + 1`;
  frames beyond that are not added. A frame on its way and one left over is
  what can go wrong with it;
* three calls give a call whose predecessor failed and whose successor
  follows.

Deadlock is checked in `frame_path`, `playback` and `recorder`. It is not
checked where a process really may stop: the collector exits (signal, or no
reconnect), the viewer closes its window, the server has no host left, the SDK
application has destroyed its object, no calibration event is left. In
`display` a deadlock of the threads would violate `BarrierPasses` or
`ViewCloses`; what remains is the closed window.

What the conditions of the passing runs exclude is stated here and not hidden
in the bounds: `CalibrationIsOwn` holds without the metadata cache and while
exports succeed; `ReplyAnswersRequest` and `SensorBehindRequest` with one host
at a time, `NoFrameSkipped` while nobody drags the bar. Other exceptions are
part of the property: `AnswerIsOwn` and `ImplementsRemoteCall` speak of the time
before a wait of ten seconds was too short (`late`), `IdleCameraStopped` and
`StopStopsCamera` leave out a device whose STREAMOFF failed (`leftOn`),
`SignalEndsCollector` the wait for a command and a send to a viewer that does
not accept, `RecordingEnds` a file that did not open and a tree that is
collapsed, `PlaybackServed` and `CallReturns` a process that has died of what
section 4 or 7 names. The instances of section 4 show what happens otherwise.
`SessionConsistent`, `ShownInOrder` and `NeverTooMany` do not say which capture
or recording a frame belongs to; `FirstFrameIsNew` and `FramesFitHeader` do, and
are violated (section 4).

## 4. Further instances

Configurations that are kept for reference. Run them with
`tlc -config X.cfg M`.

Passing:

| Configuration, module | Shows |
|---|---|
| `MCSdkWhole.cfg`, `SdkNetwork` | `TypeOK`, and `WrittenWhole`: until a wait is too short no write callback is left over that could write a `send_buff` still being filled (proved, section 6) |

Violated: what the code does differs from what a comment, a README or a status
text says of it. TLC prints the shortest behaviour. (T = `tof_net/examples/`,
N = `T/tof-net-viewer/src/ADINetworkToFStream.cpp`, W =
`ToF/sdk/src/connections/network/network.cpp`, S =
`ToF/apps/server/server.cpp`.)

| Configuration, module | Property | The code | The text |
|---|---|---|---|
| `MCMetadataCache.cfg`, `MCCalibration` (registered run) | `CalibrationIsOwn` | cached CCB and dealias files are sent without reading the module, and the cache is on by default (`T/tof-net-collect/src/main.cpp:615`, 92) | collector README:69, "Exports the current module CCB" after each connection |
| `MCWatchdog.cfg`, `TofNet` | `WatchdogArmed` | the `Stopped` that answers an earlier StopCapture arrives after the next StartCapture and clears the flags of the new capture, whose silence is then not noticed (N:822) | N:751, "timed out during capture" |
| `MCPatience.cfg`, `ViewerPatience` | `PlayKeepsConnection` | Play does not restart the silence clock: after five idle seconds the next empty poll can close a healthy connection (N:748) | `ADINetworkToFStream.h:74`, "without tearing down the already-established TCP connection" |
| `MCStalePeer.cfg`, `ViewerSystem` | `StalePeerDropped` | a cut inside a message leaves `recv_message` waiting without a limit, the silence test is not reached again (N:778) | N:751, "closing stale socket" |
| `MCCollectorClaims.cfg`, `CollectorSystem` | `SensorMatchesMode` | a failed `switchMode` leaves the new mode's controls on a sensor that goes on in the old one (`main.cpp:1110`) | `main.cpp:710`, "preserving all other initialization" |
| the same, with the other `INVARIANT` line | `DealiasForEveryMode` | only the current mode's table is exported by default (`main.cpp:508`) | collector README:70, "one `DealiasData` message per available frame type" |
| the same, with the other `INVARIANT` line | `IdleDeviceStopped` | a failed STREAMOFF is not looked at, the device streams on unread and refuses the next start (`main.cpp:1403`) | `main.cpp:1686`, "capture frame limit reached; camera stopped" |
| the same, with the `PROPERTY` line | `SignalEndsSetup` | a reconnected collector whose new connection the viewer has not accepted is blocked in a send, which retries after `EINTR` (`T/tof-net-common/src/socket.cpp:122`) | `main.cpp:98`, the handler that asks every loop to end |
| `MCFallbackCcb.cfg`, `MCCalibration` | `FallbackOnlyBefore` | `configure()` replaces the path of the received CCB by the local one until the next Play (N:513) | viewer README:133, "only a fallback until the live module CCB arrives" |
| `MCStaleTable.cfg`, `MCCalibration` | `TableIsOwn` | tables of an earlier connection pass the test when the export of the new one failed (N:2004) | N:2003, "Verify that dealias data for this mode was received" |
| `MCFirstFrame.cfg`, `FramePath` | `FirstFrameIsNew` | a frame of the capture before ends the wait for the first frame (N:1159) | N:1161, "First RAW frame arrived after StartCapture" |
| `MCPlaybackFrames.cfg`, `Playback` | `ShownIsOpen` | the frame that stopping wakes the thread for stays in the queue and is shown by the next playback (`ADIToFRecorder.cpp:170`) | `ADIController.h:115`, "Opens a currently saved recording and plays it back" |
| the same, with the other `INVARIANT` line | `FramesReadWhole` | the progress bar writes the position back without the 12 bytes of the header (`ADIMainWindow.cpp:1111`) | RAW Format.md:5 and :11 |
| `MCRewind.cfg`, `Playback` | `CanRewind` | with the bar at the end the position can pass the file; `eof()` then stays set and every frame is blank (`ADIToFRecorder.cpp:307`) | viewer README:93, "to rewind or fast-forward" |
| `MCPlaybackEnd.cfg`, `Playback` | `PlaybackFinishes` | the last frame is read again for ever, `m_playBackEofReached` is never set (`ADIToFRecorder.cpp:304`) | `ADIController.h:127`, "Flag indicating that playback has finished" |
| `MCRecordCount.cfg`, `Recorder` | `RecordingComplete` | `frameCtr` survives Stop Recording, the next recording is too short (`tof-viewer/src/ADIToFRecorder.cpp:121`) | tof-viewer README:75, "according to the chosen number of frames" |
| the same, with the `PROPERTY` line | `RecordingAlwaysEnds` | a record thread that finds its file not open ends without `m_finishRecording` (`tof-viewer/src/ADIToFRecorder.cpp:216`), and the flag is only looked at while two tree nodes are expanded (`tof-viewer/src/ADIMainWindow.cpp:519`, 606, 947) | tof-viewer README:75 |
| `MCRecordSize.cfg`, `Recorder` | `FramesFitHeader` | a frame left in `m_recordQueue` is the first of the next recording, perhaps of another size (`:223`) | RAW Format.md:11 |
| `MCOneClient.cfg`, `ServerSystem` | `OneClientAtATime` | two flags stand for all clients; two rejected ones overlapping clear that of the allowed one (S:315) | server README:6 |
| `MCGreeting.cfg`, `ServerSystem` | `GreetedFirst` | `m_frame_ready` survives a client that vanishes, and the next one is sent the old frame instead of the greeting (S:271) | W:202, "Wait for Server message to check another client" |
| the same, with the other `INVARIANT` line | `CleanExit` | `depthSensors` is not cleared by `cleanup_sensors()`; a sensor that was found and never opened is destroyed at exit, through a null pointer (S:68, `adsd3500_sensor.cpp:156`) | S:384, the clean-up before `return 0` |
| the same, with the `PROPERTY` line | `BlockedWhenCondemned` | the watchdog, held up between the flag (S:148) and the clock (S:154), ends a server whose GetFrame has just returned | S:159, "GetFrame has been blocked for" |
| `MCReplyShared.cfg`, `ServerSystem` | `ReplyAnswersRequest` | with two hosts, ESTABLISHED of one clears or replaces the reply of the other (S:200) | server README:6, W:303 |
| `MCLateReply.cfg`, `SdkNetwork` | `LateAnswerIsOwn` | a reply after the time limit is taken as the answer to the next call (W:309) | W:303 |
| `MCRetry.cfg`, `SdkNetwork` | `RetryReachesWire` | the write callback has cleared `send_buff`, so the retry writes nothing (W:329) | W:329, "Retry sending command" |
| the same, with the other property line | `SocketExists` | `web_socket` may become NULL between test and use (W:248) | W:530 |
| `MCDestructor.cfg`, `SdkNetwork` | `DestructorReturns` | the service thread has left its loop without the 2 the destructor waits for (W:580) | W:371, "Complete the thread if destructor is called" |

## 5. Fairness

Weak fairness stands for a scheduler that runs every thread; a blocking call is
a guard. What a user, a peer or a failure may do is never assumed to happen.

* `CollectorSystem`: the main thread, the capture thread, and the viewer's
  accepting and reading: a viewer that neither reads nor closes can hold A's
  capture thread in a send for ever, and `StopThreadReturns` is about A's own
  logic. The main thread is *not* assumed to leave `recv_message` on a
  connection that was cut silently, as nothing in the code makes it.
  `SignalEndsCollector` excludes the wait for a command: `recv_all` retries
  after `EINTR`, so a signal there has no effect until the viewer sends or
  closes. It also excludes a send of the greetings on a connection that the
  viewer has not accepted (`Unaccepted`): `send_all` retries likewise, and the
  viewer accepts only once it has let go of the connection before.
* `ViewerSystem`: worker and GUI thread. `PeerReads` is fair only so that the
  bound `CmdCap` does not block a send which in the code does not block.
* `Display`: the GUI inside its round and every worker; whether another frame
  is taken, Stop or the end of the window are the user's.
* `Playback`, `Recorder`: the threads, and the GUI's loop including the calls
  a click has begun (`PlayGoesOn`, `GoesOn`); the clicks themselves, expanding
  the tree among them, and failures of camera and files are open. The camera's frame may fail, but the call returns.
* `ServerSystem`: the watchdog's loop, the time stamp of a GetFrame, the restart
  by systemd, and time. Nothing is assumed of the calls into the driver, which
  may block for ever. Time passes at any moment, also between two reads of the
  watchdog.
* `SdkNetwork`: the application inside a call, its time limits and the service
  thread; nothing of the server. That the application calls again or hangs up
  is open.

## 6. Proofs

All theorems hold for every value of the constants that satisfies the named
assumptions of the module (`LinkAssumption`, `CollectorAssumption`,
`ViewerAssumption`, `CalibrationAssumption`, `FramePathAssumption`,
`DisplayAssumption`, `RecorderAssumption`, `PlaybackAssumption`,
`SdkAssumption`, `SensorAssumption`, `ServerAssumption`, `FaultsAssumption`),
which TLC evaluates in the runs. Where a property holds only under a condition
of its run (no metadata cache, one host at a time, `~Drag`), that condition is
a hypothesis of the theorem, and section 4 has the instance that breaks it.

`CollectorProofs`, for every set of modes and connections, all buffer sizes,
any frame limit and either setting of the options:

* `TypeCorrect`, `MainAlone`, `CameraIdle`: the invariants `TypeOK`,
  `MainAloneInHandlers`, `IdleCameraStopped`.

The argument is layered. `LocalInv` adds to the types of the collector's
variables that inside `stop_thread()` the return address is known
(`AfterKnown`, without which `Join` could go anywhere) and that a table is
exported only for a requested frame type (`ExportKnown`, without which a
message without a mode could be sent). With it `MainAloneInHandlers` is
inductive: a handler that must be alone is entered only through `Join`, and
`Spawn`, which starts a thread, leaves for the command loop.
`IdleCameraStopped` is not inductive: `CameraInv` says where the camera may
capture. In the command loop it does so only for a capture thread that either
still runs with its flag set or is about to stop the camera
(`StreamsForThread`); from `Join` to `start()` and outside the session it is
stopped (`StoppedInHandlers`); and a thread is spawned with its flag set
(`SpawnsRunning`), which needs `MainAloneInHandlers`, because only a capture
thread could have cleared the flag meanwhile. That is about `capturing_`. For
the device, `DeviceAgrees` says that it streams exactly when the camera object
captures or a STREAMOFF has failed since it was opened, so an idle device that
streams is one its driver has refused to stop.

and, in the second half, for the same constants:

* `ImplementsStream`: `ImplementsCaptureStream`, the refinement to
  `CaptureStream` under the mapping `Ftype`, `NextId`, `Last`.

Every step is an abstract step or a stutter. It needs three more invariants:
until it is announced, a capture is in the mode it was asked for
(`ModeRequested`); the capture thread holds a frame of the camera's mode
(`FrameOfMode`, which rests on `MainAloneInHandlers`, since `switchMode()` must
not run beside the thread); and nothing has been sent where there is no
connection (`SilentUnconnected`). A send then has one effect on the abstract
stream, whether the peer is there or not (`SendEffect`, `SilentEffect`), and
only `Announce` and `Farewell` open and close the stream.

`TofNetProofs`, for any modes, connections, buffer sizes and limits. The first
part is about both machines and every order of commands, cuts, reconnects and
losses of power:

* `StopStops`: `StopStopsCamera`; `ModesAgree`: `SettledModeAgrees`.

Both properties speak of the moment when every command has been carried out;
what makes them true is what is in flight before. `Asked(S)` says that the
last command on A's connection, or when there is none what the main thread is
doing (`Doing(S)`), leads to a camera that is stopped (its device too, unless
STREAMOFF failed) or runs in a mode of `S`. The earlier commands do not matter: `AskedStep` shows that taking one,
and every step of carrying it out, keeps `Asked(S)`, because the handlers of
StartCapture and StopCapture first stop the capture that runs. On B, `Wanted`
is the set of modes the GUI can still want where it is: none after Stop, the
played mode while it plays. The invariant ties the two: while both hold the
same connection, `Asked(Wanted)`. A reconnect is the difficult case. A
connection that A has made and B has not installed has carried no command
(`Untouched`, `NewToB`): the collector is doing nothing for it that the GUI
might no longer want. A connection is in the backlog once (`QueuedOnce`), and
a collector at rest neither streams nor has a thread (`CollectorRests`).

The second part is about Machine B's sockets:

* `OneOwner`: `OneOwnerOfClient`, in the whole system and against any peer
  (`ViewerSystem`, instantiated as `Alone`); `ClosedReleases`:
  `ClosedMeansReleased`, against any peer.

Both threads close sockets. `stop()` does so under the worker only with
`m_stopFlag` set (`FlagBeforeClose`), and leaves a connection alone that is
accepted and not yet installed (`InstallHolds`); a worker that has ended holds
no socket (`EndedReleased`), and the destructor returns after joining it
(`ClosedJoined`). The steps of the viewer are shown to keep this once; whoever
is at the other end touches only the backlog (`PeerStep`).

`CalibrationProofs`, for any camera modules, frame types and number of messages
in flight:

* `OwnCalibration`: `CalibrationIsOwn`, under the conditions of the run: a
  received file is configured, no metadata cache, exports succeed;
* `CurrentTofi`: `TofiIsCurrent`, without conditions.

A calibration may be on the wire behind a frame of the session before, so the
invariant speaks of positions in the wire: for every frame in flight, reading
up to it leaves the tables of its module in place (`FramesKnown`), and so does
reading everything for the frame A sends next (`SentCcb`, `SentTables`).
`Known` is preserved by appending a message and by reading the first one; these
lemmas carry the proof.

`FramePathProofs`, for any number of captures, frames and messages and any
save limit:

* `SessionsConsistent`: `SessionConsistent`; `DisplayInOrder`: `ShownInOrder`.

All frames stand in one order along the stations shown, queued, handled by the
worker, in flight, sent next, captures asked for (`Displayed`, `Queued`,
`Handled`, `InFlight`, `Commands`); a step moves a frame to the station before
and overtakes nobody. Saved frames are older than the one at hand; the index of
an open session has not been used (`Saved`), and every index below it has
(`Used`, `Filled`). Neither theorem says which capture a frame belongs to.

`DisplayProofs`, for any finite set of images:

* `BarrierSynchronizes`: `ImagesMatch`; `FrameProtected`: `FrameStable`.

The argument counts. A worker owes a drawing while its image is available or
it is between taking and counting (`Pending`). Between publication and barrier
`Cardinality(Pending) + waitKeyBarrier = numOfThreads`, so when the GUI passes,
with the count at `numOfThreads`, nobody owes anything; and outside that
interval `Pending` is empty, so the frame can be replaced. The finite-set
theorems on adding and removing one element carry the induction.

`SdkProofs`, for any number of calls and retries:

* `NoRequestTwice`: `OnceOnWire`, with a server that may answer at any time.
  The invariant is about who may still be written: only what `send_buff` holds,
  which belongs to a call already made and has not been written (`Unwritten`),
  while calls not yet made have not been written either (`Unmade`);
* `OwnAnswer`: `AnswerIsOwn`; `ImplementsCall`: `ImplementsRemoteCall`, the
  refinement to `RemoteCall`; `WholeRequests`: `WrittenWhole`. They speak of
  the time before `late`, the first wait that ends with its answer still to
  come (`MCLateReply.cfg` shows what happens after it). The invariant is
  `InTimeInv`: once late, always late (`LateStays`), and until then at most one
  message is on its way, the request, its reply or the reply in `recv_buff`, it
  belongs to the current call, and the application is waiting for it or about
  to (`AnswerDue`, `OneMessage`). No write callback is left over by a call that
  gave up in time (`NoLeftover`), hence none writes what the application
  thread is filling. What a connection that is cut leaves behind (a set
  `Send_Successful`) can make a call wait for a reply that never comes, but not
  succeed (`SendOwn`, `SentOwn` speak of the open link only).

`ServerProofs`, for any connections, limits, buffers and frame types, and
whatever hosts, driver and failures do:

* `NoFalseAlarm`: `WatchdogJustified`. The watchdog reads the flag, the start
  time and the clock; a GetFrame may end, the next one begin and time pass in
  between. The invariant ties the clock to the frame being served
  (`ClockTrue`), the flag to the section that sets it (`FlagTrue`), and what the
  watchdog is about to compare to the age of the GetFrame it saw in progress
  (`MeasureTrue`). What is proved is that this GetFrame began longer ago than
  the limit, not that it is still blocked: `BlockedWhenCondemned` (section 4)
  is false.

* `BuffersAccounted`: `StreamHasItsBuffers`; `FullStreamTyped`:
  `FullStreamHasItsType`. `start()` fails when it queues a buffer the driver
  already has, so the invariant says where a buffer may be: nowhere without a
  queue (`NoQueue`), in one place at a time and within what is mapped
  (`OnePlace`), in a GetFrame only while one is served (`HeldOnce`). All
  buffers are mapped only by a `setFrameType()` that succeeded (`FullHasType`).

* `OwnReply`: `ReplyAnswersRequest`; `NoNullSensor`: `SensorBehindRequest`,
  both for hosts that come one after the other (`OneHost`; with two at a time
  the first is false, `MCReplyShared.cfg`). For a single host a request is in
  one place at a time: on its way, being served, answered in the shared buffer
  and due to be written, or answered and on its way back (`OneAtATime`). The
  buffer and its flags outlive the connection, so the invariant also says what
  the next host meets: `Greets` (the greeting, or the rejection, is due before
  anything else), `Denied`, `Ready` and `Waits` tie what the host is doing to
  the flags. `NoNullSensor` adds what the server knows of the sensor: an opened
  sensor stays until HangUp or a restart (`NeverOpened`, `StageTrue`), and a
  host that asks to open what it found before a restart is the only way to a
  null sensor (`FoundDue`, `CrashedBy`).

`RecordingProofs`, for any modes, recordings and bounds:

* `JoinedFirst`: `ThreadsJoined`; `NoFrameTooMany`: `NeverTooMany` of
  `Recorder`, also when the mode is changed during a recording. A handler of
  the GUI is a list of calls still to be made (`todo`), and what all lists have
  in common is an order (`Ordered`): a capture is started first or right behind
  its join, a recording only by the calls that follow Play. So a thread that
  has to be joined is either gone, or its join stands in `todo`
  (`CaptureJoined`, `RecordJoined`). `Counted` says that the record thread,
  between asking the count and writing, is below the limit, and that the count
  is never less than what is in the file, although it survives a stop.
* `FrameComes`: `FrameComing`, and `NeverSkips`: `NoFrameSkipped`, of
  `Playback`. A frame is queued, asked for or being read unless the GUI is about
  to ask for one (`FrameDue`). The order of the frames rests on the position,
  which both threads write without a lock: it is always the one read last or
  the next (`Steady`), because the progress bar writes back a value it has read
  before at most one advance of the thread (`BarTrue`), and a request is taken
  before the next is made (`OneRequest`). `NeverSkips` assumes that nobody
  drags the bar, since dragging is meant to skip.

Only model-checked: liveness, since fairness and ENABLED are out of the
prover's reach. Every safety invariant, action property and refinement that a
passing run checks is also a theorem, under the conditions of the run. The type
invariants of the other modules are defined beside their specifications, as a
reader's guide to the variables; the collector's is checked and proved, the
others enter the proofs as far as they are needed (`Typed`, `SensorTyped`,
`RecTyped`, `PlayTyped`).

## 7. What is not modelled, and why

* Bytes of messages and files, compression, header packing, INI and option
  parsing, names of sessions, `camera.json`: data the properties do not tell
  apart.
* Depth arithmetic: the closed TOFI library. Only what it is called with is
  modelled.
* Register and control values of the sensor, the ADSD3500 chip protocol: the
  server's requests that carry them are one action. The collector's own V4L
  exchange (`main.cpp:1394`, a buffer queued a second time by a catch block) is
  the outcome of `get_frame`; `SensorV4l` models that of the SDK's sensor,
  which the server uses.
* The thread of the GUI that opens the camera and calls `start()` (N:532), and
  a second Open Device before the first has set `m_running`.
* `prepareCamera` succeeds (`Recorder`); the `.bin` file per frame, Refresh,
  Reset and the destructor of the recorder are left out. In tof-net-viewer the
  capture thread never runs on a network stream, hence `Recorder` is the
  recording of tof-viewer and `Playback` the playback of tof-net-viewer; the
  file `ADIToFRecorder.cpp` is the same in both.
* On Linux and macOS the file dialogs of both viewers always return filter
  index 0 (`ADIOpenFile.cpp:180`, 204, 283, 314), so recording and playback as
  modelled are reached in the Windows build only. A file that cannot be read
  ends the viewer with a division by zero (`OpenUnreadable`, "crashed"); a read
  that fails later only gives a blank frame.
* Arguments of a call that failed in `SendCommand` stay in `send_buff` and are
  sent with the next one: a request is the number of its call.
* Workers that return early on an image of size zero: neither the network
  stream nor the SDK produces one.
* Rendering, pixel conversion, OpenGL, file dialogs.
* The rest of the SDK (camera classes, depth glue, USB and offline sensors,
  bindings, examples): sequential code around the parts above. Kernel drivers,
  deploy scripts, glog, protobuf, libwebsockets: vendored or generated. They are
  most of the repository's lines.

What could come next: the collector's V4L exchange over `SensorV4l`; a
composition of `SdkNetwork` with `FrameServer`; a whole-system proof that a
frame shown was computed with the calibration of its module, over `TofNet` and
`Calibration` together.
