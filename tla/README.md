# Formal models of video_call

TLA+ models of the parts of this program that run concurrently or depend on the
network, TLC runs that check them on small instances, and TLAPS proofs of what
matters most for all instances. Definitions keep the names of the source; the
comment before each property names the code it is about. `PROJECT.json` says for
every definition which lines it models (`map`), what each run checks (`runs`),
which change of the code breaks each property (`mutants`, defined in the modules as
`<definition>_<change>`), and what is hard to test where (`hazards`).

Run TLC on a module with its configuration, e.g.
`tlc -config CameraSession.cfg CameraSession.tla` (the module of each configuration is
in the list of runs); prove with `tlapm` any of the modules `*_proofs`, e.g.
`tlapm CameraSession_proofs.tla`.

## 1. The system

Two instances of the program exchange JPEG video and PCM audio over UDP. Each is
one process with four threads: the **GUI thread** (`MainWindow`, `VideoUdpTransport`,
`VideoFrameReassembler`), the **camera thread** (`CameraWorker`), the **audio thread**
(`AudioWorker`, `AudioUdpTransport`, `AudioJitterBuffer`) and the **decoder thread**
(`RemoteVideoDecoder`). Threads share no data. They talk through Qt queued
connections: a signal is an event in the receiver's queue, queues are FIFO per sender
and receiver, and a handler runs to its end before the next. So one handler is one
action of the models, and a pair of threads is two sequences, `requests` and `events`
(or `results`). Blocking queued calls occur only in the shutdown.

| Component | State | Operations | Talks to | What is hard | What makes it correct |
|---|---|---|---|---|---|
| Remote decoding (`MainWindow`, `RemoteVideoDecoder`) | receive generation, busy flag, one waiting frame, frame on display | frame received, decode begun/ended, result handled, network applied/stopped, shutdown | reassembled frames in, two event queues | results of an earlier configuration; frames arriving during a decode; blocking shutdown | one decode at a time, the newest waits, nothing stale is shown, the newest frame is settled in the end |
| `VideoFrameReassembler` | pending frames, byte counter | `addDatagram`, `removeExpiredFrames`, `clear` | called by the transport, which passes the time | datagrams of anyone, contradicting, repeated, late; limits and eviction | limits hold, counters are true, a completed frame is of one frame only |
| `VideoUdpTransport`, `VideoPacketProtocol` | next frame id, peer, socket, reassembler, pacing deadline | send a frame, read datagrams, bind, close, clean up, pace | peer over UDP; GUI handlers | a send that fails half-way; loss, repetition, reordering; sizes at fragment boundaries; a sender held up between its waits | received is what was sent, once; nothing written and delivered is lost; no bursts, no long waits |
| Camera and sending (`MainWindow`, `CameraWorker`) | window: camera, network and sending flags, buttons; worker: camera, encoder, latest picture, serials, failure counter | start/stop camera, apply/stop network, start/stop sending, capture, encode, errors | two event queues; transport | signals that cross: errors, stops and new starts | sending stops with camera and network, both sides agree, pictures in order, clicks answered |
| `AudioUdpTransport`, `AudioPacketProtocol` | socket, peer | send a packet, read datagrams, check their source and header | peer over UDP; `AudioWorker` | datagrams of strangers and malformed ones among the peer's | only the peer's packets get through |
| `AudioJitterBuffer` | packets by sequence, session, next sequence, playing flag, missing counter | insert, take next, clear | called by `AudioWorker` every 20 ms and per packet | loss, reordering, repetition, a new session of the peer, wrap of the sequence past the reserved 0 | in order, no replay, bounded, recovers |
| Audio session (`MainWindow`, `AudioWorker`) | window: settings valid, running, buttons; worker: network ready, running | apply settings, start, stop, device errors, failed sends | two event queues | answers to earlier requests; partial failures | panel tells the truth, clicks answered, audio only over a bound socket |
| Audio capture and playback buffers (`AudioWorker`) | bytes captured, bytes waiting for the sink, next sequence and timestamp | ready-read, send, playout tick, start, stop | devices, transport | partial writes, cuts at the limit, numbers that wrap | whole packets, numbered without a gap, every byte sent, played, waiting or counted as overrun |
| Shutdown (`MainWindow::shutdownAll`) | completion and entry flags, a pointer per worker and thread | disconnect, then for each worker blocking `shutdown`, `quit`, `wait`, delete | all threads | everyone waiting; two callers; what is queued on either side when it begins | returns, each worker destroyed once, nothing revived |
| Codecs, frame-rate rounding, labels, test frames, command line, Python tools, packaging | none, or none that others depend on | | | | |

### Plan

The plan orders the parts by what a fault costs the user and how hard it is to see in
a test. All of it is done.

1. `RemoteDecode` against the abstract `NewestFrameView`; proofs of its safety.
2. `AudioJitterBuffer` under any caller; composed with both ends of the transport and a faulty
   network (`AudioStream`) and with a peer that keeps time (`AudioSteadyStream`).
3. `VideoFrameReassembler` under any datagrams.
4. `AudioSession`: window and worker through both queues.
5. `VideoLink`: sender, network and the reassembler of 3, against the abstract `FrameChannel`.
6. `CameraSession`: window and worker through both queues.
7. `Shutdown` of all three workers against the abstract `OrderlyExit`.
8. The small sequential parts with arithmetic of their own: `AudioBuffers`, `DatagramPacer`.
9. Proofs of the safety of 1, 2, 4, 6, 7 and 8.
10. Proofs of the safety of 3 and, on top of them, of 5 and of its steps as steps of `FrameChannel`.
11. Proof of the safety of `AudioSteadyStream`.

## 2. Modules

`RemoteDecode` has the GUI thread's receive side and the decoder thread. A frame is a
record of its generation, serial (the order of arrival) and sender; pictures are left
out. `OnUdpFrameReceived` is the whole handler with the source check and
`ScheduleRemoteJpegDecode`; `ApplyNetworkSettings`, `RejectNetworkSettings`,
`StopNetwork` all contain `ResetRemoteReceiveState`; results are handled by
`OnRemoteFrameDecoded` and `OnRemoteFrameDecodeFailed`, both of which contain
`CompleteRemoteJpegDecode`. `ShutdownAll` drops the connections and its later steps
are actions of their own because the decoder runs between them; `phase` says where
the GUI thread waits. `DeleteDecoderThread` takes it that the worker was destroyed at the
thread's end, which is what Qt does with `deleteLater` at `QThread::finished`.
`NewestFrameView` is what a user is promised: frames offered in order are settled (shown,
failed or discarded) in order, only the current configuration's are shown, and in the
end the newest is settled. `RemoteDecodeMC` has the instance's peers.

`AudioJitterBuffer` is the class. The sequence space is a constant, its arithmetic
modular with 0 reserved, as in the code. `TakeNextPacket` has one disjunct per outcome.
Its `Next` inserts any packet at any time; no run needs that, as the proofs cover it.

`AudioStream` extends it with what feeds it. Each of two sessions of the peer numbers its packets
and sends them once; the network loses, repeats and delays them by up to `ReorderWindow`;
`Stray` are datagrams of others, and of the peer with a header no packet has. `ReadPendingDatagram`
is `readPendingDatagrams` with `parseAudioPacket`, the comparison of the source, and the
worker's handler, which ignores packets unless audio runs on this side. `StartOrStop` is
this side's user. A datagram is a record of the fields that vary, whether the constant ones are
right being one Boolean. The assumption `SessionsEnd` bounds a session to less than half the sequence
space, which 2^32 numbers at 20 ms reach after 497 days.

`AudioSteadyStream` extends the buffer with one session and the clock: one packet and one
tick a period, delays of at most `MaxDelay` ticks, losses. It goes round the sequence space for ever.
The assumption `DelayIsCovered` says which delays the prebuffer is for: those shorter than it, so up to 2 ticks
with the code's 3 packets; the capacity of 10, the jump of 1000 and half the 2^32 sequences are well above what then waits.

`AudioBuffers` has the byte buffers on either side of the jitter buffer: `OnInputReadyRead` takes any number of bytes, cuts
packets from the capture buffer, and numbers them, whether the
transport can send them or not; `PlayoutPacket` adds a packet and offers the sink what waits, of which it takes any part. A byte is its
number in the stream. `DatagramPacer` is `paceDatagram` with a thread that may be held up before,
within and after its wait; a slot is the time a datagram takes on the paced line. `SmallPartsMC`
puts these two independent components side by side in one run.

`VideoFrameReassembler` is the class, with the caller's clock. A payload is its size and a
number for its content. Removing the oldest frames one by one until the new one fits
is one `Evict`: the smallest that is enough of the sets that one-by-one removal passes through. Sums of
bytes are counted unit by unit (`Total`), as a sum by recursion could not be proved about.
`VideoFrameReassemblerMC` has two frames of two fragments, one of three, and datagrams that contradict
them.

`VideoLink` extends it with the sender. One `SendEncodedFrame` is the call: a frame is
cut, and any number of its fragments is written before an error. A failed send keeps
the frame id. The fragments in `network` arrive in any order, are lost or repeated.
The model takes it that a send after a failed one falls into a later millisecond:
a failure ends continuous sending (`onUdpNetworkError`) until the user clicks. The history begins
with a sender at any id (`FirstFrameId`), one that has sent frames before, so that ids wrap past the
reserved 0 within it; `IdsAssumption` keeps them from coming round to those the history has used, which at 30
frames a second takes more than four years. The
sender's wall clock and the receiver's monotonic one are one clock here, so a wall
clock set back while a frame is under way is outside the model. `FrameChannel` is what
the two ends are promised: frames may be lost or overtake one another, but what comes out was put in whole, and
comes out once unless the network repeats datagrams.

`AudioSession` and `CameraSession` each have the window's and the worker's half of a
feature with the queues between them. Buttons are part of the state: a click happens only when its
button is enabled, and many properties depend on just that. Devices and sockets
succeed or fail at will. `CameraSession` numbers the pictures to follow them from
capture to sending. A `VideoCapture` that cannot be opened by any backend is one
failure. Left out: `m_cameraOpening` and the diagnostics it gates, statistics, test
frames apart from their button. A device that changes its state inside the call that
starts it, so that the handler nests, is not modelled.

`Shutdown` reduces each of the three workers to the device it holds, its `m_shutdown` and its queue, and
has every step of `shutdownAll`, from `closeEvent`, the destructor or both. The GUI thread stops at
each blocking call (`step` is "blocked") and each `wait`; meanwhile workers serve what was queued
before, timers fire and devices fail. Events queued before the disconnection are still handled
if the event loop runs again after `closeEvent`. `OrderlyExit` is the promise: workers are
destroyed one by one, each once, only after closing has begun, and when the last is gone
`shutdownCompleted` says so, once, with TRUE.

## 3. Runs

| Run (module) | Shows | Bounds, and why they are enough |
|---|---|---|
| RemoteDecode (`RemoteDecodeMC`) | `OneOutstandingDecode`, `NoStaleDisplay`, `PendingIsNewest`, `NothingHandledTwice`; that the threads implement `NewestFrameView` with its liveness (`ImplementsView`) | 2 senders, 4 frames, 3 reconfigurations or the shutdown. A frame each decoding, waiting, replaced and stale; a result two configurations old. |
| AudioStream (`AudioStreamMC`) | `BufferBounded`, `PlaybackConsistent`, `OverflowDropsFarthest` of the buffer; `NothingBehindPlayback`, `OneSessionBuffered`, `PlayedInOrder` | 8 packets of each of 2 sessions from sequence 18 of 22, so that both wrap; packets up to 4 behind the newest; limits of 2 and 3, rebuffer after 2, jump of 4: every overflow, jump, rewind and rebuffer occurs. A datagram of a stranger, one without a session. |
| AudioStreamReplay (`AudioStreamMC`) | `NoReplay` is violated | The code's prebuffer, capacity and threshold; 3 packets. |
| AudioSteadyStream (`AudioSteadyStreamMC`) | `PrebufferAbsorbsDelay`, `PlaybackRecovers` | Limits scaled down (prebuffer 2, capacity 4, threshold 3, jump of 4) and delays of up to 1 period, the most that 2 prebuffered packets cover, as the code's 3 cover 2; outages up to 8 of 32 sequences, so that playback may trail by more than the jump. |
| VideoFrameReassembler (`VideoFrameReassemblerMC`) | `WithinLimits` (with the byte account), `CompletedIntact`, `EvictsOldestFirst` (and that frames only grow otherwise) | 3 frames for 2 places and 4 bytes, timeout of 1 in a time of 3: both kinds of eviction, of one frame and of two, expiry, each contradiction, a frame completed twice with the same content. |
| VideoLink (`VideoLinkMC`) | `SentIsParsable`, `WrittenIsReceived`; that sender, network and receiver implement `FrameChannel` (`ImplementsChannel`) | 3 sends: one that fails, one that takes over its id, one after it. Ids begin at 3, the last, so that they wrap. Sizes of one full payload, one and a half, and too large. One datagram lost or repeated, or one close. Room for all 3 frames: eviction is the run above. |
| AudioSession (`AudioSession`) | `PanelClaimsNothing`, `PanelKnowsAudio`, `ClicksAreAnswered` | 5 signals under way when the user clicks or a device fails: a click, its answer and a device error's two signals cross. 1 failed send. |
| AudioInvalidSettings (`AudioSession`) | `ApplyStopsAudio` is violated | 2 signals. |
| AudioStaleReady (`AudioSession`) | `StartNeedsBind` is violated | 3 signals: two requests and the first one's answer. |
| CameraSession (`CameraSession`) | `NothingOutlivesCamera`, `ControlsMatch`, `SidesAgree`, `SentInOrder`, `ClicksAreAnswered` | 4 signals under way when something new happens, 3 pictures, 2 failed reads in place of 10. A camera error's two signals cross two clicks; a picture waits, one is encoded, one is sent. |
| Shutdown (`Shutdown`) | `ReleasedForGood`, `WindowStaysClosed`; that the threads implement `OrderlyExit` with its liveness (`ImplementsOrderlyExit`) | 2 requests queued for each worker and 2 events for the window when closing begins: a start behind a stop, a device's error behind an answer. |
| SmallParts (`SmallPartsMC`) | `PacketsWhole`, `CaptureAccounted`, `PlaybackAccounted`; `NoBurst`, `WaitsForOneAtMost` | Packets of 3 bytes, room for 2, 15 bytes captured, numbers that wrap at 4: five packets, cuts and partial writes at every offset. 4 datagrams of 2 sizes within 10 units of time. |

`TypeOK` is checked in the runs of the modules that state one. The bounds on signals, requests and events stand for
nothing in the code (Qt's queues are unbounded); they only keep new clicks and
pictures from happening while many signals are under way, and the proofs do without them.

### Fairness

Only threads' event loops are fair: `WF` of handling the next event or request, of the decoder's running
call to return, of the steps of the shutdown. Each loop is one fair unit, as its
handlers are served in the order of the queue; in `Shutdown` a unit is straight-line code in the GUI thread (`Closing`)
and each worker's loop (`Runs`). The user, the devices and the network owe
nothing, except in `AudioSteadyStream`, which is about a network that delivers and two running timers;
the premise of `PlaybackRecovers` says that losses end and packets are on time from then on.

### What the runs found

* `AudioStreamReplay`: README.md:97 says late and repeated packets are dropped. After five
  missing packets `m_playing` is false, nothing counts as late then, and
  `insertPacket` moves the start of playback back to packets already played.
* `AudioInvalidSettings`: README.md:101 says that applying the settings stops the audio.
  Invalid settings disable both buttons and return; the worker goes on sending
  and playing.
* `AudioStaleReady`: README.md:101 says that audio can be started after a successful bind
  only. `audioNetworkReady` of an earlier request, handled after the settings were
  applied again, enables Start, and the second bind's error does not disable it.

Limits of what holds, written into the properties themselves:

* A failed audio send is reported like the end of the audio. The panel then shows it as
  stopped while the worker goes on, and a start is ignored by the running
  worker (`audioworker.cpp:132`), which leaves both buttons disabled. `PanelKnowsAudio` and
  `ClicksAreAnswered` of `AudioSession` except this; `PanelClaimsNothing` does not.
* A failed video send costs the next frame as well if that follows within the 500 ms:
  it takes over the id, and the two frames' fragments contradict each other.
  `WrittenIsReceived` excepts exactly that frame.
* A late packet of an earlier session resets the jitter buffer to that session, and the next
  packet of the current one back again (`audiojitterbuffer.cpp:27`). What was buffered is lost, and packets
  still under way may be played again. `PlayedInOrder` speaks of the time between such resets, and
  `OneSessionBuffered` says that no two sessions mix.
* After an outage playback resumes at the number it stopped at: it plays silence for the
  numbers lost, rebuffers, and trails the peer farther each time, until the jump
  check at 1000 packets starts it afresh. `PlaybackRecovers` says that this ends
  when packets are on time. That losses end is not enough: playback with no packet in
  hand conceals each one that is late, drops it when it comes, and may never miss
  enough of them in a row to rebuffer.
* A picture encoded before sending was stopped is sent if sending has been started again
  when it arrives. `SentInOrder` holds nevertheless.
* `CameraWorker` does not note its shutdown as the two other workers do. `ReleasedForGood` holds
  since the call of `shutdown` is the last request of its queue.
* "At least 126.6 microseconds" between datagrams (README.md:304) holds of the pacer's releases
  (`NoBurst`). A thread held up between its release and its write may write two adjacent datagrams.
* Two hazards have no property: a picture of an earlier sending session (`mainwindow.cpp:1000`), and
  strangers' fragments that take the reassembler's places (`mainwindow.cpp:854`). Nothing in the repository
  says what should happen.

## 4. Proofs

Each theorem is of the form `Spec => []Invariant` (or an action property, or the refinement of a
safety specification) and holds for every value of the constants under the module's named assumptions, which say
no more than that bounds are numbers, special values differ, and limits are positive unless noted below. The
invariants are not inductive by themselves; each proof module defines the strengthening, `IInv`.

| Module | Theorems | What the inductive invariant adds |
|---|---|---|
| `RemoteDecode_proofs` | `TypeCorrect`, `OneDecodeAtATime`, `DisplayIsCurrent`, `WaitingIsNewest`, `NothingTwice`; `ViewRefined` (every step is one of `NewestFrameView` or leaves it as it is) | That a result may be shown rests on its generation, that it is the only one on the busy flag's truth, which a reset must not clear. `UnderwayFits`: every frame in the queues or the decoder is of the generation it claims, from that generation's peer, no newer than the last arrived and newer than the last handled. |
| `AudioStream_proofs` on the buffer alone | `TypeCorrect`, `NeverOverfull`, `PlaybackFitsTogether`, `MakesRoomAtTheEnd`, for any calls | The three invariants are inductive together. That there is a farthest packet, and that it alone is dropped, comes from the well-foundedness of the distances. |
| `AudioStream_proofs` on the stream | `SessionsNotMixed`, `NothingLeftBehind`, `InOrder` | `Aligned` replaces sequences by positions in the session: the next sequence is that of a position no buffered packet lies behind, and which concealing has taken at most a threshold past the last packet. Lemmas on remainders (`Gap`, `EarlierIsLess`, `LaterIsNotLess`) turn modular comparisons into comparisons of positions. Needs `SessionsEnd`. |
| `AudioStream_proofs` on the steady stream | `DelayIsAbsorbed` | `OnSchedule`, in numbers of packets sent, while none is lost. Before playback (`Filling`) all that was sent is buffered or under way, and the first that is buffered is where playback will start; in playback (`Trailing`) it is the prebuffer or more behind the peer, and so by more than a delay. Either way what waits fits the buffer (`AtMost`, `AtLeast`) and compares as it was sent (`OneOfStretch`), so nothing is taken for late or for a jump however often the sequence wraps. Needs `DelayIsCovered`, not `SessionsEnd`. |
| `VideoFrameReassembler_proofs` | `ReassemblerTypes`, `LimitsHold`, `FramesIntact`, `OldestEvictedFirst`, for any datagrams and any limits that leave room for one frame of the largest size, as the code's do | `StoreSound`: every counter is the sum of what it counts, and the bytes of a frame never exceed its size. What a frame holds is accounted for by the datagrams it may come from (`Origins`), which a completed frame inherits. `EvictTakesLeast`: there is a set of oldest frames that is enough, since all but the protected one are, and the one taken leaves a store within the limits. `TotalOfParts`: a sum over two disjoint parts is the sum of the sums. |
| `VideoLink_proofs` | `AllIsParsable`; `LinkIsChannel` (`LinkSpec` implements `FrameChannel`, which has no liveness); `EverythingArrives` | `LinkInv` joins sender and receiver: a datagram under way or held is one of those an attempt has written (`Around`), two attempts share an id only if the earlier one failed and was at an earlier time (`IdsApart`), so that a timestamp tells them apart, the next id is that of no frame written whole (`NextIdFresh`: ids less than a round apart differ, across the wrap), and, unless the network repeats, no datagram is in two places (`NothingTwice`). `NothingLost`, for the third: what was written whole is delivered or is around with all its datagrams. |
| `AudioSession_proofs` | `TypeCorrect`, `ClaimsNothingFalse`, `KnowsWhatRuns` | The last event under way is what the window will go by: `ClaimsTruly` and `WillKnow` relate it to the worker's state. Both are about audio; `KnowsWhatRuns` speaks of the time when `m_audioNetworkSettingsValid` is set, as after invalid settings the panel is wrong (`AudioInvalidSettings`). |
| `CameraSession_proofs` | `TypeCorrect`, `CameraEndsAll`, `ButtonsMatch`, `AgreeWhenQuiet`, `InOrderOnce` | `Outcome`: of the elements of a queue that decide something the last decides it. The last of the requests about the encoder agrees with the window (`EncoderAgrees`), the last answer about the camera with the worker (`CameraAgrees`). `QueueInOrder` and `EncoderInOrder`: the picture to be encoded is newer than those under way, and these than those sent. |
| `SmallParts_proofs` on `AudioBuffers` | `PacketsAlwaysWhole`, `CaptureIsAccounted`, `PlaybackIsAccounted` | `CaptureInv`: the capture buffer starts where the packets sent and dropped end, and the next numbers are those of the packets sent so far. The playback side is inductive with its types. |
| `SmallParts_proofs` on `DatagramPacer` | `NeverABurst`, `ShortWaits` | `PacerInv`: the deadline lies the last datagram's time after its release or later, and what has been written is spaced by it. |
| `Shutdown_proofs` | `DevicesStayReleased`, `NothingRevivesTheWindow`; `ExitsInOrder` (every step is one of `OrderlyExit` or leaves it as it is) | `Order` and `Progress`: where `shutdownAll` is says which workers have been shut down, told to quit and deleted. `Queues`: a call of `shutdown` is the last request of its queue and nothing comes after it. |

Each proof has a lemma per action or group of actions, with a step per conjunct it can disturb; lemmas
about queues (`Joined`, `Shortened`, `Extended`), remainders and multiples are stated once in the module that needs them.

`EverythingArrives` has one hypothesis beside the assumptions, `Room`: the receiver has places and bytes for
as many frames of the largest size as are sent. Without it frames are evicted, and `WrittenIsReceived` fails: it is a property of a
link whose receiver keeps up, and the run gives it just that room. The code's limits have room for 4 frames of the largest
size, or for 16 of up to 1 MiB.

Only model-checked: the liveness half of `ImplementsView` and of `ImplementsOrderlyExit`, `PlaybackRecovers` and the two
`ClicksAreAnswered` (liveness under fairness, as `ENABLED`, is out of the prover's reach). Every other
property of a run that passes is a theorem. No module uses `RECURSIVE`.

## 5. Not modelled

`JpegFrameDecoder` and `JpegFrameEncoder` (stateless calls of OpenCV, which succeed or fail),
`VideoFrameRateUtils` (one rounded division), `VideoDisplayLabel` and the layout, test frames, the
command line's scenarios, the Python receivers, build and packaging: no interaction, or covered by
their unit tests. The byte layout of the two headers is left out of `VideoPacketProtocol` and
`AudioPacketProtocol`, and so are statistics, diagnostics and status texts everywhere.
