--------------------------- MODULE CameraSession ----------------------------
(***************************************************************************)
(* The local camera and the continuous sending of its pictures: MainWindow *)
(* (GUI thread) and CameraWorker (its own thread) talk through queued      *)
(* signals, requests one way and events the other, each in order.          *)
(* Diagnostics, statistics and the shutdown are left out.                  *)
(***************************************************************************)
EXTENDS Naturals, Sequences

CONSTANTS
  MaxConsecutiveReadFailures,   \* 10
  CaptureBound,                 \* bound: pictures taken
  QueueBound                    \* bound: signals under way when something new happens

ASSUME LimitsAssumption ==
  /\ MaxConsecutiveReadFailures \in Nat \ {0}
  /\ CaptureBound \in Nat /\ QueueBound \in Nat

VARIABLES
  m_cameraRunning, m_videoSending, m_networkSettingsValid,    \* MainWindow
  m_lastFrame,              \* whether a picture is shown
  cameraButtons,            \* those enabled of "start" and "stop"
  sendButtons,              \* those enabled of "start", "stop" and "test"
  m_running, m_consecutiveReadFailures,                       \* CameraWorker
  m_videoEncodingEnabled, m_encodeFirstFrameImmediately,
  m_latestBgrFrame,         \* number of the picture to be encoded, 0 if none
  m_latestFrameSerial, m_lastEncodedFrameSerial,
  m_lastVideoEncodingError, \* whether an encoding error has been reported
  captured,                 \* pictures taken so far
  sent,                     \* history: the pictures sent
  requests, events

windowVars == <<m_cameraRunning, m_videoSending, m_networkSettingsValid, m_lastFrame,
                cameraButtons, sendButtons, sent>>
encoderVars == <<m_videoEncodingEnabled, m_encodeFirstFrameImmediately, m_latestBgrFrame,
                 m_latestFrameSerial, m_lastEncodedFrameSerial, m_lastVideoEncodingError>>
captureVars == <<m_running, m_consecutiveReadFailures, captured>>
workerVars == <<captureVars, encoderVars>>
vars == <<windowVars, workerVars, requests, events>>

Init ==
  /\ m_cameraRunning = FALSE /\ m_videoSending = FALSE
  /\ m_networkSettingsValid = FALSE /\ m_lastFrame = FALSE
  /\ cameraButtons = {"start"} /\ sendButtons = {}
  /\ m_running = FALSE /\ m_consecutiveReadFailures = 0
  /\ m_videoEncodingEnabled = FALSE /\ m_encodeFirstFrameImmediately = FALSE
  /\ m_latestBgrFrame = 0 /\ m_latestFrameSerial = 0 /\ m_lastEncodedFrameSerial = 0
  /\ m_lastVideoEncodingError = FALSE
  /\ captured = 0 /\ sent = <<>>
  /\ requests = <<>> /\ events = <<>>
-----------------------------------------------------------------------------
(* What the window's handlers share. *)

Room == Len(requests) + Len(events) < QueueBound

UpdateVideoSendUi ==
  LET udpReady == m_networkSettingsValid'
  IN sendButtons' = IF m_videoSending' THEN {"stop"}
                    ELSE {b \in {"start", "test"} :
                            udpReady /\ (b = "start" => m_cameraRunning')}

\* Mutant: the encoder is not told.
StopVideoSendingAnd_Silent(request) ==
  /\ m_videoSending' = FALSE
  /\ requests' = requests \o request
  /\ UpdateVideoSendUi

\* stopVideoSending, with what the handler itself then asks of the worker.
StopVideoSendingAnd(request) ==
  /\ m_videoSending' = FALSE
  /\ requests' = requests \o (IF m_videoSending THEN <<"stopEncoding">> ELSE <<>>)
                          \o request
  /\ UpdateVideoSendUi

StopVideoSending == StopVideoSendingAnd(<<>>)
-----------------------------------------------------------------------------
(* The user clicks. *)

Click ==
  /\ Room
  /\ UNCHANGED <<workerVars, events, sent>>

OnStartCameraClicked ==
  /\ Click
  /\ "start" \in cameraButtons
  /\ m_cameraRunning' = FALSE
  /\ cameraButtons' = {}
  /\ requests' = Append(requests, "startCamera")
  /\ UNCHANGED <<m_videoSending, m_networkSettingsValid, m_lastFrame, sendButtons>>

\* The camera counts as running until the worker says that it has stopped.
OnStopCameraClicked ==
  /\ Click
  /\ "stop" \in cameraButtons
  /\ cameraButtons' = {}
  /\ UNCHANGED <<m_cameraRunning, m_networkSettingsValid, m_lastFrame>>
  /\ StopVideoSendingAnd(<<"stopCamera">>)

\* Mutant: sending goes on over the new socket.
OnApplyNetworkSettingsClicked_GoesOn ==
  /\ Click
  /\ m_networkSettingsValid' \in BOOLEAN
  /\ UNCHANGED <<m_cameraRunning, m_videoSending, m_lastFrame, cameraButtons, requests>>
  /\ UpdateVideoSendUi

\* The settings may be invalid or the port may be taken.
OnApplyNetworkSettingsClicked ==
  /\ Click
  /\ m_networkSettingsValid' \in BOOLEAN
  /\ UNCHANGED <<m_cameraRunning, m_lastFrame, cameraButtons>>
  /\ StopVideoSending

OnStopNetworkClicked ==
  /\ Click
  /\ m_networkSettingsValid     \* or its button is disabled
  /\ m_networkSettingsValid' = FALSE
  /\ UNCHANGED <<m_cameraRunning, m_lastFrame, cameraButtons>>
  /\ StopVideoSending

OnStartVideoSendClicked ==
  /\ Click
  /\ "start" \in sendButtons
  /\ ~m_videoSending /\ m_cameraRunning /\ m_networkSettingsValid
  /\ m_videoSending' = TRUE
  /\ requests' = Append(requests, "startEncoding")
  /\ UNCHANGED <<m_cameraRunning, m_networkSettingsValid, m_lastFrame, cameraButtons>>
  /\ UpdateVideoSendUi

OnStopVideoSendClicked ==
  /\ Click
  /\ "stop" \in sendButtons
  /\ UNCHANGED <<m_cameraRunning, m_networkSettingsValid, m_lastFrame, cameraButtons>>
  /\ StopVideoSending
-----------------------------------------------------------------------------
(* The window handles the worker's signals. *)

Handles(type) ==
  /\ events # <<>> /\ Head(events).type = type
  /\ events' = Tail(events)
  /\ UNCHANGED <<workerVars, m_networkSettingsValid>>

OnCameraStarted ==
  /\ Handles("started")
  /\ m_cameraRunning' = TRUE
  /\ cameraButtons' = {"stop"}
  /\ UNCHANGED <<m_videoSending, m_lastFrame, requests, sent>>
  /\ UpdateVideoSendUi

\* Mutant: the send buttons are set before m_cameraRunning.
OnCameraStoppedOrError_UpdatesEarly ==
  /\ Handles("stopped") \/ Handles("error")
  /\ m_cameraRunning' = FALSE
  /\ m_lastFrame' = FALSE
  /\ cameraButtons' = {"start"}
  /\ m_videoSending' = FALSE
  /\ requests' = requests \o (IF m_videoSending THEN <<"stopEncoding">> ELSE <<>>)
  /\ sendButtons' = {b \in {"start", "test"} :
                       m_networkSettingsValid /\ (b = "start" => m_cameraRunning)}
  /\ UNCHANGED sent

\* onCameraStopped and onCameraError differ in the status text only; both end
\* with resetCameraUi.
OnCameraStoppedOrError ==
  /\ Handles("stopped") \/ Handles("error")
  /\ m_cameraRunning' = FALSE
  /\ m_lastFrame' = FALSE
  /\ cameraButtons' = {"start"}
  /\ UNCHANGED sent
  /\ StopVideoSending

OnFrameReady ==
  /\ Handles("frame")
  /\ m_lastFrame' = (m_lastFrame \/ m_cameraRunning)
  /\ UNCHANGED <<m_cameraRunning, m_videoSending, cameraButtons, sendButtons, sent, requests>>

\* sendEncodedFrame may fail on any fragment, and the frame may be too large.
OnJpegFrameReady ==
  /\ Handles("jpeg")
  /\ UNCHANGED <<m_cameraRunning, m_lastFrame, cameraButtons>>
  /\ \/ ~m_videoSending
        /\ UNCHANGED <<sent, m_videoSending, sendButtons, requests>>
     \/ m_videoSending /\ m_networkSettingsValid
        /\ sent' = Append(sent, Head(events).frame)
        /\ UNCHANGED <<m_videoSending, sendButtons, requests>>
     \/ m_videoSending /\ StopVideoSending /\ UNCHANGED sent

OnVideoEncodingError ==
  /\ Handles("encodingError")
  /\ UNCHANGED <<m_cameraRunning, m_lastFrame, cameraButtons, sent>>
  /\ IF m_videoSending THEN StopVideoSending
                       ELSE UNCHANGED <<m_videoSending, sendButtons, requests>>

GuiHandlesEvent ==
  \/ OnCameraStarted \/ OnCameraStoppedOrError
  \/ OnFrameReady \/ OnJpegFrameReady \/ OnVideoEncodingError
-----------------------------------------------------------------------------
(* The worker handles the window's requests. *)

Serves(request) ==
  /\ requests # <<>> /\ Head(requests) = request
  /\ requests' = Tail(requests)
  /\ UNCHANGED <<windowVars, captured>>

Signal(type) == [type |-> type, frame |-> 0]
Emits(signals) == events' = events \o signals

\* Mutant: a failure is not reported if no camera was open before.
StartCamera_FailsSilently ==
  /\ Serves("startCamera")
  /\ m_consecutiveReadFailures' = 0
  /\ \/ m_running' = TRUE /\ Emits(<<Signal("started")>>)
     \/ m_running' = FALSE /\ Emits(IF m_running THEN <<Signal("error")>> ELSE <<>>)
  /\ UNCHANGED encoderVars

\* The camera, if any, is released, and one of three backends opens it or none.
StartCamera ==
  /\ Serves("startCamera")
  /\ m_consecutiveReadFailures' = 0
  /\ \/ m_running' = TRUE /\ Emits(<<Signal("started")>>)
     \/ m_running' = FALSE /\ Emits(<<Signal("error")>>)
  /\ UNCHANGED encoderVars

\* Mutant: the picture waiting to be encoded is kept.
DropLatestFrame_KeepsFrame ==
  /\ m_latestFrameSerial' = m_latestFrameSerial /\ m_latestBgrFrame' = m_latestBgrFrame
  /\ m_lastEncodedFrameSerial' = 0
  /\ m_lastVideoEncodingError' = FALSE

DropLatestFrame ==
  /\ m_latestFrameSerial' = 0 /\ m_latestBgrFrame' = 0
  /\ m_lastEncodedFrameSerial' = 0
  /\ m_lastVideoEncodingError' = FALSE

StopEncoding ==
  /\ m_videoEncodingEnabled' = FALSE /\ m_encodeFirstFrameImmediately' = FALSE
  /\ DropLatestFrame

StopCamera ==
  /\ Serves("stopCamera")
  /\ StopEncoding
  /\ m_running' = FALSE
  /\ m_consecutiveReadFailures' = 0
  /\ Emits(<<Signal("stopped")>>)

\* It stops the encoding first.
StartVideoEncoding ==
  /\ Serves("startEncoding")
  /\ m_videoEncodingEnabled' = TRUE /\ m_encodeFirstFrameImmediately' = TRUE
  /\ DropLatestFrame
  /\ UNCHANGED <<m_running, m_consecutiveReadFailures, events>>

StopVideoEncoding ==
  /\ Serves("stopEncoding")
  /\ StopEncoding
  /\ UNCHANGED <<m_running, m_consecutiveReadFailures, events>>

WorkerServesRequest == StartCamera \/ StopCamera \/ StartVideoEncoding \/ StopVideoEncoding
-----------------------------------------------------------------------------
(* The worker's timers. *)

\* Encodes picture number frame, after the signals given.  An error is reported
\* unless one was since the last success; then it may be, if it is another one
\* or a second has passed.
EncodesAfter(signals, frame, serial) ==
  \/ /\ m_lastEncodedFrameSerial' = serial
     /\ m_lastVideoEncodingError' = FALSE
     /\ Emits(Append(signals, [type |-> "jpeg", frame |-> frame]))
  \/ /\ m_lastVideoEncodingError' = TRUE
     /\ \/ Emits(Append(signals, Signal("encodingError")))
        \/ m_lastVideoEncodingError /\ Emits(signals)
     /\ UNCHANGED m_lastEncodedFrameSerial

\* captureFrame with a picture that can be shown.
CaptureFrame ==
  /\ Room /\ m_running /\ captured < CaptureBound
  /\ m_consecutiveReadFailures' = 0
  /\ captured' = captured + 1
  /\ IF m_videoEncodingEnabled
     THEN /\ m_latestBgrFrame' = captured'
          /\ m_latestFrameSerial' = m_latestFrameSerial + 1
          /\ m_encodeFirstFrameImmediately' = FALSE
          /\ IF m_encodeFirstFrameImmediately
             THEN EncodesAfter(<<Signal("frame")>>, captured', m_latestFrameSerial')
             ELSE /\ Emits(<<Signal("frame")>>)
                  /\ UNCHANGED <<m_lastEncodedFrameSerial, m_lastVideoEncodingError>>
     ELSE Emits(<<Signal("frame")>>) /\ UNCHANGED encoderVars
  /\ UNCHANGED <<windowVars, m_running, m_videoEncodingEnabled, requests>>

\* A picture of a format that cannot be converted.
CaptureUnusable ==
  /\ m_running
  /\ m_consecutiveReadFailures' = 0
  /\ UNCHANGED <<windowVars, m_running, captured, encoderVars, requests, events>>

\* captureFrame without a picture; the encoding is left to the window to stop.
ReadFails ==
  /\ Room /\ m_running
  /\ m_running' = (m_consecutiveReadFailures + 1 < MaxConsecutiveReadFailures)
  /\ m_consecutiveReadFailures' = IF m_running' THEN m_consecutiveReadFailures + 1 ELSE 0
  /\ Emits(IF m_running' THEN <<>> ELSE <<Signal("error"), Signal("stopped")>>)
  /\ UNCHANGED <<windowVars, captured, encoderVars, requests>>

\* Mutant: the picture may have been encoded already.
NewFrameToEncode_Any == m_latestFrameSerial # 0

NewFrameToEncode ==
  m_latestFrameSerial # 0 /\ m_latestFrameSerial # m_lastEncodedFrameSerial

EncodeLatestVideoFrame ==
  /\ Room /\ m_videoEncodingEnabled /\ m_running
  /\ NewFrameToEncode
  /\ EncodesAfter(<<>>, m_latestBgrFrame, m_latestFrameSerial)
  /\ UNCHANGED <<windowVars, captureVars, m_videoEncodingEnabled,
                 m_encodeFirstFrameImmediately, m_latestBgrFrame, m_latestFrameSerial,
                 requests>>
-----------------------------------------------------------------------------
Next ==
  \/ OnStartCameraClicked \/ OnStopCameraClicked
  \/ OnApplyNetworkSettingsClicked \/ OnStopNetworkClicked
  \/ OnStartVideoSendClicked \/ OnStopVideoSendClicked
  \/ GuiHandlesEvent
  \/ WorkerServesRequest
  \/ CaptureFrame \/ CaptureUnusable \/ ReadFails \/ EncodeLatestVideoFrame

\* Both event loops run; the user and the camera need do nothing.
Spec == Init /\ [][Next]_vars /\ WF_vars(GuiHandlesEvent) /\ WF_vars(WorkerServesRequest)
-----------------------------------------------------------------------------
\* Every variable keeps its type; a picture waits exactly while its serial is set,
\* and only in an encoder that is on.
TypeOK ==
  /\ {m_cameraRunning, m_videoSending, m_networkSettingsValid, m_lastFrame, m_running,
      m_videoEncodingEnabled, m_encodeFirstFrameImmediately, m_lastVideoEncodingError}
       \subseteq BOOLEAN
  /\ cameraButtons \in {{}, {"start"}, {"stop"}}
  /\ sendButtons \in {{}, {"test"}, {"start", "test"}, {"stop"}}
  /\ m_consecutiveReadFailures \in 0 .. MaxConsecutiveReadFailures - 1
  /\ {captured, m_latestBgrFrame, m_latestFrameSerial, m_lastEncodedFrameSerial}
       \subseteq 0 .. CaptureBound
  /\ sent \in Seq(1 .. CaptureBound)
  /\ m_latestFrameSerial = 0 <=> m_latestBgrFrame = 0
  /\ m_latestBgrFrame # 0 => m_videoEncodingEnabled
  /\ requests \in Seq({"startCamera", "stopCamera", "startEncoding", "stopEncoding"})
  /\ events \in Seq([type : {"started", "stopped", "error", "frame", "jpeg",
                             "encodingError"}, frame : 0 .. CaptureBound])

\* Applying or stopping the network, stopping the camera and its errors all end
\* continuous sending (README.md:275): it never outlives the window's camera or
\* network, although onStartCameraClicked clears m_cameraRunning without it.  Nor
\* does the picture on display, however late the pictures under way arrive.
NothingOutlivesCamera ==
  /\ m_videoSending => m_cameraRunning /\ m_networkSettingsValid
  /\ m_lastFrame => m_cameraRunning

\* Sending excludes test frames and its own start, and stopping gives them back
\* (README.md:275), in whatever order camera, network and sending change.
ControlsMatch ==
  /\ "stop" \in sendButtons <=> m_videoSending
  /\ "test" \in sendButtons <=> m_networkSettingsValid /\ ~m_videoSending
  /\ "start" \in sendButtons <=>
       m_networkSettingsValid /\ m_cameraRunning /\ ~m_videoSending

Quiet ==
  requests = <<>> /\ \A i \in DOMAIN events : events[i].type \in {"frame", "jpeg"}

\* Once the signals under way have been handled, window and worker agree on the
\* camera, on the buttons for it and on the encoding, whatever crossed: an error
\* and a stop with a new start, a send started while the camera was stopping.
SidesAgree ==
  Quiet => /\ m_cameraRunning <=> m_running
           /\ cameraButtons = IF m_running THEN {"stop"} ELSE {"start"}
           /\ m_videoEncodingEnabled <=> m_videoSending

\* Pictures are sent in the order they were taken and none twice (README.md:28),
\* through failed encodings, and stops and starts that reset the serials.
SentInOrder == \A i, j \in DOMAIN sent : i < j => sent[i] < sent[j]

\* A click on the camera's start or stop is answered (both buttons are disabled
\* until then).
ClicksAreAnswered == cameraButtons = {} ~> cameraButtons # {}
=============================================================================
