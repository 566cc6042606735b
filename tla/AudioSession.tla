---------------------------- MODULE AudioSession ----------------------------
(***************************************************************************)
(* The audio panel of MainWindow (GUI thread) and AudioWorker (its own     *)
(* thread), which talk through queued signals only: requests one way,      *)
(* events the other, each in order, either side acting on what it knew     *)
(* when it spoke.  Shutdown and the audio data are left out.               *)
(***************************************************************************)
EXTENDS Naturals, Sequences

CONSTANTS
  QueueBound,      \* bound: signals under way when something new happens
  SendFailureBound \* bound: packets that fail to be sent

ASSUME BoundsAssumption == QueueBound \in Nat /\ SendFailureBound \in Nat

VARIABLES
  m_audioNetworkSettingsValid, m_audioRunning,   \* MainWindow
  startEnabled, stopEnabled,                     \* its two buttons
  m_networkReady, m_running,                     \* AudioWorker
  requests,                                      \* queued to the worker
  events,                                        \* queued to the window
  sendFailures

guiVars == <<m_audioNetworkSettingsValid, m_audioRunning, startEnabled, stopEnabled>>
workerVars == <<m_networkReady, m_running>>
vars == <<guiVars, workerVars, requests, events, sendFailures>>

Init ==
  /\ m_audioNetworkSettingsValid = FALSE
  /\ m_audioRunning = FALSE
  /\ startEnabled = FALSE
  /\ stopEnabled = FALSE
  /\ m_networkReady = FALSE
  /\ m_running = FALSE
  /\ requests = <<>>
  /\ events = <<>>
  /\ sendFailures = 0
-----------------------------------------------------------------------------
(* The user clicks. *)

Room == Len(requests) + Len(events) < QueueBound

DisableButtons == startEnabled' = FALSE /\ stopEnabled' = FALSE

Request(r) == requests' = Append(requests, r)

ForgetSettings ==
  /\ m_audioNetworkSettingsValid' = FALSE
  /\ m_audioRunning' = FALSE
  /\ DisableButtons

\* Settings that parse go to the worker.
OnApplyAudioSettingsClicked ==
  /\ Room
  /\ ForgetSettings
  /\ Request("configure")
  /\ UNCHANGED <<workerVars, events, sendFailures>>

\* Settings that do not (peer or local address): the worker is not told.
OnInvalidAudioSettingsApplied ==
  /\ ForgetSettings
  /\ UNCHANGED <<workerVars, requests, events, sendFailures>>

OnStartAudioClicked ==
  /\ Room /\ startEnabled
  /\ ~m_audioRunning /\ m_audioNetworkSettingsValid
  /\ DisableButtons
  /\ Request("start")
  /\ UNCHANGED <<m_audioNetworkSettingsValid, m_audioRunning, workerVars, events,
                 sendFailures>>

OnStopAudioClicked ==
  /\ Room /\ stopEnabled
  /\ DisableButtons
  /\ Request("stop")
  /\ UNCHANGED <<m_audioNetworkSettingsValid, m_audioRunning, workerVars, events,
                 sendFailures>>
-----------------------------------------------------------------------------
(* The window handles the worker's signals. *)

Handles(event) ==
  /\ events # <<>> /\ Head(events) = event
  /\ events' = Tail(events)
  /\ UNCHANGED <<workerVars, requests, sendFailures>>

OnAudioNetworkReady ==
  /\ Handles("ready")
  /\ m_audioNetworkSettingsValid' = TRUE
  /\ m_audioRunning' = FALSE
  /\ startEnabled' = TRUE
  /\ stopEnabled' = FALSE

OnAudioStarted ==
  /\ Handles("started")
  /\ m_audioRunning' = TRUE
  /\ startEnabled' = FALSE
  /\ stopEnabled' = TRUE
  /\ UNCHANGED m_audioNetworkSettingsValid

\* onAudioStopped and onAudioError differ in the status text only.
OnAudioStoppedOrError ==
  /\ Handles("stopped") \/ Handles("error")
  /\ m_audioRunning' = FALSE
  /\ startEnabled' = m_audioNetworkSettingsValid
  /\ stopEnabled' = FALSE
  /\ UNCHANGED m_audioNetworkSettingsValid

GuiHandlesEvent == OnAudioNetworkReady \/ OnAudioStarted \/ OnAudioStoppedOrError
-----------------------------------------------------------------------------
(* The worker handles the window's requests. *)

Serves(request) ==
  /\ requests # <<>> /\ Head(requests) = request
  /\ requests' = Tail(requests)
  /\ UNCHANGED <<guiVars, sendFailures>>

Emits(signals) == events' = events \o signals

\* stopAudioInternal(true); whatever is active is so because m_running is TRUE.
Stopped == IF m_running THEN <<"stopped">> ELSE <<>>

\* Mutant: audio is stopped only once the new socket is bound.
ConfigureNetwork_StopsLate ==
  /\ Serves("configure")
  /\ \/ /\ m_networkReady' = TRUE /\ m_running' = FALSE
        /\ Emits(Stopped \o <<"ready">>)
     \/ /\ m_networkReady' = FALSE
        /\ Emits(<<"error", "error">>)
        /\ UNCHANGED m_running

\* A failed bind is reported by the transport and by the worker.
ConfigureNetwork ==
  /\ Serves("configure")
  /\ m_running' = FALSE
  /\ \/ m_networkReady' = TRUE /\ Emits(Stopped \o <<"ready">>)
     \/ m_networkReady' = FALSE /\ Emits(Stopped \o <<"error", "error">>)

\* Mutants: starting twice is an error; devices that refuse to start are not.
StartAudio_ErrorIfRunning ==
  /\ Serves("start")
  /\ \/ m_running /\ Emits(<<"error">>) /\ UNCHANGED m_running
     \/ ~m_running /\ Emits(<<"error">>) /\ UNCHANGED m_running
     \/ ~m_running /\ m_networkReady /\ Emits(<<"started">>) /\ m_running' = TRUE
  /\ UNCHANGED m_networkReady

StartAudio_FailsSilently ==
  /\ Serves("start")
  /\ \/ UNCHANGED <<m_running, events>>
     \/ ~m_running /\ m_networkReady /\ Emits(<<"started">>) /\ m_running' = TRUE
  /\ UNCHANGED m_networkReady

\* The devices may be absent, unsuitable or refuse to start.
StartAudio ==
  /\ Serves("start")
  /\ \/ m_running /\ UNCHANGED <<m_running, events>>
     \/ ~m_running /\ Emits(<<"error">>) /\ UNCHANGED m_running
     \/ ~m_running /\ m_networkReady /\ Emits(<<"started">>) /\ m_running' = TRUE
  /\ UNCHANGED m_networkReady

\* Mutant: stopAudioInternal(false), the window is not told.
StopAudio_Silent ==
  /\ Serves("stop")
  /\ m_running' = FALSE
  /\ UNCHANGED <<m_networkReady, events>>

StopAudio ==
  /\ Serves("stop")
  /\ m_running' = FALSE
  /\ Emits(Stopped)
  /\ UNCHANGED m_networkReady

WorkerServesRequest == ConfigureNetwork \/ StartAudio \/ StopAudio

\* The source or the sink stops with an error, or the sink cannot be written.
OnDeviceError ==
  /\ Room /\ m_running
  /\ m_running' = FALSE
  /\ Emits(Stopped \o <<"error">>)
  /\ UNCHANGED <<guiVars, m_networkReady, requests, sendFailures>>

\* onInputReadyRead: the transport and the worker report a packet not sent, and
\* the worker goes on with the next.
OnSendFailure ==
  /\ Room /\ m_running /\ sendFailures < SendFailureBound
  /\ sendFailures' = sendFailures + 1
  /\ Emits(<<"error", "error">>)
  /\ UNCHANGED <<guiVars, workerVars, requests>>
-----------------------------------------------------------------------------
Next ==
  \/ OnApplyAudioSettingsClicked \/ OnInvalidAudioSettingsApplied
  \/ OnStartAudioClicked \/ OnStopAudioClicked
  \/ GuiHandlesEvent
  \/ WorkerServesRequest
  \/ OnDeviceError \/ OnSendFailure

\* Both event loops run; the user and the devices need do nothing.
Spec == Init /\ [][Next]_vars /\ WF_vars(GuiHandlesEvent) /\ WF_vars(WorkerServesRequest)
-----------------------------------------------------------------------------
\* Every variable keeps its type, at most one button is enabled, and audio never
\* runs on a socket that is not bound to the settings in force, a failed
\* reconfiguration included (audioworker.cpp, 89-91 and 135).
TypeOK ==
  /\ ~(startEnabled /\ stopEnabled)
  /\ m_running => m_networkReady
  /\ {m_audioNetworkSettingsValid, m_audioRunning, startEnabled, stopEnabled,
      m_networkReady, m_running} \subseteq BOOLEAN
  /\ requests \in Seq({"configure", "start", "stop"})
  /\ events \in Seq({"ready", "started", "stopped", "error"})
  /\ sendFailures \in 0 .. SendFailureBound

Quiet == requests = <<>> /\ events = <<>>

\* Once the signals under way have been handled, the window claims no audio that
\* does not run, and offers to stop only audio that does, however clicks, device
\* errors and reconfigurations crossed.
PanelClaimsNothing == Quiet => (m_audioRunning \/ stopEnabled => m_running)

\* Conversely, with valid settings the window knows of audio that runs, or
\* onAudioStatisticsUpdated (mainwindow.cpp:813) would show nothing of it.  Only a
\* packet that could not be sent makes it forget: its error looks like the end of
\* the audio.
PanelKnowsAudio ==
  Quiet /\ sendFailures = 0 =>
    (m_running /\ m_audioNetworkSettingsValid => m_audioRunning)

\* With valid settings the panel never stays with both buttons disabled: the
\* answer to a click arrives (mainwindow.cpp, 744-747 and 756-759); again unless a
\* failed send has made it offer a start the running worker ignores.
ClicksAreAnswered ==
  (m_audioNetworkSettingsValid /\ ~startEnabled /\ ~stopEnabled)
    ~> \/ startEnabled \/ stopEnabled \/ ~m_audioNetworkSettingsValid
       \/ sendFailures > 0

\* "Applying the audio settings again stops the current audio" (README.md:101):
\* while settings are not valid, nothing runs once the signals are handled.
ApplyStopsAudio == Quiet /\ ~m_audioNetworkSettingsValid => ~m_running

\* "Start two-way audio can be clicked only after a successful bind"
\* (README.md:101).
StartNeedsBind == Quiet /\ startEnabled => m_networkReady
=============================================================================
