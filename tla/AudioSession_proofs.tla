--------------------------- MODULE AudioSession_proofs --------------------------
(* Proofs about AudioSession, for queues of any length: what the window will  *)
(* have been told once it has handled all that is under way agrees with what  *)
(* the worker does.                                                           *)
EXTENDS AudioSession, SequenceTheorems, TLAPS

LastEvent == events[Len(events)]

\* The last event is what the window will go by.  It claims audio, or offers to
\* stop it, after a start only, and only while the worker runs.
ClaimsTruly ==
  (IF events = <<>> THEN m_audioRunning \/ stopEnabled ELSE LastEvent = "started")
    => m_running

\* While audio runs and nothing failed to be sent, nothing was signalled since
\* its start; the window has heard of that or forgotten its settings since.
WillKnow ==
  m_running /\ sendFailures = 0 =>
    IF events = <<>> THEN m_audioNetworkSettingsValid => m_audioRunning
                     ELSE LastEvent = "started"

IInv == TypeOK /\ ClaimsTruly /\ WillKnow

Requests == {"configure", "start", "stop"}
Events == {"ready", "started", "stopped", "error"}
-----------------------------------------------------------------------------
\* Taking the first event off the queue leaves the last one, or none.
LEMMA Handled ==
  ASSUME NEW q \in Seq(Events), q # <<>>
  PROVE  /\ Tail(q) \in Seq(Events)
         /\ Tail(q) = <<>> => Head(q) = q[Len(q)]
         /\ Tail(q) # <<>> => Tail(q)[Len(Tail(q))] = q[Len(q)]
<1>1. Len(q) \in Nat /\ Len(q) > 0
  BY EmptySeq, LenProperties
<1>2. Tail(q) \in Seq(Events) /\ Len(Tail(q)) = Len(q) - 1
  BY HeadTailProperties
<1>2a. Len(<<>>) = 0 /\ (Tail(q) # <<>> => Len(Tail(q)) \in Nat \ {0})
  BY <1>2, EmptySeq
<1>3. CASE Len(q) = 1
  <2>1. Tail(q) = <<>>
    BY <1>2, <1>3, <1>2a
  <2>2. Head(q) = q[1]
    BY <1>3
  <2> QED
    BY <1>2, <1>3, <2>1, <2>2
<1>4. CASE Len(q) > 1
  <2>1. Len(Tail(q)) \in 1 .. Len(Tail(q)) /\ Len(Tail(q)) + 1 = Len(q)
    BY <1>1, <1>2, <1>4
  <2>2. \A i \in 1 .. Len(Tail(q)) : Tail(q)[i] = q[i + 1]
    BY HeadTailProperties
  <2>3. Tail(q)[Len(Tail(q))] = q[Len(q)]
    BY <2>1, <2>2
  <2>4. Tail(q) # <<>>
    <3> DEFINE t == Tail(q)
    <3>1. Len(t) # 0
      BY <1>1, <1>2, <1>4
    <3> HIDE DEF t
    <3>2. t = <<>> => Len(t) = 0
      BY <1>2a
    <3>3. t # <<>>
      BY <3>1, <3>2
    <3> QED
      BY <3>3 DEF t
  <2> QED
    BY <1>2, <2>3, <2>4
<1> QED
  BY <1>1, <1>3, <1>4

\* Of signals put behind the queue the last is the last of the queue.
LEMMA Emitted ==
  ASSUME NEW q \in Seq(Events), NEW s \in Seq(Events)
  PROVE  /\ q \o s \in Seq(Events)
         /\ s = <<>> => q \o s = q
         /\ s # <<>> => q \o s # <<>> /\ (q \o s)[Len(q \o s)] = s[Len(s)]
<1>1. /\ Len(q) \in Nat /\ Len(s) \in Nat /\ q \o s \in Seq(Events)
      /\ Len(q \o s) = Len(q) + Len(s)
  BY ConcatProperties, LenProperties
<1>2. s # <<>> => Len(s) > 0
  BY <1>1, EmptySeq
<1>3. s # <<>> => q \o s # <<>> /\ (q \o s)[Len(q \o s)] = s[Len(s)]
  <2> SUFFICES ASSUME s # <<>>
               PROVE  q \o s # <<>> /\ (q \o s)[Len(q \o s)] = s[Len(s)]
    OBVIOUS
  <2>1. Len(s) > 0 /\ Len(q \o s) > Len(q) /\ Len(q \o s) - Len(q) = Len(s)
    BY <1>1, <1>2
  <2>2. (q \o s)[Len(q \o s)] = s[Len(q \o s) - Len(q)]
    BY <1>1, <2>1, ConcatProperties
  <2>3. q \o s # <<>>
    BY <1>1, <2>1, EmptySeq
  <2> QED
    BY <2>1, <2>2, <2>3
<1> QED
  BY <1>1, <1>3, ConcatEmptySeq
-----------------------------------------------------------------------------
LEMMA InitInv == Init => IInv
<1> SUFFICES ASSUME Init PROVE IInv
  OBVIOUS
<1>1. TypeOK
  <2>1. /\ <<>> \in Seq({"configure", "start", "stop"})
        /\ <<>> \in Seq({"ready", "started", "stopped", "error"})
    OBVIOUS
  <2>2. 0 \in 0 .. SendFailureBound
    BY BoundsAssumption
  <2> QED
    BY <2>1, <2>2 DEF Init, TypeOK
<1> QED
  BY <1>1 DEF Init, IInv, ClaimsTruly, WillKnow

\* A click: the window asks, and if anything takes back what it knew.
LEMMA ClickInv ==
  ASSUME IInv, UNCHANGED <<workerVars, events, sendFailures>>,
         \/ UNCHANGED requests
         \/ \E r \in Requests : requests' = Append(requests, r),
         DisableButtons,
         \/ UNCHANGED <<m_audioNetworkSettingsValid, m_audioRunning>>
         \/ m_audioNetworkSettingsValid' = FALSE /\ m_audioRunning' = FALSE
  PROVE  IInv'
<1>1. requests \in Seq(Requests) /\ events \in Seq(Events)
  BY DEF IInv, TypeOK, Requests, Events
<1>2. requests' \in Seq(Requests)
  BY <1>1, AppendProperties
<1>3. TypeOK'
  BY <1>2 DEF IInv, TypeOK, DisableButtons, workerVars, Requests
<1>4. ClaimsTruly'
  BY DEF IInv, ClaimsTruly, DisableButtons, workerVars, LastEvent
<1>5. WillKnow'
  BY DEF IInv, WillKnow, workerVars, LastEvent
<1> QED
  BY <1>3, <1>4, <1>5 DEF IInv

\* The window handles an event: it goes by the last one, and that one remains
\* until it is handled itself.
LEMMA HandledInv ==
  ASSUME IInv, GuiHandlesEvent
  PROVE  IInv'
<1> DEFINE e == Head(events)
<1>1. /\ events # <<>> /\ events' = Tail(events) /\ e \in Events
      /\ UNCHANGED <<m_networkReady, m_running, requests, sendFailures>>
  BY DEF GuiHandlesEvent, OnAudioNetworkReady, OnAudioStarted, OnAudioStoppedOrError,
         Handles, workerVars, Events
<1>2. /\ m_audioRunning' = (e = "started") /\ stopEnabled' = (e = "started")
      /\ {m_audioNetworkSettingsValid', startEnabled'} \subseteq BOOLEAN
      /\ ~(startEnabled' /\ stopEnabled')
  BY DEF GuiHandlesEvent, OnAudioNetworkReady, OnAudioStarted, OnAudioStoppedOrError,
         Handles, IInv, TypeOK
<1>3. events \in Seq(Events)
  BY DEF IInv, TypeOK, Events
<1> HIDE DEF e
<1>4. /\ events' \in Seq(Events)
      /\ events' = <<>> => e = LastEvent
      /\ events' # <<>> => LastEvent' = LastEvent
  BY <1>1, <1>3, Handled DEF LastEvent, e
<1>5. TypeOK'
  BY <1>1, <1>2, <1>4 DEF IInv, TypeOK, Events
<1>6. ClaimsTruly'
  BY <1>1, <1>2, <1>4 DEF IInv, ClaimsTruly
<1>7. WillKnow'
  BY <1>1, <1>2, <1>4 DEF IInv, WillKnow
<1> QED
  BY <1>5, <1>6, <1>7 DEF IInv

\* The worker does something and then signals: nothing if nothing changed that
\* the window goes by, "started" last if audio runs, something else if not.
LEMMA SignalInv ==
  ASSUME IInv, UNCHANGED guiVars, NEW signals \in Seq(Events), Emits(signals),
         requests' \in Seq(Requests), {m_running', m_networkReady'} \subseteq BOOLEAN,
         m_running' => m_networkReady',
         \/ UNCHANGED sendFailures
         \/ sendFailures' \in 1 .. SendFailureBound,
         \/ signals = <<>> /\ m_running' = m_running /\ UNCHANGED sendFailures
         \/ signals # <<>> /\ \/ m_running' <=> signals[Len(signals)] = "started"
                              \/ sendFailures' # 0 /\ signals[Len(signals)] # "started"
  PROVE  IInv'
<1>1. events \in Seq(Events) /\ events' = events \o signals
  BY DEF IInv, TypeOK, Events, Emits
<1>2. /\ events' \in Seq(Events)
      /\ signals = <<>> => events' = events
      /\ signals # <<>> => events' # <<>> /\ LastEvent' = signals[Len(signals)]
  BY <1>1, Emitted DEF LastEvent
<1>3. sendFailures' \in 0 .. SendFailureBound
  BY BoundsAssumption DEF IInv, TypeOK
<1>4. TypeOK'
  BY <1>2, <1>3 DEF IInv, TypeOK, guiVars, Events, Requests
<1>5. CASE signals = <<>>
  BY <1>2, <1>4, <1>5 DEF IInv, ClaimsTruly, WillKnow, LastEvent, guiVars
<1>6. CASE signals # <<>>
  BY <1>2, <1>4, <1>6 DEF IInv, ClaimsTruly, WillKnow
<1> QED
  BY <1>5, <1>6

\* What stopAudioInternal signals.
LEMMA StopSignals ==
  ASSUME NEW s \in Seq(Events)
  PROVE  /\ Stopped \in Seq(Events) /\ Stopped \o s \in Seq(Events)
         /\ Stopped # <<>> => Stopped[Len(Stopped)] = "stopped"
         /\ s # <<>> => /\ Stopped \o s # <<>>
                        /\ (Stopped \o s)[Len(Stopped \o s)] = s[Len(s)]
<1>1. /\ <<>> \in Seq(Events) /\ <<"stopped">> \in Seq(Events)
      /\ <<"stopped">>[Len(<<"stopped">>)] = "stopped"
  BY DEF Events
<1>2. Stopped \in Seq(Events) /\ (Stopped # <<>> => Stopped[Len(Stopped)] = "stopped")
  BY <1>1 DEF Stopped
<1> QED
  BY <1>2, Emitted

LEMMA ConfigureInv ==
  ASSUME IInv, ConfigureNetwork
  PROVE  IInv'
<1>1. /\ requests # <<>> /\ requests' = Tail(requests) /\ m_running' = FALSE
      /\ UNCHANGED <<guiVars, sendFailures>>
  BY DEF ConfigureNetwork, Serves
<1>2. requests \in Seq(Requests) /\ requests' \in Seq(Requests)
  BY <1>1, HeadTailProperties DEF IInv, TypeOK, Requests
<1>3. /\ <<"ready">> \in Seq(Events) /\ <<"ready">> # <<>>
      /\ <<"ready">>[Len(<<"ready">>)] = "ready"
      /\ <<"error", "error">> \in Seq(Events) /\ <<"error", "error">> # <<>>
      /\ <<"error", "error">>[Len(<<"error", "error">>)] = "error"
  BY DEF Events
<1>4. CASE m_networkReady' = TRUE /\ Emits(Stopped \o <<"ready">>)
  <2> DEFINE s == Stopped \o <<"ready">>
  <2>1. s \in Seq(Events) /\ s # <<>> /\ s[Len(s)] = "ready"
    BY <1>3, StopSignals
  <2>2. Emits(s)
    BY <1>4
  <2> HIDE DEF s
  <2> QED
    BY <1>1, <1>2, <1>4, <2>1, <2>2, SignalInv
<1>5. CASE m_networkReady' = FALSE /\ Emits(Stopped \o <<"error", "error">>)
  <2> DEFINE s == Stopped \o <<"error", "error">>
  <2>1. s \in Seq(Events) /\ s # <<>> /\ s[Len(s)] = "error"
    BY <1>3, StopSignals
  <2>2. Emits(s)
    BY <1>5
  <2> HIDE DEF s
  <2> QED
    BY <1>1, <1>2, <1>5, <2>1, <2>2, SignalInv
<1> QED
  BY <1>4, <1>5 DEF ConfigureNetwork

LEMMA StartInv ==
  ASSUME IInv, StartAudio
  PROVE  IInv'
<1>1. /\ requests # <<>> /\ requests' = Tail(requests)
      /\ UNCHANGED <<guiVars, sendFailures, m_networkReady>>
  BY DEF StartAudio, Serves
<1>2. requests \in Seq(Requests) /\ requests' \in Seq(Requests)
  BY <1>1, HeadTailProperties DEF IInv, TypeOK, Requests
<1>3. events \in Seq(Events) /\ m_running \in BOOLEAN /\ m_networkReady \in BOOLEAN
      /\ (m_running => m_networkReady)
  BY DEF IInv, TypeOK, Events
<1>4. CASE UNCHANGED <<m_running, events>>
  <2>1. <<>> \in Seq(Events) /\ Emits(<<>>)
    BY <1>3, <1>4, Emitted DEF Emits
  <2> QED
    BY <1>1, <1>2, <1>3, <1>4, <2>1, SignalInv
<1>5. CASE ~m_running /\ Emits(<<"error">>) /\ UNCHANGED m_running
  <2> DEFINE s == <<"error">>
  <2>1. s \in Seq(Events) /\ s # <<>> /\ s[Len(s)] = "error"
    BY DEF Events
  <2>2. Emits(s)
    BY <1>5
  <2> HIDE DEF s
  <2> QED
    BY <1>1, <1>2, <1>3, <1>5, <2>1, <2>2, SignalInv
<1>6. CASE ~m_running /\ m_networkReady /\ Emits(<<"started">>) /\ m_running' = TRUE
  <2> DEFINE s == <<"started">>
  <2>1. s \in Seq(Events) /\ s # <<>> /\ s[Len(s)] = "started"
    BY DEF Events
  <2>2. Emits(s)
    BY <1>6
  <2> HIDE DEF s
  <2> QED
    BY <1>1, <1>2, <1>3, <1>6, <2>1, <2>2, SignalInv
<1> QED
  BY <1>4, <1>5, <1>6 DEF StartAudio

LEMMA StopInv ==
  ASSUME IInv, StopAudio
  PROVE  IInv'
<1>1. /\ requests # <<>> /\ requests' = Tail(requests) /\ m_running' = FALSE
      /\ Emits(Stopped) /\ UNCHANGED <<guiVars, sendFailures, m_networkReady>>
  BY DEF StopAudio, Serves
<1>2. requests \in Seq(Requests) /\ requests' \in Seq(Requests)
  BY <1>1, HeadTailProperties DEF IInv, TypeOK, Requests
<1>3. <<>> \in Seq(Events) /\ m_networkReady \in BOOLEAN /\ m_running \in BOOLEAN
  BY DEF IInv, TypeOK
<1>4. CASE m_running
  <2>1. Stopped # <<>>
    BY <1>4 DEF Stopped
  <2> QED
    BY <1>1, <1>2, <1>3, <2>1, SignalInv, StopSignals
<1>5. CASE ~m_running
  <2>1. Stopped = <<>>
    BY <1>5 DEF Stopped
  <2> QED
    BY <1>1, <1>2, <1>3, <1>5, <2>1, SignalInv
<1> QED
  BY <1>4, <1>5

LEMMA DeviceErrorInv ==
  ASSUME IInv, OnDeviceError
  PROVE  IInv'
<1> DEFINE s == Stopped \o <<"error">>
<1>1. /\ m_running' = FALSE /\ Emits(s)
      /\ UNCHANGED <<guiVars, m_networkReady, requests, sendFailures>>
  BY DEF OnDeviceError
<1>2. requests \in Seq(Requests) /\ m_networkReady \in BOOLEAN
  BY DEF IInv, TypeOK, Requests
<1>3. s \in Seq(Events) /\ s # <<>> /\ s[Len(s)] = "error"
  <2>1. /\ <<"error">> \in Seq(Events) /\ <<"error">> # <<>>
        /\ <<"error">>[Len(<<"error">>)] = "error"
    BY DEF Events
  <2> QED
    BY <2>1, StopSignals
<1> HIDE DEF s
<1> QED
  BY <1>1, <1>2, <1>3, SignalInv

LEMMA SendFailureInv ==
  ASSUME IInv, OnSendFailure
  PROVE  IInv'
<1> DEFINE s == <<"error", "error">>
<1>1. /\ sendFailures' = sendFailures + 1 /\ sendFailures < SendFailureBound
      /\ Emits(s) /\ UNCHANGED <<guiVars, m_running, m_networkReady, requests>>
  BY DEF OnSendFailure, workerVars
<1>2. /\ requests \in Seq(Requests) /\ {m_running, m_networkReady} \subseteq BOOLEAN
      /\ m_running => m_networkReady
  BY DEF IInv, TypeOK, Requests
<1>3. sendFailures' \in 1 .. SendFailureBound /\ sendFailures' # 0
  BY <1>1, BoundsAssumption DEF IInv, TypeOK
<1>4. s \in Seq(Events) /\ s # <<>> /\ s[Len(s)] # "started"
  BY DEF Events
<1> HIDE DEF s
<1> QED
  BY <1>1, <1>2, <1>3, <1>4, SignalInv

LEMMA StepInv ==
  ASSUME IInv, [Next]_vars
  PROVE  IInv'
<1>1. CASE OnApplyAudioSettingsClicked
  BY <1>1, ClickInv DEF OnApplyAudioSettingsClicked, ForgetSettings, Request, Requests
<1>2. CASE OnInvalidAudioSettingsApplied
  BY <1>2, ClickInv DEF OnInvalidAudioSettingsApplied, ForgetSettings
<1>3. CASE OnStartAudioClicked
  BY <1>3, ClickInv DEF OnStartAudioClicked, Request, Requests
<1>4. CASE OnStopAudioClicked
  BY <1>4, ClickInv DEF OnStopAudioClicked, Request, Requests
<1>5. CASE UNCHANGED vars
  BY <1>5 DEF vars, guiVars, workerVars, IInv, TypeOK, ClaimsTruly, WillKnow, LastEvent
<1> QED
  BY <1>1, <1>2, <1>3, <1>4, <1>5, HandledInv, ConfigureInv, StartInv, StopInv,
     DeviceErrorInv, SendFailureInv DEF Next, WorkerServesRequest

LEMMA Invariance == Spec => []IInv
<1>1. IInv /\ [Next]_vars => IInv'
  BY StepInv
<1> QED
  BY InitInv, <1>1, PTL DEF Spec
-----------------------------------------------------------------------------
\* Every variable keeps its type; audio runs over a bound socket only, and the
\* panel never offers both to start and to stop.
THEOREM TypeCorrect == Spec => []TypeOK
<1>1. IInv => TypeOK
  BY DEF IInv
<1> QED
  BY Invariance, <1>1, PTL

\* Once all signals are handled the panel claims no audio that does not run and
\* offers to stop only audio that does, however many signals crossed
\* (onAudioStarted, onAudioStopped and onAudioError against AudioWorker).
THEOREM ClaimsNothingFalse == Spec => []PanelClaimsNothing
<1>1. IInv => PanelClaimsNothing
  BY DEF IInv, ClaimsTruly, PanelClaimsNothing, Quiet
<1> QED
  BY Invariance, <1>1, PTL

\* As long as every packet could be sent, the panel with valid settings knows of
\* audio that runs once all signals are handled.
THEOREM KnowsWhatRuns == Spec => []PanelKnowsAudio
<1>1. IInv => PanelKnowsAudio
  BY DEF IInv, WillKnow, PanelKnowsAudio, Quiet
<1> QED
  BY Invariance, <1>1, PTL
=============================================================================
