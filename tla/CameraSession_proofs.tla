-------------------------- MODULE CameraSession_proofs --------------------------
(* Proofs about CameraSession, for queues of any length and any number of     *)
(* pictures: types, what depends on the camera, the buttons, the agreement of *)
(* window and worker, and the order of the pictures sent.                     *)
EXTENDS CameraSession, Integers, SequenceTheorems, TLAPS

Requests == {"startCamera", "stopCamera", "startEncoding", "stopEncoding"}
Event == [type : {"started", "stopped", "error", "frame", "jpeg", "encodingError"},
          frame : 0 .. CaptureBound]

\* The pictures under way to the window, and those sent, are in order, and a
\* picture still to be encoded is newer than all of them.
Newest(f, pictures, queue) ==
  /\ \A i \in DOMAIN pictures : pictures[i] < f
  /\ \A j \in DOMAIN queue : queue[j].type = "jpeg" => queue[j].frame < f

InOrder(pictures, queue, last) ==
  /\ \A i, j \in DOMAIN pictures : i < j => pictures[i] < pictures[j]
  /\ \A i, j \in DOMAIN queue :
       i < j /\ queue[i].type = "jpeg" /\ queue[j].type = "jpeg"
         => queue[i].frame < queue[j].frame
  /\ \A i \in DOMAIN pictures, j \in DOMAIN queue :
       queue[j].type = "jpeg" => pictures[i] < queue[j].frame
  /\ \A i \in DOMAIN pictures : pictures[i] <= last
  /\ \A j \in DOMAIN queue : queue[j].type = "jpeg" => queue[j].frame \in 1 .. last

QueueInOrder == InOrder(sent, events, captured)

EncoderInOrder ==
  /\ m_latestBgrFrame <= captured /\ m_latestFrameSerial <= captured
  /\ m_lastEncodedFrameSerial <= captured
  /\ NewFrameToEncode => Newest(m_latestBgrFrame, sent, events)

PicturesInv == TypeOK /\ QueueInOrder /\ EncoderInOrder

\* The camera can be started only where it does not count as running.
WindowInv ==
  /\ NothingOutlivesCamera /\ ControlsMatch
  /\ "start" \in cameraButtons => ~m_cameraRunning

\* What becomes of a queue of which the elements in S decide: the last of them
\* is good; without any, it is as it is.
Outcome(q, S, good, asItIs) ==
  /\ \A i \in DOMAIN q :
       q[i] \in S /\ (\A j \in DOMAIN q : j > i => q[j] \notin S) => q[i] \in good
  /\ (\A i \in DOMAIN q : q[i] \notin S) => asItIs

\* The requests that turn the encoder on or off, those about the camera, and the
\* events that tell the window of it.
Switching == {"startEncoding", "stopEncoding", "stopCamera"}
NoCameraRequest == \A i \in DOMAIN requests : requests[i] \notin {"startCamera", "stopCamera"}
Deciding == {e \in Event : e.type \in {"started", "stopped", "error"}}

EncoderAgrees ==
  Outcome(requests, Switching,
          IF m_videoSending THEN {"startEncoding"} ELSE {"stopEncoding", "stopCamera"},
          m_videoEncodingEnabled = m_videoSending)

PanelMatches ==
  /\ m_cameraRunning = m_running
  /\ cameraButtons = IF m_running THEN {"stop"} ELSE {"start"}

CameraAgrees ==
  Outcome(events, Deciding, {e \in Event : (e.type = "started") = m_running},
          NoCameraRequest => PanelMatches)

IInv == PicturesInv /\ WindowInv /\ EncoderAgrees /\ CameraAgrees

\* TypeOK, the window's part and the worker's.
WindowTypes ==
  /\ {m_cameraRunning, m_videoSending, m_networkSettingsValid, m_lastFrame} \subseteq BOOLEAN
  /\ cameraButtons \in {{}, {"start"}, {"stop"}}
  /\ sendButtons \in {{}, {"test"}, {"start", "test"}, {"stop"}}

WorkerTypes ==
  /\ {m_running, m_videoEncodingEnabled, m_encodeFirstFrameImmediately,
      m_lastVideoEncodingError} \subseteq BOOLEAN
  /\ m_consecutiveReadFailures \in 0 .. MaxConsecutiveReadFailures - 1
  /\ {captured, m_latestBgrFrame, m_latestFrameSerial, m_lastEncodedFrameSerial}
       \subseteq 0 .. CaptureBound
  /\ m_latestFrameSerial = 0 <=> m_latestBgrFrame = 0
  /\ m_latestBgrFrame # 0 => m_videoEncodingEnabled

Types ==
  /\ WindowTypes /\ WorkerTypes /\ sent \in Seq(1 .. CaptureBound)
  /\ requests \in Seq(Requests) /\ events \in Seq(Event)
-----------------------------------------------------------------------------
(* Queues. *)

LEMMA Joined ==
  ASSUME NEW T, NEW q \in Seq(T), NEW s \in Seq(T)
  PROVE  /\ q \o s \in Seq(T) /\ DOMAIN (q \o s) = 1 .. Len(q) + Len(s)
         /\ Len(q) \in Nat /\ Len(s) \in Nat
         /\ DOMAIN q = 1 .. Len(q) /\ DOMAIN s = 1 .. Len(s)
         /\ \A i \in 1 .. Len(q) : (q \o s)[i] = q[i]
         /\ \A i \in 1 .. Len(s) : (q \o s)[Len(q) + i] = s[i]
         /\ \A i \in 1 .. Len(q) + Len(s) : i > Len(q) => i - Len(q) \in 1 .. Len(s)
<1>1. /\ q \o s \in Seq(T) /\ Len(q \o s) = Len(q) + Len(s)
      /\ Len(q) \in Nat /\ Len(s) \in Nat
      /\ DOMAIN q = 1 .. Len(q) /\ DOMAIN s = 1 .. Len(s)
  BY ConcatProperties, LenProperties
<1>2. DOMAIN (q \o s) = 1 .. Len(q) + Len(s)
  BY <1>1, LenProperties
<1>3. \A i \in 1 .. Len(q) + Len(s) :
        (q \o s)[i] = IF i <= Len(q) THEN q[i] ELSE s[i - Len(q)]
  BY ConcatProperties
<1>4. \A i \in 1 .. Len(q) : (q \o s)[i] = q[i]
  BY <1>1, <1>3
<1>5. ASSUME NEW i \in 1 .. Len(s) PROVE (q \o s)[Len(q) + i] = s[i]
  <2>1. /\ Len(q) + i \in 1 .. Len(q) + Len(s) /\ ~(Len(q) + i <= Len(q))
        /\ (Len(q) + i) - Len(q) = i
    BY <1>1
  <2> QED
    BY <1>3, <2>1
<1>6. \A i \in 1 .. Len(q) + Len(s) : i > Len(q) => i - Len(q) \in 1 .. Len(s)
  BY <1>1
<1> QED
  BY <1>1, <1>2, <1>4, <1>5, <1>6

LEMMA Extended ==
  ASSUME NEW T, NEW q \in Seq(T), NEW e \in T
  PROVE  /\ q \o <<e>> \in Seq(T) /\ Len(q) \in Nat
         /\ DOMAIN q = 1 .. Len(q) /\ DOMAIN (q \o <<e>>) = 1 .. Len(q) + 1
         /\ \A i \in 1 .. Len(q) : (q \o <<e>>)[i] = q[i]
         /\ (q \o <<e>>)[Len(q) + 1] = e
<1>1. q \o <<e>> = Append(q, e)
  BY AppendIsConcat
<1>2. /\ Append(q, e) \in Seq(T) /\ Len(Append(q, e)) = Len(q) + 1
      /\ \A i \in 1 .. Len(q) : Append(q, e)[i] = q[i]
      /\ Append(q, e)[Len(q) + 1] = e
  BY AppendProperties
<1> QED
  BY <1>1, <1>2, LenProperties

LEMMA Shortened ==
  ASSUME NEW T, NEW q \in Seq(T), q # <<>>
  PROVE  /\ Tail(q) \in Seq(T) /\ Len(q) \in Nat \ {0}
         /\ DOMAIN q = 1 .. Len(q) /\ DOMAIN Tail(q) = 1 .. Len(q) - 1
         /\ Head(q) = q[1] /\ Head(q) \in T
         /\ \A i \in 1 .. Len(q) - 1 : Tail(q)[i] = q[i + 1] /\ i + 1 \in 1 .. Len(q)
         /\ \A i \in 1 .. Len(q) : i # 1 => i - 1 \in 1 .. Len(q) - 1
<1>1. /\ Tail(q) \in Seq(T) /\ Len(Tail(q)) = Len(q) - 1 /\ Head(q) \in T
      /\ \A i \in 1 .. Len(Tail(q)) : Tail(q)[i] = q[i + 1]
  BY HeadTailProperties
<1>2. Len(q) \in Nat \ {0} /\ DOMAIN q = 1 .. Len(q)
  BY EmptySeq, LenProperties
<1>3. DOMAIN Tail(q) = 1 .. Len(q) - 1
  BY <1>1, LenProperties
<1>4. Head(q) = q[1]
  OBVIOUS
<1> QED
  BY <1>1, <1>2, <1>3, <1>4

\* Elements that decide nothing do not change the outcome.
LEMMA OutcomeKept ==
  ASSUME NEW T, NEW q \in Seq(T), NEW s \in Seq(T), NEW S, NEW good, NEW o,
         Outcome(q, S, good, o), \A i \in DOMAIN s : s[i] \notin S
  PROVE  Outcome(q \o s, S, good, o)
<1> DEFINE r == q \o s
<1>1. /\ DOMAIN r = 1 .. Len(q) + Len(s) /\ Len(q) \in Nat /\ Len(s) \in Nat
      /\ DOMAIN q = 1 .. Len(q) /\ DOMAIN s = 1 .. Len(s)
      /\ \A i \in 1 .. Len(q) : r[i] = q[i]
      /\ \A i \in 1 .. Len(s) : r[Len(q) + i] = s[i]
      /\ \A i \in 1 .. Len(q) + Len(s) : i > Len(q) => i - Len(q) \in 1 .. Len(s)
  BY Joined
<1> HIDE DEF r
<1>2. \A i \in DOMAIN r : r[i] \in S => i \in DOMAIN q /\ r[i] = q[i]
  <2> SUFFICES ASSUME NEW i \in DOMAIN r, i > Len(q) PROVE r[i] \notin S
    BY <1>1
  <2>1. i - Len(q) \in 1 .. Len(s) /\ Len(q) + (i - Len(q)) = i
    BY <1>1
  <2>2. r[i] = s[i - Len(q)]
    BY <1>1, <2>1
  <2> QED
    BY <1>1, <2>1, <2>2
<1>3. \A i \in DOMAIN q : i \in DOMAIN r /\ r[i] = q[i]
  BY <1>1
<1>4. Outcome(r, S, good, o)
  BY <1>2, <1>3 DEF Outcome
<1> QED
  BY <1>4 DEF r

\* If the last element decides, it alone does.
LEMMA OutcomeSet ==
  ASSUME NEW T, NEW q \in Seq(T), NEW s \in Seq(T), NEW S, NEW good, NEW o,
         s # <<>>, s[Len(s)] \in S \cap good
  PROVE  Outcome(q \o s, S, good, o)
<1> DEFINE r == q \o s
<1>1. /\ DOMAIN r = 1 .. Len(q) + Len(s) /\ Len(q) \in Nat /\ Len(s) \in Nat
      /\ \A i \in 1 .. Len(s) : r[Len(q) + i] = s[i]
  BY Joined
<1>2. Len(s) > 0
  BY <1>1, EmptySeq
<1> HIDE DEF r
<1> DEFINE l == Len(q) + Len(s)
<1>3. l \in DOMAIN r /\ r[l] \in S \cap good /\ \A i \in DOMAIN r : i # l => l > i
  BY <1>1, <1>2
<1> HIDE DEF l
<1>4. Outcome(r, S, good, o)
  BY <1>3 DEF Outcome
<1> QED
  BY <1>4 DEF r

\* Once the first element has been dealt with.
LEMMA OutcomeServed ==
  ASSUME NEW T, NEW q \in Seq(T), NEW S, NEW good, NEW o, NEW p, q # <<>>,
         Outcome(q, S, good, o),
         Head(q) \in S /\ Head(q) \in good => p,
         Head(q) \notin S /\ o => p
  PROVE  Outcome(Tail(q), S, good, p)
<1> DEFINE r == Tail(q)
<1>1. /\ Len(q) \in Nat \ {0}
      /\ DOMAIN q = 1 .. Len(q) /\ DOMAIN r = 1 .. Len(q) - 1
      /\ Head(q) = q[1]
      /\ \A i \in 1 .. Len(q) - 1 : r[i] = q[i + 1] /\ i + 1 \in 1 .. Len(q)
      /\ \A i \in 1 .. Len(q) : i # 1 => i - 1 \in 1 .. Len(q) - 1
  BY Shortened
<1> HIDE DEF r
<1>2. ASSUME NEW i \in DOMAIN q, i # 1
      PROVE  i - 1 \in DOMAIN r /\ r[i - 1] = q[i]
  <2>1. i - 1 \in 1 .. Len(q) - 1 /\ (i - 1) + 1 = i
    BY <1>1, <1>2
  <2> QED
    BY <1>1, <2>1
<1>3. ASSUME NEW i \in DOMAIN r, r[i] \in S, \A j \in DOMAIN r : j > i => r[j] \notin S
      PROVE  r[i] \in good
  <2>1. i + 1 \in DOMAIN q /\ q[i + 1] = r[i]
    BY <1>1
  <2>2. ASSUME NEW j \in DOMAIN q, j > i + 1 PROVE q[j] \notin S
    <3>1. j # 1 /\ j - 1 > i
      BY <1>1, <2>2
    <3> QED
      BY <1>2, <1>3, <3>1
  <2> QED
    BY <1>3, <2>1, <2>2 DEF Outcome
<1>4. ASSUME \A i \in DOMAIN r : r[i] \notin S
      PROVE  p
  <2>1. \A i \in DOMAIN q : i # 1 => q[i] \notin S
    BY <1>2, <1>4
  <2>2. 1 \in DOMAIN q /\ \A j \in DOMAIN q : j > 1 => j # 1
    BY <1>1
  <2>3. CASE Head(q) \in S
    BY <1>1, <2>1, <2>2, <2>3 DEF Outcome
  <2>4. CASE Head(q) \notin S
    BY <1>1, <2>1, <2>4 DEF Outcome
  <2> QED
    BY <2>3, <2>4
<1>5. Outcome(r, S, good, p)
  BY <1>3, <1>4 DEF Outcome
<1> QED
  BY <1>5 DEF r
-----------------------------------------------------------------------------
(* The window. *)

\* stopVideoSending, with what the handler asks of the worker besides.
LEMMA StopSending ==
  ASSUME requests \in Seq(Requests), {m_videoSending, m_cameraRunning', 
                                      m_networkSettingsValid'} \subseteq BOOLEAN,
         NEW r \in {<<>>, <<"stopCamera">>}, StopVideoSendingAnd(r),
         EncoderAgrees, UNCHANGED m_videoEncodingEnabled
  PROVE  /\ requests' \in Seq(Requests) /\ m_videoSending' = FALSE
         /\ sendButtons' \in {{}, {"test"}, {"start", "test"}, {"stop"}}
         /\ ControlsMatch'
         /\ EncoderAgrees'
         /\ NoCameraRequest' => NoCameraRequest /\ r = <<>>
<1> DEFINE off == {"stopEncoding", "stopCamera"}
           s == IF m_videoSending THEN <<"stopEncoding">> ELSE <<>>
<1>1. /\ m_videoSending' = FALSE /\ requests' = (requests \o s) \o r
      /\ sendButtons' = {b \in {"start", "test"} :
                           m_networkSettingsValid' /\ (b = "start" => m_cameraRunning')}
  BY DEF StopVideoSendingAnd, UpdateVideoSendUi
<1>2. /\ <<>> \in Seq(Requests) /\ <<"stopEncoding">> \in Seq(Requests)
      /\ <<"stopCamera">> \in Seq(Requests)
  BY DEF Requests
<1>3. s \in Seq(Requests) /\ r \in Seq(Requests)
  BY <1>2
<1>4. /\ sendButtons' \in {{}, {"test"}, {"start", "test"}, {"stop"}}
      /\ ControlsMatch'
  BY <1>1 DEF ControlsMatch
<1>5. Outcome(requests \o s, Switching, off, m_videoEncodingEnabled = FALSE)
  <2>1. CASE m_videoSending
    <3>1. s = <<"stopEncoding">> /\ s # <<>> /\ s[Len(s)] \in Switching \cap off
      BY <2>1 DEF Switching
    <3> QED
      BY <1>2, <3>1, OutcomeSet
  <2>2. CASE ~m_videoSending
    <3>1. s = <<>> /\ m_videoSending = FALSE
      BY <2>2
    <3>2. requests \o s = requests
      BY <3>1, ConcatEmptySeq
    <3> QED
      BY <3>1, <3>2 DEF EncoderAgrees
  <2> QED
    BY <2>1, <2>2
<1> DEFINE q == requests \o s
<1>6. q \in Seq(Requests) /\ Outcome(q, Switching, off, m_videoEncodingEnabled = FALSE)
  BY <1>3, <1>5, ConcatProperties
<1>7. \A i \in DOMAIN requests : i \in DOMAIN q /\ q[i] = requests[i]
  BY <1>3, Joined
<1>8. requests' = q \o r
  BY <1>1
<1> HIDE DEF q, s
<1>9. /\ requests' \in Seq(Requests)
      /\ \A i \in DOMAIN q : i \in DOMAIN requests' /\ requests'[i] = q[i]
  BY <1>3, <1>6, <1>8, Joined
<1>10. Outcome(requests', Switching, off, m_videoEncodingEnabled = FALSE)
  <2>1. CASE r = <<>>
    BY <1>6, <1>8, <2>1, ConcatEmptySeq
  <2>2. CASE r = <<"stopCamera">>
    <3>1. r # <<>> /\ r[Len(r)] \in Switching \cap off
      BY <2>2 DEF Switching
    <3> QED
      BY <1>3, <1>6, <1>8, <3>1, OutcomeSet
  <2> QED
    BY <2>1, <2>2
<1>11. EncoderAgrees'
  BY <1>1, <1>10 DEF EncoderAgrees
<1>12. NoCameraRequest' => NoCameraRequest /\ r = <<>>
  <2> SUFFICES ASSUME NoCameraRequest' PROVE NoCameraRequest /\ r = <<>>
    OBVIOUS
  <2>1. NoCameraRequest
    BY <1>7, <1>9 DEF NoCameraRequest
  <2>2. r # <<"stopCamera">>
    <3> SUFFICES ASSUME r = <<"stopCamera">> PROVE FALSE
      OBVIOUS
    <3>1. /\ Len(q) \in Nat /\ Len(r) = 1 /\ r[1] = "stopCamera"
          /\ DOMAIN requests' = 1 .. Len(q) + Len(r)
          /\ \A i \in 1 .. Len(r) : requests'[Len(q) + i] = r[i]
      BY <1>3, <1>6, <1>8, Joined
    <3>2. Len(q) + 1 \in DOMAIN requests' /\ requests'[Len(q) + 1] = "stopCamera"
      BY <3>1
    <3> QED
      BY <3>2 DEF NoCameraRequest
  <2> QED
    BY <2>1, <2>2
<1> QED
  BY <1>1, <1>4, <1>9, <1>11, <1>12

\* The other requests.
LEMMA Asking ==
  ASSUME requests \in Seq(Requests), NEW r \in Requests, requests' = Append(requests, r)
  PROVE  /\ requests' \in Seq(Requests) /\ requests' = requests \o <<r>>
         /\ NoCameraRequest' => NoCameraRequest /\ r \notin {"startCamera", "stopCamera"}
<1>1. /\ requests' \in Seq(Requests)
      /\ DOMAIN requests = 1 .. Len(requests) /\ Len(requests) \in Nat
      /\ DOMAIN requests' = 1 .. Len(requests) + 1
      /\ \A i \in 1 .. Len(requests) : requests'[i] = requests[i]
      /\ requests'[Len(requests) + 1] = r
  BY AppendProperties, LenProperties
<1>2. requests' = requests \o <<r>>
  BY AppendIsConcat
<1>3. ASSUME NoCameraRequest'
      PROVE  NoCameraRequest /\ r \notin {"startCamera", "stopCamera"}
  <2>1. /\ Len(requests) + 1 \in DOMAIN requests'
        /\ \A i \in DOMAIN requests : i \in DOMAIN requests'
    BY <1>1
  <2> QED
    BY <1>1, <1>3, <2>1 DEF NoCameraRequest
<1> QED
  BY <1>1, <1>2, <1>3
-----------------------------------------------------------------------------
LEMMA InParts == (TypeOK <=> Types) /\ (TypeOK' <=> Types')
BY DEF TypeOK, Types, WindowTypes, WorkerTypes, Requests, Event

LEMMA InitInv == Init => IInv
<1> SUFFICES ASSUME Init PROVE IInv
  OBVIOUS
<1>1. /\ 0 \in 0 .. CaptureBound /\ 0 \in 0 .. MaxConsecutiveReadFailures - 1
      /\ captured = 0 /\ 0 \in Nat
  BY LimitsAssumption DEF Init
<1>2. /\ <<>> \in Seq(Requests) /\ <<>> \in Seq(Event) /\ <<>> \in Seq(1 .. CaptureBound)
      /\ DOMAIN <<>> = {}
  OBVIOUS
<1>3. TypeOK
  BY <1>1, <1>2, InParts DEF Init, Types, WindowTypes, WorkerTypes
<1>4. QueueInOrder
  BY <1>2 DEF Init, QueueInOrder, InOrder
<1>5. EncoderInOrder
  BY <1>1 DEF Init, EncoderInOrder, NewFrameToEncode
<1>6. WindowInv
  BY DEF Init, WindowInv, NothingOutlivesCamera, ControlsMatch
<1>7. EncoderAgrees
  BY <1>2 DEF Init, EncoderAgrees, Outcome
<1>8. CameraAgrees
  BY <1>2 DEF Init, CameraAgrees, Outcome, PanelMatches
<1> QED
  BY <1>3, <1>4, <1>5, <1>6, <1>7, <1>8 DEF IInv, PicturesInv

\* A click, which leaves the worker and what comes from it alone.
LEMMA ClickInv ==
  ASSUME IInv, UNCHANGED <<workerVars, events, sent>>,
         WindowTypes', WindowInv', requests' \in Seq(Requests), EncoderAgrees',
         NoCameraRequest' => NoCameraRequest /\ UNCHANGED <<m_cameraRunning, cameraButtons>>
  PROVE  IInv'
<1>1. TypeOK'
  BY InParts DEF IInv, PicturesInv, Types, WorkerTypes, workerVars, captureVars, encoderVars
<1>2. QueueInOrder' /\ EncoderInOrder'
  BY DEF IInv, PicturesInv, QueueInOrder, InOrder, EncoderInOrder, NewFrameToEncode,
         Newest, workerVars, captureVars, encoderVars
<1>3. CameraAgrees'
  BY DEF IInv, CameraAgrees, Outcome, PanelMatches, workerVars, captureVars
<1> QED
  BY <1>1, <1>2, <1>3 DEF IInv, PicturesInv

\* The window takes an event off its queue.
LEMMA HandledInv ==
  ASSUME IInv, events # <<>>, events' = Tail(events), UNCHANGED workerVars,
         WindowTypes', WindowInv', requests' \in Seq(Requests), EncoderAgrees',
         \/ UNCHANGED sent
         \/ Head(events).type = "jpeg" /\ sent' = Append(sent, Head(events).frame),
         IF Head(events) \in Deciding
         THEN /\ m_cameraRunning' = (Head(events).type = "started")
              /\ cameraButtons' = IF m_cameraRunning' THEN {"stop"} ELSE {"start"}
         ELSE /\ UNCHANGED <<m_cameraRunning, cameraButtons>>
              /\ NoCameraRequest' => NoCameraRequest
  PROVE  IInv'
<1> DEFINE e == Head(events)
<1>1. /\ events \in Seq(Event) /\ sent \in Seq(1 .. CaptureBound)
      /\ captured \in Nat /\ CaptureBound \in Nat
  BY InParts, LimitsAssumption DEF IInv, PicturesInv, Types, WorkerTypes
<1>2. /\ events' \in Seq(Event) /\ Len(events) \in Nat \ {0}
      /\ DOMAIN events = 1 .. Len(events) /\ DOMAIN events' = 1 .. Len(events) - 1
      /\ e = events[1] /\ e \in Event
      /\ \A i \in 1 .. Len(events) - 1 : events'[i] = events[i + 1]
                                         /\ i + 1 \in 1 .. Len(events)
  BY <1>1, Shortened
<1>3. /\ 1 \in DOMAIN events
      /\ \A i \in DOMAIN events' : /\ i + 1 \in DOMAIN events /\ 1 < i + 1
                                   /\ events'[i] = events[i + 1]
  BY <1>2
<1>4. /\ DOMAIN sent = 1 .. Len(sent) /\ Len(sent) \in Nat
      /\ \A i \in DOMAIN sent : sent[i] \in Nat
  BY <1>1, LenProperties
<1>5. UNCHANGED <<captured, m_latestBgrFrame, m_latestFrameSerial, m_lastEncodedFrameSerial,
                  m_running>>
  BY DEF workerVars, captureVars, encoderVars
<1>6. QueueInOrder
  BY DEF IInv, PicturesInv
<1> HIDE DEF e
<1>7. ASSUME UNCHANGED sent
      PROVE  sent' \in Seq(1 .. CaptureBound) /\ QueueInOrder' /\ EncoderInOrder'
  <2>1. QueueInOrder'
    BY <1>3, <1>5, <1>6, <1>7 DEF QueueInOrder, InOrder
  <2>2. EncoderInOrder'
    BY <1>3, <1>5, <1>7 DEF IInv, PicturesInv, EncoderInOrder, NewFrameToEncode, Newest
  <2> QED
    BY <1>1, <1>7, <2>1, <2>2
<1>8. ASSUME e.type = "jpeg", sent' = Append(sent, e.frame)
      PROVE  sent' \in Seq(1 .. CaptureBound) /\ QueueInOrder' /\ EncoderInOrder'
  <2>1. e.frame \in 1 .. captured /\ e.frame \in 1 .. CaptureBound
    <3>1. e.frame \in 1 .. captured
      BY <1>2, <1>3, <1>6, <1>8 DEF QueueInOrder, InOrder
    <3>2. captured \in 0 .. CaptureBound
      BY InParts DEF IInv, PicturesInv, Types, WorkerTypes
    <3> QED
      BY <1>1, <3>1, <3>2
  <2>2. /\ sent' \in Seq(1 .. CaptureBound) /\ DOMAIN sent' = 1 .. Len(sent) + 1
        /\ \A i \in 1 .. Len(sent) : sent'[i] = sent[i]
        /\ sent'[Len(sent) + 1] = e.frame
    BY <1>1, <1>8, <2>1, AppendProperties, LenProperties
  <2>3. \A i \in DOMAIN sent' : \/ i \in DOMAIN sent /\ sent'[i] = sent[i]
                                \/ i = Len(sent) + 1 /\ sent'[i] = e.frame
    BY <1>4, <2>2
  <2>4. /\ \A i \in DOMAIN sent : sent[i] < e.frame
        /\ \A j \in DOMAIN events' : events'[j].type = "jpeg" => e.frame < events'[j].frame
    BY <1>2, <1>3, <1>6, <1>8 DEF QueueInOrder, InOrder
  <2>5. QueueInOrder'
    <3>1. \A i, j \in DOMAIN sent' : i < j => sent'[i] < sent'[j]
      <4> SUFFICES ASSUME NEW i \in DOMAIN sent', NEW j \in DOMAIN sent', i < j
                   PROVE  sent'[i] < sent'[j]
        OBVIOUS
      <4>1. i \in DOMAIN sent /\ sent'[i] = sent[i]
        BY <1>4, <2>2, <2>3
      <4>2. CASE j \in DOMAIN sent /\ sent'[j] = sent[j]
        BY <1>6, <4>1, <4>2 DEF QueueInOrder, InOrder
      <4>3. CASE sent'[j] = e.frame
        BY <2>4, <4>1, <4>3
      <4> QED
        BY <2>3, <4>2, <4>3
    <3>2. \A i, j \in DOMAIN events' :
            i < j /\ events'[i].type = "jpeg" /\ events'[j].type = "jpeg"
              => events'[i].frame < events'[j].frame
      <4> SUFFICES ASSUME NEW i \in DOMAIN events', NEW j \in DOMAIN events', i < j,
                          events'[i].type = "jpeg", events'[j].type = "jpeg"
                   PROVE  events'[i].frame < events'[j].frame
        OBVIOUS
      <4>1. i + 1 < j + 1
        BY <1>2
      <4> QED
        BY <1>3, <1>6, <4>1 DEF QueueInOrder, InOrder
    <3>3. \A i \in DOMAIN sent', j \in DOMAIN events' :
            events'[j].type = "jpeg" => sent'[i] < events'[j].frame
      BY <1>3, <1>6, <2>3, <2>4 DEF QueueInOrder, InOrder
    <3>4. \A i \in DOMAIN sent' : sent'[i] <= captured'
      BY <1>1, <1>5, <1>6, <2>1, <2>3 DEF QueueInOrder, InOrder
    <3>5. \A j \in DOMAIN events' : events'[j].type = "jpeg"
                                      => events'[j].frame \in 1 .. captured'
      BY <1>3, <1>5, <1>6 DEF QueueInOrder, InOrder
    <3> QED
      BY <3>1, <3>2, <3>3, <3>4, <3>5 DEF QueueInOrder, InOrder
  <2>6. EncoderInOrder'
    <3>1. EncoderInOrder /\ \A i \in DOMAIN sent' :
            \/ i \in DOMAIN sent /\ sent'[i] = sent[i]
            \/ 1 \in DOMAIN events /\ events[1].type = "jpeg" /\ sent'[i] = events[1].frame
      BY <1>2, <1>3, <1>8, <2>3 DEF IInv, PicturesInv
    <3> QED
      BY <1>3, <1>5, <3>1 DEF EncoderInOrder, NewFrameToEncode, Newest
  <2> QED
    BY <2>2, <2>5, <2>6
<1>9. sent' \in Seq(1 .. CaptureBound) /\ QueueInOrder' /\ EncoderInOrder'
  <2>1. UNCHANGED sent \/ (e.type = "jpeg" /\ sent' = Append(sent, e.frame))
    BY DEF e
  <2> QED
    BY <1>7, <1>8, <2>1
<1>10. TypeOK'
  BY <1>2, <1>9, InParts DEF IInv, PicturesInv, Types, WorkerTypes, workerVars, captureVars,
     encoderVars
<1>11. CameraAgrees'
  <2> DEFINE good == {d \in Event : (d.type = "started") = m_running}
             o == NoCameraRequest => PanelMatches
             p == (NoCameraRequest => PanelMatches)'
  <2>1. Outcome(events, Deciding, good, o)
    BY DEF IInv, CameraAgrees
  <2>2. e \in Deciding /\ e \in good => p
    BY <1>5 DEF PanelMatches, e
  <2>3. e \notin Deciding /\ o => p
    BY <1>5 DEF PanelMatches, e
  <2> HIDE DEF good, o, p
  <2>4. Outcome(Tail(events), Deciding, good, p)
    BY <1>1, <2>1, <2>2, <2>3, OutcomeServed DEF e
  <2> QED
    BY <1>5, <2>4 DEF CameraAgrees, good, p
<1> QED
  BY <1>9, <1>10, <1>11 DEF IInv, PicturesInv

\* What the steps of the window start from.
LEMMA WindowFacts ==
  ASSUME IInv
  PROVE  /\ WindowTypes /\ WindowInv /\ requests \in Seq(Requests) /\ EncoderAgrees
         /\ {m_cameraRunning, m_videoSending, m_networkSettingsValid, m_lastFrame}
              \subseteq BOOLEAN
BY InParts DEF IInv, PicturesInv, Types, WindowTypes

LEMMA StartCameraClickInv ==
  ASSUME IInv, OnStartCameraClicked
  PROVE  IInv'
<1>1. /\ UNCHANGED <<workerVars, events, sent, m_videoSending, m_networkSettingsValid,
                     m_lastFrame, sendButtons>>
      /\ "start" \in cameraButtons /\ m_cameraRunning' = FALSE /\ cameraButtons' = {}
      /\ requests' = Append(requests, "startCamera")
  BY DEF OnStartCameraClicked, Click
<1>2. m_cameraRunning = FALSE
  BY <1>1, WindowFacts DEF WindowInv
<1>3. WindowTypes' /\ WindowInv'
  BY <1>1, <1>2, WindowFacts DEF WindowTypes, WindowInv, NothingOutlivesCamera, ControlsMatch
<1>4. /\ requests' \in Seq(Requests) /\ requests' = requests \o <<"startCamera">>
      /\ ~NoCameraRequest'
  <2>1. "startCamera" \in Requests
    BY DEF Requests
  <2> QED
    BY <1>1, <2>1, WindowFacts, Asking
<1>5. EncoderAgrees'
  <2>1. <<"startCamera">> \in Seq(Requests)
        /\ \A i \in DOMAIN <<"startCamera">> : <<"startCamera">>[i] \notin Switching
    BY DEF Requests, Switching
  <2>2. UNCHANGED m_videoEncodingEnabled
    BY <1>1 DEF workerVars, encoderVars
  <2> DEFINE s == <<"startCamera">>
             good == IF m_videoSending THEN {"startEncoding"}
                                       ELSE {"stopEncoding", "stopCamera"}
             o == m_videoEncodingEnabled = m_videoSending
  <2>3. requests \in Seq(Requests) /\ Outcome(requests, Switching, good, o)
    BY WindowFacts DEF EncoderAgrees
  <2>4. s \in Seq(Requests) /\ \A i \in DOMAIN s : s[i] \notin Switching
    BY <2>1
  <2> HIDE DEF s, good, o
  <2>5. Outcome(requests \o s, Switching, good, o)
    BY <2>3, <2>4, OutcomeKept
  <2> QED
    BY <1>1, <1>4, <2>2, <2>5 DEF EncoderAgrees, s, good, o
<1> QED
  BY <1>1, <1>3, <1>4, <1>5, ClickInv

LEMMA StartSendClickInv ==
  ASSUME IInv, OnStartVideoSendClicked
  PROVE  IInv'
<1>1. /\ UNCHANGED <<workerVars, events, sent, m_cameraRunning, m_networkSettingsValid,
                     m_lastFrame, cameraButtons>>
      /\ m_cameraRunning /\ m_networkSettingsValid
      /\ m_videoSending' = TRUE /\ sendButtons' = {"stop"}
      /\ requests' = Append(requests, "startEncoding")
  BY DEF OnStartVideoSendClicked, Click, UpdateVideoSendUi
<1>2. WindowTypes' /\ WindowInv'
  BY <1>1, WindowFacts DEF WindowTypes, WindowInv, NothingOutlivesCamera, ControlsMatch
<1>3. /\ requests' \in Seq(Requests) /\ requests' = requests \o <<"startEncoding">>
      /\ NoCameraRequest' => NoCameraRequest
  <2>1. "startEncoding" \in Requests
    BY DEF Requests
  <2> QED
    BY <1>1, <2>1, WindowFacts, Asking
<1>4. EncoderAgrees'
  <2> DEFINE s == <<"startEncoding">>
  <2>1. s \in Seq(Requests) /\ s # <<>> /\ s[Len(s)] \in Switching \cap {"startEncoding"}
    BY DEF Requests, Switching
  <2> HIDE DEF s
  <2>2. Outcome(requests \o s, Switching, {"startEncoding"},
                m_videoEncodingEnabled' = m_videoSending')
    BY <2>1, WindowFacts, OutcomeSet
  <2> QED
    BY <1>1, <1>3, <2>2 DEF EncoderAgrees, s
<1> QED
  BY <1>1, <1>2, <1>3, <1>4, ClickInv

\* The clicks that stop the sending.
LEMMA StoppingClickInv ==
  ASSUME IInv, \/ OnStopCameraClicked \/ OnApplyNetworkSettingsClicked
               \/ OnStopNetworkClicked \/ OnStopVideoSendClicked
  PROVE  IInv'
<1>1. /\ UNCHANGED <<workerVars, events, sent, m_cameraRunning, m_lastFrame>>
      /\ m_networkSettingsValid' \in BOOLEAN
      /\ \/ cameraButtons' = {} /\ StopVideoSendingAnd(<<"stopCamera">>)
         \/ UNCHANGED cameraButtons /\ StopVideoSendingAnd(<<>>)
  BY WindowFacts DEF OnStopCameraClicked, OnApplyNetworkSettingsClicked,
     OnStopNetworkClicked, OnStopVideoSendClicked, Click, StopVideoSending
<1>2. UNCHANGED m_videoEncodingEnabled
  BY <1>1 DEF workerVars, encoderVars
<1>3. /\ requests' \in Seq(Requests) /\ m_videoSending' = FALSE
      /\ sendButtons' \in {{}, {"test"}, {"start", "test"}, {"stop"}}
      /\ ControlsMatch' /\ EncoderAgrees'
      /\ NoCameraRequest' => NoCameraRequest /\ UNCHANGED cameraButtons
  BY <1>1, <1>2, WindowFacts, StopSending
<1>4. WindowTypes' /\ WindowInv'
  BY <1>1, <1>3, WindowFacts DEF WindowTypes, WindowInv, NothingOutlivesCamera
<1> QED
  BY <1>1, <1>3, <1>4, ClickInv
-----------------------------------------------------------------------------
LEMMA CameraStartedInv ==
  ASSUME IInv, OnCameraStarted
  PROVE  IInv'
<1>1. /\ events # <<>> /\ events' = Tail(events) /\ Head(events).type = "started"
      /\ UNCHANGED <<workerVars, m_networkSettingsValid, m_videoSending, m_lastFrame,
                     requests, sent>>
      /\ m_cameraRunning' = TRUE /\ cameraButtons' = {"stop"}
      /\ UpdateVideoSendUi
  BY DEF OnCameraStarted, Handles
<1>2. Head(events) \in Deciding
  <2>1. events \in Seq(Event)
    BY InParts DEF IInv, PicturesInv, Types
  <2> QED
    BY <1>1, <2>1, HeadTailProperties DEF Deciding
<1>3. WindowTypes' /\ WindowInv'
  <2>1. sendButtons' = IF m_videoSending THEN {"stop"}
                       ELSE {b \in {"start", "test"} : m_networkSettingsValid}
    BY <1>1 DEF UpdateVideoSendUi
  <2> QED
    BY <1>1, <2>1, WindowFacts DEF WindowTypes, WindowInv, NothingOutlivesCamera,
       ControlsMatch
<1>4. requests' \in Seq(Requests) /\ EncoderAgrees'
  BY <1>1, WindowFacts DEF EncoderAgrees, workerVars, encoderVars
<1> QED
  BY <1>1, <1>2, <1>3, <1>4, HandledInv

LEMMA CameraEndedInv ==
  ASSUME IInv, OnCameraStoppedOrError
  PROVE  IInv'
<1>1. /\ events # <<>> /\ events' = Tail(events) /\ Head(events).type \in {"stopped", "error"}
      /\ UNCHANGED <<workerVars, m_networkSettingsValid, sent>>
      /\ m_cameraRunning' = FALSE /\ m_lastFrame' = FALSE /\ cameraButtons' = {"start"}
      /\ StopVideoSendingAnd(<<>>)
  BY DEF OnCameraStoppedOrError, Handles, StopVideoSending
<1>2. Head(events) \in Deciding
  <2>1. events \in Seq(Event)
    BY InParts DEF IInv, PicturesInv, Types
  <2> QED
    BY <1>1, <2>1, HeadTailProperties DEF Deciding
<1>3. /\ requests' \in Seq(Requests) /\ m_videoSending' = FALSE
      /\ sendButtons' \in {{}, {"test"}, {"start", "test"}, {"stop"}}
      /\ ControlsMatch' /\ EncoderAgrees'
  <2>1. UNCHANGED m_videoEncodingEnabled
    BY <1>1 DEF workerVars, encoderVars
  <2> QED
    BY <1>1, <2>1, WindowFacts, StopSending
<1>4. WindowTypes' /\ WindowInv'
  BY <1>1, <1>3, WindowFacts DEF WindowTypes, WindowInv, NothingOutlivesCamera
<1> QED
  BY <1>1, <1>2, <1>3, <1>4, HandledInv

\* A picture to show, one to send, or an error of the encoding.
LEMMA PictureHandledInv ==
  ASSUME IInv, OnFrameReady \/ OnJpegFrameReady \/ OnVideoEncodingError
  PROVE  IInv'
<1>1. /\ events # <<>> /\ events' = Tail(events)
      /\ Head(events).type \in {"frame", "jpeg", "encodingError"}
      /\ UNCHANGED <<workerVars, m_networkSettingsValid, m_cameraRunning, cameraButtons>>
      /\ \/ UNCHANGED <<m_videoSending, sendButtons, requests>>
         \/ StopVideoSendingAnd(<<>>)
      /\ \/ UNCHANGED sent
         \/ Head(events).type = "jpeg" /\ sent' = Append(sent, Head(events).frame)
  BY DEF OnFrameReady, OnJpegFrameReady, OnVideoEncodingError, Handles, StopVideoSending
<1>2. Head(events) \notin Deciding
  BY <1>1 DEF Deciding
<1>3. UNCHANGED m_videoEncodingEnabled
  BY <1>1 DEF workerVars, encoderVars
<1>4. /\ requests' \in Seq(Requests) /\ EncoderAgrees' /\ ControlsMatch'
      /\ sendButtons' \in {{}, {"test"}, {"start", "test"}, {"stop"}}
      /\ m_videoSending' \in {m_videoSending, FALSE}
      /\ NoCameraRequest' => NoCameraRequest
  <2>1. CASE UNCHANGED <<m_videoSending, sendButtons, requests>>
    BY <1>1, <1>3, <2>1, WindowFacts DEF WindowTypes, WindowInv, ControlsMatch, EncoderAgrees,
       NoCameraRequest
  <2>2. CASE StopVideoSendingAnd(<<>>)
    BY <1>1, <1>3, <2>2, WindowFacts, StopSending
  <2> QED
    BY <1>1, <2>1, <2>2
<1>5. m_lastFrame' \in BOOLEAN /\ (m_lastFrame' => m_lastFrame \/ m_cameraRunning)
  BY WindowFacts DEF OnFrameReady, OnJpegFrameReady, OnVideoEncodingError
<1>6. WindowTypes'
  BY <1>1, <1>4, <1>5, WindowFacts DEF WindowTypes
<1>7. WindowInv'
  <2>1. /\ m_videoSending => m_cameraRunning /\ m_networkSettingsValid
        /\ m_lastFrame => m_cameraRunning
        /\ "start" \in cameraButtons => ~m_cameraRunning
    BY WindowFacts DEF WindowInv, NothingOutlivesCamera
  <2>2. m_videoSending' => m_videoSending
    BY <1>4
  <2>3. NothingOutlivesCamera'
    BY <1>1, <1>5, <2>1, <2>2, Zenon DEF NothingOutlivesCamera
  <2> QED
    BY <1>1, <1>4, <2>1, <2>3 DEF WindowInv
<1> QED
  BY <1>1, <1>2, <1>4, <1>6, <1>7, HandledInv
-----------------------------------------------------------------------------
(* The worker. *)

\* A signal other than a picture to be sent is put behind the queue.
LEMMA PlainSignal ==
  ASSUME NEW q \in Seq(Event), NEW e \in Event, e.type # "jpeg",
         NEW pictures, NEW last \in Nat, NEW later \in Nat, last <= later,
         \A i \in DOMAIN pictures : pictures[i] \in Nat,
         InOrder(pictures, q, last)
  PROVE  /\ q \o <<e>> \in Seq(Event) /\ InOrder(pictures, q \o <<e>>, later)
         /\ \A f : Newest(f, pictures, q) => Newest(f, pictures, q \o <<e>>)
<1> DEFINE s == <<e>>
           r == q \o s
<1>2. /\ r \in Seq(Event) /\ DOMAIN r = 1 .. Len(q) + 1 /\ Len(q) \in Nat
      /\ DOMAIN q = 1 .. Len(q)
      /\ \A i \in 1 .. Len(q) : r[i] = q[i]
      /\ r[Len(q) + 1] = e
  BY Extended DEF s
<1> HIDE DEF r, s
<1>3. \A i \in DOMAIN r : r[i].type = "jpeg" => i \in DOMAIN q /\ r[i] = q[i]
  BY <1>2
<1>4. InOrder(pictures, r, later)
  <2>1. \A i \in DOMAIN pictures : pictures[i] <= later
    BY DEF InOrder
  <2>2. \A i \in DOMAIN r : r[i].type = "jpeg" => r[i].frame \in 1 .. later
    BY <1>3 DEF InOrder
  <2>3. /\ \A i, j \in DOMAIN r :
             i < j /\ r[i].type = "jpeg" /\ r[j].type = "jpeg" => r[i].frame < r[j].frame
        /\ \A i \in DOMAIN pictures, j \in DOMAIN r :
             r[j].type = "jpeg" => pictures[i] < r[j].frame
    BY <1>3 DEF InOrder
  <2> QED
    BY <2>1, <2>2, <2>3 DEF InOrder
<1>5. \A f : Newest(f, pictures, q) => Newest(f, pictures, r)
  BY <1>3 DEF Newest
<1> QED
  BY <1>2, <1>4, <1>5 DEF r, s

\* A picture newer than all before it is put behind the queue.
LEMMA PictureSignal ==
  ASSUME NEW q \in Seq(Event), NEW f \in 1 .. CaptureBound,
         NEW pictures, NEW last \in Nat, f <= last,
         InOrder(pictures, q, last), Newest(f, pictures, q)
  PROVE  LET e == [type |-> "jpeg", frame |-> f]
         IN e \in Event /\ q \o <<e>> \in Seq(Event) /\ InOrder(pictures, q \o <<e>>, last)
<1> DEFINE e == [type |-> "jpeg", frame |-> f]
           s == <<e>>
           r == q \o s
<1>1. e \in Event /\ e.type = "jpeg" /\ e.frame = f /\ f \in 1 .. last
  BY LimitsAssumption DEF Event
<1> HIDE DEF e
<1>3. /\ r \in Seq(Event) /\ DOMAIN r = 1 .. Len(q) + 1 /\ Len(q) \in Nat
      /\ DOMAIN q = 1 .. Len(q)
      /\ \A i \in 1 .. Len(q) : r[i] = q[i]
      /\ r[Len(q) + 1] = e
  BY <1>1, Extended DEF s
<1> HIDE DEF r, s
<1>4. \A i \in DOMAIN r : \/ i \in DOMAIN q /\ r[i] = q[i]
                          \/ i = Len(q) + 1 /\ r[i] = e
  BY <1>3
<1>5. InOrder(pictures, r, last)
  <2>1. ASSUME NEW i \in DOMAIN r, NEW j \in DOMAIN r, i < j,
               r[i].type = "jpeg", r[j].type = "jpeg"
        PROVE  r[i].frame < r[j].frame
    <3>1. i \in DOMAIN q /\ r[i] = q[i]
      BY <1>3, <2>1
    <3>2. CASE j \in DOMAIN q /\ r[j] = q[j]
      BY <2>1, <3>1, <3>2 DEF InOrder
    <3>3. CASE r[j] = e
      BY <1>1, <2>1, <3>1, <3>3 DEF Newest
    <3> QED
      BY <1>4, <3>2, <3>3
  <2>2. ASSUME NEW i \in DOMAIN pictures, NEW j \in DOMAIN r, r[j].type = "jpeg"
        PROVE  pictures[i] < r[j].frame
    BY <1>1, <1>4, <2>2 DEF InOrder, Newest
  <2>3. ASSUME NEW j \in DOMAIN r, r[j].type = "jpeg"
        PROVE  r[j].frame \in 1 .. last
    BY <1>1, <1>4, <2>3 DEF InOrder
  <2> QED
    BY <2>1, <2>2, <2>3 DEF InOrder
<1> QED
  BY <1>1, <1>3, <1>5 DEF r, s, e

\* What the steps of the worker start from.
LEMMA WorkerFacts ==
  ASSUME IInv
  PROVE  /\ WorkerTypes /\ requests \in Seq(Requests) /\ events \in Seq(Event)
         /\ EncoderAgrees /\ CameraAgrees /\ EncoderInOrder
         /\ InOrder(sent, events, captured)
         /\ \A i \in DOMAIN sent : sent[i] \in Nat
         /\ captured \in 0 .. CaptureBound /\ captured \in Nat /\ CaptureBound \in Nat
<1>1. Types
  BY InParts DEF IInv, PicturesInv
<1>2. \A i \in DOMAIN sent : sent[i] \in Nat
  <2>1. sent \in [1 .. Len(sent) -> 1 .. CaptureBound] /\ CaptureBound \in Nat
    BY <1>1, LimitsAssumption, LenProperties DEF Types
  <2> QED
    BY <2>1
<1> QED
  BY <1>1, <1>2, LimitsAssumption DEF IInv, PicturesInv, Types, WorkerTypes, QueueInOrder

\* A step of the worker, from its parts.
LEMMA WorkerInv ==
  ASSUME IInv, UNCHANGED windowVars, WorkerTypes',
         requests' \in Seq(Requests), events' \in Seq(Event),
         InOrder(sent, events', captured'), EncoderInOrder', EncoderAgrees', CameraAgrees'
  PROVE  IInv'
<1>1. TypeOK'
  BY InParts DEF IInv, PicturesInv, Types, WindowTypes, windowVars
<1>2. QueueInOrder'
  BY DEF QueueInOrder, windowVars
<1>3. WindowInv'
  BY DEF IInv, WindowInv, NothingOutlivesCamera, ControlsMatch, windowVars
<1> QED
  BY <1>1, <1>2, <1>3 DEF IInv, PicturesInv

\* The worker's answer about the camera settles what the window will go by.
LEMMA CameraSettled ==
  ASSUME NEW q \in Seq(Event), NEW e \in Deciding, events' = q \o <<e>>,
         (e.type = "started") = m_running'
  PROVE  CameraAgrees'
<1> DEFINE s == <<e>>
           good == {d \in Event : (d.type = "started") = m_running'}
           o == (NoCameraRequest => PanelMatches)'
<1>1. s \in Seq(Event) /\ s # <<>> /\ s[Len(s)] \in Deciding \cap good
  BY DEF Deciding
<1> HIDE DEF s, good, o
<1>2. Outcome(q \o s, Deciding, good, o)
  BY <1>1, OutcomeSet
<1> QED
  BY <1>2 DEF CameraAgrees, s, good, o

\* Other signals do not change it.
LEMMA CameraNotConcerned ==
  ASSUME CameraAgrees, NEW s \in Seq(Event), \A i \in DOMAIN s : s[i] \notin Deciding,
         events \in Seq(Event), events' = events \o s,
         UNCHANGED <<windowVars, m_running>>, NoCameraRequest' => NoCameraRequest
  PROVE  CameraAgrees'
<1> DEFINE good == {d \in Event : (d.type = "started") = m_running}
           o == NoCameraRequest => PanelMatches
           p == (NoCameraRequest => PanelMatches)'
<1>1. Outcome(events, Deciding, good, o)
  BY DEF CameraAgrees
<1>2. o => p
  BY DEF PanelMatches, windowVars
<1> HIDE DEF good, o, p
<1>3. Outcome(events \o s, Deciding, good, o)
  BY <1>1, OutcomeKept
<1>4. Outcome(events \o s, Deciding, good, p)
  BY <1>2, <1>3 DEF Outcome
<1> QED
  BY <1>4 DEF CameraAgrees, good, p

\* The worker takes a request off its queue.
LEMMA RequestServed ==
  ASSUME IInv, NEW r, Serves(r)
  PROVE  /\ r \in Requests /\ requests \in Seq(Requests) /\ requests # <<>>
         /\ requests' = Tail(requests) /\ requests' \in Seq(Requests)
         /\ Head(requests) = r /\ UNCHANGED <<windowVars, captured>>
         /\ r \notin {"startCamera", "stopCamera"} => (NoCameraRequest' => NoCameraRequest)
<1>1. /\ requests # <<>> /\ Head(requests) = r /\ requests' = Tail(requests)
      /\ UNCHANGED <<windowVars, captured>>
  BY DEF Serves
<1>2. /\ requests \in Seq(Requests) /\ requests' \in Seq(Requests) /\ r \in Requests
      /\ DOMAIN requests = 1 .. Len(requests) /\ Len(requests) \in Nat \ {0}
      /\ DOMAIN requests' = 1 .. Len(requests) - 1 /\ requests[1] = r
      /\ \A i \in 1 .. Len(requests) - 1 : requests'[i] = requests[i + 1]
      /\ \A i \in 1 .. Len(requests) : i # 1 => i - 1 \in 1 .. Len(requests) - 1
  BY <1>1, WorkerFacts, Shortened
<1>3. ASSUME NEW i \in DOMAIN requests, i # 1
      PROVE  i - 1 \in DOMAIN requests' /\ requests'[i - 1] = requests[i]
  <2>1. i - 1 \in 1 .. Len(requests) - 1 /\ (i - 1) + 1 = i
    BY <1>2, <1>3
  <2> QED
    BY <1>2, <2>1
<1>4. ASSUME r \notin {"startCamera", "stopCamera"}, NoCameraRequest'
      PROVE  NoCameraRequest
  BY <1>2, <1>3, <1>4 DEF NoCameraRequest
<1> QED
  BY <1>1, <1>2, <1>4

\* It has then become of the encoder what the request said, if it said anything.
LEMMA EncoderServed ==
  ASSUME IInv, NEW r, Serves(r),
         IF r \in Switching THEN m_videoEncodingEnabled' = (r = "startEncoding")
                            ELSE UNCHANGED m_videoEncodingEnabled
  PROVE  EncoderAgrees'
<1> DEFINE good == IF m_videoSending THEN {"startEncoding"} ELSE {"stopEncoding", "stopCamera"}
           o == m_videoEncodingEnabled = m_videoSending
           p == m_videoEncodingEnabled' = m_videoSending
<1>1. Outcome(requests, Switching, good, o) /\ m_videoSending \in BOOLEAN
  BY InParts DEF IInv, PicturesInv, Types, WindowTypes, EncoderAgrees
<1>2. /\ requests \in Seq(Requests) /\ requests # <<>> /\ requests' = Tail(requests)
      /\ Head(requests) = r /\ UNCHANGED m_videoSending
  BY RequestServed DEF windowVars
<1>3. r \in Switching /\ r \in good => p
  BY <1>1 DEF Switching
<1>4. r \notin Switching /\ o => p
  OBVIOUS
<1> HIDE DEF good, o, p
<1>5. Outcome(Tail(requests), Switching, good, p)
  BY <1>1, <1>2, <1>3, <1>4, OutcomeServed
<1> QED
  BY <1>2, <1>5 DEF EncoderAgrees, good, p

\* A signal about the camera, the encoding's errors or a picture to show.
LEMMA PlainEvent ==
  ASSUME IInv, NEW e \in Event, e.type # "jpeg", events' = events \o <<e>>,
         UNCHANGED <<windowVars, captured>>
  PROVE  /\ events' \in Seq(Event) /\ InOrder(sent, events', captured')
         /\ \A f : Newest(f, sent, events) => Newest(f, sent, events')
BY WorkerFacts, PlainSignal DEF windowVars

\* What the encoder holds is as before, or nothing.
LEMMA EncoderKept ==
  ASSUME IInv, UNCHANGED <<windowVars, captured>>,
         UNCHANGED encoderVars \/ DropLatestFrame,
         \A f : Newest(f, sent, events) => Newest(f, sent, events')
  PROVE  EncoderInOrder'
<1>1. CASE UNCHANGED encoderVars
  BY <1>1, WorkerFacts DEF EncoderInOrder, NewFrameToEncode, encoderVars, windowVars
<1>2. CASE DropLatestFrame
  BY <1>2, WorkerFacts DEF EncoderInOrder, NewFrameToEncode, DropLatestFrame
<1> QED
  BY <1>1, <1>2

LEMMA TypesDropped ==
  ASSUME WorkerTypes, DropLatestFrame, UNCHANGED captured,
         {m_running', m_videoEncodingEnabled', m_encodeFirstFrameImmediately'} \subseteq BOOLEAN,
         m_consecutiveReadFailures' \in {0, m_consecutiveReadFailures}
  PROVE  WorkerTypes'
<1>1. {m_running', m_videoEncodingEnabled', m_encodeFirstFrameImmediately',
       m_lastVideoEncodingError'} \subseteq BOOLEAN
  BY DEF DropLatestFrame
<1>2. m_consecutiveReadFailures' \in 0 .. MaxConsecutiveReadFailures - 1
  BY LimitsAssumption DEF WorkerTypes
<1>3. {captured', m_latestBgrFrame', m_latestFrameSerial', m_lastEncodedFrameSerial'}
        \subseteq 0 .. CaptureBound
  BY LimitsAssumption DEF WorkerTypes, DropLatestFrame
<1>4. m_latestFrameSerial' = 0 /\ m_latestBgrFrame' = 0
  BY DEF DropLatestFrame
<1> QED
  BY <1>1, <1>2, <1>3, <1>4 DEF WorkerTypes

LEMMA StartCameraInv ==
  ASSUME IInv, StartCamera
  PROVE  IInv'
<1> DEFINE e == Signal(IF m_running' THEN "started" ELSE "error")
<1>1. /\ Serves("startCamera") /\ UNCHANGED encoderVars
      /\ m_consecutiveReadFailures' = 0 /\ m_running' \in BOOLEAN
      /\ events' = events \o <<e>>
  BY DEF StartCamera, Emits
<1>2. /\ requests' \in Seq(Requests) /\ UNCHANGED <<windowVars, captured>>
      /\ e \in Deciding /\ e \in Event /\ e.type # "jpeg"
      /\ (e.type = "started") = m_running'
  <2>1. 0 \in 0 .. CaptureBound
    BY LimitsAssumption
  <2> QED
    BY <1>1, <2>1, RequestServed DEF Deciding, Event, Signal
<1> HIDE DEF e
<1>3. /\ events' \in Seq(Event) /\ InOrder(sent, events', captured')
      /\ EncoderInOrder'
  BY <1>1, <1>2, PlainEvent, EncoderKept
<1>4. WorkerTypes'
  BY <1>1, <1>2, WorkerFacts, LimitsAssumption DEF WorkerTypes, encoderVars
<1>5. EncoderAgrees'
  BY <1>1, EncoderServed DEF encoderVars, Switching
<1>6. CameraAgrees'
  BY <1>1, <1>2, WorkerFacts, CameraSettled
<1> QED
  BY <1>2, <1>3, <1>4, <1>5, <1>6, WorkerInv

LEMMA StopCameraInv ==
  ASSUME IInv, StopCamera
  PROVE  IInv'
<1> DEFINE e == Signal("stopped")
<1>1. /\ Serves("stopCamera") /\ DropLatestFrame
      /\ m_videoEncodingEnabled' = FALSE /\ m_encodeFirstFrameImmediately' = FALSE
      /\ m_consecutiveReadFailures' = 0 /\ m_running' = FALSE
      /\ events' = events \o <<e>>
  BY DEF StopCamera, StopEncoding, Emits
<1>2. /\ requests' \in Seq(Requests) /\ UNCHANGED <<windowVars, captured>>
      /\ e \in Deciding /\ e \in Event /\ e.type # "jpeg"
      /\ (e.type = "started") = m_running'
  <2>1. 0 \in 0 .. CaptureBound
    BY LimitsAssumption
  <2> QED
    BY <1>1, <2>1, RequestServed DEF Deciding, Event, Signal
<1> HIDE DEF e
<1>3. /\ events' \in Seq(Event) /\ InOrder(sent, events', captured')
      /\ EncoderInOrder'
  BY <1>1, <1>2, PlainEvent, EncoderKept
<1>4. WorkerTypes'
  BY <1>1, <1>2, WorkerFacts, TypesDropped
<1>5. EncoderAgrees'
  BY <1>1, EncoderServed DEF Switching
<1>6. CameraAgrees'
  BY <1>1, <1>2, WorkerFacts, CameraSettled
<1> QED
  BY <1>2, <1>3, <1>4, <1>5, <1>6, WorkerInv

\* startVideoEncoding and stopVideoEncoding.
LEMMA EncodingSwitchedInv ==
  ASSUME IInv, StartVideoEncoding \/ StopVideoEncoding
  PROVE  IInv'
<1>1. PICK r \in {"startEncoding", "stopEncoding"} :
         /\ Serves(r) /\ DropLatestFrame
         /\ m_videoEncodingEnabled' = (r = "startEncoding")
         /\ m_encodeFirstFrameImmediately' \in BOOLEAN
         /\ UNCHANGED <<m_running, m_consecutiveReadFailures, events>>
  BY DEF StartVideoEncoding, StopVideoEncoding, StopEncoding
<1>2. /\ requests' \in Seq(Requests) /\ UNCHANGED <<windowVars, captured>>
      /\ NoCameraRequest' => NoCameraRequest
  BY <1>1, RequestServed
<1>3. /\ events' \in Seq(Event) /\ InOrder(sent, events', captured')
      /\ EncoderInOrder'
  BY <1>1, <1>2, WorkerFacts, EncoderKept DEF windowVars
<1>4. WorkerTypes'
  <2>1. m_running' \in BOOLEAN /\ m_videoEncodingEnabled' \in BOOLEAN
    BY <1>1, WorkerFacts DEF WorkerTypes
  <2> QED
    BY <1>1, <1>2, <2>1, WorkerFacts, TypesDropped
<1>5. EncoderAgrees'
  BY <1>1, EncoderServed DEF Switching
<1>6. CameraAgrees'
  <2>1. events' = events \o <<>> /\ <<>> \in Seq(Event)
    BY <1>1, WorkerFacts, ConcatEmptySeq
  <2>2. \A i \in DOMAIN <<>> : <<>>[i] \notin Deciding
    OBVIOUS
  <2> QED
    BY <1>1, <1>2, <2>1, <2>2, WorkerFacts, CameraNotConcerned
<1> QED
  BY <1>2, <1>3, <1>4, <1>5, <1>6, WorkerInv

\* What EncodesAfter puts behind the events, after a picture to show or alone.
LEMMA Encoded ==
  ASSUME events \in Seq(Event), NEW signals \in Seq(Event),
         NEW f \in 1 .. CaptureBound, NEW last \in Nat, f <= last,
         \A i \in DOMAIN sent : sent[i] \in Nat,
         InOrder(sent, events \o signals, last), Newest(f, sent, events \o signals),
         NEW good, NEW o, Outcome(events \o signals, Deciding, good, o),
         NEW serial, EncodesAfter(signals, f, serial), m_lastVideoEncodingError \in BOOLEAN
  PROVE  /\ events' \in Seq(Event) /\ InOrder(sent, events', last)
         /\ Outcome(events', Deciding, good, o)
         /\ m_lastVideoEncodingError' \in BOOLEAN
         /\ \/ m_lastEncodedFrameSerial' = serial
            \/ UNCHANGED m_lastEncodedFrameSerial /\ Newest(f, sent, events')
<1> DEFINE q == events \o signals
           picture == [type |-> "jpeg", frame |-> f]
           error == Signal("encodingError")
<1>1. q \in Seq(Event)
  BY ConcatProperties
<1>2. /\ picture \in Event \ Deciding
      /\ error \in Event \ Deciding /\ error.type # "jpeg"
  BY LimitsAssumption DEF Event, Deciding, Signal
<1>3. ASSUME NEW e \in Event
      PROVE  <<e>> \in Seq(Event) /\ events \o Append(signals, e) = q \o <<e>>
  <2>1. <<e>> \in Seq(Event) /\ Append(signals, e) = signals \o <<e>>
    BY AppendIsConcat
  <2> QED
    BY <2>1, ConcatAssociative
<1>4. ASSUME NEW e \in Event \ Deciding
      PROVE  Outcome(q \o <<e>>, Deciding, good, o)
  <2> DEFINE s == <<e>>
  <2>1. s \in Seq(Event) /\ \A i \in DOMAIN s : s[i] \notin Deciding
    OBVIOUS
  <2> HIDE DEF s, q
  <2>2. Outcome(q \o s, Deciding, good, o)
    BY <1>1, <2>1, OutcomeKept DEF q
  <2> QED
    BY <2>2 DEF s
<1>5. CASE /\ m_lastEncodedFrameSerial' = serial /\ m_lastVideoEncodingError' = FALSE
           /\ events' = events \o Append(signals, picture)
  <2>1. events' = q \o <<picture>> /\ Outcome(events', Deciding, good, o)
    BY <1>2, <1>3, <1>4, <1>5
  <2>2. q \o <<picture>> \in Seq(Event) /\ InOrder(sent, q \o <<picture>>, last)
    <3> HIDE DEF q
    <3>1. InOrder(sent, q, last) /\ Newest(f, sent, q)
      BY DEF q
    <3> QED
      BY <1>1, <3>1, PictureSignal
  <2> QED
    BY <1>5, <2>1, <2>2
<1>6. CASE /\ m_lastVideoEncodingError' = TRUE /\ UNCHANGED m_lastEncodedFrameSerial
           /\ events' = events \o Append(signals, error)
  <2>1. events' = q \o <<error>> /\ Outcome(events', Deciding, good, o)
    BY <1>2, <1>3, <1>4, <1>6
  <2>2. /\ events' \in Seq(Event) /\ InOrder(sent, events', last)
        /\ Newest(f, sent, events')
    <3> HIDE DEF q, error
    <3>1. InOrder(sent, q, last) /\ Newest(f, sent, q)
      BY DEF q
    <3> QED
      BY <1>1, <1>2, <2>1, <3>1, PlainSignal
  <2> QED
    BY <1>6, <2>1, <2>2
<1>7. CASE /\ m_lastVideoEncodingError' = TRUE /\ UNCHANGED m_lastEncodedFrameSerial
           /\ events' = q
  BY <1>1, <1>7
<1> QED
  BY <1>5, <1>6, <1>7 DEF EncodesAfter, Emits

\* Requests, panel and camera as before: it is the events alone that count.
LEMMA CameraUndecided ==
  ASSUME UNCHANGED <<windowVars, m_running, requests>>,
         Outcome(events', Deciding, {e \in Event : (e.type = "started") = m_running},
                 NoCameraRequest => PanelMatches)
  PROVE  CameraAgrees'
BY DEF CameraAgrees, PanelMatches, NoCameraRequest, windowVars

LEMMA EncodeLatestInv ==
  ASSUME IInv, EncodeLatestVideoFrame
  PROVE  IInv'
<1> DEFINE good == {e \in Event : (e.type = "started") = m_running}
           o == NoCameraRequest => PanelMatches
<1>1. /\ UNCHANGED <<windowVars, captureVars, m_videoEncodingEnabled,
                     m_encodeFirstFrameImmediately, m_latestBgrFrame, m_latestFrameSerial,
                     requests>>
      /\ NewFrameToEncode /\ EncodesAfter(<<>>, m_latestBgrFrame, m_latestFrameSerial)
  BY DEF EncodeLatestVideoFrame
<1>2. /\ m_latestBgrFrame \in 1 .. CaptureBound /\ m_latestBgrFrame <= captured
      /\ m_latestFrameSerial <= captured /\ m_lastEncodedFrameSerial <= captured
      /\ m_latestFrameSerial \in 0 .. CaptureBound
      /\ m_lastEncodedFrameSerial \in 0 .. CaptureBound
      /\ m_lastVideoEncodingError \in BOOLEAN
      /\ Newest(m_latestBgrFrame, sent, events)
  BY <1>1, WorkerFacts DEF WorkerTypes, EncoderInOrder, NewFrameToEncode
<1>3. <<>> \in Seq(Event) /\ events \o <<>> = events
  BY WorkerFacts, ConcatEmptySeq
<1>4. Outcome(events, Deciding, good, o)
  BY WorkerFacts DEF CameraAgrees
<1> HIDE DEF good, o
<1>5. /\ events' \in Seq(Event) /\ InOrder(sent, events', captured)
      /\ Outcome(events', Deciding, good, o)
      /\ m_lastVideoEncodingError' \in BOOLEAN
      /\ \/ m_lastEncodedFrameSerial' = m_latestFrameSerial
         \/ UNCHANGED m_lastEncodedFrameSerial
            /\ Newest(m_latestBgrFrame, sent, events')
  BY <1>1, <1>2, <1>3, <1>4, WorkerFacts, Encoded
<1>6. WorkerTypes'
  BY <1>1, <1>2, <1>5, WorkerFacts DEF WorkerTypes, captureVars
<1>7. EncoderInOrder'
  BY <1>1, <1>2, <1>5 DEF EncoderInOrder, NewFrameToEncode, captureVars, windowVars
<1>8. CameraAgrees'
  BY <1>1, <1>5, CameraUndecided DEF captureVars, good, o
<1>9. EncoderAgrees'
  BY <1>1, WorkerFacts DEF EncoderAgrees, windowVars
<1>10. requests' \in Seq(Requests) /\ InOrder(sent, events', captured')
  BY <1>1, <1>5, WorkerFacts DEF captureVars
<1> QED
  BY <1>1, <1>5, <1>6, <1>7, <1>8, <1>9, <1>10, WorkerInv

\* A new picture is newer than all those under way or sent.
LEMMA CaptureInv ==
  ASSUME IInv, CaptureFrame
  PROVE  IInv'
<1> DEFINE good == {e \in Event : (e.type = "started") = m_running}
           o == NoCameraRequest => PanelMatches
           frame == Signal("frame")
           s == <<frame>>
           q == events \o s
<1>1. /\ UNCHANGED <<windowVars, m_running, m_videoEncodingEnabled, requests>>
      /\ captured < CaptureBound /\ captured' = captured + 1
      /\ m_consecutiveReadFailures' = 0
      /\ \/ /\ ~m_videoEncodingEnabled /\ UNCHANGED encoderVars /\ events' = q
         \/ /\ m_videoEncodingEnabled /\ m_latestBgrFrame' = captured'
            /\ m_latestFrameSerial' = m_latestFrameSerial + 1
            /\ m_encodeFirstFrameImmediately' = FALSE
            /\ \/ EncodesAfter(s, captured', m_latestFrameSerial')
               \/ /\ events' = q
                  /\ UNCHANGED <<m_lastEncodedFrameSerial, m_lastVideoEncodingError>>
  BY DEF CaptureFrame, Emits
<1>2. /\ captured \in Nat /\ captured' \in 1 .. CaptureBound /\ captured' \in Nat
      /\ captured <= captured' /\ captured < captured' /\ captured' = captured + 1
      /\ m_latestFrameSerial \in 0 .. CaptureBound /\ m_latestFrameSerial <= captured
      /\ m_latestBgrFrame \in 0 .. CaptureBound /\ m_latestBgrFrame <= captured
      /\ m_lastEncodedFrameSerial \in 0 .. CaptureBound /\ m_lastEncodedFrameSerial <= captured
      /\ m_lastVideoEncodingError \in BOOLEAN
  BY <1>1, WorkerFacts DEF WorkerTypes, EncoderInOrder
<1>3. /\ frame \in Event /\ frame.type # "jpeg" /\ frame \notin Deciding
      /\ s \in Seq(Event) /\ \A i \in DOMAIN s : s[i] \notin Deciding
  BY LimitsAssumption DEF Event, Deciding, Signal
<1>4. /\ events \in Seq(Event) /\ \A i \in DOMAIN sent : sent[i] \in Nat
      /\ InOrder(sent, events, captured) /\ EncoderInOrder
      /\ Outcome(events, Deciding, good, o)
  BY WorkerFacts DEF CameraAgrees
<1> HIDE DEF good, o, frame
<1>5. /\ q \in Seq(Event) /\ InOrder(sent, q, captured) /\ InOrder(sent, q, captured')
      /\ \A f : Newest(f, sent, events) => Newest(f, sent, q)
  BY <1>2, <1>3, <1>4, PlainSignal
<1>6. Outcome(q, Deciding, good, o)
  <2> HIDE DEF s
  <2> QED
    BY <1>3, <1>4, OutcomeKept
<1> HIDE DEF s, q
<1>7. Newest(captured', sent, q)
  BY <1>2, <1>4, <1>5 DEF InOrder, Newest
<1>8. ASSUME UNCHANGED encoderVars, events' = q
      PROVE  /\ events' \in Seq(Event) /\ InOrder(sent, events', captured')
             /\ Outcome(events', Deciding, good, o)
             /\ WorkerTypes' /\ EncoderInOrder'
  <2>1. WorkerTypes'
    BY <1>1, <1>2, <1>8, WorkerFacts, LimitsAssumption DEF WorkerTypes, encoderVars
  <2>2. EncoderInOrder'
    BY <1>1, <1>2, <1>4, <1>5, <1>8 DEF EncoderInOrder, NewFrameToEncode, encoderVars, windowVars
  <2> QED
    BY <1>5, <1>6, <1>8, <2>1, <2>2
<1>9. ASSUME m_videoEncodingEnabled, m_latestBgrFrame' = captured',
             m_latestFrameSerial' = m_latestFrameSerial + 1,
             m_encodeFirstFrameImmediately' = FALSE
      PROVE  /\ events' \in Seq(Event) /\ InOrder(sent, events', captured')
             /\ Outcome(events', Deciding, good, o)
             /\ WorkerTypes' /\ EncoderInOrder'
  <2>1. /\ events' \in Seq(Event) /\ InOrder(sent, events', captured')
        /\ Outcome(events', Deciding, good, o)
        /\ m_lastVideoEncodingError' \in BOOLEAN
        /\ \/ m_lastEncodedFrameSerial' = m_latestFrameSerial'
           \/ UNCHANGED m_lastEncodedFrameSerial /\ Newest(captured', sent, events')
    <3>1. CASE EncodesAfter(s, captured', m_latestFrameSerial')
      BY <1>2, <1>3, <1>4, <1>5, <1>6, <1>7, <3>1, Encoded DEF q
    <3>2. CASE events' = q /\ UNCHANGED <<m_lastEncodedFrameSerial, m_lastVideoEncodingError>>
      BY <1>2, <1>5, <1>6, <1>7, <3>2
    <3> QED
      BY <1>1, <1>9, <3>1, <3>2
  <2>2. /\ m_latestFrameSerial' \in 1 .. CaptureBound /\ m_latestFrameSerial' <= captured'
        /\ m_latestBgrFrame' \in 1 .. CaptureBound /\ m_latestBgrFrame' <= captured'
        /\ m_lastEncodedFrameSerial' \in 0 .. CaptureBound
        /\ m_lastEncodedFrameSerial' <= captured'
    BY <1>2, <1>9, <2>1, LimitsAssumption
  <2>3. /\ m_running' \in BOOLEAN /\ m_videoEncodingEnabled' = TRUE
        /\ 0 \in 0 .. MaxConsecutiveReadFailures - 1
    BY <1>1, <1>9, WorkerFacts, LimitsAssumption DEF WorkerTypes
  <2>4. /\ {m_running', m_videoEncodingEnabled', m_encodeFirstFrameImmediately',
            m_lastVideoEncodingError'} \subseteq BOOLEAN
    BY <1>9, <2>1, <2>3
  <2>5. /\ {captured', m_latestBgrFrame', m_latestFrameSerial', m_lastEncodedFrameSerial'}
              \subseteq 0 .. CaptureBound
        /\ m_latestFrameSerial' # 0 /\ m_latestBgrFrame' # 0
    BY <1>2, <2>2, LimitsAssumption
  <2>6. WorkerTypes'
    BY <1>1, <2>3, <2>4, <2>5 DEF WorkerTypes
  <2>7. EncoderInOrder'
    BY <1>1, <1>9, <2>1, <2>2 DEF EncoderInOrder, NewFrameToEncode, windowVars
  <2> QED
    BY <2>1, <2>6, <2>7
<1>10. /\ events' \in Seq(Event) /\ InOrder(sent, events', captured')
       /\ Outcome(events', Deciding, good, o)
       /\ WorkerTypes' /\ EncoderInOrder'
  BY <1>1, <1>5, <1>6, <1>8, <1>9
<1>11. CameraAgrees'
  BY <1>1, <1>10, CameraUndecided DEF good, o
<1>12. EncoderAgrees' /\ requests' \in Seq(Requests)
  BY <1>1, WorkerFacts DEF EncoderAgrees, windowVars
<1> QED
  BY <1>1, <1>10, <1>11, <1>12, WorkerInv

LEMMA UnusableInv ==
  ASSUME IInv, CaptureUnusable
  PROVE  IInv'
<1>1. /\ UNCHANGED <<windowVars, m_running, captured, encoderVars, requests, events>>
      /\ m_consecutiveReadFailures' = 0
  BY DEF CaptureUnusable
<1>2. WorkerTypes'
  BY <1>1, WorkerFacts, LimitsAssumption DEF WorkerTypes, encoderVars
<1>3. EncoderInOrder'
  BY <1>1, WorkerFacts, EncoderKept
<1>4. /\ events' \in Seq(Event) /\ InOrder(sent, events', captured')
      /\ requests' \in Seq(Requests)
  BY <1>1, WorkerFacts
<1>5. EncoderAgrees'
  BY <1>1, WorkerFacts DEF EncoderAgrees, windowVars, encoderVars
<1>6. CameraAgrees'
  BY <1>1, WorkerFacts, CameraUndecided DEF CameraAgrees
<1> QED
  BY <1>1, <1>2, <1>3, <1>4, <1>5, <1>6, WorkerInv

\* Without a picture too often, the camera is given up: an error, then stopped.
LEMMA ReadFailsInv ==
  ASSUME IInv, ReadFails
  PROVE  IInv'
<1> DEFINE error == Signal("error")
           stopped == Signal("stopped")
<1>1. /\ UNCHANGED <<windowVars, captured, encoderVars, requests>> /\ m_running
      /\ m_running' = (m_consecutiveReadFailures + 1 < MaxConsecutiveReadFailures)
      /\ m_consecutiveReadFailures' = IF m_running' THEN m_consecutiveReadFailures + 1 ELSE 0
      /\ events' = events \o (IF m_running' THEN <<>> ELSE <<error, stopped>>)
  BY DEF ReadFails, Emits
<1>2. WorkerTypes'
  <2>1. m_consecutiveReadFailures' \in 0 .. MaxConsecutiveReadFailures - 1
    <3>1. m_consecutiveReadFailures \in 0 .. MaxConsecutiveReadFailures - 1
      BY WorkerFacts DEF WorkerTypes
    <3>2. \/ /\ m_consecutiveReadFailures' = m_consecutiveReadFailures + 1
             /\ m_consecutiveReadFailures + 1 < MaxConsecutiveReadFailures
          \/ m_consecutiveReadFailures' = 0
      BY <1>1
    <3> QED
      BY <3>1, <3>2, LimitsAssumption
  <2>2. m_running' \in BOOLEAN
    BY <1>1
  <2> QED
    BY <1>1, <2>1, <2>2, WorkerFacts DEF WorkerTypes, encoderVars
<1>3. EncoderAgrees' /\ requests' \in Seq(Requests)
  BY <1>1, WorkerFacts DEF EncoderAgrees, windowVars, encoderVars
<1>4. CASE m_running'
  <2>1. UNCHANGED <<m_running, events>>
    <3>1. m_running \in BOOLEAN /\ m_running' \in BOOLEAN
      BY <1>1, WorkerFacts DEF WorkerTypes
    <3>2. events' = events
      BY <1>1, <1>4, WorkerFacts, ConcatEmptySeq
    <3> QED
      BY <1>1, <1>4, <3>1, <3>2
  <2>2. EncoderInOrder'
    BY <1>1, <2>1, WorkerFacts, EncoderKept
  <2>3. events' \in Seq(Event) /\ InOrder(sent, events', captured')
    BY <1>1, <2>1, WorkerFacts
  <2>4. CameraAgrees'
    BY <1>1, <2>1, WorkerFacts, CameraUndecided DEF CameraAgrees
  <2> QED
    BY <1>1, <1>2, <1>3, <2>2, <2>3, <2>4, WorkerInv
<1>5. CASE ~m_running'
  <2>1. /\ error \in Event /\ error.type # "jpeg"
        /\ stopped \in Deciding /\ stopped \in Event /\ stopped.type # "jpeg"
        /\ stopped.type # "started"
    BY LimitsAssumption DEF Event, Deciding, Signal
  <2> HIDE DEF error, stopped
  <2> DEFINE q == events \o <<error>>
  <2>2. events' = q \o <<stopped>>
    <3>1. <<error>> \in Seq(Event) /\ <<stopped>> \in Seq(Event)
      BY <2>1
    <3>2. Append(<<error>>, stopped) = <<error>> \o <<stopped>>
      BY <2>1, <3>1, AppendIsConcat
    <3>3. Append(<<error>>, stopped) = <<error, stopped>>
      <4> DEFINE s == Append(<<error>>, stopped)
                 t == <<error, stopped>>
      <4>1. s \in Seq(Event) /\ Len(s) = 2 /\ s[1] = error /\ s[2] = stopped
        BY <2>1, <3>1, AppendProperties
      <4>2. t \in Seq(Event) /\ Len(t) = 2 /\ t[1] = error /\ t[2] = stopped
        BY <2>1
      <4> HIDE DEF s, t
      <4>3. s = t
        BY <4>1, <4>2, SeqEqual
      <4> QED
        BY <4>3 DEF s, t
    <3>4. events' = events \o (<<error>> \o <<stopped>>)
      BY <1>1, <1>5, <3>2, <3>3
    <3>5. (events \o <<error>>) \o <<stopped>> = events \o (<<error>> \o <<stopped>>)
      BY <3>1, WorkerFacts, ConcatAssociative
    <3> QED
      BY <3>4, <3>5
  <2>3. /\ q \in Seq(Event) /\ InOrder(sent, q, captured)
        /\ \A f : Newest(f, sent, events) => Newest(f, sent, q)
    BY <2>1, WorkerFacts, PlainSignal
  <2> HIDE DEF q
  <2>4. /\ events' \in Seq(Event) /\ InOrder(sent, events', captured)
        /\ \A f : Newest(f, sent, events) => Newest(f, sent, events')
    BY <2>1, <2>2, <2>3, WorkerFacts, PlainSignal
  <2>5. EncoderInOrder'
    BY <1>1, <2>4, EncoderKept
  <2>6. CameraAgrees'
    <3>1. m_running' = FALSE
      BY <1>1, <1>5
    <3>2. (stopped.type = "started") = m_running'
      BY <2>1, <3>1
    <3> QED
      BY <2>1, <2>2, <2>3, <3>2, CameraSettled
  <2> QED
    BY <1>1, <1>2, <1>3, <2>4, <2>5, <2>6, WorkerInv
<1> QED
  BY <1>4, <1>5
-----------------------------------------------------------------------------
LEMMA StepInv == IInv /\ [Next]_vars => IInv'
<1> SUFFICES ASSUME IInv, [Next]_vars PROVE IInv'
  OBVIOUS
<1>1. CASE OnStartCameraClicked
  BY <1>1, StartCameraClickInv
<1>2. CASE \/ OnStopCameraClicked \/ OnApplyNetworkSettingsClicked
           \/ OnStopNetworkClicked \/ OnStopVideoSendClicked
  BY <1>2, StoppingClickInv
<1>3. CASE OnStartVideoSendClicked
  BY <1>3, StartSendClickInv
<1>4. CASE GuiHandlesEvent
  BY <1>4, CameraStartedInv, CameraEndedInv, PictureHandledInv DEF GuiHandlesEvent
<1>5. CASE WorkerServesRequest
  BY <1>5, StartCameraInv, StopCameraInv, EncodingSwitchedInv DEF WorkerServesRequest
<1>6. CASE CaptureFrame
  BY <1>6, CaptureInv
<1>7. CASE CaptureUnusable
  BY <1>7, UnusableInv
<1>8. CASE ReadFails
  BY <1>8, ReadFailsInv
<1>9. CASE EncodeLatestVideoFrame
  BY <1>9, EncodeLatestInv
<1>10. CASE UNCHANGED vars
  <2>1. UNCHANGED <<windowVars, captureVars, encoderVars, requests, events>>
    BY <1>10 DEF vars, workerVars
  <2>2. WorkerTypes'
    BY <2>1, WorkerFacts DEF WorkerTypes, captureVars, encoderVars
  <2>3. EncoderInOrder'
    BY <2>1, WorkerFacts DEF EncoderInOrder, NewFrameToEncode, captureVars, encoderVars,
       windowVars
  <2>4. EncoderAgrees' /\ CameraAgrees'
    BY <2>1, WorkerFacts, CameraUndecided DEF EncoderAgrees, CameraAgrees, windowVars,
       encoderVars, captureVars
  <2> QED
    BY <2>1, <2>2, <2>3, <2>4, WorkerFacts, WorkerInv DEF captureVars
<1> QED
  BY <1>1, <1>2, <1>3, <1>4, <1>5, <1>6, <1>7, <1>8, <1>9, <1>10 DEF Next

LEMMA Invariance == Spec => []IInv
BY InitInv, StepInv, PTL DEF Spec

\* Every variable of the window and of the worker keeps its type, and a picture
\* waits to be encoded only in an encoder that is on.
THEOREM TypeCorrect == Spec => []TypeOK
<1>1. IInv => TypeOK
  BY DEF IInv, PicturesInv
<1> QED
  BY <1>1, Invariance, PTL

\* Neither the sending nor the picture on display outlives the window's camera,
\* nor the sending its network.
THEOREM CameraEndsAll == Spec => []NothingOutlivesCamera
<1>1. IInv => NothingOutlivesCamera
  BY DEF IInv, WindowInv
<1> QED
  BY <1>1, Invariance, PTL

\* The buttons offer what may be asked for, whatever order camera, network and
\* sending change in.
THEOREM ButtonsMatch == Spec => []ControlsMatch
<1>1. IInv => ControlsMatch
  BY DEF IInv, WindowInv
<1> QED
  BY <1>1, Invariance, PTL

\* With no request and none of the worker's answers under way, window and worker
\* agree on the camera, its buttons and the encoding.
THEOREM AgreeWhenQuiet == Spec => []SidesAgree
<1>1. IInv => SidesAgree
  <2> SUFFICES ASSUME IInv, Quiet
               PROVE  PanelMatches /\ m_videoEncodingEnabled = m_videoSending
    BY DEF SidesAgree, PanelMatches
  <2>1. DOMAIN requests = {}
    BY DEF Quiet
  <2>2. \A i \in DOMAIN events : events[i] \notin Deciding
    BY DEF Quiet, Deciding
  <2>3. NoCameraRequest
    BY <2>1 DEF NoCameraRequest
  <2>4. PanelMatches
    BY <2>2, <2>3 DEF IInv, CameraAgrees, Outcome
  <2>5. m_videoEncodingEnabled = m_videoSending
    BY <2>1 DEF IInv, EncoderAgrees, Outcome
  <2> QED
    BY <2>4, <2>5
<1> QED
  BY <1>1, Invariance, PTL

\* Pictures are sent in the order they were taken and none twice, however often
\* the serials are reset.
THEOREM InOrderOnce == Spec => []SentInOrder
<1>1. IInv => SentInOrder
  BY DEF IInv, PicturesInv, QueueInOrder, InOrder, SentInOrder
<1> QED
  BY <1>1, Invariance, PTL
=============================================================================
