----------------------------- MODULE VideoLink ------------------------------
(***************************************************************************)
(* One direction of the video: VideoUdpTransport cuts encoded frames into  *)
(* datagrams, UDP loses, repeats and reorders these, and the transport of  *)
(* the peer puts them together.  A frame's key is its frame id here, as    *)
(* sender and session are the same for all.                                *)
(***************************************************************************)
EXTENDS VideoFrameReassembler, Sequences

CONSTANTS
  FrameSizes,            \* of the encoded frames handed to the sender
  MaximumPayloadSize,    \* 1168
  MaximumFragmentCount,  \* 4096
  MaximumFrameId,        \* 2^32 - 1
  FirstFrameId,          \* next id of the sender where the history begins: the code's
                         \* is 1, and a later one where it has sent frames before
  SendBound,             \* bound: frames handed to the sender
  FaultBound             \* bound: datagrams lost or repeated, receivers closed

ASSUME SenderAssumption ==
  /\ FrameSizes \subseteq Nat
  /\ {MaximumPayloadSize, MaximumFragmentCount, MaximumFrameId} \subseteq Nat \ {0}
  /\ {SendBound, FaultBound} \subseteq Nat
  /\ FrameKey = 1 .. MaximumFrameId /\ FirstFrameId \in FrameKey
\* The ids wrap, but do not come round to those already used: at 30 frames a second
\* that takes 4.5 years.
ASSUME IdsAssumption == SendBound <= MaximumFrameId

VARIABLES
  m_nextFrameId,   \* sender
  network,         \* datagrams under way
  attempts,        \* history: the frames handed to the sender, as far as written
  delivered,       \* history: the frames received, by their number in attempts
  losses, duplicates

senderVars == <<m_nextFrameId, attempts>>
faultVars == <<losses, duplicates>>
linkVars == <<vars, senderVars, network, delivered, faultVars>>

LinkInit ==
  /\ Init
  /\ m_nextFrameId = FirstFrameId
  /\ network = {}
  /\ attempts = <<>>
  /\ delivered = <<>>
  /\ losses = 0
  /\ duplicates = 0
-----------------------------------------------------------------------------
(* The sender. *)

\* Mutant: a full last fragment is followed by an empty one.
FragmentCount_OneMore(size) == size \div MaximumPayloadSize + 1

FragmentCount(size) == (size + MaximumPayloadSize - 1) \div MaximumPayloadSize

PayloadLength(size, i) ==
  LET left == size - i * MaximumPayloadSize
  IN IF left < MaximumPayloadSize THEN left ELSE MaximumPayloadSize

\* The datagrams of a frame by fragment index, none if it cannot be sent.  The
\* content of a payload is the number of the attempt it is from.
FragmentEncodedFrame(size, frameId, timestampMs, content) ==
  [i \in {j \in 0 .. FragmentCount(size) - 1 :
            size <= MaximumFrameSize /\ FragmentCount(size) <= MaximumFragmentCount} |->
     [key |-> frameId, timestampMs |-> timestampMs, frameSize |-> size,
      fragmentCount |-> FragmentCount(size), fragmentIndex |-> i,
      payload |-> [size |-> PayloadLength(size, i), content |-> content]]]

\* Mutant: the id wraps to 0, which is none.
NextFrameId_ToZero == (m_nextFrameId + 1) % (MaximumFrameId + 1)

NextFrameId == IF m_nextFrameId = MaximumFrameId THEN 1 ELSE m_nextFrameId + 1

Whole(attempt) == attempt.count > 0 /\ attempt.written = attempt.count

\* sendEncodedFrame, from the frame to its last fragment or the first that cannot
\* be written; then the frame id is used once more.  As such a failure ends the
\* sending until the user clicks, the next frame has another timestamp.
SendEncodedFrame(size) ==
  LET datagrams == FragmentEncodedFrame(size, m_nextFrameId, now, Len(attempts) + 1)
      count == Cardinality(DOMAIN datagrams)
  IN /\ Len(attempts) < SendBound
     /\ \A j \in DOMAIN attempts : ~Whole(attempts[j]) => attempts[j].timestampMs < now
     /\ \E written \in 0 .. count :
          /\ network' = network \cup {datagrams[i] : i \in 0 .. written - 1}
          /\ attempts' = Append(attempts, [id |-> m_nextFrameId, timestampMs |-> now,
                                           size |-> size, count |-> count,
                                           written |-> written])
          /\ m_nextFrameId' = IF Whole(attempts'[Len(attempts')])
                              THEN NextFrameId ELSE m_nextFrameId
     /\ UNCHANGED <<vars, delivered, faultVars>>
-----------------------------------------------------------------------------
(* The network and the receiver. *)

\* The attempt a frame is of: in its data and in all of its content.  0 if none.
AttemptOf(frame) ==
  LET candidates ==
        {j \in DOMAIN attempts :
           /\ [id |-> attempts[j].id, size |-> attempts[j].size,
               timestampMs |-> attempts[j].timestampMs]
                = [id |-> frame.key, size |-> frame.frameSize,
                   timestampMs |-> frame.timestampMs]
           /\ \A i \in DOMAIN frame.fragments : frame.fragments[i].content = j}
  IN IF candidates = {} THEN 0 ELSE CHOOSE j \in candidates : TRUE

\* What parseVideoFragment accepts.
Parsable(d) ==
  /\ d.frameSize \in 1 .. MaximumFrameSize
  /\ d.fragmentCount \in 1 .. MaximumFragmentCount
  /\ d.fragmentIndex < d.fragmentCount
  /\ d.payload.size \in 1 .. MaximumPayloadSize
  /\ d.payload.size <= d.frameSize

\* One turn of readPendingDatagrams: a completed frame is announced.
ReadDatagram(d) ==
  /\ \/ Parsable(d) /\ AddDatagram(d)
     \/ ~Parsable(d) /\ result' = "Rejected"
        /\ UNCHANGED <<m_pendingFrames, m_pendingPayloadBytes, now, completedFrame>>
  /\ delivered' = IF result' = "Completed"
                  THEN Append(delivered, AttemptOf(completedFrame')) ELSE delivered
  /\ UNCHANGED senderVars

Arrive == \E d \in network :
  ReadDatagram(d) /\ network' = network \ {d} /\ UNCHANGED faultVars

ArriveAndRepeat == \E d \in network :
  /\ losses + duplicates < FaultBound
  /\ duplicates' = duplicates + 1
  /\ ReadDatagram(d)
  /\ UNCHANGED <<network, losses>>

Lose == \E d \in network :
  /\ losses + duplicates < FaultBound
  /\ losses' = losses + 1
  /\ network' = network \ {d}
  /\ UNCHANGED <<vars, senderVars, delivered, duplicates>>

\* close, and bindReceiver by way of close: the frames in parts are given up.
CloseReceiver ==
  /\ losses + duplicates < FaultBound
  /\ losses' = losses + 1
  /\ Clear
  /\ UNCHANGED <<senderVars, network, delivered, duplicates>>

\* The cleanup timer and the clock.
Timing ==
  /\ RemoveExpiredFrames \/ TimePasses
  /\ UNCHANGED <<senderVars, network, delivered, faultVars>>

LinkNext ==
  \/ \E size \in FrameSizes : SendEncodedFrame(size)
  \/ Arrive \/ ArriveAndRepeat \/ Lose \/ CloseReceiver \/ Timing

LinkSpec == LinkInit /\ [][LinkNext]_linkVars
-----------------------------------------------------------------------------
\* What the sender makes of a frame of whatever size, the parser at the other end
\* lets through, also where the size is a multiple of a payload; no frame has the
\* id 0, which the counter skips when it wraps (videoudptransport.cpp:211).
SentIsParsable == \A d \in network : Parsable(d) /\ d.key \in FrameKey

\* Sender, network and receiver together are a channel of frames.  A failed send
\* leaves fragments behind under an id that is used again, and yet no frame mixes
\* those of two; and only a network that repeats delivers a frame twice.
Channel == INSTANCE FrameChannel WITH
  handed <- Len(attempts),
  whole <- {j \in DOMAIN attempts : Whole(attempts[j])},
  received <- delivered,
  repeating <- duplicates > 0

ImplementsChannel == Channel!Spec

\* A frame whose predecessor under its id was given up half-written.
TakesOverId(j) == \E i \in 1 .. j - 1 :
  attempts[i].id = attempts[j].id /\ attempts[i].written > 0

\* When everything written has arrived in time, in whatever order and however
\* often, every frame written whole has been received: a failed send costs no
\* more than the frame that takes over its id.
WrittenIsReceived ==
  network = {} /\ losses = 0 /\ now <= FrameTimeoutMs =>
    \A j \in DOMAIN attempts :
      Whole(attempts[j]) /\ ~TakesOverId(j) => j \in Range(delivered)
=============================================================================
