-------------------------- MODULE AudioJitterBuffer -------------------------
(***************************************************************************)
(* AudioJitterBuffer: the buffer between received ACL1 packets and the     *)
(* 20 ms playout timer.  One thread (AudioWorker's) calls it; this module  *)
(* lets that caller make any sequence of calls.  Sequence numbers are      *)
(* unsigned of SequenceModulus values, 0 never being one of a packet.      *)
(***************************************************************************)
EXTENDS Naturals, FiniteSets, Functions

CONSTANTS
  SequenceModulus,                       \* 2^32
  PrebufferPackets,                      \* 3
  MaximumBufferedPackets,                \* 10
  ConsecutiveMissingRebufferThreshold,   \* 5
  ObviousSequenceJump,                   \* 1000
  Session,                               \* session ids, 0 not among them
  Payload,                               \* PCM payloads of 640 bytes
  Silence, Nothing                       \* takeNextPacket: zeroes, empty

Sequence == 1 .. SequenceModulus - 1

ASSUME ModulusAssumption ==
  SequenceModulus \in Nat /\ SequenceModulus >= 2 /\ SequenceModulus % 2 = 0
ASSUME LimitsAssumption ==
  /\ PrebufferPackets \in Nat \ {0}
  /\ MaximumBufferedPackets \in Nat \ {0}
  /\ ConsecutiveMissingRebufferThreshold \in Nat \ {0}
  /\ ObviousSequenceJump \in Nat
ASSUME ValuesAssumption ==
  /\ 0 \notin Session
  /\ {Silence, Nothing} \cap Payload = {}
  /\ Silence # Nothing

VARIABLES
  m_sessionId,                  \* 0: none yet
  m_nextSequence,
  m_playing,
  m_consecutiveMissingPackets,
  m_packets,                    \* buffered: sequence -> payload
  output                        \* what the last call returned to the sink

bufferVars == <<m_sessionId, m_nextSequence, m_playing,
                m_consecutiveMissingPackets, m_packets, output>>

NoPackets == [q \in {} |-> Nothing]

Buffered == DOMAIN m_packets

Init ==
  /\ m_sessionId = 0
  /\ m_nextSequence = 0
  /\ m_playing = FALSE
  /\ m_consecutiveMissingPackets = 0
  /\ m_packets = NoPackets
  /\ output = Nothing
-----------------------------------------------------------------------------
ForwardDistance(from, to) == (to + SequenceModulus - from) % SequenceModulus

\* static_cast<qint32>(left - right) < 0
SequenceLess(left, right) ==
  left # right /\ ForwardDistance(right, left) >= SequenceModulus \div 2

\* Mutants: the counter does not wrap; it wraps to the sequence 0.
IncrementSequence_NoWrap(q) == q + 1
IncrementSequence_ToZero(q) == (q + 1) % SequenceModulus

IncrementSequence(q) == IF q + 1 = SequenceModulus THEN 1 ELSE q + 1

\* Mutant: the packet playback would reach first.
Farthest_Nearest(next) ==
  CHOOSE q \in Buffered :
    \A r \in Buffered : ForwardDistance(next, q) <= ForwardDistance(next, r)

\* The buffered packet playback would reach last.
Farthest(next) ==
  CHOOSE q \in Buffered :
    \A r \in Buffered : ForwardDistance(next, r) <= ForwardDistance(next, q)

With(packets, q, payload) ==
  [r \in DOMAIN packets \cup {q} |-> IF r = q THEN payload ELSE packets[r]]

\* Mutant: the buffer grows past its limit.
StorePacket_NoLimit(next, q, payload) ==
  \/ q \in Buffered /\ UNCHANGED m_packets
  \/ q \notin Buffered /\ m_packets' = With(m_packets, q, payload)

\* The last part of insertPacket: duplicates are dropped; a full buffer makes
\* room by dropping its farthest packet, or drops the new one if it is farther.
StorePacket(next, q, payload) ==
  \/ /\ q \in Buffered
     /\ UNCHANGED m_packets
  \/ /\ q \notin Buffered
     /\ Cardinality(Buffered) < MaximumBufferedPackets
     /\ m_packets' = With(m_packets, q, payload)
  \/ /\ q \notin Buffered
     /\ Cardinality(Buffered) >= MaximumBufferedPackets
     /\ IF ForwardDistance(next, q) < ForwardDistance(next, Farthest(next))
        THEN m_packets' =
               With(Restrict(m_packets, Buffered \ {Farthest(next)}), q, payload)
        ELSE UNCHANGED m_packets

\* resetForSession, then the packet is stored in the emptied buffer.
ResetForSession(session, q, payload) ==
  /\ m_sessionId' = session
  /\ m_nextSequence' = q
  /\ m_playing' = FALSE
  /\ m_consecutiveMissingPackets' = 0
  /\ m_packets' = With(NoPackets, q, payload)

Late(session, q) ==
  m_sessionId = session /\ m_playing /\ SequenceLess(q, m_nextSequence)

\* Mutant: the distance is measured the wrong way round.
ObviousJump_Backwards(session, q) ==
  /\ m_sessionId = session /\ m_playing /\ ~SequenceLess(q, m_nextSequence)
  /\ ForwardDistance(q, m_nextSequence) > ObviousSequenceJump

ObviousJump(session, q) ==
  /\ m_sessionId = session /\ m_playing /\ ~SequenceLess(q, m_nextSequence)
  /\ ForwardDistance(m_nextSequence, q) > ObviousSequenceJump

\* Mutant: the first packet that arrived is where playback starts.
RewoundNext_Never(q) == m_nextSequence

\* While it prebuffers, an earlier packet moves the start of playback back.
RewoundNext(q) ==
  IF ~m_playing /\ SequenceLess(q, m_nextSequence) THEN q ELSE m_nextSequence

InsertPacket(session, q, payload) ==
  /\ output' = Nothing
  /\ \/ /\ Late(session, q)
        /\ UNCHANGED <<m_sessionId, m_nextSequence, m_playing,
                       m_consecutiveMissingPackets, m_packets>>
     \/ /\ m_sessionId # session \/ ObviousJump(session, q)
        /\ ResetForSession(session, q, payload)
     \/ /\ m_sessionId = session
        /\ ~Late(session, q) /\ ~ObviousJump(session, q)
        /\ m_nextSequence' = RewoundNext(q)
        /\ StorePacket(RewoundNext(q), q, payload)
        /\ UNCHANGED <<m_sessionId, m_playing, m_consecutiveMissingPackets>>
-----------------------------------------------------------------------------
\* Mutant: one packet too few is enough.
ReadyToPlay_OneEarly == m_playing \/ Cardinality(Buffered) >= PrebufferPackets - 1

ReadyToPlay == m_playing \/ Cardinality(Buffered) >= PrebufferPackets

\* Consecutive missing packets, the one looked for now included.
MissingNow == (IF m_playing THEN m_consecutiveMissingPackets ELSE 0) + 1

StillPrebuffering ==
  /\ ~ReadyToPlay
  /\ output' = Nothing
  /\ UNCHANGED <<m_nextSequence, m_playing, m_consecutiveMissingPackets, m_packets>>

\* Mutant: playback is not marked as begun.
PlayBuffered_StaysPrebuffering ==
  /\ ReadyToPlay /\ m_nextSequence \in Buffered
  /\ output' = m_packets[m_nextSequence]
  /\ m_packets' = Restrict(m_packets, Buffered \ {m_nextSequence})
  /\ m_nextSequence' = IncrementSequence(m_nextSequence)
  /\ m_consecutiveMissingPackets' = 0
  /\ UNCHANGED m_playing

PlayBuffered ==
  /\ ReadyToPlay /\ m_nextSequence \in Buffered
  /\ output' = m_packets[m_nextSequence]
  /\ m_packets' = Restrict(m_packets, Buffered \ {m_nextSequence})
  /\ m_nextSequence' = IncrementSequence(m_nextSequence)
  /\ m_playing' = TRUE
  /\ m_consecutiveMissingPackets' = 0

\* The packet is missing: silence, and after enough of it playback ends, the
\* buffer is emptied and prebuffering starts again from here.
Conceal ==
  /\ ReadyToPlay /\ m_nextSequence \notin Buffered
  /\ output' = Silence
  /\ m_nextSequence' = IncrementSequence(m_nextSequence)
  /\ IF MissingNow >= ConsecutiveMissingRebufferThreshold
     THEN /\ m_playing' = FALSE
          /\ m_consecutiveMissingPackets' = 0
          /\ m_packets' = NoPackets
     ELSE /\ m_playing' = TRUE
          /\ m_consecutiveMissingPackets' = MissingNow
          /\ UNCHANGED m_packets

TakeNextPacket ==
  /\ UNCHANGED m_sessionId
  /\ StillPrebuffering \/ PlayBuffered \/ Conceal

Clear ==
  /\ m_sessionId' = 0
  /\ m_nextSequence' = 0
  /\ m_playing' = FALSE
  /\ m_consecutiveMissingPackets' = 0
  /\ m_packets' = NoPackets
  /\ output' = Nothing

Next ==
  \/ \E session \in Session, q \in Sequence, payload \in Payload :
       InsertPacket(session, q, payload)
  \/ TakeNextPacket
  \/ Clear

Spec == Init /\ [][Next]_bufferVars
-----------------------------------------------------------------------------
(* Properties that hold whatever the caller does. *)

\* Every variable keeps its type: sequence 0 is never buffered, and a partial
\* function maps each buffered sequence to one payload.
TypeOK ==
  /\ m_sessionId \in Session \cup {0}
  /\ m_nextSequence \in Sequence \cup {0}
  /\ m_playing \in BOOLEAN
  /\ m_consecutiveMissingPackets \in Nat
  /\ Buffered \subseteq Sequence
  /\ m_packets \in [Buffered -> Payload]
  /\ output \in Payload \cup {Silence, Nothing}

\* The buffer never holds more than its limit, although a reset, a rewind and
\* the replacement of the farthest packet all store past it (cpp, 46-69).
BufferBounded ==
  IsFiniteSet(Buffered) /\ Cardinality(Buffered) <= MaximumBufferedPackets

\* The states of playback fit together: without a session nothing is buffered
\* or played, with one the next sequence is a real one, and the run of missing
\* packets stays below the threshold that ends playback (cpp, 96-103).
PlaybackConsistent ==
  /\ m_sessionId = 0 => Buffered = {} /\ ~m_playing
  /\ m_sessionId # 0 => m_nextSequence # 0
  /\ m_consecutiveMissingPackets < ConsecutiveMissingRebufferThreshold
  /\ ~m_playing => m_consecutiveMissingPackets = 0

\* Making room never costs an earlier packet: when an insertion drops one, it is
\* behind every packet that stays (cpp, 46-67).
OverflowDropsFarthest ==
  [][\A q \in Buffered \ Buffered' :
       m_sessionId' = m_sessionId /\ output' = Nothing /\ Buffered' # {}
         /\ m_playing' = m_playing
         => \A r \in Buffered' :
              ForwardDistance(m_nextSequence', r)
                <= ForwardDistance(m_nextSequence', q)]_bufferVars
=============================================================================
