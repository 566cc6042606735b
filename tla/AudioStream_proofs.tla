--------------------------- MODULE AudioStream_proofs ---------------------------
(* Proofs about AudioJitterBuffer, for every caller, every size of the        *)
(* sequence space and every limit: types, the limit of the buffer, the        *)
(* consistency of the playback state, and what making room may cost.  Then    *)
(* about AudioStream: whatever the network and this side's user do, packets   *)
(* of two sessions are not mixed, none is buffered where playback has passed, *)
(* and audio is played in the order of its capture.  Last about               *)
(* AudioSteadyStream: no delay the prebuffer covers is ever heard.            *)
EXTENDS AudioStream, AudioSteadyStream, Integers, FiniteSetTheorems, WellFoundedInduction, TLAPS

IInv == TypeOK /\ BufferBounded /\ PlaybackConsistent
-----------------------------------------------------------------------------
LEMMA Modulus ==
  /\ SequenceModulus \in Nat /\ SequenceModulus >= 2
  /\ 0 \notin Sequence /\ 1 \in Sequence /\ Sequence \subseteq Nat
BY ModulusAssumption DEF Sequence

\* Distances are counted round the sequence space.
LEMMA Distance ==
  ASSUME NEW a \in Sequence \cup {0}, NEW b \in Sequence \cup {0}
  PROVE  ForwardDistance(a, b) \in Nat /\ ForwardDistance(a, b) < SequenceModulus
<1>1. b + SequenceModulus - a \in Nat
  BY Modulus DEF Sequence
<1> DEFINE n == b + SequenceModulus - a
<1> HIDE DEF n
<1>2. (n % SequenceModulus) \in 0 .. SequenceModulus - 1
  BY <1>1, Modulus, SMTT(30) DEF n
<1>3. (n % SequenceModulus) \in Nat /\ (n % SequenceModulus) < SequenceModulus
  BY <1>2, Modulus
<1> QED
  BY <1>3 DEF ForwardDistance, n

LEMMA Increment ==
  ASSUME NEW q \in Sequence
  PROVE  IncrementSequence(q) \in Sequence
BY Modulus DEF IncrementSequence, Sequence

\* A set of natural numbers that is not empty has a least one.
LEMMA Least ==
  ASSUME NEW T, T \subseteq Nat, T # {}
  PROVE  \E x \in T : \A y \in T : x <= y
<1>1. PICK x \in T : \A y \in T : ~(<<y, x>> \in OpToRel(<, Nat))
  BY NatLessThanWellFounded, WFMin, Zenon
<1>2. \A y \in T : ~(y < x)
  BY <1>1, Zenon DEF OpToRel
<1>3. \A y \in T : x <= y
  BY <1>2
<1> QED
  BY <1>3

\* A buffer that is not empty has a farthest packet.
LEMMA FarthestBuffered ==
  ASSUME Buffered \subseteq Sequence, Buffered # {}, NEW next \in Sequence \cup {0}
  PROVE  /\ Farthest(next) \in Buffered
         /\ \A r \in Buffered :
              ForwardDistance(next, r) <= ForwardDistance(next, Farthest(next))
<1> DEFINE Gap(q) == SequenceModulus - 1 - ForwardDistance(next, q)
           T == {Gap(q) : q \in Buffered}
<1>1. \A q \in Buffered : /\ ForwardDistance(next, q) \in Nat
                           /\ ForwardDistance(next, q) < SequenceModulus
  BY Distance
<1>2. T \subseteq Nat /\ T # {}
  <2>1. \A q \in Buffered : Gap(q) \in Nat
    BY <1>1, Modulus
  <2> HIDE DEF Gap
  <2> QED
    BY <2>1
<1>3. PICK x \in T : \A y \in T : x <= y
  BY <1>2, Least
<1>4. PICK q \in Buffered : x = Gap(q)
  OBVIOUS
<1>5. \A r \in Buffered : Gap(q) <= Gap(r)
  BY <1>3, <1>4
<1>6. \A r \in Buffered : ForwardDistance(next, r) <= ForwardDistance(next, q)
  BY <1>1, <1>5, Modulus
<1> QED
  BY <1>6 DEF Farthest

\* A packet is stored under a sequence.
LEMMA Stored ==
  ASSUME NEW P, NEW packets \in [P -> Payload], P \subseteq Sequence, IsFiniteSet(P),
         NEW q \in Sequence, NEW payload \in Payload,
         m_packets' = With(packets, q, payload)
  PROVE  /\ Buffered' = P \cup {q}
         /\ Buffered' \subseteq Sequence
         /\ m_packets' \in [Buffered' -> Payload]
         /\ IsFiniteSet(Buffered')
         /\ Cardinality(Buffered')
              = IF q \in P THEN Cardinality(P) ELSE Cardinality(P) + 1
<1>1. /\ Buffered' = P \cup {q}
      /\ m_packets' \in [P \cup {q} -> Payload]
  BY DEF With, Buffered
<1>2. /\ IsFiniteSet(P \cup {q})
      /\ Cardinality(P \cup {q})
           = IF q \in P THEN Cardinality(P) ELSE Cardinality(P) + 1
  BY FS_AddElement
<1> QED
  BY <1>1, <1>2

\* What holds of the packets after any call.
PacketsOK ==
  /\ Buffered \subseteq Sequence
  /\ m_packets \in [Buffered -> Payload]
  /\ IsFiniteSet(Buffered) /\ Cardinality(Buffered) <= MaximumBufferedPackets

LEMMA NoneBuffered ==
  ASSUME m_packets' = NoPackets
  PROVE  PacketsOK' /\ Buffered' = {}
<1>1. Buffered' = {} /\ m_packets' \in [{} -> Payload]
  BY DEF NoPackets, Buffered
<1>2. IsFiniteSet({}) /\ Cardinality({}) = 0
  BY FS_EmptySet
<1> QED
  BY <1>1, <1>2, LimitsAssumption DEF PacketsOK

\* A packet is taken out of the buffer.
LEMMA Removed ==
  ASSUME PacketsOK, NEW q \in Buffered, m_packets' = Restrict(m_packets, Buffered \ {q})
  PROVE  PacketsOK'
<1>1. Buffered' = Buffered \ {q} /\ m_packets' \in [Buffered \ {q} -> Payload]
  BY DEF PacketsOK, Restrict, Buffered
<1>2. IsFiniteSet(Buffered \ {q}) /\ Cardinality(Buffered \ {q}) = Cardinality(Buffered) - 1
  BY FS_RemoveElement DEF PacketsOK
<1>3. Cardinality(Buffered) \in Nat
  BY FS_CardinalityType DEF PacketsOK
<1> QED
  BY <1>1, <1>2, <1>3, LimitsAssumption DEF PacketsOK

\* The first packet of a session, in an emptied buffer.
LEMMA FirstStored ==
  ASSUME NEW q \in Sequence, NEW payload \in Payload, m_packets' = With(NoPackets, q, payload)
  PROVE  PacketsOK' /\ Buffered' = {q}
<1>1. NoPackets \in [{} -> Payload]
  BY DEF NoPackets
<1>2. IsFiniteSet({}) /\ Cardinality({}) = 0
  BY FS_EmptySet
<1>3. /\ Buffered' = {} \cup {q} /\ Buffered' \subseteq Sequence
      /\ m_packets' \in [Buffered' -> Payload] /\ IsFiniteSet(Buffered')
      /\ Cardinality(Buffered') = IF q \in {} THEN Cardinality({}) ELSE Cardinality({}) + 1
  BY <1>1, <1>2, Stored
<1>4. Cardinality(Buffered') = 1
  BY <1>2, <1>3
<1> QED
  BY <1>3, <1>4, LimitsAssumption DEF PacketsOK

\* The last part of insertPacket: within the limit, and if a packet goes it is
\* behind all that stay.
LEMMA StoreInv ==
  ASSUME PacketsOK, NEW next \in Sequence \cup {0}, NEW q \in Sequence, NEW payload \in Payload,
         StorePacket(next, q, payload)
  PROVE  /\ PacketsOK'
         /\ \A gone \in Buffered \ Buffered' : \A r \in Buffered' :
              ForwardDistance(next, r) <= ForwardDistance(next, gone)
<1>1. Cardinality(Buffered) \in Nat /\ MaximumBufferedPackets \in Nat \ {0}
  BY FS_CardinalityType, LimitsAssumption DEF PacketsOK
<1>2. CASE UNCHANGED m_packets
  BY <1>2 DEF PacketsOK, Buffered
<1>3. CASE /\ q \notin Buffered /\ Cardinality(Buffered) < MaximumBufferedPackets
           /\ m_packets' = With(m_packets, q, payload)
  <2>1. /\ Buffered' = Buffered \cup {q} /\ Buffered' \subseteq Sequence
        /\ m_packets' \in [Buffered' -> Payload] /\ IsFiniteSet(Buffered')
        /\ Cardinality(Buffered')
             = IF q \in Buffered THEN Cardinality(Buffered) ELSE Cardinality(Buffered) + 1
    BY <1>3, Stored DEF PacketsOK
  <2> QED
    BY <1>1, <1>3, <2>1 DEF PacketsOK
<1>4. CASE /\ q \notin Buffered /\ Cardinality(Buffered) >= MaximumBufferedPackets
           /\ ForwardDistance(next, q) < ForwardDistance(next, Farthest(next))
           /\ m_packets' = With(Restrict(m_packets, Buffered \ {Farthest(next)}), q, payload)
  <2> DEFINE far == Farthest(next)
             P == Buffered \ {far}
             rest == Restrict(m_packets, P)
  <2>1. Buffered # {}
    BY <1>1, <1>4, FS_EmptySet
  <2>2. /\ far \in Buffered
        /\ \A r \in Buffered : ForwardDistance(next, r) <= ForwardDistance(next, far)
    BY <2>1, FarthestBuffered DEF PacketsOK
  <2> HIDE DEF far
  <2>3. rest \in [P -> Payload] /\ P \subseteq Sequence
    BY DEF Restrict, PacketsOK
  <2>4. IsFiniteSet(P) /\ Cardinality(P) = Cardinality(Buffered) - 1
    BY <2>2, FS_RemoveElement DEF PacketsOK
  <2>5. m_packets' = With(rest, q, payload)
    BY <1>4 DEF far
  <2> HIDE DEF P, rest
  <2>6. /\ Buffered' = P \cup {q} /\ Buffered' \subseteq Sequence
        /\ m_packets' \in [Buffered' -> Payload] /\ IsFiniteSet(Buffered')
        /\ Cardinality(Buffered') = IF q \in P THEN Cardinality(P) ELSE Cardinality(P) + 1
    BY <2>3, <2>4, <2>5, Stored
  <2>7. PacketsOK'
    <3>1. /\ Cardinality(Buffered') \in Nat
          /\ Cardinality(Buffered') <= Cardinality(Buffered)
      BY <1>1, <2>4, <2>6, FS_CardinalityType
    <3> QED
      BY <1>1, <2>6, <3>1 DEF PacketsOK
  <2>8. \A gone \in Buffered \ Buffered' : gone = far
    BY <2>6 DEF P
  <2>9. \A r \in Buffered' : ForwardDistance(next, r) <= ForwardDistance(next, far)
    <3>1. ForwardDistance(next, q) <= ForwardDistance(next, far)
      <4>1. ForwardDistance(next, q) \in Nat
        BY Distance
      <4>2. ForwardDistance(next, far) \in Nat
        BY <2>2, Distance DEF PacketsOK
      <4> QED
        BY <1>4, <4>1, <4>2 DEF far
    <3> QED
      BY <2>2, <2>6, <3>1 DEF P
  <2> QED
    BY <2>7, <2>8, <2>9
<1> QED
  BY <1>2, <1>3, <1>4 DEF StorePacket
-----------------------------------------------------------------------------
LEMMA InitInv == Init => IInv
<1> SUFFICES ASSUME Init PROVE IInv
  OBVIOUS
<1>1. Buffered = {} /\ m_packets \in [{} -> Payload]
  BY DEF Init, NoPackets, Buffered
<1>2. IsFiniteSet({}) /\ Cardinality({}) = 0
  BY FS_EmptySet
<1>3. TypeOK
  BY <1>1 DEF Init, TypeOK
<1>4. BufferBounded
  BY <1>1, <1>2, LimitsAssumption DEF BufferBounded
<1>5. PlaybackConsistent
  BY <1>1, LimitsAssumption DEF Init, PlaybackConsistent
<1> QED
  BY <1>3, <1>4, <1>5 DEF IInv

\* A packet is inserted, in the session being played or in another.
LEMMA InsertInv ==
  ASSUME IInv, NEW session \in Session, NEW q \in Sequence, NEW payload \in Payload,
         InsertPacket(session, q, payload)
  PROVE  IInv'
<1>1. PacketsOK /\ session # 0 /\ output' = Nothing
  BY ValuesAssumption DEF IInv, TypeOK, BufferBounded, PacketsOK, InsertPacket
<1>2. CASE UNCHANGED <<m_sessionId, m_nextSequence, m_playing, m_consecutiveMissingPackets,
                       m_packets>>
  BY <1>1, <1>2 DEF IInv, TypeOK, BufferBounded, PlaybackConsistent, Buffered
<1>3. CASE ResetForSession(session, q, payload)
  <2>1. PacketsOK'
    BY <1>3, FirstStored DEF ResetForSession
  <2>2. TypeOK'
    BY <1>1, <1>3, <2>1 DEF ResetForSession, TypeOK, PacketsOK
  <2>3. PlaybackConsistent'
    BY <1>1, <1>3, Modulus, LimitsAssumption DEF ResetForSession, PlaybackConsistent
  <2> QED
    BY <2>1, <2>2, <2>3 DEF IInv, PacketsOK, BufferBounded
<1>4. CASE /\ m_sessionId = session
           /\ m_nextSequence' = RewoundNext(q)
           /\ StorePacket(RewoundNext(q), q, payload)
           /\ UNCHANGED <<m_sessionId, m_playing, m_consecutiveMissingPackets>>
  <2>1. RewoundNext(q) \in Sequence
    BY <1>1, <1>4 DEF RewoundNext, IInv, TypeOK, PlaybackConsistent
  <2>2. PacketsOK'
    BY <1>1, <1>4, <2>1, StoreInv
  <2>3. TypeOK'
    BY <1>1, <1>4, <2>1, <2>2 DEF IInv, TypeOK, PacketsOK
  <2>4. PlaybackConsistent'
    BY <1>1, <1>4, <2>1, Modulus DEF IInv, PlaybackConsistent
  <2> QED
    BY <2>2, <2>3, <2>4 DEF IInv, PacketsOK, BufferBounded
<1> QED
  BY <1>2, <1>3, <1>4 DEF InsertPacket

\* Nothing is ready, a packet is played, or a missing one concealed.
LEMMA TakeInv ==
  ASSUME IInv, TakeNextPacket
  PROVE  IInv'
<1>1. PacketsOK /\ UNCHANGED m_sessionId
  BY DEF IInv, TypeOK, BufferBounded, PacketsOK, TakeNextPacket
<1>2. CASE StillPrebuffering
  BY <1>1, <1>2
  DEF StillPrebuffering, IInv, TypeOK, BufferBounded, PlaybackConsistent, Buffered
<1>3. ReadyToPlay => m_sessionId # 0 /\ m_nextSequence \in Sequence
  <2>1. CASE m_sessionId = 0
    <3>1. Buffered = {} /\ ~m_playing /\ Cardinality({}) = 0
      BY <2>1, FS_EmptySet DEF IInv, PlaybackConsistent
    <3> QED
      BY <3>1, LimitsAssumption DEF ReadyToPlay
  <2> QED
    BY <2>1 DEF IInv, TypeOK, PlaybackConsistent
<1>4. CASE PlayBuffered
  <2>1. m_sessionId # 0 /\ m_nextSequence \in Buffered /\ m_nextSequence \in Sequence
    BY <1>3, <1>4 DEF PlayBuffered
  <2>2. m_nextSequence' \in Sequence
    BY <1>4, <2>1, Increment DEF PlayBuffered
  <2>3. PacketsOK'
    BY <1>1, <1>4, <2>1, Removed DEF PlayBuffered
  <2>4. output' \in Payload
    BY <1>1, <1>4, <2>1 DEF PlayBuffered, PacketsOK
  <2>5. TypeOK'
    BY <1>1, <1>4, <2>2, <2>3, <2>4 DEF PlayBuffered, IInv, TypeOK, PacketsOK
  <2>6. PlaybackConsistent'
    BY <1>1, <1>4, <2>1, <2>2, Modulus, LimitsAssumption
    DEF PlayBuffered, PlaybackConsistent
  <2> QED
    BY <2>3, <2>5, <2>6 DEF IInv, PacketsOK, BufferBounded
<1>5. CASE Conceal
  <2>1. m_sessionId # 0 /\ m_nextSequence' \in Sequence /\ output' = Silence
    BY <1>3, <1>5, Increment DEF Conceal
  <2>2. CASE MissingNow >= ConsecutiveMissingRebufferThreshold
    <3>1. /\ m_playing' = FALSE /\ m_consecutiveMissingPackets' = 0
          /\ m_packets' = NoPackets
      BY <1>5, <2>2 DEF Conceal
    <3>2. PacketsOK'
      BY <3>1, NoneBuffered
    <3>3. TypeOK'
      BY <1>1, <2>1, <3>1, <3>2 DEF IInv, TypeOK, PacketsOK
    <3>4. PlaybackConsistent'
      BY <1>1, <2>1, <3>1, Modulus, LimitsAssumption DEF PlaybackConsistent
    <3> QED
      BY <3>2, <3>3, <3>4 DEF IInv, PacketsOK, BufferBounded
  <2>3. CASE ~(MissingNow >= ConsecutiveMissingRebufferThreshold)
    <3>1. /\ m_playing' = TRUE /\ m_consecutiveMissingPackets' = MissingNow
          /\ UNCHANGED m_packets
      BY <1>5, <2>3 DEF Conceal
    <3>2. MissingNow \in Nat /\ MissingNow < ConsecutiveMissingRebufferThreshold
      BY <2>3, LimitsAssumption DEF MissingNow, IInv, TypeOK
    <3>3. TypeOK' /\ BufferBounded'
      BY <1>1, <2>1, <3>1, <3>2 DEF IInv, TypeOK, BufferBounded, Buffered
    <3>4. PlaybackConsistent'
      BY <1>1, <2>1, <3>1, <3>2, Modulus DEF PlaybackConsistent
    <3> QED
      BY <3>3, <3>4 DEF IInv
  <2> QED
    BY <2>2, <2>3
<1> QED
  BY <1>2, <1>4, <1>5 DEF TakeNextPacket

LEMMA ClearInv ==
  ASSUME IInv, Clear
  PROVE  IInv'
<1>1. PacketsOK' /\ Buffered' = {}
  BY NoneBuffered DEF Clear
<1>2. TypeOK'
  BY <1>1 DEF Clear, TypeOK, PacketsOK
<1>3. PlaybackConsistent'
  BY <1>1, LimitsAssumption DEF Clear, PlaybackConsistent
<1> QED
  BY <1>1, <1>2, <1>3 DEF IInv, BufferBounded, PacketsOK

\* A step keeps the invariant and makes room at the far end only.
LEMMA StepInv ==
  ASSUME IInv, [Next]_bufferVars
  PROVE  IInv'
<1>1. CASE UNCHANGED bufferVars
  BY <1>1 DEF bufferVars, IInv, TypeOK, BufferBounded, PlaybackConsistent, Buffered
<1> QED
  BY <1>1, InsertInv, TakeInv, ClearInv DEF Next

LEMMA Invariance == Spec => []IInv
<1>1. IInv /\ [Next]_bufferVars => IInv'
  BY StepInv
<1> QED
  BY InitInv, <1>1, PTL DEF Spec
-----------------------------------------------------------------------------
\* In every state, whatever calls were made, the fields have their types, and no
\* packet is buffered under the sequence 0.
THEOREM TypeCorrect == Spec => []TypeOK
<1>1. IInv => TypeOK
  BY DEF IInv
<1> QED
  BY Invariance, <1>1, PTL

\* No sequence of calls takes the buffer past its limit (cpp, 46-69).
THEOREM NeverOverfull == Spec => []BufferBounded
<1>1. IInv => BufferBounded
  BY DEF IInv
<1> QED
  BY Invariance, <1>1, PTL

\* Playback needs a session, and the run of missing packets ends below the
\* threshold (cpp, 96-103).
THEOREM PlaybackFitsTogether == Spec => []PlaybackConsistent
<1>1. IInv => PlaybackConsistent
  BY DEF IInv
<1> QED
  BY Invariance, <1>1, PTL

\* A full buffer that makes room for a packet gives up the one that playback
\* would reach last, counting round the sequence space (cpp, 46-67).
THEOREM MakesRoomAtTheEnd == Spec => OverflowDropsFarthest
<1> DEFINE Kept ==
      \A q \in Buffered \ Buffered' :
        m_sessionId' = m_sessionId /\ output' = Nothing /\ Buffered' # {}
          /\ m_playing' = m_playing
          => \A r \in Buffered' :
               ForwardDistance(m_nextSequence', r) <= ForwardDistance(m_nextSequence', q)
<1>1. ASSUME IInv, [Next]_bufferVars
      PROVE  [Kept]_bufferVars
  <2> SUFFICES ASSUME Next, m_sessionId' = m_sessionId, output' = Nothing,
                      Buffered' # {}, m_playing' = m_playing,
                      NEW q \in Buffered \ Buffered', NEW r \in Buffered'
               PROVE  ForwardDistance(m_nextSequence', r)
                        <= ForwardDistance(m_nextSequence', q)
    BY <1>1
  <2>1. PacketsOK
    BY <1>1 DEF IInv, TypeOK, BufferBounded, PacketsOK
  <2>2. ~UNCHANGED m_packets
    BY DEF Buffered
  <2>3. ASSUME NEW session \in Session, NEW p \in Sequence, NEW payload \in Payload,
               InsertPacket(session, p, payload)
        PROVE  ForwardDistance(m_nextSequence', r) <= ForwardDistance(m_nextSequence', q)
    <3>1. CASE ResetForSession(session, p, payload) /\ m_sessionId # session
      BY <3>1 DEF ResetForSession
    <3>2. CASE ResetForSession(session, p, payload) /\ ObviousJump(session, p)
      BY <3>2 DEF ResetForSession, ObviousJump
    <3>3. CASE /\ m_sessionId = session
               /\ m_nextSequence' = RewoundNext(p)
               /\ StorePacket(RewoundNext(p), p, payload)
      <4>1. RewoundNext(p) \in Sequence \cup {0}
        BY <1>1 DEF RewoundNext, IInv, TypeOK
      <4>2. \A gone \in Buffered \ Buffered' : \A s \in Buffered' :
              ForwardDistance(RewoundNext(p), s) <= ForwardDistance(RewoundNext(p), gone)
        BY <2>1, <3>3, <4>1, StoreInv
      <4> QED
        BY <3>3, <4>2
    <3> QED
      BY <2>2, <2>3, <3>1, <3>2, <3>3 DEF InsertPacket
  <2>4. ~Clear
    BY NoneBuffered DEF Clear
  <2>5. ~TakeNextPacket
    <3>1. ~StillPrebuffering
      BY <2>2 DEF StillPrebuffering
    <3>2. ~PlayBuffered
      BY <2>1, ValuesAssumption DEF PlayBuffered, PacketsOK
    <3>3. ~Conceal
      BY ValuesAssumption DEF Conceal
    <3> QED
      BY <3>1, <3>2, <3>3 DEF TakeNextPacket
  <2> QED
    BY <2>3, <2>4, <2>5 DEF Next
<1> QED
  BY Invariance, <1>1, PTL DEF Spec, OverflowDropsFarthest
-----------------------------------------------------------------------------
(* Sequences that follow one another. *)

\* The sequence n packets after q.
Ahead(q, n) == 1 + ((q - 1 + n) % (SequenceModulus - 1))

LEMMA QuotientAndRemainder ==
  ASSUME NEW a \in Nat, NEW m \in Nat, m > 0
  PROVE  /\ a \div m \in Nat /\ (a % m) \in Nat /\ (a % m) < m
         /\ a = (a \div m) * m + (a % m)
<1>1. a \div m \in Nat
  BY SMTT(30)
<1>2. (a % m) \in Nat /\ (a % m) < m
  BY SMTT(30)
<1>3. a = (a \div m) * m + (a % m)
  BY SMTT(30)
<1> QED
  BY <1>1, <1>2, <1>3

LEMMA RemainderIs ==
  ASSUME NEW k \in Nat, NEW r \in Nat, NEW m \in Nat, r < m
  PROVE  (k * m + r) % m = r
<1>1. m > 0 /\ r + m * k = k * m + r
  OBVIOUS
<1>2. (r + m * k) % m = r
  BY <1>1, SMTT(30)
<1> QED
  BY <1>1, <1>2

\* Two sequences less than a round apart: the later one is as many ahead, or one
\* more where 0 is skipped.
LEMMA Gap ==
  ASSUME NEW q \in Sequence, NEW a \in Nat, NEW b \in Nat, a <= b, b - a < SequenceModulus - 1
  PROVE  /\ Ahead(q, a) \in Sequence /\ Ahead(q, b) \in Sequence
         /\ \/ Ahead(q, b) = Ahead(q, a) + (b - a)
            \/ /\ Ahead(q, b) + (SequenceModulus - 1) = Ahead(q, a) + (b - a)
               /\ Ahead(q, b) < Ahead(q, a)
<1> DEFINE N == SequenceModulus - 1
           i == q - 1 + a
           d == b - a
           k == i \div N
           r == i % N
<1>1. N \in Nat /\ N > 0 /\ i \in Nat /\ d \in Nat /\ d < N
  BY Modulus DEF Sequence
<1>2. k \in Nat /\ r \in Nat /\ r < N /\ i = k * N + r
  BY <1>1, QuotientAndRemainder
<1>3. Ahead(q, a) = 1 + r
  BY DEF Ahead
<1>4. Ahead(q, b) = 1 + ((i + d) % N)
  <2>1. q - 1 + b = i + d
    BY Modulus DEF Sequence
  <2> QED
    BY <2>1 DEF Ahead
<1>5. Sequence = 1 .. N
  BY DEF Sequence
<1> HIDE DEF N, i, d, k, r
<1>6. CASE r + d < N
  <2>1. i + d = k * N + (r + d)
    <3>1. k * N \in Nat
      BY <1>1, <1>2
    <3> QED
      BY <1>1, <1>2, <3>1
  <2>2. (i + d) % N = r + d
    BY <1>1, <1>2, <1>6, <2>1, RemainderIs
  <2>3. Ahead(q, b) = Ahead(q, a) + d
    BY <1>1, <1>2, <1>3, <1>4, <2>2
  <2>4. Ahead(q, a) \in 1 .. N /\ Ahead(q, b) \in 1 .. N
    BY <1>1, <1>2, <1>3, <1>4, <1>6, <2>2
  <2> QED
    BY <1>5, <2>3, <2>4 DEF d
<1>7. CASE r + d >= N
  <2> DEFINE s == r + d - N
  <2>1. s \in Nat /\ s < r /\ s < N
    BY <1>1, <1>2, <1>7
  <2>2. i + d = (k + 1) * N + s
    <3>1. k * N \in Nat /\ (k + 1) * N = k * N + N
      BY <1>1, <1>2
    <3> QED
      BY <1>1, <1>2, <3>1
  <2>3. k + 1 \in Nat
    BY <1>2
  <2>4. (i + d) % N = s
    <3> DEFINE k1 == k + 1
    <3> HIDE DEF s, k1
    <3>1. (k1 * N + s) % N = s
      BY <1>1, <2>1, <2>3, RemainderIs DEF k1
    <3> QED
      BY <2>2, <3>1 DEF k1
  <2>5. Ahead(q, b) + N = Ahead(q, a) + d /\ Ahead(q, b) < Ahead(q, a)
    BY <1>1, <1>2, <1>3, <1>4, <2>1, <2>4
  <2>6. Ahead(q, a) \in 1 .. N /\ Ahead(q, b) \in 1 .. N
    BY <1>1, <1>2, <1>3, <1>4, <2>1, <2>4
  <2> QED
    BY <1>5, <2>5, <2>6 DEF d, N
<1> QED
  BY <1>1, <1>2, <1>6, <1>7

LEMMA SmallRemainder ==
  ASSUME NEW r \in Nat, NEW m \in Nat, r < m
  PROVE  r % m = r /\ (r + m) % m = r
<1>1. (0 * m + r) % m = r /\ (1 * m + r) % m = r
  BY RemainderIs
<1>2. 0 * m + r = r /\ 1 * m + r = r + m
  OBVIOUS
<1> QED
  BY <1>1, <1>2

LEMMA Half ==
  /\ SequenceModulus \div 2 \in Nat /\ SequenceModulus = 2 * (SequenceModulus \div 2)
<1>1. SequenceModulus \in Nat /\ SequenceModulus % 2 = 0
  BY ModulusAssumption
<1> QED
  BY <1>1, SMTT(30)

\* Less than half a round apart, the earlier of two sequences compares as less ...
LEMMA EarlierIsLess ==
  ASSUME NEW q \in Sequence, NEW a \in Nat, NEW b \in Nat, a < b,
         b - a < SequenceModulus \div 2
  PROVE  SequenceLess(Ahead(q, a), Ahead(q, b)) /\ Ahead(q, a) # Ahead(q, b)
<1> DEFINE H == SequenceModulus \div 2
           s == Ahead(q, a)
           t == Ahead(q, b)
<1>1. H \in Nat /\ SequenceModulus = 2 * H /\ b - a \in Nat /\ b - a < SequenceModulus - 1
  BY Half
<1>2. /\ s \in Sequence /\ t \in Sequence
      /\ t = s + (b - a) \/ (t + (SequenceModulus - 1) = s + (b - a) /\ t < s)
  BY <1>1, Gap
<1>3. b - a < H
  OBVIOUS
<1> HIDE DEF s, t, H
<1>4. s \in 1 .. SequenceModulus - 1 /\ t \in 1 .. SequenceModulus - 1
  BY <1>2 DEF Sequence
<1>5. s # t /\ ForwardDistance(t, s) >= H
  <2>1. CASE t = s + (b - a)
    <3> DEFINE g == SequenceModulus - (b - a)
    <3>1. /\ s + SequenceModulus - t = g /\ s # t
          /\ g \in Nat /\ g < SequenceModulus /\ g >= H
      BY <1>1, <1>3, <1>4, <2>1
    <3> HIDE DEF g
    <3>2. ForwardDistance(t, s) = g
      BY <1>1, <3>1, SmallRemainder DEF ForwardDistance
    <3> QED
      BY <3>1, <3>2
  <2>2. CASE t + (SequenceModulus - 1) = s + (b - a) /\ t < s
    <3> DEFINE g == SequenceModulus - 1 - (b - a)
    <3>1. /\ s + SequenceModulus - t = g + SequenceModulus
          /\ g \in Nat /\ g < SequenceModulus /\ g >= H
      BY <1>1, <1>3, <1>4, <2>2
    <3> HIDE DEF g
    <3>2. ForwardDistance(t, s) = g
      BY <1>1, <3>1, SmallRemainder DEF ForwardDistance
    <3> QED
      BY <1>4, <2>2, <3>1, <3>2
  <2> QED
    BY <1>2, <2>1, <2>2
<1> QED
  BY <1>5 DEF SequenceLess, s, t, H

\* ... and the later one does not, and is no more than one farther than it should.
LEMMA LaterIsNotLess ==
  ASSUME NEW q \in Sequence, NEW a \in Nat, NEW b \in Nat, a <= b,
         b - a < (SequenceModulus \div 2) - 1
  PROVE  /\ ~SequenceLess(Ahead(q, b), Ahead(q, a))
         /\ ForwardDistance(Ahead(q, a), Ahead(q, b)) \in 0 .. b - a + 1
<1> DEFINE H == SequenceModulus \div 2
           s == Ahead(q, a)
           t == Ahead(q, b)
<1>1. H \in Nat /\ SequenceModulus = 2 * H /\ b - a \in Nat /\ b - a < SequenceModulus - 1
  BY Half
<1>2. /\ s \in Sequence /\ t \in Sequence
      /\ t = s + (b - a) \/ (t + (SequenceModulus - 1) = s + (b - a) /\ t < s)
  BY <1>1, Gap
<1>3. b - a < H - 1
  OBVIOUS
<1> HIDE DEF s, t, H
<1>4. s \in 1 .. SequenceModulus - 1 /\ t \in 1 .. SequenceModulus - 1
  BY <1>2 DEF Sequence
<1>5. ForwardDistance(s, t) \in 0 .. b - a + 1
  <2>1. CASE t = s + (b - a)
    <3> DEFINE g == b - a
    <3>1. /\ t + SequenceModulus - s = g + SequenceModulus
          /\ g \in Nat /\ g < SequenceModulus
      BY <1>1, <1>3, <1>4, <2>1
    <3> HIDE DEF g
    <3>2. ForwardDistance(s, t) = g
      BY <1>1, <3>1, SmallRemainder DEF ForwardDistance
    <3> QED
      BY <3>1, <3>2 DEF g
  <2>2. CASE t + (SequenceModulus - 1) = s + (b - a) /\ t < s
    <3> DEFINE g == b - a + 1
    <3>1. t + SequenceModulus - s = g /\ g \in Nat /\ g < SequenceModulus
      BY <1>1, <1>3, <1>4, <2>2
    <3> HIDE DEF g
    <3>2. ForwardDistance(s, t) = g
      BY <1>1, <3>1, SmallRemainder DEF ForwardDistance
    <3> QED
      BY <3>1, <3>2 DEF g
  <2> QED
    BY <1>2, <2>1, <2>2
<1>6. ~SequenceLess(t, s)
  BY <1>1, <1>3, <1>5 DEF SequenceLess, H
<1> QED
  BY <1>5, <1>6 DEF s, t

\* The counter goes on from each sequence to the next, skipping 0.
LEMMA Follows ==
  ASSUME NEW q \in Sequence, NEW n \in Nat
  PROVE  Ahead(q, n) \in Sequence /\ IncrementSequence(Ahead(q, n)) = Ahead(q, n + 1)
<1>1. CASE SequenceModulus = 2
  <2>1. \A i \in Nat : i % 1 = 0
    BY SMTT(30)
  <2>2. q - 1 + n \in Nat /\ q - 1 + (n + 1) \in Nat
    BY Modulus DEF Sequence
  <2>3. Ahead(q, n) = 1 /\ Ahead(q, n + 1) = 1
    BY <1>1, <2>1, <2>2 DEF Ahead
  <2> QED
    BY <1>1, <2>3 DEF IncrementSequence, Sequence
<1>2. CASE SequenceModulus # 2
  <2> DEFINE s == Ahead(q, n)
             t == Ahead(q, n + 1)
  <2>1. n + 1 \in Nat /\ n <= n + 1 /\ (n + 1) - n = 1 /\ 1 < SequenceModulus - 1
    BY <1>2, Modulus
  <2>2. /\ s \in Sequence /\ t \in Sequence
        /\ t = s + 1 \/ (t + (SequenceModulus - 1) = s + 1 /\ t < s)
    BY <2>1, Gap
  <2> HIDE DEF s, t
  <2>3. s \in 1 .. SequenceModulus - 1 /\ t \in 1 .. SequenceModulus - 1
    BY <2>2 DEF Sequence
  <2>4. IncrementSequence(s) = t
    BY <2>2, <2>3, Modulus DEF IncrementSequence
  <2> QED
    BY <2>2, <2>4 DEF s, t
<1> QED
  BY <1>1, <1>2
-----------------------------------------------------------------------------
(* The buffer in its surroundings: the network and the user of this side. *)

\* The position p is the next to be played.  A packet that waits is at p or
\* behind it, and p is at most what concealing has added to the last packet.
NextIs(p) ==
  /\ m_nextSequence = SequenceOf(p)
  /\ p <= PacketBound + 1 + (IF m_playing THEN m_consecutiveMissingPackets
                             ELSE ConsecutiveMissingRebufferThreshold)
  /\ \A q \in Buffered : m_packets[q].position >= p
  /\ ~rebuffered => highest < p

\* What playback and what waits for it are, in positions of the session.
Aligned ==
  /\ OneSessionBuffered
  /\ highest \in Nat /\ rebuffered \in BOOLEAN
  /\ ~m_playing /\ ~rebuffered => highest = 0
  /\ m_sessionId # 0 => \E p \in Nat \ {0} : NextIs(p)

StreamInv == IInv /\ Aligned
-----------------------------------------------------------------------------
LEMMA StreamConstants ==
  /\ SequenceModulus - 1 \in Nat /\ SequenceModulus - 1 > 0
  /\ FirstSequence \in 1 .. SequenceModulus - 1 /\ PacketBound \in Nat
  /\ ConsecutiveMissingRebufferThreshold \in Nat
  /\ ConsecutiveMissingRebufferThreshold > 0
  /\ SequenceModulus \div 2 \in Nat /\ SequenceModulus = 2 * (SequenceModulus \div 2)
  /\ PacketBound + ConsecutiveMissingRebufferThreshold + 1 <= SequenceModulus \div 2
<1>1. /\ SequenceModulus \in Nat /\ SequenceModulus >= 2 /\ SequenceModulus % 2 = 0
      /\ PacketBound \in Nat /\ FirstSequence \in 1 .. SequenceModulus - 1
      /\ ConsecutiveMissingRebufferThreshold \in Nat \ {0}
  BY ModulusAssumption, LimitsAssumption, StreamAssumption DEF Sequence
<1>2. SequenceModulus \div 2 \in Nat /\ SequenceModulus = 2 * (SequenceModulus \div 2)
  BY Half
<1> QED
  BY <1>1, <1>2, SessionsEnd

\* The position of a packet is one more than its distance from the first.
LEMMA SequenceIs ==
  ASSUME NEW n \in Nat \ {0}
  PROVE  SequenceOf(n) = Ahead(FirstSequence, n - 1) /\ FirstSequence \in Sequence
<1>1. FirstSequence - 1 + (n - 1) = FirstSequence + n - 2 /\ FirstSequence \in Sequence
  BY StreamConstants DEF Sequence
<1> QED
  BY <1>1 DEF SequenceOf, Ahead

\* Positions within the bounds of a session compare as their sequences do.
LEMMA Compared ==
  ASSUME NEW p \in Nat \ {0}, NEW n \in Position,
         p <= PacketBound + 1 + ConsecutiveMissingRebufferThreshold
  PROVE  /\ SequenceLess(SequenceOf(n), SequenceOf(p)) <=> n < p
         /\ SequenceOf(n) = SequenceOf(p) <=> n = p
<1> DEFINE H == SequenceModulus \div 2
           i == n - 1
           j == p - 1
<1>1. /\ H \in Nat /\ i \in Nat /\ j \in Nat /\ n \in Nat /\ p \in Nat
      /\ j - i < H /\ i - j < H - 1
  BY StreamConstants DEF Position
<1>2. /\ SequenceOf(n) = Ahead(FirstSequence, i) /\ SequenceOf(p) = Ahead(FirstSequence, j)
      /\ FirstSequence \in Sequence
  BY SequenceIs, StreamConstants DEF Position
<1>3. CASE n = p
  BY <1>3 DEF SequenceLess
<1>4. CASE n < p
  <2>1. i < j /\ j - i < H
    BY <1>1, <1>4
  <2> HIDE DEF i, j, H
  <2> QED
    BY <1>1, <1>2, <1>4, <2>1, EarlierIsLess DEF H
<1>5. CASE p < n
  <2>1. j < i /\ i - j < H - 1
    BY <1>1, <1>5
  <2> HIDE DEF i, j, H
  <2> QED
    BY <1>1, <1>2, <1>5, <2>1, EarlierIsLess, LaterIsNotLess DEF H
<1> QED
  BY <1>1, <1>3, <1>4, <1>5

\* The counter goes from a position to the next, skipping 0.
LEMMA Advance ==
  ASSUME NEW p \in Nat \ {0}
  PROVE  /\ SequenceOf(p) \in Sequence
         /\ IncrementSequence(SequenceOf(p)) = SequenceOf(p + 1)
<1>1. p - 1 \in Nat /\ p + 1 \in Nat \ {0} /\ (p + 1) - 1 = (p - 1) + 1
  OBVIOUS
<1> QED
  BY <1>1, SequenceIs, Follows, Zenon
-----------------------------------------------------------------------------
\* What is buffered after a packet was stored was there before, or is that packet.
LEMMA StoredContents ==
  ASSUME PacketsOK, NEW next \in Sequence \cup {0}, NEW q \in Sequence,
         NEW payload \in Payload, StorePacket(next, q, payload)
  PROVE  \A r \in Buffered' : \/ r = q /\ m_packets'[r] = payload
                              \/ r \in Buffered /\ m_packets'[r] = m_packets[r]
<1>1. CASE UNCHANGED m_packets
  BY <1>1 DEF Buffered
<1>2. CASE m_packets' = With(m_packets, q, payload)
  <2>1. Buffered' = Buffered \cup {q}
    BY <1>2 DEF With, Buffered
  <2>2. \A r \in Buffered' : m_packets'[r] = IF r = q THEN payload ELSE m_packets[r]
    BY <1>2, <2>1 DEF With, Buffered
  <2> QED
    BY <2>1, <2>2
<1>3. CASE m_packets' = With(Restrict(m_packets, Buffered \ {Farthest(next)}), q, payload)
  <2> DEFINE rest == Restrict(m_packets, Buffered \ {Farthest(next)})
  <2>1. /\ DOMAIN rest = Buffered \ {Farthest(next)}
        /\ \A r \in DOMAIN rest : rest[r] = m_packets[r]
    BY DEF Restrict
  <2>2. m_packets' = With(rest, q, payload)
    BY <1>3
  <2> HIDE DEF rest
  <2>3. Buffered' = DOMAIN rest \cup {q}
    BY <2>2 DEF With, Buffered
  <2>4. \A r \in Buffered' : m_packets'[r] = IF r = q THEN payload ELSE rest[r]
    BY <2>2, <2>3 DEF With, Buffered
  <2> QED
    BY <2>1, <2>3, <2>4
<1> QED
  BY <1>1, <1>2, <1>3 DEF StorePacket

\* A packet and where it is: its position tells its sequence and back.
LEMMA PayloadPosition ==
  ASSUME StreamInv, NEW q \in Buffered
  PROVE  /\ m_packets[q] \in Packet /\ m_packets[q].position \in Position
         /\ SequenceOf(m_packets[q].position) = q
<1>1. m_packets[q] \in Payload
  BY DEF StreamInv, IInv, TypeOK
<1> QED
  BY <1>1, StreamPayload DEF Packet, StreamInv, Aligned, OneSessionBuffered

\* The position of playback, within its bounds.
LEMMA NextBounded ==
  ASSUME StreamInv, NEW p \in Nat \ {0}, NextIs(p)
  PROVE  /\ p <= PacketBound + 1 + ConsecutiveMissingRebufferThreshold
         /\ m_nextSequence = SequenceOf(p) /\ m_nextSequence \in Sequence
         /\ m_consecutiveMissingPackets \in Nat
         /\ m_consecutiveMissingPackets < ConsecutiveMissingRebufferThreshold
<1>1. /\ m_consecutiveMissingPackets \in Nat
      /\ m_consecutiveMissingPackets < ConsecutiveMissingRebufferThreshold
  BY DEF StreamInv, IInv, TypeOK, PlaybackConsistent
<1>2. p <= PacketBound + 1 + ConsecutiveMissingRebufferThreshold
  BY <1>1, StreamConstants DEF NextIs
<1> QED
  BY <1>1, <1>2, Advance DEF NextIs

\* One of the peer's packets arrives while audio runs.
LEMMA ArrivalInv ==
  ASSUME StreamInv, NEW session \in Session, NEW n \in Position,
         InsertPacket(session, SequenceOf(n), [session |-> session, position |-> n]),
         IF m_sessionId # session \/ ObviousJump(session, SequenceOf(n))
         THEN highest' = 0 /\ rebuffered' = FALSE
         ELSE UNCHANGED <<highest, rebuffered>>
  PROVE  StreamInv'
<1> DEFINE q == SequenceOf(n)
           payload == [session |-> session, position |-> n]
<1>1. q \in Sequence /\ payload \in Payload /\ n \in Nat \ {0} /\ n <= PacketBound
  BY Advance, StreamPayload, StreamConstants DEF Position, Packet
<1>2. IInv'
  BY <1>1, InsertInv DEF StreamInv
<1>3. PacketsOK /\ m_playing \in BOOLEAN /\ 0 \notin Session
  BY ValuesAssumption DEF StreamInv, IInv, TypeOK, BufferBounded, PacketsOK
<1>4. CASE UNCHANGED <<m_sessionId, m_nextSequence, m_playing, m_consecutiveMissingPackets,
                       m_packets>> /\ Late(session, q)
  <2>1. UNCHANGED <<highest, rebuffered>>
    BY <1>4 DEF Late, ObviousJump
  <2>2. Aligned'
    BY <1>4, <2>1 DEF StreamInv, Aligned, OneSessionBuffered, NextIs, Buffered
  <2> QED
    BY <1>2, <2>2 DEF StreamInv
<1>5. CASE /\ m_sessionId # session \/ ObviousJump(session, q)
           /\ ResetForSession(session, q, payload)
  <2>1. /\ m_sessionId' = session /\ m_nextSequence' = q /\ m_playing' = FALSE
        /\ m_packets' = With(NoPackets, q, payload) /\ highest' = 0 /\ rebuffered' = FALSE
    BY <1>5 DEF ResetForSession
  <2>2. Buffered' = {q} /\ m_packets'[q] = payload
    BY <1>1, <2>1, FirstStored DEF With, NoPackets
  <2>3. OneSessionBuffered'
    BY <2>1, <2>2 DEF OneSessionBuffered
  <2>4. NextIs(n)'
    BY <1>1, <2>1, <2>2, StreamConstants DEF NextIs
  <2> QED
    BY <1>1, <1>2, <2>1, <2>3, <2>4 DEF StreamInv, Aligned
<1>6. CASE /\ m_sessionId = session /\ ~Late(session, q) /\ ~ObviousJump(session, q)
           /\ m_nextSequence' = RewoundNext(q)
           /\ StorePacket(RewoundNext(q), q, payload)
           /\ UNCHANGED <<m_sessionId, m_playing, m_consecutiveMissingPackets>>
  <2>1. UNCHANGED <<highest, rebuffered>> /\ m_sessionId # 0
    BY <1>3, <1>6
  <2>2. PICK p \in Nat \ {0} : NextIs(p)
    BY <2>1 DEF StreamInv, Aligned
  <2>3. /\ m_nextSequence = SequenceOf(p) /\ m_nextSequence \in Sequence
        /\ p <= PacketBound + 1 + ConsecutiveMissingRebufferThreshold
    BY <2>2, NextBounded
  <2>4. SequenceLess(q, m_nextSequence) <=> n < p
    BY <2>3, Compared
  <2>5. RewoundNext(q) \in Sequence
    BY <1>1, <2>3 DEF RewoundNext
  <2>6. \A r \in Buffered' : \/ r = q /\ m_packets'[r] = payload
                             \/ r \in Buffered /\ m_packets'[r] = m_packets[r]
    BY <1>1, <1>3, <1>6, <2>5, StoredContents
  <2>7. OneSessionBuffered'
    BY <1>6, <2>6 DEF StreamInv, Aligned, OneSessionBuffered
  <2>8. \A r \in Buffered : m_packets[r].position \in Nat /\ m_packets[r].position >= p
    BY <2>2, PayloadPosition DEF NextIs, Position
  <2>9. CASE ~m_playing /\ n < p
    <3>1. m_nextSequence' = SequenceOf(n)
      BY <1>6, <2>4, <2>9 DEF RewoundNext
    <3>2. \A r \in Buffered' : m_packets'[r].position >= n
      BY <1>1, <2>6, <2>8, <2>9
    <3>3. ~rebuffered' => highest' < n
      BY <1>1, <2>1, <2>9 DEF StreamInv, Aligned
    <3>4. n <= PacketBound + 1 + ConsecutiveMissingRebufferThreshold
      BY <1>1, StreamConstants
    <3>5. NextIs(n)'
      BY <1>6, <2>9, <3>1, <3>2, <3>3, <3>4 DEF NextIs
    <3> QED
      BY <1>1, <1>2, <1>6, <2>1, <2>7, <3>5 DEF StreamInv, Aligned
  <2>10. CASE ~(~m_playing /\ n < p)
    <3>1. m_nextSequence' = m_nextSequence
      BY <1>6, <2>4, <2>10 DEF RewoundNext
    <3>2. n >= p
      BY <1>1, <1>6, <2>4, <2>10 DEF Late
    <3>3. \A r \in Buffered' : m_packets'[r].position >= p
      BY <2>6, <2>8, <3>2
    <3>4. NextIs(p)'
      BY <1>6, <2>1, <2>2, <3>1, <3>3 DEF NextIs
    <3> QED
      BY <1>2, <1>6, <2>1, <2>7, <3>4 DEF StreamInv, Aligned
  <2> QED
    BY <2>9, <2>10
<1> HIDE DEF q, payload
<1>7. InsertPacket(session, q, payload)
  BY DEF q, payload
<1> QED
  BY <1>4, <1>5, <1>6, <1>7 DEF InsertPacket

\* A tick of the playout timer; and a packet it plays is ahead of all before.
LEMMA PlayoutInv ==
  ASSUME StreamInv, PlayoutTick
  PROVE  /\ StreamInv'
         /\ Plays /\ ~rebuffered => output'.position > highest
<1>1. TakeNextPacket /\ UNCHANGED m_sessionId
  BY DEF PlayoutTick, TakeNextPacket
<1>2. IInv' /\ IInv
  BY <1>1, TakeInv DEF StreamInv
<1>3. PacketsOK /\ highest \in Nat /\ rebuffered \in BOOLEAN /\ OneSessionBuffered
  BY <1>2 DEF IInv, TypeOK, BufferBounded, PacketsOK, StreamInv, Aligned
<1>4. CASE StillPrebuffering
  <2>1. /\ UNCHANGED <<m_nextSequence, m_playing, m_consecutiveMissingPackets, m_packets>>
        /\ output' = Nothing /\ Nothing \notin Payload /\ Nothing # Silence
    BY <1>4, ValuesAssumption DEF StillPrebuffering
  <2>2. UNCHANGED <<highest, rebuffered>>
    BY <1>3, <2>1 DEF PlayoutTick
  <2>3. Aligned'
    BY <1>1, <2>1, <2>2 DEF StreamInv, Aligned, OneSessionBuffered, NextIs, Buffered
  <2> QED
    BY <1>2, <2>1, <2>3 DEF StreamInv, Plays
<1>5. ASSUME ReadyToPlay
      PROVE  /\ m_sessionId # 0
             /\ \E p \in Nat \ {0} : NextIs(p) /\ (~m_playing => p <= PacketBound)
  <2>1. m_sessionId # 0
    <3>1. m_sessionId = 0 => Buffered = {} /\ ~m_playing
      BY <1>2 DEF IInv, PlaybackConsistent
    <3>2. Cardinality({}) = 0
      BY FS_EmptySet
    <3> QED
      BY <1>5, <3>1, <3>2, LimitsAssumption DEF ReadyToPlay
  <2>2. PICK p \in Nat \ {0} : NextIs(p)
    BY <2>1 DEF StreamInv, Aligned
  <2>3. ~m_playing => p <= PacketBound
    <3> SUFFICES ASSUME ~m_playing PROVE p <= PacketBound
      OBVIOUS
    <3>1. Buffered # {}
      BY <1>5, FS_EmptySet, LimitsAssumption DEF ReadyToPlay
    <3>2. PICK q \in Buffered : TRUE
      BY <3>1
    <3>3. m_packets[q].position \in 1 .. PacketBound /\ m_packets[q].position >= p
      BY <2>2, PayloadPosition DEF NextIs, Position
    <3> QED
      BY <3>3, StreamConstants
  <2> QED
    BY <2>1, <2>2, <2>3
<1>6. CASE PlayBuffered
  <2>1. PICK p \in Nat \ {0} : NextIs(p)
    BY <1>5, <1>6 DEF PlayBuffered
  <2>2. m_nextSequence = SequenceOf(p) /\ m_nextSequence \in Buffered
    BY <1>6, <2>1 DEF PlayBuffered, NextIs
  <2>3. /\ m_packets' = Restrict(m_packets, Buffered \ {m_nextSequence})
        /\ m_nextSequence' = SequenceOf(p + 1) /\ m_playing' = TRUE
        /\ m_consecutiveMissingPackets' = 0 /\ output' = m_packets[m_nextSequence]
    BY <1>6, <2>2, Advance DEF PlayBuffered
  <2>4. /\ Buffered' = Buffered \ {m_nextSequence}
        /\ \A q \in Buffered' : m_packets'[q] = m_packets[q]
    BY <2>3 DEF Restrict, Buffered
  <2>5. \A q \in Buffered : /\ m_packets[q].position \in 1 .. PacketBound
                            /\ m_packets[q].position >= p
                            /\ SequenceOf(m_packets[q].position) = q
    BY <2>1, PayloadPosition DEF NextIs, Position
  <2>5b. m_packets[m_nextSequence].position = p
    <3>1. p <= PacketBound + 1 + ConsecutiveMissingRebufferThreshold
      BY <2>1, NextBounded
    <3>2. /\ m_packets[m_nextSequence].position \in Position
          /\ SequenceOf(m_packets[m_nextSequence].position) = SequenceOf(p)
      BY <2>2, <2>5 DEF Position
    <3> QED
      BY <3>1, <3>2, Compared
  <2>6. p <= PacketBound /\ output' \in Payload /\ output'.position = p
    <3>1. p \in 1 .. PacketBound
      BY <2>2, <2>5, <2>5b
    <3>2. output' \in Payload
      BY <1>3, <2>2, <2>3 DEF PacketsOK
    <3> QED
      BY <2>3, <2>5b, <3>1, <3>2, StreamConstants
  <2>7. /\ highest' \in Nat
        /\ ~rebuffered => highest' < p + 1
        /\ rebuffered' = rebuffered
    <3>1. ~rebuffered => highest < p
      BY <2>1 DEF NextIs
    <3>2. highest' = IF p > highest THEN p ELSE highest
      BY <2>6 DEF PlayoutTick
    <3>3. output' # Silence /\ rebuffered' = (rebuffered \/ (output' = Silence /\ ~m_playing'))
      BY <2>6, ValuesAssumption DEF PlayoutTick
    <3>4. rebuffered' = rebuffered
      BY <1>3, <2>3, <3>3
    <3> QED
      BY <1>3, <3>1, <3>2, <3>4
  <2>8. OneSessionBuffered'
    <3> SUFFICES ASSUME NEW q \in Buffered'
                 PROVE  /\ m_packets'[q].session = m_sessionId'
                        /\ SequenceOf(m_packets'[q].position) = q
      BY DEF OneSessionBuffered
    <3>1. q \in Buffered /\ m_packets'[q] = m_packets[q]
      BY <2>4
    <3>2. m_packets[q].session = m_sessionId /\ SequenceOf(m_packets[q].position) = q
      BY <1>3, <3>1 DEF OneSessionBuffered
    <3> QED
      BY <1>1, <3>1, <3>2
  <2>9. \A q \in Buffered' : m_packets'[q].position >= p + 1
    <3> SUFFICES ASSUME NEW q \in Buffered' PROVE m_packets'[q].position >= p + 1
      OBVIOUS
    <3>1. q \in Buffered /\ q # m_nextSequence /\ m_packets'[q] = m_packets[q]
      BY <2>4
    <3>2. /\ m_packets[q].position \in 1 .. PacketBound
          /\ m_packets[q].position >= p
          /\ SequenceOf(m_packets[q].position) # SequenceOf(p)
      BY <2>2, <2>5, <3>1
    <3>3. m_packets[q].position # p
      BY <3>2
    <3>4. m_packets[q].position \in Int /\ p \in Int
      BY <3>2, StreamConstants
    <3> QED
      BY <3>1, <3>2, <3>3, <3>4
  <2>10. NextIs(p + 1)'
    <3>1. m_nextSequence' = SequenceOf(p + 1) /\ m_playing' = TRUE
      BY <2>3
    <3>2. p + 1 <= PacketBound + 1 + m_consecutiveMissingPackets'
      BY <2>3, <2>6, StreamConstants
    <3>3. ~rebuffered' => highest' < p + 1
      BY <2>7
    <3> QED
      BY <2>9, <3>1, <3>2, <3>3 DEF NextIs
  <2>11. Aligned'
    <3>1. p + 1 \in Nat \ {0}
      OBVIOUS
    <3>2. m_sessionId' # 0 => \E n \in Nat \ {0} : NextIs(n)'
      BY <2>10, <3>1
    <3> QED
      BY <1>3, <2>3, <2>7, <2>8, <3>2 DEF Aligned
  <2>12. ~rebuffered => output'.position > highest
    BY <1>3, <2>1, <2>6 DEF NextIs
  <2> QED
    BY <1>2, <2>11, <2>12 DEF StreamInv
<1>7. CASE Conceal
  <2>1. PICK p \in Nat \ {0} : NextIs(p) /\ (~m_playing => p <= PacketBound)
    BY <1>5, <1>7 DEF Conceal
  <2>2. m_nextSequence = SequenceOf(p) /\ m_nextSequence \notin Buffered
    BY <1>7, <2>1 DEF Conceal, NextIs
  <2>3. /\ m_nextSequence' = SequenceOf(p + 1) /\ output' = Silence
        /\ Silence \notin Payload
    BY <1>7, <2>2, Advance, ValuesAssumption DEF Conceal
  <2>4. highest' = highest /\ rebuffered' = (rebuffered \/ ~m_playing')
    BY <2>3 DEF PlayoutTick
  <2>5. \A q \in Buffered : /\ m_packets[q].position \in Nat
                            /\ m_packets[q].position >= p + 1
    <3>1. \A q \in Buffered : /\ m_packets[q].position \in Nat
                              /\ m_packets[q].position >= p
                              /\ SequenceOf(m_packets[q].position) = q
      BY <2>1, PayloadPosition DEF NextIs, Position
    <3> QED
      BY <2>2, <3>1
  <2>6. MissingNow \in Nat /\ MissingNow <= ConsecutiveMissingRebufferThreshold
        /\ p + 1 <= PacketBound + 1 + MissingNow
    <3>1. /\ m_consecutiveMissingPackets \in Nat
          /\ m_consecutiveMissingPackets < ConsecutiveMissingRebufferThreshold
      BY <2>1, NextBounded
    <3>2. CASE m_playing
      BY <2>1, <3>1, <3>2, StreamConstants DEF MissingNow, NextIs
    <3>3. CASE ~m_playing
      BY <2>1, <3>1, <3>3, StreamConstants DEF MissingNow
    <3> QED
      BY <3>2, <3>3
  <2>7. CASE MissingNow >= ConsecutiveMissingRebufferThreshold
    <3>1. m_playing' = FALSE /\ m_packets' = NoPackets
      BY <1>7, <2>7 DEF Conceal
    <3>2. Buffered' = {} /\ rebuffered' = TRUE
      BY <2>4, <3>1 DEF Buffered, NoPackets
    <3>3. NextIs(p + 1)'
      BY <2>3, <2>6, <3>1, <3>2, StreamConstants DEF NextIs
    <3>4. Aligned'
      BY <1>3, <2>4, <3>2, <3>3 DEF Aligned, OneSessionBuffered
    <3> QED
      BY <1>2, <2>3, <3>4 DEF StreamInv, Plays
  <2>8. CASE ~(MissingNow >= ConsecutiveMissingRebufferThreshold)
    <3>1. /\ m_playing' = TRUE /\ m_consecutiveMissingPackets' = MissingNow
          /\ UNCHANGED m_packets
      BY <1>7, <2>8 DEF Conceal
    <3>2. Buffered' = Buffered /\ rebuffered' = rebuffered
      BY <1>3, <2>4, <3>1 DEF Buffered
    <3>3. ~rebuffered => highest < p + 1
      BY <1>3, <2>1 DEF NextIs
    <3>4. NextIs(p + 1)'
      BY <2>3, <2>4, <2>5, <2>6, <3>1, <3>2, <3>3 DEF NextIs
    <3>5. Aligned'
      BY <1>1, <1>3, <2>4, <3>1, <3>2, <3>4 DEF Aligned, OneSessionBuffered
    <3> QED
      BY <1>2, <2>3, <3>5 DEF StreamInv, Plays
  <2> QED
    BY <2>7, <2>8
<1> QED
  BY <1>1, <1>4, <1>6, <1>7 DEF TakeNextPacket

\* The other steps: the buffer is left alone, or emptied.
LEMMA UntouchedInv ==
  ASSUME StreamInv, UNCHANGED <<bufferVars, highest, rebuffered>>
  PROVE  StreamInv'
<1>1. IInv'
  BY StepInv DEF StreamInv
<1>2. Aligned'
  BY DEF StreamInv, Aligned, OneSessionBuffered, NextIs, Buffered, bufferVars
<1> QED
  BY <1>1, <1>2 DEF StreamInv

LEMMA StartOrStopInv ==
  ASSUME StreamInv, StartOrStop
  PROVE  StreamInv'
<1>1. Clear /\ highest' = 0 /\ rebuffered' = FALSE
  BY DEF StartOrStop
<1>2. IInv'
  BY <1>1, ClearInv DEF StreamInv
<1>3. Buffered' = {} /\ m_sessionId' = 0
  BY <1>1 DEF Clear, NoPackets, Buffered
<1> QED
  BY <1>1, <1>2, <1>3 DEF StreamInv, Aligned, OneSessionBuffered

\* A datagram that is not dropped is one of the peer's packets.
LEMMA DatagramInv ==
  ASSUME StreamInv, NEW d, ReadPendingDatagram(d),
         \/ d \in Stray
         \/ \E session \in Session, n \in Position : d = AudioPacket(session, n)
  PROVE  StreamInv'
<1>1. CASE ~(Accepted(d) /\ m_running)
  BY <1>1, UntouchedInv DEF ReadPendingDatagram
<1>2. CASE Accepted(d) /\ m_running
  <2>1. PICK session \in Session, n \in Position : d = AudioPacket(session, n)
    BY <1>2, StrayAssumption DEF Accepted
  <2>2. /\ d.session = session /\ d.sequence = SequenceOf(n)
        /\ d.payload = [session |-> session, position |-> n]
    BY <2>1 DEF AudioPacket
  <2>3. /\ InsertPacket(session, SequenceOf(n), [session |-> session, position |-> n])
        /\ IF m_sessionId # session \/ ObviousJump(session, SequenceOf(n))
           THEN highest' = 0 /\ rebuffered' = FALSE
           ELSE UNCHANGED <<highest, rebuffered>>
    BY <1>2, <2>2 DEF ReadPendingDatagram
  <2> QED
    BY <2>3, ArrivalInv
<1> QED
  BY <1>1, <1>2

LEMMA StreamInvInitial == StreamInit => StreamInv
<1> SUFFICES ASSUME StreamInit PROVE StreamInv
  OBVIOUS
<1>1. IInv
  BY InitInv DEF StreamInit
<1>2. Buffered = {} /\ m_sessionId = 0 /\ highest = 0 /\ rebuffered = FALSE
  BY DEF StreamInit, Init, NoPackets, Buffered
<1> QED
  BY <1>1, <1>2 DEF StreamInv, Aligned, OneSessionBuffered

LEMMA StreamStep == StreamInv /\ [StreamNext]_vars => StreamInv'
<1> SUFFICES ASSUME StreamInv, [StreamNext]_vars PROVE StreamInv'
  OBVIOUS
<1>1. ASSUME NEW session \in Session, SendAudioPayload(session) PROVE StreamInv'
  BY <1>1, UntouchedInv DEF SendAudioPayload
<1>2. ASSUME NEW session \in Session, NEW n \in Position, Arrive(session, n)
      PROVE  StreamInv'
  BY <1>2, DatagramInv DEF Arrive
<1>3. ASSUME NEW d \in Stray, ReadPendingDatagram(d) PROVE StreamInv'
  BY <1>3, DatagramInv
<1>4. CASE PlayoutTick
  BY <1>4, PlayoutInv
<1>5. CASE StartOrStop
  BY <1>5, StartOrStopInv
<1>6. CASE UNCHANGED vars
  BY <1>6, UntouchedInv DEF vars
<1> QED
  BY <1>1, <1>2, <1>3, <1>4, <1>5, <1>6 DEF StreamNext

LEMMA StreamInvariant == StreamSpec => []StreamInv
BY StreamInvInitial, StreamStep, PTL DEF StreamSpec
-----------------------------------------------------------------------------
\* Packets of two sessions are never mixed, and each is buffered under its own
\* sequence: datagrams of others and late ones of a session that has ended do
\* not get past onAudioPacketReceived and the jitter buffer's resets.
THEOREM SessionsNotMixed == StreamSpec => []OneSessionBuffered
<1>1. StreamInv => OneSessionBuffered
  BY DEF StreamInv, Aligned
<1> QED
  BY <1>1, StreamInvariant, PTL

\* No packet waits where playback has passed, for streams of any length short
\* of half the sequence space and any wrap within them.
THEOREM NothingLeftBehind == StreamSpec => []NothingBehindPlayback
<1>1. StreamInv => NothingBehindPlayback
  <2> SUFFICES ASSUME StreamInv, NEW q \in Buffered
               PROVE  ~SequenceLess(q, m_nextSequence)
    BY DEF NothingBehindPlayback
  <2>1. m_sessionId # 0
    BY DEF StreamInv, IInv, PlaybackConsistent
  <2>2. PICK p \in Nat \ {0} : NextIs(p)
    BY <2>1 DEF StreamInv, Aligned
  <2> DEFINE n == m_packets[q].position
  <2>3. n \in Position /\ SequenceOf(n) = q /\ n >= p
    BY <2>2, PayloadPosition DEF NextIs
  <2>4. /\ p <= PacketBound + 1 + ConsecutiveMissingRebufferThreshold
        /\ m_nextSequence = SequenceOf(p)
    BY <2>2, NextBounded
  <2> HIDE DEF n
  <2>5. SequenceLess(SequenceOf(n), SequenceOf(p)) <=> n < p
    BY <2>3, <2>4, Compared
  <2>6. ~(n < p)
    BY <2>3, StreamConstants DEF Position
  <2> QED
    BY <2>3, <2>4, <2>5, <2>6
<1> QED
  BY <1>1, StreamInvariant, PTL

\* Audio is played in the order of its capture, no packet twice, until missing
\* packets interrupt playback or the buffer is reset, for a jump or for a packet of
\* another session: the answer of takeNextPacket over all the ways packets may have
\* come in.
THEOREM InOrder == StreamSpec => PlayedInOrder
<1> DEFINE A == Plays /\ m_sessionId' = m_sessionId /\ ~rebuffered
                  => output'.position > highest
<1>1. StreamInv /\ [StreamNext]_vars => [A]_vars
  <2> SUFFICES ASSUME StreamInv, StreamNext PROVE A
    OBVIOUS
  <2>1. ASSUME NEW session \in Session, SendAudioPayload(session) PROVE ~Plays
    BY <2>1 DEF SendAudioPayload, bufferVars, Plays
  <2>2. ASSUME NEW d, ReadPendingDatagram(d) PROVE ~Plays
    BY <2>2, ValuesAssumption DEF ReadPendingDatagram, InsertPacket, bufferVars, Plays
  <2>3. CASE StartOrStop
    BY <2>3, ValuesAssumption DEF StartOrStop, Clear, Plays
  <2>4. CASE PlayoutTick
    BY <2>4, PlayoutInv
  <2> QED
    BY <2>1, <2>2, <2>3, <2>4 DEF StreamNext, Arrive
<1> QED
  BY <1>1, StreamInvariant, PTL DEF StreamSpec, PlayedInOrder
-----------------------------------------------------------------------------
(* The buffer under the peer it is built for, as long as nothing is lost. *)

\* The sequence of the peer's packet number n, the first being number 0.
At(n) == Ahead(FirstSent, n)

\* The ticks so far, when n packets have been sent.
Ticks(n) == IF captured THEN n - 1 ELSE n

\* A packet under way is one sent no more than MaxDelay ticks ago.
InTime(n) ==
  \A q \in DOMAIN underway : \E k \in Nat :
    /\ k < n /\ q = At(k)
    /\ underway[q] = Ticks(n) - k /\ underway[q] <= MaxDelay

\* Playback is to go on with packet p, and has or will get all from there on.
Expects(p, n) ==
  /\ m_nextSequence = At(p)
  /\ \A k \in p .. n - 1 : At(k) \in DOMAIN underway \cup Buffered
  /\ \A q \in Buffered : \E k \in p .. n - 1 : q = At(k)

\* Before playback: every packet that has arrived waits, and the first of them is
\* where playback will start.  It starts before so many ticks have passed.
Filling(n) ==
  /\ ~m_playing /\ Ticks(n) < PrebufferPackets + MaxDelay
  /\ \A k \in 0 .. n - 1 : At(k) \in DOMAIN underway \cup Buffered
  /\ m_sessionId # 0 => \E p \in 0 .. n - 1 : Expects(p, n) /\ At(p) \in Buffered

\* Playback trails the peer by at least the prebuffer, and so by the delays.
Trailing(n) ==
  /\ m_playing
  /\ \E p \in Nat : /\ Expects(p, n)
                    /\ Ticks(n) - p >= PrebufferPackets - 1
                    /\ Ticks(n) - p < PrebufferPackets + MaxDelay

OnSchedule(n) ==
  /\ Ticks(n) \in Nat /\ nextToSend = At(n)
  /\ InTime(n)
  /\ Filling(n) \/ Trailing(n)

SteadyInv ==
  /\ IInv /\ m_sessionId \in {0, TheSession}
  /\ nextToSend \in Sequence /\ DOMAIN underway \subseteq Sequence
  /\ captured \in BOOLEAN /\ lost \in BOOLEAN
  /\ ~lost => output # Silence /\ \E n \in Nat : OnSchedule(n)

LEMMA SteadyConstants ==
  /\ MaxDelay \in Nat /\ PrebufferPackets \in Nat /\ MaxDelay < PrebufferPackets
  /\ MaximumBufferedPackets \in Nat
  /\ PrebufferPackets + MaxDelay <= MaximumBufferedPackets
  /\ TheSession \in Session /\ TheSession # 0 /\ pcm \in Payload /\ FirstSent \in Sequence
BY OneSession, DelayIsCovered, LimitsAssumption, ValuesAssumption

\* Packets no farther apart than what waits or is under way compare as they should.
LEMMA Window ==
  ASSUME NEW a \in Nat, NEW b \in Nat, a <= b, b - a < PrebufferPackets + MaxDelay
  PROVE  /\ ~SequenceLess(At(b), At(a))
         /\ ~(ForwardDistance(At(a), At(b)) > ObviousSequenceJump)
         /\ a < b => SequenceLess(At(a), At(b)) /\ At(a) # At(b)
<1> DEFINE H == SequenceModulus \div 2
           w == PrebufferPackets + MaxDelay
<1>1. /\ H \in Nat /\ w \in Nat /\ w + 1 <= H /\ ObviousSequenceJump \in Nat
      /\ w <= ObviousSequenceJump
  BY SteadyConstants, Half, DelayIsCovered, LimitsAssumption
<1>2. b - a < w
  OBVIOUS
<1> HIDE DEF H, w
<1>3. b - a < H - 1 /\ b - a < H
  BY <1>1, <1>2
<1>4. /\ ~SequenceLess(At(b), At(a))
      /\ ForwardDistance(At(a), At(b)) \in 0 .. b - a + 1
  BY <1>3, SteadyConstants, LaterIsNotLess DEF At, H
<1>5. ~(ForwardDistance(At(a), At(b)) > ObviousSequenceJump)
  BY <1>1, <1>2, <1>4
<1>6. a < b => SequenceLess(At(a), At(b)) /\ At(a) # At(b)
  BY <1>3, SteadyConstants, EarlierIsLess DEF At, H
<1> QED
  BY <1>4, <1>5, <1>6

LEMMA AtSequence ==
  ASSUME NEW n \in Nat
  PROVE  At(n) \in Sequence /\ IncrementSequence(At(n)) = At(n + 1)
BY SteadyConstants, Follows DEF At

\* How many packets of a stretch there can be, and must be.
LEMMA AtMost ==
  ASSUME NEW B, NEW p \in Nat, NEW n \in Nat, p <= n,
         \A q \in B : \E k \in p .. n - 1 : q = At(k)
  PROVE  IsFiniteSet(B) /\ Cardinality(B) \in Nat /\ Cardinality(B) <= n - p
<1> DEFINE S == p .. n - 1
           T == {At(k) : k \in S}
           at == [k \in S |-> At(k)]
<1>1. IsFiniteSet(S) /\ Cardinality(S) = n - p
  <2>1. p \in Int /\ n - 1 \in Int
    OBVIOUS
  <2>2. /\ IsFiniteSet(S)
        /\ Cardinality(S) = IF p > n - 1 THEN 0 ELSE (n - 1) - p + 1
    BY <2>1, FS_Interval
  <2> QED
    BY <2>2
<1>2. at \in Surjection(S, T)
  BY DEF Surjection
<1>3. B \subseteq T
  OBVIOUS
<1> HIDE DEF S, T, at
<1>4. IsFiniteSet(T) /\ Cardinality(T) <= Cardinality(S)
  BY <1>1, <1>2, FS_Surjection
<1>5. IsFiniteSet(B) /\ Cardinality(B) <= Cardinality(T)
  BY <1>3, <1>4, FS_Subset
<1> QED
  BY <1>1, <1>4, <1>5, FS_CardinalityType

LEMMA AtLeast ==
  ASSUME NEW B, IsFiniteSet(B), NEW m \in Nat, m <= PrebufferPackets + MaxDelay,
         \A k \in 0 .. m - 1 : At(k) \in B
  PROVE  m <= Cardinality(B)
<1> DEFINE S == 0 .. m - 1
           at == [k \in S |-> At(k)]
<1>1. IsFiniteSet(S) /\ Cardinality(S) = m
  <2>1. 0 \in Int /\ m - 1 \in Int
    OBVIOUS
  <2>2. /\ IsFiniteSet(S)
        /\ Cardinality(S) = IF 0 > m - 1 THEN 0 ELSE (m - 1) - 0 + 1
    BY <2>1, FS_Interval
  <2> QED
    BY <2>2
<1>2. ASSUME NEW i \in S, NEW j \in S, i < j PROVE At(i) # At(j)
  BY <1>2, SteadyConstants, Window
<1>3. ASSUME NEW i \in S, NEW j \in S, At(i) = At(j) PROVE i = j
  BY <1>2, <1>3
<1>4. at \in Injection(S, B)
  BY <1>3 DEF Injection, IsInjective
<1> HIDE DEF S, at
<1> QED
  BY <1>1, <1>4, FS_Injection

\* The packets of a stretch are in sight of one another.
LEMMA OneOfStretch ==
  ASSUME NEW p \in Nat, NEW n \in Nat, n - p <= PrebufferPackets + MaxDelay,
         NEW i \in p .. n - 1, NEW j \in p .. n - 1
  PROVE  /\ At(i) = At(j) => i = j
         /\ SequenceLess(At(i), At(j)) <=> i < j
         /\ i >= j => ~(ForwardDistance(At(j), At(i)) > ObviousSequenceJump)
<1>1. /\ i \in Nat /\ j \in Nat
      /\ i - j < PrebufferPackets + MaxDelay /\ j - i < PrebufferPackets + MaxDelay
  BY SteadyConstants
<1>2. CASE i < j
  BY <1>1, <1>2, Window
<1>3. CASE j < i
  BY <1>1, <1>3, Window
<1>4. CASE i = j
  BY <1>1, <1>4, Window
<1> QED
  BY <1>1, <1>2, <1>3, <1>4

\* A packet of the stretch, arriving in a buffer that has only such, is stored.
LEMMA KeptInStretch ==
  ASSUME PacketsOK, NEW next, NEW q, NEW payload, StorePacket(next, q, payload),
         NEW p \in Nat, NEW n \in Nat, p <= n, n - p <= PrebufferPackets + MaxDelay,
         \A r \in Buffered \cup {q} : \E k \in p .. n - 1 : r = At(k)
  PROVE  Buffered' = Buffered \cup {q}
<1>1. /\ IsFiniteSet(Buffered \cup {q}) /\ Cardinality(Buffered \cup {q}) \in Nat
      /\ Cardinality(Buffered \cup {q}) <= n - p
  BY AtMost
<1>2. Cardinality(Buffered \cup {q}) <= MaximumBufferedPackets
  BY <1>1, SteadyConstants
<1>3. CASE q \in Buffered /\ UNCHANGED m_packets
  BY <1>3 DEF Buffered
<1>4. CASE m_packets' = With(m_packets, q, payload)
  BY <1>4 DEF With, Buffered
<1>5. ~(q \notin Buffered /\ Cardinality(Buffered) >= MaximumBufferedPackets)
  <2> SUFFICES ASSUME q \notin Buffered, Cardinality(Buffered) >= MaximumBufferedPackets
               PROVE  FALSE
    OBVIOUS
  <2>1. IsFiniteSet(Buffered) /\ Cardinality(Buffered) \in Nat
    BY FS_CardinalityType DEF PacketsOK
  <2>2. Cardinality(Buffered \cup {q}) = Cardinality(Buffered) + 1
    BY <2>1, FS_AddElement
  <2> QED
    BY <1>2, <2>1, <2>2, SteadyConstants
<1> QED
  BY <1>3, <1>4, <1>5 DEF StorePacket

LEMMA SteadyInitial == SteadyInit => SteadyInv
<1> SUFFICES ASSUME SteadyInit PROVE SteadyInv
  OBVIOUS
<1>1. IInv
  BY InitInv DEF SteadyInit
<1>2. /\ m_sessionId = 0 /\ ~m_playing /\ output = Nothing /\ nextToSend = FirstSent
      /\ captured = FALSE /\ DOMAIN underway = {} /\ lost = FALSE
  BY DEF SteadyInit, Init, NoneUnderway
<1>3. FirstSent = At(0)
  <2>1. /\ FirstSent - 1 + 0 = FirstSent - 1 /\ FirstSent - 1 \in Nat
        /\ SequenceModulus - 1 \in Nat /\ FirstSent - 1 < SequenceModulus - 1
        /\ 1 + (FirstSent - 1) = FirstSent
    BY SteadyConstants, Modulus DEF Sequence
  <2>2. (FirstSent - 1) % (SequenceModulus - 1) = FirstSent - 1
    BY <2>1, SmallRemainder
  <2> QED
    BY <2>1, <2>2 DEF At, Ahead
<1>4. Ticks(0) = 0
  BY <1>2 DEF Ticks
<1>5. Filling(0)
  BY <1>2, <1>4, SteadyConstants DEF Filling
<1>6. OnSchedule(0)
  BY <1>2, <1>3, <1>4, <1>5 DEF OnSchedule, InTime
<1> QED
  BY <1>1, <1>2, <1>6, SteadyConstants, ValuesAssumption DEF SteadyInv

\* The peer sends a packet.
LEMMA CaptureOnSchedule ==
  ASSUME SteadyInv, Capture, NEW n \in Nat, OnSchedule(n)
  PROVE  OnSchedule(n + 1)'
<1>1. /\ captured = FALSE /\ captured' = TRUE /\ nextToSend' = IncrementSequence(nextToSend)
      /\ UNCHANGED <<m_sessionId, m_nextSequence, m_playing, m_packets>>
      /\ DOMAIN underway' = DOMAIN underway \cup {nextToSend}
      /\ \A q \in DOMAIN underway' : underway'[q] = IF q = nextToSend THEN 0 ELSE underway[q]
  BY DEF Capture, bufferVars, SteadyInv
<1>2. Ticks(n) = n /\ Ticks(n + 1)' = n /\ Buffered' = Buffered
  BY <1>1 DEF Ticks, Buffered
<1>3. nextToSend = At(n) /\ nextToSend' = At(n + 1)
  BY <1>1, AtSequence DEF OnSchedule
<1>4. InTime(n + 1)'
  <2> SUFFICES ASSUME NEW q \in DOMAIN underway'
               PROVE  \E k \in Nat : /\ k < n + 1 /\ q = At(k)
                                     /\ underway'[q] = n - k /\ underway'[q] <= MaxDelay
    BY <1>2 DEF InTime
  <2>1. CASE q = nextToSend
    BY <1>1, <1>3, <2>1, SteadyConstants
  <2>2. CASE q # nextToSend
    <3>1. q \in DOMAIN underway /\ underway'[q] = underway[q]
      BY <1>1, <2>2
    <3>2. PICK k \in Nat : /\ k < n /\ q = At(k)
                           /\ underway[q] = n - k /\ underway[q] <= MaxDelay
      BY <1>2, <3>1 DEF OnSchedule, InTime
    <3> QED
      BY <3>1, <3>2
  <2> QED
    BY <2>1, <2>2
<1>5. ASSUME NEW p \in Nat, \A k \in p .. n - 1 : At(k) \in DOMAIN underway \cup Buffered
      PROVE  \A k \in p .. (n + 1) - 1 : At(k) \in DOMAIN underway' \cup Buffered'
  <2> SUFFICES ASSUME NEW k \in p .. (n + 1) - 1
               PROVE  At(k) \in DOMAIN underway' \cup Buffered'
    OBVIOUS
  <2>1. k = n \/ k \in p .. n - 1
    OBVIOUS
  <2> QED
    BY <1>1, <1>2, <1>3, <1>5, <2>1
<1>6. ASSUME NEW p \in Nat, Expects(p, n) PROVE Expects(p, n + 1)'
  <2>1. \A q \in Buffered : \E k \in p .. (n + 1) - 1 : q = At(k)
    <3> SUFFICES ASSUME NEW q \in Buffered PROVE \E k \in p .. (n + 1) - 1 : q = At(k)
      OBVIOUS
    <3>1. PICK k \in p .. n - 1 : q = At(k)
      BY <1>6 DEF Expects
    <3>2. k \in p .. (n + 1) - 1
      OBVIOUS
    <3> QED
      BY <3>1, <3>2
  <2>2. \A k \in p .. (n + 1) - 1 : At(k) \in DOMAIN underway' \cup Buffered'
    BY <1>5, <1>6 DEF Expects
  <2> QED
    BY <1>1, <1>2, <1>6, <2>1, <2>2 DEF Expects
<1>7. CASE Filling(n)
  <2>1. \A k \in 0 .. (n + 1) - 1 : At(k) \in DOMAIN underway' \cup Buffered'
    BY <1>5, <1>7 DEF Filling
  <2>2. m_sessionId # 0 => \E p \in 0 .. (n + 1) - 1 : Expects(p, n + 1)' /\ At(p) \in Buffered'
    <3> SUFFICES ASSUME m_sessionId # 0
                 PROVE  \E p \in 0 .. (n + 1) - 1 : Expects(p, n + 1)' /\ At(p) \in Buffered'
      OBVIOUS
    <3>1. PICK p \in 0 .. n - 1 : Expects(p, n) /\ At(p) \in Buffered
      BY <1>7 DEF Filling
    <3>2. Expects(p, n + 1)'
      BY <1>6, <3>1
    <3>3. p \in 0 .. (n + 1) - 1
      OBVIOUS
    <3> QED
      BY <1>2, <3>1, <3>2, <3>3
  <2>3. Filling(n + 1)'
    BY <1>1, <1>2, <1>7, <2>1, <2>2 DEF Filling
  <2> QED
    BY <1>2, <1>3, <1>4, <2>3 DEF OnSchedule
<1>8. CASE Trailing(n)
  <2>1. PICK p \in Nat : /\ Expects(p, n)
                         /\ Ticks(n) - p >= PrebufferPackets - 1
                         /\ Ticks(n) - p < PrebufferPackets + MaxDelay
    BY <1>8 DEF Trailing
  <2>2. Expects(p, n + 1)'
    BY <1>6, <2>1
  <2>3. Trailing(n + 1)'
    BY <1>1, <1>2, <1>8, <2>1, <2>2 DEF Trailing
  <2> QED
    BY <1>2, <1>3, <1>4, <2>3 DEF OnSchedule
<1> QED
  BY <1>7, <1>8 DEF OnSchedule

\* A packet arrives: it is not late and does not look like a jump, and is stored.
LEMMA ArriveOnSchedule ==
  ASSUME SteadyInv, NEW q \in DOMAIN underway, ArriveInTime(q), NEW n \in Nat, OnSchedule(n)
  PROVE  OnSchedule(n)'
<1>1. /\ q \in Sequence /\ InsertPacket(TheSession, q, pcm)
      /\ UNCHANGED <<nextToSend, captured>>
      /\ DOMAIN underway' = DOMAIN underway \ {q}
      /\ \A r \in DOMAIN underway' : underway'[r] = underway[r]
  BY DEF ArriveInTime, Restrict, SteadyInv
<1>2. /\ Ticks(n)' = Ticks(n) /\ Ticks(n) \in Nat /\ nextToSend' = At(n)
      /\ n - 1 <= Ticks(n) /\ Ticks(n) <= n
  BY <1>1 DEF Ticks, OnSchedule
<1>3. InTime(n)'
  BY <1>1, <1>2 DEF OnSchedule, InTime
<1>4. PICK k \in Nat : k < n /\ q = At(k) /\ Ticks(n) - k <= MaxDelay
  BY DEF OnSchedule, InTime
<1>5. PacketsOK
  BY DEF SteadyInv, IInv, TypeOK, BufferBounded, PacketsOK
<1>6. CASE Trailing(n)
  <2>1. PICK p \in Nat : /\ Expects(p, n)
                         /\ Ticks(n) - p >= PrebufferPackets - 1
                         /\ Ticks(n) - p < PrebufferPackets + MaxDelay
    BY <1>6 DEF Trailing
  <2>2. p <= n /\ n - p <= PrebufferPackets + MaxDelay /\ k \in p .. n - 1 /\ p \in p .. n - 1
    BY <1>2, <1>4, <2>1, SteadyConstants
  <2>3. m_playing /\ m_sessionId = TheSession /\ m_nextSequence = At(p)
    BY <1>6, <2>1 DEF Trailing, Expects, SteadyInv, IInv, PlaybackConsistent
  <2>4. /\ ~SequenceLess(q, m_nextSequence)
        /\ ~(ForwardDistance(m_nextSequence, q) > ObviousSequenceJump)
    <3>1. k >= p /\ ~(k < p)
      BY <2>2
    <3> QED
      BY <1>4, <2>2, <2>3, <3>1, OneOfStretch
  <2>5. /\ UNCHANGED <<m_nextSequence, m_playing>>
        /\ StorePacket(m_nextSequence, q, pcm)
    BY <1>1, <2>3, <2>4 DEF InsertPacket, Late, ObviousJump, RewoundNext
  <2>6. \A r \in Buffered \cup {q} : \E j \in p .. n - 1 : r = At(j)
    BY <1>4, <2>1, <2>2 DEF Expects
  <2>7. Buffered' = Buffered \cup {q}
    BY <1>5, <2>2, <2>5, <2>6, KeptInStretch
  <2>8. Expects(p, n)'
    BY <1>1, <2>1, <2>5, <2>6, <2>7 DEF Expects
  <2>9. Trailing(n)'
    BY <1>2, <2>1, <2>3, <2>5, <2>8 DEF Trailing
  <2> QED
    BY <1>2, <1>3, <2>9 DEF OnSchedule
<1>7. CASE Filling(n) /\ m_sessionId = 0
  <2>1. ResetForSession(TheSession, q, pcm) /\ Buffered = {}
    BY <1>1, <1>7, SteadyConstants DEF InsertPacket, Late, SteadyInv, IInv, PlaybackConsistent
  <2>2. Buffered' = {q} /\ ~m_playing' /\ m_nextSequence' = q
    BY <1>1, <2>1, SteadyConstants, FirstStored DEF ResetForSession
  <2>3. \A j \in 0 .. n - 1 : At(j) \in DOMAIN underway' \cup Buffered'
    BY <1>1, <1>7, <2>1, <2>2 DEF Filling
  <2>4. k \in 0 .. n - 1 /\ k \in k .. n - 1 /\ k .. n - 1 \subseteq 0 .. n - 1
    BY <1>4
  <2>5. Expects(k, n)'
    BY <1>4, <2>2, <2>3, <2>4 DEF Expects
  <2>6. At(k) \in Buffered'
    BY <1>4, <2>2
  <2>7. Filling(n)'
    BY <1>2, <1>7, <2>2, <2>3, <2>4, <2>5, <2>6 DEF Filling
  <2> QED
    BY <1>2, <1>3, <2>7 DEF OnSchedule
<1>8. CASE Filling(n) /\ m_sessionId # 0
  <2>1. PICK p \in 0 .. n - 1 : Expects(p, n) /\ At(p) \in Buffered
    BY <1>8 DEF Filling
  <2>2. /\ k \in 0 .. n - 1 /\ p \in Nat
        /\ 0 \in Nat /\ 0 <= n /\ n - 0 <= PrebufferPackets + MaxDelay
    BY <1>2, <1>4, <1>8, SteadyConstants DEF Filling
  <2>3. ~m_playing /\ m_sessionId = TheSession /\ m_nextSequence = At(p)
    BY <1>8, <2>1 DEF Filling, Expects, SteadyInv
  <2> DEFINE start == IF k < p THEN k ELSE p
  <2>4. RewoundNext(q) = At(start)
    <3>1. SequenceLess(At(k), At(p)) <=> k < p
      BY <2>1, <2>2, OneOfStretch
    <3> QED
      BY <1>4, <2>3, <3>1 DEF RewoundNext
  <2>5. /\ m_nextSequence' = At(start) /\ UNCHANGED <<m_sessionId, m_playing>>
        /\ StorePacket(At(start), q, pcm)
    BY <1>1, <2>3, <2>4 DEF InsertPacket, Late, ObviousJump
  <2>6. start \in 0 .. n - 1 /\ k \in start .. n - 1
    BY <2>1, <2>2
  <2>7. p .. n - 1 \subseteq start .. n - 1 /\ start .. n - 1 \subseteq 0 .. n - 1
    BY <2>1, <2>2
  <2>8. \A r \in Buffered \cup {q} : \E j \in start .. n - 1 : r = At(j)
    BY <1>4, <2>1, <2>6, <2>7 DEF Expects
  <2>9. At(start) \in Buffered \cup {q}
    BY <1>4, <2>1
  <2> HIDE DEF start
  <2>10. \A r \in Buffered \cup {q} : \E j \in 0 .. n - 1 : r = At(j)
    BY <2>7, <2>8
  <2>11. Buffered' = Buffered \cup {q}
    BY <1>5, <2>2, <2>5, <2>10, KeptInStretch
  <2>12. \A j \in 0 .. n - 1 : At(j) \in DOMAIN underway' \cup Buffered'
    BY <1>1, <1>8, <2>11 DEF Filling
  <2>13. Expects(start, n)'
    BY <2>5, <2>7, <2>8, <2>11, <2>12 DEF Expects
  <2>14. Filling(n)'
    BY <1>2, <1>8, <2>5, <2>6, <2>9, <2>11, <2>12, <2>13 DEF Filling
  <2> QED
    BY <1>2, <1>3, <2>14 DEF OnSchedule
<1> QED
  BY <1>6, <1>7, <1>8 DEF OnSchedule

\* A tick: the packet it is for has been in time, and ticks without a packet to
\* play come only before playback.
LEMMA TickOnSchedule ==
  ASSUME SteadyInv, SteadyTick, NEW n \in Nat, OnSchedule(n)
  PROVE  OnSchedule(n)' /\ output' # Silence
<1>1. /\ captured /\ captured' = FALSE /\ nextToSend' = At(n) /\ TakeNextPacket
      /\ DOMAIN underway' = DOMAIN underway
      /\ \A q \in DOMAIN underway : underway[q] < MaxDelay /\ underway'[q] = underway[q] + 1
  BY DEF SteadyTick, OnSchedule
<1>2. Ticks(n) = n - 1 /\ n - 1 \in Nat /\ Ticks(n)' = n
  BY <1>1 DEF Ticks, OnSchedule
<1>3. InTime(n)'
  <2> SUFFICES ASSUME NEW q \in DOMAIN underway
               PROVE  \E k \in Nat : /\ k < n /\ q = At(k)
                                     /\ underway'[q] = n - k /\ underway'[q] <= MaxDelay
    BY <1>1, <1>2 DEF InTime
  <2>1. PICK k \in Nat : k < n /\ q = At(k) /\ underway[q] = (n - 1) - k
    BY <1>2 DEF OnSchedule, InTime
  <2>2. underway'[q] = n - k /\ underway'[q] <= MaxDelay
    BY <1>1, <2>1, SteadyConstants
  <2> QED
    BY <2>1, <2>2
<1>4. ASSUME NEW p \in Nat, n - p <= PrebufferPackets + MaxDelay,
             NEW k \in p .. n - 1, k + MaxDelay <= n - 1, At(k) \in DOMAIN underway \cup Buffered
      PROVE  At(k) \in Buffered
  <2> SUFFICES ASSUME At(k) \in DOMAIN underway PROVE FALSE
    BY <1>4
  <2>1. PICK j \in Nat : j < n /\ At(k) = At(j) /\ underway[At(k)] = (n - 1) - j
    BY <1>2 DEF OnSchedule, InTime
  <2>2. (n - 1) - j < MaxDelay
    BY <1>1, <2>1
  <2>3. k < j /\ j \in p .. n - 1
    BY <1>4, <2>1, <2>2, SteadyConstants
  <2>4. k = j
    BY <1>4, <2>1, <2>3, OneOfStretch
  <2> QED
    BY <2>3, <2>4
<1>5. ASSUME NEW p \in Nat, Expects(p, n), At(p) \in Buffered, ReadyToPlay,
             (n - 1) - p >= PrebufferPackets - 1, (n - 1) - p < PrebufferPackets + MaxDelay
      PROVE  OnSchedule(n)' /\ output' # Silence
  <2>1. /\ n - p <= PrebufferPackets + MaxDelay /\ p \in p .. n - 1
        /\ p + 1 \in Nat /\ n - (p + 1) = (n - 1) - p
    BY <1>2, <1>5, SteadyConstants
  <2>2. PlayBuffered /\ m_nextSequence = At(p)
    BY <1>1, <1>5 DEF TakeNextPacket, StillPrebuffering, Conceal, Expects
  <2>3. output' # Silence
    <3>1. output' \in Payload
      BY <2>2 DEF PlayBuffered, SteadyInv, IInv, TypeOK
    <3> QED
      BY <3>1, ValuesAssumption
  <2>4. /\ m_nextSequence' = At(p + 1) /\ m_playing' = TRUE
        /\ Buffered' = Buffered \ {At(p)}
    BY <2>2, AtSequence DEF PlayBuffered, Restrict, Buffered
  <2>5. \A k \in p + 1 .. n - 1 : k \in p .. n - 1 /\ At(k) # At(p)
    <3> SUFFICES ASSUME NEW k \in p + 1 .. n - 1 PROVE k \in p .. n - 1 /\ At(k) # At(p)
      OBVIOUS
    <3>1. k \in p .. n - 1 /\ k # p
      OBVIOUS
    <3> QED
      BY <2>1, <3>1, OneOfStretch
  <2>6. \A k \in p + 1 .. n - 1 : At(k) \in DOMAIN underway' \cup Buffered'
    BY <1>1, <1>5, <2>4, <2>5 DEF Expects
  <2>7. \A q \in Buffered' : \E k \in p + 1 .. n - 1 : q = At(k)
    <3> SUFFICES ASSUME NEW q \in Buffered, q # At(p)
                 PROVE  \E k \in p + 1 .. n - 1 : q = At(k)
      BY <2>4
    <3>1. PICK k \in p .. n - 1 : q = At(k)
      BY <1>5 DEF Expects
    <3>2. k # p
      BY <3>1
    <3>3. k \in p + 1 .. n - 1
      BY <3>2
    <3> QED
      BY <3>1, <3>3
  <2>8. Expects(p + 1, n)'
    BY <2>4, <2>6, <2>7 DEF Expects
  <2>9. Trailing(n)'
    BY <1>2, <1>5, <2>1, <2>4, <2>8 DEF Trailing
  <2> QED
    BY <1>1, <1>2, <1>3, <2>3, <2>9 DEF OnSchedule
<1>6. CASE Trailing(n)
  <2>1. PICK p \in Nat : /\ Expects(p, n)
                         /\ (n - 1) - p >= PrebufferPackets - 1
                         /\ (n - 1) - p < PrebufferPackets + MaxDelay
    BY <1>2, <1>6 DEF Trailing
  <2>2. /\ n - p <= PrebufferPackets + MaxDelay /\ p \in p .. n - 1
        /\ p + MaxDelay <= n - 1
    BY <1>2, <2>1, SteadyConstants
  <2>3. At(p) \in DOMAIN underway \cup Buffered
    BY <2>1, <2>2 DEF Expects
  <2>4. At(p) \in Buffered
    BY <1>4, <2>2, <2>3
  <2>5. ReadyToPlay
    BY <1>6 DEF Trailing, ReadyToPlay
  <2> QED
    BY <1>5, <2>1, <2>4, <2>5
<1>7. CASE Filling(n) /\ ReadyToPlay
  <2>1. Cardinality(Buffered) >= PrebufferPackets
    BY <1>7 DEF Filling, ReadyToPlay
  <2>2. Buffered # {}
    BY <2>1, FS_EmptySet, LimitsAssumption
  <2>3. PICK p \in 0 .. n - 1 : Expects(p, n) /\ At(p) \in Buffered
    BY <1>7, <2>2 DEF Filling, SteadyInv, IInv, PlaybackConsistent
  <2>4. p \in Nat /\ p <= n
    OBVIOUS
  <2>5. Cardinality(Buffered) \in Nat /\ Cardinality(Buffered) <= n - p
    BY <2>3, <2>4, AtMost DEF Expects
  <2>6. /\ (n - 1) - p >= PrebufferPackets - 1
        /\ (n - 1) - p < PrebufferPackets + MaxDelay
    BY <1>2, <1>7, <2>1, <2>4, <2>5, SteadyConstants DEF Filling
  <2> QED
    BY <1>5, <1>7, <2>3, <2>4, <2>6
<1>8. CASE Filling(n) /\ ~ReadyToPlay
  <2>1. /\ output' = Nothing
        /\ UNCHANGED <<m_sessionId, m_nextSequence, m_playing, m_packets>>
    BY <1>1, <1>8 DEF TakeNextPacket, StillPrebuffering, PlayBuffered, Conceal
  <2>2. n < PrebufferPackets + MaxDelay
    <3> SUFFICES ASSUME n >= PrebufferPackets + MaxDelay PROVE FALSE
      BY SteadyConstants
    <3>1. n = PrebufferPackets + MaxDelay /\ 0 \in Nat /\ n - 0 = n
      BY <1>2, <1>8, SteadyConstants DEF Filling
    <3>2. ASSUME NEW k \in 0 .. PrebufferPackets - 1 PROVE At(k) \in Buffered
      <4>1. k \in 0 .. n - 1 /\ k + MaxDelay <= n - 1
        BY <3>1, SteadyConstants
      <4>2. At(k) \in DOMAIN underway \cup Buffered
        BY <1>8, <4>1 DEF Filling
      <4> QED
        BY <1>4, <3>1, <4>1, <4>2, SteadyConstants
    <3>3. IsFiniteSet(Buffered) /\ PrebufferPackets <= PrebufferPackets + MaxDelay
      BY SteadyConstants DEF SteadyInv, IInv, BufferBounded
    <3>4. PrebufferPackets <= Cardinality(Buffered)
      BY <3>2, <3>3, SteadyConstants, AtLeast
    <3>5. Cardinality(Buffered) \in Nat
      BY <3>3, FS_CardinalityType
    <3> QED
      BY <1>8, <3>4, <3>5, SteadyConstants DEF ReadyToPlay
  <2>3. Buffered' = Buffered
    BY <2>1 DEF Buffered
  <2>4. \A p \in 0 .. n - 1 : Expects(p, n) => Expects(p, n)'
    BY <1>1, <2>1, <2>3 DEF Expects
  <2>5. Filling(n)'
    BY <1>1, <1>2, <1>8, <2>1, <2>2, <2>3, <2>4 DEF Filling
  <2> QED
    BY <1>1, <1>2, <1>3, <2>1, <2>5, ValuesAssumption DEF OnSchedule
<1> QED
  BY <1>6, <1>7, <1>8 DEF OnSchedule

LEMMA SteadyStep == SteadyInv /\ [SteadyNext]_steadyVars => SteadyInv'
<1> SUFFICES ASSUME SteadyInv, [SteadyNext]_steadyVars PROVE SteadyInv'
  OBVIOUS
<1>1. IncrementSequence(nextToSend) \in Sequence
  BY Increment DEF SteadyInv
<1>2. ASSUME UNCHANGED bufferVars PROVE IInv' /\ UNCHANGED <<m_sessionId, output>>
  BY <1>2 DEF bufferVars, SteadyInv, IInv, TypeOK, BufferBounded, PlaybackConsistent, Buffered
<1>3. CASE Capture
  <2>1. /\ UNCHANGED <<bufferVars, lost>> /\ captured' = TRUE
        /\ nextToSend' \in Sequence /\ DOMAIN underway' \subseteq Sequence
    BY <1>1, <1>3 DEF Capture, SteadyInv
  <2>2. ~lost => \E n \in Nat : OnSchedule(n)'
    <3> SUFFICES ASSUME ~lost PROVE \E n \in Nat : OnSchedule(n)'
      OBVIOUS
    <3>1. PICK n \in Nat : OnSchedule(n)
      BY DEF SteadyInv
    <3>2. OnSchedule(n + 1)'
      BY <1>3, <3>1, CaptureOnSchedule
    <3> QED
      BY <3>2
  <2> QED
    BY <1>2, <2>1, <2>2 DEF SteadyInv
<1>4. ASSUME NEW q \in DOMAIN underway, ArriveInTime(q) PROVE SteadyInv'
  <2>1. /\ InsertPacket(TheSession, q, pcm) /\ q \in Sequence
        /\ UNCHANGED <<nextToSend, captured, lost>>
        /\ DOMAIN underway' \subseteq DOMAIN underway
    BY <1>4 DEF ArriveInTime, Restrict, SteadyInv
  <2>2. IInv'
    BY <2>1, SteadyConstants, InsertInv DEF SteadyInv
  <2>3. m_sessionId' \in {0, TheSession} /\ output' # Silence
    BY <2>1, ValuesAssumption DEF InsertPacket, ResetForSession, SteadyInv
  <2>4. ~lost => \E n \in Nat : OnSchedule(n)'
    BY <1>4, ArriveOnSchedule DEF SteadyInv
  <2> QED
    BY <2>1, <2>2, <2>3, <2>4 DEF SteadyInv
<1>5. CASE SteadyTick
  <2>1. /\ TakeNextPacket /\ UNCHANGED <<m_sessionId, nextToSend, lost>> /\ captured' = FALSE
        /\ DOMAIN underway' = DOMAIN underway
    BY <1>5 DEF SteadyTick, TakeNextPacket
  <2>2. IInv'
    BY <2>1, TakeInv DEF SteadyInv
  <2>3. ~lost => output' # Silence /\ \E n \in Nat : OnSchedule(n)'
    BY <1>5, TickOnSchedule DEF SteadyInv
  <2> QED
    BY <2>1, <2>2, <2>3 DEF SteadyInv
<1>6. CASE Lose
  <2>1. /\ UNCHANGED <<bufferVars, underway>> /\ captured' = TRUE /\ lost' = TRUE
        /\ nextToSend' \in Sequence
    BY <1>1, <1>6 DEF Lose
  <2> QED
    BY <1>2, <2>1 DEF SteadyInv
<1>7. CASE UNCHANGED steadyVars
  <2>1. /\ UNCHANGED <<m_sessionId, m_nextSequence, m_playing, m_consecutiveMissingPackets,
                       m_packets, output, nextToSend, captured, underway, lost>>
        /\ UNCHANGED bufferVars
    BY <1>7 DEF steadyVars, bufferVars
  <2>2. \A n \in Nat : OnSchedule(n) => OnSchedule(n)'
    BY <2>1 DEF OnSchedule, Ticks, InTime, Filling, Trailing, Expects, Buffered
  <2> QED
    BY <1>2, <2>1, <2>2 DEF SteadyInv
<1> QED
  BY <1>3, <1>4, <1>5, <1>6, <1>7 DEF SteadyNext, Lossless

LEMMA SteadyInvariant == SteadySpec => []SteadyInv
BY SteadyInitial, SteadyStep, PTL DEF SteadySpec
-----------------------------------------------------------------------------
\* The prebuffer absorbs every delay shorter than it (audiojitterbuffer.h:11):
\* however the network reorders within that, and however often the sequence goes
\* round its space, takeNextPacket never conceals a packet while none is lost.
THEOREM DelayIsAbsorbed == SteadySpec => []PrebufferAbsorbsDelay
<1>1. SteadyInv => PrebufferAbsorbsDelay
  BY DEF SteadyInv, PrebufferAbsorbsDelay
<1> QED
  BY SteadyInvariant, <1>1, PTL
=============================================================================
