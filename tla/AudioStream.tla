----------------------------- MODULE AudioStream ----------------------------
(***************************************************************************)
(* The jitter buffer fed by a real peer: AudioWorker of the other side     *)
(* numbers its packets 1, 2, ... in a fresh session per start, UDP loses,  *)
(* duplicates, delays and reorders them, AudioUdpTransport lets through    *)
(* what is from the peer and an ACL1 packet, and the playout timer takes   *)
(* one every 20 ms, while audio runs on this side too.  A payload is the   *)
(* session and position it was captured at.                                *)
(***************************************************************************)
EXTENDS AudioJitterBuffer

CONSTANTS
  FirstSequence,   \* sequence of a session's first packet (the code's is 1)
  PacketBound,     \* bound: packets sent per session
  ReorderWindow,   \* bound: how far behind the newest a packet may arrive
  Stray            \* other datagrams that may arrive at the port

VARIABLES
  m_running,       \* audio runs on this side
  sent,            \* session -> packets sent in it
  highest,         \* history: last position played since the session (re)started
  rebuffered       \* history: playback has stopped for missing packets since

vars == <<bufferVars, m_running, sent, highest, rebuffered>>

Position == 1 .. PacketBound
Packet == [session : Session, position : Position]

ASSUME StreamPayload == Payload = Packet

ASSUME StreamAssumption ==
  FirstSequence \in Sequence /\ {PacketBound, ReorderWindow} \subseteq Nat

\* A session ends before its sequences have gone half-way round their space, with
\* what playback may run ahead of it by concealing: after 497 days.
ASSUME SessionsEnd ==
  2 * (PacketBound + ConsecutiveMissingRebufferThreshold + 1) <= SequenceModulus

\* The sequence number of a session's n-th packet; 0 is skipped at the wrap.
SequenceOf(n) == 1 + ((FirstSequence + n - 2) % (SequenceModulus - 1))

StreamInit ==
  /\ Init
  /\ m_running = FALSE
  /\ sent = [session \in Session |-> 0]
  /\ highest = 0
  /\ rebuffered = FALSE

\* A datagram: who it is from, whether its size and its constant fields are those
\* of ACL1, and the fields that vary.
AudioPacket(session, n) ==
  [from |-> "peer", wellFormed |-> TRUE, session |-> session,
   sequence |-> SequenceOf(n), payload |-> [session |-> session, position |-> n]]

\* validateHeader, by which packets are written as well as read.
ValidHeader(d) == d.wellFormed /\ d.session # 0 /\ d.sequence # 0

\* Whatever else is from the peer has a header no packet has.
ASSUME StrayAssumption == \A d \in Stray : d.from = "peer" => ~ValidHeader(d)

\* The peer sends in its latest session; starting audio again opens the next.
SendAudioPayload(session) ==
  /\ sent[session] < PacketBound
  /\ \A later \in Session : later > session => sent[later] = 0
  /\ ValidHeader(AudioPacket(session, sent[session] + 1))
  /\ sent' = [sent EXCEPT ![session] = @ + 1]
  /\ UNCHANGED <<bufferVars, m_running, highest, rebuffered>>

\* Mutant: whoever sends to the port is heard.
Accepted_FromAnyone(d) == ValidHeader(d)

Accepted(d) == d.from = "peer" /\ ValidHeader(d)

\* readPendingDatagrams and onAudioPacketReceived.  highest starts again whenever
\* the buffer resets for a session.
ReadPendingDatagram(d) ==
  /\ IF Accepted(d) /\ m_running
     THEN /\ InsertPacket(d.session, d.sequence, d.payload)
          /\ IF m_sessionId # d.session \/ ObviousJump(d.session, d.sequence)
             THEN highest' = 0 /\ rebuffered' = FALSE
             ELSE UNCHANGED <<highest, rebuffered>>
     ELSE UNCHANGED <<bufferVars, highest, rebuffered>>
  /\ UNCHANGED <<m_running, sent>>

\* A packet sent not long ago arrives, perhaps not for the first time.
Arrive(session, n) ==
  /\ n \in 1 .. sent[session] /\ n + ReorderWindow > sent[session]
  /\ ReadPendingDatagram(AudioPacket(session, n))

PlayoutTick ==
  /\ m_running
  /\ TakeNextPacket
  /\ highest' = IF output' \in Payload /\ output'.position > highest
                THEN output'.position ELSE highest
  /\ rebuffered' = (rebuffered \/ (output' = Silence /\ ~m_playing'))
  /\ UNCHANGED <<m_running, sent>>

\* startAudio, stopAudioInternal: the buffer begins and ends empty.
StartOrStop ==
  /\ m_running' = ~m_running
  /\ Clear
  /\ highest' = 0 /\ rebuffered' = FALSE
  /\ UNCHANGED sent

StreamNext ==
  \/ \E session \in Session : SendAudioPayload(session)
  \/ \E session \in Session, n \in Position : Arrive(session, n)
  \/ \E d \in Stray : ReadPendingDatagram(d)
  \/ PlayoutTick \/ StartOrStop

StreamSpec == StreamInit /\ [][StreamNext]_vars
-----------------------------------------------------------------------------
\* Nothing waits behind the playback position, where it could never be played
\* and would only take up room: rewinding, dropping late packets and clearing
\* the buffer keep every buffered packet ahead, across the sequence wrap.
NothingBehindPlayback ==
  \A q \in Buffered : ~SequenceLess(q, m_nextSequence)

\* What is buffered under a sequence is the packet that carries it, of the
\* session being played: packets of two sessions are never mixed.
OneSessionBuffered ==
  \A q \in Buffered :
    m_packets[q].session = m_sessionId /\ SequenceOf(m_packets[q].position) = q

\* The step hands a captured packet to the sink.
Plays == output' \in Payload /\ m_nextSequence' # m_nextSequence

\* Audio is played in the order it was captured, no packet twice, for as long
\* as playback is not interrupted: by missing packets, by a jump, or by a packet of
\* another session, be it one of an earlier session that is late (cpp, 27-35).
PlayedInOrder ==
  [][Plays /\ m_sessionId' = m_sessionId /\ ~rebuffered
       => output'.position > highest]_vars

\* "Duplicate packets are dropped and late packets are dropped" (README.md:97),
\* also after five missing packets sent the buffer back to prebuffering.
NoReplay ==
  [][Plays /\ m_sessionId' = m_sessionId
       => output'.position > highest]_vars
=============================================================================
