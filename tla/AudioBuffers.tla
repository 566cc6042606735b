----------------------------- MODULE AudioBuffers -----------------------------
(***************************************************************************)
(* The two byte buffers of AudioWorker: sound read from the microphone in  *)
(* pieces of any size is cut into packets, and packets to be played are    *)
(* offered to a sink that takes what it has room for.  Both buffers only   *)
(* lose bytes at the front and gain them at the back, so each is the part  *)
(* of a stream between two positions, counted from the start of audio.     *)
(***************************************************************************)
EXTENDS Naturals, Sequences

CONSTANTS
  PacketSize,          \* 640, PcmPayloadSize
  CapturePackets,      \* 10: CaptureBufferLimit is as many packets
  PlaybackPackets,     \* 5: PlaybackBufferLimit
  SamplesPerPacket,    \* 320
  NumberModulus,       \* 2^32, of sequences and timestamps
  StreamBound          \* bound: bytes read and bytes offered since the start

ASSUME BuffersAssumption ==
  /\ {PacketSize, CapturePackets, SamplesPerPacket} \subseteq Nat \ {0}
  /\ PlaybackPackets \in Nat /\ PlaybackPackets >= 2
  /\ NumberModulus \in Nat /\ NumberModulus >= 2
  /\ StreamBound \in Nat

VARIABLES
  m_running,
  captured,               \* bytes read from the source
  captureStart,           \* m_captureBuffer is what follows in what was read
  m_nextSequence, m_nextTimestampSamples,
  m_captureOverruns,
  sent,                   \* history: the packets made, with where they begin
  offered,                \* bytes appended to m_playbackBuffer
  playbackStart,          \* m_playbackBuffer is what follows in these
  m_playbackOverruns,
  written                 \* history: bytes the sink has taken

captureVars == <<captured, captureStart, m_nextSequence, m_nextTimestampSamples,
                 m_captureOverruns, sent>>
playbackVars == <<offered, playbackStart, m_playbackOverruns, written>>
bufferVars == <<m_running, captureVars, playbackVars>>

CaptureBufferLimit == CapturePackets * PacketSize
PlaybackBufferLimit == PlaybackPackets * PacketSize

BuffersInit ==
  /\ m_running = FALSE
  /\ captured = 0 /\ captureStart = 0
  /\ m_nextSequence = 1 /\ m_nextTimestampSamples = 0
  /\ m_captureOverruns = 0 /\ sent = <<>>
  /\ offered = 0 /\ playbackStart = 0 /\ m_playbackOverruns = 0 /\ written = 0
-----------------------------------------------------------------------------
StartAudio ==
  /\ ~m_running
  /\ m_running' = TRUE
  /\ UNCHANGED <<captureVars, playbackVars>>

\* stopAudioInternal empties both buffers and starts the numbers again.  The
\* overrun counters go on across starts in the code; here they count from the
\* start, as the positions do.
StopAudioInternal ==
  /\ m_running' = FALSE
  /\ captured' = 0 /\ captureStart' = 0
  /\ m_nextSequence' = 1 /\ m_nextTimestampSamples' = 0
  /\ m_captureOverruns' = 0 /\ sent' = <<>>
  /\ offered' = 0 /\ playbackStart' = 0 /\ m_playbackOverruns' = 0 /\ written' = 0

\* Mutant: the bytes over the limit are dropped, not the packets.
BytesToDrop_Excess(size) ==
  IF size > CaptureBufferLimit THEN size - CaptureBufferLimit ELSE 0

\* From the front of a capture buffer of that size: whole packets, and so many
\* that the rest is within the limit.
BytesToDrop(size) ==
  IF size > CaptureBufferLimit
  THEN ((size - CaptureBufferLimit + PacketSize - 1) \div PacketSize) * PacketSize
  ELSE 0

\* Mutant: the sequence goes through 0.
SequenceAfter_ToZero(count) == (m_nextSequence + count) % NumberModulus

\* nextNonZero after so many increments.
SequenceAfter(count) == 1 + ((m_nextSequence - 1 + count) % (NumberModulus - 1))

TimestampAfter(count) ==
  (m_nextTimestampSamples + count * SamplesPerPacket) % NumberModulus

\* The packets cut from the buffer, if it starts here.
PacketsFrom(start, count) ==
  [i \in 1 .. count |-> [start |-> start + (i - 1) * PacketSize,
                         sequence |-> SequenceAfter(i - 1),
                         timestampSamples |-> TimestampAfter(i - 1)]]

\* readAll gives so many bytes; all whole packets are sent.  A packet the
\* transport cannot send has used up its numbers all the same.
OnInputReadyRead(bytes) ==
  LET dropped == BytesToDrop(captured + bytes - captureStart)
      start == captureStart + dropped
      count == (captured + bytes - start) \div PacketSize
  IN /\ m_running
     /\ captured + bytes <= StreamBound
     /\ captured' = captured + bytes
     /\ m_captureOverruns' = m_captureOverruns + (dropped + PacketSize - 1) \div PacketSize
     /\ sent' = sent \o PacketsFrom(start, count)
     /\ captureStart' = start + count * PacketSize
     /\ m_nextSequence' = SequenceAfter(count)
     /\ m_nextTimestampSamples' = TimestampAfter(count)
     /\ UNCHANGED <<m_running, playbackVars>>

Pending == offered - playbackStart

\* Mutant: room is made only when none is left.
AppendOverruns_TooLate == IF Pending >= PlaybackBufferLimit THEN 1 ELSE 0

\* Packets appendPlaybackPacket drops from the front.  One makes room, as the
\* buffer is within its limit, and it holds one, as the limit is two or more.
AppendOverruns == IF Pending + PacketSize > PlaybackBufferLimit THEN 1 ELSE 0

\* drainPlaybackBuffer, when the buffer lies between the two positions and so
\* many packets have just been dropped from it: the sink takes some of it, or
\* fails and audio stops.
Drain(start, end, overruns) ==
  \/ \E bytes \in 0 .. end - start :
       /\ playbackStart' = start + bytes
       /\ written' = written + bytes
       /\ offered' = end
       /\ m_playbackOverruns' = m_playbackOverruns + overruns
       /\ UNCHANGED <<m_running, captureVars>>
  \/ end > start /\ StopAudioInternal

\* onPlayoutTimer when the jitter buffer has a packet, sound or silence.
PlayoutPacket ==
  /\ m_running /\ offered + PacketSize <= StreamBound
  /\ Drain(playbackStart + AppendOverruns * PacketSize, offered + PacketSize,
           AppendOverruns)

\* onPlayoutTimer when it has none: what is left over is offered again.
PlayoutNothing == m_running /\ Drain(playbackStart, offered, 0)

BuffersNext ==
  \/ StartAudio
  \/ m_running /\ StopAudioInternal
  \/ \E bytes \in 1 .. StreamBound : OnInputReadyRead(bytes)
  \/ PlayoutPacket \/ PlayoutNothing

BuffersSpec == BuffersInit /\ [][BuffersNext]_bufferVars
-----------------------------------------------------------------------------
\* Packets are cut where the source's packets of sound lie, never across a gap
\* that an overrun left and never from sound already sent, whatever pieces the
\* sound comes in; what stays is less than one.
PacketsWhole ==
  /\ \A i \in DOMAIN sent : sent[i].start % PacketSize = 0
  /\ \A i, j \in DOMAIN sent : i < j => sent[i].start < sent[j].start
  /\ captured - captureStart < PacketSize

\* The overrun counter shown to the user is what was lost, and the packets
\* that are sent are numbered without a gap nevertheless: a receiver cannot
\* tell an overrun from sound that was never there (README.md:89-90).
CaptureAccounted ==
  /\ captureStart = (Len(sent) + m_captureOverruns) * PacketSize
  /\ \A i \in DOMAIN sent :
       /\ sent[i].sequence = 1 + ((i - 1) % (NumberModulus - 1))
       /\ sent[i].timestampSamples = ((i - 1) * SamplesPerPacket) % NumberModulus

\* However little the sink takes and wherever in a packet it stops, at most the
\* limit waits for it (README.md:99), and every byte offered has been taken, or
\* waits, or was counted in whole packets as overrun.
PlaybackAccounted ==
  /\ offered <= playbackStart + PlaybackBufferLimit
  /\ playbackStart = written + m_playbackOverruns * PacketSize
  /\ playbackStart <= offered
=============================================================================
