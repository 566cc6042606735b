-------------------------- MODULE AudioSteadyStream -------------------------
(***************************************************************************)
(* The jitter buffer under the peer it is built for: one session, a packet *)
(* every 20 ms period, a playout tick every period, and a network that     *)
(* delays each packet by at most MaxDelay ticks, reorders within that, and *)
(* now and then loses one.  Sequence numbers go round their whole space,   *)
(* so nothing here is bounded in time.                                     *)
(***************************************************************************)
EXTENDS AudioJitterBuffer

CONSTANTS
  FirstSent,     \* sequence of the first packet (the code's is 1)
  MaxDelay,      \* ticks a packet may be under way
  OutageBound,   \* bound: distance from playback at which packets are lost, an
                 \* outage being short against half the sequence space
  TheSession, pcm

VARIABLES
  nextToSend,    \* the peer's m_nextSequence
  captured,      \* the packet of this period has been sent (or lost)
  underway,      \* sequence -> ticks since it was sent
  lost           \* history: some packet was lost

steadyVars == <<bufferVars, nextToSend, captured, underway, lost>>

ASSUME OneSession ==
  TheSession \in Session /\ pcm \in Payload /\ MaxDelay \in Nat /\ FirstSent \in Sequence

\* What the prebuffer is to absorb it must cover: delays of up to 2 ticks, the code
\* prebuffering 3 packets.  The other limits are far from what then waits.
ASSUME DelayIsCovered ==
  /\ MaxDelay < PrebufferPackets
  /\ PrebufferPackets + MaxDelay <= MaximumBufferedPackets
  /\ PrebufferPackets + MaxDelay <= ObviousSequenceJump
  /\ 2 * (PrebufferPackets + MaxDelay + 1) <= SequenceModulus

NoneUnderway == [q \in {} |-> 0]

SteadyInit ==
  /\ Init
  /\ nextToSend = FirstSent
  /\ captured = FALSE
  /\ underway = NoneUnderway
  /\ lost = FALSE

Capture ==
  /\ ~captured
  /\ captured' = TRUE
  /\ nextToSend' = IncrementSequence(nextToSend)
  /\ underway' = [q \in DOMAIN underway \cup {nextToSend} |->
                    IF q = nextToSend THEN 0 ELSE underway[q]]
  /\ UNCHANGED <<bufferVars, lost>>

Lose ==
  /\ ~captured
  /\ m_sessionId # 0 =>
       ForwardDistance(m_nextSequence, nextToSend) < OutageBound
  /\ captured' = TRUE
  /\ nextToSend' = IncrementSequence(nextToSend)
  /\ lost' = TRUE
  /\ UNCHANGED <<bufferVars, underway>>

ArriveInTime(q) ==
  /\ InsertPacket(TheSession, q, pcm)
  /\ underway' = Restrict(underway, DOMAIN underway \ {q})
  /\ UNCHANGED <<nextToSend, captured, lost>>

\* The 20 ms timer, after the packets that are due have arrived.
SteadyTick ==
  /\ captured
  /\ \A q \in DOMAIN underway : underway[q] < MaxDelay
  /\ TakeNextPacket
  /\ captured' = FALSE
  /\ underway' = [q \in DOMAIN underway |-> underway[q] + 1]
  /\ UNCHANGED <<nextToSend, lost>>

Lossless == Capture \/ (\E q \in DOMAIN underway : ArriveInTime(q)) \/ SteadyTick

SteadyNext == Lossless \/ Lose

\* Both machines' timers keep going and the network delivers.
SteadySpec == SteadyInit /\ [][SteadyNext]_steadyVars /\ WF_steadyVars(Lossless)
-----------------------------------------------------------------------------
\* The prebuffer absorbs delays shorter than it: as long as nothing is lost,
\* playback that has started never meets a missing packet, is never late for
\* one and never runs over (60 ms of prebuffer, audiojitterbuffer.h:11).
PrebufferAbsorbsDelay ==
  ~lost => output # Silence

\* After any losses playback recovers: once no more packets are lost and each is
\* in the buffer at the tick after it was sent, every tick plays captured audio
\* from some time on.  A buffer that plays far behind the peer prebuffers, misses
\* and clears in turns, each turn farther behind, until the jump check starts it
\* afresh (cpp, 34-36).  That losses end is not enough: playback left with no
\* packet in hand conceals each one delayed, and may never miss enough of them in a
\* row to rebuffer.
PlaybackRecovers ==
  <>[][~Lose /\ (SteadyTick => underway = NoneUnderway)]_steadyVars
    => <>[](~captured => output = pcm)
=============================================================================
