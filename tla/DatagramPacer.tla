---------------------------- MODULE DatagramPacer -----------------------------
(***************************************************************************)
(* The pacing of VideoUdpTransport: before each fragment of a frame the    *)
(* sender waits until the wire has had time for the one before.  Time goes *)
(* on between any two steps, by as much as the scheduler likes.            *)
(***************************************************************************)
EXTENDS Integers, Sequences

CONSTANTS
  WireOverhead,          \* 66 bytes: preamble, headers, FCS and gap of the frame
  MaximumDatagramSize,   \* 1200 bytes
  Horizon,               \* bound: of the clock, which counts in byte times
  WriteBound             \* bound: datagrams written since the last reset

ASSUME PacerAssumption ==
  /\ WireOverhead \in Nat /\ MaximumDatagramSize \in Nat \ {0}
  /\ Horizon \in Nat /\ WriteBound \in Nat

VARIABLES
  now,                       \* m_pacingClock
  m_nextDatagramDeadline,
  pacing,                    \* size of the datagram being sent, 0 if none
  released,                  \* when paceDatagram returned for it, -1 if not yet
  writes                     \* history: those written since the last reset

pacerVars == <<now, m_nextDatagramDeadline, pacing, released, writes>>

\* datagramWireTimeNs, at 80 Mbit/s 100 ns for each byte.
DatagramWireTime(size) == WireOverhead + size

PacerInit ==
  /\ now = 0 /\ m_nextDatagramDeadline = 0
  /\ pacing = 0 /\ released = -1
  /\ writes = <<>>
-----------------------------------------------------------------------------
TimePasses ==
  /\ now' \in now + 1 .. Horizon
  /\ UNCHANGED <<m_nextDatagramDeadline, pacing, released, writes>>

\* resetDatagramPacer, when the socket is bound, closed or given another peer.
\* All run in the thread that sends, so not within a frame.
ResetDatagramPacer ==
  /\ pacing = 0
  /\ m_nextDatagramDeadline' = now
  /\ writes' = <<>>
  /\ UNCHANGED <<now, pacing, released>>

\* The slots that were missed are not made up for.
NextSlot == IF m_nextDatagramDeadline < now THEN now ELSE m_nextDatagramDeadline

\* The bounds leave time for the wait.
InBounds(size) ==
  Len(writes) < WriteBound /\ NextSlot + DatagramWireTime(size) <= Horizon

\* Mutant: the datagram waits for its own time on the wire as well.
EnterPaceDatagram_OwnTime(size) ==
  /\ pacing = 0 /\ InBounds(size)
  /\ pacing' = size
  /\ m_nextDatagramDeadline' = NextSlot + DatagramWireTime(size)
  /\ UNCHANGED <<now, released, writes>>

EnterPaceDatagram(size) ==
  /\ pacing = 0 /\ InBounds(size)
  /\ pacing' = size
  /\ m_nextDatagramDeadline' = NextSlot
  /\ UNCHANGED <<now, released, writes>>

Waiting == pacing # 0 /\ released = -1

\* Mutant: the next slot is counted from this one, not from the time it was used.
LeavePaceDatagram_FromSlot ==
  /\ Waiting /\ now >= m_nextDatagramDeadline
  /\ released' = now
  /\ m_nextDatagramDeadline' = m_nextDatagramDeadline + DatagramWireTime(pacing)
  /\ UNCHANGED <<now, pacing, writes>>

\* The loop of sleeping and spinning ends; the clock is read once more.
LeavePaceDatagram ==
  /\ Waiting /\ now >= m_nextDatagramDeadline
  /\ released' = now
  /\ m_nextDatagramDeadline' = now + DatagramWireTime(pacing)
  /\ UNCHANGED <<now, pacing, writes>>

\* writeDatagram; if it fails the rest of the frame is given up.
WriteDatagram ==
  /\ pacing # 0 /\ ~Waiting
  /\ pacing' = 0 /\ released' = -1
  /\ \/ writes' = Append(writes, [at |-> now, released |-> released,
                                  wire |-> DatagramWireTime(pacing)])
     \/ UNCHANGED writes
  /\ UNCHANGED <<now, m_nextDatagramDeadline>>

PacerNext ==
  \/ TimePasses \/ ResetDatagramPacer
  \/ \E size \in 1 .. MaximumDatagramSize : EnterPaceDatagram(size)
  \/ LeavePaceDatagram \/ WriteDatagram

PacerSpec == PacerInit /\ [][PacerNext]_pacerVars
-----------------------------------------------------------------------------
\* There is no burst, however late the thread is at any point: between resets, of
\* three datagrams the first and the last are the middle one's time on the wire
\* apart.  Two may leave together, since the thread can be held up after it has
\* read the clock and before it writes; "at least 126.6 us" between two
\* (README.md:304) is what the pacer releases them at.
NoBurst ==
  /\ \A i \in 1 .. Len(writes) - 1 :
       writes[i + 1].released >= writes[i].released + writes[i].wire
  /\ \A i \in 1 .. Len(writes) - 2 :
       writes[i + 2].at >= writes[i].at + writes[i + 1].wire

\* The GUI thread is never held up for longer than one datagram takes (127 us, so
\* the sleep of paceDatagram, for waits of over 2 ms, is never taken).
WaitsForOneAtMost ==
  m_nextDatagramDeadline <= now + DatagramWireTime(MaximumDatagramSize)
=============================================================================
