-------------------------- MODULE SmallParts_proofs --------------------------
(* Proofs about the two small components.  AudioBuffers: packets are cut      *)
(* whole and numbered without a gap, and every byte of either buffer is       *)
(* accounted for, whatever the size of a packet, of the buffers and of the    *)
(* space of numbers.  DatagramPacer: it never lets a burst out and never      *)
(* waits for more than one datagram, however long the thread is held up.      *)
EXTENDS AudioBuffers, DatagramPacer, Integers, TLAPS

SentPacket == [start : Nat, sequence : Nat, timestampSamples : Nat]

CaptureTypes ==
  /\ m_running \in BOOLEAN
  /\ captured \in Nat /\ captureStart \in Nat /\ m_captureOverruns \in Nat
  /\ sent \in Seq(SentPacket)

\* The capture buffer starts with what follows the packets sent and dropped.
CaptureConsistent ==
  /\ captureStart <= captured
  /\ captureStart = (Len(sent) + m_captureOverruns) * PacketSize
  /\ \A i \in 1 .. Len(sent) : sent[i].start < captureStart

\* The numbers the next packet gets.
NumbersConsistent ==
  /\ m_nextSequence = 1 + (Len(sent) % (NumberModulus - 1))
  /\ m_nextTimestampSamples = (Len(sent) * SamplesPerPacket) % NumberModulus

CaptureInv ==
  CaptureTypes /\ CaptureConsistent /\ NumbersConsistent /\ PacketsWhole /\ CaptureAccounted

PlaybackTypes ==
  /\ offered \in Nat /\ playbackStart \in Nat
  /\ m_playbackOverruns \in Nat /\ written \in Nat

PlaybackInv == PlaybackTypes /\ PlaybackAccounted
-----------------------------------------------------------------------------
LEMMA Distributes ==
  ASSUME NEW a \in Nat, NEW b \in Nat, NEW m \in Nat
  PROVE  (a + b) * m = a * m + b * m
OBVIOUS

\* Division of natural numbers, as the provers know it.
LEMMA Division ==
  ASSUME NEW a \in Nat, NEW m \in Nat, m > 0
  PROVE  /\ a \div m \in Nat /\ (a % m) \in 0 .. m - 1
         /\ a = (a \div m) * m + (a % m)
<1>1. a \div m \in Nat
  BY SMTT(30)
<1>2. (a % m) \in 0 .. m - 1
  BY SMTT(30)
<1>3. a = (a \div m) * m + (a % m)
  BY SMTT(30)
<1> QED
  BY <1>1, <1>2, <1>3

LEMMA Remainder ==
  ASSUME NEW k \in Nat, NEW r \in Nat, NEW m \in Nat, r < m
  PROVE  (k * m + r) % m = r /\ (k * m + r) \div m = k
<1>1. m > 0 /\ r + m * k = k * m + r
  OBVIOUS
<1>2. (r + m * k) % m = r
  BY <1>1, SMTT(30)
<1>3. (r + m * k) \div m = k
  BY <1>1, SMTT(30)
<1> QED
  BY <1>1, <1>2, <1>3

\* A remainder may be taken before an addition as well as after it.
LEMMA RemainderOfSum ==
  ASSUME NEW a \in Nat, NEW b \in Nat, NEW m \in Nat, m > 0
  PROVE  ((a % m) + b) % m = (a + b) % m
<1> DEFINE q == a \div m
           s == (a % m) + b
           p == s \div m
<1>1. q \in Nat /\ (a % m) \in Nat /\ a = q * m + (a % m)
  BY Division
<1>2. s \in Nat
  BY <1>1
<1>3. p \in Nat /\ (s % m) \in Nat /\ (s % m) < m /\ s = p * m + (s % m)
  BY <1>2, Division
<1>4. a + b = (q + p) * m + (s % m)
  <2>1. (q + p) * m = q * m + p * m
    BY <1>1, <1>3
  <2> HIDE DEF q, p
  <2> QED
    BY <1>1, <1>3, <2>1
<1>5. q + p \in Nat
  BY <1>1, <1>3
<1> HIDE DEF q, p, s
<1>6. ((q + p) * m + (s % m)) % m = s % m
  BY <1>3, <1>5, Remainder
<1> QED
  BY <1>4, <1>6 DEF s

\* A multiple of a size, and the number of times it goes into it.
LEMMA Multiple ==
  ASSUME NEW k \in Nat, NEW m \in Nat, m > 0
  PROVE  /\ k * m \in Nat /\ (k * m) % m = 0
         /\ (k * m + m - 1) \div m = k
<1>1. k * m \in Nat
  OBVIOUS
<1>2. (k * m + 0) % m = 0
  BY Remainder
<1>3. (k * m + (m - 1)) \div m = k
  <2>1. m - 1 \in Nat /\ m - 1 < m
    OBVIOUS
  <2> QED
    BY <2>1, Remainder
<1> QED
  BY <1>1, <1>2, <1>3

LEMMA Sizes ==
  /\ PacketSize \in Nat /\ PacketSize > 0
  /\ CaptureBufferLimit \in Nat /\ CaptureBufferLimit >= PacketSize
  /\ SamplesPerPacket \in Nat
  /\ NumberModulus - 1 \in Nat /\ NumberModulus - 1 > 0
<1>1. /\ PacketSize \in Nat \ {0} /\ CapturePackets \in Nat \ {0}
      /\ SamplesPerPacket \in Nat
  BY BuffersAssumption
<1>2. CapturePackets * PacketSize >= PacketSize
  BY <1>1
<1> QED
  BY <1>1, <1>2, BuffersAssumption DEF CaptureBufferLimit

\* What is dropped from a capture buffer is packets, and no more than it holds.
LEMMA DropsPackets ==
  ASSUME NEW size \in Nat
  PROVE  \E k \in Nat : BytesToDrop(size) = k * PacketSize /\ k * PacketSize <= size
<1>1. CASE size > CaptureBufferLimit
  <2> DEFINE excess == size - CaptureBufferLimit
             k == (excess + PacketSize - 1) \div PacketSize
  <2>1. excess + PacketSize - 1 \in Nat
    BY <1>1, Sizes
  <2>2. /\ k \in Nat
        /\ ((excess + PacketSize - 1) % PacketSize) \in Nat
        /\ excess + PacketSize - 1
             = k * PacketSize + ((excess + PacketSize - 1) % PacketSize)
    BY <2>1, Sizes, Division
  <2>3. k * PacketSize \in Nat
    BY <2>2, Sizes
  <2>4. BytesToDrop(size) = k * PacketSize
    BY <1>1 DEF BytesToDrop
  <2> HIDE DEF k
  <2>5. k * PacketSize <= size
    BY <2>1, <2>2, <2>3, Sizes
  <2> QED
    BY <2>2, <2>4, <2>5
<1>2. CASE ~(size > CaptureBufferLimit)
  <2>1. BytesToDrop(size) = 0 * PacketSize /\ 0 * PacketSize <= size
    BY <1>2, Sizes DEF BytesToDrop
  <2> QED
    BY <2>1
<1> QED
  BY <1>1, <1>2
-----------------------------------------------------------------------------
\* The state in which audio starts.
LEMMA EmptyCapture ==
  ASSUME m_running' \in BOOLEAN,
         captured' = 0, captureStart' = 0, m_nextSequence' = 1,
         m_nextTimestampSamples' = 0, m_captureOverruns' = 0, sent' = <<>>
  PROVE  CaptureInv'
<1>1. 0 % (NumberModulus - 1) = 0 /\ 0 % NumberModulus = 0
  <2>1. /\ (0 * (NumberModulus - 1)) % (NumberModulus - 1) = 0
        /\ (0 * NumberModulus) % NumberModulus = 0
    BY Multiple, Sizes, BuffersAssumption
  <2> QED
    BY <2>1, Sizes, BuffersAssumption
<1>2. CaptureTypes' /\ CaptureConsistent' /\ PacketsWhole' /\ CaptureAccounted'
  BY Sizes DEF CaptureTypes, CaptureConsistent, PacketsWhole, CaptureAccounted
<1>3. NumbersConsistent'
  <2>1. 0 * SamplesPerPacket = 0
    BY Sizes
  <2> QED
    BY <1>1, <2>1 DEF NumbersConsistent
<1> QED
  BY <1>2, <1>3 DEF CaptureInv

\* The numbers given to the packets cut at one time follow on those before.
LEMMA NumbersFollow ==
  ASSUME CaptureInv, NEW count \in Nat
  PROVE  /\ SequenceAfter(count) = 1 + ((Len(sent) + count) % (NumberModulus - 1))
         /\ TimestampAfter(count)
              = ((Len(sent) + count) * SamplesPerPacket) % NumberModulus
<1>1. Len(sent) \in Nat
  BY DEF CaptureInv, CaptureTypes
<1>2. ((Len(sent) % (NumberModulus - 1)) + count) % (NumberModulus - 1)
        = (Len(sent) + count) % (NumberModulus - 1)
  BY <1>1, Sizes, RemainderOfSum
<1>3. m_nextSequence - 1 = Len(sent) % (NumberModulus - 1)
  <2>1. (Len(sent) % (NumberModulus - 1)) \in Nat
    BY <1>1, Sizes, Division
  <2> QED
    BY <2>1 DEF CaptureInv, NumbersConsistent
<1>4. SequenceAfter(count) = 1 + ((Len(sent) + count) % (NumberModulus - 1))
  BY <1>2, <1>3 DEF SequenceAfter
<1>5. /\ Len(sent) * SamplesPerPacket \in Nat /\ count * SamplesPerPacket \in Nat
      /\ (Len(sent) + count) * SamplesPerPacket
           = Len(sent) * SamplesPerPacket + count * SamplesPerPacket
  BY <1>1, Sizes
<1>6. NumberModulus \in Nat /\ NumberModulus > 0
  BY BuffersAssumption
<1>7. (((Len(sent) * SamplesPerPacket) % NumberModulus) + count * SamplesPerPacket)
         % NumberModulus
        = (Len(sent) * SamplesPerPacket + count * SamplesPerPacket) % NumberModulus
  BY <1>5, <1>6, RemainderOfSum
<1>8. TimestampAfter(count) = ((Len(sent) + count) * SamplesPerPacket) % NumberModulus
  BY <1>5, <1>7 DEF TimestampAfter, CaptureInv, NumbersConsistent
<1> QED
  BY <1>4, <1>8

\* The packets cut from the buffer at one time, as a sequence.
LEMMA CutPackets ==
  ASSUME CaptureInv, NEW start \in Nat, NEW count \in Nat
  PROVE  /\ PacketsFrom(start, count) \in Seq(SentPacket)
         /\ Len(PacketsFrom(start, count)) = count
         /\ \A j \in 1 .. count :
              PacketsFrom(start, count)[j]
                = [start |-> start + (j - 1) * PacketSize,
                   sequence |-> SequenceAfter(j - 1),
                   timestampSamples |-> TimestampAfter(j - 1)]
<1>1. ASSUME NEW j \in 1 .. count
      PROVE  [start |-> start + (j - 1) * PacketSize, sequence |-> SequenceAfter(j - 1),
              timestampSamples |-> TimestampAfter(j - 1)] \in SentPacket
  <2> DEFINE n == j - 1
             m == Len(sent) + n
  <2>1. n \in Nat /\ m \in Nat
    BY DEF CaptureInv, CaptureTypes
  <2>2. /\ SequenceAfter(n) = 1 + (m % (NumberModulus - 1))
        /\ TimestampAfter(n) = (m * SamplesPerPacket) % NumberModulus
    BY <2>1, NumbersFollow
  <2> HIDE DEF n, m
  <2>3. (m % (NumberModulus - 1)) \in Nat
    BY <2>1, Sizes, Division
  <2>4. m * SamplesPerPacket \in Nat
    BY <2>1, Sizes
  <2>5. ((m * SamplesPerPacket) % NumberModulus) \in Nat
    BY <2>4, BuffersAssumption, Division
  <2>6. SequenceAfter(n) \in Nat /\ TimestampAfter(n) \in Nat
    BY <2>2, <2>3, <2>5
  <2>7. start + n * PacketSize \in Nat
    BY <2>1, Sizes
  <2>8. [start |-> start + n * PacketSize, sequence |-> SequenceAfter(n),
         timestampSamples |-> TimestampAfter(n)] \in SentPacket
    BY <2>6, <2>7 DEF SentPacket
  <2> QED
    BY <2>8 DEF n
<1>2. PacketsFrom(start, count) = [j \in 1 .. count |->
        [start |-> start + (j - 1) * PacketSize, sequence |-> SequenceAfter(j - 1),
         timestampSamples |-> TimestampAfter(j - 1)]]
  BY DEF PacketsFrom
<1>3. PacketsFrom(start, count) \in [1 .. count -> SentPacket]
  BY <1>1, <1>2
<1>4. /\ PacketsFrom(start, count) \in Seq(SentPacket)
      /\ Len(PacketsFrom(start, count)) = count
  BY <1>3
<1> QED
  BY <1>2, <1>4

\* Sound comes in, in a piece of any size.
LEMMA InputInv ==
  ASSUME CaptureInv, NEW bytes \in Nat, OnInputReadyRead(bytes)
  PROVE  CaptureInv'
<1> USE DEF CaptureInv, CaptureTypes
<1>1. /\ Len(sent) \in Nat /\ captured + bytes - captureStart \in Nat
      /\ PacketSize \in Nat /\ PacketSize > 0
  BY Sizes DEF CaptureConsistent
<1>2. PICK k \in Nat :
        /\ BytesToDrop(captured + bytes - captureStart) = k * PacketSize
        /\ k * PacketSize <= captured + bytes - captureStart
  BY <1>1, DropsPackets
<1> DEFINE start == captureStart + k * PacketSize
           count == (captured + bytes - start) \div PacketSize
           rest == (captured + bytes - start) % PacketSize
<1>3. k * PacketSize \in Nat /\ start \in Nat /\ captured + bytes - start \in Nat
  BY <1>1, <1>2
<1>4. /\ count \in Nat /\ rest \in Nat /\ rest < PacketSize
      /\ captured + bytes - start = count * PacketSize + rest
  BY <1>1, <1>3, Division
<1>5. /\ m_running' = m_running
      /\ captured' = captured + bytes
      /\ m_captureOverruns' = m_captureOverruns + k
      /\ sent' = sent \o PacketsFrom(start, count)
      /\ captureStart' = start + count * PacketSize
      /\ m_nextSequence' = SequenceAfter(count)
      /\ m_nextTimestampSamples' = TimestampAfter(count)
  <2>1. (k * PacketSize + PacketSize - 1) \div PacketSize = k
    BY <1>1, Multiple
  <2> QED
    BY <1>2, <2>1 DEF OnInputReadyRead
<1>6. start = (Len(sent) + m_captureOverruns + k) * PacketSize
  BY <1>1, <1>2 DEF CaptureConsistent
<1> HIDE DEF start, count, rest
\* The packets cut now, as members of the sequence.
<1>7. /\ PacketsFrom(start, count) \in Seq(SentPacket)
      /\ Len(PacketsFrom(start, count)) = count
      /\ \A j \in 1 .. count :
           PacketsFrom(start, count)[j]
             = [start |-> start + (j - 1) * PacketSize,
                sequence |-> SequenceAfter(j - 1),
                timestampSamples |-> TimestampAfter(j - 1)]
  BY <1>3, <1>4, CutPackets
<1>8. /\ sent' \in Seq(SentPacket) /\ Len(sent') = Len(sent) + count
      /\ \A i \in 1 .. Len(sent) : sent'[i] = sent[i]
      /\ \A j \in 1 .. count : sent'[Len(sent) + j] = PacketsFrom(start, count)[j]
  <2> DEFINE cut == PacketsFrom(start, count)
  <2>1. sent \in Seq(SentPacket)
    OBVIOUS
  <2>2. cut \in Seq(SentPacket) /\ Len(cut) = count
    BY <1>7
  <2>3. sent' = sent \o cut
    BY <1>5
  <2> HIDE DEF cut
  <2>4. sent \o cut \in Seq(SentPacket) /\ Len(sent \o cut) = Len(sent) + Len(cut)
    BY <2>1, <2>2
  <2>5. \A i \in 1 .. Len(sent) : (sent \o cut)[i] = sent[i]
    BY <2>1, <2>2
  <2>6. \A j \in 1 .. Len(cut) : (sent \o cut)[Len(sent) + j] = cut[j]
    BY <2>1, <2>2
  <2> QED
    BY <2>2, <2>3, <2>4, <2>5, <2>6 DEF cut
<1>9. ASSUME NEW i \in 1 .. Len(sent'), i > Len(sent)
      PROVE  /\ i - 1 - Len(sent) \in 0 .. count - 1
             /\ sent'[i].start = start + (i - 1 - Len(sent)) * PacketSize
             /\ sent'[i].start % PacketSize = 0
             /\ sent'[i].sequence = 1 + ((i - 1) % (NumberModulus - 1))
             /\ sent'[i].timestampSamples = ((i - 1) * SamplesPerPacket) % NumberModulus
  <2> DEFINE n == i - 1 - Len(sent)
  <2>1. /\ n \in 0 .. count - 1 /\ n + 1 \in 1 .. count /\ (n + 1) - 1 = n
        /\ i = Len(sent) + (n + 1) /\ Len(sent) + n = i - 1
    BY <1>1, <1>4, <1>8, <1>9
  <2> HIDE DEF n
  <2>2. sent'[i] = [start |-> start + n * PacketSize, sequence |-> SequenceAfter(n),
                    timestampSamples |-> TimestampAfter(n)]
    <3>1. sent'[i] = PacketsFrom(start, count)[n + 1]
      BY <1>8, <2>1
    <3> QED
      BY <1>7, <2>1, <3>1
  <2>3. (start + n * PacketSize) % PacketSize = 0
    <3>1. start + n * PacketSize = (Len(sent) + m_captureOverruns + k + n) * PacketSize
      <4> DEFINE packets == Len(sent) + m_captureOverruns + k
      <4>1. packets \in Nat /\ n \in Nat /\ start = packets * PacketSize
        BY <1>1, <1>2, <1>6, <2>1
      <4> HIDE DEF packets
      <4>2. (packets + n) * PacketSize = packets * PacketSize + n * PacketSize
        BY <1>1, <4>1, Distributes
      <4> QED
        BY <4>1, <4>2 DEF packets
    <3> DEFINE packets == Len(sent) + m_captureOverruns + k + n
    <3>2. packets \in Nat /\ start + n * PacketSize = packets * PacketSize
      BY <1>1, <1>2, <2>1, <3>1
    <3> HIDE DEF packets
    <3>3. (packets * PacketSize) % PacketSize = 0
      BY <1>1, <3>2, Multiple
    <3> QED
      BY <3>2, <3>3
  <2>4. /\ SequenceAfter(n) = 1 + ((i - 1) % (NumberModulus - 1))
        /\ TimestampAfter(n) = ((i - 1) * SamplesPerPacket) % NumberModulus
    BY <2>1, NumbersFollow
  <2>5. /\ sent'[i].start = start + n * PacketSize
        /\ sent'[i].sequence = SequenceAfter(n)
        /\ sent'[i].timestampSamples = TimestampAfter(n)
    BY <2>2
  <2>6. /\ n \in 0 .. count - 1
        /\ sent'[i].start = start + n * PacketSize
        /\ sent'[i].start % PacketSize = 0
        /\ sent'[i].sequence = 1 + ((i - 1) % (NumberModulus - 1))
        /\ sent'[i].timestampSamples = ((i - 1) * SamplesPerPacket) % NumberModulus
    BY <2>1, <2>3, <2>4, <2>5
  <2> QED
    BY <2>6 DEF n
<1>10. CaptureTypes'
  <2>1. count * PacketSize \in Nat
    BY <1>1, <1>4
  <2>2. captured' \in Nat /\ m_captureOverruns' \in Nat
    BY <1>1, <1>2, <1>5
  <2>3. captureStart' \in Nat
    <3> DEFINE gained == count * PacketSize
    <3> HIDE DEF gained
    <3>1. gained \in Nat /\ captureStart' = start + gained
      BY <1>5, <2>1 DEF gained
    <3> QED
      BY <1>3, <3>1
  <2> QED
    BY <1>2, <1>5, <1>8, <2>2, <2>3 DEF CaptureTypes
<1>11. /\ captureStart' <= captured' /\ captured' - captureStart' < PacketSize
       /\ captureStart' = (Len(sent') + m_captureOverruns') * PacketSize
       /\ captureStart <= start /\ start <= captureStart'
  <2>1. count * PacketSize \in Nat
    BY <1>1, <1>4
  <2>2. (Len(sent) + m_captureOverruns + k + count) * PacketSize
          = start + count * PacketSize
    BY <1>1, <1>2, <1>4, <1>6
  <2>3. Len(sent') + m_captureOverruns' = Len(sent) + m_captureOverruns + k + count
    BY <1>1, <1>2, <1>4, <1>5, <1>8
  <2>4. captureStart <= start
    BY <1>3 DEF start
  <2> DEFINE gained == count * PacketSize
  <2>5. captureStart' = (Len(sent') + m_captureOverruns') * PacketSize
    BY <1>5, <2>2, <2>3
  <2>6. /\ gained \in Nat /\ captureStart' = start + gained
        /\ captured' = captured + bytes
        /\ captured + bytes - start = gained + rest
    BY <1>4, <1>5, <2>1
  <2> HIDE DEF gained
  <2>7. /\ captureStart' <= captured' /\ captured' - captureStart' < PacketSize
        /\ start <= captureStart'
    BY <1>1, <1>3, <1>4, <2>6
  <2> QED
    BY <2>4, <2>5, <2>7
<1>12. \A i \in 1 .. Len(sent') : sent'[i].start < captureStart'
  <2> SUFFICES ASSUME NEW i \in 1 .. Len(sent') PROVE sent'[i].start < captureStart'
    OBVIOUS
  <2>1. CASE i <= Len(sent)
    <3>1. i \in 1 .. Len(sent) /\ sent'[i] = sent[i]
      BY <1>1, <1>8, <2>1
    <3>2. sent[i] \in SentPacket
      BY <3>1
    <3>3. sent[i].start \in Nat /\ sent[i].start < captureStart
      BY <3>1, <3>2 DEF SentPacket, CaptureConsistent
    <3>4. captureStart <= captureStart' /\ captureStart \in Nat /\ captureStart' \in Nat
      BY <1>3, <1>10, <1>11
    <3> QED
      BY <3>1, <3>3, <3>4
  <2>2. CASE i > Len(sent)
    <3> DEFINE n == i - 1 - Len(sent)
    <3>1. n \in 0 .. count - 1 /\ sent'[i].start = start + n * PacketSize
      BY <1>9, <2>2
    <3> HIDE DEF n
    <3>2. n * PacketSize < count * PacketSize
      BY <1>1, <1>4, <3>1
    <3> QED
      BY <1>1, <1>3, <1>4, <1>5, <3>1, <3>2
  <2> QED
    BY <1>1, <2>1, <2>2
<1>13. PacketsWhole'
  <2>1. ASSUME NEW i \in 1 .. Len(sent') PROVE sent'[i].start % PacketSize = 0
    <3>1. CASE i \in 1 .. Len(sent)
      BY <1>8, <3>1 DEF PacketsWhole
    <3> QED
      BY <1>1, <1>9, <3>1
  <2>2. ASSUME NEW i \in 1 .. Len(sent'), NEW j \in 1 .. Len(sent'), i < j
        PROVE  sent'[i].start < sent'[j].start
    <3>1. CASE j <= Len(sent)
      <4>1. i \in 1 .. Len(sent) /\ j \in 1 .. Len(sent)
        BY <1>1, <2>2, <3>1
      <4> QED
        BY <1>8, <2>2, <4>1 DEF PacketsWhole
    <3>2. CASE i <= Len(sent) /\ j > Len(sent)
      <4>1. i \in 1 .. Len(sent) /\ sent'[i] = sent[i] /\ sent[i] \in SentPacket
        BY <1>1, <1>8, <3>2
      <4>2. sent'[i].start \in Nat /\ sent'[i].start < captureStart
        BY <4>1 DEF CaptureConsistent, SentPacket
      <4> DEFINE n == j - 1 - Len(sent)
      <4>3. n \in Nat /\ sent'[j].start = start + n * PacketSize
        BY <1>9, <3>2
      <4> HIDE DEF n
      <4>4. n * PacketSize \in Nat
        BY <1>1, <4>3
      <4> QED
        BY <1>3, <1>11, <4>1, <4>2, <4>3, <4>4
    <3>3. CASE i > Len(sent)
      <4> DEFINE n == i - 1 - Len(sent)
                 p == j - 1 - Len(sent)
      <4>1. j > Len(sent) /\ n < p
        BY <1>1, <2>2, <3>3
      <4>2. n \in Nat /\ sent'[i].start = start + n * PacketSize
        BY <1>9, <3>3
      <4>3. p \in Nat /\ sent'[j].start = start + p * PacketSize
        BY <1>9, <4>1
      <4> HIDE DEF n, p
      <4>4. n * PacketSize < p * PacketSize
        BY <1>1, <4>1, <4>2, <4>3
      <4>5. n * PacketSize \in Nat /\ p * PacketSize \in Nat
        BY <1>1, <4>2, <4>3
      <4> QED
        BY <1>3, <4>2, <4>3, <4>4, <4>5
    <3> QED
      BY <1>1, <3>1, <3>2, <3>3
  <2>3. DOMAIN sent' = 1 .. Len(sent')
    BY <1>8
  <2> QED
    BY <1>11, <2>1, <2>2, <2>3 DEF PacketsWhole
<1>14. CaptureAccounted'
  <2>1. ASSUME NEW i \in 1 .. Len(sent')
        PROVE  /\ sent'[i].sequence = 1 + ((i - 1) % (NumberModulus - 1))
               /\ sent'[i].timestampSamples = ((i - 1) * SamplesPerPacket) % NumberModulus
    <3>1. CASE i \in 1 .. Len(sent)
      BY <1>8, <3>1 DEF CaptureAccounted
    <3> QED
      BY <1>1, <1>9, <3>1
  <2>2. DOMAIN sent' = 1 .. Len(sent')
    BY <1>8
  <2> QED
    BY <1>11, <2>1, <2>2 DEF CaptureAccounted
<1>15. NumbersConsistent'
  <2>1. Len(sent') = Len(sent) + count
    BY <1>8
  <2> QED
    BY <1>4, <1>5, <2>1, NumbersFollow DEF NumbersConsistent
<1> QED
  BY <1>10, <1>11, <1>12, <1>13, <1>14, <1>15 DEF CaptureConsistent
-----------------------------------------------------------------------------
LEMMA PlaybackSizes ==
  PlaybackBufferLimit \in Nat /\ PlaybackBufferLimit >= 2 * PacketSize
<1>1. PlaybackPackets * PacketSize >= 2 * PacketSize
  BY Sizes, BuffersAssumption
<1> QED
  BY <1>1, Sizes, BuffersAssumption DEF PlaybackBufferLimit

\* What the sink takes, of a buffer between two positions that is within its
\* limit, or its failure.
LEMMA DrainInv ==
  ASSUME PlaybackInv, CaptureInv, NEW start \in Nat, NEW end \in Nat, NEW overruns \in Nat,
         start <= end, end <= start + PlaybackBufferLimit,
         start = playbackStart + overruns * PacketSize,
         Drain(start, end, overruns)
  PROVE  PlaybackInv' /\ CaptureInv'
<1>1. CASE StopAudioInternal
  <2>1. CaptureInv'
    BY <1>1, EmptyCapture DEF StopAudioInternal
  <2>2. PlaybackInv'
    BY <1>1, Sizes, PlaybackSizes
    DEF StopAudioInternal, PlaybackInv, PlaybackTypes, PlaybackAccounted
  <2> QED
    BY <2>1, <2>2
<1>2. ASSUME NEW bytes \in 0 .. end - start,
             playbackStart' = start + bytes, written' = written + bytes,
             offered' = end, m_playbackOverruns' = m_playbackOverruns + overruns,
             UNCHANGED <<m_running, captureVars>>
      PROVE  PlaybackInv' /\ CaptureInv'
  <2>1. bytes \in Nat /\ start + bytes <= end
    OBVIOUS
  <2>2. (m_playbackOverruns + overruns) * PacketSize
          = m_playbackOverruns * PacketSize + overruns * PacketSize
    BY Sizes DEF PlaybackInv, PlaybackTypes
  <2>3. m_playbackOverruns * PacketSize \in Nat /\ overruns * PacketSize \in Nat
    BY Sizes DEF PlaybackInv, PlaybackTypes
  <2> DEFINE before == m_playbackOverruns * PacketSize
             again == overruns * PacketSize
             after == (m_playbackOverruns + overruns) * PacketSize
  <2>4. /\ after = before + again /\ before \in Nat /\ again \in Nat
        /\ start = playbackStart + again /\ playbackStart = written + before
        /\ m_playbackOverruns' * PacketSize = after
    BY <1>2, <2>2, <2>3 DEF PlaybackInv, PlaybackAccounted
  <2> HIDE DEF before, again, after
  <2>5. PlaybackTypes'
    BY <1>2, <2>1 DEF PlaybackInv, PlaybackTypes
  <2>6. playbackStart' = written' + after
    BY <1>2, <2>1, <2>4 DEF PlaybackInv, PlaybackTypes
  <2>7. offered' <= playbackStart' + PlaybackBufferLimit /\ playbackStart' <= offered'
    BY <1>2, <2>1, PlaybackSizes
  <2>8. PlaybackInv'
    BY <2>4, <2>5, <2>6, <2>7 DEF PlaybackInv, PlaybackAccounted
  <2>9. CaptureInv'
    BY <1>2 DEF captureVars, CaptureInv, CaptureTypes, CaptureConsistent,
                NumbersConsistent, PacketsWhole, CaptureAccounted
  <2> QED
    BY <2>8, <2>9
<1> QED
  BY <1>1, <1>2 DEF Drain

LEMMA BuffersInitInv == BuffersInit => CaptureInv /\ PlaybackInv
<1> SUFFICES ASSUME BuffersInit PROVE CaptureInv /\ PlaybackInv
  OBVIOUS
<1>1. 0 % (NumberModulus - 1) = 0 /\ 0 % NumberModulus = 0 /\ 0 * SamplesPerPacket = 0
  <2>1. /\ (0 * (NumberModulus - 1)) % (NumberModulus - 1) = 0
        /\ (0 * NumberModulus) % NumberModulus = 0
    BY Multiple, Sizes, BuffersAssumption
  <2> QED
    BY <2>1, Sizes, BuffersAssumption
<1>2. CaptureTypes /\ CaptureConsistent /\ PacketsWhole /\ CaptureAccounted
  <2>1. /\ sent \in Seq(SentPacket) /\ Len(sent) = 0 /\ DOMAIN sent = {}
        /\ captured = 0 /\ captureStart = 0 /\ m_captureOverruns = 0 /\ m_running = FALSE
    BY DEF BuffersInit
  <2>2. (Len(sent) + m_captureOverruns) * PacketSize = 0
    BY <2>1, Sizes
  <2>3. CaptureTypes
    BY <2>1 DEF CaptureTypes
  <2>4. CaptureConsistent
    BY <2>1, <2>2 DEF CaptureConsistent
  <2>5. PacketsWhole
    BY <2>1, Sizes DEF PacketsWhole
  <2>6. CaptureAccounted
    BY <2>1, <2>2 DEF CaptureAccounted
  <2> QED
    BY <2>3, <2>4, <2>5, <2>6
<1>3. NumbersConsistent
  BY <1>1 DEF BuffersInit, NumbersConsistent
<1>4. PlaybackInv
  BY Sizes, PlaybackSizes DEF BuffersInit, PlaybackInv, PlaybackTypes, PlaybackAccounted
<1> QED
  BY <1>2, <1>3, <1>4 DEF CaptureInv

LEMMA BuffersStepInv ==
  ASSUME CaptureInv, PlaybackInv, [BuffersNext]_bufferVars
  PROVE  CaptureInv' /\ PlaybackInv'
<1>1. CASE StartAudio
  BY <1>1
  DEF StartAudio, captureVars, playbackVars, CaptureInv, CaptureTypes, CaptureConsistent,
      NumbersConsistent, PacketsWhole, CaptureAccounted, PlaybackInv, PlaybackTypes,
      PlaybackAccounted
<1>2. CASE StopAudioInternal
  <2>1. CaptureInv'
    BY <1>2, EmptyCapture DEF StopAudioInternal
  <2>2. PlaybackInv'
    BY <1>2, Sizes, PlaybackSizes
    DEF StopAudioInternal, PlaybackInv, PlaybackTypes, PlaybackAccounted
  <2> QED
    BY <2>1, <2>2
<1>3. ASSUME NEW bytes \in 1 .. StreamBound, OnInputReadyRead(bytes)
      PROVE  CaptureInv' /\ PlaybackInv'
  <2>1. bytes \in Nat
    BY BuffersAssumption
  <2>2. CaptureInv'
    BY <1>3, <2>1, InputInv
  <2>3. UNCHANGED playbackVars
    BY <1>3 DEF OnInputReadyRead
  <2> QED
    BY <2>2, <2>3 DEF playbackVars, PlaybackInv, PlaybackTypes, PlaybackAccounted
<1>4. CASE PlayoutPacket
  <2> DEFINE start == playbackStart + AppendOverruns * PacketSize
             end == offered + PacketSize
  <2>1. /\ playbackStart \in Nat /\ offered \in Nat /\ playbackStart <= offered
        /\ offered <= playbackStart + PlaybackBufferLimit
    BY DEF PlaybackInv, PlaybackTypes, PlaybackAccounted
  <2>2. AppendOverruns \in Nat
    BY DEF AppendOverruns
  <2>3. start \in Nat /\ end \in Nat /\ start <= end /\ end <= start + PlaybackBufferLimit
    <3>1. CASE Pending + PacketSize > PlaybackBufferLimit
      <4>1. start = playbackStart + PacketSize
        BY <2>1, <3>1, Sizes DEF AppendOverruns
      <4> QED
        BY <2>1, <4>1, Sizes, PlaybackSizes
    <3>2. CASE ~(Pending + PacketSize > PlaybackBufferLimit)
      <4>1. start = playbackStart
        BY <2>1, <3>2, Sizes DEF AppendOverruns
      <4> QED
        BY <2>1, <3>2, <4>1, Sizes, PlaybackSizes DEF Pending
    <3> QED
      BY <3>1, <3>2
  <2>4. Drain(start, end, AppendOverruns)
    BY <1>4 DEF PlayoutPacket
  <2>5. start = playbackStart + AppendOverruns * PacketSize
    OBVIOUS
  <2> HIDE DEF start, end
  <2> QED
    BY <2>2, <2>3, <2>4, <2>5, DrainInv
<1>5. CASE PlayoutNothing
  <2>1. /\ playbackStart \in Nat /\ offered \in Nat /\ playbackStart <= offered
        /\ offered <= playbackStart + PlaybackBufferLimit
    BY DEF PlaybackInv, PlaybackTypes, PlaybackAccounted
  <2>2. playbackStart = playbackStart + 0 * PacketSize
    BY <2>1, Sizes
  <2>3. Drain(playbackStart, offered, 0)
    BY <1>5 DEF PlayoutNothing
  <2> QED
    BY <2>1, <2>2, <2>3, DrainInv
<1>6. CASE UNCHANGED bufferVars
  BY <1>6
  DEF bufferVars, captureVars, playbackVars, CaptureInv, CaptureTypes, CaptureConsistent,
      NumbersConsistent, PacketsWhole, CaptureAccounted, PlaybackInv, PlaybackTypes,
      PlaybackAccounted
<1> QED
  BY <1>1, <1>2, <1>3, <1>4, <1>5, <1>6 DEF BuffersNext

LEMMA BuffersInvariance == BuffersSpec => [](CaptureInv /\ PlaybackInv)
<1>1. (CaptureInv /\ PlaybackInv) /\ [BuffersNext]_bufferVars
        => (CaptureInv /\ PlaybackInv)'
  BY BuffersStepInv
<1> QED
  BY BuffersInitInv, <1>1, PTL DEF BuffersSpec
-----------------------------------------------------------------------------
\* However the sound comes in and however often the capture buffer overflows,
\* packets are cut at multiples of their size, in order and never twice from the
\* same sound, and less than one stays behind (audioworker.cpp, onInputReadyRead).
THEOREM PacketsAlwaysWhole == BuffersSpec => []PacketsWhole
<1>1. CaptureInv /\ PlaybackInv => PacketsWhole
  BY DEF CaptureInv
<1> QED
  BY BuffersInvariance, <1>1, PTL

\* Whatever was read is in a packet, counted as overrun, or still buffered, and
\* the numbers on the packets have no gap, wrapping past 0 for the sequence.
THEOREM CaptureIsAccounted == BuffersSpec => []CaptureAccounted
<1>1. CaptureInv /\ PlaybackInv => CaptureAccounted
  BY DEF CaptureInv
<1> QED
  BY BuffersInvariance, <1>1, PTL

\* Whatever was offered to the sink was taken, was counted as overrun, or waits
\* within the limit, for every size of packet and every limit of two or more.
THEOREM PlaybackIsAccounted == BuffersSpec => []PlaybackAccounted
<1>1. CaptureInv /\ PlaybackInv => PlaybackAccounted
  BY DEF PlaybackInv
<1> QED
  BY BuffersInvariance, <1>1, PTL
-----------------------------------------------------------------------------
(* The pacer. *)

Write == [at : Nat, released : Nat, wire : Nat]

PacerTypes ==
  /\ now \in Nat
  /\ m_nextDatagramDeadline \in Nat
  /\ pacing \in 0 .. MaximumDatagramSize
  /\ released \in Nat \cup {-1}
  /\ writes \in Seq(Write)

\* The datagram that has been released but not written yet.
Current ==
  released # -1 =>
    /\ pacing # 0 /\ released <= now
    /\ m_nextDatagramDeadline = released + DatagramWireTime(pacing)

\* What comes next keeps its distance from the last datagram written.
AfterLast ==
  writes # <<>> =>
    LET last == writes[Len(writes)]
    IN /\ last.at <= now
       /\ released = -1 => m_nextDatagramDeadline >= last.released + last.wire
       /\ released # -1 => /\ released >= last.released + last.wire
                           /\ released >= last.at

\* Each datagram was released after the one before had been written, and had its
\* time on the wire.
History ==
  /\ \A i \in 1 .. Len(writes) : writes[i].at >= writes[i].released
  /\ \A i \in 1 .. Len(writes) - 1 :
       /\ writes[i + 1].released >= writes[i].released + writes[i].wire
       /\ writes[i + 1].released >= writes[i].at

PacerInv ==
  PacerTypes /\ Current /\ AfterLast /\ History /\ WaitsForOneAtMost
-----------------------------------------------------------------------------
\* At first nothing has been written and no datagram waits.
LEMMA PacerInitInv == PacerInit => PacerInv
BY PacerAssumption DEF PacerInit, PacerInv, PacerTypes, Current, AfterLast, History,
   WaitsForOneAtMost, DatagramWireTime

\* The time on the wire is a number and grows with the size.
LEMMA WireTime ==
  /\ DatagramWireTime(MaximumDatagramSize) \in Nat
  /\ \A size \in 0 .. MaximumDatagramSize :
       /\ DatagramWireTime(size) \in Nat
       /\ DatagramWireTime(size) <= DatagramWireTime(MaximumDatagramSize)
BY PacerAssumption DEF DatagramWireTime

\* Time that passes only makes what was written older.
LEMMA TimePassesInv == PacerInv /\ TimePasses => PacerInv'
<1> SUFFICES ASSUME PacerInv, TimePasses PROVE PacerInv'
  OBVIOUS
<1> USE DEF PacerInv, PacerTypes, TimePasses
<1>1. now' \in Nat /\ now < now'
  BY PacerAssumption
<1>2. PacerTypes' /\ History'
  BY <1>1 DEF History
<1>3. WaitsForOneAtMost'
  BY <1>1, WireTime DEF WaitsForOneAtMost, DatagramWireTime
<1>4. Current'
  BY <1>1, WireTime DEF DatagramWireTime, Current
<1>5. AfterLast'
  <2> SUFFICES ASSUME writes # <<>> PROVE writes[Len(writes)].at <= now'
    BY DEF AfterLast
  <2>1. writes[Len(writes)] \in Write
    OBVIOUS
  <2> QED
    BY <1>1, <2>1 DEF AfterLast, Write
<1> QED
  BY <1>2, <1>3, <1>4, <1>5

\* A datagram is written: it takes the place of the last one.
LEMMA WriteInv == PacerInv /\ WriteDatagram => PacerInv'
<1> SUFFICES ASSUME PacerInv, WriteDatagram PROVE PacerInv'
  OBVIOUS
<1> USE DEF PacerInv, PacerTypes, WriteDatagram
<1> DEFINE w == [at |-> now, released |-> released, wire |-> DatagramWireTime(pacing)]
<1>1. released # -1 /\ released \in Nat /\ released <= now
  BY DEF Waiting, Current
<1>2. DatagramWireTime(pacing) \in Nat
  BY WireTime
<1>3. w \in Write
  BY <1>1, <1>2 DEF Write
<1>4. /\ m_nextDatagramDeadline' = released + DatagramWireTime(pacing)
      /\ released' = -1 /\ now' = now /\ pacing' = 0
  BY <1>1 DEF Current
<1>5. Current' /\ WaitsForOneAtMost'
  BY <1>4, WireTime DEF Current, WaitsForOneAtMost, DatagramWireTime
<1>6. CASE writes' = Append(writes, w)
  <2>1. writes' \in Seq(Write) /\ Len(writes') = Len(writes) + 1
        /\ writes'[Len(writes) + 1] = w
        /\ \A i \in 1 .. Len(writes) : writes'[i] = writes[i]
    BY <1>3, <1>6
  <2>2. PacerTypes'
    BY <1>4, <2>1, PacerAssumption
  <2>3. AfterLast'
    BY <1>1, <1>2, <1>4, <2>1 DEF AfterLast
  <2>4. History'
    <3>1. ASSUME NEW i \in 1 .. Len(writes') PROVE writes'[i].at >= writes'[i].released
      <4>1. CASE i = Len(writes) + 1
        BY <1>1, <2>1, <4>1
      <4>2. CASE i \in 1 .. Len(writes)
        BY <2>1, <4>2 DEF History
      <4> QED
        BY <2>1, <4>1, <4>2
    <3>2. ASSUME NEW i \in 1 .. Len(writes') - 1
          PROVE  /\ writes'[i + 1].released >= writes'[i].released + writes'[i].wire
                 /\ writes'[i + 1].released >= writes'[i].at
      <4>1. CASE i = Len(writes)
        <5>1. writes # <<>> /\ writes'[i] = writes[Len(writes)] /\ writes'[i + 1] = w
          BY <2>1, <4>1
        <5> QED
          BY <1>1, <5>1 DEF AfterLast
      <4>2. CASE i \in 1 .. Len(writes) - 1
        BY <2>1, <4>2 DEF History
      <4> QED
        BY <2>1, <4>1, <4>2
    <3> QED
      BY <3>1, <3>2 DEF History
  <2> QED
    BY <1>5, <2>2, <2>3, <2>4
<1>7. CASE UNCHANGED writes
  <2>1. AfterLast'
    <3> SUFFICES ASSUME writes # <<>>
                 PROVE  /\ writes[Len(writes)].at <= now
                        /\ m_nextDatagramDeadline'
                             >= writes[Len(writes)].released + writes[Len(writes)].wire
      BY <1>4, <1>7 DEF AfterLast
    <3>1. writes[Len(writes)] \in Write
      OBVIOUS
    <3>2. /\ writes[Len(writes)].at \in Nat /\ writes[Len(writes)].released \in Nat
          /\ writes[Len(writes)].wire \in Nat
      BY <3>1 DEF Write
    <3>3. /\ writes[Len(writes)].at <= now
          /\ released >= writes[Len(writes)].released + writes[Len(writes)].wire
      BY <1>1, <3>2 DEF AfterLast
    <3>4. m_nextDatagramDeadline' \in Nat /\ m_nextDatagramDeadline' >= released
      BY <1>1, <1>2, <1>4
    <3> HIDE DEF PacerInv, PacerTypes, WriteDatagram
    <3> QED
      BY <1>1, <3>2, <3>3, <3>4
  <2>2. PacerTypes' /\ History'
    BY <1>4, <1>7, PacerAssumption DEF History
  <2> QED
    BY <1>5, <2>1, <2>2
<1> QED
  BY <1>6, <1>7

\* The pacer's own steps and the reset move the deadline, never backwards past
\* what the last datagram needs.
LEMMA DeadlineInv ==
  PacerInv /\ ( \/ ResetDatagramPacer \/ LeavePaceDatagram
                \/ \E size \in 1 .. MaximumDatagramSize : EnterPaceDatagram(size) )
    => PacerInv'
<1> USE DEF PacerInv, PacerTypes
<1>1. ASSUME PacerInv, ResetDatagramPacer PROVE PacerInv'
  <2>1. PacerTypes' /\ WaitsForOneAtMost'
    BY <1>1, WireTime DEF ResetDatagramPacer, WaitsForOneAtMost, DatagramWireTime
  <2>2. Current' /\ AfterLast' /\ History'
    BY <1>1 DEF ResetDatagramPacer, Current, AfterLast, History
  <2> QED
    BY <2>1, <2>2
<1>2. ASSUME PacerInv, LeavePaceDatagram PROVE PacerInv'
  <2>1. /\ released = -1 /\ released' = now /\ now' = now /\ writes' = writes
        /\ now >= m_nextDatagramDeadline /\ pacing' = pacing /\ pacing # 0
        /\ m_nextDatagramDeadline' = now + DatagramWireTime(pacing)
    BY <1>2 DEF LeavePaceDatagram, Waiting
  <2>2. PacerTypes' /\ Current' /\ WaitsForOneAtMost'
    BY <1>2, <2>1, WireTime DEF Current, WaitsForOneAtMost, DatagramWireTime
  <2>3. AfterLast'
    <3> SUFFICES ASSUME writes # <<>>
                 PROVE  /\ writes[Len(writes)].at <= now
                        /\ now >= writes[Len(writes)].released + writes[Len(writes)].wire
      BY <1>2, <2>1 DEF AfterLast
    <3>1. writes[Len(writes)] \in Write
      BY <1>2
    <3> QED
      BY <1>2, <2>1, <3>1 DEF AfterLast, Write
  <2>4. History'
    BY <1>2, <2>1 DEF History
  <2> QED
    BY <2>2, <2>3, <2>4
<1>3. ASSUME PacerInv, NEW size \in 1 .. MaximumDatagramSize, EnterPaceDatagram(size)
      PROVE  PacerInv'
  <2>1. /\ released = -1 /\ released' = -1 /\ now' = now /\ writes' = writes
        /\ pacing' = size /\ m_nextDatagramDeadline' = NextSlot
    BY <1>3 DEF EnterPaceDatagram, Current
  <2>2. /\ NextSlot \in Nat /\ NextSlot >= m_nextDatagramDeadline
        /\ NextSlot <= now + DatagramWireTime(MaximumDatagramSize)
    BY <1>3, WireTime DEF NextSlot, WaitsForOneAtMost
  <2>3. PacerTypes' /\ Current' /\ WaitsForOneAtMost'
    BY <1>3, <2>1, <2>2, PacerAssumption DEF Current, WaitsForOneAtMost, DatagramWireTime
  <2>4. AfterLast'
    <3> SUFFICES ASSUME writes # <<>>
                 PROVE  /\ writes[Len(writes)].at <= now
                        /\ NextSlot >= writes[Len(writes)].released
                                         + writes[Len(writes)].wire
      BY <2>1 DEF AfterLast
    <3>1. writes[Len(writes)] \in Write
      BY <1>3
    <3> QED
      BY <1>3, <2>1, <2>2, <3>1 DEF AfterLast, Write
  <2>5. History'
    BY <1>3, <2>1 DEF History
  <2> QED
    BY <2>3, <2>4, <2>5
<1> QED
  BY <1>1, <1>2, <1>3

\* The invariant is inductive.
LEMMA PacerStepInv == PacerInv /\ [PacerNext]_pacerVars => PacerInv'
<1>1. CASE UNCHANGED pacerVars
  BY <1>1 DEF pacerVars, PacerInv, PacerTypes, Current, AfterLast, History,
              WaitsForOneAtMost
<1> QED
  BY <1>1, TimePassesInv, WriteInv, DeadlineInv DEF PacerNext

LEMMA PacerInvariance == PacerSpec => []PacerInv
BY PacerInitInv, PacerStepInv, PTL DEF PacerSpec

LEMMA Between ==
  ASSUME NEW a \in Nat, NEW b \in Nat, NEW c \in Nat, NEW d \in Nat, NEW wire \in Nat,
         b >= a, c >= b + wire, d >= c
  PROVE  d >= a + wire
OBVIOUS

\* The distances of neighbours add up to that of any three.
LEMMA SpacedOut == PacerInv => NoBurst
<1> SUFFICES ASSUME PacerInv PROVE NoBurst
  OBVIOUS
<1> USE DEF PacerInv, PacerTypes
<1>1. ASSUME NEW i \in 1 .. Len(writes) - 2
      PROVE  writes[i + 2].at >= writes[i].at + writes[i + 1].wire
  <2>1. /\ i \in 1 .. Len(writes) /\ i + 1 \in 1 .. Len(writes)
        /\ i + 2 \in 1 .. Len(writes)
    OBVIOUS
  <2>2. writes[i] \in Write /\ writes[i + 1] \in Write /\ writes[i + 2] \in Write
    BY <2>1
  <2>3. writes[i + 1].released >= writes[i].at
    BY DEF History
  <2>4. writes[i + 2].released >= writes[i + 1].released + writes[i + 1].wire
    <3>1. i + 1 \in 1 .. Len(writes) - 1 /\ (i + 1) + 1 = i + 2
      OBVIOUS
    <3> QED
      BY <3>1 DEF History
  <2>5. writes[i + 2].at >= writes[i + 2].released
    BY <2>1 DEF History
  <2>6. /\ writes[i].at \in Nat /\ writes[i + 1].released \in Nat
        /\ writes[i + 1].wire \in Nat
        /\ writes[i + 2].at \in Nat /\ writes[i + 2].released \in Nat
    BY <2>2 DEF Write
  <2> HIDE DEF PacerInv, PacerTypes
  <2> QED
    BY <2>3, <2>4, <2>5, <2>6, Between
<1> QED
  BY <1>1 DEF NoBurst, History

\* However long the thread is held up, and wherever, datagrams never leave in a
\* burst: the pacer releases two no closer than the first's time on the wire, and
\* of three written the outer ones are the middle one's apart.
THEOREM NeverABurst == PacerSpec => []NoBurst
BY PacerInvariance, SpacedOut, PTL

\* The thread that sends, the window's, never waits for more than one datagram.
THEOREM ShortWaits == PacerSpec => []WaitsForOneAtMost
<1>1. PacerInv => WaitsForOneAtMost
  BY DEF PacerInv
<1> QED
  BY <1>1, PacerInvariance, PTL
==============================================================================
