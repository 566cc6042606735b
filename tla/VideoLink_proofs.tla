---------------------------- MODULE VideoLink_proofs ----------------------------
(* Proofs about VideoLink: sender, network and receiver together are a channel *)
(* of frames, for any frames, losses, repetitions and delays and all limits.   *)
EXTENDS VideoLink, VideoFrameReassembler_proofs

\* The datagrams of the attempt a, the j-th, and those of it that were written.
Datagrams(a, j) == FragmentEncodedFrame(a.size, a.id, a.timestampMs, j)
Sent(a, j) == {Datagrams(a, j)[i] : i \in 0 .. a.written - 1}
AllSent(list) == UNION {Sent(list[j], j) : j \in DOMAIN list}

Attempt == [id : FrameKey, timestampMs : Nat, size : Nat, count : Nat, written : Nat]

AttemptSound(a) ==
  /\ a \in Attempt
  /\ DOMAIN Datagrams(a, 0) = 0 .. a.count - 1
  /\ a.written <= a.count

\* Where datagrams are: under way or in frames in parts.
Around == network \cup HeldIn(m_pendingFrames)

HistorySound ==
  /\ attempts \in Seq(Attempt) /\ Len(attempts) <= SendBound
  /\ \A j \in DOMAIN attempts : AttemptSound(attempts[j])
  /\ delivered \in Seq(Nat)
  /\ \A j \in Range(delivered) : j \in DOMAIN attempts /\ Whole(attempts[j])
  /\ {losses, duplicates} \subseteq Nat

\* Only the id of a frame not written whole is used again, at a later time.
IdsApart ==
  \A i, j \in DOMAIN attempts :
    i < j /\ attempts[i].id = attempts[j].id =>
      ~Whole(attempts[i]) /\ attempts[i].timestampMs < attempts[j].timestampMs

\* The next id after k frames were written whole, in the first round of the ids.
IdAfter(k) ==
  IF FirstFrameId + k <= MaximumFrameId THEN FirstFrameId + k
                                        ELSE FirstFrameId + k - MaximumFrameId

\* Frames written whole have the ids before the next one.
NextIdFresh ==
  \E k \in 0 .. Len(attempts) :
    /\ m_nextFrameId = IdAfter(k)
    /\ \A j \in DOMAIN attempts :
         Whole(attempts[j]) => \E i \in 0 .. k - 1 : attempts[j].id = IdAfter(i)

\* Unless the network repeats, a datagram is in one place and that of a frame
\* delivered in none.
NothingTwice ==
  duplicates = 0 =>
    /\ network \cap HeldIn(m_pendingFrames) = {}
    /\ \A j \in Range(delivered) : Sent(attempts[j], j) \cap Around = {}

LinkInv ==
  /\ StoreInv /\ HistorySound /\ IdsApart /\ NextIdFresh
  /\ Around \subseteq AllSent(attempts)
  /\ NothingTwice

\* No frame has to go to make room for another.
Room ==
  /\ SendBound <= MaximumPendingFrameCount
  /\ SendBound * MaximumFrameSize <= MaximumPendingPayloadBytes

\* Where nothing is lost or late, a frame that was written whole and takes over
\* no id is delivered or has all of its datagrams around.
NothingLost ==
  losses = 0 /\ now <= FrameTimeoutMs =>
    \A j \in DOMAIN attempts :
      Whole(attempts[j]) /\ ~TakesOverId(j) =>
        j \in Range(delivered) \/ Sent(attempts[j], j) \subseteq Around
-----------------------------------------------------------------------------
(* How a frame is cut. *)

LEMMA Division ==
  ASSUME NEW a \in Nat, NEW m \in Nat \ {0}
  PROVE  a \div m \in Nat /\ (a \div m) * m <= a /\ a < (a \div m) * m + m
<1>1. a \div m \in Nat
  BY SMTT(30)
<1>2. (a % m) \in 0 .. m - 1
  BY SMTT(30)
<1>3. a = (a \div m) * m + (a % m)
  BY SMTT(30)
<1> DEFINE q == (a \div m) * m
           r == a % m
<1>4. q \in Nat
  BY <1>1
<1> HIDE DEF q, r
<1>5. q <= a /\ a < q + m
  BY <1>2, <1>3, <1>4 DEF q, r
<1> QED
  BY <1>1, <1>5 DEF q

LEMMA Monotone ==
  ASSUME NEW a \in Nat, NEW b \in Nat, a <= b, NEW m \in Nat
  PROVE  a * m \in Nat /\ b * m \in Nat /\ a * m <= b * m
OBVIOUS

\* All payloads but the last are full, and the last is not empty.
LEMMA Cut ==
  ASSUME NEW size \in Nat
  PROVE  /\ FragmentCount(size) \in Nat
         /\ \A i \in 0 .. FragmentCount(size) - 1 :
              /\ i * MaximumPayloadSize \in Nat /\ i * MaximumPayloadSize < size
              /\ PayloadLength(size, i) \in 1 .. MaximumPayloadSize
              /\ PayloadLength(size, i) <= size
<1> DEFINE m == MaximumPayloadSize
           n == FragmentCount(size)
<1>1. m \in Nat \ {0}
  BY SenderAssumption
<1>2. size + m - 1 \in Nat /\ n = (size + m - 1) \div m
  BY <1>1 DEF FragmentCount
<1>3. n \in Nat /\ n * m <= size + m - 1
  BY <1>1, <1>2, Division
<1> HIDE DEF m, n
<1>4. ASSUME NEW i \in 0 .. n - 1
      PROVE  /\ i * m \in Nat /\ i * m < size
             /\ PayloadLength(size, i) \in 1 .. m
             /\ PayloadLength(size, i) <= size
  <2>1. (i + 1) * m <= n * m /\ (i + 1) * m = i * m + m /\ i * m \in Nat
    BY <1>1, <1>3, Monotone
  <2>2. i * m + m <= size + m - 1 /\ i * m < size
    <3> DEFINE p == i * m
               q == n * m
    <3>1. p \in Nat /\ q \in Nat /\ p + m <= q /\ q <= size + m - 1
      BY <1>1, <1>3, <2>1
    <3> HIDE DEF p, q
    <3>2. p + m <= size + m - 1 /\ p < size
      BY <1>1, <3>1
    <3> QED
      BY <3>2 DEF p
  <2>3. PayloadLength(size, i) = IF size - i * m < m THEN size - i * m ELSE m
    BY DEF PayloadLength, m
  <2> QED
    <3> DEFINE p == i * m
    <3>1. p \in Nat /\ p < size
      BY <2>1, <2>2
    <3>2. PayloadLength(size, i) = IF size - p < m THEN size - p ELSE m
      BY <2>3
    <3> HIDE DEF p
    <3>3. PayloadLength(size, i) \in 1 .. m /\ PayloadLength(size, i) <= size
      BY <1>1, <3>1, <3>2
    <3> QED
      BY <2>1, <2>2, <3>3
<1> QED
  BY <1>3, <1>4 DEF m, n

LEMMA CountIs ==
  ASSUME NEW a, AttemptSound(a), a.count > 0
  PROVE  /\ a.count = FragmentCount(a.size) /\ a.count <= MaximumFragmentCount
         /\ a.size <= MaximumFrameSize
<1> DEFINE n == FragmentCount(a.size)
           sendable == a.size <= MaximumFrameSize /\ n <= MaximumFragmentCount
<1>1. a.count \in Nat \ {0} /\ a.size \in Nat
  BY DEF AttemptSound, Attempt
<1>2. n \in Nat
  BY <1>1, Cut
<1>3. {j \in 0 .. n - 1 : sendable} = 0 .. a.count - 1
  BY DEF AttemptSound, Datagrams, FragmentEncodedFrame
<1> HIDE DEF n
<1>4. 0 \in 0 .. a.count - 1
  BY <1>1
<1>5. sendable
  BY <1>3, <1>4
<1>6. 0 .. n - 1 = 0 .. a.count - 1
  BY <1>3, <1>5
<1>7. n = a.count
  <2>1. a.count - 1 \in 0 .. n - 1
    <3>1. a.count - 1 \in 0 .. a.count - 1
      BY <1>1
    <3> QED
      BY <1>6, <3>1
  <2>2. n - 1 \in 0 .. a.count - 1
    <3>1. n - 1 \in 0 .. n - 1
      BY <1>1, <1>2, <2>1
    <3> QED
      BY <1>6, <3>1
  <2> QED
    BY <1>1, <1>2, <2>1, <2>2
<1> QED
  BY <1>5, <1>7 DEF n

\* A datagram as it is written.
LEMMA DatagramIs ==
  ASSUME NEW a, AttemptSound(a), NEW j, NEW i \in 0 .. a.count - 1
  PROVE  Datagrams(a, j)[i] =
           [key |-> a.id, timestampMs |-> a.timestampMs, frameSize |-> a.size,
            fragmentCount |-> a.count, fragmentIndex |-> i,
            payload |-> [size |-> PayloadLength(a.size, i), content |-> j]]
<1>1. a.count \in Nat
  BY DEF AttemptSound, Attempt
<1>2. a.count > 0
  BY <1>1
<1>3. a.count = FragmentCount(a.size)
  BY <1>2, CountIs
<1>4. i \in {k \in 0 .. FragmentCount(a.size) - 1 :
             a.size <= MaximumFrameSize /\ FragmentCount(a.size) <= MaximumFragmentCount}
  BY <1>2, <1>3, CountIs
<1> QED
  BY <1>3, <1>4 DEF Datagrams, FragmentEncodedFrame

\* What the sender writes, the receiver takes.
LEMMA DatagramSound ==
  ASSUME NEW a, AttemptSound(a), NEW j \in Nat, NEW i \in 0 .. a.count - 1
  PROVE  Parsable(Datagrams(a, j)[i]) /\ Valid(Datagrams(a, j)[i])
<1> DEFINE d == Datagrams(a, j)[i]
           length == PayloadLength(a.size, i)
<1>1. d = [key |-> a.id, timestampMs |-> a.timestampMs, frameSize |-> a.size,
           fragmentCount |-> a.count, fragmentIndex |-> i,
           payload |-> [size |-> length, content |-> j]]
  BY DatagramIs
<1>2. /\ a.count \in Nat /\ a.size \in Nat /\ a.id \in FrameKey /\ a.timestampMs \in Nat
      /\ a.count > 0 /\ i < a.count /\ i \in Nat
  BY DEF AttemptSound, Attempt
<1>3. /\ a.count = FragmentCount(a.size) /\ a.count <= MaximumFragmentCount
      /\ a.size <= MaximumFrameSize
  BY <1>2, CountIs
<1>4. /\ length \in 1 .. MaximumPayloadSize /\ length <= a.size
      /\ MaximumPayloadSize \in Nat /\ MaximumFrameSize \in Nat
      /\ MaximumFragmentCount \in Nat
  BY <1>2, <1>3, Cut, SenderAssumption, LimitsAssumption
<1> HIDE DEF length, d
<1>5. /\ a.size \in 1 .. MaximumFrameSize /\ length \in Nat \ {0}
      /\ a.count \in 1 .. MaximumFragmentCount
  BY <1>2, <1>3, <1>4
<1>6. Parsable(d)
  BY <1>1, <1>2, <1>4, <1>5 DEF Parsable
<1>7. d \in Fragment
  BY <1>1, <1>2, <1>5 DEF Fragment, Payload
<1>8. Valid(d)
  BY <1>1, <1>2, <1>4, <1>7 DEF Valid
<1> QED
  BY <1>6, <1>8 DEF d

LEMMA SentIs ==
  ASSUME NEW a, AttemptSound(a), NEW j \in Nat, NEW d \in Sent(a, j)
  PROVE  /\ Parsable(d) /\ Valid(d)
         /\ d.key = a.id /\ d.timestampMs = a.timestampMs /\ d.frameSize = a.size
         /\ d.fragmentCount = a.count /\ d.payload.content = j
         /\ d.fragmentIndex \in 0 .. a.written - 1 /\ a.written > 0
         /\ d.fragmentIndex \in 0 .. a.count - 1
         /\ d = Datagrams(a, j)[d.fragmentIndex]
<1>1. /\ a.count \in Nat /\ a.written \in Nat /\ a.written <= a.count
  BY DEF AttemptSound, Attempt
<1>2. PICK i \in 0 .. a.written - 1 : d = Datagrams(a, j)[i]
  BY DEF Sent
<1>3. i \in 0 .. a.count - 1 /\ a.written > 0
  BY <1>1
<1>4. d = [key |-> a.id, timestampMs |-> a.timestampMs, frameSize |-> a.size,
           fragmentCount |-> a.count, fragmentIndex |-> i,
           payload |-> [size |-> PayloadLength(a.size, i), content |-> j]]
  BY <1>2, <1>3, DatagramIs
<1>5. Parsable(d) /\ Valid(d)
  BY <1>2, <1>3, DatagramSound
<1>6. /\ d.key = a.id /\ d.timestampMs = a.timestampMs /\ d.frameSize = a.size
      /\ d.fragmentCount = a.count /\ d.payload.content = j /\ d.fragmentIndex = i
  BY <1>4
<1>7. d = Datagrams(a, j)[d.fragmentIndex]
  BY <1>2, <1>6
<1> QED
  BY <1>3, <1>5, <1>6, <1>7

\* The attempt a datagram is of.
LEMMA SourceIs ==
  ASSUME HistorySound, NEW d \in AllSent(attempts)
  PROVE  LET j == d.payload.content
         IN /\ j \in DOMAIN attempts /\ j \in Nat \ {0} /\ AttemptSound(attempts[j])
            /\ d \in Sent(attempts[j], j)
<1>1. PICK j \in DOMAIN attempts : d \in Sent(attempts[j], j)
  BY DEF AllSent
<1>2. j \in Nat \ {0} /\ AttemptSound(attempts[j])
  <2>1. attempts \in Seq(Attempt)
    BY DEF HistorySound
  <2>2. j \in 1 .. Len(attempts)
    BY <2>1
  <2> QED
    BY <2>1, <2>2 DEF HistorySound
<1>3. d.payload.content = j
  BY <1>1, <1>2, SentIs
<1> QED
  BY <1>1, <1>2, <1>3
-----------------------------------------------------------------------------
(* Sending. *)

LEMMA InAllSent ==
  ASSUME NEW list
  PROVE  \A e : e \in AllSent(list) <=> \E j \in DOMAIN list : e \in Sent(list[j], j)
BY DEF AllSent

\* The history when an attempt is added.
LEMMA Appended ==
  ASSUME HistorySound, NEW a, AttemptSound(a), attempts' = Append(attempts, a)
  PROVE  /\ Len(attempts) \in Nat /\ Len(attempts') = Len(attempts) + 1
         /\ DOMAIN attempts = 1 .. Len(attempts)
         /\ DOMAIN attempts' = DOMAIN attempts \cup {Len(attempts')}
         /\ attempts' \in Seq(Attempt)
         /\ \A j \in DOMAIN attempts : attempts'[j] = attempts[j] /\ j <= Len(attempts)
         /\ attempts'[Len(attempts')] = a
         /\ AllSent(attempts') = AllSent(attempts) \cup Sent(a, Len(attempts'))
<1>1. attempts \in Seq(Attempt) /\ a \in Attempt
  BY DEF HistorySound, AttemptSound
<1>2. /\ Len(attempts) \in Nat /\ Len(attempts') = Len(attempts) + 1
      /\ attempts' \in Seq(Attempt)
      /\ DOMAIN attempts = 1 .. Len(attempts) /\ DOMAIN attempts' = 1 .. Len(attempts')
  BY <1>1
<1>3. /\ \A j \in 1 .. Len(attempts) : attempts'[j] = attempts[j]
      /\ attempts'[Len(attempts) + 1] = a
  BY <1>1
<1>4. 1 .. Len(attempts) + 1 = (1 .. Len(attempts)) \cup {Len(attempts) + 1}
  BY <1>2
<1>5. AllSent(attempts') = AllSent(attempts) \cup Sent(a, Len(attempts'))
  <2> DEFINE old == 1 .. Len(attempts)
             last == Len(attempts')
  <2>1. /\ DOMAIN attempts = old /\ DOMAIN attempts' = old \cup {last}
        /\ \A j \in old : attempts'[j] = attempts[j]
        /\ attempts'[last] = a
    BY <1>2, <1>3, <1>4
  <2> HIDE DEF old, last
  <2>2. \A e : e \in AllSent(attempts') <=>
               (\E j \in old : e \in Sent(attempts'[j], j)) \/ e \in Sent(attempts'[last], last)
    BY <2>1, InAllSent
  <2>3. \A e : e \in AllSent(attempts) <=> \E j \in old : e \in Sent(attempts[j], j)
    BY <2>1, InAllSent
  <2>4. \A e : e \in AllSent(attempts') <=> e \in AllSent(attempts) \/ e \in Sent(a, last)
    BY <2>1, <2>2, <2>3
  <2> QED
    BY <2>4 DEF last
<1> QED
  BY <1>2, <1>3, <1>4, <1>5

\* Ids less than a round apart differ, also across the wrap past 0.
LEMMA Ids ==
  ASSUME NEW k \in Nat, k <= MaximumFrameId
  PROVE  /\ IdAfter(k) \in FrameKey
         /\ k < MaximumFrameId =>
              /\ IF IdAfter(k) = MaximumFrameId THEN IdAfter(k + 1) = 1
                                                ELSE IdAfter(k + 1) = IdAfter(k) + 1
              /\ \A i \in 0 .. k - 1 : IdAfter(i) # IdAfter(k)
<1>1. /\ MaximumFrameId \in Nat \ {0} /\ FrameKey = 1 .. MaximumFrameId
      /\ FirstFrameId \in 1 .. MaximumFrameId
  BY SenderAssumption
<1>2. IdAfter(k) \in FrameKey
  BY <1>1 DEF IdAfter
<1>3. ASSUME k < MaximumFrameId
      PROVE  IF IdAfter(k) = MaximumFrameId THEN IdAfter(k + 1) = 1
                                            ELSE IdAfter(k + 1) = IdAfter(k) + 1
  BY <1>1, <1>3 DEF IdAfter
<1>4. ASSUME k < MaximumFrameId, NEW i \in 0 .. k - 1 PROVE IdAfter(i) # IdAfter(k)
  BY <1>1, <1>4 DEF IdAfter
<1> QED
  BY <1>2, <1>3, <1>4

LEMMA NextIdIsKey ==
  ASSUME HistorySound, NextIdFresh
  PROVE  m_nextFrameId \in FrameKey
<1>1. PICK k \in 0 .. Len(attempts) : m_nextFrameId = IdAfter(k)
  BY DEF NextIdFresh
<1>2. k \in Nat /\ k <= MaximumFrameId
  <2>1. Len(attempts) \in Nat /\ Len(attempts) <= SendBound
    BY DEF HistorySound
  <2> QED
    BY <2>1, SenderAssumption, IdsAssumption
<1> QED
  BY <1>1, <1>2, Ids

\* What sendEncodedFrame adds to the history.
LEMMA AttemptMade ==
  ASSUME LinkInv, NEW size \in FrameSizes, SendEncodedFrame(size)
  PROVE  \E a : /\ AttemptSound(a) /\ a.id = m_nextFrameId /\ a.timestampMs = now
               /\ attempts' = Append(attempts, a)
               /\ network' = network \cup Sent(a, Len(attempts) + 1)
               /\ m_nextFrameId' = IF Whole(a) THEN NextFrameId ELSE m_nextFrameId
<1> DEFINE n == Len(attempts) + 1
           datagrams == FragmentEncodedFrame(size, m_nextFrameId, now, n)
           count == Cardinality(DOMAIN datagrams)
<1>1. /\ size \in Nat /\ m_nextFrameId \in FrameKey /\ now \in Nat
      /\ attempts \in Seq(Attempt)
  BY SenderAssumption, NextIdIsKey DEF LinkInv, StoreInv, HistorySound
<1>2. PICK written \in 0 .. count :
        /\ network' = network \cup {datagrams[i] : i \in 0 .. written - 1}
        /\ attempts' = Append(attempts, [id |-> m_nextFrameId, timestampMs |-> now,
                                         size |-> size, count |-> count,
                                         written |-> written])
        /\ m_nextFrameId' = IF Whole(attempts'[Len(attempts')])
                            THEN NextFrameId ELSE m_nextFrameId
  BY DEF SendEncodedFrame
<1> DEFINE a == [id |-> m_nextFrameId, timestampMs |-> now, size |-> size,
                 count |-> count, written |-> written]
<1>3. count \in Nat /\ DOMAIN datagrams = 0 .. count - 1
  <2> DEFINE m == FragmentCount(size)
             sendable == size <= MaximumFrameSize /\ m <= MaximumFragmentCount
  <2>1. m \in Nat
    BY <1>1, Cut
  <2>2. DOMAIN datagrams = {j \in 0 .. m - 1 : sendable}
    BY DEF FragmentEncodedFrame
  <2> HIDE DEF m, datagrams
  <2>3. CASE sendable /\ m > 0
    <3>1. DOMAIN datagrams = 0 .. m - 1 /\ m \in Nat \ {0}
      BY <2>1, <2>2, <2>3
    <3> QED
      BY <3>1, IndexesCounted
  <2>4. CASE ~(sendable /\ m > 0)
    <3>1. DOMAIN datagrams = {}
      BY <2>1, <2>2, <2>4
    <3>2. 0 .. 0 - 1 = {}
      OBVIOUS
    <3> QED
      BY <3>1, <3>2, FS_EmptySet
  <2> QED
    BY <2>3, <2>4
<1> HIDE DEF count
<1>4. a \in Attempt /\ written <= count
  BY <1>1, <1>2, <1>3 DEF Attempt
<1>5. DOMAIN Datagrams(a, 0) = DOMAIN datagrams
  BY DEF Datagrams, FragmentEncodedFrame
<1>6. AttemptSound(a)
  BY <1>3, <1>4, <1>5 DEF AttemptSound
<1>7. attempts' = Append(attempts, a) /\ attempts'[Len(attempts')] = a
  BY <1>1, <1>2, <1>4
<1>8. Sent(a, n) = {datagrams[i] : i \in 0 .. written - 1}
  BY DEF Sent, Datagrams
<1>9. /\ AttemptSound(a) /\ a.id = m_nextFrameId /\ a.timestampMs = now
      /\ attempts' = Append(attempts, a)
      /\ network' = network \cup Sent(a, Len(attempts) + 1)
      /\ m_nextFrameId' = IF Whole(a) THEN NextFrameId ELSE m_nextFrameId
  BY <1>2, <1>6, <1>7, <1>8
<1> HIDE DEF a
<1> QED
  BY <1>9

LEMMA SendKeeps ==
  ASSUME LinkInv, NEW size \in FrameSizes, SendEncodedFrame(size)
  PROVE  LinkInv'
<1> DEFINE n == Len(attempts')
<1>1. /\ Len(attempts) < SendBound /\ SendBound \in Nat
      /\ \A j \in DOMAIN attempts : ~Whole(attempts[j]) => attempts[j].timestampMs < now
      /\ UNCHANGED <<vars, delivered, losses, duplicates>>
  BY SenderAssumption DEF SendEncodedFrame, faultVars
<1>2. /\ HistorySound /\ StoreInv /\ IdsApart /\ NextIdFresh /\ NothingTwice
      /\ Around \subseteq AllSent(attempts)
  BY DEF LinkInv
<1>3. PICK a : /\ AttemptSound(a) /\ a.id = m_nextFrameId /\ a.timestampMs = now
               /\ attempts' = Append(attempts, a)
               /\ network' = network \cup Sent(a, Len(attempts) + 1)
               /\ m_nextFrameId' = IF Whole(a) THEN NextFrameId ELSE m_nextFrameId
  BY AttemptMade
<1>4. /\ Len(attempts) \in Nat /\ n = Len(attempts) + 1 /\ n \in Nat
      /\ DOMAIN attempts = 1 .. Len(attempts)
      /\ DOMAIN attempts' = DOMAIN attempts \cup {n}
      /\ attempts' \in Seq(Attempt)
      /\ \A j \in DOMAIN attempts : attempts'[j] = attempts[j] /\ j <= Len(attempts)
      /\ attempts'[n] = a
      /\ AllSent(attempts') = AllSent(attempts) \cup Sent(a, n)
  BY <1>2, <1>3, Appended
<1>5. network' = network \cup Sent(a, n)
  BY <1>3, <1>4
<1> HIDE DEF n
<1>6. StoreInv' /\ HeldIn(m_pendingFrames)' = HeldIn(m_pendingFrames)
  BY <1>1, <1>2, OtherSteps DEF vars
<1>7. HistorySound'
  <2>1. \A j \in DOMAIN attempts' : AttemptSound(attempts'[j])
    BY <1>2, <1>3, <1>4 DEF HistorySound
  <2>2. \A j \in Range(delivered') : j \in DOMAIN attempts' /\ Whole(attempts'[j])
    BY <1>1, <1>2, <1>4 DEF HistorySound
  <2>3. Len(attempts') <= SendBound
    BY <1>1, <1>4 DEF n
  <2>4. delivered' \in Seq(Nat) /\ {losses', duplicates'} \subseteq Nat
    BY <1>1, <1>2 DEF HistorySound
  <2> QED
    BY <1>4, <2>1, <2>2, <2>3, <2>4 DEF HistorySound
<1>8. PICK k \in 0 .. Len(attempts) :
        /\ m_nextFrameId = IdAfter(k)
        /\ \A j \in DOMAIN attempts :
             Whole(attempts[j]) => \E i \in 0 .. k - 1 : attempts[j].id = IdAfter(i)
  BY <1>2 DEF NextIdFresh
<1>9. /\ k \in Nat /\ k < MaximumFrameId /\ MaximumFrameId \in Nat
      /\ IF IdAfter(k) = MaximumFrameId THEN IdAfter(k + 1) = 1
                                         ELSE IdAfter(k + 1) = IdAfter(k) + 1
      /\ \A i \in 0 .. k - 1 : IdAfter(i) # IdAfter(k)
  <2>1. k \in Nat /\ k < MaximumFrameId /\ MaximumFrameId \in Nat /\ k <= MaximumFrameId
    BY <1>1, <1>4, SenderAssumption, IdsAssumption
  <2> QED
    BY <2>1, Ids
<1>10. IdsApart'
  <2> SUFFICES ASSUME NEW i \in DOMAIN attempts', NEW j \in DOMAIN attempts', i < j,
                      attempts'[i].id = attempts'[j].id
               PROVE  /\ ~Whole(attempts'[i])
                      /\ attempts'[i].timestampMs < attempts'[j].timestampMs
    BY DEF IdsApart
  <2>1. CASE j \in DOMAIN attempts
    <3>1. i \in DOMAIN attempts
      BY <1>4, <2>1
    <3> QED
      BY <1>2, <1>4, <2>1, <3>1 DEF IdsApart
  <2>2. CASE j = n
    <3>1. i \in DOMAIN attempts /\ attempts'[i] = attempts[i]
      BY <1>4, <2>2
    <3>2. attempts[i].id = m_nextFrameId
      BY <1>3, <1>4, <2>2, <3>1
    <3>3. ~Whole(attempts[i])
      BY <1>8, <1>9, <3>1, <3>2
    <3> QED
      BY <1>1, <1>3, <1>4, <2>2, <3>1, <3>3
  <2> QED
    BY <1>4, <2>1, <2>2
<1>11. NextIdFresh'
  <2>1. m_nextFrameId' = IF Whole(a) THEN IdAfter(k + 1) ELSE IdAfter(k)
    BY <1>3, <1>8, <1>9 DEF NextFrameId
  <2> DEFINE next == IF Whole(a) THEN k + 1 ELSE k
  <2>2. next \in 0 .. Len(attempts') /\ m_nextFrameId' = IdAfter(next)
    BY <1>4, <1>8, <1>9, <2>1 DEF n
  <2>3. ASSUME NEW j \in DOMAIN attempts', Whole(attempts'[j])
        PROVE  \E i \in 0 .. next - 1 : attempts'[j].id = IdAfter(i)
    <3>1. CASE j \in DOMAIN attempts
      <4>1. PICK i \in 0 .. k - 1 : attempts[j].id = IdAfter(i)
        BY <1>4, <1>8, <2>3, <3>1
      <4>2. i \in 0 .. next - 1 /\ attempts'[j] = attempts[j]
        BY <1>4, <1>9, <3>1
      <4> QED
        BY <4>1, <4>2
    <3>2. CASE j = n
      <4>1. attempts'[j] = a /\ a.id = IdAfter(k) /\ Whole(a)
        BY <1>3, <1>4, <1>8, <2>3, <3>2
      <4>2. k \in 0 .. next - 1
        BY <1>9, <4>1
      <4> QED
        BY <4>1, <4>2
    <3> QED
      BY <1>4, <3>1, <3>2
  <2> HIDE DEF next
  <2> QED
    BY <2>2, <2>3 DEF NextIdFresh
<1>12. (Around \subseteq AllSent(attempts))'
  BY <1>2, <1>4, <1>5, <1>6 DEF Around
<1>13. Sent(a, n) \cap AllSent(attempts) = {}
  <2> SUFFICES ASSUME NEW d \in Sent(a, n), d \in AllSent(attempts) PROVE FALSE
    OBVIOUS
  <2>1. d.payload.content = n
    BY <1>3, <1>4, SentIs
  <2>2. d.payload.content \in DOMAIN attempts
    BY <1>2, SourceIs
  <2> QED
    BY <1>4, <2>1, <2>2
<1>14. NothingTwice'
  <2> SUFFICES ASSUME duplicates = 0 PROVE
        /\ network' \cap HeldIn(m_pendingFrames) = {}
        /\ \A j \in Range(delivered) :
             Sent(attempts'[j], j) \cap (network' \cup HeldIn(m_pendingFrames)) = {}
    BY <1>1, <1>6 DEF NothingTwice, Around
  <2>1. /\ network \cap HeldIn(m_pendingFrames) = {}
        /\ \A j \in Range(delivered) : Sent(attempts[j], j) \cap Around = {}
    BY <1>2 DEF NothingTwice
  <2>2. HeldIn(m_pendingFrames) \subseteq AllSent(attempts)
    BY <1>2 DEF Around
  <2>3. network' \cap HeldIn(m_pendingFrames) = {}
    BY <1>5, <1>13, <2>1, <2>2
  <2>4. ASSUME NEW j \in Range(delivered)
        PROVE  Sent(attempts'[j], j) \cap (network' \cup HeldIn(m_pendingFrames)) = {}
    <3>1. j \in DOMAIN attempts /\ attempts'[j] = attempts[j]
      BY <1>2, <1>4 DEF HistorySound
    <3>2. Sent(attempts[j], j) \subseteq AllSent(attempts)
      BY <3>1 DEF AllSent
    <3>3. Sent(attempts[j], j) \cap Sent(a, n) = {}
      BY <1>13, <3>2
    <3> QED
      BY <1>5, <2>1, <3>1, <3>3 DEF Around
  <2> QED
    BY <2>3, <2>4
<1> QED
  BY <1>6, <1>7, <1>10, <1>11, <1>12, <1>14 DEF LinkInv
-----------------------------------------------------------------------------
(* Receiving. *)

\* What has the same id and timestamp is of one attempt.
LEMMA NotMixed ==
  ASSUME HistorySound, IdsApart,
         NEW d \in AllSent(attempts), NEW e \in AllSent(attempts),
         d.key = e.key, d.timestampMs = e.timestampMs
  PROVE  d.payload.content = e.payload.content
<1> DEFINE i == d.payload.content
           j == e.payload.content
<1>1. /\ i \in DOMAIN attempts /\ i \in Nat /\ AttemptSound(attempts[i])
      /\ d \in Sent(attempts[i], i)
  BY SourceIs
<1>2. /\ j \in DOMAIN attempts /\ j \in Nat /\ AttemptSound(attempts[j])
      /\ e \in Sent(attempts[j], j)
  BY SourceIs
<1>3. d.key = attempts[i].id /\ d.timestampMs = attempts[i].timestampMs
  BY <1>1, SentIs
<1>4. e.key = attempts[j].id /\ e.timestampMs = attempts[j].timestampMs
  BY <1>2, SentIs
<1> HIDE DEF i, j
<1>5. /\ attempts[i].id = attempts[j].id
      /\ attempts[i].timestampMs = attempts[j].timestampMs
      /\ attempts[i].timestampMs \in Nat
  BY <1>1, <1>3, <1>4 DEF AttemptSound, Attempt
<1>6. ~(i < j) /\ ~(j < i)
  BY <1>1, <1>2, <1>5 DEF IdsApart
<1>7. i = j
  BY <1>1, <1>2, <1>6
<1> QED
  BY <1>7 DEF i, j

\* A frame made of what was sent is one attempt, written whole.
LEMMA CompletedIsSent ==
  ASSUME HistorySound, IdsApart, NEW d, NEW held, NEW frame, Delivers(frame, held, d),
         held \cup {d} \subseteq AllSent(attempts)
  PROVE  LET j == d.payload.content
         IN /\ j \in DOMAIN attempts /\ Whole(attempts[j]) /\ AttemptOf(frame) = j
            /\ Sent(attempts[j], j) \subseteq held \cup {d}
            /\ \A e \in Sent(attempts[j], j) : e.key = d.key
<1> DEFINE j == d.payload.content
           a == attempts[j]
           n == d.fragmentCount
<1>1. /\ j \in DOMAIN attempts /\ j \in Nat \ {0} /\ AttemptSound(a) /\ d \in Sent(a, j)
  BY SourceIs
<1>2. /\ d.key = a.id /\ d.timestampMs = a.timestampMs /\ d.frameSize = a.size
      /\ n = a.count /\ a.written > 0
      /\ \A e \in Sent(a, j) : e.key = a.id
  BY <1>1, SentIs
<1>3. /\ frame.key = d.key /\ frame.frameSize = d.frameSize
      /\ frame.timestampMs = d.timestampMs
      /\ DOMAIN frame.fragments = 0 .. n - 1
      /\ \A i \in 0 .. n - 1 : Piece(frame, n, i) \in held \cup {d}
  BY DEF Delivers
<1>4. a.count \in Nat /\ a.written \in Nat /\ a.written <= a.count
  BY <1>1 DEF AttemptSound, Attempt
<1> HIDE DEF j, a, n
<1>5. ASSUME NEW i \in 0 .. n - 1
      PROVE  LET e == Piece(frame, n, i)
             IN /\ e \in Sent(a, j) /\ e.payload.content = j
                /\ i \in 0 .. a.written - 1 /\ e = Datagrams(a, j)[i]
                /\ frame.fragments[i].content = j
  <2> DEFINE e == Piece(frame, n, i)
  <2>1. e \in AllSent(attempts)
    BY <1>3
  <2>2. /\ e.key = frame.key /\ e.timestampMs = frame.timestampMs
        /\ e.fragmentIndex = i /\ e.payload = frame.fragments[i]
    BY DEF Piece
  <2> HIDE DEF e
  <2>3. d \in AllSent(attempts) /\ e.key = d.key /\ e.timestampMs = d.timestampMs
    BY <1>3, <2>2
  <2>4. e.payload.content = j
    BY <2>1, <2>3, NotMixed DEF j
  <2>5. e \in Sent(a, j)
    BY <2>1, <2>4, SourceIs DEF a
  <2>6. e.fragmentIndex \in 0 .. a.written - 1 /\ e = Datagrams(a, j)[e.fragmentIndex]
    BY <1>1, <2>5, SentIs
  <2> QED
    BY <2>2, <2>4, <2>5, <2>6 DEF e
<1>6. a.written = a.count /\ a.count > 0
  <2>1. a.count - 1 \in 0 .. n - 1
    BY <1>2, <1>4
  <2>2. a.count - 1 \in 0 .. a.written - 1
    BY <1>5, <2>1
  <2> QED
    BY <1>2, <1>4, <2>2
<1>7. Whole(a)
  BY <1>6 DEF Whole
<1>8. Sent(a, j) \subseteq held \cup {d}
  <2> SUFFICES ASSUME NEW e \in Sent(a, j) PROVE e \in held \cup {d}
    OBVIOUS
  <2>1. PICK i \in 0 .. a.written - 1 : e = Datagrams(a, j)[i]
    BY DEF Sent
  <2>2. i \in 0 .. n - 1
    BY <1>2, <1>6
  <2>3. e = Piece(frame, n, i)
    BY <1>5, <2>1, <2>2
  <2> QED
    BY <1>3, <2>2, <2>3
<1>9. AttemptOf(frame) = j
  <2> DEFINE candidates ==
        {k \in DOMAIN attempts :
           /\ [id |-> attempts[k].id, size |-> attempts[k].size,
               timestampMs |-> attempts[k].timestampMs]
                = [id |-> frame.key, size |-> frame.frameSize,
                   timestampMs |-> frame.timestampMs]
           /\ \A i \in DOMAIN frame.fragments : frame.fragments[i].content = k}
  <2>1. j \in candidates
    BY <1>1, <1>2, <1>3, <1>5 DEF a
  <2>2. 0 \in DOMAIN frame.fragments
    BY <1>2, <1>3, <1>4, <1>6
  <2>3. \A k \in candidates : k = j
    BY <1>3, <1>5, <2>2
  <2>4. AttemptOf(frame) = IF candidates = {} THEN 0 ELSE CHOOSE k \in candidates : TRUE
    BY DEF AttemptOf
  <2> HIDE DEF candidates
  <2>5. (CHOOSE k \in candidates : TRUE) \in candidates
    BY <2>1
  <2> QED
    BY <2>1, <2>3, <2>4, <2>5
<1>10. \A e \in Sent(a, j) : e.key = d.key
  BY <1>2
<1> QED
  BY <1>1, <1>7, <1>8, <1>9, <1>10 DEF a, j

\* What the receiver does with a datagram that is under way: either nothing is
\* delivered, or the frame of the attempt j whose datagrams it held.
LEMMA TurnOf ==
  ASSUME LinkInv, NEW d \in network, ReadDatagram(d)
  PROVE  /\ StoreInv' /\ UNCHANGED <<attempts, m_nextFrameId>>
         /\ HeldIn(m_pendingFrames') \subseteq HeldIn(m_pendingFrames) \cup {d}
         /\ \/ delivered' = delivered
            \/ \E j \in DOMAIN attempts :
                 /\ delivered' = Append(delivered, j) /\ Whole(attempts[j])
                 /\ d \in Sent(attempts[j], j)
                 /\ Sent(attempts[j], j) \subseteq HeldIn(m_pendingFrames) \cup {d}
                 /\ Sent(attempts[j], j) \cap HeldIn(m_pendingFrames') = {}
<1>1. /\ HistorySound /\ StoreInv /\ IdsApart
      /\ d \in AllSent(attempts) /\ HeldIn(m_pendingFrames) \subseteq AllSent(attempts)
  BY DEF LinkInv, Around
<1> DEFINE j == d.payload.content
<1>2. /\ j \in DOMAIN attempts /\ j \in Nat /\ AttemptSound(attempts[j])
      /\ d \in Sent(attempts[j], j)
  BY <1>1, SourceIs
<1>3. Parsable(d) /\ Valid(d)
  BY <1>2, SentIs
<1>4. /\ AddDatagram(d) /\ UNCHANGED <<attempts, m_nextFrameId>>
      /\ delivered' = IF result' = "Completed"
                      THEN Append(delivered, AttemptOf(completedFrame')) ELSE delivered
  BY <1>3 DEF ReadDatagram, senderVars
<1>5. /\ StoreInv'
      /\ HeldIn(m_pendingFrames') \subseteq HeldIn(m_pendingFrames) \cup {d}
      /\ result' = "Completed" =>
           /\ Delivers(completedFrame', HeldIn(m_pendingFrames), d)
           /\ \A e \in HeldIn(m_pendingFrames') : e.key # d.key
  BY <1>1, <1>3, <1>4, AddDatagramStep
<1> HIDE DEF j
<1>6. CASE result' = "Completed"
  <2>1. /\ Whole(attempts[j]) /\ AttemptOf(completedFrame') = j
        /\ Sent(attempts[j], j) \subseteq HeldIn(m_pendingFrames) \cup {d}
        /\ \A e \in Sent(attempts[j], j) : e.key = d.key
    BY <1>1, <1>5, <1>6, CompletedIsSent DEF j
  <2>2. Sent(attempts[j], j) \cap HeldIn(m_pendingFrames') = {}
    BY <1>5, <1>6, <2>1
  <2>3. delivered' = Append(delivered, j)
    BY <1>4, <1>6, <2>1
  <2> QED
    BY <1>2, <1>4, <1>5, <2>1, <2>2, <2>3
<1>7. CASE result' # "Completed"
  BY <1>4, <1>5, <1>7
<1> QED
  BY <1>6, <1>7

LEMMA RangeOfAppend ==
  ASSUME NEW list \in Seq(Nat), NEW x \in Nat
  PROVE  /\ Append(list, x) \in Seq(Nat)
         /\ Range(Append(list, x)) = Range(list) \cup {x}
<1> DEFINE longer == Append(list, x)
<1>1. /\ longer \in Seq(Nat) /\ Len(list) \in Nat /\ Len(longer) = Len(list) + 1
      /\ DOMAIN list = 1 .. Len(list) /\ DOMAIN longer = 1 .. Len(longer)
      /\ \A i \in 1 .. Len(list) : longer[i] = list[i]
      /\ longer[Len(list) + 1] = x
  OBVIOUS
<1>2. DOMAIN longer = DOMAIN list \cup {Len(list) + 1}
  BY <1>1
<1> HIDE DEF longer
<1>3. Range(longer) = Range(list) \cup {x}
  BY <1>1, <1>2 DEF Range
<1> QED
  BY <1>1, <1>3 DEF longer

\* The history is not touched, but for what is delivered.
LEMMA HistoryGrows ==
  ASSUME HistorySound, attempts' = attempts, {losses', duplicates'} \subseteq Nat,
         delivered' = delivered
           \/ \E j \in DOMAIN attempts : delivered' = Append(delivered, j) /\ Whole(attempts[j])
  PROVE  HistorySound'
<1>1. delivered \in Seq(Nat)
  BY DEF HistorySound
<1>2. DOMAIN attempts \subseteq Nat
  <2>1. attempts \in Seq(Attempt)
    BY DEF HistorySound
  <2>2. DOMAIN attempts = 1 .. Len(attempts) /\ Len(attempts) \in Nat
    BY <2>1
  <2> QED
    BY <2>2
<1>3. /\ delivered' \in Seq(Nat)
      /\ \A j \in Range(delivered') : j \in DOMAIN attempts /\ Whole(attempts[j])
  <2>1. CASE delivered' = delivered
    BY <2>1 DEF HistorySound
  <2>2. ASSUME NEW j \in DOMAIN attempts, delivered' = Append(delivered, j), Whole(attempts[j])
        PROVE  /\ delivered' \in Seq(Nat)
               /\ \A i \in Range(delivered') : i \in DOMAIN attempts /\ Whole(attempts[i])
    <3>1. delivered' \in Seq(Nat) /\ Range(delivered') \subseteq Range(delivered) \cup {j}
      BY <1>1, <1>2, <2>2, RangeOfAppend
    <3> QED
      BY <2>2, <3>1 DEF HistorySound
  <2> QED
    BY <2>1, <2>2
<1> QED
  BY <1>3 DEF HistorySound

LEMMA ArriveKeeps ==
  ASSUME LinkInv, Arrive \/ ArriveAndRepeat PROVE LinkInv'
<1>1. PICK d \in network :
        /\ ReadDatagram(d) /\ losses' = losses
        /\ \/ network' = network \ {d} /\ duplicates' = duplicates
           \/ network' = network /\ duplicates' = duplicates + 1
  BY DEF Arrive, ArriveAndRepeat, faultVars
<1>2. /\ HistorySound /\ IdsApart /\ NextIdFresh /\ NothingTwice
      /\ Around \subseteq AllSent(attempts) /\ losses \in Nat /\ duplicates \in Nat
  BY DEF LinkInv, HistorySound
<1>3. /\ StoreInv' /\ UNCHANGED <<attempts, m_nextFrameId>>
      /\ HeldIn(m_pendingFrames') \subseteq HeldIn(m_pendingFrames) \cup {d}
  BY <1>1, TurnOf
<1>4. \/ delivered' = delivered
      \/ \E j \in DOMAIN attempts :
           /\ delivered' = Append(delivered, j) /\ Whole(attempts[j])
           /\ d \in Sent(attempts[j], j)
           /\ Sent(attempts[j], j) \subseteq HeldIn(m_pendingFrames) \cup {d}
           /\ Sent(attempts[j], j) \cap HeldIn(m_pendingFrames') = {}
  BY <1>1, TurnOf
<1>5. HistorySound'
  <2>1. {losses', duplicates'} \subseteq Nat
    BY <1>1, <1>2
  <2>2. delivered' = delivered
          \/ \E j \in DOMAIN attempts : delivered' = Append(delivered, j) /\ Whole(attempts[j])
    BY <1>4
  <2> QED
    BY <1>2, <1>3, <2>1, <2>2, HistoryGrows
<1>6. IdsApart' /\ NextIdFresh'
  BY <1>2, <1>3 DEF IdsApart, NextIdFresh
<1>7. (Around \subseteq AllSent(attempts))'
  BY <1>1, <1>2, <1>3 DEF Around
<1>8. NothingTwice'
  <2> SUFFICES ASSUME duplicates' = 0
               PROVE  /\ network' \cap HeldIn(m_pendingFrames') = {}
                      /\ \A j \in Range(delivered') :
                           Sent(attempts[j], j) \cap (network' \cup HeldIn(m_pendingFrames')) = {}
    BY <1>3 DEF NothingTwice, Around
  <2>1. network' = network \ {d} /\ duplicates = 0
    BY <1>1, <1>2
  <2>2. /\ network \cap HeldIn(m_pendingFrames) = {}
        /\ \A j \in Range(delivered) :
             Sent(attempts[j], j) \cap (network \cup HeldIn(m_pendingFrames)) = {}
    BY <1>2, <2>1 DEF NothingTwice, Around
  <2>3. /\ network' \cup HeldIn(m_pendingFrames') \subseteq network \cup HeldIn(m_pendingFrames)
        /\ network' \cap (HeldIn(m_pendingFrames) \cup {d}) = {}
    BY <1>3, <2>1, <2>2
  <2>4. \A j \in Range(delivered) :
          Sent(attempts[j], j) \cap (network' \cup HeldIn(m_pendingFrames')) = {}
    BY <2>2, <2>3
  <2>5. ASSUME NEW j \in DOMAIN attempts, delivered' = Append(delivered, j),
               Sent(attempts[j], j) \subseteq HeldIn(m_pendingFrames) \cup {d},
               Sent(attempts[j], j) \cap HeldIn(m_pendingFrames') = {}
        PROVE  \A i \in Range(delivered') :
                 Sent(attempts[i], i) \cap (network' \cup HeldIn(m_pendingFrames')) = {}
    <3>1. Range(delivered') \subseteq Range(delivered) \cup {j}
      BY <1>2, <2>5, RangeOfAppend DEF HistorySound
    <3>2. Sent(attempts[j], j) \cap (network' \cup HeldIn(m_pendingFrames')) = {}
      BY <2>3, <2>5
    <3> QED
      BY <2>4, <3>1, <3>2
  <2>6. \A j \in Range(delivered') :
          Sent(attempts[j], j) \cap (network' \cup HeldIn(m_pendingFrames')) = {}
    BY <1>4, <2>4, <2>5
  <2> QED
    BY <1>3, <2>3, <2>6
<1> QED
  BY <1>3, <1>5, <1>6, <1>7, <1>8 DEF LinkInv

\* Nothing new is around and nothing is delivered.
LEMMA OthersKeep ==
  ASSUME LinkInv, Lose \/ CloseReceiver \/ Timing \/ UNCHANGED linkVars PROVE LinkInv'
<1>1. /\ HistorySound /\ StoreInv /\ IdsApart /\ NextIdFresh /\ NothingTwice
      /\ Around \subseteq AllSent(attempts) /\ losses \in Nat /\ duplicates \in Nat
  BY DEF LinkInv, HistorySound
<1>2. /\ network' \subseteq network /\ UNCHANGED <<senderVars, delivered, duplicates>>
      /\ losses' \in {losses, losses + 1}
      /\ RemoveExpiredFrames \/ Clear \/ TimePasses \/ UNCHANGED vars
  BY DEF Lose, CloseReceiver, Timing, linkVars, faultVars
<1>3. StoreInv' /\ HeldIn(m_pendingFrames') \subseteq HeldIn(m_pendingFrames)
  BY <1>1, <1>2, OtherSteps
<1>4. Around' \subseteq Around
  BY <1>2, <1>3 DEF Around
<1>5. HistorySound'
  BY <1>1, <1>2, HistoryGrows DEF senderVars
<1>6. IdsApart' /\ NextIdFresh'
  BY <1>1, <1>2 DEF senderVars, IdsApart, NextIdFresh
<1>7. (Around \subseteq AllSent(attempts))'
  BY <1>1, <1>2, <1>4 DEF senderVars
<1>8. NothingTwice'
  BY <1>1, <1>2, <1>3, <1>4 DEF senderVars, NothingTwice
<1> QED
  BY <1>3, <1>5, <1>6, <1>7, <1>8 DEF LinkInv
-----------------------------------------------------------------------------
(* The theorems. *)

LEMMA LinkInitInv == LinkInit => LinkInv
<1> SUFFICES ASSUME LinkInit PROVE LinkInv
  OBVIOUS
<1>1. /\ Init /\ m_nextFrameId = FirstFrameId /\ network = {} /\ attempts = <<>> /\ delivered = <<>>
      /\ losses = 0 /\ duplicates = 0
  BY DEF LinkInit
<1>2. StoreInv /\ HeldIn(m_pendingFrames) = {}
  BY <1>1, InitStore
<1>3. DOMAIN attempts = {} /\ Len(attempts) = 0 /\ Range(delivered) = {}
  BY <1>1 DEF Range
<1>4. HistorySound
  BY <1>1, <1>3, SenderAssumption DEF HistorySound
<1>5. IdsApart /\ NextIdFresh
  <2>1. IdAfter(0) = FirstFrameId
    BY SenderAssumption DEF IdAfter
  <2> QED
    BY <1>1, <1>3, <2>1 DEF IdsApart, NextIdFresh
<1>6. NothingTwice /\ Around = {}
  BY <1>1, <1>2, <1>3 DEF NothingTwice, Around
<1> QED
  BY <1>2, <1>4, <1>5, <1>6 DEF LinkInv

LEMMA LinkInvariance == LinkSpec => []LinkInv
<1>1. LinkInv /\ [LinkNext]_linkVars => LinkInv'
  BY SendKeeps, ArriveKeeps, OthersKeep DEF LinkNext
<1> QED
  BY <1>1, LinkInitInv, PTL DEF LinkSpec

\* What the sender makes of a frame of whatever size, the parser at the other end
\* lets through (videopacketprotocol.cpp: fragmentEncodedFrame and
\* parseVideoFragment agree).
THEOREM AllIsParsable == LinkSpec => []SentIsParsable
<1>1. LinkInv => SentIsParsable
  <2> SUFFICES ASSUME LinkInv, NEW d \in network PROVE Parsable(d) /\ d.key \in FrameKey
    BY DEF SentIsParsable
  <2> DEFINE j == d.payload.content
  <2>1. /\ j \in Nat /\ AttemptSound(attempts[j]) /\ d \in Sent(attempts[j], j)
    BY SourceIs DEF LinkInv, Around
  <2>2. Parsable(d) /\ Valid(d)
    BY <2>1, SentIs
  <2> QED
    BY <2>2, ValidFields
<1> QED
  BY <1>1, LinkInvariance, PTL

\* A frame handed in, written whole or not.
LEMMA SendIsSend ==
  ASSUME LinkInv, NEW size \in FrameSizes, SendEncodedFrame(size) PROVE Channel!Send
<1> DEFINE written == {j \in DOMAIN attempts : Whole(attempts[j])}
           n == Len(attempts')
<1>1. UNCHANGED <<delivered, duplicates>> /\ HistorySound
  BY DEF SendEncodedFrame, faultVars, LinkInv
<1>2. PICK a : AttemptSound(a) /\ attempts' = Append(attempts, a)
  BY AttemptMade
<1>3. /\ n = Len(attempts) + 1 /\ DOMAIN attempts' = DOMAIN attempts \cup {n}
      /\ \A j \in DOMAIN attempts : attempts'[j] = attempts[j]
      /\ attempts'[n] = a
  BY <1>1, <1>2, Appended
<1> HIDE DEF n
<1>4. written' \in {written, written \cup {n}}
  <2>1. CASE Whole(a)
    <3>1. written' = written \cup {n}
      BY <1>3, <2>1
    <3> QED
      BY <3>1
  <2>2. CASE ~Whole(a)
    <3>1. \A j \in DOMAIN attempts' :
            Whole(attempts'[j]) <=> j \in DOMAIN attempts /\ Whole(attempts[j])
      BY <1>3, <2>2
    <3> QED
      BY <1>3, <3>1
  <2> QED
    BY <2>1, <2>2
<1> QED
  BY <1>1, <1>3, <1>4 DEF Channel!Send, n

\* A datagram that arrives completes a frame or leaves the channel as it is, but
\* for the network having repeated it.
LEMMA ArriveIsReceive ==
  ASSUME LinkInv, Arrive \/ ArriveAndRepeat PROVE [Channel!Next]_Channel!vars
<1> DEFINE written == {j \in DOMAIN attempts : Whole(attempts[j])}
<1>1. PICK d \in network :
        /\ ReadDatagram(d)
        /\ duplicates' = duplicates \/ duplicates' = duplicates + 1
  BY DEF Arrive, ArriveAndRepeat, faultVars
<1>2. /\ NothingTwice /\ duplicates \in Nat /\ d \in Around
  BY DEF LinkInv, HistorySound, Around
<1>3. attempts' = attempts /\ written' = written
  BY <1>1, TurnOf
<1>4. (duplicates' > 0) \in {duplicates > 0, TRUE}
  <2>1. CASE duplicates' = duplicates
    BY <2>1
  <2>2. CASE duplicates' = duplicates + 1
    <3>1. (duplicates' > 0) = TRUE
      BY <1>2, <2>2
    <3> QED
      BY <3>1
  <2> QED
    BY <1>1, <2>1, <2>2
<1>5. CASE delivered' = delivered
  <2>1. CASE duplicates' = duplicates
    BY <1>3, <1>5, <2>1 DEF Channel!vars
  <2>2. CASE duplicates' = duplicates + 1
    <3>1. (duplicates' > 0) = TRUE
      BY <1>2, <2>2
    <3> QED
      BY <1>3, <1>5, <3>1 DEF Channel!Next, Channel!Repeat
  <2> QED
    BY <1>1, <2>1, <2>2
<1>6. ASSUME NEW j \in DOMAIN attempts, delivered' = Append(delivered, j),
             Whole(attempts[j]), d \in Sent(attempts[j], j)
      PROVE  Channel!Next
  <2>1. j \in written
    BY <1>6
  <2>2. j \in Channel!Range(delivered) => duplicates > 0
    <3>1. Channel!Range(delivered) = Range(delivered)
      BY DEF Range, Channel!Range
    <3> QED
      BY <1>2, <1>6, <3>1 DEF NothingTwice
  <2>3. Channel!Receive(j)
    BY <1>3, <1>4, <1>6, <2>1, <2>2 DEF Channel!Receive
  <2> QED
    BY <2>1, <2>3 DEF Channel!Next
<1> QED
  BY <1>1, <1>5, <1>6, TurnOf

\* Sender, network and receiver are a channel of frames: what is delivered was
\* written whole, is delivered as it was, and twice only if the network repeats.
THEOREM LinkIsChannel == LinkSpec => ImplementsChannel
<1>1. LinkInit => Channel!Init
  BY DEF LinkInit, Channel!Init
<1>2. LinkInv /\ [LinkNext]_linkVars => [Channel!Next]_Channel!vars
  <2> SUFFICES ASSUME LinkInv, [LinkNext]_linkVars PROVE [Channel!Next]_Channel!vars
    OBVIOUS
  <2>1. ASSUME NEW size \in FrameSizes, SendEncodedFrame(size) PROVE Channel!Send
    BY <2>1, SendIsSend
  <2>2. CASE Arrive \/ ArriveAndRepeat
    BY <2>2, ArriveIsReceive
  <2>3. CASE Lose \/ CloseReceiver \/ Timing \/ UNCHANGED linkVars
    <3>1. UNCHANGED <<attempts, delivered, duplicates>>
      BY <2>3 DEF Lose, CloseReceiver, Timing, linkVars, senderVars, faultVars
    <3> QED
      BY <3>1 DEF Channel!vars
  <2> QED
    BY <2>1, <2>2, <2>3 DEF LinkNext, Channel!Next
<1> QED
  BY <1>1, <1>2, LinkInvariance, PTL DEF LinkSpec, ImplementsChannel, Channel!Spec
-----------------------------------------------------------------------------
(* The payloads of a frame add up to the frame. *)

LEMMA Quotient ==
  ASSUME NEW a \in Nat, NEW m \in Nat \ {0}
  PROVE  /\ a \div m \in Nat /\ (a % m) \in 0 .. m - 1
         /\ a = (a \div m) * m + (a % m)
<1>1. a \div m \in Nat
  BY SMTT(30)
<1>2. (a % m) \in 0 .. m - 1
  BY SMTT(30)
<1>3. a = (a \div m) * m + (a % m)
  BY SMTT(30)
<1> QED
  BY <1>1, <1>2, <1>3

LEMMA Remainder ==
  ASSUME NEW k \in Nat, NEW r \in Nat, NEW m \in Nat, r < m
  PROVE  (k * m + r) % m = r /\ (k * m + r) \div m = k
<1>1. m > 0 /\ r + m * k = k * m + r
  OBVIOUS
<1>2. (r + m * k) % m = r
  BY <1>1, SMTT(30)
<1>3. (r + m * k) \div m = k
  BY <1>1, SMTT(30)
<1> QED
  BY <1>1, <1>2, <1>3

\* Byte x of a frame is in payload (x - 1) \div MaximumPayloadSize.
LEMMA Position ==
  ASSUME NEW size \in Nat, NEW x \in 1 .. size
  PROVE  LET q == (x - 1) \div MaximumPayloadSize
             r == (x - 1) % MaximumPayloadSize
         IN /\ q \in 0 .. FragmentCount(size) - 1
            /\ r + 1 \in 1 .. PayloadLength(size, q)
            /\ x = q * MaximumPayloadSize + r + 1
<1> DEFINE m == MaximumPayloadSize
           n == FragmentCount(size)
           q == (x - 1) \div m
           r == (x - 1) % m
<1>1. m \in Nat \ {0} /\ x - 1 \in Nat
  BY SenderAssumption
<1>2. q \in Nat /\ r \in 0 .. m - 1 /\ x - 1 = q * m + r
  BY <1>1, Quotient
<1>3. size + m - 1 \in Nat /\ n = (size + m - 1) \div m
  BY <1>1 DEF FragmentCount
<1>4. n \in Nat /\ size + m - 1 < n * m + m
  BY <1>1, <1>3, Division
<1>5. PayloadLength(size, q) = IF size - q * m < m THEN size - q * m ELSE m
  BY DEF PayloadLength
<1> HIDE DEF m, n, q, r
<1>6. q < n
  <2> SUFFICES ASSUME n <= q PROVE FALSE
    BY <1>2, <1>4
  <2>1. n * m <= q * m /\ n * m \in Nat /\ q * m \in Nat
    BY <1>1, <1>2, <1>4, Monotone
  <2> DEFINE u == n * m
             v == q * m
  <2>2. u <= v /\ u \in Nat /\ v \in Nat /\ size + m - 1 < u + m /\ x - 1 = v + r
    BY <1>2, <1>4, <2>1
  <2> HIDE DEF u, v
  <2> QED
    BY <1>1, <1>2, <2>2
<1>7. r + 1 \in 1 .. PayloadLength(size, q) /\ x = q * m + r + 1
  <2> DEFINE v == q * m
  <2>1. /\ v \in Nat /\ x - 1 = v + r
        /\ PayloadLength(size, q) = IF size - v < m THEN size - v ELSE m
    BY <1>1, <1>2, <1>5
  <2> HIDE DEF v
  <2>2. r + 1 \in 1 .. PayloadLength(size, q) /\ x = v + r + 1
    BY <1>1, <1>2, <2>1
  <2> QED
    BY <2>2 DEF v
<1>8. q \in 0 .. n - 1
  BY <1>2, <1>4, <1>6
<1> QED
  BY <1>7, <1>8 DEF m, n, q, r

\* The lengths of the payloads I of a frame.
Lengths(size, I) == [i \in I |-> PayloadLength(size, i)]

LEMMA LengthsAreNat ==
  ASSUME NEW size \in Nat, NEW I \in SUBSET (0 .. FragmentCount(size) - 1)
  PROVE  IsFiniteSet(I) /\ Lengths(size, I) \in [I -> Nat] /\ Total(Lengths(size, I)) \in Nat
<1>1. FragmentCount(size) \in Nat
  BY Cut
<1>2. IsFiniteSet(0 .. FragmentCount(size) - 1)
  <2>1. 0 \in Int /\ FragmentCount(size) - 1 \in Int
    BY <1>1
  <2> QED
    BY <2>1, FS_Interval
<1>3. IsFiniteSet(I)
  BY <1>2, FS_Subset
<1>4. \A i \in I : PayloadLength(size, i) \in Nat
  <2> SUFFICES ASSUME NEW i \in I PROVE PayloadLength(size, i) \in Nat
    OBVIOUS
  <2>1. PayloadLength(size, i) \in 1 .. MaximumPayloadSize
    BY Cut
  <2> QED
    BY <2>1, SenderAssumption
<1>5. Lengths(size, I) \in [I -> Nat]
  BY <1>4 DEF Lengths
<1> QED
  BY <1>3, <1>5, TotalIsNat

\* The units of the sum are the bytes of the frame.
LEMMA LengthsAddUp ==
  ASSUME NEW size \in Nat
  PROVE  Total(Lengths(size, 0 .. FragmentCount(size) - 1)) = size
<1> DEFINE m == MaximumPayloadSize
           all == 0 .. FragmentCount(size) - 1
           units == Units(Lengths(size, all))
           place == [x \in 1 .. size |-> <<(x - 1) \div m, ((x - 1) % m) + 1>>]
<1>1. m \in Nat \ {0}
  BY SenderAssumption
<1>2. \A u : u \in units <=> \E i \in all : u \in {i} \X (1 .. PayloadLength(size, i))
  BY DEF Units, Lengths
<1> HIDE DEF units
<1>3. ASSUME NEW x \in 1 .. size PROVE place[x] \in units
  <2> DEFINE q == (x - 1) \div m
             r == (x - 1) % m
  <2>1. q \in all /\ r + 1 \in 1 .. PayloadLength(size, q) /\ place[x] = <<q, r + 1>>
    BY Position
  <2> HIDE DEF q, r
  <2> QED
    BY <1>2, <2>1
<1>4. ASSUME NEW x \in 1 .. size, NEW y \in 1 .. size, place[x] = place[y] PROVE x = y
  <2>1. /\ x = ((x - 1) \div m) * m + ((x - 1) % m) + 1
        /\ y = ((y - 1) \div m) * m + ((y - 1) % m) + 1
    BY Position
  <2>2. (x - 1) \div m = (y - 1) \div m /\ ((x - 1) % m) + 1 = ((y - 1) % m) + 1
    BY <1>4
  <2> DEFINE qx == (x - 1) \div m
             qy == (y - 1) \div m
             rx == (x - 1) % m
             ry == (y - 1) % m
  <2>3. rx \in Int /\ ry \in Int /\ qx \in Int
    <3>1. x - 1 \in Nat /\ y - 1 \in Nat
      OBVIOUS
    <3> QED
      BY <1>1, <3>1, Quotient
  <2>4. x = qx * m + rx + 1 /\ y = qy * m + ry + 1 /\ qx = qy /\ rx + 1 = ry + 1
    BY <2>1, <2>2
  <2> HIDE DEF qx, qy, rx, ry
  <2> QED
    BY <2>3, <2>4
<1>5. ASSUME NEW u \in units PROVE \E x \in 1 .. size : place[x] = u
  <2>1. PICK i \in all : u \in {i} \X (1 .. PayloadLength(size, i))
    BY <1>2
  <2>2. PICK k \in 1 .. PayloadLength(size, i) : u = <<i, k>>
    BY <2>1
  <2>3. i * m \in Nat /\ i * m < size /\ i \in Nat /\ PayloadLength(size, i) \in 1 .. m
    BY Cut
  <2>4. PayloadLength(size, i) = IF size - i * m < m THEN size - i * m ELSE m
    BY DEF PayloadLength
  <2> DEFINE p == i * m
             x == p + k
  <2>5. p \in Nat /\ p < size /\ k \in 1 .. m
        /\ PayloadLength(size, i) = IF size - p < m THEN size - p ELSE m
    BY <1>1, <2>3, <2>4
  <2>6. x \in 1 .. size /\ x - 1 = p + (k - 1) /\ k - 1 \in Nat /\ k - 1 < m
    <3> HIDE DEF p
    <3> QED
      BY <1>1, <2>5
  <2>7. (p + (k - 1)) \div m = i /\ (p + (k - 1)) % m = k - 1
    BY <1>1, <2>3, <2>6, Remainder
  <2> HIDE DEF x
  <2>8. place[x] = <<i, k - 1 + 1>>
    BY <2>6, <2>7
  <2>9. k - 1 + 1 = k
    BY <2>5
  <2> QED
    BY <2>2, <2>6, <2>8, <2>9
<1>6. place \in [1 .. size -> units]
  BY <1>3
<1> HIDE DEF place
<1>7. place \in Bijection(1 .. size, units)
  BY <1>4, <1>5, <1>6 DEF Bijection, Injection, IsInjective, Surjection
<1>8. IsFiniteSet(1 .. size) /\ Cardinality(1 .. size) = size
  <2>1. 1 \in Int /\ size \in Int
    OBVIOUS
  <2>2. IsFiniteSet(1 .. size) /\ Cardinality(1 .. size) = IF 1 > size THEN 0 ELSE size - 1 + 1
    BY <2>1, FS_Interval
  <2> QED
    BY <2>2
<1>9. Cardinality(units) = size
  <2>1. ExistsBijection(1 .. size, units)
    BY <1>7 DEF ExistsBijection
  <2> QED
    BY <1>8, <2>1, FS_Bijection
<1> QED
  BY <1>9 DEF Total, Units, units

\* A payload that is missing has room in what is declared.
LEMMA LengthsLeaveRoom ==
  ASSUME NEW size \in Nat, NEW I \in SUBSET (0 .. FragmentCount(size) - 1),
         NEW i \in 0 .. FragmentCount(size) - 1, i \notin I
  PROVE  Total(Lengths(size, I)) + PayloadLength(size, i) <= size
<1> DEFINE all == 0 .. FragmentCount(size) - 1
           J == I \cup {i}
           rest == all \ J
           f == Lengths(size, all)
           g == Lengths(size, J)
<1>1. /\ J \in SUBSET all /\ rest \in SUBSET all /\ all \in SUBSET all
      /\ J \cup rest = all /\ J \cap rest = {}
  OBVIOUS
<1>2. /\ IsFiniteSet(I) /\ IsFiniteSet(J) /\ IsFiniteSet(rest)
      /\ f \in [all -> Nat] /\ g \in [J -> Nat]
      /\ Total(g) \in Nat /\ Total(Lengths(size, rest)) \in Nat
      /\ Total(Lengths(size, I)) \in Nat
  BY <1>1, LengthsAreNat
<1>3. /\ [k \in J |-> f[k]] = g /\ [k \in rest |-> f[k]] = Lengths(size, rest)
      /\ [k \in I |-> g[k]] = Lengths(size, I) /\ g[i] = PayloadLength(size, i)
  BY <1>1 DEF Lengths
<1>4. Total(f) = size
  BY LengthsAddUp
<1> HIDE DEF f, g, rest, all
<1>5. Total(f) = Total(g) + Total(Lengths(size, rest))
  <2> HIDE DEF J
  <2>1. f \in [J \cup rest -> Nat]
    BY <1>1, <1>2
  <2>2. IsFiniteSet(J) /\ IsFiniteSet(rest) /\ J \cap rest = {}
    BY <1>1, <1>2
  <2>3. Total(f) = Total([k \in J |-> f[k]]) + Total([k \in rest |-> f[k]])
    BY <2>1, <2>2, TotalOfParts, SMTT(30)
  <2> QED
    BY <1>3, <2>3
<1>6. Total(g) = Total(Lengths(size, I)) + PayloadLength(size, i)
  <2>1. Total(g) = Total([k \in I |-> g[k]]) + g[i]
    BY <1>2, TotalWithOne
  <2> QED
    BY <1>3, <2>1
<1> DEFINE whole == Total(f)
           part == Total(g)
           left == Total(Lengths(size, rest))
<1>7. part \in Nat /\ left \in Nat /\ whole = part + left /\ whole = size
  BY <1>2, <1>4, <1>5
<1>8. part <= size
  <2> HIDE DEF whole, part, left
  <2> QED
    BY <1>7
<1> QED
  BY <1>6, <1>8
-----------------------------------------------------------------------------
(* A receiver with room for everything. *)

\* As every frame is within its limit, so are all together.
LEMMA BytesBounded ==
  ASSUME NEW store, StoreSound(store)
  PROVE  /\ Cardinality(DOMAIN store.frames) \in Nat
         /\ store.bytes <= Cardinality(DOMAIN store.frames) * MaximumFrameSize
<1> DEFINE keys == DOMAIN store.frames
           f == [k \in keys |-> store.frames[k].receivedBytes]
           sizes == 1 .. MaximumFrameSize
<1>1. IsFiniteSet(keys) /\ Cardinality(keys) \in Nat /\ MaximumFrameSize \in Nat
  BY FS_CardinalityType, LimitsAssumption DEF StoreSound
<1>2. \A k \in keys : store.frames[k].receivedBytes \in 0 .. MaximumFrameSize
  BY <1>1 DEF StoreSound, FrameSound, PendingFrame
<1>3. IsFiniteSet(sizes) /\ Cardinality(sizes) = MaximumFrameSize
  <2>1. 1 \in Int /\ MaximumFrameSize \in Int
    BY <1>1
  <2>2. /\ IsFiniteSet(sizes)
        /\ Cardinality(sizes) = IF 1 > MaximumFrameSize THEN 0 ELSE MaximumFrameSize - 1 + 1
    BY <2>1, FS_Interval
  <2> QED
    BY <1>1, <2>2
<1>4. Units(f) \subseteq keys \X sizes
  <2> SUFFICES ASSUME NEW u \in Units(f) PROVE u \in keys \X sizes
    OBVIOUS
  <2>1. PICK k \in keys : u \in {k} \X (1 .. store.frames[k].receivedBytes)
    BY DEF Units
  <2>2. 1 .. store.frames[k].receivedBytes \subseteq sizes
    BY <1>1, <1>2
  <2> QED
    BY <2>1, <2>2
<1>5. /\ IsFiniteSet(keys \X sizes)
      /\ Cardinality(keys \X sizes) = Cardinality(keys) * MaximumFrameSize
  BY <1>1, <1>3, FS_Product
<1>6. Cardinality(Units(f)) <= Cardinality(keys) * MaximumFrameSize
  BY <1>4, <1>5, FS_Subset
<1>7. store.bytes = Cardinality(Units(f))
  BY DEF StoreSound, BytesOf, Total, Units
<1> QED
  BY <1>1, <1>6, <1>7

\* The frame a datagram is held in.
LEMMA HeldUnderKey ==
  ASSUME NEW frames, NEW e
  PROVE  /\ e \in HeldIn(frames) =>
              e.key \in DOMAIN frames /\ e \in Origins(e.key, frames[e.key])
         /\ \A k \in DOMAIN frames : e \in Origins(k, frames[k]) => e \in HeldIn(frames)
<1>1. ASSUME e \in HeldIn(frames)
      PROVE  e.key \in DOMAIN frames /\ e \in Origins(e.key, frames[e.key])
  <2>1. PICK k \in DOMAIN frames : e \in Origins(k, frames[k])
    BY <1>1 DEF HeldIn
  <2>2. e.key = k
    BY <2>1 DEF Origins, Origin
  <2> QED
    BY <2>1, <2>2
<1> QED
  BY <1>1 DEF HeldIn

\* If the fragment fits, nothing goes.
LEMMA NothingGoes ==
  ASSUME NEW store, StoreSound(store), NEW d, Valid(d), IsNews(store, d), now \in Nat,
         Fits(store, d)
  PROVE  LET more == Extended(store, d)
         IN /\ StoreSound(more) /\ DOMAIN more.frames = DOMAIN store.frames \cup {d.key}
            /\ \A k \in DOMAIN store.frames \ {d.key} : more.frames[k] = store.frames[k]
            /\ Extends(Before(store, d), more.frames[d.key], d)
            /\ HeldIn(store.frames) \cup {d} \subseteq HeldIn(more.frames)
<1>1. Grows(store, d, {})
  BY ExtendedGrows DEF MakesRoom
<1> DEFINE more == Extended(store, d)
<1>2. /\ StoreSound(more) /\ DOMAIN more.frames = DOMAIN store.frames \cup {d.key}
      /\ \A k \in DOMAIN store.frames \ {d.key} : more.frames[k] = store.frames[k]
      /\ Extends(Before(store, d), more.frames[d.key], d)
  BY <1>1 DEF Grows
<1> HIDE DEF more
<1>3. Origins(d.key, more.frames[d.key]) = Origins(d.key, Before(store, d)) \cup {d}
  BY <1>2, ValidIsOrigin
<1>4. d \in HeldIn(more.frames)
  BY <1>2, <1>3, HeldUnderKey
<1>5. ASSUME NEW e \in HeldIn(store.frames) PROVE e \in HeldIn(more.frames)
  <2>1. e.key \in DOMAIN store.frames /\ e \in Origins(e.key, store.frames[e.key])
    BY HeldUnderKey
  <2>2. CASE e.key = d.key
    <3>1. e \in Origins(d.key, more.frames[d.key])
      BY <1>3, <2>1, <2>2 DEF Before
    <3> QED
      BY <1>2, <3>1, HeldUnderKey
  <2>3. CASE e.key # d.key
    <3>1. e.key \in DOMAIN more.frames /\ e \in Origins(e.key, more.frames[e.key])
      BY <1>2, <2>1, <2>3
    <3> QED
      BY <3>1, HeldUnderKey
  <2> QED
    BY <2>2, <2>3
<1> QED
  BY <1>2, <1>4, <1>5 DEF more

LEMMA RemoveOne ==
  ASSUME NEW store, StoreSound(store), NEW key \in DOMAIN store.frames
  PROVE  /\ DOMAIN Remove(store, {key}).frames = DOMAIN store.frames \ {key}
         /\ \A k \in DOMAIN store.frames \ {key} :
              Remove(store, {key}).frames[k] = store.frames[k]
<1>1. {key} \in SUBSET DOMAIN store.frames
  OBVIOUS
<1> DEFINE gone == {key}
           left == Remove(store, gone)
<1> HIDE DEF gone
<1>2. gone \in SUBSET DOMAIN store.frames
  BY <1>1 DEF gone
<1>3. /\ DOMAIN left.frames = DOMAIN store.frames \ gone
      /\ \A k \in DOMAIN left.frames : left.frames[k] = store.frames[k]
  BY <1>2, RemoveLeaves, Zenon
<1> QED
  BY <1>3 DEF gone

Handles(store, d) ==
  RejectWithFrame(store, d) \/ Duplicate(store, d) \/ Accept(store, d) \/ Complete(store, d)

\* The other frames stay as they are.
LEMMA OthersStay ==
  ASSUME NEW store, StoreSound(store), NEW d, Valid(d), now \in Nat, Handles(store, d),
         store = [frames |-> store.frames, bytes |-> store.bytes],
         IsNews(store, d) => Fits(store, d),
         NEW e \in HeldIn(store.frames), e.key # d.key
  PROVE  e \in HeldIn(m_pendingFrames')
<1> DEFINE k == e.key
<1>1. k \in DOMAIN store.frames /\ e \in Origins(k, store.frames[k]) /\ k # d.key
  BY HeldUnderKey
<1> HIDE DEF k
<1> SUFFICES k \in DOMAIN m_pendingFrames' /\ m_pendingFrames'[k] = store.frames[k]
  BY <1>1, HeldUnderKey
<1>2. CASE RejectWithFrame(store, d)
  <2>1. m_pendingFrames' = Remove(store, {d.key}).frames /\ d.key \in DOMAIN store.frames
    BY <1>2 DEF RejectWithFrame, Returns
  <2> QED
    BY <1>1, <2>1, RemoveOne
<1>3. CASE Duplicate(store, d)
  <2>1. m_pendingFrames' = [store EXCEPT !.frames[d.key].lastUpdatedAtMs = now].frames
    BY <1>3 DEF Duplicate, Returns
  <2>2. m_pendingFrames' = [store.frames EXCEPT ![d.key].lastUpdatedAtMs = now]
    BY <2>1
  <2> QED
    BY <1>1, <2>2
<1>4. CASE Accept(store, d)
  <2>1. m_pendingFrames' = Extended(store, d).frames /\ IsNews(store, d)
    BY <1>4 DEF Accept, Returns
  <2> QED
    BY <1>1, <2>1, NothingGoes
<1>5. CASE Complete(store, d)
  <2> DEFINE more == Extended(store, d)
  <2>1. m_pendingFrames' = Remove(more, {d.key}).frames /\ IsNews(store, d)
    BY <1>5 DEF Complete, Returns
  <2>2. /\ StoreSound(more) /\ DOMAIN more.frames = DOMAIN store.frames \cup {d.key}
        /\ more.frames[k] = store.frames[k]
    BY <1>1, <2>1, NothingGoes
  <2> HIDE DEF more
  <2>3. /\ DOMAIN Remove(more, {d.key}).frames = DOMAIN more.frames \ {d.key}
        /\ \A i \in DOMAIN more.frames \ {d.key} :
             Remove(more, {d.key}).frames[i] = more.frames[i]
    <3>1. StoreSound(more) /\ d.key \in DOMAIN more.frames
      BY <2>2
    <3> QED
      BY <3>1, RemoveOne
  <2>4. k \in DOMAIN more.frames \ {d.key}
    BY <1>1, <2>2
  <2> QED
    BY <2>1, <2>2, <2>3, <2>4
<1> QED
  BY <1>2, <1>3, <1>4, <1>5 DEF Handles

\* A fragment that is there already costs nothing.
LEMMA RepeatIsHarmless ==
  ASSUME NEW store, StoreSound(store), NEW d, Handles(store, d),
         d \in HeldIn(store.frames)
  PROVE  HeldIn(store.frames) \subseteq HeldIn(m_pendingFrames')
<1> DEFINE frame == store.frames[d.key]
           touched == [frame EXCEPT !.lastUpdatedAtMs = now]
<1>1. d.key \in DOMAIN store.frames /\ d \in Origins(d.key, frame)
  BY HeldUnderKey
<1>2. FrameSound(frame)
  BY <1>1 DEF StoreSound
<1>3. PICK i \in DOMAIN frame.fragments : d = Origin(d.key, frame, i)
  BY <1>1 DEF Origins
<1>4. /\ d.fragmentIndex = i /\ d.payload = frame.fragments[i]
      /\ SameMetadata(frame, d)
  BY <1>3 DEF Origin, SameMetadata
<1>5. ~Contradicts(frame, d) /\ d.fragmentIndex \in DOMAIN frame.fragments
  BY <1>3, <1>4 DEF Contradicts
<1>6. Duplicate(store, d)
  BY <1>1, <1>5 DEF Handles, RejectWithFrame, Accept, Complete, IsNews
<1>7. m_pendingFrames' = [store.frames EXCEPT ![d.key] = touched]
  <2>1. m_pendingFrames' = [store EXCEPT !.frames[d.key].lastUpdatedAtMs = now].frames
    BY <1>6 DEF Duplicate, Returns
  <2> QED
    BY <2>1
<1>8. touched.fragments = frame.fragments /\ Origins(d.key, touched) = Origins(d.key, frame)
  BY <1>2 DEF Origins, Origin, FrameSound, PendingFrame
<1> HIDE DEF touched
<1>9. ASSUME NEW e \in HeldIn(store.frames) PROVE e \in HeldIn(m_pendingFrames')
  <2>1. e.key \in DOMAIN store.frames /\ e \in Origins(e.key, store.frames[e.key])
    BY HeldUnderKey
  <2>2. e.key \in DOMAIN m_pendingFrames' /\ e \in Origins(e.key, m_pendingFrames'[e.key])
    <3>1. CASE e.key = d.key
      BY <1>1, <1>7, <1>8, <2>1, <3>1
    <3>2. CASE e.key # d.key
      BY <1>7, <2>1, <3>2
    <3> QED
      BY <3>1, <3>2
  <2> QED
    BY <2>2, HeldUnderKey
<1> QED
  BY <1>9

\* A new fragment that fits, and completes no frame of a wrong size, is taken.
LEMMA NewsIsTaken ==
  ASSUME NEW store, StoreSound(store), NEW d, Valid(d), now \in Nat, Handles(store, d),
         IsNews(store, d), Fits(store, d),
         AllReceived(Extended(store, d).frames[d.key]) =>
           SizeAsDeclared(Extended(store, d).frames[d.key])
  PROVE  \/ result' = "Completed"
         \/ HeldIn(store.frames) \cup {d} \subseteq HeldIn(m_pendingFrames')
<1>1. CASE Accept(store, d)
  <2>1. m_pendingFrames' = Extended(store, d).frames
    BY <1>1 DEF Accept, Returns
  <2> QED
    BY <2>1, NothingGoes
<1>2. CASE Complete(store, d)
  BY <1>2 DEF Complete, Returns
<1>3. CASE RejectWithFrame(store, d) \/ Duplicate(store, d)
  BY <1>3 DEF RejectWithFrame, Duplicate, IsNews
<1> QED
  BY <1>1, <1>2, <1>3 DEF Handles
-----------------------------------------------------------------------------
(* An attempt whose datagrams are all of their id. *)

\* A frame in parts that has its fragments from one attempt.
LEMMA FrameOfAttempt ==
  ASSUME NEW a, AttemptSound(a), NEW j \in Nat, NEW key, NEW frame, FrameSound(frame),
         Origins(key, frame) \subseteq Sent(a, j)
  PROVE  /\ key = a.id /\ frame.frameSize = a.size /\ frame.timestampMs = a.timestampMs
         /\ frame.fragmentCount = a.count /\ a.count > 0
         /\ \A i \in DOMAIN frame.fragments : Origin(key, frame, i) = Datagrams(a, j)[i]
         /\ DOMAIN frame.fragments \in SUBSET (0 .. FragmentCount(a.size) - 1)
         /\ frame.receivedBytes = Total(Lengths(a.size, DOMAIN frame.fragments))
<1> DEFINE I == DOMAIN frame.fragments
<1>1. I # {} /\ I \subseteq 0 .. frame.fragmentCount - 1
  BY DEF FrameSound
<1>2. ASSUME NEW i \in I
      PROVE  LET e == Origin(key, frame, i)
             IN /\ e \in Sent(a, j) /\ e.key = key /\ e.frameSize = frame.frameSize
                /\ e.timestampMs = frame.timestampMs
                /\ e.fragmentCount = frame.fragmentCount /\ e.fragmentIndex = i
                /\ e.payload = frame.fragments[i]
  BY DEF Origins, Origin
<1>3. ASSUME NEW i \in I
      PROVE  /\ key = a.id /\ frame.frameSize = a.size /\ frame.timestampMs = a.timestampMs
             /\ frame.fragmentCount = a.count /\ i \in 0 .. a.count - 1
             /\ Origin(key, frame, i) = Datagrams(a, j)[i]
             /\ frame.fragments[i].size = PayloadLength(a.size, i)
  <2> DEFINE e == Origin(key, frame, i)
  <2>1. /\ e \in Sent(a, j) /\ e.key = key /\ e.frameSize = frame.frameSize
        /\ e.timestampMs = frame.timestampMs
        /\ e.fragmentCount = frame.fragmentCount /\ e.fragmentIndex = i
        /\ e.payload = frame.fragments[i]
    BY <1>2
  <2> HIDE DEF e
  <2>2. /\ e.key = a.id /\ e.timestampMs = a.timestampMs /\ e.frameSize = a.size
        /\ e.fragmentCount = a.count /\ e.fragmentIndex \in 0 .. a.count - 1
        /\ e = Datagrams(a, j)[e.fragmentIndex]
    BY <2>1, SentIs
  <2>3. i \in 0 .. a.count - 1 /\ e = Datagrams(a, j)[i]
    BY <2>1, <2>2
  <2>4. e.payload = [size |-> PayloadLength(a.size, i), content |-> j]
    <3>1. Datagrams(a, j)[i] =
            [key |-> a.id, timestampMs |-> a.timestampMs, frameSize |-> a.size,
             fragmentCount |-> a.count, fragmentIndex |-> i,
             payload |-> [size |-> PayloadLength(a.size, i), content |-> j]]
      BY <2>3, DatagramIs
    <3> QED
      BY <2>3, <3>1
  <2> QED
    BY <2>1, <2>2, <2>3, <2>4 DEF e
<1> HIDE DEF I
<1>4. /\ key = a.id /\ frame.frameSize = a.size /\ frame.timestampMs = a.timestampMs
      /\ frame.fragmentCount = a.count
  BY <1>1, <1>3
<1>5. a.count > 0
  <2>1. a.count \in Nat
    BY DEF AttemptSound, Attempt
  <2>2. PICK i \in I : i \in 0 .. a.count - 1
    BY <1>1, <1>3
  <2> QED
    BY <2>1, <2>2
<1>6. I \in SUBSET (0 .. FragmentCount(a.size) - 1)
  <2>1. a.count = FragmentCount(a.size)
    BY <1>5, CountIs
  <2> QED
    BY <1>1, <1>4, <2>1
<1>7. frame.receivedBytes = Total(Lengths(a.size, I))
  <2>1. [i \in I |-> frame.fragments[i].size] = Lengths(a.size, I)
    BY <1>3 DEF Lengths
  <2> QED
    BY <2>1 DEF FrameSound, PayloadBytes, I
<1> QED
  BY <1>3, <1>4, <1>5, <1>6, <1>7 DEF I

\* A further datagram of the attempt does not contradict it ...
LEMMA NotContradicted ==
  ASSUME NEW a, AttemptSound(a), NEW j \in Nat, NEW key, NEW frame, FrameSound(frame),
         Origins(key, frame) \subseteq Sent(a, j),
         NEW d \in Sent(a, j), d \notin Origins(key, frame)
  PROVE  ~Contradicts(frame, d) /\ d.fragmentIndex \notin DOMAIN frame.fragments
<1> DEFINE I == DOMAIN frame.fragments
           i == d.fragmentIndex
           got == Total(Lengths(a.size, I))
           length == PayloadLength(a.size, i)
<1>1. /\ frame.frameSize = a.size /\ frame.timestampMs = a.timestampMs
      /\ frame.fragmentCount = a.count /\ a.count > 0
      /\ \A k \in I : Origin(key, frame, k) = Datagrams(a, j)[k]
      /\ I \in SUBSET (0 .. FragmentCount(a.size) - 1)
      /\ frame.receivedBytes = got
  BY FrameOfAttempt
<1>2. /\ d.timestampMs = a.timestampMs /\ d.frameSize = a.size /\ d.fragmentCount = a.count
      /\ i \in 0 .. a.count - 1 /\ d = Datagrams(a, j)[i]
  BY SentIs
<1>3. i \notin I
  <2> SUFFICES ASSUME i \in I PROVE FALSE
    OBVIOUS
  <2>1. d = Origin(key, frame, i)
    BY <1>1, <1>2
  <2> QED
    BY <2>1 DEF Origins
<1>4. d.payload.size = length
  <2>1. Datagrams(a, j)[i] =
           [key |-> a.id, timestampMs |-> a.timestampMs, frameSize |-> a.size,
            fragmentCount |-> a.count, fragmentIndex |-> i,
            payload |-> [size |-> PayloadLength(a.size, i), content |-> j]]
    BY <1>2, DatagramIs
  <2> QED
    BY <1>2, <2>1
<1>5. a.size \in Nat /\ a.count = FragmentCount(a.size)
  BY <1>1, CountIs DEF AttemptSound, Attempt
<1>6. got \in Nat /\ length \in Nat /\ got + length <= a.size
  <2>1. got \in Nat
    BY <1>1, <1>5, LengthsAreNat
  <2>2. i \in 0 .. FragmentCount(a.size) - 1
    BY <1>2, <1>5
  <2>3. length \in Nat
    <3>1. length \in 1 .. MaximumPayloadSize
      BY <1>5, <2>2, Cut
    <3> QED
      BY <3>1, SenderAssumption
  <2>4. got + length <= a.size
    BY <1>1, <1>3, <1>5, <2>2, LengthsLeaveRoom
  <2> QED
    BY <2>1, <2>3, <2>4
<1> HIDE DEF I, i, got, length
<1>7. ~(frame.receivedBytes > frame.frameSize - d.payload.size)
  BY <1>1, <1>4, <1>5, <1>6
<1>8. SameMetadata(frame, d)
  BY <1>1, <1>2 DEF SameMetadata
<1> QED
  BY <1>3, <1>7, <1>8 DEF Contradicts, I, i

\* ... and when all are there, the size is right.
LEMMA SizeIsDeclared ==
  ASSUME NEW a, AttemptSound(a), NEW j \in Nat, NEW key, NEW frame, FrameSound(frame),
         Origins(key, frame) \subseteq Sent(a, j), AllReceived(frame)
  PROVE  SizeAsDeclared(frame)
<1>1. /\ frame.frameSize = a.size /\ frame.fragmentCount = a.count /\ a.count > 0
      /\ frame.receivedBytes = Total(Lengths(a.size, DOMAIN frame.fragments))
  BY FrameOfAttempt
<1>2. DOMAIN frame.fragments = 0 .. frame.fragmentCount - 1
  BY LacksOrHasAll
<1>3. a.size \in Nat /\ a.count = FragmentCount(a.size)
  BY <1>1, CountIs DEF AttemptSound, Attempt
<1>4. Total(Lengths(a.size, DOMAIN frame.fragments)) = a.size
  BY <1>1, <1>2, <1>3, LengthsAddUp
<1> QED
  BY <1>1, <1>4 DEF SizeAsDeclared

\* All that was sent under the id of a frame written whole is of that frame, if it
\* takes the id over from none.
LEMMA OfOneAttempt ==
  ASSUME HistorySound, IdsApart, NEW j \in DOMAIN attempts, Whole(attempts[j]),
         ~TakesOverId(j), NEW e \in AllSent(attempts), e.key = attempts[j].id
  PROVE  e \in Sent(attempts[j], j)
<1> DEFINE i == e.payload.content
<1>1. /\ i \in DOMAIN attempts /\ i \in Nat \ {0} /\ AttemptSound(attempts[i])
      /\ e \in Sent(attempts[i], i)
  BY SourceIs
<1>2. e.key = attempts[i].id /\ attempts[i].written > 0
  BY <1>1, SentIs
<1> HIDE DEF i
<1>3. j \in Nat
  <2>1. attempts \in Seq(Attempt)
    BY DEF HistorySound
  <2>2. j \in 1 .. Len(attempts) /\ Len(attempts) \in Nat
    BY <2>1
  <2> QED
    BY <2>2
<1>4. ~(j < i)
  BY <1>1, <1>2 DEF IdsApart
<1>5. ~(i < j)
  <2> SUFFICES ASSUME i < j PROVE FALSE
    OBVIOUS
  <2>1. i \in 1 .. j - 1
    BY <1>1, <1>3
  <2> QED
    BY <1>2, <2>1 DEF TakesOverId
<1>6. i = j
  BY <1>1, <1>3, <1>4, <1>5
<1> QED
  BY <1>1, <1>6

\* There are no more frames in parts than attempts, and there is room for all.
LEMMA RoomFits ==
  ASSUME LinkInv, Room, NEW d \in network, IsNews(Store, d)
  PROVE  Fits(Store, d)
<1> DEFINE keys == DOMAIN m_pendingFrames
           ids == {attempts[j].id : j \in DOMAIN attempts}
           more == AddFragment(Store, d)
           size == d.payload.size
<1>1. /\ HistorySound /\ StoreSound(Store) /\ now \in Nat
      /\ \A e \in HeldIn(m_pendingFrames) \cup {d} : e \in AllSent(attempts)
      /\ Store.frames = m_pendingFrames
  BY DEF LinkInv, Around, StoreInv, Store
<1>2. \A e \in AllSent(attempts) : e.key \in ids /\ Valid(e)
  <2> SUFFICES ASSUME NEW e \in AllSent(attempts) PROVE e.key \in ids /\ Valid(e)
    OBVIOUS
  <2>1. /\ e.payload.content \in DOMAIN attempts /\ e.payload.content \in Nat
        /\ AttemptSound(attempts[e.payload.content])
        /\ e \in Sent(attempts[e.payload.content], e.payload.content)
    BY <1>1, SourceIs
  <2>2. e.key = attempts[e.payload.content].id /\ Valid(e)
    BY <2>1, SentIs
  <2> QED
    BY <2>1, <2>2
<1>3. keys \cup {d.key} \subseteq ids
  <2>1. ASSUME NEW k \in keys PROVE k \in ids
    <3>1. FrameSound(m_pendingFrames[k])
      BY <1>1 DEF StoreSound
    <3>2. PICK i \in DOMAIN m_pendingFrames[k].fragments : TRUE
      BY <3>1 DEF FrameSound
    <3>3. Origin(k, m_pendingFrames[k], i) \in HeldIn(m_pendingFrames)
      BY <3>2, HeldUnderKey DEF Origins
    <3>4. Origin(k, m_pendingFrames[k], i).key = k
      BY DEF Origin
    <3> QED
      BY <1>1, <1>2, <3>3, <3>4
  <2> QED
    BY <1>1, <1>2, <2>1
<1>4. Cardinality(ids) <= SendBound /\ IsFiniteSet(ids) /\ Cardinality(ids) \in Nat
  <2> DEFINE id == [j \in DOMAIN attempts |-> attempts[j].id]
  <2>1. /\ DOMAIN attempts = 1 .. Len(attempts) /\ Len(attempts) \in Nat
        /\ Len(attempts) <= SendBound
    BY <1>1 DEF HistorySound
  <2>2. IsFiniteSet(1 .. Len(attempts)) /\ Cardinality(1 .. Len(attempts)) = Len(attempts)
    <3>1. 1 \in Int /\ Len(attempts) \in Int
      BY <2>1
    <3>2. /\ IsFiniteSet(1 .. Len(attempts))
          /\ Cardinality(1 .. Len(attempts))
               = IF 1 > Len(attempts) THEN 0 ELSE Len(attempts) - 1 + 1
      BY <3>1, FS_Interval
    <3> QED
      BY <2>1, <3>2
  <2>3. id \in Surjection(DOMAIN attempts, ids)
    BY DEF Surjection
  <2> HIDE DEF id, ids
  <2>4. IsFiniteSet(ids) /\ Cardinality(ids) <= Len(attempts)
    BY <2>1, <2>2, <2>3, FS_Surjection
  <2> QED
    BY <2>1, <2>4, FS_CardinalityType, SenderAssumption
<1>5. Valid(d)
  BY <1>1, <1>2
<1>6. /\ StoreSound(more) /\ DOMAIN more.frames = keys \cup {d.key}
      /\ more.bytes = Store.bytes + size
  BY <1>1, <1>5, AddFragmentSound, AddFragmentExtends
<1> HIDE DEF more, ids
<1>7. /\ Cardinality(keys \cup {d.key}) <= SendBound
      /\ Cardinality(keys \cup {d.key}) \in Nat /\ SendBound \in Nat
  <2>1. /\ Cardinality(keys \cup {d.key}) <= Cardinality(ids)
        /\ Cardinality(keys \cup {d.key}) \in Nat
    BY <1>3, <1>4, FS_Subset, FS_CardinalityType
  <2> QED
    BY <1>4, <2>1, SenderAssumption
<1>8. size \in Nat /\ Store.bytes \in Nat
  BY <1>1, <1>5, ValidFields, BytesIsNat
<1>9. Store.bytes <= MaximumPendingPayloadBytes - size
  <2> DEFINE n == Cardinality(keys \cup {d.key})
             most == SendBound * MaximumFrameSize
             these == n * MaximumFrameSize
  <2>1. these \in Nat /\ most \in Nat /\ these <= most
    BY <1>7, Monotone, LimitsAssumption
  <2>2. more.bytes <= these
    BY <1>6, BytesBounded
  <2>3. most <= MaximumPendingPayloadBytes /\ MaximumPendingPayloadBytes \in Nat
    BY LimitsAssumption DEF Room
  <2> HIDE DEF these, most
  <2> QED
    BY <1>6, <1>8, <2>1, <2>2, <2>3
<1>10. d.key \in keys \/ Cardinality(keys) < MaximumPendingFrameCount
  <2> SUFFICES ASSUME d.key \notin keys PROVE Cardinality(keys) < MaximumPendingFrameCount
    OBVIOUS
  <2>1. IsFiniteSet(keys) /\ Cardinality(keys) \in Nat
    BY <1>1, FS_CardinalityType DEF StoreSound
  <2>2. Cardinality(keys \cup {d.key}) = Cardinality(keys) + 1
    BY <2>1, FS_AddElement
  <2> QED
    BY <1>7, <2>1, <2>2, LimitsAssumption DEF Room
<1> QED
  BY <1>1, <1>9, <1>10 DEF Fits
-----------------------------------------------------------------------------
(* Everything arrives. *)

Faultless == losses = 0 /\ now <= FrameTimeoutMs

\* As early as this nothing has expired.
LEMMA NoneExpired ==
  ASSUME StoreInv, now <= FrameTimeoutMs
  PROVE  Expired(Store) = {} /\ Remove(Store, Expired(Store)) = Store
<1>1. Expired(Store) = {}
  <2> SUFFICES ASSUME NEW k \in DOMAIN m_pendingFrames
               PROVE  ~(now - m_pendingFrames[k].lastUpdatedAtMs > FrameTimeoutMs)
    BY DEF Expired, Store
  <2>1. m_pendingFrames[k].lastUpdatedAtMs \in Nat
    BY DEF StoreInv, StoreSound, FrameSound, PendingFrame, Store
  <2> QED
    BY <2>1, LimitsAssumption DEF StoreInv
<1> DEFINE left == Remove(Store, {})
<1>2. left.frames = Store.frames /\ left.bytes = Store.bytes
  BY RemoveNone DEF StoreInv
<1>3. left = [frames |-> left.frames, bytes |-> left.bytes]
  BY DEF Remove
<1>4. Store = [frames |-> Store.frames, bytes |-> Store.bytes]
  BY DEF Store
<1> HIDE DEF left
<1>5. left = Store
  BY <1>2, <1>3, <1>4
<1> QED
  BY <1>1, <1>5 DEF left

\* What is announced is the frame of the datagram that completed it.
LEMMA ReadCompletes ==
  ASSUME LinkInv, NEW d \in network, ReadDatagram(d), result' = "Completed"
  PROVE  delivered' = Append(delivered, d.payload.content)
<1>1. /\ HistorySound /\ StoreInv /\ IdsApart
      /\ d \in AllSent(attempts) /\ HeldIn(m_pendingFrames) \subseteq AllSent(attempts)
  BY DEF LinkInv, Around
<1> DEFINE j == d.payload.content
<1>2. /\ j \in DOMAIN attempts /\ j \in Nat /\ AttemptSound(attempts[j])
      /\ d \in Sent(attempts[j], j)
  BY <1>1, SourceIs
<1>3. Parsable(d) /\ Valid(d)
  BY <1>2, SentIs
<1>4. AddDatagram(d) /\ delivered' = Append(delivered, AttemptOf(completedFrame'))
  BY <1>3 DEF ReadDatagram
<1>5. Delivers(completedFrame', HeldIn(m_pendingFrames), d)
  BY <1>1, <1>3, <1>4, AddDatagramStep
<1>6. AttemptOf(completedFrame') = j
  BY <1>1, <1>5, CompletedIsSent
<1> QED
  BY <1>4, <1>6

\* A datagram that arrives, repeated or not, is kept, or it completes its frame,
\* and no other goes.
LEMMA ArriveLosesNothing ==
  ASSUME LinkInv, Room, Faultless, NEW d \in network, ReadDatagram(d),
         network \ {d} \subseteq network',
         NEW j \in DOMAIN attempts, Whole(attempts[j]), ~TakesOverId(j),
         Sent(attempts[j], j) \subseteq Around
  PROVE  j \in Range(delivered') \/ Sent(attempts[j], j) \subseteq Around'
<1> DEFINE a == attempts[j]
           held == HeldIn(m_pendingFrames)
<1>1. /\ HistorySound /\ IdsApart /\ StoreInv /\ StoreSound(Store) /\ Settled(Store)
      /\ now \in Nat /\ Around \subseteq AllSent(attempts)
      /\ Store.frames = m_pendingFrames
      /\ Store = [frames |-> Store.frames, bytes |-> Store.bytes]
  BY DEF LinkInv, StoreInv, Faultless, Store
<1>2. d \in AllSent(attempts) /\ Around = network \cup held
  BY <1>1 DEF Around
<1> DEFINE i == d.payload.content
<1>3. /\ i \in DOMAIN attempts /\ i \in Nat /\ AttemptSound(attempts[i])
      /\ d \in Sent(attempts[i], i) /\ Parsable(d) /\ Valid(d) /\ d.key = attempts[i].id
  <2>1. /\ i \in DOMAIN attempts /\ i \in Nat /\ AttemptSound(attempts[i])
        /\ d \in Sent(attempts[i], i)
    BY <1>1, <1>2, SourceIs
  <2> HIDE DEF i
  <2> QED
    BY <2>1, SentIs
<1>4. AttemptSound(a) /\ j \in Nat /\ \A e \in Sent(a, j) : e.payload.content = j /\ e.key = a.id
  <2>1. AttemptSound(a)
    BY <1>1 DEF HistorySound
  <2>2. j \in Nat
    <3>1. attempts \in Seq(Attempt)
      BY <1>1 DEF HistorySound
    <3>2. j \in 1 .. Len(attempts) /\ Len(attempts) \in Nat
      BY <3>1
    <3> QED
      BY <3>2
  <2> HIDE DEF a
  <2> QED
    BY <2>1, <2>2, SentIs
<1>5. Handles(Store, d)
  <2>1. AddDatagram(d)
    BY <1>3 DEF ReadDatagram
  <2>2. Remove(Store, Expired(Store)) = Store
    BY <1>1, NoneExpired DEF Faultless
  <2> QED
    BY <2>1, <2>2 DEF AddDatagram, Handles
<1>6. IsNews(Store, d) => Fits(Store, d)
  BY RoomFits
<1>7. CASE d.key # a.id
  <2>1. ASSUME NEW e \in Sent(a, j) PROVE e \in Around'
    <3>1. e.key # d.key /\ e # d
      BY <1>4, <1>7
    <3>2. CASE e \in network
      BY <3>1, <3>2 DEF Around
    <3>3. CASE e \in held
      <4>1. e \in HeldIn(Store.frames)
        BY <1>1, <3>3
      <4>2. e \in HeldIn(m_pendingFrames')
        BY <1>1, <1>3, <1>5, <1>6, <3>1, <4>1, OthersStay
      <4> QED
        BY <4>2 DEF Around
    <3> QED
      BY <1>2, <3>2, <3>3
  <2> QED
    BY <2>1
<1>8. CASE d \in held
  <2>1. held \subseteq HeldIn(m_pendingFrames')
    BY <1>1, <1>5, <1>8, RepeatIsHarmless
  <2> QED
    BY <1>2, <1>8, <2>1 DEF Around
<1>9. CASE d.key = a.id /\ d \notin held
  <2>1. d \in Sent(a, j) /\ i = j
    <3>1. d \in Sent(a, j)
      BY <1>1, <1>2, <1>9, OfOneAttempt
    <3> QED
      BY <1>4, <3>1
  <2>2. ASSUME NEW frame, Origins(d.key, frame) \subseteq AllSent(attempts)
        PROVE  Origins(d.key, frame) \subseteq Sent(a, j)
    <3> SUFFICES ASSUME NEW e \in Origins(d.key, frame) PROVE e \in Sent(a, j)
      OBVIOUS
    <3>1. e.key = d.key /\ e \in AllSent(attempts)
      BY <2>2 DEF Origins, Origin
    <3> QED
      BY <1>1, <1>9, <3>1, OfOneAttempt
  <2>3. IsNews(Store, d)
    <3> SUFFICES ASSUME d.key \in DOMAIN m_pendingFrames
                 PROVE  /\ ~Contradicts(m_pendingFrames[d.key], d)
                        /\ d.fragmentIndex \notin DOMAIN m_pendingFrames[d.key].fragments
      BY <1>1 DEF IsNews
    <3> DEFINE frame == m_pendingFrames[d.key]
    <3>1. FrameSound(frame)
      BY <1>1 DEF StoreSound
    <3>2. Origins(d.key, frame) \subseteq held
      BY HeldUnderKey
    <3>3. d \notin Origins(d.key, frame)
      BY <1>9, <3>2
    <3> HIDE DEF frame, a
    <3>4. Origins(d.key, frame) \subseteq AllSent(attempts)
      BY <1>1, <1>2, <3>2
    <3>5. Origins(d.key, frame) \subseteq Sent(a, j)
      BY <2>2, <3>4
    <3>6. ~Contradicts(frame, d) /\ d.fragmentIndex \notin DOMAIN frame.fragments
      BY <1>4, <2>1, <3>1, <3>3, <3>5, NotContradicted
    <3> QED
      BY <3>6 DEF frame
  <2>4. Fits(Store, d)
    BY <1>6, <2>3
  <2>5. ASSUME AllReceived(Extended(Store, d).frames[d.key])
        PROVE  SizeAsDeclared(Extended(Store, d).frames[d.key])
    <3> DEFINE more == Extended(Store, d)
               frame == more.frames[d.key]
    <3>1. /\ StoreSound(more) /\ d.key \in DOMAIN more.frames
          /\ Extends(Before(Store, d), frame, d)
      BY <1>1, <1>3, <2>3, <2>4, NothingGoes
    <3>2. FrameSound(frame)
      BY <3>1 DEF StoreSound
    <3>3. Origins(d.key, frame) = Origins(d.key, Before(Store, d)) \cup {d}
      BY <1>3, <3>1, ValidIsOrigin
    <3>4. Origins(d.key, Before(Store, d)) \subseteq held
      <4>1. CASE d.key \in DOMAIN m_pendingFrames
        BY <1>1, <4>1, HeldUnderKey DEF Before
      <4>2. CASE d.key \notin DOMAIN m_pendingFrames
        <5>1. DOMAIN Before(Store, d).fragments = {}
          BY <1>1, <4>2 DEF Before, NewFrame, Empty
        <5> QED
          BY <5>1 DEF Origins
      <4> QED
        BY <4>1, <4>2
    <3>5. Origins(d.key, frame) \subseteq AllSent(attempts)
      BY <1>1, <1>2, <3>3, <3>4
    <3>6. AllReceived(frame)
      BY <2>5
    <3> HIDE DEF more, frame, a
    <3>7. Origins(d.key, frame) \subseteq Sent(a, j)
      BY <2>2, <3>5
    <3>8. SizeAsDeclared(frame)
      BY <1>4, <3>2, <3>6, <3>7, SizeIsDeclared
    <3> QED
      BY <3>8 DEF frame, more
  <2>6. \/ result' = "Completed"
        \/ HeldIn(Store.frames) \cup {d} \subseteq HeldIn(m_pendingFrames')
    BY <1>1, <1>3, <1>5, <2>3, <2>4, <2>5, NewsIsTaken
  <2>7. CASE result' = "Completed"
    <3>1. delivered' = Append(delivered, j)
      BY <1>1, <1>2, <1>3, <2>1, <2>7, ReadCompletes
    <3>2. delivered \in Seq(Nat)
      BY <1>1 DEF HistorySound
    <3> QED
      BY <1>4, <3>1, <3>2, RangeOfAppend
  <2>8. CASE HeldIn(Store.frames) \cup {d} \subseteq HeldIn(m_pendingFrames')
    BY <1>1, <1>2, <2>8 DEF Around
  <2> QED
    BY <2>6, <2>7, <2>8
<1> QED
  BY <1>7, <1>8, <1>9

\* Whether a frame takes an id over is settled when it is sent.
LEMMA SendLosesNothing ==
  ASSUME LinkInv, NothingLost, NEW size \in FrameSizes, SendEncodedFrame(size)
  PROVE  NothingLost'
<1> DEFINE n == Len(attempts')
<1>1. /\ UNCHANGED <<m_pendingFrames, now, delivered, losses, duplicates>> /\ HistorySound
  BY DEF SendEncodedFrame, faultVars, LinkInv, vars
<1>2. PICK a : /\ AttemptSound(a) /\ attempts' = Append(attempts, a)
               /\ network' = network \cup Sent(a, Len(attempts) + 1)
  BY AttemptMade
<1>3. /\ Len(attempts) \in Nat /\ n = Len(attempts) + 1 /\ DOMAIN attempts = 1 .. Len(attempts)
      /\ DOMAIN attempts' = DOMAIN attempts \cup {n}
      /\ \A j \in DOMAIN attempts : attempts'[j] = attempts[j]
      /\ attempts'[n] = a
  BY <1>1, <1>2, Appended
<1>4. network' = network \cup Sent(a, n)
  BY <1>2, <1>3
<1> HIDE DEF n
<1> SUFFICES ASSUME Faultless, NEW j \in DOMAIN attempts', Whole(attempts'[j]), ~TakesOverId(j)'
             PROVE  j \in Range(delivered) \/ Sent(attempts'[j], j) \subseteq Around'
  BY <1>1 DEF NothingLost, Faultless
<1>5. Around \subseteq Around'
  BY <1>1, <1>4 DEF Around
<1>6. CASE j = n
  BY <1>3, <1>4, <1>6 DEF Around
<1>7. CASE j \in DOMAIN attempts
  <2>1. \A i \in 1 .. j - 1 : attempts'[i] = attempts[i]
    BY <1>3, <1>7
  <2>2. ~TakesOverId(j)
    BY <1>3, <1>7, <2>1 DEF TakesOverId
  <2>3. j \in Range(delivered) \/ Sent(attempts[j], j) \subseteq Around
    BY <1>3, <1>7, <2>2 DEF NothingLost, Faultless
  <2> QED
    BY <1>3, <1>5, <1>7, <2>3
<1> QED
  BY <1>3, <1>6, <1>7

LEMMA StepLosesNothing ==
  ASSUME LinkInv, Room, NothingLost, [LinkNext]_linkVars
  PROVE  NothingLost'
<1>1. losses \in Nat /\ now \in Nat /\ StoreInv
  BY DEF LinkInv, HistorySound, StoreInv
<1>2. ASSUME NEW size \in FrameSizes, SendEncodedFrame(size) PROVE NothingLost'
  BY <1>2, SendLosesNothing
<1>3. CASE Arrive \/ ArriveAndRepeat
  <2>1. PICK d \in network : ReadDatagram(d) /\ network \ {d} \subseteq network'
                             /\ losses' = losses
    BY <1>3 DEF Arrive, ArriveAndRepeat, faultVars
  <2>2. attempts' = attempts
    BY <2>1 DEF ReadDatagram, senderVars
  <2>3. now' = now
    BY <2>1 DEF ReadDatagram, AddDatagram
  <2> SUFFICES ASSUME Faultless, NEW j \in DOMAIN attempts, Whole(attempts[j]), ~TakesOverId(j)
               PROVE  j \in Range(delivered') \/ Sent(attempts[j], j) \subseteq Around'
    BY <2>1, <2>2, <2>3 DEF NothingLost, Faultless, TakesOverId
  <2>4. CASE Sent(attempts[j], j) \subseteq Around
    BY <2>1, <2>4, ArriveLosesNothing
  <2>5. CASE j \in Range(delivered)
    <3>1. Range(delivered) \subseteq Range(delivered')
      <4>1. \/ delivered' = delivered
            \/ \E i \in DOMAIN attempts : delivered' = Append(delivered, i)
        BY <2>1, TurnOf
      <4>2. ASSUME NEW i \in DOMAIN attempts, delivered' = Append(delivered, i)
            PROVE  Range(delivered) \subseteq Range(delivered')
        <5>1. attempts \in Seq(Attempt) /\ delivered \in Seq(Nat)
          BY DEF LinkInv, HistorySound
        <5>2. i \in Nat
          BY <5>1
        <5> QED
          BY <4>2, <5>1, <5>2, RangeOfAppend
      <4> QED
        BY <4>1, <4>2
    <3> QED
      BY <2>5, <3>1
  <2> QED
    BY <2>4, <2>5 DEF NothingLost, Faultless
<1>4. CASE Lose \/ CloseReceiver
  <2>1. losses' = losses + 1
    BY <1>4 DEF Lose, CloseReceiver
  <2> QED
    BY <1>1, <2>1 DEF NothingLost
<1>5. CASE Timing \/ UNCHANGED linkVars
  <2>1. /\ UNCHANGED <<attempts, network, delivered, losses>>
        /\ RemoveExpiredFrames \/ TimePasses \/ UNCHANGED vars
    BY <1>5 DEF Timing, linkVars, senderVars, faultVars
  <2>2. now <= now'
    BY <1>1, <2>1 DEF RemoveExpiredFrames, TimePasses, vars
  <2> SUFFICES ASSUME now' <= FrameTimeoutMs PROVE m_pendingFrames' = m_pendingFrames
    <3>1. now' <= FrameTimeoutMs => now <= FrameTimeoutMs
      <4>1. now' \in Nat
        BY <1>1, <2>1 DEF RemoveExpiredFrames, TimePasses, vars
      <4> QED
        BY <1>1, <2>2, <4>1, LimitsAssumption
    <3> QED
      BY <2>1, <3>1 DEF NothingLost, TakesOverId, Around
  <2>3. CASE RemoveExpiredFrames
    <3>1. now <= FrameTimeoutMs
      BY <2>3 DEF RemoveExpiredFrames
    <3>2. Remove(Store, Expired(Store)) = Store
      BY <1>1, <3>1, NoneExpired
    <3> QED
      BY <2>3, <3>2 DEF RemoveExpiredFrames, Store
  <2>4. CASE TimePasses \/ UNCHANGED vars
    BY <2>4 DEF TimePasses, vars
  <2> QED
    BY <2>1, <2>3, <2>4
<1> QED
  BY <1>2, <1>3, <1>4, <1>5 DEF LinkNext

\* A frame that has all of its datagrams in the store would have been delivered.
LEMMA AllHeldIsDelivered ==
  ASSUME LinkInv, NothingLost, Faultless, network = {},
         NEW j \in DOMAIN attempts, Whole(attempts[j]), ~TakesOverId(j)
  PROVE  j \in Range(delivered)
<1> DEFINE a == attempts[j]
<1> SUFFICES ASSUME Sent(a, j) \subseteq HeldIn(m_pendingFrames) PROVE FALSE
  BY DEF NothingLost, Faultless, Around
<1>1. AttemptSound(a) /\ a.count \in Nat \ {0} /\ a.written = a.count /\ j \in Nat
  <2>1. attempts \in Seq(Attempt) /\ AttemptSound(a)
    BY DEF LinkInv, HistorySound
  <2>2. j \in Nat
    BY <2>1
  <2> QED
    BY <2>1, <2>2 DEF AttemptSound, Attempt, Whole
<1>2. Whole(a)
  OBVIOUS
<1> HIDE DEF a
<1> DEFINE frame == m_pendingFrames[a.id]
<1>3. ASSUME NEW i \in 0 .. a.count - 1
      PROVE  /\ a.id \in DOMAIN m_pendingFrames /\ i \in DOMAIN frame.fragments
             /\ frame.fragmentCount = a.count
  <2> DEFINE e == Datagrams(a, j)[i]
  <2>1. e \in Sent(a, j)
    BY <1>1 DEF Sent
  <2>2. e = [key |-> a.id, timestampMs |-> a.timestampMs, frameSize |-> a.size,
             fragmentCount |-> a.count, fragmentIndex |-> i,
             payload |-> [size |-> PayloadLength(a.size, i), content |-> j]]
    BY <1>1, DatagramIs
  <2>3. e.key = a.id /\ e.fragmentIndex = i /\ e.fragmentCount = a.count
    BY <2>2
  <2> HIDE DEF e
  <2>4. a.id \in DOMAIN m_pendingFrames /\ e \in Origins(a.id, frame)
    BY <2>1, <2>3, HeldUnderKey
  <2> HIDE DEF frame
  <2>5. PICK k \in DOMAIN frame.fragments : e = Origin(a.id, frame, k)
    BY <2>4 DEF Origins
  <2>6. e.fragmentIndex = k /\ e.fragmentCount = frame.fragmentCount
    BY <2>5 DEF Origin
  <2> QED
    BY <2>3, <2>4, <2>5, <2>6
<1>4. 0 \in 0 .. a.count - 1
  BY <1>1
<1>5. FrameSound(frame) /\ Lacks(frame)
  BY <1>3, <1>4 DEF LinkInv, StoreInv, StoreSound, Settled, Store
<1> HIDE DEF frame
<1>6. DOMAIN frame.fragments = 0 .. a.count - 1 /\ frame.fragmentCount = a.count
  BY <1>3, <1>4, <1>5 DEF FrameSound
<1>7. Cardinality(DOMAIN frame.fragments) = a.count
  BY <1>1, <1>6, IndexesCounted
<1> QED
  BY <1>1, <1>5, <1>6, <1>7 DEF Lacks

\* When everything written has arrived in time, in whatever order and however often,
\* every frame written whole has been received, but for one that takes over an id:
\* nothing of it is evicted, rejected or left behind, as long as there is room for all.
THEOREM EverythingArrives == LinkSpec => [](Room => WrittenIsReceived)
<1> DEFINE Inv == LinkInv /\ (Room => NothingLost)
<1>1. LinkInit => Inv
  <2>1. LinkInit => NothingLost
    BY DEF LinkInit, NothingLost
  <2> QED
    BY <2>1, LinkInitInv
<1>2. Inv /\ [LinkNext]_linkVars => Inv'
  <2>1. LinkInv /\ [LinkNext]_linkVars => LinkInv'
    BY SendKeeps, ArriveKeeps, OthersKeep DEF LinkNext
  <2>2. LinkInv /\ Room /\ NothingLost /\ [LinkNext]_linkVars => NothingLost'
    BY StepLosesNothing
  <2>3. Room' = Room
    BY DEF Room
  <2> QED
    BY <2>1, <2>2, <2>3
<1>3. Inv => (Room => WrittenIsReceived)
  BY AllHeldIsDelivered DEF WrittenIsReceived, Faultless
<1> HIDE DEF Inv
<1> QED
  BY <1>1, <1>2, <1>3, PTL DEF LinkSpec
=============================================================================
