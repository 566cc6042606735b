------------------------ MODULE VideoFrameReassembler -----------------------
(***************************************************************************)
(* VideoFrameReassembler: collects the fragments of JPEG frames that UDP   *)
(* delivers in any order, within limits on frames, bytes and time.  The    *)
(* caller (VideoUdpTransport) passes in the time; any datagram the parser  *)
(* lets through may come from anyone, so frames need not fit together.     *)
(***************************************************************************)
EXTENDS Integers, FiniteSets, Functions

CONSTANTS
  FrameKey,      \* sender address, port, session and frame id: numbers in the
                 \* order of frameKeyLess
  Datagram,      \* what parseVideoFragment accepts, with its sender
  MaximumPendingFrameCount,     \* 16
  MaximumPendingPayloadBytes,   \* 16 MiB
  FrameTimeoutMs,               \* 500
  MaximumFrameSize,             \* 4 MiB, VideoPacketProtocol
  MaxTime                       \* bound: of the clock

Payload == [size : Nat \ {0}, content : Nat]
Fragment == [key : FrameKey, timestampMs : Nat, frameSize : 1 .. MaximumFrameSize,
             fragmentCount : Nat \ {0}, fragmentIndex : Nat, payload : Payload]

ASSUME KeysAssumption == FrameKey \subseteq Nat
ASSUME DatagramAssumption ==
  /\ Datagram \subseteq Fragment
  /\ \A d \in Datagram : /\ d.fragmentIndex < d.fragmentCount
                         /\ d.payload.size <= d.frameSize
ASSUME LimitsAssumption ==
  /\ MaximumPendingFrameCount \in Nat \ {0}
  /\ MaximumPendingPayloadBytes \in Nat
  /\ FrameTimeoutMs \in Nat
  /\ MaximumFrameSize \in Nat /\ MaximumFrameSize <= MaximumPendingPayloadBytes
  /\ MaxTime \in Nat

VARIABLES
  m_pendingFrames,         \* key -> PendingFrame
  m_pendingPayloadBytes,
  now,                     \* the transport's monotonic clock
  result,                  \* AddResult of the last addDatagram
  completedFrame           \* what it delivered, if it was "Completed"

vars == <<m_pendingFrames, m_pendingPayloadBytes, now, result, completedFrame>>

Empty == [k \in {} |-> 0]
NoFrame == [key |-> 0, frameSize |-> 0, timestampMs |-> 0, fragments |-> Empty]

Init ==
  /\ m_pendingFrames = Empty
  /\ m_pendingPayloadBytes = 0
  /\ now = 0
  /\ result = "None"
  /\ completedFrame = NoFrame
-----------------------------------------------------------------------------
(* A frame store is the pair of the hash and the byte counter. *)

Store == [frames |-> m_pendingFrames, bytes |-> m_pendingPayloadBytes]

\* The sum of the values of a function, its units counted one by one: a sum
\* without a recursion can be proved about.
Total(f) == Cardinality(UNION {{x} \X (1 .. f[x]) : x \in DOMAIN f})

BytesOf(frames, keys) == Total([k \in keys |-> frames[k].receivedBytes])

\* Mutant: the byte counter is not taken down.
Remove_KeepsCounter(store, keys) ==
  [frames |-> Restrict(store.frames, DOMAIN store.frames \ keys),
   bytes |-> store.bytes]

\* removePendingFrame for each of the keys; the counter stops at zero.
Remove(store, keys) ==
  LET removed == BytesOf(store.frames, keys)
  IN [frames |-> Restrict(store.frames, DOMAIN store.frames \ keys),
      bytes |-> IF removed > store.bytes THEN 0 ELSE store.bytes - removed]

\* Mutant: a frame goes at the limit, not after it.
Expired_AtLimit(store) ==
  {k \in DOMAIN store.frames :
     now - store.frames[k].lastUpdatedAtMs >= FrameTimeoutMs}

Expired(store) ==
  {k \in DOMAIN store.frames :
     now - store.frames[k].lastUpdatedAtMs > FrameTimeoutMs}

\* The order removeOldestPendingFrame goes by: last update, creation, key.
Older(frames, j, k) ==
  \/ frames[j].lastUpdatedAtMs < frames[k].lastUpdatedAtMs
  \/ /\ frames[j].lastUpdatedAtMs = frames[k].lastUpdatedAtMs
     /\ \/ frames[j].createdAtMs < frames[k].createdAtMs
        \/ frames[j].createdAtMs = frames[k].createdAtMs /\ j < k

\* The sets of frames that removing the oldest one several times can remove.
OldestSets(frames, keys) ==
  {S \in SUBSET keys : \A j \in S, k \in keys \ S : Older(frames, j, k)}

\* The sets of frames it takes to make a store fit are "enough": they go one by
\* one, and no more than needed.
Evict(store, enough) ==
  Remove(store, CHOOSE S \in enough :
                  \A T \in enough : Cardinality(S) <= Cardinality(T))

EvictForCount(store) ==
  Evict(store, {S \in OldestSets(store.frames, DOMAIN store.frames) :
                  Cardinality(DOMAIN store.frames \ S) < MaximumPendingFrameCount})

\* Mutant: the frame being extended may be evicted for its own fragment.
MakeRoomForPayload_Unprotected(store, size, protected) ==
  Evict(store, {S \in OldestSets(store.frames, DOMAIN store.frames) :
                  Remove(store, S).bytes <= MaximumPendingPayloadBytes - size})

\* makeRoomForPayload; the frame being extended is protected.  The frame size
\* limit leaves room for that frame alone, so this cannot fail.
MakeRoomForPayload(store, size, protected) ==
  Evict(store, {S \in OldestSets(store.frames, DOMAIN store.frames \ protected) :
                  Remove(store, S).bytes <= MaximumPendingPayloadBytes - size})

NewFrame(d) ==
  [frameSize |-> d.frameSize, fragmentCount |-> d.fragmentCount,
   timestampMs |-> d.timestampMs, fragments |-> Empty, receivedBytes |-> 0,
   createdAtMs |-> now, lastUpdatedAtMs |-> now]

\* Stores the fragment in the (known or new) frame of its key.
AddFragment(store, d) ==
  LET old == IF d.key \in DOMAIN store.frames
             THEN store.frames[d.key] ELSE NewFrame(d)
      new == [old EXCEPT
                !.fragments = [i \in DOMAIN @ \cup {d.fragmentIndex} |->
                                 IF i = d.fragmentIndex THEN d.payload ELSE @[i]],
                !.receivedBytes = @ + d.payload.size,
                !.lastUpdatedAtMs = now]
  IN [frames |-> [k \in DOMAIN store.frames \cup {d.key} |->
                    IF k = d.key THEN new ELSE store.frames[k]],
      bytes |-> store.bytes + d.payload.size]
-----------------------------------------------------------------------------
(* The outcomes of addDatagram, s being the store without expired frames. *)

\* Mutant: the timestamp is not compared.
SameMetadata_AnyTime(frame, d) ==
  frame.frameSize = d.frameSize /\ frame.fragmentCount = d.fragmentCount

SameMetadata(frame, d) ==
  /\ frame.frameSize = d.frameSize
  /\ frame.fragmentCount = d.fragmentCount
  /\ frame.timestampMs = d.timestampMs

Returns(outcome, store) ==
  /\ result' = outcome
  /\ m_pendingFrames' = store.frames
  /\ m_pendingPayloadBytes' = store.bytes

\* The fragment does not fit what is known of its frame: both are dropped.
Contradicts(frame, d) ==
  \/ ~SameMetadata(frame, d)
  \/ /\ d.fragmentIndex \in DOMAIN frame.fragments
     /\ frame.fragments[d.fragmentIndex] # d.payload
  \/ /\ d.fragmentIndex \notin DOMAIN frame.fragments
     /\ frame.receivedBytes > frame.frameSize - d.payload.size

RejectWithFrame(s, d) ==
  /\ d.key \in DOMAIN s.frames /\ Contradicts(s.frames[d.key], d)
  /\ Returns("Rejected", Remove(s, {d.key}))
  /\ UNCHANGED completedFrame

\* The same fragment again: the frame lives on as if it were new.
Duplicate(s, d) ==
  /\ d.key \in DOMAIN s.frames
  /\ ~Contradicts(s.frames[d.key], d)
  /\ d.fragmentIndex \in DOMAIN s.frames[d.key].fragments
  /\ Returns("Duplicate",
             [s EXCEPT !.frames[d.key].lastUpdatedAtMs = now])
  /\ UNCHANGED completedFrame

IsNews(s, d) ==
  d.key \in DOMAIN s.frames =>
    /\ ~Contradicts(s.frames[d.key], d)
    /\ d.fragmentIndex \notin DOMAIN s.frames[d.key].fragments

\* The store with room made and the fragment in it.
Extended(s, d) ==
  AddFragment(
    IF d.key \in DOMAIN s.frames
    THEN MakeRoomForPayload(s, d.payload.size, {d.key})
    ELSE MakeRoomForPayload(EvictForCount(s), d.payload.size, {}),
    d)

\* Mutant: a frame waits for its bytes, not for its fragments.
AllReceived_ByBytes(frame) == frame.receivedBytes = frame.frameSize

AllReceived(frame) == Cardinality(DOMAIN frame.fragments) = frame.fragmentCount

Accept(s, d) ==
  /\ IsNews(s, d)
  /\ ~AllReceived(Extended(s, d).frames[d.key])
  /\ Returns("Accepted", Extended(s, d))
  /\ UNCHANGED completedFrame

\* Mutant: the size of the whole frame is not checked.
SizeAsDeclared_Unchecked(frame) == TRUE

SizeAsDeclared(frame) == frame.receivedBytes = frame.frameSize

\* The last fragment: the frame leaves the store, complete or of a wrong size.
Complete(s, d) ==
  LET frame == Extended(s, d).frames[d.key]
  IN /\ IsNews(s, d) /\ AllReceived(frame)
     /\ Returns(IF SizeAsDeclared(frame) THEN "Completed" ELSE "Rejected",
                Remove(Extended(s, d), {d.key}))
     /\ completedFrame' = IF SizeAsDeclared(frame)
                          THEN [key |-> d.key, frameSize |-> frame.frameSize,
                                timestampMs |-> d.timestampMs,
                                fragments |-> frame.fragments]
                          ELSE completedFrame

AddDatagram(d) ==
  /\ LET s == Remove(Store, Expired(Store))
     IN RejectWithFrame(s, d) \/ Duplicate(s, d) \/ Accept(s, d) \/ Complete(s, d)
  /\ UNCHANGED now

\* The transport's timer: removeExpiredFrames.
RemoveExpiredFrames ==
  /\ m_pendingFrames' = Remove(Store, Expired(Store)).frames
  /\ m_pendingPayloadBytes' = Remove(Store, Expired(Store)).bytes
  /\ UNCHANGED <<now, result, completedFrame>>

\* The transport is closed.
Clear ==
  /\ m_pendingFrames' = Empty
  /\ m_pendingPayloadBytes' = 0
  /\ UNCHANGED <<now, result, completedFrame>>

TimePasses ==
  /\ now < MaxTime
  /\ now' = now + 1
  /\ UNCHANGED <<m_pendingFrames, m_pendingPayloadBytes, result, completedFrame>>

Next == \/ \E d \in Datagram : AddDatagram(d)
        \/ RemoveExpiredFrames \/ Clear \/ TimePasses

Spec == Init /\ [][Next]_vars
-----------------------------------------------------------------------------
\* Every variable keeps its type, the times recorded are in the past, and every
\* pending frame can still be completed: it lacks a fragment and holds no more than
\* it declares; a frame with all its fragments never stays.
TypeOK ==
  /\ DOMAIN m_pendingFrames \subseteq FrameKey
  /\ \A k \in DOMAIN m_pendingFrames :
       LET frame == m_pendingFrames[k]
       IN /\ frame.frameSize \in 1 .. MaximumFrameSize
          /\ frame.fragmentCount \in Nat \ {0}
          /\ DOMAIN frame.fragments \subseteq 0 .. frame.fragmentCount - 1
          /\ Cardinality(DOMAIN frame.fragments) \in 1 .. frame.fragmentCount - 1
          /\ frame.receivedBytes \in 1 .. frame.frameSize
          /\ frame.createdAtMs \in 0 .. frame.lastUpdatedAtMs
          /\ frame.lastUpdatedAtMs \in 0 .. now
  /\ m_pendingPayloadBytes \in Nat
  /\ now \in Nat
  /\ result \in {"None", "Accepted", "Duplicate", "Completed", "Rejected"}

PayloadBytes(frame) ==
  Total([i \in DOMAIN frame.fragments |-> frame.fragments[i].size])

\* The limits hold after every call, 16 frames and 16 MiB (README.md:26), and are
\* limits on what is really stored: the byte counters tell the truth through
\* expiry, eviction, rejection and completion.
WithinLimits ==
  /\ Cardinality(DOMAIN m_pendingFrames) <= MaximumPendingFrameCount
  /\ m_pendingPayloadBytes <= MaximumPendingPayloadBytes
  /\ m_pendingPayloadBytes = BytesOf(m_pendingFrames, DOMAIN m_pendingFrames)
  /\ \A k \in DOMAIN m_pendingFrames :
       m_pendingFrames[k].receivedBytes = PayloadBytes(m_pendingFrames[k])

\* A completed frame consists of its fragments 0 to n-1, they make up the
\* declared size, and they all come from datagrams of one and the same frame,
\* whatever the others announced under its key.
CompletedIntact ==
  result = "Completed" =>
    LET fragments == completedFrame.fragments
        n == Cardinality(DOMAIN fragments)
    IN /\ DOMAIN fragments = 0 .. n - 1
       /\ PayloadBytes(completedFrame) = completedFrame.frameSize
       /\ \A i \in DOMAIN fragments :
            [key |-> completedFrame.key, frameSize |-> completedFrame.frameSize,
             timestampMs |-> completedFrame.timestampMs, fragmentCount |-> n,
             fragmentIndex |-> i, payload |-> fragments[i]] \in Datagram

\* A frame goes for the sake of others only if it has expired or is the oldest:
\* nothing that stays, but for the frame just extended, was touched before it.  And
\* making room never costs the frame it is made for (makeRoomForPayload's
\* protectedKey): one that has not expired never loses a fragment it has.
EvictsOldestFirst ==
  [][/\ result' \in {"Accepted", "Completed"} /\ m_pendingFrames' # Empty =>
          \A j \in DOMAIN m_pendingFrames \ DOMAIN m_pendingFrames' :
            \/ j \in Expired(Store)
            \/ result' = "Completed" /\ j = completedFrame'.key
            \/ \A k \in DOMAIN m_pendingFrames \cap DOMAIN m_pendingFrames' :
                 \/ m_pendingFrames[j].lastUpdatedAtMs
                      <= m_pendingFrames[k].lastUpdatedAtMs
                 \/ m_pendingFrames'[k] # m_pendingFrames[k]
     /\ \A k \in (DOMAIN m_pendingFrames \ Expired(Store))
                   \cap DOMAIN m_pendingFrames' :
          DOMAIN m_pendingFrames[k].fragments
            \subseteq DOMAIN m_pendingFrames'[k].fragments]_vars
=============================================================================
