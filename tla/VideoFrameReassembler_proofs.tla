---------------------- MODULE VideoFrameReassembler_proofs ----------------------
(* Proofs about VideoFrameReassembler: its limits, the truth of its counters,  *)
(* what a completed frame is made of and what eviction takes, for any datagrams *)
(* in any order, any limits and any time.                                      *)
EXTENDS VideoFrameReassembler, FiniteSetTheorems, TLAPS

-----------------------------------------------------------------------------
(* Sums over finite sets. *)

Units(f) == UNION {{x} \X (1 .. f[x]) : x \in DOMAIN f}

LEMMA UnitsFinite ==
  ASSUME NEW S, IsFiniteSet(S), NEW f \in [S -> Nat]
  PROVE  IsFiniteSet(Units(f))
<1> DEFINE parts == {{x} \X (1 .. f[x]) : x \in S}
           part == [x \in S |-> {x} \X (1 .. f[x])]
<1>1. part \in Surjection(S, parts)
  BY DEF Surjection
<1>2. IsFiniteSet(parts)
  BY <1>1, FS_Surjection
<1>3. ASSUME NEW x \in S PROVE IsFiniteSet({x} \X (1 .. f[x]))
  <2>1. f[x] \in Int /\ 1 \in Int
    OBVIOUS
  <2>2. IsFiniteSet(1 .. f[x])
    BY <2>1, FS_Interval
  <2>3. IsFiniteSet({x})
    BY FS_Singleton
  <2> QED
    BY <2>2, <2>3, FS_Product
<1>4. \A T \in parts : IsFiniteSet(T)
  BY <1>3
<1>5. IsFiniteSet(UNION parts)
  BY <1>2, <1>4, FS_UNION
<1>6. UNION parts = Units(f)
  BY DEF Units
<1> QED
  BY <1>5, <1>6

LEMMA TotalIsNat ==
  ASSUME NEW S, IsFiniteSet(S), NEW f \in [S -> Nat]
  PROVE  Total(f) \in Nat
BY UnitsFinite, FS_CardinalityType DEF Total, Units

LEMMA TotalOfNone ==
  ASSUME NEW f, DOMAIN f = {}
  PROVE  Total(f) = 0
<1>1. Units(f) = {}
  BY DEF Units
<1> QED
  BY <1>1, FS_EmptySet DEF Total, Units

LEMMA TotalOfOne ==
  ASSUME NEW x, NEW f, DOMAIN f = {x}, f[x] \in Nat
  PROVE  Total(f) = f[x]
<1>1. PICK n \in Nat : n = f[x]
  OBVIOUS
<1>2. Units(f) = {x} \X (1 .. n)
  BY <1>1 DEF Units
<1>3. IsFiniteSet({x}) /\ Cardinality({x}) = 1
  BY FS_Singleton
<1>4. IsFiniteSet(1 .. n) /\ Cardinality(1 .. n) = n
  <2>1. 1 \in Int /\ n \in Int
    OBVIOUS
  <2>2. /\ IsFiniteSet(1 .. n)
        /\ Cardinality(1 .. n) = IF 1 > n THEN 0 ELSE n - 1 + 1
    BY <2>1, FS_Interval, SMTT(30)
  <2>3. (IF 1 > n THEN 0 ELSE n - 1 + 1) = n
    OBVIOUS
  <2> QED
    BY <2>2, <2>3
<1>5. Cardinality({x} \X (1 .. n)) = Cardinality({x}) * Cardinality(1 .. n)
  BY <1>3, <1>4, FS_Product, SMTT(30)
<1>6. Cardinality({x} \X (1 .. n)) = 1 * n
  BY <1>3, <1>4, <1>5, Zenon
<1>7. 1 * n = n
  OBVIOUS
<1>8. Total(f) = Cardinality(Units(f))
  BY DEF Total, Units
<1> QED
  BY <1>1, <1>2, <1>6, <1>7, <1>8, Zenon

\* A sum is the sum over two parts that have nothing in common.
LEMMA TotalOfParts ==
  ASSUME NEW A, NEW B, IsFiniteSet(A), IsFiniteSet(B), A \cap B = {},
         NEW f \in [A \cup B -> Nat]
  PROVE  Total(f) = Total([x \in A |-> f[x]]) + Total([x \in B |-> f[x]])
<1> DEFINE a == [x \in A |-> f[x]]
           b == [x \in B |-> f[x]]
<1>1. a \in [A -> Nat] /\ b \in [B -> Nat]
  OBVIOUS
<1>2. IsFiniteSet(Units(a)) /\ IsFiniteSet(Units(b))
  BY <1>1, UnitsFinite
<1>3. Units(a) \cap Units(b) = {}
  BY DEF Units
<1>4. Units(f) = Units(a) \cup Units(b)
  <2>1. ASSUME NEW u \in Units(f) PROVE u \in Units(a) \cup Units(b)
    <3>1. PICK x \in A \cup B : u \in {x} \X (1 .. f[x])
      BY DEF Units
    <3>2. CASE x \in A
      <4>1. a[x] = f[x] /\ x \in DOMAIN a
        BY <3>2
      <4> QED
        BY <3>1, <4>1 DEF Units
    <3>3. CASE x \in B
      <4>1. b[x] = f[x] /\ x \in DOMAIN b
        BY <3>3
      <4> QED
        BY <3>1, <4>1 DEF Units
    <3> QED
      BY <3>2, <3>3
  <2>2. Units(a) \cup Units(b) \subseteq Units(f)
    BY DEF Units
  <2> QED
    BY <2>1, <2>2
<1>5. /\ Cardinality(Units(f)) =
           Cardinality(Units(a)) + Cardinality(Units(b)) - Cardinality({})
      /\ Cardinality(Units(a)) \in Nat /\ Cardinality(Units(b)) \in Nat
  BY <1>2, <1>3, <1>4, FS_Union, FS_CardinalityType
<1>6. Cardinality(Units(f)) = Cardinality(Units(a)) + Cardinality(Units(b))
  BY <1>5, FS_EmptySet
<1> QED
  BY <1>6 DEF Total, Units

\* One more summand.
LEMMA TotalWithOne ==
  ASSUME NEW S, IsFiniteSet(S), NEW x, x \notin S, NEW f \in [S \cup {x} -> Nat]
  PROVE  Total(f) = Total([y \in S |-> f[y]]) + f[x]
<1> DEFINE one == {x}
           last == [y \in one |-> f[y]]
<1>1. IsFiniteSet(one) /\ S \cap one = {} /\ f \in [S \cup one -> Nat]
  BY FS_Singleton
<1>2. DOMAIN last = {x} /\ last[x] = f[x] /\ last[x] \in Nat
  OBVIOUS
<1>3. Total(last) = f[x]
  BY <1>2, TotalOfOne
<1> HIDE DEF one
<1>4. Total(f) = Total([y \in S |-> f[y]]) + Total(last)
  BY <1>1, TotalOfParts
<1> QED
  BY <1>3, <1>4

\* No summand exceeds the sum.
LEMMA TotalCovers ==
  ASSUME NEW S, IsFiniteSet(S), NEW f \in [S -> Nat], NEW x \in S
  PROVE  f[x] <= Total(f)
<1> DEFINE R == S \ {x}
<1>1. IsFiniteSet(R) /\ x \notin R /\ S = R \cup {x}
  BY FS_RemoveElement
<1>2. Total(f) = Total([y \in R |-> f[y]]) + f[x]
  BY <1>1, TotalWithOne
<1>3. Total([y \in R |-> f[y]]) \in Nat /\ f[x] \in Nat
  BY <1>1, TotalIsNat
<1> QED
  BY <1>2, <1>3
-----------------------------------------------------------------------------
(* What a store is like: its frames add up and so does its byte counter. *)

PendingFrame ==
  [frameSize : 1 .. MaximumFrameSize, fragmentCount : Nat \ {0}, timestampMs : Nat,
   fragments : UNION {[I -> Payload] : I \in SUBSET Nat}, receivedBytes : Nat,
   createdAtMs : Nat, lastUpdatedAtMs : Nat]

FrameSound(frame) ==
  /\ frame \in PendingFrame
  /\ DOMAIN frame.fragments \subseteq 0 .. frame.fragmentCount - 1
  /\ DOMAIN frame.fragments # {}
  /\ frame.receivedBytes = PayloadBytes(frame)
  /\ frame.receivedBytes \in 1 .. frame.frameSize
  /\ frame.createdAtMs <= frame.lastUpdatedAtMs
  /\ frame.lastUpdatedAtMs <= now

StoreSound(store) ==
  /\ IsFiniteSet(DOMAIN store.frames)
  /\ DOMAIN store.frames \subseteq FrameKey
  /\ store.frames = [k \in DOMAIN store.frames |-> store.frames[k]]
  /\ \A k \in DOMAIN store.frames : FrameSound(store.frames[k])
  /\ store.bytes = BytesOf(store.frames, DOMAIN store.frames)

LEMMA BytesOfSome ==
  ASSUME NEW store, StoreSound(store), NEW keys \in SUBSET DOMAIN store.frames
  PROVE  /\ IsFiniteSet(keys)
         /\ [k \in keys |-> store.frames[k].receivedBytes] \in [keys -> Nat]
         /\ BytesOf(store.frames, keys) \in Nat
<1>1. IsFiniteSet(keys)
  BY FS_Subset DEF StoreSound
<1>2. [k \in keys |-> store.frames[k].receivedBytes] \in [keys -> Nat]
  BY DEF StoreSound, FrameSound, PendingFrame
<1> QED
  BY <1>1, <1>2, TotalIsNat DEF BytesOf

LEMMA BytesIsNat ==
  ASSUME NEW store, StoreSound(store)
  PROVE  store.bytes \in Nat
<1>1. DOMAIN store.frames \in SUBSET DOMAIN store.frames
  OBVIOUS
<1>2. BytesOf(store.frames, DOMAIN store.frames) \in Nat
  BY <1>1, BytesOfSome
<1> QED
  BY <1>2 DEF StoreSound

\* What is left when frames go, and its bytes.
LEMMA RemoveLeaves ==
  ASSUME NEW store, StoreSound(store), NEW keys \in SUBSET DOMAIN store.frames
  PROVE  LET left == Remove(store, keys)
         IN /\ DOMAIN left.frames = DOMAIN store.frames \ keys
            /\ \A k \in DOMAIN left.frames : left.frames[k] = store.frames[k]
            /\ left.bytes = BytesOf(store.frames, DOMAIN store.frames \ keys)
            /\ left.bytes <= store.bytes
            /\ StoreSound(left)
<1> DEFINE left == Remove(store, keys)
           rest == DOMAIN store.frames \ keys
           bytes == [k \in DOMAIN store.frames |-> store.frames[k].receivedBytes]
<1>1. /\ left.frames = [k \in rest |-> store.frames[k]]
      /\ left.bytes = IF BytesOf(store.frames, keys) > store.bytes THEN 0
                      ELSE store.bytes - BytesOf(store.frames, keys)
  BY DEF Remove, Restrict
<1>2. IsFiniteSet(keys) /\ IsFiniteSet(rest) /\ bytes \in [keys \cup rest -> Nat]
  BY BytesOfSome
<1>3. Total(bytes) = Total([k \in keys |-> bytes[k]]) + Total([k \in rest |-> bytes[k]])
  <2>1. keys \cap rest = {}
    OBVIOUS
  <2> HIDE DEF rest, bytes
  <2> QED
    BY <1>2, <2>1, TotalOfParts
<1>4. /\ [k \in keys |-> bytes[k]] = [k \in keys |-> store.frames[k].receivedBytes]
      /\ [k \in rest |-> bytes[k]] = [k \in rest |-> store.frames[k].receivedBytes]
  OBVIOUS
<1>5. store.bytes = BytesOf(store.frames, keys) + BytesOf(store.frames, rest)
  BY <1>3, <1>4 DEF StoreSound, BytesOf
<1>6. BytesOf(store.frames, keys) \in Nat /\ BytesOf(store.frames, rest) \in Nat
  BY BytesOfSome
<1>7. left.bytes = BytesOf(store.frames, rest) /\ left.bytes <= store.bytes
  BY <1>1, <1>5, <1>6
<1>8. DOMAIN left.frames = rest /\ \A k \in rest : left.frames[k] = store.frames[k]
  BY <1>1
<1>9. StoreSound(left)
  <2>1. IsFiniteSet(DOMAIN left.frames) /\ DOMAIN left.frames \subseteq FrameKey
    BY <1>2, <1>8 DEF StoreSound
  <2>2. left.frames = [k \in DOMAIN left.frames |-> left.frames[k]]
    BY <1>1
  <2>3. \A k \in DOMAIN left.frames : FrameSound(left.frames[k])
    BY <1>8 DEF StoreSound
  <2>4. [k \in rest |-> left.frames[k].receivedBytes]
          = [k \in rest |-> store.frames[k].receivedBytes]
    BY <1>8
  <2>5. left.bytes = BytesOf(left.frames, DOMAIN left.frames)
    BY <1>7, <1>8, <2>4 DEF BytesOf
  <2> QED
    BY <2>1, <2>2, <2>3, <2>5 DEF StoreSound
<1> QED
  BY <1>7, <1>8, <1>9

LEMMA RemoveNone ==
  ASSUME NEW store, StoreSound(store)
  PROVE  Remove(store, {}).frames = store.frames /\ Remove(store, {}).bytes = store.bytes
<1>1. DOMAIN store.frames \ {} = DOMAIN store.frames
  OBVIOUS
<1>2. Remove(store, {}).bytes = store.bytes
  <2>1. Remove(store, {}).bytes = BytesOf(store.frames, DOMAIN store.frames \ {})
    BY RemoveLeaves
  <2> QED
    BY <1>1, <2>1 DEF StoreSound
<1>3. Remove(store, {}).frames = [k \in DOMAIN store.frames |-> store.frames[k]]
  BY <1>1 DEF Remove, Restrict
<1> QED
  BY <1>2, <1>3 DEF StoreSound

-----------------------------------------------------------------------------
(* Eviction. *)

\* Among sets of finite size one is the smallest.
LEMMA SmallestExists ==
  ASSUME NEW C, C # {}, \A S \in C : Cardinality(S) \in Nat
  PROVE  \E S \in C : \A T \in C : Cardinality(S) <= Cardinality(T)
<1> DEFINE sizes == {Cardinality(S) : S \in C}
<1>1. sizes \subseteq Nat /\ sizes # {}
  OBVIOUS
<1>2. \E n \in sizes : \A m \in sizes : ~(<<m, n>> \in OpToRel(<, Nat))
  BY <1>1, NatLessThanWellFounded, WFMin
<1>3. PICK n \in sizes : \A m \in sizes : ~(<<m, n>> \in OpToRel(<, Nat))
  BY <1>2
<1>4. \A m \in sizes : ~(m < n)
  BY <1>1, <1>3 DEF OpToRel
<1>5. \A m \in sizes : n <= m
  BY <1>1, <1>4
<1> QED
  BY <1>5

LEMMA EvictTakesLeast ==
  ASSUME NEW store, StoreSound(store),
         NEW enough \in SUBSET SUBSET DOMAIN store.frames, enough # {}
  PROVE  \E S \in enough : /\ Evict(store, enough) = Remove(store, S)
                           /\ {} \in enough => S = {}
<1> DEFINE Least(S) == \A T \in enough : Cardinality(S) <= Cardinality(T)
           chosen == CHOOSE S \in enough : Least(S)
<1>1. \A S \in enough : IsFiniteSet(S) /\ Cardinality(S) \in Nat
  BY FS_Subset, FS_CardinalityType DEF StoreSound
<1>2. chosen \in enough /\ Least(chosen)
  BY <1>1, SmallestExists
<1>3. Evict(store, enough) = Remove(store, chosen)
  BY DEF Evict
<1>4. {} \in enough => chosen = {}
  <2> SUFFICES ASSUME {} \in enough PROVE chosen = {}
    OBVIOUS
  <2>1. Cardinality(chosen) <= 0 /\ Cardinality(chosen) \in Nat
    BY <1>1, <1>2, FS_EmptySet
  <2> QED
    BY <1>1, <1>2, <2>1, FS_EmptySet
<1> QED
  BY <1>2, <1>3, <1>4

\* The count is made to fit by the oldest, and only if it has to be.
LEMMA CountFits ==
  ASSUME NEW store, StoreSound(store)
  PROVE  \E S \in OldestSets(store.frames, DOMAIN store.frames) :
           /\ EvictForCount(store) = Remove(store, S)
           /\ Cardinality(DOMAIN store.frames \ S) < MaximumPendingFrameCount
           /\ Cardinality(DOMAIN store.frames) < MaximumPendingFrameCount => S = {}
<1> DEFINE all == DOMAIN store.frames
           enough == {S \in OldestSets(store.frames, all) :
                        Cardinality(all \ S) < MaximumPendingFrameCount}
<1>1. all \in OldestSets(store.frames, all) /\ {} \in OldestSets(store.frames, all)
  BY DEF OldestSets
<1>2. all \ all = {} /\ all \ {} = all
  OBVIOUS
<1>3. all \in enough
  BY <1>1, <1>2, FS_EmptySet, LimitsAssumption
<1>4. enough \in SUBSET SUBSET all
  BY DEF OldestSets
<1>5. Cardinality(all) < MaximumPendingFrameCount => {} \in enough
  BY <1>1, <1>2
<1>6. EvictForCount(store) = Evict(store, enough)
  BY DEF EvictForCount
<1> HIDE DEF enough
<1>7. PICK S \in enough : /\ Evict(store, enough) = Remove(store, S)
                          /\ {} \in enough => S = {}
  BY <1>3, <1>4, EvictTakesLeast
<1> QED
  BY <1>5, <1>6, <1>7 DEF enough

\* The bytes are made to fit by the oldest but the protected, if these leave room.
LEMMA RoomIsMade ==
  ASSUME NEW store, StoreSound(store), NEW size \in Nat,
         NEW protected \in SUBSET DOMAIN store.frames,
         BytesOf(store.frames, protected) <= MaximumPendingPayloadBytes - size
  PROVE  \E S \in OldestSets(store.frames, DOMAIN store.frames \ protected) :
           /\ MakeRoomForPayload(store, size, protected) = Remove(store, S)
           /\ Remove(store, S).bytes <= MaximumPendingPayloadBytes - size
           /\ store.bytes <= MaximumPendingPayloadBytes - size => S = {}
<1> DEFINE others == DOMAIN store.frames \ protected
           enough == {S \in OldestSets(store.frames, others) :
                        Remove(store, S).bytes <= MaximumPendingPayloadBytes - size}
<1>1. others \in OldestSets(store.frames, others) /\ {} \in OldestSets(store.frames, others)
  BY DEF OldestSets
<1>2. others \in SUBSET DOMAIN store.frames /\ DOMAIN store.frames \ others = protected
  OBVIOUS
<1>3. Remove(store, others).bytes = BytesOf(store.frames, protected)
  <2>1. Remove(store, others).bytes = BytesOf(store.frames, DOMAIN store.frames \ others)
    BY <1>2, RemoveLeaves
  <2> QED
    BY <1>2, <2>1
<1>4. others \in enough
  BY <1>1, <1>3
<1>5. enough \in SUBSET SUBSET DOMAIN store.frames
  BY DEF OldestSets
<1>6. store.bytes <= MaximumPendingPayloadBytes - size => {} \in enough
  BY <1>1, RemoveNone
<1>7. MakeRoomForPayload(store, size, protected) = Evict(store, enough)
  BY DEF MakeRoomForPayload
<1> HIDE DEF enough
<1>8. PICK S \in enough : /\ Evict(store, enough) = Remove(store, S)
                          /\ {} \in enough => S = {}
  BY <1>4, <1>5, EvictTakesLeast
<1> QED
  BY <1>6, <1>7, <1>8 DEF enough

-----------------------------------------------------------------------------
(* A fragment comes in. *)

\* What a datagram must be like for the reassembler; where it is from is left open.
Valid(d) ==
  d \in Fragment /\ d.fragmentIndex < d.fragmentCount /\ d.payload.size <= d.frameSize

\* The frame d goes to, before and after.
Before(store, d) == IF d.key \in DOMAIN store.frames THEN store.frames[d.key] ELSE NewFrame(d)
After(store, d) == AddFragment(store, d).frames[d.key]

LEMMA ValidFields ==
  ASSUME NEW d, Valid(d)
  PROVE  /\ d.key \in FrameKey /\ d.timestampMs \in Nat
         /\ d.frameSize \in 1 .. MaximumFrameSize
         /\ d.fragmentCount \in Nat \ {0}
         /\ d.fragmentIndex \in 0 .. d.fragmentCount - 1
         /\ d.payload \in Payload /\ d.payload.size \in Nat \ {0}
         /\ d.payload.size <= d.frameSize
BY DEF Valid, Fragment, Payload

\* A frame before and after a fragment is added, field by field.
Extends(old, new, d) ==
  /\ old \in PendingFrame /\ new \in PendingFrame
  /\ old.frameSize = d.frameSize /\ new.frameSize = d.frameSize
  /\ old.fragmentCount = d.fragmentCount /\ new.fragmentCount = d.fragmentCount
  /\ old.timestampMs = d.timestampMs /\ new.timestampMs = d.timestampMs
  /\ d.fragmentIndex \notin DOMAIN old.fragments
  /\ DOMAIN new.fragments = DOMAIN old.fragments \cup {d.fragmentIndex}
  /\ new.fragments[d.fragmentIndex] = d.payload
  /\ \A i \in DOMAIN old.fragments : new.fragments[i] = old.fragments[i]
  /\ new.receivedBytes = old.receivedBytes + d.payload.size
  /\ new.createdAtMs = old.createdAtMs /\ new.lastUpdatedAtMs = now

LEMMA AddFragmentExtends ==
  ASSUME NEW store, StoreSound(store), NEW d, Valid(d), IsNews(store, d), now \in Nat
  PROVE  LET more == AddFragment(store, d)
         IN /\ DOMAIN more.frames = DOMAIN store.frames \cup {d.key}
            /\ more.frames = [k \in DOMAIN more.frames |-> more.frames[k]]
            /\ \A k \in DOMAIN store.frames \ {d.key} : more.frames[k] = store.frames[k]
            /\ more.bytes = store.bytes + d.payload.size
            /\ Extends(Before(store, d), After(store, d), d)
<1> DEFINE old == Before(store, d)
           new == After(store, d)
           more == AddFragment(store, d)
           extended ==
             [old EXCEPT
                !.fragments = [i \in DOMAIN @ \cup {d.fragmentIndex} |->
                                 IF i = d.fragmentIndex THEN d.payload ELSE @[i]],
                !.receivedBytes = @ + d.payload.size,
                !.lastUpdatedAtMs = now]
<1>1. /\ more.frames = [k \in DOMAIN store.frames \cup {d.key} |->
                          IF k = d.key THEN extended ELSE store.frames[k]]
      /\ more.bytes = store.bytes + d.payload.size
  BY DEF AddFragment, Before
<1>2. new = extended
  BY <1>1 DEF After
<1>3. /\ old \in PendingFrame
      /\ old.frameSize = d.frameSize /\ old.fragmentCount = d.fragmentCount
      /\ old.timestampMs = d.timestampMs
      /\ d.fragmentIndex \notin DOMAIN old.fragments
  <2>1. CASE d.key \in DOMAIN store.frames
    <3>1. old = store.frames[d.key] /\ old \in PendingFrame
      BY <2>1 DEF Before, StoreSound, FrameSound
    <3>2. SameMetadata(old, d) /\ d.fragmentIndex \notin DOMAIN old.fragments
      BY <2>1, <3>1 DEF IsNews, Contradicts
    <3> QED
      BY <3>1, <3>2 DEF SameMetadata
  <2>2. CASE d.key \notin DOMAIN store.frames
    <3>1. old = NewFrame(d)
      BY <2>2 DEF Before
    <3>2. Empty \in [{} -> Payload] /\ {} \in SUBSET Nat /\ DOMAIN Empty = {}
      BY DEF Empty
    <3>3. NewFrame(d) \in PendingFrame
      BY <3>2, ValidFields DEF NewFrame, PendingFrame
    <3> QED
      BY <3>1, <3>2, <3>3 DEF NewFrame
  <2> QED
    BY <2>1, <2>2
<1>4. PICK I \in SUBSET Nat : old.fragments \in [I -> Payload]
  BY <1>3 DEF PendingFrame
<1> HIDE DEF old, more, new
<1>5. /\ extended.fragments = [i \in DOMAIN old.fragments \cup {d.fragmentIndex} |->
                                 IF i = d.fragmentIndex THEN d.payload ELSE old.fragments[i]]
      /\ extended.receivedBytes = old.receivedBytes + d.payload.size
      /\ extended.lastUpdatedAtMs = now /\ extended.createdAtMs = old.createdAtMs
      /\ extended.frameSize = old.frameSize /\ extended.fragmentCount = old.fragmentCount
      /\ extended.timestampMs = old.timestampMs
  BY <1>3 DEF PendingFrame
<1>6. extended \in PendingFrame
  <2>1. d.fragmentIndex \in Nat /\ d.payload \in Payload /\ d.payload.size \in Nat
    BY ValidFields
  <2>2. extended.fragments \in [I \cup {d.fragmentIndex} -> Payload]
    BY <1>4, <1>5, <2>1
  <2>3. I \cup {d.fragmentIndex} \in SUBSET Nat
    BY <2>1
  <2>4. extended.fragments \in UNION {[J -> Payload] : J \in SUBSET Nat}
    BY <2>2, <2>3
  <2>5. extended.receivedBytes \in Nat
    BY <1>3, <1>5, <2>1 DEF PendingFrame
  <2> HIDE DEF extended
  <2>6. extended = [old EXCEPT !.fragments = extended.fragments,
                               !.receivedBytes = extended.receivedBytes,
                               !.lastUpdatedAtMs = now]
    BY <1>5 DEF extended
  <2> QED
    BY <1>3, <2>4, <2>5, <2>6 DEF PendingFrame
<1> HIDE DEF extended
<1>7. Extends(old, new, d)
  BY <1>2, <1>3, <1>5, <1>6 DEF Extends
<1> QED
  BY <1>1, <1>7 DEF old, more, new

\* What d's frame held adds up, also when it held nothing.
LEMMA BeforeAddsUp ==
  ASSUME NEW store, StoreSound(store), NEW d, Valid(d), IsNews(store, d), now \in Nat
  PROVE  LET old == Before(store, d)
         IN /\ old.receivedBytes = PayloadBytes(old)
            /\ old.receivedBytes + d.payload.size <= d.frameSize
            /\ DOMAIN old.fragments \subseteq 0 .. d.fragmentCount - 1
            /\ old.createdAtMs <= now
            /\ d.key \notin DOMAIN store.frames => old.receivedBytes = 0
<1> DEFINE old == Before(store, d)
<1>1. CASE d.key \in DOMAIN store.frames
  <2>1. old = store.frames[d.key] /\ FrameSound(old)
    BY <1>1 DEF Before, StoreSound
  <2>2. ~Contradicts(old, d) /\ d.fragmentIndex \notin DOMAIN old.fragments
    BY <1>1, <2>1 DEF IsNews
  <2>3. /\ old.frameSize = d.frameSize /\ old.fragmentCount = d.fragmentCount
        /\ ~(old.receivedBytes > old.frameSize - d.payload.size)
    BY <2>2 DEF Contradicts, SameMetadata
  <2>4. /\ old.receivedBytes \in Nat /\ old.createdAtMs \in Nat
        /\ old.lastUpdatedAtMs \in Nat
    BY <2>1 DEF FrameSound, PendingFrame
  <2>5. d.frameSize \in Int /\ d.payload.size \in Nat
    BY ValidFields
  <2> HIDE DEF old
  <2> QED
    BY <1>1, <2>1, <2>3, <2>4, <2>5 DEF FrameSound, old
<1>2. CASE d.key \notin DOMAIN store.frames
  <2>1. old = NewFrame(d)
    BY <1>2 DEF Before
  <2>2. DOMAIN old.fragments = {} /\ old.receivedBytes = 0 /\ old.createdAtMs = now
    BY <2>1 DEF NewFrame, Empty
  <2>3. PayloadBytes(old) = 0
    BY <2>2, TotalOfNone DEF PayloadBytes
  <2>4. d.payload.size <= d.frameSize /\ d.payload.size \in Nat
    BY ValidFields
  <2> HIDE DEF old
  <2> QED
    BY <2>2, <2>3, <2>4 DEF old
<1> QED
  BY <1>1, <1>2

LEMMA AfterSound ==
  ASSUME NEW store, StoreSound(store), NEW d, Valid(d), IsNews(store, d), now \in Nat
  PROVE  FrameSound(After(store, d))
<1> DEFINE old == Before(store, d)
           new == After(store, d)
           sizes == [i \in DOMAIN new.fragments |-> new.fragments[i].size]
<1>1. Extends(old, new, d)
  BY AddFragmentExtends
<1>2. /\ old.receivedBytes = PayloadBytes(old)
      /\ old.receivedBytes + d.payload.size <= d.frameSize
      /\ DOMAIN old.fragments \subseteq 0 .. d.fragmentCount - 1
      /\ old.createdAtMs <= now
  BY BeforeAddsUp
<1>3. /\ d.fragmentCount \in Nat \ {0} /\ d.fragmentIndex \in 0 .. d.fragmentCount - 1
      /\ d.payload.size \in Nat \ {0} /\ d.frameSize \in Nat
  BY ValidFields
<1> HIDE DEF old, new
<1>4. old.receivedBytes \in Nat
  BY <1>1 DEF Extends, PendingFrame
<1>5. PayloadBytes(new) = PayloadBytes(old) + d.payload.size
  <2>1. IsFiniteSet(DOMAIN old.fragments)
    <3>1. 0 \in Int /\ d.fragmentCount - 1 \in Int
      BY <1>3
    <3>2. IsFiniteSet(0 .. d.fragmentCount - 1)
      BY <3>1, FS_Interval
    <3> QED
      BY <1>2, <3>2, FS_Subset
  <2>2. PICK I \in SUBSET Nat : new.fragments \in [I -> Payload]
    BY <1>1 DEF Extends, PendingFrame
  <2>3. \A i \in DOMAIN new.fragments : new.fragments[i].size \in Nat
    BY <2>2 DEF Payload
  <2>4. sizes \in [DOMAIN old.fragments \cup {d.fragmentIndex} -> Nat]
    BY <1>1, <2>3 DEF Extends
  <2>5. [i \in DOMAIN old.fragments |-> sizes[i]]
          = [i \in DOMAIN old.fragments |-> old.fragments[i].size]
    BY <1>1 DEF Extends
  <2>6. sizes[d.fragmentIndex] = d.payload.size
    BY <1>1 DEF Extends
  <2>7. PayloadBytes(new) = Total(sizes)
    BY DEF PayloadBytes
  <2> HIDE DEF sizes
  <2>8. Total(sizes) = Total([i \in DOMAIN old.fragments |-> sizes[i]])
                         + sizes[d.fragmentIndex]
    <3>1. d.fragmentIndex \notin DOMAIN old.fragments
      BY <1>1 DEF Extends
    <3> QED
      BY <2>1, <2>4, <3>1, TotalWithOne
  <2> QED
    BY <2>5, <2>6, <2>7, <2>8 DEF PayloadBytes
<1>6. new.receivedBytes = PayloadBytes(new) /\ new.receivedBytes \in 1 .. new.frameSize
  BY <1>1, <1>2, <1>3, <1>4, <1>5 DEF Extends
<1>7. DOMAIN new.fragments \subseteq 0 .. new.fragmentCount - 1 /\ DOMAIN new.fragments # {}
  BY <1>1, <1>2, <1>3 DEF Extends
<1>8. new.createdAtMs <= new.lastUpdatedAtMs /\ new.lastUpdatedAtMs <= now
  BY <1>1, <1>2 DEF Extends
<1>9. FrameSound(new)
  BY <1>1, <1>6, <1>7, <1>8 DEF Extends, FrameSound
<1> QED
  BY <1>9 DEF new

LEMMA AddFragmentSound ==
  ASSUME NEW store, StoreSound(store), NEW d, Valid(d), IsNews(store, d), now \in Nat
  PROVE  StoreSound(AddFragment(store, d))
<1> DEFINE old == Before(store, d)
           more == AddFragment(store, d)
           rest == DOMAIN store.frames \ {d.key}
           newBytes == [k \in DOMAIN more.frames |-> more.frames[k].receivedBytes]
           oldBytes == [k \in DOMAIN store.frames |-> store.frames[k].receivedBytes]
<1>1. /\ DOMAIN more.frames = DOMAIN store.frames \cup {d.key}
      /\ more.frames = [k \in DOMAIN more.frames |-> more.frames[k]]
      /\ \A k \in rest : more.frames[k] = store.frames[k]
      /\ more.bytes = store.bytes + d.payload.size
      /\ more.frames[d.key].receivedBytes = old.receivedBytes + d.payload.size
  BY AddFragmentExtends DEF Extends, After
<1>2. FrameSound(more.frames[d.key])
  BY AfterSound DEF After
<1>3. \A k \in DOMAIN more.frames : FrameSound(more.frames[k])
  BY <1>1, <1>2 DEF StoreSound
<1>4. /\ IsFiniteSet(DOMAIN more.frames) /\ DOMAIN more.frames \subseteq FrameKey
      /\ IsFiniteSet(rest)
  BY <1>1, ValidFields, FS_AddElement, FS_RemoveElement DEF StoreSound
<1>5. /\ newBytes \in [DOMAIN more.frames -> Nat]
      /\ oldBytes \in [DOMAIN store.frames -> Nat]
  BY <1>3 DEF FrameSound, PendingFrame, StoreSound
<1>6. DOMAIN more.frames = rest \cup {d.key} /\ d.key \notin rest
  BY <1>1
<1>7. [k \in rest |-> newBytes[k]] = [k \in rest |-> oldBytes[k]]
  BY <1>1
<1>8. newBytes[d.key] = old.receivedBytes + d.payload.size
  BY <1>1
<1>9. store.bytes = Total(oldBytes) /\ BytesOf(more.frames, DOMAIN more.frames) = Total(newBytes)
  BY DEF StoreSound, BytesOf
<1>10. old.receivedBytes \in Nat /\ d.payload.size \in Nat
  BY AddFragmentExtends, ValidFields DEF Extends, PendingFrame
<1>11. Total(oldBytes) = Total([k \in rest |-> oldBytes[k]]) + old.receivedBytes
  <2>1. CASE d.key \in DOMAIN store.frames
    <3>1. DOMAIN store.frames = rest \cup {d.key}
      BY <2>1
    <3>2. oldBytes[d.key] = old.receivedBytes
      BY <2>1 DEF Before
    <3> HIDE DEF rest, oldBytes, old, more, newBytes
    <3>3. oldBytes \in [rest \cup {d.key} -> Nat]
      BY <1>5, <3>1
    <3>4. Total(oldBytes) = Total([k \in rest |-> oldBytes[k]]) + oldBytes[d.key]
      BY <1>4, <1>6, <3>3, TotalWithOne
    <3> QED
      BY <3>2, <3>4
  <2>2. CASE d.key \notin DOMAIN store.frames
    <3>1. rest = DOMAIN store.frames /\ oldBytes = [k \in rest |-> oldBytes[k]]
      BY <2>2
    <3>2. old.receivedBytes = 0
      BY <2>2, BeforeAddsUp
    <3>3. Total(oldBytes) \in Nat
      BY <1>5, TotalIsNat DEF StoreSound
    <3> HIDE DEF rest, oldBytes, old
    <3> QED
      BY <3>1, <3>2, <3>3
  <2> QED
    BY <2>1, <2>2
<1>12. Total(newBytes) = Total([k \in rest |-> newBytes[k]]) + newBytes[d.key]
  <2> HIDE DEF rest, newBytes, more
  <2> QED
    BY <1>4, <1>5, <1>6, TotalWithOne
<1>13. Total([k \in rest |-> oldBytes[k]]) \in Nat
  BY <1>4, <1>5, TotalIsNat
<1>14. Total(newBytes) = Total(oldBytes) + d.payload.size
  <2> HIDE DEF rest, newBytes, oldBytes, old
  <2> QED
    BY <1>7, <1>8, <1>10, <1>11, <1>12, <1>13
<1>15. more.bytes = BytesOf(more.frames, DOMAIN more.frames)
  <2> HIDE DEF newBytes, oldBytes, more
  <2> QED
    BY <1>1, <1>9, <1>14
<1> QED
  BY <1>1, <1>3, <1>4, <1>15 DEF StoreSound

\* Removing twice is removing once.
LEMMA RemoveTwice ==
  ASSUME NEW store, StoreSound(store), NEW S \in SUBSET DOMAIN store.frames,
         NEW T \in SUBSET (DOMAIN store.frames \ S)
  PROVE  Remove(Remove(store, S), T) = Remove(store, S \cup T)
<1> DEFINE first == Remove(store, S)
           second == Remove(first, T)
           once == Remove(store, S \cup T)
           rest == DOMAIN store.frames \ (S \cup T)
<1>1. /\ StoreSound(first) /\ DOMAIN first.frames = DOMAIN store.frames \ S
      /\ \A k \in DOMAIN first.frames : first.frames[k] = store.frames[k]
  BY RemoveLeaves
<1>2. T \in SUBSET DOMAIN first.frames
  BY <1>1
<1> HIDE DEF first
<1>3. /\ StoreSound(second) /\ DOMAIN second.frames = DOMAIN first.frames \ T
      /\ \A k \in DOMAIN second.frames : second.frames[k] = first.frames[k]
  BY <1>1, <1>2, RemoveLeaves
<1>4. S \cup T \in SUBSET DOMAIN store.frames
  OBVIOUS
<1>5. /\ StoreSound(once) /\ DOMAIN once.frames = rest
      /\ \A k \in DOMAIN once.frames : once.frames[k] = store.frames[k]
  BY <1>4, RemoveLeaves
<1>6. DOMAIN second.frames = rest
  BY <1>1, <1>3
<1>7. /\ second = [frames |-> second.frames, bytes |-> second.bytes]
      /\ once = [frames |-> once.frames, bytes |-> once.bytes]
  BY DEF Remove
<1> HIDE DEF second, once, rest
<1>8. \A k \in rest : second.frames[k] = once.frames[k]
  BY <1>1, <1>3, <1>5, <1>6
<1>9. /\ second.frames = [k \in rest |-> second.frames[k]]
      /\ once.frames = [k \in rest |-> once.frames[k]]
  BY <1>3, <1>5, <1>6 DEF StoreSound
<1>10. second.frames = once.frames
  BY <1>8, <1>9
<1>11. second.bytes = once.bytes
  BY <1>3, <1>5, <1>10 DEF StoreSound
<1>12. second = once
  BY <1>7, <1>10, <1>11
<1> QED
  BY <1>12 DEF first, second, once

\* There is room for a fragment.
Fits(store, d) ==
  /\ \/ d.key \in DOMAIN store.frames
     \/ Cardinality(DOMAIN store.frames) < MaximumPendingFrameCount
  /\ store.bytes <= MaximumPendingPayloadBytes - d.payload.size

\* The frames that make room for a fragment: none of them its own, none of them
\* touched after one that stays, and none at all if there is room.
MakesRoom(store, d, gone) ==
  LET room == Remove(store, gone)
  IN /\ Extended(store, d) = AddFragment(room, d)
     /\ room.bytes <= MaximumPendingPayloadBytes - d.payload.size
     /\ d.key \notin DOMAIN store.frames =>
          Cardinality(DOMAIN room.frames) < MaximumPendingFrameCount
     /\ \A j \in gone, k \in DOMAIN store.frames \ gone :
          k # d.key => store.frames[j].lastUpdatedAtMs <= store.frames[k].lastUpdatedAtMs
     /\ Fits(store, d) => gone = {}

\* What is older was not touched later.
LEMMA OlderByTime ==
  ASSUME NEW frames, NEW j, NEW k, Older(frames, j, k),
         frames[j].lastUpdatedAtMs \in Nat, frames[k].lastUpdatedAtMs \in Nat
  PROVE  frames[j].lastUpdatedAtMs <= frames[k].lastUpdatedAtMs
BY DEF Older

LEMMA RoomForKnown ==
  ASSUME NEW store, StoreSound(store), NEW d, Valid(d), IsNews(store, d), now \in Nat,
         d.key \in DOMAIN store.frames
  PROVE  \E gone \in SUBSET (DOMAIN store.frames \ {d.key}) : MakesRoom(store, d, gone)
<1> DEFINE size == d.payload.size
<1>1. {d.key} \in SUBSET DOMAIN store.frames /\ size \in Nat
  BY ValidFields
<1>2. BytesOf(store.frames, {d.key}) <= MaximumPendingPayloadBytes - size
  <2>1. store.frames[d.key].receivedBytes \in Nat
    BY DEF StoreSound, FrameSound, PendingFrame
  <2>2. BytesOf(store.frames, {d.key}) = store.frames[d.key].receivedBytes
    <3> DEFINE one == [k \in {d.key} |-> store.frames[k].receivedBytes]
    <3>1. DOMAIN one = {d.key} /\ one[d.key] = store.frames[d.key].receivedBytes
      OBVIOUS
    <3> HIDE DEF one
    <3>2. Total(one) = store.frames[d.key].receivedBytes
      BY <2>1, <3>1, TotalOfOne
    <3> QED
      BY <3>2 DEF BytesOf, one
  <2>3. store.frames[d.key].receivedBytes + size <= d.frameSize
    BY BeforeAddsUp DEF Before
  <2>4. d.frameSize <= MaximumPendingPayloadBytes /\ d.frameSize \in Nat
    BY ValidFields, LimitsAssumption
  <2> QED
    BY <1>1, <2>1, <2>2, <2>3, <2>4, LimitsAssumption
<1>3. PICK S \in OldestSets(store.frames, DOMAIN store.frames \ {d.key}) :
        /\ MakeRoomForPayload(store, size, {d.key}) = Remove(store, S)
        /\ Remove(store, S).bytes <= MaximumPendingPayloadBytes - size
        /\ store.bytes <= MaximumPendingPayloadBytes - size => S = {}
  BY <1>1, <1>2, RoomIsMade
<1>4. /\ S \in SUBSET (DOMAIN store.frames \ {d.key})
      /\ \A j \in S, k \in (DOMAIN store.frames \ {d.key}) \ S : Older(store.frames, j, k)
  BY DEF OldestSets
<1>5. \A k \in DOMAIN store.frames : store.frames[k].lastUpdatedAtMs \in Nat
  BY DEF StoreSound, FrameSound, PendingFrame
<1>6. \A j \in S, k \in DOMAIN store.frames \ S :
        k # d.key => store.frames[j].lastUpdatedAtMs <= store.frames[k].lastUpdatedAtMs
  BY <1>4, <1>5, OlderByTime
<1>7. Extended(store, d) = AddFragment(Remove(store, S), d)
  BY <1>3 DEF Extended
<1>8. MakesRoom(store, d, S)
  BY <1>3, <1>6, <1>7 DEF MakesRoom, Fits
<1> QED
  BY <1>4, <1>8

LEMMA RoomForNew ==
  ASSUME NEW store, StoreSound(store), NEW d, Valid(d), IsNews(store, d), now \in Nat,
         d.key \notin DOMAIN store.frames
  PROVE  \E gone \in SUBSET (DOMAIN store.frames \ {d.key}) : MakesRoom(store, d, gone)
<1> DEFINE size == d.payload.size
           all == DOMAIN store.frames
<1>1. PICK S \in OldestSets(store.frames, all) :
        /\ EvictForCount(store) = Remove(store, S)
        /\ Cardinality(all \ S) < MaximumPendingFrameCount
        /\ Cardinality(all) < MaximumPendingFrameCount => S = {}
  BY CountFits
<1>2. S \in SUBSET all /\ \A j \in S, k \in all \ S : Older(store.frames, j, k)
  BY DEF OldestSets
<1> DEFINE less == Remove(store, S)
<1>3. /\ StoreSound(less) /\ DOMAIN less.frames = all \ S
      /\ \A k \in DOMAIN less.frames : less.frames[k] = store.frames[k]
  BY <1>2, RemoveLeaves
<1>4. size \in Nat /\ size <= MaximumPendingPayloadBytes
  BY ValidFields, LimitsAssumption
<1>5. S = {} => less.bytes = store.bytes
  BY RemoveNone
<1> HIDE DEF less, all, size
<1>6. BytesOf(less.frames, {}) <= MaximumPendingPayloadBytes - size
  <2> DEFINE none == [k \in {} |-> less.frames[k].receivedBytes]
  <2>1. DOMAIN none = {}
    OBVIOUS
  <2> HIDE DEF none
  <2>2. Total(none) = 0
    BY <2>1, TotalOfNone
  <2>3. BytesOf(less.frames, {}) = 0
    BY <2>2 DEF BytesOf, none
  <2> QED
    BY <1>4, <2>3, LimitsAssumption
<1>7. DOMAIN less.frames \ {} = DOMAIN less.frames /\ {} \in SUBSET DOMAIN less.frames
  OBVIOUS
<1>8. PICK T \in OldestSets(less.frames, DOMAIN less.frames) :
        /\ MakeRoomForPayload(less, size, {}) = Remove(less, T)
        /\ Remove(less, T).bytes <= MaximumPendingPayloadBytes - size
        /\ less.bytes <= MaximumPendingPayloadBytes - size => T = {}
  <2>1. \E T \in OldestSets(less.frames, DOMAIN less.frames \ {}) :
          /\ MakeRoomForPayload(less, size, {}) = Remove(less, T)
          /\ Remove(less, T).bytes <= MaximumPendingPayloadBytes - size
          /\ less.bytes <= MaximumPendingPayloadBytes - size => T = {}
    BY <1>3, <1>4, <1>6, <1>7, RoomIsMade
  <2> QED
    BY <1>7, <2>1
<1>9. /\ T \in SUBSET DOMAIN less.frames
      /\ \A j \in T, k \in DOMAIN less.frames \ T : Older(less.frames, j, k)
  BY DEF OldestSets
<1> DEFINE gone == S \cup T
<1>10. gone \in SUBSET (all \ {d.key}) /\ T \in SUBSET (all \ S)
  BY <1>2, <1>3, <1>9 DEF all
<1>11. Remove(less, T) = Remove(store, gone)
  BY <1>2, <1>10, RemoveTwice DEF less, all
<1>12. \A k \in all : store.frames[k].lastUpdatedAtMs \in Nat
  BY DEF StoreSound, FrameSound, PendingFrame, all
<1>13. ASSUME NEW j \in gone, NEW k \in all \ gone
       PROVE  store.frames[j].lastUpdatedAtMs <= store.frames[k].lastUpdatedAtMs
  <2>1. CASE j \in S
    BY <1>2, <1>10, <1>12, <2>1, OlderByTime
  <2>2. CASE j \in T
    <3>1. /\ k \in DOMAIN less.frames \ T /\ Older(less.frames, j, k)
          /\ less.frames[j] = store.frames[j] /\ less.frames[k] = store.frames[k]
          /\ j \in all
      BY <1>3, <1>9, <2>2
    <3>2. less.frames[j].lastUpdatedAtMs <= less.frames[k].lastUpdatedAtMs
      BY <1>12, <3>1, OlderByTime
    <3> QED
      BY <3>1, <3>2
  <2> QED
    BY <2>1, <2>2
<1>14. Extended(store, d) = AddFragment(Remove(store, gone), d)
  BY <1>1, <1>8, <1>11 DEF Extended, less, size
<1>15. Cardinality(DOMAIN Remove(store, gone).frames) < MaximumPendingFrameCount
  <2>1. DOMAIN Remove(store, gone).frames = all \ gone
    BY <1>10, RemoveLeaves DEF all
  <2>2. all \ gone \in SUBSET (all \ S) /\ IsFiniteSet(all \ S)
    BY BytesOfSome DEF all
  <2>3. /\ Cardinality(all \ gone) <= Cardinality(all \ S)
        /\ Cardinality(all \ gone) \in Nat /\ Cardinality(all \ S) \in Nat
    BY <2>2, FS_Subset, FS_CardinalityType
  <2> QED
    BY <1>1, <2>1, <2>3, LimitsAssumption DEF all
<1>16. Fits(store, d) => gone = {}
  BY <1>1, <1>5, <1>8 DEF all, size, Fits
<1> HIDE DEF gone
<1>17. MakesRoom(store, d, gone)
  BY <1>8, <1>11, <1>13, <1>14, <1>15, <1>16 DEF MakesRoom, size, all
<1> QED
  BY <1>10, <1>17 DEF all

\* The store with the fragment in it, whatever had to go.
Grows(store, d, gone) ==
  LET more == Extended(store, d)
  IN /\ StoreSound(more)
     /\ DOMAIN more.frames = (DOMAIN store.frames \ gone) \cup {d.key}
     /\ \A k \in DOMAIN more.frames \ {d.key} : more.frames[k] = store.frames[k]
     /\ Extends(Before(store, d), more.frames[d.key], d)
     /\ more.bytes <= MaximumPendingPayloadBytes
     /\ Cardinality(DOMAIN store.frames) <= MaximumPendingFrameCount =>
          Cardinality(DOMAIN more.frames) <= MaximumPendingFrameCount

LEMMA ExtendedGrows ==
  ASSUME NEW store, StoreSound(store), NEW d, Valid(d), IsNews(store, d), now \in Nat
  PROVE  \E gone \in SUBSET (DOMAIN store.frames \ {d.key}) :
           MakesRoom(store, d, gone) /\ Grows(store, d, gone)
<1>1. PICK gone \in SUBSET (DOMAIN store.frames \ {d.key}) : MakesRoom(store, d, gone)
  BY RoomForKnown, RoomForNew
<1> DEFINE room == Remove(store, gone)
           more == Extended(store, d)
<1>2. gone \in SUBSET DOMAIN store.frames
  OBVIOUS
<1>3. /\ StoreSound(room) /\ DOMAIN room.frames = DOMAIN store.frames \ gone
      /\ \A k \in DOMAIN room.frames : room.frames[k] = store.frames[k]
  BY <1>2, RemoveLeaves
<1>4. /\ more = AddFragment(room, d)
      /\ room.bytes <= MaximumPendingPayloadBytes - d.payload.size
      /\ d.key \notin DOMAIN store.frames =>
           Cardinality(DOMAIN room.frames) < MaximumPendingFrameCount
  BY <1>1 DEF MakesRoom
<1> HIDE DEF room, more
<1>5. d.key \in DOMAIN room.frames <=> d.key \in DOMAIN store.frames
  BY <1>3
<1>6. IsNews(room, d) /\ Before(room, d) = Before(store, d)
  BY <1>3, <1>5 DEF IsNews, Before
<1>7. StoreSound(more)
  BY <1>3, <1>4, <1>6, AddFragmentSound
<1>8. /\ DOMAIN more.frames = DOMAIN room.frames \cup {d.key}
      /\ \A k \in DOMAIN room.frames \ {d.key} : more.frames[k] = room.frames[k]
      /\ more.bytes = room.bytes + d.payload.size
      /\ Extends(Before(store, d), more.frames[d.key], d)
  <2>1. StoreSound(room) /\ IsNews(room, d)
    BY <1>3, <1>6
  <2>2. LET added == AddFragment(room, d)
        IN /\ DOMAIN added.frames = DOMAIN room.frames \cup {d.key}
           /\ \A k \in DOMAIN room.frames \ {d.key} : added.frames[k] = room.frames[k]
           /\ added.bytes = room.bytes + d.payload.size
           /\ Extends(Before(room, d), added.frames[d.key], d)
    BY <2>1, AddFragmentExtends DEF After
  <2> QED
    BY <1>4, <1>6, <2>2
<1>9. DOMAIN more.frames = (DOMAIN store.frames \ gone) \cup {d.key}
  BY <1>3, <1>8
<1>10. \A k \in DOMAIN more.frames \ {d.key} : more.frames[k] = store.frames[k]
  BY <1>3, <1>8
<1>11. more.bytes <= MaximumPendingPayloadBytes
  <2>1. room.bytes \in Nat
    BY <1>3, BytesIsNat
  <2> QED
    BY <1>4, <1>8, <2>1, ValidFields, LimitsAssumption
<1>12. ASSUME Cardinality(DOMAIN store.frames) <= MaximumPendingFrameCount
       PROVE  Cardinality(DOMAIN more.frames) <= MaximumPendingFrameCount
  <2>1. IsFiniteSet(DOMAIN room.frames) /\ Cardinality(DOMAIN room.frames) \in Nat
    BY <1>3, FS_CardinalityType DEF StoreSound
  <2>2. CASE d.key \in DOMAIN store.frames
    <3>1. DOMAIN more.frames = DOMAIN room.frames
      BY <1>5, <1>8, <2>2
    <3>2. /\ Cardinality(DOMAIN room.frames) <= Cardinality(DOMAIN store.frames)
          /\ Cardinality(DOMAIN store.frames) \in Nat
      BY <1>3, FS_Subset, FS_CardinalityType DEF StoreSound
    <3> QED
      BY <1>12, <2>1, <3>1, <3>2, LimitsAssumption
  <2>3. CASE d.key \notin DOMAIN store.frames
    <3>1. Cardinality(DOMAIN more.frames) = Cardinality(DOMAIN room.frames) + 1
      BY <1>5, <1>8, <2>1, <2>3, FS_AddElement
    <3> QED
      BY <1>4, <2>1, <2>3, <3>1, LimitsAssumption
  <2> QED
    BY <2>2, <2>3
<1>13. Grows(store, d, gone)
  BY <1>7, <1>8, <1>9, <1>10, <1>11, <1>12 DEF Grows, more
<1> QED
  BY <1>1, <1>13

-----------------------------------------------------------------------------
(* Where the fragments held come from. *)

\* The datagram that brought fragment i of a frame.
Origin(key, frame, i) ==
  [key |-> key, timestampMs |-> frame.timestampMs, frameSize |-> frame.frameSize,
   fragmentCount |-> frame.fragmentCount, fragmentIndex |-> i,
   payload |-> frame.fragments[i]]

Origins(key, frame) == {Origin(key, frame, i) : i \in DOMAIN frame.fragments}

HeldIn(frames) == UNION {Origins(k, frames[k]) : k \in DOMAIN frames}

LEMMA ValidIsOrigin ==
  ASSUME NEW d, Valid(d), NEW old, NEW new, Extends(old, new, d)
  PROVE  /\ Origins(d.key, new) = Origins(d.key, old) \cup {d}
         /\ Origin(d.key, new, d.fragmentIndex) = d
<1>1. d \in Fragment
  BY DEF Valid
<1>2. d = [key |-> d.key, timestampMs |-> d.timestampMs, frameSize |-> d.frameSize,
           fragmentCount |-> d.fragmentCount, fragmentIndex |-> d.fragmentIndex,
           payload |-> d.payload]
  BY <1>1 DEF Fragment
<1>3. Origin(d.key, new, d.fragmentIndex) = d
  BY <1>2 DEF Origin, Extends
<1>4. \A i \in DOMAIN old.fragments : Origin(d.key, new, i) = Origin(d.key, old, i)
  BY DEF Origin, Extends
<1>5. DOMAIN new.fragments = DOMAIN old.fragments \cup {d.fragmentIndex}
  BY DEF Extends
<1> QED
  BY <1>3, <1>4, <1>5 DEF Origins

LEMMA RemoveHolds ==
  ASSUME NEW store, StoreSound(store), NEW keys \in SUBSET DOMAIN store.frames
  PROVE  /\ HeldIn(Remove(store, keys).frames) \subseteq HeldIn(store.frames)
         /\ \A d \in HeldIn(Remove(store, keys).frames) : d.key \notin keys
<1> DEFINE left == Remove(store, keys)
<1>1. /\ DOMAIN left.frames = DOMAIN store.frames \ keys
      /\ \A k \in DOMAIN left.frames : left.frames[k] = store.frames[k]
  BY RemoveLeaves
<1> HIDE DEF left
<1>2. ASSUME NEW d \in HeldIn(left.frames)
      PROVE  d \in HeldIn(store.frames) /\ d.key \notin keys
  <2>1. PICK k \in DOMAIN left.frames : d \in Origins(k, left.frames[k])
    BY DEF HeldIn
  <2>2. d \in Origins(k, store.frames[k]) /\ k \in DOMAIN store.frames \ keys
    BY <1>1, <2>1
  <2>3. d.key = k
    BY <2>2 DEF Origins, Origin
  <2> QED
    BY <2>2, <2>3 DEF HeldIn
<1> QED
  BY <1>2 DEF left

LEMMA GrowsHolds ==
  ASSUME NEW store, StoreSound(store), NEW d, Valid(d),
         NEW gone \in SUBSET DOMAIN store.frames, Grows(store, d, gone)
  PROVE  /\ HeldIn(Extended(store, d).frames) \subseteq HeldIn(store.frames) \cup {d}
         /\ Origins(d.key, Before(store, d)) \subseteq HeldIn(store.frames)
<1> DEFINE more == Extended(store, d)
<1>1. /\ DOMAIN more.frames = (DOMAIN store.frames \ gone) \cup {d.key}
      /\ \A k \in DOMAIN more.frames \ {d.key} : more.frames[k] = store.frames[k]
      /\ Extends(Before(store, d), more.frames[d.key], d)
  BY DEF Grows
<1> HIDE DEF more
<1>2. Origins(d.key, more.frames[d.key]) = Origins(d.key, Before(store, d)) \cup {d}
  BY <1>1, ValidIsOrigin
<1>3. Origins(d.key, Before(store, d)) \subseteq HeldIn(store.frames)
  <2>1. CASE d.key \in DOMAIN store.frames
    BY <2>1 DEF Before, HeldIn
  <2>2. CASE d.key \notin DOMAIN store.frames
    <3>1. DOMAIN Before(store, d).fragments = {}
      BY <2>2 DEF Before, NewFrame, Empty
    <3> QED
      BY <3>1 DEF Origins
  <2> QED
    BY <2>1, <2>2
<1>4. ASSUME NEW e \in HeldIn(more.frames)
      PROVE  e \in HeldIn(store.frames) \cup {d}
  <2>1. PICK k \in DOMAIN more.frames : e \in Origins(k, more.frames[k])
    BY DEF HeldIn
  <2>2. CASE k = d.key
    BY <1>2, <1>3, <2>1, <2>2
  <2>3. CASE k # d.key
    <3>1. k \in DOMAIN store.frames /\ e \in Origins(k, store.frames[k])
      BY <1>1, <2>1, <2>3
    <3> QED
      BY <3>1 DEF HeldIn
  <2> QED
    BY <2>2, <2>3
<1> QED
  BY <1>3, <1>4 DEF more

-----------------------------------------------------------------------------
(* The outcomes of addDatagram. *)

Lacks(frame) == Cardinality(DOMAIN frame.fragments) < frame.fragmentCount

\* Between two calls the limits hold and every frame still lacks a fragment.
Settled(store) ==
  /\ Cardinality(DOMAIN store.frames) <= MaximumPendingFrameCount
  /\ store.bytes <= MaximumPendingPayloadBytes
  /\ \A k \in DOMAIN store.frames : Lacks(store.frames[k])

LEMMA RemoveSettles ==
  ASSUME NEW store, StoreSound(store), NEW keys \in SUBSET DOMAIN store.frames,
         Cardinality(DOMAIN store.frames) <= MaximumPendingFrameCount,
         store.bytes <= MaximumPendingPayloadBytes,
         \A k \in DOMAIN store.frames \ keys : Lacks(store.frames[k])
  PROVE  Settled(Remove(store, keys))
<1> DEFINE left == Remove(store, keys)
<1>1. /\ DOMAIN left.frames = DOMAIN store.frames \ keys
      /\ \A k \in DOMAIN left.frames : left.frames[k] = store.frames[k]
      /\ left.bytes <= store.bytes
      /\ StoreSound(left)
  BY RemoveLeaves
<1> HIDE DEF left
<1>2. left.bytes \in Nat /\ store.bytes \in Nat
  BY <1>1, BytesIsNat
<1>3. left.bytes <= MaximumPendingPayloadBytes
  BY <1>1, <1>2, LimitsAssumption
<1>4. /\ Cardinality(DOMAIN left.frames) <= Cardinality(DOMAIN store.frames)
      /\ Cardinality(DOMAIN left.frames) \in Nat /\ Cardinality(DOMAIN store.frames) \in Nat
  BY <1>1, FS_Subset, FS_CardinalityType DEF StoreSound
<1>5. Cardinality(DOMAIN left.frames) <= MaximumPendingFrameCount
  BY <1>4, LimitsAssumption
<1>6. \A k \in DOMAIN left.frames : Lacks(left.frames[k])
  BY <1>1
<1>7. Settled(left)
  BY <1>3, <1>5, <1>6 DEF Settled
<1> QED
  BY <1>7 DEF left

\* A frame that all fragments have come for has them all, 0 to n-1.
LEMMA LacksOrHasAll ==
  ASSUME NEW frame, FrameSound(frame)
  PROVE  /\ Cardinality(DOMAIN frame.fragments) \in 1 .. frame.fragmentCount
         /\ AllReceived(frame) => DOMAIN frame.fragments = 0 .. frame.fragmentCount - 1
         /\ ~AllReceived(frame) => Lacks(frame)
<1> DEFINE n == frame.fragmentCount
           I == DOMAIN frame.fragments
<1>1. n \in Nat \ {0} /\ I \subseteq 0 .. n - 1 /\ I # {}
  BY DEF FrameSound, PendingFrame
<1> HIDE DEF n, I
<1>2. 0 \in Int /\ n - 1 \in Int /\ ~(0 > n - 1)
  BY <1>1
<1>3. IsFiniteSet(0 .. n - 1) /\ Cardinality(0 .. n - 1) = n
  <2>1. IsFiniteSet(0 .. n - 1) /\ Cardinality(0 .. n - 1) = n - 1 - 0 + 1
    BY <1>2, FS_Interval
  <2> QED
    BY <1>1, <2>1
<1>4. /\ IsFiniteSet(I) /\ Cardinality(I) <= n
      /\ n = Cardinality(I) => 0 .. n - 1 = I
  BY <1>1, <1>3, FS_Subset
<1>5. Cardinality(I) \in Nat /\ Cardinality(I) # 0
  BY <1>1, <1>4, FS_CardinalityType, FS_EmptySet
<1>6. Cardinality(I) \in 1 .. n /\ (Cardinality(I) # n => Cardinality(I) < n)
  BY <1>1, <1>4, <1>5
<1> QED
  BY <1>4, <1>6 DEF AllReceived, Lacks, n, I

\* What is delivered with d: the frame d belongs to, whole.
Piece(frame, count, i) ==
  [key |-> frame.key, timestampMs |-> frame.timestampMs, frameSize |-> frame.frameSize,
   fragmentCount |-> count, fragmentIndex |-> i, payload |-> frame.fragments[i]]

Delivers(frame, held, d) ==
  /\ frame.key = d.key /\ frame.frameSize = d.frameSize
  /\ frame.timestampMs = d.timestampMs
  /\ DOMAIN frame.fragments = 0 .. d.fragmentCount - 1
  /\ PayloadBytes(frame) = frame.frameSize
  /\ \A i \in DOMAIN frame.fragments : Piece(frame, d.fragmentCount, i) \in held \cup {d}

\* What addDatagram leaves of a store, and delivers of it.
Leads(store, d, next) ==
  /\ StoreSound(next) /\ Settled(next)
  /\ HeldIn(next.frames) \subseteq HeldIn(store.frames) \cup {d}
  /\ m_pendingFrames' = next.frames /\ m_pendingPayloadBytes' = next.bytes
  /\ result' \in {"Accepted", "Duplicate", "Completed", "Rejected"}
  /\ result' = "Completed" =>
       /\ Delivers(completedFrame', HeldIn(store.frames), d)
       /\ \A e \in HeldIn(next.frames) : e.key # d.key

LEMMA RejectLeads ==
  ASSUME NEW store, StoreSound(store), Settled(store), NEW d, Valid(d),
         RejectWithFrame(store, d)
  PROVE  Leads(store, d, Remove(store, {d.key}))
<1> DEFINE next == Remove(store, {d.key})
<1>1. {d.key} \in SUBSET DOMAIN store.frames
  BY DEF RejectWithFrame
<1>2. /\ m_pendingFrames' = next.frames /\ m_pendingPayloadBytes' = next.bytes
      /\ result' = "Rejected"
  BY DEF RejectWithFrame, Returns
<1>3. StoreSound(next)
  BY <1>1, RemoveLeaves
<1>4. Settled(next)
  BY <1>1, RemoveSettles DEF Settled
<1>5. HeldIn(next.frames) \subseteq HeldIn(store.frames)
  BY <1>1, RemoveHolds
<1> HIDE DEF next
<1>6. Leads(store, d, next)
  BY <1>2, <1>3, <1>4, <1>5 DEF Leads
<1> QED
  BY <1>6 DEF next

\* A frame with a later time of its last fragment.
LEMMA TouchedSound ==
  ASSUME NEW frame, FrameSound(frame), now \in Nat
  PROVE  LET touched == [frame EXCEPT !.lastUpdatedAtMs = now]
         IN /\ FrameSound(touched)
            /\ touched.receivedBytes = frame.receivedBytes
            /\ Lacks(frame) => Lacks(touched)
            /\ \A key : Origins(key, touched) = Origins(key, frame)
<1> DEFINE touched == [frame EXCEPT !.lastUpdatedAtMs = now]
<1>1. frame \in PendingFrame
  BY DEF FrameSound
<1>2. touched \in PendingFrame
  BY <1>1 DEF PendingFrame
<1>3. /\ touched.lastUpdatedAtMs = now /\ touched.createdAtMs = frame.createdAtMs
      /\ touched.fragments = frame.fragments
      /\ touched.fragmentCount = frame.fragmentCount
      /\ touched.frameSize = frame.frameSize /\ touched.timestampMs = frame.timestampMs
      /\ touched.receivedBytes = frame.receivedBytes
  BY <1>1 DEF PendingFrame
<1>4. frame.createdAtMs \in Nat /\ frame.lastUpdatedAtMs \in Nat
  BY <1>1 DEF PendingFrame
<1> HIDE DEF touched
<1>5. PayloadBytes(touched) = PayloadBytes(frame)
  BY <1>3 DEF PayloadBytes
<1>6. FrameSound(touched)
  BY <1>2, <1>3, <1>4, <1>5 DEF FrameSound
<1>7. \A key : Origins(key, touched) = Origins(key, frame)
  BY <1>3 DEF Origins, Origin
<1>8. Lacks(frame) => Lacks(touched)
  BY <1>3 DEF Lacks
<1> QED
  BY <1>3, <1>6, <1>7, <1>8 DEF touched

LEMMA DuplicateLeads ==
  ASSUME NEW store, StoreSound(store), Settled(store), NEW d, Valid(d), now \in Nat,
         store = [frames |-> store.frames, bytes |-> store.bytes],
         Duplicate(store, d)
  PROVE  Leads(store, d, [store EXCEPT !.frames[d.key].lastUpdatedAtMs = now])
<1> DEFINE all == DOMAIN store.frames
           touched == [store.frames[d.key] EXCEPT !.lastUpdatedAtMs = now]
           next == [store EXCEPT !.frames[d.key].lastUpdatedAtMs = now]
<1>1. d.key \in all
  BY DEF Duplicate
<1>2. /\ m_pendingFrames' = next.frames /\ m_pendingPayloadBytes' = next.bytes
      /\ result' = "Duplicate"
  BY DEF Duplicate, Returns
<1>3. /\ next.frames = [store.frames EXCEPT ![d.key] = touched]
      /\ next.bytes = store.bytes
  OBVIOUS
<1>4. /\ DOMAIN next.frames = all /\ next.frames[d.key] = touched
      /\ \A k \in all \ {d.key} : next.frames[k] = store.frames[k]
      /\ next.frames = [k \in all |-> next.frames[k]]
  BY <1>1, <1>3 DEF StoreSound
<1>5. FrameSound(store.frames[d.key]) /\ Lacks(store.frames[d.key])
  BY <1>1 DEF StoreSound, Settled
<1>6. /\ FrameSound(touched) /\ Lacks(touched)
      /\ touched.receivedBytes = store.frames[d.key].receivedBytes
      /\ Origins(d.key, touched) = Origins(d.key, store.frames[d.key])
  BY <1>5, TouchedSound
<1> HIDE DEF next, touched
<1>7. \A k \in all : /\ FrameSound(next.frames[k]) /\ Lacks(next.frames[k])
                     /\ next.frames[k].receivedBytes = store.frames[k].receivedBytes
                     /\ Origins(k, next.frames[k]) = Origins(k, store.frames[k])
  BY <1>4, <1>6 DEF StoreSound, Settled
<1>8. BytesOf(next.frames, all) = BytesOf(store.frames, all)
  <2>1. [k \in all |-> next.frames[k].receivedBytes]
          = [k \in all |-> store.frames[k].receivedBytes]
    BY <1>7
  <2> QED
    BY <2>1 DEF BytesOf
<1>9. StoreSound(next)
  BY <1>3, <1>4, <1>7, <1>8 DEF StoreSound
<1>10. Settled(next)
  BY <1>3, <1>4, <1>7 DEF Settled
<1>11. HeldIn(next.frames) \subseteq HeldIn(store.frames)
  BY <1>4, <1>7 DEF HeldIn
<1>12. Leads(store, d, next)
  BY <1>2, <1>9, <1>10, <1>11 DEF Leads
<1> QED
  BY <1>12 DEF next

LEMMA AcceptLeads ==
  ASSUME NEW store, StoreSound(store), Settled(store), NEW d, Valid(d), now \in Nat,
         Accept(store, d)
  PROVE  Leads(store, d, Extended(store, d))
<1> DEFINE next == Extended(store, d)
<1>1. /\ IsNews(store, d) /\ ~AllReceived(next.frames[d.key])
      /\ m_pendingFrames' = next.frames /\ m_pendingPayloadBytes' = next.bytes
      /\ result' = "Accepted"
  BY DEF Accept, Returns
<1>2. PICK gone \in SUBSET (DOMAIN store.frames \ {d.key}) :
        MakesRoom(store, d, gone) /\ Grows(store, d, gone)
  BY <1>1, ExtendedGrows
<1>3. gone \in SUBSET DOMAIN store.frames
  OBVIOUS
<1>4. HeldIn(next.frames) \subseteq HeldIn(store.frames) \cup {d}
  BY <1>2, <1>3, GrowsHolds
<1>5. /\ StoreSound(next)
      /\ DOMAIN next.frames = (DOMAIN store.frames \ gone) \cup {d.key}
      /\ \A k \in DOMAIN next.frames \ {d.key} : next.frames[k] = store.frames[k]
      /\ next.bytes <= MaximumPendingPayloadBytes
      /\ Cardinality(DOMAIN next.frames) <= MaximumPendingFrameCount
  BY <1>2 DEF Grows, Settled
<1> HIDE DEF next
<1>6. Lacks(next.frames[d.key])
  <2>1. FrameSound(next.frames[d.key])
    BY <1>5 DEF StoreSound
  <2> QED
    BY <1>1, <2>1, LacksOrHasAll
<1>7. Settled(next)
  BY <1>5, <1>6 DEF Settled
<1>8. Leads(store, d, next)
  BY <1>1, <1>4, <1>5, <1>7 DEF Leads
<1> QED
  BY <1>8 DEF next

LEMMA CompleteLeads ==
  ASSUME NEW store, StoreSound(store), Settled(store), NEW d, Valid(d), now \in Nat,
         Complete(store, d)
  PROVE  Leads(store, d, Remove(Extended(store, d), {d.key}))
<1> DEFINE more == Extended(store, d)
           frame == more.frames[d.key]
           next == Remove(more, {d.key})
<1>1. /\ IsNews(store, d) /\ AllReceived(frame)
      /\ m_pendingFrames' = next.frames /\ m_pendingPayloadBytes' = next.bytes
      /\ result' = IF SizeAsDeclared(frame) THEN "Completed" ELSE "Rejected"
      /\ completedFrame' = IF SizeAsDeclared(frame)
                           THEN [key |-> d.key, frameSize |-> frame.frameSize,
                                 timestampMs |-> d.timestampMs,
                                 fragments |-> frame.fragments]
                           ELSE completedFrame
  BY DEF Complete, Returns
<1>2. PICK gone \in SUBSET (DOMAIN store.frames \ {d.key}) :
        MakesRoom(store, d, gone) /\ Grows(store, d, gone)
  BY <1>1, ExtendedGrows
<1>3. gone \in SUBSET DOMAIN store.frames
  OBVIOUS
<1>4. /\ HeldIn(more.frames) \subseteq HeldIn(store.frames) \cup {d}
      /\ Origins(d.key, Before(store, d)) \subseteq HeldIn(store.frames)
  BY <1>2, <1>3, GrowsHolds
<1>5. /\ StoreSound(more)
      /\ DOMAIN more.frames = (DOMAIN store.frames \ gone) \cup {d.key}
      /\ \A k \in DOMAIN more.frames \ {d.key} : more.frames[k] = store.frames[k]
      /\ Extends(Before(store, d), frame, d)
      /\ more.bytes <= MaximumPendingPayloadBytes
      /\ Cardinality(DOMAIN more.frames) <= MaximumPendingFrameCount
  BY <1>2 DEF Grows, Settled
<1> HIDE DEF more
<1>6. {d.key} \in SUBSET DOMAIN more.frames
  BY <1>5
<1>7. StoreSound(next)
  BY <1>5, <1>6, RemoveLeaves
<1>8. Settled(next)
  <2>1. \A k \in DOMAIN more.frames \ {d.key} : Lacks(more.frames[k])
    BY <1>5 DEF Settled
  <2> QED
    BY <1>5, <1>6, <2>1, RemoveSettles
<1>9. /\ HeldIn(next.frames) \subseteq HeldIn(more.frames)
      /\ \A e \in HeldIn(next.frames) : e.key # d.key
  BY <1>5, <1>6, RemoveHolds
<1>10. ASSUME SizeAsDeclared(frame)
       PROVE  Delivers(completedFrame', HeldIn(store.frames), d)
  <2>1. FrameSound(frame)
    BY <1>5 DEF StoreSound
  <2>2. /\ frame.frameSize = d.frameSize /\ frame.fragmentCount = d.fragmentCount
        /\ frame.timestampMs = d.timestampMs
    BY <1>5 DEF Extends
  <2>3. DOMAIN frame.fragments = 0 .. d.fragmentCount - 1
    BY <1>1, <2>1, <2>2, LacksOrHasAll
  <2>4. PayloadBytes(frame) = frame.frameSize
    BY <1>10, <2>1 DEF FrameSound, SizeAsDeclared
  <2>5. Origins(d.key, frame) \subseteq HeldIn(store.frames) \cup {d}
    BY <1>4, <1>5, ValidIsOrigin
  <2> DEFINE out == [key |-> d.key, frameSize |-> frame.frameSize,
                     timestampMs |-> d.timestampMs, fragments |-> frame.fragments]
  <2>6. completedFrame' = out
    BY <1>1, <1>10
  <2>7. /\ out.key = d.key /\ out.frameSize = frame.frameSize
        /\ out.timestampMs = d.timestampMs /\ out.fragments = frame.fragments
    OBVIOUS
  <2> HIDE DEF out, frame
  <2>8. PayloadBytes(out) = out.frameSize
    BY <2>4, <2>7 DEF PayloadBytes
  <2>9. \A i \in DOMAIN out.fragments :
          Piece(out, d.fragmentCount, i) = Origin(d.key, frame, i)
    BY <2>2, <2>7 DEF Piece, Origin
  <2>10. \A i \in DOMAIN out.fragments :
           Piece(out, d.fragmentCount, i) \in HeldIn(store.frames) \cup {d}
    BY <2>5, <2>7, <2>9 DEF Origins
  <2>11. Delivers(out, HeldIn(store.frames), d)
    BY <2>2, <2>3, <2>7, <2>8, <2>10 DEF Delivers
  <2> QED
    BY <2>6, <2>11
<1> HIDE DEF next, frame
<1>11. Leads(store, d, next)
  BY <1>1, <1>4, <1>7, <1>8, <1>9, <1>10 DEF Leads
<1> QED
  BY <1>11 DEF next, more
-----------------------------------------------------------------------------
(* The invariant.  It leaves open where the datagrams are from, so that a link *)
(* can use it too.                                                            *)

StoreInv ==
  /\ now \in Nat
  /\ result \in {"None", "Accepted", "Duplicate", "Completed", "Rejected"}
  /\ StoreSound(Store) /\ Settled(Store)

\* A sound store stays sound as time goes by.
LEMMA NextStoreSound ==
  ASSUME NEW store, StoreSound(store), now \in Nat, now' \in Nat, now <= now',
         m_pendingFrames' = store.frames, m_pendingPayloadBytes' = store.bytes
  PROVE  StoreSound(Store)'
<1>1. Store' = [frames |-> store.frames, bytes |-> store.bytes]
  BY DEF Store
<1>2. ASSUME NEW k \in DOMAIN store.frames PROVE FrameSound(store.frames[k])'
  <2>1. FrameSound(store.frames[k])
    BY DEF StoreSound
  <2>2. store.frames[k].lastUpdatedAtMs \in Nat
    BY <2>1 DEF FrameSound, PendingFrame
  <2> QED
    BY <2>1, <2>2 DEF FrameSound
<1> QED
  BY <1>1, <1>2 DEF StoreSound

LEMMA StoreAsRecord ==
  Store.frames = m_pendingFrames /\ Store.bytes = m_pendingPayloadBytes
BY DEF Store

LEMMA ExpiredArePending == Expired(Store) \in SUBSET DOMAIN Store.frames
BY DEF Expired

LEMMA UnexpiredSound ==
  ASSUME StoreInv
  PROVE  LET s == Remove(Store, Expired(Store))
         IN /\ StoreSound(s) /\ Settled(s)
            /\ HeldIn(s.frames) \subseteq HeldIn(m_pendingFrames)
            /\ s = [frames |-> s.frames, bytes |-> s.bytes]
            /\ DOMAIN s.frames = DOMAIN m_pendingFrames \ Expired(Store)
            /\ \A k \in DOMAIN s.frames : s.frames[k] = m_pendingFrames[k]
<1> DEFINE s == Remove(Store, Expired(Store))
<1>1. StoreSound(Store) /\ Settled(Store)
  BY DEF StoreInv
<1>2. /\ StoreSound(s) /\ DOMAIN s.frames = DOMAIN Store.frames \ Expired(Store)
      /\ \A k \in DOMAIN s.frames : s.frames[k] = Store.frames[k]
  BY <1>1, ExpiredArePending, RemoveLeaves
<1>3. Settled(s)
  BY <1>1, ExpiredArePending, RemoveSettles DEF Settled
<1>4. HeldIn(s.frames) \subseteq HeldIn(Store.frames)
  BY <1>1, ExpiredArePending, RemoveHolds
<1>5. s = [frames |-> s.frames, bytes |-> s.bytes]
  BY DEF Remove
<1> HIDE DEF s
<1> QED
  BY <1>2, <1>3, <1>4, <1>5, StoreAsRecord DEF s

\* What one datagram does to the invariant, to what is held and to the frame delivered.
LEMMA AddDatagramStep ==
  ASSUME StoreInv, NEW d, Valid(d), AddDatagram(d)
  PROVE  /\ StoreInv'
         /\ HeldIn(m_pendingFrames') \subseteq HeldIn(m_pendingFrames) \cup {d}
         /\ result' = "Completed" =>
              /\ Delivers(completedFrame', HeldIn(m_pendingFrames), d)
              /\ \A e \in HeldIn(m_pendingFrames') : e.key # d.key
<1> DEFINE s == Remove(Store, Expired(Store))
<1>1. /\ StoreSound(s) /\ Settled(s)
      /\ HeldIn(s.frames) \subseteq HeldIn(m_pendingFrames)
      /\ s = [frames |-> s.frames, bytes |-> s.bytes]
  BY UnexpiredSound
<1>2. RejectWithFrame(s, d) \/ Duplicate(s, d) \/ Accept(s, d) \/ Complete(s, d)
  BY DEF AddDatagram
<1>3. now \in Nat /\ now' = now
  BY DEF AddDatagram, StoreInv
<1> HIDE DEF s
<1>4. \E next : Leads(s, d, next)
  BY <1>1, <1>2, <1>3, RejectLeads, DuplicateLeads, AcceptLeads, CompleteLeads
<1>5. PICK next : Leads(s, d, next)
  BY <1>4
<1>6. /\ StoreSound(next) /\ Settled(next)
      /\ HeldIn(next.frames) \subseteq HeldIn(s.frames) \cup {d}
      /\ m_pendingFrames' = next.frames /\ m_pendingPayloadBytes' = next.bytes
      /\ result' \in {"Accepted", "Duplicate", "Completed", "Rejected"}
      /\ result' = "Completed" =>
           /\ Delivers(completedFrame', HeldIn(s.frames), d)
           /\ \A e \in HeldIn(next.frames) : e.key # d.key
  BY <1>5 DEF Leads
<1>7. StoreSound(Store)'
  BY <1>3, <1>6, NextStoreSound
<1>8. Settled(Store)'
  BY <1>6 DEF Settled, Store, Lacks
<1>9. StoreInv'
  BY <1>3, <1>6, <1>7, <1>8 DEF StoreInv
<1>10. result' = "Completed" => Delivers(completedFrame', HeldIn(m_pendingFrames), d)
  BY <1>1, <1>6 DEF Delivers
<1> QED
  BY <1>1, <1>6, <1>9, <1>10

\* The steps that bring no fragment.
LEMMA OtherSteps ==
  ASSUME StoreInv, RemoveExpiredFrames \/ Clear \/ TimePasses \/ UNCHANGED vars
  PROVE  /\ StoreInv'
         /\ HeldIn(m_pendingFrames') \subseteq HeldIn(m_pendingFrames)
<1>1. CASE RemoveExpiredFrames
  <2> DEFINE s == Remove(Store, Expired(Store))
  <2>1. /\ StoreSound(s) /\ Settled(s)
        /\ HeldIn(s.frames) \subseteq HeldIn(m_pendingFrames)
    BY UnexpiredSound
  <2>2. /\ m_pendingFrames' = s.frames /\ m_pendingPayloadBytes' = s.bytes
        /\ now' = now /\ result' = result /\ now \in Nat
    BY <1>1 DEF RemoveExpiredFrames, StoreInv
  <2> HIDE DEF s
  <2>3. StoreSound(Store)'
    BY <2>1, <2>2, NextStoreSound
  <2>4. Settled(Store)'
    BY <2>1, <2>2 DEF Settled, Store, Lacks
  <2> QED
    BY <2>1, <2>2, <2>3, <2>4 DEF StoreInv
<1>2. CASE Clear
  <2>1. /\ m_pendingFrames' = Empty /\ m_pendingPayloadBytes' = 0
        /\ now' = now /\ result' = result /\ now \in Nat
    BY <1>2 DEF Clear, StoreInv
  <2>2. DOMAIN Empty = {} /\ IsFiniteSet({}) /\ Cardinality({}) = 0
    BY FS_EmptySet DEF Empty
  <2>3. BytesOf(Empty, {}) = 0
    <3> DEFINE none == [k \in {} |-> Empty[k].receivedBytes]
    <3>1. DOMAIN none = {}
      OBVIOUS
    <3> HIDE DEF none
    <3>2. Total(none) = 0
      BY <3>1, TotalOfNone
    <3> QED
      BY <3>2 DEF BytesOf, none
  <2>4. Empty = [k \in DOMAIN Empty |-> Empty[k]]
    BY DEF Empty
  <2>5. StoreSound(Store)'
    BY <2>1, <2>2, <2>3, <2>4 DEF StoreSound, Store
  <2>6. Settled(Store)'
    BY <2>1, <2>2, LimitsAssumption DEF Settled, Store
  <2>7. HeldIn(m_pendingFrames') = {}
    BY <2>1, <2>2 DEF HeldIn
  <2> QED
    BY <2>1, <2>5, <2>6, <2>7 DEF StoreInv
<1>3. CASE TimePasses \/ UNCHANGED vars
  <2>1. /\ m_pendingFrames' = Store.frames /\ m_pendingPayloadBytes' = Store.bytes
        /\ result' = result /\ now \in Nat /\ now' \in Nat /\ now <= now'
    BY <1>3 DEF TimePasses, vars, StoreInv, Store
  <2>2. StoreSound(Store)'
    BY <2>1, NextStoreSound DEF StoreInv
  <2>3. Settled(Store)'
    BY <2>1 DEF Settled, Store, Lacks, StoreInv
  <2> QED
    BY <2>1, <2>2, <2>3, StoreAsRecord DEF StoreInv
<1> QED
  BY <1>1, <1>2, <1>3
-----------------------------------------------------------------------------
(* The theorems. *)

\* All that is held, and was delivered, came from datagrams.
ReassemblerInv ==
  /\ StoreInv
  /\ HeldIn(m_pendingFrames) \subseteq Datagram
  /\ CompletedIntact

LEMMA InitStore == Init => StoreInv /\ HeldIn(m_pendingFrames) = {}
<1> SUFFICES ASSUME Init PROVE StoreInv /\ HeldIn(m_pendingFrames) = {}
  OBVIOUS
<1>1. /\ m_pendingFrames = Empty /\ m_pendingPayloadBytes = 0
      /\ now = 0 /\ result = "None"
  BY DEF Init
<1>2. DOMAIN Empty = {} /\ IsFiniteSet({}) /\ Cardinality({}) = 0
  BY FS_EmptySet DEF Empty
<1>3. BytesOf(Empty, {}) = 0
  <2> DEFINE none == [k \in {} |-> Empty[k].receivedBytes]
  <2>1. DOMAIN none = {}
    OBVIOUS
  <2> HIDE DEF none
  <2>2. Total(none) = 0
    BY <2>1, TotalOfNone
  <2> QED
    BY <2>2 DEF BytesOf, none
<1>4. Empty = [k \in DOMAIN Empty |-> Empty[k]]
  BY DEF Empty
<1>5. StoreSound(Store)
  BY <1>1, <1>2, <1>3, <1>4 DEF StoreSound, Store
<1>6. Settled(Store)
  BY <1>1, <1>2, LimitsAssumption DEF Settled, Store
<1>7. HeldIn(m_pendingFrames) = {}
  BY <1>1, <1>2 DEF HeldIn
<1> QED
  BY <1>1, <1>5, <1>6, <1>7 DEF StoreInv

\* What CompletedIntact says of the frame completed.
Intact(frame) ==
  LET fragments == frame.fragments
      n == Cardinality(DOMAIN fragments)
  IN /\ DOMAIN fragments = 0 .. n - 1
     /\ PayloadBytes(frame) = frame.frameSize
     /\ \A i \in DOMAIN fragments :
          [key |-> frame.key, frameSize |-> frame.frameSize,
           timestampMs |-> frame.timestampMs, fragmentCount |-> n,
           fragmentIndex |-> i, payload |-> fragments[i]] \in Datagram

\* The size of 0 .. n-1 is n.
LEMMA IndexesCounted ==
  ASSUME NEW n \in Nat \ {0}
  PROVE  Cardinality(0 .. n - 1) = n
<1>1. 0 \in Int /\ n - 1 \in Int /\ ~(0 > n - 1)
  OBVIOUS
<1>2. Cardinality(0 .. n - 1) = n - 1 - 0 + 1
  BY <1>1, FS_Interval
<1> QED
  BY <1>2

LEMMA DeliveredIntact ==
  ASSUME NEW d, Valid(d), NEW held, NEW frame, Delivers(frame, held, d),
         held \cup {d} \subseteq Datagram
  PROVE  Intact(frame)
<1> DEFINE n == Cardinality(DOMAIN frame.fragments)
<1>1. /\ DOMAIN frame.fragments = 0 .. d.fragmentCount - 1
      /\ PayloadBytes(frame) = frame.frameSize
      /\ \A i \in DOMAIN frame.fragments :
           Piece(frame, d.fragmentCount, i) \in held \cup {d}
  BY DEF Delivers
<1>2. n = d.fragmentCount
  BY <1>1, ValidFields, IndexesCounted
<1> HIDE DEF n
<1>3. ASSUME NEW i \in DOMAIN frame.fragments
      PROVE  [key |-> frame.key, frameSize |-> frame.frameSize,
              timestampMs |-> frame.timestampMs, fragmentCount |-> n,
              fragmentIndex |-> i, payload |-> frame.fragments[i]] \in Datagram
  BY <1>1, <1>2 DEF Piece
<1> QED
  BY <1>1, <1>2, <1>3 DEF Intact, n

LEMMA NextReassemblerInv ==
  ASSUME ReassemblerInv, [Next]_vars PROVE ReassemblerInv'
<1>1. ASSUME NEW d \in Datagram, AddDatagram(d) PROVE ReassemblerInv'
  <2>1. Valid(d)
    BY DatagramAssumption DEF Valid
  <2>2. /\ StoreInv'
        /\ HeldIn(m_pendingFrames') \subseteq HeldIn(m_pendingFrames) \cup {d}
        /\ result' = "Completed" =>
             Delivers(completedFrame', HeldIn(m_pendingFrames), d)
    BY <1>1, <2>1, AddDatagramStep DEF ReassemblerInv
  <2>3. HeldIn(m_pendingFrames) \cup {d} \subseteq Datagram
    BY DEF ReassemblerInv
  <2>4. CompletedIntact'
    <3>1. CASE result' = "Completed"
      <4> DEFINE held == HeldIn(m_pendingFrames)
      <4>1. Delivers(completedFrame', held, d) /\ held \cup {d} \subseteq Datagram
        BY <2>2, <2>3, <3>1
      <4> HIDE DEF held
      <4>2. Intact(completedFrame')
        BY <2>1, <4>1, DeliveredIntact
      <4> QED
        BY <4>2 DEF Intact, CompletedIntact
    <3>2. CASE result' # "Completed"
      BY <3>2 DEF CompletedIntact
    <3> QED
      BY <3>1, <3>2
  <2> QED
    BY <2>2, <2>3, <2>4 DEF ReassemblerInv
<1>2. CASE RemoveExpiredFrames \/ Clear \/ TimePasses \/ UNCHANGED vars
  <2>1. StoreInv' /\ HeldIn(m_pendingFrames') \subseteq HeldIn(m_pendingFrames)
    BY <1>2, OtherSteps DEF ReassemblerInv
  <2>2. result' = result /\ completedFrame' = completedFrame
    BY <1>2 DEF RemoveExpiredFrames, Clear, TimePasses, vars
  <2> QED
    BY <2>1, <2>2 DEF ReassemblerInv, CompletedIntact
<1> QED
  BY <1>1, <1>2 DEF Next

LEMMA ReassemblerInvariance == Spec => []ReassemblerInv
<1>1. Init => ReassemblerInv
  BY InitStore DEF Init, ReassemblerInv, CompletedIntact
<1>2. ReassemblerInv /\ [Next]_vars => ReassemblerInv'
  BY NextReassemblerInv
<1> QED
  BY <1>1, <1>2, PTL DEF Spec

\* Every frame pending in addDatagram's hash can still be completed: it lacks a
\* fragment, has no byte beyond its size, and its times are in the past.
THEOREM ReassemblerTypes == Spec => []TypeOK
<1>1. ReassemblerInv => TypeOK
  <2> SUFFICES ASSUME ReassemblerInv PROVE TypeOK
    OBVIOUS
  <2>1. /\ DOMAIN m_pendingFrames \subseteq FrameKey
        /\ \A k \in DOMAIN m_pendingFrames :
             FrameSound(m_pendingFrames[k]) /\ Lacks(m_pendingFrames[k])
        /\ m_pendingPayloadBytes \in Nat
    BY StoreAsRecord, BytesIsNat DEF ReassemblerInv, StoreInv, StoreSound, Settled
  <2>2. ASSUME NEW frame, FrameSound(frame), Lacks(frame), now \in Nat
        PROVE  /\ frame.frameSize \in 1 .. MaximumFrameSize
               /\ frame.fragmentCount \in Nat \ {0}
               /\ DOMAIN frame.fragments \subseteq 0 .. frame.fragmentCount - 1
               /\ Cardinality(DOMAIN frame.fragments) \in 1 .. frame.fragmentCount - 1
               /\ frame.receivedBytes \in 1 .. frame.frameSize
               /\ frame.createdAtMs \in 0 .. frame.lastUpdatedAtMs
               /\ frame.lastUpdatedAtMs \in 0 .. now
    <3>1. /\ frame.frameSize \in 1 .. MaximumFrameSize
          /\ frame.fragmentCount \in Nat \ {0}
          /\ frame.createdAtMs \in Nat /\ frame.lastUpdatedAtMs \in Nat
      BY <2>2 DEF FrameSound, PendingFrame
    <3>2. Cardinality(DOMAIN frame.fragments) \in 1 .. frame.fragmentCount - 1
      BY <2>2, <3>1, LacksOrHasAll DEF Lacks
    <3> QED
      BY <2>2, <3>1, <3>2 DEF FrameSound
  <2> QED
    BY <2>1, <2>2 DEF ReassemblerInv, StoreInv, TypeOK
<1> QED
  BY <1>1, ReassemblerInvariance, PTL

\* The limits on frames and bytes hold, and m_pendingPayloadBytes and every
\* frame's receivedBytes are the bytes stored, on each of removePendingFrame's paths.
THEOREM LimitsHold == Spec => []WithinLimits
<1>1. ReassemblerInv => WithinLimits
  BY StoreAsRecord DEF ReassemblerInv, StoreInv, StoreSound, Settled, FrameSound, WithinLimits
<1> QED
  BY <1>1, ReassemblerInvariance, PTL

\* A frame that addDatagram completes is made of its own fragments only, all of
\* them and of the size declared.
THEOREM FramesIntact == Spec => []CompletedIntact
<1>1. ReassemblerInv => CompletedIntact
  BY DEF ReassemblerInv
<1> QED
  BY <1>1, ReassemblerInvariance, PTL

-----------------------------------------------------------------------------
(* Eviction, step by step. *)

\* What EvictsOldestFirst says of one step.
OldestGo ==
  \A j \in DOMAIN m_pendingFrames \ DOMAIN m_pendingFrames' :
    \/ j \in Expired(Store)
    \/ result' = "Completed" /\ j = completedFrame'.key
    \/ \A k \in DOMAIN m_pendingFrames \cap DOMAIN m_pendingFrames' :
         \/ m_pendingFrames[j].lastUpdatedAtMs <= m_pendingFrames[k].lastUpdatedAtMs
         \/ m_pendingFrames'[k] # m_pendingFrames[k]

FramesGrow ==
  \A k \in (DOMAIN m_pendingFrames \ Expired(Store)) \cap DOMAIN m_pendingFrames' :
    DOMAIN m_pendingFrames[k].fragments \subseteq DOMAIN m_pendingFrames'[k].fragments

\* The two ways a new fragment gets in: the frame it extends stays or leaves.
LEMMA GrowthIsOrderly ==
  ASSUME StoreInv, NEW d, Valid(d),
         LET s == Remove(Store, Expired(Store))
         IN /\ IsNews(s, d)
            /\ \/ m_pendingFrames' = Extended(s, d).frames
               \/ m_pendingFrames' = Remove(Extended(s, d), {d.key}).frames
  PROVE  /\ FramesGrow
         /\ \/ d.key \in DOMAIN m_pendingFrames'
            \/ result' = "Completed" /\ completedFrame'.key = d.key
            => OldestGo
<1> DEFINE s == Remove(Store, Expired(Store))
           more == Extended(s, d)
<1>1. /\ StoreSound(s) /\ DOMAIN s.frames = DOMAIN m_pendingFrames \ Expired(Store)
      /\ \A k \in DOMAIN s.frames : s.frames[k] = m_pendingFrames[k]
  BY UnexpiredSound
<1>2. IsNews(s, d) /\ now \in Nat
  BY DEF StoreInv
<1>3. \/ m_pendingFrames' = more.frames
      \/ m_pendingFrames' = Remove(more, {d.key}).frames
  OBVIOUS
<1> HIDE DEF s
<1>4. PICK gone \in SUBSET (DOMAIN s.frames \ {d.key}) :
        MakesRoom(s, d, gone) /\ Grows(s, d, gone)
  BY <1>1, <1>2, ExtendedGrows
<1>5. \A j \in gone, k \in DOMAIN s.frames \ gone :
        k # d.key => s.frames[j].lastUpdatedAtMs <= s.frames[k].lastUpdatedAtMs
  BY <1>4 DEF MakesRoom
<1>6. /\ StoreSound(more) /\ DOMAIN more.frames = (DOMAIN s.frames \ gone) \cup {d.key}
      /\ \A k \in DOMAIN more.frames \ {d.key} : more.frames[k] = s.frames[k]
      /\ Extends(Before(s, d), more.frames[d.key], d)
  BY <1>4 DEF Grows
<1> HIDE DEF more
<1>7. d.key \in DOMAIN s.frames =>
        /\ more.frames[d.key] # s.frames[d.key]
        /\ DOMAIN s.frames[d.key].fragments \subseteq DOMAIN more.frames[d.key].fragments
  BY <1>6 DEF Extends, Before
<1>8. {d.key} \in SUBSET DOMAIN more.frames
  BY <1>6
<1>9. LET left == Remove(more, {d.key})
      IN /\ DOMAIN left.frames = DOMAIN more.frames \ {d.key}
         /\ \A k \in DOMAIN left.frames : left.frames[k] = more.frames[k]
  BY <1>6, <1>8, RemoveLeaves
<1>10. /\ DOMAIN m_pendingFrames' \subseteq DOMAIN more.frames
       /\ DOMAIN more.frames \ {d.key} \subseteq DOMAIN m_pendingFrames'
       /\ \A k \in DOMAIN m_pendingFrames' : m_pendingFrames'[k] = more.frames[k]
  BY <1>3, <1>8, <1>9
<1>11. FramesGrow
  <2> SUFFICES ASSUME NEW k \in (DOMAIN m_pendingFrames \ Expired(Store))
                                  \cap DOMAIN m_pendingFrames'
               PROVE  DOMAIN m_pendingFrames[k].fragments
                        \subseteq DOMAIN m_pendingFrames'[k].fragments
    BY DEF FramesGrow
  <2>1. /\ k \in DOMAIN s.frames /\ s.frames[k] = m_pendingFrames[k]
        /\ m_pendingFrames'[k] = more.frames[k] /\ k \in DOMAIN more.frames
    BY <1>1, <1>10
  <2> QED
    BY <1>6, <1>7, <2>1
<1>12. ASSUME \/ d.key \in DOMAIN m_pendingFrames'
              \/ result' = "Completed" /\ completedFrame'.key = d.key
       PROVE  OldestGo
  <2> SUFFICES ASSUME NEW j \in DOMAIN m_pendingFrames \ DOMAIN m_pendingFrames',
                      j \notin Expired(Store),
                      ~(result' = "Completed" /\ j = completedFrame'.key),
                      NEW k \in DOMAIN m_pendingFrames \cap DOMAIN m_pendingFrames',
                      m_pendingFrames'[k] = m_pendingFrames[k]
               PROVE  m_pendingFrames[j].lastUpdatedAtMs
                        <= m_pendingFrames[k].lastUpdatedAtMs
    BY DEF OldestGo
  <2>1. j \in DOMAIN s.frames /\ s.frames[j] = m_pendingFrames[j]
    BY <1>1
  <2>2. j # d.key
    BY <1>12
  <2>3. j \in gone
    BY <1>6, <1>10, <2>1, <2>2
  <2>4. k \in DOMAIN more.frames /\ m_pendingFrames'[k] = more.frames[k]
    BY <1>10
  <2>5. CASE k \in DOMAIN s.frames
    <3>1. k # d.key /\ s.frames[k] = m_pendingFrames[k] /\ k \notin gone
      BY <1>1, <1>6, <1>7, <2>4, <2>5
    <3> QED
      BY <1>5, <2>1, <2>3, <2>5, <3>1
  <2>6. CASE k \notin DOMAIN s.frames
    <3>1. k = d.key /\ k \in Expired(Store)
      BY <1>1, <1>6, <2>4, <2>6
    <3>2. m_pendingFrames[k].lastUpdatedAtMs = now
      BY <1>6, <2>4, <3>1 DEF Extends
    <3>3. now - m_pendingFrames[k].lastUpdatedAtMs > FrameTimeoutMs
      BY <3>1 DEF Expired, Store
    <3> QED
      BY <1>2, <3>2, <3>3, LimitsAssumption
  <2> QED
    BY <2>5, <2>6
<1> QED
  BY <1>11, <1>12

LEMMA AddDatagramEvicts ==
  ASSUME StoreInv, NEW d, Valid(d), AddDatagram(d)
  PROVE  FramesGrow /\ (result' \in {"Accepted", "Completed"} => OldestGo)
<1> DEFINE s == Remove(Store, Expired(Store))
<1>1. RejectWithFrame(s, d) \/ Duplicate(s, d) \/ Accept(s, d) \/ Complete(s, d)
  BY DEF AddDatagram
<1>2. CASE RejectWithFrame(s, d)
  <2>1. /\ d.key \in DOMAIN s.frames /\ result' = "Rejected"
        /\ m_pendingFrames' = Remove(s, {d.key}).frames
    BY <1>2 DEF RejectWithFrame, Returns
  <2>2. /\ StoreSound(s) /\ DOMAIN s.frames = DOMAIN m_pendingFrames \ Expired(Store)
        /\ \A k \in DOMAIN s.frames : s.frames[k] = m_pendingFrames[k]
    BY UnexpiredSound
  <2> HIDE DEF s
  <2>3. {d.key} \in SUBSET DOMAIN s.frames
    BY <2>1
  <2>4. LET left == Remove(s, {d.key})
        IN /\ DOMAIN left.frames = DOMAIN s.frames \ {d.key}
           /\ \A k \in DOMAIN left.frames : left.frames[k] = s.frames[k]
    BY <2>2, <2>3, RemoveLeaves
  <2>5. \A k \in DOMAIN m_pendingFrames' : m_pendingFrames'[k] = m_pendingFrames[k]
    BY <2>1, <2>2, <2>4
  <2> QED
    BY <2>1, <2>5 DEF FramesGrow
<1>3. CASE Duplicate(s, d)
  <2>1. /\ d.key \in DOMAIN s.frames /\ result' = "Duplicate"
        /\ m_pendingFrames' = [s EXCEPT !.frames[d.key].lastUpdatedAtMs = now].frames
    BY <1>3 DEF Duplicate, Returns
  <2>2. /\ StoreSound(s) /\ DOMAIN s.frames = DOMAIN m_pendingFrames \ Expired(Store)
        /\ \A k \in DOMAIN s.frames : s.frames[k] = m_pendingFrames[k]
        /\ s = [frames |-> s.frames, bytes |-> s.bytes]
    BY UnexpiredSound
  <2> HIDE DEF s
  <2>3. m_pendingFrames' =
          [s.frames EXCEPT ![d.key] = [s.frames[d.key] EXCEPT !.lastUpdatedAtMs = now]]
    BY <2>1, <2>2
  <2>4. s.frames[d.key] \in PendingFrame
    BY <2>1, <2>2 DEF StoreSound, FrameSound
  <2>5. [s.frames[d.key] EXCEPT !.lastUpdatedAtMs = now].fragments
          = s.frames[d.key].fragments
    BY <2>4 DEF PendingFrame
  <2>6. \A k \in DOMAIN s.frames : m_pendingFrames'[k].fragments = s.frames[k].fragments
    BY <2>3, <2>5
  <2> QED
    BY <2>1, <2>2, <2>6 DEF FramesGrow
<1>4. CASE Accept(s, d)
  <2>1. IsNews(s, d) /\ m_pendingFrames' = Extended(s, d).frames
    BY <1>4 DEF Accept, Returns
  <2>2. d.key \in DOMAIN m_pendingFrames'
    BY <2>1 DEF Extended, AddFragment
  <2> QED
    BY <2>1, <2>2, GrowthIsOrderly
<1>5. CASE Complete(s, d)
  <2> DEFINE frame == Extended(s, d).frames[d.key]
  <2>1. /\ IsNews(s, d)
        /\ m_pendingFrames' = Remove(Extended(s, d), {d.key}).frames
        /\ result' = IF SizeAsDeclared(frame) THEN "Completed" ELSE "Rejected"
        /\ completedFrame' = IF SizeAsDeclared(frame)
                             THEN [key |-> d.key, frameSize |-> frame.frameSize,
                                   timestampMs |-> d.timestampMs,
                                   fragments |-> frame.fragments]
                             ELSE completedFrame
    BY <1>5 DEF Complete, Returns
  <2>2. result' \in {"Accepted", "Completed"} =>
          result' = "Completed" /\ completedFrame'.key = d.key
    BY <2>1
  <2> QED
    BY <2>1, <2>2, GrowthIsOrderly
<1> QED
  BY <1>1, <1>2, <1>3, <1>4, <1>5

LEMMA StepEvicts ==
  ASSUME StoreInv, Next
  PROVE  /\ result' \in {"Accepted", "Completed"} /\ m_pendingFrames' # Empty => OldestGo
         /\ FramesGrow
<1>1. ASSUME NEW d \in Datagram, AddDatagram(d)
      PROVE  /\ result' \in {"Accepted", "Completed"} => OldestGo
             /\ FramesGrow
  <2>1. Valid(d)
    BY DatagramAssumption DEF Valid
  <2> QED
    BY <1>1, <2>1, AddDatagramEvicts
<1>2. CASE RemoveExpiredFrames
  <2>1. m_pendingFrames' = Remove(Store, Expired(Store)).frames
    BY <1>2 DEF RemoveExpiredFrames
  <2>2. LET s == Remove(Store, Expired(Store))
        IN /\ DOMAIN s.frames = DOMAIN m_pendingFrames \ Expired(Store)
           /\ \A k \in DOMAIN s.frames : s.frames[k] = m_pendingFrames[k]
    BY UnexpiredSound
  <2> QED
    BY <2>1, <2>2 DEF OldestGo, FramesGrow
<1>3. CASE Clear
  <2>1. m_pendingFrames' = Empty /\ DOMAIN Empty = {}
    BY <1>3 DEF Clear, Empty
  <2> QED
    BY <2>1 DEF FramesGrow
<1>4. CASE TimePasses
  BY <1>4 DEF TimePasses, OldestGo, FramesGrow
<1> QED
  BY <1>1, <1>2, <1>3, <1>4 DEF Next

\* makeRoomForPayload and the limit of the count take expired frames and the
\* oldest, and never a fragment of a frame that stays.
THEOREM OldestEvictedFirst == Spec => EvictsOldestFirst
<1> DEFINE Orderly ==
      /\ result' \in {"Accepted", "Completed"} /\ m_pendingFrames' # Empty =>
          \A j \in DOMAIN m_pendingFrames \ DOMAIN m_pendingFrames' :
            \/ j \in Expired(Store)
            \/ result' = "Completed" /\ j = completedFrame'.key
            \/ \A k \in DOMAIN m_pendingFrames \cap DOMAIN m_pendingFrames' :
                 \/ m_pendingFrames[j].lastUpdatedAtMs
                      <= m_pendingFrames[k].lastUpdatedAtMs
                 \/ m_pendingFrames'[k] # m_pendingFrames[k]
      /\ \A k \in (DOMAIN m_pendingFrames \ Expired(Store))
                   \cap DOMAIN m_pendingFrames' :
          DOMAIN m_pendingFrames[k].fragments
            \subseteq DOMAIN m_pendingFrames'[k].fragments
<1>1. ReassemblerInv /\ [Next]_vars => [Orderly]_vars
  BY StepEvicts DEF ReassemblerInv, OldestGo, FramesGrow
<1>2. Spec => [][Orderly]_vars
  BY <1>1, ReassemblerInvariance, PTL DEF Spec
<1> QED
  BY <1>2 DEF EvictsOldestFirst
=============================================================================
