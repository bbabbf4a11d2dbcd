-------------------------- MODULE DiscoveryProofs --------------------------
(***************************************************************************)
(* For any device, lists, chunk sizes and requests: answers are matched    *)
(* with what was asked, no override is invented, and one that was in force *)
(* all along on an object asked about is reported unless a read failed.    *)
(***************************************************************************)
EXTENDS Discovery, FiniteSetTheorems, SequenceTheorems, WellFoundedInduction, TLAPS

(***************************************************************************)
(* Selected                                                                *)
(***************************************************************************)

LEMMA LeastNat ==
  ASSUME NEW T, T \subseteq Nat, T # {}
  PROVE  \E k \in T : \A j \in T : k <= j
<1> DEFINE Less == {ss \in Nat \X Nat : ss[1] < ss[2]}
<1>1. IsWellFoundedOn(Less, Nat)
  BY NatLessThanWellFounded DEF OpToRel
<1>2. PICK k \in T : \A j \in T : <<j, k>> \notin Less
  <2> HIDE DEF Less
  <2> QED
    BY <1>1, WFMin
<1>3. ASSUME NEW j \in T PROVE k <= j
  <2>1. ~(<<j, k>>[1] < <<j, k>>[2])
    BY <1>2
  <2> QED
    BY <2>1
<1> QED
  BY <1>3

LEMMA PlacesFinite ==
  ASSUME NEW seq, NEW X, seq \in Seq(X), NEW S
  PROVE  /\ IsFiniteSet(Places(seq, S))
         /\ Cardinality(Places(seq, S)) \in Nat
         /\ Places(seq, S) \in SUBSET (1 .. Len(seq))
         /\ Len(seq) \in Nat
<1>1. Places(seq, S) \in SUBSET (1 .. Len(seq)) /\ Len(seq) \in Nat
  BY DEF Places
<1>2. IsFiniteSet(1 .. Len(seq))
  BY <1>1, FS_Interval
<1>3. IsFiniteSet(Places(seq, S))
  BY <1>1, <1>2, FS_Subset
<1> QED
  BY <1>1, <1>3, FS_CardinalityType

LEMMA UptoFacts ==
  ASSUME NEW n \in Nat, NEW places \in SUBSET (1 .. n)
  PROVE  /\ IsFiniteSet(places)
         /\ \A i \in Int : /\ IsFiniteSet({j \in places : j <= i})
                           /\ Upto(places, i) \in Nat
                           /\ Upto(places, i) <= Cardinality(places)
         /\ Upto(places, 0) = 0
         /\ Upto(places, n) = Cardinality(places)
<1>0. \A j \in places : j \in Int /\ 1 <= j /\ j <= n
  OBVIOUS
<1>1. IsFiniteSet(places)
  <2>1. IsFiniteSet(1 .. n)
    BY FS_Interval
  <2> QED
    BY <2>1, FS_Subset
<1>2. ASSUME NEW i \in Int
      PROVE  /\ IsFiniteSet({j \in places : j <= i}) /\ Upto(places, i) \in Nat
             /\ Upto(places, i) <= Cardinality(places)
  <2>1. {j \in places : j <= i} \in SUBSET places
    OBVIOUS
  <2>2. /\ IsFiniteSet({j \in places : j <= i})
        /\ Cardinality({j \in places : j <= i}) <= Cardinality(places)
    BY <1>1, <2>1, FS_Subset
  <2> QED
    BY <2>2, FS_CardinalityType DEF Upto
<1>3. {j \in places : j <= 0} = {}
  <2>1. \A j \in places : ~(j <= 0)
    BY <1>0
  <2> QED
    BY <2>1
<1>4. {j \in places : j <= n} = places
  BY <1>0
<1> QED
  BY <1>1, <1>2, <1>3, <1>4, FS_EmptySet DEF Upto

\* The count grows by one at a place, and only there.
LEMMA UptoStep ==
  ASSUME NEW n \in Nat, NEW places \in SUBSET (1 .. n), NEW i \in 1 .. n
  PROVE  Upto(places, i) = IF i \in places THEN Upto(places, i - 1) + 1 ELSE Upto(places, i - 1)
<1> DEFINE below == {j \in places : j <= i - 1}
<1>0. \A j \in places : j \in Int /\ 1 <= j /\ j <= n
  OBVIOUS
<1>1. IsFiniteSet(below)
  BY UptoFacts
<1>2. CASE i \in places
  <2>0. \A j \in places : j <= i <=> j <= i - 1 \/ j = i
    BY <1>0
  <2>1. {j \in places : j <= i} = below \cup {i}
    <3>1. i <= i
      OBVIOUS
    <3> QED
      BY <1>2, <2>0, <3>1
  <2>2. i \notin below
    OBVIOUS
  <2>3. Cardinality(below \cup {i}) = Cardinality(below) + 1
    BY <1>1, <2>2, FS_AddElement
  <2> QED
    BY <1>2, <2>1, <2>3 DEF Upto
<1>3. CASE i \notin places
  <2>0. \A j \in places : j <= i <=> j <= i - 1
    BY <1>0, <1>3
  <2>1. {j \in places : j <= i} = below
    BY <2>0
  <2> QED
    BY <1>3, <2>1 DEF Upto
<1> QED
  BY <1>2, <1>3

\* There is a k-th place.
LEMMA KthPlace ==
  ASSUME NEW n \in Nat, NEW places \in SUBSET (1 .. n),
         NEW k \in 1 .. Cardinality(places)
  PROVE  \E i \in places : Upto(places, i) = k
<1> DEFINE T == {i \in 0 .. n : k <= Upto(places, i)}
<1>0. Cardinality(places) \in Nat
  BY UptoFacts, FS_CardinalityType
<1>1. n \in T
  BY <1>0, UptoFacts
<1>2. PICK i \in T : \A j \in T : i <= j
  <2>1. T \subseteq Nat /\ T # {}
    BY <1>1
  <2> HIDE DEF T
  <2> QED
    BY <2>1, LeastNat
<1>3. i # 0
  BY <1>0, UptoFacts
<1>4. i \in 1 .. n /\ i - 1 \in 0 .. n
  BY <1>3
<1>5. i - 1 \notin T
  <2>1. i \in Nat /\ ~(i <= i - 1)
    BY <1>4
  <2> QED
    BY <1>2, <2>1
<1>6. Upto(places, i - 1) \in Nat /\ Upto(places, i) \in Nat
  <2>1. i - 1 \in Int /\ i \in Int
    BY <1>4
  <2> QED
    BY <2>1, UptoFacts
<1>7. Upto(places, i - 1) < k /\ k <= Upto(places, i)
  BY <1>0, <1>4, <1>5, <1>6
<1>8. i \in places /\ Upto(places, i) = Upto(places, i - 1) + 1
  BY <1>0, <1>4, <1>6, <1>7, UptoStep
<1> QED
  BY <1>0, <1>6, <1>7, <1>8

\* A place is determined by its count.
LEMMA UptoInjective ==
  ASSUME NEW n \in Nat, NEW places \in SUBSET (1 .. n),
         NEW i \in places, NEW j \in places, i < j
  PROVE  Upto(places, i) < Upto(places, j)
<1> DEFINE low == {m \in places : m <= i}
           high == {m \in places : m <= j}
<1>0. \A m \in places : m \in Int /\ 1 <= m /\ m <= n
  OBVIOUS
<1>1. IsFiniteSet(low) /\ IsFiniteSet(high) /\ Upto(places, i) \in Nat /\ Upto(places, j) \in Nat
  BY UptoFacts
<1>2. j \notin low /\ low \cup {j} \in SUBSET high
  <2>1. ~(j <= i) /\ j <= j /\ \A m \in places : m <= i => m <= j
    BY <1>0
  <2> QED
    BY <2>1
<1>3. Cardinality(low \cup {j}) = Cardinality(low) + 1
  BY <1>1, <1>2, FS_AddElement
<1>4. Cardinality(low \cup {j}) <= Cardinality(high)
  BY <1>1, <1>2, FS_Subset
<1>5. Upto(places, i) + 1 <= Upto(places, j)
  BY <1>3, <1>4 DEF Upto
<1> QED
  BY <1>1, <1>5

\* Selected gives a sequence of elements that are in both, and leaves out none.
LEMMA SelectedFacts ==
  ASSUME NEW X, NEW seq, seq \in Seq(X), NEW S
  PROVE  /\ Selected(seq, S) \in Seq(X)
         /\ Range(seq) \cap S \subseteq Range(Selected(seq, S))
<1> DEFINE places == Places(seq, S)
           Pick(k) == CHOOSE i \in places : Upto(places, i) = k
<1>1. /\ places \in SUBSET (1 .. Len(seq)) /\ Len(seq) \in Nat
      /\ Cardinality(places) \in Nat
  BY PlacesFinite
<1> HIDE DEF places
<1>0. \A i \in places : i \in Int /\ i \in 1 .. Len(seq)
  BY <1>1
<1>2. ASSUME NEW k \in 1 .. Cardinality(places)
      PROVE  Pick(k) \in places /\ Upto(places, Pick(k)) = k
  BY <1>1, KthPlace
<1>3. Selected(seq, S) = [k \in 1 .. Cardinality(places) |-> seq[Pick(k)]]
  BY DEF Selected, places
<1>4. \A k \in 1 .. Cardinality(places) : seq[Pick(k)] \in X
  <2> HIDE DEF Pick
  <2> QED
    BY <1>0, <1>2
<1>5. ASSUME NEW o \in Range(seq), o \in S
      PROVE  o \in Range(Selected(seq, S))
  <2>1. PICK i \in places : seq[i] = o
    BY <1>5 DEF Range, Places, places
  <2> DEFINE k == Upto(places, i)
  <2>2. i \in Int /\ k \in Nat /\ k <= Cardinality(places)
    BY <1>0, <1>1, UptoFacts
  <2>3. k >= 1
    <3>1. i \in 1 .. Len(seq) /\ i - 1 \in Int
      BY <1>1
    <3>2. Upto(places, i - 1) \in Nat
      BY <1>1, <3>1, UptoFacts
    <3> QED
      BY <1>1, <3>1, <3>2, UptoStep
  <2>4. k \in 1 .. Cardinality(places)
    BY <1>1, <2>2, <2>3
  <2>5. Pick(k) \in places /\ Upto(places, Pick(k)) = k
    BY <1>2, <2>4
  <2> HIDE DEF Pick
  <2>6. Pick(k) = i
    <3>1. Pick(k) \in Int
      BY <1>0, <2>5
    <3>2. ~(Pick(k) < i)
      <4> SUFFICES ASSUME Pick(k) < i PROVE FALSE
        OBVIOUS
      <4>1. Upto(places, Pick(k)) < Upto(places, i)
        BY <1>1, <2>5, UptoInjective
      <4> QED
        BY <2>2, <2>5, <4>1
    <3>3. ~(i < Pick(k))
      <4> SUFFICES ASSUME i < Pick(k) PROVE FALSE
        OBVIOUS
      <4>1. Upto(places, i) < Upto(places, Pick(k))
        BY <1>1, <2>5, UptoInjective
      <4> QED
        BY <2>2, <2>5, <4>1
    <3> QED
      BY <2>2, <3>1, <3>2, <3>3
  <2> QED
    BY <1>3, <2>1, <2>4, <2>6 DEF Range
<1> HIDE DEF Pick
<1> QED
  BY <1>1, <1>3, <1>4, <1>5

(***************************************************************************)
(* Chunks                                                                  *)
(***************************************************************************)

LEMMA InRange ==
  ASSUME NEW f, NEW D, DOMAIN f = D
  PROVE  \A i \in D : f[i] \in Range(f)
BY Zenon DEF Range

LEMMA OfRange ==
  ASSUME NEW f, NEW D, DOMAIN f = D
  PROVE  \A x \in Range(f) : \E i \in D : x = f[i]
BY Zenon DEF Range

\* What is cut off the requests, and what is left of them.
LEMMA Chunking ==
  ASSUME TypeOK, left # <<>>, NEW STATE c, c = Lesser(SizeInPhase, Len(left)),
         NEW STATE chunk, chunk = Chunk(SizeInPhase),
         NEW STATE rest, rest = SubSeq(left, c + 1, Len(left))
  PROVE  /\ c \in Nat /\ c >= 1 /\ c <= Len(left)
         /\ chunk \in Seq(Objects) /\ Len(chunk) = c
         /\ \A i \in 1 .. c : chunk[i] = left[i]
         /\ rest \in Seq(Objects) /\ Len(rest) = Len(left) - c
         /\ \A i \in 1 .. Len(left) - c : rest[i] = left[c + i]
         /\ Range(left) = Range(chunk) \cup Range(rest)
<1>1. left \in Seq(Objects) /\ Len(left) \in Nat /\ Len(left) >= 1
  BY EmptySeq DEF TypeOK
<1>2. SizeInPhase \in Nat \ {0}
  BY DiscoveryAssumption DEF SizeInPhase
<1>3. c \in Nat /\ c >= 1 /\ c <= Len(left)
  BY <1>1, <1>2 DEF Lesser
<1>4. \A i \in Int : i >= 1 /\ i <= Len(left) => left[i] \in Objects
  BY <1>1
<1>5. chunk = SubSeq(left, 1, c)
  BY DEF Chunk
<1>6. /\ chunk \in Seq(Objects) /\ Len(chunk) = c
      /\ \A i \in 1 .. c : chunk[i] = left[i]
  BY <1>1, <1>3, <1>4, <1>5
<1>7. /\ rest \in Seq(Objects) /\ Len(rest) = Len(left) - c
      /\ \A i \in 1 .. Len(left) - c : rest[i] = left[c + i]
  BY <1>1, <1>3, <1>4
<1>8. Range(left) \subseteq Range(chunk) \cup Range(rest)
  <2> SUFFICES ASSUME NEW i \in 1 .. Len(left)
               PROVE  left[i] \in Range(chunk) \cup Range(rest)
    <3>1. \A x \in Range(left) : \E i \in 1 .. Len(left) : x = left[i]
      <4>1. DOMAIN left = 1 .. Len(left)
        BY <1>1
      <4> QED
        BY <4>1, InRange, OfRange
    <3> QED
      BY <3>1, Zenon
  <2>1. CASE i <= c
    <3>1. i \in 1 .. c
      BY <1>3, <2>1
    <3>2. chunk[i] \in Range(chunk)
      <4>1. DOMAIN chunk = 1 .. c
        BY <1>6
      <4> QED
        BY <3>1, <4>1, Zenon DEF Range
    <3> QED
      BY <1>6, <3>1, <3>2
  <2>2. CASE i > c
    <3>1. i - c \in 1 .. Len(left) - c /\ c + (i - c) = i
      BY <1>1, <1>3, <2>2
    <3>2. rest[i - c] = left[i] /\ i - c \in 1 .. Len(rest)
      BY <1>7, <3>1
    <3>3. rest[i - c] \in Range(rest)
      <4>1. i - c \in DOMAIN rest
        BY <1>7, <3>2
      <4> QED
        BY <4>1, Zenon DEF Range
    <3> QED
      BY <3>2, <3>3
  <2> QED
    BY <1>3, <2>1, <2>2
<1>9. Range(chunk) \subseteq Range(left) /\ Range(rest) \subseteq Range(left)
  <2>1. \A i \in 1 .. c : i \in 1 .. Len(left)
    BY <1>1, <1>3
  <2>2. \A i \in 1 .. Len(left) - c : c + i \in 1 .. Len(left)
    BY <1>1, <1>3
  <2>0. \A i \in 1 .. Len(left) : left[i] \in Range(left)
    <3>1. DOMAIN left = 1 .. Len(left)
      BY <1>1
    <3> QED
      BY <3>1, InRange, OfRange
  <2>3. Range(chunk) \subseteq Range(left)
    <3>1. \A x \in Range(chunk) : \E i \in 1 .. c : x = chunk[i]
      <4>1. DOMAIN chunk = 1 .. c
        BY <1>6
      <4> QED
        BY <4>1, Zenon DEF Range
    <3> QED
      BY <1>6, <2>0, <2>1, <3>1
  <2>4. Range(rest) \subseteq Range(left)
    <3>1. \A x \in Range(rest) : \E i \in 1 .. Len(left) - c : x = rest[i]
      <4>1. DOMAIN rest = 1 .. Len(left) - c
        BY <1>7
      <4> QED
        BY <4>1, Zenon DEF Range
    <3>2. \A i \in 1 .. Len(left) - c : rest[i] \in Range(left)
      BY <1>7, <2>0, <2>2
    <3> QED
      BY <3>1, <3>2
  <2> QED
    BY <2>3, <2>4
<1> QED
  BY <1>3, <1>6, <1>7, <1>8, <1>9

\* The entries of a chunk go behind the results.
LEMMA Results ==
  ASSUME TypeOK, NEW STATE entries, entries \in Seq(Entries), NextChunk(entries)
  PROVE  /\ results' \in Seq(Entries)
         /\ Len(results') = Len(results) + Len(entries)
         /\ Len(results) \in Nat /\ Len(entries) \in Nat
         /\ \A i \in 1 .. Len(results) : i \in DOMAIN results' /\ results'[i] = results[i]
         /\ \A i \in 1 .. Len(entries) : /\ Len(results) + i \in DOMAIN results'
                                         /\ results'[Len(results) + i] = entries[i]
         /\ Range(results') = Range(results) \cup Range(entries)
<1>1. results \in Seq(Entries) /\ results' = results \o entries
  BY DEF TypeOK, NextChunk
<1>2. /\ results' \in Seq(Entries)
      /\ Len(results') = Len(results) + Len(entries)
      /\ Len(results) \in Nat /\ Len(entries) \in Nat
  BY <1>1
<1>3. \A i \in 1 .. Len(results) : i \in DOMAIN results' /\ results'[i] = results[i]
  BY <1>1
<1>4. \A i \in 1 .. Len(entries) : /\ Len(results) + i \in DOMAIN results'
                                   /\ results'[Len(results) + i] = entries[i]
  BY <1>1
<1>5. /\ \A i \in 1 .. Len(results) : results[i] \in Range(results)
      /\ \A i \in 1 .. Len(entries) : entries[i] \in Range(entries)
      /\ \A e \in Range(results) : \E i \in 1 .. Len(results) : e = results[i]
      /\ \A e \in Range(entries) : \E i \in 1 .. Len(entries) : e = entries[i]
      /\ \A i \in 1 .. Len(results') : results'[i] \in Range(results')
      /\ \A e \in Range(results') : \E i \in 1 .. Len(results') : e = results'[i]
      /\ DOMAIN results' = 1 .. Len(results')
  <2>1. /\ \A i \in 1 .. Len(results) : results[i] \in Range(results)
        /\ \A e \in Range(results) : \E i \in 1 .. Len(results) : e = results[i]
    <3>1. DOMAIN results = 1 .. Len(results)
      BY <1>1
    <3> QED
      BY <3>1, InRange, OfRange
  <2>2. /\ \A i \in 1 .. Len(entries) : entries[i] \in Range(entries)
        /\ \A e \in Range(entries) : \E i \in 1 .. Len(entries) : e = entries[i]
    <3>1. DOMAIN entries = 1 .. Len(entries)
      OBVIOUS
    <3> QED
      BY <3>1, InRange, OfRange
  <2>3. /\ \A i \in 1 .. Len(results') : results'[i] \in Range(results')
        /\ \A e \in Range(results') : \E i \in 1 .. Len(results') : e = results'[i]
        /\ DOMAIN results' = 1 .. Len(results')
    <3>1. DOMAIN results' = 1 .. Len(results')
      BY <1>2
    <3> QED
      BY <3>1, InRange, OfRange
  <2> QED
    BY <2>1, <2>2, <2>3
<1>6. ASSUME NEW i \in 1 .. Len(results')
      PROVE  results'[i] \in Range(results) \cup Range(entries)
  <2>1. CASE i <= Len(results)
    <3>1. i \in 1 .. Len(results)
      BY <1>2, <2>1
    <3> QED
      BY <1>3, <1>5, <3>1
  <2>2. CASE i > Len(results)
    <3>1. i - Len(results) \in 1 .. Len(entries) /\ Len(results) + (i - Len(results)) = i
      BY <1>2, <2>2
    <3>2. results'[i] = entries[i - Len(results)]
      BY <1>4, <3>1
    <3> QED
      BY <1>5, <3>1, <3>2
  <2> QED
    BY <1>2, <2>1, <2>2
<1>7. Range(results') \subseteq Range(results) \cup Range(entries)
  BY <1>5, <1>6
<1>8. Range(results) \subseteq Range(results')
  BY <1>3, <1>5
<1>9. Range(entries) \subseteq Range(results')
  BY <1>4, <1>5
<1> QED
  BY <1>2, <1>3, <1>4, <1>7, <1>8, <1>9

\* Every chunk action appends proper entries.
Refused == <<ErrorEntry>>
Raised == [i \in DOMAIN Chunk(SizeInPhase) |-> ErrorEntry]
Answered(unread) ==
  [i \in DOMAIN Chunk(SizeInPhase) |->
     Entry(Chunk(SizeInPhase)[i],
           Chunk(SizeInPhase)[i] \in unread \/ ~HasProperty(Chunk(SizeInPhase)[i]))]

LEMMA ProperEntries ==
  ASSUME TypeOK
  PROVE  /\ Refused \in Seq(Entries)
         /\ left # <<>> => Raised \in Seq(Entries)
         /\ left # <<>> => \A unread : Answered(unread) \in Seq(Entries)
<1>1. ErrorEntry \in Entries
  BY DiscoveryAssumption DEF ErrorEntry, Entries
<1>2. \A o \in Objects : \A t \in BOOLEAN : Entry(o, t) \in Entries
  BY DEF Entry, Entries, TypeOK
<1>3. ASSUME left # <<>>
      PROVE  Raised \in Seq(Entries) /\ \A unread : Answered(unread) \in Seq(Entries)
  <2> DEFINE chunk == Chunk(SizeInPhase)
  <2>1. chunk \in Seq(Objects) /\ Len(chunk) \in Nat
    BY <1>3, Chunking
  <2> HIDE DEF chunk
  <2>2. DOMAIN chunk = 1 .. Len(chunk) /\ \A i \in DOMAIN chunk : chunk[i] \in Objects
    BY <2>1
  <2>3. [i \in DOMAIN chunk |-> ErrorEntry] \in Seq(Entries)
    BY <1>1, <2>1, <2>2
  <2>4. ASSUME NEW unread
        PROVE  [i \in DOMAIN chunk |-> Entry(chunk[i], chunk[i] \in unread \/ ~HasProperty(chunk[i]))]
                 \in Seq(Entries)
    <3>1. \A i \in DOMAIN chunk :
            Entry(chunk[i], chunk[i] \in unread \/ ~HasProperty(chunk[i])) \in Entries
      BY <1>2, <2>2 DEF HasProperty
    <3> QED
      BY <2>1, <2>2, <3>1
  <2> QED
    BY <2>3, <2>4 DEF Raised, Answered, chunk
<1> QED
  BY <1>1, <1>3 DEF Refused

\* The three ways a chunk ends that let the call go on.
LEMMA ChunkSteps ==
  ASSUME ChunkRefused \/ ChunkRaises \/ ChunkAnswered
  PROVE  \/ NextChunk(Refused) /\ failures' = TRUE
         \/ NextChunk(Raised) /\ phase # "read" /\ failures' = TRUE
         \/ \E unread \in SUBSET Range(Chunk(SizeInPhase)) :
              /\ NextChunk(Answered(unread))
              /\ failures' = (failures \/ unread # {})
<1>1. ASSUME ChunkAnswered
      PROVE  \E unread \in SUBSET Range(Chunk(SizeInPhase)) :
               NextChunk(Answered(unread)) /\ failures' = (failures \/ unread # {})
  BY <1>1 DEF ChunkAnswered, Answered
<1> QED
  BY <1>1 DEF ChunkRefused, ChunkRaises, Refused, Raised

(***************************************************************************)
(* Type correctness                                                        *)
(***************************************************************************)

ChunkAction == ChunkRefused \/ ChunkRaises \/ ChunkAnswered

\* The actions that ask for what comes next, and the rest.
Asking == AddressResolved \/ ListRead \/ LengthRead \/ ElementRead \/ NamesDone \/ ArraysDone

Quiet ==
  \/ NoReply \/ IAm \/ ListUnreadable \/ DiscoveryRaises
  \/ ReadRaises \/ OverridesDone \/ ReadDone \/ UNCHANGED vars

LEMMA Cases == [Next]_vars => DeviceChanges \/ ChunkAction \/ Asking \/ Quiet
BY DEF Next, ChunkAction, Asking, Quiet

LEMMA ListTypes == \A list \in Lists : list \in Seq(Objects)
BY DiscoveryAssumption

LEMMA ChunkTypes == TypeOK /\ ChunkAction => TypeOK'
<1> SUFFICES ASSUME TypeOK, ChunkAction PROVE TypeOK'
  OBVIOUS
<1>1. PICK entries \in Seq(Entries) : NextChunk(entries) /\ failures' \in BOOLEAN
  <2>1. left # <<>>
    BY DEF ChunkAction, ChunkRefused, ChunkRaises, ChunkAnswered, NextChunk
  <2> QED
    BY <2>1, ChunkSteps, ProperEntries DEF ChunkAction, TypeOK
<1>2. results' \in Seq(Entries)
  BY <1>1, Results
<1>3. left' \in Seq(Objects)
  BY <1>1, Chunking DEF NextChunk
<1> QED
  BY <1>1, <1>2, <1>3 DEF NextChunk, TypeOK, device, answer

LEMMA GoodEntries ==
  ASSUME TypeOK
  PROVE  /\ \A e \in Good : e \in Entries
         /\ \A e \in Good : e \in Range(results)
<1>1. DOMAIN results = 1 .. Len(results) /\ \A i \in 1 .. Len(results) : results[i] \in Entries
  BY DEF TypeOK
<1> QED
  BY <1>1, InRange DEF Good

LEMMA AskTypes == TypeOK /\ Asking => TypeOK'
<1> SUFFICES ASSUME TypeOK, Asking PROVE TypeOK'
  OBVIOUS
<1>0. <<>> \in Seq(Entries) /\ <<>> \in Seq(Objects)
  OBVIOUS
<1>1. CASE AddressResolved
  BY <1>0, <1>1, DiscoveryAssumption DEF AddressResolved, Ask, TypeOK, device, answer
<1>2. CASE ListRead
  <2>1. deviceList \in Seq(Objects)
    BY ListTypes DEF TypeOK
  <2>2. found' \in Seq(Objects)
    BY <1>2, <2>1, SelectedFacts DEF ListRead
  <2>3. Selected(found', Known) \in Seq(Objects)
    BY <2>2, SelectedFacts
  <2> QED
    BY <1>0, <1>2, <2>2, <2>3 DEF ListRead, Ask, TypeOK, device, answer
<1>3. CASE LengthRead
  <2>1. Len(deviceList) \in Nat
    BY ListTypes DEF TypeOK
  <2> QED
    BY <1>0, <1>3, <2>1 DEF LengthRead, Ask, TypeOK, device, answer
<1>4. CASE ElementRead
  <2>1. deviceList \in Seq(Objects) /\ found \in Seq(Objects) /\ Len(found) \in Nat
        /\ Len(deviceList) \in Nat
    BY ListTypes DEF TypeOK
  <2>2. deviceList[Len(found) + 1] \in Objects
    BY <1>4, <2>1 DEF ElementRead
  <2>3. found' \in Seq(Objects)
    BY <1>4, <2>1, <2>2 DEF ElementRead
  <2>4. Selected(found', Known) \in Seq(Objects)
    BY <2>3, SelectedFacts
  <2> QED
    BY <1>0, <1>4, <2>3, <2>4 DEF ElementRead, Ask, TypeOK, device, answer
<1>5. CASE NamesDone
  <2>1. Selected(found, MayCommand) \in Seq(Objects)
    BY SelectedFacts DEF TypeOK
  <2>2. NamesOf \subseteq Objects \X (Objects \cup {"text"})
    BY GoodEntries DEF NamesOf, Entries
  <2> QED
    BY <1>0, <1>5, <2>1, <2>2 DEF NamesDone, Ask, TypeOK, device, answer
<1>6. CASE ArraysDone
  <2>1. Selected(found, commandable') \in Seq(Objects)
    BY SelectedFacts DEF TypeOK
  <2>2. CommandableOf \subseteq Objects
    BY GoodEntries DEF CommandableOf, Entries
  <2> QED
    BY <1>0, <1>6, <2>1, <2>2 DEF ArraysDone, Ask, TypeOK, device, answer
<1> QED
  BY <1>1, <1>2, <1>3, <1>4, <1>5, <1>6 DEF Asking

LEMMA QuietTypes == TypeOK /\ Quiet => TypeOK'
<1> SUFFICES ASSUME TypeOK, Quiet PROVE TypeOK'
  OBVIOUS
<1>1. CASE OverridesDone
  <2>1. SlotsOf \subseteq Objects \X (1 .. 16)
    <3>1. \A e \in Good : e.value \subseteq Overrides
      BY GoodEntries DEF Entries
    <3>2. Overrides \subseteq Objects \X (1 .. 16)
      BY DiscoveryAssumption DEF Overrides
    <3> QED
      BY <3>1, <3>2 DEF SlotsOf
  <2> QED
    BY <1>1, <2>1 DEF OverridesDone, TypeOK, device
<1>2. CASE ListUnreadable \/ NoReply \/ DiscoveryRaises
  <2>1. /\ UNCHANGED <<goal, left, size, results, answer, device, sent>>
        /\ phase' \in {"done", "failed"} /\ found' = <<>> /\ failures' = TRUE
    BY <1>2 DEF ListUnreadable, NoReply, DiscoveryRaises, Raise
  <2>2. found' \in Seq(Objects)
    BY <2>1
  <2> QED
    BY <2>1, <2>2 DEF TypeOK, device, answer
<1>3. CASE IAm \/ ReadRaises \/ ReadDone \/ UNCHANGED vars
  BY <1>3 DEF IAm, ReadRaises, ReadDone, vars, TypeOK, device, answer
<1> QED
  BY <1>1, <1>2, <1>3 DEF Quiet

LEMMA DeviceTypes == TypeOK /\ DeviceChanges => TypeOK'
<1> SUFFICES ASSUME TypeOK, DeviceChanges PROVE TypeOK'
  OBVIOUS
<1>1. active' \subseteq Overrides /\ deviceList' \in Lists
  BY DEF DeviceChanges, TypeOK
<1>2. seen' \subseteq Overrides /\ steady' \subseteq Overrides
  BY <1>1 DEF DeviceChanges, TypeOK
<1>3. changed' \in 0 .. MaxChanges
  BY DiscoveryAssumption DEF DeviceChanges, TypeOK
<1> QED
  BY <1>1, <1>2, <1>3 DEF DeviceChanges, TypeOK, answer

LEMMA InitTypes == Init => TypeOK
<1> SUFFICES ASSUME Init PROVE TypeOK
  OBVIOUS
<1>1. /\ found \in Seq(Objects) /\ left \in Seq(Objects) /\ sent \in Seq(Objects)
      /\ results \in Seq(Entries)
  BY DEF Init
<1>2. /\ active \subseteq Overrides /\ seen \subseteq Overrides /\ steady \subseteq Overrides
      /\ names \subseteq Objects \X (Objects \cup {"text"})
      /\ commandable \subseteq Objects /\ slots \subseteq Objects \X (1 .. 16)
  BY DEF Init
<1>3. goal \in {"discover", "check", "multiple"} /\ changed \in 0 .. MaxChanges /\ size \in Nat
  BY DiscoveryAssumption DEF Init
<1> QED
  BY <1>1, <1>2, <1>3 DEF Init, TypeOK

LEMMA NextTypes == TypeOK /\ [Next]_vars => TypeOK'
BY Cases, ChunkTypes, AskTypes, QuietTypes, DeviceTypes

\* Type correctness for any device, lists and requests.
THEOREM DiscoveryTypes == Spec => []TypeOK
BY InitTypes, NextTypes, PTL DEF Spec

(***************************************************************************)
(* The inductive invariant                                                 *)
(***************************************************************************)

\* Which call may be in which phase.
Kinds ==
  /\ goal = "multiple" => phase \in {"who-is", "read", "done", "failed"} /\ names = {}
  /\ phase = "read" => goal = "multiple"
  /\ phase = "overrides" => goal = "check"
  /\ phase = "done" /\ goal = "multiple" => left = <<>>

\* The fallback stops at the length it was told, and what it read is kept whole or dropped.
ListWhole ==
  /\ phase \in {"who-is", "list", "length"} => size = 0 /\ found = <<>>
  /\ phase = "element" => Len(found) < size
  /\ size > 0 /\ phase # "element" => Len(found) \in {0, size}

NamesOwn == \A pair \in names : pair[2] \in {pair[1], "text"}

\* Until a chunk is refused, results and open requests together are the requests.
InStep ==
  goal = "multiple" /\ (\A i \in DOMAIN results : ~results[i].error) =>
    /\ Len(results) + Len(left) = Len(sent)
    /\ \A i \in 1 .. Len(results) : results[i].oid = sent[i]
    /\ \A i \in 1 .. Len(left) : left[i] = sent[Len(results) + i]

Nested == steady \subseteq active /\ active \subseteq seen

Witnessed == slots \subseteq seen /\ \A e \in Range(results) : e.value \subseteq seen

\* Without a failed read, a request is open or has been answered,
Attended == ~failures => \A o \in Range(sent) : o \in Range(left) \/ o \in CommandableOf

\* ... and a steady override of an object that was asked about is among the answers,
Gathered ==
  ~failures => \A a \in steady :
    a[1] \in Range(sent) => a[1] \in Range(left) \/ a \in Answers

\* ... and every object of the nine types is asked about, again if it may have such an override.
Asked ==
  ~failures =>
    /\ phase = "arrays" => Range(found) \cap MayCommand \subseteq Range(sent)
    /\ phase = "overrides" => \A a \in steady :
                                a[1] \in Range(found) \cap MayCommand => a[1] \in Range(sent)

IInv == /\ TypeOK /\ Kinds /\ ListWhole /\ NamesOwn /\ InStep /\ Nested /\ Witnessed
        /\ Attended /\ Gathered /\ Asked /\ SteadyOverridesReported

LEMMA InitIInv == Init => IInv
<1> SUFFICES ASSUME Init PROVE IInv
  OBVIOUS
<1>1. Range(sent) = {} /\ Range(results) = {}
  BY DEF Init, Range
<1>2. Len(sent) = 0 /\ Len(left) = 0 /\ Len(results) = 0
  BY DEF Init
<1>3. Kinds /\ ListWhole /\ NamesOwn /\ Nested /\ SteadyOverridesReported
  BY DEF Init, Kinds, ListWhole, NamesOwn, Nested, SteadyOverridesReported
<1>4. InStep
  BY <1>2 DEF InStep
<1>5. Witnessed /\ Attended /\ Gathered /\ Asked
  BY <1>1 DEF Init, Witnessed, Attended, Gathered, Asked
<1> QED
  BY <1>3, <1>4, <1>5, InitTypes DEF IInv

(***************************************************************************)
(* The device changes                                                      *)
(***************************************************************************)

LEMMA DeviceKeeps == IInv /\ DeviceChanges => IInv'
<1> SUFFICES ASSUME IInv, DeviceChanges PROVE IInv'
  OBVIOUS
<1> USE DEF IInv
<1>1. TypeOK'
  BY DeviceTypes
<1>2. /\ UNCHANGED <<goal, phase, found, left, size, results, names, commandable, slots, sent, failures>>
      /\ seen \subseteq seen' /\ steady' \subseteq steady
      /\ active' \subseteq seen' /\ steady' \subseteq active'
      /\ phase # "done"
  BY DEF DeviceChanges, answer
<1>3. Kinds' /\ ListWhole' /\ NamesOwn' /\ InStep' /\ Nested'
  BY <1>2 DEF Kinds, ListWhole, NamesOwn, InStep, Nested
<1>4. Witnessed'
  BY <1>2 DEF Witnessed
<1>5. Attended'
  BY <1>2 DEF Attended, CommandableOf, Good
<1>6. Gathered'
  <2>1. Answers' = Answers
    BY <1>2 DEF Answers, Good
  <2> QED
    BY <1>2, <2>1 DEF Gathered
<1>7. Asked'
  BY <1>2 DEF Asked
<1>8. SteadyOverridesReported'
  BY <1>2 DEF SteadyOverridesReported
<1> QED
  BY <1>1, <1>3, <1>4, <1>5, <1>6, <1>7, <1>8

(***************************************************************************)
(* A chunk ends                                                            *)
(***************************************************************************)

\* What was answered stays answered, and what is appended counts.
LEMMA GoodGrows ==
  ASSUME TypeOK, NEW STATE entries, entries \in Seq(Entries), NextChunk(entries)
  PROVE  /\ Good \subseteq Good'
         /\ \A i \in 1 .. Len(entries) : ~entries[i].error => entries[i] \in Good'
         /\ CommandableOf \subseteq CommandableOf'
         /\ Answers \subseteq Answers'
<1>1. DOMAIN results = 1 .. Len(results)
  BY DEF TypeOK
<1>2. Good \subseteq Good'
  BY <1>1, Results DEF Good
<1>3. \A i \in 1 .. Len(entries) : ~entries[i].error => entries[i] \in Good'
  BY Results DEF Good
<1> QED
  BY <1>2, <1>3 DEF CommandableOf, Answers

\* An entry of an answered chunk carries what is in force.
LEMMA AnsweredEntry ==
  ASSUME IInv, left # <<>>, NEW STATE unread, NEW i \in 1 .. Len(Chunk(SizeInPhase))
  PROVE  /\ Len(Answered(unread)) = Len(Chunk(SizeInPhase))
         /\ ~Answered(unread)[i].error
         /\ Answered(unread)[i].oid = Chunk(SizeInPhase)[i]
         /\ Answered(unread)[i].value \subseteq active
         /\ unread = {} => \A a \in steady : a[1] = Chunk(SizeInPhase)[i]
                                              => a \in Answered(unread)[i].value
<1> DEFINE chunk == Chunk(SizeInPhase)
           o == chunk[i]
           isText == o \in unread \/ ~HasProperty(o)
<1>1. chunk \in Seq(Objects) /\ Len(chunk) \in Nat
  BY Chunking DEF IInv
<1>2. DOMAIN chunk = 1 .. Len(chunk)
  BY <1>1
<1>3. Answered(unread)[i] = Entry(o, isText)
  BY <1>2 DEF Answered
<1>4. Len(Answered(unread)) = Len(chunk)
  BY <1>1, <1>2 DEF Answered
<1>5. /\ ~Entry(o, isText).error /\ Entry(o, isText).oid = o
      /\ Entry(o, isText).value = IF isText THEN {} ELSE {a \in active : a[1] = o}
  BY DEF Entry
<1>6. ASSUME unread = {}, NEW a \in steady, a[1] = o PROVE a \in Entry(o, isText).value
  <2>1. a \in active /\ a \in Overrides
    BY DEF IInv, Nested, TypeOK
  <2>2. a[1] \in Arrayed
    BY <2>1 DEF Overrides
  <2>3. ~isText
    BY <1>6, <2>2 DEF HasProperty
  <2> QED
    BY <1>5, <1>6, <2>1, <2>3
<1> QED
  BY <1>3, <1>4, <1>5, <1>6

\* Values appended by a chunk, in whichever way it ends, are in force.
LEMMA ChunkValues ==
  ASSUME IInv, ChunkAction
  PROVE  \A e \in Range(results') : e \in Range(results) \/ e.value \subseteq active
<1> USE DEF IInv
<1>0. left # <<>>
  BY DEF ChunkAction, ChunkRefused, ChunkRaises, ChunkAnswered, NextChunk
<1>1. PICK entries \in {Refused, Raised} \cup {Answered(unread) : unread \in SUBSET Range(Chunk(SizeInPhase))} :
        NextChunk(entries)
  BY ChunkSteps DEF ChunkAction
<1>2. entries \in Seq(Entries)
  BY <1>0, <1>1, ProperEntries
<1>3. Range(results') = Range(results) \cup Range(entries)
  BY <1>1, <1>2, Results
<1>4. \A e \in Range(entries) : e.value \subseteq active
  <2>1. CASE entries = Refused
    <3>1. \A e \in Range(Refused) : e = ErrorEntry
      BY DEF Refused, Range
    <3> QED
      BY <2>1, <3>1 DEF ErrorEntry
  <2>2. CASE entries = Raised
    <3>1. \A e \in Range(Raised) : e = ErrorEntry
      BY DEF Raised, Range
    <3> QED
      BY <2>2, <3>1 DEF ErrorEntry
  <2>3. ASSUME NEW unread \in SUBSET Range(Chunk(SizeInPhase)), entries = Answered(unread)
        PROVE  \A e \in Range(entries) : e.value \subseteq active
    <3>1. \A e \in Range(Answered(unread)) : \E o, t : e = Entry(o, t)
      BY DEF Answered, Range
    <3>2. \A o, t : Entry(o, t).value \subseteq active
      BY DEF Entry
    <3> QED
      BY <2>3, <3>1, <3>2
  <2> QED
    BY <1>1, <2>1, <2>2, <2>3
<1> QED
  BY <1>3, <1>4

\* A chunk whose reads all succeeded.
LEMMA ChunkAnswers ==
  ASSUME IInv, ChunkAction, ~failures'
  PROVE  /\ ~failures
         /\ \A o \in Range(left) : o \in Range(left') \/ o \in CommandableOf'
         /\ \A a \in steady : a[1] \in Range(left) => a[1] \in Range(left') \/ a \in Answers'
         /\ CommandableOf \subseteq CommandableOf' /\ Answers \subseteq Answers'
<1> USE DEF IInv
<1>0. left # <<>>
  BY DEF ChunkAction, ChunkRefused, ChunkRaises, ChunkAnswered, NextChunk
<1>1. PICK unread \in SUBSET Range(Chunk(SizeInPhase)) :
        NextChunk(Answered(unread)) /\ failures' = (failures \/ unread # {})
  BY ChunkSteps DEF ChunkAction
<1>2. ~failures /\ unread = {}
  BY <1>1
<1> DEFINE chunk == Chunk(SizeInPhase)
           rest == SubSeq(left, Lesser(SizeInPhase, Len(left)) + 1, Len(left))
<1>3. /\ chunk \in Seq(Objects) /\ Len(chunk) \in Nat
      /\ Range(left) = Range(chunk) \cup Range(rest) /\ left' = rest
  BY <1>0, <1>1, Chunking DEF NextChunk
<1>4. /\ Answered(unread) \in Seq(Entries)
      /\ \A i \in 1 .. Len(Answered(unread)) : ~Answered(unread)[i].error => Answered(unread)[i] \in Good'
      /\ CommandableOf \subseteq CommandableOf' /\ Answers \subseteq Answers'
  BY <1>0, <1>1, ProperEntries, GoodGrows
<1>5. \A i \in 1 .. Len(chunk) :
        /\ Answered(unread)[i] \in Good' /\ Answered(unread)[i].oid = chunk[i]
        /\ \A a \in steady : a[1] = chunk[i] => a \in Answered(unread)[i].value
  BY <1>0, <1>2, <1>4, AnsweredEntry
<1>6. DOMAIN chunk = 1 .. Len(chunk)
  BY <1>3
<1> HIDE DEF chunk, rest
<1>7. \A o \in Range(chunk) : \E i \in 1 .. Len(chunk) : o = chunk[i]
  BY <1>6, OfRange
<1>8. \A o \in Range(chunk) : o \in CommandableOf'
  BY <1>5, <1>7 DEF CommandableOf
<1>9. \A a \in steady : a[1] \in Range(chunk) => a \in Answers'
  BY <1>5, <1>7 DEF Answers
<1> QED
  BY <1>2, <1>3, <1>4, <1>8, <1>9

LEMMA ChunkInStep == IInv /\ ChunkAction => InStep'
<1> SUFFICES ASSUME IInv, ChunkAction, goal' = "multiple",
                    \A i \in DOMAIN results' : ~results'[i].error
             PROVE  /\ Len(results') + Len(left') = Len(sent')
                    /\ \A i \in 1 .. Len(results') : results'[i].oid = sent'[i]
                    /\ \A i \in 1 .. Len(left') : left'[i] = sent'[Len(results') + i]
  BY DEF InStep
<1> USE DEF IInv
<1>0. left # <<>> /\ goal = "multiple" /\ phase = "read" /\ sent' = sent
  BY DEF ChunkAction, ChunkRefused, ChunkRaises, ChunkAnswered, NextChunk, InChunks, Kinds
<1>1. ~NextChunk(Refused)
  <2> SUFFICES ASSUME NextChunk(Refused) PROVE FALSE
    OBVIOUS
  <2>1. Refused \in Seq(Entries) /\ Len(Refused) = 1 /\ Refused[1].error
    BY ProperEntries DEF Refused, ErrorEntry
  <2>2. /\ Len(results) + 1 \in DOMAIN results'
        /\ results'[Len(results) + 1] = Refused[1]
    <3>1. 1 \in 1 .. Len(Refused)
      BY <2>1
    <3> QED
      BY <2>1, <3>1, Results
  <2> QED
    BY <2>1, <2>2
<1>2. PICK unread \in SUBSET Range(Chunk(SizeInPhase)) : NextChunk(Answered(unread))
  BY <1>0, <1>1, ChunkSteps DEF ChunkAction
<1> DEFINE entries == Answered(unread)
           c == Lesser(SizeInPhase, Len(left))
           chunk == Chunk(SizeInPhase)
           rest == SubSeq(left, c + 1, Len(left))
<1>3. entries \in Seq(Entries)
  BY <1>0, ProperEntries
<1>4. /\ c \in Nat /\ c >= 1 /\ c <= Len(left) /\ Len(left) \in Nat
      /\ Len(chunk) = c
      /\ \A i \in 1 .. c : chunk[i] = left[i]
      /\ Len(rest) = Len(left) - c
      /\ \A i \in 1 .. Len(left) - c : rest[i] = left[c + i]
      /\ left' = rest
  <2>1. left' = rest
    BY <1>2 DEF NextChunk
  <2>2. Len(left) \in Nat
    BY DEF TypeOK
  <2>3. /\ c \in Nat /\ c >= 1 /\ c <= Len(left)
        /\ Len(chunk) = c
        /\ \A i \in 1 .. c : chunk[i] = left[i]
        /\ Len(rest) = Len(left) - c
        /\ \A i \in 1 .. Len(left) - c : rest[i] = left[c + i]
    BY <1>0, Chunking
  <2> QED
    BY <2>1, <2>2, <2>3
<1>5. /\ Len(entries) = c
      /\ \A i \in 1 .. c : entries[i].oid = chunk[i]
  <2>1. 1 \in 1 .. Len(chunk)
    BY <1>4
  <2> QED
    BY <1>0, <1>4, <2>1, AnsweredEntry
<1>6. /\ Len(results') = Len(results) + Len(entries) /\ Len(results) \in Nat
      /\ \A i \in 1 .. Len(results) : i \in DOMAIN results' /\ results'[i] = results[i]
      /\ \A i \in 1 .. Len(entries) : results'[Len(results) + i] = entries[i]
  BY <1>2, <1>3, Results
<1>7. \A i \in DOMAIN results : ~results[i].error
  <2>1. DOMAIN results = 1 .. Len(results)
    BY DEF TypeOK
  <2> QED
    BY <1>6, <2>1
<1>8. /\ Len(results) + Len(left) = Len(sent)
      /\ \A i \in 1 .. Len(results) : results[i].oid = sent[i]
      /\ \A i \in 1 .. Len(left) : left[i] = sent[Len(results) + i]
  BY <1>0, <1>7 DEF InStep
<1> HIDE DEF entries, c, chunk, rest
<1>9. Len(results') + Len(left') = Len(sent')
  <2>1. Len(left') = Len(left) - c
    BY <1>4
  <2>2. Len(results') = Len(results) + c
    BY <1>5, <1>6
  <2>3. (Len(results) + c) + (Len(left) - c) = Len(results) + Len(left)
    BY <1>4, <1>6
  <2> QED
    BY <1>0, <1>8, <2>1, <2>2, <2>3
<1>10. ASSUME NEW i \in 1 .. Len(results') PROVE results'[i].oid = sent'[i]
  <2>1. CASE i <= Len(results)
    BY <1>0, <1>6, <1>8, <2>1
  <2>2. CASE i > Len(results)
    <3>1. i - Len(results) \in 1 .. c /\ Len(results) + (i - Len(results)) = i
      BY <1>4, <1>5, <1>6, <2>2
    <3>2. results'[i].oid = left[i - Len(results)]
      BY <1>4, <1>5, <1>6, <3>1
    <3>3. left[i - Len(results)] = sent[i]
      BY <1>4, <1>8, <3>1
    <3> QED
      BY <1>0, <3>2, <3>3
  <2> QED
    BY <1>4, <1>5, <1>6, <2>1, <2>2
<1>11. ASSUME NEW i \in 1 .. Len(left') PROVE left'[i] = sent'[Len(results') + i]
  <2>1. i \in 1 .. Len(left) - c /\ c + i \in 1 .. Len(left)
    BY <1>4
  <2>2. left'[i] = left[c + i]
    BY <1>4, <2>1
  <2>3. Len(results) + (c + i) = Len(results') + i
    BY <1>4, <1>5, <1>6, <2>1
  <2> QED
    BY <1>0, <1>8, <2>1, <2>2, <2>3
<1> QED
  BY <1>9, <1>10, <1>11

LEMMA ChunkKeeps == IInv /\ ChunkAction => IInv'
<1> SUFFICES ASSUME IInv, ChunkAction PROVE IInv'
  OBVIOUS
<1> USE DEF IInv
<1>1. TypeOK'
  BY ChunkTypes
<1>2. UNCHANGED <<goal, phase, found, size, names, commandable, slots, active, seen, steady, sent>>
      /\ InChunks
  BY DEF ChunkAction, ChunkRefused, ChunkRaises, ChunkAnswered, NextChunk, device, answer
<1>3. phase # "done"
  BY <1>2 DEF InChunks
<1>4. Kinds' /\ ListWhole' /\ NamesOwn' /\ Nested'
  BY <1>2, <1>3 DEF Kinds, ListWhole, NamesOwn, Nested
<1>5. InStep'
  BY ChunkInStep
<1>6. Witnessed'
  BY <1>2, ChunkValues DEF Witnessed, Nested
<1>7. Attended'
  <2> SUFFICES ASSUME ~failures', NEW o \in Range(sent')
               PROVE  o \in Range(left') \/ o \in CommandableOf'
    BY DEF Attended
  <2>1. /\ ~failures
        /\ \A q \in Range(left) : q \in Range(left') \/ q \in CommandableOf'
        /\ CommandableOf \subseteq CommandableOf'
    BY ChunkAnswers
  <2>2. o \in Range(sent)
    BY <1>2
  <2> QED
    BY <2>1, <2>2 DEF Attended
<1>8. Gathered'
  <2> SUFFICES ASSUME ~failures', NEW a \in steady', a[1] \in Range(sent')
               PROVE  a[1] \in Range(left') \/ a \in Answers'
    BY DEF Gathered
  <2>1. /\ ~failures
        /\ \A b \in steady : b[1] \in Range(left) => b[1] \in Range(left') \/ b \in Answers'
        /\ Answers \subseteq Answers'
    BY ChunkAnswers
  <2>2. a \in steady /\ a[1] \in Range(sent)
    BY <1>2
  <2> QED
    BY <2>1, <2>2 DEF Gathered
<1>9. Asked'
  <2>1. ~failures' => ~failures
    BY ChunkAnswers
  <2> QED
    BY <1>2, <2>1 DEF Asked
<1>10. SteadyOverridesReported'
  BY <1>2, <1>3 DEF SteadyOverridesReported
<1> QED
  BY <1>1, <1>4, <1>5, <1>6, <1>7, <1>8, <1>9, <1>10

(***************************************************************************)
(* The next requests, and the ends of a call                               *)
(***************************************************************************)

\* New requests are all open, and nothing is answered yet.
LEMMA AskFresh ==
  ASSUME left' \in Seq(Objects), sent' = left', results' = <<>>
  PROVE  InStep' /\ Attended' /\ Gathered' /\ Range(results') = {}
<1>1. Len(results') = 0 /\ Range(results') = {}
  BY DEF Range
<1>2. Len(left') \in Nat /\ Len(left') = Len(sent')
  OBVIOUS
<1>3. InStep'
  BY <1>1, <1>2 DEF InStep
<1>4. Range(left') = Range(sent')
  OBVIOUS
<1> QED
  BY <1>1, <1>3, <1>4 DEF Attended, Gathered

\* What phases before the names leave as it was.
LEMMA Unasked ==
  ASSUME IInv, UNCHANGED <<left, sent, results, steady>>, failures => failures',
         goal' = goal
  PROVE  InStep' /\ Attended' /\ Gathered' /\ Range(results') = Range(results)
<1> USE DEF IInv
<1>1. Good' = Good /\ Range(left') = Range(left) /\ Range(sent') = Range(sent)
  BY DEF Good
<1>2. CommandableOf' = CommandableOf /\ Answers' = Answers
  BY <1>1 DEF CommandableOf, Answers
<1>3. InStep'
  BY DEF InStep
<1>4. Attended'
  BY <1>1, <1>2 DEF Attended
<1>5. Gathered'
  BY <1>1, <1>2 DEF Gathered
<1> QED
  BY <1>3, <1>4, <1>5

\* Elements are appended up to the length the fallback was told.
LEMMA AskListWhole == IInv /\ Asking => ListWhole'
<1> SUFFICES ASSUME IInv, Asking PROVE ListWhole'
  OBVIOUS
<1> USE DEF IInv, ListWhole
<1>1. CASE ListRead
  <2>1. phase = "list" /\ size' = size /\ phase' \in {"length", "names"}
        /\ (phase' = "length" => found' = <<>>)
    BY <1>1 DEF ListRead
  <2> QED
    BY <2>1
<1>2. CASE LengthRead
  <2>1. /\ phase = "length" /\ found' = found /\ size' = Len(deviceList)
        /\ phase' = IF size' = 0 THEN "names" ELSE "element"
    BY <1>2 DEF LengthRead
  <2>2. Len(deviceList) \in Nat
    BY ListTypes DEF TypeOK
  <2>3. Len(found') = 0
    BY <2>1
  <2> QED
    BY <2>1, <2>2, <2>3
<1>3. CASE ElementRead
  <2>1. /\ phase = "element" /\ size' = size
        /\ found' = Append(found, deviceList[Len(found) + 1])
        /\ phase' = IF Len(found') = size THEN "names" ELSE "element"
    BY <1>3 DEF ElementRead
  <2>2. Len(found') = Len(found) + 1 /\ Len(found) \in Nat /\ size \in Nat
    BY <2>1 DEF TypeOK
  <2>3. Len(found) < size
    BY <2>1
  <2> QED
    BY <2>1, <2>2, <2>3
<1>4. CASE AddressResolved \/ NamesDone \/ ArraysDone
  <2>1. /\ UNCHANGED <<found, size>>
        /\ phase # "element" /\ phase' \notin {"who-is", "list", "length", "element"}
    BY <1>4 DEF AddressResolved, NamesDone, ArraysDone
  <2> QED
    BY <2>1
<1> QED
  BY <1>1, <1>2, <1>3, <1>4 DEF Asking

\* The arrays phase asks for all that may be commanded, the overrides phase for all
\* that are commandable.
LEMMA AskKeeps == IInv /\ Asking => IInv'
<1> SUFFICES ASSUME IInv, Asking PROVE IInv'
  OBVIOUS
<1> USE DEF IInv
<1>1. TypeOK'
  BY AskTypes
<1>w. ListWhole'
  BY AskListWhole
<1>2. CASE \/ AddressResolved \/ NamesDone
           \/ ListRead /\ found' # <<>>
           \/ LengthRead /\ size' = 0
           \/ ElementRead /\ Len(found') = size
           \/ ArraysDone /\ goal = "check" /\ found # <<>>
  <2>1. left' \in Seq(Objects) /\ sent' = left' /\ results' = <<>>
    BY <1>1, <1>2 DEF AddressResolved, NamesDone, ListRead, LengthRead, ElementRead, ArraysDone,
                      Ask, TypeOK
  <2>2. UNCHANGED <<goal, slots, active, seen, steady, failures>>
    BY <1>2 DEF AddressResolved, NamesDone, ListRead, LengthRead, ElementRead, ArraysDone,
                answer, device
  <2>3. /\ phase' \in {"read", "names", "arrays", "overrides"}
        /\ phase' = "read" <=> AddressResolved
        /\ phase' = "arrays" <=> NamesDone
        /\ phase' = "overrides" <=> ArraysDone
    BY <1>2 DEF AddressResolved, NamesDone, ListRead, LengthRead, ElementRead, ArraysDone
  <2>4. InStep' /\ Attended' /\ Gathered' /\ Range(results') = {}
    BY <2>1, AskFresh
  <2>5. /\ AddressResolved => names' = names /\ goal = "multiple"
        /\ NamesDone => names' = NamesOf /\ goal # "multiple"
        /\ ArraysDone => names' = names /\ goal # "multiple"
        /\ ListRead \/ LengthRead \/ ElementRead => names' = names /\ goal # "multiple"
    BY DEF AddressResolved, NamesDone, ListRead, LengthRead, ElementRead, ArraysDone, answer, Kinds
  <2>6. Kinds'
    <3>1. goal' = "multiple" => AddressResolved
      BY <1>2, <2>2, <2>5
    <3>2. goal' = "multiple" => phase' = "read" /\ names' = {}
      BY <2>2, <2>3, <2>5, <3>1 DEF Kinds
    <3>3. phase' = "read" => goal' = "multiple"
      BY <2>2, <2>3, <2>5
    <3>4. phase' = "overrides" => goal' = "check"
      <4>1. ArraysDone => ~(NamesDone \/ AddressResolved \/ ListRead \/ LengthRead \/ ElementRead)
        BY DEF ArraysDone, NamesDone, AddressResolved, ListRead, LengthRead, ElementRead
      <4> QED
        BY <1>2, <2>2, <2>3, <4>1
    <3> QED
      BY <2>3, <3>2, <3>3, <3>4 DEF Kinds
  <2>7. NamesOwn'
    <3>1. \A pair \in NamesOf : pair[2] \in {pair[1], "text"}
      BY DEF NamesOf
    <3> QED
      BY <1>2, <2>5, <3>1 DEF NamesOwn
  <2>8. Nested' /\ Witnessed'
    BY <2>2, <2>4 DEF Nested, Witnessed
  <2>9. Asked'
    <3>1. ASSUME phase' = "arrays" PROVE Range(found') \cap MayCommand \subseteq Range(sent')
      <4>1. sent' = Selected(found, MayCommand) /\ found' = found
        BY <2>3, <3>1 DEF NamesDone, Ask
      <4>2. Range(found) \cap MayCommand \subseteq Range(Selected(found, MayCommand))
        BY SelectedFacts DEF TypeOK
      <4> QED
        BY <4>1, <4>2
    <3>2. ASSUME phase' = "overrides", ~failures', NEW a \in steady',
                 a[1] \in Range(found') \cap MayCommand
          PROVE  a[1] \in Range(sent')
      <4>1. ArraysDone /\ goal = "check" /\ found # <<>>
        BY <1>2, <2>3, <3>2 DEF AddressResolved, NamesDone, ListRead, LengthRead, ElementRead
      <4>2. /\ phase = "arrays" /\ left = <<>> /\ found' = found
            /\ commandable' = CommandableOf /\ sent' = Selected(found, commandable')
        BY <4>1 DEF ArraysDone, Ask
      <4>3. ~failures
        BY <2>2, <3>2
      <4>5. a[1] \in Range(sent)
        BY <3>2, <4>2, <4>3 DEF Asked
      <4>6. Range(left) = {}
        BY <4>2 DEF Range
      <4>7. a[1] \in commandable'
        BY <4>2, <4>3, <4>5, <4>6 DEF Attended
      <4>8. Range(found) \cap commandable' \subseteq Range(Selected(found, commandable'))
        BY SelectedFacts DEF TypeOK
      <4> QED
        BY <3>2, <4>2, <4>7, <4>8
    <3> QED
      BY <3>1, <3>2 DEF Asked
  <2>10. SteadyOverridesReported'
    BY <2>3 DEF SteadyOverridesReported
  <2> QED
    BY <1>1, <1>w, <2>4, <2>6, <2>7, <2>8, <2>9, <2>10
<1>3. CASE \/ ListRead /\ found' = <<>>
           \/ LengthRead /\ size' # 0
           \/ ElementRead /\ Len(found') # size
           \/ ArraysDone /\ ~(goal = "check" /\ found # <<>>)
  <2>1. /\ UNCHANGED <<goal, left, sent, results, names, slots, active, seen, steady, failures>>
        /\ phase' \in {"length", "element", "done"}
        /\ phase' = "done" => goal # "multiple" /\ (goal = "check" => found' = <<>>)
        /\ goal # "multiple"
    BY <1>3 DEF ListRead, LengthRead, ElementRead, ArraysDone, answer, device, Kinds
  <2>2. InStep' /\ Attended' /\ Gathered' /\ Range(results') = Range(results)
    BY <2>1, Unasked
  <2>3. Kinds' /\ NamesOwn' /\ Nested' /\ Witnessed' /\ Asked'
    BY <2>1, <2>2 DEF Kinds, NamesOwn, Nested, Witnessed, Asked
  <2>4. SteadyOverridesReported'
    <3>1. found' = <<>> => Range(found') = {}
      BY DEF Range
    <3> QED
      BY <2>1, <3>1 DEF SteadyOverridesReported, Listed
  <2> QED
    BY <1>1, <1>w, <2>2, <2>3, <2>4
<1> QED
  BY <1>2, <1>3 DEF Asking

LEMMA QuietKeeps == IInv /\ Quiet => IInv'
<1> SUFFICES ASSUME IInv, Quiet PROVE IInv'
  OBVIOUS
<1> USE DEF IInv
<1>1. TypeOK'
  BY QuietTypes
<1>2. /\ UNCHANGED <<goal, left, sent, results, names, active, seen, steady>>
      /\ failures => failures'
  BY DEF Quiet, NoReply, IAm, ListUnreadable, DiscoveryRaises, Raise, ReadRaises, OverridesDone,
         ReadDone, vars, answer, device
<1>w. ListWhole'
  <2>1. /\ size' = size
        /\ \/ found' = <<>> /\ phase' \in {"done", "failed"}
           \/ found' = found /\ (phase' = phase \/ (phase = "who-is" /\ phase' = "list"))
           \/ found' = found /\ phase \in {"read", "overrides"} /\ phase' \in {"done", "failed"}
    <3>1. CASE ListUnreadable \/ NoReply \/ DiscoveryRaises
      BY <3>1 DEF NoReply, ListUnreadable, DiscoveryRaises, Raise
    <3>2. CASE IAm
      BY <3>2 DEF IAm
    <3>3. CASE ReadRaises \/ OverridesDone \/ ReadDone
      BY <3>3 DEF ReadRaises, OverridesDone, ReadDone
    <3>4. CASE UNCHANGED vars
      BY <3>4 DEF vars
    <3> QED
      BY <3>1, <3>2, <3>3, <3>4 DEF Quiet
  <2>2. found' = <<>> => Len(found') = 0
    OBVIOUS
  <2> QED
    BY <2>1, <2>2 DEF ListWhole
<1>3. InStep' /\ Attended' /\ Gathered' /\ Range(results') = Range(results)
  BY <1>2, Unasked
<1>4. NamesOwn' /\ Nested'
  BY <1>2 DEF NamesOwn, Nested
<1>5. CASE OverridesDone
  <2>1. /\ phase = "overrides" /\ goal = "check" /\ left = <<>>
        /\ phase' = "done" /\ slots' = SlotsOf /\ found' = found /\ failures' = failures
    BY <1>5 DEF OverridesDone, Kinds
  <2>2. Kinds' /\ Asked'
    BY <1>2, <2>1 DEF Kinds, Asked
  <2>3. SlotsOf \subseteq seen
    BY GoodEntries DEF SlotsOf, Witnessed
  <2>4. Witnessed'
    BY <1>2, <1>3, <2>1, <2>3 DEF Witnessed
  <2>5. SteadyOverridesReported'
    <3> SUFFICES ASSUME ~failures, NEW a \in steady, a[1] \in Range(found) \cap MayCommand
                 PROVE  a \in SlotsOf
      BY <1>2, <2>1 DEF SteadyOverridesReported, Listed
    <3>1. a[1] \in Range(sent)
      BY <2>1 DEF Asked
    <3>2. Range(left) = {}
      BY <2>1 DEF Range
    <3> QED
      BY <3>1, <3>2 DEF Gathered, Answers, SlotsOf
  <2> QED
    BY <1>1, <1>w, <1>3, <1>4, <2>2, <2>4, <2>5
<1>6. CASE ReadDone
  <2>1. /\ phase = "read" /\ goal = "multiple" /\ left = <<>> /\ phase' = "done"
        /\ UNCHANGED <<found, failures, slots>>
    BY <1>6 DEF ReadDone, Kinds, answer
  <2>2. Kinds' /\ Asked' /\ Witnessed'
    BY <1>2, <1>3, <2>1 DEF Kinds, Asked, Witnessed
  <2>3. SteadyOverridesReported'
    <3> SUFFICES ASSUME ~failures, NEW a \in steady, a[1] \in Range(sent)
                 PROVE  a \in Answers
      <4>1. Answers' = Answers
        BY <1>2 DEF Answers, Good
      <4> QED
        BY <1>2, <2>1, <4>1 DEF SteadyOverridesReported
    <3>1. Range(left) = {}
      BY <2>1 DEF Range
    <3> QED
      BY <3>1 DEF Gathered
  <2> QED
    BY <1>1, <1>w, <1>3, <1>4, <2>2, <2>3
<1>7. CASE ListUnreadable \/ NoReply \/ DiscoveryRaises
  <2>1. phase' \in {"done", "failed"} /\ failures' /\ slots' = slots
        /\ (phase' = "done" => goal # "multiple")
    BY <1>7 DEF ListUnreadable, NoReply, DiscoveryRaises, Raise, Kinds, answer
  <2> QED
    BY <1>1, <1>w, <1>2, <1>3, <1>4, <2>1 DEF Kinds, Asked, Witnessed, SteadyOverridesReported
<1>8. CASE IAm \/ ReadRaises
  <2>1. /\ phase' \in {"failed", "list"} /\ slots' = slots
        /\ phase' = "list" => goal # "multiple"
    BY <1>8 DEF IAm, ReadRaises, answer
  <2> QED
    BY <1>1, <1>w, <1>2, <1>3, <1>4, <2>1 DEF Kinds, Asked, Witnessed, SteadyOverridesReported
<1>9. CASE UNCHANGED vars
  <2>1. UNCHANGED <<phase, found, failures, slots>>
    BY <1>9 DEF vars, answer
  <2>2. Answers' = Answers
    BY <1>2 DEF Answers, Good
  <2> QED
    BY <1>1, <1>w, <1>2, <1>3, <1>4, <2>1, <2>2
       DEF Kinds, Asked, Witnessed, SteadyOverridesReported, Listed
<1> QED
  BY <1>5, <1>6, <1>7, <1>8, <1>9 DEF Quiet

LEMMA NextIInv == IInv /\ [Next]_vars => IInv'
BY Cases, DeviceKeeps, ChunkKeeps, AskKeeps, QuietKeeps

(***************************************************************************)
(* The properties                                                          *)
(***************************************************************************)

LEMMA IInvImplies == IInv => AnswersMatch /\ OverridesWitnessed /\ SteadyOverridesReported
<1> SUFFICES ASSUME IInv PROVE AnswersMatch /\ OverridesWitnessed
  BY DEF IInv
<1> USE DEF IInv
<1>1. ASSUME phase = "done", goal = "multiple", \A i \in DOMAIN results : ~results[i].error
      PROVE  [i \in DOMAIN results |-> results[i].oid] = sent
  <2>1. left = <<>>
    BY <1>1 DEF Kinds
  <2>2. /\ Len(results) + Len(left) = Len(sent)
        /\ \A i \in 1 .. Len(results) : results[i].oid = sent[i]
    BY <1>1 DEF InStep
  <2>3. results \in Seq(Entries) /\ sent \in Seq(Objects) /\ Len(left) = 0
    BY <2>1 DEF TypeOK
  <2>4. Len(results) \in Nat /\ Len(results) = Len(sent)
    BY <2>2, <2>3
  <2>5. DOMAIN results = 1 .. Len(sent)
    BY <2>3, <2>4
  <2>6. sent = [i \in 1 .. Len(sent) |-> sent[i]]
    BY <2>3
  <2>7. \A i \in 1 .. Len(sent) : results[i].oid = sent[i]
    BY <2>2, <2>4
  <2> QED
    BY <2>5, <2>6, <2>7
<1>2. AnswersMatch
  BY <1>1 DEF AnswersMatch, NamesOwn, ListWhole
<1>3. Answers \subseteq seen
  BY GoodEntries DEF Answers, Witnessed
<1> QED
  BY <1>2, <1>3 DEF OverridesWitnessed, Witnessed

\* The strengthening from which the properties follow.
THEOREM DiscoveryInvariant == Spec => []IInv
BY InitIInv, NextIInv, PTL DEF Spec

\* Names and the entries of a read-multiple belong to what was asked for, and a list read
\* element by element is whole.
THEOREM AnswersAlwaysMatch == Spec => []AnswersMatch
BY DiscoveryInvariant, IInvImplies, PTL

\* No override is reported that was not in force at some moment of the call.
THEOREM OverridesAlwaysWitnessed == Spec => []OverridesWitnessed
BY DiscoveryInvariant, IInvImplies, PTL

\* Without failed reads no override that was in force throughout is missed on an object that
\* is asked about: in a check a listed object of the nine types (client_utils.py:574-594).
THEOREM NoSteadyOverrideMissed == Spec => []SteadyOverridesReported
BY DiscoveryInvariant, IInvImplies, PTL

(***************************************************************************)
(* What a call without failed reads returns                                *)
(***************************************************************************)

\* A discovery none of whose reads failed names every object it lists, if its type is
\* known, by its own name; and calls commandable all that are of the nine types, no others,
\* in however many chunks they were asked for (client_utils.py:541-598).
ReportsComplete ==
  phase = "done" /\ goal # "multiple" /\ ~failures =>
    /\ names = {<<o, o>> : o \in Listed \cap Known}
    /\ commandable = Listed \cap MayCommand

\* Against a device that does not change meanwhile what a call returns is exact: the
\* device's objects, and in a check the overrides of those of the nine types, without those
\* of any other type (client_utils.py:485-598, 697-788).
ExactWhenQuiet ==
  phase = "done" /\ goal # "multiple" /\ ~failures /\ changed = 0 =>
    /\ Listed \ {DeviceObject} = Range(deviceList) \ {DeviceObject}
    /\ goal = "check" => slots = {a \in active : a[1] \in Range(deviceList) \cap MayCommand}

\* An entry is of an object that was asked about, and of its own slots.
EntriesOwn ==
  /\ Range(left) \subseteq Range(sent)
  /\ \A e \in Good : e.oid \in Range(sent) /\ \A a \in e.value : a[1] = e.oid
  /\ phase = "names" /\ ~failures => \A e \in Good : ~e.text

\* What each phase asks about, and what the phases before it found.
Stages ==
  /\ phase = "names" => Range(sent) = Range(found) \cap Known
  /\ phase = "arrays" => Range(sent) = Range(found) \cap MayCommand
  /\ phase = "overrides" => Range(sent) \subseteq Range(found) \cap MayCommand
  /\ phase \in {"arrays", "overrides", "done"} /\ goal # "multiple" /\ ~failures
       => names = {<<o, o>> : o \in Range(found) \cap Known}
  /\ phase \in {"overrides", "done"} /\ goal # "multiple" /\ ~failures
       => commandable = Range(found) \cap MayCommand
  /\ phase # "done" => slots = {} \/ phase = "failed"
  /\ phase = "done" => \A a \in slots : a[1] \in Range(found) \cap MayCommand

\* While nothing changes, what has been read of the device is what it has.
ListedSoFar ==
  changed = 0 =>
    /\ seen = active /\ steady = active
    /\ phase = "element" =>
         /\ size = Len(deviceList) /\ Len(found) < size
         /\ \A i \in 1 .. Len(found) : found[i] = deviceList[i]
    /\ phase \in {"names", "arrays", "overrides", "done"} /\ goal # "multiple" /\ ~failures
         => Range(found) \ {DeviceObject} = Range(deviceList) \ {DeviceObject}

DInv == IInv /\ EntriesOwn /\ Stages /\ ListedSoFar

\* Selected adds nothing either: its elements are those that are in both.
LEMMA SelectedRange ==
  ASSUME NEW X, NEW seq, seq \in Seq(X), NEW S
  PROVE  Range(Selected(seq, S)) = Range(seq) \cap S
<1> DEFINE places == Places(seq, S)
           Pick(k) == CHOOSE i \in places : Upto(places, i) = k
<1>1. places \in SUBSET (1 .. Len(seq)) /\ Cardinality(places) \in Nat
  BY PlacesFinite
<1>2. \A i \in places : seq[i] \in Range(seq) \cap S
  BY DEF Places, Range
<1>3. Selected(seq, S) = [k \in 1 .. Cardinality(places) |-> seq[Pick(k)]]
  BY DEF Selected
<1> HIDE DEF places
<1>4. \A k \in 1 .. Cardinality(places) : Pick(k) \in places
  <2> SUFFICES ASSUME NEW k \in 1 .. Cardinality(places) PROVE Pick(k) \in places
    OBVIOUS
  <2>1. Len(seq) \in Nat
    OBVIOUS
  <2> QED
    BY <1>1, <2>1, KthPlace
<1> HIDE DEF Pick
<1>5. \A k \in 1 .. Cardinality(places) : Selected(seq, S)[k] \in Range(seq) \cap S
  BY <1>2, <1>3, <1>4
<1>6. Range(Selected(seq, S)) \subseteq Range(seq) \cap S
  <2> DEFINE selected == Selected(seq, S)
  <2>1. DOMAIN selected = 1 .. Cardinality(places)
    BY <1>3
  <2> HIDE DEF selected
  <2>2. \A o \in Range(selected) : \E k \in 1 .. Cardinality(places) : o = selected[k]
    BY <2>1, OfRange
  <2> QED
    BY <1>5, <2>2 DEF selected
<1> QED
  BY <1>6, SelectedFacts

\* The requests are those of the chunk and the rest.
LEMMA ChunkSplits ==
  ASSUME TypeOK, left # <<>>
  PROVE  /\ Range(Chunk(SizeInPhase)) \subseteq Range(left)
         /\ Range(SubSeq(left, Lesser(SizeInPhase, Len(left)) + 1, Len(left))) \subseteq Range(left)
<1> DEFINE c == Lesser(SizeInPhase, Len(left))
           chunk == Chunk(SizeInPhase)
           rest == SubSeq(left, c + 1, Len(left))
<1>1. Range(left) = Range(chunk) \cup Range(rest)
  BY Chunking
<1> QED
  BY <1>1

\* An entry that a chunk adds is of an object the chunk asked about and of its own slots,
\* and is no text where all objects have the property and can be read.
LEMMA ChunkOwn ==
  ASSUME TypeOK, ChunkAction, NEW e \in Good'
  PROVE  \/ e \in Good
         \/ /\ e.oid \in Range(left)
            /\ \A a \in e.value : a[1] = e.oid
            /\ phase = "names" /\ ~failures' => ~e.text
<1>0. left # <<>>
  BY DEF ChunkAction, ChunkRefused, ChunkRaises, ChunkAnswered, NextChunk
<1>1. PICK entries \in Seq(Entries) :
        /\ NextChunk(entries)
        /\ \/ entries = Refused \/ entries = Raised
           \/ \E unread \in SUBSET Range(Chunk(SizeInPhase)) :
                entries = Answered(unread) /\ failures' = (failures \/ unread # {})
  BY <1>0, ChunkSteps, ProperEntries DEF ChunkAction
<1>2. PICK j \in 1 .. Len(results') : e = results'[j] /\ ~e.error
  <2>1. DOMAIN results' = 1 .. Len(results')
    BY <1>1, Results
  <2> QED
    BY <2>1 DEF Good
<1>3. CASE j <= Len(results)
  <2>1. j \in 1 .. Len(results) /\ DOMAIN results = 1 .. Len(results)
    BY <1>1, <1>3, Results DEF TypeOK
  <2>2. e = results[j]
    BY <1>1, <1>2, <2>1, Results
  <2> QED
    BY <1>2, <2>1, <2>2 DEF Good
<1>4. CASE j > Len(results)
  <2> DEFINE i == j - Len(results)
  <2>1. i \in 1 .. Len(entries) /\ Len(results) + i = j
    BY <1>1, <1>4, Results
  <2>2. e = entries[i]
    BY <1>1, <1>2, <2>1, Results
  <2> HIDE DEF i
  <2>3. DOMAIN entries = 1 .. Len(entries)
    BY <1>1
  <2>4. entries # Refused
    BY <1>2, <2>1, <2>2, <2>3 DEF Refused, ErrorEntry
  <2>5. entries # Raised
    BY <1>2, <2>1, <2>2, <2>3 DEF Raised, ErrorEntry
  <2>6. PICK unread \in SUBSET Range(Chunk(SizeInPhase)) :
          entries = Answered(unread) /\ failures' = (failures \/ unread # {})
    BY <1>1, <2>4, <2>5
  <2> DEFINE o == Chunk(SizeInPhase)[i]
             isText == o \in unread \/ ~HasProperty(o)
  <2>7. i \in DOMAIN Chunk(SizeInPhase) /\ e = Entry(o, isText)
    BY <2>1, <2>2, <2>3, <2>6 DEF Answered
  <2>8. o \in Range(left)
    <3>1. o \in Range(Chunk(SizeInPhase))
      BY <2>7, InRange
    <3> QED
      BY <1>0, <3>1, ChunkSplits
  <2>9. phase = "names" /\ ~failures' => ~isText
    BY <2>6 DEF HasProperty
  <2> HIDE DEF isText, o
  <2>10. e.oid = o /\ e.text = isText /\ \A a \in e.value : a[1] = o
    BY <2>7 DEF Entry
  <2> QED
    BY <2>8, <2>9, <2>10
<1> QED
  BY <1>1, <1>2, <1>3, <1>4, Results

LEMMA ChunkOwns == DInv /\ ChunkAction => EntriesOwn' /\ Stages' /\ ListedSoFar'
<1> SUFFICES ASSUME DInv, ChunkAction PROVE EntriesOwn' /\ Stages' /\ ListedSoFar'
  OBVIOUS
<1> USE DEF DInv, IInv
<1>1. /\ UNCHANGED <<goal, phase, found, size, names, commandable, slots>>
      /\ UNCHANGED <<deviceList, active, changed, seen, steady, sent>>
      /\ left # <<>> /\ (~failures' => ~failures)
      /\ left' = SubSeq(left, Lesser(SizeInPhase, Len(left)) + 1, Len(left))
      /\ phase # "done"
  BY DEF ChunkAction, ChunkRefused, ChunkRaises, ChunkAnswered, NextChunk, InChunks, answer, device
<1>2. Range(left') \subseteq Range(left)
  BY <1>1, ChunkSplits
<1>3. EntriesOwn'
  <2>1. Range(left') \subseteq Range(sent')
    BY <1>1, <1>2 DEF EntriesOwn
  <2>2. ASSUME NEW e \in Good'
        PROVE  /\ e.oid \in Range(sent')
               /\ \A a \in e.value : a[1] = e.oid
               /\ phase' = "names" /\ ~failures' => ~e.text
    <3>1. CASE e \in Good
      BY <1>1, <3>1 DEF EntriesOwn
    <3>2. CASE e \notin Good
      <4>1. /\ e.oid \in Range(left)
            /\ \A a \in e.value : a[1] = e.oid
            /\ phase = "names" /\ ~failures' => ~e.text
        BY <3>2, ChunkOwn
      <4> QED
        BY <1>1, <4>1 DEF EntriesOwn
    <3> QED
      BY <3>1, <3>2
  <2> QED
    BY <2>1, <2>2 DEF EntriesOwn
<1>4. Stages'
  BY <1>1 DEF Stages
<1>5. ListedSoFar'
  BY <1>1 DEF ListedSoFar
<1> QED
  BY <1>3, <1>4, <1>5

LEMMA DeviceOwns == DInv /\ DeviceChanges => EntriesOwn' /\ Stages' /\ ListedSoFar'
<1> SUFFICES ASSUME DInv, DeviceChanges PROVE EntriesOwn' /\ Stages' /\ ListedSoFar'
  OBVIOUS
<1>1. /\ UNCHANGED <<goal, phase, found, left, size, results, answer, sent, failures>>
      /\ changed' # 0
  BY DEF DeviceChanges, DInv, IInv, TypeOK
<1>2. EntriesOwn'
  BY <1>1 DEF DInv, EntriesOwn, Good
<1>3. Stages'
  BY <1>1 DEF DInv, Stages, answer
<1> QED
  BY <1>1, <1>2, <1>3 DEF ListedSoFar

\* New requests: nothing has been answered.
LEMMA FreshOwns ==
  ASSUME sent' = left', results' = <<>>
  PROVE  EntriesOwn'
<1>1. Good' = {}
  BY DEF Good
<1> QED
  BY <1>1 DEF EntriesOwn

\* Once all has been asked and no read has failed, the answers are of just what was asked.
LEMMA AllAnswered ==
  ASSUME DInv, left = <<>>, ~failures
  PROVE  CommandableOf = Range(sent)
<1>1. Range(left) = {}
  BY DEF Range
<1>2. Range(sent) \subseteq CommandableOf
  BY <1>1 DEF DInv, IInv, Attended
<1>3. CommandableOf \subseteq Range(sent)
  BY DEF CommandableOf, DInv, EntriesOwn
<1> QED
  BY <1>2, <1>3

\* The list is asked for as a whole or, if that gives nothing, element by element; either
\* way the names are asked of the objects in it.
LEMMA ListOwns ==
  ASSUME DInv, ListRead \/ LengthRead \/ ElementRead
  PROVE  EntriesOwn' /\ Stages' /\ ListedSoFar'
<1> USE DEF DInv, IInv
<1>1. /\ UNCHANGED <<goal, answer, device, failures>>
      /\ phase \in {"list", "length", "element"}
      /\ phase' \in {"length", "element", "names"}
      /\ phase' # "names" => UNCHANGED <<left, sent, results>>
      /\ phase' = "names" => sent' = left' /\ results' = <<>>
  BY DEF ListRead, LengthRead, ElementRead, Ask
<1>2. found' \in Seq(Objects) /\ deviceList \in Seq(Objects) /\ found \in Seq(Objects)
  <2>1. TypeOK'
    BY AskTypes DEF Asking
  <2> QED
    BY <2>1, ListTypes DEF TypeOK
<1>3. phase' = "names" => Range(sent') = Range(found') \cap Known
  <2>1. Range(Selected(found', Known)) = Range(found') \cap Known
    BY <1>2, SelectedRange
  <2>2. CASE ListRead \/ ElementRead
    BY <1>1, <2>1, <2>2 DEF ListRead, ElementRead, Ask
  <2>3. ASSUME LengthRead, phase' = "names" PROVE Range(sent') = Range(found') \cap Known
    <3>1. sent' = <<>> /\ found' = found /\ phase = "length"
      BY <2>3 DEF LengthRead, Ask
    <3>2. found = <<>>
      BY <3>1 DEF ListWhole
    <3> QED
      BY <3>1, <3>2 DEF Range
  <2> QED
    BY <2>2, <2>3
<1>4. EntriesOwn'
  <2>1. CASE phase' = "names"
    BY <1>1, <2>1, FreshOwns
  <2>2. CASE phase' # "names"
    BY <1>1, <2>2 DEF EntriesOwn, Good
  <2> QED
    BY <2>1, <2>2
<1>5. Stages'
  BY <1>1, <1>3 DEF Stages, answer
<1>6. ASSUME changed' = 0 PROVE ListedSoFar'
  <2>0. /\ changed = 0 /\ seen' = active' /\ steady' = active' /\ deviceList' = deviceList
    BY <1>1, <1>6 DEF ListedSoFar, device
  <2>1. CASE ListRead
    <3>1. /\ found' = Selected(deviceList, Objects \ {DeviceObject})
          /\ phase' \in {"length", "names"}
      BY <2>1 DEF ListRead
    <3>2. Range(found') = Range(deviceList) \ {DeviceObject}
      <4>1. Range(deviceList) \subseteq Objects
        BY <1>2, OfRange
      <4>2. Range(found') = Range(deviceList) \cap (Objects \ {DeviceObject})
        BY <1>2, <3>1, SelectedRange
      <4> QED
        BY <4>1, <4>2
    <3> QED
      BY <2>0, <3>1, <3>2 DEF ListedSoFar
  <2>2. CASE LengthRead
    <3>1. /\ found' = <<>> /\ size' = Len(deviceList) /\ Len(deviceList) \in Nat
          /\ phase' \in {"names", "element"}
          /\ phase' = "names" => size' = 0
          /\ phase' = "element" => size' # 0
      BY <1>2, <2>2 DEF LengthRead, ListWhole
    <3>2. phase' = "names" => Range(found') = Range(deviceList)
      BY <1>2, <3>1, EmptySeq DEF Range
    <3>3. Len(found') = 0
      BY <3>1
    <3>4. CASE phase' = "element"
      <4>1. size' = Len(deviceList') /\ Len(found') < size'
        BY <2>0, <3>1, <3>3, <3>4
      <4>2. \A i \in 1 .. Len(found') : found'[i] = deviceList'[i]
        BY <3>3
      <4> QED
        BY <2>0, <3>4, <4>1, <4>2 DEF ListedSoFar
    <3>5. CASE phase' = "names"
      BY <2>0, <3>2, <3>5 DEF ListedSoFar
    <3> QED
      BY <3>1, <3>4, <3>5
  <2>3. CASE ElementRead
    <3>1. /\ found' = Append(found, deviceList[Len(found) + 1]) /\ size' = size
          /\ phase' \in {"names", "element"}
          /\ phase' = "names" => Len(found') = size
          /\ phase' = "element" => Len(found') # size
          /\ phase = "element"
      BY <2>3 DEF ElementRead
    <3>2. /\ size = Len(deviceList) /\ Len(found) < size
          /\ \A i \in 1 .. Len(found) : found[i] = deviceList[i]
      BY <2>0, <3>1 DEF ListedSoFar
    <3>3. /\ Len(found') = Len(found) + 1 /\ Len(found) \in Nat /\ Len(deviceList) \in Nat
          /\ \A i \in 1 .. Len(found') : found'[i] = deviceList[i]
      BY <1>2, <3>1, <3>2
    <3>4. phase' = "names" => Range(found') = Range(deviceList)
      <4> SUFFICES ASSUME phase' = "names" PROVE Range(found') = Range(deviceList)
        OBVIOUS
      <4>1. DOMAIN found' = DOMAIN deviceList
        BY <1>2, <3>1, <3>2
      <4>2. \A i \in DOMAIN found' : found'[i] = deviceList[i]
        BY <1>2, <3>3
      <4> QED
        BY <4>1, <4>2, Zenon DEF Range
    <3> QED
      BY <2>0, <3>1, <3>2, <3>3, <3>4 DEF ListedSoFar
  <2> QED
    BY <2>1, <2>2, <2>3
<1> QED
  BY <1>4, <1>5, <1>6 DEF ListedSoFar

LEMMA AskOwns ==
  ASSUME DInv, AddressResolved \/ NamesDone \/ ArraysDone
  PROVE  EntriesOwn' /\ Stages' /\ ListedSoFar'
<1> USE DEF DInv, IInv
<1>1. /\ UNCHANGED <<goal, found, size, slots, failures>>
      /\ UNCHANGED <<deviceList, active, changed, seen, steady>>
  BY DEF AddressResolved, NamesDone, ArraysDone, answer, device
<1>2. CASE AddressResolved
  <2>1. goal = "multiple" /\ phase = "who-is" /\ phase' = "read" /\ sent' = left' /\ results' = <<>>
    BY <1>2 DEF AddressResolved, Ask
  <2>2. EntriesOwn'
    BY <2>1, FreshOwns
  <2>3. Stages' /\ ListedSoFar'
    BY <1>1, <2>1 DEF Stages, ListedSoFar
  <2> QED
    BY <2>2, <2>3
<1>3. CASE NamesDone
  <2>1. /\ phase = "names" /\ phase' = "arrays" /\ left = <<>> /\ names' = NamesOf
        /\ left' = Selected(found, MayCommand) /\ sent' = left' /\ results' = <<>>
    BY <1>3 DEF NamesDone, Ask
  <2>2. EntriesOwn'
    BY <2>1, FreshOwns
  <2>3. Range(sent') = Range(found') \cap MayCommand
    BY <1>1, <2>1, SelectedRange DEF TypeOK
  <2>4. ASSUME ~failures PROVE names' = {<<o, o>> : o \in Range(found') \cap Known}
    <3>1. Range(sent) = Range(found') \cap Known
      BY <1>1, <2>1 DEF Stages
    <3>2. CommandableOf = Range(found') \cap Known
      BY <2>1, <2>4, <3>1, AllAnswered
    <3>3. \A e \in Good : ~e.text
      BY <2>1, <2>4 DEF EntriesOwn
    <3>4. NamesOf = {<<e.oid, e.oid>> : e \in Good}
      BY <3>3 DEF NamesOf
    <3>5. NamesOf = {<<o, o>> : o \in CommandableOf}
      BY <3>4 DEF CommandableOf
    <3> QED
      BY <2>1, <3>2, <3>5
  <2>5. Stages'
    BY <1>1, <2>1, <2>3, <2>4 DEF Stages
  <2>6. ListedSoFar'
    BY <1>1, <2>1 DEF ListedSoFar
  <2> QED
    BY <2>2, <2>5, <2>6
<1>4. CASE ArraysDone
  <2>1. /\ phase = "arrays" /\ left = <<>> /\ names' = names /\ commandable' = CommandableOf
        /\ phase' \in {"overrides", "done"}
        /\ phase' = "overrides" =>
             left' = Selected(found, commandable') /\ sent' = left' /\ results' = <<>>
        /\ phase' = "done" => UNCHANGED <<left, sent, results>>
    BY <1>4 DEF ArraysDone, Ask
  <2>2. EntriesOwn'
    <3>1. CASE phase' = "overrides"
      BY <2>1, <3>1, FreshOwns
    <3>2. CASE phase' = "done"
      BY <1>1, <2>1, <3>2 DEF EntriesOwn, Good
    <3> QED
      BY <2>1, <3>1, <3>2
  <2>3. phase' = "overrides" => Range(sent') \subseteq Range(found') \cap MayCommand
    <3>1. Range(Selected(found, commandable')) = Range(found) \cap commandable'
      BY SelectedRange DEF TypeOK
    <3>2. commandable' \subseteq Range(sent)
      BY <2>1 DEF CommandableOf, EntriesOwn
    <3>3. Range(sent) = Range(found) \cap MayCommand
      BY <2>1 DEF Stages
    <3> QED
      BY <1>1, <2>1, <3>1, <3>2, <3>3
  <2>4. ~failures => commandable' = Range(found') \cap MayCommand
    <3>1. Range(sent) = Range(found') \cap MayCommand
      BY <1>1, <2>1 DEF Stages
    <3> QED
      BY <2>1, <3>1, AllAnswered
  <2>5. slots = {}
    BY <2>1 DEF Stages
  <2>6. Stages'
    BY <1>1, <2>1, <2>3, <2>4, <2>5 DEF Stages
  <2>7. ListedSoFar'
    BY <1>1, <2>1 DEF ListedSoFar
  <2> QED
    BY <2>2, <2>6, <2>7
<1> QED
  BY <1>2, <1>3, <1>4

LEMMA QuietOwns == DInv /\ Quiet => EntriesOwn' /\ Stages' /\ ListedSoFar'
<1> SUFFICES ASSUME DInv, Quiet PROVE EntriesOwn' /\ Stages' /\ ListedSoFar'
  OBVIOUS
<1> USE DEF DInv, IInv
<1>1. /\ UNCHANGED <<goal, left, size, results, names, commandable, sent>>
      /\ UNCHANGED <<deviceList, active, changed, seen, steady>>
      /\ ~failures' => ~failures
  BY DEF Quiet, NoReply, IAm, ListUnreadable, DiscoveryRaises, Raise, ReadRaises, OverridesDone,
         ReadDone, vars, answer, device
<1>2. EntriesOwn'
  <2>1. phase' = "names" => phase = "names"
    BY DEF Quiet, NoReply, IAm, ListUnreadable, DiscoveryRaises, Raise, ReadRaises, OverridesDone,
           ReadDone, vars
  <2>2. Good' = Good
    BY <1>1 DEF Good
  <2> QED
    BY <1>1, <2>1, <2>2 DEF EntriesOwn
<1>3. CASE IAm \/ ReadRaises
  <2>1. phase' \in {"failed", "list"} /\ found' = found /\ slots' = slots /\ phase # "done"
        /\ phase # "failed"
    BY <1>3 DEF IAm, ReadRaises, answer
  <2> QED
    BY <1>1, <1>2, <2>1 DEF Stages, ListedSoFar
<1>4. CASE ListUnreadable \/ NoReply \/ DiscoveryRaises
  <2>1. phase' \in {"done", "failed"} /\ failures' /\ slots' = slots
        /\ phase \notin {"done", "failed"}
    BY <1>4 DEF ListUnreadable, NoReply, DiscoveryRaises, Raise, answer
  <2> QED
    BY <1>1, <1>2, <2>1 DEF Stages, ListedSoFar
<1>5. CASE OverridesDone
  <2>1. phase = "overrides" /\ phase' = "done" /\ found' = found /\ slots' = SlotsOf
    BY <1>5 DEF OverridesDone
  <2>2. \A a \in SlotsOf : a[1] \in Range(found) \cap MayCommand
    <3>1. ASSUME NEW e \in Good, NEW a \in e.value PROVE a[1] \in Range(found) \cap MayCommand
      BY <2>1 DEF EntriesOwn, Stages
    <3> QED
      BY <3>1 DEF SlotsOf
  <2>3. Stages'
    BY <1>1, <2>1, <2>2 DEF Stages
  <2>4. ListedSoFar'
    BY <1>1, <2>1 DEF ListedSoFar
  <2> QED
    BY <1>2, <2>3, <2>4
<1>6. CASE ReadDone
  <2>1. phase = "read" /\ phase' = "done" /\ found' = found /\ slots' = slots /\ goal = "multiple"
    BY <1>6 DEF ReadDone, answer, Kinds
  <2>2. slots = {}
    BY <2>1 DEF Stages
  <2> QED
    BY <1>1, <1>2, <2>1, <2>2 DEF Stages, ListedSoFar
<1>7. CASE UNCHANGED vars
  <2>1. phase' = phase /\ found' = found /\ slots' = slots
    BY <1>7 DEF vars, answer
  <2> QED
    BY <1>1, <1>2, <2>1 DEF Stages, ListedSoFar
<1> QED
  BY <1>3, <1>4, <1>5, <1>6, <1>7 DEF Quiet

LEMMA InitDInv == Init => DInv
<1> SUFFICES ASSUME Init PROVE EntriesOwn /\ Stages /\ ListedSoFar
  BY InitIInv DEF DInv
<1>1. Good = {} /\ Range(left) = {}
  BY DEF Init, Good, Range
<1> QED
  BY <1>1 DEF Init, EntriesOwn, Stages, ListedSoFar

LEMMA NextDInv == DInv /\ [Next]_vars => DInv'
<1> SUFFICES ASSUME DInv, [Next]_vars PROVE EntriesOwn' /\ Stages' /\ ListedSoFar'
  BY NextIInv DEF DInv
<1>1. DeviceChanges \/ ChunkAction \/ Asking \/ Quiet
  BY Cases
<1> QED
  BY <1>1, DeviceOwns, ChunkOwns, ListOwns, AskOwns, QuietOwns DEF Asking

\* A check in which nothing changed: its slots are those in force on the listed objects of
\* the nine types.
LEMMA CheckExact ==
  ASSUME DInv, phase = "done", goal = "check", ~failures, changed = 0
  PROVE  slots = {a \in active : a[1] \in Range(deviceList) \cap MayCommand}
<1> USE DEF DInv, IInv
<1>1. /\ seen = active /\ steady = active
      /\ Range(found) \ {DeviceObject} = Range(deviceList) \ {DeviceObject}
  BY DEF ListedSoFar
<1>2. DeviceObject \notin MayCommand
  BY DiscoveryAssumption
<1>3. Range(found) \cap MayCommand = Range(deviceList) \cap MayCommand
  BY <1>1, <1>2
<1>4. {a \in active : a[1] \in Range(found) \cap MayCommand} \subseteq slots
  BY <1>1 DEF SteadyOverridesReported, Listed
<1>5. slots \subseteq active /\ \A a \in slots : a[1] \in Range(found) \cap MayCommand
  BY <1>1 DEF Witnessed, Stages
<1> QED
  BY <1>3, <1>4, <1>5

\* The strengthening, of any call against any device.
THEOREM DiscoveryStages == Spec => []DInv
BY InitDInv, NextDInv, PTL DEF Spec

\* A call none of whose reads failed has named all known objects of the list and calls all
\* of the nine types commandable, across the phases and their chunks (client_utils.py:541-598).
THEOREM DiscoveryComplete == Spec => []ReportsComplete
<1>1. DInv => ReportsComplete
  BY DEF DInv, Stages, ReportsComplete, Listed
<1> QED
  BY <1>1, DiscoveryStages, PTL

\* Against a device that keeps still the answer is exact, but for the types that a check does
\* not ask about (client_utils.py:485-598, 697-788).
THEOREM QuietDeviceExact == Spec => []ExactWhenQuiet
<1>1. DInv => ExactWhenQuiet
  <2>1. ASSUME DInv, phase = "done", goal # "multiple", ~failures, changed = 0
        PROVE  Listed \ {DeviceObject} = Range(deviceList) \ {DeviceObject}
    BY <2>1 DEF DInv, ListedSoFar, Listed
  <2> QED
    BY <2>1, CheckExact DEF ExactWhenQuiet
<1> QED
  BY <1>1, DiscoveryStages, PTL

(***************************************************************************)
(* A call comes to its end                                                 *)
(***************************************************************************)

\* The phases still to come, at most, and the requests left in the one under way.
PhasesLeft ==
  CASE phase = "who-is" -> 7 [] phase = "list" -> 6 [] phase = "length" -> 5
    [] phase = "element" -> 4 [] phase = "names" -> 3 [] phase = "arrays" -> 2
    [] phase \in {"overrides", "read"} -> 1 [] phase \in {"done", "failed"} -> 0

RequestsLeft ==
  IF phase = "element" THEN size - Len(found) ELSE IF InChunks THEN Len(left) ELSE 0

\* A phase is left, or fewer of its requests are.
Nearer ==
  \/ PhasesLeft' < PhasesLeft
  \/ PhasesLeft' = PhasesLeft /\ RequestsLeft' < RequestsLeft

LEMMA ChunkNearer == TypeOK /\ ChunkAction => Nearer
<1> SUFFICES ASSUME TypeOK, ChunkAction PROVE Nearer
  OBVIOUS
<1>1. /\ phase' = phase /\ InChunks /\ left # <<>>
      /\ left' = SubSeq(left, Lesser(SizeInPhase, Len(left)) + 1, Len(left))
  BY DEF ChunkAction, ChunkRefused, ChunkRaises, ChunkAnswered, NextChunk
<1> DEFINE c == Lesser(SizeInPhase, Len(left))
           chunk == Chunk(SizeInPhase)
           rest == SubSeq(left, c + 1, Len(left))
<1>2. c \in Nat /\ c >= 1 /\ c <= Len(left) /\ Len(rest) = Len(left) - c
  BY <1>1, Chunking
<1>3. Len(left) \in Nat
  BY DEF TypeOK
<1> HIDE DEF c
<1>4. Len(left') < Len(left)
  BY <1>1, <1>2, <1>3 DEF c
<1> QED
  BY <1>1, <1>4 DEF Nearer, PhasesLeft, RequestsLeft, InChunks

LEMMA AskNearer == DInv /\ Asking => Nearer
<1> SUFFICES ASSUME DInv, Asking PROVE Nearer
  OBVIOUS
<1>1. CASE ElementRead /\ Len(found') # size
  <2>1. /\ phase = "element" /\ phase' = "element" /\ size' = size
        /\ found' = Append(found, deviceList[Len(found) + 1])
    BY <1>1 DEF ElementRead
  <2>2. Len(found) \in Nat /\ size \in Nat /\ Len(found) < size
    BY <2>1 DEF DInv, IInv, TypeOK, ListWhole
  <2>3. Len(found') = Len(found) + 1
    BY <2>1 DEF DInv, IInv, TypeOK
  <2>4. Len(found') < size
    BY <1>1, <2>2, <2>3
  <2> QED
    BY <2>1, <2>2, <2>3, <2>4 DEF Nearer, PhasesLeft, RequestsLeft
<1>2. CASE LengthRead
  BY <1>2 DEF LengthRead, Nearer, PhasesLeft
<1>3. CASE AddressResolved \/ ListRead \/ (ElementRead /\ Len(found') = size) \/ NamesDone \/ ArraysDone
  <2>1. \/ phase = "who-is" /\ phase' = "read"
        \/ phase = "list" /\ phase' \in {"length", "names"}
        \/ phase = "element" /\ phase' = "names"
        \/ phase = "names" /\ phase' = "arrays"
        \/ phase = "arrays" /\ phase' \in {"overrides", "done"}
    BY <1>3 DEF AddressResolved, ListRead, ElementRead, NamesDone, ArraysDone
  <2> QED
    BY <2>1 DEF Nearer, PhasesLeft
<1> QED
  BY <1>1, <1>2, <1>3 DEF Asking

LEMMA QuietNearer == Quiet => Nearer \/ UNCHANGED vars
<1> SUFFICES ASSUME Quiet, ~UNCHANGED vars PROVE Nearer
  OBVIOUS
<1>1. \/ phase = "who-is" /\ phase' \in {"done", "failed", "list"}
      \/ phase \in {"list", "length", "element"} /\ phase' \in {"done", "failed"}
      \/ phase \in {"read", "overrides"} /\ phase' \in {"done", "failed"}
  BY DEF Quiet, NoReply, IAm, ListUnreadable, DiscoveryRaises, Raise, ReadRaises, OverridesDone,
         ReadDone
<1> QED
  BY <1>1 DEF Nearer, PhasesLeft

\* A call ends after boundedly many requests whatever the device does and however its list
\* changes: each answer, error or refusal takes it nearer its end, through chunks of any
\* size and the element-by-element fallback (client_utils.py:394-460, 517-535, 697-788).
THEOREM CallsShorten ==
  Spec => /\ [][changed' = changed => Nearer]_vars
          /\ [](PhasesLeft \in 0 .. 7 /\ RequestsLeft \in Nat)
<1>1. DInv /\ [Next]_vars => [changed' = changed => Nearer]_vars
  <2> SUFFICES ASSUME DInv, [Next]_vars PROVE [changed' = changed => Nearer]_vars
    OBVIOUS
  <2>1. CASE DeviceChanges
    BY <2>1 DEF DeviceChanges, DInv, IInv, TypeOK
  <2>2. CASE ChunkAction
    BY <2>2, ChunkNearer DEF DInv, IInv
  <2>3. CASE Asking
    BY <2>3, AskNearer
  <2>4. CASE Quiet
    BY <2>4, QuietNearer
  <2> QED
    BY <2>1, <2>2, <2>3, <2>4, Cases
<1>2. DInv => PhasesLeft \in 0 .. 7 /\ RequestsLeft \in Nat
  <2> SUFFICES ASSUME DInv PROVE PhasesLeft \in 0 .. 7 /\ RequestsLeft \in Nat
    OBVIOUS
  <2>1. Len(found) \in Nat /\ Len(left) \in Nat /\ size \in Nat
    BY DEF DInv, IInv, TypeOK
  <2>2. PhasesLeft \in 0 .. 7
    BY DEF DInv, IInv, TypeOK, PhasesLeft
  <2> QED
    BY <2>1, <2>2 DEF RequestsLeft, DInv, IInv, ListWhole
<1> QED
  BY <1>1, <1>2, DiscoveryStages, PTL DEF Spec

=============================================================================
