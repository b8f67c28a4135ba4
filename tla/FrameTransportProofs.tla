------------------------ MODULE FrameTransportProofs ------------------------
(***************************************************************************)
(* For every set of payloads, chunk size, pending limit and age: the       *)
(* reassembler never mixes two frames, never remembers more frames than    *)
(* its limit, loses none silently and gives up the oldest first; and what  *)
(* it returns is, byte for byte, a frame that was sent.                    *)
(*                                                                         *)
(* The argument: no two frames are sent at the same time (SentOnce), so a  *)
(* chunk that passes the metadata comparison belongs to the very frame its *)
(* pending entry was opened for; the entry's chunks are then a restriction *)
(* of that frame's chunks, and as many as are counted; when the count      *)
(* reaches the chunk count the restriction is the whole.  The whole joined *)
(* in order is the payload (JoinSlices), so the frame path implements the  *)
(* frame channel.  And as long as a frame is neither returned nor dropped, *)
(* every chunk of it that came in is in its own entry (Accounted).         *)
(***************************************************************************)
EXTENDS FrameTransport, FiniteSetTheorems, SequenceTheorems, WellFoundedInduction, TLAPS

USE TransportAssumption

\* The sender's clock never gives two frames the same time, and a frame that
\* was sent fits the chunk counter.
SentOnce ==
    /\ \A f \in sent : f.sentTimeNs < stamp /\ ChunkCount(f.payload) <= MaxChunks
    /\ \A f, g \in sent : f.sentTimeNs = g.sentTimeNs => f = g

IInv == TypeOK /\ SentOnce /\ OneFramePerEntry /\ DeliveredWhole

EntryType ==
    [codec : Codecs, sentTimeNs : SentStamps, chunkCount : 2 .. MaxChunks,
     chunks : ChunkMaps, receivedChunks : 0 .. MaxChunks, createdTimeNs : 0 .. now]

-----------------------------------------------------------------------------
\* Lemmas about packetize.

\* A frame always has at least one chunk, even an empty one.
LEMMA ChunkCountType ==
    \A p \in Payloads : ChunkCount(p) \in Nat /\ ChunkCount(p) >= 1
<1> SUFFICES ASSUME NEW p \in Payloads
             PROVE  ChunkCount(p) \in Nat /\ ChunkCount(p) >= 1
  OBVIOUS
<1> DEFINE q == (Len(p) + MaxPayloadSize - 1) \div MaxPayloadSize
<1>1. q \in Int
  <2>1. Len(p) \in Nat
    OBVIOUS
  <2> QED BY <2>1
<1> HIDE DEF q
<1>2. Max({1, q}) \in {1, q} /\ Max({1, q}) >= 1
  <2> DEFINE P(x) == x \in {1, q} /\ \A y \in {1, q} : x >= y
  <2>1. \E x : P(x)
    <3>1. CASE q >= 1
      BY <1>1, <3>1
    <3>2. CASE ~(q >= 1)
      <4>1. P(1)
        BY <1>1, <3>2
      <4> QED BY <4>1
    <3> QED BY <3>1, <3>2
  <2>2. P(CHOOSE x : P(x))
    BY <2>1
  <2> QED BY <2>2 DEF Max
<1>3. QED
  BY <1>1, <1>2 DEF ChunkCount, q

\* A datagram of a sent frame carries that frame's header and one of its chunks.
LEMMA DatagramFacts ==
    ASSUME NEW f \in SentFrame, NEW i \in 0 .. ChunkCount(f.payload) - 1
    PROVE  LET d == Datagram(f, i)
           IN  /\ d.codec = f.codec
               /\ d.frameIndex = f.frameIndex
               /\ d.sentTimeNs = f.sentTimeNs
               /\ d.chunkIndex = i
               /\ d.chunkCount = ChunkCount(f.payload)
               /\ d.payload = Slices(f.payload)[i]
               /\ d.payload \in Chunks
               /\ DOMAIN Slices(f.payload) = 0 .. ChunkCount(f.payload) - 1
<1>1. Slices(f.payload)[i] = Slice(f.payload, i)
  BY DEF Slices
<1>2. f.payload \in Payloads
  BY DEF SentFrame
<1>3. Slices(f.payload)[i] \in Chunks
  BY <1>1, <1>2 DEF Chunks
<1>4. QED
  BY <1>3 DEF Datagram, Slices
-----------------------------------------------------------------------------
\* The chunks joined in order are the payload.

\* Any set of numbers has a least one: this is what an induction over the pieces
\* of a payload rests on, a first piece where two functions differ cannot exist.
LEMMA LeastNumber ==
    ASSUME NEW T \in SUBSET Nat, T # {}
    PROVE  \E x \in T : \A y \in T : x <= y
<1> DEFINE R == {ss \in Nat \X Nat : ss[1] < ss[2]}
<1>1. IsWellFoundedOn(R, Nat)
  BY NatLessThanWellFounded DEF OpToRel
<1> HIDE DEF R
<1>2. PICK x \in T : \A y \in T : <<y, x>> \notin R
  BY <1>1, WFMin, Zenon
<1>3. \A y \in T : ~(y < x)
  BY <1>2 DEF R
<1> QED
  BY <1>2, <1>3

\* What the rounded-down quotient and the multiples of a number are bounded by.
LEMMA Quotient ==
    ASSUME NEW a \in Nat, NEW b \in Nat \ {0}
    PROVE  /\ a \div b \in Nat
           /\ (a \div b) * b <= a
           /\ a < (a \div b) * b + b
OBVIOUS

LEMMA NextMultiple ==
    ASSUME NEW i \in Nat, NEW b \in Nat
    PROVE  (i + 1) * b = i * b + b
OBVIOUS

LEMMA Multiples ==
    ASSUME NEW i \in Nat, NEW j \in Nat, i <= j, NEW b \in Nat
    PROVE  i * b <= j * b /\ i * b \in Nat
OBVIOUS

\* A function that meets the recursive equation of FlattenSeq is what it computes:
\* two such functions cannot differ first at any place.
LEMMA FlattenIs ==
    ASSUME NEW q, Len(q) \in Nat \ {0}, NEW h,
           h = [j \in 1 .. Len(q) |-> IF j = 1 THEN q[j] ELSE h[j - 1] \o q[j]]
    PROVE  FlattenSeq(q) = h[Len(q)]
<1> DEFINE Step(g) == [j \in 1 .. Len(q) |-> IF j = 1 THEN q[j] ELSE g[j - 1] \o q[j]]
           flat == CHOOSE g : g = Step(g)
<1>1. h = Step(h)
  OBVIOUS
<1>2. flat = Step(flat)
  BY <1>1
<1>3. FlattenSeq(q) = flat[Len(q)]
  BY DEF FlattenSeq
<1> HIDE DEF flat
<1>4. PICK f : f = Step(f) /\ FlattenSeq(q) = f[Len(q)]
  BY <1>2, <1>3
<1>5. PICK n \in Nat \ {0} : n = Len(q)
  OBVIOUS
<1>6. \A j \in 1 .. n : /\ f[j] = IF j = 1 THEN q[j] ELSE f[j - 1] \o q[j]
                        /\ h[j] = IF j = 1 THEN q[j] ELSE h[j - 1] \o q[j]
  BY <1>1, <1>4, <1>5, Zenon
<1> DEFINE differ == {j \in 1 .. n : f[j] # h[j]}
<1>7. \A j \in differ : j \in 1 .. n /\ j \in Nat /\ f[j] # h[j]
  OBVIOUS
<1>8. \A j \in 1 .. n : j \notin differ => f[j] = h[j]
  OBVIOUS
<1> HIDE DEF differ
<1>9. ASSUME NEW j \in differ, \A k \in differ : j <= k
      PROVE  FALSE
  <2>1. CASE j = 1
    BY <1>6, <1>7, <2>1
  <2>2. CASE j # 1
    <3>1. j - 1 \in 1 .. n /\ ~(j <= j - 1)
      <4>1. j \in 1 .. n
        BY <1>7
      <4> QED BY <2>2, <4>1
    <3>2. f[j - 1] = h[j - 1]
      BY <1>8, <1>9, <3>1
    <3>3. f[j] = f[j - 1] \o q[j] /\ h[j] = h[j - 1] \o q[j]
      BY <1>6, <1>7, <2>2
    <3> QED BY <1>7, <3>2, <3>3
  <2> QED BY <2>1, <2>2
<1>10. differ = {}
  <2>1. differ \in SUBSET Nat
    BY <1>7
  <2> QED BY <1>9, <2>1, LeastNumber
<1>11. n \in 1 .. n
  OBVIOUS
<1> QED
  BY <1>4, <1>5, <1>8, <1>10, <1>11

\* The larger, and the smaller, of two numbers.
LEMMA MaxOfTwo ==
    ASSUME NEW a \in Int, NEW b \in Int
    PROVE  Max({a, b}) = IF a >= b THEN a ELSE b
<1> DEFINE P(x) == x \in {a, b} /\ \A y \in {a, b} : x >= y
<1>1. P(IF a >= b THEN a ELSE b)
  OBVIOUS
<1>2. P(CHOOSE x : P(x))
  BY <1>1
<1> QED
  BY <1>1, <1>2 DEF Max

LEMMA MinOfTwo ==
    ASSUME NEW a \in Int, NEW b \in Int
    PROVE  Min({a, b}) = IF a <= b THEN a ELSE b
<1> DEFINE P(x) == x \in {a, b} /\ \A y \in {a, b} : x <= y
<1>1. P(IF a <= b THEN a ELSE b)
  OBVIOUS
<1>2. P(CHOOSE x : P(x))
  BY <1>1
<1> QED
  BY <1>1, <1>2 DEF Min

\* The number of chunks: all of the payload fits, and no chunk but the first is
\* empty.
LEMMA ChunksCover ==
    ASSUME NEW p \in Payloads
    PROVE  LET n == ChunkCount(p) IN
           /\ Len(p) <= n * MaxPayloadSize
           /\ \A i \in 1 .. n - 1 : i * MaxPayloadSize < Len(p)
<1> DEFINE M == MaxPayloadSize
           q == (Len(p) + M - 1) \div M
           n == ChunkCount(p)
<1>1. Len(p) \in Nat /\ M \in Nat \ {0} /\ Len(p) + M - 1 \in Nat
  <2>1. p \in Seq(Nat) /\ MaxPayloadSize \in Nat \ {0}
    OBVIOUS
  <2> QED BY <2>1
<1>2. q \in Nat /\ q * M <= Len(p) + M - 1 /\ Len(p) + M - 1 < q * M + M
  BY <1>1, Quotient
<1>3. n \in Nat /\ n >= 1
  BY ChunkCountType
<1>4. n = Max({1, q})
  BY DEF ChunkCount
<1> HIDE DEF q, n
<1>5. n = IF 1 >= q THEN 1 ELSE q
  BY <1>2, <1>4, MaxOfTwo
<1>6. q <= n /\ (n = 1 \/ n = q)
  BY <1>2, <1>5
<1>7. Len(p) <= n * M
  <2>1. q * M <= n * M /\ q * M \in Nat /\ n * M \in Nat
    BY <1>1, <1>2, <1>3, <1>6, Multiples
  <2> QED BY <1>1, <1>2, <2>1
<1>8. ASSUME NEW i \in 1 .. n - 1
      PROVE  i * M < Len(p)
  <2>1. n = q /\ i <= q /\ i + 1 <= q /\ i \in Nat /\ i + 1 \in Nat
    BY <1>2, <1>3, <1>6
  <2>2. (i + 1) * M <= q * M /\ (i + 1) * M = i * M + M /\ i * M \in Nat /\ q * M \in Nat
    <3>1. i * M <= q * M /\ i * M \in Nat /\ q * M \in Nat
      BY <1>1, <1>2, <2>1, Multiples
    <3>2. (i + 1) * M <= q * M
      BY <1>1, <1>2, <2>1, Multiples
    <3>3. (i + 1) * M = i * M + M
      BY <1>1, <2>1, NextMultiple
    <3> QED BY <3>1, <3>2, <3>3
  <2>3. PICK x \in Nat, y \in Nat : x = i * M /\ y = q * M
    BY <2>2
  <2>4. x + M <= y /\ y <= Len(p) + M - 1
    BY <1>2, <2>2, <2>3
  <2> QED BY <1>1, <2>3, <2>4
<1> QED
  BY <1>7, <1>8 DEF n

\* How far the first j of n chunks of M bytes reach in L bytes: to j * M, or to
\* the end.
Ends(L, M, n) ==
    {end \in [0 .. n -> 0 .. L] :
        /\ end[0] = 0 /\ end[n] = L
        /\ \A j \in 1 .. n : /\ end[j] = IF j * M <= L THEN j * M ELSE L
                             /\ end[j - 1] = (j - 1) * M
                             /\ end[j - 1] <= end[j]}

LEMMA ChunkEnds ==
    ASSUME NEW L \in Nat, NEW M \in Nat \ {0}, NEW n \in Nat \ {0},
           L <= n * M, \A i \in 1 .. n - 1 : i * M < L
    PROVE  \E end : end \in Ends(L, M, n)
<1> DEFINE e == [j \in 0 .. n |-> IF j * M <= L THEN j * M ELSE L]
<1>1. \A j \in 0 .. n : j \in Nat /\ j * M \in Nat
  <2> SUFFICES ASSUME NEW j \in 0 .. n PROVE j \in Nat /\ j * M \in Nat
    OBVIOUS
  <2>1. j \in Nat
    OBVIOUS
  <2> QED BY <2>1, Multiples
<1>2. e \in [0 .. n -> 0 .. L]
  BY <1>1
<1>3. 0 \in 0 .. n /\ n \in 0 .. n /\ 0 * M = 0
  OBVIOUS
<1>4. e[0] = 0
  BY <1>3
<1>5. e[n] = L
  <2> PICK x \in Nat : x = n * M
    BY <1>1, <1>3
  <2> QED BY <1>3
<1>6. ASSUME NEW j \in 1 .. n
      PROVE  /\ e[j] = IF j * M <= L THEN j * M ELSE L
             /\ e[j - 1] = (j - 1) * M
             /\ e[j - 1] <= e[j]
  <2>1. j \in 0 .. n /\ j - 1 \in 0 .. n /\ j \in Nat /\ j - 1 \in Nat /\ (j - 1) + 1 = j
    OBVIOUS
  <2>2. j * M = (j - 1) * M + M
    BY <2>1, NextMultiple
  <2>3. PICK x \in Nat : x = (j - 1) * M
    BY <1>1, <2>1
  <2>4. PICK y \in Nat : y = j * M
    BY <1>1, <2>1
  <2>5. x <= L
    <3>1. CASE j = 1
      BY <2>3, <3>1
    <3>2. CASE j # 1
      <4>1. j - 1 \in 1 .. n - 1
        BY <3>2
      <4>2. (j - 1) * M < L
        BY <4>1
      <4> QED BY <2>3, <4>2
    <3> QED BY <3>1, <3>2
  <2>6. e[j] = (IF y <= L THEN y ELSE L) /\ e[j - 1] = (IF x <= L THEN x ELSE L)
    BY <2>1, <2>3, <2>4, Zenon
  <2>7. y = x + M
    BY <2>2, <2>3, <2>4
  <2> HIDE DEF e
  <2>8. e[j - 1] = x /\ e[j - 1] <= e[j]
    BY <2>5, <2>6, <2>7
  <2> QED BY <2>3, <2>4, <2>6, <2>8
<1> HIDE DEF e
<1> QED
  BY <1>2, <1>4, <1>5, <1>6 DEF Ends

\* Whatever the payload and the chunk size, the chunks joined in order are the
\* payload: after j chunks the receiver has the first end[j] bytes of it.
LEMMA JoinSlices ==
    ASSUME NEW p \in Payloads
    PROVE  Join(Slices(p)) = p
<1>1. p \in Seq(Nat)
  OBVIOUS
<1>2. PICK L \in Nat : L = Len(p)
  BY <1>1
<1>3. PICK M \in Nat \ {0} : M = MaxPayloadSize
  OBVIOUS
<1>4. PICK n \in Nat \ {0} : n = ChunkCount(p)
  <2>1. ChunkCount(p) \in Nat /\ ChunkCount(p) >= 1
    BY ChunkCountType
  <2> QED BY <2>1
<1>5. L <= n * M /\ \A i \in 1 .. n - 1 : i * M < L
  BY <1>2, <1>3, <1>4, ChunksCover
<1>6. PICK end : end \in Ends(L, M, n)
  BY <1>5, ChunkEnds
<1>7. /\ end \in [0 .. n -> 0 .. L]
      /\ end[0] = 0 /\ end[n] = L
      /\ \A j \in 1 .. n : /\ end[j] = IF j * M <= L THEN j * M ELSE L
                           /\ end[j - 1] = (j - 1) * M
                           /\ end[j - 1] <= end[j]
  BY <1>6 DEF Ends
<1> DEFINE q == [j \in 1 .. n |-> Slices(p)[j - 1]]
           h == [j \in 1 .. n |-> SubSeq(p, 1, end[j])]
<1>8. \A j \in 1 .. n : q[j] = SubSeq(p, end[j - 1] + 1, end[j])
  <2> SUFFICES ASSUME NEW j \in 1 .. n
               PROVE  q[j] = SubSeq(p, end[j - 1] + 1, end[j])
    OBVIOUS
  <2>1. j - 1 \in 0 .. n - 1 /\ (j - 1) + 1 = j /\ j \in Nat
    OBVIOUS
  <2>2. q[j] = Slice(p, j - 1)
    BY <1>4, <2>1 DEF Slices
  <2>3. Slice(p, j - 1) = SubSeq(p, (j - 1) * M + 1, Min({j * M, L}))
    BY <1>2, <1>3, <2>1 DEF Slice
  <2>4. j * M \in Int
    BY <2>1, Multiples
  <2>5. Min({j * M, L}) = end[j]
    <3>1. L \in Int
      OBVIOUS
    <3>2. Min({j * M, L}) = IF j * M <= L THEN j * M ELSE L
      BY <2>4, <3>1, MinOfTwo, Zenon
    <3> QED BY <1>7, <3>2, Zenon
  <2>6. end[j - 1] = (j - 1) * M
    BY <1>7
  <2> HIDE DEF q
  <2> QED BY <2>2, <2>3, <2>5, <2>6
<1>9. Join(Slices(p)) = FlattenSeq(q)
  <2>1. DOMAIN Slices(p) = 0 .. n - 1
    BY <1>4 DEF Slices
  <2>2. Cardinality(0 .. n - 1) = n
    BY FS_Interval
  <2> QED BY <2>1, <2>2 DEF Join
<1>10. Len(q) = n
  OBVIOUS
<1> HIDE DEF q
<1>11. \A j \in 1 .. n : SubSeq(p, 1, end[j]) =
          IF j = 1 THEN q[j] ELSE SubSeq(p, 1, end[j - 1]) \o q[j]
  <2> SUFFICES ASSUME NEW j \in 1 .. n
               PROVE  SubSeq(p, 1, end[j]) =
                         IF j = 1 THEN q[j] ELSE SubSeq(p, 1, end[j - 1]) \o q[j]
    OBVIOUS
  <2>1. CASE j = 1
    <3>1. end[j - 1] + 1 = 1
      BY <1>7, <2>1
    <3> QED BY <1>8, <2>1, <3>1
  <2>2. CASE j # 1
    <3>1. j \in 0 .. n /\ j - 1 \in 0 .. n
      OBVIOUS
    <3>2. PICK k \in 0 .. L, m \in 0 .. L : k = end[j - 1] /\ m = end[j] /\ k <= m
      BY <1>7, <3>1
    <3>3. 1 \in 1 .. Len(p) + 1 /\ k \in 1 - 1 .. Len(p) /\ m \in k .. Len(p)
      BY <1>2, <3>2
    <3>4. SubSeq(p, 1, k) \o SubSeq(p, k + 1, m) = SubSeq(p, 1, m)
      BY <1>1, <3>3, ConcatAdjacentSubSeq
    <3>5. q[j] = SubSeq(p, k + 1, m)
      BY <1>8, <3>2
    <3> QED BY <2>2, <3>2, <3>4, <3>5
  <2> QED BY <2>1, <2>2
<1>12. \A j \in 1 .. n : j # 1 => j - 1 \in 1 .. n
  OBVIOUS
<1>13. h = [j \in 1 .. n |-> IF j = 1 THEN q[j] ELSE h[j - 1] \o q[j]]
  <2>1. \A j \in 1 .. n : h[j] = IF j = 1 THEN q[j] ELSE h[j - 1] \o q[j]
    <3> SUFFICES ASSUME NEW j \in 1 .. n
                 PROVE  h[j] = IF j = 1 THEN q[j] ELSE h[j - 1] \o q[j]
      OBVIOUS
    <3>1. h[j] = SubSeq(p, 1, end[j]) /\ (j # 1 => h[j - 1] = SubSeq(p, 1, end[j - 1]))
      BY <1>12, Zenon
    <3> HIDE DEF h
    <3> QED BY <1>11, <3>1
  <2>2. h = [j \in 1 .. n |-> h[j]]
    OBVIOUS
  <2> HIDE DEF h
  <2> QED BY <2>1, <2>2, Zenon
<1>14. h[n] = p
  <2>1. n \in 1 .. n
    OBVIOUS
  <2>2. h[n] = SubSeq(p, 1, L)
    BY <1>7, <2>1
  <2> QED BY <1>1, <1>2, <2>2, SubSeqFull
<1> HIDE DEF h
<1>15. FlattenSeq(q) = h[n]
  BY <1>10, <1>13, FlattenIs
<1> QED
  BY <1>9, <1>14, <1>15

-----------------------------------------------------------------------------
\* Lemmas about ingest.

\* Storing a chunk of the frame an entry holds keeps it an entry of that frame.
LEMMA StoreHolds ==
    ASSUME NEW f \in SentFrame, ChunkCount(f.payload) \in 2 .. MaxChunks,
           NEW i \in 0 .. ChunkCount(f.payload) - 1,
           NEW k, NEW e \in EntryType, Holds(e, k, f)
    PROVE  LET s == Store(e, Datagram(f, i))
           IN  /\ Holds(s, k, f)
               /\ s.codec = e.codec /\ s.sentTimeNs = e.sentTimeNs
               /\ s.chunkCount = e.chunkCount /\ s.createdTimeNs = e.createdTimeNs
               /\ s.chunks \in ChunkMaps
               /\ s.receivedChunks \in e.receivedChunks .. e.receivedChunks + 1
               /\ s.receivedChunks \in 1 .. s.chunkCount
               /\ s \in EntryType
<1> DEFINE d == Datagram(f, i)
           n == ChunkCount(f.payload)
           D == DOMAIN e.chunks
<1>1. /\ d.chunkIndex = i /\ d.payload = Slices(f.payload)[i] /\ d.payload \in Chunks
      /\ DOMAIN Slices(f.payload) = 0 .. n - 1
  BY DatagramFacts
<1>2. /\ f.frameIndex = k
      /\ e.codec = f.codec /\ e.sentTimeNs = f.sentTimeNs /\ e.chunkCount = n
      /\ D \subseteq 0 .. n - 1
      /\ e.chunks = [j \in D |-> Slices(f.payload)[j]]
      /\ e.receivedChunks = Cardinality(D)
  BY <1>1 DEF Holds, Metadata, Restrict
<1>3. IsFiniteSet(0 .. n - 1) /\ Cardinality(0 .. n - 1) = n
  BY FS_Interval
<1>4. IsFiniteSet(D)
  BY <1>2, <1>3, FS_Subset
<1>5. PICK slots \in SUBSET (0 .. MaxChunks - 1) : e.chunks \in [slots -> Chunks]
  BY DEF EntryType, ChunkMaps
<1>6. CASE i \in D
  <2>1. Store(e, d) = e
    BY <1>1, <1>6 DEF Store
  <2>2. Cardinality(D) >= 1 /\ Cardinality(D) <= n
    <3>1. D # {} /\ Cardinality(D) \in Nat
      BY <1>4, <1>6, FS_CardinalityType
    <3>2. Cardinality(D) # 0
      BY <1>4, <3>1, FS_EmptySet
    <3>3. Cardinality(D) <= n
      BY <1>2, <1>3, FS_Subset
    <3> QED BY <3>1, <3>2, <3>3
  <2>3. e.chunks \in ChunkMaps
    BY DEF EntryType
  <2> QED
    BY <1>2, <2>1, <2>2, <2>3 DEF EntryType
<1>7. CASE i \notin D
  <2> DEFINE c == [j \in D \cup {i} |-> IF j = i THEN d.payload ELSE e.chunks[j]]
             s == [e EXCEPT !.chunks = c, !.receivedChunks = e.receivedChunks + 1]
  <2>1. Store(e, d) = s
    BY <1>1, <1>7 DEF Store
  <2>2. /\ s.chunks = c /\ s.receivedChunks = e.receivedChunks + 1
        /\ s.codec = e.codec /\ s.sentTimeNs = e.sentTimeNs
        /\ s.chunkCount = e.chunkCount /\ s.createdTimeNs = e.createdTimeNs
    BY DEF EntryType
  <2>3. c = [j \in D \cup {i} |-> Slices(f.payload)[j]]
    BY <1>1, <1>2
  <2>4. DOMAIN c = D \cup {i} /\ D \cup {i} \subseteq 0 .. n - 1
    BY <1>2
  <2>5. Cardinality(D \cup {i}) = Cardinality(D) + 1
    BY <1>4, <1>7, FS_AddElement
  <2>6. Cardinality(D \cup {i}) <= n
    BY <1>3, <2>4, FS_Subset
  <2>7. Cardinality(D) \in Nat
    BY <1>4, FS_CardinalityType
  <2>8. c \in ChunkMaps
    <3>1. slots = D
      BY <1>5
    <3>2. c \in [D \cup {i} -> Chunks]
      BY <1>1, <1>5, <3>1
    <3>3. D \cup {i} \in SUBSET (0 .. MaxChunks - 1)
      BY <2>4
    <3> QED BY <3>2, <3>3 DEF ChunkMaps
  <2>9. s \in EntryType
    <3>1. e.receivedChunks + 1 \in 0 .. MaxChunks
      BY <1>2, <2>5, <2>6, <2>7
    <3> HIDE DEF c
    <3> QED BY <2>8, <3>1 DEF EntryType
  <2>10. Holds(s, k, f)
    BY <1>1, <1>2, <2>2, <2>3, <2>4, <2>5 DEF Holds, Metadata, Restrict
  <2> QED
    BY <1>2, <2>1, <2>2, <2>5, <2>6, <2>7, <2>8, <2>9, <2>10
<1>8. QED
  BY <1>6, <1>7

\* A datagram that passes the metadata comparison finds, or opens, an entry of
\* its own frame: this is where the uniqueness of the send time is needed.
LEMMA EntryHolds ==
    ASSUME TypeOK, SentOnce, OneFramePerEntry,
           NEW f \in sent, NEW i \in 0 .. ChunkCount(f.payload) - 1,
           ChunkCount(f.payload) # 1,
           Metadata(EntryFor(Datagram(f, i))) = Metadata(Datagram(f, i))
    PROVE  /\ EntryFor(Datagram(f, i)) \in EntryType
           /\ Holds(EntryFor(Datagram(f, i)), f.frameIndex, f)
           /\ f \in SentFrame
           /\ ChunkCount(f.payload) \in 2 .. MaxChunks
<1> DEFINE d == Datagram(f, i)
           e == EntryFor(d)
<1>1. f \in SentFrame /\ f.payload \in Payloads /\ f.sentTimeNs \in SentStamps
  BY DEF TypeOK, SentFrame, SentStamps
<1>2. ChunkCount(f.payload) \in 2 .. MaxChunks
  BY <1>1, ChunkCountType DEF SentOnce
<1>3. /\ d.codec = f.codec /\ d.frameIndex = f.frameIndex
      /\ d.sentTimeNs = f.sentTimeNs /\ d.chunkCount = ChunkCount(f.payload)
  BY <1>1, DatagramFacts
<1>4. CASE d.frameIndex \in DOMAIN pending
  <2>1. e = pending[f.frameIndex]
    BY <1>3, <1>4 DEF EntryFor
  <2>2. e \in PendingFrame
    BY <1>3, <1>4, <2>1 DEF TypeOK
  <2>3. e \in EntryType
    BY <2>2 DEF PendingFrame, EntryType
  <2>4. PICK g \in sent : Holds(e, f.frameIndex, g)
    BY <1>3, <1>4, <2>1 DEF OneFramePerEntry
  <2>5. g.sentTimeNs = f.sentTimeNs
    BY <1>3, <2>4 DEF Holds, Metadata
  <2>6. g = f
    BY <2>5 DEF SentOnce
  <2> QED BY <1>1, <1>2, <2>3, <2>4, <2>6
<1>5. CASE d.frameIndex \notin DOMAIN pending
  <2>1. e = [codec |-> f.codec, sentTimeNs |-> f.sentTimeNs,
             chunkCount |-> ChunkCount(f.payload), chunks |-> <<>>,
             receivedChunks |-> 0, createdTimeNs |-> now]
    BY <1>3, <1>5 DEF EntryFor, NewEntry
  <2>2. <<>> \in [{} -> Chunks] /\ DOMAIN <<>> = {}
    OBVIOUS
  <2>3. <<>> \in ChunkMaps
    BY <2>2 DEF ChunkMaps
  <2>4. e \in EntryType
    BY <1>1, <1>2, <2>1, <2>3 DEF EntryType, SentFrame, TypeOK
  <2>5. Cardinality({}) = 0
    BY FS_EmptySet
  <2>6. <<>> = Restrict(Slices(f.payload), {})
    BY DEF Restrict
  <2>7. Holds(e, f.frameIndex, f)
    BY <2>1, <2>2, <2>5, <2>6 DEF Holds, Metadata
  <2> QED BY <1>1, <1>2, <2>4, <2>7
<1>6. QED
  BY <1>4, <1>5

\* A frame of n chunks has n slots.
LEMMA SlotCount ==
    ASSUME NEW n \in Nat
    PROVE  IsFiniteSet(0 .. n - 1) /\ Cardinality(0 .. n - 1) = n
<1>1. 0 \in Int /\ n - 1 \in Int
  OBVIOUS
<1>2. (IF 0 > n - 1 THEN 0 ELSE (n - 1) - 0 + 1) = n
  OBVIOUS
<1> QED
  BY <1>1, <1>2, FS_Interval

\* A chunk that completes its entry completes exactly its own frame.
LEMMA CompleteIsWhole ==
    ASSUME NEW f, NEW k, NEW e \in EntryType, Holds(e, k, f), Complete(e),
           ChunkCount(f.payload) \in Nat
    PROVE  e.chunks = Slices(f.payload)
<1> DEFINE n == ChunkCount(f.payload)
           D == DOMAIN e.chunks
<1>1. DOMAIN Slices(f.payload) = 0 .. n - 1
  BY DEF Slices
<1>2. D \subseteq 0 .. n - 1 /\ Cardinality(D) = n
  BY <1>1 DEF Holds, Complete, Metadata
<1>3. IsFiniteSet(0 .. n - 1) /\ Cardinality(0 .. n - 1) = n
  BY SlotCount
<1>4. D = 0 .. n - 1
  BY <1>2, <1>3, FS_Subset
<1>5. e.chunks = [i \in 0 .. n - 1 |-> Slices(f.payload)[i]]
  BY <1>4 DEF Holds, Restrict
<1>6. QED
  BY <1>1, <1>5 DEF Slices

-----------------------------------------------------------------------------
\* The invariant.

LEMMA InitInv == Init => IInv
<1> SUFFICES ASSUME Init PROVE IInv
  OBVIOUS
<1>1. DOMAIN pending = {} /\ IsFiniteSet({})
  BY FS_EmptySet DEF Init
<1> QED
  BY <1>1 DEF Init, IInv, TypeOK, SentOnce, OneFramePerEntry, DeliveredWhole, SentStamps

\* Emitting a frame or opening a session leaves the receiver's part alone, and
\* the set of sent frames only grows.
LEMMA SenderStep ==
    ASSUME IInv, EmitFrame \/ NewSession
    PROVE  IInv'
<1>1. /\ sent \subseteq sent' /\ UNCHANGED receiverVars
  BY DEF EmitFrame, NewSession
<1>2. SentStamps \subseteq SentStamps'
  BY <1>1 DEF SentStamps
<1>3. TypeOK'
  <2>1. frameIndex' \in Nat /\ stamp' \in Nat /\ now' \in Nat
    BY DEF IInv, TypeOK, EmitFrame, NewSession, receiverVars
  <2>2. sent' \subseteq SentFrame
    <3>1. CASE NewSession
      BY <3>1 DEF IInv, TypeOK, NewSession
    <3>2. CASE EmitFrame
      BY <3>2 DEF IInv, TypeOK, EmitFrame, SentFrame
    <3> QED BY <3>1, <3>2
  <2>3. \A k \in DOMAIN pending : pending[k] \in PendingFrame => pending[k] \in PendingFrame'
    BY <1>1, <1>2 DEF PendingFrame, receiverVars
  <2> QED
    BY <1>1, <1>2, <2>1, <2>2, <2>3 DEF IInv, TypeOK, receiverVars
<1>4. SentOnce'
  <2>1. CASE NewSession
    BY <2>1 DEF IInv, SentOnce, NewSession
  <2>2. CASE EmitFrame
    <3>1. CASE UNCHANGED sent
      BY <2>2, <3>1 DEF IInv, TypeOK, SentOnce, SentFrame, EmitFrame
    <3>2. CASE ~UNCHANGED sent
      <4>1. PICK codec \in Codecs, payload \in Payloads :
               /\ ChunkCount(payload) <= MaxChunks
               /\ sent' = sent \cup {[codec |-> codec, frameIndex |-> frameIndex + 1,
                                      sentTimeNs |-> stamp, payload |-> payload]}
        BY <2>2, <3>2 DEF EmitFrame
      <4>2. stamp' = stamp + 1 /\ stamp \in Nat
        BY <2>2 DEF IInv, TypeOK, EmitFrame
      <4>3. \A f \in sent : f.sentTimeNs \in Nat /\ f.sentTimeNs < stamp
        BY DEF IInv, TypeOK, SentFrame, SentOnce
      <4> QED
        BY <4>1, <4>2, <4>3 DEF IInv, SentOnce
    <3> QED BY <3>1, <3>2
  <2> QED BY <2>1, <2>2
<1>5. OneFramePerEntry'
  BY <1>1 DEF IInv, OneFramePerEntry, receiverVars, Holds, Metadata
<1>6. DeliveredWhole'
  BY <1>1 DEF IInv, DeliveredWhole, receiverVars
<1>7. QED
  BY <1>3, <1>4, <1>5, <1>6 DEF IInv

LEMMA TickStep ==
    ASSUME IInv, Tick
    PROVE  IInv'
<1>1. /\ now \in Nat /\ now' = now + 1
      /\ UNCHANGED <<pending, delivered, dropped, sent, stamp, frameIndex>>
  BY DEF IInv, TypeOK, Tick, senderVars
<1>2. \A k \in DOMAIN pending : pending[k] \in PendingFrame'
  BY <1>1 DEF IInv, TypeOK, PendingFrame, SentStamps
<1>3. TypeOK'
  BY <1>1, <1>2 DEF IInv, TypeOK, SentStamps
<1>4. QED
  BY <1>1, <1>3 DEF IInv, SentOnce, OneFramePerEntry, DeliveredWhole, Holds, Metadata
\* Joining one chunk gives that chunk.
LEMMA FlattenSingle ==
    ASSUME NEW x
    PROVE  FlattenSeq(<<x>>) = x
<1> DEFINE q == <<x>>
           Step(g) == [j \in 1 .. 1 |-> IF j = 1 THEN q[j] ELSE g[j - 1] \o q[j]]
           h == [j \in 1 .. 1 |-> x]
           flat == CHOOSE g : g = Step(g)
<1>1. Len(q) = 1 /\ q[1] = x
  OBVIOUS
<1>2. h = Step(h)
  BY <1>1
<1>3. flat = Step(flat)
  BY <1>2
<1>4. flat[1] = x
  BY <1>1, <1>3
<1>5. QED
  BY <1>1, <1>4 DEF FlattenSeq

\* A frame of one chunk is that chunk.
LEMMA SingleIsWhole ==
    ASSUME NEW p, ChunkCount(p) = 1
    PROVE  Slices(p)[0] = Join(Slices(p))
<1>1. Slices(p) = [j \in 0 .. 0 |-> Slice(p, j)]
  BY DEF Slices
<1>2. Cardinality(0 .. 0) = 1
  <2>1. 0 .. 0 = {0}
    OBVIOUS
  <2> QED BY <2>1, FS_Singleton
<1>3. [j \in 1 .. 1 |-> Slices(p)[j - 1]] = <<Slice(p, 0)>>
  BY <1>1
<1>4. Join(Slices(p)) = FlattenSeq(<<Slice(p, 0)>>)
  BY <1>1, <1>2, <1>3 DEF Join
<1> QED
  BY <1>1, <1>4, FlattenSingle

\* A whole frame returned by ingest keeps DeliveredWhole.
LEMMA DeliverWhole ==
    ASSUME DeliveredWhole, NEW f \in sent, NEW d,
           d.codec = f.codec, d.frameIndex = f.frameIndex,
           d.sentTimeNs = f.sentTimeNs,
           delivered' = delivered \cup {Frame(d, Join(Slices(f.payload)))},
           UNCHANGED sent
    PROVE  DeliveredWhole'
BY DEF DeliveredWhole, Frame

\* Removing entries leaves the others as they were.
LEMMA RestrictEntries ==
    ASSUME NEW p, NEW S
    PROVE  /\ DOMAIN Restrict(p, S) = S
           /\ \A k \in S : Restrict(p, S)[k] = p[k]
BY DEF Restrict

LEMMA IngestStep ==
    ASSUME IInv, Ingest
    PROVE  IInv'
<1>1. PICK f \in sent, i \in 0 .. MaxChunks :
         /\ i < ChunkCount(f.payload)
         /\ \/ IngestSingle(Datagram(f, i))
            \/ IngestMismatch(Datagram(f, i))
            \/ IngestLast(Datagram(f, i))
            \/ IngestPartial(Datagram(f, i))
  BY DEF Ingest
<1> DEFINE d == Datagram(f, i)
           n == ChunkCount(f.payload)
<1>2. UNCHANGED <<now, frameIndex, stamp, sent>>
  BY DEF Ingest, senderVars
<1>3. /\ f \in SentFrame /\ f.payload \in Payloads
      /\ f.sentTimeNs \in SentStamps
      /\ n \in Nat /\ n >= 1 /\ n <= MaxChunks /\ i \in 0 .. n - 1
  BY <1>1, ChunkCountType DEF IInv, TypeOK, SentFrame, SentStamps, SentOnce
<1>4. /\ d.codec = f.codec /\ d.frameIndex = f.frameIndex
      /\ d.sentTimeNs = f.sentTimeNs /\ d.chunkCount = n /\ d.chunkIndex = i
      /\ d.payload = Slices(f.payload)[i]
  BY <1>3, DatagramFacts
<1>5. SentOnce'
  BY <1>2 DEF IInv, SentOnce
<1>6. SentStamps' = SentStamps /\ PendingFrame' = PendingFrame
  BY <1>2 DEF SentStamps, PendingFrame
<1>7. CASE IngestSingle(d)
  <2>1. n = 1 /\ i = 0
    BY <1>3, <1>4, <1>7 DEF IngestSingle
  <2>2. d.payload = Slices(f.payload)[0]
    BY <1>4, <2>1
  <2>3. d.payload = Join(Slices(f.payload))
    BY <2>1, <2>2, SingleIsWhole
  <2>4. DeliveredWhole'
    BY <1>2, <1>4, <1>7, <2>3, DeliverWhole DEF IInv, IngestSingle
  <2>5. UNCHANGED <<pending, dropped>>
    BY <1>7 DEF IngestSingle
  <2> QED
    BY <1>2, <1>5, <1>6, <2>4, <2>5
       DEF IInv, TypeOK, OneFramePerEntry, Holds, Metadata
<1>8. CASE IngestMismatch(d)
  <2>1. UNCHANGED <<pending, delivered>> /\ dropped' = dropped \cup {f.sentTimeNs}
    BY <1>4, <1>8 DEF IngestMismatch
  <2> QED
    BY <1>2, <1>3, <1>5, <1>6, <2>1
       DEF IInv, TypeOK, OneFramePerEntry, DeliveredWhole, Holds, Metadata
<1> DEFINE e == EntryFor(d)
           s == Store(e, d)
<1>9. ASSUME n # 1, Metadata(e) = Metadata(d)
      PROVE  /\ n \in 2 .. MaxChunks
             /\ s \in EntryType /\ Holds(s, f.frameIndex, f)
             /\ s.chunkCount = n /\ s.sentTimeNs = f.sentTimeNs
             /\ s.receivedChunks \in 1 .. n
  <2>1. /\ e \in EntryType /\ Holds(e, f.frameIndex, f)
        /\ ChunkCount(f.payload) \in 2 .. MaxChunks
    BY <1>3, <1>9, EntryHolds DEF IInv
  <2>2. /\ Holds(s, f.frameIndex, f) /\ s.receivedChunks \in 1 .. s.chunkCount
        /\ s \in EntryType
    BY <1>3, <2>1, StoreHolds
  <2>3. s.chunkCount = n /\ s.sentTimeNs = f.sentTimeNs
    BY <2>2 DEF Holds, Metadata
  <2> QED BY <2>1, <2>2, <2>3
<1>10. CASE IngestLast(d)
  <2>1. /\ n # 1 /\ Metadata(e) = Metadata(d) /\ Complete(s)
        /\ delivered' = delivered \cup {Frame(d, Join(s.chunks))}
        /\ pending' = Restrict(pending, DOMAIN pending \ {f.frameIndex})
        /\ UNCHANGED dropped
    BY <1>4, <1>10 DEF IngestLast
  <2>2. s.chunks = Slices(f.payload)
    BY <1>3, <1>9, <2>1, CompleteIsWhole
  <2>3. DeliveredWhole'
    BY <1>2, <1>4, <2>1, <2>2, DeliverWhole DEF IInv
  <2>4. /\ DOMAIN pending' = DOMAIN pending \ {f.frameIndex}
        /\ \A k \in DOMAIN pending' : pending'[k] = pending[k]
    BY <2>1, RestrictEntries
  <2>5. IsFiniteSet(DOMAIN pending')
    BY <2>4, FS_RemoveElement DEF IInv, TypeOK
  <2>6. TypeOK'
    BY <1>2, <1>6, <2>1, <2>4, <2>5 DEF IInv, TypeOK
  <2>7. OneFramePerEntry'
    BY <1>2, <2>4 DEF IInv, OneFramePerEntry, Holds, Metadata
  <2> QED
    BY <1>5, <2>3, <2>6, <2>7 DEF IInv
<1>11. CASE IngestPartial(d)
  <2> DEFINE stored == With(pending, d.frameIndex, s)
             purged == PurgeExpired(stored)
  <2>1. /\ n # 1 /\ Metadata(e) = Metadata(d) /\ ~Complete(s)
        /\ UNCHANGED delivered
        /\ \E drop \in Surplus(purged) :
              pending' = Restrict(purged, DOMAIN purged \ drop)
        /\ dropped' = dropped \cup
              {stored[k].sentTimeNs : k \in DOMAIN stored \ DOMAIN pending'}
    BY <1>4, <1>11 DEF IngestPartial
  <2>2. /\ DOMAIN stored = DOMAIN pending \cup {f.frameIndex}
        /\ stored[f.frameIndex] = s
        /\ \A k \in DOMAIN pending \ {f.frameIndex} : stored[k] = pending[k]
    BY <1>4 DEF With
  <2>3. /\ DOMAIN purged \subseteq DOMAIN stored
        /\ \A k \in DOMAIN purged : purged[k] = stored[k]
    BY DEF PurgeExpired, Fresh, Restrict
  <2> HIDE DEF stored, purged
  <2>4. /\ DOMAIN pending' \subseteq DOMAIN stored
        /\ \A k \in DOMAIN pending' : pending'[k] = stored[k]
    BY <2>1, <2>3, RestrictEntries
  <2>5. s \in PendingFrame /\ s.receivedChunks < s.chunkCount
    <3>1. s.receivedChunks \in 1 .. n - 1 /\ s.chunkCount = n
      BY <1>3, <1>9, <2>1 DEF Complete
    <3>2. s.receivedChunks \in 1 .. MaxChunks - 1
      BY <1>3, <3>1
    <3>3. s \in EntryType
      BY <1>9, <2>1
    <3> HIDE DEF s
    <3> QED BY <1>3, <3>1, <3>2, <3>3 DEF PendingFrame, EntryType
  <2>6. \A k \in DOMAIN stored : /\ stored[k] \in PendingFrame
                                 /\ stored[k].receivedChunks < stored[k].chunkCount
                                 /\ \E g \in sent : Holds(stored[k], k, g)
    BY <1>9, <2>1, <2>2, <2>5 DEF IInv, TypeOK, OneFramePerEntry
  <2>7. IsFiniteSet(DOMAIN pending')
    <3>1. IsFiniteSet(DOMAIN stored)
      <4>1. IsFiniteSet(DOMAIN pending)
        BY DEF IInv, TypeOK
      <4>2. IsFiniteSet(DOMAIN pending \cup {f.frameIndex})
        BY <4>1, FS_AddElement
      <4> QED BY <2>2, <4>2
    <3> QED BY <2>4, <3>1, FS_Subset
  <2>8. DOMAIN pending' \subseteq Nat
    BY <1>3, <2>2, <2>4 DEF IInv, TypeOK, SentFrame
  <2>9. dropped' \subseteq SentStamps
    BY <2>1, <2>6 DEF IInv, TypeOK, PendingFrame
  <2>10. TypeOK'
    BY <1>2, <1>6, <2>4, <2>6, <2>7, <2>8, <2>9 DEF IInv, TypeOK
  <2>11. OneFramePerEntry'
    BY <1>2, <2>4, <2>6 DEF IInv, OneFramePerEntry, Holds, Metadata
  <2>12. DeliveredWhole'
    BY <1>2, <2>1 DEF IInv, DeliveredWhole
  <2> QED
    BY <1>5, <2>10, <2>11, <2>12 DEF IInv
<1>12. QED
  BY <1>1, <1>7, <1>8, <1>10, <1>11

LEMMA StutterStep ==
    ASSUME IInv, UNCHANGED vars
    PROVE  IInv'
BY DEF IInv, TypeOK, SentOnce, OneFramePerEntry, DeliveredWhole, vars, Holds,
       Metadata, PendingFrame, SentStamps

LEMMA Invariance == Spec => []IInv
<1>1. IInv /\ [Next]_vars => IInv'
  BY SenderStep, IngestStep, TickStep, StutterStep DEF Next
<1>2. QED
  BY InitInv, <1>1, PTL DEF Spec

\* Every variable keeps its type, and an entry of the reassembler's table always
\* has a chunk and lacks one.
THEOREM TypeCorrect == Spec => []TypeOK
<1>1. IInv => TypeOK
  BY DEF IInv
<1>2. QED
  BY <1>1, Invariance, PTL

\* Whatever the datagrams do, a pending entry holds chunks of one frame only.
THEOREM NoMixedEntries == Spec => []OneFramePerEntry
<1>1. IInv => OneFramePerEntry
  BY DEF IInv
<1>2. QED
  BY <1>1, Invariance, PTL

\* Whatever the datagrams do, a frame that is returned was sent, in one piece.
THEOREM DeliveredFramesAreWhole == Spec => []DeliveredWhole
<1>1. IInv => DeliveredWhole
  BY DEF IInv
<1>2. QED
  BY <1>1, Invariance, PTL
-----------------------------------------------------------------------------
\* The size of the table.

\* Dropping the surplus of a table leaves at most MaxPending entries.
LEMMA SurplusLeavesLimit ==
    ASSUME NEW p, IsFiniteSet(DOMAIN p), NEW drop \in Surplus(p)
    PROVE  Cardinality(DOMAIN p \ drop) <= MaxPending
<1>1. drop \subseteq DOMAIN p /\ IsFiniteSet(drop)
  BY FS_Subset DEF Surplus
<1>2. /\ Cardinality(drop) \in Nat /\ Cardinality(DOMAIN p) \in Nat
      /\ Cardinality(DOMAIN p \cap drop) = Cardinality(drop)
  <2>1. DOMAIN p \cap drop = drop
    BY <1>1
  <2> QED BY <1>1, <2>1, FS_CardinalityType
<1>3. Cardinality(DOMAIN p \ drop) = Cardinality(DOMAIN p) - Cardinality(drop)
  BY <1>1, <1>2, FS_Difference
<1>4. Cardinality(drop) = IF Cardinality(DOMAIN p) > MaxPending
                          THEN Cardinality(DOMAIN p) - MaxPending ELSE 0
  BY DEF Surplus
<1>5. QED
  BY <1>2, <1>3, <1>4

\* However many frames are in flight, the table never exceeds maxPendingFrames:
\* every path of ingest that adds an entry also enforces the limit.
THEOREM PendingIsBounded == Spec => []PendingBounded
<1>1. Init => PendingBounded
  BY FS_EmptySet DEF Init, PendingBounded
<1>2. ASSUME IInv, PendingBounded, [Next]_vars
      PROVE  PendingBounded'
  <2>1. IsFiniteSet(DOMAIN pending) /\ IsFiniteSet(DOMAIN pending)'
    <3>1. IInv'
      BY <1>2, SenderStep, IngestStep, TickStep, StutterStep DEF Next
    <3> QED BY <1>2, <3>1 DEF IInv, TypeOK
  <2>2. ASSUME DOMAIN pending' \subseteq DOMAIN pending
        PROVE  PendingBounded'
    <3>1. Cardinality(DOMAIN pending') <= Cardinality(DOMAIN pending)
      BY <2>1, <2>2, FS_Subset
    <3> QED
      BY <1>2, <2>1, <3>1, FS_CardinalityType DEF PendingBounded
  <2>3. CASE Ingest
    <3>1. PICK f \in sent, i \in 0 .. MaxChunks :
             \/ IngestSingle(Datagram(f, i))
             \/ IngestMismatch(Datagram(f, i))
             \/ IngestLast(Datagram(f, i))
             \/ IngestPartial(Datagram(f, i))
      BY <2>3 DEF Ingest
    <3> DEFINE d == Datagram(f, i)
    <3>2. CASE IngestPartial(d)
      <4> DEFINE stored == With(pending, d.frameIndex, Store(EntryFor(d), d))
                 purged == PurgeExpired(stored)
      <4>1. PICK drop \in Surplus(purged) :
               pending' = Restrict(purged, DOMAIN purged \ drop)
        BY <3>2 DEF IngestPartial
      <4>2. DOMAIN purged \subseteq DOMAIN pending \cup {d.frameIndex}
        BY DEF PurgeExpired, Fresh, Restrict, With
      <4> HIDE DEF stored, purged, d
      <4>3. IsFiniteSet(DOMAIN purged)
        <5>1. IsFiniteSet(DOMAIN pending \cup {d.frameIndex})
          BY <2>1, FS_AddElement
        <5> QED BY <4>2, <5>1, FS_Subset
      <4>4. DOMAIN pending' = DOMAIN purged \ drop
        BY <4>1 DEF Restrict
      <4> QED
        BY <4>3, <4>4, SurplusLeavesLimit DEF PendingBounded
    <3>3. CASE IngestSingle(d) \/ IngestMismatch(d)
      BY <2>2, <3>3 DEF IngestSingle, IngestMismatch
    <3>4. CASE IngestLast(d)
      BY <2>2, <3>4 DEF IngestLast, Restrict
    <3> QED
      BY <3>1, <3>2, <3>3, <3>4
  <2>4. CASE EmitFrame \/ NewSession \/ Tick \/ UNCHANGED vars
    BY <2>2, <2>4 DEF EmitFrame, NewSession, Tick, receiverVars, vars
  <2> QED
    BY <1>2, <2>3, <2>4 DEF Next
<1>3. QED
  BY <1>1, <1>2, Invariance, PTL DEF Spec
-----------------------------------------------------------------------------
\* What one call of ingest does to the table and to the frames returned.

\* A datagram of a sent frame, and what the invariant says of it.
LEMMA SentDatagram ==
    ASSUME IInv, NEW f \in sent, NEW i \in 0 .. MaxChunks, i < ChunkCount(f.payload)
    PROVE  LET d == Datagram(f, i)
           IN  /\ f \in SentFrame /\ f.payload \in Payloads
               /\ ChunkCount(f.payload) \in Nat /\ ChunkCount(f.payload) >= 1
               /\ i \in 0 .. ChunkCount(f.payload) - 1
               /\ d.codec = f.codec /\ d.frameIndex = f.frameIndex
               /\ d.sentTimeNs = f.sentTimeNs /\ d.chunkIndex = i
               /\ d.chunkCount = ChunkCount(f.payload)
               /\ d.payload = Slices(f.payload)[i]
<1>1. f \in SentFrame /\ f.payload \in Payloads
  BY DEF IInv, TypeOK, SentFrame
<1>2. ChunkCount(f.payload) \in Nat /\ ChunkCount(f.payload) >= 1
  BY <1>1, ChunkCountType
<1>3. i \in 0 .. ChunkCount(f.payload) - 1
  BY <1>2
<1> QED
  BY <1>1, <1>2, <1>3, DatagramFacts

\* A datagram that returns a frame returns the frame it belongs to.
LEMMA ReturnsSentFrame ==
    ASSUME IInv, NEW f \in sent, NEW i \in 0 .. MaxChunks, i < ChunkCount(f.payload),
           IngestSingle(Datagram(f, i)) \/ IngestLast(Datagram(f, i))
    PROVE  delivered' = delivered \cup {f}
<1> DEFINE d == Datagram(f, i)
           n == ChunkCount(f.payload)
<1>1. /\ f \in SentFrame /\ f.payload \in Payloads
      /\ n \in Nat /\ n >= 1 /\ i \in 0 .. n - 1
      /\ d.codec = f.codec /\ d.frameIndex = f.frameIndex
      /\ d.sentTimeNs = f.sentTimeNs /\ d.chunkCount = n
      /\ d.payload = Slices(f.payload)[i]
  BY SentDatagram
<1>2. Join(Slices(f.payload)) = f.payload
  BY <1>1, JoinSlices
<1>3. Frame(d, f.payload) = f
  <2>1. f = [codec |-> f.codec, frameIndex |-> f.frameIndex,
             sentTimeNs |-> f.sentTimeNs, payload |-> f.payload]
    BY <1>1 DEF SentFrame
  <2> HIDE DEF d
  <2> QED BY <1>1, <2>1 DEF Frame
<1>4. CASE IngestSingle(d)
  <2>1. n = 1 /\ i = 0
    BY <1>1, <1>4 DEF IngestSingle
  <2>2. d.payload = Join(Slices(f.payload))
    BY <1>1, <2>1, SingleIsWhole
  <2> QED BY <1>2, <1>3, <1>4, <2>2 DEF IngestSingle
<1>5. CASE IngestLast(d)
  <2> DEFINE e == EntryFor(d)
             s == Store(e, d)
  <2>1. /\ n # 1 /\ Metadata(e) = Metadata(d) /\ Complete(s)
        /\ delivered' = delivered \cup {Frame(d, Join(s.chunks))}
    BY <1>1, <1>5 DEF IngestLast
  <2>2. /\ e \in EntryType /\ Holds(e, f.frameIndex, f) /\ n \in 2 .. MaxChunks
    BY <1>1, <2>1, EntryHolds DEF IInv
  <2>3. s \in EntryType /\ Holds(s, f.frameIndex, f)
    BY <1>1, <2>2, StoreHolds
  <2>4. s.chunks = Slices(f.payload)
    BY <1>1, <2>1, <2>3, CompleteIsWhole
  <2> QED BY <1>2, <1>3, <2>1, <2>4
<1> QED
  BY <1>4, <1>5

\* What a partial chunk number i of frame f leaves behind: the table with the
\* frame's entry stored in it, less the entries given up, which are noted in
\* `dropped` and are no younger than any that stays.
PartialOutcome(f, i, stored) ==
    /\ ChunkCount(f.payload) # 1
    /\ DOMAIN stored = DOMAIN pending \cup {f.frameIndex}
    /\ \A k \in DOMAIN pending \ {f.frameIndex} : stored[k] = pending[k]
    /\ i \in DOMAIN stored[f.frameIndex].chunks
    /\ f.frameIndex \in DOMAIN pending =>
          /\ pending[f.frameIndex].sentTimeNs = f.sentTimeNs
          /\ DOMAIN pending[f.frameIndex].chunks \subseteq DOMAIN stored[f.frameIndex].chunks
    /\ \A k \in DOMAIN stored :
          /\ stored[k].createdTimeNs = CreatedTimeNs(k)
          /\ CreatedTimeNs(k) \in Int
          /\ \E g \in sent : g.frameIndex = k /\ g.sentTimeNs = stored[k].sentTimeNs
    /\ stored[f.frameIndex].sentTimeNs = f.sentTimeNs
    /\ DOMAIN pending' \subseteq DOMAIN stored
    /\ \A k \in DOMAIN pending' : pending'[k] = stored[k]
    /\ dropped' = dropped \cup {stored[k].sentTimeNs : k \in DOMAIN stored \ DOMAIN pending'}
    /\ \A k \in DOMAIN stored \ DOMAIN pending', j \in DOMAIN pending' :
          CreatedTimeNs(k) <= CreatedTimeNs(j)

LEMMA PartialEffect ==
    ASSUME IInv, NEW f \in sent, NEW i \in 0 .. MaxChunks, i < ChunkCount(f.payload),
           IngestPartial(Datagram(f, i))
    PROVE  \E stored : PartialOutcome(f, i, stored)
<1> DEFINE d == Datagram(f, i)
           n == ChunkCount(f.payload)
           e == EntryFor(d)
           s == Store(e, d)
           stored == With(pending, d.frameIndex, s)
           purged == PurgeExpired(stored)
<1>1. /\ f \in SentFrame /\ n \in Nat /\ n >= 1 /\ i \in 0 .. n - 1
      /\ d.frameIndex = f.frameIndex /\ d.sentTimeNs = f.sentTimeNs
      /\ d.chunkIndex = i /\ d.chunkCount = n
  BY SentDatagram
<1>2. /\ n # 1 /\ Metadata(e) = Metadata(d)
      /\ dropped' = dropped \cup
            {stored[k].sentTimeNs : k \in DOMAIN stored \ DOMAIN pending'}
  BY <1>1 DEF IngestPartial
<1>3. PICK drop \in Surplus(purged) : pending' = Restrict(purged, DOMAIN purged \ drop)
  BY DEF IngestPartial
<1>4. /\ e \in EntryType /\ Holds(e, f.frameIndex, f) /\ n \in 2 .. MaxChunks
  BY <1>1, <1>2, EntryHolds DEF IInv
<1>5. /\ Holds(s, f.frameIndex, f) /\ s \in EntryType
      /\ s.createdTimeNs = e.createdTimeNs
  BY <1>1, <1>4, StoreHolds
<1>6. s.sentTimeNs = f.sentTimeNs /\ e.sentTimeNs = f.sentTimeNs
  BY <1>4, <1>5 DEF Holds, Metadata
<1>7. e = IF f.frameIndex \in DOMAIN pending THEN pending[f.frameIndex] ELSE NewEntry(d)
  BY <1>1 DEF EntryFor
<1>8. DOMAIN s.chunks = DOMAIN e.chunks \cup {i}
  <2> HIDE DEF e, d
  <2>1. CASE i \in DOMAIN e.chunks
    BY <1>1, <2>1 DEF Store
  <2>2. CASE i \notin DOMAIN e.chunks
    BY <1>1, <1>4, <2>2 DEF Store, EntryType
  <2> QED BY <2>1, <2>2
<1>9. s.createdTimeNs = CreatedTimeNs(f.frameIndex)
  <2>1. CASE f.frameIndex \in DOMAIN pending
    BY <1>5, <1>7, <2>1 DEF CreatedTimeNs
  <2>2. CASE f.frameIndex \notin DOMAIN pending
    BY <1>5, <1>7, <2>2 DEF CreatedTimeNs, NewEntry
  <2> QED BY <2>1, <2>2
<1>10. /\ DOMAIN stored = DOMAIN pending \cup {f.frameIndex}
       /\ stored[f.frameIndex] = s
       /\ \A k \in DOMAIN pending \ {f.frameIndex} : stored[k] = pending[k]
  BY <1>1 DEF With
<1>11. /\ DOMAIN purged = Fresh(stored)
       /\ Fresh(stored) \subseteq DOMAIN stored
       /\ \A k \in DOMAIN purged : purged[k] = stored[k]
  BY DEF PurgeExpired, Fresh, Restrict
<1> HIDE DEF d, e, s, stored, purged
<1>12. /\ DOMAIN pending' = Fresh(stored) \ drop
       /\ \A k \in DOMAIN pending' : pending'[k] = stored[k]
  BY <1>3, <1>11, RestrictEntries
<1>13. s.createdTimeNs \in 0 .. now
  BY <1>5 DEF EntryType
<1>14. ASSUME NEW k \in DOMAIN stored
       PROVE  /\ stored[k].createdTimeNs = CreatedTimeNs(k)
              /\ CreatedTimeNs(k) \in Int
              /\ \E g \in sent : g.frameIndex = k /\ g.sentTimeNs = stored[k].sentTimeNs
  <2>1. CASE k = f.frameIndex
    BY <1>6, <1>9, <1>10, <1>13, <2>1
  <2>2. CASE k # f.frameIndex
    <3>1. k \in DOMAIN pending /\ stored[k] = pending[k]
      BY <1>10, <2>2
    <3>2. pending[k] \in PendingFrame
      BY <3>1 DEF IInv, TypeOK
    <3>3. pending[k].createdTimeNs \in 0 .. now
      BY <3>2 DEF PendingFrame
    <3>4. \E g \in sent : Holds(pending[k], k, g)
      BY <3>1 DEF IInv, OneFramePerEntry
    <3>5. \E g \in sent : g.frameIndex = k /\ g.sentTimeNs = pending[k].sentTimeNs
      BY <3>4 DEF Holds, Metadata
    <3> QED BY <3>1, <3>3, <3>5 DEF CreatedTimeNs
  <2> QED BY <2>1, <2>2
<1>15. ASSUME NEW k \in DOMAIN stored \ DOMAIN pending', NEW j \in DOMAIN pending'
       PROVE  CreatedTimeNs(k) <= CreatedTimeNs(j)
  <2>1. j \in Fresh(stored) /\ j \notin drop /\ j \in DOMAIN stored
    BY <1>11, <1>12
  <2>2. /\ stored[k].createdTimeNs = CreatedTimeNs(k) /\ CreatedTimeNs(k) \in Int
        /\ stored[j].createdTimeNs = CreatedTimeNs(j) /\ CreatedTimeNs(j) \in Int
    BY <1>14, <2>1
  <2>3. CASE k \in Fresh(stored)
    <3>1. k \in drop
      BY <1>12, <2>3
    <3>2. purged[k].createdTimeNs <= purged[j].createdTimeNs
      BY <1>11, <2>1, <3>1 DEF Surplus
    <3> QED BY <1>11, <2>1, <2>2, <2>3, <3>2
  <2>4. CASE k \notin Fresh(stored)
    <3>1. now - stored[j].createdTimeNs <= MaxAge
      BY <2>1 DEF Fresh
    <3>2. ~(now - stored[k].createdTimeNs <= MaxAge)
      BY <2>4 DEF Fresh
    <3>3. now \in Nat /\ MaxAge \in Nat
      BY DEF IInv, TypeOK
    <3> QED BY <2>2, <3>1, <3>2, <3>3
  <2> QED BY <2>3, <2>4
<1>16. DOMAIN pending' \subseteq DOMAIN stored
  BY <1>11, <1>12
<1>17. f.frameIndex \in DOMAIN pending =>
          /\ pending[f.frameIndex].sentTimeNs = f.sentTimeNs
          /\ DOMAIN pending[f.frameIndex].chunks \subseteq DOMAIN stored[f.frameIndex].chunks
  BY <1>6, <1>7, <1>8, <1>10
<1>18. i \in DOMAIN stored[f.frameIndex].chunks
  BY <1>8, <1>10
<1>19. stored[f.frameIndex].sentTimeNs = f.sentTimeNs
  BY <1>6, <1>10
<1> QED
  BY <1>2, <1>10, <1>12, <1>14, <1>15, <1>16, <1>17, <1>18, <1>19 DEF PartialOutcome
-----------------------------------------------------------------------------
\* The frame path as its user sees it.

DeliveredSent == delivered \subseteq sent

\* A datagram either returns the frame it belongs to or returns nothing.
LEMMA IngestReturns ==
    ASSUME IInv, Ingest
    PROVE  /\ sent' = sent
           /\ delivered' = delivered \/ \E f \in sent : delivered' = delivered \cup {f}
<1>1. PICK f \in sent, i \in 0 .. MaxChunks :
         /\ i < ChunkCount(f.payload)
         /\ \/ IngestSingle(Datagram(f, i))
            \/ IngestMismatch(Datagram(f, i))
            \/ IngestLast(Datagram(f, i))
            \/ IngestPartial(Datagram(f, i))
  BY DEF Ingest
<1>2. sent' = sent
  BY DEF Ingest, senderVars
<1>3. CASE IngestSingle(Datagram(f, i)) \/ IngestLast(Datagram(f, i))
  BY <1>1, <1>2, <1>3, ReturnsSentFrame
<1>4. CASE IngestMismatch(Datagram(f, i)) \/ IngestPartial(Datagram(f, i))
  BY <1>2, <1>4 DEF IngestMismatch, IngestPartial
<1> QED
  BY <1>1, <1>3, <1>4

\* One step of the frame path is a step of the channel, or none.
LEMMA ChannelStep ==
    ASSUME IInv, IInv', DeliveredSent, [Next]_vars
    PROVE  DeliveredSent' /\ [Channel!Next]_<<sent, delivered>>
<1>1. sent \subseteq SentFrame /\ sent' \subseteq SentFrame
  BY DEF IInv, TypeOK
<1>2. CASE EmitFrame \/ NewSession
  <2>1. sent \subseteq sent' /\ UNCHANGED delivered
    BY <1>2 DEF EmitFrame, NewSession, receiverVars
  <2> QED BY <1>1, <2>1 DEF DeliveredSent, Channel!Next, Channel!Send
<1>3. CASE Ingest
  <2>1. CASE delivered' = delivered
    BY <1>3, <2>1, IngestReturns DEF DeliveredSent
  <2>2. CASE \E f \in sent : delivered' = delivered \cup {f}
    <3>1. sent' = sent
      BY <1>3, IngestReturns
    <3>2. delivered \subseteq delivered' /\ delivered' \subseteq sent
      BY <2>2 DEF DeliveredSent
    <3> QED BY <3>1, <3>2 DEF DeliveredSent, Channel!Next, Channel!Deliver
  <2> QED BY <1>3, <2>1, <2>2, IngestReturns
<1>4. CASE Tick \/ UNCHANGED vars
  BY <1>4 DEF Tick, vars, senderVars, DeliveredSent
<1> QED
  BY <1>2, <1>3, <1>4 DEF Next

\* The invariant is inductive.
LEMMA NextInv ==
    ASSUME IInv, [Next]_vars
    PROVE  IInv'
BY SenderStep, IngestStep, TickStep, StutterStep DEF Next

\* For every payload, chunk size and order of arrival the frame path implements
\* the frame channel: what ingest returns is, byte for byte, a frame that was
\* handed to emitFrame.
THEOREM ChannelImplemented == Spec => ChannelSpec
<1>1. Init => Channel!Init /\ DeliveredSent
  BY DEF Init, Channel!Init, DeliveredSent
<1>2. IInv /\ [Next]_vars => IInv'
  BY NextInv
<1>3. IInv /\ IInv' /\ DeliveredSent /\ [Next]_vars
          => DeliveredSent' /\ [Channel!Next]_<<sent, delivered>>
  BY ChannelStep
<1> QED
  BY <1>1, <1>2, <1>3, InitInv, PTL DEF Spec, ChannelSpec, Channel!Spec
-----------------------------------------------------------------------------
\* No frame is lost silently.

\* Every chunk of the frame that came in is in the frame's own entry.
Kept(f) ==
    \A i \in 0 .. ChunkCount(f.payload) - 1 :
        Datagram(f, i) \in ingested =>
            /\ ChunkCount(f.payload) # 1
            /\ f.frameIndex \in DOMAIN pending
            /\ pending[f.frameIndex].sentTimeNs = f.sentTimeNs
            /\ i \in DOMAIN pending[f.frameIndex].chunks

\* What became of every frame: it was returned, it lost a chunk, or all that came
\* in of it is still there; and no datagram comes in before it was sent.
Accounted ==
    /\ \A f \in sent : f \in delivered \/ f.sentTimeNs \in dropped \/ Kept(f)
    /\ \A d \in ingested : d.sentTimeNs \in Nat /\ d.sentTimeNs < stamp

\* The chunks of a frame that came in stay known if its entry, when it has one,
\* keeps them and no other chunk of it comes in.
LEMMA KeptStays ==
    ASSUME NEW f, NEW j, NEW g, Kept(g), ingested' = ingested \cup {Datagram(f, j)},
           f.sentTimeNs # g.sentTimeNs,
           (g.frameIndex \in DOMAIN pending /\ pending[g.frameIndex].sentTimeNs = g.sentTimeNs)
              => (g.frameIndex \in DOMAIN pending' /\ pending'[g.frameIndex] = pending[g.frameIndex])
    PROVE  Kept(g)'
<1>1. \A i : Datagram(g, i) \in ingested' => Datagram(g, i) \in ingested
  <2>1. \A i : Datagram(g, i).sentTimeNs = g.sentTimeNs /\ Datagram(f, j).sentTimeNs = f.sentTimeNs
    BY DEF Datagram
  <2> QED BY <2>1
<1>2. \A i : Datagram(g, i)' = Datagram(g, i)
  BY DEF Datagram, Slices, Slice, ChunkCount
<1>3. ChunkCount(g.payload)' = ChunkCount(g.payload)
  BY DEF ChunkCount
<1> QED
  BY <1>1, <1>2, <1>3 DEF Kept

LEMMA AccountedIngest ==
    ASSUME IInv, Accounted, Ingest
    PROVE  Accounted'
<1>1. PICK f \in sent, i \in 0 .. MaxChunks :
         /\ i < ChunkCount(f.payload)
         /\ ingested' = ingested \cup {Datagram(f, i)}
         /\ \/ IngestSingle(Datagram(f, i))
            \/ IngestMismatch(Datagram(f, i))
            \/ IngestLast(Datagram(f, i))
            \/ IngestPartial(Datagram(f, i))
  BY DEF Ingest
<1> DEFINE d == Datagram(f, i)
<1>2. sent' = sent /\ stamp' = stamp
  BY DEF Ingest, senderVars
<1>3. /\ d.sentTimeNs = f.sentTimeNs /\ d.frameIndex = f.frameIndex
      /\ d.codec = f.codec /\ d.chunkCount = ChunkCount(f.payload)
      /\ f \in SentFrame
  BY <1>1, SentDatagram
<1>4. d.sentTimeNs \in Nat /\ d.sentTimeNs < stamp
  BY <1>3 DEF IInv, SentOnce, SentFrame
<1>5. \A g \in sent : g # f => g.sentTimeNs # f.sentTimeNs
  BY DEF IInv, SentOnce
<1>6. delivered \subseteq delivered' /\ dropped \subseteq dropped'
  BY <1>1 DEF IngestSingle, IngestMismatch, IngestLast, IngestPartial
<1> HIDE DEF d
<1>7. ASSUME NEW g \in sent, Kept(g)
      PROVE  g \in delivered' \/ g.sentTimeNs \in dropped' \/ Kept(g)'
  <2>1. CASE IngestSingle(d)
    <3>1. CASE g = f
      BY <1>1, <2>1, <3>1, ReturnsSentFrame DEF d
    <3>2. CASE g # f
      <4>1. UNCHANGED pending
        BY <2>1 DEF IngestSingle
      <4> QED BY <1>1, <1>5, <1>7, <3>2, <4>1, KeptStays
    <3> QED BY <3>1, <3>2
  <2>2. CASE IngestMismatch(d)
    <3>1. CASE g = f
      BY <1>3, <2>2, <3>1 DEF IngestMismatch
    <3>2. CASE g # f
      <4>1. UNCHANGED pending
        BY <2>2 DEF IngestMismatch
      <4> QED BY <1>1, <1>5, <1>7, <3>2, <4>1, KeptStays
    <3> QED BY <3>1, <3>2
  <2>3. CASE IngestLast(d)
    <3>1. CASE g = f
      BY <1>1, <2>3, <3>1, ReturnsSentFrame DEF d
    <3>2. CASE g # f
      <4>1. /\ Metadata(EntryFor(d)) = Metadata(d)
            /\ pending' = Restrict(pending, DOMAIN pending \ {f.frameIndex})
        BY <1>3, <2>3 DEF IngestLast
      <4>2. f.frameIndex \in DOMAIN pending => pending[f.frameIndex].sentTimeNs = f.sentTimeNs
        BY <1>3, <4>1 DEF EntryFor, Metadata
      <4>3. /\ DOMAIN pending' = DOMAIN pending \ {f.frameIndex}
            /\ \A k \in DOMAIN pending' : pending'[k] = pending[k]
        BY <4>1, RestrictEntries
      <4>4. g.sentTimeNs # f.sentTimeNs
        BY <1>5, <3>2
      <4>5. (g.frameIndex \in DOMAIN pending /\ pending[g.frameIndex].sentTimeNs = g.sentTimeNs)
              => (g.frameIndex \in DOMAIN pending' /\ pending'[g.frameIndex] = pending[g.frameIndex])
        BY <4>2, <4>3, <4>4
      <4> QED BY <1>1, <1>7, <4>4, <4>5, KeptStays
    <3> QED BY <3>1, <3>2
  <2>4. CASE IngestPartial(d)
    <3>0. PICK stored : PartialOutcome(f, i, stored)
      BY <1>1, <2>4, PartialEffect DEF d
    <3>1. /\ ChunkCount(f.payload) # 1
          /\ DOMAIN stored = DOMAIN pending \cup {f.frameIndex}
          /\ \A k \in DOMAIN pending \ {f.frameIndex} : stored[k] = pending[k]
          /\ i \in DOMAIN stored[f.frameIndex].chunks
          /\ f.frameIndex \in DOMAIN pending =>
                /\ pending[f.frameIndex].sentTimeNs = f.sentTimeNs
                /\ DOMAIN pending[f.frameIndex].chunks
                      \subseteq DOMAIN stored[f.frameIndex].chunks
          /\ stored[f.frameIndex].sentTimeNs = f.sentTimeNs
          /\ DOMAIN pending' \subseteq DOMAIN stored
          /\ \A k \in DOMAIN pending' : pending'[k] = stored[k]
          /\ dropped' = dropped \cup
                {stored[k].sentTimeNs : k \in DOMAIN stored \ DOMAIN pending'}
      BY <3>0 DEF PartialOutcome
    <3>2. \A k \in DOMAIN stored \ DOMAIN pending' : stored[k].sentTimeNs \in dropped'
      BY <3>1
    <3>3. CASE g = f
      <4>1. CASE f.frameIndex \notin DOMAIN pending'
        BY <3>1, <3>2, <3>3, <4>1
      <4>2. CASE f.frameIndex \in DOMAIN pending'
        <5>1. ASSUME NEW j, Datagram(f, j) \in ingested'
              PROVE  j = i \/ Datagram(f, j) \in ingested
          <6>1. Datagram(f, j).chunkIndex = j /\ Datagram(f, i).chunkIndex = i
            BY DEF Datagram
          <6> QED BY <1>1, <5>1, <6>1
        <5>2. ASSUME NEW j \in 0 .. ChunkCount(f.payload) - 1, Datagram(f, j) \in ingested'
              PROVE  j \in DOMAIN stored[f.frameIndex].chunks
          <6>1. CASE j = i
            BY <3>1, <6>1
          <6>2. CASE Datagram(f, j) \in ingested
            <7>1. f.frameIndex \in DOMAIN pending /\ j \in DOMAIN pending[f.frameIndex].chunks
              BY <1>7, <3>3, <6>2 DEF Kept
            <7> QED BY <3>1, <7>1
          <6> QED BY <5>1, <5>2, <6>1, <6>2
        <5>3. /\ pending'[f.frameIndex].sentTimeNs = f.sentTimeNs
              /\ pending'[f.frameIndex].chunks = stored[f.frameIndex].chunks
          BY <3>1, <4>2
        <5>4. \A j : Datagram(f, j)' = Datagram(f, j)
          BY DEF Datagram, Slices, Slice, ChunkCount
        <5>5. ChunkCount(f.payload)' = ChunkCount(f.payload)
          BY DEF ChunkCount
        <5>6. Kept(f)'
          BY <3>1, <4>2, <5>2, <5>3, <5>4, <5>5 DEF Kept
        <5> QED BY <3>3, <5>6
      <4> QED BY <4>1, <4>2
    <3>4. CASE g # f
      <4>1. g.sentTimeNs # f.sentTimeNs
        BY <1>5, <3>4
      <4>2. CASE g.frameIndex \in DOMAIN pending /\ pending[g.frameIndex].sentTimeNs = g.sentTimeNs
        <5>1. g.frameIndex \in DOMAIN stored /\ stored[g.frameIndex] = pending[g.frameIndex]
          BY <3>1, <4>1, <4>2
        <5>2. CASE g.frameIndex \in DOMAIN pending'
          <6>1. pending'[g.frameIndex] = pending[g.frameIndex]
            BY <3>1, <5>1, <5>2
          <6> QED BY <1>1, <1>7, <4>1, <5>2, <6>1, KeptStays
        <5>3. CASE g.frameIndex \notin DOMAIN pending'
          BY <3>2, <4>2, <5>1, <5>3
        <5> QED BY <5>2, <5>3
      <4>3. CASE ~(g.frameIndex \in DOMAIN pending /\ pending[g.frameIndex].sentTimeNs = g.sentTimeNs)
        BY <1>1, <1>7, <4>1, <4>3, KeptStays
      <4> QED BY <4>2, <4>3
    <3> QED BY <3>3, <3>4
  <2> QED BY <1>1, <2>1, <2>2, <2>3, <2>4 DEF d
<1>8. \A g \in sent' : g \in delivered' \/ g.sentTimeNs \in dropped' \/ Kept(g)'
  BY <1>2, <1>6, <1>7 DEF Accounted
<1>9. \A x \in ingested' : x.sentTimeNs \in Nat /\ x.sentTimeNs < stamp'
  BY <1>1, <1>2, <1>4 DEF Accounted, d
<1> QED
  BY <1>8, <1>9 DEF Accounted

\* A frame that is only just sent has had no datagram come in.
LEMMA AccountedSender ==
    ASSUME IInv, Accounted, EmitFrame \/ NewSession
    PROVE  Accounted'
<1>1. UNCHANGED receiverVars
  BY DEF EmitFrame, NewSession
<1>2. UNCHANGED <<pending, delivered, ingested, dropped>>
  BY <1>1 DEF receiverVars
<1>3. \A g : Kept(g)' <=> Kept(g)
  <2>1. \A g, i : Datagram(g, i)' = Datagram(g, i)
    BY DEF Datagram, Slices, Slice, ChunkCount
  <2>2. \A g : ChunkCount(g.payload)' = ChunkCount(g.payload)
    BY DEF ChunkCount
  <2> QED BY <1>2, <2>1, <2>2 DEF Kept
<1>4. stamp \in Nat /\ stamp' \in Nat /\ stamp <= stamp'
  BY DEF IInv, TypeOK, EmitFrame, NewSession
<1>5. \A x \in ingested : x.sentTimeNs \in Nat /\ x.sentTimeNs < stamp'
  BY <1>4 DEF Accounted
<1>6. ASSUME NEW g \in sent', g \notin sent
      PROVE  Kept(g)
  <2>1. g.sentTimeNs = stamp
    BY <1>6 DEF EmitFrame, NewSession
  <2>2. \A i : Datagram(g, i).sentTimeNs = stamp
    BY <2>1 DEF Datagram
  <2>3. \A i : Datagram(g, i) \notin ingested
    BY <1>4, <2>2 DEF Accounted
  <2> QED BY <2>3 DEF Kept
<1> QED
  BY <1>2, <1>3, <1>5, <1>6 DEF Accounted

\* All the chunks of a frame cannot be in its entry: it would be complete.
LEMMA KeptIncomplete ==
    ASSUME IInv, NEW f \in sent, Kept(f), Datagrams(f) \subseteq ingested
    PROVE  FALSE
<1> DEFINE n == ChunkCount(f.payload)
           k == f.frameIndex
<1>1. n \in Nat /\ n >= 1
  BY ChunkCountType DEF IInv, TypeOK, SentFrame
<1>2. \A i \in 0 .. n - 1 : /\ k \in DOMAIN pending
                            /\ pending[k].sentTimeNs = f.sentTimeNs
                            /\ i \in DOMAIN pending[k].chunks
  BY DEF Kept, Datagrams
<1>3. 0 \in 0 .. n - 1
  BY <1>1
<1>4. k \in DOMAIN pending /\ pending[k].sentTimeNs = f.sentTimeNs
  BY <1>2, <1>3
<1>5. PICK g \in sent : Holds(pending[k], k, g)
  BY <1>4 DEF IInv, OneFramePerEntry
<1>6. g = f
  <2>1. pending[k].sentTimeNs = g.sentTimeNs
    BY <1>5 DEF Holds, Metadata
  <2> QED BY <1>4, <2>1 DEF IInv, SentOnce
<1>7. /\ DOMAIN pending[k].chunks \subseteq 0 .. n - 1
      /\ pending[k].receivedChunks = Cardinality(DOMAIN pending[k].chunks)
      /\ pending[k].chunkCount = n
  BY <1>5, <1>6 DEF Holds, Metadata, Slices
<1>8. DOMAIN pending[k].chunks = 0 .. n - 1
  BY <1>2, <1>7
<1>9. pending[k].receivedChunks = n
  <2>1. Cardinality(0 .. n - 1) = n
    BY <1>1, FS_Interval
  <2> QED BY <1>7, <1>8, <2>1
<1>10. pending[k].receivedChunks < pending[k].chunkCount
  BY <1>4 DEF IInv, TypeOK
<1> QED
  BY <1>1, <1>7, <1>9, <1>10

\* A frame all of whose datagrams came in, in whatever order, mixed with whatever
\* others and however often, was returned, unless a chunk of it was refused or
\* its entry was given up.
THEOREM NothingIsForgotten == Spec => []NothingForgotten
<1>1. Init => Accounted
  BY DEF Init, Accounted
<1>2. ASSUME IInv, Accounted, [Next]_vars
      PROVE  Accounted'
  <2>1. CASE Tick \/ UNCHANGED vars
    <3>1. UNCHANGED <<stamp, sent, pending, delivered, ingested, dropped>>
      BY <2>1 DEF Tick, vars, senderVars
    <3>2. \A g : Kept(g)' <=> Kept(g)
      <4>1. \A g, i : Datagram(g, i)' = Datagram(g, i)
        BY DEF Datagram, Slices, Slice, ChunkCount
      <4>2. \A g : ChunkCount(g.payload)' = ChunkCount(g.payload)
        BY DEF ChunkCount
      <4> QED BY <3>1, <4>1, <4>2 DEF Kept
    <3> QED BY <1>2, <3>1, <3>2 DEF Accounted
  <2> QED BY <1>2, <2>1, AccountedIngest, AccountedSender DEF Next
<1>3. IInv /\ Accounted => NothingForgotten
  BY KeptIncomplete DEF Accounted, NothingForgotten
<1> QED
  BY <1>1, <1>2, <1>3, Invariance, PTL DEF Spec
-----------------------------------------------------------------------------
\* Which frames are given up.

\* A frame refused for its metadata leaves the older entry of its index in place;
\* any other frame that loses a chunk was the entry given up, and is no younger
\* than those that stay.
LEMMA IngestGivesUpOldest ==
    ASSUME IInv, Ingest, NEW g \in sent, NEW j \in DOMAIN pending',
           g.sentTimeNs \in dropped' \ dropped, g.frameIndex \notin DOMAIN pending'
    PROVE  CreatedTimeNs(g.frameIndex) <= pending'[j].createdTimeNs
<1>1. PICK f \in sent, i \in 0 .. MaxChunks :
         /\ i < ChunkCount(f.payload)
         /\ \/ IngestSingle(Datagram(f, i))
            \/ IngestMismatch(Datagram(f, i))
            \/ IngestLast(Datagram(f, i))
            \/ IngestPartial(Datagram(f, i))
  BY DEF Ingest
<1> DEFINE d == Datagram(f, i)
<1>2. /\ d.sentTimeNs = f.sentTimeNs /\ d.frameIndex = f.frameIndex
  BY <1>1, SentDatagram
<1>3. ~IngestSingle(d) /\ ~IngestLast(d)
  BY DEF IngestSingle, IngestLast
<1>4. ASSUME IngestMismatch(d)
      PROVE  FALSE
  <2>1. g.sentTimeNs = f.sentTimeNs
    BY <1>2, <1>4 DEF IngestMismatch
  <2>2. g = f
    BY <2>1 DEF IInv, SentOnce
  <2>3. Metadata(NewEntry(d)) = Metadata(d)
    BY DEF Metadata, NewEntry
  <2>4. d.frameIndex \in DOMAIN pending
    BY <1>4, <2>3 DEF IngestMismatch, EntryFor
  <2> QED BY <1>2, <1>4, <2>2, <2>4 DEF IngestMismatch
<1>5. PICK stored : PartialOutcome(f, i, stored)
  BY <1>1, <1>3, <1>4, PartialEffect
<1>6. /\ \A k \in DOMAIN stored :
            /\ stored[k].createdTimeNs = CreatedTimeNs(k)
            /\ \E h \in sent : h.frameIndex = k /\ h.sentTimeNs = stored[k].sentTimeNs
      /\ DOMAIN pending' \subseteq DOMAIN stored
      /\ \A k \in DOMAIN pending' : pending'[k] = stored[k]
      /\ dropped' = dropped \cup
            {stored[k].sentTimeNs : k \in DOMAIN stored \ DOMAIN pending'}
      /\ \A k \in DOMAIN stored \ DOMAIN pending', m \in DOMAIN pending' :
            CreatedTimeNs(k) <= CreatedTimeNs(m)
  BY <1>5 DEF PartialOutcome
<1>7. PICK k \in DOMAIN stored \ DOMAIN pending' : stored[k].sentTimeNs = g.sentTimeNs
  BY <1>6
<1>8. g.frameIndex = k
  BY <1>6, <1>7 DEF IInv, SentOnce
<1> QED
  BY <1>6, <1>7, <1>8

\* Whatever the age limit and the size of the table, a frame is never given up for
\* one whose first chunk came in earlier.
THEOREM OldestGivenUpFirst == Spec => OldestGoFirst
<1> DEFINE Fair == \A f \in sent, j \in DOMAIN pending' :
              f.sentTimeNs \in dropped' \ dropped /\ f.frameIndex \notin DOMAIN pending'
                  => CreatedTimeNs(f.frameIndex) <= pending'[j].createdTimeNs
<1>1. ASSUME IInv, [Next]_vars
      PROVE  [Fair]_vars
  <2>1. CASE Ingest
    BY <1>1, <2>1, IngestGivesUpOldest
  <2>2. CASE EmitFrame \/ NewSession \/ Tick
    <3>1. dropped' = dropped
      BY <2>2 DEF EmitFrame, NewSession, Tick, receiverVars
    <3> QED BY <3>1
  <2> QED BY <1>1, <2>1, <2>2 DEF Next
<1> QED
  BY <1>1, Invariance, PTL DEF Spec, OldestGoFirst
=============================================================================
