----------------------------- MODULE JPEGProofs -----------------------------
(***************************************************************************)
(* The two ends of the JPEG connection.                                    *)
(*                                                                         *)
(* The input, for any producers, streams and limits: what is kept of a     *)
(* producer stays below the largest frame, and the frames taken from a     *)
(* stream are those its producer sent, however the network cuts it.        *)
(*                                                                         *)
(* The sender, for any command lines, limits and lengths of the file: it   *)
(* sends what it is asked for, counts what it sends, and is a producer the *)
(* input may expect.                                                       *)
(*                                                                         *)
(* A stream is the concatenation of its frames, so the second rests on     *)
(* what FlattenSeq computes; what the sender is asked for, writes and      *)
(* counts are folds, so the third rests on what they compute.  Both rest   *)
(* on induction: of the numbers for which a fact fails there would be a    *)
(* least one.                                                              *)
(***************************************************************************)
EXTENDS JPEGInput, JPEGSender, SequenceTheorems, FiniteSetTheorems,
        WellFoundedInduction, TLAPS

USE InputAssumption

\* A set of numbers that is not empty has a least one.
LEMMA LeastNumber ==
    ASSUME NEW T \in SUBSET Nat, T # {}
    PROVE  \E x \in T : \A y \in T : x <= y
<1> DEFINE R == {ss \in Nat \X Nat : ss[1] < ss[2]}
<1>1. IsWellFoundedOn(R, Nat)
  BY NatLessThanWellFounded DEF OpToRel
<1> HIDE DEF R
<1>2. PICK x \in T : \A y \in T : <<y, x>> \notin R
  BY <1>1, WFMin, Zenon
<1>3. \A y \in T : ~(y < x)
  BY <1>2 DEF R
<1> QED
  BY <1>2, <1>3

\* A function that meets the recursive equation of FlattenSeq is what it computes:
\* two such functions cannot differ first at any place.
LEMMA FlattenIs ==
    ASSUME NEW q, Len(q) \in Nat \ {0}, NEW h,
           h = [j \in 1 .. Len(q) |-> IF j = 1 THEN q[j] ELSE h[j - 1] \o q[j]]
    PROVE  FlattenSeq(q) = h[Len(q)]
<1> DEFINE Step(g) == [j \in 1 .. Len(q) |-> IF j = 1 THEN q[j] ELSE g[j - 1] \o q[j]]
           flat == CHOOSE g : g = Step(g)
<1>1. h = Step(h)
  OBVIOUS
<1>2. flat = Step(flat)
  BY <1>1
<1>3. FlattenSeq(q) = flat[Len(q)]
  BY DEF FlattenSeq
<1> HIDE DEF flat
<1>4. PICK f : f = Step(f) /\ FlattenSeq(q) = f[Len(q)]
  BY <1>2, <1>3
<1>5. PICK n \in Nat \ {0} : n = Len(q)
  OBVIOUS
<1>6. \A j \in 1 .. n : /\ f[j] = IF j = 1 THEN q[j] ELSE f[j - 1] \o q[j]
                        /\ h[j] = IF j = 1 THEN q[j] ELSE h[j - 1] \o q[j]
  BY <1>1, <1>4, <1>5, Zenon
<1> DEFINE differ == {j \in 1 .. n : f[j] # h[j]}
<1>7. \A j \in differ : j \in 1 .. n /\ j \in Nat /\ f[j] # h[j]
  OBVIOUS
<1>8. \A j \in 1 .. n : j \notin differ => f[j] = h[j]
  OBVIOUS
<1> HIDE DEF differ
<1>9. ASSUME NEW j \in differ, \A k \in differ : j <= k
      PROVE  FALSE
  <2>1. CASE j = 1
    BY <1>6, <1>7, <2>1
  <2>2. CASE j # 1
    <3>1. j - 1 \in 1 .. n /\ ~(j <= j - 1)
      <4>1. j \in 1 .. n
        BY <1>7
      <4> QED BY <2>2, <4>1
    <3>2. f[j - 1] = h[j - 1]
      BY <1>8, <1>9, <3>1
    <3>3. f[j] = f[j - 1] \o q[j] /\ h[j] = h[j - 1] \o q[j]
      BY <1>6, <1>7, <2>2
    <3> QED BY <1>7, <3>2, <3>3
  <2> QED BY <2>1, <2>2
<1>10. differ = {}
  <2>1. differ \in SUBSET Nat
    BY <1>7
  <2> QED BY <1>9, <2>1, LeastNumber
<1>11. n \in 1 .. n
  OBVIOUS
<1> QED
  BY <1>4, <1>5, <1>8, <1>10, <1>11

\* There always is one: it can be carried one sequence further.
LEMMA FlattenExists ==
    ASSUME NEW q, NEW n \in Nat \ {0}
    PROVE  \E h : h = [j \in 1 .. n |-> IF j = 1 THEN q[j] ELSE h[j - 1] \o q[j]]
<1> DEFINE Fits(h, m) == /\ h = [j \in 1 .. m |-> h[j]]
                         /\ \A j \in 1 .. m : h[j] = IF j = 1 THEN q[j] ELSE h[j - 1] \o q[j]
           none == {m \in Nat : ~\E h : Fits(h, m)}
<1>1. none \in SUBSET Nat
  OBVIOUS
<1>2. ASSUME NEW m \in none, \A k \in none : m <= k
      PROVE  FALSE
  <2>1. m \in Nat /\ ~\E h : Fits(h, m)
    OBVIOUS
  <2>2. CASE m = 0
    <3> DEFINE h == [j \in 1 .. 0 |-> j]
    <3>1. Fits(h, 0)
      OBVIOUS
    <3> QED BY <2>1, <2>2, <3>1
  <2>3. CASE m # 0
    <3>1. m - 1 \in Nat /\ ~(m <= m - 1)
      BY <2>1, <2>3
    <3>2. m - 1 \notin none
      <4> HIDE DEF none
      <4> QED BY <1>2, <3>1
    <3>3. PICK g : Fits(g, m - 1)
      BY <3>1, <3>2
    <3> DEFINE h == [j \in 1 .. m |-> IF j < m THEN g[j]
                                       ELSE IF j = 1 THEN q[j] ELSE g[j - 1] \o q[j]]
    <3>4. ASSUME NEW j \in 1 .. m
          PROVE  h[j] = IF j = 1 THEN q[j] ELSE h[j - 1] \o q[j]
      <4>1. CASE j = m
        <5>1. j # 1 => h[j - 1] = g[j - 1]
          BY <2>1, <4>1
        <5>2. h[j] = IF j = 1 THEN q[j] ELSE g[j - 1] \o q[j]
          BY <4>1
        <5> HIDE DEF h
        <5> QED BY <5>1, <5>2
      <4>2. CASE j # m
        <5>1. j \in 1 .. m - 1 /\ j < m
          BY <2>1, <4>2
        <5>2. h[j] = g[j]
          BY <5>1
        <5>3. j # 1 => h[j - 1] = g[j - 1]
          BY <2>1, <5>1
        <5>4. g[j] = IF j = 1 THEN q[j] ELSE g[j - 1] \o q[j]
          BY <3>3, <5>1
        <5> HIDE DEF h
        <5> QED BY <5>2, <5>3, <5>4
      <4> QED BY <4>1, <4>2
    <3>5. h = [j \in 1 .. m |-> h[j]]
      OBVIOUS
    <3> HIDE DEF h
    <3>6. Fits(h, m)
      BY <3>4, <3>5
    <3> QED BY <2>1, <3>6
  <2> QED BY <2>2, <2>3
<1>3. none = {}
  <2> HIDE DEF none
  <2> QED BY <1>1, <1>2, LeastNumber
<1>4. PICK h : Fits(h, n)
  BY <1>3
<1>5. [j \in 1 .. n |-> h[j]] = [j \in 1 .. n |-> IF j = 1 THEN q[j] ELSE h[j - 1] \o q[j]]
  BY <1>4
<1>6. h = [j \in 1 .. n |-> IF j = 1 THEN q[j] ELSE h[j - 1] \o q[j]]
  BY <1>4, <1>5
<1> QED
  BY <1>6
-----------------------------------------------------------------------------
\* How the bytes of a stream are laid out.

ByteOf(lengths) == [frame : 1 .. Len(lengths), at : Nat \ {0}]

\* The bytes of the first m frames.
FirstFrames(lengths, m) == Bytes(SubSeq(lengths, 1, m))

\* A frame is a sequence of bytes, and which.
LEMMA FrameType ==
    ASSUME NEW lengths \in Seq(Nat), NEW i \in 1 .. Len(lengths)
    PROVE  /\ Frame(lengths, i) \in Seq(ByteOf(lengths))
           /\ Len(Frame(lengths, i)) = HeaderLength + lengths[i]
           /\ HeaderLength + lengths[i] \in Nat
           /\ \A k \in 1 .. HeaderLength + lengths[i] :
                 Frame(lengths, i)[k] = [frame |-> i, at |-> k]
<1>1. HeaderLength + lengths[i] \in Nat
  OBVIOUS
<1>2. PICK n \in Nat : n = HeaderLength + lengths[i]
  BY <1>1
<1>3. Frame(lengths, i) = [k \in 1 .. n |-> [frame |-> i, at |-> k]]
  BY <1>2 DEF Frame
<1>4. \A k \in 1 .. n : [frame |-> i, at |-> k] \in ByteOf(lengths)
  BY DEF ByteOf
<1>5. Frame(lengths, i) \in [1 .. n -> ByteOf(lengths)]
  BY <1>3, <1>4
<1>6. Frame(lengths, i) \in Seq(ByteOf(lengths)) /\ Len(Frame(lengths, i)) = n
  BY <1>3, <1>5
<1> QED
  BY <1>1, <1>2, <1>3, <1>6

\* Each frame's bytes follow those of the frames before it.
LEMMA FirstFramesGrow ==
    ASSUME NEW lengths \in Seq(Nat)
    PROVE  /\ FirstFrames(lengths, 0) = <<>>
           /\ FirstFrames(lengths, Len(lengths)) = Bytes(lengths)
           /\ \A m \in 1 .. Len(lengths) :
                 FirstFrames(lengths, m) =
                     IF m = 1 THEN Frame(lengths, m)
                              ELSE FirstFrames(lengths, m - 1) \o Frame(lengths, m)
<1>1. PICK n \in Nat : n = Len(lengths)
  OBVIOUS
<1> DEFINE q == [i \in 1 .. n |-> Frame(lengths, i)]
<1>2. ASSUME NEW m \in 0 .. n
      PROVE  FirstFrames(lengths, m) = FlattenSeq([i \in 1 .. m |-> Frame(lengths, i)])
  <2>1. /\ Len(SubSeq(lengths, 1, m)) = m /\ DOMAIN SubSeq(lengths, 1, m) = 1 .. m
        /\ \A i \in 1 .. m : SubSeq(lengths, 1, m)[i] = lengths[i]
    BY <1>1
  <2>2. \A i \in 1 .. m : Frame(SubSeq(lengths, 1, m), i) = Frame(lengths, i)
    BY <2>1 DEF Frame
  <2> QED
    BY <2>1, <2>2 DEF FirstFrames, Bytes
<1>3. FirstFrames(lengths, 0) = <<>>
  <2>1. FirstFrames(lengths, 0) = FlattenSeq([i \in 1 .. 0 |-> Frame(lengths, i)])
    <3>1. 0 \in 0 .. n
      OBVIOUS
    <3> QED BY <1>2, <3>1
  <2>2. [i \in 1 .. 0 |-> Frame(lengths, i)] = <<>>
    OBVIOUS
  <2> QED BY <2>1, <2>2 DEF FlattenSeq
<1>4. FirstFrames(lengths, n) = Bytes(lengths)
  BY <1>1, SubSeqFull DEF FirstFrames
<1>5. CASE n = 0
  BY <1>1, <1>3, <1>4, <1>5
<1>6. CASE n # 0
  <2>1. PICK h : h = [j \in 1 .. n |-> IF j = 1 THEN q[j] ELSE h[j - 1] \o q[j]]
    <3>1. n \in Nat \ {0}
      BY <1>6
    <3> HIDE DEF q
    <3> QED BY <3>1, FlattenExists
  <2>2. ASSUME NEW m \in 1 .. n
        PROVE  FirstFrames(lengths, m) = h[m]
    <3> DEFINE p == [i \in 1 .. m |-> Frame(lengths, i)]
               g == [i \in 1 .. m |-> h[i]]
    <3>1. Len(p) = m /\ m \in Nat \ {0}
      OBVIOUS
    <3>2. ASSUME NEW j \in 1 .. m
          PROVE  g[j] = IF j = 1 THEN p[j] ELSE g[j - 1] \o p[j]
      <4>1. j \in 1 .. n /\ p[j] = q[j] /\ g[j] = h[j] /\ (j # 1 => g[j - 1] = h[j - 1])
        OBVIOUS
      <4>2. h[j] = IF j = 1 THEN q[j] ELSE h[j - 1] \o q[j]
        BY <2>1, <4>1
      <4> HIDE DEF p, q, g
      <4> QED BY <4>1, <4>2
    <3>3. g = [j \in 1 .. m |-> g[j]]
      OBVIOUS
    <3> HIDE DEF p, g
    <3>4. g = [j \in 1 .. m |-> IF j = 1 THEN p[j] ELSE g[j - 1] \o p[j]]
      BY <3>2, <3>3, Zenon
    <3>5. FlattenSeq(p) = g[m]
      BY <3>1, <3>4, FlattenIs
    <3>6. g[m] = h[m]
      BY DEF g
    <3>7. FirstFrames(lengths, m) = FlattenSeq(p)
      BY <1>2 DEF p
    <3> QED BY <3>5, <3>6, <3>7
  <2>3. \A m \in 1 .. n : h[m] = IF m = 1 THEN q[m] ELSE h[m - 1] \o q[m]
    BY <2>1, Zenon
  <2>4. \A m \in 1 .. n : q[m] = Frame(lengths, m) /\ (m # 1 => m - 1 \in 1 .. n)
    OBVIOUS
  <2> HIDE DEF q
  <2>5. \A m \in 1 .. n : FirstFrames(lengths, m) =
                     IF m = 1 THEN Frame(lengths, m)
                              ELSE FirstFrames(lengths, m - 1) \o Frame(lengths, m)
    BY <2>2, <2>3, <2>4
  <2> QED BY <1>1, <1>3, <1>4, <2>5
<1> QED
  BY <1>5, <1>6

\* The first m frames are a sequence of bytes.
LEMMA FirstFramesType ==
    ASSUME NEW lengths \in Seq(Nat), NEW m \in 0 .. Len(lengths)
    PROVE  /\ FirstFrames(lengths, m) \in Seq(ByteOf(lengths))
           /\ BytesOf(lengths, m) = Len(FirstFrames(lengths, m))
           /\ BytesOf(lengths, m) \in Nat
<1> DEFINE S == ByteOf(lengths)
           wrong == {k \in 0 .. Len(lengths) : FirstFrames(lengths, k) \notin Seq(S)}
<1>1. Len(lengths) \in Nat /\ wrong \in SUBSET Nat
  OBVIOUS
<1>2. \A k \in wrong : k \in 0 .. Len(lengths) /\ FirstFrames(lengths, k) \notin Seq(S)
  OBVIOUS
<1>3. \A k \in 0 .. Len(lengths) : k \notin wrong => FirstFrames(lengths, k) \in Seq(S)
  OBVIOUS
<1> HIDE DEF wrong
<1>4. ASSUME NEW k \in wrong, \A j \in wrong : k <= j
      PROVE  FALSE
  <2>1. CASE k = 0
    <3>1. FirstFrames(lengths, 0) \in Seq(S)
      <4>1. FirstFrames(lengths, 0) = <<>>
        BY FirstFramesGrow
      <4>2. <<>> \in Seq(S)
        BY EmptySeq
      <4> QED BY <4>1, <4>2
    <3> QED BY <1>2, <2>1, <3>1
  <2>2. CASE k # 0
    <3>1. k \in 1 .. Len(lengths) /\ k - 1 \in 0 .. Len(lengths) /\ ~(k <= k - 1)
      BY <1>1, <1>2, <2>2
    <3>2. FirstFrames(lengths, k - 1) \in Seq(S)
      BY <1>3, <1>4, <3>1
    <3>3. Frame(lengths, k) \in Seq(S)
      BY <3>1, FrameType
    <3>4. FirstFrames(lengths, k) = IF k = 1 THEN Frame(lengths, k)
                                   ELSE FirstFrames(lengths, k - 1) \o Frame(lengths, k)
      BY <3>1, FirstFramesGrow
    <3>5. FirstFrames(lengths, k) \in Seq(S)
      BY <3>2, <3>3, <3>4, ConcatProperties
    <3> QED BY <1>2, <3>5
  <2> QED BY <2>1, <2>2
<1>5. wrong = {}
  BY <1>1, <1>4, LeastNumber
<1>6. FirstFrames(lengths, m) \in Seq(S)
  BY <1>3, <1>5
<1>7. BytesOf(lengths, m) = Len(FirstFrames(lengths, m))
  BY DEF BytesOf, FirstFrames
<1> QED
  BY <1>6, <1>7, LenProperties

\* What the first m frames occupy.
LEMMA BytesOfGrow ==
    ASSUME NEW lengths \in Seq(Nat)
    PROVE  /\ BytesOf(lengths, 0) = 0
           /\ BytesOf(lengths, Len(lengths)) = Len(Bytes(lengths))
           /\ Bytes(lengths) \in Seq(ByteOf(lengths))
           /\ Len(Bytes(lengths)) \in Nat
           /\ \A m \in 0 .. Len(lengths) : BytesOf(lengths, m) \in Nat
           /\ \A m \in 1 .. Len(lengths) :
                 BytesOf(lengths, m) = BytesOf(lengths, m - 1) + HeaderLength + lengths[m]
<1>1. 0 \in 0 .. Len(lengths) /\ Len(lengths) \in 0 .. Len(lengths) /\ Len(lengths) \in Nat
  OBVIOUS
<1>2. BytesOf(lengths, 0) = 0
  BY <1>1, FirstFramesType, FirstFramesGrow
<1>3. /\ BytesOf(lengths, Len(lengths)) = Len(Bytes(lengths))
      /\ Bytes(lengths) \in Seq(ByteOf(lengths)) /\ Len(Bytes(lengths)) \in Nat
  BY <1>1, FirstFramesType, FirstFramesGrow
<1>4. ASSUME NEW m \in 1 .. Len(lengths)
      PROVE  BytesOf(lengths, m) = BytesOf(lengths, m - 1) + HeaderLength + lengths[m]
  <2>1. m \in 0 .. Len(lengths) /\ m - 1 \in 0 .. Len(lengths) /\ lengths[m] \in Nat
    BY <1>1
  <2>2. /\ FirstFrames(lengths, m - 1) \in Seq(ByteOf(lengths))
        /\ BytesOf(lengths, m - 1) = Len(FirstFrames(lengths, m - 1))
        /\ BytesOf(lengths, m) = Len(FirstFrames(lengths, m))
        /\ BytesOf(lengths, m - 1) \in Nat
    BY <2>1, FirstFramesType
  <2>3. /\ Frame(lengths, m) \in Seq(ByteOf(lengths))
        /\ Len(Frame(lengths, m)) = HeaderLength + lengths[m]
    BY FrameType
  <2>4. FirstFrames(lengths, m) = IF m = 1 THEN Frame(lengths, m)
                                 ELSE FirstFrames(lengths, m - 1) \o Frame(lengths, m)
    BY FirstFramesGrow
  <2>5. CASE m = 1
    <3>1. BytesOf(lengths, m - 1) = 0
      <4>1. m - 1 = 0
        BY <2>5
      <4> QED BY <1>2, <4>1, Zenon
    <3>2. BytesOf(lengths, m) = HeaderLength + lengths[m]
      BY <2>2, <2>3, <2>4, <2>5, Zenon
    <3> QED BY <2>1, <3>1, <3>2
  <2>6. CASE m # 1
    <3>1. Len(FirstFrames(lengths, m)) =
              Len(FirstFrames(lengths, m - 1)) + Len(Frame(lengths, m))
      <4>1. FirstFrames(lengths, m) = FirstFrames(lengths, m - 1) \o Frame(lengths, m)
        BY <2>4, <2>6
      <4>2. \A r, t \in Seq(ByteOf(lengths)) : Len(r \o t) = Len(r) + Len(t)
        OBVIOUS
      <4> QED BY <2>2, <2>3, <4>1, <4>2, Zenon
    <3> QED BY <2>1, <2>2, <2>3, <3>1
  <2> QED BY <2>5, <2>6
<1>5. \A m \in 0 .. Len(lengths) : BytesOf(lengths, m) \in Nat
  BY FirstFramesType
<1> QED
  BY <1>2, <1>3, <1>4, <1>5

\* A byte keeps its place when further frames follow.
LEMMA FirstFramesPrefix ==
    ASSUME NEW lengths \in Seq(Nat), NEW i \in 0 .. Len(lengths), NEW m \in i .. Len(lengths)
    PROVE  /\ BytesOf(lengths, i) <= BytesOf(lengths, m)
           /\ \A k \in 1 .. BytesOf(lengths, i) :
                 FirstFrames(lengths, m)[k] = FirstFrames(lengths, i)[k]
<1> DEFINE Good(l) == /\ BytesOf(lengths, i) <= BytesOf(lengths, l)
                      /\ \A k \in 1 .. BytesOf(lengths, i) :
                            FirstFrames(lengths, l)[k] = FirstFrames(lengths, i)[k]
           wrong == {l \in i .. Len(lengths) : ~Good(l)}
<1>1. Len(lengths) \in Nat /\ wrong \in SUBSET Nat /\ i \in Nat
  OBVIOUS
<1>2. \A l \in wrong : l \in i .. Len(lengths) /\ ~Good(l)
  OBVIOUS
<1>3. \A l \in i .. Len(lengths) : l \notin wrong => Good(l)
  OBVIOUS
<1>4. BytesOf(lengths, i) \in Nat
  BY FirstFramesType
<1> HIDE DEF wrong
<1>5. ASSUME NEW l \in wrong, \A j \in wrong : l <= j
      PROVE  FALSE
  <2>1. CASE l = i
    BY <1>2, <1>4, <2>1
  <2>2. CASE l # i
    <3>1. /\ l \in 1 .. Len(lengths) /\ l - 1 \in i .. Len(lengths)
          /\ l - 1 \in 0 .. Len(lengths) /\ ~(l <= l - 1) /\ l \in 0 .. Len(lengths)
      BY <1>1, <1>2, <2>2
    <3>2. Good(l - 1)
      BY <1>3, <1>5, <3>1
    <3>3. /\ FirstFrames(lengths, l - 1) \in Seq(ByteOf(lengths))
          /\ BytesOf(lengths, l - 1) = Len(FirstFrames(lengths, l - 1))
          /\ BytesOf(lengths, l - 1) \in Nat
      BY <3>1, FirstFramesType
    <3>4. BytesOf(lengths, l) = BytesOf(lengths, l - 1) + HeaderLength + lengths[l]
      BY <3>1, BytesOfGrow
    <3>5. HeaderLength + lengths[l] \in Nat /\ HeaderLength \in Nat /\ lengths[l] \in Nat
      BY <3>1
    <3>6. BytesOf(lengths, l - 1) <= BytesOf(lengths, l)
      <4>1. PICK b \in Nat, h \in Nat, x \in Nat :
                b = BytesOf(lengths, l - 1) /\ h = HeaderLength /\ x = lengths[l]
        BY <3>3, <3>5, Zenon
      <4>2. BytesOf(lengths, l) = b + h + x
        BY <3>4, <4>1, Zenon
      <4>3. b <= b + h + x
        OBVIOUS
      <4> QED BY <4>1, <4>2, <4>3, Zenon
    <3>7. BytesOf(lengths, i) <= BytesOf(lengths, l)
      <4>1. BytesOf(lengths, l) \in Nat
        BY <3>1, FirstFramesType
      <4> QED BY <1>4, <3>2, <3>3, <3>6, <4>1
    <3>8. ASSUME NEW k \in 1 .. BytesOf(lengths, i)
          PROVE  FirstFrames(lengths, l)[k] = FirstFrames(lengths, i)[k]
      <4>1. k \in 1 .. BytesOf(lengths, l - 1)
        BY <1>4, <3>2, <3>3
      <4>2. l # 1
        <5>1. CASE l = 1
          <6>1. BytesOf(lengths, l - 1) = 0
            BY <5>1, BytesOfGrow
          <6> QED BY <4>1, <6>1
        <5> QED BY <5>1
      <4>3. FirstFrames(lengths, l) = FirstFrames(lengths, l - 1) \o Frame(lengths, l)
        BY <3>1, <4>2, FirstFramesGrow
      <4>4. Frame(lengths, l) \in Seq(ByteOf(lengths)) /\ Len(Frame(lengths, l)) \in Nat
        BY <3>1, FrameType
      <4>5. k \in 1 .. Len(FirstFrames(lengths, l - 1)) + Len(Frame(lengths, l))
            /\ k <= Len(FirstFrames(lengths, l - 1))
        BY <3>3, <4>1, <4>4
      <4>6. FirstFrames(lengths, l)[k] = FirstFrames(lengths, l - 1)[k]
        BY <3>3, <4>3, <4>4, <4>5, ConcatProperties
      <4> QED BY <3>2, <4>6
    <3> QED BY <1>2, <3>7, <3>8
  <2> QED BY <2>1, <2>2
<1>6. wrong = {}
  BY <1>1, <1>5, LeastNumber
<1> QED
  BY <1>3, <1>6

\* The bytes of frame m are where its place in the stream says, in order.
LEMMA Layout ==
    ASSUME NEW lengths \in Seq(Nat), NEW m \in 1 .. Len(lengths)
    PROVE  /\ BytesOf(lengths, m - 1) \in Nat
           /\ BytesOf(lengths, m) = BytesOf(lengths, m - 1) + HeaderLength + lengths[m]
           /\ BytesOf(lengths, m) <= Len(Bytes(lengths))
           /\ \A k \in 1 .. HeaderLength + lengths[m] :
                 Bytes(lengths)[BytesOf(lengths, m - 1) + k] = [frame |-> m, at |-> k]
<1>1. /\ Len(lengths) \in Nat /\ m \in 0 .. Len(lengths) /\ m - 1 \in 0 .. Len(lengths)
      /\ Len(lengths) \in m .. Len(lengths) /\ lengths[m] \in Nat
  OBVIOUS
<1>2. /\ BytesOf(lengths, m - 1) \in Nat /\ BytesOf(lengths, m) \in Nat
      /\ BytesOf(lengths, m) = BytesOf(lengths, m - 1) + HeaderLength + lengths[m]
      /\ BytesOf(lengths, Len(lengths)) = Len(Bytes(lengths))
  BY <1>1, BytesOfGrow
<1>3. /\ BytesOf(lengths, m) <= Len(Bytes(lengths))
      /\ \A k \in 1 .. BytesOf(lengths, m) : Bytes(lengths)[k] = FirstFrames(lengths, m)[k]
  <2>1. FirstFrames(lengths, Len(lengths)) = Bytes(lengths)
    BY FirstFramesGrow, Zenon
  <2>2. /\ BytesOf(lengths, m) <= BytesOf(lengths, Len(lengths))
        /\ \A k \in 1 .. BytesOf(lengths, m) :
              FirstFrames(lengths, Len(lengths))[k] = FirstFrames(lengths, m)[k]
    BY <1>1, FirstFramesPrefix, Zenon
  <2> QED BY <1>2, <2>1, <2>2, Zenon
<1>4. /\ Frame(lengths, m) \in Seq(ByteOf(lengths))
      /\ Len(Frame(lengths, m)) = HeaderLength + lengths[m]
      /\ \A k \in 1 .. HeaderLength + lengths[m] :
            Frame(lengths, m)[k] = [frame |-> m, at |-> k]
  BY FrameType
<1>5. PICK l \in Nat, n \in Nat :
          l = BytesOf(lengths, m - 1) /\ n = HeaderLength + lengths[m]
  <2>1. HeaderLength + lengths[m] \in Nat
    BY <1>1
  <2> QED BY <1>2, <2>1, Zenon
<1>6. BytesOf(lengths, m) = l + n
  <2>1. PICK h \in Nat, x \in Nat : h = HeaderLength /\ x = lengths[m]
    BY <1>1
  <2>2. BytesOf(lengths, m) = (l + h) + x /\ n = h + x
    BY <1>2, <1>5, <2>1, Zenon
  <2> QED BY <2>2
<1>7. ASSUME NEW k \in 1 .. n
      PROVE  Bytes(lengths)[l + k] = [frame |-> m, at |-> k]
  <2>1. l + k \in 1 .. l + n /\ k \in Nat \ {0} /\ ~(l + k <= l) /\ (l + k) - l = k
    OBVIOUS
  <2>2. FirstFrames(lengths, m)[l + k] = Frame(lengths, m)[k]
    <3>1. CASE m = 1
      <4>1. l = 0
        BY <1>5, <3>1, BytesOfGrow
      <4>2. FirstFrames(lengths, m) = Frame(lengths, m)
        BY <3>1, FirstFramesGrow
      <4> QED BY <4>1, <4>2
    <3>2. CASE m # 1
      <4>1. FirstFrames(lengths, m) = FirstFrames(lengths, m - 1) \o Frame(lengths, m)
        BY <3>2, FirstFramesGrow
      <4>2. /\ FirstFrames(lengths, m - 1) \in Seq(ByteOf(lengths))
            /\ l = Len(FirstFrames(lengths, m - 1))
        BY <1>1, <1>5, FirstFramesType
      <4>3. Frame(lengths, m) \in Seq(ByteOf(lengths)) /\ Len(Frame(lengths, m)) = n
        BY <1>4, <1>5
      <4>4. FirstFrames(lengths, m)[l + k] = Frame(lengths, m)[(l + k) - l]
        BY <2>1, <4>1, <4>2, <4>3, ConcatProperties
      <4> QED BY <2>1, <4>4
    <3> QED BY <3>1, <3>2
  <2>3. Bytes(lengths)[l + k] = FirstFrames(lengths, m)[l + k]
    BY <1>3, <1>6, <2>1
  <2>4. Frame(lengths, m)[k] = [frame |-> m, at |-> k]
    BY <1>4, <1>5
  <2> QED BY <2>2, <2>3, <2>4
<1> QED
  BY <1>2, <1>3, <1>5, <1>7
-----------------------------------------------------------------------------
\* A stretch of a sequence.
LEMMA Stretch ==
    ASSUME NEW S, NEW s \in Seq(S), NEW k \in Nat, NEW m \in Nat, k <= m, m <= Len(s)
    PROVE  /\ SubSeq(s, k + 1, m) \in Seq(S)
           /\ Len(SubSeq(s, k + 1, m)) = m - k
           /\ \A i \in 1 .. m - k : SubSeq(s, k + 1, m)[i] = s[k + i]
<1>1. k + 1 \in Int /\ m \in Int /\ Len(s) \in Nat
  OBVIOUS
<1>2. \A i \in k + 1 .. m : s[i] \in S
  <2> SUFFICES ASSUME NEW i \in k + 1 .. m PROVE s[i] \in S
    OBVIOUS
  <2>1. i \in 1 .. Len(s)
    BY <1>1
  <2> QED BY <2>1, ElementOfSeq
<1>3. /\ SubSeq(s, k + 1, m) \in Seq(S)
      /\ Len(SubSeq(s, k + 1, m)) = IF k + 1 <= m THEN m - (k + 1) + 1 ELSE 0
      /\ \A i \in 1 .. m - (k + 1) + 1 : SubSeq(s, k + 1, m)[i] = s[(k + 1) + i - 1]
  BY <1>1, <1>2, SubSeqProperties
<1>4. /\ (IF k + 1 <= m THEN m - (k + 1) + 1 ELSE 0) = m - k
      /\ m - (k + 1) + 1 = m - k
      /\ \A i \in 1 .. m - k : (k + 1) + i - 1 = k + i
  BY <1>1
<1> QED
  BY <1>3, <1>4

\* What comes of a stretch cut in two.
LEMMA CutStretch ==
    ASSUME NEW S, NEW s \in Seq(S), NEW k \in Nat, NEW m \in Nat, k <= m, m <= Len(s),
           NEW n \in 0 .. m - k
    PROVE  LET kept == SubSeq(s, k + 1, m)
           IN  /\ SubSeq(kept, 1, n) \in Seq(S) /\ Len(SubSeq(kept, 1, n)) = n
               /\ \A i \in 1 .. n : SubSeq(kept, 1, n)[i] = s[k + i]
               /\ SubSeq(kept, n + 1, Len(kept)) = SubSeq(s, (k + n) + 1, m)
<1> DEFINE kept == SubSeq(s, k + 1, m)
<1>1. /\ kept \in Seq(S) /\ Len(kept) = m - k
      /\ \A i \in 1 .. m - k : kept[i] = s[k + i]
  BY Stretch
<1> HIDE DEF kept
<1>2. /\ 0 \in Nat /\ n \in Nat /\ 0 <= n /\ n <= Len(kept) /\ Len(kept) \in Nat /\ 0 + 1 = 1
      /\ n - 0 = n /\ \A i \in 1 .. n : 0 + i = i /\ i \in 1 .. m - k
  BY <1>1
<1>3. /\ SubSeq(kept, 0 + 1, n) \in Seq(S) /\ Len(SubSeq(kept, 0 + 1, n)) = n - 0
      /\ \A i \in 1 .. n - 0 : SubSeq(kept, 0 + 1, n)[i] = kept[0 + i]
  BY <1>1, <1>2, Stretch
<1>4. /\ SubSeq(kept, n + 1, Len(kept)) \in Seq(S)
      /\ Len(SubSeq(kept, n + 1, Len(kept))) = Len(kept) - n
      /\ \A i \in 1 .. Len(kept) - n : SubSeq(kept, n + 1, Len(kept))[i] = kept[n + i]
  BY <1>1, <1>2, Stretch
<1>5. k + n \in Nat /\ k + n <= m /\ m - (k + n) = Len(kept) - n
  BY <1>1
<1>6. /\ SubSeq(s, (k + n) + 1, m) \in Seq(S)
      /\ Len(SubSeq(s, (k + n) + 1, m)) = m - (k + n)
      /\ \A i \in 1 .. m - (k + n) : SubSeq(s, (k + n) + 1, m)[i] = s[(k + n) + i]
  BY <1>5, Stretch
<1>7. \A i \in 1 .. Len(kept) - n : n + i \in 1 .. m - k /\ k + (n + i) = (k + n) + i
  BY <1>1
<1>8. SubSeq(kept, n + 1, Len(kept)) = SubSeq(s, (k + n) + 1, m)
  <2> DEFINE a == SubSeq(kept, n + 1, Len(kept))
             b == SubSeq(s, (k + n) + 1, m)
  <2>1. Len(a) = Len(b) /\ a \in Seq(S) /\ b \in Seq(S)
    BY <1>4, <1>5, <1>6
  <2>2. \A i \in 1 .. Len(a) : a[i] = b[i]
    BY <1>1, <1>4, <1>5, <1>6, <1>7
  <2> HIDE DEF a, b
  <2>3. a = b
    BY <2>1, <2>2, SeqEqual
  <2> QED BY <2>3 DEF a, b
<1> QED
  BY <1>1, <1>2, <1>3, <1>8 DEF kept

\* What stands at the head of a buffer that begins behind frame n: frame n + 1,
\* its header first; and how much of it is there.
LEMMA NextFrame ==
    ASSUME NEW lengths \in Seq(Nat), NEW n \in 0 .. Len(lengths) - 1, NEW p \in Nat,
           BytesOf(lengths, n) <= p, p <= Len(Bytes(lengths))
    PROVE  LET kept == SubSeq(Bytes(lengths), BytesOf(lengths, n) + 1, p)
               end  == HeaderLength + lengths[n + 1]
           IN  /\ Len(kept) = p - BytesOf(lengths, n)
               /\ end \in Nat /\ end >= HeaderLength
               /\ BytesOf(lengths, n + 1) = BytesOf(lengths, n) + end
               /\ Len(kept) >= HeaderLength => kept[1] = [frame |-> n + 1, at |-> 1]
               /\ Len(kept) >= end =>
                     /\ SubSeq(kept, 1, end) = Frame(lengths, n + 1)
                     /\ SubSeq(kept, end + 1, Len(kept)) =
                            SubSeq(Bytes(lengths), BytesOf(lengths, n + 1) + 1, p)
                     /\ BytesOf(lengths, n + 1) <= p
<1>1. /\ n + 1 \in 1 .. Len(lengths) /\ (n + 1) - 1 = n /\ n \in 0 .. Len(lengths)
      /\ lengths[n + 1] \in Nat
  OBVIOUS
<1>2. PICK k \in Nat, end \in Nat :
         /\ k = BytesOf(lengths, n) /\ end = HeaderLength + lengths[n + 1]
  BY <1>1, BytesOfGrow
<1>3. PICK S, b : S = ByteOf(lengths) /\ b = Bytes(lengths) /\ b \in Seq(S)
  BY BytesOfGrow
<1>4. /\ BytesOf(lengths, n + 1) = k + end
      /\ \A i \in 1 .. end : b[k + i] = [frame |-> n + 1, at |-> i]
  <2>1. /\ BytesOf(lengths, n + 1) = BytesOf(lengths, (n + 1) - 1) + HeaderLength + lengths[n + 1]
        /\ \A i \in 1 .. HeaderLength + lengths[n + 1] :
              Bytes(lengths)[BytesOf(lengths, (n + 1) - 1) + i] = [frame |-> n + 1, at |-> i]
    BY <1>1, Layout
  <2>2. BytesOf(lengths, (n + 1) - 1) = k
    BY <1>1, <1>2, Zenon
  <2>3. k + HeaderLength + lengths[n + 1] = k + end
    <3>1. \A h \in Nat, l \in Nat : k + h + l = k + (h + l)
      OBVIOUS
    <3> QED BY <1>1, <1>2, <3>1
  <2> QED BY <1>2, <1>3, <2>1, <2>2, <2>3
<1>5. k <= p /\ p <= Len(b)
  BY <1>2, <1>3
<1>6. PICK kept : kept = SubSeq(b, k + 1, p)
  OBVIOUS
<1>7. /\ Len(kept) = p - k
      /\ \A i \in 1 .. p - k : kept[i] = b[k + i]
  BY <1>3, <1>5, <1>6, Stretch
<1>8. end >= HeaderLength /\ HeaderLength >= 1
  <2>1. PICK x \in Nat : end = HeaderLength + x
    BY <1>1, <1>2, Zenon
  <2> QED BY <2>1
<1>9. ASSUME p - k >= HeaderLength
      PROVE  kept[1] = [frame |-> n + 1, at |-> 1]
  <2>1. 1 \in 1 .. p - k /\ 1 \in 1 .. end
    BY <1>8, <1>9
  <2> QED BY <1>4, <1>7, <2>1
<1>10. ASSUME p - k >= end
       PROVE  /\ SubSeq(kept, 1, end) = Frame(lengths, n + 1)
              /\ SubSeq(kept, end + 1, Len(kept)) = SubSeq(b, (k + end) + 1, p)
              /\ k + end <= p
  <2>1. end \in 0 .. p - k /\ k + end <= p
    BY <1>10
  <2>2. /\ SubSeq(kept, 1, end) \in Seq(S) /\ Len(SubSeq(kept, 1, end)) = end
        /\ \A i \in 1 .. end : SubSeq(kept, 1, end)[i] = b[k + i]
        /\ SubSeq(kept, end + 1, Len(kept)) = SubSeq(b, (k + end) + 1, p)
    <3>1. LET cut == SubSeq(b, k + 1, p)
          IN  /\ SubSeq(cut, 1, end) \in Seq(S) /\ Len(SubSeq(cut, 1, end)) = end
              /\ \A i \in 1 .. end : SubSeq(cut, 1, end)[i] = b[k + i]
              /\ SubSeq(cut, end + 1, Len(cut)) = SubSeq(b, (k + end) + 1, p)
      BY <1>3, <1>5, <2>1, CutStretch, SMTT(30)
    <3> QED BY <1>6, <3>1, Zenon
  <2>3. /\ Frame(lengths, n + 1) \in Seq(S) /\ Len(Frame(lengths, n + 1)) = end
        /\ \A i \in 1 .. end : Frame(lengths, n + 1)[i] = [frame |-> n + 1, at |-> i]
    BY <1>1, <1>2, <1>3, FrameType
  <2>4. PICK first, whole :
           /\ first = SubSeq(kept, 1, end) /\ whole = Frame(lengths, n + 1)
           /\ first \in Seq(S) /\ whole \in Seq(S)
    BY <2>2, <2>3
  <2>5. \A i \in 1 .. end : first[i] = whole[i]
    <3> SUFFICES ASSUME NEW i \in 1 .. end PROVE first[i] = whole[i]
      OBVIOUS
    <3>1. first[i] = b[k + i]
      BY <2>2, <2>4, Zenon
    <3>2. whole[i] = [frame |-> n + 1, at |-> i]
      BY <2>3, <2>4, Zenon
    <3> QED BY <1>4, <3>1, <3>2, Zenon
  <2>6. Len(first) = end /\ Len(whole) = end
    BY <2>2, <2>3, <2>4, Zenon
  <2>7. first = whole
    BY <2>4, <2>5, <2>6, SeqEqual
  <2> QED BY <2>1, <2>2, <2>4, <2>7
<1>11. /\ Len(kept) = p - BytesOf(lengths, n)
      /\ HeaderLength + lengths[n + 1] \in Nat
      /\ HeaderLength + lengths[n + 1] >= HeaderLength
      /\ BytesOf(lengths, n + 1) = BytesOf(lengths, n) + (HeaderLength + lengths[n + 1])
  BY <1>2, <1>4, <1>7, <1>8
<1>12. Len(kept) >= HeaderLength => kept[1] = [frame |-> n + 1, at |-> 1]
  BY <1>7, <1>9
<1>13. Len(kept) >= end =>
                     /\ SubSeq(kept, 1, end) = Frame(lengths, n + 1)
                     /\ SubSeq(kept, end + 1, Len(kept)) =
                            SubSeq(b, BytesOf(lengths, n + 1) + 1, p)
                     /\ BytesOf(lengths, n + 1) <= p
  BY <1>4, <1>7, <1>10
<1> QED
  BY <1>2, <1>3, <1>6, <1>11, <1>12, <1>13
-----------------------------------------------------------------------------
\* The invariant.

ByteSeq(c) == Seq(ByteOf(stream[c]))

\* Every variable has its type.
InputTypes ==
    /\ service \in {"runtime", "simulator"}
    /\ stream \in [Conns -> Seq(Nat)]
    /\ inputConnections \subseteq DOMAIN inputBuffers /\ DOMAIN inputBuffers \subseteq Conns
    /\ \A c \in DOMAIN inputBuffers : inputBuffers[c] \in ByteSeq(c)
    /\ busy \in Conns \cup {NoConn}
    /\ busy # NoConn => buffer \in ByteSeq(busy) /\ answer[busy] # NoAnswer
    /\ DOMAIN passed = Conns /\ DOMAIN answer = Conns /\ DOMAIN handled = Conns
    /\ DOMAIN link = Conns /\ receiving \subseteq Conns
    /\ \A c \in Conns :
          /\ passed[c] \in 0 .. Len(Bytes(stream[c]))
          /\ answer[c].bytes \in 0 .. passed[c]
          /\ handled[c] \in Seq(ByteSeq(c))

\* A connection that was not accepted yet has left no trace, and a receive that
\* is not answered has no answer on its way.
Untouched ==
    /\ \A c \in Conns : link[c] \in {"none", "offered"} =>
          /\ passed[c] = 0 /\ answer[c] = NoAnswer /\ c \notin receiving
          /\ handled[c] = <<>> /\ c \notin DOMAIN inputBuffers
    /\ \A c \in receiving : answer[c] = NoAnswer

\* The bytes handed to consumeInputData so far.
Arrived(c) == IF busy = c THEN passed[c] ELSE passed[c] - answer[c].bytes

\* What is kept of connection c is the stream from the end of the last frame taken
\* on, and outside the loop not yet a whole frame.
Ordered(c) ==
    LET n    == Len(handled[c])
        kept == SubSeq(Bytes(stream[c]), BytesOf(stream[c], n) + 1, Arrived(c))
    IN  /\ n <= Len(stream[c])
        /\ \A i \in 1 .. n : handled[c][i] = Payload(Frame(stream[c], i))
        /\ BytesOf(stream[c], n) <= Arrived(c)
        /\ busy = c => buffer = kept
        /\ busy # c /\ c \in DOMAIN inputBuffers =>
              /\ inputBuffers[c] = kept
              /\ n < Len(stream[c]) => Arrived(c) < BytesOf(stream[c], n + 1)

\* Every stream of which no length was refused is in order; in the runtime, as long
\* as its connection is kept.
InOrder ==
    \A c \in Conns \ refused : c \in inputConnections \/ service = "simulator" => Ordered(c)
-----------------------------------------------------------------------------
\* The types hold at first and after every step.
LEMMA TypesInit == Init => InputTypes
<1> SUFFICES ASSUME Init PROVE InputTypes
  OBVIOUS
<1>1. stream \in [Conns -> Seq(Nat)]
  BY DEF Init
<1>2. \A c \in Conns : /\ 0 \in 0 .. Len(Bytes(stream[c])) /\ NoAnswer.bytes \in 0 .. 0
                       /\ <<>> \in Seq(ByteSeq(c))
  <2> SUFFICES ASSUME NEW c \in Conns
               PROVE  /\ 0 \in 0 .. Len(Bytes(stream[c])) /\ NoAnswer.bytes \in 0 .. 0
                      /\ <<>> \in Seq(ByteSeq(c))
    OBVIOUS
  <2>1. Len(Bytes(stream[c])) \in Nat
    BY <1>1, BytesOfGrow
  <2>2. <<>> \in Seq(ByteSeq(c))
    BY EmptySeq
  <2> QED
    BY <2>1, <2>2 DEF NoAnswer
<1> QED
  BY <1>1, <1>2 DEF Init, InputTypes

\* A length that is read from the buffer is a number.
LEMMA LengthType ==
    ASSUME InputTypes, busy \in Conns, NEW length \in Lengths(busy)
    PROVE  length \in Nat
<1>1. Len(buffer) \in Nat /\ buffer \in Seq(ByteOf(stream[busy]))
  BY DEF InputTypes, ByteSeq
<1>2. CASE Len(buffer) >= HeaderLength /\ buffer[1].at = 1
  <2>1. 1 \in 1 .. Len(buffer)
    BY <1>1, <1>2
  <2>2. buffer[1] \in ByteOf(stream[busy])
    BY <1>1, <2>1, ElementOfSeq
  <2>3. buffer[1].frame \in 1 .. Len(stream[busy]) /\ stream[busy] \in Seq(Nat)
    BY <2>2 DEF ByteOf, InputTypes
  <2>4. stream[busy][buffer[1].frame] \in Nat
    BY <2>3, ElementOfSeq
  <2>5. length = stream[busy][buffer[1].frame]
    BY <1>1, <1>2 DEF Lengths
  <2> QED
    BY <2>4, <2>5
<1>3. CASE ~(Len(buffer) >= HeaderLength /\ buffer[1].at = 1)
  BY <1>1, <1>3 DEF Lengths
<1> QED
  BY <1>2, <1>3

\* A step that only removes connections and buffers keeps the types.
LEMMA TypesFewer ==
    ASSUME InputTypes, UNCHANGED <<service, stream, busy, buffer, handled, passed>>,
           NEW D, D \subseteq DOMAIN inputBuffers, inputBuffers' = Restricted(inputBuffers, D),
           inputConnections' \subseteq D, DOMAIN link' = Conns, receiving' \subseteq Conns,
           UNCHANGED answer
    PROVE  InputTypes'
BY DEF InputTypes, Restricted, ByteSeq
-----------------------------------------------------------------------------
\* Bytes put behind a buffer leave a buffer.
LEMMA TypesReceive ==
    ASSUME InputTypes, NEW c \in Conns, receiveInput(c)
    PROVE  InputTypes'
<1>1. PICK p, a : p = passed[c] /\ a = answer[c].bytes /\ p \in Nat /\ a \in 0 .. p
                  /\ p <= Len(Bytes(stream[c]))
  BY BytesOfGrow DEF InputTypes
<1>2. PICK S, b : S = ByteOf(stream[c]) /\ b = Bytes(stream[c]) /\ b \in Seq(S)
  BY BytesOfGrow DEF InputTypes
<1>3. PICK old : old = (IF c \in DOMAIN inputBuffers THEN inputBuffers[c] ELSE <<>>)
                 /\ old \in Seq(S)
  <2>1. <<>> \in Seq(S)
    BY EmptySeq
  <2> QED
    BY <1>2, <2>1 DEF InputTypes, ByteSeq
<1>4. p - a \in Nat /\ p - a <= p /\ p <= Len(b)
  BY <1>1, <1>2
<1>5. SubSeq(b, (p - a) + 1, p) \in Seq(S)
  BY <1>1, <1>2, <1>4, Stretch
<1>6. old \o SubSeq(b, (p - a) + 1, p) \in Seq(S)
  BY <1>3, <1>5, ConcatProperties
<1>7. buffer' = old \o SubSeq(b, (p - a) + 1, p)
  BY <1>1, <1>2, <1>3 DEF receiveInput
<1>8. buffer' \in Seq(ByteOf(stream[c]))
  BY <1>2, <1>6, <1>7
<1> QED
  BY <1>8 DEF InputTypes, receiveInput, ByteSeq, network

\* What a round of the loop leaves is a buffer, and what it takes a frame.
LEMMA TypesConsume ==
    ASSUME InputTypes, NEW c \in Conns, ConsumeFrame(c)
    PROVE  InputTypes'
<1>1. PICK S : S = ByteOf(stream[c])
  OBVIOUS
<1>2. busy = c /\ buffer \in Seq(S) /\ Len(buffer) \in Nat /\ busy \in Conns
      /\ handled[c] \in Seq(Seq(S))
  BY <1>1 DEF InputTypes, ByteSeq, ConsumeFrame
<1>3. UNCHANGED <<service, phase, inputConnections, inputBuffers, busy, network>>
  BY DEF ConsumeFrame
<1>4. SUFFICES /\ buffer' \in Seq(S) /\ DOMAIN handled' = Conns
               /\ \A d \in Conns : handled'[d] \in Seq(ByteSeq(d))
  BY <1>1, <1>2, <1>3 DEF InputTypes, ByteSeq, network
<1>5. PICK length \in Lengths(c) :
         \/ buffer' = <<>> /\ UNCHANGED handled
         \/ LET end == HeaderLength + length
            IN  /\ Len(buffer) >= end
                /\ handled' = IF c \in refused THEN handled
                                ELSE [handled EXCEPT ![c] =
                                        Append(@, Payload(SubSeq(buffer, 1, end)))]
                /\ buffer' = SubSeq(buffer, end + 1, Len(buffer))
  BY DEF ConsumeFrame
<1>6. length \in Nat
  BY <1>2, <1>5, LengthType
<1>7. CASE buffer' = <<>> /\ UNCHANGED handled
  <2>1. <<>> \in Seq(S)
    BY EmptySeq
  <2> QED
    BY <1>7, <2>1 DEF InputTypes
<1>8. CASE LET end == HeaderLength + length
            IN  /\ Len(buffer) >= end
                /\ handled' = IF c \in refused THEN handled
                                ELSE [handled EXCEPT ![c] =
                                        Append(@, Payload(SubSeq(buffer, 1, end)))]
                /\ buffer' = SubSeq(buffer, end + 1, Len(buffer))
  <2>1. PICK end \in Nat : end = HeaderLength + length /\ end >= HeaderLength
    BY <1>6
  <2>2. end <= Len(buffer) /\ 0 \in Nat /\ 0 <= end /\ 0 + 1 = 1 /\ end - 0 = end
        /\ HeaderLength \in Nat
    BY <1>8, <2>1
  <2>3. SubSeq(buffer, end + 1, Len(buffer)) \in Seq(S)
    BY <1>2, <2>2, Stretch
  <2>4. SubSeq(buffer, 0 + 1, end) \in Seq(S) /\ Len(SubSeq(buffer, 0 + 1, end)) = end - 0
    BY <1>2, <2>2, Stretch
  <2>5. PICK first : first = SubSeq(buffer, 1, end) /\ first \in Seq(S) /\ Len(first) = end
    BY <2>2, <2>4, Zenon
  <2>6. SubSeq(first, HeaderLength + 1, Len(first)) \in Seq(S)
    BY <2>1, <2>2, <2>5, Stretch
  <2>7. Payload(first) \in Seq(S)
    BY <2>6 DEF Payload
  <2>8. Append(handled[c], Payload(first)) \in Seq(Seq(S))
    BY <1>2, <2>7, AppendProperties
  <2>9. handled' = handled \/ handled' = [handled EXCEPT ![c] = Append(@, Payload(first))]
    BY <1>8, <2>1, <2>5
  <2>10. DOMAIN handled' = Conns /\ \A d \in Conns : handled'[d] \in Seq(ByteSeq(d))
    BY <1>1, <2>8, <2>9 DEF InputTypes, ByteSeq
  <2> QED
    BY <1>8, <2>1, <2>3, <2>10
<1> QED
  BY <1>5, <1>7, <1>8

\* The end of a callback: its data goes, and what it leaves of buffers is kept or
\* removed.
LEMMA TypesAfter ==
    ASSUME InputTypes, NEW c \in Conns, NEW buffers, DOMAIN buffers \subseteq Conns,
           inputConnections \subseteq DOMAIN buffers,
           \A d \in DOMAIN buffers : buffers[d] \in ByteSeq(d),
           AfterData(c, buffers), busy' = NoConn,
           UNCHANGED <<service, phase, handled, refused, stream, passed>>
    PROVE  InputTypes'
<1>1. /\ inputConnections' \subseteq DOMAIN inputBuffers'
      /\ DOMAIN inputBuffers' \subseteq DOMAIN buffers
      /\ \A d \in DOMAIN inputBuffers' : inputBuffers'[d] = buffers[d]
      /\ DOMAIN link' = Conns /\ receiving' \subseteq Conns
  BY DEF AfterData, cleanupInputConnection, Restricted, InputTypes
<1>2. /\ DOMAIN answer' = Conns
      /\ \A d \in Conns : answer'[d].bytes \in 0 .. passed[d]
  BY DEF AfterData, InputTypes, NoAnswer
<1>3. \A d \in DOMAIN inputBuffers' : inputBuffers'[d] \in ByteSeq(d)
  BY <1>1
<1> QED
  BY <1>1, <1>2, <1>3 DEF InputTypes, ByteSeq

LEMMA TypesStep == InputTypes /\ [Next]_vars => InputTypes'
<1> SUFFICES ASSUME InputTypes, [Next]_vars PROVE InputTypes'
  OBVIOUS
<1>1. ASSUME NEW c \in Conns, acceptInput(c)
      PROVE  InputTypes'
  <2>1. <<>> \in ByteSeq(c)
    BY EmptySeq DEF ByteSeq
  <2>2. /\ inputConnections' \subseteq DOMAIN inputBuffers' /\ DOMAIN inputBuffers' \subseteq Conns
        /\ \A d \in DOMAIN inputBuffers' : inputBuffers'[d] \in ByteSeq(d)
    BY <1>1, <2>1 DEF InputTypes, acceptInput
  <2> QED
    BY <1>1, <2>2 DEF InputTypes, acceptInput, ByteSeq
<1>2. ASSUME NEW c \in Conns, Failed(c)
      PROVE  InputTypes'
  <2>1. /\ inputBuffers' = Restricted(inputBuffers, DOMAIN inputBuffers \ {c})
        /\ inputConnections' \subseteq DOMAIN inputBuffers \ {c} /\ DOMAIN link' = Conns
    BY <1>2 DEF Failed, cleanupInputConnection, InputTypes
  <2>2. UNCHANGED <<service, stream, busy, buffer, handled, passed, receiving, answer>>
    BY <1>2 DEF Failed
  <2>3. receiving' \subseteq Conns /\ DOMAIN inputBuffers \ {c} \subseteq DOMAIN inputBuffers
    BY <2>2 DEF InputTypes
  <2> QED
    BY <2>1, <2>2, <2>3, TypesFewer
<1>3. ASSUME NEW c \in Conns, receiveInput(c)
      PROVE  InputTypes'
  BY <1>3, TypesReceive
<1>4. ASSUME NEW c \in Conns, ReceiveEmpty(c)
      PROVE  InputTypes'
  <2>1. AfterData(c, inputBuffers) /\ busy' = NoConn
        /\ UNCHANGED <<service, phase, handled, refused, stream, passed>>
    BY <1>4 DEF ReceiveEmpty
  <2>2. DOMAIN inputBuffers \subseteq Conns /\ inputConnections \subseteq DOMAIN inputBuffers
        /\ \A d \in DOMAIN inputBuffers : inputBuffers[d] \in ByteSeq(d)
    BY DEF InputTypes
  <2> QED
    BY <2>1, <2>2, TypesAfter
<1>5. ASSUME NEW c \in Conns, ConsumeFrame(c)
      PROVE  InputTypes'
  BY <1>5, TypesConsume
<1>6. ASSUME NEW c \in Conns, ConsumeEnds(c)
      PROVE  InputTypes'
  <2>1. PICK buffers : buffers = [d \in DOMAIN inputBuffers \cup {c} |->
                                      IF d = c THEN buffer ELSE inputBuffers[d]]
    OBVIOUS
  <2>2. AfterData(c, buffers) /\ busy' = NoConn
        /\ UNCHANGED <<service, phase, handled, refused, stream, passed>>
    BY <1>6, <2>1 DEF ConsumeEnds
  <2>3. DOMAIN buffers \subseteq Conns /\ inputConnections \subseteq DOMAIN buffers
        /\ \A d \in DOMAIN buffers : buffers[d] \in ByteSeq(d)
    BY <1>6, <2>1 DEF InputTypes, ConsumeEnds
  <2> QED
    BY <2>2, <2>3, TypesAfter
<1>7. ASSUME NEW c \in Conns, Offer(c) \/ PeerEnds(c)
      PROVE  InputTypes'
  BY <1>7 DEF InputTypes, Offer, PeerEnds, own, ByteSeq
<1>8. ASSUME NEW c \in Conns, Delivers(c)
      PROVE  InputTypes'
  <2>1. PICK n \in 0 .. Len(Bytes(stream[c])) - passed[c], then \in {"more", "complete", "error"} :
             /\ answer' = [answer EXCEPT ![c] = [bytes |-> n, then |-> then]]
             /\ passed' = [passed EXCEPT ![c] = @ + n]
    BY <1>8 DEF Delivers
  <2>2. Len(Bytes(stream[c])) \in Nat
    BY BytesOfGrow DEF InputTypes
  <2>3. \A d \in Conns : /\ passed'[d] \in 0 .. Len(Bytes(stream[d]))
                         /\ answer'[d].bytes \in 0 .. passed'[d]
    BY <2>1, <2>2 DEF InputTypes
  <2>4. UNCHANGED <<service, phase, own, stream, link, failing>> /\ receiving' \subseteq Conns
    BY <1>8 DEF Delivers, InputTypes
  <2>5. busy # NoConn => busy = c \/ answer'[busy] = answer[busy]
    BY <2>1 DEF InputTypes
  <2>6. answer'[c] # NoAnswer
    BY <2>1 DEF InputTypes, NoAnswer
  <2> QED
    BY <2>1, <2>3, <2>4, <2>5, <2>6 DEF InputTypes, own, ByteSeq
<1>9. ASSUME Start \/ QueueStop
      PROVE  InputTypes'
  BY <1>9 DEF InputTypes, Start, QueueStop, own, network, ByteSeq
<1>10. ASSUME StopBlock
       PROVE  InputTypes'
  <2>1. UNCHANGED <<service, stream, busy, buffer, handled, passed, receiving, answer>>
    BY <1>10 DEF StopBlock
  <2>2. /\ inputBuffers' = Restricted(inputBuffers, {}) /\ inputConnections' \subseteq {}
        /\ DOMAIN link' = Conns
    BY <1>10 DEF StopBlock, stopNetworkComponents, stopInputListener, CancelInput, Restricted
  <2>3. {} \subseteq DOMAIN inputBuffers /\ receiving' \subseteq Conns
    BY <2>1 DEF InputTypes
  <2> QED
    BY <2>1, <2>2, <2>3, TypesFewer
<1>11. ASSUME UNCHANGED vars
       PROVE  InputTypes'
  BY <1>11 DEF InputTypes, vars, own, network, ByteSeq
<1> QED
  BY <1>1, <1>2, <1>3, <1>4, <1>5, <1>6, <1>7, <1>8, <1>9, <1>10, <1>11 DEF Next, Callback
-----------------------------------------------------------------------------
\* Less than the largest frame is kept.
LEMMA BoundedStep == InputTypes /\ BufferBounded /\ [Next]_vars => BufferBounded'
<1> SUFFICES ASSUME InputTypes, BufferBounded, [Next]_vars PROVE BufferBounded'
  OBVIOUS
<1>1. ASSUME NEW c \in Conns, NEW buffers, AfterData(c, buffers),
             \A d \in DOMAIN buffers : Len(buffers[d]) < HeaderLength + jpegMaxBytes
      PROVE  BufferBounded'
  BY <1>1 DEF AfterData, cleanupInputConnection, Restricted, BufferBounded
<1>2. ASSUME NEW c \in Conns, acceptInput(c)
      PROVE  BufferBounded'
  BY <1>2 DEF acceptInput, BufferBounded
<1>3. ASSUME NEW c \in Conns, Failed(c)
      PROVE  BufferBounded'
  BY <1>3 DEF Failed, cleanupInputConnection, Restricted, BufferBounded
<1>4. ASSUME NEW c \in Conns, ReceiveEmpty(c)
      PROVE  BufferBounded'
  BY <1>1, <1>4 DEF ReceiveEmpty, BufferBounded
<1>5. ASSUME NEW c \in Conns, ConsumeEnds(c)
      PROVE  BufferBounded'
  <2>1. busy = c /\ Len(buffer) \in Nat /\ busy \in Conns
    BY <1>5 DEF InputTypes, ByteSeq, ConsumeEnds
  <2>2. Len(buffer) < HeaderLength + jpegMaxBytes
    <3>1. CASE Len(buffer) < HeaderLength
      BY <2>1, <3>1
    <3>2. CASE \E length \in Lengths(c) :
                  ~Refuses(length) /\ Len(buffer) < HeaderLength + length
      <4>1. PICK length \in Lengths(c) :
                  ~Refuses(length) /\ Len(buffer) < HeaderLength + length
        BY <3>2
      <4>2. length \in Nat
        BY <2>1, LengthType
      <4> QED
        BY <2>1, <4>1, <4>2 DEF Refuses
    <3> QED
      BY <1>5, <3>1, <3>2 DEF ConsumeEnds
  <2>3. PICK buffers : buffers = [d \in DOMAIN inputBuffers \cup {c} |->
                                      IF d = c THEN buffer ELSE inputBuffers[d]]
    OBVIOUS
  <2>4. \A d \in DOMAIN buffers : Len(buffers[d]) < HeaderLength + jpegMaxBytes
    BY <2>2, <2>3 DEF BufferBounded
  <2>5. AfterData(c, buffers)
    BY <1>5, <2>3 DEF ConsumeEnds
  <2> QED
    BY <1>1, <2>4, <2>5
<1>6. ASSUME inputBuffers' = inputBuffers
      PROVE  BufferBounded'
  BY <1>6 DEF BufferBounded
<1>7. ASSUME StopBlock
      PROVE  BufferBounded'
  BY <1>7 DEF StopBlock, stopNetworkComponents, stopInputListener, CancelInput, BufferBounded
<1> QED
  BY <1>2, <1>3, <1>4, <1>5, <1>6, <1>7
     DEF Next, Callback, receiveInput, ConsumeFrame, Offer, PeerEnds, Delivers, Start,
         QueueStop, own, vars

\* Whatever a producer sends and however the network cuts it, consumeInputData
\* leaves less than a header and the largest frame in a connection's buffer.
THEOREM BuffersStayBounded == Spec => []BufferBounded
<1>1. Init => InputTypes /\ BufferBounded
  <2>1. Init => BufferBounded
    BY DEF Init, BufferBounded
  <2> QED
    BY <2>1, TypesInit
<1>2. InputTypes /\ BufferBounded /\ [Next]_vars => (InputTypes /\ BufferBounded)'
  BY TypesStep, BoundedStep
<1> QED
  BY <1>1, <1>2, PTL DEF Spec
-----------------------------------------------------------------------------
\* Traces of a connection begin when it is accepted.
LEMMA UntouchedStep == InputTypes /\ Untouched /\ [Next]_vars => Untouched'
<1> SUFFICES ASSUME InputTypes, Untouched, [Next]_vars PROVE Untouched'
  OBVIOUS
<1>1. ASSUME NEW c \in Conns, NEW buffers, AfterData(c, buffers), answer[c] # NoAnswer,
             DOMAIN buffers \subseteq DOMAIN inputBuffers \cup {c},
             UNCHANGED <<passed, handled>>
      PROVE  Untouched'
  <2>1. link[c] \notin {"none", "offered"}
    BY <1>1 DEF Untouched
  <2>2. /\ DOMAIN inputBuffers' \subseteq DOMAIN inputBuffers \cup {c}
        /\ link' = link \/ link' = [link EXCEPT ![c] = "cancelled"]
        /\ receiving' \subseteq receiving \cup {c}
        /\ answer' = [answer EXCEPT ![c] = NoAnswer]
    BY <1>1 DEF AfterData, cleanupInputConnection, Restricted
  <2>3. \A d \in Conns : link'[d] \in {"none", "offered"} =>
                             d # c /\ link[d] \in {"none", "offered"}
    BY <2>1, <2>2 DEF InputTypes
  <2> QED
    BY <1>1, <2>2, <2>3 DEF Untouched, InputTypes
<1>2. ASSUME NEW c \in Conns, acceptInput(c)
      PROVE  Untouched'
  BY <1>2 DEF Untouched, InputTypes, acceptInput
<1>3. ASSUME NEW c \in Conns, Failed(c)
      PROVE  Untouched'
  BY <1>3 DEF Untouched, InputTypes, Failed, cleanupInputConnection, Restricted
<1>4. ASSUME NEW c \in Conns, receiveInput(c)
      PROVE  Untouched'
  BY <1>4 DEF Untouched, InputTypes, receiveInput, network
<1>5. ASSUME NEW c \in Conns, ReceiveEmpty(c)
      PROVE  Untouched'
  BY <1>1, <1>5 DEF ReceiveEmpty
<1>6. ASSUME NEW c \in Conns, ConsumeFrame(c)
      PROVE  Untouched'
  <2>1. link[c] \notin {"none", "offered"}
    BY <1>6 DEF Untouched, InputTypes, ConsumeFrame
  <2>2. \A d \in Conns \ {c} : handled'[d] = handled[d]
    BY <1>6 DEF InputTypes, ConsumeFrame
  <2>3. UNCHANGED <<inputBuffers, network>>
    BY <1>6 DEF ConsumeFrame
  <2> QED
    BY <2>1, <2>2, <2>3 DEF Untouched, network
<1>7. ASSUME NEW c \in Conns, ConsumeEnds(c)
      PROVE  Untouched'
  <2>1. PICK buffers : buffers = [d \in DOMAIN inputBuffers \cup {c} |->
                                      IF d = c THEN buffer ELSE inputBuffers[d]]
    OBVIOUS
  <2>2. AfterData(c, buffers) /\ UNCHANGED <<passed, handled>>
    BY <1>7, <2>1 DEF ConsumeEnds
  <2>3. answer[c] # NoAnswer /\ DOMAIN buffers \subseteq DOMAIN inputBuffers \cup {c}
    BY <1>7, <2>1 DEF ConsumeEnds, InputTypes
  <2> QED
    BY <1>1, <2>2, <2>3
<1>8. ASSUME NEW c \in Conns, Offer(c) \/ PeerEnds(c)
      PROVE  Untouched'
  BY <1>8 DEF Untouched, InputTypes, Offer, PeerEnds, own
<1>9. ASSUME NEW c \in Conns, Delivers(c)
      PROVE  Untouched'
  <2>1. c \in receiving /\ receiving' = receiving \ {c}
        /\ UNCHANGED <<link, handled, inputBuffers>>
    BY <1>9 DEF Delivers, own
  <2>2. \A d \in Conns \ {c} : passed'[d] = passed[d] /\ answer'[d] = answer[d]
    BY <1>9 DEF Delivers, InputTypes
  <2> QED
    BY <2>1, <2>2 DEF Untouched, InputTypes
<1>10. ASSUME StopBlock
       PROVE  Untouched'
  BY <1>10 DEF Untouched, InputTypes, StopBlock, stopNetworkComponents, stopInputListener,
               CancelInput
<1>11. ASSUME Start \/ QueueStop \/ UNCHANGED vars
       PROVE  Untouched'
  BY <1>11 DEF Untouched, Start, QueueStop, vars, own, network
<1> QED
  BY <1>2, <1>3, <1>4, <1>5, <1>6, <1>7, <1>8, <1>9, <1>10, <1>11 DEF Next, Callback
-----------------------------------------------------------------------------
\* What a step does not touch stays in order.
LEMMA OrderedStays ==
    ASSUME NEW d \in Conns, Ordered(d), stream' = stream, handled'[d] = handled[d],
           Arrived(d)' = Arrived(d), busy' = d <=> busy = d, busy = d => buffer' = buffer,
           d \in DOMAIN inputBuffers' =>
               d \in DOMAIN inputBuffers /\ inputBuffers'[d] = inputBuffers[d]
    PROVE  Ordered(d)'
<1>1. PICK a, lengths, taken : a = Arrived(d) /\ lengths = stream[d] /\ taken = handled[d]
  OBVIOUS
<1>2. Arrived(d)' = a /\ stream'[d] = lengths /\ handled'[d] = taken
  BY <1>1
<1>3. LET n    == Len(taken)
          kept == SubSeq(Bytes(lengths), BytesOf(lengths, n) + 1, a)
      IN  /\ n <= Len(lengths)
          /\ \A i \in 1 .. n : taken[i] = Payload(Frame(lengths, i))
          /\ BytesOf(lengths, n) <= a
          /\ busy = d => buffer = kept
          /\ busy # d /\ d \in DOMAIN inputBuffers =>
                /\ inputBuffers[d] = kept
                /\ n < Len(lengths) => a < BytesOf(lengths, n + 1)
  BY <1>1, Zenon DEF Ordered
<1>4. LET n    == Len(taken)
          kept == SubSeq(Bytes(lengths), BytesOf(lengths, n) + 1, a)
      IN  /\ n <= Len(lengths)
          /\ \A i \in 1 .. n : taken[i] = Payload(Frame(lengths, i))
          /\ BytesOf(lengths, n) <= a
          /\ busy' = d => buffer' = kept
          /\ busy' # d /\ d \in DOMAIN inputBuffers' =>
                /\ inputBuffers'[d] = kept
                /\ n < Len(lengths) => a < BytesOf(lengths, n + 1)
  BY <1>3
<1> QED
  BY <1>2, <1>4, Zenon DEF Ordered

\* The lengths at the boundary between what is taken and what is kept.
LEMMA OrderedNumbers ==
    ASSUME InputTypes, NEW c \in Conns, Ordered(c)
    PROVE  /\ stream[c] \in Seq(Nat) /\ Len(stream[c]) \in Nat
           /\ Len(handled[c]) \in 0 .. Len(stream[c])
           /\ BytesOf(stream[c], Len(handled[c])) \in Nat
           /\ Arrived(c) \in Nat /\ Arrived(c) <= passed[c]
           /\ passed[c] \in Nat /\ passed[c] <= Len(Bytes(stream[c]))
           /\ Len(Bytes(stream[c])) \in Nat
           /\ BytesOf(stream[c], Len(handled[c])) <= Arrived(c)
<1>1. stream[c] \in Seq(Nat) /\ Len(stream[c]) \in Nat /\ Len(handled[c]) \in Nat
  BY DEF InputTypes, ByteSeq
<1>2. Len(handled[c]) \in 0 .. Len(stream[c])
      /\ BytesOf(stream[c], Len(handled[c])) <= Arrived(c)
  BY <1>1 DEF Ordered
<1>3. BytesOf(stream[c], Len(handled[c])) \in Nat /\ Len(Bytes(stream[c])) \in Nat
  BY <1>1, <1>2, BytesOfGrow
<1>4. Arrived(c) \in Nat /\ Arrived(c) <= passed[c] /\ passed[c] \in Nat
      /\ passed[c] <= Len(Bytes(stream[c]))
  BY <1>3 DEF InputTypes, Arrived
<1> QED
  BY <1>1, <1>2, <1>3, <1>4

\* A new connection has everything before it.
LEMMA OrderedAccept ==
    ASSUME InputTypes, Untouched, NEW c \in Conns, acceptInput(c)
    PROVE  Ordered(c)'
<1>1. /\ stream' = stream /\ handled' = handled /\ busy' = NoConn /\ c # NoConn
      /\ inputBuffers'[c] = <<>> /\ handled[c] = <<>> /\ passed'[c] = 0
      /\ answer'[c] = NoAnswer
  BY DEF acceptInput, Untouched
<1>2. Arrived(c)' = 0
  BY <1>1 DEF Arrived, NoAnswer
<1>3. stream[c] \in Seq(Nat) /\ Len(<<>>) = 0
  BY DEF InputTypes
<1>4. PICK lengths : lengths = stream[c] /\ lengths \in Seq(Nat)
  BY <1>3
<1>5. BytesOf(lengths, 0) = 0
  BY <1>4, BytesOfGrow
<1>6. SubSeq(Bytes(lengths), 0 + 1, 0) = <<>>
  BY SubSeqEmpty
<1>7. 0 < Len(lengths) => 0 < BytesOf(lengths, 0 + 1)
  <2> SUFFICES ASSUME 0 < Len(lengths) PROVE 0 < BytesOf(lengths, 1)
    OBVIOUS
  <2>1. 1 \in 1 .. Len(lengths) /\ 1 - 1 = 0
    BY <1>4
  <2>2. BytesOf(lengths, 1) = BytesOf(lengths, 0) + HeaderLength + lengths[1]
    BY <1>4, <2>1, BytesOfGrow
  <2>3. lengths[1] \in Nat
    BY <1>4, <2>1
  <2> QED
    BY <1>5, <2>2, <2>3
<1>8. /\ 0 <= Len(lengths) /\ \A i \in 1 .. 0 : FALSE
  BY <1>4
<1>9. SubSeq(Bytes(lengths), BytesOf(lengths, 0) + 1, 0) = <<>> /\ BytesOf(lengths, 0) <= 0
  BY <1>5, <1>6
<1>10. /\ Len(handled'[c]) = 0 /\ stream'[c] = lengths /\ busy' # c
       /\ inputBuffers'[c] = <<>>
  BY <1>1, <1>3, <1>4
<1>11. \A i \in 1 .. Len(handled'[c]) : handled'[c][i] = Payload(Frame(lengths, i))
  BY <1>8, <1>10
<1>12. Len(handled'[c]) <= Len(lengths) /\ BytesOf(lengths, Len(handled'[c])) <= 0
  BY <1>8, <1>9, <1>10
<1>13. inputBuffers'[c] = SubSeq(Bytes(lengths), BytesOf(lengths, Len(handled'[c])) + 1, 0)
  BY <1>9, <1>10
<1>14. Len(handled'[c]) < Len(lengths) => 0 < BytesOf(lengths, Len(handled'[c]) + 1)
  BY <1>7, <1>10
<1>15. PICK taken, kept, a : taken = handled'[c] /\ kept = inputBuffers'[c] /\ a = 0
  OBVIOUS
<1>16. LET n    == Len(taken)
           rest == SubSeq(Bytes(lengths), BytesOf(lengths, n) + 1, a)
       IN  /\ n <= Len(lengths)
           /\ \A i \in 1 .. n : taken[i] = Payload(Frame(lengths, i))
           /\ BytesOf(lengths, n) <= a
           /\ busy' = c => buffer' = rest
           /\ busy' # c /\ c \in DOMAIN inputBuffers' =>
                 /\ kept = rest
                 /\ n < Len(lengths) => a < BytesOf(lengths, n + 1)
  BY <1>10, <1>11, <1>12, <1>13, <1>14, <1>15
<1>17. Arrived(c)' = a
  BY <1>2, <1>15
<1> QED
  BY <1>10, <1>15, <1>16, <1>17, Zenon DEF Ordered

\* New bytes go behind those kept.
LEMMA OrderedReceive ==
    ASSUME InputTypes, NEW c \in Conns, Ordered(c), receiveInput(c),
           c \in inputConnections \/ service = "simulator"
    PROVE  Ordered(c)'
<1>1. /\ busy = NoConn /\ c # NoConn /\ c \in DOMAIN inputBuffers
      /\ busy' = c /\ UNCHANGED <<stream, handled, passed>>
  BY DEF receiveInput, Begins, network, InputTypes
<1>2. PICK lengths, taken, p, a, b, k :
         /\ lengths = stream[c] /\ taken = handled[c] /\ p = passed[c] /\ a = Arrived(c)
         /\ b = Bytes(stream[c]) /\ k = BytesOf(stream[c], Len(handled[c]))
         /\ p \in Nat /\ a \in Nat /\ k \in Nat
  BY OrderedNumbers
<1>3. /\ a = p - answer[c].bytes /\ a <= p /\ p <= Len(b) /\ k <= a /\ Len(b) \in Nat
  BY <1>1, <1>2, OrderedNumbers DEF Arrived
<1>4. inputBuffers[c] = SubSeq(b, k + 1, a) /\ Len(taken) <= Len(lengths)
      /\ \A i \in 1 .. Len(taken) : taken[i] = Payload(Frame(lengths, i))
  BY <1>1, <1>2, Zenon DEF Ordered
<1>5. buffer' = SubSeq(b, k + 1, a) \o SubSeq(b, a + 1, p)
  BY <1>1, <1>2, <1>3, <1>4 DEF receiveInput
<1>6. SubSeq(b, k + 1, a) \o SubSeq(b, a + 1, p) = SubSeq(b, k + 1, p)
  <2>1. PICK S : b \in Seq(S)
    <3>1. stream[c] \in Seq(Nat)
      BY DEF InputTypes
    <3>2. Bytes(stream[c]) \in Seq(ByteOf(stream[c]))
      BY <3>1, BytesOfGrow
    <3> QED
      BY <1>2, <3>2, Zenon
  <2>2. k + 1 \in 1 .. Len(b) + 1 /\ a \in (k + 1) - 1 .. Len(b) /\ p \in a .. Len(b)
    BY <1>2, <1>3
  <2> QED
    BY <2>1, <2>2, ConcatAdjacentSubSeq
<1>7. Arrived(c)' = p /\ stream'[c] = lengths /\ handled'[c] = taken
  BY <1>1, <1>2 DEF Arrived
<1>8. k <= p
  BY <1>2, <1>3
<1>9. buffer' = SubSeq(b, k + 1, p)
  BY <1>5, <1>6
<1>10. LET n    == Len(taken)
           rest == SubSeq(Bytes(lengths), BytesOf(lengths, n) + 1, p)
       IN  /\ n <= Len(lengths)
           /\ \A i \in 1 .. n : taken[i] = Payload(Frame(lengths, i))
           /\ BytesOf(lengths, n) <= p
           /\ busy' = c => buffer' = rest
           /\ busy' # c /\ c \in DOMAIN inputBuffers' =>
                 /\ inputBuffers'[c] = rest
                 /\ n < Len(lengths) => p < BytesOf(lengths, n + 1)
  BY <1>1, <1>2, <1>4, <1>8, <1>9
<1> QED
  BY <1>7, <1>10, Zenon DEF Ordered
-----------------------------------------------------------------------------
\* When data of a removed connection is given up, or there is none, nothing is out
\* of order.
LEMMA OrderedEmpty ==
    ASSUME InputTypes, NEW c \in Conns, Ordered(c), ReceiveEmpty(c),
           c \in inputConnections \/ service = "simulator"
    PROVE  Ordered(c)'
<1>1. /\ busy = NoConn /\ busy' = NoConn /\ c # NoConn /\ UNCHANGED <<stream, handled, passed>>
      /\ answer'[c] = NoAnswer /\ AfterData(c, inputBuffers) /\ DOMAIN answer = Conns
  BY DEF ReceiveEmpty, AfterData, InputTypes
<1>2. Arrived(c)' = passed[c] - 0 /\ Arrived(c) = passed[c] - answer[c].bytes
      /\ answer[c].bytes \in Nat
  BY <1>1 DEF Arrived, NoAnswer, InputTypes
<1>3. Arrived(c) \in Nat /\ passed[c] \in Nat /\ Arrived(c) <= passed[c]
      /\ BytesOf(stream[c], Len(handled[c])) \in Nat
      /\ BytesOf(stream[c], Len(handled[c])) <= Arrived(c)
  BY OrderedNumbers
<1>4. c \in DOMAIN inputBuffers' =>
          c \in DOMAIN inputBuffers /\ inputBuffers'[c] = inputBuffers[c]
  BY <1>1 DEF AfterData, cleanupInputConnection, Restricted
<1>5. CASE answer[c].bytes = 0
  <2>1. Arrived(c)' = Arrived(c)
    BY <1>2, <1>3, <1>5
  <2> QED
    BY <1>1, <1>4, <2>1, OrderedStays
<1>6. CASE answer[c].bytes # 0
  <2>1. c \notin DOMAIN inputBuffers'
    BY <1>2, <1>4, <1>6 DEF ReceiveEmpty, Begins
  <2>2. PICK a, lengths, taken : a = passed[c] /\ lengths = stream[c] /\ taken = handled[c]
    OBVIOUS
  <2>3. Arrived(c)' = a /\ stream'[c] = lengths /\ handled'[c] = taken
    BY <1>1, <1>2, <1>3, <2>2
  <2>4. BytesOf(lengths, Len(taken)) <= a
    BY <1>3, <2>2
  <2>5. /\ Len(taken) <= Len(lengths)
        /\ \A i \in 1 .. Len(taken) : taken[i] = Payload(Frame(lengths, i))
    BY <2>2, Zenon DEF Ordered
  <2>6. busy' # c
    BY <1>1
  <2> QED
    BY <2>1, <2>3, <2>4, <2>5, <2>6, Zenon DEF Ordered
<1> QED
  BY <1>5, <1>6

\* What the head of the buffer says.
LEMMA HeadOfBuffer ==
    ASSUME InputTypes, NEW c \in Conns, Ordered(c), busy = c
    PROVE  LET n == Len(handled[c])
               end == HeaderLength + stream[c][n + 1]
           IN  /\ Len(buffer) \in Nat
               /\ n \in Nat
               /\ n = Len(stream[c]) => Len(buffer) = 0 /\ Lengths(c) = {}
               /\ n # Len(stream[c]) =>
                     /\ n \in 0 .. Len(stream[c]) - 1
                     /\ Len(buffer) = passed[c] - BytesOf(stream[c], n)
                     /\ end \in Nat /\ end >= HeaderLength
                     /\ BytesOf(stream[c], n + 1) = BytesOf(stream[c], n) + end
                     /\ \A length \in Lengths(c) : length = stream[c][n + 1]
                     /\ Len(buffer) >= end =>
                           /\ SubSeq(buffer, 1, end) = Frame(stream[c], n + 1)
                           /\ SubSeq(buffer, end + 1, Len(buffer)) =
                                  SubSeq(Bytes(stream[c]), BytesOf(stream[c], n + 1) + 1,
                                         passed[c])
                           /\ BytesOf(stream[c], n + 1) <= passed[c]
<1>1. PICK lengths, n, p :
         /\ lengths = stream[c] /\ n = Len(handled[c]) /\ p = passed[c]
         /\ lengths \in Seq(Nat) /\ Len(lengths) \in Nat /\ n \in 0 .. Len(lengths)
         /\ p \in Nat
  BY OrderedNumbers
<1>2. /\ buffer = SubSeq(Bytes(lengths), BytesOf(lengths, n) + 1, p)
      /\ Len(buffer) \in Nat /\ BytesOf(lengths, n) \in Nat
      /\ BytesOf(lengths, n) <= p /\ p <= Len(Bytes(lengths))
  <2>1. Arrived(c) = p
    BY <1>1 DEF Arrived
  <2>2. buffer = SubSeq(Bytes(lengths), BytesOf(lengths, n) + 1, p)
    BY <1>1, <2>1, Zenon DEF Ordered
  <2>3. Len(buffer) \in Nat
    BY DEF InputTypes, ByteSeq
  <2> QED
    BY <1>1, <2>1, <2>2, <2>3, OrderedNumbers
<1>3. ASSUME n = Len(lengths)
      PROVE  Len(buffer) = 0 /\ Lengths(c) = {}
  <2>1. BytesOf(lengths, n) = Len(Bytes(lengths))
    BY <1>1, <1>3, BytesOfGrow
  <2>2. p < BytesOf(lengths, n) + 1 /\ BytesOf(lengths, n) + 1 \in Int /\ p \in Int
    BY <1>1, <1>2, <2>1
  <2>3. buffer = <<>>
    BY <1>2, <2>2, SubSeqEmpty
  <2>4. Len(buffer) < HeaderLength /\ Len(buffer) = 0
    BY <2>3
  <2> QED
    BY <2>4 DEF Lengths
<1>4. ASSUME n # Len(lengths)
      PROVE  LET end == HeaderLength + lengths[n + 1]
             IN  /\ n \in 0 .. Len(lengths) - 1
                 /\ Len(buffer) = p - BytesOf(lengths, n)
                 /\ end \in Nat /\ end >= HeaderLength
                 /\ BytesOf(lengths, n + 1) = BytesOf(lengths, n) + end
                 /\ \A length \in Lengths(c) : length = lengths[n + 1]
                 /\ Len(buffer) >= end =>
                       /\ SubSeq(buffer, 1, end) = Frame(lengths, n + 1)
                       /\ SubSeq(buffer, end + 1, Len(buffer)) =
                              SubSeq(Bytes(lengths), BytesOf(lengths, n + 1) + 1, p)
                       /\ BytesOf(lengths, n + 1) <= p
  <2>1. n \in 0 .. Len(lengths) - 1
    BY <1>1, <1>4
  <2>2. LET kept == SubSeq(Bytes(lengths), BytesOf(lengths, n) + 1, p)
            end  == HeaderLength + lengths[n + 1]
        IN  /\ Len(kept) = p - BytesOf(lengths, n)
            /\ end \in Nat /\ end >= HeaderLength
            /\ BytesOf(lengths, n + 1) = BytesOf(lengths, n) + end
            /\ Len(kept) >= HeaderLength => kept[1] = [frame |-> n + 1, at |-> 1]
            /\ Len(kept) >= end =>
                  /\ SubSeq(kept, 1, end) = Frame(lengths, n + 1)
                  /\ SubSeq(kept, end + 1, Len(kept)) =
                         SubSeq(Bytes(lengths), BytesOf(lengths, n + 1) + 1, p)
                  /\ BytesOf(lengths, n + 1) <= p
    <3>1. /\ lengths \in Seq(Nat) /\ n \in 0 .. Len(lengths) - 1 /\ p \in Nat
          /\ BytesOf(lengths, n) <= p /\ p <= Len(Bytes(lengths))
      BY <1>1, <1>2, <2>1
    <3> QED
      BY <3>1, NextFrame, Zenon
  <2>3. LET end == HeaderLength + lengths[n + 1]
        IN  /\ Len(buffer) = p - BytesOf(lengths, n)
            /\ end \in Nat /\ end >= HeaderLength
            /\ BytesOf(lengths, n + 1) = BytesOf(lengths, n) + end
            /\ Len(buffer) >= HeaderLength => buffer[1] = [frame |-> n + 1, at |-> 1]
            /\ Len(buffer) >= end =>
                  /\ SubSeq(buffer, 1, end) = Frame(lengths, n + 1)
                  /\ SubSeq(buffer, end + 1, Len(buffer)) =
                         SubSeq(Bytes(lengths), BytesOf(lengths, n + 1) + 1, p)
                  /\ BytesOf(lengths, n + 1) <= p
    BY <1>2, <2>2, Zenon
  <2>4. \A length \in Lengths(c) : length = lengths[n + 1]
    <3>0. Len(buffer) \in Nat
      BY <1>2
    <3>1. CASE Len(buffer) < HeaderLength
      <4>1. Lengths(c) = {}
        BY <3>0, <3>1 DEF Lengths
      <4> QED
        BY <4>1
    <3>2. CASE Len(buffer) >= HeaderLength
      <4>1. buffer[1] = [frame |-> n + 1, at |-> 1]
        BY <2>3, <3>2
      <4>2. buffer[1].at = 1 /\ buffer[1].frame = n + 1
        BY <4>1
      <4>3. Lengths(c) = {stream[c][buffer[1].frame]}
        BY <3>0, <3>2, <4>2 DEF Lengths
      <4> QED
        BY <1>1, <4>2, <4>3
    <3> QED
      BY <3>0, <3>1, <3>2
  <2> QED
    BY <2>1, <2>3, <2>4, Zenon
<1>5. n \in Nat
  BY <1>1
<1> QED
  BY <1>1, <1>2, <1>3, <1>4, <1>5, Zenon
-----------------------------------------------------------------------------
\* A frame is taken whole, and the next one is at the head.
LEMMA OrderedConsume ==
    ASSUME InputTypes, NEW c \in Conns, Ordered(c), ConsumeFrame(c), c \notin refused'
    PROVE  Ordered(c)'
<1>1. PICK lengths, n, p, end :
         /\ lengths = stream[c] /\ n = Len(handled[c]) /\ p = passed[c]
         /\ end = HeaderLength + lengths[n + 1]
  OBVIOUS
<1>2. busy = c /\ UNCHANGED <<stream, passed, busy, answer, inputBuffers>>
  BY DEF ConsumeFrame, network
<1>3. /\ Len(buffer) \in Nat /\ n \in Nat
      /\ n = Len(lengths) => Len(buffer) = 0 /\ Lengths(c) = {}
      /\ n # Len(lengths) =>
            /\ n \in 0 .. Len(lengths) - 1
            /\ \A length \in Lengths(c) : length = lengths[n + 1]
            /\ Len(buffer) >= end =>
                  /\ SubSeq(buffer, 1, end) = Frame(lengths, n + 1)
                  /\ SubSeq(buffer, end + 1, Len(buffer)) =
                         SubSeq(Bytes(lengths), BytesOf(lengths, n + 1) + 1, p)
                  /\ BytesOf(lengths, n + 1) <= p
  BY <1>1, <1>2, HeadOfBuffer, Zenon
<1>4. PICK length \in Lengths(c) :
         /\ Len(buffer) >= HeaderLength + length
         /\ handled' = [handled EXCEPT ![c] =
                Append(@, Payload(SubSeq(buffer, 1, HeaderLength + length)))]
         /\ buffer' = SubSeq(buffer, HeaderLength + length + 1, Len(buffer))
  <2>1. c \notin refused
    BY DEF ConsumeFrame
  <2> QED
    BY <2>1 DEF ConsumeFrame
<1>5. n # Len(lengths) /\ HeaderLength + length = end
  BY <1>1, <1>3, <1>4
<1>6. /\ handled' = [handled EXCEPT ![c] = Append(@, Payload(Frame(lengths, n + 1)))]
      /\ buffer' = SubSeq(Bytes(lengths), BytesOf(lengths, n + 1) + 1, p)
      /\ BytesOf(lengths, n + 1) <= p /\ n \in 0 .. Len(lengths) - 1
  BY <1>3, <1>4, <1>5
<1>7. PICK taken, x : taken = handled[c] /\ x = Payload(Frame(lengths, n + 1))
  OBVIOUS
<1>8. handled'[c] = Append(taken, x)
  BY <1>6, <1>7 DEF InputTypes
<1>9. n = Len(taken) /\ \A i \in 1 .. n : taken[i] = Payload(Frame(lengths, i))
  BY <1>1, <1>7, Zenon DEF Ordered
<1>10. PICK more : /\ more = Append(taken, x) /\ Len(more) = n + 1
                   /\ \A i \in 1 .. n : more[i] = taken[i]
                   /\ more[n + 1] = x
  <2>1. PICK S : taken \in Seq(S)
    BY <1>7 DEF InputTypes
  <2>2. taken \in Seq(S \cup {x})
    BY <2>1, SeqMonotonic
  <2>3. PICK U : U = S \cup {x} /\ taken \in Seq(U) /\ x \in U
    BY <2>2
  <2>4. Len(taken) = n /\ n \in Nat
    BY <1>3, <1>9
  <2> QED
    <3>1. /\ Len(Append(taken, x)) = Len(taken) + 1
          /\ \A i \in 1 .. Len(taken) : Append(taken, x)[i] = taken[i]
          /\ Append(taken, x)[Len(taken) + 1] = x
      BY <2>3, AppendProperties
    <3> QED
      BY <2>4, <3>1, Zenon
<1>11. \A i \in 1 .. n + 1 : more[i] = Payload(Frame(lengths, i))
  BY <1>3, <1>7, <1>9, <1>10
<1>12. Arrived(c)' = p /\ stream'[c] = lengths /\ handled'[c] = more /\ n + 1 <= Len(lengths)
  <2>1. n + 1 <= Len(lengths)
    BY <1>1, <1>6, OrderedNumbers
  <2> QED
    BY <1>1, <1>2, <1>8, <1>10, <2>1 DEF Arrived
<1>13. LET m    == Len(more)
           rest == SubSeq(Bytes(lengths), BytesOf(lengths, m) + 1, p)
       IN  /\ m <= Len(lengths)
           /\ \A i \in 1 .. m : more[i] = Payload(Frame(lengths, i))
           /\ BytesOf(lengths, m) <= p
           /\ busy' = c => buffer' = rest
           /\ busy' # c /\ c \in DOMAIN inputBuffers' =>
                 /\ inputBuffers'[c] = rest
                 /\ m < Len(lengths) => p < BytesOf(lengths, m + 1)
  BY <1>2, <1>6, <1>10, <1>11, <1>12, Zenon
<1> QED
  BY <1>12, <1>13, Zenon DEF Ordered

\* The loop ends before a frame that is not whole.
LEMMA OrderedEnds ==
    ASSUME InputTypes, NEW c \in Conns, Ordered(c), ConsumeEnds(c)
    PROVE  Ordered(c)'
<1>1. PICK lengths, n, p, end, taken :
         /\ lengths = stream[c] /\ taken = handled[c] /\ n = Len(handled[c])
         /\ p = passed[c] /\ end = HeaderLength + lengths[n + 1]
  OBVIOUS
<1>2. /\ busy = c /\ busy' = NoConn /\ c # NoConn
      /\ UNCHANGED <<stream, passed, handled>> /\ answer'[c] = NoAnswer
      /\ c \in DOMAIN inputBuffers' => inputBuffers'[c] = buffer
  BY DEF ConsumeEnds, AfterData, cleanupInputConnection, Restricted, InputTypes
<1>3. /\ Len(buffer) \in Nat /\ n \in Nat
      /\ n # Len(lengths) =>
            /\ n \in 0 .. Len(lengths) - 1
            /\ Len(buffer) = p - BytesOf(lengths, n)
            /\ end \in Nat /\ end >= HeaderLength
            /\ BytesOf(lengths, n + 1) = BytesOf(lengths, n) + end
            /\ \A length \in Lengths(c) : length = lengths[n + 1]
  BY <1>1, <1>2, HeadOfBuffer, Zenon
<1>4. /\ p \in Nat /\ BytesOf(lengths, n) \in Nat /\ BytesOf(lengths, n) <= p
      /\ n <= Len(lengths) /\ Arrived(c) = p /\ Len(lengths) \in Nat
  <2>1. Arrived(c) = p
    BY <1>1, <1>2 DEF Arrived
  <2> QED
    BY <1>1, <2>1, OrderedNumbers
<1>5. n < Len(lengths) => p < BytesOf(lengths, n + 1)
  <2> SUFFICES ASSUME n < Len(lengths) PROVE p < BytesOf(lengths, n + 1)
    OBVIOUS
  <2>1. n # Len(lengths)
    BY <1>3, <1>4
  <2>2. Len(buffer) < end
    <3>1. CASE Len(buffer) < HeaderLength
      BY <1>3, <2>1, <3>1
    <3>2. CASE \E length \in Lengths(c) :
                  ~Refuses(length) /\ Len(buffer) < HeaderLength + length
      <4>1. PICK length \in Lengths(c) : Len(buffer) < HeaderLength + length
        BY <3>2
      <4>2. length = lengths[n + 1]
        BY <1>3, <2>1, <4>1
      <4> QED
        BY <1>1, <4>1, <4>2
    <3> QED
      BY <3>1, <3>2 DEF ConsumeEnds
  <2>3. PICK k \in Nat : k = BytesOf(lengths, n)
    BY <1>4
  <2>4. Len(buffer) = p - k /\ BytesOf(lengths, n + 1) = k + end /\ end \in Nat
    BY <1>3, <2>1, <2>3
  <2>5. p < k + end
    <3>1. p - k < end
      BY <2>2, <2>4
    <3> QED
      BY <1>4, <2>3, <2>4, <3>1
  <2> QED
    BY <2>4, <2>5
<1>6. Arrived(c)' = p /\ stream'[c] = lengths /\ handled'[c] = taken
  BY <1>1, <1>2, <1>4 DEF Arrived, NoAnswer
<1>7. buffer = SubSeq(Bytes(lengths), BytesOf(lengths, n) + 1, p)
      /\ \A i \in 1 .. n : taken[i] = Payload(Frame(lengths, i))
  BY <1>1, <1>2, <1>4, Zenon DEF Ordered
<1>8. LET m    == Len(taken)
          rest == SubSeq(Bytes(lengths), BytesOf(lengths, m) + 1, p)
      IN  /\ m <= Len(lengths)
          /\ \A i \in 1 .. m : taken[i] = Payload(Frame(lengths, i))
          /\ BytesOf(lengths, m) <= p
          /\ busy' = c => buffer' = rest
          /\ busy' # c /\ c \in DOMAIN inputBuffers' =>
                /\ inputBuffers'[c] = rest
                /\ m < Len(lengths) => p < BytesOf(lengths, m + 1)
  <2>1. n = Len(taken) /\ busy' # c
    BY <1>1, <1>2
  <2> QED
    BY <1>2, <1>4, <1>5, <1>7, <2>1, Zenon
<1> QED
  BY <1>6, <1>8, Zenon DEF Ordered
-----------------------------------------------------------------------------
\* Bytes on their way are not yet there.
LEMMA OrderedDelivers ==
    ASSUME InputTypes, Untouched, NEW c \in Conns, Ordered(c), Delivers(c)
    PROVE  Ordered(c)'
<1>1. answer[c] = NoAnswer /\ busy # c
  <2>1. answer[c] = NoAnswer
    BY DEF Untouched, Delivers
  <2> QED
    BY <2>1 DEF InputTypes
<1>2. UNCHANGED <<own, stream>>
  BY DEF Delivers
<1>3. PICK n \in 0 .. Len(Bytes(stream[c])) - passed[c], then \in {"more", "complete", "error"} :
          /\ answer' = [answer EXCEPT ![c] = [bytes |-> n, then |-> then]]
          /\ passed' = [passed EXCEPT ![c] = @ + n]
  BY DEF Delivers
<1>4. passed[c] \in Nat /\ n \in Nat
  BY <1>3, OrderedNumbers
<1>5. Arrived(c) = passed[c] - 0
  BY <1>1 DEF Arrived, NoAnswer
<1>6. Arrived(c)' = (passed[c] + n) - n
  BY <1>1, <1>2, <1>3 DEF Arrived, InputTypes, own
<1>7. Arrived(c)' = Arrived(c)
  BY <1>4, <1>5, <1>6
<1> QED
  BY <1>2, <1>7, OrderedStays DEF own

\* Every step keeps what is kept of the streams in order.
LEMMA OrderStep == InputTypes /\ Untouched /\ InOrder /\ [Next]_vars => InOrder'
<1> SUFFICES ASSUME InputTypes, Untouched, InOrder, [Next]_vars,
                    NEW d \in Conns, d \notin refused',
                    d \in inputConnections' \/ service' = "simulator"
             PROVE  Ordered(d)'
  BY DEF InOrder
<1>1. ASSUME d \notin refused, d \in inputConnections \/ service = "simulator"
      PROVE  Ordered(d)
  BY <1>1 DEF InOrder
<1>2. d # NoConn
  OBVIOUS
<1>3. ASSUME NEW c \in Conns, acceptInput(c)
      PROVE  Ordered(d)'
  <2>1. CASE d = c
    BY <1>3, <2>1, OrderedAccept
  <2>2. CASE d # c
    <3>1. Ordered(d)
      BY <1>1, <1>3, <2>2 DEF acceptInput
    <3>2. Arrived(d)' = Arrived(d)
      BY <1>3 DEF acceptInput, Arrived
    <3> QED
      BY <1>3, <2>2, <3>1, <3>2, OrderedStays DEF acceptInput
  <2> QED
    BY <2>1, <2>2
<1>4. ASSUME NEW c \in Conns, Failed(c)
      PROVE  Ordered(d)'
  <2>1. Ordered(d)
    BY <1>1, <1>4 DEF Failed, cleanupInputConnection
  <2>2. Arrived(d)' = Arrived(d)
    BY <1>4 DEF Failed, Arrived
  <2> QED
    BY <1>4, <2>1, <2>2, OrderedStays DEF Failed, cleanupInputConnection, Restricted
<1>5. ASSUME NEW c \in Conns, receiveInput(c)
      PROVE  Ordered(d)'
  <2>1. Ordered(d)
    BY <1>1, <1>5 DEF receiveInput
  <2>2. CASE d = c
    <3>1. c \in inputConnections \/ service = "simulator"
      BY <1>5, <2>2 DEF receiveInput
    <3> QED
      BY <1>5, <2>1, <2>2, <3>1, OrderedReceive
  <2>3. CASE d # c
    <3>1. Arrived(d)' = Arrived(d)
      BY <1>2, <1>5, <2>3 DEF receiveInput, Arrived, network
    <3> QED
      BY <1>2, <1>5, <2>1, <2>3, <3>1, OrderedStays DEF receiveInput, network
  <2> QED
    BY <2>2, <2>3
<1>6. ASSUME NEW c \in Conns, ReceiveEmpty(c)
      PROVE  Ordered(d)'
  <2>1. inputConnections' \subseteq inputConnections /\ service' = service
        /\ refused' = refused
    BY <1>6 DEF ReceiveEmpty, AfterData, cleanupInputConnection
  <2>2. Ordered(d) /\ (d \in inputConnections \/ service = "simulator")
    BY <1>1, <2>1
  <2>3. CASE d = c
    BY <1>6, <2>2, <2>3, OrderedEmpty
  <2>4. CASE d # c
    <3>1. answer'[d] = answer[d]
      BY <1>6, <2>4 DEF ReceiveEmpty, AfterData, InputTypes
    <3>2. Arrived(d)' = Arrived(d)
      BY <1>6, <3>1 DEF ReceiveEmpty, Arrived
    <3>3. d \in DOMAIN inputBuffers' =>
              d \in DOMAIN inputBuffers /\ inputBuffers'[d] = inputBuffers[d]
      BY <1>6 DEF ReceiveEmpty, AfterData, cleanupInputConnection, Restricted
    <3> QED
      BY <1>6, <2>2, <3>2, <3>3, OrderedStays DEF ReceiveEmpty
  <2> QED
    BY <2>3, <2>4
<1>7. ASSUME NEW c \in Conns, ConsumeFrame(c)
      PROVE  Ordered(d)'
  <2>1. d \notin refused /\ UNCHANGED <<inputConnections, service>>
    BY <1>7 DEF ConsumeFrame
  <2>2. Ordered(d)
    BY <1>1, <2>1
  <2>3. CASE d = c
    BY <1>7, <2>2, <2>3, OrderedConsume
  <2>4. CASE d # c
    <3>1. handled'[d] = handled[d] /\ busy = c
          /\ UNCHANGED <<stream, passed, answer, busy, inputBuffers>>
      BY <1>7, <2>4 DEF ConsumeFrame, InputTypes, network
    <3>2. Arrived(d)' = Arrived(d)
      BY <3>1 DEF Arrived
    <3> QED
      BY <2>2, <2>4, <3>1, <3>2, OrderedStays
  <2> QED
    BY <2>3, <2>4
<1>8. ASSUME NEW c \in Conns, ConsumeEnds(c)
      PROVE  Ordered(d)'
  <2>1. inputConnections' \subseteq inputConnections /\ service' = service
        /\ refused' = refused
    BY <1>8 DEF ConsumeEnds, AfterData, cleanupInputConnection
  <2>2. Ordered(d)
    BY <1>1, <2>1
  <2>3. CASE d = c
    BY <1>8, <2>2, <2>3, OrderedEnds
  <2>4. CASE d # c
    <3>1. answer'[d] = answer[d] /\ busy = c /\ busy' = NoConn
          /\ UNCHANGED <<stream, passed, handled>>
      BY <1>8, <2>4 DEF ConsumeEnds, AfterData, InputTypes
    <3>2. Arrived(d)' = Arrived(d)
      BY <1>2, <2>4, <3>1 DEF Arrived
    <3>3. d \in DOMAIN inputBuffers' =>
              d \in DOMAIN inputBuffers /\ inputBuffers'[d] = inputBuffers[d]
      <4>1. PICK buffers : buffers = [e \in DOMAIN inputBuffers \cup {c} |->
                                          IF e = c THEN buffer ELSE inputBuffers[e]]
        OBVIOUS
      <4>2. AfterData(c, buffers)
        BY <1>8, <4>1 DEF ConsumeEnds
      <4>3. d \in DOMAIN inputBuffers' => d \in DOMAIN buffers /\ inputBuffers'[d] = buffers[d]
        BY <4>2 DEF AfterData, cleanupInputConnection, Restricted
      <4> QED
        BY <2>4, <4>1, <4>3
    <3>4. stream' = stream /\ handled'[d] = handled[d] /\ (busy' = d <=> busy = d)
          /\ (busy = d => buffer' = buffer)
      BY <1>2, <2>4, <3>1
    <3> QED
      BY <2>2, <3>2, <3>3, <3>4, OrderedStays
  <2> QED
    BY <2>3, <2>4
<1>9. ASSUME NEW c \in Conns, Offer(c) \/ PeerEnds(c)
      PROVE  Ordered(d)'
  <2>1. UNCHANGED <<service, own, stream, passed, answer>>
    BY <1>9 DEF Offer, PeerEnds
  <2>2. Ordered(d)
    BY <1>1, <2>1 DEF own
  <2>3. Arrived(d)' = Arrived(d)
    BY <2>1 DEF Arrived, own
  <2> QED
    BY <2>1, <2>2, <2>3, OrderedStays DEF own
<1>10. ASSUME NEW c \in Conns, Delivers(c)
       PROVE  Ordered(d)'
  <2>1. UNCHANGED <<service, own, stream>>
    BY <1>10 DEF Delivers
  <2>2. Ordered(d)
    BY <1>1, <2>1 DEF own
  <2>3. CASE d = c
    BY <1>10, <2>2, <2>3, OrderedDelivers
  <2>4. CASE d # c
    <3>1. answer'[d] = answer[d] /\ passed'[d] = passed[d]
      BY <1>10, <2>4 DEF Delivers, InputTypes
    <3>2. Arrived(d)' = Arrived(d)
      BY <2>1, <3>1 DEF Arrived, own
    <3> QED
      BY <2>1, <2>2, <3>2, OrderedStays DEF own
  <2> QED
    BY <2>3, <2>4
<1>11. ASSUME Start \/ QueueStop \/ UNCHANGED vars
       PROVE  Ordered(d)'
  <2>1. UNCHANGED <<service, own, network>>
    BY <1>11 DEF Start, QueueStop, vars
  <2>2. Ordered(d)
    BY <1>1, <2>1 DEF own
  <2>3. Arrived(d)' = Arrived(d)
    BY <2>1 DEF Arrived, own, network
  <2> QED
    BY <2>1, <2>2, <2>3, OrderedStays DEF own, network
<1>12. ASSUME StopBlock
       PROVE  Ordered(d)'
  <2>1. /\ UNCHANGED <<service, busy, buffer, handled, refused, stream, passed, answer>>
        /\ inputConnections' = {} /\ inputBuffers' = [c \in {} |-> <<>>]
    BY <1>12 DEF StopBlock, stopNetworkComponents, stopInputListener, CancelInput
  <2>2. Ordered(d)
    BY <1>1, <2>1
  <2>3. Arrived(d)' = Arrived(d)
    BY <2>1 DEF Arrived
  <2> QED
    BY <2>1, <2>2, <2>3, OrderedStays
<1> QED
  BY <1>3, <1>4, <1>5, <1>6, <1>7, <1>8, <1>9, <1>10, <1>11, <1>12 DEF Next, Callback

\* Before the first connection everything is in order.
LEMMA OrderInit == Init => Untouched /\ InOrder
<1> SUFFICES ASSUME Init PROVE Untouched /\ InOrder
  OBVIOUS
<1>1. Untouched
  BY DEF Init, Untouched
<1>2. ASSUME NEW c \in Conns
      PROVE  Ordered(c)
  <2>1. InputTypes
    BY TypesInit
  <2>2. /\ busy # c /\ c \notin DOMAIN inputBuffers /\ passed[c] = 0 /\ answer[c] = NoAnswer
        /\ handled[c] = <<>>
    BY DEF Init
  <2>3. Arrived(c) = 0
    BY <2>2 DEF Arrived, NoAnswer
  <2>4. PICK n : n = Len(handled[c]) /\ n = 0
    BY <2>2
  <2>5. stream[c] \in Seq(Nat)
    BY <2>1 DEF InputTypes
  <2>6. n <= Len(stream[c]) /\ BytesOf(stream[c], n) <= 0
    BY <2>4, <2>5, BytesOfGrow
  <2>7. \A i \in 1 .. n : handled[c][i] = Payload(Frame(stream[c], i))
    BY <2>4
  <2> QED
    BY <2>2, <2>3, <2>4, <2>6, <2>7, Zenon DEF Ordered
<1> QED
  BY <1>1, <1>2 DEF InOrder

\* What is in order came as it was sent.
LEMMA OrderedFrames == InputTypes /\ InOrder => FramesAsSent
<1> SUFFICES ASSUME InputTypes, InOrder, NEW c \in Conns \ refused,
                    c \in inputConnections \/ service = "simulator"
             PROVE  LET n == Len(handled[c])
                    IN  /\ n <= Len(stream[c])
                        /\ \A i \in 1 .. n : handled[c][i] = Payload(Frame(stream[c], i))
                        /\ c \in inputConnections /\ busy # c /\ n < Len(stream[c]) =>
                               passed[c] - answer[c].bytes < BytesOf(stream[c], n + 1)
  BY DEF FramesAsSent
<1>1. Ordered(c)
  BY DEF InOrder
<1>2. c \in inputConnections => c \in DOMAIN inputBuffers
  BY DEF InputTypes
<1>3. busy # c => Arrived(c) = passed[c] - answer[c].bytes
  BY DEF Arrived
<1> QED
  BY <1>1, <1>2, <1>3, Zenon DEF Ordered

\* However the network cuts a stream into receives, consumeInputData takes from it
\* the frames its producer sent, in their order, and leaves no whole frame in the
\* buffer of a connection that is kept.
THEOREM FramesComeAsSent == Spec => []FramesAsSent
<1> DEFINE Inv == InputTypes /\ Untouched /\ InOrder
<1>1. Init => Inv
  BY TypesInit, OrderInit
<1>2. Inv /\ [Next]_vars => Inv'
  BY TypesStep, UntouchedStep, OrderStep
<1>3. Inv => FramesAsSent
  BY OrderedFrames
<1> QED
  BY <1>1, <1>2, <1>3, PTL DEF Spec
-----------------------------------------------------------------------------
\* The sender.

HIDE InputAssumption

\* Folds.

\* A set that has 0, and with every number the next, has all of them.
LEMMA AllNumbers ==
    ASSUME NEW n \in Nat, NEW T, 0 \in T, \A k \in 1 .. n : k - 1 \in T => k \in T
    PROVE  \A k \in 0 .. n : k \in T
<1> DEFINE out == {k \in Nat : k <= n /\ k \notin T}
<1>1. out \in SUBSET Nat
  BY Zenon
<1>2. ASSUME NEW k \in out, \A j \in out : k <= j
      PROVE  FALSE
  <2>1. k \in Nat /\ k <= n /\ k \notin T
    BY Zenon
  <2>2. k # 0
    BY <2>1, Zenon
  <2>3. k \in 1 .. n /\ k - 1 \in Nat /\ k - 1 <= n /\ ~(k <= k - 1)
    <3> HIDE DEF out
    <3> QED BY <2>1, <2>2
  <2>4. k - 1 \in T
    BY <1>2, <2>3, Zenon
  <2> QED BY <2>1, <2>3, <2>4, Zenon
<1>3. out = {}
  <2> HIDE DEF out
  <2> QED BY <1>1, <1>2, LeastNumber
<1> QED
  BY <1>3

\* A set of positions that is not empty has a last one.
LEMMA LastPosition ==
    ASSUME NEW n \in Nat, NEW S \in SUBSET (1 .. n), S # {}
    PROVE  Max(S) \in S /\ \A x \in S : x <= Max(S)
<1> DEFINE after == {n - x : x \in S}
<1>1. after \in SUBSET Nat /\ after # {}
  <2>1. \A x \in S : x \in 1 .. n
    OBVIOUS
  <2>2. \A x \in 1 .. n : n - x \in Nat
    OBVIOUS
  <2> QED BY <2>1, <2>2, Zenon
<1>2. PICK least \in after : \A y \in after : least <= y
  <2> HIDE DEF after
  <2> QED BY <1>1, LeastNumber
<1>3. PICK last \in S : least = n - last
  OBVIOUS
<1>4. ASSUME NEW x \in S
      PROVE  last >= x
  <2>1. least <= n - x
    BY <1>2
  <2> HIDE DEF after
  <2>2. x \in 1 .. n /\ last \in 1 .. n
    OBVIOUS
  <2> QED BY <1>3, <2>1, <2>2
<1>5. Max(S) \in S /\ \A x \in S : Max(S) >= x
  BY <1>3, <1>4 DEF Max
<1> QED
  BY <1>5

\* The last of some positions is the one that no other is behind.
LEMMA LastIs ==
    ASSUME NEW n \in Nat, NEW S \in SUBSET (1 .. n), NEW x \in S, \A y \in S : y <= x
    PROVE  Max(S) = x
<1>1. Max(S) \in S /\ x <= Max(S) /\ Max(S) <= x
  BY LastPosition
<1>2. Max(S) \in 1 .. n /\ x \in 1 .. n
  BY <1>1
<1> QED
  BY <1>1, <1>2

\* The function by which a fold over the first n numbers is defined.
Folding(fold, n, base, step) ==
    \A S \in SUBSET (1 .. n) :
        fold[S] = IF S = {} THEN base ELSE step[<<fold[S \ {Max(S)}], Max(S)>>]

\* There always is one: it can be carried one number further.
LEMMA FoldExists ==
    ASSUME NEW n \in Nat, NEW V, NEW base \in V, NEW step \in [V \X (1 .. n) -> V]
    PROVE  \E fold \in [SUBSET (1 .. n) -> V] : Folding(fold, n, base, step)
<1> DEFINE Fits(fold, m) ==
              /\ fold \in [SUBSET (1 .. m) -> V]
              /\ \A S \in SUBSET (1 .. m) :
                    fold[S] = IF S = {} THEN base ELSE step[<<fold[S \ {Max(S)}], Max(S)>>]
           T == {m \in 0 .. n : \E fold : Fits(fold, m)}
<1>1. 0 \in T
  <2> DEFINE fold == [S \in SUBSET (1 .. 0) |-> base]
  <2>1. \A S \in SUBSET (1 .. 0) : S = {}
    OBVIOUS
  <2>2. Fits(fold, 0)
    BY <2>1
  <2> HIDE DEF fold, Fits
  <2> QED BY <2>2
<1>2. ASSUME NEW k \in 1 .. n, k - 1 \in T
      PROVE  k \in T
  <2>1. PICK f : Fits(f, k - 1)
    BY <1>2
  <2> DEFINE fold == [S \in SUBSET (1 .. k) |->
                         IF k \in S THEN step[<<f[S \ {k}], k>>] ELSE f[S]]
  <2>2. \A S \in SUBSET (1 .. k) : S \ {k} \in SUBSET (1 .. k - 1)
    OBVIOUS
  <2>3. \A S \in SUBSET (1 .. k) : k \notin S => S \in SUBSET (1 .. k - 1)
    OBVIOUS
  <2>4. fold \in [SUBSET (1 .. k) -> V]
    <3> SUFFICES ASSUME NEW S \in SUBSET (1 .. k)
                 PROVE  (IF k \in S THEN step[<<f[S \ {k}], k>>] ELSE f[S]) \in V
      OBVIOUS
    <3>1. f[S \ {k}] \in V
      BY <2>1, <2>2
    <3>2. k \notin S => f[S] \in V
      BY <2>1, <2>3
    <3>3. <<f[S \ {k}], k>> \in V \X (1 .. n)
      BY <3>1
    <3>4. step[<<f[S \ {k}], k>>] \in V
      BY <3>3
    <3> QED BY <3>2, <3>4
  <2>5. ASSUME NEW S \in SUBSET (1 .. k)
        PROVE  fold[S] = IF S = {} THEN base ELSE step[<<fold[S \ {Max(S)}], Max(S)>>]
    <3>1. CASE k \in S
      <4>1. Max(S) = k
        <5>1. k \in Nat /\ \A y \in S : y <= k
          OBVIOUS
        <5> QED BY <3>1, <5>1, LastIs
      <4>2. fold[S \ {k}] = f[S \ {k}]
        BY <2>2
      <4>3. fold[S] = step[<<f[S \ {k}], k>>]
        BY <3>1
      <4> HIDE DEF fold
      <4> QED BY <3>1, <4>1, <4>2, <4>3
    <3>2. CASE k \notin S
      <4>1. S \in SUBSET (1 .. k - 1)
        BY <2>3, <3>2
      <4>2. fold[S] = f[S]
        BY <3>2
      <4>3. f[S] = IF S = {} THEN base ELSE step[<<f[S \ {Max(S)}], Max(S)>>]
        BY <2>1, <4>1
      <4>4. fold[S \ {Max(S)}] = f[S \ {Max(S)}]
        BY <3>2
      <4> HIDE DEF fold
      <4> QED BY <4>2, <4>3, <4>4
    <3> QED BY <3>1, <3>2
  <2> HIDE DEF fold
  <2>6. Fits(fold, k)
    BY <2>4, <2>5
  <2> HIDE DEF Fits
  <2> QED BY <2>6
<1>3. n \in T
  <2>1. \A k \in 1 .. n : k - 1 \in T => k \in T
    BY <1>2
  <2> HIDE DEF T
  <2>2. \A k \in 0 .. n : k \in T
    BY <1>1, <2>1, AllNumbers
  <2> QED BY <2>2
<1> QED
  BY <1>3, Zenon DEF Folding

\* What comes of the first numbers, one after the other.
Stepping(h, n, base, step) == h[0] = base /\ \A k \in 1 .. n : h[k] = step[<<h[k - 1], k>>]

\* They are given by the folds over the sets of the first numbers.
LEMMA StepsExist ==
    ASSUME NEW n \in Nat, NEW V, NEW base \in V, NEW step \in [V \X (1 .. n) -> V]
    PROVE  \E h \in [0 .. n -> V] : Stepping(h, n, base, step)
<1>0. PICK fold \in [SUBSET (1 .. n) -> V] : Folding(fold, n, base, step)
  BY FoldExists, Zenon
<1>1. \A S \in SUBSET (1 .. n) :
         fold[S] = IF S = {} THEN base ELSE step[<<fold[S \ {Max(S)}], Max(S)>>]
  BY <1>0, Zenon DEF Folding
<1> DEFINE h == [k \in 0 .. n |-> fold[1 .. k]]
<1>2. h \in [0 .. n -> V]
  BY <1>1
<1>3. h[0] = base
  <2>1. 1 .. 0 = {} /\ 0 \in 0 .. n
    OBVIOUS
  <2>2. h[0] = fold[1 .. 0]
    BY <2>1, Zenon
  <2>3. fold[{}] = base
    BY <1>1, Zenon
  <2> QED BY <2>1, <2>2, <2>3, Zenon
<1>4. ASSUME NEW k \in 1 .. n
      PROVE  h[k] = step[<<h[k - 1], k>>]
  <2>1. 1 .. k \in SUBSET (1 .. n) /\ k \in 1 .. k /\ (1 .. k) \ {k} = 1 .. k - 1
    OBVIOUS
  <2>2. Max(1 .. k) = k
    <3>1. k \in Nat /\ \A y \in 1 .. k : y <= k
      OBVIOUS
    <3> QED BY <2>1, <3>1, LastIs
  <2>3. fold[1 .. k] = step[<<fold[(1 .. k) \ {k}], k>>]
    BY <1>1, <2>1, <2>2
  <2>4. k \in 0 .. n /\ k - 1 \in 0 .. n
    OBVIOUS
  <2>5. h[k] = fold[1 .. k] /\ h[k - 1] = fold[1 .. k - 1]
    BY <2>4, Zenon
  <2> QED BY <2>1, <2>3, <2>5, Zenon
<1> QED
  BY <1>2, <1>3, <1>4, Zenon DEF Stepping

-----------------------------------------------------------------------------
\* Sums.

\* A sum is the last of the sums of the first numbers.
LEMMA SumSteps ==
    ASSUME NEW n \in Nat, NEW q \in [1 .. n -> Nat]
    PROVE  \E h \in [0 .. n -> Nat] :
              /\ h[0] = 0 /\ \A k \in 1 .. n : h[k] = h[k - 1] + q[k]
              /\ Producer!Sum(q) = h[n]
<1> DEFINE step == [p \in Nat \X (1 .. n) |-> p[1] + q[p[2]]]
           Fold(f) == [S \in SUBSET DOMAIN q |->
                          IF S = {} THEN 0 ELSE f[S \ {Max(S)}] + q[Max(S)]]
           iter == CHOOSE f : f = Fold(f)
<1>1. step \in [Nat \X (1 .. n) -> Nat]
  <2>1. \A p \in Nat \X (1 .. n) : p[1] \in Nat /\ p[2] \in 1 .. n /\ q[p[2]] \in Nat
    OBVIOUS
  <2>2. \A p \in Nat \X (1 .. n) : p[1] + q[p[2]] \in Nat
    BY <2>1
  <2> QED BY <2>2, Zenon
<1>2. \A m \in Nat, k \in 1 .. n : step[<<m, k>>] = m + q[k]
  OBVIOUS
<1> HIDE DEF step
<1>3. PICK fold \in [SUBSET (1 .. n) -> Nat] : Folding(fold, n, 0, step)
  BY <1>1, FoldExists, Zenon
<1>4. DOMAIN q = 1 .. n
  OBVIOUS
<1>5. fold = Fold(fold)
  <2>1. ASSUME NEW S \in SUBSET (1 .. n)
        PROVE  fold[S] = IF S = {} THEN 0 ELSE fold[S \ {Max(S)}] + q[Max(S)]
    <3>1. fold[S] = IF S = {} THEN 0 ELSE step[<<fold[S \ {Max(S)}], Max(S)>>]
      BY <1>3, Zenon DEF Folding
    <3>2. CASE S # {}
      <4>1. Max(S) \in S
        BY <3>2, LastPosition, Zenon
      <4>2. Max(S) \in 1 .. n /\ S \ {Max(S)} \in SUBSET (1 .. n)
        BY <4>1, Zenon
      <4>3. fold[S \ {Max(S)}] \in Nat
        BY <4>2, Zenon
      <4> QED BY <1>2, <3>1, <3>2, <4>2, <4>3, Zenon
    <3> QED BY <3>1, <3>2, Zenon
  <2>2. fold = [S \in SUBSET (1 .. n) |-> fold[S]]
    BY Zenon
  <2>3. [S \in SUBSET (1 .. n) |-> fold[S]] = Fold(fold)
    BY <1>4, <2>1, Zenon
  <2> QED BY <2>2, <2>3, Zenon
<1>6. iter = Fold(iter)
  BY <1>5, Zenon
<1>7. Producer!Sum(q) = iter[DOMAIN q]
  BY DEF Producer!Sum, Producer!FoldLeft, Producer!MapThenFoldSet, Producer!Max, Max
<1> HIDE DEF iter
<1>8. \A S \in SUBSET (1 .. n) :
         iter[S] = IF S = {} THEN 0 ELSE iter[S \ {Max(S)}] + q[Max(S)]
  BY <1>4, <1>6, Zenon
<1>9. iter[1 .. 0] = 0
  <2>1. 1 .. 0 = {}
    OBVIOUS
  <2> QED BY <1>8, <2>1, Zenon
<1>10. ASSUME NEW k \in 1 .. n
       PROVE  iter[1 .. k] = iter[1 .. k - 1] + q[k]
  <2>1. 1 .. k \in SUBSET (1 .. n) /\ k \in 1 .. k /\ (1 .. k) \ {k} = 1 .. k - 1
    OBVIOUS
  <2>2. k \in Nat /\ \A y \in 1 .. k : y <= k
    OBVIOUS
  <2>3. Max(1 .. k) = k
    BY <2>1, <2>2, LastIs, Zenon
  <2> QED BY <1>8, <2>1, <2>3, Zenon
<1> DEFINE T == {k \in 0 .. n : iter[1 .. k] \in Nat}
           h == [k \in 0 .. n |-> iter[1 .. k]]
<1>11. \A k \in 0 .. n : k \in T
  <2>1. 0 \in T
    BY <1>9
  <2>2. ASSUME NEW k \in 1 .. n, k - 1 \in T
        PROVE  k \in T
    <3>1. iter[1 .. k - 1] \in Nat /\ q[k] \in Nat /\ k \in 0 .. n
      BY <2>2
    <3>2. iter[1 .. k] \in Nat
      BY <1>10, <3>1
    <3> QED BY <3>1, <3>2
  <2> HIDE DEF T
  <2> QED BY <2>1, <2>2, AllNumbers, Zenon
<1>12. h \in [0 .. n -> Nat]
  BY <1>11, Zenon
<1>13. h[0] = 0 /\ Producer!Sum(q) = h[n]
  <2>1. 0 \in 0 .. n /\ n \in 0 .. n
    OBVIOUS
  <2> QED BY <1>4, <1>7, <1>9, <2>1, Zenon
<1>14. \A k \in 1 .. n : h[k] = h[k - 1] + q[k]
  <2> SUFFICES ASSUME NEW k \in 1 .. n PROVE h[k] = h[k - 1] + q[k]
    BY Zenon
  <2>1. k \in 0 .. n /\ k - 1 \in 0 .. n
    OBVIOUS
  <2> QED BY <1>10, <2>1, Zenon
<1> QED
  BY <1>12, <1>13, <1>14, Zenon

\* There is nothing else they can be.
LEMMA SumIs ==
    ASSUME NEW n \in Nat, NEW q \in [1 .. n -> Nat], NEW g,
           g[0] = 0, \A k \in 1 .. n : g[k] = g[k - 1] + q[k]
    PROVE  Producer!Sum(q) = g[n]
<1>1. PICK h \in [0 .. n -> Nat] :
          /\ h[0] = 0 /\ \A k \in 1 .. n : h[k] = h[k - 1] + q[k]
          /\ Producer!Sum(q) = h[n]
  BY SumSteps, Zenon
<1> DEFINE T == {k \in 0 .. n : h[k] = g[k]}
<1>2. \A k \in 0 .. n : k \in T
  <2>1. 0 \in T
    <3>1. 0 \in 0 .. n
      BY n \in Nat
    <3> QED BY <1>1, <3>1, Zenon
  <2>2. ASSUME NEW k \in 1 .. n, k - 1 \in T
        PROVE  k \in T
    <3>1. k \in 0 .. n
      BY n \in Nat
    <3> QED BY <1>1, <2>2, <3>1, Zenon
  <2> HIDE DEF T
  <2> QED BY <2>1, <2>2, AllNumbers, Zenon
<1>3. n \in 0 .. n
  BY n \in Nat
<1> QED
  BY <1>1, <1>2, <1>3, Zenon

\* It is a number.
LEMMA SumType ==
    ASSUME NEW n \in Nat, NEW q \in [1 .. n -> Nat]
    PROVE  Producer!Sum(q) \in Nat
<1>1. PICK h \in [0 .. n -> Nat] : Producer!Sum(q) = h[n]
  BY SumSteps, Zenon
<1>2. n \in 0 .. n
  OBVIOUS
<1> QED
  BY <1>1, <1>2, Zenon

\* One number more, and one number that is one greater.
LEMMA SumOfMore ==
    ASSUME NEW n \in Nat, NEW q \in [1 .. n + 1 -> Nat]
    PROVE  Producer!Sum(q) = Producer!Sum([k \in 1 .. n |-> q[k]]) + q[n + 1]
<1>1. PICK h \in [0 .. n + 1 -> Nat] :
          /\ h[0] = 0 /\ \A k \in 1 .. n + 1 : h[k] = h[k - 1] + q[k]
          /\ Producer!Sum(q) = h[n + 1]
  BY SumSteps, n + 1 \in Nat, Zenon
<1> DEFINE p == [k \in 1 .. n |-> q[k]]
<1>2. p \in [1 .. n -> Nat]
  OBVIOUS
<1>3. \A k \in 1 .. n : h[k] = h[k - 1] + p[k]
  <2>1. \A k \in 1 .. n : k \in 1 .. n + 1 /\ p[k] = q[k]
    OBVIOUS
  <2> QED BY <1>1, <2>1, Zenon
<1>4. Producer!Sum(p) = h[n]
  <2> HIDE DEF p
  <2> QED BY <1>1, <1>2, <1>3, SumIs, Zenon
<1>5. n + 1 \in 1 .. n + 1 /\ (n + 1) - 1 = n
  OBVIOUS
<1> QED
  BY <1>1, <1>4, <1>5, Zenon

LEMMA SumOfGreater ==
    ASSUME NEW n \in Nat, NEW q \in [1 .. n -> Nat], NEW c \in 1 .. n
    PROVE  Producer!Sum([q EXCEPT ![c] = @ + 1]) = Producer!Sum(q) + 1
<1>1. PICK h \in [0 .. n -> Nat] :
          /\ h[0] = 0 /\ \A k \in 1 .. n : h[k] = h[k - 1] + q[k]
          /\ Producer!Sum(q) = h[n]
  BY SumSteps, Zenon
<1> DEFINE p == [q EXCEPT ![c] = @ + 1]
           g == [k \in 0 .. n |-> IF k < c THEN h[k] ELSE h[k] + 1]
<1>2. p \in [1 .. n -> Nat]
  OBVIOUS
<1>3. g[0] = 0
  BY <1>1
<1>4. ASSUME NEW k \in 1 .. n
      PROVE  g[k] = g[k - 1] + p[k]
  <2>1. /\ k \in 0 .. n /\ k - 1 \in 0 .. n /\ q[k] \in Nat /\ h[k] \in Nat /\ h[k - 1] \in Nat
        /\ k \in Int /\ c \in Int
    BY <1>1
  <2>2. h[k] = h[k - 1] + q[k]
    BY <1>1
  <2>3. p[k] = IF k = c THEN q[k] + 1 ELSE q[k]
    OBVIOUS
  <2>4. /\ g[k] = IF k < c THEN h[k] ELSE h[k] + 1
        /\ g[k - 1] = IF k - 1 < c THEN h[k - 1] ELSE h[k - 1] + 1
    BY <2>1
  <2> HIDE DEF p, g
  <2> QED BY <2>1, <2>2, <2>3, <2>4
<1>5. g[n] = h[n] + 1
  BY n \in 0 .. n, ~(n < c)
<1> HIDE DEF p, g
<1>6. Producer!Sum(p) = g[n]
  BY <1>2, <1>3, <1>4, SumIs, Zenon
<1> QED
  BY <1>1, <1>5, <1>6, Zenon DEF p

-----------------------------------------------------------------------------
\* The bytes of the frames of a connection.

\* The bytes of the first frames grow by a header and a payload at a time.
LEMMA TotalSteps ==
    ASSUME SenderAssumption, NEW s \in Seq(Nat)
    PROVE  \E h \in [0 .. Len(s) -> Nat] :
              /\ h[0] = 0 /\ \A k \in 1 .. Len(s) : h[k] = h[k - 1] + (PrefixLength + s[k])
              /\ \A k \in 0 .. Len(s) : Producer!Total(SubSeq(s, 1, k)) = h[k]
<1>1. PICK n \in Nat : n = Len(s)
  OBVIOUS
<1> DEFINE q == [k \in 1 .. n |-> PrefixLength + s[k]]
<1>2. q \in [1 .. n -> Nat]
  <2>1. PrefixLength \in Nat
    BY DEF SenderAssumption
  <2>2. \A k \in 1 .. n : s[k] \in Nat
    BY <1>1
  <2>3. \A k \in 1 .. n : PrefixLength + s[k] \in Nat
    BY <2>1, <2>2
  <2> QED BY <2>3, Zenon
<1>3. PICK h \in [0 .. n -> Nat] : h[0] = 0 /\ \A k \in 1 .. n : h[k] = h[k - 1] + q[k]
  <2> HIDE DEF q
  <2> QED BY <1>2, SumSteps, ZenonT(60)
<1>4. ASSUME NEW k \in 0 .. n
      PROVE  Producer!Total(SubSeq(s, 1, k)) = h[k]
  <2> DEFINE p == [i \in 1 .. k |-> q[i]]
  <2>1. k \in Nat /\ \A i \in 1 .. k : i \in 1 .. n
    OBVIOUS
  <2>2. p \in [1 .. k -> Nat]
    BY <1>2, <2>1, Zenon
  <2>3. \A i \in 1 .. k : h[i] = h[i - 1] + p[i]
    BY <1>3, <2>1, Zenon
  <2>4. Producer!Sum(p) = h[k]
    <3> HIDE DEF p, q
    <3> QED BY <1>3, <2>1, <2>2, <2>3, SumIs, ZenonT(60)
  <2>5. DOMAIN SubSeq(s, 1, k) = 1 .. k /\ \A i \in 1 .. k : SubSeq(s, 1, k)[i] = s[i]
    BY <1>1
  <2>6. [i \in DOMAIN SubSeq(s, 1, k) |-> PrefixLength + SubSeq(s, 1, k)[i]] = p
    BY <2>1, <2>5, Zenon
  <2> QED BY <2>4, <2>6, Zenon DEF Producer!Total
<1> QED
  BY <1>1, <1>3, <1>4, Zenon

\* The same without a name for the sums.
LEMMA TotalFacts ==
    ASSUME SenderAssumption, NEW s \in Seq(Nat)
    PROVE  /\ Producer!Total(s) \in Nat /\ Producer!Total(<<>>) = 0
           /\ SubSeq(s, 1, Len(s)) = s
           /\ \A k \in 0 .. Len(s) : Producer!Total(SubSeq(s, 1, k)) \in Nat
           /\ \A k \in 1 .. Len(s) :
                 Producer!Total(SubSeq(s, 1, k)) =
                     Producer!Total(SubSeq(s, 1, k - 1)) + (PrefixLength + s[k])
<1>1. PICK n \in Nat : n = Len(s)
  OBVIOUS
<1>2. PICK h \in [0 .. n -> Nat] :
              /\ h[0] = 0 /\ \A k \in 1 .. n : h[k] = h[k - 1] + (PrefixLength + s[k])
              /\ \A k \in 0 .. n : Producer!Total(SubSeq(s, 1, k)) = h[k]
  BY <1>1, TotalSteps, Zenon
<1>3. SubSeq(s, 1, n) = s /\ SubSeq(s, 1, 0) = <<>>
  BY <1>1
<1>4. 0 \in 0 .. n /\ n \in 0 .. n /\ \A k \in 1 .. n : k \in 0 .. n /\ k - 1 \in 0 .. n
  OBVIOUS
<1>5. \A k \in 0 .. n : Producer!Total(SubSeq(s, 1, k)) \in Nat
  <2>1. \A k \in 0 .. n : h[k] \in Nat
    BY <1>2
  <2> QED BY <1>2, <2>1, Zenon
<1>6. Producer!Total(s) \in Nat /\ Producer!Total(<<>>) = 0
  BY <1>2, <1>3, <1>4, <1>5, Zenon
<1>7. \A k \in 1 .. n :
         Producer!Total(SubSeq(s, 1, k)) =
             Producer!Total(SubSeq(s, 1, k - 1)) + (PrefixLength + s[k])
  BY <1>2, <1>4, Zenon
<1> QED
  BY <1>1, <1>3, <1>5, <1>6, <1>7, Zenon

\* A frame more.
LEMMA TotalOfMore ==
    ASSUME SenderAssumption, NEW s \in Seq(Nat), NEW x \in Nat
    PROVE  Producer!Total(Append(s, x)) = Producer!Total(s) + (PrefixLength + x)
<1> DEFINE t == Append(s, x)
<1>1. /\ t \in Seq(Nat) /\ Len(t) = Len(s) + 1 /\ Len(t) \in 1 .. Len(t)
      /\ Len(t) - 1 = Len(s) /\ t[Len(t)] = x /\ SubSeq(t, 1, Len(s)) = s
  OBVIOUS
<1> HIDE DEF t
<1>2. /\ Producer!Total(SubSeq(t, 1, Len(t))) =
             Producer!Total(SubSeq(t, 1, Len(t) - 1)) + (PrefixLength + t[Len(t)])
      /\ SubSeq(t, 1, Len(t)) = t
  BY <1>1, TotalFacts, Zenon
<1> QED
  BY <1>1, <1>2, Zenon DEF t

\* More frames, more bytes.
LEMMA TotalGrows ==
    ASSUME SenderAssumption, NEW s \in Seq(Nat), NEW i \in 0 .. Len(s), NEW j \in i .. Len(s)
    PROVE  Producer!Total(SubSeq(s, 1, i)) <= Producer!Total(SubSeq(s, 1, j))
<1>1. PICK n \in Nat : n = Len(s)
  OBVIOUS
<1>2. PICK h \in [0 .. n -> Nat] :
              /\ h[0] = 0 /\ \A k \in 1 .. n : h[k] = h[k - 1] + (PrefixLength + s[k])
              /\ \A k \in 0 .. n : Producer!Total(SubSeq(s, 1, k)) = h[k]
  BY <1>1, TotalSteps, Zenon
<1> DEFINE T == {k \in 0 .. n : i <= k => h[i] <= h[k]}
<1>3. 0 \in T
  <2>1. i <= 0 => i = 0
    BY <1>1
  <2>2. h[0] <= h[0] /\ 0 \in 0 .. n
    BY <1>2
  <2> QED BY <2>1, <2>2, Zenon
<1>4. ASSUME NEW k \in 1 .. n, k - 1 \in T
      PROVE  k \in T
  <2>1. /\ k \in 0 .. n /\ k - 1 \in 0 .. n /\ i \in 0 .. n /\ s[k] \in Nat
        /\ PrefixLength \in Nat
    BY <1>1 DEF SenderAssumption
  <2>2. h[k] \in Nat /\ h[k - 1] \in Nat /\ h[i] \in Nat
    BY <2>1
  <2>3. h[k] = h[k - 1] + (PrefixLength + s[k])
    BY <1>2
  <2>4. i <= k - 1 => h[i] <= h[k - 1]
    BY <1>4
  <2>5. i <= k => h[i] <= h[k]
    <3>1. CASE i = k
      BY <2>2, <3>1
    <3>2. CASE i # k
      <4>1. i <= k => i <= k - 1
        BY <2>1, <3>2
      <4>2. h[k - 1] <= h[k]
        <5> HIDE DEF T
        <5>1. PICK x \in Nat, y \in Nat : x = s[k] /\ y = h[k - 1]
          BY <2>1, <2>2, Zenon
        <5>2. h[k] = y + (PrefixLength + x)
          BY <2>3, <5>1, Zenon
        <5>3. PrefixLength \in Nat
          BY DEF SenderAssumption
        <5>4. y <= y + (PrefixLength + x)
          BY <5>3
        <5> QED BY <5>1, <5>2, <5>4, Zenon
      <4>3. PICK x \in Nat, y \in Nat, z \in Nat : x = h[i] /\ y = h[k - 1] /\ z = h[k]
        BY <2>2, Zenon
      <4>4. i <= k => x <= y /\ y <= z
        BY <2>4, <4>1, <4>2, <4>3, Zenon
      <4>5. i <= k => x <= z
        <5> HIDE DEF T
        <5> QED BY <4>4
      <4> QED BY <4>3, <4>5, Zenon
    <3> QED BY <3>1, <3>2
  <2> QED BY <2>1, <2>5
<1>5. j \in T
  <2>1. j \in 0 .. n
    BY <1>1
  <2> HIDE DEF T
  <2> QED BY <1>3, <1>4, <2>1, AllNumbers, Zenon
<1>6. i \in 0 .. n /\ j \in 0 .. n /\ i <= j
  BY <1>1
<1> QED
  BY <1>2, <1>5, <1>6

\* The frames that so many bytes hold whole.
WholeOf(s, bytes) == {k \in DOMAIN s : Producer!Total(SubSeq(s, 1, k)) <= bytes}

\* All of them, or all but the last.
LEMMA WholeCount ==
    ASSUME SenderAssumption, NEW s \in Seq(Nat), NEW bytes \in Nat
    PROVE  /\ Producer!Total(s) <= bytes => Cardinality(WholeOf(s, bytes)) = Len(s)
           /\ /\ Len(s) # 0 /\ bytes < Producer!Total(s)
              /\ Producer!Total(SubSeq(s, 1, Len(s) - 1)) <= bytes
              => Cardinality(WholeOf(s, bytes)) = Len(s) - 1
<1>1. PICK n \in Nat : n = Len(s) /\ DOMAIN s = 1 .. n
  OBVIOUS
<1> DEFINE total == [k \in 0 .. n |-> Producer!Total(SubSeq(s, 1, k))]
<1>2. total \in [0 .. n -> Nat] /\ total[n] = Producer!Total(s)
  <2>1. n \in 0 .. n
    OBVIOUS
  <2> QED BY <1>1, <2>1, TotalFacts, Zenon
<1>3. \A i \in 0 .. n : \A j \in i .. n : total[i] <= total[j]
  <2> SUFFICES ASSUME NEW i \in 0 .. n, NEW j \in i .. n PROVE total[i] <= total[j]
    BY Zenon
  <2>1. j \in 0 .. n
    OBVIOUS
  <2> QED BY <1>1, <2>1, TotalGrows, Zenon
<1>4. WholeOf(s, bytes) = {k \in 1 .. n : total[k] <= bytes}
  <2>1. \A k \in 1 .. n : k \in 0 .. n
    OBVIOUS
  <2> QED BY <1>1, <2>1, Zenon DEF WholeOf
<1>5. n # 0 => total[n - 1] = Producer!Total(SubSeq(s, 1, n - 1)) /\ n - 1 \in 0 .. n
  <2>1. n # 0 => n - 1 \in 0 .. n
    OBVIOUS
  <2> QED BY <2>1, Zenon
<1> HIDE DEF total
<1>6. ASSUME total[n] <= bytes
      PROVE  Cardinality(WholeOf(s, bytes)) = n
  <2>1. \A k \in 1 .. n : k \in 0 .. n /\ n \in k .. n /\ n \in 0 .. n
    OBVIOUS
  <2>2. \A k \in 1 .. n : total[k] <= bytes
    BY <1>2, <1>3, <1>6, <2>1
  <2>3. WholeOf(s, bytes) = 1 .. n
    BY <1>4, <2>2, Zenon
  <2>4. Cardinality(1 .. n) = n
    BY FS_Interval, n \in Int, 1 \in Int, 1 .. n = 1 .. n
  <2> QED BY <2>3, <2>4
<1>7. ASSUME n # 0, bytes < total[n], total[n - 1] <= bytes
      PROVE  Cardinality(WholeOf(s, bytes)) = n - 1
  <2>1. n - 1 \in Nat /\ n - 1 \in 0 .. n /\ n \in 0 .. n
    BY <1>7
  <2>2. \A k \in 1 .. n - 1 : k \in 0 .. n /\ n - 1 \in k .. n
    BY <2>1
  <2>3. ASSUME NEW k \in 1 .. n - 1
        PROVE  total[k] <= bytes
    <3>1. total[k] \in Nat /\ total[n - 1] \in Nat
      BY <1>2, <2>1, <2>2, Zenon
    <3>2. total[k] <= total[n - 1]
      BY <1>3, <2>1, <2>2, Zenon
    <3> QED BY <1>7, <3>1, <3>2
  <2>4. ~(total[n] <= bytes)
    BY <1>2, <1>7, <2>1
  <2>5. \A k : k \in 1 .. n <=> k \in 1 .. n - 1 \/ k = n
    BY <1>7
  <2>6. n \notin 1 .. n - 1
    OBVIOUS
  <2>7. WholeOf(s, bytes) = 1 .. n - 1
    BY <1>4, <2>3, <2>4, <2>5, <2>6, Zenon
  <2>8. Cardinality(1 .. n - 1) = n - 1
    BY <2>1, FS_Interval
  <2> QED BY <2>7, <2>8
<1> QED
  BY <1>1, <1>2, <1>5, <1>6, <1>7

-----------------------------------------------------------------------------
\* The command line.

Token   == [text : STRING, number : Seq(Int)]
Options == STRING \cup Int \cup {Defaults[option] : option \in Valued}
Parsed  == [result : {"success", "error", "version", "help"},
            option : Valued \cup {"none"}, options : [Valued -> Options]]
FirstParsed == [result |-> "success", option |-> "none", options |-> Defaults]

\* Before the first token.
LEMMA DefaultsType == FirstParsed \in Parsed
<1>1. \A option \in Valued : Defaults[option] \in Options
  BY Zenon DEF Options
<1>2. Defaults = [option \in Valued |-> Defaults[option]]
  BY DEF Defaults
<1>3. Defaults \in [Valued -> Options]
  BY <1>1, <1>2, Zenon
<1> QED
  BY <1>3 DEF FirstParsed, Parsed

\* The value of a token that is valid: a count is no less than 0 and the largest
\* frame no more than the limit, whatever the sign and the size of the number.
LEMMA ValueType ==
    ASSUME SenderAssumption, NEW option \in Valued, NEW token \in Token, Valid(option, token)
    PROVE  /\ Value(option, token) \in STRING \cup Int
           /\ option \notin Texts => Value(option, token) \in Int
           /\ option = "--count" => Value(option, token) \in Nat
           /\ option = "--max-jpeg-bytes" =>
                 Value(option, token) <= Limits["--max-jpeg-bytes"][2]
<1>1. CASE option \in Texts
  <2>1. option # "--count" /\ option # "--max-jpeg-bytes"
    BY <1>1 DEF Texts
  <2> QED BY <1>1, <2>1 DEF Value, Token
<1>2. CASE option \notin Texts
  <2>1. token.number \in Seq(Int) /\ token.number # <<>>
    BY <1>2 DEF Valid, Token
  <2>2. token.number[1] \in Int
    BY <2>1
  <2>3. Modulus \in Nat \ {0}
    BY DEF SenderAssumption
  <2>4. Unsigned(token.number[1]) \in Nat
    BY <2>2, <2>3 DEF Unsigned
  <2>5. Value(option, token) \in Int
    BY <1>2, <2>2, <2>4 DEF Value
  <2>6. option = "--count" => Value(option, token) \in Nat
    BY <1>2, <2>4 DEF Value
  <2>7. option = "--max-jpeg-bytes" =>
            Value(option, token) <= Limits["--max-jpeg-bytes"][2]
    BY <1>2 DEF Valid, Between
  <2> QED BY <1>2, <2>5, <2>6, <2>7
<1> QED
  BY <1>1, <1>2

\* What is parsed stays of its type.
LEMMA TakeType ==
    ASSUME SenderAssumption, NEW p \in Parsed, NEW token \in Token
    PROVE  Take(p, token) \in Parsed
<1>1. CASE p.result = "success" /\ p.option \in Valued /\ Valid(p.option, token)
  <2>1. Value(p.option, token) \in Options
    BY <1>1, ValueType DEF Options
  <2>2. Take(p, token) = [p EXCEPT !.options[p.option] = Value(p.option, token),
                                   !.option = "none"]
    BY <1>1 DEF Take
  <2>3. /\ p = [result |-> p.result, option |-> p.option, options |-> p.options]
        /\ p.options \in [Valued -> Options]
        /\ p.result \in {"success", "error", "version", "help"}
    BY DEF Parsed
  <2> DEFINE new == [p.options EXCEPT ![p.option] = Value(p.option, token)]
  <2>4. new \in [Valued -> Options]
    BY <2>1, <2>3
  <2>5. Take(p, token) = [result |-> p.result, option |-> "none", options |-> new]
    BY <2>2, <2>3
  <2> HIDE DEF new
  <2> QED BY <2>3, <2>4, <2>5 DEF Parsed
<1>2. CASE ~(p.result = "success" /\ p.option \in Valued /\ Valid(p.option, token))
  BY <1>2 DEF Take, Parsed
<1> QED
  BY <1>1, <1>2

\* The tokens are taken one after the other.
LEMMA TakeSteps ==
    ASSUME SenderAssumption, NEW tokens \in Argvs
    PROVE  \E h \in [0 .. Len(tokens) -> Parsed] :
              /\ h[0] = FirstParsed
              /\ \A k \in 1 .. Len(tokens) : h[k] = Take(h[k - 1], tokens[k])
              /\ FoldLeft(Take, [result |-> "success", option |-> "none",
                                 options |-> Defaults], tokens) = h[Len(tokens)]
<1>1. tokens \in Seq(Token)
  BY DEF SenderAssumption, Token
<1>2. PICK n \in Nat : n = Len(tokens) /\ DOMAIN tokens = 1 .. n
  BY <1>1
<1>3. \A k \in 1 .. n : tokens[k] \in Token
  BY <1>1, <1>2
<1> DEFINE step == [p \in Parsed \X (1 .. n) |-> Take(p[1], tokens[p[2]])]
           Fold(f) == [S \in SUBSET DOMAIN tokens |->
                          IF S = {} THEN FirstParsed ELSE Take(f[S \ {Max(S)}], tokens[Max(S)])]
           iter == CHOOSE f : f = Fold(f)
<1>4. step \in [Parsed \X (1 .. n) -> Parsed]
  <2>1. \A p \in Parsed \X (1 .. n) : p[1] \in Parsed /\ p[2] \in 1 .. n
    OBVIOUS
  <2>2. \A p \in Parsed \X (1 .. n) : Take(p[1], tokens[p[2]]) \in Parsed
    BY <1>3, <2>1, TakeType, Zenon
  <2> QED BY <2>2, Zenon
<1>5. \A p \in Parsed, k \in 1 .. n : step[<<p, k>>] = Take(p, tokens[k])
  OBVIOUS
<1> HIDE DEF step
<1>6. PICK fold \in [SUBSET (1 .. n) -> Parsed] : Folding(fold, n, FirstParsed, step)
  BY <1>4, DefaultsType, FoldExists, Zenon
<1>7. fold = Fold(fold)
  <2>1. ASSUME NEW S \in SUBSET (1 .. n)
        PROVE  fold[S] = IF S = {} THEN FirstParsed
                         ELSE Take(fold[S \ {Max(S)}], tokens[Max(S)])
    <3>1. fold[S] = IF S = {} THEN FirstParsed ELSE step[<<fold[S \ {Max(S)}], Max(S)>>]
      BY <1>6, Zenon DEF Folding
    <3>2. CASE S # {}
      <4>1. Max(S) \in S
        BY <3>2, LastPosition, Zenon
      <4>2. Max(S) \in 1 .. n /\ S \ {Max(S)} \in SUBSET (1 .. n)
        BY <4>1, Zenon
      <4>3. fold[S \ {Max(S)}] \in Parsed
        BY <4>2, Zenon
      <4> QED BY <1>5, <3>1, <3>2, <4>2, <4>3, Zenon
    <3> QED BY <3>1, <3>2, Zenon
  <2>2. fold = [S \in SUBSET (1 .. n) |-> fold[S]]
    BY Zenon
  <2>3. [S \in SUBSET (1 .. n) |-> fold[S]] = Fold(fold)
    BY <1>2, <2>1, Zenon
  <2> QED BY <2>2, <2>3, Zenon
<1>8. iter = Fold(iter)
  BY <1>7, Zenon
<1>9. FoldLeft(Take, [result |-> "success", option |-> "none", options |-> Defaults], tokens)
          = iter[DOMAIN tokens]
  BY DEF FoldLeft, MapThenFoldSet, FirstParsed
<1> HIDE DEF iter
<1>10. \A S \in SUBSET (1 .. n) :
          iter[S] = IF S = {} THEN FirstParsed ELSE Take(iter[S \ {Max(S)}], tokens[Max(S)])
  BY <1>2, <1>8, Zenon
<1>11. iter[1 .. 0] = FirstParsed
  <2>1. 1 .. 0 = {}
    OBVIOUS
  <2> QED BY <1>10, <2>1, Zenon
<1>12. ASSUME NEW k \in 1 .. n
       PROVE  iter[1 .. k] = Take(iter[1 .. k - 1], tokens[k])
  <2>1. 1 .. k \in SUBSET (1 .. n) /\ k \in 1 .. k /\ (1 .. k) \ {k} = 1 .. k - 1
    OBVIOUS
  <2>2. k \in Nat /\ \A y \in 1 .. k : y <= k
    OBVIOUS
  <2>3. Max(1 .. k) = k
    BY <2>1, <2>2, LastIs, Zenon
  <2> QED BY <1>10, <2>1, <2>3, Zenon
<1> DEFINE T == {k \in 0 .. n : iter[1 .. k] \in Parsed}
           h == [k \in 0 .. n |-> iter[1 .. k]]
<1>13. \A k \in 0 .. n : k \in T
  <2>1. 0 \in T
    BY <1>11, DefaultsType
  <2>2. ASSUME NEW k \in 1 .. n, k - 1 \in T
        PROVE  k \in T
    <3>1. iter[1 .. k - 1] \in Parsed
      BY <2>2, Zenon
    <3>2. iter[1 .. k] \in Parsed
      BY <1>3, <1>12, <3>1, TakeType, ZenonT(60)
    <3>3. k \in 0 .. n
      OBVIOUS
    <3> QED BY <3>2, <3>3, Zenon
  <2> HIDE DEF T
  <2> QED BY <2>1, <2>2, AllNumbers, Zenon
<1>14. h \in [0 .. n -> Parsed]
  BY <1>13, Zenon
<1>15. h[0] = FirstParsed /\ h[n] = iter[DOMAIN tokens]
  <2>1. 0 \in 0 .. n /\ n \in 0 .. n
    OBVIOUS
  <2> QED BY <1>2, <1>11, <2>1, Zenon
<1>16. \A k \in 1 .. n : h[k] = Take(h[k - 1], tokens[k])
  <2> SUFFICES ASSUME NEW k \in 1 .. n PROVE h[k] = Take(h[k - 1], tokens[k])
    BY Zenon
  <2>1. k \in 0 .. n /\ k - 1 \in 0 .. n
    OBVIOUS
  <2> QED BY <1>12, <2>1, Zenon
<1> HIDE DEF h
<1> QED
  BY <1>2, <1>9, <1>14, <1>15, <1>16, Zenon

\* Which tokens are values is decided from the left, so there is one answer.
LEMMA ValuesAre ==
    ASSUME SenderAssumption, NEW tokens \in Argvs
    PROVE  /\ Values(tokens) \in SUBSET DOMAIN tokens
           /\ \A i \in DOMAIN tokens :
                 i \in Values(tokens) <=>
                     i > 1 /\ i - 1 \notin Values(tokens) /\ tokens[i - 1].text \in Valued
<1>1. PICK n \in Nat : DOMAIN tokens = 1 .. n
  <2>1. tokens \in Seq(Token)
    BY DEF SenderAssumption, Token
  <2> QED BY <2>1
<1> DEFINE Bit == {0, 1}
           step == [p \in Bit \X (1 .. n) |->
                       IF p[2] > 1 /\ p[1] = 0 /\ tokens[p[2] - 1].text \in Valued
                       THEN 1 ELSE 0]
<1>2. step \in [Bit \X (1 .. n) -> Bit]
  BY Zenon
<1>3. \A m \in Bit, k \in 1 .. n :
         step[<<m, k>>] = IF k > 1 /\ m = 0 /\ tokens[k - 1].text \in Valued THEN 1 ELSE 0
  OBVIOUS
<1> HIDE DEF step
<1>8. 0 \in Bit
  OBVIOUS
<1> HIDE DEF Bit
<1>4. PICK h \in [0 .. n -> Bit] : Stepping(h, n, 0, step)
  BY <1>2, <1>8, StepsExist, Zenon
<1> DEFINE values == {i \in 1 .. n : h[i] = 1}
<1>5. ASSUME NEW i \in 1 .. n
      PROVE  i \in values <=> i > 1 /\ i - 1 \notin values /\ tokens[i - 1].text \in Valued
  <2>1. i - 1 \in 0 .. n /\ (i > 1 => i - 1 \in 1 .. n)
    OBVIOUS
  <2>2. h[i - 1] \in Bit
    BY <2>1, Zenon
  <2>3. h[i] = IF i > 1 /\ h[i - 1] = 0 /\ tokens[i - 1].text \in Valued THEN 1 ELSE 0
    BY <1>3, <1>4, <2>2, Zenon DEF Stepping
  <2>4. i > 1 => (i - 1 \in values <=> h[i - 1] = 1)
    BY <2>1, Zenon
  <2>5. i \in values <=> h[i] = 1
    BY Zenon
  <2>6. 0 # 1
    OBVIOUS
  <2> HIDE DEF values
  <2> QED BY <2>2, <2>3, <2>4, <2>5, <2>6, Zenon DEF Bit
<1>6. values \in SUBSET DOMAIN tokens
  BY <1>1, Zenon
<1> HIDE DEF values
<1>7. \E v \in SUBSET DOMAIN tokens :
         \A i \in DOMAIN tokens :
             i \in v <=> i > 1 /\ i - 1 \notin v /\ tokens[i - 1].text \in Valued
  BY <1>1, <1>5, <1>6, Zenon
<1> QED
  BY <1>7, Zenon DEF Values

-----------------------------------------------------------------------------
\* After the first k tokens.

\* The k-th is an option whose value is next.
Waiting(tokens, k) == k > 0 /\ k \notin Values(tokens) /\ tokens[k].text \in Valued

RightToken(tokens, i, last) ==
    \/ tokens[i].text = "--verbose"
    \/ tokens[i].text \in Valued /\ (i = last \/ Valid(tokens[i].text, tokens[i + 1]))

GivenBefore(tokens, k, option) == Given(tokens, option) \cap (1 .. k)

AskedBefore(tokens, k, option) ==
    IF GivenBefore(tokens, k, option) = {} THEN Defaults[option]
    ELSE Value(option, tokens[Max(GivenBefore(tokens, k, option))])

SomeWrong(tokens) ==
    \E i \in DOMAIN tokens \ Values(tokens) :
        /\ tokens[i].text # "--verbose"
        /\ ~(tokens[i].text \in Valued /\ i + 1 \in DOMAIN tokens
                 /\ Valid(tokens[i].text, tokens[i + 1]))

\* What has been parsed is what those tokens ask for; it is given up only for a
\* token that is wrong.
ParsedRight(tokens, k, p) ==
    /\ p.result # "success" => SomeWrong(tokens)
    /\ p.result = "success" =>
          /\ p.option = IF Waiting(tokens, k) THEN tokens[k].text ELSE "none"
          /\ \A i \in (1 .. k) \ Values(tokens) : RightToken(tokens, i, k)
          /\ \A option \in Valued : p.options[option] = AskedBefore(tokens, k, option)

\* A command line has so many tokens.
LEMMA TokensAre ==
    ASSUME SenderAssumption, NEW tokens \in Argvs
    PROVE  /\ Len(tokens) \in Nat /\ DOMAIN tokens = 1 .. Len(tokens)
           /\ \A k \in 1 .. Len(tokens) : tokens[k] \in Token
<1>1. tokens \in Seq(Token)
  BY DEF SenderAssumption, Token
<1> QED
  BY <1>1

\* What is no option with a value.
LEMMA NoneIsNoOption == "none" \notin Valued /\ "--verbose" \notin Valued
  BY DEF Valued, Texts

\* A value that counts from the k-th token on.
LEMMA GivenNext ==
    ASSUME SenderAssumption, NEW tokens \in Argvs, NEW k \in 1 .. Len(tokens),
           NEW option \in Valued
    PROVE  /\ k \in Given(tokens, option) =>
                  AskedBefore(tokens, k, option) = Value(option, tokens[k])
           /\ k \notin Given(tokens, option) =>
                  AskedBefore(tokens, k, option) = AskedBefore(tokens, k - 1, option)
<1>1. k \in Nat /\ \A y \in 1 .. k : y <= k
  OBVIOUS
<1>2. ASSUME k \in Given(tokens, option)
      PROVE  AskedBefore(tokens, k, option) = Value(option, tokens[k])
  <2> DEFINE S == GivenBefore(tokens, k, option)
  <2>1. S \in SUBSET (1 .. k) /\ \A y \in S : y \in 1 .. k
    BY Zenon DEF GivenBefore
  <2>2. k \in 1 .. k
    BY <1>1
  <2>3. k \in S
    BY <1>2, <2>2, Zenon DEF GivenBefore
  <2>4. Max(S) = k
    <3> HIDE DEF S
    <3> QED BY <1>1, <2>1, <2>3, LastIs, Zenon
  <2> QED BY <2>3, <2>4, Zenon DEF AskedBefore
<1>3. ASSUME k \notin Given(tokens, option)
      PROVE  AskedBefore(tokens, k, option) = AskedBefore(tokens, k - 1, option)
  <2>1. \A i : i \in 1 .. k <=> i \in 1 .. k - 1 \/ i = k
    BY <1>1
  <2>2. GivenBefore(tokens, k, option) = GivenBefore(tokens, k - 1, option)
    BY <1>3, <2>1, Zenon DEF GivenBefore
  <2> QED BY <2>2, Zenon DEF AskedBefore
<1> QED
  BY <1>2, <1>3

\* One token more.
LEMMA ParseMore ==
    ASSUME SenderAssumption, NEW tokens \in Argvs, NEW k \in 1 .. Len(tokens),
           NEW p \in Parsed, ParsedRight(tokens, k - 1, p)
    PROVE  ParsedRight(tokens, k, Take(p, tokens[k]))
<1> DEFINE values == Values(tokens)
           token  == tokens[k]
           q      == Take(p, token)
<1>1. PICK n \in Nat : n = Len(tokens) /\ DOMAIN tokens = 1 .. n
  BY TokensAre
<1>2. /\ k \in 1 .. n /\ k \in Int
      /\ \A i : i \in 1 .. k <=> i \in 1 .. k - 1 \/ i = k
      /\ \A i \in 1 .. k - 1 : i # k /\ i \in 1 .. n /\ i > 0
      /\ k > 1 <=> k - 1 > 0
      /\ k > 0 /\ k - 1 # k /\ (k - 1) + 1 = k
      /\ k > 1 => k - 1 \in 1 .. k - 1
  BY <1>1
<1>3. k \in values <=> Waiting(tokens, k - 1)
  BY <1>1, <1>2, ValuesAre, Zenon DEF Waiting
<1>4. \A option \in Valued :
         k \in Given(tokens, option) <=> k \in values /\ tokens[k - 1].text = option
  BY Zenon DEF Given
<1>5. CASE p.result # "success"
  <2>1. q = p
    BY <1>5, Zenon DEF Take
  <2> QED BY <1>5, <2>1, Zenon DEF ParsedRight
<1>6. CASE p.result = "success" /\ k \in values
  <2>1. /\ p.option = tokens[k - 1].text /\ p.option \in Valued
        /\ k - 1 \notin values /\ k - 1 \in 1 .. n /\ k > 1
    BY <1>2, <1>3, <1>6, Zenon DEF ParsedRight, Waiting
  <2>2. CASE ~Valid(p.option, token)
    <3>1. q = [p EXCEPT !.result = "error"]
      BY <1>6, <2>1, <2>2, Zenon DEF Take
    <3>2. q.result # "success"
      BY <3>1 DEF Parsed
    <3>3. tokens[k - 1].text # "--verbose"
      BY <2>1, NoneIsNoOption
    <3>4. SomeWrong(tokens)
      BY <1>1, <1>2, <2>1, <2>2, <3>3, Zenon DEF SomeWrong
    <3> QED BY <3>2, <3>4, Zenon DEF ParsedRight
  <2>3. CASE Valid(p.option, token)
    <3>1. q = [p EXCEPT !.options[p.option] = Value(p.option, token), !.option = "none"]
      BY <1>6, <2>1, <2>3, Zenon DEF Take
    <3>2. /\ q.result = "success" /\ q.option = "none"
          /\ \A option \in Valued :
                q.options[option] = IF option = p.option THEN Value(option, token)
                                    ELSE p.options[option]
      <4> DEFINE value == Value(p.option, token)
                 r     == [p EXCEPT !.options[p.option] = value, !.option = "none"]
      <4>1. p.options \in [Valued -> Options]
        BY DEF Parsed
      <4>2. /\ r.result = p.result /\ r.option = "none"
            /\ r.options = [p.options EXCEPT ![p.option] = value]
        <5> HIDE DEF value
        <5> QED BY DEF Parsed
      <4> HIDE DEF r, q
      <4>3. r = q
        BY <3>1, Zenon DEF r
      <4>4. \A option \in Valued :
               r.options[option] = IF option = p.option THEN value ELSE p.options[option]
        BY <2>1, <4>1, <4>2, Zenon
      <4> QED BY <1>6, <4>2, <4>3, <4>4, Zenon
    <3>3. ~Waiting(tokens, k)
      BY <1>6, Zenon DEF Waiting
    <3>4. ASSUME NEW i \in (1 .. k) \ values
          PROVE  RightToken(tokens, i, k)
      <4>1. i \in (1 .. k - 1) \ values
        BY <1>2, <1>6, Zenon
      <4>2. RightToken(tokens, i, k - 1)
        BY <1>6, <4>1, Zenon DEF ParsedRight
      <4> QED BY <1>2, <2>1, <2>3, <4>2, Zenon DEF RightToken
    <3>5. ASSUME NEW option \in Valued
          PROVE  q.options[option] = AskedBefore(tokens, k, option)
      <4>1. p.options[option] = AskedBefore(tokens, k - 1, option)
        BY <1>6, Zenon DEF ParsedRight
      <4>2. CASE option = p.option
        <5>1. k \in Given(tokens, option)
          BY <1>4, <1>6, <2>1, <4>2, Zenon
        <5>2. AskedBefore(tokens, k, option) = Value(option, token)
          BY <5>1, GivenNext, Zenon
        <5> QED BY <3>2, <4>2, <5>2, Zenon
      <4>3. CASE option # p.option
        <5>1. k \notin Given(tokens, option)
          BY <1>4, <2>1, <4>3, Zenon
        <5>2. AskedBefore(tokens, k, option) = AskedBefore(tokens, k - 1, option)
          BY <5>1, GivenNext, Zenon
        <5> QED BY <3>2, <4>1, <4>3, <5>2, Zenon
      <4> QED BY <4>2, <4>3, Zenon
    <3> QED BY <3>2, <3>3, <3>4, <3>5, Zenon DEF ParsedRight
  <2> QED BY <2>2, <2>3
<1>7. CASE p.result = "success" /\ k \notin values
  <2>1. p.option = "none" /\ p.option \notin Valued /\ ~Waiting(tokens, k - 1)
    BY <1>3, <1>7, NoneIsNoOption, Zenon DEF ParsedRight
  <2>2. \A option \in Valued : p.options[option] = AskedBefore(tokens, k, option)
    BY <1>4, <1>7, GivenNext, Zenon DEF ParsedRight
  <2>3. ASSUME NEW i \in (1 .. k - 1) \ values
        PROVE  RightToken(tokens, i, k)
    <3>1. RightToken(tokens, i, k - 1)
      BY <1>7, Zenon DEF ParsedRight
    <3>2. i = k - 1 => tokens[i].text \notin Valued
      BY <1>2, <2>1, Zenon DEF Waiting
    <3> QED BY <3>1, <3>2, Zenon DEF RightToken
  <2>4. CASE token.text \in Valued
    <3>1. q = [p EXCEPT !.option = token.text]
      <4>1. token.text \notin {"--verbose", "--version", "-h", "--help"}
        BY <2>4 DEF Valued, Texts
      <4> QED BY <1>7, <2>1, <2>4, <4>1, Zenon DEF Take
    <3>2. q.result = "success" /\ q.option = token.text /\ q.options = p.options
      BY <1>7, <3>1 DEF Parsed
    <3>3. Waiting(tokens, k)
      BY <1>2, <1>7, <2>4, Zenon DEF Waiting
    <3>4. \A i \in (1 .. k) \ values : RightToken(tokens, i, k)
      BY <1>2, <2>3, <2>4, Zenon DEF RightToken
    <3> QED BY <2>2, <3>2, <3>3, <3>4, Zenon DEF ParsedRight
  <2>5. CASE token.text = "--verbose"
    <3>1. q = p
      <4>1. token.text \notin Valued
        BY <2>5, NoneIsNoOption
      <4> QED BY <1>7, <2>1, <2>5, <4>1, Zenon DEF Take
    <3>2. ~Waiting(tokens, k)
      BY <2>5, NoneIsNoOption, Zenon DEF Waiting
    <3>3. \A i \in (1 .. k) \ values : RightToken(tokens, i, k)
      BY <1>2, <2>3, <2>5, Zenon DEF RightToken
    <3> QED BY <1>7, <2>1, <2>2, <3>1, <3>2, <3>3, Zenon DEF ParsedRight
  <2>6. CASE token.text \notin Valued /\ token.text # "--verbose"
    <3>1. q.result # "success"
      BY <1>7, <2>1, <2>6 DEF Take, Parsed
    <3>2. SomeWrong(tokens)
      BY <1>1, <1>2, <1>7, <2>6, Zenon DEF SomeWrong
    <3> QED BY <3>1, <3>2, Zenon DEF ParsedRight
  <2> QED BY <2>4, <2>5, <2>6
<1> QED
  BY <1>5, <1>6, <1>7

\* What a value given for an option comes to.
LEMMA LastGiven ==
    ASSUME SenderAssumption, NEW tokens \in AsksForFrames, NEW option \in Valued,
           Given(tokens, option) # {}
    PROVE  \E token \in Token : /\ Valid(option, token)
                                /\ Asked[tokens][option] = Value(option, token)
<1>1. tokens \in Argvs
  BY Zenon DEF AsksForFrames
<1>2. PICK n \in Nat : DOMAIN tokens = 1 .. n /\ \A k \in 1 .. n : tokens[k] \in Token
  BY <1>1, TokensAre
<1>3. PICK last : last = Max(Given(tokens, option))
  OBVIOUS
<1>4. Given(tokens, option) \in SUBSET (1 .. n)
  BY <1>1, <1>2, ValuesAre, Zenon DEF Given
<1>5. last \in Given(tokens, option)
  BY <1>3, <1>4, LastPosition, Zenon
<1>6. last \in 1 .. n /\ last \in Values(tokens) /\ tokens[last - 1].text = option
  BY <1>4, <1>5, Zenon DEF Given
<1>7. last > 1 /\ last - 1 \notin Values(tokens)
  BY <1>1, <1>2, <1>6, ValuesAre, Zenon
<1>8. last - 1 \in 1 .. n /\ (last - 1) + 1 = last
  <2>1. \A k \in 1 .. n : k > 1 => k - 1 \in 1 .. n /\ (k - 1) + 1 = k
    OBVIOUS
  <2> QED BY <1>6, <1>7, <2>1, Zenon
<1>9. Valid(option, tokens[last])
  <2>1. option # "--verbose"
    BY NoneIsNoOption
  <2> QED BY <1>2, <1>6, <1>7, <1>8, <2>1, Zenon DEF AsksForFrames
<1>10. Asked[tokens][option] = Value(option, tokens[last])
  BY <1>1, <1>3, Zenon DEF Asked
<1> QED
  BY <1>2, <1>6, <1>9, <1>10, Zenon

\* What is asked for can be compared.
LEMMA AskedTypes ==
    ASSUME SenderAssumption, NEW tokens \in AsksForFrames
    PROVE  /\ Asked[tokens]["--count"] \in Nat
           /\ Asked[tokens]["--max-jpeg-bytes"] \in Int
           /\ Limits["--max-jpeg-bytes"][2] \in Int
           /\ Asked[tokens]["--max-jpeg-bytes"] <= Limits["--max-jpeg-bytes"][2]
<1>1. tokens \in Argvs
  BY Zenon DEF AsksForFrames
<1>2. "--count" \in Valued /\ "--max-jpeg-bytes" \in Valued
      /\ "--count" \notin Texts /\ "--max-jpeg-bytes" \notin Texts
  BY DEF Valued, Texts
<1>3. \A option \in Valued : Given(tokens, option) = {} => Asked[tokens][option] = Defaults[option]
  BY <1>1, Zenon DEF Asked
<1>4. Limits["--max-jpeg-bytes"][2] \in Int
  <2>1. "--max-jpeg-bytes" \in Valued \ (Texts \cup {"--count"})
    BY DEF Valued, Texts
  <2>2. Limits["--max-jpeg-bytes"] \in Int \X Int
    BY <2>1 DEF SenderAssumption
  <2> QED BY <2>2
<1>5. Defaults["--count"] = 0 /\ Defaults["--max-jpeg-bytes"] = Limits["--max-jpeg-bytes"][2]
  BY DEF Defaults, Valued, Texts
<1>6. Asked[tokens]["--count"] \in Nat
  <2>1. CASE Given(tokens, "--count") = {}
    BY <1>2, <1>3, <1>5, <2>1
  <2>2. CASE Given(tokens, "--count") # {}
    <3>1. PICK token \in Token : /\ Valid("--count", token)
                                 /\ Asked[tokens]["--count"] = Value("--count", token)
      BY <1>2, <2>2, LastGiven, Zenon
    <3> QED BY <1>2, <3>1, ValueType
  <2> QED BY <2>1, <2>2
<1>7. CASE Given(tokens, "--max-jpeg-bytes") = {}
  <2>1. Asked[tokens]["--max-jpeg-bytes"] = Limits["--max-jpeg-bytes"][2]
    BY <1>2, <1>3, <1>5, <1>7, Zenon
  <2> QED BY <1>4, <1>6, <2>1
<1>8. CASE Given(tokens, "--max-jpeg-bytes") # {}
  <2>1. PICK token \in Token :
            /\ Valid("--max-jpeg-bytes", token)
            /\ Asked[tokens]["--max-jpeg-bytes"] = Value("--max-jpeg-bytes", token)
    BY <1>2, <1>8, LastGiven, Zenon
  <2> QED BY <1>2, <1>4, <1>6, <2>1, ValueType
<1> QED
  BY <1>7, <1>8

\* A command line is taken if all of it is right, and then as what it asks for.
LEMMA ParsedAsAsked ==
    ASSUME SenderAssumption, NEW tokens \in Argvs
    PROVE  /\ DOMAIN parse_cli[tokens].options = Valued
           /\ parse_cli[tokens].result = "success" <=> tokens \in AsksForFrames
           /\ parse_cli[tokens].result = "success" => parse_cli[tokens].options = Asked[tokens]
<1>1. PICK n \in Nat : n = Len(tokens) /\ DOMAIN tokens = 1 .. n
  BY TokensAre
<1>2. PICK h \in [0 .. n -> Parsed] :
         /\ h[0] = FirstParsed
         /\ \A k \in 1 .. n : h[k] = Take(h[k - 1], tokens[k])
         /\ FoldLeft(Take, [result |-> "success", option |-> "none",
                            options |-> Defaults], tokens) = h[n]
  BY <1>1, TakeSteps, Zenon
<1> DEFINE T == {k \in 0 .. n : ParsedRight(tokens, k, h[k])}
<1>3. 0 \in T
  <2>1. 1 .. 0 = {} /\ 0 \in 0 .. n /\ ~(0 > 0)
    OBVIOUS
  <2>2. /\ FirstParsed.result = "success" /\ FirstParsed.option = "none"
        /\ FirstParsed.options = Defaults
    BY DEF FirstParsed
  <2>3. \A option \in Valued : Defaults[option] = AskedBefore(tokens, 0, option)
    BY <2>1, Zenon DEF AskedBefore, GivenBefore
  <2>4. ParsedRight(tokens, 0, FirstParsed)
    BY <2>1, <2>2, <2>3, Zenon DEF ParsedRight, Waiting
  <2> QED BY <1>2, <2>1, <2>4, Zenon
<1>4. ASSUME NEW k \in 1 .. n, k - 1 \in T
      PROVE  k \in T
  <2>1. k \in 0 .. n /\ k - 1 \in 0 .. n
    OBVIOUS
  <2>2. h[k - 1] \in Parsed /\ ParsedRight(tokens, k - 1, h[k - 1])
    BY <1>4, <2>1, Zenon
  <2>3. k \in 1 .. Len(tokens)
    BY <1>1
  <2>4. ParsedRight(tokens, k, Take(h[k - 1], tokens[k]))
    BY <2>2, <2>3, ParseMore, Zenon
  <2> QED BY <1>2, <2>1, <2>4, Zenon
<1>5. n \in T
  <2>1. n \in 0 .. n
    OBVIOUS
  <2> HIDE DEF T
  <2> QED BY <1>3, <1>4, <2>1, AllNumbers, Zenon
<1>6. PICK p \in Parsed : p = h[n] /\ ParsedRight(tokens, n, p)
  <2>1. n \in 0 .. n
    OBVIOUS
  <2> QED BY <1>5, <2>1, Zenon
<1>7. parse_cli[tokens] = IF /\ p.result = "success"
                             /\ p.option # "none" \/ p.options["--jpeg-file"] = ""
                          THEN [p EXCEPT !.result = "error"] ELSE p
  BY <1>2, <1>6, Zenon DEF parse_cli
<1>8. /\ p.result = "success" /\ p.option = "none" /\ p.options["--jpeg-file"] # ""
             => parse_cli[tokens].result = "success" /\ parse_cli[tokens].options = p.options
      /\ parse_cli[tokens].result = "success"
             => p.result = "success" /\ p.option = "none" /\ p.options["--jpeg-file"] # ""
      /\ DOMAIN parse_cli[tokens].options = Valued
  <2>1. p.options \in [Valued -> Options]
    BY DEF Parsed
  <2>2. DOMAIN p.options = Valued
    BY <2>1, Zenon
  <2>3. CASE p.result = "success" /\ (p.option # "none" \/ p.options["--jpeg-file"] = "")
    <3>1. parse_cli[tokens] = [p EXCEPT !.result = "error"]
      BY <1>7, <2>3, Zenon
    <3>2. parse_cli[tokens].result = "error" /\ parse_cli[tokens].options = p.options
      BY <3>1 DEF Parsed
    <3> HIDE DEF Parsed
    <3>3. parse_cli[tokens].result # "success"
      BY <3>2
    <3> QED BY <2>2, <2>3, <3>2, <3>3, Zenon
  <2>4. CASE ~(p.result = "success" /\ (p.option # "none" \/ p.options["--jpeg-file"] = ""))
    BY <1>7, <2>2, <2>4, Zenon
  <2> QED BY <2>3, <2>4
<1>9. "--jpeg-file" \in Valued /\ Defaults["--jpeg-file"] = ""
  BY DEF Valued, Texts, Defaults
<1>10. ASSUME p.result = "success"
       PROVE  p.options = Asked[tokens]
  <2>1. \A option \in Valued : GivenBefore(tokens, n, option) = Given(tokens, option)
    BY <1>1, ValuesAre, Zenon DEF Given, GivenBefore
  <2>2. \A option \in Valued : p.options[option] = Asked[tokens][option]
    BY <1>6, <1>10, <2>1, Zenon DEF ParsedRight, AskedBefore, Asked
  <2>3. p.options \in [Valued -> Options]
    BY DEF Parsed
  <2>4. p.options = [option \in Valued |-> p.options[option]]
    BY <2>3, Zenon
  <2>5. Asked[tokens] = [option \in Valued |-> Asked[tokens][option]]
    BY Zenon DEF Asked
  <2> QED BY <2>2, <2>4, <2>5, Zenon
<1>11. ASSUME p.result = "success", p.option = "none", p.options["--jpeg-file"] # ""
       PROVE  tokens \in AsksForFrames
  <2>1. Given(tokens, "--jpeg-file") # {}
    BY <1>9, <1>10, <1>11, Zenon DEF Asked
  <2>2. ASSUME NEW i \in DOMAIN tokens \ Values(tokens)
        PROVE  \/ tokens[i].text = "--verbose"
               \/ /\ tokens[i].text \in Valued /\ i + 1 \in DOMAIN tokens
                  /\ Valid(tokens[i].text, tokens[i + 1])
    <3>1. RightToken(tokens, i, n)
      BY <1>1, <1>6, <1>11, Zenon DEF ParsedRight
    <3>2. i \in 1 .. n /\ (i = n => n > 0) /\ (i # n => i + 1 \in 1 .. n)
      BY <1>1
    <3>3. tokens[i].text \in Valued => i # n
      BY <1>6, <1>11, <3>2, NoneIsNoOption, Zenon DEF ParsedRight, Waiting
    <3> QED BY <1>1, <3>1, <3>2, <3>3, Zenon DEF RightToken
  <2> QED BY <2>1, <2>2, Zenon DEF AsksForFrames
<1>12. ASSUME tokens \in AsksForFrames
       PROVE  p.result = "success" /\ p.option = "none" /\ p.options["--jpeg-file"] # ""
  <2>1. ~SomeWrong(tokens)
    BY <1>12, Zenon DEF AsksForFrames, SomeWrong
  <2>2. p.result = "success"
    BY <1>6, <2>1, Zenon DEF ParsedRight
  <2>3. ~Waiting(tokens, n)
    <3> SUFFICES ASSUME Waiting(tokens, n) PROVE FALSE
      OBVIOUS
    <3>1. n \in 1 .. n /\ n + 1 \notin 1 .. n
      BY DEF Waiting
    <3>2. n \notin Values(tokens) /\ tokens[n].text \in Valued
      BY Zenon DEF Waiting
    <3>3. tokens[n].text # "--verbose"
      BY <3>2, NoneIsNoOption
    <3> QED BY <1>1, <2>1, <3>1, <3>2, <3>3, Zenon DEF SomeWrong
  <2>4. p.option = "none"
    BY <1>6, <2>2, <2>3, Zenon DEF ParsedRight
  <2>5. Given(tokens, "--jpeg-file") # {}
    BY <1>12, Zenon DEF AsksForFrames
  <2>6. PICK token \in Token : /\ Valid("--jpeg-file", token)
                               /\ Asked[tokens]["--jpeg-file"] = Value("--jpeg-file", token)
    BY <1>9, <1>12, <2>5, LastGiven, Zenon
  <2>7. "--jpeg-file" \in Texts
    BY DEF Texts
  <2>8. Asked[tokens]["--jpeg-file"] # ""
    BY <2>6, <2>7, Zenon DEF Valid, Value
  <2> QED BY <1>10, <2>2, <2>4, <2>8, Zenon
<1> QED
  BY <1>8, <1>10, <1>11, <1>12, Zenon

-----------------------------------------------------------------------------
\* What is known of a state: main is in the loop; it has decided on a frame.
Looping == stage \in {"loop", "connect", "open", "read", "header", "payload", "pace", "retry"}
Decided == stage \in {"connect", "open", "read", "header", "payload"}

\* There is a peer as long as there is a socket, which is closed at every end, and the
\* last connection is not lost.
SocketsTrue ==
    /\ socket = 0 <=> peer = "none"
    /\ ~Looping => socket = 0
    /\ Looping /\ socket = 0 => opened < MaxConnections
    /\ peer \in {"closed", "reset"} => opened < MaxConnections
    /\ stage = "connect" => socket = 0
    /\ stage \in {"open", "read", "header", "payload", "pace"} => socket # 0
    /\ stage = "args" => opened = 0 /\ frames_sent = 0

\* What it does is what it was asked for, and not more.
AsAsked ==
    /\ Looping \/ opened > 0 =>
          /\ argv \in AsksForFrames /\ options = Asked[argv]
          /\ options["--count"] # 0 =>
                /\ frames_sent <= options["--count"]
                /\ Decided => frames_sent < options["--count"]
    /\ Decided => frames_sent < MaxFrames
    /\ stage = "success" /\ argv \in AsksForFrames =>
          g_should_stop \/ frames_sent = Asked[argv]["--count"]

\* The lengths that frames have.
LengthsTrue ==
    /\ stage \in {"read", "header", "payload"} => jpeg_length > 0
    /\ \A c \in Sockets : \A k \in DOMAIN frames[c] :
          0 < frames[c][k] /\ frames[c][k] <= Asked[argv]["--max-jpeg-bytes"]

\* What is written and what remains are the frames begun; the last of them is in hand.
RestRemains ==
    LET s == frames[socket]
    IN  IF stage \notin {"header", "payload"} THEN written[socket] = Producer!Total(s)
        ELSE /\ s # <<>> /\ s[Len(s)] = jpeg_length /\ remaining > 0
             /\ stage = "header" =>
                   /\ remaining <= PrefixLength
                   /\ written[socket] + remaining + jpeg_length = Producer!Total(s)
             /\ stage = "payload" =>
                   /\ remaining <= jpeg_length
                   /\ written[socket] + remaining = Producer!Total(s)

Framed ==
    /\ socket # 0 => RestRemains
    /\ \A c \in Sockets : c > opened => frames[c] = <<>> /\ written[c] = 0

\* The frames counted are those that are written whole.
Carried == [c \in Sockets |-> Cardinality(Whole(c))]
Counted == frames_sent = Producer!Sum(Carried)

SenderInvariant ==
    TypeOK /\ SocketsTrue /\ AsAsked /\ LengthsTrue /\ Framed /\ Counted
-----------------------------------------------------------------------------
\* The constants are numbers.
LEMMA SenderConstants ==
    ASSUME SenderAssumption
    PROVE  /\ PrefixLength \in Nat /\ PrefixLength > 0
           /\ MaxConnections \in Nat /\ MaxConnections > 0
           /\ MaxFrames \in Nat /\ MaxFrames > 0 /\ Addresses \in Nat /\ Addresses > 0
           /\ \A length \in FileLengths : length \in Nat
           /\ \A s \in Seq(FileLengths) : s \in Seq(Nat)
<1>1. FileLengths \subseteq Nat
  BY DEF SenderAssumption
<1>2. \A s \in Seq(FileLengths) : s \in Seq(Nat)
  <2> SUFFICES ASSUME NEW s \in Seq(FileLengths) PROVE s \in Seq(Nat)
    OBVIOUS
  <2>1. PICK n \in Nat : s \in [1 .. n -> FileLengths]
    OBVIOUS
  <2>2. s \in [1 .. n -> Nat]
    BY <1>1, <2>1, Zenon
  <2> QED BY <2>2
<1> QED
  BY <1>1, <1>2 DEF SenderAssumption

\* Each variable keeps its type.
LEMMA SenderTypesInit ==
    ASSUME SenderAssumption, SenderInit
    PROVE  TypeOK
<1>1. DOMAIN Defaults = Valued
  BY DEF Defaults
<1>2. DOMAIN options = Valued
  BY <1>1 DEF SenderInit
<1>3. frames \in [Sockets -> Seq(FileLengths)] /\ written \in [Sockets -> Nat]
  <2>1. <<>> \in Seq(FileLengths) /\ 0 \in Nat
    OBVIOUS
  <2> QED BY <2>1, Zenon DEF SenderInit
<1>4. /\ frames_sent \in 0 .. MaxFrames /\ entries \in 0 .. Addresses /\ remaining \in Nat
      /\ opened \in {0} \cup Sockets /\ socket \in {0, opened}
  BY SenderConstants DEF SenderInit
<1> QED
  BY <1>2, <1>3, <1>4 DEF SenderInit, TypeOK

\* Lengths and bytes are numbers.
LEMMA SenderNumbers ==
    ASSUME SenderAssumption, TypeOK
    PROVE  /\ jpeg_length \in Nat /\ file \in Nat /\ remaining \in Nat
           /\ DOMAIN frames = Sockets /\ DOMAIN written = Sockets
           /\ \A c \in Sockets : frames[c] \in Seq(Nat) /\ written[c] \in Nat
<1>1. /\ jpeg_length \in FileLengths \/ jpeg_length = 0
      /\ file \in FileLengths /\ remaining \in Nat
      /\ frames \in [Sockets -> Seq(FileLengths)] /\ written \in [Sockets -> Nat]
  BY DEF TypeOK
<1>2. \A c \in Sockets : frames[c] \in Seq(FileLengths) /\ written[c] \in Nat
  BY <1>1, Zenon
<1>3. DOMAIN frames = Sockets /\ DOMAIN written = Sockets
  BY <1>1, Zenon
<1>4. 0 \in Nat
  OBVIOUS
<1> QED
  BY <1>1, <1>2, <1>3, <1>4, SenderConstants, Zenon

\* The type invariant by what actions change together.
HereTyped ==
    /\ platform \in {"posix", "windows"} /\ argv \in Argvs /\ DOMAIN options = Valued
    /\ g_should_stop \in BOOLEAN /\ file \in FileLengths /\ reachable \in BOOLEAN
    /\ peer \in {"none", "reading", "stalled", "closed", "reset"}
PlaceTyped ==
    /\ stage \in {"args", "loop", "connect", "open", "read", "header", "payload", "pace",
                  "retry", "success", "failure", "killed"}
    /\ frames_sent \in 0 .. MaxFrames /\ entries \in 0 .. Addresses
    /\ opened \in {0} \cup Sockets /\ socket \in {0, opened}
FrameTyped == jpeg_length \in FileLengths \cup {0} /\ remaining \in Nat
HistoryTyped == frames \in [Sockets -> Seq(FileLengths)] /\ written \in [Sockets -> Nat]

LEMMA SenderTypesStep ==
    ASSUME SenderAssumption, TypeOK, SocketsTrue, AsAsked, LengthsTrue, [SenderNext]_sender
    PROVE  TypeOK'
<1> USE DEF orders, connection, frame, counters, world, history
<1>1. /\ HereTyped /\ PlaceTyped /\ FrameTyped /\ HistoryTyped
  BY DEF TypeOK, HereTyped, PlaceTyped, FrameTyped, HistoryTyped
<1>2. MaxConnections \in Nat /\ MaxFrames \in Nat /\ Addresses \in Nat
  BY SenderConstants
<1>3. ASSUME HereTyped', PlaceTyped', FrameTyped', HistoryTyped'
      PROVE  TypeOK'
  BY <1>3, Zenon DEF TypeOK, HereTyped, PlaceTyped, FrameTyped, HistoryTyped
<1>4. /\ UNCHANGED <<platform, argv, orders, world, peer>> => HereTyped'
      /\ UNCHANGED <<stage, counters, socket>> => PlaceTyped'
      /\ UNCHANGED frame => FrameTyped'
      /\ UNCHANGED history => HistoryTyped'
  BY <1>1 DEF HereTyped, PlaceTyped, FrameTyped, HistoryTyped
<1>5. ASSUME Main
      PROVE  TypeOK'
  <2> USE <1>5 DEF Main
  <2>1. CASE Begin
    <3>1. DOMAIN options' = Valued
      <4>1. argv \in Argvs /\ options' = parse_cli[argv].options
        BY <1>1, <2>1, Zenon DEF HereTyped, Begin
      <4> QED BY <4>1, ParsedAsAsked
    <3>2. HereTyped'
      BY <1>1, <2>1, <3>1 DEF HereTyped, Begin
    <3>3. stage' \in {"success", "loop", "failure"} /\ UNCHANGED <<counters, socket>>
      BY <2>1, Zenon DEF Begin
    <3>4. PlaceTyped'
      BY <1>1, <3>3 DEF PlaceTyped
    <3> QED BY <1>3, <1>4, <2>1, <3>2, <3>4, Zenon DEF Begin
  <2>2. CASE Loop
    <3>1. HereTyped'
      BY <1>1, <2>2 DEF HereTyped, Loop
    <3>2. /\ stage' \in {"success", "open", "connect"} /\ UNCHANGED <<frames_sent, opened>>
          /\ entries' \in {entries, Addresses, 0} /\ socket' \in {socket, 0}
      BY <2>2 DEF Loop
    <3>3. PlaceTyped'
      BY <1>1, <1>2, <3>2 DEF PlaceTyped
    <3> QED BY <1>3, <1>4, <2>2, <3>1, <3>3, Zenon DEF Loop
  <2>3. CASE Connected
    <3>1. HereTyped'
      BY <1>1, <2>3 DEF HereTyped, Connected
    <3>2. opened < MaxConnections
      BY <2>3 DEF Connected, SocketsTrue, Looping
    <3>3. PlaceTyped'
      BY <1>1, <1>2, <2>3, <3>2 DEF PlaceTyped, Connected, Sockets
    <3> QED BY <1>3, <1>4, <2>3, <3>1, <3>3, Zenon DEF Connected
  <2>4. CASE NotConnected
    <3>1. PlaceTyped'
      BY <1>1, <1>2, <2>4 DEF PlaceTyped, NotConnected, NextAddress
    <3> QED BY <1>3, <1>4, <2>4, <3>1, Zenon DEF NotConnected
  <2>5. CASE OpenFile
    <3>1. stage' \in {"retry", "read"} /\ jpeg_length' \in {jpeg_length, file}
      BY <2>5 DEF OpenFile
    <3>2. PlaceTyped'
      BY <1>1, <2>5, <3>1 DEF PlaceTyped, OpenFile
    <3>3. FrameTyped'
      BY <1>1, <2>5, <3>1 DEF FrameTyped, HereTyped, OpenFile
    <3> QED BY <1>3, <1>4, <2>5, <3>2, <3>3, Zenon DEF OpenFile
  <2>6. CASE ReadFile
    <3>1. HistoryTyped'
      <4>1. CASE UNCHANGED frames
        BY <1>4, <2>6, <4>1, Zenon DEF ReadFile
      <4>2. CASE frames' = [frames EXCEPT ![socket] = Append(@, jpeg_length)]
        <5>1. socket \in Sockets /\ jpeg_length \in FileLengths
          BY <1>1, <2>6 DEF ReadFile, SocketsTrue, LengthsTrue, PlaceTyped, FrameTyped
        <5>2. frames[socket] \in Seq(FileLengths)
          BY <1>1, <5>1, Zenon DEF HistoryTyped
        <5>3. Append(frames[socket], jpeg_length) \in Seq(FileLengths)
          BY <5>1, <5>2
        <5>4. frames' \in [Sockets -> Seq(FileLengths)]
          BY <1>1, <4>2, <5>3, Zenon DEF HistoryTyped
        <5>5. UNCHANGED written
          BY <2>6, Zenon DEF ReadFile
        <5> QED BY <1>1, <5>4, <5>5, Zenon DEF HistoryTyped
      <4> QED BY <2>6, <4>1, <4>2, Zenon DEF ReadFile
    <3>2. /\ stage' \in {"header", "retry"} /\ remaining' \in {remaining, PrefixLength}
          /\ jpeg_length' \in {jpeg_length, 0} /\ UNCHANGED <<counters, socket>>
      BY <2>6, Zenon DEF ReadFile
    <3>3. PlaceTyped'
      BY <1>1, <3>2 DEF PlaceTyped
    <3>4. FrameTyped'
      BY <1>1, <3>2, SenderConstants, Zenon DEF FrameTyped
    <3> QED BY <1>3, <1>4, <2>6, <3>1, <3>3, <3>4, Zenon DEF ReadFile
  <2>7. CASE Send
    <3>1. PICK bytes \in 1 .. remaining :
             /\ written' = [written EXCEPT ![socket] = @ + bytes]
             /\ \/ /\ bytes < remaining /\ remaining' = remaining - bytes
                   /\ UNCHANGED <<stage, frames_sent, jpeg_length>>
                \/ /\ bytes = remaining /\ stage = "header"
                   /\ stage' = "payload" /\ remaining' = jpeg_length
                   /\ UNCHANGED <<frames_sent, jpeg_length>>
                \/ /\ bytes = remaining /\ stage = "payload"
                   /\ frames_sent' = frames_sent + 1 /\ jpeg_length' = 0 /\ remaining' = 0
                   /\ stage' = IF ~g_should_stop /\ More(frames_sent + 1) THEN "pace" ELSE "loop"
      BY <2>7, Zenon DEF Send
    <3>2. UNCHANGED <<platform, argv, orders, world, connection, entries, opened, frames>>
      BY <2>7, Zenon DEF Send
    <3>3. socket \in Sockets /\ frames_sent < MaxFrames
      BY <1>1, <2>7 DEF Send, SocketsTrue, PlaceTyped, AsAsked, Decided
    <3>4. HistoryTyped'
      <4>1. written[socket] \in Nat
        BY <1>1, <3>3, Zenon DEF HistoryTyped
      <4>2. written[socket] + bytes \in Nat
        BY <4>1
      <4>3. written' \in [Sockets -> Nat]
        BY <1>1, <3>1, <4>2, Zenon DEF HistoryTyped
      <4> QED BY <1>1, <3>2, <4>3, Zenon DEF HistoryTyped
    <3>5. CASE /\ UNCHANGED <<frames_sent, jpeg_length>> /\ stage' \in {stage, "payload"}
               /\ \/ bytes < remaining /\ remaining' = remaining - bytes
                  \/ remaining' = jpeg_length
      <4>1. jpeg_length \in Nat
        BY SenderNumbers
      <4>2. FrameTyped'
        BY <1>1, <3>5, <4>1 DEF FrameTyped
      <4>3. PlaceTyped'
        BY <1>1, <3>2, <3>5 DEF PlaceTyped
      <4> QED BY <1>3, <1>4, <3>2, <3>4, <4>2, <4>3, Zenon
    <3>6. CASE /\ frames_sent' = frames_sent + 1 /\ jpeg_length' = 0 /\ remaining' = 0
               /\ stage' \in {"pace", "loop"}
      <4>1. FrameTyped'
        BY <3>6 DEF FrameTyped
      <4>2. PlaceTyped'
        BY <1>1, <1>2, <3>2, <3>3, <3>6 DEF PlaceTyped
      <4> QED BY <1>3, <1>4, <3>2, <3>4, <4>1, <4>2, Zenon
    <3>7. (IF ~g_should_stop /\ More(frames_sent + 1) THEN "pace" ELSE "loop") \in {"pace", "loop"}
      OBVIOUS
    <3> QED BY <3>1, <3>5, <3>6, <3>7, Zenon
  <2>8. CASE SendFails
    <3>1. /\ stage' \in {"retry", "killed"} /\ socket' = 0 /\ peer' = "none"
          /\ jpeg_length' = 0 /\ remaining' = 0 /\ UNCHANGED <<orders, counters, history>>
      BY <2>8 DEF SendFails, Drop
    <3>2. HereTyped' /\ FrameTyped'
      BY <1>1, <3>1 DEF HereTyped, FrameTyped
    <3>3. PlaceTyped'
      BY <1>1, <3>1 DEF PlaceTyped
    <3> QED BY <1>3, <1>4, <3>1, <3>2, <3>3, Zenon
  <2>9. CASE Wake
    <3>1. stage' = "loop" /\ UNCHANGED <<counters, socket>>
      BY <2>9 DEF Wake, AfterRetry
    <3>2. PlaceTyped'
      BY <1>1, <3>1 DEF PlaceTyped
    <3> QED BY <1>3, <1>4, <2>9, <3>2, Zenon DEF Wake
  <2> QED BY <2>1, <2>2, <2>3, <2>4, <2>5, <2>6, <2>7, <2>8, <2>9
<1>6. ASSUME Around
      PROVE  TypeOK'
  <2>1. /\ UNCHANGED <<platform, argv, socket, frame, counters, history>>
        /\ UNCHANGED options /\ stage' \in {stage, "killed"}
        /\ g_should_stop' \in {g_should_stop, TRUE}
    BY <1>6 DEF Around, Signal, FileChanges, ServiceChanges, PeerChanges
  <2>2. /\ file' \in FileLengths /\ reachable' \in BOOLEAN
        /\ peer' \in {"none", "reading", "stalled", "closed", "reset"}
    BY <1>1, <1>6 DEF Around, Signal, FileChanges, ServiceChanges, PeerChanges, HereTyped
  <2>3. HereTyped'
    BY <1>1, <2>1, <2>2 DEF HereTyped
  <2>4. PlaceTyped'
    BY <1>1, <2>1 DEF PlaceTyped
  <2> QED BY <1>3, <1>4, <2>1, <2>3, <2>4, Zenon
<1>7. CASE UNCHANGED sender
  BY <1>3, <1>4, <1>7, Zenon DEF sender
<1> QED
  BY <1>5, <1>6, <1>7 DEF SenderNext

-----------------------------------------------------------------------------
\* A step keeps the socket and its peer together.
LEMMA SocketsTrueStep ==
    ASSUME SenderAssumption, TypeOK, SocketsTrue, [SenderNext]_sender
    PROVE  SocketsTrue'
<1> USE DEF SocketsTrue, Looping, orders, connection, frame, counters, world, history
<1>1. /\ socket \in {0, opened} /\ opened \in Nat /\ MaxConnections \in Nat /\ MaxConnections > 0
      /\ peer \in {"none", "reading", "stalled", "closed", "reset"}
  BY SenderConstants DEF TypeOK, Sockets
<1>2. ASSUME Main
      PROVE  SocketsTrue'
  <2> USE <1>2 DEF Main
  <2>1. CASE Begin
    <3>1. stage' \in {"success", "loop", "failure"}
      BY <2>1, Zenon DEF Begin
    <3> QED BY <1>1, <2>1, <3>1 DEF Begin
  <2>2. CASE Loop
    BY <1>1, <2>2 DEF Loop
  <2>3. CASE Connected
    BY <1>1, <2>3 DEF Connected
  <2>4. CASE NotConnected
    BY <1>1, <2>4 DEF NotConnected, NextAddress
  <2>5. CASE OpenFile
    BY <1>1, <2>5 DEF OpenFile
  <2>6. CASE ReadFile
    <3>1. stage' \in {"header", "retry"}
      BY <2>6, Zenon DEF ReadFile
    <3> QED BY <1>1, <2>6, <3>1 DEF ReadFile
  <2>7. CASE Send
    <3>1. stage' \in {"header", "payload", "pace", "loop"}
      BY <2>7 DEF Send
    <3> QED BY <1>1, <2>7, <3>1 DEF Send
  <2>8. CASE SendFails
    BY <1>1, <2>8 DEF SendFails, Drop
  <2>9. CASE Wake
    BY <1>1, <2>9 DEF Wake, AfterRetry
  <2> QED BY <2>1, <2>2, <2>3, <2>4, <2>5, <2>6, <2>7, <2>8, <2>9
<1>3. ASSUME Around
      PROVE  SocketsTrue'
  <2> USE <1>3 DEF Around
  <2>1. CASE Signal
    BY <1>1, <2>1 DEF Signal
  <2>2. CASE FileChanges
    BY <1>1, <2>2 DEF FileChanges
  <2>3. CASE ServiceChanges
    BY <1>1, <2>3 DEF ServiceChanges
  <2>4. CASE PeerChanges
    BY <1>1, <2>4 DEF PeerChanges
  <2> QED BY <2>1, <2>2, <2>3, <2>4
<1>4. CASE UNCHANGED sender
  BY <1>4 DEF sender
<1> QED
  BY <1>2, <1>3, <1>4 DEF SenderNext

\* A step stays with what is asked for; a loop begins only with a command line that
\* is right.
LEMMA AsAskedStep ==
    ASSUME SenderAssumption, TypeOK, SocketsTrue, AsAsked, [SenderNext]_sender
    PROVE  AsAsked'
<1> USE DEF Looping, Decided, orders, connection, frame, counters, world, history
<1>1. /\ frames_sent \in Nat /\ MaxFrames \in Nat /\ opened \in Nat /\ g_should_stop \in BOOLEAN
      /\ argv \in Argvs
  BY SenderConstants DEF TypeOK, Sockets
<1>2. argv \in AsksForFrames => Asked[argv]["--count"] \in Nat
  BY AskedTypes
<1>3. ASSUME Main
      PROVE  AsAsked'
  <2> USE <1>3 DEF Main
  <2>1. CASE Begin
    <3>1. opened = 0 /\ frames_sent = 0
      BY <2>1 DEF Begin, SocketsTrue
    <3>2. /\ stage' = "loop" => parse_cli[argv].result = "success"
          /\ stage' = "success" => parse_cli[argv].result # "success"
          /\ stage' \in {"success", "loop", "failure"} /\ options' = parse_cli[argv].options
      BY <2>1 DEF Begin
    <3>3. /\ stage' = "loop" => argv \in AsksForFrames /\ options' = Asked[argv]
          /\ stage' = "success" => argv \notin AsksForFrames
      BY <1>1, <3>2, ParsedAsAsked, Zenon
    <3> QED BY <1>2, <2>1, <3>1, <3>2, <3>3 DEF Begin, AsAsked
  <2>2. CASE Loop
    BY <1>1, <1>2, <2>2 DEF Loop, More, AsAsked
  <2>3. CASE Connected
    BY <1>1, <1>2, <2>3 DEF Connected, AsAsked
  <2>4. CASE NotConnected
    BY <1>1, <1>2, <2>4 DEF NotConnected, NextAddress, AsAsked
  <2>5. CASE OpenFile
    BY <1>1, <1>2, <2>5 DEF OpenFile, AsAsked
  <2>6. CASE ReadFile
    <3>1. stage' \in {"header", "retry"}
      BY <2>6, Zenon DEF ReadFile
    <3> QED BY <1>1, <1>2, <2>6, <3>1 DEF ReadFile, AsAsked
  <2>7. CASE Send
    <3>1. \/ stage' \in {"header", "payload"} /\ UNCHANGED frames_sent
          \/ stage' \in {"pace", "loop"} /\ frames_sent' = frames_sent + 1
      BY <2>7 DEF Send
    <3> QED BY <1>1, <1>2, <2>7, <3>1 DEF Send, AsAsked
  <2>8. CASE SendFails
    BY <1>1, <1>2, <2>8 DEF SendFails, AsAsked
  <2>9. CASE Wake
    BY <1>1, <1>2, <2>9 DEF Wake, AfterRetry, AsAsked
  <2> QED BY <2>1, <2>2, <2>3, <2>4, <2>5, <2>6, <2>7, <2>8, <2>9
<1>4. ASSUME Around
      PROVE  AsAsked'
  <2> USE <1>4 DEF Around, AsAsked
  <2>1. CASE Signal
    BY <2>1, <1>1, <1>2 DEF Signal, Ended
  <2>2. CASE FileChanges
    BY <2>2 DEF FileChanges
  <2>3. CASE ServiceChanges
    BY <2>3 DEF ServiceChanges
  <2>4. CASE PeerChanges
    BY <2>4 DEF PeerChanges
  <2> QED BY <2>1, <2>2, <2>3, <2>4
<1>5. CASE UNCHANGED sender
  BY <1>5 DEF sender, AsAsked
<1> QED
  BY <1>3, <1>4, <1>5 DEF SenderNext

-----------------------------------------------------------------------------
\* The frames begun and the bytes written.

\* A step begins no frame that is empty or too long.
LEMMA LengthsTrueStep ==
    ASSUME SenderAssumption, TypeOK, SocketsTrue, AsAsked, LengthsTrue, [SenderNext]_sender
    PROVE  LengthsTrue'
<1> USE DEF orders, connection, frame, counters, world, history
<1>1. /\ jpeg_length \in Nat /\ file \in Nat /\ DOMAIN frames = Sockets
      /\ \A c \in Sockets : frames[c] \in Seq(Nat)
  BY SenderNumbers
<1>2. ASSUME UNCHANGED <<argv, frames>>,
             stage' \in {"read", "header", "payload"} => jpeg_length' > 0
      PROVE  LengthsTrue'
  BY <1>2 DEF LengthsTrue
<1>3. ASSUME Main
      PROVE  LengthsTrue'
  <2> USE <1>3 DEF Main
  <2>1. CASE Begin
    <3>1. stage' \in {"success", "loop", "failure"}
      BY <2>1, Zenon DEF Begin
    <3> QED BY <1>2, <2>1, <3>1 DEF Begin
  <2>2. CASE Loop
    BY <1>2, <2>2 DEF Loop
  <2>3. CASE Connected
    BY <1>2, <2>3 DEF Connected
  <2>4. CASE NotConnected
    BY <1>2, <2>4 DEF NotConnected, NextAddress
  <2>5. CASE OpenFile
    BY <1>1, <1>2, <2>5 DEF OpenFile
  <2>6. CASE ReadFile
    <3>1. CASE UNCHANGED frames
      <4>1. stage' = "header" => UNCHANGED jpeg_length
        BY <2>6 DEF ReadFile
      <4>2. stage' \in {"header", "retry"} /\ jpeg_length > 0
        BY <2>6 DEF ReadFile, LengthsTrue
      <4> QED BY <1>2, <2>6, <3>1, <4>1, <4>2
    <3>2. CASE /\ ~TooLong /\ frames' = [frames EXCEPT ![socket] = Append(@, jpeg_length)]
               /\ UNCHANGED jpeg_length
      <4>1. socket \in Sockets /\ jpeg_length > 0
        BY <2>6 DEF ReadFile, SocketsTrue, LengthsTrue, TypeOK
      <4>2. jpeg_length <= Asked[argv]["--max-jpeg-bytes"]
        <5>1. argv \in AsksForFrames /\ options = Asked[argv]
          BY <2>6 DEF ReadFile, AsAsked, Looping
        <5>2. Asked[argv]["--max-jpeg-bytes"] \in Int
          BY <5>1, AskedTypes
        <5> QED BY <1>1, <3>2, <5>1, <5>2 DEF TooLong
      <4>3. ASSUME NEW c \in Sockets, NEW k \in DOMAIN frames'[c]
            PROVE  0 < frames'[c][k] /\ frames'[c][k] <= Asked[argv]["--max-jpeg-bytes"]
        <5>1. CASE c = socket
          <6>1. frames'[c] = Append(frames[c], jpeg_length)
            BY <1>1, <3>2, <5>1
          <6>2. frames[c] \in Seq(Nat)
            BY <1>1
          <6>3. \/ k \in DOMAIN frames[c] /\ frames'[c][k] = frames[c][k]
                \/ frames'[c][k] = jpeg_length
            BY <6>1, <6>2
          <6> QED BY <4>1, <4>2, <6>3, Zenon DEF LengthsTrue
        <5>2. CASE c # socket
          <6>1. frames'[c] = frames[c]
            BY <1>1, <3>2, <5>2
          <6> QED BY <6>1, Zenon DEF LengthsTrue
        <5> QED BY <5>1, <5>2
      <4> QED BY <3>2, <4>1, <4>3 DEF LengthsTrue
    <3> QED BY <2>6, <3>1, <3>2 DEF ReadFile
  <2>7. CASE Send
    <3>1. \/ UNCHANGED jpeg_length
          \/ stage' \in {"pace", "loop"}
      BY <2>7 DEF Send
    <3>2. jpeg_length > 0
      BY <2>7 DEF Send, LengthsTrue
    <3> QED BY <1>2, <2>7, <3>1, <3>2 DEF Send
  <2>8. CASE SendFails
    BY <1>2, <2>8 DEF SendFails
  <2>9. CASE Wake
    BY <1>2, <2>9 DEF Wake, AfterRetry
  <2> QED BY <2>1, <2>2, <2>3, <2>4, <2>5, <2>6, <2>7, <2>8, <2>9
<1>4. ASSUME Around
      PROVE  LengthsTrue'
  <2> USE <1>4 DEF Around
  <2>1. CASE Signal
    <3>1. stage' \in {stage, "killed"}
      BY <2>1 DEF Signal
    <3> QED BY <1>2, <2>1, <3>1 DEF Signal, LengthsTrue
  <2>2. CASE FileChanges
    BY <1>2, <2>2 DEF FileChanges, LengthsTrue
  <2>3. CASE ServiceChanges
    BY <1>2, <2>3 DEF ServiceChanges, LengthsTrue
  <2>4. CASE PeerChanges
    BY <1>2, <2>4 DEF PeerChanges, LengthsTrue
  <2> QED BY <2>1, <2>2, <2>3, <2>4
<1>5. CASE UNCHANGED sender
  BY <1>2, <1>5 DEF sender, LengthsTrue
<1> QED
  BY <1>3, <1>4, <1>5 DEF SenderNext

\* The steps that begin a frame or write bytes are the only ones that touch what is
\* written, and no other has a frame in hand on a socket that is still there.
LEMMA OthersWriteNothing ==
    ASSUME SenderAssumption, TypeOK, SocketsTrue, [SenderNext]_sender,
           ~(Main /\ ReadFile /\ stage' = "header"), ~(Main /\ Send)
    PROVE  /\ UNCHANGED <<frames, written, frames_sent>>
           /\ \/ socket' = 0 /\ UNCHANGED opened
              \/ UNCHANGED <<socket, opened, stage, jpeg_length, remaining>>
              \/ /\ UNCHANGED <<socket, opened>>
                 /\ stage \notin {"header", "payload"} /\ stage' \notin {"header", "payload"}
              \/ /\ opened' = opened + 1 /\ socket' = opened + 1 /\ opened + 1 \in Sockets
                 /\ stage' = "open" /\ socket = 0
<1> USE DEF orders, connection, frame, counters, world, history
<1>1. ASSUME Main
      PROVE  /\ UNCHANGED <<frames, written, frames_sent>>
             /\ \/ socket' = 0 /\ UNCHANGED opened
                \/ /\ UNCHANGED <<socket, opened>>
                   /\ stage \notin {"header", "payload"} /\ stage' \notin {"header", "payload"}
                \/ /\ opened' = opened + 1 /\ socket' = opened + 1 /\ opened + 1 \in Sockets
                   /\ stage' = "open" /\ socket = 0
  <2> USE <1>1 DEF Main
  <2>1. CASE Begin
    <3>1. stage' \in {"success", "loop", "failure"} /\ stage = "args"
      BY <2>1, Zenon DEF Begin
    <3> QED BY <2>1, <3>1 DEF Begin
  <2>2. CASE Loop
    BY <2>2 DEF Loop
  <2>3. CASE Connected
    <3>1. opened + 1 \in Sockets /\ socket = 0
      BY <2>3, SenderConstants DEF Connected, SocketsTrue, Looping, TypeOK, Sockets
    <3> QED BY <2>3, <3>1 DEF Connected
  <2>4. CASE NotConnected
    BY <2>4 DEF NotConnected, NextAddress
  <2>5. CASE OpenFile
    BY <2>5 DEF OpenFile
  <2>6. CASE ReadFile
    <3>1. stage' = "retry" /\ UNCHANGED <<frames, written, frames_sent, socket, opened>>
          /\ stage = "read"
      BY <2>6, Zenon DEF ReadFile
    <3> QED BY <3>1
  <2>8. CASE SendFails
    BY <2>8 DEF SendFails, Drop
  <2>9. CASE Wake
    BY <2>9 DEF Wake, AfterRetry
  <2> QED BY <2>1, <2>2, <2>3, <2>4, <2>5, <2>6, <2>8, <2>9
<1>2. CASE Around
  BY <1>2 DEF Around, Signal, FileChanges, ServiceChanges, PeerChanges
<1>3. CASE UNCHANGED sender
  BY <1>3 DEF sender
<1> QED
  BY <1>1, <1>2, <1>3, Zenon DEF SenderNext

\* A frame begun.
LEMMA FrameBegun ==
    ASSUME SenderAssumption, TypeOK, SocketsTrue, LengthsTrue, Framed,
           Main, ReadFile, stage' = "header"
    PROVE  /\ socket \in Sockets /\ UNCHANGED <<socket, opened, written, frames_sent>>
           /\ frames[socket] \in Seq(Nat) /\ written[socket] = Producer!Total(frames[socket])
           /\ frames' = [frames EXCEPT ![socket] = Append(@, jpeg_length)]
           /\ jpeg_length \in Nat /\ jpeg_length > 0 /\ UNCHANGED jpeg_length
           /\ stage' = "header" /\ remaining' = PrefixLength /\ ~TooLong
<1> USE DEF orders, connection, frame, counters, world, history
<1>1. socket \in Sockets /\ socket # 0
  BY DEF ReadFile, SocketsTrue, TypeOK
<1>2. /\ frames' = [frames EXCEPT ![socket] = Append(@, jpeg_length)] /\ ~TooLong
      /\ stage' = "header" /\ remaining' = PrefixLength
      /\ UNCHANGED <<jpeg_length, socket, opened, written, frames_sent>>
  BY Zenon DEF ReadFile
<1>3. jpeg_length > 0
  BY DEF ReadFile, LengthsTrue
<1>4. frames[socket] \in Seq(Nat) /\ jpeg_length \in Nat
  BY <1>1, SenderNumbers
<1>5. stage \notin {"header", "payload"}
  BY DEF ReadFile
<1>6. written[socket] = Producer!Total(frames[socket])
  BY <1>1, <1>5, Zenon DEF Framed, RestRemains
<1> QED
  BY <1>1, <1>2, <1>3, <1>4, <1>6, Zenon

\* Bytes written: s are the frames begun and total what they take.
LEMMA BytesWritten ==
    ASSUME SenderAssumption, TypeOK, SocketsTrue, LengthsTrue, Framed, Main, Send
    PROVE  LET s == frames[socket]
           IN /\ socket \in Sockets /\ UNCHANGED <<socket, opened, frames>>
              /\ s \in Seq(Nat) /\ Len(s) \in Nat /\ Len(s) > 0 /\ jpeg_length \in Nat
              /\ jpeg_length > 0 /\ jpeg_length = s[Len(s)]
              /\ \E bytes \in 1 .. remaining :
                    /\ written' = [written EXCEPT ![socket] = @ + bytes]
                    /\ \/ /\ stage = "header" /\ remaining <= PrefixLength
                          /\ written[socket] + remaining + jpeg_length = Producer!Total(s)
                       \/ /\ stage = "payload" /\ remaining <= jpeg_length
                          /\ written[socket] + remaining = Producer!Total(s)
                    /\ \/ /\ bytes < remaining /\ remaining' = remaining - bytes
                          /\ UNCHANGED <<stage, frames_sent, jpeg_length>>
                       \/ /\ bytes = remaining /\ stage = "header"
                          /\ stage' = "payload" /\ remaining' = jpeg_length
                          /\ UNCHANGED <<frames_sent, jpeg_length>>
                       \/ /\ bytes = remaining /\ stage = "payload"
                          /\ frames_sent' = frames_sent + 1 /\ stage' \in {"pace", "loop"}
<1> USE DEF orders, connection, frame, counters, world, history
<1>1. socket \in Sockets /\ socket # 0 /\ stage \in {"header", "payload"}
  BY DEF Send, SocketsTrue, TypeOK
<1>2. UNCHANGED <<socket, opened, frames>>
  BY Zenon DEF Send
<1>3. jpeg_length > 0
  BY <1>1 DEF LengthsTrue
<1>4. frames[socket] \in Seq(Nat) /\ jpeg_length \in Nat
  BY <1>1, SenderNumbers
<1>5. RestRemains
  BY <1>1, Zenon DEF Framed
<1>6. /\ frames[socket] # <<>> /\ jpeg_length = frames[socket][Len(frames[socket])]
      /\ \/ /\ stage = "header" /\ remaining <= PrefixLength
            /\ written[socket] + remaining + jpeg_length = Producer!Total(frames[socket])
         \/ /\ stage = "payload" /\ remaining <= jpeg_length
            /\ written[socket] + remaining = Producer!Total(frames[socket])
  BY <1>1, <1>5 DEF RestRemains
<1>7. Len(frames[socket]) \in Nat /\ Len(frames[socket]) > 0
  BY <1>4, <1>6
<1>8. PICK bytes \in 1 .. remaining :
         /\ written' = [written EXCEPT ![socket] = @ + bytes]
         /\ \/ /\ bytes < remaining /\ remaining' = remaining - bytes
               /\ UNCHANGED <<stage, frames_sent, jpeg_length>>
            \/ /\ bytes = remaining /\ stage = "header"
               /\ stage' = "payload" /\ remaining' = jpeg_length
               /\ UNCHANGED <<frames_sent, jpeg_length>>
            \/ /\ bytes = remaining /\ stage = "payload"
               /\ frames_sent' = frames_sent + 1 /\ jpeg_length' = 0 /\ remaining' = 0
               /\ stage' = IF ~g_should_stop /\ More(frames_sent + 1) THEN "pace" ELSE "loop"
  BY Zenon DEF Send
<1>9. (IF ~g_should_stop /\ More(frames_sent + 1) THEN "pace" ELSE "loop") \in {"pace", "loop"}
  OBVIOUS
<1> QED
  BY <1>1, <1>2, <1>3, <1>4, <1>6, <1>7, <1>8, <1>9, Zenon

\* A step keeps what is written and what remains equal to the frames begun.
LEMMA FramedStep ==
    ASSUME SenderAssumption, TypeOK, SocketsTrue, LengthsTrue, Framed, [SenderNext]_sender
    PROVE  Framed'
<1>1. /\ DOMAIN frames = Sockets /\ DOMAIN written = Sockets /\ opened \in Nat
      /\ socket \in {0, opened} /\ remaining \in Nat
      /\ \A c \in Sockets : c \in Nat /\ frames[c] \in Seq(Nat) /\ written[c] \in Nat
  <2>1. \A c \in Sockets : c \in Nat
    BY DEF Sockets
  <2>2. opened \in Nat /\ socket \in {0, opened}
    BY DEF TypeOK, Sockets
  <2> QED BY <2>1, <2>2, SenderNumbers, Zenon
<1>2. CASE Main /\ ReadFile /\ stage' = "header"
  <2>1. /\ socket \in Sockets /\ UNCHANGED <<socket, opened, written, frames_sent>>
        /\ frames[socket] \in Seq(Nat) /\ written[socket] = Producer!Total(frames[socket])
        /\ frames' = [frames EXCEPT ![socket] = Append(@, jpeg_length)]
        /\ jpeg_length \in Nat /\ jpeg_length > 0 /\ UNCHANGED jpeg_length
        /\ stage' = "header" /\ remaining' = PrefixLength /\ ~TooLong
    BY <1>2, FrameBegun, Zenon
  <2> DEFINE s == frames[socket]
             t == Append(s, jpeg_length)
  <2>2. frames'[socket] = t /\ \A c \in Sockets : c # socket => frames'[c] = frames[c]
    BY <1>1, <2>1
  <2>3. t # <<>> /\ t[Len(t)] = jpeg_length
    BY <2>1
  <2>4. Producer!Total(t) = Producer!Total(s) + (PrefixLength + jpeg_length)
    BY <2>1, TotalOfMore, Zenon
  <2>5. Producer!Total(s) \in Nat
    BY <2>1, TotalFacts, Zenon
  <2>6. written[socket] + PrefixLength + jpeg_length = Producer!Total(t)
    <3> HIDE DEF t, s
    <3> QED BY <2>1, <2>4, <2>5, SenderConstants DEF s
  <2>7. /\ t # <<>> /\ t[Len(t)] = jpeg_length /\ remaining' > 0 /\ remaining' <= PrefixLength
    BY <2>1, <2>3, SenderConstants
  <2>8. RestRemains'
    <3>1. frames'[socket'] = t /\ written'[socket'] = written[socket]
      BY <2>1, <2>2, Zenon
    <3>2. stage' = "header" /\ jpeg_length' = jpeg_length /\ remaining' = PrefixLength
      BY <2>1, Zenon
    <3> HIDE DEF t, s
    <3> QED BY <2>6, <2>7, <3>1, <3>2 DEF RestRemains
  <2>9. \A c \in Sockets : c > opened' => frames'[c] = <<>> /\ written'[c] = 0
    <3>1. \A c \in Sockets : c > opened => c # socket
      BY <1>1, <2>1
    <3> QED BY <2>1, <2>2, <3>1, Zenon DEF Framed
  <2> QED BY <2>8, <2>9, Zenon DEF Framed
<1>3. CASE Main /\ Send
  <2> DEFINE s == frames[socket]
  <2>1. /\ socket \in Sockets /\ UNCHANGED <<socket, opened, frames>>
        /\ s \in Seq(Nat) /\ Len(s) \in Nat /\ Len(s) > 0 /\ jpeg_length \in Nat
        /\ jpeg_length > 0 /\ jpeg_length = s[Len(s)]
    BY <1>3, BytesWritten, Zenon
  <2>2. PICK bytes \in 1 .. remaining :
            /\ written' = [written EXCEPT ![socket] = @ + bytes]
            /\ \/ /\ stage = "header" /\ remaining <= PrefixLength
                  /\ written[socket] + remaining + jpeg_length = Producer!Total(s)
               \/ /\ stage = "payload" /\ remaining <= jpeg_length
                  /\ written[socket] + remaining = Producer!Total(s)
            /\ \/ /\ bytes < remaining /\ remaining' = remaining - bytes
                  /\ UNCHANGED <<stage, frames_sent, jpeg_length>>
               \/ /\ bytes = remaining /\ stage = "header"
                  /\ stage' = "payload" /\ remaining' = jpeg_length
                  /\ UNCHANGED <<frames_sent, jpeg_length>>
               \/ /\ bytes = remaining /\ stage = "payload"
                  /\ frames_sent' = frames_sent + 1 /\ stage' \in {"pace", "loop"}
    BY <1>3, BytesWritten, Zenon
  <2>3. PICK total \in Nat : total = Producer!Total(s)
    BY <2>1, TotalFacts, Zenon
  <2>4. PICK w \in Nat : w = written[socket]
    BY <1>1, <2>1, Zenon
  <2>5. /\ frames'[socket'] = s /\ written'[socket'] = w + bytes
        /\ \A c \in Sockets : c # socket => written'[c] = written[c]
    BY <1>1, <2>1, <2>2, <2>4
  <2>6. s # <<>>
    BY <2>1
  <2>7. RestRemains'
    <3> HIDE DEF s
    <3>1. CASE bytes < remaining
      <4>1. remaining' = remaining - bytes /\ UNCHANGED <<stage, jpeg_length>>
        BY <1>1, <2>2, <3>1
      <4>2. PICK n \in Nat : n = bytes /\ 0 < n
        BY <1>1, <3>1
      <4>3. PICK rest \in Nat : rest = remaining
        BY <1>1
      <4>4. PICK left \in Nat : /\ left = remaining' /\ left = rest - n /\ left > 0
                                /\ n + left = rest /\ left < rest
        BY <3>1, <4>1, <4>2, <4>3
      <4>5. PICK most \in Nat : most = PrefixLength
        BY SenderConstants
      <4>6. PICK length \in Nat : length = jpeg_length
        BY <2>1
      <4>7. CASE stage = "header"
        <5>1. rest <= most /\ w + rest + length = total
          BY <2>2, <2>3, <2>4, <4>3, <4>5, <4>6, <4>7, Zenon
        <5>2. left <= most /\ (w + n) + left + length = total
          BY <4>4, <5>1
        <5> QED BY <2>1, <2>3, <2>5, <2>6, <4>1, <4>2, <4>4, <4>5, <4>6, <4>7, <5>2 DEF RestRemains
      <4>8. CASE stage = "payload"
        <5>1. rest <= length /\ w + rest = total
          BY <2>2, <2>3, <2>4, <4>3, <4>6, <4>8, Zenon
        <5>2. left <= length /\ (w + n) + left = total
          BY <4>4, <5>1
        <5> QED BY <2>1, <2>3, <2>5, <2>6, <4>1, <4>2, <4>4, <4>6, <4>8, <5>2 DEF RestRemains
      <4> QED BY <2>2, <4>7, <4>8
    <3>2. CASE bytes = remaining /\ stage = "header"
      <4>1. stage' = "payload" /\ remaining' = jpeg_length /\ UNCHANGED jpeg_length
        BY <1>1, <2>2, <3>2
      <4>2. w + bytes + jpeg_length = total
        BY <2>2, <2>3, <2>4, <3>2
      <4> QED BY <2>1, <2>3, <2>5, <2>6, <4>1, <4>2 DEF RestRemains
    <3>3. CASE bytes = remaining /\ stage = "payload"
      <4>1. stage' \notin {"header", "payload"}
        BY <1>1, <2>2, <3>3
      <4>2. w + bytes = total
        BY <2>2, <2>3, <2>4, <3>3
      <4> QED BY <2>3, <2>5, <4>1, <4>2 DEF RestRemains
    <3> QED BY <2>2, <3>1, <3>2, <3>3
  <2>8. \A c \in Sockets : c > opened' => frames'[c] = <<>> /\ written'[c] = 0
    <3>1. \A c \in Sockets : c > opened => c # socket
      BY <1>1, <2>1
    <3> QED BY <2>1, <2>5, <3>1, Zenon DEF Framed
  <2> QED BY <2>7, <2>8, Zenon DEF Framed
<1>4. CASE ~(Main /\ ReadFile /\ stage' = "header") /\ ~(Main /\ Send)
  <2>1. /\ UNCHANGED <<frames, written, frames_sent>>
        /\ \/ socket' = 0 /\ UNCHANGED opened
           \/ UNCHANGED <<socket, opened, stage, jpeg_length, remaining>>
           \/ /\ UNCHANGED <<socket, opened>>
              /\ stage \notin {"header", "payload"} /\ stage' \notin {"header", "payload"}
           \/ /\ opened' = opened + 1 /\ socket' = opened + 1 /\ opened + 1 \in Sockets
              /\ stage' = "open" /\ socket = 0
    BY <1>4, OthersWriteNothing, Zenon
  <2>2. CASE socket' = 0 /\ UNCHANGED opened
    BY <2>1, <2>2, Zenon DEF Framed
  <2>3. CASE UNCHANGED <<socket, opened, stage, jpeg_length, remaining>>
    BY <2>1, <2>3, Zenon DEF Framed, RestRemains
  <2>4. CASE /\ UNCHANGED <<socket, opened>>
             /\ stage \notin {"header", "payload"} /\ stage' \notin {"header", "payload"}
    BY <2>1, <2>4, Zenon DEF Framed, RestRemains
  <2>5. CASE /\ opened' = opened + 1 /\ socket' = opened + 1 /\ opened + 1 \in Sockets
             /\ stage' = "open" /\ socket = 0
    <3>1. opened + 1 > opened /\ \A c \in Sockets : c > opened + 1 => c > opened
      BY <1>1
    <3>2. frames[opened + 1] = <<>> /\ written[opened + 1] = 0
      BY <2>5, <3>1, Zenon DEF Framed
    <3>3. Producer!Total(<<>>) = 0
      <4>1. <<>> \in Seq(Nat)
        OBVIOUS
      <4> QED BY <4>1, TotalFacts, Zenon
    <3>4. stage' \notin {"header", "payload"}
      BY <2>5
    <3>5. RestRemains'
      BY <2>1, <2>5, <3>2, <3>3, <3>4, Zenon DEF RestRemains
    <3> QED BY <2>1, <2>5, <3>1, <3>5, Zenon DEF Framed
  <2> QED BY <2>1, <2>2, <2>3, <2>4, <2>5
<1> QED
  BY <1>2, <1>3, <1>4

\* The whole frames of a connection can be counted.
LEMMA CarriedType ==
    ASSUME SenderAssumption, TypeOK
    PROVE  Carried \in [1 .. MaxConnections -> Nat]
<1>1. ASSUME NEW c \in Sockets
      PROVE  Cardinality(Whole(c)) \in Nat
  <2>1. PICK n \in Nat : DOMAIN frames[c] = 1 .. n
    <3>1. frames[c] \in Seq(Nat)
      BY SenderNumbers, Zenon
    <3> QED BY <3>1
  <2>2. IsFiniteSet(1 .. n)
    BY FS_Interval, 1 \in Int, n \in Int
  <2>3. Whole(c) \subseteq 1 .. n
    BY <2>1, Zenon DEF Whole
  <2>4. IsFiniteSet(Whole(c))
    BY <2>2, <2>3, FS_Subset, Zenon
  <2> QED BY <2>4, FS_CardinalityType, Zenon
<1> QED
  BY <1>1, Zenon DEF Carried, Sockets

\* A step counts a frame when, and only when, its last byte is written.
LEMMA CountedStep ==
    ASSUME SenderAssumption, TypeOK, SocketsTrue, LengthsTrue, Framed, Counted,
           [SenderNext]_sender
    PROVE  Counted'
<1>1. /\ DOMAIN frames = Sockets /\ DOMAIN written = Sockets /\ remaining \in Nat
      /\ \A c \in Sockets : frames[c] \in Seq(Nat) /\ written[c] \in Nat
  BY SenderNumbers, Zenon
<1>2. /\ Carried = [c \in Sockets |-> Cardinality(WholeOf(frames[c], written[c]))]
      /\ Carried' = [c \in Sockets |-> Cardinality(WholeOf(frames'[c], written'[c]))]
  BY Zenon DEF Carried, Whole, WholeOf
<1>3. PrefixLength \in Nat /\ PrefixLength > 0
  BY SenderConstants
<1>4. CASE Main /\ ReadFile /\ stage' = "header"
  <2>1. /\ socket \in Sockets /\ UNCHANGED <<socket, opened, written, frames_sent>>
        /\ frames[socket] \in Seq(Nat) /\ written[socket] = Producer!Total(frames[socket])
        /\ frames' = [frames EXCEPT ![socket] = Append(@, jpeg_length)]
        /\ jpeg_length \in Nat /\ jpeg_length > 0 /\ UNCHANGED jpeg_length
        /\ stage' = "header" /\ remaining' = PrefixLength /\ ~TooLong
    BY <1>4, FrameBegun, Zenon
  <2> DEFINE s == frames[socket]
             t == Append(s, jpeg_length)
  <2>2. PICK total \in Nat : total = Producer!Total(s)
    BY <2>1, TotalFacts, Zenon
  <2>3. Producer!Total(t) = total + (PrefixLength + jpeg_length)
    BY <2>1, <2>2, TotalOfMore, Zenon
  <2>4. /\ t \in Seq(Nat) /\ Len(t) # 0 /\ Len(t) - 1 = Len(s) /\ SubSeq(t, 1, Len(t) - 1) = s
    BY <2>1
  <2>5. /\ frames'[socket] = t
        /\ \A c \in Sockets : c # socket => frames'[c] = frames[c]
    BY <1>1, <2>1
  <2> HIDE DEF t, s
  <2>6. /\ total < Producer!Total(t) /\ Producer!Total(s) <= total
    BY <1>3, <2>1, <2>2, <2>3
  <2>7. /\ Cardinality(WholeOf(s, total)) = Len(s)
        /\ Cardinality(WholeOf(t, total)) = Len(t) - 1
    BY <2>1, <2>2, <2>4, <2>6, WholeCount, Zenon DEF s
  <2>8. \A c \in Sockets :
           Cardinality(WholeOf(frames'[c], written'[c])) =
               Cardinality(WholeOf(frames[c], written[c]))
    BY <2>1, <2>2, <2>4, <2>5, <2>7, Zenon DEF s
  <2>9. Carried' = Carried
    BY <1>2, <2>8, Zenon
  <2> QED BY <2>1, <2>9, Zenon DEF Counted
<1>5. CASE Main /\ Send
  <2> DEFINE s == frames[socket]
  <2>1. /\ socket \in Sockets /\ UNCHANGED <<socket, opened, frames>>
        /\ s \in Seq(Nat) /\ Len(s) \in Nat /\ Len(s) > 0 /\ jpeg_length \in Nat
        /\ jpeg_length > 0 /\ jpeg_length = s[Len(s)]
    BY <1>5, BytesWritten, Zenon
  <2>2. PICK bytes \in 1 .. remaining :
            /\ written' = [written EXCEPT ![socket] = @ + bytes]
            /\ \/ /\ stage = "header" /\ remaining <= PrefixLength
                  /\ written[socket] + remaining + jpeg_length = Producer!Total(s)
               \/ /\ stage = "payload" /\ remaining <= jpeg_length
                  /\ written[socket] + remaining = Producer!Total(s)
            /\ \/ /\ bytes < remaining /\ remaining' = remaining - bytes
                  /\ UNCHANGED <<stage, frames_sent, jpeg_length>>
               \/ /\ bytes = remaining /\ stage = "header"
                  /\ stage' = "payload" /\ remaining' = jpeg_length
                  /\ UNCHANGED <<frames_sent, jpeg_length>>
               \/ /\ bytes = remaining /\ stage = "payload"
                  /\ frames_sent' = frames_sent + 1 /\ stage' \in {"pace", "loop"}
    BY <1>5, BytesWritten, Zenon
  <2>3. PICK total \in Nat : total = Producer!Total(s)
    BY <2>1, TotalFacts, Zenon
  <2>4. PICK w \in Nat : w = written[socket]
    BY <1>1, <2>1, Zenon
  <2>5. /\ written'[socket] = w + bytes
        /\ \A c \in Sockets : c # socket => written'[c] = written[c]
    BY <1>1, <2>1, <2>2, <2>4
  <2>6. PICK before \in Nat : /\ before = Producer!Total(SubSeq(s, 1, Len(s) - 1))
                              /\ total = before + (PrefixLength + jpeg_length)
    <3>1. Len(s) \in 1 .. Len(s) /\ Len(s) - 1 \in 0 .. Len(s)
      BY <2>1
    <3> HIDE DEF s
    <3>2. /\ Producer!Total(SubSeq(s, 1, Len(s) - 1)) \in Nat
          /\ Producer!Total(SubSeq(s, 1, Len(s))) =
                 Producer!Total(SubSeq(s, 1, Len(s) - 1)) + (PrefixLength + s[Len(s)])
          /\ SubSeq(s, 1, Len(s)) = s
      BY <2>1, <3>1, TotalFacts, Zenon
    <3> QED BY <2>1, <2>3, <3>2, Zenon
  <2> HIDE DEF s
  <2>7. /\ before <= w /\ w < total /\ before <= w + bytes /\ w + bytes \in Nat
        /\ \/ bytes < remaining /\ w + bytes < total
           \/ bytes = remaining /\ stage = "header" /\ w + bytes < total
           \/ bytes = remaining /\ stage = "payload" /\ w + bytes = total
    <3>1. PICK n \in Nat : n = bytes /\ 0 < n
      BY <1>1
    <3>2. PICK rest \in Nat : rest = remaining /\ n <= rest
      BY <1>1, <3>1
    <3>3. PICK prefix \in Nat : prefix = PrefixLength
      BY SenderConstants
    <3>4. PICK length \in Nat : length = jpeg_length /\ 0 < length
      BY <2>1
    <3>5. total = before + (prefix + length)
      BY <2>6, <3>3, <3>4
    <3>6. CASE stage = "header"
      <4>1. rest <= prefix /\ w + rest + length = total
        BY <2>2, <2>3, <2>4, <3>2, <3>3, <3>4, <3>6, Zenon
      <4>2. /\ before <= w /\ w < total /\ before <= w + n /\ w + n \in Nat /\ w + n < total
        BY <3>1, <3>2, <3>4, <3>5, <4>1
      <4>3. n < rest \/ n = rest
        BY <3>2
      <4> QED BY <3>1, <3>2, <3>6, <4>2, <4>3, Zenon
    <3>7. CASE stage = "payload"
      <4>1. rest <= length /\ w + rest = total
        BY <2>2, <2>3, <2>4, <3>2, <3>4, <3>7, Zenon
      <4>2. before <= w
        BY <3>5, <4>1
      <4>3. w < total /\ w + n \in Nat
        BY <3>1, <3>2, <4>1
      <4>4. before <= w + n
        BY <4>2
      <4>5. \/ n < rest /\ w + n < total
            \/ n = rest /\ w + n = total
        BY <3>2, <4>1
      <4> QED BY <3>1, <3>2, <3>7, <4>2, <4>3, <4>4, <4>5, Zenon
    <3> QED BY <2>2, <3>6, <3>7, Zenon
  <2>8. Cardinality(WholeOf(s, w)) = Len(s) - 1
    BY <2>1, <2>3, <2>6, <2>7, Len(s) # 0, WholeCount, Zenon
  <2>9. CASE w + bytes < total
    <3>1. UNCHANGED frames_sent
      <4>1. ~(w + bytes = total)
        BY <2>3, <2>7, <2>9
      <4>2. bytes < remaining \/ (bytes = remaining /\ stage = "header")
        BY <2>7, <4>1
      <4>3. bytes < remaining => ~(bytes = remaining)
        BY <1>1
      <4> QED BY <2>2, <4>2, <4>3
    <3>2. Cardinality(WholeOf(s, w + bytes)) = Len(s) - 1
      BY <2>1, <2>3, <2>6, <2>7, <2>9, Len(s) # 0, WholeCount, Zenon
    <3>3. \A c \in Sockets :
             Cardinality(WholeOf(frames'[c], written'[c])) =
                 Cardinality(WholeOf(frames[c], written[c]))
      BY <2>1, <2>4, <2>5, <2>8, <3>2, Zenon DEF s
    <3>4. Carried' = Carried
      BY <1>2, <3>3, Zenon
    <3> QED BY <3>1, <3>4, Zenon DEF Counted
  <2>10. CASE ~(w + bytes < total)
    <3>1. frames_sent' = frames_sent + 1 /\ w + bytes = total
      <4>1. bytes = remaining /\ stage = "payload" /\ w + bytes = total
        BY <2>7, <2>10, Zenon
      <4>2. ~(bytes < remaining)
        BY <1>1, <4>1
      <4> QED BY <2>2, <4>1, <4>2
    <3>2. total <= total
      BY <2>3
    <3>3. Cardinality(WholeOf(s, w + bytes)) = Len(s)
      BY <2>1, <2>3, <2>7, <3>1, <3>2, WholeCount, Zenon
    <3>4. \A c \in Sockets :
             Cardinality(WholeOf(frames'[c], written'[c])) =
                 IF c = socket THEN Cardinality(WholeOf(frames[c], written[c])) + 1
                 ELSE Cardinality(WholeOf(frames[c], written[c]))
      <4>1. (Len(s) - 1) + 1 = Len(s)
        BY <2>1
      <4> QED BY <2>1, <2>4, <2>5, <2>8, <3>3, <4>1, Zenon DEF s
    <3>5. Carried' = [Carried EXCEPT ![socket] = @ + 1]
      BY <1>2, <2>1, <3>4, Zenon
    <3>6. Producer!Sum(Carried') = Producer!Sum(Carried) + 1
      BY <2>1, <3>5, CarriedType, SenderConstants, SumOfGreater, Zenon DEF Sockets
    <3> QED BY <3>1, <3>6, Zenon DEF Counted
  <2> QED BY <2>9, <2>10
<1>6. CASE ~(Main /\ ReadFile /\ stage' = "header") /\ ~(Main /\ Send)
  <2>1. UNCHANGED <<frames, written, frames_sent>>
    BY <1>6, OthersWriteNothing, Zenon
  <2>2. Carried' = Carried
    BY <1>2, <2>1, Zenon
  <2> QED BY <2>1, <2>2, Zenon DEF Counted
<1> QED
  BY <1>4, <1>5, <1>6

-----------------------------------------------------------------------------
\* Nothing is sent at first.
LEMMA SenderInvariantInit ==
    ASSUME SenderAssumption, SenderInit
    PROVE  SenderInvariant
<1>1. TypeOK
  BY SenderTypesInit
<1>2. SocketsTrue
  BY SenderConstants DEF SenderInit, SocketsTrue, Looping
<1>3. AsAsked
  BY DEF SenderInit, AsAsked, Looping, Decided
<1>4. \A c \in Sockets : frames[c] = <<>> /\ written[c] = 0
  BY Zenon DEF SenderInit
<1>5. LengthsTrue
  <2>1. stage \notin {"read", "header", "payload"}
    BY DEF SenderInit
  <2>2. \A c \in Sockets : DOMAIN frames[c] = {}
    BY <1>4
  <2> QED BY <2>1, <2>2, Zenon DEF LengthsTrue
<1>6. Framed
  BY <1>4, Zenon DEF SenderInit, Framed
<1>7. Counted
  <2> DEFINE g == [k \in 0 .. MaxConnections |-> 0]
  <2>1. ASSUME NEW c \in Sockets
        PROVE  Cardinality(Whole(c)) = 0
    <3>1. DOMAIN frames[c] = {}
      BY <1>4
    <3>2. Whole(c) = {}
      BY <3>1, Zenon DEF Whole
    <3> QED BY <3>2, FS_EmptySet, Zenon
  <2>2. \A c \in 1 .. MaxConnections : Carried[c] = 0
    BY <2>1, Zenon DEF Carried, Sockets
  <2>3. g[0] = 0 /\ \A k \in 1 .. MaxConnections : g[k] = g[k - 1] + Carried[k]
    BY <2>2, SenderConstants
  <2>4. g[MaxConnections] = 0
    BY SenderConstants
  <2> HIDE DEF g
  <2>5. Producer!Sum(Carried) = g[MaxConnections]
    BY <1>1, <2>3, CarriedType, SenderConstants, SumIs, ZenonT(60)
  <2> QED BY <2>4, <2>5, Zenon DEF Counted, SenderInit
<1> QED
  BY <1>1, <1>2, <1>3, <1>5, <1>6, <1>7 DEF SenderInvariant

\* The parts of the invariant are kept together.
LEMMA SenderInvariantStep ==
    ASSUME SenderAssumption, SenderInvariant, [SenderNext]_sender
    PROVE  SenderInvariant'
<1>1. TypeOK /\ SocketsTrue /\ AsAsked /\ LengthsTrue /\ Framed /\ Counted
  BY Zenon DEF SenderInvariant
<1>2. TypeOK' /\ SocketsTrue' /\ AsAsked' /\ LengthsTrue'
  BY <1>1, SenderTypesStep, SocketsTrueStep, AsAskedStep, LengthsTrueStep, Zenon
<1>3. Framed' /\ Counted'
  BY <1>1, FramedStep, CountedStep, Zenon
<1> QED
  BY <1>2, <1>3, Zenon DEF SenderInvariant

LEMMA SenderInvariantHolds == SenderSpec => []SenderInvariant
<1>1. SenderInit => SenderInvariant
  BY SenderAssumption, SenderInvariantInit, Zenon
<1>2. SenderInvariant /\ [SenderNext]_sender => SenderInvariant'
  BY SenderAssumption, SenderInvariantStep, Zenon
<1> QED
  BY <1>1, <1>2, PTL DEF SenderSpec

-----------------------------------------------------------------------------
\* Every variable of the sender keeps its type: what remains to send is never less
\* than nothing, a socket is the connection made last, and a frame in hand has a length
\* the file had.
THEOREM SenderTypeCorrect == SenderSpec => []TypeOK
<1>1. SenderInvariant => TypeOK
  BY Zenon DEF SenderInvariant
<1> QED
  BY <1>1, SenderInvariantHolds, PTL

\* For any command lines, limits and lengths of the file: main connects only if
\* parse_cli took a command line that is right, sends no frame longer and no frame
\* more than it asks for, counts exactly the frames that send_all wrote whole over all
\* connections, and returns EXIT_SUCCESS from its loop only when they are sent or
\* g_should_stop is set.
THEOREM SendsWhatIsAsked == SenderSpec => []SendsAsAsked
<1>1. SenderInvariant => SendsAsAsked
  <2> SUFFICES ASSUME TypeOK, AsAsked, LengthsTrue, Counted
               PROVE  SendsAsAsked
    BY Zenon DEF SenderInvariant
  <2>1. opened > 0 =>
           /\ argv \in AsksForFrames
           /\ Asked[argv]["--count"] # 0 => frames_sent <= Asked[argv]["--count"]
    BY DEF AsAsked
  <2>2. frames_sent = Producer!Sum([c \in Sockets |-> Cardinality(Whole(c))])
    BY Zenon DEF Counted, Carried
  <2>3. \A c \in Sockets : \A k \in DOMAIN frames[c] :
           frames[c][k] <= Asked[argv]["--max-jpeg-bytes"]
    BY Zenon DEF LengthsTrue
  <2>4. stage = "success" /\ argv \in AsksForFrames =>
           g_should_stop \/ frames_sent = Asked[argv]["--count"]
    BY Zenon DEF AsAsked
  <2> QED BY <2>1, <2>2, <2>3, <2>4, Zenon DEF SendsAsAsked
<1> QED
  BY <1>1, SenderInvariantHolds, PTL

-----------------------------------------------------------------------------
\* Nothing is begun, written or over.
LEMMA ProducerInitial ==
    ASSUME SenderAssumption, SenderInit
    PROVE  Producer!ProducerInit
<1>1. 1 .. opened \ {socket} = {}
  BY DEF SenderInit
<1> QED
  BY <1>1, Zenon DEF SenderInit, Producer!ProducerInit

\* A header begins a frame, a send writes some of its bytes, and a socket that is
\* closed is over; nothing else shows.
LEMMA ProducerStep ==
    ASSUME SenderAssumption, SenderInvariant, [SenderNext]_sender
    PROVE  [Producer!ProducerNext]_<<frames, written, 1 .. opened \ {socket}>>
<1>1. TypeOK /\ SocketsTrue /\ AsAsked /\ LengthsTrue /\ Framed
  BY Zenon DEF SenderInvariant
<1>2. opened \in Nat /\ socket \in {0, opened} /\ DOMAIN written = Sockets
  BY <1>1, SenderNumbers DEF TypeOK, Sockets
<1>3. CASE Main /\ ReadFile /\ stage' = "header"
  <2>1. /\ socket \in Sockets /\ UNCHANGED <<socket, opened, written, frames_sent>>
        /\ written[socket] = Producer!Total(frames[socket])
        /\ frames' = [frames EXCEPT ![socket] = Append(@, jpeg_length)]
        /\ jpeg_length \in Nat /\ jpeg_length > 0 /\ ~TooLong
    BY <1>1, <1>3, FrameBegun, Zenon
  <2>2. jpeg_length \in 1 .. Limits["--max-jpeg-bytes"][2]
    <3>1. argv \in AsksForFrames /\ options = Asked[argv]
      BY <1>1, <1>3 DEF ReadFile, AsAsked, Looping
    <3>2. /\ options["--max-jpeg-bytes"] \in Int
          /\ Limits["--max-jpeg-bytes"][2] \in Int
          /\ options["--max-jpeg-bytes"] <= Limits["--max-jpeg-bytes"][2]
      BY <3>1, AskedTypes, Zenon
    <3> QED BY <2>1, <3>2 DEF TooLong
  <2>3. socket \notin 1 .. opened \ {socket}
    OBVIOUS
  <2>4. Producer!Begin(socket)
    BY <2>1, <2>2, <2>3, Zenon DEF Producer!Begin
  <2> QED BY <2>1, <2>4, Zenon DEF Producer!ProducerNext
<1>4. CASE Main /\ Send
  <2> DEFINE s == frames[socket]
  <2>1. /\ socket \in Sockets /\ UNCHANGED <<socket, opened, frames>>
        /\ s \in Seq(Nat) /\ jpeg_length \in Nat
    BY <1>1, <1>4, BytesWritten, Zenon
  <2>2. PICK bytes \in 1 .. remaining :
            /\ written' = [written EXCEPT ![socket] = @ + bytes]
            /\ \/ written[socket] + remaining + jpeg_length = Producer!Total(s)
               \/ written[socket] + remaining = Producer!Total(s)
    BY <1>1, <1>4, BytesWritten, Zenon
  <2>3. bytes \in 1 .. Producer!Total(s) - written[socket]
    <3>1. PICK total \in Nat : total = Producer!Total(s)
      BY <2>1, TotalFacts, Zenon
    <3>2. PICK w \in Nat : w = written[socket]
      BY <1>1, <2>1, SenderNumbers, Zenon
    <3>3. PICK rest \in Nat : rest = remaining
      BY <1>1, SenderNumbers, Zenon
    <3>4. PICK length \in Nat : length = jpeg_length
      BY <2>1, Zenon
    <3>5. w + rest + length = total \/ w + rest = total
      BY <2>2, <3>1, <3>2, <3>3, <3>4, Zenon
    <3>6. bytes \in 1 .. rest
      BY <3>3, Zenon
    <3>7. bytes \in 1 .. total - w
      BY <3>5, <3>6
    <3> QED BY <3>1, <3>2, <3>7, Zenon
  <2>4. Producer!Write(socket)
    BY <2>1, <2>2, <2>3, Zenon DEF Producer!Write
  <2> QED BY <2>1, <2>4, Zenon DEF Producer!ProducerNext
<1>5. CASE ~(Main /\ ReadFile /\ stage' = "header") /\ ~(Main /\ Send)
  <2>1. /\ UNCHANGED <<frames, written>>
        /\ \/ socket' = 0 /\ UNCHANGED opened
           \/ UNCHANGED <<socket, opened>>
           \/ opened' = opened + 1 /\ socket' = opened + 1 /\ socket = 0
    BY <1>1, <1>5, OthersWriteNothing, Zenon
  <2>2. CASE UNCHANGED <<socket, opened>>
    BY <2>1, <2>2, Zenon
  <2>3. CASE socket' = 0 /\ UNCHANGED opened /\ socket # 0
    <3>1. socket \in Sockets /\ socket = opened
      BY <1>1, <2>3 DEF TypeOK
    <3>2. 1 .. opened' \ {socket'} = (1 .. opened \ {socket}) \cup {socket}
      BY <1>2, <2>3, <3>1
    <3>3. Producer!End(socket)
      BY <2>1, <3>2, Zenon DEF Producer!End
    <3> QED BY <3>1, <3>3, Zenon DEF Producer!ProducerNext
  <2>4. CASE opened' = opened + 1 /\ socket' = opened + 1 /\ socket = 0
    <3>1. 1 .. opened' \ {socket'} = 1 .. opened \ {socket}
      BY <1>2, <2>4
    <3> QED BY <2>1, <3>1, Zenon
  <2> QED BY <2>1, <2>2, <2>3, <2>4, Zenon
<1> QED
  BY <1>3, <1>4, <1>5

\* The sender implements the producer: on each connection send_all writes headers
\* and payloads of frames that are not too long, one after the other, and after a send
\* that fails main closes the socket and never writes to that connection again.
THEOREM ProducerImplemented == SenderSpec => ProducerSpec
<1>1. SenderInit => Producer!ProducerInit
  BY SenderAssumption, ProducerInitial, Zenon
<1>2. SenderInvariant /\ [SenderNext]_sender
         => [Producer!ProducerNext]_<<frames, written, 1 .. opened \ {socket}>>
  BY SenderAssumption, ProducerStep, Zenon
<1> QED
  BY <1>1, <1>2, SenderInvariantHolds, PTL
     DEF SenderSpec, ProducerSpec, Producer!ProducerSpec
=============================================================================
