------------------------ MODULE SegmentFramingProofs ------------------------
(***************************************************************************)
(* Proofs about SegmentFraming, for any number of slots, any lengths of    *)
(* the fields and the frames, and pieces cut anywhere: the reader is never *)
(* out of step, and hands on every frame once, in order, without waiting,  *)
(* until the first mask that is not Readable, where it stops.              *)
(*                                                                         *)
(* The argument follows the bytes ever written, as the fields they are,    *)
(* each with its position among all bytes.  One more field is the header   *)
(* of the segment to come.                                                 *)
(***************************************************************************)
EXTENDS SegmentFraming, NumberLemmas, SequenceTheorems

(* A frame, as the history names it: its stream and its segment.                 *)
Frame == Streams \X Nat

Byte == [kind : {"header"}, value : {"SGI", "SGO"}]
          \cup [kind : {"mask"}, value : SUBSET Slots]
          \cup [kind : {"stream header"}, value : [id : Streams, len : FrameLens \cup {0}]]
          \cup [kind : {"data"}, value : Frame]

(* A field's bytes, how many and after how many others; what is left of its       *)
(* segment's entries; and the frames written before it.                      *)
Placed == [byte : Byte, len : Nat, at : Nat, left : 0 .. MAX_XCODING_INSTANCES + 1, from : Nat]

(* What may follow a field, when w are the frames written.                        *)
HeaderJoins(f, g) ==
  f.byte.kind = "header" =>
    f.len = HeaderLen /\ g.byte.kind = "mask" /\ g.from = f.from
MaskJoins(f, g) ==
  f.byte.kind = "mask" =>
    /\ f.len = MaskLen /\ g.byte.kind = "stream header" /\ g.from = f.from
    /\ g.left = numStreams(f.byte.value) /\ g.left > 0
StreamHeaderJoins(f, g) ==
  f.byte.kind = "stream header" =>
    /\ f.len = StreamHeaderLen /\ g.byte.kind = "data" /\ g.from = f.from /\ g.left = f.left
    /\ g.left > 0 /\ f.byte.value.id = g.byte.value[1] /\ f.byte.value.len = g.len
DataJoins(f, g, w) ==
  f.byte.kind = "data" =>
    /\ g.left = f.left - 1
    /\ g.byte.kind = IF f.left > 1 THEN "stream header" ELSE "header"
    /\ g.from = IF f.len > 0 THEN f.from + 1 ELSE f.from
    /\ f.len > 0 => f.from + 1 <= Len(w) /\ w[f.from + 1] = f.byte.value
Joins(f, g, w) ==
  /\ g.at = f.at + f.len
  /\ HeaderJoins(f, g) /\ MaskJoins(f, g) /\ StreamHeaderJoins(f, g) /\ DataJoins(f, g, w)

Chain(fs, m, w) ==
  /\ fs \in [1 .. m + 1 -> Placed]
  /\ \A i \in 1 .. m : Joins(fs[i], fs[i + 1], w) /\ fs[i].at + fs[i].len <= fs[m + 1].at
  /\ \A i \in 1 .. m + 1 : fs[i].from <= Len(w)
  /\ fs[m + 1].byte = [kind |-> "header", value |-> direction]
  /\ fs[m + 1].len = HeaderLen /\ fs[m + 1].left = 0 /\ fs[m + 1].from = Len(w)

(* The bytes not taken yet, when c have been.                                     *)
OnTheWay(fs, m, rest, c) ==
  /\ c + Len(rest) = fs[m + 1].at
  /\ \A i \in 1 .. m : \A p \in 1 .. fs[i].len :
       fs[i].at + p > c => rest[fs[i].at + p - c] = fs[i].byte

(* The reader is at field f, with c bytes taken.                                  *)
Position(f, c) ==
  /\ Expected[parsingState] = f.byte.kind
  /\ c = f.at + Len(curBuf)
  /\ \A i \in 1 .. Len(curBuf) : curBuf[i] = f.byte
  /\ curBuf # <<>> => Len(curBuf) < f.len
  /\ f.byte.kind \in {"stream header", "data"} => curStreamCnt = f.left
  /\ f.byte.kind = "data" => curStreamLen = f.len /\ curStreamId = f.byte.value[1]
HandedOn(f) ==
  Len(delivered) = f.from /\ \A j \in 1 .. f.from : delivered[j] = written[j]

Buffers ==
  /\ pipe \in Seq(Byte) /\ src \in Seq(Byte) /\ curBuf \in Seq(Byte)
  /\ written \in Seq(Frame) /\ delivered \in Seq(Frame)
  /\ Packaged # {} => direction = "SGO" /\ segments < MaxSegments

(* Fields the reader has passed were none it stops at; limit tells of the first   *)
(* it will stop at.                                                          *)
Refused(f) == f.byte.kind = "mask" /\ ~Readable(f.byte.value)
Limits(fs, m, k) ==
  \/ limit = NoLimit /\ \A j \in 1 .. m + 1 : ~Refused(fs[j])
  \/ \E i \in k .. m + 1 : /\ Refused(fs[i]) /\ limit = fs[i].from
                            /\ \A j \in 1 .. i - 1 : ~Refused(fs[j])

Following(fs, m, k, c) ==
  /\ Chain(fs, m, written)
  /\ OnTheWay(fs, m, src \o pipe, c)
  /\ Position(fs[k], c)
  /\ HandedOn(fs[k])
  /\ Limits(fs, m, k)

Followed ==
  \E m, c \in Nat : \E fs \in [1 .. m + 1 -> Placed], k \in 1 .. m + 1 : Following(fs, m, k, c)

Stopped == ~running => limit # NoLimit /\ Len(delivered) = limit

IInv == TypeOK /\ Buffers /\ Followed /\ Stopped

-----------------------------------------------------------------------------
LEMMA Zero == (\A z \in Nat : z + 0 = z) /\ (\A z \in 1 .. 0 : FALSE)
OBVIOUS

LEMMA Sums ==
  \A a, b, c, d, e \in Nat :
    /\ a + b + c + d = a + (b + c + d)
    /\ a + b + c + d + e = a + (b + c + d + e)
OBVIOUS

(* FlattenSeq is defined by a recursive function, which exists: the shortest     *)
(* prefix without one would have one.                                      *)
LEMMA FlattenExists ==
  ASSUME NEW seqs, NEW n \in Nat
  PROVE  \E f : f = [i \in 1 .. n |-> IF i = 1 THEN seqs[i] ELSE f[i - 1] \o seqs[i]]
<1> DEFINE Step(f, i) == IF i = 1 THEN seqs[i] ELSE f[i - 1] \o seqs[i]
           Has(k) == \E f : f = [i \in 1 .. k |-> Step(f, i)]
           Without == {k \in Nat : ~Has(k)}
<1>1. SUFFICES ASSUME ~Has(n) PROVE FALSE
  OBVIOUS
<1>2. PICK k \in Without : \A j \in Without : k <= j
  <2>1. n \in Without
    BY <1>1
  <2>2. Without \subseteq Nat /\ Without # {}
    BY <2>1
  <2> HIDE DEF Without
  <2>3. QED BY <2>2, LeastNumber
<1>3. k \in Nat /\ ~Has(k) /\ \A j \in Nat : ~Has(j) => k <= j
  BY <1>2
<1>4. k # 0
  <2> SUFFICES ASSUME k = 0 PROVE FALSE
    OBVIOUS
  <2>1. \A f : [i \in 1 .. 0 |-> Step(f, i)] = <<>>
    OBVIOUS
  <2>2. <<>> = [i \in 1 .. 0 |-> Step(<<>>, i)]
    BY <2>1
  <2>3. Has(0)
    BY <2>2
  <2>4. QED BY <1>3, <2>3
<1>5. Has(k - 1)
  <2>1. k - 1 \in Nat /\ ~(k <= k - 1)
    BY <1>3, <1>4
  <2> HIDE DEF Has
  <2>2. QED BY <1>3, <2>1
<1>6. PICK f : f = [i \in 1 .. k - 1 |-> Step(f, i)]
  BY <1>5
<1> DEFINE g == [i \in 1 .. k |-> IF i = k THEN Step(f, k) ELSE f[i]]
<1>7. \A i \in 1 .. k : g[i] = Step(g, i)
  <2>1. TAKE i \in 1 .. k
  <2>2. i # 1 => i - 1 \in 1 .. k - 1
    BY <1>3, <2>1
  <2>3. i # 1 => g[i - 1] = f[i - 1]
    BY <1>3, <2>2
  <2>4. Step(g, i) = Step(f, i)
    BY <2>3
  <2>5. i # k => f[i] = Step(f, i)
    <3>1. i # k => i \in 1 .. k - 1
      BY <1>3, <2>1
    <3>2. QED BY <1>6, <3>1
  <2> HIDE DEF Step
  <2>6. QED BY <2>4, <2>5
<1>8. g = [i \in 1 .. k |-> Step(g, i)]
  <2> HIDE DEF Step
  <2>1. g = [i \in 1 .. k |-> g[i]]
    OBVIOUS
  <2> HIDE DEF g
  <2>2. QED BY <1>7, <2>1
<1>9. QED BY <1>3, <1>8

(* Where the first n of some sequences begin once they are put together.        *)
Parts(seqs, n, flat) ==
  \E off \in [1 .. n + 1 -> Nat] :
    /\ off[1] = 0 /\ off[n + 1] = Len(flat)
    /\ \A i \in 1 .. n :
         /\ off[i + 1] = off[i] + Len(seqs[i])
         /\ off[i + 1] <= Len(flat)
         /\ \A p \in 1 .. Len(seqs[i]) : flat[off[i] + p] = seqs[i][p]

LEMMA OnePartMore ==
  ASSUME NEW B, NEW seqs, NEW n \in Nat, NEW flat \in Seq(B), Parts(seqs, n, flat),
         \A i \in 1 .. n + 1 : seqs[i] \in Seq(B)
  PROVE  Parts(seqs, n + 1, flat \o seqs[n + 1])
<1>1. PICK off \in [1 .. n + 1 -> Nat] :
        /\ off[1] = 0 /\ off[n + 1] = Len(flat)
        /\ \A i \in 1 .. n :
             /\ off[i + 1] = off[i] + Len(seqs[i])
             /\ off[i + 1] <= Len(flat)
             /\ \A p \in 1 .. Len(seqs[i]) : flat[off[i] + p] = seqs[i][p]
  BY DEF Parts
<1> DEFINE last == seqs[n + 1]
           all == flat \o last
<1>2. last \in Seq(B) /\ Len(last) \in Nat /\ Len(flat) \in Nat
  OBVIOUS
<1>3. \A i \in 1 .. n + 1 : Len(seqs[i]) \in Nat
  OBVIOUS
<1> HIDE DEF last
<1>4. /\ Len(all) = Len(flat) + Len(last)
      /\ \A x \in 1 .. Len(flat) : all[x] = flat[x]
      /\ \A x \in 1 .. Len(last) : all[Len(flat) + x] = last[x]
  BY <1>2, Joined
<1> HIDE DEF all
<1> DEFINE off2 == [i \in 1 .. (n + 1) + 1 |-> IF i = n + 2 THEN Len(all) ELSE off[i]]
<1>5. /\ off2 \in [1 .. (n + 1) + 1 -> Nat] /\ off2[(n + 1) + 1] = Len(all)
      /\ \A i \in 1 .. n + 1 : off2[i] = off[i]
  <2>1. n + 2 = (n + 1) + 1 /\ n + 2 \in 1 .. (n + 1) + 1 /\ Len(all) \in Nat
    BY <1>2, <1>4
  <2>2. \A i \in 1 .. (n + 1) + 1 : i # n + 2 => i \in 1 .. n + 1
    OBVIOUS
  <2>3. \A i \in 1 .. n + 1 : i \in 1 .. (n + 1) + 1 /\ i # n + 2
    OBVIOUS
  <2>4. QED BY <2>1, <2>2, <2>3
<1> HIDE DEF off2
<1>6. ASSUME NEW i \in 1 .. n + 1
      PROVE  /\ off2[i + 1] = off2[i] + Len(seqs[i])
             /\ off2[i + 1] <= Len(all)
             /\ \A p \in 1 .. Len(seqs[i]) : all[off2[i] + p] = seqs[i][p]
  <2>1. CASE i = n + 1
    <3>1. off2[i + 1] = Len(all) /\ off2[i] = Len(flat) /\ seqs[i] = last
      BY <1>1, <1>5, <2>1 DEF last
    <3>2. QED BY <1>2, <1>4, <3>1
  <2>2. CASE i # n + 1
    <3>1. i \in 1 .. n /\ i + 1 \in 1 .. n + 1 /\ Len(seqs[i]) \in Nat
      BY <1>3, <1>6, <2>2
    <3>2. off2[i + 1] = off[i + 1] /\ off2[i] = off[i] /\ off[i] \in Nat
      BY <1>1, <1>5, <3>1
    <3>3. /\ off[i + 1] = off[i] + Len(seqs[i]) /\ off[i + 1] <= Len(flat)
          /\ \A p \in 1 .. Len(seqs[i]) : flat[off[i] + p] = seqs[i][p]
      BY <1>1, <3>1
    <3>4. \A p \in 1 .. Len(seqs[i]) : off[i] + p \in 1 .. Len(flat)
      BY <1>2, <3>1, <3>2, <3>3
    <3>5. \A p \in 1 .. Len(seqs[i]) : all[off2[i] + p] = seqs[i][p]
      BY <1>4, <3>2, <3>3, <3>4
    <3>6. off[i + 1] <= Len(all)
      BY <1>2, <1>4, <3>1, <3>2, <3>3
    <3>7. QED BY <3>2, <3>3, <3>5, <3>6
  <2>3. QED BY <2>1, <2>2
<1>7. off2[1] = 0
  BY <1>1, <1>5
<1>8. QED BY <1>5, <1>6, <1>7 DEF Parts, all, last

LEMMA Flattened ==
  ASSUME NEW B, NEW seqs \in Seq(Seq(B))
  PROVE  FlattenSeq(seqs) \in Seq(B) /\ Parts(seqs, Len(seqs), FlattenSeq(seqs))
<1>1. Len(seqs) \in Nat /\ \A i \in 1 .. Len(seqs) : seqs[i] \in Seq(B) /\ Len(seqs[i]) \in Nat
  OBVIOUS
<1>2. Parts(seqs, 0, <<>>)
  <2> DEFINE none == [i \in 1 .. 1 |-> 0]
  <2>1. none \in [1 .. 0 + 1 -> Nat] /\ none[1] = 0 /\ none[0 + 1] = Len(<<>>)
    OBVIOUS
  <2> HIDE DEF none
  <2>2. QED BY <2>1 DEF Parts
<1>3. <<>> \in Seq(B)
  OBVIOUS
<1>4. CASE Len(seqs) = 0
  BY <1>2, <1>3, <1>4 DEF FlattenSeq
<1>5. CASE Len(seqs) # 0
  <2> DEFINE Step(f, i) == IF i = 1 THEN seqs[i] ELSE f[i - 1] \o seqs[i]
             Rec(f) == f = [i \in 1 .. Len(seqs) |-> Step(f, i)]
             flat == CHOOSE f : Rec(f)
  <2>1. FlattenSeq(seqs) = flat[Len(seqs)]
    BY <1>5 DEF FlattenSeq
  <2>2. Rec(flat)
    <3>1. \E f : Rec(f)
      BY <1>1, FlattenExists
    <3> HIDE DEF Rec
    <3>2. QED BY <3>1
  <2> HIDE DEF flat
  <2>3. \A i \in 1 .. Len(seqs) : flat[i] = Step(flat, i)
    <3> HIDE DEF Step
    <3>1. QED BY <2>2
  <2> HIDE DEF Rec
  <2> DEFINE Holds(n) == flat[n] \in Seq(B) /\ Parts(seqs, n, flat[n])
             Fails == {n \in 1 .. Len(seqs) : ~Holds(n)}
  <2>4. Holds(1)
    <3>1. 1 \in 1 .. Len(seqs) /\ \A i \in 1 .. 0 + 1 : seqs[i] \in Seq(B)
      BY <1>1, <1>5
    <3>2. flat[1] = seqs[1] /\ seqs[1] \in Seq(B) /\ <<>> \o seqs[1] = seqs[1]
      BY <2>3, <3>1
    <3>3. Parts(seqs, 0 + 1, <<>> \o seqs[0 + 1])
      BY <1>2, <1>3, <3>1, OnePartMore
    <3>4. QED BY <3>2, <3>3
  <2>5. ASSUME NEW n \in 1 .. Len(seqs) - 1, Holds(n) PROVE Holds(n + 1)
    <3>1. /\ n \in Nat /\ n + 1 \in 1 .. Len(seqs) /\ n + 1 # 1 /\ (n + 1) - 1 = n
          /\ \A i \in 1 .. n + 1 : i \in 1 .. Len(seqs)
      BY <1>1
    <3>2. \A i \in 1 .. n + 1 : seqs[i] \in Seq(B)
      BY <1>1, <3>1
    <3>3. flat[n + 1] = flat[n] \o seqs[n + 1]
      BY <2>3, <3>1
    <3>4. Parts(seqs, n + 1, flat[n] \o seqs[n + 1])
      BY <2>5, <3>1, <3>2, OnePartMore
    <3>5. flat[n] \o seqs[n + 1] \in Seq(B)
      BY <2>5, <3>1, <3>2, Joined
    <3>6. QED BY <3>3, <3>4, <3>5
  <2> HIDE DEF Holds
  <2>6. Holds(Len(seqs))
    <3> SUFFICES ASSUME ~Holds(Len(seqs)) PROVE FALSE
      OBVIOUS
    <3>1. Fails \subseteq Nat /\ Len(seqs) \in Fails
      BY <1>1, <1>5
    <3>2. PICK n \in Fails : \A j \in Fails : n <= j
      <4> HIDE DEF Fails
      <4>1. QED BY <3>1, LeastNumber
    <3>3. n \in 2 .. Len(seqs) /\ ~Holds(n)
      <4>1. n \in 1 .. Len(seqs) /\ ~Holds(n)
        BY <3>2
      <4>2. n # 1
        BY <2>4, <4>1
      <4>3. QED BY <1>1, <4>1, <4>2
    <3>4. Holds(n - 1)
      <4>1. n - 1 \in 1 .. Len(seqs) /\ ~(n <= n - 1)
        BY <1>1, <3>3
      <4>2. n - 1 \notin Fails
        BY <3>2, <4>1
      <4>3. QED BY <4>1, <4>2
    <3>5. n - 1 \in 1 .. Len(seqs) - 1 /\ (n - 1) + 1 = n
      BY <1>1, <3>3
    <3>6. Holds((n - 1) + 1)
      BY <2>5, <3>4, <3>5
    <3>7. QED BY <3>3, <3>5, <3>6
  <2>7. QED BY <2>1, <2>6 DEF Holds
<1>6. QED BY <1>4, <1>5

(* A finite set of numbers can be put in order.                                *)
LEMMA OrderExists ==
  ASSUME NEW S, S \subseteq Nat, IsFiniteSet(S)
  PROVE  /\ Cardinality(S) \in Nat
         /\ InOrder(S) \in [1 .. Cardinality(S) -> S]
<1> DEFINE Sorted(q) == \A i, j \in DOMAIN q : i < j => q[i] < q[j]
           Has(A) == \E q \in [1 .. Cardinality(A) -> A] : Sorted(q)
           Sizes == {n \in Nat : \E A \in SUBSET Nat :
                       IsFiniteSet(A) /\ Cardinality(A) = n /\ ~Has(A)}
<1>1. Cardinality(S) \in Nat
  BY FS_CardinalityType
<1>2. Has(S)
  <2>1. SUFFICES ASSUME ~Has(S) PROVE FALSE
    OBVIOUS
  <2> HIDE DEF Has
  <2>2. Cardinality(S) \in Sizes
    BY <1>1, <2>1
  <2>3. PICK n \in Sizes : \A k \in Sizes : n <= k
    <3>1. Sizes \subseteq Nat /\ Sizes # {}
      BY <2>2
    <3> HIDE DEF Sizes
    <3>2. QED BY <3>1, LeastNumber
  <2>4. PICK A \in SUBSET Nat : IsFiniteSet(A) /\ Cardinality(A) = n /\ ~Has(A)
    OBVIOUS
  <2>5. A # {}
    <3>1. SUFFICES ASSUME A = {} PROVE FALSE
      OBVIOUS
    <3>2. Cardinality(A) = 0
      BY <3>1, FS_EmptySet
    <3>3. <<>> \in [1 .. 0 -> A] /\ DOMAIN <<>> = {}
      OBVIOUS
    <3>4. Has(A)
      BY <3>2, <3>3 DEF Has
    <3>5. QED BY <2>4, <3>4
  <2>6. PICK x \in A : \A y \in A : y <= x
    BY <2>4, <2>5, GreatestNumber
  <2> DEFINE R == A \ {x}
  <2>7. IsFiniteSet(R) /\ Cardinality(R) = n - 1 /\ n - 1 \in Nat /\ R \in SUBSET Nat
    <3>1. IsFiniteSet(R) /\ Cardinality(R) = n - 1
      BY <2>4, <2>6, FS_RemoveElement
    <3>2. Cardinality(R) \in Nat
      BY <3>1, FS_CardinalityType
    <3>3. QED BY <3>1, <3>2
  <2>8. Has(R)
    <3>1. ~(n <= n - 1)
      BY <2>7
    <3> HIDE DEF R
    <3>2. n - 1 \notin Sizes
      BY <2>3, <3>1
    <3>3. QED BY <2>7, <3>2
  <2>9. PICK q \in [1 .. n - 1 -> R] : Sorted(q)
    BY <2>7, <2>8 DEF Has
  <2> DEFINE q2 == [i \in 1 .. n |-> IF i = n THEN x ELSE q[i]]
  <2>10. \A i \in 1 .. n : q2[i] \in A /\ (i # n => i \in 1 .. n - 1 /\ q2[i] = q[i] /\ q[i] \in R)
    <3>1. \A i \in 1 .. n : i # n => i \in 1 .. n - 1
      BY <2>7
    <3>2. QED BY <2>6, <2>9, <3>1
  <2>11. q2 \in [1 .. n -> A] /\ q2[n] = x
    <3>1. n \in 1 .. n
      BY <2>7
    <3>2. QED BY <2>10, <3>1
  <2> HIDE DEF q2
  <2>12. ASSUME NEW i \in 1 .. n, NEW j \in 1 .. n, i < j PROVE q2[i] < q2[j]
    <3>1. i # n /\ i \in 1 .. n - 1 /\ q2[i] = q[i] /\ q[i] \in R
      BY <2>7, <2>10, <2>12
    <3>2. CASE j = n
      <4>1. q[i] \in Nat /\ x \in Nat /\ q[i] # x /\ q[i] <= x
        BY <2>6, <3>1
      <4>2. q[i] < x
        BY <4>1
      <4>3. QED BY <2>11, <3>1, <3>2, <4>2
    <3>3. CASE j # n
      BY <2>9, <2>10, <2>12, <3>1, <3>3
    <3>4. QED BY <3>2, <3>3
  <2>13. Has(A)
    BY <2>4, <2>11, <2>12 DEF Has
  <2>14. QED BY <2>4, <2>13
<1>3. QED BY <1>1, <1>2 DEF InOrder

-----------------------------------------------------------------------------
HeaderByte           == [kind |-> "header", value |-> direction]
MaskByte(mask)       == [kind |-> "mask", value |-> mask]
EntryByte(id, len)   == [kind |-> "stream header", value |-> [id |-> id, len |-> len]]
DataByte(id)         == [kind |-> "data", value |-> <<id, segments>>]

LEMMA Lengths ==
  /\ {MAX_XCODING_INSTANCES, HeaderLen, MaskLen, StreamHeaderLen, ReadLen} \subseteq Nat \ {0}
  /\ HeaderLen \in Nat \ {0} /\ MaskLen \in Nat \ {0} /\ StreamHeaderLen \in Nat \ {0}
  /\ ReadLen \in Nat \ {0} /\ MAX_XCODING_INSTANCES \in Nat \ {0}
  /\ FrameLens \subseteq Nat \ {0} /\ FrameLens \cup {0} \subseteq Nat /\ MaxSegments \in Nat
BY FramingAssumption

LEMMA BytesOf ==
  /\ direction \in {"SGI", "SGO"} => HeaderByte \in Byte
  /\ \A mask \in SUBSET Slots : MaskByte(mask) \in Byte
  /\ \A id \in Streams, len \in FrameLens \cup {0} : EntryByte(id, len) \in Byte
  /\ segments \in Nat => \A id \in Streams : DataByte(id) \in Byte
<1>1. direction \in {"SGI", "SGO"} => HeaderByte \in Byte
  BY DEF HeaderByte, Byte
<1>2. \A mask \in SUBSET Slots : MaskByte(mask) \in Byte
  BY DEF MaskByte, Byte
<1>3. \A id \in Streams, len \in FrameLens \cup {0} : EntryByte(id, len) \in Byte
  BY DEF EntryByte, Byte
<1>4. segments \in Nat => \A id \in Streams : DataByte(id) \in Byte
  BY DEF DataByte, Byte, Frame
<1>5. QED BY <1>1, <1>2, <1>3, <1>4

LEMMA Repeated ==
  ASSUME NEW B, NEW b \in B, NEW n \in Nat
  PROVE  /\ [i \in 1 .. n |-> b] \in Seq(B) /\ Len([i \in 1 .. n |-> b]) = n
         /\ \A p \in 1 .. n : [i \in 1 .. n |-> b][p] = b
OBVIOUS

(* The bytes of one entry.                                                      *)
LEMMA EntryBytes ==
  ASSUME segments \in Nat, NEW id \in Streams, NEW len \in FrameLens \cup {0}
  PROVE  /\ StreamField(id, len) \in Seq(Byte)
         /\ Len(StreamField(id, len)) = StreamHeaderLen + len
         /\ \A p \in 1 .. StreamHeaderLen : StreamField(id, len)[p] = EntryByte(id, len)
         /\ \A p \in 1 .. len : StreamField(id, len)[StreamHeaderLen + p] = DataByte(id)
<1> DEFINE h == [i \in 1 .. StreamHeaderLen |-> EntryByte(id, len)]
           d == [i \in 1 .. len |-> DataByte(id)]
<1>1. StreamField(id, len) = h \o d
  BY DEF StreamField, Field, EntryByte, DataByte
<1>2. StreamHeaderLen \in Nat /\ len \in Nat
  BY Lengths
<1>3. h \in Seq(Byte) /\ Len(h) = StreamHeaderLen /\ \A p \in 1 .. StreamHeaderLen : h[p] = EntryByte(id, len)
  BY <1>2, BytesOf, Repeated
<1>4. d \in Seq(Byte) /\ Len(d) = len /\ \A p \in 1 .. len : d[p] = DataByte(id)
  BY <1>2, BytesOf, Repeated
<1> HIDE DEF h, d
<1>5. /\ h \o d \in Seq(Byte) /\ Len(h \o d) = Len(h) + Len(d)
      /\ \A x \in 1 .. Len(h) : (h \o d)[x] = h[x]
      /\ \A x \in 1 .. Len(d) : (h \o d)[Len(h) + x] = d[x]
  <2>1. h \in Seq(Byte) /\ d \in Seq(Byte)
    BY <1>3, <1>4
  <2>2. QED BY <2>1, Joined
<1>6. /\ Len(h \o d) = StreamHeaderLen + len
      /\ \A p \in 1 .. StreamHeaderLen : (h \o d)[p] = EntryByte(id, len)
      /\ \A p \in 1 .. len : (h \o d)[StreamHeaderLen + p] = DataByte(id)
  BY <1>3, <1>4, <1>5
<1>7. QED BY <1>1, <1>5, <1>6

(* The bytes of a segment, and where its entries begin.                         *)
SegmentBytes(seg, mask, streams, lens, off) ==
  /\ seg \in Seq(Byte)
  /\ off[1] = 0
  /\ Len(seg) = HeaderLen + MaskLen + off[Len(streams) + 1]
  /\ \A p \in 1 .. HeaderLen : seg[p] = HeaderByte
  /\ \A p \in 1 .. MaskLen : seg[HeaderLen + p] = MaskByte(mask)
  /\ \A i \in 1 .. Len(streams) :
       /\ off[i + 1] = off[i] + StreamHeaderLen + lens[streams[i]]
       /\ off[i + 1] <= off[Len(streams) + 1]
       /\ \A p \in 1 .. StreamHeaderLen :
            seg[HeaderLen + MaskLen + off[i] + p] = EntryByte(streams[i], lens[streams[i]])
       /\ \A p \in 1 .. lens[streams[i]] :
            seg[HeaderLen + MaskLen + off[i] + StreamHeaderLen + p] = DataByte(streams[i])

LEMMA SegmentLaidOut ==
  ASSUME direction \in {"SGI", "SGO"}, segments \in Nat, NEW mask \in SUBSET Slots,
         NEW streams \in Seq(Streams), NEW lens \in [Streams -> FrameLens \cup {0}]
  PROVE  \E off \in [1 .. Len(streams) + 1 -> Nat] :
           SegmentBytes(Segment(mask, streams, lens), mask, streams, lens, off)
<1> DEFINE e     == Len(streams)
           parts == [i \in DOMAIN streams |-> StreamField(streams[i], lens[streams[i]])]
           flat  == FlattenSeq(parts)
           head  == [i \in 1 .. HeaderLen |-> HeaderByte]
           bits  == [i \in 1 .. MaskLen |-> MaskByte(mask)]
           front == head \o bits
           seg   == front \o flat
<1>1. Segment(mask, streams, lens) = seg
  BY DEF Segment, Field, HeaderByte, MaskByte
<1>2. HeaderLen \in Nat /\ MaskLen \in Nat /\ StreamHeaderLen \in Nat
  BY Lengths
<1>3. e \in Nat /\ DOMAIN streams = 1 .. e
  OBVIOUS
<1>4. \A i \in 1 .. e : /\ streams[i] \in Streams /\ lens[streams[i]] \in FrameLens \cup {0}
                       /\ lens[streams[i]] \in Nat
  <2>1. \A i \in 1 .. e : streams[i] \in Streams
    OBVIOUS
  <2>2. \A id \in Streams : lens[id] \in FrameLens \cup {0} /\ lens[id] \in Nat
    BY Lengths
  <2>3. QED BY <2>1, <2>2
<1>5. \A i \in 1 .. e : parts[i] = StreamField(streams[i], lens[streams[i]])
  BY <1>3
<1>6. \A i \in 1 .. e :
        /\ parts[i] \in Seq(Byte)
        /\ Len(parts[i]) = StreamHeaderLen + lens[streams[i]]
        /\ \A p \in 1 .. StreamHeaderLen : parts[i][p] = EntryByte(streams[i], lens[streams[i]])
        /\ \A p \in 1 .. lens[streams[i]] : parts[i][StreamHeaderLen + p] = DataByte(streams[i])
  <2>1. TAKE i \in 1 .. e
  <2> DEFINE id == streams[i]
             L  == lens[id]
  <2>2. id \in Streams /\ L \in FrameLens \cup {0} /\ parts[i] = StreamField(id, L)
    BY <1>4, <1>5
  <2> HIDE DEF id, L
  <2>3. /\ StreamField(id, L) \in Seq(Byte)
        /\ Len(StreamField(id, L)) = StreamHeaderLen + L
        /\ \A p \in 1 .. StreamHeaderLen : StreamField(id, L)[p] = EntryByte(id, L)
        /\ \A p \in 1 .. L : StreamField(id, L)[StreamHeaderLen + p] = DataByte(id)
    BY <2>2, EntryBytes
  <2>4. QED BY <2>2, <2>3 DEF id, L
<1>7. parts \in Seq(Seq(Byte)) /\ Len(parts) = e
  BY <1>3, <1>4, <1>6
<1> HIDE DEF parts, e
<1>8. flat \in Seq(Byte) /\ Parts(parts, e, flat)
  BY <1>7, Flattened
<1> HIDE DEF flat
<1>9. PICK off \in [1 .. e + 1 -> Nat] :
        /\ off[1] = 0 /\ off[e + 1] = Len(flat)
        /\ \A i \in 1 .. e :
             /\ off[i + 1] = off[i] + Len(parts[i])
             /\ off[i + 1] <= Len(flat)
             /\ \A p \in 1 .. Len(parts[i]) : flat[off[i] + p] = parts[i][p]
  BY <1>8 DEF Parts
<1>10. /\ head \in Seq(Byte) /\ Len(head) = HeaderLen
       /\ \A p \in 1 .. HeaderLen : head[p] = HeaderByte
  BY <1>2, BytesOf, Repeated
<1>11. /\ bits \in Seq(Byte) /\ Len(bits) = MaskLen
       /\ \A p \in 1 .. MaskLen : bits[p] = MaskByte(mask)
  BY <1>2, BytesOf, Repeated
<1> HIDE DEF head, bits
<1>12. /\ front \in Seq(Byte) /\ Len(front) = HeaderLen + MaskLen
       /\ \A p \in 1 .. HeaderLen : front[p] = HeaderByte
       /\ \A p \in 1 .. MaskLen : front[HeaderLen + p] = MaskByte(mask)
  <2>1. /\ front \in Seq(Byte) /\ Len(front) = Len(head) + Len(bits)
        /\ \A x \in 1 .. Len(head) : front[x] = head[x]
        /\ \A x \in 1 .. Len(bits) : front[Len(head) + x] = bits[x]
    <3>1. head \in Seq(Byte) /\ bits \in Seq(Byte)
      BY <1>10, <1>11
    <3>2. QED BY <3>1, Joined
  <2> HIDE DEF front
  <2>2. QED BY <1>10, <1>11, <2>1
<1> HIDE DEF front
<1>13. /\ seg \in Seq(Byte) /\ Len(seg) = HeaderLen + MaskLen + Len(flat)
       /\ \A x \in 1 .. HeaderLen + MaskLen : seg[x] = front[x]
       /\ \A x \in 1 .. Len(flat) : seg[HeaderLen + MaskLen + x] = flat[x]
  <2>1. /\ seg \in Seq(Byte) /\ Len(seg) = Len(front) + Len(flat)
        /\ \A x \in 1 .. Len(front) : seg[x] = front[x]
        /\ \A x \in 1 .. Len(flat) : seg[Len(front) + x] = flat[x]
    <3>1. front \in Seq(Byte) /\ flat \in Seq(Byte)
      BY <1>8, <1>12
    <3>2. QED BY <3>1, Joined
  <2> HIDE DEF seg
  <2>2. QED BY <1>12, <2>1
<1> HIDE DEF seg
<1>14. \A p \in 1 .. HeaderLen : seg[p] = HeaderByte
  BY <1>2, <1>12, <1>13
<1>15. \A p \in 1 .. MaskLen : seg[HeaderLen + p] = MaskByte(mask)
  <2>1. \A p \in 1 .. MaskLen : HeaderLen + p \in 1 .. HeaderLen + MaskLen
    BY <1>2
  <2>2. QED BY <1>12, <1>13, <2>1
<1>16. ASSUME NEW i \in 1 .. e
       PROVE  /\ off[i + 1] = off[i] + StreamHeaderLen + lens[streams[i]]
              /\ off[i + 1] <= off[e + 1]
              /\ \A p \in 1 .. StreamHeaderLen :
                   seg[HeaderLen + MaskLen + off[i] + p] = EntryByte(streams[i], lens[streams[i]])
              /\ \A p \in 1 .. lens[streams[i]] :
                   seg[HeaderLen + MaskLen + off[i] + StreamHeaderLen + p] = DataByte(streams[i])
  <2> DEFINE L == lens[streams[i]]
  <2>1. off[i] \in Nat /\ L \in Nat /\ Len(parts[i]) = StreamHeaderLen + L /\ Len(flat) \in Nat
    BY <1>3, <1>4, <1>6, <1>8, <1>9
  <2>2. off[i + 1] = off[i] + StreamHeaderLen + L /\ off[i + 1] <= Len(flat)
    BY <1>2, <1>9, <2>1
  <2> HIDE DEF L
  <2>3. \A p \in 1 .. StreamHeaderLen + L :
          off[i] + p \in 1 .. Len(flat) /\ flat[off[i] + p] = parts[i][p]
    <3>1. \A p \in 1 .. StreamHeaderLen + L : off[i] + p \in 1 .. Len(flat)
      BY <1>2, <2>1, <2>2
    <3>2. QED BY <1>9, <2>1, <3>1
  <2>4. \A p \in 1 .. StreamHeaderLen + L : seg[HeaderLen + MaskLen + (off[i] + p)] = parts[i][p]
    BY <1>13, <2>3
  <2>5. \A p \in 1 .. StreamHeaderLen :
          /\ p \in 1 .. StreamHeaderLen + L
          /\ HeaderLen + MaskLen + (off[i] + p) = HeaderLen + MaskLen + off[i] + p
    BY <1>2, <2>1
  <2>6. \A p \in 1 .. L :
          /\ StreamHeaderLen + p \in 1 .. StreamHeaderLen + L
          /\ HeaderLen + MaskLen + (off[i] + (StreamHeaderLen + p))
               = HeaderLen + MaskLen + off[i] + StreamHeaderLen + p
    BY <1>2, <2>1
  <2>7. \A p \in 1 .. StreamHeaderLen :
          seg[HeaderLen + MaskLen + off[i] + p] = EntryByte(streams[i], lens[streams[i]])
    <3>1. TAKE p \in 1 .. StreamHeaderLen
    <3>2. seg[HeaderLen + MaskLen + off[i] + p] = parts[i][p]
      BY <2>4, <2>5
    <3>3. QED BY <1>6, <3>2
  <2>8. \A p \in 1 .. lens[streams[i]] :
          seg[HeaderLen + MaskLen + off[i] + StreamHeaderLen + p] = DataByte(streams[i])
    <3>1. TAKE p \in 1 .. lens[streams[i]]
    <3>2. seg[HeaderLen + MaskLen + off[i] + StreamHeaderLen + p] = parts[i][StreamHeaderLen + p]
      BY <2>4, <2>6 DEF L
    <3>3. QED BY <1>6, <3>2
  <2>9. QED BY <1>9, <2>2, <2>7, <2>8 DEF L
<1>17. SegmentBytes(seg, mask, streams, lens, off)
  BY <1>9, <1>13, <1>14, <1>15, <1>16 DEF SegmentBytes, e
<1>18. QED BY <1>1, <1>17 DEF e

(* What joined before joins when more frames are written.                       *)
LEMMA JoinsStays ==
  ASSUME NEW f \in Placed, NEW g \in Placed, NEW w, NEW w2, Len(w) \in Nat, Len(w2) \in Nat,
         Len(w) <= Len(w2), \A j \in 1 .. Len(w) : w2[j] = w[j], Joins(f, g, w)
  PROVE  Joins(f, g, w2)
<1>1. f.from \in Nat /\ f.len \in Nat
  BY DEF Placed
<1>2. DataJoins(f, g, w2)
  <2>1. DataJoins(f, g, w)
    BY DEF Joins
  <2>2. f.byte.kind = "data" /\ f.len > 0 => f.from + 1 <= Len(w) /\ w[f.from + 1] = f.byte.value
    BY <2>1 DEF DataJoins
  <2>3. f.byte.kind = "data" /\ f.len > 0 => f.from + 1 \in 1 .. Len(w) /\ f.from + 1 <= Len(w2)
    <3>1. f.from + 1 <= Len(w) => f.from + 1 \in 1 .. Len(w) /\ f.from + 1 <= Len(w2)
      BY <1>1
    <3>2. QED BY <2>2, <3>1
  <2>4. f.byte.kind = "data" /\ f.len > 0 => w2[f.from + 1] = f.byte.value
    BY <2>2, <2>3
  <2>5. QED BY <2>1, <2>3, <2>4 DEF DataJoins
<1>3. QED BY <1>2 DEF Joins

LEMMA Halves ==
  ASSUME NEW d \in Nat, NEW e \in Nat, 3 <= d, d <= 2 + 2 * e
  PROVE  \E i \in 1 .. e : d = 1 + 2 * i \/ d = 2 + 2 * i
<1> DEFINE h == d \div 2
<1>1. h \in Int /\ d = 2 * h + (d % 2) /\ d % 2 \in 0 .. 1
  OBVIOUS
<1> HIDE DEF h
<1>2. CASE d % 2 = 1
  <2>1. h \in 1 .. e /\ d = 1 + 2 * h
    BY <1>1, <1>2
  <2>2. QED BY <2>1
<1>3. CASE d % 2 = 0
  <2>1. h - 1 \in 1 .. e /\ d = 2 + 2 * (h - 1)
    BY <1>1, <1>3
  <2>2. QED BY <2>1
<1>4. QED BY <1>1, <1>2, <1>3

(* A segment announces as many entries as it has, those with a frame first.      *)
Entries(mask, frames, empty, lens) ==
  /\ Len(frames) + Len(empty) = numStreams(mask)
  /\ numStreams(mask) \in 1 .. MAX_XCODING_INSTANCES + 1
  /\ \A i \in 1 .. Len(frames) : lens[frames[i]] > 0
  /\ \A i \in 1 .. Len(empty) : lens[empty[i]] = 0
WithFrames(w, frames) == w \o [i \in DOMAIN frames |-> <<frames[i], segments>>]

Masks == SUBSET Slots

(* Of the fields behind the first m + 1, one is a mask, with n frames before it. *)
OneMask(fs2, m, m2, mask, n) ==
  /\ m + 2 <= m2 /\ fs2[m + 2].byte.kind = "mask" /\ fs2[m + 2].byte.value = mask
  /\ fs2[m + 2].from = n
  /\ \A j \in m + 3 .. m2 + 1 : fs2[j].byte.kind # "mask"

(* The fields fs, then those of seg.                                              *)
GoesOn(fs, m, w2, rest, seg, c, mask, n) ==
  \E m2 \in Nat : \E fs2 \in [1 .. m2 + 1 -> Placed] :
    /\ m <= m2 /\ \A j \in 1 .. m + 1 : fs2[j] = fs[j]
    /\ Chain(fs2, m2, w2) /\ OnTheWay(fs2, m2, rest \o seg, c)
    /\ OneMask(fs2, m, m2, mask, n)

(* A segment's fields go on from the header that was expected.                  *)
LEMMA SegmentAppended ==
  ASSUME direction \in {"SGI", "SGO"}, segments \in Nat, NEW mask \in Masks,
         NEW frames \in Seq(Streams), NEW empty \in Seq(Streams),
         NEW lens \in [Streams -> FrameLens \cup {0}],
         Entries(mask, frames, empty, lens),
         NEW w \in Seq(Frame), NEW w2, w2 = WithFrames(w, frames),
         NEW rest \in Seq(Byte), NEW seg, seg = Segment(mask, frames \o empty, lens),
         NEW c \in Nat, NEW m \in Nat, NEW fs, Chain(fs, m, w), OnTheWay(fs, m, rest, c)
  PROVE  /\ seg \in Seq(Byte) /\ w2 \in Seq(Frame)
         /\ Len(w) <= Len(w2) /\ \A j \in 1 .. Len(w) : w2[j] = w[j]
         /\ GoesOn(fs, m, w2, rest, seg, c, mask, Len(w))
<1>0. mask \in SUBSET Slots
  BY DEF Masks
<1> DEFINE all == frames \o empty
           nf  == Len(frames)
           e   == numStreams(mask)
           L(i) == lens[all[i]]
           new == [i \in DOMAIN frames |-> <<frames[i], segments>>]
<1>1. /\ nf \in Nat /\ Len(empty) \in Nat /\ e \in Nat /\ e > 0 /\ nf + Len(empty) = e
      /\ nf <= e /\ DOMAIN frames = 1 .. nf
  <2>1. nf \in Nat /\ Len(empty) \in Nat /\ DOMAIN frames = 1 .. nf
    BY LenProperties
  <2>2. e \in 1 .. MAX_XCODING_INSTANCES + 1 /\ nf + Len(empty) = e
    BY DEF Entries
  <2>3. QED BY <2>1, <2>2, Lengths
<1>2. /\ all \in Seq(Streams) /\ Len(all) = e
      /\ \A i \in 1 .. nf : all[i] = frames[i]
      /\ \A i \in 1 .. Len(empty) : all[nf + i] = empty[i]
  <2>1. /\ all \in Seq(Streams) /\ Len(all) = nf + Len(empty)
        /\ \A i \in 1 .. nf : all[i] = frames[i]
        /\ \A i \in 1 .. Len(empty) : all[nf + i] = empty[i]
    BY Joined
  <2>2. QED BY <1>1, <2>1
<1> HIDE DEF all, e
<1>3. \A i \in 1 .. e : all[i] \in Streams /\ L(i) \in FrameLens \cup {0} /\ L(i) \in Nat
  <2>1. \A i \in 1 .. e : all[i] \in Streams
    BY <1>2
  <2>2. \A id \in Streams : lens[id] \in FrameLens \cup {0} /\ lens[id] \in Nat
    BY Lengths
  <2>3. QED BY <2>1, <2>2
<1>4. /\ \A i \in 1 .. nf : i \in 1 .. e /\ all[i] = frames[i] /\ L(i) > 0
      /\ \A i \in nf + 1 .. e : L(i) = 0
  <2>1. \A i \in 1 .. nf : i \in 1 .. e
    BY <1>1
  <2>2. \A i \in 1 .. nf : all[i] = frames[i] /\ L(i) > 0
    BY <1>2 DEF Entries
  <2>3. \A i \in nf + 1 .. e : i - nf \in 1 .. Len(empty) /\ nf + (i - nf) = i
    BY <1>1
  <2>4. \A i \in nf + 1 .. e : all[i] = empty[i - nf]
    BY <1>2, <2>3
  <2>5. \A i \in nf + 1 .. e : L(i) = 0
    <3>1. TAKE i \in nf + 1 .. e
    <3>2. i - nf \in 1 .. Len(empty) /\ all[i] = empty[i - nf]
      BY <2>3, <2>4
    <3>3. lens[empty[i - nf]] = 0
      BY <3>2 DEF Entries
    <3>4. QED BY <3>2, <3>3
  <2>6. QED BY <2>1, <2>2, <2>5
<1> HIDE DEF nf, L
<1>5. PICK off : off \in [1 .. e + 1 -> Nat] /\ SegmentBytes(seg, mask, all, lens, off)
  BY <1>0, <1>2, SegmentLaidOut DEF all
<1> DEFINE at(i) == off[i]
<1>6. /\ seg \in Seq(Byte)
      /\ at(1) = 0 /\ Len(seg) = HeaderLen + MaskLen + at(e + 1)
      /\ \A p \in 1 .. HeaderLen : seg[p] = HeaderByte
      /\ \A p \in 1 .. MaskLen : seg[HeaderLen + p] = MaskByte(mask)
  BY <1>2, <1>5 DEF SegmentBytes
<1>7. \A i \in 1 .. e :
        /\ at(i + 1) = at(i) + StreamHeaderLen + L(i)
        /\ at(i + 1) <= at(e + 1)
        /\ \A p \in 1 .. StreamHeaderLen :
             seg[HeaderLen + MaskLen + at(i) + p] = EntryByte(all[i], L(i))
        /\ \A p \in 1 .. L(i) :
             seg[HeaderLen + MaskLen + at(i) + StreamHeaderLen + p] = DataByte(all[i])
  BY <1>2, <1>5 DEF SegmentBytes, L
<1> HIDE DEF at
<1>8. HeaderLen \in Nat \ {0} /\ MaskLen \in Nat \ {0} /\ StreamHeaderLen \in Nat \ {0}
  BY Lengths
<1>9. /\ w2 \in Seq(Frame) /\ Len(w) \in Nat /\ Len(w2) = Len(w) + nf
      /\ \A j \in 1 .. Len(w) : w2[j] = w[j]
      /\ \A i \in 1 .. nf : w2[Len(w) + i] = <<frames[i], segments>>
  <2>1. \A i \in 1 .. nf : frames[i] \in Streams
    BY DEF nf
  <2>2. new \in Seq(Frame) /\ Len(new) = nf /\ \A i \in 1 .. nf : new[i] = <<frames[i], segments>>
    <3>1. new = [i \in 1 .. nf |-> <<frames[i], segments>>]
      BY <1>1
    <3>2. \A i \in 1 .. nf : <<frames[i], segments>> \in Frame
      BY <2>1 DEF Frame
    <3>3. nf \in Nat
      BY <1>1
    <3> HIDE DEF new
    <3>4. QED BY <3>1, <3>2, <3>3
  <2> HIDE DEF new
  <2>3. /\ w \o new \in Seq(Frame) /\ Len(w \o new) = Len(w) + Len(new)
        /\ \A x \in 1 .. Len(w) : (w \o new)[x] = w[x]
        /\ \A x \in 1 .. Len(new) : (w \o new)[Len(w) + x] = new[x]
    <3>1. new \in Seq(Frame)
      BY <2>2
    <3>2. QED BY <3>1, Joined
  <2>4. w2 = w \o new
    BY DEF new, WithFrames
  <2>5. Len(w) \in Nat /\ Len(w2) = Len(w) + nf
    <3>1. Len(w) \in Nat
      BY LenProperties
    <3>2. Len(w2) = Len(w \o new)
      BY <2>4
    <3>3. QED BY <2>2, <2>3, <3>1, <3>2
  <2>6. \A i \in 1 .. nf : w2[Len(w) + i] = <<frames[i], segments>>
    BY <2>2, <2>3, <2>4
  <2>7. QED BY <2>3, <2>4, <2>5, <2>6
<1>10. /\ fs \in [1 .. m + 1 -> Placed]
       /\ \A i \in 1 .. m : Joins(fs[i], fs[i + 1], w) /\ fs[i].at + fs[i].len <= fs[m + 1].at
       /\ \A i \in 1 .. m + 1 : fs[i].from <= Len(w)
       /\ fs[m + 1].byte = HeaderByte /\ fs[m + 1].len = HeaderLen
       /\ fs[m + 1].left = 0 /\ fs[m + 1].from = Len(w)
  BY DEF Chain, HeaderByte
<1> DEFINE n0 == fs[m + 1].at
           start == n0 + HeaderLen + MaskLen
           before(i) == IF i <= nf THEN Len(w) + i - 1 ELSE Len(w) + nf
           maskField == [byte |-> MaskByte(mask), len |-> MaskLen, at |-> n0 + HeaderLen,
                         left |-> 0, from |-> Len(w)]
           entry(i) == [byte |-> EntryByte(all[i], L(i)), len |-> StreamHeaderLen,
                        at |-> start + at(i), left |-> e + 1 - i, from |-> before(i)]
           data(i) == [byte |-> DataByte(all[i]), len |-> L(i),
                       at |-> start + at(i) + StreamHeaderLen, left |-> e + 1 - i, from |-> before(i)]
           next == [byte |-> HeaderByte, len |-> HeaderLen, at |-> start + at(e + 1),
                    left |-> 0, from |-> Len(w) + nf]
           m2 == m + 2 + 2 * e
<1>11. n0 \in Nat /\ start \in Nat /\ \A i \in 1 .. e + 1 : at(i) \in Nat
  <2>0. \A i \in 1 .. e + 1 : at(i) \in Nat
    BY <1>5 DEF at
  <2>1. fs[m + 1] \in Placed
    BY <1>10
  <2>2. n0 \in Nat
    BY <2>1 DEF Placed
  <2> HIDE DEF n0
  <2>3. start \in Nat
    BY <1>8, <2>2
  <2>4. QED BY <2>0, <2>2, <2>3
<1> HIDE DEF n0
<1>12. \A i \in 1 .. e : before(i) \in Nat /\ before(i) <= Len(w) + nf /\ e + 1 - i \in 1 .. MAX_XCODING_INSTANCES + 1
  <2>1. MAX_XCODING_INSTANCES \in Nat /\ e <= MAX_XCODING_INSTANCES + 1
    BY Lengths DEF e, Entries
  <2>2. QED BY <1>1, <1>9, <2>1
<1>13. maskField \in Placed /\ next \in Placed
  <2>1. MaskByte(mask) \in Byte /\ HeaderByte \in Byte
    BY <1>0, BytesOf
  <2>2. 0 \in 0 .. MAX_XCODING_INSTANCES + 1 /\ at(e + 1) \in Nat
    BY Lengths, <1>1, <1>11
  <2>3. n0 + HeaderLen \in Nat /\ start + at(e + 1) \in Nat /\ Len(w) + nf \in Nat
    BY <1>1, <1>8, <1>9, <1>11, <2>2
  <2> HIDE DEF start
  <2>4. QED BY <1>8, <1>9, <2>1, <2>2, <2>3 DEF Placed
<1>14. \A i \in 1 .. e : entry(i) \in Placed /\ data(i) \in Placed
  <2>1. TAKE i \in 1 .. e
  <2>2. EntryByte(all[i], L(i)) \in Byte /\ DataByte(all[i]) \in Byte /\ L(i) \in Nat
    BY <1>3, BytesOf
  <2>3. e + 1 - i \in 0 .. MAX_XCODING_INSTANCES + 1 /\ before(i) \in Nat
    BY <1>1, <1>12
  <2>4. start + at(i) \in Nat /\ start + at(i) + StreamHeaderLen \in Nat
    <3>1. i \in 1 .. e + 1
      BY <1>1
    <3>2. QED BY <1>8, <1>11, <3>1
  <2> HIDE DEF start, before
  <2>5. QED BY <1>8, <2>2, <2>3, <2>4 DEF Placed
<1> DEFINE fs2 == [j \in 1 .. m2 + 1 |->
                     IF j <= m + 1 THEN fs[j] ELSE
                     IF j = m + 2 THEN maskField ELSE
                     IF j = m2 + 1 THEN next ELSE
                     IF (j - m) % 2 = 1 THEN entry((j - m - 1) \div 2) ELSE data((j - m - 2) \div 2)]
<1> HIDE DEF maskField, entry, data, next, start, before
<1>15. /\ m2 \in Nat /\ m <= m2 /\ m + 1 <= m2 /\ m + 2 <= m2
       /\ \A i \in 1 .. e : m + 1 + 2 * i \in m + 3 .. m2 /\ m + 2 + 2 * i \in m + 3 .. m2
  BY <1>1
<1>16. \A i \in 1 .. e : /\ (m + 1 + 2 * i - m) % 2 = 1 /\ (m + 1 + 2 * i - m - 1) \div 2 = i
                        /\ (m + 2 + 2 * i - m) % 2 # 1 /\ (m + 2 + 2 * i - m - 2) \div 2 = i
  BY <1>1
<1>17. \A j \in m + 3 .. m2 : \E i \in 1 .. e : j = m + 1 + 2 * i \/ j = m + 2 + 2 * i
  <2>1. TAKE j \in m + 3 .. m2
  <2> DEFINE d == j - m
  <2>2. d \in Nat /\ 3 <= d /\ d <= 2 + 2 * e /\ j = m + d
    BY <1>1
  <2> HIDE DEF d
  <2>3. PICK i \in 1 .. e : d = 1 + 2 * i \/ d = 2 + 2 * i
    BY <1>1, <2>2, Halves
  <2>4. j = m + 1 + 2 * i \/ j = m + 2 + 2 * i
    <3>1. m + (1 + 2 * i) = m + 1 + 2 * i /\ m + (2 + 2 * i) = m + 2 + 2 * i
      BY <1>1
    <3>2. QED BY <2>2, <2>3, <3>1
  <2>5. QED BY <2>4
<1>18. /\ \A j \in 1 .. m + 1 : fs2[j] = fs[j]
       /\ fs2[m + 2] = maskField /\ fs2[m2 + 1] = next
       /\ \A i \in 1 .. e : fs2[m + 1 + 2 * i] = entry(i) /\ fs2[m + 2 + 2 * i] = data(i)
  <2>1. \A j \in 1 .. m + 1 : j \in 1 .. m2 + 1
    BY <1>15
  <2>2. m + 2 \in 1 .. m2 + 1 /\ m2 + 1 \in 1 .. m2 + 1 /\ ~(m + 2 <= m + 1)
        /\ ~(m2 + 1 <= m + 1) /\ m2 + 1 # m + 2
    BY <1>15
  <2>3. \A j \in m + 3 .. m2 : j \in 1 .. m2 + 1 /\ ~(j <= m + 1) /\ j # m + 2 /\ j # m2 + 1
    BY <1>15
  <2>4. \A j \in m + 3 .. m2 :
          fs2[j] = IF (j - m) % 2 = 1 THEN entry((j - m - 1) \div 2) ELSE data((j - m - 2) \div 2)
    BY <2>3
  <2>5. \A j \in 1 .. m + 1 : fs2[j] = fs[j]
    BY <2>1
  <2>6. fs2[m + 2] = maskField /\ fs2[m2 + 1] = next
    BY <2>2
  <2> HIDE DEF fs2, m2
  <2>7. \A i \in 1 .. e : fs2[m + 1 + 2 * i] = entry(i)
    BY <1>15, <1>16, <2>4
  <2>8. \A i \in 1 .. e : fs2[m + 2 + 2 * i] = data(i)
    BY <1>15, <1>16, <2>4
  <2>9. QED BY <2>5, <2>6, <2>7, <2>8
<1>19. DOMAIN fs2 = 1 .. m2 + 1 /\ fs2 = [j \in 1 .. m2 + 1 |-> fs2[j]]
  OBVIOUS
<1> HIDE DEF fs2
<1>20. \A j \in 1 .. m2 + 1 : \/ j \in 1 .. m \/ j = m + 1 \/ j = m + 2 \/ j = m2 + 1
                              \/ \E i \in 1 .. e : j = m + 1 + 2 * i
                              \/ \E i \in 1 .. e : j = m + 2 + 2 * i
  <2>0. m2 \in Nat
    BY <1>15
  <2> HIDE DEF m2
  <2>1. \A j \in 1 .. m2 + 1 : j \in 1 .. m \/ j = m + 1 \/ j = m + 2 \/ j = m2 + 1 \/ j \in m + 3 .. m2
    BY <2>0
  <2>2. \A j \in m + 3 .. m2 : \/ \E i \in 1 .. e : j = m + 1 + 2 * i
                             \/ \E i \in 1 .. e : j = m + 2 + 2 * i
    BY <1>17
  <2>3. QED BY <2>1, <2>2
<1> HIDE DEF m2
<1>21. fs2 \in [1 .. m2 + 1 -> Placed]
  <2>1. \A j \in 1 .. m + 1 : fs2[j] \in Placed
    BY <1>10, <1>18
  <2>2. \A j \in 1 .. m2 + 1 : fs2[j] \in Placed
    <3>1. TAKE j \in 1 .. m2 + 1
    <3>2. j \in 1 .. m \/ j = m + 1 => fs2[j] \in Placed
      BY <2>1
    <3>3. j = m + 2 \/ j = m2 + 1 => fs2[j] \in Placed
      BY <1>13, <1>18
    <3>4. (\E i \in 1 .. e : j = m + 1 + 2 * i \/ j = m + 2 + 2 * i) => fs2[j] \in Placed
      BY <1>14, <1>18
    <3>5. QED BY <1>20, <3>2, <3>3, <3>4
  <2>3. QED BY <1>19, <2>2
<1>22. /\ maskField.byte = MaskByte(mask) /\ maskField.len = MaskLen /\ maskField.at = n0 + HeaderLen
       /\ maskField.from = Len(w)
       /\ next.byte = HeaderByte /\ next.len = HeaderLen /\ next.at = start + at(e + 1)
       /\ next.left = 0 /\ next.from = Len(w) + nf
  BY DEF maskField, next
<1>23. \A i \in 1 .. e :
         /\ entry(i).byte = EntryByte(all[i], L(i)) /\ entry(i).len = StreamHeaderLen
         /\ entry(i).at = start + at(i) /\ entry(i).left = e + 1 - i /\ entry(i).from = before(i)
  BY DEF entry
<1>24. \A i \in 1 .. e :
         /\ data(i).byte = DataByte(all[i]) /\ data(i).len = L(i)
         /\ data(i).at = start + at(i) + StreamHeaderLen
         /\ data(i).left = e + 1 - i /\ data(i).from = before(i)
  BY DEF data
<1>25. /\ before(1) = Len(w)
       /\ \A i \in 1 .. e :
            /\ i # e => before(i + 1) = IF L(i) > 0 THEN before(i) + 1 ELSE before(i)
            /\ i = e => Len(w) + nf = IF L(i) > 0 THEN before(i) + 1 ELSE before(i)
            /\ L(i) > 0 => before(i) + 1 <= Len(w2) /\ w2[before(i) + 1] = <<all[i], segments>>
  <2>1. before(1) = Len(w)
    BY <1>1, <1>9 DEF before
  <2>2. ASSUME NEW i \in 1 .. e
        PROVE  /\ i # e => before(i + 1) = IF L(i) > 0 THEN before(i) + 1 ELSE before(i)
               /\ i = e => Len(w) + nf = IF L(i) > 0 THEN before(i) + 1 ELSE before(i)
               /\ L(i) > 0 => before(i) + 1 <= Len(w2) /\ w2[before(i) + 1] = <<all[i], segments>>
    <3>1. CASE i <= nf
      <4>1. i \in 1 .. nf /\ all[i] = frames[i] /\ L(i) > 0
        <5>1. i \in 1 .. nf
          BY <1>1, <2>2, <3>1
        <5>2. QED BY <1>4, <5>1
      <4>2. before(i) + 1 = Len(w) + i
        BY <1>1, <1>9, <2>2, <3>1 DEF before
      <4>3. before(i + 1) = Len(w) + i
        <5>1. CASE i + 1 <= nf
          BY <1>1, <1>9, <2>2, <5>1 DEF before
        <5>2. CASE ~(i + 1 <= nf)
          <6>1. nf = i
            BY <1>1, <2>2, <3>1, <5>2
          <6>2. QED BY <5>2, <6>1 DEF before
        <5>3. QED BY <5>1, <5>2
      <4>4. i = e => nf = i
        BY <1>1, <2>2, <3>1
      <4>5. Len(w) + i <= Len(w2) /\ w2[Len(w) + i] = <<all[i], segments>>
        <5>1. Len(w) + i <= Len(w2)
          BY <1>1, <1>9, <2>2, <3>1
        <5>2. QED BY <1>9, <4>1, <5>1
      <4>6. QED BY <4>1, <4>2, <4>3, <4>4, <4>5
    <3>2. CASE i > nf
      <4>1. L(i) = 0 /\ before(i) = Len(w) + nf /\ before(i + 1) = Len(w) + nf
        <5>1. L(i) = 0
          <6>1. i \in nf + 1 .. e
            BY <1>1, <2>2, <3>2
          <6>2. QED BY <1>4, <6>1
        <5>2. ~(i <= nf) /\ ~(i + 1 <= nf)
          BY <1>1, <2>2, <3>2
        <5>3. QED BY <5>1, <5>2 DEF before
      <4>2. QED BY <4>1
    <3>3. i <= nf \/ i > nf
      BY <1>1, <2>2
    <3>4. QED BY <3>1, <3>2, <3>3
  <2>3. QED BY <2>1, <2>2
<1>26. /\ HeaderByte.kind = "header" /\ MaskByte(mask).kind = "mask" /\ MaskByte(mask).value = mask
       /\ \A i \in 1 .. e :
            /\ EntryByte(all[i], L(i)).kind = "stream header"
            /\ EntryByte(all[i], L(i)).value.id = all[i] /\ EntryByte(all[i], L(i)).value.len = L(i)
            /\ DataByte(all[i]).kind = "data" /\ DataByte(all[i]).value = <<all[i], segments>>
  BY DEF HeaderByte, MaskByte, EntryByte, DataByte
<1>27. Joins(fs[m + 1], maskField, w2)
  <2>1. maskField.at = fs[m + 1].at + fs[m + 1].len
    BY <1>10, <1>22 DEF n0
  <2>2. QED BY <1>10, <1>22, <1>26, <2>1 DEF Joins, HeaderJoins, MaskJoins, StreamHeaderJoins, DataJoins
<1>28. Joins(maskField, entry(1), w2)
  <2>1. 1 \in 1 .. e /\ entry(1).at = start /\ entry(1).left = e
    <3>1. 1 \in 1 .. e /\ e + 1 - 1 = e /\ start + 0 = start
      BY <1>1, <1>11
    <3>2. entry(1).at = start + at(1) /\ entry(1).left = e + 1 - 1
      BY <1>23, <3>1
    <3>3. QED BY <1>6, <3>1, <3>2
  <2>2. entry(1).at = maskField.at + maskField.len
    BY <1>22, <2>1 DEF start
  <2>3. MaskJoins(maskField, entry(1))
    BY <1>1, <1>22, <1>23, <1>25, <1>26, <2>1 DEF MaskJoins, e
  <2>4. QED BY <1>22, <1>26, <2>2, <2>3 DEF Joins, HeaderJoins, StreamHeaderJoins, DataJoins
<1>29. \A i \in 1 .. e : Joins(entry(i), data(i), w2)
  <2>1. TAKE i \in 1 .. e
  <2>2. e + 1 - i > 0 /\ DataByte(all[i]).value[1] = all[i]
    <3>1. e + 1 - i > 0
      BY <1>1
    <3>2. DataByte(all[i]).value = <<all[i], segments>>
      BY <1>26
    <3>3. QED BY <3>1, <3>2
  <2>3. StreamHeaderJoins(entry(i), data(i))
    BY <1>23, <1>24, <1>26, <2>2 DEF StreamHeaderJoins
  <2>4. data(i).at = entry(i).at + entry(i).len
    BY <1>23, <1>24
  <2>5. QED BY <1>23, <1>26, <2>3, <2>4 DEF Joins, HeaderJoins, MaskJoins, DataJoins
<1>30. ASSUME NEW i \in 1 .. e, NEW g, g.at = start + at(i + 1), g.left = e - i,
              g.byte.kind = IF e + 1 - i > 1 THEN "stream header" ELSE "header",
              g.from = IF L(i) > 0 THEN before(i) + 1 ELSE before(i)
       PROVE  Joins(data(i), g, w2)
  <2>0. i \in 1 .. e
    BY <1>30
  <2>1. i \in 1 .. e + 1 /\ L(i) \in Nat /\ at(i) \in Nat
    <3>1. i \in 1 .. e + 1
      BY <1>1, <2>0
    <3>2. L(i) \in Nat
      BY <1>3, <2>0
    <3>3. QED BY <1>11, <3>1, <3>2
  <2>2. g.at = data(i).at + data(i).len
    <3>1. at(i + 1) = at(i) + StreamHeaderLen + L(i)
      BY <1>7, <1>30
    <3>2. data(i).at + data(i).len = start + at(i) + StreamHeaderLen + L(i)
      BY <1>24, <1>30
    <3>3. start + (at(i) + StreamHeaderLen + L(i)) = start + at(i) + StreamHeaderLen + L(i)
      BY <1>8, <1>11, <2>1
    <3>4. QED BY <1>30, <3>1, <3>2, <3>3
  <2>3. g.left = data(i).left - 1
    <3>1. data(i).left = e + 1 - i
      BY <1>24, <2>0
    <3>2. e + 1 - i - 1 = e - i
      BY <1>1, <2>0
    <3>3. g.left = e - i
      BY <1>30
    <3>4. QED BY <1>1, <2>0, <3>1, <3>2, <3>3
  <2>4. DataJoins(data(i), g, w2)
    <3>1. /\ data(i).left = e + 1 - i /\ data(i).len = L(i) /\ data(i).from = before(i)
          /\ data(i).byte.value = <<all[i], segments>>
      BY <1>24, <1>26, <1>30
    <3>2. L(i) > 0 => before(i) + 1 <= Len(w2) /\ w2[before(i) + 1] = <<all[i], segments>>
      BY <1>25, <1>30
    <3>3. QED BY <1>30, <2>3, <3>1, <3>2 DEF DataJoins
  <2>5. QED BY <1>24, <1>26, <2>2, <2>4 DEF Joins, HeaderJoins, MaskJoins, StreamHeaderJoins
<1>31. \A i \in 1 .. e : i # e => Joins(data(i), entry(i + 1), w2)
  <2>1. TAKE i \in 1 .. e
  <2>2. i # e => i + 1 \in 1 .. e /\ e + 1 - i > 1 /\ e + 1 - (i + 1) = e - i
    BY <1>1
  <2>3. i # e => /\ entry(i + 1).at = start + at(i + 1) /\ entry(i + 1).left = e - i
                 /\ entry(i + 1).byte.kind = "stream header" /\ entry(i + 1).from = before(i + 1)
    BY <1>23, <1>26, <2>2
  <2>4. QED BY <1>25, <1>30, <2>2, <2>3
<1>32. Joins(data(e), next, w2)
  <2>1. e \in 1 .. e /\ ~(e + 1 - e > 1) /\ e - e = 0
    BY <1>1
  <2>2. QED BY <1>22, <1>25, <1>26, <1>30, <2>1
<1>33. \A j \in 1 .. m : Joins(fs2[j], fs2[j + 1], w2)
  <2>1. TAKE j \in 1 .. m
  <2>2. j \in 1 .. m + 1 /\ j + 1 \in 1 .. m + 1
    OBVIOUS
  <2>3. fs[j] \in Placed /\ fs[j + 1] \in Placed /\ fs2[j] = fs[j] /\ fs2[j + 1] = fs[j + 1]
    BY <1>10, <1>18, <2>2
  <2>4. Len(w2) \in Nat /\ Len(w) <= Len(w2)
    BY <1>1, <1>9
  <2>5. Joins(fs[j], fs[j + 1], w)
    BY <1>10
  <2>6. Joins(fs[j], fs[j + 1], w2)
    BY <1>9, <2>3, <2>4, <2>5, JoinsStays
  <2>7. QED BY <2>3, <2>6
<1>34. \A j \in 1 .. m2 : Joins(fs2[j], fs2[j + 1], w2)
  <2>1. TAKE j \in 1 .. m2
  <2>2. CASE j \in 1 .. m
    BY <1>33, <2>2
  <2>3. CASE j = m + 1
    <3>1. j + 1 = m + 2 /\ j \in 1 .. m + 1
      BY <2>3
    <3>2. QED BY <1>18, <1>27, <2>3, <3>1
  <2>4. CASE j = m + 2
    <3>1. 1 \in 1 .. e /\ j + 1 = m + 1 + 2 * 1
      BY <1>1, <2>4
    <3>2. fs2[m + 1 + 2 * 1] = entry(1)
      BY <1>18, <3>1
    <3>3. QED BY <1>18, <1>28, <2>4, <3>1, <3>2
  <2>5. ASSUME NEW i \in 1 .. e, j = m + 1 + 2 * i PROVE Joins(fs2[j], fs2[j + 1], w2)
    <3>1. j + 1 = m + 2 + 2 * i
      BY <1>1, <2>5
    <3>2. QED BY <1>18, <1>29, <2>5, <3>1
  <2>6. ASSUME NEW i \in 1 .. e, j = m + 2 + 2 * i PROVE Joins(fs2[j], fs2[j + 1], w2)
    <3>1. fs2[j] = data(i)
      BY <1>18, <2>6
    <3>2. CASE i # e
      <4>1. i + 1 \in 1 .. e /\ j + 1 = m + 1 + 2 * (i + 1)
        BY <1>1, <2>6, <3>2
      <4>2. fs2[j + 1] = entry(i + 1)
        BY <1>18, <4>1
      <4>3. QED BY <1>31, <2>6, <3>1, <3>2, <4>2
    <3>3. CASE i = e
      <4>1. j + 1 = m2 + 1
        BY <2>6, <3>3 DEF m2
      <4>2. QED BY <1>18, <1>32, <3>1, <3>3, <4>1
    <3>4. QED BY <3>2, <3>3
  <2>7. j \in 1 .. m2 + 1 /\ j # m2 + 1
    BY <1>15, <2>1
  <2>8. QED BY <1>20, <2>2, <2>3, <2>4, <2>5, <2>6, <2>7
<1>35. n0 <= next.at /\ next.at \in Nat
  <2>1. at(e + 1) \in Nat
    BY <1>1, <1>11
  <2>2. QED BY <1>8, <1>11, <1>22, <2>1 DEF start
<1>36. ASSUME NEW i \in 1 .. e
       PROVE  /\ at(i) \in Nat /\ L(i) \in Nat /\ at(e + 1) \in Nat
              /\ at(i) + StreamHeaderLen + L(i) <= at(e + 1)
  <2>1. i \in 1 .. e + 1 /\ e + 1 \in 1 .. e + 1
    BY <1>1, <1>36
  <2>2. at(i) \in Nat /\ at(e + 1) \in Nat
    BY <1>11, <2>1
  <2>3. L(i) \in Nat
    BY <1>3, <1>36
  <2>4. at(i + 1) = at(i) + StreamHeaderLen + L(i) /\ at(i + 1) <= at(e + 1)
    BY <1>7, <1>36
  <2>5. QED BY <2>2, <2>3, <2>4
<1>37. ASSUME NEW i \in 1 .. e
       PROVE  /\ entry(i).at + entry(i).len <= next.at
              /\ data(i).at + data(i).len <= next.at
  <2>1. /\ at(i) \in Nat /\ L(i) \in Nat /\ at(e + 1) \in Nat
        /\ at(i) + StreamHeaderLen + L(i) <= at(e + 1)
    BY <1>36, <1>37
  <2>2. /\ entry(i).at + entry(i).len = start + at(i) + StreamHeaderLen
        /\ data(i).at + data(i).len = start + at(i) + StreamHeaderLen + L(i)
    BY <1>23, <1>24, <1>37
  <2>3. /\ start + at(i) + StreamHeaderLen <= start + at(e + 1)
        /\ start + at(i) + StreamHeaderLen + L(i) <= start + at(e + 1)
    <3>1. start \in Nat /\ StreamHeaderLen \in Nat
      BY <1>8, <1>11
    <3>2. QED BY <2>1, <3>1
  <2>4. QED BY <1>22, <2>2, <2>3
<1>38. \A j \in 1 .. m2 : fs2[j].at + fs2[j].len <= next.at
  <2>1. TAKE j \in 1 .. m2
  <2>2. CASE j \in 1 .. m
    <3>1. fs2[j] = fs[j] /\ fs[j] \in Placed
      <4>1. j \in 1 .. m + 1
        BY <2>2
      <4>2. QED BY <1>10, <1>18, <4>1
    <3>2. fs[j].at + fs[j].len <= n0 /\ fs[j].at \in Nat /\ fs[j].len \in Nat
      BY <1>10, <2>2, <3>1 DEF n0, Placed
    <3>3. fs[j].at + fs[j].len <= next.at
      <4> DEFINE at2 == fs[j].at
                 len2 == fs[j].len
                 end == at2 + len2
      <4>1. end \in Nat /\ end <= n0
        <5>1. at2 \in Nat /\ len2 \in Nat /\ at2 + len2 <= n0
          BY <3>2
        <5> HIDE DEF at2, len2
        <5>2. QED BY <5>1
      <4>2. n0 \in Nat /\ n0 <= next.at /\ next.at \in Nat
        BY <1>11, <1>35
      <4> HIDE DEF end
      <4>3. end <= next.at
        BY <4>1, <4>2
      <4>4. QED BY <4>3 DEF end
    <3>4. QED BY <3>1, <3>3
  <2>3. CASE j = m + 1
    <3>1. fs2[j].at = n0 /\ fs2[j].len = HeaderLen
      BY <1>10, <1>18, <2>3 DEF n0
    <3>2. at(e + 1) \in Nat
      BY <1>1, <1>11
    <3>3. n0 + HeaderLen <= next.at
      BY <1>8, <1>11, <1>22, <3>2 DEF start
    <3>4. QED BY <3>1, <3>3
  <2>4. CASE j = m + 2
    <3>1. fs2[j].at = n0 + HeaderLen /\ fs2[j].len = MaskLen
      BY <1>18, <1>22, <2>4
    <3>2. at(e + 1) \in Nat
      BY <1>1, <1>11
    <3>3. n0 + HeaderLen + MaskLen <= next.at
      BY <1>8, <1>11, <1>22, <3>2 DEF start
    <3>4. QED BY <3>1, <3>3
  <2>5. ASSUME NEW i \in 1 .. e, j = m + 1 + 2 * i \/ j = m + 2 + 2 * i
        PROVE  fs2[j].at + fs2[j].len <= next.at
    BY <1>18, <1>37, <2>5
  <2>6. j \in 1 .. m2 + 1 /\ j # m2 + 1
    BY <1>15, <2>1
  <2>7. QED BY <1>20, <2>2, <2>3, <2>4, <2>5, <2>6
<1>39. \A j \in 1 .. m2 + 1 : fs2[j].from <= Len(w) + nf
  <2>1. TAKE j \in 1 .. m2 + 1
  <2>2. Len(w) \in Nat /\ nf \in Nat
    BY <1>1, <1>9
  <2>3. CASE j \in 1 .. m \/ j = m + 1
    <3>1. j \in 1 .. m + 1
      BY <2>3
    <3>2. fs2[j] = fs[j] /\ fs[j] \in Placed /\ fs[j].from <= Len(w)
      BY <1>10, <1>18, <3>1
    <3>3. fs[j].from \in Nat
      BY <3>2 DEF Placed
    <3>4. QED BY <2>2, <3>2, <3>3
  <2>4. CASE j = m + 2 \/ j = m2 + 1
    <3>1. fs2[j].from = Len(w) \/ fs2[j].from = Len(w) + nf
      BY <1>18, <1>22, <2>4
    <3>2. QED BY <2>2, <3>1
  <2>5. ASSUME NEW i \in 1 .. e, j = m + 1 + 2 * i \/ j = m + 2 + 2 * i
        PROVE  fs2[j].from <= Len(w) + nf
    <3>1. fs2[j].from = before(i)
      BY <1>18, <1>23, <1>24, <2>5
    <3>2. before(i) <= Len(w) + nf
      BY <1>12, <2>5
    <3>3. QED BY <3>1, <3>2
  <2>6. QED BY <1>20, <2>3, <2>4, <2>5
<1>40. Chain(fs2, m2, w2)
  <2>1. /\ fs2[m2 + 1].byte = HeaderByte /\ fs2[m2 + 1].len = HeaderLen
        /\ fs2[m2 + 1].left = 0 /\ fs2[m2 + 1].from = Len(w2)
    BY <1>9, <1>18, <1>22
  <2>2. \A j \in 1 .. m2 : fs2[j].at + fs2[j].len <= fs2[m2 + 1].at
    BY <1>18, <1>38
  <2>3. \A j \in 1 .. m2 + 1 : fs2[j].from <= Len(w2)
    BY <1>9, <1>39
  <2>4. QED BY <1>21, <1>34, <2>1, <2>2, <2>3 DEF Chain, HeaderByte
<1>41. /\ rest \o seg \in Seq(Byte) /\ Len(rest \o seg) = Len(rest) + Len(seg)
       /\ \A x \in 1 .. Len(rest) : (rest \o seg)[x] = rest[x]
       /\ \A x \in 1 .. Len(seg) : (rest \o seg)[Len(rest) + x] = seg[x]
  BY <1>6, Joined
<1> DEFINE rest2 == rest \o seg
<1> HIDE DEF rest2
<1>42. /\ c + Len(rest) = n0 /\ Len(rest) \in Nat /\ Len(seg) \in Nat
       /\ \A j \in 1 .. m : \A p \in 1 .. fs[j].len :
            fs[j].at + p > c => rest[fs[j].at + p - c] = fs[j].byte
  <2>1. Len(rest) \in Nat /\ Len(seg) \in Nat
    BY <1>6, LenProperties
  <2>2. QED BY <2>1 DEF OnTheWay, n0
<1>43. ASSUME NEW q \in Nat, NEW len \in Nat, NEW b, q + len <= Len(seg),
              \A p \in 1 .. len : seg[q + p] = b
       PROVE  \A p \in 1 .. len : rest2[n0 + q + p - c] = b
  <2>1. TAKE p \in 1 .. len
  <2>2. q + p \in 1 .. Len(seg) /\ n0 + q + p - c = Len(rest) + (q + p)
    BY <1>42, <1>43
  <2>3. rest2[Len(rest) + (q + p)] = seg[q + p]
    BY <1>41, <2>2 DEF rest2
  <2>4. QED BY <1>43, <2>2, <2>3
<1>44. c + Len(rest2) = fs2[m2 + 1].at
  <2>1. Len(rest2) = Len(rest) + (HeaderLen + MaskLen + at(e + 1))
    BY <1>6, <1>41 DEF rest2
  <2>2. at(e + 1) \in Nat
    BY <1>1, <1>11
  <2>3. n0 + HeaderLen + MaskLen + at(e + 1) = c + (Len(rest) + (HeaderLen + MaskLen + at(e + 1)))
    <3>1. HeaderLen \in Nat /\ MaskLen \in Nat /\ n0 \in Nat
      BY <1>8, <1>11
    <3>2. n0 = c + Len(rest) /\ Len(rest) \in Nat
      BY <1>42
    <3>3. QED BY <2>2, <3>1, <3>2
  <2>4. QED BY <1>18, <1>22, <2>1, <2>3 DEF start
<1> DEFINE Here(f) == \A p \in 1 .. f.len : f.at + p > c => rest2[f.at + p - c] = f.byte
<1>45. ASSUME NEW f, NEW q \in Nat, f.len \in Nat, f.at = n0 + q, q + f.len <= Len(seg),
              \A p \in 1 .. f.len : seg[q + p] = f.byte
       PROVE  Here(f)
  <2>1. \A p \in 1 .. f.len : rest2[n0 + q + p - c] = f.byte
    BY <1>43, <1>45
  <2>2. QED BY <1>45, <2>1
<1>46. \A j \in 1 .. m2 : Here(fs2[j])
  <2>0. at(e + 1) \in Nat
    BY <1>1, <1>11
  <2>1. TAKE j \in 1 .. m2
  <2>2. CASE j \in 1 .. m
    <3>1. fs2[j] = fs[j] /\ fs[j] \in Placed
      <4>1. j \in 1 .. m + 1
        BY <2>2
      <4>2. QED BY <1>10, <1>18, <4>1
    <3>2. fs[j].at + fs[j].len <= n0 /\ fs[j].at \in Nat /\ fs[j].len \in Nat
      BY <1>10, <2>2, <3>1 DEF n0, Placed
    <3>3. ASSUME NEW p \in 1 .. fs[j].len, fs[j].at + p > c PROVE rest2[fs[j].at + p - c] = fs[j].byte
      <4>1. fs[j].at + p - c \in 1 .. Len(rest)
        <5> DEFINE a == fs[j].at
                   l == fs[j].len
        <5>1. a \in Nat /\ l \in Nat /\ p \in 1 .. l /\ a + l <= n0 /\ a + p > c
          BY <3>2, <3>3
        <5>2. n0 \in Nat /\ Len(rest) \in Nat /\ c + Len(rest) = n0
          BY <1>11, <1>42
        <5> HIDE DEF a, l
        <5>3. a + p - c \in 1 .. Len(rest)
          BY <5>1, <5>2
        <5>4. QED BY <5>3 DEF a
      <4>2. rest[fs[j].at + p - c] = fs[j].byte
        BY <1>42, <2>2, <3>3
      <4>3. QED BY <1>41, <4>1, <4>2 DEF rest2
    <3>4. QED BY <3>1, <3>3
  <2>3. CASE j = m + 1
    <3>1. /\ fs2[j].at = n0 + 0 /\ fs2[j].len = HeaderLen /\ fs2[j].byte = HeaderByte
      <4>1. fs2[j].at = n0
        <5>1. m + 1 \in 1 .. m + 1
          OBVIOUS
        <5>2. fs2[m + 1] = fs[m + 1]
          BY <1>18, <5>1
        <5>3. QED BY <2>3, <5>2 DEF n0
      <4>2. n0 + 0 = n0
        BY <1>11, Zero
      <4>3. QED BY <1>10, <1>18, <2>3, <4>1, <4>2
    <3>2. 0 + HeaderLen <= Len(seg) /\ HeaderLen \in Nat
      BY <1>6, <1>8, <2>0
    <3>3. \A p \in 1 .. HeaderLen : seg[0 + p] = HeaderByte
      BY <1>6
    <3> HIDE DEF Here
    <3>4. QED BY <1>45, <3>1, <3>2, <3>3
  <2>4. CASE j = m + 2
    <3>1. fs2[j].at = n0 + HeaderLen /\ fs2[j].len = MaskLen /\ fs2[j].byte = MaskByte(mask)
      BY <1>18, <1>22, <2>4
    <3>2. HeaderLen + MaskLen <= Len(seg) /\ HeaderLen \in Nat /\ MaskLen \in Nat
      BY <1>6, <1>8, <2>0
    <3>3. \A p \in 1 .. MaskLen : seg[HeaderLen + p] = MaskByte(mask)
      BY <1>6
    <3> HIDE DEF Here
    <3>4. QED BY <1>45, <3>1, <3>2, <3>3
  <2>5. ASSUME NEW i \in 1 .. e, j = m + 1 + 2 * i PROVE Here(fs2[j])
    <3> DEFINE q == HeaderLen + MaskLen + at(i)
    <3>1. /\ at(i) \in Nat /\ L(i) \in Nat /\ at(i) + StreamHeaderLen + L(i) <= at(e + 1)
      BY <1>36, <2>5
    <3>2. /\ fs2[j].at = start + at(i) /\ fs2[j].len = StreamHeaderLen
          /\ fs2[j].byte = EntryByte(all[i], L(i))
      BY <1>18, <1>23, <2>5
    <3>3. q \in Nat /\ q + StreamHeaderLen <= Len(seg) /\ StreamHeaderLen \in Nat
      <4>1. HeaderLen \in Nat /\ MaskLen \in Nat /\ StreamHeaderLen \in Nat
        BY <1>8
      <4>2. Len(seg) = HeaderLen + MaskLen + at(e + 1)
        BY <1>6
      <4>3. q \in Nat
        <5>1. at(i) \in Nat
          BY <3>1
        <5>2. QED BY <4>1, <5>1
      <4>4. q + StreamHeaderLen <= HeaderLen + MaskLen + at(e + 1)
        BY <2>0, <3>1, <4>1
      <4> HIDE DEF q
      <4>5. QED BY <4>1, <4>2, <4>3, <4>4
    <3>4. fs2[j].at = n0 + q
      <4>1. /\ n0 \in Nat /\ HeaderLen \in Nat /\ MaskLen \in Nat /\ StreamHeaderLen \in Nat
            /\ at(i) \in Nat
        BY <1>8, <1>11, <3>1
      <4>2. n0 + HeaderLen + MaskLen + at(i) = n0 + (HeaderLen + MaskLen + at(i))
        BY <4>1, Sums
      <4>3. QED BY <3>2, <4>2 DEF start
    <3>5. \A p \in 1 .. StreamHeaderLen : seg[q + p] = EntryByte(all[i], L(i))
      BY <1>7, <2>5
    <3> HIDE DEF Here, q
    <3>6. QED BY <1>45, <3>2, <3>3, <3>4, <3>5
  <2>6. ASSUME NEW i \in 1 .. e, j = m + 2 + 2 * i PROVE Here(fs2[j])
    <3> DEFINE q == HeaderLen + MaskLen + at(i) + StreamHeaderLen
    <3>1. /\ at(i) \in Nat /\ L(i) \in Nat /\ at(i) + StreamHeaderLen + L(i) <= at(e + 1)
      BY <1>36, <2>6
    <3>2. /\ fs2[j].at = start + at(i) + StreamHeaderLen /\ fs2[j].len = L(i)
          /\ fs2[j].byte = DataByte(all[i])
      BY <1>18, <1>24, <2>6
    <3>3. q \in Nat /\ q + L(i) <= Len(seg)
      <4>1. HeaderLen \in Nat /\ MaskLen \in Nat /\ StreamHeaderLen \in Nat
        BY <1>8
      <4>2. Len(seg) = HeaderLen + MaskLen + at(e + 1)
        BY <1>6
      <4>3. q \in Nat
        <5>1. at(i) \in Nat
          BY <3>1
        <5>2. QED BY <4>1, <5>1
      <4>4. q + L(i) <= HeaderLen + MaskLen + at(e + 1)
        BY <2>0, <3>1, <4>1
      <4> HIDE DEF q
      <4>5. QED BY <4>1, <4>2, <4>3, <4>4
    <3>4. fs2[j].at = n0 + q
      <4>1. /\ n0 \in Nat /\ HeaderLen \in Nat /\ MaskLen \in Nat /\ StreamHeaderLen \in Nat
            /\ at(i) \in Nat
        BY <1>8, <1>11, <3>1
      <4>2. n0 + HeaderLen + MaskLen + at(i) + StreamHeaderLen
                = n0 + (HeaderLen + MaskLen + at(i) + StreamHeaderLen)
        BY <4>1, Sums
      <4>3. QED BY <3>2, <4>2 DEF start
    <3>5. \A p \in 1 .. L(i) : seg[q + p] = DataByte(all[i])
      BY <1>7, <2>6
    <3> HIDE DEF Here, q
    <3>6. QED BY <1>45, <3>1, <3>2, <3>3, <3>4, <3>5
  <2>7. j \in 1 .. m2 + 1 /\ j # m2 + 1
    BY <1>15, <2>1
  <2> HIDE DEF Here
  <2>8. QED BY <1>20, <2>2, <2>3, <2>4, <2>5, <2>6, <2>7
<1>47. OnTheWay(fs2, m2, rest \o seg, c)
  BY <1>44, <1>46 DEF OnTheWay, rest2
<1>48. Len(w) <= Len(w2)
  BY <1>1, <1>9
<1>49. OneMask(fs2, m, m2, mask, Len(w))
  <2>1. fs2[m + 2].byte = MaskByte(mask) /\ fs2[m + 2].from = Len(w)
    BY <1>18, <1>22
  <2>2. ASSUME NEW j \in m + 3 .. m2 + 1 PROVE fs2[j].byte.kind # "mask"
    <3>1. j \in m + 3 .. m2 \/ j = m2 + 1
      BY <1>15
    <3>2. CASE j = m2 + 1
      BY <1>18, <1>22, <3>2 DEF HeaderByte
    <3>3. CASE j \in m + 3 .. m2
      <4>1. PICK i \in 1 .. e : j = m + 1 + 2 * i \/ j = m + 2 + 2 * i
        BY <1>17, <3>3
      <4>2. fs2[j] = entry(i) \/ fs2[j] = data(i)
        BY <1>18, <4>1
      <4>3. fs2[j].byte = EntryByte(all[i], L(i)) \/ fs2[j].byte = DataByte(all[i])
        BY <1>23, <1>24, <4>2
      <4>4. /\ EntryByte(all[i], L(i)).kind = "stream header"
            /\ DataByte(all[i]).kind = "data"
        BY DEF EntryByte, DataByte
      <4>5. QED BY <4>3, <4>4
    <3>4. QED BY <3>1, <3>2, <3>3
  <2>3. QED BY <1>15, <2>1, <2>2 DEF OneMask, MaskByte
<1>50. QED BY <1>6, <1>9, <1>15, <1>18, <1>21, <1>40, <1>47, <1>48, <1>49 DEF GoesOn

-----------------------------------------------------------------------------
(* The last bytes of a read keep their place when the first n are taken.          *)
LEMMA FirstTaken ==
  ASSUME NEW a \in Seq(Byte), NEW b \in Seq(Byte), NEW n \in 0 .. Len(a)
  PROVE  /\ Len(SubSeq(a, n + 1, Len(a)) \o b) = Len(a \o b) - n
         /\ \A x \in 1 .. Len(a \o b) - n : (SubSeq(a, n + 1, Len(a)) \o b)[x] = (a \o b)[n + x]
<1> DEFINE t == SubSeq(a, n + 1, Len(a))
           whole == a \o b
           left == t \o b
<1>1. Len(a) \in Nat /\ Len(b) \in Nat /\ n \in Nat /\ n <= Len(a)
  OBVIOUS
<1>2. t \in Seq(Byte) /\ Len(t) = Len(a) - n /\ \A x \in 1 .. Len(a) - n : t[x] = a[n + x]
  BY Cut
<1>3. /\ Len(whole) = Len(a) + Len(b)
      /\ \A x \in 1 .. Len(a) : whole[x] = a[x]
      /\ \A x \in 1 .. Len(b) : whole[Len(a) + x] = b[x]
  BY Joined
<1> HIDE DEF t
<1>4. /\ Len(left) = Len(t) + Len(b)
      /\ \A x \in 1 .. Len(t) : left[x] = t[x]
      /\ \A x \in 1 .. Len(b) : left[Len(t) + x] = b[x]
  <2>1. t \in Seq(Byte)
    BY <1>2
  <2>2. QED BY <2>1, Joined
<1> HIDE DEF whole, left
<1>5. Len(left) = Len(whole) - n
  BY <1>1, <1>2, <1>3, <1>4
<1>6. ASSUME NEW x \in 1 .. Len(whole) - n PROVE left[x] = whole[n + x]
  <2>0. x \in Nat /\ 1 <= x /\ x <= Len(a) + Len(b) - n
    BY <1>1, <1>3, <1>6
  <2>1. CASE x <= Len(a) - n
    <3>1. x \in 1 .. Len(t) /\ x \in 1 .. Len(a) - n /\ n + x \in 1 .. Len(a)
      BY <1>1, <1>2, <2>0, <2>1
    <3>2. QED BY <1>2, <1>3, <1>4, <3>1
  <2>2. CASE ~(x <= Len(a) - n)
    <3> DEFINE y == x - (Len(a) - n)
    <3>1. y \in 1 .. Len(b) /\ x = (Len(a) - n) + y /\ n + x = Len(a) + y
      BY <1>1, <2>0, <2>2
    <3> HIDE DEF y
    <3>2. left[(Len(a) - n) + y] = b[y]
      BY <1>2, <1>4, <3>1
    <3>3. whole[Len(a) + y] = b[y]
      BY <1>3, <3>1
    <3>4. QED BY <3>1, <3>2, <3>3
  <2>3. QED BY <2>1, <2>2
<1>7. QED BY <1>5, <1>6 DEF whole, left, t

LEMMA Taken ==
  ASSUME NEW a \in Seq(Byte), NEW b \in Seq(Byte), NEW n \in 0 .. Len(a),
         NEW m \in Nat, NEW c \in Nat, NEW w, NEW fs, Chain(fs, m, w), OnTheWay(fs, m, a \o b, c)
  PROVE  OnTheWay(fs, m, SubSeq(a, n + 1, Len(a)) \o b, c + n)
<1> DEFINE whole == a \o b
           left == SubSeq(a, n + 1, Len(a)) \o b
           end == fs[m + 1].at
<1>1. /\ Len(left) = Len(whole) - n
      /\ \A x \in 1 .. Len(whole) - n : left[x] = whole[n + x]
  BY FirstTaken
<1>2. Len(whole) \in Nat /\ n \in Nat
  BY Joined, LenProperties
<1>3. c + Len(whole) = end
  BY DEF OnTheWay
<1>4. \A i \in 1 .. m : /\ fs[i].at \in Nat /\ fs[i].len \in Nat /\ fs[i].at + fs[i].len <= end
                       /\ \A p \in 1 .. fs[i].len :
                            fs[i].at + p > c => whole[fs[i].at + p - c] = fs[i].byte
  <2>1. TAKE i \in 1 .. m
  <2>2. fs[i] \in Placed
    BY DEF Chain
  <2>3. QED BY <2>2 DEF Chain, OnTheWay, Placed
<1> HIDE DEF whole, left, end
<1>5. ASSUME NEW i \in 1 .. m, NEW p \in 1 .. fs[i].len, fs[i].at + p > c + n
      PROVE  left[fs[i].at + p - (c + n)] = fs[i].byte
  <2> DEFINE at == fs[i].at
             len == fs[i].len
  <2>1. at \in Nat /\ len \in Nat /\ at + len <= end /\ p \in 1 .. len /\ at + p > c + n
    BY <1>4, <1>5
  <2>2. whole[at + p - c] = fs[i].byte
    <3>1. at + p > c
      <4> HIDE DEF at, len
      <4>1. QED BY <1>2, <2>1
    <3>2. QED BY <1>4, <1>5, <3>1
  <2> HIDE DEF at, len
  <2>3. at + p - (c + n) \in 1 .. Len(whole) - n /\ n + (at + p - (c + n)) = at + p - c
    BY <1>2, <1>3, <2>1
  <2>4. left[at + p - (c + n)] = fs[i].byte
    BY <1>1, <2>2, <2>3
  <2>5. QED BY <2>4 DEF at
<1>6. (c + n) + Len(left) = end
  BY <1>1, <1>2, <1>3
<1>7. QED BY <1>5, <1>6 DEF OnTheWay, left, end

(* What the reader has of its field once it has copied what the read holds of it. *)
Collects(f, c, size) ==
  /\ size \in Nat /\ cpLen(size) \in 0 .. Len(src)
  /\ Collected(size) \in Seq(Byte)
  /\ \A x \in 1 .. Len(Collected(size)) : Collected(size)[x] = f.byte
  /\ c + cpLen(size) \in Nat /\ c + cpLen(size) = f.at + Len(Collected(size))
  /\ Complete(size) => Len(Collected(size)) = size
  /\ ~Complete(size) => Len(Collected(size)) < size
  /\ Complete(size) /\ size > 0 => Value(size) = f.byte.value

LEMMA FieldCollected ==
  ASSUME Buffers, NEW m \in Nat, NEW c \in Nat, NEW k \in 1 .. m + 1, NEW fs, NEW f, f = fs[k],
         Chain(fs, m, written), OnTheWay(fs, m, src \o pipe, c), Position(f, c),
         src # <<>>, NEW size, f.len = size
  PROVE  k \in 1 .. m /\ Collects(f, c, size)
<1> DEFINE at == f.at
           b == f.byte
           rest == src \o pipe
           n == cpLen(size)
           head == SubSeq(src, 1, n)
           coll == curBuf \o head
           ls == Len(src)
           lb == Len(curBuf)
<1>1. src \in Seq(Byte) /\ pipe \in Seq(Byte) /\ curBuf \in Seq(Byte)
  BY DEF Buffers
<1>2. ls \in Nat /\ Len(pipe) \in Nat /\ lb \in Nat /\ ls > 0
  BY <1>1, EmptySeq, LenProperties
<1>3. /\ Len(rest) = ls + Len(pipe)
      /\ \A x \in 1 .. ls : rest[x] = src[x]
  BY <1>1, Joined
<1>5. f \in Placed /\ at \in Nat /\ size \in Nat /\ b \in Byte
  <2>1. f \in Placed
    BY DEF Chain
  <2>2. QED BY <2>1 DEF Placed
<1>6. /\ c = at + lb
      /\ \A x \in 1 .. lb : curBuf[x] = b
      /\ curBuf # <<>> => lb < size
  BY DEF Position
<1>7. lb <= size
  <2>1. CASE curBuf = <<>>
    <3>1. lb = 0
      BY <2>1, EmptySeq
    <3>2. QED BY <1>5, <3>1
  <2>2. CASE curBuf # <<>>
    BY <1>2, <1>5, <1>6, <2>2
  <2>3. QED BY <2>1, <2>2
<1>8. c + Len(rest) = fs[m + 1].at
  BY DEF OnTheWay
<1>9. k \in 1 .. m
  <2>1. SUFFICES ASSUME k = m + 1 PROVE FALSE
    OBVIOUS
  <2>2. (at + lb) + (ls + Len(pipe)) = at
    BY <1>3, <1>6, <1>8, <2>1
  <2> HIDE DEF at, lb, ls
  <2>3. QED BY <1>2, <1>5, <2>2
<1>10. \A p \in 1 .. size : at + p > c => rest[at + p - c] = b
  <2>1. \A p \in 1 .. fs[k].len : fs[k].at + p > c => rest[fs[k].at + p - c] = fs[k].byte
    BY <1>9 DEF OnTheWay
  <2>2. QED BY <2>1
<1> HIDE DEF rest
<1> HIDE DEF at, b, lb, ls
<1>11. n \in 0 .. ls /\ n <= size - lb /\ (n = size - lb \/ n < size - lb)
       /\ n \in Nat
  <2>1. n = IF ls < size - lb THEN ls ELSE size - lb
    BY DEF cpLen, ls, lb
  <2> HIDE DEF n
  <2>2. CASE ls < size - lb
    BY <1>2, <1>5, <1>7, <2>1, <2>2
  <2>3. CASE ~(ls < size - lb)
    <3>1. n = size - lb
      BY <2>1, <2>3
    <3>2. QED BY <1>2, <1>5, <1>7, <2>3, <3>1
  <2>4. QED BY <2>2, <2>3
<1> HIDE DEF n
<1>12. \A x \in 1 .. n : src[x] = b
  <2>1. TAKE x \in 1 .. n
  <2>2. lb + x \in 1 .. size /\ at + (lb + x) > c /\ at + (lb + x) - c = x /\ x \in 1 .. ls
    BY <1>2, <1>5, <1>6, <1>11
  <2>3. rest[x] = b
    BY <1>10, <2>2
  <2>4. QED BY <1>3, <2>2, <2>3
<1>13. /\ head \in Seq(Byte) /\ Len(head) = n /\ \A x \in 1 .. n : head[x] = b
  <2>1. n \in 0 .. Len(src)
    BY <1>11 DEF ls
  <2>2. head \in Seq(Byte) /\ Len(head) = n /\ \A x \in 1 .. n : head[x] = src[x]
    BY <1>1, <2>1, Cut
  <2> HIDE DEF head
  <2>3. QED BY <1>12, <2>2 DEF ls
<1> HIDE DEF head
<1>14. /\ coll \in Seq(Byte) /\ Len(coll) = lb + n
       /\ \A x \in 1 .. lb : coll[x] = curBuf[x]
       /\ \A x \in 1 .. n : coll[lb + x] = head[x]
  <2>1. head \in Seq(Byte)
    BY <1>13
  <2>2. /\ coll \in Seq(Byte) /\ Len(coll) = Len(curBuf) + Len(head)
        /\ \A x \in 1 .. Len(curBuf) : coll[x] = curBuf[x]
        /\ \A x \in 1 .. Len(head) : coll[Len(curBuf) + x] = head[x]
    BY <1>1, <2>1, Joined
  <2> HIDE DEF coll
  <2>3. QED BY <1>13, <2>2 DEF lb
<1>15. Collected(size) = coll
  BY DEF Collected, head, n
<1> HIDE DEF coll
<1>16. \A x \in 1 .. lb + n : coll[x] = b
  <2>1. TAKE x \in 1 .. lb + n
  <2>2. CASE x <= lb
    <3>1. x \in 1 .. lb
      BY <1>2, <2>2
    <3>2. QED BY <1>6, <1>14, <3>1
  <2>3. CASE ~(x <= lb)
    <3>1. x - lb \in 1 .. n /\ lb + (x - lb) = x
      BY <1>2, <1>11, <2>3
    <3>2. coll[lb + (x - lb)] = b
      BY <1>13, <1>14, <3>1
    <3>3. QED BY <3>1, <3>2
  <2>4. QED BY <2>2, <2>3
<1>17. Complete(size) <=> lb + n >= size
  BY <1>14, <1>15 DEF Complete
<1>18. Complete(size) => lb + n = size
  BY <1>2, <1>5, <1>11, <1>17
<1>19. Complete(size) /\ size > 0 => Value(size) = b.value
  <2>1. SUFFICES ASSUME Complete(size), size > 0 PROVE Value(size) = b.value
    OBVIOUS
  <2>2. Value(size) = coll[lb + n].value
    BY <1>14, <1>15 DEF Value, Last
  <2>3. lb + n \in 1 .. lb + n
    BY <1>5, <1>18, <2>1
  <2>4. QED BY <1>16, <2>2, <2>3
<1>20. ~Complete(size) => lb + n < size
  BY <1>2, <1>5, <1>11, <1>17
<1>21. c + n \in Nat /\ c + n = at + (lb + n)
  BY <1>2, <1>5, <1>6, <1>11
<1>22. QED
  BY <1>5, <1>9, <1>11, <1>14, <1>15, <1>16, <1>18, <1>19, <1>20, <1>21
     DEF at, b, n, ls, Collects

(* What a pass of the reader's loop does to the field it is at: it takes the last *)
(* of it, or some and nothing else.                                          *)
TakesTheLast(fs, m, f, size) ==
  /\ curBuf' = <<>> /\ f.at + size \in Nat
  /\ OnTheWay(fs, m, src' \o pipe, f.at + size)
  /\ size > 0 => Value(size) = f.byte.value
TakesSome(fs, m, f, size) ==
  /\ Len(curBuf') < size /\ \A x \in 1 .. Len(curBuf') : curBuf'[x] = f.byte
  /\ f.at + Len(curBuf') \in Nat
  /\ OnTheWay(fs, m, src' \o pipe, f.at + Len(curBuf'))

LEMMA PassTaken ==
  ASSUME Buffers, NEW m \in Nat, NEW c \in Nat, NEW k \in 1 .. m + 1, NEW fs, NEW f, f = fs[k],
         Chain(fs, m, written), OnTheWay(fs, m, src \o pipe, c), Position(f, c),
         NEW state, NEW size, Pass(state, size), f.len = size
  PROVE  /\ k \in 1 .. m /\ size \in Nat
         /\ src' \in Seq(Byte) /\ curBuf' \in Seq(Byte)
         /\ Complete(size) => TakesTheLast(fs, m, f, size)
         /\ ~Complete(size) => TakesSome(fs, m, f, size)
<1>1. /\ src \in Seq(Byte) /\ pipe \in Seq(Byte) /\ src # <<>>
      /\ src' = SubSeq(src, cpLen(size) + 1, Len(src))
      /\ curBuf' = IF Complete(size) THEN <<>> ELSE Collected(size)
  BY DEF Buffers, Pass, Complete
<1>2. k \in 1 .. m /\ Collects(f, c, size)
  BY <1>1, FieldCollected
<1> DEFINE n == cpLen(size)
           coll == Collected(size)
<1>8. /\ size \in Nat /\ n \in 0 .. Len(src)
      /\ coll \in Seq(Byte) /\ \A x \in 1 .. Len(coll) : coll[x] = f.byte
      /\ c + n \in Nat /\ c + n = f.at + Len(coll)
      /\ Complete(size) => Len(coll) = size
      /\ ~Complete(size) => Len(coll) < size
      /\ Complete(size) /\ size > 0 => Value(size) = f.byte.value
  BY <1>2 DEF Collects
<1>3. src' \in Seq(Byte) /\ OnTheWay(fs, m, src' \o pipe, c + n)
  BY <1>1, <1>8, Cut, Taken
<1>4. curBuf' \in Seq(Byte)
  BY <1>1, <1>8, EmptySeq
<1>5. Complete(size) => TakesTheLast(fs, m, f, size)
  <2>1. SUFFICES ASSUME Complete(size) PROVE TakesTheLast(fs, m, f, size)
    OBVIOUS
  <2>2. curBuf' = <<>> /\ c + n = f.at + size
    BY <1>1, <1>8, <2>1
  <2>3. QED BY <1>8, <1>3, <2>1, <2>2 DEF TakesTheLast
<1>6. ~Complete(size) => TakesSome(fs, m, f, size)
  <2>1. SUFFICES ASSUME ~Complete(size) PROVE TakesSome(fs, m, f, size)
    OBVIOUS
  <2>2. curBuf' = coll /\ c + n = f.at + Len(curBuf')
    BY <1>1, <1>8, <2>1
  <2>3. QED BY <1>8, <1>3, <2>1, <2>2 DEF TakesSome
<1>7. QED BY <1>2, <1>8, <1>3, <1>4, <1>5, <1>6

-----------------------------------------------------------------------------
LEMMA Kinds ==
  \A b \in Byte :
    /\ b.kind \in {"header", "mask", "stream header", "data"}
    /\ b.kind = "mask" => b.value \in SUBSET Slots
    /\ b.kind = "stream header" => b.value.id \in Streams /\ b.value.len \in FrameLens \cup {0}
    /\ b.kind = "data" => b.value \in Frame
BY DEF Byte

LEMMA StateNames ==
  /\ DOMAIN Expected = {"SEARCHING_SEGHEADER", "SEARCHING_STREAM_MASK",
                        "SEARCHING_STREAM_HEADER", "SEARCHING_STREAM_DATA"}
  /\ Expected["SEARCHING_SEGHEADER"] = "header" /\ Expected["SEARCHING_STREAM_MASK"] = "mask"
  /\ Expected["SEARCHING_STREAM_HEADER"] = "stream header" /\ Expected["SEARCHING_STREAM_DATA"] = "data"
BY DEF Expected

LEMMA ChainPrimed ==
  ASSUME NEW fs, NEW m, NEW w, direction' = direction, w = written', Chain(fs, m, w)
  PROVE  Chain(fs, m, written)'
BY DEF Chain, Joins, HeaderJoins, MaskJoins, StreamHeaderJoins, DataJoins, numStreams

LEMMA LimitsStay ==
  ASSUME NEW fs, NEW m, NEW k, direction' = direction, limit' = limit, Limits(fs, m, k)
  PROVE  Limits(fs, m, k)'
<1>1. \A f : Refused(f)' <=> Refused(f)
  BY DEF Refused, Readable, Asserted, Endless, numStreams
<1>2. QED BY <1>1 DEF Limits

LEMMA FieldOf ==
  ASSUME NEW m \in Nat, NEW fs, NEW w, Chain(fs, m, w), NEW k \in 1 .. m
  PROVE  /\ fs[k] \in Placed /\ fs[k + 1] \in Placed /\ k \in 1 .. m + 1 /\ k + 1 \in 1 .. m + 1
         /\ Joins(fs[k], fs[k + 1], w) /\ fs[k + 1].at = fs[k].at + fs[k].len
         /\ fs \in [1 .. m + 1 -> Placed]
<1>1. k \in 1 .. m + 1 /\ k + 1 \in 1 .. m + 1
  OBVIOUS
<1>2. fs \in [1 .. m + 1 -> Placed] /\ Joins(fs[k], fs[k + 1], w)
  BY DEF Chain
<1>3. fs[k] \in Placed /\ fs[k + 1] \in Placed
  BY <1>1, <1>2
<1>4. fs[k + 1].at = fs[k].at + fs[k].len
  BY <1>2 DEF Joins
<1>5. QED BY <1>1, <1>2, <1>3, <1>4

(* A pass that does not complete the field leaves the reader at it.               *)
LEMMA SameField ==
  ASSUME Buffers, NEW m \in Nat, NEW c \in Nat, NEW k \in 1 .. m + 1, NEW fs, Following(fs, m, k, c),
         NEW f, f = fs[k],
         NEW state, NEW size, Pass(state, size), f.len = size, ~Complete(size),
         UNCHANGED <<parsingState, curStreamId, curStreamLen, curStreamCnt, delivered>>
  PROVE  Followed'
<1>1. /\ Chain(fs, m, written) /\ OnTheWay(fs, m, src \o pipe, c)
      /\ Position(f, c) /\ HandedOn(f) /\ Limits(fs, m, k)
  BY DEF Following
<1>2. UNCHANGED <<direction, pipe, written, segments, outputBuffer, limit>>
  BY DEF Pass, writerVars
<1>11. TakesSome(fs, m, f, size)
  BY <1>1, PassTaken
<1>3. /\ f.at + Len(curBuf') \in Nat
      /\ OnTheWay(fs, m, src' \o pipe, f.at + Len(curBuf'))
      /\ Len(curBuf') < size
      /\ \A x \in 1 .. Len(curBuf') : curBuf'[x] = f.byte
  BY <1>11 DEF TakesSome
<1> DEFINE c3 == f.at + Len(curBuf')
<1>10. PICK c2 \in Nat : c2 = c3 /\ OnTheWay(fs, m, src' \o pipe, c2)
  BY <1>3
<1>4. Chain(fs, m, written)' /\ fs \in [1 .. m + 1 -> Placed]
  <2>1. fs \in [1 .. m + 1 -> Placed]
    BY <1>1 DEF Chain
  <2>2. QED BY <1>1, <1>2, <2>1, ChainPrimed
<1>5. OnTheWay(fs, m, src \o pipe, c2)'
  BY <1>2, <1>10
<1>6. Position(f, c2)'
  BY <1>1, <1>3, <1>10 DEF Position
<1>7. HandedOn(f)'
  BY <1>1, <1>2 DEF HandedOn
<1>8. Limits(fs, m, k)'
  BY <1>1, <1>2, LimitsStay
<1>9. Following(fs, m, k, c2)'
  BY <1>4, <1>5, <1>6, <1>7, <1>8 DEF Following
<1>12. QED BY <1>4, <1>9 DEF Followed

LEMMA Later ==
  ASSUME NEW m \in Nat, NEW k \in 1 .. m, NEW i \in k .. m + 1, i # k
  PROVE  i \in k + 1 .. m + 1
OBVIOUS

(* One that does takes it to the next field.                                      *)
LEMMA NextField ==
  ASSUME Buffers, NEW m \in Nat, NEW c \in Nat, NEW k \in 1 .. m, NEW fs, Following(fs, m, k, c),
         NEW f, f = fs[k], NEW g, g = fs[k + 1],
         NEW state, NEW size, Pass(state, size), f.len = size, Complete(size),
         Expected[parsingState'] = g.byte.kind,
         g.byte.kind \in {"stream header", "data"} => curStreamCnt' = g.left,
         g.byte.kind = "data" => curStreamLen' = g.len
                                         /\ curStreamId' = g.byte.value[1],
         HandedOn(g)', ~Refused(f)
  PROVE  Followed'
<1>1. /\ Chain(fs, m, written) /\ OnTheWay(fs, m, src \o pipe, c)
      /\ Position(f, c) /\ HandedOn(f) /\ Limits(fs, m, k)
  BY DEF Following
<1>2. UNCHANGED <<direction, pipe, written, segments, outputBuffer, limit>>
  BY DEF Pass, writerVars
<1>0. k \in 1 .. m + 1
  BY <1>1, FieldOf
<1>3. /\ OnTheWay(fs, m, src' \o pipe, f.at + size) /\ f.at + size \in Nat
      /\ curBuf' = <<>>
  <2>1. TakesTheLast(fs, m, f, size)
    BY <1>0, <1>1, PassTaken
  <2>2. QED BY <2>1 DEF TakesTheLast
<1>11. PICK c2 \in Nat : c2 = f.at + size /\ OnTheWay(fs, m, src' \o pipe, c2)
  BY <1>3
<1>4. Chain(fs, m, written)'
  BY <1>1, <1>2, ChainPrimed
<1>5. OnTheWay(fs, m, src \o pipe, c2)'
  BY <1>2, <1>11
<1>6. g.at = c2 /\ k + 1 \in 1 .. m + 1 /\ fs \in [1 .. m + 1 -> Placed]
  BY <1>1, <1>11, FieldOf
<1>7. Len(curBuf') = 0 /\ curBuf' = <<>> /\ c2 = g.at + Len(curBuf')
  <2>1. Len(curBuf') = 0 /\ curBuf' = <<>>
    BY <1>3, EmptySeq
  <2>2. c2 \in Nat
    BY <1>11
  <2>3. c2 + 0 = c2
    BY <2>2, Zero
  <2>4. QED BY <1>6, <2>1, <2>3
<1>8. Position(g, c2)'
  <2>1. \A x \in 1 .. Len(curBuf') : curBuf'[x] = g.byte
    <3>1. SUFFICES ASSUME NEW x \in 1 .. Len(curBuf') PROVE FALSE
      OBVIOUS
    <3>2. QED BY <1>7, <3>1, Zero
  <2>2. QED BY <1>7, <2>1 DEF Position
<1>13. Limits(fs, m, k + 1)
  <2>1. CASE limit = NoLimit /\ \A j \in 1 .. m + 1 : ~Refused(fs[j])
    BY <2>1 DEF Limits
  <2>2. ASSUME NEW i \in k .. m + 1, Refused(fs[i]), limit = fs[i].from,
               \A j \in 1 .. i - 1 : ~Refused(fs[j])
        PROVE  Limits(fs, m, k + 1)
    <3>1. i # k
      BY <2>2
    <3>2. i \in k + 1 .. m + 1
      BY <2>2, <3>1, Later
    <3>3. QED BY <2>2, <3>2 DEF Limits
  <2>3. QED BY <1>1, <2>1, <2>2 DEF Limits
<1>9. Limits(fs, m, k + 1)'
  BY <1>2, <1>13, LimitsStay
<1>10. Following(fs, m, k + 1, c2)'
  BY <1>4, <1>5, <1>8, <1>9 DEF Following
<1>12. QED BY <1>4, <1>6, <1>10 DEF Followed

LEMMA FieldLengths ==
  ASSUME NEW m \in Nat, NEW fs, NEW w, Chain(fs, m, w), NEW k \in 1 .. m + 1, NEW f, f = fs[k]
  PROVE  /\ f \in Placed
         /\ f.byte.kind = "header" => f.len = HeaderLen
         /\ f.byte.kind = "mask" => f.len = MaskLen
         /\ f.byte.kind = "stream header" => f.len = StreamHeaderLen
<1>1. f \in Placed
  BY DEF Chain
<1>2. CASE k = m + 1
  <2>1. f.byte = [kind |-> "header", value |-> direction] /\ f.len = HeaderLen
    BY <1>2 DEF Chain
  <2>2. QED BY <1>1, <2>1
<1>3. CASE k # m + 1
  <2>1. k \in 1 .. m
    BY <1>3
  <2>2. Joins(fs[k], fs[k + 1], w)
    BY <2>1, FieldOf
  <2>3. QED BY <1>1, <2>2 DEF Joins, HeaderJoins, MaskJoins, StreamHeaderJoins
<1>4. QED BY <1>2, <1>3

(* The reader at work on a field of the length its state takes.                   *)
At(m, c, fs, k, f) ==
  /\ m \in Nat /\ c \in Nat /\ k \in 1 .. m + 1 /\ f = fs[k] /\ f \in Placed
  /\ Following(fs, m, k, c)

LEMMA ReaderIsAt == Followed => \E m, c, fs, k, f : At(m, c, fs, k, f)
<1>1. SUFFICES ASSUME NEW m \in Nat, NEW c \in Nat, NEW fs \in [1 .. m + 1 -> Placed],
                      NEW k \in 1 .. m + 1, Following(fs, m, k, c)
               PROVE  \E f : At(m, c, fs, k, f)
  BY DEF Followed
<1>2. At(m, c, fs, k, fs[k])
  BY <1>1 DEF At
<1>3. QED BY <1>2

LEMMA AfterPass ==
  ASSUME TypeOK, Buffers, NEW state, NEW size, Pass(state, size),
         src' \in Seq(Byte), curBuf' \in Seq(Byte), delivered' \in Seq(Frame),
         parsingState' \in DOMAIN Expected, curStreamId' \in Streams,
         curStreamLen' \in FrameLens \cup {0}, curStreamCnt' \in 0 .. MAX_XCODING_INSTANCES + 1
  PROVE  TypeOK' /\ Buffers' /\ Stopped'
<1>1. UNCHANGED <<direction, pipe, outputBuffer, segments, written, limit, running>> /\ running
  BY DEF Pass, writerVars
<1>2. Packaged' = Packaged
  BY <1>1 DEF Packaged
<1>3. Buffers'
  BY <1>1, <1>2 DEF Buffers
<1>4. TypeOK'
  BY <1>1 DEF TypeOK
<1>5. Stopped'
  BY <1>1 DEF Stopped
<1>6. QED BY <1>3, <1>4, <1>5

LEMMA SegHeaderKeeps == ASSUME IInv, segHeader PROVE IInv'
<1>1. PICK m, c, fs, k, f : At(m, c, fs, k, f)
  BY ReaderIsAt DEF IInv
<1>2. /\ m \in Nat /\ c \in Nat /\ k \in 1 .. m + 1 /\ f = fs[k] /\ f \in Placed
      /\ Following(fs, m, k, c)
  BY <1>1 DEF At
<1>3. /\ Chain(fs, m, written) /\ OnTheWay(fs, m, src \o pipe, c)
      /\ Position(f, c) /\ HandedOn(f)
  BY <1>2 DEF Following
<1>4. /\ Pass("SEARCHING_SEGHEADER", HeaderLen) /\ parsingState = "SEARCHING_SEGHEADER"
      /\ parsingState' = IF Complete(HeaderLen) THEN "SEARCHING_STREAM_MASK" ELSE parsingState
      /\ UNCHANGED <<curStreamId, curStreamLen, curStreamCnt, delivered>>
      /\ UNCHANGED written
  BY DEF segHeader, Pass, writerVars
<1>5. f.byte.kind = "header"
  BY <1>3, <1>4, StateNames DEF Position
<1>6. f.len = HeaderLen
  BY <1>2, <1>3, <1>5, FieldLengths
<1>7. Buffers
  BY DEF IInv
<1>8. k \in 1 .. m /\ src' \in Seq(Byte) /\ curBuf' \in Seq(Byte)
  BY <1>2, <1>3, <1>4, <1>6, <1>7, PassTaken
<1>9. TypeOK' /\ Buffers' /\ Stopped'
  <2>1. parsingState' \in DOMAIN Expected
    BY <1>4, StateNames
  <2>2. /\ curStreamId' \in Streams /\ curStreamLen' \in FrameLens \cup {0}
        /\ curStreamCnt' \in 0 .. MAX_XCODING_INSTANCES + 1 /\ delivered' \in Seq(Frame)
    BY <1>4 DEF IInv, TypeOK, Buffers
  <2>3. QED BY <1>4, <1>7, <1>8, <2>1, <2>2, AfterPass DEF IInv
<1>10. CASE ~Complete(HeaderLen)
  <2>1. UNCHANGED <<parsingState, curStreamId, curStreamLen, curStreamCnt, delivered>>
    BY <1>4, <1>10
  <2>2. Followed'
    BY <1>2, <1>4, <1>6, <1>7, <1>10, <2>1, SameField
  <2>3. QED BY <1>9, <2>2 DEF IInv
<1>13. ~Refused(f)
  BY <1>5 DEF Refused
<1>11. CASE Complete(HeaderLen)
  <2>1. PICK g : g = fs[k + 1]
    OBVIOUS
  <2>2. HeaderJoins(f, g)
    BY <1>2, <1>3, <1>8, <2>1, FieldOf DEF Joins
  <2>3. g.byte.kind = "mask" /\ g.from = f.from
    BY <1>5, <2>2 DEF HeaderJoins
  <2>4. Expected[parsingState'] = g.byte.kind
    BY <1>4, <1>11, <2>3, StateNames
  <2>5. HandedOn(g)'
    BY <1>3, <1>4, <2>3 DEF HandedOn
  <2>6. /\ g.byte.kind \in {"stream header", "data"} => curStreamCnt' = g.left
        /\ g.byte.kind = "data" => curStreamLen' = g.len /\ curStreamId' = g.byte.value[1]
    BY <2>3
  <2>7. Followed'
    BY <1>2, <1>4, <1>6, <1>7, <1>8, <1>11, <1>13, <2>1, <2>4, <2>5, <2>6, NextField
  <2>8. QED BY <1>9, <2>7 DEF IInv
<1>12. QED BY <1>10, <1>11

LEMMA StreamMaskKeeps == ASSUME IInv, streamMask PROVE IInv'
<1>1. PICK m, c, fs, k, f : At(m, c, fs, k, f)
  BY ReaderIsAt DEF IInv
<1>2. /\ m \in Nat /\ c \in Nat /\ k \in 1 .. m + 1 /\ f = fs[k] /\ f \in Placed
      /\ Following(fs, m, k, c)
  BY <1>1 DEF At
<1>3. /\ Chain(fs, m, written) /\ OnTheWay(fs, m, src \o pipe, c)
      /\ Position(f, c) /\ HandedOn(f)
  BY <1>2 DEF Following
<1>4. /\ Pass("SEARCHING_STREAM_MASK", MaskLen) /\ parsingState = "SEARCHING_STREAM_MASK"
      /\ IF Complete(MaskLen)
         THEN /\ parsingState' = "SEARCHING_STREAM_HEADER"
              /\ curStreamCnt' = numStreams(Value(MaskLen))
         ELSE UNCHANGED <<parsingState, curStreamCnt>>
      /\ UNCHANGED <<curStreamId, curStreamLen, delivered>>
      /\ UNCHANGED written /\ (Complete(MaskLen) => Readable(Value(MaskLen)))
  BY DEF streamMask, Pass, writerVars
<1>5. f.byte.kind = "mask"
  BY <1>3, <1>4, StateNames DEF Position
<1>6. f.len = MaskLen
  BY <1>2, <1>3, <1>5, FieldLengths
<1>7. Buffers
  BY DEF IInv
<1>8. /\ k \in 1 .. m /\ src' \in Seq(Byte) /\ curBuf' \in Seq(Byte)
      /\ Complete(MaskLen) => TakesTheLast(fs, m, f, MaskLen)
  BY <1>2, <1>3, <1>4, <1>6, <1>7, PassTaken
<1>9. /\ curStreamId' \in Streams /\ curStreamLen' \in FrameLens \cup {0}
      /\ delivered' \in Seq(Frame)
  BY <1>4 DEF IInv, TypeOK, Buffers
<1>10. CASE ~Complete(MaskLen)
  <2>1. UNCHANGED <<parsingState, curStreamId, curStreamLen, curStreamCnt, delivered>>
    BY <1>4, <1>10
  <2>2. Followed'
    BY <1>2, <1>4, <1>6, <1>7, <1>10, <2>1, SameField
  <2>3. parsingState' \in DOMAIN Expected /\ curStreamCnt' \in 0 .. MAX_XCODING_INSTANCES + 1
    BY <2>1 DEF IInv, TypeOK
  <2>4. TypeOK' /\ Buffers' /\ Stopped'
    BY <1>4, <1>7, <1>8, <1>9, <2>3, AfterPass DEF IInv
  <2>5. QED BY <2>2, <2>4 DEF IInv
<1>11. CASE Complete(MaskLen)
  <2>1. PICK g : g = fs[k + 1]
    OBVIOUS
  <2>2. MaskJoins(f, g) /\ g \in Placed
    BY <1>2, <1>3, <1>8, <2>1, FieldOf DEF Joins
  <2>3. /\ g.byte.kind = "stream header" /\ g.from = f.from
        /\ g.left = numStreams(f.byte.value)
    BY <1>5, <2>2 DEF MaskJoins
  <2>4. MaskLen > 0
    BY FramingAssumption
  <2>5. Value(MaskLen) = f.byte.value
    BY <1>8, <1>11, <2>4 DEF TakesTheLast
  <2>6. curStreamCnt' = g.left /\ parsingState' = "SEARCHING_STREAM_HEADER"
    BY <1>4, <1>11, <2>3, <2>5
  <2>7. Expected[parsingState'] = g.byte.kind /\ parsingState' \in DOMAIN Expected
    BY <2>3, <2>6, StateNames
  <2>8. HandedOn(g)'
    BY <1>3, <1>4, <2>3 DEF HandedOn
  <2>9. /\ g.byte.kind \in {"stream header", "data"} => curStreamCnt' = g.left
        /\ g.byte.kind = "data" => curStreamLen' = g.len /\ curStreamId' = g.byte.value[1]
    BY <2>3, <2>6
  <2>14. ~Refused(f)
    BY <1>4, <1>11, <2>5 DEF Refused
  <2>10. Followed'
    BY <1>2, <1>4, <1>6, <1>7, <1>8, <1>11, <2>1, <2>7, <2>8, <2>9, <2>14, NextField
  <2>11. curStreamCnt' \in 0 .. MAX_XCODING_INSTANCES + 1
    BY <2>2, <2>6 DEF Placed
  <2>12. TypeOK' /\ Buffers' /\ Stopped'
    BY <1>4, <1>7, <1>8, <1>9, <2>7, <2>11, AfterPass DEF IInv
  <2>13. QED BY <2>10, <2>12 DEF IInv
<1>12. QED BY <1>10, <1>11

(* The reader stops at the first field that is refused, the one limit tells of.   *)
LEMMA MaskRefusedKeeps == ASSUME IInv, maskRefused PROVE IInv'
<1>1. PICK m, c, fs, k, f : At(m, c, fs, k, f)
  BY ReaderIsAt DEF IInv
<1>2. /\ m \in Nat /\ c \in Nat /\ k \in 1 .. m + 1 /\ f = fs[k] /\ f \in Placed
      /\ Following(fs, m, k, c)
  BY <1>1 DEF At
<1>3. /\ Chain(fs, m, written) /\ OnTheWay(fs, m, src \o pipe, c)
      /\ Position(f, c) /\ HandedOn(f) /\ Limits(fs, m, k)
  BY <1>2 DEF Following
<1>4. /\ parsingState = "SEARCHING_STREAM_MASK" /\ src # <<>>
      /\ Complete(MaskLen) /\ ~Readable(Value(MaskLen))
      /\ UNCHANGED <<direction, outputBuffer, segments, written, limit, pipe, src, parsingState,
                     curBuf, curStreamId, curStreamLen, curStreamCnt, delivered>>
      /\ running' = FALSE
  BY DEF maskRefused, writerVars
<1>5. f.byte.kind = "mask"
  BY <1>3, <1>4, StateNames DEF Position
<1>6. f.len = MaskLen /\ MaskLen > 0
  <2>1. f.len = MaskLen
    BY <1>2, <1>3, <1>5, FieldLengths
  <2>2. MaskLen > 0
    BY FramingAssumption
  <2>3. QED BY <2>1, <2>2
<1>7. Value(MaskLen) = f.byte.value
  <2>1. Buffers
    BY DEF IInv
  <2>2. Collects(f, c, MaskLen)
    BY <1>2, <1>3, <1>4, <1>6, <2>1, FieldCollected
  <2>3. QED BY <1>4, <1>6, <2>2 DEF Collects
<1>8. Refused(f)
  BY <1>4, <1>5, <1>7 DEF Refused
<1>9. limit = f.from
  <2>1. PICK i \in k .. m + 1 : limit = fs[i].from /\ \A j \in 1 .. i - 1 : ~Refused(fs[j])
    BY <1>2, <1>3, <1>8 DEF Limits
  <2>2. ~(k \in 1 .. i - 1)
    BY <1>2, <1>8, <2>1
  <2>3. i = k
    BY <1>2, <2>1, <2>2
  <2>4. QED BY <1>2, <2>1, <2>3
<1>10. Stopped'
  <2>1. limit # NoLimit
    <3>1. f.from \in Nat
      BY <1>2 DEF Placed
    <3>2. QED BY <1>9, <3>1 DEF NoLimit
  <2>2. Len(delivered) = limit
    BY <1>3, <1>9 DEF HandedOn
  <2>3. QED BY <1>4, <2>1, <2>2 DEF Stopped, NoLimit
<1>11. Followed'
  <2>1. Chain(fs, m, written)' /\ fs \in [1 .. m + 1 -> Placed]
    BY <1>3, <1>4, ChainPrimed DEF Chain
  <2>2. OnTheWay(fs, m, src \o pipe, c)' /\ Position(f, c)' /\ HandedOn(f)'
    BY <1>3, <1>4 DEF Position, HandedOn
  <2>3. Limits(fs, m, k)'
    BY <1>3, <1>4, LimitsStay
  <2>4. Following(fs, m, k, c)'
    BY <1>2, <2>1, <2>2, <2>3 DEF Following
  <2>5. QED BY <1>2, <2>1, <2>4 DEF Followed
<1>12. TypeOK' /\ Buffers'
  <2>1. TypeOK'
    BY <1>4 DEF IInv, TypeOK
  <2>2. Packaged' = Packaged
    BY <1>4 DEF Packaged
  <2>3. QED BY <1>4, <2>1, <2>2 DEF IInv, Buffers
<1>13. QED BY <1>10, <1>11, <1>12 DEF IInv

LEMMA StreamHeaderKeeps == ASSUME IInv, streamHeader PROVE IInv'
<1>1. PICK m, c, fs, k, f : At(m, c, fs, k, f)
  BY ReaderIsAt DEF IInv
<1>2. /\ m \in Nat /\ c \in Nat /\ k \in 1 .. m + 1 /\ f = fs[k] /\ f \in Placed
      /\ Following(fs, m, k, c)
  BY <1>1 DEF At
<1>3. /\ Chain(fs, m, written) /\ OnTheWay(fs, m, src \o pipe, c)
      /\ Position(f, c) /\ HandedOn(f)
  BY <1>2 DEF Following
<1>4. /\ Pass("SEARCHING_STREAM_HEADER", StreamHeaderLen)
      /\ parsingState = "SEARCHING_STREAM_HEADER"
      /\ IF Complete(StreamHeaderLen)
         THEN /\ parsingState' = "SEARCHING_STREAM_DATA"
              /\ curStreamId' = Value(StreamHeaderLen).id
              /\ curStreamLen' = Value(StreamHeaderLen).len
         ELSE UNCHANGED <<parsingState, curStreamId, curStreamLen>>
      /\ UNCHANGED <<curStreamCnt, delivered>>
      /\ UNCHANGED written
  BY DEF streamHeader, Pass, writerVars
<1>5. f.byte.kind = "stream header"
  BY <1>3, <1>4, StateNames DEF Position
<1>6. f.len = StreamHeaderLen
  BY <1>2, <1>3, <1>5, FieldLengths
<1>7. Buffers
  BY DEF IInv
<1>8. /\ k \in 1 .. m /\ src' \in Seq(Byte) /\ curBuf' \in Seq(Byte)
      /\ Complete(StreamHeaderLen) => TakesTheLast(fs, m, f, StreamHeaderLen)
  BY <1>2, <1>3, <1>4, <1>6, <1>7, PassTaken
<1>9. curStreamCnt' \in 0 .. MAX_XCODING_INSTANCES + 1 /\ delivered' \in Seq(Frame)
  BY <1>4 DEF IInv, TypeOK, Buffers
<1>10. CASE ~Complete(StreamHeaderLen)
  <2>1. UNCHANGED <<parsingState, curStreamId, curStreamLen, curStreamCnt, delivered>>
    BY <1>4, <1>10
  <2>2. Followed'
    BY <1>2, <1>4, <1>6, <1>7, <1>10, <2>1, SameField
  <2>3. /\ parsingState' \in DOMAIN Expected
        /\ curStreamId' \in Streams /\ curStreamLen' \in FrameLens \cup {0}
    BY <2>1 DEF IInv, TypeOK
  <2>4. TypeOK' /\ Buffers' /\ Stopped'
    BY <1>4, <1>7, <1>8, <1>9, <2>3, AfterPass DEF IInv
  <2>5. QED BY <2>2, <2>4 DEF IInv
<1>13. ~Refused(f)
  BY <1>5 DEF Refused
<1>11. CASE Complete(StreamHeaderLen)
  <2>1. PICK g : g = fs[k + 1]
    OBVIOUS
  <2>2. StreamHeaderJoins(f, g)
    BY <1>2, <1>3, <1>8, <2>1, FieldOf DEF Joins
  <2>3. /\ g.byte.kind = "data" /\ g.from = f.from /\ g.left = f.left
        /\ f.byte.value.id = g.byte.value[1] /\ f.byte.value.len = g.len
    BY <1>5, <2>2 DEF StreamHeaderJoins
  <2>4. StreamHeaderLen > 0
    BY FramingAssumption
  <2>5. Value(StreamHeaderLen) = f.byte.value
    BY <1>8, <1>11, <2>4 DEF TakesTheLast
  <2>6. /\ parsingState' = "SEARCHING_STREAM_DATA"
        /\ curStreamId' = f.byte.value.id /\ curStreamLen' = f.byte.value.len
    BY <1>4, <1>11, <2>5
  <2>7. Expected[parsingState'] = g.byte.kind /\ parsingState' \in DOMAIN Expected
    BY <2>3, <2>6, StateNames
  <2>8. HandedOn(g)'
    BY <1>3, <1>4, <2>3 DEF HandedOn
  <2>9. curStreamCnt' = g.left
    BY <1>3, <1>4, <1>5, <2>3 DEF Position
  <2>10. curStreamLen' = g.len /\ curStreamId' = g.byte.value[1]
    BY <2>3, <2>6
  <2>11. Followed'
    BY <1>2, <1>4, <1>6, <1>7, <1>8, <1>11, <1>13, <2>1, <2>7, <2>8, <2>9, <2>10,
       NextField
  <2>12. curStreamId' \in Streams /\ curStreamLen' \in FrameLens \cup {0}
    <3>1. f.byte \in Byte
      BY <1>2 DEF Placed
    <3>2. QED BY <1>5, <2>6, <3>1, Kinds
  <2>13. TypeOK' /\ Buffers' /\ Stopped'
    BY <1>4, <1>7, <1>8, <1>9, <2>7, <2>12, AfterPass DEF IInv
  <2>14. QED BY <2>11, <2>13 DEF IInv
<1>12. QED BY <1>10, <1>11

(* A frame handed on is the next of those written.                                *)
LEMMA HandsOn ==
  ASSUME Buffers, NEW f \in Placed, NEW g \in Placed, HandedOn(f), DataJoins(f, g, written),
         f.byte.kind = "data", written' = written,
         delivered' = IF f.len = 0 THEN delivered ELSE Append(delivered, f.byte.value)
  PROVE  HandedOn(g)' /\ delivered' \in Seq(Frame)
<1>1. /\ f.byte.value \in Frame /\ f.len \in Nat /\ f.from \in Nat
  BY Kinds DEF Placed
<1>2. delivered \in Seq(Frame)
  BY DEF Buffers
<1>3. CASE f.len = 0
  <2>1. g.from = f.from
    <3>1. ~(f.len > 0)
      BY <1>1, <1>3
    <3>2. QED BY <3>1 DEF DataJoins
  <2>2. delivered' = delivered
    BY <1>3
  <2>3. QED BY <1>2, <2>1, <2>2 DEF HandedOn
<1>4. CASE f.len # 0
  <2>1. f.len > 0
    BY <1>1, <1>4
  <2>2. g.from = f.from + 1 /\ written[f.from + 1] = f.byte.value
    BY <2>1 DEF DataJoins
  <2>3. delivered' = Append(delivered, f.byte.value)
    BY <1>4
  <2> DEFINE v == f.byte.value
             n == f.from
  <2>4. Len(delivered) = n /\ \A j \in 1 .. n : delivered[j] = written[j]
    BY DEF HandedOn
  <2>5. n \in Nat /\ v \in Frame /\ written[n + 1] = v /\ g.from = n + 1
        /\ delivered' = Append(delivered, v)
    BY <1>1, <2>2, <2>3
  <2> HIDE DEF n, v
  <2>6. /\ Append(delivered, v) \in Seq(Frame)
        /\ Len(Append(delivered, v)) = Len(delivered) + 1
        /\ \A j \in 1 .. Len(delivered) : Append(delivered, v)[j] = delivered[j]
        /\ Append(delivered, v)[Len(delivered) + 1] = v
    BY <1>2, <2>5, AppendProperties
  <2>7. ASSUME NEW j \in 1 .. n + 1
        PROVE  delivered'[j] = written[j]
    <3>1. CASE j = n + 1
      BY <2>4, <2>5, <2>6, <3>1
    <3>2. CASE j # n + 1
      <4>1. j \in 1 .. n
        BY <2>5, <3>2
      <4>2. QED BY <2>4, <2>5, <2>6, <4>1
    <3>3. QED BY <3>1, <3>2
  <2>8. Len(delivered') = g.from /\ \A j \in 1 .. g.from : delivered'[j] = written[j]
    BY <2>4, <2>5, <2>6, <2>7
  <2>9. QED BY <2>5, <2>6, <2>8 DEF HandedOn
<1>5. QED BY <1>3, <1>4

LEMMA StreamDataKeeps == ASSUME IInv, streamData PROVE IInv'
<1>1. PICK m, c, fs, k, f : At(m, c, fs, k, f)
  BY ReaderIsAt DEF IInv
<1>2. /\ m \in Nat /\ c \in Nat /\ k \in 1 .. m + 1 /\ f = fs[k] /\ f \in Placed
      /\ Following(fs, m, k, c)
  BY <1>1 DEF At
<1>3. /\ Chain(fs, m, written) /\ OnTheWay(fs, m, src \o pipe, c)
      /\ Position(f, c) /\ HandedOn(f)
  BY <1>2 DEF Following
<1>4. /\ Pass("SEARCHING_STREAM_DATA", curStreamLen)
      /\ parsingState = "SEARCHING_STREAM_DATA"
      /\ IF Complete(curStreamLen)
         THEN /\ delivered' = IF curStreamLen = 0 THEN delivered
                              ELSE Append(delivered, <<curStreamId, Value(curStreamLen)[2]>>)
              /\ curStreamCnt' = curStreamCnt - 1
              /\ parsingState' = IF curStreamCnt > 1 THEN "SEARCHING_STREAM_HEADER"
                                                     ELSE "SEARCHING_SEGHEADER"
         ELSE UNCHANGED <<delivered, curStreamCnt, parsingState>>
      /\ UNCHANGED <<curStreamId, curStreamLen>>
      /\ UNCHANGED written
  BY DEF streamData, Pass, writerVars
<1>5. f.byte.kind = "data"
  BY <1>3, <1>4, StateNames DEF Position
<1>6. f.len = curStreamLen /\ curStreamId = f.byte.value[1] /\ curStreamCnt = f.left
  BY <1>3, <1>5 DEF Position
<1>7. Buffers
  BY DEF IInv
<1>8. /\ k \in 1 .. m /\ src' \in Seq(Byte) /\ curBuf' \in Seq(Byte)
      /\ Complete(curStreamLen) => TakesTheLast(fs, m, f, curStreamLen)
  BY <1>2, <1>3, <1>4, <1>6, <1>7, PassTaken
<1>9. curStreamId' \in Streams /\ curStreamLen' \in FrameLens \cup {0}
  BY <1>4 DEF IInv, TypeOK
<1>10. CASE ~Complete(curStreamLen)
  <2>1. UNCHANGED <<parsingState, curStreamId, curStreamLen, curStreamCnt, delivered>>
    BY <1>4, <1>10
  <2>2. Followed'
    BY <1>2, <1>4, <1>6, <1>7, <1>10, <2>1, SameField
  <2>3. /\ parsingState' \in DOMAIN Expected /\ curStreamCnt' \in 0 .. MAX_XCODING_INSTANCES + 1
        /\ delivered' \in Seq(Frame)
    BY <2>1 DEF IInv, TypeOK, Buffers
  <2>4. TypeOK' /\ Buffers' /\ Stopped'
    BY <1>4, <1>7, <1>8, <1>9, <2>3, AfterPass DEF IInv
  <2>5. QED BY <2>2, <2>4 DEF IInv
<1>13. ~Refused(f)
  BY <1>5 DEF Refused
<1>11. CASE Complete(curStreamLen)
  <2>1. PICK g : g = fs[k + 1]
    OBVIOUS
  <2>2. DataJoins(f, g, written) /\ g \in Placed
    BY <1>2, <1>3, <1>8, <2>1, FieldOf DEF Joins
  <2>3. /\ g.left = f.left - 1
        /\ g.byte.kind = IF f.left > 1 THEN "stream header" ELSE "header"
    BY <1>5, <2>2 DEF DataJoins
  <2>4. delivered' = IF f.len = 0 THEN delivered ELSE Append(delivered, f.byte.value)
    <3>1. CASE f.len = 0
      BY <1>4, <1>6, <1>11, <3>1
    <3>2. CASE f.len # 0
      <4>1. f.len \in Nat
        BY <1>2 DEF Placed
      <4>2. curStreamLen > 0
        BY <1>6, <3>2, <4>1
      <4>3. Value(curStreamLen) = f.byte.value
        BY <1>8, <1>11, <4>2 DEF TakesTheLast
      <4>4. f.byte.value \in Frame
        BY <1>2, <1>5, Kinds DEF Placed
      <4>5. f.byte.value = <<f.byte.value[1], f.byte.value[2]>>
        BY <4>4 DEF Frame
      <4>6. QED BY <1>4, <1>6, <1>11, <3>2, <4>3, <4>5
    <3>3. QED BY <3>1, <3>2
  <2>5. HandedOn(g)' /\ delivered' \in Seq(Frame)
    BY <1>2, <1>3, <1>4, <1>5, <1>7, <2>2, <2>4, HandsOn
  <2>6. curStreamCnt' = g.left
    BY <1>4, <1>6, <1>11, <2>3
  <2>7. Expected[parsingState'] = g.byte.kind /\ parsingState' \in DOMAIN Expected
    <3>1. CASE f.left > 1
      <4>1. parsingState' = "SEARCHING_STREAM_HEADER" /\ g.byte.kind = "stream header"
        BY <1>4, <1>6, <1>11, <2>3, <3>1
      <4>2. QED BY <4>1, StateNames
    <3>2. CASE ~(f.left > 1)
      <4>1. parsingState' = "SEARCHING_SEGHEADER" /\ g.byte.kind = "header"
        BY <1>4, <1>6, <1>11, <2>3, <3>2
      <4>2. QED BY <4>1, StateNames
    <3>3. QED BY <3>1, <3>2
  <2>8. g.byte.kind # "data"
    <3>1. CASE f.left > 1
      BY <2>3, <3>1
    <3>2. CASE ~(f.left > 1)
      BY <2>3, <3>2
    <3>3. QED BY <3>1, <3>2
  <2>9. Followed'
    BY <1>2, <1>4, <1>6, <1>7, <1>8, <1>11, <1>13, <2>1, <2>5, <2>6, <2>7, <2>8, NextField
  <2>10. curStreamCnt' \in 0 .. MAX_XCODING_INSTANCES + 1
    BY <2>2, <2>6 DEF Placed
  <2>11. TypeOK' /\ Buffers' /\ Stopped'
    BY <1>4, <1>7, <1>8, <1>9, <2>5, <2>7, <2>10, AfterPass DEF IInv
  <2>12. QED BY <2>9, <2>11 DEF IInv
<1>12. QED BY <1>10, <1>11

-----------------------------------------------------------------------------
LEMMA Regrouped ==
  ASSUME NEW r \in Seq(Byte), NEW s \in Seq(Byte), NEW u \in Seq(Byte)
  PROVE  (r \o s) \o u = r \o (s \o u)
BY ConcatAssociative

(* What is written goes on the way behind the rest.                               *)
LEMMA SegmentSent ==
  ASSUME IInv, NEW mask \in SUBSET Slots, NEW frames \in Seq(Streams), NEW empty \in Seq(Streams),
         NEW lens \in [Streams -> FrameLens \cup {0}], Entries(mask, frames, empty, lens),
         Sends(mask, frames, empty, lens), UNCHANGED <<direction, src, readerVars>>
  PROVE  /\ Followed' /\ pipe' \in Seq(Byte) /\ written' \in Seq(Frame)
         /\ limit' \in Nat \cup {NoLimit} /\ Stopped'
<1>1. PICK m, c, fs, k, f : At(m, c, fs, k, f)
  BY ReaderIsAt DEF IInv
<1>2. /\ m \in Nat /\ c \in Nat /\ k \in 1 .. m + 1 /\ f = fs[k] /\ f \in Placed
      /\ Following(fs, m, k, c)
  BY <1>1 DEF At
<1>3. /\ Chain(fs, m, written) /\ OnTheWay(fs, m, src \o pipe, c)
      /\ Position(f, c) /\ HandedOn(f) /\ Limits(fs, m, k)
  BY <1>2 DEF Following
<1>4. PICK seg : seg = Segment(mask, frames \o empty, lens)
  OBVIOUS
<1>5. PICK w2 : w2 = WithFrames(written, frames)
  OBVIOUS
<1>6. pipe' = pipe \o seg /\ written' = w2
  BY <1>4, <1>5 DEF Sends, WithFrames
<1>7. src \in Seq(Byte) /\ pipe \in Seq(Byte) /\ written \in Seq(Frame)
  BY DEF IInv, Buffers
<1>8. direction \in {"SGI", "SGO"} /\ segments \in Nat
  BY FramingAssumption DEF IInv, TypeOK
<1>9. PICK rest : rest = src \o pipe
  OBVIOUS
<1>10. rest \in Seq(Byte) /\ OnTheWay(fs, m, rest, c)
  BY <1>3, <1>7, <1>9, Joined
<1>22. mask \in Masks
  BY DEF Masks
<1>11. /\ seg \in Seq(Byte) /\ w2 \in Seq(Frame)
       /\ Len(written) <= Len(w2) /\ \A j \in 1 .. Len(written) : w2[j] = written[j]
       /\ GoesOn(fs, m, w2, rest, seg, c, mask, Len(written))
  BY <1>2, <1>3, <1>4, <1>5, <1>7, <1>8, <1>10, <1>22, SegmentAppended
<1>12. PICK m2 \in Nat : \E fs2 \in [1 .. m2 + 1 -> Placed] :
            /\ m <= m2 /\ \A j \in 1 .. m + 1 : fs2[j] = fs[j]
            /\ Chain(fs2, m2, w2) /\ OnTheWay(fs2, m2, rest \o seg, c)
            /\ OneMask(fs2, m, m2, mask, Len(written))
  BY <1>11 DEF GoesOn
<1>13. PICK fs2 : /\ fs2 \in [1 .. m2 + 1 -> Placed]
                  /\ m <= m2 /\ \A j \in 1 .. m + 1 : fs2[j] = fs[j]
                  /\ Chain(fs2, m2, w2) /\ OnTheWay(fs2, m2, rest \o seg, c)
                  /\ OneMask(fs2, m, m2, mask, Len(written))
  BY <1>12
<1>14. k \in 1 .. m2 + 1 /\ fs2[k] = f
  <2>1. fs2[k] = f
    BY <1>2, <1>13
  <2>2. k \in 1 .. m2 + 1
    <3>1. m <= m2
      BY <1>13
    <3>2. QED BY <1>2, <1>12, <3>1
  <2>3. QED BY <2>1, <2>2
<1>15. Chain(fs2, m2, written)'
  BY <1>6, <1>13, ChainPrimed
<1>16. OnTheWay(fs2, m2, src \o pipe, c)'
  <2>1. (src \o pipe) \o seg = src \o (pipe \o seg)
    <3>1. seg \in Seq(Byte)
      BY <1>11
    <3>2. QED BY <1>7, <3>1, Regrouped
  <2>2. src' \o pipe' = rest \o seg
    BY <1>6, <1>9, <2>1
  <2>3. OnTheWay(fs2, m2, src' \o pipe', c)
    BY <1>13, <2>2
  <2>4. QED BY <2>3
<1>17. Position(f, c)'
  BY <1>3 DEF Position, readerVars
<1>18. HandedOn(f)'
  <2>1. f.from <= Len(written) /\ f.from \in Nat
    BY <1>2, <1>3 DEF Chain, Placed
  <2>2. Len(written) \in Nat
    BY <1>7
  <2>3. delivered' = delivered
    BY DEF readerVars
  <2> DEFINE n == f.from
  <2>4. Len(delivered) = n /\ \A j \in 1 .. n : delivered[j] = written[j]
    BY <1>3 DEF HandedOn
  <2>5. \A j \in 1 .. n : j \in 1 .. Len(written)
    <3> HIDE DEF n
    <3>1. n <= Len(written) /\ n \in Nat
      BY <2>1 DEF n
    <3>2. QED BY <2>2, <3>1
  <2>6. \A j \in 1 .. n : delivered'[j] = written'[j]
    BY <1>6, <1>11, <2>3, <2>4, <2>5
  <2>7. QED BY <2>3, <2>4, <2>6 DEF HandedOn
<1>23. limit' = IF limit = NoLimit /\ ~Readable(mask) THEN Len(written) ELSE limit
  BY DEF Sends
<1>24. Limits(fs2, m2, k)'
  <2> DEFINE p == m + 2
  <2>1. /\ p <= m2 /\ p \in k .. m2 + 1 /\ fs2[p].byte.kind = "mask" /\ fs2[p].byte.value = mask
        /\ fs2[p].from = Len(written)
        /\ \A j \in p + 1 .. m2 + 1 : fs2[j].byte.kind # "mask"
    BY <1>2, <1>13 DEF OneMask
  <2>2. \A j \in 1 .. m + 1 : fs2[j] = fs[j] /\ j \in 1 .. m2 + 1
    BY <1>2, <1>12, <1>13
  <2>3. \A j \in 1 .. m2 + 1 : j \in 1 .. m + 1 \/ j = p \/ j \in p + 1 .. m2 + 1
    BY <1>2, <1>12
  <2>4. \A j \in 1 .. p - 1 : j \in 1 .. m + 1
    BY <1>2
  <2> HIDE DEF p
  <2>5. \A j \in 1 .. m2 + 1 : Refused(fs2[j])' <=> Refused(fs2[j])
    BY DEF Refused, Readable, Asserted, Endless, numStreams
  <2>6. Refused(fs2[p]) <=> ~Readable(mask)
    BY <2>1 DEF Refused
  <2>7. \A j \in p + 1 .. m2 + 1 : ~Refused(fs2[j])
    BY <2>1 DEF Refused
  <2>8. CASE limit = NoLimit /\ \A j \in 1 .. m + 1 : ~Refused(fs[j])
    <3>1. CASE Readable(mask)
      <4>1. \A j \in 1 .. m2 + 1 : ~Refused(fs2[j])
        BY <2>2, <2>3, <2>6, <2>7, <2>8, <3>1
      <4>2. limit' = NoLimit
        BY <1>23, <2>8, <3>1
      <4>3. QED BY <2>5, <4>1, <4>2 DEF Limits, NoLimit
    <3>2. CASE ~Readable(mask)
      <4>1. Refused(fs2[p]) /\ limit' = fs2[p].from /\ \A j \in 1 .. p - 1 : ~Refused(fs2[j])
        BY <1>23, <2>1, <2>2, <2>4, <2>6, <2>8, <3>2
      <4>2. p \in 1 .. m2 + 1 /\ \A j \in 1 .. p - 1 : j \in 1 .. m2 + 1
        BY <1>2, <2>1, <2>2, <2>4
      <4>3. Refused(fs2[p])' /\ \A j \in 1 .. p - 1 : ~Refused(fs2[j])'
        BY <2>5, <4>1, <4>2
      <4>4. QED BY <2>1, <4>1, <4>3 DEF Limits
    <3>3. QED BY <3>1, <3>2
  <2>9. ASSUME NEW i \in k .. m + 1, Refused(fs[i]), limit = fs[i].from,
               \A j \in 1 .. i - 1 : ~Refused(fs[j])
        PROVE  Limits(fs2, m2, k)'
    <3>1. i \in 1 .. m + 1 /\ i \in k .. m2 + 1 /\ \A j \in 1 .. i - 1 : j \in 1 .. m + 1
      BY <1>2, <1>12, <1>13, <2>9
    <3>2. limit # NoLimit
      <4>1. fs[i] \in Placed
        BY <1>3, <3>1 DEF Chain
      <4>2. limit \in Nat
        BY <2>9, <4>1 DEF Placed
      <4>3. QED BY <4>2 DEF NoLimit
    <3>3. limit' = fs2[i].from
      BY <1>23, <2>2, <2>9, <3>1, <3>2
    <3>4. Refused(fs2[i])' /\ \A j \in 1 .. i - 1 : ~Refused(fs2[j])'
      BY <2>2, <2>5, <2>9, <3>1
    <3>5. QED BY <3>1, <3>3, <3>4 DEF Limits
  <2>10. QED BY <1>3, <2>8, <2>9 DEF Limits
<1>25. limit' \in Nat \cup {NoLimit}
  BY <1>7, <1>23 DEF IInv, TypeOK
<1>26. Stopped'
  <2>1. running' = running /\ delivered' = delivered
    BY DEF readerVars
  <2>2. limit # NoLimit => limit' = limit
    BY <1>23
  <2>3. QED BY <2>1, <2>2 DEF IInv, Stopped, NoLimit
<1>19. Followed'
  <2>1. Following(fs2, m2, k, c)'
    BY <1>14, <1>15, <1>16, <1>17, <1>18, <1>24 DEF Following
  <2>2. m2 \in Nat /\ c \in Nat /\ fs2 \in [1 .. m2 + 1 -> Placed] /\ k \in 1 .. m2 + 1
    BY <1>2, <1>12, <1>13, <1>14
  <2>3. QED BY <2>1, <2>2 DEF Followed
<1>20. pipe' \in Seq(Byte)
  BY <1>6, <1>7, <1>11, Joined
<1>21. QED BY <1>6, <1>11, <1>19, <1>20, <1>25, <1>26

LEMMA Counted ==
  /\ \A S \in SUBSET Streams : IsFiniteSet(S) /\ Cardinality(S) \in Nat
  /\ \A mask \in SUBSET Slots : Cardinality(mask) \in 0 .. MAX_XCODING_INSTANCES
<1> DEFINE M == MAX_XCODING_INSTANCES
<1>1. M \in Nat \ {0}
  BY Lengths
<1>2. IsFiniteSet(Streams)
  BY <1>1, FS_Interval DEF Streams
<1>3. Slots = 0 .. M - 1
  BY <1>1 DEF Slots, Streams
<1>4. IsFiniteSet(Slots) /\ Cardinality(Slots) = M
  <2>1. IsFiniteSet(0 .. M - 1) /\ Cardinality(0 .. M - 1) = IF 0 > M - 1 THEN 0 ELSE M - 1 - 0 + 1
    BY <1>1, FS_Interval
  <2>2. (IF 0 > M - 1 THEN 0 ELSE M - 1 - 0 + 1) = M
    BY <1>1
  <2>3. QED BY <1>3, <2>1, <2>2
<1>5. \A S \in SUBSET Streams : IsFiniteSet(S) /\ Cardinality(S) \in Nat
  BY <1>2, FS_Subset, FS_CardinalityType
<1>6. \A mask \in SUBSET Slots : Cardinality(mask) \in 0 .. M
  <2>1. TAKE mask \in SUBSET Slots
  <2>2. Cardinality(mask) <= M
    BY <1>4, FS_Subset
  <2>3. mask \in SUBSET Streams
    BY DEF Slots
  <2>4. Cardinality(mask) \in Nat
    BY <1>5, <2>3
  <2>5. QED BY <1>1, <2>2, <2>4
<1>7. QED BY <1>5, <1>6

LEMMA Ordered ==
  ASSUME NEW S \in SUBSET Streams
  PROVE  /\ InOrder(S) \in Seq(Streams) /\ Len(InOrder(S)) = Cardinality(S)
         /\ \A i \in 1 .. Len(InOrder(S)) : InOrder(S)[i] \in S
<1>1. S \subseteq Nat
  BY Lengths DEF Streams
<1>2. IsFiniteSet(S)
  BY Counted
<1>3. Cardinality(S) \in Nat /\ InOrder(S) \in [1 .. Cardinality(S) -> S]
  BY <1>1, <1>2, OrderExists
<1>4. PICK q : q = InOrder(S)
  OBVIOUS
<1>5. PICK n : n \in Nat /\ n = Cardinality(S)
  BY <1>3
<1>6. q \in [1 .. n -> S]
  BY <1>3, <1>4, <1>5
<1>7. q \in Seq(S) /\ Len(q) = n
  BY <1>5, <1>6
<1>8. q \in Seq(Streams) /\ \A i \in 1 .. Len(q) : q[i] \in S
  BY <1>6, <1>7
<1>9. QED BY <1>4, <1>5, <1>7, <1>8

LEMMA OneFewer ==
  ASSUME NEW S \in SUBSET Streams, NEW x \in S
  PROVE  Cardinality(S \ {x}) + 1 = Cardinality(S)
<1>1. IsFiniteSet(S) /\ Cardinality(S) \in Nat
  BY Counted
<1>2. Cardinality(S \ {x}) = Cardinality(S) - 1
  BY <1>1, FS_RemoveElement
<1>3. QED BY <1>1, <1>2

LEMMA FollowedStays ==
  ASSUME Followed, UNCHANGED <<direction, written, limit, readerVars>>, src' \o pipe' = src \o pipe
  PROVE  Followed'
<1>1. PICK m, c, fs, k, f : At(m, c, fs, k, f)
  BY ReaderIsAt
<1>2. /\ m \in Nat /\ c \in Nat /\ k \in 1 .. m + 1 /\ f = fs[k]
      /\ Chain(fs, m, written) /\ OnTheWay(fs, m, src \o pipe, c)
      /\ Position(f, c) /\ HandedOn(f) /\ Limits(fs, m, k)
  BY <1>1 DEF At, Following
<1>3. Chain(fs, m, written)'
  BY <1>2, ChainPrimed
<1>4. Position(f, c)'
  BY <1>2 DEF Position, readerVars
<1>5. HandedOn(f)'
  BY <1>2 DEF HandedOn, readerVars
<1>6. OnTheWay(fs, m, src \o pipe, c)'
  BY <1>2
<1>10. Limits(fs, m, k)'
  BY <1>2, LimitsStay
<1>7. Following(fs, m, k, c)'
  BY <1>2, <1>3, <1>4, <1>5, <1>6, <1>10 DEF Following
<1>8. fs \in [1 .. m + 1 -> Placed]
  BY <1>2 DEF Chain
<1>9. QED BY <1>2, <1>7, <1>8 DEF Followed

LEMMA FromServer ==
  ASSUME direction = "SGI", NEW mask \in SUBSET Slots, NEW sender \in mask, NEW len \in FrameLens
  PROVE  /\ <<sender>> \in Seq(Streams) /\ InOrder(mask \ {sender}) \in Seq(Streams)
         /\ [Nothing EXCEPT ![sender] = len] \in [Streams -> FrameLens \cup {0}]
         /\ Entries(mask, <<sender>>, InOrder(mask \ {sender}), [Nothing EXCEPT ![sender] = len])
<1> DEFINE empty == InOrder(mask \ {sender})
           lens  == [Nothing EXCEPT ![sender] = len]
           one   == <<sender>>
<1>1. sender \in Streams /\ mask \in SUBSET Streams /\ mask \ {sender} \in SUBSET Streams
  BY DEF Slots
<1>2. /\ empty \in Seq(Streams) /\ Len(empty) = Cardinality(mask \ {sender})
      /\ \A i \in 1 .. Len(empty) : empty[i] \in mask \ {sender}
  BY <1>1, Ordered
<1>3. one \in Seq(Streams) /\ Len(one) = 1 /\ one[1] = sender
  BY <1>1
<1>4. /\ lens \in [Streams -> FrameLens \cup {0}] /\ lens[sender] = len
      /\ \A i \in mask \ {sender} : lens[i] = 0
  BY <1>1 DEF Nothing
<1>5. len > 0 /\ Cardinality(mask) \in 0 .. MAX_XCODING_INSTANCES
  BY Lengths, Counted
<1>6. Cardinality(mask \ {sender}) + 1 = Cardinality(mask) /\ Cardinality(mask \ {sender}) \in Nat
  BY <1>1, OneFewer, Counted
<1>7. numStreams(mask) = Cardinality(mask)
  <2>1. direction # "SGO"
    OBVIOUS
  <2>2. numStreams(mask) = Cardinality(mask) + 0
    BY <2>1 DEF numStreams
  <2>3. QED BY <1>5, <2>2
<1> HIDE DEF empty, lens, one
<1>8. /\ Len(one) + Len(empty) = numStreams(mask)
      /\ numStreams(mask) \in 1 .. MAX_XCODING_INSTANCES + 1
  BY <1>2, <1>3, <1>5, <1>6, <1>7, Lengths
<1>9. \A i \in 1 .. Len(one) : lens[one[i]] > 0
  <2>1. TAKE i \in 1 .. Len(one)
  <2>2. i = 1
    BY <1>3
  <2>3. QED BY <1>3, <1>4, <1>5, <2>2
<1>10. \A i \in 1 .. Len(empty) : lens[empty[i]] = 0
  BY <1>2, <1>4
<1>11. Entries(mask, one, empty, lens)
  BY <1>8, <1>9, <1>10 DEF Entries
<1>12. QED BY <1>2, <1>3, <1>4, <1>11 DEF empty, lens, one

LEMMA ToByteBufferKeeps == ASSUME IInv, toByteBuffer PROVE IInv'
<1>1. /\ direction = "SGI" /\ segments < MaxSegments
      /\ UNCHANGED <<direction, outputBuffer, src, readerVars>>
  BY DEF toByteBuffer
<1>2. PICK mask \in SUBSET Slots, sender \in Slots, len \in FrameLens :
        /\ sender \in mask
        /\ Sends(mask, <<sender>>, InOrder(mask \ {sender}), [Nothing EXCEPT ![sender] = len])
  BY DEF toByteBuffer
<1>3. PICK one, empty, lens : /\ one = <<sender>> /\ empty = InOrder(mask \ {sender})
                              /\ lens = [Nothing EXCEPT ![sender] = len]
  OBVIOUS
<1>4. /\ one \in Seq(Streams) /\ empty \in Seq(Streams) /\ lens \in [Streams -> FrameLens \cup {0}]
      /\ Entries(mask, one, empty, lens)
  BY <1>1, <1>2, <1>3, FromServer
<1>5. Sends(mask, one, empty, lens)
  BY <1>2, <1>3
<1>6. /\ Followed' /\ pipe' \in Seq(Byte) /\ written' \in Seq(Frame)
      /\ limit' \in Nat \cup {NoLimit} /\ Stopped'
  BY <1>1, <1>4, <1>5, SegmentSent
<1>7. segments' = segments + 1
  BY <1>5 DEF Sends
<1>8. /\ src' = src /\ curBuf' = curBuf /\ delivered' = delivered /\ parsingState' = parsingState
      /\ curStreamId' = curStreamId /\ curStreamLen' = curStreamLen /\ curStreamCnt' = curStreamCnt
      /\ running' = running
  BY <1>1 DEF readerVars
<1>9. TypeOK'
  <2>1. segments' \in 0 .. MaxSegments
    BY <1>1, <1>7, Lengths DEF IInv, TypeOK
  <2>2. QED BY <1>1, <1>6, <1>8, <2>1 DEF IInv, TypeOK
<1>10. Buffers'
  <2>1. Packaged' = {}
    BY <1>1 DEF IInv, Buffers, Packaged
  <2>2. QED BY <1>6, <1>8, <2>1 DEF IInv, Buffers
<1>11. QED BY <1>6, <1>9, <1>10 DEF IInv

LEMMA FromMixer ==
  ASSUME TypeOK, direction = "SGO"
  PROVE  /\ Packaged \ {AllIn} \in SUBSET Slots
         /\ InOrder(Packaged) \in Seq(Streams) /\ Unpackaged \in Seq(Streams)
         /\ outputBuffer \in [Streams -> FrameLens \cup {0}]
         /\ Entries(Packaged \ {AllIn}, InOrder(Packaged), Unpackaged, outputBuffer)
<1> DEFINE mask   == Packaged \ {AllIn}
           frames == InOrder(Packaged)
<1>1. outputBuffer \in [Streams -> FrameLens \cup {0}]
  BY DEF TypeOK
<1>2. AllIn \in Streams
  BY Lengths DEF AllIn, Streams
<1>3. Packaged \in SUBSET Streams /\ mask \in SUBSET Slots
  BY DEF Packaged, Slots, AllIn
<1>4. /\ frames \in Seq(Streams) /\ Len(frames) = Cardinality(Packaged)
      /\ \A i \in 1 .. Len(frames) : frames[i] \in Packaged
  BY <1>3, Ordered
<1>5. Cardinality(mask) \in 0 .. MAX_XCODING_INSTANCES /\ Cardinality(Packaged) \in Nat
  BY <1>3, Counted
<1>6. numStreams(mask) = Cardinality(mask) + 1
  BY DEF numStreams
<1>7. /\ Unpackaged \in Seq(Streams)
      /\ Cardinality(Packaged) + Len(Unpackaged) = Cardinality(mask) + 1
      /\ \A i \in 1 .. Len(Unpackaged) : outputBuffer[Unpackaged[i]] = 0
  <2>1. CASE AllIn \in Packaged
    <3>1. Unpackaged = <<>>
      BY <2>1 DEF Unpackaged
    <3>2. Cardinality(mask) + 1 = Cardinality(Packaged)
      BY <1>3, <2>1, OneFewer
    <3>3. <<>> \in Seq(Streams) /\ Len(<<>>) = 0
      BY EmptySeq
    <3> HIDE DEF mask
    <3>4. QED BY <1>5, <3>1, <3>2, <3>3
  <2>2. CASE AllIn \notin Packaged
    <3>1. Unpackaged = <<AllIn>> /\ mask = Packaged
      BY <2>2 DEF Unpackaged
    <3>2. outputBuffer[AllIn] = 0
      <4>1. outputBuffer[AllIn] \in FrameLens \cup {0} /\ ~(outputBuffer[AllIn] > 0)
        BY <1>1, <1>2, <2>2 DEF Packaged
      <4>2. \A x \in FrameLens \cup {0} : ~(x > 0) => x = 0
        BY Lengths
      <4>3. QED BY <4>1, <4>2
    <3>3. <<AllIn>> \in Seq(Streams) /\ Len(<<AllIn>>) = 1 /\ <<AllIn>>[1] = AllIn
      BY <1>2
    <3>4. \A i \in 1 .. Len(<<AllIn>>) : i = 1
      BY <3>3
    <3>5. \A i \in 1 .. Len(<<AllIn>>) : outputBuffer[<<AllIn>>[i]] = 0
      BY <3>2, <3>3, <3>4
    <3>6. Cardinality(Packaged) + Len(<<AllIn>>) = Cardinality(mask) + 1
      BY <1>5, <3>1, <3>3
    <3>7. QED BY <3>1, <3>3, <3>5, <3>6
  <2>3. QED BY <2>1, <2>2
<1>8. \A i \in 1 .. Len(frames) : outputBuffer[frames[i]] > 0
  BY <1>4 DEF Packaged
<1>9. Cardinality(mask) + 1 \in 1 .. MAX_XCODING_INSTANCES + 1
  <2> HIDE DEF mask
  <2>1. QED BY <1>5, Lengths
<1>10. Entries(mask, frames, Unpackaged, outputBuffer)
  BY <1>4, <1>6, <1>7, <1>8, <1>9 DEF Entries
<1>11. QED BY <1>1, <1>3, <1>4, <1>7, <1>10

LEMMA GetOneFrameKeeps == ASSUME IInv, getOneFrameForAllStreams PROVE IInv'
<1>1. /\ direction = "SGO" /\ Packaged # {}
      /\ Sends(Packaged \ {AllIn}, InOrder(Packaged), Unpackaged, outputBuffer)
      /\ outputBuffer' = Nothing
      /\ UNCHANGED <<direction, src, readerVars>>
  BY DEF getOneFrameForAllStreams
<1>2. segments < MaxSegments
  BY <1>1 DEF IInv, Buffers
<1>3. PICK mask, frames, empty, lens :
        /\ mask = Packaged \ {AllIn} /\ frames = InOrder(Packaged)
        /\ empty = Unpackaged /\ lens = outputBuffer
  OBVIOUS
<1>4. TypeOK
  BY DEF IInv
<1>5. /\ mask \in SUBSET Slots /\ frames \in Seq(Streams) /\ empty \in Seq(Streams)
      /\ lens \in [Streams -> FrameLens \cup {0}]
      /\ Entries(mask, frames, empty, lens)
  BY <1>1, <1>3, <1>4, FromMixer
<1>6. Sends(mask, frames, empty, lens)
  BY <1>1, <1>3
<1>7. /\ Followed' /\ pipe' \in Seq(Byte) /\ written' \in Seq(Frame)
      /\ limit' \in Nat \cup {NoLimit} /\ Stopped'
  BY <1>1, <1>5, <1>6, SegmentSent
<1>8. segments' = segments + 1
  BY <1>6 DEF Sends
<1>9. /\ src' = src /\ curBuf' = curBuf /\ delivered' = delivered /\ parsingState' = parsingState
      /\ curStreamId' = curStreamId /\ curStreamLen' = curStreamLen /\ curStreamCnt' = curStreamCnt
      /\ running' = running
  BY <1>1 DEF readerVars
<1>10. TypeOK'
  <2>1. segments' \in 0 .. MaxSegments
    BY <1>2, <1>8, Lengths DEF IInv, TypeOK
  <2>2. outputBuffer' \in [Streams -> FrameLens \cup {0}]
    BY <1>1 DEF Nothing
  <2>3. QED BY <1>1, <1>7, <1>9, <2>1, <2>2 DEF IInv, TypeOK
<1>11. Buffers'
  <2>1. Packaged' = {}
    <3>1. \A i \in Streams : outputBuffer'[i] = 0
      BY <1>1 DEF Nothing
    <3>2. ~(0 > 0)
      OBVIOUS
    <3>3. QED BY <3>1, <3>2 DEF Packaged
  <2>2. QED BY <1>7, <1>9, <2>1 DEF IInv, Buffers
<1>12. QED BY <1>7, <1>10, <1>11 DEF IInv

LEMMA PackageKeeps == ASSUME IInv, NEW i \in Streams, package(i) PROVE IInv'
<1>1. /\ direction = "SGO" /\ segments < MaxSegments
      /\ \E len \in FrameLens : outputBuffer' = [outputBuffer EXCEPT ![i] = len]
      /\ UNCHANGED <<direction, segments, written, limit, pipe, src, readerVars>>
  BY DEF package
<1>2. Followed'
  BY <1>1, FollowedStays DEF IInv
<1>3. /\ curBuf' = curBuf /\ delivered' = delivered /\ parsingState' = parsingState
      /\ curStreamId' = curStreamId /\ curStreamLen' = curStreamLen /\ curStreamCnt' = curStreamCnt
      /\ running' = running
  BY <1>1 DEF readerVars
<1>4. TypeOK'
  <2>1. outputBuffer' \in [Streams -> FrameLens \cup {0}]
    BY <1>1 DEF IInv, TypeOK
  <2>2. QED BY <1>1, <1>3, <2>1 DEF IInv, TypeOK
<1>5. Buffers'
  BY <1>1, <1>3 DEF IInv, Buffers
<1>6. Stopped'
  BY <1>1, <1>3 DEF IInv, Stopped
<1>7. QED BY <1>2, <1>4, <1>5, <1>6 DEF IInv

LEMMA ReadKeeps == ASSUME IInv, read PROVE IInv'
<1>1. /\ src = <<>> /\ UNCHANGED <<direction, outputBuffer, segments, written, limit>>
      /\ UNCHANGED readerVars
  BY DEF read, writerVars
<1>2. PICK n \in 1 .. ReadLen :
        /\ n <= Len(pipe)
        /\ src' = SubSeq(pipe, 1, n) /\ pipe' = SubSeq(pipe, n + 1, Len(pipe))
  BY DEF read
<1>3. pipe \in Seq(Byte)
  BY DEF IInv, Buffers
<1>4. n \in 0 .. Len(pipe) /\ n \in 1 - 1 .. Len(pipe)
  BY <1>2, <1>3, Lengths
<1>5. src' \in Seq(Byte) /\ pipe' \in Seq(Byte)
  BY <1>2, <1>3, <1>4, Cut
<1>6. src' \o pipe' = src \o pipe
  <2>1. 1 \in 1 .. Len(pipe) + 1 /\ Len(pipe) \in n .. Len(pipe)
    BY <1>3, <1>4
  <2>2. src' \o pipe' = SubSeq(pipe, 1, Len(pipe))
    BY <1>2, <1>3, <1>4, <2>1, ConcatAdjacentSubSeq
  <2>3. SubSeq(pipe, 1, Len(pipe)) = pipe
    BY <1>3, SubSeqFull
  <2>4. src \o pipe = pipe
    BY <1>1, <1>3
  <2>5. QED BY <2>2, <2>3, <2>4
<1>7. Followed'
  BY <1>1, <1>6, FollowedStays DEF IInv
<1>8. /\ curBuf' = curBuf /\ delivered' = delivered /\ parsingState' = parsingState
      /\ curStreamId' = curStreamId /\ curStreamLen' = curStreamLen /\ curStreamCnt' = curStreamCnt
      /\ running' = running
  BY <1>1 DEF readerVars
<1>9. TypeOK'
  BY <1>1, <1>8 DEF IInv, TypeOK
<1>10. Buffers'
  <2>1. Packaged' = Packaged
    BY <1>1 DEF Packaged
  <2>2. QED BY <1>1, <1>5, <1>8, <2>1 DEF IInv, Buffers
<1>11. Stopped'
  BY <1>1, <1>8 DEF IInv, Stopped
<1>12. QED BY <1>7, <1>9, <1>10, <1>11 DEF IInv

LEMMA Unchanged == ASSUME IInv, UNCHANGED vars PROVE IInv'
<1>1. /\ UNCHANGED <<direction, outputBuffer, segments, written, limit, pipe, src>>
      /\ UNCHANGED readerVars
  BY DEF vars, writerVars
<1>2. Followed'
  BY <1>1, FollowedStays DEF IInv
<1>3. /\ curBuf' = curBuf /\ delivered' = delivered /\ parsingState' = parsingState
      /\ curStreamId' = curStreamId /\ curStreamLen' = curStreamLen /\ curStreamCnt' = curStreamCnt
      /\ running' = running
  BY <1>1 DEF readerVars
<1>4. TypeOK'
  BY <1>1, <1>3 DEF IInv, TypeOK
<1>5. Packaged' = Packaged
  BY <1>1 DEF Packaged
<1>6. Buffers'
  BY <1>1, <1>3, <1>5 DEF IInv, Buffers
<1>7. Stopped'
  BY <1>1, <1>3 DEF IInv, Stopped
<1>8. QED BY <1>2, <1>4, <1>6, <1>7 DEF IInv

(* At first, the only field is the header to come.                                *)
LEMMA Started == ASSUME Init PROVE IInv
<1>1. TypeOK
  <2>1. parsingState \in DOMAIN Expected
    BY StateNames DEF Init
  <2>2. 0 \in Streams /\ 0 \in 0 .. MaxSegments /\ 0 \in 0 .. MAX_XCODING_INSTANCES + 1
    BY Lengths DEF Streams
  <2>3. QED BY <2>1, <2>2 DEF Init, Nothing, TypeOK
<1>2. Buffers
  <2>1. Packaged = {}
    <3>1. \A i \in Streams : outputBuffer[i] = 0
      BY DEF Init, Nothing
    <3>2. ~(0 > 0)
      OBVIOUS
    <3>3. QED BY <3>1, <3>2 DEF Packaged
  <2>2. QED BY <2>1, EmptySeq DEF Init, Buffers
<1>3. Followed
  <2> DEFINE f == [byte |-> [kind |-> "header", value |-> direction], len |-> HeaderLen,
                   at |-> 0, left |-> 0, from |-> 0]
             fs == [i \in 1 .. 0 + 1 |-> f]
  <2>1. f \in Placed
    <3>1. [kind |-> "header", value |-> direction] \in Byte
      BY DEF Init, Byte
    <3>2. HeaderLen \in Nat /\ 0 \in Nat /\ 0 \in 0 .. MAX_XCODING_INSTANCES + 1
      BY Lengths
    <3>3. QED BY <3>1, <3>2 DEF Placed
  <2>2. /\ f.byte = [kind |-> "header", value |-> direction] /\ f.byte.kind = "header"
        /\ f.len = HeaderLen /\ f.at = 0 /\ f.left = 0 /\ f.from = 0
    OBVIOUS
  <2> HIDE DEF f
  <2>3. fs \in [1 .. 0 + 1 -> Placed] /\ 1 \in 1 .. 0 + 1 /\ fs[1] = f /\ fs[0 + 1] = f
    BY <2>1
  <2> HIDE DEF fs
  <2>4. Chain(fs, 0, written)
    <3>1. \A i \in 1 .. 0 : FALSE
      OBVIOUS
    <3>2. \A i \in 1 .. 0 + 1 : i = 0 + 1
      OBVIOUS
    <3>3. Len(written) = 0 /\ 0 <= 0
      BY EmptySeq DEF Init
    <3>4. \A i \in 1 .. 0 + 1 : fs[i].from <= Len(written)
      BY <2>2, <2>3, <3>2, <3>3
    <3>5. QED BY <2>2, <2>3, <3>1, <3>3, <3>4 DEF Chain
  <2>5. OnTheWay(fs, 0, src \o pipe, 0)
    <3>1. src \o pipe = <<>> /\ Len(<<>>) = 0 /\ 0 + 0 = 0
      BY DEF Init
    <3>2. QED BY <2>2, <2>3, <3>1, Zero DEF OnTheWay
  <2>6. Position(f, 0)
    <3>1. Len(curBuf) = 0 /\ curBuf = <<>> /\ 0 + 0 = 0
      BY EmptySeq DEF Init
    <3>2. Expected[parsingState] = "header"
      BY StateNames DEF Init
    <3>3. \A x \in 1 .. Len(curBuf) : curBuf[x] = f.byte
      BY <3>1, Zero
    <3>4. QED BY <2>2, <3>1, <3>2, <3>3 DEF Position
  <2>7. HandedOn(f)
    <3>1. Len(delivered) = 0
      BY EmptySeq DEF Init
    <3>2. QED BY <2>2, <3>1, Zero DEF HandedOn
  <2>8. Limits(fs, 0, 1)
    <3>1. \A i \in 1 .. 0 + 1 : i = 1
      OBVIOUS
    <3>2. \A i \in 1 .. 0 + 1 : ~Refused(fs[i])
      BY <2>2, <2>3, <3>1 DEF Refused
    <3>3. QED BY <3>2 DEF Limits, Init
  <2>9. Following(fs, 0, 1, 0)
    BY <2>3, <2>4, <2>5, <2>6, <2>7, <2>8 DEF Following
  <2>10. QED BY <2>3, <2>9 DEF Followed
<1>4. Stopped
  BY DEF Init, Stopped
<1>5. QED BY <1>1, <1>2, <1>3, <1>4 DEF IInv

(***************************************************************************)
(* Every step of writer, pipe and reader keeps the inductive invariant.    *)
(***************************************************************************)
LEMMA StepKeeps == ASSUME IInv, [Next]_vars PROVE IInv'
<1>1. CASE toByteBuffer
  BY <1>1, ToByteBufferKeeps
<1>2. CASE getOneFrameForAllStreams
  BY <1>2, GetOneFrameKeeps
<1>3. CASE \E i \in Streams : package(i)
  BY <1>3, PackageKeeps
<1>4. CASE read
  BY <1>4, ReadKeeps
<1>5. CASE segHeader
  BY <1>5, SegHeaderKeeps
<1>6. CASE streamMask
  BY <1>6, StreamMaskKeeps
<1>7. CASE streamHeader
  BY <1>7, StreamHeaderKeeps
<1>8. CASE streamData
  BY <1>8, StreamDataKeeps
<1>9. CASE UNCHANGED vars
  BY <1>9, Unchanged
<1>10. CASE maskRefused
  BY <1>10, MaskRefusedKeeps
<1>11. QED BY <1>1, <1>2, <1>3, <1>4, <1>5, <1>6, <1>7, <1>8, <1>9, <1>10 DEF Next

(* The bytes written so far are the fields of whole segments, and the reader is  *)
(* at one of them, whatever pieces the bytes came in and whichever side       *)
(* wrote them.                                                               *)
THEOREM ReaderFollows == Spec => []IInv
<1>1. Init => IInv
  BY Started
<1>2. IInv /\ [Next]_vars => IInv'
  BY StepKeeps
<1>3. QED BY <1>1, <1>2, PTL DEF Spec

(* The parsers' state, the count of entries left and the announced lengths stay  *)
(* in their ranges (FLVSegmentParser.h, SegmentParser.java's fields).         *)
THEOREM TypeCorrect == Spec => []TypeOK
<1>1. IInv => TypeOK
  BY DEF IInv
<1>2. QED BY <1>1, ReaderFollows, PTL

(* No read, however cut, makes the parser take a byte for another field's: the   *)
(* assertions on 'S' 'G' 'O' and 'S' 'G' 'I' never fail, and a frame's bytes   *)
(* are collected for the stream they were announced for.                     *)
THEOREM NeverOutOfStep == Spec => []InStep
<1>1. IInv => InStep
  <2>1. SUFFICES ASSUME IInv PROVE InStep
    OBVIOUS
  <2>2. PICK m, c, fs, k, f : At(m, c, fs, k, f)
    BY <2>1, ReaderIsAt DEF IInv
  <2>3. f = fs[k] /\ Position(fs[k], c)
    BY <2>2 DEF At, Following
  <2>4. Position(f, c)
    BY <2>3
  <2>5. curBuf \in Seq(Byte)
    BY <2>1 DEF IInv, Buffers
  <2>6. DOMAIN curBuf = 1 .. Len(curBuf)
    BY <2>5
  <2>7. ASSUME NEW i \in DOMAIN curBuf
        PROVE  /\ curBuf[i].kind = Expected[parsingState]
               /\ curBuf[i].kind = "data" => curBuf[i].value[1] = curStreamId
    <3>1. curBuf[i] = f.byte
      BY <2>4, <2>6, <2>7 DEF Position
    <3>2. /\ f.byte.kind = Expected[parsingState]
          /\ f.byte.kind = "data" => curStreamId = f.byte.value[1]
      BY <2>4 DEF Position
    <3>3. QED BY <3>1, <3>2
  <2>8. QED BY <2>7 DEF InStep
<1>2. QED BY <1>1, ReaderFollows, PTL

LEMMA EqualSoFar ==
  ASSUME NEW S, NEW s \in Seq(S), NEW t \in Seq(S), Len(s) <= Len(t),
         \A j \in 1 .. Len(s) : s[j] = t[j]
  PROVE  IsPrefix(s, t)
<1>1. Len(s) \in Nat /\ Len(t) \in Nat
  OBVIOUS
<1>2. Len(s) \in 0 .. Len(s) /\ Len(s) \in 0 .. Len(t)
  BY <1>1
<1>3. /\ SubSeq(s, 1, Len(s)) \in Seq(S) /\ Len(SubSeq(s, 1, Len(s))) = Len(s)
      /\ \A x \in 1 .. Len(s) : SubSeq(s, 1, Len(s))[x] = s[x]
  BY <1>2, Cut
<1>4. /\ SubSeq(t, 1, Len(s)) \in Seq(S) /\ Len(SubSeq(t, 1, Len(s))) = Len(s)
      /\ \A x \in 1 .. Len(s) : SubSeq(t, 1, Len(s))[x] = t[x]
  BY <1>2, Cut
<1>5. SubSeq(s, 1, Len(s)) = SubSeq(t, 1, Len(s))
  <2> DEFINE a == SubSeq(s, 1, Len(s))
             b == SubSeq(t, 1, Len(s))
  <2>1. \A x \in 1 .. Len(s) : a[x] = b[x]
    BY <1>3, <1>4
  <2> HIDE DEF a, b
  <2>2. a \in Seq(S) /\ b \in Seq(S) /\ Len(a) = Len(b) /\ Len(a) = Len(s)
    BY <1>3, <1>4 DEF a, b
  <2>3. a = b
    BY <2>1, <2>2, SeqEqual
  <2>4. QED BY <2>3 DEF a, b
<1>6. QED BY <1>5 DEF IsPrefix

(* Frames reach the other side for the stream they were written for, none twice  *)
(* and none overtaken, in both directions.                                   *)
THEOREM InOrderDelivery == Spec => []DeliveredInOrder
<1>1. IInv => DeliveredInOrder
  <2>1. SUFFICES ASSUME IInv PROVE DeliveredInOrder
    OBVIOUS
  <2>2. PICK m, c, fs, k, f : At(m, c, fs, k, f)
    BY <2>1, ReaderIsAt DEF IInv
  <2>3. /\ k \in 1 .. m + 1 /\ f = fs[k] /\ Chain(fs, m, written) /\ HandedOn(fs[k])
    BY <2>2 DEF At, Following
  <2>4. HandedOn(f) /\ f.from <= Len(written)
    BY <2>3 DEF Chain
  <2>5. /\ Len(delivered) <= Len(written)
        /\ \A j \in 1 .. Len(delivered) : delivered[j] = written[j]
    BY <2>4 DEF HandedOn
  <2>6. delivered \in Seq(Frame) /\ written \in Seq(Frame)
    BY <2>1 DEF IInv, Buffers
  <2>7. QED BY <2>5, <2>6, EqualSoFar DEF DeliveredInOrder
<1>2. QED BY <1>1, ReaderFollows, PTL

(* A field that ends where the bytes written end is the header to come, or the   *)
(* empty data of the last entry, behind which that header is.                *)
LEMMA LastField ==
  ASSUME NEW m \in Nat, NEW fs, NEW w, Chain(fs, m, w), NEW k \in 1 .. m, NEW f, f = fs[k],
         fs[m + 1].at <= f.at
  PROVE  f.len = 0 /\ f.byte.kind = "data" /\ f.from = Len(w)
<1>1. PICK end : end = fs[m + 1].at
  OBVIOUS
<1>2. \A i \in 1 .. m : fs[i].at + fs[i].len <= end
  BY <1>1 DEF Chain
<1>3. f \in Placed /\ Joins(f, fs[k + 1], w) /\ k + 1 \in 1 .. m + 1
  BY FieldOf
<1>4. PICK g : g = fs[k + 1]
  OBVIOUS
<1>5. g \in Placed /\ g.at = f.at + f.len
  BY <1>4, FieldOf
<1>6. fs[m + 1] \in Placed
  <2>1. m + 1 \in 1 .. m + 1
    OBVIOUS
  <2>2. QED BY <2>1 DEF Chain
<1>7. /\ f.at \in Nat /\ f.len \in Nat /\ g.at \in Nat /\ g.len \in Nat /\ end \in Nat
      /\ f.byte \in Byte /\ g.byte \in Byte
  BY <1>1, <1>3, <1>5, <1>6 DEF Placed
<1>8. f.at + f.len <= end /\ end <= f.at
  BY <1>1, <1>2
<1>9. f.len = 0
  <2> DEFINE a == f.at
             n == f.len
  <2>1. a \in Nat /\ n \in Nat /\ end \in Nat /\ a + n <= end /\ end <= a
    BY <1>7, <1>8
  <2> HIDE DEF a, n
  <2>2. n = 0
    BY <2>1
  <2>3. QED BY <2>2 DEF n
<1>10. f.byte.kind = "data"
  <2>1. /\ f.byte.kind = "header" => f.len = HeaderLen
        /\ f.byte.kind = "mask" => f.len = MaskLen
        /\ f.byte.kind = "stream header" => f.len = StreamHeaderLen
    BY <1>3 DEF Joins, HeaderJoins, MaskJoins, StreamHeaderJoins
  <2>2. HeaderLen # 0 /\ MaskLen # 0 /\ StreamHeaderLen # 0
    BY Lengths
  <2>3. QED BY <1>7, <1>9, <2>1, <2>2, Kinds
<1>11. g.from = f.from /\ g.byte.kind \in {"stream header", "header"}
  <2>1. DataJoins(f, g, w)
    BY <1>3, <1>4 DEF Joins
  <2>2. ~(f.len > 0)
    BY <1>9
  <2>3. g.from = f.from
    BY <1>10, <2>1, <2>2 DEF DataJoins
  <2>4. g.byte.kind = IF f.left > 1 THEN "stream header" ELSE "header"
    BY <1>10, <2>1 DEF DataJoins
  <2>5. QED BY <2>3, <2>4
<1>12. CASE k + 1 = m + 1
  <2>1. g = fs[m + 1]
    BY <1>4, <1>12
  <2>2. g.from = Len(w)
    BY <2>1 DEF Chain
  <2>3. QED BY <1>9, <1>10, <1>11, <2>2
<1>13. CASE k + 1 # m + 1
  <2>1. k + 1 \in 1 .. m
    BY <1>3, <1>13
  <2>2. g.at + g.len <= end
    BY <1>2, <1>4, <2>1
  <2>3. Joins(g, fs[(k + 1) + 1], w)
    BY <1>4, <2>1, FieldOf
  <2>4. /\ g.byte.kind = "header" => g.len = HeaderLen
        /\ g.byte.kind = "stream header" => g.len = StreamHeaderLen
    BY <2>3 DEF Joins, HeaderJoins, StreamHeaderJoins
  <2>5. g.len # 0
    <3>1. HeaderLen # 0 /\ StreamHeaderLen # 0
      BY Lengths
    <3>2. QED BY <1>11, <2>4, <3>1
  <2>6. g.at = f.at
    <3>1. f.at + 0 = f.at
      BY <1>7, Zero
    <3>2. QED BY <1>5, <1>9, <3>1
  <2> DEFINE a == g.at
             n == g.len
  <2>7. a \in Nat /\ n \in Nat /\ end \in Nat /\ a + n <= end /\ end <= a /\ n # 0
    BY <1>7, <1>8, <2>2, <2>5, <2>6
  <2> HIDE DEF a, n
  <2>8. FALSE
    BY <2>7
  <2>9. QED BY <2>8
<1>14. QED BY <1>12, <1>13

(* Nothing written waits for the next segment: when the pipe and the buffer of   *)
(* the read are empty, every frame has been handed on, although the loop needs  *)
(* a byte to go on and the last entry may have none; unless a mask has come     *)
(* that the reader's assertion or its loop over the bits does not get past      *)
(* (FLVSegmentParser.cpp:243, SegmentParser.java:89-102): then it has handed on  *)
(* the frames of the segments before that one, all of them and no others.      *)
THEOREM AllHandedOn == Spec => []NothingHeldBack
<1>1. IInv => NothingHeldBack
  <2>1. SUFFICES ASSUME IInv, pipe = <<>>, src = <<>> PROVE delivered = written
    BY DEF IInv, Stopped, NothingHeldBack
  <2>2. PICK m, c, fs, k, f : At(m, c, fs, k, f)
    BY <2>1, ReaderIsAt DEF IInv
  <2>3. /\ m \in Nat /\ c \in Nat /\ k \in 1 .. m + 1 /\ f = fs[k] /\ f \in Placed
        /\ Chain(fs, m, written) /\ OnTheWay(fs, m, src \o pipe, c)
        /\ Position(fs[k], c) /\ HandedOn(fs[k])
    BY <2>2 DEF At, Following
  <2>4. Position(f, c) /\ HandedOn(f)
    BY <2>3
  <2>5. delivered \in Seq(Frame) /\ written \in Seq(Frame) /\ curBuf \in Seq(Byte)
    BY <2>1 DEF IInv, Buffers
  <2>6. c = fs[m + 1].at
    <3>1. src \o pipe = <<>>
      BY <2>1
    <3>2. Len(src \o pipe) = 0
      BY <3>1, EmptySeq
    <3>3. c + 0 = fs[m + 1].at
      BY <2>3, <3>2 DEF OnTheWay
    <3>4. c + 0 = c
      BY <2>3, Zero
    <3>5. QED BY <3>3, <3>4
  <2>7. f.from = Len(written)
    <3>1. CASE k = m + 1
      BY <2>3, <3>1 DEF Chain
    <3>2. CASE k # m + 1
      <4>1. k \in 1 .. m
        BY <2>3, <3>2
      <4>2. f.at + f.len <= fs[m + 1].at
        BY <2>3, <4>1 DEF Chain
      <4> DEFINE a == f.at
                 n == f.len
                 l == Len(curBuf)
      <4>3. a \in Nat /\ n \in Nat /\ l \in Nat
        BY <2>3, <2>5 DEF Placed
      <4>4. c = a + l /\ a + n <= c /\ (curBuf # <<>> => l < n)
        BY <2>4, <2>6, <4>2 DEF Position
      <4> HIDE DEF a, n, l
      <4>5. ~(l < n)
        BY <4>3, <4>4
      <4>6. curBuf = <<>>
        BY <4>4, <4>5
      <4>7. l = 0
        BY <4>6, EmptySeq DEF l
      <4>8. c = a /\ c <= a
        BY <4>3, <4>4, <4>7
      <4>9. fs[m + 1].at <= f.at
        BY <2>6, <4>8 DEF a
      <4>10. QED BY <2>3, <4>1, <4>9, LastField
    <3>3. QED BY <3>1, <3>2
  <2>8. Len(delivered) = Len(written) /\ \A j \in 1 .. Len(delivered) : delivered[j] = written[j]
    BY <2>4, <2>7 DEF HandedOn
  <2>9. QED BY <2>5, <2>8, SeqEqual
<1>2. QED BY <1>1, ReaderFollows, PTL
=============================================================================
