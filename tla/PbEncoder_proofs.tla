-------------------------- MODULE PbEncoder_proofs --------------------------
(***************************************************************************)
(* Proofs about the encoder of PbEncoder, for any fields, values, sizes of *)
(* its buffers and depth of its stack, and messages of any length.         *)
(***************************************************************************)
EXTENDS PbEncoder, SequenceTheorems, FiniteSetTheorems, TLAPS

\* What is put.  The parts of a varint are its own matter.
Byte == Nat \cup {Varint(n)[i] : n \in Nat, i \in Nat}

SegmentType == [msglen : Nat, seglen : Nat]
EncoderType ==
  [buf : Seq(Byte), limit : Nat, run : Nat, segs : Seq(SegmentType), segLimit : Nat, top : Seq(Nat),
   depth : Nat, out : Seq(Byte), ended : BOOLEAN, ok : BOOLEAN, overrun : BOOLEAN]

-----------------------------------------------------------------------------
(* Induction up to a number, and functions that are defined by it.          *)

LEMMA LeastElement ==
  ASSUME NEW S \in SUBSET Nat, S # {}
  PROVE  \E n \in S : \A m \in S : n <= m
<1> DEFINE R == OpToRel(<, Nat)
<1>1. IsWellFoundedOn(R, Nat)
  BY NatLessThanWellFounded
<1>2. \A m, n \in Nat : m < n => <<m, n>> \in R
  BY DEF OpToRel
<1> HIDE DEF R
<1>3. PICK x \in S : \A y \in S : ~(<<y, x>> \in R)
  BY <1>1, WFMin
<1>4. \A m \in S : ~(m < x)
  BY <1>2, <1>3
<1> QED
  BY <1>4

LEMMA UpTo ==
  ASSUME NEW n \in Nat, NEW S, 0 \in S,
         \A i \in 0..n : i \in S /\ i < n => i + 1 \in S
  PROVE  0..n \subseteq S
<1> DEFINE bad == (0..n) \ S
<1> SUFFICES ASSUME bad # {} PROVE FALSE
  OBVIOUS
<1>0. bad \in SUBSET Nat
  OBVIOUS
<1>1. PICK b \in bad : \A m \in bad : b <= m
  BY <1>0, LeastElement
<1>2. b \in 0..n /\ b # 0
  BY <1>1
<1>3. b - 1 \in 0..n /\ b - 1 \notin bad
  BY <1>1, <1>2
<1> QED
  BY <1>1, <1>2, <1>3

\* The values of a step that is repeated.
IsIterate(f, n, a, step) ==
  /\ DOMAIN f = 0..n
  /\ f[0] = a
  /\ \A i \in 1..n : f[i] = step[f[i - 1]]

LEMMA Iterates ==
  ASSUME NEW n \in Nat, NEW S, NEW a \in S, NEW step \in [S -> S]
  PROVE  \E f \in [0..n -> S] : IsIterate(f, n, a, step)
<1> DEFINE Q == {m \in 0..n : \E f \in [0..m -> S] : IsIterate(f, m, a, step)}
<1>1. 0 \in Q
  <2>1. IsIterate([i \in 0..0 |-> a], 0, a, step)
    BY DEF IsIterate
  <2> QED
    BY <2>1
<1>2. ASSUME NEW m \in 0..n, m \in Q, m < n PROVE m + 1 \in Q
  <2>1. PICK f \in [0..m -> S] : IsIterate(f, m, a, step)
    BY <1>2
  <2> DEFINE g == [i \in 0..(m + 1) |-> IF i = m + 1 THEN step[f[m]] ELSE f[i]]
  <2>2. g \in [0..(m + 1) -> S]
    BY <2>1
  <2>3. g[0] = a /\ \A i \in 1..(m + 1) : g[i] = step[g[i - 1]]
    BY <2>1 DEF IsIterate
  <2>4. IsIterate(g, m + 1, a, step)
    BY <2>2, <2>3 DEF IsIterate
  <2> QED
    BY <1>2, <2>2, <2>4
<1> HIDE DEF Q
<1>3. n \in Q
  BY <1>1, <1>2, UpTo
<1> QED
  BY <1>3 DEF Q

-----------------------------------------------------------------------------
(* Sequences.                                                               *)

LEMMA VarintType == \A n \in Nat : Varint(n) \in Seq(Byte)
<1> TAKE n \in Nat
<1> DEFINE size == 1 + Cardinality({i \in 1..(VarintRoom - 1) : VarintBase ^ i <= n})
           e(i) == ((n \div (VarintBase ^ (i - 1))) % VarintBase) + (IF i < size THEN VarintBase ELSE 0)
<1>1. Varint(n) = [i \in 1..size |-> e(i)]
  BY Zenon DEF Varint
<1>2. size \in Nat
  <2>1. IsFiniteSet(1..(VarintRoom - 1))
    BY FS_Interval, EncoderAssumption DEF EncoderAssumption
  <2>2. IsFiniteSet({i \in 1..(VarintRoom - 1) : VarintBase ^ i <= n})
    BY <2>1, FS_Subset, Zenon
  <2> QED
    BY <2>2, FS_CardinalityType
<1> HIDE DEF size
<1>3. \A i \in 1..size : Varint(n)[i] \in Byte
  BY <1>2 DEF Byte
<1> HIDE DEF e
<1>4. DOMAIN Varint(n) = 1..size /\ Varint(n) = [i \in 1..size |-> Varint(n)[i]]
  BY <1>1
<1>5. Varint(n) \in [1..size -> Byte]
  BY <1>3, <1>4
<1> QED
  BY <1>2, <1>5, SeqDef

LEMMA TagType ==
  ASSUME NEW f \in EncoderField, NEW wt \in Nat
  PROVE  EncodedTag(f, wt) \in Seq(Byte)
<1>1. f.num * 8 + wt \in Nat
  BY EncoderAssumption DEF EncoderAssumption
<1> QED
  BY <1>1, VarintType DEF EncodedTag

LEMMA SubSeqType ==
  ASSUME NEW S, NEW s \in Seq(S), NEW a \in Nat, NEW b \in Nat, a <= b, b <= Len(s)
  PROVE  /\ SubSeq(s, a + 1, b) \in Seq(S)
         /\ Len(SubSeq(s, a + 1, b)) = b - a
         /\ \A i \in 1..(b - a) : SubSeq(s, a + 1, b)[i] = s[a + i]
<1>1. \A i \in (a + 1)..b : s[i] \in S
  OBVIOUS
<1>2. /\ SubSeq(s, a + 1, b) \in Seq(S)
      /\ Len(SubSeq(s, a + 1, b)) = IF a + 1 <= b THEN b - (a + 1) + 1 ELSE 0
      /\ \A i \in 1..(b - (a + 1) + 1) : SubSeq(s, a + 1, b)[i] = s[(a + 1) + i - 1]
  BY <1>1, SubSeqProperties, SMTT(30)
<1>3. \A i \in 1..(b - a) : i \in 1..(b - (a + 1) + 1) /\ (a + 1) + i - 1 = a + i
  OBVIOUS
<1>4. \A i \in 1..(b - a) : SubSeq(s, a + 1, b)[i] = s[a + i]
  BY <1>2, <1>3
<1> QED
  BY <1>2, <1>4

\* What is appended changes no part, and is added to a part that goes to the end.
LEMMA SubSeqKept ==
  ASSUME NEW S, NEW s \in Seq(S), NEW t \in Seq(S), NEW a \in Nat, NEW b \in Nat, a <= b, b <= Len(s)
  PROVE  SubSeq(s \o t, a + 1, b) = SubSeq(s, a + 1, b)
<1>1. s \o t \in Seq(S) /\ Len(s \o t) = Len(s) + Len(t)
  OBVIOUS
<1>2. \A i \in 1..(b - a) : (s \o t)[a + i] = s[a + i]
  OBVIOUS
<1>3. b <= Len(s \o t)
  BY <1>1
<1>4. /\ SubSeq(s \o t, a + 1, b) \in Seq(S) /\ Len(SubSeq(s \o t, a + 1, b)) = b - a
      /\ \A i \in 1..(b - a) : SubSeq(s \o t, a + 1, b)[i] = (s \o t)[a + i]
  BY <1>1, <1>3, SubSeqType
<1>5. /\ SubSeq(s, a + 1, b) \in Seq(S) /\ Len(SubSeq(s, a + 1, b)) = b - a
      /\ \A i \in 1..(b - a) : SubSeq(s, a + 1, b)[i] = s[a + i]
  BY SubSeqType
<1> QED
  BY <1>2, <1>4, <1>5, SeqEqual

LEMMA SubSeqGrows ==
  ASSUME NEW S, NEW s \in Seq(S), NEW t \in Seq(S), NEW a \in Nat, a <= Len(s)
  PROVE  SubSeq(s \o t, a + 1, Len(s \o t)) = SubSeq(s, a + 1, Len(s)) \o t
<1>1. s \o t \in Seq(S) /\ Len(s \o t) = Len(s) + Len(t) /\ Len(s) \in Nat /\ Len(t) \in Nat
  OBVIOUS
<1> DEFINE l == SubSeq(s \o t, a + 1, Len(s \o t))
           p == SubSeq(s, a + 1, Len(s))
<1>2. /\ l \in Seq(S) /\ Len(l) = Len(s) + Len(t) - a
      /\ \A i \in 1..(Len(s) + Len(t) - a) : l[i] = (s \o t)[a + i]
  BY <1>1, SubSeqType
<1>3. /\ p \in Seq(S) /\ Len(p) = Len(s) - a
      /\ \A i \in 1..(Len(s) - a) : p[i] = s[a + i]
  BY <1>1, SubSeqType
<1> HIDE DEF l, p
<1>4. p \o t \in Seq(S) /\ Len(p \o t) = Len(s) + Len(t) - a
  <2>1. p \o t \in Seq(S) /\ Len(p \o t) = Len(p) + Len(t)
    BY <1>3, ConcatProperties
  <2> QED
    BY <1>1, <1>3, <2>1
<1>5. \A i \in 1..(Len(s) + Len(t) - a) : (p \o t)[i] = (s \o t)[a + i]
  <2> TAKE i \in 1..(Len(s) + Len(t) - a)
  <2>1. CASE i <= Len(s) - a
    <3>1. (p \o t)[i] = p[i] /\ (s \o t)[a + i] = s[a + i]
      BY <1>1, <1>3, <2>1
    <3> QED
      BY <1>1, <1>3, <2>1, <3>1
  <2>2. CASE ~(i <= Len(s) - a)
    <3>1. (p \o t)[i] = t[i - (Len(s) - a)] /\ (s \o t)[a + i] = t[a + i - Len(s)]
      BY <1>1, <1>3, <2>2
    <3>2. i - (Len(s) - a) = a + i - Len(s)
      BY <1>1
    <3> QED
      BY <3>1, <3>2
  <2> QED
    BY <2>1, <2>2
<1>6. l = p \o t
  BY <1>1, <1>2, <1>4, <1>5, SeqEqual
<1> QED
  BY <1>6 DEF l, p

LEMMA Associative == \A s, t, u \in Seq(Byte) : (s \o t) \o u = s \o (t \o u)
BY ConcatAssociative

LEMMA SubSeqToItsBegin ==
  ASSUME NEW s, NEW a \in Nat
  PROVE  SubSeq(s, a + 1, a) = <<>>
BY SubSeqEmpty

\* The first of the sequences of a message and the last one.
LEMMA FrontProperties ==
  ASSUME NEW S, NEW s \in Seq(S), s # <<>>
  PROVE  /\ Front(s) \in Seq(S) /\ Len(Front(s)) = Len(s) - 1
         /\ \A i \in 1..(Len(s) - 1) : Front(s)[i] = s[i]
         /\ Last(s) \in S /\ Last(s) = s[Len(s)] /\ Len(s) \in Nat \ {0}
<1>1. Len(s) \in Nat \ {0}
  BY EmptySeq
<1>2. Len(s) - 1 \in Nat /\ 0 + 1 = 1 /\ (Len(s) - 1) - 0 = Len(s) - 1
  BY <1>1
<1>3. /\ SubSeq(s, 0 + 1, Len(s) - 1) \in Seq(S)
      /\ Len(SubSeq(s, 0 + 1, Len(s) - 1)) = (Len(s) - 1) - 0
      /\ \A i \in 1..((Len(s) - 1) - 0) : SubSeq(s, 0 + 1, Len(s) - 1)[i] = s[0 + i]
  BY <1>1, <1>2, SubSeqType
<1>4. \A i \in 1..(Len(s) - 1) : 0 + i = i
  OBVIOUS
<1>5. \A i \in 1..(Len(s) - 1) : SubSeq(s, 1, Len(s) - 1)[i] = s[i]
  BY <1>2, <1>3, <1>4
<1>6. s[Len(s)] \in S
  BY <1>1
<1> QED
  BY <1>1, <1>2, <1>3, <1>5, <1>6 DEF Front, Last

-----------------------------------------------------------------------------
(* The invariant.  wanted is what the open regions hold so far; K[i] is what *)
(* the segments up to the i-th one put, since the innermost of the open      *)
(* regions that begin in them.                                               *)

Opens(s, i) == \E r \in 1..Len(s.top) : s.top[r] = i

\* The last segment takes the run that goes on.
SegmentBytes(s, ends, i) ==
  SubSeq(s.buf, ends[i - 1] + 1, IF i = Len(s.segs) THEN Len(s.buf) ELSE ends[i])

TopOK(s) ==
  /\ s.top[1] = 1
  /\ \A r \in 1..Len(s.top) : s.top[r] \in 1..Len(s.segs)
  /\ \A q, r \in 1..Len(s.top) : q < r => s.top[q] < s.top[r]

IsEnds(s, ends) ==
  /\ ends \in [0..Len(s.segs) -> Nat]
  /\ ends[0] = 0
  /\ \A i \in 1..Len(s.segs) : ends[i] = ends[i - 1] + s.segs[i].seglen
  /\ \A i \in 0..Len(s.segs) : ends[i] <= s.run
  /\ ends[Len(s.segs)] = s.run
  /\ s.run <= Len(s.buf)

Content(s, ends, K) ==
  /\ K \in [1..Len(s.segs) -> Seq(Byte)]
  /\ \A i \in 1..Len(s.segs) :
       K[i] = IF Opens(s, i) THEN SegmentBytes(s, ends, i)
              ELSE K[i - 1] \o (Varint(s.segs[i].msglen) \o SegmentBytes(s, ends, i))

Regions(s, w, K) ==
  /\ \A r \in 1..(Len(s.top) - 1) :
       /\ w[r + 1] = K[s.top[r + 1] - 1]
       /\ s.segs[s.top[r]].msglen = Len(w[r + 1])
  /\ w[Len(s.top) + 1] = K[Len(s.segs)]
  /\ s.segs[s.top[Len(s.top)]].msglen + (Len(s.buf) - s.run) = Len(w[Len(s.top) + 1])

Segmented(s, w) == \E ends, K : IsEnds(s, ends) /\ Content(s, ends, K) /\ Regions(s, w, K)

\* What the encoder holds is what the regions hold.
Holds(s, w) ==
  /\ w \in Seq(Seq(Byte)) /\ Len(w) = Len(s.top) + 1
  /\ s.top = <<>> => s.out \o s.buf = w[1]
  /\ s.top # <<>> => s.out = w[1] /\ TopOK(s) /\ Segmented(s, w)

\* What holds even where a handler has failed.
Bounds(s) ==
  /\ s \in EncoderType
  /\ Len(s.buf) <= s.limit /\ Len(s.segs) <= s.segLimit
  /\ s.limit # 0 /\ s.segLimit # 0 /\ ~s.overrun

WantsMore(w, bytes) == [w EXCEPT ![Len(w)] = @ \o bytes]

LEMMA WantsMoreType ==
  ASSUME NEW w \in Seq(Seq(Byte)), w # <<>>, NEW bytes \in Seq(Byte)
  PROVE  /\ WantsMore(w, bytes) \in Seq(Seq(Byte)) /\ Len(WantsMore(w, bytes)) = Len(w)
         /\ WantsMore(w, bytes)[Len(w)] = w[Len(w)] \o bytes
         /\ \A i \in 1..(Len(w) - 1) : WantsMore(w, bytes)[i] = w[i]
         /\ Len(w) \in Nat \ {0} /\ w[Len(w)] \in Seq(Byte)
<1>1. Len(w) \in Nat \ {0} /\ Len(w) \in 1..Len(w)
  BY EmptySeq
<1>2. w[Len(w)] \in Seq(Byte)
  BY <1>1
<1>3. w[Len(w)] \o bytes \in Seq(Byte)
  BY <1>2, ConcatProperties
<1>4. WantsMore(w, bytes) = [w EXCEPT ![Len(w)] = w[Len(w)] \o bytes]
  BY Zenon DEF WantsMore
<1>5. /\ WantsMore(w, bytes) \in Seq(Seq(Byte)) /\ Len(WantsMore(w, bytes)) = Len(w)
      /\ \A j \in 1..Len(w) : WantsMore(w, bytes)[j] = IF j = Len(w) THEN w[Len(w)] \o bytes ELSE w[j]
  BY <1>1, <1>3, <1>4, ExceptSeq
<1>6. \A i \in 1..(Len(w) - 1) : i \in 1..Len(w) /\ i # Len(w)
  BY <1>1
<1>7. WantsMore(w, bytes)[Len(w)] = w[Len(w)] \o bytes
  BY <1>1, <1>5, Zenon
<1>8. \A i \in 1..(Len(w) - 1) : WantsMore(w, bytes)[i] = w[i]
  BY <1>5, <1>6, Zenon
<1> QED
  BY <1>1, <1>2, <1>5, <1>7, <1>8, Zenon

-----------------------------------------------------------------------------
(* Bytes that are appended.                                                 *)

Adds(s, t, bytes) ==
  /\ s \in EncoderType /\ t \in EncoderType /\ bytes \in Seq(Byte)
  /\ t.buf = s.buf \o bytes
  /\ t.out = s.out /\ t.run = s.run /\ t.segs = s.segs /\ t.top = s.top

\* They belong to the last segment and the innermost region.
LEMMA Appended ==
  ASSUME NEW s, NEW t, NEW w, NEW bytes, Holds(s, w), Adds(s, t, bytes)
  PROVE  Holds(t, WantsMore(w, bytes))
<1> DEFINE v == WantsMore(w, bytes)
           n == Len(s.segs)
           k == Len(s.top)
<1>0. /\ s.top \in Seq(Nat) /\ s.segs \in Seq(SegmentType) /\ bytes \in Seq(Byte)
      /\ s.buf \in Seq(Byte) /\ s.out \in Seq(Byte) /\ s.run \in Nat
  BY DEF EncoderType, Adds
<1>00. t.buf = s.buf \o bytes /\ t.out = s.out /\ t.run = s.run /\ t.segs = s.segs /\ t.top = s.top
  BY Zenon DEF Adds
<1>1. /\ w \in Seq(Seq(Byte)) /\ Len(w) = k + 1 /\ k \in Nat /\ n \in Nat /\ w # <<>>
      /\ s.buf \in Seq(Byte) /\ s.out \in Seq(Byte) /\ s.run \in Nat
  <2>1. s.top \in Seq(Nat) /\ s.segs \in Seq(SegmentType)
        /\ s.buf \in Seq(Byte) /\ s.out \in Seq(Byte) /\ s.run \in Nat
    BY <1>0
  <2>2. k \in Nat /\ n \in Nat
    BY <2>1
  <2>3. w \in Seq(Seq(Byte)) /\ Len(w) = k + 1
    BY DEF Holds
  <2>4. w # <<>>
    BY <2>2, <2>3, EmptySeq
  <2> QED
    BY <2>1, <2>2, <2>3, <2>4
<1>2. /\ v \in Seq(Seq(Byte)) /\ Len(v) = k + 1 /\ v[k + 1] = w[k + 1] \o bytes
      /\ \A i \in 1..k : v[i] = w[i]
      /\ w[k + 1] \in Seq(Byte)
  <2>1. (k + 1) - 1 = k
    BY <1>1
  <2> QED
    <3>1. /\ v \in Seq(Seq(Byte)) /\ Len(v) = Len(w) /\ v[Len(w)] = w[Len(w)] \o bytes
          /\ \A i \in 1..(Len(w) - 1) : v[i] = w[i]
          /\ w[Len(w)] \in Seq(Byte)
      BY <1>0, <1>1, WantsMoreType, Zenon
    <3>2. Len(w) = k + 1 /\ Len(w) - 1 = k
      BY <1>1, <2>1, Zenon
    <3> HIDE DEF v, k
    <3> QED
      BY <3>1, <3>2, Zenon
<1> HIDE DEF v
<1>3. CASE s.top = <<>>
  <2>1. k = 0 /\ s.out \o s.buf = w[1]
    BY <1>3 DEF Holds
  <2>2. v[1] = w[1] \o bytes
    BY <1>2, <2>1
  <2>3. s.out \o (s.buf \o bytes) = (s.out \o s.buf) \o bytes
    BY <1>0, <1>00, <1>1, Associative, Zenon
  <2>4. t.out \o t.buf = v[1]
    BY <1>0, <1>00, <2>1, <2>2, <2>3
  <2> QED
    BY <1>0, <1>00, <1>2, <1>3, <2>4 DEF Holds, v
<1>4. CASE s.top # <<>>
  <2>1. s.out = w[1] /\ TopOK(s) /\ Segmented(s, w) /\ k \in Nat \ {0}
    <3>1. s.top \in Seq(Nat)
      BY <1>0, <1>00 DEF EncoderType
    <3> QED
      BY <1>4, <3>1, EmptySeq DEF Holds
  <2>2. PICK ends, K : IsEnds(s, ends) /\ Content(s, ends, K) /\ Regions(s, w, K)
    BY <2>1, Zenon DEF Segmented
  <2>3. t.out = v[1] /\ TopOK(t)
    BY <1>0, <1>00, <1>2, <2>1 DEF TopOK
  <2>4. Len(t.buf) = Len(s.buf) + Len(bytes) /\ Len(s.buf) \in Nat /\ Len(bytes) \in Nat
    BY <1>0, <1>00, <1>1
  <2>5. IsEnds(t, ends)
    BY <1>0, <1>00, <1>1, <2>2, <2>4 DEF IsEnds
  <2>6. 1 \in 1..n /\ n \in 1..n /\ k \in 1..k
    BY <1>1, <2>1 DEF TopOK
  <2> DEFINE L == [K EXCEPT ![n] = @ \o bytes]
  <2>7. /\ L \in [1..n -> Seq(Byte)] /\ L[n] = K[n] \o bytes
        /\ \A i \in 1..n : i # n => L[i] = K[i]
    <3>1. K \in [1..n -> Seq(Byte)]
      BY <2>2 DEF Content
    <3>2. K[n] \o bytes \in Seq(Byte)
      BY <1>0, <1>00, <2>6, <3>1, ConcatProperties
    <3> QED
      BY <2>6, <3>1, <3>2
  <2> HIDE DEF L
  <2>8. \A i \in 1..n : /\ Opens(t, i) <=> Opens(s, i)
                        /\ i # n => SegmentBytes(t, ends, i) = SegmentBytes(s, ends, i)
    <3> TAKE i \in 1..n
    <3>1. Opens(t, i) <=> Opens(s, i)
      BY <1>0, <1>00 DEF Opens
    <3>2. ASSUME i # n PROVE SegmentBytes(t, ends, i) = SegmentBytes(s, ends, i)
      <4>1. i - 1 \in 0..n /\ i \in 0..n
        OBVIOUS
      <4>2. /\ ends[i - 1] \in Nat /\ ends[i] \in Nat /\ ends[i] <= Len(s.buf)
            /\ s.segs[i].seglen \in Nat /\ ends[i] = ends[i - 1] + s.segs[i].seglen
        <5>1. s.segs[i] \in SegmentType
          BY <1>0, <1>00 DEF EncoderType
        <5>2. ends[i - 1] \in Nat /\ ends[i] \in Nat /\ ends[i] <= s.run /\ s.run <= Len(s.buf)
              /\ ends[i] = ends[i - 1] + s.segs[i].seglen
          BY <2>2, <4>1 DEF IsEnds
        <5>3. s.segs[i].seglen \in Nat
          BY <5>1 DEF SegmentType
        <5>4. s.run \in Nat
          BY <1>0
        <5>5. ends[i] <= Len(s.buf)
          BY <2>4, <5>2, <5>4
        <5> QED
          BY <5>2, <5>3, <5>5
      <4>3. ends[i - 1] <= ends[i]
        BY <4>2
      <4>4. SubSeq(s.buf \o bytes, ends[i - 1] + 1, ends[i]) = SubSeq(s.buf, ends[i - 1] + 1, ends[i])
        <5> DEFINE a == ends[i - 1]
                   b == ends[i]
        <5>1. a \in Nat /\ b \in Nat /\ a <= b /\ b <= Len(s.buf) /\ s.buf \in Seq(Byte) /\ bytes \in Seq(Byte)
          BY <1>0, <4>2, <4>3
        <5> HIDE DEF a, b
        <5>2. SubSeq(s.buf \o bytes, a + 1, b) = SubSeq(s.buf, a + 1, b)
          BY <5>1, SubSeqKept
        <5> QED
          BY <5>2 DEF a, b
      <4> QED
        BY <1>0, <1>00, <3>2, <4>4 DEF SegmentBytes
    <3> QED
      BY <3>1, <3>2
  <2>9. SegmentBytes(t, ends, n) = SegmentBytes(s, ends, n) \o bytes /\ SegmentBytes(s, ends, n) \in Seq(Byte)
    <3>1. ends[n - 1] \in Nat /\ ends[n - 1] <= Len(s.buf)
      <4>1. n - 1 \in 0..n
        BY <1>1, <2>6
      <4>2. ends[n - 1] \in Nat /\ ends[n - 1] <= s.run /\ s.run <= Len(s.buf)
        BY <2>2, <4>1 DEF IsEnds
      <4>3. s.run \in Nat
        BY <1>0
      <4> QED
        BY <2>4, <4>2, <4>3
    <3>2. SubSeq(s.buf \o bytes, ends[n - 1] + 1, Len(s.buf \o bytes))
            = SubSeq(s.buf, ends[n - 1] + 1, Len(s.buf)) \o bytes
      BY <1>0, <1>00, <1>1, <3>1, SubSeqGrows
    <3>3. SubSeq(s.buf, ends[n - 1] + 1, Len(s.buf)) \in Seq(Byte)
      <4> DEFINE p == ends[n - 1]
      <4>1. p \in Nat /\ p <= Len(s.buf) /\ s.buf \in Seq(Byte) /\ Len(s.buf) \in Nat /\ Len(s.buf) <= Len(s.buf)
        BY <1>0, <2>4, <3>1
      <4> HIDE DEF p
      <4>2. SubSeq(s.buf, p + 1, Len(s.buf)) \in Seq(Byte)
        BY <4>1, SubSeqType
      <4> QED
        BY <4>2 DEF p
    <3> QED
      BY <1>0, <1>00, <3>2, <3>3 DEF SegmentBytes
  <2>10. Content(t, ends, L)
    <3>1. ASSUME NEW i \in 1..n
          PROVE  L[i] = IF Opens(t, i) THEN SegmentBytes(t, ends, i)
                        ELSE L[i - 1] \o (Varint(s.segs[i].msglen) \o SegmentBytes(t, ends, i))
      <4>1. K[i] = IF Opens(s, i) THEN SegmentBytes(s, ends, i)
                   ELSE K[i - 1] \o (Varint(s.segs[i].msglen) \o SegmentBytes(s, ends, i))
        BY <2>2 DEF Content
      <4>2. ~Opens(s, i) => i - 1 \in 1..n /\ i - 1 # n
        <5>1. Opens(s, 1)
          BY <1>1, <2>1, <2>6 DEF Opens, TopOK
        <5> QED
          BY <5>1
      <4>3. CASE i # n
        BY <2>7, <2>8, <4>1, <4>2, <4>3
      <4>4. CASE i = n
        <5>1. CASE Opens(s, n)
          BY <2>7, <2>8, <2>9, <4>1, <4>4, <5>1
        <5>2. CASE ~Opens(s, n)
          <6> DEFINE head == K[n - 1]
                     len == Varint(s.segs[n].msglen)
                     body == SegmentBytes(s, ends, n)
          <6>1. head \in Seq(Byte) /\ len \in Seq(Byte) /\ body \in Seq(Byte)
            <7>1. s.segs[n] \in SegmentType
              BY <1>0, <1>00, <2>6 DEF EncoderType
            <7>2. s.segs[n].msglen \in Nat
              BY <7>1 DEF SegmentType
            <7>3. K \in [1..n -> Seq(Byte)]
              BY <2>2 DEF Content
            <7> QED
              BY <2>9, <4>2, <4>4, <5>2, <7>2, <7>3, VarintType
          <6>2. K[n] = head \o (len \o body)
            BY <4>1, <4>4, <5>2
          <6>3. L[n - 1] = head
            BY <2>7, <4>2, <4>4, <5>2
          <6> HIDE DEF head, len, body
          <6>4. (head \o (len \o body)) \o bytes = head \o (len \o (body \o bytes))
            <7>1. len \o body \in Seq(Byte)
              BY <6>1, ConcatProperties
            <7>2. (len \o body) \o bytes = len \o (body \o bytes)
              <8>1. len \in Seq(Byte) /\ body \in Seq(Byte) /\ bytes \in Seq(Byte)
                BY <1>0, <6>1
              <8> QED
                BY <8>1, Associative, Zenon
            <7>3. (head \o (len \o body)) \o bytes = head \o ((len \o body) \o bytes)
              <8> DEFINE rest == len \o body
              <8>1. head \in Seq(Byte) /\ rest \in Seq(Byte) /\ bytes \in Seq(Byte)
                BY <1>0, <6>1, <7>1
              <8> HIDE DEF rest
              <8>2. (head \o rest) \o bytes = head \o (rest \o bytes)
                BY <8>1, Associative, Zenon
              <8> QED
                BY <8>2 DEF rest
            <7> QED
              BY <7>2, <7>3
          <6>5. L[n] = L[n - 1] \o (len \o SegmentBytes(t, ends, n))
            BY <2>7, <2>9, <6>2, <6>3, <6>4 DEF body
          <6> QED
            BY <2>8, <4>4, <5>2, <6>5 DEF len
        <5> QED
          BY <5>1, <5>2
      <4> QED
        BY <4>3, <4>4
    <3> QED
      BY <1>0, <1>00, <2>7, <3>1 DEF Content
  <2>11. Regions(t, v, L)
    <3>1. ASSUME NEW r \in 1..(k - 1)
          PROVE  v[r + 1] = L[s.top[r + 1] - 1] /\ s.segs[s.top[r]].msglen = Len(v[r + 1])
      <4>1. r + 1 \in 1..k /\ r \in 1..k /\ 1 \in 1..k
        <5>1. k \in Nat
          BY <1>1
        <5> HIDE DEF k
        <5> QED
          BY <5>1
      <4>2. s.top[r + 1] \in 1..n /\ s.top[r] \in 1..n /\ s.top[r] < s.top[r + 1]
        BY <2>1, <4>1 DEF TopOK
      <4>3. s.top[r + 1] - 1 \in 1..n /\ s.top[r + 1] - 1 # n
        <5> DEFINE a == s.top[r]
                   b == s.top[r + 1]
        <5>1. a \in 1..n /\ b \in 1..n /\ a < b /\ n \in Nat
          BY <1>1, <4>2
        <5> HIDE DEF a, b, n
        <5>2. b - 1 \in 1..n /\ b - 1 # n
          BY <5>1
        <5> QED
          BY <5>2 DEF b
      <4>4. w[r + 1] = K[s.top[r + 1] - 1] /\ s.segs[s.top[r]].msglen = Len(w[r + 1])
        BY <2>2 DEF Regions
      <4>5. v[r + 1] = w[r + 1]
        BY <1>2, <4>1
      <4> QED
        BY <2>7, <4>3, <4>4, <4>5
    <3>2. w[k + 1] = K[n] /\ s.segs[s.top[k]].msglen + (Len(s.buf) - s.run) = Len(w[k + 1])
      BY <2>2 DEF Regions
    <3>3. v[k + 1] = L[n]
      BY <1>2, <2>7, <3>2
    <3>4. Len(v[k + 1]) = Len(w[k + 1]) + Len(bytes) /\ Len(w[k + 1]) \in Nat
      BY <1>2, ConcatProperties
    <3>5. s.segs[s.top[k]].msglen \in Nat
      <4>0. s.top[k] \in 1..n /\ s.segs \in Seq(SegmentType)
        BY <1>0, <1>00, <2>1, <2>6 DEF TopOK, EncoderType
      <4>1. s.segs[s.top[k]] \in SegmentType
        BY <4>0, ElementOfSeq
      <4> QED
        BY <4>1 DEF SegmentType
    <3>6. s.segs[s.top[k]].msglen + (Len(t.buf) - s.run) = Len(v[k + 1])
      <4> DEFINE m == s.segs[s.top[k]].msglen
                 b == Len(s.buf)
                 x == Len(bytes)
                 l == Len(w[k + 1])
      <4>1. m \in Nat /\ b \in Nat /\ x \in Nat /\ l \in Nat /\ s.run \in Nat /\ m + (b - s.run) = l
        BY <1>1, <2>4, <3>2, <3>4, <3>5
      <4>2. Len(t.buf) = b + x /\ Len(v[k + 1]) = l + x
        BY <2>4, <3>4
      <4> HIDE DEF m, b, x, l
      <4>3. m + ((b + x) - s.run) = l + x
        BY <4>1
      <4> QED
        BY <4>2, <4>3 DEF m
    <3> QED
      BY <1>0, <1>00, <3>1, <3>3, <3>6 DEF Regions
  <2>12. Segmented(t, v)
    BY <2>5, <2>10, <2>11 DEF Segmented
  <2> QED
    BY <1>0, <1>00, <1>2, <1>4, <2>3, <2>12 DEF Holds, v
<1> QED
  BY <1>3, <1>4

-----------------------------------------------------------------------------
(* The buffer.                                                              *)

\* Doubling from one on is faster than counting.
LEMMA DoubledEnough ==
  ASSUME NEW size \in Nat \ {0}, NEW needed \in Nat
  PROVE  Doubled(size, needed) \in Nat \ {0} /\ Doubled(size, needed) >= needed
<1> DEFINE grown[k \in 0..needed] ==
             IF k = 0 THEN size ELSE IF grown[k - 1] < needed THEN 2 * grown[k - 1] ELSE grown[k - 1]
           step == [x \in Nat \ {0} |-> IF x < needed THEN 2 * x ELSE x]
<1>1. step \in [Nat \ {0} -> Nat \ {0}]
  OBVIOUS
<1>2. PICK f \in [0..needed -> Nat \ {0}] : IsIterate(f, needed, size, step)
  BY <1>1, Iterates
<1>3. f = [k \in 0..needed |->
             IF k = 0 THEN size ELSE IF f[k - 1] < needed THEN 2 * f[k - 1] ELSE f[k - 1]]
  <2>1. f[0] = size /\ \A k \in 1..needed : f[k] = step[f[k - 1]]
    BY <1>2 DEF IsIterate
  <2>2. \A k \in 0..needed : f[k] =
          IF k = 0 THEN size ELSE IF f[k - 1] < needed THEN 2 * f[k - 1] ELSE f[k - 1]
    <3> TAKE k \in 0..needed
    <3>1. CASE k = 0
      BY <2>1, <3>1
    <3>2. CASE k # 0
      <4>1. k \in 1..needed /\ k - 1 \in 0..needed
        BY <3>2
      <4>2. f[k - 1] \in Nat \ {0} /\ f[k] = step[f[k - 1]]
        BY <1>2, <2>1, <4>1
      <4> QED
        BY <3>2, <4>2
    <3> QED
      BY <3>1, <3>2
  <2> QED
    BY <1>2, <2>2
<1>4. grown = [k \in 0..needed |->
                 IF k = 0 THEN size ELSE IF grown[k - 1] < needed THEN 2 * grown[k - 1] ELSE grown[k - 1]]
  BY <1>3, Zenon
<1>5. Doubled(size, needed) = grown[needed]
  BY Zenon DEF Doubled
<1> HIDE DEF grown
<1> DEFINE Q == {k \in 0..needed : grown[k] \in Nat \ {0} /\ (grown[k] >= needed \/ grown[k] > k)}
<1>6. 0 \in Q
  BY <1>4
<1>7. ASSUME NEW k \in 0..needed, k \in Q, k < needed PROVE k + 1 \in Q
  <2>1. k + 1 \in 0..needed /\ k + 1 # 0 /\ (k + 1) - 1 = k
    BY <1>7
  <2>2. grown[k + 1] = IF grown[k] < needed THEN 2 * grown[k] ELSE grown[k]
    BY <1>4, <2>1
  <2>3. grown[k] \in Nat \ {0} /\ (grown[k] >= needed \/ grown[k] > k)
    BY <1>7
  <2>4. grown[k + 1] \in Nat \ {0} /\ (grown[k + 1] >= needed \/ grown[k + 1] > k + 1)
    <3> DEFINE x == grown[k]
               y == grown[k + 1]
    <3>1. x \in Nat \ {0} /\ (x >= needed \/ x > k) /\ k \in Nat
      BY <2>3
    <3>2. y = IF x < needed THEN 2 * x ELSE x
      BY <2>2
    <3> HIDE DEF x, y
    <3>3. CASE x < needed
      <4>1. y = 2 * x /\ x > k
        BY <3>1, <3>2, <3>3
      <4> QED
        BY <3>1, <4>1 DEF x, y
    <3>4. CASE ~(x < needed)
      <4>1. y = x /\ x >= needed
        BY <3>1, <3>2, <3>4
      <4> QED
        BY <3>1, <4>1 DEF x, y
    <3> QED
      BY <3>3, <3>4
  <2> QED
    BY <2>1, <2>4
<1> HIDE DEF Q
<1>8. needed \in Q
  <2>1. 0..needed \subseteq Q
    BY <1>6, <1>7, UpTo, Zenon
  <2> QED
    BY <2>1
<1>9. grown[needed] \in Nat \ {0} /\ grown[needed] >= needed
  BY <1>8 DEF Q
<1> QED
  BY <1>5, <1>9

\* Room is made, or the handler fails; nothing else changes.
LEMMA Reserved ==
  ASSUME NEW s, Bounds(s), s.ok, NEW n \in Nat, NEW memory \in BOOLEAN
  PROVE  \E limit \in Nat \ {0} :
           /\ Reserve(s, n, memory) = [s EXCEPT !.ok = Reserve(s, n, memory).ok, !.limit = limit]
           /\ Reserve(s, n, memory).ok \in BOOLEAN
           /\ Len(s.buf) <= limit
           /\ Reserve(s, n, memory).ok => limit - Len(s.buf) >= n
<1>1. /\ s \in EncoderType /\ Len(s.buf) \in Nat /\ s.limit \in Nat \ {0} /\ Len(s.buf) <= s.limit
      /\ s.ok \in BOOLEAN
  BY DEF Bounds, EncoderType
<1>2. CASE s.limit - Len(s.buf) >= n
  <2>1. Reserve(s, n, memory) = s
    BY <1>2 DEF Reserve
  <2>2. s = [s EXCEPT !.ok = s.ok, !.limit = s.limit]
    BY <1>1 DEF EncoderType
  <2> QED
    BY <1>1, <1>2, <2>1, <2>2
<1>3. CASE ~(s.limit - Len(s.buf) >= n)
  <2> DEFINE limit == IF memory THEN Doubled(s.limit, Len(s.buf) + n) ELSE s.limit
  <2>1. Reserve(s, n, memory) = [s EXCEPT !.ok = memory, !.limit = limit]
    BY <1>3, Zenon DEF Reserve
  <2>2. Len(s.buf) + n \in Nat
    BY <1>1
  <2>3. Doubled(s.limit, Len(s.buf) + n) \in Nat \ {0} /\ Doubled(s.limit, Len(s.buf) + n) >= Len(s.buf) + n
    BY <1>1, <2>2, DoubledEnough
  <2>4. limit \in Nat \ {0} /\ Len(s.buf) <= limit /\ (memory => limit - Len(s.buf) >= n)
    BY <1>1, <2>3
  <2> HIDE DEF limit
  <2>5. Reserve(s, n, memory).ok = memory
    BY <1>1, <2>1 DEF EncoderType
  <2> QED
    BY <2>1, <2>4, <2>5
<1> QED
  BY <1>2, <1>3

\* What encode_*() leave: the bytes added, or the rest as it was.
Encodes(s, t, bytes) ==
  /\ Bounds(t) /\ t.out = s.out /\ t.top = s.top /\ t.depth = s.depth
  /\ t.ok => s.ok /\ Adds(s, t, bytes)

LEMMA Wrote ==
  ASSUME NEW s, Bounds(s), NEW n \in Nat, NEW memory \in BOOLEAN,
         NEW bytes \in Seq(Byte), Len(bytes) <= n
  PROVE  Encodes(s, IF ~s.ok THEN s ELSE Write(Reserve(s, n, memory), bytes), bytes)
<1>1. CASE ~s.ok
  BY <1>1 DEF Encodes
<1>2. CASE s.ok
  <2> DEFINE r == Reserve(s, n, memory)
  <2>1. PICK limit \in Nat \ {0} :
          /\ r = [s EXCEPT !.ok = r.ok, !.limit = limit]
          /\ r.ok \in BOOLEAN
          /\ Len(s.buf) <= limit
          /\ r.ok => limit - Len(s.buf) >= n
    BY <1>2, Reserved
  <2> HIDE DEF r
  <2>2. s \in EncoderType /\ ~s.overrun /\ Len(s.segs) <= s.segLimit /\ s.segLimit # 0
    BY DEF Bounds
  <2>3. r \in EncoderType /\ r.limit = limit /\ r.buf = s.buf /\ r.segs = s.segs /\ r.segLimit = s.segLimit
        /\ r.overrun = s.overrun /\ r.top = s.top /\ r.out = s.out /\ r.depth = s.depth /\ r.run = s.run
    BY <2>1, <2>2 DEF EncoderType
  <2>4. CASE ~r.ok
    <3>1. Write(r, bytes) = r
      BY <2>4 DEF Write
    <3>2. Bounds(r)
      BY <2>1, <2>2, <2>3 DEF Bounds
    <3> QED
      BY <1>2, <2>3, <2>4, <3>1, <3>2 DEF Encodes, r
  <2>5. CASE r.ok
    <3> DEFINE t == [r EXCEPT !.buf = r.buf \o bytes,
                              !.overrun = r.overrun \/ Len(r.buf) + Len(bytes) > r.limit]
    <3>1. Write(r, bytes) = t
      BY <2>5, Zenon DEF Write
    <3>2. s.buf \in Seq(Byte) /\ Len(s.buf) \in Nat /\ Len(bytes) \in Nat
      BY <2>2 DEF EncoderType
    <3>3. s.buf \o bytes \in Seq(Byte) /\ Len(s.buf \o bytes) = Len(s.buf) + Len(bytes)
      BY <3>2, ConcatProperties
    <3>4. Len(s.buf) + Len(bytes) <= limit
      BY <2>1, <2>5, <3>2
    <3>5. ~(r.overrun \/ Len(r.buf) + Len(bytes) > r.limit)
      BY <2>2, <2>3, <3>2, <3>4
    <3>6. t = [r EXCEPT !.buf = s.buf \o bytes, !.overrun = FALSE]
      BY <2>3, <3>5
    <3> HIDE DEF t
    <3>7. t \in EncoderType /\ t.buf = s.buf \o bytes /\ t.limit = limit /\ t.segs = s.segs
          /\ t.segLimit = s.segLimit /\ t.overrun = FALSE /\ t.top = s.top /\ t.out = s.out
          /\ t.depth = s.depth /\ t.run = s.run
      BY <2>3, <3>3, <3>6 DEF EncoderType
    <3>8. Bounds(t)
      BY <2>1, <2>2, <3>3, <3>4, <3>7 DEF Bounds
    <3>9. Adds(s, t, bytes)
      BY <2>2, <3>7 DEF Adds
    <3> QED
      BY <1>2, <3>1, <3>7, <3>8, <3>9 DEF Encodes, r
  <2> QED
    BY <2>4, <2>5
<1> QED
  BY <1>1, <1>2

LEMMA BytesEncoded ==
  ASSUME NEW s, Bounds(s), NEW memory \in BOOLEAN, NEW bytes \in Seq(Byte)
  PROVE  Encodes(s, EncodeBytes(s, bytes, memory), bytes)
<1>1. Len(bytes) \in Nat /\ Len(bytes) <= Len(bytes)
  OBVIOUS
<1>2. Encodes(s, IF ~s.ok THEN s ELSE Write(Reserve(s, Len(bytes), memory), bytes), bytes)
  BY <1>1, Wrote
<1> QED
  BY <1>2, Zenon DEF EncodeBytes

LEMMA VarintEncoded ==
  ASSUME NEW s, Bounds(s), NEW memory \in BOOLEAN, NEW bytes \in Seq(Byte), Len(bytes) <= VarintRoom
  PROVE  Encodes(s, EncodeVarint(s, bytes, memory), bytes)
<1>1. VarintRoom \in Nat
  BY EncoderAssumption DEF EncoderAssumption
<1>2. Encodes(s, IF ~s.ok THEN s ELSE Write(Reserve(s, VarintRoom, memory), bytes), bytes)
  BY <1>1, Wrote
<1> QED
  BY <1>2, Zenon DEF EncodeVarint

\* Outside regions the buffer goes to the output at once.
Settled(s, w) == Bounds(s) /\ s.ok /\ Holds(s, w) /\ (s.top = <<>> => s.buf = <<>>)

LEMMA Committed ==
  ASSUME NEW s, NEW w, Bounds(s), s.ok => Holds(s, w)
  PROVE  /\ Bounds(Commit(s)) /\ Commit(s).ok = s.ok
         /\ Commit(s).top = s.top /\ Commit(s).depth = s.depth
         /\ s.ok => Settled(Commit(s), w)
         /\ ~s.ok => Commit(s).out = s.out
<1>1. s \in EncoderType
  BY DEF Bounds
<1>2. CASE s.ok /\ s.top = <<>>
  <2> DEFINE t == [s EXCEPT !.out = s.out \o s.buf, !.buf = <<>>]
  <2>1. Commit(s) = t
    BY <1>2, Zenon DEF Commit
  <2>2. s.out \in Seq(Byte) /\ s.buf \in Seq(Byte)
    BY <1>1 DEF EncoderType
  <2>3. s.out \o s.buf \in Seq(Byte) /\ <<>> \in Seq(Byte) /\ Len(<<>>) = 0
    BY <2>2, ConcatProperties, EmptySeq
  <2>4. t \in EncoderType /\ t.out = s.out \o s.buf /\ t.buf = <<>> /\ t.limit = s.limit /\ t.segs = s.segs
        /\ t.segLimit = s.segLimit /\ t.overrun = s.overrun /\ t.top = s.top /\ t.depth = s.depth /\ t.ok = s.ok
    BY <1>1, <2>3 DEF EncoderType
  <2> HIDE DEF t
  <2>5. Bounds(t)
    <3>1. s.limit \in Nat
      BY <1>1 DEF EncoderType
    <3> QED
      BY <2>3, <2>4, <3>1 DEF Bounds
  <2>6. Holds(s, w)
    BY <1>2
  <2>7. t.out \o t.buf = w[1]
    <3>1. s.out \o s.buf = w[1]
      BY <1>2, <2>6 DEF Holds
    <3>2. (s.out \o s.buf) \o <<>> = s.out \o s.buf
      BY <2>3, ConcatEmptySeq
    <3> QED
      BY <2>4, <3>1, <3>2
  <2>8. Holds(t, w)
    BY <1>2, <2>4, <2>6, <2>7 DEF Holds
  <2> QED
    BY <1>2, <2>1, <2>4, <2>5, <2>8 DEF Settled
<1>3. CASE ~(s.ok /\ s.top = <<>>)
  <2>1. Commit(s) = s
    BY <1>3, Zenon DEF Commit
  <2> QED
    BY <1>3, <2>1 DEF Settled
<1> QED
  BY <1>2, <1>3

-----------------------------------------------------------------------------
(* Regions that begin.                                                      *)

\* What is at hand while a region is open.
InRegion(s, w) == Bounds(s) /\ Holds(s, w) /\ s.top # <<>>

LEMMA RegionTypes ==
  ASSUME NEW s, NEW w, InRegion(s, w)
  PROVE  /\ s \in EncoderType /\ s.buf \in Seq(Byte) /\ s.out \in Seq(Byte)
         /\ s.segs \in Seq(SegmentType) /\ s.top \in Seq(Nat)
         /\ s.run \in Nat /\ Len(s.buf) \in Nat
         /\ Len(s.segs) \in Nat \ {0} /\ Len(s.top) \in Nat \ {0}
         /\ Last(s.top) = s.top[Len(s.top)] /\ Last(s.top) \in 1..Len(s.segs)
         /\ \A r \in 1..Len(s.top) : s.top[r] \in 1..Len(s.segs)
         /\ \A r \in 1..(Len(s.top) - 1) : s.top[r] < Last(s.top)
         /\ w \in Seq(Seq(Byte)) /\ Len(w) = Len(s.top) + 1
<1>1. s \in EncoderType
  BY DEF InRegion, Bounds
<1>2. /\ s.buf \in Seq(Byte) /\ s.out \in Seq(Byte) /\ s.segs \in Seq(SegmentType) /\ s.top \in Seq(Nat)
      /\ s.run \in Nat
  BY <1>1 DEF EncoderType
<1>3. s.top # <<>> /\ TopOK(s) /\ w \in Seq(Seq(Byte)) /\ Len(w) = Len(s.top) + 1
  BY DEF InRegion, Holds
<1>4. Len(s.top) \in Nat \ {0} /\ Len(s.segs) \in Nat /\ Len(s.buf) \in Nat
  BY <1>2, <1>3, EmptySeq
<1>5. Len(s.top) \in 1..Len(s.top) /\ \A r \in 1..(Len(s.top) - 1) : r \in 1..Len(s.top) /\ r < Len(s.top)
  BY <1>4
<1>6. \A r \in 1..Len(s.top) : s.top[r] \in 1..Len(s.segs)
  BY <1>3 DEF TopOK
<1>7. \A r \in 1..(Len(s.top) - 1) : s.top[r] < s.top[Len(s.top)]
  BY <1>3, <1>5 DEF TopOK
<1>8. Len(s.segs) # 0
  BY <1>4, <1>5, <1>6
<1> QED
  BY <1>1, <1>2, <1>3, <1>4, <1>5, <1>6, <1>7, <1>8 DEF Last

\* One field of one segment grows.
SegPlus(q, i, x) == [q EXCEPT ![i].seglen = @ + x]
MsgPlus(q, i, x) == [q EXCEPT ![i].msglen = @ + x]

LEMMA SegmentGrows ==
  ASSUME NEW q \in Seq(SegmentType), NEW i \in 1..Len(q), NEW x \in Nat
  PROVE  /\ SegPlus(q, i, x) \in Seq(SegmentType) /\ Len(SegPlus(q, i, x)) = Len(q)
         /\ MsgPlus(q, i, x) \in Seq(SegmentType) /\ Len(MsgPlus(q, i, x)) = Len(q)
         /\ \A j \in 1..Len(q) :
              /\ SegPlus(q, i, x)[j].msglen = q[j].msglen
              /\ SegPlus(q, i, x)[j].seglen = q[j].seglen + (IF j = i THEN x ELSE 0)
              /\ MsgPlus(q, i, x)[j].seglen = q[j].seglen
              /\ MsgPlus(q, i, x)[j].msglen = q[j].msglen + (IF j = i THEN x ELSE 0)
<1>1. \A j \in 1..Len(q) : q[j] \in SegmentType
  OBVIOUS
<1>2. \A g \in SegmentType :
        /\ g.seglen \in Nat /\ g.msglen \in Nat
        /\ [g EXCEPT !.seglen = @ + x] \in SegmentType /\ [g EXCEPT !.msglen = @ + x] \in SegmentType
        /\ [g EXCEPT !.seglen = @ + x].msglen = g.msglen /\ [g EXCEPT !.seglen = @ + x].seglen = g.seglen + x
        /\ [g EXCEPT !.msglen = @ + x].seglen = g.seglen /\ [g EXCEPT !.msglen = @ + x].msglen = g.msglen + x
  <2> TAKE g \in SegmentType
  <2>1. g = [msglen |-> g.msglen, seglen |-> g.seglen] /\ g.msglen \in Nat /\ g.seglen \in Nat
    BY DEF SegmentType
  <2>2. g.msglen + x \in Nat /\ g.seglen + x \in Nat
    BY <2>1
  <2>3. [g EXCEPT !.seglen = g.seglen + x] = [msglen |-> g.msglen, seglen |-> g.seglen + x]
    BY <2>1
  <2>4. [g EXCEPT !.msglen = g.msglen + x] = [msglen |-> g.msglen + x, seglen |-> g.seglen]
    BY <2>1
  <2> QED
    BY <2>1, <2>2, <2>3, <2>4 DEF SegmentType
<1> DEFINE g == [q[i] EXCEPT !.seglen = @ + x]
           h == [q[i] EXCEPT !.msglen = @ + x]
<1>3. SegPlus(q, i, x) = [q EXCEPT ![i] = g] /\ MsgPlus(q, i, x) = [q EXCEPT ![i] = h]
  BY Zenon DEF SegPlus, MsgPlus
<1>4. /\ g \in SegmentType /\ g.msglen = q[i].msglen /\ g.seglen = q[i].seglen + x
      /\ h \in SegmentType /\ h.seglen = q[i].seglen /\ h.msglen = q[i].msglen + x
  BY <1>1, <1>2
<1> HIDE DEF g, h
<1>5. /\ [q EXCEPT ![i] = g] \in Seq(SegmentType) /\ Len([q EXCEPT ![i] = g]) = Len(q)
      /\ \A j \in 1..Len(q) : [q EXCEPT ![i] = g][j] = IF j = i THEN g ELSE q[j]
  BY <1>4, ExceptSeq
<1>6. /\ [q EXCEPT ![i] = h] \in Seq(SegmentType) /\ Len([q EXCEPT ![i] = h]) = Len(q)
      /\ \A j \in 1..Len(q) : [q EXCEPT ![i] = h][j] = IF j = i THEN h ELSE q[j]
  BY <1>4, ExceptSeq
<1>7. \A j \in 1..Len(q) :
        /\ [q EXCEPT ![i] = g][j].msglen = q[j].msglen
        /\ [q EXCEPT ![i] = g][j].seglen = q[j].seglen + (IF j = i THEN x ELSE 0)
        /\ [q EXCEPT ![i] = h][j].seglen = q[j].seglen
        /\ [q EXCEPT ![i] = h][j].msglen = q[j].msglen + (IF j = i THEN x ELSE 0)
  <2> TAKE j \in 1..Len(q)
  <2>1. q[j].seglen \in Nat /\ q[j].msglen \in Nat
    BY <1>1, <1>2
  <2>2. CASE j = i
    BY <1>4, <1>5, <1>6, <2>2
  <2>3. CASE j # i
    BY <1>5, <1>6, <2>1, <2>3
  <2> QED
    BY <2>2, <2>3
<1> QED
  BY <1>3, <1>5, <1>6, <1>7

\* The run is counted in its segment and its region.
LEMMA Accumulated ==
  ASSUME NEW s, NEW w, InRegion(s, w)
  PROVE  /\ InRegion(Accumulate(s), w)
         /\ Accumulate(s).run = Len(s.buf)
         /\ Accumulate(s) = [s EXCEPT !.segs = Accumulate(s).segs, !.run = Len(s.buf)]
         /\ Len(Accumulate(s).segs) = Len(s.segs)
<1> DEFINE n == Len(s.segs)
           k == Len(s.top)
           run == Len(s.buf) - s.run
           in == [s.segs EXCEPT ![Len(s.segs)].seglen = @ + run]
           q == [in EXCEPT ![Last(s.top)].msglen = @ + run]
           a == [s EXCEPT !.segs = q, !.run = Len(s.buf)]
<1>1. Accumulate(s) = a
  BY Zenon DEF Accumulate
<1>2. /\ s \in EncoderType /\ s.buf \in Seq(Byte) /\ s.out \in Seq(Byte)
      /\ s.segs \in Seq(SegmentType) /\ s.top \in Seq(Nat)
      /\ s.run \in Nat /\ Len(s.buf) \in Nat
      /\ n \in Nat \ {0} /\ k \in Nat \ {0} /\ n \in 1..n /\ k \in 1..k
      /\ Last(s.top) = s.top[k] /\ Last(s.top) \in 1..n
      /\ \A r \in 1..k : s.top[r] \in 1..n
      /\ \A r \in 1..(k - 1) : s.top[r] < Last(s.top)
      /\ w \in Seq(Seq(Byte)) /\ Len(w) = k + 1
  <2>1. n \in Nat \ {0} /\ k \in Nat \ {0}
    BY RegionTypes
  <2>2. n \in 1..n /\ k \in 1..k
    <3> HIDE DEF n, k
    <3> QED
      BY <2>1
  <2> QED
    BY <2>1, <2>2, RegionTypes
<1>00. \A i \in 1..n : i - 1 \in 0..n /\ i - 1 # n /\ i \in 0..n
  OBVIOUS
<1>01. \A r \in 1..(k - 1) : r \in 1..k
  OBVIOUS
<1>3. s.out = w[1] /\ TopOK(s) /\ s.top # <<>>
  BY DEF InRegion, Holds
<1>4. PICK ends, K : IsEnds(s, ends) /\ Content(s, ends, K) /\ Regions(s, w, K)
  BY Zenon DEF InRegion, Holds, Segmented
<1>5. run \in Nat
  <2>1. s.run <= Len(s.buf)
    BY <1>4 DEF IsEnds
  <2> QED
    BY <1>2, <2>1
<1> HIDE DEF run
<1>6. /\ in \in Seq(SegmentType) /\ Len(in) = n
      /\ \A j \in 1..n : /\ in[j].msglen = s.segs[j].msglen
                         /\ in[j].seglen = s.segs[j].seglen + (IF j = n THEN run ELSE 0)
  <2>1. in = SegPlus(s.segs, n, run)
    BY Zenon DEF SegPlus
  <2>2. s.segs \in Seq(SegmentType) /\ n \in 1..Len(s.segs) /\ run \in Nat /\ Len(s.segs) = n
    BY <1>2, <1>5
  <2> HIDE DEF in, n
  <2>3. /\ SegPlus(s.segs, n, run) \in Seq(SegmentType) /\ Len(SegPlus(s.segs, n, run)) = Len(s.segs)
        /\ \A j \in 1..Len(s.segs) :
             /\ SegPlus(s.segs, n, run)[j].msglen = s.segs[j].msglen
             /\ SegPlus(s.segs, n, run)[j].seglen = s.segs[j].seglen + (IF j = n THEN run ELSE 0)
    BY <2>2, SegmentGrows
  <2> QED
    BY <2>1, <2>2, <2>3, Zenon
<1> HIDE DEF in
<1>7. /\ q \in Seq(SegmentType) /\ Len(q) = n
      /\ \A j \in 1..n : /\ q[j].seglen = in[j].seglen
                         /\ q[j].msglen = in[j].msglen + (IF j = Last(s.top) THEN run ELSE 0)
  <2>1. in \in Seq(SegmentType) /\ Last(s.top) \in 1..Len(in) /\ run \in Nat
    BY <1>2, <1>5, <1>6
  <2>2. q = MsgPlus(in, Last(s.top), run)
    BY Zenon DEF MsgPlus
  <2> HIDE DEF q
  <2>3. /\ MsgPlus(in, Last(s.top), run) \in Seq(SegmentType) /\ Len(MsgPlus(in, Last(s.top), run)) = Len(in)
        /\ \A j \in 1..Len(in) :
             /\ MsgPlus(in, Last(s.top), run)[j].seglen = in[j].seglen
             /\ MsgPlus(in, Last(s.top), run)[j].msglen
                  = in[j].msglen + (IF j = Last(s.top) THEN run ELSE 0)
    BY <2>1, SegmentGrows
  <2> QED
    BY <1>6, <2>2, <2>3, Zenon
<1>8. \A j \in 1..n : /\ q[j].seglen = s.segs[j].seglen + (IF j = n THEN run ELSE 0)
                      /\ q[j].msglen = s.segs[j].msglen + (IF j = Last(s.top) THEN run ELSE 0)
  BY <1>6, <1>7
<1> HIDE DEF q
<1>9. /\ a \in EncoderType /\ a.buf = s.buf /\ a.limit = s.limit /\ a.run = Len(s.buf) /\ a.segs = q
      /\ a.segLimit = s.segLimit /\ a.top = s.top /\ a.out = s.out /\ a.overrun = s.overrun
  BY <1>2, <1>7 DEF EncoderType
<1> HIDE DEF a
<1>10. Bounds(a)
  BY <1>2, <1>7, <1>9 DEF Bounds, InRegion
<1>11. \A j \in 1..n : s.segs[j] \in SegmentType /\ s.segs[j].seglen \in Nat /\ s.segs[j].msglen \in Nat
  <2> TAKE j \in 1..n
  <2>1. s.segs[j] \in SegmentType
    BY <1>2
  <2> QED
    BY <2>1 DEF SegmentType
<1> DEFINE e == [ends EXCEPT ![n] = Len(s.buf)]
<1>12. /\ ends \in [0..n -> Nat] /\ ends[0] = 0
       /\ \A i \in 1..n : ends[i] = ends[i - 1] + s.segs[i].seglen
       /\ \A i \in 0..n : ends[i] <= s.run
       /\ ends[n] = s.run /\ s.run <= Len(s.buf)
  BY <1>4 DEF IsEnds
<1>13. e \in [0..n -> Nat] /\ e[n] = Len(s.buf) /\ \A i \in 0..n : i # n => e[i] = ends[i]
  BY <1>2, <1>12
<1> HIDE DEF e
<1>14. IsEnds(a, e)
  <2>1. \A i \in 1..n : e[i] = e[i - 1] + q[i].seglen
    <3> TAKE i \in 1..n
    <3>1. i - 1 \in 0..n /\ i - 1 # n /\ i \in 0..n
      BY <1>00
    <3>2. e[i - 1] = ends[i - 1] /\ ends[i - 1] \in Nat /\ ends[i] = ends[i - 1] + s.segs[i].seglen
      BY <1>12, <1>13, <3>1
    <3>3. CASE i = n
      <4>1. q[n].seglen = s.segs[n].seglen + run
        BY <1>2, <1>8
      <4>2. ends[n - 1] + (s.segs[n].seglen + run) = Len(s.buf)
        <5>1. /\ ends[n - 1] \in Nat /\ s.segs[n].seglen \in Nat /\ s.run \in Nat /\ Len(s.buf) \in Nat
              /\ s.run = ends[n - 1] + s.segs[n].seglen
          BY <1>2, <1>11, <1>12, <3>2, <3>3
        <5> DEFINE x == ends[n - 1]
                   y == s.segs[n].seglen
                   z == Len(s.buf)
        <5> HIDE DEF x, y, z
        <5>2. x \in Nat /\ y \in Nat /\ z \in Nat /\ s.run = x + y
          BY <5>1 DEF x, y, z
        <5>3. x + (y + (z - s.run)) = z
          BY <5>2
        <5> QED
          BY <5>3 DEF x, y, z, run
      <4> QED
        BY <1>13, <3>2, <3>3, <4>1, <4>2
    <3>4. CASE i # n
      BY <1>8, <1>11, <1>13, <3>1, <3>2, <3>4
    <3> QED
      BY <3>3, <3>4
  <2>2. \A i \in 0..n : e[i] <= Len(s.buf)
    <3> TAKE i \in 0..n
    <3>1. CASE i = n
      BY <1>2, <1>13, <3>1
    <3>2. CASE i # n
      <4>1. e[i] = ends[i] /\ ends[i] \in Nat /\ ends[i] <= s.run /\ s.run <= Len(s.buf)
        BY <1>12, <1>13, <3>2
      <4> QED
        BY <1>2, <4>1
    <3> QED
      BY <3>1, <3>2
  <2>3. e[0] = 0
    BY <1>2, <1>12, <1>13
  <2>4. Len(s.buf) <= Len(s.buf)
    BY <1>2
  <2> QED
    BY <1>7, <1>9, <1>13, <2>1, <2>2, <2>3, <2>4 DEF IsEnds
<1>15. \A i \in 1..n : (Opens(a, i) <=> Opens(s, i)) /\ SegmentBytes(a, e, i) = SegmentBytes(s, ends, i)
  <2> TAKE i \in 1..n
  <2>1. Opens(a, i) <=> Opens(s, i)
    BY <1>9 DEF Opens
  <2>2. i - 1 \in 0..n /\ i - 1 # n /\ i \in 0..n
    BY <1>00
  <2>3. e[i - 1] = ends[i - 1] /\ (i # n => e[i] = ends[i])
    BY <1>13, <2>2
  <2> QED
    BY <1>7, <1>9, <2>1, <2>3 DEF SegmentBytes
<1>16. Opens(s, Last(s.top))
  BY <1>2 DEF Opens
<1>17. Content(a, e, K)
  <2>1. /\ K \in [1..n -> Seq(Byte)]
        /\ \A i \in 1..n :
             K[i] = IF Opens(s, i) THEN SegmentBytes(s, ends, i)
                    ELSE K[i - 1] \o (Varint(s.segs[i].msglen) \o SegmentBytes(s, ends, i))
    BY <1>4 DEF Content
  <2>2. \A i \in 1..n : ~Opens(s, i) => q[i].msglen = s.segs[i].msglen
    BY <1>8, <1>11, <1>16
  <2>3. \A i \in 1..n :
          K[i] = IF Opens(a, i) THEN SegmentBytes(a, e, i)
                 ELSE K[i - 1] \o (Varint(q[i].msglen) \o SegmentBytes(a, e, i))
    BY <1>15, <2>1, <2>2
  <2> QED
    BY <1>7, <1>9, <2>1, <2>3 DEF Content
<1>18. Regions(a, w, K)
  <2>1. /\ \A r \in 1..(k - 1) : w[r + 1] = K[s.top[r + 1] - 1] /\ s.segs[s.top[r]].msglen = Len(w[r + 1])
        /\ w[k + 1] = K[n]
        /\ s.segs[s.top[k]].msglen + (Len(s.buf) - s.run) = Len(w[k + 1])
    BY <1>4 DEF Regions
  <2>2. \A r \in 1..(k - 1) : q[s.top[r]].msglen = s.segs[s.top[r]].msglen
    <3> TAKE r \in 1..(k - 1)
    <3>1. r \in 1..k /\ s.top[r] \in 1..n /\ s.top[r] < Last(s.top)
      BY <1>01, <1>2
    <3>2. s.top[r] # Last(s.top)
      <4> DEFINE x == s.top[r]
                 y == Last(s.top)
      <4>1. x \in 1..n /\ x < y
        BY <3>1
      <4> HIDE DEF x, y
      <4>2. x # y
        BY <4>1
      <4> QED
        BY <4>2 DEF x, y
    <3> QED
      BY <1>8, <1>11, <3>1, <3>2
  <2>3. q[s.top[k]].msglen + (Len(s.buf) - Len(s.buf)) = Len(w[k + 1])
    <3>1. q[s.top[k]].msglen = s.segs[s.top[k]].msglen + run
      BY <1>2, <1>8
    <3>2. s.segs[s.top[k]].msglen \in Nat
      BY <1>2, <1>11
    <3> DEFINE m == s.segs[s.top[k]].msglen
               l == Len(s.buf)
    <3>3. m \in Nat /\ l \in Nat /\ s.run \in Nat /\ run = l - s.run /\ m + (l - s.run) = Len(w[k + 1])
      BY <1>2, <2>1, <3>2 DEF run
    <3> HIDE DEF m, l
    <3>4. (m + run) + (l - l) = m + (l - s.run)
      BY <3>3
    <3> QED
      BY <3>1, <3>3, <3>4 DEF m, l
  <2> QED
    BY <1>7, <1>9, <2>1, <2>2, <2>3 DEF Regions
<1>19. TopOK(a) /\ Segmented(a, w)
  <2>1. TopOK(a)
    BY <1>3, <1>7, <1>9 DEF TopOK
  <2> QED
    BY <1>14, <1>17, <1>18, <2>1 DEF Segmented
<1>20. Holds(a, w)
  BY <1>2, <1>3, <1>9, <1>19 DEF Holds
<1>21. a = [s EXCEPT !.segs = a.segs, !.run = Len(s.buf)]
  BY <1>9 DEF a
<1> QED
  BY <1>1, <1>3, <1>7, <1>9, <1>10, <1>20, <1>21 DEF InRegion

LEMMA SegmentHasType == Segment \in SegmentType /\ Segment.msglen = 0 /\ Segment.seglen = 0
BY DEF Segment, SegmentType

\* Outside all others: the buffer is empty, and the first segment begins.
LEMMA FirstRegion ==
  ASSUME NEW s, NEW w, Settled(s, w), s.top = <<>>
  PROVE  Settled([s EXCEPT !.segs = <<Segment>>, !.top = <<1>>, !.run = Len(s.buf)], Append(w, <<>>))
<1> DEFINE t == [s EXCEPT !.segs = <<Segment>>, !.top = <<1>>, !.run = Len(s.buf)]
           v == Append(w, <<>>)
           ends == [i \in 0..1 |-> 0]
           K == [i \in 1..1 |-> <<>>]
<1>1. /\ s \in EncoderType /\ s.buf = <<>> /\ s.ok /\ s.out \o s.buf = w[1] /\ ~s.overrun
      /\ w \in Seq(Seq(Byte)) /\ Len(w) = 1 /\ s.segLimit # 0 /\ s.limit # 0
  <2>1. Len(s.top) + 1 = 1
    OBVIOUS
  <2>2. Len(w) = 1
    BY <2>1 DEF Settled, Holds
  <2> QED
    BY <2>2 DEF Settled, Bounds, Holds
<1>2. s.out \in Seq(Byte) /\ s.segLimit \in Nat /\ s.limit \in Nat /\ Len(<<>>) = 0 /\ <<>> \in Seq(Byte)
  BY <1>1, EmptySeq DEF EncoderType
<1>3. s.out = w[1]
  BY <1>1, <1>2, ConcatEmptySeq
<1>4. /\ t \in EncoderType /\ t.segs = <<Segment>> /\ t.top = <<1>> /\ t.run = 0 /\ t.buf = <<>>
      /\ t.out = s.out /\ t.ok = s.ok /\ t.limit = s.limit /\ t.segLimit = s.segLimit
      /\ t.overrun = s.overrun
  <2>1. <<Segment>> \in Seq(SegmentType) /\ <<1>> \in Seq(Nat)
    BY SegmentHasType
  <2> QED
    BY <1>1, <1>2, <2>1 DEF EncoderType
<1> HIDE DEF t
<1>5. Len(t.segs) = 1 /\ Len(t.top) = 1 /\ t.segs[1] = Segment /\ t.top[1] = 1 /\ t.top # <<>>
  BY <1>4
<1>6. Bounds(t)
  BY <1>1, <1>2, <1>4, <1>5 DEF Bounds
<1>7. /\ v \in Seq(Seq(Byte)) /\ Len(v) = 2 /\ v[1] = w[1] /\ v[2] = <<>>
  <2>1. /\ v \in Seq(Seq(Byte)) /\ Len(v) = Len(w) + 1 /\ v[Len(w) + 1] = <<>>
        /\ \A i \in 1..Len(w) : v[i] = w[i]
    <3>1. w \in Seq(Seq(Byte)) /\ <<>> \in Seq(Byte)
      BY <1>1, <1>2
    <3> QED
      BY <3>1, AppendProperties
  <2> HIDE DEF v
  <2> QED
    BY <1>1, <2>1
<1> HIDE DEF v
<1>8. TopOK(t)
  BY <1>5 DEF TopOK
<1>9. /\ ends \in [0..1 -> Nat] /\ ends[0] = 0 /\ ends[1] = 0
      /\ K \in [1..1 -> Seq(Byte)] /\ K[1] = <<>>
  BY <1>2
<1> HIDE DEF ends, K
<1>10. IsEnds(t, ends)
  <2>1. t.segs[1].seglen = 0 /\ 1 - 1 = 0 /\ 1..1 = {1} /\ 0..1 = {0, 1}
    BY <1>5, SegmentHasType
  <2>2. \A i \in 1..1 : ends[i] = ends[i - 1] + t.segs[i].seglen
    BY <1>9, <2>1
  <2>3. \A i \in 0..1 : ends[i] <= t.run
    BY <1>4, <1>9, <2>1
  <2>4. t.run = 0 /\ Len(t.buf) = 0 /\ 0 <= 0
    BY <1>2, <1>4
  <2> QED
    BY <1>5, <1>9, <2>2, <2>3, <2>4 DEF IsEnds
<1>11. SegmentBytes(t, ends, 1) = <<>>
  <2>1. 1 - 1 = 0 /\ 0 + 1 = 1 /\ Len(t.buf) = 0
    BY <1>2, <1>4
  <2>2. SubSeq(t.buf, 0 + 1, 0) = <<>>
    BY SubSeqToItsBegin
  <2> QED
    BY <1>5, <1>9, <2>1, <2>2 DEF SegmentBytes
<1>12. Content(t, ends, K)
  <2>1. Opens(t, 1)
    BY <1>5 DEF Opens
  <2> QED
    BY <1>5, <1>9, <1>11, <2>1 DEF Content
<1>13. Regions(t, v, K)
  <2>1. t.segs[t.top[1]].msglen = 0 /\ Len(t.buf) = 0 /\ 0 + (0 - 0) = 0
    BY <1>2, <1>4, <1>5, SegmentHasType
  <2>2. 1 - 1 = 0 /\ 1 + 1 = 2 /\ 1..0 = {}
    OBVIOUS
  <2> QED
    BY <1>2, <1>4, <1>5, <1>7, <1>9, <2>1, <2>2 DEF Regions
<1>14. Holds(t, v)
  <2>1. Segmented(t, v)
    BY <1>10, <1>12, <1>13 DEF Segmented
  <2> QED
    BY <1>3, <1>4, <1>5, <1>7, <1>8, <2>1 DEF Holds
<1> QED
  BY <1>1, <1>4, <1>5, <1>6, <1>14 DEF Settled, t, v

\* Inside another: the segments go up to here, and the next one begins.
Opened(a, limit) ==
  [a EXCEPT !.segs = Append(a.segs, Segment), !.top = Append(a.top, Len(a.segs) + 1), !.segLimit = limit]

LEMMA InnerRegion ==
  ASSUME NEW a, NEW w, InRegion(a, w), a.run = Len(a.buf), NEW limit \in Nat, Len(a.segs) + 1 <= limit
  PROVE  /\ InRegion(Opened(a, limit), Append(w, <<>>))
         /\ Opened(a, limit).ok = a.ok /\ Opened(a, limit).depth = a.depth
         /\ Len(Opened(a, limit).top) = Len(a.top) + 1
<1> DEFINE n == Len(a.segs)
           k == Len(a.top)
           t == Opened(a, limit)
           v == Append(w, <<>>)
<1>1. /\ a \in EncoderType /\ a.buf \in Seq(Byte) /\ a.out \in Seq(Byte)
      /\ a.segs \in Seq(SegmentType) /\ a.top \in Seq(Nat)
      /\ a.run \in Nat /\ Len(a.buf) \in Nat
      /\ n \in Nat \ {0} /\ k \in Nat \ {0}
      /\ \A r \in 1..k : a.top[r] \in 1..n
      /\ w \in Seq(Seq(Byte)) /\ Len(w) = k + 1
  BY RegionTypes
<1>0. n \in Nat \ {0} /\ k \in Nat \ {0}
  BY RegionTypes
<1>00. /\ \A i \in 1..(n + 1) : i # n + 1 => i \in 1..n
       /\ \A i \in 0..(n + 1) : i # n + 1 => i \in 0..n
       /\ \A r \in 1..(k + 1) : r # k + 1 => r \in 1..k
       /\ \A r \in 1..k : r \in 1..(k + 1) /\ r + 1 \in 1..(k + 1) /\ (r # k => r \in 1..(k - 1) /\ r + 1 \in 1..k)
       /\ k + 1 \in 1..(k + 1) /\ 1 \in 1..k /\ 1 \in 1..n /\ n \in 1..n /\ n \in 0..n /\ (n + 1) - 1 = n
       /\ k \in 1..k /\ (k + 1) - 1 = k
  BY <1>0
<1>2. a.out = w[1] /\ TopOK(a) /\ a.top # <<>>
  BY DEF InRegion, Holds
<1>3. PICK ends, K : IsEnds(a, ends) /\ Content(a, ends, K) /\ Regions(a, w, K)
  BY Zenon DEF InRegion, Holds, Segmented
<1>4. a.limit \in Nat \ {0} /\ Len(a.buf) <= a.limit /\ ~a.overrun /\ a.ok \in BOOLEAN
  BY DEF InRegion, Bounds, EncoderType
<1>5. /\ Append(a.segs, Segment) \in Seq(SegmentType) /\ Len(Append(a.segs, Segment)) = n + 1
      /\ Append(a.segs, Segment)[n + 1] = Segment
      /\ \A i \in 1..n : Append(a.segs, Segment)[i] = a.segs[i]
  BY <1>1, SegmentHasType, AppendProperties
<1>6. /\ Append(a.top, n + 1) \in Seq(Nat) /\ Len(Append(a.top, n + 1)) = k + 1
      /\ Append(a.top, n + 1)[k + 1] = n + 1
      /\ \A r \in 1..k : Append(a.top, n + 1)[r] = a.top[r]
      /\ Append(a.top, n + 1) # <<>>
  <2>1. a.top \in Seq(Nat) /\ n + 1 \in Nat
    BY <1>0, <1>1
  <2> QED
    BY <2>1, AppendProperties
<1>7. /\ t \in EncoderType /\ t.segs = Append(a.segs, Segment) /\ t.top = Append(a.top, n + 1)
      /\ t.run = a.run /\ t.buf = a.buf /\ t.out = a.out /\ t.ok = a.ok /\ t.depth = a.depth
      /\ t.limit = a.limit /\ t.segLimit = limit /\ t.overrun = a.overrun
  BY <1>1, <1>5, <1>6 DEF EncoderType, Opened
<1> HIDE DEF t
<1>8. /\ Len(t.segs) = n + 1 /\ t.segs[n + 1] = Segment /\ \A i \in 1..n : t.segs[i] = a.segs[i]
      /\ Len(t.top) = k + 1 /\ t.top[k + 1] = n + 1 /\ \A r \in 1..k : t.top[r] = a.top[r]
      /\ t.top # <<>>
  BY <1>5, <1>6, <1>7
<1>9. Bounds(t)
  BY <1>1, <1>4, <1>7, <1>8 DEF Bounds
<1>10. /\ v \in Seq(Seq(Byte)) /\ Len(v) = k + 2 /\ v[k + 2] = <<>> /\ \A r \in 1..(k + 1) : v[r] = w[r]
  <2>1. <<>> \in Seq(Byte)
    BY EmptySeq
  <2>2. /\ v \in Seq(Seq(Byte)) /\ Len(v) = Len(w) + 1 /\ v[Len(w) + 1] = <<>>
        /\ \A i \in 1..Len(w) : v[i] = w[i]
    <3>1. w \in Seq(Seq(Byte))
      BY <1>1
    <3> QED
      BY <2>1, <3>1, AppendProperties
  <2>3. Len(w) = k + 1 /\ (k + 1) + 1 = k + 2
    BY <1>0, <1>1
  <2> HIDE DEF v, k
  <2> QED
    BY <2>2, <2>3
<1> HIDE DEF v
<1>11. TopOK(t)
  <2>0. \A i \in 1..n : i \in 1..(n + 1) /\ i < n + 1
    BY <1>0
  <2>00. n + 1 \in 1..(n + 1)
    BY <1>0
  <2>1. \A r \in 1..(k + 1) : t.top[r] \in 1..(n + 1) /\ (r # k + 1 => r \in 1..k /\ t.top[r] = a.top[r])
    <3> TAKE r \in 1..(k + 1)
    <3>1. CASE r = k + 1
      BY <1>8, <2>00, <3>1
    <3>2. CASE r # k + 1
      <4>1. r \in 1..k
        BY <1>00, <3>2
      <4>2. t.top[r] = a.top[r] /\ a.top[r] \in 1..n
        BY <1>1, <1>8, <4>1
      <4> QED
        BY <2>0, <4>1, <4>2
    <3> QED
      BY <3>1, <3>2
  <2>2. \A q, r \in 1..(k + 1) : q < r => t.top[q] < t.top[r]
    <3> SUFFICES ASSUME NEW q \in 1..(k + 1), NEW r \in 1..(k + 1), q < r
                 PROVE  t.top[q] < t.top[r]
      OBVIOUS
    <3>0. q # k + 1
      BY <1>0
    <3>1. q \in 1..k /\ t.top[q] = a.top[q] /\ a.top[q] \in 1..n
      <4>1. q \in 1..k /\ t.top[q] = a.top[q]
        BY <2>1, <3>0
      <4> QED
        BY <1>1, <4>1
    <3>2. CASE r = k + 1
      <4>1. t.top[r] = n + 1
        BY <1>8, <3>2
      <4> QED
        BY <2>0, <3>1, <4>1
    <3>3. CASE r # k + 1
      BY <1>2, <2>1, <3>1, <3>3 DEF TopOK
    <3> QED
      BY <3>2, <3>3
  <2>3. t.top[1] = 1
    BY <1>00, <1>2, <1>8 DEF TopOK
  <2> QED
    BY <1>8, <2>1, <2>2, <2>3 DEF TopOK
<1> DEFINE e == [i \in 0..(n + 1) |-> IF i = n + 1 THEN Len(a.buf) ELSE ends[i]]
           L == [i \in 1..(n + 1) |-> IF i = n + 1 THEN <<>> ELSE K[i]]
<1>12. /\ ends \in [0..n -> Nat] /\ ends[0] = 0
       /\ \A i \in 1..n : ends[i] = ends[i - 1] + a.segs[i].seglen
       /\ \A i \in 0..n : ends[i] <= a.run
       /\ ends[n] = a.run /\ a.run = Len(a.buf)
  BY <1>3 DEF IsEnds
<1>01. /\ n + 1 \in 0..(n + 1) /\ n + 1 \in 1..(n + 1)
       /\ \A i \in 0..n : i \in 0..(n + 1) /\ i # n + 1
       /\ \A i \in 1..n : i \in 1..(n + 1) /\ i # n + 1
  BY <1>0
<1>13. /\ e \in [0..(n + 1) -> Nat] /\ e[n + 1] = Len(a.buf) /\ \A i \in 0..n : e[i] = ends[i]
  <2>1. Len(a.buf) \in Nat
    BY <1>1
  <2> HIDE DEF n
  <2> QED
    BY <1>00, <1>01, <1>12, <2>1
<1>14. /\ L \in [1..(n + 1) -> Seq(Byte)] /\ L[n + 1] = <<>> /\ \A i \in 1..n : L[i] = K[i]
  <2>1. K \in [1..n -> Seq(Byte)] /\ <<>> \in Seq(Byte)
    BY <1>3, EmptySeq DEF Content
  <2> HIDE DEF n
  <2> QED
    BY <1>00, <1>01, <2>1
<1> HIDE DEF e, L
<1>15. IsEnds(t, e)
  <2>1. \A i \in 1..(n + 1) : e[i] = e[i - 1] + t.segs[i].seglen
    <3> TAKE i \in 1..(n + 1)
    <3>1. CASE i = n + 1
      <4>1. e[n + 1] = Len(a.buf) /\ e[n] = Len(a.buf) /\ (n + 1) - 1 = n
        BY <1>00, <1>12, <1>13
      <4>2. t.segs[n + 1].seglen = 0
        BY <1>8, SegmentHasType
      <4> QED
        BY <1>1, <3>1, <4>1, <4>2
    <3>2. CASE i # n + 1
      <4>1. i \in 1..n
        BY <1>00, <3>2
      <4>2. i - 1 \in 0..n /\ i \in 0..n
        <5>1. n \in Nat
          BY <1>0
        <5> HIDE DEF n
        <5> QED
          BY <4>1, <5>1
      <4> QED
        BY <1>8, <1>12, <1>13, <4>1, <4>2
    <3> QED
      BY <3>1, <3>2
  <2>2. \A i \in 0..(n + 1) : e[i] <= t.run
    <3> TAKE i \in 0..(n + 1)
    <3>1. CASE i = n + 1
      BY <1>1, <1>7, <1>12, <1>13, <3>1
    <3>2. CASE i # n + 1
      <4>1. i \in 0..n
        BY <1>00, <3>2
      <4> QED
        BY <1>7, <1>12, <1>13, <4>1
    <3> QED
      BY <3>1, <3>2
  <2>3. e[0] = 0 /\ e[n + 1] = t.run /\ t.run <= Len(t.buf)
    BY <1>1, <1>7, <1>12, <1>13
  <2> QED
    BY <1>8, <1>13, <2>1, <2>2, <2>3 DEF IsEnds
<1>16. \A i \in 1..n : (Opens(t, i) <=> Opens(a, i)) /\ SegmentBytes(t, e, i) = SegmentBytes(a, ends, i)
  <2> TAKE i \in 1..n
  <2>1. Opens(a, i) => Opens(t, i)
    <3> HAVE Opens(a, i)
    <3>1. PICK r \in 1..k : a.top[r] = i
      BY DEF Opens
    <3>2. r \in 1..(k + 1) /\ t.top[r] = i
      BY <1>00, <1>8, <3>1
    <3> QED
      BY <1>8, <3>2 DEF Opens
  <2>2. Opens(t, i) => Opens(a, i)
    <3> HAVE Opens(t, i)
    <3>1. PICK r \in 1..(k + 1) : t.top[r] = i
      BY <1>8 DEF Opens
    <3>2. r # k + 1
      <4>1. n + 1 \notin 1..n
        BY <1>0
      <4> QED
        BY <1>8, <3>1, <4>1
    <3>3. r \in 1..k
      BY <1>00, <3>2
    <3> QED
      BY <1>8, <3>1, <3>3 DEF Opens
  <2>3. i - 1 \in 0..n /\ i \in 0..n /\ i # n + 1
    BY <1>1
  <2>4. e[i - 1] = ends[i - 1] /\ e[i] = ends[i] /\ (i = n => e[i] = Len(a.buf))
    BY <1>12, <1>13, <2>3
  <2>5. SegmentBytes(t, e, i) = SegmentBytes(a, ends, i)
    BY <1>7, <1>8, <2>3, <2>4 DEF SegmentBytes
  <2> QED
    BY <2>1, <2>2, <2>5
<1>17. Content(t, e, L)
  <2>1. ASSUME NEW i \in 1..(n + 1)
        PROVE  L[i] = IF Opens(t, i) THEN SegmentBytes(t, e, i)
                      ELSE L[i - 1] \o (Varint(t.segs[i].msglen) \o SegmentBytes(t, e, i))
    <3>1. CASE i = n + 1
      <4>1. k + 1 \in 1..(k + 1)
        BY <1>1
      <4>2. Opens(t, i)
        BY <1>8, <3>1, <4>1 DEF Opens
      <4>3. (n + 1) - 1 = n /\ n \in 0..n
        BY <1>1
      <4>4. e[i - 1] = Len(a.buf)
        BY <1>12, <1>13, <3>1, <4>3
      <4>5. SubSeq(a.buf, Len(a.buf) + 1, Len(a.buf)) = <<>>
        BY <1>1, SubSeqToItsBegin
      <4>6. SegmentBytes(t, e, i) = <<>>
        BY <1>7, <1>8, <3>1, <4>4, <4>5 DEF SegmentBytes
      <4> QED
        BY <1>14, <3>1, <4>2, <4>6
    <3>2. CASE i # n + 1
      <4>1. i \in 1..n
        BY <1>00, <3>2
      <4>2. K[i] = IF Opens(a, i) THEN SegmentBytes(a, ends, i)
                   ELSE K[i - 1] \o (Varint(a.segs[i].msglen) \o SegmentBytes(a, ends, i))
        BY <1>3, <4>1 DEF Content
      <4>3. ~Opens(a, i) => i - 1 \in 1..n
        <5>1. Opens(a, 1)
          BY <1>00, <1>2 DEF Opens, TopOK
        <5> QED
          BY <4>1, <5>1
      <4> QED
        BY <1>8, <1>14, <1>16, <4>1, <4>2, <4>3
    <3> QED
      BY <3>1, <3>2
  <2> QED
    BY <1>8, <1>14, <2>1 DEF Content
<1>18. Regions(t, v, L)
  <2>1. /\ \A r \in 1..(k - 1) : w[r + 1] = K[a.top[r + 1] - 1] /\ a.segs[a.top[r]].msglen = Len(w[r + 1])
        /\ w[k + 1] = K[n]
        /\ a.segs[a.top[k]].msglen + (Len(a.buf) - a.run) = Len(w[k + 1])
    BY <1>3 DEF Regions
  <2>2. ASSUME NEW r \in 1..k
        PROVE  v[r + 1] = L[t.top[r + 1] - 1] /\ t.segs[t.top[r]].msglen = Len(v[r + 1])
    <3>1. /\ r \in 1..k /\ r + 1 \in 1..(k + 1) /\ v[r + 1] = w[r + 1]
          /\ t.top[r] = a.top[r] /\ a.top[r] \in 1..n
      <4>1. r + 1 \in 1..(k + 1)
        BY <1>00
      <4>2. v[r + 1] = w[r + 1]
        BY <1>10, <4>1
      <4> QED
        BY <1>1, <1>8, <4>1, <4>2
    <3>2. t.segs[t.top[r]] = a.segs[a.top[r]]
      BY <1>8, <3>1
    <3>3. CASE r = k
      <4>1. t.top[r + 1] - 1 = n /\ n \in 1..n
        BY <1>00, <1>8, <3>3
      <4>2. a.segs[a.top[k]].msglen = Len(w[k + 1])
        <5>1. a.segs[a.top[k]] \in SegmentType
          <6>1. a.top[k] \in 1..n /\ a.segs \in Seq(SegmentType)
            BY <1>1, <3>1, <3>3
          <6> QED
            BY <6>1, ElementOfSeq
        <5>2. a.segs[a.top[k]].msglen \in Nat
          BY <5>1 DEF SegmentType
        <5>3. Len(a.buf) - a.run = 0
          BY <1>1, <1>12
        <5> QED
          BY <2>1, <5>2, <5>3
      <4> QED
        BY <1>14, <2>1, <3>1, <3>2, <3>3, <4>1, <4>2
    <3>4. CASE r # k
      <4>1. r \in 1..(k - 1) /\ r + 1 \in 1..k
        BY <1>00, <3>4
      <4>2. a.top[r] < a.top[r + 1] /\ a.top[r + 1] \in 1..n /\ t.top[r + 1] = a.top[r + 1]
        <5>1. a.top[r + 1] \in 1..n /\ t.top[r + 1] = a.top[r + 1]
          BY <1>1, <1>8, <4>1
        <5>2. r < r + 1
          OBVIOUS
        <5>3. a.top[r] < a.top[r + 1]
          BY <1>2, <3>1, <4>1, <5>2 DEF TopOK
        <5> QED
          BY <5>1, <5>3
      <4>3. a.top[r + 1] - 1 \in 1..n
        <5> DEFINE x == a.top[r]
                   y == a.top[r + 1]
        <5>1. x \in 1..n /\ y \in 1..n /\ x < y /\ n \in Nat
          BY <1>1, <3>1, <4>2
        <5> HIDE DEF x, y, n
        <5>2. y - 1 \in 1..n
          BY <5>1
        <5> QED
          BY <5>2 DEF y
      <4> QED
        BY <1>14, <2>1, <3>1, <3>2, <4>1, <4>2, <4>3
    <3> QED
      BY <3>3, <3>4
  <2>3. v[(k + 1) + 1] = L[n + 1]
    BY <1>1, <1>10, <1>14
  <2>4. t.segs[t.top[k + 1]].msglen + (Len(t.buf) - t.run) = Len(v[(k + 1) + 1])
    <3>1. t.segs[t.top[k + 1]].msglen = 0
      BY <1>8, SegmentHasType
    <3>2. Len(t.buf) - t.run = 0
      BY <1>1, <1>7, <1>12
    <3>3. Len(v[(k + 1) + 1]) = 0
      BY <1>14, <2>3, EmptySeq
    <3> QED
      BY <3>1, <3>2, <3>3
  <2>5. (k + 1) - 1 = k
    BY <1>1
  <2> QED
    BY <1>8, <2>2, <2>3, <2>4, <2>5 DEF Regions
<1>19. Holds(t, v)
  <2>1. Segmented(t, v)
    BY <1>15, <1>17, <1>18 DEF Segmented
  <2>2. Len(v) = Len(t.top) + 1 /\ t.out = v[1]
    BY <1>1, <1>2, <1>7, <1>8, <1>10
  <2> QED
    BY <1>8, <1>10, <1>11, <2>1, <2>2 DEF Holds
<1> QED
  BY <1>7, <1>8, <1>9, <1>19 DEF InRegion, t, v

\* start_delim().
LEMMA Started ==
  ASSUME NEW s, NEW w, Settled(s, w), NEW memory \in BOOLEAN
  PROVE  /\ Bounds(StartDelim(s, memory)) /\ StartDelim(s, memory).depth = s.depth
         /\ StartDelim(s, memory).ok => /\ Settled(StartDelim(s, memory), Append(w, <<>>))
                                        /\ Len(StartDelim(s, memory).top) = Len(s.top) + 1
         /\ ~StartDelim(s, memory).ok => StartDelim(s, memory).out = s.out
<1>1. s \in EncoderType /\ s.ok
  BY DEF Settled, Bounds
<1>2. CASE s.top = <<>>
  <2> DEFINE t == [s EXCEPT !.segs = <<Segment>>, !.top = <<1>>, !.run = Len(s.buf)]
  <2>1. StartDelim(s, memory) = t
    BY <1>1, <1>2, Zenon DEF StartDelim
  <2>2. Settled(t, Append(w, <<>>))
    BY <1>2, FirstRegion
  <2>3. t.depth = s.depth /\ t.top = <<1>>
    BY <1>1 DEF EncoderType
  <2>4. Len(<<1>>) = Len(<<>>) + 1
    OBVIOUS
  <2> HIDE DEF t
  <2>5. Bounds(t) /\ t.ok
    BY <2>2 DEF Settled
  <2> QED
    BY <1>2, <2>1, <2>2, <2>3, <2>4, <2>5
<1>3. CASE s.top # <<>>
  <2> DEFINE a == Accumulate(s)
             full == Len(a.segs) = a.segLimit
  <2>1. InRegion(s, w)
    BY <1>3 DEF InRegion, Settled
  <2>2. /\ InRegion(a, w) /\ a.run = Len(s.buf) /\ a = [s EXCEPT !.segs = a.segs, !.run = Len(s.buf)]
        /\ Len(a.segs) = Len(s.segs)
    BY <2>1, Accumulated
  <2> HIDE DEF a
  <2>3. a.buf = s.buf /\ a.top = s.top /\ a.out = s.out /\ a.depth = s.depth /\ a.ok = s.ok
    BY <1>1, <2>2 DEF EncoderType
  <2>4. a \in EncoderType /\ Len(a.segs) \in Nat
    BY <2>2, RegionTypes
  <2>5. CASE Len(a.top) = StackSize \/ (full /\ ~memory)
    <3> DEFINE t == [a EXCEPT !.ok = FALSE]
    <3>1. StartDelim(s, memory) = t
      BY <1>1, <1>3, <2>5, Zenon DEF StartDelim, a
    <3>2. t \in EncoderType /\ t.buf = a.buf /\ t.limit = a.limit /\ t.segs = a.segs /\ t.segLimit = a.segLimit
          /\ t.overrun = a.overrun /\ t.depth = a.depth /\ t.ok = FALSE /\ t.out = a.out
      BY <2>4 DEF EncoderType
    <3> HIDE DEF t
    <3>3. Bounds(t)
      BY <2>2, <3>2 DEF Bounds, InRegion
    <3> QED
      BY <2>3, <3>1, <3>2, <3>3
  <2>6. CASE ~(Len(a.top) = StackSize \/ (full /\ ~memory))
    <3> DEFINE limit == IF full THEN 2 * a.segLimit ELSE a.segLimit
    <3>1. StartDelim(s, memory) = Opened(a, limit)
      BY <1>1, <1>3, <2>6, Zenon DEF StartDelim, a, Opened
    <3>2. limit \in Nat /\ Len(a.segs) + 1 <= limit
      <4>1. a.segLimit \in Nat /\ Len(a.segs) <= a.segLimit /\ a.segLimit # 0
        BY <2>2, <2>4 DEF Bounds, InRegion, EncoderType
      <4> QED
        BY <2>4, <4>1
    <3> HIDE DEF limit
    <3>3. /\ InRegion(Opened(a, limit), Append(w, <<>>))
          /\ Opened(a, limit).ok = a.ok /\ Opened(a, limit).depth = a.depth
          /\ Len(Opened(a, limit).top) = Len(a.top) + 1
      BY <2>2, <2>3, <3>2, InnerRegion
    <3> QED
      BY <1>1, <2>3, <3>1, <3>3 DEF InRegion, Settled
  <2> QED
    BY <2>5, <2>6
<1> QED
  BY <1>2, <1>3

-----------------------------------------------------------------------------
(* Regions that end.                                                        *)

\* What is wanted when the innermost region ends: its length and its bytes.
Closed(w) ==
  LET inner == Last(w)
      outer == Front(w)
  IN [outer EXCEPT ![Len(outer)] = @ \o Varint(Len(inner)) \o inner]

LEMMA ClosedType ==
  ASSUME NEW w \in Seq(Seq(Byte)), NEW k \in Nat \ {0}, Len(w) = k + 1
  PROVE  /\ Closed(w) \in Seq(Seq(Byte)) /\ Len(Closed(w)) = k
         /\ Closed(w)[k] = (w[k] \o Varint(Len(w[k + 1]))) \o w[k + 1]
         /\ \A r \in 1..(k - 1) : Closed(w)[r] = w[r]
         /\ w[k] \in Seq(Byte) /\ w[k + 1] \in Seq(Byte)
         /\ Len(w[k + 1]) \in Nat /\ Varint(Len(w[k + 1])) \in Seq(Byte)
<1>0. (k + 1) - 1 = k /\ k \in 1..k /\ k \in 1..(k + 1) /\ k + 1 \in 1..(k + 1)
      /\ \A r \in 1..(k - 1) : r \in 1..k /\ r # k
  OBVIOUS
<1>1. w # <<>>
  BY EmptySeq
<1>2. /\ Front(w) \in Seq(Seq(Byte)) /\ Len(Front(w)) = Len(w) - 1
      /\ \A i \in 1..(Len(w) - 1) : Front(w)[i] = w[i]
      /\ Last(w) = w[Len(w)]
  BY <1>1, FrontProperties
<1>3. /\ Front(w) \in Seq(Seq(Byte)) /\ Len(Front(w)) = k
      /\ \A i \in 1..k : Front(w)[i] = w[i]
      /\ Last(w) = w[k + 1]
  BY <1>0, <1>2
<1>4. w[k] \in Seq(Byte) /\ w[k + 1] \in Seq(Byte)
  BY <1>0, ElementOfSeq
<1>5. Len(w[k + 1]) \in Nat
  BY <1>4, LenProperties
<1>6. Varint(Len(w[k + 1])) \in Seq(Byte)
  BY <1>5, VarintType
<1> DEFINE x == (w[k] \o Varint(Len(w[k + 1]))) \o w[k + 1]
<1>7. x \in Seq(Byte)
  BY <1>4, <1>6, ConcatProperties
<1>8. Closed(w) = [Front(w) EXCEPT ![k] = x]
  <2>1. Closed(w) = [Front(w) EXCEPT ![Len(Front(w))] =
                       (Front(w)[Len(Front(w))] \o Varint(Len(Last(w)))) \o Last(w)]
    BY Zenon DEF Closed
  <2>2. Front(w)[k] = w[k]
    BY <1>0, <1>3
  <2> QED
    BY <1>3, <2>1, <2>2, Zenon
<1> HIDE DEF x
<1>9. /\ Closed(w) \in Seq(Seq(Byte)) /\ Len(Closed(w)) = k
      /\ \A j \in 1..k : Closed(w)[j] = IF j = k THEN x ELSE Front(w)[j]
  <2>1. Front(w) \in Seq(Seq(Byte)) /\ k \in 1..Len(Front(w)) /\ Len(Front(w)) = k
    BY <1>0, <1>3
  <2>2. /\ [Front(w) EXCEPT ![k] = x] \in Seq(Seq(Byte)) /\ Len([Front(w) EXCEPT ![k] = x]) = Len(Front(w))
        /\ \A j \in 1..Len(Front(w)) : [Front(w) EXCEPT ![k] = x][j] = IF j = k THEN x ELSE Front(w)[j]
    BY <1>7, <2>1, ExceptSeq
  <2> QED
    BY <1>8, <2>1, <2>2, Zenon
<1>10. Closed(w)[k] = x /\ \A r \in 1..(k - 1) : Closed(w)[r] = w[r]
  BY <1>0, <1>3, <1>9
<1> QED
  BY <1>4, <1>5, <1>6, <1>9, <1>10 DEF x

\* Where there is a region around it, that one takes the length and the bytes.
LEMMA OuterIs ==
  ASSUME NEW a \in EncoderType, a.top # <<>>, NEW j, j = Last(Front(a.top)), j \in 1..Len(a.segs), NEW m \in Nat
  PROVE  /\ Len(Varint(m)) \in Nat
         /\ Outer(a, m) =
              [a EXCEPT !.top = Front(a.top), !.segs = MsgPlus(a.segs, j, m + Len(Varint(m)))]
<1>1. Len(Varint(m)) \in Nat
  BY VarintType, LenProperties
<1> DEFINE q == a.segs
           t == [a EXCEPT !.top = Front(a.top)]
           x == Len(Varint(m))
<1>2. q \in Seq(SegmentType)
  BY DEF EncoderType
<1>3. q[j] \in SegmentType
  BY <1>2, ElementOfSeq
<1>4. q[j].msglen \in Nat
  BY <1>3 DEF SegmentType
<1>5. (q[j].msglen + m) + x = q[j].msglen + (m + x)
  BY <1>1, <1>4
<1>6. MsgPlus(q, j, m + x) = [q EXCEPT ![j] = [q[j] EXCEPT !.msglen = q[j].msglen + (m + x)]]
  BY Zenon DEF MsgPlus
<1>7. Outer(a, m) = [t EXCEPT !.segs[Last(t.top)].msglen = @ + m + x]
  BY Zenon DEF Outer
<1>8. t.top = Front(a.top) /\ t.segs = q
  BY DEF EncoderType
<1>9. Outer(a, m) =
        [t EXCEPT !.segs = [t.segs EXCEPT ![Last(t.top)] =
           [t.segs[Last(t.top)] EXCEPT !.msglen = (t.segs[Last(t.top)].msglen + m) + x]]]
  BY <1>7, Zenon
<1> HIDE DEF t
<1>10. Outer(a, m) = [t EXCEPT !.segs = [q EXCEPT ![j] = [q[j] EXCEPT !.msglen = (q[j].msglen + m) + x]]]
  BY <1>8, <1>9, Zenon
<1>11. Outer(a, m) = [t EXCEPT !.segs = MsgPlus(q, j, m + x)]
  BY <1>5, <1>6, <1>10, Zenon
<1> QED
  BY <1>1, <1>11, Zenon DEF t

\* What was put since the region around began, and what follows it.
LEMMA InnerEnds ==
  ASSUME NEW a, NEW w, InRegion(a, w), a.run = Len(a.buf), Len(a.top) # 1
  PROVE  /\ InRegion(Outer(a, a.segs[Last(a.top)].msglen), Closed(w))
         /\ Outer(a, a.segs[Last(a.top)].msglen).ok = a.ok
         /\ Outer(a, a.segs[Last(a.top)].msglen).depth = a.depth
         /\ Len(Outer(a, a.segs[Last(a.top)].msglen).top) = Len(a.top) - 1
<1> DEFINE n == Len(a.segs)
           k == Len(a.top) - 1
           b == Last(a.top)
           m == a.segs[b].msglen
           j == Last(Front(a.top))
           len == Varint(m)
           x == m + Len(len)
           t == Outer(a, m)
           v == Closed(w)
<1>1. /\ a \in EncoderType /\ a.buf \in Seq(Byte) /\ a.out \in Seq(Byte)
      /\ a.segs \in Seq(SegmentType) /\ a.top \in Seq(Nat)
      /\ a.run \in Nat /\ Len(a.buf) \in Nat
      /\ Last(a.top) = a.top[Len(a.top)] /\ b \in 1..n
      /\ \A r \in 1..Len(a.top) : a.top[r] \in 1..n
      /\ w \in Seq(Seq(Byte)) /\ Len(w) = Len(a.top) + 1
  BY RegionTypes
<1>2. n \in Nat \ {0} /\ k \in Nat \ {0} /\ Len(a.top) = k + 1 /\ Len(w) = k + 2
  <2>1. n \in Nat \ {0} /\ Len(a.top) \in Nat \ {0} /\ Len(w) = Len(a.top) + 1
    BY RegionTypes
  <2> QED
    BY <2>1
<1>3. a.out = w[1] /\ TopOK(a) /\ a.top # <<>>
  BY DEF InRegion, Holds
<1>4. PICK ends, K : IsEnds(a, ends) /\ Content(a, ends, K) /\ Regions(a, w, K)
  BY Zenon DEF InRegion, Holds, Segmented
<1>5. a.limit \in Nat \ {0} /\ Len(a.buf) <= a.limit /\ ~a.overrun /\ a.ok \in BOOLEAN
      /\ a.segLimit \in Nat \ {0} /\ n <= a.segLimit
  BY DEF InRegion, Bounds, EncoderType
<1>6. /\ k \in 1..k /\ k \in 1..(k + 1) /\ k + 1 \in 1..(k + 1) /\ (k + 1) - 1 = k /\ k < k + 1
      /\ \A r \in 1..k : r \in 1..(k + 1) /\ r < k + 1
      /\ \A r \in 1..(k - 1) : r \in 1..k /\ r + 1 \in 1..k /\ r + 1 \in 2..k /\ r < k
      /\ 1 \in 1..k /\ 1 \in 1..n /\ n \in 1..n
  <2>0. k \in Nat \ {0} /\ n \in Nat \ {0}
    BY <1>2
  <2> HIDE DEF k, n
  <2>1. k \in 1..k /\ k \in 1..(k + 1) /\ k + 1 \in 1..(k + 1) /\ (k + 1) - 1 = k /\ k < k + 1
    BY <2>0
  <2>2. \A r \in 1..k : r \in 1..(k + 1) /\ r < k + 1
    BY <2>0
  <2>3. \A r \in 1..(k - 1) : r \in 1..k /\ r + 1 \in 1..k /\ r + 1 \in 2..k /\ r < k
    BY <2>0
  <2>4. 1 \in 1..k /\ 1 \in 1..n /\ n \in 1..n
    BY <2>0
  <2> QED
    BY <2>1, <2>2, <2>3, <2>4
<1>7. /\ \A r \in 1..k : w[r + 1] = K[a.top[r + 1] - 1] /\ a.segs[a.top[r]].msglen = Len(w[r + 1])
      /\ w[k + 2] = K[n] /\ a.segs[a.top[k + 1]].msglen + (Len(a.buf) - a.run) = Len(w[k + 2])
  <2>1. (k + 1) + 1 = k + 2
    BY <1>2
  <2> HIDE DEF k
  <2> QED
    BY <1>2, <1>4, <1>6, <2>1 DEF Regions
<1>8. \A i \in 1..n : a.segs[i] \in SegmentType /\ a.segs[i].msglen \in Nat /\ a.segs[i].seglen \in Nat
  <2> TAKE i \in 1..n
  <2>1. a.segs[i] \in SegmentType
    BY <1>1
  <2> QED
    BY <2>1 DEF SegmentType
<1>9. b = a.top[k + 1] /\ m \in Nat /\ m = Len(w[k + 2])
  <2>1. b = a.top[k + 1]
    BY <1>1, <1>2
  <2>2. a.segs[a.top[k + 1]].msglen + 0 = Len(w[k + 2])
    <3>1. Len(a.buf) - a.run = 0
      BY <1>1
    <3> QED
      BY <1>7, <3>1
  <2>3. m \in Nat
    BY <1>1, <1>8
  <2>4. m + 0 = Len(w[k + 2])
    BY <2>1, <2>2
  <2> HIDE DEF m, b
  <2> QED
    BY <2>1, <2>3, <2>4
<1>10. /\ Front(a.top) \in Seq(Nat) /\ Len(Front(a.top)) = k
       /\ \A r \in 1..k : Front(a.top)[r] = a.top[r]
       /\ j = a.top[k] /\ j \in 1..n /\ j < b
  <2>1. /\ Front(a.top) \in Seq(Nat) /\ Len(Front(a.top)) = k
        /\ \A r \in 1..k : Front(a.top)[r] = a.top[r]
    BY <1>1, <1>2, <1>3, FrontProperties
  <2>2. j = a.top[k]
    BY <1>6, <2>1 DEF Last
  <2>3. a.top[k] \in 1..n
    BY <1>1, <1>2, <1>6
  <2>4. a.top[k] < a.top[k + 1]
    BY <1>2, <1>3, <1>6 DEF TopOK
  <2> QED
    BY <1>9, <2>1, <2>2, <2>3, <2>4
<1>11. len \in Seq(Byte) /\ Len(len) \in Nat /\ x \in Nat
  <2>1. m \in Nat
    BY <1>9
  <2> HIDE DEF m
  <2>2. len \in Seq(Byte)
    BY <2>1, VarintType
  <2>3. Len(len) \in Nat
    BY <2>2, LenProperties
  <2> HIDE DEF len
  <2> QED
    BY <2>1, <2>2, <2>3
<1>12. t = [a EXCEPT !.top = Front(a.top), !.segs = MsgPlus(a.segs, j, x)]
  BY <1>1, <1>3, <1>9, <1>10, OuterIs
<1> DEFINE sg == MsgPlus(a.segs, j, x)
<1>13. /\ sg \in Seq(SegmentType) /\ Len(sg) = n
       /\ \A i \in 1..n : /\ sg[i].seglen = a.segs[i].seglen
                          /\ sg[i].msglen = a.segs[i].msglen + (IF i = j THEN x ELSE 0)
  <2>1. a.segs \in Seq(SegmentType) /\ j \in 1..Len(a.segs) /\ x \in Nat
    BY <1>1, <1>10, <1>11
  <2> HIDE DEF x, j
  <2> QED
    BY <2>1, SegmentGrows
<1> HIDE DEF sg, t
<1>14. /\ t \in EncoderType /\ t.segs = sg /\ t.top = Front(a.top)
       /\ t.run = a.run /\ t.buf = a.buf /\ t.out = a.out /\ t.ok = a.ok /\ t.depth = a.depth
       /\ t.limit = a.limit /\ t.segLimit = a.segLimit /\ t.overrun = a.overrun
  BY <1>1, <1>10, <1>12, <1>13 DEF EncoderType, sg
<1>15. /\ Len(t.segs) = n /\ Len(t.top) = k /\ t.top # <<>>
       /\ \A i \in 1..n : /\ t.segs[i].seglen = a.segs[i].seglen
                          /\ i # j => t.segs[i].msglen = a.segs[i].msglen
       /\ t.segs[j].msglen = a.segs[j].msglen + x
       /\ \A r \in 1..k : t.top[r] = a.top[r]
  <2>1. t.top # <<>>
    BY <1>2, <1>10, <1>14, EmptySeq
  <2>2. \A i \in 1..n : i # j => t.segs[i].msglen = a.segs[i].msglen
    <3> TAKE i \in 1..n
    <3> HAVE i # j
    <3>1. sg[i].msglen = a.segs[i].msglen + 0
      BY <1>13
    <3>2. a.segs[i].msglen \in Nat
      BY <1>8
    <3> QED
      BY <1>14, <3>1, <3>2
  <2>3. t.segs[j].msglen = a.segs[j].msglen + x
    <3> HIDE DEF x, j
    <3> QED
      BY <1>10, <1>13, <1>14
  <2>4. \A i \in 1..n : t.segs[i].seglen = a.segs[i].seglen
    BY <1>13, <1>14
  <2>5. Len(t.segs) = n /\ Len(t.top) = k /\ \A r \in 1..k : t.top[r] = a.top[r]
    BY <1>10, <1>13, <1>14
  <2> HIDE DEF x, j, n, k
  <2> QED
    BY <2>1, <2>2, <2>3, <2>4, <2>5
<1>16. Bounds(t)
  BY <1>1, <1>5, <1>14, <1>15 DEF Bounds
<1>17. /\ v \in Seq(Seq(Byte)) /\ Len(v) = k + 1
       /\ v[k + 1] = (w[k + 1] \o len) \o w[k + 2]
       /\ \A r \in 1..k : v[r] = w[r]
       /\ w[k + 1] \in Seq(Byte) /\ w[k + 2] \in Seq(Byte)
  <2>1. k + 1 \in Nat \ {0} /\ (k + 1) + 1 = k + 2 /\ (k + 1) - 1 = k /\ Len(w) = (k + 1) + 1
    BY <1>2
  <2> DEFINE l == k + 1
  <2>2. l \in Nat \ {0} /\ l + 1 = k + 2 /\ l - 1 = k /\ Len(w) = l + 1
    BY <2>1
  <2> HIDE DEF v, k, l
  <2>3. /\ v \in Seq(Seq(Byte)) /\ Len(v) = l
        /\ v[l] = (w[l] \o Varint(Len(w[l + 1]))) \o w[l + 1]
        /\ \A r \in 1..(l - 1) : v[r] = w[r]
        /\ w[l] \in Seq(Byte) /\ w[l + 1] \in Seq(Byte)
    BY <1>1, <2>2, ClosedType DEF v
  <2> QED
    BY <1>9, <2>2, <2>3 DEF l
<1> HIDE DEF v
<1>18. TopOK(t)
  <2>1. t.top[1] = 1 /\ \A r \in 1..k : t.top[r] \in 1..n
    BY <1>1, <1>2, <1>3, <1>6, <1>15 DEF TopOK
  <2>2. \A p, r \in 1..k : p < r => t.top[p] < t.top[r]
    BY <1>2, <1>3, <1>6, <1>15 DEF TopOK
  <2> QED
    BY <1>15, <2>1, <2>2 DEF TopOK
<1>19. IsEnds(t, ends)
  BY <1>4, <1>14, <1>15 DEF IsEnds
<1>20. \A i \in 1..n : SegmentBytes(t, ends, i) = SegmentBytes(a, ends, i)
  BY <1>14, <1>15 DEF SegmentBytes
<1>21. /\ \A i \in 1..n : i < b => (Opens(t, i) <=> Opens(a, i))
       /\ \A i \in 1..n : ~(i < b) => ~Opens(t, i)
       /\ \A i \in 1..n : i > b => ~Opens(a, i)
       /\ Opens(a, b) /\ Opens(a, 1) /\ b # 1 /\ Opens(a, j)
  <2>1. \A r \in 1..k : a.top[r] < b
    BY <1>2, <1>3, <1>6, <1>9 DEF TopOK
  <2>2. \A r \in 1..(k + 1) : r # k + 1 => r \in 1..k
    BY <1>2
  <2>3. \A i \in 1..n : Opens(t, i) <=> \E r \in 1..k : a.top[r] = i
    BY <1>15 DEF Opens
  <2>4. \A i \in 1..n : Opens(a, i) <=> i = b \/ \E r \in 1..k : a.top[r] = i
    BY <1>2, <1>6, <1>9, <2>2 DEF Opens
  <2>5. \A i \in 1..n : i < b => i # b
    BY <1>1
  <2>6. \A i \in 1..n : i > b => i # b /\ ~(i < b)
    BY <1>1
  <2>7. a.top[1] = 1 /\ a.top[1] < b
    BY <1>3, <1>6, <2>1 DEF TopOK
  <2>8. b \in 1..n /\ j \in 1..n /\ j = a.top[k] /\ k \in 1..k /\ 1 \in 1..n /\ 1 \in 1..k
    BY <1>1, <1>6, <1>10
  <2>9. \A i \in 1..n : ~(i < b) => i = b \/ i > b
    <3>1. b \in 1..n
      BY <1>1
    <3> HIDE DEF b
    <3> QED
      BY <3>1
  <2>10. b # 1 /\ ~(b < b)
    <3>1. b \in 1..n
      BY <1>1
    <3> QED
      BY <2>7, <3>1
  <2> DEFINE P(i) == \E r \in 1..k : a.top[r] = i
  <2>11. \A i \in 1..n : P(i) => i < b
    BY <2>1
  <2>12. P(1) /\ P(j)
    BY <2>7, <2>8
  <2>13. \A i \in 1..n : (Opens(t, i) <=> P(i)) /\ (Opens(a, i) <=> i = b \/ P(i))
    BY <2>3, <2>4
  <2> HIDE DEF P, b, j, n, k
  <2>14. \A i \in 1..n : i < b => (Opens(t, i) <=> Opens(a, i))
    BY <2>5, <2>13
  <2>15. \A i \in 1..n : ~(i < b) => ~Opens(t, i)
    BY <2>11, <2>13
  <2>16. \A i \in 1..n : i > b => ~Opens(a, i)
    BY <2>6, <2>11, <2>13
  <2>17. Opens(a, b) /\ Opens(a, 1) /\ Opens(a, j)
    BY <2>8, <2>12, <2>13
  <2> QED
    BY <2>10, <2>14, <2>15, <2>16, <2>17
<1> DEFINE before == K[b - 1] \o len
           L == [i \in 1..n |-> IF i < b THEN K[i] ELSE before \o K[i]]
<1>22. /\ K \in [1..n -> Seq(Byte)] /\ b - 1 \in 1..n /\ K[b - 1] \in Seq(Byte) /\ before \in Seq(Byte)
       /\ b - 1 < b
  <2>1. K \in [1..n -> Seq(Byte)]
    BY <1>4 DEF Content
  <2>2. b - 1 \in 1..n /\ b - 1 < b
    <3>1. b \in 1..n /\ b # 1 /\ n \in Nat
      BY <1>1, <1>2, <1>21
    <3> HIDE DEF b, n
    <3> QED
      BY <3>1
  <2>3. K[b - 1] \in Seq(Byte)
    BY <2>1, <2>2
  <2> QED
    BY <1>11, <2>1, <2>2, <2>3, ConcatProperties
<1> HIDE DEF before
<1>23. L \in [1..n -> Seq(Byte)] /\ \A i \in 1..n : L[i] = IF i < b THEN K[i] ELSE before \o K[i]
  <2>1. \A i \in 1..n : before \o K[i] \in Seq(Byte)
    BY <1>22, ConcatProperties
  <2> QED
    BY <1>22, <2>1
<1> HIDE DEF L
<1>24. \A i \in 1..n : K[i] = IF Opens(a, i) THEN SegmentBytes(a, ends, i)
                              ELSE K[i - 1] \o (Varint(a.segs[i].msglen) \o SegmentBytes(a, ends, i))
  BY <1>4 DEF Content
<1>25. \A i \in 1..n : SegmentBytes(a, ends, i) \in Seq(Byte)
  <2> TAKE i \in 1..n
  <2>1. i - 1 \in 0..n /\ i \in 0..n
    OBVIOUS
  <2>2. /\ ends[i - 1] \in Nat /\ ends[i] \in Nat /\ ends[i] <= a.run /\ ends[i - 1] <= a.run
        /\ ends[i] = ends[i - 1] + a.segs[i].seglen
    BY <1>4, <2>1 DEF IsEnds
  <2>3. ends[i - 1] <= ends[i] /\ ends[i] <= Len(a.buf) /\ ends[i - 1] <= Len(a.buf)
    BY <1>8, <2>2
  <2> DEFINE p == ends[i - 1]
             q == ends[i]
             l == Len(a.buf)
  <2>4. a.buf \in Seq(Byte) /\ p \in Nat /\ q \in Nat /\ l \in Nat /\ p <= q /\ q <= l /\ p <= l /\ l <= l
    BY <1>1, <2>2, <2>3
  <2> HIDE DEF p, q
  <2>5. SubSeq(a.buf, p + 1, q) \in Seq(Byte) /\ SubSeq(a.buf, p + 1, l) \in Seq(Byte)
    BY <2>4, SubSeqType
  <2> USE DEF p, q
  <2> QED
    BY <2>5 DEF SegmentBytes
<1>26. Content(t, ends, L)
  <2>1. ASSUME NEW i \in 1..n
        PROVE  L[i] = IF Opens(t, i) THEN SegmentBytes(t, ends, i)
                      ELSE L[i - 1] \o (Varint(t.segs[i].msglen) \o SegmentBytes(t, ends, i))
    <3> DEFINE bytes == SegmentBytes(a, ends, i)
               its == Varint(a.segs[i].msglen)
    <3>0. bytes \in Seq(Byte) /\ its \in Seq(Byte) /\ its \o bytes \in Seq(Byte)
      <4>1. bytes \in Seq(Byte) /\ its \in Seq(Byte)
        BY <1>8, <1>25, VarintType
      <4> QED
        BY <4>1, ConcatProperties
    <3>1. CASE i < b
      <4>1. Opens(t, i) <=> Opens(a, i)
        BY <1>21, <3>1
      <4>2. ~Opens(a, i) => i - 1 \in 1..n /\ i - 1 < b
        <5>1. ~Opens(a, i) => i # 1
          BY <1>21
        <5>2. i < b /\ i \in 1..n /\ b \in 1..n /\ n \in Nat
          BY <1>1, <1>2, <3>1
        <5> HIDE DEF n, b
        <5>3. i # 1 => i - 1 \in 1..n
          BY <5>2
        <5>4. i - 1 < b
          BY <5>2
        <5> QED
          BY <5>1, <5>3, <5>4
      <4>3. ~Opens(a, i) => t.segs[i].msglen = a.segs[i].msglen
        BY <1>15, <1>21
      <4> QED
        BY <1>20, <1>23, <1>24, <3>1, <4>1, <4>2, <4>3
    <3>2. CASE i = b
      <4>1. K[b] = SegmentBytes(a, ends, b) /\ K[b] \in Seq(Byte)
        BY <1>21, <1>22, <1>24, <3>2
      <4>2. ~Opens(t, i) /\ ~(b < b)
        BY <1>1, <1>21, <3>2
      <4>3. L[b] = before \o K[b] /\ L[b - 1] = K[b - 1]
        BY <1>22, <1>23, <3>2, <4>2
      <4>4. (K[b - 1] \o len) \o K[b] = K[b - 1] \o (len \o K[b])
        BY <1>11, <1>22, <4>1, Associative, Zenon
      <4>5. Varint(t.segs[b].msglen) = len
        <5>1. b # j
          <6>1. j < b /\ j \in 1..n
            BY <1>10
          <6> HIDE DEF j, b
          <6> QED
            BY <6>1
        <5>2. t.segs[b].msglen = a.segs[b].msglen
          BY <1>1, <1>15, <5>1
        <5> QED
          BY <5>2
      <4>6. L[b] = L[b - 1] \o (Varint(t.segs[b].msglen) \o SegmentBytes(t, ends, b))
        BY <1>1, <1>20, <4>1, <4>3, <4>4, <4>5 DEF before
      <4> QED
        BY <3>2, <4>2, <4>6
    <3>3. CASE i > b
      <4>1. ~Opens(t, i) /\ ~Opens(a, i) /\ ~(i < b) /\ i # j
        <5>1. i \in 1..n /\ b \in 1..n /\ j \in 1..n /\ j < b /\ i > b
          BY <1>1, <1>10, <3>3
        <5>2. ~(i < b) /\ i # j
          <6> HIDE DEF b, j, n
          <6> QED
            BY <5>1
        <5> QED
          BY <1>21, <3>3, <5>2
      <4>2. i - 1 \in 1..n /\ ~(i - 1 < b)
        <5>1. i \in 1..n /\ b \in 1..n /\ i > b /\ n \in Nat
          BY <1>1, <1>2, <3>3
        <5> HIDE DEF n, b
        <5> QED
          BY <5>1
      <4>3. K[i] = K[i - 1] \o (its \o bytes) /\ K[i - 1] \in Seq(Byte)
        BY <1>22, <1>24, <4>1, <4>2
      <4>4. L[i] = before \o K[i] /\ L[i - 1] = before \o K[i - 1]
        BY <1>23, <4>1, <4>2
      <4> DEFINE rest == its \o bytes
      <4>5. rest \in Seq(Byte) /\ K[i - 1] \in Seq(Byte) /\ before \in Seq(Byte)
        BY <1>22, <3>0, <4>3
      <4>6. K[i] = K[i - 1] \o rest
        BY <4>3
      <4> HIDE DEF rest
      <4>7. (before \o K[i - 1]) \o rest = before \o (K[i - 1] \o rest)
        BY <4>5, Associative, Zenon
      <4>8. L[i] = L[i - 1] \o rest
        BY <4>4, <4>6, <4>7
      <4>9. t.segs[i].msglen = a.segs[i].msglen
        BY <1>15, <4>1
      <4> QED
        BY <1>20, <4>1, <4>8, <4>9 DEF rest
    <3> QED
      BY <1>1, <3>1, <3>2, <3>3
  <2> QED
    BY <1>15, <1>23, <2>1 DEF Content
<1>27. Regions(t, v, L)
  <2>1. ASSUME NEW r \in 1..(k - 1)
        PROVE  v[r + 1] = L[t.top[r + 1] - 1] /\ t.segs[t.top[r]].msglen = Len(v[r + 1])
    <3>1. r \in 1..k /\ r + 1 \in 1..k /\ r < r + 1 /\ r < k
      BY <1>6
    <3>2. /\ t.top[r] = a.top[r] /\ t.top[r + 1] = a.top[r + 1] /\ v[r + 1] = w[r + 1]
          /\ w[r + 1] = K[a.top[r + 1] - 1] /\ a.segs[a.top[r]].msglen = Len(w[r + 1])
      BY <1>7, <1>15, <1>17, <3>1
    <3>3. /\ a.top[r] \in 1..n /\ a.top[r + 1] \in 1..n
          /\ a.top[r] < a.top[r + 1] /\ a.top[r] < j /\ a.top[r + 1] < b
      <4>1. \A p, c \in 1..(k + 1) : p < c => a.top[p] < a.top[c]
        BY <1>2, <1>3 DEF TopOK
      <4>2. /\ r \in 1..(k + 1) /\ r + 1 \in 1..(k + 1) /\ k \in 1..(k + 1) /\ k + 1 \in 1..(k + 1)
            /\ r + 1 < k + 1 /\ r < r + 1 /\ r < k
        BY <1>6, <3>1
      <4>3. a.top[r] < a.top[r + 1] /\ a.top[r] < a.top[k] /\ a.top[r + 1] < a.top[k + 1]
        BY <4>1, <4>2
      <4>4. a.top[r] \in 1..n /\ a.top[r + 1] \in 1..n
        BY <1>1, <1>2, <4>2
      <4> QED
        BY <1>9, <1>10, <4>3, <4>4
    <3>4. a.top[r + 1] - 1 \in 1..n /\ a.top[r + 1] - 1 < b /\ a.top[r] # j
      <4> DEFINE y == a.top[r]
                 z == a.top[r + 1]
      <4>1. y \in 1..n /\ z \in 1..n /\ y < z /\ y < j /\ z < b /\ j \in 1..n /\ b \in 1..n /\ n \in Nat
        BY <1>1, <1>2, <1>10, <3>3
      <4> HIDE DEF y, z, j, b, n
      <4>2. z - 1 \in 1..n
        BY <4>1
      <4>3. z - 1 < b
        BY <4>1
      <4>4. y # j
        BY <4>1
      <4> QED
        BY <4>2, <4>3, <4>4 DEF y, z
    <3> QED
      BY <1>15, <1>23, <3>2, <3>3, <3>4
  <2>2. v[k + 1] = L[n]
    <3>1. ~(n < b)
      BY <1>1
    <3>2. w[k + 1] = K[b - 1]
      BY <1>6, <1>7, <1>9
    <3> QED
      BY <1>6, <1>7, <1>17, <1>23, <3>1, <3>2 DEF before
  <2>3. t.segs[t.top[k]].msglen + (Len(t.buf) - t.run) = Len(v[k + 1])
    <3>1. t.top[k] = j /\ Len(t.buf) - t.run = 0
      <4>1. t.top[k] = a.top[k] /\ a.top[k] = j
        BY <1>6, <1>10, <1>15
      <4>2. t.run = Len(t.buf) /\ Len(t.buf) \in Nat
        BY <1>1, <1>14
      <4> QED
        BY <4>1, <4>2
    <3>2. t.segs[j].msglen = Len(w[k + 1]) + x
      BY <1>6, <1>7, <1>10, <1>15
    <3>3. Len(v[k + 1]) = (Len(w[k + 1]) + Len(len)) + Len(w[k + 2])
      <4> DEFINE p == w[k + 1]
                 q == w[k + 2]
      <4>1. p \in Seq(Byte) /\ q \in Seq(Byte) /\ len \in Seq(Byte) /\ v[k + 1] = (p \o len) \o q
        BY <1>11, <1>17
      <4> HIDE DEF p, q, len
      <4>2. p \o len \in Seq(Byte) /\ Len(p \o len) = Len(p) + Len(len)
        BY <4>1, ConcatProperties
      <4>3. Len((p \o len) \o q) = Len(p \o len) + Len(q)
        BY <4>1, <4>2, ConcatProperties
      <4> QED
        BY <4>1, <4>2, <4>3 DEF p, q
    <3>4. Len(w[k + 1]) \in Nat
      BY <1>17, LenProperties
    <3> DEFINE lw == Len(w[k + 1])
               ll == Len(len)
    <3>5. lw \in Nat /\ ll \in Nat /\ m \in Nat /\ m = Len(w[k + 2])
      BY <1>9, <1>11, <3>4
    <3>50. lw \in Nat /\ ll \in Nat /\ m \in Nat
      BY <3>5
    <3>6. t.segs[j].msglen = lw + (m + ll) /\ Len(v[k + 1]) = (lw + ll) + m
      BY <3>2, <3>3, <3>5
    <3> HIDE DEF lw, ll, m, j
    <3>7. (lw + (m + ll)) + 0 = (lw + ll) + m
      BY <3>50
    <3> QED
      BY <3>1, <3>6, <3>7
  <2> QED
    BY <1>15, <2>1, <2>2, <2>3 DEF Regions
<1>28. Holds(t, v)
  <2>1. Segmented(t, v)
    BY <1>19, <1>26, <1>27 DEF Segmented
  <2>2. Len(v) = Len(t.top) + 1 /\ t.out = v[1]
    BY <1>3, <1>6, <1>14, <1>15, <1>17
  <2> QED
    BY <1>15, <1>17, <1>18, <2>1, <2>2 DEF Holds
<1> QED
  BY <1>14, <1>15, <1>16, <1>28 DEF InRegion, t, v

\* What the invariant calls the ends of the segments are what end_delim() goes by.
LEMMA EndsAre ==
  ASSUME NEW s, s.segs \in Seq(SegmentType), NEW e, IsEnds(s, e)
  PROVE  Ends(s) = e
<1> DEFINE n == Len(s.segs)
           ends[i \in 0..Len(s.segs)] == IF i = 0 THEN 0 ELSE ends[i - 1] + s.segs[i].seglen
<1>0. n \in Nat
  BY LenProperties
<1>1. /\ e \in [0..n -> Nat] /\ e[0] = 0
      /\ \A i \in 1..n : e[i] = e[i - 1] + s.segs[i].seglen
  BY DEF IsEnds
<1>2. e = [i \in 0..n |-> IF i = 0 THEN 0 ELSE e[i - 1] + s.segs[i].seglen]
  <2>1. \A i \in 0..n : i = 0 \/ i \in 1..n
    BY <1>0
  <2> QED
    BY <1>1, <2>1
<1>3. ends = [i \in 0..n |-> IF i = 0 THEN 0 ELSE ends[i - 1] + s.segs[i].seglen]
  BY <1>2, Zenon
<1>4. Ends(s) = ends
  BY Zenon DEF Ends
<1> HIDE DEF ends
<1> DEFINE Q == {i \in 0..n : ends[i] = e[i]}
<1>5. 0 \in Q
  BY <1>0, <1>1, <1>3
<1>6. ASSUME NEW i \in 0..n, i \in Q, i < n PROVE i + 1 \in Q
  <2>1. i + 1 \in 0..n /\ i + 1 # 0 /\ (i + 1) - 1 = i /\ i + 1 \in 1..n
    BY <1>0, <1>6
  <2>2. ends[i + 1] = ends[i] + s.segs[i + 1].seglen
    BY <1>3, <2>1
  <2>3. e[i + 1] = e[i] + s.segs[i + 1].seglen
    BY <1>1, <2>1
  <2> QED
    BY <1>6, <2>1, <2>2, <2>3
<1>7. 0..n \subseteq Q
  <2> HIDE DEF Q, n
  <2> QED
    BY <1>0, <1>5, <1>6, UpTo
<1>8. \A i \in 0..n : ends[i] = e[i]
  BY <1>7
<1>9. e = [i \in 0..n |-> e[i]] /\ ends = [i \in 0..n |-> ends[i]]
  <2>1. e = [i \in 0..n |-> e[i]]
    BY <1>1
  <2>2. DOMAIN ends = 0..n
    BY <1>3
  <2>3. ends = [i \in DOMAIN ends |-> ends[i]]
    BY <1>3
  <2> QED
    BY <2>1, <2>2, <2>3
<1>10. ends = e
  BY <1>8, <1>9
<1> QED
  BY <1>4, <1>10

\* What is emitted of a region outside all others: its length and its bytes.
LEMMA EmittedIs ==
  ASSUME NEW a, NEW w, InRegion(a, w), a.run = Len(a.buf), Len(a.top) = 1
  PROVE  Emitted(a) = Varint(Len(w[2])) \o w[2] /\ w[2] \in Seq(Byte)
<1> DEFINE n == Len(a.segs)
<1>1. /\ a.segs \in Seq(SegmentType) /\ a.buf \in Seq(Byte) /\ n \in Nat \ {0} /\ Len(a.buf) \in Nat
      /\ w \in Seq(Seq(Byte))
  BY RegionTypes
<1>2. Len(w) = 2 /\ w[2] \in Seq(Byte)
  <2>1. Len(w) = Len(a.top) + 1
    BY RegionTypes
  <2>2. Len(w) = 2
    BY <2>1
  <2>3. 2 \in 1..Len(w)
    BY <2>2
  <2> QED
    BY <1>1, <2>2, <2>3, ElementOfSeq
<1>3. TopOK(a)
  BY DEF InRegion, Holds
<1>4. PICK ends, K : IsEnds(a, ends) /\ Content(a, ends, K) /\ Regions(a, w, K)
  BY Zenon DEF InRegion, Holds, Segmented
<1>5. Ends(a) = ends
  BY <1>1, <1>4, EndsAre
<1>6. a.top[1] = 1 /\ 1 \in 1..n /\ 1 \in 1..1 /\ \A r \in 1..1 : r = 1
  BY <1>1, <1>3 DEF TopOK
<1>7. \A i \in 1..n : Opens(a, i) <=> i = 1
  BY <1>6 DEF Opens
<1>8. /\ ends \in [0..n -> Nat] /\ ends[n] = Len(a.buf)
      /\ \A i \in 1..n : ends[i] = ends[i - 1] + a.segs[i].seglen
      /\ \A i \in 0..n : ends[i] <= Len(a.buf)
  BY <1>4 DEF IsEnds
<1>9. \A i \in 1..n : a.segs[i].msglen \in Nat /\ a.segs[i].seglen \in Nat
  <2> TAKE i \in 1..n
  <2>1. a.segs[i] \in SegmentType
    BY <1>1, ElementOfSeq
  <2> QED
    BY <2>1 DEF SegmentType
<1> DEFINE bytes(i) == SubSeq(a.buf, ends[i - 1] + 1, ends[i])
           head == Varint(a.segs[1].msglen)
           P == [i \in 0..n |-> IF i = 0 THEN <<>> ELSE head \o K[i]]
           piece(i) == Varint(a.segs[i].msglen) \o bytes(i)
<1>10. \A i \in 1..n : bytes(i) \in Seq(Byte) /\ SegmentBytes(a, ends, i) = bytes(i)
  <2> TAKE i \in 1..n
  <2>1. i - 1 \in 0..n /\ i \in 0..n
    BY <1>1
  <2>2. /\ ends[i - 1] \in Nat /\ ends[i] \in Nat /\ ends[i] <= Len(a.buf)
        /\ ends[i] = ends[i - 1] + a.segs[i].seglen
    BY <1>8, <2>1
  <2>3. ends[i - 1] <= ends[i]
    BY <1>9, <2>2
  <2>4. bytes(i) \in Seq(Byte)
    <3> DEFINE p == ends[i - 1]
               q == ends[i]
    <3>1. p \in Nat /\ q \in Nat /\ p <= q /\ q <= Len(a.buf)
      BY <2>2, <2>3
    <3> HIDE DEF p, q
    <3>2. SubSeq(a.buf, p + 1, q) \in Seq(Byte)
      BY <1>1, <3>1, SubSeqType
    <3> QED
      BY <3>2 DEF p, q
  <2>5. SegmentBytes(a, ends, i) = bytes(i)
    BY <1>8 DEF SegmentBytes
  <2> QED
    BY <2>4, <2>5
<1>11. head \in Seq(Byte) /\ \A i \in 1..n : Varint(a.segs[i].msglen) \in Seq(Byte)
  <2>1. \A i \in 1..n : Varint(a.segs[i].msglen) \in Seq(Byte)
    BY <1>9, VarintType
  <2> QED
    BY <1>6, <2>1
<1>12. \A i \in 1..n : piece(i) \in Seq(Byte)
  BY <1>10, <1>11, ConcatProperties
<1>13. K \in [1..n -> Seq(Byte)] /\ K[1] = bytes(1)
       /\ \A i \in 1..n : i # 1 => K[i] = K[i - 1] \o piece(i)
  <2>1. /\ K \in [1..n -> Seq(Byte)]
        /\ \A i \in 1..n : K[i] = IF Opens(a, i) THEN SegmentBytes(a, ends, i)
                                  ELSE K[i - 1] \o (Varint(a.segs[i].msglen) \o SegmentBytes(a, ends, i))
    BY <1>4 DEF Content
  <2> HIDE DEF bytes
  <2>2. K[1] = bytes(1)
    BY <1>6, <1>7, <1>10, <2>1
  <2>3. \A i \in 1..n : i # 1 => K[i] = K[i - 1] \o piece(i)
    BY <1>7, <1>10, <2>1
  <2> QED
    BY <2>1, <2>2, <2>3
<1> DEFINE put[i \in 0..Len(a.segs)] ==
             IF i = 0 THEN <<>>
             ELSE put[i - 1] \o (Varint(a.segs[i].msglen) \o SubSeq(a.buf, Ends(a)[i - 1] + 1, Ends(a)[i]))
<1>14. Emitted(a) = put[n]
  BY Zenon DEF Emitted
<1>15. P[0] = <<>> /\ \A i \in 1..n : P[i] = P[i - 1] \o piece(i)
  <2>1. \A i \in 1..n : P[i] = head \o K[i]
    <3>1. \A i \in 1..n : i \in 0..n /\ i # 0
      BY <1>1
    <3> HIDE DEF head, n
    <3> QED
      BY <3>1
  <2>2. P[0] = <<>>
    BY <1>1
  <2> HIDE DEF P, bytes, head
  <2>3. P[1] = P[0] \o piece(1)
    <3>1. <<>> \o piece(1) = piece(1)
      BY <1>6, <1>12, ConcatEmptySeq
    <3>2. head \o bytes(1) = piece(1)
      BY DEF head
    <3> QED
      BY <1>6, <1>13, <2>1, <2>2, <3>1, <3>2
  <2>4. ASSUME NEW i \in 1..n, i # 1 PROVE P[i] = P[i - 1] \o piece(i)
    <3>1. i - 1 \in 1..n
      BY <1>1, <2>4
    <3>2. head \in Seq(Byte) /\ K[i - 1] \in Seq(Byte) /\ piece(i) \in Seq(Byte)
      BY <1>11, <1>12, <1>13, <3>1
    <3>3. P[i] = head \o (K[i - 1] \o piece(i)) /\ P[i - 1] = head \o K[i - 1]
      BY <1>13, <2>1, <2>4, <3>1
    <3> HIDE DEF piece
    <3>4. (head \o K[i - 1]) \o piece(i) = head \o (K[i - 1] \o piece(i))
      BY <3>2, Associative, Zenon
    <3> QED
      BY <3>3, <3>4
  <2>5. 1 - 1 = 0
    OBVIOUS
  <2> HIDE DEF piece
  <2> QED
    BY <2>2, <2>3, <2>4, <2>5
<1>16. P = [i \in 0..n |->
              IF i = 0 THEN <<>>
              ELSE P[i - 1] \o (Varint(a.segs[i].msglen) \o SubSeq(a.buf, Ends(a)[i - 1] + 1, Ends(a)[i]))]
  <2>1. \A i \in 0..n : i # 0 => i \in 1..n
    BY <1>1
  <2>2. \A i \in 0..n : P[i] =
          IF i = 0 THEN <<>>
          ELSE P[i - 1] \o (Varint(a.segs[i].msglen) \o SubSeq(a.buf, Ends(a)[i - 1] + 1, Ends(a)[i]))
    <3> HIDE DEF P
    <3> QED
      BY <1>5, <1>15, <2>1
  <2>3. P = [i \in 0..n |-> P[i]]
    OBVIOUS
  <2> HIDE DEF P
  <2> QED
    BY <2>2, <2>3
<1> HIDE DEF P
<1>17. put = [i \in 0..n |->
                IF i = 0 THEN <<>>
                ELSE put[i - 1] \o (Varint(a.segs[i].msglen) \o SubSeq(a.buf, Ends(a)[i - 1] + 1, Ends(a)[i]))]
  BY <1>16, Zenon
<1> HIDE DEF put
<1>18. put[n] = P[n]
  <2> DEFINE Q == {i \in 0..n : put[i] = P[i]}
  <2>1. 0 \in Q
    BY <1>1, <1>15, <1>17
  <2>2. ASSUME NEW i \in 0..n, i \in Q, i < n PROVE i + 1 \in Q
    <3>1. i + 1 \in 0..n /\ i + 1 # 0 /\ (i + 1) - 1 = i /\ i + 1 \in 1..n
      BY <1>1, <2>2
    <3>2. put[i + 1] = put[i] \o piece(i + 1)
      BY <1>5, <1>17, <3>1
    <3>3. P[i + 1] = P[i] \o piece(i + 1)
      BY <1>15, <3>1
    <3> HIDE DEF piece
    <3> QED
      BY <2>2, <3>1, <3>2, <3>3
  <2>3. 0..n \subseteq Q
    <3> HIDE DEF Q, n
    <3> QED
      BY <1>1, <2>1, <2>2, UpTo
  <2> QED
    BY <1>1, <2>3
<1>19. P[n] = head \o K[n]
  <2>1. n \in 0..n /\ n # 0
    BY <1>1
  <2> HIDE DEF head, n
  <2> QED
    BY <2>1 DEF P
<1>20. K[n] = w[2] /\ a.segs[1].msglen = Len(w[2])
  <2>1. w[1 + 1] = K[n] /\ a.segs[a.top[1]].msglen + (Len(a.buf) - a.run) = Len(w[1 + 1])
    BY <1>4 DEF Regions
  <2>2. a.segs[1].msglen \in Nat
    BY <1>6, <1>9
  <2>3. Len(a.buf) - a.run = 0 /\ 1 + 1 = 2
    BY <1>1
  <2> QED
    BY <1>6, <2>1, <2>2, <2>3
<1> QED
  BY <1>2, <1>14, <1>18, <1>19, <1>20

\* end_delim().
LEMMA Ended ==
  ASSUME NEW s, NEW w, InRegion(s, w), s.ok
  PROVE  /\ Settled(EndDelim(s), Closed(w)) /\ EndDelim(s).depth = s.depth
         /\ Len(EndDelim(s).top) = Len(s.top) - 1
<1> DEFINE a == Accumulate(s)
<1>1. /\ InRegion(a, w) /\ a.run = Len(s.buf) /\ a = [s EXCEPT !.segs = a.segs, !.run = Len(s.buf)]
      /\ Len(a.segs) = Len(s.segs)
  BY Accumulated
<1>2. s \in EncoderType
  BY RegionTypes
<1> HIDE DEF a
<1>3. a.buf = s.buf /\ a.top = s.top /\ a.out = s.out /\ a.depth = s.depth /\ a.ok = s.ok
  BY <1>1, <1>2 DEF EncoderType
<1>4. a \in EncoderType /\ Len(a.top) \in Nat \ {0} /\ w \in Seq(Seq(Byte)) /\ Len(w) = Len(a.top) + 1
      /\ a.buf \in Seq(Byte) /\ a.out \in Seq(Byte)
  BY <1>1, RegionTypes
<1>5. a.run = Len(a.buf)
  BY <1>1, <1>3
<1>6. CASE Len(a.top) = 1
  <2> DEFINE t == [a EXCEPT !.out = a.out \o Emitted(a), !.buf = <<>>, !.top = <<>>]
  <2>1. EndDelim(s) = t
    BY <1>6, Zenon DEF EndDelim, a
  <2>2. Emitted(a) = Varint(Len(w[2])) \o w[2] /\ w[2] \in Seq(Byte)
    BY <1>1, <1>5, <1>6, EmittedIs
  <2>3. Len(w) = 1 + 1
    BY <1>4, <1>6
  <2>4. /\ Closed(w) \in Seq(Seq(Byte)) /\ Len(Closed(w)) = 1
        /\ Closed(w)[1] = (w[1] \o Varint(Len(w[2]))) \o w[2]
        /\ w[1] \in Seq(Byte) /\ Varint(Len(w[2])) \in Seq(Byte)
    <3>1. 1 \in Nat \ {0} /\ 1 + 1 = 2
      OBVIOUS
    <3>2. /\ Closed(w) \in Seq(Seq(Byte)) /\ Len(Closed(w)) = 1
          /\ Closed(w)[1] = (w[1] \o Varint(Len(w[1 + 1]))) \o w[1 + 1]
          /\ w[1] \in Seq(Byte) /\ Varint(Len(w[1 + 1])) \in Seq(Byte)
      BY <1>4, <2>3, <3>1, ClosedType
    <3> QED
      BY <3>1, <3>2
  <2>5. a.out = w[1]
    BY <1>1 DEF InRegion, Holds
  <2>6. a.out \o Emitted(a) = Closed(w)[1] /\ Closed(w)[1] \in Seq(Byte)
    <3>1. (w[1] \o Varint(Len(w[2]))) \o w[2] = w[1] \o (Varint(Len(w[2])) \o w[2])
      <4> DEFINE p == w[1]
                 q == Varint(Len(w[2]))
                 r == w[2]
      <4>1. p \in Seq(Byte) /\ q \in Seq(Byte) /\ r \in Seq(Byte)
        BY <2>2, <2>4
      <4> HIDE DEF p, q, r
      <4>2. (p \o q) \o r = p \o (q \o r)
        BY <4>1, Associative, Zenon
      <4> QED
        BY <4>2 DEF p, q, r
    <3>2. Closed(w)[1] \in Seq(Byte)
      BY <2>2, <2>4, ConcatProperties
    <3> QED
      BY <2>2, <2>4, <2>5, <3>1, <3>2
  <2>7. <<>> \in Seq(Byte) /\ <<>> \in Seq(Nat) /\ Len(<<>>) = 0
    BY EmptySeq
  <2> DEFINE out == a.out \o Emitted(a)
  <2>8. out \in Seq(Byte)
    BY <2>6
  <2> HIDE DEF out
  <2>9. t = [a EXCEPT !.out = out, !.buf = <<>>, !.top = <<>>]
    BY DEF out
  <2> HIDE DEF t
  <2>10. /\ t \in EncoderType /\ t.out = out /\ t.buf = <<>> /\ t.top = <<>> /\ t.limit = a.limit
         /\ t.segs = a.segs /\ t.segLimit = a.segLimit /\ t.overrun = a.overrun /\ t.ok = a.ok
         /\ t.depth = a.depth
    BY <1>4, <2>7, <2>8, <2>9 DEF EncoderType
  <2>11. Bounds(t)
    <3>1. a.limit \in Nat
      BY <1>4 DEF EncoderType
    <3> QED
      BY <1>1, <2>7, <2>10, <3>1 DEF Bounds, InRegion
  <2>12. t.out \o t.buf = Closed(w)[1]
    <3>1. out \o <<>> = out
      BY <2>8, ConcatEmptySeq
    <3> QED
      BY <2>6, <2>10, <3>1 DEF out
  <2>13. Len(t.top) = 0 /\ Len(Closed(w)) = Len(t.top) + 1
    BY <2>4, <2>7, <2>10
  <2>14. Holds(t, Closed(w))
    BY <2>4, <2>10, <2>12, <2>13 DEF Holds
  <2> QED
    BY <1>3, <1>6, <2>1, <2>10, <2>11, <2>13, <2>14 DEF Settled
<1>7. CASE Len(a.top) # 1
  <2> DEFINE t == Outer(a, a.segs[Last(a.top)].msglen)
  <2>1. EndDelim(s) = t
    BY <1>7, Zenon DEF EndDelim, a
  <2>2. InRegion(t, Closed(w)) /\ t.ok = a.ok /\ t.depth = a.depth /\ Len(t.top) = Len(a.top) - 1
    BY <1>1, <1>5, <1>7, InnerEnds
  <2> HIDE DEF t
  <2> QED
    BY <1>3, <2>1, <2>2 DEF InRegion, Settled
<1> QED
  BY <1>6, <1>7

-----------------------------------------------------------------------------
(* The fields that are open.                                                *)

\* How many of the fields that enclose are regions.
OpenFields(q) == Cardinality({i \in 1..Len(q) : DelimitedField(q[i])})

LEMMA OpenFieldsAppend ==
  ASSUME NEW q \in Seq(EncoderField), NEW f \in EncoderField
  PROVE  /\ OpenFields(q) \in Nat
         /\ OpenFields(Append(q, f)) = OpenFields(q) + (IF DelimitedField(f) THEN 1 ELSE 0)
<1> DEFINE n == Len(q)
           p == Append(q, f)
           D == {i \in 1..n : DelimitedField(q[i])}
           E == {i \in 1..Len(p) : DelimitedField(p[i])}
<1>1. n \in Nat /\ Len(p) = n + 1 /\ p[n + 1] = f /\ \A i \in 1..n : p[i] = q[i]
  BY AppendProperties, LenProperties
<1> HIDE DEF p, n
<1>2. IsFiniteSet(D) /\ Cardinality(D) \in Nat
  <2>1. IsFiniteSet(1..n)
    BY <1>1, FS_Interval
  <2>2. IsFiniteSet(D)
    BY <2>1, FS_Subset, Zenon
  <2> QED
    BY <2>2, FS_CardinalityType
<1>3. n + 1 \notin D /\ \A i \in 1..(n + 1) : i # n + 1 => i \in 1..n
  BY <1>1
<1>4. n + 1 \in 1..(n + 1) /\ \A i \in 1..n : i \in 1..(n + 1)
  BY <1>1
<1>00. OpenFields(q) = Cardinality(D) /\ OpenFields(p) = Cardinality(E)
  BY DEF OpenFields, n, p
<1>01. /\ \A i \in E : i = n + 1 \/ i \in D
       /\ \A i \in D : i \in E
       /\ \A i \in E : i \in 1..(n + 1)
       /\ n + 1 \in E <=> DelimitedField(f)
  <2>1. \A i : i \in E <=> i \in 1..(n + 1) /\ DelimitedField(p[i])
    BY <1>1, Zenon
  <2>2. \A i : i \in D <=> i \in 1..n /\ DelimitedField(q[i])
    BY Zenon
  <2> HIDE DEF D, E
  <2> QED
    BY <1>1, <1>3, <1>4, <2>1, <2>2, Zenon
<1> HIDE DEF D, E
<1>5. CASE DelimitedField(f)
  <2>1. E = D \cup {n + 1}
    BY <1>01, <1>5, Zenon
  <2>2. Cardinality(D \cup {n + 1}) = Cardinality(D) + 1
    BY <1>2, <1>3, FS_AddElement
  <2> QED
    BY <1>00, <1>2, <1>5, <2>1, <2>2 DEF p
<1>6. CASE ~DelimitedField(f)
  <2>1. E = D
    BY <1>01, <1>6, Zenon
  <2> QED
    BY <1>00, <1>2, <1>6, <2>1 DEF p
<1> QED
  BY <1>5, <1>6

LEMMA OpenFieldsFront ==
  ASSUME NEW q \in Seq(EncoderField), q # <<>>
  PROVE  /\ OpenFields(q) \in Nat /\ OpenFields(Front(q)) \in Nat
         /\ OpenFields(q) = OpenFields(Front(q)) + (IF DelimitedField(Last(q)) THEN 1 ELSE 0)
<1>1. /\ Front(q) \in Seq(EncoderField) /\ Last(q) \in EncoderField
      /\ Len(Front(q)) = Len(q) - 1 /\ Last(q) = q[Len(q)] /\ Len(q) \in Nat \ {0}
      /\ \A i \in 1..(Len(q) - 1) : Front(q)[i] = q[i]
  BY FrontProperties
<1> DEFINE h == Front(q)
           p == Append(h, Last(q))
<1>2. p = q
  <2>1. /\ p \in Seq(EncoderField) /\ Len(p) = Len(h) + 1 /\ p[Len(h) + 1] = Last(q)
        /\ \A i \in 1..Len(h) : p[i] = h[i]
    BY <1>1, AppendProperties
  <2>2. Len(p) = Len(q)
    BY <1>1, <2>1
  <2>3. \A i \in 1..Len(q) : p[i] = q[i]
    <3> TAKE i \in 1..Len(q)
    <3> HIDE DEF p, h
    <3>1. CASE i = Len(q)
      <4>1. Len(h) + 1 = Len(q)
        BY <2>1, <2>2
      <4> QED
        BY <1>1, <2>1, <3>1, <4>1
    <3>2. CASE i # Len(q)
      <4>1. i \in 1..(Len(q) - 1)
        BY <1>1, <3>2
      <4> QED
        BY <1>1, <2>1, <4>1 DEF h
    <3> QED
      BY <3>1, <3>2
  <2> QED
    BY <2>1, <2>2, <2>3, SeqEqual
<1>3. /\ OpenFields(h) \in Nat /\ OpenFields(p) = OpenFields(h) + (IF DelimitedField(Last(q)) THEN 1 ELSE 0)
  BY <1>1, OpenFieldsAppend
<1>4. OpenFields(p) \in Nat
  BY <1>3
<1> QED
  BY <1>2, <1>3, <1>4

LEMMA DepthType == ASSUME enclosing \in Seq(EncoderField) PROVE Depth \in Nat
<1>1. DOMAIN enclosing = 1..Len(enclosing) /\ Len(enclosing) \in Nat
  BY LenProperties
<1>2. IsFiniteSet(DOMAIN enclosing)
  BY <1>1, FS_Interval
<1>3. IsFiniteSet({i \in DOMAIN enclosing : Submessage(enclosing[i])})
  BY <1>2, FS_Subset, Zenon
<1> QED
  BY <1>3, FS_CardinalityType DEF Depth

\* A group is put between two tags, and nothing is held back for it.
LEMMA GroupIsNoRegion ==
  ASSUME NEW f, f.type = "group"
  PROVE  ~DelimitedField(f)
<1>1. f.type \notin DOMAIN EncoderValue
  BY EncoderAssumption DEF EncoderAssumption
<1> QED
  BY <1>1 DEF DelimitedField, Packed, Primitive

LEMMA WireTypeType == \A f : WireType(f) \in Nat
BY DEF WireType

LEMMA ValueType ==
  ASSUME NEW type \in DOMAIN EncoderValue, NEW v \in EncoderValue[type]
  PROVE  v \in Seq(Byte) /\ (type = "varint" => Len(v) <= VarintRoom)
<1>1. v \in Seq(Nat) /\ (type = "varint" => Len(v) <= VarintRoom)
  BY Zenon, EncoderAssumption DEF EncoderAssumption
<1>2. v \in Seq(Byte)
  BY <1>1 DEF Byte
<1> QED
  BY <1>1, <1>2

LEMMA PartType == \A bytes \in StrPart : bytes \in Seq(Byte)
<1> TAKE bytes \in StrPart
<1>1. bytes \in Seq(Nat)
  BY Zenon, EncoderAssumption DEF EncoderAssumption
<1> QED
  BY <1>1 DEF Byte

-----------------------------------------------------------------------------
(* What a handler leaves.                                                   *)

\* What it put is what is wanted, or the beginning of it if it has failed.
Answers(s, v) ==
  /\ Bounds(s) /\ s.ok \in BOOLEAN
  /\ v \in Seq(Seq(Byte)) /\ v # <<>>
  /\ s.ok => Settled(s, v)
  /\ ~s.ok => IsPrefix(s.out, v[1])

LEMMA OutIs ==
  ASSUME NEW s, NEW w, Settled(s, w)
  PROVE  /\ s \in EncoderType /\ s.out \in Seq(Byte) /\ s.out = w[1]
         /\ w \in Seq(Seq(Byte)) /\ w # <<>> /\ Len(w) = Len(s.top) + 1 /\ Len(s.top) \in Nat
<1>1. s \in EncoderType
  BY DEF Settled, Bounds
<1>2. s.out \in Seq(Byte) /\ s.top \in Seq(Nat) /\ Len(s.top) \in Nat
  BY <1>1 DEF EncoderType
<1>3. w \in Seq(Seq(Byte)) /\ Len(w) = Len(s.top) + 1
  BY DEF Settled, Holds
<1>4. w # <<>>
  BY <1>2, <1>3, EmptySeq
<1>5. CASE s.top = <<>>
  <2>1. s.out \o <<>> = w[1]
    BY <1>5 DEF Settled, Holds
  <2> QED
    BY <1>1, <1>2, <1>3, <1>4, <2>1, ConcatEmptySeq
<1>6. CASE s.top # <<>>
  BY <1>1, <1>2, <1>3, <1>4, <1>6 DEF Settled, Holds
<1> QED
  BY <1>5, <1>6

LEMMA PrefixItself == ASSUME NEW s PROVE Len(s) \in Int => IsPrefix(s, s)
BY DEF IsPrefix

LEMMA PrefixOfMore ==
  ASSUME NEW w \in Seq(Seq(Byte)), w # <<>>, NEW bytes \in Seq(Byte)
  PROVE  IsPrefix(w[1], WantsMore(w, bytes)[1])
<1>1. /\ WantsMore(w, bytes)[Len(w)] = w[Len(w)] \o bytes
      /\ \A i \in 1..(Len(w) - 1) : WantsMore(w, bytes)[i] = w[i]
      /\ Len(w) \in Nat \ {0}
  BY WantsMoreType
<1>2. w[1] \in Seq(Byte) /\ Len(w[1]) \in Nat
  <2>1. 1 \in 1..Len(w)
    BY <1>1
  <2>2. w[1] \in Seq(Byte)
    BY <2>1, ElementOfSeq
  <2> QED
    BY <2>2, LenProperties
<1>3. CASE Len(w) = 1
  <2> DEFINE p == w[1]
  <2>1. WantsMore(w, bytes)[1] = p \o bytes
    BY <1>1, <1>3
  <2>2. p \in Seq(Byte) /\ Len(p) \in Nat
    BY <1>2
  <2> HIDE DEF p
  <2>3. Len(p) <= Len(p \o bytes)
    BY <2>2
  <2>4. 0 + 1 = 1 /\ 0 \in Nat /\ 0 <= Len(p) /\ Len(p) <= Len(p)
    BY <2>2
  <2>5. SubSeq(p \o bytes, 0 + 1, Len(p)) = SubSeq(p, 0 + 1, Len(p))
    BY <2>2, <2>4, SubSeqKept
  <2>6. IsPrefix(p, p \o bytes)
    BY <2>3, <2>4, <2>5 DEF IsPrefix
  <2> QED
    BY <2>1, <2>6 DEF p
<1>4. CASE Len(w) # 1
  <2>0. Len(w) \in Nat \ {0}
    BY <1>1
  <2>1. 1 \in 1..(Len(w) - 1)
    <3> DEFINE n == Len(w)
    <3>1. n \in Nat \ {0} /\ n # 1
      BY <1>4, <2>0
    <3> HIDE DEF n
    <3>2. 1 \in 1..(n - 1)
      BY <3>1
    <3> QED
      BY <3>2 DEF n
  <2> QED
    BY <1>1, <1>2, <2>1, PrefixItself
<1> QED
  BY <1>3, <1>4

LEMMA WantsBoth ==
  ASSUME NEW w \in Seq(Seq(Byte)), w # <<>>, NEW b \in Seq(Byte), NEW c \in Seq(Byte)
  PROVE  WantsMore(WantsMore(w, b), c) = WantsMore(w, b \o c) /\ b \o c \in Seq(Byte)
<1> DEFINE n == Len(w)
           v == WantsMore(w, b)
           l == WantsMore(v, c)
           r == WantsMore(w, b \o c)
<1>0. b \o c \in Seq(Byte)
  BY ConcatProperties
<1>1. /\ v \in Seq(Seq(Byte)) /\ Len(v) = n /\ v[n] = w[n] \o b
      /\ \A i \in 1..(n - 1) : v[i] = w[i]
      /\ n \in Nat \ {0} /\ w[n] \in Seq(Byte)
  BY WantsMoreType
<1>2. v # <<>>
  BY <1>1, EmptySeq
<1> HIDE DEF v
<1>3. /\ l \in Seq(Seq(Byte)) /\ Len(l) = Len(v) /\ l[Len(v)] = v[Len(v)] \o c
      /\ \A i \in 1..(Len(v) - 1) : l[i] = v[i]
  BY <1>1, <1>2, WantsMoreType
<1>4. /\ r \in Seq(Seq(Byte)) /\ Len(r) = n /\ r[n] = w[n] \o (b \o c)
      /\ \A i \in 1..(n - 1) : r[i] = w[i]
  BY <1>0, WantsMoreType
<1> HIDE DEF l, r
<1>5. (w[n] \o b) \o c = w[n] \o (b \o c)
  <2> DEFINE p == w[n]
  <2>1. p \in Seq(Byte)
    BY <1>1
  <2> HIDE DEF p
  <2>2. (p \o b) \o c = p \o (b \o c)
    BY <2>1, Associative, Zenon
  <2> QED
    BY <2>2 DEF p
<1>6. \A i \in 1..n : l[i] = r[i]
  <2> TAKE i \in 1..n
  <2>1. CASE i = n
    BY <1>1, <1>3, <1>4, <1>5, <2>1
  <2>2. CASE i # n
    <3>1. i \in 1..(n - 1)
      BY <1>1, <2>2
    <3> QED
      BY <1>1, <1>3, <1>4, <3>1
  <2> QED
    BY <2>1, <2>2
<1>7. l = r
  <2>1. Len(l) = Len(r) /\ Len(l) = n
    BY <1>1, <1>3, <1>4
  <2> QED
    BY <1>3, <1>4, <1>6, <2>1, SeqEqual
<1> QED
  BY <1>0, <1>7 DEF l, r, v

\* The depth is the caller's matter.
SameBytes(s, t) ==
  /\ t \in EncoderType /\ t.buf = s.buf /\ t.limit = s.limit /\ t.run = s.run /\ t.segs = s.segs
  /\ t.segLimit = s.segLimit /\ t.top = s.top /\ t.out = s.out /\ t.ok = s.ok /\ t.overrun = s.overrun

LEMMA DepthAside ==
  ASSUME NEW s, NEW w, Settled(s, w), NEW t, SameBytes(s, t)
  PROVE  Settled(t, w)
<1>1. /\ s \in EncoderType /\ w \in Seq(Seq(Byte)) /\ w # <<>>
  BY OutIs
<1>2. s.buf \in Seq(Byte) /\ <<>> \in Seq(Byte)
  BY <1>1, EmptySeq DEF EncoderType
<1>3. s.buf \o <<>> = s.buf
  BY <1>2, ConcatEmptySeq
<1>4. Adds(s, t, <<>>)
  BY <1>1, <1>2, <1>3 DEF Adds, SameBytes
<1>5. Holds(t, WantsMore(w, <<>>))
  BY <1>4, Appended DEF Settled
<1>6. WantsMore(w, <<>>) = w
  <2> DEFINE n == Len(w)
             v == WantsMore(w, <<>>)
  <2>1. /\ v \in Seq(Seq(Byte)) /\ Len(v) = n /\ v[n] = w[n] \o <<>>
        /\ \A i \in 1..(n - 1) : v[i] = w[i]
        /\ n \in Nat \ {0} /\ w[n] \in Seq(Byte)
    BY <1>1, <1>2, WantsMoreType
  <2>2. w[n] \o <<>> = w[n]
    BY <2>1, ConcatEmptySeq
  <2> HIDE DEF v
  <2>3. \A i \in 1..n : v[i] = w[i]
    <3> TAKE i \in 1..n
    <3>1. i = n \/ i \in 1..(n - 1)
      BY <2>1
    <3> QED
      BY <2>1, <2>2, <3>1
  <2>4. v = w
    BY <1>1, <2>1, <2>3, SeqEqual
  <2> QED
    BY <2>4 DEF v
<1>7. Bounds(t)
  BY DEF Settled, Bounds, SameBytes
<1> QED
  BY <1>5, <1>6, <1>7 DEF Settled, SameBytes

LEMMA EncodedMore ==
  ASSUME NEW s, NEW t, NEW w, NEW bytes, s.ok => Holds(s, w), Encodes(s, t, bytes)
  PROVE  /\ Bounds(t) /\ t.out = s.out /\ t.top = s.top /\ t.depth = s.depth
         /\ t.ok => s.ok /\ Holds(t, WantsMore(w, bytes))
<1>1. ASSUME t.ok PROVE s.ok /\ Holds(t, WantsMore(w, bytes))
  <2>1. s.ok /\ Adds(s, t, bytes)
    BY <1>1 DEF Encodes
  <2> QED
    BY <2>1, Appended
<1> QED
  BY <1>1 DEF Encodes

-----------------------------------------------------------------------------
(* The handlers.                                                            *)

\* Some bytes, which go to the output at once outside regions.
LEMMA PutAtOnce ==
  ASSUME NEW s, NEW t, NEW w, NEW bytes \in Seq(Byte), Settled(s, w), Encodes(s, t, bytes)
  PROVE  /\ Answers(Commit(t), WantsMore(w, bytes))
         /\ Commit(t).top = s.top /\ Commit(t).depth = s.depth
<1>1. /\ s \in EncoderType /\ s.out = w[1] /\ w \in Seq(Seq(Byte)) /\ w # <<>>
  BY OutIs
<1>2. s.ok /\ Holds(s, w)
  BY DEF Settled
<1>3. /\ Bounds(t) /\ t.out = s.out /\ t.top = s.top /\ t.depth = s.depth
      /\ t.ok => Holds(t, WantsMore(w, bytes))
  BY <1>2, EncodedMore
<1>4. /\ Bounds(Commit(t)) /\ Commit(t).ok = t.ok
      /\ Commit(t).top = t.top /\ Commit(t).depth = t.depth
      /\ t.ok => Settled(Commit(t), WantsMore(w, bytes))
      /\ ~t.ok => Commit(t).out = t.out
  BY <1>3, Committed
<1>5. WantsMore(w, bytes) \in Seq(Seq(Byte)) /\ WantsMore(w, bytes) # <<>>
  <2>1. /\ WantsMore(w, bytes) \in Seq(Seq(Byte)) /\ Len(WantsMore(w, bytes)) = Len(w)
        /\ Len(w) \in Nat \ {0}
    BY <1>1, WantsMoreType
  <2> QED
    BY <2>1, EmptySeq
<1>6. IsPrefix(w[1], WantsMore(w, bytes)[1])
  BY <1>1, PrefixOfMore
<1>7. t.ok \in BOOLEAN
  BY <1>3 DEF Bounds, EncoderType
<1> QED
  BY <1>1, <1>3, <1>4, <1>5, <1>6, <1>7, Zenon DEF Answers

\* Some bytes inside a region, which stay in the buffer.
LEMMA PutInRegion ==
  ASSUME NEW s, NEW t, NEW w, NEW bytes \in Seq(Byte), Settled(s, w), Encodes(s, t, bytes), s.top # <<>>
  PROVE  /\ Answers(t, WantsMore(w, bytes))
         /\ t.top = s.top /\ t.depth = s.depth
<1>1. /\ s \in EncoderType /\ s.out = w[1] /\ w \in Seq(Seq(Byte)) /\ w # <<>>
  BY OutIs
<1>2. s.ok /\ Holds(s, w)
  BY DEF Settled
<1>3. /\ Bounds(t) /\ t.out = s.out /\ t.top = s.top /\ t.depth = s.depth
      /\ t.ok => Holds(t, WantsMore(w, bytes))
  BY <1>2, EncodedMore
<1>5. WantsMore(w, bytes) \in Seq(Seq(Byte)) /\ WantsMore(w, bytes) # <<>>
  <2>1. /\ WantsMore(w, bytes) \in Seq(Seq(Byte)) /\ Len(WantsMore(w, bytes)) = Len(w)
        /\ Len(w) \in Nat \ {0}
    BY <1>1, WantsMoreType
  <2> QED
    BY <2>1, EmptySeq
<1>6. IsPrefix(w[1], WantsMore(w, bytes)[1])
  BY <1>1, PrefixOfMore
<1>7. t.ok \in BOOLEAN
  BY <1>3 DEF Bounds, EncoderType
<1>8. t.ok => Settled(t, WantsMore(w, bytes))
  BY <1>3 DEF Settled
<1> QED
  BY <1>1, <1>3, <1>5, <1>6, <1>7, <1>8, Zenon DEF Answers

\* A tag and a value after it.
LEMMA BothEncoded ==
  ASSUME NEW s, NEW t, NEW u, NEW w, NEW b \in Seq(Byte), NEW c \in Seq(Byte),
         Encodes(s, t, b), Encodes(t, u, c)
  PROVE  Encodes(s, u, b \o c)
<1>1. /\ Bounds(u) /\ u.out = s.out /\ u.top = s.top /\ u.depth = s.depth
  BY DEF Encodes
<1>2. ASSUME u.ok PROVE s.ok /\ Adds(s, u, b \o c)
  <2>1. s.ok /\ Adds(s, t, b) /\ Adds(t, u, c)
    BY <1>2 DEF Encodes
  <2>2. /\ s \in EncoderType /\ u \in EncoderType /\ u.buf = (s.buf \o b) \o c
        /\ u.run = s.run /\ u.segs = s.segs
    BY <2>1 DEF Adds
  <2>3. s.buf \in Seq(Byte)
    BY <2>2 DEF EncoderType
  <2> DEFINE p == s.buf
  <2>4. p \in Seq(Byte)
    BY <2>3
  <2> HIDE DEF p
  <2>5. (p \o b) \o c = p \o (b \o c)
    BY <2>4, Associative, Zenon
  <2>6. b \o c \in Seq(Byte)
    BY ConcatProperties
  <2> QED
    BY <1>1, <2>1, <2>2, <2>5, <2>6 DEF Adds, p
<1> QED
  BY <1>1, <1>2 DEF Encodes

\* A region begins after its tag.
LEMMA PutAndStarted ==
  ASSUME NEW s, NEW t, NEW w, NEW bytes \in Seq(Byte), Settled(s, w), Encodes(s, t, bytes),
         NEW memory \in BOOLEAN
  PROVE  /\ Answers(StartDelim(Commit(t), memory), Append(WantsMore(w, bytes), <<>>))
         /\ StartDelim(Commit(t), memory).ok => Len(StartDelim(Commit(t), memory).top) = Len(s.top) + 1
<1> DEFINE c == Commit(t)
           v == WantsMore(w, bytes)
           u == StartDelim(c, memory)
           x == Append(v, <<>>)
<1>1. Answers(c, v) /\ c.top = s.top
  BY PutAtOnce
<1> HIDE DEF c, v
<1>2. /\ Bounds(c) /\ c.ok \in BOOLEAN /\ v \in Seq(Seq(Byte)) /\ v # <<>>
      /\ c.ok => Settled(c, v)
      /\ ~c.ok => IsPrefix(c.out, v[1])
  BY <1>1 DEF Answers
<1>3. /\ x \in Seq(Seq(Byte)) /\ x # <<>> /\ x[1] = v[1]
  <2>1. <<>> \in Seq(Byte) /\ 1 \in 1..Len(v)
    BY <1>2, EmptySeq
  <2> QED
    BY <1>2, <2>1, AppendProperties
<1> HIDE DEF x
<1>4. CASE ~c.ok
  <2>1. u = c
    BY <1>4, Zenon DEF StartDelim
  <2> HIDE DEF u
  <2> QED
    BY <1>2, <1>3, <1>4, <2>1, Zenon DEF Answers, u, c, v, x
<1>5. CASE c.ok
  <2>1. Settled(c, v)
    BY <1>2, <1>5
  <2>2. /\ Bounds(u)
        /\ u.ok => Settled(u, x) /\ Len(u.top) = Len(c.top) + 1
        /\ ~u.ok => u.out = c.out
    BY <2>1, Started DEF x
  <2> HIDE DEF u
  <2>3. c.out = v[1] /\ Len(c.out) \in Int
    <3>1. c.out = v[1] /\ c.out \in Seq(Byte)
      BY <2>1, OutIs
    <3> QED
      BY <3>1, LenProperties
  <2>4. IsPrefix(c.out, v[1])
    BY <2>3, PrefixItself
  <2>5. u.ok \in BOOLEAN
    BY <2>2 DEF Bounds, EncoderType
  <2> QED
    BY <1>1, <1>3, <2>2, <2>4, <2>5, Zenon DEF Answers, u, c, v, x
<1> QED
  BY <1>2, <1>4, <1>5

-----------------------------------------------------------------------------
(* The invariant.                                                           *)

EncoderInv ==
  /\ Bounds(enc) /\ enc.ok
  /\ enclosing \in Seq(EncoderField) /\ refused \in BOOLEAN
  /\ wanted \in Seq(Seq(Byte)) /\ wanted # <<>>
  /\ ~refused => Settled(enc, wanted) /\ Len(enc.top) = OpenFields(enclosing)
  /\ refused => IsPrefix(enc.out, wanted[1])

\* What a handler answers is what the invariant asks for.
LEMMA Answered ==
  ASSUME NEW s, Does(s), Answers(s, wanted'), enclosing' \in Seq(EncoderField),
         s.ok => Len(s.top) = OpenFields(enclosing')
  PROVE  EncoderInv'
<1>1. /\ Bounds(s) /\ s.ok \in BOOLEAN /\ s \in EncoderType
      /\ wanted' \in Seq(Seq(Byte)) /\ wanted' # <<>>
      /\ s.ok => Settled(s, wanted')
      /\ ~s.ok => IsPrefix(s.out, wanted'[1])
  BY DEF Answers, Bounds
<1>2. enc' = [s EXCEPT !.ok = TRUE] /\ refused' = ~s.ok
  BY Zenon DEF Does
<1>3. /\ enc' \in EncoderType /\ enc'.buf = s.buf /\ enc'.limit = s.limit /\ enc'.segs = s.segs
      /\ enc'.segLimit = s.segLimit /\ enc'.overrun = s.overrun /\ enc'.out = s.out /\ enc'.ok = TRUE
      /\ enc'.top = s.top
  BY <1>1, <1>2 DEF EncoderType
<1>4. Bounds(enc')
  BY <1>1, <1>3 DEF Bounds
<1>5. s.ok => enc' = s
  BY <1>1, <1>2 DEF EncoderType
<1>6. s.ok => Settled(enc', wanted')
  BY <1>1, <1>5
<1>7. refused' \in BOOLEAN /\ (~refused' <=> s.ok)
  BY <1>1, <1>2
<1> QED
  BY <1>1, <1>3, <1>4, <1>6, <1>7, Zenon DEF EncoderInv

\* What a handler finds.
LEMMA Before ==
  ASSUME EncoderInv, ~refused
  PROVE  /\ Settled(enc, wanted) /\ Bounds(enc) /\ enc \in EncoderType /\ enc.ok
         /\ Len(enc.top) = OpenFields(enclosing) /\ enclosing \in Seq(EncoderField)
         /\ wanted \in Seq(Seq(Byte)) /\ wanted # <<>> /\ Depth \in Nat
<1>1. enclosing \in Seq(EncoderField) /\ Bounds(enc)
  BY DEF EncoderInv
<1>2. Depth \in Nat
  BY <1>1, DepthType
<1> QED
  BY <1>1, <1>2 DEF EncoderInv, Bounds

\* A field that is a region has one that is open.
LEMMA RegionIsOpen ==
  ASSUME EncoderInv, ~refused, enclosing # <<>>, DelimitedField(Last(enclosing))
  PROVE  enc.top # <<>>
<1>1. Len(enc.top) = OpenFields(enclosing) /\ enclosing \in Seq(EncoderField)
  BY Before
<1>2. /\ OpenFields(Front(enclosing)) \in Nat
      /\ OpenFields(enclosing) = OpenFields(Front(enclosing)) + 1
  BY <1>1, OpenFieldsFront
<1>3. Len(enc.top) # 0
  BY <1>1, <1>2
<1>4. Len(<<>>) = 0
  BY EmptySeq
<1> QED
  BY <1>3, <1>4

LEMMA StartMsgStep ==
  ASSUME EncoderInv, StartMsg
  PROVE  EncoderInv'
<1>1. ~refused /\ enc' = [enc EXCEPT !.depth = enc.depth + 1] /\ UNCHANGED <<enclosing, wanted, refused>>
  BY DEF StartMsg, Between
<1>2. Settled(enc, wanted) /\ enc \in EncoderType /\ Len(enc.top) = OpenFields(enclosing)
  BY <1>1, Before
<1>3. SameBytes(enc, enc')
  <2> DEFINE d == enc.depth + 1
  <2>1. d \in Nat
    BY <1>2 DEF EncoderType
  <2>2. enc' = [enc EXCEPT !.depth = d]
    BY <1>1
  <2> HIDE DEF d
  <2> QED
    BY <1>2, <2>1, <2>2 DEF SameBytes, EncoderType
<1>4. Settled(enc', wanted)
  BY <1>2, <1>3, DepthAside
<1>5. enc'.top = enc.top
  BY <1>3 DEF SameBytes
<1>6. Bounds(enc') /\ enc'.ok
  BY <1>4 DEF Settled
<1> QED
  BY <1>1, <1>2, <1>4, <1>5, <1>6 DEF EncoderInv

LEMMA EndMsgStep ==
  ASSUME EncoderInv, EndMsg
  PROVE  EncoderInv'
<1>1. ~refused /\ enc' = [enc EXCEPT !.depth = 0, !.ended = TRUE] /\ UNCHANGED <<enclosing, wanted, refused>>
  BY DEF EndMsg
<1>2. Settled(enc, wanted) /\ enc \in EncoderType /\ Len(enc.top) = OpenFields(enclosing)
  BY <1>1, Before
<1>3. SameBytes(enc, enc')
  BY <1>1, <1>2 DEF SameBytes, EncoderType
<1>4. Settled(enc', wanted)
  BY <1>2, <1>3, DepthAside
<1>5. enc'.top = enc.top
  BY <1>3 DEF SameBytes
<1>6. Bounds(enc') /\ enc'.ok
  BY <1>4 DEF Settled
<1> QED
  BY <1>1, <1>2, <1>4, <1>5, <1>6 DEF EncoderInv

LEMMA ScalarStep ==
  ASSUME EncoderInv, NEW f \in EncoderField, Primitive(f), NEW v \in EncoderValue[f.type],
         NEW memory \in BOOLEAN, Scalar(f, v, memory)
  PROVE  EncoderInv'
<1> DEFINE tag == EncodedTag(f, WireType(f))
           t == EncodeBytes(enc, tag, memory)
           u == IF f.type = "varint" THEN EncodeVarint(t, v, memory) ELSE EncodeBytes(t, v, memory)
<1>1. ~refused /\ Does(Commit(u)) /\ Wants(tag \o v) /\ enclosing' = enclosing
  BY DEF Scalar, InMessage, Between
<1>2. /\ Settled(enc, wanted) /\ Bounds(enc) /\ enclosing \in Seq(EncoderField)
      /\ Len(enc.top) = OpenFields(enclosing)
  BY <1>1, Before
<1>3. tag \in Seq(Byte)
  BY TagType, WireTypeType
<1>4. v \in Seq(Byte) /\ (f.type = "varint" => Len(v) <= VarintRoom)
  BY ValueType DEF Primitive
<1> HIDE DEF tag
<1>5. Encodes(enc, t, tag)
  BY <1>2, <1>3, BytesEncoded
<1> HIDE DEF t
<1>6. Encodes(t, u, v)
  <2>1. Bounds(t)
    BY <1>5 DEF Encodes
  <2>2. CASE f.type = "varint"
    <3>1. Encodes(t, EncodeVarint(t, v, memory), v)
      BY <1>4, <2>1, <2>2, VarintEncoded
    <3> QED
      BY <2>2, <3>1
  <2>3. CASE f.type # "varint"
    <3>1. Encodes(t, EncodeBytes(t, v, memory), v)
      BY <1>4, <2>1, BytesEncoded
    <3> QED
      BY <2>3, <3>1
  <2> QED
    BY <2>2, <2>3
<1> HIDE DEF u
<1>7. Encodes(enc, u, tag \o v) /\ tag \o v \in Seq(Byte)
  <2>1. tag \o v \in Seq(Byte)
    BY <1>3, <1>4, ConcatProperties
  <2> QED
    BY <1>3, <1>4, <1>5, <1>6, <2>1, BothEncoded
<1>8. /\ Answers(Commit(u), WantsMore(wanted, tag \o v)) /\ Commit(u).top = enc.top
  BY <1>2, <1>7, PutAtOnce
<1>9. wanted' = WantsMore(wanted, tag \o v)
  BY <1>1, Zenon DEF Wants, WantsMore
<1> QED
  BY <1>1, <1>2, <1>8, <1>9, Answered

LEMMA StartDelimFieldStep ==
  ASSUME EncoderInv, NEW f \in EncoderField, NEW memory \in BOOLEAN, StartDelimField(f, memory)
  PROVE  EncoderInv'
<1> DEFINE tag == EncodedTag(f, WireType(f))
           t == EncodeBytes(enc, tag, memory)
           u == StartDelim(Commit(t), memory)
<1>1. /\ ~refused /\ Does(u) /\ enclosing' = Append(enclosing, f) /\ DelimitedField(f)
      /\ wanted' = Append([wanted EXCEPT ![Len(wanted)] = @ \o tag], <<>>)
  BY DEF StartDelimField, InMessage, Between
<1>2. /\ Settled(enc, wanted) /\ Bounds(enc) /\ enclosing \in Seq(EncoderField)
      /\ Len(enc.top) = OpenFields(enclosing)
  BY <1>1, Before
<1>3. tag \in Seq(Byte)
  BY TagType, WireTypeType
<1> HIDE DEF tag
<1>4. Encodes(enc, t, tag)
  BY <1>2, <1>3, BytesEncoded
<1> HIDE DEF t
<1>5. /\ Answers(u, Append(WantsMore(wanted, tag), <<>>))
      /\ u.ok => Len(u.top) = Len(enc.top) + 1
  BY <1>2, <1>3, <1>4, PutAndStarted
<1> HIDE DEF u
<1>6. wanted' = Append(WantsMore(wanted, tag), <<>>)
  BY <1>1, Zenon DEF WantsMore
<1>7. enclosing' \in Seq(EncoderField) /\ OpenFields(enclosing') = OpenFields(enclosing) + 1
  <2>1. Append(enclosing, f) \in Seq(EncoderField)
    BY <1>2, AppendProperties
  <2>2. OpenFields(Append(enclosing, f)) = OpenFields(enclosing) + 1
    BY <1>1, <1>2, OpenFieldsAppend
  <2> QED
    BY <1>1, <2>1, <2>2
<1> QED
  BY <1>1, <1>2, <1>5, <1>6, <1>7, Answered

LEMMA PackedValueStep ==
  ASSUME EncoderInv, NEW type \in DOMAIN EncoderValue, NEW v \in EncoderValue[type],
         NEW memory \in BOOLEAN, Last(enclosing).type = type, PackedValue(v, memory)
  PROVE  EncoderInv'
<1> DEFINE u == IF Last(enclosing).type = "varint" THEN EncodeVarint(enc, v, memory)
                ELSE EncodeBytes(enc, v, memory)
<1>1. /\ ~refused /\ Does(u) /\ Wants(v) /\ enclosing' = enclosing
      /\ enclosing # <<>> /\ Packed(Last(enclosing))
  BY DEF PackedValue
<1>2. /\ Settled(enc, wanted) /\ Bounds(enc) /\ enclosing \in Seq(EncoderField)
      /\ Len(enc.top) = OpenFields(enclosing)
  BY <1>1, Before
<1>3. enc.top # <<>>
  BY <1>1, RegionIsOpen DEF DelimitedField
<1>4. v \in Seq(Byte) /\ (type = "varint" => Len(v) <= VarintRoom)
  BY ValueType
<1>5. Encodes(enc, u, v)
  <2>1. CASE Last(enclosing).type = "varint"
    <3>1. Encodes(enc, EncodeVarint(enc, v, memory), v)
      BY <1>2, <1>4, <2>1, VarintEncoded
    <3> QED
      BY <2>1, <3>1
  <2>2. CASE Last(enclosing).type # "varint"
    <3>1. Encodes(enc, EncodeBytes(enc, v, memory), v)
      BY <1>2, <1>4, BytesEncoded
    <3> QED
      BY <2>2, <3>1
  <2> QED
    BY <2>1, <2>2
<1> HIDE DEF u
<1>6. Answers(u, WantsMore(wanted, v)) /\ u.top = enc.top
  BY <1>2, <1>3, <1>4, <1>5, PutInRegion
<1>7. wanted' = WantsMore(wanted, v)
  BY <1>1, Zenon DEF Wants, WantsMore
<1> QED
  BY <1>1, <1>2, <1>6, <1>7, Answered

LEMMA StringPartStep ==
  ASSUME EncoderInv, NEW bytes \in StrPart, NEW memory \in BOOLEAN, StringPart(bytes, memory)
  PROVE  EncoderInv'
<1> DEFINE u == EncodeBytes(enc, bytes, memory)
<1>1. /\ ~refused /\ Does(u) /\ Wants(bytes) /\ enclosing' = enclosing
      /\ enclosing # <<>> /\ Last(enclosing).type = "string"
  BY DEF StringPart
<1>2. /\ Settled(enc, wanted) /\ Bounds(enc) /\ enclosing \in Seq(EncoderField)
      /\ Len(enc.top) = OpenFields(enclosing)
  BY <1>1, Before
<1>3. enc.top # <<>>
  BY <1>1, RegionIsOpen DEF DelimitedField
<1>4. bytes \in Seq(Byte)
  BY PartType
<1>5. Encodes(enc, u, bytes)
  BY <1>2, <1>4, BytesEncoded
<1> HIDE DEF u
<1>6. Answers(u, WantsMore(wanted, bytes)) /\ u.top = enc.top
  BY <1>2, <1>3, <1>4, <1>5, PutInRegion
<1>7. wanted' = WantsMore(wanted, bytes)
  BY <1>1, Zenon DEF Wants, WantsMore
<1> QED
  BY <1>1, <1>2, <1>6, <1>7, Answered

\* The message that ends has its depth back.
LEMMA Left ==
  ASSUME EncoderInv, ~refused, enclosing # <<>>, MessageStarted
  PROVE  SameBytes(enc, LeavesMessage(enc)) /\ Settled(LeavesMessage(enc), wanted)
<1>1. Settled(enc, wanted) /\ enc \in EncoderType /\ Depth \in Nat
  BY Before
<1>2. SameBytes(enc, LeavesMessage(enc))
  <2>1. CASE Submessage(Last(enclosing))
    <3>1. enc.depth = Depth + 1
      BY <2>1 DEF MessageStarted, InMessage
    <3>2. enc.depth - 1 \in Nat
      BY <1>1, <3>1
    <3>3. LeavesMessage(enc) = [enc EXCEPT !.depth = enc.depth - 1]
      BY <2>1 DEF LeavesMessage
    <3> QED
      BY <1>1, <3>2, <3>3 DEF SameBytes, EncoderType
  <2>2. CASE ~Submessage(Last(enclosing))
    BY <1>1, <2>2 DEF LeavesMessage, SameBytes
  <2> QED
    BY <2>1, <2>2
<1> QED
  BY <1>1, <1>2, DepthAside

LEMMA EndDelimFieldStep ==
  ASSUME EncoderInv, EndDelimField
  PROVE  EncoderInv'
<1> DEFINE l == LeavesMessage(enc)
           u == EndDelim(l)
<1>1. /\ ~refused /\ Does(u) /\ enclosing' = Front(enclosing)
      /\ enclosing # <<>> /\ DelimitedField(Last(enclosing)) /\ MessageStarted
  BY DEF EndDelimField
<1>2. /\ Bounds(enc) /\ enclosing \in Seq(EncoderField) /\ Len(enc.top) = OpenFields(enclosing)
  BY <1>1, Before
<1>3. enc.top # <<>>
  BY <1>1, RegionIsOpen
<1>4. SameBytes(enc, l) /\ Settled(l, wanted)
  BY <1>1, Left
<1> HIDE DEF l
<1>5. l.top = enc.top
  BY <1>4 DEF SameBytes
<1>6. InRegion(l, wanted) /\ l.ok
  BY <1>3, <1>4, <1>5 DEF InRegion, Settled
<1>7. Settled(u, Closed(wanted)) /\ Len(u.top) = Len(l.top) - 1
  BY <1>6, Ended
<1> HIDE DEF u
<1>8. wanted' = Closed(wanted)
  BY Zenon DEF EndDelimField, Closed
<1>9. Answers(u, Closed(wanted))
  <2>1. Closed(wanted) \in Seq(Seq(Byte)) /\ Closed(wanted) # <<>>
    BY <1>7, OutIs
  <2>2. Bounds(u) /\ u.ok /\ u.ok \in BOOLEAN
    BY <1>7 DEF Settled, Bounds, EncoderType
  <2> QED
    BY <1>7, <2>1, <2>2 DEF Answers
<1>10. enclosing' \in Seq(EncoderField) /\ Len(u.top) = OpenFields(enclosing')
  <2>1. Front(enclosing) \in Seq(EncoderField)
    BY <1>1, <1>2, FrontProperties
  <2>2. /\ OpenFields(Front(enclosing)) \in Nat
        /\ OpenFields(enclosing) = OpenFields(Front(enclosing)) + 1
    BY <1>1, <1>2, OpenFieldsFront
  <2>3. Len(u.top) = OpenFields(Front(enclosing))
    BY <1>2, <1>5, <1>7, <2>2
  <2> QED
    BY <1>1, <2>1, <2>3
<1> QED
  BY <1>1, <1>8, <1>9, <1>10, Answered

LEMMA StartGroupStep ==
  ASSUME EncoderInv, NEW f \in EncoderField, NEW memory \in BOOLEAN, StartGroup(f, memory)
  PROVE  EncoderInv'
<1> DEFINE tag == EncodedTag(f, WireType(f))
           t == EncodeBytes(enc, tag, memory)
<1>1. /\ ~refused /\ Does(Commit(t)) /\ Wants(tag) /\ enclosing' = Append(enclosing, f)
      /\ f.type = "group"
  BY DEF StartGroup, InMessage, Between
<1>2. /\ Settled(enc, wanted) /\ Bounds(enc) /\ enclosing \in Seq(EncoderField)
      /\ Len(enc.top) = OpenFields(enclosing)
  BY <1>1, Before
<1>3. tag \in Seq(Byte)
  BY TagType, WireTypeType
<1> HIDE DEF tag
<1>4. Encodes(enc, t, tag)
  BY <1>2, <1>3, BytesEncoded
<1> HIDE DEF t
<1>5. Answers(Commit(t), WantsMore(wanted, tag)) /\ Commit(t).top = enc.top
  BY <1>2, <1>3, <1>4, PutAtOnce
<1>6. wanted' = WantsMore(wanted, tag)
  BY <1>1, Zenon DEF Wants, WantsMore
<1>7. enclosing' \in Seq(EncoderField) /\ OpenFields(enclosing') = OpenFields(enclosing)
  <2>1. Append(enclosing, f) \in Seq(EncoderField)
    BY <1>2, AppendProperties
  <2>2. OpenFields(Append(enclosing, f)) = OpenFields(enclosing) + 0 /\ OpenFields(enclosing) \in Nat
    BY <1>1, <1>2, OpenFieldsAppend, GroupIsNoRegion
  <2> QED
    BY <1>1, <2>1, <2>2
<1> QED
  BY <1>1, <1>2, <1>5, <1>6, <1>7, Answered

LEMMA EndGroupFieldStep ==
  ASSUME EncoderInv, NEW memory \in BOOLEAN, EndGroupField(memory)
  PROVE  EncoderInv'
<1> DEFINE f == Last(enclosing)
           tag == EncodedTag(f, EndGroup)
           l == LeavesMessage(enc)
           t == EncodeBytes(l, tag, memory)
<1>1. /\ ~refused /\ Does(Commit(t)) /\ Wants(tag) /\ enclosing' = Front(enclosing)
      /\ enclosing # <<>> /\ f.type = "group" /\ MessageStarted
  BY DEF EndGroupField
<1>2. /\ enclosing \in Seq(EncoderField) /\ Len(enc.top) = OpenFields(enclosing)
  BY <1>1, Before
<1>3. f \in EncoderField /\ Front(enclosing) \in Seq(EncoderField)
  BY <1>1, <1>2, FrontProperties
<1>4. tag \in Seq(Byte)
  BY <1>3, TagType DEF EndGroup
<1> HIDE DEF tag
<1>5. SameBytes(enc, l) /\ Settled(l, wanted)
  BY <1>1, Left
<1> HIDE DEF l
<1>6. l.top = enc.top /\ Bounds(l)
  BY <1>5 DEF SameBytes, Settled
<1>7. Encodes(l, t, tag)
  BY <1>4, <1>6, BytesEncoded
<1> HIDE DEF t
<1>8. Answers(Commit(t), WantsMore(wanted, tag)) /\ Commit(t).top = l.top
  BY <1>4, <1>5, <1>7, PutAtOnce
<1>9. wanted' = WantsMore(wanted, tag)
  BY <1>1, Zenon DEF Wants, WantsMore
<1>10. OpenFields(enclosing') = OpenFields(enclosing)
  <2>1. ~DelimitedField(f)
    BY <1>1, GroupIsNoRegion
  <2>2. /\ OpenFields(enclosing) = OpenFields(Front(enclosing)) + 0
        /\ OpenFields(Front(enclosing)) \in Nat
    BY <1>1, <1>2, <2>1, OpenFieldsFront
  <2> QED
    BY <1>1, <2>2
<1> QED
  BY <1>1, <1>2, <1>3, <1>6, <1>8, <1>9, <1>10, Answered

-----------------------------------------------------------------------------

LEMMA EncoderInvInit == EncoderInit => EncoderInv
<1> SUFFICES ASSUME EncoderInit PROVE EncoderInv
  OBVIOUS
<1>1. /\ enc = [buf |-> <<>>, limit |-> InitialBuf, run |-> 0, segs |-> <<>>, segLimit |-> InitialSegs,
                top |-> <<>>, depth |-> 0, out |-> <<>>, ended |-> FALSE, ok |-> TRUE, overrun |-> FALSE]
      /\ enclosing = <<>> /\ wanted = <<<<>>>> /\ refused = FALSE
  BY DEF EncoderInit
<1>2. InitialBuf \in Nat \ {0} /\ InitialSegs \in Nat \ {0}
  BY EncoderAssumption DEF EncoderAssumption
<1>3. /\ <<>> \in Seq(Byte) /\ <<>> \in Seq(SegmentType) /\ <<>> \in Seq(Nat) /\ <<>> \in Seq(EncoderField)
      /\ Len(<<>>) = 0
  BY EmptySeq
<1>4. enc \in EncoderType
  BY <1>1, <1>2, <1>3 DEF EncoderType
<1>5. /\ enc.buf = <<>> /\ enc.out = <<>> /\ enc.top = <<>> /\ enc.segs = <<>> /\ enc.limit = InitialBuf
      /\ enc.segLimit = InitialSegs /\ ~enc.overrun /\ enc.ok
  BY <1>1
<1>6. Bounds(enc)
  BY <1>2, <1>3, <1>4, <1>5 DEF Bounds
<1>7. wanted \in Seq(Seq(Byte)) /\ Len(wanted) = 1 /\ wanted[1] = <<>> /\ wanted # <<>>
  BY <1>1, <1>3
<1>8. Holds(enc, wanted)
  <2>1. <<>> \o <<>> = <<>>
    BY <1>3, ConcatEmptySeq
  <2>2. Len(wanted) = Len(enc.top) + 1
    BY <1>3, <1>5, <1>7
  <2> QED
    BY <1>5, <1>7, <2>1, <2>2 DEF Holds
<1>9. Settled(enc, wanted)
  BY <1>5, <1>6, <1>8 DEF Settled
<1>10. OpenFields(enclosing) = 0
  <2>1. 1..Len(enclosing) = {}
    BY <1>1, <1>3
  <2>2. {i \in 1..Len(enclosing) : DelimitedField(enclosing[i])} = {}
    BY <2>1, Zenon
  <2> QED
    BY <2>2, FS_EmptySet DEF OpenFields
<1> QED
  BY <1>1, <1>3, <1>5, <1>6, <1>7, <1>9, <1>10 DEF EncoderInv

LEMMA EncoderInvNext == EncoderInv /\ [EncoderNext]_encoderVars => EncoderInv'
<1> SUFFICES ASSUME EncoderInv, [EncoderNext]_encoderVars PROVE EncoderInv'
  OBVIOUS
<1>1. CASE StartMsg
  BY <1>1, StartMsgStep
<1>2. CASE EndMsg
  BY <1>2, EndMsgStep
<1>3. CASE EndDelimField
  BY <1>3, EndDelimFieldStep
<1>4. ASSUME NEW memory \in BOOLEAN, EndGroupField(memory) PROVE EncoderInv'
  BY <1>4, EndGroupFieldStep
<1>5. ASSUME NEW memory \in BOOLEAN, NEW f \in EncoderField, StartDelimField(f, memory) PROVE EncoderInv'
  BY <1>5, StartDelimFieldStep
<1>6. ASSUME NEW memory \in BOOLEAN, NEW f \in EncoderField, StartGroup(f, memory) PROVE EncoderInv'
  BY <1>6, StartGroupStep
<1>7. ASSUME NEW memory \in BOOLEAN, NEW f \in EncoderField, Primitive(f),
             NEW v \in EncoderValue[f.type], Scalar(f, v, memory)
      PROVE  EncoderInv'
  BY <1>7, ScalarStep
<1>8. ASSUME NEW memory \in BOOLEAN, NEW type \in DOMAIN EncoderValue, NEW v \in EncoderValue[type],
             Last(enclosing).type = type, PackedValue(v, memory)
      PROVE  EncoderInv'
  BY <1>8, PackedValueStep
<1>9. ASSUME NEW memory \in BOOLEAN, NEW bytes \in StrPart, StringPart(bytes, memory) PROVE EncoderInv'
  BY <1>9, StringPartStep
<1>10. CASE UNCHANGED encoderVars
  BY <1>10 DEF encoderVars, EncoderInv
<1> QED
  BY <1>1, <1>2, <1>3, <1>4, <1>5, <1>6, <1>7, <1>8, <1>9, <1>10 DEF EncoderNext

LEMMA EncoderInvMeans == EncoderInv => EncodesMessage
<1> SUFFICES ASSUME EncoderInv PROVE EncodesMessage
  OBVIOUS
<1>1. Bounds(enc) /\ enc \in EncoderType
  BY DEF EncoderInv, Bounds
<1>2. ASSUME ~refused PROVE enc.out = wanted[1] /\ IsPrefix(enc.out, wanted[1])
  <2>1. Settled(enc, wanted)
    BY <1>2, Before
  <2>2. enc.out = wanted[1] /\ enc.out \in Seq(Byte)
    BY <2>1, OutIs
  <2>3. Len(enc.out) \in Int
    BY <2>2, LenProperties
  <2> QED
    BY <2>2, <2>3, PrefixItself
<1>3. NoOverrun /\ OutputIsEncoding
  BY <1>1, <1>2 DEF NoOverrun, OutputIsEncoding, Bounds
<1>4. OutputIsPrefix
  BY <1>2 DEF OutputIsPrefix, EncoderInv
<1>5. EncoderTypeOK
  <2>1. enc.depth \in Nat /\ Len(enc.buf) <= enc.limit /\ Len(enc.segs) <= enc.segLimit
    BY <1>1 DEF Bounds, EncoderType
  <2>2. ASSUME ~refused, enc.top = <<>> PROVE enc.buf = <<>>
    BY <2>2, Before DEF Settled
  <2>3. ASSUME ~refused, enc.top # <<>>
        PROVE  /\ enc.run = Ends(enc)[Len(enc.segs)]
               /\ \A i \in 2..Len(enc.top) : enc.top[i - 1] < enc.top[i]
               /\ Last(enc.top) <= Len(enc.segs)
    <3>1. Settled(enc, wanted)
      BY <2>3, Before
    <3>2. InRegion(enc, wanted)
      BY <2>3, <3>1 DEF InRegion, Settled
    <3>3. /\ enc.segs \in Seq(SegmentType) /\ Len(enc.top) \in Nat \ {0} /\ Len(enc.segs) \in Nat
          /\ Last(enc.top) \in 1..Len(enc.segs)
      BY <3>2, RegionTypes
    <3>4. TopOK(enc)
      BY <3>2 DEF InRegion, Holds
    <3>5. PICK ends, K : IsEnds(enc, ends)
      BY <3>2, Zenon DEF InRegion, Holds, Segmented
    <3>6. Ends(enc) = ends /\ ends[Len(enc.segs)] = enc.run
      <4>1. Ends(enc) = ends
        BY <3>3, <3>5, EndsAre
      <4> QED
        BY <3>5, <4>1 DEF IsEnds
    <3>7. \A i \in 2..Len(enc.top) : i - 1 \in 1..Len(enc.top) /\ i \in 1..Len(enc.top) /\ i - 1 < i
      BY <3>3
    <3>8. \A i \in 2..Len(enc.top) : enc.top[i - 1] < enc.top[i]
      BY <3>4, <3>7 DEF TopOK
    <3> QED
      BY <3>3, <3>6, <3>8
  <2> QED
    BY <2>1, <2>2, <2>3 DEF EncoderTypeOK
<1> QED
  BY <1>3, <1>4, <1>5 DEF EncodesMessage

THEOREM EncoderInvariant == EncoderSpec => []EncoderInv
<1> QED
  BY EncoderInvInit, EncoderInvNext, PTL DEF EncoderSpec

THEOREM EncoderCorrect == EncoderSpec => []EncodesMessage
<1> QED
  BY EncoderInvariant, EncoderInvMeans, PTL
==============================================================================
