---------------------------- MODULE Wire_proofs ----------------------------
(***************************************************************************)
(* Proofs about Wire: under which use of the socket the server reads what  *)
(* was sent, for every number of processes, messages and lengths.          *)
(***************************************************************************)
EXTENDS Wire, SequenceTheorems, TLAPS

-----------------------------------------------------------------------------
(* Lengths.                                                                 *)

FrameBytes(n) == n + HeaderLength(EncodeLength(n))

\* The server takes from the header the length that was written into it.
LEMMA LengthUnderstood ==
  ASSUME NEW n \in Nat
  PROVE  /\ PeerLength(EncodeLength(n)) = n
         /\ EncodeLength(n) # <<>>
         /\ FrameBytes(n) \in Nat /\ FrameBytes(n) > n
         /\ FrameBytes(n) = n + 6 + (IF Len(EncodeLength(n)) = 3 THEN 8
                                     ELSE IF Len(EncodeLength(n)) = 2 THEN 2 ELSE 0)
<1> DEFINE code == EncodeLength(n)
<1>1. CASE n > 65535
  <2>1. code = <<127, 0, n>>
    BY <1>1 DEF EncodeLength
  <2> HIDE DEF code
  <2> QED
    BY <1>1, <2>1 DEF PeerLength, HeaderLength, FrameBytes, code
<1>2. CASE n > 125 /\ ~(n > 65535)
  <2>1. code = <<126, n>>
    <3>1. n % 65536 = n
      BY <1>2
    <3> QED
      BY <1>2, <3>1 DEF EncodeLength
  <2> HIDE DEF code
  <2> QED
    BY <1>2, <2>1 DEF PeerLength, HeaderLength, FrameBytes, code
<1>3. CASE ~(n > 125)
  <2>1. code = <<n>>
    BY <1>3 DEF EncodeLength
  <2> HIDE DEF code
  <2> QED
    BY <1>3, <2>1 DEF PeerLength, HeaderLength, FrameBytes, code
<1> QED
  BY <1>1, <1>2, <1>3

LEMMA Division ==
  ASSUME NEW a \in Nat, NEW c \in Nat \ {0}
  PROVE  /\ a \div c \in Nat
         /\ (a \div c) * c <= a /\ a < (a \div c) * c + c
OBVIOUS

LEMMA Multiples ==
  ASSUME NEW i \in Nat, NEW j \in Nat, NEW c \in Nat
  PROVE  /\ i * c \in Nat
         /\ (i + 1) * c = i * c + c
         /\ i <= j => i * c <= j * c
OBVIOUS

-----------------------------------------------------------------------------
(* What a process writes of one frame: Count(n) pieces, all of ChunkSize    *)
(* bytes but the last.                                                      *)

Message == Proc \X Nat

Kinds == {"head", "blob", "ping"}

Codes == {<<>>} \cup {EncodeLength(n) : n \in Nat}

Chunk == [msg : Message, kind : Kinds, code : Codes, bytes : Nat]

Count(n) == (FrameBytes(n) + ChunkSize - 1) \div ChunkSize

\* The bytes of a frame before its i-th piece.
Before(i) == (i - 1) * ChunkSize

LEMMA BeforeFacts ==
  /\ Before(1) = 0
  /\ \A i \in Nat \ {0} : Before(i) \in Nat /\ Before(i + 1) = Before(i) + ChunkSize
  /\ \A i, j \in Nat \ {0} : i <= j => Before(i) <= Before(j)
<1>1. ChunkSize \in Nat
  BY WireAssumption DEF WireAssumption
<1>2. ASSUME NEW i \in Nat \ {0}
      PROVE  Before(i) \in Nat /\ Before(i + 1) = Before(i) + ChunkSize
  <2>1. i - 1 \in Nat /\ (i - 1) + 1 = i /\ (i + 1) - 1 = i
    BY <1>2
  <2> QED
    BY <1>1, <2>1, Multiples DEF Before
<1>3. ASSUME NEW i \in Nat \ {0}, NEW j \in Nat \ {0}, i <= j PROVE Before(i) <= Before(j)
  <2>1. i - 1 \in Nat /\ j - 1 \in Nat /\ i - 1 <= j - 1
    BY <1>3
  <2> QED
    BY <1>1, <2>1, Multiples DEF Before
<1>4. Before(1) = 0
  BY <1>1 DEF Before
<1> QED
  BY <1>2, <1>3, <1>4

LEMMA CountFacts ==
  ASSUME NEW n \in Nat
  PROVE  /\ Count(n) \in Nat \ {0}
         /\ Before(Count(n)) \in Nat
         /\ Before(Count(n)) < FrameBytes(n)
         /\ FrameBytes(n) <= Before(Count(n)) + ChunkSize
         /\ FrameBytes(n) <= ChunkSize => Count(n) = 1
<1> DEFINE t == FrameBytes(n)
           c == ChunkSize
           k == Count(n)
<1>1. t \in Nat /\ t > 0 /\ c \in Nat \ {0}
  BY LengthUnderstood, WireAssumption DEF WireAssumption
<1>2. k = (t + c - 1) \div c /\ t + c - 1 \in Nat
  BY <1>1 DEF Count
<1> HIDE DEF t, k
<1>3. k \in Nat /\ k * c <= t + c - 1 /\ t + c - 1 < k * c + c
  BY <1>1, <1>2, Division
<1>4. k # 0
  BY <1>1, <1>3
<1>5. Before(k + 1) = k * c
  <2>1. (k + 1) - 1 = k
    BY <1>3
  <2> QED
    BY <2>1 DEF Before
<1>6. /\ Before(k) \in Nat /\ Before(k + 1) = Before(k) + c
      /\ 2 <= k => Before(2) <= Before(k)
      /\ Before(2) = c
  <2>1. k \in Nat \ {0} /\ 2 \in Nat \ {0} /\ 1 \in Nat \ {0} /\ 1 + 1 = 2
    BY <1>3, <1>4
  <2>2. /\ Before(k) \in Nat /\ Before(k + 1) = Before(k) + c
        /\ 2 <= k => Before(2) <= Before(k)
    BY <2>1, BeforeFacts
  <2>3. Before(1) = 0 /\ Before(1 + 1) = Before(1) + c
    BY <2>1, BeforeFacts
  <2> QED
    BY <1>1, <2>1, <2>2, <2>3
<1> DEFINE b == Before(k)
<1>7. /\ b \in Nat /\ b + c <= t + c - 1 /\ t + c - 1 < b + c + c
      /\ 2 <= k => c <= b
  BY <1>3, <1>5, <1>6
<1> HIDE DEF b, c
<1>8. b < t /\ t <= b + c /\ (t <= c => k = 1)
  BY <1>1, <1>3, <1>4, <1>7
<1> QED
  BY <1>3, <1>4, <1>7, <1>8 DEF t, c, k, b

LEMMA PieceFacts ==
  ASSUME NEW msg \in Message, NEW k \in Kinds, NEW n \in Nat
  PROVE  /\ Pieces(msg, k, n) \in Seq(Chunk)
         /\ Len(Pieces(msg, k, n)) = Count(n)
         /\ \A i \in 1 .. Count(n) :
              LET p == Pieces(msg, k, n)[i] IN
              /\ p.msg = msg /\ p.kind = k
              /\ i = 1 => p.code = EncodeLength(n)
              /\ p.bytes = IF i < Count(n) THEN ChunkSize
                           ELSE FrameBytes(n) - Before(Count(n))
<1> DEFINE t == FrameBytes(n)
           j == Count(n)
           b == Before(j)
           f(i) == [msg |-> msg, kind |-> k, code |-> IF i = 1 THEN EncodeLength(n) ELSE <<>>,
                    bytes |-> IF i < j THEN ChunkSize ELSE t - b]
<1>1. Pieces(msg, k, n) = [i \in 1 .. j |-> f(i)]
  BY LengthUnderstood, Zenon DEF Pieces, Count, Before
<1>2. /\ j \in Nat \ {0} /\ t \in Nat /\ b \in Nat /\ b < t /\ ChunkSize \in Nat
  BY CountFacts, LengthUnderstood, WireAssumption DEF WireAssumption
<1>3. EncodeLength(n) \in Codes /\ <<>> \in Codes
  BY DEF Codes
<1> HIDE DEF j, t, b
<1>4. ASSUME NEW i \in 1 .. j
      PROVE  /\ f(i) \in Chunk /\ f(i).msg = msg /\ f(i).kind = k
             /\ i = 1 => f(i).code = EncodeLength(n)
             /\ f(i).bytes = IF i < j THEN ChunkSize ELSE t - b
  <2>1. (IF i < j THEN ChunkSize ELSE t - b) \in Nat
    BY <1>2
  <2> QED
    BY <1>3, <2>1 DEF Chunk
<1> HIDE DEF f
<1>5. [i \in 1 .. j |-> f(i)] \in Seq(Chunk) /\ Len([i \in 1 .. j |-> f(i)]) = j
  BY <1>2, <1>4
<1> QED
  BY <1>1, <1>4, <1>5 DEF j, t, b

-----------------------------------------------------------------------------
(* The server.  A place is where it may be between two pieces.              *)

Place == {x \in [need : Nat, kind : {"none", "head", "blob", "ping"},
                 head : Message \cup {<<>>}] : x.need = 0 => x.kind = "none"}

Resting(h) == [need |-> 0, kind |-> "none", head |-> h]

Server == [need |-> need, kind |-> inFrame, head |-> head]

\* The head that is expected after a frame of kind k of msg.
Follows(k, msg, before, after) ==
  \/ k = "ping" /\ after = before
  \/ k = "head" /\ before = <<>> /\ after = msg
  \/ k = "blob" /\ before = msg /\ after = <<>>

\* Piece c takes the server from x to y, and makes sense to it.
Takes(x, c, y) ==
  LET k == IF x.need = 0 THEN c.kind ELSE x.kind
      wanted == IF x.need # 0 THEN x.need
                ELSE IF c.code = <<>> THEN 0 ELSE PeerLength(c.code) + HeaderLength(c.code)
  IN /\ c.bytes <= wanted
     /\ y.need = wanted - c.bytes
     /\ y.need # 0 => y.kind = k /\ y.head = x.head
     /\ y.need = 0 => y.kind = "none" /\ Follows(k, c.msg, x.head, y.head)

\* Every frame is one piece.
AllFit ==
  /\ FrameBytes(TextLength) <= ChunkSize
  /\ \A n \in BlobLength : FrameBytes(n + 1) <= ChunkSize

\* The pieces s take the server from x to y; between two of them it is inside
\* a frame only when frames have more than one.
Run(g, s) ==
  /\ g \in [0 .. Len(s) -> Place]
  /\ \A i \in 1 .. Len(s) : Takes(g[i - 1], s[i], g[i])
  /\ AllFit => \A i \in 0 .. Len(s) : g[i].need = 0

Goes(x, s, y) == \E g : Run(g, s) /\ g[0] = x /\ g[Len(s)] = y

LEMMA GoesNowhere ==
  ASSUME NEW x \in Place, AllFit => x.need = 0
  PROVE  Goes(x, <<>>, x)
<1> DEFINE g == [i \in 0 .. 0 |-> x]
<1>1. Run(g, <<>>) /\ g[0] = x
  BY DEF Run
<1> HIDE DEF g
<1> QED
  BY <1>1 DEF Goes

LEMMA GoesPlaces ==
  ASSUME NEW x, NEW s \in Seq(Chunk), NEW y, Goes(x, s, y)
  PROVE  /\ x \in Place /\ y \in Place
         /\ AllFit => x.need = 0 /\ y.need = 0
<1>1. PICK g : Run(g, s) /\ g[0] = x /\ g[Len(s)] = y
  BY DEF Goes
<1>2. 0 \in 0 .. Len(s) /\ Len(s) \in 0 .. Len(s)
  OBVIOUS
<1> QED
  BY <1>1, <1>2 DEF Run

LEMMA GoesTail ==
  ASSUME NEW x, NEW s \in Seq(Chunk), NEW y, s # <<>>, Goes(x, s, y)
  PROVE  \E z \in Place : Takes(x, Head(s), z) /\ Goes(z, Tail(s), y)
<1>1. PICK g : Run(g, s) /\ g[0] = x /\ g[Len(s)] = y
  BY DEF Goes
<1>2. /\ Tail(s) \in Seq(Chunk) /\ Len(Tail(s)) = Len(s) - 1 /\ Len(s) \in Nat /\ Len(s) > 0
      /\ \A i \in 1 .. Len(Tail(s)) : Tail(s)[i] = s[i + 1]
      /\ Head(s) = s[1]
  BY HeadTailProperties
<1> DEFINE n == Len(Tail(s))
           h == [i \in 0 .. n |-> g[i + 1]]
<1>3. /\ n \in Nat /\ Len(s) = n + 1
      /\ g \in [0 .. n + 1 -> Place]
      /\ \A i \in 1 .. n + 1 : Takes(g[i - 1], s[i], g[i])
      /\ AllFit => \A i \in 0 .. n + 1 : g[i].need = 0
  BY <1>1, <1>2 DEF Run
<1> HIDE DEF n
<1>4. h \in [0 .. n -> Place] /\ \A i \in 0 .. n : h[i] = g[i + 1] /\ i + 1 \in 0 .. n + 1
  BY <1>3
<1> HIDE DEF h
<1>5. ASSUME NEW i \in 1 .. n PROVE Takes(h[i - 1], Tail(s)[i], h[i])
  <2>1. i + 1 \in 1 .. n + 1 /\ (i + 1) - 1 = i /\ i - 1 \in 0 .. n /\ (i - 1) + 1 = i
    BY <1>3
  <2>2. Takes(g[i], s[i + 1], g[i + 1])
    BY <1>3, <2>1
  <2>3. h[i - 1] = g[i] /\ h[i] = g[i + 1]
    BY <1>4, <2>1
  <2>4. Tail(s)[i] = s[i + 1]
    BY <1>2 DEF n
  <2> QED
    BY <2>2, <2>3, <2>4
<1>6. Run(h, Tail(s))
  BY <1>3, <1>4, <1>5 DEF Run, n
<1>7. h[n] = y /\ h[0] = g[1] /\ g[1] \in Place /\ Takes(x, Head(s), g[1])
  <2>1. 1 \in 1 .. n + 1 /\ 1 - 1 = 0 /\ 1 \in 0 .. n + 1 /\ 0 \in 0 .. n /\ n \in 0 .. n
    BY <1>3
  <2>2. Takes(g[1 - 1], s[1], g[1])
    BY <1>3, <2>1
  <2> QED
    BY <1>1, <1>2, <1>3, <1>4, <2>1, <2>2
<1> QED
  BY <1>6, <1>7 DEF Goes, n

LEMMA GoesBoth ==
  ASSUME NEW x, NEW s \in Seq(Chunk), NEW y, Goes(x, s, y),
         NEW t \in Seq(Chunk), NEW z, Goes(y, t, z)
  PROVE  Goes(x, s \o t, z)
<1>1. PICK g : Run(g, s) /\ g[0] = x /\ g[Len(s)] = y
  BY DEF Goes
<1>2. PICK h : Run(h, t) /\ h[0] = y /\ h[Len(t)] = z
  BY DEF Goes
<1> DEFINE m == Len(s)
           n == Len(t)
           u == s \o t
           f == [i \in 0 .. m + n |-> IF i <= m THEN g[i] ELSE h[i - m]]
<1>3. /\ m \in Nat /\ n \in Nat /\ u \in Seq(Chunk) /\ Len(u) = m + n
      /\ \A i \in 1 .. m + n : u[i] = IF i <= m THEN s[i] ELSE t[i - m]
  BY ConcatProperties
<1>4. /\ g \in [0 .. m -> Place] /\ g[m] = y /\ g[0] = x
      /\ \A i \in 1 .. m : Takes(g[i - 1], s[i], g[i])
      /\ AllFit => \A i \in 0 .. m : g[i].need = 0
  BY <1>1 DEF Run
<1>5. /\ h \in [0 .. n -> Place] /\ h[0] = y /\ h[n] = z
      /\ \A i \in 1 .. n : Takes(h[i - 1], t[i], h[i])
      /\ AllFit => \A i \in 0 .. n : h[i].need = 0
  BY <1>2 DEF Run
<1> HIDE DEF m, n, u
<1>6. ASSUME NEW i \in 0 .. m PROVE f[i] = g[i] /\ f[i] \in Place /\ (AllFit => f[i].need = 0)
  BY <1>3, <1>4
<1>7. ASSUME NEW j \in 0 .. n PROVE f[m + j] = h[j] /\ f[m + j] \in Place /\ (AllFit => f[m + j].need = 0)
  <2>1. CASE j = 0
    BY <1>3, <1>4, <1>5, <2>1
  <2>2. CASE j > 0
    <3>1. m + j \in 0 .. m + n /\ ~(m + j <= m) /\ (m + j) - m = j
      BY <1>3, <2>2
    <3> QED
      BY <1>5, <3>1
  <2> QED
    BY <2>1, <2>2
<1>8. DOMAIN f = 0 .. m + n /\ f = [i \in 0 .. m + n |-> f[i]]
  OBVIOUS
<1> HIDE DEF f
<1>9. ASSUME NEW i \in 0 .. m + n PROVE f[i] \in Place /\ (AllFit => f[i].need = 0)
  <2>1. CASE i <= m
    BY <1>3, <1>6, <2>1
  <2>2. CASE i > m
    <3>1. i - m \in 0 .. n /\ m + (i - m) = i
      BY <1>3, <2>2
    <3> QED
      BY <1>7, <3>1
  <2> QED
    BY <1>3, <2>1, <2>2
<1>10. ASSUME NEW i \in 1 .. m + n PROVE Takes(f[i - 1], u[i], f[i])
  <2>1. CASE i <= m
    <3>1. i \in 1 .. m /\ i \in 0 .. m /\ i - 1 \in 0 .. m /\ u[i] = s[i]
      BY <1>3, <2>1
    <3>2. f[i - 1] = g[i - 1] /\ f[i] = g[i]
      BY <1>6, <3>1
    <3> QED
      BY <1>4, <3>1, <3>2
  <2>2. CASE i > m
    <3>1. /\ i - m \in 1 .. n /\ i - m \in 0 .. n /\ i - m - 1 \in 0 .. n /\ u[i] = t[i - m]
          /\ m + (i - m) = i /\ m + (i - m - 1) = i - 1
      BY <1>3, <2>2
    <3>2. f[i - 1] = h[i - m - 1] /\ f[i] = h[i - m]
      BY <1>7, <3>1
    <3> QED
      BY <1>5, <3>1, <3>2
  <2> QED
    BY <1>3, <2>1, <2>2
<1>11. f \in [0 .. m + n -> Place]
  BY <1>8, <1>9
<1>12. Run(f, u)
  BY <1>3, <1>9, <1>10, <1>11 DEF Run
<1>13. f[0] = x /\ f[m + n] = z
  BY <1>3, <1>4, <1>5, <1>6, <1>7
<1> QED
  BY <1>3, <1>12, <1>13 DEF Goes, u

\* One piece is a run.
LEMMA GoesOnce ==
  ASSUME NEW x \in Place, NEW y \in Place, NEW c, Takes(x, c, y),
         AllFit => x.need = 0 /\ y.need = 0
  PROVE  Goes(x, <<c>>, y)
<1> DEFINE g == [i \in 0 .. 1 |-> IF i = 0 THEN x ELSE y]
           s == <<c>>
<1>1. Len(s) = 1 /\ s[1] = c
  OBVIOUS
<1>2. g \in [0 .. 1 -> Place] /\ g[0] = x /\ g[1] = y
  OBVIOUS
<1> HIDE DEF g, s
<1>3. Run(g, s)
  BY <1>1, <1>2 DEF Run
<1>4. Goes(x, s, y)
  BY <1>1, <1>2, <1>3 DEF Goes
<1> QED
  BY <1>4 DEF s

\* All pieces of a frame that may come take the server behind the frame.
LEMMA GoesFrame ==
  ASSUME NEW msg \in Message, NEW k \in Kinds, NEW n \in Nat,
         NEW before \in Message \cup {<<>>}, NEW after \in Message \cup {<<>>},
         Follows(k, msg, before, after), AllFit => FrameBytes(n) <= ChunkSize
  PROVE  Goes(Resting(before), Pieces(msg, k, n), Resting(after))
<1> DEFINE t == FrameBytes(n)
           c == ChunkSize
           j == Count(n)
           s == Pieces(msg, k, n)
           code == EncodeLength(n)
           inside(i) == [need |-> t - Before(i + 1), kind |-> k, head |-> before]
           g == [i \in 0 .. j |-> IF i = 0 THEN Resting(before)
                                  ELSE IF i = j THEN Resting(after) ELSE inside(i)]
<1>1. /\ j \in Nat \ {0} /\ t \in Nat /\ c \in Nat \ {0}
      /\ Before(j) \in Nat /\ Before(j) < t
      /\ AllFit => j = 1
      /\ code # <<>> /\ PeerLength(code) + HeaderLength(code) = t
  <2>1. PeerLength(code) + HeaderLength(code) = t
    BY LengthUnderstood DEF FrameBytes
  <2> QED
    BY <2>1, CountFacts, LengthUnderstood, WireAssumption DEF WireAssumption
<1>2. /\ s \in Seq(Chunk) /\ Len(s) = j
      /\ \A i \in 1 .. j : /\ s[i].msg = msg /\ s[i].kind = k
                           /\ i = 1 => s[i].code = code
                           /\ s[i].bytes = IF i < j THEN c ELSE t - Before(j)
  BY PieceFacts
<1>3. /\ Resting(before) \in Place /\ Resting(before).need = 0 /\ Resting(before).head = before
      /\ Resting(after) \in Place /\ Resting(after).need = 0 /\ Resting(after).head = after
      /\ Resting(after).kind = "none"
  BY DEF Resting, Place
<1> HIDE DEF t, c, j, s, code
<1>4. ASSUME NEW i \in 1 .. j - 1
      PROVE  /\ inside(i) \in Place /\ inside(i).need = t - Before(i + 1)
             /\ inside(i).need # 0 /\ inside(i).need \in Nat
             /\ inside(i).kind = k /\ inside(i).head = before
  <2>1. i + 1 \in Nat \ {0} /\ i + 1 <= j
    BY <1>1
  <2>2. Before(i + 1) <= Before(j) /\ Before(i + 1) \in Nat
    BY <1>1, <2>1, BeforeFacts
  <2>3. t - Before(i + 1) \in Nat /\ t - Before(i + 1) # 0
    BY <1>1, <2>2
  <2> QED
    BY <2>3 DEF Place, Kinds
<1> HIDE DEF inside
<1>5. /\ g \in [0 .. j -> Place] /\ g[0] = Resting(before) /\ g[j] = Resting(after)
      /\ \A i \in 1 .. j - 1 : g[i] = inside(i)
  <2>1. ASSUME NEW i \in 0 .. j PROVE i = 0 \/ i = j \/ i \in 1 .. j - 1
    BY <1>1
  <2> QED
    BY <1>1, <1>3, <1>4, <2>1
<1> HIDE DEF g
<1>6. ASSUME NEW i \in 1 .. j PROVE Takes(g[i - 1], s[i], g[i])
  <2> DEFINE x == g[i - 1]
             y == g[i]
             p == s[i]
             \* What the server still wants of the frame.
             w == t - Before(i)
  <2> SUFFICES Takes(x, p, y)
    OBVIOUS
  <2>1. Before(i) \in Nat /\ Before(i + 1) = Before(i) + c
    BY BeforeFacts DEF c
  <2>2. /\ p.kind = k /\ p.msg = msg
        /\ i = 1 => p.code = code
        /\ p.bytes = IF i < j THEN c ELSE t - Before(j)
    BY <1>2
  <2>3. /\ i = 1 => x.need = 0
        /\ i # 1 => x.need = w /\ w # 0 /\ x.kind = k
        /\ x.head = before
    <3>1. CASE i = 1
      BY <1>3, <1>5, <3>1
    <3>2. CASE i # 1
      <4>1. i - 1 \in 1 .. j - 1 /\ (i - 1) + 1 = i
        BY <1>1, <3>2
      <4> QED
        BY <1>4, <1>5, <3>2, <4>1
    <3> QED
      BY <3>1, <3>2
  <2>4. i = 1 => w = t
    BY <1>1, BeforeFacts
  <2>5. CASE i < j
    <3>1. /\ y.need = t - Before(i + 1) /\ y.need # 0 /\ y.need \in Nat
          /\ y.kind = k /\ y.head = before
      <4>1. i \in 1 .. j - 1
        BY <1>1, <2>5
      <4> QED
        BY <1>4, <1>5, <4>1
    <3>2. p.bytes = c /\ y.need = w - c /\ c <= w
      BY <1>1, <2>1, <2>2, <2>5, <3>1
    <3> HIDE DEF x, y, p, w
    <3> QED
      BY <1>1, <2>2, <2>3, <2>4, <3>1, <3>2 DEF Takes
  <2>6. CASE i = j
    <3>1. y.need = 0 /\ y.kind = "none" /\ y.head = after
      BY <1>3, <1>5, <2>6
    <3>2. p.bytes = w /\ w - w = 0 /\ w <= w
      BY <1>1, <2>1, <2>2, <2>6
    <3> HIDE DEF x, y, p, w
    <3>3. Follows(k, p.msg, x.head, y.head)
      BY <2>2, <2>3, <3>1
    <3> QED
      BY <1>1, <2>2, <2>3, <2>4, <3>1, <3>2, <3>3 DEF Takes
  <2> QED
    BY <1>1, <2>5, <2>6
<1>7. AllFit => \A i \in 0 .. j : g[i].need = 0
  BY <1>1, <1>3, <1>5
<1>8. Run(g, s)
  BY <1>2, <1>5, <1>6, <1>7 DEF Run
<1> QED
  BY <1>2, <1>5, <1>8 DEF Goes, s

-----------------------------------------------------------------------------
(* Type correctness.                                                        *)

Heads == Message \cup {<<>>}

WireTypeOK ==
  /\ begun \in [Proc -> Nat]
  /\ output \in [Proc -> Seq(Chunk)]
  /\ wire \in Seq(Chunk)
  /\ need \in Nat
  /\ inFrame \in Kinds \cup {"none"}
  /\ head \in Heads
  /\ joined \in Seq(Heads \X Message)
  /\ garbled \in BOOLEAN

LEMMA WireTypeInit == WireInit => WireTypeOK
<1>1. <<>> \in Seq(Chunk) /\ <<>> \in Seq(Heads \X Message) /\ <<>> \in Heads
  BY DEF Heads
<1> SUFFICES ASSUME WireInit PROVE WireTypeOK
  OBVIOUS
<1>2. output \in [Proc -> Seq(Chunk)] /\ begun \in [Proc -> Nat]
  BY <1>1 DEF WireInit
<1>3. /\ wire \in Seq(Chunk) /\ joined \in Seq(Heads \X Message) /\ head \in Heads
      /\ need \in Nat /\ inFrame \in Kinds \cup {"none"} /\ garbled \in BOOLEAN
  BY <1>1 DEF WireInit
<1> QED
  BY <1>2, <1>3 DEF WireTypeOK

\* The frames of message number begun[p] + 1 of process p.
LEMMA FramesTyped ==
  ASSUME WireTypeOK, NEW p \in Proc, NEW n \in BlobLength
  PROVE  LET msg == <<p, begun[p] + 1>> IN
         /\ msg \in Message /\ n + 1 \in Nat /\ TextLength \in Nat
         /\ Pieces(msg, "head", TextLength) \in Seq(Chunk)
         /\ Pieces(msg, "blob", n + 1) \in Seq(Chunk)
<1> DEFINE msg == <<p, begun[p] + 1>>
<1>1. msg \in Message
  BY DEF WireTypeOK, Message
<1>2. n + 1 \in Nat /\ TextLength \in Nat
  BY WireAssumption DEF WireAssumption
<1> HIDE DEF msg
<1>3. "head" \in Kinds /\ "blob" \in Kinds
  BY DEF Kinds
<1>4. /\ Pieces(msg, "head", TextLength) \in Seq(Chunk)
      /\ Pieces(msg, "blob", n + 1) \in Seq(Chunk)
  BY <1>1, <1>2, <1>3, PieceFacts
<1> QED
  BY <1>1, <1>2, <1>4 DEF msg

LEMMA PingTyped ==
  ASSUME WireTypeOK, NEW p \in Proc
  PROVE  LET msg == <<p, begun[p] + 1>> IN
         msg \in Message /\ Pieces(msg, "ping", TextLength) \in Seq(Chunk)
<1> DEFINE msg == <<p, begun[p] + 1>>
<1>1. msg \in Message
  BY DEF WireTypeOK, Message
<1>2. TextLength \in Nat /\ "ping" \in Kinds
  BY WireAssumption DEF WireAssumption, Kinds
<1> HIDE DEF msg
<1>3. Pieces(msg, "ping", TextLength) \in Seq(Chunk)
  BY <1>1, <1>2, PieceFacts
<1> QED
  BY <1>1, <1>3 DEF msg

LEMMA ConcatTyped ==
  ASSUME NEW S, NEW s \in Seq(S), NEW t \in Seq(S)
  PROVE  s \o t \in Seq(S)
OBVIOUS

LEMMA EnqueueTyped ==
  ASSUME WireTypeOK, NEW p \in Proc, NEW s \in Seq(Chunk), Begin(p),
         output' = [output EXCEPT ![p] = s],
         UNCHANGED <<wire, need, inFrame, head, joined, garbled>>
  PROVE  WireTypeOK'
BY DEF Begin, WireTypeOK

LEMMA WantedTyped ==
  ASSUME NEW c \in Chunk, c.code # <<>>
  PROVE  PeerLength(c.code) + HeaderLength(c.code) \in Nat
<1>1. PICK n \in Nat : c.code = EncodeLength(n)
  BY DEF Chunk, Codes
<1> QED
  BY <1>1, LengthUnderstood DEF FrameBytes

LEMMA FrameReadTyped ==
  ASSUME WireTypeOK, NEW kind, NEW msg \in Message, FrameRead(kind, msg)
  PROVE  head' \in Heads /\ joined' \in Seq(Heads \X Message) /\ garbled' \in BOOLEAN
<1>1. \/ UNCHANGED <<head, joined, garbled>>
      \/ head' = msg /\ UNCHANGED <<joined, garbled>>
      \/ joined' = Append(joined, <<head, msg>>) /\ head' = <<>> /\ UNCHANGED garbled
      \/ garbled' = TRUE /\ UNCHANGED <<head, joined>>
  BY Zenon DEF FrameRead
<1>2. <<head, msg>> \in Heads \X Message /\ msg \in Heads /\ <<>> \in Heads
  BY DEF WireTypeOK, Heads
<1>3. Append(joined, <<head, msg>>) \in Seq(Heads \X Message)
  BY <1>2, AppendProperties DEF WireTypeOK
<1> QED
  BY <1>1, <1>2, <1>3, Zenon DEF WireTypeOK

LEMMA WireTypeStep ==
  ASSUME WireTypeOK, [WireNext]_wireVars
  PROVE  WireTypeOK'
<1>1. ASSUME NEW p \in Proc, EmitBinary(p) PROVE WireTypeOK'
  <2> DEFINE msg == <<p, begun[p] + 1>>
  <2>1. PICK n \in BlobLength :
          output' = [output EXCEPT ![p] = Pieces(msg, "head", TextLength) \o Pieces(msg, "blob", n + 1)]
    BY <1>1 DEF EmitBinary
  <2>2. Pieces(msg, "head", TextLength) \o Pieces(msg, "blob", n + 1) \in Seq(Chunk)
    BY FramesTyped, ConcatTyped, Zenon
  <2>3. Begin(p) /\ UNCHANGED <<wire, need, inFrame, head, joined, garbled>>
    BY <1>1 DEF EmitBinary
  <2> QED
    BY <2>1, <2>2, <2>3, EnqueueTyped, Zenon
<1>2. ASSUME NEW p \in Proc, EmitPing(p) PROVE WireTypeOK'
  BY <1>2, PingTyped, EnqueueTyped, Zenon DEF EmitPing
<1>3. ASSUME NEW p \in Proc, WritePiece(p) PROVE WireTypeOK'
  <2>1. /\ output[p] \in Seq(Chunk) /\ output[p] # <<>>
        /\ wire' = Append(wire, Head(output[p]))
        /\ output' = [output EXCEPT ![p] = Tail(output[p])]
    BY <1>3 DEF WritePiece, WireTypeOK
  <2>2. Head(output[p]) \in Chunk /\ Tail(output[p]) \in Seq(Chunk)
    BY <2>1
  <2> QED
    BY <1>3, <2>1, <2>2 DEF WritePiece, WireTypeOK
<1>4. CASE ServerReads
  <2> DEFINE c == Head(wire)
             begins == need = 0
             kind == IF begins THEN c.kind ELSE inFrame
             wanted == IF ~begins THEN need
                       ELSE IF c.code = <<>> THEN 0
                       ELSE PeerLength(c.code) + HeaderLength(c.code)
  <2>1. c \in Chunk /\ Tail(wire) \in Seq(Chunk)
    BY <1>4 DEF ServerReads, WireTypeOK
  <2>2. wanted \in Nat
    BY <2>1, WantedTyped DEF WireTypeOK
  <2>3. kind \in Kinds \cup {"none"} /\ c.msg \in Message /\ c.bytes \in Nat
    BY <2>1 DEF WireTypeOK, Chunk
  <2>4. /\ wire' = Tail(wire) /\ UNCHANGED <<begun, output>>
        /\ IF wanted < c.bytes
           THEN garbled' = TRUE /\ UNCHANGED <<need, inFrame, head, joined>>
           ELSE /\ need' = wanted - c.bytes
                /\ IF need' = 0 THEN inFrame' = "none" /\ FrameRead(kind, c.msg)
                   ELSE inFrame' = kind /\ UNCHANGED <<head, joined, garbled>>
    BY <1>4, Zenon DEF ServerReads
  <2> HIDE DEF c, kind, wanted
  <2>5. /\ need' \in Nat /\ inFrame' \in Kinds \cup {"none"}
        /\ FrameRead(kind, c.msg) \/ UNCHANGED <<head, joined>>
        /\ FrameRead(kind, c.msg) \/ garbled' = TRUE \/ garbled' = garbled
    BY <2>2, <2>3, <2>4 DEF WireTypeOK
  <2>6. head' \in Heads /\ joined' \in Seq(Heads \X Message) /\ garbled' \in BOOLEAN
    BY <2>3, <2>5, FrameReadTyped DEF WireTypeOK
  <2> QED
    BY <2>1, <2>4, <2>5, <2>6 DEF WireTypeOK, c
<1>5. CASE UNCHANGED wireVars
  BY <1>5 DEF wireVars, WireTypeOK
<1> QED
  BY <1>1, <1>2, <1>3, <1>4, <1>5 DEF WireNext

\* Every variable of the socket stays in its domain, garbled or not.
THEOREM WireTypeCorrect == WireSpec => []WireTypeOK
BY WireTypeInit, WireTypeStep, PTL DEF WireSpec

-----------------------------------------------------------------------------
(* The server reads what was sent.  One process emits binary messages; any  *)
(* other only sends pings, and then every frame is written at once.         *)

WholeUse ==
  /\ \A p, q \in Emitter : p = q
  /\ Pinger \subseteq Emitter \/ AllFit

\* What the emitter still has to write.
Rest == IF Emitter = {} THEN <<>> ELSE output[CHOOSE p \in Emitter : TRUE]

WholeInv ==
  /\ MessagesWhole
  /\ \E x \in Place : Goes(Server, wire, x) /\ Goes(x, Rest, Resting(<<>>))
  /\ \A p \in Proc \ Emitter :
       /\ AllFit
       /\ \/ output[p] = <<>>
          \/ \E msg \in Message : output[p] = Pieces(msg, "ping", TextLength)

LEMMA RestOf ==
  ASSUME WholeUse, NEW p \in Proc, \A q \in Proc \ {p} : output'[q] = output[q]
  PROVE  /\ p \in Emitter => Rest = output[p] /\ Rest' = output'[p]
         /\ p \notin Emitter => Rest' = Rest
<1> DEFINE e == CHOOSE q \in Emitter : TRUE
<1>1. Emitter # {} => e \in Emitter
  OBVIOUS
<1>2. Emitter # {} => Rest = output[e] /\ Rest' = output'[e]
  BY DEF Rest
<1>3. Emitter = {} => Rest = <<>> /\ Rest' = <<>>
  BY DEF Rest
<1> HIDE DEF e
<1>4. CASE p \in Emitter
  <2>1. e = p
    BY <1>1, <1>4 DEF WholeUse
  <2> QED
    BY <1>2, <1>4, <2>1
<1>5. CASE p \notin Emitter
  <2>1. Emitter # {} => e \in Proc \ {p}
    BY <1>1, <1>5 DEF Proc
  <2> QED
    BY <1>2, <1>3, <1>5, <2>1
<1> QED
  BY <1>4, <1>5

\* What the server reads leaves the processes alone, and the other way round.
LEMMA EmitKeeps ==
  ASSUME WireTypeOK, WholeUse, WholeInv, NEW p \in Proc, NEW s \in Seq(Chunk),
         output[p] = <<>>, output' = [output EXCEPT ![p] = s],
         UNCHANGED <<wire, need, inFrame, head, joined, garbled>>,
         p \in Emitter => Goes(Resting(<<>>), s, Resting(<<>>)),
         p \notin Emitter => \E msg \in Message : s = Pieces(msg, "ping", TextLength)
  PROVE  WholeInv'
<1>1. output'[p] = s /\ \A q \in Proc \ {p} : output'[q] = output[q]
  BY DEF WireTypeOK
<1>2. PICK x \in Place : Goes(Server, wire, x) /\ Goes(x, Rest, Resting(<<>>))
  BY DEF WholeInv
<1>3. MessagesWhole'
  BY DEF WholeInv, MessagesWhole
<1>4. Server' = Server /\ wire' = wire
  BY DEF Server
<1>5. Goes(x, Rest', Resting(<<>>))
  <2>1. CASE p \in Emitter
    <3>1. Rest = <<>> /\ Rest' = s
      BY <1>1, <2>1, RestOf
    <3>2. x = Resting(<<>>)
      BY <1>2, <3>1 DEF Goes
    <3> QED
      BY <2>1, <3>1, <3>2
  <2>2. CASE p \notin Emitter
    BY <1>1, <1>2, <2>2, RestOf
  <2> QED
    BY <2>1, <2>2
<1>6. ASSUME NEW q \in Proc \ Emitter
      PROVE  /\ AllFit
             /\ \/ output'[q] = <<>>
                \/ \E msg \in Message : output'[q] = Pieces(msg, "ping", TextLength)
  BY <1>1 DEF WholeInv
<1>7. Goes(Server', wire', x)
  BY <1>2, <1>4
<1>8. Goes(Server, wire, x)' /\ Goes(x, Rest, Resting(<<>>))'
  BY <1>5, <1>7 DEF Goes, Run
<1> QED
  BY <1>3, <1>6, <1>8 DEF WholeInv

LEMMA WriteKeeps ==
  ASSUME WireTypeOK, WholeUse, WholeInv, NEW p \in Proc, WritePiece(p)
  PROVE  WholeInv'
<1>1. PICK o : o = output[p]
  OBVIOUS
<1>2. /\ o \in Seq(Chunk) /\ o # <<>> /\ wire' = Append(wire, Head(o))
      /\ output'[p] = Tail(o) /\ \A q \in Proc \ {p} : output'[q] = output[q]
      /\ UNCHANGED <<need, inFrame, head, joined, garbled>>
  BY <1>1 DEF WritePiece, WireTypeOK
<1>3. PICK x \in Place : Goes(Server, wire, x) /\ Goes(x, Rest, Resting(<<>>))
  BY DEF WholeInv
<1>4. MessagesWhole'
  BY <1>2 DEF WholeInv, MessagesWhole
<1>5. /\ wire \in Seq(Chunk) /\ Head(o) \in Chunk /\ <<Head(o)>> \in Seq(Chunk)
      /\ wire' = wire \o <<Head(o)>>
  <2>1. wire \in Seq(Chunk) /\ Head(o) \in Chunk
    BY <1>2 DEF WireTypeOK
  <2> QED
    BY <1>2, <2>1, AppendIsConcat
\* The piece takes the server from x to some y, and the rest from there.
<1>6. \E y \in Place : Goes(Server, wire', y) /\ Goes(y, Rest', Resting(<<>>))
  <2>1. CASE p \in Emitter
    <3>1. Rest = o /\ Rest' = Tail(o)
      BY <1>1, <1>2, <2>1, RestOf
    <3>2. PICK y \in Place : Takes(x, Head(o), y) /\ Goes(y, Tail(o), Resting(<<>>))
      BY <1>2, <1>3, <3>1, GoesTail
    <3>3. AllFit => x.need = 0 /\ y.need = 0
      <4>1. Tail(o) \in Seq(Chunk)
        BY <1>2
      <4>2. AllFit => x.need = 0
        BY <1>3, <1>5, GoesPlaces
      <4>3. AllFit => y.need = 0
        BY <3>2, <4>1, GoesPlaces
      <4> QED
        BY <4>2, <4>3
    <3>4. Goes(x, <<Head(o)>>, y)
      BY <3>2, <3>3, GoesOnce
    <3>5. Goes(Server, wire \o <<Head(o)>>, y)
      BY <1>3, <1>5, <3>4, GoesBoth
    <3> QED
      BY <1>5, <3>1, <3>2, <3>5
  <2>2. CASE p \notin Emitter
    <3>1. PICK msg \in Message : o = Pieces(msg, "ping", TextLength)
      BY <1>1, <1>2, <2>2 DEF WholeInv
    <3>2. AllFit /\ TextLength \in Nat /\ "ping" \in Kinds
      BY <2>2, WireAssumption DEF WholeInv, WireAssumption, Kinds
    <3>3. FrameBytes(TextLength) <= ChunkSize
      BY <3>2 DEF AllFit
    <3>4. Len(o) = 1
      <4>1. Count(TextLength) = 1
        BY <3>2, <3>3, CountFacts
      <4> QED
        BY <3>1, <3>2, <4>1, PieceFacts
    <3>5. o = <<Head(o)>> /\ Tail(o) = <<>>
      BY <1>2, <3>4
    <3>6. x = Resting(x.head) /\ x.head \in Message \cup {<<>>}
      <4>1. x.need = 0
        BY <1>3, <1>5, <3>2, GoesPlaces
      <4> QED
        BY <4>1 DEF Place, Resting
    <3>7. Goes(x, o, x)
      <4>1. Follows("ping", msg, x.head, x.head)
        BY DEF Follows
      <4>2. Goes(Resting(x.head), Pieces(msg, "ping", TextLength), Resting(x.head))
        BY <3>2, <3>3, <3>6, <4>1, GoesFrame
      <4> QED
        BY <3>1, <3>6, <4>2
    <3>8. Goes(Server, wire \o <<Head(o)>>, x)
      BY <1>2, <1>3, <1>5, <3>5, <3>7, GoesBoth
    <3>9. Rest' = Rest
      BY <1>2, <2>2, RestOf
    <3> QED
      BY <1>3, <1>5, <3>8, <3>9
  <2> QED
    BY <2>1, <2>2
<1>7. PICK y \in Place : Goes(Server, wire', y) /\ Goes(y, Rest', Resting(<<>>))
  BY <1>6
<1>8. Server' = Server
  BY <1>2 DEF Server
<1>9. Goes(Server, wire, y)' /\ Goes(y, Rest, Resting(<<>>))'
  BY <1>7, <1>8 DEF Goes, Run
<1>10. ASSUME NEW q \in Proc \ Emitter
       PROVE  /\ AllFit
              /\ \/ output'[q] = <<>>
                 \/ \E msg \in Message : output'[q] = Pieces(msg, "ping", TextLength)
  <2>1. CASE q # p
    BY <1>2, <2>1 DEF WholeInv
  <2>2. CASE q = p
    <3>1. PICK msg \in Message : o = Pieces(msg, "ping", TextLength)
      BY <1>1, <1>2, <2>2 DEF WholeInv
    <3>2. AllFit /\ TextLength \in Nat /\ "ping" \in Kinds /\ FrameBytes(TextLength) <= ChunkSize
      BY WireAssumption DEF WholeInv, WireAssumption, Kinds, AllFit
    <3>3. Len(o) = 1
      <4>1. Count(TextLength) = 1
        BY <3>2, CountFacts
      <4> QED
        BY <3>1, <3>2, <4>1, PieceFacts
    <3> QED
      BY <1>2, <2>2, <3>2, <3>3
  <2> QED
    BY <2>1, <2>2
<1> QED
  BY <1>4, <1>9, <1>10 DEF WholeInv

LEMMA ReadKeeps ==
  ASSUME WireTypeOK, WholeUse, WholeInv, ServerReads
  PROVE  WholeInv'
<1>1. PICK c : c = Head(wire)
  OBVIOUS
<1>2. PICK x \in Place : Goes(Server, wire, x) /\ Goes(x, Rest, Resting(<<>>))
  BY DEF WholeInv
<1>3. /\ wire \in Seq(Chunk) /\ wire # <<>> /\ wire' = Tail(wire) /\ UNCHANGED output
      /\ c \in Chunk /\ c.msg \in Message
  <2>1. wire \in Seq(Chunk) /\ wire # <<>> /\ wire' = Tail(wire) /\ UNCHANGED output
    BY DEF ServerReads, WireTypeOK
  <2>2. c \in Chunk
    BY <1>1, <2>1
  <2> QED
    BY <2>1, <2>2 DEF Chunk
<1>4. PICK y \in Place : Takes(Server, c, y) /\ Goes(y, Tail(wire), x)
  BY <1>1, <1>2, <1>3, GoesTail
<1> DEFINE k == IF need = 0 THEN c.kind ELSE inFrame
           wanted == IF need # 0 THEN need
                     ELSE IF c.code = <<>> THEN 0 ELSE PeerLength(c.code) + HeaderLength(c.code)
<1>5. /\ c.bytes <= wanted /\ y.need = wanted - c.bytes
      /\ y.need # 0 => y.kind = k /\ y.head = head
      /\ y.need = 0 => y.kind = "none" /\ Follows(k, c.msg, head, y.head)
  BY <1>4 DEF Takes, Server
<1>6. wanted \in Nat /\ c.bytes \in Nat
  BY <1>3, WantedTyped DEF WireTypeOK, Chunk
<1>7. IF wanted < c.bytes
      THEN garbled' = TRUE /\ UNCHANGED <<need, inFrame, head, joined>>
      ELSE /\ need' = wanted - c.bytes
           /\ IF need' = 0 THEN inFrame' = "none" /\ FrameRead(k, c.msg)
              ELSE inFrame' = k /\ UNCHANGED <<head, joined, garbled>>
  BY <1>1, Zenon DEF ServerReads
<1> HIDE DEF k, wanted
<1>8. /\ need' = y.need
      /\ need' # 0 => inFrame' = k /\ UNCHANGED <<head, joined, garbled>>
      /\ need' = 0 => inFrame' = "none" /\ FrameRead(k, c.msg)
  BY <1>5, <1>6, <1>7
\* The frame that is complete is one that may come.
<1>9. ASSUME need' = 0
      PROVE  head' = y.head /\ MessagesWhole'
  <2>1. FrameRead(k, c.msg) /\ Follows(k, c.msg, head, y.head)
    BY <1>5, <1>8, <1>9
  <2>2. c.msg # <<>>
    <3>1. PICK p \in Proc, n \in Nat : c.msg = <<p, n>>
      BY <1>3 DEF Message
    <3>2. Len(<<p, n>>) = 2
      OBVIOUS
    <3> QED
      BY <3>1, <3>2
  <2>3. CASE k = "ping"
    <3>1. y.head = head /\ UNCHANGED <<head, joined, garbled>>
      BY <2>1, <2>3 DEF Follows, FrameRead
    <3> QED
      BY <3>1 DEF WholeInv, MessagesWhole
  <2>4. CASE k = "head"
    <3>1. head = <<>> /\ y.head = c.msg
      BY <2>1, <2>4 DEF Follows
    <3>2. head' = c.msg /\ UNCHANGED <<joined, garbled>>
      BY <2>1, <2>4, <3>1 DEF FrameRead
    <3> QED
      BY <3>1, <3>2 DEF WholeInv, MessagesWhole
  <2>5. CASE k = "blob"
    <3>1. head = c.msg /\ y.head = <<>>
      BY <2>1, <2>5 DEF Follows
    <3>2. head' = <<>> /\ joined' = Append(joined, <<head, c.msg>>) /\ UNCHANGED garbled
      BY <2>1, <2>2, <2>5, <3>1 DEF FrameRead
    <3> DEFINE pair == <<head, c.msg>>
    <3>3. pair \in Heads \X Message /\ joined \in Seq(Heads \X Message) /\ pair[1] = pair[2]
      BY <1>3, <3>1 DEF WireTypeOK
    <3> HIDE DEF pair
    <3>4. /\ Len(joined') = Len(joined) + 1 /\ joined'[Len(joined) + 1] = pair
          /\ \A i \in 1 .. Len(joined) : joined'[i] = joined[i]
      BY <3>2, <3>3, AppendProperties DEF pair
    <3>5. \A i \in 1 .. Len(joined') : joined'[i][1] = joined'[i][2]
      BY <3>3, <3>4 DEF WholeInv, MessagesWhole
    <3> QED
      BY <3>1, <3>2, <3>5 DEF WholeInv, MessagesWhole
  <2> QED
    BY <2>1, <2>3, <2>4, <2>5 DEF Follows
<1>10. Server' = y /\ MessagesWhole'
  <2>1. head' = y.head /\ inFrame' = y.kind /\ need' = y.need
    BY <1>5, <1>8, <1>9
  <2>2. MessagesWhole'
    <3>1. need' # 0 => MessagesWhole'
      BY <1>8 DEF WholeInv, MessagesWhole
    <3> QED
      BY <1>9, <3>1
  <2>3. y = [need |-> y.need, kind |-> y.kind, head |-> y.head]
    BY DEF Place
  <2>4. Server' = [need |-> need', kind |-> inFrame', head |-> head']
    BY DEF Server
  <2> QED
    BY <2>1, <2>2, <2>3, <2>4
<1>11. Rest' = Rest
  BY <1>3 DEF Rest
<1>12. Goes(Server, wire, x)' /\ Goes(x, Rest, Resting(<<>>))'
  <2>1. Goes(Server', wire', x) /\ Goes(x, Rest', Resting(<<>>))
    BY <1>2, <1>3, <1>4, <1>10, <1>11
  <2> QED
    BY <2>1 DEF Goes, Run
<1>13. \A p \in Proc \ Emitter :
         /\ AllFit
         /\ \/ output'[p] = <<>>
            \/ \E msg \in Message : output'[p] = Pieces(msg, "ping", TextLength)
  BY <1>3 DEF WholeInv
<1> QED
  BY <1>10, <1>12, <1>13 DEF WholeInv

LEMMA WholeInit == WholeUse /\ WireInit => WholeInv
<1> SUFFICES ASSUME WholeUse, WireInit PROVE WholeInv
  OBVIOUS
<1>1. MessagesWhole
  BY DEF WireInit, MessagesWhole
<1>2. wire = <<>> /\ Server = Resting(<<>>) /\ \A p \in Proc : output[p] = <<>>
  BY DEF WireInit, Server, Resting
<1>3. Rest = <<>>
  <2>1. Emitter # {} => (CHOOSE p \in Emitter : TRUE) \in Proc
    BY DEF Proc
  <2> QED
    BY <1>2, <2>1 DEF Rest
<1>4. Resting(<<>>) \in Place /\ Resting(<<>>).need = 0
  BY DEF Resting, Place
<1>5. Goes(Resting(<<>>), <<>>, Resting(<<>>))
  BY <1>4, GoesNowhere
<1>6. \A p \in Proc \ Emitter : AllFit
  BY DEF WholeUse, Proc
<1> QED
  BY <1>1, <1>2, <1>3, <1>4, <1>5, <1>6 DEF WholeInv

LEMMA WholeStep ==
  ASSUME WireTypeOK, WholeUse, WholeInv, [WireNext]_wireVars
  PROVE  WholeInv'
<1>0. <<>> \in Heads
  BY DEF Heads
<1>1. ASSUME NEW p \in Proc, EmitBinary(p) PROVE WholeInv'
  <2>0. PICK msg : msg = <<p, begun[p] + 1>>
    OBVIOUS
  <2>1. PICK n \in BlobLength :
          output' = [output EXCEPT ![p] = Pieces(msg, "head", TextLength) \o Pieces(msg, "blob", n + 1)]
    BY <1>1, <2>0 DEF EmitBinary
  <2>2. /\ msg \in Message /\ n + 1 \in Nat /\ TextLength \in Nat
        /\ Pieces(msg, "head", TextLength) \in Seq(Chunk)
        /\ Pieces(msg, "blob", n + 1) \in Seq(Chunk)
    BY <2>0, FramesTyped, Zenon
  <2>3. p \in Emitter /\ output[p] = <<>> /\ UNCHANGED <<wire, need, inFrame, head, joined, garbled>>
    BY <1>1 DEF EmitBinary, Begin
  <2>4. Goes(Resting(<<>>), Pieces(msg, "head", TextLength), Resting(msg))
    <3>1. Follows("head", msg, <<>>, msg) /\ "head" \in Kinds
      BY DEF Follows, Kinds
    <3>2. AllFit => FrameBytes(TextLength) <= ChunkSize
      BY DEF AllFit
    <3> QED
      BY <2>2, <3>1, <3>2, GoesFrame
  <2>5. Goes(Resting(msg), Pieces(msg, "blob", n + 1), Resting(<<>>))
    <3>1. Follows("blob", msg, msg, <<>>) /\ "blob" \in Kinds
      BY DEF Follows, Kinds
    <3>2. AllFit => FrameBytes(n + 1) <= ChunkSize
      BY DEF AllFit
    <3> QED
      BY <2>2, <3>1, <3>2, GoesFrame
  <2> DEFINE s == Pieces(msg, "head", TextLength) \o Pieces(msg, "blob", n + 1)
  <2>6. s \in Seq(Chunk)
    BY <2>2, ConcatTyped, Zenon
  <2>7. Goes(Resting(<<>>), s, Resting(<<>>))
    BY <2>2, <2>4, <2>5, GoesBoth, Zenon
  <2>8. output' = [output EXCEPT ![p] = s]
    BY <2>1
  <2> HIDE DEF s
  <2> QED
    BY <2>3, <2>6, <2>7, <2>8, EmitKeeps
<1>2. ASSUME NEW p \in Proc, EmitPing(p) PROVE WholeInv'
  <2>0. PICK msg : msg = <<p, begun[p] + 1>>
    OBVIOUS
  <2> DEFINE s == Pieces(msg, "ping", TextLength)
  <2>1. /\ output' = [output EXCEPT ![p] = s] /\ output[p] = <<>>
        /\ UNCHANGED <<wire, need, inFrame, head, joined, garbled>>
    BY <1>2, <2>0 DEF EmitPing, Begin
  <2>2. msg \in Message /\ s \in Seq(Chunk) /\ TextLength \in Nat
    BY <2>0, PingTyped, WireAssumption, Zenon DEF WireAssumption
  <2>3. Goes(Resting(<<>>), s, Resting(<<>>))
    <3>1. Follows("ping", msg, <<>>, <<>>) /\ "ping" \in Kinds
      BY DEF Follows, Kinds
    <3>2. AllFit => FrameBytes(TextLength) <= ChunkSize
      BY DEF AllFit
    <3> QED
      BY <2>2, <3>1, <3>2, GoesFrame
  <2>4. \E m \in Message : s = Pieces(m, "ping", TextLength)
    BY <2>2
  <2> HIDE DEF s
  <2> QED
    BY <2>1, <2>2, <2>3, <2>4, EmitKeeps
<1>3. CASE UNCHANGED wireVars
  <2>1. UNCHANGED <<begun, output, wire, need, inFrame, head, joined, garbled>>
    BY <1>3 DEF wireVars
  <2> QED
    BY <2>1 DEF WholeInv, MessagesWhole, Goes, Run, Server, Rest
<1> QED
  BY <1>1, <1>2, <1>3, WriteKeeps, ReadKeeps DEF WireNext

\* What one process emits the server puts together as it was sent, whatever the
\* length: when no other process writes, or others only ping and fwrite() never
\* splits a frame.
THEOREM SentAsAWhole == WholeUse => (WireSpec => []MessagesWhole)
<1> SUFFICES ASSUME WholeUse PROVE WireSpec => []MessagesWhole
  OBVIOUS
<1>1. WireInit => WireTypeOK /\ WholeInv
  BY WireTypeInit, WholeInit
<1>2. WireTypeOK /\ WholeInv /\ [WireNext]_wireVars => (WireTypeOK /\ WholeInv)'
  BY WireTypeStep, WholeStep
<1>3. WholeInv => MessagesWhole
  BY DEF WholeInv
<1> QED
  BY <1>1, <1>2, <1>3, PTL DEF WireSpec
=============================================================================
