---------------------------- MODULE Arena_proofs ----------------------------
(***************************************************************************)
(* Proofs about Arena, for every value of its constants.                   *)
(***************************************************************************)
EXTENDS Arena, TLAPS

-----------------------------------------------------------------------------
(* Rounding up. *)

LEMMA Parameters ==
  /\ MaxAlign \in Nat /\ MaxAlign > 0 /\ Header \in Nat /\ Header > 0 /\ Header % MaxAlign = 0
  /\ EntrySize \in Nat /\ EntrySize > 0 /\ \A n \in Request : n \in Nat /\ n > 0
  /\ InitialBlock \in Nat /\ FirstBlock \in Nat /\ MaxBlock \in Nat /\ MaxBlocks \in Nat
BY ArenaAssumption DEF ArenaAssumption

LEMMA Division ==
  ASSUME NEW n \in Int, NEW d \in Int, d > 0
  PROVE  n = (n \div d) * d + (n % d)
BY SMTT(60)

LEMMA Multiple ==
  ASSUME NEW k \in Nat, NEW d \in Nat, d > 0
  PROVE  (k * d) \in Nat /\ (k * d) % d = 0
OBVIOUS

LEMMA AlignUpFits ==
  ASSUME NEW n \in Nat
  PROVE  AlignUp(n) \in Nat /\ AlignUp(n) >= n
<1> DEFINE q == (n + MaxAlign - 1) \div MaxAlign
           r == (n + MaxAlign - 1) % MaxAlign
<1>1. q \in Nat /\ r \in 0 .. MaxAlign - 1
  BY Parameters
<1>3. n + MaxAlign - 1 = q * MaxAlign + r
  BY Parameters, Division
<1>2. AlignUp(n) = q * MaxAlign
  BY DEF AlignUp
<1> HIDE DEF q, r
<1> QED
  BY <1>1, <1>2, <1>3, Parameters

(* The end of what was aligned, behind what was aligned, is aligned.        *)
LEMMA AlignUpAligned ==
  ASSUME NEW m \in Nat, m % MaxAlign = 0, NEW n \in Nat
  PROVE  (m + AlignUp(n)) % MaxAlign = 0
<1> DEFINE p == m \div MaxAlign
           q == (n + MaxAlign - 1) \div MaxAlign
<1>1. p \in Nat /\ q \in Nat
  BY Parameters
<1>4. m = p * MaxAlign
  BY Parameters, Division
<1>2. AlignUp(n) = q * MaxAlign
  BY DEF AlignUp
<1> HIDE DEF p, q
<1>3. m + AlignUp(n) = (p + q) * MaxAlign
  BY <1>1, <1>2, <1>4, Parameters
<1> QED
  BY <1>1, <1>3, Parameters, Multiple
-----------------------------------------------------------------------------
(* Blocks and the memory in them. *)

BlockSet == [id : Nat, size : Nat, used : Nat, owned : BOOLEAN]
Memory == [block : Nat, from : Nat, size : Nat]
Entry == [fn : Nat, mem : Memory]

ArenaSet ==
  [blocks : Seq(BlockSet), next : Nat, nextId : Nat, bytes : Nat, entries : Seq(Entry)]

\* Every block is used up to an aligned place in it, behind its header, and has
\* a number of its own; number 0 is the block that the caller brought.
BlocksSound(a) ==
  /\ a.nextId > 0
  /\ \A i \in 1 .. Len(a.blocks) :
       /\ Header <= a.blocks[i].used /\ a.blocks[i].used <= a.blocks[i].size
       /\ a.blocks[i].used % MaxAlign = 0
       /\ a.blocks[i].id < a.nextId /\ (a.blocks[i].owned <=> a.blocks[i].id # 0)
  /\ \A i, j \in 1 .. Len(a.blocks) : a.blocks[i].id = a.blocks[j].id => i = j

\* A place in what is used of a block.
Lies(a, m) ==
  /\ m.from % MaxAlign = 0 /\ Header <= m.from
  /\ \E i \in 1 .. Len(a.blocks) : /\ a.blocks[i].id = m.block
                                  /\ m.from + m.size <= a.blocks[i].used

\* Arena b is arena a, perhaps with one more block and with more of it used.
Grown(a, b) ==
  \E k \in {0, 1} :
    /\ Len(b.blocks) = Len(a.blocks) + k /\ b.nextId = a.nextId + k
    /\ \A i \in 1 .. Len(a.blocks) :
         /\ b.blocks[i + k].id = a.blocks[i].id
         /\ b.blocks[i + k].owned = a.blocks[i].owned
         /\ b.blocks[i + k].used >= a.blocks[i].used
    /\ b.entries = a.entries

LEMMA ArenaFields ==
  ASSUME NEW a \in ArenaSet
  PROVE  /\ a.blocks \in Seq(BlockSet) /\ a.next \in Nat /\ a.nextId \in Nat /\ a.bytes \in Nat
         /\ a.entries \in Seq(Entry) /\ Len(a.blocks) \in Nat
         /\ \A i \in 1 .. Len(a.blocks) :
              /\ a.blocks[i] \in BlockSet /\ a.blocks[i].id \in Nat /\ a.blocks[i].size \in Nat
              /\ a.blocks[i].used \in Nat /\ a.blocks[i].owned \in BOOLEAN
<1>1. /\ a.blocks \in Seq(BlockSet) /\ a.next \in Nat /\ a.nextId \in Nat /\ a.bytes \in Nat
      /\ a.entries \in Seq(Entry) /\ Len(a.blocks) \in Nat
  BY DEF ArenaSet
<1>2. \A i \in 1 .. Len(a.blocks) : a.blocks[i] \in BlockSet
  BY <1>1
<1> QED
  BY <1>1, <1>2 DEF BlockSet

LEMMA HeaderAligned == AlignUp(Header) = Header
<1>1. Header = (Header \div MaxAlign) * MaxAlign
  BY Parameters, Division
<1>2. (Header + MaxAlign - 1) \div MaxAlign = Header \div MaxAlign
  BY Parameters
<1> QED
  BY <1>1, <1>2 DEF AlignUp

\* upb_arena_addblock(): room for what is asked for, behind the header.
LEMMA WithBlockSound ==
  ASSUME NEW a \in ArenaSet, BlocksSound(a), NEW size \in Nat
  PROVE  LET b == WithBlock(a, size) IN
         /\ b \in ArenaSet /\ BlocksSound(b) /\ Grown(a, b)
         /\ b.blocks # <<>> /\ b.blocks[1].size - b.blocks[1].used >= size
<1> DEFINE z == Bigger(size, a.next) + Header
           n == Block(a.nextId, z, TRUE)
           b == WithBlock(a, size)
<1>0. z \in Nat /\ z >= size + Header
  BY Parameters, ArenaFields DEF Bigger
<1>1. n \in BlockSet /\ n.id = a.nextId /\ n.size = z /\ n.used = Header /\ n.owned = TRUE
  BY <1>0, Parameters, ArenaFields, HeaderAligned DEF Block, BlockSet
<1>2. /\ b.blocks = <<n>> \o a.blocks /\ b.nextId = a.nextId + 1 /\ b.entries = a.entries
      /\ b.next = Smaller(2 * z, MaxBlock) /\ b.bytes = a.bytes
      /\ b = [blocks |-> <<n>> \o a.blocks, next |-> Smaller(2 * z, MaxBlock),
              nextId |-> a.nextId + 1, bytes |-> a.bytes, entries |-> a.entries]
  <2>1. b = [a EXCEPT !.blocks = <<n>> \o a.blocks, !.next = Smaller(2 * z, MaxBlock),
                      !.nextId = a.nextId + 1]
    BY DEF WithBlock
  <2> HIDE DEF z, n, b
  <2> QED
    BY <2>1 DEF ArenaSet
<1>f. /\ a.blocks \in Seq(BlockSet) /\ a.nextId \in Nat /\ a.bytes \in Nat
      /\ a.entries \in Seq(Entry) /\ Len(a.blocks) \in Nat
      /\ \A i \in 1 .. Len(a.blocks) : a.blocks[i].id \in Nat /\ a.blocks[i].used \in Nat
  BY ArenaFields
<1> HIDE DEF z, n, b
<1>3. /\ b.blocks \in Seq(BlockSet) /\ Len(b.blocks) = Len(a.blocks) + 1 /\ b.blocks[1] = n
      /\ \A i \in 1 .. Len(a.blocks) : b.blocks[i + 1] = a.blocks[i]
      /\ \A i \in 2 .. Len(a.blocks) + 1 : b.blocks[i] = a.blocks[i - 1]
  BY <1>1, <1>2, <1>f
<1>4. b \in ArenaSet
  <2>1. Smaller(2 * z, MaxBlock) \in Nat
    BY <1>0, Parameters DEF Smaller
  <2> QED
    BY <1>2, <1>3, <2>1, <1>f DEF ArenaSet
<1>5. Grown(a, b)
  BY <1>2, <1>3, <1>f DEF Grown
<1>6. BlocksSound(b)
  <2>1. ASSUME NEW i \in 1 .. Len(b.blocks)
        PROVE  i # 1 => i - 1 \in 1 .. Len(a.blocks) /\ b.blocks[i] = a.blocks[i - 1]
    BY <1>3, <1>f
  <2>2. ASSUME NEW i \in 1 .. Len(b.blocks)
        PROVE  /\ Header <= b.blocks[i].used /\ b.blocks[i].used <= b.blocks[i].size
               /\ b.blocks[i].used % MaxAlign = 0
               /\ b.blocks[i].id < b.nextId /\ (b.blocks[i].owned <=> b.blocks[i].id # 0)
               /\ b.blocks[i].id \in Nat /\ (i # 1 => b.blocks[i].id < a.nextId)
    <3>1. CASE i = 1
      BY <1>0, <1>1, <1>2, <1>3, <1>f, <3>1, Parameters DEF BlocksSound
    <3>2. CASE i # 1
      <4>1. i - 1 \in 1 .. Len(a.blocks) /\ b.blocks[i] = a.blocks[i - 1]
        BY <2>1, <3>2
      <4>2. /\ Header <= b.blocks[i].used /\ b.blocks[i].used <= b.blocks[i].size
            /\ b.blocks[i].used % MaxAlign = 0
            /\ b.blocks[i].id < a.nextId /\ (b.blocks[i].owned <=> b.blocks[i].id # 0)
        BY <4>1, Zenon DEF BlocksSound
      <4>3. b.blocks[i].id \in Nat /\ a.nextId \in Nat /\ b.nextId = a.nextId + 1
        BY <1>2, <1>f, <4>1, Zenon
      <4>4. b.blocks[i].id < b.nextId
        BY <4>2, <4>3
      <4> QED
        BY <4>2, <4>3, <4>4, Zenon
    <3> QED
      BY <3>1, <3>2
  <2>4. ASSUME NEW i \in 1 .. Len(b.blocks), NEW j \in 1 .. Len(b.blocks),
               b.blocks[i].id = b.blocks[j].id
        PROVE  i = j
    <3>1. CASE i = 1 \/ j = 1
      BY <1>1, <1>3, <1>f, <2>2, <2>4, <3>1
    <3>2. CASE i # 1 /\ j # 1
      <4>1. a.blocks[i - 1].id = a.blocks[j - 1].id
        BY <2>1, <2>4, <3>2
      <4>2. i - 1 = j - 1
        BY <2>1, <3>2, <4>1 DEF BlocksSound
      <4> QED
        BY <1>3, <1>f, <4>2
    <3> QED
      BY <3>1, <3>2
  <2>5. b.nextId > 0
    <3>1. b.nextId = a.nextId + 1 /\ a.nextId \in Nat
      BY <1>2, <1>f, Zenon
    <3> QED
      BY <3>1
  <2> QED
    BY <2>2, <2>4, <2>5, Zenon DEF BlocksSound
<1> QED
  BY <1>0, <1>1, <1>3, <1>4, <1>5, <1>6, Parameters, <1>f DEF b

\* The rest of upb_arena_doalloc(): the memory is what was not used of the
\* first block, so that it is behind all that lay in the block before.
LEMMA TakeSound ==
  ASSUME NEW a \in ArenaSet, BlocksSound(a), NEW size \in Nat, Fits(a, AlignUp(size))
  PROVE  LET t == Take(a, size) IN
         /\ t.arena \in ArenaSet /\ BlocksSound(t.arena) /\ Grown(a, t.arena)
         /\ t.mem \in Memory /\ t.mem.size = size /\ Lies(t.arena, t.mem)
         /\ t.mem.block = a.blocks[1].id /\ t.mem.from = a.blocks[1].used
         /\ Len(t.arena.blocks) = Len(a.blocks)
<1> DEFINE n == AlignUp(size)
           b == [a EXCEPT !.blocks[1].used = @ + n, !.bytes = @ + n]
           m == [block |-> a.blocks[1].id, from |-> a.blocks[1].used, size |-> size]
<1>f. /\ a.blocks \in Seq(BlockSet) /\ a.nextId \in Nat /\ a.bytes \in Nat /\ a.next \in Nat
      /\ a.entries \in Seq(Entry) /\ Len(a.blocks) \in Nat
      /\ \A i \in 1 .. Len(a.blocks) :
           /\ a.blocks[i] \in BlockSet /\ a.blocks[i].id \in Nat /\ a.blocks[i].size \in Nat
           /\ a.blocks[i].used \in Nat /\ a.blocks[i].owned \in BOOLEAN
  BY ArenaFields
<1>1. n \in Nat /\ n >= size
  BY AlignUpFits
<1>2. /\ 1 \in 1 .. Len(a.blocks) /\ Head(a.blocks) = a.blocks[1]
      /\ a.blocks[1].size - a.blocks[1].used >= n
  BY <1>f DEF Fits
<1>b. /\ a.blocks[1] \in BlockSet /\ a.blocks[1].id \in Nat /\ a.blocks[1].size \in Nat
      /\ a.blocks[1].used \in Nat /\ a.blocks[1].owned \in BOOLEAN
  BY <1>f, <1>2
<1>3. Take(a, size) = [arena |-> b, mem |-> m]
  BY <1>2, Zenon DEF Take
<1> DEFINE x == [a.blocks[1] EXCEPT !.used = @ + n]
<1>4. b = [a EXCEPT !.blocks = [a.blocks EXCEPT ![1] = x], !.bytes = a.bytes + n]
  BY <1>f, <1>2 DEF ArenaSet
<1>5. /\ x \in BlockSet /\ x.id = a.blocks[1].id /\ x.size = a.blocks[1].size
      /\ x.owned = a.blocks[1].owned /\ x.used = a.blocks[1].used + n
  <2>1. /\ x = [id |-> a.blocks[1].id, size |-> a.blocks[1].size,
                 used |-> a.blocks[1].used + n, owned |-> a.blocks[1].owned]
        /\ a.blocks[1].used + n \in Nat
    <3> HIDE DEF n
    <3> QED
      BY <1>b, <1>1 DEF BlockSet
  <2> HIDE DEF n, x
  <2> QED
    BY <2>1, <1>b DEF BlockSet
<1> HIDE DEF n, b, m, x
<1>6. /\ b.blocks = [a.blocks EXCEPT ![1] = x] /\ b.bytes = a.bytes + n
      /\ b.next = a.next /\ b.nextId = a.nextId /\ b.entries = a.entries
      /\ b = [blocks |-> b.blocks, next |-> a.next, nextId |-> a.nextId, bytes |-> a.bytes + n,
              entries |-> a.entries]
  BY <1>4 DEF ArenaSet
<1>7. /\ b.blocks \in Seq(BlockSet) /\ Len(b.blocks) = Len(a.blocks) /\ b.blocks[1] = x
      /\ \A i \in 1 .. Len(a.blocks) : i # 1 => b.blocks[i] = a.blocks[i]
  BY <1>f, <1>2, <1>5, <1>6
<1>8. b \in ArenaSet
  <2>1. a.bytes + n \in Nat
    BY <1>f, <1>1
  <2> QED
    BY <1>f, <1>6, <1>7, <2>1 DEF ArenaSet
<1>9. (a.blocks[1].used + n) % MaxAlign = 0
  BY <1>f, <1>2, AlignUpAligned DEF n, BlocksSound
<1>10. BlocksSound(b)
  <2>1. ASSUME NEW i \in 1 .. Len(b.blocks)
        PROVE  /\ Header <= b.blocks[i].used /\ b.blocks[i].used <= b.blocks[i].size
               /\ b.blocks[i].used % MaxAlign = 0
               /\ b.blocks[i].id < b.nextId /\ (b.blocks[i].owned <=> b.blocks[i].id # 0)
               /\ b.blocks[i].id = a.blocks[i].id
    <3>1. CASE i = 1
      <4>1. /\ Header <= a.blocks[1].used /\ a.blocks[1].id < a.nextId
            /\ (a.blocks[1].owned <=> a.blocks[1].id # 0)
        BY <1>2 DEF BlocksSound
      <4>2. Header <= x.used /\ x.used <= x.size /\ x.used % MaxAlign = 0
        <5>1. x.used % MaxAlign = 0
          BY <1>5, <1>9, Zenon
        <5>2. Header <= x.used /\ x.used <= x.size
          BY <1>b, <1>1, <1>2, <1>5, <4>1, Parameters
        <5> QED
          BY <5>1, <5>2
      <4> QED
        BY <1>5, <1>6, <1>7, <3>1, <4>1, <4>2
    <3>2. CASE i # 1
      BY <1>6, <1>7, <3>2 DEF BlocksSound
    <3> QED
      BY <3>1, <3>2
  <2> QED
    BY <1>6, <1>7, <2>1 DEF BlocksSound
<1>11. Grown(a, b)
  <2>1. ASSUME NEW i \in 1 .. Len(a.blocks)
        PROVE  /\ b.blocks[i].id = a.blocks[i].id /\ b.blocks[i].owned = a.blocks[i].owned
               /\ b.blocks[i].used >= a.blocks[i].used
    <3>1. CASE i = 1
      BY <1>b, <1>1, <1>5, <1>7, <3>1
    <3>2. CASE i # 1
      BY <1>f, <1>7, <3>2
    <3> QED
      BY <3>1, <3>2
  <2> QED
    BY <1>f, <1>6, <1>7, <2>1 DEF Grown
<1>12. /\ m \in Memory /\ m.size = size /\ m.block = a.blocks[1].id
       /\ m.from = a.blocks[1].used
  BY <1>f, <1>2 DEF m, Memory
<1>13. Lies(b, m)
  <2>1. m.from % MaxAlign = 0 /\ Header <= m.from
    BY <1>2, <1>12 DEF BlocksSound
  <2>2. 1 \in 1 .. Len(b.blocks) /\ m.from + m.size <= b.blocks[1].used
    BY <1>b, <1>1, <1>2, <1>5, <1>7, <1>12
  <2> QED
    BY <1>5, <1>7, <1>12, <2>1, <2>2 DEF Lies
<1> QED
  BY <1>3, <1>7, <1>8, <1>10, <1>11, <1>12, <1>13

\* What lies in a block stays where it is when the arena grows.
LEMMA GrownKeeps ==
  ASSUME NEW a \in ArenaSet, NEW b \in ArenaSet, Grown(a, b), NEW m \in Memory, Lies(a, m)
  PROVE  Lies(b, m)
<1>1. PICK i \in 1 .. Len(a.blocks) :
        a.blocks[i].id = m.block /\ m.from + m.size <= a.blocks[i].used
  BY DEF Lies
<1>2. PICK k \in {0, 1} :
        /\ Len(b.blocks) = Len(a.blocks) + k
        /\ b.blocks[i + k].id = a.blocks[i].id /\ b.blocks[i + k].used >= a.blocks[i].used
  BY <1>1 DEF Grown
<1>3. i + k \in 1 .. Len(b.blocks)
  BY <1>1, <1>2, ArenaFields
<1>4. m.from \in Nat /\ m.size \in Nat /\ a.blocks[i].used \in Nat /\ b.blocks[i + k].used \in Nat
  BY <1>1, <1>3, ArenaFields DEF Memory
<1>5. b.blocks[i + k].id = m.block
  BY <1>1, <1>2, Zenon
<1>6. m.from + m.size <= b.blocks[i + k].used
  <2>1. /\ m.from + m.size <= a.blocks[i].used
        /\ b.blocks[i + k].used >= a.blocks[i].used
    BY <1>1, <1>2, Zenon
  <2> QED
    BY <1>4, <2>1
<1> QED
  BY <1>3, <1>5, <1>6, Zenon DEF Lies

LEMMA GrownTwice ==
  ASSUME NEW a \in ArenaSet, NEW b \in ArenaSet, NEW c \in ArenaSet,
         Grown(a, b), Grown(b, c), Len(c.blocks) = Len(b.blocks)
  PROVE  Grown(a, c)
<1>1. PICK k \in {0, 1} :
        /\ Len(b.blocks) = Len(a.blocks) + k /\ b.nextId = a.nextId + k
        /\ \A i \in 1 .. Len(a.blocks) :
             /\ b.blocks[i + k].id = a.blocks[i].id
             /\ b.blocks[i + k].owned = a.blocks[i].owned
             /\ b.blocks[i + k].used >= a.blocks[i].used
        /\ b.entries = a.entries
  BY DEF Grown
<1>2. /\ c.nextId = b.nextId
      /\ \A i \in 1 .. Len(b.blocks) :
           /\ c.blocks[i].id = b.blocks[i].id /\ c.blocks[i].owned = b.blocks[i].owned
           /\ c.blocks[i].used >= b.blocks[i].used
      /\ c.entries = b.entries
  <2>1. PICK l \in {0, 1} :
          /\ Len(c.blocks) = Len(b.blocks) + l /\ c.nextId = b.nextId + l
          /\ \A i \in 1 .. Len(b.blocks) :
               /\ c.blocks[i + l].id = b.blocks[i].id
               /\ c.blocks[i + l].owned = b.blocks[i].owned
               /\ c.blocks[i + l].used >= b.blocks[i].used
          /\ c.entries = b.entries
    BY DEF Grown
  <2>2. l = 0
    BY <2>1, ArenaFields
  <2>3. \A i \in 1 .. Len(b.blocks) : i + 0 = i
    OBVIOUS
  <2>4. c.nextId = b.nextId
    BY <2>1, <2>2, ArenaFields
  <2> QED
    BY <2>1, <2>2, <2>3, <2>4
<1>3. ASSUME NEW i \in 1 .. Len(a.blocks)
      PROVE  /\ c.blocks[i + k].id = a.blocks[i].id /\ c.blocks[i + k].owned = a.blocks[i].owned
             /\ c.blocks[i + k].used >= a.blocks[i].used
  <2>1. i + k \in 1 .. Len(b.blocks)
    BY <1>1, ArenaFields
  <2>2. /\ a.blocks[i].used \in Nat /\ b.blocks[i + k].used \in Nat
        /\ c.blocks[i + k].used \in Nat
    BY <2>1, ArenaFields
  <2>3. /\ c.blocks[i + k].used >= b.blocks[i + k].used /\ b.blocks[i + k].used >= a.blocks[i].used
        /\ c.blocks[i + k].id = b.blocks[i + k].id /\ b.blocks[i + k].id = a.blocks[i].id
        /\ c.blocks[i + k].owned = b.blocks[i + k].owned
        /\ b.blocks[i + k].owned = a.blocks[i].owned
    BY <1>1, <1>2, <2>1
  <2> QED
    BY <2>2, <2>3
<1> QED
  BY <1>1, <1>2, <1>3 DEF Grown

\* upb_arena_doalloc(): no memory, or memory behind all there was in its block.
LEMMA AllocSound ==
  ASSUME NEW a \in ArenaSet, BlocksSound(a), NEW size \in Nat, NEW works \in BOOLEAN
  PROVE  LET r == Alloc(a, size, works) IN
         \/ r.arena = a /\ r.mem = NoMemory
         \/ /\ r.arena \in ArenaSet /\ BlocksSound(r.arena) /\ Grown(a, r.arena)
            /\ r.mem \in Memory /\ r.mem # NoMemory /\ Lies(r.arena, r.mem)
            /\ \A m \in Memory : Lies(a, m) /\ m.block = r.mem.block
                                => m.from + m.size <= r.mem.from
<1>1. AlignUp(size) \in Nat
  BY AlignUpFits
<1>2. ASSUME NEW b \in ArenaSet, BlocksSound(b), Fits(b, AlignUp(size)), Grown(a, b) \/ b = a
      PROVE  LET r == Take(b, size) IN
             /\ r.arena \in ArenaSet /\ BlocksSound(r.arena) /\ Grown(a, r.arena)
             /\ r.mem \in Memory /\ r.mem # NoMemory /\ Lies(r.arena, r.mem)
             /\ \A m \in Memory : Lies(a, m) /\ m.block = r.mem.block
                                 => m.from + m.size <= r.mem.from
  <2> DEFINE r == Take(b, size)
  <2>1. /\ r.arena \in ArenaSet /\ BlocksSound(r.arena) /\ Grown(b, r.arena)
        /\ r.mem \in Memory /\ Lies(r.arena, r.mem)
        /\ r.mem.block = b.blocks[1].id /\ r.mem.from = b.blocks[1].used
        /\ Len(r.arena.blocks) = Len(b.blocks)
    BY <1>2, TakeSound
  <2> HIDE DEF r
  <2>2. Grown(a, r.arena)
    BY <1>2, <2>1, GrownTwice
  <2>3. r.mem # NoMemory
    <3>1. r.mem.from \in Nat /\ r.mem.from >= Header
      BY <2>1 DEF Lies, Memory
    <3>2. r.mem.from # 0
      BY <3>1, Parameters
    <3> QED
      BY <3>2 DEF NoMemory
  <2>4. 1 \in 1 .. Len(b.blocks)
    BY <1>2, ArenaFields DEF Fits
  <2>5. ASSUME NEW m \in Memory, Lies(a, m), m.block = r.mem.block
        PROVE  m.from + m.size <= r.mem.from
    <3>1. Lies(b, m)
      BY <1>2, <2>5, GrownKeeps
    <3>2. PICK i \in 1 .. Len(b.blocks) :
            b.blocks[i].id = m.block /\ m.from + m.size <= b.blocks[i].used
      BY <3>1 DEF Lies
    <3>3. i = 1
      BY <1>2, <2>1, <2>4, <2>5, <3>2 DEF BlocksSound
    <3> QED
      BY <2>1, <3>2, <3>3
  <2> QED
    BY <2>1, <2>2, <2>3, <2>5 DEF r
<1>3. CASE Fits(a, AlignUp(size))
  BY <1>2, <1>3 DEF Alloc
<1>4. CASE ~Fits(a, AlignUp(size)) /\ works
  <2> DEFINE b == WithBlock(a, AlignUp(size))
  <2>1. /\ b \in ArenaSet /\ BlocksSound(b) /\ Grown(a, b)
        /\ b.blocks # <<>> /\ b.blocks[1].size - b.blocks[1].used >= AlignUp(size)
    BY <1>1, WithBlockSound
  <2>2. Alloc(a, size, works) = Take(b, size)
    BY <1>4 DEF Alloc
  <2> HIDE DEF b
  <2>3. Fits(b, AlignUp(size))
    BY <2>1, ArenaFields DEF Fits
  <2> QED
    BY <1>2, <2>1, <2>2, <2>3
<1>5. CASE ~Fits(a, AlignUp(size)) /\ ~works
  BY <1>5 DEF Alloc
<1> QED
  BY <1>3, <1>4, <1>5

-----------------------------------------------------------------------------
(* The inductive invariant. *)

OwnedBlocks(a) == {b.id : b \in {x \in ToSet(a.blocks) : x.owned}}

\* What is handed out lies in what is used of a block, apart from all else.
MemoryInv ==
  /\ arena \in ArenaSet /\ BlocksSound(arena) /\ held = OwnedBlocks(arena)
  /\ given \subseteq Memory /\ \A m \in given : Lies(arena, m)
  /\ \A m, n \in given : m # n /\ m.block = n.block
                       => m.from + m.size <= n.from \/ n.from + n.size <= m.from
  /\ arena.nextId <= MaxBlocks + 1
  /\ phase = "use" => arena.nextId <= Len(arena.blocks) + 1

\* The entries whose functions are still to run.
Rest == IF phase = "use" THEN arena.entries ELSE todo

\* What ran and what is to run are together the functions registered, last first.
CleanupInv ==
  /\ cleanups \in Seq(Nat) /\ ran \in Seq(Nat) /\ todo \in Seq(Entry)
  /\ phase \in {"use", "cleanup", "done"} /\ envOk \in BOOLEAN /\ broken \in BOOLEAN
  /\ Len(ran) + Len(Rest) = Len(cleanups)
  /\ \A i \in 1 .. Len(ran) : ran[i] = cleanups[Len(cleanups) + 1 - i]
  /\ \A i \in 1 .. Len(Rest) : Rest[i].fn = cleanups[Len(Rest) + 1 - i]
  /\ phase = "use" => ran = <<>>
  /\ phase = "done" => todo = <<>> /\ arena.entries = <<>>
  /\ \A i \in 1 .. Len(arena.entries) : arena.entries[i].mem.block \in held \cup {0}
  /\ \A i \in 1 .. Len(todo) : todo[i].mem.block \in held \cup {0}

ArenaInv == MemoryInv /\ CleanupInv

LEMMA OwnedIn ==
  ASSUME NEW a \in ArenaSet, NEW id
  PROVE  id \in OwnedBlocks(a)
           <=> \E i \in 1 .. Len(a.blocks) : a.blocks[i].owned /\ a.blocks[i].id = id
<1>1. DOMAIN a.blocks = 1 .. Len(a.blocks)
  BY ArenaFields
<1> QED
  BY <1>1 DEF OwnedBlocks, ToSet

LEMMA GrownOwns ==
  ASSUME NEW a \in ArenaSet, NEW b \in ArenaSet, Grown(a, b)
  PROVE  OwnedBlocks(a) \subseteq OwnedBlocks(b)
<1> SUFFICES ASSUME NEW id \in OwnedBlocks(a) PROVE id \in OwnedBlocks(b)
  OBVIOUS
<1>1. PICK i \in 1 .. Len(a.blocks) : a.blocks[i].owned /\ a.blocks[i].id = id
  BY OwnedIn
<1>2. PICK k \in {0, 1} :
        /\ Len(b.blocks) = Len(a.blocks) + k
        /\ b.blocks[i + k].id = a.blocks[i].id /\ b.blocks[i + k].owned = a.blocks[i].owned
  BY <1>1 DEF Grown
<1>3. i + k \in 1 .. Len(b.blocks)
  BY <1>1, <1>2, ArenaFields
<1> QED
  BY <1>1, <1>2, <1>3, OwnedIn

LEMMA InvInit == ArenaInit => ArenaInv
<1> SUFFICES ASSUME ArenaInit PROVE ArenaInv
  OBVIOUS
<1> DEFINE b == Block(0, InitialBlock, FALSE)
<1>1. /\ arena.next = FirstBlock /\ arena.nextId = 1 /\ arena.bytes = 0 /\ arena.entries = <<>>
      /\ arena.blocks = IF InitialBlock > Header THEN <<b>> ELSE <<>>
      /\ arena = [blocks |-> arena.blocks, next |-> FirstBlock, nextId |-> 1, bytes |-> 0,
                  entries |-> <<>>]
  BY DEF ArenaInit
<1>2. /\ b \in BlockSet /\ b.id = 0 /\ b.size = InitialBlock /\ b.used = Header
      /\ b.owned = FALSE
  BY Parameters, HeaderAligned DEF Block, BlockSet
<1> HIDE DEF b
<1>3. /\ arena.blocks \in Seq(BlockSet) /\ Len(arena.blocks) \in {0, 1}
      /\ \A i \in 1 .. Len(arena.blocks) : /\ arena.blocks[i] = b /\ InitialBlock > Header
                                         /\ i = 1
  <2>1. CASE InitialBlock > Header
    BY <1>1, <1>2, <2>1
  <2>2. CASE ~(InitialBlock > Header)
    BY <1>1, <2>2
  <2> QED
    BY <2>1, <2>2
<1>4. arena \in ArenaSet
  <2>1. <<>> \in Seq(Entry) /\ 1 \in Nat /\ 0 \in Nat
    OBVIOUS
  <2> QED
    BY <1>1, <1>3, <2>1, Parameters, Zenon DEF ArenaSet
<1>5. BlocksSound(arena)
  BY <1>1, <1>2, <1>3, Parameters DEF BlocksSound
<1>6. held = OwnedBlocks(arena)
  <2>1. \A id : id \notin OwnedBlocks(arena)
    BY <1>2, <1>3, <1>4, OwnedIn
  <2> QED
    BY <2>1 DEF ArenaInit
<1>7. MemoryInv
  <2>1. arena.nextId <= MaxBlocks + 1 /\ arena.nextId <= Len(arena.blocks) + 1
    BY <1>1, <1>3, Parameters
  <2> QED
    BY <1>4, <1>5, <1>6, <2>1 DEF MemoryInv, ArenaInit
<1>8. CleanupInv
  <2>1. Rest = <<>> /\ ran = <<>> /\ todo = <<>> /\ cleanups = <<>> /\ phase = "use"
    BY <1>1 DEF ArenaInit, Rest
  <2>2. envOk \in BOOLEAN /\ broken \in BOOLEAN
    BY DEF ArenaInit
  <2> QED
    BY <1>1, <2>1, <2>2 DEF CleanupInv
<1> QED
  BY <1>7, <1>8 DEF ArenaInv

\* An allocation keeps the memory apart, and what was held is still held.
LEMMA AllocKeeps ==
  ASSUME MemoryInv, phase = "use", Len(arena.blocks) < MaxBlocks,
         NEW size \in Nat, NEW works \in BOOLEAN, NEW r, r = Alloc(arena, size, works),
         r.mem # NoMemory, Hold(r.arena), given' = given \cup {r.mem},
         arena' \in ArenaSet, arena'.blocks = r.arena.blocks, arena'.nextId = r.arena.nextId
  PROVE  /\ MemoryInv' /\ held \subseteq held' /\ r.mem \in Memory
         /\ r.mem.block \in held' \cup {0}
<1> DEFINE b == r.arena
<1>1. /\ b \in ArenaSet /\ BlocksSound(b) /\ Grown(arena, b)
      /\ r.mem \in Memory /\ Lies(b, r.mem)
      /\ \A m \in Memory : Lies(arena, m) /\ m.block = r.mem.block
                          => m.from + m.size <= r.mem.from
  BY AllocSound DEF MemoryInv
<1>2. BlocksSound(arena') /\ OwnedBlocks(arena') = OwnedBlocks(b)
  BY <1>1 DEF BlocksSound, OwnedBlocks
<1>3. \A m : Lies(b, m) => Lies(arena', m)
  BY DEF Lies
<1>4. held' = OwnedBlocks(b) /\ held \subseteq held'
  <2>1. held' = held \cup OwnedBlocks(b)
    BY DEF Hold, OwnedBlocks
  <2>2. held \subseteq OwnedBlocks(b)
    BY <1>1, GrownOwns DEF MemoryInv
  <2> QED
    BY <2>1, <2>2
<1>5. r.mem.block \in held' \cup {0}
  <2>1. PICK i \in 1 .. Len(b.blocks) : b.blocks[i].id = r.mem.block
    BY <1>1 DEF Lies
  <2>2. CASE b.blocks[i].owned
    BY <1>1, <1>4, <2>1, <2>2, OwnedIn
  <2>3. CASE ~b.blocks[i].owned
    BY <1>1, <2>1, <2>3 DEF BlocksSound
  <2> QED
    BY <2>2, <2>3
<1>6. given' \subseteq Memory /\ \A m \in given' : Lies(arena', m)
  <2>1. \A m \in given : m \in Memory /\ Lies(arena, m)
    BY DEF MemoryInv
  <2>2. \A m \in given : Lies(b, m)
    BY <1>1, <2>1, GrownKeeps DEF MemoryInv
  <2> QED
    BY <1>1, <1>3, <2>1, <2>2
<1>7. ASSUME NEW m \in given', NEW n \in given', m # n, m.block = n.block
      PROVE  m.from + m.size <= n.from \/ n.from + n.size <= m.from
  <2>1. CASE m \in given /\ n \in given
    BY <1>7, <2>1 DEF MemoryInv
  <2>2. CASE m \in given /\ n = r.mem
    BY <1>1, <1>7, <2>2 DEF MemoryInv
  <2>3. CASE n \in given /\ m = r.mem
    BY <1>1, <1>7, <2>3 DEF MemoryInv
  <2> QED
    BY <1>7, <2>1, <2>2, <2>3
<1>8. arena'.nextId <= MaxBlocks + 1 /\ arena'.nextId <= Len(arena'.blocks) + 1
  <2>1. PICK k \in {0, 1} : Len(b.blocks) = Len(arena.blocks) + k /\ b.nextId = arena.nextId + k
    BY <1>1 DEF Grown
  <2>2. /\ arena.nextId \in Nat /\ Len(arena.blocks) \in Nat
        /\ arena.nextId <= Len(arena.blocks) + 1
    BY ArenaFields DEF MemoryInv
  <2>3. Len(arena'.blocks) = Len(arena.blocks) + k /\ arena'.nextId = arena.nextId + k
    BY <2>1
  <2>4. /\ arena.nextId + k <= MaxBlocks + 1
        /\ arena.nextId + k <= Len(arena.blocks) + k + 1
    BY <2>2, Parameters
  <2> QED
    BY <2>3, <2>4, Zenon
<1> QED
  BY <1>1, <1>2, <1>4, <1>5, <1>6, <1>7, <1>8 DEF MemoryInv

\* Nothing is said of what the next step changes besides.
LEMMA Untouched ==
  ASSUME ArenaInv, UNCHANGED <<arena, held, given, cleanups, ran, todo, phase>>,
         envOk' \in BOOLEAN, broken' \in BOOLEAN
  PROVE  ArenaInv'
BY DEF ArenaInv, MemoryInv, CleanupInv, Rest, BlocksSound, Lies, OwnedBlocks

LEMMA HoldAgain ==
  ASSUME MemoryInv, Hold(arena)
  PROVE  held' = held
BY DEF MemoryInv, Hold, OwnedBlocks

LEMMA MallocKeeps ==
  ASSUME ArenaInv, NEW size \in Nat, NEW works \in BOOLEAN, Malloc(size, works)
  PROVE  ArenaInv'
<1> DEFINE r == Alloc(arena, size, works)
<1>1. /\ phase = "use" /\ Len(arena.blocks) < MaxBlocks
      /\ arena' = r.arena /\ Hold(r.arena)
      /\ given' = given \cup ({r.mem} \ {NoMemory})
      /\ broken' = (broken \/ r.mem = NoMemory)
      /\ UNCHANGED <<cleanups, ran, todo, phase, envOk>>
  BY DEF Malloc
<1>2. \/ r.arena = arena /\ r.mem = NoMemory
      \/ r.arena \in ArenaSet /\ r.mem # NoMemory /\ Grown(arena, r.arena)
  BY AllocSound DEF ArenaInv, MemoryInv
<1>3. broken' \in BOOLEAN /\ envOk' \in BOOLEAN
  BY <1>1 DEF ArenaInv, CleanupInv
<1> HIDE DEF r
<1>4. CASE r.mem = NoMemory
  <2>1. arena' = arena /\ Hold(arena) /\ given' = given
    BY <1>1, <1>2, <1>4
  <2>2. held' = held
    BY <2>1, HoldAgain DEF ArenaInv
  <2> QED
    BY <1>1, <1>3, <2>1, <2>2, Untouched
<1>5. CASE r.mem # NoMemory
  <2>1. given' = given \cup {r.mem} /\ r.arena \in ArenaSet
    BY <1>1, <1>2, <1>5
  <2>2. MemoryInv' /\ held \subseteq held'
    BY <1>1, <1>5, <2>1, AllocKeeps DEF ArenaInv, r
  <2>3. arena'.entries = arena.entries
    BY <1>1, <1>2, <1>5 DEF Grown
  <2>4. Rest' = Rest
    BY <1>1, <2>3 DEF Rest
  <2>5. CleanupInv'
    BY <1>1, <1>3, <2>2, <2>3, <2>4 DEF ArenaInv, CleanupInv
  <2> QED
    BY <2>2, <2>5 DEF ArenaInv
<1> QED
  BY <1>4, <1>5

LEMMA AddCleanupKeeps ==
  ASSUME ArenaInv, NEW works \in BOOLEAN, AddCleanup(works)
  PROVE  ArenaInv'
<1> DEFINE r == Alloc(arena, EntrySize, works)
           id == Len(cleanups) + 1
           e == [fn |-> id, mem |-> r.mem]
<1>1. /\ phase = "use" /\ Len(arena.blocks) < MaxBlocks
      /\ UNCHANGED <<ran, todo, phase, envOk>>
  BY DEF AddCleanup
<1>2. \/ r.arena = arena /\ r.mem = NoMemory
      \/ r.arena \in ArenaSet /\ r.mem # NoMemory /\ Grown(arena, r.arena)
  BY AllocSound, Parameters DEF ArenaInv, MemoryInv
<1>3. CASE r.mem = NoMemory
  <2>1. broken' = TRUE /\ UNCHANGED <<arena, held, given, cleanups>>
    BY <1>3 DEF AddCleanup
  <2>2. envOk' \in BOOLEAN
    BY <1>1 DEF ArenaInv, CleanupInv
  <2> QED
    BY <1>1, <2>1, <2>2, Untouched
<1>4. CASE r.mem # NoMemory
  <2>1. /\ arena' = [r.arena EXCEPT !.entries = <<e>> \o @]
        /\ Hold(r.arena) /\ given' = given \cup {r.mem} /\ cleanups' = Append(cleanups, id)
        /\ UNCHANGED broken
    BY <1>4 DEF AddCleanup
  <2>2. /\ r.arena \in ArenaSet /\ r.arena.entries = arena.entries
        /\ r.arena.entries \in Seq(Entry)
    BY <1>2, <1>4, ArenaFields DEF Grown
  <2>3. r.mem \in Memory
    BY <1>1, <1>4, AllocSound, Parameters DEF ArenaInv, MemoryInv
  <2>4. cleanups \in Seq(Nat) /\ id \in Nat
    BY DEF ArenaInv, CleanupInv
  <2>5. e \in Entry /\ e.fn = id /\ e.mem = r.mem
    BY <2>3, <2>4 DEF Entry
  <2> DEFINE more == <<e>> \o arena.entries
  <2>6. /\ more \in Seq(Entry) /\ Len(more) = Len(arena.entries) + 1 /\ more[1] = e
        /\ Len(arena.entries) \in Nat
        /\ \A i \in 2 .. Len(arena.entries) + 1 : more[i] = arena.entries[i - 1]
    <3> HIDE DEF e
    <3> QED
      BY <2>2, <2>5
  <2> HIDE DEF r, e, more, id
  <2>7. /\ arena'.blocks = r.arena.blocks /\ arena'.nextId = r.arena.nextId
        /\ arena'.entries = more /\ arena' \in ArenaSet
    <3>1. arena' = [r.arena EXCEPT !.entries = more]
      BY <2>1, <2>2 DEF more, ArenaSet
    <3> QED
      BY <2>2, <2>6, <3>1 DEF ArenaSet
  <2>8. /\ MemoryInv' /\ held \subseteq held' /\ r.mem.block \in held' \cup {0}
    BY <1>1, <1>4, <2>1, <2>7, AllocKeeps, Parameters DEF ArenaInv, r
  <2>9. CleanupInv'
    <3>1. Rest = arena.entries /\ Rest' = more /\ ran = <<>> /\ ran' = <<>>
      BY <1>1, <2>7 DEF Rest, ArenaInv, CleanupInv
    <3>2. /\ cleanups' \in Seq(Nat) /\ Len(cleanups') = Len(cleanups) + 1
          /\ cleanups'[Len(cleanups) + 1] = id
          /\ \A i \in 1 .. Len(cleanups) : cleanups'[i] = cleanups[i]
          /\ Len(cleanups) = Len(arena.entries)
      BY <2>1, <2>4, <2>6, <3>1 DEF ArenaInv, CleanupInv
    <3>3. ASSUME NEW i \in 1 .. Len(more)
          PROVE  more[i].fn = cleanups'[Len(more) + 1 - i]
      <4>1. CASE i = 1
        BY <2>5, <2>6, <3>2, <4>1
      <4>2. CASE i # 1
        <5>1. more[i] = arena.entries[i - 1] /\ i - 1 \in 1 .. Len(arena.entries)
          BY <2>6, <4>2
        <5>2. arena.entries[i - 1].fn = cleanups[Len(arena.entries) + 1 - (i - 1)]
          BY <3>1, <5>1 DEF ArenaInv, CleanupInv
        <5>3. /\ Len(arena.entries) + 1 - (i - 1) = Len(more) + 1 - i
              /\ Len(more) + 1 - i \in 1 .. Len(cleanups)
          BY <2>6, <3>2, <4>2
        <5> QED
          BY <3>2, <5>1, <5>2, <5>3
      <4> QED
        BY <4>1, <4>2
    <3>4. ASSUME NEW i \in 1 .. Len(more)
          PROVE  more[i].mem.block \in held' \cup {0}
      <4>1. CASE i = 1
        BY <2>5, <2>6, <2>8, <4>1
      <4>2. CASE i # 1
        <5>1. more[i] = arena.entries[i - 1] /\ i - 1 \in 1 .. Len(arena.entries)
          BY <2>6, <4>2
        <5> QED
          BY <2>8, <5>1 DEF ArenaInv, CleanupInv
      <4> QED
        BY <4>1, <4>2
    <3>5. /\ envOk' \in BOOLEAN /\ broken' \in BOOLEAN /\ todo' \in Seq(Entry)
          /\ \A i \in 1 .. Len(todo') : todo'[i].mem.block \in held' \cup {0}
      BY <1>1, <2>1, <2>8 DEF ArenaInv, CleanupInv
    <3>6. Len(ran') + Len(Rest') = Len(cleanups') /\ ran' \in Seq(Nat) /\ Len(ran') = 0
      BY <2>6, <3>1, <3>2
    <3> QED
      BY <1>1, <2>7, <3>1, <3>2, <3>3, <3>4, <3>5, <3>6 DEF CleanupInv
  <2> QED
    BY <2>8, <2>9 DEF ArenaInv
<1> QED
  BY <1>3, <1>4

\* upb_arena_uninit() takes up the list of the cleanup functions.
LEMMA UninitKeeps == ArenaInv /\ Uninit => ArenaInv'
<1> SUFFICES ASSUME ArenaInv, Uninit PROVE ArenaInv'
  OBVIOUS
<1>1. /\ phase \in {"use", "done"} /\ phase' = "cleanup" /\ todo' = arena.entries
      /\ UNCHANGED <<arena, held, given, cleanups, ran, envOk, broken>>
  BY DEF Uninit
<1>2. MemoryInv'
  BY <1>1 DEF ArenaInv, MemoryInv, BlocksSound, Lies, OwnedBlocks
<1>3. Rest' = arena.entries
  BY <1>1 DEF Rest
<1>4. Rest = arena.entries
  BY <1>1 DEF Rest, ArenaInv, CleanupInv
<1>5. arena.entries \in Seq(Entry)
  BY ArenaFields DEF ArenaInv, MemoryInv
<1>6. CleanupInv'
  BY <1>1, <1>3, <1>4, <1>5 DEF ArenaInv, CleanupInv
<1> QED
  BY <1>2, <1>6 DEF ArenaInv

\* The function that runs is the last one registered that has not run.
LEMMA RunCleanupKeeps == ArenaInv /\ RunCleanup => ArenaInv'
<1> SUFFICES ASSUME ArenaInv, RunCleanup PROVE ArenaInv'
  OBVIOUS
<1>1. /\ phase = "cleanup" /\ todo # <<>> /\ phase' = "cleanup"
      /\ ran' = Append(ran, Head(todo).fn) /\ todo' = Tail(todo)
      /\ UNCHANGED <<arena, held, given, cleanups, envOk, broken>>
  BY DEF RunCleanup
<1>2. MemoryInv'
  BY <1>1 DEF ArenaInv, MemoryInv, BlocksSound, Lies, OwnedBlocks
<1>3. Rest = todo /\ Rest' = Tail(todo)
  BY <1>1 DEF Rest
<1>4. /\ ran \in Seq(Nat) /\ todo \in Seq(Entry) /\ cleanups \in Seq(Nat)
      /\ Len(ran) + Len(todo) = Len(cleanups)
      /\ \A i \in 1 .. Len(ran) : ran[i] = cleanups[Len(cleanups) + 1 - i]
      /\ \A i \in 1 .. Len(todo) : todo[i].fn = cleanups[Len(todo) + 1 - i]
      /\ \A i \in 1 .. Len(todo) : todo[i].mem.block \in held \cup {0}
  BY <1>3 DEF ArenaInv, CleanupInv
<1>n. Len(ran) \in Nat /\ Len(todo) \in Nat /\ Len(cleanups) \in Nat
  BY <1>4
<1>5. /\ Head(todo) = todo[1] /\ todo[1] \in Entry /\ Tail(todo) \in Seq(Entry)
      /\ Len(Tail(todo)) = Len(todo) - 1 /\ 1 \in 1 .. Len(todo)
      /\ \A i \in 1 .. Len(todo) - 1 : Tail(todo)[i] = todo[i + 1]
  BY <1>1, <1>4
<1>6. /\ ran' \in Seq(Nat) /\ Len(ran') = Len(ran) + 1 /\ ran'[Len(ran) + 1] = todo[1].fn
      /\ \A i \in 1 .. Len(ran) : ran'[i] = ran[i]
  <2>1. todo[1].fn \in Nat /\ ran' = Append(ran, todo[1].fn)
    BY <1>1, <1>5 DEF Entry
  <2> QED
    BY <1>4, <2>1
<1>7. ASSUME NEW i \in 1 .. Len(ran')
      PROVE  ran'[i] = cleanups[Len(cleanups) + 1 - i]
  <2>1. CASE i = Len(ran) + 1
    <3>1. todo[1].fn = cleanups[Len(todo) + 1 - 1]
      BY <1>4, <1>5
    <3>2. Len(todo) + 1 - 1 = Len(cleanups) + 1 - i
      BY <1>4, <2>1
    <3> QED
      BY <1>6, <2>1, <3>1, <3>2
  <2>2. CASE i # Len(ran) + 1
    <3>1. i \in 1 .. Len(ran)
      BY <1>6, <1>n, <2>2
    <3> QED
      BY <1>4, <1>6, <3>1
  <2> QED
    BY <2>1, <2>2
<1>8. ASSUME NEW i \in 1 .. Len(Tail(todo))
      PROVE  /\ Tail(todo)[i].fn = cleanups[Len(Tail(todo)) + 1 - i]
             /\ Tail(todo)[i].mem.block \in held \cup {0}
  <2>1. i + 1 \in 1 .. Len(todo) /\ Tail(todo)[i] = todo[i + 1]
    BY <1>4, <1>5
  <2>2. todo[i + 1].fn = cleanups[Len(todo) + 1 - (i + 1)]
    BY <1>4, <2>1
  <2>3. Len(todo) + 1 - (i + 1) = Len(Tail(todo)) + 1 - i
    <3>1. i \in Int /\ Len(Tail(todo)) = Len(todo) - 1
      BY <1>5
    <3> QED
      BY <1>n, <3>1
  <2> QED
    BY <1>4, <2>1, <2>2, <2>3
<1>9. Len(ran') + Len(Rest') = Len(cleanups)
  BY <1>3, <1>4, <1>5, <1>6
<1>10. CleanupInv'
  BY <1>1, <1>3, <1>5, <1>6, <1>7, <1>8, <1>9 DEF ArenaInv, CleanupInv
<1> QED
  BY <1>2, <1>10 DEF ArenaInv

LEMMA FreeBlocksKeeps == ArenaInv /\ FreeBlocks => ArenaInv'
<1> SUFFICES ASSUME ArenaInv, FreeBlocks PROVE ArenaInv'
  OBVIOUS
<1>1. /\ phase = "cleanup" /\ todo = <<>> /\ phase' = "done" /\ given' = {}
      /\ held' = held \ OwnedBlocks(arena)
      /\ arena' = [arena EXCEPT !.blocks = <<>>, !.entries = <<>>]
      /\ UNCHANGED <<cleanups, ran, todo, envOk, broken>>
  BY DEF FreeBlocks, OwnedBlocks
<1>2. /\ arena' \in ArenaSet /\ arena'.blocks = <<>> /\ arena'.entries = <<>>
      /\ arena'.nextId = arena.nextId
  <2>1. arena \in ArenaSet /\ <<>> \in Seq(BlockSet) /\ <<>> \in Seq(Entry)
    BY DEF ArenaInv, MemoryInv
  <2> QED
    BY <1>1, <2>1 DEF ArenaSet
<1>3. held' = {} /\ OwnedBlocks(arena') = {}
  <2>1. \A id : id \notin OwnedBlocks(arena')
    BY <1>2, OwnedIn
  <2> QED
    BY <1>1, <2>1 DEF ArenaInv, MemoryInv
<1>4. MemoryInv'
  BY <1>1, <1>2, <1>3 DEF ArenaInv, MemoryInv, BlocksSound
<1>5. Rest = todo /\ Rest' = todo
  BY <1>1 DEF Rest
<1>6. CleanupInv'
  BY <1>1, <1>2, <1>5 DEF ArenaInv, CleanupInv
<1> QED
  BY <1>4, <1>6 DEF ArenaInv

LEMMA InvNext == ArenaInv /\ [ArenaNext]_arenaVars => ArenaInv'
<1> SUFFICES ASSUME ArenaInv, [ArenaNext]_arenaVars PROVE ArenaInv'
  OBVIOUS
<1>1. ASSUME NEW size \in Request, NEW works \in BOOLEAN, Malloc(size, works) PROVE ArenaInv'
  BY <1>1, MallocKeeps, Parameters
<1>2. ASSUME NEW size \in Request, NEW works \in BOOLEAN, NEW old \in given,
             Realloc(old, size, works)
      PROVE  ArenaInv'
  BY <1>2, MallocKeeps, Parameters DEF Realloc
<1>3. ASSUME NEW works \in BOOLEAN, AddCleanup(works) PROVE ArenaInv'
  BY <1>3, AddCleanupKeeps
<1>4. ASSUME NEW recovered \in BOOLEAN, ReportError(recovered) PROVE ArenaInv'
  <2>1. /\ UNCHANGED <<arena, held, given, cleanups, ran, todo, phase>> /\ envOk' = FALSE
        /\ broken' \in BOOLEAN
    BY <1>4 DEF ReportError, ArenaInv, CleanupInv
  <2> QED
    BY <2>1, Untouched
<1>5. CASE UNCHANGED arenaVars
  BY <1>5, Untouched DEF arenaVars, ArenaInv, CleanupInv
<1> QED
  BY <1>1, <1>2, <1>3, <1>4, <1>5, UninitKeeps, RunCleanupKeeps, FreeBlocksKeeps DEF ArenaNext

LEMMA InvSound == ArenaInv => ArenaSound
<1> SUFFICES ASSUME ArenaInv PROVE ArenaSound
  OBVIOUS
<1> DEFINE n == Len(arena.blocks)
<1>0. arena \in ArenaSet /\ BlocksSound(arena) /\ held = OwnedBlocks(arena)
  BY DEF ArenaInv, MemoryInv
<1>1. ArenaTypeOK
  <2>1. \A i \in 1 .. n : arena.blocks[i].used \in 0 .. arena.blocks[i].size
    BY <1>0, ArenaFields DEF BlocksSound
  <2>2. ASSUME NEW id \in held PROVE id \in 1 .. MaxBlocks
    <3>1. PICK i \in 1 .. n : arena.blocks[i].owned /\ arena.blocks[i].id = id
      BY <1>0, OwnedIn
    <3>2. /\ arena.blocks[i].id \in Nat /\ arena.blocks[i].id < arena.nextId
          /\ arena.blocks[i].id # 0 /\ arena.nextId \in Nat /\ arena.nextId <= MaxBlocks + 1
      BY <1>0, <3>1, ArenaFields DEF BlocksSound, ArenaInv, MemoryInv
    <3> QED
      BY <3>1, <3>2, Parameters
  <2> QED
    BY <2>1, <2>2 DEF ArenaTypeOK, ArenaInv, CleanupInv
<1>2. AllocationsApart
  <2>1. ASSUME NEW m \in given
        PROVE  /\ m.from % MaxAlign = 0
               /\ \E b \in ToSet(arena.blocks) :
                    b.id = m.block /\ Header <= m.from /\ m.from + m.size <= b.size
                                   /\ (b.owned => b.id \in held)
    <3>1. Lies(arena, m) /\ m.from \in Nat /\ m.size \in Nat
      BY DEF ArenaInv, MemoryInv, Memory
    <3>2. PICK i \in 1 .. n : arena.blocks[i].id = m.block /\ m.from + m.size <= arena.blocks[i].used
      BY <3>1 DEF Lies
    <3>3. arena.blocks[i] \in ToSet(arena.blocks)
      BY <1>0, ArenaFields DEF ToSet
    <3>4. m.from + m.size <= arena.blocks[i].size
      BY <1>0, <3>1, <3>2, ArenaFields DEF BlocksSound
    <3>5. arena.blocks[i].owned => arena.blocks[i].id \in held
      BY <1>0, OwnedIn
    <3> QED
      BY <3>1, <3>2, <3>3, <3>4, <3>5 DEF Lies
  <2> QED
    BY <2>1 DEF AllocationsApart, ArenaInv, MemoryInv
<1>3. BlocksReturned
  BY <1>0 DEF BlocksReturned, OwnedBlocks
<1>4. CleanupsReversed
  <2>1. ASSUME phase = "done" PROVE ran = Reverse(cleanups)
    <3>1. Rest = <<>>
      BY <2>1 DEF Rest, ArenaInv, CleanupInv
    <3>2. /\ ran \in Seq(Nat) /\ cleanups \in Seq(Nat) /\ Len(ran) = Len(cleanups)
          /\ \A i \in 1 .. Len(ran) : ran[i] = cleanups[Len(cleanups) + 1 - i]
      BY <3>1 DEF ArenaInv, CleanupInv
    <3>3. \A i \in 1 .. Len(cleanups) : Len(cleanups) + 1 - i = Len(cleanups) - i + 1
      BY <3>2
    <3>4. ran = [i \in 1 .. Len(cleanups) |-> ran[i]]
      BY <3>2
    <3> QED
      BY <3>2, <3>3, <3>4 DEF Reverse
  <2> QED
    BY <2>1 DEF CleanupsReversed, ArenaInv, CleanupInv
<1> QED
  BY <1>1, <1>2, <1>3, <1>4 DEF ArenaSound

(* However its memory is asked for, the arena of an encoding or decoding    *)
(* hands out aligned areas that share nothing, in blocks it holds, runs its *)
(* cleanup functions once each, in reverse, while their list is there, and  *)
(* gives back every block it was given (upb_arena_doalloc() and             *)
(* upb_arena_uninit()).                                                     *)
THEOREM MemoryApart == ArenaSpec => []ArenaSound
<1>1. ArenaInit => ArenaInv
  BY InvInit
<1>2. ArenaInv /\ [ArenaNext]_arenaVars => ArenaInv'
  BY InvNext
<1>3. ArenaInv => ArenaSound
  BY InvSound
<1> QED
  BY <1>1, <1>2, <1>3, PTL DEF ArenaSpec
=============================================================================
