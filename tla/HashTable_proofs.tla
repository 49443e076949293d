------------------------- MODULE HashTable_proofs --------------------------
(***************************************************************************)
(* Proofs about the tables of HashTable, for every set of keys, every hash *)
(* function, and every size of the array and the hash part.                *)
(***************************************************************************)
EXTENDS HashTable, FiniteSetTheorems, TLAPS

-----------------------------------------------------------------------------
(* Induction, maxima and minima, and powers of two.  Induction is over      *)
(* sets: a set of numbers that is not empty has a least element.            *)

LEMMA LeastElement ==
  ASSUME NEW S \in SUBSET Nat, S # {}
  PROVE  \E n \in S : \A m \in S : n <= m
<1> DEFINE R == OpToRel(<, Nat)
<1>1. IsWellFoundedOn(R, Nat)
  BY NatLessThanWellFounded
<1>2. \A m, n \in Nat : m < n => <<m, n>> \in R
  BY DEF OpToRel
<1> HIDE DEF R
<1>3. PICK x \in S : \A y \in S : ~(<<y, x>> \in R)
  BY <1>1, WFMin
<1>4. \A m \in S : ~(m < x)
  BY <1>2, <1>3
<1>5. \A m \in S : x <= m
  BY <1>4
<1> QED BY <1>5

(* A set of numbers with 0 that has the successor of each of its elements   *)
(* below n holds all numbers up to n.                                       *)
LEMMA UpTo ==
  ASSUME NEW n \in Nat, NEW S, 0 \in S,
         \A i \in 0 .. n : i \in S /\ i < n => i + 1 \in S
  PROVE  0 .. n \subseteq S
<1> DEFINE bad == (0 .. n) \ S
<1> SUFFICES ASSUME bad # {} PROVE FALSE
  OBVIOUS
<1>1. bad \in SUBSET Nat
  OBVIOUS
<1>2. PICK b \in bad : \A m \in bad : b <= m
  BY <1>1, LeastElement
<1>3. b \in 0 .. n /\ b # 0
  BY <1>2
<1>4. b - 1 \in 0 .. n /\ b - 1 \notin bad
  BY <1>2, <1>3
<1>5. b \in S
  BY <1>3, <1>4
<1> QED BY <1>2, <1>5

(* The choices of Min and Max are what they should be.                      *)
LEMMA MinIsLeast ==
  ASSUME NEW S \in SUBSET Nat, S # {}
  PROVE  Min(S) \in S /\ \A m \in S : Min(S) <= m
BY LeastElement, Zenon DEF Min

LEMMA MaxIsLargest ==
  ASSUME NEW S \in SUBSET Nat, S # {}, NEW n \in Nat, \A m \in S : m <= n
  PROVE  Max(S) \in S /\ \A m \in S : m <= Max(S)
<1> DEFINE T == {n - m : m \in S}
<1>1. T \in SUBSET Nat /\ T # {}
  OBVIOUS
<1>2. PICK l \in T : \A m \in T : l <= m
  BY <1>1, LeastElement
<1>3. PICK s \in S : l = n - s
  BY <1>2
<1>4. \A m \in S : n - m \in T
  OBVIOUS
<1>5. \A m \in S : n - s <= n - m
  BY <1>2, <1>3, <1>4
<1>6. \A m \in S : s >= m
  BY <1>5
<1>7. \E x \in S : \A y \in S : x >= y
  BY <1>6
<1>8. Max(S) \in S /\ \A y \in S : Max(S) >= y
  BY <1>7, Zenon DEF Max
<1> QED BY <1>8

(* The recursive function exists: by induction on n there is one such       *)
(* function up to n, and those of two bounds agree where both are defined.  *)
LEMMA Power2Def == Power2 = [n \in Nat |-> IF n = 0 THEN 1 ELSE 2 * Power2[n - 1]]
<1> DEFINE Partial(n) == {g \in [0 .. n -> Nat] : g[0] = 1 /\ \A i \in 1 .. n : g[i] = 2 * g[i - 1]}
<1>1. ASSUME NEW n \in Nat
      PROVE  Partial(n) # {}
  <2> DEFINE S == {m \in Nat : Partial(m) # {}}
  <2>1. 0 \in S
    <3>1. [i \in 0 .. 0 |-> 1] \in Partial(0)
      OBVIOUS
    <3> QED BY <3>1, Zenon
  <2>2. ASSUME NEW m \in S
        PROVE  m + 1 \in S
    <3>1. PICK g \in [0 .. m -> Nat] : g[0] = 1 /\ \A i \in 1 .. m : g[i] = 2 * g[i - 1]
      OBVIOUS
    <3> DEFINE more == [i \in 0 .. m + 1 |-> IF i = m + 1 THEN 2 * g[m] ELSE g[i]]
    <3>2. more \in [0 .. m + 1 -> Nat]
      BY <3>1
    <3>3. more[0] = 1
      BY <3>1
    <3>4. \A i \in 1 .. m + 1 : more[i] = 2 * more[i - 1]
      BY <3>1
    <3> HIDE DEF more
    <3>5. more \in Partial(m + 1)
      BY <3>2, <3>3, <3>4
    <3> HIDE DEF Partial
    <3> QED BY <3>5
  <2> HIDE DEF S
  <2>3. 0 .. n \subseteq S
    BY <2>1, <2>2, UpTo
  <2>4. n \in S
    BY <2>3
  <2> HIDE DEF Partial
  <2> QED BY <2>4 DEF S
<1>2. ASSUME NEW n \in Nat, NEW g \in Partial(n), NEW h \in Partial(n + 1)
      PROVE  g[n] = h[n]
  <2> DEFINE S == {i \in 0 .. n : g[i] = h[i]}
  <2>1. 0 \in S
    OBVIOUS
  <2>2. ASSUME NEW i \in 0 .. n, i \in S, i < n
        PROVE  i + 1 \in S
    <3>0. i + 1 \in 1 .. n /\ i + 1 \in 1 .. n + 1
      BY <2>2
    <3>1. g[i + 1] = 2 * g[(i + 1) - 1] /\ h[i + 1] = 2 * h[(i + 1) - 1]
      BY <3>0
    <3>2. (i + 1) - 1 = i /\ i + 1 \in 0 .. n /\ g[i] = h[i]
      BY <2>2
    <3> QED BY <3>1, <3>2
  <2> HIDE DEF S
  <2>3. 0 .. n \subseteq S
    BY <2>1, <2>2, UpTo
  <2> QED BY <2>3 DEF S
<1> DEFINE G == [n \in Nat |-> (CHOOSE g \in Partial(n) : TRUE)[n]]
<1>3. ASSUME NEW n \in Nat
      PROVE  G[n] = IF n = 0 THEN 1 ELSE 2 * G[n - 1]
  <2>1. PICK g \in Partial(n) : g = CHOOSE x \in Partial(n) : TRUE
    BY <1>1, Zenon
  <2>2. G[n] = g[n]
    BY <2>1, Zenon
  <2>3. CASE n = 0
    BY <2>2, <2>3
  <2>4. CASE n # 0
    <3>1. n - 1 \in Nat /\ (n - 1) + 1 = n
      BY <2>4
    <3>2. PICK h \in Partial(n - 1) : h = CHOOSE x \in Partial(n - 1) : TRUE
      BY <1>1, <3>1, Zenon
    <3>3. G[n - 1] = h[n - 1]
      BY <3>1, <3>2, Zenon
    <3>4. h[n - 1] = g[n - 1]
      <4>1. g \in Partial((n - 1) + 1)
        BY <3>1
      <4> HIDE DEF Partial
      <4> QED BY <1>2, <3>1, <3>2, <4>1
    <3>5. g[n] = 2 * g[n - 1]
      BY <2>4
    <3> QED BY <2>2, <2>4, <3>3, <3>4, <3>5
  <2> QED BY <2>3, <2>4
<1> HIDE DEF Partial
<1>4. G = [n \in Nat |-> IF n = 0 THEN 1 ELSE 2 * G[n - 1]]
  <2>1. G = [n \in Nat |-> G[n]]
    OBVIOUS
  <2> HIDE DEF G
  <2>2. [n \in Nat |-> G[n]] = [n \in Nat |-> IF n = 0 THEN 1 ELSE 2 * G[n - 1]]
    BY <1>3, Zenon
  <2> QED BY <2>1, <2>2, Zenon
<1> HIDE DEF G
<1>5. \E g : g = [n \in Nat |-> IF n = 0 THEN 1 ELSE 2 * g[n - 1]]
  BY <1>4, Zenon
<1> QED BY <1>5, Zenon DEF Power2

LEMMA Powers ==
  /\ Power2[0] = 1
  /\ \A n \in Nat : /\ Power2[n] \in Nat \ {0}
                    /\ Power2[n + 1] = 2 * Power2[n]
                    /\ n < Power2[n]
<1>1. Power2[0] = 1
  BY Power2Def
<1>2. \A n \in Nat : Power2[n + 1] = 2 * Power2[n]
  <2> TAKE n \in Nat
  <2>1. n + 1 \in Nat /\ n + 1 # 0 /\ (n + 1) - 1 = n
    OBVIOUS
  <2>2. Power2[n + 1] = IF n + 1 = 0 THEN 1 ELSE 2 * Power2[(n + 1) - 1]
    BY <2>1, Power2Def, Zenon
  <2> QED BY <2>1, <2>2
<1> DEFINE S == {n \in Nat : Power2[n] \in Nat \ {0} /\ n < Power2[n]}
<1>3. 0 \in S
  BY <1>1
<1>4. \A n \in S : n + 1 \in S
  BY <1>2
<1> HIDE DEF S
<1>5. \A n \in Nat : n \in S
  <2> TAKE n \in Nat
  <2>1. 0 .. n \subseteq S
    BY <1>3, <1>4, UpTo
  <2> QED BY <2>1
<1> QED BY <1>1, <1>2, <1>5 DEF S

-----------------------------------------------------------------------------
(* Chains.  e is the entries of a hash part of n slots, h the hashes, d the *)
(* depth of each slot on its chain.                                         *)

Used(e) == {i \in DOMAIN e : e[i].key # EmptyKey}

Home(h, n, e, i) == h[e[i].key] % n

(* A chain starts in the main position of its keys, which is occupied by    *)
(* one of them.                                                             *)
HeadsHome(h, n, e) ==
  \A i \in Used(e) : /\ Home(h, n, e, i) \in Used(e)
                     /\ Home(h, n, e, Home(h, n, e, i)) = Home(h, n, e, i)

(* The next slot is on the same chain, and deeper: chains have no cycle.    *)
NextDeeper(h, n, e, d) ==
  \A i \in Used(e) : e[i].next # NoEntry =>
    /\ e[i].next \in Used(e)
    /\ Home(h, n, e, e[i].next) = Home(h, n, e, i)
    /\ e[i].next # Home(h, n, e, i)
    /\ d[i] < d[e[i].next]

(* Every slot of a chain but its head has one before it, and only one.      *)
Preceded(h, n, e) ==
  \A i \in Used(e) : i # Home(h, n, e, i) => \E p \in Used(e) : e[p].next = i

NextOnce(e) ==
  \A i, j \in Used(e) : e[i].next = e[j].next /\ e[i].next # NoEntry => i = j

(* No key is in two slots.                                                  *)
KeyOnce(e) == \A i, j \in Used(e) : e[i].key = e[j].key => i = j

(* A used slot is on the chain that starts in the main position of its key: *)
(* the slots of that chain follow each other, and those of no other chain.  *)
Chained(h, n, e, d) ==
  /\ HeadsHome(h, n, e) /\ NextDeeper(h, n, e, d) /\ Preceded(h, n, e)
  /\ NextOnce(e) /\ KeyOnce(e)

Followers(t, so) == so \cup ({t.entries[j].next : j \in so} \ {NoEntry})

IsWalk(w, t, i, n) == w = [m \in 0 .. n |-> IF m = 0 THEN {i} ELSE Followers(t, w[m - 1])]

(* The walk that Chain chooses exists.                                      *)
LEMMA ChainDef ==
  ASSUME NEW t, NEW i, NEW n \in Nat, n = Size(t)
  PROVE  \E w : Chain(t, i) = w[n] /\ IsWalk(w, t, i, n)
<1> DEFINE F(so) == Followers(t, so)
           S == {k \in Nat : \E w : w = [m \in 0 .. k |-> IF m = 0 THEN {i} ELSE F(w[m - 1])]}
<1> HIDE DEF F
<1>1. 0 \in S
  <2>1. [m \in 0 .. 0 |-> {i}] = [m \in 0 .. 0 |-> IF m = 0 THEN {i} ELSE F([x \in 0 .. 0 |-> {i}][m - 1])]
    OBVIOUS
  <2>2. \E w : w = [m \in 0 .. 0 |-> IF m = 0 THEN {i} ELSE F(w[m - 1])]
    BY <2>1, Zenon
  <2> QED BY <2>2
<1>2. ASSUME NEW k \in S
      PROVE  k + 1 \in S
  <2>1. PICK w : w = [m \in 0 .. k |-> IF m = 0 THEN {i} ELSE F(w[m - 1])]
    OBVIOUS
  <2> DEFINE more == [m \in 0 .. k + 1 |-> IF m = k + 1 THEN F(w[k]) ELSE w[m]]
  <2>2. ASSUME NEW m \in 0 .. k + 1
        PROVE  more[m] = IF m = 0 THEN {i} ELSE F(more[m - 1])
    <3>1. CASE m = k + 1
      <4>1. more[m] = F(w[k])
        BY <3>1
      <4>2. m # 0 /\ m - 1 = k /\ more[m - 1] = w[k]
        BY <3>1
      <4> QED BY <4>1, <4>2
    <3>2. CASE m # k + 1
      <4>1. m \in 0 .. k
        BY <3>2
      <4>2. more[m] = w[m] /\ w[m] = IF m = 0 THEN {i} ELSE F(w[m - 1])
        BY <2>1, <3>2, <4>1
      <4>3. m # 0 => more[m - 1] = w[m - 1]
        BY <4>1
      <4> QED BY <4>2, <4>3
    <3> QED BY <3>1, <3>2
  <2>3. more = [m \in 0 .. k + 1 |-> more[m]]
    OBVIOUS
  <2> HIDE DEF more
  <2>4. more = [m \in 0 .. k + 1 |-> IF m = 0 THEN {i} ELSE F(more[m - 1])]
    BY <2>2, <2>3, Zenon
  <2>5. \E x : x = [m \in 0 .. k + 1 |-> IF m = 0 THEN {i} ELSE F(x[m - 1])]
    BY <2>4, Zenon
  <2> QED BY <2>5
<1> HIDE DEF S
<1>3. n \in S
  <2>1. 0 .. n \subseteq S
    BY <1>1, <1>2, UpTo
  <2> QED BY <2>1
<1>4. \E w : w = [m \in 0 .. n |-> IF m = 0 THEN {i} ELSE F(w[m - 1])]
  BY <1>3 DEF S
<1> DEFINE walk[m \in 0 .. n] == IF m = 0 THEN {i} ELSE Followers(t, walk[m - 1])
<1>5. Chain(t, i) = walk[n]
  BY Zenon DEF Chain, Followers
<1>6. walk = [m \in 0 .. n |-> IF m = 0 THEN {i} ELSE Followers(t, walk[m - 1])]
  BY <1>4, Zenon DEF F
<1> QED BY <1>5, <1>6, Zenon DEF IsWalk

(* The chain of a used slot ends within the table: it holds used slots with *)
(* the same main position, and with each of them the one behind it.         *)
ChainEnds(h, n, t, i) ==
  /\ i \in Chain(t, i)
  /\ \A j \in Chain(t, i) : /\ j \in Used(t.entries)
                            /\ Home(h, n, t.entries, j) = Home(h, n, t.entries, i)
                            /\ t.entries[j].next # NoEntry => t.entries[j].next \in Chain(t, i)

(* A walk of as many steps as the table has slots is closed: it either      *)
(* grows at each step or has ended.                                         *)
LEMMA ChainClosed ==
  ASSUME NEW h, NEW t, NEW d, NEW n \in Nat, n = Size(t), NEW i \in Used(t.entries),
         IsFiniteSet(Used(t.entries)), Cardinality(Used(t.entries)) <= n,
         Chained(h, n, t.entries, d)
  PROVE  ChainEnds(h, n, t, i)
<1> DEFINE e == t.entries
           here == {j \in Used(e) : Home(h, n, e, j) = Home(h, n, e, i)}
           Closed(so) == \A j \in so : e[j].next # NoEntry => e[j].next \in so
<1>1. PICK w : Chain(t, i) = w[n] /\ IsWalk(w, t, i, n)
  BY ChainDef, Zenon
<1>2. w[0] = {i}
  BY <1>1 DEF IsWalk
<1>3. \A m \in 0 .. n : m < n => w[m + 1] = Followers(t, w[m])
  <2> TAKE m \in 0 .. n
  <2> HAVE m < n
  <2>1. m + 1 \in 0 .. n /\ m + 1 # 0 /\ (m + 1) - 1 = m
    OBVIOUS
  <2>2. w[m + 1] = IF m + 1 = 0 THEN {i} ELSE Followers(t, w[(m + 1) - 1])
    BY <1>1, <2>1, Zenon DEF IsWalk
  <2> QED BY <2>1, <2>2
<1>4. ASSUME NEW so \in SUBSET here
      PROVE  /\ Followers(t, so) \in SUBSET here
             /\ so \subseteq Followers(t, so)
             /\ Followers(t, so) = so <=> Closed(so)
  BY DEF Followers, Chained, NextDeeper
<1> DEFINE S == {m \in 0 .. n : /\ w[m] \in SUBSET here /\ i \in w[m]
                                /\ Closed(w[m]) \/ Cardinality(w[m]) >= m + 1}
<1>5. 0 \in S
  <2>1. Cardinality({i}) = 1
    BY FS_Singleton
  <2> QED BY <1>2, <2>1
<1>6. ASSUME NEW m \in 0 .. n, m \in S, m < n
      PROVE  m + 1 \in S
  <2>1. w[m + 1] = Followers(t, w[m])
    BY <1>3, <1>6
  <2>2. w[m] \in SUBSET here /\ i \in w[m]
    BY <1>6
  <2>3. w[m + 1] \in SUBSET here /\ w[m] \subseteq w[m + 1]
    BY <1>4, <2>1, <2>2
  <2>4. CASE Closed(w[m])
    <3>1. w[m + 1] = w[m]
      BY <1>4, <2>1, <2>2, <2>4
    <3> HIDE DEF Closed, here
    <3> QED BY <1>6, <2>2, <2>4, <3>1
  <2>5. CASE ~Closed(w[m])
    <3>1. w[m + 1] # w[m]
      BY <1>4, <2>1, <2>2, <2>5
    <3>2. IsFiniteSet(w[m + 1])
      BY <2>3, FS_Subset
    <3>3. IsFiniteSet(w[m]) /\ Cardinality(w[m]) <= Cardinality(w[m + 1])
                            /\ Cardinality(w[m]) # Cardinality(w[m + 1])
      BY <2>3, <3>1, <3>2, FS_Subset
    <3>4. Cardinality(w[m]) \in Nat /\ Cardinality(w[m + 1]) \in Nat
      BY <3>2, <3>3, FS_CardinalityType
    <3>5. Cardinality(w[m]) >= m + 1
      BY <1>6, <2>5
    <3>6. Cardinality(w[m + 1]) >= (m + 1) + 1
      BY <3>3, <3>4, <3>5
    <3> HIDE DEF Closed, here
    <3> QED BY <1>6, <2>2, <2>3, <3>6
  <2> QED BY <2>4, <2>5
<1> HIDE DEF S
<1>7. n \in S
  <2>1. 0 .. n \subseteq S
    BY <1>5, <1>6, UpTo
  <2> QED BY <2>1
<1>8. w[n] \in SUBSET here /\ i \in w[n] /\ (Closed(w[n]) \/ Cardinality(w[n]) >= n + 1)
  BY <1>7 DEF S
<1>9. ~(Cardinality(w[n]) >= n + 1)
  <2>1. Cardinality(w[n]) <= Cardinality(Used(e)) /\ IsFiniteSet(w[n])
    BY <1>8, FS_Subset
  <2>2. Cardinality(w[n]) \in Nat /\ Cardinality(Used(e)) \in Nat
    BY <2>1, FS_CardinalityType
  <2> QED BY <2>1, <2>2
<1> QED BY <1>1, <1>8, <1>9 DEF ChainEnds

Depths(e, d) == \A i \in Used(e) : i \in Nat /\ d[i] \in Nat

(* From its head the whole chain is reached.                                *)
ChainIsGroup(h, n, t, i) ==
  Chain(t, i) = {j \in Used(t.entries) : Home(h, n, t.entries, j) = i}

(* Otherwise the least deep slot it misses would have a predecessor that it *)
(* holds.                                                                   *)
LEMMA ChainWhole ==
  ASSUME NEW h, NEW t, NEW d, NEW n \in Nat, n = Size(t), NEW i \in Used(t.entries),
         IsFiniteSet(Used(t.entries)), Cardinality(Used(t.entries)) <= n,
         Chained(h, n, t.entries, d), Depths(t.entries, d), Home(h, n, t.entries, i) = i
  PROVE  ChainIsGroup(h, n, t, i)
<1>0. ChainEnds(h, n, t, i)
  BY ChainClosed, Zenon
<1> DEFINE e == t.entries
           missing == {j \in Used(e) : Home(h, n, e, j) = i} \ Chain(t, i)
           deep == {d[j] : j \in missing}
<1>1. /\ i \in Chain(t, i)
      /\ Chain(t, i) \subseteq {j \in Used(e) : Home(h, n, e, j) = i}
      /\ \A j \in Chain(t, i) : e[j].next # NoEntry => e[j].next \in Chain(t, i)
  BY <1>0 DEF ChainEnds
<1>2. ASSUME missing # {} PROVE FALSE
  <2>1. deep \in SUBSET Nat /\ deep # {}
    BY <1>2 DEF Depths
  <2>2. PICK l \in deep : \A m \in deep : l <= m
    BY <2>1, LeastElement
  <2>3. PICK j \in missing : \A k \in missing : d[j] <= d[k]
    BY <2>2
  <2>4. j \in Used(e) /\ Home(h, n, e, j) = i /\ j # i
    BY <1>1
  <2>5. PICK p \in Used(e) : e[p].next = j
    BY <2>4 DEF Chained, Preceded
  <2>6. j # NoEntry
    BY <2>4 DEF Depths, NoEntry
  <2>7. Home(h, n, e, p) = i /\ d[p] < d[j]
    BY <2>4, <2>5, <2>6 DEF Chained, NextDeeper
  <2>8. d[p] \in Nat /\ d[j] \in Nat
    BY <2>4 DEF Depths
  <2>9. p \notin missing
    BY <2>3, <2>7, <2>8
  <2>10. p \in Chain(t, i)
    BY <2>7, <2>9
  <2> QED BY <1>1, <2>5, <2>6, <2>10
<1> QED BY <1>1, <1>2 DEF ChainIsGroup

(* The head of a chain with another slot has a successor.                   *)
LEMMA HeadFirst ==
  ASSUME NEW h, NEW n, NEW e, NEW d, NEW i \in Used(e), Chained(h, n, e, d), Depths(e, d),
         NEW m \in Used(e), Home(h, n, e, i) = m, i # m
  PROVE  e[m].next # NoEntry
<1> DEFINE others == {j \in Used(e) : Home(h, n, e, j) = m /\ j # m}
           deep == {d[j] : j \in others}
<1>1. deep \in SUBSET Nat /\ deep # {}
  BY DEF Depths
<1>2. PICK l \in deep : \A x \in deep : l <= x
  BY <1>1, LeastElement
<1>3. PICK j \in others : \A k \in others : d[j] <= d[k]
  BY <1>2
<1>4. j \in Used(e) /\ Home(h, n, e, j) = m /\ j # m /\ j # NoEntry
  BY <1>3 DEF Depths, NoEntry
<1>5. PICK p \in Used(e) : e[p].next = j
  BY <1>4 DEF Chained, Preceded
<1>6. Home(h, n, e, p) = m /\ d[p] < d[j]
  BY <1>4, <1>5 DEF Chained, NextDeeper
<1>7. p \notin others
  BY <1>3, <1>4, <1>6 DEF Depths
<1> QED BY <1>4, <1>5, <1>6, <1>7

(* What each way of changing the entries keeps.  In a free main position.   *)
LEMMA PutFree ==
  ASSUME NEW h, NEW n, NEW e, NEW d, Chained(h, n, e, d), Depths(e, d),
         NEW f, NEW k, NEW m \in Nat, m \notin Used(e), m = h[k] % n,
         \A i \in Used(e) : e[i].key # k /\ f[i] = e[i],
         f[m].key = k, f[m].next = NoEntry, Used(f) = Used(e) \cup {m}
  PROVE  \E dd : Chained(h, n, f, dd) /\ Depths(f, dd)
<1> DEFINE dd == [i \in Used(f) |-> IF i = m THEN 0 ELSE d[i]]
<1>1. \A i \in Used(e) : Home(h, n, f, i) = Home(h, n, e, i)
  BY DEF Home
<1>2. Home(h, n, f, m) = m
  BY DEF Home
<1>3. \A i \in Used(e) : dd[i] = d[i] /\ i # m
  OBVIOUS
<1>4. dd[m] = 0
  OBVIOUS
<1> HIDE DEF dd
<1>5. HeadsHome(h, n, f)
  BY <1>1, <1>2 DEF Chained, HeadsHome
<1>6. NextDeeper(h, n, f, dd)
  BY <1>1, <1>2, <1>3 DEF Chained, NextDeeper
<1>7. Preceded(h, n, f)
  BY <1>1, <1>2 DEF Chained, Preceded
<1>8. NextOnce(f)
  BY DEF Chained, NextOnce
<1>9. KeyOnce(f)
  BY DEF Chained, KeyOnce
<1>10. Depths(f, dd)
  BY <1>3, <1>4 DEF Depths
<1> QED BY <1>5, <1>6, <1>7, <1>8, <1>9, <1>10 DEF Chained

(* Behind the head of its own chain.                                        *)
LEMMA PutBehind ==
  ASSUME NEW h, NEW n, NEW e, NEW d, Chained(h, n, e, d), Depths(e, d),
         NEW f, NEW k, NEW m \in Used(e), m = h[k] % n, Home(h, n, e, m) = m,
         NEW x \in Nat, x \notin Used(e),
         \A i \in Used(e) : e[i].key # k /\ f[i].key = e[i].key,
         \A i \in Used(e) \ {m} : f[i].next = e[i].next,
         f[m].next = x, f[x].key = k, f[x].next = e[m].next, Used(f) = Used(e) \cup {x}
  PROVE  \E dd : Chained(h, n, f, dd) /\ Depths(f, dd)
<1> DEFINE dd == [i \in Used(f) |-> IF i = x THEN d[m] + 1 ELSE IF i = m THEN d[i] ELSE d[i] + 1]
<1>1. \A i \in Used(e) : Home(h, n, f, i) = Home(h, n, e, i)
  BY DEF Home
<1>2. Home(h, n, f, x) = m
  BY DEF Home
<1>3. \A i \in Used(e) \ {m} : dd[i] = d[i] + 1
  OBVIOUS
<1>4. dd[m] = d[m] /\ dd[x] = d[m] + 1
  OBVIOUS
<1> HIDE DEF dd
<1>5. HeadsHome(h, n, f)
  BY <1>1, <1>2 DEF Chained, HeadsHome
<1>6. NextDeeper(h, n, f, dd)
  <2> SUFFICES ASSUME NEW i \in Used(f), f[i].next # NoEntry
               PROVE  /\ f[i].next \in Used(f)
                      /\ Home(h, n, f, f[i].next) = Home(h, n, f, i)
                      /\ f[i].next # Home(h, n, f, i)
                      /\ dd[i] < dd[f[i].next]
    BY DEF NextDeeper
  <2>0. d[m] \in Nat
    BY DEF Depths
  <2>1. CASE i = m
    <3>1. x # m /\ dd[m] < dd[x]
      BY <1>4, <2>0
    <3> QED BY <2>1, <1>1, <1>2, <3>1
  <2>2. CASE i = x
    <3>1. /\ e[m].next \in Used(e) /\ e[m].next # m
          /\ Home(h, n, e, e[m].next) = m /\ d[m] < d[e[m].next]
      BY <2>2 DEF Chained, NextDeeper
    <3>2. d[e[m].next] \in Nat /\ dd[e[m].next] = d[e[m].next] + 1
      BY <3>1, <1>3 DEF Depths
    <3>3. dd[x] < dd[e[m].next]
      BY <3>1, <3>2, <2>0, <1>4
    <3>4. Home(h, n, f, e[m].next) = m
      BY <3>1, <1>1
    <3> QED BY <2>2, <3>1, <3>3, <3>4, <1>2
  <2>3. CASE i # m /\ i # x
    <3>1. f[i].next = e[i].next /\ i \in Used(e) \ {m}
      BY <2>3
    <3>2. /\ e[i].next \in Used(e) /\ e[i].next # Home(h, n, e, i)
          /\ Home(h, n, e, e[i].next) = Home(h, n, e, i) /\ d[i] < d[e[i].next]
      BY <3>1 DEF Chained, NextDeeper
    <3>3. e[i].next # m
      BY <3>2
    <3>4. dd[i] = d[i] + 1 /\ dd[e[i].next] = d[e[i].next] + 1
      BY <1>3, <3>1, <3>2, <3>3
    <3> QED BY <1>1, <3>1, <3>2, <3>4 DEF Depths
  <2> QED BY <2>1, <2>2, <2>3
<1>7. Preceded(h, n, f)
  <2> SUFFICES ASSUME NEW i \in Used(f), i # Home(h, n, f, i)
               PROVE  \E p \in Used(f) : f[p].next = i
    BY DEF Preceded
  <2>1. CASE i = x
    BY <2>1
  <2>2. CASE i # x
    <3>1. PICK p \in Used(e) : e[p].next = i
      BY <2>2, <1>1 DEF Chained, Preceded
    <3>2. CASE p = m
      BY <3>1, <3>2
    <3>3. CASE p # m
      BY <3>1, <3>3
    <3> QED BY <3>2, <3>3
  <2> QED BY <2>1, <2>2
<1>8. NextOnce(f)
  <2>1. \A i \in Used(e) : e[i].next # x
    BY DEF Chained, NextDeeper, Depths, NoEntry
  <2> QED BY <2>1 DEF Chained, NextOnce
<1>9. KeyOnce(f)
  BY DEF Chained, KeyOnce
<1>10. Depths(f, dd)
  BY <1>3, <1>4 DEF Depths
<1> QED BY <1>5, <1>6, <1>7, <1>8, <1>9, <1>10 DEF Chained

(* In the place of an entry of another chain, which moves to a free slot.   *)
LEMMA Evict ==
  ASSUME NEW h, NEW n, NEW e, NEW d, Chained(h, n, e, d), Depths(e, d),
         NEW f, NEW k, NEW m \in Used(e), m = h[k] % n, Home(h, n, e, m) # m,
         NEW x \in Nat, x \notin Used(e), NEW p \in Used(e), e[p].next = m,
         \A i \in Used(e) : e[i].key # k,
         \A i \in Used(e) \ {m} : f[i].key = e[i].key,
         \A i \in Used(e) \ {m, p} : f[i].next = e[i].next,
         f[x].key = e[m].key, f[x].next = e[m].next, f[p].next = x,
         f[m].key = k, f[m].next = NoEntry, Used(f) = Used(e) \cup {x}
  PROVE  \E dd : Chained(h, n, f, dd) /\ Depths(f, dd)
<1> DEFINE dd == [i \in Used(f) |-> IF i = x THEN d[m] ELSE d[i]]
<1>1. \A i \in Used(e) \ {m} : Home(h, n, f, i) = Home(h, n, e, i)
  BY DEF Home
<1>2. Home(h, n, f, x) = Home(h, n, e, m) /\ Home(h, n, f, m) = m
  BY DEF Home
<1>3. \A i \in Used(e) : dd[i] = d[i]
  OBVIOUS
<1>4. dd[x] = d[m]
  OBVIOUS
<1> HIDE DEF dd
<1>5. p # m /\ m # NoEntry /\ Home(h, n, e, p) = Home(h, n, e, m) /\ d[p] < d[m]
  BY DEF Chained, NextDeeper, Depths, NoEntry
<1>6. \A i \in Used(e) : Home(h, n, e, i) # m
  BY DEF Chained, HeadsHome
<1>7. \A i \in Used(e) \ {p} : e[i].next # m
  BY <1>5 DEF Chained, NextOnce
<1>8. HeadsHome(h, n, f)
  <2>1. \A i \in Used(e) : /\ Home(h, n, e, i) \in Used(e) \ {m}
                           /\ Home(h, n, f, Home(h, n, e, i)) = Home(h, n, e, i)
    BY <1>1, <1>6 DEF Chained, HeadsHome
  <2>2. ASSUME NEW i \in Used(f)
        PROVE  Home(h, n, f, i) \in Used(f) /\ Home(h, n, f, Home(h, n, f, i)) = Home(h, n, f, i)
    <3>1. CASE i = x
      BY <3>1, <2>1, <1>2
    <3>2. CASE i = m
      BY <3>2, <1>2
    <3>3. CASE i # x /\ i # m
      BY <3>3, <2>1, <1>1
    <3> QED BY <3>1, <3>2, <3>3
  <2> QED BY <2>2 DEF HeadsHome
<1>9. NextDeeper(h, n, f, dd)
  <2> SUFFICES ASSUME NEW i \in Used(f), f[i].next # NoEntry
               PROVE  /\ f[i].next \in Used(f)
                      /\ Home(h, n, f, f[i].next) = Home(h, n, f, i)
                      /\ f[i].next # Home(h, n, f, i)
                      /\ dd[i] < dd[f[i].next]
    BY DEF NextDeeper
  <2>1. CASE i = x
    <3>1. /\ e[m].next \in Used(e) /\ Home(h, n, e, e[m].next) = Home(h, n, e, m)
          /\ e[m].next # Home(h, n, e, m) /\ d[m] < d[e[m].next]
      BY <2>1 DEF Chained, NextDeeper
    <3>2. e[m].next # m
      BY <1>5, <1>7
    <3> QED BY <2>1, <3>1, <3>2, <1>1, <1>2, <1>3, <1>4
  <2>2. CASE i = p
    <3>1. x # Home(h, n, e, p)
      BY DEF Chained, HeadsHome
    <3> QED BY <2>2, <3>1, <1>1, <1>2, <1>3, <1>4, <1>5
  <2>3. CASE i = m
    BY <2>3
  <2>4. CASE i \notin {x, p, m}
    <3>1. f[i].next = e[i].next /\ i \in Used(e) /\ i # m
      BY <2>4
    <3>2. /\ e[i].next \in Used(e) /\ Home(h, n, e, e[i].next) = Home(h, n, e, i)
          /\ e[i].next # Home(h, n, e, i) /\ d[i] < d[e[i].next]
      BY <3>1 DEF Chained, NextDeeper
    <3>3. e[i].next # m
      BY <1>7, <2>4, <3>1
    <3> QED BY <3>1, <3>2, <3>3, <1>1, <1>3
  <2> QED BY <2>1, <2>2, <2>3, <2>4
<1>10. Preceded(h, n, f)
  <2> SUFFICES ASSUME NEW i \in Used(f), i # Home(h, n, f, i)
               PROVE  \E q \in Used(f) : f[q].next = i
    BY DEF Preceded
  <2>1. CASE i = x
    BY <2>1
  <2>2. CASE i # x
    <3>1. i \in Used(e) \ {m}
      BY <1>2, <2>2
    <3>2. PICK q \in Used(e) : e[q].next = i
      BY <3>1, <1>1 DEF Chained, Preceded
    <3>3. q # p
      BY <3>1, <3>2
    <3>4. CASE q = m
      BY <3>2, <3>4
    <3>5. CASE q # m
      BY <3>2, <3>3, <3>5
    <3> QED BY <3>4, <3>5
  <2> QED BY <2>1, <2>2
<1>11. NextOnce(f)
  <2>1. \A i \in Used(e) : e[i].next # x
    BY DEF Chained, NextDeeper, Depths, NoEntry
  <2> QED BY <2>1, <1>5 DEF Chained, NextOnce
<1>12. KeyOnce(f)
  BY DEF Chained, KeyOnce
<1>13. Depths(f, dd)
  BY <1>3, <1>4 DEF Depths
<1> QED BY <1>8, <1>9, <1>10, <1>11, <1>12, <1>13 DEF Chained

(* The only entry of its chain is removed.                                  *)
LEMMA DropAlone ==
  ASSUME NEW h, NEW n, NEW e, NEW d, Chained(h, n, e, d), Depths(e, d),
         NEW f, NEW m \in Used(e), Home(h, n, e, m) = m, e[m].next = NoEntry,
         \A i \in Used(e) \ {m} : f[i].key = e[i].key /\ f[i].next = e[i].next,
         Used(f) = Used(e) \ {m}
  PROVE  Chained(h, n, f, d) /\ Depths(f, d)
<1>1. \A i \in Used(e) \ {m} : Home(h, n, f, i) = Home(h, n, e, i)
  BY DEF Home
<1>2. \A i \in Used(e) \ {m} : Home(h, n, e, i) # m
  BY HeadFirst
<1>3. \A i \in Used(e) : e[i].next # m
  <2> SUFFICES ASSUME NEW i \in Used(e), e[i].next = m PROVE FALSE
    OBVIOUS
  <2>1. m # NoEntry
    BY DEF Depths, NoEntry
  <2> QED BY <2>1 DEF Chained, NextDeeper
<1>4. HeadsHome(h, n, f)
  BY <1>1, <1>2 DEF Chained, HeadsHome
<1>5. NextDeeper(h, n, f, d)
  BY <1>1, <1>3 DEF Chained, NextDeeper
<1>6. Preceded(h, n, f)
  <2> SUFFICES ASSUME NEW i \in Used(f), i # Home(h, n, f, i)
               PROVE  \E q \in Used(f) : f[q].next = i
    BY DEF Preceded
  <2>1. PICK q \in Used(e) : e[q].next = i
    BY <1>1 DEF Chained, Preceded
  <2>2. q # m
    BY <2>1 DEF Depths, NoEntry
  <2> QED BY <2>1, <2>2
<1>7. NextOnce(f) /\ KeyOnce(f)
  BY DEF Chained, NextOnce, KeyOnce
<1>8. Depths(f, d)
  BY DEF Depths
<1> QED BY <1>4, <1>5, <1>6, <1>7, <1>8 DEF Chained

(* The head of a chain is removed: its successor moves to its slot.         *)
LEMMA DropHead ==
  ASSUME NEW h, NEW n, NEW e, NEW d, Chained(h, n, e, d), Depths(e, d),
         NEW f, NEW m \in Used(e), Home(h, n, e, m) = m,
         NEW s, s = e[m].next, s # NoEntry,
         \A i \in Used(e) \ {m, s} : f[i].key = e[i].key /\ f[i].next = e[i].next,
         f[m].key = e[s].key, f[m].next = e[s].next,
         Used(f) = Used(e) \ {s}
  PROVE  Chained(h, n, f, d) /\ Depths(f, d)
<1>1. s \in Used(e) /\ Home(h, n, e, s) = m /\ s # m /\ d[m] < d[s]
  BY DEF Chained, NextDeeper
<1>2. \A i \in Used(f) : Home(h, n, f, i) = Home(h, n, e, i)
  <2>1. Home(h, n, f, m) = m
    BY <1>1 DEF Home
  <2>2. \A i \in Used(e) \ {m, s} : Home(h, n, f, i) = Home(h, n, e, i)
    BY DEF Home
  <2> QED BY <2>1, <2>2
<1>3. \A i \in Used(e) : Home(h, n, e, i) # s
  BY <1>1 DEF Chained, HeadsHome
<1>4. \A i \in Used(e) \ {m} : e[i].next # s
  BY <1>1 DEF Chained, NextOnce
<1>5. \A i \in Used(e) : e[i].next # m
  <2> SUFFICES ASSUME NEW i \in Used(e), e[i].next = m PROVE FALSE
    OBVIOUS
  <2>1. m # NoEntry
    BY DEF Depths, NoEntry
  <2> QED BY <2>1 DEF Chained, NextDeeper
<1>6. HeadsHome(h, n, f)
  BY <1>2, <1>3 DEF Chained, HeadsHome
<1>7. NextDeeper(h, n, f, d)
  <2> SUFFICES ASSUME NEW i \in Used(f), f[i].next # NoEntry
               PROVE  /\ f[i].next \in Used(f)
                      /\ Home(h, n, f, f[i].next) = Home(h, n, f, i)
                      /\ f[i].next # Home(h, n, f, i)
                      /\ d[i] < d[f[i].next]
    BY DEF NextDeeper
  <2>1. CASE i = m
    <3>1. /\ e[s].next \in Used(e) /\ Home(h, n, e, e[s].next) = m /\ e[s].next # m
          /\ d[s] < d[e[s].next]
      BY <2>1, <1>1 DEF Chained, NextDeeper
    <3>2. e[s].next # s
      BY <1>1, <1>4
    <3>3. d[m] < d[e[s].next]
      BY <3>1, <1>1 DEF Depths
    <3> QED BY <2>1, <3>1, <3>2, <3>3, <1>2
  <2>2. CASE i # m
    <3>1. i \in Used(e) \ {m, s} /\ f[i].next = e[i].next
      BY <2>2
    <3>2. /\ e[i].next \in Used(e) /\ Home(h, n, e, e[i].next) = Home(h, n, e, i)
          /\ e[i].next # Home(h, n, e, i) /\ d[i] < d[e[i].next]
      BY <3>1 DEF Chained, NextDeeper
    <3>3. e[i].next # s
      BY <1>4, <3>1
    <3> QED BY <3>1, <3>2, <3>3, <1>2
  <2> QED BY <2>1, <2>2
<1>8. Preceded(h, n, f)
  <2> SUFFICES ASSUME NEW i \in Used(f), i # Home(h, n, f, i)
               PROVE  \E q \in Used(f) : f[q].next = i
    BY DEF Preceded
  <2>1. i \in Used(e) /\ i # s /\ i # m
    BY <1>2
  <2>2. PICK q \in Used(e) : e[q].next = i
    BY <2>1, <1>2 DEF Chained, Preceded
  <2>3. q # m
    BY <2>1, <2>2
  <2>4. CASE q = s
    BY <2>2, <2>4, <1>1
  <2>5. CASE q # s
    BY <2>2, <2>3, <2>5
  <2> QED BY <2>4, <2>5
<1>9. NextOnce(f)
  BY <1>1 DEF Chained, NextOnce
<1>10. KeyOnce(f)
  BY <1>1 DEF Chained, KeyOnce
<1>11. Depths(f, d)
  BY DEF Depths
<1> QED BY <1>6, <1>7, <1>8, <1>9, <1>10, <1>11 DEF Chained

(* Another entry is removed: its predecessor is linked to its successor.    *)
LEMMA DropInner ==
  ASSUME NEW h, NEW n, NEW e, NEW d, Chained(h, n, e, d), Depths(e, d),
         NEW f, NEW p \in Used(e), NEW g, g = e[p].next, g # NoEntry,
         \A i \in Used(e) \ {g} : f[i].key = e[i].key,
         \A i \in Used(e) \ {g, p} : f[i].next = e[i].next,
         f[p].next = e[g].next, Used(f) = Used(e) \ {g}
  PROVE  Chained(h, n, f, d) /\ Depths(f, d)
<1>1. g \in Used(e) /\ Home(h, n, e, g) = Home(h, n, e, p) /\ g # p /\ d[p] < d[g]
                    /\ g # Home(h, n, e, g)
  BY DEF Chained, NextDeeper, Depths
<1>2. \A i \in Used(f) : Home(h, n, f, i) = Home(h, n, e, i)
  BY DEF Home
<1>3. \A i \in Used(e) : Home(h, n, e, i) # g
  BY <1>1 DEF Chained, HeadsHome
<1>4. \A i \in Used(e) \ {p} : e[i].next # g
  BY <1>1 DEF Chained, NextOnce
<1>5. HeadsHome(h, n, f)
  BY <1>2, <1>3 DEF Chained, HeadsHome
<1>6. NextDeeper(h, n, f, d)
  <2> SUFFICES ASSUME NEW i \in Used(f), f[i].next # NoEntry
               PROVE  /\ f[i].next \in Used(f)
                      /\ Home(h, n, f, f[i].next) = Home(h, n, f, i)
                      /\ f[i].next # Home(h, n, f, i)
                      /\ d[i] < d[f[i].next]
    BY DEF NextDeeper
  <2>1. CASE i = p
    <3>1. /\ e[g].next \in Used(e) /\ Home(h, n, e, e[g].next) = Home(h, n, e, g)
          /\ e[g].next # Home(h, n, e, g) /\ d[g] < d[e[g].next]
      BY <2>1, <1>1 DEF Chained, NextDeeper
    <3>2. e[g].next # g
      BY <1>1, <1>4
    <3>3. d[p] < d[e[g].next]
      BY <3>1, <1>1 DEF Depths
    <3> QED BY <2>1, <3>1, <3>2, <3>3, <1>1, <1>2
  <2>2. CASE i # p
    <3>1. i \in Used(e) \ {g, p} /\ f[i].next = e[i].next
      BY <2>2
    <3>2. /\ e[i].next \in Used(e) /\ Home(h, n, e, e[i].next) = Home(h, n, e, i)
          /\ e[i].next # Home(h, n, e, i) /\ d[i] < d[e[i].next]
      BY <3>1 DEF Chained, NextDeeper
    <3>3. e[i].next # g
      BY <1>4, <3>1
    <3> QED BY <3>1, <3>2, <3>3, <1>2
  <2> QED BY <2>1, <2>2
<1>7. Preceded(h, n, f)
  <2> SUFFICES ASSUME NEW i \in Used(f), i # Home(h, n, f, i)
               PROVE  \E q \in Used(f) : f[q].next = i
    BY DEF Preceded
  <2>1. i \in Used(e) /\ i # g
    OBVIOUS
  <2>2. PICK q \in Used(e) : e[q].next = i
    BY <2>1, <1>2 DEF Chained, Preceded
  <2>3. q # p
    BY <2>1, <2>2
  <2>4. CASE q = g
    BY <2>2, <2>4, <1>1
  <2>5. CASE q # g
    BY <2>2, <2>3, <2>5
  <2> QED BY <2>4, <2>5
<1>8. NextOnce(f)
  BY <1>1 DEF Chained, NextOnce
<1>9. KeyOnce(f)
  BY DEF Chained, KeyOnce
<1>10. Depths(f, d)
  BY DEF Depths
<1> QED BY <1>5, <1>6, <1>7, <1>8, <1>9, <1>10 DEF Chained

(***************************************************************************)
(* Tables.                                                                 *)
Values == TableVal \cup {Absent}

TableRecord ==
  [lg2 : Nat, count : Int, entries : UNION {[Slots(g) -> Entry] : g \in Nat},
   array : UNION {[0 .. m - 1 -> Values] : m \in Nat}, arrayCount : Int,
   compacted : BOOLEAN, fault : BOOLEAN]

(* u is t with other entries and another count.                             *)
Changed(t, u, f, c) ==
  /\ u \in TableRecord /\ u.entries = f /\ u.count = c
  /\ u.lg2 = t.lg2 /\ u.array = t.array /\ u.arrayCount = t.arrayCount
  /\ u.compacted = t.compacted /\ u.fault = t.fault

Contents(e) == {<<e[i].key, e[i].val>> : i \in Used(e)}

(* The invariant of the hash part: there are depths for which its entries   *)
(* are chained, and its count is the number of used slots.                  *)
HashPart(h, t) ==
  /\ t \in TableRecord /\ t.entries \in [Slots(t.lg2) -> Entry]
  /\ t.count = Cardinality(Used(t.entries))
  /\ \E d : Chained(h, Size(t), t.entries, d) /\ Depths(t.entries, d)

(* The slots of a table are the numbers below its size.                     *)
LEMMA SlotsSize ==
  ASSUME NEW t, t.lg2 \in Nat
  PROVE  /\ Slots(t.lg2) \in SUBSET Nat /\ IsFiniteSet(Slots(t.lg2)) /\ Size(t) \in Nat
         /\ Slots(t.lg2) = 0 .. Size(t) - 1
         /\ t.lg2 = 0 => Size(t) = 0
         /\ t.lg2 # 0 => Size(t) = Power2[t.lg2] /\ Size(t) > 0
<1>1. CASE t.lg2 = 0
  <2>1. Slots(t.lg2) = {} /\ Size(t) = 0
    BY <1>1, FS_EmptySet DEF Slots, Size
  <2> QED BY <1>1, <2>1, FS_EmptySet
<1>2. CASE t.lg2 # 0
  <2>1. Slots(t.lg2) = 0 .. Power2[t.lg2] - 1 /\ Power2[t.lg2] \in Nat \ {0}
    BY <1>2, Powers DEF Slots
  <2>2. IsFiniteSet(Slots(t.lg2)) /\ Size(t) = Power2[t.lg2]
    BY <2>1, FS_Interval DEF Size
  <2> QED BY <1>2, <2>1, <2>2
<1> QED BY <1>1, <1>2

(* What the EXCEPTs of insert() do to a table.                              *)
LEMMA PutChanges ==
  ASSUME NEW t \in TableRecord, t.entries \in [Slots(t.lg2) -> Entry],
         NEW i \in Slots(t.lg2), NEW k \in TableKey, NEW v \in TableVal, NEW next \in Int
  PROVE  Changed(t, PutEntry(t, i, k, v, next),
                 [t.entries EXCEPT ![i] = [key |-> k, val |-> v, next |-> next]], t.count + 1)
<1> DEFINE f == [t.entries EXCEPT ![i] = [key |-> k, val |-> v, next |-> next]]
<1>1. f \in [Slots(t.lg2) -> Entry]
  BY DEF Entry
<1>2. f \in UNION {[Slots(g) -> Entry] : g \in Nat}
  BY <1>1 DEF TableRecord
<1> DEFINE c == t.count + 1
<1>3. PutEntry(t, i, k, v, next) = [t EXCEPT !.entries = f, !.count = c]
  BY DEF PutEntry, TableRecord
<1>4. c \in Int
  BY DEF TableRecord
<1> HIDE DEF f, c
<1>5. Changed(t, [t EXCEPT !.entries = f, !.count = c], f, c)
  BY <1>2, <1>4 DEF TableRecord, Changed
<1> QED BY <1>3, <1>5 DEF f, c

LEMMA LinkChanges ==
  ASSUME NEW t \in TableRecord, t.entries \in [Slots(t.lg2) -> Entry],
         NEW i \in Slots(t.lg2), NEW next \in Int
  PROVE  /\ [t.entries EXCEPT ![i].next = next] \in [Slots(t.lg2) -> Entry]
         /\ Changed(t, [t EXCEPT !.entries[i].next = next], [t.entries EXCEPT ![i].next = next], t.count)
<1> DEFINE f == [t.entries EXCEPT ![i].next = next]
<1>1. f \in [Slots(t.lg2) -> Entry]
  BY DEF Entry
<1>2. f \in UNION {[Slots(g) -> Entry] : g \in Nat}
  BY <1>1 DEF TableRecord
<1>3. [t EXCEPT !.entries[i].next = next] = [t EXCEPT !.entries = f]
  OBVIOUS
<1> HIDE DEF f
<1>4. Changed(t, [t EXCEPT !.entries = f], f, t.count)
  BY <1>2 DEF TableRecord, Changed
<1> QED BY <1>1, <1>3, <1>4 DEF f

LEMMA EvictChanges ==
  ASSUME NEW t \in TableRecord, t.entries \in [Slots(t.lg2) -> Entry],
         NEW i \in Slots(t.lg2), NEW j \in Slots(t.lg2), NEW x \in Entry, NEW next \in Int
  PROVE  /\ [t.entries EXCEPT ![i] = x, ![j].next = next] \in [Slots(t.lg2) -> Entry]
         /\ Changed(t, [t EXCEPT !.entries[i] = x, !.entries[j].next = next],
                    [t.entries EXCEPT ![i] = x, ![j].next = next], t.count)
<1> DEFINE f == [t.entries EXCEPT ![i] = x, ![j].next = next]
<1>1. f \in [Slots(t.lg2) -> Entry]
  BY DEF Entry
<1>2. f \in UNION {[Slots(g) -> Entry] : g \in Nat}
  BY <1>1 DEF TableRecord
<1>3. [t EXCEPT !.entries[i] = x, !.entries[j].next = next] = [t EXCEPT !.entries = f]
  BY DEF TableRecord
<1> HIDE DEF f
<1>4. Changed(t, [t EXCEPT !.entries = f], f, t.count)
  BY <1>2 DEF TableRecord, Changed
<1> QED BY <1>1, <1>3, <1>4 DEF f

(* u is t with one entry more, or one less, and nothing else changed.       *)
Rest(t, u) ==
  /\ u.lg2 = t.lg2 /\ u.array = t.array /\ u.arrayCount = t.arrayCount
  /\ u.compacted = t.compacted /\ u.fault = t.fault

Holds(h, t, u, c, contents) ==
  HashPart(h, u) /\ Rest(t, u) /\ u.count = c /\ Contents(u.entries) = contents

(* The used slots are finitely many.                                        *)
LEMMA UsedFinite ==
  ASSUME NEW h, NEW t, HashPart(h, t)
  PROVE  /\ Used(t.entries) \subseteq Slots(t.lg2) /\ Used(t.entries) \subseteq Nat
         /\ IsFiniteSet(Used(t.entries)) /\ Cardinality(Used(t.entries)) \in Nat
         /\ Cardinality(Used(t.entries)) <= Size(t) /\ t.count \in Nat
         /\ t.lg2 \in Nat /\ Size(t) \in Nat
         /\ \A i \in Used(t.entries) : t.entries[i].key \in TableKey /\ t.entries[i].key # EmptyKey
<1>1. t.lg2 \in Nat /\ t.entries \in [Slots(t.lg2) -> Entry]
  BY DEF HashPart, TableRecord
<1>2. Used(t.entries) \subseteq Slots(t.lg2)
  BY <1>1 DEF Used
<1>3. /\ Slots(t.lg2) \in SUBSET Nat /\ IsFiniteSet(Slots(t.lg2)) /\ Size(t) \in Nat
  BY <1>1, SlotsSize
<1>4. IsFiniteSet(Used(t.entries)) /\ Cardinality(Used(t.entries)) <= Cardinality(Slots(t.lg2))
  BY <1>2, <1>3, FS_Subset
<1>5. Cardinality(Used(t.entries)) \in Nat
  BY <1>4, FS_CardinalityType
<1>6. \A i \in Used(t.entries) : t.entries[i].key \in TableKey /\ t.entries[i].key # EmptyKey
  BY <1>1, <1>2 DEF Used, Entry
<1> QED BY <1>1, <1>2, <1>3, <1>4, <1>5, <1>6 DEF HashPart, Size

(* A table with another used slot and entries that are chained is a hash    *)
(* part.                                                                    *)
LEMMA Grown ==
  ASSUME NEW h, NEW t, HashPart(h, t), NEW u, NEW f, Changed(t, u, f, t.count + 1),
         f \in [Slots(t.lg2) -> Entry], NEW x, x \notin Used(t.entries),
         Used(f) = Used(t.entries) \cup {x},
         \E d : Chained(h, Size(t), f, d) /\ Depths(f, d)
  PROVE  HashPart(h, u) /\ Rest(t, u) /\ u.count = t.count + 1
<1>1. IsFiniteSet(Used(t.entries)) /\ Cardinality(Used(t.entries)) \in Nat
  BY UsedFinite
<1>2. Cardinality(Used(f)) = Cardinality(Used(t.entries)) + 1
  BY <1>1, FS_AddElement
<1>3. Size(u) = Size(t)
  BY DEF Size, Changed
<1> QED BY <1>2, <1>3 DEF HashPart, Changed, Rest

(* insert() puts a key that is not there into a table with an empty slot,   *)
(* in each of its three ways, and changes nothing else: it always finds a   *)
(* free slot, and on the chain of an occupant it evicts the one before it.  *)
LEMMA Inserted ==
  ASSUME NEW t, HashPart(hash, t), hash \in [TableKey -> Nat],
         NEW k \in TableKey, k # EmptyKey, NEW v \in TableVal,
         \A i \in Used(t.entries) : t.entries[i].key # k,
         Cardinality(Used(t.entries)) < Size(t)
  PROVE  Holds(hash, t, InsertEntry(t, k, v), t.count + 1, Contents(t.entries) \cup {<<k, v>>})
<1> DEFINE e == t.entries
           n == Size(t)
           u == InsertEntry(t, k, v)
           m == MainPosition(t, k)
           x == Max(EmptySlots(t))
<1>1. /\ Used(e) \subseteq Slots(t.lg2) /\ Used(e) \subseteq Nat
      /\ IsFiniteSet(Used(e)) /\ Cardinality(Used(e)) \in Nat /\ t.lg2 \in Nat /\ n \in Nat
      /\ Cardinality(Used(e)) <= n
      /\ \A i \in Used(e) : e[i].key \in TableKey /\ e[i].key # EmptyKey
  BY UsedFinite, Zenon
<1>2. n > 0 /\ Slots(t.lg2) = 0 .. n - 1 /\ Slots(t.lg2) \in SUBSET Nat /\ IsFiniteSet(Slots(t.lg2))
  BY <1>1, SlotsSize
<1>3. t \in TableRecord /\ e \in [Slots(t.lg2) -> Entry]
  BY DEF HashPart
<1>4. \A j \in TableKey : hash[j] % n \in Slots(t.lg2)
  BY <1>1, <1>2
<1>5. m = hash[k] % n /\ m \in Slots(t.lg2) /\ m \in Nat
  BY <1>2, <1>4 DEF MainPosition
<1>6. \A i \in Slots(t.lg2) : IsEmpty(t, i) <=> i \notin Used(e)
  BY <1>3 DEF IsEmpty, Used
<1>7. EmptySlots(t) = Slots(t.lg2) \ Used(e)
  BY <1>6 DEF EmptySlots
<1>8. EmptySlots(t) # {}
  <2> SUFFICES ASSUME EmptySlots(t) = {} PROVE FALSE
    OBVIOUS
  <2>1. Used(e) = Slots(t.lg2)
    BY <1>1, <1>7
  <2>2. Cardinality(Used(e)) = n
    BY <2>1, Zenon DEF Size
  <2> QED BY <2>2, <1>1
<1>9. x \in Slots(t.lg2) /\ x \in Nat /\ x \notin Used(e)
  <2>1. EmptySlots(t) \in SUBSET Nat /\ n \in Nat /\ \A i \in EmptySlots(t) : i <= n
    BY <1>1, <1>2, <1>7
  <2>2. x \in EmptySlots(t)
    BY <2>1, <1>8, MaxIsLargest
  <2> QED BY <2>2, <1>2, <1>7
<1>0. n = Size(t)
  OBVIOUS
<1>10. PICK d : Chained(hash, n, e, d) /\ Depths(e, d)
  BY DEF HashPart
<1> HIDE DEF n, m, x, u
<1>11. CASE m \notin Used(e)
  <2> DEFINE f == [e EXCEPT ![m] = [key |-> k, val |-> v, next |-> NoEntry]]
  <2>0. u = PutEntry(t, m, k, v, NoEntry)
    BY <1>5, <1>6, <1>11, Zenon DEF InsertEntry, m, u
  <2>1. NoEntry \in Int
    BY DEF NoEntry
  <2>2. Changed(t, u, f, t.count + 1)
    BY <2>0, <2>1, <1>3, <1>5, PutChanges, Zenon
  <2>3. f \in [Slots(t.lg2) -> Entry]
    BY <1>3, <1>5 DEF Entry, NoEntry
  <2>4. f[m].key = k /\ f[m].val = v /\ f[m].next = NoEntry /\ \A i \in Used(e) : f[i] = e[i]
    BY <1>1, <1>3, <1>5, <1>11
  <2>5. \A i \in Slots(t.lg2) \ {m} : f[i] = e[i]
    BY <1>3
  <2> HIDE DEF f
  <2>6. Used(f) = Used(e) \cup {m}
    BY <1>3, <1>5, <2>3, <2>4, <2>5 DEF Used
  <2>7. \A i \in Used(e) : e[i].key # k /\ f[i] = e[i]
    BY <2>4
  <2>8. \E dd : Chained(hash, n, f, dd) /\ Depths(f, dd)
    BY <1>5, <1>10, <1>11, <2>4, <2>6, <2>7, PutFree
  <2>9. HashPart(hash, u) /\ Rest(t, u) /\ u.count = t.count + 1
    BY <2>2, <2>3, <2>6, <2>8, <1>11, Grown DEF n
  <2>10. Contents(f) = Contents(e) \cup {<<k, v>>}
    BY <2>4, <2>6, <2>7 DEF Contents
  <2> QED BY <2>2, <2>9, <2>10 DEF Holds, Changed, u
<1>12. CASE m \in Used(e) /\ Home(hash, n, e, m) = m
  <2> DEFINE t1 == [t EXCEPT !.entries[m].next = x]
             e1 == [e EXCEPT ![m].next = x]
             f == [e1 EXCEPT ![x] = [key |-> k, val |-> v, next |-> e[m].next]]
  <2>1. MainPosition(t, e[m].key) = m /\ ~IsEmpty(t, m) /\ EmptySlots(t) # {}
    BY <1>5, <1>6, <1>8, <1>12 DEF MainPosition, Home, n
  <2>2. u = PutEntry(t1, x, k, v, e[m].next)
    BY <2>1, Zenon DEF InsertEntry, m, u, x
  <2>3. e1 \in [Slots(t.lg2) -> Entry] /\ Changed(t, t1, e1, t.count)
    <3>1. x \in Int
      BY <1>9
    <3> QED BY <3>1, <1>3, <1>5, LinkChanges, Zenon
  <2>4. /\ t1 \in TableRecord /\ t1.entries \in [Slots(t1.lg2) -> Entry] /\ x \in Slots(t1.lg2)
        /\ e[m].next \in Int
    BY <2>3, <1>3, <1>5, <1>9 DEF Changed, Entry
  <2> HIDE DEF t1
  <2>5. Changed(t1, u, [t1.entries EXCEPT ![x] = [key |-> k, val |-> v, next |-> e[m].next]], t1.count + 1)
    BY <2>2, <2>4, PutChanges, Zenon
  <2>6. t1.entries = e1
    BY <2>3 DEF Changed
  <2> HIDE DEF e1
  <2>7. Changed(t, u, f, t.count + 1)
    BY <2>3, <2>5, <2>6 DEF Changed
  <2>8. f \in [Slots(t.lg2) -> Entry]
    BY <2>3, <2>4, <1>9 DEF Entry
  <2>9. x # m /\ \A i \in Used(e) : i # x
    BY <1>9, <1>12
  <2>10. /\ \A i \in Slots(t.lg2) \ {x} : f[i].key = e[i].key /\ f[i].val = e[i].val
         /\ \A i \in Slots(t.lg2) \ {x, m} : f[i].next = e[i].next
         /\ f[m].next = x /\ f[x].key = k /\ f[x].val = v /\ f[x].next = e[m].next
    <3>1. \A i \in Slots(t.lg2) \ {x} : f[i] = e1[i]
      BY <2>3
    <3>2. f[x] = [key |-> k, val |-> v, next |-> e[m].next]
      BY <2>3, <1>9
    <3>3. e1[m] = [e[m] EXCEPT !.next = x] /\ \A i \in Slots(t.lg2) \ {m} : e1[i] = e[i]
      BY <1>3, <1>5 DEF e1
    <3>4. e1[m].key = e[m].key /\ e1[m].val = e[m].val /\ e1[m].next = x
      BY <3>3, <1>3, <1>5 DEF Entry
    <3>5. f[m].key = e[m].key /\ f[m].val = e[m].val /\ f[m].next = x
      BY <3>1, <3>4, <2>9, <1>5
    <3>6. \A i \in Slots(t.lg2) \ {x, m} : f[i] = e[i]
      BY <3>1, <3>3
    <3>7. f[x].key = k /\ f[x].val = v /\ f[x].next = e[m].next
      BY <3>2
    <3> HIDE DEF f
    <3> QED BY <3>5, <3>6, <3>7
  <2> HIDE DEF f
  <2>11. Used(f) = Used(e) \cup {x}
    <3>1. \A i \in Slots(t.lg2) : i \in Used(f) <=> f[i].key # EmptyKey
      BY <2>8 DEF Used
    <3>2. \A i \in Slots(t.lg2) : i \in Used(e) <=> e[i].key # EmptyKey
      BY <1>3 DEF Used
    <3>3. Used(f) \subseteq Slots(t.lg2)
      BY <2>8 DEF Used
    <3>4. x \in Used(f)
      BY <3>1, <2>10, <1>9
    <3>5. \A i \in Slots(t.lg2) \ {x} : i \in Used(f) <=> i \in Used(e)
      BY <3>1, <3>2, <2>10
    <3> QED BY <3>3, <3>4, <3>5, <1>1
  <2>12. /\ \A i \in Used(e) : e[i].key # k /\ f[i].key = e[i].key /\ f[i].val = e[i].val
         /\ \A i \in Used(e) \ {m} : f[i].next = e[i].next
    BY <1>1, <2>9, <2>10
  <2>13. \E dd : Chained(hash, n, f, dd) /\ Depths(f, dd)
    BY <1>5, <1>9, <1>10, <1>12, <2>10, <2>11, <2>12, PutBehind
  <2>14. HashPart(hash, u) /\ Rest(t, u) /\ u.count = t.count + 1
    BY <2>7, <2>8, <2>11, <2>13, <1>9, Grown DEF n
  <2>15. Contents(f) = Contents(e) \cup {<<k, v>>}
    BY <2>10, <2>11, <2>12 DEF Contents
  <2> QED BY <2>7, <2>14, <2>15 DEF Holds, Changed, u
<1>13. CASE m \in Used(e) /\ Home(hash, n, e, m) # m
  <2> DEFINE head == Home(hash, n, e, m)
             before == {i \in Chain(t, head) : e[i].next = m}
             p == CHOOSE i \in before : TRUE
             t1 == [t EXCEPT !.entries[x] = e[m], !.entries[p].next = x]
             e1 == [e EXCEPT ![x] = e[m], ![p].next = x]
             f == [e1 EXCEPT ![m] = [key |-> k, val |-> v, next |-> NoEntry]]
  <2>1. MainPosition(t, e[m].key) = head /\ head # m /\ ~IsEmpty(t, m) /\ EmptySlots(t) # {}
    BY <1>5, <1>6, <1>8, <1>13 DEF MainPosition, Home, n
  <2>2. head \in Used(e) /\ Home(hash, n, e, head) = head
    BY <1>10, <1>13 DEF Chained, HeadsHome
  <2>3. Chain(t, head) = {j \in Used(e) : Home(hash, n, e, j) = head}
    <3>1. ChainIsGroup(hash, n, t, head)
      BY <2>2, <1>0, <1>1, <1>10, ChainWhole, Zenon
    <3> QED BY <3>1 DEF ChainIsGroup
  <2>4. \E i \in Used(e) : e[i].next = m
    BY <1>10, <1>13 DEF Chained, Preceded
  <2>5. m # NoEntry
    BY <1>5 DEF NoEntry
  <2>6. before # {}
    BY <2>3, <2>4, <2>5, <1>10 DEF Chained, NextDeeper
  <2>7. p \in Used(e) /\ e[p].next = m /\ p \in Slots(t.lg2)
    BY <2>3, <2>6, <1>1
  <2>8. u = PutEntry(t1, m, k, v, NoEntry)
    BY <2>1, <2>6, Zenon DEF InsertEntry, m, u, x
  <2> HIDE DEF head, before, p
  <2>9. e[m] \in Entry
    BY <1>3, <1>5
  <2>10. e1 \in [Slots(t.lg2) -> Entry] /\ Changed(t, t1, e1, t.count)
    <3>1. x \in Int
      BY <1>9
    <3> QED BY <3>1, <2>7, <2>9, <1>3, <1>9, EvictChanges, Zenon
  <2>11. /\ t1 \in TableRecord /\ t1.entries \in [Slots(t1.lg2) -> Entry] /\ m \in Slots(t1.lg2)
         /\ NoEntry \in Int
    BY <2>10, <1>5 DEF Changed, NoEntry
  <2> HIDE DEF t1
  <2>12. Changed(t1, u, [t1.entries EXCEPT ![m] = [key |-> k, val |-> v, next |-> NoEntry]], t1.count + 1)
    BY <2>8, <2>11, PutChanges, Zenon
  <2>13. t1.entries = e1
    BY <2>10 DEF Changed
  <2> HIDE DEF e1
  <2>14. Changed(t, u, f, t.count + 1)
    BY <2>10, <2>12, <2>13 DEF Changed
  <2>15. f \in [Slots(t.lg2) -> Entry]
    BY <2>10, <2>11, <1>5 DEF Entry
  <2>16. x # m /\ x # p /\ p # m /\ \A i \in Used(e) : i # x
    <3>1. p # m
      BY <2>5, <2>7, <1>10, <1>13 DEF Chained, NextDeeper, Depths
    <3> QED BY <3>1, <1>9, <1>13, <2>7
  <2>17. /\ \A i \in Slots(t.lg2) \ {x, m} : f[i].key = e[i].key /\ f[i].val = e[i].val
         /\ \A i \in Slots(t.lg2) \ {x, m, p} : f[i].next = e[i].next
         /\ f[m].key = k /\ f[m].val = v /\ f[m].next = NoEntry /\ f[x] = e[m] /\ f[p].next = x
    <3>1. \A i \in Slots(t.lg2) \ {m} : f[i] = e1[i]
      BY <2>10
    <3>2. f[m] = [key |-> k, val |-> v, next |-> NoEntry]
      BY <2>10, <1>5
    <3>3. /\ e1[p] = [e[p] EXCEPT !.next = x] /\ e1[x] = e[m]
          /\ \A i \in Slots(t.lg2) \ {x, p} : e1[i] = e[i]
      BY <1>3, <1>9, <2>7, <2>16 DEF e1
    <3>4. e1[p].key = e[p].key /\ e1[p].val = e[p].val /\ e1[p].next = x
      BY <3>3, <1>3, <2>7 DEF Entry
    <3>5. f[p] = e1[p] /\ f[x] = e1[x]
      BY <3>1, <2>7, <2>16, <1>9
    <3>6. \A i \in Slots(t.lg2) \ {x, m, p} : f[i] = e[i]
      BY <3>1, <3>3
    <3>7. f[p].key = e[p].key /\ f[p].val = e[p].val /\ f[p].next = x
      BY <3>4, <3>5
    <3>8. f[m].key = k /\ f[m].val = v /\ f[m].next = NoEntry
      BY <3>2
    <3>9. f[x] = e[m]
      BY <3>3, <3>5
    <3> HIDE DEF f
    <3> QED BY <3>6, <3>7, <3>8, <3>9
  <2> HIDE DEF f
  <2>18. Used(f) = Used(e) \cup {x}
    <3>1. \A i \in Slots(t.lg2) : i \in Used(f) <=> f[i].key # EmptyKey
      BY <2>15 DEF Used
    <3>2. \A i \in Slots(t.lg2) : i \in Used(e) <=> e[i].key # EmptyKey
      BY <1>3 DEF Used
    <3>3. Used(f) \subseteq Slots(t.lg2)
      BY <2>15 DEF Used
    <3>4. e[m].key # EmptyKey /\ m \in Used(e)
      BY <1>13, <1>1
    <3>5. x \in Used(f) /\ m \in Used(f)
      BY <3>1, <3>4, <2>17, <1>5, <1>9
    <3>6. \A i \in Slots(t.lg2) \ {x, m} : i \in Used(f) <=> i \in Used(e)
      BY <3>1, <3>2, <2>17
    <3> QED BY <3>3, <3>4, <3>5, <3>6, <1>1
  <2>19. /\ \A i \in Used(e) : e[i].key # k
         /\ \A i \in Used(e) \ {m} : f[i].key = e[i].key /\ f[i].val = e[i].val
         /\ \A i \in Used(e) \ {m, p} : f[i].next = e[i].next
         /\ f[x].key = e[m].key /\ f[x].val = e[m].val /\ f[x].next = e[m].next
    BY <1>1, <2>16, <2>17
  <2>20. \E dd : Chained(hash, n, f, dd) /\ Depths(f, dd)
    BY <1>5, <1>9, <1>10, <1>13, <2>7, <2>17, <2>18, <2>19, Evict
  <2>21. HashPart(hash, u) /\ Rest(t, u) /\ u.count = t.count + 1
    BY <2>14, <2>15, <2>18, <2>20, <1>9, Grown DEF n
  <2>22. Contents(f) = Contents(e) \cup {<<k, v>>}
    <3>1. \A i \in Used(e) \ {m} : <<f[i].key, f[i].val>> = <<e[i].key, e[i].val>>
      BY <2>19
    <3>2. <<f[x].key, f[x].val>> = <<e[m].key, e[m].val>> /\ <<f[m].key, f[m].val>> = <<k, v>>
      BY <2>17, <2>19
    <3> QED BY <3>1, <3>2, <2>18, <1>13 DEF Contents
  <2> QED BY <2>14, <2>21, <2>22 DEF Holds, Changed, u
<1> QED BY <1>11, <1>12, <1>13 DEF u

AllEntries == UNION {[Slots(g) -> Entry] : g \in Nat}

(* What rm() does to a table.                                               *)
LEMMA EntriesChange ==
  ASSUME NEW t \in TableRecord, NEW f \in AllEntries, NEW c \in Int
  PROVE  Changed(t, [t EXCEPT !.entries = f, !.count = c], f, c)
BY DEF TableRecord, Changed, AllEntries

LEMMA Shrunk ==
  ASSUME NEW h, NEW t, HashPart(h, t), NEW u, NEW f, Changed(t, u, f, t.count - 1),
         f \in [Slots(t.lg2) -> Entry], NEW x \in Used(t.entries),
         Used(f) = Used(t.entries) \ {x},
         \E d : Chained(h, Size(t), f, d) /\ Depths(f, d)
  PROVE  HashPart(h, u) /\ Rest(t, u)
<1>1. IsFiniteSet(Used(t.entries)) /\ Cardinality(Used(t.entries)) \in Nat
  BY UsedFinite
<1>2. Cardinality(Used(f)) = Cardinality(Used(t.entries)) - 1
  BY <1>1, FS_RemoveElement
<1>3. Size(u) = Size(t)
  BY DEF Size, Changed
<1> QED BY <1>2, <1>3 DEF HashPart, Changed, Rest

LEMMA DropChanges ==
  ASSUME NEW t \in TableRecord, NEW f \in [Slots(t.lg2) -> Entry]
  PROVE  Changed(t, Drop(t, f), f, t.count - 1)
<1>1. t.count - 1 \in Int
  BY DEF TableRecord
<1>2. Drop(t, f) = [t EXCEPT !.entries = f, !.count = t.count - 1]
  BY DEF Drop
<1>3. f \in AllEntries
  BY DEF TableRecord, AllEntries
<1> QED BY <1>1, <1>2, <1>3, EntriesChange, Zenon

Without(contents, k) == {c \in contents : c[1] # k}

Shortened(h, t, u, k) ==
  HashPart(h, u) /\ Rest(t, u) /\ Contents(u.entries) = Without(Contents(t.entries), k)

(* rm() removes a key and its value, in each of its ways, and leaves the    *)
(* others.                                                                  *)
LEMMA RemovedEntry ==
  ASSUME NEW t, HashPart(hash, t), hash \in [TableKey -> Nat], t.lg2 # 0,
         NEW k \in TableKey, k # EmptyKey
  PROVE  Shortened(hash, t, RemoveEntry(t, k), k)
<1> DEFINE e == t.entries
           n == Size(t)
           u == RemoveEntry(t, k)
           m == MainPosition(t, k)
<1>0. n = Size(t)
  OBVIOUS
<1>1. /\ Used(e) \subseteq Slots(t.lg2) /\ Used(e) \subseteq Nat
      /\ IsFiniteSet(Used(e)) /\ Cardinality(Used(e)) \in Nat /\ t.lg2 \in Nat /\ n \in Nat
      /\ Cardinality(Used(e)) <= n
      /\ \A i \in Used(e) : e[i].key \in TableKey /\ e[i].key # EmptyKey
  BY UsedFinite, Zenon
<1>2. n > 0 /\ Slots(t.lg2) = 0 .. n - 1 /\ Slots(t.lg2) \in SUBSET Nat
  BY <1>1, SlotsSize
<1>3. t \in TableRecord /\ e \in [Slots(t.lg2) -> Entry] /\ t.count \in Int
  BY DEF HashPart, TableRecord
<1>4. \A j \in TableKey : hash[j] % n \in Slots(t.lg2)
  BY <1>1, <1>2
<1>5. m = hash[k] % n /\ m \in Slots(t.lg2) /\ m \in Nat
  BY <1>2, <1>4 DEF MainPosition
<1>6. \A i \in Slots(t.lg2) : IsEmpty(t, i) <=> i \notin Used(e)
  BY <1>3 DEF IsEmpty, Used
<1>7. PICK d : Chained(hash, n, e, d) /\ Depths(e, d)
  BY DEF HashPart
<1>8. \A i \in Slots(t.lg2) : e[i].key \in TableKey \cup {EmptyKey} /\ e[i].val \in TableVal \cup {Absent}
                              /\ e[i].next \in Int
  BY <1>3 DEF Entry
<1> HIDE DEF n, m, u
<1>9. ASSUME u = t, \A i \in Used(e) : e[i].key # k
      PROVE  Shortened(hash, t, u, k)
  <2>1. Without(Contents(e), k) = Contents(e)
    BY <1>9 DEF Without, Contents
  <2> QED BY <1>9, <2>1 DEF Shortened, Rest
<1>10. \A i \in Used(e) : e[i].key = k => Home(hash, n, e, i) = m
  BY <1>5 DEF Home
<1>11. CASE m \notin Used(e)
  <2>1. \A i \in Used(e) : e[i].key # k
    BY <1>7, <1>10, <1>11 DEF Chained, HeadsHome
  <2>2. IsEmpty(t, m) /\ t.entries[m].key # k
    BY <1>5, <1>6, <1>11 DEF IsEmpty
  <2>3. u = t
    BY <2>2, Zenon DEF RemoveEntry, m, u
  <2> QED BY <1>9, <2>1, <2>3 DEF u
<1>12. CASE m \in Used(e) /\ e[m].key = k /\ e[m].next = NoEntry
  <2> DEFINE f == [e EXCEPT ![m].key = EmptyKey]
  <2>1. u = Drop(t, f)
    BY <1>5, <1>6, <1>12, Zenon DEF RemoveEntry, m, u
  <2>3. f \in [Slots(t.lg2) -> Entry]
    BY <1>3, <1>5 DEF Entry
  <2>4. f[m].key = EmptyKey /\ \A i \in Slots(t.lg2) \ {m} : f[i] = e[i]
    BY <1>3, <1>5 DEF Entry
  <2> HIDE DEF f
  <2>6. Changed(t, u, f, t.count - 1)
    BY <2>1, <2>3, <1>3, DropChanges, Zenon
  <2>7. Used(f) = Used(e) \ {m}
    BY <1>3, <2>3, <2>4 DEF Used
  <2>8. \A i \in Used(e) \ {m} : f[i] = e[i]
    BY <1>1, <2>4
  <2>9. Chained(hash, n, f, d) /\ Depths(f, d)
    <3>1. \A i \in Used(e) \ {m} : f[i].key = e[i].key /\ f[i].next = e[i].next
      BY <2>8
    <3>2. Home(hash, n, e, m) = m
      BY <1>10, <1>12
    <3> QED BY <3>1, <3>2, <2>7, <1>7, <1>12, DropAlone
  <2>10. HashPart(hash, u) /\ Rest(t, u)
    BY <2>3, <2>6, <2>7, <2>9, <1>12, Shrunk DEF n
  <2>11. Contents(f) = Without(Contents(e), k)
    <3>1. \A i \in Used(e) \ {m} : e[i].key # k
      BY <1>7, <1>12 DEF Chained, KeyOnce
    <3> QED BY <3>1, <2>7, <2>8, <1>12 DEF Contents, Without
  <2> QED BY <2>6, <2>10, <2>11 DEF Shortened, Changed, u
<1>13. CASE m \in Used(e) /\ e[m].key = k /\ e[m].next # NoEntry
  <2> DEFINE s == e[m].next
             f == [e EXCEPT ![m] = e[s], ![s].key = EmptyKey]
  <2>1. u = Drop(t, f)
    BY <1>5, <1>6, <1>13, Zenon DEF RemoveEntry, m, u
  <2>2. Home(hash, n, e, m) = m
    BY <1>10, <1>13
  <2>3. s \in Used(e) /\ s # m /\ s # NoEntry /\ s \in Slots(t.lg2)
    BY <2>2, <1>1, <1>7, <1>13 DEF Chained, NextDeeper
  <2> HIDE DEF s
  <2>5. f \in [Slots(t.lg2) -> Entry]
    BY <1>3, <1>5, <2>3 DEF Entry
  <2>6. f[s].key = EmptyKey /\ f[m] = e[s] /\ \A i \in Slots(t.lg2) \ {m, s} : f[i] = e[i]
    BY <1>3, <1>5, <2>3 DEF Entry
  <2> HIDE DEF f
  <2>8. Changed(t, u, f, t.count - 1)
    BY <2>1, <2>5, <1>3, DropChanges, Zenon
  <2>9. Used(f) = Used(e) \ {s}
    <3>1. \A i \in Slots(t.lg2) : i \in Used(f) <=> f[i].key # EmptyKey
      BY <2>5 DEF Used
    <3>2. \A i \in Slots(t.lg2) : i \in Used(e) <=> e[i].key # EmptyKey
      BY <1>3 DEF Used
    <3>3. Used(f) \subseteq Slots(t.lg2)
      BY <2>5 DEF Used
    <3>4. m \in Used(f) /\ s \notin Used(f)
      BY <3>1, <3>2, <2>3, <2>6, <1>5
    <3>5. \A i \in Slots(t.lg2) \ {m, s} : i \in Used(f) <=> i \in Used(e)
      BY <3>1, <3>2, <2>6
    <3> QED BY <3>3, <3>4, <3>5, <1>1, <1>13
  <2>10. f[m].key = e[s].key /\ f[m].val = e[s].val /\ f[m].next = e[s].next
    BY <2>6
  <2>11. \A i \in Used(e) \ {m, s} : f[i].key = e[i].key /\ f[i].val = e[i].val /\ f[i].next = e[i].next
    BY <1>1, <2>6
  <2>12. s = e[m].next
    BY DEF s
  <2>13. Chained(hash, n, f, d) /\ Depths(f, d)
    BY <2>2, <2>3, <2>9, <2>10, <2>11, <2>12, <1>7, <1>13, DropHead
  <2>14. HashPart(hash, u) /\ Rest(t, u)
    BY <2>3, <2>5, <2>8, <2>9, <2>13, Shrunk DEF n
  <2>15. Contents(f) = Without(Contents(e), k)
    <3>1. \A i \in Used(e) \ {m} : e[i].key # k
      BY <1>7, <1>13 DEF Chained, KeyOnce
    <3>2. \A i \in Used(e) \ {m, s} : <<f[i].key, f[i].val>> = <<e[i].key, e[i].val>>
      BY <2>11
    <3>3. <<f[m].key, f[m].val>> = <<e[s].key, e[s].val>>
      BY <2>10
    <3> QED BY <3>1, <3>2, <3>3, <2>3, <2>9, <1>13 DEF Contents, Without
  <2> QED BY <2>8, <2>14, <2>15 DEF Shortened, Changed, u
<1>14. CASE m \in Used(e) /\ e[m].key # k
  <2> DEFINE before == {i \in Chain(t, m) : e[i].next # NoEntry /\ e[e[i].next].key = k}
             p == CHOOSE i \in before : TRUE
             g == e[p].next
             f == [e EXCEPT ![g].key = EmptyKey, ![p].next = e[g].next]
  <2>1. ChainEnds(hash, n, t, m)
    BY <1>0, <1>1, <1>7, <1>14, ChainClosed, Zenon
  <2>2. CASE before = {}
    <3>1. u = t
      BY <1>5, <1>6, <1>14, <2>2, Zenon DEF RemoveEntry, m, u
    <3>2. ASSUME NEW g2 \in Used(e), e[g2].key = k
          PROVE  FALSE
      <4>1. Home(hash, n, e, g2) = m /\ g2 # m /\ Home(hash, n, e, m) = m
        BY <3>2, <1>7, <1>10, <1>14 DEF Chained, HeadsHome
      <4>2. PICK q \in Used(e) : e[q].next = g2
        BY <4>1, <1>7 DEF Chained, Preceded
      <4>3. g2 # NoEntry
        BY <1>1 DEF NoEntry
      <4>4. Home(hash, n, e, q) = m
        BY <4>1, <4>2, <4>3, <1>7 DEF Chained, NextDeeper
      <4>5. ChainIsGroup(hash, n, t, m)
        BY <4>1, <1>0, <1>1, <1>7, <1>14, ChainWhole, Zenon
      <4>6. q \in before
        BY <4>2, <4>3, <4>4, <4>5, <3>2 DEF ChainIsGroup
      <4> QED BY <4>6, <2>2
    <3> QED BY <1>9, <3>1, <3>2 DEF u
  <2>3. CASE before # {}
    <3>1. u = Drop(t, f)
      BY <1>5, <1>6, <1>14, <2>3, Zenon DEF RemoveEntry, m, u
    <3>2. p \in before
      BY <2>3
    <3> HIDE DEF p
    <3>3. p \in Used(e) /\ g # NoEntry /\ e[g].key = k
      BY <3>2, <2>1 DEF ChainEnds
    <3>4. g \in Used(e) /\ g # p /\ g \in Slots(t.lg2) /\ p \in Slots(t.lg2)
      BY <3>3, <1>1, <1>7 DEF Chained, NextDeeper, Depths
    <3>5. g = e[p].next /\ e[g].next \in Int
      BY <3>4, <1>8
    <3> HIDE DEF g, before
    <3>7. f \in [Slots(t.lg2) -> Entry]
      BY <1>3, <3>4, <3>5 DEF Entry
    <3>8. /\ f[g].key = EmptyKey /\ f[p].key = e[p].key /\ f[p].val = e[p].val
          /\ f[p].next = e[g].next /\ \A i \in Slots(t.lg2) \ {p, g} : f[i] = e[i]
      BY <1>3, <3>4 DEF Entry
    <3> HIDE DEF f
    <3>10. Changed(t, u, f, t.count - 1)
      BY <3>1, <3>7, <1>3, DropChanges, Zenon
    <3>11. Used(f) = Used(e) \ {g}
      <4>1. \A i \in Slots(t.lg2) : i \in Used(f) <=> f[i].key # EmptyKey
        BY <3>7 DEF Used
      <4>2. \A i \in Slots(t.lg2) : i \in Used(e) <=> e[i].key # EmptyKey
        BY <1>3 DEF Used
      <4>3. Used(f) \subseteq Slots(t.lg2)
        BY <3>7 DEF Used
      <4>4. g \notin Used(f)
        BY <4>1, <3>4, <3>8
      <4>5. \A i \in Slots(t.lg2) \ {g} : i \in Used(f) <=> i \in Used(e)
        BY <4>1, <4>2, <3>8
      <4> QED BY <4>3, <4>4, <4>5, <1>1
    <3>12. /\ \A i \in Used(e) \ {g} : f[i].key = e[i].key /\ f[i].val = e[i].val
           /\ \A i \in Used(e) \ {g, p} : f[i].next = e[i].next
      BY <1>1, <3>8
    <3>13. Chained(hash, n, f, d) /\ Depths(f, d)
      BY <3>3, <3>5, <3>8, <3>11, <3>12, <1>7, DropInner
    <3>14. HashPart(hash, u) /\ Rest(t, u)
      BY <3>4, <3>7, <3>10, <3>11, <3>13, Shrunk DEF n
    <3>15. Contents(f) = Without(Contents(e), k)
      <4>1. \A i \in Used(e) \ {g} : e[i].key # k
        BY <1>7, <3>3, <3>4 DEF Chained, KeyOnce
      <4>2. \A i \in Used(e) \ {g} : <<f[i].key, f[i].val>> = <<e[i].key, e[i].val>>
        BY <3>12
      <4> QED BY <4>1, <4>2, <3>3, <3>4, <3>11 DEF Contents, Without
    <3> QED BY <3>10, <3>14, <3>15 DEF Shortened, Changed, u
  <2> QED BY <2>2, <2>3
<1> QED BY <1>11, <1>12, <1>13, <1>14 DEF u

(* The empty hash part a rehash starts from, and the step that moves the    *)
(* entry of slot i - 1.                                                     *)
Emptied(t, lg2) ==
  [t EXCEPT !.lg2 = lg2, !.count = 0, !.entries = [s \in Slots(lg2) |-> EmptyEntry]]

CopyStep(t, i, c) ==
  IF IsEmpty(t, i - 1) THEN c ELSE InsertEntry(c, t.entries[i - 1].key, t.entries[i - 1].val)

IsCopy(w, t, lg2, n) ==
  w = [i \in 0 .. n |-> IF i = 0 THEN Emptied(t, lg2) ELSE CopyStep(t, i, w[i - 1])]

(* The copy that Rehash chooses exists.                                     *)
LEMMA RehashDef ==
  ASSUME NEW t, NEW lg2, NEW n \in Nat, n = Size(t)
  PROVE  \E w : Rehash(t, lg2) = w[n] /\ IsCopy(w, t, lg2, n)
<1> DEFINE B == Emptied(t, lg2)
           F(i, c) == CopyStep(t, i, c)
           S == {k \in Nat : \E w : w = [m \in 0 .. k |-> IF m = 0 THEN B ELSE F(m, w[m - 1])]}
<1> HIDE DEF F, B
<1>1. 0 \in S
  <2>1. [m \in 0 .. 0 |-> B] = [m \in 0 .. 0 |-> IF m = 0 THEN B ELSE F(m, [x \in 0 .. 0 |-> B][m - 1])]
    OBVIOUS
  <2>2. \E w : w = [m \in 0 .. 0 |-> IF m = 0 THEN B ELSE F(m, w[m - 1])]
    BY <2>1, Zenon
  <2> QED BY <2>2
<1>2. ASSUME NEW k \in S
      PROVE  k + 1 \in S
  <2>1. PICK w : w = [m \in 0 .. k |-> IF m = 0 THEN B ELSE F(m, w[m - 1])]
    OBVIOUS
  <2> DEFINE more == [m \in 0 .. k + 1 |-> IF m = k + 1 THEN F(k + 1, w[k]) ELSE w[m]]
  <2>2. ASSUME NEW m \in 0 .. k + 1
        PROVE  more[m] = IF m = 0 THEN B ELSE F(m, more[m - 1])
    <3>1. CASE m = k + 1
      <4>1. more[m] = F(m, w[k])
        BY <3>1
      <4>2. m # 0 /\ m - 1 = k /\ more[m - 1] = w[k]
        BY <3>1
      <4> QED BY <4>1, <4>2
    <3>2. CASE m # k + 1
      <4>1. m \in 0 .. k
        BY <3>2
      <4>2. more[m] = w[m] /\ w[m] = IF m = 0 THEN B ELSE F(m, w[m - 1])
        BY <2>1, <3>2, <4>1
      <4>3. m # 0 => more[m - 1] = w[m - 1]
        BY <4>1
      <4> QED BY <4>2, <4>3
    <3> QED BY <3>1, <3>2
  <2>3. more = [m \in 0 .. k + 1 |-> more[m]]
    OBVIOUS
  <2> HIDE DEF more
  <2>4. more = [m \in 0 .. k + 1 |-> IF m = 0 THEN B ELSE F(m, more[m - 1])]
    BY <2>2, <2>3, Zenon
  <2>5. \E x : x = [m \in 0 .. k + 1 |-> IF m = 0 THEN B ELSE F(m, x[m - 1])]
    BY <2>4, Zenon
  <2> QED BY <2>5
<1> HIDE DEF S
<1>3. n \in S
  <2>1. 0 .. n \subseteq S
    BY <1>1, <1>2, UpTo
  <2> QED BY <2>1
<1>4. \E w : w = [m \in 0 .. n |-> IF m = 0 THEN B ELSE F(m, w[m - 1])]
  BY <1>3 DEF S
<1> DEFINE copy[m \in 0 .. n] == IF m = 0 THEN Emptied(t, lg2) ELSE CopyStep(t, m, copy[m - 1])
<1>5. Rehash(t, lg2) = copy[n]
  BY Zenon DEF Rehash, Emptied, CopyStep
<1>6. copy = [m \in 0 .. n |-> IF m = 0 THEN Emptied(t, lg2) ELSE CopyStep(t, m, copy[m - 1])]
  BY <1>4, Zenon DEF F, B
<1> QED BY <1>5, <1>6, Zenon DEF IsCopy

ValuesStored(e) == \A i \in Used(e) : e[i].val \in TableVal

NoEntries(h, t, u, lg2) ==
  /\ HashPart(h, u) /\ u.lg2 = lg2 /\ u.count = 0 /\ Used(u.entries) = {}
  /\ Contents(u.entries) = {}
  /\ u.array = t.array /\ u.arrayCount = t.arrayCount
  /\ u.compacted = t.compacted /\ u.fault = t.fault

(* A hash part without entries is one, with any depths.                     *)
LEMMA EmptyHash ==
  ASSUME NEW h, NEW t \in TableRecord, NEW lg2 \in Nat, NEW u, u = Emptied(t, lg2)
  PROVE  NoEntries(h, t, u, lg2)
<1> DEFINE f == [s \in Slots(lg2) |-> EmptyEntry]
<1>1. f \in [Slots(lg2) -> Entry]
  BY DEF Entry, EmptyEntry, NoEntry
<1>2. f \in UNION {[Slots(g) -> Entry] : g \in Nat}
  BY <1>1
<1>3. Used(f) = {}
  BY DEF Used, EmptyEntry
<1>4. u = [t EXCEPT !.lg2 = lg2, !.count = 0, !.entries = f]
  BY DEF Emptied
<1> HIDE DEF f
<1>5. /\ u \in TableRecord /\ u.lg2 = lg2 /\ u.count = 0 /\ u.entries = f
      /\ u.array = t.array /\ u.arrayCount = t.arrayCount
      /\ u.compacted = t.compacted /\ u.fault = t.fault
  <2> DEFINE t1 == [t EXCEPT !.lg2 = lg2]
  <2>1. /\ t1 \in TableRecord /\ t1.lg2 = lg2
        /\ t1.array = t.array /\ t1.arrayCount = t.arrayCount
        /\ t1.compacted = t.compacted /\ t1.fault = t.fault
    BY DEF TableRecord
  <2>2. u = [t1 EXCEPT !.entries = f, !.count = 0]
    BY <1>4 DEF TableRecord
  <2> HIDE DEF t1
  <2>3. u.entries = f /\ u.count = 0 /\ u.lg2 = t1.lg2
    BY <2>1, <2>2 DEF TableRecord
  <2>4. /\ u.array = t1.array /\ u.arrayCount = t1.arrayCount
        /\ u.compacted = t1.compacted /\ u.fault = t1.fault
    BY <2>1, <2>2 DEF TableRecord
  <2>5. Changed(t1, u, f, 0)
    <3>1. f \in AllEntries /\ 0 \in Int
      BY <1>2 DEF AllEntries
    <3> QED BY <2>1, <2>2, <3>1, EntriesChange, Zenon
  <2> QED BY <2>1, <2>3, <2>4, <2>5 DEF Changed
<1>6. Cardinality({}) = 0
  BY FS_EmptySet
<1>7. \E d : Chained(h, Size(u), f, d) /\ Depths(f, d)
  BY <1>3 DEF Chained, Depths, HeadsHome, NextDeeper, Preceded, NextOnce, KeyOnce
<1>8. HashPart(h, u)
  BY <1>1, <1>3, <1>5, <1>6, <1>7 DEF HashPart
<1>9. Contents(f) = {}
  BY <1>3 DEF Contents
<1> QED BY <1>3, <1>5, <1>8, <1>9 DEF NoEntries

(* What a hash part of another size with the same entries is.               *)
Resized(h, t, u, lg2) ==
  /\ HashPart(h, u) /\ u.lg2 = lg2 /\ u.count = t.count
  /\ u.array = t.array /\ u.arrayCount = t.arrayCount
  /\ u.compacted = t.compacted /\ u.fault = t.fault
  /\ Contents(u.entries) = Contents(t.entries)

(* A hash part that has room for them holds the same keys and values as     *)
(* before.                                                                  *)
LEMMA Rehashed ==
  ASSUME NEW t, HashPart(hash, t), hash \in [TableKey -> Nat], ValuesStored(t.entries),
         NEW lg2 \in Nat \ {0}, Cardinality(Used(t.entries)) <= Power2[lg2]
  PROVE  Resized(hash, t, Rehash(t, lg2), lg2)
<1> DEFINE e == t.entries
           n == Size(t)
           Below(i) == {j \in Used(e) : j < i}
           Part(i) == {<<e[j].key, e[j].val>> : j \in Below(i)}
           Good(i, u) == /\ HashPart(hash, u) /\ u.lg2 = lg2
                         /\ u.count = Cardinality(Below(i))
                         /\ u.array = t.array /\ u.arrayCount = t.arrayCount
                         /\ u.compacted = t.compacted /\ u.fault = t.fault
                         /\ Contents(u.entries) = Part(i)
<1>1. /\ Used(e) \subseteq Slots(t.lg2) /\ Used(e) \subseteq Nat
      /\ IsFiniteSet(Used(e)) /\ Cardinality(Used(e)) \in Nat /\ t.lg2 \in Nat /\ n \in Nat
      /\ \A i \in Used(e) : e[i].key \in TableKey /\ e[i].key # EmptyKey
  BY UsedFinite, Zenon
<1>2. Slots(t.lg2) = 0 .. n - 1
  BY <1>1, SlotsSize
<1>3. t \in TableRecord /\ e \in [Slots(t.lg2) -> Entry] /\ KeyOnce(e) /\ t.count = Cardinality(Used(e))
  BY DEF HashPart, Chained
<1>4. \A i \in Slots(t.lg2) : IsEmpty(t, i) <=> i \notin Used(e)
  BY <1>3 DEF IsEmpty, Used
<1>5. PICK w : Rehash(t, lg2) = w[n] /\ IsCopy(w, t, lg2, n)
  <2>1. n = Size(t)
    OBVIOUS
  <2> QED BY <1>1, <2>1, RehashDef, Zenon
<1> HIDE DEF n
<1>6. w[0] = Emptied(t, lg2)
  BY <1>1, <1>5 DEF IsCopy
<1>7. \A i \in 0 .. n : i < n => w[i + 1] = CopyStep(t, i + 1, w[i])
  <2> TAKE i \in 0 .. n
  <2> HAVE i < n
  <2>1. i + 1 \in 0 .. n /\ i + 1 # 0 /\ (i + 1) - 1 = i
    BY <1>1
  <2>2. w[i + 1] = IF i + 1 = 0 THEN Emptied(t, lg2) ELSE CopyStep(t, i + 1, w[(i + 1) - 1])
    BY <1>5, <2>1, Zenon DEF IsCopy
  <2> QED BY <2>1, <2>2
<1> DEFINE S == {i \in 0 .. n : Good(i, w[i])}
<1>8. 0 \in S
  <2>1. Below(0) = {} /\ Part(0) = {} /\ Cardinality({}) = 0
    BY <1>1, FS_EmptySet
  <2> DEFINE u == w[0]
  <2>2. u = Emptied(t, lg2) /\ lg2 \in Nat
    BY <1>6
  <2> HIDE DEF u
  <2>3. NoEntries(hash, t, u, lg2)
    BY <2>2, <1>3, EmptyHash, Zenon
  <2>4. Good(0, u)
    BY <2>1, <2>3 DEF NoEntries
  <2> QED BY <2>4, <1>1 DEF u
<1>9. ASSUME NEW i \in 0 .. n, i \in S, i < n
      PROVE  i + 1 \in S
  <2> DEFINE c == w[i]
             k == e[i].key
             v == e[i].val
  <2>1. HashPart(hash, c) /\ c.lg2 = lg2 /\ c.count = Cardinality(Below(i)) /\ Contents(c.entries) = Part(i)
        /\ c.array = t.array /\ c.arrayCount = t.arrayCount
        /\ c.compacted = t.compacted /\ c.fault = t.fault
    BY <1>9
  <2>2. i \in Slots(t.lg2) /\ i \in Nat /\ i + 1 \in 0 .. n /\ (i + 1) - 1 = i
    BY <1>1, <1>2, <1>9
  <2>3. w[i + 1] = IF i \notin Used(e) THEN c ELSE InsertEntry(c, k, v)
    <3>1. w[i + 1] = CopyStep(t, i + 1, w[i])
      BY <1>7, <1>9
    <3> QED BY <3>1, <2>2, <1>4, Zenon DEF CopyStep
  <2> HIDE DEF c
  <2>4. CASE i \notin Used(e)
    <3>1. Below(i + 1) = Below(i)
      BY <1>1, <2>2, <2>4
    <3>2. Good(i + 1, c)
      BY <2>1, <3>1
    <3> HIDE DEF Good
    <3> QED BY <2>2, <2>3, <2>4, <3>2 DEF S
  <2>5. CASE i \in Used(e)
    <3>1. Below(i + 1) = Below(i) \cup {i} /\ i \notin Below(i)
      BY <1>1, <2>2, <2>5
    <3>2. IsFiniteSet(Below(i)) /\ Cardinality(Below(i)) \in Nat
      BY <1>1, FS_Subset, FS_CardinalityType
    <3>3. Cardinality(Below(i + 1)) = Cardinality(Below(i)) + 1
      BY <3>1, <3>2, FS_AddElement
    <3>4. Cardinality(Below(i + 1)) <= Cardinality(Used(e))
      BY <1>1, FS_Subset
    <3>5. Size(c) = Power2[lg2]
      BY <2>1, SlotsSize
    <3>6. Cardinality(Used(c.entries)) < Size(c)
      <4>1. Cardinality(Used(c.entries)) = Cardinality(Below(i))
        BY <2>1 DEF HashPart
      <4>2. Power2[lg2] \in Nat
        BY Powers
      <4> HIDE DEF Below
      <4> QED BY <4>1, <4>2, <3>2, <3>3, <3>4, <3>5, <1>1
    <3>7. \A q \in Used(c.entries) : c.entries[q].key # k
      <4> TAKE q \in Used(c.entries)
      <4>1. <<c.entries[q].key, c.entries[q].val>> \in Part(i)
        BY <2>1 DEF Contents
      <4>2. PICK j \in Below(i) : c.entries[q].key = e[j].key
        BY <4>1
      <4>3. j \in Used(e) /\ j # i
        BY <4>2, <2>2
      <4> QED BY <4>2, <4>3, <2>5, <1>3 DEF KeyOnce
    <3>8. k \in TableKey /\ k # EmptyKey /\ v \in TableVal
      BY <2>5, <1>1 DEF ValuesStored
    <3> HIDE DEF k, v
    <3>9. Holds(hash, c, InsertEntry(c, k, v), c.count + 1, Contents(c.entries) \cup {<<k, v>>})
      BY <2>1, <3>6, <3>7, <3>8, Inserted, Zenon
    <3>10. Contents(c.entries) \cup {<<k, v>>} = Part(i + 1)
      BY <2>1, <3>1 DEF k, v
    <3>11. Good(i + 1, InsertEntry(c, k, v))
      <4> DEFINE u == InsertEntry(c, k, v)
      <4>1. HashPart(hash, u) /\ Rest(c, u) /\ u.count = c.count + 1 /\ Contents(u.entries) = Part(i + 1)
        BY <3>9, <3>10 DEF Holds
      <4> HIDE DEF u, Part, Below
      <4>2. Good(i + 1, u)
        BY <4>1, <2>1, <3>3 DEF Rest
      <4> QED BY <4>2 DEF u
    <3> HIDE DEF Good
    <3> QED BY <2>2, <2>3, <2>5, <3>11 DEF S
  <2> QED BY <2>4, <2>5
<1> HIDE DEF S
<1>10. n \in S
  <2>1. 0 .. n \subseteq S
    BY <1>1, <1>8, <1>9, UpTo
  <2> QED BY <2>1, <1>1
<1>11. Below(n) = Used(e)
  BY <1>1, <1>2
<1>12. Part(n) = Contents(e)
  BY <1>11 DEF Contents
<1>13. Good(n, w[n])
  BY <1>10 DEF S
<1> HIDE DEF Part, Below
<1> QED BY <1>3, <1>5, <1>11, <1>12, <1>13 DEF Resized

(* A lookup finds the slot of a key, and only of a key that is there.       *)
LEMMA Found ==
  ASSUME NEW t, HashPart(hash, t), hash \in [TableKey -> Nat], NEW k \in TableKey, k # EmptyKey
  PROVE  /\ \A i \in Used(t.entries) : t.entries[i].key = k => FindEntry(t, k) = i
         /\ (\A i \in Used(t.entries) : t.entries[i].key # k) => FindEntry(t, k) = NoEntry
<1> DEFINE e == t.entries
           n == Size(t)
           m == MainPosition(t, k)
           found == {i \in Chain(t, m) : e[i].key = k}
<1>0. n = Size(t)
  OBVIOUS
<1>1. /\ Used(e) \subseteq Slots(t.lg2) /\ Used(e) \subseteq Nat
      /\ IsFiniteSet(Used(e)) /\ Cardinality(Used(e)) \in Nat /\ t.lg2 \in Nat /\ n \in Nat
      /\ Cardinality(Used(e)) <= n
      /\ \A i \in Used(e) : e[i].key \in TableKey /\ e[i].key # EmptyKey
  BY UsedFinite, Zenon
<1>2. t.lg2 # 0 => n > 0 /\ Slots(t.lg2) = 0 .. n - 1
  BY <1>1, SlotsSize
<1>3. t \in TableRecord /\ e \in [Slots(t.lg2) -> Entry]
  BY DEF HashPart
<1>4. t.lg2 = 0 => Used(e) = {}
  BY <1>1 DEF Slots
<1>5. t.lg2 # 0 => m = hash[k] % n /\ m \in Slots(t.lg2)
  <2>1. t.lg2 # 0 => hash[k] % n \in Slots(t.lg2)
    BY <1>1, <1>2
  <2> QED BY <2>1 DEF MainPosition
<1>6. \A i \in Slots(t.lg2) : IsEmpty(t, i) <=> i \notin Used(e)
  BY <1>3 DEF IsEmpty, Used
<1>7. PICK d : Chained(hash, n, e, d) /\ Depths(e, d)
  BY DEF HashPart
<1>8. FindEntry(t, k) = IF t.lg2 = 0 \/ IsEmpty(t, m) THEN NoEntry
                        ELSE IF found = {} THEN NoEntry ELSE CHOOSE i \in found : TRUE
  BY Zenon DEF FindEntry
<1> HIDE DEF n, m
<1>9. \A i \in Used(e) : e[i].key = k => t.lg2 # 0 /\ Home(hash, n, e, i) = m
  BY <1>4, <1>5 DEF Home
<1>10. t.lg2 # 0 /\ m \in Used(e) => found \subseteq Used(e)
  <2> HAVE t.lg2 # 0 /\ m \in Used(e)
  <2>1. ChainEnds(hash, n, t, m)
    BY <1>0, <1>1, <1>7, ChainClosed, Zenon
  <2> QED BY <2>1 DEF ChainEnds
<1>11. ASSUME NEW i \in Used(e), e[i].key = k
       PROVE  FindEntry(t, k) = i
  <2>1. t.lg2 # 0 /\ m \in Used(e) /\ Home(hash, n, e, m) = m
    BY <1>7, <1>9, <1>11 DEF Chained, HeadsHome
  <2>2. ChainIsGroup(hash, n, t, m)
    BY <2>1, <1>0, <1>1, <1>7, ChainWhole, Zenon
  <2>3. i \in found
    BY <2>2, <1>9, <1>11 DEF ChainIsGroup
  <2>4. found = {i}
    BY <2>1, <2>3, <1>7, <1>10, <1>11 DEF Chained, KeyOnce
  <2>5. ~IsEmpty(t, m)
    BY <2>1, <1>5, <1>6
  <2> HIDE DEF found
  <2> QED BY <2>1, <2>4, <2>5, <1>8
<1>12. ASSUME \A i \in Used(e) : e[i].key # k
       PROVE  FindEntry(t, k) = NoEntry
  <2>1. CASE t.lg2 = 0 \/ IsEmpty(t, m)
    BY <2>1, <1>8
  <2>2. CASE t.lg2 # 0 /\ ~IsEmpty(t, m)
    <3>1. found = {}
      BY <2>2, <1>5, <1>6, <1>10, <1>12
    <3> QED BY <2>2, <3>1, <1>8
  <2> QED BY <2>1, <2>2
<1> QED BY <1>11, <1>12

-----------------------------------------------------------------------------
(* The whole table: its hash part, its array part, and the pairs of both.   *)

Filled(a) == {i \in DOMAIN a : a[i] # Absent}

ArrayPairs(a) == {<<i, a[i]>> : i \in Filled(a)}

Graph(t) == Contents(t.entries) \cup ArrayPairs(t.array)

(* Every key is in the part it belongs to, 0 never in the hash part.        *)
TableOK(h, t) ==
  /\ HashPart(h, t) /\ ValuesStored(t.entries)
  /\ \A i \in Used(t.entries) : t.entries[i].key \notin DOMAIN t.array
  /\ IsFiniteSet(Filled(t.array)) /\ t.arrayCount = Cardinality(Filled(t.array))
  /\ 0 \in TableKey => 0 \in DOMAIN t.array

(* d is what the table holds.                                               *)
Agrees(t, d) == Graph(t) = {<<k, d[k]>> : k \in DOMAIN d}

(* lookup() returns what the table holds under a key, and nothing for       *)
(* another.                                                                 *)
LEMMA Lookup ==
  ASSUME NEW t, TableOK(hash, t), hash \in [TableKey -> Nat], NEW d, Agrees(t, d),
         NEW k \in TableKey
  PROVE  Stored(t, k) = IF k \in DOMAIN d THEN d[k] ELSE Absent
<1> DEFINE e == t.entries
           a == t.array
<1>1. CASE k \in DOMAIN a
  <2>1. Stored(t, k) = a[k]
    BY <1>1 DEF Stored, InArray
  <2>2. CASE a[k] # Absent
    <3>1. <<k, a[k]>> \in Graph(t)
      BY <1>1, <2>2 DEF Graph, ArrayPairs, Filled
    <3>2. k \in DOMAIN d /\ a[k] = d[k]
      BY <3>1 DEF Agrees
    <3> QED BY <2>1, <3>2
  <2>3. CASE a[k] = Absent
    <3> SUFFICES ASSUME k \in DOMAIN d PROVE FALSE
      BY <2>1, <2>3
    <3>1. <<k, d[k]>> \in Graph(t)
      BY DEF Agrees
    <3>2. <<k, d[k]>> \notin ArrayPairs(a)
      BY <2>3 DEF ArrayPairs, Filled
    <3>3. <<k, d[k]>> \notin Contents(e)
      BY <1>1 DEF Contents, TableOK
    <3> QED BY <3>1, <3>2, <3>3 DEF Graph
  <2> QED BY <2>2, <2>3
<1>2. CASE k \notin DOMAIN a
  <2>1. HashPart(hash, t) /\ k # EmptyKey
    BY <1>2 DEF TableOK, EmptyKey
  <2>2. Stored(t, k) = IF FindEntry(t, k) = NoEntry THEN Absent ELSE e[FindEntry(t, k)].val
    BY <1>2, Zenon DEF Stored, InArray
  <2>3. CASE \E i \in Used(e) : e[i].key = k
    <3>1. PICK i \in Used(e) : e[i].key = k
      BY <2>3
    <3>2. FindEntry(t, k) = i
      BY <2>1, <3>1, Found
    <3>3. i # NoEntry
      <4>1. i \in Nat
        BY <2>1, UsedFinite
      <4> QED BY <4>1 DEF NoEntry
    <3>4. <<k, e[i].val>> \in Graph(t)
      BY <3>1 DEF Graph, Contents
    <3>5. k \in DOMAIN d /\ d[k] = e[i].val
      BY <3>4 DEF Agrees
    <3> QED BY <2>2, <3>2, <3>3, <3>5
  <2>4. CASE \A i \in Used(e) : e[i].key # k
    <3>1. FindEntry(t, k) = NoEntry
      BY <2>1, <2>4, Found
    <3>2. ASSUME k \in DOMAIN d PROVE FALSE
      <4>1. <<k, d[k]>> \in Graph(t)
        BY <3>2 DEF Agrees
      <4>2. <<k, d[k]>> \notin ArrayPairs(a)
        BY <1>2 DEF ArrayPairs, Filled
      <4>3. <<k, d[k]>> \notin Contents(e)
        BY <2>4 DEF Contents
      <4> QED BY <4>1, <4>2, <4>3 DEF Graph
    <3> QED BY <2>2, <3>1, <3>2
  <2> QED BY <2>3, <2>4
<1> QED BY <1>1, <1>2

(* The count is the number of keys.                                         *)
LEMMA CountIsKeys ==
  ASSUME NEW h, NEW t, TableOK(h, t), NEW d, Agrees(t, d)
  PROVE  /\ IsFiniteSet(DOMAIN d) /\ TableCount(t) = Cardinality(DOMAIN d)
         /\ TableCount(t) \in Nat
<1> DEFINE e == t.entries
           a == t.array
           inHash == {e[i].key : i \in Used(e)}
           Key == [i \in Used(e) |-> e[i].key]
<1>1. IsFiniteSet(Used(e)) /\ t.count = Cardinality(Used(e)) /\ t.count \in Nat
  <2>1. HashPart(h, t)
    BY DEF TableOK
  <2> QED BY <2>1, UsedFinite DEF HashPart
<1>2. KeyOnce(e)
  BY DEF TableOK, HashPart, Chained
<1>3. IsFiniteSet(inHash) /\ Cardinality(inHash) = Cardinality(Used(e))
  <2>1. Key \in Bijection(Used(e), inHash)
    BY <1>2 DEF Bijection, Injection, Surjection, IsInjective, KeyOnce
  <2>2. ExistsBijection(Used(e), inHash)
    BY <2>1 DEF ExistsBijection
  <2> HIDE DEF inHash
  <2> QED BY <2>2, <1>1, FS_Bijection
<1>4. IsFiniteSet(Filled(a)) /\ t.arrayCount = Cardinality(Filled(a)) /\ t.arrayCount \in Nat
  BY FS_CardinalityType DEF TableOK
<1>5. inHash \cap Filled(a) = {}
  BY DEF TableOK, Filled
<1>6. DOMAIN d = inHash \cup Filled(a)
  <2>1. \A k \in DOMAIN d : k \in inHash \cup Filled(a)
    <3> TAKE k \in DOMAIN d
    <3>1. <<k, d[k]>> \in Graph(t)
      BY DEF Agrees
    <3> QED BY <3>1 DEF Graph, Contents, ArrayPairs
  <2>2. \A k \in inHash \cup Filled(a) : k \in DOMAIN d
    <3> TAKE k \in inHash \cup Filled(a)
    <3>1. CASE k \in inHash
      <4>1. PICK i \in Used(e) : k = e[i].key
        BY <3>1
      <4>2. <<k, e[i].val>> \in Graph(t)
        BY <4>1 DEF Graph, Contents
      <4> QED BY <4>2 DEF Agrees
    <3>2. CASE k \in Filled(a)
      <4>1. <<k, a[k]>> \in Graph(t)
        BY <3>2 DEF Graph, ArrayPairs
      <4> QED BY <4>1 DEF Agrees
    <3> QED BY <3>1, <3>2
  <2> QED BY <2>1, <2>2
<1>7. /\ IsFiniteSet(inHash \cup Filled(a))
      /\ Cardinality(inHash \cup Filled(a))
           = Cardinality(inHash) + Cardinality(Filled(a)) - Cardinality({})
  BY <1>3, <1>4, <1>5, FS_Union
<1>8. Cardinality({}) = 0
  BY FS_EmptySet
<1> HIDE DEF inHash
<1> QED BY <1>1, <1>3, <1>4, <1>6, <1>7, <1>8 DEF TableCount

AllArrays == UNION {[0 .. m - 1 -> Values] : m \in Nat}

(* u is t with another array part.                                          *)
ArrayIs(h, t, u, b, c) ==
  /\ HashPart(h, u) /\ u.array = b /\ u.arrayCount = c
  /\ u.lg2 = t.lg2 /\ u.entries = t.entries /\ u.count = t.count
  /\ u.compacted = t.compacted /\ u.fault = t.fault

LEMMA ArrayChanges ==
  ASSUME NEW h, NEW t, HashPart(h, t), NEW b \in AllArrays, NEW c \in Int,
         NEW u, u = [t EXCEPT !.array = b, !.arrayCount = c]
  PROVE  ArrayIs(h, t, u, b, c)
<1>1. t \in TableRecord
  BY DEF HashPart
<1>2. /\ u.array = b /\ u.arrayCount = c
      /\ u.lg2 = t.lg2 /\ u.entries = t.entries /\ u.count = t.count
      /\ u.compacted = t.compacted /\ u.fault = t.fault
  BY <1>1 DEF TableRecord
<1>3. u \in TableRecord
  BY <1>1 DEF TableRecord, AllArrays
<1>4. Size(u) = Size(t)
  BY <1>2 DEF Size
<1> QED BY <1>2, <1>3, <1>4 DEF HashPart, ArrayIs

LEMMA ArrayPut ==
  ASSUME NEW t \in TableRecord, NEW k \in DOMAIN t.array, NEW v \in Values
  PROVE  /\ [t.array EXCEPT ![k] = v] \in AllArrays
         /\ DOMAIN [t.array EXCEPT ![k] = v] = DOMAIN t.array
         /\ [t.array EXCEPT ![k] = v][k] = v
         /\ \A i \in DOMAIN t.array \ {k} : [t.array EXCEPT ![k] = v][i] = t.array[i]
<1>1. PICK m \in Nat : t.array \in [0 .. m - 1 -> Values]
  BY DEF TableRecord
<1>2. [t.array EXCEPT ![k] = v] \in [0 .. m - 1 -> Values]
  BY <1>1
<1> QED BY <1>1, <1>2 DEF AllArrays

NoKey(t, k) == \A x \in Graph(t) : x[1] # k

(* What the insertion of a key that is not there does.                      *)
Inserts(h, t, u, k, v) ==
  /\ TableOK(h, u) /\ Graph(u) = Graph(t) \cup {<<k, v>>}
  /\ DOMAIN u.array = DOMAIN t.array
  /\ u.fault = t.fault /\ u.compacted = t.compacted
  /\ t.lg2 # 0 => u.lg2 # 0
  /\ InArray(t, k) \/ ~IsFull(t) => u.lg2 = t.lg2
  /\ u.count = IF InArray(t, k) THEN t.count ELSE t.count + 1

(* In the array part a value is stored without moving anything; in the hash *)
(* part the entries may be rehashed into twice as many slots first.         *)
LEMMA InsertedInArray ==
  ASSUME NEW h, NEW t, TableOK(h, t), NEW k \in DOMAIN t.array, NEW v \in TableVal, NoKey(t, k)
  PROVE  Inserts(h, t, Insert(t, k, v), k, v)
<1> DEFINE a == t.array
           b == [a EXCEPT ![k] = v]
           c == t.arrayCount + 1
           u == Insert(t, k, v)
<1>1. HashPart(h, t) /\ t \in TableRecord
  BY DEF TableOK, HashPart
<1>2. a[k] = Absent
  <2> SUFFICES ASSUME a[k] # Absent PROVE FALSE
    OBVIOUS
  <2>1. <<k, a[k]>> \in Graph(t)
    BY DEF Graph, ArrayPairs, Filled
  <2> QED BY <2>1 DEF NoKey
<1>3. u = [t EXCEPT !.array = b, !.arrayCount = c]
  <2>1. u = [t EXCEPT !.array[k] = v, !.arrayCount = @ + 1, !.fault = @ \/ t.array[k] # Absent]
    BY DEF Insert, InArray
  <2>2. u = [t EXCEPT !.array[k] = v, !.arrayCount = @ + 1]
    BY <2>1, <1>1, <1>2 DEF TableRecord
  <2> QED BY <2>2
<1>4. v \in Values /\ v # Absent
  BY TableAssumption DEF Values, Absent
<1>5. /\ b \in AllArrays /\ DOMAIN b = DOMAIN a /\ b[k] = v
      /\ \A i \in DOMAIN a \ {k} : b[i] = a[i]
  BY <1>1, <1>4, ArrayPut
<1>6. c \in Int
  BY <1>1 DEF TableRecord
<1> HIDE DEF u, b
<1>7. ArrayIs(h, t, u, b, c)
  BY <1>1, <1>3, <1>5, <1>6, ArrayChanges, Zenon
<1>8. Filled(b) = Filled(a) \cup {k} /\ k \notin Filled(a)
  BY <1>2, <1>4, <1>5 DEF Filled
<1>9. IsFiniteSet(Filled(b)) /\ Cardinality(Filled(b)) = Cardinality(Filled(a)) + 1
  BY <1>8, FS_AddElement DEF TableOK
<1>10. ArrayPairs(b) = ArrayPairs(a) \cup {<<k, v>>}
  BY <1>5, <1>8 DEF ArrayPairs, Filled
<1>11. TableOK(h, u)
  BY <1>5, <1>7, <1>9 DEF TableOK, ArrayIs
<1>12. Graph(u) = Graph(t) \cup {<<k, v>>}
  BY <1>7, <1>10 DEF Graph, ArrayIs
<1> QED BY <1>5, <1>7, <1>11, <1>12 DEF Inserts, ArrayIs, InArray, u

LEMMA InsertedInHash ==
  ASSUME NEW t, TableOK(hash, t), hash \in [TableKey -> Nat],
         NEW k \in TableKey, k \notin DOMAIN t.array, NEW v \in TableVal, NoKey(t, k)
  PROVE  Inserts(hash, t, Insert(t, k, v), k, v)
<1> DEFINE r == Rehash(t, t.lg2 + 1)
           s == IF IsFull(t) THEN r ELSE t
           u == Insert(t, k, v)
<1>1. HashPart(hash, t) /\ ValuesStored(t.entries) /\ k # EmptyKey
  BY DEF TableOK, EmptyKey
<1>2. /\ Cardinality(Used(t.entries)) \in Nat /\ Cardinality(Used(t.entries)) <= Size(t)
      /\ t.lg2 \in Nat /\ Size(t) \in Nat /\ t.count = Cardinality(Used(t.entries))
  BY <1>1, UsedFinite DEF HashPart
<1>3. u = InsertEntry(s, k, v)
  BY Zenon DEF Insert, InArray
<1>4. /\ t.lg2 = 0 => Size(t) = 0
      /\ t.lg2 # 0 => Size(t) = Power2[t.lg2] /\ Size(t) > 0
  BY <1>2, SlotsSize
<1>5. IsFull(t) => Resized(hash, t, r, t.lg2 + 1)
  <2>1. Power2[t.lg2 + 1] \in Nat /\ Power2[t.lg2 + 1] = 2 * Power2[t.lg2]
        /\ Power2[t.lg2] \in Nat /\ t.lg2 + 1 \in Nat \ {0}
    BY <1>2, Powers
  <2>2. Cardinality(Used(t.entries)) <= Power2[t.lg2 + 1]
    BY <2>1, <1>2, <1>4
  <2> QED BY <2>1, <2>2, <1>1, Rehashed, Zenon
<1>6. /\ HashPart(hash, s) /\ s.count = t.count /\ s.array = t.array
      /\ s.arrayCount = t.arrayCount
      /\ s.compacted = t.compacted /\ s.fault = t.fault
      /\ Contents(s.entries) = Contents(t.entries)
      /\ s.lg2 = IF IsFull(t) THEN t.lg2 + 1 ELSE t.lg2
  BY <1>1, <1>5 DEF Resized
<1>7. Cardinality(Used(s.entries)) < Size(s)
  <2>1. CASE IsFull(t)
    <3>1. t.lg2 + 1 \in Nat \ {0} /\ s.lg2 = t.lg2 + 1
      BY <2>1, <1>2, <1>6
    <3>2. Size(s) = Power2[t.lg2 + 1]
      BY <3>1, SlotsSize
    <3>3. Power2[t.lg2 + 1] = 2 * Power2[t.lg2] /\ Power2[t.lg2] \in Nat \ {0}
      BY <1>2, Powers
    <3>4. Cardinality(Used(s.entries)) = t.count
      BY <1>6 DEF HashPart
    <3> HIDE DEF s
    <3> QED BY <3>2, <3>3, <3>4, <1>2, <1>4
  <2>2. CASE ~IsFull(t)
    <3>1. ~(100 * (t.count + 1) > 85 * Size(t))
      BY <2>2 DEF IsFull
    <3> QED BY <3>1, <2>2, <1>2
  <2> QED BY <2>1, <2>2
<1>8. \A i \in Used(s.entries) : s.entries[i].key # k
  <2> TAKE i \in Used(s.entries)
  <2>1. <<s.entries[i].key, s.entries[i].val>> \in Contents(s.entries)
    BY DEF Contents
  <2>2. <<s.entries[i].key, s.entries[i].val>> \in Graph(t)
    BY <2>1, <1>6 DEF Graph
  <2> QED BY <2>2 DEF NoKey
<1> HIDE DEF s, u
<1>9. Holds(hash, s, u, s.count + 1, Contents(s.entries) \cup {<<k, v>>})
  BY <1>1, <1>3, <1>6, <1>7, <1>8, Inserted, Zenon
<1>10. /\ HashPart(hash, u) /\ Contents(u.entries) = Contents(t.entries) \cup {<<k, v>>}
       /\ u.array = t.array /\ u.arrayCount = t.arrayCount
       /\ u.compacted = t.compacted /\ u.fault = t.fault /\ u.count = t.count + 1
       /\ u.lg2 = IF IsFull(t) THEN t.lg2 + 1 ELSE t.lg2
  BY <1>6, <1>9 DEF Holds, Rest
<1>11. \A i \in Used(u.entries) : <<u.entries[i].key, u.entries[i].val>> \in Contents(t.entries) \cup {<<k, v>>}
  <2> TAKE i \in Used(u.entries)
  <2>1. <<u.entries[i].key, u.entries[i].val>> \in Contents(u.entries)
    BY DEF Contents
  <2> QED BY <2>1, <1>10
<1>12. /\ ValuesStored(u.entries)
       /\ \A i \in Used(u.entries) : u.entries[i].key \notin DOMAIN u.array
  <2> SUFFICES ASSUME NEW i \in Used(u.entries)
               PROVE  u.entries[i].val \in TableVal /\ u.entries[i].key \notin DOMAIN t.array
    BY <1>10 DEF ValuesStored
  <2>1. CASE <<u.entries[i].key, u.entries[i].val>> \in Contents(t.entries)
    <3>1. PICK j \in Used(t.entries) :
            u.entries[i].key = t.entries[j].key /\ u.entries[i].val = t.entries[j].val
      BY <2>1 DEF Contents
    <3> QED BY <3>1 DEF TableOK, ValuesStored
  <2>2. CASE <<u.entries[i].key, u.entries[i].val>> = <<k, v>>
    BY <2>2
  <2> QED BY <2>1, <2>2, <1>11
<1>13. TableOK(hash, u)
  BY <1>10, <1>12 DEF TableOK
<1>14. Graph(u) = Graph(t) \cup {<<k, v>>}
  BY <1>10 DEF Graph
<1> QED BY <1>2, <1>10, <1>13, <1>14 DEF Inserts, InArray, IsFull, u

(* What the removal of a key does, whether it is there or not.              *)
Removes(h, t, u, k) ==
  /\ TableOK(h, u) /\ Graph(u) = Without(Graph(t), k)
  /\ DOMAIN u.array = DOMAIN t.array /\ u.lg2 = t.lg2
  /\ u.fault = t.fault /\ u.compacted = t.compacted

LEMMA RemovedFromArray ==
  ASSUME NEW h, NEW t, TableOK(h, t), NEW k \in DOMAIN t.array
  PROVE  Removes(h, t, Removed(t, k), k)
<1> DEFINE a == t.array
           b == [a EXCEPT ![k] = Absent]
           c == t.arrayCount - 1
           u == Removed(t, k)
<1>1. HashPart(h, t) /\ t \in TableRecord
  BY DEF TableOK, HashPart
<1>2. Without(Contents(t.entries), k) = Contents(t.entries)
  BY DEF Without, Contents, TableOK
<1>3. CASE a[k] = Absent
  <2>1. u = t
    BY <1>3 DEF Removed, InArray
  <2>2. Without(ArrayPairs(a), k) = ArrayPairs(a)
    BY <1>3 DEF Without, ArrayPairs, Filled
  <2>3. Graph(t) = Without(Graph(t), k)
    BY <2>2, <1>2 DEF Graph, Without
  <2> HIDE DEF u
  <2> QED BY <2>1, <2>3 DEF Removes, u
<1>4. CASE a[k] # Absent
  <2>1. u = [t EXCEPT !.array = b, !.arrayCount = c]
    BY <1>4 DEF Removed, InArray
  <2>2. /\ b \in AllArrays /\ DOMAIN b = DOMAIN a /\ b[k] = Absent
        /\ \A i \in DOMAIN a \ {k} : b[i] = a[i]
    <3>1. Absent \in Values
      BY DEF Values
    <3> QED BY <3>1, <1>1, ArrayPut
  <2>3. c \in Int
    BY <1>1 DEF TableRecord
  <2> HIDE DEF u, b
  <2>4. ArrayIs(h, t, u, b, c)
    BY <1>1, <2>1, <2>2, <2>3, ArrayChanges, Zenon
  <2>5. Filled(b) = Filled(a) \ {k} /\ k \in Filled(a)
    BY <2>2, <1>4 DEF Filled
  <2>6. IsFiniteSet(Filled(b)) /\ Cardinality(Filled(b)) = Cardinality(Filled(a)) - 1
    BY <2>5, FS_RemoveElement DEF TableOK
  <2>7. ArrayPairs(b) = Without(ArrayPairs(a), k)
    BY <2>2, <2>5 DEF ArrayPairs, Filled, Without
  <2>8. TableOK(h, u)
    BY <2>2, <2>4, <2>6 DEF TableOK, ArrayIs
  <2>9. Graph(u) = Without(Graph(t), k)
    BY <2>4, <2>7, <1>2 DEF Graph, ArrayIs, Without
  <2> QED BY <2>2, <2>4, <2>8, <2>9 DEF Removes, ArrayIs, u
<1> QED BY <1>3, <1>4

LEMMA RemovedFromHash ==
  ASSUME NEW t, TableOK(hash, t), hash \in [TableKey -> Nat], t.lg2 # 0,
         NEW k \in TableKey, k \notin DOMAIN t.array
  PROVE  Removes(hash, t, Removed(t, k), k)
<1> DEFINE u == Removed(t, k)
<1>1. HashPart(hash, t) /\ k # EmptyKey
  BY DEF TableOK, EmptyKey
<1>2. u = RemoveEntry(t, k)
  BY DEF Removed, InArray
<1> HIDE DEF u
<1>3. Shortened(hash, t, u, k)
  BY <1>1, <1>2, RemovedEntry, Zenon
<1>4. /\ HashPart(hash, u) /\ Contents(u.entries) = Without(Contents(t.entries), k)
      /\ u.array = t.array /\ u.arrayCount = t.arrayCount /\ u.lg2 = t.lg2
      /\ u.compacted = t.compacted /\ u.fault = t.fault
  BY <1>3 DEF Shortened, Rest
<1>5. /\ ValuesStored(u.entries)
      /\ \A i \in Used(u.entries) : u.entries[i].key \notin DOMAIN u.array
  <2> SUFFICES ASSUME NEW i \in Used(u.entries)
               PROVE  u.entries[i].val \in TableVal /\ u.entries[i].key \notin DOMAIN t.array
    BY <1>4 DEF ValuesStored
  <2>1. <<u.entries[i].key, u.entries[i].val>> \in Contents(u.entries)
    BY DEF Contents
  <2>2. <<u.entries[i].key, u.entries[i].val>> \in Contents(t.entries)
    BY <2>1, <1>4 DEF Without
  <2>3. PICK j \in Used(t.entries) :
          u.entries[i].key = t.entries[j].key /\ u.entries[i].val = t.entries[j].val
    BY <2>2 DEF Contents
  <2> QED BY <2>3 DEF TableOK, ValuesStored
<1>6. TableOK(hash, u)
  BY <1>4, <1>5 DEF TableOK
<1>7. Without(ArrayPairs(t.array), k) = ArrayPairs(t.array)
  BY DEF Without, ArrayPairs, Filled
<1>8. Graph(u) = Without(Graph(t), k)
  BY <1>4, <1>7 DEF Graph, Without
<1> QED BY <1>4, <1>6, <1>8 DEF Removes, u

(* What replacing a value in place does: the same keys stay in their places. *)
SamePlaces(t, u) ==
  /\ DOMAIN u.array = DOMAIN t.array /\ Filled(u.array) = Filled(t.array)
  /\ u.lg2 = t.lg2 /\ Used(u.entries) = Used(t.entries)
  /\ \A i \in Used(t.entries) : u.entries[i].key = t.entries[i].key

Replaces(h, t, u, k, v) ==
  /\ TableOK(h, u) /\ Graph(u) = Without(Graph(t), k) \cup {<<k, v>>} /\ SamePlaces(t, u)
  /\ u.fault = t.fault /\ u.compacted = t.compacted

LEMMA ReplacedInArray ==
  ASSUME NEW h, NEW t, TableOK(h, t), NEW k \in DOMAIN t.array, t.array[k] # Absent,
         NEW v \in TableVal
  PROVE  Replaces(h, t, Replaced(t, k, v), k, v)
<1> DEFINE a == t.array
           b == [a EXCEPT ![k] = v]
           c == t.arrayCount
           u == Replaced(t, k, v)
<1>1. HashPart(h, t) /\ t \in TableRecord
  BY DEF TableOK, HashPart
<1>2. Without(Contents(t.entries), k) = Contents(t.entries)
  BY DEF Without, Contents, TableOK
<1>3. u = [t EXCEPT !.array = b, !.arrayCount = c]
  <2>1. u = [t EXCEPT !.array[k] = v]
    BY DEF Replaced, InArray
  <2> QED BY <2>1, <1>1 DEF TableRecord
<1>4. v \in Values /\ v # Absent
  BY TableAssumption DEF Values, Absent
<1>5. /\ b \in AllArrays /\ DOMAIN b = DOMAIN a /\ b[k] = v
      /\ \A i \in DOMAIN a \ {k} : b[i] = a[i]
  BY <1>1, <1>4, ArrayPut
<1>6. c \in Int
  BY <1>1 DEF TableRecord
<1> HIDE DEF u, b
<1>7. ArrayIs(h, t, u, b, c)
  BY <1>1, <1>3, <1>5, <1>6, ArrayChanges, Zenon
<1>8. Filled(b) = Filled(a)
  BY <1>4, <1>5 DEF Filled
<1>9. ArrayPairs(b) = Without(ArrayPairs(a), k) \cup {<<k, v>>}
  BY <1>4, <1>5, <1>8 DEF ArrayPairs, Filled, Without
<1>10. TableOK(h, u)
  BY <1>5, <1>7, <1>8 DEF TableOK, ArrayIs
<1>11. Graph(u) = Without(Graph(t), k) \cup {<<k, v>>}
  BY <1>2, <1>7, <1>9 DEF Graph, ArrayIs, Without
<1>12. SamePlaces(t, u)
  BY <1>5, <1>7, <1>8 DEF SamePlaces, ArrayIs
<1> QED BY <1>7, <1>10, <1>11, <1>12 DEF Replaces, ArrayIs, u

LEMMA ReplacedInHash ==
  ASSUME NEW t, TableOK(hash, t), hash \in [TableKey -> Nat],
         NEW k \in TableKey, k \notin DOMAIN t.array, Stored(t, k) # Absent, NEW v \in TableVal
  PROVE  Replaces(hash, t, Replaced(t, k, v), k, v)
<1> DEFINE e == t.entries
           i == FindEntry(t, k)
           f == [e EXCEPT ![i].val = v]
           u == Replaced(t, k, v)
<1>1. HashPart(hash, t) /\ k # EmptyKey /\ t \in TableRecord /\ e \in [Slots(t.lg2) -> Entry]
  BY DEF TableOK, EmptyKey, HashPart
<1>2. Used(e) \subseteq Slots(t.lg2)
  BY <1>1, UsedFinite
<1>3. i \in Used(e) /\ e[i].key = k
  <2>1. i # NoEntry
    BY DEF Stored, InArray
  <2>2. PICK j \in Used(e) : e[j].key = k
    BY <1>1, <2>1, Found
  <2>3. i = j
    BY <1>1, <2>2, Found
  <2> QED BY <2>2, <2>3
<1>4. u = [t EXCEPT !.entries = f, !.count = t.count]
  <2>1. u = [t EXCEPT !.entries[i].val = v]
    BY DEF Replaced, InArray
  <2> HIDE DEF i
  <2> QED BY <2>1, <1>1 DEF TableRecord
<1> HIDE DEF i
<1>5. f \in [Slots(t.lg2) -> Entry]
  BY <1>1, <1>2, <1>3 DEF Entry
<1>6. /\ f[i].key = e[i].key /\ f[i].next = e[i].next /\ f[i].val = v
      /\ \A j \in Slots(t.lg2) \ {i} : f[j] = e[j]
  BY <1>1, <1>2, <1>3 DEF Entry
<1> HIDE DEF f, u
<1>7. \A j \in Slots(t.lg2) : f[j].key = e[j].key /\ f[j].next = e[j].next
  BY <1>6
<1>8. Used(f) = Used(e)
  BY <1>1, <1>5, <1>7 DEF Used
<1>9. Changed(t, u, f, t.count)
  <2>1. f \in AllEntries
    BY <1>1, <1>5 DEF AllEntries, TableRecord
  <2>2. t.count \in Int
    BY <1>1 DEF TableRecord
  <2> QED BY <2>1, <2>2, <1>1, <1>4, EntriesChange, Zenon
<1>10. \A j \in Used(e) : f[j].key = e[j].key /\ f[j].next = e[j].next
  BY <1>2, <1>7
<1>11. \E d : Chained(hash, Size(t), f, d) /\ Depths(f, d)
  <2>1. PICK d : Chained(hash, Size(t), e, d) /\ Depths(e, d)
    BY <1>1 DEF HashPart
  <2> DEFINE n == Size(t)
  <2> HIDE DEF n
  <2>2. Chained(hash, n, e, d) /\ Depths(e, d)
    BY <2>1 DEF n
  <2>3. \A j \in Used(e) : Home(hash, n, f, j) = Home(hash, n, e, j)
    BY <1>10 DEF Home
  <2>4. HeadsHome(hash, n, f) /\ Preceded(hash, n, f) /\ NextOnce(f) /\ KeyOnce(f)
    BY <2>2, <2>3, <1>8, <1>10 DEF Chained, HeadsHome, Preceded, NextOnce, KeyOnce
  <2>5. NextDeeper(hash, n, f, d)
    BY <2>2, <2>3, <1>8, <1>10 DEF Chained, NextDeeper
  <2>6. Depths(f, d)
    BY <2>2, <1>8 DEF Depths
  <2> QED BY <2>4, <2>5, <2>6 DEF Chained, n
<1>12. HashPart(hash, u)
  <2>1. Size(u) = Size(t)
    BY <1>9 DEF Size, Changed
  <2> QED BY <2>1, <1>1, <1>5, <1>8, <1>9, <1>11 DEF HashPart, Changed
<1>13. \A j \in Used(e) \ {i} : f[j].val = e[j].val
  BY <1>2, <1>6
<1>14. ValuesStored(f) /\ \A j \in Used(f) : f[j].key \notin DOMAIN t.array
  BY <1>6, <1>8, <1>10, <1>13 DEF TableOK, ValuesStored
<1>15. TableOK(hash, u)
  BY <1>9, <1>12, <1>14 DEF TableOK, Changed
<1>16. Contents(f) = Without(Contents(e), k) \cup {<<k, v>>}
  <2>1. \A j \in Used(e) \ {i} : e[j].key # k
    BY <1>1, <1>3 DEF HashPart, Chained, KeyOnce
  <2>2. \A j \in Used(e) \ {i} : <<f[j].key, f[j].val>> = <<e[j].key, e[j].val>>
    BY <1>10, <1>13
  <2>3. <<f[i].key, f[i].val>> = <<k, v>>
    BY <1>3, <1>6
  <2> QED BY <2>1, <2>2, <2>3, <1>3, <1>8 DEF Contents, Without
<1>17. Without(ArrayPairs(t.array), k) = ArrayPairs(t.array)
  BY DEF Without, ArrayPairs, Filled
<1>18. Graph(u) = Without(Graph(t), k) \cup {<<k, v>>}
  BY <1>9, <1>16, <1>17 DEF Graph, Without, Changed
<1>19. SamePlaces(t, u)
  BY <1>8, <1>9, <1>10 DEF SamePlaces, Changed
<1> QED BY <1>9, <1>15, <1>18, <1>19 DEF Replaces, Changed, u

(* Logarithms.                                                              *)
LEMMA Bounded ==
  ASSUME NEW S \in SUBSET Nat, IsFiniteSet(S)
  PROVE  \E n \in Nat : \A m \in S : m <= n
<1> DEFINE OK(c) == \A T \in SUBSET S : IsFiniteSet(T) /\ Cardinality(T) = c
                      => \E n \in Nat : \A m \in T : m <= n
           C == {c \in Nat : OK(c)}
<1>1. 0 \in C
  <2> SUFFICES ASSUME NEW T \in SUBSET S, IsFiniteSet(T), Cardinality(T) = 0
               PROVE  \E n \in Nat : \A m \in T : m <= n
    OBVIOUS
  <2>1. T = {}
    BY FS_EmptySet
  <2> QED BY <2>1
<1>2. ASSUME NEW c \in Nat, c \in C
      PROVE  c + 1 \in C
  <2> SUFFICES ASSUME NEW T \in SUBSET S, IsFiniteSet(T), Cardinality(T) = c + 1
               PROVE  \E n \in Nat : \A m \in T : m <= n
    OBVIOUS
  <2>0. T # {}
    <3> SUFFICES ASSUME T = {} PROVE FALSE
      OBVIOUS
    <3>1. Cardinality(T) = 0
      BY FS_EmptySet
    <3> QED BY <3>1
  <2>1. PICK x \in T : TRUE
    BY <2>0
  <2>2. IsFiniteSet(T \ {x}) /\ Cardinality(T \ {x}) = c
    <3>1. IsFiniteSet(T \ {x}) /\ Cardinality(T \ {x}) = Cardinality(T) - 1
      BY FS_RemoveElement
    <3> QED BY <3>1
  <2>3. T \ {x} \in SUBSET S
    OBVIOUS
  <2>4. PICK n \in Nat : \A m \in T \ {x} : m <= n
    BY <1>2, <2>2, <2>3
  <2>5. \A m \in T : m <= n + x
    BY <2>4
  <2>6. n + x \in Nat
    OBVIOUS
  <2> QED BY <2>5, <2>6
<1>3. Cardinality(S) \in Nat
  BY FS_CardinalityType
<1> HIDE DEF C
<1>4. 0 .. Cardinality(S) \subseteq C
  BY <1>1, <1>2, <1>3, UpTo
<1>5. OK(Cardinality(S))
  BY <1>3, <1>4 DEF C
<1> QED BY <1>5

LEMMA PowersGrow ==
  \A m, n \in Nat : m <= n => Power2[m] <= Power2[n]
<1> SUFFICES ASSUME NEW m \in Nat, NEW n \in Nat, m <= n
             PROVE  Power2[m] <= Power2[n]
  OBVIOUS
<1> DEFINE S == {i \in 0 .. n : i < m \/ Power2[m] <= Power2[i]}
<1>1. 0 \in S
  BY Powers
<1>2. ASSUME NEW i \in 0 .. n, i \in S, i < n
      PROVE  i + 1 \in S
  <2>1. Power2[i] \in Nat /\ Power2[i + 1] = 2 * Power2[i] /\ Power2[m] \in Nat
    BY Powers
  <2>2. CASE i + 1 < m
    BY <2>2
  <2>3. CASE i + 1 = m
    BY <2>1, <2>3
  <2>4. CASE i + 1 > m
    <3>1. Power2[m] <= Power2[i]
      BY <2>4, <1>2
    <3>2. Power2[m] <= Power2[i + 1]
      BY <2>1, <3>1
    <3> QED BY <1>2, <3>2
  <2> QED BY <2>2, <2>3, <2>4
<1> HIDE DEF S
<1>3. 0 .. n \subseteq S
  BY <1>1, <1>2, UpTo
<1>4. n \in S
  BY <1>3
<1> QED BY <1>4 DEF S

Exact(n) == CHOOSE e \in 0 .. n : Power2[e] >= n /\ (e = 0 \/ Power2[e - 1] < n)

LEMMA ExactLog ==
  ASSUME NEW n \in Nat
  PROVE  /\ Exact(n) \in Nat /\ Power2[Exact(n)] >= n
         /\ Exact(n) # 0 => Power2[Exact(n) - 1] < n
<1> DEFINE S == {e \in Nat : Power2[e] >= n}
<1>1. n \in S
  BY Powers
<1>2. PICK l \in S : \A e \in S : l <= e
  BY <1>1, LeastElement
<1>3. l \in 0 .. n
  BY <1>1, <1>2
<1>4. l # 0 => Power2[l - 1] < n
  <2> HAVE l # 0
  <2>1. l - 1 \in Nat /\ l - 1 \notin S
    BY <1>2
  <2>2. Power2[l - 1] \in Nat
    BY <2>1, Powers
  <2> QED BY <2>1, <2>2
<1>5. \E e \in 0 .. n : Power2[e] >= n /\ (e = 0 \/ Power2[e - 1] < n)
  BY <1>2, <1>3, <1>4
<1>6. /\ Exact(n) \in 0 .. n /\ Power2[Exact(n)] >= n
      /\ Exact(n) = 0 \/ Power2[Exact(n) - 1] < n
  BY <1>5, Zenon DEF Exact
<1> QED BY <1>6

(* log2ceil() is monotonic and, up to the cap, large enough.                *)
LEMMA Log2CeilSound ==
  /\ \A n \in Nat : /\ Log2Ceil(n) \in Nat
                    /\ n <= Power2[MaxArrayLg2] => n <= Power2[Log2Ceil(n)]
  /\ \A m, n \in Nat : m <= n => Log2Ceil(m) <= Log2Ceil(n)
<1>1. MaxArrayLg2 \in Nat
  BY TableAssumption
<1>2. \A n \in Nat : Log2Ceil(n) = IF n = 0 THEN 0 ELSE IF Exact(n) > MaxArrayLg2 THEN MaxArrayLg2 ELSE Exact(n)
  BY Zenon DEF Log2Ceil, Exact
<1>3. Power2[0] = 1 /\ \A n \in Nat : Power2[n] \in Nat
  BY Powers
<1>4. ASSUME NEW n \in Nat
      PROVE  /\ Log2Ceil(n) \in Nat
             /\ n <= Power2[MaxArrayLg2] => n <= Power2[Log2Ceil(n)]
  <2>1. Exact(n) \in Nat /\ Power2[Exact(n)] >= n
    BY ExactLog
  <2>2. CASE n = 0
    BY <2>2, <1>2, <1>3
  <2>3. CASE n # 0 /\ Exact(n) > MaxArrayLg2
    BY <2>3, <1>1, <1>2
  <2>4. CASE n # 0 /\ ~(Exact(n) > MaxArrayLg2)
    <3>1. Log2Ceil(n) = Exact(n)
      BY <2>4, <1>2
    <3> QED BY <2>1, <3>1, <1>3
  <2> QED BY <2>2, <2>3, <2>4
<1>5. ASSUME NEW m \in Nat, NEW n \in Nat, m <= n
      PROVE  Exact(m) <= Exact(n)
  <2> SUFFICES ASSUME Exact(m) > Exact(n) PROVE FALSE
    BY ExactLog
  <2>1. /\ Exact(m) \in Nat /\ Exact(n) \in Nat /\ Exact(m) # 0 /\ Exact(m) - 1 \in Nat
        /\ Exact(n) <= Exact(m) - 1
    BY ExactLog
  <2>2. Power2[Exact(m) - 1] < m /\ Power2[Exact(n)] >= n
    BY <2>1, ExactLog
  <2>3. Power2[Exact(n)] <= Power2[Exact(m) - 1]
    BY <2>1, PowersGrow
  <2>4. Power2[Exact(n)] \in Nat /\ Power2[Exact(m) - 1] \in Nat
    BY <2>1, <1>3
  <2> QED BY <2>2, <2>3, <2>4, <1>5
<1>6. ASSUME NEW m \in Nat, NEW n \in Nat, m <= n
      PROVE  Log2Ceil(m) <= Log2Ceil(n)
  <2>1. Exact(m) <= Exact(n) /\ Exact(m) \in Nat /\ Exact(n) \in Nat
    BY <1>5, <1>6, ExactLog
  <2>2. CASE m = 0
    BY <2>2, <1>2, <1>4
  <2>3. CASE m # 0 /\ n # 0
    BY <2>1, <2>3, <1>1, <1>2
  <2> QED BY <2>2, <2>3, <1>6
<1> QED BY <1>4, <1>6

(* The key at a place, the places that hold something, the length of the    *)
(* array part.                                                              *)
KeyIn(t, p) == KeyAt(t, Place(t, p))

Taken(t) == {p \in 0 .. Places(t) - 1 : ~Done(t, Place(t, p))}

ArrayLength(t) == Cardinality(DOMAIN t.array)

(* The places of the array part come first, then those of the hash part.    *)
LEMMA PlacesAre ==
  ASSUME NEW h, NEW t, TableOK(h, t)
  PROVE  /\ ArrayLength(t) \in Nat /\ DOMAIN t.array = 0 .. ArrayLength(t) - 1
         /\ Size(t) \in Nat /\ Slots(t.lg2) = 0 .. Size(t) - 1
         /\ Places(t) = ArrayLength(t) + Size(t)
         /\ Used(t.entries) \subseteq Slots(t.lg2)
         /\ \A i \in Slots(t.lg2) : IsEmpty(t, i) <=> i \notin Used(t.entries)
<1>1. HashPart(h, t) /\ t \in TableRecord /\ t.entries \in [Slots(t.lg2) -> Entry]
  BY DEF TableOK, HashPart
<1>2. Used(t.entries) \subseteq Slots(t.lg2) /\ t.lg2 \in Nat
  BY <1>1, UsedFinite
<1>3. Slots(t.lg2) = 0 .. Size(t) - 1 /\ Size(t) \in Nat
  BY <1>2, SlotsSize
<1>4. PICK m \in Nat : t.array \in [0 .. m - 1 -> Values]
  BY <1>1 DEF TableRecord
<1>5. ArrayLength(t) = m
  <2>1. DOMAIN t.array = 0 .. m - 1 /\ 0 \in Int /\ m - 1 \in Int
    BY <1>4
  <2>2. Cardinality(0 .. m - 1) = IF 0 > m - 1 THEN 0 ELSE (m - 1) - 0 + 1
    BY <2>1, FS_Interval, Zenon
  <2> QED BY <2>1, <2>2 DEF ArrayLength
<1>6. \A i \in Slots(t.lg2) : IsEmpty(t, i) <=> i \notin Used(t.entries)
  BY <1>1 DEF IsEmpty, Used
<1> QED BY <1>2, <1>3, <1>4, <1>5, <1>6 DEF Places, ArrayLength

(* A place holds a key of the array part or a used slot.                    *)
LEMMA PlaceHolds ==
  ASSUME NEW h, NEW t, TableOK(h, t), NEW p \in 0 .. Places(t) - 1
  PROVE  /\ p \in DOMAIN t.array => /\ p \in Taken(t) <=> p \in Filled(t.array)
                                    /\ KeyIn(t, p) = p
         /\ p \notin DOMAIN t.array =>
              /\ p - ArrayLength(t) \in Slots(t.lg2)
              /\ p \in Taken(t) <=> p - ArrayLength(t) \in Used(t.entries)
              /\ KeyIn(t, p) = t.entries[p - ArrayLength(t)].key
<1>1. /\ ArrayLength(t) \in Nat /\ DOMAIN t.array = 0 .. ArrayLength(t) - 1
      /\ Size(t) \in Nat /\ Slots(t.lg2) = 0 .. Size(t) - 1
      /\ Places(t) = ArrayLength(t) + Size(t)
      /\ \A i \in Slots(t.lg2) : IsEmpty(t, i) <=> i \notin Used(t.entries)
  BY PlacesAre
<1>2. CASE p \in DOMAIN t.array
  <2>1. Place(t, p).inArray /\ Place(t, p).index = p
    BY <1>2 DEF Place, InArray
  <2> QED BY <2>1, <1>2 DEF Done, KeyAt, KeyIn, Taken, Filled
<1>3. CASE p \notin DOMAIN t.array
  <2>0. Place(t, p) = [inArray |-> FALSE, index |-> p - ArrayLength(t)]
    BY <1>3, Zenon DEF Place, InArray, ArrayLength
  <2>1. Place(t, p).inArray = FALSE /\ Place(t, p).index = p - ArrayLength(t)
    BY <2>0
  <2>2. p - ArrayLength(t) \in Slots(t.lg2)
    BY <1>1, <1>3
  <2> QED BY <2>1, <2>2, <1>1, <1>3 DEF Done, KeyAt, KeyIn, Taken
<1> QED BY <1>2, <1>3

(* The places that hold something hold every key, and each once.            *)
LEMMA PlacesHoldKeys ==
  ASSUME NEW h, NEW t, TableOK(h, t), NEW d, Agrees(t, d)
  PROVE  /\ \A p \in Taken(t) : KeyIn(t, p) \in DOMAIN d
         /\ \A k \in DOMAIN d : \E p \in Taken(t) : KeyIn(t, p) = k
         /\ \A p, q \in Taken(t) : KeyIn(t, p) = KeyIn(t, q) => p = q
<1> DEFINE a == t.array
           e == t.entries
           l == ArrayLength(t)
<1>1. /\ l \in Nat /\ DOMAIN a = 0 .. l - 1
      /\ Size(t) \in Nat /\ Slots(t.lg2) = 0 .. Size(t) - 1
      /\ Places(t) = l + Size(t) /\ Used(e) \subseteq Slots(t.lg2)
  BY PlacesAre
<1>2. \A p \in Taken(t) : p \in 0 .. Places(t) - 1
  BY DEF Taken
<1>3. ASSUME NEW p \in Taken(t)
      PROVE  /\ p \in DOMAIN a => KeyIn(t, p) = p /\ p \in Filled(a)
             /\ p \notin DOMAIN a => KeyIn(t, p) = e[p - l].key /\ p - l \in Used(e)
  BY <1>2, PlaceHolds
<1>4. ASSUME NEW p \in Taken(t)
      PROVE  KeyIn(t, p) \in DOMAIN d
  <2>1. CASE p \in DOMAIN a
    <3>1. <<p, a[p]>> \in Graph(t)
      BY <2>1, <1>3 DEF Graph, ArrayPairs
    <3>2. p \in DOMAIN d
      BY <3>1 DEF Agrees
    <3> QED BY <2>1, <3>2, <1>3
  <2>2. CASE p \notin DOMAIN a
    <3>1. <<e[p - l].key, e[p - l].val>> \in Graph(t)
      BY <2>2, <1>3 DEF Graph, Contents
    <3>2. e[p - l].key \in DOMAIN d
      BY <3>1 DEF Agrees
    <3> QED BY <2>2, <3>2, <1>3
  <2> QED BY <2>1, <2>2
<1>5. ASSUME NEW k \in DOMAIN d
      PROVE  \E p \in Taken(t) : KeyIn(t, p) = k
  <2>1. <<k, d[k]>> \in Graph(t)
    BY DEF Agrees
  <2>2. CASE <<k, d[k]>> \in ArrayPairs(a)
    <3>1. k \in Filled(a) /\ k \in DOMAIN a
      BY <2>2 DEF ArrayPairs, Filled
    <3>2. k \in 0 .. Places(t) - 1
      BY <3>1, <1>1
    <3>3. k \in Taken(t) /\ KeyIn(t, k) = k
      BY <3>1, <3>2, PlaceHolds
    <3> QED BY <3>3
  <2>3. CASE <<k, d[k]>> \in Contents(e)
    <3>1. PICK i \in Used(e) : e[i].key = k
      BY <2>3 DEF Contents
    <3>2. i \in 0 .. Size(t) - 1
      BY <1>1
    <3> DEFINE p == l + i
    <3>3. p \in 0 .. Places(t) - 1 /\ p \notin DOMAIN a /\ p - l = i
      BY <3>2, <1>1
    <3> HIDE DEF p, l
    <3>4. p \in Taken(t) /\ KeyIn(t, p) = k
      BY <3>1, <3>3, PlaceHolds DEF l
    <3> QED BY <3>4
  <2> QED BY <2>1, <2>2, <2>3 DEF Graph
<1>6. ASSUME NEW p \in Taken(t), NEW q \in Taken(t), KeyIn(t, p) = KeyIn(t, q)
      PROVE  p = q
  <2>1. p \in Int /\ q \in Int
    BY <1>2
  <2>2. KeyOnce(e) /\ \A i \in Used(e) : e[i].key \notin DOMAIN a
    BY DEF TableOK, HashPart, Chained
  <2>3. CASE p \in DOMAIN a /\ q \in DOMAIN a
    BY <2>3, <1>3, <1>6
  <2>4. CASE p \notin DOMAIN a /\ q \notin DOMAIN a
    <3>1. p - l = q - l
      BY <2>2, <2>4, <1>3, <1>6 DEF KeyOnce
    <3> QED BY <2>1, <3>1, <1>1
  <2>5. CASE p \in DOMAIN a /\ q \notin DOMAIN a
    BY <2>2, <2>5, <1>3, <1>6
  <2>6. CASE p \notin DOMAIN a /\ q \in DOMAIN a
    BY <2>2, <2>6, <1>3, <1>6
  <2> QED BY <2>3, <2>4, <2>5, <2>6
<1> QED BY <1>4, <1>5, <1>6

-----------------------------------------------------------------------------
(* Tables without entries.                                                  *)
LEMMA NewTableOK ==
  ASSUME NEW h, NEW m \in Nat, NEW lg2 \in Nat, 0 \in TableKey => m > 0,
         NEW t, t = NewTable(m, lg2)
  PROVE  /\ TableOK(h, t) /\ Graph(t) = {} /\ t.lg2 = lg2 /\ t.count = 0
         /\ DOMAIN t.array = 0 .. m - 1 /\ t.fault = FALSE /\ t.compacted = FALSE
<1> DEFINE f == [s \in Slots(lg2) |-> EmptyEntry]
           a == [i \in 0 .. m - 1 |-> Absent]
<1>1. t = [lg2 |-> lg2, count |-> 0, entries |-> f, array |-> a, arrayCount |-> 0,
           compacted |-> FALSE, fault |-> FALSE]
  BY DEF NewTable
<1>2. f \in [Slots(lg2) -> Entry] /\ a \in [0 .. m - 1 -> Values]
  BY DEF Entry, EmptyEntry, NoEntry, Values
<1>3. f \in UNION {[Slots(g) -> Entry] : g \in Nat} /\ a \in UNION {[0 .. n - 1 -> Values] : n \in Nat}
  BY <1>2
<1>4. Used(f) = {} /\ Filled(a) = {} /\ DOMAIN a = 0 .. m - 1
  BY DEF Used, EmptyEntry, Filled
<1> HIDE DEF f, a
<1>5. t \in TableRecord
  BY <1>1, <1>3 DEF TableRecord
<1>6. /\ t.lg2 = lg2 /\ t.count = 0 /\ t.entries = f /\ t.array = a /\ t.arrayCount = 0
      /\ t.compacted = FALSE /\ t.fault = FALSE
  BY <1>1
<1>7. Cardinality({}) = 0 /\ IsFiniteSet({})
  BY FS_EmptySet
<1>8. \E d : Chained(h, Size(t), f, d) /\ Depths(f, d)
  BY <1>4 DEF Chained, Depths, HeadsHome, NextDeeper, Preceded, NextOnce, KeyOnce
<1>9. HashPart(h, t)
  BY <1>2, <1>4, <1>5, <1>6, <1>7, <1>8 DEF HashPart
<1>10. TableOK(h, t)
  <2>1. Filled(t.array) = {} /\ Used(t.entries) = {} /\ DOMAIN t.array = 0 .. m - 1
    BY <1>4, <1>6
  <2>2. IsFiniteSet(Filled(t.array)) /\ t.arrayCount = Cardinality(Filled(t.array))
    BY <2>1, <1>6, <1>7
  <2>3. 0 \in TableKey => 0 \in DOMAIN t.array
    BY <2>1
  <2> QED BY <2>1, <2>2, <2>3, <1>9, Zenon DEF TableOK, ValuesStored
<1>11. Graph(t) = {}
  BY <1>4, <1>6 DEF Graph, Contents, ArrayPairs
<1> QED BY <1>4, <1>6, <1>10, <1>11

(* The step that inserts what place n - 1 holds.                            *)
FillStep(t, n, c) ==
  IF Done(t, Place(t, n - 1)) THEN c
  ELSE LET k == KeyAt(t, Place(t, n - 1)) IN Insert(c, k, Stored(t, k))

IsFill(w, t, b, n) ==
  w = [i \in 0 .. n |-> IF i = 0 THEN b ELSE FillStep(t, i, w[i - 1])]

(* The copy that CopiedInto chooses exists.                                 *)
LEMMA CopyDef ==
  ASSUME NEW t, NEW b, NEW n \in Nat, n = Places(t)
  PROVE  \E w : CopiedInto(t, b) = w[n] /\ IsFill(w, t, b, n)
<1> DEFINE F(i, c) == FillStep(t, i, c)
           S == {k \in Nat : \E w : w = [m \in 0 .. k |-> IF m = 0 THEN b ELSE F(m, w[m - 1])]}
<1> HIDE DEF F
<1>1. 0 \in S
  <2>1. [m \in 0 .. 0 |-> b] = [m \in 0 .. 0 |-> IF m = 0 THEN b ELSE F(m, [x \in 0 .. 0 |-> b][m - 1])]
    OBVIOUS
  <2>2. \E w : w = [m \in 0 .. 0 |-> IF m = 0 THEN b ELSE F(m, w[m - 1])]
    BY <2>1, Zenon
  <2> QED BY <2>2
<1>2. ASSUME NEW k \in S
      PROVE  k + 1 \in S
  <2>1. PICK w : w = [m \in 0 .. k |-> IF m = 0 THEN b ELSE F(m, w[m - 1])]
    OBVIOUS
  <2> DEFINE more == [m \in 0 .. k + 1 |-> IF m = k + 1 THEN F(k + 1, w[k]) ELSE w[m]]
  <2>2. ASSUME NEW m \in 0 .. k + 1
        PROVE  more[m] = IF m = 0 THEN b ELSE F(m, more[m - 1])
    <3>1. CASE m = k + 1
      <4>1. more[m] = F(m, w[k])
        BY <3>1
      <4>2. m # 0 /\ m - 1 = k /\ more[m - 1] = w[k]
        BY <3>1
      <4> QED BY <4>1, <4>2
    <3>2. CASE m # k + 1
      <4>1. m \in 0 .. k
        BY <3>2
      <4>2. more[m] = w[m] /\ w[m] = IF m = 0 THEN b ELSE F(m, w[m - 1])
        BY <2>1, <3>2, <4>1
      <4>3. m # 0 => more[m - 1] = w[m - 1]
        BY <4>1
      <4> QED BY <4>2, <4>3
    <3> QED BY <3>1, <3>2
  <2>3. more = [m \in 0 .. k + 1 |-> more[m]]
    OBVIOUS
  <2> HIDE DEF more
  <2>4. more = [m \in 0 .. k + 1 |-> IF m = 0 THEN b ELSE F(m, more[m - 1])]
    BY <2>2, <2>3, Zenon
  <2>5. \E x : x = [m \in 0 .. k + 1 |-> IF m = 0 THEN b ELSE F(m, x[m - 1])]
    BY <2>4, Zenon
  <2> QED BY <2>5
<1> HIDE DEF S
<1>3. n \in S
  <2>1. 0 .. n \subseteq S
    BY <1>1, <1>2, UpTo
  <2> QED BY <2>1
<1>4. \E w : w = [m \in 0 .. n |-> IF m = 0 THEN b ELSE F(m, w[m - 1])]
  BY <1>3 DEF S
<1> DEFINE fill[m \in 0 .. n] == IF m = 0 THEN b ELSE FillStep(t, m, fill[m - 1])
<1>5. CopiedInto(t, b) = fill[n]
  BY Zenon DEF CopiedInto, FillStep
<1>6. fill = [m \in 0 .. n |-> IF m = 0 THEN b ELSE FillStep(t, m, fill[m - 1])]
  BY <1>4, Zenon DEF F
<1> QED BY <1>5, <1>6, Zenon DEF IsFill

HashKeys(t) == {t.entries[i].key : i \in Used(t.entries)}

(* The keys of the hash part are as many as its count says.                 *)
LEMMA HashKeysCount ==
  ASSUME NEW h, NEW t, TableOK(h, t)
  PROVE  IsFiniteSet(HashKeys(t)) /\ Cardinality(HashKeys(t)) = t.count /\ t.count \in Nat
<1> DEFINE e == t.entries
           Key == [i \in Used(e) |-> e[i].key]
<1>1. IsFiniteSet(Used(e)) /\ t.count = Cardinality(Used(e)) /\ t.count \in Nat
  <2>1. HashPart(h, t)
    BY DEF TableOK
  <2> QED BY <2>1, UsedFinite DEF HashPart
<1>2. KeyOnce(e)
  BY DEF TableOK, HashPart, Chained
<1>3. Key \in Bijection(Used(e), HashKeys(t))
  BY <1>2 DEF Bijection, Injection, Surjection, IsInjective, KeyOnce, HashKeys
<1>4. ExistsBijection(Used(e), HashKeys(t))
  BY <1>3 DEF ExistsBijection
<1> QED BY <1>1, <1>4, FS_Bijection

(* The keys that the array part of b has no place for, and whether its hash *)
(* part takes them all without growing.                                     *)
Others(b, d) == {k \in DOMAIN d : k \notin DOMAIN b.array}

RoomFor(b, d) ==
  Others(b, d) = {} \/ (b.lg2 # 0 /\ 100 * Cardinality(Others(b, d)) <= 85 * Size(b))

Copies(h, t, b, d, u) ==
  /\ TableOK(h, u) /\ Graph(u) = Graph(t) /\ u.fault = b.fault
  /\ RoomFor(b, d) => u.lg2 = b.lg2

(* A table into which another is copied holds the same, and does not grow   *)
(* on the way if it has room for them.                                      *)
LEMMA CopiedAll ==
  ASSUME NEW t, TableOK(hash, t), hash \in [TableKey -> Nat],
         NEW d, Agrees(t, d), DOMAIN d \subseteq TableKey, \A k \in DOMAIN d : d[k] \in TableVal,
         NEW b, TableOK(hash, b), Graph(b) = {}
  PROVE  Copies(hash, t, b, d, CopiedInto(t, b))
<1> DEFINE n == Places(t)
           Below(i) == {KeyIn(t, p) : p \in {q \in Taken(t) : q < i}}
           Part(i) == {<<k, d[k]>> : k \in Below(i)}
           Good(i, c) == /\ TableOK(hash, c) /\ Graph(c) = Part(i) /\ c.fault = b.fault
                         /\ DOMAIN c.array = DOMAIN b.array
                         /\ RoomFor(b, d) => c.lg2 = b.lg2
<1>0. n \in Nat /\ Taken(t) \subseteq 0 .. n - 1
  BY PlacesAre DEF Taken
<1>1. PICK w : CopiedInto(t, b) = w[n] /\ IsFill(w, t, b, n)
  <2>1. n = Places(t)
    OBVIOUS
  <2> QED BY <2>1, <1>0, CopyDef, Zenon
<1>2. /\ \A p \in Taken(t) : KeyIn(t, p) \in DOMAIN d
      /\ \A k \in DOMAIN d : \E p \in Taken(t) : KeyIn(t, p) = k
      /\ \A p, q \in Taken(t) : KeyIn(t, p) = KeyIn(t, q) => p = q
  BY PlacesHoldKeys
<1>3. IsFiniteSet(DOMAIN d)
  BY CountIsKeys
<1>4. w[0] = b
  BY <1>0, <1>1 DEF IsFill
<1>5. \A i \in 0 .. n : i < n => w[i + 1] = FillStep(t, i + 1, w[i])
  <2> TAKE i \in 0 .. n
  <2> HAVE i < n
  <2>1. i + 1 \in 0 .. n /\ i + 1 # 0 /\ (i + 1) - 1 = i
    BY <1>0
  <2>2. w[i + 1] = IF i + 1 = 0 THEN b ELSE FillStep(t, i + 1, w[(i + 1) - 1])
    BY <1>1, <2>1, Zenon DEF IsFill
  <2> QED BY <2>1, <2>2
<1> DEFINE S == {i \in 0 .. n : Good(i, w[i])}
<1>6. 0 \in S
  <2>1. Below(0) = {}
    BY <1>0
  <2>2. Part(0) = {}
    BY <2>1
  <2> HIDE DEF Part, Below
  <2>3. Good(0, b)
    BY <2>2
  <2> HIDE DEF Good
  <2> QED BY <2>3, <1>0, <1>4
<1>7. ASSUME NEW i \in 0 .. n, i \in S, i < n
      PROVE  i + 1 \in S
  <2> DEFINE c == w[i]
             k == KeyIn(t, i)
             u == Insert(c, k, d[k])
  <2>1. /\ TableOK(hash, c) /\ Graph(c) = Part(i) /\ c.fault = b.fault
        /\ DOMAIN c.array = DOMAIN b.array
        /\ RoomFor(b, d) => c.lg2 = b.lg2
    BY <1>7
  <2>2. i \in 0 .. n - 1 /\ i + 1 \in 0 .. n /\ (i + 1) - 1 = i
    BY <1>0, <1>7
  <2>3. i \in Taken(t) <=> ~Done(t, Place(t, i))
    BY <2>2 DEF Taken
  <2>4. w[i + 1] = FillStep(t, i + 1, c)
    BY <1>5, <1>7
  <2> HIDE DEF c
  <2>5. CASE i \notin Taken(t)
    <3>1. w[i + 1] = c
      BY <2>2, <2>3, <2>4, <2>5, Zenon DEF FillStep
    <3>2. Below(i + 1) = Below(i)
      <4>1. \A q \in Taken(t) : q < i + 1 <=> q < i
        BY <2>5, <1>0
      <4> QED BY <4>1
    <3>3. Good(i + 1, c)
      BY <2>1, <3>2
    <3> HIDE DEF Good
    <3> QED BY <2>2, <3>1, <3>3 DEF S
  <2>6. CASE i \in Taken(t)
    <3>1. k \in DOMAIN d /\ k \in TableKey /\ d[k] \in TableVal
      BY <2>6, <1>2
    <3>2. Stored(t, k) = d[k]
      BY <3>1, Lookup
    <3>3. w[i + 1] = u
      <4>1. w[i + 1] = Insert(c, k, Stored(t, k))
        BY <2>2, <2>3, <2>4, <2>6, Zenon DEF FillStep, KeyIn
      <4> QED BY <4>1, <3>2
    <3>4. Below(i + 1) = Below(i) \cup {k} /\ k \notin Below(i)
      <4>1. \A q \in Taken(t) : q < i + 1 <=> q < i \/ q = i
        BY <2>2, <1>0
      <4>2. i \in Taken(t) /\ ~(i < i)
        BY <2>2, <2>6
      <4> QED BY <4>1, <4>2, <1>2
    <3>5. Below(i) \subseteq DOMAIN d
      BY <1>2
    <3>6. Part(i + 1) = Part(i) \cup {<<k, d[k]>>}
      BY <3>4
    <3>7. NoKey(c, k)
      BY <2>1, <3>4 DEF NoKey
    <3> HIDE DEF k, Below, Part
    <3>8. Inserts(hash, c, u, k, d[k])
      <4>1. CASE k \in DOMAIN c.array
        BY <4>1, <2>1, <3>1, <3>7, InsertedInArray, Zenon
      <4>2. CASE k \notin DOMAIN c.array
        BY <4>2, <2>1, <3>1, <3>7, InsertedInHash, Zenon
      <4> QED BY <4>1, <4>2
    <3>9. ASSUME RoomFor(b, d)
          PROVE  InArray(c, k) \/ ~IsFull(c)
      <4> SUFFICES ASSUME k \notin DOMAIN c.array PROVE ~IsFull(c)
        BY DEF InArray
      <4>1. k \in Others(b, d)
        BY <2>1, <3>1 DEF Others
      <4>2. /\ b.lg2 # 0 /\ 100 * Cardinality(Others(b, d)) <= 85 * Size(b) /\ c.lg2 = b.lg2
        BY <2>1, <3>9, <4>1 DEF RoomFor
      <4>3. IsFiniteSet(HashKeys(c)) /\ Cardinality(HashKeys(c)) = c.count /\ c.count \in Nat
        BY <2>1, HashKeysCount
      <4>4. \A x \in HashKeys(c) : x \in Below(i) /\ x \notin DOMAIN c.array
        <5> TAKE x \in HashKeys(c)
        <5>1. PICK j \in Used(c.entries) : x = c.entries[j].key
          BY DEF HashKeys
        <5>2. <<x, c.entries[j].val>> \in Part(i)
          BY <2>1, <5>1 DEF Graph, Contents
        <5> QED BY <2>1, <5>1, <5>2 DEF Part, TableOK
      <4>5. k \notin HashKeys(c) /\ HashKeys(c) \cup {k} \subseteq Others(b, d)
        BY <2>1, <3>1, <3>4, <3>5, <4>4 DEF Others
      <4>6. Cardinality(HashKeys(c) \cup {k}) = c.count + 1
        BY <4>3, <4>5, FS_AddElement
      <4>7. IsFiniteSet(Others(b, d))
        BY <1>3, FS_Subset DEF Others
      <4>8. Cardinality(HashKeys(c) \cup {k}) <= Cardinality(Others(b, d))
        BY <4>5, <4>7, FS_Subset
      <4>9. Cardinality(Others(b, d)) \in Nat /\ Size(b) \in Nat /\ Size(c) = Size(b)
        BY <4>2, <4>7, FS_CardinalityType, PlacesAre DEF Size
      <4>10. ~(100 * (c.count + 1) > 85 * Size(c))
        BY <4>2, <4>3, <4>6, <4>8, <4>9
      <4> QED BY <4>2, <4>10 DEF IsFull
    <3>10. Good(i + 1, u)
      BY <2>1, <3>6, <3>8, <3>9 DEF Inserts
    <3> HIDE DEF Good
    <3> QED BY <2>2, <3>3, <3>10 DEF S
  <2> QED BY <2>5, <2>6
<1> HIDE DEF S
<1>8. n \in S
  <2>1. 0 .. n \subseteq S
    BY <1>0, <1>6, <1>7, UpTo
  <2> QED BY <2>1, <1>0
<1>9. Good(n, w[n])
  BY <1>8 DEF S
<1>10. Below(n) = DOMAIN d
  <2>1. \A q \in Taken(t) : q < n
    BY <1>0
  <2>2. \A k \in DOMAIN d : k \in Below(n)
    BY <2>1, <1>2
  <2>3. \A k \in Below(n) : k \in DOMAIN d
    BY <1>2
  <2> QED BY <2>2, <2>3
<1>11. Part(n) = Graph(t)
  BY <1>10 DEF Agrees
<1> HIDE DEF Part, Below
<1> QED BY <1>1, <1>9, <1>11 DEF Copies

(* The keys that compact2() counts are those of the table.                  *)
LEMMA KeysAre ==
  ASSUME NEW h, NEW t, TableOK(h, t), NEW d, Agrees(t, d)
  PROVE  Keys(t) = DOMAIN d
<1>1. /\ Used(t.entries) \subseteq Slots(t.lg2)
      /\ \A i \in Slots(t.lg2) : IsEmpty(t, i) <=> i \notin Used(t.entries)
  BY PlacesAre
<1>2. Keys(t) = Filled(t.array) \cup HashKeys(t)
  BY <1>1 DEF Keys, Filled, HashKeys
<1>3. \A k \in DOMAIN d : k \in Keys(t)
  <2> TAKE k \in DOMAIN d
  <2>1. <<k, d[k]>> \in Graph(t)
    BY DEF Agrees
  <2>2. CASE <<k, d[k]>> \in Contents(t.entries)
    BY <2>2, <1>2 DEF Contents, HashKeys
  <2>3. CASE <<k, d[k]>> \in ArrayPairs(t.array)
    BY <2>3, <1>2 DEF ArrayPairs
  <2> QED BY <2>1, <2>2, <2>3 DEF Graph
<1>4. \A k \in Keys(t) : k \in DOMAIN d
  <2> TAKE k \in Keys(t)
  <2>1. CASE k \in Filled(t.array)
    <3>1. <<k, t.array[k]>> \in Graph(t)
      BY <2>1 DEF Graph, ArrayPairs
    <3> QED BY <3>1 DEF Agrees
  <2>2. CASE k \in HashKeys(t)
    <3>1. PICK i \in Used(t.entries) : k = t.entries[i].key
      BY <2>2 DEF HashKeys
    <3>2. <<k, t.entries[i].val>> \in Graph(t)
      BY <3>1 DEF Graph, Contents
    <3> QED BY <3>2 DEF Agrees
  <2> QED BY <2>1, <2>2, <1>2
<1> QED BY <1>3, <1>4

(* A key that has no place in the compacted array is in a later bucket.     *)
LEMMA ArraySizeSound ==
  ASSUME NEW t, Keys(t) \subseteq Nat, IsFiniteSet(Keys(t))
  PROVE  /\ ArraySize(t) \in Nat /\ ArraySize(t) > 0 /\ ArrayLg2(t) \in Nat
         /\ \A k \in Keys(t) : k >= ArraySize(t) => Log2Ceil(k) > ArrayLg2(t)
<1> DEFINE lg2 == ArrayLg2(t)
           bucket == {k \in Keys(t) : Log2Ceil(k) = lg2}
           dense == {e \in 1 .. MaxArrayLg2 :
                       /\ \E k \in Keys(t) : Log2Ceil(k) = e
                       /\ 10 * Cardinality({k \in Keys(t) : Log2Ceil(k) <= e}) >= Power2[e]}
<1>1. MaxArrayLg2 \in Nat
  BY TableAssumption
<1>2. lg2 = IF dense = {} THEN 0 ELSE Max(dense)
  BY Zenon DEF ArrayLg2
<1>3. dense # {} => Max(dense) \in dense
  <2>1. dense \in SUBSET Nat /\ \A e \in dense : e <= MaxArrayLg2
    BY <1>1
  <2> HIDE DEF dense
  <2> QED BY <2>1, <1>1, MaxIsLargest
<1>4. lg2 \in Nat /\ (bucket = {} => lg2 = 0)
  BY <1>1, <1>2, <1>3
<1>5. PICK n \in Nat : \A k \in Keys(t) : k <= n
  BY Bounded
<1>6. bucket # {} => Max(bucket) \in bucket /\ \A k \in bucket : k <= Max(bucket)
  <2>1. bucket \in SUBSET Nat /\ \A k \in bucket : k <= n
    BY <1>5
  <2> HIDE DEF bucket
  <2> QED BY <2>1, MaxIsLargest
<1>7. ArraySize(t) = (IF bucket = {} THEN 0 ELSE Max(bucket)) + 1
  BY Zenon DEF ArraySize
<1>8. ArraySize(t) \in Nat /\ ArraySize(t) > 0
  BY <1>6, <1>7
<1>9. ASSUME NEW k \in Keys(t), k >= ArraySize(t), ~(Log2Ceil(k) > lg2)
      PROVE  FALSE
  <2>1. Log2Ceil(k) \in Nat /\ Log2Ceil(k) <= lg2 /\ k \in Nat
    BY <1>4, <1>9, Log2CeilSound
  <2>2. CASE bucket = {}
    <3>1. Log2Ceil(k) = 0 /\ lg2 = 0
      BY <2>1, <2>2, <1>4
    <3> QED BY <3>1, <2>2
  <2>3. CASE bucket # {}
    <3>1. Max(bucket) \in Nat /\ Max(bucket) <= k /\ Log2Ceil(Max(bucket)) = lg2
      BY <2>1, <2>3, <1>6, <1>7, <1>9
    <3>2. lg2 <= Log2Ceil(k)
      BY <2>1, <3>1, Log2CeilSound
    <3>3. Log2Ceil(k) = lg2
      BY <2>1, <3>2, <1>4
    <3>4. k <= Max(bucket)
      BY <2>3, <3>3, <1>6
    <3>5. k >= Max(bucket) + 1
      BY <2>3, <1>7, <1>9
    <3> QED BY <2>1, <3>1, <3>4, <3>5
  <2> QED BY <2>2, <2>3
<1> QED BY <1>4, <1>8, <1>9

(* The keys all fit into the largest hash part that compact2() chooses.     *)
TablesFit ==
  IsFiniteSet(TableKey) /\ 100 * Cardinality(TableKey) < 85 * Power2[MaxArrayLg2]

(* The hash part that compact2() asks for takes the keys of the later       *)
(* buckets with a load of at most 0.85, unless its size is at the cap of    *)
(* log2ceil().                                                              *)
LEMMA HashLg2Sound ==
  ASSUME NEW t, Keys(t) \subseteq TableKey, IsFiniteSet(Keys(t)),
         NEW others, others = {k \in Keys(t) : Log2Ceil(k) > ArrayLg2(t)}
  PROVE  /\ HashLg2(t) \in Nat
         /\ TablesFit => \/ others = {}
                         \/ /\ HashLg2(t) # 0
                            /\ 100 * Cardinality(others) <= 85 * Power2[HashLg2(t)]
<1> DEFINE n == Cardinality(others)
           size == IF n = 0 THEN 0 ELSE (100 * n) \div 85 + 1
<1>1. HashLg2(t) = Log2Ceil(size)
  BY Zenon DEF HashLg2
<1>2. IsFiniteSet(others) /\ n \in Nat
  BY FS_Subset, FS_CardinalityType
<1>3. size \in Nat
  BY <1>2
<1>4. HashLg2(t) \in Nat
  BY <1>1, <1>3, Log2CeilSound
<1>5. ASSUME TablesFit, others # {}
      PROVE  HashLg2(t) # 0 /\ 100 * n <= 85 * Power2[HashLg2(t)]
  <2> DEFINE P == Power2[MaxArrayLg2]
             Q == Power2[HashLg2(t)]
  <2>1. P \in Nat /\ Q \in Nat
    BY <1>4, TableAssumption, Powers
  <2>2. n # 0
    BY <1>2, <1>5, FS_EmptySet
  <2>3. n <= Cardinality(TableKey) /\ Cardinality(TableKey) \in Nat
    BY <1>2, <1>5, FS_Subset, FS_CardinalityType DEF TablesFit
  <2>4. 100 * n < 85 * P
    BY <2>1, <2>3, <1>2, <1>5 DEF TablesFit
  <2> HIDE DEF n, P, Q
  <2>5. size = (100 * n) \div 85 + 1
    BY <2>2
  <2>6. size <= P /\ 100 * n <= 85 * size /\ size >= 2
    BY <2>1, <2>2, <2>4, <2>5, <1>2
  <2> HIDE DEF size
  <2>7. size <= Q
    BY <2>6, <1>1, <1>3, Log2CeilSound DEF P, Q
  <2>8. HashLg2(t) # 0
    <3> SUFFICES ASSUME HashLg2(t) = 0 PROVE FALSE
      OBVIOUS
    <3>1. Q = 1
      BY Powers DEF Q
    <3> QED BY <3>1, <2>6, <2>7, <1>3
  <2>9. 100 * n <= 85 * Q
    BY <2>1, <2>6, <2>7, <1>2, <1>3
  <2> QED BY <2>8, <2>9 DEF Q
<1> QED BY <1>4, <1>5

Compacts(h, t, u) ==
  /\ TableOK(h, u) /\ Graph(u) = Graph(t) /\ u.compacted = TRUE
  /\ TablesFit /\ ~t.fault => ~u.fault

(* Compaction keeps what the table holds and, if the table fits, ends with  *)
(* the size it computed first.                                              *)
LEMMA CompactedSame ==
  ASSUME NEW t, TableOK(hash, t), hash \in [TableKey -> Nat],
         NEW d, Agrees(t, d), DOMAIN d \subseteq TableKey, \A k \in DOMAIN d : d[k] \in TableVal
  PROVE  Compacts(hash, t, Compacted(t))
<1> DEFINE m == ArraySize(t)
           lg2 == HashLg2(t)
           b == NewTable(m, lg2)
           f == CopiedInto(t, b)
           u == Compacted(t)
           others == {k \in Keys(t) : Log2Ceil(k) > ArrayLg2(t)}
<1>1. Keys(t) = DOMAIN d /\ IsFiniteSet(Keys(t)) /\ Keys(t) \subseteq TableKey /\ Keys(t) \subseteq Nat
  BY KeysAre, CountIsKeys, TableAssumption
<1>2. /\ m \in Nat /\ m > 0
      /\ \A k \in Keys(t) : k >= m => Log2Ceil(k) > ArrayLg2(t)
  BY <1>1, ArraySizeSound
<1>3. /\ lg2 \in Nat
      /\ TablesFit => \/ others = {}
                      \/ lg2 # 0 /\ 100 * Cardinality(others) <= 85 * Power2[lg2]
  BY <1>1, HashLg2Sound
<1>4. u = [f EXCEPT !.compacted = TRUE, !.fault = t.fault \/ @ \/ f.lg2 # lg2]
  BY Zenon DEF Compacted
<1>5. /\ TableOK(hash, b) /\ Graph(b) = {} /\ b.lg2 = lg2
      /\ DOMAIN b.array = 0 .. m - 1 /\ b.fault = FALSE
  <2> HIDE DEF b
  <2>1. b = NewTable(m, lg2)
    BY DEF b
  <2>2. m \in Nat /\ lg2 \in Nat /\ (0 \in TableKey => m > 0)
    BY <1>2, <1>3
  <2> HIDE DEF m, lg2
  <2> QED BY <2>1, <2>2, NewTableOK, Zenon
<1> HIDE DEF b, m, lg2
<1>6. Copies(hash, t, b, d, f)
  BY <1>5, CopiedAll, Zenon
<1>7. ASSUME TablesFit PROVE RoomFor(b, d)
  <2>1. Others(b, d) \subseteq others
    BY <1>1, <1>2, <1>5 DEF Others
  <2>2. IsFiniteSet(others)
    BY <1>1, FS_Subset
  <2>3. IsFiniteSet(Others(b, d)) /\ Cardinality(Others(b, d)) <= Cardinality(others)
    BY <2>1, <2>2, FS_Subset
  <2>4. Cardinality(others) \in Nat /\ Cardinality(Others(b, d)) \in Nat
    BY <2>2, <2>3, FS_CardinalityType
  <2>5. CASE others = {}
    BY <2>1, <2>5 DEF RoomFor
  <2>6. CASE others # {}
    <3>1. lg2 # 0 /\ 100 * Cardinality(others) <= 85 * Power2[lg2]
      BY <2>6, <1>3, <1>7
    <3>2. Size(b) = Power2[lg2] /\ Size(b) \in Nat
      BY <3>1, <1>3, <1>5, SlotsSize
    <3> HIDE DEF others
    <3> QED BY <2>3, <2>4, <3>1, <3>2, <1>5 DEF RoomFor
  <2> QED BY <2>5, <2>6
<1>8. TableOK(hash, f) /\ Graph(f) = Graph(t) /\ f.fault = FALSE /\ (TablesFit => f.lg2 = lg2)
  BY <1>5, <1>6, <1>7 DEF Copies
<1> HIDE DEF f, u
<1>9. f \in TableRecord
  BY <1>8 DEF TableOK, HashPart
<1>10. /\ u.lg2 = f.lg2 /\ u.count = f.count /\ u.entries = f.entries /\ u.array = f.array
       /\ u.arrayCount = f.arrayCount /\ u.compacted = TRUE
       /\ u.fault = (t.fault \/ f.fault \/ f.lg2 # lg2)
  BY <1>4, <1>9 DEF TableRecord
<1>11. u \in TableRecord
  BY <1>4, <1>9 DEF TableRecord
<1>12. HashPart(hash, u)
  <2>1. Size(u) = Size(f)
    BY <1>10 DEF Size
  <2> QED BY <2>1, <1>8, <1>10, <1>11 DEF HashPart, TableOK
<1>13. TableOK(hash, u)
  BY <1>8, <1>10, <1>12 DEF TableOK
<1>14. Graph(u) = Graph(t)
  BY <1>8, <1>10 DEF Graph
<1>15. TablesFit /\ ~t.fault => ~u.fault
  BY <1>8, <1>10
<1> QED BY <1>10, <1>13, <1>14, <1>15 DEF Compacts, u

-----------------------------------------------------------------------------
(* Iterators. *)

(* The place an iterator that is not done is at, and the keys up to a place. *)
At(t, it) == IF it.inArray THEN it.index ELSE ArrayLength(t) + it.index

SeenUpTo(t, p) == {KeyIn(t, q) : q \in {x \in Taken(t) : x <= p}}

IterRecord ==
  [on : BOOLEAN, inArray : BOOLEAN, index : Int, seen : SUBSET Int, repeated : BOOLEAN,
   stale : BOOLEAN]

(* begin() starts in front of the first place.                              *)
Ready(t, it) == it.index \in Int /\ (~Done(t, it) \/ (it.inArray /\ it.index = -1))

(* An iterator moves to the next place that holds something.                *)
MovesOn(t, it, new) ==
  \/ Done(t, new) /\ \A q \in Taken(t) : q <= At(t, it)
  \/ /\ ~Done(t, new) /\ At(t, new) \in Taken(t) /\ KeyAt(t, new) = KeyIn(t, At(t, new))
     /\ At(t, it) < At(t, new)
     /\ \A q \in Taken(t) : q > At(t, it) => q >= At(t, new)

(* next() finds the first used slot behind an index.                        *)
LEMMA NextSlotIs ==
  ASSUME NEW h, NEW t, TableOK(h, t), NEW index \in Int
  PROVE  \/ NextSlot(t, index) = NoEntry /\ \A i \in Used(t.entries) : i <= index
         \/ /\ NextSlot(t, index) \in Used(t.entries) /\ NextSlot(t, index) > index
            /\ \A i \in Used(t.entries) : i > index => i >= NextSlot(t, index)
<1> DEFINE behind == {i \in Slots(t.lg2) : i > index /\ ~IsEmpty(t, i)}
<1>1. /\ Size(t) \in Nat /\ Slots(t.lg2) = 0 .. Size(t) - 1 /\ Used(t.entries) \subseteq Slots(t.lg2)
      /\ \A i \in Slots(t.lg2) : IsEmpty(t, i) <=> i \notin Used(t.entries)
  BY PlacesAre
<1>2. behind = {i \in Used(t.entries) : i > index} /\ behind \in SUBSET Nat
  BY <1>1
<1>3. NextSlot(t, index) = IF behind = {} THEN NoEntry ELSE Min(behind)
  BY Zenon DEF NextSlot
<1>4. \A i \in Used(t.entries) : i \in Int
  BY <1>1
<1> HIDE DEF behind
<1>5. CASE behind = {}
  BY <1>2, <1>3, <1>4, <1>5
<1>6. CASE behind # {}
  <2>1. Min(behind) \in behind /\ \A i \in behind : Min(behind) <= i
    BY <1>2, <1>6, MinIsLeast
  <2>2. Min(behind) \in Int
    BY <1>2, <2>1
  <2> QED BY <2>1, <2>2, <1>2, <1>3, <1>4, <1>6
<1> QED BY <1>5, <1>6

(* An iterator moves through the array part into the hash part without      *)
(* leaving out a place.                                                     *)
LEMMA Advanced ==
  ASSUME NEW h, NEW t, TableOK(h, t), NEW it \in IterRecord, Ready(t, it)
  PROVE  /\ MovesOn(t, it, Advance(t, it)) /\ Advance(t, it) \in IterRecord
         /\ Advance(t, it).on = it.on /\ Advance(t, it).stale = it.stale
         /\ Advance(t, it).seen = it.seen /\ Advance(t, it).repeated = it.repeated
<1> DEFINE l == ArrayLength(t)
           behind == {i \in DOMAIN t.array : i > it.index /\ t.array[i] # Absent}
           new == Advance(t, it)
<1>1. /\ l \in Nat /\ DOMAIN t.array = 0 .. l - 1
      /\ Size(t) \in Nat /\ Slots(t.lg2) = 0 .. Size(t) - 1
      /\ Places(t) = l + Size(t) /\ Used(t.entries) \subseteq Slots(t.lg2)
      /\ \A i \in Slots(t.lg2) : IsEmpty(t, i) <=> i \notin Used(t.entries)
  BY PlacesAre
<1>2. ASSUME NEW q \in Taken(t)
      PROVE  /\ q \in 0 .. Places(t) - 1
             /\ q \in DOMAIN t.array => q \in Filled(t.array) /\ KeyIn(t, q) = q
             /\ q \notin DOMAIN t.array => q - l \in Used(t.entries) /\ KeyIn(t, q) = t.entries[q - l].key
  <2>1. q \in 0 .. Places(t) - 1
    BY DEF Taken
  <2> QED BY <2>1, PlaceHolds
<1>3. ASSUME NEW i \in Used(t.entries)
      PROVE  /\ l + i \in Taken(t) /\ KeyIn(t, l + i) = t.entries[i].key
             /\ i \in Slots(t.lg2) /\ i \in Nat
  <2>1. i \in 0 .. Size(t) - 1
    BY <1>1
  <2> DEFINE p == l + i
  <2>2. p \in 0 .. Places(t) - 1 /\ p \notin DOMAIN t.array /\ p - l = i
    BY <2>1, <1>1
  <2> HIDE DEF p, l
  <2>3. p \in Taken(t) /\ KeyIn(t, p) = t.entries[i].key
    BY <2>2, PlaceHolds DEF l
  <2> QED BY <2>1, <2>3, <1>1 DEF p
<1>4. ASSUME NEW i \in Filled(t.array)
      PROVE  i \in Taken(t) /\ KeyIn(t, i) = i /\ i \in 0 .. l - 1
  <2>1. i \in DOMAIN t.array /\ i \in 0 .. Places(t) - 1
    BY <1>1 DEF Filled
  <2> QED BY <2>1, <1>1, PlaceHolds
<1>5. it.index \in Int /\ it.inArray \in BOOLEAN
  BY DEF IterRecord
<1>6. behind = {i \in Filled(t.array) : i > it.index} /\ behind \in SUBSET Nat
  BY <1>1 DEF Filled
<1> HIDE DEF behind, l
<1>7. CASE it.inArray /\ behind # {}
  <2>1. new = [it EXCEPT !.index = Min(behind)]
    BY <1>7, Zenon DEF Advance, behind
  <2>2. Min(behind) \in behind /\ \A i \in behind : Min(behind) <= i
    BY <1>6, <1>7, MinIsLeast
  <2> DEFINE x == Min(behind)
  <2>3. x \in Filled(t.array) /\ x > it.index /\ x \in 0 .. l - 1 /\ x \in Taken(t) /\ KeyIn(t, x) = x
    BY <2>2, <1>4, <1>6
  <2> HIDE DEF x
  <2>4. /\ new \in IterRecord /\ new.index = x /\ new.inArray
        /\ new.on = it.on /\ new.stale = it.stale /\ new.seen = it.seen
        /\ new.repeated = it.repeated
    BY <2>1, <2>3, <1>7 DEF IterRecord, x
  <2> HIDE DEF new
  <2>5. ~Done(t, new) /\ At(t, new) = x /\ KeyAt(t, new) = x /\ At(t, it) = it.index
    BY <2>3, <2>4, <1>7 DEF Done, At, KeyAt, Filled
  <2>6. \A q \in Taken(t) : q > it.index => q >= x
    <3> TAKE q \in Taken(t)
    <3> HAVE q > it.index
    <3>1. q \in 0 .. Places(t) - 1
      BY <1>2
    <3>2. CASE q \in DOMAIN t.array
      BY <3>2, <2>2, <1>2, <1>6 DEF x
    <3>3. CASE q \notin DOMAIN t.array
      BY <3>1, <3>3, <2>3, <1>1
    <3> QED BY <3>2, <3>3
  <2> QED BY <2>3, <2>4, <2>5, <2>6 DEF MovesOn, new
<1>8. CASE it.inArray /\ behind = {}
  <2> DEFINE x == NextSlot(t, NoEntry)
  <2>1. new = [it EXCEPT !.inArray = FALSE, !.index = x]
    BY <1>8, Zenon DEF Advance, behind
  <2>2. NoEntry = -1 /\ NoEntry \in Int
    BY DEF NoEntry
  <2>3. \/ x = NoEntry /\ \A i \in Used(t.entries) : i <= NoEntry
        \/ /\ x \in Used(t.entries) /\ x > NoEntry
           /\ \A i \in Used(t.entries) : i > NoEntry => i >= x
    BY <2>2, NextSlotIs
  <2>4. x \in Int
    BY <2>2, <2>3, <1>3
  <2> HIDE DEF x
  <2>5. /\ new \in IterRecord /\ new.index = x /\ new.inArray = FALSE
        /\ new.on = it.on /\ new.stale = it.stale /\ new.seen = it.seen
        /\ new.repeated = it.repeated
    BY <2>1, <2>4 DEF IterRecord
  <2> HIDE DEF new
  <2>6. At(t, it) = it.index /\ it.index < l /\ it.index >= -1
    BY <1>1, <1>5, <1>8 DEF At, Ready, Done
  <2>7. \A q \in Taken(t) : q > it.index => q \notin DOMAIN t.array
    BY <1>2, <1>6, <1>8
  <2>8. CASE x = NoEntry /\ \A i \in Used(t.entries) : i <= NoEntry
    <3>1. Done(t, new)
      BY <2>2, <2>5, <2>8, <1>1 DEF Done
    <3>2. \A i \in Used(t.entries) : FALSE
      BY <2>2, <2>8, <1>3
    <3>3. \A q \in Taken(t) : q <= it.index
      BY <3>2, <2>7, <1>2, <1>5
    <3> QED BY <3>1, <3>3, <2>5, <2>6 DEF MovesOn, new
  <2>9. CASE /\ x \in Used(t.entries) /\ x > NoEntry
             /\ \A i \in Used(t.entries) : i > NoEntry => i >= x
    <3>1. l + x \in Taken(t) /\ KeyIn(t, l + x) = t.entries[x].key /\ x \in Slots(t.lg2) /\ x \in Nat
      BY <2>9, <1>3
    <3>2. ~Done(t, new) /\ At(t, new) = l + x /\ KeyAt(t, new) = t.entries[x].key
      BY <2>5, <2>9, <3>1, <1>1 DEF Done, At, KeyAt, l
    <3>3. \A q \in Taken(t) : q > it.index => q >= l + x
      <4> TAKE q \in Taken(t)
      <4> HAVE q > it.index
      <4>1. q - l \in Used(t.entries) /\ q \in 0 .. Places(t) - 1
        BY <2>7, <1>2
      <4>2. q - l \in Nat
        BY <4>1, <1>3
      <4>3. q - l >= x
        BY <4>1, <4>2, <2>2, <2>9
      <4> QED BY <4>1, <4>2, <4>3, <3>1, <1>1
    <3>4. it.index < l + x
      BY <3>1, <2>6, <1>1, <1>5
    <3> QED BY <3>1, <3>2, <3>3, <3>4, <2>5, <2>6 DEF MovesOn, new
  <2> QED BY <2>3, <2>8, <2>9
<1>9. CASE ~it.inArray
  <2> DEFINE x == NextSlot(t, it.index)
  <2>1. new = [it EXCEPT !.index = x]
    BY <1>9, Zenon DEF Advance, behind
  <2>2. \/ x = NoEntry /\ \A i \in Used(t.entries) : i <= it.index
        \/ /\ x \in Used(t.entries) /\ x > it.index
           /\ \A i \in Used(t.entries) : i > it.index => i >= x
    BY <1>5, NextSlotIs
  <2>3. NoEntry = -1 /\ x \in Int
    BY <2>2, <1>3 DEF NoEntry
  <2> HIDE DEF x
  <2>4. /\ new \in IterRecord /\ new.index = x /\ new.inArray = FALSE
        /\ new.on = it.on /\ new.stale = it.stale /\ new.seen = it.seen
        /\ new.repeated = it.repeated
    BY <2>1, <2>3, <1>5, <1>9 DEF IterRecord
  <2> HIDE DEF new
  <2>5. At(t, it) = l + it.index /\ it.index \in Slots(t.lg2)
    BY <1>9 DEF At, Ready, Done, l
  <2>6. CASE x = NoEntry /\ \A i \in Used(t.entries) : i <= it.index
    <3>1. Done(t, new)
      BY <2>3, <2>4, <2>6, <1>1 DEF Done
    <3>2. \A q \in Taken(t) : q <= l + it.index
      <4> TAKE q \in Taken(t)
      <4>1. q \in 0 .. Places(t) - 1
        BY <1>2
      <4>2. CASE q \in DOMAIN t.array
        BY <4>1, <4>2, <2>5, <1>1
      <4>3. CASE q \notin DOMAIN t.array
        <5>1. q - l <= it.index
          BY <4>3, <2>6, <1>2
        <5> QED BY <4>1, <5>1, <1>1, <1>5
      <4> QED BY <4>2, <4>3
    <3> QED BY <3>1, <3>2, <2>4, <2>5 DEF MovesOn, new
  <2>7. CASE /\ x \in Used(t.entries) /\ x > it.index
             /\ \A i \in Used(t.entries) : i > it.index => i >= x
    <3>1. l + x \in Taken(t) /\ KeyIn(t, l + x) = t.entries[x].key /\ x \in Slots(t.lg2) /\ x \in Nat
      BY <2>7, <1>3
    <3>2. ~Done(t, new) /\ At(t, new) = l + x /\ KeyAt(t, new) = t.entries[x].key
      BY <2>4, <2>7, <3>1, <1>1 DEF Done, At, KeyAt, l
    <3>3. \A q \in Taken(t) : q > l + it.index => q >= l + x
      <4> TAKE q \in Taken(t)
      <4> HAVE q > l + it.index
      <4>1. q \in 0 .. Places(t) - 1 /\ q \notin DOMAIN t.array
        BY <2>5, <1>1, <1>2
      <4>2. q - l \in Used(t.entries) /\ q - l > it.index
        BY <4>1, <1>1, <1>2, <1>5
      <4>3. q - l >= x
        BY <4>2, <2>7
      <4> QED BY <4>1, <4>3, <3>1, <1>1
    <3>4. l + it.index < l + x
      BY <3>1, <2>7, <1>1, <1>5
    <3> QED BY <3>1, <3>2, <3>3, <3>4, <2>4, <2>5 DEF MovesOn, new
  <2> QED BY <2>2, <2>6, <2>7
<1> QED BY <1>5, <1>7, <1>8, <1>9

(* An iterator that nothing disturbed has returned the keys up to where it  *)
(* is, each once.                                                           *)
IterOK(t, it, d) ==
  /\ it \in IterRecord
  /\ it.on /\ ~it.stale =>
       /\ ~it.repeated
       /\ Done(t, it) => it.seen = DOMAIN d
       /\ ~Done(t, it) => it.seen = SeenUpTo(t, At(t, it))

(* What an undisturbed iterator has returned stays right when it moves, and *)
(* right for a stale one.                                                   *)
LEMMA VisitedOK ==
  ASSUME NEW h, NEW t, TableOK(h, t), NEW d, Agrees(t, d), DOMAIN d \subseteq Int,
         NEW it \in IterRecord, Ready(t, it),
         it.stale \/ (it.seen = SeenUpTo(t, At(t, it)) /\ ~it.repeated)
  PROVE  IterOK(t, Visit(t, Advance(t, it)), d)
<1> DEFINE new == Advance(t, it)
           v == Visit(t, new)
<1>1. /\ MovesOn(t, it, new) /\ new \in IterRecord
      /\ new.on = it.on /\ new.stale = it.stale
      /\ new.seen = it.seen /\ new.repeated = it.repeated
  BY Advanced
<1>2. /\ \A p \in Taken(t) : KeyIn(t, p) \in DOMAIN d /\ p \in Int
      /\ \A k \in DOMAIN d : \E p \in Taken(t) : KeyIn(t, p) = k
      /\ \A p, q \in Taken(t) : KeyIn(t, p) = KeyIn(t, q) => p = q
  <2>1. \A p \in Taken(t) : p \in Int
    BY DEF Taken
  <2> QED BY <2>1, PlacesHoldKeys
<1>3. At(t, it) \in Int
  BY PlacesAre DEF At, IterRecord
<1>4. v = IF Done(t, new) \/ new.stale THEN new
          ELSE [new EXCEPT !.seen = @ \cup {KeyAt(t, new)},
                           !.repeated = @ \/ KeyAt(t, new) \in new.seen]
  BY Zenon DEF Visit
<1> HIDE DEF new, v
<1>5. CASE new.stale
  <2>1. v = new
    BY <1>4, <1>5
  <2> QED BY <2>1, <1>1, <1>5 DEF IterOK, v, new
<1>6. CASE ~new.stale /\ Done(t, new)
  <2>1. v = new
    BY <1>4, <1>6
  <2>2. \A q \in Taken(t) : q <= At(t, it)
    BY <1>1, <1>6 DEF MovesOn
  <2>3. SeenUpTo(t, At(t, it)) = DOMAIN d
    <3>1. \A k \in DOMAIN d : k \in SeenUpTo(t, At(t, it))
      BY <2>2, <1>2 DEF SeenUpTo
    <3>2. \A k \in SeenUpTo(t, At(t, it)) : k \in DOMAIN d
      BY <1>2 DEF SeenUpTo
    <3> QED BY <3>1, <3>2
  <2> QED BY <2>1, <2>3, <1>1, <1>6 DEF IterOK, v, new
<1>7. CASE ~new.stale /\ ~Done(t, new)
  <2> DEFINE p == At(t, new)
             k == KeyAt(t, new)
  <2>1. /\ p \in Taken(t) /\ k = KeyIn(t, p) /\ At(t, it) < p
        /\ \A q \in Taken(t) : q > At(t, it) => q >= p
    BY <1>1, <1>7 DEF MovesOn
  <2>2. p \in Int /\ k \in DOMAIN d /\ k \in Int
    BY <2>1, <1>2
  <2> HIDE DEF p, k
  <2>3. new.seen = SeenUpTo(t, At(t, it)) /\ ~new.repeated
    BY <1>1, <1>7
  <2>4. k \notin new.seen
    <3> SUFFICES ASSUME k \in new.seen PROVE FALSE
      OBVIOUS
    <3>1. PICK q \in Taken(t) : k = KeyIn(t, q) /\ q <= At(t, it)
      BY <2>3 DEF SeenUpTo
    <3>2. q = p
      BY <3>1, <2>1, <1>2
    <3> QED BY <3>1, <3>2, <2>1, <2>2, <1>3
  <2>5. new.seen \cup {k} = SeenUpTo(t, p)
    <3>1. \A q \in Taken(t) : q <= p <=> (q <= At(t, it) \/ q = p)
      BY <2>1, <2>2, <1>2, <1>3
    <3> QED BY <3>1, <2>1, <2>3 DEF SeenUpTo
  <2>6. v = [new EXCEPT !.seen = @ \cup {k}, !.repeated = @ \/ k \in new.seen]
    BY <1>4, <1>7 DEF k
  <2>7. v = [new EXCEPT !.seen = @ \cup {k}]
    <3>1. new.repeated = FALSE
      BY <2>3, <1>1 DEF IterRecord
    <3>2. v = [new EXCEPT !.seen = @ \cup {k}, !.repeated = FALSE]
      BY <2>4, <2>6, <3>1, <1>1 DEF IterRecord
    <3> QED BY <3>1, <3>2, <1>1 DEF IterRecord
  <2>8. /\ v \in IterRecord /\ v.seen = new.seen \cup {k} /\ v.inArray = new.inArray
        /\ v.index = new.index /\ v.repeated = new.repeated
    BY <2>2, <2>7, <1>1 DEF IterRecord
  <2>9. ~Done(t, v) /\ At(t, v) = p
    BY <2>8, <1>7 DEF Done, At, p
  <2> QED BY <2>3, <2>5, <2>8, <2>9 DEF IterOK, v, new
<1> QED BY <1>5, <1>6, <1>7

LEMMA StaleOK ==
  ASSUME NEW t, NEW d, NEW it \in IterRecord, NEW new,
         new = IF it.on THEN [it EXCEPT !.stale = TRUE, !.seen = {}, !.repeated = FALSE] ELSE it
  PROVE  IterOK(t, new, d)
<1>1. CASE it.on
  <2>1. new = [it EXCEPT !.stale = TRUE, !.seen = {}, !.repeated = FALSE]
    BY <1>1
  <2>2. new \in IterRecord /\ new.stale
    BY <2>1 DEF IterRecord
  <2> QED BY <2>2 DEF IterOK
<1>2. CASE ~it.on
  BY <1>2 DEF IterOK
<1> QED BY <1>1, <1>2

(* Replacing a value in place disturbs no iterator.                         *)
LEMMA PlacesKeep ==
  ASSUME NEW h, NEW t, TableOK(h, t), NEW u, TableOK(h, u), SamePlaces(t, u),
         NEW d, NEW dd, DOMAIN dd = DOMAIN d, NEW it, IterOK(t, it, d)
  PROVE  IterOK(u, it, dd)
<1>1. /\ ArrayLength(u) = ArrayLength(t) /\ Size(u) = Size(t) /\ Places(u) = Places(t)
      /\ Slots(u.lg2) = Slots(t.lg2) /\ DOMAIN u.array = DOMAIN t.array
  BY PlacesAre DEF SamePlaces, ArrayLength, Size
<1>2. \A i \in Slots(t.lg2) : IsEmpty(u, i) <=> IsEmpty(t, i)
  BY <1>1, PlacesAre DEF SamePlaces
<1>3. \A i \in DOMAIN t.array : u.array[i] = Absent <=> t.array[i] = Absent
  BY <1>1 DEF SamePlaces, Filled
<1>4. \A x : Done(u, x) <=> Done(t, x)
  BY <1>1, <1>2, <1>3 DEF Done
<1>5. \A p : Place(u, p) = Place(t, p)
  BY <1>1 DEF Place, InArray
<1>6. Taken(u) = Taken(t)
  BY <1>1, <1>4, <1>5 DEF Taken
<1>7. \A p \in Taken(t) : KeyIn(u, p) = KeyIn(t, p)
  <2> TAKE p \in Taken(t)
  <2>1. p \in 0 .. Places(t) - 1
    BY DEF Taken
  <2>2. CASE p \in DOMAIN t.array
    <3>1. KeyIn(t, p) = p
      BY <2>1, <2>2, PlaceHolds
    <3>2. KeyIn(u, p) = p
      BY <2>1, <2>2, <1>1, PlaceHolds
    <3> QED BY <3>1, <3>2
  <2>3. CASE p \notin DOMAIN t.array
    <3>1. /\ p - ArrayLength(t) \in Used(t.entries)
          /\ KeyIn(t, p) = t.entries[p - ArrayLength(t)].key
      BY <2>1, <2>3, PlaceHolds
    <3>2. KeyIn(u, p) = u.entries[p - ArrayLength(u)].key
      BY <2>1, <2>3, <1>1, PlaceHolds
    <3> QED BY <3>1, <3>2, <1>1 DEF SamePlaces
  <2> QED BY <2>2, <2>3
<1>8. \A p : SeenUpTo(u, p) = SeenUpTo(t, p)
  BY <1>6, <1>7 DEF SeenUpTo
<1>9. At(u, it) = At(t, it)
  BY <1>1 DEF At
<1> QED BY <1>4, <1>8, <1>9 DEF IterOK

(* What the table holds is what it was asked to hold.                       *)
TableInv ==
  /\ hash \in [TableKey -> HashValue]
  /\ TableOK(hash, table) /\ Agrees(table, dict)
  /\ DOMAIN dict \subseteq TableKey /\ \A k \in DOMAIN dict : dict[k] \in TableVal
  /\ table.compacted \/ table.lg2 # 0
  /\ IterOK(table, iter, dict)

(* No step of an operation on such a table finds a fault, if compaction     *)
(* finds room.                                                              *)
NeverFull == TablesFit \/ InitArray = 0

Keeps == TableInv' /\ (NeverFull /\ ~table.fault => ~table'.fault)

(* The invariant holds of a new table, and each operation keeps it.         *)
LEMMA InitInv == TableInit => TableInv /\ ~table.fault
<1> SUFFICES ASSUME TableInit PROVE TableInv /\ ~table.fault
  OBVIOUS
<1>1. /\ hash \in [TableKey -> HashValue] /\ table = NewTable(InitArray, InitLg2)
      /\ dict = [k \in {} |-> Absent] /\ iter = NoIter
  BY DEF TableInit
<1>2. InitArray \in Nat /\ InitLg2 \in Nat /\ InitLg2 # 0 /\ (0 \in TableKey => InitArray > 0)
  BY TableAssumption
<1>3. /\ TableOK(hash, table) /\ Graph(table) = {} /\ table.lg2 = InitLg2 /\ table.fault = FALSE
  BY <1>1, <1>2, NewTableOK
<1>4. DOMAIN dict = {}
  BY <1>1
<1>5. Agrees(table, dict)
  BY <1>3, <1>4 DEF Agrees
<1>6. IterOK(table, iter, dict)
  BY <1>1 DEF IterOK, IterRecord, NoIter, NoEntry
<1> QED BY <1>1, <1>2, <1>3, <1>4, <1>5, <1>6 DEF TableInv

(* What the invariant says, with the types of everything.                   *)
LEMMA InvFacts ==
  ASSUME TableInv
  PROVE  /\ hash \in [TableKey -> HashValue] /\ hash \in [TableKey -> Nat]
         /\ TableOK(hash, table) /\ Agrees(table, dict)
         /\ DOMAIN dict \subseteq TableKey /\ DOMAIN dict \subseteq Int
         /\ \A k \in DOMAIN dict : dict[k] \in TableVal
         /\ ~table.compacted => table.lg2 # 0
         /\ IterOK(table, iter, dict) /\ iter \in IterRecord
         /\ table \in TableRecord /\ table.compacted \in BOOLEAN /\ table.fault \in BOOLEAN
         /\ \A v \in TableVal : v # Absent
<1>1. TableKey \subseteq Nat /\ HashValue \subseteq Nat /\ \A v \in TableVal : v # Absent
  BY TableAssumption DEF Absent
<1>2. hash \in [TableKey -> Nat]
  BY <1>1 DEF TableInv
<1>3. table \in TableRecord /\ iter \in IterRecord
  BY DEF TableInv, TableOK, HashPart, IterOK
<1>4. table.compacted \in BOOLEAN /\ table.fault \in BOOLEAN
  BY <1>3 DEF TableRecord
<1>5. DOMAIN dict \subseteq TableKey /\ DOMAIN dict \subseteq Int
  <2>1. TableKey \subseteq Int
    BY <1>1
  <2>2. DOMAIN dict \subseteq TableKey
    BY Zenon DEF TableInv
  <2> QED BY <2>1, <2>2
<1> QED BY <1>1, <1>2, <1>3, <1>4, <1>5, Zenon DEF TableInv

(* A step that leaves the hashes alone and makes the iterator stale keeps   *)
(* the invariant when the new table holds the new contents.                 *)
LEMMA ChangeKeeps ==
  ASSUME TableInv, UNCHANGED hash, iter' = Staled,
         TableOK(hash, table'), Agrees(table', dict'),
         DOMAIN dict' \subseteq TableKey, \A k \in DOMAIN dict' : dict'[k] \in TableVal,
         table'.compacted \/ table'.lg2 # 0
  PROVE  TableInv'
<1>1. iter \in IterRecord /\ hash \in [TableKey -> HashValue]
  BY InvFacts
<1>2. IterOK(table', iter', dict')
  BY <1>1, StaleOK DEF Staled
<1> QED BY <1>1, <1>2 DEF TableInv

(* The contents of a table with one key more, or one less.                  *)
Extends(d, dd, k, v) ==
  DOMAIN dd = DOMAIN d \cup {k} /\ dd[k] = v /\ \A x \in DOMAIN d : dd[x] = d[x]

LEMMA MoreAgrees ==
  ASSUME NEW h, NEW t, NEW d, Agrees(t, d), NEW u, NEW k, k \notin DOMAIN d, NEW v,
         Inserts(h, t, u, k, v), NEW dd, dd = With(d, k, v)
  PROVE  Agrees(u, dd) /\ Extends(d, dd, k, v)
<1>1. DOMAIN dd = DOMAIN d \cup {k} /\ dd[k] = v /\ \A x \in DOMAIN d : dd[x] = d[x]
  BY DEF With
<1>2. Graph(u) = {<<x, d[x]>> : x \in DOMAIN d} \cup {<<k, v>>}
  BY DEF Inserts, Agrees
<1>3. {<<x, dd[x]>> : x \in DOMAIN dd} = {<<x, d[x]>> : x \in DOMAIN d} \cup {<<k, v>>}
  BY <1>1
<1> QED BY <1>1, <1>2, <1>3 DEF Agrees, Extends

LEMMA LessAgrees ==
  ASSUME NEW h, NEW t, NEW d, Agrees(t, d), NEW u, NEW k,
         Removes(h, t, u, k), NEW dd, dd = [x \in DOMAIN d \ {k} |-> d[x]]
  PROVE  Agrees(u, dd) /\ NoKey(u, k)
<1>1. Graph(u) = Without({<<x, d[x]>> : x \in DOMAIN d}, k)
  BY DEF Removes, Agrees
<1>2. NoKey(u, k)
  BY <1>1 DEF NoKey, Without
<1>3. {<<x, dd[x]>> : x \in DOMAIN dd} = {<<x, d[x]>> : x \in DOMAIN d \ {k}}
  OBVIOUS
<1>4. Without({<<x, d[x]>> : x \in DOMAIN d}, k) = {<<x, d[x]>> : x \in DOMAIN d \ {k}}
  BY DEF Without
<1> QED BY <1>1, <1>2, <1>3, <1>4 DEF Agrees

LEMMA InsertOne ==
  ASSUME NEW t, TableOK(hash, t), hash \in [TableKey -> Nat],
         NEW k \in TableKey, NEW v \in TableVal, NoKey(t, k)
  PROVE  Inserts(hash, t, Insert(t, k, v), k, v)
BY InsertedInArray, InsertedInHash, Zenon

LEMMA RemoveOne ==
  ASSUME NEW t, TableOK(hash, t), hash \in [TableKey -> Nat], t.lg2 # 0, NEW k \in TableKey
  PROVE  Removes(hash, t, Removed(t, k), k)
BY RemovedFromArray, RemovedFromHash, Zenon

(* A key the dictionary does not have is not in the table.                  *)
LEMMA AbsentKey ==
  ASSUME NEW t, NEW d, Agrees(t, d), NEW k, k \notin DOMAIN d
  PROVE  NoKey(t, k)
BY DEF Agrees, NoKey

(* Insertion of a new key, as both insert and push do it.                   *)
LEMMA NewKeyKeeps ==
  ASSUME TableInv, NEW k \in TableKey, k \notin DOMAIN dict, NEW v \in TableVal,
         table' = Insert(table, k, v), dict' = With(dict, k, v),
         iter' = Staled, UNCHANGED hash
  PROVE  Keeps
<1>0. /\ hash \in [TableKey -> Nat] /\ TableOK(hash, table) /\ Agrees(table, dict)
      /\ DOMAIN dict \subseteq TableKey /\ \A x \in DOMAIN dict : dict[x] \in TableVal
      /\ (~table.compacted => table.lg2 # 0)
  BY InvFacts
<1>1. NoKey(table, k)
  BY <1>0, AbsentKey, Zenon
<1>2. Inserts(hash, table, table', k, v)
  BY <1>0, <1>1, InsertOne, Zenon
<1>3. Agrees(table', dict') /\ Extends(dict, dict', k, v)
  BY <1>0, <1>2, MoreAgrees, Zenon
<1>4. /\ TableOK(hash, table') /\ (table'.compacted \/ table'.lg2 # 0)
      /\ (table'.fault <=> table.fault)
  BY <1>0, <1>2 DEF Inserts
<1>5. DOMAIN dict' \subseteq TableKey /\ \A x \in DOMAIN dict' : dict'[x] \in TableVal
  BY <1>0, <1>3 DEF Extends
<1>6. TableInv'
  BY <1>3, <1>4, <1>5, ChangeKeeps, Zenon
<1> QED BY <1>4, <1>6 DEF Keeps

(* The steps, one by one.                                                   *)
LEMMA MapSetKeeps ==
  ASSUME TableInv, NEW k \in TableKey, NEW v \in TableVal, MapSet(k, v)
  PROVE  Keeps
<1> DEFINE r == Removed(table, k)
           less == [x \in DOMAIN dict \ {k} |-> dict[x]]
<1>0. /\ hash \in [TableKey -> Nat] /\ TableOK(hash, table) /\ Agrees(table, dict)
      /\ DOMAIN dict \subseteq TableKey /\ \A x \in DOMAIN dict : dict[x] \in TableVal
      /\ table.lg2 # 0
  BY InvFacts DEF MapSet
<1>1. Removes(hash, table, r, k)
  BY <1>0, RemoveOne, Zenon
<1>2. Agrees(r, less) /\ NoKey(r, k)
  BY <1>0, <1>1, LessAgrees
<1>3. TableOK(hash, r) /\ r.lg2 # 0 /\ r.fault = table.fault
  BY <1>0, <1>1 DEF Removes
<1>4. table' = Insert(r, k, v)
  BY DEF MapSet
<1> HIDE DEF r
<1>5. Inserts(hash, r, table', k, v)
  BY <1>0, <1>2, <1>3, <1>4, InsertOne, Zenon
<1>6. dict' = [dict EXCEPT ![k] = v] /\ k \in DOMAIN dict
  BY DEF MapSet
<1>7. DOMAIN dict' = DOMAIN dict /\ dict'[k] = v /\ \A x \in DOMAIN dict \ {k} : dict'[x] = dict[x]
  BY <1>6
<1>8. Agrees(table', dict')
  <2>1. Graph(table') = Graph(r) \cup {<<k, v>>}
    BY <1>5 DEF Inserts
  <2>2. Graph(r) = {<<x, dict[x]>> : x \in DOMAIN dict \ {k}}
    BY <1>2 DEF Agrees
  <2>3. {<<x, dict'[x]>> : x \in DOMAIN dict'} = {<<x, dict[x]>> : x \in DOMAIN dict \ {k}} \cup {<<k, v>>}
    BY <1>6, <1>7
  <2> QED BY <2>1, <2>2, <2>3 DEF Agrees
<1>9. TableOK(hash, table') /\ table'.lg2 # 0 /\ table'.fault = table.fault
  BY <1>3, <1>5 DEF Inserts
<1>10. DOMAIN dict' \subseteq TableKey /\ \A x \in DOMAIN dict' : dict'[x] \in TableVal
  BY <1>0, <1>7
<1>11. UNCHANGED hash /\ iter' = Staled
  BY DEF MapSet
<1>12. TableInv'
  BY <1>8, <1>9, <1>10, <1>11, ChangeKeeps, Zenon
<1> QED BY <1>9, <1>12 DEF Keeps

(* Removal of a key, as both remove and pop do it.                          *)
LEMMA LessKeeps ==
  ASSUME TableInv, NEW k \in TableKey, ~table.compacted, table' = Removed(table, k),
         dict' = [x \in DOMAIN dict \ {k} |-> dict[x]], iter' = Staled, UNCHANGED hash
  PROVE  Keeps
<1>0. /\ hash \in [TableKey -> Nat] /\ TableOK(hash, table) /\ Agrees(table, dict)
      /\ DOMAIN dict \subseteq TableKey /\ \A x \in DOMAIN dict : dict[x] \in TableVal
      /\ table.lg2 # 0
  BY InvFacts
<1>1. Removes(hash, table, table', k)
  BY <1>0, RemoveOne, Zenon
<1>2. Agrees(table', dict')
  BY <1>0, <1>1, LessAgrees
<1>3. TableOK(hash, table') /\ table'.lg2 # 0 /\ table'.fault = table.fault
  BY <1>0, <1>1 DEF Removes
<1>4. DOMAIN dict' \subseteq TableKey /\ \A x \in DOMAIN dict' : dict'[x] \in TableVal
  BY <1>0
<1>5. TableInv'
  BY <1>2, <1>3, <1>4, ChangeKeeps, Zenon
<1> QED BY <1>3, <1>5 DEF Keeps

LEMMA PopKeeps ==
  ASSUME TableInv, Pop
  PROVE  Keeps
<1> DEFINE top == TableCount(table) - 1
           r == Removed(table, top)
<1>0. /\ hash \in [TableKey -> Nat] /\ TableOK(hash, table) /\ Agrees(table, dict)
      /\ DOMAIN dict \subseteq TableKey /\ \A x \in DOMAIN dict : dict[x] \in TableVal
      /\ \A v \in TableVal : v # Absent
  BY InvFacts
<1>1. /\ DOMAIN dict = 0 .. Cardinality(DOMAIN dict) - 1 /\ DOMAIN dict # {} /\ ~table.compacted
      /\ table' = [r EXCEPT !.fault = @ \/ Stored(table, top) = Absent]
      /\ dict' = [x \in DOMAIN dict \ {top} |-> dict[x]]
      /\ iter' = Staled /\ UNCHANGED hash
  BY DEF Pop, IsStack
<1>2. TableCount(table) = Cardinality(DOMAIN dict) /\ TableCount(table) \in Nat
  BY <1>0, CountIsKeys
<1>3. top \in DOMAIN dict /\ top \in TableKey
  BY <1>0, <1>1, <1>2
<1> HIDE DEF top
<1>4. Stored(table, top) # Absent
  <2>1. Stored(table, top) = dict[top]
    BY <1>0, <1>3, Lookup
  <2> QED BY <2>1, <1>0, <1>3
<1>5. table.lg2 # 0
  BY <1>1, InvFacts
<1>6. Removes(hash, table, r, top)
  BY <1>0, <1>3, <1>5, RemoveOne, Zenon
<1>7. r \in TableRecord
  BY <1>6 DEF Removes, TableOK, HashPart
<1> HIDE DEF r
<1>8. table' = r
  <2>1. table' = [r EXCEPT !.fault = @]
    BY <1>1, <1>4, <1>7 DEF TableRecord
  <2> QED BY <2>1, <1>7 DEF TableRecord
<1> QED BY <1>1, <1>3, <1>8, LessKeeps DEF r

LEMMA PushKeeps ==
  ASSUME TableInv, NEW v \in TableVal, Push(v)
  PROVE  Keeps
<1> DEFINE top == TableCount(table)
<1>0. TableOK(hash, table) /\ Agrees(table, dict)
  BY InvFacts
<1>1. /\ DOMAIN dict = 0 .. Cardinality(DOMAIN dict) - 1 /\ top \in TableKey
      /\ table' = Insert(table, top, v) /\ dict' = With(dict, top, v)
      /\ iter' = Staled /\ UNCHANGED hash
  BY DEF Push, IsStack
<1>2. top = Cardinality(DOMAIN dict) /\ top \in Nat
  BY <1>0, CountIsKeys
<1>3. top \notin DOMAIN dict
  BY <1>1, <1>2
<1> HIDE DEF top
<1> QED BY <1>1, <1>3, NewKeyKeeps, Zenon

LEMMA ReplaceKeeps ==
  ASSUME TableInv, NEW k \in TableKey, NEW v \in TableVal, Replace(k, v)
  PROVE  Keeps
<1>0. /\ hash \in [TableKey -> Nat] /\ hash \in [TableKey -> HashValue]
      /\ TableOK(hash, table) /\ Agrees(table, dict)
      /\ DOMAIN dict \subseteq TableKey /\ \A x \in DOMAIN dict : dict[x] \in TableVal
      /\ (table.compacted \/ table.lg2 # 0) /\ IterOK(table, iter, dict)
  BY InvFacts
<1>1. /\ Stored(table, k) # Absent /\ table' = Replaced(table, k, v)
      /\ dict' = [dict EXCEPT ![k] = v] /\ UNCHANGED <<hash, iter>>
  BY DEF Replace
<1>2. Replaces(hash, table, table', k, v)
  <2>1. CASE k \in DOMAIN table.array
    <3>1. table.array[k] # Absent
      BY <1>1, <2>1 DEF Stored, InArray
    <3> QED BY <2>1, <3>1, <1>0, <1>1, ReplacedInArray, Zenon
  <2>2. CASE k \notin DOMAIN table.array
    BY <2>2, <1>0, <1>1, ReplacedInHash, Zenon
  <2> QED BY <2>1, <2>2
<1>3. k \in DOMAIN dict
  BY <1>0, <1>1, Lookup
<1>4. DOMAIN dict' = DOMAIN dict /\ dict'[k] = v /\ \A x \in DOMAIN dict \ {k} : dict'[x] = dict[x]
  BY <1>1, <1>3
<1>5. Agrees(table', dict')
  <2>1. Graph(table') = Without({<<x, dict[x]>> : x \in DOMAIN dict}, k) \cup {<<k, v>>}
    BY <1>0, <1>2 DEF Replaces, Agrees
  <2>2. {<<x, dict'[x]>> : x \in DOMAIN dict'} = {<<x, dict[x]>> : x \in DOMAIN dict \ {k}} \cup {<<k, v>>}
    BY <1>3, <1>4
  <2>3. Without({<<x, dict[x]>> : x \in DOMAIN dict}, k) = {<<x, dict[x]>> : x \in DOMAIN dict \ {k}}
    BY DEF Without
  <2> QED BY <2>1, <2>2, <2>3 DEF Agrees
<1>6. /\ TableOK(hash, table') /\ SamePlaces(table, table')
      /\ table'.fault = table.fault /\ table'.compacted = table.compacted
  BY <1>2 DEF Replaces
<1>7. IterOK(table', iter, dict')
  BY <1>0, <1>4, <1>6, PlacesKeep, Zenon
<1>8. table'.lg2 = table.lg2
  BY <1>6 DEF SamePlaces
<1>9. DOMAIN dict' \subseteq TableKey /\ \A x \in DOMAIN dict' : dict'[x] \in TableVal
  BY <1>0, <1>4
<1>10. TableInv'
  BY <1>0, <1>1, <1>5, <1>6, <1>7, <1>8, <1>9 DEF TableInv
<1> QED BY <1>6, <1>10 DEF Keeps

LEMMA CompactKeeps ==
  ASSUME TableInv, Compact
  PROVE  Keeps
<1>0. /\ hash \in [TableKey -> Nat] /\ TableOK(hash, table) /\ Agrees(table, dict)
      /\ DOMAIN dict \subseteq TableKey /\ \A x \in DOMAIN dict : dict[x] \in TableVal
  BY InvFacts
<1>1. /\ InitArray > 0 /\ table' = Compacted(table) /\ iter' = Staled /\ UNCHANGED hash
      /\ dict' = dict
  BY DEF Compact
<1>2. Compacts(hash, table, table')
  BY <1>0, <1>1, CompactedSame, Zenon
<1>3. Agrees(table', dict')
  BY <1>0, <1>1, <1>2 DEF Compacts, Agrees
<1>4. TableOK(hash, table') /\ table'.compacted /\ (TablesFit /\ ~table.fault => ~table'.fault)
  BY <1>2 DEF Compacts
<1>5. NeverFull => TablesFit
  BY <1>1 DEF NeverFull
<1>6. TableInv'
  BY <1>0, <1>1, <1>3, <1>4, ChangeKeeps, Zenon
<1> QED BY <1>4, <1>5, <1>6 DEF Keeps

LEMMA BeginKeeps ==
  ASSUME TableInv, Begin
  PROVE  Keeps
<1> DEFINE it == [NoIter EXCEPT !.on = TRUE, !.inArray = TRUE]
<1>0. /\ TableOK(hash, table) /\ Agrees(table, dict) /\ DOMAIN dict \subseteq Int
  BY InvFacts
<1>1. iter' = Visit(table, Advance(table, it)) /\ UNCHANGED <<hash, table, dict>>
  BY DEF Begin
<1>2. /\ it \in IterRecord /\ it.index = -1 /\ it.inArray /\ it.seen = {} /\ ~it.repeated
      /\ it.index \in Int
  <2> DEFINE no == NoIter
  <2>1. no \in IterRecord /\ no.index = -1 /\ no.seen = {} /\ ~no.repeated
    BY DEF NoIter, NoEntry, IterRecord
  <2>2. it = [no EXCEPT !.on = TRUE, !.inArray = TRUE]
    OBVIOUS
  <2> HIDE DEF it, no
  <2> QED BY <2>1, <2>2 DEF IterRecord
<1> HIDE DEF it
<1>3. Ready(table, it) /\ At(table, it) = -1
  BY <1>2 DEF Ready, At
<1>4. SeenUpTo(table, -1) = {}
  BY PlacesAre DEF SeenUpTo, Taken
<1>5. IterOK(table, iter', dict)
  BY <1>0, <1>1, <1>2, <1>3, <1>4, VisitedOK
<1>6. TableInv'
  BY <1>1, <1>5 DEF TableInv
<1> QED BY <1>1, <1>6 DEF Keeps

LEMMA NextElementKeeps ==
  ASSUME TableInv, NextElement
  PROVE  Keeps
<1>0. /\ TableOK(hash, table) /\ Agrees(table, dict) /\ DOMAIN dict \subseteq Int
      /\ IterOK(table, iter, dict) /\ iter \in IterRecord
  BY InvFacts
<1>1. /\ iter.on /\ ~Done(table, iter) /\ iter' = Visit(table, Advance(table, iter))
      /\ UNCHANGED <<hash, table, dict>>
  BY DEF NextElement
<1>2. Ready(table, iter)
  BY <1>0, <1>1 DEF Ready, IterRecord
<1>3. iter.stale \/ (iter.seen = SeenUpTo(table, At(table, iter)) /\ ~iter.repeated)
  BY <1>0, <1>1 DEF IterOK
<1>4. IterOK(table, iter', dict)
  BY <1>0, <1>1, <1>2, <1>3, VisitedOK
<1>5. TableInv'
  BY <1>1, <1>4 DEF TableInv
<1> QED BY <1>1, <1>5 DEF Keeps

(* Every step keeps the invariant and, where tables fit, finds no fault.    *)
LEMMA StepKeeps == TableInv /\ [TableNext]_tableVars => Keeps
<1> SUFFICES ASSUME TableInv, [TableNext]_tableVars PROVE Keeps
  OBVIOUS
<1>1. ASSUME NEW k \in TableKey, TableRemove(k) PROVE Keeps
  BY <1>1, LessKeeps DEF TableRemove
<1>2. ASSUME NEW k \in TableKey, NEW v \in TableVal, TableInsert(k, v) PROVE Keeps
  BY <1>2, NewKeyKeeps DEF TableInsert
<1>3. ASSUME NEW k \in TableKey, NEW v \in TableVal, MapSet(k, v) PROVE Keeps
  BY <1>3, MapSetKeeps
<1>4. ASSUME NEW k \in TableKey, NEW v \in TableVal, Replace(k, v) PROVE Keeps
  BY <1>4, ReplaceKeeps
<1>5. ASSUME NEW v \in TableVal, Push(v) PROVE Keeps
  BY <1>5, PushKeeps
<1>6. CASE Pop
  BY <1>6, PopKeeps
<1>7. CASE Compact
  BY <1>7, CompactKeeps
<1>8. CASE Begin
  BY <1>8, BeginKeeps
<1>9. CASE NextElement
  BY <1>9, NextElementKeeps
<1>10. CASE UNCHANGED tableVars
  BY <1>10 DEF tableVars, Keeps, TableInv
<1> QED BY <1>1, <1>2, <1>3, <1>4, <1>5, <1>6, <1>7, <1>8, <1>9, <1>10 DEF TableNext

(* The invariant implies the properties.                                    *)
LEMMA InvImplies ==
  TableInv => TableTypeOK /\ LookupAgrees /\ IterationComplete /\ StaleIterSafe
<1> SUFFICES ASSUME TableInv
             PROVE  TableTypeOK /\ LookupAgrees /\ IterationComplete /\ StaleIterSafe
  OBVIOUS
<1>0. /\ hash \in [TableKey -> HashValue] /\ hash \in [TableKey -> Nat]
      /\ TableOK(hash, table) /\ Agrees(table, dict) /\ DOMAIN dict \subseteq TableKey
      /\ IterOK(table, iter, dict) /\ iter \in IterRecord
  BY InvFacts
<1>1. LookupAgrees
  <2>1. ASSUME NEW k \in TableKey
        PROVE  Stored(table, k) = IF k \in DOMAIN dict THEN dict[k] ELSE Absent
    BY <1>0, Lookup
  <2>2. TableCount(table) = Cardinality(DOMAIN dict)
    BY <1>0, CountIsKeys
  <2> QED BY <2>1, <2>2 DEF LookupAgrees
<1>2. TableTypeOK
  <2>1. HashPart(hash, table)
    BY <1>0 DEF TableOK
  <2>2. /\ Cardinality(Used(table.entries)) \in Nat
        /\ Cardinality(Used(table.entries)) <= Size(table)
        /\ table.lg2 \in Nat /\ Size(table) \in Nat
    BY <2>1, UsedFinite
  <2>3. /\ table \in TableRecord /\ table.entries \in [Slots(table.lg2) -> Entry]
        /\ table.count = Cardinality(Used(table.entries))
    BY <2>1 DEF HashPart
  <2>4. table.count \in 0 .. Size(table)
    BY <2>2, <2>3
  <2>5. table.arrayCount \in Nat
    BY <1>0, FS_CardinalityType DEF TableOK
  <2>6. \A i \in DOMAIN table.array : table.array[i] \in TableVal \cup {Absent}
    BY <2>3 DEF TableRecord, Values
  <2> QED BY <1>0, <2>2, <2>3, <2>4, <2>5, <2>6 DEF TableTypeOK
<1>3. IterationComplete
  BY <1>0 DEF IterationComplete, IterOK
<1>4. StaleIterSafe
  <2> SUFFICES ASSUME iter.on, ~Done(table, iter)
               PROVE  KeyAt(table, iter) \in DOMAIN dict
    BY DEF StaleIterSafe
  <2>1. CASE iter.inArray
    <3>1. iter.index \in Filled(table.array) /\ KeyAt(table, iter) = iter.index
      BY <2>1 DEF Done, KeyAt, Filled
    <3>2. <<iter.index, table.array[iter.index]>> \in Graph(table)
      BY <3>1 DEF Graph, ArrayPairs
    <3> QED BY <3>1, <3>2, <1>0 DEF Agrees
  <2>2. CASE ~iter.inArray
    <3>1. iter.index \in Used(table.entries) /\ KeyAt(table, iter) = table.entries[iter.index].key
      BY <2>2, <1>0, PlacesAre DEF Done, KeyAt
    <3>2. <<table.entries[iter.index].key, table.entries[iter.index].val>> \in Graph(table)
      BY <3>1 DEF Graph, Contents
    <3> QED BY <3>1, <3>2, <1>0 DEF Agrees
  <2> QED BY <2>1, <2>2
<1> QED BY <1>1, <1>2, <1>3, <1>4

(* Every sequence of insertions, removals, replacements, pushes, pops and   *)
(* compactions leaves the table, for any keys, hashes and sizes, with what  *)
(* was stored last under each key: what the inserts, evictions and removals *)
(* of upb.c:5251-5420 must not lose. An undisturbed iteration returns every *)
(* key once, and a stale iterator only keys of the table (upb.h:1303-1308). *)
THEOREM TablesAgree ==
  TableSpec => [](TableTypeOK /\ LookupAgrees /\ IterationComplete /\ StaleIterSafe)
<1>1. TableInit => TableInv
  BY InitInv
<1>2. TableInv /\ [TableNext]_tableVars => TableInv'
  BY StepKeeps DEF Keeps
<1> QED BY <1>1, <1>2, InvImplies, PTL DEF TableSpec

(* The assertions of insert(), emptyent(), pop() and compact2() never fail  *)
(* (upb.c:5280-5860) unless a table with an array part could get so many    *)
(* keys that its hash part would have to be larger than log2ceil() says:    *)
(* 55,705 of them with UPB_MAXARRSIZE 16 are still fine.                    *)
THEOREM TablesAreSound ==
  ASSUME NeverFull
  PROVE  TableSpec => []TablesSound
<1> DEFINE Inv == TableInv /\ ~table.fault
<1>1. TableInit => Inv
  BY InitInv
<1>2. Inv /\ [TableNext]_tableVars => Inv'
  BY StepKeeps DEF Keeps
<1>3. Inv => TablesSound
  BY InvImplies DEF TablesSound, TableNoFault
<1> QED BY <1>1, <1>2, <1>3, PTL DEF TableSpec
=============================================================================
