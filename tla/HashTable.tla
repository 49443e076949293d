----------------------------- MODULE HashTable ------------------------------
(***************************************************************************)
(* The tables of upb (upb.c, upb.h): a hash table whose chains run through *)
(* the entries themselves, which upb_strtable uses for names and for the   *)
(* map fields of messages, and upb_inttable adds an array part to, for     *)
(* field numbers, enum values and stacks.                                  *)
(*                                                                         *)
(* dict is what the table should hold; an iterator may be used while the   *)
(* table changes under it, as a foreach over a map field does when its     *)
(* body sets or unsets a key.                                              *)
(***************************************************************************)
EXTENDS Integers, FiniteSets, FiniteSetsExt

CONSTANTS
  TableKey,   \* the keys used, natural numbers
  TableVal,   \* the values
  HashValue,  \* the hashes a key may have
  InitLg2,    \* size_lg2 of a new table
  InitArray,  \* size of its array part; 0 for a table of strings
  MaxArrayLg2 \* UPB_MAXARRSIZE

(* A new hash part has 2 or 4 as its size_lg2 (upb.c:5481, 5687).  The key  *)
(* of a string is a pointer that is not NULL, and 0 as the key of an        *)
(* integer is always in the array part (upb.c:5671).  No value is stored    *)
(* that looks like an absent one (upb.c:5699).                              *)
ASSUME TableAssumption ==
  /\ TableKey \subseteq Nat /\ HashValue \subseteq Nat /\ -1 \notin TableVal
  /\ InitLg2 \in Nat \ {0} /\ InitArray \in Nat /\ MaxArrayLg2 \in Nat
  /\ 0 \in TableKey => InitArray > 0

VARIABLES
  hash,   \* the hash of each key, any function
  table,  \* the table
  dict,   \* what it was asked to hold
  iter    \* an iterator, and what happened since its begin()

tableVars == <<hash, table, dict, iter>>

Absent == -1       \* upb_tabval with all bits set: no value in the array part
NoEntry == -1      \* a next pointer that is NULL, and SIZE_MAX as an index
EmptyKey == 0      \* the key of an empty entry of the hash part

Power2[n \in Nat] == IF n = 0 THEN 1 ELSE 2 * Power2[n - 1]
Slots(lg2) == IF lg2 = 0 THEN {} ELSE 0 .. Power2[lg2] - 1
Entry == [key : TableKey \cup {EmptyKey}, val : TableVal \cup {Absent}, next : Int]
EmptyEntry == [key |-> EmptyKey, val |-> Absent, next |-> NoEntry]

NewTable(arraySize, lg2) ==
  [lg2 |-> lg2, count |-> 0, entries |-> [i \in Slots(lg2) |-> EmptyEntry],
   array |-> [i \in 0 .. arraySize - 1 |-> Absent], arrayCount |-> 0,
   compacted |-> FALSE, fault |-> FALSE]

NoIter == [on |-> FALSE, inArray |-> FALSE, index |-> NoEntry, seen |-> {},
           repeated |-> FALSE, stale |-> FALSE]

TableInit ==
  /\ hash \in [TableKey -> HashValue]
  /\ table = NewTable(InitArray, InitLg2)
  /\ dict = [k \in {} |-> Absent]
  /\ iter = NoIter

-----------------------------------------------------------------------------
(* The hash part. *)

Size(t) == Cardinality(Slots(t.lg2))
IsEmpty(t, i) == t.entries[i].key = EmptyKey
MainPosition(t, k) == hash[k] % Size(t)

(* MAX_LOAD is 0.85.                                                        *)
IsFull(t) == t.lg2 = 0 \/ 100 * (t.count + 1) > 85 * Size(t)

(* The slots of the chain that starts at slot i.                            *)
Chain(t, i) ==
  LET walk[n \in 0 .. Size(t)] ==
        IF n = 0 THEN {i}
        ELSE LET so == walk[n - 1] IN so \cup ({t.entries[j].next : j \in so} \ {NoEntry})
  IN walk[Size(t)]

(* findentry(): the slot of a key, or NoEntry.                              *)
FindEntry(t, k) ==
  IF t.lg2 = 0 \/ IsEmpty(t, MainPosition(t, k)) THEN NoEntry
  ELSE LET found == {i \in Chain(t, MainPosition(t, k)) : t.entries[i].key = k}
       IN IF found = {} THEN NoEntry ELSE CHOOSE i \in found : TRUE

(* emptyent(): the last empty slot; that there is one is asserted.          *)
EmptySlots(t) == {i \in Slots(t.lg2) : IsEmpty(t, i)}

PutEntry(t, i, k, v, next) ==
  [t EXCEPT !.entries[i] = [key |-> k, val |-> v, next |-> next], !.count = @ + 1]

\* Mutant of InsertEntry: an entry in a foreign chain is not evicted.
InsertEntryInChain(t, k, v) ==
  LET main == MainPosition(t, k) IN
  IF IsEmpty(t, main) THEN PutEntry(t, main, k, v, NoEntry)
  ELSE IF EmptySlots(t) = {} THEN [t EXCEPT !.fault = TRUE]
  ELSE LET free == Max(EmptySlots(t)) IN
       PutEntry([t EXCEPT !.entries[main].next = free], free, k, v, t.entries[main].next)

(* insert(): at a free main position; behind the head of its own chain; or, *)
(* when the entry there belongs to another chain, in its place.             *)
InsertEntry(t, k, v) ==
  LET main == MainPosition(t, k)
      occupant == t.entries[main]
      head == MainPosition(t, occupant.key)
      free == Max(EmptySlots(t))
      before == {i \in Chain(t, head) : t.entries[i].next = main}
  IN CASE IsEmpty(t, main) -> PutEntry(t, main, k, v, NoEntry)
       [] ~IsEmpty(t, main) /\ EmptySlots(t) = {} -> [t EXCEPT !.fault = TRUE]
       [] ~IsEmpty(t, main) /\ EmptySlots(t) # {} /\ head = main ->
          PutEntry([t EXCEPT !.entries[main].next = free], free, k, v, occupant.next)
       [] ~IsEmpty(t, main) /\ EmptySlots(t) # {} /\ head # main ->
          IF before = {} THEN [t EXCEPT !.fault = TRUE]
          ELSE PutEntry([t EXCEPT !.entries[free] = occupant,
                                  !.entries[CHOOSE i \in before : TRUE].next = free],
                        main, k, v, NoEntry)

Drop(t, entries) == [t EXCEPT !.entries = entries, !.count = @ - 1]

(* rm(): a head is replaced by its successor, whose slot becomes empty; an  *)
(* empty slot keeps its next pointer.                                       *)
RemoveEntry(t, k) ==
  LET main == MainPosition(t, k)
      second == t.entries[main].next
      before == {i \in Chain(t, main) :
                   t.entries[i].next # NoEntry /\ t.entries[t.entries[i].next].key = k}
  IN CASE IsEmpty(t, main) -> t
       [] t.entries[main].key = k ->
          Drop(t, IF second = NoEntry THEN [t.entries EXCEPT ![main].key = EmptyKey]
                  ELSE [t.entries EXCEPT ![main] = t.entries[second], ![second].key = EmptyKey])
       [] ~IsEmpty(t, main) /\ t.entries[main].key # k ->
          IF before = {} THEN t
          ELSE LET p == CHOOSE i \in before : TRUE
                   gone == t.entries[p].next
               IN Drop(t, [t.entries EXCEPT ![gone].key = EmptyKey,
                                            ![p].next = t.entries[gone].next])

(* next(): the first occupied slot behind index, or SIZE_MAX; the index is  *)
(* a size_t, so that the one behind SIZE_MAX is 0.                          *)
NextSlot(t, index) ==
  LET behind == {i \in Slots(t.lg2) : i > index /\ ~IsEmpty(t, i)} IN
  IF behind = {} THEN NoEntry ELSE Min(behind)

(* The entries of t put into an empty hash part, in the order of its slots. *)
Rehash(t, lg2) ==
  LET copy[i \in 0 .. Size(t)] ==
        IF i = 0 THEN [t EXCEPT !.lg2 = lg2, !.count = 0,
                                !.entries = [s \in Slots(lg2) |-> EmptyEntry]]
        ELSE IF IsEmpty(t, i - 1) THEN copy[i - 1]
        ELSE InsertEntry(copy[i - 1], t.entries[i - 1].key, t.entries[i - 1].val)
  IN copy[Size(t)]

-----------------------------------------------------------------------------
(* The array part and the whole. *)

InArray(t, k) == k \in DOMAIN t.array

Stored(t, k) ==
  IF InArray(t, k) THEN t.array[k]
  ELSE IF FindEntry(t, k) = NoEntry THEN Absent ELSE t.entries[FindEntry(t, k)].val

(* upb_inttable_insert2() and upb_strtable_insert3(): a full hash part is   *)
(* doubled first.                                                           *)
Insert(t, k, v) ==
  IF InArray(t, k)
  THEN [t EXCEPT !.array[k] = v, !.arrayCount = @ + 1, !.fault = @ \/ t.array[k] # Absent]
  ELSE InsertEntry(IF IsFull(t) THEN Rehash(t, t.lg2 + 1) ELSE t, k, v)

(* upb_inttable_remove(), upb_strtable_remove3().                           *)
Removed(t, k) ==
  IF ~InArray(t, k) THEN RemoveEntry(t, k)
  ELSE IF t.array[k] = Absent THEN t
  ELSE [t EXCEPT !.array[k] = Absent, !.arrayCount = @ - 1]

(* upb_inttable_replace().                                                  *)
Replaced(t, k, v) ==
  IF InArray(t, k) THEN [t EXCEPT !.array[k] = v]
  ELSE [t EXCEPT !.entries[FindEntry(t, k)].val = v]

TableCount(t) == t.count + t.arrayCount

(* log2ceil(), capped: keys above the cap share the last bucket.            *)
Log2Ceil(n) ==
  IF n = 0 THEN 0
  ELSE LET exact == CHOOSE e \in 0 .. n : Power2[e] >= n /\ (e = 0 \/ Power2[e - 1] < n)
       IN IF exact > MaxArrayLg2 THEN MaxArrayLg2 ELSE exact

Keys(t) == {k \in DOMAIN t.array : t.array[k] # Absent}
             \cup {t.entries[i].key : i \in {s \in Slots(t.lg2) : ~IsEmpty(t, s)}}

(* The largest power of two below which at least MIN_DENSITY, a tenth, of   *)
(* the keys up to it are used, and that is some key's own bucket.           *)
ArrayLg2(t) ==
  LET UpTo(e) == {k \in Keys(t) : Log2Ceil(k) <= e}
      dense == {e \in 1 .. MaxArrayLg2 : /\ \E k \in Keys(t) : Log2Ceil(k) = e
                                          /\ 10 * Cardinality(UpTo(e)) >= Power2[e]}
  IN IF dense = {} THEN 0 ELSE Max(dense)

(* upb_inttable_done(), upb_strtable_done(): nothing where an iterator is.  *)
Done(t, it) ==
  IF it.inArray THEN it.index \notin DOMAIN t.array \/ t.array[it.index] = Absent
  ELSE it.index \notin Slots(t.lg2) \/ IsEmpty(t, it.index)

KeyAt(t, it) == IF it.inArray THEN it.index ELSE t.entries[it.index].key

(* The places of a table in the order of its iterators.                     *)
Places(t) == Cardinality(DOMAIN t.array) + Size(t)

Place(t, p) ==
  IF InArray(t, p) THEN [inArray |-> TRUE, index |-> p]
  ELSE [inArray |-> FALSE, index |-> p - Cardinality(DOMAIN t.array)]

(* Every element of t inserted into b, in the order of the iterator.        *)
CopiedInto(t, b) ==
  LET fill[n \in 0 .. Places(t)] ==
        IF n = 0 THEN b
        ELSE IF Done(t, Place(t, n - 1)) THEN fill[n - 1]
        ELSE LET k == KeyAt(t, Place(t, n - 1)) IN Insert(fill[n - 1], k, Stored(t, k))
  IN fill[Places(t)]

(* One more than the largest key in the last bucket of the array part, and  *)
(* the size_lg2 that the keys of the later buckets need.                    *)
ArraySize(t) ==
  LET lg2 == ArrayLg2(t)
      bucket == {k \in Keys(t) : Log2Ceil(k) = lg2}
  IN (IF bucket = {} THEN 0 ELSE Max(bucket)) + 1

HashLg2(t) ==
  LET lg2 == ArrayLg2(t)
      hashCount == Cardinality({k \in Keys(t) : Log2Ceil(k) > lg2})
  IN Log2Ceil(IF hashCount = 0 THEN 0 ELSE (100 * hashCount) \div 85 + 1)

(* upb_inttable_compact2(): everything into a table of the right size.      *)
Compacted(t) ==
  LET filled == CopiedInto(t, NewTable(ArraySize(t), HashLg2(t)))
  IN [filled EXCEPT !.compacted = TRUE,
                    !.fault = t.fault \/ @ \/ filled.lg2 # HashLg2(t)]

-----------------------------------------------------------------------------
(* The operations.  A change makes an iterator in use stale.                *)

Staled == IF iter.on THEN [iter EXCEPT !.stale = TRUE, !.seen = {}, !.repeated = FALSE]
          ELSE iter

With(d, k, v) == [x \in DOMAIN d \cup {k} |-> IF x = k THEN v ELSE d[x]]

TableInsert(k, v) ==
  /\ k \notin DOMAIN dict
  /\ table' = Insert(table, k, v)
  /\ dict' = With(dict, k, v)
  /\ iter' = Staled /\ UNCHANGED hash

(* map_index_set(), map_field_write_dimension(): remove, then insert.       *)
MapSet(k, v) ==
  /\ k \in DOMAIN dict /\ ~table.compacted
  /\ table' = Insert(Removed(table, k), k, v)
  /\ dict' = [dict EXCEPT ![k] = v]
  /\ iter' = Staled /\ UNCHANGED hash

(* Nobody removes from a table that was compacted: its hash part may have   *)
(* no entries at all, which rm() would not notice.                          *)
TableRemove(k) ==
  /\ ~table.compacted
  /\ table' = Removed(table, k)
  /\ dict' = [x \in DOMAIN dict \ {k} |-> dict[x]]
  /\ iter' = Staled /\ UNCHANGED hash

(* A value replaced in place does not invalidate iterators.                 *)
Replace(k, v) ==
  /\ Stored(table, k) # Absent
  /\ table' = Replaced(table, k, v)
  /\ dict' = [dict EXCEPT ![k] = v]
  /\ UNCHANGED <<hash, iter>>

(* upb_inttable_push2() and pop(), of a table that is only used as a stack. *)
IsStack == DOMAIN dict = 0 .. Cardinality(DOMAIN dict) - 1

Push(v) ==
  /\ IsStack /\ InitArray > 0 /\ TableCount(table) \in TableKey
  /\ table' = Insert(table, TableCount(table), v)
  /\ dict' = With(dict, TableCount(table), v)
  /\ iter' = Staled /\ UNCHANGED hash

Pop ==
  LET top == TableCount(table) - 1 IN
  /\ IsStack /\ DOMAIN dict # {} /\ ~table.compacted
  /\ table' = [Removed(table, top) EXCEPT !.fault = @ \/ Stored(table, top) = Absent]
  /\ dict' = [x \in DOMAIN dict \ {top} |-> dict[x]]
  /\ iter' = Staled /\ UNCHANGED hash

Compact ==
  /\ InitArray > 0
  /\ table' = Compacted(table)
  /\ iter' = Staled /\ UNCHANGED <<hash, dict>>

(* upb_inttable_next(); of a table of strings the array part is empty.      *)
Advance(t, it) ==
  LET behind == {i \in DOMAIN t.array : i > it.index /\ t.array[i] # Absent} IN
  IF it.inArray /\ behind # {} THEN [it EXCEPT !.index = Min(behind)]
  ELSE IF it.inArray THEN [it EXCEPT !.inArray = FALSE, !.index = NextSlot(t, NoEntry)]
  ELSE [it EXCEPT !.index = NextSlot(t, it.index)]

Visit(t, it) ==
  IF Done(t, it) \/ it.stale THEN it
  ELSE [it EXCEPT !.seen = @ \cup {KeyAt(t, it)},
                  !.repeated = @ \/ KeyAt(t, it) \in it.seen]

Begin ==
  /\ iter' = Visit(table, Advance(table, [NoIter EXCEPT !.on = TRUE, !.inArray = TRUE]))
  /\ UNCHANGED <<hash, table, dict>>

NextElement ==
  /\ iter.on /\ ~Done(table, iter)
  /\ iter' = Visit(table, Advance(table, iter))
  /\ UNCHANGED <<hash, table, dict>>

TableNext ==
  \/ \E k \in TableKey :
       \/ TableRemove(k)
       \/ \E v \in TableVal : TableInsert(k, v) \/ MapSet(k, v) \/ Replace(k, v)
  \/ \E v \in TableVal : Push(v)
  \/ Pop \/ Compact \/ Begin \/ NextElement

TableSpec == TableInit /\ [][TableNext]_tableVars

-----------------------------------------------------------------------------
(* Properties. *)

TableTypeOK ==
  /\ hash \in [TableKey -> HashValue]
  /\ table.lg2 \in Nat
  /\ table.count \in 0 .. Size(table) /\ table.arrayCount \in Nat
  /\ table.entries \in [Slots(table.lg2) -> Entry]
  /\ \A i \in DOMAIN table.array : table.array[i] \in TableVal \cup {Absent}
  /\ DOMAIN dict \subseteq TableKey

(* No assertion of the table's code fails: a free slot is found, an evicted *)
(* entry's predecessor is on its chain, a popped element is there, a        *)
(* compacted table needs no second resize.                                  *)
TableNoFault == ~table.fault

(* Whatever was inserted, evicted, removed and rehashed before, a lookup    *)
(* returns what was last stored under the key and finds nothing else, and   *)
(* the count is the number of keys.                                         *)
LookupAgrees ==
  /\ \A k \in TableKey :
       Stored(table, k) = IF k \in DOMAIN dict THEN dict[k] ELSE Absent
  /\ TableCount(table) = Cardinality(DOMAIN dict)

(* An iterator that nothing disturbed has, when it is done, returned every  *)
(* key, and each once.                                                      *)
IterationComplete ==
  iter.on /\ ~iter.stale =>
    /\ ~iter.repeated
    /\ Done(table, iter) => iter.seen = DOMAIN dict

(* The promise of upb.h:1303-1308: what an iterator returns, also one the   *)
(* table was resized or shortened under, is an element of the table.        *)
StaleIterSafe == iter.on /\ ~Done(table, iter) => KeyAt(table, iter) \in DOMAIN dict

(* A lookup finds what was stored last, whatever was evicted or moved       *)
(* since, an undisturbed iteration returns every key once and a stale one   *)
(* only elements.                                                           *)
TablesSound == TableTypeOK /\ TableNoFault /\ LookupAgrees /\ IterationComplete /\ StaleIterSafe
=============================================================================
