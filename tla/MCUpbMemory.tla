---------------------------- MODULE MCUpbMemory ------------------------------
(* Small instances of the memory management of upb, each explored on its    *)
(* own: part says which one a behaviour is of, the others stay as they are. *)
(* HashTable itself is the table of integers.                               *)
EXTENDS RefCounted, Arena, HashTable

CONSTANTS Part, StringKey, StringHash

VARIABLES part, stringHash, stringTable, stringDict, stringIter

stringVars == <<stringHash, stringTable, stringDict, stringIter>>

\* With the size that upb_strtable_init2() uses.
Strings == INSTANCE HashTable
             WITH TableKey <- StringKey, HashValue <- StringHash, InitLg2 <- 2, InitArray <- 0,
                  hash <- stringHash, table <- stringTable, dict <- stringDict, iter <- stringIter

Unused(h) == \A k \in DOMAIN h : h[k] = 0

\* String keys are interchangeable, so that their hashes may be taken in order.
MemoryInit ==
  /\ part \in Part
  /\ Init /\ ArenaInit
  /\ TableInit /\ (part # "ints" => Unused(hash))
  /\ Strings!TableInit /\ \A j, k \in StringKey : j < k => stringHash[j] <= stringHash[k]
  /\ part # "strings" => Unused(stringHash)

MemoryNext ==
  /\ UNCHANGED part
  /\ \/ part = "objects" /\ Next /\ UNCHANGED <<arenaVars, tableVars, stringVars>>
     \/ part = "strings" /\ Strings!TableNext /\ UNCHANGED <<vars, arenaVars, tableVars>>
     \/ part = "ints" /\ TableNext /\ UNCHANGED <<vars, arenaVars, stringVars>>
     \/ part = "arena" /\ ArenaNext /\ UNCHANGED <<vars, tableVars, stringVars>>

MemorySpec == MemoryInit /\ [][MemoryNext]_<<part, vars, arenaVars, tableVars, stringVars>>

ObjectSymmetry == Permutations(Obj)

\* In any order of linking, freezing and releasing no assertion of the code
\* fails, no object in use is freed and none that is out of use is kept.
ObjectsSafe == HeapTypeOK /\ NoFault /\ NoDangling /\ NoLeak

\* Groups are what freeze() and the counts take them for: they hold the cycles,
\* are either frozen or mutable, are what their circular lists say, and share a
\* count that is exact.
GroupsHold == GroupsSound /\ FrozenClosed /\ RingsAreGroups /\ CountsExact

\* The same of a table of strings as TablesSound says of one of integers.
StringTablesSound == Strings!TablesSound
=============================================================================
