-------------------------------- MODULE Arena --------------------------------
(***************************************************************************)
(* upb::Arena and upb::Environment (upb.c): the memory of one encoding or  *)
(* decoding.  Memory is taken from blocks of growing size and given back   *)
(* all at once, after the cleanup functions have run.                      *)
(*                                                                         *)
(* Sizes are in units of the model; MaxAlign of them stand for the 16      *)
(* bytes of maxalign and Header for sizeof(mem_block).  Addresses are      *)
(* offsets into a block.                                                   *)
(***************************************************************************)
EXTENDS Integers, Sequences, FiniteSets, SequencesExt

CONSTANTS
  Request,      \* the sizes that are asked for
  MaxAlign, Header,
  EntrySize,    \* sizeof(cleanup_ent)
  InitialBlock, \* size of the memory given to upb_arena_init2(); 0 for none
  FirstBlock, MaxBlock, \* next_block_size at first, max_block_size
  MaxBlocks, MaxCleanups \* bounds

(* A request of nothing gets no memory (upb.c:6263).  sizeof(mem_block) is  *)
(* a multiple of the alignment.                                             *)
ASSUME ArenaAssumption ==
  /\ Request \subseteq Nat \ {0} /\ EntrySize \in Nat \ {0}
  /\ MaxAlign \in Nat \ {0} /\ Header \in Nat \ {0} /\ Header % MaxAlign = 0
  /\ {InitialBlock, FirstBlock, MaxBlock, MaxBlocks, MaxCleanups} \subseteq Nat

VARIABLES
  arena,   \* the arena
  held,    \* blocks that block_alloc gave and did not get back
  given,   \* the memory handed out: block, offset and length
  cleanups, \* the cleanup functions registered, a number each, first to last
  ran,     \* those that have run
  todo,    \* the entries upb_arena_uninit() has still to run
  phase,   \* "use", or where upb_arena_uninit() is
  envOk,   \* ok_ of the environment
  broken   \* an allocation failed, or an error was reported and not recovered

arenaVars == <<arena, held, given, cleanups, ran, todo, phase, envOk, broken>>

AlignUp(size) == ((size + MaxAlign - 1) \div MaxAlign) * MaxAlign
Bigger(a, b) == IF a > b THEN a ELSE b
Smaller(a, b) == IF a < b THEN a ELSE b

Block(id, size, owned) == [id |-> id, size |-> size, used |-> AlignUp(Header), owned |-> owned]

(* upb_arena_init2(); too small an initial block is ignored.                *)
ArenaInit ==
  /\ arena = [blocks |-> IF InitialBlock > Header THEN <<Block(0, InitialBlock, FALSE)>> ELSE <<>>,
              next |-> FirstBlock, nextId |-> 1, bytes |-> 0, entries |-> <<>>]
  /\ held = {} /\ given = {} /\ cleanups = <<>> /\ ran = <<>> /\ todo = <<>>
  /\ phase = "use" /\ envOk = TRUE /\ broken = FALSE

-----------------------------------------------------------------------------
(* Allocation.  No memory is the answer when block_alloc has none.          *)

NoMemory == [block |-> 0, from |-> 0, size |-> 0]

Fits(a, size) == a.blocks # <<>> /\ Head(a.blocks).size - Head(a.blocks).used >= size

(* upb_arena_allocblock() and upb_arena_addblock().                         *)
WithBlock(a, size) ==
  LET blockSize == Bigger(size, a.next) + Header IN
  [a EXCEPT !.blocks = <<Block(a.nextId, blockSize, TRUE)>> \o @,
            !.next = Smaller(2 * blockSize, MaxBlock), !.nextId = @ + 1]

\* Mutant of Take: the size is not rounded up.
TakeUnaligned(a, size) ==
  [arena |-> [a EXCEPT !.blocks[1].used = @ + size, !.bytes = @ + size],
   mem |-> [block |-> Head(a.blocks).id, from |-> Head(a.blocks).used, size |-> size]]

Take(a, size) ==
  [arena |-> [a EXCEPT !.blocks[1].used = @ + AlignUp(size), !.bytes = @ + AlignUp(size)],
   mem |-> [block |-> Head(a.blocks).id, from |-> Head(a.blocks).used, size |-> size]]

(* upb_arena_doalloc(): the rest of a block that is too small is given up.  *)
Alloc(a, size, works) ==
  CASE Fits(a, AlignUp(size)) -> Take(a, size)
    [] ~Fits(a, AlignUp(size)) /\ works -> Take(WithBlock(a, AlignUp(size)), size)
    [] ~Fits(a, AlignUp(size)) /\ ~works -> [arena |-> a, mem |-> NoMemory]

Hold(a) == held' = held \cup {b.id : b \in {x \in ToSet(a.blocks) : x.owned}}

Malloc(size, works) ==
  LET result == Alloc(arena, size, works) IN
  /\ phase = "use" /\ Len(arena.blocks) < MaxBlocks
  /\ arena' = result.arena /\ Hold(result.arena)
  /\ given' = given \cup ({result.mem} \ {NoMemory})
  /\ broken' = (broken \/ result.mem = NoMemory)
  /\ UNCHANGED <<cleanups, ran, todo, phase, envOk>>

(* A larger area, the old one's contents copied; it is never given back.    *)
Realloc(old, size, works) ==
  old.size < size /\ Malloc(size, works)

(* upb_arena_addcleanup().                                                  *)
AddCleanup(works) ==
  LET result == Alloc(arena, EntrySize, works)
      id == Len(cleanups) + 1
  IN /\ phase = "use" /\ Len(arena.blocks) < MaxBlocks /\ Len(cleanups) < MaxCleanups
     /\ IF result.mem = NoMemory
        THEN broken' = TRUE /\ UNCHANGED <<arena, held, given, cleanups>>
        ELSE /\ arena' = [result.arena EXCEPT !.entries = <<[fn |-> id, mem |-> result.mem]>> \o @]
             /\ Hold(result.arena)
             /\ given' = given \cup {result.mem} /\ cleanups' = Append(cleanups, id)
             /\ UNCHANGED broken
     /\ UNCHANGED <<ran, todo, phase, envOk>>

(* upb_env_reporterror(); the callback says whether to go on.               *)
ReportError(recovered) ==
  /\ phase = "use"
  /\ envOk' = FALSE
  /\ broken' = (broken \/ ~recovered)
  /\ UNCHANGED <<arena, held, given, cleanups, ran, todo, phase>>

-----------------------------------------------------------------------------
(* upb_arena_uninit(): the cleanup functions, from the last one registered, *)
(* then the blocks, then the two lists are emptied.                         *)

(* A second call, of which it protects itself, finds both lists empty.      *)
Uninit ==
  /\ phase \in {"use", "done"}
  /\ phase' = "cleanup" /\ todo' = arena.entries
  /\ UNCHANGED <<arena, held, given, cleanups, ran, envOk, broken>>

RunCleanup ==
  /\ phase = "cleanup" /\ todo # <<>>
  /\ ran' = Append(ran, Head(todo).fn) /\ todo' = Tail(todo)
  /\ UNCHANGED <<arena, held, given, cleanups, phase, envOk, broken>>

FreeBlocks ==
  /\ phase = "cleanup" /\ todo = <<>>
  /\ held' = held \ {b.id : b \in {x \in ToSet(arena.blocks) : x.owned}}
  /\ arena' = [arena EXCEPT !.blocks = <<>>, !.entries = <<>>]
  /\ given' = {} /\ phase' = "done"
  /\ UNCHANGED <<cleanups, ran, todo, envOk, broken>>

ArenaNext ==
  \/ \E size \in Request, works \in BOOLEAN :
       \/ Malloc(size, works)
       \/ \E old \in given : Realloc(old, size, works)
  \/ \E works \in BOOLEAN : AddCleanup(works) \/ ReportError(works)
  \/ Uninit \/ RunCleanup \/ FreeBlocks

ArenaSpec == ArenaInit /\ [][ArenaNext]_arenaVars

-----------------------------------------------------------------------------
(* Properties. *)

ArenaTypeOK ==
  /\ \A i \in 1 .. Len(arena.blocks) : arena.blocks[i].used \in 0 .. arena.blocks[i].size
  /\ held \subseteq 1 .. MaxBlocks
  /\ phase \in {"use", "cleanup", "done"} /\ {envOk, broken} \subseteq BOOLEAN

(* Memory that was handed out is aligned, lies behind its block's header    *)
(* and within its block, which is still held, and shares nothing with any   *)
(* other.                                                                   *)
AllocationsApart ==
  \A m \in given :
    /\ m.from % MaxAlign = 0
    /\ \E b \in ToSet(arena.blocks) :
         b.id = m.block /\ Header <= m.from /\ m.from + m.size <= b.size
                        /\ (b.owned => b.id \in held)
    /\ \A n \in given : m # n /\ m.block = n.block
                        => m.from + m.size <= n.from \/ n.from + n.size <= m.from

(* Every block that came from the allocator is on the list, so that a       *)
(* destroyed arena holds none.                                              *)
BlocksReturned == held = {b.id : b \in {x \in ToSet(arena.blocks) : x.owned}}

(* The cleanup functions of a destroyed arena ran once each, in the reverse *)
(* of the order they were registered in, while the arena's memory, where    *)
(* the list of them is, was still there.                                    *)
CleanupsReversed ==
  /\ \A i \in 1 .. Len(todo) : todo[i].mem.block \in held \cup {0}
  /\ phase = "done" => ran = Reverse(cleanups)

(* Areas of an arena lie apart in blocks it holds; its cleanup functions    *)
(* run once, last registered first, before the memory goes, and no block    *)
(* is left.                                                                 *)
ArenaSound == ArenaTypeOK /\ AllocationsApart /\ BlocksReturned /\ CleanupsReversed

(* upb.h:736: "Returns true if all allocations and AddCleanup() calls have  *)
(* succeeded, and no errors were reported with ReportError() (except ones   *)
(* that recovered successfully)."                                           *)
EnvOkHonest == envOk = ~broken
=============================================================================
