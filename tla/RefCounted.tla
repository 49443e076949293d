----------------------------- MODULE RefCounted -----------------------------
(***************************************************************************)
(* upb::RefCounted, which owns every definition, handlers object and       *)
(* method of the protobuf extension (upb.c).  Mutable objects that were    *)
(* ever linked share a group and one count, so that cycles cannot leak;    *)
(* freeze() splits mutable groups into groups that are the strongly        *)
(* connected components of the object graph, and these are counted for     *)
(* every reference that crosses into them.                                 *)
(*                                                                         *)
(* The memory is one record, heap, because unref() and freeze() read and   *)
(* write all of it on their way.                                           *)
(***************************************************************************)
EXTENDS Integers, Sequences, FiniteSets, SequencesExt, Functions, TLC

CONSTANTS
  Obj,      \* the objects that may be created
  MaxOwned, \* bound: references the application holds on one object
  MaxRefs,  \* bound: ref2 references from one object to another
  MaxDepth  \* the maxdepth argument of upb_refcounted_freeze()

VARIABLES
  heap,  \* the objects and the counts of their groups
  owned  \* how many references the application holds on each object

vars == <<heap, owned>>

(* The pointer to a group's count: allocated with its first object, or by   *)
(* freeze() for the component of an object.                                 *)
OwnGroup(o) == <<o, "own">>
SccGroup(o) == <<o, "scc">>
Group == Obj \X {"own", "scc"}
Null == <<>>

(* frozen, group, next and individual are fields of upb_refcounted, count   *)
(* is what a group pointer points to, refs the ref2 references held, fault  *)
(* whether an assertion of the code failed or freed memory was used.        *)
Heap ==
  [life : [Obj -> {"unborn", "live", "freed"}],
   frozen : [Obj -> BOOLEAN],
   group : [Obj -> Group \cup {Null}],
   next : [Obj -> Obj],
   individual : [Obj -> Nat],
   count : [Group -> Nat],
   allocated : SUBSET Group,
   refs : [Obj -> [Obj -> 0 .. MaxRefs]],
   fault : BOOLEAN]

Init ==
  /\ heap = [life |-> [o \in Obj |-> "unborn"],
             frozen |-> [o \in Obj |-> FALSE],
             group |-> [o \in Obj |-> Null],
             next |-> [o \in Obj |-> o],
             individual |-> [o \in Obj |-> 0],
             count |-> [g \in Group |-> 0],
             allocated |-> {},
             refs |-> [o \in Obj |-> [p \in Obj |-> 0]],
             fault |-> FALSE]
  /\ owned = [o \in Obj |-> 0]

-----------------------------------------------------------------------------
(* Reading and changing the heap. *)

Check(h, condition) == [h EXCEPT !.fault = @ \/ ~condition]

(* refgroup(), and the decrement of unrefgroup().                           *)
Count(h, g, by) ==
  IF g \in h.allocated /\ h.count[g] + by >= 0
  THEN [h EXCEPT !.count[g] = @ + by]
  ELSE Check(h, FALSE)

AllocGroup(h, g, n) == [Check(h, g \notin h.allocated) EXCEPT !.allocated = @ \cup {g}, !.count[g] = n]

Free(h, g) == [Check(h, g \in h.allocated) EXCEPT !.allocated = @ \ {g}, !.count[g] = 0]

(* freeobj(); no field of the object is read after it.                      *)
FreeObj(h, o) ==
  [Check(h, h.life[o] = "live") EXCEPT
     !.life[o] = "freed", !.group[o] = Null, !.next[o] = o, !.individual[o] = 0,
     !.frozen[o] = FALSE]

(* The objects of the circular list that o is on, from o.                   *)
Ring(h, o) ==
  LET walk[n \in 0 .. Cardinality(Obj)] ==
        IF n = 0 THEN <<o>>
        ELSE LET so == walk[n - 1] IN
             IF h.next[Last(so)] = o THEN so ELSE Append(so, h.next[Last(so)])
  IN walk[Cardinality(Obj)]

(* What visit() enumerates: every object o holds a ref2 on, once for each,  *)
(* in an order of its own.                                                  *)
Visited(h, o, order) ==
  FlattenSeq([i \in 1 .. Len(order) |-> [n \in 1 .. h.refs[o][order[i]] |-> order[i]]])

-----------------------------------------------------------------------------
(* Releasing. *)

Merged(h, o, p) == h.group[o] = h.group[p]

RECURSIVE Unref(_, _, _)

(* release_ref2(): a reference within the group was never counted.          *)
ReleaseRef2(h, o, sub, order) ==
  LET untracked == [h EXCEPT !.refs[o][sub] = @ - 1] IN
  IF Merged(h, o, sub) THEN untracked
  ELSE Unref(Check(untracked, h.life[sub] = "live" /\ h.frozen[sub]), sub, order)

ReleaseAll(h, ring, order) ==
  FoldLeft(LAMBDA acc, o :
             FoldLeft(LAMBDA a, sub : ReleaseRef2(a, o, sub, order), acc,
                      Visited(acc, o, order)),
           h, ring)

(* The last reference into a group frees it with all its objects, after     *)
(* these released what they refer to.                                       *)
Unref(h, o, order) ==
  LET dropped == Count(h, h.group[o], -1)
      ring == Ring(h, o)
  IN IF dropped.count[h.group[o]] # 0 THEN dropped
     ELSE LET released == ReleaseAll(Free(dropped, h.group[o]), ring, order)
          IN FoldLeft(LAMBDA acc, p :
                        FreeObj(Check(acc, acc.frozen[p] \/ acc.individual[p] = 0), p),
                      released, ring)

-----------------------------------------------------------------------------
(* The analysis of freeze(): Tarjan's algorithm.  A colour is black before  *)
(* the object is seen, gray when its group was, green while it is on the    *)
(* stack, white once its component is known.                                *)

Analysis0 ==
  [color |-> [o \in Obj |-> "black"], index |-> 0,
   idx |-> [o \in Obj |-> 0], low |-> [o \in Obj |-> 0],
   stack |-> <<>>, scc |-> [o \in Obj |-> o], depth |-> 0, failed |-> FALSE]

Lower(a, b) == IF a < b THEN a ELSE b

RECURSIVE DoTarjan(_, _, _, _)

\* Mutant of TarjanVisit: only objects of groups not seen before are searched.
TarjanVisitBlack(t, h, obj, sub, order) ==
  IF t.failed \/ h.frozen[sub] \/ t.color[sub] \in {"white", "gray"} THEN t
  ELSE IF t.color[sub] = "green" THEN [t EXCEPT !.low[obj] = Lower(@, t.idx[sub])]
  ELSE DoTarjan(t, h, sub, order)

(* Leaving a visit undoes its depth.                                        *)
TarjanVisit(t, h, obj, sub, order) ==
  LET inside == [t EXCEPT !.depth = @ + 1]
      Leave(u) == [u EXCEPT !.depth = @ - 1]
  IN CASE t.failed -> t
       [] ~t.failed /\ inside.depth > MaxDepth -> [t EXCEPT !.failed = TRUE]
       [] ~t.failed /\ inside.depth <= MaxDepth ->
          CASE h.frozen[sub] \/ t.color[sub] = "white" -> t
            [] ~h.frozen[sub] /\ t.color[sub] \in {"black", "gray"} ->
               LET u == DoTarjan(inside, h, sub, order) IN
               IF u.failed THEN u
               ELSE Leave(IF u.color[sub] = "green"
                          THEN [u EXCEPT !.low[obj] = Lower(@, u.low[sub])] ELSE u)
            [] ~h.frozen[sub] /\ t.color[sub] = "green" ->
               [t EXCEPT !.low[obj] = Lower(@, t.idx[sub])]

(* The objects from obj to the top of the stack are a component.            *)
PopComponent(t, obj) ==
  LET from == CHOOSE i \in 1 .. Len(t.stack) : t.stack[i] = obj
      component == Range(SubSeq(t.stack, from, Len(t.stack)))
  IN [t EXCEPT !.stack = SubSeq(@, 1, from - 1),
               !.color = [o \in Obj |-> IF o \in component THEN "white" ELSE @[o]],
               !.scc = [o \in Obj |-> IF o \in component THEN obj ELSE @[o]]]

DoTarjan(t, h, obj, order) ==
  LET group == IF t.color[obj] = "black" THEN Range(Ring(h, obj)) ELSE {}
      pushed == [t EXCEPT !.color = [o \in Obj |-> IF o = obj THEN "green"
                                                   ELSE IF o \in group THEN "gray" ELSE @[o]],
                          !.idx[obj] = t.index, !.low[obj] = t.index,
                          !.index = @ + 1,
                          !.stack = Append(@, obj)]
      searched == FoldLeft(LAMBDA u, sub : TarjanVisit(u, h, obj, sub, order),
                           pushed, Visited(h, obj, order))
  IN IF searched.failed \/ searched.low[obj] # searched.idx[obj]
     THEN searched ELSE PopComponent(searched, obj)

Analyse(h, roots, order) ==
  FoldLeft(LAMBDA t, o : IF ~t.failed /\ t.color[o] \in {"black", "gray"}
                         THEN DoTarjan(t, h, o, order) ELSE t,
           Analysis0, roots)

-----------------------------------------------------------------------------
(* The three passes of freeze() over the objects whose colour was set, in   *)
(* the order of the hash table that holds the colours.                      *)

(* The next object on obj's list moves from its mutable group to that of    *)
(* its component, behind the component's leader, the first that came.       *)
Moved(state, t, obj) ==
  LET h == state.heap
      move == h.next[obj]
      old == h.group[move]
      new == SccGroup(t.scc[move])
      first == new \notin DOMAIN state.leader
      out == IF obj = move
             THEN Free(Check(h, h.count[old] = h.individual[obj]), old)
             ELSE Count([h EXCEPT !.next[obj] = h.next[move]], old, 0 - h.individual[move])
      in == IF first
            THEN [AllocGroup(out, new, h.individual[move]) EXCEPT !.next[move] = move]
            ELSE [Count(Check(out, out.group[state.leader[new]] = new), new, h.individual[move])
                    EXCEPT !.next[move] = out.next[state.leader[new]],
                           !.next[state.leader[new]] = move]
  IN [heap |-> [in EXCEPT !.group[move] = new, !.frozen[move] = TRUE],
      leader |-> IF first THEN new :> move @@ state.leader ELSE state.leader]

Misplaced(state, t, obj) ==
  LET move == state.heap.next[obj] IN
  t.color[move] = "white" /\ state.heap.group[move] # SccGroup(t.scc[move])

RECURSIVE MoveNext(_, _, _)

(* Pass 1, for one object of the table: the objects behind it are moved as  *)
(* long as they are white and not yet in their component's group.           *)
MoveNext(state, t, obj) ==
  IF Misplaced(state, t, obj) THEN MoveNext(Moved(state, t, obj), t, obj) ELSE state

\* Mutant of CrossRef: references into a group are not counted.
CrossRefForgets(h, t, obj, sub) == h

(* Pass 2: references that cross groups now are counted.                    *)
CrossRef(h, t, obj, sub) ==
  IF t.color[sub] # "black" /\ h.group[obj] # h.group[sub]
  THEN Count(h, h.group[sub], 1) ELSE h

(* Pass 3: what is left of a mutable group without a reference is freed.    *)
CollectGray(h, obj, order) ==
  LET ring == Ring(h, obj)
      g == h.group[obj]
      released == ReleaseAll(Free(h, g), ring, order)
      marked == [released EXCEPT !.group = [o \in Obj |-> IF o \in Range(ring) THEN Null ELSE @[o]]]
  IN CASE g = Null -> FreeObj(h, obj)
       [] g # Null /\ h.count[g] = 0 ->
          FreeObj(Check(marked, g \in h.allocated), obj)
       [] g # Null /\ h.count[g] # 0 -> h

(* A failure, of the depth limit or of an allocation, comes before any      *)
(* change.                                                                  *)
Frozen(h, roots, order) ==
  LET t == Analyse(h, roots, order)
      table == SelectSeq(order, LAMBDA o : t.color[o] # "black")
      moved == FoldLeft(LAMBDA state, o : MoveNext(state, t, o),
                        [heap |-> h, leader |-> [g \in {} |-> Null]], table).heap
      crossed == FoldLeft(LAMBDA acc, o :
                            FoldLeft(LAMBDA a, sub : CrossRef(a, t, o, sub), acc,
                                     Visited(acc, o, order)),
                          moved, table)
  IN IF t.failed THEN h
     ELSE FoldLeft(LAMBDA acc, o : CollectGray(acc, o, order), crossed, table)

-----------------------------------------------------------------------------
(* The public operations.  The application reaches an object through one    *)
(* it holds a reference on.                                                 *)

Reached(h, from) ==
  LET grown[n \in 0 .. Cardinality(Obj)] ==
        IF n = 0 THEN from
        ELSE grown[n - 1] \cup {p \in Obj : \E o \in grown[n - 1] : h.refs[o][p] > 0}
  IN grown[Cardinality(Obj)]

Owned == {o \in Obj : owned[o] > 0}

Known == Reached(heap, Owned)

New(o) ==
  /\ heap.life[o] = "unborn"
  /\ heap' = [AllocGroup(heap, OwnGroup(o), 1) EXCEPT
                !.life[o] = "live", !.group[o] = OwnGroup(o), !.individual[o] = 1]
  /\ owned' = [owned EXCEPT ![o] = 1]

(* A frozen object is not written: only its group's count changes.          *)
Ref(o) ==
  LET counted == IF heap.frozen[o] THEN heap ELSE [heap EXCEPT !.individual[o] = @ + 1] IN
  /\ o \in Known /\ owned[o] < MaxOwned
  /\ heap' = Count(counted, heap.group[o], 1)
  /\ owned' = [owned EXCEPT ![o] = @ + 1]

Unown(o, order) ==
  LET uncounted == IF heap.frozen[o] THEN heap ELSE [heap EXCEPT !.individual[o] = @ - 1] IN
  /\ owned[o] > 0
  /\ heap' = Unref(uncounted, o, order)
  /\ owned' = [owned EXCEPT ![o] = @ - 1]

\* Mutant of Merge: the lists are joined, the counts are not.
MergeLists(h, r, from) ==
  [h EXCEPT !.group = [o \in Obj |-> IF o \in Range(Ring(h, from)) THEN h.group[r] ELSE @[o]],
            !.next[r] = h.next[from], !.next[from] = h.next[r],
            !.allocated = @ \ {h.group[from]}, !.count[h.group[from]] = 0]

(* Two groups become one: counts are added, the circular lists joined.      *)
Merge(h, r, from) ==
  IF Merged(h, r, from) THEN h
  ELSE LET counted == Free(Count(h, h.group[r], h.count[h.group[from]]), h.group[from])
       IN [counted EXCEPT
             !.group = [o \in Obj |-> IF o \in Range(Ring(h, from)) THEN h.group[r] ELSE @[o]],
             !.next[r] = h.next[from], !.next[from] = h.next[r]]

Ref2(r, from) ==
  LET tracked == [heap EXCEPT !.refs[from][r] = @ + 1] IN
  /\ {r, from} \subseteq Known /\ ~heap.frozen[from] /\ heap.refs[from][r] < MaxRefs
  /\ heap' = IF heap.frozen[r] THEN Count(tracked, heap.group[r], 1)
             ELSE Merge(tracked, r, from)
  /\ UNCHANGED owned

Unref2(r, from, order) ==
  LET untracked == [heap EXCEPT !.refs[from][r] = @ - 1] IN
  /\ from \in Known /\ ~heap.frozen[from] /\ heap.refs[from][r] > 0
  /\ heap' = IF heap.frozen[r] THEN Unref(untracked, r, order)
             ELSE Check(untracked, Merged(heap, r, from))
  /\ UNCHANGED owned

(* The caller owns references on the roots, none of which is frozen.        *)
Freeze(roots, order) ==
  /\ roots # {} /\ \A o \in roots : o \in Owned /\ ~heap.frozen[o]
  /\ heap' = Frozen(heap, SelectSeq(order, LAMBDA o : o \in roots), order)
  /\ UNCHANGED owned

Next ==
  \/ \E o \in Obj : New(o) \/ Ref(o)
  \/ \E r, from \in Obj : Ref2(r, from)
  \/ \E order \in SetToSeqs(Obj) :
       \/ \E o \in Obj : Unown(o, order)
       \/ \E r, from \in Obj : Unref2(r, from, order)
       \/ \E roots \in SUBSET Obj : Freeze(roots, order)

Spec == Init /\ [][Next]_vars

-----------------------------------------------------------------------------
(* Properties. *)

Live == {o \in Obj : heap.life[o] = "live"}

Peers(o) == {p \in Live : heap.group[p] = heap.group[o]}

(* Every field stays in its domain.                                         *)
HeapTypeOK == heap \in Heap /\ owned \in [Obj -> 0 .. MaxOwned]

(* No assertion of the code fails, no count is decremented below zero, and  *)
(* no object or group is used or freed after it was freed, in any order in  *)
(* which tables and visit functions enumerate objects.                      *)
NoFault == ~heap.fault

(* An object the application can reach is not freed.                        *)
NoDangling == Known \subseteq Live

(* What the implementation states of groups (upb.c:4267-4279): reference    *)
(* cycles never span groups, mutable objects with a reference between them  *)
(* share a group, and no group has both mutable and frozen objects.         *)
CyclesShareGroup ==
  \A o, p \in Live : o \in Reached(heap, {p}) /\ p \in Reached(heap, {o})
                     => heap.group[o] = heap.group[p]

MutableShareGroup ==
  \A o, p \in Live : heap.refs[o][p] > 0 /\ ~heap.frozen[o] /\ ~heap.frozen[p]
                     => heap.group[o] = heap.group[p]

NoMixedGroup ==
  \A o, p \in Live : heap.group[o] = heap.group[p] => heap.frozen[o] = heap.frozen[p]

GroupsSound == CyclesShareGroup /\ MutableShareGroup /\ NoMixedGroup

(* Its other invariant (upb.c:4269): a group's count is the number of       *)
(* references into the group from outside it, which is what makes the last  *)
(* of them free it.                                                         *)
CountsExact ==
  LET Crossing(o) == SumFunctionOnSet([p \in Obj |-> heap.refs[p][o]], Live \ Peers(o))
  IN \A o \in Live :
       heap.count[heap.group[o]] = SumFunctionOnSet([p \in Obj |-> owned[p] + Crossing(p)], Peers(o))

(* What nobody refers to any more is freed: an object is live only while    *)
(* its group is reached from an object the application holds, and a group   *)
(* of frozen objects is never larger than one component, so that freezing   *)
(* cannot keep alive what it only shared a mutable group with.              *)
NoLeak ==
  LET kept[n \in 0 .. Cardinality(Obj)] ==
        IF n = 0 THEN UNION {Peers(o) : o \in Owned}
        ELSE kept[n - 1] \cup UNION {Peers(p) : p \in Reached(heap, kept[n - 1])}
  IN /\ Live \subseteq kept[Cardinality(Obj)]
     /\ \A o, p \in Live : heap.frozen[o] /\ heap.group[o] = heap.group[p]
                           => p \in Reached(heap, {o})

(* A frozen object never refers to one that can still change.               *)
FrozenClosed ==
  \A o, p \in Live : heap.frozen[o] /\ heap.refs[o][p] > 0 => heap.frozen[p]

(* The circular list an object is on is its group, whichever way groups     *)
(* were joined and split.                                                   *)
RingsAreGroups == \A o \in Live : ToSet(Ring(heap, o)) = Peers(o)
=============================================================================
