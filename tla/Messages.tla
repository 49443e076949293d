------------------------------- MODULE Messages -------------------------------
(***************************************************************************)
(* Message objects of the protobuf extension: the memory of a message, the *)
(* zvals of its properties, the containers of its repeated and map fields, *)
(* and what setters, mergeFrom(), serializeToString() and                  *)
(* mergeFromString() do to them (storage.c, encode_decode.c, message.c,    *)
(* array.c, map.c, type_check.c, as compiled for PHP 7).                   *)
(*                                                                         *)
(* There is one class: a field of type "message" holds objects of it.  A   *)
(* text is the sequence of its characters.  The decoder and the encoder of *)
(* upb stand between a wire and the handlers here; what they hand over is  *)
(* a sequence of events.                                                   *)
(***************************************************************************)
EXTENDS Integers, Sequences, FiniteSets, SequencesExt, TLC

CONSTANTS
  Objects,      \* the identities of objects, in the order they are created
  Roots,        \* the ones PHP variables hold from the start
  Given,        \* of these, what setters are given besides new objects
  Fields,       \* the fields of the class, in the order of its table
  Int32, Text,  \* the values of int32 and string fields
  Key,          \* the keys of map fields
  Arrays,       \* the arrays that are given for repeated fields
  Wires,        \* the messages other programs send, as events
  MaxNesting,   \* ENCODE_MAX_NESTING
  MaxElements,  \* bounds the containers
  Careful,      \* what the client of the run never does
  New,          \* a new object, as an argument
  Null,         \* the PHP null
  Pointer,      \* what memory holds for a field that is kept in a property
  Garbage       \* what is read when memory holds something else

VARIABLES heap, call

Object == ToSet(Objects)
Field == ToSet(Fields)
InOneof(f) == f.oneof # ""
IsList(f) == f.label # "single"
InProperty(f) == IsList(f) \/ f.type # "int32"

(* create_layout(): the fields of a oneof share their memory, their case    *)
(* and their property.                                                      *)
Slot(f) == IF InOneof(f) THEN f.oneof ELSE f.name
Slots == {Slot(f) : f \in Field}
Oneofs == {f.oneof : f \in Field} \ {""}
FieldOf(name) == CHOOSE f \in Field : f.name = name

Default(type) == CASE type = "int32" -> 0 [] type = "string" -> <<>> [] OTHER -> Null

-----------------------------------------------------------------------------
(* Containers.  A repeated field is a PHP array: next is where it appends.  *)
Empty == [elems |-> <<>>, next |-> 0]
Count(h, b) == Cardinality(DOMAIN h.box[b].elems)

WriteAt(h, b, i, v) ==
  [h EXCEPT !.box[b] = [elems |-> (i :> v) @@ @.elems, next |-> IF i < @.next THEN @.next ELSE i + 1]]

(* repeated_field_push_native() inserts where the array appends.            *)
PushNative(h, b, v) == WriteAt(h, b, h.box[b].next, v)

(* The setters insert behind the elements there are.                        *)
AppendElement(h, b, v) == WriteAt(h, b, Count(h, b), v)

(* Only the element at the end is removed; the array goes on behind it.     *)
UnsetLast(h, b) == [h EXCEPT !.box[b].elems = [i \in DOMAIN @ \ {Count(h, b) - 1} |-> @[i]]]

(* map_index_set() replaces what the map has for the key.                   *)
MapSet(h, b, k, v) == [h EXCEPT !.box[b].elems = (k :> v) @@ @]
MapRemove(h, b, k) == [h EXCEPT !.box[b].elems = [x \in DOMAIN @ \ {k} |-> @[x]]]

-----------------------------------------------------------------------------
(* layout_init(): memory is cleared, containers are made anew, and the       *)
(* properties of strings and messages are left alone.                       *)
LayoutInit(h, o) ==
  [h EXCEPT
     !.mem[o] = [s \in Slots |-> IF \E f \in Field : Slot(f) = s /\ ~InOneof(f) /\ InProperty(f)
                                 THEN Pointer ELSE 0],
     !.case[o] = [s \in Oneofs |-> 0],
     !.prop[o] = [s \in Slots |-> IF <<o, s>> \in DOMAIN h.box THEN <<o, s>> ELSE @[s]],
     !.box = [b \in DOMAIN @ |-> IF b[1] = o THEN Empty ELSE @[b]]]

(* object_properties_init(): what the class declares for its properties.    *)
DeclaredProperties ==
  [s \in Slots |-> IF \E f \in Field : Slot(f) = s /\ ~InOneof(f) /\ ~IsList(f) /\ f.type = "string"
                   THEN <<>> ELSE Null]

Fresh(h) == SelectInSeq(Objects, LAMBDA o : o \notin h.born)
NewObject(h) == IF Fresh(h) = 0 THEN Null ELSE Objects[Fresh(h)]

(* message_create() and custom_data_init().  A heap that is full belongs to *)
(* no state: the bound of the instance is reached.                          *)
Create(h) ==
  IF Fresh(h) = 0 THEN [h EXCEPT !.full = TRUE]
  ELSE LET o == NewObject(h)
       IN LayoutInit([h EXCEPT !.born = @ \cup {o}, !.prop[o] = DeclaredProperties], o)

Fault(h, why) == [h EXCEPT !.fault = why]
Stopped(h) == h.full \/ h.fault # ""

\* Mutant of LayoutSet: the memory is not made to point to the property.
LayoutSetUncached(h, o, f, v) ==
  LET s == Slot(f)
      g == IF InProperty(f) THEN [h EXCEPT !.prop[o][s] = v] ELSE [h EXCEPT !.mem[o][s] = v]
  IN IF InOneof(f) THEN [g EXCEPT !.case[o][s] = f.number] ELSE g

(* layout_set(), with native_slot_set(): v has passed the type checks of    *)
(* the setter.                                                              *)
LayoutSet(h, o, f, v) ==
  LET s == Slot(f)
      g == IF InProperty(f) THEN [h EXCEPT !.prop[o][s] = v, !.mem[o][s] = Pointer]
           ELSE [h EXCEPT !.mem[o][s] = v]
  IN IF InOneof(f) THEN [g EXCEPT !.case[o][s] = f.number] ELSE g

IsSet(h, o, f) == InOneof(f) => h.case[o][Slot(f)] = f.number

(* What the memory of a field holds, through value_memory() for the fields  *)
(* that are kept in a property.                                             *)
Native(h, o, f) ==
  LET m == h.mem[o][Slot(f)]
      p == h.prop[o][Slot(f)]
  IN IF ~InProperty(f) THEN IF m = Pointer THEN Garbage ELSE m
     ELSE IF m # Pointer THEN Garbage
     ELSE IF f.type = "string" /\ ~IsList(f) /\ p \in Object THEN Garbage
     ELSE IF f.type = "message" /\ ~IsList(f) /\ p \notin Object \cup {Null} THEN Garbage
     ELSE p

LayoutGet(h, o, f) == IF IsSet(h, o, f) THEN Native(h, o, f) ELSE Default(f.type)

(* The objects o leads to.                                                  *)
Children(h, o) ==
  UNION {LET v == Native(h, o, f)
         IN IF ~IsSet(h, o, f) \/ f.type # "message" THEN {}
            ELSE IF ~IsList(f) THEN {v} \cap Object
            ELSE {h.box[v].elems[i] : i \in DOMAIN h.box[v].elems} : f \in Field}
Reach(h, from) ==
  LET R[n \in 0 .. Len(Objects)] ==
        IF n = 0 THEN from
        ELSE LET before == R[n - 1] IN before \cup UNION {Children(h, o) : o \in before}
  IN R[Len(Objects)]
Cyclic(h, o) == \E x \in Reach(h, {o}) : x \in Reach(h, Children(h, x))

(* PHP frees what no variable leads to.                                     *)
Collect(h) ==
  LET kept == Reach(h, Roots)
  IN [h EXCEPT !.born = kept,
        !.mem = [o \in Object |-> IF o \in kept THEN @[o] ELSE [s \in Slots |-> 0]],
        !.case = [o \in Object |-> IF o \in kept THEN @[o] ELSE [s \in Oneofs |-> 0]],
        !.prop = [o \in Object |-> IF o \in kept THEN @[o] ELSE DeclaredProperties],
        !.box = [b \in DOMAIN @ |-> IF \E o \in kept : h.prop[o][b[2]] = b THEN @[b] ELSE Empty]]

-----------------------------------------------------------------------------
(* layout_merge() and native_slot_merge(), which skips what is default.     *)
RECURSIVE LayoutMerge(_, _, _)

(* A copy of an element is put at the end of a list, or under a map's key.   *)
CopyElement(h, b, k, f, v) ==
  LET Store(g, w) == IF f.label = "map" THEN MapSet(g, b, k, w) ELSE PushNative(g, b, w)
      o == NewObject(h)
      g == LayoutMerge(Create(h), v, o)
  IN IF f.type # "message" THEN Store(h, v) ELSE IF Stopped(g) THEN g ELSE Store(g, o)

MergeArray(h, from, to, f) ==
  FoldLeft(LAMBDA g, j :
             IF Stopped(g) THEN g
             ELSE IF j - 1 \notin DOMAIN g.box[from].elems THEN Fault(g, "missing element")
             ELSE CopyElement(g, to, 0, f, g.box[from].elems[j - 1]),
           h, [j \in 1 .. Count(h, from) |-> j])

MergeMap(h, from, to, f) ==
  FoldLeft(LAMBDA g, k : IF Stopped(g) THEN g ELSE CopyElement(g, to, k, f, g.box[from].elems[k]),
           h, SetToSeq(DOMAIN h.box[from].elems))

\* Mutant of NativeSlotMerge: the submessage is shared.
NativeSlotMergeShares(h, from, to, f) ==
  LET v == Native(h, from, f)
      s == Slot(f)
  IN IF v = Default(f.type) THEN h
     ELSE IF f.type = "int32" THEN [h EXCEPT !.mem[to][s] = v]
     ELSE [h EXCEPT !.prop[to][s] = v]

NativeSlotMerge(h, from, to, f) ==
  LET v == Native(h, from, f)
      s == Slot(f)
      w == Native(h, to, f)
  IN IF v = Garbage THEN Fault(h, "garbage")
     ELSE IF v = Default(f.type) THEN h
     ELSE IF f.type = "int32" THEN [h EXCEPT !.mem[to][s] = v]
     ELSE IF f.type = "string" THEN [h EXCEPT !.prop[to][s] = v]
     ELSE IF w = Garbage THEN Fault(h, "garbage")
     ELSE IF w # Null THEN LayoutMerge(h, v, w)
     ELSE LET o == NewObject(h)
          IN LayoutMerge([Create(h) EXCEPT !.prop[to][s] = o], v, o)

MergeField(h, from, to, f) ==
  LET s == Slot(f)
      g == IF ~InOneof(f) THEN h
           ELSE [h EXCEPT !.case[to][s] = f.number, !.mem[to][s] = IF InProperty(f) THEN Pointer ELSE @]
  IN IF ~IsSet(h, from, f) THEN h
     ELSE IF f.label = "map" THEN MergeMap(g, g.prop[from][s], g.prop[to][s], f)
     ELSE IF f.label = "repeated" THEN MergeArray(g, g.prop[from][s], g.prop[to][s], f)
     ELSE NativeSlotMerge(g, from, to, f)

LayoutMerge(h, from, to) ==
  FoldLeft(LAMBDA g, f : IF Stopped(g) THEN g ELSE MergeField(g, from, to, f), h, Fields)

-----------------------------------------------------------------------------
(* putmsg() and its like: the events of a message.                          *)
Event(op, f, v) == [op |-> op, field |-> f, value |-> v]
Failed(why) == <<Event("fail", "", why)>>

(* putstr(), and the text of one piece that the encoder makes of it.        *)
PutText(name, t) == <<Event("text", name, IF t = <<>> THEN <<>> ELSE <<t>>)>>
PutInt(name, v) == <<Event("int", name, v)>>
PutSub(name, events) == <<Event("start", name, 0)>> \o events \o <<Event("end", name, 0)>>

(* putrawmsg() with its depth.                                              *)
Encode(h, root) ==
  LET Put[o \in Object, depth \in 0 .. MaxNesting + 2] ==
        LET \* put_optional_value(): a default is not written.
            Optional(name, type, v, d) ==
              IF type = "message" THEN PutSub(name, Put[v, d + 1])
              ELSE IF v = Default(type) THEN <<>>
              ELSE IF type = "int32" THEN PutInt(name, v) ELSE PutText(name, v)
            Element(f, b, i) ==
              IF i \notin DOMAIN h.box[b].elems THEN Failed("missing element")
              ELSE LET v == h.box[b].elems[i]
                   IN IF f.type = "int32" THEN PutInt(f.name, v)
                      ELSE Optional(f.name, f.type, v, depth)
            Entry(f, b, k) ==
              PutSub(f.name, Optional("key", "int32", k, depth)
                             \o Optional("value", f.type, h.box[b].elems[k], depth + 1))
            Single(f, v) ==
              IF v = Garbage THEN Failed("garbage")
              ELSE IF v = Null \/ (~InOneof(f) /\ v = Default(f.type)) THEN <<>>
              ELSE IF f.type = "int32" THEN PutInt(f.name, v)
              ELSE IF f.type = "string" THEN PutText(f.name, v)
              ELSE PutSub(f.name, Put[v, depth + 1])
            Of(f) ==
              LET v == Native(h, o, f)
              IN IF ~IsSet(h, o, f) THEN <<>>
                 ELSE IF f.label = "map" THEN
                   FlattenSeq([n \in 1 .. Count(h, v) |-> Entry(f, v, SetToSeq(DOMAIN h.box[v].elems)[n])])
                 ELSE IF f.label = "repeated" THEN
                   FlattenSeq([n \in 1 .. Count(h, v) |-> Element(f, v, n - 1)])
                 ELSE Single(f, v)
        IN IF depth > MaxNesting THEN Failed("nesting")
           ELSE FlattenSeq([n \in DOMAIN Fields |-> Of(Fields[n])])
  IN Put[root, 0]
=============================================================================
