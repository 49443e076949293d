---------------------------- MODULE MessageCalls -----------------------------
(***************************************************************************)
(* PHP code uses message objects: setters and containers, mergeFrom(), and *)
(* mergeFromString() with what serializeToString() made of another object  *)
(* (Any::pack() and Any::unpack() are these two calls on the object an Any *)
(* holds) or with what came from elsewhere.  A parse is one handler call   *)
(* after another; an error of the decoder ends it between two of them.     *)
(***************************************************************************)
EXTENDS Messages

NoCall == [stack |-> <<>>, rest |-> <<>>, target |-> Null, expect |-> Null]

(* The boxes of an object have names of their own: <<o, slot>>.             *)
MessagesInit ==
  /\ heap =
       LET none == [born |-> {}, full |-> FALSE, fault |-> "",
                    mem |-> [o \in Object |-> [s \in Slots |-> 0]],
                    case |-> [o \in Object |-> [s \in Oneofs |-> 0]],
                    prop |-> [o \in Object |-> DeclaredProperties],
                    box |-> [b \in {<<o, Slot(f)>> : o \in Object, f \in {g \in Field : IsList(g)}} |-> Empty]]
       IN FoldLeft(LAMBDA h, n : Create(h), none, [n \in 1 .. Cardinality(Roots) |-> n])
  /\ call = NoCall

Idle == call.stack = <<>> /\ heap.fault = ""
Bounded(h) == ~h.full /\ \A b \in DOMAIN h.box : Count(h, b) <= MaxElements

(* A call that is over when it returns.                                     *)
Returns(h) == Bounded(h) /\ heap' = Collect(h) /\ call' = NoCall

Box(o, f) == heap.prop[o][Slot(f)]
Values(type) == CASE type = "int32" -> Int32 [] type = "string" -> Text [] OTHER -> Given \cup {New}

(* The argument of a setter is made before the call.                        *)
Heap(v) == IF v = New THEN Create(heap) ELSE heap
Value(v) == IF v = New THEN NewObject(heap) ELSE v

-----------------------------------------------------------------------------
(* Setters of the generated classes, through message_set_property() and     *)
(* writeOneof().                                                            *)
Set(o, f, v) ==
  /\ Idle /\ o \in heap.born /\ ~IsList(f)
  /\ v = Null => f.type = "message" /\ ~(InOneof(f) /\ "null oneof" \in Careful)
  /\ Returns(LayoutSet(Heap(v), o, f, Value(v)))

(* checkRepeatedField() makes a container of an array.  A container that is  *)
(* given instead would be taken as it is: here no two messages share one.   *)
SetArray(o, f, array) ==
  /\ Idle /\ o \in heap.born /\ f.label = "repeated" /\ ToSet(array) \subseteq Values(f.type)
  /\ LET b == <<o, Slot(f)>>
         built == FoldLeft(LAMBDA h, v : AppendElement(h, b, v), [heap EXCEPT !.box[b] = Empty], array)
     IN Returns(LayoutSet(built, o, f, b))

(* $o->getF()[] = v, $o->getF()[i] = v, unset($o->getF()[last]).            *)
AppendTo(o, f, v) ==
  /\ Idle /\ o \in heap.born /\ f.label = "repeated"
  /\ ~(v = <<>> /\ "empty element" \in Careful)
  /\ Returns(AppendElement(Heap(v), Box(o, f), Value(v)))

SetElement(o, f, v) ==
  /\ Idle /\ o \in heap.born /\ f.label = "repeated" /\ ~(v = <<>> /\ "empty element" \in Careful)
  /\ \E i \in DOMAIN heap.box[Box(o, f)].elems : Returns(WriteAt(Heap(v), Box(o, f), i, Value(v)))

Unset(o, f) ==
  /\ Idle /\ o \in heap.born /\ f.label = "repeated" /\ Count(heap, Box(o, f)) > 0
  /\ Returns(UnsetLast(heap, Box(o, f)))

MapPut(o, f, k, v) ==
  Idle /\ o \in heap.born /\ f.label = "map" /\ Returns(MapSet(Heap(v), Box(o, f), k, Value(v)))

MapUnset(o, f, k) ==
  Idle /\ o \in heap.born /\ f.label = "map" /\ Returns(MapRemove(heap, Box(o, f), k))

(* Message::clear().                                                        *)
Clear(o) ==
  /\ Idle /\ o \in heap.born
  /\ Returns(LayoutInit([heap EXCEPT !.prop[o] = DeclaredProperties], o))

-----------------------------------------------------------------------------
(* What a message says, read through its getters.                           *)
RECURSIVE Tree(_, _)
Tree(h, o) ==
  LET Deep(v) == IF v \in Object THEN Tree(h, v) ELSE v
      Read(f) ==
        LET v == LayoutGet(h, o, f)
        IN CASE f.label = "map" -> [k \in DOMAIN h.box[v].elems |-> Deep(h.box[v].elems[k])]
             [] f.label = "repeated" ->
                  [i \in 1 .. Count(h, v) |->
                     IF i - 1 \in DOMAIN h.box[v].elems THEN Deep(h.box[v].elems[i - 1]) ELSE Garbage]
             [] OTHER -> Deep(v)
  IN [n \in {f.name : f \in Field} \cup Oneofs |->
        IF n \in Oneofs THEN h.case[o][n] ELSE Read(FieldOf(n))]

(* What merging b into a should say: fields that are set in b replace, and   *)
(* messages are merged, lists are joined and maps united.                   *)
RECURSIVE MergedTree(_, _)
MergedTree(a, b) ==
  LET Both(x, y) == IF y = Null THEN x ELSE IF x = Null THEN y ELSE MergedTree(x, y)
      Merged(f) ==
        LET x == a[f.name]
            y == b[f.name]
        IN CASE InOneof(f) ->
                  IF b[f.oneof] = 0 THEN x
                  ELSE IF b[f.oneof] # f.number THEN Default(f.type)
                  ELSE IF f.type = "message" THEN Both(x, y) ELSE y
             [] f.label = "map" -> y @@ x
             [] f.label = "repeated" -> x \o y
             [] f.type = "message" -> Both(x, y)
             [] OTHER -> IF y = Default(f.type) THEN x ELSE y
  IN [n \in DOMAIN a |-> IF n \in Oneofs THEN IF b[n] = 0 THEN a[n] ELSE b[n]
                         ELSE Merged(FieldOf(n))]

Expected(to, from) ==
  IF Cyclic(heap, to) \/ Cyclic(heap, from) \/ to \in Reach(heap, {from}) \/ from \in Reach(heap, {to})
  THEN Null ELSE MergedTree(Tree(heap, to), Tree(heap, from))

(* No element was removed from a list below o.                              *)
NeverUnset(o) ==
  \A p \in Reach(heap, {o}) : \A f \in Field :
    f.label = "repeated" => heap.box[Box(p, f)].next = Count(heap, Box(p, f))
SetOneofs(o) == {<<p, s>> \in Reach(heap, {o}) \X Oneofs : heap.case[p][s] # 0}

(* Message::mergeFrom().  Nothing limits its depth: a cycle has none.       *)
MergeFrom(to, from) ==
  /\ Idle /\ {to, from} \subseteq heap.born /\ ~Cyclic(heap, from) /\ to \notin Reach(heap, {from})
  /\ "unset" \in Careful => NeverUnset(to)
  /\ "oneof merge" \in Careful => SetOneofs(from) = {}
  /\ LET h == LayoutMerge(heap, from, to)
     IN /\ Bounded(h) /\ heap' = Collect(h)
        /\ call' = [NoCall EXCEPT !.target = to, !.expect = Expected(to, from)]

-----------------------------------------------------------------------------
(* Parsing.  A frame is the closure of the handlers of a message, or the    *)
(* map_parse_frame_t of a map entry.                                        *)
MessageFrame(o) == [kind |-> "message", object |-> o, box |-> Null, type |-> "", key |-> 0, value |-> Null]
\* Mutant of EntryFrame: the frame is not initialised.
EntryFrameStale(b, type) ==
  [kind |-> "entry", object |-> Null, box |-> b, type |-> type, key |-> 1, value |-> Default(type)]

EntryFrame(b, type) ==
  [kind |-> "entry", object |-> Null, box |-> b, type |-> type, key |-> 0, value |-> Default(type)]

Parse(to, events, expected) ==
  /\ Idle /\ to \in heap.born
  /\ "unset" \in Careful => NeverUnset(to)
  /\ "oneof parse" \in Careful => SetOneofs(to) = {}
  /\ heap' = heap
  /\ call' = [stack |-> <<MessageFrame(to)>>, rest |-> events, target |-> to, expect |-> expected]

Receive(to, wire) == Parse(to, wire, Null)

(* serializeToString() of one object for mergeFromString() of another: an   *)
(* error ends the script.                                                   *)
Transfer(to, from) ==
  /\ Idle /\ from \in heap.born
  /\ LET events == Encode(heap, from)
         failures == SelectSeq(events, LAMBDA e : e.op = "fail")
     IN IF failures = <<>> THEN Parse(to, events, Expected(to, from))
        ELSE heap' = Fault(heap, failures[1].value) /\ UNCHANGED call

Top == Last(call.stack)

(* stringdata_handler(): a piece replaces what there is.                    *)
StringData(pieces) == IF pieces = <<>> THEN <<>> ELSE Last(pieces)

IntHandler(h, o, f, v) ==
  IF IsList(f) THEN PushNative(h, h.prop[o][Slot(f)], v) ELSE LayoutSet(h, o, f, v)

TextHandler(h, o, f, pieces) ==
  IF ~IsList(f) THEN LayoutSet(h, o, f, StringData(pieces))
  ELSE LET b == h.prop[o][Slot(f)]
       IN FoldLeft(LAMBDA g, p : WriteAt(g, b, Count(g, b) - 1, p), PushNative(h, b, <<>>), pieces)

(* appendsubmsg_handler(), submsg_handler(), oneofsubmsg_handler(): the      *)
(* object whose fields come next.  In a oneof it is initialised every time. *)
StartSubmsg(h, o, f) ==
  LET s == Slot(f)
      made == Create(h)
      new == NewObject(h)
  IN IF IsList(f) THEN [heap |-> IF new = Null THEN made ELSE PushNative(made, h.prop[o][s], new), object |-> new]
     ELSE IF InOneof(f) THEN
       LET again == h.case[o][s] = f.number
           sub == IF again THEN h.prop[o][s] ELSE new
           g == IF again THEN h ELSE LayoutSet(made, o, f, new)
       IN [heap |-> IF sub = Null THEN IF g.full THEN g ELSE Fault(g, "null message") ELSE LayoutInit(g, sub),
           object |-> sub]
     ELSE IF h.prop[o][s] = Null THEN [heap |-> LayoutSet(made, o, f, new), object |-> new]
     ELSE [heap |-> h, object |-> h.prop[o][s]]

(* endmap_handler(), with map_slot_value(), which takes a message for granted. *)
EndEntry(h, frame) ==
  IF frame.type = "message" /\ frame.value = Null THEN Fault(h, "absent map value")
  ELSE MapSet(h, frame.box, frame.key, frame.value)

Handle(e, h, stack) == Bounded(h) /\ heap' = h /\ call' = [call EXCEPT !.rest = Tail(@), !.stack = stack]
SetTop(frame) == [call.stack EXCEPT ![Len(call.stack)] = frame]

InMessage ==
  /\ Top.kind = "message"
  /\ LET e == Head(call.rest)
         o == Top.object
         f == FieldOf(e.field)
     IN \/ e.op = "int" /\ Handle(e, IntHandler(heap, o, f, e.value), call.stack)
        \/ e.op = "text" /\ Handle(e, TextHandler(heap, o, f, e.value), call.stack)
        \/ /\ e.op = "start" /\ f.label = "map"
           /\ Handle(e, heap, Append(call.stack, EntryFrame(heap.prop[o][Slot(f)], f.type)))
        \/ /\ e.op = "start" /\ f.label # "map"
           /\ LET started == StartSubmsg(heap, o, f)
              IN Handle(e, started.heap, Append(call.stack, MessageFrame(started.object)))
        \/ e.op = "end" /\ Handle(e, heap, Front(call.stack))

InEntry ==
  /\ Top.kind = "entry"
  /\ LET e == Head(call.rest)
         Store(v) == IF e.field = "key" THEN [Top EXCEPT !.key = v] ELSE [Top EXCEPT !.value = v]
     IN \/ e.op = "int" /\ Handle(e, heap, SetTop(Store(e.value)))
        \/ e.op = "text" /\ Handle(e, heap, SetTop(Store(StringData(e.value))))
        \/ /\ e.op = "start"
           /\ LET new == Top.value = Null
                  o == IF new THEN NewObject(heap) ELSE Top.value
              IN Handle(e, IF new THEN Create(heap) ELSE heap, Append(SetTop(Store(o)), MessageFrame(o)))
        \/ e.op = "end" /\ Handle(e, EndEntry(heap, Top), Front(call.stack))

Parsing == call.stack # <<>> /\ heap.fault = ""
HandlerCall == Parsing /\ call.rest # <<>> /\ (InMessage \/ InEntry)
ParseEnds == Parsing /\ call.rest = <<>> /\ heap' = Collect(heap) /\ call' = [call EXCEPT !.stack = <<>>]
(* env_error_func(): an exception, and what was handled stays.              *)
ParseFails == Parsing /\ heap' = Collect(heap) /\ call' = NoCall

MessagesNext ==
  \/ \E o \in Object, f \in Field : (\E v \in Values(f.type) \cup {Null} : Set(o, f, v)) \/ Unset(o, f)
  \/ \E o \in Object, f \in Field, array \in Arrays : SetArray(o, f, array)
  \/ \E o \in Object, f \in Field : \E v \in Values(f.type) :
       AppendTo(o, f, v) \/ SetElement(o, f, v) \/ (\E k \in Key : MapPut(o, f, k, v))
  \/ \E o \in Object, f \in Field, k \in Key : MapUnset(o, f, k)
  \/ \E o \in Object : Clear(o) \/ (\E wire \in Wires : Receive(o, wire))
  \/ \E to, from \in Object : MergeFrom(to, from) \/ Transfer(to, from)
  \/ HandlerCall \/ ParseEnds \/ ParseFails

MessagesSpec == MessagesInit /\ [][MessagesNext]_<<heap, call>>

-----------------------------------------------------------------------------
(* Type correctness of the objects and of the parse.                        *)
MessagesTypeOK ==
  /\ heap.born \subseteq Object /\ Roots \subseteq heap.born
  /\ \A o \in Object : \A s \in Slots : heap.mem[o][s] \in Int32 \cup {0, Pointer}
  /\ \A o \in Object : \A s \in Oneofs : heap.case[o][s] \in {0} \cup {f.number : f \in {g \in Field : g.oneof = s}}
  /\ \A b \in DOMAIN heap.box : Count(heap, b) <= MaxElements
  /\ \A i \in DOMAIN call.stack : call.stack[i].kind = "message" => call.stack[i].object \in heap.born

(* No handler, getter or merge takes a number for a pointer or a string for  *)
(* a message; the one error of encoding is the limit of its depth.          *)
NoMessageFault == heap.fault \in {"", "nesting"}

(* The case of a oneof agrees with its shared memory and property, however  *)
(* setters, merges and parses, complete or not, followed one another.       *)
OneofsSound == \A o \in heap.born : \A f \in Field : IsSet(heap, o, f) => Native(heap, o, f) # Garbage

(* Elements of a list are found at 0, 1, ... count - 1, where encoders,      *)
(* iterators and merges look for them.                                      *)
ListsDense ==
  \A o \in heap.born : \A f \in Field :
    f.label = "repeated" => DOMAIN heap.box[Box(o, f)].elems = 0 .. Count(heap, Box(o, f)) - 1

(* mergeFrom() and mergeFromString(serializeToString()) say the same, and    *)
(* what merging means: round trips to a fresh object lose nothing.          *)
MergesAsDefined ==
  call.stack = <<>> /\ call.expect # Null /\ heap.fault = "" => Tree(heap, call.target) = call.expect

(* "sub-messages are copied by value" (generated_class_test.php:587): a     *)
(* merge does not make two messages share what they did not share before.   *)
MergeCopiesStep ==
  Idle /\ call'.stack = <<>> /\ call'.expect # Null =>
    \A to, from \in Roots :
      Reach(heap, {to}) \cap Reach(heap, {from}) = {} => Reach(heap', {to}) \cap Reach(heap', {from}) = {}
=============================================================================
