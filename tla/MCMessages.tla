----------------------------- MODULE MCMessages ------------------------------
(* Small classes of messages: part says which fields the class has.         *)
EXTENDS Integers, Sequences, TLC

CONSTANTS Part, Careful, New, Null, Pointer, Garbage, r1, r2, s1, s2

VARIABLES part, heap, call

F(name, number, type, label, oneof) ==
  [name |-> name, number |-> number, type |-> type, label |-> label, oneof |-> oneof]
X == <<"x">>
Ev(op, f, v) == [op |-> op, field |-> f, value |-> v]

\* A oneof of three kinds.
OneofFields ==
  <<F("i", 1, "int32", "single", "o"), F("t", 2, "string", "single", "o"), F("m", 3, "message", "single", "o")>>
\* Singular fields, and a submessage given twice.
NestedFields ==
  <<F("a", 1, "int32", "single", ""), F("m", 3, "message", "single", "")>>
NestedWires ==
  {<<Ev("start", "m", 0), Ev("int", "a", 1), Ev("end", "m", 0),
     Ev("start", "m", 0), Ev("end", "m", 0), Ev("int", "a", 0)>>}
\* A list of strings; a list of messages.
TextsFields == <<F("r", 1, "string", "repeated", ""), F("s", 2, "string", "single", "")>>
TextsArrays == {<<>>, <<X, <<"y">>>>}
ListFields == <<F("a", 1, "int32", "single", ""), F("q", 2, "message", "repeated", "")>>
ListArrays == {<<>>}
\* A map to messages, whose entries come in any order.
MapFields == <<F("a", 1, "int32", "single", ""), F("k", 2, "message", "map", "")>>
MapWires ==
  {<<Ev("start", "k", 0), Ev("start", "value", 0), Ev("int", "a", 1), Ev("end", "value", 0),
     Ev("int", "key", 1), Ev("start", "value", 0), Ev("end", "value", 0), Ev("end", "k", 0)>>}

OneofPart == INSTANCE MessageCalls
  WITH Objects <- <<r1, r2, s1, s2>>, Roots <- {r1, r2}, Given <- {r1, r2}, Fields <- OneofFields, Int32 <- {0, 1},
       Text <- {X}, Key <- {}, Arrays <- {}, Wires <- {}, MaxNesting <- 1, MaxElements <- 0
NestedPart == INSTANCE MessageCalls
  WITH Objects <- <<r1, r2, s1, s2>>, Roots <- {r1, r2}, Given <- {}, Fields <- NestedFields, Int32 <- {1},
       Text <- {}, Key <- {}, Arrays <- {}, Wires <- NestedWires, MaxNesting <- 1, MaxElements <- 0
TextsPart == INSTANCE MessageCalls
  WITH Objects <- <<r1, r2>>, Roots <- {r1, r2}, Given <- {}, Fields <- TextsFields, Int32 <- {},
       Text <- {<<>>, X, <<"y">>}, Key <- {}, Arrays <- TextsArrays, Wires <- {}, MaxNesting <- 0, MaxElements <- 3
ListPart == INSTANCE MessageCalls
  WITH Objects <- <<r1, r2, s1, s2>>, Roots <- {r1, r2}, Given <- {}, Fields <- ListFields, Int32 <- {1},
       Text <- {}, Key <- {}, Arrays <- ListArrays, Wires <- {}, MaxNesting <- 1, MaxElements <- 2
MapPart == INSTANCE MessageCalls
  WITH Objects <- <<r1, r2, s1, s2>>, Roots <- {r1, r2}, Given <- {}, Fields <- MapFields, Int32 <- {1},
       Text <- {}, Key <- {0, 1}, Arrays <- {}, Wires <- MapWires, MaxNesting <- 2, MaxElements <- 2

Init ==
  /\ part \in Part
  /\ CASE part = "oneof" -> OneofPart!MessagesInit
       [] part = "nested" -> NestedPart!MessagesInit
       [] part = "texts" -> TextsPart!MessagesInit
       [] part = "lists" -> ListPart!MessagesInit
       [] part = "maps" -> MapPart!MessagesInit
Next ==
  /\ UNCHANGED part
  /\ \/ part = "oneof" /\ OneofPart!MessagesNext
     \/ part = "nested" /\ NestedPart!MessagesNext
     \/ part = "texts" /\ TextsPart!MessagesNext
     \/ part = "lists" /\ ListPart!MessagesNext
     \/ part = "maps" /\ MapPart!MessagesNext
MessageSymmetry == Permutations({r1, r2})
Spec == Init /\ [][Next]_<<part, heap, call>>

(* After any setters, merges and parses, also those that failed halfway: the *)
(* case of a oneof, its memory and its property tell the same story, a list *)
(* has its elements at 0, 1, ... count - 1, and no handler, getter or       *)
(* encoder takes a value for what it is not or misses an element.           *)
Sound ==
  /\ part = "oneof" => OneofPart!MessagesTypeOK /\ OneofPart!NoMessageFault /\ OneofPart!OneofsSound
  /\ part = "nested" => NestedPart!MessagesTypeOK /\ NestedPart!NoMessageFault
  /\ part = "texts" => TextsPart!MessagesTypeOK /\ TextsPart!NoMessageFault /\ TextsPart!ListsDense
  /\ part = "lists" => ListPart!MessagesTypeOK /\ ListPart!NoMessageFault /\ ListPart!ListsDense
  /\ part = "maps" => MapPart!MessagesTypeOK /\ MapPart!NoMessageFault

(* After mergeFrom(), and after mergeFromString() of what serializeToString() *)
(* wrote, a message says what merging the two should give.                  *)
Merges ==
  /\ part = "oneof" => OneofPart!MergesAsDefined
  /\ part = "nested" => NestedPart!MergesAsDefined
  /\ part = "texts" => TextsPart!MergesAsDefined
  /\ part = "lists" => ListPart!MergesAsDefined
  /\ part = "maps" => MapPart!MergesAsDefined

(* mergeFrom() copies submessages by value: messages that shared nothing    *)
(* share nothing afterwards.                                                *)
Copies ==
  [][/\ part = "nested" => NestedPart!MergeCopiesStep
     /\ part = "lists" => ListPart!MergeCopiesStep]_<<part, heap, call>>
=============================================================================
