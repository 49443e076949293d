-------------------------------- MODULE MCJson --------------------------------
(* Small messages put as JSON and parsed again, in one buffer and in three.   *)
EXTENDS Integers, Sequences, SequencesExt, TLC

CONSTANTS NoValue

VARIABLES message, preserve, calls, printer, js

jsonVars == <<message, preserve, calls, printer, js>>

\* Two enum values have names; one field's name has an underscore.
JsonField(name, type, label, role, sub) == [name |-> name, type |-> type, label |-> label, role |-> role, sub |-> sub]
Plain(c, type, label) == JsonField(<<c>>, type, label, "field", "M")
InEntry(type, role) == JsonField(IF role = "key" THEN <<107>> ELSE <<118>>, type, "one", role, "M")
JsonFields ==
  [i |-> JsonField(<<97, 95, 98>>, "int", "one", "field", "M"), t |-> Plain(116, "bool", "one"),
   e |-> Plain(101, "enum", "one"), s |-> Plain(115, "string", "one"), b |-> Plain(98, "bytes", "one"),
   o |-> Plain(111, "string", "oneof"), q |-> Plain(113, "int", "oneof"), m |-> Plain(109, "message", "one"),
   l |-> Plain(108, "int", "list"), w |-> Plain(119, "string", "list"), x |-> Plain(120, "bytes", "list"),
   n |-> Plain(110, "message", "list"), y |-> Plain(121, "enum", "list"),
   p |-> JsonField(<<112>>, "message", "map", "field", "P"), pk |-> InEntry("string", "key"), pv |-> InEntry("int", "value"),
   g |-> JsonField(<<103>>, "message", "map", "field", "G"), gk |-> InEntry("int", "key"), gv |-> InEntry("message", "value"),
   h |-> JsonField(<<104>>, "message", "map", "field", "H"), hk |-> InEntry("bool", "key"), hv |-> InEntry("bytes", "value")]
JsonFieldsOf ==
  [M |-> <<"i", "t", "e", "s", "b", "o", "q", "m", "l", "w", "x", "n", "y", "p", "g", "h">>,
   P |-> <<"pk", "pv">>, G |-> <<"gk", "gv">>, H |-> <<"hk", "hv">>]
JsonEnum == 1 :> <<88, 88>> @@ 2 :> <<34>>

DefaultOf(f) ==
  CASE JsonFields[f].label \in {"list", "map"} -> <<>>
    [] JsonFields[f].label = "oneof" \/ JsonFields[f].type = "message" -> NoValue
    [] JsonFields[f].type \in {"string", "bytes"} -> <<>>
    [] JsonFields[f].type = "bool" -> FALSE
    [] OTHER -> 0
EmptyMessage == [f \in Range(JsonFieldsOf["M"]) |-> DefaultOf(f)]
With(m) == m @@ EmptyMessage
KeyValue(k, v) == [key |-> k, value |-> v]

\* Characters that need no escape, have a short one, or only a number.
Texts == {<<97>>, <<34, 97, 10>>, <<97, 98, 31>>, <<92, 92>>, <<127, 8, 47>>}
Shallow ==
  {With("i" :> v) : v \in {0, 7, -10, 99}} \cup {With("t" :> TRUE)} \cup {With("e" :> v) : v \in {1, 2, 3}}
    \cup {With("s" :> v) : v \in Texts} \cup {With("b" :> v) : v \in {<<255>>, <<0, 251>>, <<1, 2, 239>>, <<9, 8, 7, 6>>}}
    \cup {With("o" :> v) : v \in {<<>>, <<34>>}} \cup {With("q" :> v) : v \in {0, 1}}
Lists ==
  {With("l" :> v) : v \in {<<0>>, <<5, 0, 50>>}} \cup {With("w" :> v) : v \in {<<<<97>>, <<34>>>>}}
    \cup {With("x" :> v) : v \in {<<<<0>>, <<1, 1, 1>>>>}} \cup {With("y" :> v) : v \in {<<1, 3>>}}
Maps ==
  {With("p" :> v) : v \in {<<KeyValue(<<97>>, 1)>>, <<KeyValue(<<34>>, 1), KeyValue(<<98>>, 2)>>}}
    \cup {With("h" :> <<KeyValue(TRUE, <<1, 2>>)>>)}
Both(m, n) == [f \in DOMAIN m |-> IF m[f] = DefaultOf(f) THEN n[f] ELSE m[f]]
Holding(m) == {With("m" :> m), With("n" :> <<m, EmptyMessage>>), With("g" :> <<KeyValue(3, m), KeyValue(-4, EmptyMessage)>>)}
Some == {EmptyMessage, With("i" :> 7), With("s" :> <<34, 97, 10>>), With("l" :> <<5, 6>>), With("y" :> <<1>>)}
Deep == UNION {Holding(m) : m \in Some}
Deeper == UNION {Holding(m) : m \in Deep}
Deepest == UNION {Holding(m) : m \in {With("n" :> <<With("l" :> <<5>>)>>), With("m" :> With("m" :> EmptyMessage)),
                                       With("n" :> <<With("n" :> <<With("l" :> <<1>>)>>)>>)}}
Printed ==
  {With("n" :> [i \in 1..9 |-> EmptyMessage])} \cup Shallow \cup Lists \cup Maps \cup Deep \cup Deeper \cup Deepest
    \cup {Both(With("i" :> 7), m) : m \in Lists \cup Maps \cup Deep} \cup {Both(m, With("y" :> <<1>>)) : m \in Maps \cup Deep}
InPieces ==
  {With("s" :> <<97, 34, 98>>), With("s" :> <<31>>), With("i" :> -10), With("b" :> <<1, 2, 3, 4>>), With("y" :> <<1>>),
   With("p" :> <<KeyValue(<<97, 34>>, 12)>>), With("n" :> <<With("t" :> TRUE)>>)}

\* Not JSON: no brackets, a member without a name, a value or a colon, two
\* commas, numbers that stop, words misspelt; JSON for no message of this
\* type: unknown names, values of the wrong kind, base64 that is none.
Object(text) == <<123>> \o text \o <<125>>
Member(c, value) == Object(<<34, c, 34, 58>> \o value)
NotJson ==
  {<<97>>, Object(<<44>>), Object(<<49>>), Object(<<34, 115, 34, 125>>), Member(115, <<>>), Member(105, <<44>>),
   Member(108, <<91, 49, 44, 44, 49, 93>>), Member(108, <<91, 49, 44, 93>>), Member(113, <<45>>), Member(113, <<49, 46>>),
   Member(113, <<48, 49>>), Member(116, <<116, 114, 117, 117>>), Member(115, <<34, 92, 97, 34>>),
   Member(115, <<34, 92, 117, 48, 48, 103, 48, 34>>), Member(108, <<91, 49, 125>>), Object(<<>>) \o <<125>>,
   Member(113, <<49, 44>>)}
NotMessage ==
  {Member(122, <<49>>), Member(116, <<34, 34>>), Member(113, <<116, 114, 117, 101>>), Member(113, <<91, 49, 93>>),
   Member(113, <<123, 125>>), Member(113, <<49, 46, 53>>), Member(113, <<49, 101, 51>>), Member(113, <<52, 48, 48, 48>>),
   Member(101, <<34, 90, 34>>), Member(98, <<34, 65, 65, 61, 34>>), Member(98, <<34, 65, 65, 65, 33, 34>>),
   Member(98, <<34, 65, 61, 65, 61, 34>>)}

Json == INSTANCE JsonParser
          WITH Field <- JsonFields, FieldsOf <- JsonFieldsOf, EnumName <- JsonEnum, MsgType <- "M",
               PrintedMessages <- Printed, PreserveNames <- BOOLEAN, MaxNested <- 2, MaxHandlerDepth <- 3, Padding <- 4,
               DataSize <- 8, OtherTexts <- NotJson \cup NotMessage, MaxJsonDepth <- 5, FirstRoom <- 2, Int32Max <- 999,
               MemoryFails <- FALSE, MaxBuffers <- 1, BuffersKept <- FALSE
Pieces == INSTANCE JsonParser
          WITH Field <- JsonFields, FieldsOf <- JsonFieldsOf, EnumName <- JsonEnum, MsgType <- "M",
               PrintedMessages <- InPieces, PreserveNames <- {TRUE}, MaxNested <- 2, MaxHandlerDepth <- 3, Padding <- 4,
               DataSize <- 8, OtherTexts <- {}, MaxJsonDepth <- 5, FirstRoom <- 2, Int32Max <- 999,
               MemoryFails <- TRUE, MaxBuffers <- 3, BuffersKept <- TRUE
=============================================================================
