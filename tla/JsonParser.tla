------------------------------ MODULE JsonParser ------------------------------
(* The JSON parser of upb.c, fed with what the printer put or with other      *)
(* text, in buffers cut anywhere.  A machine that Ragel generated reads one   *)
(* character at a time and calls back; a stack of its own returns from        *)
(* values, strings and numbers; a second stack holds the messages that are    *)
(* open.  What it calls are the handlers of the message.                      *)
EXTENDS JsonPrinter

CONSTANTS
  OtherTexts,     \* texts to parse besides the printer's, none of them JSON
  MaxJsonDepth,   \* UPB_JSON_MAX_DEPTH, 64 in the code
  FirstRoom,      \* the first size of the accumulate buffer, 128 in the code
  Int32Max,       \* INT32_MAX
  MemoryFails,    \* whether upb_env_realloc() may fail
  MaxBuffers,     \* bound of the model: buffers of a text; one in mergeFromJsonString()
  BuffersKept     \* the caller keeps a buffer while it parses the next

VARIABLE js       \* the parser and its input

parserVars == <<printerVars, js>>

(***************************************************************************)
(* The machine: state -> the transitions, [on, to, do], the first of which    *)
(* that is on the character is taken; without one the state is 0.            *)

On(on, to, do) == [on |-> on, to |-> to, do |-> do]
AnyChar == 0..255
Space == {32} \cup 9..13
Digit == 48..57
Hex == Digit \cup 65..70 \cup 97..102
Exponent == {69, 101}
Closing(kind) == {Brackets[kind][2]}
EndOf == Closing("object")

Row(a, rows) == [s \in a..(a + Len(rows) - 1) |-> rows[s - a + 1]]
\* An object whose brace was read, from state a on.
ObjectRows(a, end) == Row(a, <<
  <<On(Space, a + 1, <<"start_object">>), On({Quote}, a + 2, <<"start_object", "start_member", "string">>),
    On(EndOf, end, <<"start_object", "end_object">>)>>,
  <<On(Space, a + 1, <<>>), On({Quote}, a + 2, <<"start_member", "string">>), On(EndOf, end, <<"end_object">>)>>,
  <<On({Quote}, a + 3, <<"end_membername">>)>>,
  <<On(Space, a + 3, <<>>), On({Colon}, a + 4, <<>>)>>,
  <<On(Space, a + 4, <<>>), On({93, 125}, 0, <<>>), On(AnyChar, a + 5, <<"value">>)>>,
  <<On(Space, a + 6, <<"end_member">>), On({Comma}, a + 7, <<"end_member">>),
    On(EndOf, end, <<"end_member", "end_object">>)>>,
  <<On(Space, a + 6, <<>>), On({Comma}, a + 7, <<>>), On(EndOf, end, <<"end_object">>)>>,
  <<On(Space, a + 7, <<>>), On({Quote}, a + 2, <<"start_member", "string">>)>> >>)
\* What is left of a word, from state a on.
WordRows(a, word, do) ==
  Row(a, [i \in 1..(Len(word) + 1) |-> IF i > Len(word) THEN <<On(AnyChar, 59, do)>> ELSE <<On({word[i]}, a + i, <<>>)>>])

NumberRows == Row(10, <<
  <<On({45}, 11, <<>>), On({48}, 12, <<>>), On(49..57, 18, <<>>)>>,
  <<On({48}, 12, <<>>), On(49..57, 18, <<>>)>>,
  <<On({46}, 13, <<>>), On(Exponent, 15, <<>>), On(AnyChar, 57, <<"return">>)>>,
  <<On(Digit, 14, <<>>)>>,
  <<On(Exponent, 15, <<>>), On(Digit, 14, <<>>), On(AnyChar, 57, <<"return">>)>>,
  <<On({43, 45}, 16, <<>>), On(Digit, 17, <<>>)>>,
  <<On(Digit, 17, <<>>)>>,
  <<On(Digit, 17, <<>>), On(AnyChar, 57, <<"return">>)>>,
  <<On({46}, 13, <<>>), On(Exponent, 15, <<>>), On(Digit, 18, <<>>), On(AnyChar, 57, <<"return">>)>> >>)
StringRows == Row(19, <<
  <<On({Quote}, 58, <<"return">>), On({Backslash}, 21, <<>>), On(AnyChar, 20, <<"start_text">>)>>,
  <<On({Quote}, 58, <<"end_text", "return">>), On({Backslash}, 21, <<"end_text">>), On(AnyChar, 20, <<>>)>>,
  <<On({34, 47, 92, 98, 102, 110, 114, 116}, 19, <<"escape">>), On({117}, 22, <<>>)>>,
  <<On(Hex, 23, <<"start_hex", "hexdigit">>)>>,
  <<On(Hex, 24, <<"hexdigit">>)>>, <<On(Hex, 25, <<"hexdigit">>)>>, <<On(Hex, 26, <<"hexdigit">>)>>,
  <<On({Quote}, 58, <<"end_hex", "return">>), On({Backslash}, 21, <<"end_hex">>),
    On(AnyChar, 20, <<"end_hex", "start_text">>)>> >>)
ValueRows == Row(27, <<
  <<On({Quote}, 28, <<"start_stringval", "string">>), On({45} \cup Digit, 30, <<"start_number", "number">>),
    On({91}, 31, <<"start_array">>), On({102}, 34, <<>>), On({110}, 39, <<>>), On({116}, 43, <<>>),
    On({123}, 47, <<"start_subobject">>)>>,
  <<On({Quote}, 29, <<"end_stringval">>)>>,
  <<On(AnyChar, 59, <<"return">>)>>,
  <<On(AnyChar, 59, <<"end_number", "return">>)>>,
  <<On(Space, 31, <<>>), On(Closing("array"), 29, <<"end_array">>), On(EndOf, 0, <<>>), On(AnyChar, 32, <<"value">>)>>,
  <<On(Space, 32, <<>>), On({Comma}, 33, <<>>), On(Closing("array"), 29, <<"end_array">>)>>,
  <<On(Space, 33, <<>>), On({93, 125}, 0, <<>>), On(AnyChar, 32, <<"value">>)>> >>)
SpaceRows == Row(1, <<<<On(Space, 1, <<>>), On({123}, 2, <<>>)>>>>)
Machine ==
  SpaceRows @@ ObjectRows(2, 56) @@ NumberRows @@ StringRows @@ ValueRows
    @@ WordRows(34, <<97, 108, 115, 101>>, <<"put_false", "return">>)
    @@ WordRows(39, <<117, 108, 108>>, <<"return">>)
    @@ WordRows(43, <<114, 117, 101>>, <<"put_true", "return">>)
    @@ ObjectRows(47, 55) @@ Row(55, <<<<On(AnyChar, 59, <<"end_subobject", "return">>)>>, <<On(Space, 56, <<>>)>>>>)
FirstOn(rows, c) ==
  LET on == {i \in DOMAIN rows : c \in rows[i].on} IN IF on = {} THEN On(AnyChar, 0, <<>>) ELSE rows[Min(on)]
Transition(s, c) == FirstOn(IF s \in DOMAIN Machine THEN Machine[s] ELSE <<>>, c)

(***************************************************************************)
(* The parser's functions.  j.stop is that one returned false, j.ok that no   *)
(* error was reported; j.fault that an assertion did not hold, or that a      *)
(* stack or a buffer was used that is not there.                             *)

Fail(j) == [j EXCEPT !.ok = FALSE, !.stop = TRUE]
Check(j, holds) == [j EXCEPT !.fault = @ \/ ~holds]
Put(j, call) == [j EXCEPT !.out = Append(@, call)]
Top(j) == Last(j.frames)
SetField(j, f) == [j EXCEPT !.frames[Len(j.frames)].f = f]
HasRoom(j) == Len(j.frames) < MaxJsonDepth
PushFrame(j, type, f, isMap, mapField) ==
  [j EXCEPT !.frames = Append(@, [type |-> type, f |-> f, isMap |-> isMap, isEntry |-> FALSE, mapField |-> mapField])]
PopFrame(j) == [Check(j, Len(j.frames) > 1) EXCEPT !.frames = Front(@)]

(***************************************************************************)
(* The accumulate buffer: nothing, a part of the input, or a copy.            *)

NothingAccumulated == [from |-> "none", text |-> <<>>, buffer |-> 0]
Grown(room, need) ==
  FoldLeft(LAMBDA n, k : IF n < need THEN 2 * n ELSE n, IF room < FirstRoom THEN FirstRoom ELSE room,
           [k \in 1..8 |-> k])
AccumulateAppend(j, s, canAlias, memory) ==
  LET need == Len(j.acc.text) + Len(s)
      stale == j.acc.from = "alias" /\ j.acc.buffer # j.begin /\ ~BuffersKept
  IN IF j.acc.from = "none" /\ canAlias THEN [j EXCEPT !.acc = [from |-> "alias", text |-> s, buffer |-> j.begin]]
     ELSE IF need > j.room /\ ~memory THEN [Fail(j) EXCEPT !.denied = TRUE]
     ELSE [Check(j, ~stale) EXCEPT !.room = IF need > @ THEN Grown(@, need) ELSE @,
                                    !.acc = [from |-> "copy", text |-> @.text \o s, buffer |-> 0]]

StartMultipart(j, mode) ==
  [Check(j, j.acc = NothingAccumulated /\ j.mode = "inactive") EXCEPT !.mode = mode]
MultipartText(j, s, canAlias, memory) ==
  CASE j.mode = "inactive" -> Fail(j)
    [] j.mode = "accumulate" -> AccumulateAppend(j, s, canAlias, memory)
    [] OTHER -> Put(j, <<"string", Top(j).f, s>>)

MultipartEnd(j) == [Check(j, j.mode # "inactive") EXCEPT !.mode = "inactive", !.acc = NothingAccumulated]

(***************************************************************************)
(* Capturing the input; a capture goes on in the next buffer.                 *)

NoCapture == 0
Suspended == -1
CaptureBegin(j) == [Check(j, j.mode # "inactive" /\ j.capture = NoCapture) EXCEPT !.capture = j.at]
Captured(j) == SubSeq(j.text, j.capture, j.at - 1)
CaptureEnd(j, memory) ==
  LET k == MultipartText(Check(j, j.capture > 0), Captured(j), TRUE, memory)
  IN IF k.stop THEN k ELSE [k EXCEPT !.capture = NoCapture]

\* Mutant of CaptureSuspend: what the buffer holds of the capture is not taken.
CaptureSuspendLoses(j, memory) == IF j.capture = NoCapture THEN j ELSE [j EXCEPT !.capture = Suspended]

\* Without memory the capture is given back to the caller.
CaptureSuspend(j, memory) ==
  LET k == MultipartText(j, Captured(j), FALSE, memory)
  IN IF j.capture = NoCapture THEN j
     ELSE IF k.stop THEN [k EXCEPT !.at = k.capture] ELSE [k EXCEPT !.capture = Suspended]

(***************************************************************************)
(* Strings.                                                                  *)

EscapeChar(c) ==
  CASE c = 114 -> 13 [] c = 116 -> 9 [] c = 110 -> 10 [] c = 102 -> 12 [] c = 98 -> 8 [] OTHER -> c
HexValue(c) == CASE c \in Digit -> c - 48 [] c \in 97..102 -> c - 87 [] OTHER -> c - 55
Utf8(point) ==
  CASE point <= 127 -> <<point>>
    [] point \in 128..2047 -> <<192 + point \div 64, 128 + (point % 64)>>
    [] OTHER -> <<224 + point \div 4096, 128 + ((point \div 64) % 64), 128 + (point % 64)>>

\* What Number() gives for text that strtol() does not take to its end.
NotANumber == Int32Max + 1
Number(text) ==
  LET negative == text # <<>> /\ Head(text) = 45
      digits == IF negative THEN Tail(text) ELSE text
      value == FoldLeft(LAMBDA n, c : IF n > Int32Max THEN n ELSE 10 * n + (c - 48), 0, digits)
  IN IF digits = <<>> \/ (\E i \in DOMAIN digits : digits[i] \notin Digit) THEN NotANumber
     ELSE IF negative THEN -value ELSE value
\* A number for a field that takes none is dropped; errno was 0 before.
ParseNumber(j, memory) ==
  LET k == MultipartText(j, <<0>>, FALSE, memory)
      value == Number(Front(k.acc.text))
      f == Top(j).f
  IN IF k.stop THEN k
     ELSE IF Field[f].type \notin {"int", "enum"} THEN MultipartEnd(Check(k, FALSE))
     ELSE IF value > Int32Max \/ value < -Int32Max - 1 THEN MultipartEnd(Fail(k))
     ELSE MultipartEnd(Put(k, <<"value", f, value>>))

PutBool(j, b) ==
  IF Field[Top(j).f].type = "bool" THEN Put(j, <<"value", Top(j).f, b>>) ELSE Fail(j)

Base64Code == [c \in {Base64Char(n) : n \in 0..63} |-> CHOOSE n \in 0..63 : Base64Char(n) = c]
\* base64_push(): what follows a group with padding is not looked at.
Base64Push(j, text) ==
  LET f == Top(j).f
      Group(a, k) ==
        LET g == SubSeq(text, 4 * k - 3, Min({4 * k, Len(text)}))
            v == [i \in 1..4 |-> IF i <= Len(g) /\ g[i] \in DOMAIN Base64Code THEN Base64Code[g[i]] ELSE 0]
            known == {i \in DOMAIN g : g[i] \in DOMAIN Base64Code}
            pads == {i \in DOMAIN g : g[i] = Pad}
            bytes == <<4 * v[1] + v[2] \div 16, (v[2] % 16) * 16 + v[3] \div 4, (v[3] % 4) * 64 + v[4]>>
        IN CASE a.stop \/ a.padded -> a
             [] ~(a.stop \/ a.padded) /\ known = 1..4 -> Put(a, <<"string", f, bytes>>)
             [] ~(a.stop \/ a.padded) /\ known \cup pads = 1..4 /\ pads \in {{3, 4}, {4}} ->
                  [Put(a, <<"string", f, SubSeq(bytes, 1, Cardinality(known) - 1)>>) EXCEPT !.padded = TRUE]
             [] OTHER -> Fail(a)
  IN [FoldLeft(Group, [j EXCEPT !.padded = FALSE], [k \in 1..((Len(text) + 3) \div 4) |-> k]) EXCEPT !.padded = FALSE]

StartStringVal(j) ==
  LET f == Top(j).f
      inner == PushFrame(Put(j, <<"startstr", f>>), Top(j).type, f, FALSE, NoValue)
  IN CASE Field[f].type \in {"string", "bytes"} /\ ~HasRoom(j) -> Fail(j)
       [] Field[f].type = "string" /\ HasRoom(j) -> StartMultipart(inner, "push")
       [] Field[f].type = "bytes" /\ HasRoom(j) -> StartMultipart(inner, "accumulate")
       [] Field[f].type = "enum" -> StartMultipart(j, "accumulate")
       [] OTHER -> Fail(j)
EndPushed(j) == IF j.stop THEN j ELSE MultipartEnd(Put(PopFrame(j), <<"endstr", Top(j).f>>))
EndStringVal(j) ==
  LET f == Top(j).f
      numbers == {n \in DOMAIN EnumName : EnumName[n] = j.acc.text}
  IN CASE Field[f].type = "enum" /\ numbers = {} -> MultipartEnd(Fail(j))
       [] Field[f].type = "enum" /\ numbers # {} ->
            MultipartEnd(Put(j, <<"value", f, CHOOSE n \in numbers : TRUE>>))
       [] OTHER -> EndPushed(IF Field[f].type = "bytes" THEN Base64Push(j, j.acc.text) ELSE j)

(***************************************************************************)
(* Members, objects and arrays.                                              *)

ParseMapEntryKey(j, memory) ==
  LET f == Top(j).f
      text == j.acc.text
      string == IF text = <<>> THEN <<>> ELSE <<<<"string", f, text>>>>
  IN CASE Field[f].type = "int" -> ParseNumber(j, memory)
       [] Field[f].type = "bool" /\ text \in {Bool(TRUE), Bool(FALSE)} -> MultipartEnd(PutBool(j, text = Bool(TRUE)))
       [] Field[f].type = "bool" /\ text \notin {Bool(TRUE), Bool(FALSE)} -> Fail(j)
       [] OTHER -> MultipartEnd([j EXCEPT !.out = @ \o <<<<"startstr", f>>>> \o string \o <<<<"endstr", f>>>>])

\* That the key could not be parsed is reported and nothing else.
HandleMapEntry(j, memory) ==
  LET mapField == Top(j).mapField
      entry == Field[mapField].sub
      inner == PushFrame([SetField(j, mapField) EXCEPT !.out = @ \o <<<<"startsubmsg", mapField>>, <<"startmsg", entry>>>>],
                         entry, FieldsOf[entry][1], FALSE, mapField)
      keyed == ParseMapEntryKey(inner, memory)
  IN IF ~HasRoom(j) THEN Fail(j)
     ELSE [SetField(keyed, FieldsOf[entry][2]) EXCEPT !.stop = FALSE, !.frames[Len(keyed.frames)].isEntry = TRUE]

\* The names of a message's fields, as they are in JSON and as they are declared.
Named(type, text) ==
  {f \in Range(FieldsOf[type]) : text \in {JsonName(Field[f].name), Field[f].name}}
EndMemberName(j, memory) ==
  LET named == Named(Top(j).type, j.acc.text)
  IN CASE Top(j).isMap -> HandleMapEntry(j, memory)
       [] ~Top(j).isMap /\ named # {} -> MultipartEnd(SetField(j, CHOOSE f \in named : TRUE))
       [] OTHER -> Fail(j)

EndMember(j) ==
  LET entry == Top(j)
      ended == [PopFrame(j) EXCEPT !.out = @ \o <<<<"endmsg", entry.type>>, <<"endsubmsg", entry.mapField>>>>]
  IN SetField(IF entry.isEntry THEN ended ELSE j, NoValue)

StartSubobject(j) ==
  LET f == Top(j).f
  IN CASE Field[f].type # "message" \/ ~HasRoom(j) -> Fail(j)
       [] Field[f].type = "message" /\ HasRoom(j) /\ Field[f].label = "map" ->
            PushFrame(Put(j, <<"startseq", f>>), Field[f].sub, NoValue, TRUE, f)
       [] OTHER -> PushFrame(Put(j, <<"startsubmsg", f>>), Field[f].sub, NoValue, FALSE, NoValue)
EndSubobject(j) ==
  LET k == PopFrame(j)
  IN Put(k, <<IF Top(j).isMap THEN "endseq" ELSE "endsubmsg", Top(k).f>>)

StartArray(j) ==
  LET f == Top(j).f
  IN IF Field[f].label \notin {"list", "map"} \/ ~HasRoom(j) THEN Fail(j)
     ELSE PushFrame(Put(j, <<"startseq", f>>), Top(j).type, f, FALSE, NoValue)
EndArray(j) == LET k == PopFrame(j) IN Put(k, <<"endseq", Top(k).f>>)
StartObject(j) == IF Top(j).isMap THEN j ELSE Put(j, <<"startmsg", Top(j).type>>)
EndObject(j) == IF Top(j).isMap THEN j ELSE Put(j, <<"endmsg", Top(j).type>>)

(***************************************************************************)
(* The machine's steps.  The cell behind its stack is parser_top, which is    *)
(* only read when a buffer begins.                                           *)

CallMachine(j, to) ==
  IF j.top \notin DOMAIN j.cells THEN Check(j, FALSE)
  ELSE [j EXCEPT !.cells[j.top] = j.state, !.top = @ + 1, !.state = to]
Return(j) == [j EXCEPT !.state = j.cells[j.top - 1], !.top = @ - 1, !.at = @ - 1]

Do(j, do, memory) ==
  LET c == j.text[j.at]
  IN CASE do = "return" -> Return(j)
       [] do = "string" -> CallMachine(j, 19)
       [] do = "number" -> CallMachine([j EXCEPT !.at = @ - 1], 10)
       [] do = "value" -> CallMachine([j EXCEPT !.at = @ - 1], 27)
       [] do = "start_text" -> CaptureBegin(j)
       [] do = "end_text" -> CaptureEnd(j, memory)
       [] do = "escape" -> MultipartText(j, <<EscapeChar(c)>>, FALSE, memory)
       [] do = "start_hex" -> [j EXCEPT !.digit = 0]
       [] do = "hexdigit" -> [j EXCEPT !.digit = 16 * @ + HexValue(c)]
       [] do = "end_hex" -> MultipartText(j, Utf8(j.digit), FALSE, memory)
       [] do = "start_number" -> CaptureBegin(StartMultipart(j, "accumulate"))
       [] do = "end_number" -> LET k == CaptureEnd(j, memory) IN IF k.stop THEN k ELSE ParseNumber(k, memory)
       [] do = "put_true" -> PutBool(j, TRUE)
       [] do = "put_false" -> PutBool(j, FALSE)
       [] do = "start_stringval" -> StartStringVal(Check(j, Top(j).f # NoValue))
       [] do = "end_stringval" -> EndStringVal(j)
       [] do = "start_member" -> StartMultipart(Check(j, Top(j).f = NoValue), "accumulate")
       [] do = "end_membername" -> EndMemberName(Check(j, Top(j).f = NoValue), memory)
       [] do = "end_member" -> EndMember(j)
       [] do = "start_subobject" -> StartSubobject(Check(j, Top(j).f # NoValue))
       [] do = "end_subobject" -> EndSubobject(j)
       [] do = "start_array" -> StartArray(Check(j, Top(j).f # NoValue))
       [] do = "end_array" -> EndArray(j)
       [] do = "start_object" -> StartObject(j)
       [] OTHER -> EndObject(j)

\* upb_json_parser_create().
Created(text) ==
  [text |-> text, buffers |-> 0, begin |-> 1, end |-> 0, at |-> 1, parsing |-> FALSE, ok |-> TRUE, stop |-> FALSE,
   fault |-> FALSE, denied |-> FALSE, padded |-> FALSE, state |-> 1, top |-> 0,
   cells |-> [i \in 0..MaxJsonDepth |-> 0],
   frames |-> <<[type |-> MsgType, f |-> NoValue, isMap |-> FALSE, isEntry |-> FALSE, mapField |-> NoValue]>>,
   acc |-> NothingAccumulated, room |-> 0, mode |-> "inactive", capture |-> NoCapture, digit |-> 0,
   out |-> <<>>]

\* A message is put and parsed, or another text is parsed.
JsonInit == PrinterInit /\ js = Created(<<>>)
OtherInit ==
  /\ PrinterInit /\ message = CHOOSE m \in PrintedMessages : TRUE
  /\ \E text \in OtherTexts : js = Created(text)
Create ==
  /\ printer.ended /\ js.text = <<>> /\ js' = Created(printer.out)
  /\ UNCHANGED printerVars

\* parse() is called with the next buffer.
Feed ==
  /\ ~js.parsing /\ js.ok /\ ~js.fault
  /\ \E n \in 1..(Len(js.text) - js.end) :
       /\ js.buffers = MaxBuffers - 1 => n = Len(js.text) - js.end
       /\ js' = [Check(js, js.capture \in {NoCapture, Suspended}) EXCEPT
                   !.begin = js.end + 1, !.end = @ + n, !.buffers = @ + 1, !.at = js.end + 1, !.parsing = TRUE,
                   !.top = js.cells[MaxJsonDepth], !.capture = IF @ = NoCapture THEN @ ELSE js.end + 1]
  /\ UNCHANGED printerVars

\* A character is read and what the transition does is done.  When a function
\* returns false, or there is no transition, parse() returns.
Taken(t, memory) ==
  FoldLeft(LAMBDA k, do : IF k.stop \/ k.fault THEN k ELSE Do(k, do, memory), [js EXCEPT !.state = t.to], t.do)
Moved(j) ==
  IF j.stop \/ j.state = 0 THEN [j EXCEPT !.parsing = FALSE, !.ok = FALSE, !.cells[MaxJsonDepth] = j.top]
  ELSE [j EXCEPT !.at = @ + 1]
Consume ==
  /\ js.parsing /\ js.at <= js.end /\ ~js.fault
  /\ \E memory \in IF MemoryFails THEN BOOLEAN ELSE {TRUE} :
       js' = Moved(Taken(Transition(js.state, js.text[js.at]), memory))
  /\ UNCHANGED printerVars

\* The buffer ends.
Seam ==
  /\ js.parsing /\ js.at > js.end /\ ~js.fault
  /\ \E memory \in IF MemoryFails THEN BOOLEAN ELSE {TRUE} :
       LET j == CaptureSuspend(js, memory)
       IN js' = [j EXCEPT !.parsing = FALSE, !.cells[MaxJsonDepth] = j.top]
  /\ UNCHANGED printerVars

JsonNext ==
  \/ js.text = <<>> /\ PrinterNext /\ UNCHANGED js
  \/ Create \/ Feed \/ Consume \/ Seam

JsonSpec == (JsonInit \/ OtherInit) /\ [][JsonNext]_parserVars

(***************************************************************************)
(* Properties.                                                               *)

\* A string comes in as many calls as it likes.
Merged(cs) ==
  LET Add(a, c) == CASE c[1] = "string" /\ c[3] = <<>> -> a
                     [] c[1] = "string" /\ c[3] # <<>> /\ a # <<>> /\ Last(a)[1] = "string" ->
                          Append(Front(a), <<"string", c[2], Last(a)[3] \o c[3]>>)
                     [] OTHER -> Append(a, c)
  IN FoldLeft(Add, <<>>, cs)
\* The frames that calls have open, at most.
Opens(c) == IF c[1] \in {"startsubmsg", "startseq"} \/ (c[1] = "startstr" /\ Field[c[2]].role # "key") THEN 1
            ELSE IF c[1] \in {"endsubmsg", "endseq"} \/ (c[1] = "endstr" /\ Field[c[2]].role # "key") THEN -1 ELSE 0
Deepest(cs) == FoldLeft(LAMBDA a, c : [open |-> a.open + Opens(c),
                                       most |-> IF a.open + Opens(c) > a.most THEN a.open + Opens(c) ELSE a.most],
                        [open |-> 1, most |-> 1], cs).most

\* The parser is in a state of its machine, within the text, and while a
\* string or a number is read it knows what for.
ParserTypeOK ==
  /\ js.state \in 0..59 /\ js.top \in 0..(MaxJsonDepth + 1) /\ Len(js.frames) \in 1..MaxJsonDepth
  /\ js.at \in js.begin..(js.end + 1) /\ js.end <= Len(js.text)
  /\ js.mode \in {"inactive", "accumulate", "push"}
  /\ js.mode = "inactive" => js.acc = NothingAccumulated /\ js.capture = NoCapture
  /\ js.capture \in {NoCapture, Suspended} \cup js.begin..js.at

\* No assertion of the parser fails, it does not read a buffer that is gone
\* and does not leave its stacks.
ParserNoFault == ~js.fault

\* What is parsed is what was put: the calls the parser makes for the printed
\* message are those that were made to print it, wherever the text was cut
\* into buffers; and it is refused exactly when it is nested too deep for the
\* parser's stack or memory is out.
ReadsBack ==
  LET wanted == Calls(message)
      tooDeep == Deepest(wanted) > MaxJsonDepth
  IN printer.ended /\ js.text = printer.out =>
       /\ js.ok /\ ~js.parsing /\ js.end = Len(js.text) => Merged(js.out) = wanted /\ ~tooDeep
       /\ ~js.ok => tooDeep \/ js.denied

\* A text that is not JSON, or not of this message, is not parsed to its end
\* without an error.
RefusesOthers ==
  js.text \in OtherTexts /\ ~js.parsing /\ js.end = Len(js.text) => ~js.ok
=============================================================================
