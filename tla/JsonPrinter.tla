------------------------------ MODULE JsonPrinter ------------------------------
(* A message put as JSON: putrawmsg() of encode_decode.c walks over the       *)
(* message and calls the handlers of the printer of upb.c, which put text     *)
(* right away and only remember, for every frame that is open, whether        *)
(* anything was put into it.  Characters are their codes.                     *)
EXTENDS Integers, Sequences, SequencesExt

CONSTANTS
  Field,            \* name -> [name, type, label, role, sub]: the fields
  FieldsOf,         \* message type -> the names of its fields in order
  EnumName,         \* number -> its symbolic name
  NoValue,          \* of a message that is not set and a oneof's other fields
  MsgType,          \* the type of the messages that are put
  PrintedMessages,  \* those messages, field -> value
  PreserveNames,    \* the values of preserve_fieldnames
  MaxNested,        \* ENCODE_MAX_NESTING, 63 in the code
  MaxHandlerDepth,  \* UPB_MAX_HANDLER_DEPTH, 64 in the code
  Padding,          \* bytes of struct upb_json_printer behind first_elem_, 4
  DataSize          \* the characters of putbytes()'s data, 16000 in the code

VARIABLES
  message,   \* the message
  preserve,  \* preserve_fieldnames
  calls,     \* the handler calls that are left
  printer    \* the printer

printerVars == <<message, preserve, calls, printer>>

Quote == 34
Comma == 44
Colon == 58
Backslash == 92
Brackets == [object |-> <<123, 125>>, array |-> <<91, 93>>]
Bool(b) == IF b THEN <<116, 114, 117, 101>> ELSE <<102, 97, 108, 115, 101>>

(***************************************************************************)
(* putrawmsg() and what it calls.                                            *)

IsDefault(f, v) == v = (IF Field[f].type = "bool" THEN FALSE ELSE 0)
IsScalar(f) == Field[f].type \in {"int", "bool", "enum"}
IsString(f) == Field[f].type \in {"string", "bytes"}

RECURSIVE PutRawMsg(_, _, _)
PutSubMsg(m, f, depth) ==
  <<<<"startsubmsg", f>>>> \o PutRawMsg(m, Field[f].sub, depth + 1) \o <<<<"endsubmsg", f>>>>
PutStr(s, f) ==
  <<<<"startstr", f>>>> \o (IF s = <<>> THEN <<>> ELSE <<<<"string", f, s>>>>) \o <<<<"endstr", f>>>>
PutRawStr(s, f) == IF s = <<>> THEN <<>> ELSE PutStr(s, f)
PutElement(v, f, depth) ==
  CASE IsScalar(f) -> <<<<"value", f, v>>>>
    [] IsString(f) -> PutRawStr(v, f)
    [] OTHER -> PutSubMsg(v, f, depth)
PutOptionalValue(v, f, depth) ==
  IF IsScalar(f) /\ IsDefault(f, v) THEN <<>> ELSE PutElement(v, f, depth)
PutSequence(elements, f) ==
  IF elements = <<>> THEN <<>> ELSE <<<<"startseq", f>>>> \o FlattenSeq(elements) \o <<<<"endseq", f>>>>
PutArray(vs, f, depth) == PutSequence([i \in DOMAIN vs |-> PutElement(vs[i], f, depth)], f)
PutMap(es, f, depth) ==
  LET entry == Field[f].sub
      keyValue == FieldsOf[entry]
      Entry(e) == <<<<"startsubmsg", f>>, <<"startmsg", entry>>>>
                    \o PutOptionalValue(e.key, keyValue[1], depth + 1)
                    \o PutOptionalValue(e.value, keyValue[2], depth + 1)
                    \o <<<<"endmsg", entry>>, <<"endsubmsg", f>>>>
  IN PutSequence([i \in DOMAIN es |-> Entry(es[i])], f)
PutField(v, f, depth) ==
  LET inOneof == Field[f].label = "oneof"
  IN CASE Field[f].label = "map" -> PutMap(v, f, depth)
       [] Field[f].label = "list" -> PutArray(v, f, depth)
       [] Field[f].label \in {"one", "oneof"} /\ v = NoValue -> <<>>
       [] IsString(f) /\ v # NoValue -> IF inOneof THEN PutStr(v, f) ELSE PutRawStr(v, f)
       [] OTHER -> IF inOneof THEN PutElement(v, f, depth) ELSE PutOptionalValue(v, f, depth)
\* The E_ERROR for too many levels ends the script.
PutRawMsg(m, type, depth) ==
  <<<<"startmsg", type>>>> \o
  (IF depth > MaxNested THEN <<<<"fatal">>>>
   ELSE FlattenSeq([i \in DOMAIN FieldsOf[type] |-> PutField(m[FieldsOf[type][i]], FieldsOf[type][i], depth)]))
    \o <<<<"endmsg", type>>>>
UntilFatal(cs) ==
  IF \E i \in DOMAIN cs : cs[i][1] = "fatal"
  THEN SubSeq(cs, 1, CHOOSE i \in DOMAIN cs : cs[i][1] = "fatal" /\ \A j \in 1..(i - 1) : cs[j][1] # "fatal")
  ELSE cs
Calls(m) == UntilFatal(PutRawMsg(m, MsgType, 0))

(***************************************************************************)
(* Text.                                                                     *)

PrintData(p, text) == [p EXCEPT !.out = @ \o text]
PrintComma(p) ==
  LET q == IF p.first[p.depth] THEN p ELSE PrintData(p, <<Comma>>)
  IN [q EXCEPT !.first[p.depth] = FALSE]

IsJsonEscaped(c) == c < 32 \/ c \in {Quote, Backslash}
NiceEscape == [c \in {34, 92, 8, 12, 10, 13, 9} |->
                 CASE c = 8 -> 98 [] c = 12 -> 102 [] c = 10 -> 110 [] c = 13 -> 114 [] c = 9 -> 116
                   [] OTHER -> c]
HexDigit(n) == IF n < 10 THEN 48 + n ELSE 87 + n
Escape(c) ==
  IF c \in DOMAIN NiceEscape THEN <<Backslash, NiceEscape[c]>>
  ELSE <<Backslash, 117, 48, 48, HexDigit(c \div 16), HexDigit(c % 16)>>

\* putstring(): characters that need no escape are put run by run.
PutString(p, s) ==
  LET Flush(a, i) == IF a.run = 0 THEN a ELSE [run |-> 0, text |-> a.text \o SubSeq(s, a.run, i - 1)]
      Char(a, i) == IF IsJsonEscaped(s[i]) THEN [Flush(a, i) EXCEPT !.text = @ \o Escape(s[i])]
                    ELSE IF a.run = 0 THEN [a EXCEPT !.run = i] ELSE a
  IN PrintData(p, Flush(FoldLeftDomain(Char, [run |-> 0, text |-> <<>>], s), Len(s) + 1).text)

Digits[n \in Nat] == IF n < 10 THEN <<48 + n>> ELSE Digits[n \div 10] \o <<48 + (n % 10)>>
FmtInt(v) == IF v < 0 THEN <<45>> \o Digits[-v] ELSE Digits[v]

\* upb_fielddef_getjsonname(): what follows an underscore in upper case.
JsonName(name) ==
  LET Char(a, c) == IF c = 95 THEN [a EXCEPT !.upper = TRUE]
                    ELSE [upper |-> FALSE,
                          text |-> Append(a.text, IF a.upper /\ c \in 97..122 THEN c - 32 ELSE c)]
  IN FoldLeft(Char, [upper |-> FALSE, text |-> <<>>], name).text
KeyOf(f) == IF preserve THEN Field[f].name ELSE JsonName(Field[f].name)
PutKey(p, f) == PrintData(PutString(PrintData(PrintComma(p), <<Quote>>), KeyOf(f)), <<Quote, Colon>>)

PrintEnum(p, v) ==
  IF v \in DOMAIN EnumName THEN PrintData(PutString(PrintData(p, <<Quote>>), EnumName[v]), <<Quote>>)
  ELSE PrintData(p, FmtInt(v))
PutValue(p, f, v) ==
  CASE Field[f].type = "enum" -> PrintEnum(p, v)
    [] Field[f].type = "bool" -> PrintData(p, Bool(v))
    [] OTHER -> PrintData(p, FmtInt(v))

(***************************************************************************)
(* Base64.                                                                   *)

Base64Char(n) ==
  CASE n < 26 -> 65 + n [] n \in 26..51 -> 71 + n [] n \in 52..61 -> n - 4 [] n = 62 -> 43 [] OTHER -> 47
Pad == 61
Base64Group(a, b, c) ==
  <<Base64Char(a \div 4), Base64Char((a % 4) * 16 + b \div 16),
    Base64Char((b % 16) * 4 + c \div 64), Base64Char(c % 64)>>
Base64(s) ==
  LET n == Len(s) \div 3
      rest == Len(s) % 3
      last == 3 * n
  IN FlattenSeq([i \in 1..n |-> Base64Group(s[3 * i - 2], s[3 * i - 1], s[3 * i])])
       \o (CASE rest = 2 -> SubSeq(Base64Group(s[last + 1], s[last + 2], 0), 1, 3) \o <<Pad>>
             [] rest = 1 -> SubSeq(Base64Group(s[last + 1], 0, 0), 1, 2) \o <<Pad, Pad>>
             [] OTHER -> <<>>)
PutBytes(p, s) ==
  LET data == Base64(s)
  IN [PrintData(PutString(PrintData(p, <<Quote>>), data), <<Quote>>) EXCEPT !.fault = @ \/ Len(data) > DataSize]

(***************************************************************************)
(* Frames.                                                                   *)

\* Mutant of Open: what was put into an earlier frame at this depth counts.
OpenKeepsFirst(p, kind) ==
  IF p.depth + 1 \notin DOMAIN p.first THEN [p EXCEPT !.fault = TRUE]
  ELSE PrintData([p EXCEPT !.depth = @ + 1], <<Brackets[kind][1]>>)

\* start_frame(), startseq(), startmap().
Open(p, kind) ==
  IF p.depth + 1 \notin DOMAIN p.first THEN [p EXCEPT !.fault = TRUE]
  ELSE PrintData([p EXCEPT !.depth = @ + 1, !.first[p.depth + 1] = TRUE], <<Brackets[kind][1]>>)

Close(p, kind) == [PrintData(p, <<Brackets[kind][2]>>) EXCEPT !.depth = @ - 1]

(***************************************************************************)
(* The handlers printer_sethandlers() registers, one action for each kind.   *)

PrinterInit ==
  /\ message \in PrintedMessages
  /\ preserve \in PreserveNames
  /\ calls = Calls(message)
  /\ \E b \in BOOLEAN :
       printer = [depth |-> 0, out |-> <<>>, fault |-> FALSE, ended |-> FALSE,
                  first |-> [i \in 0..(2 * MaxHandlerDepth + Padding - 1) |-> b]]

Called(kind) ==
  /\ calls # <<>> /\ Head(calls)[1] = kind /\ ~printer.fault
  /\ calls' = Tail(calls)
  /\ UNCHANGED <<message, preserve>>
Given == Head(calls)
F == Field[Given[2]]
IsMapEntry(type) == Field[FieldsOf[type][1]].role = "key"

StartMsg == Called("startmsg") /\ printer' = IF IsMapEntry(Given[2]) THEN printer ELSE Open(printer, "object")

EndMsg ==
  /\ Called("endmsg")
  /\ printer' = IF IsMapEntry(Given[2]) THEN printer
                ELSE LET q == Close(printer, "object") IN [q EXCEPT !.ended = q.depth = 0]
StartSubMsg ==
  /\ Called("startsubmsg")
  /\ printer' = CASE F.role = "value" -> printer
                  [] F.role # "value" /\ F.label \in {"list", "map"} -> PrintComma(printer)
                  [] OTHER -> PutKey(printer, Given[2])
EndSubMsg == Called("endsubmsg") /\ UNCHANGED printer
SeqKind == IF F.label = "map" THEN "object" ELSE "array"
StartSeq == Called("startseq") /\ printer' = Open(PutKey(printer, Given[2]), SeqKind)
EndSeq == Called("endseq") /\ printer' = Close(printer, SeqKind)

\* What goes before a value: a comma in a list, the name of a field.
BeforeValue(p, f) ==
  CASE Field[f].role \in {"key", "value"} -> p
    [] Field[f].role = "field" /\ Field[f].label = "list" -> PrintComma(p)
    [] OTHER -> PutKey(p, f)
Value ==
  /\ Called("value")
  /\ printer' = IF F.role = "key"
                THEN PrintData(PutValue(PrintData(printer, <<Quote>>), Given[2], Given[3]), <<Quote, Colon>>)
                ELSE PutValue(BeforeValue(printer, Given[2]), Given[2], Given[3])
\* There is no handler for the start and the end of bytes.
StartStr ==
  /\ Called("startstr")
  /\ printer' = IF F.type = "bytes" THEN printer ELSE PrintData(BeforeValue(printer, Given[2]), <<Quote>>)
EndStr ==
  /\ Called("endstr")
  /\ printer' = CASE F.type = "bytes" -> printer
                  [] F.type # "bytes" /\ F.role = "key" -> PrintData(printer, <<Quote, Colon>>)
                  [] OTHER -> PrintData(printer, <<Quote>>)
StringPart ==
  /\ Called("string")
  /\ printer' = CASE F.type = "string" -> PutString(printer, Given[3])
                  [] F.type = "bytes" /\ F.role = "key" -> PrintData(PutBytes(printer, Given[3]), <<Colon>>)
                  [] OTHER -> PutBytes(BeforeValue(printer, Given[2]), Given[3])

PrinterNext ==
  \/ StartMsg \/ EndMsg \/ StartSubMsg \/ EndSubMsg \/ StartSeq \/ EndSeq
  \/ Value \/ StartStr \/ EndStr \/ StringPart

PrinterSpec == PrinterInit /\ [][PrinterNext]_printerVars

(***************************************************************************)
(* What the text should be, from the message alone.                          *)

Between(kind, parts) ==
  LET Add(text, part) == (IF text = <<>> THEN text ELSE Append(text, Comma)) \o part
  IN <<Brackets[kind][1]>> \o FoldLeft(Add, <<>>, parts) \o <<Brackets[kind][2]>>
Quoted(s) == <<Quote>> \o FlattenSeq([i \in DOMAIN s |-> IF IsJsonEscaped(s[i]) THEN Escape(s[i]) ELSE <<s[i]>>])
               \o <<Quote>>
\* Base64 by its bits: six to a character, zeros behind the last.
Bit(s, k) == IF k \div 8 + 1 > Len(s) THEN 0 ELSE (s[k \div 8 + 1] \div (2 ^ (7 - (k % 8)))) % 2
Sextet(s, j) == Base64Char(FoldLeft(LAMBDA n, k : 2 * n + Bit(s, 6 * j + k), 0, <<0, 1, 2, 3, 4, 5>>))
InBase64(s) == [j \in 1..(4 * ((Len(s) + 2) \div 3)) |-> IF 6 * (j - 1) >= 8 * Len(s) THEN Pad ELSE Sextet(s, j - 1)]

RECURSIVE TextOfMessage(_, _)
TextOf(f, v) ==
  CASE Field[f].type = "message" -> TextOfMessage(Field[f].sub, v)
    [] Field[f].type = "string" -> Quoted(v)
    [] Field[f].type = "bytes" -> Quoted(InBase64(v))
    [] Field[f].type = "bool" -> Bool(v)
    [] Field[f].type = "enum" /\ v \in DOMAIN EnumName -> Quoted(EnumName[v])
    [] OTHER -> FmtInt(v)
TextOfKey(f, v) == IF Field[f].type \in {"string", "bytes"} THEN TextOf(f, v) ELSE Quoted(TextOf(f, v))
TextOfEntry(entry, e) == TextOfKey(FieldsOf[entry][1], e.key) \o <<Colon>> \o TextOf(FieldsOf[entry][2], e.value)
IsThere(f, v) ==
  CASE v = NoValue -> FALSE
    [] Field[f].label = "oneof" /\ v # NoValue -> TRUE
    [] Field[f].label \in {"list", "map"} \/ (IsString(f) /\ Field[f].label = "one") -> v # <<>>
    [] OTHER -> IF IsScalar(f) THEN ~IsDefault(f, v) ELSE TRUE
TextOfField(f, v) ==
  Quoted(KeyOf(f)) \o <<Colon>> \o
  (CASE Field[f].label = "list" -> Between("array", [i \in DOMAIN v |-> TextOf(f, v[i])])
     [] Field[f].label = "map" -> Between("object", [i \in DOMAIN v |-> TextOfEntry(Field[f].sub, v[i])])
     [] OTHER -> TextOf(f, v))
TextOfMessage(type, m) ==
  LET there == SelectSeq(FieldsOf[type], LAMBDA f : IsThere(f, m[f]))
  IN Between("object", [i \in DOMAIN there |-> TextOfField(there[i], m[there[i]])])

\* The printer's frame is one of those it has, and closed frames are gone
\* when the message ends.
PrinterTypeOK ==
  /\ printer.depth \in DOMAIN printer.first
  /\ \A i \in DOMAIN printer.out : printer.out[i] \in 0..255
  /\ printer.ended => printer.depth = 0 /\ calls = <<>>

\* No frame or character is put where there is no room for it, up to the
\* deepest message the encoder allows (first_elem_, upb.c:13053-13061).
PrinterNoFault == ~printer.fault

\* What is put is the JSON text of the message, and at every moment the
\* beginning of it: commas are between members and elements of every level,
\* names and values in their places, escapes and base64 right.
PrintsJson ==
  LET text == TextOfMessage(MsgType, message)
      wanted == Calls(message)
      tooDeep == Last(wanted)[1] = "fatal"
  IN ~tooDeep => /\ IsPrefix(printer.out, text)
                 /\ printer.ended => printer.out = text
=============================================================================
