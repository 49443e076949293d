-------------------------------- MODULE PbCode --------------------------------
(* The bytecode of the protobuf decoder, upb.c: what compile_method() puts   *)
(* for the fields of a message, as a list of items (instructions, labels and *)
(* dispatch targets), and the instructions and tables these mean.  How the   *)
(* compiler gets there is PbCompiler, what the code does is PbDecoder.       *)
EXTENDS Integers, Sequences, SequencesExt, FiniteSetsExt, TLC

CONSTANTS
  Message,     \* the messages that have handlers
  Handled,     \* the opcodes of callbacks that handlers are registered for
  BigNumber    \* field numbers from here on do not fit an instruction

\* A field: its number and type, its wire type when it is a number, whether it
\* is repeated, and the message of a submessage.  "delim" is a string, bytes
\* or a submessage parsed lazily.
Field(num, type, wt, seq, sub) == [num |-> num, type |-> type, wt |-> wt, seq |-> seq, sub |-> sub]

Delimited == 2
StartGroup == 3
NoWireType == 255
WireOf(f) == CASE f.type = "group" -> StartGroup
               [] f.type = "prim" -> f.wt
               [] OTHER -> Delimited

(***************************************************************************)
(* The items of a message.                                                 *)

Op(op, arg) == [kind |-> "op", op |-> op, arg |-> arg, label |-> "none"]
Jump(op, arg, label) == [kind |-> "op", op |-> op, arg |-> arg, label |-> label]
Label(label) == [kind |-> "label", label |-> label]
Target(f, wt) == [kind |-> "target", num |-> f.num, wt |-> wt]

\* An encoded tag has as many bytes as its varint; one of three is not told
\* from longer ones.
TagLength(num) == IF num < 16 THEN 1 ELSE IF num < 2048 THEN 2 ELSE 3
CheckTag(f, wt, label) ==
  Jump(CASE TagLength(f.num) = 1 -> "TAG1" [] TagLength(f.num) = 2 -> "TAG2" [] OTHER -> "TAGN",
       <<f.num, wt>>, label)

\* A callback is called for only if there is one.
Maybe(op, arg) == IF op \in Handled THEN <<Op(op, arg)>> ELSE <<>>

PutPush(f) ==
  IF f.type = "message" THEN <<Op("PUSHLENDELIM", 0)>>
  ELSE IF f.num >= BigNumber THEN <<Op("PUSHTAGDELIM", 0), Op("SETBIGGROUPNUM", f.num)>>
  ELSE <<Op("PUSHTAGDELIM", f.num)>>

\* How every field begins: the end of the message, or its tag, or another's.
Begin(f, wt) ==
  <<Label("FIELD"), Jump("CHECKDELIM", 0, "ENDMSG"), CheckTag(f, wt, "DISPATCH"), Target(f, wt)>>

\* One element of a field of submessages or strings.
Element(f) ==
  IF f.type = "delim"
  THEN <<Op("PUSHLENDELIM", 0), Op("STARTSTR", f.num), Op("STRING", f.num), Op("POP", 0)>>
         \o Maybe("ENDSTR", f.num) \o <<Op("SETDELIM", 0)>>
  ELSE PutPush(f) \o <<Op("STARTSUBMSG", f.num), Op("CALL", f.sub), Op("POP", 0)>>
         \o Maybe("ENDSUBMSG", f.num)
         \o (IF f.type = "message" THEN <<Op("SETDELIM", 0)>> ELSE <<>>)

\* The loop of a repeated field whose elements each have a tag.
TagLoop(f, element) ==
  <<Op("PUSHTAGDELIM", 0), Op("STARTSEQ", f.num), Label("LOOPSTART")>> \o element
    \o <<Jump("CHECKDELIM", 0, "LOOPBREAK"), CheckTag(f, WireOf(f), "LOOPBREAK"),
         Jump("BRANCH", 0, "-LOOPSTART")>>

\* Mutant of LoopEnd: the end of the list is not told.
LoopEndSilent(f) == <<Label("LOOPBREAK"), Op("POP", 0)>>

LoopEnd(f) == <<Label("LOOPBREAK"), Op("POP", 0)>> \o Maybe("ENDSEQ", f.num)

\* generate_msgfield() and generate_delimfield().  A submessage without
\* handlers has no code: it is parsed as an unknown field.
DelimitedField(f) ==
  IF f.type # "delim" /\ f.sub \notin Message THEN <<>>
  ELSE IF f.seq THEN Begin(f, WireOf(f)) \o TagLoop(f, Element(f)) \o LoopEnd(f)
  ELSE Begin(f, WireOf(f)) \o Element(f)

\* generate_primitivefield(): a repeated one is accepted packed and unpacked.
PrimitiveField(f) ==
  LET parse == <<Op("PARSE", <<f.num, f.wt>>)>> IN
  IF f.seq
  THEN Begin(f, Delimited)
         \o <<Op("PUSHLENDELIM", 0), Op("STARTSEQ", f.num), Label("LOOPSTART")>> \o parse
         \o <<Jump("CHECKDELIM", 0, "LOOPBREAK"), Jump("BRANCH", 0, "-LOOPSTART"), Target(f, f.wt)>>
         \o TagLoop(f, parse) \o LoopEnd(f) \o <<Op("SETDELIM", 0)>>
  ELSE Begin(f, f.wt) \o parse

FieldItems(f) == IF f.type = "prim" THEN PrimitiveField(f) ELSE DelimitedField(f)

\* compile_method().
OrUnknown(body) == IF body # <<>> THEN body ELSE <<Jump("CHECKDELIM", 0, "ENDMSG"), Op("DISPATCH", 0)>>
Items(fields) ==
  <<Op("SETDISPATCH", 0)>> \o Maybe("STARTMSG", 0) \o <<Label("FIELD")>>
    \o OrUnknown(FlattenSeq([i \in 1..Len(fields) |-> FieldItems(fields[i])]))
    \o <<Jump("BRANCH", 0, "-FIELD"), Label("ENDMSG"), [kind |-> "target", num |-> 0, wt |-> 0]>>
    \o Maybe("ENDMSG", 0) \o <<Op("RET", 0)>>

\* instruction_len(): the words of an instruction.
Words(op) == CASE op \in {"SETDISPATCH", "TAGN"} -> 3
               [] op = "SETBIGGROUPNUM" -> 2
               [] OTHER -> 1
Size(item) == IF item.kind = "op" THEN Words(item.op) ELSE 0

(***************************************************************************)
(* What the code is, by the meaning of labels.                             *)

\* The word at which item i of a list begins, counted from the first one.
Address(items, i) == FoldSeq(+, 0, [j \in 1..(i - 1) |-> Size(items[j])])

\* The item a label means at item i: a plain label the next definition, one
\* with a minus sign the last.
Meant(items, i) ==
  LET back == items[i].label \in {"-LOOPSTART", "-FIELD"}
      name == CASE items[i].label = "-LOOPSTART" -> "LOOPSTART"
                [] items[i].label = "-FIELD" -> "FIELD"
                [] OTHER -> items[i].label
      defs == {j \in 1..Len(items) : items[j].kind = "label" /\ items[j].label = name}
  IN IF back THEN Max({j \in defs : j < i}) ELSE Min({j \in defs : j > i})

\* The order in which the table of methods is gone through.
Order == SetToSeq(Message)
CodeLength(items) == Address(items, Len(items) + 1)
Base(s, m) ==
  LET before == SelectSeq(Order, LAMBDA n : \E j, k \in 1..Len(Order) : j < k /\ Order[j] = n /\ Order[k] = m)
  IN FoldSeq(+, 0, [k \in 1..Len(before) |-> CodeLength(Items(s[before[k]]))])

\* The instructions by their addresses, jumps with the offset from the next one.
Instruction(s, items, base, i) ==
  LET next == Address(items, i + 1) IN
  [at |-> base + Address(items, i), op |-> items[i].op, arg |-> items[i].arg, size |-> Size(items[i]),
   ofs |-> IF items[i].op = "CALL" THEN Base(s, items[i].arg) - (base + next)
           ELSE IF items[i].label \in {"none", "DISPATCH"} THEN 0
           ELSE Address(items, Meant(items, i)) - next]

Method(s, items, base) == {Instruction(s, items, base, i) : i \in {j \in 1..Len(items) : items[j].kind = "op"}}
Assembled(s) == UNION {Method(s, Items(s[m]), Base(s, m)) : m \in Message}

\* The dispatch table: field number, wire type, offset from the message's base.
Targets(items) ==
  {<<items[i].num, items[i].wt, Address(items, i)>> : i \in {j \in 1..Len(items) : items[j].kind = "target"}}
Dispatch(s, m) == Targets(Items(s[m]))
=============================================================================
