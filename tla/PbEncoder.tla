------------------------------- MODULE PbEncoder -------------------------------
(* The protobuf encoder of upb.c: handlers that are called for the parts of a *)
(* message and put its encoding.  The length of a submessage comes before its *)
(* bytes and is known only when it ends: until then bytes are buffered in     *)
(* segments, with the length to put before each.                             *)
EXTENDS Integers, Sequences, FiniteSets, SequencesExt

CONSTANTS
  EncoderField,  \* the fields, [num, type, seq, packed]
  EncoderValue,  \* type of a number -> the encodings of its values
  StrPart,          \* the parts of strings
  VarintBase,    \* the values of one byte of a varint, 128 in the code
  VarintRoom,    \* the bytes reserved for a varint, 10 in the code
  InitialBuf,    \* initial_bufsize, 256 in the code
  InitialSegs,   \* initial_segbufsize, 16 in the code
  StackSize,     \* 64 in the code
  MaxWanted      \* bound of the model: bytes of a message

ASSUME EncoderAssumption ==
  /\ {InitialBuf, InitialSegs, StackSize, VarintRoom} \subseteq Nat \ {0}
  /\ VarintBase \in Nat /\ MaxWanted \in Nat
  /\ \A f \in EncoderField : f.num \in Nat
  /\ DOMAIN EncoderValue \subseteq {"varint", "fixed32"}
  /\ \A type \in DOMAIN EncoderValue : \A v \in EncoderValue[type] :
       v \in Seq(Nat) /\ (type = "varint" => Len(v) <= VarintRoom)
  /\ \A bytes \in StrPart : bytes \in Seq(Nat)

VARIABLES
  enc,          \* the encoder
  enclosing,  \* the fields whose start handler was called, innermost last
  wanted,     \* the encoding so far of each delimited region that is open
  refused     \* a handler has failed: the caller stops

encoderVars == <<enc, enclosing, wanted, refused>>

\* upb_vencode64(): a digit, and one more for every power that n reaches.
Varint(n) ==
  LET digit(i) == (n \div (VarintBase ^ i)) % VarintBase
      size == 1 + Cardinality({i \in 1..(VarintRoom - 1) : VarintBase ^ i <= n})
  IN [i \in 1..size |-> digit(i - 1) + (IF i < size THEN VarintBase ELSE 0)]

(***************************************************************************)
(* What newhandlers_callback() registers for a field.                      *)

Primitive(f) == f.type \in DOMAIN EncoderValue
Packed(f) == f.seq /\ Primitive(f) /\ f.packed
WireType(f) ==
  CASE Packed(f) -> 2
    [] ~Packed(f) /\ f.type = "varint" -> 0
    [] ~Packed(f) /\ f.type = "fixed32" -> 5
    [] ~Packed(f) /\ f.type = "group" -> 3
    [] OTHER -> 2
EncodedTag(f, wt) == Varint(f.num * 8 + wt)
EndGroup == 4
\* Fields whose elements are regions with a length before them.
DelimitedField(f) == Packed(f) \/ f.type \in {"string", "message"}

(***************************************************************************)
(* The buffer: enc.ok is what a function returns.                            *)

\* A size doubled until it is enough, which takes fewer steps than are needed.
Doubled(size, needed) ==
  LET grown[k \in 0..needed] ==
        IF k = 0 THEN size ELSE IF grown[k - 1] < needed THEN 2 * grown[k - 1] ELSE grown[k - 1]
  IN grown[needed]

\* reserve(); memory says whether upb_env_realloc() has any left.
Reserve(s, n, memory) ==
  IF s.limit - Len(s.buf) >= n THEN s
  ELSE [s EXCEPT !.ok = memory,
                 !.limit = IF memory THEN Doubled(@, Len(s.buf) + n) ELSE @]

\* Bytes written and advanced over: the assertion is that they were reserved.
Write(s, bytes) ==
  IF ~s.ok THEN s
  ELSE [s EXCEPT !.buf = @ \o bytes, !.overrun = @ \/ Len(s.buf) + Len(bytes) > s.limit]
EncodeBytes(s, bytes, memory) ==
  IF ~s.ok THEN s ELSE Write(Reserve(s, Len(bytes), memory), bytes)

EncodeVarint(s, bytes, memory) ==
  IF ~s.ok THEN s ELSE Write(Reserve(s, VarintRoom, memory), bytes)

\* commit(): outside delimited regions the buffer goes to the output.
Commit(s) == IF s.ok /\ s.top = <<>> THEN [s EXCEPT !.out = @ \o s.buf, !.buf = <<>>] ELSE s

(***************************************************************************)
(* Delimited regions.  s.segs are the segments up to segptr, each with the  *)
(* length that goes before it; s.top holds the segment of each open region. *)

Segment == [msglen |-> 0, seglen |-> 0]

\* accumulate(): the run since the last seam, into its segment and its region.
Accumulate(s) ==
  LET run == Len(s.buf) - s.run
      in == [s.segs EXCEPT ![Len(s.segs)].seglen = @ + run]
  IN [s EXCEPT !.segs = [in EXCEPT ![Last(s.top)].msglen = @ + run], !.run = Len(s.buf)]

StartDelim(s, memory) ==
  IF ~s.ok THEN s
  ELSE IF s.top = <<>>
  THEN [s EXCEPT !.segs = <<Segment>>, !.top = <<1>>, !.run = Len(s.buf)]
  ELSE LET a == Accumulate(s)
           full == Len(a.segs) = a.segLimit
       IN IF Len(a.top) = StackSize \/ (full /\ ~memory) THEN [a EXCEPT !.ok = FALSE]
          ELSE [a EXCEPT !.segs = Append(@, Segment), !.top = Append(@, Len(a.segs) + 1),
                         !.segLimit = IF full THEN 2 * @ ELSE @]

\* Where in the buffer each segment ends.
Ends(s) ==
  LET ends[i \in 0..Len(s.segs)] == IF i = 0 THEN 0 ELSE ends[i - 1] + s.segs[i].seglen IN ends

\* What end_delim() emits of a region outside all others: each segment with its
\* length before it.
Emitted(s) ==
  LET put[i \in 0..Len(s.segs)] ==
        IF i = 0 THEN <<>>
        ELSE put[i - 1] \o (Varint(s.segs[i].msglen) \o SubSeq(s.buf, Ends(s)[i - 1] + 1, Ends(s)[i]))
  IN put[Len(s.segs)]

\* Mutant of Outer: the length itself is not counted in the region around.
OuterBytesOnly(s, msglen) ==
  LET t == [s EXCEPT !.top = Front(@)] IN [t EXCEPT !.segs[Last(t.top)].msglen = @ + msglen]

\* The region around one that ends gets its length and the bytes of that length.
Outer(s, msglen) ==
  LET t == [s EXCEPT !.top = Front(@)] IN
  [t EXCEPT !.segs[Last(t.top)].msglen = @ + msglen + Len(Varint(msglen))]

\* end_delim(): outside all others everything can be emitted.
EndDelim(s) ==
  LET a == Accumulate(s) IN
  IF Len(a.top) = 1
  THEN [a EXCEPT !.out = @ \o Emitted(a), !.buf = <<>>, !.top = <<>>]
  ELSE Outer(a, a.segs[Last(a.top)].msglen)

(***************************************************************************)
(* The handlers, called by a program that respects their protocol and stops *)
(* when one of them fails.                                                 *)

EncoderInit ==
  /\ enc = [buf |-> <<>>, limit |-> InitialBuf, run |-> 0, segs |-> <<>>, segLimit |-> InitialSegs,
          top |-> <<>>, depth |-> 0, out |-> <<>>, ended |-> FALSE, ok |-> TRUE, overrun |-> FALSE]
  /\ enclosing = <<>> /\ wanted = <<<<>>>> /\ refused = FALSE

Wants(bytes) == wanted' = [wanted EXCEPT ![Len(wanted)] = @ \o bytes]
Does(s) == /\ enc' = [s EXCEPT !.ok = TRUE]
           /\ refused' = ~s.ok
Submessage(f) == f.type \in {"message", "group"}
\* The innermost field is a message, and startmsg() was called for it or not yet.
Between == ~refused /\ (enclosing # <<>> => Submessage(Last(enclosing)))
Depth == Cardinality({i \in DOMAIN enclosing : Submessage(enclosing[i])})
InMessage == Between /\ enc.depth = Depth + 1
Room == FoldLeft(LAMBDA n, r : n + Len(r), 0, wanted) < MaxWanted

StartMsg ==
  /\ Between /\ ~enc.ended /\ enc.depth = Depth
  /\ enc' = [enc EXCEPT !.depth = @ + 1]
  /\ UNCHANGED <<enclosing, wanted, refused>>

\* The end of the outermost message ends the output.
EndMsg ==
  /\ ~refused /\ enclosing = <<>> /\ InMessage
  /\ enc' = [enc EXCEPT !.depth = 0, !.ended = TRUE]
  /\ UNCHANGED <<enclosing, wanted, refused>>

\* encode_scalar_*().
Scalar(f, v, memory) ==
  /\ InMessage /\ Room /\ Primitive(f) /\ ~Packed(f)
  /\ LET tagged == EncodeBytes(enc, EncodedTag(f, WireType(f)), memory) IN
     Does(Commit(IF f.type = "varint" THEN EncodeVarint(tagged, v, memory)
                 ELSE EncodeBytes(tagged, v, memory)))
  /\ Wants(EncodedTag(f, WireType(f)) \o v)
  /\ UNCHANGED enclosing

\* encode_startdelimfield(), encode_startstr().
StartDelimField(f, memory) ==
  /\ InMessage /\ Room /\ DelimitedField(f)
  /\ Does(StartDelim(Commit(EncodeBytes(enc, EncodedTag(f, WireType(f)), memory)), memory))
  /\ wanted' = Append([wanted EXCEPT ![Len(wanted)] = @ \o EncodedTag(f, WireType(f))], <<>>)
  /\ enclosing' = Append(enclosing, f)

\* encode_packed_*().
PackedValue(v, memory) ==
  /\ ~refused /\ Room /\ enclosing # <<>> /\ Packed(Last(enclosing))
  /\ Does(IF Last(enclosing).type = "varint" THEN EncodeVarint(enc, v, memory) ELSE EncodeBytes(enc, v, memory))
  /\ Wants(v)
  /\ UNCHANGED enclosing

\* encode_strbuf().
StringPart(bytes, memory) ==
  /\ ~refused /\ Room /\ enclosing # <<>> /\ Last(enclosing).type = "string"
  /\ Does(EncodeBytes(enc, bytes, memory))
  /\ Wants(bytes)
  /\ UNCHANGED enclosing

\* A submessage is ended by endmsg() before its field is.
LeavesMessage(s) == IF Submessage(Last(enclosing)) THEN [s EXCEPT !.depth = @ - 1] ELSE s
MessageStarted == Submessage(Last(enclosing)) => InMessage

\* encode_enddelimfield().
EndDelimField ==
  /\ ~refused /\ enclosing # <<>> /\ DelimitedField(Last(enclosing)) /\ MessageStarted
  /\ Does(EndDelim(LeavesMessage(enc)))
  /\ LET inner == Last(wanted)
         outer == Front(wanted)
     IN wanted' = [outer EXCEPT ![Len(outer)] = @ \o Varint(Len(inner)) \o inner]
  /\ enclosing' = Front(enclosing)

\* encode_startgroup(), encode_endgroup(): the tag of the end is another one.
StartGroup(f, memory) ==
  /\ InMessage /\ Room /\ f.type = "group"
  /\ Does(Commit(EncodeBytes(enc, EncodedTag(f, WireType(f)), memory)))
  /\ Wants(EncodedTag(f, WireType(f)))
  /\ enclosing' = Append(enclosing, f)
EndGroupField(memory) ==
  /\ ~refused /\ enclosing # <<>> /\ Last(enclosing).type = "group" /\ MessageStarted
  /\ Does(Commit(EncodeBytes(LeavesMessage(enc), EncodedTag(Last(enclosing), EndGroup), memory)))
  /\ Wants(EncodedTag(Last(enclosing), EndGroup))
  /\ enclosing' = Front(enclosing)

EncoderNext ==
  \/ StartMsg \/ EndMsg \/ EndDelimField
  \/ \E memory \in BOOLEAN :
       \/ EndGroupField(memory)
       \/ \E f \in EncoderField :
            \/ StartDelimField(f, memory) \/ StartGroup(f, memory)
            \/ Primitive(f) /\ \E v \in EncoderValue[f.type] : Scalar(f, v, memory)
       \/ \E type \in DOMAIN EncoderValue : \E v \in EncoderValue[type] :
            enclosing # <<>> /\ Last(enclosing).type = type /\ PackedValue(v, memory)
       \/ \E bytes \in StrPart : StringPart(bytes, memory)

EncoderSpec == EncoderInit /\ [][EncoderNext]_encoderVars

(***************************************************************************)

\* The segments fill the buffer up to the run that goes on, every open region
\* has a segment of its own, and a buffer outside regions is empty.
EncoderTypeOK ==
  /\ enc.depth \in Nat /\ Len(enc.buf) <= enc.limit /\ Len(enc.segs) <= enc.segLimit
  /\ ~refused => IF enc.top = <<>> THEN enc.buf = <<>>
                 ELSE /\ enc.run = Ends(enc)[Len(enc.segs)]
                      /\ \A i \in 2..Len(enc.top) : enc.top[i - 1] < enc.top[i]
                      /\ Last(enc.top) <= Len(enc.segs)

\* No byte is written past what was reserved (encoder_advance()'s assertion).
NoOverrun == ~enc.overrun

\* The output is the encoding of the message, submessages at any depth with
\* their own length before them, whatever seams and reallocations there were;
\* outside delimited regions nothing is held back.
OutputIsEncoding == ~refused /\ enc.top = <<>> => enc.out = wanted[1]

\* Whatever failed, what was put is the beginning of the encoding: a caller
\* that stops at the failure has sent no byte that does not belong there.
OutputIsPrefix == IsPrefix(enc.out, wanted[1])

\* The output is the encoding of the message, or the beginning of it if
\* something failed; no byte is written that was not reserved.
EncodesMessage == EncoderTypeOK /\ NoOverrun /\ OutputIsEncoding /\ OutputIsPrefix
=============================================================================
