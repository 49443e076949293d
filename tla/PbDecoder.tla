------------------------------ MODULE PbDecoder -------------------------------
(* The protobuf decoder of upb.c, run_decoder_vm() and what it calls: the   *)
(* bytecode of one schema run over input that comes in buffers cut at any   *)
(* byte.  Between buffers the decoder is suspended: it keeps the bytes of a *)
(* value it has not seen whole in a small residual buffer, and goes back to *)
(* the last instruction.                                                    *)
EXTENDS Integers, Sequences, SequencesExt, FiniteSetsExt

CONSTANTS
  Program,           \* address -> instruction, as in Assembled of PbCode
  Table,             \* address of a message's code -> its Dispatch
  Entry,             \* the address of the code of the message that is parsed
  Inputs,            \* the inputs, each [bytes, leaves, whole]
  VarintLen,         \* UPB_PB_VARINT_MAX_LEN, 10 in the code
  V32Max,            \* the largest tag and length, UINT32_MAX in the code
  MaxResidual,       \* UPB_DECODER_MAX_RESIDUAL_BYTES, 14 in the code
  MaxNesting,        \* the frames of the stack, 64 in the code
  ShortReads         \* the inputs whose string handlers may take less than they are given

VARIABLES
  input,     \* the input
  fed,       \* how many of its bytes the caller has handed over for good
  mode,      \* what the caller is doing: "idle", "running", "ending", "ended"
  d,         \* the decoder
  out        \* what the handlers were called for

decoderVars == <<input, fed, mode, d, out>>

Halt == -1
NoDelim == -1       \* a null pointer
Unlimited == 10000  \* UINT64_MAX, where no frame ends

Frame(end, group) == [end |-> end, group |-> group, base |-> 0]

(***************************************************************************)
(* Buffers.  d.buf says which one d.ptr is in: the user's, d.param, or the  *)
(* residual one, d.res; d.ofs is the offset of its first byte in the stream.*)

Top(e) == Last(e.stack)
Cur(e) == IF e.buf = "res" THEN e.res ELSE e.param
DataEnd(e) == IF e.delim = NoDelim THEN Len(Cur(e)) ELSE e.delim
Left(e) == DataEnd(e) - e.ptr
Offset(e) == e.ofs + e.ptr
DelimRemaining(e) == Top(e).end - Offset(e)

SetDelimEnd(e) ==
  LET o == Top(e).end - e.ofs IN
  [e EXCEPT !.delim = IF o >= 0 /\ o <= Len(Cur(e)) THEN o ELSE NoDelim]

Fault(e, cond) == [e EXCEPT !.fault = @ \/ cond]

\* switchtobuf().
SwitchTo(e, which) == SetDelimEnd([e EXCEPT !.buf = which, !.ptr = 0])
AdvanceToUser(e) ==
  SwitchTo([Fault(e, Left(e) # 0) EXCEPT !.ofs = @ + Len(e.res)], "user")
Checkpoint(e) == [Fault(e, e.ckpt = <<e.buf, e.ptr>>) EXCEPT !.ckpt = <<e.buf, e.ptr>>]
SetErr(e) == [e EXCEPT !.err = TRUE]

\* What an operation returns: the decoder, and "ok", "mismatch", "endgroup" or
\* "return", for which d.count is what decode() gives back to its caller.
Does(e, ret) == [d |-> e, ret |-> ret, val |-> <<>>]
Gives(e, val) == [d |-> e, ret |-> "ok", val |-> val]
Returns(e, n) == Does([e EXCEPT !.count = n], "return")
Kept(r) == IF r.ret = "return" THEN r ELSE Does(Checkpoint(r.d), "ok")

Suspend(e) ==
  LET b == [e EXCEPT !.pc = e.last] IN
  IF b.ckpt = <<"res", 0>>
  THEN Returns([b EXCEPT !.buf = "res", !.ptr = 0], 0)
  ELSE Returns(SwitchTo([Fault(b, b.buf = "res" \/ b.ckpt[1] = "res") EXCEPT
                           !.ofs = @ + b.ckpt[2], !.res = <<>>], "res"),
               b.size - (Len(Cur(b)) - b.ckpt[2]))

\* Mutant of SuspendSave: the offset of the stream is not taken back when the
\* bytes of the user's buffer join those of the residual one.
SuspendSaveForward(e) ==
  LET b == [e EXCEPT !.pc = e.last] IN
  IF b.ckpt = <<"res", 0>>
  THEN Returns(SwitchTo([b EXCEPT !.res = @ \o b.param], "res"), b.size)
  ELSE LET c == [b EXCEPT !.ptr = b.ckpt[2]]
           saved == SubSeq(Cur(c), c.ptr + 1, DataEnd(c))
       IN Returns(SwitchTo([Fault(c, b.ckpt[1] = "res") EXCEPT !.res = saved, !.ofs = Offset(c)], "res"),
                  b.size)

SuspendSave(e) ==
  LET b == [e EXCEPT !.pc = e.last] IN
  IF b.ckpt = <<"res", 0>>
  THEN LET joined == b.res \o b.param IN
       Returns(SwitchTo([Fault(b, Len(joined) > MaxResidual) EXCEPT
                           !.ofs = IF b.buf = "user" THEN @ - Len(b.res) ELSE @,
                           !.res = joined], "res"), b.size)
  ELSE LET c == [b EXCEPT !.ptr = b.ckpt[2]]
           saved == SubSeq(Cur(c), c.ptr + 1, DataEnd(c))
       IN Returns(SwitchTo([Fault(c, b.ckpt[1] = "res" \/ Len(saved) > MaxResidual) EXCEPT
                              !.res = saved, !.ofs = Offset(c)], "res"), b.size)

\* getbytes() and getbytes_slow().
GetBytes(e, n) ==
  LET got == SubSeq(Cur(e), e.ptr + 1, e.ptr + Min({n, Left(e)}))
      a == [e EXCEPT !.ptr = @ + Len(got)]
      b == IF a.buf = "res" THEN AdvanceToUser(a) ELSE a
      rest == n - Len(got)
  IN IF rest = 0 THEN Gives(a, got)
     ELSE IF Left(b) >= rest
     THEN Gives([b EXCEPT !.ptr = @ + rest], got \o SubSeq(Cur(b), b.ptr + 1, b.ptr + rest))
     ELSE IF b.delim # NoDelim THEN Suspend(SetErr(b))
     ELSE SuspendSave(b)

\* peekbytes(): at most n bytes, without moving.
Peek(e, n) ==
  LET got == SubSeq(Cur(e), e.ptr + 1, e.ptr + Min({n, Left(e)})) IN
  IF Len(got) = n \/ e.buf = "user" THEN got
  ELSE got \o SubSeq(e.param, 1, Min({n - Len(got), Len(e.param)}))

Skip(e, n) ==
  LET b == Fault(e, (e.buf = "res" /\ e.size # 0) \/ e.skip # 0)
      len == Len(Cur(b))
  IN IF n > DelimRemaining(b) THEN Suspend(SetErr(b))
     ELSE IF len - b.ptr >= n THEN Does([Fault(b, Left(b) < n) EXCEPT !.ptr = @ + n], "ok")
     ELSE LET more == n - Left(b) IN
          Returns(SwitchTo([b EXCEPT !.pc = b.last, !.skip = more, !.ofs = @ + len, !.res = <<>>], "res"),
                  b.size + more)

(***************************************************************************)
(* Values.                                                                 *)

More(byte) == byte >= 128

\* decode_varint(): bytes to the first without the high bit; the fast paths
\* for one byte and for ten in the buffer give the same.
NextByte(p) ==
  IF p.ret # "ok" \/ (p.val # <<>> /\ ~More(Last(p.val))) THEN p
  ELSE [GetBytes(p.d, 1) EXCEPT !.val = p.val \o @]
Terminated(v) == IF v.ret = "ok" /\ More(Last(v.val)) THEN Suspend(SetErr(v.d)) ELSE v
DecodeVarint(e) ==
  LET upTo[n \in 0..VarintLen] == IF n = 0 THEN Gives(e, <<>>) ELSE NextByte(upTo[n - 1])
  IN Terminated(upTo[VarintLen])

Number(bytes) == FoldLeftDomain(LAMBDA n, i : n + (bytes[i] % 128) * (128 ^ (i - 1)), 0, bytes)

\* decode_v32(): tags and lengths.
Within32(v) ==
  IF v.ret # "ok" THEN v
  ELSE IF Number(v.val) > V32Max THEN Suspend(SetErr(v.d))
  ELSE [v EXCEPT !.val = Number(@)]
DecodeV32(e) == Within32(DecodeVarint(e))

Push(e, end, group) ==
  IF end > Top(e).end \/ Len(e.stack) = MaxNesting THEN Suspend(SetErr(e))
  ELSE Does([e EXCEPT !.stack = Append(@, Frame(end, group))], "ok")

Pop(e) == [e EXCEPT !.stack = Front(@)]

\* The bytes of a tag, at most three.
EncodedTag(num, wt) ==
  LET t == num * 8 + wt IN
  IF t < 128 THEN <<t>>
  ELSE IF t < 128 * 128 THEN <<128 + (t % 128), t \div 128>>
  ELSE <<128 + (t % 128), 128 + ((t \div 128) % 128), t \div (128 * 128)>>

Took(g) == Does(Fault(g.d, g.ret # "ok"), "ok")
CheckTagSlow(e, tag) ==
  LET seen == Peek(e, Len(tag)) IN
  IF seen = tag THEN Took(GetBytes(e, Len(tag)))
  ELSE IF seen = SubSeq(tag, 1, Len(seen)) /\ Len(seen) < Len(tag) THEN SuspendSave(e)
  ELSE Does(e, "mismatch")

\* The value of an unknown field, after its tag.
SkipLength(n) == IF n.ret = "ok" THEN Skip(n.d, n.val) ELSE n
SkipValue(e, num, wt) ==
  CASE num = 0 -> Suspend(SetErr(e))
    [] num # 0 /\ wt = 5 -> Skip(e, 4)
    [] num # 0 /\ wt = 1 -> Skip(e, 8)
    [] num # 0 /\ wt = 0 -> DecodeVarint(e)
    [] num # 0 /\ wt = 2 -> SkipLength(DecodeV32(e))
    [] num # 0 /\ wt = 3 -> Push(e, Top(e).end, -num)
    [] num # 0 /\ wt = 4 -> IF num = -Top(e).group THEN Does(Pop(e), "ok")
                            ELSE IF num = Top(e).group THEN Does(e, "endgroup")
                            ELSE Suspend(SetErr(e))
    [] OTHER -> Suspend(SetErr(e))

\* upb_pbdecoder_skipunknown(): one unknown field, or, in an unknown group, all
\* fields up to its end, with a checkpoint after each.
SkipTagged(t) == IF t.ret # "ok" THEN t ELSE SkipValue(t.d, t.val \div 8, t.val % 8)
SkipField(p) ==
  IF p.ret # "ok" \/ Top(p.d).group >= 0 THEN p ELSE SkipTagged(DecodeV32(Checkpoint(p.d)))
SkipFields(r, fuel) ==
  LET upTo[n \in 0..fuel] == IF n = 0 THEN r ELSE SkipField(upTo[n - 1]) IN upTo[fuel]
Fuel == 6   \* more fields than an unknown group of Inputs has, its end included
SkipUnknown(e, num, wt) == SkipFields(SkipValue(e, num, wt), Fuel)
SkipResumed(e) == SkipFields(SkipTagged(DecodeV32(e)), Fuel)

\* Where the table of the top frame leads for a tag.
Targets(e, num, wt) == {t[3] : t \in {u \in Table[Top(e).base] : u[1] = num /\ u[2] = wt}}
GotoEndMsg(e) == [e EXCEPT !.pc = Top(e).base + CHOOSE o \in Targets(e, 0, 0) : TRUE]

\* dispatch(): to the field of the tag, or, over an unknown one, back to the
\* test for the end of the message before the instruction that asked.
Skipped(s) == IF s.ret = "endgroup" THEN Does(GotoEndMsg(s.d), "ok") ELSE s
Dispatched(t) ==
  LET num == t.val \div 8
      wt == t.val % 8
  IN IF t.ret # "ok" THEN t
     ELSE IF num # 0 /\ Targets(t.d, num, wt) # {}
     THEN Does([t.d EXCEPT !.pc = Top(t.d).base + CHOOSE o \in Targets(t.d, num, wt) : TRUE], "ok")
     ELSE Skipped(SkipUnknown([t.d EXCEPT !.last = @ - 1, !.pc = t.d.last - 1], num, wt))
DispatchTag(e) == Dispatched(DecodeV32(e))

(***************************************************************************)
(* The caller.                                                             *)

\* upb_pbdecoder_startbc(), on a decoder that was reset.
DecoderInit ==
  /\ input \in Inputs
  /\ fed = 0 /\ mode = "idle" /\ out = <<>>
  /\ d = [pc |-> Entry, last |-> Entry, calls |-> <<Halt>>,
          stack |-> <<Frame(Unlimited, 0)>>, buf |-> "res", ptr |-> 0, res |-> <<>>,
          param |-> <<>>, size |-> 0, ofs |-> 0, delim |-> NoDelim, ckpt |-> <<"res", 0>>,
          skip |-> 0, count |-> 0, err |-> FALSE, fault |-> FALSE]

\* upb_pbdecoder_resume(): the rest of what was to be skipped, then the bytes
\* kept from the last buffer or the new ones, then the unknown group it is in.
SkipNew(e) ==
  IF e.skip # 0 /\ e.skip >= e.size
  THEN [e EXCEPT !.skip = @ - e.size, !.ofs = @ + e.size, !.param = <<>>] ELSE e
KeptOrNew(e) ==
  IF e.res # <<>> THEN Fault(e, <<e.buf, e.ptr>> # <<"res", 0>>) ELSE SwitchTo(e, "user")
SkipRest(e) ==
  IF e.skip = 0 THEN Does([e EXCEPT !.ckpt = <<e.buf, e.ptr>>], "ok")
  ELSE Kept(Skip([e EXCEPT !.ckpt = <<e.buf, e.ptr>>, !.skip = 0], e.skip))
SkipGroup(s) ==
  IF s.ret # "ok" \/ Top(s.d).group >= 0 THEN s ELSE Kept(SkipResumed(s.d))
Resume(e, bytes) ==
  SkipGroup(SkipRest(KeptOrNew(SkipNew(
    [Fault(e, e.skip # 0 /\ e.res # <<>>) EXCEPT !.size = Len(bytes), !.param = bytes]))))

Enters(r, running, returned) == d' = r.d /\ mode' = IF r.ret = "return" THEN returned ELSE running

\* upb_pbdecoder_decode() of the next n bytes.
Feed(n) ==
  /\ mode = "idle" /\ fed + n <= Len(input.bytes)
  /\ Enters(Resume(d, SubSeq(input.bytes, fed + 1, fed + n)), "running", "returned")
  /\ UNCHANGED <<input, fed, out>>

\* decode() has returned: the caller goes on after the bytes it took.
Returned ==
  /\ mode = "returned"
  /\ fed' = fed + Min({d.count, d.size})
  /\ mode' = IF d.err THEN "ended" ELSE "idle"
  /\ UNCHANGED <<input, d, out>>

\* upb_pbdecoder_end(): nothing may be left over; the message, and a list that
\* may go on, end here.  Execution goes back to the test for the end before
\* the tag it stopped at.
End ==
  /\ mode = "idle" /\ fed = Len(input.bytes)
  /\ IF d.res # <<>> \/ d.skip # 0 \/ Top(d).end # Unlimited
     THEN d' = SetErr(d) /\ mode' = "ended"
     ELSE LET end == Offset(d)
              test == d.pc - 1
              rewind == test \in DOMAIN Program /\ d.pc # Entry
                          /\ Program[test].op = "CHECKDELIM"
          IN Enters(Resume([d EXCEPT !.pc = IF rewind THEN test ELSE @,
                                     !.stack = [f \in 1..Len(@) |->
                              IF f \in {1, Len(@)} THEN [@[f] EXCEPT !.end = end] ELSE @[f]]], <<>>),
                    "ending", "closed")
  /\ UNCHANGED <<input, fed, out>>

\* The run for the end of the input is over.
Closed ==
  /\ mode = "closed"
  /\ mode' = "ended"
  /\ d' = IF d.calls = <<>> THEN d ELSE SetErr(d)
  /\ UNCHANGED <<input, fed, out>>

(***************************************************************************)
(* run_decoder_vm(): one action per kind of instruction.                    *)

Running == mode \in {"running", "ending"}
Instr == IF d.pc = Halt THEN [op |-> "HALT", arg |-> 0, size |-> 1, ofs |-> 0] ELSE Program[d.pc]
\* The decoder when an instruction has been fetched.
Fetched == [Fault(d, d.buf = "res" /\ d.ptr = Len(d.res)) EXCEPT
              !.last = d.pc, !.pc = @ + Instr.size]
Arg == Instr.arg
Jumped(e) == [e EXCEPT !.pc = @ + Instr.ofs]

\* The end of an instruction: the return to the caller, or the next one.
Then(r) ==
  /\ d' = r.d
  /\ mode' = IF r.ret # "return" THEN mode ELSE IF mode = "ending" THEN "closed" ELSE "returned"
  /\ UNCHANGED <<input, fed>>
Emits(op) == out' = Append(out, <<op, Arg, <<>>>>)

HandsOver(r) ==
  /\ Then(Kept(r))
  /\ out' = IF r.ret = "ok" THEN Append(out, <<"VALUE", Arg[1], r.val>>) ELSE out
ParseValue ==
  /\ Running /\ Instr.op = "PARSE"
  /\ HandsOver(IF Arg[2] = 0 THEN DecodeVarint(Fetched) ELSE GetBytes(Fetched, IF Arg[2] = 5 THEN 4 ELSE 8))

SetDispatch ==
  /\ Running /\ Instr.op = "SETDISPATCH"
  /\ Then(Does([Fetched EXCEPT !.stack[Len(d.stack)].base = d.pc], "ok"))
  /\ UNCHANGED out

Callback ==
  /\ Running
  /\ Instr.op \in {"STARTMSG", "ENDMSG", "STARTSEQ", "ENDSEQ", "STARTSUBMSG", "ENDSUBMSG", "ENDSTR"}
  /\ Then(Does(Fetched, "ok"))
  /\ Emits(Instr.op)

\* A string of length 0 has no part.
StartStr ==
  /\ Running /\ Instr.op = "STARTSTR"
  /\ Then(Does([Fetched EXCEPT !.pc = @ + (IF DelimRemaining(d) = 0 THEN 1 ELSE 0)], "ok"))
  /\ Emits("STARTSTR")

\* A part of a string: what is in the buffer, or as much as its handler takes.
String ==
  /\ Running /\ Instr.op = "STRING"
  /\ \E n \in IF input \in ShortReads /\ Left(d) > 0 THEN 1..Left(d) ELSE {Left(d)} :
       LET e == [Fetched EXCEPT !.ptr = @ + n]
           again == [e EXCEPT !.pc = @ - 1]
       IN /\ out' = [out EXCEPT ![Len(out)] = <<@[1], @[2], @[3] \o SubSeq(Cur(d), d.ptr + 1, d.ptr + n)>>]
          /\ IF n < Left(d) \/ d.delim = NoDelim
             THEN Then(Suspend(IF n > 0 THEN Checkpoint(again) ELSE again))
             ELSE Then(Kept(Does(e, "ok")))

PushTagDelim ==
  /\ Running /\ Instr.op = "PUSHTAGDELIM"
  /\ Then(Push(Fetched, Top(d).end, Arg))
  /\ UNCHANGED out

SetBigGroupNum ==
  /\ Running /\ Instr.op = "SETBIGGROUPNUM"
  /\ Then(Does([Fetched EXCEPT !.stack[Len(d.stack)].group = Arg], "ok"))
  /\ UNCHANGED out

PopFrame ==
  /\ Running /\ Instr.op = "POP"
  /\ Then(Does(Pop(Fault(Fetched, Len(d.stack) = 1)), "ok"))
  /\ UNCHANGED out

Delimited(p) == IF p.ret # "ok" THEN p ELSE Does(SetDelimEnd(p.d), "ok")
PushLength(n) == IF n.ret # "ok" THEN n ELSE Delimited(Push(n.d, Offset(n.d) + n.val, 0))
PushLenDelim ==
  /\ Running /\ Instr.op = "PUSHLENDELIM"
  /\ Then(Kept(PushLength(DecodeV32(Fetched))))
  /\ UNCHANGED out

SetDelim ==
  /\ Running /\ Instr.op = "SETDELIM"
  /\ Then(Does(SetDelimEnd(Fetched), "ok"))
  /\ UNCHANGED out

CheckDelim ==
  /\ Running /\ Instr.op = "CHECKDELIM"
  /\ LET e == Fault(Fetched, d.delim # NoDelim /\ d.ptr > d.delim) IN
     Then(Does(IF d.ptr = d.delim THEN Jumped(e) ELSE e, "ok"))
  /\ UNCHANGED out

Call ==
  /\ Running /\ Instr.op = "CALL"
  /\ Then(Does([Jumped(Fetched) EXCEPT !.calls = Append(@, Fetched.pc)], "ok"))
  /\ UNCHANGED out

Ret ==
  /\ Running /\ Instr.op = "RET"
  /\ Then(Does([Fault(Fetched, d.calls = <<>>) EXCEPT !.pc = Last(d.calls), !.calls = Front(@)], "ok"))
  /\ UNCHANGED out

Branch ==
  /\ Running /\ Instr.op = "BRANCH"
  /\ Then(Does(Jumped(Fetched), "ok"))
  /\ UNCHANGED out

\* A tag that was not the expected one: another field, or out of a loop.
BadTag(e) == IF Instr.ofs = 0 THEN Kept(DispatchTag(e)) ELSE Does(Jumped(e), "ok")

CheckTagFast(e, tag) ==
  IF SubSeq(Cur(d), d.ptr + 1, d.ptr + Len(tag)) = tag THEN Does([e EXCEPT !.ptr = @ + Len(tag)], "ok")
  ELSE Does(e, "mismatch")
Matched(r) == IF r.ret = "mismatch" THEN BadTag(Fetched) ELSE Kept(r)

Tag ==
  /\ Running /\ Instr.op \in {"TAG1", "TAG2", "TAGN"}
  /\ LET tag == EncodedTag(Arg[1], Arg[2])
     IN Then(IF Instr.op # "TAGN" /\ Left(d) = 0 THEN Suspend(Fetched)
             ELSE Matched(IF Instr.op # "TAGN" /\ Left(d) >= Len(tag)
                          THEN CheckTagFast(Fetched, tag) ELSE CheckTagSlow(Fetched, tag)))
  /\ UNCHANGED out

DispatchOp ==
  /\ Running /\ Instr.op = "DISPATCH"
  /\ Then(Kept(DispatchTag(Fetched)))
  /\ UNCHANGED out

HaltOp ==
  /\ Running /\ Instr.op = "HALT"
  /\ Then(Returns(Fetched, d.size))
  /\ UNCHANGED out

DecoderNext ==
  \/ \E n \in 1..Len(input.bytes) : Feed(n)
  \/ Returned \/ End \/ Closed
  \/ ParseValue \/ SetDispatch \/ Callback \/ StartStr \/ String
  \/ PushTagDelim \/ SetBigGroupNum \/ PopFrame \/ PushLenDelim \/ SetDelim \/ CheckDelim
  \/ Call \/ Ret \/ Branch \/ Tag \/ DispatchOp \/ HaltOp

DecoderSpec == DecoderInit /\ [][DecoderNext]_decoderVars

(***************************************************************************)

\* The decoder's pointers are in their buffers, its stacks within bounds.
DecoderTypeOK ==
  /\ mode \in {"idle", "running", "returned", "ending", "closed", "ended"}
  /\ fed \in 0..Len(input.bytes)
  /\ d.buf \in {"res", "user"} /\ d.ptr \in 0..Len(Cur(d))
  /\ d.delim \in {NoDelim} \cup 0..Len(Cur(d))
  /\ Len(d.res) <= MaxResidual /\ Len(d.stack) \in 1..MaxNesting
  /\ Len(d.calls) <= MaxNesting + 1

\* No assertion of the decoder fails.
DecoderNoFault == ~d.fault

\* Between calls the decoder knows where it is in the stream: its offset, the
\* bytes it keeps and those it will skip add up to what the caller gave it.
OffsetsAgree ==
  mode = "idle" => /\ d.ptr = 0
                   /\ d.ofs + Len(d.res) = fed
                   /\ d.res = SubSeq(input.bytes, fed - Len(d.res) + 1, fed)

\* The calls that carry data, without those that group the elements of lists.
Leaves(events) == SelectSeq(events, LAMBDA e : e[1] \notin {"STARTSEQ", "ENDSEQ"})

\* "Decoding is fully resumable" (line 9236): wherever the input is cut, the
\* handlers are called for the same message as if it came in one piece.
SplitsDoNotMatter ==
  IF mode = "ended" /\ input.whole
  THEN ~d.err /\ Leaves(out) = input.leaves
  ELSE \A i \in 1..(Len(Leaves(out)) - 1) : Leaves(out)[i] = input.leaves[i]

\* Input that stops in the middle of a value, a string, a submessage or a group
\* is refused: what upb_pbdecoder_end() checks ("Unexpected EOF inside submessage
\* or group", line 10190).
EofRefused == mode = "ended" /\ ~input.whole => d.err

\* Each list, string and submessage is ended by the handler of its own field,
\* before what it is in ends: replaying the calls on a stack of open fields.
Opens == {"STARTMSG", "STARTSEQ", "STARTSUBMSG", "STARTSTR"}
Closer(op) == CASE op = "STARTMSG" -> "ENDMSG" [] op = "STARTSEQ" -> "ENDSEQ"
                [] op = "STARTSUBMSG" -> "ENDSUBMSG" [] op = "STARTSTR" -> "ENDSTR"
Open ==
  FoldLeft(LAMBDA st, e :
             IF st = <<"bad">> THEN st
             ELSE IF e[1] \in Opens THEN Append(st, <<Closer(e[1]), e[2]>>)
             ELSE IF e[1] = "VALUE" THEN st
             ELSE IF st # <<>> /\ Last(st) = <<e[1], e[2]>> THEN Front(st)
             ELSE <<"bad">>, <<>>, out)
CallsNested == Open # <<"bad">> /\ (mode = "ended" /\ ~d.err => Open = <<>>)
=============================================================================
