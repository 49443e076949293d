------------------------------ MODULE MCUpbCodec ------------------------------
(* Small instances of the protobuf compiler, decoder and encoder of upb and   *)
(* of its JSON printer and parser, each explored on its own: part says which  *)
(* one a behaviour is of.                                                    *)
EXTENDS MCJson, PbEncoder, FiniteSetsExt

CONSTANTS Part, A, B, Other

VARIABLES part,
          schema, pass, which, todo, code, pc, forward, backward, codeBase, disp, failed,
          input, fed, mode, d, out

compilerVars == <<schema, pass, which, todo, code, pc, forward, backward, codeBase, disp, failed>>
decoderVars == <<input, fed, mode, d, out>>

F(num, type, wt, seq, sub) == [num |-> num, type |-> type, wt |-> wt, seq |-> seq, sub |-> sub]

(***************************************************************************)
(* The compiler: messages of up to two fields, alone or calling each other. *)

OneFields ==
  {F(n, "prim", 0, s, A) : n \in {1, 3000}, s \in BOOLEAN}
    \cup {F(n, "delim", 2, s, A) : n \in {2, 20}, s \in BOOLEAN}
    \cup {F(3, "message", 2, s, m) : s \in BOOLEAN, m \in {A, Other}}
    \cup {F(n, "group", 3, s, A) : n \in {4, 3000}, s \in BOOLEAN}
OneSchemas ==
  {[m \in {A} |-> fs] : fs \in {<<>>} \cup {<<f>> : f \in OneFields}
     \cup {<<f, g>> : f \in {h \in OneFields : h.num < 3}, g \in {h \in OneFields : h.num > 2}}}
TwoFields == {F(1, "prim", 0, TRUE, A), F(2, "message", 2, TRUE, A), F(3, "message", 2, FALSE, B),
              F(3000, "group", 3, FALSE, B)}
TwoSchemas == [{A, B} -> {<<>>} \cup {<<f>> : f \in TwoFields} \cup
                          {<<f, g>> : f \in {h \in TwoFields : h.num < 3}, g \in {h \in TwoFields : h.num > 2}}]

One == INSTANCE PbCompiler
         WITH Message <- {A}, Handled <- {"ENDSEQ"}, BigNumber <- 2500, MaxShort <- 127, Schemas <- OneSchemas
Two == INSTANCE PbCompiler
         WITH Message <- {A, B}, Handled <- {"STARTMSG", "ENDMSG", "ENDSTR", "ENDSUBMSG"}, BigNumber <- 2500,
              MaxShort <- 127, Schemas <- TwoSchemas

(***************************************************************************)
(* The decoder: a message with a field of every kind, that contains itself  *)
(* and a message without fields, and fields nobody knows.                    *)

Fields == <<F(1, "prim", 0, FALSE, A), F(2, "delim", 2, FALSE, A), F(3, "prim", 0, TRUE, A),
            F(4, "message", 2, FALSE, A), F(5, "group", 3, FALSE, A), F(6, "prim", 5, FALSE, A),
            F(8, "message", 2, FALSE, B), F(20, "delim", 2, TRUE, A), F(2500, "prim", 0, FALSE, A),
            F(2700, "group", 3, FALSE, A)>>
Callbacks == {"STARTMSG", "ENDMSG", "STARTSEQ", "ENDSEQ", "ENDSTR", "ENDSUBMSG"}
Code == INSTANCE PbCode WITH Message <- {A, B}, Handled <- Callbacks, BigNumber <- 2600
Schema == [m \in {A, B} |-> IF m = A THEN Fields ELSE <<>>]
Instructions == Code!Assembled(Schema)
Bytecode == FoldSet(LAMBDA i, f : (i.at :> i) @@ f, <<>>, Instructions)
EntryPoint == Code!Base(Schema, A)
DispatchOfA == Code!Dispatch(Schema, A)
DispatchOfB == Code!Dispatch(Schema, B)
Targets == EntryPoint :> DispatchOfA @@ Code!Base(Schema, B) :> DispatchOfB

\* Parts of a message: their bytes, and the calls that carry their data.
Piece(bytes, leaves) == [bytes |-> bytes, leaves |-> leaves]
Value(n, b) == <<"VALUE", n, b>>
Start == <<"STARTMSG", 0, <<>>>>
End == <<"ENDMSG", 0, <<>>>>
Str(n, b) == <<<<"STARTSTR", n, b>>, <<"ENDSTR", n, <<>>>>>>
Empty == Piece(<<>>, <<>>)
Within(n, leaves) == <<<<"STARTSUBMSG", n, <<>>>>, Start>> \o leaves \o <<End, <<"ENDSUBMSG", n, <<>>>>>>
In4(e) == Piece(<<34, Len(e.bytes)>> \o e.bytes, Within(4, e.leaves))
In5(e) == Piece(<<43>> \o e.bytes \o <<44>>, Within(5, e.leaves))
In8(e) == Piece(<<66, Len(e.bytes)>> \o e.bytes, Within(8, e.leaves))
In2700(e) == Piece(<<227, 168, 1>> \o e.bytes \o <<228, 168, 1>>, Within(2700, e.leaves))

Unknown == {Piece(<<56, 150, 1>>, <<>>), Piece(<<58, 2, 9, 9>>, <<>>), Piece(<<59, 8, 1, 60>>, <<>>),
            Piece(<<61, 1, 2, 3, 4>>, <<>>)}
Flat == Unknown \cup
        {Piece(<<8, 150, 1>>, <<Value(1, <<150, 1>>)>>),
         Piece(<<18, 0>>, Str(2, <<>>)), Piece(<<18, 2, 7, 9>>, Str(2, <<7, 9>>)),
         Piece(<<26, 2, 1, 2>>, <<Value(3, <<1>>), Value(3, <<2>>)>>), Piece(<<24, 1>>, <<Value(3, <<1>>)>>),
         Piece(<<53, 1, 2, 3, 4>>, <<Value(6, <<1, 2, 3, 4>>)>>),
         Piece(<<162, 1, 1, 9>>, Str(20, <<9>>)),
         Piece(<<160, 156, 1, 5>>, <<Value(2500, <<5>>)>>)}
Nested == {In4(e) : e \in Flat \cup {Empty}} \cup {In5(e) : e \in Flat \cup {Empty}}
            \cup {In8(e) : e \in Unknown \cup {Empty}} \cup {In2700(e) : e \in Unknown}
Then(e, f) == Piece(e.bytes \o f.bytes, e.leaves \o f.leaves)
Whole(e) == [bytes |-> e.bytes, leaves |-> <<Start>> \o e.leaves \o <<End>>, whole |-> TRUE]
Cut(e, f, n) == [bytes |-> e.bytes \o SubSeq(f.bytes, 1, n), leaves |-> <<Start>> \o e.leaves \o f.leaves,
                 whole |-> FALSE]

\* Whole messages, and messages that stop in the middle of their second part;
\* where a known group does not end is another matter, see CutGroups.
Messages ==
  {Whole(e) : e \in Flat \cup Nested \cup {Empty}} \cup {Whole(Then(e, f)) : e \in Flat, f \in Flat}
    \cup UNION {{Cut(e, f, n) : n \in 1..(Len(f.bytes) - 1)} :
                 e \in {Empty, Piece(<<8, 150, 1>>, <<Value(1, <<150, 1>>)>>)},
                 f \in Flat \cup {In4(g) : g \in Flat} \cup {In8(g) : g \in Unknown}}
\* Bytes that no message begins with: a varint that does not end, a tag that is
\* too large, field number 0, an end of a group that was not begun, a part that
\* is longer than the submessage it is in.
Malformed == {[bytes |-> b, leaves |-> <<Start>> \o Within(4, <<>>), whole |-> FALSE] :
                b \in {<<255, 255, 255, 1>>, <<255, 255, 127>>, <<0, 0>>, <<44>>, <<34, 2, 18, 3, 1, 2, 3>>,
                       <<34, 2, 58, 3, 1, 2, 3>>, <<59, 8, 1, 68>>, <<34, 1, 8, 1>>}}
ForSplits == Messages \cup Malformed
\* Messages whose strings are taken piece by piece.
ForStrings == {Whole(e) : e \in {Piece(<<18, 3, 7, 8, 9>>, Str(2, <<7, 8, 9>>)),
                                 In4(Piece(<<18, 2, 7, 9>>, Str(2, <<7, 9>>))),
                                 Piece(<<162, 1, 2, 8, 9, 162, 1, 0>>, Str(20, <<8, 9>>) \o Str(20, <<>>))}}
\* Messages that stop right behind the beginning of a known group, which end()
\* does not refuse: as Inputs they violate DecodersNest.
CutGroups == {Cut(Empty, In5(Empty), 1)}
SplitAnywhere == ForSplits \cup ForStrings

Decoder == INSTANCE PbDecoder
             WITH Program <- Bytecode, Table <- Targets, Entry <- EntryPoint, Inputs <- SplitAnywhere,
                  ShortReads <- ForStrings, VarintLen <- 3, V32Max <- 32767, MaxResidual <- 8, MaxNesting <- 4

(***************************************************************************)
(* The encoder: a field of every kind, lengths of two bytes from 8 on.       *)

E(num, type, seq, packed) == [num |-> num, type |-> type, seq |-> seq, packed |-> packed]
EncoderFields == {E(1, "varint", FALSE, FALSE), E(2, "string", FALSE, FALSE), E(3, "message", FALSE, FALSE),
                  E(1, "fixed32", TRUE, TRUE), E(3, "group", FALSE, FALSE)}
EncoderValues == [t \in {"varint", "fixed32"} |-> IF t = "varint" THEN {<<9, 1>>} ELSE {<<7, 7, 7, 7>>}]
Strings == {<<>>, <<5>>, <<5, 6, 6>>}

(***************************************************************************)

CodecInit ==
  /\ part \in Part
  /\ IF part = "two" THEN Two!CompilerInit
     ELSE One!CompilerInit /\ (part # "one" => schema = [m \in {A} |-> <<>>] /\ codeBase[A] = 0)
  /\ Decoder!DecoderInit /\ (part # "decoder" => input = CHOOSE i \in ForStrings : TRUE)
  /\ EncoderInit
  /\ CASE part = "json" -> Json!JsonInit \/ Json!OtherInit
       [] part = "pieces" -> Pieces!JsonInit
       [] OTHER -> message = NoValue /\ preserve = NoValue /\ calls = NoValue /\ printer = NoValue /\ js = NoValue

CodecNext ==
  /\ UNCHANGED part
  /\ \/ part = "one" /\ One!CompilerNext /\ UNCHANGED <<decoderVars, encoderVars, jsonVars>>
     \/ part = "two" /\ Two!CompilerNext /\ UNCHANGED <<decoderVars, encoderVars, jsonVars>>
     \/ part = "decoder" /\ Decoder!DecoderNext /\ UNCHANGED <<compilerVars, encoderVars, jsonVars>>
     \/ part = "encoder" /\ EncoderNext /\ UNCHANGED <<compilerVars, decoderVars, jsonVars>>
     \/ part = "json" /\ Json!JsonNext /\ UNCHANGED <<compilerVars, decoderVars, encoderVars>>
     \/ part = "pieces" /\ Pieces!JsonNext /\ UNCHANGED <<compilerVars, decoderVars, encoderVars>>

CodecSpec == CodecInit /\ [][CodecNext]_<<part, compilerVars, decoderVars, encoderVars, jsonVars>>

\* The code means what the fields of the messages call for, jumps, calls and
\* dispatch tables included, and dispatch() finds a test to go back to.
CodesAssembled ==
  /\ part = "one" => /\ One!CompilerTypeOK /\ One!CompilerNoFault
                     /\ One!CodeIsAssembled /\ One!CheckedBeforeDispatch
  /\ part = "two" => /\ Two!CompilerTypeOK /\ Two!CompilerNoFault
                     /\ Two!CodeIsAssembled /\ Two!CheckedBeforeDispatch
\* The message does not depend on where its input is cut: the decoder knows
\* where it is in the stream and neither loses nor repeats a byte.
DecodersResumable ==
  Decoder!DecoderTypeOK /\ Decoder!DecoderNoFault /\ Decoder!OffsetsAgree /\ Decoder!SplitsDoNotMatter
\* Every call that begins something is followed by the one that ends it, or the
\* message is refused, as it is when it stops in the middle.
DecodersNest == Decoder!CallsNested /\ Decoder!EofRefused
InJson == part \in {"json", "pieces"}
\* What is printed is the JSON of the message, and there is room for it.
PrintsJson ==
  InJson => Json!PrinterTypeOK /\ Json!PrinterNoFault /\ (js.text = <<>> => Json!PrintsJson)
\* What was printed is parsed as what it was, wherever it is cut; other texts
\* are refused; the parser stays in its stacks and buffers.
ReadsBack ==
  /\ part = "json" => Json!ParserTypeOK /\ Json!ParserNoFault /\ Json!ReadsBack /\ Json!RefusesOthers
  /\ part = "pieces" => Pieces!ParserTypeOK /\ Pieces!ParserNoFault /\ Pieces!ReadsBack
=============================================================================
