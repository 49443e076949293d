---------------------------- MODULE MCUpbSchema ------------------------------
(* Small instances of upb's definitions and of the descriptor pool: part    *)
(* says which one.                                                          *)
EXTENDS Integers, Sequences, FiniteSets, TLC

CONSTANTS
  Part, Careless,
  f1, f2, m1, m2, o1, e1, p1,                                  \* clients of the setters
  g1, g2, g3, g4, n1, n2, n3, q1, q2, q3, d1, d2, s1, s2       \* the pool

VARIABLES part, schema, rd, input, symtab, registry, todo, step

A == <<"a">>
B == <<"b">>
\* Two fields, a message and a oneof.
Members == INSTANCE DefsClient
  WITH Field <- {f1, f2}, Msg <- {m1}, Oneof <- {o1}, Enum <- {}, File <- {},
       Name <- {A, B}, ValueName <- {}, SymbolName <- {}, FieldNumber <- {1, 2}, FieldType <- {"int32", "message"},
       EnumNumber <- {}, Syntax <- {}
\* A field and what it may refer to, its own message among it.
Types == INSTANCE DefsClient
  WITH Field <- {f1}, Msg <- {m1}, Oneof <- {}, Enum <- {e1}, File <- {},
       Name <- {A}, ValueName <- {A, B}, SymbolName <- {A}, FieldNumber <- {1}, FieldType <- {"enum", "message"},
       EnumNumber <- {0, 1}, Syntax <- {}
\* A file of two messages, one of which may refer to the other.
Files == INSTANCE DefsClient
  WITH Field <- {f1}, Msg <- {m1, m2}, Oneof <- {}, Enum <- {}, File <- {p1},
       Name <- {A}, ValueName <- {}, SymbolName <- {}, FieldNumber <- {1}, FieldType <- {"message"},
       EnumNumber <- {}, Syntax <- {"proto2", "proto3"}

-----------------------------------------------------------------------------
(* Files for the pool: a message with two fields of many kinds, with and    *)
(* without a nested message that has a oneof of its own, and then a second  *)
(* file that uses the first, or clashes with it.                            *)
FieldOf(n, number, type) ==
  [name |-> n, number |-> number, label |-> "optional", type |-> type, typeName |-> <<>>,
   default |-> <<>>, lazy |-> FALSE, oneof |-> <<>>]
EnumOf(n, values) == [name |-> n, values |-> values]
MsgOf(n, fields) ==
  [name |-> n, fields |-> fields, nested |-> <<>>, enums |-> <<>>, mapEntry |-> FALSE, oneofs |-> <<>>]

E == EnumOf(<<"E">>, <<<<<<"x">>, 0>>, <<<<"y">>, 1>>>>)

Kinds(n, number) ==
  LET int == FieldOf(n, number, "int32")
      str == FieldOf(n, number, "string")
      enum == [FieldOf(n, number, "enum") EXCEPT !.typeName = <<"p", "E">>]
      self == [FieldOf(n, number, "message") EXCEPT !.typeName = <<"p", "M">>]
  IN {int, [int EXCEPT !.default = <<"7">>], [int EXCEPT !.default = <<"x">>],
      [str EXCEPT !.default = <<"x">>], enum, [enum EXCEPT !.default = <<"y">>],
      [enum EXCEPT !.default = <<"z">>], [enum EXCEPT !.typeName = <<"p", "M">>],
      self, [self EXCEPT !.lazy = TRUE], [self EXCEPT !.typeName = <<"p", "M", "N">>, !.label = "repeated"],
      [self EXCEPT !.typeName = <<"p", "M", "N">>], [self EXCEPT !.default = <<"x">>],
      [int EXCEPT !.oneof = <<0>>], [str EXCEPT !.oneof = <<1>>]}

Nested ==
  LET inner == [FieldOf(<<"a">>, 1, "int32") EXCEPT !.oneof = <<0>>]
      plain == FieldOf(<<"b">>, 2, "string")
  IN {<<>>,
      <<[MsgOf(<<"N">>, <<inner, plain>>) EXCEPT !.oneofs = <<<<"o">>>>, !.enums = <<E>>]>>,
      <<[MsgOf(<<"N">>, <<plain>>) EXCEPT !.mapEntry = TRUE]>>}

Message(a, b, nested) ==
  [MsgOf(<<"M">>, <<a, b>>) EXCEPT
     !.nested = nested,
     !.oneofs = IF <<1>> \in {a.oneof, b.oneof} THEN <<<<"o">>, <<"q">>>>
                ELSE IF <<0>> \in {a.oneof, b.oneof} THEN <<<<"o">>>> ELSE <<>>]

FileOf(package, msgs, enums, syntax) ==
  [package |-> package, msgs |-> msgs, enums |-> enums, syntax |-> syntax]

First == {FileOf(<<"p">>, <<Message(a, b, nested)>>, <<E>>, "proto3")
            : a \in Kinds(<<"a">>, 1), b \in Kinds(<<"b">>, 2), nested \in Nested}

User == MsgOf(<<"K">>, <<[FieldOf(<<"a">>, 1, "message") EXCEPT !.typeName = <<"p", "M">>]>>)
Second ==
  {FileOf(<<>>, <<User>>, <<>>, "proto2"),
   FileOf(<<"p">>, <<User, MsgOf(<<"M">>, <<>>)>>, <<>>, "proto3"),
   FileOf(<<"p">>, <<MsgOf(<<>>, <<>>)>>, <<>>, "proto3"),
   FileOf(<<"q">>, <<>>, <<EnumOf(<<"E">>, <<>>)>>, "proto3"),
   FileOf(<<"q">>, <<>>, <<>>, "proto3")}

Simple == FileOf(<<"p">>, <<Message(FieldOf(<<"a">>, 1, "int32"), FieldOf(<<"b">>, 2, "string"), <<>>)>>,
                 <<E>>, "proto3")

Batches == {<<p>> : p \in First} \cup {<<Simple, p>> : p \in Second}

Pool == INSTANCE DescriptorPool
  WITH Field <- {g1, g2, g3, g4}, Msg <- {n1, n2, n3}, Oneof <- {q1, q2, q3}, Enum <- {d1, d2},
       File <- {s1, s2}, Name <- {}, ValueName <- {}, SymbolName <- {}, FieldNumber <- {},
       FieldType <- {}, EnumNumber <- {}, Syntax <- {}

-----------------------------------------------------------------------------
others == <<rd, input, symtab, registry, todo, step>>

SchemaInit ==
  /\ part \in Part
  /\ CASE part = "members" -> Members!DefsInit
       [] part = "types" -> Types!DefsInit
       [] part = "files" -> Files!DefsInit
       [] OTHER -> TRUE
  /\ IF part = "pool" THEN Pool!PoolInit
     ELSE rd = "" /\ input = "" /\ symtab = "" /\ registry = "" /\ todo = "" /\ step = ""
SchemaNext ==
  /\ UNCHANGED part
  /\ \/ part = "members" /\ Members!DefsNext /\ UNCHANGED others
     \/ part = "types" /\ Types!DefsNext /\ UNCHANGED others
     \/ part = "files" /\ Files!DefsNext /\ UNCHANGED others
     \/ part = "pool" /\ Pool!PoolNext
SchemaSpec == SchemaInit /\ [][SchemaNext]_<<part, schema, others>>

SchemaSymmetry == Permutations({f1, f2}) \cup Permutations({m1, m2})

-----------------------------------------------------------------------------
(* Whatever the order of the setters' calls, none of their assertions fails, *)
(* no table takes two members of one name or number, messages and oneofs    *)
(* find a member where the member says it is, and the references an object  *)
(* holds are the ones its visit function reports.                           *)
DefinitionsAgree ==
  /\ part = "members" => /\ Members!DefsTypeOK /\ Members!DefsNoFault
                         /\ Members!MembersAgree /\ Members!RefsMatchVisits
  /\ part = "types" => /\ Types!DefsTypeOK /\ Types!DefsNoFault
                       /\ Types!MembersAgree /\ Types!RefsMatchVisits /\ Types!EnumsAgree
  /\ part = "files" => /\ Files!DefsTypeOK /\ Files!DefsNoFault
                       /\ Files!RefsMatchVisits /\ Files!FileSyntaxAgrees

(* A frozen message is complete, and so is all it refers to; its handlers   *)
(* have selectors of their own.                                             *)
FrozenIsValid ==
  /\ part = "members" => Members!FrozenValid /\ Members!SelectorsApart
  /\ part = "types" => Types!FrozenValid /\ Types!SelectorsApart
  /\ part = "files" => Files!FrozenValid

(* Freezing an enum field keeps the number it defaults to.                  *)
FreezingKeepsDefaults == [][part = "types" => Types!FreezeKeepsDefaultsStep]_<<part, schema, others>>

(* What was read from a file is what its descriptor says, each definition   *)
(* under its qualified name and with its own members; a reader that is done *)
(* owns nothing; the symbol table holds all that its definitions refer to,  *)
(* and the extension finds one descriptor by class, by name and definition. *)
PoolFaithful ==
  part = "pool" => /\ Pool!PoolTypeOK /\ Pool!PoolNoFault
                   /\ Pool!FileAsDescribed /\ Pool!ReaderReleases
                   /\ Pool!SymtabClosed /\ Pool!RegistryAgrees

(* A file is added to the symbol table as a whole or not at all.            *)
AddedAsAWhole == [][part = "pool" => Pool!AddedAsAWholeStep]_<<part, schema, others>>
=============================================================================
