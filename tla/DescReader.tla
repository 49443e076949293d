----------------------------- MODULE DescReader ------------------------------
(***************************************************************************)
(* upb_descreader: the handlers that build definitions out of a file       *)
(* descriptor while the decoder parses it (upb.c).  A handler knows only   *)
(* the stack of the enclosing scopes and what it was told last, so it      *)
(* relies on the order in which the parts of a descriptor arrive.          *)
(*                                                                         *)
(* A descriptor is a record, and Events() the order of its parts on the    *)
(* wire: by field number, as protoc writes them.                           *)
(***************************************************************************)
EXTENDS Defs

VARIABLES
  rd,     \* the fields of the reader
  input   \* the calls of the parse that are to come

readerVars == <<schema, rd, input>>

NoReader ==
  [file |-> None, stack |-> <<>>, oneofs |-> <<>>, f |-> None,
   number |-> 0, name |-> None, sawNumber |-> FALSE, sawName |-> FALSE,
   default |-> None, errno |-> FALSE, failed |-> FALSE, owned |-> {}]

-----------------------------------------------------------------------------
(* The calls that the decoder makes for a descriptor.                       *)

FieldEvents(f) ==
     <<<<"startfield", None>>, <<"field_name", f.name>>, <<"field_number", f.number>>,
       <<"field_label", f.label>>, <<"field_type", f.type>>>>
  \o (IF f.typeName = None THEN <<>> ELSE <<<<"field_type_name", f.typeName>>>>)
  \o (IF f.default = None THEN <<>> ELSE <<<<"field_default", f.default>>>>)
  \o (IF f.lazy THEN <<<<"field_lazy", TRUE>>>> ELSE <<>>)
  \o (IF f.oneof = None THEN <<>> ELSE <<<<"field_oneof_index", f.oneof[1]>>>>)
  \o <<<<"field_end", None>>, <<"endfield", None>>>>

EnumEvents(e) ==
  <<<<"startenum", None>>, <<"enum_name", e.name>>>>
  \o FlattenSeq([i \in 1 .. Len(e.values) |->
                   <<<<"value_start", None>>, <<"value_name", e.values[i][1]>>,
                     <<"value_number", e.values[i][2]>>, <<"value_end", None>>>>])
  \o <<<<"enum_end", None>>>>

RECURSIVE MsgEvents(_)
MsgEvents(m) ==
     <<<<"startmsg", None>>, <<"msg_name", m.name>>>>
  \o FlattenSeq([i \in DOMAIN m.fields |-> FieldEvents(m.fields[i])])
  \o FlattenSeq([i \in DOMAIN m.nested |-> MsgEvents(m.nested[i])])
  \o FlattenSeq([i \in DOMAIN m.enums |-> EnumEvents(m.enums[i])])
  \o (IF m.mapEntry THEN <<<<"msg_map_entry", TRUE>>>> ELSE <<>>)
  \o [i \in DOMAIN m.oneofs |-> <<"oneof_name", m.oneofs[i]>>]
  \o <<<<"msg_end", None>>>>

Events(p) ==
     <<<<"startfile", None>>, <<"file_package", p.package>>>>
  \o FlattenSeq([i \in DOMAIN p.msgs |-> MsgEvents(p.msgs[i])])
  \o FlattenSeq([i \in DOMAIN p.enums |-> EnumEvents(p.enums[i])])
  \o <<<<"file_syntax", p.syntax>>, <<"file_end", None>>>>

-----------------------------------------------------------------------------
(* Helpers. *)

Unborn(s, S) == CHOOSE x \in S \ s.born : TRUE
Born(s, x) == [s EXCEPT !.born = @ \cup {x}]

Frame(r) == Last(r.stack)
FileDefs(s, r) == s.defs[r.file]

(* upb_descreader_top(): the message whose scope is innermost.              *)
Top(s, r) == FileDefs(s, r)[Frame(r).start]
LastDef(s, r) == Last(FileDefs(s, r))

(* start is the index of the first definition of the scope, from 0.         *)
StartContainer(s, r) ==
  [r EXCEPT !.stack = Append(@, [name |-> None, start |-> Len(FileDefs(s, r)),
                                 oneofStart |-> Len(r.oneofs), oneofIndex |-> 0])]

SetScopeName(r, n) == [r EXCEPT !.stack[Len(r.stack)].name = n]

(* upb_descreader_getoneof(): a oneof of the innermost message, created     *)
(* with those before it when it is first heard of.                          *)
GetOneof(s, r, index) ==
  LET at == index + Frame(r).oneofStart
      missing == at + 1 - Len(r.oneofs)
      new == IF missing <= 0 THEN <<>>
             ELSE [i \in 1 .. missing |-> SetToSeq(Oneof \ s.born)[i]]
      oneofs == r.oneofs \o new
  IN [s |-> [s EXCEPT !.born = @ \cup Range(new)],
      r |-> [r EXCEPT !.oneofs = oneofs, !.owned = @ \cup Range(new)],
      o |-> oneofs[at + 1]]

\* Mutant of Qualify: the message itself is taken for part of its scope.
QualifySelf(s, p, scope, start) ==
  [s EXCEPT !.name = [o \in Object |->
     IF \E i \in start .. Len(s.defs[p]) : i > 0 /\ s.defs[p][i] = o THEN scope \o @[o] ELSE @[o]]]

(* upb_descreader_qualify(): the names of all definitions from start on.    *)
Qualify(s, p, scope, start) ==
  [s EXCEPT !.name = [o \in Object |->
     IF \E i \in start + 1 .. Len(s.defs[p]) : s.defs[p][i] = o THEN scope \o @[o] ELSE @[o]]]

(* upb_descreader_endcontainer(): the message gets its oneofs, last first,  *)
(* and what it contains gets its name.                                      *)
EndContainer(s, r) ==
  LET mine == SubSeq(r.oneofs, Frame(r).oneofStart + 1, Len(r.oneofs))
      linked == FoldLeft(LAMBDA acc, o :
                           MsgAddOneof(Check(acc, MsgAddsOneof(acc, Top(s, r), o)), Top(s, r), o),
                         s, Reverse(mine))
  IN [s |-> Qualify(linked, r.file, Frame(r).name, Frame(r).start),
      r |-> [r EXCEPT !.oneofs = SubSeq(@, 1, Frame(r).oneofStart),
                      !.owned = @ \ Range(mine), !.stack = Front(@)]]

(* parse_default(): strtol() and an errno that is never reset before it.    *)
NumberOf == <<"1">> :> 1 @@ <<"7">> :> 7
ParseDefault(r) == r.default \in DOMAIN NumberOf /\ ~r.errno

-----------------------------------------------------------------------------
(* The handlers. *)

Call(what) == input # <<>> /\ ~rd.failed /\ Head(input)[1] = what /\ input' = Tail(input)
Value == Head(input)[2]

Fail == rd' = [rd EXCEPT !.failed = TRUE] /\ UNCHANGED schema

FilesetStartFile ==
  /\ Call("startfile")
  /\ LET p == Unborn(schema, File) IN
       /\ schema' = Born(schema, p)
       /\ rd' = StartContainer(schema', [rd EXCEPT !.file = p])

FileOnPackage == Call("file_package") /\ rd' = SetScopeName(rd, Value) /\ UNCHANGED schema

FileOnSyntax ==
  Call("file_syntax") /\ schema' = FileSetSyntax(schema, rd.file, Value) /\ UNCHANGED rd

FileEnd ==
  /\ Call("file_end")
  /\ LET e == EndContainer(schema, rd) IN schema' = e.s /\ rd' = e.r

(* file_startmsg() or msg_startmsg(), and msg_start() of what it returned.  *)
MsgStart ==
  /\ Call("startmsg")
  /\ LET m == Unborn(schema, Msg) IN
       /\ schema' = FileAddDef(Born(schema, m), rd.file, m)
       /\ rd' = StartContainer(schema', rd)

MsgName ==
  /\ Call("msg_name")
  /\ schema' = [schema EXCEPT !.name[Top(schema, rd)] = Value]
  /\ rd' = SetScopeName(rd, Value)

MsgOnMapEntry ==
  /\ Call("msg_map_entry")
  /\ schema' = [schema EXCEPT !.mapEntry[Top(schema, rd)] = TRUE]
  /\ rd' = [rd EXCEPT !.f = None]

MsgEnd ==
  /\ Call("msg_end")
  /\ IF schema.name[Top(schema, rd)] = None THEN Fail
     ELSE LET e == EndContainer(schema, rd) IN schema' = e.s /\ rd' = e.r

OneofName ==
  /\ Call("oneof_name")
  /\ LET g == GetOneof(schema, rd, Frame(rd).oneofIndex) IN
       /\ schema' = OneofSetName(g.s, g.o, Value)
       /\ rd' = [g.r EXCEPT !.stack[Len(rd.stack)].oneofIndex = @ + 1]

(* msg_startfield() and field_startmsg()                                    *)
MsgStartField ==
  /\ Call("startfield")
  /\ LET f == Unborn(schema, Field) IN
       /\ schema' = Born(schema, f)
       /\ rd' = [rd EXCEPT !.f = f, !.owned = @ \cup {f}, !.default = None]

FieldOnName ==
  Call("field_name") /\ schema' = SetName(schema, rd.f, Value) /\ UNCHANGED rd

FieldOnNumber ==
  Call("field_number") /\ schema' = SetNumber(schema, rd.f, Value) /\ UNCHANGED rd

FieldOnLabel ==
  Call("field_label") /\ schema' = [schema EXCEPT !.label[rd.f] = Value] /\ UNCHANGED rd

FieldOnType ==
  Call("field_type") /\ schema' = SetType(schema, rd.f, Value) /\ UNCHANGED rd

(* The type must have come before: it is asserted.                          *)
FieldOnTypeName ==
  /\ Call("field_type_name")
  /\ schema' = SetSubdefName(Check(schema, schema.type[rd.f] # "unset"), rd.f, Value)
  /\ UNCHANGED rd

FieldOnDefaultVal ==
  Call("field_default") /\ rd' = [rd EXCEPT !.default = Value] /\ UNCHANGED schema

FieldOnLazy ==
  Call("field_lazy") /\ schema' = [schema EXCEPT !.lazy[rd.f] = TRUE] /\ UNCHANGED rd

FieldOnOneofIndex ==
  /\ Call("field_oneof_index")
  /\ LET g == GetOneof(schema, rd, Value) IN
       /\ schema' = OneofAddField(Check(g.s, OneofAddsField(g.s, g.o, rd.f)), g.o, rd.f)
       /\ rd' = [g.r EXCEPT !.owned = @ \ {rd.f}]

(* field_endmsg(): the default is converted now that the type is known.     *)
FieldEndMsg ==
  /\ Call("field_end")
  /\ LET f == rd.f
         t == schema.type[f]
         s == Check(schema, /\ schema.number[f] # 0 /\ schema.name[f] # None
                            /\ (schema.subName[f] # None) = HasSubdef(schema, f))
     IN CASE rd.default = None -> schema' = s /\ UNCHANGED rd
          [] rd.default # None /\ t \in {"string", "enum"} ->
               schema' = SetDefaultStr(s, f, rd.default) /\ UNCHANGED rd
          [] rd.default # None /\ t = "int32" /\ ParseDefault(rd) ->
               schema' = SetDefaultInt32(s, f, NumberOf[rd.default]) /\ UNCHANGED rd
          [] rd.default # None /\ (t = "message" \/ (t = "int32" /\ ~ParseDefault(rd))) -> Fail

(* msg_endfield(): the fields of a oneof come with it.                      *)
MsgEndField ==
  /\ Call("endfield")
  /\ IF schema.oneof[rd.f] # None THEN UNCHANGED schema
     ELSE LET m == Top(schema, rd) IN
          schema' = MsgAddField(Check(schema, MsgAddsField(schema, m, rd.f)), m, rd.f)
  /\ rd' = [rd EXCEPT !.f = None,
                      !.owned = IF schema.oneof[rd.f] # None THEN @ ELSE @ \ {rd.f}]

(* file_startenum()                                                         *)
FileStartEnum ==
  /\ Call("startenum")
  /\ LET e == Unborn(schema, Enum) IN schema' = FileAddDef(Born(schema, e), rd.file, e)
  /\ UNCHANGED rd

EnumOnName ==
  /\ Call("enum_name")
  /\ schema' = [schema EXCEPT !.name[LastDef(schema, rd)] = Value]
  /\ UNCHANGED rd

EnumValStart ==
  /\ Call("value_start")
  /\ rd' = [rd EXCEPT !.sawNumber = FALSE, !.sawName = FALSE]
  /\ UNCHANGED schema

EnumValOnName ==
  Call("value_name") /\ rd' = [rd EXCEPT !.name = Value, !.sawName = TRUE] /\ UNCHANGED schema

EnumValOnNumber ==
  Call("value_number") /\ rd' = [rd EXCEPT !.number = Value, !.sawNumber = TRUE] /\ UNCHANGED schema

(* enumval_endmsg(): what upb_enumdef_addval() returns is not looked at.    *)
EnumValEnd ==
  /\ Call("value_end")
  /\ IF ~rd.sawNumber \/ ~rd.sawName THEN Fail
     ELSE /\ schema' = EnumAddVal(schema, LastDef(schema, rd), rd.name, rd.number)
          /\ rd' = [rd EXCEPT !.name = None]

EnumEnd ==
  /\ Call("enum_end")
  /\ LET e == LastDef(schema, rd) IN
       IF schema.name[e] = None \/ schema.ntoi[e] = <<>> THEN Fail ELSE UNCHANGED <<schema, rd>>

ReaderNext ==
  \/ FilesetStartFile \/ FileOnPackage \/ FileOnSyntax \/ FileEnd
  \/ MsgStart \/ MsgName \/ MsgOnMapEntry \/ MsgEnd \/ OneofName
  \/ MsgStartField \/ MsgEndField
  \/ FieldOnName \/ FieldOnNumber \/ FieldOnLabel \/ FieldOnType \/ FieldOnTypeName
  \/ FieldOnDefaultVal \/ FieldOnLazy \/ FieldOnOneofIndex \/ FieldEndMsg
  \/ FileStartEnum \/ EnumOnName \/ EnumValStart \/ EnumValOnName \/ EnumValOnNumber
  \/ EnumValEnd \/ EnumEnd
=============================================================================
