----------------------------- MODULE DefsClient ------------------------------
(***************************************************************************)
(* A client of upb's definitions calls their setters in any order that the *)
(* comments of upb.h allow, and freezes them.                              *)
(***************************************************************************)
EXTENDS Defs

Mutable(o) == o \in schema.born \ schema.frozen

(* upb_msgdef_new() and its like: they do not depend on anything.           *)
DefsInit == schema = [NoSchema EXCEPT !.born = Object \ Field]

New(f) == /\ f \notin schema.born
          /\ schema' = [schema EXCEPT !.born = @ \cup {f}]

NameObject(o, n) ==
  /\ Mutable(o) /\ schema.name[o] = None
  /\ schema' = IF o \in Field THEN SetName(schema, o, n)
               ELSE IF o \in Oneof THEN OneofSetName(schema, o, n)
               ELSE [schema EXCEPT !.name[o] = n]

(* The setters are called in the order of the fields of a descriptor.  upb.h *)
(* tells clients not to set a number again in a oneof.                      *)
NumberField(f, n) ==
  /\ Mutable(f) /\ schema.name[f] # None
  /\ (schema.number[f] = 0 \/ (Careless /\ schema.number[f] # n))
  /\ schema' = SetNumber(schema, f, n)

(* upb.h: the type is set before the rest, and only once.                   *)
TypeField(f, t) ==
  /\ Mutable(f) /\ schema.number[f] # 0 /\ schema.type[f] = "unset"
  /\ schema' = SetType(schema, f, t)

(* upb.h: the fields of a oneof stay optional, nothing keeps them so.       *)
LabelField(f, label) ==
  /\ Mutable(f) /\ schema.label[f] # label /\ schema.oneof[f] = None
  /\ schema' = [schema EXCEPT !.label[f] = label]

MakeLazy(f) == Mutable(f) /\ schema' = [schema EXCEPT !.lazy[f] = TRUE]

MakeMapEntry(m) == Mutable(m) /\ schema' = [schema EXCEPT !.mapEntry[m] = TRUE]

Subdef(f, d) ==
  /\ Mutable(f) /\ d \in schema.born /\ HasSubdef(schema, f)
  /\ schema' = SetSubdef(schema, f, d)

SubdefByName(f, n) == Mutable(f) /\ schema.type[f] # "unset" /\ schema' = SetSubdefName(schema, f, n)

DefaultNumber(f, v) ==
  /\ Mutable(f) /\ schema.type[f] \in {"enum", "int32"}
  /\ schema' = SetDefaultInt32(schema, f, v)

DefaultString(f, n) ==
  /\ Mutable(f) /\ schema.type[f] \in {"enum", "string"}
  /\ schema' = SetDefaultStr(schema, f, n)

AddField(m, f) == Mutable(m) /\ Mutable(f) /\ schema' = MsgAddField(schema, m, f)

(* upb_msgdef_addoneof() does not compare a oneof's name with those of the  *)
(* oneof's own fields; protoc does.                                         *)
AddOneof(m, o) ==
  /\ Mutable(m) /\ Mutable(o)
  /\ Careless \/ schema.name[o] \notin DOMAIN schema.ntof[o]
  /\ schema' = MsgAddOneof(schema, m, o)

AddToOneof(o, f) == Mutable(o) /\ Mutable(f) /\ schema' = OneofAddField(schema, o, f)

AddValue(e, n, num) == Mutable(e) /\ schema' = EnumAddVal(schema, e, n, num)

DefaultOfEnum(e, num) == Mutable(e) /\ schema' = EnumSetDefault(schema, e, num)

AddDef(p, d) == Mutable(p) /\ Mutable(d) /\ schema' = FileAddDef(schema, p, d)

SetFileSyntax(p, x) == Mutable(p) /\ schema' = FileSetSyntax(schema, p, x)

(* upb.h asks for a transitive closure of mutable definitions.  The code     *)
(* looks for the subdefs; that a file is complete is left to the client.    *)
Freeze(ds) ==
  /\ Range(ds) \subseteq schema.born
  /\ \A d \in Range(ds) :
       schema.file[d] # None => Range(schema.defs[schema.file[d]]) \subseteq Range(ds)
  /\ schema' = DefFreeze(schema, ds)

DefsNext ==
  \/ \E f \in Field : New(f)
  \/ \E o \in Field \cup Oneof, n \in Name : NameObject(o, n)
  \/ \E f \in Field, n \in FieldNumber : NumberField(f, n)
  \/ \E f \in Field, t \in FieldType : TypeField(f, t)
  \/ \E f \in Field : LabelField(f, "repeated") \/ MakeLazy(f)
  \/ \E f \in Field, d \in Def : Subdef(f, d)
  \/ \E f \in Field, n \in SymbolName : SubdefByName(f, n)
  \/ \E f \in Field, n \in ValueName : DefaultString(f, n)
  \/ \E f \in Field, v \in EnumNumber : DefaultNumber(f, v)
  \/ \E m \in Msg, f \in Field : AddField(m, f)
  \/ \E m \in Msg : MakeMapEntry(m) \/ \E o \in Oneof : AddOneof(m, o)
  \/ \E o \in Oneof, f \in Field : AddToOneof(o, f)
  \/ \E e \in Enum, n \in ValueName, v \in EnumNumber : AddValue(e, n, v) \/ DefaultOfEnum(e, v)
  \/ \E p \in File : (\E d \in Def : AddDef(p, d)) \/ (\E x \in Syntax : SetFileSyntax(p, x))
  \/ \E ds \in SetToAllKPermutations(Def) : Freeze(ds)

DefsSpec == DefsInit /\ [][DefsNext]_schema

-----------------------------------------------------------------------------
(* Type correctness of the definitions.                                     *)
DefsTypeOK ==
  /\ schema.born \subseteq Object /\ schema.frozen \subseteq schema.born
  /\ IsABag(schema.refs) /\ BagToSet(schema.refs) \subseteq schema.born \X schema.born
  /\ \A f \in Field : /\ schema.containing[f] \in Msg \cup {None}
                      /\ schema.oneof[f] \in Oneof \cup {None}
                      /\ schema.sub[f] = None \/ schema.subName[f] = None
                      /\ HasSubdef(schema, f) \/ schema.sub[f] = None
  /\ \A c \in Container : Fields(schema, c) \subseteq Field \cap schema.born
  /\ \A d \in Def : schema.file[d] \in File \cup {None}

(* No assertion of the setters, tables and validation fails: the checks of  *)
(* upb_msgdef_addfield(), upb_msgdef_addoneof() and upb_oneofdef_addfield() *)
(* refuse what a table could not take.                                      *)
DefsNoFault == ~schema.fault

(* The tables of messages and oneofs agree with what their members say: a   *)
(* field is found under its own number and name in exactly the message and  *)
(* the oneof it names, whichever of the two was added to the other first.   *)
MembersAgree ==
  /\ \A m \in Msg : Fields(schema, m) = {f \in Field : schema.containing[f] = m}
  /\ \A o \in Oneof : /\ Fields(schema, o) = {f \in Field : schema.oneof[f] = o}
                      /\ \A m \in Msg : schema.parent[o] = m <=> o \in OneofsOf(schema, m)
                      /\ \A f \in Fields(schema, o) : schema.containing[f] = schema.parent[o]
  /\ \A c \in Container : \A k \in DOMAIN schema.itof[c] : schema.number[schema.itof[c][k]] = k
  /\ \A c \in Container : \A n \in DOMAIN schema.ntof[c] : schema.name[schema.ntof[c][n]] = n

(* The references an object holds are the ones its visit function reports:  *)
(* one more would never be released, one less would be released by freeze() *)
(* or free() though nobody took it.                                         *)
RefsMatchVisits ==
  \A a, b \in schema.born : CopiesIn(<<a, b>>, schema.refs) = Visits(schema, a, b)

(* A frozen message can be used: each field has what decoders, encoders and *)
(* layouts read without asking, and refers to a definition frozen as well.  *)
FrozenValid ==
  \A f \in Field \cap schema.frozen :
    schema.containing[f] # None =>
      /\ schema.type[f] # "unset" /\ schema.number[f] # 0
      /\ HasSubdef(schema, f) => schema.sub[f] \in schema.frozen
      /\ schema.type[f] = "enum" =>
           \E v \in DOMAIN schema.iton[schema.sub[f]] : schema.dflt[f] = <<"int", v>>

(* assign_msg_indices(): the handlers of a frozen message have selectors of *)
(* their own below the message's count, and submessage fields have the      *)
(* lowest indices, where the subhandlers of a message are kept.             *)
SelectorsApart ==
  \A m \in Msg \cap schema.frozen :
    LET own == {<<f, x>> : f \in Fields(schema, m), x \in UNION {Selectors(schema, g) : g \in Fields(schema, m)}}
        used == {p \in own : p[2] \in Selectors(schema, p[1])}
    IN /\ \A p, q \in used : p # q => p[2][2] # q[2][2]
       /\ \A p \in used : p[2][2] \in StaticSelectors .. schema.selectors[m] - 1
       /\ \A f, g \in Fields(schema, m) :
            schema.type[f] = "message" /\ schema.type[g] # "message" => schema.index[f] < schema.index[g]

(* An enum looks up what it was given: the default and every number have a  *)
(* name, and that name has the number.                                      *)
EnumsAgree ==
  \A e \in Enum : schema.ntoi[e] # <<>> =>
    /\ schema.enumDefault[e] \in DOMAIN schema.iton[e]
    /\ Range(schema.ntoi[e]) = DOMAIN schema.iton[e]
    /\ \A v \in DOMAIN schema.iton[e] : schema.ntoi[e][schema.iton[e][v]] = v

(* A file and its messages agree about the syntax, and so about presence.   *)
FileSyntaxAgrees ==
  \A p \in File : \A d \in Range(schema.defs[p]) \cap Msg : schema.syntax[d] = schema.syntax[p]

(* Freezing an enum field keeps the number it defaults to, wherever that    *)
(* came from: the field, a name, or the enum.                               *)
FreezeKeepsDefaultsStep ==
  \A f \in Field :
    /\ f \in schema'.frozen \ schema.frozen
    /\ schema.type[f] = "enum" /\ schema.containing[f] # None
    => schema'.dflt[f][2] \in EnumDefaultInt32(schema, f)
=============================================================================
