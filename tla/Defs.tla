------------------------------- MODULE Defs ----------------------------------
(***************************************************************************)
(* The definitions of upb (upb.c): fields, messages, oneofs, enums and     *)
(* files are built by setters while they are mutable, linked to each other *)
(* by tables and by counted references, and then frozen together after     *)
(* they were validated.  The tables are maps here, HashTable is the model  *)
(* of how they are kept; freezing and releasing is modelled in RefCounted. *)
(***************************************************************************)
EXTENDS Integers, Sequences, FiniteSets, SequencesExt, FiniteSetsExt, Functions, BagsExt, TLC

CONSTANTS
  Field, Msg, Oneof, Enum, File, \* the objects that may be created
  Name,         \* names: sequences of identifiers, the scopes first
  ValueName,    \* the names of enum values, and of the defaults of fields
  SymbolName,   \* the names by which fields refer to definitions
  FieldNumber, FieldType, EnumNumber, Syntax,
  Careless      \* whether clients do what upb.h tells them not to

VARIABLE
  schema  \* every definition with its fields and tables

None == <<>>
Def == Msg \cup Enum
Object == Field \cup Msg \cup Oneof \cup Enum \cup File
Container == Msg \cup Oneof

(* UPB_STATIC_SELECTOR_COUNT, and the handler types that take a selector.   *)
StaticSelectors == 2

NoSchema ==
  [born |-> {}, frozen |-> {}, refs |-> EmptyBag, fault |-> FALSE,
   name |-> [o \in Object |-> None],
   file |-> [d \in Def |-> None],
   cameFromUser |-> [d \in Def |-> FALSE],
   number |-> [f \in Field |-> 0],
   type |-> [f \in Field |-> "unset"],
   label |-> [f \in Field |-> "optional"],
   lazy |-> [f \in Field |-> FALSE],
   containing |-> [f \in Field |-> None],
   oneof |-> [f \in Field |-> None],
   sub |-> [f \in Field |-> None],
   subName |-> [f \in Field |-> None],
   dflt |-> [f \in Field |-> None],
   index |-> [o \in Field \cup Oneof |-> 0],
   selector |-> [f \in Field |-> 0],
   itof |-> [c \in Container |-> <<>>],
   ntof |-> [c \in Container |-> <<>>],
   parent |-> [o \in Oneof |-> None],
   mapEntry |-> [m \in Msg |-> FALSE],
   syntax |-> [x \in Msg \cup File |-> "proto2"],
   selectors |-> [m \in Msg |-> 0],
   ntoi |-> [e \in Enum |-> <<>>],
   iton |-> [e \in Enum |-> <<>>],
   enumDefault |-> [e \in Enum |-> 0],
   defs |-> [p \in File |-> <<>>]]

-----------------------------------------------------------------------------
(* References and tables. *)

Check(s, condition) == [s EXCEPT !.fault = @ \/ ~condition]

(* upb_ref2(to, from): only a mutable object takes references.              *)
Ref2(s, to, from) ==
  [Check(s, from \notin s.frozen) EXCEPT !.refs = BagAdd(@, <<from, to>>)]

Unref2(s, to, from) ==
  [Check(s, BagIn(<<from, to>>, s.refs)) EXCEPT !.refs = BagRemove(@, <<from, to>>)]

Link(s, a, b) == Ref2(Ref2(s, a, b), b, a)

(* An insertion asserts that the key is new.                                *)
Insert(s, table, c, key, x) ==
  [Check(s, key \notin DOMAIN s[table][c]) EXCEPT ![table][c] = (key :> x) @@ @]

InsertField(s, c, f) ==
  Insert(Insert(s, "itof", c, s.number[f], f), "ntof", c, s.name[f], f)

(* How often the visit functions of the object a report the object b.       *)
Visits(s, a, b) ==
  LET One(x) == IF x = b THEN 1 ELSE 0
      Members(table) == Cardinality({k \in DOMAIN table : table[k] = b})
  IN CASE a \in Field -> One(s.containing[a]) + One(s.oneof[a]) + One(s.sub[a])
       [] a \in Msg -> Members(s.itof[a]) + (IF b \in Oneof THEN Members(s.ntof[a]) ELSE 0)
                       + One(s.file[a])
       [] a \in Oneof -> Members(s.itof[a]) + One(s.parent[a])
       [] a \in Enum -> One(s.file[a])
       [] a \in File -> Members(s.defs[a])

Reach(s, from) ==
  FoldLeft(LAMBDA acc, i : acc \cup {b \in s.born \ acc : \E a \in acc : Visits(s, a, b) > 0},
           from, [i \in 1 .. Cardinality(s.born) |-> i])

-----------------------------------------------------------------------------
(* upb_enumdef. *)

(* upb_enumdef_setdefault(): only a number of the enum.                     *)
EnumSetDefault(s, e, val) ==
  IF val \in DOMAIN s.iton[e] THEN [s EXCEPT !.enumDefault[e] = val] ELSE s

(* upb_enumdef_addval(): aliases keep the first name of their number, and   *)
(* the first value is the default.                                          *)
EnumAddVal(s, e, n, num) ==
  IF n \in DOMAIN s.ntoi[e] THEN s
  ELSE LET named == Insert(s, "ntoi", e, n, num)
           numbered == IF num \in DOMAIN s.iton[e] THEN named
                       ELSE Insert(named, "iton", e, num, n)
       IN IF Cardinality(DOMAIN numbered.ntoi[e]) = 1
          THEN EnumSetDefault(Check(numbered, num \in DOMAIN numbered.iton[e]), e, num)
          ELSE numbered

-----------------------------------------------------------------------------
(* upb_fielddef. *)

HasSubdef(s, f) == s.type[f] \in {"message", "enum"}

SetName(s, f, n) ==
  IF s.containing[f] # None \/ s.oneof[f] # None THEN s ELSE [s EXCEPT !.name[f] = n]

(* upb_fielddef_setnumber() asks for the message, not for the oneof.        *)
SetNumber(s, f, n) ==
  IF s.containing[f] # None THEN s ELSE [s EXCEPT !.number[f] = n]

(* upb_fielddef_settype(): the default goes back to that of the type.  An   *)
(* enum's is not set: it is the enum's own.                                 *)
SetType(s, f, t) ==
  [s EXCEPT !.type[f] = t,
            !.dflt[f] = CASE t = "int32" -> <<"int", 0>>
                          [] t = "string" -> <<"str", None>>
                          [] OTHER -> None]

SetDefaultInt32(s, f, v) == [s EXCEPT !.dflt[f] = <<"int", v>>]

SetDefaultStr(s, f, n) == [s EXCEPT !.dflt[f] = <<"str", n>>]

ReleaseSubdef(s, f) ==
  IF s.sub[f] = None THEN [s EXCEPT !.subName[f] = None]
  ELSE [Unref2(s, s.sub[f], f) EXCEPT !.sub[f] = None]

SubdefTypecheck(s, f, d) ==
  \/ s.type[f] = "message" /\ d \in Msg
  \/ s.type[f] = "enum" /\ d \in Enum

SetSubdef(s, f, d) ==
  IF ~SubdefTypecheck(s, f, d) THEN s
  ELSE Ref2([ReleaseSubdef(s, f) EXCEPT !.sub[f] = d], d, f)

SetSubdefName(s, f, n) ==
  IF ~HasSubdef(s, f) THEN s
  ELSE [ReleaseSubdef(s, f) EXCEPT !.subName[f] = n]

(* enumdefaultstr() and enumdefaultint32(): a name or number that was set,  *)
(* looked up in the enum, or else the enum's default.                       *)
EnumDefaultStr(s, f) ==
  LET e == s.sub[f] IN
  CASE s.dflt[f] = None -> IF s.ntoi[e] = <<>> THEN {} ELSE {s.iton[e][s.enumDefault[e]]}
    [] s.dflt[f] # None /\ s.dflt[f][1] = "str" -> {s.dflt[f][2]}
    [] s.dflt[f] # None /\ s.dflt[f][1] = "int" ->
         {s.iton[e][v] : v \in {s.dflt[f][2]} \cap DOMAIN s.iton[e]}

EnumDefaultInt32(s, f) ==
  LET e == s.sub[f] IN
  CASE s.dflt[f] = None -> IF s.ntoi[e] = <<>> THEN {} ELSE {s.enumDefault[e]}
    [] s.dflt[f] # None /\ s.dflt[f][1] = "int" -> {s.dflt[f][2]}
    [] s.dflt[f] # None /\ s.dflt[f][1] = "str" ->
         {s.ntoi[e][n] : n \in {s.dflt[f][2]} \cap DOMAIN s.ntoi[e]}

-----------------------------------------------------------------------------
(* upb_msgdef, upb_oneofdef and upb_filedef. *)

CheckFieldAdd(s, m, f) ==
  /\ s.containing[f] = None
  /\ s.name[f] # None /\ s.number[f] # 0
  /\ s.number[f] \notin DOMAIN s.itof[m]
  /\ s.name[f] \notin DOMAIN s.ntof[m]

AddFieldTo(s, m, f) == Link(InsertField([s EXCEPT !.containing[f] = m], m, f), f, m)

MsgAddsField(s, m, f) ==
  s.containing[f] = m \/ (CheckFieldAdd(s, m, f) /\ s.oneof[f] = None)

(* upb_msgdef_addfield()                                                    *)
MsgAddField(s, m, f) ==
  IF s.containing[f] # m /\ MsgAddsField(s, m, f) THEN AddFieldTo(s, m, f) ELSE s

Fields(s, c) == {s.itof[c][k] : k \in DOMAIN s.itof[c]}
OneofsOf(s, m) == {s.ntof[m][n] : n \in DOMAIN s.ntof[m]} \cap Oneof

MsgAddsOneof(s, m, o) ==
  /\ s.parent[o] = None
  /\ s.name[o] # None /\ s.name[o] \notin DOMAIN s.ntof[m]
  /\ \A f \in Fields(s, o) : CheckFieldAdd(s, m, f)

\* Mutant of MsgAddOneof: the fields of the oneof stay out of the message.
MsgAddOneofAlone(s, m, o) ==
  IF ~MsgAddsOneof(s, m, o) THEN s
  ELSE Link(Insert([s EXCEPT !.parent[o] = m], "ntof", m, s.name[o], o), o, m)

(* upb_msgdef_addoneof(): the oneof, then each of its fields.               *)
MsgAddOneof(s, m, o) ==
  IF ~MsgAddsOneof(s, m, o) THEN s
  ELSE FoldLeft(LAMBDA acc, f : AddFieldTo(acc, m, f),
                Link(Insert([s EXCEPT !.parent[o] = m], "ntof", m, s.name[o], o), o, m),
                SetToSeq(Fields(s, o)))

OneofSetName(s, o, n) == IF s.parent[o] # None THEN s ELSE [s EXCEPT !.name[o] = n]

OneofAddsField(s, o, f) ==
  /\ s.oneof[f] = None
  /\ s.label[f] = "optional"
  /\ s.name[f] # None /\ s.number[f] # 0
  /\ s.number[f] \notin DOMAIN s.itof[o] /\ s.name[f] \notin DOMAIN s.ntof[o]
  /\ IF s.parent[o] = None THEN s.containing[f] = None
     ELSE s.containing[f] \in {None, s.parent[o]}
  /\ s.parent[o] # None /\ s.containing[f] = None => MsgAddsField(s, s.parent[o], f)

(* upb_oneofdef_addfield(): first into the message of the oneof, if any.    *)
OneofAddField(s, o, f) ==
  IF s.oneof[f] = o \/ ~OneofAddsField(s, o, f) THEN s
  ELSE LET added == IF s.parent[o] = None THEN s ELSE MsgAddField(s, s.parent[o], f)
       IN Link(InsertField([added EXCEPT !.oneof[f] = o], o, f), f, o)

FileSetSyntax(s, p, x) ==
  [s EXCEPT !.syntax = [y \in Msg \cup File |->
                          IF y = p \/ y \in Range(s.defs[p]) THEN x ELSE @[y]]]

FileAddDef(s, p, d) ==
  IF s.file[d] # None THEN s
  ELSE LET linked == Link([s EXCEPT !.defs[p] = Append(@, d), !.file[d] = p], d, p)
       IN IF d \in Msg THEN [linked EXCEPT !.syntax[d] = s.syntax[p]] ELSE linked

-----------------------------------------------------------------------------
(* _upb_def_validate() and upb_def_freeze(). *)

\* Mutant of ValidateField: the type is not asked for.
ValidateFieldUntyped(s, f) ==
  /\ s.name[f] # None /\ s.number[f] # 0
  /\ s.lazy[f] => s.type[f] = "message"
  /\ HasSubdef(s, f) =>
       s.sub[f] # None /\ (s.sub[f] \in s.frozen \/ s.cameFromUser[s.sub[f]])
  /\ s.type[f] = "enum" => EnumDefaultStr(s, f) # {} /\ EnumDefaultInt32(s, f) # {}
  /\ s.type[f] = "message" /\ s.mapEntry[s.sub[f]] => s.label[f] = "repeated"

(* upb_validate_field(); that an enum has values was seen before.           *)
ValidateField(s, f) ==
  /\ s.name[f] # None /\ s.number[f] # 0 /\ s.type[f] # "unset"
  /\ s.lazy[f] => s.type[f] = "message"
  /\ HasSubdef(s, f) =>
       s.sub[f] # None /\ (s.sub[f] \in s.frozen \/ s.cameFromUser[s.sub[f]])
  /\ s.type[f] = "enum" => EnumDefaultStr(s, f) # {} /\ EnumDefaultInt32(s, f) # {}
  /\ s.type[f] = "message" /\ s.mapEntry[s.sub[f]] => s.label[f] = "repeated"

\* Mutant of LiftDefault: the default of the enum, whatever the field's is.
LiftDefaultOfEnum(s, f) ==
  IF s.type[f] = "enum" THEN SetDefaultInt32(s, f, s.enumDefault[s.sub[f]]) ELSE s

(* The last step of it: the number goes into the field's own default.       *)
LiftDefault(s, f) ==
  IF s.type[f] = "enum"
  THEN SetDefaultInt32(s, f, CHOOSE v \in EnumDefaultInt32(s, f) : TRUE)
  ELSE s

HighBit == 2 ^ 30
(* field_rank(): submessages first, then by number.                         *)
FieldRank(s, f) == s.number[f] + (IF s.type[f] = "message" THEN 0 ELSE HighBit)

(* upb_handlers_selectorbaseoffset() and upb_handlers_selectorcount()       *)
SelectorBaseOffset(s, f) == IF s.label[f] = "repeated" THEN 2 ELSE 0
SelectorCount(s, f) ==
  1 + (IF s.label[f] = "repeated" THEN 2 ELSE 0)
    + (IF s.type[f] = "string" THEN 2 ELSE 0)
    + (IF s.type[f] = "message" /\ s.lazy[f] THEN 3 ELSE 0)

(* upb_handlers_getselector(): the handler types a field has, each with its *)
(* selector.                                                                *)
Selectors(s, f) ==
  LET at == s.selector[f] IN
     (IF s.type[f] \in {"int32", "enum"} THEN {<<"VALUE", at>>} ELSE {})
  \cup (IF s.type[f] = "string"
        THEN {<<"STRING", at>>, <<"STARTSTR", at + 1>>, <<"ENDSTR", at + 2>>} ELSE {})
  \cup (IF s.label[f] = "repeated"
        THEN {<<"STARTSEQ", at - 2>>, <<"ENDSEQ", at - 1>>} ELSE {})
  \cup (IF s.type[f] = "message"
        THEN {<<"STARTSUBMSG", s.index[f] + StaticSelectors>>, <<"ENDSUBMSG", at>>} ELSE {})
  \cup (IF s.type[f] = "message" /\ s.lazy[f]
        THEN {<<"STARTSTR", at + 1>>, <<"ENDSTR", at + 2>>, <<"STRING", at + 3>>} ELSE {})

(* The fields in the order of upb_msg_field_begin(), which visits a compact *)
(* table by ascending number.                                               *)
FieldsByNumber(s, c) ==
  [i \in 1 .. Cardinality(DOMAIN s.itof[c]) |-> s.itof[c][SetToSortSeq(DOMAIN s.itof[c], <)[i]]]

(* The part of assign_msg_indices() after the fields were validated.        *)
AssignIndices(s, m) ==
  LET sorted == SetToSortSeq(Fields(s, m), LAMBDA f, g : FieldRank(s, f) < FieldRank(s, g))
      submsgs == Cardinality({f \in Fields(s, m) : s.type[f] = "message"})
      base[i \in 0 .. Len(sorted)] ==
        IF i = 0 THEN StaticSelectors + submsgs
        ELSE base[i - 1] + SelectorCount(s, sorted[i])
      oneofs == SetToSeq(OneofsOf(s, m))
      Position(x, order) == CHOOSE i \in 1 .. Len(order) : order[i] = x
  IN [s EXCEPT
        !.selectors[m] = base[Len(sorted)],
        !.index = [x \in Field \cup Oneof |->
                     CASE x \in Fields(s, m) -> Position(x, sorted) - 1
                       [] x \in OneofsOf(s, m) -> Position(x, oneofs) - 1
                       [] OTHER -> @[x]],
        !.selector = [f \in Field |->
                        IF f \in Fields(s, m)
                        THEN base[Position(f, sorted) - 1] + SelectorBaseOffset(s, f)
                        ELSE @[f]]]

(* assign_msg_indices() validates, and lifts the defaults of, the fields up *)
(* to the first one that is not valid.                                      *)
ValidateMsg(t, m) ==
  LET checked == FoldLeft(LAMBDA acc, f :
                            IF ~acc.ok THEN acc
                            ELSE IF ValidateField(acc.s, f)
                                 THEN [acc EXCEPT !.s = LiftDefault(@, f)]
                                 ELSE [acc EXCEPT !.ok = FALSE],
                          t, FieldsByNumber(t.s, m))
  IN IF checked.ok THEN [checked EXCEPT !.s = AssignIndices(@, m)] ELSE checked

(* Both passes of _upb_def_validate(), over a sequence of definitions.      *)
Validate(s, ds) ==
  LET all == Range(ds)
      FromUser(x) == [s EXCEPT !.cameFromUser = [d \in Def |-> IF d \in all THEN x ELSE @[d]]]
      first == \A d \in all : d \notin s.frozen /\ (d \in Enum => s.ntoi[d] # <<>>)
      second == FoldLeft(LAMBDA acc, d : IF acc.ok /\ d \in Msg THEN ValidateMsg(acc, d) ELSE acc,
                         [ok |-> first, s |-> FromUser(TRUE)], ds)
  IN IF second.ok THEN second
     ELSE [second EXCEPT !.s.cameFromUser = FromUser(FALSE).cameFromUser]

(* upb_refcounted_freeze() within the depth it allows: all that is reached. *)
RefcountedFreeze(s, roots) == [s EXCEPT !.frozen = @ \cup Reach(s, roots)]

DefFreeze(s, ds) ==
  LET v == Validate(s, ds) IN IF v.ok THEN RefcountedFreeze(v.s, Range(ds)) ELSE v.s
=============================================================================
