--------------------------- MODULE DescriptorPool ----------------------------
(***************************************************************************)
(* The generated pool of the protobuf extension (def.c): each file that a  *)
(* generated class adds is read by DescReader, added to upb's symbol table *)
(* (upb.c) as a whole or not at all, and entered into the maps by which    *)
(* the extension finds the descriptor of a class (protobuf.c).             *)
(***************************************************************************)
EXTENDS DescReader

CONSTANT Batches  \* sequences of files that a program may add

VARIABLES
  symtab,    \* the definitions by name, and the references the table holds
  registry,  \* upb_def_to_php_obj_map, ce_to_php_obj_map, proto_to_php_obj_map
  todo,      \* the files to be added, the current one first
  step       \* where internal_add_generated_file() is

poolVars == <<schema, rd, input, symtab, registry, todo, step>>

NoRegistry == [def |-> <<>>, ce |-> <<>>, proto |-> <<>>, layout |-> {}]

PoolInit ==
  /\ schema = NoSchema /\ rd = NoReader /\ input = <<>>
  /\ symtab = [syms |-> <<>>, held |-> EmptyBag]
  /\ registry = NoRegistry
  /\ todo \in Batches
  /\ step = "idle"

-----------------------------------------------------------------------------
(* symtab_add(), for the definitions of a file. *)

(* The definitions that were taken before the first that is refused.        *)
Accepted(s, t, ds) ==
  FoldLeft(LAMBDA acc, d :
             IF ~acc.ok THEN acc
             ELSE IF \/ d \in s.frozen \/ s.name[d] = None
                     \/ s.name[d] \in DOMAIN acc.table \cup DOMAIN t.syms
                  THEN [acc EXCEPT !.ok = FALSE]
                  ELSE [acc EXCEPT !.table = (s.name[d] :> d) @@ @],
           [ok |-> TRUE, table |-> <<>>], ds)

(* upb_resolvename() for each field that names its type, first among the    *)
(* new definitions; names are absolute.                                     *)
ResolveField(acc, f, table, t) ==
  LET n == acc.s.subName[f]
      found == [x \in DOMAIN table \cup DOMAIN t.syms |->
                  IF x \in DOMAIN table THEN table[x] ELSE t.syms[x]]
  IN IF ~acc.ok \/ n = None THEN acc
     ELSE IF n \in DOMAIN found /\ SubdefTypecheck(acc.s, f, found[n])
          THEN [acc EXCEPT !.s = SetSubdef(@, f, found[n])]
          ELSE [acc EXCEPT !.ok = FALSE]

Resolve(s, table, t, ds) ==
  FoldLeft(LAMBDA acc, d :
             IF d \notin Msg THEN acc
             ELSE FoldLeft(LAMBDA a, f : ResolveField(a, f, table, t), acc, FieldsByNumber(acc.s, d)),
           [ok |-> TRUE, s |-> s], ds)

\* Mutant of SymtabAdd: names enter the table before they are resolved.
SymtabAddEarly(s, t, p) ==
  LET ds == s.defs[p]
      taken == Accepted(s, t, ds)
      defs == Range(taken.table)
      resolved == IF taken.ok THEN Resolve(s, taken.table, t, ds) ELSE [ok |-> FALSE, s |-> s]
      valid == IF resolved.ok THEN Validate(resolved.s, ds) ELSE resolved
  IN IF ds = <<>> THEN [ok |-> TRUE, s |-> s, t |-> t]
     ELSE IF valid.ok
     THEN [ok |-> TRUE, s |-> RefcountedFreeze(valid.s, defs \cup {p}),
           t |-> [syms |-> taken.table @@ t.syms,
                  held |-> FoldLeft(LAMBDA b, d : BagAdd(b, d), t.held, SetToSeq(defs))]]
     ELSE [ok |-> FALSE, s |-> valid.s, t |-> [t EXCEPT !.syms = taken.table @@ @]]

(* upb_symtab_addfile(): a file without definitions is not even frozen.  On *)
(* failure the references are given back, and what was resolved stays so.   *)
SymtabAdd(s, t, p) ==
  LET ds == s.defs[p]
      taken == Accepted(s, t, ds)
      defs == Range(taken.table)
      resolved == IF taken.ok THEN Resolve(s, taken.table, t, ds) ELSE [ok |-> FALSE, s |-> s]
      valid == IF resolved.ok THEN Validate(resolved.s, ds) ELSE resolved
  IN IF ds = <<>> THEN [ok |-> TRUE, s |-> s, t |-> t]
     ELSE IF valid.ok
     THEN [ok |-> TRUE, s |-> RefcountedFreeze(valid.s, defs \cup {p}),
           t |-> [syms |-> taken.table @@ t.syms,
                  held |-> FoldLeft(LAMBDA b, d : BagAdd(b, d), t.held, SetToSeq(defs))]]
     ELSE [ok |-> FALSE, s |-> valid.s, t |-> t]

-----------------------------------------------------------------------------
(* internal_add_generated_file() *)

(* upb_loaddescriptor(): a new reader, and the calls of the parse.  Nothing *)
(* resets errno, which may hold an error of before.                         *)
Load ==
  /\ step = "idle" /\ todo # <<>>
  /\ step' = "read"
  /\ \E errno \in BOOLEAN : rd' = [NoReader EXCEPT !.errno = errno]
  /\ input' = Events(Head(todo))
  /\ UNCHANGED <<schema, symtab, registry, todo>>

Read ==
  /\ step = "read"
  /\ ReaderNext
  /\ UNCHANGED <<symtab, registry, todo, step>>

(* E_ERROR ends the request.                                                *)
LoadFails ==
  /\ step = "read" /\ rd.failed
  /\ todo' = <<>> /\ step' = "failed"
  /\ UNCHANGED <<schema, rd, input, symtab, registry>>

AddFile ==
  /\ step = "read" /\ ~rd.failed /\ input = <<>>
  /\ LET a == SymtabAdd(schema, symtab, rd.file) IN
       /\ schema' = a.s /\ symtab' = a.t
       /\ IF a.ok THEN step' = "added" /\ UNCHANGED todo ELSE step' = "failed" /\ todo' = <<>>
  /\ UNCHANGED <<rd, input, registry>>

(* The class of a definition: its name without the package, in a namespace. *)
ClassName(n, package) == [namespace |-> package, name |-> SubSeq(n, Len(package) + 1, Len(n))]

(* The two loops over the file: first every definition gets a descriptor,   *)
(* known by itself here, that is found by definition, class and name; a map *)
(* entry has no class.  Then the messages with a class get a layout.        *)
Register(g, s, p, package) ==
  LET real == {d \in Range(s.defs[p]) : d \in Enum \/ ~s.mapEntry[d]}
  IN [def |-> [d \in Range(s.defs[p]) |-> d] @@ g.def,
      ce |-> [c \in {ClassName(s.name[d], package) : d \in real} |->
                CHOOSE d \in real : ClassName(s.name[d], package) = c] @@ g.ce,
      proto |-> [n \in {s.name[d] : d \in real} |-> CHOOSE d \in real : s.name[d] = n] @@ g.proto,
      layout |-> g.layout \cup (real \cap Msg)]

AddClasses ==
  /\ step = "added"
  /\ registry' = Register(registry, schema, rd.file, Head(todo).package)
  /\ todo' = Tail(todo) /\ step' = "idle"
  /\ UNCHANGED <<schema, rd, input, symtab>>

PoolNext == Load \/ Read \/ LoadFails \/ AddFile \/ AddClasses

PoolSpec == PoolInit /\ [][PoolNext]_poolVars

-----------------------------------------------------------------------------
(* What a descriptor means. *)

RECURSIVE AllMsgs(_, _)
AllMsgs(scope, ms) ==
  UNION {{[scope |-> scope, msg |-> ms[i]]} \cup AllMsgs(Append(scope, ms[i].name[1]), ms[i].nested)
           : i \in DOMAIN ms}

FieldMeaning(m, f) ==
  [name |-> f.name, number |-> f.number, label |-> f.label, type |-> f.type, lazy |-> f.lazy,
   typeName |-> f.typeName, oneof |-> IF f.oneof = None THEN None ELSE m.oneofs[f.oneof[1] + 1],
   dflt |-> CASE f.default # None /\ f.type = "int32" -> <<"int", NumberOf[f.default]>>
              [] f.default # None /\ f.type # "int32" -> <<"str", f.default>>
              [] f.default = None /\ f.type = "int32" -> <<"int", 0>>
              [] f.default = None /\ f.type = "string" -> <<"str", None>>
              [] OTHER -> None]

MsgMeanings(p) ==
  {[name |-> Append(x.scope, x.msg.name[1]), mapEntry |-> x.msg.mapEntry, syntax |-> p.syntax,
    oneofs |-> Range(x.msg.oneofs),
    fields |-> {FieldMeaning(x.msg, x.msg.fields[i]) : i \in DOMAIN x.msg.fields}]
     : x \in AllMsgs(p.package, p.msgs)}

EnumMeanings(p) ==
  LET Meaning(e) == [name |-> Append(e.scope, e.enum.name[1]), values |-> Range(e.enum.values)]
  IN {Meaning([scope |-> p.package, enum |-> p.enums[i]]) : i \in DOMAIN p.enums}
     \cup UNION {{Meaning([scope |-> Append(x.scope, x.msg.name[1]), enum |-> x.msg.enums[i]])
                    : i \in DOMAIN x.msg.enums} : x \in AllMsgs(p.package, p.msgs)}

(* The same of what was built.                                              *)
MsgBuilt(s, m) ==
  [name |-> s.name[m], mapEntry |-> s.mapEntry[m], syntax |-> s.syntax[m],
   oneofs |-> {s.name[o] : o \in OneofsOf(s, m)},
   fields |-> {[name |-> s.name[f], number |-> s.number[f], label |-> s.label[f],
                type |-> s.type[f], lazy |-> s.lazy[f], typeName |-> s.subName[f],
                oneof |-> IF s.oneof[f] = None THEN None ELSE s.name[s.oneof[f]],
                dflt |-> s.dflt[f]] : f \in Fields(s, m)}]

EnumBuilt(s, e) ==
  [name |-> s.name[e], values |-> {<<n, s.ntoi[e][n]>> : n \in DOMAIN s.ntoi[e]}]

-----------------------------------------------------------------------------
(* Type correctness of the pool.                                            *)
PoolTypeOK ==
  /\ step \in {"idle", "read", "added", "failed"}
  /\ Range(symtab.syms) \subseteq Def /\ BagToSet(symtab.held) \subseteq Def
  /\ DOMAIN registry.def \subseteq Def
  /\ rd.file \in File \cup {None}
  /\ \A i \in DOMAIN rd.stack : rd.stack[i].oneofStart <= Len(rd.oneofs)
  /\ Range(rd.oneofs) \subseteq rd.owned /\ rd.owned \subseteq schema.born

(* No assertion of the reader, of the setters it calls or of the symbol     *)
(* table fails while files in the order of protoc are read.                 *)
PoolNoFault == ~schema.fault

(* When a file has been read, its definitions are those of the descriptor:  *)
(* each under its qualified name, with its own fields and oneofs, however   *)
(* messages are nested and whatever other message was read in between.      *)
FileAsDescribed ==
  step = "read" /\ ~rd.failed /\ input = <<>> =>
    LET defs == Range(schema.defs[rd.file]) IN
    /\ {MsgBuilt(schema, m) : m \in defs \cap Msg} = MsgMeanings(Head(todo))
    /\ {EnumBuilt(schema, e) : e \in defs \cap Enum} = EnumMeanings(Head(todo))

(* A file that has been read leaves no scope open and no object that only   *)
(* the reader owns.                                                         *)
ReaderReleases ==
  step = "read" /\ ~rd.failed /\ input = <<>> =>
    rd.stack = <<>> /\ rd.oneofs = <<>> /\ rd.owned = {}

(* The symbol table holds frozen definitions only, each under its own name  *)
(* and with one reference, and what their fields refer to is in it as well. *)
SymtabClosed ==
  /\ \A n \in DOMAIN symtab.syms :
       LET d == symtab.syms[n] IN
       /\ d \in schema.frozen /\ schema.name[d] = n
       /\ d \in Msg => \A f \in Fields(schema, d) :
                         HasSubdef(schema, f) => schema.sub[f] \in Range(symtab.syms)
  /\ \A d \in Def : CopiesIn(d, symtab.held) = Cardinality({n \in DOMAIN symtab.syms : symtab.syms[n] = d})

(* A file is added as a whole or not at all (upb.h): after a failure the    *)
(* table is what it was, after success it has each definition of the file.  *)
AddedAsAWholeStep ==
  AddFile => \/ step' = "failed" /\ symtab' = symtab
             \/ step' = "added" /\ Range(schema.defs[rd.file]) \subseteq Range(symtab'.syms)

(* The extension finds one and the same descriptor by class and by name,    *)
(* and every definition that a class can reach has one: map entries by the  *)
(* definition only.                                                         *)
RegistryAgrees ==
  /\ step = "idle" => Range(symtab.syms) = DOMAIN registry.def
  /\ \A n \in DOMAIN registry.proto : registry.proto[n] = symtab.syms[n]
  /\ Range(registry.ce) = Range(registry.proto)
  /\ \A d \in Range(registry.ce) \cap Msg : ~schema.mapEntry[d] /\ d \in registry.layout
=============================================================================
