------------------------------ MODULE PbCompiler ------------------------------
(* The bytecode compiler of the protobuf decoder, upb.c: compile_methods()   *)
(* and what it calls.  It goes once through the items of every message,      *)
(* keeps the instructions that wait for a label in a list threaded through   *)
(* their own offset fields, and does everything twice so that calls of later *)
(* messages are linked.                                                      *)
EXTENDS PbCode

CONSTANTS
  Schemas,     \* the schemas compiled, each [Message -> Seq(field)]
  MaxShort     \* the largest offset of an instruction that compares a tag

VARIABLES
  schema,    \* what is compiled
  pass,      \* 1 or 2, 3 at the end
  which,     \* the message, by its place in Order
  todo,      \* the items of the message still to be put
  code,      \* the words, [op, arg, ofs], of which operands are "word"
  pc,        \* where the next word goes
  forward, backward, \* per label, the last instruction that waits for it and where it was last
  codeBase,      \* per message, the address of its code
  disp,      \* per message, field number -> [ofs, wt1, wt2, alt]
  failed     \* an assertion has failed

compilerVars == <<schema, pass, which, todo, code, pc, forward, backward, codeBase, disp, failed>>

LabelName == {"LOOPSTART", "LOOPBREAK", "FIELD", "ENDMSG"}
EmptyLabel == -1
NoTargets == [n \in {} |-> 0]

\* newmethod() leaves the address of the code as it finds it.
CompilerInit ==
  /\ schema \in Schemas
  /\ pass = 1 /\ which = 1 /\ todo = Items(schema[Order[1]])
  /\ code = <<>> /\ pc = 0
  /\ forward = [l \in LabelName |-> EmptyLabel] /\ backward = [l \in LabelName |-> EmptyLabel]
  /\ \E garbage \in {0, 77} : codeBase = [m \in Message |-> IF m = Order[1] THEN 0 ELSE garbage]
  /\ disp = [m \in Message |-> NoTargets]
  /\ failed = FALSE

Next1 == Head(todo)
Fits(op, ofs) == op \in {"CHECKDELIM", "CALL", "BRANCH"} \/ (ofs <= MaxShort /\ -ofs <= MaxShort + 1)

\* putop(): the words of an instruction, over those of the first pass.
Put(op, arg, ofs) ==
  LET words == <<[op |-> op, arg |-> arg, ofs |-> ofs]>>
                 \o [i \in 1..(Words(op) - 1) |-> [op |-> "word", arg |-> 0, ofs |-> 0]]
  IN /\ code' = SubSeq(code, 1, pc) \o words \o SubSeq(code, pc + Len(words) + 1, Len(code))
     /\ pc' = pc + Len(words)

PutPlain ==
  /\ todo # <<>> /\ Next1.kind = "op" /\ Next1.label \in {"none", "DISPATCH"}
  /\ Put(Next1.op, Next1.arg, IF Next1.op = "CALL" THEN codeBase[Next1.arg] - (pc + 1) ELSE 0)
  /\ todo' = Tail(todo)
  /\ UNCHANGED <<schema, pass, which, forward, backward, codeBase, disp, failed>>

\* A jump back: relative to the word after the one that is put.
PutBackward ==
  /\ todo # <<>> /\ Next1.kind = "op" /\ Next1.label \in {"-LOOPSTART", "-FIELD"}
  /\ LET ofs == backward[IF Next1.label = "-FIELD" THEN "FIELD" ELSE "LOOPSTART"] - (pc + 1) IN
     /\ Put(Next1.op, Next1.arg, ofs)
     /\ failed' = (failed \/ ~Fits(Next1.op, ofs))
  /\ todo' = Tail(todo)
  /\ UNCHANGED <<schema, pass, which, forward, backward, codeBase, disp>>

\* A jump forward: the offset leads to the instruction that waited before.
PutForward ==
  /\ todo # <<>> /\ Next1.kind = "op" /\ Next1.label \in LabelName
  /\ LET l == Next1.label
         ofs == IF forward[l] = EmptyLabel THEN 0 ELSE forward[l] - pc
     IN /\ Put(Next1.op, Next1.arg, ofs)
        /\ forward' = [forward EXCEPT ![l] = pc]
        /\ failed' = (failed \/ ~Fits(Next1.op, ofs))
  /\ todo' = Tail(todo)
  /\ UNCHANGED <<schema, pass, which, backward, codeBase, disp>>

\* The instructions that wait for a label, from address a on.
Waiting(a) ==
  LET from[b \in 0..Len(code)] ==
        IF code[b + 1].ofs = 0 THEN {b} ELSE {b} \cup from[b + code[b + 1].ofs]
  IN IF a = EmptyLabel THEN {} ELSE from[a]

\* Mutant of Linked: offsets are counted from the instruction, not the next one.
LinkedFromStart(b) == pc - b

\* What label() writes into the instruction at b.
Linked(b) == pc - b - Words(code[b + 1].op)

\* label().
DefineLabel ==
  /\ todo # <<>> /\ Next1.kind = "label"
  /\ LET l == Next1.label
         waiting == Waiting(forward[l])
     IN /\ code' = [w \in 1..Len(code) |->
                     IF w - 1 \in waiting THEN [code[w] EXCEPT !.ofs = Linked(w - 1)] ELSE code[w]]
        /\ failed' = (failed \/ \E b \in waiting : ~Fits(code[b + 1].op, Linked(b)))
        /\ forward' = [forward EXCEPT ![l] = EmptyLabel]
        /\ backward' = [backward EXCEPT ![l] = pc]
  /\ todo' = Tail(todo)
  /\ UNCHANGED <<schema, pass, which, pc, codeBase, disp>>

\* repack(): an entry of a dispatch table.
TableEntry(ofs, wt) == [ofs |-> ofs, wt1 |-> wt, wt2 |-> NoWireType, alt |-> 0]

\* dispatchtarget(), and the entry of the end of the message.  The second wire
\* type of a field goes into the entry of the first, its offset elsewhere.
DispatchTarget ==
  /\ todo # <<>> /\ Next1.kind = "target"
  /\ LET m == Order[which]
         n == Next1.num
         ofs == pc - codeBase[m]
     IN IF n \in DOMAIN disp[m]
        THEN /\ failed' = (failed \/ disp[m][n].wt2 # NoWireType)
             /\ disp' = [disp EXCEPT ![m][n] = [@ EXCEPT !.wt2 = Next1.wt, !.alt = ofs]]
        ELSE /\ disp' = [disp EXCEPT ![m] = @ @@ (n :> TableEntry(ofs, Next1.wt))]
             /\ UNCHANGED failed
  /\ todo' = Tail(todo)
  /\ UNCHANGED <<schema, pass, which, code, pc, forward, backward, codeBase>>

\* The next message, whose dispatch table is cleared first.
NextMethod ==
  /\ todo = <<>> /\ which < Len(Order)
  /\ which' = which + 1
  /\ todo' = Items(schema[Order[which']])
  /\ codeBase' = [codeBase EXCEPT ![Order[which']] = pc]
  /\ disp' = [disp EXCEPT ![Order[which']] = NoTargets]
  /\ UNCHANGED <<schema, pass, code, pc, forward, backward, failed>>

\* mgroup_new(): compile_methods() twice.
NextPass ==
  /\ todo = <<>> /\ which = Len(Order) /\ pass < 3
  /\ pass' = pass + 1
  /\ IF pass = 1
     THEN /\ which' = 1 /\ todo' = Items(schema[Order[1]]) /\ pc' = 0
          /\ codeBase' = [codeBase EXCEPT ![Order[1]] = 0]
          /\ disp' = [disp EXCEPT ![Order[1]] = NoTargets]
     ELSE UNCHANGED <<which, todo, pc, codeBase, disp>>
  /\ UNCHANGED <<schema, code, forward, backward, failed>>

CompilerNext ==
  \/ PutPlain \/ PutBackward \/ PutForward \/ DefineLabel \/ DispatchTarget
  \/ NextMethod \/ NextPass

CompilerSpec == CompilerInit /\ [][CompilerNext]_compilerVars

(***************************************************************************)

\* The code is a sequence of words whose jumps, when it is complete, stay inside.
CompilerTypeOK ==
  /\ pass \in 1..3 /\ which \in 1..Len(Order) /\ pc \in 0..Len(code)
  /\ forward \in [LabelName -> -1..Len(code)] /\ backward \in [LabelName -> -1..Len(code)]
  /\ codeBase \in [Message -> 0..(Len(code) + 77)]
  /\ \A m \in Message : \A n \in DOMAIN disp[m] : disp[m][n].wt1 \in 0..5

\* The offsets fit their fields, and no field has more than two wire types:
\* the assertions of setofs() and repack().
CompilerNoFault == ~failed

\* When both passes are done every jump, call and dispatch entry leads to where
\* its label, its message and its wire type say, whatever was in the table of
\* the methods at first and however many instructions waited for one label.
CodeIsAssembled ==
  pass = 3 =>
    /\ {[at |-> w - 1, op |-> code[w].op, arg |-> code[w].arg, size |-> Words(code[w].op),
          ofs |-> code[w].ofs] : w \in {v \in 1..pc : code[v].op # "word"}} = Assembled(schema)
    /\ \A m \in Message :
         UNION {{<<n, disp[m][n].wt1, disp[m][n].ofs>>} \cup
                (IF disp[m][n].wt2 = NoWireType THEN {} ELSE {<<n, disp[m][n].wt2, disp[m][n].alt>>})
                : n \in DOMAIN disp[m]} = Dispatch(schema, m)

\* An instruction that may go on to another field, or to unknown ones, has a
\* test for the end of the message right before it: dispatch() goes back there.
CheckedBeforeDispatch ==
  pass = 3 =>
    \A w \in 1..pc :
      code[w].op = "DISPATCH" \/ (code[w].op \in {"TAG1", "TAG2", "TAGN"} /\ code[w].ofs = 0)
        => w > 1 /\ code[w - 1].op = "CHECKDELIM"
=============================================================================
