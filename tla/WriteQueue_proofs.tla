-------------------------- MODULE WriteQueue_proofs --------------------------
(***************************************************************************)
(* Proofs about WriteQueue, for every value of its constants.              *)
(***************************************************************************)
EXTENDS WriteQueue, TLAPS

(***************************************************************************)
(* TypeOK is not inductive: WriterEmit adds rec[w] to emitted, which only  *)
(* stays within Ids because a writer past its query selected a row.        *)
(***************************************************************************)
Holding == {"fetched", "guard", "emit", "truncate", "save"}

HoldsRecord == \A w \in Writer : pc[w] \in Holding => rec[w] \in Ids

TypeInv == TypeOK /\ HoldsRecord

LEMMA TypeInit == Init => TypeInv
<1> SUFFICES ASSUME Init PROVE TypeInv
  OBVIOUS
<1> USE ConstantsAssumption DEF ConstantsAssumption, Init
<1>1. FlagsOK
  BY Zenon DEF FlagsOK
<1>2. ControlOK
  BY DEF ControlOK, Process, CallerLabel, WriterLabel
<1>3. DataOK
  BY DEF DataOK, Ids
<1>4. HoldsRecord
  BY DEF HoldsRecord, Holding, Process
<1> QED
  BY <1>1, <1>2, <1>3, <1>4 DEF TypeInv, TypeOK

-----------------------------------------------------------------------------
\* The flag files hold a truth value after every step.
LEMMA FlagsStep ==
  ASSUME FlagsOK, [Next]_vars
  PROVE  FlagsOK'
<1> USE DEF FlagsOK, files
<1>1. ASSUME Constructing PROVE FlagsOK'
  BY <1>1, Zenon DEF Constructing, ConstructConnected, ConstructWritting
<1>2. ASSUME NEW p \in Caller, Call(p) PROVE FlagsOK'
  BY <1>2, Zenon DEF Call, WriteDataStamp, WriteDataThrows, ConnectBegin,
     DisconnectCheck, CallbackReturns, ReceiveEvent
<1>3. ASSUME NEW p \in Caller, WriteDataStep(p) PROVE FlagsOK'
  BY <1>3, Zenon DEF WriteDataStep, Insert, InsertFails, AskWritting, AskConnected,
     WriteDataPurge, ReadLast, DeleteSent
<1>4. ASSUME NEW p \in Caller, ConnectStep(p) PROVE FlagsOK'
  BY <1>4, Zenon DEF ConnectStep, ConnectOpen, ConnectRefused, ConnectThrows,
     ConnectPurge, ReadLast, DeleteSent, ConnectTruncate, ConnectUp, ConnectDone
<1>5. ASSUME NEW p \in Caller, StartStep(p) PROVE FlagsOK'
  BY <1>5, Zenon DEF StartStep, StartCheck, StartTruncate, StartSet, StartFork,
     StartForkFails
<1>6. ASSUME NEW p \in Caller, Disconnect(p) PROVE FlagsOK'
  BY <1>6, Zenon DEF Disconnect, TearDown
<1>7. ASSUME NEW w \in Writer, WriterLoop(w) PROVE FlagsOK'
  BY <1>7, Zenon DEF WriterLoop, WriterOuter, WriterInner, WriterCursor, WriterSelect,
     WriterSelectEmpty, WriterSelectFails, WriterFetched, WriterGuard, WriterExit
<1>8. ASSUME NEW w \in Writer, WriterSend(w) PROVE FlagsOK'
  BY <1>8, Zenon DEF WriterSend, WriterEmit, WriterEmitDropped, WriterEmitThrows,
     WriterEmitOnNull, WriterTruncate, WriterSave, WriterDisconnectCheck,
     WriterDisconnect, TearDown
<1>9. ASSUME NEW m \in Monitor, MonitorStep(m) PROVE FlagsOK'
  BY <1>9, Zenon DEF MonitorStep, MonitorCheck, MonitorDisconnect, TearDown
<1>10. ASSUME Environment PROVE FlagsOK'
  BY <1>10, Zenon DEF Environment, Tick, StepBack, Kill, Reboot
<1>11. ASSUME UNCHANGED vars PROVE FlagsOK'
  BY <1>11, Zenon DEF vars
<1> QED
  BY <1>1, <1>2, <1>3, <1>4, <1>5, <1>6, <1>7, <1>8, <1>9, <1>10, <1>11, Zenon
  DEF Next, CallerStep, WriterStep

-----------------------------------------------------------------------------
\* The slot of a callback is the process itself or a dead caller.
LEMMA FreeCallbackType ==
  ASSUME NEW p, NEW c \in FreeCallback(p)
  PROVE  c = p \/ (c \in Caller \ {Main} /\ ~Live(c))
BY DEF FreeCallback

\* What ControlOK and HoldsRecord say of pc and rec.
PcOK ==
  /\ pc \in [Process -> CallerLabel \cup WriterLabel]
  /\ \A p \in Caller : pc[p] \in CallerLabel
  /\ \A w \in Writer : pc[w] \in WriterLabel
  /\ \A m \in Monitor : pc[m] \in {"dead", "disconnect"}
  /\ HoldsRecord

\* The labels a process of each kind may go to without selecting a record.
LabelFits(p, label) ==
  /\ label \in CallerLabel \cup WriterLabel
  /\ p \in Caller => label \in CallerLabel
  /\ p \in Writer => label \in WriterLabel \ Holding
  /\ p \in Monitor => label \in {"dead", "disconnect"}

LEMMA GotoType ==
  ASSUME PcOK, NEW p \in Process, NEW label, LabelFits(p, label),
         Goto(p, label), rec' = rec
  PROVE  PcOK'
BY DEF PcOK, HoldsRecord, Goto, Process, LabelFits

\* What a forked callback does to pc: a dead caller starts, or the fork failed
\* and its parent ends.
LEMMA ForkCases ==
  ASSUME NEW p, NEW s, NEW label, ForkCallback(p, s, label)
  PROVE  \/ \E c \in FreeCallback(p) :
              /\ pc' = [pc EXCEPT ![c] = "idle", ![p] = label]
              /\ stream' = [stream EXCEPT ![c] = s, ![p] = s]
         \/ Goto(p, "dead") /\ stream' = [stream EXCEPT ![p] = s]
BY Zenon DEF ForkCallback

\* Assigning one entry twice leaves the second value.
LEMMA TwiceExcept ==
  ASSUME NEW S, NEW T, NEW f \in [S -> T], NEW p \in S, NEW a, NEW b
  PROVE  [f EXCEPT ![p] = a, ![p] = b] = [f EXCEPT ![p] = b]
OBVIOUS

LEMMA ForkType ==
  ASSUME PcOK, NEW p \in Process, NEW label, LabelFits(p, label), NEW s,
         ForkCallback(p, s, label), rec' = rec
  PROVE  PcOK'
<1>1. CASE \E c \in FreeCallback(p) : pc' = [pc EXCEPT ![c] = "idle", ![p] = label]
  <2>1. PICK c \in FreeCallback(p) : pc' = [pc EXCEPT ![c] = "idle", ![p] = label]
    BY <1>1
  <2>2. c = p \/ c \in Caller
    BY FreeCallbackType
  <2>3. c \notin Writer \/ c = p
    BY <2>2, ConstantsAssumption DEF ConstantsAssumption
  <2>4. c \notin Monitor \/ c = p
    BY <2>2, ConstantsAssumption DEF ConstantsAssumption
  <2>5. "idle" \in CallerLabel
    BY DEF CallerLabel
  <2>6. HoldsRecord'
    BY <2>1, <2>3 DEF PcOK, HoldsRecord, Process, LabelFits
  <2> QED
    BY <2>1, <2>2, <2>3, <2>4, <2>5, <2>6 DEF PcOK, Process, LabelFits
<1>2. CASE Goto(p, "dead")
  <2>1. LabelFits(p, "dead")
    BY DEF LabelFits, CallerLabel, WriterLabel, Holding
  <2> QED
    BY <1>2, <2>1, GotoType
<1> QED
  BY <1>1, <1>2, ForkCases

\* Every step leaves each process at a label of its kind, and a writer past its
\* query with the id of a record.
LEMMA PcStep ==
  ASSUME PcOK, back \in [Caller -> {"connectDone", "last"}], DataOK, [Next]_vars
  PROVE  PcOK'
<1> USE DEF files, locals, LabelFits
<1>1. ASSUME Constructing PROVE PcOK'
  <2>1. Main \in Process /\ Main \notin Writer /\ Main \notin Monitor /\ rec' = rec
    BY <1>1, ConstantsAssumption
    DEF ConstantsAssumption, Process, Constructing, ConstructConnected, ConstructWritting
  <2>2. LabelFits(Main, "construct") /\ LabelFits(Main, "idle")
    BY <2>1 DEF CallerLabel
  <2> QED
    BY <1>1, <2>1, <2>2, GotoType DEF Constructing, ConstructConnected, ConstructWritting
<1>2. ASSUME NEW p \in Caller
      PROVE  /\ p \in Process
             /\ \A label \in CallerLabel : LabelFits(p, label)
  BY ConstantsAssumption DEF ConstantsAssumption, Process
<1>3. ASSUME NEW w \in Writer
      PROVE  /\ w \in Process
             /\ \A label \in WriterLabel \ Holding : LabelFits(w, label)
  BY ConstantsAssumption DEF ConstantsAssumption, Process
<1>4. ASSUME NEW p \in Caller, Call(p) PROVE PcOK'
  <2>1. \E label \in CallerLabel : Goto(p, label)
    BY <1>4 DEF Call, WriteDataStamp, WriteDataThrows, ConnectBegin, DisconnectCheck,
       CallbackReturns, ReceiveEvent, CallerLabel
  <2>2. rec' = rec
    BY <1>4 DEF Call, WriteDataStamp, WriteDataThrows, ConnectBegin, DisconnectCheck,
       CallbackReturns, ReceiveEvent
  <2> QED
    BY <1>2, <2>1, <2>2, GotoType
<1>5. ASSUME NEW p \in Caller, WriteDataStep(p) PROVE PcOK'
  <2>1. \E label \in CallerLabel : Goto(p, label)
    BY <1>5 DEF WriteDataStep, Insert, InsertFails, AskWritting, AskConnected,
       WriteDataPurge, ReadLast, DeleteSent, Branch, CallerLabel
  <2>2. rec' = rec
    BY <1>5 DEF WriteDataStep, Insert, InsertFails, AskWritting, AskConnected,
       WriteDataPurge, ReadLast, DeleteSent
  <2> QED
    BY <1>2, <2>1, <2>2, GotoType
<1>6. ASSUME NEW p \in Caller, ConnectStep(p) PROVE PcOK'
  <2>1. \/ \E label \in CallerLabel : Goto(p, label)
        \/ ForkCallback(p, stream[p], "idle")
    BY <1>6 DEF ConnectStep, ConnectOpen, ConnectRefused, ConnectThrows, ConnectPurge,
       ReadLast, DeleteSent, ConnectTruncate, ConnectUp, ConnectDone, CallerLabel
  <2>2. rec' = rec
    BY <1>6 DEF ConnectStep, ConnectOpen, ConnectRefused, ConnectThrows, ConnectPurge,
       ReadLast, DeleteSent, ConnectTruncate, ConnectUp, ConnectDone
  <2>3. "idle" \in CallerLabel
    BY DEF CallerLabel
  <2>4. CASE \E label \in CallerLabel : Goto(p, label)
    BY <1>2, <2>2, <2>4, GotoType
  <2>5. CASE ForkCallback(p, stream[p], "idle")
    BY <1>2, <2>2, <2>3, <2>5, ForkType
  <2> QED
    BY <2>1, <2>4, <2>5
<1>7. ASSUME NEW p \in Caller, StartStep(p) PROVE PcOK'
  <2>1. back[p] \in CallerLabel
    BY DEF CallerLabel
  <2>2. rec' = rec
    BY <1>7 DEF StartStep, StartCheck, StartTruncate, StartSet, StartFork, StartForkFails
  <2>3. CASE StartFork(p)
    <3>1. PICK w \in Writer : pc' = [pc EXCEPT ![w] = "outer", ![p] = back[p]]
      BY <2>3 DEF StartFork
    <3>2. p \notin Writer /\ p \notin Monitor /\ w \notin Caller /\ w \notin Monitor
      BY ConstantsAssumption DEF ConstantsAssumption
    <3> QED
      BY <2>1, <2>2, <3>1, <3>2 DEF PcOK, HoldsRecord, Holding, Process, WriterLabel
  <2>4. CASE ~StartFork(p)
    <3>1. \E label \in CallerLabel : Goto(p, label)
      BY <1>7, <2>1, <2>4 DEF StartStep, StartCheck, StartTruncate, StartSet,
         StartForkFails, Branch, CallerLabel
    <3> QED
      BY <1>2, <2>2, <3>1, GotoType
  <2> QED
    BY <2>3, <2>4
<1>8. ASSUME NEW p \in Caller, Disconnect(p) PROVE PcOK'
  BY <1>2, <1>8, ForkType DEF Disconnect, TearDown, CallerLabel
<1>9. ASSUME NEW w \in Writer, WriterLoop(w) PROVE PcOK'
  <2>1. CASE WriterSelect(w) \/ WriterFetched(w)
    <3>1. w \notin Caller /\ w \notin Monitor
      BY ConstantsAssumption DEF ConstantsAssumption
    <3>2. CASE WriterSelect(w)
      BY <3>1, <3>2 DEF WriterSelect, Goto, IsSelected, Pending, PcOK, HoldsRecord,
         DataOK, Holding, Process, WriterLabel
    <3>3. CASE WriterFetched(w)
      BY <3>1, <3>3 DEF WriterFetched, Branch, Goto, PcOK, HoldsRecord, Holding,
         Process, WriterLabel
    <3> QED
      BY <2>1, <3>2, <3>3
  <2>2. CASE WriterGuard(w)
    BY <2>2, ConstantsAssumption DEF ConstantsAssumption, WriterGuard, Branch, Goto,
       PcOK, HoldsRecord, Holding, Process, WriterLabel
  <2>3. CASE ~(WriterSelect(w) \/ WriterFetched(w) \/ WriterGuard(w))
    <3>1. \E label \in WriterLabel \ Holding : Goto(w, label)
      BY <1>9, <2>3 DEF WriterLoop, WriterOuter, WriterInner, WriterCursor,
         WriterSelectEmpty, WriterSelectFails, WriterExit, Branch, WriterLabel, Holding
    <3>2. rec' = rec
      BY <1>9, <2>3 DEF WriterLoop, WriterOuter, WriterInner, WriterCursor,
         WriterSelectEmpty, WriterSelectFails, WriterExit
    <3> QED
      BY <1>3, <3>1, <3>2, GotoType
  <2> QED
    BY <2>1, <2>2, <2>3
<1>10. ASSUME NEW w \in Writer, WriterSend(w) PROVE PcOK'
  <2>1. CASE WriterDisconnect(w)
    BY <1>3, <2>1, ForkType DEF WriterDisconnect, TearDown, WriterLabel, Holding
  <2>2. CASE ~WriterDisconnect(w)
    <3>1. /\ rec' = rec
          /\ \E label \in WriterLabel :
               /\ Goto(w, label)
               /\ label \in Holding => pc[w] \in Holding
      BY <1>10, <2>2 DEF WriterSend, WriterEmit, WriterEmitDropped, WriterEmitThrows,
         WriterEmitOnNull, WriterTruncate, WriterSave, WriterDisconnectCheck, Branch,
         Holding, WriterLabel
    <3> QED
      BY <3>1, ConstantsAssumption DEF ConstantsAssumption, Goto, PcOK, HoldsRecord, Process
  <2> QED
    BY <2>1, <2>2
<1>11. ASSUME NEW m \in Monitor, MonitorStep(m) PROVE PcOK'
  <2>1. m \in Process /\ m \notin Caller /\ m \notin Writer
    BY ConstantsAssumption DEF ConstantsAssumption, Process
  <2>2. LabelFits(m, "dead") /\ LabelFits(m, "disconnect")
    BY <2>1 DEF CallerLabel
  <2>3. rec' = rec
    BY <1>11 DEF MonitorStep, MonitorCheck, MonitorDisconnect, TearDown
  <2> QED
    BY <1>11, <2>1, <2>2, <2>3, GotoType, ForkType
    DEF MonitorStep, MonitorCheck, MonitorDisconnect, TearDown
<1>12. ASSUME Environment PROVE PcOK'
  <2>1. \A p \in Process : LabelFits(p, "dead")
    BY DEF CallerLabel, WriterLabel, Holding
  <2>2. CASE \E p \in Process : Kill(p)
    BY <2>1, <2>2, GotoType DEF Kill
  <2>3. CASE Reboot
    BY <2>3 DEF Reboot, PcOK, HoldsRecord, Holding, Process, CallerLabel, WriterLabel
  <2>4. CASE Tick \/ StepBack
    BY <2>4 DEF Tick, StepBack, PcOK, HoldsRecord
  <2> QED
    BY <1>12, <2>2, <2>3, <2>4 DEF Environment
<1>13. ASSUME UNCHANGED vars PROVE PcOK'
  BY <1>13 DEF vars, PcOK, HoldsRecord
<1> QED
  BY <1>1, <1>4, <1>5, <1>6, <1>7, <1>8, <1>9, <1>10, <1>11, <1>12, <1>13
  DEF Next, CallerStep, WriterStep

StreamOK == stream \in [Process -> {"none", "open", "closed"}]

BackOK == back \in [Caller -> {"connectDone", "last"}]

\* Sockets and return points stay in their domains.
LEMMA StreamStep ==
  ASSUME StreamOK, BackOK, [Next]_vars
  PROVE  StreamOK' /\ BackOK'
<1> USE DEF StreamOK, BackOK, files, locals
<1>1. ASSUME Constructing PROVE StreamOK' /\ BackOK'
  BY <1>1, ConstantsAssumption DEF ConstantsAssumption, Process,
     Constructing, ConstructConnected, ConstructWritting
<1>2. ASSUME NEW p \in Caller, Call(p) PROVE StreamOK' /\ BackOK'
  BY <1>2 DEF Process, Call, WriteDataStamp, WriteDataThrows, ConnectBegin,
     DisconnectCheck, CallbackReturns, ReceiveEvent
<1>3. ASSUME NEW p \in Caller, WriteDataStep(p) PROVE StreamOK' /\ BackOK'
  BY <1>3 DEF WriteDataStep, Insert, InsertFails, AskWritting, AskConnected,
     WriteDataPurge, ReadLast, DeleteSent
<1>4. ASSUME NEW p \in Process, NEW label, NEW s \in {"none", "open", "closed"},
             ForkCallback(p, s, label)
      PROVE  StreamOK'
  <2>1. CASE \E c \in FreeCallback(p) : stream' = [stream EXCEPT ![c] = s, ![p] = s]
    BY <2>1, FreeCallbackType DEF Process
  <2>2. CASE stream' = [stream EXCEPT ![p] = s]
    BY <2>2
  <2> QED
    BY <1>4, <2>1, <2>2, ForkCases
<1>5. ASSUME NEW p \in Process, NEW label, TearDown(p, label) PROVE StreamOK' /\ BackOK'
  <2>1. PICK s \in AfterClose(stream[p]) : ForkCallback(p, s, label)
    BY <1>5 DEF TearDown
  <2>2. s \in {"none", "open", "closed"}
    BY DEF AfterClose
  <2> QED
    BY <1>4, <1>5, <2>1, <2>2 DEF TearDown
<1>6. ASSUME NEW p \in Caller, ForkCallback(p, stream[p], "idle") PROVE StreamOK'
  BY <1>4, <1>6 DEF Process
<1>7. ASSUME NEW p \in Caller, ConnectStep(p) PROVE StreamOK' /\ BackOK'
  <2>1. CASE ConnectRefused(p) \/ ConnectDone(p)
    BY <1>6, <2>1 DEF ConnectRefused, ConnectDone
  <2>2. CASE ~(ConnectRefused(p) \/ ConnectDone(p))
    BY <1>7, <2>2 DEF Process, ConnectStep, ConnectOpen, ConnectThrows, ConnectPurge,
       ReadLast, DeleteSent, ConnectTruncate, ConnectUp
  <2> QED
    BY <2>1, <2>2
<1>8. ASSUME NEW p \in Caller, StartStep(p) PROVE StreamOK' /\ BackOK'
  BY <1>8 DEF Process, StartStep, StartCheck, StartTruncate, StartSet, StartFork,
     StartForkFails
<1>9. ASSUME NEW p \in Caller, Disconnect(p) PROVE StreamOK' /\ BackOK'
  BY <1>5, <1>9 DEF Disconnect, Process
<1>10. ASSUME NEW w \in Writer, WriterLoop(w) PROVE StreamOK' /\ BackOK'
  BY <1>10 DEF WriterLoop, WriterOuter, WriterInner, WriterCursor, WriterSelect,
     WriterSelectEmpty, WriterSelectFails, WriterFetched, WriterGuard, WriterExit
<1>11. ASSUME NEW w \in Writer, WriterSend(w) PROVE StreamOK' /\ BackOK'
  <2>1. CASE WriterDisconnect(w)
    BY <1>5, <2>1 DEF WriterDisconnect, Process
  <2>2. CASE ~WriterDisconnect(w)
    BY <1>11, <2>2 DEF WriterSend, WriterEmit, WriterEmitDropped, WriterEmitThrows,
       WriterEmitOnNull, WriterTruncate, WriterSave, WriterDisconnectCheck
  <2> QED
    BY <2>1, <2>2
<1>12. ASSUME NEW m \in Monitor, MonitorStep(m) PROVE StreamOK' /\ BackOK'
  <2>1. CASE MonitorCheck(m)
    BY <2>1 DEF MonitorCheck, Process
  <2>2. CASE MonitorDisconnect(m)
    BY <1>5, <2>2 DEF MonitorDisconnect, Process
  <2> QED
    BY <1>12, <2>1, <2>2 DEF MonitorStep
<1>13. ASSUME Environment PROVE StreamOK' /\ BackOK'
  BY <1>13 DEF Environment, Tick, StepBack, Kill, Reboot
<1>14. ASSUME UNCHANGED vars PROVE StreamOK' /\ BackOK'
  BY <1>14 DEF vars
<1> QED
  BY <1>1, <1>2, <1>3, <1>7, <1>8, <1>9, <1>10, <1>11, <1>12, <1>13, <1>14
  DEF Next, CallerStep, WriterStep

-----------------------------------------------------------------------------
\* A saved cursor is an id or 0, whatever folder PHP runs in.
LEMMA LastRecordIdSentType ==
  ASSUME DataOK
  PROVE  LastRecordIdSent \in 0 .. MaxRecord
BY ConstantsAssumption DEF ConstantsAssumption, DataOK, LastRecordIdSent

\* The clock, the table, the cursors and the history stay in their domains.
LEMMA DataStep ==
  ASSUME DataOK, HoldsRecord, [Next]_vars
  PROVE  DataOK'
<1> USE ConstantsAssumption DEF ConstantsAssumption, DataOK, Ids, files, locals, history
<1>1. ASSUME Constructing PROVE DataOK'
  BY <1>1 DEF Constructing, ConstructConnected, ConstructWritting
<1>2. ASSUME NEW p \in Caller, Call(p) PROVE DataOK'
  BY <1>2 DEF Call, WriteDataStamp, WriteDataThrows, ConnectBegin, DisconnectCheck,
     CallbackReturns, ReceiveEvent
<1>3. ASSUME NEW p \in Caller, NEW from, NEW label, ReadLast(p, from, label)
      PROVE  DataOK'
  BY <1>3, LastRecordIdSentType DEF ReadLast, Process
<1>4. ASSUME NEW p \in Caller, NEW from, NEW label, DeleteSent(p, from, label)
      PROVE  DataOK'
  BY <1>4 DEF DeleteSent
<1>5. ASSUME NEW p \in Caller, WriteDataStep(p) PROVE DataOK'
  <2>1. CASE Insert(p)
    BY <2>1 DEF Insert
  <2>2. CASE ~Insert(p)
    BY <1>3, <1>4, <1>5, <2>2 DEF WriteDataStep, InsertFails, AskWritting, AskConnected,
       WriteDataPurge
  <2> QED
    BY <2>1, <2>2
<1>6. ASSUME NEW p \in Caller, ConnectStep(p) PROVE DataOK'
  BY <1>3, <1>4, <1>6 DEF ConnectStep, ConnectOpen, ConnectRefused, ConnectThrows,
     ConnectPurge, ConnectTruncate, ConnectUp, ConnectDone
<1>7. ASSUME NEW p \in Caller, StartStep(p) PROVE DataOK'
  BY <1>7 DEF StartStep, StartCheck, StartTruncate, StartSet, StartFork, StartForkFails
<1>8. ASSUME NEW p \in Caller, Disconnect(p) PROVE DataOK'
  BY <1>8 DEF Disconnect, TearDown
<1>9. ASSUME NEW w \in Writer, WriterLoop(w) PROVE DataOK'
  <2>1. CASE WriterCursor(w)
    BY <2>1, LastRecordIdSentType DEF WriterCursor, Process
  <2>2. CASE WriterSelect(w)
    <3>1. PICK r \in table : rec' = [rec EXCEPT ![w] = r.id]
      BY <2>2 DEF WriterSelect
    <3>2. r.id \in 0 .. MaxRecord
      OBVIOUS
    <3> QED
      BY <2>2, <3>1, <3>2 DEF WriterSelect
  <2>3. CASE ~(WriterCursor(w) \/ WriterSelect(w))
    BY <1>9, <2>3 DEF WriterLoop, WriterOuter, WriterInner, WriterSelectEmpty,
       WriterSelectFails, WriterFetched, WriterGuard, WriterExit
  <2> QED
    BY <2>1, <2>2, <2>3
<1>10. ASSUME NEW w \in Writer, WriterSend(w) PROVE DataOK'
  <2>1. pc[w] \in Holding => rec[w] \in Ids
    BY DEF HoldsRecord
  <2>2. CASE WriterEmit(w)
    <3>1. /\ rec[w] \in Ids
          /\ emitted' = emitted \cup {rec[w]}
          /\ handled' = handled \cup {rec[w]}
          /\ resent' = resent \cup (emitted \cap {rec[w]})
          /\ UNCHANGED <<clock, files, locals>>
      BY <2>1, <2>2 DEF WriterEmit, Holding
    <3> QED
      BY <3>1
  <2>3. CASE WriterEmitDropped(w)
    <3>1. /\ rec[w] \in Ids
          /\ handled' = handled \cup {rec[w]}
          /\ UNCHANGED <<clock, files, locals, emitted, resent>>
      BY <2>1, <2>3 DEF WriterEmitDropped, Holding
    <3> QED
      BY <3>1
  <2>4. CASE WriterTruncate(w) \/ WriterSave(w)
    <3>1. lastId' = 0 \/ lastId' = rec[w]
      BY <2>4 DEF WriterTruncate, WriterSave
    <3>2. UNCHANGED <<clock, table, seq, locals, history>>
      BY <2>4 DEF WriterTruncate, WriterSave
    <3> QED
      BY <3>1, <3>2
  <2>5. CASE WriterEmitThrows(w) \/ WriterEmitOnNull(w) \/ WriterDisconnectCheck(w)
               \/ WriterDisconnect(w)
    BY <2>5 DEF WriterEmitThrows, WriterEmitOnNull, WriterDisconnectCheck,
       WriterDisconnect, TearDown
  <2> QED
    BY <1>10, <2>2, <2>3, <2>4, <2>5 DEF WriterSend
<1>11. ASSUME NEW m \in Monitor, MonitorStep(m) PROVE DataOK'
  BY <1>11 DEF MonitorStep, MonitorCheck, MonitorDisconnect, TearDown
<1>12. ASSUME Environment PROVE DataOK'
  <2>1. CASE Tick
    BY <2>1 DEF Tick
  <2>2. CASE StepBack
    BY <2>2 DEF StepBack
  <2>3. CASE Reboot \/ \E p \in Process : Kill(p)
    BY <2>3 DEF Reboot, Kill
  <2> QED
    BY <1>12, <2>1, <2>2, <2>3 DEF Environment
<1>13. ASSUME UNCHANGED vars PROVE DataOK'
  BY <1>13 DEF vars
<1> QED
  BY <1>1, <1>2, <1>5, <1>6, <1>7, <1>8, <1>9, <1>10, <1>11, <1>12, <1>13
  DEF Next, CallerStep, WriterStep

LEMMA TypeStep == TypeInv /\ [Next]_vars => TypeInv'
<1> SUFFICES ASSUME TypeInv, [Next]_vars PROVE TypeInv'
  OBVIOUS
<1>1. FlagsOK'
  BY FlagsStep DEF TypeInv, TypeOK
<1>2. PcOK'
  BY PcStep DEF TypeInv, TypeOK, PcOK, ControlOK
<1>3. StreamOK' /\ BackOK'
  BY StreamStep DEF TypeInv, TypeOK, StreamOK, BackOK, ControlOK
<1>4. DataOK'
  BY DataStep DEF TypeInv, TypeOK
<1> QED
  BY <1>1, <1>2, <1>3, <1>4 DEF TypeInv, TypeOK, PcOK, StreamOK, BackOK, ControlOK

LEMMA TypeInvariant == Spec => []TypeInv
BY TypeInit, TypeStep, PTL DEF Spec

\* Type correctness of the queue, for any processes, bounds, uses and failures.
THEOREM TypeCorrect == Spec => []TypeOK
<1>1. TypeInv => TypeOK
  BY DEF TypeInv
<1> QED
  BY <1>1, TypeInvariant, PTL

-----------------------------------------------------------------------------
(***************************************************************************)
(* The steps that touch the queue: the table, the saved cursor, a copy of  *)
(* it, a selected record or the history.  All others are quiet.            *)
(***************************************************************************)
queueVars == <<table, seq, lastId, cursor, rec, history>>

Sending == {"fetched", "guard", "emit"}

Sent == {"truncate", "save"}

Quiet ==
  /\ UNCHANGED queueVars
  /\ \A w \in Writer : /\ pc'[w] \in Sending => pc[w] \in Sending
                       /\ pc'[w] \in Sent => pc[w] \in Sent

ReadsCursor(p) == \E from, label \in CallerLabel : ReadLast(p, from, label)

Purges(p) == \E from, label \in CallerLabel : DeleteSent(p, from, label)

CallerTouches(p) == Insert(p) \/ ReadsCursor(p) \/ Purges(p)

WriterTouches(w) ==
  \/ WriterCursor(w) \/ WriterSelect(w) \/ WriterEmit(w) \/ WriterEmitDropped(w)
  \/ WriterTruncate(w) \/ WriterSave(w)

\* A step of a caller's or monitor's that moves no writer within its send.
LEMMA GotoQuiet ==
  ASSUME TypeInv, UNCHANGED queueVars, NEW p \in Process, NEW label, Goto(p, label),
         p \in Writer => label \notin Sending \cup Sent
  PROVE  Quiet
BY DEF TypeInv, TypeOK, ControlOK, Quiet, Goto, Sending, Sent

LEMMA ForkQuiet ==
  ASSUME TypeInv, UNCHANGED queueVars, NEW p \in Process, NEW label,
         NEW s, ForkCallback(p, s, label),
         p \in Writer => label \notin Sending \cup Sent
  PROVE  Quiet
<1>1. CASE \E c \in FreeCallback(p) : pc' = [pc EXCEPT ![c] = "idle", ![p] = label]
  <2>1. PICK c \in FreeCallback(p) : pc' = [pc EXCEPT ![c] = "idle", ![p] = label]
    BY <1>1
  <2>2. c = p \/ (c \in Caller /\ c \notin Writer)
    BY FreeCallbackType, ConstantsAssumption DEF ConstantsAssumption
  <2> QED
    BY <2>1, <2>2 DEF TypeInv, TypeOK, ControlOK, Quiet, Sending, Sent, Process
<1>2. CASE Goto(p, "dead")
  BY <1>2, GotoQuiet DEF Sending, Sent
<1> QED
  BY <1>1, <1>2, ForkCases

LEMMA QuietOrTouches ==
  ASSUME TypeInv, [Next]_vars
  PROVE  \/ Quiet
         \/ \E p \in Caller : CallerTouches(p)
         \/ \E w \in Writer : WriterTouches(w)
<1> USE DEF files, locals, queueVars
<1>1. ASSUME NEW p \in Caller PROVE p \in Process /\ p \notin Writer
  BY ConstantsAssumption DEF ConstantsAssumption, Process
<1>2. CASE Constructing
  <2>1. UNCHANGED queueVars
    BY <1>2 DEF Constructing, ConstructConnected, ConstructWritting
  <2> QED
    BY <1>1, <1>2, <2>1, GotoQuiet, ConstantsAssumption
    DEF ConstantsAssumption, Constructing, ConstructConnected, ConstructWritting
<1>3. ASSUME NEW p \in Caller, Call(p) PROVE Quiet
  <2>1. UNCHANGED queueVars
    BY <1>3 DEF Call, WriteDataStamp, WriteDataThrows, ConnectBegin, DisconnectCheck,
       CallbackReturns, ReceiveEvent
  <2>2. \E label : Goto(p, label)
    BY <1>3 DEF Call, WriteDataStamp, WriteDataThrows, ConnectBegin, DisconnectCheck,
       CallbackReturns, ReceiveEvent
  <2> QED
    BY <1>1, <2>1, <2>2, GotoQuiet
<1>4. ASSUME NEW p \in Caller, WriteDataStep(p) PROVE Quiet \/ CallerTouches(p)
  <2>1. CASE InsertFails(p) \/ AskWritting(p) \/ AskConnected(p)
    <3>1. UNCHANGED queueVars /\ \E label : Goto(p, label)
      BY <2>1 DEF InsertFails, AskWritting, AskConnected, Branch
    <3> QED
      BY <1>1, <3>1, GotoQuiet
  <2>2. CASE WriteDataPurge(p)
    BY <2>2 DEF WriteDataPurge, CallerTouches, ReadsCursor, Purges, CallerLabel
  <2> QED
    BY <1>4, <2>1, <2>2 DEF WriteDataStep, CallerTouches
<1>5. ASSUME NEW p \in Caller, ConnectStep(p) PROVE Quiet \/ CallerTouches(p)
  <2>1. CASE ConnectPurge(p)
    BY <2>1 DEF ConnectPurge, CallerTouches, ReadsCursor, Purges, CallerLabel
  <2>2. CASE ConnectRefused(p) \/ ConnectDone(p)
    BY <1>1, <2>2, ForkQuiet DEF ConnectRefused, ConnectDone
  <2>3. CASE ConnectOpen(p) \/ ConnectThrows(p) \/ ConnectTruncate(p) \/ ConnectUp(p)
    <3>1. UNCHANGED queueVars /\ \E label : Goto(p, label)
      BY <2>3 DEF ConnectOpen, ConnectThrows, ConnectTruncate, ConnectUp
    <3> QED
      BY <1>1, <3>1, GotoQuiet
  <2> QED
    BY <1>5, <2>1, <2>2, <2>3 DEF ConnectStep
<1>6. ASSUME NEW p \in Caller, StartStep(p) PROVE Quiet
  <2>1. UNCHANGED queueVars
    BY <1>6 DEF StartStep, StartCheck, StartTruncate, StartSet, StartFork, StartForkFails
  <2>2. CASE StartFork(p)
    <3>1. PICK w \in Writer : pc' = [pc EXCEPT ![w] = "outer", ![p] = back[p]]
      BY <2>2 DEF StartFork
    <3> QED
      BY <1>1, <2>1, <3>1 DEF TypeInv, TypeOK, ControlOK, Quiet, Sending, Sent, Process
  <2>3. CASE ~StartFork(p)
    <3>1. \E label : Goto(p, label)
      BY <1>6, <2>3 DEF StartStep, StartCheck, StartTruncate, StartSet, StartForkFails, Branch
    <3> QED
      BY <1>1, <2>1, <3>1, GotoQuiet
  <2> QED
    BY <2>2, <2>3
<1>7. ASSUME NEW p \in Process, NEW label, TearDown(p, label),
             p \in Writer => label \notin Sending \cup Sent
      PROVE  Quiet
  <2>1. UNCHANGED queueVars
    BY <1>7 DEF TearDown
  <2>2. \E s : ForkCallback(p, s, label)
    BY <1>7 DEF TearDown
  <2> QED
    BY <1>7, <2>1, <2>2, ForkQuiet
<1>8. ASSUME NEW p \in Caller, Disconnect(p) PROVE Quiet
  BY <1>1, <1>7, <1>8 DEF Disconnect
<1>9. ASSUME NEW w \in Writer, WriterLoop(w) PROVE Quiet \/ WriterTouches(w)
  <2>1. CASE WriterCursor(w) \/ WriterSelect(w)
    BY <2>1 DEF WriterTouches
  <2>2. CASE WriterOuter(w) \/ WriterInner(w) \/ WriterSelectEmpty(w)
               \/ WriterSelectFails(w) \/ WriterExit(w)
    <3>1. /\ UNCHANGED queueVars
          /\ \E label : label \notin Sending \cup Sent /\ Goto(w, label)
      BY <2>2 DEF WriterOuter, WriterInner, WriterSelectEmpty, WriterSelectFails,
         WriterExit, Branch, Sending, Sent
    <3> QED
      BY <3>1, GotoQuiet DEF Process
  <2>3. CASE WriterFetched(w) \/ WriterGuard(w)
    <3>1. /\ UNCHANGED queueVars
          /\ pc[w] \in Sending
          /\ \E label : label \notin Sent /\ Goto(w, label)
      BY <2>3 DEF WriterFetched, WriterGuard, Branch, Sending, Sent
    <3> QED
      BY <3>1 DEF Goto, TypeInv, TypeOK, ControlOK, Quiet, Process
  <2> QED
    BY <1>9, <2>1, <2>2, <2>3 DEF WriterLoop
<1>10. ASSUME NEW w \in Writer, WriterSend(w) PROVE Quiet \/ WriterTouches(w)
  <2>1. CASE WriterEmit(w) \/ WriterEmitDropped(w) \/ WriterTruncate(w) \/ WriterSave(w)
    BY <2>1 DEF WriterTouches
  <2>2. CASE WriterEmitThrows(w) \/ WriterEmitOnNull(w) \/ WriterDisconnectCheck(w)
    <3>1. /\ UNCHANGED queueVars
          /\ \E label : label \notin Sending \cup Sent /\ Goto(w, label)
      BY <2>2 DEF WriterEmitThrows, WriterEmitOnNull, WriterDisconnectCheck, Branch,
         Sending, Sent
    <3> QED
      BY <3>1, GotoQuiet DEF Process
  <2>3. CASE WriterDisconnect(w)
    BY <1>7, <2>3 DEF WriterDisconnect, Process, Sending, Sent
  <2> QED
    BY <1>10, <2>1, <2>2, <2>3 DEF WriterSend
<1>11. ASSUME NEW m \in Monitor, MonitorStep(m) PROVE Quiet
  <2>1. m \in Process /\ m \notin Writer
    BY ConstantsAssumption DEF ConstantsAssumption, Process
  <2>2. CASE MonitorCheck(m)
    BY <2>1, <2>2, GotoQuiet DEF MonitorCheck
  <2>3. CASE MonitorDisconnect(m)
    BY <1>7, <2>1, <2>3 DEF MonitorDisconnect
  <2> QED
    BY <1>11, <2>2, <2>3 DEF MonitorStep
<1>12. CASE Environment
  <2>1. CASE \E p \in Process : Kill(p)
    BY <2>1, GotoQuiet DEF Kill, Sending, Sent
  <2>2. CASE Reboot
    BY <2>2 DEF Reboot, Quiet, Sending, Sent, Process
  <2>3. CASE Tick \/ StepBack
    BY <2>3 DEF Tick, StepBack, Quiet
  <2> QED
    BY <1>12, <2>1, <2>2, <2>3 DEF Environment
<1>13. CASE UNCHANGED vars
  BY <1>13 DEF vars, Quiet
<1> QED
  BY <1>2, <1>3, <1>4, <1>5, <1>6, <1>8, <1>9, <1>10, <1>11, <1>12, <1>13
  DEF Next, CallerStep, WriterStep

(***************************************************************************)
(* NewestSurvive.  What is saved in albia.lastid, and what a process read  *)
(* of it, never exceeds the ids writers went through.                      *)
(***************************************************************************)
Reached(n) == n = 0 \/ \E j \in handled : n <= j

NewestInv ==
  /\ NewestSurvive
  /\ Reached(lastId)
  /\ \A p \in Process : Reached(cursor[p])
  /\ \A w \in Writer : pc[w] \in Sent => rec[w] \in handled

LEMMA NewestInit == Init => NewestInv
BY DEF Init, NewestInv, NewestSurvive, Reached, Sent, Process

\* The row inserted has the next id.
LEMMA InsertStores ==
  ASSUME NEW p, Insert(p)
  PROVE  StoredIds' = StoredIds \cup {seq + 1}
<1>1. table' = table \cup {[id |-> seq + 1, timestamp |-> stamp[p]]}
  BY DEF Insert
<1>2. [id |-> seq + 1, timestamp |-> stamp[p]].id = seq + 1
  OBVIOUS
<1> QED
  BY <1>1, <1>2, Zenon DEF StoredIds

LEMMA NewestStep ==
  ASSUME TypeInv, NewestInv, [Next]_vars
  PROVE  NewestInv'
<1> USE DEF files, locals, history
<1>1. CASE Quiet
  BY <1>1 DEF Quiet, queueVars, NewestInv, NewestSurvive, Reached, StoredIds
<1>2. ASSUME NEW p \in Caller, CallerTouches(p) PROVE NewestInv'
  <2>1. /\ \A w \in Writer : pc'[w] = pc[w]
        /\ UNCHANGED <<rec, handled, lastId>>
        /\ p \in Process
    BY <1>2, ConstantsAssumption DEF ConstantsAssumption, CallerTouches, Insert,
       ReadsCursor, ReadLast, Purges, DeleteSent, Goto, TypeInv, TypeOK, ControlOK, Process
  <2>2. CASE Insert(p)
    <3>1. /\ seq' = seq + 1 /\ UNCHANGED cursor
          /\ StoredIds' = StoredIds \cup {seq + 1}
      BY <2>2, InsertStores DEF Insert
    <3>2. NewestSurvive'
      BY <2>1, <3>1 DEF NewestInv, NewestSurvive, TypeInv, TypeOK, DataOK
    <3> QED
      BY <2>1, <3>1, <3>2 DEF NewestInv, Reached
  <2>3. CASE ReadsCursor(p)
    <3>1. /\ UNCHANGED <<table, seq>>
          /\ cursor' = [cursor EXCEPT ![p] = LastRecordIdSent]
      BY <2>3 DEF ReadsCursor, ReadLast
    <3> QED
      BY <2>1, <3>1 DEF NewestInv, NewestSurvive, StoredIds, Reached, LastRecordIdSent,
         TypeInv, TypeOK, DataOK
  <2>4. CASE Purges(p)
    <3>1. /\ UNCHANGED <<seq, cursor>>
          /\ table' = table \/ table' = {r \in table : r.id > cursor[p]}
      BY <2>4 DEF Purges, DeleteSent
    <3>2. \A i \in StoredIds : i \in StoredIds' \/ i <= cursor[p]
      BY <2>1, <3>1 DEF StoredIds, TypeInv, TypeOK, DataOK, Ids
    <3>3. NewestSurvive'
      <4> SUFFICES ASSUME NEW i \in 1 .. seq, i \notin StoredIds'
                   PROVE  \E j \in handled : i <= j
        BY <2>1, <3>1 DEF NewestSurvive
      <4>1. CASE i \notin StoredIds
        BY <4>1 DEF NewestInv, NewestSurvive
      <4>2. CASE i \in StoredIds
        <5>1. i <= cursor[p] /\ cursor[p] \in 0 .. MaxRecord
          BY <2>1, <3>2, <4>2 DEF TypeInv, TypeOK, DataOK
        <5>2. PICK j \in handled : cursor[p] <= j
          BY <2>1, <5>1 DEF NewestInv, Reached
        <5>3. j \in Nat
          BY DEF TypeInv, TypeOK, DataOK, Ids
        <5> QED
          BY <5>1, <5>2, <5>3
      <4> QED
        BY <4>1, <4>2
    <3> QED
      BY <2>1, <3>1, <3>3 DEF NewestInv, Reached
  <2> QED
    BY <1>2, <2>2, <2>3, <2>4 DEF CallerTouches
<1>3. ASSUME NEW w \in Writer, WriterTouches(w) PROVE NewestInv'
  <2>1. UNCHANGED <<table, seq>> /\ w \in Process
    BY <1>3 DEF WriterTouches, WriterCursor, WriterSelect, WriterEmit, WriterEmitDropped,
       WriterTruncate, WriterSave, Process
  <2>2. CASE WriterCursor(w)
    <3>1. /\ UNCHANGED <<rec, handled, lastId>>
          /\ cursor' = [cursor EXCEPT ![w] = LastRecordIdSent]
          /\ Goto(w, "select")
      BY <2>2 DEF WriterCursor
    <3> QED
      BY <2>1, <3>1 DEF NewestInv, NewestSurvive, StoredIds, Reached, LastRecordIdSent, Goto,
         Sent, TypeInv, TypeOK, ControlOK, DataOK
  <2>3. CASE WriterSelect(w)
    <3>1. /\ UNCHANGED <<cursor, handled, lastId>>
          /\ \E i : rec' = [rec EXCEPT ![w] = i]
          /\ Goto(w, "fetched")
      BY <2>3 DEF WriterSelect
    <3> QED
      BY <2>1, <3>1 DEF NewestInv, NewestSurvive, StoredIds, Reached, Goto, Sent,
         TypeInv, TypeOK, ControlOK, DataOK
  <2>4. CASE WriterEmit(w) \/ WriterEmitDropped(w)
    <3>1. /\ UNCHANGED <<cursor, rec, lastId>>
          /\ handled' = handled \cup {rec[w]}
          /\ Goto(w, "truncate")
      BY <2>4 DEF WriterEmit, WriterEmitDropped
    <3> QED
      BY <2>1, <3>1 DEF NewestInv, NewestSurvive, StoredIds, Reached, Goto, Sent,
         TypeInv, TypeOK, ControlOK
  <2>5. CASE WriterTruncate(w) \/ WriterSave(w)
    <3>1. /\ UNCHANGED <<cursor, rec, handled>>
          /\ pc[w] \in Sent
          /\ lastId' = 0 \/ lastId' = rec[w]
          /\ \E label : Goto(w, label)
      BY <2>5 DEF WriterTruncate, WriterSave, Sent
    <3>2. Reached(lastId)'
      BY <3>1 DEF NewestInv, Reached, TypeInv, TypeOK, DataOK, Ids
    <3> QED
      BY <2>1, <3>1, <3>2 DEF NewestInv, NewestSurvive, StoredIds, Reached, Goto,
         TypeInv, TypeOK, ControlOK
  <2> QED
    BY <1>3, <2>2, <2>3, <2>4, <2>5 DEF WriterTouches
<1> QED
  BY <1>1, <1>2, <1>3, QuietOrTouches

\* Whatever fails, whoever calls and however the clock moves, no row above every
\* record a writer went through is deleted by writeData or connectToServer.
THEOREM NewestRecordsSurvive == Spec => []NewestSurvive
<1>1. TypeInv /\ NewestInv /\ [Next]_vars => NewestInv'
  BY NewestStep
<1>2. NewestInv => NewestSurvive
  BY DEF NewestInv
<1> QED
  BY <1>1, <1>2, NewestInit, TypeInvariant, PTL DEF Spec

-----------------------------------------------------------------------------
(***************************************************************************)
(* In order, nothing skipped, nothing lost: proofs for an application      *)
(* that uses the client as example.php does.  One process writes the       *)
(* records, the clock is never set back, and the process that writes does  *)
(* not close its own socket while callbacks may reconnect.  Processes may  *)
(* be any number, and any of them may be killed at any step.               *)
(***************************************************************************)

OrderedUse ==
  /\ ~ClockStepsBack
  /\ Producer \subseteq {Main}
  /\ Main \notin Disconnecter \/ Caller = {Main}

(***************************************************************************)
(* Ids and timestamps agree: the query orders rows by timestamp, while the *)
(* cursor and the purge compare ids.                                       *)
(***************************************************************************)
OnlyMainInserts == \A p \in Caller : pc[p] = "insert" => p = Main

RowsAgree ==
  /\ \A r, s \in table : r.id <= s.id => r.timestamp <= s.timestamp
  /\ \A r \in table : r.id <= seq /\ r.timestamp <= clock

StampIsNewest ==
  pc[Main] = "insert" =>
    stamp[Main] <= clock /\ \A r \in table : r.timestamp <= stamp[Main]

TimeInv == OnlyMainInserts /\ RowsAgree /\ StampIsNewest

LEMMA TimeInit == Init => TimeInv
BY ConstantsAssumption DEF ConstantsAssumption, Init, TimeInv, OnlyMainInserts, RowsAgree,
   StampIsNewest, Process

timeVars == <<clock, table, seq, stamp>>

\* No process gets to insert but by sampling the clock first.
NoneStartsInsert == \A p \in Caller : pc'[p] = "insert" => pc[p] = "insert"

LEMMA TimeQuiet ==
  ASSUME TimeInv, UNCHANGED timeVars, NoneStartsInsert
  PROVE  TimeInv'
BY ConstantsAssumption DEF ConstantsAssumption, TimeInv, OnlyMainInserts, RowsAgree,
   StampIsNewest, timeVars, NoneStartsInsert

LEMMA GotoStartsNoInsert ==
  ASSUME TypeInv, NEW p \in Process, NEW label, label # "insert", Goto(p, label)
  PROVE  NoneStartsInsert
BY DEF TypeInv, TypeOK, ControlOK, Goto, NoneStartsInsert, Process

LEMMA ForkStartsNoInsert ==
  ASSUME TypeInv, NEW p \in Process, NEW label, label # "insert", NEW s,
         ForkCallback(p, s, label)
  PROVE  NoneStartsInsert
<1>1. CASE \E c \in FreeCallback(p) : pc' = [pc EXCEPT ![c] = "idle", ![p] = label]
  BY <1>1, FreeCallbackType DEF TypeInv, TypeOK, ControlOK, NoneStartsInsert, Process
<1>2. CASE Goto(p, "dead")
  BY <1>2, GotoStartsNoInsert
<1> QED
  BY <1>1, <1>2, ForkCases

LEMMA TimeStep ==
  ASSUME OrderedUse, TypeInv, TimeInv, [Next]_vars
  PROVE  TimeInv'
<1> USE DEF files, locals, history, timeVars
<1> DEFINE Still == UNCHANGED timeVars
           Moves(p) == \E label : label # "insert" /\ Goto(p, label)
<1>1. ASSUME NEW p \in Process, Still, Moves(p) PROVE TimeInv'
  BY <1>1, GotoStartsNoInsert, TimeQuiet
<1>2. ASSUME NEW p \in Process, NEW label, label # "insert", TearDown(p, label)
      PROVE  TimeInv'
  BY <1>2, ForkStartsNoInsert, TimeQuiet DEF TearDown
<1>3. ASSUME NEW p \in Caller PROVE p \in Process
  BY DEF Process
<1>4. CASE Constructing
  <2>1. Still /\ Moves(Main)
    BY <1>4 DEF Constructing, ConstructConnected, ConstructWritting
  <2> QED
    BY <1>1, <1>3, <2>1, ConstantsAssumption DEF ConstantsAssumption
<1>5. ASSUME NEW p \in Caller, Call(p) PROVE TimeInv'
  <2>1. CASE WriteDataStamp(p)
    <3>1. /\ p = Main /\ Main \in Caller
          /\ stamp' = [stamp EXCEPT ![p] = clock]
          /\ Goto(p, "insert")
          /\ UNCHANGED <<clock, table, seq>>
      BY <2>1, ConstantsAssumption DEF ConstantsAssumption, OrderedUse, WriteDataStamp
    <3>2. stamp'[Main] = clock /\ \A q \in Caller : pc'[q] = "insert" => q = Main
      BY <3>1 DEF TimeInv, OnlyMainInserts, Goto, TypeInv, TypeOK, ControlOK, DataOK, Process
    <3> QED
      BY <3>1, <3>2 DEF TimeInv, OnlyMainInserts, RowsAgree, StampIsNewest, TypeInv, TypeOK,
         DataOK
  <2>2. CASE ~WriteDataStamp(p)
    <3>1. Still /\ Moves(p)
      BY <1>5, <2>2 DEF Call, WriteDataThrows, ConnectBegin, DisconnectCheck,
         CallbackReturns, ReceiveEvent
    <3> QED
      BY <1>1, <1>3, <3>1
  <2> QED
    BY <2>1, <2>2
<1>6. ASSUME NEW p \in Caller, Insert(p) PROVE TimeInv'
  <2>1. p = Main /\ pc[Main] = "insert" /\ Main \in Caller
    BY <1>6, ConstantsAssumption DEF ConstantsAssumption, TimeInv, OnlyMainInserts, Insert
  <2> DEFINE new == [id |-> seq + 1, timestamp |-> stamp[Main]]
  <2>2. /\ table' = table \cup {new} /\ seq' = seq + 1
        /\ UNCHANGED <<clock, stamp>>
        /\ Goto(Main, "askWritting")
    BY <1>6, <2>1 DEF Insert
  <2>3. new.id = seq + 1 /\ new.timestamp = stamp[Main]
    OBVIOUS
  <2>4. \A r \in table : /\ r.id \in Nat /\ r.timestamp \in Nat
                         /\ r.id <= seq /\ r.timestamp <= clock
                         /\ r.timestamp <= stamp[Main]
    BY <2>1, ConstantsAssumption DEF ConstantsAssumption, TimeInv, RowsAgree, StampIsNewest,
       TypeInv, TypeOK, DataOK, Ids
  <2>5. /\ stamp[Main] \in Nat /\ stamp[Main] <= clock
        /\ seq \in Nat /\ clock \in Nat
    BY <2>1, ConstantsAssumption DEF ConstantsAssumption, TimeInv, StampIsNewest,
       TypeInv, TypeOK, DataOK
  <2>6. RowsAgree'
    <3>1. ASSUME NEW r \in table', NEW s \in table', r.id <= s.id
          PROVE  r.timestamp <= s.timestamp
      <4>1. CASE s = new
        BY <2>2, <2>3, <2>4, <2>5, <4>1
      <4>2. CASE s \in table
        <5>1. r \in table
          BY <2>2, <2>3, <2>4, <2>5, <3>1, <4>2
        <5> QED
          BY <3>1, <4>2, <5>1 DEF TimeInv, RowsAgree
      <4> QED
        BY <2>2, <4>1, <4>2
    <3>2. ASSUME NEW r \in table' PROVE r.id <= seq' /\ r.timestamp <= clock'
      BY <2>2, <2>3, <2>4, <2>5
    <3> QED
      BY <3>1, <3>2 DEF RowsAgree
  <2>7. \A q \in Caller : pc'[q] # "insert"
    BY <2>1, <2>2 DEF TimeInv, OnlyMainInserts, Goto, TypeInv, TypeOK, ControlOK, Process
  <2> QED
    BY <2>1, <2>6, <2>7 DEF TimeInv, OnlyMainInserts, StampIsNewest
<1>7. ASSUME NEW p \in Caller, NEW from, NEW label, label # "insert", DeleteSent(p, from, label)
      PROVE  TimeInv'
  <2>1. /\ table' \subseteq table /\ UNCHANGED <<clock, seq, stamp>>
        /\ Goto(p, label)
    BY <1>7 DEF DeleteSent
  <2>2. NoneStartsInsert
    BY <1>3, <1>7, <2>1, GotoStartsNoInsert
  <2> QED
    BY <2>1, <2>2, ConstantsAssumption DEF ConstantsAssumption, TimeInv, OnlyMainInserts,
       RowsAgree, StampIsNewest, NoneStartsInsert
<1>8. ASSUME NEW p \in Caller, NEW from, NEW label, label # "insert", ReadLast(p, from, label)
      PROVE  TimeInv'
  BY <1>1, <1>3, <1>8 DEF ReadLast
<1>9. ASSUME NEW p \in Caller, WriteDataStep(p) PROVE TimeInv'
  <2>1. CASE InsertFails(p) \/ AskWritting(p) \/ AskConnected(p)
    <3>1. Still /\ Moves(p)
      BY <2>1 DEF InsertFails, AskWritting, AskConnected, Branch
    <3> QED
      BY <1>1, <1>3, <3>1
  <2>2. CASE WriteDataPurge(p)
    BY <1>7, <1>8, <2>2 DEF WriteDataPurge
  <2> QED
    BY <1>6, <1>9, <2>1, <2>2 DEF WriteDataStep
<1>10. ASSUME NEW p \in Caller, ConnectStep(p) PROVE TimeInv'
  <2>1. CASE ConnectPurge(p)
    BY <1>7, <1>8, <2>1 DEF ConnectPurge
  <2>2. CASE ConnectRefused(p) \/ ConnectDone(p)
    BY <1>3, <2>2, ForkStartsNoInsert, TimeQuiet DEF ConnectRefused, ConnectDone
  <2>3. CASE ConnectOpen(p) \/ ConnectThrows(p) \/ ConnectTruncate(p) \/ ConnectUp(p)
    <3>1. Still /\ Moves(p)
      BY <2>3 DEF ConnectOpen, ConnectThrows, ConnectTruncate, ConnectUp
    <3> QED
      BY <1>1, <1>3, <3>1
  <2> QED
    BY <1>10, <2>1, <2>2, <2>3 DEF ConnectStep
<1>11. ASSUME NEW p \in Caller, StartStep(p) PROVE TimeInv'
  <2>1. Still /\ back[p] # "insert"
    BY <1>11 DEF StartStep, StartCheck, StartTruncate, StartSet, StartFork, StartForkFails,
       TypeInv, TypeOK, ControlOK
  <2>2. CASE StartFork(p)
    <3>1. PICK w \in Writer : pc' = [pc EXCEPT ![w] = "outer", ![p] = back[p]]
      BY <2>2 DEF StartFork
    <3>2. NoneStartsInsert
      BY <2>1, <3>1 DEF NoneStartsInsert, TypeInv, TypeOK, ControlOK, Process
    <3> QED
      BY <2>1, <3>2, TimeQuiet
  <2>3. CASE ~StartFork(p)
    <3>1. Moves(p)
      BY <1>11, <2>1, <2>3 DEF StartStep, StartCheck, StartTruncate, StartSet,
         StartForkFails, Branch
    <3> QED
      BY <1>1, <1>3, <2>1, <3>1
  <2> QED
    BY <2>2, <2>3
<1>12. ASSUME NEW p \in Caller, Disconnect(p) PROVE TimeInv'
  BY <1>2, <1>3, <1>12 DEF Disconnect
<1>13. ASSUME NEW w \in Writer, WriterStep(w) PROVE TimeInv'
  <2>1. w \in Process
    BY DEF Process
  <2>2. CASE WriterDisconnect(w)
    BY <1>2, <2>1, <2>2 DEF WriterDisconnect
  <2>3. CASE WriterLoop(w)
    <3>1. Still /\ Moves(w)
      BY <2>3 DEF WriterLoop, WriterOuter, WriterInner, WriterCursor, WriterSelect,
         WriterSelectEmpty, WriterSelectFails, WriterFetched, WriterGuard, WriterExit, Branch
    <3> QED
      BY <1>1, <2>1, <3>1
  <2>4. CASE WriterSend(w) /\ ~WriterDisconnect(w)
    <3>1. Still /\ Moves(w)
      BY <2>4 DEF WriterSend, WriterEmit, WriterEmitDropped, WriterEmitThrows,
         WriterEmitOnNull, WriterTruncate, WriterSave, WriterDisconnectCheck, Branch
    <3> QED
      BY <1>1, <2>1, <3>1
  <2> QED
    BY <1>13, <2>2, <2>3, <2>4 DEF WriterStep
<1>14. ASSUME NEW m \in Monitor, MonitorStep(m) PROVE TimeInv'
  <2>1. m \in Process
    BY DEF Process
  <2>2. CASE MonitorCheck(m)
    BY <1>1, <2>1, <2>2 DEF MonitorCheck
  <2>3. CASE MonitorDisconnect(m)
    BY <1>2, <2>1, <2>3 DEF MonitorDisconnect
  <2> QED
    BY <1>14, <2>2, <2>3 DEF MonitorStep
<1>15. CASE Environment
  <2>1. CASE Tick
    <3>1. clock' = clock + 1 /\ UNCHANGED <<table, seq, stamp, pc>>
      BY <2>1 DEF Tick
    <3>2. clock \in Nat /\ \A r \in table : r.timestamp \in Nat
      BY ConstantsAssumption DEF ConstantsAssumption, TypeInv, TypeOK, DataOK
    <3>3. Main \in Caller => stamp[Main] \in Nat
      BY ConstantsAssumption DEF ConstantsAssumption, TypeInv, TypeOK, DataOK
    <3> QED
      BY <3>1, <3>2, <3>3, ConstantsAssumption DEF ConstantsAssumption, TimeInv,
         OnlyMainInserts, RowsAgree, StampIsNewest
  <2>2. CASE StepBack
    BY <2>2 DEF StepBack, OrderedUse
  <2>3. CASE \E p \in Process : Kill(p)
    BY <1>1, <2>3 DEF Kill
  <2>4. CASE Reboot
    <3>1. Still /\ NoneStartsInsert
      BY <2>4 DEF Reboot, NoneStartsInsert, Process
    <3> QED
      BY <3>1, TimeQuiet
  <2> QED
    BY <1>15, <2>1, <2>2, <2>3, <2>4 DEF Environment
<1>16. CASE UNCHANGED vars
  <2>1. Still /\ NoneStartsInsert
    BY <1>16 DEF vars, NoneStartsInsert
  <2> QED
    BY <2>1, TimeQuiet
<1> QED
  BY <1>4, <1>5, <1>9, <1>10, <1>11, <1>12, <1>13, <1>14, <1>15, <1>16
  DEF Next, CallerStep

-----------------------------------------------------------------------------
(***************************************************************************)
(* A writer never starts on a socket its parent closed, so no record is    *)
(* dropped by write() and then marked as sent.                             *)
(***************************************************************************)
Starting ==
  {"connectLast", "connectDelete", "connectTruncate", "connectUp", "startCheck",
   "startTruncate", "startSet", "startFork"}

Asking == {"insert", "askWritting", "askConnected"}

OnlyMainWrites == \A p \in Caller \ {Main} : pc[p] \notin Asking

OnlyDisconnecters == \A p \in Caller : pc[p] = "disconnect" => p \in Disconnecter

CallbackSockets == \A p \in Caller \ {Main} : pc[p] \in Starting => stream[p] = "open"

WriterSockets == \A w \in Writer : pc[w] \notin {"dead", "exit"} => stream[w] # "closed"

MainSocket ==
  stream[Main] = "closed" =>
    Caller = {Main} /\ connected = FALSE /\ pc[Main] \notin Starting

SocketInv ==
  /\ OnlyMainWrites /\ OnlyDisconnecters
  /\ CallbackSockets /\ WriterSockets /\ MainSocket

LEMMA SocketInit == Init => SocketInv
BY ConstantsAssumption DEF ConstantsAssumption, Init, SocketInv, OnlyMainWrites,
   OnlyDisconnecters, CallbackSockets, WriterSockets, MainSocket, Asking, Starting, Process

\* A step that moves one process within what SocketInv allows its socket.
LEMMA SocketGoto ==
  ASSUME OrderedUse, TypeInv, SocketInv, UNCHANGED stream,
         connected' = connected \/ connected' = FALSE,
         NEW p \in Process, NEW label, Goto(p, label),
         p \in Caller \ {Main} => label \notin Asking,
         p \in Caller => (label = "disconnect" => p \in Disconnecter),
         p \in Caller => (label \in Starting => pc[p] \in Starting),
         p \in Writer => (label \notin {"dead", "exit"} => pc[p] \notin {"dead", "exit"})
  PROVE  SocketInv'
<1> USE ConstantsAssumption DEF ConstantsAssumption, TypeInv, TypeOK, ControlOK, Process, Goto
<1>1. OnlyMainWrites'
  BY DEF SocketInv, OnlyMainWrites
<1>2. OnlyDisconnecters'
  BY DEF SocketInv, OnlyDisconnecters
<1>3. CallbackSockets'
  BY DEF SocketInv, CallbackSockets
<1>4. WriterSockets'
  BY DEF SocketInv, WriterSockets
<1>5. MainSocket'
  BY DEF SocketInv, MainSocket
<1> QED
  BY <1>1, <1>2, <1>3, <1>4, <1>5 DEF SocketInv

\* Forking a callback: the slot is idle, the forker goes where it needs no socket.
LEMMA SocketChild ==
  ASSUME OrderedUse, TypeInv, SocketInv,
         connected' = connected \/ connected' = FALSE,
         NEW p \in Process, NEW label \in {"idle", "dead", "exit"},
         NEW c, c = p \/ (c \in Caller \ {Main} /\ ~Live(c)),
         pc' = [pc EXCEPT ![c] = "idle", ![p] = label],
         NEW s, stream' = [stream EXCEPT ![c] = s, ![p] = s],
         p = Main /\ s = "closed" => Caller = {Main} /\ connected' = FALSE,
         p \in Writer => label \in {"dead", "exit"}
  PROVE  SocketInv'
<1> USE ConstantsAssumption DEF ConstantsAssumption, TypeInv, TypeOK, ControlOK, Process
<1>1. c = p \/ (c \in Caller \ {Main} /\ pc[c] = "dead")
  BY DEF Live
<1>2. OnlyMainWrites'
  BY <1>1 DEF SocketInv, OnlyMainWrites, Asking
<1>3. OnlyDisconnecters'
  BY <1>1 DEF SocketInv, OnlyDisconnecters
<1>4. CallbackSockets'
  BY <1>1 DEF SocketInv, CallbackSockets, Starting
<1>5. WriterSockets'
  BY <1>1 DEF SocketInv, WriterSockets
<1>6. MainSocket'
  BY <1>1 DEF SocketInv, MainSocket, Starting
<1> QED
  BY <1>2, <1>3, <1>4, <1>5, <1>6 DEF SocketInv

LEMMA SocketFork ==
  ASSUME OrderedUse, TypeInv, SocketInv,
         connected' = connected \/ connected' = FALSE,
         NEW p \in Process, NEW label \in {"idle", "dead", "exit"},
         NEW s, ForkCallback(p, s, label),
         p = Main /\ s = "closed" => Caller = {Main} /\ connected' = FALSE,
         p \in Writer => label \in {"dead", "exit"}
  PROVE  SocketInv'
<1>1. CASE \E c \in FreeCallback(p) :
             /\ pc' = [pc EXCEPT ![c] = "idle", ![p] = label]
             /\ stream' = [stream EXCEPT ![c] = s, ![p] = s]
  BY <1>1, FreeCallbackType, SocketChild
<1>2. CASE Goto(p, "dead") /\ stream' = [stream EXCEPT ![p] = s]
  <2>1. pc' = [pc EXCEPT ![p] = "idle", ![p] = "dead"]
    BY <1>2, TwiceExcept DEF Goto, TypeInv, TypeOK, ControlOK
  <2>2. stream' = [stream EXCEPT ![p] = s, ![p] = s]
    BY <1>2, TwiceExcept DEF TypeInv, TypeOK, ControlOK
  <2> QED
    BY <2>1, <2>2, SocketChild
<1> QED
  BY <1>1, <1>2, ForkCases

LEMMA SocketStep ==
  ASSUME OrderedUse, TypeInv, SocketInv, [Next]_vars
  PROVE  SocketInv'
<1> USE DEF files, locals
<1>1. ASSUME NEW p \in Caller PROVE p \in Process /\ p \notin Writer
  BY ConstantsAssumption DEF ConstantsAssumption, Process
<1>2. ASSUME NEW w \in Writer PROVE w \in Process /\ w \notin Caller
  BY ConstantsAssumption DEF ConstantsAssumption, Process
<1>3. Main \in Caller
  BY ConstantsAssumption DEF ConstantsAssumption
<1>4. CASE Constructing
  <2>1. CASE ConstructConnected
    BY <1>1, <1>2, <1>3, <2>1 DEF ConstructConnected, SocketInv, OnlyMainWrites,
       OnlyDisconnecters, CallbackSockets, WriterSockets, MainSocket, Goto, TypeInv,
       TypeOK, ControlOK
  <2>2. CASE ConstructWritting
    BY <1>1, <1>3, <2>2, SocketGoto DEF ConstructWritting, Asking, Starting
  <2> QED
    BY <1>4, <2>1, <2>2 DEF Constructing
<1>5. ASSUME NEW p \in Caller, Call(p) PROVE SocketInv'
  <2>1. CASE WriteDataStamp(p)
    BY <1>1, <2>1, SocketGoto DEF WriteDataStamp, OrderedUse, Starting
  <2>2. CASE ReceiveEvent(p)
    <3>1. /\ p # Main /\ pc[p] = "dead"
          /\ Goto(p, "idle") /\ stream' = [stream EXCEPT ![p] = "open"]
          /\ UNCHANGED connected
      BY <2>2 DEF ReceiveEvent, Live
    <3> QED
      BY <1>1, <1>2, <1>3, <3>1 DEF SocketInv, OnlyMainWrites, OnlyDisconnecters,
         CallbackSockets, WriterSockets, MainSocket, Goto, TypeInv, TypeOK, ControlOK,
         Asking, Starting
  <2>3. CASE WriteDataThrows(p) \/ ConnectBegin(p) \/ CallbackReturns(p)
    BY <1>1, <2>3, SocketGoto DEF WriteDataThrows, ConnectBegin, CallbackReturns,
       Asking, Starting
  <2>4. CASE DisconnectCheck(p)
    BY <1>1, <2>4, SocketGoto DEF DisconnectCheck, Asking, Starting
  <2> QED
    BY <1>5, <2>1, <2>2, <2>3, <2>4 DEF Call
<1>6. ASSUME NEW p \in Caller, WriteDataStep(p) PROVE SocketInv'
  <2>1. UNCHANGED <<stream, connected>>
    BY <1>6 DEF WriteDataStep, Insert, InsertFails, AskWritting, AskConnected,
       WriteDataPurge, ReadLast, DeleteSent
  <2>2. CASE AskConnected(p)
    <3>1. p = Main
      BY <2>2 DEF AskConnected, SocketInv, OnlyMainWrites, Asking
    <3>2. CASE connected
      <4>1. stream[Main] # "closed"
        BY <3>2 DEF SocketInv, MainSocket
      <4>2. Goto(Main, "startCheck")
        BY <2>2, <3>1, <3>2 DEF AskConnected, Branch
      <4> QED
        BY <1>1, <1>2, <1>3, <2>1, <4>1, <4>2 DEF SocketInv, OnlyMainWrites,
           OnlyDisconnecters, CallbackSockets, WriterSockets, MainSocket, Goto, TypeInv,
           TypeOK, ControlOK, Asking
    <3>3. CASE ~connected
      <4>1. Goto(p, "last")
        BY <2>2, <3>3 DEF AskConnected, Branch
      <4> QED
        BY <1>1, <2>1, <4>1, SocketGoto DEF Asking, Starting
    <3> QED
      BY <3>2, <3>3
  <2>3. CASE Insert(p) \/ InsertFails(p) \/ AskWritting(p) \/ WriteDataPurge(p)
    <3>1. \E label : /\ Goto(p, label) /\ label \notin Starting /\ label # "disconnect"
                     /\ label \in Asking => pc[p] \in Asking
      BY <2>3 DEF Insert, InsertFails, AskWritting, WriteDataPurge, ReadLast, DeleteSent,
         Branch, Starting, Asking
    <3> QED
      BY <1>1, <2>1, <3>1, SocketGoto DEF SocketInv, OnlyMainWrites
  <2> QED
    BY <1>6, <2>2, <2>3 DEF WriteDataStep
<1>7. ASSUME NEW p \in Caller, ForkCallback(p, stream[p], "idle"),
             connected' = connected \/ connected' = FALSE
      PROVE  SocketInv'
  <2>1. p = Main /\ stream[p] = "closed" => Caller = {Main} /\ connected' = FALSE
    BY <1>7 DEF SocketInv, MainSocket
  <2> QED
    BY <1>1, <1>7, <2>1, SocketFork
<1>8. ASSUME NEW p \in Caller, ConnectStep(p) PROVE SocketInv'
  <2>1. CASE ConnectRefused(p) \/ ConnectDone(p)
    BY <1>7, <2>1 DEF ConnectRefused, ConnectDone
  <2>2. CASE ConnectOpen(p)
    <3>1. /\ pc[p] = "request" /\ Goto(p, "connectLast")
          /\ stream' = [stream EXCEPT ![p] = "open"] /\ UNCHANGED connected
      BY <2>2 DEF ConnectOpen
    <3> QED
      BY <1>1, <1>2, <1>3, <3>1 DEF SocketInv, OnlyMainWrites, OnlyDisconnecters,
         CallbackSockets, WriterSockets, MainSocket, Goto, TypeInv, TypeOK, ControlOK,
         Asking, Starting
  <2>3. CASE ConnectUp(p)
    <3>1. /\ pc[p] \in Starting /\ Goto(p, "startCheck")
          /\ UNCHANGED stream /\ pc[p] \notin Asking
      BY <2>3 DEF ConnectUp, Starting, Asking
    <3>2. stream[Main] # "closed"
      BY <1>3, <3>1 DEF SocketInv, MainSocket
    <3> QED
      BY <1>1, <1>2, <1>3, <3>1, <3>2 DEF SocketInv, OnlyMainWrites, OnlyDisconnecters,
         CallbackSockets, WriterSockets, MainSocket, Goto, TypeInv, TypeOK, ControlOK, Asking
  <2>4. CASE ConnectThrows(p) \/ ConnectPurge(p) \/ ConnectTruncate(p)
    <3>1. /\ UNCHANGED stream /\ (connected' = connected \/ connected' = FALSE)
          /\ \E label : /\ Goto(p, label) /\ label \notin Asking /\ label # "disconnect"
                        /\ label \in Starting => pc[p] \in Starting
      BY <2>4 DEF ConnectThrows, ConnectPurge, ReadLast, DeleteSent, ConnectTruncate,
         Asking, Starting
    <3> QED
      BY <1>1, <3>1, SocketGoto
  <2> QED
    BY <1>8, <2>1, <2>2, <2>3, <2>4 DEF ConnectStep
<1>9. ASSUME NEW p \in Caller, StartStep(p) PROVE SocketInv'
  <2>1. /\ UNCHANGED connected /\ pc[p] \in Starting
        /\ back[p] \in {"connectDone", "last"}
    BY <1>9 DEF StartStep, StartCheck, StartTruncate, StartSet, StartFork, StartForkFails,
       Starting, TypeInv, TypeOK, ControlOK
  <2>2. CASE StartFork(p)
    <3>1. PICK w \in Writer :
            /\ pc' = [pc EXCEPT ![w] = "outer", ![p] = back[p]]
            /\ stream' = [stream EXCEPT ![w] = stream[p]]
      BY <2>2 DEF StartFork
    <3>2. stream[p] # "closed"
      BY <2>1 DEF SocketInv, CallbackSockets, MainSocket
    <3> QED
      BY <1>1, <1>2, <1>3, <2>1, <3>1, <3>2 DEF SocketInv, OnlyMainWrites,
         OnlyDisconnecters, CallbackSockets, WriterSockets, MainSocket, TypeInv, TypeOK,
         ControlOK, Asking, Starting
  <2>3. CASE ~StartFork(p)
    <3>1. /\ UNCHANGED stream
          /\ \E label : Goto(p, label) /\ label \notin Asking /\ label # "disconnect"
      BY <1>9, <2>1, <2>3 DEF StartStep, StartCheck, StartTruncate, StartSet,
         StartForkFails, Branch, Asking
    <3> QED
      BY <1>1, <2>1, <3>1, SocketGoto
  <2> QED
    BY <2>2, <2>3
<1>10. ASSUME NEW p \in Process, NEW label \in {"idle", "dead", "exit"}, TearDown(p, label),
              p \in Writer => label = "exit",
              p = Main => Caller = {Main}
       PROVE  SocketInv'
  <2>1. \E s : ForkCallback(p, s, label)
    BY <1>10 DEF TearDown
  <2>2. connected' = FALSE
    BY <1>10 DEF TearDown
  <2> QED
    BY <1>10, <2>1, <2>2, SocketFork
<1>11. ASSUME NEW p \in Caller, Disconnect(p) PROVE SocketInv'
  <2>1. p = Main => Caller = {Main}
    BY <1>11 DEF Disconnect, SocketInv, OnlyDisconnecters, OrderedUse
  <2> QED
    BY <1>1, <1>10, <1>11, <2>1 DEF Disconnect
<1>12. ASSUME NEW w \in Writer, WriterStep(w) PROVE SocketInv'
  <2>1. CASE WriterDisconnect(w)
    BY <1>2, <1>3, <1>10, <2>1 DEF WriterDisconnect
  <2>2. CASE WriterLoop(w)
    <3>1. /\ UNCHANGED <<stream, connected>>
          /\ \E label : /\ Goto(w, label)
                        /\ label \notin {"dead", "exit"} => pc[w] \notin {"dead", "exit"}
      BY <2>2 DEF WriterLoop, WriterOuter, WriterInner, WriterCursor, WriterSelect,
         WriterSelectEmpty, WriterSelectFails, WriterFetched, WriterGuard, WriterExit, Branch
    <3> QED
      BY <1>2, <3>1, SocketGoto
  <2>3. CASE WriterSend(w) /\ ~WriterDisconnect(w)
    <3>1. /\ UNCHANGED <<stream, connected>>
          /\ \E label : /\ Goto(w, label)
                        /\ label \notin {"dead", "exit"} => pc[w] \notin {"dead", "exit"}
      BY <2>3 DEF WriterSend, WriterEmit, WriterEmitDropped, WriterEmitThrows,
         WriterEmitOnNull, WriterTruncate, WriterSave, WriterDisconnectCheck, Branch
    <3> QED
      BY <1>2, <3>1, SocketGoto
  <2> QED
    BY <1>12, <2>1, <2>2, <2>3 DEF WriterStep
<1>13. ASSUME NEW m \in Monitor, MonitorStep(m) PROVE SocketInv'
  <2>1. m \in Process /\ m \notin Caller /\ m \notin Writer
    BY ConstantsAssumption DEF ConstantsAssumption, Process
  <2>2. CASE MonitorCheck(m)
    <3>1. /\ Goto(m, "disconnect") /\ stream' = [stream EXCEPT ![m] = "open"]
          /\ UNCHANGED connected
      BY <2>2 DEF MonitorCheck
    <3> QED
      BY <1>1, <1>2, <1>3, <2>1, <3>1 DEF SocketInv, OnlyMainWrites, OnlyDisconnecters,
         CallbackSockets, WriterSockets, MainSocket, Goto, TypeInv, TypeOK, ControlOK
  <2>3. CASE MonitorDisconnect(m)
    BY <1>3, <1>10, <2>1, <2>3 DEF MonitorDisconnect
  <2> QED
    BY <1>13, <2>2, <2>3 DEF MonitorStep
<1>14. CASE Environment
  <2>1. CASE \E p \in Process : Kill(p)
    BY <2>1, SocketGoto DEF Kill, Asking, Starting
  <2>2. CASE Reboot
    BY <1>1, <1>2, <1>3, <2>2 DEF Reboot, SocketInv, OnlyMainWrites, OnlyDisconnecters,
       CallbackSockets, WriterSockets, MainSocket, Asking, Starting
  <2>3. CASE Tick \/ StepBack
    BY <2>3 DEF Tick, StepBack, SocketInv, OnlyMainWrites, OnlyDisconnecters,
       CallbackSockets, WriterSockets, MainSocket
  <2> QED
    BY <1>14, <2>1, <2>2, <2>3 DEF Environment
<1>15. CASE UNCHANGED vars
  BY <1>15 DEF vars, SocketInv, OnlyMainWrites, OnlyDisconnecters, CallbackSockets,
     WriterSockets, MainSocket
<1> QED
  BY <1>4, <1>5, <1>6, <1>8, <1>9, <1>11, <1>12, <1>13, <1>14, <1>15
  DEF Next, CallerStep

-----------------------------------------------------------------------------
(***************************************************************************)
(* The queue.  Every cursor, saved or read, covers emitted ids only; a     *)
(* writer with a record in hand has emitted everything before it.          *)
(***************************************************************************)
Covered(n) == 1 .. n \subseteq emitted

CursorsCovered == Covered(lastId) /\ \A p \in Process : Covered(cursor[p])

WritersInOrder ==
  \A w \in Writer :
    /\ pc[w] \in Sending => rec[w] <= seq /\ Covered(rec[w] - 1)
    /\ pc[w] \in Sent => Covered(rec[w])

QueueInv == NoUnsentDeleted /\ InOrder /\ CursorsCovered /\ WritersInOrder

LEMMA QueueInit == Init => QueueInv
BY DEF Init, QueueInv, NoUnsentDeleted, InOrder, CursorsCovered, WritersInOrder, Covered,
   Sending, Sent, Process

\* The row the query selects: everything before it has been emitted.
LEMMA SelectedIsNext ==
  ASSUME TypeInv, RowsAgree, QueueInv, NEW w \in Writer, NEW r \in table,
         IsSelected(r, cursor[w])
  PROVE  r.id \in Ids /\ r.id <= seq /\ Covered(r.id - 1)
<1>1. /\ r.id \in Ids /\ r.id <= seq /\ r.id > cursor[w]
      /\ cursor[w] \in 0 .. MaxRecord /\ seq \in 0 .. MaxRecord
  BY DEF RowsAgree, IsSelected, Pending, TypeInv, TypeOK, DataOK, Process
<1>2. ASSUME NEW j \in 1 .. (r.id - 1) PROVE j \in emitted
  <2>1. j \in Nat /\ j < r.id /\ j \in 1 .. seq
    BY <1>1, ConstantsAssumption DEF ConstantsAssumption, Ids
  <2>2. CASE j <= cursor[w]
    BY <1>1, <2>1, <2>2 DEF QueueInv, CursorsCovered, Covered, Process
  <2>3. CASE j > cursor[w]
    <3>1. SUFFICES ASSUME j \in StoredIds PROVE FALSE
      BY <2>1 DEF QueueInv, NoUnsentDeleted
    <3>2. PICK s \in table : s.id = j
      BY <3>1 DEF StoredIds
    <3>3. Precedes(r, s)
      BY <2>3, <3>2 DEF IsSelected, Pending
    <3>4. s.timestamp <= r.timestamp
      BY <1>1, <2>1, <3>2 DEF RowsAgree, Ids
    <3>5. s.timestamp \in Nat /\ r.timestamp \in Nat
      BY ConstantsAssumption DEF ConstantsAssumption, TypeInv, TypeOK, DataOK
    <3> QED
      BY <1>1, <2>1, <3>2, <3>3, <3>4, <3>5 DEF Precedes, Ids
  <2> QED
    BY <1>1, <2>1, <2>2, <2>3
<1> QED
  BY <1>1, <1>2 DEF Covered

\* Only rows the cursor covers leave the table.
LEMMA PurgeForgets ==
  ASSUME TypeInv, NEW p \in Caller, Purges(p)
  PROVE  /\ StoredIds' \subseteq StoredIds
         /\ \A i \in StoredIds \ StoredIds' : i \in 1 .. cursor[p]
<1>1. table' = table \/ table' = {r \in table : r.id > cursor[p]}
  BY DEF Purges, DeleteSent
<1>2. cursor[p] \in 0 .. MaxRecord /\ \A r \in table : r.id \in Ids
  BY DEF TypeInv, TypeOK, DataOK, Process
<1> QED
  BY <1>1, <1>2, ConstantsAssumption DEF ConstantsAssumption, StoredIds, Ids

LEMMA QueueStep ==
  ASSUME TypeInv, RowsAgree, SocketInv, QueueInv, [Next]_vars
  PROVE  QueueInv'
<1> USE DEF files, locals, history
<1>1. CASE Quiet
  BY <1>1 DEF Quiet, queueVars, QueueInv, NoUnsentDeleted, InOrder, CursorsCovered,
     WritersInOrder, Covered, StoredIds
<1>2. ASSUME NEW p \in Caller, CallerTouches(p) PROVE QueueInv'
  <2>1. /\ \A w \in Writer : pc'[w] = pc[w]
        /\ UNCHANGED <<rec, emitted, lastId>>
        /\ p \in Process
    BY <1>2, ConstantsAssumption DEF ConstantsAssumption, CallerTouches, Insert,
       ReadsCursor, ReadLast, Purges, DeleteSent, Goto, TypeInv, TypeOK, ControlOK, Process
  <2>2. CASE Insert(p)
    <3>1. /\ seq' = seq + 1 /\ UNCHANGED cursor
          /\ StoredIds' = StoredIds \cup {seq + 1}
      BY <2>2, InsertStores DEF Insert
    <3>2. seq \in Nat /\ emitted \subseteq Nat /\ \A w \in Writer : rec[w] \in Nat
      BY ConstantsAssumption DEF ConstantsAssumption, TypeInv, TypeOK, DataOK, Ids
    <3>3. NoUnsentDeleted'
      BY <2>1, <3>1, <3>2 DEF QueueInv, NoUnsentDeleted
    <3>4. InOrder' /\ CursorsCovered' /\ WritersInOrder'
      BY <2>1, <3>1, <3>2 DEF QueueInv, InOrder, CursorsCovered, WritersInOrder, Covered
    <3> QED
      BY <3>3, <3>4 DEF QueueInv
  <2>3. CASE ReadsCursor(p)
    <3>1. /\ UNCHANGED <<table, seq>>
          /\ cursor' = [cursor EXCEPT ![p] = LastRecordIdSent]
      BY <2>3 DEF ReadsCursor, ReadLast
    <3>2. Covered(LastRecordIdSent)
      BY DEF QueueInv, CursorsCovered, Covered, LastRecordIdSent
    <3> QED
      BY <2>1, <3>1, <3>2 DEF QueueInv, NoUnsentDeleted, InOrder, CursorsCovered,
         WritersInOrder, Covered, StoredIds, TypeInv, TypeOK, DataOK
  <2>4. CASE Purges(p)
    <3>1. UNCHANGED <<seq, cursor>>
      BY <2>4 DEF Purges, DeleteSent
    <3>2. Covered(cursor[p])
      BY <2>1 DEF QueueInv, CursorsCovered
    <3>3. NoUnsentDeleted'
      BY <2>1, <2>4, <3>1, <3>2, PurgeForgets DEF QueueInv, NoUnsentDeleted, Covered
    <3> QED
      BY <2>1, <3>1, <3>3 DEF QueueInv, InOrder, CursorsCovered, WritersInOrder, Covered
  <2> QED
    BY <1>2, <2>2, <2>3, <2>4 DEF CallerTouches
<1>3. ASSUME NEW w \in Writer, WriterTouches(w) PROVE QueueInv'
  <2>1. UNCHANGED <<table, seq>> /\ w \in Process
    BY <1>3 DEF WriterTouches, WriterCursor, WriterSelect, WriterEmit, WriterEmitDropped,
       WriterTruncate, WriterSave, Process
  <2>2. CASE WriterCursor(w)
    <3>1. /\ UNCHANGED <<rec, emitted, lastId>>
          /\ cursor' = [cursor EXCEPT ![w] = LastRecordIdSent]
          /\ Goto(w, "select")
      BY <2>2 DEF WriterCursor
    <3>2. Covered(LastRecordIdSent)
      BY DEF QueueInv, CursorsCovered, Covered, LastRecordIdSent
    <3> QED
      BY <2>1, <3>1, <3>2 DEF QueueInv, NoUnsentDeleted, InOrder, CursorsCovered,
         WritersInOrder, Covered, StoredIds, Goto, Sending, Sent, TypeInv, TypeOK,
         ControlOK, DataOK
  <2>3. CASE WriterSelect(w)
    <3>1. PICK r \in table : IsSelected(r, cursor[w]) /\ rec' = [rec EXCEPT ![w] = r.id]
      BY <2>3 DEF WriterSelect
    <3>2. r.id <= seq /\ Covered(r.id - 1)
      BY <3>1, SelectedIsNext
    <3>3. UNCHANGED <<cursor, emitted, lastId>> /\ Goto(w, "fetched")
      BY <2>3 DEF WriterSelect
    <3> QED
      BY <2>1, <3>1, <3>2, <3>3 DEF QueueInv, NoUnsentDeleted, InOrder, CursorsCovered,
         WritersInOrder, Covered, StoredIds, Goto, Sending, Sent, TypeInv, TypeOK,
         ControlOK, DataOK
  <2>4. CASE WriterEmit(w)
    <3>1. /\ UNCHANGED <<cursor, rec, lastId>>
          /\ emitted' = emitted \cup {rec[w]}
          /\ Goto(w, "truncate") /\ pc[w] = "emit"
      BY <2>4 DEF WriterEmit
    <3>2. /\ rec[w] \in Ids /\ rec[w] <= seq /\ Covered(rec[w] - 1)
      BY <3>1 DEF TypeInv, HoldsRecord, Holding, QueueInv, WritersInOrder, Sending
    <3>3. 1 .. rec[w] \subseteq emitted'
      BY <3>1, <3>2, ConstantsAssumption DEF ConstantsAssumption, Covered, Ids
    <3>4. InOrder'
      BY <2>1, <3>1, <3>2, <3>3 DEF QueueInv, InOrder
    <3>5. WritersInOrder'
      BY <2>1, <3>1, <3>3 DEF QueueInv, WritersInOrder, Covered, Goto, Sending, Sent,
         TypeInv, TypeOK, ControlOK
    <3> QED
      BY <2>1, <3>1, <3>4, <3>5 DEF QueueInv, NoUnsentDeleted, CursorsCovered, Covered,
         StoredIds
  <2>5. CASE WriterEmitDropped(w)
    BY <2>5 DEF WriterEmitDropped, SocketInv, WriterSockets
  <2>6. CASE WriterTruncate(w) \/ WriterSave(w)
    <3>1. /\ UNCHANGED <<cursor, rec, emitted>>
          /\ pc[w] \in Sent
          /\ lastId' = 0 \/ lastId' = rec[w]
          /\ \E label : label \notin Sending /\ Goto(w, label)
      BY <2>6 DEF WriterTruncate, WriterSave, Sent, Sending
    <3>2. Covered(lastId)'
      BY <3>1 DEF QueueInv, WritersInOrder, Covered
    <3> QED
      BY <2>1, <3>1, <3>2 DEF QueueInv, NoUnsentDeleted, InOrder, CursorsCovered,
         WritersInOrder, Covered, StoredIds, Goto, TypeInv, TypeOK, ControlOK
  <2> QED
    BY <1>3, <2>2, <2>3, <2>4, <2>5, <2>6 DEF WriterTouches
<1> QED
  BY <1>1, <1>2, <1>3, QuietOrTouches

LEMMA OrderInvariant ==
  OrderedUse => (Spec => [](TypeInv /\ TimeInv /\ SocketInv /\ QueueInv))
<1> SUFFICES ASSUME OrderedUse
             PROVE  Spec => [](TypeInv /\ TimeInv /\ SocketInv /\ QueueInv)
  OBVIOUS
<1> DEFINE Inv == TypeInv /\ TimeInv /\ SocketInv /\ QueueInv
<1>1. Init => Inv
  BY TypeInit, TimeInit, SocketInit, QueueInit
<1>2. Inv /\ [Next]_vars => Inv'
  BY TypeStep, TimeStep, SocketStep, QueueStep DEF TimeInv
<1> QED
  BY <1>1, <1>2, PTL DEF Spec

\* "Delete old records sent": a row leaves the table only when it, and all rows
\* before it, have been handed to an open socket.
THEOREM NothingUnsentIsDeleted == OrderedUse => (Spec => []NoUnsentDeleted)
<1>1. QueueInv => NoUnsentDeleted
  BY DEF QueueInv
<1> QED
  BY <1>1, OrderInvariant, PTL

\* Records are emitted in the order in which writeData accepted them, none skipped.
THEOREM EmittedInOrder == OrderedUse => (Spec => []InOrder)
<1>1. QueueInv => InOrder
  BY DEF QueueInv
<1> QED
  BY <1>1, OrderInvariant, PTL

-----------------------------------------------------------------------------
(***************************************************************************)
(* The refinement: an insert accepts, an emit delivers, a purge forgets,   *)
(* and every other step leaves the abstract queue as it is.                *)
(***************************************************************************)
LEMMA FifoInit == Init => Fifo!Init
BY DEF Init, Fifo!Init, StoredIds

LEMMA FifoStep ==
  ASSUME TypeInv, SocketInv, QueueInv, [Next]_vars
  PROVE  [Fifo!Next]_(Fifo!fifoVars)
<1> USE DEF files, locals, history, Fifo!fifoVars
<1>1. CASE Quiet
  BY <1>1 DEF Quiet, queueVars, StoredIds
<1>2. ASSUME NEW p \in Caller, CallerTouches(p) PROVE [Fifo!Next]_(Fifo!fifoVars)
  <2>1. CASE Insert(p)
    <3>1. /\ seq < MaxRecord /\ seq' = seq + 1 /\ UNCHANGED emitted
          /\ StoredIds' = StoredIds \cup {seq + 1}
      BY <2>1, InsertStores DEF Insert
    <3>2. Fifo!Accept
      BY <3>1 DEF Fifo!Accept
    <3> QED
      BY <3>2 DEF Fifo!Next
  <2>2. CASE ReadsCursor(p)
    BY <2>2 DEF ReadsCursor, ReadLast, StoredIds
  <2>3. CASE Purges(p)
    <3> DEFINE gone == StoredIds \ StoredIds'
    <3>1. UNCHANGED <<seq, emitted>>
      BY <2>3 DEF Purges, DeleteSent
    <3>2. gone \in SUBSET emitted
      BY <2>3, PurgeForgets DEF QueueInv, CursorsCovered, Covered, Process
    <3>3. StoredIds' = StoredIds \ gone
      BY <2>3, PurgeForgets
    <3>4. Fifo!Forget
      BY <3>1, <3>2, <3>3 DEF Fifo!Forget
    <3> QED
      BY <3>4 DEF Fifo!Next
  <2> QED
    BY <1>2, <2>1, <2>2, <2>3 DEF CallerTouches
<1>3. ASSUME NEW w \in Writer, WriterTouches(w) PROVE [Fifo!Next]_(Fifo!fifoVars)
  <2>1. CASE WriterEmit(w)
    <3>1. /\ emitted' = emitted \cup {rec[w]} /\ pc[w] = "emit"
          /\ UNCHANGED <<table, seq>>
      BY <2>1 DEF WriterEmit
    <3>2. rec[w] \in 1 .. seq /\ Covered(rec[w] - 1)
      BY <3>1, ConstantsAssumption DEF ConstantsAssumption, TypeInv, TypeOK, DataOK,
         HoldsRecord, Holding, Ids, QueueInv, WritersInOrder, Sending
    <3>3. Fifo!Deliver
      BY <3>1, <3>2 DEF Fifo!Deliver, Covered, StoredIds
    <3> QED
      BY <3>3 DEF Fifo!Next
  <2>2. CASE WriterEmitDropped(w)
    BY <2>2 DEF WriterEmitDropped, SocketInv, WriterSockets
  <2>3. CASE WriterCursor(w) \/ WriterSelect(w) \/ WriterTruncate(w) \/ WriterSave(w)
    BY <2>3 DEF WriterCursor, WriterSelect, WriterTruncate, WriterSave, StoredIds
  <2> QED
    BY <1>3, <2>1, <2>2, <2>3 DEF WriterTouches
<1> QED
  BY <1>1, <1>2, <1>3, QuietOrTouches

\* writeData, the writer and the purges together implement a durable first-in
\* first-out queue.
THEOREM QueueImplementsFifo == OrderedUse => (Spec => ImplementsFifo)
<1>1. TypeInv /\ SocketInv /\ QueueInv /\ [Next]_vars => [Fifo!Next]_(Fifo!fifoVars)
  BY FifoStep
<1> QED
  BY <1>1, FifoInit, OrderInvariant, PTL DEF Spec, ImplementsFifo, Fifo!Spec

-----------------------------------------------------------------------------
(***************************************************************************)
(* One writer and no duplicate: proofs for a program without callbacks     *)
(* that reconnects, or starts again, only once the writer of the earlier   *)
(* connection has stopped.  The flag files alone do not ensure either:     *)
(* albia.writting is tested and set in two steps, reset by a constructor   *)
(* whatever still runs, and read before albia.connected.                   *)
(***************************************************************************)

SingleUse == Caller = {Main} /\ ReconnectWaits

NoWriter == \A w \in Writer : ~Live(w)

Connecting ==
  {"request", "connectLast", "connectDelete", "connectTruncate", "connectUp",
   "startCheck", "startTruncate", "startSet", "startFork"}

(***************************************************************************)
(* The flags of a program of one caller.  A writer runs either with        *)
(* albia.writting set or after its connection was lost; the main process   *)
(* is between ConnectBegin and StartFork, or about to find a connection    *)
(* without a writer, only when no writer runs.                             *)
(***************************************************************************)
FlagsTellWriter == writting = FALSE /\ connected = TRUE => NoWriter

ConnectingAlone == pc[Main] \in Connecting => NoWriter

AskingAlone == pc[Main] = "askConnected" /\ connected = TRUE => NoWriter

ConstructsUnconnected == pc[Main] = "construct" => connected = FALSE

ForksWithFlag == pc[Main] = "startFork" => writting = TRUE

SingleInv ==
  /\ AtMostOneWriter /\ FlagsTellWriter /\ ConnectingAlone
  /\ AskingAlone /\ ConstructsUnconnected /\ ForksWithFlag

LEMMA SingleInit == Init => SingleInv
BY ConstantsAssumption DEF ConstantsAssumption, Init, SingleInv, AtMostOneWriter,
   FlagsTellWriter, ConnectingAlone, AskingAlone, ConstructsUnconnected, ForksWithFlag,
   NoWriter, Live, Connecting, Process

\* Without callbacks, a fork of one only moves the process itself.
LEMMA NoCallback ==
  ASSUME SingleUse, NEW p, NEW c \in FreeCallback(p)
  PROVE  c = p
BY FreeCallbackType DEF SingleUse

LEMMA ForkAlone ==
  ASSUME SingleUse, NEW p \in Process, NEW s, NEW label, TypeInv, ForkCallback(p, s, label)
  PROVE  Goto(p, label) \/ Goto(p, "dead")
<1>1. CASE \E c \in FreeCallback(p) : pc' = [pc EXCEPT ![c] = "idle", ![p] = label]
  <2>1. PICK c \in FreeCallback(p) : pc' = [pc EXCEPT ![c] = "idle", ![p] = label]
    BY <1>1
  <2>2. c = p
    BY <2>1, NoCallback
  <2>3. pc \in [Process -> CallerLabel \cup WriterLabel]
    BY DEF TypeInv, TypeOK, ControlOK
  <2>4. pc' = [pc EXCEPT ![p] = "idle", ![p] = label]
    BY <2>1, <2>2, Zenon
  <2>5. [pc EXCEPT ![p] = "idle", ![p] = label] = [pc EXCEPT ![p] = label]
    BY <2>3, TwiceExcept, Zenon
  <2> QED
    BY <2>4, <2>5, Zenon DEF Goto
<1> QED
  BY <1>1, ForkCases

\* The ordinary step: no flag is set, no writer starts, and the main process
\* comes no closer to starting one.
LEMMA SingleGoto ==
  ASSUME SingleUse, TypeInv, SingleInv, UNCHANGED writting,
         connected' = connected \/ connected' = FALSE,
         NEW p \in Process, NEW label, Goto(p, label),
         p \in Writer => Live(p),
         p = Main => label \notin {"construct", "askConnected"},
         p = Main => (label \in Connecting => pc[Main] \in Connecting),
         p = Main => (label = "startFork" => pc[Main] = "startFork")
  PROVE  SingleInv'
<1> USE ConstantsAssumption
    DEF ConstantsAssumption, TypeInv, TypeOK, ControlOK, Process, Goto, Live, NoWriter
<1>1. \A w \in Writer : Live(w)' => Live(w)
  OBVIOUS
<1>2. AtMostOneWriter'
  BY <1>1 DEF SingleInv, AtMostOneWriter
<1>3. FlagsTellWriter'
  BY <1>1 DEF SingleInv, FlagsTellWriter
<1>4. ConnectingAlone'
  BY <1>1 DEF SingleInv, ConnectingAlone
<1>5. AskingAlone'
  BY <1>1 DEF SingleInv, AskingAlone
<1>6. ConstructsUnconnected'
  BY DEF SingleInv, ConstructsUnconnected
<1>7. ForksWithFlag'
  BY DEF SingleInv, ForksWithFlag
<1> QED
  BY <1>2, <1>3, <1>4, <1>5, <1>6, <1>7 DEF SingleInv

\* A step of the main process while no writer runs and none starts.
LEMMA SingleAlone ==
  ASSUME TypeInv, NoWriter, NEW label, Goto(Main, label),
         label = "construct" => connected' = FALSE,
         label = "startFork" => writting' = TRUE
  PROVE  SingleInv'
<1> USE ConstantsAssumption
    DEF ConstantsAssumption, TypeInv, TypeOK, ControlOK, Process, Goto, Live, NoWriter
<1>1. NoWriter'
  OBVIOUS
<1>2. AtMostOneWriter'
  BY <1>1 DEF AtMostOneWriter
<1> QED
  BY <1>1, <1>2 DEF SingleInv, FlagsTellWriter, ConnectingAlone, AskingAlone,
     ConstructsUnconnected, ForksWithFlag

LEMMA SingleStep ==
  ASSUME SingleUse, TypeInv, SingleInv, [Next]_vars
  PROVE  SingleInv'
<1> USE DEF files, locals
<1>1. Main \in Process /\ Main \notin Writer /\ \A p \in Caller : p = Main
  BY ConstantsAssumption DEF ConstantsAssumption, Process, SingleUse
<1>2. ASSUME NEW p \in Process, NEW label, TearDown(p, label),
             p \in Writer => Live(p), p = Main => label = "idle"
      PROVE  SingleInv'
  <2>1. UNCHANGED writting /\ connected' = FALSE
    BY <1>2 DEF TearDown
  <2>2. Goto(p, label) \/ Goto(p, "dead")
    BY <1>2, ForkAlone DEF TearDown
  <2> QED
    BY <1>2, <2>1, <2>2, SingleGoto DEF Connecting
<1>3. CASE Constructing
  <2>1. CASE ConstructConnected
    <3>1. /\ Goto(Main, "construct") /\ connected' = FALSE /\ UNCHANGED writting
      BY <2>1 DEF ConstructConnected
    <3> QED
      BY <1>1, <3>1 DEF SingleInv, AtMostOneWriter, FlagsTellWriter, ConnectingAlone,
         AskingAlone, ConstructsUnconnected, ForksWithFlag, NoWriter, Live, Connecting,
         Goto, TypeInv, TypeOK, ControlOK, Process
  <2>2. CASE ConstructWritting
    <3>1. /\ Goto(Main, "idle") /\ UNCHANGED connected /\ connected = FALSE
      BY <2>2 DEF ConstructWritting, SingleInv, ConstructsUnconnected
    <3> QED
      BY <1>1, <3>1 DEF SingleInv, AtMostOneWriter, FlagsTellWriter, ConnectingAlone,
         AskingAlone, ConstructsUnconnected, ForksWithFlag, NoWriter, Live, Connecting,
         Goto, TypeInv, TypeOK, ControlOK, Process
  <2> QED
    BY <1>3, <2>1, <2>2 DEF Constructing
<1>4. ASSUME NEW p \in Caller, Call(p) PROVE SingleInv'
  <2>1. CASE ConnectBegin(p)
    <3>1. NoWriter /\ Goto(Main, "request")
      BY <1>1, <2>1 DEF ConnectBegin, SingleUse, NoWriter
    <3> QED
      BY <3>1, SingleAlone
  <2>2. CASE ReceiveEvent(p)
    BY <1>1, <2>2 DEF ReceiveEvent
  <2>3. CASE WriteDataStamp(p) \/ WriteDataThrows(p) \/ DisconnectCheck(p) \/ CallbackReturns(p)
    <3>1. /\ UNCHANGED <<writting, connected>>
          /\ \E label : /\ Goto(Main, label)
                        /\ label \notin Connecting \cup {"construct", "askConnected"}
      BY <1>1, <2>3 DEF WriteDataStamp, WriteDataThrows, DisconnectCheck, CallbackReturns,
         Connecting
    <3> QED
      BY <1>1, <3>1, SingleGoto DEF Connecting
  <2> QED
    BY <1>4, <2>1, <2>2, <2>3 DEF Call
<1>5. ASSUME NEW p \in Caller, WriteDataStep(p) PROVE SingleInv'
  <2>1. UNCHANGED <<writting, connected>>
    BY <1>5 DEF WriteDataStep, Insert, InsertFails, AskWritting, AskConnected,
       WriteDataPurge, ReadLast, DeleteSent
  <2>2. CASE AskWritting(p)
    <3>1. CASE writting = TRUE
      <4>1. Goto(Main, "last")
        BY <1>1, <2>2, <3>1 DEF AskWritting, Branch
      <4> QED
        BY <1>1, <2>1, <4>1, SingleGoto DEF Connecting
    <3>2. CASE writting = FALSE
      <4>1. Goto(Main, "askConnected")
        BY <1>1, <2>2, <3>2 DEF AskWritting, Branch
      <4> QED
        BY <1>1, <2>1, <3>2, <4>1 DEF SingleInv, AtMostOneWriter, FlagsTellWriter,
           ConnectingAlone, AskingAlone, ConstructsUnconnected, ForksWithFlag, NoWriter,
           Live, Connecting, Goto, TypeInv, TypeOK, ControlOK, Process
    <3> QED
      BY <3>1, <3>2, Zenon DEF TypeInv, TypeOK, FlagsOK
  <2>3. CASE AskConnected(p)
    <3>1. CASE connected = TRUE
      <4>1. NoWriter /\ Goto(Main, "startCheck")
        BY <1>1, <2>3, <3>1 DEF AskConnected, Branch, SingleInv, AskingAlone
      <4> QED
        BY <4>1, SingleAlone
    <3>2. CASE connected = FALSE
      <4>1. Goto(Main, "last")
        BY <1>1, <2>3, <3>2 DEF AskConnected, Branch
      <4> QED
        BY <1>1, <2>1, <4>1, SingleGoto DEF Connecting
    <3> QED
      BY <3>1, <3>2, Zenon DEF TypeInv, TypeOK, FlagsOK
  <2>4. CASE Insert(p) \/ InsertFails(p) \/ WriteDataPurge(p)
    <3>1. \E label : /\ Goto(Main, label)
                     /\ label \notin Connecting \cup {"construct", "askConnected"}
      BY <1>1, <2>4 DEF Insert, InsertFails, WriteDataPurge, ReadLast, DeleteSent, Connecting
    <3> QED
      BY <1>1, <2>1, <3>1, SingleGoto DEF Connecting
  <2> QED
    BY <1>5, <2>2, <2>3, <2>4 DEF WriteDataStep
<1>6. ASSUME NEW p \in Caller, ConnectStep(p) PROVE SingleInv'
  <2>1. CASE ConnectDone(p)
    <3>1. Goto(Main, "idle") \/ Goto(Main, "dead")
      BY <1>1, <2>1, ForkAlone DEF ConnectDone
    <3>2. UNCHANGED <<writting, connected>>
      BY <2>1 DEF ConnectDone, files
    <3> QED
      BY <1>1, <3>1, <3>2, SingleGoto DEF Connecting
  <2>2. CASE ConnectRefused(p)
    <3>1. NoWriter
      BY <1>1, <2>2 DEF ConnectRefused, Connecting, SingleInv, ConnectingAlone
    <3>2. Goto(Main, "idle") \/ Goto(Main, "dead")
      BY <1>1, <2>2, ForkAlone DEF ConnectRefused
    <3> QED
      BY <3>1, <3>2, SingleAlone
  <2>3. CASE ~(ConnectDone(p) \/ ConnectRefused(p))
    <3>1. /\ pc[Main] \in Connecting
          /\ \E label : label \notin {"construct", "startFork"} /\ Goto(Main, label)
      BY <1>1, <1>6, <2>3 DEF ConnectStep, ConnectOpen, ConnectThrows, ConnectPurge,
         ReadLast, DeleteSent, ConnectTruncate, ConnectUp, Connecting
    <3> QED
      BY <3>1, SingleAlone DEF SingleInv, ConnectingAlone
  <2> QED
    BY <2>1, <2>2, <2>3
<1>7. ASSUME NEW p \in Caller, StartStep(p) PROVE SingleInv'
  <2>1. NoWriter
    BY <1>1, <1>7 DEF StartStep, StartCheck, StartTruncate, StartSet, StartFork,
       StartForkFails, Connecting, SingleInv, ConnectingAlone
  <2>2. back[Main] \in {"connectDone", "last"}
    BY <1>1, <1>7 DEF TypeInv, TypeOK, ControlOK
  <2>3. CASE StartFork(p)
    <3>1. PICK w \in Writer : pc' = [pc EXCEPT ![w] = "outer", ![Main] = back[Main]]
      BY <1>1, <2>3 DEF StartFork
    <3>2. writting' = TRUE
      BY <1>1, <2>3 DEF StartFork, SingleInv, ForksWithFlag
    <3>3. AtMostOneWriter'
      BY <1>1, <2>1, <3>1 DEF AtMostOneWriter, NoWriter, Live, TypeInv, TypeOK, ControlOK,
         Process
    <3>4. pc'[Main] \in {"connectDone", "last"}
      BY <1>1, <2>2, <3>1 DEF TypeInv, TypeOK, ControlOK
    <3> QED
      BY <3>2, <3>3, <3>4 DEF SingleInv, FlagsTellWriter, ConnectingAlone, AskingAlone,
         ConstructsUnconnected, ForksWithFlag, Connecting
  <2>4. CASE StartSet(p)
    <3>1. writting' = TRUE /\ Goto(Main, "startFork")
      BY <1>1, <2>4 DEF StartSet
    <3> QED
      BY <2>1, <3>1, SingleAlone
  <2>5. CASE StartCheck(p) \/ StartTruncate(p) \/ StartForkFails(p)
    <3>1. \E label : label \notin {"construct", "startFork"} /\ Goto(Main, label)
      BY <1>1, <2>2, <2>5 DEF StartCheck, StartTruncate, StartForkFails, Branch
    <3> QED
      BY <2>1, <3>1, SingleAlone
  <2> QED
    BY <1>7, <2>3, <2>4, <2>5 DEF StartStep
<1>8. ASSUME NEW p \in Caller, Disconnect(p) PROVE SingleInv'
  BY <1>1, <1>2, <1>8 DEF Disconnect
<1>9. ASSUME NEW w \in Writer, WriterStep(w) PROVE SingleInv'
  <2>1. w \in Process /\ w # Main
    BY <1>1 DEF Process
  <2>2. CASE WriterExit(w)
    <3>1. /\ Live(w) /\ Goto(w, "dead") /\ UNCHANGED connected
      BY <2>2 DEF WriterExit, Live
    <3>2. NoWriter'
      BY <2>1, <3>1 DEF NoWriter, Live, Goto, SingleInv, AtMostOneWriter, TypeInv, TypeOK,
         ControlOK, Process
    <3>3. pc[Main] \notin Connecting /\ pc'[Main] = pc[Main]
      BY <1>1, <2>1, <3>1 DEF SingleInv, ConnectingAlone, NoWriter, Goto, TypeInv, TypeOK,
         ControlOK
    <3> QED
      BY <3>1, <3>2, <3>3 DEF SingleInv, AtMostOneWriter, FlagsTellWriter, ConnectingAlone,
         AskingAlone, ConstructsUnconnected, ForksWithFlag, NoWriter, Connecting
  <2>3. CASE WriterDisconnect(w)
    BY <1>2, <2>1, <2>3 DEF WriterDisconnect, Live
  <2>4. CASE WriterLoop(w) /\ ~WriterExit(w)
    <3>1. /\ UNCHANGED <<writting, connected>> /\ Live(w) /\ \E label : Goto(w, label)
      BY <2>4 DEF WriterLoop, WriterOuter, WriterInner, WriterCursor, WriterSelect,
         WriterSelectEmpty, WriterSelectFails, WriterFetched, WriterGuard, Branch, Live
    <3> QED
      BY <2>1, <3>1, SingleGoto
  <2>5. CASE WriterSend(w) /\ ~WriterDisconnect(w)
    <3>1. /\ UNCHANGED <<writting, connected>> /\ Live(w) /\ \E label : Goto(w, label)
      BY <2>5 DEF WriterSend, WriterEmit, WriterEmitDropped, WriterEmitThrows,
         WriterEmitOnNull, WriterTruncate, WriterSave, WriterDisconnectCheck, Branch, Live
    <3> QED
      BY <2>1, <3>1, SingleGoto
  <2> QED
    BY <1>9, <2>2, <2>3, <2>4, <2>5 DEF WriterStep
<1>10. ASSUME NEW m \in Monitor, MonitorStep(m) PROVE SingleInv'
  <2>1. m \in Process /\ m \notin Writer /\ m # Main
    BY ConstantsAssumption DEF ConstantsAssumption, Process
  <2>2. CASE MonitorCheck(m)
    BY <2>1, <2>2, SingleGoto DEF MonitorCheck
  <2>3. CASE MonitorDisconnect(m)
    BY <1>2, <2>1, <2>3 DEF MonitorDisconnect
  <2> QED
    BY <1>10, <2>2, <2>3 DEF MonitorStep
<1>11. CASE Environment
  <2>1. CASE \E p \in Process : Kill(p)
    BY <2>1, SingleGoto DEF Kill, Connecting
  <2>2. CASE Reboot
    BY <1>1, <2>2 DEF Reboot, SingleInv, AtMostOneWriter, FlagsTellWriter, ConnectingAlone,
       AskingAlone, ConstructsUnconnected, ForksWithFlag, NoWriter, Live, Connecting, Process
  <2>3. CASE Tick \/ StepBack
    BY <2>3 DEF Tick, StepBack, SingleInv, AtMostOneWriter, FlagsTellWriter,
       ConnectingAlone, AskingAlone, ConstructsUnconnected, ForksWithFlag, NoWriter, Live
  <2> QED
    BY <1>11, <2>1, <2>2, <2>3 DEF Environment
<1>12. CASE UNCHANGED vars
  BY <1>12 DEF vars, SingleInv, AtMostOneWriter, FlagsTellWriter, ConnectingAlone,
     AskingAlone, ConstructsUnconnected, ForksWithFlag, NoWriter, Live
<1> QED
  BY <1>3, <1>4, <1>5, <1>6, <1>7, <1>8, <1>9, <1>10, <1>11, <1>12
  DEF Next, CallerStep

LEMMA SingleInvariant == SingleUse => (Spec => [](TypeInv /\ SingleInv))
<1> SUFFICES ASSUME SingleUse PROVE Spec => [](TypeInv /\ SingleInv)
  OBVIOUS
<1>1. Init => TypeInv /\ SingleInv
  BY TypeInit, SingleInit
<1>2. TypeInv /\ SingleInv /\ [Next]_vars => (TypeInv /\ SingleInv)'
  BY TypeStep, SingleStep
<1> QED
  BY <1>1, <1>2, PTL DEF Spec

\* Two writer forks never drain the queue at once, whatever else fails.
THEOREM OneWriter == SingleUse => (Spec => []AtMostOneWriter)
<1>1. SingleInv => AtMostOneWriter
  BY DEF SingleInv
<1> QED
  BY <1>1, SingleInvariant, PTL

-----------------------------------------------------------------------------
(***************************************************************************)
(* Without kills and reboots, and with PHP in the script's folder, the one *)
(* writer there is saves each record it emitted before it reads the file   *)
(* again: albia.lastid, or the record between emit and save, bounds every  *)
(* id emitted, and a record about to be emitted is above it.               *)
(***************************************************************************)
OnceUse ==
  /\ SingleUse
  /\ Faults \cap {"kill", "reboot"} = {}
  /\ CwdIsScriptFolder = TRUE

EmittedUpTo(n) == \A i \in emitted : i <= n

NoneResent == resent = {}

SaveIsNewest == \A w \in Writer : pc[w] \in Sent => EmittedUpTo(rec[w])

FileIsNewest == (\A w \in Writer : pc[w] \notin Sent) => EmittedUpTo(lastId)

CursorIsFile == \A w \in Writer : pc[w] = "select" => cursor[w] = lastId

NextIsNew == \A w \in Writer : pc[w] \in Sending => rec[w] > lastId

OnceInv == NoneResent /\ SaveIsNewest /\ FileIsNewest /\ CursorIsFile /\ NextIsNew

LEMMA OnceInit == Init => OnceInv
BY DEF Init, OnceInv, NoneResent, SaveIsNewest, FileIsNewest, CursorIsFile, NextIsNew,
   EmittedUpTo, Sent, Sending, Process

\* What a step of no writer's does to the writers: at most it starts one.
OthersStep ==
  /\ UNCHANGED <<lastId, rec, emitted, resent>>
  /\ \A w \in Writer : /\ cursor'[w] = cursor[w]
                       /\ pc'[w] \in {pc[w], "outer"}
                       /\ pc'[w] # pc[w] => pc[w] = "dead"

\* A process that is no writer moves itself, or starts a callback.
LEMMA OtherGoto ==
  ASSUME TypeInv, NEW p \in Process, p \notin Writer, NEW label, Goto(p, label)
  PROVE  \A w \in Writer : pc'[w] = pc[w]
BY DEF TypeInv, TypeOK, ControlOK, Goto, Process

LEMMA OtherFork ==
  ASSUME TypeInv, NEW p \in Process, NEW s, NEW label, ForkCallback(p, s, label)
  PROVE  \A w \in Writer \ {p} : pc'[w] = pc[w]
<1>1. CASE \E c \in FreeCallback(p) : pc' = [pc EXCEPT ![c] = "idle", ![p] = label]
  BY <1>1, FreeCallbackType, ConstantsAssumption
  DEF ConstantsAssumption, TypeInv, TypeOK, ControlOK, Process
<1>2. CASE Goto(p, "dead")
  BY <1>2 DEF TypeInv, TypeOK, ControlOK, Goto, Process
<1> QED
  BY <1>1, <1>2, ForkCases

LEMMA OwnSteps ==
  ASSUME OnceUse, TypeInv, [Next]_vars, ~ \E w \in Writer : WriterStep(w), NEW w \in Writer
  PROVE  pc'[w] = pc[w] \/ (pc[w] = "dead" /\ pc'[w] = "outer")
<1>1. Main \in Process /\ Main \notin Writer
  BY ConstantsAssumption DEF ConstantsAssumption, Process
<1>2. ASSUME NEW p \in Caller PROVE p \in Process /\ p \notin Writer
  BY ConstantsAssumption DEF ConstantsAssumption, Process
<1>3. CASE Constructing
  BY <1>1, <1>3, OtherGoto DEF Constructing, ConstructConnected, ConstructWritting
<1>4. ASSUME NEW p \in Caller, Call(p) PROVE pc'[w] = pc[w]
  <2>1. \E label : Goto(p, label)
    BY <1>4 DEF Call, WriteDataStamp, WriteDataThrows, ConnectBegin, DisconnectCheck,
       CallbackReturns, ReceiveEvent
  <2> QED
    BY <1>2, <2>1, OtherGoto
<1>5. ASSUME NEW p \in Caller, WriteDataStep(p) PROVE pc'[w] = pc[w]
  <2>1. \E label : Goto(p, label)
    BY <1>5 DEF WriteDataStep, Insert, InsertFails, AskWritting, AskConnected,
       WriteDataPurge, ReadLast, DeleteSent, Branch
  <2> QED
    BY <1>2, <2>1, OtherGoto
<1>6. ASSUME NEW p \in Caller, ConnectStep(p) PROVE pc'[w] = pc[w]
  <2>1. \/ \E label : Goto(p, label)
        \/ ForkCallback(p, stream[p], "idle")
    BY <1>6 DEF ConnectStep, ConnectOpen, ConnectRefused, ConnectThrows, ConnectPurge,
       ReadLast, DeleteSent, ConnectTruncate, ConnectUp, ConnectDone
  <2> QED
    BY <1>2, <2>1, OtherGoto, OtherFork
<1>7. ASSUME NEW p \in Caller, StartStep(p)
      PROVE  pc'[w] = pc[w] \/ (pc[w] = "dead" /\ pc'[w] = "outer")
  <2>1. CASE StartFork(p)
    <3>1. PICK v \in Writer : ~Live(v) /\ pc' = [pc EXCEPT ![v] = "outer", ![p] = back[p]]
      BY <2>1 DEF StartFork
    <3> QED
      BY <1>2, <3>1 DEF Live, TypeInv, TypeOK, ControlOK, Process
  <2>2. CASE ~StartFork(p)
    <3>1. \E label : Goto(p, label)
      BY <1>7, <2>2 DEF StartStep, StartCheck, StartTruncate, StartSet, StartForkFails, Branch
    <3> QED
      BY <1>2, <3>1, OtherGoto
  <2> QED
    BY <2>1, <2>2
<1>8. ASSUME NEW p \in Caller, Disconnect(p) PROVE pc'[w] = pc[w]
  BY <1>2, <1>8, OtherFork DEF Disconnect, TearDown
<1>9. ASSUME NEW m \in Monitor, MonitorStep(m) PROVE pc'[w] = pc[w]
  <2>1. m \in Process /\ m \notin Writer
    BY ConstantsAssumption DEF ConstantsAssumption, Process
  <2> QED
    BY <1>9, <2>1, OtherGoto, OtherFork
    DEF MonitorStep, MonitorCheck, MonitorDisconnect, TearDown
<1>10. CASE Environment
  BY <1>10 DEF Environment, OnceUse, Tick, StepBack, Kill, Reboot
<1>11. CASE UNCHANGED vars
  BY <1>11 DEF vars
<1> QED
  BY <1>3, <1>4, <1>5, <1>6, <1>7, <1>8, <1>9, <1>10, <1>11 DEF Next, CallerStep

LEMMA OthersLeaveWriters ==
  ASSUME OnceUse, TypeInv, [Next]_vars, ~ \E w \in Writer : WriterStep(w)
  PROVE  OthersStep
<1>1. \A w \in Writer : pc'[w] = pc[w] \/ (pc[w] = "dead" /\ pc'[w] = "outer")
  BY OwnSteps
<1>2. CASE Quiet
  BY <1>1, <1>2 DEF Quiet, queueVars, history, OthersStep
<1>3. ASSUME NEW p \in Caller, CallerTouches(p) PROVE OthersStep
  <2>1. p \notin Writer
    BY ConstantsAssumption DEF ConstantsAssumption
  <2>2. UNCHANGED <<lastId, rec, emitted, resent>>
    BY <1>3 DEF CallerTouches, Insert, ReadsCursor, ReadLast, Purges, DeleteSent, files,
       locals, history
  <2>3. cursor' = cursor \/ \E n : cursor' = [cursor EXCEPT ![p] = n]
    BY <1>3 DEF CallerTouches, Insert, ReadsCursor, ReadLast, Purges, DeleteSent, locals
  <2>4. \A w \in Writer : cursor'[w] = cursor[w]
    BY <2>1, <2>3 DEF TypeInv, TypeOK, DataOK, Process
  <2> QED
    BY <1>1, <2>2, <2>4 DEF OthersStep
<1>4. ASSUME NEW w \in Writer, WriterTouches(w) PROVE FALSE
  BY <1>4 DEF WriterTouches, WriterStep, WriterLoop, WriterSend
<1> QED
  BY <1>2, <1>3, <1>4, QuietOrTouches

\* With every other writer dead, OnceInv speaks of one writer only.
OnceFor(w) ==
  /\ resent = {}
  /\ pc[w] \in Sent => EmittedUpTo(rec[w])
  /\ pc[w] \notin Sent => EmittedUpTo(lastId)
  /\ pc[w] = "select" => cursor[w] = lastId
  /\ pc[w] \in Sending => rec[w] > lastId

Alone(w) == \A v \in Writer : v # w => pc[v] = "dead"

LEMMA OnceForOne ==
  ASSUME NEW w \in Writer, Alone(w)
  PROVE  OnceInv <=> OnceFor(w)
BY DEF OnceInv, OnceFor, Alone, NoneResent, SaveIsNewest, FileIsNewest, CursorIsFile,
   NextIsNew, Sent, Sending

\* The writer's step moves itself alone, but for a callback it may fork.
LEMMA WriterMoves ==
  ASSUME TypeInv, NEW w \in Writer, WriterStep(w)
  PROVE  /\ pc[w] # "dead"
         /\ \A v \in Writer \ {w} : pc'[v] = pc[v]
<1>1. w \in Process
  BY DEF Process
<1>2. CASE WriterDisconnect(w)
  BY <1>1, <1>2, OtherFork DEF WriterDisconnect, TearDown
<1>3. CASE ~WriterDisconnect(w)
  <2>1. pc[w] # "dead" /\ \E label : Goto(w, label)
    BY <1>3 DEF WriterStep, WriterLoop, WriterSend, WriterOuter, WriterInner, WriterCursor,
       WriterSelect, WriterSelectEmpty, WriterSelectFails, WriterFetched, WriterGuard,
       WriterExit, WriterEmit, WriterEmitDropped, WriterEmitThrows, WriterEmitOnNull,
       WriterTruncate, WriterSave, WriterDisconnectCheck, Branch
  <2> QED
    BY <1>1, <2>1 DEF Goto, TypeInv, TypeOK, ControlOK, Process
<1> QED
  BY <1>2, <1>3 DEF WriterDisconnect

LEMMA WriterOnce ==
  ASSUME OnceUse, TypeInv, NEW w \in Writer, OnceFor(w), WriterStep(w)
  PROVE  OnceFor(w)'
<1> USE DEF files, locals, history
<1>1. /\ w \in Process /\ pc \in [Process -> CallerLabel \cup WriterLabel]
      /\ lastId \in Nat /\ rec[w] \in Nat
      /\ emitted \subseteq Nat
      /\ cursor \in [Process -> Nat] /\ rec \in [Writer -> Nat]
  BY ConstantsAssumption
  DEF ConstantsAssumption, Process, TypeInv, TypeOK, ControlOK, DataOK, Ids
<1>2. CASE WriterOuter(w) \/ WriterInner(w) \/ WriterSelectEmpty(w)
             \/ WriterSelectFails(w) \/ WriterExit(w) \/ WriterEmitThrows(w)
             \/ WriterEmitOnNull(w) \/ WriterDisconnectCheck(w)
  <2>1. /\ UNCHANGED <<lastId, rec, cursor, emitted, resent>>
        /\ pc[w] \notin Sent
        /\ \E label : label \notin Sent \cup Sending \cup {"select"} /\ Goto(w, label)
    BY <1>2 DEF WriterOuter, WriterInner, WriterSelectEmpty, WriterSelectFails, WriterExit,
       WriterEmitThrows, WriterEmitOnNull, WriterDisconnectCheck, Branch, Sent, Sending
  <2> QED
    BY <1>1, <2>1 DEF OnceFor, EmittedUpTo, Goto
<1>3. CASE WriterDisconnect(w)
  <2>1. /\ UNCHANGED <<lastId, rec, cursor, emitted, resent>>
        /\ pc[w] \notin Sent
        /\ \E s : ForkCallback(w, s, "exit")
    BY <1>3 DEF WriterDisconnect, TearDown, Sent
  <2>2. Goto(w, "exit") \/ Goto(w, "dead")
    BY <1>1, <2>1, ForkAlone DEF OnceUse
  <2> QED
    BY <1>1, <2>1, <2>2 DEF OnceFor, EmittedUpTo, Goto, Sent, Sending
<1>4. CASE WriterFetched(w) \/ WriterGuard(w)
  <2>1. /\ UNCHANGED <<lastId, rec, cursor, emitted, resent>>
        /\ pc[w] \in Sending
        /\ \E label : label \notin Sent \cup {"select"} /\ Goto(w, label)
    BY <1>4 DEF WriterFetched, WriterGuard, Branch, Sent, Sending
  <2> QED
    BY <1>1, <2>1 DEF OnceFor, EmittedUpTo, Goto, Sent, Sending
<1>5. CASE WriterCursor(w)
  <2>1. /\ UNCHANGED <<lastId, rec, emitted, resent>>
        /\ pc[w] = "cursor" /\ Goto(w, "select")
        /\ cursor' = [cursor EXCEPT ![w] = lastId]
    BY <1>5 DEF WriterCursor, LastRecordIdSent, OnceUse
  <2> QED
    BY <1>1, <2>1 DEF OnceFor, EmittedUpTo, Goto, Sent, Sending
<1>6. CASE WriterSelect(w)
  <2>1. /\ UNCHANGED <<lastId, cursor, emitted, resent>>
        /\ pc[w] = "select" /\ Goto(w, "fetched")
        /\ \E r \in table : r.id > cursor[w] /\ rec' = [rec EXCEPT ![w] = r.id]
    BY <1>6 DEF WriterSelect, IsSelected, Pending
  <2> QED
    BY <1>1, <2>1 DEF OnceFor, EmittedUpTo, Goto, Sent, Sending
<1>7. CASE WriterEmit(w) \/ WriterEmitDropped(w)
  <2>1. /\ UNCHANGED <<lastId, rec, cursor>>
        /\ pc[w] = "emit" /\ Goto(w, "truncate")
        /\ emitted' \subseteq emitted \cup {rec[w]}
        /\ resent' \subseteq resent \cup (emitted \cap {rec[w]})
    BY <1>7 DEF WriterEmit, WriterEmitDropped
  <2>2. /\ resent = {} /\ rec[w] > lastId
        /\ \A i \in emitted : i <= lastId
    BY <2>1 DEF OnceFor, EmittedUpTo, Sent, Sending
  <2>3. rec[w] \notin emitted /\ \A i \in emitted' : i <= rec[w]
    BY <1>1, <2>1, <2>2
  <2> QED
    BY <1>1, <2>1, <2>2, <2>3 DEF OnceFor, EmittedUpTo, Goto, Sent, Sending
<1>8. CASE WriterTruncate(w)
  <2>1. /\ UNCHANGED <<rec, cursor, emitted, resent>>
        /\ pc[w] = "truncate" /\ Goto(w, "save")
    BY <1>8 DEF WriterTruncate
  <2> QED
    BY <1>1, <2>1 DEF OnceFor, EmittedUpTo, Goto, Sent, Sending
<1>9. CASE WriterSave(w)
  <2>1. /\ UNCHANGED <<rec, cursor, emitted, resent>>
        /\ lastId' = rec[w]
        /\ pc[w] = "save" /\ Goto(w, "inner")
    BY <1>9 DEF WriterSave
  <2> QED
    BY <1>1, <2>1 DEF OnceFor, EmittedUpTo, Goto, Sent, Sending
<1> QED
  BY <1>2, <1>3, <1>4, <1>5, <1>6, <1>7, <1>8, <1>9 DEF WriterStep, WriterLoop, WriterSend

LEMMA OnceStep ==
  ASSUME OnceUse, TypeInv, SingleInv, OnceInv, [Next]_vars
  PROVE  OnceInv'
<1>1. ASSUME NEW w \in Writer, WriterStep(w) PROVE OnceInv'
  <2>1. pc[w] # "dead" /\ \A v \in Writer \ {w} : pc'[v] = pc[v]
    BY <1>1, WriterMoves
  <2>2. Alone(w) /\ Alone(w)'
    BY <2>1 DEF Alone, SingleInv, AtMostOneWriter, Live
  <2>3. OnceFor(w)'
    BY <1>1, <2>2, OnceForOne, WriterOnce
  <2>4. Alone(w)' => (OnceInv' <=> OnceFor(w)')
    BY OnceForOne, PTL
  <2> QED
    BY <2>2, <2>3, <2>4
<1>2. CASE ~ \E w \in Writer : WriterStep(w)
  <2>1. OthersStep
    BY <1>2, OthersLeaveWriters
  <2> QED
    BY <2>1 DEF OthersStep, OnceInv, NoneResent, SaveIsNewest, FileIsNewest, CursorIsFile,
       NextIsNew, EmittedUpTo, Sent, Sending
<1> QED
  BY <1>1, <1>2

\* One process that lets each writer stop before it reconnects, and is not
\* killed between an emit and the save, sends no record twice.
THEOREM EmittedOnce == OnceUse => (Spec => []NoDuplicate)
<1> SUFFICES ASSUME OnceUse PROVE Spec => []NoDuplicate
  OBVIOUS
<1>1. Spec => [](TypeInv /\ SingleInv)
  BY SingleInvariant DEF OnceUse
<1>2. TypeInv /\ SingleInv /\ OnceInv /\ [Next]_vars => OnceInv'
  BY OnceStep
<1>3. OnceInv => NoDuplicate
  BY DEF OnceInv, NoneResent, NoDuplicate
<1> QED
  BY <1>1, <1>2, <1>3, OnceInit, PTL DEF Spec
=============================================================================
