----------------------------- MODULE WriteQueue -----------------------------
(***************************************************************************)
(* The durable record queue of DeviceClient.php: writeData() appends a     *)
(* record to the SQLite table write_operation, a forked writer process     *)
(* (startWriteQueueThread) emits the records over the WebSocket and moves  *)
(* the cursor kept in the file albia.lastid, and both writeData() and      *)
(* connectToServer() delete the rows at or below that cursor.              *)
(*                                                                         *)
(* Every fork works on its own copy of the client object, so the only      *)
(* state the processes share is on disk: the table, albia.lastid,          *)
(* albia.connected and albia.writting.  Each access to one of these is a   *)
(* step of its own.  What is local to a process (its socket, the value it  *)
(* read last) is a function of the process.                                *)
(***************************************************************************)
EXTENDS Naturals

CONSTANTS
  Caller,            \* processes whose code calls the client's public methods
  Main,              \* the one that ran the constructor; the others are callbacks
  Producer,          \* the callers whose code calls writeData()
  Writer,            \* slots for forks of startWriteQueueThread(): the bound on them
  Monitor,           \* slots for heartbeat and event-loop forks inside disconnect()
  MaxRecord,         \* bound on the records inserted
  MaxTime,           \* bound on the clock, in seconds
  StampArgs,         \* how the application calls writeData(): with a DeviceTimestamp or not
  ClockStepsBack,    \* whether the system clock may be set back
  Disconnecter,      \* the callers whose code calls disconnect()
  ReconnectWaits,    \* whether connect() is called only once the old writer has stopped,
                     \* as by an application that sleeps longer than its poll first
  CwdIsScriptFolder, \* whether PHP runs in the folder of the initial script
  RecordTypeDefined, \* whether a class DeviceRecord_RecordType can be loaded
  Faults             \* the failures that may happen, see FaultKind

\* "kill": one process dies; "reboot": all do; "db": an SQL statement fails;
\* "fork": pcntl_fork() fails.
FaultKind == {"kill", "reboot", "db", "fork"}

ASSUME ConstantsAssumption ==
  /\ Main \in Caller
  /\ Producer \subseteq Caller /\ Disconnecter \subseteq Caller
  /\ Caller \cap Writer = {} /\ Monitor \cap (Caller \cup Writer) = {}
  /\ MaxRecord \in Nat /\ MaxTime \in Nat
  /\ StampArgs \subseteq {"now", "explicit"}
  /\ ClockStepsBack \in BOOLEAN
  /\ ReconnectWaits \in BOOLEAN /\ CwdIsScriptFolder \in BOOLEAN
  /\ RecordTypeDefined \in BOOLEAN
  /\ Faults \subseteq FaultKind

VARIABLES
  clock,     \* what time() returns
  table,     \* rows of write_operation: records [id, timestamp]
  seq,       \* the last id AUTOINCREMENT gave out
  lastId,    \* contents of albia.lastid, 0 when absent or empty
  connected, \* contents of albia.connected
  writting,  \* contents of albia.writting
  pc,        \* where each process is
  stream,    \* each process's own socket: "none", "open" or "closed"
  cursor,    \* what each process's last getLastRecordIdSent() returned
  stamp,     \* the time a caller sampled for the record it is writing
  back,      \* where a caller goes when startWriteQueueThread() returns
  rec,       \* the id a writer selected
  emitted,   \* history: ids whose frames a writer handed to an open socket
  handled,   \* history: ids for which emitBinary() returned, sent or not
  resent     \* history: ids handed over more than once

files == <<table, seq, lastId, connected, writting>>
locals == <<cursor, stamp, back, rec>>
history == <<emitted, handled, resent>>
vars == <<clock, files, pc, stream, locals, history>>

Process == Caller \cup Writer \cup Monitor

Live(p) == pc[p] # "dead"

StoredIds == {r.id : r \in table}

(***************************************************************************)
(* getLastRecordIdSent() looks for the file in the script's folder but     *)
(* reads and writes it in the working directory.                           *)
(***************************************************************************)
LastRecordIdSent == IF CwdIsScriptFolder THEN lastId ELSE 0

Goto(p, label) == pc' = [pc EXCEPT ![p] = label]

\* The step of p that goes to label, or to other when the condition is false.
Branch(p, condition, label, other) == Goto(p, IF condition THEN label ELSE other)

-----------------------------------------------------------------------------
(***************************************************************************)
(* Forking a callback.  The child is a caller with a copy of the parent's  *)
(* socket.  Without a registered callback, or with every slot of the bound *)
(* |Caller| in use, none is started: the slot is then the parent itself,   *)
(* whose own entry in pc and stream is assigned after the slot's.          *)
(***************************************************************************)
FreeCallback(p) ==
  LET free == {c \in Caller \ {Main} : ~Live(c)}
  IN  IF free = {} THEN {p} ELSE free

\* p, whose socket is now s, forks a callback and goes on to label.  A failed
\* fork is an exception that leaves the public method or the fork p itself.
ForkCallback(p, s, label) ==
  \/ \E c \in FreeCallback(p) :
       /\ stream' = [stream EXCEPT ![c] = s, ![p] = s]
       /\ pc' = [pc EXCEPT ![c] = "idle", ![p] = label]
  \/ /\ "fork" \in Faults
     /\ stream' = [stream EXCEPT ![p] = s]
     /\ Goto(p, "dead")

\* What close() leaves of a socket: write() may throw before it is nulled.
AfterClose(s) == IF s = "open" THEN {"open", "closed"} ELSE {s}

(***************************************************************************)
(* The body of disconnect() after its isConnected() test: clear the flag,  *)
(* close the process's own socket, fork the onDisconnect callback.         *)
(***************************************************************************)
TearDown(p, label) ==
  /\ connected' = FALSE
  /\ \E s \in AfterClose(stream[p]) : ForkCallback(p, s, label)
  /\ UNCHANGED <<clock, table, seq, lastId, writting, locals, history>>

-----------------------------------------------------------------------------
(***************************************************************************)
(* __construct(): reset both flag files.  The table and the cursor of an   *)
(* earlier run are kept, and so are the forks of that run.                 *)
(***************************************************************************)
ConstructConnected ==
  /\ pc[Main] = "dead"
  /\ connected' = FALSE
  /\ Goto(Main, "construct")
  /\ stream' = [stream EXCEPT ![Main] = "none"]
  /\ UNCHANGED <<clock, table, seq, lastId, writting, locals, history>>

ConstructWritting ==
  /\ pc[Main] = "construct"
  /\ writting' = FALSE
  /\ Goto(Main, "idle")
  /\ UNCHANGED <<clock, table, seq, lastId, connected, stream, locals, history>>

-----------------------------------------------------------------------------
(***************************************************************************)
(* writeData().  An oversized string returns false before anything else    *)
(* happens and is left out: it changes nothing.                            *)
(***************************************************************************)
\* $unixTimestamp = time()
WriteDataStamp(p) ==
  /\ p \in Producer /\ pc[p] = "idle"
  /\ RecordTypeDefined /\ "now" \in StampArgs
  /\ seq < MaxRecord
  /\ stamp' = [stamp EXCEPT ![p] = clock]
  /\ Goto(p, "insert")
  /\ UNCHANGED <<clock, files, stream, cursor, back, rec, history>>

(***************************************************************************)
(* The switch names a class that may not exist, and with a DeviceTimestamp *)
(* the SQL text is built from the unset $unixTimestamp, so prepare()       *)
(* returns false: either way an Error is thrown and nothing is stored.     *)
(***************************************************************************)
WriteDataThrows(p) ==
  /\ p \in Producer /\ pc[p] = "idle"
  /\ StampArgs # {} /\ (RecordTypeDefined => "explicit" \in StampArgs)
  /\ Goto(p, "dead")
  /\ UNCHANGED <<clock, files, stream, locals, history>>

Insert(p) ==
  /\ p \in Caller /\ pc[p] = "insert"
  /\ seq < MaxRecord
  /\ seq' = seq + 1
  /\ table' = table \cup {[id |-> seq + 1, timestamp |-> stamp[p]]}
  /\ Goto(p, "askWritting")
  /\ UNCHANGED <<clock, lastId, connected, writting, stream, locals, history>>

(***************************************************************************)
(* A failed execute() only calls handleDBError(), which does nothing       *)
(* unless the other connection's last error was corruption, and writeData  *)
(* goes on to return true.  A failed prepare() is an Error.                *)
(***************************************************************************)
InsertFails(p) ==
  /\ p \in Caller /\ pc[p] = "insert"
  /\ "db" \in Faults
  /\ \E label \in {"last", "dead"} : Goto(p, label)
  /\ UNCHANGED <<clock, files, stream, locals, history>>

\* if ((!isWritting()) && (isConnected()))
AskWritting(p) ==
  /\ p \in Caller /\ pc[p] = "askWritting"
  /\ Branch(p, writting, "last", "askConnected")
  /\ UNCHANGED <<clock, files, stream, locals, history>>

AskConnected(p) ==
  /\ p \in Caller /\ pc[p] = "askConnected"
  /\ back' = [back EXCEPT ![p] = "last"]
  /\ Branch(p, connected, "startCheck", "last")
  /\ UNCHANGED <<clock, files, stream, cursor, stamp, rec, history>>

\* $lastRecordIdSent = getLastRecordIdSent(), in writeData and in connect.
ReadLast(p, from, label) ==
  /\ p \in Caller /\ pc[p] = from
  /\ cursor' = [cursor EXCEPT ![p] = LastRecordIdSent]
  /\ Goto(p, label)
  /\ UNCHANGED <<clock, files, stream, stamp, back, rec, history>>

\* Mutant of DeleteSent: the row after the cursor goes too.
DeleteSentAndNext(p, from, label) ==
  /\ p \in Caller /\ pc[p] = from
  /\ \/ table' = {r \in table : r.id > cursor[p] + 1}
     \/ "db" \in Faults /\ table' = table
  /\ Goto(p, label)
  /\ UNCHANGED <<clock, seq, lastId, connected, writting, stream, locals, history>>

\* DELETE ... WHERE id_write_operation <= $lastRecordIdSent; its result is ignored.
DeleteSent(p, from, label) ==
  /\ p \in Caller /\ pc[p] = from
  /\ \/ table' = {r \in table : r.id > cursor[p]}
     \/ "db" \in Faults /\ table' = table
  /\ Goto(p, label)
  /\ UNCHANGED <<clock, seq, lastId, connected, writting, stream, locals, history>>

WriteDataPurge(p) ==
  \/ ReadLast(p, "last", "delete")
  \/ DeleteSent(p, "delete", "idle")

-----------------------------------------------------------------------------
(***************************************************************************)
(* connect() and connectToServer().                                        *)
(***************************************************************************)
ConnectBegin(p) ==
  /\ p \in Caller /\ pc[p] = "idle"
  /\ ~connected
  /\ ReconnectWaits => \A w \in Writer : ~Live(w)
  /\ Goto(p, "request")
  /\ UNCHANGED <<clock, files, stream, locals, history>>

\* Token, namespace and WebSocket handshake all succeed.
ConnectOpen(p) ==
  /\ p \in Caller /\ pc[p] = "request"
  /\ stream' = [stream EXCEPT ![p] = "open"]
  /\ Goto(p, "connectLast")
  /\ UNCHANGED <<clock, files, locals, history>>

\* A Requests_Exception: clear the flag, fork the onConnectError callback.
ConnectRefused(p) ==
  /\ p \in Caller /\ pc[p] = "request"
  /\ connected' = FALSE
  /\ ForkCallback(p, stream[p], "idle")
  /\ UNCHANGED <<clock, table, seq, lastId, writting, locals, history>>

\* Any other exception (the engine's) is caught by nobody.
ConnectThrows(p) ==
  /\ p \in Caller /\ pc[p] = "request"
  /\ Goto(p, "dead")
  /\ UNCHANGED <<clock, files, stream, locals, history>>

ConnectPurge(p) ==
  \/ ReadLast(p, "connectLast", "connectDelete")
  \/ DeleteSent(p, "connectDelete", "connectTruncate")

(***************************************************************************)
(* The onCompleted handler: setConnected(true), then start the writer.     *)
(* file_put_contents() empties the file, then fills it, and an empty file  *)
(* reads as false; setting a flag to false passes through no other value.  *)
(***************************************************************************)
ConnectTruncate(p) ==
  /\ p \in Caller /\ pc[p] = "connectTruncate"
  /\ connected' = FALSE
  /\ Goto(p, "connectUp")
  /\ UNCHANGED <<clock, table, seq, lastId, writting, stream, locals, history>>

ConnectUp(p) ==
  /\ p \in Caller /\ pc[p] = "connectUp"
  /\ connected' = TRUE
  /\ back' = [back EXCEPT ![p] = "connectDone"]
  /\ Goto(p, "startCheck")
  /\ UNCHANGED <<clock, table, seq, lastId, writting, stream, cursor, stamp, rec, history>>

\* Its end: fork the onConnect callback.
ConnectDone(p) ==
  /\ p \in Caller /\ pc[p] = "connectDone"
  /\ ForkCallback(p, stream[p], "idle")
  /\ UNCHANGED <<clock, files, locals, history>>

-----------------------------------------------------------------------------
(***************************************************************************)
(* startWriteQueueThread() as run by its caller.                           *)
(***************************************************************************)
StartCheck(p) ==
  /\ p \in Caller /\ pc[p] = "startCheck"
  /\ Branch(p, writting, back[p], "startTruncate")
  /\ UNCHANGED <<clock, files, stream, locals, history>>

StartTruncate(p) ==
  /\ p \in Caller /\ pc[p] = "startTruncate"
  /\ writting' = FALSE
  /\ Goto(p, "startSet")
  /\ UNCHANGED <<clock, table, seq, lastId, connected, stream, locals, history>>

\* Mutant of StartSet: the flag stays empty.
StartSetForgets(p) ==
  /\ p \in Caller /\ pc[p] = "startSet"
  /\ Goto(p, "startFork")
  /\ UNCHANGED <<clock, files, stream, locals, history>>

StartSet(p) ==
  /\ p \in Caller /\ pc[p] = "startSet"
  /\ writting' = TRUE
  /\ Goto(p, "startFork")
  /\ UNCHANGED <<clock, table, seq, lastId, connected, stream, locals, history>>

\* The child inherits the caller's socket.
StartFork(p) ==
  /\ p \in Caller /\ pc[p] = "startFork"
  /\ \E w \in Writer :
       /\ ~Live(w)
       /\ pc' = [pc EXCEPT ![w] = "outer", ![p] = back[p]]
       /\ stream' = [stream EXCEPT ![w] = stream[p]]
  /\ UNCHANGED <<clock, files, locals, history>>

\* "Failed to fork" is thrown out of the public method, with the flag already set.
StartForkFails(p) ==
  /\ p \in Caller /\ pc[p] = "startFork"
  /\ "fork" \in Faults
  /\ Goto(p, "dead")
  /\ UNCHANGED <<clock, files, stream, locals, history>>

-----------------------------------------------------------------------------
(***************************************************************************)
(* disconnect() called by the application, the end of a callback process,  *)
(* and what the heartbeat and event-loop forks do: call disconnect() when  *)
(* their socket fails, fork a callback when an event arrives.              *)
(***************************************************************************)
DisconnectCheck(p) ==
  /\ p \in Disconnecter /\ pc[p] = "idle"
  /\ connected
  /\ Goto(p, "disconnect")
  /\ UNCHANGED <<clock, files, stream, locals, history>>

Disconnect(p) ==
  /\ p \in Caller /\ pc[p] = "disconnect"
  /\ TearDown(p, "idle")

CallbackReturns(p) ==
  /\ p \in Caller \ {Main} /\ pc[p] = "idle"
  /\ Goto(p, "dead")
  /\ UNCHANGED <<clock, files, stream, locals, history>>

\* A heartbeat or event-loop fork, whose copy of the socket is open, gets an
\* error from it and finds the flag set, whichever connection set it.
MonitorCheck(m) ==
  /\ m \in Monitor /\ ~Live(m)
  /\ connected
  /\ stream' = [stream EXCEPT ![m] = "open"]
  /\ Goto(m, "disconnect")
  /\ UNCHANGED <<clock, files, locals, history>>

MonitorDisconnect(m) ==
  /\ m \in Monitor /\ pc[m] = "disconnect"
  /\ TearDown(m, "dead")

\* The event-loop fork, whose socket is open, forks the onReceiveEvent callback.
ReceiveEvent(c) ==
  /\ c \in Caller \ {Main} /\ ~Live(c)
  /\ \E p \in Process : stream[p] = "open"
  /\ stream' = [stream EXCEPT ![c] = "open"]
  /\ Goto(c, "idle")
  /\ UNCHANGED <<clock, files, locals, history>>

-----------------------------------------------------------------------------
(***************************************************************************)
(* The writer fork.                                                        *)
(***************************************************************************)
\* while (isConnected() && $success)
WriterOuter(w) ==
  /\ w \in Writer /\ pc[w] = "outer"
  /\ Branch(w, connected, "inner", "exit")
  /\ UNCHANGED <<clock, files, stream, locals, history>>

\* while ((!$empty) && isConnected())
WriterInner(w) ==
  /\ w \in Writer /\ pc[w] = "inner"
  /\ Branch(w, connected, "cursor", "outer")
  /\ UNCHANGED <<clock, files, stream, locals, history>>

WriterCursor(w) ==
  /\ w \in Writer /\ pc[w] = "cursor"
  /\ cursor' = [cursor EXCEPT ![w] = LastRecordIdSent]
  /\ Goto(w, "select")
  /\ UNCHANGED <<clock, files, stream, stamp, back, rec, history>>

(***************************************************************************)
(* The row the query picks among those above a cursor: the least timestamp *)
(* and, since id_device is 0 in every row and SQLite scans by rowid, the   *)
(* least id among equal timestamps.                                        *)
(***************************************************************************)
Pending(c) == {r \in table : r.id > c}

Precedes(r, s) ==
  \/ r.timestamp < s.timestamp
  \/ r.timestamp = s.timestamp /\ r.id <= s.id

\* Mutant of IsSelected: the query without its MIN(timestamp).
IsPending(r, c) == r \in Pending(c)

IsSelected(r, c) == r \in Pending(c) /\ \A s \in Pending(c) : Precedes(r, s)

WriterSelect(w) ==
  /\ w \in Writer /\ pc[w] = "select"
  /\ \E r \in table :
       /\ IsSelected(r, cursor[w])
       /\ rec' = [rec EXCEPT ![w] = r.id]
  /\ Goto(w, "fetched")
  /\ UNCHANGED <<clock, files, stream, cursor, stamp, back, history>>

WriterSelectEmpty(w) ==
  /\ w \in Writer /\ pc[w] = "select"
  /\ Pending(cursor[w]) = {}
  /\ Goto(w, "outer")
  /\ UNCHANGED <<clock, files, stream, locals, history>>

\* execute() false ends the loop; prepare() false is an Error that ends the fork.
WriterSelectFails(w) ==
  /\ w \in Writer /\ pc[w] = "select"
  /\ "db" \in Faults
  /\ \E label \in {"exit", "dead"} : Goto(w, label)
  /\ UNCHANGED <<clock, files, stream, locals, history>>

\* elseif (($res = ...) && isConnected()) ... else $empty = true
WriterFetched(w) ==
  /\ w \in Writer /\ pc[w] = "fetched"
  /\ Branch(w, connected, "guard", "outer")
  /\ UNCHANGED <<clock, files, stream, locals, history>>

\* Mutant of WriterGuard: the cursor is saved outside the if.
WriterGuardSavesAnyway(w) ==
  /\ w \in Writer /\ pc[w] = "guard"
  /\ Branch(w, connected, "emit", "truncate")
  /\ UNCHANGED <<clock, files, stream, locals, history>>

\* if (isConnected()) around emitBinary()
WriterGuard(w) ==
  /\ w \in Writer /\ pc[w] = "guard"
  /\ Branch(w, connected, "emit", "inner")
  /\ UNCHANGED <<clock, files, stream, locals, history>>

WriterEmit(w) ==
  /\ w \in Writer /\ pc[w] = "emit" /\ stream[w] = "open"
  /\ emitted' = emitted \cup {rec[w]}
  /\ handled' = handled \cup {rec[w]}
  /\ resent' = resent \cup (emitted \cap {rec[w]})
  /\ Goto(w, "truncate")
  /\ UNCHANGED <<clock, files, stream, locals>>

\* write() and writeBinary() return at once when the stream is no resource.
WriterEmitDropped(w) ==
  /\ w \in Writer /\ pc[w] = "emit" /\ stream[w] = "closed"
  /\ handled' = handled \cup {rec[w]}
  /\ Goto(w, "truncate")
  /\ UNCHANGED <<clock, files, stream, locals, emitted, resent>>

\* The peer is gone: SocketException, caught, disconnect() follows.
WriterEmitThrows(w) ==
  /\ w \in Writer /\ pc[w] = "emit" /\ stream[w] = "open"
  /\ Goto(w, "disconnect")
  /\ UNCHANGED <<clock, files, stream, locals, history>>

\* emitBinary() on null: an Error, which the catch (Exception) does not catch.
WriterEmitOnNull(w) ==
  /\ w \in Writer /\ pc[w] = "emit" /\ stream[w] = "none"
  /\ Goto(w, "dead")
  /\ UNCHANGED <<clock, files, stream, locals, history>>

\* Mutant of WriterTruncate: the file is emptied and never filled.
WriterTruncateOnly(w) ==
  /\ w \in Writer /\ pc[w] = "truncate"
  /\ lastId' = 0
  /\ Goto(w, "inner")
  /\ UNCHANGED <<clock, table, seq, connected, writting, stream, locals, history>>

\* setLastRecordIdSent(): the file is emptied, then filled.
WriterTruncate(w) ==
  /\ w \in Writer /\ pc[w] = "truncate"
  /\ lastId' = 0
  /\ Goto(w, "save")
  /\ UNCHANGED <<clock, table, seq, connected, writting, stream, locals, history>>

\* Mutant of WriterSave: the cursor is the next id expected, not the last one sent.
WriterSaveNext(w) ==
  /\ w \in Writer /\ pc[w] = "save"
  /\ lastId' = rec[w] + 1
  /\ Goto(w, "inner")
  /\ UNCHANGED <<clock, table, seq, connected, writting, stream, locals, history>>

WriterSave(w) ==
  /\ w \in Writer /\ pc[w] = "save"
  /\ lastId' = rec[w]
  /\ Goto(w, "inner")
  /\ UNCHANGED <<clock, table, seq, connected, writting, stream, locals, history>>

WriterDisconnectCheck(w) ==
  /\ w \in Writer /\ pc[w] = "disconnect"
  /\ Branch(w, connected, "tearDown", "exit")
  /\ UNCHANGED <<clock, files, stream, locals, history>>

WriterDisconnect(w) ==
  /\ w \in Writer /\ pc[w] = "tearDown"
  /\ TearDown(w, "exit")

\* Mutant of WriterExit: the flag stays set.
WriterExitKeepsFlag(w) ==
  /\ w \in Writer /\ pc[w] = "exit"
  /\ Goto(w, "dead")
  /\ UNCHANGED <<clock, files, stream, locals, history>>

\* setWritting(false), end of the fork.
WriterExit(w) ==
  /\ w \in Writer /\ pc[w] = "exit"
  /\ writting' = FALSE
  /\ Goto(w, "dead")
  /\ UNCHANGED <<clock, table, seq, lastId, connected, stream, locals, history>>

-----------------------------------------------------------------------------
(***************************************************************************)
(* The clock and the failures of the environment.                          *)
(***************************************************************************)
Tick ==
  /\ clock < MaxTime
  /\ clock' = clock + 1
  /\ UNCHANGED <<files, pc, stream, locals, history>>

StepBack ==
  /\ ClockStepsBack
  /\ clock > 0
  /\ clock' = clock - 1
  /\ UNCHANGED <<files, pc, stream, locals, history>>

Kill(p) ==
  /\ "kill" \in Faults
  /\ p \in Process /\ Live(p)
  /\ Goto(p, "dead")
  /\ UNCHANGED <<clock, files, stream, locals, history>>

Reboot ==
  /\ "reboot" \in Faults
  /\ pc' = [p \in Process |-> "dead"]
  /\ UNCHANGED <<clock, files, stream, locals, history>>

-----------------------------------------------------------------------------
\* A first run on a new machine: no file exists and no process runs.
Init ==
  /\ clock = 0
  /\ table = {} /\ seq = 0 /\ lastId = 0
  /\ connected = FALSE /\ writting = FALSE
  /\ pc = [p \in Process |-> "dead"]
  /\ stream = [p \in Process |-> "none"]
  /\ cursor = [p \in Process |-> 0]
  /\ stamp = [p \in Caller |-> 0]
  /\ back = [p \in Caller |-> "last"]
  /\ rec = [w \in Writer |-> 0]
  /\ emitted = {} /\ handled = {} /\ resent = {}

Constructing == ConstructConnected \/ ConstructWritting

WriteDataStep(p) ==
  \/ Insert(p) \/ InsertFails(p)
  \/ AskWritting(p) \/ AskConnected(p)
  \/ WriteDataPurge(p)

ConnectStep(p) ==
  \/ ConnectOpen(p) \/ ConnectRefused(p) \/ ConnectThrows(p)
  \/ ConnectPurge(p) \/ ConnectTruncate(p) \/ ConnectUp(p) \/ ConnectDone(p)

StartStep(p) ==
  \/ StartCheck(p) \/ StartTruncate(p) \/ StartSet(p)
  \/ StartFork(p) \/ StartForkFails(p)

\* What the application decides to call.
Call(p) ==
  \/ WriteDataStamp(p) \/ WriteDataThrows(p)
  \/ ConnectBegin(p) \/ DisconnectCheck(p)
  \/ CallbackReturns(p) \/ ReceiveEvent(p)

\* What a method already called goes on to do.
CallerStep(p) == WriteDataStep(p) \/ ConnectStep(p) \/ StartStep(p) \/ Disconnect(p)

WriterLoop(w) ==
  \/ WriterOuter(w) \/ WriterInner(w) \/ WriterCursor(w)
  \/ WriterSelect(w) \/ WriterSelectEmpty(w) \/ WriterSelectFails(w)
  \/ WriterFetched(w) \/ WriterGuard(w) \/ WriterExit(w)

WriterSend(w) ==
  \/ WriterEmit(w) \/ WriterEmitDropped(w)
  \/ WriterEmitThrows(w) \/ WriterEmitOnNull(w)
  \/ WriterTruncate(w) \/ WriterSave(w)
  \/ WriterDisconnectCheck(w) \/ WriterDisconnect(w)

WriterStep(w) == WriterLoop(w) \/ WriterSend(w)

MonitorStep(m) == MonitorCheck(m) \/ MonitorDisconnect(m)

Environment == Tick \/ StepBack \/ Reboot \/ \E p \in Process : Kill(p)

Next ==
  \/ Constructing
  \/ \E p \in Caller : Call(p) \/ CallerStep(p)
  \/ \E w \in Writer : WriterStep(w)
  \/ \E m \in Monitor : MonitorStep(m)
  \/ Environment

Spec == Init /\ [][Next]_vars

(***************************************************************************)
(* The operating system schedules every live process, so a method that was *)
(* called and a writer that runs go on; nothing makes the application call *)
(* anything, a link fail or a process die.                                 *)
(***************************************************************************)
Fairness ==
  /\ WF_vars(ConstructWritting)
  /\ \A p \in Caller : WF_vars(CallerStep(p))
  /\ \A w \in Writer : WF_vars(WriterStep(w))

FairSpec == Spec /\ Fairness

-----------------------------------------------------------------------------
(***************************************************************************)
(* Properties.                                                             *)
(***************************************************************************)
CallerLabel ==
  {"dead", "construct", "idle", "insert", "askWritting", "askConnected", "last",
   "delete", "request", "connectLast", "connectDelete", "connectTruncate",
   "connectUp", "connectDone", "startCheck", "startTruncate", "startSet",
   "startFork", "disconnect"}

WriterLabel ==
  {"dead", "outer", "inner", "cursor", "select", "fetched", "guard", "emit",
   "truncate", "save", "disconnect", "tearDown", "exit"}

Ids == 1 .. MaxRecord

FlagsOK == connected \in BOOLEAN /\ writting \in BOOLEAN

ControlOK ==
  /\ pc \in [Process -> CallerLabel \cup WriterLabel]
  /\ \A p \in Caller : pc[p] \in CallerLabel
  /\ \A w \in Writer : pc[w] \in WriterLabel
  /\ \A m \in Monitor : pc[m] \in {"dead", "disconnect"}
  /\ stream \in [Process -> {"none", "open", "closed"}]
  /\ back \in [Caller -> {"connectDone", "last"}]

DataOK ==
  /\ clock \in 0 .. MaxTime
  /\ table \in SUBSET [id : Ids, timestamp : 0 .. MaxTime]
  /\ seq \in 0 .. MaxRecord
  /\ lastId \in 0 .. MaxRecord
  /\ cursor \in [Process -> 0 .. MaxRecord]
  /\ stamp \in [Caller -> 0 .. MaxTime]
  /\ rec \in [Writer -> 0 .. MaxRecord]
  /\ emitted \in SUBSET Ids /\ handled \in SUBSET Ids /\ resent \in SUBSET Ids

\* Every variable stays in its domain; cursors and the file only hold ids or 0.
TypeOK == FlagsOK /\ ControlOK /\ DataOK

\* A row the purge of writeData or connectToServer removed had been handed to
\* an open socket: "Delete old records sent" deletes nothing else.
NoUnsentDeleted == \A i \in 1 .. seq : i \in StoredIds \/ i \in emitted

\* Where no process is killed, writeData() returns to the main program, as
\* example.php expects when it tests the result.
WriteDataReturns == [][pc[Main] = "idle" => pc'[Main] # "dead"]_vars

\* Whatever fails, whoever calls what and whatever the clock does, only rows at
\* or below a record some writer went through are deleted: the newest survive.
NewestSurvive ==
  \A i \in 1 .. seq : i \in StoredIds \/ \E j \in handled : i <= j

\* Records go out in the order they were accepted, with no gap: when a record
\* has been emitted, so have all those inserted before it.
InOrder == \A j \in emitted : j <= seq /\ 1 .. j \subseteq emitted

\* startWriteQueueThread keeps two writer forks from draining the queue at once.
AtMostOneWriter == \A v, w \in Writer : Live(v) /\ Live(w) => v = w

\* The cursor saved after each emit keeps a record from being emitted twice,
\* across writers and reconnections.
NoDuplicate == resent = {}

\* Again and again every accepted record of a connected client has been emitted,
\* or the connection is lost: a writer runs whenever one is needed and does not
\* stop early.
Drained == []<>(1 .. seq \subseteq emitted \/ ~connected)

-----------------------------------------------------------------------------
\* What the queue promises, with the records numbered as accepted.
Fifo == INSTANCE DurableFifo
          WITH accepted <- seq, stored <- StoredIds, delivered <- emitted

\* Emitting and purging implement a durable first-in first-out queue.
ImplementsFifo == Fifo!Spec
=============================================================================
