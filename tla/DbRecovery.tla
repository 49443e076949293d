------------------------------ MODULE DbRecovery ------------------------------
(* The recovery of a damaged database, handleDBError() of                   *)
(* src/src/DeviceClient.php, among processes that hold connections to the   *)
(* same file.  Unlinking a file leaves it to the processes that have it     *)
(* open, so that a file is a number and "path" is the one the name refers   *)
(* to.  The queue itself, with all its interleavings, is WriteQueue; here   *)
(* an insertion is one step, and the main program is the one that writes.   *)
EXTENDS Naturals, FiniteSets

CONSTANTS
  DbWriter,   \* the forks of startWriteQueueThread(), at most one at a time
  MaxFiles,   \* how often the file may be created, the first time included
  MaxRows,    \* the rows inserted in one file
  DbFaults    \* a subset of {"kill", "two"}: processes killed, writers together

Main == "main"
DbProc == {Main} \cup DbWriter
NoFile == 0

ASSUME DbAssumption ==
  /\ "main" \notin DbWriter
  /\ MaxFiles \in Nat \ {0}
  /\ MaxRows \in Nat
  /\ DbFaults \subseteq {"kill", "two"}

VARIABLES
  path,      \* the file that dbFilename refers to, NoFile when there is none
  file,      \* per file: is it sound, how many ids has it given, which rows has it
  lastid,    \* the number in albia.lastid, 0 when there is no such file
  db,        \* per process, the file its two connections are on: the code
             \* opens and closes db and dbThread together
  step,      \* per process, where it is
  row        \* per writer, the row it has fetched

dbVars == <<path, file, lastid, db, step, row>>

Empty == [sound |-> TRUE, ids |-> 0, rows |-> {}]

DbInit ==
  /\ path = 1
  /\ file = [f \in 1..MaxFiles |-> Empty]
  /\ lastid = 0
  /\ db = [p \in DbProc |-> IF p = Main THEN 1 ELSE NoFile]
  /\ step = [p \in DbProc |-> IF p = Main THEN "run" ELSE "off"]
  /\ row = [w \in DbWriter |-> 0]

Sound(p) == file[db[p]].sound
Live(p) == step[p] \notin {"off", "dead"}
\* Without "two", a writer or a new program starts when the last writer has ended.
NoWriter == "two" \in DbFaults \/ \A w \in DbWriter : ~Live(w)
Advance(p, s) == step' = [step EXCEPT ![p] = s]

\* Something damages the file on the disk.
Damage ==
  /\ path # NoFile /\ file[path].sound
  /\ file' = [file EXCEPT ![path].sound = FALSE]
  /\ UNCHANGED <<path, lastid, db, step, row>>

\* The DELETE at the end of writeData(), on what its INSERT left.
Purged(rows) == {r \in rows : r > lastid}

\* writeData() on a sound file.
WriteRow ==
  /\ step[Main] = "run" /\ Sound(Main)
  /\ LET f == file[db[Main]] IN
     /\ f.ids < MaxRows
     /\ file' = [file EXCEPT ![db[Main]] =
                   [f EXCEPT !.ids = @ + 1, !.rows = Purged(@ \cup {f.ids + 1})]]
  /\ UNCHANGED <<path, lastid, db, step, row>>

\* writeData() on a damaged file.  The statement that fails is one of db; the
\* handler looks at the last error of dbThread, which this process has not
\* used, and does nothing.  When even prepare() fails the call on its result
\* is an Error that nobody catches.
WriteFails ==
  /\ step[Main] = "run" /\ ~Sound(Main)
  /\ \/ UNCHANGED step
     \/ Advance(Main, "dead")
  /\ UNCHANGED <<path, file, lastid, db, row>>

\* startWriteQueueThread(): a fork inherits the connections of the main program.
StartWriter(w) ==
  /\ step[Main] = "run" /\ step[w] = "off"
  /\ NoWriter
  /\ db' = [db EXCEPT ![w] = db[Main]]
  /\ Advance(w, "select")
  /\ UNCHANGED <<path, file, lastid, row>>

\* The SELECT of the writer finds the next row, or none.
Fetch(w) ==
  /\ step[w] = "select" /\ Sound(w)
  /\ LET new == {r \in file[db[w]].rows : r > lastid} IN
     \/ new = {} /\ Advance(w, "off") /\ row' = [row EXCEPT ![w] = 0]
     \/ \E r \in new : /\ \A s \in new : r <= s
                      /\ row' = [row EXCEPT ![w] = r]
                      /\ Advance(w, "save")
  /\ UNCHANGED <<path, file, lastid, db>>

\* emitBinary() and setLastRecordIdSent().
Save(w) ==
  /\ step[w] = "save"
  /\ lastid' = row[w]
  /\ Advance(w, "select")
  /\ UNCHANGED <<path, file, db, row>>

\* The SELECT fails with SQLITE_CORRUPT: handleDBError() closes both connections.
FetchFails(w) ==
  /\ step[w] = "select" /\ ~Sound(w)
  /\ db' = [db EXCEPT ![w] = NoFile]
  /\ Advance(w, IF path = NoFile THEN "off" ELSE "unlink")
  /\ row' = [row EXCEPT ![w] = 0]
  /\ UNCHANGED <<path, file, lastid>>

Unlink(w) ==
  /\ step[w] = "unlink"
  /\ path' = NoFile
  /\ Advance(w, "unlinkLast")
  /\ UNCHANGED <<file, lastid, db, row>>

\* Mutant of UnlinkLast: the cursor of the old file is left in place.
UnlinkLastKeeps(w) ==
  /\ step[w] = "unlinkLast"
  /\ Advance(w, "create")
  /\ UNCHANGED <<path, file, lastid, db, row>>

UnlinkLast(w) ==
  /\ step[w] = "unlinkLast"
  /\ lastid' = 0
  /\ Advance(w, "create")
  /\ UNCHANGED <<path, file, db, row>>

\* new SQLite3() creates the file, or opens the one another process created.
Opens(p) ==
  IF path # NoFile THEN /\ db' = [db EXCEPT ![p] = path]
                        /\ UNCHANGED path
  ELSE LET unused == {f \in 1..MaxFiles : file[f] = Empty /\ \A q \in DbProc : db[q] # f} IN
       \E f \in unused : /\ \A g \in unused : f <= g
                         /\ path' = f
                         /\ db' = [db EXCEPT ![p] = f]

\* The writer whose SELECT failed ends after its handler.
Create(w) ==
  /\ step[w] = "create"
  /\ Opens(w)
  /\ Advance(w, "off")
  /\ UNCHANGED <<file, lastid, row>>

\* The program is started again: the constructor opens or creates the file.
Restart ==
  /\ step[Main] = "dead" /\ NoWriter
  /\ Opens(Main)
  /\ Advance(Main, "run")
  /\ UNCHANGED <<file, lastid, row>>

\* A process is killed.
KillProc(p) ==
  /\ "kill" \in DbFaults /\ Live(p)
  /\ Advance(p, IF p = Main THEN "dead" ELSE "off")
  /\ UNCHANGED <<path, file, lastid, db, row>>

DbNext ==
  \/ Damage \/ WriteRow \/ WriteFails \/ Restart
  \/ \E w \in DbWriter : \/ StartWriter(w) \/ Fetch(w) \/ Save(w)
                         \/ FetchFails(w) \/ Unlink(w) \/ UnlinkLast(w) \/ Create(w)
  \/ \E p \in DbProc : KillProc(p)

DbSpec == DbInit /\ [][DbNext]_dbVars

(***************************************************************************)

\* Files, rows, connections and steps are what the names say; the number in
\* albia.lastid is the id of a row.
DbTypeOK ==
  /\ path \in 0..MaxFiles
  /\ file \in [1..MaxFiles -> [sound : BOOLEAN, ids : 0..MaxRows, rows : SUBSET (1..MaxRows)]]
  /\ lastid \in 0..MaxRows
  /\ db \in [DbProc -> 0..MaxFiles]
  /\ step \in [DbProc -> {"run", "dead", "off", "select", "save", "unlink", "unlinkLast", "create"}]
  /\ row \in [DbWriter -> 0..MaxRows]

\* The ids of a new file start again at 1: the number in albia.lastid must
\* never be past the ids the current file has given, for every row at or below
\* it is taken for sent, never emitted and deleted by the next writeData().
CursorFitsFile == path # NoFile => lastid <= file[path].ids

\* handleDBError(), whose condition says "Corrupted DB" (line 95), unlinks a
\* file that is damaged, never one that another process has just created.
OnlyDamagedUnlinked ==
  [][path # NoFile /\ path' # path => ~file[path].sound]_dbVars
=============================================================================
