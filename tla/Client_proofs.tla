-------------------------- MODULE Client_proofs --------------------------
(***************************************************************************)
(* Proofs about DbRecovery, for every value of its constants, and, from    *)
(* those about the other components, of what MCClient puts together.       *)
(***************************************************************************)
EXTENDS MCClient, EventLoop_proofs, Session_proofs

Step == {"run", "dead", "off", "select", "save", "unlink", "unlinkLast", "create"}
File == [sound : BOOLEAN, ids : 0..MaxRows, rows : SUBSET (1..MaxRows)]

LEMMA ConstantsType ==
  /\ Main \notin DbWriter /\ Main \in DbProc /\ DbWriter \subseteq DbProc
  /\ MaxFiles \in Nat /\ 1 \in 1..MaxFiles /\ MaxRows \in Nat
  /\ DbProc = {Main} \cup DbWriter
BY DbAssumption DEF DbAssumption, Main, DbProc

\* A file with a further row, of which those up to n were deleted, is a file.
LEMMA FileType ==
  ASSUME NEW f \in File, f.ids < MaxRows, NEW n \in Nat
  PROVE  [f EXCEPT !.ids = @ + 1, !.rows = {r \in @ \cup {f.ids + 1} : r > n}] \in File
<1>1. f.ids + 1 \in 0..MaxRows /\ f.ids + 1 \in 1..MaxRows
  BY ConstantsType DEF File
<1>2. {r \in f.rows \cup {f.ids + 1} : r > n} \in SUBSET (1..MaxRows)
  BY <1>1 DEF File
<1> QED
  BY <1>1, <1>2 DEF File

-----------------------------------------------------------------------------
(* Type correctness.  A writer at its query has a file open, and so has the *)
(* main program: what they read from it is a row.                           *)

Handles ==
  /\ db[Main] # NoFile
  /\ \A w \in DbWriter : step[w] \in {"select", "save"} => db[w] # NoFile

DbTyped == DbTypeOK /\ Handles

LEMMA DbTypedInit == DbInit => DbTyped
<1> SUFFICES ASSUME DbInit PROVE DbTyped
  OBVIOUS
<1>1. Empty \in [sound : BOOLEAN, ids : 0..MaxRows, rows : SUBSET (1..MaxRows)]
  BY ConstantsType DEF Empty
<1> QED
  BY <1>1, ConstantsType DEF DbInit, DbTyped, DbTypeOK, Handles, NoFile

\* new SQLite3() leaves the process with a file open.
LEMMA OpensType ==
  ASSUME DbTyped, NEW p \in DbProc, Opens(p)
  PROVE  /\ path' \in 1..MaxFiles
         /\ db' = [db EXCEPT ![p] = path']
         /\ path' = path \/ (path = NoFile /\ file[path'] = Empty)
BY ConstantsType DEF Opens, DbTyped, DbTypeOK, NoFile

LEMMA DbTypedStep ==
  ASSUME DbTyped, [DbNext]_dbVars
  PROVE  DbTyped'
<1> USE ConstantsType DEF DbTyped, DbTypeOK, Handles, NoFile
<1>1. CASE Damage
  BY <1>1 DEF Damage
<1>2. CASE WriteRow
  <2> DEFINE f == file[db[Main]]
             g == [f EXCEPT !.ids = @ + 1, !.rows = {r \in @ \cup {f.ids + 1} : r > lastid}]
  <2>1. db[Main] \in 1..MaxFiles
    OBVIOUS
  <2>2. f \in File /\ f.ids < MaxRows /\ lastid \in Nat
    BY <1>2, <2>1 DEF WriteRow, File
  <2>3. g \in File
    BY <2>2, FileType
  <2>4. file' = [file EXCEPT ![db[Main]] = g]
    BY <1>2, Zenon DEF WriteRow, Purged
  <2>5. file' \in [1..MaxFiles -> File]
    <3> HIDE DEF g
    <3> QED
      BY <2>1, <2>3, <2>4 DEF File
  <2> QED
    BY <1>2, <2>5 DEF WriteRow, File
<1>3. CASE WriteFails
  BY <1>3 DEF WriteFails, Advance
<1>4. CASE Restart
  <2>1. Opens(Main) /\ step' = [step EXCEPT ![Main] = "run"] /\ UNCHANGED <<file, lastid, row>>
    BY <1>4 DEF Restart, Advance
  <2>2. /\ path' \in 1..MaxFiles /\ db' = [db EXCEPT ![Main] = path']
    BY <2>1, OpensType
  <2> QED
    BY <2>1, <2>2
<1>5. ASSUME NEW w \in DbWriter, StartWriter(w) PROVE DbTyped'
  BY <1>5 DEF StartWriter, Advance
<1>6. ASSUME NEW w \in DbWriter, Fetch(w) PROVE DbTyped'
  <2>1. db[w] \in 1..MaxFiles /\ file[db[w]].rows \subseteq 1..MaxRows
    BY <1>6 DEF Fetch
  <2>2. PICK r \in file[db[w]].rows \cup {0}, s \in {"off", "save"} :
          row' = [row EXCEPT ![w] = r] /\ step' = [step EXCEPT ![w] = s]
    BY <1>6, Zenon DEF Fetch, Advance
  <2>3. r \in 0..MaxRows
    BY <2>1
  <2>4. step[w] = "select" /\ UNCHANGED <<path, file, lastid, db>>
    BY <1>6 DEF Fetch
  <2> QED
    BY <2>2, <2>3, <2>4
<1>7. ASSUME NEW w \in DbWriter, Save(w) PROVE DbTyped'
  <2>1. row[w] \in 0..MaxRows
    OBVIOUS
  <2>2. /\ lastid' = row[w] /\ step' = [step EXCEPT ![w] = "select"]
        /\ step[w] = "save" /\ UNCHANGED <<path, file, db, row>>
    BY <1>7, Zenon DEF Save, Advance
  <2> QED
    BY <2>1, <2>2
<1>8. ASSUME NEW w \in DbWriter, FetchFails(w) PROVE DbTyped'
  BY <1>8 DEF FetchFails, Advance
<1>9. ASSUME NEW w \in DbWriter, Unlink(w) PROVE DbTyped'
  BY <1>9 DEF Unlink, Advance
<1>10. ASSUME NEW w \in DbWriter, UnlinkLast(w) PROVE DbTyped'
  BY <1>10 DEF UnlinkLast, Advance
<1>11. ASSUME NEW w \in DbWriter, Create(w) PROVE DbTyped'
  <2>1. Opens(w) /\ step' = [step EXCEPT ![w] = "off"] /\ UNCHANGED <<file, lastid, row>>
    BY <1>11 DEF Create, Advance
  <2>2. /\ path' \in 1..MaxFiles /\ db' = [db EXCEPT ![w] = path']
    BY <2>1, OpensType
  <2> QED
    BY <2>1, <2>2
<1>12. ASSUME NEW p \in DbProc, KillProc(p) PROVE DbTyped'
  BY <1>12 DEF KillProc, Advance
<1>13. CASE UNCHANGED dbVars
  BY <1>13 DEF dbVars
<1> QED
  BY <1>1, <1>2, <1>3, <1>4, <1>5, <1>6, <1>7, <1>8, <1>9, <1>10, <1>11, <1>12, <1>13
  DEF DbNext

LEMMA DbTypedInvariant == DbSpec => []DbTyped
BY DbTypedInit, DbTypedStep, PTL DEF DbSpec

\* Whatever processes are killed or meet, files, rows, connections and steps are
\* what the names say, and the number in albia.lastid is the id of a row.
THEOREM DbTypeCorrect == DbSpec => []DbTypeOK
<1>1. DbTyped => DbTypeOK
  BY DEF DbTyped
<1> QED
  BY <1>1, DbTypedInvariant, PTL

-----------------------------------------------------------------------------
(* The cursor.  One process works on the database at a time, the main       *)
(* program beside it: no other writer and no restarted program.             *)

Recovering == {"unlinkLast", "create"}

\* A main program that has a file open which the name does not refer to has a
\* damaged one, so that what a writer finds in a sound file is in the current one.
CursorInv ==
  /\ \A v, w \in DbWriter : Live(v) /\ Live(w) => v = w
  /\ path = NoFile <=> \E w \in DbWriter : step[w] \in Recovering
  /\ path # db[Main] => ~file[db[Main]].sound
  /\ \A f \in 1..MaxFiles : \A r \in file[f].rows : r <= file[f].ids
  /\ \A w \in DbWriter :
       /\ step[w] \in {"select", "save"} => db[w] = db[Main]
       /\ step[w] = "unlink" => ~file[db[Main]].sound
       /\ step[w] = "save" => path # NoFile /\ row[w] <= file[path].ids
       /\ step[w] = "create" => lastid = 0
  /\ CursorFitsFile

LEMMA CursorInit == DbInit => CursorInv
BY ConstantsType
   DEF DbInit, CursorInv, Live, Recovering, Empty, NoFile, CursorFitsFile

LEMMA CursorStep ==
  ASSUME DbFaults = {}, DbTyped, CursorInv, [DbNext]_dbVars
  PROVE  CursorInv'
<1> USE ConstantsType DEF CursorInv, Live, Recovering, CursorFitsFile, DbTyped, DbTypeOK, Handles, NoFile
<1>1. CASE Damage
  BY <1>1 DEF Damage
<1>2. CASE WriteRow
  BY <1>2 DEF WriteRow, Purged, Sound
<1>3. CASE WriteFails
  BY <1>3 DEF WriteFails, Advance
<1>4. CASE Restart
  <2>1. Opens(Main) /\ step' = [step EXCEPT ![Main] = "run"] /\ UNCHANGED <<file, lastid, row>>
    BY <1>4 DEF Restart, Advance
  <2>2. \A w \in DbWriter : ~Live(w)
    BY <1>4 DEF Restart, NoWriter
  <2>3. path' = path /\ db' = [db EXCEPT ![Main] = path]
    BY <2>1, <2>2, OpensType
  <2> QED
    BY <2>1, <2>2, <2>3
<1>5. ASSUME NEW w \in DbWriter, StartWriter(w) PROVE CursorInv'
  BY <1>5 DEF StartWriter, Advance, NoWriter
<1>6. ASSUME NEW w \in DbWriter, Fetch(w) PROVE CursorInv'
  <2>1. db[w] = db[Main] /\ path = db[w]
    BY <1>6 DEF Fetch, Sound
  <2>2. PICK r \in file[path].rows \cup {0}, s \in {"off", "save"} :
          /\ row' = [row EXCEPT ![w] = r] /\ step' = [step EXCEPT ![w] = s]
    BY <1>6, <2>1, Zenon DEF Fetch, Advance
  <2>3. r <= file[path].ids
    BY <2>1
  <2>4. step[w] = "select" /\ UNCHANGED <<path, file, lastid, db>>
    BY <1>6 DEF Fetch
  <2> QED
    BY <2>1, <2>2, <2>3, <2>4
<1>7. ASSUME NEW w \in DbWriter, Save(w) PROVE CursorInv'
  BY <1>7 DEF Save, Advance
<1>8. ASSUME NEW w \in DbWriter, FetchFails(w) PROVE CursorInv'
  BY <1>8 DEF FetchFails, Advance, Sound
<1>9. ASSUME NEW w \in DbWriter, Unlink(w) PROVE CursorInv'
  BY <1>9 DEF Unlink, Advance
<1>10. ASSUME NEW w \in DbWriter, UnlinkLast(w) PROVE CursorInv'
  BY <1>10 DEF UnlinkLast, Advance
<1>11. ASSUME NEW w \in DbWriter, Create(w) PROVE CursorInv'
  <2>1. Opens(w) /\ step' = [step EXCEPT ![w] = "off"] /\ UNCHANGED <<file, lastid, row>>
    BY <1>11 DEF Create, Advance
  <2>2. step[w] = "create" /\ path = NoFile /\ lastid = 0
    BY <1>11 DEF Create
  <2>3. /\ path' \in 1..MaxFiles /\ file[path'] = Empty
        /\ db' = [db EXCEPT ![w] = path'] /\ path' # db[Main]
    BY <2>1, <2>2, OpensType DEF Opens
  <2>4. file[path'].ids = 0
    BY <2>3 DEF Empty
  <2>5. \A v \in DbWriter : step'[v] \in {"off", "dead"}
    BY <2>1, <2>2
  <2>6. lastid' <= file'[path'].ids /\ path' # NoFile
    BY <2>1, <2>2, <2>3, <2>4
  <2>7. db'[Main] = db[Main] /\ ~file'[db[Main]].sound
    BY <2>1, <2>2, <2>3
  <2> QED
    BY <2>1, <2>3, <2>5, <2>6, <2>7
<1>12. ASSUME NEW p \in DbProc, KillProc(p) PROVE CursorInv'
  BY <1>12 DEF KillProc
<1>13. CASE UNCHANGED dbVars
  BY <1>13 DEF dbVars
<1> QED
  BY <1>1, <1>2, <1>3, <1>4, <1>5, <1>6, <1>7, <1>8, <1>9, <1>10, <1>11, <1>12, <1>13
  DEF DbNext

\* While writers follow one another and no process is killed, the number in
\* albia.lastid is never past the ids the current database has given, however
\* often, and at whatever moment, the database is damaged and replaced.
THEOREM CursorFits == DbFaults = {} => (DbSpec => []CursorFitsFile)
<1> SUFFICES ASSUME DbFaults = {} PROVE DbSpec => []CursorFitsFile
  OBVIOUS
<1>1. CursorInv => CursorFitsFile
  BY DEF CursorInv
<1>2. DbTyped /\ CursorInv /\ [DbNext]_dbVars => CursorInv'
  BY CursorStep
<1> QED
  BY <1>1, <1>2, CursorInit, DbTypedInvariant, PTL DEF DbSpec
-----------------------------------------------------------------------------
(* The instances of MCClient together.                                      *)

\* A step of one of them leaves the variables of the others alone, so that a
\* theorem about a component holds of the instances too.
LEMMA ClientImplements == ClientSpec => Spec /\ SessionSpec /\ DbSpec
<1> DEFINE all == <<part, vars, sessionVars, dbVars, wireVars>>
<1>1. ClientInit => Init /\ SessionInit /\ DbInit
  BY DEF ClientInit
<1>2. [ClientNext]_all => [Next]_vars /\ [SessionNext]_sessionVars /\ [DbNext]_dbVars
  BY DEF ClientNext
<1> QED
  BY <1>1, <1>2, PTL DEF ClientSpec, Spec, SessionSpec, DbSpec

\* Whichever of them runs, each keeps its variables in their domains.
THEOREM ClientTypeCorrect == ClientSpec => []ClientTypeOK
<1>1. TypeOK /\ SessionTypeOK /\ DbTypeOK => ClientTypeOK
  BY DEF ClientTypeOK
<1> QED
  BY <1>1, ClientImplements, LoopTypeCorrect, SessionTypeCorrect, DbTypeCorrect, PTL
=============================================================================
