-------------------------------- MODULE MCLive --------------------------------
(* What must happen in the end: small instances of the record queue, of the *)
(* event loop and of the session under the fairness of their schedulers,    *)
(* and, without fairness, of the session and the database among processes   *)
(* that are killed.                                                         *)
(* part says which one a behaviour is of; the others stay as they are.      *)
EXTENDS Naturals

CONSTANTS Part, main, w1, m1

VARIABLES part,
          clock, table, seq, lastId, connected, writting, pc, stream, cursor, stamp, back, rec,
          emitted, handled, resent,
          link, inbox, server, sent, events, loopConnected, loopStream, huge, header, loopPc,
          stopped, resume, disconnects, delivered,
          flag, conn, latest, proc, registered, unsent,
          path, file, lastid, db, step, row

queueVars == <<clock, table, seq, lastId, connected, writting, pc, stream, cursor, stamp, back, rec,
               emitted, handled, resent>>
loopVars == <<link, inbox, server, sent, events, loopConnected, loopStream, huge, header, loopPc,
              stopped, resume, disconnects, delivered>>
sessionVars == <<flag, conn, latest, proc, registered, unsent>>
dbVars == <<path, file, lastid, db, step, row>>
vars == <<part, queueVars, loopVars, sessionVars, dbVars>>

\* A main program that writes, with one writer and one monitor.
Queue == INSTANCE WriteQueue
  WITH Caller <- {main}, Main <- main, Producer <- {main}, Writer <- {w1}, Monitor <- {m1},
       MaxRecord <- 2, MaxTime <- 1, StampArgs <- {"now"}, ClockStepsBack <- FALSE,
       Disconnecter <- {main}, ReconnectWaits <- TRUE, CwdIsScriptFolder <- TRUE,
       RecordTypeDefined <- TRUE, Faults <- {}

\* Two messages or events, with payloads in one short frame.
Events == INSTANCE EventLoop
  WITH MaxSend <- 2, SplitText <- BOOLEAN, SplitPayload <- {FALSE}, Long <- {FALSE},
       CloseKinds <- {"status"}, Operations <- {"event", "other"}, Registered <- TRUE,
       ForkFails <- FALSE, connected <- loopConnected, stream <- loopStream, pc <- loopPc

\* A main program and two connections.
Sessions == INSTANCE Session
  WITH App <- {main}, MainApp <- main, MaxConn <- 2, SessionFaults <- {}

\* A main program alone, whose forks fail and whose processes are killed.
Faulty == INSTANCE Session
  WITH App <- {main}, MainApp <- main, MaxConn <- 2, SessionFaults <- {"fork", "kill"}

\* A damaged database whose writers are killed and meet.
Killed == INSTANCE DbRecovery
  WITH DbWriter <- {w1}, MaxFiles <- 2, MaxRows <- 2, DbFaults <- {"kill", "two"}

LiveInit ==
  /\ part \in Part
  /\ Queue!Init /\ Events!Init /\ Sessions!SessionInit /\ Killed!DbInit
  /\ part \in {"session", "faulty"} \/ ~registered

InQueue(A) == part = "queue" /\ A /\ UNCHANGED <<part, loopVars, sessionVars, dbVars>>
InLoop(A) == part = "loop" /\ A /\ UNCHANGED <<part, queueVars, sessionVars, dbVars>>
InSession(A) == part = "session" /\ A /\ UNCHANGED <<part, queueVars, loopVars, dbVars>>
InFaulty(A) == part = "faulty" /\ A /\ UNCHANGED <<part, queueVars, loopVars, dbVars>>
InDatabase(A) == part = "killed" /\ A /\ UNCHANGED <<part, queueVars, loopVars, sessionVars>>

LiveNext ==
  \/ InQueue(Queue!Next)
  \/ InLoop(Events!Next)
  \/ InSession(Sessions!SessionNext)
  \/ InFaulty(Faulty!SessionNext)
  \/ InDatabase(Killed!DbNext)

\* The fairness of FairSpec of WriteQueue and EventLoop, and of SessionFairSpec.
LiveSpec ==
  /\ LiveInit /\ [][LiveNext]_vars
  /\ WF_vars(InQueue(Queue!ConstructWritting))
  /\ WF_vars(InQueue(Queue!CallerStep(main)))
  /\ WF_vars(InQueue(Queue!WriterStep(w1)))
  /\ WF_vars(InLoop(~Events!Waiting /\ Events!Loop))
  /\ WF_vars(InLoop(Events!Arrive))
  /\ \A p \in Sessions!Process : WF_vars(InSession(Sessions!Working(p)))

\* Again and again every accepted record of a connected client has been emitted,
\* or the connection is lost: a writer runs whenever one is needed.
Drained == part = "queue" => Queue!Drained

\* Every event the server sent is handed to onReceiveEvent, unless a read fails
\* or the connection breaks, which the fork reports.
EventDelivered == part = "loop" => Events!EventDelivered

\* When the connection is gone the event loop ends, and with it the fork.
LoopEnds == part = "loop" => Events!LoopEnds

\* When every connection is lost, albia.connected does not go on saying '1'.
LossNoticed == part = "session" => Sessions!LossNoticed

\* The forks of a connection that is gone end, whatever connections follow.
ForksEnd == part = "session" => Sessions!ForksEnd
=============================================================================
