------------------------------- MODULE MCClient -------------------------------
(* Small instances of the event loop, of the session, of what its forks     *)
(* write to the socket and of the recovery of the database, each explored   *)
(* on its own: part says which one a behaviour is of, the others stay as    *)
(* they are.                                                                *)
EXTENDS EventLoop, Session, DbRecovery, Wire

CONSTANTS Part, LongBlob, MaxBusy

VARIABLE part

\* A record queue without heartbeat whose records span several pieces and all
\* three encodings of the length, beside the one with short records and one.
Large == INSTANCE Wire WITH Pinger <- {}, BlobLength <- LongBlob

ClientInit ==
  /\ part \in Part /\ Init /\ SessionInit /\ DbInit /\ WireInit
  /\ part = "session" \/ ~registered

ClientNext ==
  /\ UNCHANGED part
  /\ \/ part = "loop" /\ Next /\ UNCHANGED <<sessionVars, dbVars, wireVars>>
     \/ part = "session" /\ SessionNext /\ UNCHANGED <<vars, dbVars, wireVars>>
     \/ part = "database" /\ DbNext /\ UNCHANGED <<vars, sessionVars, wireVars>>
     \/ part = "short" /\ WireNext /\ UNCHANGED <<vars, sessionVars, dbVars>>
     \/ part = "long" /\ Large!WireNext /\ UNCHANGED <<vars, sessionVars, dbVars>>

ClientSpec == ClientInit /\ [][ClientNext]_<<part, vars, sessionVars, dbVars, wireVars>>

\* Bound: so many processes of the session in the middle of something.
FewBusy ==
  Cardinality({p \in Process : proc[p].pc \notin {"dead", "idle", "check", "read"}}) <= MaxBusy

\* The event loop, the session and the database keep their types: frames carry
\* pieces of messages, a process that has connected holds an open socket, the
\* number in albia.lastid is the id of a row.
ClientTypeOK == TypeOK /\ SessionTypeOK /\ DbTypeOK
=============================================================================
