\* Two messages or events of every form; two application processes and two connections; a database that is created
\* three times; three messages of a queue with a heartbeat, at the boundaries
\* of the lengths.
SPECIFICATION ClientSpec
CONSTANTS
  Part = {"loop", "session", "database", "short", "long"}
  App = {m, a}
  MainApp = m
  MaxConn = 2
  SessionFaults = {}
  MaxBusy = 2
  DbWriter = {w}
  MaxFiles = 3
  MaxRows = 2
  DbFaults = {}
  Emitter = {q}
  Pinger = {h}
  BlobLength = {0, 124, 125, 8000}
  LongBlob = {8191, 65534, 65535, 70000}
  TextLength = 40
  ChunkSize = 8192
  MaxSent = 2
  MaxSend = 2
  SplitText = {TRUE, FALSE}
  SplitPayload = {TRUE, FALSE}
  Long = {TRUE, FALSE}
  CloseKinds = {"status", "bare"}
  Operations = {"event", "other"}
  Registered = TRUE
  ForkFails = TRUE
CONSTRAINT FewBusy
INVARIANTS
  ClientTypeOK
  OneDisconnect
  EndReported
  DeliveredPrefix
  Watched
  EmitHonest
  CursorFitsFile
  MessagesWhole
PROPERTY SilentAfterDisconnect
CHECK_DEADLOCK FALSE
