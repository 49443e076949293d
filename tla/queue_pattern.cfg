SPECIFICATION Spec
CONSTANTS
  Caller = {main, cb}
  Main = main
  Producer = {main}
  Writer = {w1}
  Monitor = {}
  MaxRecord = 2
  MaxTime = 1
  StampArgs = {"now"}
  ClockStepsBack = FALSE
  Disconnecter = {cb}
  ReconnectWaits = FALSE
  CwdIsScriptFolder = TRUE
  RecordTypeDefined = TRUE
  Faults = {"kill", "fork"}
SYMMETRY Symmetry
VIEW View
INVARIANTS
  NoUnsentDeleted
  InOrder
CHECK_DEADLOCK FALSE
