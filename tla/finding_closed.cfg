SPECIFICATION Spec
CONSTANTS
  Caller = {main, cb}
  Main = main
  Producer = {main}
  Writer = {w1}
  Monitor = {}
  MaxRecord = 1
  MaxTime = 0
  StampArgs = {"now"}
  ClockStepsBack = FALSE
  Disconnecter = {main}
  ReconnectWaits = TRUE
  CwdIsScriptFolder = TRUE
  RecordTypeDefined = TRUE
  Faults = {}
INVARIANT
  NoUnsentDeleted
CHECK_DEADLOCK FALSE
