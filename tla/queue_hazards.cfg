SPECIFICATION Spec
CONSTANTS
  Caller = {main, cb}
  Main = main
  Producer = {main, cb}
  Writer = {w1}
  Monitor = {}
  MaxRecord = 2
  MaxTime = 0
  StampArgs = {"now", "explicit"}
  ClockStepsBack = FALSE
  Disconnecter = {main}
  ReconnectWaits = FALSE
  CwdIsScriptFolder = TRUE
  RecordTypeDefined = TRUE
  Faults = {"reboot"}
VIEW View
INVARIANT
  NewestSurvive
CHECK_DEADLOCK FALSE
