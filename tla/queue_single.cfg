SPECIFICATION Spec
CONSTANTS
  Caller = {main}
  Main = main
  Producer = {main}
  Writer = {w1, w2}
  Monitor = {m1}
  MaxRecord = 3
  MaxTime = 1
  StampArgs = {"now", "explicit"}
  ClockStepsBack = TRUE
  Disconnecter = {main}
  ReconnectWaits = TRUE
  CwdIsScriptFolder = TRUE
  RecordTypeDefined = TRUE
  Faults = {"db", "fork"}
SYMMETRY Symmetry
VIEW ViewResent
INVARIANTS
  TypeOK
  AtMostOneWriter
  NoDuplicate
CHECK_DEADLOCK FALSE
