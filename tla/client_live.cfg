SPECIFICATION LiveSpec
CONSTANTS
  Part = {"queue", "loop", "session", "faulty", "killed"}
  main = main
  w1 = w1
  m1 = m1
PROPERTIES
  Drained
  EventDelivered
  LoopEnds
  LossNoticed
  ForksEnd
CHECK_DEADLOCK FALSE
