\* Messages whose oneof is set are merged.
SPECIFICATION Spec
CONSTANTS
  Part = {"oneof"}
  Careful = {"unset", "null oneof", "oneof parse", "empty element"}
  New = New
  Null = Null
  Pointer = Pointer
  Garbage = Garbage
  r1 = r1
  r2 = r2
  s1 = s1
  s2 = s2
INVARIANT Merges
CHECK_DEADLOCK FALSE
