SPECIFICATION Spec
CONSTANTS
  Part = {"oneof", "nested", "texts", "lists", "maps"}
  Careful = {"unset", "null oneof", "oneof merge", "oneof parse", "empty element"}
  New = New
  Null = Null
  Pointer = Pointer
  Garbage = Garbage
  r1 = r1
  r2 = r2
  s1 = s1
  s2 = s2
SYMMETRY MessageSymmetry
INVARIANTS Sound Merges
PROPERTY Copies
CHECK_DEADLOCK FALSE
