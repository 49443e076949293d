SPECIFICATION MemorySpec
CONSTANTS
  Obj = {o1, o2, o3}
  MaxOwned = 1
  MaxRefs = 1
  MaxDepth = 2
  Part = {"objects", "strings", "ints", "arena"}
  StringKey = {1, 2, 3, 4}
  TableKey = {0, 1, 12, 40}
  TableVal = {1}
  StringHash = {0, 3, 4}
  HashValue = {0, 3}
  InitLg2 = 1
  InitArray = 1
  MaxArrayLg2 = 6
  Request = {1, 3, 7}
  MaxAlign = 2
  Header = 4
  EntrySize = 3
  InitialBlock = 9
  FirstBlock = 5
  MaxBlock = 12
  MaxBlocks = 4
  MaxCleanups = 2
SYMMETRY ObjectSymmetry
INVARIANTS ObjectsSafe GroupsHold TablesSound StringTablesSound ArenaSound
CHECK_DEADLOCK FALSE
