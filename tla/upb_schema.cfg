SPECIFICATION SchemaSpec
CONSTANTS
  Part = {"members", "types", "files", "pool"}
  Careless = FALSE
  f1 = f1
  f2 = f2
  m1 = m1
  m2 = m2
  o1 = o1
  e1 = e1
  p1 = p1
  g1 = g1
  g2 = g2
  g3 = g3
  g4 = g4
  n1 = n1
  n2 = n2
  n3 = n3
  q1 = q1
  q2 = q2
  q3 = q3
  d1 = d1
  d2 = d2
  s1 = s1
  s2 = s2
SYMMETRY SchemaSymmetry
INVARIANTS DefinitionsAgree FrozenIsValid PoolFaithful
PROPERTIES FreezingKeepsDefaults AddedAsAWhole
CHECK_DEADLOCK FALSE
