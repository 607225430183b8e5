SPECIFICATION Spec
CONSTANTS
  m1 = m1
  m2 = m2
  m3 = m3
  Member = {m1, m2, m3}
  KeyOf <- EqualKeys
  Nil = Nil
  MaxOps = 1
INVARIANTS
  FindReturnsOneRow
CHECK_DEADLOCK FALSE
