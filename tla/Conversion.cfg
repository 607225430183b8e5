SPECIFICATION Spec
CONSTANTS
  Classes <- MCClasses
  Layout <- ClassLayout
  Instances <- MCInstances
  Half = 2
  NullLen = 9
  Oid = {1, 2, 3}
  Root = 1
  MinOid = 2
  n1 = n1
  n2 = n2
  Name <- MCName
  Char = {32, 65, 66, 98}
  MaxLen = 3
SYMMETRY Names
INVARIANTS
  
  StatementTakesAllValues
  UnchangedObjectWritesSameRow
  ReadsBackExactly
  ReferencesResolve
  NothingIsLost
  IdentifiersStayFresh
  FailsOnlyOnBadFiles
  
CHECK_DEADLOCK FALSE
