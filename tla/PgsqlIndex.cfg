SPECIFICATION Spec
CONSTANTS
  m1 = m1
  m2 = m2
  m3 = m3
  Member = {m1, m2, m3}
  KeyOf <- DistinctKeys
  Nil = Nil
  MaxOps = 2
INVARIANTS
  ListsAreWellLinked
  TableMatchesList
  FoundInOrder
  QueryMeetsEveryMember
  DateRangeIsExact
PROPERTIES
  CommitPublishesAll
