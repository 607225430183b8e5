SPECIFICATION Spec
CONSTANTS
  BOX = BOX
  TNK = TNK
  PRN001 = PRN001
  KER001 = KER001
  One = One
  Two = Two
  Packages <- MCPackages
  Definitions <- MCDefinitions
  CustomFields <- MCCustomFields
  ReceiptCount = 2
  MaxItems = 2
  MaxClock = 2
  MaxStarts = 3
  Nil = Nil
INVARIANTS
  TestNeverFails
  IndexesFollowList
  StoredItemsAreTimed
  ItemsFollowReceipts
  NoDeletedObjectIsFound
  AbortsOnlyOnPartialPackages
PROPERTIES
  RunEnds
CHECK_DEADLOCK FALSE
