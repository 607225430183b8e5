SPECIFICATION FairSpec
CONSTANTS
  t1 = t1
  t2 = t2
  t3 = t3
  c1 = c1
  c2 = c2
  Thread <- MCThread
  Client = {c1, c2}
  ClientOf <- MCClientOf
  Session = {1, 2, 3}
  Name = {n1}
  Obj = {o1, o2}
  Stored = {o1}
  Entry <- MCEntry
  LockId = {k1}
  None = None
  MaxCalls <- MCMaxCalls
  Actors <- MCActors
  MaxFaults <- MCMaxFaults
INVARIANTS
  LocksExclude
  LocksAreKept
  NoCircularWait
  FailedConversionLeavesNothing
  OneRootClass
  UpdateIsAnnounced

PROPERTIES
  CallEnds
CHECK_DEADLOCK FALSE
