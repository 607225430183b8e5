SPECIFICATION FairSpec
CONSTANTS
  c1 = c1
  c2 = c2
  t1 = t1
  t2 = t2
  t3 = t3
  Client = {c1, c2}
  Thread = {t1, t2, t3}
  ClientOf <- ClientOfThread
  BufSize = 2
  RootOpid = 0
  FirstOid = 1
  MaxOid = 5
  NoThread = NoThread
  NoOid = NoOid
INVARIANTS TypeOK BufferUsedUp
PROPERTIES ImplementsUniqueIds MutexIsLeft
