SPECIFICATION Spec
CONSTANTS
  c1 = c1
  c2 = c2
  t1 = t1
  t2 = t2
  t3 = t3
  o1 = o1
  o2 = o2
  Client = {c1, c2}
  NoObj = NoObj
  NoThread = NoThread
  Thread = {t1, t2}
  ClientOf <- TwoClients
  Obj = {o1, o2}
  Blob = {}
  Stored = {o1}
  Writer = {t1, t2}
  MaxModtime = 1
INVARIANTS StaleCopyIsDue
SYMMETRY TwoClientsSymmetry
