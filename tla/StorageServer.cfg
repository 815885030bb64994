SPECIFICATION FairSpec
CONSTANTS
  Threads = {t1, t2}
  Conns = {c1, c2, c3}
  c1 = c1
  c2 = c2
  c3 = c3
  FileIDs = {f1, f2}
  f1 = f1
  f2 = f2
  Traffics <- ServerTraffics
  Objects = {o1, o2}
  Fds = {3, 4}
  DiskKinds = {TRUE}
  NULL = NULL
PROPERTIES
  ImplementsStorageConn
