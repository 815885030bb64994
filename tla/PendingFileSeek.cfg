SPECIFICATION FairSpec
CONSTANTS
  Threads <- MCThreads
  FileIDs = {f1, f2, f3}
  f1 = f1
  f2 = f2
  f3 = f3
  Objects = {o1, o2, o3, o4}
  Fds = {3, 4}
  Streams <- DealtStreams
  DiskKinds = {TRUE}
  NULL = NULL
INVARIANT
  EachWritesItsPlace
