\* Threads start each other and end, with failing mallocs and pthread_creates.
SPECIFICATION FairSpec
CONSTANTS
  Threads = {t1, t2, t3}
  First = t1
  Gs = {n1, n2, n3, n4}
  Records = {r1, r2}
  MaxTries = 2
  Platforms = {"linux", "android", "darwin", "freebsd", "netbsd"}
  None = None
INVARIANTS TypeOK EachRunsItsG SignalsFindG
PROPERTIES StartsEnd
CHECK_DEADLOCK FALSE
