\* System calls fail at every point where the bridge makes one; programs do not wait for their children.
SPECIFICATION FairSpec
CONSTANTS
  Pids = {2, 3, 4, 5, 6}
  Reaper = 1
  NoPid = 0
  Hosts <- PlainHosts
  Ways = {"arg0", "file", "byhand", "foreign"}
  Faults = {"mmap", "readlink", "fork", "wait", "exec"}
  Kills = FALSE
  ParentsWait = FALSE
  PidReuse = FALSE
  MaxLaunches = 1
  MaxPrograms = 2
INVARIANTS TypeOK ReexecOnce
PROPERTIES ImplementsContract StartupEnds
CHECK_DEADLOCK FALSE
