\* Nothing fails: what a program started by a waiting parent may rely on.
SPECIFICATION FairSpec
CONSTANTS
  Pids = {2, 3, 4, 5, 6}
  Reaper = 1
  NoPid = 0
  Hosts <- PlainHosts
  Ways = {"arg0", "file", "foreign"}
  Faults = {}
  Kills = FALSE
  ParentsWait = TRUE
  PidReuse = TRUE
  MaxLaunches = 1
  MaxPrograms = 3
INVARIANTS NoUnboundCall SelfInfoIsTrue EveryCopyGetsLibc
PROPERTIES ReachesMain
CHECK_DEADLOCK FALSE
