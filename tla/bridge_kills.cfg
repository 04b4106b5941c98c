\* Every process may be killed or replace itself at every point; three generations; environments that overflow the buffer.
SPECIFICATION Spec
CONSTANTS
  Pids = {2, 3, 4, 5, 6, 7}
  Reaper = 1
  NoPid = 0
  Hosts <- AllHosts
  Ways = {"arg0", "file", "byhand", "foreign", "selfexec"}
  Faults = {"exec"}
  Kills = TRUE
  ParentsWait = FALSE
  PidReuse = FALSE
  MaxLaunches = 1
  MaxPrograms = 3
INVARIANTS LibcIsKnown EnvironmentIsOwn
CHECK_DEADLOCK FALSE
