-------------------------- MODULE UniversalBridgeProps --------------------------
(***************************************************************************)
(* What the bridge and its users rely on, stated over UniversalBridge.     *)
(***************************************************************************)
EXTENDS UniversalBridge

Alive(p) == pc[p] \notin {"free", "dead"}
IsProgram(p) == hist[p].role \in {"program", "inplace"}

\* ffi/selfinfo.go: recordedFor, the value of a variable tagged with pid.
RecordedFor(p, key, pid) == {x.val : x \in {y \in mem[p].env : y.key = key /\ y.pid = pid}}

\* ffi.Executable: this process's record; failing that, when os.Executable
\* names the loader or a memfd, the parent's; failing that os.Executable.
Executable(p) ==
  LET own == RecordedFor(p, "exe", p)
      parents == RecordedFor(p, "exe", parent[p])
  IN  CASE own # {} -> CHOOSE v \in own : TRUE
        [] own = {} /\ mem[p].exe \in {"loader", "memfd"} /\ parents # {}
             -> CHOOSE v \in parents : TRUE
        [] OTHER -> mem[p].exe

\* ffi.Argv0: this process's record, or os.Args[0].
Argv0(p) == LET own == RecordedFor(p, "argv0", p)
            IN  IF own = {} THEN mem[p].argv0 ELSE CHOOSE v \in own : TRUE
--------------------------------------------------------------------------------
(* Safety.                                                                  *)

\* No process ever jumps to an unbound libc symbol: not the malloc of
\* x_cgo_init, not a setenv hook, not a thread start, not an FFI call.  The
\* bridge either gets a libc or records hostlibc.Missing, and every user of
\* libc heeds the record (reexecUniversal, x_cgo_init, dropLibcEnvHooks).
NoUnboundCall == \A p \in Pids : status[p] # "fault"

\* Whatever is killed and whatever the environment holds, a process knows whether
\* it has a libc: a program that reached main is recorded as without one
\* (hostlibc.Missing, ffi.Available) exactly when nothing is bound, and of those
\* that did not get there only one that replaced itself with execve, and so kept
\* its pid, has mistaken its predecessor's guard for its own.
LibcIsKnown ==
  \A p \in Pids :
    /\ status[p] = "fault" => hist[p].role = "inplace"
    /\ IsProgram(p) /\ pc[p] = "main" => (mem[p].missing <=> ~mem[p].bound)

\* A process is re-executed by the bridge at most once per start: whichever of
\* the guard variable and the loader check sees the second entry, it ends there.
ReexecOnce == \A p \in Pids : IsProgram(p) => hist[p].reexecs <= 1

\* A re-executed program finds in its environment only what its own bridge
\* wrote: one entry per variable, tagged with its pid, and never the probe
\* variable.  Inherited entries do not pile up across generations.
EnvironmentIsOwn ==
  \A p \in Pids : IsProgram(p) /\ Alive(p) /\ hist[p].reexecs > 0 =>
    /\ \A x \in mem[p].env : x.pid = p /\ x.key # "probe"
    /\ \A x, y \in mem[p].env : x.key = y.key => x = y

\* Every running copy knows itself, re-executed or not, however many copies are
\* between it and the first: ffi.Executable names the file on disk, and ffi.Argv0
\* is what the copy was invoked as.
SelfInfoIsTrue ==
  \A p \in Pids : IsProgram(p) /\ pc[p] = "main" =>
    Executable(p) = "file" /\ Argv0(p) = hist[p].invoked

\* However a copy is started, it gets a libc on a host that has a loader and
\* preloads nothing that aborts: "the child runs the bridge itself".
EveryCopyGetsLibc ==
  host.loader # "none" /\ ~(host.preload /\ host.aborts) =>
    \A p \in Pids : IsProgram(p) /\ pc[p] = "main" => ~mem[p].missing /\ mem[p].bound
--------------------------------------------------------------------------------
(* Liveness.                                                                *)

\* A probe child whose own scan failed runs the program, and its parent waits
\* for as long as that runs.
ProbeEscaped(p) == \E c \in Pids : parent[c] = p /\ hist[c].role = "probe" /\ pc[c] = "main"
\* Every start ends: the process reaches main or is gone.  There is no exec
\* loop, and the only wait that may last is for an escaped probe.
StartupEnds ==
  \A p \in Pids : pc[p] \in Starting ~> pc[p] \notin Starting \/ ProbeEscaped(p)

\* On an undisturbed host it ends in main, even if a preloaded library's
\* constructor aborts: that kills a probe, never the program.
ReachesMain ==
  \A p \in Pids : IsProgram(p) /\ pc[p] \in Starting ~> pc[p] = "main"
--------------------------------------------------------------------------------
(* The abstract specification.                                              *)

Phase == [p \in Pids |->
            CASE pc[p] = "free" \/ ~IsProgram(p) -> "absent"
              [] IsProgram(p) /\ pc[p] = "dead" ->
                   IF status[p] = "fault" THEN "faulted" ELSE "absent"
              [] IsProgram(p) /\ pc[p] = "main" ->
                   IF mem[p].missing THEN "pure" ELSE IF mem[p].bound THEN "ffi" ELSE "unbound"
              [] OTHER -> "starting"]

Contract == INSTANCE StartupContract WITH phase <- Phase

\* The bridge implements StartupContract.
ImplementsContract == Contract!Spec
================================================================================
