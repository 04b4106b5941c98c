---------------------------- MODULE UniversalBridge ----------------------------
(***************************************************************************)
(* The re-exec bridge of a goffi_universal binary                          *)
(* (internal/fakecgo/reexec_universal_linux.go), x_cgo_init around it, and *)
(* what the program sees afterwards (hostlibc.Missing, ffi.Available,      *)
(* ffi.Executable, ffi.Argv0, the setenv hooks).                           *)
(*                                                                         *)
(* The state is a tree of processes.  A process is a pid with the image    *)
(* /proc/self/exe names, its os.Args[0], the bridge's variables in its     *)
(* environment and a program counter through start-up.  execve keeps the   *)
(* pid, fork takes a new one, a dying parent leaves its children to        *)
(* Reaper.  Several processes interleave: a bridge and the probe it        *)
(* forked, a program and the copies of itself it starts.                   *)
(***************************************************************************)
EXTENDS Naturals, FiniteSets

CONSTANTS
  Pids,         \* process ids
  Reaper,       \* the process that adopts orphans (init)
  NoPid,        \* no process
  Hosts,        \* the hosts to consider, a subset of Host
  Ways,         \* how programs start copies, a subset of WaysKnown
  Faults,       \* the system calls that may fail, a subset of FaultsKnown
  Kills,        \* TRUE: any process may be killed at any time
  ParentsWait,  \* TRUE: programs wait for the children they start
  PidReuse,     \* TRUE: a reaped pid may be handed out again
  MaxLaunches,  \* bound: of these, the ones started from outside
  MaxPrograms   \* bound: programs started in a behaviour

\* loader: which loader the bridge's table finds (glibc is looked for first);
\* preload: something is in LD_PRELOAD or /etc/ld.so.preload, and aborts: its
\* constructor kills every process the loader starts; bigEnv: the environment
\* fills envBufCap, so what is appended to it lies past what readAll takes.
Host == [loader : {"glibc", "musl", "none"}, preload : BOOLEAN,
         aborts : BOOLEAN, bigEnv : BOOLEAN]
WaysKnown == {"arg0", "file", "byhand", "foreign", "selfexec"}
FaultsKnown == {"mmap", "readlink", "memfd", "fork", "wait", "exec"}

ASSUME ConstantsAssumption ==
  /\ Pids \subseteq Nat /\ Reaper \notin Pids /\ NoPid \notin Pids
  /\ Hosts \subseteq Host
  /\ Ways \subseteq WaysKnown
  /\ Faults \subseteq FaultsKnown
  /\ {Kills, ParentsWait, PidReuse} \subseteq BOOLEAN
  /\ {MaxLaunches, MaxPrograms} \subseteq Nat

VARIABLES
  host,      \* the host everything runs on
  used,      \* pids handed out so far
  programs,  \* programs started so far
  pc,        \* where each process is
  parent,    \* what getppid returns
  mem,       \* what an execve replaces: image, environment, runtime globals
  plan,      \* the bridge's locals
  status,    \* how a dead process ended
  hist       \* history: what the process is, how it was started

vars == <<host, used, programs, pc, parent, mem, plan, status, hist>>
pids == <<host, used, programs, parent>>

Images == {"file", "memfd", "bad"}
Entry == [key : {"guard", "probe"}, pid : Pids, val : {"1"}]
           \cup [key : {"exe", "argv0"}, pid : Pids, val : Images]
PCs == {"free", "clone", "load", "scan", "resolve", "launch", "wait", "exec",
        "init", "main", "foreign", "dead"}
Starting == {"load", "scan", "resolve", "launch", "wait", "exec", "init"}

\* exe: what /proc/self/exe names; argv0: the image os.Args[0] names; env: the
\* bridge's variables in the environment; bound: the libc imports are bound;
\* missing: hostlibc.Missing; iscgo: runtime.iscgo; hooks: _cgo_setenv # nil.
Memory == [exe : {"file", "memfd", "loader"}, argv0 : Images,
           env : SUBSET Entry, bound : BOOLEAN, missing : BOOLEAN,
           iscgo : BOOLEAN, hooks : BOOLEAN]

\* real: parentExe, then realExeC; image: exeC; envp: envpBase; probe: the
\* forked child's pid.
Plan == [real : Images \cup {"none"}, image : Images, envp : SUBSET Entry,
         probe : Pids \cup {NoPid}]

\* role: "inplace" is a program that took over its predecessor's pid;
\* reexecs: execves of the bridge since the process was started as invoked.
History == [role : {"program", "inplace", "probe", "foreign"}, invoked : Images,
            reexecs : Nat]

TypeOK ==
  /\ host \in Hosts
  /\ used \subseteq Pids
  /\ programs \in 0..MaxPrograms
  /\ pc \in [Pids -> PCs]
  /\ parent \in [Pids -> Pids \cup {Reaper, NoPid}]
  /\ mem \in [Pids -> Memory]
  /\ plan \in [Pids -> Plan]
  /\ status \in [Pids -> {"none", "zero", "nonzero", "signal", "fault"}]
  /\ hist \in [Pids -> History]

--------------------------------------------------------------------------------
(* Processes, as the kernel keeps them.                                     *)

\* The memory of an image just loaded.
Fresh(exe, argv0, env, bound) ==
  [exe |-> exe, argv0 |-> argv0, env |-> env, bound |-> bound,
   missing |-> FALSE, iscgo |-> TRUE, hooks |-> TRUE]
NoMemory == Fresh("file", "file", {}, FALSE)
NoPlan == [real |-> "none", image |-> "file", envp |-> {}, probe |-> NoPid]
NoHistory == [role |-> "program", invoked |-> "file", reexecs |-> 0]

\* Pids are handed out in increasing order until they wrap around.
Free == {c \in Pids : /\ pc[c] = "free"
                      /\ PidReuse \/ (c \notin used /\ \A d \in Pids \ used : c <= d)}

\* What the host loader binds: musl any image, glibc only one that carries a
\* PT_INTERP, which the memfd copy does and the file on disk does not.
Binds(img) == CASE host.loader = "glibc" -> img = "memfd"
                [] host.loader = "musl"  -> img # "bad"
                [] OTHER                 -> FALSE

\* A process c starts: a copy of img, run through the host loader by hand or
\* by the kernel.  A memfd carries a PT_INTERP, so the kernel too runs it
\* through the loader, but nothing preloads a libc into it.
Born(c, by, img, byLoader, e, r) ==
  /\ used' = used \cup {c}
  /\ pc' = [pc EXCEPT ![c] = CASE r = "foreign" -> "foreign"
                               [] r # "foreign" /\ img = "file" /\ ~byLoader -> "scan"
                               [] OTHER -> "load"]
  /\ parent' = [parent EXCEPT ![c] = by]
  /\ mem' = [mem EXCEPT ![c] = Fresh(IF byLoader THEN "loader" ELSE img, img, e,
                                     byLoader /\ Binds(img))]
  /\ hist' = [hist EXCEPT ![c] = [role |-> r, invoked |-> img, reexecs |-> 0]]
  /\ status' = [status EXCEPT ![c] = "none"]
  /\ UNCHANGED <<host, plan>>

\* p ends; its children now have Reaper for a parent.
End(p, how) ==
  /\ pc' = [pc EXCEPT ![p] = "dead"]
  /\ status' = [status EXCEPT ![p] = how]
  /\ parent' = [q \in Pids |-> IF parent[q] = p THEN Reaper ELSE parent[q]]
  /\ mem' = [mem EXCEPT ![p] = NoMemory]
  /\ plan' = [plan EXCEPT ![p] = NoPlan]
  /\ UNCHANGED <<host, used, programs, hist>>

\* p moves on.
Goto(p, where) == /\ pc' = [pc EXCEPT ![p] = where]
                  /\ UNCHANGED <<pids, status, hist>>
--------------------------------------------------------------------------------
(* reexecUniversal: the scan of the environment.                            *)

\* taggedAt over every entry readAll got hold of.
Tagged(p, key, pid) ==
  {x \in mem[p].env : ~host.bigEnv /\ x.key = key /\ x.pid = pid}

\* Mutant: only the guard is dropped from the inherited environment.
IsBridgeVar_GuardOnly(x) == x.key = "guard"
\* The entries the bridge writes, and drops from what it inherited.
IsBridgeVar(x) == x.key \in {"guard", "probe", "exe", "argv0"}

\* reexecUniversal returns hasLibc to maybeReexecUniversal.
Return(p, hasLibc) ==
  /\ mem' = [mem EXCEPT ![p].missing = ~hasLibc]
  /\ plan' = [plan EXCEPT ![p] = NoPlan]
  /\ Goto(p, "init")

\* Mutants: the probe variable compared with the process's own pid; the guard
\* with its parent's; the guard's pid ignored.
Probing_OwnPid(p) == Tagged(p, "probe", p) # {}
Guarded_ParentPid(p) == Tagged(p, "guard", parent[p]) # {}
Guarded_AnyPid(p) == {x \in mem[p].env : ~host.bigEnv /\ x.key = "guard"} # {}

Probing(p) == Tagged(p, "probe", parent[p]) # {}
Guarded(p) == Tagged(p, "guard", p) # {}
ParentExe(p) == LET found == Tagged(p, "exe", parent[p])
                IN  IF found = {} THEN "none" ELSE (CHOOSE x \in found : TRUE).val

\* No staging memory or no /proc/self/environ: no libc.
ScanFails(p) == /\ pc[p] = "scan"
                /\ "mmap" \in Faults
                /\ Return(p, FALSE)

\* A probe stops here with status 0; its guard is never looked at.
ScanProbe(p) == /\ pc[p] = "scan"
                /\ Probing(p)
                /\ End(p, "zero")

\* Mutant: the second entry reports no libc.
ScanGuarded_NoLibc(p) == /\ pc[p] = "scan"
                         /\ ~Probing(p) /\ Guarded(p)
                         /\ Return(p, FALSE)

ScanGuarded(p) == /\ pc[p] = "scan"
                  /\ ~Probing(p) /\ Guarded(p)
                  /\ Return(p, TRUE)

\* Neither: go on, remembering what the parent recorded, if it is the parent.
ScanFirst(p) == /\ pc[p] = "scan"
                /\ ~Probing(p) /\ ~Guarded(p)
                /\ plan' = [plan EXCEPT ![p].real = ParentExe(p)]
                /\ Goto(p, "resolve")
                /\ UNCHANGED mem

Scan(p) == ScanFails(p) \/ ScanProbe(p) \/ ScanGuarded(p) \/ ScanFirst(p)
--------------------------------------------------------------------------------
(* reexecUniversal: what to run, through what, with which environment.      *)

\* readlink(/proc/self/exe), "none" when it fails.
Readlink(p) == {mem[p].exe} \cup IF "readlink" \in Faults THEN {"none"} ELSE {}

\* Mutant: a memfd's link is recorded as the executable.
RealExe_Link(p, link) == link
\* realExeC: the link, or what the parent recorded when the link is a memfd.
RealExe(p, link) == CASE link = "memfd" -> plan[p].real
                      [] OTHER          -> link

\* exeC: on glibc the memfd copy.  Without it the path itself, which opens
\* only when it names the file (a memfd's link and /proc/self/exe, by then the
\* loader, do not).
ExeToRun(link, copied) == CASE copied        -> "memfd"
                            [] ~copied /\ link = "file" -> "file"
                            [] OTHER         -> "bad"

\* restoreInterpToMemfd is called on glibc only; can it succeed or fail?  A
\* copy of the loader itself has no interp header to restore.
MemfdCopy(p) == IF host.loader # "glibc" \/ mem[p].exe = "loader" THEN {FALSE}
                ELSE {TRUE} \cup IF "memfd" \in Faults THEN {FALSE} ELSE {}

Tag(key, p, val) == [key |-> key, pid |-> p, val |-> val]

\* Mutants: the recorded argv[0] is left out; the variables are tagged with
\* the parent's pid.
Envp_NoArgv0(p, realExe) ==
  {x \in mem[p].env : ~IsBridgeVar(x)} \cup {Tag("guard", p, "1")}
    \cup IF realExe = "none" THEN {} ELSE {Tag("exe", p, realExe)}
Envp_ParentTag(p, realExe) ==
  {x \in mem[p].env : ~IsBridgeVar(x)}
    \cup {Tag("guard", parent[p], "1"), Tag("argv0", parent[p], mem[p].argv0)}
    \cup IF realExe = "none" THEN {} ELSE {Tag("exe", parent[p], realExe)}

\* envp of the re-exec: the environment without the bridge's variables, then
\* the guard, the recorded executable if known, and the recorded argv[0].
Envp(p, realExe) ==
  {x \in mem[p].env : ~IsBridgeVar(x)}
    \cup {Tag("guard", p, "1"), Tag("argv0", p, mem[p].argv0)}
    \cup IF realExe = "none" THEN {} ELSE {Tag("exe", p, realExe)}

ResolveFails(p) ==
  /\ pc[p] = "resolve"
  /\ host.loader = "none" \/ ("mmap" \in Faults /\ Readlink(p) # {"loader"})
  /\ Return(p, FALSE)

\* Mutant: a start by hand through the loader is taken for a failure.
ResolveByHand_NoLibc(p) ==
  /\ pc[p] = "resolve"
  /\ host.loader # "none"
  /\ "loader" \in Readlink(p)
  /\ Return(p, FALSE)

\* /proc/self/exe is the loader: started through it by hand.
ResolveByHand(p) ==
  /\ pc[p] = "resolve"
  /\ host.loader # "none"
  /\ "loader" \in Readlink(p)
  /\ Return(p, TRUE)

ResolvePlan(p) ==
  /\ pc[p] = "resolve"
  /\ host.loader # "none"
  /\ \E link \in Readlink(p) \ {"loader"}, copied \in MemfdCopy(p) :
       plan' = [plan EXCEPT ![p] =
                  [real |-> RealExe(p, link), image |-> ExeToRun(link, copied),
                   envp |-> Envp(p, RealExe(p, link)), probe |-> NoPid]]
  /\ Goto(p, "launch")
  /\ UNCHANGED mem

Resolve(p) == ResolveFails(p) \/ ResolveByHand(p) \/ ResolvePlan(p)
--------------------------------------------------------------------------------
(* reexecUniversal: probeHostLoader and the execve.                         *)

\* Nothing preloaded, or the probe cannot be carried out (no memory, no pid):
\* straight to execve.
SkipProbe(p) ==
  /\ pc[p] = "launch"
  /\ ~host.preload \/ Free = {} \/ {"fork", "mmap"} \cap Faults # {}
  /\ Goto(p, "exec")
  /\ UNCHANGED <<mem, plan>>

\* clone: the child has the parent's memory, and one more variable in its envp.
ForkProbe(p) ==
  /\ pc[p] = "launch"
  /\ host.preload
  /\ \E c \in Free :
       /\ used' = used \cup {c}
       /\ pc' = [pc EXCEPT ![p] = "wait", ![c] = "clone"]
       /\ parent' = [parent EXCEPT ![c] = p]
       /\ mem' = [mem EXCEPT ![c] = mem[p]]
       /\ plan' = [plan EXCEPT ![p].probe = c,
                               ![c] = [plan[p] EXCEPT !.envp = @ \cup {Tag("probe", p, "1")}]]
       /\ status' = [status EXCEPT ![c] = "none"]
       /\ hist' = [hist EXCEPT ![c] = [hist[p] EXCEPT !.role = "probe"]]
  /\ UNCHANGED <<host, programs>>

\* execve of the loader.  It keeps the pid and takes argv and envp.
Execve(p) ==
  /\ pc' = [pc EXCEPT ![p] = "load"]
  /\ mem' = [mem EXCEPT ![p] = Fresh("loader", plan[p].image, plan[p].envp,
                                     Binds(plan[p].image))]
  /\ plan' = [plan EXCEPT ![p] = NoPlan]
  /\ hist' = [hist EXCEPT ![p].reexecs = @ + 1]
  /\ UNCHANGED <<pids, status>>

ProbeChild(c) ==
  /\ pc[c] = "clone"
  /\ \/ Execve(c)
     \/ "exec" \in Faults /\ End(c, "nonzero")

\* Mutants: the probe's exit status is not looked at; a probe that failed is
\* waited for again, as EINTR is.
WaitProbe_AnyStatus(p) ==
  /\ pc[p] = "wait" /\ pc[plan[p].probe] = "dead"
  /\ Goto(p, "exec")
  /\ UNCHANGED <<mem, plan>>
WaitProbe_UntilZero(p) ==
  /\ pc[p] = "wait" /\ status[plan[p].probe] = "zero"
  /\ Goto(p, "exec")
  /\ UNCHANGED <<mem, plan>>

\* wait4: the launch goes ahead only if the probe exited 0.
WaitProbe(p) ==
  /\ pc[p] = "wait"
  /\ LET c == plan[p].probe
         good == status[c] = "zero"
     IN  /\ pc[c] = "dead"
         /\ pc' = [pc EXCEPT ![c] = "free", ![p] = IF good THEN "exec" ELSE "init"]
         /\ mem' = [mem EXCEPT ![p].missing = ~good]
         /\ plan' = [plan EXCEPT ![p] = IF good THEN [@ EXCEPT !.probe = NoPid]
                                                ELSE NoPlan]
         /\ hist' = [hist EXCEPT ![c] = NoHistory]
         /\ status' = [status EXCEPT ![c] = "none"]
         /\ parent' = [parent EXCEPT ![c] = NoPid]
  /\ UNCHANGED <<host, used, programs>>

\* wait4 fails with something else than EINTR: not held against the launch.
WaitFails(p) ==
  /\ pc[p] = "wait"
  /\ "wait" \in Faults
  /\ Goto(p, "exec")
  /\ UNCHANGED <<mem, plan>>

Reexec(p) ==
  /\ pc[p] = "exec"
  /\ \/ Execve(p)
     \/ "exec" \in Faults /\ Return(p, FALSE)

\* The host loader: it may reject the image, and a preloaded library's
\* constructor may abort the process before any goffi code runs.
Load(p) ==
  /\ pc[p] = "load"
  /\ IF mem[p].argv0 = "bad" THEN End(p, "nonzero")
     ELSE IF host.preload /\ host.aborts THEN End(p, "signal")
     ELSE Goto(p, "scan") /\ UNCHANGED <<mem, plan>>
--------------------------------------------------------------------------------
(* x_cgo_init after the bridge, and the program.                            *)

\* A call into libc: it faults when the symbol is unbound.
CallLibc(p) == IF mem[p].bound
               THEN Goto(p, "main") /\ UNCHANGED <<mem, plan>>
               ELSE End(p, "fault")

\* Mutant: the setenv hooks survive (dropLibcEnvHooks is not called).
CgoInitMissing_KeepHooks(p) ==
  /\ pc[p] = "init" /\ mem[p].missing
  /\ mem' = [mem EXCEPT ![p].iscgo = FALSE]
  /\ Goto(p, "main")
  /\ UNCHANGED plan

\* hostlibc.Missing gives the process back to the Go runtime.
CgoInitMissing(p) ==
  /\ pc[p] = "init" /\ mem[p].missing
  /\ mem' = [mem EXCEPT ![p].iscgo = FALSE, ![p].hooks = FALSE]
  /\ Goto(p, "main")
  /\ UNCHANGED plan

\* The malloc at the top of x_cgo_init.
CgoInitMalloc(p) == /\ pc[p] = "init" /\ ~mem[p].missing
                    /\ CallLibc(p)

CallFFI(p) == /\ pc[p] = "main"
              /\ ~mem[p].missing /\ CallLibc(p)

\* os.Setenv: the runtime calls the hook whenever it is set.
Setenv(p) == /\ pc[p] = "main"
             /\ mem[p].hooks /\ CallLibc(p)

\* A new M: pthread_create when iscgo, clone(2) otherwise.
NewThread(p) == /\ pc[p] = "main"
                /\ mem[p].iscgo /\ CallLibc(p)

Exit(p) == /\ pc[p] \in {"main", "foreign"}
           /\ ParentsWait => \A q \in Pids : parent[q] = p => pc[q] \in {"free", "dead"}
           /\ End(p, "zero")

\* Somebody outside (a shell, a service manager) starts the program.
Launch(c) ==
  /\ programs < MaxLaunches /\ programs < MaxPrograms /\ programs' = programs + 1
  /\ Born(c, Reaper, "file", FALSE, {}, "program")

\* The program starts a copy of itself: through os.Args[0], through
\* ffi.Executable() (the file), through the host loader by hand, or starts
\* something else that inherits the environment and may do the same.
Spawn(p, c, way) ==
  /\ pc[p] = "main" \/ (pc[p] = "foreign" /\ way = "file")
  /\ programs < MaxPrograms /\ programs' = programs + 1
  /\ \/ way = "arg0"    /\ Born(c, p, mem[p].argv0, FALSE, mem[p].env, "program")
     \/ way = "file"    /\ Born(c, p, "file", FALSE, mem[p].env, "program")
     \/ way = "byhand"  /\ ~mem[p].missing
                        /\ Born(c, p, mem[p].argv0, TRUE, mem[p].env, "program")
     \/ way = "foreign" /\ Born(c, p, "file", FALSE, mem[p].env, "foreign")

\* syscall.Exec of the file or of os.Args[0]: a new start under the same pid.
SelfExec(p) ==
  /\ "selfexec" \in Ways
  /\ pc[p] = "main"
  /\ programs < MaxPrograms /\ programs' = programs + 1
  /\ \E img \in {"file", mem[p].argv0} :
       Born(p, parent[p], img, FALSE, mem[p].env, "inplace")

Kill(p) == /\ Kills
           /\ pc[p] \notin {"free", "dead"}
           /\ End(p, "signal")

\* A dead process is waited for by its parent (in the program) or by Reaper;
\* that matters only when its pid can then be handed out again.
Reap(c) ==
  /\ PidReuse
  /\ pc[c] = "dead"
  /\ parent[c] = Reaper \/ \E p \in Pids : parent[c] = p /\ pc[p] \in {"main", "foreign"}
  /\ pc' = [pc EXCEPT ![c] = "free"]
  /\ status' = [status EXCEPT ![c] = "none"]
  /\ hist' = [hist EXCEPT ![c] = NoHistory]
  /\ parent' = [parent EXCEPT ![c] = NoPid]
  /\ UNCHANGED <<host, used, programs, mem, plan>>
--------------------------------------------------------------------------------
Init == /\ host \in Hosts
        /\ used = {} /\ programs = 0
        /\ pc = [p \in Pids |-> "free"]
        /\ parent = [p \in Pids |-> NoPid]
        /\ mem = [p \in Pids |-> NoMemory]
        /\ plan = [p \in Pids |-> NoPlan]
        /\ status = [p \in Pids |-> "none"]
        /\ hist = [p \in Pids |-> NoHistory]

\* The steps a process takes by itself on the way to main, and the one error
\* return that no success is an alternative to.
Progress(p) == \/ Load(p) \/ Scan(p) \/ Resolve(p)
               \/ SkipProbe(p) \/ ForkProbe(p) \/ ProbeChild(p)
               \/ WaitProbe(p) \/ Reexec(p)
               \/ CgoInitMissing(p) \/ CgoInitMalloc(p)
Startup(p) == Progress(p) \/ WaitFails(p)

Program(p) == \/ CallFFI(p) \/ Setenv(p) \/ NewThread(p) \/ Exit(p)
              \/ SelfExec(p) \/ \E c \in Free, way \in Ways : Spawn(p, c, way)

Next == \/ \E c \in Free : Launch(c)
        \/ \E p \in Pids : Startup(p) \/ Program(p) \/ Kill(p) \/ Reap(p)

Spec == Init /\ [][Next]_vars

\* A runnable process is scheduled: its start-up code has no wait in it but
\* the probe's wait4, which is not owed an error return.
FairSpec == Spec /\ \A p \in Pids : WF_vars(Progress(p))
================================================================================
