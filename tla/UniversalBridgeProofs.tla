------------------------- MODULE UniversalBridgeProofs -------------------------
(***************************************************************************)
(* Proofs about UniversalBridge, for every set of pids, every set of hosts *)
(* and every bound.  TypeCorrect: the state keeps its types.               *)
(* NoUnboundCallHolds: no process calls an unbound libc symbol, provided   *)
(* the memfd copy never fails, no program replaces itself with execve and  *)
(* no pid is handed out twice (GuardIsReliable).                           *)
(* ContractImplemented: under the same conditions it implements            *)
(* StartupContract.                                                        *)
(* EnvironmentHolds: whatever fails and whatever was inherited, a          *)
(* re-executed program has only its own bridge's variables.                *)
(* OneReexec: it is never re-executed again, unless a full environment     *)
(* hides the guard and readlink fails.                                     *)
(* RecordIsTrue: hostlibc.Missing says whether libc is bound, whatever     *)
(* execve, fork and wait do (RecordIsReliable).                            *)
(* CopiesGetLibc: every program that reaches main has a libc where there   *)
(* is one to be had (NothingIsLost).                                       *)
(* CopiesKnowThemselves, FamiliesDoNotFault: where parents wait for their  *)
(* children, a copy knows its file and what it was invoked as, and nobody  *)
(* faults, though pids are handed out again (FamiliesHold).                *)
(***************************************************************************)
EXTENDS UniversalBridgeProps, TLAPS

\* The conditions under which the guard variable can be believed.
GuardIsReliable == "memfd" \notin Faults /\ "selfexec" \notin Ways /\ ~PidReuse
--------------------------------------------------------------------------------
(* The inductive invariant.                                                 *)

\* An image the loader rejects runs no code.
ImageLoaded == \A p \in Pids : mem[p].argv0 = "bad" => pc[p] = "load"

\* TypeOK alone is not inductive: what a copy is started from is its parent's
\* argv[0], which has to name an image.
TypeInv == TypeOK /\ ImageLoaded

Unused == \A p \in Pids : p \notin used => pc[p] = "free"

\* Entries are tagged with pids that were handed out: a new pid finds none.
TagsUsed == \A p \in Pids : \A x \in mem[p].env \cup plan[p].envp : x.pid \in used

\* One's own guard is seen only behind the loader.
GuardMeansLoader ==
  \A p \in Pids : \A x \in mem[p].env :
     x.key = "guard" /\ x.pid = p => mem[p].exe = "loader"

\* What is to be run, or is running, behind a loader is something it binds.
Bindable(img) == /\ host.loader # "none"
                 /\ host.loader = "glibc" => img \in {"memfd", "bad"}
PlanBinds == \A p \in Pids :
  pc[p] \in {"launch", "wait", "exec", "clone"} => Bindable(plan[p].image)
LoaderBinds == \A p \in Pids :
  mem[p].exe = "loader" => Bindable(mem[p].argv0) /\ mem[p].bound = Binds(mem[p].argv0)

\* After the bridge: a libc, or the knowledge that there is none.
LibcOrMissing == \A p \in Pids :
  pc[p] \in {"init", "main"} /\ ~mem[p].missing => mem[p].exe = "loader"
MissingIsPure == \A p \in Pids :
  pc[p] = "main" /\ mem[p].missing => ~mem[p].hooks /\ ~mem[p].iscgo

GuardInv == /\ Unused /\ TagsUsed /\ GuardMeansLoader /\ PlanBinds /\ LoaderBinds
            /\ LibcOrMissing /\ MissingIsPure /\ NoUnboundCall
--------------------------------------------------------------------------------
(* Type correctness.                                                        *)

Roles == {"program", "inplace", "probe", "foreign"}
Endings == {"none", "zero", "nonzero", "signal", "fault"}

LEMMA NoMemoryType == NoMemory \in Memory /\ NoPlan \in Plan /\ NoHistory \in History
  BY DEF NoMemory, NoPlan, NoHistory, Fresh, Memory, Plan, History, Images

\* A flag of one process's memory is written.
LEMMA FlagSet ==
  ASSUME NEW f \in [Pids -> Memory], NEW p \in Pids, NEW b \in BOOLEAN
  PROVE  /\ [f EXCEPT ![p].missing = b] \in [Pids -> Memory]
         /\ [f EXCEPT ![p].iscgo = b] \in [Pids -> Memory]
         /\ [f EXCEPT ![p].hooks = b] \in [Pids -> Memory]
<1>1. PICK m \in Memory : m = f[p]
  OBVIOUS
<1>2. /\ [m EXCEPT !.missing = b] \in Memory /\ [m EXCEPT !.iscgo = b] \in Memory
      /\ [m EXCEPT !.hooks = b] \in Memory
  BY DEF Memory
<1> QED BY <1>1, <1>2

\* ... and the rest is left as it is.
LEMMA MissingSet ==
  ASSUME NEW m \in Memory, NEW b, NEW n, n = [m EXCEPT !.missing = b]
  PROVE  /\ n.missing = b /\ n.exe = m.exe /\ n.env = m.env /\ n.argv0 = m.argv0
         /\ n.bound = m.bound /\ n.hooks = m.hooks /\ n.iscgo = m.iscgo
  BY DEF Memory

\* A process ends: what is left is the empty memory.
LEMMA EndType ==
  ASSUME TypeInv, NEW p \in Pids, NEW how \in Endings, End(p, how)
  PROVE  TypeInv'
<1>1. /\ host' \in Hosts /\ used' \subseteq Pids /\ programs' \in 0..MaxPrograms
      /\ hist' \in [Pids -> History]
  BY DEF TypeInv, TypeOK, End
<1>2. pc' \in [Pids -> PCs] /\ status' \in [Pids -> Endings]
  BY DEF TypeInv, TypeOK, End, PCs, Endings
<1>3. parent' \in [Pids -> Pids \cup {Reaper, NoPid}]
  BY DEF TypeInv, TypeOK, End
<1>4. mem' \in [Pids -> Memory] /\ plan' \in [Pids -> Plan]
  BY NoMemoryType DEF TypeInv, TypeOK, End
<1>5. ImageLoaded'
  BY DEF TypeInv, TypeOK, ImageLoaded, End, NoMemory, Fresh
<1> QED BY <1>1, <1>2, <1>3, <1>4, <1>5 DEF TypeInv, TypeOK, Endings

\* A process starts from a good image with an environment of entries.
LEMMA BornType ==
  ASSUME TypeInv, NEW c \in Pids, NEW by \in Pids \cup {Reaper, NoPid},
         NEW img \in {"file", "memfd"}, NEW byLoader \in BOOLEAN,
         NEW e \in SUBSET Entry, NEW r \in Roles,
         programs' \in 0..MaxPrograms, Born(c, by, img, byLoader, e, r)
  PROVE  TypeInv'
<1>1. /\ host' \in Hosts /\ used' \subseteq Pids /\ plan' \in [Pids -> Plan]
      /\ parent' \in [Pids -> Pids \cup {Reaper, NoPid}]
  BY DEF TypeInv, TypeOK, Born
<1>2. pc' \in [Pids -> PCs] /\ status' \in [Pids -> Endings]
  BY DEF TypeInv, TypeOK, Born, PCs, Endings
<1>3. hist' \in [Pids -> History]
  BY DEF TypeInv, TypeOK, Born, History, Roles, Images
<1>4. Binds(img) \in BOOLEAN
  BY DEF Binds
<1>5. Fresh(IF byLoader THEN "loader" ELSE img, img, e, byLoader /\ Binds(img)) \in Memory
  BY <1>4 DEF Fresh, Memory, Images
<1>6. mem' \in [Pids -> Memory]
  BY <1>5 DEF TypeInv, TypeOK, Born
<1>7. ImageLoaded'
  BY DEF TypeInv, TypeOK, ImageLoaded, Born, Fresh
<1> QED BY <1>1, <1>2, <1>3, <1>6, <1>7 DEF TypeInv, TypeOK, Endings

\* execve from a state with a plan.
LEMMA ExecveType ==
  ASSUME TypeInv, NEW p \in Pids, Execve(p)
  PROVE  TypeInv'
<1>1. /\ host' \in Hosts /\ used' \subseteq Pids /\ programs' \in 0..MaxPrograms
      /\ parent' \in [Pids -> Pids \cup {Reaper, NoPid}]
      /\ status' \in [Pids -> Endings]
  BY DEF TypeInv, TypeOK, Execve, pids, Endings
<1>2. pc' \in [Pids -> PCs] /\ hist' \in [Pids -> History]
  <2>1. pc' \in [Pids -> PCs]
    BY DEF TypeInv, TypeOK, Execve, PCs
  <2>2. hist' \in [Pids -> History]
    BY DEF TypeInv, TypeOK, Execve, History
  <2> QED BY <2>1, <2>2
<1>3. /\ plan[p].image \in Images /\ plan[p].envp \in SUBSET Entry
      /\ Binds(plan[p].image) \in BOOLEAN
  BY DEF TypeInv, TypeOK, Plan, Binds
<1>4. Fresh("loader", plan[p].image, plan[p].envp, Binds(plan[p].image)) \in Memory
  BY <1>3 DEF Fresh, Memory
<1>5. mem' \in [Pids -> Memory] /\ plan' \in [Pids -> Plan]
  BY <1>4, NoMemoryType DEF TypeInv, TypeOK, Execve
<1>6. ImageLoaded'
  BY DEF TypeInv, TypeOK, ImageLoaded, Execve, Fresh
<1> QED BY <1>1, <1>2, <1>5, <1>6 DEF TypeInv, TypeOK, Endings

\* The bridge returns its answer.
LEMMA ReturnType ==
  ASSUME TypeInv, NEW p \in Pids, pc[p] # "load", NEW hasLibc \in BOOLEAN, Return(p, hasLibc)
  PROVE  TypeInv'
<1>1. mem' \in [Pids -> Memory] /\ plan' \in [Pids -> Plan] /\ pc' \in [Pids -> PCs]
  <2>1. (~hasLibc) \in BOOLEAN /\ mem \in [Pids -> Memory]
    BY DEF TypeInv, TypeOK
  <2>2. mem' \in [Pids -> Memory]
    <3>1. PICK b \in BOOLEAN : b = (~hasLibc)
      BY <2>1
    <3>2. mem' = [mem EXCEPT ![p].missing = b]
      BY <3>1 DEF Return
    <3> QED BY <2>1, <3>2, FlagSet
  <2>3. plan' \in [Pids -> Plan]
    BY NoMemoryType DEF TypeInv, TypeOK, Return
  <2>4. pc' \in [Pids -> PCs]
    BY DEF TypeInv, TypeOK, Return, Goto, PCs
  <2> QED BY <2>2, <2>3, <2>4
<1>2. ImageLoaded'
  <2> SUFFICES ASSUME NEW q \in Pids, mem'[q].argv0 = "bad"
               PROVE  pc'[q] = "load"
    BY DEF ImageLoaded
  <2>1. mem \in [Pids -> Memory] /\ pc \in [Pids -> PCs]
    BY DEF TypeInv, TypeOK
  <2>2. mem'[q].argv0 = mem[q].argv0
    BY <2>1 DEF Return, Memory
  <2>3. pc[q] = "load"
    BY <2>2 DEF TypeInv, ImageLoaded
  <2>4. q # p /\ pc'[q] = pc[q]
    BY <2>1, <2>3 DEF Return, Goto
  <2> QED BY <2>3, <2>4
<1> QED BY <1>1, <1>2 DEF TypeInv, TypeOK, Return, Goto, pids

\* The program counter moves and nothing else does.
LEMMA GotoType ==
  ASSUME TypeInv, NEW p \in Pids, NEW where \in PCs, Goto(p, where),
         pc[p] # "load" \/ mem[p].argv0 # "bad", UNCHANGED <<mem, plan>>
  PROVE  TypeInv'
<1>1. pc' \in [Pids -> PCs]
  BY DEF TypeInv, TypeOK, Goto
<1>2. ImageLoaded'
  BY DEF TypeInv, TypeOK, ImageLoaded, Goto
<1> QED BY <1>1, <1>2 DEF TypeInv, TypeOK, Goto, pids

LEMMA CallLibcType ==
  ASSUME TypeInv, NEW p \in Pids, pc[p] # "load", CallLibc(p)
  PROVE  TypeInv'
  BY GotoType, EndType DEF CallLibc, PCs, Endings

\* What the parent recorded as the executable is an image, or nothing.
LEMMA ParentExeType ==
  ASSUME TypeInv, NEW p \in Pids
  PROVE  ParentExe(p) \in Images \cup {"none"}
<1> DEFINE found == Tagged(p, "exe", parent[p])
<1>1. CASE found = {}
  BY <1>1 DEF ParentExe
<1>2. CASE found # {}
  <2>1. (CHOOSE x \in found : TRUE) \in found
    BY <1>2
  <2>2. \A x \in found : x \in Entry /\ x.key = "exe"
    BY DEF Tagged, TypeInv, TypeOK, Memory
  <2>3. \A x \in found : x.val \in Images
    BY <2>2 DEF Entry
  <2> QED BY <1>2, <2>1, <2>3 DEF ParentExe
<1> QED BY <1>1, <1>2

\* The environment of the re-exec consists of entries.
LEMMA EnvpType ==
  ASSUME TypeInv, NEW p \in Pids, NEW real \in Images \cup {"none"}
  PROVE  Envp(p, real) \in SUBSET Entry
<1>1. mem[p].env \in SUBSET Entry /\ mem[p].argv0 \in Images
  BY DEF TypeInv, TypeOK, Memory
<1>2. Tag("guard", p, "1") \in Entry /\ Tag("argv0", p, mem[p].argv0) \in Entry
  BY <1>1 DEF Tag, Entry
<1>3. real # "none" => Tag("exe", p, real) \in Entry
  BY DEF Tag, Entry
<1> QED BY <1>1, <1>2, <1>3 DEF Envp

\* A running program's argv[0] names a good image.
LEMMA RunningImage ==
  ASSUME TypeInv, NEW p \in Pids, pc[p] # "load"
  PROVE  mem[p].argv0 \in {"file", "memfd"} /\ mem[p].env \in SUBSET Entry
  BY DEF TypeInv, TypeOK, ImageLoaded, Memory, Images

LEMMA TypeInit == Init => TypeInv
<1> SUFFICES ASSUME Init PROVE TypeInv
  OBVIOUS
<1>1. host \in Hosts /\ used \subseteq Pids /\ programs \in 0..MaxPrograms
  BY ConstantsAssumption DEF Init
<1>2. mem \in [Pids -> Memory] /\ plan \in [Pids -> Plan] /\ hist \in [Pids -> History]
  BY NoMemoryType DEF Init
<1>3. ImageLoaded
  BY DEF Init, ImageLoaded, NoMemory, Fresh
<1> QED BY <1>1, <1>2, <1>3 DEF Init, TypeInv, TypeOK, PCs

\* The scan of the environment.
LEMMA ScanType ==
  ASSUME TypeInv, NEW p \in Pids, Scan(p)
  PROVE  TypeInv'
<1>1. pc[p] = "scan"
  BY DEF Scan, ScanFails, ScanProbe, ScanGuarded, ScanFirst
<1>2. CASE ScanFails(p)
  BY <1>1, <1>2, ReturnType DEF ScanFails
<1>3. CASE ScanProbe(p)
  BY <1>3, EndType DEF ScanProbe, Endings
<1>4. CASE ScanGuarded(p)
  BY <1>1, <1>4, ReturnType DEF ScanGuarded
<1>5. CASE ScanFirst(p)
  <2>1. plan' \in [Pids -> Plan]
    BY <1>5, ParentExeType DEF ScanFirst, TypeInv, TypeOK, Plan
  <2>2. pc' \in [Pids -> PCs]
    BY <1>5 DEF ScanFirst, Goto, TypeInv, TypeOK, PCs
  <2>3. ImageLoaded'
    BY <1>1, <1>5 DEF ScanFirst, Goto, TypeInv, TypeOK, ImageLoaded
  <2> QED BY <1>5, <2>1, <2>2, <2>3 DEF ScanFirst, Goto, pids, TypeInv, TypeOK
<1> QED BY <1>2, <1>3, <1>4, <1>5 DEF Scan

\* Deciding what to run.
LEMMA ResolveType ==
  ASSUME TypeInv, NEW p \in Pids, Resolve(p)
  PROVE  TypeInv'
<1>1. pc[p] = "resolve"
  BY DEF Resolve, ResolveFails, ResolveByHand, ResolvePlan
<1>2. CASE ResolveFails(p)
  BY <1>1, <1>2, ReturnType DEF ResolveFails
<1>3. CASE ResolveByHand(p)
  BY <1>1, <1>3, ReturnType DEF ResolveByHand
<1>4. CASE ResolvePlan(p)
  <2>1. PICK link \in Readlink(p) \ {"loader"}, copied \in MemfdCopy(p) :
          plan' = [plan EXCEPT ![p] =
                    [real |-> RealExe(p, link), image |-> ExeToRun(link, copied),
                     envp |-> Envp(p, RealExe(p, link)), probe |-> NoPid]]
    BY <1>4 DEF ResolvePlan
  <2>2. link \in {"file", "memfd", "none"}
    BY DEF Readlink, TypeInv, TypeOK, Memory
  <2>3. RealExe(p, link) \in Images \cup {"none"}
    BY <2>2 DEF RealExe, TypeInv, TypeOK, Plan, Images
  <2>4. ExeToRun(link, copied) \in Images
    BY DEF ExeToRun, Images
  <2>5. plan' \in [Pids -> Plan]
    BY <2>1, <2>3, <2>4, EnvpType DEF TypeInv, TypeOK, Plan
  <2>6. pc' \in [Pids -> PCs]
    BY <1>4 DEF ResolvePlan, Goto, TypeInv, TypeOK, PCs
  <2>7. ImageLoaded'
    BY <1>1, <1>4 DEF ResolvePlan, Goto, TypeInv, TypeOK, ImageLoaded
  <2> QED BY <1>4, <2>5, <2>6, <2>7 DEF ResolvePlan, Goto, pids, TypeInv, TypeOK
<1> QED BY <1>2, <1>3, <1>4 DEF Resolve

\* The fork of the probe.
LEMMA ForkType ==
  ASSUME TypeInv, NEW p \in Pids, ForkProbe(p)
  PROVE  TypeInv'
<1>1. PICK c \in Free :
        /\ used' = used \cup {c}
        /\ pc' = [pc EXCEPT ![p] = "wait", ![c] = "clone"]
        /\ parent' = [parent EXCEPT ![c] = p]
        /\ mem' = [mem EXCEPT ![c] = mem[p]]
        /\ plan' = [plan EXCEPT ![p].probe = c,
                               ![c] = [plan[p] EXCEPT !.envp = @ \cup {Tag("probe", p, "1")}]]
        /\ status' = [status EXCEPT ![c] = "none"]
        /\ hist' = [hist EXCEPT ![c] = [hist[p] EXCEPT !.role = "probe"]]
  BY DEF ForkProbe
<1>2. c \in Pids /\ pc[p] = "launch" /\ UNCHANGED <<host, programs>>
  BY DEF ForkProbe, Free
<1>3. Tag("probe", p, "1") \in Entry
  BY DEF Tag, Entry
<1>4. plan' \in [Pids -> Plan]
  BY <1>1, <1>2, <1>3 DEF TypeInv, TypeOK, Plan
<1>5. hist' \in [Pids -> History] /\ mem' \in [Pids -> Memory]
  BY <1>1, <1>2 DEF TypeInv, TypeOK, History
<1>6. pc' \in [Pids -> PCs] /\ status' \in [Pids -> Endings]
  BY <1>1, <1>2 DEF TypeInv, TypeOK, PCs, Endings
<1>7. ImageLoaded'
  BY <1>1, <1>2 DEF TypeInv, TypeOK, ImageLoaded
<1> QED BY <1>1, <1>2, <1>4, <1>5, <1>6, <1>7 DEF TypeInv, TypeOK, Endings

\* The end of the wait, and a reaped child: its pid is free again.
LEMMA WaitType ==
  ASSUME TypeInv, NEW p \in Pids, WaitProbe(p) \/ Reap(p)
  PROVE  TypeInv'
<1>1. CASE WaitProbe(p)
  <2> DEFINE c == plan[p].probe
             good == status[c] = "zero"
  <2>1. /\ pc[p] = "wait" /\ pc[c] = "dead"
        /\ pc' = [pc EXCEPT ![c] = "free", ![p] = IF good THEN "exec" ELSE "init"]
        /\ mem' = [mem EXCEPT ![p].missing = ~good]
        /\ plan' = [plan EXCEPT ![p] = IF good THEN [@ EXCEPT !.probe = NoPid] ELSE NoPlan]
        /\ hist' = [hist EXCEPT ![c] = NoHistory]
        /\ status' = [status EXCEPT ![c] = "none"]
        /\ parent' = [parent EXCEPT ![c] = NoPid]
        /\ UNCHANGED <<host, used, programs>>
    BY <1>1 DEF WaitProbe
  <2>2. mem' \in [Pids -> Memory]
    <3>1. CASE good
      <4>1. mem' = [mem EXCEPT ![p].missing = FALSE]
        BY <2>1, <3>1
      <4>2. mem \in [Pids -> Memory]
        BY DEF TypeInv, TypeOK
      <4> QED BY <4>1, <4>2, FlagSet
    <3>2. CASE ~good
      <4>1. mem' = [mem EXCEPT ![p].missing = TRUE]
        BY <2>1, <3>2
      <4>2. mem \in [Pids -> Memory]
        BY DEF TypeInv, TypeOK
      <4> QED BY <4>1, <4>2, FlagSet
    <3> QED BY <3>1, <3>2
  <2>3. plan' \in [Pids -> Plan]
    BY <2>1, NoMemoryType DEF TypeInv, TypeOK, Plan
  <2>4. pc' \in [Pids -> PCs] /\ hist' \in [Pids -> History]
    BY <2>1, NoMemoryType DEF TypeInv, TypeOK, PCs
  <2>5. ImageLoaded'
    BY <2>1, <2>2 DEF TypeInv, TypeOK, ImageLoaded, Memory
  <2> QED BY <2>1, <2>2, <2>3, <2>4, <2>5 DEF TypeInv, TypeOK
<1>2. CASE Reap(p)
  <2>1. hist' \in [Pids -> History] /\ pc' \in [Pids -> PCs]
    BY <1>2, NoMemoryType DEF Reap, TypeInv, TypeOK, PCs
  <2>2. ImageLoaded'
    BY <1>2 DEF Reap, TypeInv, TypeOK, ImageLoaded
  <2> QED BY <1>2, <2>1, <2>2 DEF Reap, TypeInv, TypeOK
<1> QED BY <1>1, <1>2

\* Every step a process takes on its way to main.
LEMMA StartupType ==
  ASSUME TypeInv, NEW p \in Pids, Startup(p)
  PROVE  TypeInv'
<1>1. CASE Load(p)
  <2>1. CASE mem[p].argv0 = "bad"
    BY <1>1, <2>1, EndType DEF Load, Endings
  <2>2. CASE mem[p].argv0 # "bad" /\ host.preload /\ host.aborts
    BY <1>1, <2>2, EndType DEF Load, Endings
  <2>3. CASE mem[p].argv0 # "bad" /\ ~(host.preload /\ host.aborts)
    BY <1>1, <2>3, GotoType DEF Load, PCs
  <2> QED BY <2>1, <2>2, <2>3
<1>2. CASE SkipProbe(p)
  BY <1>2, GotoType DEF SkipProbe, PCs
<1>3. CASE WaitFails(p)
  BY <1>3, GotoType DEF WaitFails, PCs
<1>4. CASE ProbeChild(p)
  BY <1>4, ExecveType, EndType DEF ProbeChild, Endings
<1>5. CASE Reexec(p)
  BY <1>5, ExecveType, ReturnType DEF Reexec
<1>6. CASE CgoInitMissing(p)
  <2> DEFINE half == [mem EXCEPT ![p].iscgo = FALSE]
  <2>a. half \in [Pids -> Memory]
    BY FlagSet DEF TypeInv, TypeOK
  <2>b. mem' = [half EXCEPT ![p].hooks = FALSE]
    BY <1>6 DEF CgoInitMissing
  <2>c. mem' \in [Pids -> Memory]
    <3> HIDE DEF half
    <3> QED BY <2>a, <2>b, FlagSet
  <2>1. mem' \in [Pids -> Memory] /\ pc' \in [Pids -> PCs]
    BY <1>6, <2>c DEF CgoInitMissing, Goto, TypeInv, TypeOK, PCs
  <2>2. ImageLoaded'
    BY <1>6 DEF CgoInitMissing, Goto, TypeInv, TypeOK, ImageLoaded, Memory
  <2> QED BY <1>6, <2>1, <2>2 DEF CgoInitMissing, Goto, pids, TypeInv, TypeOK
<1>7. CASE CgoInitMalloc(p)
  BY <1>7, CallLibcType DEF CgoInitMalloc
<1> QED BY <1>1, <1>2, <1>3, <1>4, <1>5, <1>6, <1>7, ScanType, ResolveType, ForkType, WaitType
        DEF Startup, Progress

\* A program starts a copy, or replaces itself.
LEMMA SpawnType ==
  ASSUME TypeInv, NEW p \in Pids,
         SelfExec(p) \/ \E c \in Free, way \in Ways : Spawn(p, c, way)
  PROVE  TypeInv'
<1>1. CASE SelfExec(p)
  <2>1. pc[p] = "main" /\ programs' \in 0..MaxPrograms
    BY <1>1, ConstantsAssumption DEF SelfExec, TypeInv, TypeOK
  <2>2. PICK img \in {"file", mem[p].argv0} :
          Born(p, parent[p], img, FALSE, mem[p].env, "inplace")
    BY <1>1 DEF SelfExec
  <2>3. parent[p] \in Pids \cup {Reaper, NoPid}
    BY DEF TypeInv, TypeOK
  <2> QED BY <2>1, <2>2, <2>3, RunningImage, BornType DEF Roles
<1>2. ASSUME NEW c \in Free, NEW way \in Ways, Spawn(p, c, way)
      PROVE  TypeInv'
  <2>1. c \in Pids /\ pc[p] # "load" /\ programs' \in 0..MaxPrograms
    BY <1>2, ConstantsAssumption DEF Spawn, Free, TypeInv, TypeOK
  <2>2. mem[p].argv0 \in {"file", "memfd"} /\ mem[p].env \in SUBSET Entry
    BY <2>1, RunningImage
  <2>3. PICK img \in {"file", "memfd"}, byLoader \in BOOLEAN, r \in Roles :
          Born(c, p, img, byLoader, mem[p].env, r)
    BY <1>2, <2>2 DEF Spawn, Roles
  <2> QED BY <2>1, <2>2, <2>3, BornType
<1> QED BY <1>1, <1>2

LEMMA TypeStep == TypeInv /\ [Next]_vars => TypeInv'
<1> SUFFICES ASSUME TypeInv, [Next]_vars PROVE TypeInv'
  OBVIOUS
<1>1. ASSUME NEW c \in Free, Launch(c) PROVE TypeInv'
  <2>1. c \in Pids /\ programs' \in 0..MaxPrograms
    BY <1>1, ConstantsAssumption DEF Launch, Free, TypeInv, TypeOK
  <2> QED BY <1>1, <2>1, BornType DEF Launch, Roles
<1>2. ASSUME NEW p \in Pids, Program(p) PROVE TypeInv'
  <2>1. CASE CallFFI(p) \/ Setenv(p) \/ NewThread(p)
    BY <2>1, CallLibcType DEF CallFFI, Setenv, NewThread
  <2>2. CASE Exit(p)
    BY <2>2, EndType DEF Exit, Endings
  <2> QED BY <1>2, <2>1, <2>2, SpawnType DEF Program
<1>3. ASSUME NEW p \in Pids, Kill(p) PROVE TypeInv'
  BY <1>3, EndType DEF Kill, Endings
<1>4. CASE UNCHANGED vars
  BY <1>4 DEF vars, TypeInv, TypeOK, ImageLoaded
<1> QED BY <1>1, <1>2, <1>3, <1>4, StartupType, WaitType DEF Next

\* Every reachable state has its types, and no rejected image ever runs code:
\* start-up hands out pids, images, environments and answers of the right
\* kind whatever fails (reexecUniversal and everything around it).
THEOREM TypeCorrect == Spec => []TypeOK
<1>1. TypeInv => TypeOK
  BY DEF TypeInv
<1> QED BY <1>1, TypeInit, TypeStep, PTL DEF Spec
--------------------------------------------------------------------------------
(* No unbound call.                                                         *)

\* A process past the bridge that does not know itself without libc has one.
LEMMA BoundAfterBridge ==
  ASSUME TypeInv, GuardInv, NEW p \in Pids, pc[p] \in {"init", "main"}, ~mem[p].missing
  PROVE  mem[p].bound /\ mem[p].exe = "loader" /\ Bindable(mem[p].argv0)
<1>1. mem[p].exe = "loader" /\ mem[p].argv0 # "bad"
  BY DEF GuardInv, LibcOrMissing, TypeInv, ImageLoaded
<1>2. Bindable(mem[p].argv0) /\ mem[p].bound = Binds(mem[p].argv0)
  BY <1>1 DEF GuardInv, LoaderBinds
<1>3. host.loader \in {"glibc", "musl"}
  BY <1>2, ConstantsAssumption DEF Bindable, TypeInv, TypeOK, Host
<1>4. Binds(mem[p].argv0)
  BY <1>1, <1>2, <1>3 DEF Bindable, Binds
<1> QED BY <1>1, <1>2, <1>4

\* Every image that runs behind the loader ran there before, in some process.
LEMMA LoaderBindsStep ==
  ASSUME LoaderBinds, host' = host,
         \A q \in Pids : \E o \in Pids : /\ mem'[q].exe = mem[o].exe
                                         /\ mem'[q].argv0 = mem[o].argv0
                                         /\ mem'[q].bound = mem[o].bound
  PROVE  LoaderBinds'
<1> SUFFICES ASSUME NEW q \in Pids, mem'[q].exe = "loader"
             PROVE  Bindable(mem[q].argv0)' /\ mem'[q].bound = Binds(mem[q].argv0)'
  BY DEF LoaderBinds
<1>1. PICK o \in Pids : /\ mem'[q].exe = mem[o].exe /\ mem'[q].argv0 = mem[o].argv0
                        /\ mem'[q].bound = mem[o].bound
  OBVIOUS
<1>2. Bindable(mem[o].argv0) /\ mem[o].bound = Binds(mem[o].argv0)
  BY <1>1 DEF LoaderBinds
<1> QED BY <1>1, <1>2 DEF Bindable, Binds

LEMMA EndGuard ==
  ASSUME TypeInv, GuardInv, NEW p \in Pids, pc[p] # "free",
         NEW how \in Endings \ {"fault"}, End(p, how)
  PROVE  GuardInv'
<1>1. /\ host' = host /\ used' = used /\ pc' = [pc EXCEPT ![p] = "dead"]
      /\ mem' = [mem EXCEPT ![p] = NoMemory] /\ plan' = [plan EXCEPT ![p] = NoPlan]
      /\ status' = [status EXCEPT ![p] = how]
  BY DEF End
<1>2. NoMemory.env = {} /\ NoMemory.exe = "file" /\ NoPlan.envp = {}
  BY DEF NoMemory, NoPlan, Fresh
<1>3. Unused' /\ LibcOrMissing' /\ MissingIsPure' /\ NoUnboundCall'
  BY <1>1 DEF TypeInv, TypeOK, GuardInv, Unused, LibcOrMissing, MissingIsPure,
              NoUnboundCall
<1>4. TagsUsed' /\ GuardMeansLoader'
  BY <1>1, <1>2 DEF TypeInv, TypeOK, GuardInv, TagsUsed, GuardMeansLoader
<1>5. PlanBinds' /\ LoaderBinds'
  BY <1>1, <1>2 DEF TypeInv, TypeOK, GuardInv, PlanBinds, LoaderBinds, Bindable, Binds
<1> QED BY <1>3, <1>4, <1>5 DEF GuardInv

\* A new pid: no inherited entry is tagged with it.
LEMMA BornGuard ==
  ASSUME TypeInv, GuardInv, ~PidReuse, NEW c \in Free, NEW by,
         NEW img \in {"file", "memfd"}, NEW byLoader \in BOOLEAN, byLoader => Bindable(img),
         NEW e \in SUBSET Entry, \A x \in e : x.pid \in used, NEW r \in Roles,
         Born(c, by, img, byLoader, e, r)
  PROVE  GuardInv'
<1> DEFINE m == Fresh(IF byLoader THEN "loader" ELSE img, img, e, byLoader /\ Binds(img))
<1>1. c \in Pids /\ c \notin used
  BY DEF Free
<1>2. /\ host' = host /\ plan' = plan /\ used' = used \cup {c}
      /\ mem' = [mem EXCEPT ![c] = m] /\ status' = [status EXCEPT ![c] = "none"]
  BY DEF Born
<1>3. /\ m.env = e /\ m.argv0 = img
      /\ m.exe = "loader" => byLoader /\ m.bound = Binds(img)
  <2>1. m.env = e /\ m.argv0 = img
    BY DEF Fresh
  <2>2. CASE byLoader
    <3>1. Binds(img) \in BOOLEAN
      BY DEF Binds
    <3>2. m.bound = Binds(img)
      BY <2>2, <3>1 DEF Fresh
    <3> QED BY <2>1, <2>2, <3>2
  <2>3. CASE ~byLoader
    BY <2>1, <2>3 DEF Fresh
  <2> QED BY <2>1, <2>2, <2>3
<1>4. \E first \in {"foreign", "scan", "load"} : pc' = [pc EXCEPT ![c] = first]
  BY DEF Born
<1> HIDE DEF m
<1>5. Unused' /\ LibcOrMissing' /\ MissingIsPure' /\ NoUnboundCall'
  BY <1>1, <1>2, <1>4 DEF TypeInv, TypeOK, GuardInv, Unused, LibcOrMissing, MissingIsPure,
              NoUnboundCall
<1>6. TagsUsed' /\ GuardMeansLoader'
  BY <1>1, <1>2, <1>3 DEF TypeInv, TypeOK, GuardInv, TagsUsed, GuardMeansLoader
<1>7. PlanBinds'
  BY <1>1, <1>2, <1>4 DEF TypeInv, TypeOK, GuardInv, PlanBinds, Bindable
<1>8. LoaderBinds'
  BY <1>1, <1>2, <1>3 DEF TypeInv, TypeOK, GuardInv, LoaderBinds, Bindable, Binds
<1> QED BY <1>5, <1>6, <1>7, <1>8 DEF GuardInv

\* p moves on, with its memory unchanged.
LEMMA GotoGuard ==
  ASSUME TypeInv, GuardInv, NEW p \in Pids, pc[p] # "free", NEW where \in PCs,
         Goto(p, where), UNCHANGED <<mem, plan>>,
         where \in {"launch", "wait", "exec", "clone"} => Bindable(plan[p].image),
         where \in {"init", "main"} => ~mem[p].missing /\ mem[p].exe = "loader"
  PROVE  GuardInv'
<1>1. /\ host' = host /\ used' = used /\ pc' = [pc EXCEPT ![p] = where]
      /\ mem' = mem /\ plan' = plan /\ status' = status
  BY DEF Goto, pids
<1>2. Unused' /\ LibcOrMissing' /\ MissingIsPure' /\ NoUnboundCall'
  BY <1>1 DEF TypeInv, TypeOK, GuardInv, Unused, LibcOrMissing, MissingIsPure,
              NoUnboundCall
<1>3. TagsUsed' /\ GuardMeansLoader'
  BY <1>1 DEF GuardInv, TagsUsed, GuardMeansLoader
<1>4. PlanBinds'
  BY <1>1 DEF TypeInv, TypeOK, GuardInv, PlanBinds, Bindable
<1>5. LoaderBinds'
  BY <1>1 DEF GuardInv, LoaderBinds, Bindable, Binds
<1> QED BY <1>2, <1>3, <1>4, <1>5 DEF GuardInv

\* A call into a libc that is there.
LEMMA CallLibcGuard ==
  ASSUME TypeInv, GuardInv, NEW p \in Pids, pc[p] \in {"init", "main"}, ~mem[p].missing,
         CallLibc(p)
  PROVE  GuardInv'
<1>1. mem[p].bound /\ mem[p].exe = "loader"
  BY BoundAfterBridge
<1>2. Goto(p, "main") /\ UNCHANGED <<mem, plan>>
  BY <1>1 DEF CallLibc
<1> QED BY <1>1, <1>2, GotoGuard DEF PCs

\* The bridge's answer is "there is a libc" only behind the loader.
LEMMA ReturnGuard ==
  ASSUME TypeInv, GuardInv, NEW p \in Pids, pc[p] # "free", NEW hasLibc \in BOOLEAN,
         hasLibc => mem[p].exe = "loader", Return(p, hasLibc)
  PROVE  GuardInv'
<1>1. /\ host' = host /\ used' = used /\ pc' = [pc EXCEPT ![p] = "init"]
      /\ mem' = [mem EXCEPT ![p].missing = ~hasLibc]
      /\ plan' = [plan EXCEPT ![p] = NoPlan] /\ status' = status
  BY DEF Return, Goto, pids
<1>2. /\ \A q \in Pids : /\ mem'[q].exe = mem[q].exe /\ mem'[q].env = mem[q].env
                         /\ mem'[q].argv0 = mem[q].argv0 /\ mem'[q].bound = mem[q].bound
                         /\ mem'[q].hooks = mem[q].hooks /\ mem'[q].iscgo = mem[q].iscgo
                         /\ q # p => mem'[q] = mem[q]
      /\ ~hasLibc => mem'[p].missing
      /\ NoPlan.envp = {}
  <2>1. PICK b \in BOOLEAN : b = (~hasLibc)
    OBVIOUS
  <2>2. PICK m \in Memory : m = mem[p]
    BY DEF TypeInv, TypeOK
  <2>3. PICK n : n = [m EXCEPT !.missing = b]
    OBVIOUS
  <2>4. mem'[p] = n /\ \A q \in Pids : q # p => mem'[q] = mem[q]
    BY <1>1, <2>1, <2>2, <2>3 DEF TypeInv, TypeOK
  <2>5. /\ n.missing = b /\ n.exe = m.exe /\ n.env = m.env /\ n.argv0 = m.argv0
        /\ n.bound = m.bound /\ n.hooks = m.hooks /\ n.iscgo = m.iscgo
    BY <2>3, MissingSet
  <2>6. NoPlan.envp = {}
    BY DEF NoPlan
  <2> QED BY <2>1, <2>2, <2>4, <2>5, <2>6
<1>3. Unused' /\ MissingIsPure' /\ NoUnboundCall'
  BY <1>1, <1>2 DEF TypeInv, TypeOK, GuardInv, Unused, MissingIsPure, NoUnboundCall
<1>4. LibcOrMissing'
  BY <1>1, <1>2 DEF TypeInv, TypeOK, GuardInv, LibcOrMissing
<1>5. TagsUsed' /\ GuardMeansLoader'
  BY <1>1, <1>2 DEF TypeInv, TypeOK, GuardInv, TagsUsed, GuardMeansLoader
<1>6. PlanBinds'
  BY <1>1 DEF TypeInv, TypeOK, GuardInv, PlanBinds, Bindable
<1>7. LoaderBinds'
  BY <1>1, <1>2, LoaderBindsStep DEF GuardInv
<1> QED BY <1>3, <1>4, <1>5, <1>6, <1>7 DEF GuardInv

\* execve of the loader with an image it binds.
LEMMA ExecveGuard ==
  ASSUME TypeInv, GuardInv, NEW p \in Pids, pc[p] \in {"exec", "clone"}, Execve(p)
  PROVE  GuardInv'
<1> DEFINE m == Fresh("loader", plan[p].image, plan[p].envp, Binds(plan[p].image))
<1>1. /\ host' = host /\ used' = used /\ pc' = [pc EXCEPT ![p] = "load"]
      /\ mem' = [mem EXCEPT ![p] = m] /\ plan' = [plan EXCEPT ![p] = NoPlan]
      /\ status' = status
  BY DEF Execve, pids
<1>2. /\ m.exe = "loader" /\ m.argv0 = plan[p].image /\ m.env = plan[p].envp
      /\ m.bound = Binds(plan[p].image) /\ NoPlan.envp = {}
  BY DEF Fresh, NoPlan
<1>3. Bindable(plan[p].image)
  BY DEF GuardInv, PlanBinds
<1> HIDE DEF m
<1>4. Unused' /\ LibcOrMissing' /\ MissingIsPure' /\ NoUnboundCall'
  BY <1>1 DEF TypeInv, TypeOK, GuardInv, Unused, LibcOrMissing, MissingIsPure,
              NoUnboundCall
<1>5. TagsUsed' /\ GuardMeansLoader'
  BY <1>1, <1>2 DEF TypeInv, TypeOK, GuardInv, TagsUsed, GuardMeansLoader
<1>6. PlanBinds'
  BY <1>1 DEF TypeInv, TypeOK, GuardInv, PlanBinds, Bindable
<1>7. LoaderBinds'
  BY <1>1, <1>2, <1>3 DEF TypeInv, TypeOK, GuardInv, LoaderBinds, Bindable, Binds
<1> QED BY <1>4, <1>5, <1>6, <1>7 DEF GuardInv

LEMMA GuardInit == Init => GuardInv
  BY DEF Init, GuardInv, Unused, TagsUsed, GuardMeansLoader, PlanBinds, LoaderBinds,
         LibcOrMissing, MissingIsPure, NoUnboundCall, NoMemory, NoPlan, Fresh

\* One's own guard is the proof of having come through the loader.
LEMMA ScanGuard ==
  ASSUME TypeInv, GuardInv, NEW p \in Pids, Scan(p)
  PROVE  GuardInv'
<1>1. pc[p] = "scan"
  BY DEF Scan, ScanFails, ScanProbe, ScanGuarded, ScanFirst
<1>2. CASE ScanFails(p)
  BY <1>1, <1>2, ReturnGuard DEF ScanFails
<1>3. CASE ScanProbe(p)
  BY <1>1, <1>3, EndGuard DEF ScanProbe, Endings
<1>4. CASE ScanGuarded(p)
  <2>1. PICK x \in mem[p].env : x.key = "guard" /\ x.pid = p
    BY <1>4 DEF ScanGuarded, Guarded, Tagged
  <2>2. mem[p].exe = "loader"
    BY <2>1 DEF GuardInv, GuardMeansLoader
  <2> QED BY <1>1, <1>4, <2>2, ReturnGuard DEF ScanGuarded
<1>5. CASE ScanFirst(p)
  <2>1. /\ host' = host /\ used' = used /\ mem' = mem /\ status' = status
        /\ pc' = [pc EXCEPT ![p] = "resolve"]
        /\ plan' = [plan EXCEPT ![p].real = ParentExe(p)]
    BY <1>5 DEF ScanFirst, Goto, pids
  <2>2. \A q \in Pids : plan'[q].envp = plan[q].envp /\ plan'[q].image = plan[q].image
    BY <2>1 DEF TypeInv, TypeOK, Plan
  <2>3. Unused' /\ LibcOrMissing' /\ MissingIsPure' /\ NoUnboundCall'
    BY <1>1, <2>1 DEF TypeInv, TypeOK, GuardInv, Unused, LibcOrMissing, MissingIsPure,
                      NoUnboundCall
  <2>4. TagsUsed' /\ GuardMeansLoader'
    BY <2>1, <2>2 DEF GuardInv, TagsUsed, GuardMeansLoader
  <2>5. PlanBinds' /\ LoaderBinds'
    BY <1>1, <2>1, <2>2 DEF TypeInv, TypeOK, GuardInv, PlanBinds, LoaderBinds, Bindable, Binds
  <2> QED BY <2>3, <2>4, <2>5 DEF GuardInv
<1> QED BY <1>2, <1>3, <1>4, <1>5 DEF Scan

\* What the bridge decides to run is something the loader binds.
LEMMA ResolveGuard ==
  ASSUME TypeInv, GuardInv, GuardIsReliable, NEW p \in Pids, Resolve(p)
  PROVE  GuardInv'
<1>1. pc[p] = "resolve" /\ p \in used
  BY DEF Resolve, ResolveFails, ResolveByHand, ResolvePlan, GuardInv, Unused
<1>2. CASE ResolveFails(p)
  BY <1>1, <1>2, ReturnGuard DEF ResolveFails
<1>3. CASE ResolveByHand(p)
  <2>1. mem[p].exe = "loader"
    BY <1>3 DEF ResolveByHand, Readlink
  <2> QED BY <1>1, <1>3, <2>1, ReturnGuard DEF ResolveByHand
<1>4. CASE ResolvePlan(p)
  <2>1. PICK link \in Readlink(p) \ {"loader"}, copied \in MemfdCopy(p) :
          plan' = [plan EXCEPT ![p] =
                    [real |-> RealExe(p, link), image |-> ExeToRun(link, copied),
                     envp |-> Envp(p, RealExe(p, link)), probe |-> NoPid]]
    BY <1>4 DEF ResolvePlan
  <2>2. Bindable(ExeToRun(link, copied))
    <3>1. host.loader # "none"
      BY <1>4 DEF ResolvePlan
    <3>2. CASE host.loader = "glibc" /\ mem[p].exe # "loader"
      <4>1. copied
        BY <3>2 DEF MemfdCopy, GuardIsReliable
      <4> QED BY <3>1, <4>1 DEF ExeToRun, Bindable
    <3>3. CASE host.loader = "glibc" /\ mem[p].exe = "loader"
      <4>1. link = "none" /\ ~copied
        BY <3>3 DEF Readlink, MemfdCopy
      <4> QED BY <3>1, <4>1 DEF ExeToRun, Bindable
    <3> QED BY <3>1, <3>2, <3>3 DEF Bindable
  <2>3. \A x \in Envp(p, RealExe(p, link)) : x.pid \in used
    BY <1>1 DEF Envp, Tag, GuardInv, TagsUsed
  <2>4. /\ host' = host /\ used' = used /\ mem' = mem /\ status' = status
        /\ pc' = [pc EXCEPT ![p] = "launch"]
    BY <1>4 DEF ResolvePlan, Goto, pids
  <2>5. /\ \A q \in Pids : q # p => plan'[q] = plan[q]
        /\ plan'[p].image = ExeToRun(link, copied)
        /\ plan'[p].envp = Envp(p, RealExe(p, link))
    BY <2>1 DEF TypeInv, TypeOK
  <2>6. Unused' /\ LibcOrMissing' /\ MissingIsPure' /\ NoUnboundCall'
    BY <1>1, <2>4 DEF TypeInv, TypeOK, GuardInv, Unused, LibcOrMissing, MissingIsPure,
                      NoUnboundCall
  <2>7. TagsUsed' /\ GuardMeansLoader'
    BY <2>3, <2>4, <2>5 DEF GuardInv, TagsUsed, GuardMeansLoader
  <2>8. PlanBinds'
    BY <2>2, <2>4, <2>5 DEF TypeInv, TypeOK, GuardInv, PlanBinds, Bindable
  <2>9. LoaderBinds'
    BY <2>4 DEF GuardInv, LoaderBinds, Bindable, Binds
  <2> QED BY <2>6, <2>7, <2>8, <2>9 DEF GuardInv
<1> QED BY <1>2, <1>3, <1>4 DEF Resolve

\* The probe child has a new pid, its parent's memory and its parent's plan.
LEMMA ForkGuard ==
  ASSUME TypeInv, GuardInv, ~PidReuse, NEW p \in Pids, ForkProbe(p)
  PROVE  GuardInv'
<1>1. PICK c \in Free :
        /\ used' = used \cup {c}
        /\ pc' = [pc EXCEPT ![p] = "wait", ![c] = "clone"]
        /\ parent' = [parent EXCEPT ![c] = p]
        /\ mem' = [mem EXCEPT ![c] = mem[p]]
        /\ plan' = [plan EXCEPT ![p].probe = c,
                               ![c] = [plan[p] EXCEPT !.envp = @ \cup {Tag("probe", p, "1")}]]
        /\ status' = [status EXCEPT ![c] = "none"]
        /\ hist' = [hist EXCEPT ![c] = [hist[p] EXCEPT !.role = "probe"]]
  BY DEF ForkProbe
<1>2. c \in Pids /\ c \notin used /\ pc[c] = "free" /\ pc[p] = "launch" /\ host' = host
  BY DEF ForkProbe, Free
<1>3. p # c /\ p \in used
  BY <1>2 DEF GuardInv, Unused
<1>4. /\ \A q \in Pids \ {c} : mem'[q] = mem[q] /\ plan'[q].image = plan[q].image
                                /\ plan'[q].envp = plan[q].envp
      /\ mem'[c] = mem[p] /\ plan'[c].image = plan[p].image
      /\ plan'[c].envp = plan[p].envp \cup {Tag("probe", p, "1")}
  BY <1>1, <1>2, <1>3 DEF TypeInv, TypeOK, Plan
<1>5. /\ \A q \in Pids \ {p, c} : pc'[q] = pc[q]
      /\ pc'[p] = "wait" /\ pc'[c] = "clone"
  BY <1>1, <1>2, <1>3 DEF TypeInv, TypeOK
<1>6. Unused' /\ LibcOrMissing' /\ MissingIsPure' /\ NoUnboundCall'
  BY <1>1, <1>2, <1>3, <1>4, <1>5 DEF TypeInv, TypeOK, GuardInv, Unused, LibcOrMissing,
              MissingIsPure, NoUnboundCall
<1>7. TagsUsed'
  <2>1. Tag("probe", p, "1").pid = p
    BY DEF Tag
  <2>2. \A x \in mem[p].env \cup plan[p].envp : x.pid \in used
    BY DEF GuardInv, TagsUsed
  <2>3. \A x \in mem'[c].env \cup plan'[c].envp : x.pid \in used'
    BY <1>1, <1>3, <1>4, <2>1, <2>2
  <2>4. \A q \in Pids \ {c} : \A x \in mem'[q].env \cup plan'[q].envp : x.pid \in used'
    BY <1>1, <1>4 DEF GuardInv, TagsUsed
  <2> QED BY <2>3, <2>4 DEF TagsUsed
<1>8. GuardMeansLoader'
  BY <1>2, <1>4 DEF GuardInv, TagsUsed, GuardMeansLoader
<1>9. PlanBinds'
  BY <1>2, <1>4, <1>5 DEF GuardInv, PlanBinds, Bindable
<1>10. LoaderBinds'
  BY <1>2, <1>4, LoaderBindsStep DEF GuardInv
<1> QED BY <1>6, <1>7, <1>8, <1>9, <1>10 DEF GuardInv

\* After the probe: execve, or on without a libc and knowing it.
LEMMA WaitGuard ==
  ASSUME TypeInv, GuardInv, NEW p \in Pids, WaitProbe(p)
  PROVE  GuardInv'
<1> DEFINE c == plan[p].probe
           good == status[c] = "zero"
<1>1. /\ pc[p] = "wait" /\ pc[c] = "dead"
      /\ pc' = [pc EXCEPT ![c] = "free", ![p] = IF good THEN "exec" ELSE "init"]
      /\ mem' = [mem EXCEPT ![p].missing = ~good]
      /\ plan' = [plan EXCEPT ![p] = IF good THEN [@ EXCEPT !.probe = NoPid] ELSE NoPlan]
      /\ status' = [status EXCEPT ![c] = "none"]
      /\ host' = host /\ used' = used
  BY DEF WaitProbe
<1>2. /\ \A q \in Pids : q # p => mem'[q] = mem[q]
      /\ \A q \in Pids : /\ mem'[q].exe = mem[q].exe /\ mem'[q].env = mem[q].env
                         /\ mem'[q].argv0 = mem[q].argv0 /\ mem'[q].bound = mem[q].bound
      /\ ~good => mem'[p].missing
  <2>1. PICK b \in BOOLEAN : b = (~good)
    OBVIOUS
  <2>2. PICK m \in Memory : m = mem[p]
    BY DEF TypeInv, TypeOK
  <2>3. PICK n : n = [m EXCEPT !.missing = b]
    OBVIOUS
  <2>4. mem'[p] = n /\ \A q \in Pids : q # p => mem'[q] = mem[q]
    BY <1>1, <2>1, <2>2, <2>3 DEF TypeInv, TypeOK
  <2>5. /\ n.missing = b /\ n.exe = m.exe /\ n.env = m.env /\ n.argv0 = m.argv0
        /\ n.bound = m.bound
    BY <2>3, MissingSet
  <2> HIDE DEF good
  <2> QED BY <2>1, <2>2, <2>4, <2>5
<1>3. /\ \A q \in Pids : q # p => plan'[q] = plan[q] /\ (pc'[q] = pc[q] \/ pc'[q] = "free")
      /\ good => /\ pc'[p] = "exec" /\ plan'[p].image = plan[p].image
                 /\ plan'[p].envp = plan[p].envp
      /\ ~good => pc'[p] = "init" /\ plan'[p].envp = {}
  <2>1. pc \in [Pids -> PCs] /\ plan \in [Pids -> Plan] /\ c # p
    BY <1>1 DEF TypeInv, TypeOK
  <2>2. PICK g \in BOOLEAN : g = good
    OBVIOUS
  <2>3. PICK x \in Plan : x = plan[p]
    BY <2>1
  <2>4. PICK y : y = [x EXCEPT !.probe = NoPid]
    OBVIOUS
  <2>5. y.image = x.image /\ y.envp = x.envp /\ NoPlan.envp = {}
    BY <2>4 DEF Plan, NoPlan
  <2>6. /\ pc'[p] = (IF g THEN "exec" ELSE "init")
        /\ \A q \in Pids : q # p => pc'[q] = pc[q] \/ pc'[q] = "free"
    BY <1>1, <2>1, <2>2
  <2>7. /\ plan'[p] = (IF g THEN y ELSE NoPlan)
        /\ \A q \in Pids : q # p => plan'[q] = plan[q]
    BY <1>1, <2>1, <2>2, <2>3, <2>4
  <2> HIDE DEF good
  <2> QED BY <2>2, <2>3, <2>5, <2>6, <2>7
<1> HIDE DEF good
<1>4. Unused'
  BY <1>1, <1>3 DEF GuardInv, Unused
<1>5. LibcOrMissing' /\ MissingIsPure'
  BY <1>2, <1>3 DEF GuardInv, LibcOrMissing, MissingIsPure
<1>6. NoUnboundCall'
  BY <1>1 DEF TypeInv, TypeOK, GuardInv, NoUnboundCall
<1>7. TagsUsed' /\ GuardMeansLoader'
  BY <1>1, <1>2, <1>3 DEF GuardInv, TagsUsed, GuardMeansLoader
<1>8. PlanBinds'
  BY <1>1, <1>3 DEF GuardInv, PlanBinds, Bindable
<1>9. LoaderBinds'
  BY <1>1, <1>2, LoaderBindsStep DEF GuardInv
<1> QED BY <1>4, <1>5, <1>6, <1>7, <1>8, <1>9 DEF GuardInv

\* x_cgo_init without a libc gives up every hook that calls it.
LEMMA MissingGuard ==
  ASSUME TypeInv, GuardInv, NEW p \in Pids, CgoInitMissing(p)
  PROVE  GuardInv'
<1> DEFINE half == [mem EXCEPT ![p].iscgo = FALSE]
<1>1. half \in [Pids -> Memory]
  BY FlagSet DEF TypeInv, TypeOK
<1>2. /\ mem' = [half EXCEPT ![p].hooks = FALSE] /\ pc[p] = "init" /\ mem[p].missing
      /\ host' = host /\ used' = used /\ plan' = plan /\ status' = status
      /\ pc' = [pc EXCEPT ![p] = "main"]
  BY DEF CgoInitMissing, Goto, pids
<1>3. /\ \A q \in Pids : q # p => half[q] = mem[q]
      /\ half[p] = [mem[p] EXCEPT !.iscgo = FALSE]
  BY DEF TypeInv, TypeOK
<1>4. ~half[p].iscgo /\ half[p].missing /\ half[p].exe = mem[p].exe /\ half[p].env = mem[p].env
      /\ half[p].argv0 = mem[p].argv0 /\ half[p].bound = mem[p].bound
  BY <1>2, <1>3 DEF TypeInv, TypeOK, Memory
<1> HIDE DEF half
<1>5. /\ \A q \in Pids : q # p => mem'[q] = mem[q]
      /\ ~mem'[p].iscgo /\ ~mem'[p].hooks /\ mem'[p].missing
      /\ mem'[p].exe = mem[p].exe /\ mem'[p].env = mem[p].env
      /\ mem'[p].argv0 = mem[p].argv0 /\ mem'[p].bound = mem[p].bound
  BY <1>1, <1>2, <1>3, <1>4 DEF Memory
<1>6. \A q \in Pids : q # p => pc'[q] = pc[q]
  BY <1>2 DEF TypeInv, TypeOK
<1>7. Unused' /\ LibcOrMissing' /\ MissingIsPure' /\ NoUnboundCall'
  BY <1>2, <1>5, <1>6 DEF TypeInv, TypeOK, GuardInv, Unused, LibcOrMissing, MissingIsPure,
              NoUnboundCall
<1>8. TagsUsed' /\ GuardMeansLoader'
  BY <1>2, <1>5 DEF GuardInv, TagsUsed, GuardMeansLoader
<1>9. PlanBinds'
  BY <1>2, <1>6 DEF TypeInv, TypeOK, GuardInv, PlanBinds, Bindable
<1>10. LoaderBinds'
  BY <1>2, <1>5, LoaderBindsStep DEF GuardInv
<1> QED BY <1>7, <1>8, <1>9, <1>10 DEF GuardInv

\* A program starts a copy: what it passes on is tagged with used pids, and
\* what it starts through the loader by hand is what it runs itself.
LEMMA SpawnGuard ==
  ASSUME TypeInv, GuardInv, ~PidReuse, NEW p \in Pids, NEW c \in Free, NEW way \in Ways,
         Spawn(p, c, way)
  PROVE  GuardInv'
<1>1. pc[p] \in {"main", "foreign"} /\ (pc[p] = "main" \/ way = "file")
  BY DEF Spawn
<1>2. mem[p].argv0 \in {"file", "memfd"} /\ mem[p].env \in SUBSET Entry
  BY <1>1, RunningImage
<1>3. \A x \in mem[p].env : x.pid \in used
  BY DEF GuardInv, TagsUsed
<1>4. CASE way = "byhand"
  <2>1. ~mem[p].missing /\ Born(c, p, mem[p].argv0, TRUE, mem[p].env, "program")
    BY <1>4 DEF Spawn
  <2>2. Bindable(mem[p].argv0)
    BY <1>1, <1>4, <2>1, BoundAfterBridge
  <2> QED BY <1>2, <1>3, <2>1, <2>2, BornGuard DEF Roles
<1>5. CASE way # "byhand"
  <2>1. PICK img \in {"file", "memfd"}, r \in Roles : Born(c, p, img, FALSE, mem[p].env, r)
    BY <1>2, <1>5 DEF Spawn, Roles
  <2> QED BY <1>2, <1>3, <2>1, BornGuard
<1> QED BY <1>4, <1>5

LEMMA GuardStep == GuardIsReliable /\ TypeInv /\ GuardInv /\ [Next]_vars => GuardInv'
<1> SUFFICES ASSUME GuardIsReliable, TypeInv, GuardInv, [Next]_vars PROVE GuardInv'
  OBVIOUS
<1>1. ASSUME NEW c \in Free, Launch(c) PROVE GuardInv'
  BY <1>1, BornGuard DEF Launch, Roles, GuardIsReliable
<1>2. ASSUME NEW p \in Pids, Startup(p) PROVE GuardInv'
  <2>1. CASE Load(p)
    <3>1. pc[p] = "load"
      BY <2>1 DEF Load
    <3>2. CASE mem[p].argv0 = "bad"
      BY <2>1, <3>1, <3>2, EndGuard DEF Load, Endings
    <3>3. CASE mem[p].argv0 # "bad" /\ host.preload /\ host.aborts
      BY <2>1, <3>1, <3>3, EndGuard DEF Load, Endings
    <3>4. CASE mem[p].argv0 # "bad" /\ ~(host.preload /\ host.aborts)
      BY <2>1, <3>1, <3>4, GotoGuard DEF Load, PCs
    <3> QED BY <3>2, <3>3, <3>4
  <2>2. CASE SkipProbe(p) \/ WaitFails(p)
    <3>1. pc[p] \in {"launch", "wait"} /\ Goto(p, "exec") /\ UNCHANGED <<mem, plan>>
      BY <2>2 DEF SkipProbe, WaitFails
    <3>2. Bindable(plan[p].image)
      BY <3>1 DEF GuardInv, PlanBinds
    <3> QED BY <3>1, <3>2, GotoGuard DEF PCs
  <2>3. CASE ProbeChild(p)
    BY <2>3, ExecveGuard, EndGuard DEF ProbeChild, Endings
  <2>4. CASE Reexec(p)
    BY <2>4, ExecveGuard, ReturnGuard DEF Reexec
  <2>5. CASE CgoInitMalloc(p)
    BY <2>5, CallLibcGuard DEF CgoInitMalloc
  <2> QED BY <1>2, <2>1, <2>2, <2>3, <2>4, <2>5, ScanGuard, ResolveGuard, ForkGuard,
             WaitGuard, MissingGuard
          DEF Startup, Progress, GuardIsReliable
<1>3. ASSUME NEW p \in Pids, Program(p) PROVE GuardInv'
  <2>1. CASE CallFFI(p)
    BY <2>1, CallLibcGuard DEF CallFFI
  <2>2. CASE Setenv(p) \/ NewThread(p)
    <3>1. pc[p] = "main" /\ CallLibc(p) /\ (mem[p].hooks \/ mem[p].iscgo)
      BY <2>2 DEF Setenv, NewThread
    <3>2. ~mem[p].missing
      BY <3>1 DEF GuardInv, MissingIsPure
    <3> QED BY <3>1, <3>2, CallLibcGuard
  <2>3. CASE Exit(p)
    BY <2>3, EndGuard DEF Exit, Endings
  <2>4. ~SelfExec(p)
    BY DEF SelfExec, GuardIsReliable
  <2> QED BY <1>3, <2>1, <2>2, <2>3, <2>4, SpawnGuard DEF Program, GuardIsReliable
<1>4. ASSUME NEW p \in Pids, Kill(p) PROVE GuardInv'
  BY <1>4, EndGuard DEF Kill, Endings
<1>5. \A p \in Pids : ~Reap(p)
  BY DEF Reap, GuardIsReliable
<1>6. CASE UNCHANGED vars
  BY <1>6 DEF vars, GuardInv, Unused, TagsUsed, GuardMeansLoader, PlanBinds, LoaderBinds,
              LibcOrMissing, MissingIsPure, NoUnboundCall, Bindable, Binds
<1> QED BY <1>1, <1>2, <1>3, <1>4, <1>5, <1>6 DEF Next

\* No process ever jumps to an unbound libc symbol, whatever else fails and
\* whoever is killed, as long as the guard variable can be believed: the bridge
\* either gets a libc or records hostlibc.Missing, and every user of libc heeds
\* the record (reexecUniversal, x_cgo_init, dropLibcEnvHooks).
THEOREM NoUnboundCallHolds == GuardIsReliable => (Spec => []NoUnboundCall)
<1> SUFFICES ASSUME GuardIsReliable PROVE Spec => []NoUnboundCall
  OBVIOUS
<1>1. TypeInv /\ GuardInv /\ [Next]_vars => (TypeInv /\ GuardInv)'
  BY TypeStep, GuardStep
<1>2. TypeInv /\ GuardInv => NoUnboundCall
  BY DEF GuardInv
<1> QED BY TypeInit, GuardInit, <1>1, <1>2, PTL DEF Spec
--------------------------------------------------------------------------------
(* UniversalBridge implements StartupContract: the initial states map to     *)
(* initial states, and every step to a step of the contract or a stutter.    *)


\* What the phase of a process depends on.
Seen(q) == <<pc[q], IsProgram(q), status[q], mem[q].missing, mem[q].bound>>

\* The phase of a process, case by case.
LEMMA PhaseCases ==
  ASSUME TypeInv, GuardInv, NEW q \in Pids
  PROVE  /\ pc[q] \in {"free", "dead"} \/ ~IsProgram(q) => Phase[q] = "absent"
         /\ IsProgram(q) /\ pc[q] \notin {"free", "dead", "main"} => Phase[q] = "starting"
         /\ IsProgram(q) /\ pc[q] = "main" => Phase[q] = IF mem[q].missing THEN "pure" ELSE "ffi"
<1>1. status[q] # "fault"
  BY DEF GuardInv, NoUnboundCall
<1>2. pc[q] = "main" /\ ~mem[q].missing => mem[q].bound
  BY BoundAfterBridge
<1> QED BY <1>1, <1>2 DEF Phase

\* The phases are a function of the pids, and so they are after a step.
LEMMA PhaseIsFunction == Phase = [q \in Pids |-> Phase[q]] /\ Phase' = [q \in Pids |-> Phase'[q]]
  BY DEF Phase

\* Nobody but p and pids of no account changes phase: a step of the contract, or none.
LEMMA OneStep ==
  ASSUME NEW p \in Pids, \A q \in Pids \ {p} : Phase'[q] = Phase[q],
         \/ Phase'[p] = Phase[p]
         \/ Phase[p] = "absent" /\ Phase'[p] = "starting"
         \/ Phase[p] = "starting" /\ Phase'[p] \in {"ffi", "pure"}
         \/ Phase[p] # "absent" /\ Phase'[p] = "absent"
  PROVE  [Contract!Next]_Phase
<1>1. Phase' = [Phase EXCEPT ![p] = Phase'[p]]
  BY PhaseIsFunction
<1>2. CASE Phase'[p] = Phase[p]
  BY <1>1, <1>2, PhaseIsFunction
<1>3. CASE Phase'[p] # Phase[p]
  BY <1>1, <1>3 DEF Contract!Next, Contract!Start, Contract!Settle, Contract!Stop
<1> QED BY <1>2, <1>3

LEMMA SeenIsPhase ==
  ASSUME NEW q \in Pids, Seen(q)' = Seen(q)
  PROVE  Phase'[q] = Phase[q]
  BY DEF Seen, Phase
--------------------------------------------------------------------------------
\* A process ends, not by a fault: it stops.
LEMMA EndStops ==
  ASSUME TypeInv, GuardInv, GuardInv', TypeInv', NEW p \in Pids, NEW how, End(p, how)
  PROVE  [Contract!Next]_Phase
<1>1. pc' = [pc EXCEPT ![p] = "dead"] /\ hist' = hist /\ mem' = [mem EXCEPT ![p] = NoMemory]
      /\ status' = [status EXCEPT ![p] = how]
  BY DEF End
<1>2. \A q \in Pids \ {p} : Seen(q)' = Seen(q)
  BY <1>1 DEF TypeInv, TypeOK, Seen, IsProgram
<1>3. Phase'[p] = "absent"
  <2>1. pc'[p] = "dead" /\ status'[p] # "fault"
    BY <1>1 DEF TypeInv, TypeOK, GuardInv, NoUnboundCall
  <2> QED BY <2>1 DEF Phase
<1> QED BY <1>2, <1>3, SeenIsPhase, OneStep

\* A process on its way to main stays on its way.
LEMMA StillStarting ==
  ASSUME NEW p \in Pids, hist'[p] = hist[p],
         pc[p] \notin {"free", "dead", "main"}, pc'[p] \notin {"free", "dead", "main"}
  PROVE  Phase'[p] = Phase[p]
  BY DEF Phase, IsProgram

\* Only p moves, and it stays on its way.
LEMMA MoveStutters ==
  ASSUME NEW p \in Pids, hist' = hist,
         pc[p] \notin {"free", "dead", "main"}, pc'[p] \notin {"free", "dead", "main"},
         \A q \in Pids \ {p} : pc'[q] = pc[q] /\ status'[q] = status[q] /\ mem'[q] = mem[q]
  PROVE  [Contract!Next]_Phase
<1>1. \A q \in Pids \ {p} : Phase'[q] = Phase[q]
  BY SeenIsPhase DEF Seen, IsProgram
<1> QED BY <1>1, StillStarting, OneStep

\* p reaches main, with a libc or with the knowledge that there is none.
LEMMA MainSettles ==
  ASSUME NEW p \in Pids, hist' = hist,
         pc[p] = "init", pc'[p] = "main", mem'[p].missing \/ mem'[p].bound,
         \A q \in Pids \ {p} : pc'[q] = pc[q] /\ status'[q] = status[q] /\ mem'[q] = mem[q]
  PROVE  [Contract!Next]_Phase
<1>1. \A q \in Pids \ {p} : Phase'[q] = Phase[q]
  BY SeenIsPhase DEF Seen, IsProgram
<1>2. CASE IsProgram(p)
  <2>1. Phase[p] = "starting" /\ Phase'[p] \in {"ffi", "pure"}
    BY <1>2 DEF Phase, IsProgram
  <2> QED BY <1>1, <2>1, OneStep
<1>3. CASE ~IsProgram(p)
  <2>1. Phase[p] = "absent" /\ Phase'[p] = "absent"
    BY <1>3 DEF Phase, IsProgram
  <2> QED BY <1>1, <2>1, OneStep
<1> QED BY <1>2, <1>3

\* A program that is in main calls a libc it has: nothing changes.
LEMMA CallStutters ==
  ASSUME TypeInv, GuardInv, NEW p \in Pids, pc[p] = "main", ~mem[p].missing, CallLibc(p)
  PROVE  [Contract!Next]_Phase
<1>1. mem[p].bound
  BY BoundAfterBridge
<1>2. pc' = pc /\ mem' = mem /\ status' = status /\ hist' = hist
  BY <1>1 DEF CallLibc, Goto, TypeInv, TypeOK
<1>3. \A q \in Pids : Phase'[q] = Phase[q]
  BY <1>2, SeenIsPhase DEF Seen, IsProgram
<1> QED BY <1>3, OneStep

\* A process is born on a pid nobody has: a program starts, anything else is
\* none of the contract's business.
LEMMA BornStarts ==
  ASSUME TypeInv, GuardInv, NEW c \in Free, NEW by, NEW img, NEW byLoader, NEW e,
         NEW r \in {"program", "foreign"}, Born(c, by, img, byLoader, e, r)
  PROVE  [Contract!Next]_Phase
<1>1. c \in Pids /\ pc[c] = "free"
  BY DEF Free
<1>2. \A q \in Pids \ {c} : Phase'[q] = Phase[q]
  BY SeenIsPhase DEF Born, TypeInv, TypeOK, Seen, IsProgram
<1>3. Phase[c] = "absent"
  BY <1>1 DEF Phase
<1>4. pc'[c] \in {"scan", "load", "foreign"} /\ hist'[c].role = r
  BY <1>1 DEF Born, TypeInv, TypeOK
<1>5. CASE r = "program"
  <2>1. Phase'[c] = "starting"
    BY <1>1, <1>4, <1>5 DEF Phase, IsProgram
  <2> QED BY <1>1, <1>2, <1>3, <2>1, OneStep
<1>6. CASE r = "foreign"
  <2>1. Phase'[c] = "absent"
    BY <1>1, <1>4, <1>6 DEF Phase, IsProgram
  <2> QED BY <1>1, <1>2, <1>3, <2>1, OneStep
<1> QED BY <1>5, <1>6
--------------------------------------------------------------------------------
(* The actions.                                                             *)

\* The bridge returns: the process is still starting.
LEMMA ReturnStutters ==
  ASSUME TypeInv, NEW p \in Pids, pc[p] \in {"scan", "resolve", "exec"},
         NEW hasLibc, Return(p, hasLibc)
  PROVE  [Contract!Next]_Phase
<1>1. /\ hist' = hist /\ pc'[p] = "init"
      /\ \A q \in Pids \ {p} : pc'[q] = pc[q] /\ status'[q] = status[q] /\ mem'[q] = mem[q]
  BY DEF Return, Goto, TypeInv, TypeOK
<1> QED BY <1>1, MoveStutters

LEMMA GotoStutters ==
  ASSUME TypeInv, NEW p \in Pids, pc[p] \in Starting, NEW where \in Starting,
         Goto(p, where), mem' = mem
  PROVE  [Contract!Next]_Phase
<1>1. /\ hist' = hist /\ pc'[p] = where
      /\ \A q \in Pids \ {p} : pc'[q] = pc[q] /\ status'[q] = status[q] /\ mem'[q] = mem[q]
  BY DEF Goto, TypeInv, TypeOK
<1> QED BY <1>1, MoveStutters DEF Starting

\* execve: the same process, on its way again.
LEMMA ExecveStutters ==
  ASSUME TypeInv, NEW p \in Pids, pc[p] \in {"exec", "clone"}, Execve(p)
  PROVE  [Contract!Next]_Phase
<1>1. /\ pc'[p] = "load" /\ hist'[p].role = hist[p].role
      /\ \A q \in Pids \ {p} : Seen(q)' = Seen(q)
  BY DEF Execve, TypeInv, TypeOK, Seen, IsProgram, History
<1>2. Phase'[p] = Phase[p]
  BY <1>1 DEF Phase, IsProgram
<1> QED BY <1>1, <1>2, SeenIsPhase, OneStep

\* A probe comes and goes without being a process of the contract.
LEMMA ForkStutters ==
  ASSUME TypeInv, GuardInv, NEW p \in Pids, ForkProbe(p)
  PROVE  [Contract!Next]_Phase
<1>1. PICK c \in Free :
        /\ pc' = [pc EXCEPT ![p] = "wait", ![c] = "clone"]
        /\ mem' = [mem EXCEPT ![c] = mem[p]]
        /\ status' = [status EXCEPT ![c] = "none"]
        /\ hist' = [hist EXCEPT ![c] = [hist[p] EXCEPT !.role = "probe"]]
  BY DEF ForkProbe
<1>2. c \in Pids /\ pc[c] = "free" /\ pc[p] = "launch"
  BY DEF Free, ForkProbe
<1>3. \A q \in Pids \ {p, c} : Phase'[q] = Phase[q]
  BY <1>1, SeenIsPhase DEF TypeInv, TypeOK, Seen, IsProgram
<1>4. Phase'[p] = Phase[p]
  BY <1>1, <1>2, StillStarting DEF TypeInv, TypeOK
<1>5. Phase'[c] = Phase[c]
  <2>1. hist'[c].role = "probe"
    BY <1>1, <1>2 DEF TypeInv, TypeOK, History
  <2> QED BY <1>2, <2>1 DEF Phase, IsProgram
<1> QED BY <1>3, <1>4, <1>5, OneStep

LEMMA WaitStutters ==
  ASSUME TypeInv, GuardInv, NEW p \in Pids, WaitProbe(p)
  PROVE  [Contract!Next]_Phase
<1> DEFINE c == plan[p].probe
           good == status[c] = "zero"
<1>1. /\ pc[p] = "wait" /\ pc[c] = "dead"
      /\ pc' = [pc EXCEPT ![c] = "free", ![p] = IF good THEN "exec" ELSE "init"]
      /\ mem' = [mem EXCEPT ![p].missing = ~good]
      /\ hist' = [hist EXCEPT ![c] = NoHistory]
      /\ status' = [status EXCEPT ![c] = "none"]
  BY DEF WaitProbe
<1> HIDE DEF good
<1>2. \A q \in Pids \ {p} : q # c => Phase'[q] = Phase[q]
  BY <1>1, SeenIsPhase DEF TypeInv, TypeOK, Seen, IsProgram
<1>3. Phase'[p] = Phase[p]
  BY <1>1, StillStarting DEF TypeInv, TypeOK
<1>4. c \in Pids => Phase'[c] = Phase[c]
  <2> SUFFICES ASSUME c \in Pids PROVE Phase'[c] = Phase[c]
    OBVIOUS
  <2>1. Phase[c] = "absent"
    BY <1>1, PhaseCases
  <2>2. pc'[c] = "free"
    BY <1>1 DEF TypeInv, TypeOK
  <2>3. Phase'[c] = "absent"
    BY <2>2 DEF Phase
  <2> QED BY <2>1, <2>3
<1> QED BY <1>2, <1>3, <1>4, OneStep

\* x_cgo_init without a libc.
LEMMA MissingSettles ==
  ASSUME TypeInv, NEW p \in Pids, CgoInitMissing(p)
  PROVE  [Contract!Next]_Phase
<1> DEFINE half == [mem EXCEPT ![p].iscgo = FALSE]
<1>1. half \in [Pids -> Memory] /\ half[p].missing /\ \A q \in Pids \ {p} : half[q] = mem[q]
  BY DEF CgoInitMissing, TypeInv, TypeOK, Memory
<1>2. /\ mem' = [half EXCEPT ![p].hooks = FALSE] /\ pc[p] = "init"
      /\ pc' = [pc EXCEPT ![p] = "main"] /\ status' = status /\ hist' = hist
  BY DEF CgoInitMissing, Goto
<1> HIDE DEF half
<1>3. mem'[p].missing /\ \A q \in Pids \ {p} : mem'[q] = mem[q]
  BY <1>1, <1>2 DEF Memory
<1>4. pc'[p] = "main" /\ \A q \in Pids \ {p} : pc'[q] = pc[q] /\ status'[q] = status[q]
  BY <1>2 DEF TypeInv, TypeOK
<1> QED BY <1>2, <1>3, <1>4, MainSettles

\* x_cgo_init's malloc, with a libc.
LEMMA MallocSettles ==
  ASSUME TypeInv, GuardInv, NEW p \in Pids, CgoInitMalloc(p)
  PROVE  [Contract!Next]_Phase
<1>1. pc[p] = "init" /\ mem[p].bound /\ CallLibc(p)
  BY BoundAfterBridge DEF CgoInitMalloc
<1>2. pc' = [pc EXCEPT ![p] = "main"] /\ mem' = mem /\ status' = status /\ hist' = hist
  BY <1>1 DEF CallLibc, Goto
<1> QED BY <1>1, <1>2, MainSettles DEF TypeInv, TypeOK

\* Every step of the bridge is one of the contract, or changes no phase.
LEMMA StepMaps ==
  GuardIsReliable /\ TypeInv /\ GuardInv /\ [Next]_vars => [Contract!Next]_Phase
<1> SUFFICES ASSUME GuardIsReliable, TypeInv, GuardInv, [Next]_vars
             PROVE  [Contract!Next]_Phase
  OBVIOUS
<1>1. TypeInv' /\ GuardInv'
  BY TypeStep, GuardStep
<1>2. ASSUME NEW c \in Free, Launch(c) PROVE [Contract!Next]_Phase
  BY <1>2, BornStarts DEF Launch
<1>3. ASSUME NEW p \in Pids, Startup(p) PROVE [Contract!Next]_Phase
  <2>1. CASE Load(p)
    BY <1>1, <2>1, EndStops, GotoStutters DEF Load, Starting
  <2>2. CASE Scan(p)
    <3>1. CASE ScanFails(p) \/ ScanGuarded(p)
      BY <3>1, ReturnStutters DEF ScanFails, ScanGuarded
    <3>2. CASE ScanProbe(p)
      BY <1>1, <3>2, EndStops DEF ScanProbe
    <3>3. CASE ScanFirst(p)
      BY <3>3, GotoStutters DEF ScanFirst, Starting
    <3> QED BY <2>2, <3>1, <3>2, <3>3 DEF Scan
  <2>3. CASE Resolve(p)
    <3>1. CASE ResolveFails(p) \/ ResolveByHand(p)
      BY <3>1, ReturnStutters DEF ResolveFails, ResolveByHand
    <3>2. CASE ResolvePlan(p)
      BY <3>2, GotoStutters DEF ResolvePlan, Starting
    <3> QED BY <2>3, <3>1, <3>2 DEF Resolve
  <2>4. CASE SkipProbe(p) \/ WaitFails(p)
    BY <2>4, GotoStutters DEF SkipProbe, WaitFails, Starting
  <2>5. CASE ProbeChild(p)
    BY <1>1, <2>5, ExecveStutters, EndStops DEF ProbeChild
  <2>6. CASE Reexec(p)
    BY <2>6, ExecveStutters, ReturnStutters DEF Reexec
  <2> QED BY <1>3, <2>1, <2>2, <2>3, <2>4, <2>5, <2>6, ForkStutters, WaitStutters,
             MissingSettles, MallocSettles
          DEF Startup, Progress
<1>4. ASSUME NEW p \in Pids, Program(p) PROVE [Contract!Next]_Phase
  <2>1. CASE CallFFI(p)
    BY <2>1, CallStutters DEF CallFFI
  <2>2. CASE Setenv(p) \/ NewThread(p)
    <3>1. pc[p] = "main" /\ CallLibc(p) /\ (mem[p].hooks \/ mem[p].iscgo)
      BY <2>2 DEF Setenv, NewThread
    <3>2. ~mem[p].missing
      BY <3>1 DEF GuardInv, MissingIsPure
    <3> QED BY <3>1, <3>2, CallStutters
  <2>3. CASE Exit(p)
    BY <1>1, <2>3, EndStops DEF Exit
  <2>4. ASSUME NEW c \in Free, NEW way \in Ways, Spawn(p, c, way) PROVE [Contract!Next]_Phase
    BY <2>4, BornStarts DEF Spawn
  <2>5. ~SelfExec(p)
    BY DEF SelfExec, GuardIsReliable
  <2> QED BY <1>4, <2>1, <2>2, <2>3, <2>4, <2>5 DEF Program
<1>5. ASSUME NEW p \in Pids, Kill(p) PROVE [Contract!Next]_Phase
  BY <1>1, <1>5, EndStops DEF Kill
<1>6. \A p \in Pids : ~Reap(p)
  BY DEF Reap, GuardIsReliable
<1>7. CASE UNCHANGED vars
  BY <1>7 DEF vars, Phase, IsProgram
<1> QED BY <1>2, <1>3, <1>4, <1>5, <1>6, <1>7 DEF Next

\* Before anything is started nobody is there.
LEMMA InitMaps == Init => Contract!Init
  BY DEF Init, Contract!Init, Phase

\* start-up of a goffi_universal program (reexecUniversal, x_cgo_init) keeps the
\* contract: a process that starts settles once, on a libc it can call or on
\* having none, and keeps to that until it stops.
THEOREM ContractImplemented == GuardIsReliable => (Spec => ImplementsContract)
<1> SUFFICES ASSUME GuardIsReliable PROVE Spec => ImplementsContract
  OBVIOUS
<1>1. TypeInv /\ GuardInv /\ [Next]_vars => (TypeInv /\ GuardInv)'
  BY TypeStep, GuardStep
<1>2. TypeInv /\ GuardInv /\ [Next]_vars => [Contract!Next]_Phase
  BY StepMaps
<1> QED BY TypeInit, GuardInit, InitMaps, <1>1, <1>2, PTL
        DEF Spec, ImplementsContract, Contract!Spec
--------------------------------------------------------------------------------
(* The environment of a re-executed program.                                *)

\* An environment with the entries of p's own bridge and no other.
OwnEntries(p, e) == /\ Tag("guard", p, "1") \in e
                    /\ \A x \in e : x.pid = p /\ x.key # "probe"
                    /\ \A x, y \in e : x.key = y.key => x = y

\* What is to be the environment of a program, or is one's after a re-exec.
ProcOK(p) ==
  /\ pc[p] \in {"launch", "wait", "exec"} /\ IsProgram(p) => OwnEntries(p, plan[p].envp)
  /\ Alive(p) /\ IsProgram(p) /\ hist[p].reexecs > 0 => OwnEntries(p, mem[p].env)
  /\ pc[p] = "clone" => ~IsProgram(p)
EnvInv == TypeInv /\ \A p \in Pids : ProcOK(p)

\* Nothing ProcOK and OnceOK speak of changes for q.
Same(q) == pc'[q] = pc[q] /\ mem'[q] = mem[q] /\ plan'[q] = plan[q] /\ hist'[q] = hist[q]
Others(p) == \A q \in Pids \ {p} : Same(q)

LEMMA OthersOK ==
  ASSUME EnvInv, NEW p \in Pids, TypeInv', Others(p), ProcOK(p)'
  PROVE  EnvInv'
<1>1. ASSUME NEW q \in Pids \ {p} PROVE ProcOK(q)'
  BY <1>1 DEF EnvInv, ProcOK, Others, Same, IsProgram, Alive
<1> QED BY <1>1 DEF EnvInv

\* A process whose environment, plan and history stay, and which does not come
\* to a place of which more is asked.
LEMMA StaysOK ==
  ASSUME EnvInv, NEW p \in Pids, Alive(p), hist'[p] = hist[p], mem'[p].env = mem[p].env,
         \/ pc'[p] \notin {"launch", "wait", "exec", "clone"}
         \/ pc[p] \in {"launch", "wait", "exec"} /\ pc'[p] # "clone"
              /\ plan'[p].envp = plan[p].envp
  PROVE  ProcOK(p)'
  BY DEF EnvInv, ProcOK, IsProgram, Alive

\* A process that ends.
LEMMA EndOK ==
  ASSUME EnvInv, NEW p \in Pids, NEW how, End(p, how), TypeInv'
  PROVE  EnvInv'
<1>1. pc'[p] = "dead" /\ Others(p)
  BY DEF End, EnvInv, TypeInv, TypeOK, Others, Same
<1> QED BY <1>1, OthersOK DEF ProcOK, Alive

\* A process that is born has not been re-executed.
LEMMA BornOK ==
  ASSUME EnvInv, NEW c \in Pids, NEW by, NEW img, NEW byLoader, NEW e, NEW r,
         Born(c, by, img, byLoader, e, r), TypeInv'
  PROVE  EnvInv'
<1>1. /\ pc'[c] \in {"foreign", "scan", "load"} /\ hist'[c].reexecs = 0
      /\ Others(c)
  BY DEF Born, EnvInv, TypeInv, TypeOK, Others, Same
<1> QED BY <1>1, OthersOK DEF ProcOK, Alive

LEMMA GotoOK ==
  ASSUME EnvInv, NEW p \in Pids, Alive(p), NEW where \in PCs \ {"clone"}, Goto(p, where),
         UNCHANGED <<mem, plan>>, TypeInv',
         where \in {"launch", "wait", "exec"} => pc[p] \in {"launch", "wait", "exec"}
  PROVE  EnvInv'
<1>1. pc'[p] = where /\ hist'[p] = hist[p] /\ Others(p)
  BY DEF Goto, EnvInv, TypeInv, TypeOK, Others, Same
<1> QED BY <1>1, StaysOK, OthersOK

LEMMA ReturnOK ==
  ASSUME EnvInv, NEW p \in Pids, Alive(p), NEW hasLibc, Return(p, hasLibc), TypeInv'
  PROVE  EnvInv'
<1>1. /\ pc'[p] = "init" /\ hist'[p] = hist[p] /\ mem'[p].env = mem[p].env
      /\ Others(p)
  BY DEF Return, Goto, EnvInv, TypeInv, TypeOK, Memory, Others, Same
<1> QED BY <1>1, StaysOK, OthersOK

LEMMA CallLibcOK ==
  ASSUME EnvInv, NEW p \in Pids, pc[p] \in {"init", "main"}, CallLibc(p), TypeInv'
  PROVE  EnvInv'
  BY GotoOK, EndOK DEF CallLibc, Alive, PCs

\* The environment a re-exec is prepared with.
LEMMA EnvpIsOwn ==
  ASSUME TypeInv, NEW p \in Pids, NEW realExe
  PROVE  OwnEntries(p, Envp(p, realExe))
<1>1. \A x \in mem[p].env : IsBridgeVar(x)
  BY DEF TypeInv, TypeOK, Memory, Entry, IsBridgeVar
<1>2. {x \in mem[p].env : ~IsBridgeVar(x)} = {}
  BY <1>1
<1>3. \A x \in Envp(p, realExe) : x \in {Tag("guard", p, "1"), Tag("argv0", p, mem[p].argv0),
                                         Tag("exe", p, realExe)}
  BY <1>2 DEF Envp
<1>4. Tag("guard", p, "1") \in Envp(p, realExe)
  BY DEF Envp
<1> QED BY <1>3, <1>4 DEF OwnEntries, Tag

LEMMA ResolveOK ==
  ASSUME EnvInv, NEW p \in Pids, Resolve(p), TypeInv'
  PROVE  EnvInv'
<1>1. CASE ResolveFails(p) \/ ResolveByHand(p)
  BY <1>1, ReturnOK DEF ResolveFails, ResolveByHand, Alive
<1>2. CASE ResolvePlan(p)
  <2>1. PICK link \in Readlink(p) \ {"loader"}, copied \in MemfdCopy(p) :
          plan' = [plan EXCEPT ![p] =
                    [real |-> RealExe(p, link), image |-> ExeToRun(link, copied),
                     envp |-> Envp(p, RealExe(p, link)), probe |-> NoPid]]
    BY <1>2 DEF ResolvePlan
  <2>2. /\ pc[p] = "resolve" /\ pc'[p] = "launch" /\ mem' = mem /\ hist' = hist
        /\ Others(p) /\ plan'[p].envp = Envp(p, RealExe(p, link))
    BY <1>2, <2>1 DEF ResolvePlan, Goto, EnvInv, TypeInv, TypeOK, Others, Same
  <2>3. ProcOK(p)'
    BY <2>2, EnvpIsOwn DEF EnvInv, ProcOK, IsProgram, Alive, OwnEntries, Tag
  <2> QED BY <2>2, <2>3, OthersOK
<1> QED BY <1>1, <1>2 DEF Resolve

\* execve: the environment that was prepared is there.
LEMMA ExecveOK ==
  ASSUME EnvInv, NEW p \in Pids, pc[p] \in {"exec", "clone"}, Execve(p), TypeInv'
  PROVE  EnvInv'
<1>1. /\ pc'[p] = "load" /\ mem'[p].env = plan[p].envp /\ hist'[p].role = hist[p].role
      /\ Others(p)
  BY DEF Execve, Fresh, EnvInv, TypeInv, TypeOK, History, Others, Same
<1>2. IsProgram(p) => pc[p] = "exec" /\ OwnEntries(p, plan[p].envp)
  BY DEF EnvInv, ProcOK
<1>3. ProcOK(p)'
  BY <1>1, <1>2 DEF ProcOK, IsProgram
<1> QED BY <1>1, <1>3, OthersOK

LEMMA ForkOK ==
  ASSUME EnvInv, NEW p \in Pids, ForkProbe(p), TypeInv'
  PROVE  EnvInv'
<1>1. PICK c \in Free :
        /\ pc' = [pc EXCEPT ![p] = "wait", ![c] = "clone"]
        /\ mem' = [mem EXCEPT ![c] = mem[p]]
        /\ plan' = [plan EXCEPT ![p].probe = c,
                               ![c] = [plan[p] EXCEPT !.envp = @ \cup {Tag("probe", p, "1")}]]
        /\ hist' = [hist EXCEPT ![c] = [hist[p] EXCEPT !.role = "probe"]]
  BY DEF ForkProbe
<1>2. c \in Pids /\ pc[c] = "free" /\ pc[p] = "launch" /\ p # c
  BY DEF Free, ForkProbe
<1>3. ASSUME NEW q \in Pids \ {p, c} PROVE ProcOK(q)'
  <2>1. Same(q)
    BY <1>1 DEF EnvInv, TypeInv, TypeOK, Same
  <2> QED BY <2>1 DEF EnvInv, ProcOK, Same, IsProgram, Alive
<1>4. ProcOK(p)'
  <2>1. /\ hist'[p] = hist[p] /\ mem'[p] = mem[p] /\ pc'[p] = "wait"
        /\ plan'[p].envp = plan[p].envp
    BY <1>1, <1>2 DEF EnvInv, TypeInv, TypeOK, Plan
  <2> QED BY <1>2, <2>1, StaysOK DEF Alive
<1>5. ProcOK(c)'
  <2>1. hist'[c].role = "probe"
    BY <1>1, <1>2 DEF EnvInv, TypeInv, TypeOK, History
  <2> QED BY <2>1 DEF ProcOK, IsProgram
<1> QED BY <1>3, <1>4, <1>5 DEF EnvInv

LEMMA WaitOK ==
  ASSUME EnvInv, NEW p \in Pids, WaitProbe(p), TypeInv'
  PROVE  EnvInv'
<1>0. PICK c : c = plan[p].probe
  OBVIOUS
<1> DEFINE good == status[c] = "zero"
<1>1. /\ pc[p] = "wait" /\ pc[c] = "dead"
      /\ pc' = [pc EXCEPT ![c] = "free", ![p] = IF good THEN "exec" ELSE "init"]
      /\ mem' = [mem EXCEPT ![p].missing = ~good]
      /\ plan' = [plan EXCEPT ![p] = IF good THEN [@ EXCEPT !.probe = NoPid] ELSE NoPlan]
      /\ hist' = [hist EXCEPT ![c] = NoHistory]
  BY <1>0 DEF WaitProbe
<1> HIDE DEF good
<1>2. ASSUME NEW q \in Pids \ {p}, q # c PROVE ProcOK(q)'
  <2>1. Same(q)
    BY <1>1, <1>2 DEF EnvInv, TypeInv, TypeOK, Same
  <2> QED BY <2>1 DEF EnvInv, ProcOK, Same, IsProgram, Alive
<1>3. ProcOK(p)'
  <2>1. p # c
    BY <1>1
  <2>2. hist'[p] = hist[p]
    BY <1>1, <2>1
  <2>3. mem'[p].env = mem[p].env
    BY <1>1 DEF EnvInv, TypeInv, TypeOK, Memory
  <2>4. /\ good => pc'[p] = "exec" /\ plan'[p].envp = plan[p].envp
        /\ ~good => pc'[p] = "init"
    BY <1>1 DEF EnvInv, TypeInv, TypeOK, Plan
  <2> QED BY <1>1, <2>2, <2>3, <2>4, StaysOK DEF Alive
<1>4. c \in Pids => ProcOK(c)'
  <2>1. \A q \in Pids : q = c /\ q # p => pc'[q] = "free"
    BY <1>1 DEF EnvInv, TypeInv, TypeOK
  <2>2. c \in Pids => pc'[c] = "free"
    BY <1>1, <2>1
  <2> QED BY <2>2 DEF ProcOK, Alive
<1> QED BY <1>2, <1>3, <1>4 DEF EnvInv

LEMMA MissingOK ==
  ASSUME EnvInv, NEW p \in Pids, CgoInitMissing(p), TypeInv'
  PROVE  EnvInv'
<1> DEFINE half == [mem EXCEPT ![p].iscgo = FALSE]
<1>1. /\ half \in [Pids -> Memory] /\ half[p].env = mem[p].env
      /\ \A q \in Pids \ {p} : half[q] = mem[q]
  <2>1. half \in [Pids -> Memory]
    BY FlagSet DEF EnvInv, TypeInv, TypeOK
  <2>2. half[p] = [mem[p] EXCEPT !.iscgo = FALSE] /\ \A q \in Pids \ {p} : half[q] = mem[q]
    BY DEF EnvInv, TypeInv, TypeOK
  <2>3. half[p].env = mem[p].env
    BY <2>2 DEF EnvInv, TypeInv, TypeOK, Memory
  <2> QED BY <2>1, <2>2, <2>3
<1>2. /\ mem' = [half EXCEPT ![p].hooks = FALSE] /\ pc[p] = "init" /\ plan' = plan
      /\ pc' = [pc EXCEPT ![p] = "main"] /\ hist' = hist
  BY DEF CgoInitMissing, Goto
<1> HIDE DEF half
<1>3. mem'[p].env = mem[p].env /\ \A q \in Pids \ {p} : mem'[q] = mem[q]
  BY <1>1, <1>2 DEF Memory
<1>4. pc'[p] = "main" /\ Others(p)
  BY <1>2, <1>3 DEF EnvInv, TypeInv, TypeOK, Others, Same
<1> QED BY <1>2, <1>3, <1>4, StaysOK, OthersOK DEF Alive

LEMMA ScanOK ==
  ASSUME EnvInv, NEW p \in Pids, Scan(p), TypeInv'
  PROVE  EnvInv'
<1>1. CASE ScanFails(p) \/ ScanGuarded(p)
  BY <1>1, ReturnOK DEF ScanFails, ScanGuarded, Alive
<1>2. CASE ScanProbe(p)
  BY <1>2, EndOK DEF ScanProbe
<1>3. CASE ScanFirst(p)
  <2>1. /\ pc[p] = "scan" /\ pc'[p] = "resolve" /\ hist' = hist /\ mem' = mem
        /\ Others(p)
    BY <1>3 DEF ScanFirst, Goto, EnvInv, TypeInv, TypeOK, Others, Same
  <2> QED BY <2>1, StaysOK, OthersOK DEF Alive
<1> QED BY <1>1, <1>2, <1>3 DEF Scan

LEMMA EnvStep == EnvInv /\ [Next]_vars => EnvInv'
<1> SUFFICES ASSUME EnvInv, [Next]_vars PROVE EnvInv'
  OBVIOUS
<1> USE TypeStep
<1>1. TypeInv'
  BY DEF EnvInv
<1>2. ASSUME NEW c \in Free, Launch(c) PROVE EnvInv'
  BY <1>1, <1>2, BornOK DEF Launch, Free
<1>3. ASSUME NEW p \in Pids, Startup(p) PROVE EnvInv'
  <2>1. CASE Load(p)
    BY <1>1, <2>1, EndOK, GotoOK DEF Load, Alive, PCs
  <2>2. CASE SkipProbe(p) \/ WaitFails(p)
    BY <1>1, <2>2, GotoOK DEF SkipProbe, WaitFails, Alive, PCs
  <2>3. CASE ProbeChild(p)
    BY <1>1, <2>3, ExecveOK, EndOK DEF ProbeChild
  <2>4. CASE Reexec(p)
    BY <1>1, <2>4, ExecveOK, ReturnOK DEF Reexec, Alive
  <2>5. CASE CgoInitMalloc(p)
    BY <1>1, <2>5, CallLibcOK DEF CgoInitMalloc
  <2> QED BY <1>1, <1>3, <2>1, <2>2, <2>3, <2>4, <2>5, ScanOK, ResolveOK, ForkOK, WaitOK,
             MissingOK
          DEF Startup, Progress
<1>4. ASSUME NEW p \in Pids, Program(p) PROVE EnvInv'
  <2>1. CASE CallFFI(p) \/ Setenv(p) \/ NewThread(p)
    BY <1>1, <2>1, CallLibcOK DEF CallFFI, Setenv, NewThread
  <2>2. CASE Exit(p)
    BY <1>1, <2>2, EndOK DEF Exit
  <2>3. CASE SelfExec(p)
    BY <1>1, <2>3, BornOK DEF SelfExec
  <2>4. ASSUME NEW c \in Free, NEW way \in Ways, Spawn(p, c, way) PROVE EnvInv'
    BY <1>1, <2>4, BornOK DEF Spawn, Free
  <2> QED BY <1>4, <2>1, <2>2, <2>3, <2>4 DEF Program
<1>5. ASSUME NEW p \in Pids, Kill(p) PROVE EnvInv'
  BY <1>1, <1>5, EndOK DEF Kill
<1>6. ASSUME NEW p \in Pids, Reap(p) PROVE EnvInv'
  <2>1. pc'[p] = "free" /\ Others(p)
    BY <1>6 DEF Reap, EnvInv, TypeInv, TypeOK, Others, Same
  <2> QED BY <1>1, <2>1, OthersOK DEF ProcOK, Alive
<1>7. CASE UNCHANGED vars
  BY <1>1, <1>7 DEF vars, EnvInv, ProcOK, IsProgram, Alive
<1> QED BY <1>2, <1>3, <1>4, <1>5, <1>6, <1>7 DEF Next

LEMMA EnvInit == Init => EnvInv
<1> SUFFICES ASSUME Init PROVE EnvInv
  OBVIOUS
<1>1. TypeInv
  BY TypeInit
<1>2. \A p \in Pids : pc[p] = "free"
  BY DEF Init
<1> QED BY <1>1, <1>2 DEF EnvInv, ProcOK, Alive

\* Whatever fails, is killed or was inherited: a program that runs behind the
\* loader has one entry per variable of the bridge, its own, and never the probe's
\* (reexecUniversal's filter of the environment and what it appends).
THEOREM EnvironmentHolds == Spec => []EnvironmentIsOwn
<1>1. EnvInv => EnvironmentIsOwn
  BY DEF EnvInv, ProcOK, EnvironmentIsOwn, OwnEntries
<1> QED BY <1>1, EnvInit, EnvStep, PTL DEF Spec
--------------------------------------------------------------------------------
(* No second re-exec.                                                       *)

\* When the second entry is recognised: its guard is within what readAll takes,
\* or /proc/self/exe can be read and names the loader.
EntryIsSeen == "readlink" \notin Faults \/ \A h \in Hosts : ~h.bigEnv

\* How often a program has been re-executed, by where it is.
OnceOK(p) ==
  IsProgram(p) =>
    /\ hist[p].reexecs <= 1
    /\ pc[p] \in {"launch", "wait", "exec"} => hist[p].reexecs = 0
    /\ pc[p] = "resolve" /\ hist[p].reexecs > 0 => host.bigEnv
    /\ Alive(p) /\ hist[p].reexecs > 0 => mem[p].exe = "loader"
OnceInv == EnvInv /\ \A p \in Pids : OnceOK(p)

LEMMA OthersOnce ==
  ASSUME OnceInv, NEW p \in Pids, host' = host, Others(p), OnceOK(p)', EnvInv'
  PROVE  OnceInv'
<1>1. ASSUME NEW q \in Pids \ {p} PROVE OnceOK(q)'
  BY <1>1 DEF OnceInv, OnceOK, Others, Same, IsProgram, Alive
<1> QED BY <1>1 DEF OnceInv

\* A process that goes on, not towards another execve.
LEMMA StaysOnce ==
  ASSUME OnceInv, NEW p \in Pids, Alive(p), hist'[p] = hist[p], mem'[p].exe = mem[p].exe,
         \/ pc'[p] \notin {"resolve", "launch", "wait", "exec"}
         \/ pc[p] \in {"launch", "wait", "exec"} /\ pc'[p] # "resolve"
  PROVE  OnceOK(p)'
  BY DEF OnceInv, OnceOK, IsProgram, Alive

LEMMA EndOnce ==
  ASSUME OnceInv, NEW p \in Pids, NEW how, End(p, how), EnvInv'
  PROVE  OnceInv'
<1>1. pc'[p] = "dead" /\ hist' = hist /\ host' = host /\ Others(p)
  BY DEF End, OnceInv, EnvInv, TypeInv, TypeOK, Others, Same
<1>2. OnceOK(p)'
  BY <1>1 DEF OnceInv, OnceOK, IsProgram, Alive
<1> QED BY <1>1, <1>2, OthersOnce

LEMMA BornOnce ==
  ASSUME OnceInv, NEW c \in Pids, NEW by, NEW img, NEW byLoader, NEW e, NEW r,
         Born(c, by, img, byLoader, e, r), EnvInv'
  PROVE  OnceInv'
<1>1. /\ hist'[c].reexecs = 0 /\ host' = host
      /\ Others(c)
  BY DEF Born, OnceInv, EnvInv, TypeInv, TypeOK, Others, Same
<1> QED BY <1>1, OthersOnce DEF OnceOK

LEMMA GotoOnce ==
  ASSUME OnceInv, NEW p \in Pids, Alive(p), NEW where \in PCs \ {"resolve"}, Goto(p, where),
         UNCHANGED <<mem, plan>>, EnvInv',
         where \in {"launch", "wait", "exec"} => pc[p] \in {"launch", "wait", "exec"}
  PROVE  OnceInv'
<1>1. pc'[p] = where /\ hist'[p] = hist[p] /\ host' = host /\ Others(p)
  BY DEF Goto, pids, OnceInv, EnvInv, TypeInv, TypeOK, Others, Same
<1> QED BY <1>1, StaysOnce, OthersOnce

LEMMA ReturnOnce ==
  ASSUME OnceInv, NEW p \in Pids, Alive(p), NEW hasLibc, Return(p, hasLibc), EnvInv'
  PROVE  OnceInv'
<1>1. /\ pc'[p] = "init" /\ hist'[p] = hist[p] /\ mem'[p].exe = mem[p].exe /\ host' = host
      /\ Others(p)
  BY DEF Return, Goto, pids, OnceInv, EnvInv, TypeInv, TypeOK, Memory, Others, Same
<1> QED BY <1>1, StaysOnce, OthersOnce

LEMMA CallLibcOnce ==
  ASSUME OnceInv, NEW p \in Pids, pc[p] \in {"init", "main"}, CallLibc(p), EnvInv'
  PROVE  OnceInv'
  BY GotoOnce, EndOnce DEF CallLibc, Alive, PCs

\* The scan of a re-executed program finds its guard, if it reads that far.
LEMMA ScanOnce ==
  ASSUME OnceInv, NEW p \in Pids, Scan(p), EnvInv'
  PROVE  OnceInv'
<1>1. CASE ScanFails(p) \/ ScanGuarded(p)
  BY <1>1, ReturnOnce DEF ScanFails, ScanGuarded, Alive
<1>2. CASE ScanProbe(p)
  BY <1>2, EndOnce DEF ScanProbe
<1>3. CASE ScanFirst(p)
  <2>1. /\ pc[p] = "scan" /\ pc'[p] = "resolve" /\ hist' = hist /\ mem' = mem /\ host' = host
        /\ Others(p)
    BY <1>3 DEF ScanFirst, Goto, pids, OnceInv, EnvInv, TypeInv, TypeOK, Others, Same
  <2>2. host.bigEnv \/ Tag("guard", p, "1") \notin mem[p].env
    BY <1>3 DEF ScanFirst, Guarded, Tagged, Tag
  <2>3. IsProgram(p) /\ hist[p].reexecs > 0 => host.bigEnv
    BY <2>1, <2>2 DEF OnceInv, EnvInv, ProcOK, OwnEntries, Alive
  <2>4. OnceOK(p)'
    BY <2>1, <2>3 DEF OnceInv, OnceOK, IsProgram, Alive
  <2> QED BY <2>1, <2>4, OthersOnce
<1> QED BY <1>1, <1>2, <1>3 DEF Scan

\* Behind the loader nothing is planned, if the link can be read.
LEMMA ResolveOnce ==
  ASSUME EntryIsSeen, OnceInv, NEW p \in Pids, Resolve(p), EnvInv'
  PROVE  OnceInv'
<1>1. CASE ResolveFails(p) \/ ResolveByHand(p)
  BY <1>1, ReturnOnce DEF ResolveFails, ResolveByHand, Alive
<1>2. CASE ResolvePlan(p)
  <2>1. PICK link \in Readlink(p) \ {"loader"} : TRUE
    BY <1>2 DEF ResolvePlan
  <2>2. /\ pc[p] = "resolve" /\ pc'[p] = "launch" /\ mem' = mem /\ hist' = hist /\ host' = host
        /\ Others(p)
    BY <1>2 DEF ResolvePlan, Goto, pids, OnceInv, EnvInv, TypeInv, TypeOK, Others, Same
  <2>3. IsProgram(p) => ~(hist[p].reexecs > 0)
    <3>1. SUFFICES ASSUME IsProgram(p), hist[p].reexecs > 0 PROVE FALSE
      OBVIOUS
    <3>2. host.bigEnv /\ mem[p].exe = "loader"
      BY <2>2, <3>1 DEF OnceInv, OnceOK, Alive
    <3>3. "readlink" \in Faults
      BY <2>1, <3>2 DEF Readlink
    <3>4. host \in Hosts
      BY DEF OnceInv, EnvInv, TypeInv, TypeOK
    <3> QED BY <3>2, <3>3, <3>4 DEF EntryIsSeen
  <2>4. hist[p].reexecs \in Nat
    BY DEF OnceInv, EnvInv, TypeInv, TypeOK, History
  <2>5. OnceOK(p)'
    BY <2>2, <2>3, <2>4 DEF OnceOK, IsProgram, Alive
  <2> QED BY <2>2, <2>5, OthersOnce
<1> QED BY <1>1, <1>2 DEF Resolve

\* execve: the first, and now behind the loader.
LEMMA ExecveOnce ==
  ASSUME OnceInv, NEW p \in Pids, pc[p] \in {"exec", "clone"}, Execve(p), EnvInv'
  PROVE  OnceInv'
<1>1. /\ pc'[p] = "load" /\ mem'[p].exe = "loader" /\ hist'[p].role = hist[p].role
      /\ hist'[p].reexecs = hist[p].reexecs + 1 /\ host' = host
      /\ Others(p)
  BY DEF Execve, pids, Fresh, OnceInv, EnvInv, TypeInv, TypeOK, History, Others, Same
<1>2. IsProgram(p) => pc[p] = "exec" /\ hist[p].reexecs = 0
  BY DEF OnceInv, EnvInv, ProcOK, OnceOK
<1>3. OnceOK(p)'
  BY <1>1, <1>2 DEF OnceOK, IsProgram
<1> QED BY <1>1, <1>3, OthersOnce

LEMMA ForkOnce ==
  ASSUME OnceInv, NEW p \in Pids, ForkProbe(p), EnvInv'
  PROVE  OnceInv'
<1>1. PICK c \in Free :
        /\ pc' = [pc EXCEPT ![p] = "wait", ![c] = "clone"]
        /\ mem' = [mem EXCEPT ![c] = mem[p]]
        /\ hist' = [hist EXCEPT ![c] = [hist[p] EXCEPT !.role = "probe"]]
  BY DEF ForkProbe
<1>2. c \in Pids /\ pc[c] = "free" /\ pc[p] = "launch" /\ p # c /\ host' = host
  BY DEF Free, ForkProbe
<1>3. ASSUME NEW q \in Pids \ {c} PROVE OnceOK(q)'
  <2>1. /\ hist'[q] = hist[q] /\ mem'[q] = mem[q]
        /\ pc'[q] = IF q = p THEN "wait" ELSE pc[q]
    BY <1>1, <1>2 DEF OnceInv, EnvInv, TypeInv, TypeOK
  <2> QED BY <1>2, <2>1 DEF OnceInv, OnceOK, IsProgram, Alive
<1>4. OnceOK(c)'
  <2>1. hist'[c].role = "probe"
    BY <1>1, <1>2 DEF OnceInv, EnvInv, TypeInv, TypeOK, History
  <2> QED BY <2>1 DEF OnceOK, IsProgram
<1> QED BY <1>3, <1>4 DEF OnceInv

LEMMA WaitOnce ==
  ASSUME OnceInv, NEW p \in Pids, WaitProbe(p), EnvInv'
  PROVE  OnceInv'
<1>0. PICK c : c = plan[p].probe
  OBVIOUS
<1> DEFINE good == status[c] = "zero"
<1>1. /\ pc[p] = "wait" /\ pc[c] = "dead" /\ host' = host
      /\ pc' = [pc EXCEPT ![c] = "free", ![p] = IF good THEN "exec" ELSE "init"]
      /\ mem' = [mem EXCEPT ![p].missing = ~good]
      /\ hist' = [hist EXCEPT ![c] = NoHistory]
  BY <1>0 DEF WaitProbe
<1> HIDE DEF good
<1>2. \A q \in Pids : mem'[q].exe = mem[q].exe
  BY <1>1 DEF OnceInv, EnvInv, TypeInv, TypeOK, Memory
<1>3. ASSUME NEW q \in Pids \ {p}, q # c PROVE OnceOK(q)'
  <2>1. hist'[q] = hist[q] /\ pc'[q] = pc[q]
    BY <1>1, <1>3 DEF OnceInv, EnvInv, TypeInv, TypeOK
  <2> QED BY <1>1, <1>2, <2>1 DEF OnceInv, OnceOK, IsProgram, Alive
<1>4. OnceOK(p)'
  <2>1. p # c
    BY <1>1
  <2>2. hist'[p] = hist[p]
    BY <1>1, <2>1
  <2>3. pc'[p] \in {"exec", "init"}
    BY <1>1 DEF OnceInv, EnvInv, TypeInv, TypeOK
  <2> QED BY <1>1, <1>2, <2>2, <2>3, StaysOnce DEF Alive
<1>5. c \in Pids => OnceOK(c)'
  <2>1. c \in Pids => hist'[c] = NoHistory
    BY <1>1 DEF OnceInv, EnvInv, TypeInv, TypeOK
  <2> QED BY <2>1 DEF OnceOK, NoHistory
<1> QED BY <1>3, <1>4, <1>5 DEF OnceInv

LEMMA MissingOnce ==
  ASSUME OnceInv, NEW p \in Pids, CgoInitMissing(p), EnvInv'
  PROVE  OnceInv'
<1> DEFINE half == [mem EXCEPT ![p].iscgo = FALSE]
<1>1. mem \in [Pids -> Memory]
  BY DEF OnceInv, EnvInv, TypeInv, TypeOK
<1>2. half \in [Pids -> Memory] /\ \A q \in Pids : half[q].exe = mem[q].exe
  BY <1>1 DEF Memory
<1>3. /\ mem' = [half EXCEPT ![p].hooks = FALSE] /\ pc[p] = "init" /\ host' = host
      /\ pc' = [pc EXCEPT ![p] = "main"] /\ hist' = hist
  BY DEF CgoInitMissing, Goto, pids
<1> HIDE DEF half
<1>4. \A q \in Pids : mem'[q].exe = mem[q].exe
  BY <1>2, <1>3 DEF Memory
<1>5. \A q \in Pids : pc'[q] = pc[q] \/ (pc[q] = "init" /\ pc'[q] = "main")
  BY <1>3 DEF OnceInv, EnvInv, TypeInv, TypeOK
<1>6. ASSUME NEW q \in Pids PROVE OnceOK(q)'
  BY <1>3, <1>4, <1>5 DEF OnceInv, OnceOK, IsProgram, Alive
<1> QED BY <1>6 DEF OnceInv

LEMMA OnceStep == EntryIsSeen /\ OnceInv /\ [Next]_vars => OnceInv'
<1> SUFFICES ASSUME EntryIsSeen, OnceInv, [Next]_vars PROVE OnceInv'
  OBVIOUS
<1>1. EnvInv'
  BY EnvStep DEF OnceInv
<1>2. ASSUME NEW c \in Free, Launch(c) PROVE OnceInv'
  BY <1>1, <1>2, BornOnce DEF Launch, Free
<1>3. ASSUME NEW p \in Pids, Startup(p) PROVE OnceInv'
  <2>1. CASE Load(p)
    BY <1>1, <2>1, EndOnce, GotoOnce DEF Load, Alive, PCs
  <2>2. CASE SkipProbe(p) \/ WaitFails(p)
    BY <1>1, <2>2, GotoOnce DEF SkipProbe, WaitFails, Alive, PCs
  <2>3. CASE ProbeChild(p)
    BY <1>1, <2>3, ExecveOnce, EndOnce DEF ProbeChild
  <2>4. CASE Reexec(p)
    BY <1>1, <2>4, ExecveOnce, ReturnOnce DEF Reexec, Alive
  <2>5. CASE CgoInitMalloc(p)
    BY <1>1, <2>5, CallLibcOnce DEF CgoInitMalloc
  <2> QED BY <1>1, <1>3, <2>1, <2>2, <2>3, <2>4, <2>5, ScanOnce, ResolveOnce, ForkOnce,
             WaitOnce, MissingOnce
          DEF Startup, Progress
<1>4. ASSUME NEW p \in Pids, Program(p) PROVE OnceInv'
  <2>1. CASE CallFFI(p) \/ Setenv(p) \/ NewThread(p)
    BY <1>1, <2>1, CallLibcOnce DEF CallFFI, Setenv, NewThread
  <2>2. CASE Exit(p)
    BY <1>1, <2>2, EndOnce DEF Exit
  <2>3. CASE SelfExec(p)
    BY <1>1, <2>3, BornOnce DEF SelfExec
  <2>4. ASSUME NEW c \in Free, NEW way \in Ways, Spawn(p, c, way) PROVE OnceInv'
    BY <1>1, <2>4, BornOnce DEF Spawn, Free
  <2> QED BY <1>4, <2>1, <2>2, <2>3, <2>4 DEF Program
<1>5. ASSUME NEW p \in Pids, Kill(p) PROVE OnceInv'
  BY <1>1, <1>5, EndOnce DEF Kill
<1>6. ASSUME NEW p \in Pids, Reap(p) PROVE OnceInv'
  <2>1. hist'[p].reexecs = 0 /\ host' = host /\ Others(p)
    BY <1>6 DEF Reap, NoHistory, OnceInv, EnvInv, TypeInv, TypeOK, Others, Same
  <2> QED BY <1>1, <2>1, OthersOnce DEF OnceOK
<1>7. CASE UNCHANGED vars
  BY <1>1, <1>7 DEF vars, OnceInv, OnceOK, IsProgram, Alive
<1> QED BY <1>2, <1>3, <1>4, <1>5, <1>6, <1>7 DEF Next

LEMMA OnceInit == Init => OnceInv
<1> SUFFICES ASSUME Init PROVE OnceInv
  OBVIOUS
<1>1. EnvInv
  BY EnvInit
<1>2. \A p \in Pids : hist[p].reexecs = 0
  BY DEF Init, NoHistory
<1> QED BY <1>1, <1>2 DEF OnceInv, OnceOK

\* The bridge re-executes a process at most once: the second entry finds the
\* guard, or that /proc/self/exe is the loader (reexecUniversal's two checks).
\* Where it can see neither, nothing ends the loop.
THEOREM OneReexec == EntryIsSeen => (Spec => []ReexecOnce)
<1> SUFFICES ASSUME EntryIsSeen PROVE Spec => []ReexecOnce
  OBVIOUS
<1>1. OnceInv /\ [Next]_vars => OnceInv'
  BY OnceStep
<1>2. OnceInv => ReexecOnce
  BY DEF OnceInv, OnceOK, ReexecOnce
<1> QED BY <1>1, <1>2, OnceInit, PTL DEF Spec
--------------------------------------------------------------------------------
(* Who has a libc.                                                          *)

\* The conditions under which the record of a missing libc can be believed: those
\* for the guard, but for programs that replace themselves, and no failure after
\* which the bridge gives up behind the loader.
RecordIsReliable == {"memfd", "mmap", "readlink"} \cap Faults = {} /\ ~PidReuse

\* Only a program that replaced itself can find a guard of its own and have come
\* past the loader; what is bound ran behind the loader; nobody behind the loader
\* plans to go there again.
KnownOK(p) ==
  /\ p \notin used => pc[p] = "free"
  /\ \A x \in mem[p].env \cup plan[p].envp : x.pid \in used
  /\ \A x \in mem[p].env : x.key = "guard" /\ x.pid = p =>
       mem[p].exe = "loader" \/ hist[p].role = "inplace"
  /\ pc[p] \in {"launch", "wait", "exec", "clone"} => Bindable(plan[p].image)
  /\ pc[p] \in {"launch", "wait", "exec"} => mem[p].exe # "loader"
  /\ mem[p].exe = "loader" => Bindable(mem[p].argv0) /\ mem[p].bound = Binds(mem[p].argv0)
  /\ mem[p].bound => mem[p].exe = "loader"
  /\ pc[p] = "init" => IF mem[p].missing THEN ~mem[p].bound
                       ELSE mem[p].bound \/ hist[p].role = "inplace"
  /\ pc[p] = "main" => /\ mem[p].missing <=> ~mem[p].bound
                       /\ mem[p].missing => ~mem[p].hooks /\ ~mem[p].iscgo
  /\ pc[p] = "dead" => mem[p].env = {}
  /\ status[p] = "fault" => hist[p].role = "inplace"
KnownInv == TypeInv /\ \A p \in Pids : KnownOK(p)

OthersStay(p) == \A q \in Pids \ {p} : Same(q) /\ status'[q] = status[q]

LEMMA SameKnown ==
  ASSUME NEW q \in Pids, KnownOK(q), host' = host, used \subseteq used', q \in used' <=> q \in used,
         pc'[q] = pc[q], mem'[q] = mem[q], plan'[q] = plan[q], hist'[q] = hist[q],
         status'[q] = status[q]
  PROVE  KnownOK(q)'
<1>1. \A x \in mem'[q].env \cup plan'[q].envp : x.pid \in used'
  BY DEF KnownOK
<1>2. \A img : (Bindable(img)' <=> Bindable(img)) /\ Binds(img)' = Binds(img)
  BY DEF Bindable, Binds
<1>3. Bindable(plan[q].image)' <=> Bindable(plan[q].image)
  BY <1>2
<1>4. /\ Bindable(mem[q].argv0)' <=> Bindable(mem[q].argv0)
      /\ Binds(mem[q].argv0)' = Binds(mem[q].argv0)
  BY <1>2
<1> QED BY <1>1, <1>3, <1>4 DEF KnownOK

LEMMA OthersKnown ==
  ASSUME KnownInv, NEW p \in Pids, host' = host,
         used \subseteq used', used' \subseteq used \cup {p},
         OthersStay(p), TypeInv', KnownOK(p)'
  PROVE  KnownInv'
<1>1. ASSUME NEW q \in Pids \ {p} PROVE KnownOK(q)'
  BY SameKnown DEF KnownInv, OthersStay, Same
<1> QED BY <1>1 DEF KnownInv

\* Code behind the loader runs with its libc bound.
LEMMA RunsBound ==
  ASSUME KnownInv, NEW p \in Pids, mem[p].exe = "loader", pc[p] # "load"
  PROVE  mem[p].bound
<1>1. mem[p].argv0 # "bad" /\ Bindable(mem[p].argv0) /\ mem[p].bound = Binds(mem[p].argv0)
  BY DEF KnownInv, KnownOK, TypeInv, ImageLoaded
<1>2. host.loader \in {"glibc", "musl"}
  BY <1>1, ConstantsAssumption DEF Bindable, KnownInv, TypeInv, TypeOK, Host
<1> QED BY <1>1, <1>2 DEF Bindable, Binds

LEMMA EndKnown ==
  ASSUME KnownInv, NEW p \in Pids, pc[p] # "free", NEW how \in Endings, End(p, how),
         how = "fault" => hist[p].role = "inplace", TypeInv'
  PROVE  KnownInv'
<1>1. /\ pc'[p] = "dead" /\ mem'[p] = NoMemory /\ plan'[p] = NoPlan /\ hist'[p] = hist[p]
      /\ status'[p] = how /\ host' = host /\ used' = used /\ OthersStay(p)
  BY DEF End, KnownInv, TypeInv, TypeOK, OthersStay, Same
<1>2. NoMemory.env = {} /\ NoMemory.exe = "file" /\ ~NoMemory.bound /\ NoPlan.envp = {}
  BY DEF NoMemory, NoPlan, Fresh
<1>3. p \in used
  BY DEF KnownInv, KnownOK
<1>4. KnownOK(p)'
  BY <1>1, <1>2, <1>3 DEF KnownOK
<1> QED BY <1>1, <1>4, OthersKnown

\* A program starts, under a new pid or in place of another.
LEMMA BornKnown ==
  ASSUME KnownInv, ~PidReuse, NEW c \in Pids, NEW r \in Roles, c \in Free \/ r = "inplace",
         NEW by, NEW img \in {"file", "memfd"}, NEW byLoader \in BOOLEAN,
         byLoader => Bindable(img), NEW e, \A x \in e : x.pid \in used,
         Born(c, by, img, byLoader, e, r), TypeInv'
  PROVE  KnownInv'
<1> DEFINE m == Fresh(IF byLoader THEN "loader" ELSE img, img, e, byLoader /\ Binds(img))
<1>1. /\ pc'[c] \in {"foreign", "scan", "load"} /\ mem'[c] = m /\ plan'[c] = plan[c]
      /\ hist'[c].role = r /\ status'[c] = "none"
      /\ host' = host /\ used' = used \cup {c} /\ OthersStay(c)
  BY DEF Born, KnownInv, TypeInv, TypeOK, OthersStay, Same
<1>2. /\ m.env = e /\ m.argv0 = img /\ m.exe = (IF byLoader THEN "loader" ELSE img)
      /\ m.bound = (byLoader /\ Binds(img))
  BY DEF Fresh
<1>3. Binds(img) \in BOOLEAN
  BY DEF Binds
<1>4. r # "inplace" => c \notin used
  BY DEF Free
<1>5. \A x \in plan[c].envp : x.pid \in used
  BY DEF KnownInv, KnownOK
<1> HIDE DEF m
<1>6. CASE byLoader
  <2>1. mem'[c].bound = Binds(img) /\ mem'[c].exe = "loader"
    BY <1>1, <1>2, <1>3, <1>6
  <2>2. Bindable(img)' /\ Binds(img)' = Binds(img)
    BY <1>1, <1>6 DEF Bindable, Binds
  <2>3. KnownOK(c)'
    BY <1>1, <1>2, <1>5, <2>1, <2>2 DEF KnownOK
  <2> QED BY <1>1, <2>3, OthersKnown
<1>7. CASE ~byLoader
  <2>1. ~mem'[c].bound /\ mem'[c].exe = img
    BY <1>1, <1>2, <1>7
  <2>2. KnownOK(c)'
    BY <1>1, <1>2, <1>4, <1>5, <2>1 DEF KnownOK
  <2> QED BY <1>1, <2>2, OthersKnown
<1> QED BY <1>6, <1>7

LEMMA GotoKnown ==
  ASSUME KnownInv, NEW p \in Pids, pc[p] # "free",
         NEW where \in PCs \ {"init", "dead"}, Goto(p, where),
         UNCHANGED <<mem, plan>>, TypeInv',
         where \in {"launch", "wait", "exec", "clone"} =>
           Bindable(plan[p].image) /\ mem[p].exe # "loader",
         where = "main" => ~mem[p].missing /\ mem[p].bound
  PROVE  KnownInv'
<1>1. /\ pc'[p] = where /\ mem' = mem /\ plan' = plan /\ hist' = hist
      /\ status' = status /\ host' = host /\ used' = used /\ OthersStay(p)
  BY DEF Goto, pids, KnownInv, TypeInv, TypeOK, OthersStay, Same
<1>2. KnownOK(p)
  BY DEF KnownInv
<1>3. KnownOK(p)'
  BY <1>1, <1>2 DEF KnownOK, Bindable, Binds
<1> QED BY <1>1, <1>3, OthersKnown

LEMMA CallLibcKnown ==
  ASSUME KnownInv, NEW p \in Pids, CallLibc(p), ~mem[p].missing, TypeInv',
         pc[p] \in {"init", "main"}
  PROVE  KnownInv'
<1>1. CASE mem[p].bound
  BY <1>1, GotoKnown DEF CallLibc, PCs
<1>2. CASE ~mem[p].bound
  <2>1. hist[p].role = "inplace"
    BY <1>2 DEF KnownInv, KnownOK
  <2> QED BY <1>2, <2>1, EndKnown DEF CallLibc, Endings
<1> QED BY <1>1, <1>2

\* The bridge's answer is the truth, except about a guard that was inherited in
\* place.
LEMMA ReturnKnown ==
  ASSUME KnownInv, NEW p \in Pids, pc[p] # "free", NEW hasLibc \in BOOLEAN, Return(p, hasLibc),
         IF hasLibc THEN mem[p].bound \/ hist[p].role = "inplace" ELSE ~mem[p].bound, TypeInv'
  PROVE  KnownInv'
<1>1. /\ pc'[p] = "init" /\ plan'[p] = NoPlan /\ hist' = hist
      /\ status' = status /\ host' = host /\ used' = used /\ OthersStay(p)
  BY DEF Return, Goto, pids, KnownInv, TypeInv, TypeOK, OthersStay, Same
<1>2. /\ mem'[p].exe = mem[p].exe /\ mem'[p].env = mem[p].env
      /\ mem'[p].argv0 = mem[p].argv0 /\ mem'[p].bound = mem[p].bound
      /\ mem'[p].missing = ~hasLibc /\ NoPlan.envp = {}
  BY DEF Return, KnownInv, TypeInv, TypeOK, Memory, NoPlan
<1>3. KnownOK(p)
  BY DEF KnownInv
<1>4. KnownOK(p)'
  BY <1>1, <1>2, <1>3 DEF KnownOK, Bindable, Binds
<1> QED BY <1>1, <1>4, OthersKnown

LEMMA ExecveKnown ==
  ASSUME KnownInv, NEW p \in Pids, pc[p] \in {"exec", "clone"}, Execve(p), TypeInv'
  PROVE  KnownInv'
<1>0. PICK m : m = Fresh("loader", plan[p].image, plan[p].envp, Binds(plan[p].image))
  OBVIOUS
<1>1. /\ pc'[p] = "load" /\ mem'[p] = m /\ plan'[p] = NoPlan
      /\ hist'[p].role = hist[p].role
      /\ status' = status /\ host' = host /\ used' = used /\ OthersStay(p)
  BY <1>0 DEF Execve, pids, KnownInv, TypeInv, TypeOK, History, OthersStay, Same
<1>2. /\ m.exe = "loader" /\ m.argv0 = plan[p].image /\ m.env = plan[p].envp
      /\ m.bound = Binds(plan[p].image) /\ NoPlan.envp = {}
  BY <1>0 DEF Fresh, NoPlan
<1>3. KnownOK(p)
  BY DEF KnownInv
<1>4. Bindable(plan[p].image)
  BY <1>3 DEF KnownOK
<1>5. Bindable(mem[p].argv0)' /\ mem'[p].bound = Binds(mem[p].argv0)'
  BY <1>1, <1>2, <1>4 DEF Bindable, Binds
<1>6. KnownOK(p)'
  BY <1>1, <1>2, <1>3, <1>5 DEF KnownOK
<1> QED BY <1>1, <1>6, OthersKnown

\* A guard is believed by who came through the loader, or replaced itself.
LEMMA ScanKnown ==
  ASSUME RecordIsReliable, KnownInv, NEW p \in Pids, Scan(p), TypeInv'
  PROVE  KnownInv'
<1>1. pc[p] = "scan"
  BY DEF Scan, ScanFails, ScanProbe, ScanGuarded, ScanFirst
<1>2. ~ScanFails(p)
  BY DEF ScanFails, RecordIsReliable
<1>3. CASE ScanProbe(p)
  BY <1>1, <1>3, EndKnown DEF ScanProbe, Endings
<1>4. CASE ScanGuarded(p)
  <2>1. PICK x \in mem[p].env : x.key = "guard" /\ x.pid = p
    BY <1>4 DEF ScanGuarded, Guarded, Tagged
  <2>2. mem[p].exe = "loader" \/ hist[p].role = "inplace"
    BY <2>1 DEF KnownInv, KnownOK
  <2> QED BY <1>1, <1>4, <2>2, RunsBound, ReturnKnown DEF ScanGuarded
<1>5. CASE ScanFirst(p)
  <2>1. /\ pc'[p] = "resolve" /\ mem' = mem /\ hist' = hist
        /\ status' = status /\ host' = host /\ used' = used /\ OthersStay(p)
    BY <1>5 DEF ScanFirst, Goto, pids, KnownInv, TypeInv, TypeOK, OthersStay, Same
  <2>2. plan'[p].envp = plan[p].envp
    BY <1>5 DEF ScanFirst, KnownInv, TypeInv, TypeOK, Plan
  <2>3. KnownOK(p)
    BY DEF KnownInv
  <2>4. KnownOK(p)'
    BY <1>1, <2>1, <2>2, <2>3 DEF KnownOK, Bindable, Binds
  <2> QED BY <2>1, <2>4, OthersKnown
<1> QED BY <1>2, <1>3, <1>4, <1>5 DEF Scan

\* What is planned is something the loader binds, and nobody behind it plans.
LEMMA ResolveKnown ==
  ASSUME RecordIsReliable, KnownInv, NEW p \in Pids, Resolve(p), TypeInv'
  PROVE  KnownInv'
<1>1. pc[p] = "resolve" /\ Readlink(p) = {mem[p].exe}
  BY DEF Resolve, ResolveFails, ResolveByHand, ResolvePlan, Readlink, RecordIsReliable
<1>2. KnownOK(p)
  BY DEF KnownInv
<1>3. CASE ResolveFails(p)
  <2>1. host.loader = "none"
    BY <1>3 DEF ResolveFails, RecordIsReliable
  <2>2. ~mem[p].bound
    BY <1>2, <2>1 DEF KnownOK, Bindable
  <2> QED BY <1>1, <1>3, <2>2, ReturnKnown DEF ResolveFails
<1>4. CASE ResolveByHand(p)
  BY <1>1, <1>4, RunsBound, ReturnKnown DEF ResolveByHand
<1>5. CASE ResolvePlan(p)
  <2>1. PICK link \in Readlink(p) \ {"loader"}, copied \in MemfdCopy(p) :
          plan' = [plan EXCEPT ![p] =
                    [real |-> RealExe(p, link), image |-> ExeToRun(link, copied),
                     envp |-> Envp(p, RealExe(p, link)), probe |-> NoPid]]
    BY <1>5 DEF ResolvePlan
  <2>2. /\ pc'[p] = "launch" /\ mem' = mem /\ hist' = hist
        /\ status' = status /\ host' = host /\ used' = used /\ OthersStay(p)
    BY <1>5, <2>1 DEF ResolvePlan, Goto, pids, KnownInv, TypeInv, TypeOK, OthersStay, Same
  <2>3. /\ plan'[p].image = ExeToRun(link, copied)
        /\ plan'[p].envp = Envp(p, RealExe(p, link))
    BY <2>1 DEF KnownInv, TypeInv, TypeOK
  <2>4. mem[p].exe # "loader"
    BY <1>1
  <2>5. Bindable(ExeToRun(link, copied))
    <3>1. host.loader # "none"
      BY <1>5 DEF ResolvePlan
    <3>2. host.loader = "glibc" => copied
      BY <2>4 DEF MemfdCopy, RecordIsReliable
    <3> QED BY <3>1, <3>2 DEF Bindable, ExeToRun
  <2>6. p \in used
    BY <1>1, <1>2 DEF KnownOK
  <2>7. \A x \in Envp(p, RealExe(p, link)) : x.pid \in used
    BY <1>2, <2>6 DEF KnownOK, Envp, Tag
  <2>8. \A img : Bindable(img)' = Bindable(img) /\ Binds(img)' = Binds(img)
    BY <2>2 DEF Bindable, Binds
  <2>9. Bindable(plan[p].image)'
    BY <2>3, <2>5, <2>8
  <2>10. \A x \in mem'[p].env \cup plan'[p].envp : x.pid \in used'
    BY <1>2, <2>2, <2>3, <2>7 DEF KnownOK
  <2>11. KnownOK(p)'
    BY <1>2, <2>2, <2>4, <2>6, <2>9, <2>10 DEF KnownOK
  <2> QED BY <2>2, <2>11, OthersKnown
<1> QED BY <1>3, <1>4, <1>5 DEF Resolve

\* The probe child: a new pid, its parent's memory and plan.
LEMMA ForkKnown ==
  ASSUME KnownInv, ~PidReuse, NEW p \in Pids, ForkProbe(p), TypeInv'
  PROVE  KnownInv'
<1>1. PICK c \in Free :
        /\ used' = used \cup {c}
        /\ pc' = [pc EXCEPT ![p] = "wait", ![c] = "clone"]
        /\ mem' = [mem EXCEPT ![c] = mem[p]]
        /\ plan' = [plan EXCEPT ![p].probe = c,
                               ![c] = [plan[p] EXCEPT !.envp = @ \cup {Tag("probe", p, "1")}]]
        /\ status' = [status EXCEPT ![c] = "none"]
        /\ hist' = [hist EXCEPT ![c] = [hist[p] EXCEPT !.role = "probe"]]
  BY DEF ForkProbe
<1>2. c \in Pids /\ c \notin used /\ pc[c] = "free" /\ pc[p] = "launch" /\ host' = host
  BY DEF ForkProbe, Free
<1>3. p # c /\ p \in used /\ KnownOK(p)
  BY <1>2 DEF KnownInv, KnownOK
<1>4. /\ mem'[p] = mem[p] /\ mem'[c] = mem[p] /\ hist'[p] = hist[p] /\ status'[p] = status[p]
      /\ plan'[p].envp = plan[p].envp /\ plan'[p].image = plan[p].image
      /\ plan'[c].envp = plan[p].envp \cup {Tag("probe", p, "1")}
      /\ plan'[c].image = plan[p].image
      /\ pc'[p] = "wait" /\ pc'[c] = "clone" /\ status'[c] = "none"
  BY <1>1, <1>2, <1>3 DEF KnownInv, TypeInv, TypeOK, Plan
<1>5. \A img : (Bindable(img)' <=> Bindable(img)) /\ Binds(img)' = Binds(img)
  BY <1>2 DEF Bindable, Binds
<1>6. \A m : m = mem[p] => /\ Bindable(mem[p].argv0)' <=> Bindable(m.argv0)
                           /\ Binds(mem[p].argv0)' = Binds(m.argv0)
  BY <1>4, <1>5
<1>7. Bindable(plan[p].image)
  BY <1>2, <1>3 DEF KnownOK
<1>8. Bindable(plan[p].image)' /\ Bindable(plan[c].image)'
  BY <1>4, <1>5, <1>7
<1>9. KnownOK(p)'
  <2>1. \A x \in mem'[p].env \cup plan'[p].envp : x.pid \in used'
    BY <1>1, <1>3, <1>4 DEF KnownOK
  <2> QED BY <1>1, <1>2, <1>3, <1>4, <1>6, <1>8, <2>1 DEF KnownOK
<1>10. KnownOK(c)'
  <2>1. \A x \in mem'[c].env \cup plan'[c].envp : x.pid \in used'
    BY <1>1, <1>3, <1>4 DEF KnownOK, Tag
  <2>2. \A x \in mem'[c].env : x.pid # c
    BY <1>2, <1>3, <1>4 DEF KnownOK
  <2>3. c \in used'
    BY <1>1
  <2>4. mem'[c].exe = "loader" => Bindable(mem[c].argv0)' /\ mem'[c].bound = Binds(mem[c].argv0)'
    BY <1>3, <1>4, <1>5 DEF KnownOK
  <2> QED BY <1>3, <1>4, <1>8, <2>1, <2>2, <2>3, <2>4 DEF KnownOK
<1>11. ASSUME NEW q \in Pids \ {p, c} PROVE KnownOK(q)'
  <2>1. KnownOK(q)
    BY DEF KnownInv
  <2>2. /\ pc'[q] = pc[q] /\ mem'[q] = mem[q] /\ plan'[q] = plan[q] /\ hist'[q] = hist[q]
        /\ status'[q] = status[q]
    BY <1>1 DEF KnownInv, TypeInv, TypeOK
  <2> QED BY <1>1, <1>2, <2>1, <2>2, SameKnown
<1> QED BY <1>9, <1>10, <1>11 DEF KnownInv

\* The end of the wait: who waits is not behind the loader, so if it is told that
\* there is no libc, none is bound.
LEMMA WaitKnown ==
  ASSUME KnownInv, NEW p \in Pids, WaitProbe(p), TypeInv'
  PROVE  KnownInv'
<1>0. PICK c, good : c = plan[p].probe /\ good = (status[c] = "zero")
  OBVIOUS
<1>1. /\ pc[p] = "wait" /\ pc[c] = "dead"
      /\ pc' = [pc EXCEPT ![c] = "free", ![p] = IF good THEN "exec" ELSE "init"]
      /\ mem' = [mem EXCEPT ![p].missing = ~good]
      /\ plan' = [plan EXCEPT ![p] = IF good THEN [@ EXCEPT !.probe = NoPid] ELSE NoPlan]
      /\ hist' = [hist EXCEPT ![c] = NoHistory] /\ status' = [status EXCEPT ![c] = "none"]
      /\ host' = host /\ used' = used
  BY <1>0 DEF WaitProbe
<1>2. c # p
  BY <1>1
<1>3. KnownOK(p) /\ mem[p].exe # "loader" /\ ~mem[p].bound
  BY <1>1 DEF KnownInv, KnownOK
<1>4. /\ mem'[p].exe = mem[p].exe /\ mem'[p].env = mem[p].env /\ mem'[p].bound = mem[p].bound
      /\ mem'[p].missing = ~good
  BY <1>1 DEF KnownInv, TypeInv, TypeOK, Memory
<1>5. /\ good => plan'[p].image = plan[p].image /\ plan'[p].envp = plan[p].envp
      /\ ~good => plan'[p] = NoPlan
      /\ pc'[p] = (IF good THEN "exec" ELSE "init")
      /\ hist'[p] = hist[p] /\ status'[p] = status[p] /\ NoPlan.envp = {}
  BY <1>1, <1>2 DEF KnownInv, TypeInv, TypeOK, Plan, NoPlan
<1>6. \A x \in mem'[p].env \cup plan'[p].envp : x.pid \in used'
  BY <1>1, <1>3, <1>4, <1>5 DEF KnownOK
<1>7. good => Bindable(plan[p].image)'
  BY <1>1, <1>3, <1>5 DEF KnownOK, Bindable
<1>8. p \in used'
  BY <1>1, <1>3 DEF KnownOK
<1>9. pc'[p] = "init" => mem'[p].missing /\ ~mem'[p].bound
  BY <1>3, <1>4, <1>5
<1>10. KnownOK(p)'
  BY <1>3, <1>4, <1>5, <1>6, <1>7, <1>8, <1>9 DEF KnownOK
<1>11. ASSUME c \in Pids PROVE KnownOK(c)'
  <2>1. KnownOK(c)
    BY <1>11 DEF KnownInv
  <2>2. /\ pc'[c] = "free" /\ status'[c] = "none" /\ mem'[c] = mem[c] /\ plan'[c] = plan[c]
    BY <1>1, <1>2, <1>11 DEF KnownInv, TypeInv, TypeOK
  <2>3. mem'[c].env = {} /\ Bindable(mem[c].argv0)' = Bindable(mem[c].argv0)
          /\ Binds(mem[c].argv0)' = Binds(mem[c].argv0)
    BY <1>1, <2>1, <2>2 DEF KnownOK, Bindable, Binds
  <2> QED BY <1>1, <2>1, <2>2, <2>3 DEF KnownOK
<1>12. ASSUME NEW q \in Pids \ {p}, q # c PROVE KnownOK(q)'
  <2>1. KnownOK(q)
    BY DEF KnownInv
  <2>2. /\ pc'[q] = pc[q] /\ mem'[q] = mem[q] /\ plan'[q] = plan[q] /\ hist'[q] = hist[q]
        /\ status'[q] = status[q]
    BY <1>1, <1>12 DEF KnownInv, TypeInv, TypeOK
  <2> QED BY <1>1, <2>1, <2>2, SameKnown
<1> QED BY <1>10, <1>11, <1>12 DEF KnownInv

\* A process without libc gives up what calls it.
LEMMA MissingKnown ==
  ASSUME KnownInv, NEW p \in Pids, CgoInitMissing(p), TypeInv'
  PROVE  KnownInv'
<1> DEFINE half == [mem EXCEPT ![p].iscgo = FALSE]
<1>1. half \in [Pids -> Memory]
  BY FlagSet DEF KnownInv, TypeInv, TypeOK
<1>2. /\ half[p].env = mem[p].env /\ half[p].exe = mem[p].exe /\ half[p].bound = mem[p].bound
      /\ half[p].argv0 = mem[p].argv0 /\ half[p].missing = mem[p].missing
      /\ ~half[p].iscgo /\ \A q \in Pids \ {p} : half[q] = mem[q]
  BY DEF KnownInv, TypeInv, TypeOK, Memory
<1>3. /\ mem' = [half EXCEPT ![p].hooks = FALSE] /\ pc[p] = "init" /\ mem[p].missing
      /\ pc' = [pc EXCEPT ![p] = "main"] /\ plan' = plan /\ hist' = hist /\ status' = status
      /\ host' = host /\ used' = used
  BY DEF CgoInitMissing, Goto, pids
<1> HIDE DEF half
<1>4. /\ mem'[p].env = half[p].env /\ mem'[p].exe = half[p].exe /\ mem'[p].bound = half[p].bound
      /\ mem'[p].argv0 = half[p].argv0 /\ mem'[p].missing = half[p].missing
      /\ ~mem'[p].iscgo /\ ~mem'[p].hooks /\ \A q \in Pids \ {p} : mem'[q] = half[q]
  BY <1>1, <1>2, <1>3 DEF Memory
<1>5. OthersStay(p) /\ pc'[p] = "main"
  BY <1>2, <1>3, <1>4 DEF OthersStay, Same, KnownInv, TypeInv, TypeOK
<1>6. KnownOK(p)
  BY DEF KnownInv
<1>7. mem'[p].missing /\ ~mem'[p].bound
  <2>1. mem[p].missing /\ ~mem[p].bound
    BY <1>3, <1>6 DEF KnownOK
  <2> QED BY <1>2, <1>4, <2>1
<1>8. KnownOK(p)'
  <2>1. /\ mem'[p].env = mem[p].env /\ mem'[p].exe = mem[p].exe
        /\ mem'[p].bound = mem[p].bound /\ mem'[p].argv0 = mem[p].argv0
    BY <1>2, <1>4
  <2>2. /\ p \notin used' => p \notin used
        /\ \A x \in mem[p].env \cup plan[p].envp : x.pid \in used'
    BY <1>3, <1>6 DEF KnownOK
  <2>3. p \in used'
    BY <1>3, <1>6 DEF KnownOK
  <2>4. mem[p].exe = "loader" =>
          Bindable(mem[p].argv0)' /\ mem[p].bound = (Binds(mem[p].argv0))'
    <3>1. mem[p].exe = "loader" =>
            Bindable(mem[p].argv0) /\ mem[p].bound = Binds(mem[p].argv0)
      BY <1>6 DEF KnownOK
    <3>2. /\ Bindable(mem[p].argv0)' <=> Bindable(mem[p].argv0)
          /\ Binds(mem[p].argv0)' = Binds(mem[p].argv0)
      BY <1>3, <2>1 DEF Bindable, Binds
    <3> QED BY <2>1, <3>1, <3>2
  <2>5. /\ \A x \in mem[p].env : x.key = "guard" /\ x.pid = p =>
             mem[p].exe = "loader" \/ hist[p].role = "inplace"
        /\ mem[p].bound => mem[p].exe = "loader"
        /\ status[p] = "fault" => hist[p].role = "inplace"
    BY <1>6 DEF KnownOK
  <2> QED BY <1>3, <1>4, <1>5, <1>7, <2>1, <2>2, <2>3, <2>4, <2>5 DEF KnownOK
<1> QED BY <1>3, <1>5, <1>8, OthersKnown

LEMMA SpawnKnown ==
  ASSUME RecordIsReliable, KnownInv, NEW p \in Pids,
         SelfExec(p) \/ \E c \in Free, way \in Ways : Spawn(p, c, way), TypeInv'
  PROVE  KnownInv'
<1>0. ~PidReuse /\ \A x \in mem[p].env : x.pid \in used
  BY DEF RecordIsReliable, KnownInv, KnownOK
<1>1. CASE SelfExec(p)
  <2>1. pc[p] = "main"
    BY <1>1 DEF SelfExec
  <2>2. PICK img \in {"file", mem[p].argv0} :
          Born(p, parent[p], img, FALSE, mem[p].env, "inplace")
    BY <1>1 DEF SelfExec
  <2>3. img \in {"file", "memfd"}
    BY <2>1, RunningImage DEF KnownInv
  <2> QED BY <1>0, <2>2, <2>3, BornKnown DEF Roles
<1>2. ASSUME NEW c \in Free, NEW way \in Ways, Spawn(p, c, way)
      PROVE  KnownInv'
  <2>1. c \in Pids /\ pc[p] # "load"
    BY <1>2 DEF Spawn, Free
  <2>2. mem[p].argv0 \in {"file", "memfd"}
    BY <2>1, RunningImage DEF KnownInv
  <2>3. CASE way = "byhand" /\ pc[p] = "main" /\ ~mem[p].missing
              /\ Born(c, p, mem[p].argv0, TRUE, mem[p].env, "program")
    <3>1. Bindable(mem[p].argv0)
      BY <2>3 DEF KnownInv, KnownOK
    <3> QED BY <1>0, <2>1, <2>2, <2>3, <3>1, BornKnown DEF Roles
  <2>4. CASE \E img \in {"file", mem[p].argv0}, r \in {"program", "foreign"} :
               Born(c, p, img, FALSE, mem[p].env, r)
    BY <1>0, <2>1, <2>2, <2>4, BornKnown DEF Roles
  <2> QED BY <1>2, <2>3, <2>4 DEF Spawn
<1> QED BY <1>1, <1>2

LEMMA KnownStep == RecordIsReliable /\ KnownInv /\ [Next]_vars => KnownInv'
<1> SUFFICES ASSUME RecordIsReliable, KnownInv, [Next]_vars PROVE KnownInv'
  OBVIOUS
<1>1. TypeInv'
  BY TypeStep DEF KnownInv
<1>2. ASSUME NEW c \in Free, Launch(c) PROVE KnownInv'
  <2>1. c \in Pids /\ Born(c, Reaper, "file", FALSE, {}, "program")
    BY <1>2 DEF Launch, Free
  <2> QED BY <1>1, <2>1, BornKnown DEF RecordIsReliable, Roles
<1>3. ASSUME NEW p \in Pids, Startup(p) PROVE KnownInv'
  <2>1. CASE Load(p)
    BY <1>1, <2>1, EndKnown, GotoKnown DEF Load, Endings, PCs
  <2>2. CASE SkipProbe(p) \/ WaitFails(p)
    <3>1. pc[p] \in {"launch", "wait"} /\ Goto(p, "exec") /\ UNCHANGED <<mem, plan>>
      BY <2>2 DEF SkipProbe, WaitFails
    <3>2. Bindable(plan[p].image) /\ mem[p].exe # "loader"
      BY <3>1 DEF KnownInv, KnownOK
    <3> QED BY <1>1, <3>1, <3>2, GotoKnown DEF PCs
  <2>3. CASE ProbeChild(p)
    BY <1>1, <2>3, ExecveKnown, EndKnown DEF ProbeChild, Endings
  <2>4. CASE Reexec(p)
    <3>1. pc[p] = "exec" /\ ~mem[p].bound
      BY <2>4 DEF Reexec, KnownInv, KnownOK
    <3> QED BY <1>1, <2>4, <3>1, ExecveKnown, ReturnKnown DEF Reexec
  <2>5. CASE CgoInitMalloc(p)
    BY <1>1, <2>5, CallLibcKnown DEF CgoInitMalloc
  <2>6. CASE ForkProbe(p)
    BY <1>1, <2>6, ForkKnown DEF RecordIsReliable
  <2> QED BY <1>1, <1>3, <2>1, <2>2, <2>3, <2>4, <2>5, <2>6, ScanKnown, ResolveKnown, WaitKnown,
             MissingKnown
          DEF Startup, Progress
<1>4. ASSUME NEW p \in Pids, Program(p) PROVE KnownInv'
  <2>1. CASE CallFFI(p) \/ Setenv(p) \/ NewThread(p)
    <3>1. pc[p] = "main" /\ CallLibc(p) /\ ~mem[p].missing
      BY <2>1 DEF CallFFI, Setenv, NewThread, KnownInv, KnownOK
    <3> QED BY <1>1, <3>1, CallLibcKnown
  <2>2. CASE Exit(p)
    BY <1>1, <2>2, EndKnown DEF Exit, Endings
  <2> QED BY <1>1, <1>4, <2>1, <2>2, SpawnKnown DEF Program
<1>5. ASSUME NEW p \in Pids, Kill(p) PROVE KnownInv'
  BY <1>1, <1>5, EndKnown DEF Kill, Endings
<1>6. \A p \in Pids : ~Reap(p)
  BY DEF Reap, RecordIsReliable
<1>7. CASE UNCHANGED vars
  <2>1. ASSUME NEW q \in Pids PROVE KnownOK(q)'
    BY <1>7, SameKnown DEF vars, KnownInv
  <2> QED BY <1>1, <2>1 DEF KnownInv
<1> QED BY <1>2, <1>3, <1>4, <1>5, <1>6, <1>7 DEF Next

LEMMA KnownInit == Init => KnownInv
<1> SUFFICES ASSUME Init PROVE KnownInv
  OBVIOUS
<1>1. \A p \in Pids : KnownOK(p)
  BY DEF Init, KnownOK, NoMemory, NoPlan, Fresh
<1> QED BY <1>1, TypeInit DEF KnownInv

\* Whatever is killed, whatever execve, fork and wait do and however copies are
\* started: a program that reached main is recorded as without libc exactly when
\* nothing is bound, and nobody calls an unbound symbol but a program that
\* replaced itself and took its predecessor's guard for its own.
THEOREM RecordIsTrue == RecordIsReliable => (Spec => []LibcIsKnown)
<1> SUFFICES ASSUME RecordIsReliable PROVE Spec => []LibcIsKnown
  OBVIOUS
<1>1. KnownInv /\ [Next]_vars => KnownInv'
  BY KnownStep
<1>2. KnownInv => LibcIsKnown
  BY DEF KnownInv, KnownOK, LibcIsKnown
<1> QED BY <1>1, <1>2, KnownInit, PTL DEF Spec
--------------------------------------------------------------------------------
(* Every copy gets a libc.                                                  *)

\* Nobody is killed, and no system call fails that the bridge cannot do without.
NothingIsLost == ~Kills /\ Faults \subseteq {"fork", "wait"}

\* A host on which every start can get a libc.
CalmHost == host.loader # "none" /\ ~(host.preload /\ host.aborts)

\* The image the loader binds.
Runnable(img) == img = IF host.loader = "glibc" THEN "memfd" ELSE "file"

\* No process is without libc, what is planned binds, and where nobody sees a
\* guard nobody calls what is not bound.
LibcOK(p) ==
  /\ ~mem[p].missing /\ mem[p].argv0 # "bad"
  /\ "memfd" \in {mem[p].exe, mem[p].argv0} => host.loader = "glibc"
  /\ mem[p].exe = "loader" => mem[p].bound /\ Runnable(mem[p].argv0)
  /\ mem[p].bound => mem[p].exe = "loader"
  /\ pc[p] \in {"launch", "wait", "exec", "clone"} => Runnable(plan[p].image)
  /\ pc[p] = "main" => mem[p].bound
  /\ host.bigEnv /\ pc[p] = "init" => mem[p].bound
  /\ host.bigEnv /\ pc[p] = "dead" => status[p] = "zero"

\* c is on its way to status 0 for p, which waits for it: it finds the probe
\* variable in its environment, or runs the program if the environment is too full.
IsProbing(c, p) ==
  /\ parent[c] = p /\ pc[c] # "free"
  /\ pc[c] = "dead" => status[c] = "zero"
  /\ pc[c] = "clone" => Tag("probe", p, "1") \in plan[c].envp
  /\ ~host.bigEnv => /\ pc[c] \in {"clone", "load", "scan", "dead"}
                     /\ pc[c] \in {"load", "scan"} => Tag("probe", p, "1") \in mem[c].env
ProbeOK(p) == pc[p] = "wait" => plan[p].probe \in Pids \ {p} /\ IsProbing(plan[p].probe, p)

LibcInv == TypeInv /\ (CalmHost => \A p \in Pids : LibcOK(p) /\ ProbeOK(p))

\* A step of p that whoever waits for it need not mind.
MovesOn(p) ==
  IF host.bigEnv THEN /\ pc'[p] \notin {"free", "clone"} /\ parent'[p] = parent[p]
                      /\ pc'[p] = "dead" => status'[p] = "zero"
  ELSE pc[p] \notin {"clone", "load", "scan", "dead"}
\* Only p changes, or loses its children.
OnlyMoves(p) ==
  \A q \in Pids \ {p} : /\ pc'[q] = pc[q] /\ mem'[q] = mem[q] /\ plan'[q] = plan[q]
                        /\ status'[q] = status[q]
                        /\ parent'[q] = parent[q] \/ parent[q] = p

LEMMA SameLibc ==
  ASSUME NEW q \in Pids, LibcOK(q), host' = host, pc'[q] = pc[q], mem'[q] = mem[q],
         plan'[q] = plan[q], status'[q] = status[q]
  PROVE  LibcOK(q)'
<1>1. \A img : Runnable(img)' <=> Runnable(img)
  BY DEF Runnable
<1>2. /\ Runnable(plan[q].image)' <=> Runnable(plan[q].image)
      /\ Runnable(mem[q].argv0)' <=> Runnable(mem[q].argv0)
  BY <1>1
<1> QED BY <1>2 DEF LibcOK

LEMMA OthersLibc ==
  ASSUME LibcInv, CalmHost, NEW p \in Pids, host' = host, OnlyMoves(p), TypeInv', LibcOK(p)',
         pc'[p] # "wait",
         \/ MovesOn(p)
         \/ \A q \in Pids \ {p} : pc[q] = "wait" /\ IsProbing(p, q) => IsProbing(p, q)'
  PROVE  LibcInv'
<1>1. ASSUME NEW q \in Pids \ {p} PROVE LibcOK(q)'
  BY SameLibc DEF LibcInv, OnlyMoves
<1>2. ASSUME NEW q \in Pids \ {p} PROVE ProbeOK(q)'
  <2>1. CASE pc'[q] # "wait"
    BY <2>1 DEF ProbeOK
  <2> SUFFICES ASSUME pc'[q] = "wait" PROVE ProbeOK(q)'
    BY <2>1
  <2>2. pc[q] = "wait" /\ plan'[q].probe = plan[q].probe
    BY DEF OnlyMoves
  <2>3. PICK c \in Pids \ {q} : c = plan[q].probe /\ IsProbing(c, q)
    BY <2>2 DEF LibcInv, ProbeOK
  <2>4. IsProbing(c, q)'
    <3>1. CASE c # p
      BY <2>3, <3>1 DEF OnlyMoves, IsProbing
    <3>2. CASE c = p /\ MovesOn(p)
      BY <2>3, <3>2 DEF MovesOn, IsProbing
    <3> QED BY <2>2, <2>3, <3>1, <3>2
  <2> QED BY <2>2, <2>3, <2>4 DEF ProbeOK, IsProbing
<1>3. ProbeOK(p)'
  BY DEF ProbeOK
<1> QED BY <1>1, <1>2, <1>3 DEF LibcInv

LEMMA EndLibc ==
  ASSUME LibcInv, CalmHost, NEW p \in Pids, NEW how \in Endings, End(p, how), TypeInv',
         \/ how = "zero"
         \/ ~host.bigEnv /\ pc[p] \notin {"clone", "load", "scan", "dead"}
  PROVE  LibcInv'
<1>1. /\ pc'[p] = "dead" /\ mem'[p] = NoMemory /\ status'[p] = how /\ host' = host
      /\ \A q \in Pids : parent'[q] = IF parent[q] = p THEN Reaper ELSE parent[q]
      /\ OnlyMoves(p)
  BY DEF End, LibcInv, TypeInv, TypeOK, OnlyMoves
<1>2. /\ NoMemory.exe = "file" /\ NoMemory.argv0 = "file" /\ ~NoMemory.bound
      /\ ~NoMemory.missing
  BY DEF NoMemory, Fresh
<1>3. LibcOK(p)'
  BY <1>1, <1>2 DEF LibcOK
<1>4. ASSUME NEW q \in Pids \ {p}, IsProbing(p, q) PROVE MovesOn(p) \/ IsProbing(p, q)'
  BY <1>1, <1>4 DEF IsProbing, MovesOn
<1> QED BY <1>1, <1>3, <1>4, OthersLibc

LEMMA GotoLibc ==
  ASSUME LibcInv, CalmHost, NEW p \in Pids, NEW where \in PCs \ {"free", "clone", "wait", "dead"},
         Goto(p, where), UNCHANGED <<mem, plan>>, TypeInv',
         where \in {"launch", "exec"} => pc[p] \in {"launch", "wait"},
         where \in {"main", "init"} => mem[p].bound,
         \/ pc[p] \notin {"clone", "load", "scan", "dead"}
         \/ pc[p] = "load" /\ where = "scan"
  PROVE  LibcInv'
<1>1. /\ pc'[p] = where /\ mem' = mem /\ plan' = plan /\ parent' = parent
      /\ host' = host /\ OnlyMoves(p)
  BY DEF Goto, pids, LibcInv, TypeInv, TypeOK, OnlyMoves
<1>2. LibcOK(p)
  BY DEF LibcInv
<1>3. LibcOK(p)'
  BY <1>1, <1>2 DEF LibcOK, Runnable
<1>4. ASSUME NEW q \in Pids \ {p}, IsProbing(p, q) PROVE MovesOn(p) \/ IsProbing(p, q)'
  BY <1>1, <1>4 DEF IsProbing, MovesOn
<1> QED BY <1>1, <1>3, <1>4, OthersLibc

LEMMA CallLibcLibc ==
  ASSUME LibcInv, CalmHost, NEW p \in Pids, pc[p] \in {"init", "main"}, CallLibc(p), TypeInv'
  PROVE  LibcInv'
<1>1. CASE mem[p].bound
  <2>1. Goto(p, "main") /\ UNCHANGED <<mem, plan>>
    BY <1>1 DEF CallLibc
  <2>2. "main" \in PCs \ {"free", "clone", "wait", "dead"}
    BY DEF PCs
  <2>3. pc[p] \notin {"clone", "load", "scan", "dead"}
    OBVIOUS
  <2> QED BY <1>1, <2>1, <2>2, <2>3, GotoLibc
<1>2. CASE ~mem[p].bound
  <2>1. ~host.bigEnv
    BY <1>2 DEF LibcInv, LibcOK
  <2> QED BY <1>2, <2>1, EndLibc DEF CallLibc, Endings
<1> QED BY <1>1, <1>2

\* The bridge finds that there is a libc.
LEMMA ReturnLibc ==
  ASSUME LibcInv, CalmHost, NEW p \in Pids, Return(p, TRUE), TypeInv',
         host.bigEnv => mem[p].bound,
         \/ pc[p] \notin {"clone", "load", "scan", "dead"}
         \/ host.bigEnv
         \/ \A q \in Pids : ~IsProbing(p, q)
  PROVE  LibcInv'
<1>1. /\ pc'[p] = "init" /\ parent' = parent
      /\ host' = host /\ OnlyMoves(p)
  BY DEF Return, Goto, pids, LibcInv, TypeInv, TypeOK, OnlyMoves
<1>2. /\ mem'[p].exe = mem[p].exe /\ mem'[p].argv0 = mem[p].argv0
      /\ mem'[p].bound = mem[p].bound /\ ~mem'[p].missing
  BY DEF Return, LibcInv, TypeInv, TypeOK, Memory
<1>3. LibcOK(p)
  BY DEF LibcInv
<1>4. LibcOK(p)'
  BY <1>1, <1>2, <1>3 DEF LibcOK, Runnable
<1>5. ASSUME NEW q \in Pids \ {p}, IsProbing(p, q) PROVE MovesOn(p) \/ IsProbing(p, q)'
  BY <1>1, <1>5 DEF IsProbing, MovesOn
<1> QED BY <1>1, <1>4, <1>5, OthersLibc

\* execve of the loader with an image it binds; a probe keeps its variable.
LEMMA ExecveLibc ==
  ASSUME LibcInv, CalmHost, NEW p \in Pids, pc[p] \in {"exec", "clone"}, Execve(p), TypeInv'
  PROVE  LibcInv'
<1>0. PICK m : m = Fresh("loader", plan[p].image, plan[p].envp, Binds(plan[p].image))
  OBVIOUS
<1>1. /\ pc'[p] = "load" /\ mem'[p] = m /\ parent' = parent
      /\ host' = host /\ OnlyMoves(p)
  BY <1>0 DEF Execve, pids, LibcInv, TypeInv, TypeOK, OnlyMoves
<1>2. /\ m.exe = "loader" /\ m.argv0 = plan[p].image /\ m.env = plan[p].envp
      /\ m.bound = Binds(plan[p].image) /\ ~m.missing
  BY <1>0 DEF Fresh
<1>3. Runnable(plan[p].image)
  BY DEF LibcInv, LibcOK
<1>4. host.loader \in {"glibc", "musl"}
  BY ConstantsAssumption DEF CalmHost, LibcInv, TypeInv, TypeOK, Host
<1>5. Binds(plan[p].image)
  BY <1>3, <1>4 DEF Runnable, Binds
<1>6. LibcOK(p)'
  BY <1>1, <1>2, <1>3, <1>5 DEF LibcOK, Runnable
<1>7. ASSUME NEW q \in Pids \ {p}, IsProbing(p, q) PROVE IsProbing(p, q)'
  BY <1>1, <1>2, <1>7 DEF IsProbing
<1> QED BY <1>1, <1>6, <1>7, OthersLibc

\* A program starts, under a free pid or in place of another in main.
LEMMA BornLibc ==
  ASSUME LibcInv, CalmHost, NEW c \in Pids, pc[c] \in {"free", "main"},
         NEW by, pc[c] = "main" => by = parent[c],
         NEW img \in {"file", "memfd"}, img = "memfd" => host.loader = "glibc",
         NEW byLoader \in BOOLEAN, byLoader => Runnable(img), NEW e, NEW r,
         Born(c, by, img, byLoader, e, r), TypeInv'
  PROVE  LibcInv'
<1>0. PICK m : m = Fresh(IF byLoader THEN "loader" ELSE img, img, e, byLoader /\ Binds(img))
  OBVIOUS
<1>1. /\ pc'[c] \in {"foreign", "scan", "load"} /\ mem'[c] = m
      /\ host' = host
  BY <1>0 DEF Born, LibcInv, TypeInv, TypeOK
<1>2. \A q \in Pids \ {c} : /\ pc'[q] = pc[q] /\ mem'[q] = mem[q] /\ plan'[q] = plan[q]
                            /\ status'[q] = status[q] /\ parent'[q] = parent[q]
  BY DEF Born, LibcInv, TypeInv, TypeOK
<1>3. /\ m.argv0 = img /\ m.exe = (IF byLoader THEN "loader" ELSE img)
      /\ m.bound = (byLoader /\ Binds(img)) /\ ~m.missing
  BY <1>0 DEF Fresh
<1>4. host.loader \in {"glibc", "musl"}
  BY ConstantsAssumption DEF CalmHost, LibcInv, TypeInv, TypeOK, Host
<1>5. byLoader => Binds(img)
  BY <1>4 DEF Runnable, Binds
<1>6. LibcOK(c)'
  BY <1>1, <1>3, <1>5 DEF LibcOK, Runnable
<1>7. parent'[c] = by
  BY DEF Born, LibcInv, TypeInv, TypeOK
<1>8. ASSUME NEW q \in Pids \ {c} PROVE LibcOK(q)'
  BY <1>1, <1>2, SameLibc DEF LibcInv
<1>9. ASSUME NEW q \in Pids \ {c}, pc'[q] = "wait" PROVE ProbeOK(q)'
  <2>1. pc[q] = "wait" /\ plan'[q].probe = plan[q].probe
    BY <1>2, <1>9
  <2>2. PICK d \in Pids \ {q} : d = plan[q].probe /\ IsProbing(d, q)
    BY <2>1 DEF LibcInv, ProbeOK
  <2>3. d = c => host.bigEnv /\ pc[c] = "main"
    BY <2>2 DEF IsProbing
  <2>4. IsProbing(d, q)'
    <3>1. CASE d # c
      BY <1>1, <1>2, <2>2, <3>1 DEF IsProbing
    <3>2. CASE d = c
      BY <1>1, <1>7, <2>2, <2>3, <3>2 DEF IsProbing
    <3> QED BY <3>1, <3>2
  <2> QED BY <2>1, <2>2, <2>4 DEF ProbeOK, IsProbing
<1>10. ProbeOK(c)' /\ \A q \in Pids \ {c} : ProbeOK(q)'
  BY <1>1, <1>9 DEF ProbeOK
<1> QED BY <1>6, <1>8, <1>10 DEF LibcInv

\* A probe stops at its variable; a program behind the loader has a libc.
LEMMA ScanLibc ==
  ASSUME NothingIsLost, LibcInv, CalmHost, NEW p \in Pids, Scan(p), TypeInv'
  PROVE  LibcInv'
<1>1. pc[p] = "scan"
  BY DEF Scan, ScanFails, ScanProbe, ScanGuarded, ScanFirst
<1>2. ~ScanFails(p)
  BY DEF ScanFails, NothingIsLost
<1>3. CASE ScanProbe(p)
  BY <1>3, EndLibc DEF ScanProbe, Endings
<1>4. ASSUME ~Probing(p), ~host.bigEnv, NEW q \in Pids PROVE ~IsProbing(p, q)
  <2>1. SUFFICES ASSUME IsProbing(p, q) PROVE FALSE
    OBVIOUS
  <2>2. parent[p] = q /\ Tag("probe", q, "1") \in mem[p].env
    BY <1>1, <1>4, <2>1 DEF IsProbing
  <2> QED BY <1>4, <2>2 DEF Probing, Tagged, Tag
<1>5. CASE ScanGuarded(p)
  <2>1. ~host.bigEnv /\ ~Probing(p) /\ Return(p, TRUE)
    BY <1>5 DEF ScanGuarded, Guarded, Tagged
  <2> QED BY <1>4, <2>1, ReturnLibc
<1>6. CASE ScanFirst(p)
  <2>1. /\ pc'[p] = "resolve" /\ mem' = mem /\ parent' = parent
        /\ host' = host /\ OnlyMoves(p)
    BY <1>6 DEF ScanFirst, Goto, pids, LibcInv, TypeInv, TypeOK, OnlyMoves
  <2>2. LibcOK(p)
    BY DEF LibcInv
  <2>3. LibcOK(p)'
    BY <2>1, <2>2 DEF LibcOK, Runnable
  <2>4. ASSUME NEW q \in Pids \ {p}, IsProbing(p, q) PROVE MovesOn(p)
    <3>1. host.bigEnv
      BY <1>4, <1>6, <2>4 DEF ScanFirst
    <3> QED BY <2>1, <3>1 DEF MovesOn
  <2> QED BY <2>1, <2>3, <2>4, OthersLibc
<1> QED BY <1>2, <1>3, <1>5, <1>6 DEF Scan

\* The image that is planned is the one the loader binds.
LEMMA ResolveLibc ==
  ASSUME NothingIsLost, LibcInv, CalmHost, NEW p \in Pids, Resolve(p), TypeInv'
  PROVE  LibcInv'
<1>1. pc[p] = "resolve" /\ Readlink(p) = {mem[p].exe}
  BY DEF Resolve, ResolveFails, ResolveByHand, ResolvePlan, Readlink, NothingIsLost
<1>2. LibcOK(p)
  BY DEF LibcInv
<1>3. ~ResolveFails(p)
  BY DEF ResolveFails, NothingIsLost, CalmHost
<1>4. CASE ResolveByHand(p)
  <2>1. mem[p].bound
    BY <1>1, <1>2, <1>4 DEF ResolveByHand, LibcOK
  <2> QED BY <1>1, <1>4, <2>1, ReturnLibc DEF ResolveByHand
<1>5. CASE ResolvePlan(p)
  <2>1. PICK link \in Readlink(p) \ {"loader"}, copied \in MemfdCopy(p) :
          plan' = [plan EXCEPT ![p] =
                    [real |-> RealExe(p, link), image |-> ExeToRun(link, copied),
                     envp |-> Envp(p, RealExe(p, link)), probe |-> NoPid]]
    BY <1>5 DEF ResolvePlan
  <2>2. /\ pc'[p] = "launch" /\ mem' = mem /\ parent' = parent
        /\ host' = host /\ OnlyMoves(p)
    BY <1>5, <2>1 DEF ResolvePlan, Goto, pids, LibcInv, TypeInv, TypeOK, OnlyMoves
  <2>3. plan'[p].image = ExeToRun(link, copied)
    BY <2>1 DEF LibcInv, TypeInv, TypeOK
  <2>4. link = mem[p].exe /\ link \in {"file", "memfd"}
    BY <1>1 DEF LibcInv, TypeInv, TypeOK, Memory
  <2>5. Runnable(ExeToRun(link, copied))
    <3>1. CASE host.loader = "glibc"
      <4>1. copied
        BY <1>1, <2>1, <3>1 DEF MemfdCopy, NothingIsLost
      <4> QED BY <3>1, <4>1 DEF Runnable, ExeToRun
    <3>2. CASE host.loader # "glibc"
      <4>1. ~copied /\ link = "file"
        BY <1>2, <2>4, <3>2 DEF MemfdCopy, LibcOK
      <4> QED BY <3>2, <4>1 DEF Runnable, ExeToRun
    <3> QED BY <3>1, <3>2
  <2>6. Runnable(plan[p].image)'
    BY <2>2, <2>3, <2>5 DEF Runnable
  <2>7. LibcOK(p)'
    BY <1>2, <2>2, <2>6 DEF LibcOK, Runnable
  <2>8. ASSUME NEW q \in Pids \ {p}, IsProbing(p, q) PROVE MovesOn(p)
    BY <1>1, <2>2, <2>8 DEF IsProbing, MovesOn
  <2> QED BY <2>2, <2>7, <2>8, OthersLibc
<1> QED BY <1>3, <1>4, <1>5 DEF Resolve

\* The probe has its variable.
LEMMA ForkLibc ==
  ASSUME LibcInv, CalmHost, NEW p \in Pids, ForkProbe(p), TypeInv'
  PROVE  LibcInv'
<1>1. PICK c \in Free :
        /\ pc' = [pc EXCEPT ![p] = "wait", ![c] = "clone"]
        /\ parent' = [parent EXCEPT ![c] = p]
        /\ mem' = [mem EXCEPT ![c] = mem[p]]
        /\ plan' = [plan EXCEPT ![p].probe = c,
                               ![c] = [plan[p] EXCEPT !.envp = @ \cup {Tag("probe", p, "1")}]]
        /\ status' = [status EXCEPT ![c] = "none"]
  BY DEF ForkProbe
<1>2. c \in Pids /\ pc[c] = "free" /\ pc[p] = "launch" /\ host' = host /\ p # c
  BY DEF ForkProbe, Free
<1>3. /\ mem'[p] = mem[p] /\ mem'[c] = mem[p] /\ parent'[p] = parent[p] /\ parent'[c] = p
      /\ plan'[p].image = plan[p].image /\ plan'[c].image = plan[p].image
      /\ plan'[p].probe = c /\ Tag("probe", p, "1") \in plan'[c].envp
      /\ pc'[p] = "wait" /\ pc'[c] = "clone" /\ status'[p] = status[p]
  BY <1>1, <1>2 DEF LibcInv, TypeInv, TypeOK, Plan
<1>4. \A q \in Pids \ {p, c} : /\ pc'[q] = pc[q] /\ mem'[q] = mem[q] /\ plan'[q] = plan[q]
                               /\ status'[q] = status[q] /\ parent'[q] = parent[q]
  BY <1>1, <1>2 DEF LibcInv, TypeInv, TypeOK
<1>5. LibcOK(p)
  BY DEF LibcInv
<1>6. Runnable(plan[p].image)
  BY <1>2, <1>5 DEF LibcOK
<1>7. LibcOK(p)' /\ LibcOK(c)'
  BY <1>2, <1>3, <1>5, <1>6 DEF LibcOK, Runnable
<1>8. ASSUME NEW q \in Pids \ {p, c} PROVE LibcOK(q)'
  BY <1>2, <1>4, SameLibc DEF LibcInv
<1>9. ProbeOK(p)' /\ ProbeOK(c)'
  BY <1>2, <1>3 DEF ProbeOK, IsProbing
<1>10. ASSUME NEW q \in Pids \ {p, c}, pc'[q] = "wait" PROVE ProbeOK(q)'
  <2>1. pc[q] = "wait" /\ plan'[q].probe = plan[q].probe
    BY <1>4, <1>10
  <2>2. PICK d \in Pids \ {q} : d = plan[q].probe /\ IsProbing(d, q)
    BY <2>1 DEF LibcInv, ProbeOK
  <2>3. d # c
    BY <1>2, <2>2 DEF IsProbing
  <2>4. IsProbing(d, q)'
    <3>1. CASE d # p
      BY <1>2, <1>4, <2>2, <2>3, <3>1 DEF IsProbing
    <3>2. CASE d = p
      BY <1>2, <1>3, <2>2, <3>2 DEF IsProbing
    <3> QED BY <3>1, <3>2
  <2> QED BY <2>1, <2>2, <2>4 DEF ProbeOK, IsProbing
<1>11. ASSUME NEW q \in Pids \ {p, c} PROVE ProbeOK(q)'
  BY <1>10 DEF ProbeOK
<1> QED BY <1>7, <1>8, <1>9, <1>11 DEF LibcInv

\* The probe came back with status 0.
LEMMA WaitLibc ==
  ASSUME LibcInv, CalmHost, NEW p \in Pids, WaitProbe(p), TypeInv'
  PROVE  LibcInv'
<1>0. PICK c : c = plan[p].probe
  OBVIOUS
<1>1. pc[p] = "wait" /\ pc[c] = "dead"
  BY <1>0 DEF WaitProbe
<1>2. c \in Pids \ {p} /\ parent[c] = p /\ status[c] = "zero"
  BY <1>0, <1>1 DEF LibcInv, ProbeOK, IsProbing
<1>3. /\ pc' = [pc EXCEPT ![c] = "free", ![p] = "exec"]
      /\ mem' = [mem EXCEPT ![p].missing = FALSE]
      /\ plan' = [plan EXCEPT ![p] = [@ EXCEPT !.probe = NoPid]]
      /\ status' = [status EXCEPT ![c] = "none"]
      /\ parent' = [parent EXCEPT ![c] = NoPid]
      /\ host' = host
  BY <1>0, <1>2 DEF WaitProbe
<1>4. /\ mem'[p].exe = mem[p].exe /\ mem'[p].argv0 = mem[p].argv0
      /\ mem'[p].bound = mem[p].bound /\ ~mem'[p].missing
      /\ plan'[p].image = plan[p].image
      /\ pc'[p] = "exec" /\ parent'[p] = parent[p]
  BY <1>2, <1>3 DEF LibcInv, TypeInv, TypeOK, Memory, Plan
<1>5. /\ mem'[c] = mem[c] /\ plan'[c] = plan[c] /\ pc'[c] = "free"
  BY <1>2, <1>3 DEF LibcInv, TypeInv, TypeOK
<1>6. \A q \in Pids \ {p, c} : /\ pc'[q] = pc[q] /\ mem'[q] = mem[q] /\ plan'[q] = plan[q]
                               /\ status'[q] = status[q] /\ parent'[q] = parent[q]
  BY <1>2, <1>3 DEF LibcInv, TypeInv, TypeOK
<1>7. LibcOK(p) /\ LibcOK(c)
  BY <1>2 DEF LibcInv
<1>8. LibcOK(p)' /\ LibcOK(c)'
  BY <1>1, <1>3, <1>4, <1>5, <1>7 DEF LibcOK, Runnable
<1>9. ASSUME NEW q \in Pids \ {p, c} PROVE LibcOK(q)'
  BY <1>3, <1>6, SameLibc DEF LibcInv
<1>10. ASSUME NEW q \in Pids \ {p, c}, pc'[q] = "wait" PROVE ProbeOK(q)'
  <2>1. pc[q] = "wait" /\ plan'[q].probe = plan[q].probe
    BY <1>6, <1>10
  <2>2. PICK d \in Pids \ {q} : d = plan[q].probe /\ IsProbing(d, q)
    BY <2>1 DEF LibcInv, ProbeOK
  <2>3. d # c
    BY <1>2, <2>2 DEF IsProbing
  <2>4. IsProbing(d, q)'
    <3>0. host' = host
      BY <1>3
    <3>1. CASE d # p
      BY <3>0, <1>6, <2>2, <2>3, <3>1 DEF IsProbing
    <3>2. CASE d = p
      BY <3>0, <1>1, <1>4, <2>2, <3>2 DEF IsProbing
    <3> QED BY <3>1, <3>2
  <2> QED BY <2>1, <2>2, <2>4 DEF ProbeOK, IsProbing
<1>11. ProbeOK(p)' /\ ProbeOK(c)' /\ \A q \in Pids \ {p, c} : ProbeOK(q)'
  BY <1>4, <1>5, <1>10 DEF ProbeOK
<1> QED BY <1>8, <1>9, <1>11 DEF LibcInv

\* A process without libc that is none: there is no such process.
LEMMA SpawnLibc ==
  ASSUME LibcInv, CalmHost, NEW p \in Pids,
         SelfExec(p) \/ \E c \in Free, way \in Ways : Spawn(p, c, way), TypeInv'
  PROVE  LibcInv'
<1>0. LibcOK(p)
  BY DEF LibcInv
<1>1. mem[p].argv0 = "memfd" => host.loader = "glibc"
  BY <1>0 DEF LibcOK
<1>2. CASE SelfExec(p)
  <2>1. pc[p] = "main"
    BY <1>2 DEF SelfExec
  <2>2. PICK img \in {"file", mem[p].argv0} :
          Born(p, parent[p], img, FALSE, mem[p].env, "inplace")
    BY <1>2 DEF SelfExec
  <2>3. img \in {"file", "memfd"}
    BY <2>1, RunningImage DEF LibcInv
  <2> QED BY <1>1, <2>1, <2>2, <2>3, BornLibc
<1>3. ASSUME NEW c \in Free, NEW way \in Ways, Spawn(p, c, way)
      PROVE  LibcInv'
  <2>1. c \in Pids /\ pc[c] = "free" /\ pc[p] # "load"
    BY <1>3 DEF Spawn, Free
  <2>2. mem[p].argv0 \in {"file", "memfd"}
    BY <2>1, RunningImage DEF LibcInv
  <2>3. CASE /\ way = "byhand" /\ pc[p] = "main"
             /\ Born(c, p, mem[p].argv0, TRUE, mem[p].env, "program")
    <3>1. mem[p].exe = "loader" /\ Runnable(mem[p].argv0)
      BY <1>0, <2>3 DEF LibcOK
    <3> QED BY <1>1, <2>1, <2>2, <2>3, <3>1, BornLibc
  <2>4. CASE \E img \in {"file", mem[p].argv0}, r \in {"program", "foreign"} :
               Born(c, p, img, FALSE, mem[p].env, r)
    BY <1>1, <2>1, <2>2, <2>4, BornLibc
  <2> QED BY <1>3, <2>3, <2>4 DEF Spawn
<1> QED BY <1>2, <1>3

\* Everything in a host that is calm.
LEMMA CalmStep ==
  ASSUME NothingIsLost, LibcInv, CalmHost, Next, TypeInv'
  PROVE  LibcInv'
<1>1. ASSUME NEW c \in Free, Launch(c) PROVE LibcInv'
  <2>1. c \in Pids /\ pc[c] = "free" /\ Born(c, Reaper, "file", FALSE, {}, "program")
    BY <1>1 DEF Launch, Free
  <2> QED BY <2>1, BornLibc
<1>2. ASSUME NEW p \in Pids, Startup(p) PROVE LibcInv'
  <2>1. CASE Load(p)
    <3>1. pc[p] = "load" /\ Goto(p, "scan") /\ UNCHANGED <<mem, plan>>
      BY <2>1 DEF Load, LibcInv, LibcOK, CalmHost
    <3> QED BY <3>1, GotoLibc DEF PCs
  <2>2. CASE SkipProbe(p) \/ WaitFails(p)
    BY <2>2, GotoLibc DEF SkipProbe, WaitFails, PCs
  <2>3. CASE ProbeChild(p)
    BY <2>3, ExecveLibc DEF ProbeChild, NothingIsLost
  <2>4. CASE Reexec(p)
    BY <2>4, ExecveLibc DEF Reexec, NothingIsLost
  <2>5. CASE CgoInitMalloc(p)
    BY <2>5, CallLibcLibc DEF CgoInitMalloc
  <2>6. ~CgoInitMissing(p)
    BY DEF CgoInitMissing, LibcInv, LibcOK
  <2> QED BY <1>2, <2>1, <2>2, <2>3, <2>4, <2>5, <2>6, ScanLibc, ResolveLibc, ForkLibc, WaitLibc
          DEF Startup, Progress
<1>3. ASSUME NEW p \in Pids, Program(p) PROVE LibcInv'
  <2>1. CASE CallFFI(p) \/ Setenv(p) \/ NewThread(p)
    BY <2>1, CallLibcLibc DEF CallFFI, Setenv, NewThread
  <2>2. CASE Exit(p)
    BY <2>2, EndLibc DEF Exit, Endings
  <2> QED BY <1>3, <2>1, <2>2, SpawnLibc DEF Program
<1>4. \A p \in Pids : ~Kill(p)
  BY DEF Kill, NothingIsLost
<1>5. ASSUME NEW p \in Pids, Reap(p) PROVE LibcInv'
  <2>1. /\ pc[p] = "dead" /\ pc'[p] = "free" /\ mem' = mem /\ plan' = plan
        /\ host' = host /\ OnlyMoves(p)
    BY <1>5 DEF Reap, LibcInv, TypeInv, TypeOK, OnlyMoves
  <2>2. LibcOK(p)
    BY DEF LibcInv
  <2>3. LibcOK(p)'
    BY <2>1, <2>2 DEF LibcOK, Runnable
  <2>4. ASSUME NEW q \in Pids \ {p}, pc[q] = "wait", IsProbing(p, q) PROVE FALSE
    <3>1. parent[p] = q
      BY <2>4 DEF IsProbing
    <3>2. parent[p] # Reaper
      BY <3>1, ConstantsAssumption
    <3> QED BY <1>5, <2>4, <3>1, <3>2 DEF Reap
  <2>5. \A q \in Pids \ {p} : pc[q] = "wait" /\ IsProbing(p, q) => IsProbing(p, q)'
    BY <2>4
  <2> QED BY <2>1, <2>3, <2>5, OthersLibc
<1> QED BY <1>1, <1>2, <1>3, <1>4, <1>5 DEF Next

LEMMA HostStays == TypeInv /\ [Next]_vars => host' = host
<1> SUFFICES ASSUME TypeInv, [Next]_vars PROVE host' = host
  OBVIOUS
<1>1. ASSUME NEW c \in Free, Launch(c) PROVE host' = host
  BY <1>1 DEF Launch, Born
<1>2. ASSUME NEW p \in Pids, Startup(p) PROVE host' = host
  <2>1. CASE Load(p) \/ SkipProbe(p) \/ WaitFails(p) \/ CgoInitMissing(p)
    BY <2>1 DEF Load, SkipProbe, WaitFails, CgoInitMissing, Goto, End, pids
  <2>2. CASE Scan(p)
    BY <2>2 DEF Scan, ScanFails, ScanProbe, ScanGuarded, ScanFirst, Return, Goto, End, pids
  <2>3. CASE Resolve(p)
    BY <2>3 DEF Resolve, ResolveFails, ResolveByHand, ResolvePlan, Return, Goto, pids
  <2>4. CASE ForkProbe(p) \/ WaitProbe(p)
    BY <2>4 DEF ForkProbe, WaitProbe
  <2>5. CASE ProbeChild(p) \/ Reexec(p) \/ CgoInitMalloc(p)
    BY <2>5 DEF ProbeChild, Reexec, CgoInitMalloc, CallLibc, Execve, Return, Goto, End, pids
  <2> QED BY <1>2, <2>1, <2>2, <2>3, <2>4, <2>5 DEF Startup, Progress
<1>3. ASSUME NEW p \in Pids, Program(p) PROVE host' = host
  <2>1. CASE CallFFI(p) \/ Setenv(p) \/ NewThread(p) \/ Exit(p)
    BY <2>1 DEF CallFFI, Setenv, NewThread, Exit, CallLibc, Goto, End, pids
  <2>2. CASE SelfExec(p)
    BY <2>2 DEF SelfExec, Born
  <2>3. ASSUME NEW c \in Free, NEW way \in Ways, Spawn(p, c, way) PROVE host' = host
    BY <2>3 DEF Spawn, Born
  <2> QED BY <1>3, <2>1, <2>2, <2>3 DEF Program
<1>4. ASSUME NEW p \in Pids, Kill(p) \/ Reap(p) PROVE host' = host
  BY <1>4 DEF Kill, Reap, End
<1> QED BY <1>1, <1>2, <1>3, <1>4 DEF Next, vars

LEMMA LibcStep == NothingIsLost /\ LibcInv /\ [Next]_vars => LibcInv'
<1> SUFFICES ASSUME NothingIsLost, LibcInv, [Next]_vars PROVE LibcInv'
  OBVIOUS
<1>1. TypeInv' /\ host' = host
  BY TypeStep, HostStays DEF LibcInv
<1>2. CASE ~CalmHost
  BY <1>1, <1>2 DEF LibcInv, CalmHost
<1>3. CASE CalmHost /\ Next
  BY <1>1, <1>3, CalmStep
<1>4. CASE CalmHost /\ UNCHANGED vars
  <2>1. ASSUME NEW q \in Pids PROVE LibcOK(q)'
    BY <1>4, SameLibc DEF vars, LibcInv
  <2>2. ASSUME NEW q \in Pids PROVE ProbeOK(q)'
    BY <1>4 DEF vars, LibcInv, ProbeOK, IsProbing
  <2> QED BY <1>1, <2>1, <2>2 DEF LibcInv
<1> QED BY <1>2, <1>3, <1>4

LEMMA LibcInit == Init => LibcInv
<1> SUFFICES ASSUME Init PROVE LibcInv
  OBVIOUS
<1>1. \A p \in Pids : LibcOK(p) /\ ProbeOK(p)
  BY DEF Init, LibcOK, ProbeOK, NoMemory, Fresh
<1> QED BY <1>1, TypeInit DEF LibcInv

\* However it is started, and also where pids are handed out again, parents do
\* not wait and the environment is too full for the guard: on a host with a loader
\* and no preloaded library that aborts, a program that reached main has a libc.
THEOREM CopiesGetLibc == NothingIsLost => (Spec => []EveryCopyGetsLibc)
<1> SUFFICES ASSUME NothingIsLost PROVE Spec => []EveryCopyGetsLibc
  OBVIOUS
<1>1. LibcInv /\ [Next]_vars => LibcInv'
  BY LibcStep
<1>2. LibcInv => EveryCopyGetsLibc
  BY DEF LibcInv, LibcOK, CalmHost, EveryCopyGetsLibc
<1> QED BY <1>1, <1>2, LibcInit, PTL DEF Spec
--------------------------------------------------------------------------------
(* Every copy knows itself.                                                 *)

\* The conditions under which a copy finds out what it is: nobody is killed, a
\* parent outlives its children, nothing fails but the fork and the wait of the
\* probe, each copy is run by the kernel under a pid of its own, and the
\* environment fits.  Pids may be handed out again.
FamiliesHold ==
  /\ Faults \subseteq {"fork", "wait"} /\ ~Kills /\ ParentsWait
  /\ Ways \cap {"byhand", "selfexec"} = {}
  /\ \A h \in Hosts : ~h.bigEnv

\* The parent is there, and is no probe.
Kin(q) ==
  \/ parent[q] = Reaper
  \/ parent[q] \in Pids \ {q} /\ Alive(parent[q]) /\ hist[parent[q]].role # "probe"

\* The environment is that of the parent, which has reached main or is foreign;
\* only a program starts a copy from a memfd.
Inherited(q) ==
  \/ parent[q] = Reaper /\ mem[q].env = {} /\ mem[q].exe = "file" /\ pc[q] # "foreign"
  \/ /\ parent[q] # Reaper /\ mem[q].env = mem[parent[q]].env
     /\ \/ pc[parent[q]] = "main"
        \/ pc[parent[q]] = "foreign" /\ pc[q] # "foreign" /\ mem[q].exe = "file"

\* What q's bridge writes: q's own entries, and they are true.
Recorded(q, e) == /\ OwnEntries(q, e)
                  /\ Tag("exe", q, "file") \in e
                  /\ Tag("argv0", q, hist[q].invoked) \in e

\* A program on its first way through the bridge, and one that was re-executed.
First(q) ==
  /\ mem[q].exe \in {"file", "memfd"}
  /\ mem[q].argv0 = mem[q].exe /\ hist[q].invoked = mem[q].exe
  /\ Inherited(q)
  /\ pc[q] \in {"load", "scan", "resolve", "launch", "wait", "exec"}
  /\ pc[q] = "resolve" /\ mem[q].exe = "memfd" => plan[q].real = "file"
  /\ pc[q] \in {"launch", "wait", "exec"} => Recorded(q, plan[q].envp)
Second(q) ==
  /\ mem[q].exe = "loader" /\ Recorded(q, mem[q].env)
  /\ pc[q] \in {"load", "scan", "init", "main"}

\* A probe is on its way to its end, with its variable.
Probe(q) ==
  /\ parent[q] # Reaper /\ pc[q] \in {"clone", "load", "scan"}
  /\ Tag("probe", parent[q], "1") \in IF pc[q] = "clone" THEN plan[q].envp ELSE mem[q].env

\* On a host where a program gets a libc.
CalmOK(q) ==
  /\ status[q] # "fault"
  /\ Alive(q) =>
       /\ Kin(q)
       /\ CASE hist[q].role = "program" -> First(q) \/ Second(q)
            [] hist[q].role = "probe"   -> Probe(q)
            [] hist[q].role = "foreign" -> pc[q] = "foreign" /\ Inherited(q)
            [] OTHER -> FALSE

\* On the others nobody comes past the loader, and no variable past the bridge.
PoorOK(q) ==
  /\ status[q] # "fault"
  /\ hist[q].invoked = "file"
  /\ pc[q] # "load" => mem[q].env = {} /\ mem[q].exe = "file" /\ mem[q].argv0 = "file"
  /\ pc[q] \in {"launch", "wait", "exec", "clone", "load"} => host.loader # "none"
  /\ pc[q] = "init" => mem[q].missing
  /\ pc[q] = "main" => mem[q].missing /\ ~mem[q].hooks /\ ~mem[q].iscgo

SelfInv == LibcInv /\ \A q \in Pids : IF CalmHost THEN CalmOK(q) ELSE PoorOK(q)

\* The children of p, if it has any that live, do not mind its step.
KeepsFamily(p) ==
  \/ /\ Alive(p) /\ Alive(p)' /\ hist'[p].role = hist[p].role
     /\ pc[p] \in {"main", "foreign"} => pc'[p] = pc[p] /\ mem'[p].env = mem[p].env
     /\ parent' = parent
  \/ \A q \in Pids \ {p} : Alive(q) => parent[q] # p

LEMMA SameCalm ==
  ASSUME SelfInv, CalmHost, NEW p \in Pids, KeepsFamily(p), OnlyMoves(p), NEW q \in Pids \ {p},
         \A r \in Pids \ {p} : hist'[r] = hist[r]
  PROVE  CalmOK(q)'
<1>1. /\ pc'[q] = pc[q] /\ mem'[q] = mem[q] /\ plan'[q] = plan[q] /\ hist'[q] = hist[q]
      /\ status'[q] = status[q] /\ CalmOK(q)
  BY DEF SelfInv, OnlyMoves
<1>2. CASE ~Alive(q)
  BY <1>1, <1>2 DEF CalmOK, Alive
<1>3. CASE Alive(q)
  <2>1. parent'[q] = parent[q] /\ Kin(q)
    BY <1>1, <1>3 DEF OnlyMoves, KeepsFamily, CalmOK
  <2>2. ASSUME parent[q] \in Pids \ {q}
        PROVE  /\ Alive(parent[q]) => Alive(parent[q])'
               /\ hist'[parent[q]].role = hist[parent[q]].role
               /\ pc[parent[q]] \in {"main", "foreign"} =>
                    pc'[parent[q]] = pc[parent[q]] /\ mem'[parent[q]].env = mem[parent[q]].env
    BY <1>3, <2>1, <2>2 DEF OnlyMoves, KeepsFamily, Alive
  <2>3. Kin(q)'
    BY <2>1, <2>2 DEF Kin, Alive
  <2>4. Inherited(q) => Inherited(q)'
    BY <1>1, <2>1, <2>2 DEF Kin, Inherited
  <2>5. /\ Recorded(q, mem[q].env) => Recorded(q, mem[q].env)'
        /\ Recorded(q, plan[q].envp) => Recorded(q, plan[q].envp)'
    BY <1>1 DEF Recorded, OwnEntries
  <2>6. (First(q) => First(q)') /\ (Second(q) => Second(q)') /\ (Probe(q) => Probe(q)')
    BY <1>1, <2>1, <2>4, <2>5 DEF First, Second, Probe
  <2> QED BY <1>1, <1>3, <2>3, <2>4, <2>6 DEF CalmOK
<1> QED BY <1>2, <1>3

LEMMA OthersCalm ==
  ASSUME SelfInv, CalmHost, NEW p \in Pids, KeepsFamily(p), OnlyMoves(p), host' = host,
         \A r \in Pids \ {p} : hist'[r] = hist[r], LibcInv', CalmOK(p)'
  PROVE  SelfInv'
<1>1. \A q \in Pids \ {p} : CalmOK(q)'
  BY SameCalm
<1>2. CalmHost'
  BY DEF CalmHost
<1> QED BY <1>1, <1>2 DEF SelfInv

\* What does not change for p itself: its parent is another process.
LEMMA OwnKin ==
  ASSUME SelfInv, CalmHost, NEW p \in Pids, Alive(p), OnlyMoves(p), parent'[p] = parent[p],
         \A r \in Pids \ {p} : hist'[r] = hist[r]
  PROVE  /\ Kin(p)'
         /\ Inherited(p) /\ mem'[p].env = mem[p].env /\ mem'[p].exe = mem[p].exe
              /\ (pc'[p] = "foreign" <=> pc[p] = "foreign") => Inherited(p)'
<1>1. Kin(p)
  BY DEF SelfInv, CalmOK
<1>2. CASE parent[p] = Reaper
  BY <1>1, <1>2 DEF Kin, Inherited
<1>3. CASE parent[p] # Reaper
  <2>1. /\ parent[p] \in Pids \ {p} /\ pc'[parent[p]] = pc[parent[p]]
        /\ mem'[parent[p]] = mem[parent[p]] /\ hist'[parent[p]] = hist[parent[p]]
    BY <1>1, <1>3 DEF Kin, OnlyMoves
  <2> QED BY <1>1, <1>3, <2>1 DEF Kin, Inherited, Alive
<1> QED BY <1>2, <1>3

\* No process has a living child but one that is alive and no probe.
LEMMA Childless ==
  ASSUME SelfInv, CalmHost, NEW p \in Pids, ~Alive(p) \/ hist[p].role = "probe",
         NEW q \in Pids, Alive(q)
  PROVE  parent[q] # p
<1>1. Kin(q)
  BY DEF SelfInv, CalmOK
<1> QED BY <1>1, ConstantsAssumption DEF Kin

LEMMA EndCalm ==
  ASSUME SelfInv, CalmHost, NEW p \in Pids, NEW how \in Endings \ {"fault"}, End(p, how), LibcInv',
         \A q \in Pids : Alive(q) => parent[q] # p
  PROVE  SelfInv'
<1>1. /\ pc'[p] = "dead" /\ status'[p] = how /\ host' = host /\ hist' = hist
      /\ \A q \in Pids : parent'[q] = IF parent[q] = p THEN Reaper ELSE parent[q]
      /\ OnlyMoves(p)
  BY DEF End, SelfInv, LibcInv, TypeInv, TypeOK, OnlyMoves
<1>2. CalmOK(p)'
  BY <1>1 DEF CalmOK, Alive
<1> QED BY <1>1, <1>2, OthersCalm DEF KeepsFamily

\* A step on a program's way, without a change to what it is.
LEMMA WayCalm ==
  ASSUME SelfInv, CalmHost, NEW p \in Pids, hist[p].role = "program", Alive(p), OnlyMoves(p),
         LibcInv', host' = host, parent' = parent, hist' = hist, status' = status,
         mem'[p].exe = mem[p].exe, mem'[p].argv0 = mem[p].argv0, mem'[p].env = mem[p].env,
         First(p) \/ Second(p) =>
           \/ /\ First(p)
              /\ pc'[p] \in {"scan", "resolve", "launch", "wait", "exec"}
              /\ pc'[p] = "resolve" /\ mem[p].exe = "memfd" => plan'[p].real = "file"
              /\ pc'[p] \in {"launch", "wait", "exec"} => Recorded(p, plan[p].envp)'
           \/ /\ Second(p)
              /\ pc'[p] \in {"scan", "init", "main"}
              /\ pc[p] = "main" => pc'[p] = "main"
  PROVE  SelfInv'
<1>1. CalmOK(p)
  BY DEF SelfInv
<1>2. First(p) \/ Second(p)
  BY <1>1 DEF CalmOK
<1>3. Kin(p)' /\ (Inherited(p) /\ pc'[p] # "foreign" /\ pc[p] # "foreign" => Inherited(p)')
  BY OwnKin
<1>4. CASE /\ First(p)
           /\ pc'[p] \in {"scan", "resolve", "launch", "wait", "exec"}
           /\ pc'[p] = "resolve" /\ mem[p].exe = "memfd" => plan'[p].real = "file"
           /\ pc'[p] \in {"launch", "wait", "exec"} => Recorded(p, plan[p].envp)'
  <2>1. First(p)'
    BY <1>3, <1>4 DEF First
  <2>2. CalmOK(p)'
    BY <1>1, <1>3, <2>1 DEF CalmOK
  <2>3. KeepsFamily(p)
    BY <1>4 DEF KeepsFamily, First, Alive
  <2> QED BY <2>2, <2>3, OthersCalm
<1>5. CASE /\ Second(p)
           /\ pc'[p] \in {"scan", "init", "main"}
           /\ pc[p] = "main" => pc'[p] = "main"
  <2>1. Recorded(p, mem[p].env)'
    BY <1>5 DEF Second, Recorded, OwnEntries
  <2>2. Second(p)'
    BY <1>5, <2>1 DEF Second
  <2>3. CalmOK(p)'
    BY <1>1, <1>3, <2>2 DEF CalmOK
  <2>4. KeepsFamily(p)
    BY <1>5 DEF KeepsFamily, Second, Alive
  <2> QED BY <2>3, <2>4, OthersCalm
<1> QED BY <1>2, <1>4, <1>5

LEMMA BornCalm ==
  ASSUME SelfInv, CalmHost, NEW c \in Free, NEW by, NEW img \in {"file", "memfd"}, NEW e,
         NEW r \in {"program", "foreign"}, Born(c, by, img, FALSE, e, r), LibcInv',
         \/ by = Reaper /\ e = {} /\ img = "file" /\ r = "program"
         \/ /\ by \in Pids /\ e = mem[by].env
            /\ \/ pc[by] = "main"
               \/ pc[by] = "foreign" /\ img = "file" /\ r = "program"
  PROVE  SelfInv'
<1>0. c \in Pids /\ pc[c] = "free"
  BY DEF Free
<1>1. /\ pc'[c] = (IF r = "foreign" THEN "foreign" ELSE IF img = "file" THEN "scan" ELSE "load")
      /\ hist'[c].role = r /\ hist'[c].invoked = img /\ status'[c] = "none" /\ parent'[c] = by
      /\ mem'[c].env = e /\ mem'[c].exe = img /\ mem'[c].argv0 = img
      /\ host' = host
  BY <1>0 DEF Born, Fresh, SelfInv, LibcInv, TypeInv, TypeOK
<1>2. OnlyMoves(c) /\ (\A q \in Pids \ {c} : hist'[q] = hist[q] /\ parent'[q] = parent[q])
  BY <1>0 DEF Born, SelfInv, LibcInv, TypeInv, TypeOK, OnlyMoves
<1>3. KeepsFamily(c)
  BY <1>0, Childless DEF KeepsFamily, Alive
<1>4. by # Reaper =>
        /\ by \in Pids \ {c} /\ Alive(by) /\ hist[by].role # "probe"
        /\ pc'[by] = pc[by] /\ mem'[by] = mem[by] /\ hist'[by] = hist[by]
  <2> SUFFICES ASSUME by # Reaper PROVE by \in Pids \ {c} /\ Alive(by) /\ hist[by].role # "probe"
    BY <1>2 DEF OnlyMoves
  <2>1. by \in Pids \ {c} /\ Alive(by)
    BY <1>0 DEF Alive
  <2>2. CalmOK(by)
    BY <2>1 DEF SelfInv
  <2> QED BY <2>1, <2>2 DEF CalmOK, Probe
<1>5. Kin(c)' /\ Inherited(c)'
  BY <1>1, <1>4, ConstantsAssumption DEF Kin, Inherited, Alive
<1>6. r = "program" => First(c)'
  BY <1>1, <1>5 DEF First
<1>7. CalmOK(c)'
  BY <1>1, <1>5, <1>6 DEF CalmOK
<1> QED BY <1>0, <1>1, <1>2, <1>3, <1>7, OthersCalm

\* Whoever scans its environment finds its own guard there if it was re-executed,
\* and nobody's that is now its pid if not.
LEMMA GuardsSeen ==
  ASSUME FamiliesHold, SelfInv, CalmHost, NEW p \in Pids, pc[p] = "scan", hist[p].role = "program"
  PROVE  /\ ~Probing(p)
         /\ Second(p) => Guarded(p)
         /\ First(p) => /\ ~Guarded(p)
                        /\ mem[p].exe = "memfd" => ParentExe(p) = "file"
<1>1. ~host.bigEnv
  BY DEF FamiliesHold, SelfInv, LibcInv, TypeInv, TypeOK
<1>2. CASE Second(p)
  <2>1. OwnEntries(p, mem[p].env) /\ ~First(p)
    BY <1>2 DEF Second, Recorded, First
  <2>2. \A x \in mem[p].env : x.key # "probe"
    BY <2>1 DEF OwnEntries
  <2>3. Tag("guard", p, "1") \in mem[p].env
    BY <2>1 DEF OwnEntries
  <2> QED BY <1>1, <2>1, <2>2, <2>3 DEF Probing, Guarded, Tagged, Tag
<1>3. CASE First(p) /\ mem[p].env = {}
  <2>1. parent[p] = Reaper \/ (parent[p] # Reaper /\ pc[parent[p]] \in {"main", "foreign"})
    BY <1>3 DEF First, Inherited
  <2>2. mem[p].exe # "loader"
    BY <1>3 DEF First
  <2>3. mem[p].exe = "memfd" => pc[parent[p]] = "main" /\ parent[p] # Reaper
          /\ mem[parent[p]].env = {}
    BY <1>3 DEF First, Inherited
  <2>4. mem[p].exe # "memfd"
    <3> SUFFICES ASSUME mem[p].exe = "memfd" PROVE FALSE
      OBVIOUS
    <3>1. parent[p] \in Pids /\ CalmOK(parent[p])
      BY <2>3 DEF SelfInv, CalmOK, Kin, Alive
    <3>2. Recorded(parent[p], {})
      BY <2>3, <3>1 DEF CalmOK, First, Second, Probe, Alive
    <3> QED BY <3>2 DEF Recorded
  <2> QED BY <1>3, <2>2, <2>4 DEF Probing, Guarded, Tagged, Second
<1>4. CASE First(p) /\ mem[p].env # {}
  <2>1. PICK g \in Pids : pc[g] = "main" /\ mem[p].env = mem[g].env
                          /\ (mem[p].exe = "memfd" => g = parent[p])
    <3>1. /\ parent[p] \in Pids /\ mem[p].env = mem[parent[p]].env
          /\ pc[parent[p]] = "main" \/ (pc[parent[p]] = "foreign" /\ mem[p].exe = "file")
      BY <1>4 DEF First, Inherited, SelfInv, CalmOK, Kin, Alive
    <3>2. CASE pc[parent[p]] = "main"
      BY <3>1, <3>2
    <3>3. CASE pc[parent[p]] = "foreign" /\ mem[p].exe = "file"
      <4>0. PICK f \in Pids : f = parent[p]
        BY <3>1
      <4>1. CalmOK(f) /\ Alive(f)
        BY <3>3, <4>0 DEF SelfInv, Alive
      <4>2. Inherited(f)
        BY <3>3, <4>0, <4>1 DEF CalmOK, First, Second, Probe
      <4>3. parent[f] # Reaper /\ mem[f].env = mem[parent[f]].env /\ pc[parent[f]] = "main"
        BY <3>3, <4>0, <4>2 DEF Inherited
      <4>4. parent[f] \in Pids
        BY <4>1, <4>3 DEF CalmOK, Kin
      <4> QED BY <3>1, <3>3, <4>0, <4>3, <4>4
    <3> QED BY <3>1, <3>2, <3>3
  <2>2. Recorded(g, mem[g].env)
    BY <2>1 DEF SelfInv, CalmOK, First, Second, Probe, Alive
  <2>3. g # p
    BY <2>1
  <2>4. \A x \in mem[p].env : x.pid = g /\ x.key # "probe"
    BY <2>1, <2>2 DEF Recorded, OwnEntries
  <2>5. ~Probing(p) /\ ~Guarded(p)
    BY <2>3, <2>4 DEF Probing, Guarded, Tagged
  <2>6. ASSUME mem[p].exe = "memfd" PROVE ParentExe(p) = "file"
    <3> DEFINE found == Tagged(p, "exe", parent[p])
    <3>1. Tag("exe", g, "file") \in found
      BY <1>1, <2>1, <2>2, <2>6 DEF Recorded, Tagged, Tag
    <3>2. \A x \in found : x.val = "file"
      BY <2>1, <2>2 DEF Recorded, OwnEntries, Tagged, Tag
    <3>3. ParentExe(p) = (CHOOSE x \in found : TRUE).val
      BY <3>1 DEF ParentExe
    <3> HIDE DEF found
    <3>4. (CHOOSE x \in found : TRUE) \in found
      BY <3>1
    <3> QED BY <3>2, <3>3, <3>4
  <2> QED BY <1>4, <2>5, <2>6 DEF First, Second
<1> QED BY <1>2, <1>3, <1>4 DEF SelfInv, CalmOK, Alive

LEMMA ScanCalm ==
  ASSUME FamiliesHold, SelfInv, CalmHost, NEW p \in Pids, Scan(p), LibcInv'
  PROVE  SelfInv'
<1>1. pc[p] = "scan" /\ CalmOK(p) /\ Alive(p)
  BY DEF Scan, ScanFails, ScanProbe, ScanGuarded, ScanFirst, SelfInv, Alive
<1>2. ~ScanFails(p) /\ ~host.bigEnv
  BY DEF ScanFails, FamiliesHold, SelfInv, LibcInv, TypeInv, TypeOK
<1>3. CASE hist[p].role = "probe"
  <2>1. Tag("probe", parent[p], "1") \in mem[p].env
    BY <1>1, <1>3 DEF CalmOK, Probe
  <2>2. Probing(p)
    BY <1>2, <2>1 DEF Probing, Tagged, Tag
  <2>3. ScanProbe(p)
    BY <1>2, <2>2 DEF Scan, ScanGuarded, ScanFirst
  <2>4. "zero" \in Endings \ {"fault"} /\ End(p, "zero")
    BY <2>3 DEF ScanProbe, Endings
  <2>5. \A q \in Pids : Alive(q) => parent[q] # p
    BY <1>3, Childless
  <2> QED BY <2>4, <2>5, EndCalm
<1>4. CASE hist[p].role = "program"
  <2>1. ~ScanProbe(p)
    BY <1>1, <1>4, GuardsSeen DEF ScanProbe
  <2>2. CASE ScanGuarded(p)
    <3>1. /\ pc'[p] = "init" /\ host' = host /\ parent' = parent /\ hist' = hist /\ status' = status
          /\ mem'[p].exe = mem[p].exe /\ mem'[p].argv0 = mem[p].argv0 /\ mem'[p].env = mem[p].env
          /\ OnlyMoves(p)
      BY <2>2 DEF ScanGuarded, Return, Goto, pids, SelfInv, LibcInv, TypeInv, TypeOK, Memory,
                  OnlyMoves
    <3>2. Second(p)
      BY <1>1, <1>4, <2>2, GuardsSeen DEF ScanGuarded, CalmOK
    <3> QED BY <1>1, <1>4, <3>1, <3>2, WayCalm
  <2>3. CASE ScanFirst(p)
    <3>1. /\ pc'[p] = "resolve" /\ host' = host /\ parent' = parent /\ hist' = hist
          /\ status' = status /\ mem' = mem /\ OnlyMoves(p) /\ plan'[p].real = ParentExe(p)
      BY <2>3 DEF ScanFirst, Goto, pids, SelfInv, LibcInv, TypeInv, TypeOK, Plan, OnlyMoves
    <3>2. First(p) /\ (mem[p].exe = "memfd" => ParentExe(p) = "file")
      BY <1>1, <1>4, <2>3, GuardsSeen DEF ScanFirst, CalmOK
    <3> QED BY <1>1, <1>4, <3>1, <3>2, WayCalm
  <2> QED BY <1>2, <2>1, <2>2, <2>3 DEF Scan
<1> QED BY <1>1, <1>3, <1>4 DEF CalmOK

LEMMA ResolveCalm ==
  ASSUME FamiliesHold, SelfInv, CalmHost, NEW p \in Pids, Resolve(p), LibcInv'
  PROVE  SelfInv'
<1>1. pc[p] = "resolve" /\ CalmOK(p) /\ Alive(p)
  BY DEF Resolve, ResolveFails, ResolveByHand, ResolvePlan, SelfInv, Alive
<1>2. /\ First(p) /\ hist[p].role = "program" /\ ~Second(p)
  BY <1>1 DEF CalmOK, First, Second, Probe
<1>3. Readlink(p) = {mem[p].exe} /\ mem[p].exe # "loader"
  BY <1>2 DEF Readlink, FamiliesHold, First
<1>4. ResolvePlan(p)
  BY <1>3 DEF Resolve, ResolveFails, ResolveByHand, FamiliesHold, CalmHost
<1>5. PICK link \in Readlink(p) \ {"loader"}, copied \in MemfdCopy(p) :
        plan' = [plan EXCEPT ![p] =
                  [real |-> RealExe(p, link), image |-> ExeToRun(link, copied),
                   envp |-> Envp(p, RealExe(p, link)), probe |-> NoPid]]
  BY <1>4 DEF ResolvePlan
<1>6. /\ pc'[p] = "launch" /\ host' = host /\ parent' = parent /\ hist' = hist
      /\ status' = status /\ mem' = mem /\ OnlyMoves(p)
  BY <1>4, <1>5 DEF ResolvePlan, Goto, pids, SelfInv, LibcInv, TypeInv, TypeOK, OnlyMoves
<1>7. plan'[p].envp = Envp(p, RealExe(p, link))
  BY <1>5 DEF SelfInv, LibcInv, TypeInv, TypeOK
<1>8. link = mem[p].exe
  BY <1>3
<1>9. RealExe(p, link) = "file"
  BY <1>1, <1>2, <1>8 DEF RealExe, First
<1>10. OwnEntries(p, Envp(p, "file"))
  BY EnvpIsOwn DEF SelfInv, LibcInv
<1>11. /\ Tag("exe", p, "file") \in Envp(p, "file")
       /\ Tag("argv0", p, hist[p].invoked) \in Envp(p, "file")
  BY <1>2 DEF Envp, First
<1>12. Recorded(p, plan[p].envp)'
  BY <1>6, <1>7, <1>9, <1>10, <1>11 DEF Recorded, OwnEntries
<1> QED BY <1>1, <1>2, <1>6, <1>12, WayCalm

LEMMA ForkCalm ==
  ASSUME SelfInv, CalmHost, NEW p \in Pids, ForkProbe(p), LibcInv'
  PROVE  SelfInv'
<1>1. PICK c \in Free :
        /\ pc' = [pc EXCEPT ![p] = "wait", ![c] = "clone"]
        /\ parent' = [parent EXCEPT ![c] = p]
        /\ mem' = [mem EXCEPT ![c] = mem[p]]
        /\ plan' = [plan EXCEPT ![p].probe = c,
                               ![c] = [plan[p] EXCEPT !.envp = @ \cup {Tag("probe", p, "1")}]]
        /\ status' = [status EXCEPT ![c] = "none"]
        /\ hist' = [hist EXCEPT ![c] = [hist[p] EXCEPT !.role = "probe"]]
  BY DEF ForkProbe
<1>2. c \in Pids /\ pc[c] = "free" /\ pc[p] = "launch" /\ host' = host /\ p # c
  BY DEF ForkProbe, Free
<1>3. /\ mem' [p] = mem[p] /\ hist'[p] = hist[p] /\ parent'[p] = parent[p] /\ parent'[c] = p
      /\ plan'[p].envp = plan[p].envp /\ Tag("probe", p, "1") \in plan'[c].envp
      /\ pc'[p] = "wait" /\ pc'[c] = "clone" /\ status'[p] = status[p] /\ status'[c] = "none"
      /\ hist'[c].role = "probe"
  BY <1>1, <1>2 DEF SelfInv, LibcInv, TypeInv, TypeOK, Plan, History
<1>4. \A q \in Pids \ {p, c} : /\ pc'[q] = pc[q] /\ mem'[q] = mem[q] /\ plan'[q] = plan[q]
                               /\ status'[q] = status[q] /\ parent'[q] = parent[q]
                               /\ hist'[q] = hist[q]
  BY <1>1, <1>2 DEF SelfInv, LibcInv, TypeInv, TypeOK
<1>5. CalmOK(p) /\ First(p) /\ hist[p].role = "program" /\ Kin(p)
  BY <1>2 DEF SelfInv, CalmOK, First, Second, Probe, Alive
<1>6. \A q \in Pids : Alive(q) => parent[q] # c
  BY <1>2, Childless DEF Alive
<1>7. CalmOK(c)'
  <2>1. Kin(c)' /\ Probe(c)'
    BY <1>2, <1>3, <1>5, ConstantsAssumption DEF Kin, Probe, Alive
  <2> QED BY <1>3, <2>1 DEF CalmOK
<1>8. CalmOK(p)'
  <2>1. parent[p] # c /\ parent[p] # p
    BY <1>2, <1>5, <1>6, ConstantsAssumption DEF Kin, Alive
  <2>2. parent[p] \in Pids => /\ pc'[parent[p]] = pc[parent[p]] /\ mem'[parent[p]] = mem[parent[p]]
                              /\ hist'[parent[p]] = hist[parent[p]]
    BY <1>4, <2>1
  <2>3. Kin(p)' /\ Inherited(p)'
    BY <1>2, <1>3, <1>5, <2>2 DEF Kin, Inherited, First, Alive
  <2>4. Recorded(p, plan[p].envp)'
    BY <1>2, <1>3, <1>5 DEF Recorded, OwnEntries, First
  <2>5. First(p)'
    BY <1>3, <1>5, <2>3, <2>4 DEF First
  <2> QED BY <1>3, <1>5, <2>3, <2>5 DEF CalmOK
<1>9. ASSUME NEW q \in Pids \ {p, c} PROVE CalmOK(q)'
  <2>1. CalmOK(q)
    BY DEF SelfInv
  <2>2. CASE ~Alive(q)
    BY <1>4, <2>1, <2>2 DEF CalmOK, Alive
  <2>3. CASE Alive(q)
    <3>1. /\ Kin(q) /\ parent[q] # c /\ pc'[q] = pc[q] /\ mem'[q] = mem[q] /\ plan'[q] = plan[q]
          /\ status'[q] = status[q] /\ parent'[q] = parent[q] /\ hist'[q] = hist[q]
      BY <1>4, <1>6, <2>1, <2>3 DEF CalmOK
    <3>2. parent[q] \in Pids => /\ Alive(parent[q]) => Alive(parent[q])'
                                /\ mem'[parent[q]] = mem[parent[q]]
                                /\ hist'[parent[q]] = hist[parent[q]]
                                /\ pc[parent[q]] \in {"main", "foreign"} =>
                                     pc'[parent[q]] = pc[parent[q]]
      BY <1>2, <1>3, <1>4, <3>1 DEF Alive
    <3>3. Kin(q)' /\ (Inherited(q) => Inherited(q)')
      BY <3>1, <3>2 DEF Kin, Inherited, Alive
    <3>4. /\ Recorded(q, mem[q].env) => Recorded(q, mem[q].env)'
          /\ Recorded(q, plan[q].envp) => Recorded(q, plan[q].envp)'
      BY <3>1 DEF Recorded, OwnEntries
    <3>5. (First(q) => First(q)') /\ (Second(q) => Second(q)') /\ (Probe(q) => Probe(q)')
      BY <3>1, <3>3, <3>4 DEF First, Second, Probe
    <3> QED BY <2>1, <2>3, <3>1, <3>3, <3>5 DEF CalmOK
  <2> QED BY <2>2, <2>3
<1>10. CalmHost' /\ \A q \in Pids : CalmOK(q)'
  BY <1>2, <1>7, <1>8, <1>9 DEF CalmHost
<1> QED BY <1>10 DEF SelfInv

\* The loader runs the image with what the bridge prepared.
LEMMA ExecveCalm ==
  ASSUME SelfInv, CalmHost, NEW p \in Pids, pc[p] \in {"exec", "clone"}, Execve(p), LibcInv'
  PROVE  SelfInv'
<1>1. /\ pc'[p] = "load" /\ mem'[p].exe = "loader" /\ mem'[p].env = plan[p].envp
      /\ hist'[p].role = hist[p].role /\ hist'[p].invoked = hist[p].invoked
      /\ host' = host /\ parent' = parent /\ status' = status
  BY DEF Execve, Fresh, pids, SelfInv, LibcInv, TypeInv, TypeOK, History
<1>2. OnlyMoves(p) /\ \A r \in Pids \ {p} : hist'[r] = hist[r]
  BY DEF Execve, pids, SelfInv, LibcInv, TypeInv, TypeOK, OnlyMoves
<1>3. CalmOK(p) /\ Alive(p)
  BY DEF SelfInv, Alive
<1>4. Kin(p)'
  BY <1>1, <1>2, <1>3, OwnKin
<1>5. CASE hist[p].role = "program"
  <2>1. First(p) /\ pc[p] = "exec"
    BY <1>3, <1>5 DEF CalmOK, First, Second
  <2>2. Recorded(p, plan[p].envp)
    BY <2>1 DEF First
  <2>3. Recorded(p, mem[p].env)'
    BY <1>1, <2>2 DEF Recorded, OwnEntries
  <2>4. CalmOK(p)'
    BY <1>1, <1>3, <1>4, <1>5, <2>3 DEF CalmOK, Second
  <2>5. KeepsFamily(p)
    BY <1>1, <2>1 DEF KeepsFamily, Alive
  <2> QED BY <1>1, <1>2, <2>4, <2>5, OthersCalm
<1>6. CASE hist[p].role = "probe"
  <2>1. Probe(p) /\ pc[p] = "clone"
    BY <1>3, <1>6 DEF CalmOK, Probe
  <2>2. CalmOK(p)'
    BY <1>1, <1>3, <1>4, <1>6, <2>1 DEF CalmOK, Probe
  <2>3. KeepsFamily(p)
    BY <1>1, <2>1 DEF KeepsFamily, Alive
  <2> QED BY <1>1, <1>2, <2>2, <2>3, OthersCalm
<1> QED BY <1>3, <1>5, <1>6 DEF CalmOK

\* The probe has come back; its pid is free again.
LEMMA WaitCalm ==
  ASSUME SelfInv, CalmHost, NEW p \in Pids, WaitProbe(p), LibcInv'
  PROVE  SelfInv'
<1>0. PICK c : c = plan[p].probe
  OBVIOUS
<1>1. pc[p] = "wait" /\ pc[c] = "dead"
  BY <1>0 DEF WaitProbe
<1>2. c \in Pids \ {p} /\ status[c] = "zero"
  BY <1>0, <1>1 DEF SelfInv, LibcInv, ProbeOK, IsProbing
<1>3. /\ pc' = [pc EXCEPT ![c] = "free", ![p] = "exec"]
      /\ mem' = [mem EXCEPT ![p].missing = FALSE]
      /\ plan' = [plan EXCEPT ![p] = [@ EXCEPT !.probe = NoPid]]
      /\ hist' = [hist EXCEPT ![c] = NoHistory]
      /\ status' = [status EXCEPT ![c] = "none"]
      /\ parent' = [parent EXCEPT ![c] = NoPid]
      /\ host' = host
  BY <1>0, <1>2 DEF WaitProbe
<1>4. /\ mem'[p].exe = mem[p].exe /\ mem'[p].argv0 = mem[p].argv0 /\ mem'[p].env = mem[p].env
      /\ plan'[p].envp = plan[p].envp /\ hist'[p] = hist[p] /\ status'[p] = status[p]
      /\ pc'[p] = "exec" /\ parent'[p] = parent[p]
  BY <1>2, <1>3 DEF SelfInv, LibcInv, TypeInv, TypeOK, Memory, Plan
<1>5. pc'[c] = "free" /\ status'[c] = "none"
  BY <1>2, <1>3 DEF SelfInv, LibcInv, TypeInv, TypeOK
<1>6. \A q \in Pids \ {p, c} : /\ pc'[q] = pc[q] /\ mem'[q] = mem[q] /\ plan'[q] = plan[q]
                               /\ status'[q] = status[q] /\ parent'[q] = parent[q]
                               /\ hist'[q] = hist[q]
  BY <1>2, <1>3 DEF SelfInv, LibcInv, TypeInv, TypeOK
<1>7. CalmOK(p) /\ First(p) /\ hist[p].role = "program" /\ Kin(p) /\ Alive(p)
  BY <1>1 DEF SelfInv, CalmOK, First, Second, Probe, Alive
<1>8. \A q \in Pids : Alive(q) => parent[q] # c
  BY <1>1, <1>2, Childless DEF Alive
<1>9. CalmOK(p)'
  <2>1. parent[p] # c /\ parent[p] # p
    BY <1>7, <1>8, ConstantsAssumption DEF Kin
  <2>2. parent[p] \in Pids => /\ pc'[parent[p]] = pc[parent[p]] /\ mem'[parent[p]] = mem[parent[p]]
                              /\ hist'[parent[p]] = hist[parent[p]]
    BY <1>6, <2>1
  <2>3. Kin(p)' /\ Inherited(p)'
    BY <1>1, <1>4, <1>7, <2>2 DEF Kin, Inherited, First, Alive
  <2>4. Recorded(p, plan[p].envp)'
    BY <1>1, <1>4, <1>7 DEF Recorded, OwnEntries, First
  <2>5. First(p)'
    BY <1>4, <1>7, <2>3, <2>4 DEF First
  <2> QED BY <1>4, <1>7, <2>3, <2>5 DEF CalmOK
<1>10. ASSUME NEW q \in Pids \ {p, c} PROVE CalmOK(q)'
  <2>1. CalmOK(q)
    BY DEF SelfInv
  <2>2. CASE ~Alive(q)
    BY <1>6, <2>1, <2>2 DEF CalmOK, Alive
  <2>3. CASE Alive(q)
    <3>1. /\ Kin(q) /\ parent[q] # c /\ pc'[q] = pc[q] /\ mem'[q] = mem[q] /\ plan'[q] = plan[q]
          /\ status'[q] = status[q] /\ parent'[q] = parent[q] /\ hist'[q] = hist[q]
      BY <1>6, <1>8, <2>1, <2>3 DEF CalmOK
    <3>2. parent[q] \in Pids => /\ Alive(parent[q]) => Alive(parent[q])'
                                /\ mem'[parent[q]].env = mem[parent[q]].env
                                /\ hist'[parent[q]] = hist[parent[q]]
                                /\ pc[parent[q]] \in {"main", "foreign"} =>
                                     pc'[parent[q]] = pc[parent[q]]
      BY <1>1, <1>4, <1>6, <3>1 DEF Alive
    <3>3. Kin(q)' /\ (Inherited(q) => Inherited(q)')
      BY <3>1, <3>2 DEF Kin, Inherited, Alive
    <3>4. /\ Recorded(q, mem[q].env) => Recorded(q, mem[q].env)'
          /\ Recorded(q, plan[q].envp) => Recorded(q, plan[q].envp)'
      BY <3>1 DEF Recorded, OwnEntries
    <3>5. (First(q) => First(q)') /\ (Second(q) => Second(q)') /\ (Probe(q) => Probe(q)')
      BY <3>1, <3>3, <3>4 DEF First, Second, Probe
    <3> QED BY <2>1, <2>3, <3>1, <3>3, <3>5 DEF CalmOK
  <2> QED BY <2>2, <2>3
<1>11. CalmOK(c)'
  BY <1>5 DEF CalmOK, Alive
<1>12. CalmHost' /\ \A q \in Pids : CalmOK(q)'
  BY <1>3, <1>9, <1>10, <1>11 DEF CalmHost
<1> QED BY <1>12 DEF SelfInv

LEMMA CallLibcCalm ==
  ASSUME SelfInv, CalmHost, NEW p \in Pids, pc[p] \in {"init", "main"}, CallLibc(p), LibcInv'
  PROVE  SelfInv'
<1>1. CalmOK(p) /\ Alive(p) /\ LibcOK(p)
  BY DEF SelfInv, LibcInv, Alive
<1>2. Second(p) /\ hist[p].role = "program"
  BY <1>1 DEF CalmOK, First, Second, Probe
<1>3. mem[p].bound
  BY <1>1, <1>2 DEF LibcOK, Second
<1>4. /\ pc'[p] = "main" /\ mem' = mem /\ plan' = plan /\ OnlyMoves(p)
      /\ host' = host /\ parent' = parent /\ hist' = hist /\ status' = status
  BY <1>3 DEF CallLibc, Goto, pids, SelfInv, LibcInv, TypeInv, TypeOK, OnlyMoves
<1> QED BY <1>1, <1>2, <1>4, WayCalm

\* The program's part, and that of what it starts.
LEMMA ProgramCalm ==
  ASSUME FamiliesHold, SelfInv, CalmHost, NEW p \in Pids, Program(p), LibcInv'
  PROVE  SelfInv'
<1>1. CASE CallFFI(p) \/ Setenv(p) \/ NewThread(p)
  BY <1>1, CallLibcCalm DEF CallFFI, Setenv, NewThread
<1>2. CASE Exit(p)
  <2>1. \A q \in Pids : Alive(q) => parent[q] # p
    BY <1>2 DEF Exit, FamiliesHold, Alive
  <2>2. "zero" \in Endings \ {"fault"} /\ End(p, "zero")
    BY <1>2 DEF Exit, Endings
  <2> QED BY <2>1, <2>2, EndCalm
<1>3. ~SelfExec(p)
  BY DEF SelfExec, FamiliesHold
<1>4. ASSUME NEW c \in Free, NEW way \in Ways, Spawn(p, c, way) PROVE SelfInv'
  <2>1. way # "byhand" /\ (pc[p] = "main" \/ (pc[p] = "foreign" /\ way = "file"))
    BY <1>4 DEF Spawn, FamiliesHold
  <2>2. mem[p].argv0 \in {"file", "memfd"}
    BY <2>1, RunningImage DEF SelfInv, LibcInv
  <2>3. PICK img \in {"file", "memfd"}, r \in {"program", "foreign"} :
          /\ Born(c, p, img, FALSE, mem[p].env, r)
          /\ pc[p] = "foreign" => img = "file" /\ r = "program"
    BY <1>4, <2>1, <2>2 DEF Spawn
  <2> QED BY <2>1, <2>3, BornCalm
<1> QED BY <1>1, <1>2, <1>3, <1>4 DEF Program

LEMMA CalmSelf ==
  ASSUME FamiliesHold, SelfInv, CalmHost, Next, LibcInv'
  PROVE  SelfInv'
<1>1. ASSUME NEW c \in Free, Launch(c) PROVE SelfInv'
  BY <1>1, BornCalm DEF Launch
<1>2. ASSUME NEW p \in Pids, Startup(p) PROVE SelfInv'
  <2>0. CalmOK(p) /\ LibcOK(p)
    BY DEF SelfInv, LibcInv
  <2>1. CASE Load(p)
    <3>1. /\ pc[p] = "load" /\ pc'[p] = "scan" /\ mem' = mem /\ plan' = plan /\ OnlyMoves(p)
          /\ host' = host /\ parent' = parent /\ hist' = hist /\ status' = status
      BY <2>0, <2>1 DEF Load, Goto, pids, LibcOK, CalmHost, SelfInv, LibcInv, TypeInv, TypeOK,
                        OnlyMoves
    <3>2. Alive(p)
      BY <3>1 DEF Alive
    <3>3. CASE hist[p].role = "program"
      BY <3>1, <3>2, <3>3, WayCalm
    <3>4. CASE hist[p].role = "probe"
      <4>1. CalmOK(p)'
        BY <2>0, <3>1, <3>2, <3>4, OwnKin DEF CalmOK, Probe
      <4>2. KeepsFamily(p)
        BY <3>1 DEF KeepsFamily, Alive
      <4> QED BY <3>1, <4>1, <4>2, OthersCalm
    <3> QED BY <2>0, <3>1, <3>2, <3>3, <3>4 DEF CalmOK
  <2>2. CASE SkipProbe(p) \/ WaitFails(p)
    <3>1. /\ pc[p] \in {"launch", "wait"} /\ pc'[p] = "exec" /\ mem' = mem /\ plan' = plan
          /\ host' = host /\ parent' = parent /\ hist' = hist /\ status' = status
          /\ OnlyMoves(p)
      BY <2>2 DEF SkipProbe, WaitFails, Goto, pids, SelfInv, LibcInv, TypeInv, TypeOK, OnlyMoves
    <3>2. Alive(p) /\ First(p) /\ hist[p].role = "program"
      BY <2>0, <3>1 DEF Alive, CalmOK, First, Second, Probe
    <3>3. Recorded(p, plan[p].envp)'
      BY <3>1, <3>2 DEF First, Recorded, OwnEntries
    <3> QED BY <3>1, <3>2, <3>3, WayCalm
  <2>3. CASE ProbeChild(p) \/ Reexec(p)
    BY <2>3, ExecveCalm DEF ProbeChild, Reexec, FamiliesHold
  <2>4. CASE CgoInitMalloc(p)
    BY <2>4, CallLibcCalm DEF CgoInitMalloc
  <2>5. ~CgoInitMissing(p)
    BY <2>0 DEF CgoInitMissing, LibcOK
  <2> QED BY <1>2, <2>1, <2>2, <2>3, <2>4, <2>5, ScanCalm, ResolveCalm, ForkCalm, WaitCalm
          DEF Startup, Progress
<1>3. \A p \in Pids : ~Kill(p)
  BY DEF Kill, FamiliesHold
<1>4. ASSUME NEW p \in Pids, Reap(p) PROVE SelfInv'
  <2>1. /\ pc[p] = "dead" /\ pc'[p] = "free" /\ status'[p] = "none" /\ host' = host
        /\ OnlyMoves(p) /\ \A r \in Pids \ {p} : hist'[r] = hist[r]
    BY <1>4 DEF Reap, SelfInv, LibcInv, TypeInv, TypeOK, OnlyMoves
  <2>2. CalmOK(p)'
    BY <2>1 DEF CalmOK, Alive
  <2>3. KeepsFamily(p)
    BY <2>1, Childless DEF KeepsFamily, Alive
  <2> QED BY <2>1, <2>2, <2>3, OthersCalm
<1> QED BY <1>1, <1>2, <1>3, <1>4, ProgramCalm DEF Next

\* On a host without loader, or where what is preloaded aborts, a process is what
\* was started from outside, or a copy of that without a word about it.
LEMMA PoorSame ==
  ASSUME SelfInv, ~CalmHost, NEW p \in Pids, host' = host, LibcInv', PoorOK(p)',
         \A q \in Pids \ {p} : Same(q) /\ status'[q] = status[q]
  PROVE  SelfInv'
<1>1. ASSUME NEW q \in Pids \ {p} PROVE PoorOK(q)'
  BY DEF SelfInv, PoorOK, Same
<1>2. ~CalmHost'
  BY DEF CalmHost
<1> QED BY <1>1, <1>2 DEF SelfInv

LEMMA EndPoor ==
  ASSUME SelfInv, ~CalmHost, NEW p \in Pids, NEW how \in Endings \ {"fault"}, End(p, how), LibcInv'
  PROVE  SelfInv'
<1>1. /\ pc'[p] = "dead" /\ status'[p] = how /\ host' = host /\ hist' = hist
      /\ mem'[p].env = {} /\ mem'[p].exe = "file" /\ mem'[p].argv0 = "file"
      /\ \A q \in Pids \ {p} : Same(q) /\ status'[q] = status[q]
  BY DEF End, NoMemory, Fresh, SelfInv, LibcInv, TypeInv, TypeOK, Same
<1>2. PoorOK(p)'
  BY <1>1 DEF SelfInv, PoorOK
<1> QED BY <1>1, <1>2, PoorSame

LEMMA GotoPoor ==
  ASSUME SelfInv, ~CalmHost, NEW p \in Pids, NEW where \in PCs, Goto(p, where), LibcInv',
         pc[p] # "load", \A q \in Pids \ {p} : mem'[q] = mem[q] /\ plan'[q] = plan[q],
         mem'[p].env = mem[p].env, mem'[p].exe = mem[p].exe, mem'[p].argv0 = mem[p].argv0,
         where \in {"launch", "wait", "exec", "clone", "load"} => host.loader # "none",
         where = "init" => mem'[p].missing,
         where = "main" => mem'[p].missing /\ ~mem'[p].hooks /\ ~mem'[p].iscgo
  PROVE  SelfInv'
<1>1. /\ pc'[p] = where /\ status' = status /\ host' = host /\ hist' = hist
      /\ \A q \in Pids \ {p} : Same(q) /\ status'[q] = status[q]
  BY DEF Goto, pids, SelfInv, LibcInv, TypeInv, TypeOK, Same
<1>2. PoorOK(p)'
  BY <1>1 DEF SelfInv, PoorOK
<1> QED BY <1>1, <1>2, PoorSame

LEMMA ReturnPoor ==
  ASSUME SelfInv, ~CalmHost, NEW p \in Pids, pc[p] # "load", Return(p, FALSE), LibcInv'
  PROVE  SelfInv'
<1>1. /\ mem'[p].env = mem[p].env /\ mem'[p].exe = mem[p].exe /\ mem'[p].argv0 = mem[p].argv0
      /\ mem'[p].missing /\ \A q \in Pids \ {p} : mem'[q] = mem[q] /\ plan'[q] = plan[q]
  BY DEF Return, SelfInv, LibcInv, TypeInv, TypeOK, Memory
<1> QED BY <1>1, GotoPoor DEF Return, PCs

LEMMA BornPoor ==
  ASSUME SelfInv, ~CalmHost, NEW c \in Free, NEW by, NEW r \in {"program", "foreign"},
         Born(c, by, "file", FALSE, {}, r), LibcInv'
  PROVE  SelfInv'
<1>1. c \in Pids
  BY DEF Free
<1>2. /\ pc'[c] \in {"foreign", "scan"} /\ hist'[c].invoked = "file" /\ status'[c] = "none"
      /\ mem'[c].env = {} /\ mem'[c].exe = "file" /\ mem'[c].argv0 = "file"
      /\ host' = host /\ \A q \in Pids \ {c} : Same(q) /\ status'[q] = status[q]
  BY <1>1 DEF Born, Fresh, SelfInv, LibcInv, TypeInv, TypeOK, Same
<1>3. PoorOK(c)'
  BY <1>2 DEF PoorOK
<1> QED BY <1>1, <1>2, <1>3, PoorSame

LEMMA ForkPoor ==
  ASSUME SelfInv, ~CalmHost, NEW p \in Pids, ForkProbe(p), LibcInv'
  PROVE  SelfInv'
<1>1. PICK c \in Free :
        /\ pc' = [pc EXCEPT ![p] = "wait", ![c] = "clone"]
        /\ mem' = [mem EXCEPT ![c] = mem[p]]
        /\ status' = [status EXCEPT ![c] = "none"]
        /\ hist' = [hist EXCEPT ![c] = [hist[p] EXCEPT !.role = "probe"]]
  BY DEF ForkProbe
<1>2. c \in Pids /\ pc[c] = "free" /\ pc[p] = "launch" /\ host' = host /\ p # c
  BY DEF ForkProbe, Free
<1>3. /\ mem'[p] = mem[p] /\ mem'[c] = mem[p] /\ hist'[p] = hist[p]
      /\ hist'[c].invoked = hist[p].invoked
      /\ pc'[p] = "wait" /\ pc'[c] = "clone" /\ status'[p] = status[p] /\ status'[c] = "none"
  BY <1>1, <1>2 DEF SelfInv, LibcInv, TypeInv, TypeOK, History
<1>4. ASSUME NEW q \in Pids \ {p, c}
      PROVE  pc'[q] = pc[q] /\ mem'[q] = mem[q] /\ hist'[q] = hist[q] /\ status'[q] = status[q]
  BY <1>1, <1>2 DEF SelfInv, LibcInv, TypeInv, TypeOK
<1>5. PoorOK(p)' /\ PoorOK(c)'
  BY <1>2, <1>3 DEF SelfInv, PoorOK
<1>6. ASSUME NEW q \in Pids \ {p, c} PROVE PoorOK(q)'
  BY <1>2, <1>4 DEF SelfInv, PoorOK
<1>7. ~CalmHost'
  BY <1>2 DEF CalmHost
<1> QED BY <1>5, <1>6, <1>7 DEF SelfInv

LEMMA WaitPoor ==
  ASSUME SelfInv, ~CalmHost, NEW p \in Pids, WaitProbe(p), LibcInv'
  PROVE  SelfInv'
<1>0. PICK c, good : c = plan[p].probe /\ good = (status[c] = "zero")
  OBVIOUS
<1>1. /\ pc[p] = "wait" /\ pc[c] = "dead"
      /\ pc' = [pc EXCEPT ![c] = "free", ![p] = IF good THEN "exec" ELSE "init"]
      /\ mem' = [mem EXCEPT ![p].missing = ~good]
      /\ hist' = [hist EXCEPT ![c] = NoHistory] /\ status' = [status EXCEPT ![c] = "none"]
      /\ host' = host
  BY <1>0 DEF WaitProbe
<1>2. c # p
  BY <1>1
<1>3. /\ mem'[p].exe = mem[p].exe /\ mem'[p].env = mem[p].env /\ mem'[p].argv0 = mem[p].argv0
      /\ mem'[p].missing = ~good /\ pc'[p] = (IF good THEN "exec" ELSE "init")
      /\ hist'[p] = hist[p] /\ status'[p] = status[p]
  BY <1>1, <1>2 DEF SelfInv, LibcInv, TypeInv, TypeOK, Memory
<1>4. PoorOK(p)'
  <2>1. /\ status[p] # "fault" /\ hist[p].invoked = "file" /\ mem[p].env = {}
        /\ mem[p].exe = "file" /\ mem[p].argv0 = "file" /\ host.loader # "none"
    BY <1>1 DEF SelfInv, PoorOK
  <2>2. good \in BOOLEAN /\ pc'[p] \in {"exec", "init"}
    BY <1>0, <1>3
  <2>3. pc'[p] = "init" => mem'[p].missing
    BY <1>3, <2>2
  <2> QED BY <1>1, <1>3, <2>1, <2>2, <2>3 DEF PoorOK
<1>5. ASSUME c \in Pids PROVE PoorOK(c)'
  <2>1. pc'[c] = "free" /\ status'[c] = "none" /\ mem'[c] = mem[c] /\ hist'[c] = NoHistory
    BY <1>1, <1>2, <1>5 DEF SelfInv, LibcInv, TypeInv, TypeOK
  <2> QED BY <1>1, <1>5, <2>1 DEF SelfInv, PoorOK, NoHistory
<1>6. ASSUME NEW q \in Pids \ {p}, q # c PROVE PoorOK(q)'
  <2>1. pc'[q] = pc[q] /\ mem'[q] = mem[q] /\ hist'[q] = hist[q] /\ status'[q] = status[q]
    BY <1>1, <1>6 DEF SelfInv, LibcInv, TypeInv, TypeOK
  <2> QED BY <1>1, <2>1 DEF SelfInv, PoorOK
<1>7. ~CalmHost'
  BY <1>1 DEF CalmHost
<1> QED BY <1>4, <1>5, <1>6, <1>7 DEF SelfInv

LEMMA MissingPoor ==
  ASSUME SelfInv, ~CalmHost, NEW p \in Pids, CgoInitMissing(p), LibcInv'
  PROVE  SelfInv'
<1> DEFINE half == [mem EXCEPT ![p].iscgo = FALSE]
<1>1. half \in [Pids -> Memory]
  BY FlagSet DEF SelfInv, LibcInv, TypeInv, TypeOK
<1>2. /\ half[p].env = mem[p].env /\ half[p].exe = mem[p].exe
      /\ half[p].argv0 = mem[p].argv0 /\ half[p].missing = mem[p].missing
      /\ ~half[p].iscgo /\ \A q \in Pids \ {p} : half[q] = mem[q]
  BY DEF SelfInv, LibcInv, TypeInv, TypeOK, Memory
<1>3. /\ mem' = [half EXCEPT ![p].hooks = FALSE] /\ pc[p] = "init" /\ mem[p].missing
      /\ plan' = plan /\ Goto(p, "main")
  BY DEF CgoInitMissing
<1> HIDE DEF half
<1>4. /\ mem'[p].env = half[p].env /\ mem'[p].exe = half[p].exe
      /\ mem'[p].argv0 = half[p].argv0 /\ mem'[p].missing = half[p].missing
      /\ ~mem'[p].iscgo /\ ~mem'[p].hooks /\ \A q \in Pids \ {p} : mem'[q] = half[q]
  BY <1>1, <1>2, <1>3 DEF Memory
<1>5. \A q \in Pids \ {p} : mem'[q] = mem[q] /\ plan'[q] = plan[q]
  BY <1>2, <1>3, <1>4
<1>6. /\ mem'[p].missing /\ ~mem'[p].hooks /\ ~mem'[p].iscgo
      /\ mem'[p].env = mem[p].env /\ mem'[p].exe = mem[p].exe /\ mem'[p].argv0 = mem[p].argv0
  BY <1>2, <1>3, <1>4
<1> QED BY <1>3, <1>5, <1>6, GotoPoor DEF PCs

LEMMA PoorSelf ==
  ASSUME FamiliesHold, SelfInv, ~CalmHost, Next, LibcInv'
  PROVE  SelfInv'
<1>0. \A p \in Pids : PoorOK(p)
  BY DEF SelfInv
<1>1. ASSUME NEW c \in Free, Launch(c) PROVE SelfInv'
  BY <1>1, BornPoor DEF Launch
<1>2. ASSUME NEW p \in Pids, Startup(p) PROVE SelfInv'
  <2>1. CASE Load(p)
    <3>1. host.loader # "none" /\ pc[p] = "load"
      BY <1>0, <2>1 DEF Load, PoorOK
    <3>2. End(p, "nonzero") \/ End(p, "signal")
      BY <2>1, <3>1 DEF Load, CalmHost
    <3> QED BY <3>2, EndPoor DEF Endings
  <2>2. CASE Scan(p)
    <3>1. pc[p] = "scan" /\ mem[p].env = {}
      BY <1>0, <2>2 DEF Scan, ScanFails, ScanProbe, ScanGuarded, ScanFirst, PoorOK
    <3>2. ScanFirst(p)
      BY <2>2, <3>1 DEF Scan, ScanFails, ScanProbe, ScanGuarded, Probing, Guarded, Tagged,
                        FamiliesHold
    <3>3. Goto(p, "resolve") /\ mem' = mem /\ \A q \in Pids \ {p} : plan'[q] = plan[q]
      BY <3>2 DEF ScanFirst, SelfInv, LibcInv, TypeInv, TypeOK
    <3> QED BY <3>1, <3>3, GotoPoor DEF PCs
  <2>3. CASE Resolve(p)
    <3>1. pc[p] = "resolve" /\ Readlink(p) = {"file"}
      BY <1>0, <2>3 DEF Resolve, ResolveFails, ResolveByHand, ResolvePlan, PoorOK, Readlink,
                        FamiliesHold
    <3>2. CASE ResolveFails(p)
      BY <3>1, <3>2, ReturnPoor DEF ResolveFails
    <3>3. ~ResolveByHand(p)
      BY <3>1 DEF ResolveByHand
    <3>4. CASE ResolvePlan(p)
      <4>1. /\ Goto(p, "launch") /\ mem' = mem /\ host.loader # "none"
            /\ \A q \in Pids \ {p} : plan'[q] = plan[q]
        BY <3>4 DEF ResolvePlan, SelfInv, LibcInv, TypeInv, TypeOK
      <4> QED BY <3>1, <4>1, GotoPoor DEF PCs
    <3> QED BY <2>3, <3>2, <3>3, <3>4 DEF Resolve
  <2>4. CASE SkipProbe(p) \/ WaitFails(p)
    <3>1. pc[p] \in {"launch", "wait"} /\ Goto(p, "exec") /\ mem' = mem /\ plan' = plan
      BY <2>4 DEF SkipProbe, WaitFails
    <3>2. host.loader # "none"
      BY <1>0, <3>1 DEF PoorOK
    <3> QED BY <3>1, <3>2, GotoPoor DEF PCs
  <2>5. CASE ProbeChild(p) \/ Reexec(p)
    <3>1. pc[p] \in {"clone", "exec"} /\ Execve(p)
      BY <2>5 DEF ProbeChild, Reexec, FamiliesHold
    <3>2. /\ pc'[p] = "load" /\ status' = status /\ host' = host
          /\ hist'[p].invoked = hist[p].invoked
          /\ \A q \in Pids \ {p} : Same(q) /\ status'[q] = status[q]
      BY <3>1 DEF Execve, pids, SelfInv, LibcInv, TypeInv, TypeOK, History, Same
    <3>3. PoorOK(p)'
      BY <1>0, <3>1, <3>2 DEF PoorOK
    <3> QED BY <3>2, <3>3, PoorSame
  <2>6. ~CgoInitMalloc(p)
    BY <1>0 DEF CgoInitMalloc, PoorOK
  <2> QED BY <1>2, <2>1, <2>2, <2>3, <2>4, <2>5, <2>6, ForkPoor, WaitPoor, MissingPoor
          DEF Startup, Progress
<1>3. ASSUME NEW p \in Pids, Program(p) PROVE SelfInv'
  <2>1. ~CallFFI(p) /\ ~Setenv(p) /\ ~NewThread(p) /\ ~SelfExec(p)
    BY <1>0 DEF CallFFI, Setenv, NewThread, SelfExec, PoorOK, FamiliesHold
  <2>2. CASE Exit(p)
    BY <2>2, EndPoor DEF Exit, Endings
  <2>3. ASSUME NEW c \in Free, NEW way \in Ways, Spawn(p, c, way) PROVE SelfInv'
    <3>1. mem[p].env = {} /\ mem[p].argv0 = "file" /\ way # "byhand"
      BY <1>0, <2>3 DEF Spawn, PoorOK, FamiliesHold
    <3>2. PICK r \in {"program", "foreign"} : Born(c, p, "file", FALSE, {}, r)
      BY <2>3, <3>1 DEF Spawn
    <3> QED BY <3>2, BornPoor
  <2> QED BY <1>3, <2>1, <2>2, <2>3 DEF Program
<1>4. \A p \in Pids : ~Kill(p)
  BY DEF Kill, FamiliesHold
<1>5. ASSUME NEW p \in Pids, Reap(p) PROVE SelfInv'
  <2>1. /\ pc[p] = "dead" /\ pc'[p] = "free" /\ status'[p] = "none" /\ host' = host
        /\ mem' = mem /\ hist'[p].invoked = "file"
        /\ \A q \in Pids \ {p} : Same(q) /\ status'[q] = status[q]
    BY <1>5 DEF Reap, NoHistory, SelfInv, LibcInv, TypeInv, TypeOK, Same
  <2>2. PoorOK(p)'
    BY <1>0, <2>1 DEF PoorOK
  <2> QED BY <2>1, <2>2, PoorSame
<1> QED BY <1>1, <1>2, <1>3, <1>4, <1>5 DEF Next

LEMMA SelfStep == FamiliesHold /\ SelfInv /\ [Next]_vars => SelfInv'
<1> SUFFICES ASSUME FamiliesHold, SelfInv, [Next]_vars PROVE SelfInv'
  OBVIOUS
<1>1. LibcInv'
  BY LibcStep DEF SelfInv, FamiliesHold, NothingIsLost
<1>2. CASE Next
  BY <1>1, <1>2, CalmSelf, PoorSelf
<1>3. CASE UNCHANGED vars
  <2>1. CalmHost' <=> CalmHost
    BY <1>3 DEF vars, CalmHost
  <2>2. ASSUME NEW q \in Pids PROVE PoorOK(q) => PoorOK(q)'
    BY <1>3 DEF vars, PoorOK
  <2>3. ASSUME NEW q \in Pids PROVE CalmOK(q) => CalmOK(q)'
    <3>1. /\ Recorded(q, mem[q].env) => Recorded(q, mem[q].env)'
          /\ Recorded(q, plan[q].envp) => Recorded(q, plan[q].envp)'
      BY <1>3 DEF vars, Recorded, OwnEntries
    <3>2. (Inherited(q) => Inherited(q)') /\ (Kin(q) => Kin(q)')
      BY <1>3 DEF vars, Inherited, Kin, Alive
    <3>3. (First(q) => First(q)') /\ (Second(q) => Second(q)') /\ (Probe(q) => Probe(q)')
      BY <1>3, <3>1, <3>2 DEF vars, First, Second, Probe
    <3> QED BY <1>3, <3>2, <3>3 DEF vars, CalmOK, Alive
  <2> QED BY <1>1, <2>1, <2>2, <2>3 DEF SelfInv
<1> QED BY <1>2, <1>3

LEMMA SelfInit == Init => SelfInv
<1> SUFFICES ASSUME Init PROVE SelfInv
  OBVIOUS
<1>1. \A p \in Pids : CalmOK(p) /\ PoorOK(p)
  BY DEF Init, CalmOK, PoorOK, Alive, NoMemory, NoHistory, Fresh
<1> QED BY <1>1, LibcInit DEF SelfInv

\* Who reached main knows itself: from its own entries if it was re-executed, from
\* os.Args[0] and os.Executable if nobody is.
LEMMA SelfIsKnown ==
  ASSUME SelfInv, NEW p \in Pids, IsProgram(p), pc[p] = "main"
  PROVE  Executable(p) = "file" /\ Argv0(p) = hist[p].invoked
<1>1. CASE CalmHost
  <2>1. Recorded(p, mem[p].env)
    BY <1>1 DEF SelfInv, CalmOK, Alive, IsProgram, First, Second
  <2> DEFINE exes == RecordedFor(p, "exe", p)
             argv0s == RecordedFor(p, "argv0", p)
  <2>2. exes = {"file"}
    <3>1. \A x \in mem[p].env : x.key = "exe" => x = Tag("exe", p, "file")
      BY <2>1 DEF Recorded, OwnEntries, Tag
    <3>2. /\ Tag("exe", p, "file") \in mem[p].env /\ Tag("exe", p, "file").key = "exe"
          /\ Tag("exe", p, "file").pid = p /\ Tag("exe", p, "file").val = "file"
      BY <2>1 DEF Recorded, Tag
    <3> QED BY <3>1, <3>2 DEF RecordedFor
  <2>3. argv0s = {hist[p].invoked}
    <3> DEFINE t == Tag("argv0", p, hist[p].invoked)
    <3>1. \A x \in mem[p].env : x.key = "argv0" => x = t
      BY <2>1 DEF Recorded, OwnEntries, Tag
    <3>2. t \in mem[p].env /\ t.key = "argv0" /\ t.pid = p /\ t.val = hist[p].invoked
      BY <2>1 DEF Recorded, Tag
    <3> HIDE DEF t
    <3> QED BY <3>1, <3>2 DEF RecordedFor
  <2>4. Executable(p) = CHOOSE v \in exes : TRUE
    BY <2>2 DEF Executable
  <2>5. Argv0(p) = CHOOSE v \in argv0s : TRUE
    BY <2>3 DEF Argv0
  <2> HIDE DEF exes, argv0s
  <2>6. (CHOOSE v \in exes : TRUE) \in exes /\ (CHOOSE v \in argv0s : TRUE) \in argv0s
    BY <2>2, <2>3
  <2> QED BY <2>2, <2>3, <2>4, <2>5, <2>6
<1>2. CASE ~CalmHost
  <2>1. mem[p].env = {} /\ mem[p].exe = "file" /\ mem[p].argv0 = "file" /\ hist[p].invoked = "file"
    BY <1>2 DEF SelfInv, PoorOK
  <2>2. \A key, pid : RecordedFor(p, key, pid) = {}
    BY <2>1 DEF RecordedFor
  <2> QED BY <2>1, <2>2 DEF Executable, Argv0
<1> QED BY <1>1, <1>2

\* However many copies are between a running copy and the first, also through
\* foreign programs and where pids are handed out again: ffi.Executable names the
\* file on disk and ffi.Argv0 what the copy was invoked as.
THEOREM CopiesKnowThemselves == FamiliesHold => (Spec => []SelfInfoIsTrue)
<1> SUFFICES ASSUME FamiliesHold PROVE Spec => []SelfInfoIsTrue
  OBVIOUS
<1>1. SelfInv /\ [Next]_vars => SelfInv'
  BY SelfStep
<1>2. SelfInv => SelfInfoIsTrue
  BY SelfIsKnown DEF SelfInfoIsTrue
<1> QED BY <1>1, <1>2, SelfInit, PTL DEF Spec

\* Nor does anyone there call an unbound symbol, though pids are handed out again.
THEOREM FamiliesDoNotFault == FamiliesHold => (Spec => []NoUnboundCall)
<1> SUFFICES ASSUME FamiliesHold PROVE Spec => []NoUnboundCall
  OBVIOUS
<1>1. SelfInv /\ [Next]_vars => SelfInv'
  BY SelfStep
<1>2. SelfInv => NoUnboundCall
  BY DEF SelfInv, CalmOK, PoorOK, NoUnboundCall
<1> QED BY <1>1, <1>2, SelfInit, PTL DEF Spec
================================================================================
