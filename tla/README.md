# goffi: a TLA+ verification development

goffi calls C functions from Go without cgo. A Go program that imports it
describes a function's signature (`types.CallInterface`), loads a shared
library, finds a symbol and calls it; it can also hand Go functions to C as
callbacks. To do that without a C compiler goffi brings its own C runtime glue
(`internal/fakecgo`), its own calling-convention code per architecture
(`internal/arch`), its own assembly trampolines (`internal/syscall`,
`ffi/callback_*.s`), and, for the `goffi_universal` build, a bridge that finds
the host's libc at run time by re-executing the program through the host's
dynamic loader.

This directory holds TLA+ modules of those parts, TLC configurations for small
instances, and TLAPS proofs. Paths below are relative to the repository root.

## 1. Inventory

| Part | State it keeps | Operations | Hard behaviour |
| --- | --- | --- | --- |
| **Universal bridge** `internal/fakecgo/reexec_universal_linux.go`, `reexec_table_*.go`, `internal/hostlibc`, `setenv.go`, `ffi/selfinfo.go`, `ffi/available.go` | per process: environment entries tagged with pids, `/proc/self/exe`, `os.Args[0]`, `hostlibc.Missing`, the runtime's `_iscgo` and setenv hooks | scan, probe, re-exec, settle; `Executable`, `Argv0`, `Available` | a tree of processes: fork, execve, inherited environments, orphans, pid reuse, failing system calls, a wait without a timeout |
| **Call path** `ffi/call.go`, `internal/arch/*/call_*.go`, `implementation.go`, `internal/syscall` | a pooled argument block; the thread's registers and `errno` | `executeFunction`, `Execute`, `CallNFloatErrno`, the assembly `syscallN` | goroutines migrate between threads, blocks are reused, calls nest through callbacks |
| **Calling convention** `internal/arch/*/classification.go`, `implementation.go`, `call_*.go`, `ffi/cif.go`, `types/` | none (pure), except the descriptor `initializeCompositeType` completes in place | classification, register and stack assignment, return placement | two sides (caller, callback) and two architectures have to agree with the C ABI and with each other |
| **Callbacks** `ffi/callback.go`, `callback_arm64.go`, `callback_*.s`, `callback_windows.go`, `internal/fakecgo/callbacks.go` | the process-wide registry `callbacks` (2000 entries, mutex, never freed) | `NewCallback`, the dispatcher, `callbackWrap` | C calls back on any thread, concurrently with registration, nested inside Go-to-C calls; registry limit |
| **Thread start** `internal/fakecgo/go_*.go`, `go_util.go`, `go_libinit.go`, `trampolines_*.s` | the `ThreadStart` record handed to `pthread_create`, signal masks and stacks, what each g was told about its stack, the runtime-init flag | `x_cgo_init`, `x_cgo_thread_start`, `_cgo_sys_thread_start`, `threadentry`, `x_cgo_notify_runtime_init_done` | ownership of the record passes between threads; EAGAIN retries; signals blocked across creation; five platforms that differ in what a new thread inherits |
| **Call preparation** `ffi/ffi.go`, `ffi/cif.go`, `types/` | the interface a goroutine owns; `Size` and `Alignment` of descriptors it may share | `PrepareCallInterface`, `PrepareVariadicCallInterface`, `initializeCompositeType` | a struct is laid out in place, statement by statement and without a lock; a failure in the middle leaves a `Size` that looks finished |
| **Dynamic loading** `ffi/dl_*.go`, `internal/dl` | library handles; libc's thread-local `dlerror` | `LoadLibrary`, `GetSymbol`, `FreeLibrary` | the error text is fetched by a second call that may run on another thread; on Android by the same call, as a chunk of C memory that has to be freed |
| **Static and host facts** `internal/static`, `internal/loader`, `ffi/hostinfo.go` | none | `Detect`, `Supported` | none: lookups in fixed tables |
| **Windows path** `internal/arch/amd64/call_windows.go`, `ffi/dl_windows.go`, `ffi/callback_windows.go` | none of its own | delegates to `syscall.SyscallN`, `syscall.NewCallback` | lives in the Go runtime |
| **Build tools and probes** `cmd/`, `scripts/`, `internal/fakecgo/gen.go` | files | rewriting `PT_INTERP`, ELF audits | not part of a running program |

How they interact:

* The Go runtime calls `x_cgo_init` before `main`. In a universal build that
  runs the bridge first. The bridge answers one question, "is libc bound?",
  through `hostlibc.Missing`; every later user of libc (the FFI entry points,
  the setenv hooks, thread creation) asks it.
* `ffi.CallFunction` goes through `internal/arch` (which registers and stack
  slots hold what) to `internal/syscall` (a pooled block, `runtime.cgocall`, an
  assembly stub that loads the registers, calls, and stores results and
  `errno`).
* C reaches Go again through one of 2000 trampolines, a shared assembly
  dispatcher, `crosscall2`, and `callbackWrap`, which reads its arguments from
  the dispatcher's frame by the rules the call path writes them with.
* New threads are created by the runtime through `x_cgo_thread_start`, in C
  memory, because the runtime believes cgo is in use.

What makes each part correct is stated as properties of the modules below; the
places where each can go wrong are `hazards` in `PROJECT.json`.

## 2. Plan

Modules, in the order they were written; each row can be checked without the
rows below it.

| Module | What it is | Status |
| --- | --- | --- |
| `StartupContract`, `UniversalBridge`, `UniversalBridgeProps` | what start-up promises; the bridge; its properties | done |
| `UniversalBridgeProofs` | types, unbound calls, the refinement of the contract, environments, re-execution, who has a libc, what a copy knows of itself | proved |
| `CTypes`, `SysVAbi` | C types and layout; the System V AMD64 convention as the reference | done |
| `SysVCall`, `SysVCallback`, composed with `SysVAbi` in `SysVRoundTrip` | goffi's caller, its callback side, and C between them | done |
| `SysVProofs` | calls and callbacks against the ABI and against each other, for every interface | proved |
| `CallbackRegistry`, `CallbackRegistryProofs` | registration and dispatch of callbacks | done, proved |
| `CallContract`, `ForeignCalls`, `MCForeignCalls`, `ForeignCallsProofs` | what a goroutine may rely on when it calls C; concurrent and nested calls, errno, library loading; blocks, results and errno belong to one call, and calls are atomic | done, proved |
| `ThreadStart`, `ThreadStartProofs` | creation of threads on five platforms | done, proved |
| `Aapcs64Abi`, `Arm64Call`, `Arm64Callback`, `Arm64RoundTrip` | the round trip for arm64, on Linux and Apple systems | done |
| `Arm64Proofs` | the same calls and callbacks for every interface: types, arguments, room, results, callbacks | proved |
| `CallPreparation`, `CallPreparationProofs` | interfaces prepared side by side, structs laid out in shared descriptors | done, proved |
| `AndroidLoader`, `AndroidLoaderProofs` | loading on Android: one call for dlopen and its error | done, proved |
| argv and envp vectors of the bridge on bounded buffers | sequential copying with bounds checks, of which `UniversalBridge` keeps the outcome (`bigEnv`) | not done |

Abstract specifications: `StartupContract` for the bridge (the refinement is
checked and proved); `CallContract` for concurrent calls (the refinement is checked and
proved); `SysVAbi` and `Aapcs64Abi` for the calling conventions
(compared with, place by place); `Right` in `CallPreparation`, the C layout of a
type, for `initializeCompositeType`.

Left to do: the stub's blocks on arm64, which are those of `ForeignCalls`.

## 3. The universal bridge

Modules `StartupContract` (abstract), `UniversalBridge` (detailed),
`UniversalBridgeProps`, `MCUniversalBridge`, `UniversalBridgeProofs`.

`StartupContract` says what start-up promises about one process: it goes from
starting to either "ffi" (libc bound) or "pure" (no libc, and it knows), and
stays there. `UniversalBridge` models how.

State. A process is a pid. `mem[p]` is what an execve replaces: what
`/proc/self/exe` names, the image `os.Args[0]` names, the bridge's variables in
the environment (each a key, the pid it is tagged with and a value), whether
libc is bound, and the runtime globals that follow (`hostlibc.Missing`,
`_iscgo`, the setenv hooks). `plan[p]` holds the locals of `reexecUniversal`
from `Resolve` on (`realExeC`, `exeC`, `envp`, the probe's pid). `pc[p]` is the
position in start-up, `parent[p]` what `getppid` returns, `hist[p]` history only
the properties look at.

Actions, in program order:

| Action | Code in `reexec_universal_linux.go` |
| --- | --- |
| `Scan`: `ScanFails`, `ScanProbe`, `ScanGuarded`, `ScanFirst` | lines 614-668: staging memory, `/proc/self/environ`, guard, probe, parent's record |
| `Resolve`: `ResolveFails`, `ResolveByHand`, `ResolvePlan` | 670-830: the loader, `/proc/self/exe`, the memfd copy with its `PT_INTERP` restored, argv and envp |
| `SkipProbe`, `ForkProbe`, `ProbeChild`, `WaitProbe`, `WaitFails` | `probeHostLoader`, 557-586 |
| `Reexec`, `Execve` | 832-850 |
| `CgoInitMissing`, `CgoInitMalloc` | `x_cgo_init`, `go_linux_amd64.go:67-135` |
| `CallFFI`, `Setenv`, `NewThread` | the users of libc |
| `Load`, `Launch`, `Spawn`, `SelfExec`, `Exit`, `Kill`, `Reap` | the kernel, the loader, and the ways `cmd/universal-respawn` and `docs/PROFILE_U.md` start copies |

Everything a system call can do wrong is in `Faults`; a fault is always a
choice, never forced. A loader is glibc (binds only an image that carries
`PT_INTERP`, hence the memfd copy), musl (binds any), or absent.

### Runs

| Run | Instance | Shows |
| --- | --- | --- |
| `bridge_faults` | 5 pids, 2 programs, every fault but `memfd` | `ReexecOnce`, `StartupEnds`, and the refinement of `StartupContract` (so: no unbound call) |
| `bridge_kills` | 6 pids, 3 generations, kills everywhere, in-place execs, overflowing environments | `EnvironmentIsOwn` and `LibcIsKnown`: who is in `main` knows whether it has a libc, and nobody but a program that replaced itself in place is mistaken |
| `bridge_quiet` | 5 pids that are handed out again, 3 programs, waiting parents, no faults | `NoUnboundCall` under pid reuse, and what programs may rely on: `SelfInfoIsTrue` (`ffi.Executable` and `ffi.Argv0`), `EveryCopyGetsLibc`, `ReachesMain` |

Bounds. `MaxPrograms = 3` gives a program, its copy and the copy's copy: an
inherited variable is at most two generations old before the bridge of the
first re-exec drops it, so a third generation sees everything a later one can.
Each program may need one probe, hence the number of pids. `MaxLaunches = 1`
because programs without a common ancestor share no environment and no pids.
Reused pids need only as many pids as can be alive at once plus the reaped ones.

Deadlock checking is off: programs end and nothing more is launched.

Fairness. `FairSpec` asks weak fairness of `Progress(p)`, the start-up steps of
one process: the code runs on its own thread with no lock in it, so the kernel's
scheduler owes it progress; the only wait is `wait4` for the probe, which is
enabled only when the probe is dead. `WaitFails`, `Kill` and everything the
program does itself are owed nothing.

### Where the code and its documents differ

* A program behind the bridge that replaces itself with execve keeps its pid.
  The guard in the environment it passes on is tagged with that pid, so the new
  image's bridge believes it came through the loader
  (`reexec_universal_linux.go:666`, where line 608 says the guard shows that) and
  calls a libc that is not bound. `LibcIsKnown` says that this
  is the only way to get there; `NoUnboundCall` with `"selfexec"` in `Ways` gives
  the trace.
* A copy started through `os.Args[0]` whose parent exits before the copy scans
  its environment finds no record tagged with `getppid()` (line 715);
  `ffi.Executable()` then names the loader, although `docs/PROFILE_U.md:139` says
  it "names the file on disk in every child". `SelfInfoIsTrue` with `ParentsWait = FALSE` gives the
  trace.

Found with the same modules by changing a configuration:

* `"memfd"` in `Faults` (memfd_create or the copy fails on glibc): the bridge
  runs the file on disk through glibc's loader, which binds nothing in it. The
  process comes back guarded, with unbound imports: `NoUnboundCall` fails.
* `PidReuse` with `ParentsWait = FALSE`: a process whose pid equals the pid of a
  dead ancestor takes that ancestor's guard for its own.
* `ParentsWait = FALSE` with preloading and kills: a probe whose parent died is
  not recognised as one (`getppid` is init's) and becomes a program.
* `bigEnv` hosts with preloading: the probe variable is past the end of what
  `readAll` takes; the probe becomes a program and the parent waits for it.
* a copy of a program that got no libc, started by hand through a loader.
* `"mmap"` in `Faults`: a probe whose own staging memory fails returns "no libc"
  instead of exiting and becomes a program; its parent waits in `wait4` for as
  long as that program runs. `StartupEnds` names this case (`ProbeEscaped`), so
  `bridge_faults` shows it is the only start that may last.
* `bigEnv` hosts with `"readlink"` in `Faults`: the guard variable lies past the
  end of what `readAll` takes and `/proc/self/exe` does not tell the loader from
  the program, so neither of the two checks stops the second entry, and the
  process re-executes itself for ever. `OneReexec` is proved under the condition
  that excludes exactly this (`EntryIsSeen`).

### Proofs

`UniversalBridgeProofs` proves, for every set of pids, hosts, ways to start and
failures:

* `TypeCorrect`: `Spec => []TypeOK`. `TypeOK` is not inductive by itself: a copy
  is started from its parent's `os.Args[0]`, which must name something other
  than the unreadable image; `ImageLoaded` adds that.
* `NoUnboundCallHolds`: `GuardIsReliable => (Spec => []NoUnboundCall)`, where
  `GuardIsReliable` says the memfd copy does not fail, no program execs itself
  in place and pids are not handed out twice. The argument: every entry in any
  environment is tagged with a pid already handed out (`TagsUsed`), so a new
  process finds no guard of its own; a process's own guard is therefore written
  by its own re-exec, so it runs behind the loader (`GuardMeansLoader`); what is
  re-executed behind a loader is something that loader binds (`PlanBinds`,
  `LoaderBinds`); so a process past start-up either has libc or knows it has
  none (`LibcOrMissing`), and one that knows has given up every hook
  (`MissingIsPure`). The lists above show that each conjunct of
  `GuardIsReliable` is needed.

* `ContractImplemented`: `GuardIsReliable => (Spec => ImplementsContract)`, the
  refinement. `PhaseCases` computes the abstract phase of a process from its detailed
  state, `SeenIsPhase` disposes of steps that change nothing it depends on, and
  `StepMaps` has a lemma for every other. What makes the steps legal is the invariant
  of `NoUnboundCallHolds`: a process that passes start-up has a libc or knows better.
* `EnvironmentHolds`: `Spec => []EnvironmentIsOwn`, without any condition, so also for
  failing calls, reused pids and programs that replace themselves. The invariant
  (`EnvInv`) says it of the environment a process is about to pass to execve as well,
  which is where `reexecUniversal` filters and appends.
* `OneReexec`: `EntryIsSeen => (Spec => []ReexecOnce)`. A re-executed process either
  carries its own guard where `readAll` sees it, or runs behind the loader and can read
  that off `/proc/self/exe`; in both cases the second entry stops (`OnceInv`).
* `RecordIsTrue`: `RecordIsReliable => (Spec => []LibcIsKnown)`. Who gives up without
  having come through the loader has nothing bound; who came through it has
  (`KnownOK`). Programs that replace themselves are admitted: `LibcIsKnown` singles them
  out, and the invariant says why only they can be mistaken (a guard of one's own
  without the loader means one was inherited in place).
* `CopiesGetLibc`: `NothingIsLost => (Spec => []EveryCopyGetsLibc)`. What is planned is
  the image the loader binds, and a process that waits for its probe will see it end
  with status 0 (`IsProbing`): the probe finds its variable or, where the environment is
  too full for it, runs the program to its end.
* `CopiesKnowThemselves`: `FamiliesHold => (Spec => []SelfInfoIsTrue)`, for any number of
  generations, under pid reuse. A parent outlives its children (`Kin`), so a tag that
  names it still names it; the environment a copy inherits is that of a program in
  `main`, at most one foreign program away (`Inherited`), and that has its own entries
  only; so no guard in it is the copy's own, and if the copy runs from a memfd its
  parent's record is there (`GuardsSeen`). On hosts without a usable loader no variable
  ever gets into an environment (`PoorOK`).
* `FamiliesDoNotFault`: `FamiliesHold => (Spec => []NoUnboundCall)`, from the same
  invariant: what `GuardIsReliable` asks of pids is replaced by what it asks of parents.

Every conjunct of the conditions is needed; with any of them dropped TLC finds a
counterexample within three or four programs:

| Condition | Conjunct | Without it |
| --- | --- | --- |
| `GuardIsReliable` | `memfd`, in-place execs, pid reuse | the three cases listed above |
| `RecordIsReliable` | `memfd` | a guarded process with nothing bound |
| | `mmap`, `readlink` | a process behind the loader, libc bound, gives up and says it has none |
| | pid reuse | the guard of a dead ancestor |
| `NothingIsLost` | `mmap`, `readlink`, `memfd`, `exec` | the bridge gives up, or binds nothing |
| | kills | a killed probe makes its parent give up |
| `FamiliesHold` | the same failures and kills | a program in `main` that was never re-executed, or an orphan |
| | `ParentsWait` | the parent's record is tagged with a pid that is no longer the parent's |
| | `"byhand"` | a copy of such a copy runs from a memfd whose parent recorded nothing |
| | `"selfexec"` | the predecessor's record and guard |
| | `bigEnv` | the record lies past what `readAll` takes |

## 4. Interfaces and calling conventions

### System V AMD64

Modules `CTypes`, `SysVAbi`, `SysVCall`, `SysVCallback`, `SysVRoundTrip`,
`MCSysV`, `SysVProofs`.

Values are symbolic: a word says which bytes of which argument it carries
(`Bytes(arg, off, len)`), that it is the address of one, that it was converted
between float widths, or that nothing was put there. So a property can say that
the right bytes arrive in the right place without any bytes.

`SysVAbi` is not part of goffi: it is the convention a C compiler follows,
written from the ABI the sources cite, and it says for every argument where it
has to be. `SysVCall` is goffi's caller, with one step per argument of the two
loops: `CountArg` and `Prepared` are `prepareCallInterfaceCore`
(`ffi/cif.go`), `Execute`, `EnterC` and `Return` are `Execute`,
`CallNFloatErrno` and `handleReturn`. `SysVCallback` is the other direction:
`Dispatch` saves the registers, `ReadArg` is one turn of `callbackWrap`'s loop,
`CallbackRegs` what the dispatcher gives back. `SysVRoundTrip` puts C, or a
second goffi callback, between them.

Run `sysv_roundtrip`: `ArgsArrive`, `ResultArrives` and `CallbackSeesArgs` (goffi
against the ABI), `SelfCallAgrees` (goffi's caller against goffi's callback, where
neither agrees with the ABI, too, and all but one class of structs) and `AcceptanceIsExact` (what
`PrepareCallInterface` accepts is exactly what `Execute` can place).

Bounds. Every argument list is a prefix of scalars that uses up 0, some, all but
one or all integer registers, float registers and stack slots, followed by one or
two arguments of any of 20 types; the types hold one struct of every class
combination of their eightbytes and of every size class (up to 8, 9 to 16,
above), and nested structs: of each size class, with a class that is hidden from
a walk over the members and with none. That is 673,170 distinct states. Registers are assigned argument by argument from counters alone, so what
happens to an argument depends on the counters and its type, and two arguments
after a prefix meet every combination.

What the properties exclude is where the code and the ABI are known to differ:

* a struct of two eightbytes with one register left: goffi puts the first part
  into the register and the second on the stack, the ABI puts both on the stack
  (`Splits`; `call_unix.go:130-166`). goffi's callbacks read it the way goffi's
  calls write it (`SelfCallAgrees`), so a test of one against the other passes.
* nested structs whose class the code does not see (`Hides`). The ABI classifies an
  eightbyte by the scalars in it. On the call path `isStructAllFloats` and
  `classifyEightbyte` (`classification.go:66-105`) look at the members only and take
  a member that is a struct for INTEGER, and a struct that reaches over from the
  eightbyte before is not seen in the second at all. So a nested struct of floats
  is put into an integer register (`ArgsArrive`), may be counted as one and the call
  refused for want of slots (`AcceptanceIsExact`), and is looked for in RAX or RDX when
  it comes back (`ResultArrives`). In callbacks the same holds of two eightbytes only
  (`HidesPair`; `ffi/callback.go:416` says that `classifyEightbyte` does not support
  nested structs): of one eightbyte a callback reads what the ABI passes, since its
  `isStructAllFloats` recurses (`callback.go:401-404`), and `CallbackSeesArgs` checks it.
  Structs that nest without hiding anything are checked everywhere.
* **goffi's two sides disagree with each other** on a struct of one eightbyte, made of
  floats, with a struct in it (`HidesSmall`), such as {float32, struct{float32}}.
  `CallFunction` asks the flat `isStructAllFloats` (`classification.go:69`, called at
  `call_unix.go:113`) and fills a general register; `callbackWrap` asks its own copy,
  which recurses (`callback.go:394`; `callback_struct_args_test.go:244` expects true
  for this very struct, `docs/ARCHITECTURE.md:185` describes it), and reads an XMM
  register that nobody filled. Both functions carry the comment "if every member of a
  flat struct is float or double". `SelfCallAgrees` excludes this case and nothing
  else but `float32`; without the exclusion TLC shows the trace, which passes one
  such struct to a Go callback. It is the callback that follows the ABI. It is
  listed here and not under findings, since no document claims nested structs for calls.
* `IntType` has no case in `Execute`: the address of the value is passed, and a
  result of that type is refused after the call was made.
* structs passed or returned in memory are not counted by `PrepareCallInterface`:
  a call it accepts may run out of the nine stack slots, and `Execute` indexes
  past its array before it reaches its own check (`call_unix.go:199`).
* a `float32` argument of a callback is read as a `float64` and narrowed
  (`callback.go:246`), although C passes a float in the low half of the register.
* a float result of a Go callback: it is stored into the one word the dispatcher
  loads into RAX and never gets into XMM0, although `ffi/callback.go:376` says the
  assembly moves it there, and `docs/CALLBACK_ABI.md:17` that amd64 callbacks
  "return integers, pointers, bool and floats".
* a struct of at most 8 bytes made of floats, returned by C: `handleReturn` looks
  for it in RAX (`implementation.go:100`), C returns it in XMM0, and so says
  `README.md:38` ("≤8B (RAX/XMM0)").

Proved (`SysVProofs`): all six properties, for every set of types, every interface over
them and every number of stack slots.

* `AcceptedFits` (an accepted call stays within the slots) and `Invariance`: the lemmas
  `ScalarCounts`, `SmallCounts` and `PairCounts` say that `classifyArgumentAMD64` counts
  an argument as what `Execute` makes of it, and `ArgHolds` that placing an argument
  turns registers that hold `a` integer and `b` float eightbytes (`Holds`) into
  registers that hold what the counts add. The invariant `IInv` keeps the two loops in
  step: after `k` arguments Execute's registers hold `totals[k + 1]`, counts never
  decrease, and the last was accepted. `Counted` is the exclusion of structs in memory,
  which the run shows to be needed.
* `CallInvariance`: `Spec => []CallInv`, where `CallInv` adds to `IInv` that what Execute
  has placed so far is where goffi's own counters say (`Placed`), that the callback has
  read its frame by the same counters (`Called`), and what is in the return registers
  and in `rvalue` (`Returning`). From it `CallTypeCorrect`, `ArgumentsArrive`,
  `ResultsArrive`, `CallbacksSeeArguments` and `SelfCallsAgree` follow.
* The argument: `GoUse` and `GoPlace` say where a rule that classes eightbytes assigns
  places, `GoUsed` its running totals. There are three such rules: the caller's
  (`CallRule`), the callback's (`CbRule`) and the ABI's (`AbiRule`). `CallClass`, `CbClass`
  and `AbiClass` derive each from the definitions it stands for, and two of them that
  class every argument alike (`Alike`) place all of them alike (`AlikeUsed`).
  `CbLikeCall` shows the first two alike on every type that is not `HidesSmall`, so
  caller and callback agree (`SelfCallsAgree`); `CallLikeAbi` and `CbLikeAbi` show them like
  the ABI's where nothing is hidden, and then the places are the ABI's as
  long as no struct is split (`GoIsAbi`). Two eightbytes never share a place
  (`PlacesDiffer`), so nothing placed is overwritten.
* `AcceptanceExact`: the counts of an accepted interface cover what the ABI places
  (`Covered`), and a refused one needs more slots than there are.

The running totals of both sides are recursive functions over the argument list.
`AbiRunExists` and `GoRunExists` show that a function with their equation exists, which
unfolds them; what holds of every prefix is shown by taking the least counterexample
(`NatMin`), since the library's induction theorem cannot be instantiated.

What the assumption on types (`TypesAssumption`) asks: structs are complete and may
be nested; their leaves are those of their members; each leaf lies in one eightbyte
and no eightbyte is padding only, as in every C struct of naturally aligned
scalars up to 16 bytes; scalars have at most 8 bytes. No struct is empty. The
frame C builds for a callback (`AbiFrame`) has a stack exactly as long as the ABI uses.

### AAPCS64

Modules `Aapcs64Abi`, `Arm64Call`, `Arm64Callback`, `Arm64RoundTrip`, `MCArm64`,
`Arm64Proofs`, built like those of System V. `Aapcs64Abi` is the reference, with
Apple's changes to it. `Arm64Call` is `prepareCallInterfaceCore` with the classifier of
`internal/arch/arm64`, `Execute` and `handleReturn`; `Arm64Callback` the dispatcher
and its `callbackWrap`. A type lists its scalars in memory order (`leaves`), which is
what the recursive walks over nested structs visit. There are two such walks, kept
apart in the model as in the code: `PlaceWalk` (`placeStructRegisters`) makes the words,
`CountWalk` (`countStructRegUsage`) counts them, with a rule of its own for kinds it
does not know.

Run `arm64_roundtrip`, on Linux and on Apple systems: `ArgsArrive` (homogeneous
aggregates in D registers, small structs in X registers, large ones by address, X8
for a large result, Apple's variadic arguments on the stack), `ResultArrives`,
`CallbackSeesArgs`, and `AcceptedCallFits`: `preparePlatformSpecific` counts with the
6 registers and 9 slots of amd64 on every architecture while the stub has 8 and 7,
and the run shows when that is harmless.

Bounds. As above: prefixes of scalars that use up 0, some, all but one or all of
each kind of register and of the stack, followed by one or two arguments of any of
22 types, among them nested structs; two to nine aggregates of a kind (`Crowds`), so
that the last ones find no register; every result type after a few argument
lists; variadic calls with one and two fixed arguments; calls with a value less
than types.

What the properties exclude is where the code and the ABI are known to differ:

* `FloatsApart`: a struct of at most 16 bytes that is no homogeneous aggregate and
  has eight bytes made of floats only. `placeStructRegisters` gives those to a D
  register; the ABI puts the struct into X registers.
* `Lags`: one with padding that no alignment asks for, as after a nested struct with
  padding at its end. Both walks keep a running position (`shift`) that does not know of
  it, so what follows is put too low in its register.
* an aggregate that does not fit the registers left (`Overflows`): a homogeneous one
  is cut into four-byte pieces that fill the remaining D registers and one stack
  slot each; another small one is passed by address.
* `IntType`, as on amd64; Apple's packing of narrow stack arguments (`Packed`).
* a struct of one float is no HFA for the return classifier, so its result is
  looked for in X0 instead of D0.
* `float32` arguments of callbacks, as on amd64.
* an argument for which there is no stack slot left is dropped without an error:
  the result of `addInt` and `addFloat` is not looked at for scalars, and the check
  after the loop cannot fail. `AcceptedCallFits` says how far `PrepareCallInterface`
  prevents it. An accepted call loses a value with more than 15 floats and fewer than 8
  integers; in Apple's variadic calls; or when a homogeneous aggregate comes after the D
  registers are used up (`Spills`): it is counted as one slot per element and takes one
  per four bytes. Four structs of a float and a double, four doubles in a struct and a
  double after them lose the double so.

In the other direction nothing that would have fitted is refused where goffi's rules
are the ABI's (`Agreed`). Elsewhere it is: five structs of four floats take 48 bytes of
stack by the ABI and are counted as twelve slots.

### Call preparation

Modules `CallPreparation`, `MCPreparation`. Every statement of
`initializeCompositeType` that reads or writes a descriptor is a step, and an
activation of the recursion a frame of `work[g]`. `desc` holds the `Size` and
`Alignment` of every descriptor, which goroutines share; `cif[g]` the interface
that a goroutine has for itself. `Begin` has the checks before anything is written,
`EnterType` and `CheckType` the loop over result and arguments, `Classify` and
`Prepared` `preparePlatformSpecific` reduced to the sizes it reads.
`PrepareCallInterface` leaves `FixedArgCount` as it was, so an interface that was
variadic stays so when it is prepared again: `PreparedIsRight` asks for the
count of variadic requests only.

Run `preparation`: two goroutines prepare twice each, any of ten interfaces over nine
descriptors that share structs, nest them, contain an invalid type behind a valid
member or a nested struct with no members, or overflow the platform's room.
`Intact`: a descriptor nobody works on is untouched or has the C layout;
`PreparedIsRight`: an interface that was accepted was classified by that layout and
still agrees with it; `RefusedRightly`: nobody is refused for what another does.
A failure in the middle leaves a size that counts as finished, and a second
preparation accepts the ill-formed type: `PreparedIsRight` names this case
(`tainted`).

These hold under `Synchronized`, the assumption that callers do not prepare at once
what shares a struct that is not laid out yet. Run `preparation_shared` (violation)
is the same model without it: finding 2.

Bounds. Two goroutines are enough for one to be between any two statements of the
other; two preparations each show a descriptor after success and after failure;
`Capacity` 4 stands for the register and stack room and is exceeded by one request.
Goroutines are interchangeable (symmetry).

Proved (`CallPreparationProofs`), for any number of goroutines, any types and any
nesting: `PreparationTypeOK` without a condition, and under `Synchronized`
`PreparationIntact`, `PreparationIsRight` and `PreparationRefusedRightly`. Assumed of
types: there are finitely many, the program gives scalars their size and whatever has
a size an alignment, alignments are powers of two up to 2^12 (`align` masks bits), and
none is nested in itself (`NestingAssumption`); structs may arrive laid out or not,
empty ones and invalid ones among them.

* `TypeInv` is `TypeOK` with the shape of the recursion (`Activations`): every
  activation is of the member the one below is at, and none is of a struct that is
  under way below it. This bounds the depth whatever other goroutines write meanwhile.
* `LayoutInv` adds, under `Synchronized`: two goroutines that work have no unfinished
  struct in common (`Exclusive`); what nobody works on is untouched, or right, or was
  given up by somebody (`Resting`); every activation has come as far with `Size` and
  `Alignment` as its position says (`Layout`, `Partial`); and each goroutine's results
  are right as far as it has come (`Known`, `RefusedFor`).
* `Right` and `Nested` are recursive functions over types. That they exist is shown by
  adding one type at a time to the largest set they exist for (`RightExtends`), which is
  all types by `NestingAssumption`. A struct's bytes are summed by induction over its
  members, again by least counterexample.
* Working on it showed that `Nested` must stop at structs whose `Size` the program gave:
  `initializeCompositeType` never enters those (lines 44, 57 and 146), and what lies below them does
  not matter.

Proved (`Arm64Proofs`), for every set of types laid out as C lays them out
(`TypesAssumption`) and every interface over them (`SignaturesAssumption`):

- `TypeCorrect`. The folds that `Execute` is made of (`Added`, `SpillHFA`) keep at
  most eight words of a kind and seven slots (`Filled`), and the ABI's own counters
  stay within 0 to 8, which bounds what the callback's frame holds.
- `ResultsArrive`. The words the ABI returns a type in cover it leaf by leaf
  (`PartsWhole`: no scalar straddles two eight-byte words, since each is aligned to its
  own size), and `handleReturn` writes each of them where the type has it
  (`HfaOffsets` for homogeneous aggregates, whose elements lie without gaps).
- `ArgumentsArrive`. `Passed` relates what `Execute` has filled to the ABI's `Used` after
  every argument: registers filled are the counters (the boundary of Apple's variadic
  arguments fills them up), slots are `Used.stack`, and every argument so far is `There`.
  What is placed stays, because a later argument only appends (`Extends`). That a small
  struct's words are the eightbytes the ABI asks for is shown of the walk: for a `Tidy`
  struct (neither `FloatsApart` nor `Lags`) the running position is that of the next
  scalar, and the word being filled holds what came before in it (`InStep`, `Ready`).
- `AcceptedCallsFit`. The two walks agree (`CountsWhatIsPlaced`: what `CountWalk` counts is
  what `PlaceWalk` makes, whatever the struct), so the totals bound what `Execute` asks for
  (`FitsInv`, `Within`); a value is dropped only when more than seven words have found no
  register, which an accepted call allows with few integers and many floats (`Lost`). For
  the converse, `Backs`: what goffi counts beyond the registers, the ABI puts on the
  stack too, so a refused call has more than 56 bytes there.
- `CallbacksSeeArguments`. Where goffi calls a callback at all, each argument takes one
  register or slot (`Takes`), no two take the same (`PlacesDiffer`), so the frame holds each at
  its own place (`AbiFrameHolds`, and `PassedFrameHolds` when goffi's caller wrote it); and
  the counters of `callbackWrap` are the ABI's, its stack counter in eight-byte slots
  (`InPlace`).


## 5. Calls, callbacks and threads

### Callbacks: `CallbackRegistry`, `CallbackRegistryProofs`

State: `stack[a]`, the frames of goroutine or C thread `a` that are inside
`NewCallback`, `callbackWrap` or a Go function called by it; `mu`, `funcs` and
`count`, the struct `callbacks` of `ffi/callback.go`; `given`, history: which
pointer was returned for which function. Each access to the shared struct is a
step of its own: `RegLock`, `RegCheck`, `RegStore`, `RegReturn`, `RegPanic` in
`NewCallback`, `WrapLock`, `WrapFetch` in `callbackWrap`. `CCallsBack` includes
the trampoline: the dispatcher computes the index from the return address the
`CALL` pushed, one entry past the pointer.

Run `callbacks`: two goroutines and a C thread, a registry of two, nesting of
two, so that registration overlaps with lookup on two other threads, a callback
registers callbacks, and the registry overflows. `CallbackIsTheOneGiven` and
`EverybodyIsServed`; deadlock is checked. Fairness: strong for the steps that
take or hold the mutex, because `sync.Mutex` hands itself to a waiter that has
waited a millisecond; the Go functions themselves may run for ever.

Proved for any number of actors, functions, trampolines and any nesting:
`TypeCorrect`, `MutualExclusion`, `NoSharedTrampoline` and
`CallbackReachesItsFunction`. The invariant `IInv` says of each frame what its
position entitles it to (`FrameOK`): between Lock and Unlock its actor owns the
mutex; past the check the index is `count` itself, which nobody else can have;
below `count` a function never changes, so a looked-up function stays the one
the pointer was made for. `BelowRuns`, that only the innermost frame of an actor
can be inside the registry, is needed to know that the owner of the mutex has
one such frame, not two.

### Calls: `CallContract`, `ForeignCalls`, `ForeignCallsProofs`

State: `stack[g]`, the calls, loads and Go callbacks of goroutine `g`;
`thread[g]`, the OS thread while C is on its stack; `errno` and `dlerr` per
thread; `free` and `block`, the pool of `syscallArgs`. `CallNFloatErrno` takes a
block and fills it, `Enter` is `runtime.cgocall` on a thread the scheduler picks,
`CReturns` the stub's stores including errno, `CgocallReturns` the return to Go,
where the thread may be lost, `ReadResults` and `Return` the rest. C may call
back; the Go function may call again, grow the goroutine's stack (which moves it:
`moved`), or panic through the C frame (`Unwind`). `Dlopen` and `dlerrorString`
are two cgocalls.

Abstractions: C's work between entry and return is `SetErrno`; the stub's stores
and its errno call are one step because nothing else can run on that thread; the
second cgocall of `dlerrorString` and the copy of its text are one step; a block
in the pool holds nothing, as its next user overwrites all of it.

Run `foreign_calls`: two goroutines, two threads, three blocks, three frames
deep (a call, a callback, a call), one level of loads. Two of each are enough for
one to disturb the other; a third block lets a nested call go on while both
goroutines hold one. `BlockIsExclusive`, `ResultIsOwn`, `HandleArrives`,
`CallsAreAtomic`; deadlock is checked: a goroutine that waits for an idle thread or
a free block is always waiting for one that can go on. `MCForeignCalls` declares
goroutines, threads and blocks symmetric: no action and no property names one of
them, and nothing checked here is a liveness property.

`CallsAreAtomic` is the refinement of `CallContract`, the promise made to a goroutine
that calls C. There are no threads and no blocks in it: a goroutine has its calls in
progress and, while C is below, an errno of its own, which only its own C functions
set. A call begins, C runs, is called back or sets errno, and `Answer` fixes result and
errno at once, with the errno of that moment; what happens until `Return` may not
change them. The mapping: `Calls` are the frames as `Seen`, where a call the stub
has returned from shows what is in its *block*, until `ReadResults` has copied it; `Errno`
is the errno of the thread while some C function of the goroutine runs. So `Enter` on a
thread with another goroutine's errno is allowed (C may see any errno at first), but
a store to a block of another call, a block reused before it was read, an errno
read on another thread or two goroutines with C on one thread are not steps of the
contract. `CgocallReturns`, `ReadResults`, `GrowStack`, `DlopenChecks` and
`dlerrorString` are stutters. A load is answered without a content here: what it reports
is `HandleArrives` and finding 1.

`HandleArrives` excludes a load whose constructors called back and moved the
stack: `dlopenArgs` is a local variable (`dl_unix.go:94`), the wrapper writes to
the old stack, and a successful load is reported as a failure. The same hazard is
what `CallNFloat`'s comment takes the pool for.

Proved for any number of goroutines, threads and blocks and any nesting:
`TypeCorrect`, `NoSharedBlock`, `OwnResult`, `OwnErrno`, `OwnHandle`, `OwnThread` and
`CallsImplementContract`. (`OwnErrno`, which compares the errno reported with
the one recorded when C returned, is proved and not listed in the run: the run checks
the same through the contract.) `IInv`
follows a frame through its life (`FrameOK`): the block of a call is out of the
pool and holds its argument until C has it, then its result and errno until
`ReadResults` copies them. Two more parts make that inductive. `Exclusive`: no two
frames have one block, so the stores of one call leave the others' blocks alone;
it follows from taking blocks out of the pool, and would not survive putting
one back early. `Nesting`: calls and callbacks alternate and whatever is below the
top is in C, so that a panic which unwinds two frames meets a callback and the C
call under it, a stack that moves under a load finds it before `dlopen` has
returned, and the oldest frame alone tells whether a goroutine holds a thread.

The refinement needs one invariant more, `ThreadsApart`: two goroutines with C on
their stacks are on different threads, because `Enter` takes an idle thread or the one the
goroutine has. Without it a `SetErrno` of one goroutine would change the errno of
another. `CallsImplementContract` then has one lemma for each action (`...Maps`).
They rest on few lemmas about the mapping: how `Push`, `Pop` and `Become` change `Calls`
(`PushMaps`, `PopMaps`, `BecomeMaps`), that a frame whose block is untouched is seen as
before (`KeptSeen`, by `Exclusive`), and that a step of one goroutine leaves what
is seen of the others alone (`Alone`). `ContractStep` puts them together, and
`ContractInit` does the initial states.

`foreign_load_error` (violation) is finding 1: `dlerror` runs in a cgocall of its
own and may run on another thread.

### Loading on Android: `AndroidLoader`, `AndroidLoaderProofs`

Android's loader is the answer to finding 1: one cgocall runs dlopen or dlsym and,
on the same thread, dlerror and strdup. State: `pc[g]`, the call of each goroutine
(`call`, and `turn` to tell it from the one before), `thread[g]` while it is in C,
`found[g]` and `error[g]`, the result fields of `args`, `name[g]`, the C string of
the argument; `heap`, what malloc and strdup handed out; `dlerr`, the pending text
per thread. `cgo` is the build: with cgo (`dl_android_cgo.go`) the arguments are on
the heap, without (`dl_android_nocgo.go`, `dl_android_nocgo_arm64.s`) on the
goroutine's stack, which a constructor that calls back may move (`GrowStack`).
`Clear` is the dlerror before dlsym, `Explain` dlerror and strdup, `Check`, `Copy`
and `FreeText` are `takeAndroidDlerror`, whose free is a cgocall of its own.
`OthersFail` is other C code that leaves a text on a thread: on one goffi does not
use at the time, or in a constructor.

Run `android_loader`: two goroutines on two threads with three chunks, in both builds.
`ReportIsTrue` and `ChunksHaveOwners`; deadlock is checked. Three chunks run out when
both calls of the cgo build fail at once, so strdup fails as well. A found
library whose arguments moved is reported as an unknown error (`moved`), the
hazard of `HandleArrives`.

Proved for any number of goroutines, threads and chunks: `TypeCorrect`, `OwnReport`
and `OneOwner`. `Apart`, that no two goroutines are in C on one thread, is what
keeps a text from being replaced between dlopen and dlerror. `CallOK` follows the
text: pending on the thread of the call, then in its chunk, then in its report; a
dlsym past `Clear` has nothing pending. `ChunksHaveOwners` is inductive together
with them.

### Threads: `ThreadStart`, `ThreadStartProofs`

State: what each OS thread is doing (`pc`), its g, its signal mask, its signal stack
and the size of its stack, the stack size each g was told (`stackhi`), the runtime's
argument and the C copy it works on, the heap those copies come from, and
`aborted`. `x_cgo_init` runs first; then `x_cgo_thread_start` makes the copy,
`Prepare` is `_cgo_sys_thread_start` up to `pthread_create`, `Create`,
`CreateAgain` and `CreateFails` the retry loop, `Created` and `Abort` its ends, and
on the new thread there are `threadentry` (copy and free) and `setg`.

`platform` is one of five, and a disjunct of `Prepare` and of `x_cgo_init` each:
Linux, FreeBSD and NetBSD take the default stack size; macOS gives the new thread
the creator's own (`DarwinAttr`); Android checks every attribute call and aborts,
and refuses to start on an API level or TLS layout it does not know
(`OldApi`, `x_cgo_inittls`); on NetBSD a new thread inherits the signal stack as well,
and `threadentry` disables it (`SigstackAtEntry`). Elsewhere the attribute calls are
assumed to succeed, as the code does.

Run `thread_start`: three threads, four gs, two records, so two starts overlap and a
third reuses a record freed by one of them; two attempts stand for twenty.
`EachRunsItsG` (with the stack size its g was told), `SignalsFindG`, `StartsEnd`; that
no start makes more attempts than `MaxTries` is in `TypeOK`. Fairness is weak, for
`x_cgo_init` and for each thread: the kernel runs every thread and its calls
return. Deadlock checking is off because `abort` ends the program.

Proved for any number of threads, gs, records and attempts and any set of platforms:
`TypeCorrect`, `OwnG` and `NoStraySignal`. The invariant says of each thread what its
place entitles it to (`ThreadOK`), and that records, gs and pending starts are apart
(`Apart`): no two starts have one g, no two threads one record, and what a record
holds is the g its thread was made for. Without the last part a freed and reused
record could bring a thread another's g.

## 6. Findings

| | Run | Where |
| --- | --- | --- |
| 1 | `foreign_load_error` | `internal/dl/dl_unix.go:103`: `dlerror` runs in a cgocall of its own, possibly on another thread |
| 2 | `preparation_shared` | `ffi/cif.go:142`: two goroutines with interfaces of their own lay one shared struct out at once, and one classifies it by a partial size, or its size is wrong for good |

`PROJECT.json` quotes the comments each one contradicts. Sections 3 and 4 describe
further differences between code, documents and ABI, each as an exclusion of a
property (the run fails when the exclusion is dropped) or as a change of a
configuration. Read off the code without a run: `FreeLibrary` is documented to
decrement a reference count (`ffi/dl_unix.go:112`), and `Dlclose` does nothing
(`dl_unix.go:141`); `CallFunctionContext` is documented to return an errno of 0 on
success (`ffi/ffi.go:223`), and nothing clears errno before the call
(`syscall_unix_amd64.s:122`).

## 7. What is proved, what is only checked, what is not modelled

Proved by TLAPS, for every value of the constants: the theorems of
`UniversalBridgeProofs`, `SysVProofs`, `Arm64Proofs`, `CallPreparationProofs`,
`CallbackRegistryProofs`, `ForeignCallsProofs`, `ThreadStartProofs` and
`AndroidLoaderProofs`; between them every safety property of every passing run.
Their assumptions are the named `ASSUME`s of the modules and, for the
bridge, one of five conditions (`GuardIsReliable`, `EntryIsSeen`, `RecordIsReliable`,
`NothingIsLost`, `FamiliesHold`; section 3 says why each is needed), for call
preparation `Synchronized`, which finding 2 shows to be needed.

Only model-checked: liveness (`StartupEnds`, `ReachesMain`, `EverybodyIsServed`,
`StartsEnd`), which needs fairness and ENABLED, out of the prover's reach; and the
two findings, whose runs expect a violation.

Not modelled: variadic calls on System V (AL, which the stub clears,
`syscall_unix_amd64.s:99`); the stub and pooled blocks of arm64, which are those of
`ForeignCalls`, and the dispatcher's stores below SP there; widths of values inside
registers (results narrower than eight bytes, `bool` and `float32` arguments of
callbacks, `callback.go:246` and 255); an `avalue` slice shorter than the signature on
amd64, which panics (`call_unix.go:84`); the descriptors a chain of re-executed
copies keeps open (`reexec_universal_linux.go:489`); that `callbackWrap` sees 128 words of
the frame, registers included, and panics beyond them (`callback.go:191`); the text that `dlerror` returned
being read after the cgocall (`dl_unix.go:161`); the TLS set-up of universal builds
(one variable, before any thread exists); the dynamic loading of macOS and the BSDs
(the protocol of Linux with other symbols); the Windows path (in the Go
runtime); static-build detection and host information (tables); generated symbol
tables and trampolines; the tools in `cmd/` and `scripts/`.

## 8. Running

    tlc -config callbacks.cfg CallbackRegistry
    tlc -config foreign_calls.cfg MCForeignCalls
    tlc -config arm64_roundtrip.cfg MCArm64
    tlapm ThreadStartProofs.tla

`PROJECT.json` lists every run with its module and configuration, and for every
property a mutated definition (in the modules next to the original, marked
`Mutant`) under which the run fails.
