------------------------------ MODULE ThreadStart ------------------------------
(***************************************************************************)
(* Threads of the Go runtime, created with pthread_create by goffi's       *)
(* replacement for runtime/cgo (internal/fakecgo): go_util.go and          *)
(* go_libinit.go, and for each platform a go_<platform> file.              *)
(*                                                                         *)
(* The runtime hands x_cgo_thread_start a ThreadStart record on its own    *)
(* stack; a copy of it in C memory goes to the new thread, which frees it. *)
(* Any thread that runs Go code may start another, so several starts       *)
(* overlap and records freed by one thread are allocated again by others.  *)
(***************************************************************************)
EXTENDS Integers

CONSTANTS
  Threads,   \* thread slots of the operating system
  First,     \* the thread the program starts on
  Gs,        \* g0 structures the runtime allocates for new threads
  Records,   \* chunks of memory malloc may return
  Platforms, \* "linux", "android", "darwin", "freebsd", "netbsd"
  MaxTries,  \* pthread_create attempts: 20
  None

ASSUME FirstAssumption == First \in Threads
ASSUME GsAssumption == Gs # {}
ASSUME NoneAssumption == None \notin Records \cup Gs
ASSUME TriesAssumption == MaxTries \in Nat \ {0}

VARIABLES
  platform, \* which of them this is
  pc,       \* what each thread is doing
  g,        \* the g in each thread's TLS
  mask,     \* signal mask of each thread: its own, or all signals blocked
  arg,      \* the runtime's ThreadStart, on the stack of the thread that starts
  ts,       \* the copy a thread has allocated, or has been given
  tries,    \* failed attempts of pthread_create
  heap,     \* ThreadStart copies: the g each one holds, None if free
  stackhi,  \* the stack size each g was told
  size,     \* the stack size each thread has
  attr,     \* the stack size in the attributes of the thread being created
  sigstack, \* whose signal stack each thread handles signals on
  aborted,  \* why the program was aborted
  meant     \* history: the g each new thread was created for

\* What most actions leave alone.
sizes == <<stackhi, size, attr, sigstack>>
vars == <<platform, pc, g, mask, arg, ts, tries, heap, sizes, aborted, meant>>

Starting == {"malloc", "block", "create", "created", "failed"}
Entering == {"entry", "copied"}
\* The main thread's stack, and what pthread_attr_init sets.
Sizes == {"none", "main", "default"}

TypeOK ==
  /\ platform \in Platforms
  /\ pc \in [Threads -> {"none", "init", "go"} \cup Starting \cup Entering]
  /\ g \in [Threads -> Gs \cup {None}] /\ arg \in [Threads -> Gs \cup {None}]
  /\ meant \in [Threads -> Gs \cup {None}]
  /\ mask \in [Threads -> {"own", "blocked"}]
  /\ ts \in [Threads -> Records \cup {None}]
  /\ heap \in [Records -> Gs \cup {None}]
  /\ tries \in [Threads -> 0..MaxTries]
  /\ stackhi \in [Gs -> Sizes]
  /\ size \in [Threads -> Sizes] /\ attr \in [Threads -> Sizes]
  /\ sigstack \in [Threads -> Threads \cup {None}]
  /\ aborted \in {"no", "memory", "attr", "api", "tls", "retries", "error"}

Running == aborted = "no"
\* The runtime gives every start a g of its own.
Unused(n) == \A t \in Threads : g[t] # n /\ meant[t] # n /\ (pc[t] \in Starting => arg[t] # n)
--------------------------------------------------------------------------------
\* The runtime calls _cgo_thread_start.
Start(t, n) ==
  /\ Running /\ pc[t] = "go" /\ Unused(n)
  /\ arg' = [arg EXCEPT ![t] = n]
  /\ pc' = [pc EXCEPT ![t] = "malloc"]
  /\ UNCHANGED <<platform, g, mask, ts, tries, heap, sizes, aborted, meant>>

\* x_cgo_thread_start: a copy that persists after it returns.
x_cgo_thread_start(t) ==
  /\ Running /\ pc[t] = "malloc"
  /\ \/ \E r \in Records :
          /\ heap[r] = None
          /\ heap' = [heap EXCEPT ![r] = arg[t]]
          /\ ts' = [ts EXCEPT ![t] = r]
          /\ pc' = [pc EXCEPT ![t] = "block"]
          /\ UNCHANGED aborted
     \/ aborted' = "memory" /\ UNCHANGED <<heap, ts, pc>>
  /\ UNCHANGED <<platform, g, mask, arg, tries, sizes, meant>>

BlockSignals(t) == mask' = [mask EXCEPT ![t] = "blocked"]

\* The attributes are for a stack of n, and the g is told.
Attr(t, n) == /\ stackhi' = [stackhi EXCEPT ![heap[ts[t]]] = n]
              /\ attr' = [attr EXCEPT ![t] = n]
              /\ pc' = [pc EXCEPT ![t] = "create"]
              /\ UNCHANGED aborted
\* pthread_attr_getstacksize: whatever pthread_attr_init set.
LinuxAttr(t) == platform = "linux" /\ Attr(t, "default")
BsdAttr(t) == platform \in {"freebsd", "netbsd"} /\ Attr(t, "default")
\* Bionic's calls are checked: androidFatal.
AndroidAttr(t) == /\ platform = "android"
                  /\ \/ Attr(t, "default")
                     \/ aborted' = "attr" /\ UNCHANGED <<stackhi, attr, pc>>
\* pthread_get_stacksize_np: the new stack is as large as the creator's.
DarwinAttr(t) == platform = "darwin" /\ Attr(t, size[t])

\* _cgo_sys_thread_start up to pthread_create.
Prepare(t) ==
  /\ Running /\ pc[t] = "block"
  /\ BlockSignals(t)
  /\ LinuxAttr(t) \/ BsdAttr(t) \/ AndroidAttr(t) \/ DarwinAttr(t)
  /\ tries' = [tries EXCEPT ![t] = 0]
  /\ UNCHANGED <<platform, g, arg, ts, heap, size, sigstack, meant>>

\* pthread_create succeeds: the new thread inherits the mask, on NetBSD also
\* the signal stack.
Create(t, u) ==
  /\ Running /\ pc[t] = "create"
  /\ pc[u] = "none"
  /\ pc' = [pc EXCEPT ![t] = "created", ![u] = "entry"]
  /\ ts' = [ts EXCEPT ![u] = ts[t]]
  /\ mask' = [mask EXCEPT ![u] = mask[t]]
  /\ meant' = [meant EXCEPT ![u] = arg[t]]
  /\ size' = [size EXCEPT ![u] = attr[t]]
  /\ sigstack' = [sigstack EXCEPT ![u] = IF platform = "netbsd" THEN sigstack[t] ELSE None]
  /\ UNCHANGED <<platform, g, arg, tries, heap, stackhi, attr, aborted>>

\* Mutants: one attempt more; EAGAIN is retried for ever.
GiveUp_Above(n) == n > MaxTries
GiveUp_Never(n) == FALSE
GiveUp(n) == n >= MaxTries

\* It fails with EAGAIN, and is tried again after a sleep.  (The count starts
\* over beyond MaxTries, where the code never gets.)
CreateAgain(t) ==
  /\ Running /\ pc[t] = "create"
  /\ tries' = [tries EXCEPT ![t] = IF @ > MaxTries THEN 0 ELSE @ + 1]
  /\ pc' = [pc EXCEPT ![t] = IF GiveUp(tries[t] + 1) THEN "failed" ELSE "create"]
  /\ UNCHANGED <<platform, g, mask, arg, ts, heap, sizes, aborted, meant>>
\* It fails with another error.
CreateFails(t) ==
  /\ Running /\ pc[t] = "create"
  /\ aborted' = "error"
  /\ UNCHANGED <<platform, pc, g, mask, arg, ts, tries, heap, sizes, meant>>

\* Mutant: the creator frees the copy as well.
Created_Free(t) ==
  /\ Running /\ pc[t] = "created"
  /\ heap' = [heap EXCEPT ![ts[t]] = None]
  /\ mask' = [mask EXCEPT ![t] = "own"]
  /\ pc' = [pc EXCEPT ![t] = "go"]
  /\ ts' = [ts EXCEPT ![t] = None] /\ arg' = [arg EXCEPT ![t] = None]
  /\ UNCHANGED <<platform, g, tries, sizes, aborted, meant>>
\* After pthread_create: the mask is restored; the copy is the new thread's.
Created(t) ==
  /\ Running /\ pc[t] = "created"
  /\ mask' = [mask EXCEPT ![t] = "own"]
  /\ pc' = [pc EXCEPT ![t] = "go"]
  /\ ts' = [ts EXCEPT ![t] = None] /\ arg' = [arg EXCEPT ![t] = None]
  /\ UNCHANGED <<platform, g, tries, heap, sizes, aborted, meant>>
Abort(t) ==
  /\ Running /\ pc[t] = "failed"
  /\ aborted' = "retries"
  /\ UNCHANGED <<platform, pc, g, mask, arg, ts, tries, heap, sizes, meant>>

\* Mutant: the inherited signal stack stays.
SigstackAtEntry_Kept(u) == sigstack[u]
\* NetBSD: sigaltstack with SS_DISABLE.
SigstackAtEntry(u) == IF platform = "netbsd" THEN None ELSE sigstack[u]
\* threadentry: ts := *v; free(v); setg; and the function the runtime wants,
\* mstart, which takes a signal stack unless it has one, and restores the mask.
threadentry(u) ==
  /\ Running /\ pc[u] = "entry"
  /\ arg' = [arg EXCEPT ![u] = heap[ts[u]]]
  /\ heap' = [heap EXCEPT ![ts[u]] = None]
  /\ ts' = [ts EXCEPT ![u] = None]
  /\ sigstack' = [sigstack EXCEPT ![u] = SigstackAtEntry(u)]
  /\ pc' = [pc EXCEPT ![u] = "copied"]
  /\ UNCHANGED <<platform, g, mask, tries, stackhi, size, attr, aborted, meant>>
setg(u) ==
  /\ Running /\ pc[u] = "copied"
  /\ g' = [g EXCEPT ![u] = arg[u]]
  /\ arg' = [arg EXCEPT ![u] = None]
  /\ sigstack' = [sigstack EXCEPT ![u] = IF @ = None THEN u ELSE @]
  /\ mask' = [mask EXCEPT ![u] = "own"]
  /\ pc' = [pc EXCEPT ![u] = "go"]
  /\ UNCHANGED <<platform, ts, tries, heap, stackhi, size, attr, aborted, meant>>

\* mstart returns: the thread ends.
Exit(u) ==
  /\ Running /\ pc[u] = "go" /\ u # First
  /\ pc' = [pc EXCEPT ![u] = "none"]
  /\ g' = [g EXCEPT ![u] = None] /\ meant' = [meant EXCEPT ![u] = None]
  /\ stackhi' = [stackhi EXCEPT ![g[u]] = "none"]
  /\ size' = [size EXCEPT ![u] = "none"]
  /\ sigstack' = [sigstack EXCEPT ![u] = None]
  /\ UNCHANGED <<platform, mask, arg, ts, tries, heap, attr, aborted>>
--------------------------------------------------------------------------------
(* x_cgo_init, on the thread the program starts on.                         *)

\* The bounds of the first stack are known; the runtime goes on.
Initialised == /\ pc' = [pc EXCEPT ![First] = "go"]
               /\ sigstack' = [sigstack EXCEPT ![First] = First]
               /\ UNCHANGED aborted
Refuse(why) == aborted' = why /\ UNCHANGED <<pc, sigstack>>
LinuxInit == platform = "linux" /\ (Initialised \/ Refuse("memory"))
NetBsdInit == platform = "netbsd" /\ (Initialised \/ Refuse("memory"))
FreeBsdInit == platform = "freebsd" /\ (Initialised \/ Refuse("memory"))
\* No attributes, hence no malloc.
DarwinInit == platform = "darwin" /\ Initialised
\* Not androidAPI29: an older libc, or one that does not tell.
OldApi == platform = "android" /\ Refuse("api")
\* That, or the runtime keeps g in another slot than 2.
x_cgo_inittls == OldApi \/ (platform = "android" /\ Refuse("tls"))
AndroidInit == platform = "android" /\ (Initialised \/ Refuse("memory") \/ Refuse("attr"))
x_cgo_init ==
  /\ Running /\ pc[First] = "init"
  /\ LinuxInit \/ NetBsdInit \/ FreeBsdInit \/ DarwinInit \/ x_cgo_inittls \/ AndroidInit
  /\ UNCHANGED <<platform, g, mask, arg, ts, tries, heap, stackhi, size, attr, meant>>

--------------------------------------------------------------------------------
G0 == CHOOSE n \in Gs : TRUE
Init == /\ platform \in Platforms
        /\ pc = [t \in Threads |-> IF t = First THEN "init" ELSE "none"]
        /\ g = [t \in Threads |-> IF t = First THEN G0 ELSE None]
        /\ meant = g
        /\ mask = [t \in Threads |-> "own"]
        /\ arg = [t \in Threads |-> None]
        /\ ts = [t \in Threads |-> None]
        /\ tries = [t \in Threads |-> 0]
        /\ heap = [r \in Records |-> None]
        /\ stackhi = [n \in Gs |-> IF n = G0 THEN "main" ELSE "none"]
        /\ size = [t \in Threads |-> IF t = First THEN "main" ELSE "none"]
        /\ attr = [t \in Threads |-> "none"]
        /\ sigstack = [t \in Threads |-> None]
        /\ aborted = "no"

Own(t) == \/ x_cgo_thread_start(t) \/ Prepare(t) \/ (\E u \in Threads : Create(t, u))
          \/ CreateAgain(t) \/ CreateFails(t) \/ Created(t) \/ Abort(t)
          \/ threadentry(t) \/ setg(t)
Next == x_cgo_init \/ \E t \in Threads : Own(t) \/ Exit(t) \/ \E n \in Gs : Start(t, n)

Spec == Init /\ [][Next]_vars
\* The operating system runs every thread, and its calls return.
FairSpec == Spec /\ WF_vars(x_cgo_init) /\ \A t \in Threads : WF_vars(Own(t))
--------------------------------------------------------------------------------
(* Properties.                                                              *)

\* A new thread runs the g it was created for, from a record that nobody has
\* freed or reused in the meantime, no two threads run the same g, and the g was
\* told the size of the stack the thread really has.
EachRunsItsG ==
  \A t \in Threads :
    /\ pc[t] = "entry" => heap[ts[t]] = meant[t]
    /\ g[t] # None => g[t] = meant[t] /\ stackhi[g[t]] = size[t]
    /\ \A u \in Threads : g[t] = g[u] /\ g[t] # None => t = u

\* No signal reaches a thread that has no g yet, a thread that has created
\* another gets its own mask back, and handles signals on a stack of its own,
\* also where the system lets new threads inherit their creator's.
SignalsFindG ==
  \A t \in Threads : /\ pc[t] \in Entering => mask[t] = "blocked"
                     /\ pc[t] = "go" => mask[t] = "own" /\ sigstack[t] = t

\* The first thread gets through x_cgo_init, a start comes to an end, and so
\* does the entry of the new thread: Go code runs on them, or the program is
\* aborted.
StartsEnd ==
  \A t \in Threads :
    pc[t] \in Starting \cup Entering \cup {"init"} ~> pc[t] = "go" \/ ~Running
================================================================================
