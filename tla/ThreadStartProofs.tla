--------------------------- MODULE ThreadStartProofs ---------------------------
(***************************************************************************)
(* Proofs about ThreadStart, for every number of threads, gs, records and  *)
(* attempts and every set of platforms: the state keeps its types, every   *)
(* thread runs the g it was made for on a stack of the size that g was     *)
(* told, and no signal reaches a thread without a g.                       *)
(***************************************************************************)
EXTENDS ThreadStart, TLAPS

\* A start that has not created its thread yet.
Pending == {"malloc", "block", "create", "failed"}
\* A thread that has a ThreadStart record of its own.
HasRecord == {"block", "create", "failed", "entry"}

\* What holds of a thread at each place.
ThreadOK(t) ==
  /\ pc[t] = "none" => g[t] = None /\ meant[t] = None
  /\ pc[t] = "init" => t = First /\ mask[t] = "own"
  /\ pc[t] = "go" => mask[t] = "own"
  /\ pc[t] = "malloc" => mask[t] = "own"
  /\ pc[t] \in {"init", "go"} \cup Starting =>
       g[t] # None /\ g[t] = meant[t] /\ stackhi[g[t]] = size[t]
  /\ pc[t] \in {"go"} \cup Starting => sigstack[t] = t
  /\ pc[t] \in Starting => arg[t] # None
  /\ pc[t] \in HasRecord => ts[t] # None
  /\ pc[t] \in {"block", "create", "failed"} => heap[ts[t]] = arg[t]
  /\ pc[t] = "create" => mask[t] = "blocked"
  /\ pc[t] = "create" => stackhi[arg[t]] = attr[t] /\ tries[t] < MaxTries
  /\ pc[t] \in Entering =>
       /\ mask[t] = "blocked" /\ g[t] = None
       /\ meant[t] # None /\ stackhi[meant[t]] = size[t]
  /\ pc[t] = "entry" => heap[ts[t]] = meant[t] /\ (platform = "netbsd" \/ sigstack[t] = None)
  /\ pc[t] = "copied" => arg[t] = meant[t] /\ sigstack[t] = None

\* Two threads have different gs, starts and records.
Apart(t, u) ==
  /\ meant[t] = meant[u] => meant[t] = None
  /\ pc[t] \in Starting /\ pc[u] \in Starting => arg[t] # arg[u]
  /\ pc[t] \in HasRecord /\ pc[u] \in HasRecord => ts[t] # ts[u]

IInv == /\ TypeOK
        /\ \A t \in Threads : ThreadOK(t)
        /\ \A t, u \in Threads : t # u => Apart(t, u)
        /\ \A t, u \in Threads : pc[t] \in Pending => meant[u] # arg[t]

\* What a thread knows of itself stays.
Untouched(v) ==
  /\ pc'[v] = pc[v] /\ g'[v] = g[v] /\ mask'[v] = mask[v] /\ arg'[v] = arg[v] /\ ts'[v] = ts[v]
  /\ tries'[v] = tries[v] /\ size'[v] = size[v] /\ attr'[v] = attr[v]
  /\ sigstack'[v] = sigstack[v] /\ meant'[v] = meant[v] /\ platform' = platform
\* So does what others could change under it: its g's stack size, its record.
Kept(v) ==
  /\ meant[v] # None => stackhi'[meant[v]] = stackhi[meant[v]]
  /\ pc[v] = "create" => stackhi'[arg[v]] = stackhi[arg[v]]
  /\ pc[v] \in HasRecord => heap'[ts[v]] = heap[ts[v]]
--------------------------------------------------------------------------------
\* A thread that a step neither touches nor deprives is as before.
LEMMA StaysOK ==
  ASSUME IInv, NEW v \in Threads, Untouched(v), Kept(v)
  PROVE  ThreadOK(v)'
  BY DEF IInv, ThreadOK, Untouched, Kept, Starting, Entering, HasRecord

\* The gs, starts and records are those there were.
LEMMA StillApart ==
  ASSUME IInv, UNCHANGED <<arg, ts, meant>>,
         \A v \in Threads : /\ pc'[v] \in Starting => pc[v] \in Starting
                            /\ pc'[v] \in HasRecord => pc[v] \in HasRecord
                            /\ pc'[v] \in Pending => pc[v] \in Pending
  PROVE  /\ \A v, w \in Threads : v # w => Apart(v, w)'
         /\ \A v, w \in Threads : pc'[v] \in Pending => meant'[w] # arg'[v]
  BY DEF IInv, Apart

--------------------------------------------------------------------------------
(* The actions.                                                             *)

\* A start for a g nobody has.
LEMMA StartStep ==
  ASSUME IInv, NEW t \in Threads, NEW n \in Gs, Start(t, n)
  PROVE  IInv'
  <1>1. TypeOK'  BY DEF Start, sizes, IInv, TypeOK, Starting, Entering
  <1>2. ASSUME NEW v \in Threads PROVE ThreadOK(v)'
    <2>1. CASE v = t
      BY <2>1, NoneAssumption DEF Start, sizes, IInv, TypeOK, ThreadOK, Starting, Entering, HasRecord
    <2>2. CASE v # t
      <3>1. Untouched(v) /\ Kept(v)  BY <2>2 DEF Start, sizes, IInv, TypeOK, Untouched, Kept
      <3> QED  BY <3>1, StaysOK
    <2> QED  BY <2>1, <2>2
  <1>3. ASSUME NEW v \in Threads, NEW w \in Threads, v # w PROVE Apart(v, w)'
    BY <1>3 DEF Start, Unused, IInv, TypeOK, Apart, Starting, HasRecord
  <1>4. ASSUME NEW v \in Threads, NEW w \in Threads, pc'[v] \in Pending PROVE meant'[w] # arg'[v]
    BY <1>4 DEF Start, Unused, IInv, TypeOK, Pending
  <1> QED  BY <1>1, <1>2, <1>3, <1>4 DEF IInv

\* x_cgo_thread_start: a record nobody has, or no memory.
LEMMA CopyStep ==
  ASSUME IInv, NEW t \in Threads, x_cgo_thread_start(t)
  PROVE  IInv'
  <1>1. TypeOK'
    BY DEF x_cgo_thread_start, sizes, IInv, TypeOK, Starting, Entering
  <1>2. CASE aborted' = "memory" /\ UNCHANGED <<heap, ts, pc>>
    <2>1. \A v \in Threads : Untouched(v) /\ Kept(v)
      BY <1>2 DEF x_cgo_thread_start, sizes, Untouched, Kept
    <2>2. \A v \in Threads : ThreadOK(v)'  BY <2>1, StaysOK
    <2> QED  BY <1>1, <1>2, <2>2, StillApart DEF x_cgo_thread_start, sizes, IInv
  <1>3. ASSUME NEW r \in Records,
               heap[r] = None, heap' = [heap EXCEPT ![r] = arg[t]],
               ts' = [ts EXCEPT ![t] = r], pc' = [pc EXCEPT ![t] = "block"]
        PROVE  IInv'
    <2>1. \A v \in Threads : pc[v] \in HasRecord => heap[ts[v]] # None
      BY DEF IInv, ThreadOK, HasRecord, Starting, Entering
    <2>2. ASSUME NEW v \in Threads PROVE ThreadOK(v)'
      <3>1. CASE v = t
        BY <3>1, <1>3, NoneAssumption
        DEF x_cgo_thread_start, sizes, IInv, TypeOK, ThreadOK, Starting, Entering, HasRecord
      <3>2. CASE v # t
        <4>1. Untouched(v) /\ Kept(v)
          BY <1>3, <2>1, <3>2 DEF x_cgo_thread_start, sizes, IInv, TypeOK, Untouched, Kept, HasRecord
        <4> QED  BY <4>1, StaysOK
      <3> QED  BY <3>1, <3>2
    <2>3. ASSUME NEW v \in Threads, NEW w \in Threads, v # w PROVE Apart(v, w)'
      BY <1>3, <2>1, <2>3 DEF x_cgo_thread_start, IInv, TypeOK, Apart, Starting, HasRecord
    <2>4. ASSUME NEW v \in Threads, NEW w \in Threads, pc'[v] \in Pending
          PROVE  meant'[w] # arg'[v]
      BY <1>3, <2>4 DEF x_cgo_thread_start, IInv, TypeOK, Pending
    <2> QED  BY <1>1, <2>2, <2>3, <2>4 DEF IInv
  <1> QED  BY <1>2, <1>3 DEF x_cgo_thread_start

\* _cgo_sys_thread_start up to pthread_create: the g of the start, which no
\* thread runs and no other start is for, is told a size.
LEMMA PrepareStep ==
  ASSUME IInv, NEW t \in Threads, Prepare(t)
  PROVE  IInv'
  <1>1. heap[ts[t]] = arg[t] /\ arg[t] \in Gs /\ size[t] \in Sizes
    BY DEF Prepare, IInv, TypeOK, ThreadOK, Starting
  <1>2. CASE \E n \in Sizes : Attr(t, n)
    <2>1. PICK n \in Sizes : Attr(t, n)  BY <1>2
    <2>2. TypeOK'
      BY <1>1, <2>1, TriesAssumption
      DEF Prepare, BlockSignals, Attr, IInv, TypeOK, Starting, Entering, Sizes
    <2>3. ASSUME NEW v \in Threads PROVE ThreadOK(v)'
      <3>1. CASE v = t
        <4>1. meant[t] # arg[t]  BY DEF Prepare, IInv, Pending
        <4> QED
          BY <3>1, <1>1, <2>1, <4>1, TriesAssumption
          DEF Prepare, BlockSignals, Attr, IInv, TypeOK, ThreadOK, Starting, Entering, HasRecord
      <3>2. CASE v # t
        <4>1. meant[v] # arg[t] /\ (pc[v] = "create" => arg[v] # arg[t])
          BY <3>2 DEF Prepare, IInv, Apart, Pending, Starting
        <4>2. Untouched(v) /\ Kept(v)
          BY <1>1, <2>1, <3>2, <4>1 DEF Prepare, BlockSignals, Attr, IInv, TypeOK, Untouched, Kept
        <4> QED  BY <4>2, StaysOK
      <3> QED  BY <3>1, <3>2
    <2>4. UNCHANGED <<arg, ts, meant>> /\ pc' = [pc EXCEPT ![t] = "create"] /\ pc[t] = "block"
      BY <2>1 DEF Prepare, Attr
    <2> QED  BY <2>2, <2>3, <2>4, StillApart DEF IInv, TypeOK, Starting, HasRecord, Pending
  <1>3. CASE aborted' = "attr" /\ UNCHANGED <<stackhi, attr, pc>> /\ platform = "android"
    <2>1. mask' = [mask EXCEPT ![t] = "blocked"] /\ tries' = [tries EXCEPT ![t] = 0]
          /\ pc[t] = "block" /\ UNCHANGED <<platform, g, arg, ts, heap, size, sigstack, meant>>
      BY DEF Prepare, BlockSignals
    <2>2. TypeOK'  BY <1>3, <2>1, TriesAssumption DEF IInv, TypeOK
    <2>3. ASSUME NEW v \in Threads PROVE ThreadOK(v)'
      BY <1>3, <2>1 DEF IInv, TypeOK, ThreadOK, Starting, Entering, HasRecord
    <2> QED  BY <1>3, <2>1, <2>2, <2>3, StillApart DEF IInv
  <1> QED
    BY <1>1, <1>2, <1>3
    DEF Prepare, LinuxAttr, BsdAttr, AndroidAttr, DarwinAttr, Sizes
\* pthread_create: the record passes from t to u, which was no thread.
LEMMA CreateStep ==
  ASSUME IInv, NEW t \in Threads, NEW u \in Threads, Create(t, u)
  PROVE  IInv'
  <1>1. t # u /\ pc[t] = "create" /\ pc[u] = "none"  BY DEF Create
  <1>2. TypeOK'  BY DEF Create, IInv, TypeOK, Starting, Entering
  <1>3. ASSUME NEW v \in Threads PROVE ThreadOK(v)'
    <2>1. CASE v = t
      BY <1>1, <2>1 DEF Create, IInv, TypeOK, ThreadOK, Starting, Entering, HasRecord
    <2>2. CASE v = u
      BY <1>1, <2>2 DEF Create, IInv, TypeOK, ThreadOK, Starting, Entering, HasRecord
    <2>3. CASE v # t /\ v # u
      <3>1. Untouched(v) /\ Kept(v)
        BY <2>3 DEF Create, IInv, TypeOK, Untouched, Kept
      <3> QED  BY <3>1, StaysOK
    <2> QED  BY <2>1, <2>2, <2>3
  <1>4. /\ pc' = [pc EXCEPT ![t] = "created", ![u] = "entry"]
        /\ ts' = [ts EXCEPT ![u] = ts[t]]
        /\ meant' = [meant EXCEPT ![u] = arg[t]]
        /\ arg' = arg
    BY DEF Create
  <1>5. \A w \in Threads : meant[w] # arg[t]
    BY <1>1 DEF IInv, Pending
  <1>6. ASSUME NEW v \in Threads, NEW w \in Threads, v # w PROVE Apart(v, w)'
    <2>1. meant'[v] = meant'[w] => meant'[v] = None
      BY <1>4, <1>5, <1>6 DEF IInv, TypeOK, Apart
    <2>2. pc'[v] \in Starting /\ pc'[w] \in Starting => arg'[v] # arg'[w]
      BY <1>1, <1>4, <1>6 DEF IInv, TypeOK, Apart, Starting
    <2>3. pc'[v] \in HasRecord /\ pc'[w] \in HasRecord => ts'[v] # ts'[w]
      BY <1>1, <1>4, <1>6 DEF IInv, TypeOK, Apart, HasRecord
    <2> QED  BY <2>1, <2>2, <2>3 DEF Apart
  <1>7. ASSUME NEW v \in Threads, NEW w \in Threads, pc'[v] \in Pending
        PROVE  meant'[w] # arg'[v]
    <2>1. pc[v] \in Pending /\ v # t /\ v # u
      BY <1>1, <1>4, <1>7 DEF IInv, TypeOK, Pending
    <2>2. arg[v] # arg[t]
      BY <1>1, <2>1 DEF IInv, Apart, Pending, Starting
    <2> QED  BY <1>4, <2>1, <2>2 DEF IInv, TypeOK
  <1> QED  BY <1>2, <1>3, <1>6, <1>7 DEF IInv

\* pthread_create fails: once more, or no more.
LEMMA CreateAgainStep ==
  ASSUME IInv, NEW t \in Threads, CreateAgain(t)
  PROVE  IInv'
  <1>1. tries[t] \in 0..(MaxTries - 1) /\ MaxTries \in Nat
    BY TriesAssumption DEF CreateAgain, IInv, TypeOK, ThreadOK
  <1>2. tries' = [tries EXCEPT ![t] = tries[t] + 1]
    <2>1. ~(tries[t] > MaxTries)  BY <1>1
    <2> QED  BY <2>1 DEF CreateAgain
  <1>3. TypeOK'  BY <1>1, <1>2 DEF CreateAgain, sizes, IInv, TypeOK, Starting, Entering
  <1>4. ASSUME NEW v \in Threads PROVE ThreadOK(v)'
    <2>1. CASE v = t
      BY <1>1, <1>2, <2>1
      DEF CreateAgain, GiveUp, sizes, IInv, TypeOK, ThreadOK, Starting, Entering, HasRecord
    <2>2. CASE v # t
      <3>1. Untouched(v) /\ Kept(v)
        BY <1>2, <2>2 DEF CreateAgain, sizes, IInv, TypeOK, Untouched, Kept
      <3> QED  BY <3>1, StaysOK
    <2> QED  BY <2>1, <2>2
  <1> QED
    BY <1>3, <1>4, StillApart
    DEF CreateAgain, IInv, TypeOK, Starting, HasRecord, Pending

\* It succeeded: the creator has its mask back, and no record any more.
LEMMA CreatedStep ==
  ASSUME IInv, NEW t \in Threads, Created(t)
  PROVE  IInv'
  <1>1. TypeOK'  BY DEF Created, sizes, IInv, TypeOK, Starting, Entering
  <1>2. ASSUME NEW v \in Threads PROVE ThreadOK(v)'
    <2>1. CASE v = t
      BY <2>1 DEF Created, sizes, IInv, TypeOK, ThreadOK, Starting, Entering, HasRecord
    <2>2. CASE v # t
      <3>1. Untouched(v) /\ Kept(v)
        BY <2>2 DEF Created, sizes, IInv, TypeOK, Untouched, Kept
      <3> QED  BY <3>1, StaysOK
    <2> QED  BY <2>1, <2>2
  <1>3. ASSUME NEW v \in Threads, NEW w \in Threads, v # w PROVE Apart(v, w)'
    BY <1>3 DEF Created, IInv, TypeOK, Apart, Starting, HasRecord
  <1>4. ASSUME NEW v \in Threads, NEW w \in Threads, pc'[v] \in Pending
        PROVE  meant'[w] # arg'[v]
    BY <1>4 DEF Created, IInv, TypeOK, Pending
  <1> QED  BY <1>1, <1>2, <1>3, <1>4 DEF IInv

\* threadentry frees the record only the new thread has, after copying it.
LEMMA EntryStep ==
  ASSUME IInv, NEW u \in Threads, threadentry(u)
  PROVE  IInv'
  <1>1. TypeOK'
    BY DEF threadentry, SigstackAtEntry, IInv, TypeOK, ThreadOK, HasRecord, Starting, Entering
  <1>2. ASSUME NEW v \in Threads PROVE ThreadOK(v)'
    <2>1. CASE v = u
      BY <2>1
      DEF threadentry, SigstackAtEntry, IInv, TypeOK, ThreadOK, Starting, Entering, HasRecord
    <2>2. CASE v # u
      <3>1. pc[v] \in HasRecord => ts[v] # ts[u]
        BY <2>2 DEF threadentry, IInv, Apart, HasRecord
      <3>2. Untouched(v) /\ Kept(v)
        BY <2>2, <3>1 DEF threadentry, IInv, TypeOK, Untouched, Kept
      <3> QED  BY <3>2, StaysOK
    <2> QED  BY <2>1, <2>2
  <1>3. ASSUME NEW v \in Threads, NEW w \in Threads, v # w PROVE Apart(v, w)'
    BY <1>3 DEF threadentry, IInv, TypeOK, Apart, Starting, HasRecord
  <1>4. ASSUME NEW v \in Threads, NEW w \in Threads, pc'[v] \in Pending
        PROVE  meant'[w] # arg'[v]
    BY <1>4 DEF threadentry, IInv, TypeOK, Pending
  <1> QED  BY <1>1, <1>2, <1>3, <1>4 DEF IInv

\* The new thread has its g, its mask and a signal stack of its own.
LEMMA SetgStep ==
  ASSUME IInv, NEW u \in Threads, setg(u)
  PROVE  IInv'
  <1>1. TypeOK'  BY DEF setg, IInv, TypeOK, Starting, Entering
  <1>2. ASSUME NEW v \in Threads PROVE ThreadOK(v)'
    <2>1. CASE v = u
      BY <2>1 DEF setg, IInv, TypeOK, ThreadOK, Starting, Entering, HasRecord
    <2>2. CASE v # u
      <3>1. Untouched(v) /\ Kept(v)  BY <2>2 DEF setg, IInv, TypeOK, Untouched, Kept
      <3> QED  BY <3>1, StaysOK
    <2> QED  BY <2>1, <2>2
  <1>3. ASSUME NEW v \in Threads, NEW w \in Threads, v # w PROVE Apart(v, w)'
    BY <1>3 DEF setg, IInv, TypeOK, Apart, Starting, HasRecord
  <1>4. ASSUME NEW v \in Threads, NEW w \in Threads, pc'[v] \in Pending
        PROVE  meant'[w] # arg'[v]
    BY <1>4 DEF setg, IInv, TypeOK, Pending
  <1> QED  BY <1>1, <1>2, <1>3, <1>4 DEF IInv

\* A thread ends; its g is nobody's then.
LEMMA ExitStep ==
  ASSUME IInv, NEW u \in Threads, Exit(u)
  PROVE  IInv'
  <1>1. TypeOK'  BY DEF Exit, IInv, TypeOK, Sizes, Starting, Entering
  <1>2. ASSUME NEW v \in Threads PROVE ThreadOK(v)'
    <2>1. CASE v = u
      BY <2>1 DEF Exit, IInv, TypeOK, ThreadOK, Starting, Entering, HasRecord
    <2>2. CASE v # u
      <3>1. g[u] = meant[u] /\ g[u] # None
        BY DEF Exit, IInv, ThreadOK
      <3>2. meant[v] # None => meant[v] # g[u]
        BY <2>2, <3>1 DEF IInv, Apart
      <3>3. pc[v] = "create" => arg[v] # g[u]
        BY <3>1 DEF IInv, Pending
      <3>4. Untouched(v) /\ Kept(v)
        BY <2>2, <3>2, <3>3 DEF Exit, IInv, TypeOK, Untouched, Kept
      <3> QED  BY <3>4, StaysOK
    <2> QED  BY <2>1, <2>2
  <1>3. ASSUME NEW v \in Threads, NEW w \in Threads, v # w PROVE Apart(v, w)'
    BY <1>3 DEF Exit, IInv, TypeOK, Apart, Starting, HasRecord
  <1>4. ASSUME NEW v \in Threads, NEW w \in Threads, pc'[v] \in Pending
        PROVE  meant'[w] # arg'[v]
    <2>1. pc[v] \in Pending /\ meant[w] # arg[v] /\ arg'[v] = arg[v]
      BY <1>4 DEF Exit, IInv, TypeOK, Pending
    <2>2. arg[v] # None  BY <2>1 DEF IInv, ThreadOK, Pending, Starting
    <2> QED  BY <2>1, <2>2 DEF Exit, IInv, TypeOK
  <1> QED  BY <1>1, <1>2, <1>3, <1>4 DEF IInv

\* The program is aborted, for whatever reason.
LEMMA AbortStep ==
  ASSUME IInv, UNCHANGED <<platform, pc, g, mask, arg, ts, tries, heap, sizes, meant>>,
         aborted' \in {"no", "memory", "attr", "api", "tls", "retries", "error"}
  PROVE  IInv'
  <1>1. TypeOK'  BY DEF sizes, IInv, TypeOK
  <1>2. \A v \in Threads : Untouched(v) /\ Kept(v)  BY DEF sizes, Untouched, Kept
  <1>3. \A v \in Threads : ThreadOK(v)'  BY <1>2, StaysOK
  <1> QED  BY <1>1, <1>3, StillApart DEF IInv

\* x_cgo_init: the first thread goes on, or the program is aborted.
LEMMA InitStep ==
  ASSUME IInv, x_cgo_init
  PROVE  IInv'
  <1>1. CASE Initialised
    <2>1. TypeOK'
      BY <1>1, FirstAssumption DEF x_cgo_init, Initialised, IInv, TypeOK
    <2>2. ASSUME NEW v \in Threads PROVE ThreadOK(v)'
      <3>1. CASE v = First
        BY <1>1, <3>1
        DEF x_cgo_init, Initialised, IInv, TypeOK, ThreadOK, Starting, Entering, HasRecord
      <3>2. CASE v # First
        <4>1. Untouched(v) /\ Kept(v)
          BY <1>1, <3>2 DEF x_cgo_init, Initialised, IInv, TypeOK, Untouched, Kept
        <4> QED  BY <4>1, StaysOK
      <3> QED  BY <3>1, <3>2
    <2> QED
      BY <1>1, <2>1, <2>2, StillApart
      DEF x_cgo_init, Initialised, IInv, TypeOK, Starting, HasRecord, Pending
  <1>2. CASE \E why \in {"memory", "attr", "api", "tls"} : Refuse(why)
    BY <1>2, AbortStep DEF x_cgo_init, Refuse, sizes
  <1> QED
    BY <1>1, <1>2
    DEF x_cgo_init, LinuxInit, NetBsdInit, FreeBsdInit, DarwinInit, x_cgo_inittls, OldApi,
        AndroidInit
--------------------------------------------------------------------------------
\* One thread exists, and it runs the first g.
LEMMA InitEstablishes == Init => IInv
  <1> SUFFICES ASSUME Init PROVE IInv
    OBVIOUS
  <1>1. G0 \in Gs /\ G0 # None  BY GsAssumption, NoneAssumption DEF G0
  <1>2. TypeOK
    BY <1>1, FirstAssumption, TriesAssumption DEF Init, TypeOK, Starting, Entering, Sizes
  <1>3. \A t \in Threads : ThreadOK(t)
    BY <1>1, FirstAssumption DEF Init, ThreadOK, Starting, Entering, HasRecord
  <1>4. \A t, u \in Threads : t # u => Apart(t, u)
    BY DEF Init, Apart, Starting, HasRecord
  <1>5. \A t \in Threads : pc[t] \notin Pending
    BY DEF Init, Pending
  <1> QED  BY <1>2, <1>3, <1>4, <1>5 DEF IInv

\* The invariant of the proofs, for ThreadStart as a whole.
THEOREM Invariance == Spec => []IInv
  <1>1. IInv /\ [Next]_vars => IInv'
    <2> SUFFICES ASSUME IInv, [Next]_vars PROVE IInv'
      OBVIOUS
    <2>1. CASE UNCHANGED vars
      BY <2>1, AbortStep DEF vars, IInv, TypeOK
    <2>2. CASE x_cgo_init
      BY <2>2, InitStep
    <2>3. ASSUME NEW t \in Threads, NEW n \in Gs, Start(t, n)
          PROVE  IInv'
      BY <2>3, StartStep
    <2>4. ASSUME NEW t \in Threads, Exit(t)
          PROVE  IInv'
      BY <2>4, ExitStep
    <2>5. ASSUME NEW t \in Threads, Own(t)
          PROVE  IInv'
      <3>1. CASE x_cgo_thread_start(t)  BY <3>1, CopyStep
      <3>2. CASE Prepare(t)  BY <3>2, PrepareStep
      <3>3. ASSUME NEW u \in Threads, Create(t, u) PROVE IInv'
        BY <3>3, CreateStep
      <3>4. CASE CreateAgain(t)  BY <3>4, CreateAgainStep
      <3>5. CASE CreateFails(t) \/ Abort(t)
        BY <3>5, AbortStep DEF CreateFails, Abort
      <3>6. CASE Created(t)  BY <3>6, CreatedStep
      <3>7. CASE threadentry(t)  BY <3>7, EntryStep
      <3>8. CASE setg(t)  BY <3>8, SetgStep
      <3> QED  BY <2>5, <3>1, <3>2, <3>3, <3>4, <3>5, <3>6, <3>7, <3>8 DEF Own
    <2> QED  BY <2>1, <2>2, <2>3, <2>4, <2>5 DEF Next
  <1> QED  BY <1>1, InitEstablishes, PTL DEF Spec

\* The state of ThreadStart keeps its types; above all, no start makes more
\* than MaxTries attempts (_cgo_try_pthread_create).
THEOREM TypeCorrect == Spec => []TypeOK
  <1>1. IInv => TypeOK  BY DEF IInv
  <1> QED  BY <1>1, Invariance, PTL

\* threadentry runs the g x_cgo_thread_start was called for, on a stack of the
\* size _cgo_sys_thread_start told that g, and nobody else runs it.
THEOREM OwnG == Spec => []EachRunsItsG
  <1>1. IInv => EachRunsItsG
    <2> SUFFICES ASSUME IInv, NEW t \in Threads
                 PROVE  /\ pc[t] = "entry" => heap[ts[t]] = meant[t]
                        /\ g[t] # None => g[t] = meant[t] /\ stackhi[g[t]] = size[t]
                        /\ \A u \in Threads : g[t] = g[u] /\ g[t] # None => t = u
      BY DEF EachRunsItsG
    <2>1. \A u \in Threads : g[u] # None => g[u] = meant[u] /\ stackhi[g[u]] = size[u]
      BY DEF IInv, TypeOK, ThreadOK, Starting, Entering
    <2>2. pc[t] = "entry" => heap[ts[t]] = meant[t]  BY DEF IInv, ThreadOK
    <2> QED  BY <2>1, <2>2 DEF IInv, Apart
  <1> QED  BY <1>1, Invariance, PTL

\* Signals are blocked from before pthread_create until the new thread has its
\* g, and every thread that runs Go code has its own mask and signal stack.
THEOREM NoStraySignal == Spec => []SignalsFindG
  <1>1. IInv => SignalsFindG  BY DEF IInv, ThreadOK, SignalsFindG
  <1> QED  BY <1>1, Invariance, PTL
================================================================================
