------------------------------ MODULE ForeignCalls ------------------------------
(***************************************************************************)
(* Concurrent calls from Go to C in one process: CallNFloatErrno and its   *)
(* pooled argument blocks (internal/syscall), the assembly stub that       *)
(* stores the results and errno, and library loading, which makes its own  *)
(* calls (internal/dl/dl_unix.go).  C may call back into Go, and Go call C *)
(* from there; which Go function that is, is in CallbackRegistry.          *)
(*                                                                         *)
(* A goroutine has a stack of frames.  While C is on it, the goroutine     *)
(* stays on one OS thread; otherwise the Go scheduler may give it another  *)
(* thread whenever it enters C.  errno and dlerror belong to threads.      *)
(***************************************************************************)
EXTENDS Integers, Sequences

CONSTANTS
  Goroutines,
  Threads,   \* OS threads of the Go scheduler
  Blocks,    \* syscallArgs blocks, in syscallArgsPool or still to be allocated
  MaxDepth,  \* bound: frames on a stack
  MaxLoads,  \* bound: depth below which libraries are loaded
  None

ASSUME NoneAssumption == None \notin Threads \cup (Goroutines \X Nat)
ASSUME BoundsAssumption == MaxDepth \in Nat /\ MaxLoads \in 0..MaxDepth

VARIABLES
  stack,   \* the frames of each goroutine, the innermost last
  thread,  \* the thread of a goroutine that has C on its stack
  errno,   \* libc's errno on each thread: which call has set it
  dlerr,   \* libc's pending dlerror on each thread: whose text it is
  free,    \* the blocks Get may return
  block    \* the contents of the others

vars == <<stack, thread, errno, dlerr, free, block>>

\* A call is known by its goroutine and its depth; its argument, its result and
\* the errno it sets bear that name.
Id == Goroutines \X (1..MaxDepth)
IdOrNone == Id \cup {None}

Contents == [arg : IdOrNone, r1 : IdOrNone, errno : IdOrNone]
Empty == [arg |-> None, r1 |-> None, errno |-> None]

CallFrame == [kind : {"call"}, pc : {"ready", "inC", "returned", "back", "done"},
              block : Blocks, moved : BOOLEAN,
              seen : IdOrNone,               \* the argument C works on
              left : IdOrNone,               \* history: errno when C returned
              r1 : IdOrNone, cerrno : IdOrNone]  \* CallNFloatErrno's results
LoadFrame == [kind : {"load"}, pc : {"ready", "inC", "returned", "back", "failed", "done"},
              moved : BOOLEAN,
              ok : BOOLEAN,                  \* history: what dlopen found
              result : IdOrNone, text : IdOrNone]
GoFrame == [kind : {"go"}, pc : {"run"}, moved : BOOLEAN]
Frame == CallFrame \cup LoadFrame \cup GoFrame

\* cgocall has entered C in this frame, and not yet left it.
InCgocall(f) == f.kind \in {"call", "load"} /\ f.pc \in {"inC", "returned"}

TypeOK ==
  /\ stack \in [Goroutines -> Seq(Frame)]
  /\ thread \in [Goroutines -> Threads \cup {None}]
  /\ \A g \in Goroutines :
       thread[g] # None <=> \E d \in DOMAIN stack[g] : InCgocall(stack[g][d])
  /\ errno \in [Threads -> IdOrNone]
  /\ dlerr \in [Threads -> IdOrNone]
  /\ free \subseteq Blocks
  /\ block \in [Blocks -> Contents]
--------------------------------------------------------------------------------
Depth(g) == Len(stack[g])
Top(g) == stack[g][Len(stack[g])]
At(g, kind, pc) == Depth(g) > 0 /\ Top(g).kind = kind /\ Top(g).pc = pc
Me(g) == <<g, Depth(g)>>

Push(g, f) == stack' = [stack EXCEPT ![g] = Append(@, f)]
Pop(g, n) == stack' = [stack EXCEPT ![g] = SubSeq(@, 1, Len(@) - n)]
Become(g, f) == stack' = [stack EXCEPT ![g] = [@ EXCEPT ![Len(@)] = f]]
Goto(g, pc) == Become(g, [Top(g) EXCEPT !.pc = pc])

InGo(g) == Depth(g) = 0 \/ At(g, "go", "run")
InC(g) == At(g, "call", "inC") \/ At(g, "load", "inC")

\* The threads g may enter C on: its own while C is on its stack, or an idle one.
Idle == {m \in Threads : \A g \in Goroutines : thread[g] # m}
MayUse(g) == IF thread[g] = None THEN Idle ELSE {thread[g]}
\* Mutant: the goroutine stays locked to its thread.
ThreadBelow_Keep(g, n) == thread[g]
\* The thread of g once its stack is down to depth n.
ThreadBelow(g, n) == IF n = 0 THEN None ELSE thread[g]
--------------------------------------------------------------------------------
(* CallNFloatErrno.                                                         *)

Get(b) == b \in free /\ free' = free \ {b}

\* Get, and the assignment of the whole block.
CallNFloatErrno(g, b) ==
  /\ InGo(g) /\ Depth(g) < MaxDepth
  /\ Get(b)
  /\ block' = [block EXCEPT ![b] = [Empty EXCEPT !.arg = <<g, Depth(g) + 1>>]]
  /\ Push(g, [kind |-> "call", pc |-> "ready", block |-> b, moved |-> FALSE,
              seen |-> None, left |-> None, r1 |-> None, cerrno |-> None])
  /\ UNCHANGED <<thread, errno, dlerr>>

\* runtime.cgocall, and the stub's CALL: C gets what is in the block now.
Enter(g, m) ==
  /\ \/ /\ At(g, "call", "ready")
        /\ Become(g, [Top(g) EXCEPT !.pc = "inC", !.seen = block[Top(g).block].arg])
     \/ At(g, "load", "ready") /\ Goto(g, "inC")
  /\ m \in MayUse(g)
  /\ thread' = [thread EXCEPT ![g] = m]
  /\ UNCHANGED <<errno, dlerr, free, block>>

SetErrno(g) == /\ At(g, "call", "inC")
               /\ errno' = [errno EXCEPT ![thread[g]] = Me(g)]
               /\ UNCHANGED <<stack, thread, dlerr, free, block>>

\* The C function returns a value made of its argument, and the stub stores
\* RAX and the errno e: in vain if the block has moved.
Store(g, e) ==
  /\ block' = IF Top(g).moved THEN block
              ELSE [block EXCEPT ![Top(g).block].r1 = Top(g).seen, ![Top(g).block].errno = e]
  /\ Become(g, [Top(g) EXCEPT !.pc = "returned", !.left = errno[thread[g]]])
  /\ UNCHANGED <<thread, errno, dlerr, free>>
\* Mutant: errno is asked for in a second cgocall.
CReturns_SecondCall(g) ==
  /\ At(g, "call", "inC")
  /\ \E m \in Idle \cup {thread[g]} : Store(g, errno[m])
\* The stub asks __errno_location on the thread it is still on.
CReturns(g) == At(g, "call", "inC") /\ Store(g, errno[thread[g]])

\* Mutant: the block is put back before it is read.
CgocallReturns_Put(g) ==
  /\ At(g, "call", "returned") \/ At(g, "load", "returned")
  /\ Goto(g, "back")
  /\ thread' = [thread EXCEPT ![g] = ThreadBelow(g, Depth(g) - 1)]
  /\ free' = IF Top(g).kind = "call" THEN free \cup {Top(g).block} ELSE free
  /\ UNCHANGED <<errno, dlerr, block>>
CgocallReturns(g) ==
  /\ At(g, "call", "returned") \/ At(g, "load", "returned")
  /\ Goto(g, "back")
  /\ thread' = [thread EXCEPT ![g] = ThreadBelow(g, Depth(g) - 1)]
  /\ UNCHANGED <<errno, dlerr, free, block>>

ReadResults(g) ==
  /\ At(g, "call", "back")
  /\ LET b == block[Top(g).block]
     IN  Become(g, [Top(g) EXCEPT !.pc = "done", !.r1 = b.r1, !.cerrno = b.errno])
  /\ UNCHANGED <<thread, errno, dlerr, free, block>>

\* What a pooled block holds is never read: who gets it overwrites it all.
Put(b) == free' = free \cup {b} /\ block' = [block EXCEPT ![b] = Empty]

\* The deferred Put, and the return.
Return(g) == /\ At(g, "call", "done")
             /\ Put(Top(g).block)
             /\ Pop(g, 1)
             /\ UNCHANGED <<thread, errno, dlerr>>
--------------------------------------------------------------------------------
(* Go on top of C.                                                          *)

CCallsBack(g) == /\ InC(g) /\ Depth(g) < MaxDepth
                 /\ Push(g, [kind |-> "go", pc |-> "run", moved |-> FALSE])
                 /\ UNCHANGED <<thread, errno, dlerr, free, block>>
GoReturns(g) == /\ At(g, "go", "run")
                /\ Pop(g, 1)
                /\ UNCHANGED <<thread, errno, dlerr, free, block>>

\* The Go function panics and the program recovers below the C function: the
\* C frame is abandoned, and the deferred Put of its call runs.
Unwind(g) ==
  /\ At(g, "go", "run")
  /\ Pop(g, 2)
  /\ thread' = [thread EXCEPT ![g] = ThreadBelow(g, Depth(g) - 2)]
  /\ LET c == stack[g][Depth(g) - 1]
     IN  IF c.kind = "call" THEN Put(c.block) ELSE UNCHANGED <<free, block>>
  /\ UNCHANGED <<errno, dlerr>>

\* Mutant: CallNFloatErrno's block is a local variable too.
OnGoStack_All(f) == f.kind \in {"call", "load"}
\* Whose argument block is a local variable, on the goroutine's stack.
OnGoStack(f) == f.kind = "load"

\* The Go function makes the stack of its goroutine grow, and so move.
GrowStack(g) ==
  /\ At(g, "go", "run")
  /\ stack' = [stack EXCEPT ![g] = [d \in DOMAIN @ |->
                 IF OnGoStack(@[d]) THEN [@[d] EXCEPT !.moved = TRUE] ELSE @[d]]]
  /\ UNCHANGED <<thread, errno, dlerr, free, block>>
--------------------------------------------------------------------------------
(* LoadLibrary.                                                             *)

Dlopen(g) ==
  /\ InGo(g) /\ Depth(g) < MaxLoads
  /\ Push(g, [kind |-> "load", pc |-> "ready", moved |-> FALSE, ok |-> FALSE,
              result |-> None, text |-> None])
  /\ UNCHANGED <<thread, errno, dlerr, free, block>>

\* libc's dlopen returns, after the constructors of the library have run (and
\* called back, perhaps): a handle, or NULL and a text for this thread.
DlopenReturns(g) ==
  /\ At(g, "load", "inC")
  /\ \E ok \in BOOLEAN :
       /\ Become(g, [Top(g) EXCEPT !.pc = "returned", !.ok = ok,
                                   !.result = IF ok /\ ~Top(g).moved THEN Me(g) ELSE None])
       /\ dlerr' = IF ok THEN dlerr ELSE [dlerr EXCEPT ![thread[g]] = Me(g)]
  /\ UNCHANGED <<thread, errno, free, block>>

\* Mutant: an old text on the thread counts as a failure.
DlopenChecks_Pending(g) ==
  /\ At(g, "load", "back")
  /\ Goto(g, IF \A m \in Threads : dlerr[m] = None THEN "done" ELSE "failed")
  /\ UNCHANGED <<thread, errno, dlerr, free, block>>
DlopenChecks(g) == /\ At(g, "load", "back")
                   /\ Goto(g, IF Top(g).result = None THEN "failed" ELSE "done")
                   /\ UNCHANGED <<thread, errno, dlerr, free, block>>

\* dlerrorString: a cgocall of its own; dlerror forgets what it has returned.
dlerrorString(g, m) ==
  /\ At(g, "load", "failed")
  /\ m \in MayUse(g)
  /\ Become(g, [Top(g) EXCEPT !.pc = "done", !.text = dlerr[m]])
  /\ dlerr' = [dlerr EXCEPT ![m] = None]
  /\ UNCHANGED <<thread, errno, free, block>>

LoadLibrary(g) == /\ At(g, "load", "done")
                  /\ Pop(g, 1)
                  /\ UNCHANGED <<thread, errno, dlerr, free, block>>
--------------------------------------------------------------------------------
Init == /\ stack = [g \in Goroutines |-> <<>>]
        /\ thread = [g \in Goroutines |-> None]
        /\ errno = [m \in Threads |-> None]
        /\ dlerr = [m \in Threads |-> None]
        /\ free = Blocks
        /\ block = [b \in Blocks |-> Empty]

Next == \E g \in Goroutines :
          \/ \E b \in Blocks : CallNFloatErrno(g, b)
          \/ \E m \in Threads : Enter(g, m) \/ dlerrorString(g, m)
          \/ SetErrno(g) \/ CReturns(g) \/ CgocallReturns(g) \/ ReadResults(g) \/ Return(g)
          \/ CCallsBack(g) \/ GoReturns(g) \/ Unwind(g) \/ GrowStack(g)
          \/ Dlopen(g) \/ DlopenReturns(g) \/ DlopenChecks(g) \/ LoadLibrary(g)

Spec == Init /\ [][Next]_vars
--------------------------------------------------------------------------------
(* Properties.                                                              *)

Holds(g, d, b) == stack[g][d].kind = "call" /\ stack[g][d].block = b
\* A block belongs to one call in progress or to the pool, and never to two
\* calls, nested or concurrent.
BlockIsExclusive ==
  \A g, h \in Goroutines : \A d \in DOMAIN stack[g], e \in DOMAIN stack[h], b \in Blocks :
    Holds(g, d, b) => b \notin free /\ (Holds(h, e, b) => g = h /\ d = e)

\* A call returns what its own C function returned for its own arguments,
\* whatever calls, callbacks, panics and stack moves came in between.
ResultIsOwn == \A g \in Goroutines : At(g, "call", "done") => Top(g).r1 = Me(g)

\* A call reports the errno its own C function left on its thread.
ErrnoIsOwn == \A g \in Goroutines : At(g, "call", "done") => Top(g).cerrno = Top(g).left

\* ffi/errors.go: LibraryError "includes the underlying OS-specific error": a
\* load that failed reports its own text.
LoadErrorIsOwn ==
  \A g \in Goroutines : At(g, "load", "done") /\ ~Top(g).ok => Top(g).text = Me(g)

\* A load that succeeded returns its handle, unless its constructors called
\* back and moved the stack the result block is on.
HandleArrives ==
  \A g \in Goroutines : At(g, "load", "done") /\ Top(g).ok /\ ~Top(g).moved =>
    Top(g).result = Me(g) /\ Top(g).text = None

\* What CallContract sees of a frame: the answer is in the block once the stub has
\* stored it, and in the frame once it was read.
Seen(f) ==
  [kind |-> f.kind,
   at |-> CASE f.kind = "go" -> "go"
            [] f.pc = "ready" -> "asked"
            [] f.pc = "inC" -> "inC"
            [] OTHER -> "answered",
   r1 |-> CASE f.kind = "call" /\ f.pc \in {"returned", "back"} -> block[f.block].r1
            [] f.kind = "call" /\ f.pc = "done" -> f.r1
            [] OTHER -> None,
   cerrno |-> CASE f.kind = "call" /\ f.pc \in {"returned", "back"} -> block[f.block].errno
                [] f.kind = "call" /\ f.pc = "done" -> f.cerrno
                [] OTHER -> None]
Running(g) == \E d \in DOMAIN stack[g] : stack[g][d].pc = "inC"
Calls == [g \in Goroutines |-> [d \in DOMAIN stack[g] |-> Seen(stack[g][d])]]
Errno == [g \in Goroutines |-> IF Running(g) THEN errno[thread[g]] ELSE None]
Contract == INSTANCE CallContract WITH Errnos <- IdOrNone, calls <- Calls, err <- Errno

\* Calls are atomic to the goroutine that makes them: the pooled blocks, the stub, the
\* threads the scheduler picks and the steps of the others in between do not show.
CallsAreAtomic == Contract!Spec
================================================================================
