---------------------------- MODULE CallbackRegistry ----------------------------
(***************************************************************************)
(* The registry of Go callbacks (ffi/callback.go) and the way from a C     *)
(* function pointer to the Go function registered for it, through the      *)
(* trampoline table and the dispatcher (ffi/callback_amd64.s).             *)
(*                                                                         *)
(* Goroutines register callbacks and call C, which calls back; threads of  *)
(* C call back too.  A Go function run as a callback may do all of that    *)
(* itself, so every actor has a stack of frames.  How arguments travel is  *)
(* in SysVCallback, how calls to C are made in ForeignCalls.               *)
(***************************************************************************)
EXTENDS Integers, Sequences

CONSTANTS
  Goroutines,    \* goroutines that register callbacks and call C
  CThreads,      \* threads created by C
  Functions,     \* Go functions to register
  MaxCallbacks,  \* maxCallbacks
  MaxDepth,      \* bound: frames on a stack
  None

ASSUME ActorsAssumption == Goroutines \cap CThreads = {} /\ None \notin Goroutines \cup CThreads
ASSUME FunctionsAssumption == None \notin Functions
ASSUME MaxAssumption == MaxCallbacks \in Nat /\ MaxDepth \in Nat

Actors == Goroutines \cup CThreads

VARIABLES
  stack,  \* the frames of each actor, the innermost last
  mu,     \* callbacks.mu: its owner
  funcs,  \* callbacks.funcs
  count,  \* callbacks.count
  given   \* history: the pointers NewCallback has returned, and for which function

vars == <<stack, mu, funcs, count, given>>

Indices == 0..(MaxCallbacks - 1)

\* A frame: a NewCallback or a callbackWrap in progress, or the Go function of
\* a callback.  ptr is what C has called.
Frame == [pc : {"regLock", "check", "store", "regReturn", "panic", "wrapLock", "fetch", "run"},
          fn : Functions \cup {None}, index : Int, ptr : Int]

TypeOK ==
  /\ stack \in [Actors -> Seq(Frame)]
  /\ mu \in Actors \cup {None}
  /\ funcs \in [Indices -> Functions \cup {None}]
  /\ count \in 0..MaxCallbacks
  /\ given \subseteq Int \X Functions
--------------------------------------------------------------------------------
Depth(a) == Len(stack[a])
Top(a) == stack[a][Len(stack[a])]
At(a, pc) == Depth(a) > 0 /\ Top(a).pc = pc

Push(a, f) == stack' = [stack EXCEPT ![a] = Append(@, f)]
Pop(a) == stack' = [stack EXCEPT ![a] = SubSeq(@, 1, Len(@) - 1)]
Become(a, f) == stack' = [stack EXCEPT ![a] = [@ EXCEPT ![Len(@)] = f]]
Goto(a, pc) == Become(a, [Top(a) EXCEPT !.pc = pc])

\* The actor runs Go code of the program, or code of C.
InGo(a) == At(a, "run") \/ (Depth(a) = 0 /\ a \in Goroutines)
InC(a) == Depth(a) = 0 /\ a \in CThreads
--------------------------------------------------------------------------------
(* The trampolines: a table of CALL instructions, from address 0.           *)

EntrySize == 5
trampolineEntryAddr(i) == i * EntrySize
\* The dispatcher's index, from the return address the CALL has pushed.
IndexOf(returnAddress) == returnAddress \div EntrySize - 1
--------------------------------------------------------------------------------
(* NewCallback.                                                             *)

NewCallback(a) ==
  /\ InGo(a) /\ Depth(a) < MaxDepth
  /\ \E f \in Functions : Push(a, [pc |-> "regLock", fn |-> f, index |-> 0, ptr |-> 0])
  /\ UNCHANGED <<mu, funcs, count, given>>

\* Mutant: registration does not wait for the mutex.
RegLock_Unlocked(a) == /\ At(a, "regLock")
                       /\ mu' = a
                       /\ Goto(a, "check")
                       /\ UNCHANGED <<funcs, count, given>>
RegLock(a) == /\ At(a, "regLock")
              /\ mu = None /\ mu' = a
              /\ Goto(a, "check")
              /\ UNCHANGED <<funcs, count, given>>

\* Mutant: one callback too many.
Full_Above == count > MaxCallbacks
Full == count >= MaxCallbacks
RegCheck(a) ==
  /\ At(a, "check")
  /\ IF Full THEN Goto(a, "panic")
             ELSE Become(a, [Top(a) EXCEPT !.pc = "store", !.index = count])
  /\ UNCHANGED <<mu, funcs, count, given>>

RegStore(a) == /\ At(a, "store")
               /\ funcs' = [funcs EXCEPT ![Top(a).index] = Top(a).fn]
               /\ count' = count + 1
               /\ Goto(a, "regReturn")
               /\ UNCHANGED <<mu, given>>

\* The return value, and the deferred Unlock.
RegReturn(a) == /\ At(a, "regReturn")
                /\ mu' = None
                /\ given' = given \cup {<<trampolineEntryAddr(Top(a).index), Top(a).fn>>}
                /\ Pop(a)
                /\ UNCHANGED <<funcs, count>>

\* Mutant: Unlock is not deferred.
RegPanic_Locked(a) == /\ At(a, "panic")
                      /\ Pop(a)
                      /\ UNCHANGED <<mu, funcs, count, given>>
\* The panic runs the deferred Unlock; the program recovers.
RegPanic(a) == /\ At(a, "panic")
               /\ mu' = None
               /\ Pop(a)
               /\ UNCHANGED <<funcs, count, given>>
--------------------------------------------------------------------------------
(* callbackWrap.                                                            *)

\* C, on its own thread or called from Go, calls a pointer it was given; the
\* dispatcher works out the index.
CCallsBack(a) ==
  /\ InC(a) \/ InGo(a)
  /\ Depth(a) < MaxDepth
  /\ \E p \in given : Push(a, [pc |-> "wrapLock", fn |-> None,
                               index |-> IndexOf(p[1] + EntrySize), ptr |-> p[1]])
  /\ UNCHANGED <<mu, funcs, count, given>>

WrapLock(a) == /\ At(a, "wrapLock")
               /\ mu = None /\ mu' = a
               /\ Goto(a, "fetch")
               /\ UNCHANGED <<funcs, count, given>>

\* The function, Unlock, and the call of the function.
WrapFetch(a) ==
  /\ At(a, "fetch")
  /\ Become(a, [Top(a) EXCEPT !.pc = "run", !.fn = funcs[Top(a).index]])
  /\ mu' = None
  /\ UNCHANGED <<funcs, count, given>>

\* The Go function returns to C, or panics and is recovered from below C.
RunEnds(a) == /\ At(a, "run")
              /\ Pop(a)
              /\ UNCHANGED <<mu, funcs, count, given>>
--------------------------------------------------------------------------------
Init == /\ stack = [a \in Actors |-> <<>>]
        /\ mu = None
        /\ funcs = [i \in Indices |-> None]
        /\ count = 0
        /\ given = {}

Register(a) == RegLock(a) \/ RegCheck(a) \/ RegStore(a) \/ RegReturn(a) \/ RegPanic(a)
Wrap(a) == WrapLock(a) \/ WrapFetch(a)
Next == \E a \in Actors :
          NewCallback(a) \/ Register(a) \/ CCallsBack(a) \/ Wrap(a) \/ RunEnds(a)

Spec == Init /\ [][Next]_vars
\* The Go scheduler runs what can run, and sync.Mutex starves nobody: after a
\* millisecond it is handed to the waiter, hence strong fairness.
FairSpec == Spec /\ \A a \in Actors : SF_vars(Register(a) \/ Wrap(a))
--------------------------------------------------------------------------------
(* Properties.                                                              *)

\* Whoever calls the pointer a NewCallback returned, at whatever moment,
\* reaches the function that NewCallback was called with.
CallbackIsTheOneGiven ==
  \A a \in Actors : \A d \in DOMAIN stack[a] : stack[a][d].pc = "run" =>
    \A f \in Functions : <<stack[a][d].ptr, f>> \in given => stack[a][d].fn = f

\* Between lookup and registration the mutex lets one in: who is between Lock
\* and Unlock owns it.
OneInside ==
  \A a \in Actors : \A d \in DOMAIN stack[a] :
    stack[a][d].pc \in {"check", "store", "regReturn", "panic", "fetch"} => mu = a

\* No two registrations share a trampoline.
PointersAreDistinct == \A p, q \in given : p[1] = q[1] => p = q

\* Every callback reaches its Go function and every NewCallback returns, also
\* from within callbacks and when the registry is full.
EverybodyIsServed ==
  \A a \in Actors : /\ At(a, "wrapLock") ~> At(a, "run")
                    /\ At(a, "regLock") ~> InGo(a)
================================================================================
