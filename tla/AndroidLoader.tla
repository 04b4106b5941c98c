----------------------------- MODULE AndroidLoader -----------------------------
(***************************************************************************)
(* Library loading and symbol lookup on Android (internal/dl, ffi): one    *)
(* cgocall runs dlopen or dlsym and, if that failed, dlerror and strdup on *)
(* the same thread; Go copies the text and frees it in a second cgocall,   *)
(* on whatever thread that is.  Two builds differ in where the arguments   *)
(* are: without cgo on the goroutine's stack, with cgo on the heap.        *)
(*                                                                         *)
(* dlerror's text belongs to a thread, and other C code leaves texts too.  *)
(***************************************************************************)
EXTENDS Integers

CONSTANTS
  Goroutines,
  Threads,  \* OS threads of the Go scheduler
  Chunks,   \* memory malloc and strdup may return
  None

ASSUME NoneAssumption == None \notin Threads \cup Chunks

VARIABLES
  cgo,     \* the build
  pc,      \* where each goroutine is
  call,    \* its call: "dlopen" or "dlsym"
  turn,    \* tells a call from the one before
  thread,  \* the thread it is on while in C
  moved,   \* its stack has moved since the arguments were put there
  name,    \* its argument, if that is a chunk: C.CString
  found,   \* args.result: not NULL
  error,   \* args.error: the chunk with the text
  report,  \* what the caller gets: no error, an unknown one, or a text
  outcome, \* history: what libc really found
  heap,    \* what the chunks hold
  dlerr    \* the pending text of each thread

\* The call a goroutine makes.
callVars == <<pc, call, turn, thread, moved, name, found, error, report, outcome>>
vars == <<cgo, callVars, heap, dlerr>>

\* A text tells whose call it is about; other C code loads libraries, too.
Texts == Goroutines \X {0, 1} \cup {<<"other", 0>>}
NoError == <<"none", 0>>
Unknown == <<"unknown", 0>>
Free == <<"free", 0>>
Name == <<"name", 0>>
ASSUME GoroutinesAssumption == Goroutines \cap {"other", "none", "unknown", "free", "name"} = {}

Places == {"go", "ready", "clear", "lookup", "ctor", "failed", "returned", "take", "copied", "reported"}
InC == {"clear", "lookup", "ctor", "failed"}
TypeOK ==
  /\ cgo \in BOOLEAN
  /\ pc \in [Goroutines -> Places] /\ call \in [Goroutines -> {"dlopen", "dlsym"}]
  /\ turn \in [Goroutines -> {0, 1}]
  /\ thread \in [Goroutines -> Threads \cup {None}]
  /\ \A g \in Goroutines : thread[g] # None <=> pc[g] \in InC
  /\ moved \in [Goroutines -> BOOLEAN] /\ found \in [Goroutines -> BOOLEAN]
  /\ name \in [Goroutines -> Chunks \cup {None}] /\ error \in [Goroutines -> Chunks \cup {None}]
  /\ report \in [Goroutines -> Texts \cup {NoError, Unknown, Free, Name}]
  /\ outcome \in [Goroutines -> {"none", "found", "null", "failed", "unexplained"}]
  /\ heap \in [Chunks -> Texts \cup {Free, Name}]
  /\ dlerr \in [Threads -> Texts \cup {NoError}]

Me(g) == <<g, turn[g]>>
\* A thread that no goroutine is in C on.
Idle(m) == \A g \in Goroutines : thread[g] # m
--------------------------------------------------------------------------------
(* Go's side before the call.                                               *)

\* Dlopen or Dlsym: C.CString takes memory (or ends the program), args is zeroed.
Prepare(g, c) ==
  /\ pc[g] = "go"
  /\ IF cgo THEN \E n \in Chunks : /\ heap[n] = Free
                                   /\ heap' = [heap EXCEPT ![n] = Name]
                                   /\ name' = [name EXCEPT ![g] = n]
            ELSE UNCHANGED <<heap, name>>
  /\ call' = [call EXCEPT ![g] = c]
  /\ pc' = [pc EXCEPT ![g] = "ready"]
  /\ moved' = [moved EXCEPT ![g] = FALSE]
  /\ found' = [found EXCEPT ![g] = FALSE] /\ error' = [error EXCEPT ![g] = None]
  /\ outcome' = [outcome EXCEPT ![g] = "none"]
  /\ UNCHANGED <<cgo, turn, thread, report, dlerr>>
Dlopen(g) == Prepare(g, "dlopen")
Dlsym(g) == Prepare(g, "dlsym")

\* runtime.cgocall.
Cgocall(g, m) ==
  /\ pc[g] = "ready" /\ Idle(m)
  /\ thread' = [thread EXCEPT ![g] = m]
  /\ pc' = [pc EXCEPT ![g] = IF call[g] = "dlsym" THEN "clear" ELSE "lookup"]
  /\ UNCHANGED <<cgo, call, turn, moved, name, found, error, report, outcome, heap, dlerr>>
--------------------------------------------------------------------------------
(* The wrapper, in C.                                                       *)

\* Mutant: dlsym starts with whatever is pending.
AfterClear_Kept(g) == dlerr
AfterClear(g) == [dlerr EXCEPT ![thread[g]] = NoError]
\* The dlerror before dlsym.
Clear(g) ==
  /\ pc[g] = "clear"
  /\ dlerr' = AfterClear(g)
  /\ pc' = [pc EXCEPT ![g] = "lookup"]
  /\ UNCHANGED <<cgo, call, turn, thread, moved, name, found, error, report, outcome, heap>>

\* dlopen or dlsym fails, and leaves a text.
LibcFails(g) ==
  /\ pc[g] = "lookup"
  /\ dlerr' = [dlerr EXCEPT ![thread[g]] = Me(g)]
  /\ outcome' = [outcome EXCEPT ![g] = "failed"]
  /\ pc' = [pc EXCEPT ![g] = "failed"]
  /\ UNCHANGED <<cgo, call, turn, thread, moved, name, found, error, report, heap>>
\* The symbol exists, and its value is NULL: no text.
SymbolIsNull(g) ==
  /\ pc[g] = "lookup" /\ call[g] = "dlsym"
  /\ outcome' = [outcome EXCEPT ![g] = "null"]
  /\ pc' = [pc EXCEPT ![g] = "failed"]
  /\ UNCHANGED <<cgo, call, turn, thread, moved, name, found, error, report, heap, dlerr>>
\* dlopen has found everything, and runs the library's constructors.
Construct(g) ==
  /\ pc[g] = "lookup" /\ call[g] = "dlopen"
  /\ pc' = [pc EXCEPT ![g] = "ctor"]
  /\ UNCHANGED <<cgo, call, turn, thread, moved, name, found, error, report, outcome, heap, dlerr>>
\* A constructor calls back into Go, and the stack grows: args moves with it,
\* unless it is on the heap.
GrowStack(g) ==
  /\ pc[g] = "ctor" /\ ~cgo
  /\ moved' = [moved EXCEPT ![g] = TRUE]
  /\ UNCHANGED <<cgo, pc, call, turn, thread, name, found, error, report, outcome, heap, dlerr>>

\* Mutant: the goroutine stays on its thread.
Leave_Locked(g) == pc' = [pc EXCEPT ![g] = "returned"] /\ UNCHANGED thread
\* The wrapper returns, and with it cgocall.
Leave(g) == /\ thread' = [thread EXCEPT ![g] = None]
            /\ pc' = [pc EXCEPT ![g] = "returned"]

\* A handle or an address: stored, in vain if args has moved, and back to Go.
LibcSucceeds(g) ==
  /\ pc[g] = IF call[g] = "dlopen" THEN "ctor" ELSE "lookup"
  /\ found' = [found EXCEPT ![g] = ~moved[g]]
  /\ outcome' = [outcome EXCEPT ![g] = "found"]
  /\ Leave(g)
  /\ UNCHANGED <<cgo, call, turn, moved, name, error, report, heap, dlerr>>

\* dlerror, which forgets what it returns, and strdup, which may find no memory.
Explain(g) ==
  /\ pc[g] = "failed"
  /\ LET m == thread[g] IN
       /\ dlerr' = [dlerr EXCEPT ![m] = NoError]
       /\ IF dlerr[m] = NoError THEN UNCHANGED <<heap, error, outcome>>
          ELSE \/ \E c \in Chunks : /\ heap[c] = Free
                                    /\ heap' = [heap EXCEPT ![c] = dlerr[m]]
                                    /\ error' = [error EXCEPT ![g] = c]
                                    /\ UNCHANGED outcome
               \/ /\ outcome' = [outcome EXCEPT ![g] = "unexplained"]
                  /\ UNCHANGED <<heap, error>>
  /\ Leave(g)
  /\ UNCHANGED <<cgo, call, turn, moved, name, found, report>>

\* Other C code fails to load something, on a thread goffi does not use at the
\* time or in a constructor.
OthersFail(m) ==
  /\ \A g \in Goroutines : thread[g] = m => pc[g] = "ctor"
  /\ dlerr' = [dlerr EXCEPT ![m] = <<"other", 0>>]
  /\ UNCHANGED <<cgo, callVars, heap>>
--------------------------------------------------------------------------------
(* Go's side after the call.                                                *)

\* args.result, args.error, and takeAndroidDlerror if there is a text.
Check(g) ==
  /\ pc[g] = "returned"
  /\ \/ /\ ~found[g] /\ error[g] # None
        /\ pc' = [pc EXCEPT ![g] = "take"] /\ UNCHANGED report
     \/ /\ found[g] \/ error[g] = None
        /\ report' = [report EXCEPT ![g] = IF found[g] THEN NoError ELSE Unknown]
        /\ pc' = [pc EXCEPT ![g] = "reported"]
  /\ UNCHANGED <<cgo, call, turn, thread, moved, name, found, error, outcome, heap, dlerr>>

\* The text is copied, byte by byte or by C.GoString.
Copy(g) ==
  /\ pc[g] = "take"
  /\ report' = [report EXCEPT ![g] = heap[error[g]]]
  /\ pc' = [pc EXCEPT ![g] = "copied"]
  /\ UNCHANGED <<cgo, call, turn, thread, moved, name, found, error, outcome, heap, dlerr>>
\* Mutant: the text is not freed.
FreeText_Not(g) ==
  /\ pc[g] = "copied"
  /\ error' = [error EXCEPT ![g] = None]
  /\ pc' = [pc EXCEPT ![g] = "reported"]
  /\ UNCHANGED <<cgo, call, turn, thread, moved, name, found, report, outcome, heap, dlerr>>
\* A cgocall of its own; free does not care for the thread.
FreeText(g) ==
  /\ pc[g] = "copied"
  /\ heap' = [heap EXCEPT ![error[g]] = Free]
  /\ error' = [error EXCEPT ![g] = None]
  /\ pc' = [pc EXCEPT ![g] = "reported"]
  /\ UNCHANGED <<cgo, call, turn, thread, moved, name, found, report, outcome, dlerr>>

\* The deferred free of the argument, and the return to LoadLibrary or
\* GetSymbol, which wrap an error into a LibraryError.
Return(g) ==
  /\ pc[g] = "reported"
  /\ heap' = [n \in Chunks |-> IF n = name[g] THEN Free ELSE heap[n]]
  /\ name' = [name EXCEPT ![g] = None]
  /\ turn' = [turn EXCEPT ![g] = 1 - @]
  /\ pc' = [pc EXCEPT ![g] = "go"]
  /\ UNCHANGED <<cgo, call, thread, moved, found, error, report, outcome, dlerr>>
--------------------------------------------------------------------------------
Init == /\ cgo \in BOOLEAN
        /\ pc = [g \in Goroutines |-> "go"] /\ call = [g \in Goroutines |-> "dlopen"]
        /\ turn = [g \in Goroutines |-> 0]
        /\ thread = [g \in Goroutines |-> None]
        /\ moved = [g \in Goroutines |-> FALSE] /\ found = [g \in Goroutines |-> FALSE]
        /\ name = [g \in Goroutines |-> None] /\ error = [g \in Goroutines |-> None]
        /\ report = [g \in Goroutines |-> NoError] /\ outcome = [g \in Goroutines |-> "none"]
        /\ heap = [c \in Chunks |-> Free]
        /\ dlerr = [m \in Threads |-> NoError]

Go(g) == Dlopen(g) \/ Dlsym(g) \/ Check(g) \/ Copy(g) \/ FreeText(g) \/ Return(g)
Libc(g) == \/ Clear(g) \/ LibcFails(g) \/ SymbolIsNull(g) \/ Construct(g)
           \/ GrowStack(g) \/ LibcSucceeds(g) \/ Explain(g)
Next == \/ \E g \in Goroutines : Go(g) \/ Libc(g) \/ \E m \in Threads : Cgocall(g, m)
        \/ \E m \in Threads : OthersFail(m)
Spec == Init /\ [][Next]_vars
--------------------------------------------------------------------------------
(* Properties.                                                              *)

\* A call tells its caller what happened to it: the text of its own failure and
\* never another's, whatever other goroutines and other C code fail to load on
\* the same threads; an unknown error only if there is no text to be had.  A
\* library that was found is reported as found, unless the stack that args was
\* on has moved.
ReportIsTrue ==
  \A g \in Goroutines : pc[g] = "reported" =>
    /\ outcome[g] = "found" => report[g] = IF moved[g] THEN Unknown ELSE NoError
    /\ outcome[g] = "failed" => report[g] = Me(g)
    /\ outcome[g] \in {"null", "unexplained"} => report[g] = Unknown

\* Every chunk in use is the text or the argument of exactly one call in
\* progress: none is freed twice or while it is read, and none is lost.
ChunksHaveOwners ==
  \A c \in Chunks :
    /\ heap[c] # Free <=> \E g \in Goroutines : c \in {name[g], error[g]}
    /\ \A g, h \in Goroutines : c \in {name[g], error[g]} /\ c \in {name[h], error[h]} => g = h
    /\ \A g \in Goroutines : ~(name[g] = c /\ error[g] = c)
================================================================================
