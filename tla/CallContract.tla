----------------------------- MODULE CallContract -----------------------------
(***************************************************************************)
(* What a goroutine may rely on when it calls C, before anything is said   *)
(* of threads, pooled blocks or the assembly stub.  Its calls, the         *)
(* libraries it loads and the Go functions C calls back nest.  While C is  *)
(* below, the goroutine has an errno that nobody else touches; a call is   *)
(* answered in one step, with the result of its own C function and the     *)
(* errno of that moment, and the answer is what the call returns, whatever *)
(* happens before it does.  ForeignCalls implements this contract.         *)
(***************************************************************************)
EXTENDS Naturals, Sequences

CONSTANTS Goroutines, Errnos, None
VARIABLES calls,  \* what is in progress on each goroutine, the innermost last
          err     \* each goroutine's errno, None while no C function is running

Frame(kind, at) == [kind |-> kind, at |-> at, r1 |-> None, cerrno |-> None]
Top(g) == calls[g][Len(calls[g])]
At(g, at) == calls[g] # <<>> /\ Top(g).at = at
Me(g) == <<g, Len(calls[g])>>

\* C functions of this goroutine are under way, perhaps below a callback.
Running(s) == \E d \in DOMAIN s : s[d].at = "inC"

\* A step of g alone: what is in progress becomes s, the errno e if C is running.
Step(g, s, e) == /\ calls' = [calls EXCEPT ![g] = s]
                 /\ err' = [err EXCEPT ![g] = IF Running(s) THEN e ELSE None]
Become(g, f, e) == Step(g, [calls[g] EXCEPT ![Len(calls[g])] = f], e)
Pop(g, n) == Step(g, SubSeq(calls[g], 1, Len(calls[g]) - n), err[g])

Begin(g) == /\ calls[g] = <<>> \/ At(g, "go")
            /\ \E kind \in {"call", "load"} :
                 Step(g, Append(calls[g], Frame(kind, "asked")), err[g])

\* C starts with the errno its thread has; below other C, with the one C left.
Enter(g) == /\ At(g, "asked")
            /\ \E e \in IF Running(calls[g]) THEN {err[g]} ELSE Errnos :
                 Become(g, Frame(Top(g).kind, "inC"), e)

SetErrno(g) == At(g, "inC") /\ Top(g).kind = "call" /\ Step(g, calls[g], Me(g))

Answer(g) == /\ At(g, "inC")
             /\ Become(g, IF Top(g).kind = "call"
                          THEN [Frame("call", "answered") EXCEPT !.r1 = Me(g), !.cerrno = err[g]]
                          ELSE Frame("load", "answered"), err[g])

Return(g) == At(g, "answered") /\ Pop(g, 1)

CallBack(g) == At(g, "inC") /\ Step(g, Append(calls[g], Frame("go", "go")), err[g])
GoReturns(g) == At(g, "go") /\ Pop(g, 1)
\* A panic is recovered below the C function that called back.
Unwind(g) == At(g, "go") /\ Len(calls[g]) > 1 /\ Pop(g, 2)

Init == calls = [g \in Goroutines |-> <<>>] /\ err = [g \in Goroutines |-> None]
Next == \E g \in Goroutines : \/ Begin(g) \/ Enter(g) \/ SetErrno(g) \/ Answer(g) \/ Return(g)
                              \/ CallBack(g) \/ GoReturns(g) \/ Unwind(g)
Spec == Init /\ [][Next]_<<calls, err>>
================================================================================
