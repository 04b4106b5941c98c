----------------------------- MODULE Arm64Callback -----------------------------
(***************************************************************************)
(* A call from C to a Go callback on arm64: the frame the dispatcher saves *)
(* (ffi/callback_arm64.s), callbackWrap reading it one argument per step   *)
(* (ffi/callback_arm64.go), and the way the Go result takes back.  Which   *)
(* function is called is the business of CallbackRegistry.                 *)
(***************************************************************************)
EXTENDS CTypes

VARIABLES
  cb,      \* where the callback is
  cbType,  \* the C prototype of the callback
  frame,   \* the saved registers and the stack arguments above them
  pos,     \* floatIdx, intIdx, stackIdx
  got      \* the words of the Go arguments read so far

cbVars == <<cb, cbType, frame, pos, got>>

CbTypeOK ==
  /\ cb \in {"idle", "read", "run", "returned"}
  /\ frame \in [gp : Seq(Word), fp : Seq(Word), stack : Seq(Word)]
  /\ pos \in [gp : 0..8, fp : 0..8, stack : Nat]
  /\ got \in Seq(Word)

\* validateCallbackSignature: no struct arguments or results.  A C int is an
\* int32 in Go; a callback is not variadic.
Callable(s) == /\ ~IsStruct(s.ret) /\ s.ret.kind # "int"
               /\ s.fixed = 0 /\ s.given = Len(s.args)
               /\ \A i \in DOMAIN s.args : /\ ~IsStruct(s.args[i])
                                           /\ s.args[i].kind \notin {"int", "void"}

\* callbackDispatcher: F0-F7 and R0-R7 are saved below the caller's frame, so
\* that the stack arguments follow them.
Dispatch(s, f) == /\ cb = "idle"
                  /\ cb' = "read"
                  /\ cbType' = s /\ frame' = f
                  /\ UNCHANGED <<pos, got>>

\* The word for the next argument in registers of a kind, or on the stack.
Here(kind) ==
  IF pos[kind] < 8 THEN frame[kind][pos[kind] + 1]
  ELSE IF pos.stack + 1 \in DOMAIN frame.stack THEN frame.stack[pos.stack + 1] ELSE Unset
\* Mutant: stackIdx belongs to the integers alone.
Advance_IntOnly(kind) ==
  [pos EXCEPT ![IF pos[kind] < 8 THEN kind ELSE IF kind = "gp" THEN "stack" ELSE "fp"]
     = IF kind = "fp" /\ pos[kind] = 8 THEN @ ELSE @ + 1]
Advance(kind) == [pos EXCEPT ![IF pos[kind] < 8 THEN kind ELSE "stack"] = @ + 1]

\* callbackWrap's loop: a float32 is made by narrowing a float64, the other
\* kinds are read as they are.
ReadArg ==
  /\ cb = "read"
  /\ Len(got) < Len(cbType.args)
  /\ LET t == cbType.args[Len(got) + 1]
         kind == IF IsFloat(t) THEN "fp" ELSE "gp"
     IN  /\ got' = Append(got, IF t.kind = "float" THEN Converted(Here(kind)) ELSE Here(kind))
         /\ pos' = Advance(kind)
  /\ UNCHANGED <<cb, cbType, frame>>

\* fn.Call(args).
CallGo == /\ cb = "read"
          /\ Len(got) = Len(cbType.args)
          /\ cb' = "run"
          /\ UNCHANGED <<cbType, frame, pos, got>>

\* a.result: one word, which the dispatcher loads into R0.  A float32 is
\* widened to a float64 first.
Result(t) == CASE t.kind = "void"  -> Unset
               [] t.kind = "float" -> Converted(Bytes(0, 0, 8))
               [] OTHER            -> Bytes(0, 0, 8)
CallbackRegs(r) == IF r = "x0" THEN Result(cbType.ret) ELSE Unset

LeaveGo == /\ cb = "run"
           /\ cb' = "returned"
           /\ UNCHANGED <<cbType, frame, pos, got>>

CbInit(noType) == /\ cb = "idle"
                  /\ cbType = noType
                  /\ frame = [gp |-> <<>>, fp |-> <<>>, stack |-> <<>>]
                  /\ pos = [gp |-> 0, fp |-> 0, stack |-> 0]
                  /\ got = <<>>
CbNext == ReadArg \/ CallGo \/ LeaveGo
================================================================================
