------------------------------ MODULE SysVCallback ------------------------------
(***************************************************************************)
(* A call from C to a Go callback on System V AMD64: the frame the         *)
(* dispatcher saves (ffi/callback_amd64.s), callbackWrap reading it one    *)
(* argument per step (ffi/callback.go), and the way the Go result takes    *)
(* back.  Which function is called is the business of another module.      *)
(***************************************************************************)
EXTENDS CTypes

VARIABLES
  cb,      \* where the callback is
  cbType,  \* the C prototype of the callback: [args, ret]
  frame,   \* the saved registers and the stack arguments above them
  pos,     \* floatIdx, intIdx, stackIdx
  got      \* the Go arguments read so far: for each the words it is made of

cbVars == <<cb, cbType, frame, pos, got>>

CbTypeOK ==
  /\ cb \in {"idle", "read", "run", "returned"}
  /\ frame \in [int : Seq(Word), sse : Seq(Word), stack : Seq(Word)]
  /\ pos \in [int : 0..6, sse : 0..8, stack : Nat]
  /\ got \in Seq(Seq(Word))

\* validateCallbackSignature: no struct results; a C int is an int32 in Go.
Callable(s) == /\ ~IsStruct(s.ret) /\ s.ret.kind # "int"
               /\ \A i \in DOMAIN s.args : s.args[i].kind \notin {"int", "void"}

\* The dispatcher: XMM0-7, RDI..R9, and what lies on the stack above.
Dispatch(s, f) == /\ cb = "idle"
                  /\ cb' = "read"
                  /\ cbType' = s /\ frame' = f
                  /\ UNCHANGED <<pos, got>>
--------------------------------------------------------------------------------
(* callbackWrap's readers: each returns a word and the position after it.   *)

AtStack(p) == [word |-> IF p.stack + 1 \in DOMAIN frame.stack THEN frame.stack[p.stack + 1]
                                                              ELSE Unset,
               pos |-> [p EXCEPT !.stack = @ + 1]]
\* Mutant: an integer on the stack does not move stackIdx.
GetInt_Stuck(p) ==
  IF p.int < 6 THEN [word |-> frame.int[p.int + 1], pos |-> [p EXCEPT !.int = @ + 1]]
               ELSE [AtStack(p) EXCEPT !.pos = p]
GetInt(p) ==
  IF p.int < 6 THEN [word |-> frame.int[p.int + 1], pos |-> [p EXCEPT !.int = @ + 1]]
               ELSE AtStack(p)
GetFloat(p) ==
  IF p.sse < 8 THEN [word |-> frame.sse[p.sse + 1], pos |-> [p EXCEPT !.sse = @ + 1]]
               ELSE AtStack(p)

\* The two classifiers, on the reflect.Type of the Go argument.  isStructAllFloats
\* looks into nested structs, down to the scalars (none of them is empty, which it
\* would refuse); classifyEightbyte does not.
\* Mutant: like the caller's test, it stops at the members.
AllFloats_Flat(t) ==
  t.members # <<>> /\ \A i \in DOMAIN t.members : IsFloat(t.members[i])
AllFloats(t) == t.leaves # <<>> /\ \A j \in DOMAIN t.leaves : IsFloat(t.leaves[j])
\* Mutant: the first eightbyte decides for both.
EightbyteIsSse_First(t, start, end) ==
  \A i \in DOMAIN t.members : Offset(t.members, i) < 8 => IsFloat(t.members[i])
EightbyteIsSse(t, start, end) ==
  LET here == {i \in DOMAIN t.members : Offset(t.members, i) \in start..(end - 1)}
  IN  here # {} /\ \A i \in here : IsFloat(t.members[i])

Get(p, isSse) == IF isSse THEN GetFloat(p) ELSE GetInt(p)

\* A Go argument of type t read at p: its words and the position after them.
\* A float32 is made by narrowing a float64.
ReadScalar(t, p) ==
  LET g == Get(p, IsFloat(t))
  IN  [words |-> <<IF t.kind = "float" THEN Converted(g.word) ELSE g.word>>, pos |-> g.pos]
ReadSmall(t, p) == LET g == Get(p, AllFloats(t)) IN [words |-> <<g.word>>, pos |-> g.pos]
ReadPair(t, p) ==
  LET first == Get(p, EightbyteIsSse(t, 0, 8))
      second == Get(first.pos, EightbyteIsSse(t, 8, t.size))
  IN  [words |-> <<first.word, second.word>>, pos |-> second.pos]
ReadMemory(t, p) ==
  [words |-> [k \in 1..Eightbytes(t) |-> AtStack([p EXCEPT !.stack = @ + k - 1]).word],
   pos |-> [p EXCEPT !.stack = @ + Eightbytes(t)]]
Read(t, p) == CASE ~IsStruct(t)                    -> ReadScalar(t, p)
                [] IsStruct(t) /\ t.size <= 8      -> ReadSmall(t, p)
                [] IsStruct(t) /\ t.size \in 9..16 -> ReadPair(t, p)
                [] OTHER                           -> ReadMemory(t, p)

ReadArg ==
  /\ cb = "read"
  /\ Len(got) < Len(cbType.args)
  /\ LET r == Read(cbType.args[Len(got) + 1], pos)
     IN  got' = Append(got, r.words) /\ pos' = r.pos
  /\ UNCHANGED <<cb, cbType, frame>>

\* fn.Call(args).
CallGo == /\ cb = "read"
          /\ Len(got) = Len(cbType.args)
          /\ cb' = "run"
          /\ UNCHANGED <<cbType, frame, pos, got>>

\* a.result: one word, which the dispatcher loads into RAX.  Integers are
\* extended to it; a float32 is widened to a float64 first.
Result(t) == CASE t.kind = "void"  -> Unset
               [] t.kind = "float" -> Converted(Bytes(0, 0, 8))
               [] OTHER            -> Bytes(0, 0, 8)
\* Mutant: the result is stored as the four bytes of a C int.
CallbackRegs_Int(r) == IF r = "rax" /\ Result(cbType.ret).is = "bytes" THEN Bytes(0, 0, 4)
                       ELSE Unset
CallbackRegs(r) == IF r = "rax" THEN Result(cbType.ret) ELSE Unset

LeaveGo == /\ cb = "run"
           /\ cb' = "returned"
           /\ UNCHANGED <<cbType, frame, pos, got>>

CbInit(noType) == /\ cb = "idle"
                  /\ cbType = noType
                  /\ frame = [int |-> <<>>, sse |-> <<>>, stack |-> <<>>]
                  /\ pos = [int |-> 0, sse |-> 0, stack |-> 0]
                  /\ got = <<>>
CbNext == ReadArg \/ CallGo \/ LeaveGo
================================================================================
