-------------------------------- MODULE SysVCall --------------------------------
(***************************************************************************)
(* A call from Go to C on System V AMD64: PrepareCallInterface             *)
(* (ffi/cif.go, internal/arch/amd64/classification.go), Execute            *)
(* (internal/arch/amd64/call_unix.go) around the assembly stub, and        *)
(* handleReturn (internal/arch/amd64/implementation.go).                   *)
(*                                                                         *)
(* The loops of preparePlatformSpecific and of Execute take one argument   *)
(* per step.  The callee is not here: between EnterC and LeaveC it does    *)
(* what it likes and leaves a value in the return registers.               *)
(***************************************************************************)
EXTENDS CTypes

CONSTANTS
  Types,         \* descriptors of arguments and results
  Signatures,    \* the interfaces to prepare
  MaxStackSlots  \* maxTotalArgs - 6, the slots syscallN pushes

\* A type with its leaves inside it; the leaf of a scalar is the scalar.
LaidOut(t) ==
  /\ t.size \in Nat \ {0}
  /\ IF IsStruct(t)
     THEN \A j \in DOMAIN t.leaves : /\ t.leaves[j].off \in Nat
                                    /\ t.leaves[j].size \in Nat \ {0}
                                    /\ LeafEnd(t, j) <= t.size
     ELSE t.leaves = <<Leaf(t.kind, 0, t.size)>>
\* Scalars fit a register.  Structs are complete; their members may be structs.
\* The leaves are aligned, so that each lies in one eightbyte, and none of the
\* eightbytes is padding only.
ASSUME TypesAssumption ==
  \A t \in Types :
    /\ LaidOut(t)
    /\ ~IsStruct(t) => t.size <= 8
    /\ IsStruct(t) =>
         /\ \A i \in DOMAIN t.members :
              LaidOut(t.members[i]) /\ Offset(t.members, i) \in 0..(t.size - 1)
         /\ {t.leaves[j] : j \in DOMAIN t.leaves}
              = UNION {LeavesOf(t.members, i) : i \in DOMAIN t.members}
         /\ \A j \in DOMAIN t.leaves : t.leaves[j].off \div 8 = (LeafEnd(t, j) - 1) \div 8
         /\ \A k \in 0..(Eightbytes(t) - 1) :
              \E j \in DOMAIN t.leaves : t.leaves[j].off \div 8 = k
ASSUME SignaturesAssumption == Signatures \subseteq [args : Seq(Types), ret : Types]
ASSUME SlotsAssumption == MaxStackSlots \in Nat

VARIABLES
  sig,      \* the interface prepared and called
  phase,    \* where the call is
  next,     \* the argument the current loop is at
  totals,   \* gprCount and sseCount before each argument
  regs,     \* sysargs[0..5], floats, sysargs[6..14], as far as they are filled
  ret,      \* r1, r2, f1 and f2 of the argument block
  result    \* what handleReturn writes: n bytes at off of rvalue, from a word

callVars == <<sig, phase, next, totals, regs, ret, result>>

Phases == {"prepare", "rejected", "place", "panic", "inC", "return", "done", "unsupported"}
RetRegs == {"rax", "rdx", "xmm0", "xmm1"}
NoReturn == [r \in RetRegs |-> Unset]

CallTypeOK ==
  /\ sig \in [args : Seq(Types), ret : Types]
  /\ phase \in Phases
  /\ next \in 1..(Len(sig.args) + 1)
  /\ totals \in Seq([int : Nat, sse : Nat])
  /\ regs \in [int : Seq(Word), sse : Seq(Word), stack : Seq(Word)]
  /\ Len(regs.int) <= 6 /\ Len(regs.sse) <= 8
  /\ ret \in [RetRegs -> Word]
  /\ result \subseteq [off : Nat, n : Nat, word : Word]
--------------------------------------------------------------------------------
(* Classification: by the members, without a look into nested structs.      *)

\* Mutant: one member in the eightbyte is enough to make it SSE.
ClassifyEightbyte_AnyFloat(t, start, end) ==
  \E i \in DOMAIN t.members : /\ Offset(t.members, i) \in start..(end - 1)
                              /\ IsFloat(t.members[i])
\* All members that start within [start, end) are floats, and there is one.
ClassifyEightbyte(t, start, end) ==
  LET here == {i \in DOMAIN t.members : Offset(t.members, i) \in start..(end - 1)}
  IN  here # {} /\ \A i \in here : IsFloat(t.members[i])

IsStructAllFloats(t) ==
  t.members # <<>> /\ \A i \in DOMAIN t.members : IsFloat(t.members[i])

SmallEnd(t) == IF t.size < 8 THEN t.size ELSE 8

\* The eightbytes of t that classifyArgumentAMD64 counts as SSE.
SseChunks(t) ==
  {k \in 0..1 : 8 * k < t.size
                /\ ClassifyEightbyte(t, 8 * k, IF k = 0 THEN SmallEnd(t) ELSE t.size)}
SseCount(t) == CASE IsFloat(t)                    -> 1
                 [] IsStruct(t) /\ t.size <= 16   ->
                      (IF 0 \in SseChunks(t) THEN 1 ELSE 0)
                        + (IF 1 \in SseChunks(t) THEN 1 ELSE 0)
                 [] OTHER                         -> 0
\* A MEMORY struct counts as nothing.
GprCount(t) == IF IsFloat(t) \/ (IsStruct(t) /\ t.size > 16) THEN 0
               ELSE Eightbytes(t) - SseCount(t)

Over(n, limit) == IF n > limit THEN n - limit ELSE 0

\* Mutants: only the integers are counted against the stack; the last slot is
\* not used.
Accepted_IntOnly(t) == Over(t.int, 6) <= MaxStackSlots
Accepted_Below(t) == Over(t.int, 6) + Over(t.sse, 8) < MaxStackSlots
\* preparePlatformSpecific's test, on the counts of all arguments.
Accepted(t) == Over(t.int, 6) + Over(t.sse, 8) <= MaxStackSlots

CountArg ==
  /\ phase = "prepare"
  /\ next <= Len(sig.args)
  /\ LET t == sig.args[next]
         u == totals[next]
     IN  totals' = Append(totals, [int |-> u.int + GprCount(t), sse |-> u.sse + SseCount(t)])
  /\ next' = next + 1
  /\ UNCHANGED <<sig, phase, regs, ret, result>>

\* Execute begins by putting rvalue into the first register when the result
\* is returned in memory.
Sret == IsStruct(sig.ret) /\ sig.ret.size > 16

\* PrepareCallInterface returns; if it accepts, the interface is called.
Prepared ==
  /\ phase = "prepare"
  /\ next > Len(sig.args)
  /\ IF Accepted(totals[next])
     THEN /\ phase' = "place"
          /\ regs' = [regs EXCEPT !.int = IF Sret THEN <<AddressOf(0)>> ELSE <<>>]
     ELSE phase' = "rejected" /\ UNCHANGED regs
  /\ next' = 1
  /\ UNCHANGED <<sig, totals, ret, result>>
--------------------------------------------------------------------------------
(* Execute: arguments to registers and stack slots.                         *)

AddStack(r, w) == [r EXCEPT !.stack = Append(@, w)]
\* Mutant: the limit is one too high.
AddInt_Seven(r, w) == IF Len(r.int) <= 6 THEN [r EXCEPT !.int = Append(@, w)]
                      ELSE AddStack(r, w)
AddInt(r, w) == IF Len(r.int) < 6 THEN [r EXCEPT !.int = Append(@, w)]
                ELSE AddStack(r, w)
AddFloat(r, w) == IF Len(r.sse) < 8 THEN [r EXCEPT !.sse = Append(@, w)]
                  ELSE AddStack(r, w)
Add(r, isSse, w) == IF isSse THEN AddFloat(r, w) ELSE AddInt(r, w)

\* How many bytes are read when n are left: 1, 2, 4 or 8.
ReadLen(n) == CASE n = 1 -> 1 [] n = 2 -> 2 [] n \in 3..4 -> 4 [] OTHER -> 8

\* Argument i, of type t, added to r.
PlaceScalar(r, i, t) ==
  CASE t.kind = "int" -> AddInt(r, AddressOf(i))
    [] IsFloat(t)     -> AddFloat(r, Bytes(i, 0, t.size))
    [] OTHER          -> AddInt(r, Bytes(i, 0, t.size))
PlaceSmall(r, i, t) ==
  IF IsStructAllFloats(t) THEN AddFloat(r, Bytes(i, 0, 8))
                          ELSE AddInt(r, Bytes(i, 0, ReadLen(t.size)))
PlacePair(r, i, t) ==
  Add(Add(r, ClassifyEightbyte(t, 0, 8), Bytes(i, 0, 8)),
      ClassifyEightbyte(t, 8, t.size), Bytes(i, 8, ReadLen(t.size - 8)))
PlaceMemory(r, i, t) ==
  [r EXCEPT !.stack = @ \o [k \in 1..Eightbytes(t) |->
                              Bytes(i, 8 * (k - 1), ReadLen(Left(t, k - 1)))]]
PlaceArg(r, i, t) ==
  CASE ~IsStruct(t)                     -> PlaceScalar(r, i, t)
    [] IsStruct(t) /\ t.size <= 8       -> PlaceSmall(r, i, t)
    [] IsStruct(t) /\ t.size \in 9..16  -> PlacePair(r, i, t)
    [] OTHER                            -> PlaceMemory(r, i, t)

\* One argument.  A slot past sysargs[14] is an index out of range, which
\* strikes before the numStack check after the loop can return its error.
Execute ==
  /\ phase = "place"
  /\ next <= Len(sig.args)
  /\ LET r == PlaceArg(regs, next, sig.args[next])
     IN  IF Len(r.stack) > MaxStackSlots
         THEN phase' = "panic" /\ UNCHANGED <<next, regs>>
         ELSE regs' = r /\ next' = next + 1 /\ UNCHANGED phase
  /\ UNCHANGED <<sig, totals, ret, result>>

\* CallNFloatErrno, runtime.cgocall, syscallN: the block goes into registers
\* and stack slots as it is.
EnterC == /\ phase = "place"
          /\ next > Len(sig.args)
          /\ phase' = "inC"
          /\ UNCHANGED <<sig, next, totals, regs, ret, result>>

\* What C finds in a register or stack slot.
At(place) == LET held == regs[place[1]]
             IN  IF place[2] \in DOMAIN held THEN held[place[2]] ELSE Unset

\* syscallN stores RAX, RDX, XMM0 and XMM1; v is what the callee left there.
LeaveC(v) == /\ phase = "inC"
             /\ phase' = "return"
             /\ ret' = v
             /\ UNCHANGED <<sig, next, totals, regs, result>>
--------------------------------------------------------------------------------
(* handleReturn.                                                            *)

Write(off, n, word) == [off |-> off, n |-> n, word |-> word]

\* Mutant: a second integer eightbyte is looked for in RDX whatever the first.
StructRegs_Rdx(t) ==
  LET sse0 == ClassifyEightbyte(t, 0, 8)
      sse1 == ClassifyEightbyte(t, 8, t.size)
  IN  <<IF sse0 THEN "xmm0" ELSE "rax",
        IF sse1 THEN IF sse0 THEN "xmm1" ELSE "xmm0" ELSE "rdx">>
\* classifyReturnAMD64's choice for 9 to 16 bytes; of two eightbytes in the
\* same kind of register the second is in RDX or XMM1.
StructRegs(t) ==
  LET sse0 == ClassifyEightbyte(t, 0, 8)
      sse1 == ClassifyEightbyte(t, 8, t.size)
  IN  CASE sse0 /\ sse1   -> <<"xmm0", "xmm1">>
        [] sse0 /\ ~sse1  -> <<"xmm0", "rax">>
        [] ~sse0 /\ sse1  -> <<"rax", "xmm0">>
        [] OTHER          -> <<"rax", "rdx">>
\* rvalue after the call; a result in memory was written by C through rvalue.
HandleReturn(t) ==
  CASE t.kind = "void"                  -> {}
    [] IsStruct(t) /\ t.size > 16       -> {}
    [] IsFloat(t)                       -> {Write(0, t.size, ret["xmm0"])}
    [] IsStruct(t) /\ t.size <= 8       -> {Write(0, 8, ret["rax"])}
    [] IsStruct(t) /\ t.size \in 9..16  ->
         {Write(0, 8, ret[StructRegs(t)[1]]), Write(8, t.size - 8, ret[StructRegs(t)[2]])}
    [] OTHER                            -> {Write(0, t.size, ret["rax"])}

Return ==
  /\ phase = "return"
  /\ IF sig.ret.kind = "int" THEN phase' = "unsupported" /\ UNCHANGED result
     ELSE phase' = "done" /\ result' = HandleReturn(sig.ret)
  /\ UNCHANGED <<sig, next, totals, regs, ret>>

CallInit == /\ sig \in Signatures
            /\ phase = "prepare"
            /\ next = 1
            /\ totals = <<[int |-> 0, sse |-> 0]>>
            /\ regs = [int |-> <<>>, sse |-> <<>>, stack |-> <<>>]
            /\ ret = NoReturn
            /\ result = {}
CallNext == CountArg \/ Prepared \/ Execute \/ EnterC \/ Return
================================================================================
