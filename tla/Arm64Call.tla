------------------------------- MODULE Arm64Call -------------------------------
(***************************************************************************)
(* A call from Go to C on arm64: PrepareCallInterface (ffi/cif.go with the *)
(* classifier of internal/arch/arm64/classification.go), Execute           *)
(* (internal/arch/arm64/call_arm64.go) around the assembly stub, and       *)
(* handleReturn (internal/arch/arm64/implementation.go).                   *)
(*                                                                         *)
(* The loops over the arguments take one argument per step; the walks over *)
(* the members of a struct go over its scalars in order.  A signature also *)
(* says how many arguments are fixed (FixedArgCount) and how many values   *)
(* the caller gives (len(avalue)).                                         *)
(***************************************************************************)
EXTENDS CTypes

CONSTANTS
  Types,       \* descriptors of arguments and results
  Signatures,  \* the interfaces to prepare
  Systems      \* operating systems: "darwin" has rules of its own

\* isHomogeneousFloatAggregate.
IsHFA(t) == /\ IsStruct(t)
            /\ Len(t.leaves) \in 1..4
            /\ \A j \in DOMAIN t.leaves : /\ IsFloat(t.leaves[j])
                                          /\ t.leaves[j].kind = t.leaves[1].kind

\* Types are complete, their scalars laid out as C lays them out: aligned, one after
\* the other, a homogeneous aggregate without gaps, the end padded by less than a word.
ASSUME TypesAssumption ==
  \A t \in Types :
    /\ t.size \in Nat \ {0} /\ t.leaves # <<>>
    /\ t.leaves \in Seq([kind : STRING, off : Nat, size : {1, 2, 4, 8}])
    /\ \A j \in DOMAIN t.leaves :
         LET leaf == t.leaves[j]
             before == IF j = 1 THEN 0 ELSE LeafEnd(t, j - 1)
         IN  /\ ~IsStruct(leaf)
             /\ leaf.kind = "float" => leaf.size = 4
             /\ leaf.kind = "double" => leaf.size = 8
             /\ leaf.off % leaf.size = 0 /\ leaf.off >= before /\ LeafEnd(t, j) <= t.size
             /\ IsHFA(t) => leaf.off = before
    /\ 8 * (Eightbytes(t) - 1) < LeafEnd(t, Len(t.leaves))
    /\ IF IsStruct(t) THEN IsHFA(t) => t.size = LeafEnd(t, Len(t.leaves))
       ELSE t.leaves = <<Leaf(t.kind, 0, t.size)>> /\ t.align = t.size
ASSUME SignaturesAssumption ==
  /\ Signatures \subseteq [args : Seq(Types), ret : Types, fixed : Nat, given : Nat]
  /\ \A s \in Signatures : s.fixed <= Len(s.args)

VARIABLES
  os,       \* runtime.GOOS
  sig,      \* the interface prepared and called
  phase,    \* where the call is
  next,     \* the argument the current loop is at
  totals,   \* gprCount and sseCount so far
  regs,     \* gpr, fpr and stackArgs as far as they are filled, and r8
  dropped,  \* values addInt or addFloat had no room for
  ret,      \* r1, r2 and fr1 to fr4 of the argument block
  result    \* what handleReturn writes: n bytes at off of rvalue, from a word

callVars == <<os, sig, phase, next, totals, regs, dropped, ret, result>>

RetRegs == {"x0", "x1", "d0", "d1", "d2", "d3"}

CallTypeOK ==
  /\ phase \in {"prepare", "rejected", "place", "inC", "return", "done", "unsupported"}
  /\ next \in 1..(Len(sig.args) + 1)
  /\ totals \in [gp : Nat, fp : Nat]
  /\ regs \in [gp : Seq(Word), fp : Seq(Word), stack : Seq(Word), x8 : Word]
  /\ Len(regs.gp) <= 8 /\ Len(regs.fp) <= 8 /\ Len(regs.stack) <= 7
  /\ dropped \in SUBSET Word
  /\ ret \in [RetRegs -> Word]
  /\ result \subseteq [off : Nat, n : Nat, word : Word]
--------------------------------------------------------------------------------
(* Classification.                                                          *)

\* Kinds the walks have no case for.
Unknown(t) == t.kind \in {"int", "void"}

\* The register being filled: bytes used (shift counts bits), kinds of scalars in
\* it, and the word they make up.  One with anything but floats is a GP register.
EmptyReg == [shift |-> 0, class |-> {}, word |-> Unset]
RegOf(class) == IF class = {"float"} THEN "fp" ELSE "gp"
ClassOf(leaf) == {IF leaf.kind = "float" THEN "float" ELSE "int"}
\* A scalar begins a register when this one is full, or when it is a float and so
\* is what is there.
Begins(shift, class, leaf) ==
  AlignUp(shift, leaf.size) >= 8 \/ (leaf.kind = "float" /\ class = {"float"})

\* placeStructRegisters.
Flush(s) ==
  [s EXCEPT !.reg = EmptyReg,
            !.out = IF s.reg.class = {} THEN @
                    ELSE Append(@, [kind |-> RegOf(s.reg.class), word |-> s.reg.word])]
Settle(s, leaf) ==
  IF Begins(s.reg.shift, s.reg.class, leaf) THEN Flush(s)
  ELSE [s EXCEPT !.reg.shift = AlignUp(@, leaf.size)]
\* A scalar narrower than 8 bytes shares the register.  It is put at shift, which is
\* not its place in memory once padding at the end of a nested struct was skipped.
Merge(s, i, leaf) ==
  LET from == IF s.reg.class = {} THEN leaf.off ELSE s.reg.word.off
      word == Bytes(i, from, leaf.off + leaf.size - from)
      inPlace == s.reg.word.is # "converted" /\ s.reg.shift = leaf.off - from
  IN  [s EXCEPT !.reg = [shift |-> @.shift + leaf.size, class |-> @.class \cup ClassOf(leaf),
                         word  |-> IF inPlace THEN word ELSE Converted(word)]]
\* One scalar of argument i.
PlaceLeaf(i, s, leaf) ==
  LET q == Settle(s, leaf)
  IN  CASE ~s.ok                                     -> s
        [] s.ok /\ Unknown(leaf)                     -> [q EXCEPT !.ok = FALSE]
        [] s.ok /\ ~Unknown(leaf) /\ leaf.size = 8   ->
             [q EXCEPT !.reg = EmptyReg,
                       !.out = Append(@, [kind |-> IF leaf.kind = "double" THEN "fp" ELSE "gp",
                                          word |-> Bytes(i, leaf.off, 8)])]
        [] OTHER                                     -> Merge(q, i, leaf)
PlaceWalk(i, t) ==
  LET walk[j \in 0..Len(t.leaves)] ==
        IF j = 0 THEN [out |-> <<>>, reg |-> EmptyReg, ok |-> TRUE]
        ELSE PlaceLeaf(i, walk[j - 1], t.leaves[j])
  IN  walk
\* What is handed to addInt and addFloat, in order, and whether all of t was.
PlaceStruct(i, t) ==
  LET end == PlaceWalk(i, t)[Len(t.leaves)] IN IF end.ok THEN Flush(end) ELSE end

\* countStructRegUsage, a walk of its own: an unknown kind fills a GP register.
CountFlush(s) ==
  [shift |-> 0, class |-> {},
   n |-> IF s.class = {} THEN s.n ELSE [s.n EXCEPT ![RegOf(s.class)] = @ + 1]]
CountLeaf(s, leaf) ==
  IF leaf.size = 8 \/ Unknown(leaf)
  THEN [CountFlush(s) EXCEPT !.n[IF leaf.kind = "double" THEN "fp" ELSE "gp"] = @ + 1]
  ELSE LET q == IF Begins(s.shift, s.class, leaf) THEN CountFlush(s)
                ELSE [s EXCEPT !.shift = AlignUp(@, leaf.size)]
       IN  [q EXCEPT !.shift = @ + leaf.size, !.class = @ \cup ClassOf(leaf)]
CountWalk(t) ==
  LET walk[j \in 0..Len(t.leaves)] ==
        IF j = 0 THEN [shift |-> 0, class |-> {}, n |-> [gp |-> 0, fp |-> 0]]
        ELSE CountLeaf(walk[j - 1], t.leaves[j])
  IN  walk
CountStruct(t) == CountFlush(CountWalk(t)[Len(t.leaves)]).n

\* classifyArgumentARM64.
Classify(t) ==
  CASE IsFloat(t)                            -> [gp |-> 0, fp |-> 1]
    [] IsHFA(t)                              -> [gp |-> 0, fp |-> Len(t.leaves)]
    [] IsStruct(t) /\ ~IsHFA(t) /\ t.size > 16  -> [gp |-> 1, fp |-> 0]
    [] IsStruct(t) /\ ~IsHFA(t) /\ t.size <= 16 -> CountStruct(t)
    [] OTHER                                 -> [gp |-> Eightbytes(t), fp |-> 0]

\* preparePlatformSpecific: for every architecture 6 integer registers, 8
\* floating-point registers and 9 stack slots.
Over(n, limit) == IF n > limit THEN n - limit ELSE 0
\* Mutant: the eight registers arm64 has, with the slots amd64 has.
Accepted_Eight(t) == Over(t.gp, 8) + Over(t.fp, 8) <= 9
\* Mutant: the slots arm64 has, with the registers amd64 has.
Accepted_Seven(t) == Over(t.gp, 6) + Over(t.fp, 8) <= 7
Accepted(t) == Over(t.gp, 6) + Over(t.fp, 8) <= 9

CountArg ==
  /\ phase = "prepare"
  /\ next <= Len(sig.args)
  /\ LET c == Classify(sig.args[next])
     IN  totals' = [gp |-> totals.gp + c.gp, fp |-> totals.fp + c.fp]
  /\ next' = next + 1
  /\ UNCHANGED <<os, sig, phase, regs, dropped, ret, result>>

\* ReturnViaPointer, by classifyReturnARM64.
ViaPointer(t) == IsStruct(t) /\ ~IsHFA(t) /\ t.size > 16

\* PrepareCallInterface returns; if it accepts, the interface is called.
Prepared ==
  /\ phase = "prepare"
  /\ next > Len(sig.args)
  /\ IF Accepted(totals)
     THEN /\ phase' = "place"
          /\ regs' = [regs EXCEPT !.x8 = IF ViaPointer(sig.ret) THEN AddressOf(0) ELSE @]
     ELSE phase' = "rejected" /\ UNCHANGED regs
  /\ next' = 1
  /\ UNCHANGED <<os, sig, totals, dropped, ret, result>>
--------------------------------------------------------------------------------
(* Execute: arguments to registers and stack slots.                         *)

\* Mutant: the nine slots amd64 has.
AddStack_Nine(r, w) == IF Len(r.stack) < 9 THEN [r EXCEPT !.stack = Append(@, w)]
                       ELSE [r EXCEPT !.dropped = @ \cup {w}]
\* r has the registers and what was dropped.  addInt and addFloat report a full
\* stack by their result, which the cases for scalars do not look at.
AddStack(r, w) == IF Len(r.stack) < 7 THEN [r EXCEPT !.stack = Append(@, w)]
                  ELSE [r EXCEPT !.dropped = @ \cup {w}]
AddInt(r, w) == IF Len(r.gp) < 8 THEN [r EXCEPT !.gp = Append(@, w)] ELSE AddStack(r, w)
AddFloat(r, w) == IF Len(r.fp) < 8 THEN [r EXCEPT !.fp = Append(@, w)] ELSE AddStack(r, w)
Add(r, o) == IF o.kind = "fp" THEN AddFloat(r, o.word) ELSE AddInt(r, o.word)

PlaceScalar(r, i, t) ==
  CASE Unknown(t) -> AddInt(r, AddressOf(i))
    [] IsFloat(t) -> AddFloat(r, Bytes(i, 0, t.size))
    [] OTHER      -> AddInt(r, Bytes(i, 0, t.size))

\* An aggregate of floats for which there are too few registers: four bytes at
\* a time, first into the registers that are left; its address if the stack is
\* full before the end.
SpillHFA(r, i, t) ==
  LET spilled[k \in 0..(t.size \div 4)] ==
        IF k = 0 THEN r
        ELSE LET q == spilled[k - 1]
             IN  IF q.dropped # r.dropped THEN q ELSE AddFloat(q, Bytes(i, 4 * (k - 1), 4))
      end == spilled[t.size \div 4]
  IN  IF end.dropped = r.dropped THEN end
      ELSE AddInt([end EXCEPT !.dropped = r.dropped], AddressOf(i))

\* r after the first j of the words out.
Added(r, out) ==
  LET added[j \in 0..Len(out)] == IF j = 0 THEN r ELSE Add(added[j - 1], out[j]) IN added
\* If placing fails (IntType), what was placed stays and the address follows.
PlaceInRegs(r, i, t) ==
  LET placed == PlaceStruct(i, t)
      end == Added(r, placed.out)[Len(placed.out)]
  IN  IF placed.ok THEN end ELSE AddInt(end, AddressOf(i))

PlaceAggregate(r, i, t) ==
  LET need == CountStruct(t)
      room == Len(r.gp) + need.gp <= 8 /\ Len(r.fp) + need.fp <= 8
  IN  CASE IsHFA(t) /\ Len(r.fp) + Len(t.leaves) <= 8 -> PlaceInRegs(r, i, t)
        [] IsHFA(t) /\ Len(r.fp) + Len(t.leaves) > 8  -> SpillHFA(r, i, t)
        [] ~IsHFA(t) /\ t.size <= 16 /\ room          -> PlaceInRegs(r, i, t)
        [] OTHER                                      -> AddInt(r, AddressOf(i))

\* Apple's variadic arguments: no register is left for them.
Full(words) == words \o [k \in 1..(8 - Len(words)) |-> Unset]
Exhaust(r) == [r EXCEPT !.gp = Full(@), !.fp = Full(@)]
\* Mutant: the boundary is one argument late.
AtBoundary_Late(i) == os = "darwin" /\ sig.fixed > 0 /\ i = sig.fixed + 2
AtBoundary(i) == os = "darwin" /\ sig.fixed > 0 /\ i = sig.fixed + 1

PlaceArg(r, i, t) ==
  LET q == IF AtBoundary(i) THEN Exhaust(r) ELSE r
  IN  IF IsStruct(t) THEN PlaceAggregate(q, i, t) ELSE PlaceScalar(q, i, t)

\* The loop goes on while there are values; the check after it, that there are
\* at most 7 stack arguments, cannot fail.
Values == {i \in DOMAIN sig.args : i <= sig.given}
Execute ==
  /\ phase = "place"
  /\ next \in Values
  /\ LET r == PlaceArg([gp |-> regs.gp, fp |-> regs.fp, stack |-> regs.stack,
                        dropped |-> dropped], next, sig.args[next])
     IN  /\ regs' = [gp |-> r.gp, fp |-> r.fp, stack |-> r.stack, x8 |-> regs.x8]
         /\ dropped' = r.dropped
  /\ next' = next + 1
  /\ UNCHANGED <<os, sig, phase, totals, ret, result>>

\* CallNFloatErrno, runtime.cgocall, syscallN: the block goes into registers
\* and stack slots as it is.
EnterC == /\ phase = "place"
          /\ next \notin Values
          /\ phase' = "inC"
          /\ UNCHANGED <<os, sig, next, totals, regs, dropped, ret, result>>

\* What C finds in a register, or on the stack at a byte offset: a slot is
\* eight bytes.
At(at) ==
  CASE at[1] = "x8"                       -> regs.x8
    [] at[1] = "stack" /\ at[2] % 8 # 0   -> Unset
    [] OTHER -> LET held == regs[at[1]]
                    n == IF at[1] = "stack" THEN at[2] \div 8 + 1 ELSE at[2]
                IN  IF n \in DOMAIN held THEN held[n] ELSE Unset

\* syscallN stores X0, X1 and D0 to D3; v is what the callee left there.
LeaveC(v) == /\ phase = "inC"
             /\ phase' = "return"
             /\ ret' = v
             /\ UNCHANGED <<os, sig, next, totals, regs, dropped, result>>
--------------------------------------------------------------------------------
(* handleReturn.                                                            *)

Write(off, n, word) == [off |-> off, n |-> n, word |-> word]

FloatReg(k) == <<"d0", "d1", "d2", "d3">>[k]
\* Mutant: every element is taken for a double.
HandleHFAReturn_Double(t) ==
  {Write(8 * (k - 1), 8, ret[FloatReg(k)]) : k \in DOMAIN t.leaves}
HandleHFAReturn(t) ==
  {Write(t.leaves[1].size * (k - 1), t.leaves[1].size, ret[FloatReg(k)]) : k \in DOMAIN t.leaves}

\* rvalue after the call.  An aggregate of one float has no HFA flag and is
\* taken from X0.  A result through X8 was written by C.
HandleReturn(t) ==
  CASE t.kind = "void" \/ ViaPointer(t)       -> {}
    [] IsHFA(t) /\ Len(t.leaves) > 1          -> HandleHFAReturn(t)
    [] IsFloat(t)                             -> {Write(0, t.size, ret["d0"])}
    [] IsStruct(t) /\ t.size <= 8
         /\ ~(IsHFA(t) /\ Len(t.leaves) > 1)  -> {Write(0, 8, ret["x0"])}
    [] IsStruct(t) /\ ~IsHFA(t) /\ t.size \in 9..16 ->
         {Write(0, 8, ret["x0"]), Write(8, t.size - 8, ret["x1"])}
    [] OTHER                                  -> {Write(0, t.size, ret["x0"])}

Return ==
  /\ phase = "return"
  /\ IF sig.ret.kind = "int" THEN phase' = "unsupported" /\ UNCHANGED result
     ELSE phase' = "done" /\ result' = HandleReturn(sig.ret)
  /\ UNCHANGED <<os, sig, next, totals, regs, dropped, ret>>

CallInit == /\ os \in Systems /\ sig \in Signatures
            /\ phase = "prepare"
            /\ next = 1
            /\ totals = [gp |-> 0, fp |-> 0]
            /\ regs = [gp |-> <<>>, fp |-> <<>>, stack |-> <<>>, x8 |-> Unset]
            /\ dropped = {}
            /\ ret = [r \in RetRegs |-> Unset]
            /\ result = {}
CallNext == CountArg \/ Prepared \/ Execute \/ EnterC \/ Return
================================================================================
