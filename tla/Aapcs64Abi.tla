------------------------------- MODULE Aapcs64Abi -------------------------------
(***************************************************************************)
(* The AAPCS64 calling convention as a C compiler applies it, with Apple's *)
(* changes to it: the reference the modules Arm64Call and Arm64Callback    *)
(* are compared with.  It is not part of goffi.                            *)
(*                                                                         *)
(* A signature has fixed arguments, then variadic ones; fixed = 0 when the *)
(* function is not variadic.                                               *)
(***************************************************************************)
EXTENDS CTypes

\* Homogeneous floating-point aggregates.
Hfa(t) == /\ IsStruct(t) /\ Len(t.leaves) \in 1..4
          /\ \E kind \in {"float", "double"} :
               \A j \in DOMAIN t.leaves : t.leaves[j].kind = kind
\* Passed as the address of a copy, returned through X8.
ByReference(t) == IsStruct(t) /\ ~Hfa(t) /\ t.size > 16

\* What a value needs: registers of one kind.
RegKind(t) == IF IsFloat(t) \/ Hfa(t) THEN "fp" ELSE "gp"
RegNeed(t) == CASE ByReference(t) -> 1
                [] Hfa(t)         -> Len(t.leaves)
                [] OTHER          -> Eightbytes(t)

\* Apple passes every variadic argument on the stack, and packs the others.
OnStack(os, sig, i) == os = "darwin" /\ sig.fixed > 0 /\ i > sig.fixed
StackAlign(os, sig, i) ==
  LET t == sig.args[i]
  IN  IF os = "darwin" /\ ~OnStack(os, sig, i) /\ ~IsStruct(t) THEN t.align ELSE 8
StackSize(os, sig, i) ==
  LET t == sig.args[i]
  IN  IF ByReference(t) THEN 8 ELSE AlignUp(t.size, StackAlign(os, sig, i))

Fits(os, sig, i, u) ==
  LET t == sig.args[i]
  IN  ~OnStack(os, sig, i) /\ u[RegKind(t)] + RegNeed(t) <= 8
StackStart(os, sig, i, u) == AlignUp(u.stack, StackAlign(os, sig, i))

\* Registers and bytes of stack used before each argument.  A value that does
\* not fit makes later values of its kind go to the stack, too.
Used(os, sig) ==
  LET used[i \in 1..(Len(sig.args) + 1)] ==
        IF i = 1 THEN [gp |-> 0, fp |-> 0, stack |-> 0]
        ELSE LET u == used[i - 1]
                 t == sig.args[i - 1]
             IN  IF Fits(os, sig, i - 1, u) THEN [u EXCEPT ![RegKind(t)] = @ + RegNeed(t)]
                 ELSE [u EXCEPT ![RegKind(t)] = IF OnStack(os, sig, i - 1) THEN @ ELSE 8,
                                !.stack = StackStart(os, sig, i - 1, u)
                                            + StackSize(os, sig, i - 1)]
  IN  used

\* The words argument i is passed as, in order.
Parts(i, t) ==
  CASE ByReference(t) -> <<AddressOf(i)>>
    [] Hfa(t)         -> [j \in DOMAIN t.leaves |-> Bytes(i, t.leaves[j].off, t.leaves[j].size)]
    [] OTHER          -> [j \in 1..Eightbytes(t) |-> Bytes(i, 8 * (j - 1), Left(t, j - 1))]

\* Where they are: register numbers from 1, stack offsets in bytes.  On the
\* stack a value lies as it does in memory.
Placed(os, sig, i) ==
  LET t == sig.args[i]
      u == Used(os, sig)[i]
  IN  IF Fits(os, sig, i, u)
      THEN [j \in DOMAIN Parts(i, t) |->
              [at |-> <<RegKind(t), u[RegKind(t)] + j>>, word |-> Parts(i, t)[j]]]
      ELSE [j \in DOMAIN Parts(i, t) |->
              [at |-> <<"stack", StackStart(os, sig, i, u) + Parts(i, t)[j].off>>,
               word |-> Parts(i, t)[j]]]

\* Some struct does not fit into the registers left for it.
Overflows(os, sig) ==
  \E i \in DOMAIN sig.args : IsStruct(sig.args[i]) /\ ~ByReference(sig.args[i])
                               /\ ~Fits(os, sig, i, Used(os, sig)[i])
\* Something on the stack is not at a multiple of eight bytes.
Packed(os, sig) ==
  \E i \in DOMAIN sig.args : \E j \in DOMAIN Placed(os, sig, i) :
    LET at == Placed(os, sig, i)[j].at IN at[1] = "stack" /\ at[2] % 8 # 0

\* What a function that returns a t leaves in the registers.
Returned(t, r) ==
  LET parts == Parts(0, t)
      regs == IF RegKind(t) = "fp" THEN <<"d0", "d1", "d2", "d3">> ELSE <<"x0", "x1">>
      here == {j \in DOMAIN parts : regs[j] = r}
  IN  IF t.kind = "void" \/ ByReference(t) \/ here = {} THEN Unset
      ELSE parts[CHOOSE j \in here : TRUE]
================================================================================
