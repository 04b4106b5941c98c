-------------------------------- MODULE SysVAbi --------------------------------
(***************************************************************************)
(* The System V AMD64 calling convention as a C compiler applies it: the   *)
(* reference the modules SysVCall and SysVCallback are compared with.  It  *)
(* is not part of goffi, whose sources refer to it by section.             *)
(***************************************************************************)
EXTENDS CTypes, FiniteSets

IntRegs == 6
SseRegs == 8

\* Aggregates of more than two eightbytes.
InMemory(t) == IsStruct(t) /\ t.size > 16

\* The class of eightbyte k: SSE when every scalar that overlaps it is a float,
\* however deep it is nested.
Class(t, k) ==
  IF IsStruct(t)
  THEN IF \A j \in DOMAIN t.leaves :
            t.leaves[j].off < 8 * k + 8 /\ LeafEnd(t, j) > 8 * k => IsFloat(t.leaves[j])
       THEN "sse" ELSE "int"
  ELSE IF IsFloat(t) THEN "sse" ELSE "int"

\* How many of the first k eightbytes have class c.
Count(t, k, c) == Cardinality({j \in 0..(k - 1) : Class(t, j) = c})

\* A value in registers is there as a whole, or all of it is on the stack.
Fits(t, u) == /\ ~InMemory(t)
              /\ u.int + Count(t, Eightbytes(t), "int") <= IntRegs
              /\ u.sse + Count(t, Eightbytes(t), "sse") <= SseRegs

\* What is used up after an argument of type t.
Use(t, u) ==
  IF Fits(t, u) THEN [u EXCEPT !.int = @ + Count(t, Eightbytes(t), "int"),
                               !.sse = @ + Count(t, Eightbytes(t), "sse")]
  ELSE [u EXCEPT !.stack = @ + Eightbytes(t)]

\* What is used up before each argument; a value returned in memory takes the
\* first integer register for its address.
Used(sig) ==
  LET used[i \in 1..(Len(sig.args) + 1)] ==
        IF i = 1 THEN [int |-> IF InMemory(sig.ret) THEN 1 ELSE 0, sse |-> 0, stack |-> 0]
        ELSE Use(sig.args[i - 1], used[i - 1])
  IN  used

\* The place of eightbyte k of argument i.
Place(sig, i, k) ==
  LET t == sig.args[i]
      u == Used(sig)[i]
      c == Class(t, k)
  IN  IF Fits(t, u) THEN <<c, u[c] + Count(t, k, c) + 1>>
      ELSE <<"stack", u.stack + k + 1>>

\* Some argument needs more registers than are left, and is not a scalar: the
\* rule a caller that assigns eightbytes one by one gets wrong.
Splits(sig) ==
  \E i \in DOMAIN sig.args :
    LET t == sig.args[i]
        u == Used(sig)[i]
    IN  /\ IsStruct(t) /\ ~InMemory(t) /\ ~Fits(t, u)
        /\ \E c \in {"int", "sse"} : /\ Count(t, Eightbytes(t), c) > 0
                                     /\ u[c] < IF c = "int" THEN IntRegs ELSE SseRegs

\* The register eightbyte k of a value is returned in.
ReturnReg(t, k) ==
  IF Class(t, k) = "int" THEN IF Count(t, k, "int") = 0 THEN "rax" ELSE "rdx"
                         ELSE IF Count(t, k, "sse") = 0 THEN "xmm0" ELSE "xmm1"
\* What a function that returns a t leaves in register r.
Returned(t, r) ==
  LET here == {k \in 0..(Eightbytes(t) - 1) : ReturnReg(t, k) = r}
  IN  IF InMemory(t) \/ t.kind = "void" \/ here = {} THEN Unset
      ELSE LET k == CHOOSE k \in here : TRUE IN Bytes(0, 8 * k, Left(t, k))
================================================================================
