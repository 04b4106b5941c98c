----------------------------- MODULE Arm64RoundTrip -----------------------------
(***************************************************************************)
(* Go calls C and C calls Go, on arm64.  Arm64Call is goffi's caller,      *)
(* Arm64Callback its callback dispatcher, and C in between follows         *)
(* Aapcs64Abi: it looks for its arguments where the ABI puts them and may  *)
(* pass values of the same types on to a Go callback.  The function called *)
(* may also be a goffi callback itself: then goffi meets goffi.            *)
(***************************************************************************)
EXTENDS Aapcs64Abi, Arm64Call, Arm64Callback

VARIABLE callee  \* "c", or "go" when the function called is a callback

vars == <<callVars, cbVars, callee>>

TypeOK == CallTypeOK /\ CbTypeOK /\ callee \in {"c", "go"}
--------------------------------------------------------------------------------
\* The j-th register, or eight bytes of the stack.
Nth(kind, j) == <<kind, IF kind = "stack" THEN 8 * (j - 1) ELSE j>>

\* The frame of a callback called by C: what the ABI puts at each place.
AbiFrame(s) ==
  LET used == Used(os, s)
      parts == UNION {{Placed(os, s, i)[j] : j \in DOMAIN Placed(os, s, i)} : i \in DOMAIN s.args}
      held(at) == LET here == {p \in parts : p.at = at}
                  IN  IF here = {} THEN Unset ELSE (CHOOSE p \in here : TRUE).word
      slots == (used[Len(s.args) + 1].stack + 7) \div 8
  IN  [gp |-> [j \in 1..8 |-> held(Nth("gp", j))],
       fp |-> [j \in 1..8 |-> held(Nth("fp", j))],
       stack |-> [j \in 1..slots |-> held(Nth("stack", j))]]

\* C passes arguments of the same types to a callback.
CCallsBack == /\ phase = "inC" /\ callee = "c" /\ Callable(sig)
              /\ Dispatch(sig, AbiFrame(sig))
              /\ UNCHANGED <<callVars, callee>>
\* The call lands in the dispatcher with the registers Execute filled.
GoEntered == /\ phase = "inC" /\ callee = "go"
             /\ Dispatch(sig, [gp |-> [j \in 1..8 |-> At(Nth("gp", j))],
                               fp |-> [j \in 1..8 |-> At(Nth("fp", j))],
                               stack |-> [j \in 1..7 |-> At(Nth("stack", j))]])
             /\ UNCHANGED <<callVars, callee>>

\* The C function returns a value of its type.
CReturns == /\ callee = "c" /\ cb \in {"idle", "returned"}
            /\ LeaveC([r \in RetRegs |-> Returned(sig.ret, r)])
            /\ UNCHANGED <<cbVars, callee>>
GoReturns == /\ callee = "go" /\ cb = "returned"
             /\ LeaveC([r \in RetRegs |-> CallbackRegs(r)])
             /\ UNCHANGED <<cbVars, callee>>

Init == /\ CallInit /\ CbInit(sig)
        /\ callee \in IF Callable(sig) THEN {"c", "go"} ELSE {"c"}
Next == \/ CallNext /\ UNCHANGED <<cbVars, callee>>
        \/ CbNext /\ UNCHANGED <<callVars, callee>>
        \/ CCallsBack \/ GoEntered \/ CReturns \/ GoReturns
Spec == Init /\ [][Next]_vars
--------------------------------------------------------------------------------
(* What arrives.                                                            *)

\* Word w has all the scalars of a t that lie in its part p; not the padding.
Delivers(w, p, t) ==
  /\ w.is = p.is /\ w.arg = p.arg /\ w.off = p.off
  /\ \A j \in DOMAIN t.leaves :
       t.leaves[j].off \in p.off..(p.off + p.len - 1) =>
         LeafEnd(t, j) <= w.off + w.len

\* A struct of at most 16 bytes that is no homogeneous aggregate, with floats
\* that share their eight bytes with nothing else: countStructRegUsage and
\* placeStructRegisters give those to FP registers.
Small(t) == IsStruct(t) /\ ~Hfa(t) /\ t.size <= 16
FloatsApart(t) ==
  /\ Small(t)
  /\ \E k \in 0..1 : LET here == {j \in DOMAIN t.leaves : t.leaves[j].off \div 8 = k}
                     IN  here # {} /\ \A j \in here : IsFloat(t.leaves[j])
\* One with more room before a scalar than its alignment asks for: the padding at
\* the end of a nested struct, which the two walks do not count.
Lags(t) ==
  /\ Small(t)
  /\ \E j \in DOMAIN t.leaves :
       t.leaves[j].off # AlignUp(IF j = 1 THEN 0 ELSE LeafEnd(t, j - 1), t.leaves[j].size)
\* What goffi passes in another way than the ABI, whatever comes before it.
Unlike(t) == \/ FloatsApart(t) \/ Lags(t)
             \/ ~ByReference(t) /\ \E j \in DOMAIN t.leaves : Unknown(t.leaves[j])

\* Signatures on which Execute's rules are those of the ABI.
Agreed(s) == ~Overflows(os, s) /\ ~Packed(os, s) /\ \A i \in DOMAIN s.args : ~Unlike(s.args[i])

\* What preparePlatformSpecific counts for the arguments before each, and whether
\* by that count some homogeneous aggregate is too late for FP registers.
Counted(s) ==
  LET counted[i \in 1..(Len(s.args) + 1)] ==
        IF i = 1 THEN [gp |-> 0, fp |-> 0]
        ELSE LET n == counted[i - 1]
                 c == Classify(s.args[i - 1])
             IN  [gp |-> n.gp + c.gp, fp |-> n.fp + c.fp]
  IN  counted
Spills(s) == \E i \in DOMAIN s.args :
               IsHFA(s.args[i]) /\ Counted(s)[i].fp + Len(s.args[i].leaves) > 8

\* A function finds every value given to a call where its ABI looks for it:
\* homogeneous aggregates, nested ones too, in D registers, other small structs
\* in X registers, large ones by address, Apple's variadic arguments each in a
\* stack slot of its own, X8 for a large result.  Not so (Agreed) for a struct
\* with floats of its own or padding in the middle, a struct that does not fit into
\* the registers left, a C int passed as IntType, narrow arguments Apple packs; nor
\* when the slots run out, which AcceptedCallFits is about.
ArgsArrive ==
  phase = "inC" =>
    /\ ViaPointer(sig.ret) = ByReference(sig.ret)
    /\ ByReference(sig.ret) => At(<<"x8", 1>>) = AddressOf(0)
    /\ Agreed(sig) /\ dropped = {} =>
         \A i \in Values : \A j \in DOMAIN Placed(os, sig, i) :
           Delivers(At(Placed(os, sig, i)[j].at), Placed(os, sig, i)[j].word, sig.args[i])

\* preparePlatformSpecific counts with 6 integer registers and 9 stack slots,
\* the stub has 8 and 7.  An accepted call still never loses a value, if it
\* uses the integer registers up or has no more floats than registers and
\* slots together, and no homogeneous aggregate is cut up for the stack (Apple's
\* variadic calls are not counted as what they are); and where goffi's rules are
\* those of the ABI nothing is rejected that would have fitted.
AcceptedCallFits ==
  /\ dropped # {} => \/ totals.gp < 8 /\ totals.fp > 15
                     \/ os = "darwin" /\ sig.fixed > 0
                     \/ Spills(sig)
  /\ phase = "rejected" /\ Agreed(sig) =>
       Used(os, sig)[Len(sig.args) + 1].stack > 8 * 7

\* rvalue holds what C returned, except for a struct of a single float, which
\* comes back in D0 and is looked for in X0.
ResultArrives ==
  phase = "done" /\ callee = "c" /\ sig.ret.kind # "void" /\ ~ByReference(sig.ret)
      /\ ~(Hfa(sig.ret) /\ Len(sig.ret.leaves) = 1) =>
    \A j \in DOMAIN Parts(0, sig.ret) :
      \E w \in result : /\ w.off = Parts(0, sig.ret)[j].off /\ w.n >= Parts(0, sig.ret)[j].len
                        /\ Delivers(w.word, Parts(0, sig.ret)[j], sig.ret)

HasFloat(s) == \E i \in DOMAIN s.args : s.args[i].kind = "float"
\* A Go callback sees what its caller passed, whether that is C or goffi's own
\* caller, however many arguments are on the stack, except for float32.
CallbackSeesArgs ==
  cb = "run" /\ ~HasFloat(cbType) /\ ~Packed(os, cbType) /\ dropped = {} =>
    \A i \in DOMAIN got : Delivers(got[i], Parts(i, cbType.args[i])[1], cbType.args[i])
================================================================================
