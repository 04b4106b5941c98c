----------------------------- MODULE SysVRoundTrip -----------------------------
(***************************************************************************)
(* Go calls C and C calls Go, on System V AMD64.  SysVCall is goffi's      *)
(* caller, SysVCallback its callback dispatcher, and C in between follows  *)
(* SysVAbi: it looks for its arguments where the ABI puts them and may     *)
(* pass a value of each of their types on to a Go callback.  The function  *)
(* called may also be a goffi callback itself: then goffi meets goffi.     *)
(***************************************************************************)
EXTENDS SysVAbi, SysVCall, SysVCallback

VARIABLE callee  \* "c", or "go" when the function called is a callback

vars == <<callVars, cbVars, callee>>

TypeOK == CallTypeOK /\ CbTypeOK /\ callee \in {"c", "go"}
--------------------------------------------------------------------------------
Chunks(t) == 0..(Eightbytes(t) - 1)

\* The frame of a callback called by C: what the ABI puts at each place.
AbiFrame(s) ==
  LET used == Used(s)
      chunks == UNION {{i} \X Chunks(s.args[i]) : i \in DOMAIN s.args}
      carried == [p \in chunks |-> Place(s, p[1], p[2])]
      held(place) == LET here == {p \in DOMAIN carried : carried[p] = place}
                     IN  IF here = {} THEN Unset
                         ELSE LET p == CHOOSE p \in here : TRUE
                              IN  Bytes(p[1], 8 * p[2], Left(s.args[p[1]], p[2]))
  IN  [int |-> [j \in 1..6 |-> held(<<"int", j>>)],
       sse |-> [j \in 1..8 |-> held(<<"sse", j>>)],
       stack |-> [j \in 1..used[Len(s.args) + 1].stack |-> held(<<"stack", j>>)]]

\* C passes arguments of the same types to a callback.
CCallsBack == /\ phase = "inC" /\ callee = "c" /\ Callable(sig)
              /\ Dispatch(sig, AbiFrame(sig))
              /\ UNCHANGED <<callVars, callee>>
\* The call lands in the dispatcher with the registers Execute filled.
GoEntered == /\ phase = "inC" /\ callee = "go"
             /\ Dispatch(sig, [int |-> [j \in 1..6 |-> At(<<"int", j>>)],
                               sse |-> [j \in 1..8 |-> At(<<"sse", j>>)],
                               stack |-> [j \in 1..MaxStackSlots |-> At(<<"stack", j>>)]])
             /\ UNCHANGED <<callVars, callee>>

\* The C function returns a value of its type.
CReturns == /\ callee = "c" /\ cb \in {"idle", "returned"}
            /\ LeaveC([r \in RetRegs |-> Returned(sig.ret, r)])
            /\ UNCHANGED <<cbVars, callee>>
GoReturns == /\ callee = "go" /\ cb = "returned"
             /\ LeaveC([r \in RetRegs |-> CallbackRegs(r)])
             /\ UNCHANGED <<cbVars, callee>>

Init == /\ CallInit /\ CbInit(sig)
        /\ callee \in IF Callable(sig) THEN {"c", "go"} ELSE {"c"}
Next == \/ CallNext /\ UNCHANGED <<cbVars, callee>>
        \/ CbNext /\ UNCHANGED <<callVars, callee>>
        \/ CCallsBack \/ GoEntered \/ CReturns \/ GoReturns
Spec == Init /\ [][Next]_vars
--------------------------------------------------------------------------------
(* What arrives.                                                            *)

Has(kind, s) == \E i \in DOMAIN s.args : s.args[i].kind = kind

\* A nested struct in t keeps the class of an eightbyte from a walk over the
\* members: the eightbyte is SSE although a member in it is not a float, or the
\* nested struct reaches into it from the one before.
Hides(t) ==
  /\ IsStruct(t) /\ ~InMemory(t)
  /\ \E k \in Chunks(t), i \in DOMAIN t.members :
       LET off == Offset(t.members, i)
       IN  /\ IsStruct(t.members[i])
           /\ off < 8 * k + 8 /\ off + t.members[i].size > 8 * k
           /\ Class(t, k) = "sse" \/ off < 8 * k
HidesSmall(t) == Hides(t) /\ t.size <= 8
HidesPair(t) == Hides(t) /\ t.size > 8
None(P(_), s) == \A i \in DOMAIN s.args : ~P(s.args[i])

\* C finds every argument of a Go-to-C call where its ABI looks for it, except
\* when a struct is split between registers and stack (which the ABI never
\* does), a nested struct hides the class of an eightbyte (which Execute takes
\* for INTEGER), or a C int is passed as IntType (whose address is passed).
ArgsArrive ==
  phase = "inC" /\ ~Splits(sig) /\ None(Hides, sig) /\ ~Has("int", sig) =>
    \A i \in DOMAIN sig.args : \A k \in Chunks(sig.args[i]) :
      Carries(At(Place(sig, i, k)), i, sig.args[i], k)

\* A prepared call does not run out of stack slots, which would be a panic and
\* not an error (true of what classifyArgumentAMD64 counts, that is without
\* structs passed or returned in memory).
PreparedCallFits ==
  phase = "panic" => Sret \/ \E i \in DOMAIN sig.args : InMemory(sig.args[i])

\* PrepareCallInterface and Execute agree on what fits: a prepared call fits, and
\* nothing is rejected that would have fitted, had no nested struct hidden a class.
AcceptanceIsExact ==
  /\ PreparedCallFits
  /\ phase = "rejected" /\ None(Hides, sig) =>
       Used(sig)[Len(sig.args) + 1].stack > MaxStackSlots

\* rvalue holds what C returned.  A struct of at most 8 bytes made of floats
\* comes back in XMM0 and is looked for in RAX, as are the eightbytes of a larger
\* one that a nested struct hides; IntType is refused.
ResultArrives ==
  phase = "done" /\ callee = "c" /\ sig.ret.kind # "void" /\ ~InMemory(sig.ret)
      /\ ~(IsStruct(sig.ret) /\ sig.ret.size <= 8 /\ Class(sig.ret, 0) = "sse")
      /\ ~HidesPair(sig.ret) =>
    \A k \in Chunks(sig.ret) :
      \E w \in result : w.off = 8 * k /\ w.n >= Left(sig.ret, k)
                        /\ Carries(w.word, 0, sig.ret, k)

\* A Go callback called by C sees the arguments C passed, except when the ABI
\* passed a struct whole on the stack that callbackWrap looks for in pieces, a
\* nested struct hides the class of one of two eightbytes, or an argument is a
\* float32.  A struct of one eightbyte may be nested: isStructAllFloats recurses.
CallbackSeesArgs ==
  cb = "run" /\ callee = "c" /\ ~Splits(cbType) /\ None(HidesPair, cbType)
      /\ ~Has("float", cbType) =>
    \A i \in DOMAIN got : \A k \in Chunks(cbType.args[i]) :
      Carries(got[i][k + 1], i, cbType.args[i], k)

\* Both sides of goffi agree with each other also where they do not agree with
\* the ABI: a Go callback called through CallFunction sees its arguments, split
\* structs and two eightbytes with a hidden class included, and its integer or
\* pointer result is in rvalue, through a.result, RAX and handleReturn.  They
\* disagree on one eightbyte of floats with a struct in it, which Execute puts
\* into an integer register and callbackWrap reads from an XMM one.
SelfCallAgrees ==
  /\ cb = "run" /\ callee = "go" /\ None(HidesSmall, cbType) /\ ~Has("float", cbType) =>
       \A i \in DOMAIN got : \A k \in Chunks(cbType.args[i]) :
         Carries(got[i][k + 1], i, cbType.args[i], k)
  /\ phase = "done" /\ callee = "go" /\ sig.ret.kind # "void" /\ ~IsFloat(sig.ret) =>
       \E w \in result : w.off = 0 /\ Carries(w.word, 0, sig.ret, 0)
================================================================================
