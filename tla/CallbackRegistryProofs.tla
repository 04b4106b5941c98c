------------------------- MODULE CallbackRegistryProofs -------------------------
(***************************************************************************)
(* Proofs about CallbackRegistry, for every number of goroutines, threads, *)
(* functions, trampolines and nested callbacks: the state keeps its types, *)
(* and a pointer always reaches the function it was made for.              *)
(***************************************************************************)
EXTENDS CallbackRegistry, SequenceTheorems, TLAPS

\* What holds of every frame f of a: who is between Lock and Unlock owns the
\* mutex; an index that was checked is the next one and is free; an index below
\* count keeps its function.
FrameOK(a, f) ==
  /\ f.pc \in {"check", "store", "regReturn", "panic", "fetch"} => mu = a
  /\ f.pc \in {"regLock", "check", "store", "regReturn"} => f.fn \in Functions
  /\ f.pc = "store" => f.index = count /\ count < MaxCallbacks
  /\ f.pc = "regReturn" => f.index \in 0..(count - 1) /\ funcs[f.index] = f.fn
  /\ f.pc \in {"wrapLock", "fetch", "run"} => f.index \in 0..(count - 1) /\ f.ptr = f.index * 5
  /\ f.pc = "run" => f.fn = funcs[f.index]
Frames == \A a \in Actors : \A d \in 1..Len(stack[a]) : FrameOK(a, stack[a][d])

\* Only the innermost frame is anything but a Go function that called C.
BelowRuns == \A a \in Actors : \A d \in 1..(Len(stack[a]) - 1) : stack[a][d].pc = "run"

\* Every pointer given out is a registered function's.
GivenAreRegistered ==
  \A p \in given : \E i \in 0..(count - 1) : p = <<i * 5, funcs[i]>>

IInv == TypeOK /\ Frames /\ BelowRuns /\ GivenAreRegistered
--------------------------------------------------------------------------------
(* What the stack operations do to the frames.                              *)

\* Append adds a frame on top and leaves the others.
LEMMA PushFrames ==
  ASSUME stack \in [Actors -> Seq(Frame)], NEW a \in Actors, NEW f \in Frame, Push(a, f)
  PROVE  /\ stack' \in [Actors -> Seq(Frame)]
         /\ Len(stack'[a]) = Len(stack[a]) + 1
         /\ stack'[a][Len(stack[a]) + 1] = f
         /\ \A d \in 1..Len(stack[a]) : stack'[a][d] = stack[a][d]
         /\ \A b \in Actors \ {a} : stack'[b] = stack[b]
  BY DEF Push

\* A sequence without its last element.
LEMMA FrontOfSeq ==
  ASSUME NEW S, NEW s \in Seq(S), Len(s) > 0, NEW t, t = SubSeq(s, 1, Len(s) - 1)
  PROVE  t \in Seq(S) /\ Len(t) = Len(s) - 1 /\ \A d \in 1..(Len(s) - 1) : t[d] = s[d]
  <1> DEFINE n == Len(s) - 1
  <1>1. n \in Nat /\ 1 \in Int /\ \A i \in 1..n : s[i] \in S  OBVIOUS
  <1> HIDE DEF n
  <1>2. /\ t \in Seq(S)
        /\ Len(t) = IF 1 <= n THEN n - 1 + 1 ELSE 0
        /\ \A i \in 1..(n - 1 + 1) : t[i] = s[1 + i - 1]
    <2>1. t = SubSeq(s, 1, n)  BY DEF n
    <2> QED  BY <1>1, <2>1, SubSeqProperties
  <1>3. Len(t) = n  BY <1>1, <1>2
  <1>4. ASSUME NEW d \in 1..n PROVE t[d] = s[d]
    <2>1. d \in 1..(n - 1 + 1) /\ 1 + d - 1 = d  BY <1>1
    <2> QED  BY <1>2, <2>1
  <1> QED  BY <1>2, <1>3, <1>4 DEF n

\* SubSeq takes the top frame away.
LEMMA PopFrames ==
  ASSUME stack \in [Actors -> Seq(Frame)], NEW a \in Actors, Depth(a) > 0, Pop(a)
  PROVE  /\ stack' \in [Actors -> Seq(Frame)]
         /\ Len(stack'[a]) = Len(stack[a]) - 1
         /\ \A d \in 1..(Len(stack[a]) - 1) : stack'[a][d] = stack[a][d]
         /\ \A b \in Actors \ {a} : stack'[b] = stack[b]
  <1>1. stack[a] \in Seq(Frame) /\ Len(stack[a]) > 0  BY DEF Depth
  <1>2. PICK s \in Seq(Frame) : s = stack[a]  BY <1>1
  <1>3. PICK t : t = SubSeq(s, 1, Len(s) - 1)  OBVIOUS
  <1>4. t \in Seq(Frame) /\ Len(t) = Len(s) - 1 /\ \A d \in 1..(Len(s) - 1) : t[d] = s[d]
    <2>1. Len(s) > 0  BY <1>1, <1>2
    <2> QED  BY <1>3, <2>1, FrontOfSeq
  <1>5. stack' = [stack EXCEPT ![a] = t]  BY <1>2, <1>3 DEF Pop
  <1> QED  BY <1>2, <1>4, <1>5

\* The top frame is replaced.
LEMMA BecomeFrames ==
  ASSUME stack \in [Actors -> Seq(Frame)], NEW a \in Actors, NEW f \in Frame,
         Depth(a) > 0, Become(a, f)
  PROVE  /\ stack' \in [Actors -> Seq(Frame)]
         /\ Len(stack'[a]) = Len(stack[a])
         /\ stack'[a][Len(stack[a])] = f
         /\ \A d \in 1..(Len(stack[a]) - 1) : stack'[a][d] = stack[a][d]
         /\ \A b \in Actors \ {a} : stack'[b] = stack[b]
  BY DEF Become, Depth
--------------------------------------------------------------------------------
(* The invariant is inductive.                                              *)

\* The initial state satisfies the invariant.
LEMMA InitEstablishes == Init => IInv
  <1> SUFFICES ASSUME Init PROVE IInv  OBVIOUS
  <1>1. TypeOK  BY MaxAssumption DEF Init, TypeOK, Indices
  <1>2. \A a \in Actors : Len(stack[a]) = 0  BY DEF Init
  <1> QED  BY <1>1, <1>2 DEF IInv, Frames, BelowRuns, GivenAreRegistered, Init

\* A frame on the stack is a Frame, and one below the top a running function.
LEMMA FrameTypes ==
  ASSUME IInv, NEW a \in Actors
  PROVE  /\ Len(stack[a]) \in Nat
         /\ \A d \in 1..Len(stack[a]) : stack[a][d] \in Frame /\ FrameOK(a, stack[a][d])
         /\ \A d \in 1..(Len(stack[a]) - 1) : stack[a][d].pc = "run"
         /\ Depth(a) > 0 => Top(a) \in Frame /\ FrameOK(a, Top(a))
  BY DEF IInv, TypeOK, Frames, BelowRuns, Depth, Top

\* A frame is pushed by somebody who runs Go code or C code: the registry stays
\* as it is.
LEMMA PushPreserves ==
  ASSUME IInv, NEW a \in Actors, NEW f \in Frame, Push(a, f), FrameOK(a, f),
         InGo(a) \/ InC(a), UNCHANGED <<mu, funcs, count, given>>
  PROVE  IInv'
  <1>1. stack \in [Actors -> Seq(Frame)]  BY DEF IInv, TypeOK
  <1>2. /\ stack' \in [Actors -> Seq(Frame)]
        /\ Len(stack'[a]) = Len(stack[a]) + 1
        /\ stack'[a][Len(stack[a]) + 1] = f
        /\ \A d \in 1..Len(stack[a]) : stack'[a][d] = stack[a][d]
        /\ \A b \in Actors \ {a} : stack'[b] = stack[b]
    BY <1>1, PushFrames
  <1>3. Len(stack[a]) > 0 => stack[a][Len(stack[a])].pc = "run"
    BY DEF InGo, InC, At, Top, Depth
  <1>4. TypeOK'  BY <1>2 DEF IInv, TypeOK
  <1>5. Frames'
    <2> SUFFICES ASSUME NEW b \in Actors, NEW d \in 1..Len(stack'[b])
                 PROVE  FrameOK(b, stack[b][d])'
      BY DEF Frames
    <2>1. (stack'[b][d] = f /\ b = a) \/ (d \in 1..Len(stack[b]) /\ stack'[b][d] = stack[b][d])
      <3>1. CASE b # a
        BY <1>2, <3>1
      <3>2. CASE b = a
        <4>1. PICK n : n = Len(stack[a])
          OBVIOUS
        <4>2. n \in Nat /\ d \in 1..(n + 1)
          BY <1>1, <1>2, <3>2, <4>1
        <4>3. d = n + 1 \/ d \in 1..n
          BY <4>2
        <4> QED BY <1>2, <3>2, <4>1, <4>3
      <3> QED BY <3>1, <3>2
    <2>2. PICK z : z = stack'[b][d]
      OBVIOUS
    <2>3. FrameOK(b, z)
      BY <2>1, <2>2, FrameTypes
    <2>4. FrameOK(b, z)'
      BY <2>3 DEF FrameOK
    <2> QED  BY <2>2, <2>4
  <1>6. BelowRuns'
    <2> SUFFICES ASSUME NEW b \in Actors, NEW d \in 1..(Len(stack'[b]) - 1)
                 PROVE  stack'[b][d].pc = "run"
      BY DEF BelowRuns
    <2>1. CASE b # a
      <3>1. stack'[b] = stack[b]
        BY <1>2, <2>1
      <3>2. d \in 1..(Len(stack[b]) - 1)
        BY <3>1
      <3>3. stack[b][d].pc = "run"
        BY <3>2, FrameTypes
      <3> QED BY <3>1, <3>3
    <2>2. CASE b = a
      <3>1. PICK n : n = Len(stack[a])
        OBVIOUS
      <3>2. PICK m : m = Len(stack'[b])
        OBVIOUS
      <3>3. n \in Nat /\ m = n + 1 /\ d \in 1..(m - 1)
        BY <1>1, <1>2, <2>2, <3>1, <3>2
      <3>4. d \in 1..n /\ ((d = n /\ n > 0) \/ d \in 1..(n - 1))
        BY <3>3
      <3>5. stack'[b][d] = stack[a][d]
        BY <1>2, <2>2, <3>1, <3>4
      <3>6. d = n => stack[a][d].pc = "run"
        BY <1>3, <3>1, <3>4
      <3>7. d \in 1..(n - 1) => stack[a][d].pc = "run"
        BY <3>1, FrameTypes
      <3> QED BY <3>4, <3>5, <3>6, <3>7
    <2> QED BY <2>1, <2>2
  <1>7. GivenAreRegistered'  BY DEF IInv, GivenAreRegistered
  <1> QED  BY <1>4, <1>5, <1>6, <1>7 DEF IInv

\* A step that changes the top frame of a, or the registry, keeps the frames in
\* order if it does so for the new top, for a's callbacks below it and for any
\* frame of the others.
LEMMA BecomePreserves ==
  ASSUME IInv, NEW a \in Actors, NEW f \in Frame, Depth(a) > 0, Become(a, f),
         FrameOK(a, f)',
         \A g \in Frame : g.pc = "run" /\ FrameOK(a, g) => FrameOK(a, g)',
         \A b \in Actors \ {a} : \A g \in Frame : FrameOK(b, g) => FrameOK(b, g)'
  PROVE  stack' \in [Actors -> Seq(Frame)] /\ Frames' /\ BelowRuns'
  <1>1. stack \in [Actors -> Seq(Frame)]  BY DEF IInv, TypeOK
  <1>2. /\ stack' \in [Actors -> Seq(Frame)]
        /\ Len(stack'[a]) = Len(stack[a])
        /\ stack'[a][Len(stack[a])] = f
        /\ \A d \in 1..(Len(stack[a]) - 1) : stack'[a][d] = stack[a][d]
        /\ \A b \in Actors \ {a} : stack'[b] = stack[b]
    BY <1>1, BecomeFrames
  <1>3. Frames'
    <2> SUFFICES ASSUME NEW b \in Actors, NEW d \in 1..Len(stack'[b])
                 PROVE  FrameOK(b, stack[b][d])'
      BY DEF Frames
    <2>1. CASE b # a
      <3>1. stack'[b][d] = stack[b][d] /\ d \in 1..Len(stack[b])  BY <1>2, <2>1
      <3>2. stack[b][d] \in Frame /\ FrameOK(b, stack[b][d])  BY <3>1, FrameTypes
      <3>3. PICK g \in Frame : g = stack[b][d] /\ FrameOK(b, g)  BY <3>2
      <3> QED  BY <2>1, <3>1, <3>3 DEF FrameOK
    <2>2. CASE b = a /\ d = Len(stack[a])
      BY <1>2, <2>2 DEF FrameOK
    <2>3. CASE b = a /\ d # Len(stack[a])
      <3>1. d \in 1..(Len(stack[a]) - 1)  BY <1>2, <2>3, FrameTypes
      <3>2. PICK g \in Frame : g = stack[a][d] /\ g.pc = "run" /\ FrameOK(a, g)
        BY <3>1, FrameTypes
      <3>3. stack'[a][d] = g  BY <1>2, <3>1, <3>2
      <3>4. FrameOK(a, g)'  BY <3>2
      <3> QED  BY <2>3, <3>3, <3>4 DEF FrameOK
    <2> QED  BY <2>1, <2>2, <2>3
  <1>4. BelowRuns'  BY <1>2, FrameTypes DEF BelowRuns
  <1> QED  BY <1>2, <1>3, <1>4

\* The same for a step that ends the top frame of a.
LEMMA PopPreserves ==
  ASSUME IInv, NEW a \in Actors, Depth(a) > 0, Pop(a),
         \A g \in Frame : g.pc = "run" /\ FrameOK(a, g) => FrameOK(a, g)',
         \A b \in Actors \ {a} : \A g \in Frame : FrameOK(b, g) => FrameOK(b, g)'
  PROVE  stack' \in [Actors -> Seq(Frame)] /\ Frames' /\ BelowRuns'
  <1>1. stack \in [Actors -> Seq(Frame)]  BY DEF IInv, TypeOK
  <1>2. /\ stack' \in [Actors -> Seq(Frame)]
        /\ Len(stack'[a]) = Len(stack[a]) - 1
        /\ \A d \in 1..(Len(stack[a]) - 1) : stack'[a][d] = stack[a][d]
        /\ \A b \in Actors \ {a} : stack'[b] = stack[b]
    BY <1>1, PopFrames
  <1>3. Frames'
    <2> SUFFICES ASSUME NEW b \in Actors, NEW d \in 1..Len(stack'[b])
                 PROVE  FrameOK(b, stack[b][d])'
      BY DEF Frames
    <2>1. CASE b # a
      <3>1. stack'[b][d] = stack[b][d] /\ d \in 1..Len(stack[b])  BY <1>2, <2>1
      <3>2. PICK g \in Frame : g = stack[b][d] /\ FrameOK(b, g)  BY <3>1, FrameTypes
      <3> QED  BY <2>1, <3>1, <3>2 DEF FrameOK
    <2>2. CASE b = a
      <3>1. d \in 1..(Len(stack[a]) - 1)  BY <1>2, <2>2
      <3>2. PICK g \in Frame : g = stack[a][d] /\ g.pc = "run" /\ FrameOK(a, g)
        BY <3>1, FrameTypes
      <3>3. stack'[a][d] = g  BY <1>2, <3>1, <3>2
      <3>4. FrameOK(a, g)'  BY <3>2
      <3> QED  BY <2>2, <3>3, <3>4 DEF FrameOK
    <2> QED  BY <2>1, <2>2
  <1>4. BelowRuns'  BY <1>2, FrameTypes DEF BelowRuns
  <1> QED  BY <1>2, <1>3, <1>4
--------------------------------------------------------------------------------
(* Every action preserves it.                                               *)

LEMMA NewCallbackStep ==
  ASSUME IInv, NEW a \in Actors, NewCallback(a)
  PROVE  IInv'
  <1>1. PICK f \in Functions : Push(a, [pc |-> "regLock", fn |-> f, index |-> 0, ptr |-> 0])
    BY DEF NewCallback
  <1>2. PICK r : r = [pc |-> "regLock", fn |-> f, index |-> 0, ptr |-> 0]  OBVIOUS
  <1>3. r \in Frame /\ FrameOK(a, r)  BY <1>2 DEF Frame, FrameOK
  <1> QED  BY <1>1, <1>2, <1>3, PushPreserves DEF NewCallback

LEMMA CCallsBackStep ==
  ASSUME IInv, NEW a \in Actors, CCallsBack(a)
  PROVE  IInv'
  <1>1. PICK p \in given : Push(a, [pc |-> "wrapLock", fn |-> None,
                                    index |-> IndexOf(p[1] + EntrySize), ptr |-> p[1]])
    BY DEF CCallsBack
  <1>2. PICK i \in 0..(count - 1) : p = <<i * 5, funcs[i]>>
    BY DEF IInv, GivenAreRegistered
  <1>3. p[1] = i * 5 /\ i \in Int  BY <1>2
  <1>4. (i * 5 + 5) \div 5 - 1 = i  BY <1>3
  <1>5. IndexOf(p[1] + EntrySize) = i  BY <1>3, <1>4 DEF IndexOf, EntrySize
  <1>6. PICK r : r = [pc |-> "wrapLock", fn |-> None, index |-> i, ptr |-> i * 5]  OBVIOUS
  <1>7. r \in Frame /\ FrameOK(a, r)  BY <1>6 DEF Frame, FrameOK
  <1>8. Push(a, r)  BY <1>1, <1>3, <1>5, <1>6
  <1> QED  BY <1>7, <1>8, PushPreserves DEF CCallsBack

LEMMA RegLockStep ==
  ASSUME IInv, NEW a \in Actors, RegLock(a)
  PROVE  IInv'
  <1>1. Depth(a) > 0 /\ Top(a).pc = "regLock" /\ mu = None /\ mu' = a
        /\ UNCHANGED <<funcs, count, given>>
    BY DEF RegLock, At
  <1>2. PICK r : r = [Top(a) EXCEPT !.pc = "check"]  OBVIOUS
  <1>3. Become(a, r)  BY <1>2 DEF RegLock, Goto
  <1>4. r \in Frame /\ FrameOK(a, r)'  BY <1>1, <1>2, FrameTypes DEF Frame, FrameOK
  <1>5. \A g \in Frame : g.pc = "run" /\ FrameOK(a, g) => FrameOK(a, g)'
    BY <1>1 DEF FrameOK
  <1>6. \A b \in Actors \ {a} : \A g \in Frame : FrameOK(b, g) => FrameOK(b, g)'
    BY <1>1, ActorsAssumption DEF FrameOK, Actors
  <1>7. stack' \in [Actors -> Seq(Frame)] /\ Frames' /\ BelowRuns'
    BY <1>1, <1>3, <1>4, <1>5, <1>6, BecomePreserves
  <1> QED  BY <1>1, <1>7 DEF IInv, TypeOK, GivenAreRegistered

LEMMA RegCheckStep ==
  ASSUME IInv, NEW a \in Actors, RegCheck(a)
  PROVE  IInv'
  <1>1. Depth(a) > 0 /\ Top(a).pc = "check" /\ UNCHANGED <<mu, funcs, count, given>>
    BY DEF RegCheck, At
  <1>2. PICK r : r = IF Full THEN [Top(a) EXCEPT !.pc = "panic"]
                     ELSE [Top(a) EXCEPT !.pc = "store", !.index = count]
    OBVIOUS
  <1>3. Become(a, r)  BY <1>2 DEF RegCheck, Goto
  <1>4. r \in Frame /\ FrameOK(a, r)'
    <2>1. count \in Nat /\ MaxCallbacks \in Nat  BY MaxAssumption DEF IInv, TypeOK
    <2>2. Top(a) \in Frame /\ FrameOK(a, Top(a))  BY <1>1, FrameTypes
    <2>3. mu = a /\ Top(a).fn \in Functions  BY <1>1, <2>2 DEF FrameOK
    <2>4. CASE Full
      <3>1. r = [Top(a) EXCEPT !.pc = "panic"]  BY <1>2, <2>4
      <3>2. r \in Frame /\ r.pc = "panic"  BY <2>2, <3>1 DEF Frame
      <3> QED  BY <1>1, <2>3, <3>2 DEF FrameOK
    <2>5. CASE ~Full
      <3>1. r = [Top(a) EXCEPT !.pc = "store", !.index = count]  BY <1>2, <2>5
      <3>2. PICK t \in Frame : t = Top(a)  BY <2>2
      <3>3. r = [t EXCEPT !.pc = "store", !.index = count]  BY <3>1, <3>2
      <3>4. r = [pc |-> "store", fn |-> t.fn, index |-> count, ptr |-> t.ptr]
        BY <3>3 DEF Frame
      <3>5. r \in Frame  BY <2>1, <3>4 DEF Frame
      <3>6. count < MaxCallbacks  BY <2>1, <2>5 DEF Full
      <3> QED  BY <1>1, <2>3, <3>2, <3>4, <3>5, <3>6 DEF FrameOK
    <2> QED  BY <2>4, <2>5
  <1>5. \A b \in Actors : \A g \in Frame : FrameOK(b, g) => FrameOK(b, g)'
    BY <1>1 DEF FrameOK
  <1>6. stack' \in [Actors -> Seq(Frame)] /\ Frames' /\ BelowRuns'
    BY <1>1, <1>3, <1>4, <1>5, BecomePreserves
  <1> QED  BY <1>1, <1>6 DEF IInv, TypeOK, GivenAreRegistered

LEMMA RegStoreStep ==
  ASSUME IInv, NEW a \in Actors, RegStore(a)
  PROVE  IInv'
  <1>1. /\ Depth(a) > 0 /\ Top(a).pc = "store" /\ count' = count + 1
        /\ funcs' = [funcs EXCEPT ![Top(a).index] = Top(a).fn] /\ UNCHANGED <<mu, given>>
    BY DEF RegStore, At
  <1>2. PICK r : r = [Top(a) EXCEPT !.pc = "regReturn"]  OBVIOUS
  <1>3. Become(a, r)  BY <1>2 DEF RegStore, Goto
  <1>4. /\ count \in Nat /\ count < MaxCallbacks /\ MaxCallbacks \in Nat
        /\ funcs \in [0..(MaxCallbacks - 1) -> Functions \cup {None}] /\ mu = a
        /\ Top(a).index = count /\ Top(a).fn \in Functions /\ Top(a) \in Frame
    BY <1>1, FrameTypes, MaxAssumption DEF IInv, TypeOK, Indices, FrameOK
  <1>5. /\ count \in 0..(MaxCallbacks - 1)
        /\ funcs' \in [0..(MaxCallbacks - 1) -> Functions \cup {None}]
        /\ funcs'[count] = Top(a).fn
        /\ \A i \in 0..(count - 1) : i \in 0..(count' - 1) /\ funcs'[i] = funcs[i]
    BY <1>1, <1>4
  <1>6. r \in Frame /\ FrameOK(a, r)'  BY <1>1, <1>2, <1>4, <1>5 DEF Frame, FrameOK
  <1>7. \A g \in Frame : g.pc = "run" /\ FrameOK(a, g) => FrameOK(a, g)'
    BY <1>1, <1>5 DEF FrameOK
  <1>8. \A b \in Actors \ {a} : \A g \in Frame : FrameOK(b, g) => FrameOK(b, g)'
    BY <1>1, <1>4, <1>5 DEF FrameOK
  <1>9. stack' \in [Actors -> Seq(Frame)] /\ Frames' /\ BelowRuns'
    BY <1>1, <1>3, <1>6, <1>7, <1>8, BecomePreserves
  <1>10. TypeOK'  BY <1>1, <1>4, <1>5, <1>9 DEF IInv, TypeOK, Indices
  <1>11. GivenAreRegistered'  BY <1>1, <1>5 DEF IInv, GivenAreRegistered
  <1> QED  BY <1>9, <1>10, <1>11 DEF IInv

\* Unlock: the others hold no mutex, so nothing they rely on changes.
LEMMA UnlockKeepsFrames ==
  ASSUME NEW a \in Actors, mu = a, mu' = None, UNCHANGED <<funcs, count>>
  PROVE  /\ \A g \in Frame : g.pc = "run" /\ FrameOK(a, g) => FrameOK(a, g)'
         /\ \A b \in Actors \ {a} : \A g \in Frame : FrameOK(b, g) => FrameOK(b, g)'
  BY DEF FrameOK

LEMMA RegReturnStep ==
  ASSUME IInv, NEW a \in Actors, RegReturn(a)
  PROVE  IInv'
  <1>1. /\ Depth(a) > 0 /\ Top(a).pc = "regReturn" /\ mu' = None /\ Pop(a)
        /\ given' = given \cup {<<Top(a).index * 5, Top(a).fn>>} /\ UNCHANGED <<funcs, count>>
    BY DEF RegReturn, At, trampolineEntryAddr, EntrySize
  <1>2. /\ mu = a /\ Top(a).index \in 0..(count - 1) /\ funcs[Top(a).index] = Top(a).fn
        /\ Top(a).fn \in Functions
    BY <1>1, FrameTypes DEF FrameOK
  <1>3. stack' \in [Actors -> Seq(Frame)] /\ Frames' /\ BelowRuns'
    BY <1>1, <1>2, UnlockKeepsFrames, PopPreserves
  <1>4. PICK i \in Int : i = Top(a).index * 5  BY <1>2
  <1>5. TypeOK'  BY <1>1, <1>2, <1>3, <1>4 DEF IInv, TypeOK
  <1>6. GivenAreRegistered'  BY <1>1, <1>2 DEF IInv, GivenAreRegistered
  <1> QED  BY <1>3, <1>5, <1>6 DEF IInv

LEMMA RegPanicStep ==
  ASSUME IInv, NEW a \in Actors, RegPanic(a)
  PROVE  IInv'
  <1>1. /\ Depth(a) > 0 /\ Top(a).pc = "panic" /\ mu' = None /\ Pop(a)
        /\ UNCHANGED <<funcs, count, given>>
    BY DEF RegPanic, At
  <1>2. mu = a  BY <1>1, FrameTypes DEF FrameOK
  <1>3. stack' \in [Actors -> Seq(Frame)] /\ Frames' /\ BelowRuns'
    BY <1>1, <1>2, UnlockKeepsFrames, PopPreserves
  <1> QED  BY <1>1, <1>3 DEF IInv, TypeOK, GivenAreRegistered

LEMMA WrapLockStep ==
  ASSUME IInv, NEW a \in Actors, WrapLock(a)
  PROVE  IInv'
  <1>1. Depth(a) > 0 /\ Top(a).pc = "wrapLock" /\ mu = None /\ mu' = a
        /\ UNCHANGED <<funcs, count, given>>
    BY DEF WrapLock, At
  <1>2. PICK r : r = [Top(a) EXCEPT !.pc = "fetch"]  OBVIOUS
  <1>3. Become(a, r)  BY <1>2 DEF WrapLock, Goto
  <1>4. r \in Frame /\ FrameOK(a, r)'  BY <1>1, <1>2, FrameTypes DEF Frame, FrameOK
  <1>5. \A g \in Frame : g.pc = "run" /\ FrameOK(a, g) => FrameOK(a, g)'
    BY <1>1 DEF FrameOK
  <1>6. \A b \in Actors \ {a} : \A g \in Frame : FrameOK(b, g) => FrameOK(b, g)'
    BY <1>1, ActorsAssumption DEF FrameOK, Actors
  <1>7. stack' \in [Actors -> Seq(Frame)] /\ Frames' /\ BelowRuns'
    BY <1>1, <1>3, <1>4, <1>5, <1>6, BecomePreserves
  <1> QED  BY <1>1, <1>7 DEF IInv, TypeOK, GivenAreRegistered

LEMMA WrapFetchStep ==
  ASSUME IInv, NEW a \in Actors, WrapFetch(a)
  PROVE  IInv'
  <1>1. Depth(a) > 0 /\ Top(a).pc = "fetch" /\ mu' = None /\ UNCHANGED <<funcs, count, given>>
    BY DEF WrapFetch, At
  <1>2. /\ mu = a /\ Top(a).index \in 0..(count - 1) /\ Top(a).ptr = Top(a).index * 5
        /\ Top(a) \in Frame
    BY <1>1, FrameTypes DEF FrameOK
  <1>3. funcs[Top(a).index] \in Functions \cup {None}
    BY <1>2, MaxAssumption DEF IInv, TypeOK, Indices
  <1>4. PICK r : r = [Top(a) EXCEPT !.pc = "run", !.fn = funcs[Top(a).index]]  OBVIOUS
  <1>5. Become(a, r)  BY <1>4 DEF WrapFetch
  <1>6. r \in Frame /\ FrameOK(a, r)'
    BY <1>1, <1>2, <1>3, <1>4 DEF Frame, FrameOK
  <1>7. stack' \in [Actors -> Seq(Frame)] /\ Frames' /\ BelowRuns'
    BY <1>1, <1>2, <1>5, <1>6, UnlockKeepsFrames, BecomePreserves
  <1> QED  BY <1>1, <1>7 DEF IInv, TypeOK, GivenAreRegistered

LEMMA RunEndsStep ==
  ASSUME IInv, NEW a \in Actors, RunEnds(a)
  PROVE  IInv'
  <1>1. Depth(a) > 0 /\ Pop(a) /\ UNCHANGED <<mu, funcs, count, given>>
    BY DEF RunEnds, At
  <1>2. \A b \in Actors : \A g \in Frame : FrameOK(b, g) => FrameOK(b, g)'
    BY <1>1 DEF FrameOK
  <1>3. stack' \in [Actors -> Seq(Frame)] /\ Frames' /\ BelowRuns'
    BY <1>1, <1>2, PopPreserves
  <1> QED  BY <1>1, <1>3 DEF IInv, TypeOK, GivenAreRegistered

\* So does a step that changes nothing.
LEMMA StutterStep == IInv /\ UNCHANGED vars => IInv'
  BY DEF IInv, TypeOK, Frames, FrameOK, BelowRuns, GivenAreRegistered, vars, Indices
--------------------------------------------------------------------------------
\* The invariant of the proofs, for CallbackRegistry as a whole.
THEOREM Invariance == Spec => []IInv
  <1>1. Init => IInv  BY InitEstablishes
  <1>2. IInv /\ [Next]_vars => IInv'
    <2> SUFFICES ASSUME IInv, [Next]_vars PROVE IInv'  OBVIOUS
    <2>1. CASE UNCHANGED vars  BY <2>1, StutterStep
    <2>2. ASSUME NEW a \in Actors,
                 NewCallback(a) \/ Register(a) \/ CCallsBack(a) \/ Wrap(a) \/ RunEnds(a)
          PROVE  IInv'
      BY <2>2, NewCallbackStep, RegLockStep, RegCheckStep, RegStoreStep, RegReturnStep,
         RegPanicStep, CCallsBackStep, WrapLockStep, WrapFetchStep, RunEndsStep
         DEF Register, Wrap
    <2> QED  BY <2>1, <2>2 DEF Next
  <1> QED  BY <1>1, <1>2, PTL DEF Spec

\* The state of the registry and of every callback keeps its type (NewCallback,
\* callbackWrap).
THEOREM TypeCorrect == Spec => []TypeOK
  <1>1. IInv => TypeOK  BY DEF IInv
  <1> QED  BY <1>1, Invariance, PTL

\* Between Lock and Unlock there is one goroutine or thread at most.
THEOREM MutualExclusion == Spec => []OneInside
  <1>1. IInv => OneInside
    BY FrameTypes DEF OneInside, FrameOK
  <1> QED  BY <1>1, Invariance, PTL

\* A pointer that NewCallback returned reaches the function it was returned
\* for, in every callback on every thread, however they nest and overlap.
THEOREM CallbackReachesItsFunction == Spec => []CallbackIsTheOneGiven
  <1>1. IInv => CallbackIsTheOneGiven
    <2> SUFFICES ASSUME IInv, NEW a \in Actors, NEW d \in DOMAIN stack[a],
                        stack[a][d].pc = "run", NEW f \in Functions,
                        <<stack[a][d].ptr, f>> \in given
                 PROVE  stack[a][d].fn = f
      BY DEF CallbackIsTheOneGiven
    <2>1. stack[a] \in Seq(Frame)  BY DEF IInv, TypeOK
    <2>2. d \in 1..Len(stack[a])  BY <2>1
    <2>3. /\ stack[a][d].index \in 0..(count - 1)
          /\ stack[a][d].ptr = stack[a][d].index * 5
          /\ stack[a][d].fn = funcs[stack[a][d].index]
      BY <2>2, FrameTypes DEF FrameOK
    <2>4. PICK i \in 0..(count - 1) : <<stack[a][d].ptr, f>> = <<i * 5, funcs[i]>>
      BY DEF IInv, GivenAreRegistered
    <2>5. stack[a][d].ptr = i * 5 /\ f = funcs[i]  BY <2>4
    <2>6. stack[a][d].index = i  BY <2>3, <2>5
    <2> QED  BY <2>3, <2>5, <2>6
  <1> QED  BY <1>1, Invariance, PTL

\* No two registrations share a trampoline.
THEOREM NoSharedTrampoline == Spec => []PointersAreDistinct
  <1>1. IInv => PointersAreDistinct
    <2> SUFFICES ASSUME IInv, NEW p \in given, NEW q \in given, p[1] = q[1]
                 PROVE  p = q
      BY DEF PointersAreDistinct
    <2>1. PICK i \in 0..(count - 1) : p = <<i * 5, funcs[i]>>
      BY DEF IInv, GivenAreRegistered
    <2>2. PICK j \in 0..(count - 1) : q = <<j * 5, funcs[j]>>
      BY DEF IInv, GivenAreRegistered
    <2>3. i * 5 = j * 5  BY <2>1, <2>2
    <2>4. i = j  BY <2>3
    <2> QED  BY <2>1, <2>2, <2>4
  <1> QED  BY <1>1, Invariance, PTL
================================================================================
