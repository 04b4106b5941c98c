--------------------------- MODULE ForeignCallsProofs ---------------------------
(***************************************************************************)
(* Proofs about ForeignCalls, for every number of goroutines, threads and  *)
(* blocks and every depth of nesting: the state keeps its types, a pooled  *)
(* block belongs to one call, a call gets its own result and errno, and a  *)
(* library that was loaded its handle.                                     *)
(***************************************************************************)
EXTENDS ForeignCalls, SequenceTheorems, TLAPS

\* What holds of frame f of goroutine g at depth d: a call's block is out of
\* the pool and holds, or the frame has copied from it, what belongs to the call.
FrameOK(g, d, f) ==
  /\ f.kind = "call" =>
       /\ f.moved = FALSE /\ f.block \notin free
       /\ f.pc = "ready" => block[f.block].arg = <<g, d>>
       /\ f.pc = "inC" => f.seen = <<g, d>>
       /\ f.pc \in {"returned", "back"} =>
            block[f.block].r1 = <<g, d>> /\ block[f.block].errno = f.left
       /\ f.pc = "done" => f.r1 = <<g, d>> /\ f.cerrno = f.left
  /\ f.kind = "load" =>
       /\ f.pc # "done" => f.text = None
       /\ f.ok = TRUE /\ f.moved = FALSE =>
            /\ f.pc \in {"returned", "back", "done"} => f.result = <<g, d>>
            /\ f.pc # "failed"
            /\ f.text = None
Frames == \A g \in Goroutines : \A d \in 1..Len(stack[g]) : FrameOK(g, d, stack[g][d])

\* Calls and Go functions called back take turns, and every call below the top
\* is in C.
Alternates(s) ==
  /\ Len(s) > 0 => s[1].kind # "go"
  /\ \A d \in 1..(Len(s) - 1) :
       IF s[d].kind = "go" THEN s[d + 1].kind # "go"
                           ELSE s[d].pc = "inC" /\ s[d + 1].kind = "go"
Nesting == \A g \in Goroutines : Alternates(stack[g]) /\ Len(stack[g]) <= MaxDepth

\* No two calls in progress have the same block.
Exclusive ==
  \A g, h \in Goroutines : \A d \in 1..Len(stack[g]), e \in 1..Len(stack[h]) :
    /\ stack[g][d].kind = "call" /\ stack[h][e].kind = "call"
    /\ stack[g][d].block = stack[h][e].block
    => g = h /\ d = e

IInv == TypeOK /\ Frames /\ Nesting /\ Exclusive
--------------------------------------------------------------------------------
(* Frames and their types.                                                  *)

\* A frame of a kind is a record of that kind.
LEMMA KindOfFrame ==
  ASSUME NEW f \in Frame
  PROVE  /\ f.kind \in {"call", "load", "go"}
         /\ f.kind = "call" => f \in CallFrame
         /\ f.kind = "load" => f \in LoadFrame
         /\ f.kind = "go" => f \in GoFrame
  BY DEF Frame, CallFrame, LoadFrame, GoFrame

\* A sequence without its last n elements.
LEMMA FrontOfSeq ==
  ASSUME NEW S, NEW s \in Seq(S), NEW n \in Nat, n <= Len(s), NEW t, t = SubSeq(s, 1, n)
  PROVE  t \in Seq(S) /\ Len(t) = n /\ \A d \in 1..n : t[d] = s[d]
  <1>1. 1 \in Int /\ n \in Int /\ \A i \in 1..n : s[i] \in S  OBVIOUS
  <1>2. /\ t \in Seq(S)
        /\ Len(t) = IF 1 <= n THEN n - 1 + 1 ELSE 0
        /\ \A i \in 1..(n - 1 + 1) : t[i] = s[1 + i - 1]
    BY <1>1, SubSeqProperties
  <1>3. Len(t) = n  BY <1>1, <1>2
  <1>4. ASSUME NEW d \in 1..n PROVE t[d] = s[d]
    <2>1. d \in 1..(n - 1 + 1) /\ 1 + d - 1 = d  BY <1>1
    <2> QED  BY <1>2, <2>1
  <1> QED  BY <1>2, <1>3, <1>4

\* The frames of g, in a state that satisfies the invariant.
LEMMA FrameTypes ==
  ASSUME IInv, NEW g \in Goroutines
  PROVE  /\ Len(stack[g]) \in Nat /\ Len(stack[g]) <= MaxDepth /\ MaxDepth \in Nat
         /\ \A d \in 1..Len(stack[g]) :
              stack[g][d] \in Frame /\ FrameOK(g, d, stack[g][d]) /\ <<g, d>> \in Id
         /\ Alternates(stack[g])
         /\ Depth(g) > 0 => /\ Depth(g) \in 1..Len(stack[g])
                            /\ Top(g) = stack[g][Depth(g)]
                            /\ Top(g) \in Frame /\ FrameOK(g, Depth(g), Top(g))
                            /\ Me(g) = <<g, Depth(g)>> /\ Me(g) \in Id /\ Me(g) # None
  <1>1. stack[g] \in Seq(Frame)  BY DEF IInv, TypeOK
  <1>2. Len(stack[g]) \in Nat /\ Len(stack[g]) <= MaxDepth /\ MaxDepth \in Nat /\ Alternates(stack[g])
    BY <1>1, BoundsAssumption DEF IInv, Nesting
  <1>3. ASSUME NEW d \in 1..Len(stack[g])
        PROVE  stack[g][d] \in Frame /\ FrameOK(g, d, stack[g][d]) /\ <<g, d>> \in Id
    <2>1. d \in 1..MaxDepth  BY <1>2
    <2> QED  BY <1>1, <2>1 DEF IInv, Frames, Id
  <1>4. ASSUME Depth(g) > 0
        PROVE  /\ Depth(g) \in 1..Len(stack[g]) /\ Top(g) = stack[g][Depth(g)]
               /\ Top(g) \in Frame /\ FrameOK(g, Depth(g), Top(g))
               /\ Me(g) = <<g, Depth(g)>> /\ Me(g) \in Id /\ Me(g) # None
    <2>1. Depth(g) \in 1..Len(stack[g]) /\ Top(g) = stack[g][Depth(g)] /\ Me(g) = <<g, Depth(g)>>
      BY <1>2, <1>4 DEF Depth, Top, Me
    <2>2. Me(g) \in Id  BY <1>3, <2>1
    <2>3. Me(g) # None  BY <2>1, NoneAssumption
    <2> QED  BY <1>3, <2>1, <2>2, <2>3
  <1> QED  BY <1>2, <1>3, <1>4

\* Where calls and callbacks alternate, the oldest frame tells whether C is below.
LEMMA OldestInCgocall ==
  ASSUME NEW s \in Seq(Frame), Alternates(s)
  PROVE  (\E d \in DOMAIN s : InCgocall(s[d])) <=> Len(s) > 0 /\ InCgocall(s[1])
  <1>1. DOMAIN s = 1..Len(s) /\ Len(s) \in Nat  OBVIOUS
  <1>2. ASSUME NEW d \in 1..Len(s), InCgocall(s[d])
        PROVE  InCgocall(s[1])
    <2>1. CASE d = 1  BY <1>2, <2>1
    <2>2. CASE d # 1
      <3>1. 1 \in 1..(Len(s) - 1) /\ 1 \in 1..Len(s)  BY <2>2
      <3>2. s[1].kind # "go" /\ s[1].pc = "inC"  BY <3>1 DEF Alternates
      <3>3. s[1] \in Frame  BY <3>1
      <3>4. s[1].kind \in {"call", "load"}  BY <3>2, <3>3, KindOfFrame
      <3> QED  BY <3>2, <3>4 DEF InCgocall
    <2> QED  BY <2>1, <2>2
  <1> QED  BY <1>1, <1>2

\* The thread of g is known from its oldest frame.
LEMMA ThreadOfOldest ==
  ASSUME IInv, NEW g \in Goroutines
  PROVE  thread[g] # None <=> Len(stack[g]) > 0 /\ InCgocall(stack[g][1])
  <1>1. stack[g] \in Seq(Frame)  BY DEF IInv, TypeOK
  <1>2. thread[g] # None <=> \E d \in DOMAIN stack[g] : InCgocall(stack[g][d])
    BY DEF IInv, TypeOK
  <1> QED  BY <1>1, <1>2, FrameTypes, OldestInCgocall
--------------------------------------------------------------------------------
(* What a step does to the frames.                                          *)

\* A step of g that keeps its first n frames and the frames of the others, and
\* ends with at most one new frame on top of them.
Keeps(g, n) ==
  /\ stack' \in [Goroutines -> Seq(Frame)]
  /\ \A h \in Goroutines \ {g} : stack'[h] = stack[h]
  /\ \A d \in 1..n : stack'[g][d] = stack[g][d]
  /\ Len(stack'[g]) \in {n, n + 1}
  /\ n <= Len(stack[g])

\* Frame e of h is one of those kept.
Kept(g, n, h, e) == e \in 1..Len(stack[h]) /\ (h = g => e <= n)

\* Become keeps all but the top frame.
LEMMA BecomeKeeps ==
  ASSUME IInv, NEW g \in Goroutines, NEW f \in Frame, Depth(g) > 0, Become(g, f)
  PROVE  /\ Keeps(g, Depth(g) - 1)
         /\ Len(stack'[g]) = Depth(g) /\ stack'[g][Depth(g)] = f
  <1>1. stack \in [Goroutines -> Seq(Frame)]  BY DEF IInv, TypeOK
  <1> QED  BY <1>1 DEF Become, Depth, Keeps

\* Push keeps all frames.
LEMMA PushKeeps ==
  ASSUME IInv, NEW g \in Goroutines, NEW f \in Frame, Push(g, f)
  PROVE  /\ Keeps(g, Depth(g))
         /\ Len(stack'[g]) = Depth(g) + 1 /\ stack'[g][Depth(g) + 1] = f
  <1>1. stack \in [Goroutines -> Seq(Frame)]  BY DEF IInv, TypeOK
  <1> QED  BY <1>1 DEF Push, Depth, Keeps

\* Pop keeps all but the last n.
LEMMA PopKeeps ==
  ASSUME IInv, NEW g \in Goroutines, NEW n \in Nat, n <= Depth(g), Pop(g, n)
  PROVE  Keeps(g, Depth(g) - n) /\ Len(stack'[g]) = Depth(g) - n
  <1>1. stack \in [Goroutines -> Seq(Frame)]  BY DEF IInv, TypeOK
  <1>2. PICK s \in Seq(Frame) : s = stack[g]  BY <1>1
  <1>3. PICK m : m = Len(s) - n  OBVIOUS
  <1>0. m \in Nat /\ m <= Len(s) /\ m = Depth(g) - n  BY <1>2, <1>3 DEF Depth
  <1>4. PICK t : t = SubSeq(s, 1, m)  OBVIOUS
  <1>5. t \in Seq(Frame) /\ Len(t) = m /\ \A d \in 1..m : t[d] = s[d]
    BY <1>0, <1>4, FrontOfSeq
  <1>6. stack' = [stack EXCEPT ![g] = t]  BY <1>2, <1>3, <1>4 DEF Pop
  <1> QED  BY <1>1, <1>2, <1>0, <1>5, <1>6 DEF Keeps

\* Such a step preserves what the invariant says of frames if it does so for
\* the frames kept and for the new one.
LEMMA KeepsPreserves ==
  ASSUME IInv, NEW g \in Goroutines, NEW n \in Nat, Keeps(g, n),
         \A h \in Goroutines : \A e \in Nat : \A f \in Frame :
           Kept(g, n, h, e) /\ f = stack[h][e] => FrameOK(h, e, f)',
         Len(stack'[g]) = n + 1 =>
           /\ FrameOK(g, n + 1, stack[g][n + 1])'
           /\ n + 1 <= MaxDepth
           /\ IF n = 0 THEN stack'[g][1].kind # "go"
              ELSE IF stack[g][n].kind = "go" THEN stack'[g][n + 1].kind # "go"
              ELSE stack[g][n].pc = "inC" /\ stack'[g][n + 1].kind = "go"
           /\ stack'[g][n + 1].kind = "call" =>
                \A h \in Goroutines : \A e \in Nat :
                  Kept(g, n, h, e) /\ stack[h][e].kind = "call" =>
                    stack[h][e].block # stack'[g][n + 1].block
  PROVE  Frames' /\ Nesting' /\ Exclusive'
  <1>1. \A h \in Goroutines : Len(stack[h]) \in Nat /\ Len(stack'[h]) \in Nat
    BY FrameTypes DEF Keeps
  <1>2. ASSUME NEW h \in Goroutines, NEW e \in 1..Len(stack'[h]), h = g => e <= n
        PROVE  Kept(g, n, h, e) /\ stack'[h][e] = stack[h][e] /\ e \in Nat
    BY <1>1, <1>2 DEF Keeps, Kept
  <1>3. Frames'
    <2> SUFFICES ASSUME NEW h \in Goroutines, NEW e \in 1..Len(stack'[h])
                 PROVE  FrameOK(h, e, stack[h][e])'
      BY DEF Frames
    <2>1. CASE h = g => e <= n
      <3>1. Kept(g, n, h, e) /\ stack'[h][e] = stack[h][e] /\ e \in Nat  BY <1>2, <2>1
      <3>2. PICK f \in Frame : f = stack[h][e]  BY <3>1, FrameTypes DEF Kept
      <3>3. FrameOK(h, e, f)'  BY <3>1, <3>2
      <3>4. stack'[h][e] = f  BY <3>1, <3>2
      <3> QED  BY <3>3, <3>4 DEF FrameOK
    <2>2. CASE h = g /\ e > n
      <3>1. Len(stack'[g]) = n + 1 /\ e = n + 1  BY <1>1, <2>2 DEF Keeps
      <3> QED  BY <2>2, <3>1
    <2> QED  BY <1>1, <2>1, <2>2
  <1>4. Nesting'
    <2> SUFFICES ASSUME NEW h \in Goroutines
                 PROVE  Alternates(stack[h])' /\ Len(stack'[h]) <= MaxDepth
      BY DEF Nesting
    <2>1. CASE h # g  BY <2>1, FrameTypes DEF Keeps, Alternates
    <2>2. CASE h = g /\ Len(stack'[g]) = n
      <3>1. Alternates(stack[g]) /\ n <= Len(stack[g]) /\ n <= MaxDepth
        BY <1>1, FrameTypes DEF Keeps
      <3>2. n > 0 => stack'[g][1].kind # "go"
        <4>1. n > 0 => 1 \in 1..n /\ Len(stack[g]) > 0  BY <1>1, <3>1
        <4> QED  BY <3>1, <4>1 DEF Keeps, Alternates
      <3>3. ASSUME NEW d \in 1..(n - 1)
            PROVE  IF stack'[g][d].kind = "go" THEN stack'[g][d + 1].kind # "go"
                   ELSE stack'[g][d].pc = "inC" /\ stack'[g][d + 1].kind = "go"
        <4>1. d \in 1..n /\ d + 1 \in 1..n /\ d \in 1..(Len(stack[g]) - 1)  BY <1>1, <3>1
        <4>2. stack'[g][d] = stack[g][d] /\ stack'[g][d + 1] = stack[g][d + 1]
          BY <4>1 DEF Keeps
        <4> QED  BY <3>1, <4>1, <4>2 DEF Alternates
      <3> QED  BY <2>2, <3>1, <3>2, <3>3 DEF Alternates
    <2>3. CASE h = g /\ Len(stack'[g]) = n + 1
      <3>1. Alternates(stack[g])  BY FrameTypes
      <3>2. stack'[g][1].kind # "go"
        <4>1. CASE n = 0  BY <2>3, <4>1
        <4>2. CASE n # 0
          <5>1. 1 \in 1..n /\ Len(stack[g]) > 0  BY <1>1, <4>2 DEF Keeps
          <5> QED  BY <3>1, <5>1 DEF Keeps, Alternates
        <4> QED  BY <4>1, <4>2
      <3>3. ASSUME NEW d \in 1..(Len(stack'[g]) - 1)
            PROVE  IF stack'[g][d].kind = "go" THEN stack'[g][d + 1].kind # "go"
                   ELSE stack'[g][d].pc = "inC" /\ stack'[g][d + 1].kind = "go"
        <4>1. d \in 1..n /\ stack'[g][d] = stack[g][d]  BY <2>3 DEF Keeps
        <4>2. CASE d = n  BY <2>3, <4>1, <4>2
        <4>3. CASE d < n
          <5>1. d + 1 \in 1..n /\ d \in 1..(Len(stack[g]) - 1)  BY <1>1, <4>1, <4>3 DEF Keeps
          <5>2. stack'[g][d + 1] = stack[g][d + 1]  BY <5>1 DEF Keeps
          <5> QED  BY <3>1, <4>1, <5>1, <5>2 DEF Alternates
        <4> QED  BY <4>1, <4>2, <4>3
      <3> QED  BY <2>3, <3>2, <3>3 DEF Alternates
    <2> QED  BY <2>1, <2>2, <2>3 DEF Keeps
  <1>5. Exclusive'
    <2> SUFFICES ASSUME NEW h \in Goroutines, NEW k \in Goroutines,
                        NEW d \in 1..Len(stack'[h]), NEW e \in 1..Len(stack'[k]),
                        stack'[h][d].kind = "call", stack'[k][e].kind = "call",
                        stack'[h][d].block = stack'[k][e].block
                 PROVE  h = k /\ d = e
      BY DEF Exclusive
    <2>1. CASE (h = g => d <= n) /\ (k = g => e <= n)
      <3>1. /\ stack'[h][d] = stack[h][d] /\ d \in 1..Len(stack[h])
            /\ stack'[k][e] = stack[k][e] /\ e \in 1..Len(stack[k])
        BY <1>2, <2>1 DEF Kept
      <3> QED  BY <3>1 DEF IInv, Exclusive
    <2>2. CASE h = g /\ d > n /\ (k = g => e <= n)
      <3>1. Len(stack'[g]) = n + 1 /\ d = n + 1  BY <1>1, <2>2 DEF Keeps
      <3>2. Kept(g, n, k, e) /\ stack'[k][e] = stack[k][e] /\ e \in Nat  BY <1>2, <2>2
      <3> QED  BY <2>2, <3>1, <3>2
    <2>3. CASE k = g /\ e > n /\ (h = g => d <= n)
      <3>1. Len(stack'[g]) = n + 1 /\ e = n + 1  BY <1>1, <2>3 DEF Keeps
      <3>2. Kept(g, n, h, d) /\ stack'[h][d] = stack[h][d] /\ d \in Nat  BY <1>2, <2>3
      <3> QED  BY <2>3, <3>1, <3>2
    <2>4. CASE h = g /\ d > n /\ k = g /\ e > n
      BY <1>1, <2>4 DEF Keeps
    <2> QED  BY <1>1, <2>1, <2>2, <2>3, <2>4
  <1> QED  BY <1>3, <1>4, <1>5

\* A step of g that preserves the rest preserves the invariant if the thread of
\* g still fits its oldest frame.
LEMMA ThreadFits ==
  ASSUME IInv, NEW g \in Goroutines, NEW n \in Nat, Keeps(g, n),
         Frames', Nesting', Exclusive',
         errno' \in [Threads -> IdOrNone], dlerr' \in [Threads -> IdOrNone],
         free' \subseteq Blocks, block' \in [Blocks -> Contents],
         NEW m \in Threads \cup {None}, thread' = [thread EXCEPT ![g] = m],
         m # None <=> Len(stack'[g]) > 0 /\ InCgocall(stack'[g][1])
  PROVE  IInv'
  <1>1. /\ stack' \in [Goroutines -> Seq(Frame)]
        /\ \A h \in Goroutines \ {g} : stack'[h] = stack[h]
    BY DEF Keeps
  <1>2. thread \in [Goroutines -> Threads \cup {None}]  BY DEF IInv, TypeOK
  <1>3. ASSUME NEW h \in Goroutines
        PROVE  thread'[h] # None <=> \E d \in DOMAIN stack'[h] : InCgocall(stack'[h][d])
    <2>1. stack'[h] \in Seq(Frame) /\ Alternates(stack'[h])
      BY <1>1 DEF Nesting, Alternates
    <2>2. CASE h = g  BY <1>2, <2>1, <2>2, OldestInCgocall
    <2>3. CASE h # g
      <3>1. thread'[h] = thread[h] /\ stack'[h] = stack[h]  BY <1>1, <1>2, <2>3
      <3> QED  BY <3>1, <2>1, OldestInCgocall, ThreadOfOldest
    <2> QED  BY <2>2, <2>3
  <1>4. \A h \in Goroutines :
          (thread[h] # None <=> \E d \in DOMAIN stack[h] : InCgocall(stack[h][d]))'
    BY <1>3 DEF InCgocall
  <1>5. thread' \in [Goroutines -> Threads \cup {None}]  BY <1>2
  <1>6. TypeOK'  BY <1>1, <1>4, <1>5 DEF TypeOK, IdOrNone, Id, Contents
  <1> QED  BY <1>6 DEF IInv

\* The types of what is not on a stack.
GlobalsOK ==
  /\ errno \in [Threads -> IdOrNone] /\ dlerr \in [Threads -> IdOrNone]
  /\ free \subseteq Blocks /\ block \in [Blocks -> Contents]

\* A step of g that changes its top frame, a call or a load, to f.
LEMMA BecomePreserves ==
  ASSUME IInv, NEW g \in Goroutines, NEW f \in Frame, Depth(g) > 0, Become(g, f),
         Top(g).kind # "go", f.kind = Top(g).kind,
         f.kind = "call" => f.block = Top(g).block,
         \A h \in Goroutines : \A e \in Nat : \A k \in Frame :
           Kept(g, Depth(g) - 1, h, e) /\ k = stack[h][e] => FrameOK(h, e, k)',
         \A d \in Nat : d = Depth(g) => FrameOK(g, d, f)',
         GlobalsOK',
         NEW m \in Threads \cup {None}, thread' = [thread EXCEPT ![g] = m],
         IF Depth(g) = 1 THEN m # None <=> InCgocall(f) ELSE m = thread[g]
  PROVE  IInv'
  <1>0. Depth(g) \in Nat  BY FrameTypes DEF Depth
  <1>1. PICK n \in Nat : n = Depth(g) - 1  BY <1>0
  <1>2. /\ Keeps(g, n) /\ Len(stack'[g]) = n + 1 /\ stack'[g][n + 1] = f
        /\ n + 1 = Len(stack[g]) /\ Depth(g) = n + 1 /\ Top(g) = stack[g][n + 1]
    <2>1. Depth(g) = n + 1 /\ n + 1 = Len(stack[g])  BY <1>1, FrameTypes DEF Depth
    <2> QED  BY <1>1, <2>1, BecomeKeeps DEF Top
  <1>3. Frames' /\ Nesting' /\ Exclusive'
    <2>1. FrameOK(g, n + 1, stack[g][n + 1])'
      <3>1. FrameOK(g, n + 1, f)'  BY <1>2
      <3> QED  BY <1>2, <3>1 DEF FrameOK
    <2>2. n + 1 <= MaxDepth /\ Alternates(stack[g])  BY <1>2, FrameTypes
    <2>3. IF n = 0 THEN stack'[g][1].kind # "go"
          ELSE IF stack[g][n].kind = "go" THEN stack'[g][n + 1].kind # "go"
          ELSE stack[g][n].pc = "inC" /\ stack'[g][n + 1].kind = "go"
      <3>1. CASE n = 0  BY <1>2, <3>1
      <3>2. CASE n # 0
        <4>1. n \in 1..(Len(stack[g]) - 1)  BY <1>2, <3>2
        <4> QED  BY <1>2, <2>2, <3>2, <4>1 DEF Alternates
      <3> QED  BY <3>1, <3>2
    <2>4. ASSUME f.kind = "call", NEW h \in Goroutines, NEW e \in Nat,
                 Kept(g, n, h, e), stack[h][e].kind = "call"
          PROVE  stack[h][e].block # f.block
      <3>1. e \in 1..Len(stack[h]) /\ n + 1 \in 1..Len(stack[g]) /\ ~(h = g /\ e = n + 1)
        BY <1>2, <2>4 DEF Kept
      <3>2. stack[g][n + 1].kind = "call" /\ f.block = stack[g][n + 1].block
        BY <1>2, <2>4
      <3> QED  BY <2>4, <3>1, <3>2 DEF IInv, Exclusive
    <2>5. \A h \in Goroutines : \A e \in Nat : \A k \in Frame :
            Kept(g, n, h, e) /\ k = stack[h][e] => FrameOK(h, e, k)'
      BY <1>1
    <2> QED  BY <1>2, <2>1, <2>2, <2>3, <2>4, <2>5, KeepsPreserves
  <1>4. m # None <=> Len(stack'[g]) > 0 /\ InCgocall(stack'[g][1])
    <2>1. CASE n = 0  BY <1>2, <2>1
    <2>2. CASE n # 0
      <3>1. m = thread[g] /\ 1 \in 1..n  BY <1>2, <2>2
      <3>2. stack'[g][1] = stack[g][1]  BY <1>2, <3>1 DEF Keeps
      <3> QED  BY <1>2, <3>1, <3>2, ThreadOfOldest
    <2> QED  BY <2>1, <2>2
  <1> QED  BY <1>2, <1>3, <1>4, ThreadFits DEF GlobalsOK

\* A step of g that pushes f, a frame that has not entered C.
LEMMA PushPreserves ==
  ASSUME IInv, NEW g \in Goroutines, NEW f \in Frame, Push(g, f), Depth(g) < MaxDepth,
         IF f.kind = "go" THEN InC(g) ELSE InGo(g) /\ f.pc = "ready",
         f.kind = "call" => f.block \in free,
         \A h \in Goroutines : \A e \in Nat : \A k \in Frame :
           Kept(g, Depth(g), h, e) /\ k = stack[h][e] => FrameOK(h, e, k)',
         \A d \in Nat : d = Depth(g) + 1 => FrameOK(g, d, f)',
         GlobalsOK', thread' = thread
  PROVE  IInv'
  <1>1. PICK n \in Nat : n = Depth(g)  BY FrameTypes DEF Depth
  <1>2. /\ Keeps(g, n) /\ Len(stack'[g]) = n + 1 /\ stack'[g][n + 1] = f
        /\ n = Len(stack[g])
    BY <1>1, PushKeeps DEF Depth
  <1>3. Frames' /\ Nesting' /\ Exclusive'
    <2>1. FrameOK(g, n + 1, stack[g][n + 1])'
      <3>1. FrameOK(g, n + 1, f)'  BY <1>1
      <3> QED  BY <1>2, <3>1 DEF FrameOK
    <2>2. n + 1 <= MaxDepth  BY <1>1, FrameTypes
    <2>3. IF n = 0 THEN stack'[g][1].kind # "go"
          ELSE IF stack[g][n].kind = "go" THEN stack'[g][n + 1].kind # "go"
          ELSE stack[g][n].pc = "inC" /\ stack'[g][n + 1].kind = "go"
      BY <1>1, <1>2 DEF InC, InGo, At, Top, Depth
    <2>4. ASSUME f.kind = "call", NEW h \in Goroutines, NEW e \in Nat,
                 Kept(g, n, h, e), stack[h][e].kind = "call"
          PROVE  stack[h][e].block # f.block
      <3>1. FrameOK(h, e, stack[h][e])  BY <2>4, FrameTypes DEF Kept
      <3> QED  BY <2>4, <3>1 DEF FrameOK
    <2>5. \A h \in Goroutines : \A e \in Nat : \A k \in Frame :
            Kept(g, n, h, e) /\ k = stack[h][e] => FrameOK(h, e, k)'
      BY <1>1
    <2> QED  BY <1>2, <2>1, <2>2, <2>3, <2>4, <2>5, KeepsPreserves
  <1>4. thread[g] # None <=> Len(stack'[g]) > 0 /\ InCgocall(stack'[g][1])
    <2>1. CASE n = 0
      <3>1. f.kind # "go" /\ f.pc = "ready"  BY <1>1, <2>1 DEF InC, At
      <3>2. ~InCgocall(stack'[g][1])  BY <1>2, <2>1, <3>1 DEF InCgocall
      <3>3. ~(Len(stack[g]) > 0)  BY <1>2, <2>1
      <3>4. thread[g] = None  BY <3>3, ThreadOfOldest
      <3> QED  BY <3>2, <3>4
    <2>2. CASE n # 0
      <3>1. 1 \in 1..n  BY <2>2
      <3>2. stack'[g][1] = stack[g][1]  BY <1>2, <3>1 DEF Keeps
      <3> QED  BY <1>2, <2>2, <3>2, ThreadOfOldest
    <2> QED  BY <2>1, <2>2
  <1>5. thread[g] \in Threads \cup {None} /\ thread' = [thread EXCEPT ![g] = thread[g]]
    BY DEF IInv, TypeOK
  <1> QED  BY <1>2, <1>3, <1>4, <1>5, ThreadFits DEF GlobalsOK

\* A step of g that ends its last j frames.
LEMMA PopPreserves ==
  ASSUME IInv, NEW g \in Goroutines, NEW j \in Nat, j <= Depth(g), Pop(g, j),
         \A h \in Goroutines : \A e \in Nat : \A k \in Frame :
           Kept(g, Depth(g) - j, h, e) /\ k = stack[h][e] => FrameOK(h, e, k)',
         GlobalsOK',
         NEW m \in Threads \cup {None}, thread' = [thread EXCEPT ![g] = m],
         m = IF Depth(g) = j THEN None ELSE thread[g]
  PROVE  IInv'
  <1>0. Depth(g) \in Nat  BY FrameTypes DEF Depth
  <1>1. PICK n \in Nat : n = Depth(g) - j /\ Depth(g) = n + j  BY <1>0
  <1>2. Keeps(g, n) /\ Len(stack'[g]) = n  BY <1>1, PopKeeps
  <1>3. Frames' /\ Nesting' /\ Exclusive'
    <2>1. \A h \in Goroutines : \A e \in Nat : \A k \in Frame :
            Kept(g, n, h, e) /\ k = stack[h][e] => FrameOK(h, e, k)'
      BY <1>1
    <2>2. Len(stack'[g]) # n + 1  BY <1>2
    <2> QED  BY <1>2, <2>1, <2>2, KeepsPreserves
  <1>4. m # None <=> Len(stack'[g]) > 0 /\ InCgocall(stack'[g][1])
    <2>1. CASE n = 0
      <3>1. m = None  BY <1>1, <2>1
      <3> QED  BY <1>2, <2>1, <3>1
    <2>2. CASE n # 0
      <3>1. 1 \in 1..n /\ m = thread[g] /\ Len(stack[g]) > 0
        BY <1>1, <1>2, <2>2, FrameTypes DEF Keeps
      <3>2. stack'[g][1] = stack[g][1]  BY <1>2, <3>1 DEF Keeps
      <3> QED  BY <1>2, <2>2, <3>1, <3>2, ThreadOfOldest
    <2> QED  BY <2>1, <2>2
  <1> QED  BY <1>2, <1>3, <1>4, ThreadFits DEF GlobalsOK

\* What a step may do to the blocks: nothing ...
LEMMA SameBlocks ==
  ASSUME IInv, NEW g \in Goroutines, NEW n, UNCHANGED <<free, block>>
  PROVE  \A h \in Goroutines : \A e \in Nat : \A k \in Frame :
           Kept(g, n, h, e) /\ k = stack[h][e] => FrameOK(h, e, k)'
  <1> SUFFICES ASSUME NEW h \in Goroutines, NEW e \in Nat, NEW k \in Frame,
                      Kept(g, n, h, e), k = stack[h][e]
               PROVE  FrameOK(h, e, k)'
    OBVIOUS
  <1>1. FrameOK(h, e, k)  BY FrameTypes DEF Kept
  <1> QED  BY <1>1 DEF FrameOK

\* ... or something to a block that no frame it keeps has.
LEMMA OtherBlocks ==
  ASSUME IInv, NEW g \in Goroutines, NEW n, NEW b \in Blocks,
         \A c \in Blocks \ {b} : block'[c] = block[c], free' \subseteq free \cup {b},
         \A h \in Goroutines : \A e \in Nat :
           Kept(g, n, h, e) /\ stack[h][e].kind = "call" => stack[h][e].block # b
  PROVE  \A h \in Goroutines : \A e \in Nat : \A k \in Frame :
           Kept(g, n, h, e) /\ k = stack[h][e] => FrameOK(h, e, k)'
  <1> SUFFICES ASSUME NEW h \in Goroutines, NEW e \in Nat, NEW k \in Frame,
                      Kept(g, n, h, e), k = stack[h][e]
               PROVE  FrameOK(h, e, k)'
    OBVIOUS
  <1>1. FrameOK(h, e, k)  BY FrameTypes DEF Kept
  <1>2. CASE k.kind = "call"
    <2>1. k.block \in Blocks  BY <1>2, KindOfFrame DEF CallFrame
    <2>2. k.block # b  BY <1>2
    <2>3. block'[k.block] = block[k.block] /\ (k.block \notin free => k.block \notin free')
      BY <2>1, <2>2
    <2> QED  BY <1>1, <1>2, <2>3 DEF FrameOK
  <1>3. CASE k.kind # "call"  BY <1>1, <1>3 DEF FrameOK
  <1> QED  BY <1>2, <1>3

\* The block of a call below frame n + 1 of g is not that frame's.
LEMMA BlockOfOthers ==
  ASSUME IInv, NEW g \in Goroutines, NEW n \in Nat, n + 1 \in 1..Len(stack[g]),
         stack[g][n + 1].kind = "call",
         NEW h \in Goroutines, NEW e \in Nat, Kept(g, n, h, e), stack[h][e].kind = "call"
  PROVE  stack[h][e].block # stack[g][n + 1].block
  <1>1. e \in 1..Len(stack[h]) /\ ~(h = g /\ e = n + 1)  BY DEF Kept
  <1> QED  BY <1>1 DEF IInv, Exclusive

\* The types of a state that satisfies the invariant.
LEMMA GlobalTypes ==
  ASSUME IInv
  PROVE  /\ GlobalsOK
         /\ thread \in [Goroutines -> Threads \cup {None}]
         /\ \A g \in Goroutines : thread[g] \in Threads \cup {None}
                                  /\ thread = [thread EXCEPT ![g] = thread[g]]
  BY DEF IInv, TypeOK, GlobalsOK
--------------------------------------------------------------------------------
(* Every action preserves it.                                               *)

LEMMA CallNFloatErrnoStep ==
  ASSUME IInv, NEW g \in Goroutines, NEW b \in Blocks, CallNFloatErrno(g, b)
  PROVE  IInv'
  <1>1. PICK d : d = Depth(g) + 1  OBVIOUS
  <1>2. PICK f : f = [kind |-> "call", pc |-> "ready", block |-> b, moved |-> FALSE,
                      seen |-> None, left |-> None, r1 |-> None, cerrno |-> None]
    OBVIOUS
  <1>3. PICK c : c = [Empty EXCEPT !.arg = <<g, d>>]  OBVIOUS
  <1>4. /\ InGo(g) /\ Depth(g) < MaxDepth /\ Push(g, f)
        /\ b \in free /\ free' = free \ {b} /\ block' = [block EXCEPT ![b] = c]
        /\ UNCHANGED <<thread, errno, dlerr>>
    BY <1>1, <1>2, <1>3 DEF CallNFloatErrno, Get
  <1>5. f \in Frame /\ f.kind = "call" /\ f.block = b /\ f.pc = "ready" /\ f.moved = FALSE
    BY <1>2 DEF Frame, CallFrame, IdOrNone
  <1>6. d \in 1..MaxDepth /\ d \in Nat
    <2>1. Depth(g) \in Nat /\ MaxDepth \in Nat  BY FrameTypes DEF Depth
    <2> QED  BY <1>1, <1>4, <2>1
  <1>7. c \in Contents /\ c.arg = <<g, d>>
    BY <1>3, <1>6 DEF Contents, Empty, IdOrNone, Id
  <1>8. GlobalsOK' /\ block'[b] = c /\ \A a \in Blocks \ {b} : block'[a] = block[a]
    BY <1>4, <1>7, GlobalTypes DEF GlobalsOK, IdOrNone, Id, Contents
  <1>9. FrameOK(g, d, f)'  BY <1>4, <1>5, <1>7, <1>8 DEF FrameOK
  <1>10. ASSUME NEW h \in Goroutines, NEW e \in Nat,
                Kept(g, Depth(g), h, e), stack[h][e].kind = "call"
         PROVE  stack[h][e].block # b
    <2>1. FrameOK(h, e, stack[h][e])  BY <1>10, FrameTypes DEF Kept
    <2> QED  BY <1>4, <1>10, <2>1 DEF FrameOK
  <1>11. \A h \in Goroutines : \A e \in Nat : \A k \in Frame :
           Kept(g, Depth(g), h, e) /\ k = stack[h][e] => FrameOK(h, e, k)'
    BY <1>4, <1>8, <1>10, OtherBlocks
  <1> QED  BY <1>1, <1>4, <1>5, <1>8, <1>9, <1>11, PushPreserves

LEMMA DlopenStep ==
  ASSUME IInv, NEW g \in Goroutines, Dlopen(g)
  PROVE  IInv'
  <1>1. PICK f : f = [kind |-> "load", pc |-> "ready", moved |-> FALSE, ok |-> FALSE,
                      result |-> None, text |-> None]
    OBVIOUS
  <1>2. InGo(g) /\ Depth(g) < MaxLoads /\ Push(g, f) /\ UNCHANGED <<thread, errno, dlerr, free, block>>
    BY <1>1 DEF Dlopen
  <1>3. f \in Frame /\ f.kind = "load" /\ f.pc = "ready"
    BY <1>1 DEF Frame, LoadFrame, IdOrNone
  <1>4. Depth(g) < MaxDepth
    <2>1. Depth(g) \in Nat  BY FrameTypes DEF Depth
    <2> QED  BY <1>2, <2>1, BoundsAssumption
  <1>5. \A d \in Nat : FrameOK(g, d, f)'  BY <1>1 DEF FrameOK
  <1>6. GlobalsOK'  BY <1>2, GlobalTypes DEF GlobalsOK, IdOrNone, Id, Contents
  <1>7. \A h \in Goroutines : \A e \in Nat : \A k \in Frame :
          Kept(g, Depth(g), h, e) /\ k = stack[h][e] => FrameOK(h, e, k)'
    BY <1>2, SameBlocks
  <1> QED  BY <1>2, <1>3, <1>4, <1>5, <1>6, <1>7, PushPreserves

LEMMA CCallsBackStep ==
  ASSUME IInv, NEW g \in Goroutines, CCallsBack(g)
  PROVE  IInv'
  <1>1. PICK f : f = [kind |-> "go", pc |-> "run", moved |-> FALSE]  OBVIOUS
  <1>2. InC(g) /\ Depth(g) < MaxDepth /\ Push(g, f) /\ UNCHANGED <<thread, errno, dlerr, free, block>>
    BY <1>1 DEF CCallsBack
  <1>3. f \in Frame /\ f.kind = "go"  BY <1>1 DEF Frame, GoFrame
  <1>4. \A d \in Nat : FrameOK(g, d, f)'  BY <1>3 DEF FrameOK
  <1>5. GlobalsOK'  BY <1>2, GlobalTypes DEF GlobalsOK, IdOrNone, Id, Contents
  <1>6. \A h \in Goroutines : \A e \in Nat : \A k \in Frame :
          Kept(g, Depth(g), h, e) /\ k = stack[h][e] => FrameOK(h, e, k)'
    BY <1>2, SameBlocks
  <1> QED  BY <1>2, <1>3, <1>4, <1>5, <1>6, PushPreserves

\* A step of g that only changes its top frame, inside C or outside it.
LEMMA AdvancePreserves ==
  ASSUME IInv, NEW g \in Goroutines, NEW f \in Frame, Depth(g) > 0, Become(g, f),
         Top(g).kind # "go", f.kind = Top(g).kind,
         f.kind = "call" => f.block = Top(g).block,
         InCgocall(f) <=> InCgocall(Top(g)),
         FrameOK(g, Depth(g), f),
         UNCHANGED <<thread, errno, free, block>>, dlerr' \in [Threads -> IdOrNone]
  PROVE  IInv'
  <1>1. \A d \in Nat : d = Depth(g) => FrameOK(g, d, f)'  BY DEF FrameOK
  <1>2. GlobalsOK'  BY GlobalTypes DEF GlobalsOK, IdOrNone, Id, Contents
  <1>3. \A h \in Goroutines : \A e \in Nat : \A k \in Frame :
          Kept(g, Depth(g) - 1, h, e) /\ k = stack[h][e] => FrameOK(h, e, k)'
    BY SameBlocks
  <1>4. PICK m \in Threads \cup {None} : m = thread[g] /\ thread' = [thread EXCEPT ![g] = m]
    BY GlobalTypes
  <1>5. IF Depth(g) = 1 THEN m # None <=> InCgocall(f) ELSE m = thread[g]
    <2>1. CASE Depth(g) = 1
      <3>1. Len(stack[g]) > 0 /\ stack[g][1] = Top(g)  BY <2>1 DEF Depth, Top
      <3> QED  BY <1>4, <2>1, <3>1, ThreadOfOldest
    <2>2. CASE Depth(g) # 1  BY <1>4, <2>2
    <2> QED  BY <2>1, <2>2
  <1> QED  BY <1>1, <1>2, <1>3, <1>4, <1>5, BecomePreserves

LEMMA ReadResultsStep ==
  ASSUME IInv, NEW g \in Goroutines, ReadResults(g)
  PROVE  IInv'
  <1>1. Depth(g) > 0 /\ Top(g).kind = "call" /\ Top(g).pc = "back"
        /\ UNCHANGED <<thread, errno, dlerr, free, block>>
    BY DEF ReadResults, At
  <1>2. PICK t \in CallFrame : t = Top(g) /\ FrameOK(g, Depth(g), t)
    BY <1>1, FrameTypes, KindOfFrame
  <1>3. PICK b \in Contents : b = block[t.block]  BY <1>2, GlobalTypes DEF GlobalsOK, CallFrame
  <1>4. PICK f : f = [t EXCEPT !.pc = "done", !.r1 = b.r1, !.cerrno = b.errno]  OBVIOUS
  <1>5. Become(g, f)  BY <1>2, <1>3, <1>4 DEF ReadResults
  <1>6. /\ f \in CallFrame /\ f.kind = "call" /\ f.block = t.block /\ f.pc = "done"
        /\ f.moved = t.moved /\ f.left = t.left /\ f.r1 = b.r1 /\ f.cerrno = b.errno
    BY <1>3, <1>4 DEF CallFrame, Contents
  <1>7. f \in Frame /\ Top(g).kind # "go" /\ (InCgocall(f) <=> InCgocall(Top(g)))
    BY <1>1, <1>2, <1>6 DEF Frame, InCgocall
  <1>8. FrameOK(g, Depth(g), f)  BY <1>1, <1>2, <1>3, <1>6 DEF FrameOK
  <1>9. dlerr' \in [Threads -> IdOrNone]  BY <1>1, GlobalTypes DEF GlobalsOK
  <1> QED  BY <1>1, <1>2, <1>5, <1>6, <1>7, <1>8, <1>9, AdvancePreserves

LEMMA DlopenReturnsStep ==
  ASSUME IInv, NEW g \in Goroutines, DlopenReturns(g)
  PROVE  IInv'
  <1>1. Depth(g) > 0 /\ Top(g).kind = "load" /\ Top(g).pc = "inC"
        /\ UNCHANGED <<thread, errno, free, block>>
    BY DEF DlopenReturns, At
  <1>2. PICK t \in LoadFrame : t = Top(g) /\ FrameOK(g, Depth(g), t)
    BY <1>1, FrameTypes, KindOfFrame
  <1>3. PICK ok \in BOOLEAN :
          /\ Become(g, [Top(g) EXCEPT !.pc = "returned", !.ok = ok,
                                      !.result = IF ok /\ ~Top(g).moved THEN Me(g) ELSE None])
          /\ dlerr' = IF ok THEN dlerr ELSE [dlerr EXCEPT ![thread[g]] = Me(g)]
    BY DEF DlopenReturns
  <1>4. PICK r \in IdOrNone : r = IF ok /\ ~t.moved THEN Me(g) ELSE None
    BY <1>1, FrameTypes DEF IdOrNone
  <1>5. PICK f : f = [t EXCEPT !.pc = "returned", !.ok = ok, !.result = r]  OBVIOUS
  <1>6. Become(g, f)  BY <1>2, <1>3, <1>4, <1>5
  <1>7. /\ f \in LoadFrame /\ f.kind = "load" /\ f.pc = "returned" /\ f.ok = ok
        /\ f.moved = t.moved /\ f.result = r /\ f.text = t.text
    BY <1>4, <1>5 DEF LoadFrame
  <1>8. f \in Frame /\ Top(g).kind # "go" /\ (InCgocall(f) <=> InCgocall(Top(g)))
    BY <1>1, <1>2, <1>7 DEF Frame, InCgocall
  <1>9. FrameOK(g, Depth(g), f)
    <2>1. Me(g) = <<g, Depth(g)>>  BY DEF Me
    <2>2. t.text = None  BY <1>1, <1>2 DEF FrameOK
    <2> QED  BY <1>1, <1>4, <1>7, <2>1, <2>2 DEF FrameOK
  <1>10. dlerr' \in [Threads -> IdOrNone]
    BY <1>1, <1>3, FrameTypes, GlobalTypes DEF GlobalsOK, IdOrNone
  <1> QED  BY <1>1, <1>2, <1>6, <1>7, <1>8, <1>9, <1>10, AdvancePreserves

LEMMA DlopenChecksStep ==
  ASSUME IInv, NEW g \in Goroutines, DlopenChecks(g)
  PROVE  IInv'
  <1>1. Depth(g) > 0 /\ Top(g).kind = "load" /\ Top(g).pc = "back"
        /\ UNCHANGED <<thread, errno, dlerr, free, block>>
    BY DEF DlopenChecks, At
  <1>2. PICK t \in LoadFrame : t = Top(g) /\ FrameOK(g, Depth(g), t)
    BY <1>1, FrameTypes, KindOfFrame
  <1>3. PICK p \in {"failed", "done"} : p = IF t.result = None THEN "failed" ELSE "done"
    OBVIOUS
  <1>4. PICK f : f = [t EXCEPT !.pc = p]  OBVIOUS
  <1>5. Become(g, f)  BY <1>2, <1>3, <1>4 DEF DlopenChecks, Goto
  <1>6. /\ f \in LoadFrame /\ f.kind = "load" /\ f.pc = p /\ f.ok = t.ok
        /\ f.moved = t.moved /\ f.result = t.result /\ f.text = t.text
    BY <1>4 DEF LoadFrame
  <1>7. f \in Frame /\ Top(g).kind # "go" /\ (InCgocall(f) <=> InCgocall(Top(g)))
    BY <1>1, <1>2, <1>6 DEF Frame, InCgocall
  <1>8. FrameOK(g, Depth(g), f)
    <2>1. Me(g) = <<g, Depth(g)>> /\ Me(g) # None  BY <1>1, FrameTypes
    <2>2. t.ok = TRUE /\ t.moved = FALSE => t.result # None  BY <1>1, <1>2, <2>1 DEF FrameOK
    <2>3. t.ok = TRUE /\ t.moved = FALSE => p = "done"  BY <1>3, <2>2
    <2> QED  BY <1>1, <1>2, <1>6, <2>3 DEF FrameOK
  <1>9. dlerr' \in [Threads -> IdOrNone]  BY <1>1, GlobalTypes DEF GlobalsOK
  <1> QED  BY <1>1, <1>2, <1>5, <1>6, <1>7, <1>8, <1>9, AdvancePreserves

LEMMA dlerrorStringStep ==
  ASSUME IInv, NEW g \in Goroutines, NEW m \in Threads, dlerrorString(g, m)
  PROVE  IInv'
  <1>1. Depth(g) > 0 /\ Top(g).kind = "load" /\ Top(g).pc = "failed"
        /\ dlerr' = [dlerr EXCEPT ![m] = None] /\ UNCHANGED <<thread, errno, free, block>>
    BY DEF dlerrorString, At
  <1>2. PICK t \in LoadFrame : t = Top(g) /\ FrameOK(g, Depth(g), t)
    BY <1>1, FrameTypes, KindOfFrame
  <1>3. PICK x \in IdOrNone : x = dlerr[m]  BY GlobalTypes DEF GlobalsOK
  <1>4. PICK f : f = [t EXCEPT !.pc = "done", !.text = x]  OBVIOUS
  <1>5. Become(g, f)  BY <1>2, <1>3, <1>4 DEF dlerrorString
  <1>6. /\ f \in LoadFrame /\ f.kind = "load" /\ f.pc = "done" /\ f.ok = t.ok
        /\ f.moved = t.moved /\ f.result = t.result
    BY <1>3, <1>4 DEF LoadFrame
  <1>7. f \in Frame /\ Top(g).kind # "go" /\ (InCgocall(f) <=> InCgocall(Top(g)))
    BY <1>1, <1>2, <1>6 DEF Frame, InCgocall
  <1>8. FrameOK(g, Depth(g), f)
    <2>1. ~(t.ok = TRUE /\ t.moved = FALSE)  BY <1>1, <1>2 DEF FrameOK
    <2> QED  BY <1>6, <2>1 DEF FrameOK
  <1>9. dlerr' \in [Threads -> IdOrNone]
    BY <1>1, GlobalTypes DEF GlobalsOK, IdOrNone
  <1> QED  BY <1>1, <1>2, <1>5, <1>6, <1>7, <1>8, <1>9, AdvancePreserves

\* C below the top frame keeps g on a thread.
LEMMA ThreadBelowTop ==
  ASSUME IInv, NEW g \in Goroutines, Depth(g) > 1
  PROVE  thread[g] # None
  <1>1. 1 \in 1..(Len(stack[g]) - 1) /\ 1 \in 1..Len(stack[g]) /\ Len(stack[g]) > 0
    BY FrameTypes DEF Depth
  <1>2. stack[g][1] \in Frame /\ stack[g][1].kind # "go" /\ stack[g][1].pc = "inC"
    BY <1>1, FrameTypes DEF Alternates
  <1>3. InCgocall(stack[g][1])  BY <1>2, KindOfFrame DEF InCgocall
  <1> QED  BY <1>1, <1>3, ThreadOfOldest

LEMMA EnterStep ==
  ASSUME IInv, NEW g \in Goroutines, NEW m \in Threads, Enter(g, m)
  PROVE  IInv'
  <1>1. /\ Depth(g) > 0 /\ Top(g).kind \in {"call", "load"} /\ Top(g).pc = "ready"
        /\ m \in MayUse(g) /\ thread' = [thread EXCEPT ![g] = m]
        /\ UNCHANGED <<errno, dlerr, free, block>>
    BY DEF Enter, At
  <1>2. PICK t \in Frame : t = Top(g) /\ FrameOK(g, Depth(g), t)  BY <1>1, FrameTypes
  <1>3. PICK f \in Frame : /\ Become(g, f) /\ f.kind = t.kind /\ f.pc = "inC"
                           /\ f.kind = "call" => f.block = t.block
                           /\ FrameOK(g, Depth(g), f)
    <2>1. CASE At(g, "call", "ready")
      <3>1. t \in CallFrame /\ t.kind = "call" /\ t.pc = "ready"
        BY <1>2, <2>1, KindOfFrame DEF At
      <3>2. PICK x \in IdOrNone : x = block[t.block].arg
        BY <3>1, GlobalTypes DEF GlobalsOK, Contents, CallFrame
      <3>3. PICK f : f = [t EXCEPT !.pc = "inC", !.seen = x]  OBVIOUS
      <3>4. Become(g, f)  BY <1>2, <2>1, <3>2, <3>3 DEF Enter, At
      <3>5. /\ f \in CallFrame /\ f.kind = t.kind /\ f.pc = "inC" /\ f.block = t.block
            /\ f.moved = t.moved /\ f.seen = x
        BY <3>1, <3>2, <3>3 DEF CallFrame
      <3>6. FrameOK(g, Depth(g), f)  BY <1>2, <3>1, <3>2, <3>5 DEF FrameOK
      <3> QED  BY <3>4, <3>5, <3>6 DEF Frame
    <2>2. CASE At(g, "load", "ready")
      <3>1. t \in LoadFrame /\ t.kind = "load" /\ t.pc = "ready"
        BY <1>2, <2>2, KindOfFrame DEF At
      <3>2. PICK f : f = [t EXCEPT !.pc = "inC"]  OBVIOUS
      <3>3. Become(g, f)  BY <1>2, <2>2, <3>2 DEF Enter, Goto, At
      <3>4. /\ f \in LoadFrame /\ f.kind = t.kind /\ f.pc = "inC"
            /\ f.moved = t.moved /\ f.ok = t.ok /\ f.text = t.text
        BY <3>1, <3>2 DEF LoadFrame
      <3>5. FrameOK(g, Depth(g), f)  BY <1>2, <3>1, <3>4 DEF FrameOK
      <3> QED  BY <3>1, <3>3, <3>4, <3>5 DEF Frame
    <2> QED  BY <2>1, <2>2 DEF Enter
  <1>4. \A d \in Nat : d = Depth(g) => FrameOK(g, d, f)'  BY <1>1, <1>3 DEF FrameOK
  <1>5. GlobalsOK'  BY <1>1, GlobalTypes DEF GlobalsOK, IdOrNone, Id, Contents
  <1>6. \A h \in Goroutines : \A e \in Nat : \A k \in Frame :
          Kept(g, Depth(g) - 1, h, e) /\ k = stack[h][e] => FrameOK(h, e, k)'
    BY <1>1, SameBlocks
  <1>7. IF Depth(g) = 1 THEN m # None <=> InCgocall(f) ELSE m = thread[g]
    <2>1. InCgocall(f) /\ m # None  BY <1>1, <1>2, <1>3, NoneAssumption DEF InCgocall
    <2>2. CASE Depth(g) # 1
      <3>1. Depth(g) \in Nat  BY FrameTypes DEF Depth
      <3>2. Depth(g) > 1  BY <1>1, <2>2, <3>1
      <3> QED  BY <1>1, <2>2, <3>2, ThreadBelowTop DEF MayUse
    <2> QED  BY <2>1, <2>2
  <1> QED  BY <1>1, <1>2, <1>3, <1>4, <1>5, <1>6, <1>7, BecomePreserves

LEMMA CgocallReturnsStep ==
  ASSUME IInv, NEW g \in Goroutines, CgocallReturns(g)
  PROVE  IInv'
  <1>1. /\ Depth(g) > 0 /\ Top(g).kind \in {"call", "load"} /\ Top(g).pc = "returned"
        /\ UNCHANGED <<errno, dlerr, free, block>>
    BY DEF CgocallReturns, At
  <1>2. PICK t \in Frame : t = Top(g) /\ FrameOK(g, Depth(g), t)  BY <1>1, FrameTypes
  <1>3. PICK f : f = [t EXCEPT !.pc = "back"]  OBVIOUS
  <1>4. Become(g, f)  BY <1>2, <1>3 DEF CgocallReturns, Goto
  <1>5. /\ f \in Frame /\ f.kind = t.kind /\ f.pc = "back" /\ FrameOK(g, Depth(g), f)
        /\ f.kind = "call" => f.block = t.block
    <2>1. CASE t.kind = "call"
      <3>1. /\ f \in CallFrame /\ f.kind = t.kind /\ f.pc = "back" /\ f.block = t.block
            /\ f.moved = t.moved /\ f.left = t.left
        BY <1>2, <1>3, <2>1, KindOfFrame DEF CallFrame
      <3> QED  BY <1>1, <1>2, <2>1, <3>1 DEF Frame, FrameOK
    <2>2. CASE t.kind = "load"
      <3>1. /\ f \in LoadFrame /\ f.kind = t.kind /\ f.pc = "back"
            /\ f.moved = t.moved /\ f.ok = t.ok /\ f.result = t.result /\ f.text = t.text
        BY <1>2, <1>3, <2>2, KindOfFrame DEF LoadFrame
      <3> QED  BY <1>1, <1>2, <2>2, <3>1 DEF Frame, FrameOK
    <2> QED  BY <1>1, <1>2, <2>1, <2>2
  <1>6. \A d \in Nat : d = Depth(g) => FrameOK(g, d, f)'  BY <1>1, <1>5 DEF FrameOK
  <1>7. GlobalsOK'  BY <1>1, GlobalTypes DEF GlobalsOK, IdOrNone, Id, Contents
  <1>8. \A h \in Goroutines : \A e \in Nat : \A k \in Frame :
          Kept(g, Depth(g) - 1, h, e) /\ k = stack[h][e] => FrameOK(h, e, k)'
    BY <1>1, SameBlocks
  <1>9. PICK m \in Threads \cup {None} :
          m = ThreadBelow(g, Depth(g) - 1) /\ thread' = [thread EXCEPT ![g] = m]
    BY GlobalTypes DEF CgocallReturns, ThreadBelow
  <1>10. IF Depth(g) = 1 THEN m # None <=> InCgocall(f) ELSE m = thread[g]
    <2>1. ~InCgocall(f)  BY <1>5 DEF InCgocall
    <2>2. Depth(g) \in Nat  BY FrameTypes DEF Depth
    <2> QED  BY <1>9, <2>1, <2>2 DEF ThreadBelow
  <1> QED  BY <1>1, <1>2, <1>4, <1>5, <1>6, <1>7, <1>8, <1>9, <1>10, BecomePreserves

LEMMA SetErrnoStep ==
  ASSUME IInv, NEW g \in Goroutines, SetErrno(g)
  PROVE  IInv'
  <1>1. /\ Depth(g) > 0 /\ errno' = [errno EXCEPT ![thread[g]] = Me(g)]
        /\ UNCHANGED <<stack, thread, dlerr, free, block>>
    BY DEF SetErrno, At
  <1>2. errno' \in [Threads -> IdOrNone]
    BY <1>1, FrameTypes, GlobalTypes DEF GlobalsOK, IdOrNone
  <1>3. TypeOK'  BY <1>1, <1>2 DEF IInv, TypeOK, Id, IdOrNone, Contents, InCgocall
  <1>4. Frames'
    <2> SUFFICES ASSUME NEW h \in Goroutines, NEW d \in 1..Len(stack'[h])
                 PROVE  FrameOK(h, d, stack[h][d])'
      BY DEF Frames
    <2>1. FrameOK(h, d, stack[h][d])  BY <1>1, FrameTypes
    <2> QED  BY <1>1, <2>1 DEF FrameOK
  <1>5. Nesting' /\ Exclusive'  BY <1>1 DEF IInv, Nesting, Alternates, Exclusive
  <1> QED  BY <1>3, <1>4, <1>5 DEF IInv

LEMMA CReturnsStep ==
  ASSUME IInv, NEW g \in Goroutines, CReturns(g)
  PROVE  IInv'
  <1>1. Depth(g) > 0 /\ Top(g).kind = "call" /\ Top(g).pc = "inC"
        /\ UNCHANGED <<thread, errno, dlerr, free>>
    BY DEF CReturns, Store, At
  <1>2. PICK t \in CallFrame : t = Top(g) /\ FrameOK(g, Depth(g), t)
    BY <1>1, FrameTypes, KindOfFrame
  <1>3. PICK n \in Nat : n = Depth(g) - 1 /\ n + 1 \in 1..Len(stack[g]) /\ Top(g) = stack[g][n + 1]
    <2>1. Depth(g) \in 1..Len(stack[g])  BY <1>1, FrameTypes
    <2> QED  BY <2>1 DEF Depth, Top
  <1>4. PICK x \in IdOrNone : x = errno[thread[g]]
    <2>1. Top(g) \in Frame /\ InCgocall(Top(g)) /\ DOMAIN stack[g] = 1..Len(stack[g])
      BY <1>1, FrameTypes DEF InCgocall, IInv, TypeOK
    <2>2. thread[g] # None  BY <1>3, <2>1 DEF IInv, TypeOK
    <2>3. thread[g] \in Threads  BY <2>2, GlobalTypes
    <2> QED  BY <2>3, GlobalTypes DEF GlobalsOK
  <1>5. PICK b \in Blocks : b = t.block  BY <1>2 DEF CallFrame
  <1>6. block' = [block EXCEPT ![b].r1 = t.seen, ![b].errno = x]
    <2>1. t.moved = FALSE  BY <1>1, <1>2 DEF FrameOK
    <2> QED  BY <1>2, <1>4, <1>5, <2>1 DEF CReturns, Store
  <1>7. PICK f : f = [t EXCEPT !.pc = "returned", !.left = x]  OBVIOUS
  <1>8. Become(g, f)  BY <1>2, <1>4, <1>7 DEF CReturns, Store
  <1>9. /\ f \in CallFrame /\ f.kind = "call" /\ f.block = b /\ f.pc = "returned"
        /\ f.moved = t.moved /\ f.left = x /\ f \in Frame
    BY <1>4, <1>5, <1>7 DEF CallFrame, Frame
  <1>10. /\ block' \in [Blocks -> Contents] /\ block'[b].r1 = t.seen /\ block'[b].errno = x
         /\ \A c \in Blocks \ {b} : block'[c] = block[c]
    <2>1. PICK c \in Contents : c = block[b]  BY GlobalTypes DEF GlobalsOK
    <2>2. PICK d : d = [c EXCEPT !.r1 = t.seen, !.errno = x]  OBVIOUS
    <2>3. block' = [block EXCEPT ![b] = d]
      BY <1>6, <2>1, <2>2, GlobalTypes DEF GlobalsOK, Contents
    <2>4. t.seen \in IdOrNone  BY <1>2 DEF CallFrame
    <2>5. d \in Contents /\ d.r1 = t.seen /\ d.errno = x  BY <1>4, <2>2, <2>4 DEF Contents
    <2> QED  BY <2>3, <2>5, GlobalTypes DEF GlobalsOK
  <1>11. \A d \in Nat : d = Depth(g) => FrameOK(g, d, f)'
    <2>1. t.seen = <<g, Depth(g)>> /\ b \notin free /\ t.moved = FALSE
      BY <1>1, <1>2, <1>5 DEF FrameOK
    <2> QED  BY <1>1, <1>9, <1>10, <2>1 DEF FrameOK
  <1>12. GlobalsOK'  BY <1>1, <1>10, GlobalTypes DEF GlobalsOK, IdOrNone, Id, Contents
  <1>13. \A h \in Goroutines : \A e \in Nat : \A k \in Frame :
           Kept(g, n, h, e) /\ k = stack[h][e] => FrameOK(h, e, k)'
    <2>1. \A h \in Goroutines : \A e \in Nat :
            Kept(g, n, h, e) /\ stack[h][e].kind = "call" => stack[h][e].block # b
      BY <1>1, <1>2, <1>3, <1>5, BlockOfOthers
    <2> QED  BY <1>1, <1>10, <2>1, OtherBlocks
  <1>14. PICK m \in Threads \cup {None} : m = thread[g] /\ thread' = [thread EXCEPT ![g] = m]
    BY <1>1, GlobalTypes
  <1>15. IF Depth(g) = 1 THEN m # None <=> InCgocall(f) ELSE m = thread[g]
    <2>1. InCgocall(f) /\ InCgocall(Top(g))  BY <1>1, <1>9 DEF InCgocall
    <2>2. thread[g] # None
      <3>1. DOMAIN stack[g] = 1..Len(stack[g])  BY DEF IInv, TypeOK
      <3> QED  BY <1>3, <2>1, <3>1 DEF IInv, TypeOK
    <2> QED  BY <1>14, <2>1, <2>2
  <1> QED  BY <1>1, <1>2, <1>3, <1>5, <1>8, <1>9, <1>11, <1>12, <1>13, <1>14, <1>15,
              BecomePreserves

\* A step of g that ends its top frame, which is not in C.
LEMMA EndPreserves ==
  ASSUME IInv, NEW g \in Goroutines, Depth(g) > 0, ~InCgocall(Top(g)), Pop(g, 1),
         \A h \in Goroutines : \A e \in Nat : \A k \in Frame :
           Kept(g, Depth(g) - 1, h, e) /\ k = stack[h][e] => FrameOK(h, e, k)',
         free' \subseteq Blocks, block' \in [Blocks -> Contents],
         UNCHANGED <<thread, errno, dlerr>>
  PROVE  IInv'
  <1>1. GlobalsOK'  BY GlobalTypes DEF GlobalsOK, IdOrNone, Id, Contents
  <1>2. PICK m \in Threads \cup {None} : m = thread[g] /\ thread' = [thread EXCEPT ![g] = m]
    BY GlobalTypes
  <1>3. m = IF Depth(g) = 1 THEN None ELSE thread[g]
    <2>1. CASE Depth(g) = 1
      <3>1. stack[g][1] = Top(g)  BY <2>1 DEF Depth, Top
      <3>2. ~InCgocall(stack[g][1])  BY <3>1
      <3> QED  BY <1>2, <2>1, <3>2, ThreadOfOldest
    <2> QED  BY <1>2, <2>1
  <1>4. 1 \in Nat /\ 1 <= Depth(g)
    <2>1. Depth(g) \in Nat  BY FrameTypes DEF Depth
    <2> QED  BY <2>1
  <1> QED  BY <1>1, <1>2, <1>3, <1>4, PopPreserves

LEMMA GoReturnsStep ==
  ASSUME IInv, NEW g \in Goroutines, GoReturns(g)
  PROVE  IInv'
  <1>1. /\ Depth(g) > 0 /\ Top(g).kind = "go" /\ Pop(g, 1)
        /\ UNCHANGED <<thread, errno, dlerr, free, block>>
    BY DEF GoReturns, At
  <1>2. ~InCgocall(Top(g))  BY <1>1 DEF InCgocall
  <1>3. free' \subseteq Blocks /\ block' \in [Blocks -> Contents]
    BY <1>1, GlobalTypes DEF GlobalsOK
  <1> QED  BY <1>1, <1>2, <1>3, SameBlocks, EndPreserves

LEMMA LoadLibraryStep ==
  ASSUME IInv, NEW g \in Goroutines, LoadLibrary(g)
  PROVE  IInv'
  <1>1. /\ Depth(g) > 0 /\ Top(g).pc = "done" /\ Pop(g, 1)
        /\ UNCHANGED <<thread, errno, dlerr, free, block>>
    BY DEF LoadLibrary, At
  <1>2. ~InCgocall(Top(g))  BY <1>1 DEF InCgocall
  <1>3. free' \subseteq Blocks /\ block' \in [Blocks -> Contents]
    BY <1>1, GlobalTypes DEF GlobalsOK
  <1> QED  BY <1>1, <1>2, <1>3, SameBlocks, EndPreserves

\* Put: the block of frame n + 1 of g, a call, is on no frame that is kept.
LEMMA PutPreserves ==
  ASSUME IInv, NEW g \in Goroutines, NEW n \in Nat, n + 1 \in 1..Len(stack[g]),
         stack[g][n + 1].kind = "call", Put(stack[g][n + 1].block)
  PROVE  /\ free' \subseteq Blocks /\ block' \in [Blocks -> Contents]
         /\ \A h \in Goroutines : \A e \in Nat : \A k \in Frame :
              Kept(g, n, h, e) /\ k = stack[h][e] => FrameOK(h, e, k)'
  <1>1. stack[g][n + 1] \in Frame  BY FrameTypes
  <1>2. PICK b \in Blocks : b = stack[g][n + 1].block
    BY <1>1, KindOfFrame DEF CallFrame
  <1>3. free' = free \cup {b} /\ block' = [block EXCEPT ![b] = Empty]  BY <1>2 DEF Put
  <1>4. Empty \in Contents  BY DEF Empty, Contents, IdOrNone
  <1>5. /\ free' \subseteq Blocks /\ block' \in [Blocks -> Contents]
        /\ \A c \in Blocks \ {b} : block'[c] = block[c]
    BY <1>3, <1>4, GlobalTypes DEF GlobalsOK
  <1>6. \A h \in Goroutines : \A e \in Nat :
          Kept(g, n, h, e) /\ stack[h][e].kind = "call" => stack[h][e].block # b
    BY <1>2, BlockOfOthers
  <1> QED  BY <1>3, <1>5, <1>6, OtherBlocks

LEMMA ReturnStep ==
  ASSUME IInv, NEW g \in Goroutines, Return(g)
  PROVE  IInv'
  <1>1. /\ Depth(g) > 0 /\ Top(g).kind = "call" /\ Top(g).pc = "done" /\ Pop(g, 1)
        /\ Put(Top(g).block) /\ UNCHANGED <<thread, errno, dlerr>>
    BY DEF Return, At
  <1>2. PICK n \in Nat : n = Depth(g) - 1 /\ n + 1 \in 1..Len(stack[g]) /\ Top(g) = stack[g][n + 1]
    <2>1. Depth(g) \in 1..Len(stack[g])  BY <1>1, FrameTypes
    <2> QED  BY <2>1 DEF Depth, Top
  <1>3. /\ free' \subseteq Blocks /\ block' \in [Blocks -> Contents]
        /\ \A h \in Goroutines : \A e \in Nat : \A k \in Frame :
             Kept(g, n, h, e) /\ k = stack[h][e] => FrameOK(h, e, k)'
    BY <1>1, <1>2, PutPreserves
  <1>4. ~InCgocall(Top(g))  BY <1>1 DEF InCgocall
  <1> QED  BY <1>1, <1>2, <1>3, <1>4, EndPreserves

LEMMA UnwindStep ==
  ASSUME IInv, NEW g \in Goroutines, Unwind(g)
  PROVE  IInv'
  <1>1. Depth(g) > 0 /\ Top(g).kind = "go" /\ Pop(g, 2) /\ UNCHANGED <<errno, dlerr>>
    BY DEF Unwind, At
  <1>2. /\ Depth(g) \in 1..Len(stack[g]) /\ Depth(g) = Len(stack[g]) /\ Depth(g) \in Nat
        /\ Top(g) = stack[g][Depth(g)] /\ Alternates(stack[g])
    BY <1>1, FrameTypes DEF Depth
  <1>3. Depth(g) \in Nat /\ Depth(g) >= 2
    <2>1. Depth(g) # 1  BY <1>1, <1>2 DEF Alternates
    <2>2. Depth(g) \in Nat /\ Depth(g) > 0 /\ Depth(g) # 1  BY <1>1, <1>2, <2>1
    <2> QED  BY <2>2
  <1>4. PICK n \in Nat : n = Depth(g) - 2 /\ Depth(g) = n + 2
    <2>1. Depth(g) - 2 \in Nat /\ Depth(g) = (Depth(g) - 2) + 2  BY <1>3
    <2> QED  BY <2>1
  <1>5. PICK c \in Frame : c = stack[g][n + 1] /\ n + 1 \in 1..Len(stack[g])
    <2>1. n + 1 \in 1..Len(stack[g])  BY <1>2, <1>4
    <2> QED  BY <2>1, FrameTypes
  <1>6. n + 1 = Depth(g) - 1  BY <1>4
  <1>7. IF c.kind = "call" THEN Put(c.block) ELSE UNCHANGED <<free, block>>
    BY <1>5, <1>6 DEF Unwind
  <1>8. /\ free' \subseteq Blocks /\ block' \in [Blocks -> Contents]
        /\ \A h \in Goroutines : \A e \in Nat : \A k \in Frame :
             Kept(g, n, h, e) /\ k = stack[h][e] => FrameOK(h, e, k)'
    <2>1. CASE c.kind = "call"  BY <1>5, <1>7, <2>1, PutPreserves
    <2>2. CASE c.kind # "call"
      <3>1. UNCHANGED <<free, block>>  BY <1>7, <2>2
      <3> QED  BY <3>1, SameBlocks, GlobalTypes DEF GlobalsOK
    <2> QED  BY <2>1, <2>2
  <1>9. GlobalsOK'  BY <1>1, <1>8, GlobalTypes DEF GlobalsOK, IdOrNone, Id, Contents
  <1>10. PICK m \in Threads \cup {None} :
           m = ThreadBelow(g, Depth(g) - 2) /\ thread' = [thread EXCEPT ![g] = m]
    BY GlobalTypes DEF Unwind, ThreadBelow
  <1>11. m = IF Depth(g) = 2 THEN None ELSE thread[g]
    BY <1>4, <1>10 DEF ThreadBelow
  <1>12. 2 \in Nat /\ 2 <= Depth(g)  BY <1>4
  <1> QED  BY <1>1, <1>4, <1>8, <1>9, <1>10, <1>11, <1>12, PopPreserves

\* The stack moves: only the frames of loads change, and only their moved flag.
LEMMA GrowStackStep ==
  ASSUME IInv, NEW g \in Goroutines, GrowStack(g)
  PROVE  IInv'
  <1> DEFINE grown(k) == IF k.kind = "load" THEN [k EXCEPT !.moved = TRUE] ELSE k
  <1>1. UNCHANGED <<thread, errno, dlerr, free, block>>  BY DEF GrowStack
  <1>2. stack' = [stack EXCEPT ![g] = [d \in DOMAIN stack[g] |-> grown(stack[g][d])]]
    BY DEF GrowStack, OnGoStack
  <1>3. ASSUME NEW k \in Frame
        PROVE  /\ grown(k) \in Frame /\ grown(k).kind = k.kind /\ grown(k).pc = k.pc
               /\ k.kind = "call" => grown(k) = k
               /\ InCgocall(grown(k)) <=> InCgocall(k)
               /\ \A h \in Goroutines : \A d \in Nat : FrameOK(h, d, k) => FrameOK(h, d, grown(k))
    <2>1. CASE k.kind = "load"
      <3>1. k \in LoadFrame  BY <2>1, KindOfFrame
      <3>2. PICK f : f = [k EXCEPT !.moved = TRUE]  OBVIOUS
      <3>3. /\ f \in LoadFrame /\ f.kind = "load" /\ f.pc = k.pc /\ f.moved = TRUE
            /\ f.text = k.text
        BY <2>1, <3>1, <3>2 DEF LoadFrame
      <3>4. grown(k) = f  BY <2>1, <3>2
      <3>5. f \in Frame /\ (InCgocall(f) <=> InCgocall(k))
        BY <2>1, <3>3 DEF Frame, InCgocall
      <3>6. ASSUME NEW h \in Goroutines, NEW d \in Nat, FrameOK(h, d, k)
            PROVE  FrameOK(h, d, f)
        BY <2>1, <3>3, <3>6 DEF FrameOK
      <3> QED  BY <2>1, <3>3, <3>4, <3>5, <3>6
    <2>2. CASE k.kind # "load"
      <3>1. grown(k) = k  BY <2>2
      <3> QED  BY <3>1
    <2> QED  BY <2>1, <2>2
  <1> HIDE DEF grown
  <1>4. ASSUME NEW h \in Goroutines
        PROVE  /\ stack'[h] \in Seq(Frame) /\ Len(stack'[h]) = Len(stack[h])
               /\ \A d \in 1..Len(stack[h]) :
                    stack'[h][d] = IF h = g THEN grown(stack[h][d]) ELSE stack[h][d]
    <2>1. stack[h] \in Seq(Frame) /\ DOMAIN stack[h] = 1..Len(stack[h]) /\ Len(stack[h]) \in Nat
      BY DEF IInv, TypeOK
    <2>2. CASE h = g
      <3>1. stack'[h] = [d \in 1..Len(stack[h]) |-> grown(stack[h][d])]
        BY <1>2, <2>1, <2>2 DEF IInv, TypeOK
      <3>2. \A d \in 1..Len(stack[h]) : grown(stack[h][d]) \in Frame  BY <1>3, <2>1
      <3>3. stack'[h] \in Seq(Frame) /\ Len(stack'[h]) = Len(stack[h])
        BY <2>1, <3>1, <3>2
      <3> QED  BY <2>2, <3>1, <3>3
    <2>3. CASE h # g
      <3>1. stack'[h] = stack[h]  BY <1>2, <2>3 DEF IInv, TypeOK
      <3> QED  BY <2>1, <2>3, <3>1
    <2> QED  BY <2>2, <2>3
  <1>5. ASSUME NEW h \in Goroutines, NEW d \in 1..Len(stack[h])
        PROVE  /\ stack'[h][d] \in Frame /\ stack'[h][d].kind = stack[h][d].kind
               /\ stack'[h][d].pc = stack[h][d].pc
               /\ stack[h][d].kind = "call" => stack'[h][d] = stack[h][d]
               /\ InCgocall(stack'[h][d]) <=> InCgocall(stack[h][d])
               /\ FrameOK(h, d, stack'[h][d])
    <2>1. stack[h][d] \in Frame /\ FrameOK(h, d, stack[h][d])  BY FrameTypes
    <2>0. d \in Nat
      <3>1. Len(stack[h]) \in Nat  BY FrameTypes
      <3> QED  BY <3>1
    <2>2. stack'[h][d] = grown(stack[h][d]) \/ stack'[h][d] = stack[h][d]  BY <1>4
    <2> QED  BY <1>3, <2>1, <2>0, <2>2
  <1>6. stack' \in [Goroutines -> Seq(Frame)]
    BY <1>2, <1>4 DEF IInv, TypeOK
  <1>7. TypeOK'
    <2>1. \A h \in Goroutines :
            thread'[h] # None <=> \E d \in DOMAIN stack'[h] : InCgocall(stack'[h][d])
      <3> SUFFICES ASSUME NEW h \in Goroutines
                   PROVE  thread'[h] # None <=> \E d \in DOMAIN stack'[h] : InCgocall(stack'[h][d])
        OBVIOUS
      <3>1. DOMAIN stack'[h] = 1..Len(stack[h])  BY <1>4
      <3>2. DOMAIN stack[h] = 1..Len(stack[h])  BY DEF IInv, TypeOK
      <3>3. thread[h] # None <=> \E d \in DOMAIN stack[h] : InCgocall(stack[h][d])
        BY DEF IInv, TypeOK
      <3> QED  BY <1>1, <1>5, <3>1, <3>2, <3>3
    <2>2. \A h \in Goroutines :
            (thread[h] # None <=> \E d \in DOMAIN stack[h] : InCgocall(stack[h][d]))'
      BY <2>1 DEF InCgocall
    <2> QED  BY <1>1, <1>6, <2>2 DEF IInv, TypeOK, IdOrNone, Id, Contents
  <1>8. Frames'
    <2> SUFFICES ASSUME NEW h \in Goroutines, NEW d \in 1..Len(stack'[h])
                 PROVE  FrameOK(h, d, stack[h][d])'
      BY DEF Frames
    <2>1. FrameOK(h, d, stack'[h][d])  BY <1>4, <1>5
    <2> QED  BY <1>1, <2>1 DEF FrameOK
  <1>9. Nesting'
    <2> SUFFICES ASSUME NEW h \in Goroutines
                 PROVE  Alternates(stack'[h]) /\ Len(stack'[h]) <= MaxDepth
      BY DEF Nesting, Alternates
    <2>1. Alternates(stack[h]) /\ Len(stack[h]) \in Nat /\ Len(stack'[h]) = Len(stack[h])
          /\ Len(stack[h]) <= MaxDepth
      BY <1>4, FrameTypes
    <2>2. \A d \in 1..(Len(stack[h]) - 1) : d \in 1..Len(stack[h]) /\ d + 1 \in 1..Len(stack[h])
      BY <2>1
    <2>3. Len(stack[h]) > 0 => 1 \in 1..Len(stack[h])  BY <2>1
    <2>4. Len(stack'[h]) > 0 => stack'[h][1].kind # "go"
      BY <1>5, <2>1, <2>3 DEF Alternates
    <2>5. ASSUME NEW d \in 1..(Len(stack'[h]) - 1)
          PROVE  IF stack'[h][d].kind = "go" THEN stack'[h][d + 1].kind # "go"
                 ELSE stack'[h][d].pc = "inC" /\ stack'[h][d + 1].kind = "go"
      <3>1. d \in 1..(Len(stack[h]) - 1)  BY <2>1
      <3>2. IF stack[h][d].kind = "go" THEN stack[h][d + 1].kind # "go"
            ELSE stack[h][d].pc = "inC" /\ stack[h][d + 1].kind = "go"
        BY <2>1, <3>1 DEF Alternates
      <3>3. /\ stack'[h][d].kind = stack[h][d].kind /\ stack'[h][d].pc = stack[h][d].pc
            /\ stack'[h][d + 1].kind = stack[h][d + 1].kind
        BY <1>5, <2>2, <3>1
      <3> QED  BY <3>2, <3>3
    <2> QED  BY <2>1, <2>4, <2>5 DEF Alternates
  <1>10. Exclusive'
    <2> SUFFICES ASSUME NEW h \in Goroutines, NEW k \in Goroutines,
                        NEW d \in 1..Len(stack'[h]), NEW e \in 1..Len(stack'[k]),
                        stack'[h][d].kind = "call", stack'[k][e].kind = "call",
                        stack'[h][d].block = stack'[k][e].block
                 PROVE  h = k /\ d = e
      BY DEF Exclusive
    <2>1. d \in 1..Len(stack[h]) /\ e \in 1..Len(stack[k])  BY <1>4
    <2>2. stack'[h][d] = stack[h][d] /\ stack'[k][e] = stack[k][e]  BY <1>5, <2>1
    <2> QED  BY <2>1, <2>2 DEF IInv, Exclusive
  <1> QED  BY <1>7, <1>8, <1>9, <1>10 DEF IInv

\* So does a step that changes nothing.
LEMMA StutterStep ==
  ASSUME IInv, UNCHANGED vars
  PROVE  IInv'
  <1>1. UNCHANGED <<stack, thread, errno, dlerr, free, block>>  BY DEF vars
  <1>2. TypeOK'  BY <1>1 DEF IInv, TypeOK, Id, IdOrNone, Contents, InCgocall
  <1>3. Frames'
    <2> SUFFICES ASSUME NEW h \in Goroutines, NEW d \in 1..Len(stack'[h])
                 PROVE  FrameOK(h, d, stack[h][d])'
      BY DEF Frames
    <2>1. FrameOK(h, d, stack[h][d])  BY <1>1, FrameTypes
    <2> QED  BY <1>1, <2>1 DEF FrameOK
  <1>4. Nesting' /\ Exclusive'  BY <1>1 DEF IInv, Nesting, Alternates, Exclusive
  <1> QED  BY <1>2, <1>3, <1>4 DEF IInv

\* Nobody has called anything yet.
LEMMA InitEstablishes == Init => IInv
  <1> SUFFICES ASSUME Init PROVE IInv  OBVIOUS
  <1>1. \A g \in Goroutines : stack[g] = <<>> /\ thread[g] = None  BY DEF Init
  <1>2. stack \in [Goroutines -> Seq(Frame)]  BY DEF Init
  <1>3. \A g \in Goroutines :
          thread[g] # None <=> \E d \in DOMAIN stack[g] : InCgocall(stack[g][d])
    <2> SUFFICES ASSUME NEW g \in Goroutines
                 PROVE  ~ \E d \in DOMAIN stack[g] : InCgocall(stack[g][d])
      BY <1>1
    <2>1. DOMAIN stack[g] = 1..Len(stack[g]) /\ Len(stack[g]) = 0  BY <1>1, <1>2
    <2> QED  BY <2>1
  <1>4. TypeOK
    BY <1>2, <1>3 DEF Init, TypeOK, IdOrNone, Contents, Empty
  <1>5. Frames /\ Exclusive  BY <1>1 DEF Frames, Exclusive
  <1>6. Nesting
    <2> SUFFICES ASSUME NEW g \in Goroutines
                 PROVE  Alternates(stack[g]) /\ Len(stack[g]) <= MaxDepth
      BY DEF Nesting
    <2>1. Len(stack[g]) = 0  BY <1>1
    <2> QED  BY <2>1, BoundsAssumption DEF Alternates
  <1> QED  BY <1>4, <1>5, <1>6 DEF IInv
--------------------------------------------------------------------------------
\* The invariant of the proofs, for ForeignCalls as a whole.
THEOREM Invariance == Spec => []IInv
  <1>1. IInv /\ [Next]_vars => IInv'
    <2> SUFFICES ASSUME IInv, [Next]_vars PROVE IInv'  OBVIOUS
    <2>1. CASE UNCHANGED vars  BY <2>1, StutterStep
    <2>2. ASSUME NEW g \in Goroutines, NEW b \in Blocks, CallNFloatErrno(g, b)
          PROVE  IInv'
      BY <2>2, CallNFloatErrnoStep
    <2>3. ASSUME NEW g \in Goroutines, NEW m \in Threads, Enter(g, m) \/ dlerrorString(g, m)
          PROVE  IInv'
      BY <2>3, EnterStep, dlerrorStringStep
    <2>4. ASSUME NEW g \in Goroutines,
                 SetErrno(g) \/ CReturns(g) \/ CgocallReturns(g) \/ ReadResults(g) \/ Return(g)
          PROVE  IInv'
      BY <2>4, SetErrnoStep, CReturnsStep, CgocallReturnsStep, ReadResultsStep, ReturnStep
    <2>5. ASSUME NEW g \in Goroutines,
                 CCallsBack(g) \/ GoReturns(g) \/ Unwind(g) \/ GrowStack(g)
          PROVE  IInv'
      BY <2>5, CCallsBackStep, GoReturnsStep, UnwindStep, GrowStackStep
    <2>6. ASSUME NEW g \in Goroutines,
                 Dlopen(g) \/ DlopenReturns(g) \/ DlopenChecks(g) \/ LoadLibrary(g)
          PROVE  IInv'
      BY <2>6, DlopenStep, DlopenReturnsStep, DlopenChecksStep, LoadLibraryStep
    <2> QED  BY <2>1, <2>2, <2>3, <2>4, <2>5, <2>6 DEF Next
  <1> QED  BY <1>1, InitEstablishes, PTL DEF Spec

\* The frames, the pool, errno and dlerror keep their types, and a goroutine has
\* an OS thread exactly while C is on its stack (CallNFloatErrno, LoadLibrary).
THEOREM TypeCorrect == Spec => []TypeOK
  <1>1. IInv => TypeOK  BY DEF IInv
  <1> QED  BY <1>1, Invariance, PTL

\* syscallArgsPool: a block belongs to one call in progress or to the pool.
THEOREM NoSharedBlock == Spec => []BlockIsExclusive
  <1>1. IInv => BlockIsExclusive
    <2> SUFFICES ASSUME IInv, NEW g \in Goroutines, NEW h \in Goroutines,
                        NEW d \in DOMAIN stack[g], NEW e \in DOMAIN stack[h],
                        NEW b \in Blocks, Holds(g, d, b)
                 PROVE  b \notin free /\ (Holds(h, e, b) => g = h /\ d = e)
      BY DEF BlockIsExclusive
    <2>1. d \in 1..Len(stack[g]) /\ e \in 1..Len(stack[h])  BY DEF IInv, TypeOK
    <2>2. FrameOK(g, d, stack[g][d])  BY <2>1, FrameTypes
    <2>3. b \notin free  BY <2>2 DEF Holds, FrameOK
    <2>4. Holds(h, e, b) => g = h /\ d = e  BY <2>1 DEF Holds, IInv, Exclusive
    <2> QED  BY <2>3, <2>4
  <1> QED  BY <1>1, Invariance, PTL

\* CallNFloatErrno returns the result of the C function it called.
THEOREM OwnResult == Spec => []ResultIsOwn
  <1>1. IInv => ResultIsOwn
    <2> SUFFICES ASSUME IInv, NEW g \in Goroutines, At(g, "call", "done")
                 PROVE  Top(g).r1 = Me(g)
      BY DEF ResultIsOwn
    <2>1. FrameOK(g, Depth(g), Top(g)) /\ Me(g) = <<g, Depth(g)>>  BY FrameTypes DEF At
    <2> QED  BY <2>1 DEF FrameOK, At
  <1> QED  BY <1>1, Invariance, PTL

\* ... and the errno that function left on the thread it ran on.
THEOREM OwnErrno == Spec => []ErrnoIsOwn
  <1>1. IInv => ErrnoIsOwn
    <2> SUFFICES ASSUME IInv, NEW g \in Goroutines, At(g, "call", "done")
                 PROVE  Top(g).cerrno = Top(g).left
      BY DEF ErrnoIsOwn
    <2>1. FrameOK(g, Depth(g), Top(g))  BY FrameTypes DEF At
    <2> QED  BY <2>1 DEF FrameOK, At
  <1> QED  BY <1>1, Invariance, PTL

\* LoadLibrary returns the handle dlopen found, if the stack did not move.
THEOREM OwnHandle == Spec => []HandleArrives
  <1>1. IInv => HandleArrives
    <2> SUFFICES ASSUME IInv, NEW g \in Goroutines, At(g, "load", "done"),
                        Top(g).ok, ~Top(g).moved
                 PROVE  Top(g).result = Me(g) /\ Top(g).text = None
      BY DEF HandleArrives
    <2>1. FrameOK(g, Depth(g), Top(g)) /\ Me(g) = <<g, Depth(g)>> /\ Top(g) \in Frame
      BY FrameTypes DEF At
    <2>2. Top(g).ok = TRUE /\ Top(g).moved = FALSE
      BY <2>1, KindOfFrame DEF At, LoadFrame
    <2> QED  BY <2>1, <2>2 DEF FrameOK, At
  <1> QED  BY <1>1, Invariance, PTL
--------------------------------------------------------------------------------
(* ForeignCalls implements CallContract.                                    *)

Reply(r, e) == [kind |-> "call", at |-> "answered", r1 |-> r, cerrno |-> e]
Views == [kind : {"call", "load", "go"}, at : {"go", "asked", "inC", "answered"},
          r1 : IdOrNone, cerrno : IdOrNone]

\* What the contract sees of a frame, before a step and after it.
LEMMA SeenIs ==
  ASSUME NEW f \in Frame
  PROVE  /\ f.kind = "go" => /\ Seen(f) = Contract!Frame("go", "go")
                             /\ Seen(f)' = Contract!Frame("go", "go")
         /\ f.kind # "go" /\ f.pc = "ready" => /\ Seen(f) = Contract!Frame(f.kind, "asked")
                                               /\ Seen(f)' = Contract!Frame(f.kind, "asked")
         /\ f.pc = "inC" => /\ Seen(f) = Contract!Frame(f.kind, "inC")
                            /\ Seen(f)' = Contract!Frame(f.kind, "inC")
         /\ f.kind = "load" /\ f.pc \notin {"ready", "inC"} =>
              /\ Seen(f) = Contract!Frame("load", "answered")
              /\ Seen(f)' = Contract!Frame("load", "answered")
         /\ f.kind = "call" /\ f.pc \in {"returned", "back"} =>
              /\ Seen(f) = Reply(block[f.block].r1, block[f.block].errno)
              /\ Seen(f)' = Reply(block'[f.block].r1, block'[f.block].errno)
         /\ f.kind = "call" /\ f.pc = "done" => /\ Seen(f) = Reply(f.r1, f.cerrno)
                                                /\ Seen(f)' = Reply(f.r1, f.cerrno)
  <1>1. CASE f.kind = "go"
    <2>1. f.pc = "run"  BY <1>1, KindOfFrame DEF GoFrame
    <2> QED  BY <1>1, <2>1 DEF Seen, Contract!Frame
  <1>2. CASE f.kind = "load"
    <2>1. CASE f.pc = "ready"  BY <1>2, <2>1 DEF Seen, Contract!Frame
    <2>2. CASE f.pc = "inC"  BY <1>2, <2>2 DEF Seen, Contract!Frame
    <2>3. CASE f.pc \notin {"ready", "inC"}
      <3>1. /\ Seen(f) = Contract!Frame("load", "answered")
            /\ Seen(f)' = Contract!Frame("load", "answered")
        BY <1>2, <2>3 DEF Seen, Contract!Frame
      <3> QED  BY <1>2, <2>3, <3>1
    <2> QED  BY <2>1, <2>2, <2>3
  <1>3. CASE f.kind = "call"
    <2>1. f.pc \in {"ready", "inC", "returned", "back", "done"}
      BY <1>3, KindOfFrame DEF CallFrame
    <2>2. CASE f.pc \in {"ready", "inC"}  BY <1>3, <2>2 DEF Seen, Contract!Frame
    <2>3. CASE f.pc \in {"returned", "back"}  BY <1>3, <2>3 DEF Seen, Reply
    <2>4. CASE f.pc = "done"  BY <1>3, <2>4 DEF Seen, Reply
    <2> QED  BY <2>1, <2>2, <2>3, <2>4
  <1> QED  BY <1>1, <1>2, <1>3, KindOfFrame

LEMMA SeenType ==
  ASSUME IInv, NEW f \in Frame
  PROVE  Seen(f) \in Views /\ (Seen(f).at = "inC" <=> f.pc = "inC")
  <1>1. CASE f.kind = "go"
    <2>1. f.pc = "run"  BY <1>1, KindOfFrame DEF GoFrame
    <2> QED  BY <1>1, <2>1, SeenIs DEF Contract!Frame, Views, IdOrNone
  <1>2. CASE f.kind = "load"
    <2>1. CASE f.pc \in {"ready", "inC"}
      BY <1>2, <2>1, SeenIs DEF Contract!Frame, Views, IdOrNone
    <2>2. CASE f.pc \notin {"ready", "inC"}
      BY <1>2, <2>2, SeenIs DEF Contract!Frame, Views, IdOrNone
    <2> QED  BY <2>1, <2>2
  <1>3. CASE f.kind = "call"
    <2>1. f \in CallFrame  BY <1>3, KindOfFrame
    <2>2. CASE f.pc \in {"ready", "inC"}
      BY <1>3, <2>2, SeenIs DEF Contract!Frame, Views, IdOrNone
    <2>3. CASE f.pc \in {"returned", "back"}
      <3>1. PICK c \in Contents : c = block[f.block]  BY <2>1, GlobalTypes DEF GlobalsOK, CallFrame
      <3>2. c.r1 \in IdOrNone /\ c.errno \in IdOrNone  BY <3>1 DEF Contents
      <3> QED  BY <1>3, <2>3, <3>1, <3>2, SeenIs DEF Reply, Views
    <2>4. CASE f.pc = "done"
      <3>1. f.r1 \in IdOrNone /\ f.cerrno \in IdOrNone  BY <2>1 DEF CallFrame
      <3> QED  BY <1>3, <2>4, <3>1, SeenIs DEF Reply, Views
    <2> QED  BY <2>1, <2>2, <2>3, <2>4 DEF CallFrame
  <1> QED  BY <1>1, <1>2, <1>3, KindOfFrame

\* The calls the contract sees, frame by frame.
CallsTyped ==
  /\ Calls \in [Goroutines -> Seq(Views)]
  /\ \A g \in Goroutines :
       /\ Len(Calls[g]) = Len(stack[g])
       /\ \A d \in 1..Len(stack[g]) : Calls[g][d] = Seen(stack[g][d])
       /\ Running(g) <=> Contract!Running(Calls[g])
       /\ Running(g) => thread[g] # None

LEMMA CallsAre == IInv => CallsTyped
  <1> SUFFICES ASSUME IInv PROVE CallsTyped  OBVIOUS
  <1>1. ASSUME NEW g \in Goroutines
        PROVE  /\ Calls[g] \in Seq(Views) /\ Len(Calls[g]) = Len(stack[g])
               /\ \A d \in 1..Len(stack[g]) : Calls[g][d] = Seen(stack[g][d])
    <2>1. PICK s \in Seq(Frame) : s = stack[g]  BY DEF IInv, TypeOK
    <2>2. Calls[g] = [d \in 1..Len(s) |-> Seen(s[d])]  BY <2>1 DEF Calls
    <2>3. \A d \in 1..Len(s) : Seen(s[d]) \in Views  BY <2>1, SeenType
    <2>4. Len(s) \in Nat  BY <2>1
    <2> QED  BY <2>1, <2>2, <2>3, <2>4
  <1>2. Calls \in [Goroutines -> Seq(Views)]  BY <1>1 DEF Calls
  <1>3. ASSUME NEW g \in Goroutines
        PROVE  Running(g) <=> Contract!Running(Calls[g])
    <2>1. DOMAIN stack[g] = 1..Len(stack[g]) /\ DOMAIN Calls[g] = 1..Len(stack[g])
      BY <1>1 DEF IInv, TypeOK
    <2>2. \A d \in 1..Len(stack[g]) : Calls[g][d].at = "inC" <=> stack[g][d].pc = "inC"
      BY <1>1, SeenType, FrameTypes
    <2> QED  BY <2>1, <2>2 DEF Running, Contract!Running
  <1>4. ASSUME NEW g \in Goroutines, Running(g)
        PROVE  thread[g] # None
    <2>1. PICK d \in DOMAIN stack[g] : stack[g][d].pc = "inC"  BY <1>4 DEF Running
    <2>2. stack[g][d] \in Frame  BY DEF IInv, TypeOK
    <2>3. InCgocall(stack[g][d])
      BY <2>1, <2>2, KindOfFrame DEF GoFrame, InCgocall
    <2> QED  BY <2>3 DEF IInv, TypeOK
  <1> QED  BY <1>1, <1>2, <1>3, <1>4 DEF CallsTyped

LEMMA CallsAreNext == IInv' => CallsTyped'
  BY CallsAre, PTL

\* A frame that is written somewhere else is seen as before.
LEMMA SeenNext ==
  ASSUME NEW h, NEW d, NEW k, k = stack'[h][d]
  PROVE  Seen(stack[h][d])' = Seen(k)'
  BY DEF Seen

\* What a step does to the blocks does not show in the frames it keeps.
KeptSeen(g, n) ==
  \A h \in Goroutines : \A e \in Nat : \A k \in Frame :
    Kept(g, n, h, e) /\ k = stack[h][e] => Seen(k)' = Seen(k)

\* Nothing is done to a block ...
LEMMA SameSeen ==
  ASSUME NEW g, NEW n, UNCHANGED block
  PROVE  KeptSeen(g, n)
  BY DEF KeptSeen, Seen

\* ... or something to a block no frame that is kept has.
LEMMA OtherSeen ==
  ASSUME IInv, NEW g \in Goroutines, NEW n, NEW b \in Blocks,
         \A c \in Blocks \ {b} : block'[c] = block[c],
         \A h \in Goroutines : \A e \in Nat :
           Kept(g, n, h, e) /\ stack[h][e].kind = "call" => stack[h][e].block # b
  PROVE  KeptSeen(g, n)
  <1> SUFFICES ASSUME NEW h \in Goroutines, NEW e \in Nat, NEW k \in Frame,
                      Kept(g, n, h, e), k = stack[h][e]
               PROVE  Seen(k)' = Seen(k)
    BY DEF KeptSeen
  <1>1. CASE k.kind = "call"
    <2>1. k.block \in Blocks /\ k.block # b  BY <1>1, KindOfFrame DEF CallFrame
    <2>2. block'[k.block] = block[k.block]  BY <2>1
    <2> QED  BY <2>2 DEF Seen
  <1>2. CASE k.kind # "call"  BY <1>2 DEF Seen
  <1> QED  BY <1>1, <1>2

\* The state before a step of g and after it.
Basis == /\ IInv /\ IInv' /\ CallsTyped /\ CallsTyped'

\* A step that keeps frames keeps what is seen of them.
LEMMA CallsKept ==
  ASSUME Basis, NEW g \in Goroutines, NEW n \in Nat, Keeps(g, n), KeptSeen(g, n)
  PROVE  /\ \A h \in Goroutines \ {g} : Calls'[h] = Calls[h]
         /\ \A d \in 1..n : Calls'[g][d] = Calls[g][d]
         /\ Calls[g] \in Seq(Views) /\ Calls'[g] \in Seq(Views)
         /\ Len(Calls[g]) = Len(stack[g]) /\ Len(Calls'[g]) = Len(stack'[g])
         /\ n <= Len(stack[g])
  <1>1. \A h \in Goroutines :
          /\ Calls[h] \in Seq(Views) /\ Calls'[h] \in Seq(Views)
          /\ Len(Calls[h]) = Len(stack[h]) /\ Len(Calls'[h]) = Len(stack'[h])
    BY DEF Basis, CallsTyped
  <1>2. \A h \in Goroutines : Len(stack[h]) \in Nat
    BY FrameTypes DEF Basis
  <1>3. ASSUME NEW h \in Goroutines, NEW e \in 1..Len(stack[h]), h = g => e <= n,
               e \in 1..Len(stack'[h])
        PROVE  Calls'[h][e] = Calls[h][e]
    <2>1. e \in Nat /\ Kept(g, n, h, e)  BY <1>2, <1>3 DEF Kept
    <2>2. PICK k \in Frame : k = stack[h][e]  BY FrameTypes DEF Basis
    <2>3. stack'[h][e] = k
      <3>1. CASE h = g
        <4>1. e \in 1..n  BY <1>3, <2>1, <3>1
        <4> QED  BY <2>2, <3>1, <4>1 DEF Keeps
      <3>2. CASE h # g  BY <2>2, <3>2 DEF Keeps
      <3> QED  BY <3>1, <3>2
    <2>4. Seen(k)' = Seen(k)  BY <2>1, <2>2 DEF KeptSeen
    <2>5. Seen(stack[h][e])' = Seen(k)'  BY <2>3, SeenNext
    <2>6. Calls[h][e] = Seen(k)  BY <2>2 DEF Basis, CallsTyped
    <2>7. Calls'[h][e] = Seen(stack[h][e])'  BY <1>3 DEF Basis, CallsTyped
    <2> QED  BY <2>4, <2>5, <2>6, <2>7
  <1>4. ASSUME NEW h \in Goroutines \ {g}
        PROVE  Calls'[h] = Calls[h]
    <2>1. stack'[h] = stack[h]  BY DEF Keeps
    <2>2. PICK s \in Seq(Views) : s = Calls[h]  BY <1>1
    <2>3. PICK t \in Seq(Views) : t = Calls'[h]  BY <1>1
    <2>4. Len(s) = Len(stack[h]) /\ Len(t) = Len(stack[h])  BY <1>1, <2>1, <2>2, <2>3
    <2>5. \A e \in 1..Len(s) : s[e] = t[e]  BY <1>3, <2>1, <2>2, <2>3, <2>4
    <2>6. s = t  BY <2>4, <2>5, SeqEqual
    <2> QED  BY <2>2, <2>3, <2>6
  <1>5. n <= Len(stack[g])  BY DEF Keeps
  <1>6. ASSUME NEW d \in 1..n
        PROVE  Calls'[g][d] = Calls[g][d]
    <2>1. PICK l \in Nat : l = Len(stack[g])  BY <1>2
    <2>2. PICK m : m = Len(stack'[g])  OBVIOUS
    <2>3. m \in {n, n + 1} /\ n <= l  BY <1>5, <2>1, <2>2 DEF Keeps
    <2>4. d \in 1..l /\ d \in 1..m /\ d <= n  BY <2>1, <2>3
    <2> QED  BY <1>3, <2>1, <2>2, <2>4
  <1> QED  BY <1>1, <1>4, <1>5, <1>6
--------------------------------------------------------------------------------
(* Sequences whose beginnings agree.                                        *)

\* One element more,
LEMMA Longer ==
  ASSUME NEW S, NEW s \in Seq(S), NEW t \in Seq(S), NEW n \in Nat, NEW v,
         Len(s) = n, Len(t) = n + 1, \A d \in 1..n : t[d] = s[d], t[n + 1] = v
  PROVE  t = Append(s, v)
  <1>1. n + 1 \in 1..Len(t)  OBVIOUS
  <1>2. v \in S  BY <1>1, ElementOfSeq
  <1>3. PICK u : u = Append(s, v)  OBVIOUS
  <1>4. u \in Seq(S) /\ Len(u) = n + 1 /\ u[n + 1] = v /\ \A d \in 1..n : u[d] = s[d]
    BY <1>2, <1>3, AppendProperties
  <1>5. \A d \in 1..(n + 1) : d \in 1..n \/ d = n + 1  OBVIOUS
  <1>6. \A d \in 1..Len(t) : t[d] = u[d]  BY <1>4, <1>5
  <1> QED  BY <1>3, <1>4, <1>6, SeqEqual

\* some elements less,
LEMMA Shorter ==
  ASSUME NEW S, NEW s \in Seq(S), NEW t \in Seq(S), NEW n \in Nat,
         n <= Len(s), Len(t) = n, \A d \in 1..n : t[d] = s[d]
  PROVE  t = SubSeq(s, 1, n)
  <1>1. PICK u : u = SubSeq(s, 1, n)  OBVIOUS
  <1>2. u \in Seq(S) /\ Len(u) = n /\ \A d \in 1..n : u[d] = s[d]
    BY <1>1, FrontOfSeq
  <1>3. \A d \in 1..Len(t) : t[d] = u[d]  BY <1>2
  <1> QED  BY <1>1, <1>2, <1>3, SeqEqual

\* or another last one.
LEMMA Turned ==
  ASSUME NEW S, NEW s \in Seq(S), NEW t \in Seq(S), NEW n \in Nat, NEW v,
         Len(s) = n + 1, Len(t) = n + 1, \A d \in 1..n : t[d] = s[d], t[n + 1] = v
  PROVE  t = [s EXCEPT ![n + 1] = v]
  <1>1. n + 1 \in 1..Len(t) /\ n + 1 \in 1..Len(s)  OBVIOUS
  <1>2. v \in S  BY <1>1, ElementOfSeq
  <1>3. PICK u : u = [s EXCEPT ![n + 1] = v]  OBVIOUS
  <1>4. /\ u \in Seq(S) /\ Len(u) = n + 1
        /\ \A d \in 1..(n + 1) : u[d] = IF d = n + 1 THEN v ELSE s[d]
    BY <1>1, <1>2, <1>3, ExceptSeq
  <1>5. \A d \in 1..(n + 1) : d \in 1..n \/ d = n + 1  OBVIOUS
  <1>6. \A d \in 1..Len(t) : t[d] = u[d]  BY <1>4, <1>5
  <1> QED  BY <1>3, <1>4, <1>6, SeqEqual
--------------------------------------------------------------------------------
(* Threads are not shared.                                                  *)

\* Two goroutines with C on their stacks are on two threads.
ThreadsApart ==
  \A g, h \in Goroutines : g # h /\ thread[g] # None => thread[g] # thread[h]

LEMMA ApartKept ==
  ASSUME ThreadsApart, thread \in [Goroutines -> Threads \cup {None}],
         NEW g \in Goroutines, NEW m,
         m = None \/ m = thread[g] \/ m \in MayUse(g), thread' = [thread EXCEPT ![g] = m]
  PROVE  ThreadsApart'
  <1>1. /\ thread'[g] = m /\ \A h \in Goroutines \ {g} : thread'[h] = thread[h]
    OBVIOUS
  <1>2. ASSUME NEW h \in Goroutines \ {g}, m # None
        PROVE  thread[h] # m
    <2>1. CASE m = thread[g]  BY <1>2, <2>1 DEF ThreadsApart
    <2>2. CASE m # thread[g]
      <3>1. m \in Idle  BY <1>2, <2>2 DEF MayUse
      <3> QED  BY <3>1 DEF Idle
    <2> QED  BY <2>1, <2>2
  <1> SUFFICES ASSUME NEW a \in Goroutines, NEW b \in Goroutines, a # b, thread'[a] # None
               PROVE  thread'[a] # thread'[b]
    BY DEF ThreadsApart
  <1>3. CASE a = g  BY <1>1, <1>2, <1>3
  <1>4. CASE b = g  BY <1>1, <1>2, <1>4
  <1>5. CASE a # g /\ b # g  BY <1>1, <1>5 DEF ThreadsApart
  <1> QED  BY <1>3, <1>4, <1>5

LEMMA ApartStep ==
  ASSUME IInv, ThreadsApart, [Next]_vars
  PROVE  ThreadsApart'
  <1>1. thread \in [Goroutines -> Threads \cup {None}]  BY GlobalTypes
  <1>2. CASE thread' = thread  BY <1>2 DEF ThreadsApart
  <1>3. ASSUME NEW g \in Goroutines, NEW m \in Threads, Enter(g, m)
        PROVE  ThreadsApart'
    <2>1. m \in MayUse(g) /\ thread' = [thread EXCEPT ![g] = m]  BY <1>3 DEF Enter
    <2> QED  BY <1>1, <2>1, ApartKept
  <1>4. ASSUME NEW g \in Goroutines, NEW n, thread' = [thread EXCEPT ![g] = ThreadBelow(g, n)]
        PROVE  ThreadsApart'
    <2>1. PICK m : m = ThreadBelow(g, n)  OBVIOUS
    <2>2. m = None \/ m = thread[g]  BY <2>1 DEF ThreadBelow
    <2> QED  BY <1>1, <1>4, <2>1, <2>2, ApartKept
  <1>5. ASSUME NEW g \in Goroutines, CgocallReturns(g) \/ Unwind(g)
        PROVE  ThreadsApart'
    BY <1>4, <1>5 DEF CgocallReturns, Unwind
  <1>6. CASE UNCHANGED vars  BY <1>2, <1>6 DEF vars
  <1>7. ASSUME NEW g \in Goroutines,
               \/ \E b \in Blocks : CallNFloatErrno(g, b)
               \/ \E m \in Threads : dlerrorString(g, m)
               \/ SetErrno(g) \/ CReturns(g) \/ ReadResults(g) \/ Return(g)
               \/ CCallsBack(g) \/ GoReturns(g) \/ GrowStack(g)
               \/ Dlopen(g) \/ DlopenReturns(g) \/ DlopenChecks(g) \/ LoadLibrary(g)
        PROVE  thread' = thread
    BY <1>7 DEF CallNFloatErrno, dlerrorString, SetErrno, CReturns, Store, ReadResults, Return,
                CCallsBack, GoReturns, GrowStack, Dlopen, DlopenReturns, DlopenChecks, LoadLibrary
  <1> QED  BY <1>2, <1>3, <1>5, <1>6, <1>7 DEF Next

\* cgocall keeps a goroutine on its thread, and gives a thread to one at a time.
THEOREM OwnThread == Spec => [](IInv /\ ThreadsApart)
  <1>1. Init => ThreadsApart  BY DEF Init, ThreadsApart
  <1>2. IInv /\ ThreadsApart /\ [Next]_vars => ThreadsApart'  BY ApartStep
  <1> QED  BY <1>1, <1>2, Invariance, PTL DEF Spec
--------------------------------------------------------------------------------
(* What the contract sees of a step.                                        *)

\* Only the frames of g change, and only its thread and the errno of its thread.
Alone(g) ==
  /\ Basis /\ ThreadsApart
  /\ \A h \in Goroutines \ {g} : Calls'[h] = Calls[h] /\ thread'[h] = thread[h]
  /\ \A m \in Threads : m # thread[g] => errno'[m] = errno[m]

LEMMA StepMaps ==
  ASSUME NEW g \in Goroutines, Alone(g), NEW s, Calls'[g] = s, NEW e,
         Contract!Running(s) => errno'[thread'[g]] = e
  PROVE  Contract!Step(g, s, e)
  <1>1. /\ DOMAIN Calls = Goroutines /\ DOMAIN Calls' = Goroutines
        /\ Calls' = [h \in Goroutines |-> Calls'[h]]
    BY DEF Alone, Basis, CallsTyped
  <1>2. Calls' = [Calls EXCEPT ![g] = s]
    BY <1>1 DEF Alone, Basis, CallsTyped
  <1>3. ASSUME NEW h \in Goroutines
        PROVE  /\ Errno[h] = IF Running(h) THEN errno[thread[h]] ELSE None
               /\ Errno'[h] = IF Running(h)' THEN errno'[thread'[h]] ELSE None
    BY DEF Errno
  <1>4. ASSUME NEW h \in Goroutines
        PROVE  /\ Running(h) <=> Contract!Running(Calls[h])
               /\ Running(h)' <=> Contract!Running(Calls'[h])
    BY DEF Alone, Basis, CallsTyped, Contract!Running
  <1>5. Errno'[g] = IF Contract!Running(s) THEN e ELSE None
    BY <1>3, <1>4
  <1>6. ASSUME NEW h \in Goroutines \ {g}
        PROVE  Errno'[h] = Errno[h]
    <2>1. Running(h)' <=> Running(h)  BY <1>4 DEF Alone
    <2>2. CASE Running(h)
      <3>1. thread[h] # None  BY <2>2 DEF Alone, Basis, CallsTyped
      <3>2. thread[h] \in Threads  BY <3>1, GlobalTypes DEF Alone, Basis
      <3>3. thread[h] # thread[g]  BY <3>1 DEF Alone, ThreadsApart
      <3>4. errno'[thread'[h]] = errno[thread[h]]  BY <3>2, <3>3 DEF Alone
      <3> QED  BY <1>3, <2>1, <2>2, <3>4
    <2>3. CASE ~Running(h)  BY <1>3, <2>1, <2>3
    <2> QED  BY <2>2, <2>3
  <1>7. Errno' = [Errno EXCEPT ![g] = IF Contract!Running(s) THEN e ELSE None]
    <2>1. /\ DOMAIN Errno = Goroutines /\ Errno' = [h \in Goroutines |-> Errno'[h]]
      BY DEF Errno
    <2>2. Errno = [h \in Goroutines |-> Errno[h]]  BY DEF Errno
    <2> QED  BY <1>5, <1>6, <2>1, <2>2
  <1> QED  BY <1>2, <1>7 DEF Contract!Step

\* A step that leaves errno alone, and C where it ran.
Quiet(g) ==
  /\ errno' = errno
  /\ Contract!Running(Calls'[g]) => Contract!Running(Calls[g]) /\ thread'[g] = thread[g]

LEMMA QuietMaps ==
  ASSUME NEW g \in Goroutines, Alone(g), Quiet(g), NEW s, Calls'[g] = s
  PROVE  Contract!Step(g, s, Errno[g])
  <1>1. ASSUME Contract!Running(s) PROVE errno'[thread'[g]] = Errno[g]
    <2>1. Running(g)  BY <1>1 DEF Quiet, Alone, Basis, CallsTyped
    <2>2. Errno[g] = errno[thread[g]]  BY <2>1 DEF Errno
    <2> QED  BY <1>1, <2>2 DEF Quiet
  <1> QED  BY <1>1, StepMaps

\* A step after which the calls are seen as before does not show at all.
LEMMA QuietStutters ==
  ASSUME NEW g \in Goroutines, Alone(g), Quiet(g), Calls'[g] = Calls[g],
         Contract!Running(Calls[g]) => thread'[g] = thread[g]
  PROVE  Calls' = Calls /\ Errno' = Errno
  <1>1. Contract!Step(g, Calls[g], Errno[g])  BY QuietMaps
  <1>2. Errno[g] = IF Contract!Running(Calls[g]) THEN Errno[g] ELSE None
    BY DEF Errno, Alone, Basis, CallsTyped
  <1>3. Calls' = [Calls EXCEPT ![g] = Calls[g]] /\ Errno' = [Errno EXCEPT ![g] = Errno[g]]
    BY <1>1, <1>2 DEF Contract!Step
  <1>4. Calls = [h \in Goroutines |-> Calls[h]] /\ Errno = [h \in Goroutines |-> Errno[h]]
    BY DEF Calls, Errno
  <1> QED  BY <1>3, <1>4
--------------------------------------------------------------------------------
(* What the contract sees of a push, of a pop and of a new top frame.       *)

\* The top frame as the contract sees it.
LEMMA TopSeen ==
  ASSUME Basis, NEW g \in Goroutines, Depth(g) > 0
  PROVE  /\ Calls[g] # <<>> /\ Len(Calls[g]) = Depth(g)
         /\ Contract!Top(g) = Seen(Top(g)) /\ Contract!Me(g) = Me(g) /\ Top(g) \in Frame
  <1>1. /\ Depth(g) \in 1..Len(stack[g]) /\ Top(g) = stack[g][Depth(g)] /\ Top(g) \in Frame
        /\ Me(g) = <<g, Depth(g)>>
    BY FrameTypes DEF Basis
  <1>2. Len(Calls[g]) = Depth(g) /\ Calls[g][Depth(g)] = Seen(Top(g)) /\ Calls[g] \in Seq(Views)
    BY <1>1 DEF Basis, CallsTyped, Depth
  <1>3. Calls[g] # <<>>  BY <1>2
  <1> QED  BY <1>1, <1>2, <1>3 DEF Contract!Top, Contract!Me

\* Where nothing has entered C that was not there, C runs only if it did.
LEMMA RunsLess ==
  ASSUME NEW s \in Seq(Views), NEW t \in Seq(Views),
         \A d \in 1..Len(t) : t[d].at = "inC" => d \in 1..Len(s) /\ s[d] = t[d]
  PROVE  Contract!Running(t) => Contract!Running(s)
  <1>1. DOMAIN s = 1..Len(s) /\ DOMAIN t = 1..Len(t)  OBVIOUS
  <1> QED  BY <1>1 DEF Contract!Running

LEMMA PushMaps ==
  ASSUME Basis, NEW g \in Goroutines, NEW f \in Frame, Push(g, f), KeptSeen(g, Depth(g)),
         NEW v, Seen(f)' = v
  PROVE  /\ Calls'[g] = Append(Calls[g], v)
         /\ \A h \in Goroutines \ {g} : Calls'[h] = Calls[h]
         /\ v.at # "inC" => (Contract!Running(Calls'[g]) => Contract!Running(Calls[g]))
  <1>1. PICK n \in Nat : n = Depth(g)  BY FrameTypes DEF Depth, Basis
  <1>2. Keeps(g, n) /\ Len(stack'[g]) = n + 1 /\ stack'[g][n + 1] = f /\ n = Len(stack[g])
    BY <1>1, PushKeeps DEF Depth, Basis
  <1>3. PICK s \in Seq(Views) : s = Calls[g]  BY DEF Basis, CallsTyped
  <1>4. PICK t \in Seq(Views) : t = Calls'[g]  BY DEF Basis, CallsTyped
  <1>5. /\ \A h \in Goroutines \ {g} : Calls'[h] = Calls[h]
        /\ \A d \in 1..n : t[d] = s[d]
        /\ Len(s) = n /\ Len(t) = n + 1
    BY <1>1, <1>2, <1>3, <1>4, CallsKept
  <1>6. t[n + 1] = v
    <2>1. Seen(stack[g][n + 1])' = Seen(f)'  BY <1>2, SeenNext
    <2>2. n + 1 \in 1..Len(stack'[g])  BY <1>2
    <2>3. Calls'[g][n + 1] = Seen(stack[g][n + 1])'  BY <2>2 DEF Basis, CallsTyped
    <2> QED  BY <1>4, <2>1, <2>3
  <1>7. t = Append(s, v)  BY <1>5, <1>6, Longer
  <1>8. ASSUME v.at # "inC" PROVE Contract!Running(t) => Contract!Running(s)
    <2>1. \A d \in 1..(n + 1) : d \in 1..n \/ d = n + 1  OBVIOUS
    <2>2. \A d \in 1..Len(t) : t[d].at = "inC" => d \in 1..Len(s) /\ s[d] = t[d]
      BY <1>5, <1>6, <1>8, <2>1
    <2> QED  BY <2>2, RunsLess
  <1> QED  BY <1>3, <1>4, <1>5, <1>7, <1>8

LEMMA PopMaps ==
  ASSUME Basis, NEW g \in Goroutines, NEW j \in Nat, j <= Depth(g), Pop(g, j),
         KeptSeen(g, Depth(g) - j)
  PROVE  /\ Calls'[g] = SubSeq(Calls[g], 1, Len(Calls[g]) - j)
         /\ \A h \in Goroutines \ {g} : Calls'[h] = Calls[h]
         /\ Contract!Running(Calls'[g]) => Contract!Running(Calls[g]) /\ Depth(g) # j
  <1>0. Depth(g) \in Nat  BY FrameTypes DEF Depth, Basis
  <1>1. PICK n \in Nat : n = Depth(g) - j /\ Depth(g) = n + j  BY <1>0
  <1>2. Keeps(g, n) /\ Len(stack'[g]) = n /\ n + j = Len(stack[g])
    BY <1>1, PopKeeps DEF Depth, Basis
  <1>3. PICK s \in Seq(Views) : s = Calls[g]  BY DEF Basis, CallsTyped
  <1>4. PICK t \in Seq(Views) : t = Calls'[g]  BY DEF Basis, CallsTyped
  <1>5. /\ \A h \in Goroutines \ {g} : Calls'[h] = Calls[h]
        /\ \A d \in 1..n : t[d] = s[d]
        /\ Len(s) = n + j /\ Len(t) = n
    BY <1>1, <1>2, <1>3, <1>4, CallsKept
  <1>6. n <= Len(s) /\ Len(s) - j = n /\ \A d \in 1..n : d \in 1..Len(s)
    <2>1. n <= n + j /\ (n + j) - j = n /\ \A d \in 1..n : d \in 1..(n + j)  OBVIOUS
    <2> QED  BY <1>5, <2>1
  <1>7. t = SubSeq(s, 1, n)  BY <1>5, <1>6, Shorter
  <1>8. Contract!Running(t) => Contract!Running(s)  BY <1>5, <1>6, RunsLess
  <1>9. ASSUME Contract!Running(t) PROVE Depth(g) # j
    <2>1. PICK d \in DOMAIN t : t[d].at = "inC"  BY <1>9 DEF Contract!Running
    <2>2. d \in 1..n  BY <1>5
    <2>3. n # 0  BY <2>2
    <2> QED  BY <1>1, <2>3
  <1> QED  BY <1>3, <1>4, <1>5, <1>6, <1>7, <1>8, <1>9

LEMMA BecomeMaps ==
  ASSUME Basis, NEW g \in Goroutines, NEW f \in Frame, Depth(g) > 0, Become(g, f),
         KeptSeen(g, Depth(g) - 1), NEW v, Seen(f)' = v
  PROVE  /\ Calls'[g] = [Calls[g] EXCEPT ![Len(Calls[g])] = v]
         /\ \A h \in Goroutines \ {g} : Calls'[h] = Calls[h]
         /\ v.at # "inC" => (Contract!Running(Calls'[g]) => Contract!Running(Calls[g]))
         /\ v = Seen(Top(g)) => Calls'[g] = Calls[g]
         /\ v.at # "inC" /\ Depth(g) = 1 => ~Contract!Running(Calls'[g])
  <1>0. Depth(g) \in Nat  BY FrameTypes DEF Depth, Basis
  <1>1. PICK n \in Nat : n = Depth(g) - 1 /\ Depth(g) = n + 1  BY <1>0
  <1>2. Keeps(g, n) /\ Len(stack'[g]) = n + 1 /\ stack'[g][n + 1] = f /\ n + 1 = Len(stack[g])
    BY <1>1, BecomeKeeps DEF Depth, Basis
  <1>3. PICK s \in Seq(Views) : s = Calls[g]  BY DEF Basis, CallsTyped
  <1>4. PICK t \in Seq(Views) : t = Calls'[g]  BY DEF Basis, CallsTyped
  <1>5. /\ \A h \in Goroutines \ {g} : Calls'[h] = Calls[h]
        /\ \A d \in 1..n : t[d] = s[d]
        /\ Len(s) = n + 1 /\ Len(t) = n + 1
    BY <1>1, <1>2, <1>3, <1>4, CallsKept
  <1>6. t[n + 1] = v
    <2>1. Seen(stack[g][n + 1])' = Seen(f)'  BY <1>2, SeenNext
    <2>2. n + 1 \in 1..Len(stack'[g])  BY <1>2
    <2>3. Calls'[g][n + 1] = Seen(stack[g][n + 1])'  BY <2>2 DEF Basis, CallsTyped
    <2> QED  BY <1>4, <2>1, <2>3
  <1>7. t = [s EXCEPT ![n + 1] = v]  BY <1>5, <1>6, Turned
  <1>8. \A d \in 1..(n + 1) : d \in 1..n \/ d = n + 1  OBVIOUS
  <1>9. ASSUME v.at # "inC" PROVE Contract!Running(t) => Contract!Running(s)
    <2>1. \A d \in 1..Len(t) : t[d].at = "inC" => d \in 1..Len(s) /\ s[d] = t[d]
      BY <1>5, <1>6, <1>8, <1>9
    <2> QED  BY <2>1, RunsLess
  <1>10. ASSUME v = Seen(Top(g)) PROVE t = s
    <2>1. s[n + 1] = v  BY <1>1, <1>3, <1>10, TopSeen DEF Contract!Top
    <2>2. \A d \in 1..Len(s) : s[d] = t[d]  BY <1>5, <1>6, <1>8, <2>1
    <2> QED  BY <1>5, <2>2, SeqEqual
  <1>11. ASSUME v.at # "inC", Depth(g) = 1 PROVE ~Contract!Running(t)
    <2>1. DOMAIN t = 1..(n + 1) /\ n = 0  BY <1>1, <1>5, <1>11
    <2>2. \A d \in DOMAIN t : t[d] = v  BY <1>6, <2>1
    <2> QED  BY <1>11, <2>2 DEF Contract!Running
  <1> QED  BY <1>3, <1>4, <1>5, <1>7, <1>9, <1>10, <1>11
--------------------------------------------------------------------------------
(* Every action is one of the contract's, or does not show.                 *)

\* Where g is.
LEMMA GuardInC ==
  ASSUME Basis, NEW g \in Goroutines, Depth(g) > 0, Top(g).pc = "inC"
  PROVE  Contract!At(g, "inC") /\ Contract!Top(g).kind = Top(g).kind
  <1>1. Seen(Top(g)) = Contract!Frame(Top(g).kind, "inC")  BY TopSeen, SeenIs
  <1> QED  BY <1>1, TopSeen DEF Contract!At, Contract!Frame

LEMMA GuardGo ==
  ASSUME Basis, NEW g \in Goroutines, Depth(g) > 0, Top(g).kind = "go"
  PROVE  Contract!At(g, "go")
  <1>1. Seen(Top(g)) = Contract!Frame("go", "go")  BY TopSeen, SeenIs
  <1> QED  BY <1>1, TopSeen DEF Contract!At, Contract!Frame

LEMMA GuardInGo ==
  ASSUME Basis, NEW g \in Goroutines, InGo(g)
  PROVE  Calls[g] = <<>> \/ Contract!At(g, "go")
  <1>1. CASE Depth(g) = 0
    <2>1. PICK s \in Seq(Views) : s = Calls[g]  BY DEF Basis, CallsTyped
    <2>2. Len(s) = 0  BY <1>1, <2>1 DEF Basis, CallsTyped, Depth
    <2>3. s = <<>>  BY <2>2, EmptySeq
    <2> QED  BY <2>1, <2>3
  <1>2. CASE Depth(g) # 0
    <2>1. Depth(g) > 0 /\ Top(g).kind = "go"  BY <1>2 DEF InGo, At
    <2> QED  BY <2>1, GuardGo
  <1> QED  BY <1>1, <1>2

LEMMA GuardAnswered ==
  ASSUME Basis, NEW g \in Goroutines, Depth(g) > 0, Top(g).pc = "done"
  PROVE  Contract!At(g, "answered")
  <1>1. PICK k \in Frame : k = Top(g)  BY TopSeen
  <1>2. k.kind # "go"
    BY <1>1, KindOfFrame DEF GoFrame
  <1>3. Seen(k).at = "answered"
    <2>1. CASE k.kind = "call"  BY <1>1, <2>1, SeenIs DEF Reply
    <2>2. CASE k.kind = "load"  BY <1>1, <2>2, SeenIs DEF Contract!Frame
    <2> QED  BY <1>2, <2>1, <2>2, KindOfFrame
  <1> QED  BY <1>1, <1>3, TopSeen DEF Contract!At

\* A step of g that leaves the threads and errno as they are.
LEMMA SameThreads ==
  ASSUME Basis, ThreadsApart, NEW g \in Goroutines, UNCHANGED <<thread, errno>>,
         \A h \in Goroutines \ {g} : Calls'[h] = Calls[h]
  PROVE  /\ Alone(g)
         /\ (Contract!Running(Calls'[g]) => Contract!Running(Calls[g])) => Quiet(g)
  BY DEF Alone, Quiet

LEMMA CallNFloatErrnoMaps ==
  ASSUME Basis, ThreadsApart, NEW g \in Goroutines, NEW b \in Blocks, CallNFloatErrno(g, b)
  PROVE  Contract!Begin(g)
  <1>1. PICK f : f = [kind |-> "call", pc |-> "ready", block |-> b, moved |-> FALSE,
                      seen |-> None, left |-> None, r1 |-> None, cerrno |-> None]
    OBVIOUS
  <1>2. /\ InGo(g) /\ Push(g, f) /\ b \in free
        /\ \A a \in Blocks \ {b} : block'[a] = block[a]
        /\ UNCHANGED <<thread, errno>>
    BY <1>1, GlobalTypes DEF CallNFloatErrno, Get, Basis, GlobalsOK
  <1>3. f \in Frame /\ f.kind = "call" /\ f.pc = "ready"
    BY <1>1 DEF Frame, CallFrame, IdOrNone
  <1>4. KeptSeen(g, Depth(g))
    <2>1. ASSUME NEW h \in Goroutines, NEW e \in Nat,
                 Kept(g, Depth(g), h, e), stack[h][e].kind = "call"
          PROVE  stack[h][e].block # b
      <3>1. FrameOK(h, e, stack[h][e])  BY <2>1, FrameTypes DEF Kept, Basis
      <3> QED  BY <1>2, <2>1, <3>1 DEF FrameOK
    <2> QED  BY <1>2, <2>1, OtherSeen DEF Basis
  <1>5. PICK v : v = Contract!Frame("call", "asked")  OBVIOUS
  <1>6. Seen(f)' = v /\ v.at # "inC"
    BY <1>3, <1>5, SeenIs DEF Contract!Frame
  <1>7. /\ Calls'[g] = Append(Calls[g], v)
        /\ \A h \in Goroutines \ {g} : Calls'[h] = Calls[h]
        /\ Contract!Running(Calls'[g]) => Contract!Running(Calls[g])
    BY <1>2, <1>3, <1>4, <1>6, PushMaps
  <1>8. Contract!Step(g, Append(Calls[g], v), Errno[g])
    BY <1>2, <1>7, SameThreads, QuietMaps
  <1> QED  BY <1>2, <1>5, <1>8, GuardInGo DEF Contract!Begin

LEMMA DlopenMaps ==
  ASSUME Basis, ThreadsApart, NEW g \in Goroutines, Dlopen(g)
  PROVE  Contract!Begin(g)
  <1>1. PICK f : f = [kind |-> "load", pc |-> "ready", moved |-> FALSE, ok |-> FALSE,
                      result |-> None, text |-> None]
    OBVIOUS
  <1>2. InGo(g) /\ Push(g, f) /\ UNCHANGED <<thread, errno, block>>
    BY <1>1 DEF Dlopen
  <1>3. f \in Frame /\ f.kind = "load" /\ f.pc = "ready"
    BY <1>1 DEF Frame, LoadFrame, IdOrNone
  <1>4. KeptSeen(g, Depth(g))  BY <1>2, SameSeen
  <1>5. PICK v : v = Contract!Frame("load", "asked")  OBVIOUS
  <1>6. Seen(f)' = v /\ v.at # "inC"
    BY <1>3, <1>5, SeenIs DEF Contract!Frame
  <1>7. /\ Calls'[g] = Append(Calls[g], v)
        /\ \A h \in Goroutines \ {g} : Calls'[h] = Calls[h]
        /\ Contract!Running(Calls'[g]) => Contract!Running(Calls[g])
    BY <1>2, <1>3, <1>4, <1>6, PushMaps
  <1>8. Contract!Step(g, Append(Calls[g], v), Errno[g])
    BY <1>2, <1>7, SameThreads, QuietMaps
  <1> QED  BY <1>2, <1>5, <1>8, GuardInGo DEF Contract!Begin

LEMMA CCallsBackMaps ==
  ASSUME Basis, ThreadsApart, NEW g \in Goroutines, CCallsBack(g)
  PROVE  Contract!CallBack(g)
  <1>1. PICK f : f = [kind |-> "go", pc |-> "run", moved |-> FALSE]  OBVIOUS
  <1>2. InC(g) /\ Push(g, f) /\ UNCHANGED <<thread, errno, block>>
    BY <1>1 DEF CCallsBack
  <1>3. f \in Frame /\ f.kind = "go"  BY <1>1 DEF Frame, GoFrame
  <1>4. KeptSeen(g, Depth(g))  BY <1>2, SameSeen
  <1>5. PICK v : v = Contract!Frame("go", "go")  OBVIOUS
  <1>6. Seen(f)' = v /\ v.at # "inC"
    BY <1>3, <1>5, SeenIs DEF Contract!Frame
  <1>7. /\ Calls'[g] = Append(Calls[g], v)
        /\ \A h \in Goroutines \ {g} : Calls'[h] = Calls[h]
        /\ Contract!Running(Calls'[g]) => Contract!Running(Calls[g])
    BY <1>2, <1>3, <1>4, <1>6, PushMaps
  <1>8. Contract!Step(g, Append(Calls[g], v), Errno[g])
    BY <1>2, <1>7, SameThreads, QuietMaps
  <1>9. Contract!At(g, "inC")
    <2>1. Depth(g) > 0 /\ Top(g).pc = "inC"  BY <1>2 DEF InC, At
    <2> QED  BY <2>1, GuardInC
  <1> QED  BY <1>5, <1>8, <1>9 DEF Contract!CallBack

LEMMA GoReturnsMaps ==
  ASSUME Basis, ThreadsApart, NEW g \in Goroutines, GoReturns(g)
  PROVE  Contract!GoReturns(g)
  <1>1. /\ Depth(g) > 0 /\ Top(g).kind = "go" /\ Pop(g, 1)
        /\ UNCHANGED <<thread, errno, block>>
    BY DEF GoReturns, At
  <1>2. 1 \in Nat /\ 1 <= Depth(g) /\ KeptSeen(g, Depth(g) - 1)
    <2>1. Depth(g) \in Nat  BY FrameTypes DEF Depth, Basis
    <2> QED  BY <1>1, <2>1, SameSeen
  <1>3. /\ Calls'[g] = SubSeq(Calls[g], 1, Len(Calls[g]) - 1)
        /\ \A h \in Goroutines \ {g} : Calls'[h] = Calls[h]
        /\ Contract!Running(Calls'[g]) => Contract!Running(Calls[g])
    BY <1>1, <1>2, PopMaps
  <1>4. Contract!Step(g, SubSeq(Calls[g], 1, Len(Calls[g]) - 1), Errno[g])
    BY <1>1, <1>3, SameThreads, QuietMaps
  <1> QED  BY <1>1, <1>4, GuardGo DEF Contract!GoReturns, Contract!Pop

LEMMA LoadLibraryMaps ==
  ASSUME Basis, ThreadsApart, NEW g \in Goroutines, LoadLibrary(g)
  PROVE  Contract!Return(g)
  <1>1. /\ Depth(g) > 0 /\ Top(g).kind = "load" /\ Top(g).pc = "done" /\ Pop(g, 1)
        /\ UNCHANGED <<thread, errno, block>>
    BY DEF LoadLibrary, At
  <1>2. 1 \in Nat /\ 1 <= Depth(g) /\ KeptSeen(g, Depth(g) - 1)
    <2>1. Depth(g) \in Nat  BY FrameTypes DEF Depth, Basis
    <2> QED  BY <1>1, <2>1, SameSeen
  <1>3. /\ Calls'[g] = SubSeq(Calls[g], 1, Len(Calls[g]) - 1)
        /\ \A h \in Goroutines \ {g} : Calls'[h] = Calls[h]
        /\ Contract!Running(Calls'[g]) => Contract!Running(Calls[g])
    BY <1>1, <1>2, PopMaps
  <1>4. Contract!Step(g, SubSeq(Calls[g], 1, Len(Calls[g]) - 1), Errno[g])
    BY <1>1, <1>3, SameThreads, QuietMaps
  <1> QED  BY <1>1, <1>4, GuardAnswered DEF Contract!Return, Contract!Pop

\* Put empties a block that no frame below has.
LEMMA PutSeen ==
  ASSUME Basis, NEW g \in Goroutines, NEW n \in Nat, n + 1 \in 1..Len(stack[g]),
         stack[g][n + 1].kind = "call", Put(stack[g][n + 1].block)
  PROVE  KeptSeen(g, n)
  <1>1. stack[g][n + 1] \in Frame  BY FrameTypes DEF Basis
  <1>2. PICK b \in Blocks : b = stack[g][n + 1].block
    BY <1>1, KindOfFrame DEF CallFrame
  <1>3. \A c \in Blocks \ {b} : block'[c] = block[c]
    BY <1>2, GlobalTypes DEF Put, GlobalsOK, Basis
  <1>4. \A h \in Goroutines : \A e \in Nat :
          Kept(g, n, h, e) /\ stack[h][e].kind = "call" => stack[h][e].block # b
    BY <1>2, BlockOfOthers DEF Basis
  <1> QED  BY <1>3, <1>4, OtherSeen DEF Basis

LEMMA ReturnMaps ==
  ASSUME Basis, ThreadsApart, NEW g \in Goroutines, Return(g)
  PROVE  Contract!Return(g)
  <1>1. /\ Depth(g) > 0 /\ Top(g).kind = "call" /\ Top(g).pc = "done" /\ Pop(g, 1)
        /\ Put(Top(g).block) /\ UNCHANGED <<thread, errno>>
    BY DEF Return, At
  <1>2. PICK n \in Nat : n = Depth(g) - 1 /\ n + 1 \in 1..Len(stack[g]) /\ Top(g) = stack[g][n + 1]
    <2>1. Depth(g) \in 1..Len(stack[g])  BY <1>1, FrameTypes DEF Basis
    <2> QED  BY <2>1 DEF Depth, Top
  <1>3. 1 \in Nat /\ 1 <= Depth(g) /\ KeptSeen(g, Depth(g) - 1)
    <2>1. Depth(g) \in Nat  BY FrameTypes DEF Depth, Basis
    <2>2. KeptSeen(g, n)  BY <1>1, <1>2, PutSeen
    <2> QED  BY <1>1, <1>2, <2>1, <2>2
  <1>4. /\ Calls'[g] = SubSeq(Calls[g], 1, Len(Calls[g]) - 1)
        /\ \A h \in Goroutines \ {g} : Calls'[h] = Calls[h]
        /\ Contract!Running(Calls'[g]) => Contract!Running(Calls[g])
    BY <1>1, <1>3, PopMaps
  <1>5. Contract!Step(g, SubSeq(Calls[g], 1, Len(Calls[g]) - 1), Errno[g])
    BY <1>1, <1>4, SameThreads, QuietMaps
  <1> QED  BY <1>1, <1>5, GuardAnswered DEF Contract!Return, Contract!Pop

LEMMA EnterMaps ==
  ASSUME Basis, ThreadsApart, NEW g \in Goroutines, NEW m \in Threads, Enter(g, m)
  PROVE  Contract!Enter(g)
  <1>1. /\ Depth(g) > 0 /\ Top(g).kind \in {"call", "load"} /\ Top(g).pc = "ready"
        /\ m \in MayUse(g) /\ thread' = [thread EXCEPT ![g] = m]
        /\ UNCHANGED <<errno, block>>
    BY DEF Enter, At
  <1>2. PICK t \in Frame : t = Top(g)  BY <1>1, TopSeen
  <1>3. PICK f \in Frame : Become(g, f) /\ f.kind = t.kind /\ f.pc = "inC"
    <2>1. CASE At(g, "call", "ready")
      <3>1. t \in CallFrame  BY <1>2, <2>1, KindOfFrame DEF At
      <3>2. PICK x \in IdOrNone : x = block[t.block].arg
        BY <3>1, GlobalTypes DEF GlobalsOK, Contents, CallFrame, Basis
      <3>3. PICK f : f = [t EXCEPT !.pc = "inC", !.seen = x]  OBVIOUS
      <3>4. Become(g, f)  BY <1>2, <2>1, <3>2, <3>3 DEF Enter, At
      <3>5. f \in CallFrame /\ f.kind = t.kind /\ f.pc = "inC"
        BY <3>1, <3>2, <3>3 DEF CallFrame
      <3> QED  BY <3>4, <3>5 DEF Frame
    <2>2. CASE At(g, "load", "ready")
      <3>1. t \in LoadFrame  BY <1>2, <2>2, KindOfFrame DEF At
      <3>2. PICK f : f = [t EXCEPT !.pc = "inC"]  OBVIOUS
      <3>3. Become(g, f)  BY <1>2, <2>2, <3>2 DEF Enter, Goto, At
      <3>4. f \in LoadFrame /\ f.kind = t.kind /\ f.pc = "inC"
        BY <3>1, <3>2 DEF LoadFrame
      <3> QED  BY <3>3, <3>4 DEF Frame
    <2> QED  BY <2>1, <2>2 DEF Enter
  <1>4. PICK v : v = Contract!Frame(t.kind, "inC")  OBVIOUS
  <1>5. Seen(f)' = v  BY <1>3, <1>4, SeenIs
  <1>6. KeptSeen(g, Depth(g) - 1)  BY <1>1, SameSeen
  <1>7. /\ Calls'[g] = [Calls[g] EXCEPT ![Len(Calls[g])] = v]
        /\ \A h \in Goroutines \ {g} : Calls'[h] = Calls[h]
    BY <1>1, <1>3, <1>5, <1>6, BecomeMaps
  <1>8. thread'[g] = m /\ \A h \in Goroutines \ {g} : thread'[h] = thread[h]
    BY <1>1, GlobalTypes DEF Basis
  <1>9. Alone(g)  BY <1>1, <1>7, <1>8 DEF Alone
  <1>10. Contract!Step(g, [Calls[g] EXCEPT ![Len(Calls[g])] = v], errno[m])
    BY <1>1, <1>7, <1>8, <1>9, StepMaps
  <1>11. errno[m] \in IF Contract!Running(Calls[g]) THEN {Errno[g]} ELSE IdOrNone
    <2>1. errno[m] \in IdOrNone  BY GlobalTypes DEF GlobalsOK, Basis
    <2>2. ASSUME Contract!Running(Calls[g]) PROVE errno[m] = Errno[g]
      <3>1. Running(g) /\ thread[g] # None  BY <2>2 DEF Basis, CallsTyped
      <3>2. m = thread[g]  BY <1>1, <3>1 DEF MayUse
      <3> QED  BY <3>1, <3>2 DEF Errno
    <2> QED  BY <2>1, <2>2
  <1>12. Seen(t) = Contract!Frame(t.kind, "asked")
    BY <1>1, <1>2, SeenIs
  <1>13. Contract!Top(g).kind = t.kind /\ Contract!At(g, "asked")
    BY <1>1, <1>2, <1>12, TopSeen DEF Contract!At, Contract!Frame
  <1> QED  BY <1>4, <1>10, <1>11, <1>13 DEF Contract!Enter, Contract!Become

\* C runs on top: the errno of the goroutine is that of its thread.
LEMMA ErrnoInC ==
  ASSUME Basis, NEW g \in Goroutines, Depth(g) > 0, Top(g).pc = "inC"
  PROVE  Errno[g] = errno[thread[g]] /\ thread[g] \in Threads
  <1>1. Depth(g) \in DOMAIN stack[g] /\ stack[g][Depth(g)].pc = "inC"
    <2>1. DOMAIN stack[g] = 1..Len(stack[g])  BY DEF Basis, IInv, TypeOK
    <2> QED  BY <2>1, FrameTypes DEF Basis
  <1>2. Running(g)  BY <1>1 DEF Running
  <1>3. thread[g] # None  BY <1>2 DEF Basis, CallsTyped
  <1> QED  BY <1>2, <1>3, GlobalTypes DEF Errno, Basis

LEMMA SetErrnoMaps ==
  ASSUME Basis, ThreadsApart, NEW g \in Goroutines, SetErrno(g)
  PROVE  Contract!SetErrno(g)
  <1>1. /\ Depth(g) > 0 /\ Top(g).kind = "call" /\ Top(g).pc = "inC"
        /\ errno' = [errno EXCEPT ![thread[g]] = Me(g)]
        /\ UNCHANGED <<stack, thread, block>>
    BY DEF SetErrno, At
  <1>2. Calls' = Calls  BY <1>1 DEF Calls, Seen
  <1>3. errno \in [Threads -> IdOrNone] /\ thread[g] \in Threads
    BY <1>1, ErrnoInC, GlobalTypes DEF GlobalsOK, Basis
  <1>4. errno'[thread[g]] = Me(g) /\ \A m \in Threads : m # thread[g] => errno'[m] = errno[m]
    BY <1>1, <1>3
  <1>5. Alone(g)  BY <1>1, <1>2, <1>4 DEF Alone
  <1>6. Contract!Step(g, Calls[g], Me(g))
    BY <1>1, <1>2, <1>4, <1>5, StepMaps
  <1>7. Contract!At(g, "inC") /\ Contract!Top(g).kind = "call" /\ Contract!Me(g) = Me(g)
    BY <1>1, GuardInC, TopSeen
  <1> QED  BY <1>6, <1>7 DEF Contract!SetErrno

\* The stub's stores are seen at once: the C function has answered.
LEMMA CReturnsMaps ==
  ASSUME Basis, ThreadsApart, NEW g \in Goroutines, CReturns(g)
  PROVE  Contract!Answer(g)
  <1>1. Depth(g) > 0 /\ Top(g).kind = "call" /\ Top(g).pc = "inC"
        /\ UNCHANGED <<thread, errno, free>>
    BY DEF CReturns, Store, At
  <1>2. PICK t \in CallFrame : t = Top(g) /\ FrameOK(g, Depth(g), t)
    BY <1>1, FrameTypes, KindOfFrame DEF Basis
  <1>3. PICK n \in Nat : /\ n = Depth(g) - 1 /\ n + 1 \in 1..Len(stack[g])
                         /\ Top(g) = stack[g][n + 1]
    <2>1. Depth(g) \in 1..Len(stack[g])  BY <1>1, FrameTypes DEF Basis
    <2> QED  BY <2>1 DEF Depth, Top
  <1>4. PICK x \in IdOrNone : x = errno[thread[g]] /\ x = Errno[g]
    BY <1>1, ErrnoInC, GlobalTypes DEF GlobalsOK, Basis
  <1>5. PICK b \in Blocks : b = t.block  BY <1>2 DEF CallFrame
  <1>6. PICK i \in IdOrNone : i = t.seen /\ i = Me(g)
    <2>1. t.seen = <<g, Depth(g)>>  BY <1>1, <1>2 DEF FrameOK
    <2>2. t.seen \in IdOrNone  BY <1>2 DEF CallFrame
    <2> QED  BY <2>1, <2>2 DEF Me
  <1>7. block' = [block EXCEPT ![b].r1 = i, ![b].errno = x]
    <2>1. t.moved = FALSE  BY <1>1, <1>2 DEF FrameOK
    <2> QED  BY <1>2, <1>4, <1>5, <1>6, <2>1 DEF CReturns, Store
  <1>8. PICK f : f = [t EXCEPT !.pc = "returned", !.left = x]  OBVIOUS
  <1>9. Become(g, f)  BY <1>2, <1>4, <1>8 DEF CReturns, Store
  <1>10. /\ f \in Frame /\ f.kind = "call" /\ f.block = b /\ f.pc = "returned"
    BY <1>4, <1>5, <1>8 DEF CallFrame, Frame
  <1>11. /\ block'[b].r1 = i /\ block'[b].errno = x
         /\ \A c \in Blocks \ {b} : block'[c] = block[c]
    <2>1. PICK c \in Contents : c = block[b]  BY GlobalTypes DEF GlobalsOK, Basis
    <2>2. PICK d : d = [c EXCEPT !.r1 = i, !.errno = x]  OBVIOUS
    <2>3. block' = [block EXCEPT ![b] = d]
      BY <1>7, <2>1, <2>2, GlobalTypes DEF GlobalsOK, Contents, Basis
    <2>4. d.r1 = i /\ d.errno = x  BY <2>1, <2>2 DEF Contents
    <2> QED  BY <2>3, <2>4, GlobalTypes DEF GlobalsOK, Basis
  <1>12. PICK v : v = Reply(i, x)  OBVIOUS
  <1>13. Seen(f)' = v /\ v.at # "inC"
    BY <1>10, <1>11, <1>12, SeenIs DEF Reply
  <1>14. KeptSeen(g, Depth(g) - 1)
    <2>1. \A h \in Goroutines : \A e \in Nat :
            Kept(g, n, h, e) /\ stack[h][e].kind = "call" => stack[h][e].block # b
      BY <1>1, <1>2, <1>3, <1>5, BlockOfOthers DEF Basis
    <2> QED  BY <1>3, <1>11, <2>1, OtherSeen DEF Basis
  <1>15. /\ Calls'[g] = [Calls[g] EXCEPT ![Len(Calls[g])] = v]
         /\ \A h \in Goroutines \ {g} : Calls'[h] = Calls[h]
         /\ Contract!Running(Calls'[g]) => Contract!Running(Calls[g])
    BY <1>1, <1>9, <1>10, <1>13, <1>14, BecomeMaps
  <1>16. Contract!Step(g, [Calls[g] EXCEPT ![Len(Calls[g])] = v], Errno[g])
    BY <1>1, <1>15, SameThreads, QuietMaps
  <1>17. /\ Contract!At(g, "inC") /\ Contract!Top(g).kind = "call"
         /\ Contract!Me(g) = i
    BY <1>1, <1>6, GuardInC, TopSeen
  <1>18. v = [Contract!Frame("call", "answered") EXCEPT !.r1 = i, !.cerrno = Errno[g]]
    <2>1. PICK o : o = Contract!Frame("call", "answered")  OBVIOUS
    <2>2. o = [kind |-> "call", at |-> "answered", r1 |-> None, cerrno |-> None]
      BY <2>1 DEF Contract!Frame
    <2>3. [o EXCEPT !.r1 = i, !.cerrno = x]
            = [kind |-> "call", at |-> "answered", r1 |-> i, cerrno |-> x]
      <3>1. PICK w : w = [o EXCEPT !.r1 = i]  OBVIOUS
      <3>2. w = [kind |-> "call", at |-> "answered", r1 |-> i, cerrno |-> None]
        BY <2>2, <3>1
      <3>3. [w EXCEPT !.cerrno = x]
              = [kind |-> "call", at |-> "answered", r1 |-> i, cerrno |-> x]
        BY <3>2
      <3>4. [o EXCEPT !.r1 = i, !.cerrno = x] = [w EXCEPT !.cerrno = x]
        BY <3>1
      <3> QED  BY <3>3, <3>4
    <2>4. v = [o EXCEPT !.r1 = i, !.cerrno = x]  BY <1>12, <2>3 DEF Reply
    <2> QED  BY <1>4, <2>1, <2>4
  <1>19. v = IF Contract!Top(g).kind = "call"
             THEN [Contract!Frame("call", "answered") EXCEPT !.r1 = Contract!Me(g), !.cerrno = Errno[g]]
             ELSE Contract!Frame("load", "answered")
    BY <1>17, <1>18
  <1> QED  BY <1>16, <1>17, <1>19 DEF Contract!Answer, Contract!Become

LEMMA DlopenReturnsMaps ==
  ASSUME Basis, ThreadsApart, NEW g \in Goroutines, DlopenReturns(g)
  PROVE  Contract!Answer(g)
  <1>1. Depth(g) > 0 /\ Top(g).kind = "load" /\ Top(g).pc = "inC"
        /\ UNCHANGED <<thread, errno, block>>
    BY DEF DlopenReturns, At
  <1>2. PICK t \in LoadFrame : t = Top(g)
    BY <1>1, FrameTypes, KindOfFrame DEF Basis
  <1>3. PICK ok \in BOOLEAN :
          Become(g, [Top(g) EXCEPT !.pc = "returned", !.ok = ok,
                                   !.result = IF ok /\ ~Top(g).moved THEN Me(g) ELSE None])
    BY DEF DlopenReturns
  <1>4. PICK r \in IdOrNone : r = IF ok /\ ~t.moved THEN Me(g) ELSE None
    BY <1>1, FrameTypes DEF IdOrNone, Basis
  <1>5. PICK f : f = [t EXCEPT !.pc = "returned", !.ok = ok, !.result = r]  OBVIOUS
  <1>6. Become(g, f)  BY <1>2, <1>3, <1>4, <1>5
  <1>7. f \in Frame /\ f.kind = "load" /\ f.pc = "returned"
    BY <1>4, <1>5 DEF LoadFrame, Frame
  <1>8. PICK v : v = Contract!Frame("load", "answered")  OBVIOUS
  <1>9. Seen(f)' = v /\ v.at # "inC"
    BY <1>7, <1>8, SeenIs DEF Contract!Frame
  <1>10. KeptSeen(g, Depth(g) - 1)  BY <1>1, SameSeen
  <1>11. /\ Calls'[g] = [Calls[g] EXCEPT ![Len(Calls[g])] = v]
         /\ \A h \in Goroutines \ {g} : Calls'[h] = Calls[h]
         /\ Contract!Running(Calls'[g]) => Contract!Running(Calls[g])
    BY <1>1, <1>6, <1>7, <1>9, <1>10, BecomeMaps
  <1>12. Contract!Step(g, [Calls[g] EXCEPT ![Len(Calls[g])] = v], Errno[g])
    BY <1>1, <1>11, SameThreads, QuietMaps
  <1>13. Contract!At(g, "inC") /\ Contract!Top(g).kind = "load"
    BY <1>1, GuardInC
  <1> QED  BY <1>8, <1>12, <1>13 DEF Contract!Answer, Contract!Become

LEMMA UnwindMaps ==
  ASSUME Basis, ThreadsApart, NEW g \in Goroutines, Unwind(g)
  PROVE  Contract!Unwind(g)
  <1>1. Depth(g) > 0 /\ Top(g).kind = "go" /\ Pop(g, 2) /\ UNCHANGED errno
    BY DEF Unwind, At
  <1>2. /\ Depth(g) \in 1..Len(stack[g]) /\ Depth(g) = Len(stack[g]) /\ Depth(g) \in Nat
        /\ Top(g) = stack[g][Depth(g)] /\ Alternates(stack[g])
    BY <1>1, FrameTypes DEF Depth, Basis
  <1>3. PICK n \in Nat : n = Depth(g) - 2 /\ Depth(g) = n + 2
    <2>1. Depth(g) # 1  BY <1>1, <1>2 DEF Alternates
    <2>2. PICK l : l = Depth(g)  OBVIOUS
    <2>3. l \in Nat /\ l > 0 /\ l # 1  BY <1>1, <1>2, <2>1, <2>2
    <2>4. l - 2 \in Nat /\ l = (l - 2) + 2  BY <2>3
    <2> QED  BY <2>2, <2>4
  <1>4. PICK c \in Frame : c = stack[g][n + 1] /\ n + 1 \in 1..Len(stack[g])
    <2>1. n + 1 \in 1..Len(stack[g])  BY <1>2, <1>3
    <2> QED  BY <2>1, FrameTypes DEF Basis
  <1>5. KeptSeen(g, n)
    <2>1. n + 1 = Depth(g) - 1  BY <1>3
    <2>2. IF c.kind = "call" THEN Put(c.block) ELSE UNCHANGED <<free, block>>
      BY <1>4, <2>1 DEF Unwind
    <2>3. CASE c.kind = "call"  BY <1>4, <2>2, <2>3, PutSeen
    <2>4. CASE c.kind # "call"  BY <2>2, <2>4, SameSeen
    <2> QED  BY <2>3, <2>4
  <1>6. 2 \in Nat /\ 2 <= Depth(g)  BY <1>3
  <1>7. /\ Calls'[g] = SubSeq(Calls[g], 1, Len(Calls[g]) - 2)
        /\ \A h \in Goroutines \ {g} : Calls'[h] = Calls[h]
        /\ Contract!Running(Calls'[g]) => Contract!Running(Calls[g]) /\ Depth(g) # 2
    BY <1>1, <1>3, <1>5, <1>6, PopMaps
  <1>8. /\ thread'[g] = (IF n = 0 THEN None ELSE thread[g])
        /\ \A h \in Goroutines \ {g} : thread'[h] = thread[h]
    BY <1>3, GlobalTypes DEF Unwind, ThreadBelow, Basis
  <1>9. Alone(g)  BY <1>1, <1>7, <1>8 DEF Alone
  <1>10. Quiet(g)
    <2>1. Depth(g) # 2 => n # 0  BY <1>3
    <2> QED  BY <1>1, <1>7, <1>8, <2>1 DEF Quiet
  <1>11. Contract!Step(g, SubSeq(Calls[g], 1, Len(Calls[g]) - 2), Errno[g])
    BY <1>7, <1>9, <1>10, QuietMaps
  <1>12. Len(Calls[g]) > 1
    <2>1. Len(Calls[g]) = n + 2  BY <1>1, <1>3, TopSeen
    <2> QED  BY <2>1
  <1> QED  BY <1>1, <1>11, <1>12, GuardGo DEF Contract!Unwind, Contract!Pop

\* A step of g to a top frame that is seen as the one before does not show.
LEMMA TurnStutters ==
  ASSUME Basis, ThreadsApart, NEW g \in Goroutines, NEW f \in Frame, Depth(g) > 0, Become(g, f),
         UNCHANGED <<thread, errno, block>>, Seen(f)' = Seen(Top(g))
  PROVE  Calls' = Calls /\ Errno' = Errno
  <1>1. KeptSeen(g, Depth(g) - 1)  BY SameSeen
  <1>2. PICK v : v = Seen(Top(g))  OBVIOUS
  <1>3. Seen(f)' = v  BY <1>2
  <1>4. Calls'[g] = Calls[g] /\ \A h \in Goroutines \ {g} : Calls'[h] = Calls[h]
    BY <1>1, <1>2, <1>3, BecomeMaps
  <1> QED  BY <1>4, SameThreads, QuietStutters

LEMMA ReadResultsMaps ==
  ASSUME Basis, ThreadsApart, NEW g \in Goroutines, ReadResults(g)
  PROVE  Calls' = Calls /\ Errno' = Errno
  <1>1. Depth(g) > 0 /\ Top(g).kind = "call" /\ Top(g).pc = "back"
        /\ UNCHANGED <<thread, errno, block>>
    BY DEF ReadResults, At
  <1>2. PICK t \in CallFrame : t = Top(g)  BY <1>1, FrameTypes, KindOfFrame DEF Basis
  <1>3. PICK b \in Contents : b = block[t.block]
    BY <1>2, GlobalTypes DEF GlobalsOK, CallFrame, Basis
  <1>4. PICK f : f = [t EXCEPT !.pc = "done", !.r1 = b.r1, !.cerrno = b.errno]  OBVIOUS
  <1>5. Become(g, f)  BY <1>2, <1>3, <1>4 DEF ReadResults
  <1>6. /\ f \in CallFrame /\ f.kind = "call" /\ f.pc = "done"
        /\ f.r1 = b.r1 /\ f.cerrno = b.errno
    BY <1>3, <1>4 DEF CallFrame, Contents
  <1>7. f \in Frame /\ t \in Frame  BY <1>2, <1>6 DEF Frame
  <1>8. Seen(f)' = Reply(b.r1, b.errno)  BY <1>6, <1>7, SeenIs
  <1>9. Seen(t) = Reply(b.r1, b.errno)  BY <1>1, <1>2, <1>3, <1>7, SeenIs
  <1> QED  BY <1>1, <1>2, <1>5, <1>7, <1>8, <1>9, TurnStutters

LEMMA DlopenChecksMaps ==
  ASSUME Basis, ThreadsApart, NEW g \in Goroutines, DlopenChecks(g)
  PROVE  Calls' = Calls /\ Errno' = Errno
  <1>1. Depth(g) > 0 /\ Top(g).kind = "load" /\ Top(g).pc = "back"
        /\ UNCHANGED <<thread, errno, block>>
    BY DEF DlopenChecks, At
  <1>2. PICK t \in LoadFrame : t = Top(g)  BY <1>1, FrameTypes, KindOfFrame DEF Basis
  <1>3. PICK p \in {"failed", "done"} : p = IF t.result = None THEN "failed" ELSE "done"
    OBVIOUS
  <1>4. PICK f : f = [t EXCEPT !.pc = p]  OBVIOUS
  <1>5. Become(g, f)  BY <1>2, <1>3, <1>4 DEF DlopenChecks, Goto
  <1>6. f \in LoadFrame /\ f.kind = "load" /\ f.pc = p  BY <1>4 DEF LoadFrame
  <1>7. f \in Frame /\ t \in Frame  BY <1>2, <1>6 DEF Frame
  <1>8. Seen(f)' = Contract!Frame("load", "answered")  BY <1>6, <1>7, SeenIs
  <1>9. Seen(t) = Contract!Frame("load", "answered")  BY <1>1, <1>2, <1>7, SeenIs
  <1> QED  BY <1>1, <1>2, <1>5, <1>7, <1>8, <1>9, TurnStutters

LEMMA dlerrorStringMaps ==
  ASSUME Basis, ThreadsApart, NEW g \in Goroutines, NEW m \in Threads, dlerrorString(g, m)
  PROVE  Calls' = Calls /\ Errno' = Errno
  <1>1. Depth(g) > 0 /\ Top(g).kind = "load" /\ Top(g).pc = "failed"
        /\ UNCHANGED <<thread, errno, block>>
    BY DEF dlerrorString, At
  <1>2. PICK t \in LoadFrame : t = Top(g)  BY <1>1, FrameTypes, KindOfFrame DEF Basis
  <1>3. PICK x \in IdOrNone : x = dlerr[m]  BY GlobalTypes DEF GlobalsOK, Basis
  <1>4. PICK f : f = [t EXCEPT !.pc = "done", !.text = x]  OBVIOUS
  <1>5. Become(g, f)  BY <1>2, <1>3, <1>4 DEF dlerrorString
  <1>6. f \in LoadFrame /\ f.kind = "load" /\ f.pc = "done"  BY <1>3, <1>4 DEF LoadFrame
  <1>7. f \in Frame /\ t \in Frame  BY <1>2, <1>6 DEF Frame
  <1>8. Seen(f)' = Contract!Frame("load", "answered")  BY <1>6, <1>7, SeenIs
  <1>9. Seen(t) = Contract!Frame("load", "answered")  BY <1>1, <1>2, <1>7, SeenIs
  <1> QED  BY <1>1, <1>2, <1>5, <1>7, <1>8, <1>9, TurnStutters

\* cgocall returns: the answer is in the block as before, and a goroutine that
\* gives its thread back has no C function running.
LEMMA CgocallReturnsMaps ==
  ASSUME Basis, ThreadsApart, NEW g \in Goroutines, CgocallReturns(g)
  PROVE  Calls' = Calls /\ Errno' = Errno
  <1>1. /\ Depth(g) > 0 /\ Top(g).kind \in {"call", "load"} /\ Top(g).pc = "returned"
        /\ UNCHANGED <<errno, block>>
    BY DEF CgocallReturns, At
  <1>2. PICK t \in Frame : t = Top(g)  BY <1>1, TopSeen
  <1>3. PICK f : f = [t EXCEPT !.pc = "back"]  OBVIOUS
  <1>4. Become(g, f)  BY <1>2, <1>3 DEF CgocallReturns, Goto
  <1>5. PICK v : v = Seen(t)  OBVIOUS
  <1>6. f \in Frame /\ Seen(f)' = v /\ v.at # "inC"
    <2>1. CASE t.kind = "call"
      <3>1. t \in CallFrame  BY <1>2, <2>1, KindOfFrame
      <3>2. f \in CallFrame /\ f.kind = "call" /\ f.pc = "back" /\ f.block = t.block
        BY <1>3, <2>1, <3>1 DEF CallFrame
      <3>3. f \in Frame  BY <3>2 DEF Frame
      <3>4. v = Reply(block[t.block].r1, block[t.block].errno)
        BY <1>1, <1>2, <1>5, <2>1, SeenIs
      <3>5. Seen(f)' = Reply(block'[t.block].r1, block'[t.block].errno)
        BY <3>2, <3>3, SeenIs
      <3>6. v.at = "answered"  BY <3>4 DEF Reply
      <3> QED  BY <1>1, <3>3, <3>4, <3>5, <3>6
    <2>2. CASE t.kind = "load"
      <3>1. t \in LoadFrame  BY <1>2, <2>2, KindOfFrame
      <3>2. f \in LoadFrame /\ f.kind = "load" /\ f.pc = "back"
        BY <1>3, <2>2, <3>1 DEF LoadFrame
      <3>3. f \in Frame  BY <3>2 DEF Frame
      <3>4. v = Contract!Frame("load", "answered")
        BY <1>1, <1>2, <1>5, <2>2, SeenIs
      <3>5. Seen(f)' = Contract!Frame("load", "answered")  BY <3>2, <3>3, SeenIs
      <3>6. v.at = "answered"  BY <3>4 DEF Contract!Frame
      <3> QED  BY <3>3, <3>4, <3>5, <3>6
    <2> QED  BY <1>1, <1>2, <2>1, <2>2
  <1>7. KeptSeen(g, Depth(g) - 1)  BY <1>1, SameSeen
  <1>8. /\ Calls'[g] = Calls[g] /\ \A h \in Goroutines \ {g} : Calls'[h] = Calls[h]
        /\ Depth(g) = 1 => ~Contract!Running(Calls'[g])
    BY <1>1, <1>2, <1>4, <1>5, <1>6, <1>7, BecomeMaps
  <1>9. /\ thread'[g] = (IF Depth(g) = 1 THEN None ELSE thread[g])
        /\ \A h \in Goroutines \ {g} : thread'[h] = thread[h]
    <2>1. PICK l : l = Depth(g)  OBVIOUS
    <2>2. l \in Nat  BY <2>1, FrameTypes DEF Depth, Basis
    <2>3. l - 1 = 0 <=> l = 1  BY <2>2
    <2>4. thread' = [thread EXCEPT ![g] = ThreadBelow(g, l - 1)]  BY <2>1 DEF CgocallReturns
    <2> QED  BY <2>1, <2>3, <2>4, GlobalTypes DEF ThreadBelow, Basis
  <1>10. Alone(g)  BY <1>1, <1>8, <1>9 DEF Alone
  <1>11. Contract!Running(Calls[g]) => thread'[g] = thread[g]  BY <1>8, <1>9
  <1>12. Quiet(g)  BY <1>1, <1>8, <1>11 DEF Quiet
  <1> QED  BY <1>8, <1>10, <1>11, <1>12, QuietStutters

LEMMA GrowStackMaps ==
  ASSUME Basis, ThreadsApart, NEW g \in Goroutines, GrowStack(g)
  PROVE  Calls' = Calls /\ Errno' = Errno
  <1>1. UNCHANGED <<thread, errno, block>>  BY DEF GrowStack
  <1>2. stack[g] \in Seq(Frame) /\ DOMAIN stack[g] = 1..Len(stack[g])
    BY DEF Basis, IInv, TypeOK
  <1>3. /\ \A h \in Goroutines \ {g} : stack'[h] = stack[h]
        /\ stack'[g] = [d \in DOMAIN stack[g] |->
                          IF stack[g][d].kind = "load" THEN [stack[g][d] EXCEPT !.moved = TRUE]
                          ELSE stack[g][d]]
    BY DEF GrowStack, OnGoStack, Basis, IInv, TypeOK
  <1>4. ASSUME NEW d \in DOMAIN stack[g]
        PROVE  Seen(stack[g][d])' = Seen(stack[g][d])
    <2>1. PICK k \in Frame : k = stack[g][d]  BY <1>2
    <2>2. PICK f : f = stack'[g][d]  OBVIOUS
    <2>3. f = IF k.kind = "load" THEN [k EXCEPT !.moved = TRUE] ELSE k
      BY <1>3, <2>1, <2>2
    <2>4. Seen(f)' = Seen(k)
      <3>1. CASE k.kind = "load"
        <4>1. k \in LoadFrame  BY <3>1, KindOfFrame
        <4>2. f \in LoadFrame /\ f.kind = "load" /\ f.pc = k.pc
          BY <2>3, <3>1, <4>1 DEF LoadFrame
        <4>3. f \in Frame  BY <4>2 DEF Frame
        <4>4. CASE k.pc = "ready"
          <5>1. Seen(k) = Contract!Frame("load", "asked")  BY <3>1, <4>4, SeenIs
          <5>2. Seen(f)' = Contract!Frame("load", "asked")  BY <4>2, <4>3, <4>4, SeenIs
          <5> QED  BY <5>1, <5>2
        <4>5. CASE k.pc = "inC"
          <5>1. Seen(k) = Contract!Frame("load", "inC")  BY <3>1, <4>5, SeenIs
          <5>2. Seen(f)' = Contract!Frame("load", "inC")  BY <4>2, <4>3, <4>5, SeenIs
          <5> QED  BY <5>1, <5>2
        <4>6. CASE k.pc \notin {"ready", "inC"}
          <5>1. Seen(k) = Contract!Frame("load", "answered")  BY <3>1, <4>6, SeenIs
          <5>2. Seen(f)' = Contract!Frame("load", "answered")  BY <4>2, <4>3, <4>6, SeenIs
          <5> QED  BY <5>1, <5>2
        <4> QED  BY <4>4, <4>5, <4>6
      <3>2. CASE k.kind # "load"
        <4>1. f = k  BY <2>3, <3>2
        <4>2. Seen(k)' = Seen(k)  BY <1>1 DEF Seen
        <4> QED  BY <4>1, <4>2
      <3> QED  BY <3>1, <3>2
    <2>5. Seen(stack[g][d])' = Seen(f)'  BY <2>2, SeenNext
    <2> QED  BY <2>1, <2>4, <2>5
  <1>5. Calls'[g] = Calls[g]
    <2>1. PICK s \in Seq(Views) : s = Calls[g]  BY DEF Basis, CallsTyped
    <2>2. PICK t \in Seq(Views) : t = Calls'[g]  BY DEF Basis, CallsTyped
    <2>3. Len(stack'[g]) = Len(stack[g])
      <3>1. DOMAIN stack'[g] = DOMAIN stack[g]  BY <1>3
      <3>2. stack'[g] \in Seq(Frame)  BY DEF Basis, IInv, TypeOK
      <3> QED  BY <1>2, <3>1, <3>2
    <2>4. Len(s) = Len(stack[g]) /\ Len(t) = Len(stack[g])
      BY <2>1, <2>2, <2>3 DEF Basis, CallsTyped
    <2>5. ASSUME NEW d \in 1..Len(s) PROVE s[d] = t[d]
      <3>1. s[d] = Seen(stack[g][d])  BY <2>1, <2>4 DEF Basis, CallsTyped
      <3>2. t[d] = Seen(stack[g][d])'  BY <2>2, <2>3, <2>4 DEF Basis, CallsTyped
      <3> QED  BY <1>2, <1>4, <2>4, <3>1, <3>2
    <2> QED  BY <2>1, <2>2, <2>4, <2>5, SeqEqual
  <1>6. ASSUME NEW h \in Goroutines \ {g} PROVE Calls'[h] = Calls[h]
    BY <1>1, <1>3 DEF Calls, Seen
  <1> QED  BY <1>1, <1>5, <1>6, SameThreads, QuietStutters

LEMMA ContractStep ==
  ASSUME IInv, IInv', ThreadsApart, [Next]_vars
  PROVE  [Contract!Next]_<<Calls, Errno>>
  <1>1. CallsTyped /\ CallsTyped'  BY CallsAre, CallsAreNext
  <1>2. Basis  BY <1>1 DEF Basis
  <1>3. CASE UNCHANGED vars
    <2>1. UNCHANGED <<stack, thread, errno, block>>  BY <1>3 DEF vars
    <2>2. Calls' = Calls /\ Errno' = Errno  BY <2>1 DEF Calls, Errno, Seen, Running
    <2> QED  BY <2>2
  <1>4. ASSUME NEW g \in Goroutines, NEW b \in Blocks, CallNFloatErrno(g, b)
        PROVE  Contract!Next
    <2>1. Contract!Begin(g)  BY <1>2, <1>4, CallNFloatErrnoMaps
    <2> QED  BY <2>1 DEF Contract!Next
  <1>5. ASSUME NEW g \in Goroutines, NEW m \in Threads, Enter(g, m)
        PROVE  Contract!Next
    <2>1. Contract!Enter(g)  BY <1>2, <1>5, EnterMaps
    <2> QED  BY <2>1 DEF Contract!Next
  <1>6. ASSUME NEW g \in Goroutines, SetErrno(g) \/ CReturns(g) \/ DlopenReturns(g)
        PROVE  Contract!Next
    <2>1. Contract!SetErrno(g) \/ Contract!Answer(g)
      BY <1>2, <1>6, SetErrnoMaps, CReturnsMaps, DlopenReturnsMaps
    <2> QED  BY <2>1 DEF Contract!Next
  <1>7. ASSUME NEW g \in Goroutines, Return(g) \/ LoadLibrary(g) \/ Dlopen(g)
        PROVE  Contract!Next
    <2>1. Contract!Return(g) \/ Contract!Begin(g)
      BY <1>2, <1>7, ReturnMaps, LoadLibraryMaps, DlopenMaps
    <2> QED  BY <2>1 DEF Contract!Next
  <1>8. ASSUME NEW g \in Goroutines, CCallsBack(g) \/ GoReturns(g) \/ Unwind(g)
        PROVE  Contract!Next
    <2>1. Contract!CallBack(g) \/ Contract!GoReturns(g) \/ Contract!Unwind(g)
      BY <1>2, <1>8, CCallsBackMaps, GoReturnsMaps, UnwindMaps
    <2> QED  BY <2>1 DEF Contract!Next
  <1>9. ASSUME NEW g \in Goroutines,
               \/ CgocallReturns(g) \/ ReadResults(g) \/ GrowStack(g) \/ DlopenChecks(g)
               \/ \E m \in Threads : dlerrorString(g, m)
        PROVE  Calls' = Calls /\ Errno' = Errno
    BY <1>2, <1>9, CgocallReturnsMaps, ReadResultsMaps, GrowStackMaps, DlopenChecksMaps,
       dlerrorStringMaps
  <1> QED  BY <1>3, <1>4, <1>5, <1>6, <1>7, <1>8, <1>9 DEF Next

LEMMA ContractInit == Init => Contract!Init
  <1> SUFFICES ASSUME Init PROVE Contract!Init  OBVIOUS
  <1>1. \A g \in Goroutines : stack[g] = <<>>  BY DEF Init
  <1>2. ASSUME NEW g \in Goroutines
        PROVE  Calls[g] = <<>> /\ Errno[g] = None
    <2>1. DOMAIN stack[g] = {}  BY <1>1
    <2>2. Calls[g] = [d \in {} |-> Seen(stack[g][d])]  BY <2>1 DEF Calls
    <2>3. <<>> = [d \in {} |-> Seen(stack[g][d])]  OBVIOUS
    <2>4. ~Running(g)  BY <2>1 DEF Running
    <2> QED  BY <2>2, <2>3, <2>4 DEF Errno
  <1>3. Calls = [g \in Goroutines |-> Calls[g]] /\ Errno = [g \in Goroutines |-> Errno[g]]
    BY DEF Calls, Errno
  <1>4. Calls = [g \in Goroutines |-> <<>>] /\ Errno = [g \in Goroutines |-> None]
    BY <1>2, <1>3
  <1> QED  BY <1>4 DEF Contract!Init

\* CallNFloatErrno and LoadLibrary are atomic to the goroutine that calls them: its
\* calls are answered in one step, with the errno that nobody else touched.
THEOREM CallsImplementContract == Spec => CallsAreAtomic
  <1>1. IInv /\ IInv' /\ ThreadsApart /\ [Next]_vars => [Contract!Next]_<<Calls, Errno>>
    BY ContractStep
  <1> QED  BY <1>1, ContractInit, Invariance, OwnThread, PTL
           DEF Spec, CallsAreAtomic, Contract!Spec
================================================================================
